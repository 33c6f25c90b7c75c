-------------------------------- MODULE MCTable ---------------------------------
(* Small instances of MDSTable: r0 has the table server, r1 is a client    *)
(* only.                                                                   *)
EXTENDS MDSTable

CONSTANTS r0, r1

=============================================================================
