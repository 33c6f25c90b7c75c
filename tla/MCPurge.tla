-------------------------------- MODULE MCPurge --------------------------------
(* Instances of PurgeQueue for TLC.                                        *)
EXTENDS PurgeQueue

CONSTANTS i1, i2

(* A file with a single object, and one with more.                         *)
OpsOfFile(i) == IF i = i1 THEN 2 ELSE 3

=============================================================================
