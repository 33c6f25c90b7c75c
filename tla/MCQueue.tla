-------------------------------- MODULE MCQueue --------------------------------
(* Rank 1 of three.  Its subtrees are a, an import from rank 0, of which b *)
(* may be left for a second export and then goes to rank 2; p, pinned to   *)
(* rank 2; and, in the run of Stops, c.                                    *)
EXTENDS ExportQueue

CONSTANTS a, b, c, p

Parts == [d \in Dirs |-> IF d = a THEN {b} ELSE {}]
PinOfP == [d \in Dirs |-> IF d = p THEN 2 ELSE NoRank]
Homes == [d \in Dirs |-> CASE d = a -> 0 [] d = b -> 2 [] OTHER -> Me]

=============================================================================
