------------------------------ MODULE MCMigration ------------------------------
(* Instances of MDSMigration for TLC: three ranks, the first one the       *)
(* authority, the other two interchangeable.                               *)
EXTENDS MDSMigration, TLC

CONSTANTS r1, r2, r3

Others == Permutations(Ranks \ {Owner0})

(* A view for runs with several failures: nothing depends on maps that     *)
(* every process has left behind, nor on how many there were.  Epochs are  *)
(* only compared with each other, so they are counted from the oldest map  *)
(* that some process still has.                                            *)
Oldest == CHOOSE e \in {node[r].epoch : r \in alive} \cup {Now} :
            \A r \in alive : e <= node[r].epoch
Age(e) == IF e < Oldest THEN 0 ELSE e - Oldest

Recent ==
    <<SubSeq(mdsmap, Oldest, Now), alive, durable, lastTid, used, asserts,
      [r \in Ranks |-> [node[r] EXCEPT !.epoch = Age(@)]],
      [x \in Ranks |-> [y \in Ranks |-> [i \in DOMAIN net[x][y] |->
            [net[x][y][i] EXCEPT !.ep = Age(@)]]]]>>

=============================================================================
