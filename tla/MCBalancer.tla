------------------------------- MODULE MCBalancer -------------------------------
(* Three ranks and an interval of two seconds.  mds_bal_presetmax is 3, so *)
(* an IOPS of 0, 1, 2 and 3 has an urgency of 1, 16, 84 and 99 percent.    *)
(* An int has six bits and a float a precision of two, so that counters   *)
(* soon are rounded, exceed what Near allows and change their sign.        *)
EXTENDS MDBalancer

UrgencyOf3(x) == CASE x < 0 -> 0 [] x \in 0 .. 1 -> 1 [] x \in 2 .. 3 -> 16 [] x \in 4 .. 5 -> 84 [] x > 5 -> 99

Of(a, b, c) == [r \in 0 .. 2 |-> CASE r = 0 -> a [] r = 1 -> b [] r = 2 -> c]
SomeProfiles == {Of(3, 0, 1), Of(16, 0, 2), Of(0, 5, 3)}

=============================================================================
