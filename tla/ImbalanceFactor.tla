----------------------------- MODULE ImbalanceFactor -----------------------------
(***************************************************************************)
(* What rank 0 computes from the request rates of all ranks: whether the   *)
(* cluster is out of balance, who is to export, to whom and how much       *)
(* (MDBalancer::handle_ifbeat, lines 545-680).                             *)
(*                                                                         *)
(* x[r] is the IOPS of rank r times the seconds of an interval, so a whole *)
(* number; ranks are 0..n-1.  It may be negative: it is the difference of  *)
(* two counters.  Percentages replace the fractions, and squares the       *)
(* square roots, so that every comparison of the code is one between       *)
(* integers; the doubles of the code are taken to be exact in these.       *)
(***************************************************************************)
EXTENDS Integers, Sequences, FiniteSetsExt

CONSTANTS
    Threshold,      \* mds_bal_ifthreshold, in percent
    Interval,       \* mds_bal_interval, in seconds
    Urgency(_)      \* the logistic function of IOPS / mds_bal_presetmax, in percent

Size(x) == Cardinality(DOMAIN x)
Total(x) == SumFunction(x)
SumQuadratic(x) == SumFunction([r \in DOMAIN x |-> (Size(x) * x[r] - Total(x))^2])
MaxIOPS(x) == Max(Range(x))

(* imbalance_factor >= mds_bal_ifthreshold.  The factor is the standard    *)
(* deviation over sqrt(n) times the average, times the urgency.            *)
IsImbalanced(x) ==
    /\ Total(x) > 0
    /\ SumQuadratic(x) * Urgency(MaxIOPS(x))^2
         >= Threshold^2 * Size(x) * (Size(x) - 1) * Total(x)^2

(* my_if against my_if_threshold, which is the threshold divided by the    *)
(* number of ranks, by 3 at most: both sides squared.                      *)
MaxExporters == 3
MyIf2(x, r) == (Size(x) * x[r] - Total(x))^2 * Min({Size(x), MaxExporters})^2 * 100^2
Bar2(x) == Threshold^2 * Size(x) * (Size(x) - 1) * Total(x)^2
IsBigger(x, r) == Size(x) * x[r] > Total(x)

(* begin minus the iterator of the first greatest or smallest element.     *)
MaxPos(x) == 0 - Min({r \in DOMAIN x : x[r] = Max(Range(x))})
MinPos(x) == 0 - Min({r \in DOMAIN x : x[r] = Min(Range(x))})

(* my_imbalance_vector after the sort, which leaves the first element in   *)
(* place and does not say how equal ones are ordered: v[i] is the rank     *)
(* whose summary is at position i.                                         *)
SortedVectors(x) ==
    {v \in Bijection(DOMAIN x, DOMAIN x) :
        /\ v[0] = 0
        /\ \A i, j \in DOMAIN x \ {0} : i < j => MyIf2(x, v[i]) >= MyIf2(x, v[j])}

(* Variant: the busiest rank by position and no test of is_bigger.           *)
IsExporterOfAnySide(x, r) == MaxPos(x) = r \/ MyIf2(x, r) > Bar2(x)

IsExporter(x, r) ==
    /\ MaxPos(x) = r \/ MyIf2(x, r) > Bar2(x)
    /\ IsBigger(x, r)

IsImporter(x, r) ==
    /\ ~IsBigger(x, r)
    /\ MyIf2(x, r) >= Bar2(x) \/ MinPos(x) = r

(* The importers that exporter r is matched with, in the order of the      *)
(* vector, at most three: the share starts at LUNULE_MIG_AMOUNT, a         *)
(* quarter, is halved each time, and the loop ends when it is down to the  *)
(* threshold.                                                              *)
Amount(k) == 2^(k + 1)
MaxImporters(x) ==
    Min({MaxExporters} \cup {k \in 1 .. MaxExporters :
            100 * Min({Size(x), MaxExporters}) <= Threshold * Amount(k + 1)})
Matched(x, v, r) ==
    LET im[n \in 0 .. Size(x)] ==
          IF n = 0 THEN <<>>
          ELSE IF /\ v[n-1] # r /\ IsImporter(x, v[n-1])
                  /\ Len(im[n-1]) < MaxImporters(x)
               THEN Append(im[n-1], v[n-1])
               ELSE im[n-1]
    IN  im
Importers(x, v, r) == Matched(x, v, r)[Size(x)]

(* migration_decision_t: the rank to export to and the share of the load,  *)
(* target_export_percent, as a fraction.  The share comes from the IOPS of *)
(* rank p, the position in the sorted vector.                              *)
(* Variant: the target rank is off by one.                                  *)
ShareOffByOne(x, p, to, k) == [to |-> to + 1, num |-> x[p] - x[to], den |-> x[p] * Amount(k)]

Share(x, p, to, k) == [to |-> to, num |-> x[p] - x[to], den |-> x[p] * Amount(k)]
Decision(x, v, p) ==
    LET im == Importers(x, v, v[p])
    IN  [k \in DOMAIN im |-> Share(x, p, im[k], k)]

(* "Wrong load": the handler returns at once when an exporter that has     *)
(* somebody to export to has an IOPS of 1 or less.                         *)
WrongLoad(x, v, p) ==
    IsExporter(x, v[p]) /\ Importers(x, v, v[p]) # <<>> /\ x[v[p]] <= Interval

(* The loop over the other ranks, then rank 0 itself: the positions whose  *)
(* decisions are sent or carried out.                                      *)
Decided(x, v) ==
    LET reached(p) == \A q \in DOMAIN x \ {0} : (q <= p \/ p = 0) => ~WrongLoad(x, v, q)
    IN  {p \in DOMAIN x : /\ IsExporter(x, v[p])
                          /\ reached(p)
                          /\ p = 0 => ~WrongLoad(x, v, 0)}

Decisions(x, v) ==
    IF IsImbalanced(x)
    THEN [r \in {v[p] : p \in Decided(x, v)} |-> Decision(x, v, CHOOSE p \in DOMAIN x : v[p] = r)]
    ELSE <<>>

=============================================================================
