------------------------------- MODULE MDBalancer -------------------------------
(***************************************************************************)
(* The balancer of Lunule (mds_bal_ifenable # 0).  Rank 0 opens an epoch   *)
(* with a heartbeat, every rank answers with a heartbeat and an IF beat    *)
(* that carry its load, and rank 0, once it has the loads of all ranks,    *)
(* computes the imbalance factor and tells the busy ranks how much to      *)
(* export to whom.                                                         *)
(*                                                                         *)
(* A load is the request counter of a process, which starts at 0 with the  *)
(* process.  It goes through two conversions that lose something: the      *)
(* counter is returned as an int, and rank 0 keeps it as a float.          *)
(***************************************************************************)
EXTENDS ImbalanceFactor

CONSTANTS
    N,          \* get_num_in_mds(): the ranks are 0..N-1
    Profiles,   \* what the ranks may serve in one interval
    IntSpan,    \* how many values an int has, 2^32
    Precision,  \* the whole numbers below this are floats, 2^24
    Ulps,       \* how far neighbouring floats are apart: 1, 2, 4 and so on
    MaxTick,    \* bound: intervals
    MaxTrouble  \* bound: processes that die, intervals that end before their beats arrive

Ranks == 0 .. N-1

ASSUME BalancerAssumption ==
    /\ N \in Nat \ {0, 1}
    /\ Threshold \in Nat \ {0}
    /\ Profiles \subseteq [Ranks -> Nat]
    /\ {MaxTick, MaxTrouble} \subseteq Nat

(* Floats are 1 apart below Precision and twice as far above each of       *)
(* Precision, 2 * Precision, 4 * Precision ..., up to what an int can be.  *)
ASSUME NumberAssumption ==
    /\ {Interval, IntSpan, Precision} \subseteq Nat \ {0}
    /\ Ulps \subseteq Nat \ {0}
    /\ \A u \in Ulps \ {1} : \E w \in Ulps : u = 2 * w
    /\ 1 \in Ulps
    /\ \E u \in Ulps : IntSpan <= Precision * u

VARIABLES
    down,       \* the ranks without a process; the cluster is degraded if any
    requests,   \* l_mds_request: the requests each process has served
    beat_epoch, \* the epoch each rank is in
    mds_load,   \* the loads each rank has, by rank
    old_req,    \* rank 0: the counters of the last computation, by rank
    net,        \* net[x][y]: beats on their way from x to y, in order
    orders,     \* the decision each rank has acted on last
    h,          \* history: what happened in the open epoch, see NewRound
    used        \* how often each bounded event has happened

vars == <<down, requests, beat_epoch, mds_load, old_req, net, orders, h, used>>

(* get_req_rate() is an int: the lower bits of the 64-bit counter.         *)
Half == IntSpan \div 2
Ints == (0 - Half) .. (IntSpan - Half - 1)
ToInt(n) == ((n + Half) % IntSpan) - Half

(* old_req is a map of floats: an int that is stored in it becomes the     *)
(* nearest float, the even one of two that are equally near.               *)
Abs(z) == IF z < 0 THEN 0 - z ELSE z
Ulp(n) == Min({u \in Ulps : n < Precision * u})
Nearest(n, u) ==
    LET q == n \div u
        r == n % u
        up == 2 * r > u \/ (2 * r = u /\ q % 2 = 1)
    IN  IF up THEN u * (q + 1) ELSE u * q
Float(z) == IF z < 0 THEN 0 - Nearest(0 - z, Ulp(0 - z)) ELSE Nearest(z, Ulp(z))

(* A load as others see it.  epoch is that of the beat it came with; the   *)
(* code has it in the message and does not keep it.                        *)
Load == [req : Ints, epoch : Nat]
LoadOf(r, e) == [req |-> ToInt(requests[r]), epoch |-> e]

(* MHeartbeat and MIFBeat.  An IF beat with a value of -1 only reports a   *)
(* load; one with the imbalance factor has a decision.                     *)
Shares == [to : Ranks, num : Int, den : Int]
Heartbeat(e, load) == [type |-> "hb", beat |-> e, load |-> load]
IFBeat(e, load, decides, dec) ==
    [type |-> "if", beat |-> e, load |-> load, decides |-> decides, dec |-> dec]
Beat == [type : {"hb"}, beat : Nat, load : Load]
          \cup [type : {"if"}, beat : Nat, load : Load, decides : BOOLEAN, dec : Seq(Shares)]

Degraded == down # {}
Quiet == \A s, d \in Ranks : net[s][d] = <<>>

Receives(s, d, type) == net[s][d] # <<>> /\ Head(net[s][d]).type = type
Received(s, d) == [net EXCEPT ![s][d] = Tail(@)]
Send(n, s, d, m) == [n EXCEPT ![s][d] = Append(@, m)]
Scatter(n, s, m) == [n EXCEPT ![s] = [d \in Ranks |-> IF d = s THEN @[d] ELSE Append(@[d], m)]]

(* map::insert, which keeps what is there, and an assignment.              *)
Insert(f, k, v) == [i \in DOMAIN f \cup {k} |-> IF i \in DOMAIN f THEN f[i] ELSE v]
Put(f, k, v) == [i \in DOMAIN f \cup {k} |-> IF i = k THEN v ELSE f[i]]

(* The history.  base: the counter of each process when rank 0 computed    *)
(* last; suspect: the ranks whose counter rank 0 may have wrong at its     *)
(* next computation.  For the open epoch: whether a process died in it or  *)
(* it began before the beats of the former were delivered, whether rank 0  *)
(* computed, how many orders to export something it made for each rank.    *)
(* For the last computation: the ranks it knew and the rates it used, the  *)
(* counters at the one before and what was really served since, the        *)
(* suspect ranks, and the decisions.                                       *)
Zero == [r \in Ranks |-> 0]
NewRound(base, suspect, troubled) ==
    [base |-> base, suspect |-> suspect, troubled |-> troubled, computed |-> 0, given |-> Zero,
     known |-> {}, x |-> Zero, from |-> Zero, since |-> Zero, doubted |-> {}, dec |-> <<>>]

Init ==
    /\ down = {}
    /\ requests = Zero
    /\ beat_epoch = Zero
    /\ mds_load = [r \in Ranks |-> <<>>]
    /\ old_req = <<>>
    /\ net = [s \in Ranks |-> [d \in Ranks |-> <<>>]]
    /\ orders = [r \in Ranks |-> <<>>]
    /\ h = NewRound(Zero, {}, FALSE)
    /\ used = [tick |-> 0, trouble |-> 0]

-----------------------------------------------------------------------------
(* Rank 0's loads at the start of an epoch: its own only.                  *)
(* Variant: those of the former epoch are kept.                             *)
LoadsNotCleared(load) == Insert(mds_load[0], 0, load)
ClearedLoads(load) == Insert(<<>>, 0, load)

(* The interval is over: the ranks have served what a profile says, and    *)
(* rank 0 calls send_heartbeat, which does nothing in a degraded cluster.  *)
(* Else it opens the next epoch and forgets the loads of the former one.   *)
SendHeartbeat0(req) ==
    LET e == beat_epoch[0] + 1
        load == [req |-> ToInt(req[0]), epoch |-> e]
    IN  /\ beat_epoch' = [beat_epoch EXCEPT ![0] = e]
        /\ mds_load' = [mds_load EXCEPT ![0] = ClearedLoads(load)]
        /\ net' = Scatter(net, 0, Heartbeat(e, load))
        /\ h' = IF Quiet THEN NewRound(h.base, h.suspect, FALSE) ELSE NewRound(h.base, Ranks, TRUE)

Tick ==
    /\ 0 \notin down /\ used.tick < MaxTick
    /\ Quiet \/ used.trouble < MaxTrouble
    /\ used' = [used EXCEPT !.tick = @ + 1, !.trouble = IF Quiet THEN @ ELSE @ + 1]
    /\ \E served \in Profiles :
          /\ requests' = [r \in Ranks |-> IF r \in down THEN 0 ELSE requests[r] + served[r]]
          /\ IF Degraded
             THEN /\ h' = IF Quiet THEN h ELSE [h EXCEPT !.suspect = Ranks, !.troubled = TRUE]
                  /\ UNCHANGED <<beat_epoch, mds_load, net>>
             ELSE SendHeartbeat0(requests')
    /\ UNCHANGED <<down, old_req, orders>>

(* A beat in a degraded cluster is ignored.                                *)
IgnoreBeat ==
    /\ Degraded
    /\ \E s, d \in Ranks : net[s][d] # <<>> /\ net' = Received(s, d)
    /\ UNCHANGED <<down, requests, beat_epoch, mds_load, old_req, orders, h, used>>

(* Whether rank d answers a heartbeat: one from rank 0 it does.            *)
(* Variant: only one that opens an epoch it has not heard of.               *)
AnswersNewEpoch(s, d) == s = 0 /\ Head(net[s][d]).beat > beat_epoch[d]
Answers(s, d) == s = 0

(* handle_heartbeat.  A rank that hears of a later epoch enters it; on     *)
(* rank 0's heartbeat it answers with its own, to all, and an IF beat.     *)
(* The load of the sender is stored whatever epoch it is from.             *)
HandleHeartbeat(s, d) ==
    LET m == Head(net[s][d])
        newer == d # 0 /\ m.beat > beat_epoch[d]
        e == IF newer \/ s = 0 THEN m.beat ELSE beat_epoch[d]
        kept == IF newer \/ (s = 0 /\ m.beat # beat_epoch[d]) THEN <<>> ELSE mds_load[d]
        mine == LoadOf(d, e)
        answer(n) == Send(Scatter(n, d, Heartbeat(e, mine)), d, 0, IFBeat(e, mine, FALSE, <<>>))
    IN  /\ ~Degraded /\ Receives(s, d, "hb")
        /\ beat_epoch' = [beat_epoch EXCEPT ![d] = e]
        /\ mds_load' = [mds_load EXCEPT
             ![d] = Put(IF s = 0 THEN Insert(kept, d, mine) ELSE kept, s, m.load)]
        /\ net' = IF Answers(s, d) THEN answer(Received(s, d)) ELSE Received(s, d)
        /\ UNCHANGED <<down, requests, old_req, orders, h, used>>

(* old_req after a computation: the counters it has used.                  *)
(* Variant: an entry is inserted once and never replaced.                   *)
CountersInserted(load) ==
    [r \in Ranks |-> IF r \in DOMAIN old_req THEN old_req[r] ELSE Float(load[r].req)]
Counters(load) == [r \in Ranks |-> Float(load[r].req)]

(* IOPSvector: what each rank has served since the last computation.       *)
Rates(load) == [r \in Ranks |-> IF r \in DOMAIN old_req THEN load[r].req - old_req[r] ELSE 0]

(* The decisions go to the ranks they are for, rank 0's own excepted.      *)
Tell(n, dec) ==
    LET beat(d) == IFBeat(beat_epoch[0], LoadOf(0, beat_epoch[0]), TRUE, dec[d])
    IN  [n EXCEPT ![0] = [d \in Ranks |->
            IF d # 0 /\ d \in DOMAIN dec THEN Append(n[0][d], beat(d)) ELSE n[0][d]]]

Computed(x, dec) ==
    [h EXCEPT !.computed = 1, !.base = requests,
              !.suspect = IF h.troubled THEN @ ELSE {},
              !.given = [r \in Ranks |-> @[r] + (IF r \in DOMAIN dec /\ dec[r] # <<>> THEN 1 ELSE 0)],
              !.known = DOMAIN old_req, !.x = x, !.doubted = h.suspect, !.dec = dec,
              !.from = h.base, !.since = [r \in Ranks |-> requests[r] - h.base[r]]]

(* simple_determine_rebalance hands a decision to the queue of exports, in *)
(* place of what is in it.                                                 *)
Compute(load, n) ==
    /\ old_req' = Counters(load)
    /\ \E v \in SortedVectors(Rates(load)) :
          LET dec == Decisions(Rates(load), v)
          IN  /\ net' = Tell(n, dec)
              /\ orders' = IF 0 \in DOMAIN dec THEN [orders EXCEPT ![0] = dec[0]] ELSE orders
              /\ h' = Computed(Rates(load), dec)

(* handle_ifbeat at rank 0: a beat of another epoch is ignored; the load   *)
(* is added unless a heartbeat brought one; with all loads, rank 0 acts.   *)
HandleIfbeat0(s) ==
    LET m == Head(net[s][0])
        load == Insert(mds_load[0], s, m.load)
    IN  /\ ~Degraded /\ Receives(s, 0, "if")
        /\ \/ /\ m.beat # beat_epoch[0]
              /\ net' = Received(s, 0)
              /\ UNCHANGED <<mds_load, old_req, orders, h>>
           \/ /\ m.beat = beat_epoch[0]
              /\ mds_load' = [mds_load EXCEPT ![0] = load]
              /\ IF Cardinality(DOMAIN load) = N
                 THEN Compute(load, Received(s, 0))
                 ELSE net' = Received(s, 0) /\ UNCHANGED <<old_req, orders, h>>
        /\ UNCHANGED <<down, requests, beat_epoch, used>>

(* handle_ifbeat at another rank: carry out the decision.                  *)
HandleIfbeat(d) ==
    LET m == Head(net[0][d])
    IN  /\ ~Degraded /\ d # 0 /\ Receives(0, d, "if")
        /\ m.decides
        /\ orders' = [orders EXCEPT ![d] = m.dec]
        /\ net' = Received(0, d)
        /\ UNCHANGED <<down, requests, beat_epoch, mds_load, old_req, h, used>>

(* A process dies, and its messages with it; a new one takes the rank.     *)
Fail(r) ==
    /\ r \notin down /\ used.trouble < MaxTrouble
    /\ used' = [used EXCEPT !.trouble = @ + 1]
    /\ down' = down \cup {r}
    /\ requests' = [requests EXCEPT ![r] = 0]
    /\ beat_epoch' = [beat_epoch EXCEPT ![r] = 0]
    /\ mds_load' = [mds_load EXCEPT ![r] = <<>>]
    /\ old_req' = IF r = 0 THEN <<>> ELSE old_req
    /\ net' = [s \in Ranks |-> [d \in Ranks |-> IF r \in {s, d} THEN <<>> ELSE net[s][d]]]
    /\ orders' = [orders EXCEPT ![r] = <<>>]
    /\ h' = [h EXCEPT !.troubled = TRUE, !.base[r] = 0, !.suspect = @ \cup {r}]

Recover(r) ==
    /\ r \in down
    /\ down' = down \ {r}
    /\ UNCHANGED <<requests, beat_epoch, mds_load, old_req, net, orders, h, used>>

Next ==
    \/ Tick
    \/ IgnoreBeat
    \/ \E s, d \in Ranks : HandleHeartbeat(s, d)
    \/ \E r \in Ranks : HandleIfbeat0(r) \/ HandleIfbeat(r) \/ Fail(r) \/ Recover(r)

Spec == Init /\ [][Next]_vars

-----------------------------------------------------------------------------
TypeOK ==
    /\ down \subseteq Ranks
    /\ requests \in [Ranks -> Nat]
    /\ beat_epoch \in [Ranks -> Nat]
    /\ \A r \in Ranks : DOMAIN mds_load[r] \subseteq Ranks /\ Range(mds_load[r]) \subseteq Load
    /\ DOMAIN old_req \subseteq Ranks /\ Range(old_req) \subseteq Int
    /\ \A s, d \in Ranks : net[s][d] \in Seq(Beat)
    /\ orders \in [Ranks -> Seq(Shares)]

(* Whether a counter kept to one turn as an int between two computations,  *)
(* and how large it may be that the float of it is exact, or so near that  *)
(* the error looks like a rate of 1 at most.                               *)
NoWrap(r) == ToInt(h.from[r] + h.since[r]) = ToInt(h.from[r]) + h.since[r]
Exact(n) == Abs(ToInt(n)) < Precision
Near(n) == Abs(ToInt(n)) <= Interval * Precision

(* The rates of a computation are what the ranks have served since the one *)
(* before, for the ranks that were there then, unless a process died or an *)
(* interval overlapped meanwhile: IOPSvector (521-548), whose counters     *)
(* come from whichever of two beats is first, and are used again and again.*)
(* They are off by no more than one part in Precision of the old counter,  *)
(* which is a float (MDBalancer.h:175), so exact while it is small.        *)
RealLoads ==
    \A r \in h.known \ h.doubted :
        NoWrap(r) => Precision * Abs(h.x[r] - h.since[r]) <= Abs(ToInt(h.from[r]))

(* Who is told to export has served more than the average since the last   *)
(* computation, and who is to import has not: what the decision loops      *)
(* (618-681) are for.  That is so while all old counters are exact.  Even  *)
(* when they are not, no rank that was idle is to export something, while  *)
(* the error of its own is less than the load the code calls wrong (632).  *)
OrdersFollowLoad ==
    h.doubted = {} /\ (\A r \in Ranks : NoWrap(r)) =>
        \A r \in DOMAIN h.dec :
            /\ (\A q \in Ranks : Exact(h.from[q])) =>
                  /\ IsBigger(h.since, r)
                  /\ \A k \in DOMAIN h.dec[r] : ~IsBigger(h.since, h.dec[r][k].to)
            /\ h.dec[r] # <<>> /\ Near(h.from[r]) => h.since[r] > 0

(* No rank is told twice to export something in an epoch that began in     *)
(* order and saw nobody die, though every IF beat that finds all loads     *)
(* makes rank 0 compute again (512): the second time no rank has served    *)
(* anything since, and what the floats leave of the counters is too small  *)
(* to pass for a load (632), while the counters are as large as Near says. *)
OneOrderPerEpoch ==
    ~h.troubled /\ (\A r \in Ranks : Near(requests[r])) => \A r \in Ranks : h.given[r] <= 1

(* When the beats of an epoch are all delivered and nobody died meanwhile, *)
(* all ranks are in the epoch of rank 0, and it has computed (501, 512).   *)
RoundsClose ==
    Quiet /\ beat_epoch[0] > 0 /\ ~h.troubled =>
        h.computed = 1 /\ \A r \in Ranks : beat_epoch[r] = beat_epoch[0]

(* mds_load is "per-epoch scatter/gathered info" (MDBalancer.h:171).       *)
LoadsOfEpoch == \A r \in DOMAIN mds_load[0] : mds_load[0][r].epoch = beat_epoch[0]

(* A share is computed from the load of the rank that is to export, which  *)
(* the code has checked to be more than 1 (633: "Wrong load").             *)
SharesOfExporter ==
    \A r \in DOMAIN h.dec : \A k \in DOMAIN h.dec[r] :
        h.dec[r][k] = Share(h.x, r, h.dec[r][k].to, k)

=============================================================================
