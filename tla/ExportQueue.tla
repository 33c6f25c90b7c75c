------------------------------- MODULE ExportQueue -------------------------------
(***************************************************************************)
(* The exports of one rank as the Migrator schedules them: the queue that  *)
(* the balancer and a stopping rank fill (export_queue), the exports under *)
(* way (export_state), of which the queue starts a handful at a time, the  *)
(* exports that pins, the operator and empty imports start past the queue, *)
(* and shutdown_pass, by which a stopping rank gets rid of its subtrees.   *)
(*                                                                         *)
(* The messages of an export are those of module Migrator; here an export  *)
(* only goes through its states, and ends in one of the ways the code has. *)
(* mds_bal_migmode is 0, the default.                                      *)
(***************************************************************************)
EXTENDS Naturals, Sequences, SequencesExt, FiniteSetsExt

CONSTANTS
    Me, Peers,      \* this rank and the others; 0 is one of them
    Dirs,           \* directories, none inside another but for Below
    Below,          \* Below[d]: parts of d that are too much for one export
    Pin,            \* Pin[d]: the rank d is pinned to, or NoRank
    NoRank,
    Home,           \* Home[d]: the authority of d's inode
    Limit,          \* maybe_do_queued_export starts one if at most so many run (4)
    MapLimit,       \* an export waits for at most one map more than that (3)
    MaxOrders,      \* bound: decisions of the balancer, commands of the operator, imports
    MaxTrouble      \* bound: exports that fail, peers that die

ASSUME QueueAssumption ==
    /\ 0 \in Peers /\ Me \notin Peers
    /\ IsFiniteSet(Dirs)
    /\ Below \in [Dirs -> SUBSET Dirs]
    /\ Pin \in [Dirs -> Peers \cup {NoRank}] /\ NoRank \notin Peers \cup {Me}
    /\ Home \in [Dirs -> Peers \cup {Me}]
    /\ {Limit, MapLimit, MaxOrders, MaxTrouble} \subseteq Nat

VARIABLES
    phase,          \* "active", "stopping", or "stopped"
    dead,           \* the peers that have failed; the cluster is degraded if any
    subtrees,       \* roots of the subtrees this rank is the authority of
    export_queue,   \* <<directory, destination>> pairs
    export_state,   \* directory |-> its export
    exporting,      \* the directories with STATE_EXPORTING
    pins,           \* the auth_pins of the Migrator on each directory
    sessions,       \* client sessions: "open", "closing", "closed"
    silent,         \* history: the last export to end left the queue alone
    failed,         \* the assertions that did not hold
    used            \* how often each bounded event has happened

vars == <<phase, dead, subtrees, export_queue, export_state, exporting, pins, sessions,
          silent, failed, used>>

Degraded == dead # {}
Active(r) == r \in Peers \ dead
Entry == Dirs \X (Peers \cup {Me})

(* residual: the parts of the directory that are left for later.  by:      *)
(* history, whether the queue has started the export or a direct call.     *)
States == {"locking", "discovering", "freezing", "prepping", "warning", "finishing", "cancelling"}
Export == [state : States, peer : Peers, maps : 0 .. MapLimit + 1, residual : SUBSET Dirs,
           by : {"queue", "direct"}]
Running(st) == Cardinality(DOMAIN st.es)

Tops == Dirs \ UNION {Below[d] : d \in Dirs}

Init ==
    /\ phase = "active"
    /\ dead = {}
    /\ subtrees = Tops
    /\ export_queue = <<>>
    /\ export_state = <<>>
    /\ exporting = {}
    /\ pins = [d \in Dirs |-> 0]
    /\ sessions = "open"
    /\ silent = FALSE
    /\ failed = {}
    /\ used = [order |-> 0, trouble |-> 0]

-----------------------------------------------------------------------------
(* What an operation does to the exports: st has them, the subtrees, the   *)
(* flags, the pins and the failed assertions.                              *)
Now == [es |-> export_state, auth |-> subtrees, flags |-> exporting, pins |-> pins, failed |-> failed]

Without(f, S) == [d \in DOMAIN f \ S |-> f[d]]
With(f, d, e) == [x \in DOMAIN f \cup {d} |-> IF x = d THEN e ELSE f[x]]

(* The frozen and freezing directories: exports past their locks.          *)
IsFrozen(st, d) == d \in DOMAIN st.es /\ st.es[d].state \notin {"locking", "cancelling"}

(* The end of an export that is erased, with the pin it has let go of.     *)
Erased(st, d, unpin) ==
    [st EXCEPT !.es = Without(@, {d}), !.flags = @ \ {d}, !.pins = [st.pins EXCEPT ![d] = @ - unpin]]

(* dispatch_export_dir.  What becomes of it is up to the locks and the     *)
(* map: "cancel" (mdr aborted, directory frozen by others), "map" (the     *)
(* destination is not an export target yet; canceled after three maps),    *)
(* "lock" (waits for a lock and starts over, with no map counted), "go".   *)
Outcome == {"cancel", "map", "lock", "go"}
Dispatched(st, d, o) ==
    CASE o = "cancel" \/ (o = "map" /\ st.es[d].maps > MapLimit) -> Erased(st, d, 1)
      [] o = "map" /\ st.es[d].maps <= MapLimit -> [st EXCEPT !.es[d].maps = @ + 1]
      [] o = "lock" -> [st EXCEPT !.es[d].maps = 0]
      [] o = "go" -> [st EXCEPT !.es[d].state = "discovering"]

(* Variant: only an active rank exports.                                     *)
RefusesUnlessActive(st, d, dest) ==
    phase # "active" \/ ~Active(dest) \/ Degraded \/ IsFrozen(st, d) \/ d \in st.flags

(* export_dir refuses, or starts the export and dispatches it at once.     *)
Refuses(st, d, dest) ==
    \/ phase = "stopped"
    \/ ~Active(dest) \/ Degraded
    \/ phase # "stopping" /\ Pin[d] \notin {NoRank, dest}
    \/ IsFrozen(st, d)
    \/ d \in st.flags
Broken(st, d, dest) ==
    (IF d \notin st.auth THEN {"is_auth"} ELSE {})
        \cup (IF dest = Me THEN {"dest is not me"} ELSE {})
        \cup (IF ~Refuses(st, d, dest) /\ d \in DOMAIN st.es THEN {"exported once"} ELSE {})
Fresh(dest, by) ==
    [state |-> "locking", peer |-> dest, maps |-> 0, residual |-> {}, by |-> by]
ExportDir(st, d, dest, o, by) ==
    LET started == [st EXCEPT !.es = With(@, d, Fresh(dest, by)), !.flags = @ \cup {d},
                              !.pins = [st.pins EXCEPT ![d] = @ + 1]]
        done == IF Refuses(st, d, dest) THEN st ELSE Dispatched(started, d, o)
    IN  [done EXCEPT !.failed = @ \cup Broken(st, d, dest)]

(* Variant: one export more.                                                *)
MaySpawnOneMore(st) == Running(st) <= Limit + 1

(* Variant: one entry is tried, not all there is room for.                  *)
LoopOnce(st, q, o) ==
    IF q # <<>> /\ Running(st) <= Limit
    THEN [st |-> IF q[1][1] \in st.auth THEN ExportDir(st, q[1][1], q[1][2], o[q[1][1]], "queue") ELSE st,
          rest |-> Tail(q)]
    ELSE [st |-> st, rest |-> q]

(* The exports after each of the first n entries of q was tried.            *)
Tried(st, q, o, by) ==
    LET after[n \in 0 .. Len(q)] ==
          IF n = 0 THEN st
          ELSE LET d == q[n][1]
               IN  IF d \in st.auth THEN ExportDir(after[n-1], d, q[n][2], o[d], by)
                   ELSE after[n-1]
    IN  after

(* maybe_do_queued_export.  An export that is canceled on the spot calls   *)
(* it again, which the flag "running" makes a no-op: the loop goes on.     *)
MaySpawn(st) == Running(st) <= Limit
Loop(st, q, o) ==
    LET after == Tried(st, q, o, "queue")
        popped == Min({n \in 0 .. Len(q) : n = Len(q) \/ ~MaySpawn(after[n])})
    IN  [st |-> after[popped], rest |-> SubSeq(q, popped + 1, Len(q))]

Apply(st) ==
    /\ subtrees' = st.auth
    /\ export_state' = st.es
    /\ exporting' = st.flags
    /\ pins' = st.pins
    /\ failed' = st.failed

(* An export that is canceled at once counts as trouble.                   *)
MayFail(n) == used.trouble + n <= MaxTrouble
Trouble(o) == IF "cancel" \in Range(o) THEN 1 ELSE 0
Outcomes(D) ==
    {[x \in Dirs |-> "go"]} \cup {[x \in Dirs |-> IF x = d THEN o ELSE "lock"] : d \in D, o \in Outcome}
Queued(q) == {q[i][1] : i \in DOMAIN q}
Counted(event) == [used EXCEPT ![event] = @ + 1]

Serve(st, q, u) ==
    \E o \in Outcomes(Queued(q)) : \E r \in {Loop(st, q, o)} :
        /\ u.trouble + Trouble(o) <= MaxTrouble
        /\ Apply(r.st)
        /\ export_queue' = r.rest
        /\ silent' = FALSE
        /\ used' = [u EXCEPT !.trouble = @ + Trouble(o)]

(* export_dir called past the queue.  Canceled at once, it serves it.      *)
ExportDirectly(st, d, dest, u) ==
    /\ ~Refuses(st, d, dest)
    /\ \/ \E o \in Outcome \ {"cancel"} :
             /\ Apply(ExportDir(st, d, dest, o, "direct"))
             /\ used' = u
             /\ UNCHANGED <<export_queue, silent>>
       \/ Serve(ExportDir(st, d, dest, "cancel", "direct"), export_queue, [u EXCEPT !.trouble = @ + 1])
    /\ UNCHANGED <<phase, dead, sessions>>

-----------------------------------------------------------------------------
(* simple_determine_rebalance: what is in the queue is dropped, and some   *)
(* subtrees that are not frozen are queued for the targets.                *)
Candidates == {d \in subtrees : ~IsFrozen(Now, d)}
Orders == {q \in SeqOf(Tops \X Peers, 2) : q # <<>> /\ \A i, j \in DOMAIN q : i # j => q[i][1] # q[j][1]}
Rebalance ==
    /\ phase = "active" /\ ~Degraded /\ used.order < MaxOrders
    /\ \E q \in Orders :
          /\ \A i \in DOMAIN q : q[i][1] \in Candidates
          /\ Serve(Now, q, Counted("order"))
    /\ UNCHANGED <<phase, dead, sessions>>

(* handle_export_pins exports a pinned subtree.                            *)
HandleExportPins(d) ==
    /\ phase = "active" /\ d \in subtrees /\ Pin[d] \in Peers
    /\ ExportDirectly(Now, d, Pin[d], used)

(* The operator's "export dir", for a directory of this rank.              *)
CommandExportDir(d, target) ==
    /\ d \in subtrees /\ used.order < MaxOrders
    /\ ExportDirectly(Now, d, target, Counted("order"))

(* trim, called by every tick, sends an import with no dentry left in the  *)
(* cache back to the rank that has its inode: export_empty_import.  It may *)
(* find several; each may be a step, as any of them may be empty earlier.  *)
Loose(st, d) == ~IsFrozen(st, d) /\ d \notin st.flags
Imports == {d \in subtrees : Home[d] # Me /\ Loose(Now, d)}
Trim(d) == d \in Imports /\ ExportDirectly(Now, d, Home[d], used)

(* import_finish: a directory comes back, with the parts of it.  If it is  *)
(* empty, it is exported again.                                            *)
ImportFinish(d) ==
    LET st == [Now EXCEPT !.auth = @ \cup {d}]
    IN  /\ phase # "stopped" /\ used.order < MaxOrders
        /\ d \in Tops \ subtrees /\ Below[d] \cap subtrees = {}
        /\ \/ /\ Apply(st)
              /\ used' = Counted("order")
              /\ UNCHANGED <<phase, dead, export_queue, sessions, silent>>
           \/ Home[d] # Me /\ ExportDirectly(st, d, Home[d], Counted("order"))

(* C_M_ExportDirWait and the lock waiters: an export is dispatched again.  *)
DispatchExportDir(d, o) ==
    /\ d \in DOMAIN export_state /\ export_state[d].state = "locking"
    /\ LET st == Dispatched(Now, d, o)
       IN  IF d \in DOMAIN st.es
           THEN Apply(st) /\ UNCHANGED <<export_queue, silent, used>>
           ELSE Serve(st, export_queue, Counted("trouble"))
    /\ UNCHANGED <<phase, dead, sessions>>

(* The peer has the directory: the pin goes and the freeze can end.        *)
HandleExportDiscoverAck(d) ==
    /\ d \in DOMAIN export_state /\ export_state[d].state = "discovering"
    /\ Apply([Now EXCEPT !.es[d].state = "freezing", !.pins[d] = @ - 1])
    /\ UNCHANGED <<phase, dead, export_queue, sessions, silent, used>>

(* export_frozen.  Without its locks the export is unwound and erased, and *)
(* the queue is not looked at.  With them it may leave parts for later.    *)
ExportFrozen(d) ==
    /\ d \in DOMAIN export_state /\ export_state[d].state = "freezing" /\ pins[d] = 0
    /\ \/ \E res \in {{}, Below[d]} :
             /\ Apply([Now EXCEPT !.es[d].state = "prepping", !.es[d].residual = res])
             /\ UNCHANGED <<silent, used>>
       \/ /\ MayFail(1)
          /\ Apply(Erased(Now, d, 0))
          /\ silent' = TRUE
          /\ used' = [used EXCEPT !.trouble = @ + 1]
    /\ UNCHANGED <<phase, dead, export_queue, sessions>>

(* The preparation, the warnings, the data and its ack, one after another. *)
NextStep == [prepping |-> "warning", warning |-> "finishing"]
Proceed(d) ==
    /\ d \in DOMAIN export_state /\ export_state[d].state \in DOMAIN NextStep
    /\ Apply([Now EXCEPT !.es[d].state = NextStep[@]])
    /\ UNCHANGED <<phase, dead, export_queue, sessions, silent, used>>

(* export_finish: the residual parts, now subtrees, go to the head of the  *)
(* queue in the order of their pointers, and it is served.                 *)
ExportFinish(d) ==
    /\ d \in DOMAIN export_state /\ export_state[d].state = "finishing"
    /\ LET e == export_state[d]
           kept == (subtrees \ {d}) \cup e.residual
       IN  \E left \in SetToSeqs({<<x, e.peer>> : x \in e.residual}) :
             Serve([Erased(Now, d, 0) EXCEPT !.auth = kept], left \o export_queue, used)
    /\ UNCHANGED <<phase, dead, sessions>>

(* Variants: the pin is dropped in one state too few, or too many.          *)
HeldPinInLocking(s) == IF s = "locking" THEN 1 ELSE 0
HeldPinInFreezing(s) == IF s \in {"locking", "discovering", "freezing"} THEN 1 ELSE 0

(* export_try_cancel, for the directories in C.  From "warning" on, others *)
(* may have been told: the export then stays until they answer, pinned.    *)
HeldPin(s) == IF s \in {"locking", "discovering"} THEN 1 ELSE 0
Canceled(st, C, told) ==
    LET gone == {d \in C : ~(st.es[d].state = "warning" /\ d \in told)}
        unpinned(d) == IF d \in gone THEN HeldPin(st.es[d].state) ELSE 0
        pinned(d) == IF d \in C \ gone THEN 1 ELSE 0
    IN  [st EXCEPT
           !.es = [d \in DOMAIN @ \ gone |->
                     IF d \in C THEN [@[d] EXCEPT !.state = "cancelling", !.residual = {}] ELSE @[d]],
           !.flags = @ \ gone,
           !.pins = [d \in Dirs |-> @[d] - unpinned(d) + pinned(d)]]
Cancelable(d) == d \in DOMAIN export_state /\ export_state[d].state \notin {"finishing", "cancelling"}

(* The peer refuses, a freeze takes too long, the request is aborted.      *)
ExportTryCancel(d) ==
    /\ Cancelable(d) /\ export_state[d].state \in {"locking", "discovering", "freezing", "prepping"}
    /\ Serve(Canceled(Now, {d}, {}), export_queue, Counted("trouble"))
    /\ UNCHANGED <<phase, dead, sessions>>

(* The others have answered: handle_export_notify_ack erases a canceled    *)
(* export, and does not look at the queue.                                 *)
ExportCancelFinish(d) ==
    /\ d \in DOMAIN export_state /\ export_state[d].state = "cancelling"
    /\ Apply(Erased(Now, d, 1))
    /\ silent' = TRUE
    /\ UNCHANGED <<phase, dead, export_queue, sessions, used>>

(* handle_mds_failure_or_stop, for a peer that has died: the exports to it *)
(* and those not prepared yet are canceled, and the cancellation serves    *)
(* the queue of a rank that may not export: it empties it.                 *)
HandleMdsFailure(r) ==
    /\ r \in Peers \ dead /\ MayFail(1)
    /\ dead' = dead \cup {r}
    /\ LET early == {"locking", "discovering", "freezing", "prepping"}
           C == {d \in DOMAIN export_state :
                   Cancelable(d) /\ (export_state[d].peer = r \/ export_state[d].state \in early)}
       IN  \E told \in SUBSET C :
             LET st == Canceled(Now, C, told)
                 drops == C # {} /\ MaySpawn(st)
             IN  /\ Apply(st)
                 /\ export_queue' = IF drops THEN <<>> ELSE export_queue
                 /\ silent' = IF C # {} THEN FALSE ELSE silent
    /\ used' = [used EXCEPT !.trouble = @ + 1]
    /\ UNCHANGED <<phase, sessions>>

PeerRecovers(r) ==
    /\ r \in dead
    /\ dead' = dead \ {r}
    /\ UNCHANGED <<phase, subtrees, export_queue, export_state, exporting, pins, sessions,
                   silent, failed, used>>

(* mds deactivate.                                                         *)
Deactivate ==
    /\ phase = "active"
    /\ phase' = "stopping"
    /\ UNCHANGED <<dead, subtrees, export_queue, export_state, exporting, pins, sessions,
                   silent, failed, used>>

(* Variant: whether the destination is active is not looked at.             *)
DestinationHome(d) == Home[d]

(* shutdown_pass, called by every tick of a stopping rank.  First of all   *)
(* it trims the cache, which may send any empty imports on their way; one  *)
(* whose export is canceled at once is left to Trim.  With an empty queue  *)
(* it then queues every subtree that is not on its way, and waits while    *)
(* there is one; with exports in the queue it does not look at subtrees    *)
(* and goes on to the sessions.                                            *)
Destination(d) == IF Home[d] \in Peers \ dead THEN Home[d] ELSE 0
Looks == subtrees # {} /\ export_queue = <<>>
Reexported(E, o) ==
    LET q == SetToSeq({<<d, Home[d]>> : d \in E}) IN Tried(Now, q, o, "direct")[Len(q)]
Trimmed ==
    {Reexported(E, o) : E \in SUBSET Imports, o \in {x \in Outcomes(Imports) : Trouble(x) = 0}}
ExportSubtrees ==
    /\ phase = "stopping" /\ Looks
    /\ {d \in subtrees : Loose(Now, d)} # {}
    /\ \E st \in Trimmed :
          Serve(st, SetToSeq({<<d, Destination(d)>> : d \in {x \in subtrees : Loose(st, x)}}), used)
    /\ UNCHANGED <<phase, dead, sessions>>
TerminateSessions ==
    /\ phase = "stopping" /\ ~Looks
    /\ sessions = "open"
    /\ sessions' = "closing"
    /\ \E st \in Trimmed : Apply(st)
    /\ UNCHANGED <<phase, dead, export_queue, silent, used>>
StoppingDone ==
    /\ phase = "stopping" /\ ~Looks
    /\ sessions = "closed"
    /\ subtrees = {}
    /\ phase' = "stopped"
    /\ failed' = IF export_state = <<>> THEN failed ELSE failed \cup {"not exporting"}
    /\ UNCHANGED <<dead, subtrees, export_queue, export_state, exporting, pins, sessions, silent, used>>
ShutdownPass == ExportSubtrees \/ TerminateSessions \/ StoppingDone

SessionsClosed ==
    /\ sessions = "closing"
    /\ sessions' = "closed"
    /\ UNCHANGED <<phase, dead, subtrees, export_queue, export_state, exporting, pins, silent,
                   failed, used>>

Next ==
    \/ Rebalance \/ Deactivate \/ ShutdownPass \/ SessionsClosed
    \/ \E d \in Dirs :
          \/ HandleExportPins(d) \/ Trim(d) \/ ImportFinish(d)
          \/ \E target \in Peers : CommandExportDir(d, target)
          \/ \E o \in Outcome : DispatchExportDir(d, o)
          \/ HandleExportDiscoverAck(d)
          \/ ExportFrozen(d) \/ Proceed(d) \/ ExportFinish(d)
          \/ ExportTryCancel(d) \/ ExportCancelFinish(d)
    \/ \E r \in Peers : HandleMdsFailure(r) \/ PeerRecovers(r)

Spec == Init /\ [][Next]_vars

(* Fairness: messages arrive, locks are granted, the dead are replaced,    *)
(* the tick of a stopping rank comes again and again, clients go.  Of the  *)
(* steps of an export only one can be taken at a time, by its state.       *)
Fairness ==
    /\ WF_vars(ShutdownPass) /\ WF_vars(SessionsClosed)
    /\ \A d \in Dirs :
          WF_vars(\/ DispatchExportDir(d, "go") \/ HandleExportDiscoverAck(d)
                  \/ ExportFrozen(d) \/ Proceed(d) \/ ExportFinish(d) \/ ExportCancelFinish(d))
    /\ \A r \in Peers : WF_vars(PeerRecovers(r))
FairSpec == Spec /\ Fairness

-----------------------------------------------------------------------------
TypeOK ==
    /\ phase \in {"active", "stopping", "stopped"}
    /\ dead \subseteq Peers /\ subtrees \subseteq Dirs /\ exporting \subseteq Dirs
    /\ export_queue \in Seq(Entry)
    /\ DOMAIN export_state \subseteq Dirs /\ Range(export_state) \subseteq Export
    /\ pins \in [Dirs -> Nat]
    /\ sessions \in {"open", "closing", "closed"}
    /\ silent \in BOOLEAN

(* The assertions of export_dir (813, 814, 895) and of shutdown_pass       *)
(* (7592): only a directory of its own is exported, never to itself, never *)
(* twice at a time, and a rank that has stopped is not exporting.          *)
AssertsHold == failed = {}

(* However an export ends, neither STATE_EXPORTING nor an auth_pin is left *)
(* on the directory, which could then never be frozen or exported again.   *)
NothingLeftBehind ==
    /\ exporting = DOMAIN export_state
    /\ \A d \in Dirs : pins[d] > 0 =>
          d \in DOMAIN export_state /\ export_state[d].state \in {"locking", "discovering", "cancelling"}

(* The queue keeps few exports going at once (714): of those it has        *)
(* started there are never more than Limit + 1, though exports that pins,  *)
(* the operator, trim and imports start come and go past it without limit. *)
FewAtOnce ==
    Cardinality({d \in DOMAIN export_state : export_state[d].by = "queue"}) <= Limit + 1

(* Nothing waits in the queue while there is room for it, unless the last  *)
(* export to end was erased by export_frozen or by the last notify ack,    *)
(* which do not serve the queue (1165, 1187, 2275).                        *)
QueueServed ==
    export_queue # <<>> /\ Cardinality(DOMAIN export_state) <= Limit => silent

(* A stopping rank gets rid of its subtrees and stops, unless the exports  *)
(* that were to serve the queue are all gone.                              *)
Stranded == export_queue # <<>> /\ export_state = <<>>
StopsUnlessStranded == phase = "stopping" ~> (phase = "stopped" \/ Stranded)

(* multimds.rst:99: a deactivated rank hands off its share of the metadata *)
(* and stops.                                                              *)
Stops == phase = "stopping" ~> phase = "stopped"

=============================================================================
