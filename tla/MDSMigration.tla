------------------------------ MODULE MDSMigration ------------------------------
(***************************************************************************)
(* The migration of a subtree between MDS ranks, with failures: every rank *)
(* runs the handlers of Migrator and MDCacheRecovery, the monitors publish *)
(* MDSMaps, connections keep the order of the messages, and the journal of *)
(* a rank outlives the process that wrote it.                              *)
(***************************************************************************)
EXTENDS MDCacheRecovery

CONSTANTS
    MaxExport,  \* bound: exports started
    MaxFail,    \* bound: MDS processes that die other than by an assert
    MaxStop,    \* bound: ranks the operator deactivates
    MapGap      \* maps in a row that a rank may miss (a lost session with
                \* the monitors; otherwise they send it every map)

ASSUME BoundsAssumption == {MaxExport, MaxFail, MaxStop, MapGap} \subseteq Nat

VARIABLES
    mdsmap,     \* the MDSMaps published so far; the index is the epoch
    alive,      \* ranks held by a running process that reached resolve
    node,       \* the state of the process that holds each rank
    net,        \* net[x][y]: messages on their way from x to y, in order
    durable,    \* what replaying the safe part of a rank's journal yields
    lastTid,    \* MDSRank::last_tid of each process
    used,       \* how often each bounded event has happened
    asserts     \* the assertions that failed so far

vars == <<mdsmap, alive, node, net, durable, lastTid, used, asserts>>

Now == Len(mdsmap)
CurMap == mdsmap[Now]

-----------------------------------------------------------------------------
Init ==
    LET up == [q \in Ranks |-> "active"]
    IN /\ mdsmap = <<up>>
       /\ alive = Ranks
       /\ node = [r \in Ranks |->
                    [Fresh(r, up, 1) EXCEPT !.auth = Sole(Owner0),
                                            !.isauth = (r = Owner0)]]
       /\ net = [x \in Ranks |-> [y \in Ranks |-> <<>>]]
       /\ durable = [r \in Ranks |-> IF r = Owner0 THEN "mine" ELSE "none"]
       /\ lastTid = [r \in Ranks |-> 0]
       /\ used = [export |-> 0, fail |-> 0, stop |-> 0]
       /\ asserts = {}

-----------------------------------------------------------------------------
(* The monitors and the messenger.                                         *)

Publish(map) == mdsmap' = Append(mdsmap, map)

(* A process that is gone: what was on its way to it is lost.  What it had *)
(* sent is still delivered to ranks that have not heard of its death.      *)
Gone(n, r) == [x \in Ranks |-> [n[x] EXCEPT ![r] = <<>>]]

(* The process r sends to under map number e is still the one that runs.   *)
Reaches(e, q) == q \in alive /\ \A i \in e..Now : mdsmap[i][q] # "down"

Sent(n, s) ==
    [n EXCEPT ![s.me] = [q \in Ranks |->
        IF Reaches(s.epoch, q) THEN n[s.me][q] \o s.out[q] ELSE n[s.me][q]]]

(* A handler of s.me ended in s, with n the connections it left.  A failed *)
(* assert() aborts the process before any of its messages is on the wire;  *)
(* the monitors take the rank out of the map.                              *)
Commit(s, n) ==
    IF s.died = ""
    THEN /\ node' = [node EXCEPT ![s.me] = [s EXCEPT !.out = NoOut]]
         /\ net' = Sent(n, s)
         /\ UNCHANGED <<mdsmap, alive, asserts>>
    ELSE /\ asserts' = asserts \cup {s.died}
         /\ node' = [node EXCEPT ![s.me] = Fresh(s.me, CurMap, 0)]
         /\ net' = Gone(n, s.me)
         /\ alive' = alive \ {s.me}
         /\ Publish([CurMap EXCEPT ![s.me] = "down"])

Local(s) == Commit(s, net) /\ UNCHANGED <<durable, lastTid, used>>

Fail(r) ==
    /\ used.fail < MaxFail
    /\ r \in alive
    /\ Publish([CurMap EXCEPT ![r] = "down"])
    /\ alive' = alive \ {r}
    /\ node' = [node EXCEPT ![r] = Fresh(r, CurMap, 0)]
    /\ net' = Gone(net, r)
    /\ used' = [used EXCEPT !.fail = @ + 1]
    /\ UNCHANGED <<durable, lastTid, asserts>>

(* A standby is given the rank, replays the journal and reaches resolve.   *)
Takeover(r) ==
    /\ r \notin alive
    /\ LET map == [CurMap EXCEPT ![r] = "resolve"]
           s == ResolveStart(r, map, Now + 1, durable[r])
       IN /\ Publish(map)
          /\ node' = [node EXCEPT ![r] = [s EXCEPT !.out = NoOut]]
          /\ net' = Sent(net, s)
    /\ alive' = alive \cup {r}
    /\ lastTid' = [lastTid EXCEPT ![r] = 0]
    /\ UNCHANGED <<durable, used, asserts>>

MonStep(r, from, to) ==
    /\ r \in alive
    /\ CurMap[r] = from
    /\ Publish([CurMap EXCEPT ![r] = to])
    /\ UNCHANGED <<alive, node, net, durable, lastTid, asserts>>

(* resolve_done: the rank asks for, and gets, the next state.              *)
MonRejoin(r) ==
    /\ node[r].resolved /\ node[r].gather = {}
    /\ MonStep(r, "resolve", "rejoin")
    /\ UNCHANGED used

(* rejoin_done, which needs the rejoins of every other rank.               *)
MonActive(r) ==
    /\ IsRejoining(CurMap) /\ alive = Ranks
    /\ \A q \in Ranks : node[q].epoch = Now /\ ~node[q].jpending
    /\ MonStep(r, "rejoin", "active")
    /\ UNCHANGED used

(* The operator deactivates the highest rank, which any of these may be;   *)
(* the last one that is active stays.                                      *)
MonStop(r) ==
    /\ used.stop < MaxStop
    /\ InState(CurMap, "active") # {r}
    /\ MonStep(r, "active", "stopping")
    /\ used' = [used EXCEPT !.stop = @ + 1]

-----------------------------------------------------------------------------
(* What is left of a connection to an instance that was down in some maps: *)
(* the messages of the one that came after.                                *)
FromInstance(c, downs) ==
    LET stale == {k \in 1..Len(c) : \E i \in downs : c[k].ep <= i}
        last == CHOOSE k \in stale : \A j \in stale : j <= k
    IN IF stale = {} THEN c ELSE SubSeq(c, last + 1, Len(c))

(* A map reaches a rank, after up to skip maps that it missed.             *)
(* Connections to instances that went away are marked down.                *)
HandleMap(r, skip) ==
    LET s == node[r]
        e == s.epoch + 1 + skip
        since(q) == {i \in (s.epoch + 1)..e : mdsmap[i][q] = "down"}
        failed == {q \in Ranks \ {r} : s.map[q] # "down" /\ since(q) # {}}
        n == [x \in Ranks |-> [net[x] EXCEPT ![r] = FromInstance(@, since(x))]]
    IN /\ r \in alive
       /\ e <= Now
       /\ Commit(HandleMdsMap(s, mdsmap[e], e, failed), n)
       /\ UNCHANGED <<durable, lastTid, used>>

(* A message is delivered once the map that was pushed before it is in; it *)
(* is dropped if the receiver knows the sender to be down.                 *)
Deliverable(x, y) ==
    /\ y \in alive
    /\ net[x][y] # <<>>
    /\ Head(net[x][y]).ep <= node[y].epoch
    /\ node[y].map[x] # "down"

Delivered(x, y) == [net EXCEPT ![x][y] = Tail(@)]

(* The message at the head of a connection is handled, with the result s.  *)
First(x, y) == Head(net[x][y])
Deliver(x, y, type, s) ==
    /\ Deliverable(x, y)
    /\ First(x, y).type = type
    /\ Commit(s, Delivered(x, y))
    /\ UNCHANGED <<durable, lastTid, used>>

DeliverDiscover(x, y) == \E found \in BOOLEAN :
    Deliver(x, y, "Discover", HandleExportDiscover(node[y], x, First(x, y), found))
DeliverDiscoverAck(x, y) ==
    Deliver(x, y, "DiscoverAck", HandleExportDiscoverAck(node[y], x, First(x, y)))
DeliverPrep(x, y) == \E opened, locks \in BOOLEAN :
    Deliver(x, y, "Prep", HandleExportPrep(node[y], x, First(x, y), opened, locks))
DeliverPrepAck(x, y) ==
    Deliver(x, y, "PrepAck", HandleExportPrepAck(node[y], x, First(x, y)))
DeliverNotify(x, y) ==
    Deliver(x, y, "Notify", HandleExportNotify(node[y], x, First(x, y)))
DeliverNotifyAck(x, y) ==
    Deliver(x, y, "NotifyAck", HandleExportNotifyAck(node[y], x, First(x, y)))
DeliverExportDir(x, y) ==
    Deliver(x, y, "ExportDir", HandleExportDir(node[y], x, First(x, y)))
DeliverExportDirAck(x, y) ==
    Deliver(x, y, "ExportDirAck", HandleExportAck(node[y], x, First(x, y)))
DeliverFinish(x, y) ==
    Deliver(x, y, "Finish", HandleExportFinish(node[y], x, First(x, y)))
DeliverCancel(x, y) ==
    Deliver(x, y, "Cancel", HandleExportCancel(node[y], x, First(x, y)))
DeliverResolve(x, y) ==
    Deliver(x, y, "Resolve", HandleResolve(node[y], x, First(x, y)))

-----------------------------------------------------------------------------
(* Steps a rank takes by itself.                                           *)

(* export_dir: the balancer, or an operator, asks for an export.           *)
StartExport(r, dest) ==
    LET s == node[r]
    IN /\ used.export < MaxExport
       /\ r \in alive
       /\ s.isauth /\ dest # r
       /\ Surviving(s) /\ s.map[dest] = "active" /\ ~IsDegraded(s.map)
       /\ s.frozen = "no" /\ ~IsExporting(s)
       /\ Commit(ExportDir(s, dest, lastTid[r] + 1), net)
       /\ lastTid' = [lastTid EXCEPT ![r] = @ + 1]
       /\ used' = [used EXCEPT !.export = @ + 1]
       /\ UNCHANGED durable

(* dispatch_export_dir, when the locks are held; or it gives up.           *)
Dispatch(r) ==
    /\ r \in alive /\ node[r].exp.state = "locking"
    /\ \/ Local(DispatchExportDir(node[r]))
       \/ Local(ExportTryCancel(node[r], TRUE))

(* The last auth pin goes (the migrator holds one while discovering): the  *)
(* tree is frozen and the context that waited for it is queued.            *)
FreezeDone(r) ==
    LET c == [kind |-> "frozen", peer |-> NONE, tid |-> node[r].exp.tid]
    IN /\ r \in alive /\ node[r].frozen = "freezing"
       /\ node[r].exp.state = "freezing"
       /\ Local([FreezeTree(node[r]) EXCEPT !.wait = @ \cup {c}])

Frozen(r) == \E c \in node[r].wait, locks \in LockOutcome, caps \in BOOLEAN :
    /\ r \in alive /\ c.kind = "frozen"
    /\ Local(ExportFrozen(node[r], c.tid, locks, caps))

(* find_stale_export_freeze: the freeze took too long.                     *)
StaleFreeze(r) ==
    /\ r \in alive /\ node[r].exp.state \in {"discovering", "freezing"}
    /\ Local(ExportTryCancel(node[r], TRUE))

SessionsFlushed(r) == \E c \in node[r].wait :
    /\ r \in alive /\ c.kind = "flushed"
    /\ Local(ExportSessionsFlushed(node[r], c.tid))

RetryDiscover(r) == \E c \in node[r].wait, found \in BOOLEAN :
    /\ r \in alive /\ c.kind = "discover"
    /\ Local(RetryExportDiscover(node[r], c, found))

RetryPrep(r) == \E c \in node[r].wait, opened, locks \in BOOLEAN :
    /\ r \in alive /\ c.kind = "prep"
    /\ Local(RetryExportPrep(node[r], c, opened, locks))

(* The oldest journal entry becomes safe, and its context is completed.    *)
LogFlush(r) ==
    LET e == Head(node[r].log)
        s == [node[r] EXCEPT !.log = Tail(@)]
        safe == CASE e.event = "EExport" -> "none"
                  [] e.event = "EImportStart" -> "ambig"
                  [] e.event = "EImportFinishTrue" -> "mine"
                  [] e.event = "EImportFinishFalse" -> "none"
                  [] e.event = "sync" -> durable[r]
    IN /\ r \in alive /\ node[r].log # <<>>
       /\ durable' = [durable EXCEPT ![r] = safe]
       /\ Commit(CASE e.event = "sync" -> ExportGoSynced(s, e.tid)
                   [] e.event = "EExport" -> ExportLoggedFinish(s)
                   [] e.event = "EImportStart" -> ImportLoggedStart(s)
                   [] OTHER -> s,
                 net)
       /\ UNCHANGED <<lastTid, used>>

-----------------------------------------------------------------------------
Monitor(r) == Takeover(r) \/ MonRejoin(r) \/ MonActive(r)

Receive(x, y) ==
    \/ DeliverDiscover(x, y) \/ DeliverDiscoverAck(x, y)
    \/ DeliverPrep(x, y) \/ DeliverPrepAck(x, y)
    \/ DeliverNotify(x, y) \/ DeliverNotifyAck(x, y)
    \/ DeliverExportDir(x, y) \/ DeliverExportDirAck(x, y)
    \/ DeliverFinish(x, y) \/ DeliverCancel(x, y) \/ DeliverResolve(x, y)

Internal(r) ==
    \/ Dispatch(r) \/ FreezeDone(r) \/ Frozen(r) \/ SessionsFlushed(r)
    \/ RetryDiscover(r) \/ RetryPrep(r) \/ LogFlush(r)

Next ==
    \/ \E r \in Ranks : Fail(r) \/ MonStop(r) \/ StaleFreeze(r)
    \/ \E r \in Ranks : Monitor(r) \/ Internal(r)
    \/ \E r \in Ranks : \E skip \in 0..MapGap : HandleMap(r, skip)
    \/ \E x, y \in Ranks : Receive(x, y) \/ StartExport(x, y)

Spec == Init /\ [][Next]_vars

(* What goes on by itself: the monitors, the journal, contexts, messages   *)
(* and maps.  Failures, operators and new exports are not among it.        *)
Progress ==
    \/ \E r \in Ranks : Monitor(r) \/ Internal(r) \/ HandleMap(r, 0)
    \/ \E x, y \in Ranks : Receive(x, y)

FairSpec == Spec /\ WF_vars(Progress)

-----------------------------------------------------------------------------
(* Type invariant: what each variable holds.                               *)
TypeOK ==
    /\ mdsmap \in Seq(MDSMap) /\ mdsmap # <<>>
    /\ alive \subseteq Ranks
    /\ node \in [Ranks -> RankState]
    /\ net \in [Ranks -> [Ranks -> Seq(Message)]]
    /\ durable \in [Ranks -> DurableState]
    /\ lastTid \in [Ranks -> Nat]
    /\ used \in [export : Nat, fail : Nat, stop : Nat]
    /\ asserts \subseteq Assertions

-----------------------------------------------------------------------------
(* A process serves the subtree when it has the AUTH bit and the tree is   *)
(* not frozen: it grants locks and changes metadata.                       *)
Serves(r) == r \in alive /\ node[r].isauth /\ node[r].frozen = "no"

(* At most one process serves the subtree, whatever fails in between.      *)
SingleAuthority == \A q, r \in Ranks : Serves(q) /\ Serves(r) => q = r

(* Who would get the subtree if every process died now: the rank whose     *)
(* journal claims it, or else those whose journal has an open import.      *)
Journalled(st) == {r \in Ranks : durable[r] = st}
Heirs == IF Journalled("mine") # {} THEN Journalled("mine")
         ELSE Journalled("ambig")

(* The journals alone decide the owner, at every moment: EImportStart,     *)
(* EExport and EImportFinish leave exactly one rank that recovery can give *)
(* the subtree to.                                                         *)
OneHeir == Cardinality(Heirs) = 1

(* Whoever serves the subtree is the one recovery would give it back to,   *)
(* so no change it makes can be orphaned by a crash.                       *)
ServerIsHeir == \A r \in Ranks : Serves(r) => Heirs = {r}

(* The EExport of the exporter gets safe only after the EImportStart of an *)
(* importer is (import_logged_start sends the acknowledgement).            *)
CommitOrder == [][\A r \in Ranks :
    durable[r] = "mine" /\ durable'[r] # "mine"
      => \E q \in Ranks \ {r} : durable[q] = "ambig"]_vars

(* An EExport that is not safe yet belongs to the export that waits for it *)
(* in loggingfinish, and a rank has one at most: export_logged_finish ends *)
(* whatever export of the dirfrag there is, so that one which was given up *)
(* or followed by another meanwhile would hand over the wrong one.         *)
EExportAwaited == \A r \in Ranks :
    LET log == node[r].log
    IN \A i, j \in 1..Len(log) :
         log[i].event = "EExport"
           => /\ node[r].exp.state = "loggingfinish"
              /\ log[j].event = "EExport" => i = j

(* Migration, with its failures and recoveries, implements the ownership   *)
(* that SubtreeOwnership specifies.                                        *)
Ownership == INSTANCE SubtreeOwnership WITH
    owner   <- IF Heirs = {} THEN NONE ELSE CHOOSE r \in Heirs : TRUE,
    offered <- Journalled("ambig") \ Heirs,
    server  <- IF \E r \in Ranks : Serves(r)
               THEN CHOOSE r \in Ranks : Serves(r) ELSE NONE

(* Every step of the migration is a step of SubtreeOwnership or changes    *)
(* nothing it knows of.                                                    *)
ImplementsOwnership == Ownership!Spec

(* In an undegraded cluster every rank counts whoever serves the subtree   *)
(* among its one or two authorities (the warning and notify stages), so    *)
(* that a MCacheExpire reaches it.                                         *)
EveryoneKnows ==
    (/\ alive = Ranks /\ ~IsDegraded(CurMap)
     /\ \A r \in Ranks : node[r].epoch = Now)
    => \A q, r \in Ranks :
         Serves(r) => r \in {node[q].auth[1], node[q].auth[2]}

(* Nothing is under way any more.                                          *)
Quiet ==
    /\ alive = Ranks
    /\ net = [x \in Ranks |-> [y \in Ranks |-> <<>>]]
    /\ \A r \in Ranks :
         /\ CurMap[r] \in ActiveOrStopping /\ node[r].epoch = Now
         /\ node[r].log = <<>> /\ node[r].wait = {}
         /\ ~IsExporting(node[r]) /\ ~IsImporting(node[r])

(* When all is quiet one rank serves, it is the heir, and every rank names *)
(* it as the only authority: no export leaves a rank behind with an        *)
(* ambiguous or an old authority.                                          *)
Agreement == Quiet => \E r \in Ranks :
    /\ Serves(r) /\ Heirs = {r}
    /\ \A q \in Ranks : node[q].auth = Sole(r) /\ (node[q].isauth <=> q = r)

-----------------------------------------------------------------------------
(* No assertion of the handlers fails but the two that CancelExpected and  *)
(* RejoinIdle are about.                                                   *)
AssertsHold ==
    asserts \subseteq {"got export_cancel in weird state",
                       "rejoin: !is_importing, !is_exporting"}

(* An export is cancelled only at an importer that has it, as              *)
(* handle_export_cancel asserts.                                           *)
CancelExpected == "got export_cancel in weird state" \notin asserts

(* No migration is under way when a rank sends its rejoins, as             *)
(* rejoin_send_rejoins asserts.                                            *)
RejoinIdle == "rejoin: !is_importing, !is_exporting" \notin asserts

-----------------------------------------------------------------------------
(* Resolves that were put off until the migrations of this rank are over,  *)
(* and were never sent although they are.                                  *)
LostResolve(r) ==
    /\ r \in alive /\ node[r].rpending
    /\ ~IsExporting(node[r]) /\ ~IsImporting(node[r])

(* An import that a stopping rank refused and still keeps.                 *)
LeakedImport(r) ==
    /\ r \in alive /\ node[r].map[r] = "stopping"
    /\ node[r].imp.state = "discovering" /\ node[r].wait = {}

(* Every migration ends, one way or the other, and a degraded cluster      *)
(* recovers, except for the two ways to get stuck that PendingResolvesSent *)
(* and ImportsEnd are about.                                               *)
Settles == <>[](Quiet \/ \E r \in Ranks : LostResolve(r) \/ LeakedImport(r))

(* Resolves that wait for the migrations of a rank are sent when these are *)
(* over ("send pending import_maps?").                                     *)
PendingResolvesSent ==
    \A r \in Ranks : node[r].rpending ~> (r \notin alive \/ ~node[r].rpending)

(* No import stays for ever, as shutdown_pass asserts of a rank that stops.*)
ImportsEnd ==
    \A r \in Ranks : IsImporting(node[r]) ~> ~IsImporting(node[r])

(* Once failures cease, all ranks become active again.                     *)
Recovers == <>[](alive = Ranks /\ ~IsDegraded(CurMap))

=============================================================================
