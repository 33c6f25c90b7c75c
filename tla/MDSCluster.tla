------------------------------- MODULE MDSCluster -------------------------------
(***************************************************************************)
(* What every MDS protocol of the repository runs on: the ranks, the       *)
(* MDSMaps the monitors publish, the ordered connections between the       *)
(* ranks, the journal of each rank, and the state a rank keeps about ONE   *)
(* dirfrag, the root of the subtree that is being migrated.                *)
(*                                                                         *)
(* A handler of the code is written here as a function from the state of   *)
(* the rank that runs it to its new state; the messages it sends collect   *)
(* in the field out and a failed assert() in the field died.  Commit turns *)
(* such a result into a step of the system.                                *)
(***************************************************************************)
EXTENDS Integers, Sequences, FiniteSets

CONSTANTS
    Ranks,      \* the MDS ranks of the file system
    Owner0,     \* the rank that has authority at first
    NONE,       \* MDS_RANK_NONE
    UNKNOWN     \* CDIR_AUTH_UNKNOWN

ASSUME RanksAssumption ==
    /\ IsFiniteSet(Ranks)
    /\ Owner0 \in Ranks
    /\ NONE \notin Ranks
    /\ UNKNOWN \notin Ranks

-----------------------------------------------------------------------------
(* Authority: the pair dir_auth, <<first, second>>.  A second component    *)
(* other than UNKNOWN marks the authority ambiguous.                       *)
MdsAuthority == (Ranks \cup {UNKNOWN}) \X (Ranks \cup {UNKNOWN})
UNDEF == <<UNKNOWN, UNKNOWN>>
Sole(r) == <<r, UNKNOWN>>

(* The states of a rank in an MDSMap.  "down" covers failed and replay     *)
(* (nothing is sent to, or accepted from, a rank before resolve).          *)
MapState == {"active", "stopping", "down", "resolve", "rejoin"}
MDSMap == [Ranks -> MapState]

ActiveOrStopping == {"active", "stopping"}
InState(map, st) == {q \in Ranks : map[q] = st}
IsDegraded(map) == \E q \in Ranks : map[q] \in {"down", "resolve", "rejoin"}
IsResolving(map) == InState(map, "resolve") # {} /\ InState(map, "down") = {}
IsRejoining(map) ==
    /\ InState(map, "rejoin") # {}
    /\ InState(map, "resolve") = {}
    /\ InState(map, "down") = {}

-----------------------------------------------------------------------------
(* Messages.  One record shape for all of them; a field a message does not *)
(* have keeps its default.  ep is the epoch of the newest MDSMap the       *)
(* sender had pushed down the connection before the message.               *)
MsgType == {"Discover", "DiscoverAck", "Prep", "PrepAck", "Notify",
            "NotifyAck", "ExportDir", "ExportDirAck", "Finish", "Cancel",
            "Resolve"}

Message == [type : MsgType, tid : Nat, flag : BOOLEAN, ambig : BOOLEAN,
            old : MdsAuthority, new : MdsAuthority, byst : SUBSET Ranks,
            ep : Nat]

Msg(type, tid) ==
    [type |-> type, tid |-> tid, flag |-> TRUE, ambig |-> FALSE,
     old |-> UNDEF, new |-> UNDEF, byst |-> {}, ep |-> 0]

-----------------------------------------------------------------------------
(* The part of a rank's state that the migration of the dirfrag reads or   *)
(* writes.                                                                 *)
ExportStates == {"none", "cancelling", "locking", "discovering", "freezing",
                 "prepping", "warning", "exporting", "loggingfinish",
                 "notifying"}
ImportStates == {"none", "discovering", "discovered", "prepping", "prepped",
                 "loggingstart", "acking", "finishing", "aborting"}

ExportStateT == [state : ExportStates, peer : Ranks \cup {NONE}, tid : Nat,
                 warn : SUBSET (Ranks \cup {NONE}), notify : SUBSET Ranks]
ImportStateT == [state : ImportStates, peer : Ranks \cup {NONE}, tid : Nat,
                 byst : SUBSET Ranks]

NoExport == [state |-> "none", peer |-> NONE, tid |-> 0, warn |-> {},
             notify |-> {}]
NoImport == [state |-> "none", peer |-> NONE, tid |-> 0, byst |-> {}]

(* A context waiting to be completed: the freeze of the tree, the flush of *)
(* the client sessions, a message parked for C_MDS_RetryMessage.           *)
Context == [kind : {"frozen", "flushed", "discover", "prep"},
            peer : Ranks \cup {NONE}, tid : Nat]

(* What the journal holds: events of this dirfrag, and "sync" for the      *)
(* context that MDLog::wait_for_safe completes when all before it is safe. *)
LogEvent == {"sync", "EExport", "EImportStart", "EImportFinishTrue",
             "EImportFinishFalse"}
LogEntry == [event : LogEvent, tid : Nat]

(* What replaying the safe part of the journal yields for the dirfrag.     *)
DurableState == {"none", "mine", "ambig"}

(* The assertions of the handlers.                                         *)
Assertions ==
    {"freeze: auth.second unknown", "unfreeze: second == first",
     "discover_ack: state", "export_frozen: frozen, auth (me, me)",
     "prep_ack: state", "sessions_flushed: prepping or warning",
     "export_go_synced: warning, frozen", "export_ack: exporting",
     "discover: no import yet", "discover retry: state", "export_prep: discovered",
     "prep retry: prepping", "export_dir: prepped",
     "import_finish: acking or finishing", "export_finish: tid",
     "import_reverse: is_auth", "import_reverse_unfreeze: !is_auth",
     "got export_cancel in weird state", "notify_ack: bystander",
     "my_ambiguous_imports.empty()", "ambiguous import: no us",
     "dir_auth is still ambiguous", "rejoin: !is_importing, !is_exporting",
     "resolve: acking"}

RankState ==
    [me : Ranks, map : MDSMap, epoch : Nat,
     exp : ExportStateT, imp : ImportStateT,
     auth : MdsAuthority, isauth : BOOLEAN,
     frozen : {"no", "freezing", "frozen"},
     wait : SUBSET Context, log : Seq(LogEntry),
     amb : BOOLEAN, other : SUBSET Ranks, gather : SUBSET Ranks,
     rpending : BOOLEAN, jpending : BOOLEAN, resolved : BOOLEAN,
     out : [Ranks -> Seq(Message)], died : Assertions \cup {""}]

NoOut == [q \in Ranks |-> <<>>]

-----------------------------------------------------------------------------
(* Building blocks of the handlers.                                        *)

Die(s, why) == [s EXCEPT !.died = why]
IsActive(s) == s.map[s.me] = "active"
Surviving(s) == s.map[s.me] \in ActiveOrStopping
IsExporting(s) == s.exp.state # "none"
IsImporting(s) == s.imp.state # "none"

(* "!is_cluster_degraded() || is_clientreplay_or_active_or_stopping(q)".   *)
MayTell(s, q) == ~IsDegraded(s.map) \/ s.map[q] \in ActiveOrStopping

(* send_message_mds: drop if the map says the peer is not up, push the map *)
(* first if the peer may not have it.                                      *)
SendMds(s, to, m) ==
    IF s.map[to] = "down" THEN s
    ELSE [s EXCEPT !.out[to] = Append(@, [m EXCEPT !.ep = s.epoch])]

(* send_message_mds to every rank of a set, in one loop of the code.       *)
SendAll(s, dests, m) ==
    [s EXCEPT !.out = [q \in Ranks |->
        IF q \in dests /\ s.map[q] # "down"
        THEN Append(s.out[q], [m EXCEPT !.ep = s.epoch])
        ELSE s.out[q]]]

(* send_message on the connection a request came in on: no map goes first. *)
SendReply(s, to, m) == [s EXCEPT !.out[to] = Append(@, m)]

Submit(s, event, tid) ==
    [s EXCEPT !.log = Append(@, [event |-> event, tid |-> tid])]

(* CDir::_freeze_tree: on the authority the pair becomes (me, me).         *)
FreezeTree(s) ==
    IF s.isauth
    THEN IF s.auth[2] # UNKNOWN THEN Die(s, "freeze: auth.second unknown")
         ELSE [s EXCEPT !.frozen = "frozen", !.auth = <<s.auth[1], s.auth[1]>>]
    ELSE [s EXCEPT !.frozen = "frozen"]

(* CDir::unfreeze_tree: thaw a frozen tree, or give up a freeze under way. *)
UnfreezeTree(s) ==
    IF s.frozen = "frozen" /\ s.isauth
    THEN IF s.auth[1] # s.auth[2] THEN Die(s, "unfreeze: second == first")
         ELSE [s EXCEPT !.frozen = "no", !.auth = Sole(s.auth[1])]
    ELSE [s EXCEPT !.frozen = "no"]

=============================================================================
