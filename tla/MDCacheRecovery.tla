---------------------------- MODULE MDCacheRecovery ----------------------------
(***************************************************************************)
(* The part of MDCache that settles who is the authority of a subtree      *)
(* after an MDS failed: the resolve stage, the start of the rejoin stage,  *)
(* and what a rank does when a new MDSMap reaches it.  As in Migrator,     *)
(* each operator is one function of the code.                              *)
(***************************************************************************)
EXTENDS Migrator

-----------------------------------------------------------------------------
(* The ambiguous imports of others, noted by handle_resolve: the importer  *)
(* has the subtree if nobody claimed it.                                   *)
DisambiguateOtherImports(s) ==
    LET open == s.auth[2] # UNKNOWN \/ s.auth = UNDEF
    IN [s EXCEPT !.auth = IF s.other # {} /\ open
                          THEN Sole(CHOOSE who \in s.other : TRUE) ELSE @,
                 !.other = {}]

(* Variants: the import counts as done whoever claimed the subtree, or as   *)
(* undone though nobody did.                                               *)
DisambiguateMyImports_Won(s) ==
    IF s.map[s.me] = "resolve" /\ s.amb
    THEN Submit([s EXCEPT !.amb = FALSE, !.auth = Sole(s.me)],
                "EImportFinishTrue", 0)
    ELSE DisambiguateOtherImports(s)

DisambiguateMyImports_Lost(s) ==
    IF s.map[s.me] = "resolve" /\ s.amb
    THEN Submit([s EXCEPT !.amb = FALSE, !.auth = UNDEF],
                "EImportFinishFalse", 0)
    ELSE DisambiguateOtherImports(s)

(* My own ambiguous import, after a restart: mine unless somebody claimed. *)
DisambiguateMyImports(s) ==
    LET t == DisambiguateOtherImports(s)
        lost == Submit([t EXCEPT !.amb = FALSE], "EImportFinishFalse", 0)
        won == Submit([t EXCEPT !.amb = FALSE, !.auth = Sole(s.me)],
                      "EImportFinishTrue", 0)
        u == IF ~t.amb THEN t
             ELSE IF t.auth # <<s.me, s.me>> THEN lost
             ELSE won
    IN IF s.map[s.me] # "resolve"
       THEN IF s.amb THEN Die(s, "my_ambiguous_imports.empty()") ELSE s
       ELSE IF t.amb /\ t.auth # <<s.me, s.me>> /\ t.auth[1] = s.me
       THEN Die(s, "ambiguous import: no us")
       ELSE IF u.auth[2] # UNKNOWN THEN Die(s, "dir_auth is still ambiguous")
       ELSE u

(* A rank that is not rejoining itself settles the imports of the others   *)
(* when it sends its strong rejoins.                                       *)
RejoinSendRejoins(s) ==
    IF s.gather # {} THEN [s EXCEPT !.jpending = TRUE]
    ELSE IF IsImporting(s) \/ IsExporting(s)
    THEN Die(s, "rejoin: !is_importing, !is_exporting")
    ELSE [(IF s.map[s.me] = "rejoin" THEN s ELSE DisambiguateOtherImports(s))
             EXCEPT !.jpending = FALSE]

(* Once every resolve is in.  The first time on a resolving rank the auth  *)
(* bits are recomputed and resolve_done asks the monitors for the next     *)
(* state.                                                                  *)
MaybeResolveFinish(s) ==
    LET t == DisambiguateMyImports(s)
    IN IF s.gather # {} THEN s
       ELSE IF t.died # "" THEN t
       ELSE IF s.map[s.me] = "resolve" /\ ~s.resolved
       THEN [t EXCEPT !.isauth = (t.auth[1] = s.me), !.resolved = TRUE]
       ELSE IF s.jpending THEN RejoinSendRejoins(t)
       ELSE t

(* Variants: a surviving importer finishes its import although the exporter *)
(* claims the subtree; and a claim does not change the authority.          *)
HandleResolve_Finish(s, from, m) ==
    LET mine == Surviving(s) /\ s.amb /\ s.imp.peer = from
        t == IF mine THEN ImportFinish([s EXCEPT !.amb = FALSE], TRUE, TRUE)
             ELSE [s EXCEPT !.auth = IF m.flag THEN Sole(from) ELSE @]
    IN MaybeResolveFinish([t EXCEPT !.gather = @ \ {from}])

HandleResolve_NoClaim(s, from, m) ==
    MaybeResolveFinish([s EXCEPT
        !.auth = IF m.flag /\ ~Surviving(s) THEN Sole(from) ELSE @,
        !.gather = @ \ {from}])

(* handle_resolve: m.flag is the claim of the subtree, m.ambig an          *)
(* ambiguous import of it.  A surviving importer that the exporter left in *)
(* the dark learns here how the migration ended.                           *)
HandleResolve(s, from, m) ==
    LET mine == Surviving(s) /\ s.amb /\ s.imp.peer = from
        s0 == [s EXCEPT !.amb = FALSE]
        t == IF ~mine THEN s
             ELSE IF s.imp.state # "acking" THEN Die(s, "resolve: acking")
             ELSE IF m.flag THEN ImportReverse(s0)
             ELSE ImportFinish(s0, TRUE, TRUE)
    IN IF t.died # "" THEN t
       ELSE MaybeResolveFinish(
              [t EXCEPT !.auth = IF m.flag THEN Sole(from) ELSE @,
                        !.other = IF m.ambig THEN @ \cup {from} ELSE @,
                        !.gather = @ \ {from}])

-----------------------------------------------------------------------------
(* A standby takes the rank over: it replays the safe part of the journal  *)
(* (EExport, EImportStart, EImportFinish, ESubtreeMap) and enters the      *)
(* resolve stage.                                                          *)
Replayed(r, durable) ==
    CASE durable = "mine"  -> Sole(r)
      [] durable = "ambig" -> <<r, r>>
      [] durable = "none"  -> UNDEF

Fresh(r, map, epoch) ==
    [me |-> r, map |-> map, epoch |-> epoch, exp |-> NoExport,
     imp |-> NoImport, auth |-> UNDEF, isauth |-> FALSE, frozen |-> "no",
     wait |-> {}, log |-> <<>>, amb |-> FALSE, other |-> {}, gather |-> {},
     rpending |-> FALSE, jpending |-> FALSE, resolved |-> FALSE,
     out |-> NoOut, died |-> ""]

ResolveStart(r, map, epoch, durable) ==
    LET s == [Fresh(r, map, epoch) EXCEPT
                !.auth = Replayed(r, durable), !.amb = (durable = "ambig"),
                !.isauth = (durable = "mine"), !.gather = Ranks \ {r}]
    IN IF IsResolving(map) THEN SendSubtreeResolves(s) ELSE s

-----------------------------------------------------------------------------
(* MDCache::handle_mds_failure.                                            *)
HandleMdsFailure(s, who) ==
    HandleMdsFailureOrStop([s EXCEPT !.gather = @ \cup {who}], who)

(* The loop over the ranks that failed; an assert ends it.                 *)
Lost(s, failed) ==
    LET lose[left \in SUBSET failed] ==
          IF left = {} THEN s
          ELSE LET who == CHOOSE q \in left : TRUE
                   t == lose[left \ {who}]
               IN IF t.died # "" THEN t ELSE HandleMdsFailure(t, who)
    IN lose

(* MDSRank::handle_mds_map: a map with number epoch reaches a rank; failed *)
(* holds the ranks whose instance went away since the map it had; what     *)
(* they sent is stale, messages parked for a retry included.  The order is *)
(* the code's: resolves, rejoins, and only then the failures.              *)
HandleMdsMap(s, map, epoch, failed) ==
    LET s0 == [s EXCEPT !.map = map, !.epoch = epoch,
                        !.wait = {c \in @ : c.peer \notin failed}]
        s1 == IF ~IsResolving(s.map) /\ IsResolving(map)
              THEN SendSubtreeResolves(s0) ELSE s0
        s2 == IF map[s.me] \in ActiveOrStopping \cup {"rejoin"}
                   /\ ~IsRejoining(s.map) /\ IsRejoining(map)
              THEN RejoinSendRejoins(s1) ELSE s1
    IN Lost(s2, failed)[failed]

=============================================================================
