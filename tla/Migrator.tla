-------------------------------- MODULE Migrator --------------------------------
(***************************************************************************)
(* The handlers of Migrator.cc: the exporter, the importer and the         *)
(* bystander of a subtree migration, and what each does when an MDS fails. *)
(* Each operator is one function of the code applied to the state s of the *)
(* rank that runs it.                                                      *)
(***************************************************************************)
EXTENDS MDSCluster

CONSTANT MigMode    \* mds_bal_migmode

-----------------------------------------------------------------------------
(* MDCache: resolves must wait until no migration is under way here.       *)

SendSubtreeResolves(s) ==
    IF IsExporting(s) \/ IsImporting(s) THEN [s EXCEPT !.rpending = TRUE]
    ELSE LET resolving == s.map[s.me] = "resolve"
             dests == {q \in Ranks \ {s.me} :
                          resolving \/ s.map[q] = "resolve"}
             claim == s.auth[1] = s.me /\ ~(resolving /\ s.amb)
         IN [SendAll(s, dests, [Msg("Resolve", 0) EXCEPT
                                  !.flag = claim, !.ambig = s.amb])
                EXCEPT !.rpending = FALSE]

MaybeSendPendingResolves(s) ==
    IF s.rpending THEN SendSubtreeResolves(s) ELSE s

-----------------------------------------------------------------------------
(* Exporter: giving up.                                                    *)

EndExport(s) == MaybeSendPendingResolves([s EXCEPT !.exp = NoExport])

NotifyAbort(s) ==
    [Msg("Notify", s.exp.tid) EXCEPT !.old = <<s.me, s.exp.peer>>,
                                     !.new = Sole(s.me)]

(* export_notify_abort: tell the bystanders and stay "cancelling" until    *)
(* they have all answered; with none to tell the export is cancelled.      *)
ExportNotifyAbort(s) ==
    IF s.exp.notify = {} THEN [s EXCEPT !.exp = NoExport]
    ELSE [SendAll(s, s.exp.notify, NotifyAbort(s))
             EXCEPT !.exp.state = "cancelling"]

TellCancel(s, e, notify_peer) ==
    IF notify_peer /\ MayTell(s, e.peer)
    THEN SendMds(s, e.peer, Msg("Cancel", e.tid))
    ELSE s

(* export_reverse: the importer failed before it acknowledged the export.  *)
ExportReverse(s) ==
    UnfreezeTree([ExportNotifyAbort(s) EXCEPT !.auth = <<s.me, s.me>>])

ExportTryCancel(s, notify_peer) ==
    LET e == s.exp
        Done(t) == IF t.exp.state = "none" THEN MaybeSendPendingResolves(t)
                   ELSE t
    IN CASE e.state = "locking" -> EndExport(s)
         [] e.state \in {"discovering", "freezing", "prepping"} ->
              EndExport(TellCancel(UnfreezeTree(s), e, notify_peer))
         [] e.state = "warning" ->
              Done(TellCancel(UnfreezeTree(ExportNotifyAbort(s)), e,
                              notify_peer))
         [] e.state = "exporting" -> Done(ExportReverse(s))
         [] OTHER -> s

-----------------------------------------------------------------------------
(* Exporter: the stages of an export.                                      *)

ExportDir(s, dest, tid) ==
    [s EXCEPT !.exp = [NoExport EXCEPT !.state = "locking", !.peer = dest,
                                       !.tid = tid]]

DispatchExportDir(s) ==
    [SendMds(s, s.exp.peer, Msg("Discover", s.exp.tid))
        EXCEPT !.exp.state = "discovering", !.frozen = "freezing"]

(* The export an acknowledgement names is still this one.                  *)
IsExport(s, from, m) ==
    IsExporting(s) /\ s.exp.tid = m.tid /\ s.exp.peer = from

HandleExportDiscoverAck(s, from, m) ==
    IF ~IsExport(s, from, m) THEN s
    ELSE IF s.exp.state # "discovering" THEN Die(s, "discover_ack: state")
    ELSE IF m.flag THEN [s EXCEPT !.exp.state = "freezing"]
    ELSE ExportTryCancel(s, FALSE)

(* The locks the export needs: all there; one of the rdlocks or nestlock   *)
(* missing; or only the wrlock of filelock missing, for which Lunule's     *)
(* mds_bal_migmode 2 waits with the tree frozen (a no-op here: the waiter  *)
(* calls export_frozen again).                                             *)
LockOutcome == {"all", "rdlock", "filelock"}

ExportFrozen(s, tid, locks, caps) ==
    LET waiting == [kind |-> "frozen", peer |-> NONE, tid |-> tid]
        s0 == [s EXCEPT !.wait = @ \ {waiting}]
        flush == [kind |-> "flushed", peer |-> NONE, tid |-> tid]
        bystanders == Ranks \ {s.me, s.exp.peer}
    IN IF s.exp.tid # tid THEN s0
       ELSE IF s.exp.state # "freezing" \/ s.frozen # "frozen"
              \/ s.auth # <<s.me, s.me>>
            THEN Die(s, "export_frozen: frozen, auth (me, me)")
       ELSE IF locks = "filelock" /\ MigMode = 2 THEN s
       ELSE IF locks # "all"
            THEN EndExport(SendMds(UnfreezeTree(s0), s.exp.peer,
                                   Msg("Cancel", tid)))
       ELSE LET t == SendMds(s0, s.exp.peer,
                             [Msg("Prep", tid) EXCEPT !.byst = bystanders])
            IN IF caps
               THEN [t EXCEPT !.exp.state = "prepping", !.exp.warn = {NONE},
                              !.wait = @ \cup {flush}]
               ELSE [t EXCEPT !.exp.state = "prepping"]

(* export_go: wait for everything journalled so far to be safe.            *)
ExportGo(s) == Submit(s, "sync", s.exp.tid)

HandleExportPrepAck(s, from, m) ==
    LET told == {q \in Ranks \ {s.me, from} : MayTell(s, q)}
        warning == [Msg("Notify", m.tid) EXCEPT !.old = Sole(s.me),
                                                !.new = <<s.me, from>>]
        t == [SendAll(s, told, warning)
                EXCEPT !.exp.state = "warning", !.exp.warn = @ \cup told,
                       !.exp.notify = told]
    IN IF ~IsExport(s, from, m) THEN s
       ELSE IF s.exp.state # "prepping" THEN Die(s, "prep_ack: state")
       ELSE IF ~m.flag THEN ExportTryCancel(s, FALSE)
       ELSE IF t.exp.warn = {} THEN ExportGo(t)
       ELSE t

ExportSessionsFlushed(s, tid) ==
    LET s0 == [s EXCEPT !.wait = @ \ {[kind |-> "flushed", peer |-> NONE,
                                       tid |-> tid]}]
        t == [s0 EXCEPT !.exp.warn = @ \ {NONE}]
    IN IF s.exp.tid # tid \/ s.exp.state = "cancelling" THEN s0
       ELSE IF s.exp.state \notin {"prepping", "warning"}
              \/ NONE \notin s.exp.warn
            THEN Die(s, "sessions_flushed: prepping or warning")
       ELSE IF t.exp.state = "warning" /\ t.exp.warn = {} THEN ExportGo(t)
       ELSE t

(* Variant: an export that was aborted meanwhile is not noticed.            *)
ExportGoSynced_NoCheck(s, tid) ==
    IF s.exp.state # "warning" \/ s.frozen # "frozen"
    THEN Die(s, "export_go_synced: warning, frozen")
    ELSE [SendMds(s, s.exp.peer, Msg("ExportDir", tid))
             EXCEPT !.exp.state = "exporting",
                    !.auth = <<s.me, s.exp.peer>>]

ExportGoSynced(s, tid) ==
    IF s.exp.tid # tid \/ s.exp.state = "cancelling" THEN s
    ELSE IF s.exp.state # "warning" \/ s.frozen # "frozen"
         THEN Die(s, "export_go_synced: warning, frozen")
    ELSE [SendMds(s, s.exp.peer, Msg("ExportDir", tid))
             EXCEPT !.exp.state = "exporting",
                    !.auth = <<s.me, s.exp.peer>>]

(* Variant: the importer may finish before the EExport is safe.             *)
HandleExportAck_EarlyFinish(s, from, m) ==
    Submit([SendMds(s, from, Msg("Finish", m.tid))
              EXCEPT !.exp.state = "loggingfinish",
                     !.auth = <<s.exp.peer, s.me>>],
           "EExport", m.tid)

HandleExportAck(s, from, m) ==
    IF s.frozen # "frozen" \/ s.exp.state # "exporting" \/ s.exp.tid # m.tid
    THEN Die(s, "export_ack: exporting")
    ELSE Submit([s EXCEPT !.exp.state = "loggingfinish",
                          !.auth = <<s.exp.peer, s.me>>],
                "EExport", m.tid)

TellFinish(s, last) ==
    IF MayTell(s, s.exp.peer)
    THEN SendMds(s, s.exp.peer, [Msg("Finish", s.exp.tid) EXCEPT !.flag = last])
    ELSE s

ExportFinish(s) ==
    EndExport(UnfreezeTree([TellFinish(s, TRUE) EXCEPT
                               !.isauth = FALSE, !.auth = Sole(s.exp.peer)]))

ExportLoggedFinish(s) ==
    LET notify == [Msg("Notify", s.exp.tid) EXCEPT
                     !.old = <<s.me, s.exp.peer>>, !.new = Sole(s.exp.peer)]
        t == [SendAll(s, s.exp.notify, notify)
                EXCEPT !.exp.state = "notifying"]
    IN IF t.exp.notify = {} THEN ExportFinish(t) ELSE TellFinish(t, FALSE)

-----------------------------------------------------------------------------
(* Importer: giving up.                                                    *)

ImportReverseFinal(s) == MaybeSendPendingResolves([s EXCEPT !.imp = NoImport])

ImportReverseUnfreeze(s) ==
    IF s.isauth THEN Die(s, "import_reverse_unfreeze: !is_auth")
    ELSE ImportReverseFinal(UnfreezeTree(s))

ImportNotifyAbort(s) ==
    LET left == {q \in s.imp.byst : MayTell(s, q)}
        notify == [Msg("Notify", s.imp.tid) EXCEPT
                     !.old = <<s.imp.peer, s.me>>, !.new = Sole(s.imp.peer)]
        t == [SendAll(s, left, notify) EXCEPT !.imp.byst = left]
    IN IF left = {} THEN ImportReverseUnfreeze(t) ELSE t

ImportReverse(s) ==
    IF ~s.isauth THEN Die(s, "import_reverse: is_auth")
    ELSE ImportNotifyAbort(
           Submit([s EXCEPT !.imp.state = "aborting", !.isauth = FALSE,
                            !.auth = Sole(s.imp.peer)],
                  "EImportFinishFalse", s.imp.tid))

(* Variant: the peer is read after the import state was erased.             *)
GiveBack_Erased(s) == [s EXCEPT !.auth = Sole(NoImport.peer)]

(* The importer's adjust_subtree_auth(dir, peer) of the prepped state.     *)
GiveBack(s) == [s EXCEPT !.auth = Sole(s.imp.peer)]

HandleExportCancel(s, from, m) ==
    CASE s.imp.state \in {"discovering", "discovered"} ->
           [s EXCEPT !.imp = NoImport]
      [] s.imp.state = "prepping" -> ImportReverseFinal(s)
      [] s.imp.state = "prepped" -> ImportReverseUnfreeze(GiveBack(s))
      [] OTHER -> Die(s, "got export_cancel in weird state")

-----------------------------------------------------------------------------
(* Importer: the stages of an import.                                      *)

(* path_traverse found the inode, or parked the message to retry later.    *)
Discovered(s, from, tid, found) ==
    IF found
    THEN SendMds([s EXCEPT !.imp.state = "discovered"], from,
                 Msg("DiscoverAck", tid))
    ELSE [s EXCEPT !.wait = @ \cup {[kind |-> "discover", peer |-> from,
                                     tid |-> tid]}]

DiscoverNack(s, from, tid) ==
    SendMds(s, from, [Msg("DiscoverAck", tid) EXCEPT !.flag = FALSE])

HandleExportDiscover(s, from, m, found) ==
    IF ~IsActive(s) THEN DiscoverNack(s, from, m.tid)
    ELSE IF IsImporting(s) THEN Die(s, "discover: no import yet")
    ELSE Discovered([s EXCEPT !.imp = [NoImport EXCEPT
                        !.state = "discovering", !.peer = from,
                        !.tid = m.tid]],
                    from, m.tid, found)

(* handle_export_discover again for a message that was already started.    *)
RetryExportDiscover(s, c, found) ==
    LET s0 == [s EXCEPT !.wait = @ \ {c}]
    IN IF ~IsActive(s) THEN DiscoverNack(s0, c.peer, c.tid)
       ELSE IF ~(IsImporting(s) /\ s.imp.peer = c.peer /\ s.imp.tid = c.tid)
            THEN s0
       ELSE IF s.imp.state # "discovering" THEN Die(s, "discover retry: state")
       ELSE Discovered(s0, c.peer, c.tid, found)

(* The end of handle_export_prep: open the bounds (or wait for one), take  *)
(* the locks, become the ambiguous second authority.                       *)
Prepped(s, from, tid, opened, locks) ==
    LET ack == Msg("PrepAck", tid)
    IN IF IsActive(s) /\ ~opened
       THEN [s EXCEPT !.wait = @ \cup {[kind |-> "prep", peer |-> from,
                                        tid |-> tid]}]
       ELSE IF IsActive(s) /\ locks
       THEN SendReply(FreezeTree([s EXCEPT !.imp.state = "prepped",
                                           !.auth = <<from, s.me>>]),
                      from, ack)
       ELSE SendReply(ImportReverseFinal(s), from, [ack EXCEPT !.flag = FALSE])

HandleExportPrep(s, from, m, opened, locks) ==
    IF s.imp.state # "discovered" \/ s.imp.peer # from \/ s.isauth
    THEN Die(s, "export_prep: discovered")
    ELSE Prepped([s EXCEPT !.imp.state = "prepping", !.imp.byst = m.byst],
                 from, m.tid, opened, locks)

(* handle_export_prep again for a message that was already assimilated.    *)
RetryExportPrep(s, c, opened, locks) ==
    LET s0 == [s EXCEPT !.wait = @ \ {c}]
    IN IF ~(IsImporting(s) /\ s.imp.peer = c.peer /\ s.imp.tid = c.tid)
       THEN s0
       ELSE IF s.imp.state # "prepping" \/ s.isauth
       THEN Die(s, "prep retry: prepping")
       ELSE Prepped(s0, c.peer, c.tid, opened, locks)

(* Variant: acknowledge before the EImportStart is safe.                    *)
HandleExportDir_EarlyAck(s, from, m) ==
    SendMds(Submit([s EXCEPT !.imp.state = "acking", !.isauth = TRUE,
                             !.auth = <<s.me, from>>],
                   "EImportStart", m.tid),
            from, Msg("ExportDirAck", m.tid))

HandleExportDir(s, from, m) ==
    IF s.isauth \/ s.imp.state # "prepped" \/ s.imp.tid # m.tid
         \/ s.imp.peer # from
    THEN Die(s, "export_dir: prepped")
    ELSE Submit([s EXCEPT !.imp.state = "loggingstart", !.isauth = TRUE,
                          !.auth = <<s.me, from>>],
                "EImportStart", m.tid)

ImportLoggedStart(s) ==
    IF s.imp.state # "loggingstart" THEN s
    ELSE SendMds([s EXCEPT !.imp.state = "acking"], s.imp.peer,
                 Msg("ExportDirAck", s.imp.tid))

ImportNotifyFinish(s) ==
    SendAll(s, s.imp.byst, [Msg("Notify", s.imp.tid) EXCEPT
               !.flag = FALSE, !.old = <<s.imp.peer, s.me>>,
               !.new = Sole(s.me)])

ImportFinish(s, notify, last) ==
    LET t == IF s.imp.state = "acking"
             THEN [s EXCEPT !.auth = <<s.me, s.me>>] ELSE s
        u == IF notify THEN ImportNotifyFinish(t) ELSE t
    IN IF s.imp.state \notin {"acking", "finishing"}
            \/ (s.imp.state = "acking" /\ ~s.isauth)
            \/ (~last /\ s.imp.state # "acking")
       THEN Die(s, "import_finish: acking or finishing")
       ELSE IF ~last THEN [t EXCEPT !.imp.state = "finishing"]
       ELSE MaybeSendPendingResolves(UnfreezeTree(
              Submit([u EXCEPT !.imp = NoImport],
                     "EImportFinishTrue", s.imp.tid)))

HandleExportFinish(s, from, m) ==
    IF ~IsImporting(s) \/ s.imp.tid # m.tid THEN Die(s, "export_finish: tid")
    ELSE ImportFinish(s, FALSE, m.flag)

-----------------------------------------------------------------------------
(* Bystander, and the answers it gives.                                    *)

(* Variant: the warning, which makes the authority ambiguous, is ignored.   *)
HandleExportNotify_NoWarning(s, from, m) ==
    LET t == IF s.auth = m.old /\ m.new[2] = UNKNOWN
             THEN [s EXCEPT !.auth = m.new] ELSE s
    IN IF ~Surviving(s) THEN s
       ELSE IF m.flag
       THEN SendMds(t, from, [Msg("NotifyAck", m.tid) EXCEPT !.new = m.new])
       ELSE t

HandleExportNotify(s, from, m) ==
    LET t == IF s.auth = m.old THEN [s EXCEPT !.auth = m.new] ELSE s
        ack == [Msg("NotifyAck", m.tid) EXCEPT !.new = m.new]
    IN IF ~Surviving(s) THEN s
       ELSE IF m.flag THEN SendMds(t, from, ack)
       ELSE t

HandleExportNotifyAck(s, from, m) ==
    LET warned == [s EXCEPT !.exp.warn = @ \ {from}]
        notified == [s EXCEPT !.exp.notify = @ \ {from}]
        undone == [s EXCEPT !.imp.byst = @ \ {from}]
    IN CASE s.exp.state = "warning" /\ from \in s.exp.warn ->
              IF warned.exp.warn = {} THEN ExportGo(warned) ELSE warned
         [] s.exp.state = "notifying" /\ from \in s.exp.notify ->
              IF notified.exp.notify = {} THEN ExportFinish(notified)
              ELSE notified
         [] s.exp.state = "cancelling" /\ m.new[2] = UNKNOWN
              /\ from \in s.exp.notify ->
              IF notified.exp.notify = {} THEN EndExport(notified)
              ELSE notified
         [] ~IsExporting(s) /\ s.imp.state = "aborting" ->
              IF from \notin s.imp.byst THEN Die(s, "notify_ack: bystander")
              ELSE IF undone.imp.byst = {} THEN ImportReverseUnfreeze(undone)
              ELSE undone
         [] OTHER -> s

-----------------------------------------------------------------------------
(* Variant: the answer of a bystander that failed is still waited for.      *)
ExportPeerFailure_Waits(s, who) ==
    IF s.exp.peer = who \/ s.exp.state \in {"locking", "discovering",
                                            "freezing", "prepping"}
    THEN ExportTryCancel(s, TRUE) ELSE s

(* Variant: an export is reversed when the importer fails, although it was  *)
(* acknowledged and its EExport is on its way to the journal.              *)
ExportPeerFailure_Reverses(s, who) ==
    IF s.exp.peer = who /\ s.exp.state = "loggingfinish" THEN ExportReverse(s)
    ELSE ExportPeerFailure_Waits(s, who)

(* handle_mds_failure_or_stop, its loop over the exports ...               *)
ExportPeerFailure(s, who) ==
    LET early == {"locking", "discovering", "freezing", "prepping"}
        e == s.exp
        w == [s EXCEPT !.exp.warn = @ \ {who},
                       !.exp.notify = IF who \in e.warn /\ e.state = "warning"
                                      THEN @ \ {who} ELSE @]
        n == [w EXCEPT !.exp.notify = @ \ {who}]
    IN CASE e.state = "none" -> s
         [] (e.peer = who /\ e.state # "cancelling") \/ e.state \in early ->
              ExportTryCancel(s, TRUE)
         [] e.peer # who /\ who \in e.warn /\ e.state = "warning" ->
              IF w.exp.warn = {} THEN ExportGo(w) ELSE w
         [] e.peer # who /\ who \in e.notify ->
              IF n.exp.notify # {} THEN n
              ELSE IF e.state = "notifying" THEN ExportFinish(n)
              ELSE IF e.state = "cancelling" THEN EndExport(n)
              ELSE n
         [] OTHER -> s

(* ... and its loop over the imports.                                      *)
ImportPeerFailure(s, who) ==
    LET i == s.imp
        undone == [s EXCEPT !.imp.byst = @ \ {who}]
    IN CASE i.state = "none" -> s
         [] i.peer = who /\ i.state \in {"discovering", "discovered"} ->
              [s EXCEPT !.imp = NoImport]
         [] i.peer = who /\ i.state = "prepping" -> ImportReverseFinal(s)
         [] i.peer = who /\ i.state = "prepped" ->
              ImportNotifyAbort([GiveBack(s) EXCEPT !.imp.state = "aborting"])
         [] i.peer = who /\ i.state = "loggingstart" -> ImportReverse(s)
         [] i.peer = who /\ i.state = "acking" -> [s EXCEPT !.amb = TRUE]
         [] i.peer = who /\ i.state = "finishing" -> ImportFinish(s, TRUE, TRUE)
         [] i.peer # who /\ who \in i.byst ->
              IF i.state = "aborting" /\ undone.imp.byst = {}
              THEN ImportReverseUnfreeze(undone) ELSE undone
         [] OTHER -> s

HandleMdsFailureOrStop(s, who) ==
    ImportPeerFailure(ExportPeerFailure(s, who), who)

=============================================================================
