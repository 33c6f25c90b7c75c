-------------------------- MODULE MDSMigration_proofs ---------------------------
(***************************************************************************)
(* Proofs about the migration of a subtree: every handler, run in any      *)
(* order and with any failures in between, leaves a rank in a state that   *)
(* the other handlers can start from.                                      *)
(***************************************************************************)
EXTENDS MDSMigration, FiniteSetTheorems, SequenceTheorems, NaturalsInduction,
        WellFoundedInduction, TLAPS

-----------------------------------------------------------------------------
(* A rank that exports, or imports, has a peer.  An EExport that is not    *)
(* safe yet belongs to the export that waits for it, and there is one at   *)
(* most: export_logged_finish, which finishes whatever export there is,    *)
(* depends on it.                                                          *)
Peers(s) ==
    /\ IsExporting(s) => s.exp.peer \in Ranks
    /\ IsImporting(s) => s.imp.peer \in Ranks
NoEExport(log) == \A i \in 1..Len(log) : log[i].event # "EExport"
OneEExport(log) ==
    \A i, j \in 1..Len(log) :
        log[i].event = "EExport" /\ log[j].event = "EExport" => i = j
Logged(s) ==
    /\ s.exp.state # "loggingfinish" => NoEExport(s.log)
    /\ OneEExport(s.log)
Sane(s) == s \in RankState /\ Peers(s) /\ Logged(s)

(* What most steps of a handler leave alone.                               *)
Like(s, t) ==
    /\ t \in RankState
    /\ t.me = s.me /\ t.exp = s.exp /\ t.imp = s.imp /\ t.log = s.log

LEMMA LikeSane ==
    ASSUME NEW s, NEW t, Sane(s), Like(s, t)
    PROVE  Sane(t)
    BY DEF Sane, Like, Peers, Logged, IsExporting, IsImporting

LEMMA LikeLike ==
    ASSUME NEW s, NEW t, NEW u, Like(s, t), Like(t, u)
    PROVE  Like(s, u)
    BY DEF Like

LEMMA LikeItself ==
    ASSUME NEW s \in RankState
    PROVE  Like(s, s)
    BY DEF Like

-----------------------------------------------------------------------------
(* Fields.                                                                 *)
LEMMA OutLike ==
    ASSUME NEW s \in RankState, NEW o \in [Ranks -> Seq(Message)]
    PROVE  Like(s, [s EXCEPT !.out = o])
    BY DEF RankState, Like

(* The assertions by name.                                                 *)
LEMMA Asserted ==
    /\ "freeze: auth.second unknown" \in Assertions
    /\ "unfreeze: second == first" \in Assertions
    /\ "discover_ack: state" \in Assertions
    /\ "export_frozen: frozen, auth (me, me)" \in Assertions
    /\ "prep_ack: state" \in Assertions
    /\ "sessions_flushed: prepping or warning" \in Assertions
    /\ "export_go_synced: warning, frozen" \in Assertions
    /\ "export_ack: exporting" \in Assertions
    /\ "discover: no import yet" \in Assertions
    /\ "discover retry: state" \in Assertions
    /\ "export_prep: discovered" \in Assertions
    /\ "prep retry: prepping" \in Assertions
    /\ "export_dir: prepped" \in Assertions
    /\ "import_finish: acking or finishing" \in Assertions
    /\ "export_finish: tid" \in Assertions
    /\ "import_reverse: is_auth" \in Assertions
    /\ "import_reverse_unfreeze: !is_auth" \in Assertions
    /\ "got export_cancel in weird state" \in Assertions
    /\ "notify_ack: bystander" \in Assertions
    /\ "my_ambiguous_imports.empty()" \in Assertions
    /\ "ambiguous import: no us" \in Assertions
    /\ "dir_auth is still ambiguous" \in Assertions
    /\ "rejoin: !is_importing, !is_exporting" \in Assertions
    /\ "resolve: acking" \in Assertions
    BY DEF Assertions

LEMMA DieLike ==
    ASSUME NEW s \in RankState, NEW w \in Assertions
    PROVE  Like(s, Die(s, w))
    BY DEF RankState, Die, Like

LEMMA AuthLike ==
    ASSUME NEW s \in RankState, NEW a \in MdsAuthority
    PROVE  Like(s, [s EXCEPT !.auth = a])
    BY DEF RankState, Like

LEMMA IsauthLike ==
    ASSUME NEW s \in RankState, NEW b \in BOOLEAN
    PROVE  Like(s, [s EXCEPT !.isauth = b])
    BY DEF RankState, Like

LEMMA FrozenLike ==
    ASSUME NEW s \in RankState, NEW f \in {"no", "freezing", "frozen"}
    PROVE  Like(s, [s EXCEPT !.frozen = f])
    BY DEF RankState, Like

LEMMA WaitLike ==
    ASSUME NEW s \in RankState, NEW w \in SUBSET Context
    PROVE  Like(s, [s EXCEPT !.wait = w])
    BY DEF RankState, Like

LEMMA MapLike ==
    ASSUME NEW s \in RankState, NEW m \in MDSMap, NEW e \in Nat, NEW w \in SUBSET Context
    PROVE  Like(s, [s EXCEPT !.map = m, !.epoch = e, !.wait = w])
    BY DEF RankState, Like

LEMMA AmbLike ==
    ASSUME NEW s \in RankState, NEW b \in BOOLEAN
    PROVE  Like(s, [s EXCEPT !.amb = b])
    BY DEF RankState, Like

LEMMA GatherLike ==
    ASSUME NEW s \in RankState, NEW g \in SUBSET Ranks
    PROVE  Like(s, [s EXCEPT !.gather = g])
    BY DEF RankState, Like

LEMMA PendingLike ==
    ASSUME NEW s \in RankState, NEW b \in BOOLEAN
    PROVE  Like(s, [s EXCEPT !.rpending = b]) /\ Like(s, [s EXCEPT !.jpending = b])
    BY DEF RankState, Like

LEMMA SettledLike ==
    ASSUME NEW s \in RankState, NEW a \in MdsAuthority, NEW o \in SUBSET Ranks, NEW g \in SUBSET Ranks
    PROVE  /\ Like(s, [s EXCEPT !.auth = a, !.other = o])
           /\ Like(s, [s EXCEPT !.auth = a, !.other = o, !.gather = g])
    BY DEF RankState, Like

LEMMA ResolvedLike ==
    ASSUME NEW s \in RankState, NEW b \in BOOLEAN
    PROVE  Like(s, [s EXCEPT !.isauth = b, !.resolved = TRUE])
    BY DEF RankState, Like

(* The state of an export or an import is set.                             *)
LEMMA ExpSane ==
    ASSUME NEW s, Sane(s), NEW e \in ExportStateT,
           e.state # "none" => e.peer \in Ranks,
           s.exp.state = "loggingfinish" => e.state = "loggingfinish" \/ NoEExport(s.log)
    PROVE  Sane([s EXCEPT !.exp = e])
<1> DEFINE t == [s EXCEPT !.exp = e]
<1>1. s \in RankState
    BY DEF Sane
<1>2. t \in RankState /\ t.exp = e /\ t.imp = s.imp /\ t.log = s.log
    BY <1>1 DEF RankState
<1> HIDE DEF t
<1>3. Sane(t)
    BY <1>2 DEF Sane, Peers, Logged, IsExporting, IsImporting
<1> QED
    BY <1>3 DEF t

LEMMA ImpSane ==
    ASSUME NEW s, Sane(s), NEW i \in ImportStateT, i.state # "none" => i.peer \in Ranks
    PROVE  Sane([s EXCEPT !.imp = i])
<1> DEFINE t == [s EXCEPT !.imp = i]
<1>1. s \in RankState
    BY DEF Sane
<1>2. t \in RankState /\ t.imp = i /\ t.exp = s.exp /\ t.log = s.log
    BY <1>1 DEF RankState
<1> HIDE DEF t
<1>3. Sane(t)
    BY <1>2 DEF Sane, Peers, Logged, IsExporting, IsImporting
<1> QED
    BY <1>3 DEF t

-----------------------------------------------------------------------------
(* What the fields of a rank and of a message hold.                        *)
LEMMA RankFields ==
    ASSUME NEW s \in RankState
    PROVE  /\ s.me \in Ranks /\ s.map \in MDSMap /\ s.epoch \in Nat
           /\ s.exp \in ExportStateT /\ s.imp \in ImportStateT
           /\ s.auth \in MdsAuthority /\ s.wait \in SUBSET Context
           /\ s.log \in Seq(LogEntry) /\ s.other \in SUBSET Ranks /\ s.gather \in SUBSET Ranks
           /\ s.out \in [Ranks -> Seq(Message)] /\ s.died \in Assertions \cup {""}
    BY DEF RankState

LEMMA ExportFields ==
    ASSUME NEW e \in ExportStateT
    PROVE  /\ e.state \in ExportStates /\ e.peer \in Ranks \cup {NONE} /\ e.tid \in Nat
           /\ e.warn \in SUBSET (Ranks \cup {NONE}) /\ e.notify \in SUBSET Ranks
    BY DEF ExportStateT

LEMMA ImportFields ==
    ASSUME NEW i \in ImportStateT
    PROVE  /\ i.state \in ImportStates /\ i.peer \in Ranks \cup {NONE} /\ i.tid \in Nat
           /\ i.byst \in SUBSET Ranks
    BY DEF ImportStateT

LEMMA MessageFields ==
    ASSUME NEW m \in Message
    PROVE  /\ m.tid \in Nat /\ m.flag \in BOOLEAN /\ m.ambig \in BOOLEAN
           /\ m.old \in MdsAuthority /\ m.new \in MdsAuthority /\ m.byst \in SUBSET Ranks
           /\ m.ep \in Nat
    BY DEF Message

LEMMA Authorities ==
    ASSUME NEW a \in Ranks \cup {UNKNOWN}, NEW b \in Ranks \cup {UNKNOWN}
    PROVE  <<a, b>> \in MdsAuthority /\ Sole(a) \in MdsAuthority /\ UNDEF \in MdsAuthority
    BY DEF MdsAuthority, Sole, UNDEF

LEMMA NothingThere == NoExport \in ExportStateT /\ NoImport \in ImportStateT
    BY DEF NoExport, NoImport, ExportStateT, ImportStateT, ExportStates, ImportStates

LEMMA MsgType0 ==
    ASSUME NEW type \in MsgType, NEW tid \in Nat
    PROVE  Msg(type, tid) \in Message
<1>1. UNDEF \in MdsAuthority
    BY DEF UNDEF, MdsAuthority
<1> QED
    BY <1>1 DEF Msg, Message

-----------------------------------------------------------------------------
(* The building blocks of the handlers.                                    *)
LEMMA SendMdsLike ==
    ASSUME NEW s \in RankState, NEW to, NEW m \in Message
    PROVE  Like(s, SendMds(s, to, m))
<1>1. s.epoch \in Nat /\ s.out \in [Ranks -> Seq(Message)]
    BY RankFields
<1>2. PICK mm : mm = [m EXCEPT !.ep = s.epoch]
    OBVIOUS
<1>3. mm \in Message
    BY <1>1, <1>2 DEF Message
<1>4. PICK o : o = [s.out EXCEPT ![to] = Append(@, mm)]
    OBVIOUS
<1>5. o \in [Ranks -> Seq(Message)]
    <2>1. DOMAIN o = Ranks
        BY <1>1, <1>4
    <2>2. ASSUME NEW q \in Ranks
          PROVE  o[q] \in Seq(Message)
        <3>1. s.out[q] \in Seq(Message) /\ Append(s.out[q], mm) \in Seq(Message)
            BY <1>1, <1>3, AppendProperties
        <3>2. o[q] = IF q = to THEN Append(s.out[q], mm) ELSE s.out[q]
            BY <1>1, <1>4
        <3> QED
            BY <3>1, <3>2
    <2>3. o = [q \in Ranks |-> o[q]]
        BY <1>1, <1>4
    <2> HIDE <1>4
    <2> QED
        BY <2>2, <2>3
<1>6. SendMds(s, to, m) = s \/ SendMds(s, to, m) = [s EXCEPT !.out = o]
    BY <1>1, <1>2, <1>4 DEF SendMds
<1> QED
    BY <1>5, <1>6, OutLike, LikeItself

LEMMA SendReplyLike ==
    ASSUME NEW s \in RankState, NEW to, NEW m \in Message
    PROVE  Like(s, SendReply(s, to, m))
<1>1. s.out \in [Ranks -> Seq(Message)]
    BY RankFields
<1>2. PICK o : o = [s.out EXCEPT ![to] = Append(@, m)]
    OBVIOUS
<1>3. o \in [Ranks -> Seq(Message)]
    <2>1. ASSUME NEW q \in Ranks
          PROVE  o[q] \in Seq(Message)
        <3>1. s.out[q] \in Seq(Message) /\ Append(s.out[q], m) \in Seq(Message)
            BY <1>1, AppendProperties
        <3>2. o[q] = IF q = to THEN Append(s.out[q], m) ELSE s.out[q]
            BY <1>1, <1>2
        <3> QED
            BY <3>1, <3>2
    <2>2. o = [q \in Ranks |-> o[q]]
        BY <1>1, <1>2
    <2> HIDE <1>2
    <2> QED
        BY <2>1, <2>2
<1>4. SendReply(s, to, m) = [s EXCEPT !.out = o]
    BY <1>1, <1>2 DEF SendReply
<1> QED
    BY <1>3, <1>4, OutLike

LEMMA SendAllLike ==
    ASSUME NEW s \in RankState, NEW D, NEW m \in Message
    PROVE  Like(s, SendAll(s, D, m))
<1>1. s.epoch \in Nat /\ s.out \in [Ranks -> Seq(Message)]
    BY RankFields
<1>2. PICK mm : mm = [m EXCEPT !.ep = s.epoch]
    OBVIOUS
<1>3. mm \in Message
    BY <1>1, <1>2 DEF Message
<1>4. PICK o : o = [q \in Ranks |->
          IF q \in D /\ s.map[q] # "down" THEN Append(s.out[q], mm) ELSE s.out[q]]
    OBVIOUS
<1>5. o \in [Ranks -> Seq(Message)]
    BY <1>1, <1>3, <1>4
<1>6. SendAll(s, D, m) = [s EXCEPT !.out = o]
    BY <1>2, <1>4 DEF SendAll
<1> QED
    BY <1>5, <1>6, OutLike

LEMMA FreezeTreeLike ==
    ASSUME NEW s \in RankState
    PROVE  Like(s, FreezeTree(s))
<1>1. PICK a : a = <<s.auth[1], s.auth[1]>>
    OBVIOUS
<1>2. a \in MdsAuthority
    <2>1. s.auth \in MdsAuthority
        BY RankFields
    <2> QED
        BY <1>1, <2>1 DEF MdsAuthority, Sole
<1>3. Like(s, Die(s, "freeze: auth.second unknown"))
    BY DieLike, Asserted
<1>4. Like(s, [s EXCEPT !.frozen = "frozen"])
    BY FrozenLike
<1>5. Like(s, [s EXCEPT !.frozen = "frozen", !.auth = a])
    BY <1>2 DEF Like, RankState
<1> QED
    BY <1>1, <1>3, <1>4, <1>5 DEF FreezeTree

LEMMA UnfreezeTreeLike ==
    ASSUME NEW s \in RankState
    PROVE  Like(s, UnfreezeTree(s))
<1>1. PICK a : a = Sole(s.auth[1])
    OBVIOUS
<1>2. a \in MdsAuthority
    <2>1. s.auth \in MdsAuthority
        BY RankFields
    <2> QED
        BY <1>1, <2>1 DEF MdsAuthority, Sole
<1>3. Like(s, Die(s, "unfreeze: second == first"))
    BY DieLike, Asserted
<1>4. Like(s, [s EXCEPT !.frozen = "no"])
    BY FrozenLike
<1>5. Like(s, [s EXCEPT !.frozen = "no", !.auth = a])
    BY <1>2 DEF Like, RankState
<1> QED
    BY <1>1, <1>3, <1>4, <1>5 DEF UnfreezeTree

LEMMA SendSubtreeResolvesLike ==
    ASSUME NEW s \in RankState
    PROVE  Like(s, SendSubtreeResolves(s))
<1> DEFINE resolving == s.map[s.me] = "resolve"
           dests == {q \in Ranks \ {s.me} : resolving \/ s.map[q] = "resolve"}
           claim == s.auth[1] = s.me /\ ~(resolving /\ s.amb)
<1>1. PICK c : c = claim /\ c \in BOOLEAN
    OBVIOUS
<1>2. PICK b : b = s.amb /\ b \in BOOLEAN
    BY DEF RankState
<1>3. Msg("Resolve", 0) \in Message
    BY MsgType0 DEF MsgType
<1>4. PICK m : m = [Msg("Resolve", 0) EXCEPT !.flag = c, !.ambig = b]
    OBVIOUS
<1>5. m \in Message
    BY <1>1, <1>2, <1>3, <1>4 DEF Message
<1>6. PICK t : t = SendAll(s, dests, m)
    OBVIOUS
<1>7. Like(s, t)
    BY <1>5, <1>6, SendAllLike
<1>8. Like(t, [t EXCEPT !.rpending = FALSE])
    BY <1>7, PendingLike DEF Like
<1>9. Like(s, [s EXCEPT !.rpending = TRUE])
    BY PendingLike
<1>10. Like(s, [t EXCEPT !.rpending = FALSE])
    BY <1>7, <1>8, LikeLike
<1> QED
    BY <1>1, <1>2, <1>4, <1>6, <1>9, <1>10 DEF SendSubtreeResolves

LEMMA PendingResolvesLike ==
    ASSUME NEW s \in RankState
    PROVE  Like(s, MaybeSendPendingResolves(s))
    BY SendSubtreeResolvesLike, LikeItself DEF MaybeSendPendingResolves

LEMMA TellCancelLike ==
    ASSUME NEW s \in RankState, NEW e \in ExportStateT, NEW b
    PROVE  Like(s, TellCancel(s, e, b))
<1>1. Msg("Cancel", e.tid) \in Message
    BY MsgType0, ExportFields DEF MsgType
<1> QED
    BY <1>1, SendMdsLike, LikeItself DEF TellCancel

LEMMA TellFinishLike ==
    ASSUME NEW s \in RankState, NEW b \in BOOLEAN
    PROVE  Like(s, TellFinish(s, b))
<1>1. Msg("Finish", s.exp.tid) \in Message
    BY MsgType0, RankFields, ExportFields DEF MsgType
<1>2. PICK m : m = [Msg("Finish", s.exp.tid) EXCEPT !.flag = b]
    OBVIOUS
<1>3. m \in Message
    BY <1>1, <1>2 DEF Message
<1> QED
    BY <1>2, <1>3, SendMdsLike, LikeItself DEF TellFinish

(* An entry is submitted; it is an EExport only for an export that has     *)
(* none in the journal and waits for it.                                   *)
LEMMA SubmitSane ==
    ASSUME NEW s, Sane(s), NEW event \in LogEvent, NEW tid \in Nat,
           event = "EExport" => NoEExport(s.log) /\ s.exp.state = "loggingfinish"
    PROVE  Sane(Submit(s, event, tid)) /\ Submit(s, event, tid) \in RankState
<1>1. s \in RankState /\ s.log \in Seq(LogEntry)
    BY RankFields DEF Sane
<1>2. PICK x : x = [event |-> event, tid |-> tid]
    OBVIOUS
<1>3. x \in LogEntry /\ x.event = event
    BY <1>2 DEF LogEntry
<1>4. PICK L : L = Append(s.log, x)
    OBVIOUS
<1>5. /\ L \in Seq(LogEntry) /\ Len(L) = Len(s.log) + 1 /\ L[Len(s.log) + 1] = x
      /\ \A i \in 1..Len(s.log) : L[i] = s.log[i]
    BY <1>1, <1>3, <1>4, AppendProperties
<1>6. PICK t : t = [s EXCEPT !.log = L]
    OBVIOUS
<1>7. t \in RankState /\ t.exp = s.exp /\ t.imp = s.imp /\ t.log = L
    BY <1>1, <1>5, <1>6 DEF RankState
<1>8. Len(s.log) \in Nat /\ \A i \in 1..Len(L) : i \in 1..Len(s.log) \/ i = Len(s.log) + 1
    BY <1>1, <1>5
<1>9. Logged(s)
    BY DEF Sane
<1>10. s.exp.state # "loggingfinish" => NoEExport(L)
    BY <1>3, <1>5, <1>8, <1>9 DEF Logged, NoEExport
<1>11. OneEExport(L)
    BY <1>3, <1>5, <1>8, <1>9 DEF Logged, NoEExport, OneEExport
<1>12. Sane(t)
    BY <1>7, <1>10, <1>11 DEF Sane, Peers, Logged, IsExporting, IsImporting
<1>13. Submit(s, event, tid) = t
    BY <1>2, <1>4, <1>6 DEF Submit
<1> QED
    BY <1>7, <1>12, <1>13

-----------------------------------------------------------------------------
(* The exporter.                                                           *)

(* An export moves on to the state st.                                     *)
LEMMA MovesOn ==
    ASSUME NEW s, Sane(s), NEW st \in ExportStates, st # "none" => s.exp.peer \in Ranks,
           s.exp.state # "loggingfinish" \/ NoEExport(s.log)
    PROVE  Sane([s EXCEPT !.exp.state = st])
<1>1. s \in RankState /\ s.exp \in ExportStateT
    BY RankFields DEF Sane
<1>2. PICK e : e = [s.exp EXCEPT !.state = st]
    OBVIOUS
<1>3. e \in ExportStateT /\ e.peer = s.exp.peer /\ e.state = st
    BY <1>1, <1>2 DEF ExportStateT
<1>4. [s EXCEPT !.exp.state = st] = [s EXCEPT !.exp = e]
    BY <1>1, <1>2 DEF RankState
<1> QED
    BY <1>3, <1>4, ExpSane

(* Other answers are waited for.                                           *)
LEMMA WaitsFor ==
    ASSUME NEW s, Sane(s), NEW w \in SUBSET (Ranks \cup {NONE}), NEW n \in SUBSET Ranks
    PROVE  /\ Sane([s EXCEPT !.exp.warn = w])
           /\ Sane([s EXCEPT !.exp.notify = n])
           /\ Sane([s EXCEPT !.exp.warn = w, !.exp.notify = n])
           /\ [s EXCEPT !.exp.warn = w].exp.state = s.exp.state
           /\ [s EXCEPT !.exp.notify = n].exp.state = s.exp.state
           /\ [s EXCEPT !.exp.warn = w, !.exp.notify = n].exp.state = s.exp.state
           /\ [s EXCEPT !.exp.warn = w].exp.tid = s.exp.tid
           /\ [s EXCEPT !.exp.warn = w, !.exp.notify = n].exp.tid = s.exp.tid
<1>1. s \in RankState /\ s.exp \in ExportStateT /\ (s.exp.state # "none" => s.exp.peer \in Ranks)
    BY RankFields DEF Sane, Peers, IsExporting
<1>2. PICK e, f, g : /\ e = [s.exp EXCEPT !.warn = w] /\ f = [s.exp EXCEPT !.notify = n]
                     /\ g = [s.exp EXCEPT !.warn = w, !.notify = n]
    OBVIOUS
<1>3. /\ e \in ExportStateT /\ e.peer = s.exp.peer /\ e.state = s.exp.state /\ e.tid = s.exp.tid
      /\ f \in ExportStateT /\ f.peer = s.exp.peer /\ f.state = s.exp.state
      /\ g \in ExportStateT /\ g.peer = s.exp.peer /\ g.state = s.exp.state /\ g.tid = s.exp.tid
    BY <1>1, <1>2 DEF ExportStateT
<1>4. /\ [s EXCEPT !.exp.warn = w] = [s EXCEPT !.exp = e]
      /\ [s EXCEPT !.exp.notify = n] = [s EXCEPT !.exp = f]
      /\ [s EXCEPT !.exp.warn = w, !.exp.notify = n] = [s EXCEPT !.exp = g]
    BY <1>1, <1>2 DEF RankState
<1>5. [s EXCEPT !.exp = e].exp = e /\ [s EXCEPT !.exp = f].exp = f /\ [s EXCEPT !.exp = g].exp = g
    BY <1>1 DEF RankState
<1>6. Sane([s EXCEPT !.exp = e]) /\ Sane([s EXCEPT !.exp = f]) /\ Sane([s EXCEPT !.exp = g])
    BY <1>1, <1>3, ExpSane
<1> QED
    BY <1>3, <1>4, <1>5, <1>6

LEMMA EndExportSane ==
    ASSUME NEW s, Sane(s), s.exp.state # "loggingfinish" \/ NoEExport(s.log)
    PROVE  Sane(EndExport(s))
<1>1. PICK t : t = [s EXCEPT !.exp = NoExport]
    OBVIOUS
<1>2. NoExport.state = "none"
    BY DEF NoExport
<1>3. Sane(t)
    BY <1>1, <1>2, NothingThere, ExpSane
<1>4. Like(t, MaybeSendPendingResolves(t))
    BY <1>3, PendingResolvesLike DEF Sane
<1> QED
    BY <1>1, <1>3, <1>4, LikeSane DEF EndExport

LEMMA NotifyAbortSane ==
    ASSUME NEW s, Sane(s), IsExporting(s), s.exp.state # "loggingfinish"
    PROVE  /\ Sane(ExportNotifyAbort(s))
           /\ ExportNotifyAbort(s).exp.state # "loggingfinish"
           /\ ExportNotifyAbort(s).me = s.me
<1>1. s \in RankState /\ s.me \in Ranks /\ s.exp \in ExportStateT /\ s.exp.peer \in Ranks
    BY RankFields DEF Sane, Peers
<1>2. PICK t : t = [s EXCEPT !.exp = NoExport]
    OBVIOUS
<1>3. Sane(t) /\ t.exp.state = "none" /\ t.me = s.me
    <2>1. NoExport.state = "none"
        BY DEF NoExport
    <2>2. t.exp = NoExport /\ t.me = s.me
        BY <1>1, <1>2 DEF RankState
    <2> QED
        BY <1>2, <2>1, <2>2, NothingThere, ExpSane
<1>4. NotifyAbort(s) \in Message
    <2>1. Msg("Notify", s.exp.tid) \in Message
        BY <1>1, MsgType0, ExportFields DEF MsgType
    <2>2. <<s.me, s.exp.peer>> \in MdsAuthority /\ Sole(s.me) \in MdsAuthority
        BY <1>1, Authorities
    <2> QED
        BY <2>1, <2>2 DEF NotifyAbort, Message
<1>5. PICK u : u = SendAll(s, s.exp.notify, NotifyAbort(s))
    OBVIOUS
<1>6. Like(s, u) /\ Sane(u)
    BY <1>1, <1>4, <1>5, SendAllLike, LikeSane
<1>7. u \in RankState /\ u.exp = s.exp /\ u.me = s.me
    BY <1>6 DEF Like
<1>8. PICK v : v = [u EXCEPT !.exp.state = "cancelling"]
    OBVIOUS
<1>9. Sane(v) /\ v.exp.state = "cancelling" /\ v.me = s.me
    <2>1. Sane(v)
        BY <1>1, <1>6, <1>7, <1>8, MovesOn DEF ExportStates
    <2>2. v.exp.state = "cancelling" /\ v.me = s.me
        BY <1>7, <1>8 DEF RankState, ExportStateT
    <2> QED
        BY <2>1, <2>2
<1>10. ExportNotifyAbort(s) = t \/ ExportNotifyAbort(s) = v
    BY <1>2, <1>5, <1>8 DEF ExportNotifyAbort
<1> QED
    BY <1>3, <1>9, <1>10

LEMMA ExportReverseSane ==
    ASSUME NEW s, Sane(s), IsExporting(s), s.exp.state # "loggingfinish"
    PROVE  Sane(ExportReverse(s))
<1>1. s.me \in Ranks
    BY RankFields DEF Sane
<1>2. PICK t : t = ExportNotifyAbort(s)
    OBVIOUS
<1>3. Sane(t) /\ t \in RankState
    BY <1>2, NotifyAbortSane DEF Sane
<1>4. PICK a : a = <<s.me, s.me>>
    OBVIOUS
<1>5. a \in MdsAuthority
    BY <1>1, <1>4, Authorities
<1>6. PICK u : u = [t EXCEPT !.auth = a]
    OBVIOUS
<1>7. Sane(u) /\ u \in RankState
    BY <1>3, <1>5, <1>6, AuthLike, LikeSane DEF Like
<1>8. Sane(UnfreezeTree(u))
    BY <1>7, UnfreezeTreeLike, LikeSane
<1> QED
    BY <1>2, <1>4, <1>6, <1>8 DEF ExportReverse

LEMMA TryCancelSane ==
    ASSUME NEW s, Sane(s), NEW b
    PROVE  Sane(ExportTryCancel(s, b))
<1>1. s \in RankState /\ s.exp \in ExportStateT
    BY RankFields DEF Sane
<1>2. CASE s.exp.state = "locking"
    BY <1>2, EndExportSane DEF ExportTryCancel
<1>3. CASE s.exp.state \in {"discovering", "freezing", "prepping"}
    <2>1. PICK t : t = UnfreezeTree(s)
        OBVIOUS
    <2>2. Like(s, t)
        BY <1>1, <2>1, UnfreezeTreeLike
    <2>3. PICK u : u = TellCancel(t, s.exp, b)
        OBVIOUS
    <2>4. Like(t, u)
        BY <1>1, <2>2, <2>3, TellCancelLike DEF Like
    <2>5. Sane(u) /\ u.exp = s.exp
        BY <2>2, <2>4, LikeSane DEF Like
    <2>6. Sane(EndExport(u))
        BY <1>3, <2>5, EndExportSane
    <2> QED
        BY <1>3, <2>1, <2>3, <2>6 DEF ExportTryCancel
<1>4. CASE s.exp.state = "warning"
    <2>1. PICK t : t = ExportNotifyAbort(s)
        OBVIOUS
    <2>2. Sane(t) /\ t \in RankState
        BY <1>4, <2>1, NotifyAbortSane DEF IsExporting, Sane
    <2>3. PICK u : u = UnfreezeTree(t)
        OBVIOUS
    <2>4. Like(t, u)
        BY <2>2, <2>3, UnfreezeTreeLike
    <2>5. PICK v : v = TellCancel(u, s.exp, b)
        OBVIOUS
    <2>6. Like(u, v)
        BY <1>1, <2>4, <2>5, TellCancelLike DEF Like
    <2>7. Sane(v) /\ v \in RankState
        BY <2>2, <2>4, <2>6, LikeSane DEF Like
    <2>8. Sane(MaybeSendPendingResolves(v))
        BY <2>7, PendingResolvesLike, LikeSane
    <2> QED
        BY <1>4, <2>1, <2>3, <2>5, <2>7, <2>8 DEF ExportTryCancel
<1>5. CASE s.exp.state = "exporting"
    <2>1. PICK t : t = ExportReverse(s)
        OBVIOUS
    <2>2. Sane(t) /\ t \in RankState
        BY <1>5, <2>1, ExportReverseSane DEF IsExporting, Sane
    <2>3. Sane(MaybeSendPendingResolves(t))
        BY <2>2, PendingResolvesLike, LikeSane
    <2> QED
        BY <1>5, <2>1, <2>2, <2>3 DEF ExportTryCancel
<1> QED
    BY <1>2, <1>3, <1>4, <1>5 DEF ExportTryCancel

LEMMA ExportDirSane ==
    ASSUME NEW s, Sane(s), ~IsExporting(s), NEW dest \in Ranks, NEW tid \in Nat
    PROVE  Sane(ExportDir(s, dest, tid))
<1>1. PICK e : e = [NoExport EXCEPT !.state = "locking", !.peer = dest, !.tid = tid]
    OBVIOUS
<1>2. e \in ExportStateT /\ e.state = "locking" /\ e.peer = dest
    BY <1>1 DEF NoExport, ExportStateT, ExportStates
<1>3. Sane([s EXCEPT !.exp = e])
    BY <1>2, ExpSane DEF IsExporting
<1> QED
    BY <1>1, <1>3 DEF ExportDir

LEMMA DispatchSane ==
    ASSUME NEW s, Sane(s), s.exp.state = "locking"
    PROVE  Sane(DispatchExportDir(s))
<1>1. s \in RankState /\ s.exp \in ExportStateT /\ s.exp.peer \in Ranks
    BY RankFields DEF Sane, Peers, IsExporting
<1>2. Msg("Discover", s.exp.tid) \in Message
    BY <1>1, MsgType0, ExportFields DEF MsgType
<1>3. PICK t : t = SendMds(s, s.exp.peer, Msg("Discover", s.exp.tid))
    OBVIOUS
<1>4. Like(s, t) /\ Sane(t)
    BY <1>1, <1>2, <1>3, SendMdsLike, LikeSane
<1>5. t \in RankState /\ t.exp = s.exp
    BY <1>4 DEF Like
<1>6. PICK u : u = [t EXCEPT !.exp.state = "discovering"]
    OBVIOUS
<1>7. Sane(u) /\ u \in RankState
    BY <1>1, <1>4, <1>5, <1>6, MovesOn DEF ExportStates, Sane
<1>8. Sane([u EXCEPT !.frozen = "freezing"])
    BY <1>7, FrozenLike, LikeSane
<1>9. [t EXCEPT !.exp.state = "discovering", !.frozen = "freezing"] = [u EXCEPT !.frozen = "freezing"]
    BY <1>5, <1>6 DEF RankState
<1> QED
    BY <1>3, <1>8, <1>9 DEF DispatchExportDir

LEMMA DiscoverAckSane ==
    ASSUME NEW s, Sane(s), NEW from, NEW m
    PROVE  Sane(HandleExportDiscoverAck(s, from, m))
<1>1. s \in RankState
    BY DEF Sane
<1>2. Sane(Die(s, "discover_ack: state"))
    BY <1>1, DieLike, Asserted, LikeSane
<1>3. Sane(ExportTryCancel(s, FALSE))
    BY TryCancelSane
<1>4. s.exp.state = "discovering" => Sane([s EXCEPT !.exp.state = "freezing"])
    BY MovesOn DEF ExportStates, Sane, Peers, IsExporting
<1> QED
    BY <1>2, <1>3, <1>4 DEF HandleExportDiscoverAck

LEMMA ExportFrozenSane ==
    ASSUME NEW s, Sane(s), NEW tid \in Nat, NEW locks, NEW caps
    PROVE  Sane(ExportFrozen(s, tid, locks, caps))
<1>1. s \in RankState /\ s.wait \in SUBSET Context /\ s.exp \in ExportStateT
    BY RankFields DEF Sane
<1>2. PICK waiting, flush : /\ waiting = [kind |-> "frozen", peer |-> NONE, tid |-> tid]
                            /\ flush = [kind |-> "flushed", peer |-> NONE, tid |-> tid]
    OBVIOUS
<1>3. flush \in Context
    BY <1>2 DEF Context
<1>4. PICK s0 : s0 = [s EXCEPT !.wait = @ \ {waiting}]
    OBVIOUS
<1>5. Like(s, s0)
    BY <1>1, <1>4, WaitLike
<1>6. Sane(s0) /\ s0 \in RankState /\ s0.exp = s.exp /\ s0.wait \in SUBSET Context
    BY <1>5, LikeSane, RankFields DEF Like
<1>7. Sane(Die(s, "export_frozen: frozen, auth (me, me)"))
    BY <1>1, DieLike, Asserted, LikeSane
<1>8. ASSUME s.exp.state = "freezing"
      PROVE  Sane(EndExport(SendMds(UnfreezeTree(s0), s.exp.peer, Msg("Cancel", tid))))
    <2>1. Msg("Cancel", tid) \in Message
        BY MsgType0 DEF MsgType
    <2>2. PICK t : t = UnfreezeTree(s0)
        OBVIOUS
    <2>3. Like(s0, t) /\ t \in RankState
        BY <1>6, <2>2, UnfreezeTreeLike DEF Like
    <2>4. PICK u : u = SendMds(t, s.exp.peer, Msg("Cancel", tid))
        OBVIOUS
    <2>5. Like(t, u)
        BY <2>1, <2>3, <2>4, SendMdsLike
    <2>6. Sane(u) /\ u.exp = s.exp
        BY <1>6, <2>3, <2>5, LikeSane DEF Like
    <2> QED
        BY <1>8, <2>2, <2>4, <2>6, EndExportSane
<1> DEFINE bystanders == Ranks \ {s.me, s.exp.peer}
<1>9. PICK t : t = SendMds(s0, s.exp.peer, [Msg("Prep", tid) EXCEPT !.byst = bystanders])
    OBVIOUS
<1>10. Sane(t) /\ t \in RankState /\ t.exp = s.exp /\ t.wait \in SUBSET Context
    <2>1. Msg("Prep", tid) \in Message
        BY MsgType0 DEF MsgType
    <2>2. PICK m : m = [Msg("Prep", tid) EXCEPT !.byst = bystanders]
        OBVIOUS
    <2>3. m \in Message
        BY <2>1, <2>2 DEF Message
    <2>4. Like(s0, t)
        BY <1>6, <1>9, <2>2, <2>3, SendMdsLike
    <2> QED
        BY <1>6, <2>4, LikeSane, RankFields DEF Like
<1>11. ASSUME s.exp.state = "freezing"
       PROVE  /\ Sane([t EXCEPT !.exp.state = "prepping"])
              /\ Sane([t EXCEPT !.exp.state = "prepping", !.exp.warn = {NONE},
                                !.wait = @ \cup {flush}])
    <2>1. PICK u : u = [t EXCEPT !.exp.state = "prepping"]
        OBVIOUS
    <2>2. Sane(u)
        BY <1>10, <1>11, <2>1, MovesOn DEF ExportStates, Sane, Peers, IsExporting
    <2>3. u \in RankState /\ u.wait = t.wait
        BY <1>10, <2>1, <2>2 DEF Sane, RankState
    <2>4. PICK v : v = [u EXCEPT !.exp.warn = {NONE}]
        OBVIOUS
    <2>5. Sane(v) /\ v \in RankState
        BY <2>2, <2>4, WaitsFor DEF Sane
    <2>6. PICK W : W = t.wait \cup {flush}
        OBVIOUS
    <2>7. W \in SUBSET Context
        BY <1>3, <1>10, <2>6
    <2>8. Sane([v EXCEPT !.wait = W])
        BY <2>5, <2>7, WaitLike, LikeSane
    <2>9. [t EXCEPT !.exp.state = "prepping", !.exp.warn = {NONE}, !.wait = @ \cup {flush}]
            = [v EXCEPT !.wait = W]
        BY <1>10, <2>1, <2>4, <2>6 DEF RankState, ExportStateT
    <2> QED
        BY <2>1, <2>2, <2>8, <2>9
<1> QED
    BY <1>2, <1>4, <1>6, <1>7, <1>8, <1>9, <1>11 DEF ExportFrozen

LEMMA ExportGoSane ==
    ASSUME NEW s, Sane(s)
    PROVE  Sane(ExportGo(s))
<1>1. s.exp.tid \in Nat
    BY RankFields, ExportFields DEF Sane
<1> QED
    BY <1>1, SubmitSane DEF ExportGo, LogEvent

LEMMA PrepAckSane ==
    ASSUME NEW s, Sane(s), NEW from \in Ranks, NEW m \in Message
    PROVE  Sane(HandleExportPrepAck(s, from, m))
<1> DEFINE told == {q \in Ranks \ {s.me, from} : MayTell(s, q)}
<1>1. s \in RankState /\ s.me \in Ranks /\ s.exp \in ExportStateT /\ m.tid \in Nat
    BY RankFields, MessageFields DEF Sane
<1>2. PICK D : D = told /\ D \in SUBSET Ranks
    OBVIOUS
<1>3. PICK w : w = [Msg("Notify", m.tid) EXCEPT !.old = Sole(s.me), !.new = <<s.me, from>>]
    OBVIOUS
<1>4. w \in Message
    <2>1. Msg("Notify", m.tid) \in Message
        BY <1>1, MsgType0 DEF MsgType
    <2>2. Sole(s.me) \in MdsAuthority /\ <<s.me, from>> \in MdsAuthority
        BY <1>1, Authorities
    <2> QED
        BY <1>3, <2>1, <2>2 DEF Message
<1>5. PICK u : u = SendAll(s, D, w)
    OBVIOUS
<1>6. Sane(u) /\ u \in RankState /\ u.exp = s.exp
    BY <1>1, <1>4, <1>5, SendAllLike, LikeSane DEF Like
<1>7. PICK t : t = [u EXCEPT !.exp.state = "warning", !.exp.warn = @ \cup D, !.exp.notify = D]
    OBVIOUS
<1>8. ASSUME s.exp.state = "prepping"
      PROVE  Sane(t)
    <2>1. PICK v : v = [u EXCEPT !.exp.state = "warning"]
        OBVIOUS
    <2>2. Sane(v)
        BY <1>6, <1>8, <2>1, MovesOn DEF ExportStates, Sane, Peers, IsExporting
    <2>3. PICK W : W = u.exp.warn \cup D
        OBVIOUS
    <2>4. W \in SUBSET (Ranks \cup {NONE})
        BY <1>1, <1>2, <1>6, <2>3, ExportFields
    <2>5. Sane([v EXCEPT !.exp.warn = W, !.exp.notify = D])
        BY <1>2, <2>2, <2>4, WaitsFor
    <2>6. t = [v EXCEPT !.exp.warn = W, !.exp.notify = D]
        BY <1>1, <1>6, <1>7, <2>1, <2>3 DEF RankState, ExportStateT
    <2> QED
        BY <2>5, <2>6
<1>9. Sane(Die(s, "prep_ack: state")) /\ Sane(ExportTryCancel(s, FALSE))
    BY <1>1, DieLike, Asserted, LikeSane, TryCancelSane
<1>10. s.exp.state = "prepping" => Sane(ExportGo(t))
    BY <1>8, ExportGoSane
<1> QED
    BY <1>2, <1>3, <1>5, <1>7, <1>8, <1>9, <1>10 DEF HandleExportPrepAck

LEMMA SessionsFlushedSane ==
    ASSUME NEW s, Sane(s), NEW tid
    PROVE  Sane(ExportSessionsFlushed(s, tid))
<1>1. s \in RankState /\ s.wait \in SUBSET Context /\ s.exp \in ExportStateT
    BY RankFields DEF Sane
<1>2. PICK c, w : c = [kind |-> "flushed", peer |-> NONE, tid |-> tid] /\ w = s.wait \ {c}
    OBVIOUS
<1>3. PICK s0 : s0 = [s EXCEPT !.wait = w]
    OBVIOUS
<1>10. Sane(s0) /\ s0 \in RankState /\ s0.exp = s.exp
    <2>1. w \in SUBSET Context
        BY <1>1, <1>2
    <2>2. Like(s, s0)
        BY <1>1, <1>3, <2>1, WaitLike
    <2> QED
        BY <2>2, LikeSane DEF Like
<1>4. PICK W : W = s.exp.warn \ {NONE}
    OBVIOUS
<1>5. W \in SUBSET (Ranks \cup {NONE})
    BY <1>1, <1>4, ExportFields
<1>6. PICK t : t = [s0 EXCEPT !.exp.warn = W]
    OBVIOUS
<1>7. Sane(t) /\ Sane(ExportGo(t))
    BY <1>5, <1>6, <1>10, WaitsFor, ExportGoSane
<1>8. Sane(Die(s, "sessions_flushed: prepping or warning"))
    BY <1>1, DieLike, Asserted, LikeSane
<1>9. t = [s0 EXCEPT !.exp.warn = @ \ {NONE}]
    BY <1>4, <1>6, <1>10
<1> QED
    BY <1>2, <1>3, <1>7, <1>8, <1>9, <1>10 DEF ExportSessionsFlushed

LEMMA GoSyncedSane ==
    ASSUME NEW s, Sane(s), NEW tid \in Nat
    PROVE  Sane(ExportGoSynced(s, tid))
<1>1. s \in RankState /\ s.me \in Ranks
    BY RankFields DEF Sane
<1>2. Sane(Die(s, "export_go_synced: warning, frozen"))
    BY <1>1, DieLike, Asserted, LikeSane
<1>3. PICK t : t = SendMds(s, s.exp.peer, Msg("ExportDir", tid))
    OBVIOUS
<1>4. Sane(t) /\ t \in RankState /\ t.exp = s.exp
    <2>1. Msg("ExportDir", tid) \in Message
        BY MsgType0 DEF MsgType
    <2> QED
        BY <1>1, <1>3, <2>1, SendMdsLike, LikeSane DEF Like
<1>5. ASSUME s.exp.state = "warning"
      PROVE  Sane([t EXCEPT !.exp.state = "exporting", !.auth = <<s.me, s.exp.peer>>])
    <2>1. s.exp.peer \in Ranks
        BY <1>5 DEF Sane, Peers, IsExporting
    <2>2. PICK u : u = [t EXCEPT !.exp.state = "exporting"]
        OBVIOUS
    <2>3. Sane(u) /\ u \in RankState
        BY <1>4, <1>5, <2>1, <2>2, MovesOn DEF ExportStates, Sane
    <2>4. PICK a : a = <<s.me, s.exp.peer>>
        OBVIOUS
    <2>5. a \in MdsAuthority
        BY <1>1, <2>1, <2>4, Authorities
    <2>6. Sane([u EXCEPT !.auth = a])
        BY <2>3, <2>5, AuthLike, LikeSane
    <2>7. [t EXCEPT !.exp.state = "exporting", !.auth = a] = [u EXCEPT !.auth = a]
        BY <1>4, <2>2 DEF RankState
    <2> QED
        BY <2>4, <2>6, <2>7
<1> QED
    BY <1>2, <1>3, <1>5 DEF ExportGoSynced

LEMMA ExportAckSane ==
    ASSUME NEW s, Sane(s), NEW from, NEW m \in Message
    PROVE  Sane(HandleExportAck(s, from, m))
<1>1. s \in RankState /\ s.me \in Ranks /\ s.exp \in ExportStateT /\ m.tid \in Nat
    BY RankFields, MessageFields DEF Sane
<1>2. Sane(Die(s, "export_ack: exporting"))
    BY <1>1, DieLike, Asserted, LikeSane
<1>3. ASSUME s.exp.state = "exporting"
      PROVE  Sane(Submit([s EXCEPT !.exp.state = "loggingfinish", !.auth = <<s.exp.peer, s.me>>],
                         "EExport", m.tid))
    <2>1. s.exp.peer \in Ranks /\ NoEExport(s.log)
        BY <1>3 DEF Sane, Peers, IsExporting, Logged
    <2>2. PICK u : u = [s EXCEPT !.exp.state = "loggingfinish"]
        OBVIOUS
    <2>3. Sane(u) /\ u \in RankState
        BY <1>3, <2>1, <2>2, MovesOn DEF ExportStates, Sane
    <2>4. u.exp.state = "loggingfinish" /\ u.log = s.log
        BY <1>1, <2>2 DEF RankState, ExportStateT
    <2>5. PICK a : a = <<s.exp.peer, s.me>>
        OBVIOUS
    <2>6. a \in MdsAuthority
        BY <1>1, <2>1, <2>5, Authorities
    <2>7. PICK v : v = [u EXCEPT !.auth = a]
        OBVIOUS
    <2>8. Sane(v) /\ v.exp = u.exp /\ v.log = u.log
        BY <2>3, <2>6, <2>7, AuthLike, LikeSane DEF Like
    <2>9. v = [s EXCEPT !.exp.state = "loggingfinish", !.auth = a]
        BY <1>1, <2>2, <2>7 DEF RankState
    <2>10. Sane(Submit(v, "EExport", m.tid))
        BY <1>1, <2>1, <2>4, <2>8, SubmitSane DEF LogEvent
    <2> QED
        BY <2>5, <2>9, <2>10
<1> QED
    BY <1>2, <1>3 DEF HandleExportAck

LEMMA ExportFinishSane ==
    ASSUME NEW s, Sane(s), s.exp.peer \in Ranks, s.exp.state # "loggingfinish"
    PROVE  Sane(ExportFinish(s))
<1>1. PICK t : t = TellFinish(s, TRUE)
    OBVIOUS
<1>2. Like(s, t) /\ Sane(t)
    BY <1>1, TellFinishLike, LikeSane DEF Sane
<1>3. PICK a : a = Sole(s.exp.peer)
    OBVIOUS
<1>4. a \in MdsAuthority
    BY <1>3, Authorities
<1>5. PICK u : u = [t EXCEPT !.isauth = FALSE, !.auth = a]
    OBVIOUS
<1>6. Like(t, u)
    BY <1>2, <1>4, <1>5 DEF Like, RankState
<1>7. Like(u, UnfreezeTree(u))
    BY <1>6, UnfreezeTreeLike DEF Like
<1>8. PICK v : v = UnfreezeTree(u)
    OBVIOUS
<1>9. Sane(v) /\ v.exp = s.exp
    BY <1>2, <1>6, <1>7, <1>8, LikeSane DEF Like
<1>10. Sane(EndExport(v))
    BY <1>9, EndExportSane
<1> QED
    BY <1>1, <1>3, <1>5, <1>8, <1>10 DEF ExportFinish

(* export_logged_finish: the EExport is safe, and was the only one.        *)
LEMMA LoggedFinishSane ==
    ASSUME NEW s, Sane(s), s.exp.state = "loggingfinish", NoEExport(s.log)
    PROVE  Sane(ExportLoggedFinish(s))
<1>1. s \in RankState /\ s.me \in Ranks /\ s.exp \in ExportStateT /\ s.exp.peer \in Ranks
    BY RankFields DEF Sane, Peers, IsExporting
<1>2. PICK m : m = [Msg("Notify", s.exp.tid) EXCEPT
                      !.old = <<s.me, s.exp.peer>>, !.new = Sole(s.exp.peer)]
    OBVIOUS
<1>3. m \in Message
    <2>1. Msg("Notify", s.exp.tid) \in Message
        BY <1>1, MsgType0, ExportFields DEF MsgType
    <2>2. Sole(s.exp.peer) \in MdsAuthority /\ <<s.me, s.exp.peer>> \in MdsAuthority
        BY <1>1, Authorities
    <2> QED
        BY <1>2, <2>1, <2>2 DEF Message
<1>4. PICK u : u = SendAll(s, s.exp.notify, m)
    OBVIOUS
<1>5. Sane(u) /\ u \in RankState /\ u.exp = s.exp /\ u.log = s.log
    BY <1>1, <1>3, <1>4, SendAllLike, LikeSane DEF Like
<1>6. PICK t : t = [u EXCEPT !.exp.state = "notifying"]
    OBVIOUS
<1>7. Sane(t)
    BY <1>1, <1>5, <1>6, MovesOn DEF ExportStates
<1>8. t \in RankState /\ t.exp.state = "notifying" /\ t.exp.peer = s.exp.peer
    BY <1>1, <1>5, <1>6, <1>7 DEF Sane, RankState, ExportStateT
<1>9. Sane(ExportFinish(t))
    BY <1>1, <1>7, <1>8, ExportFinishSane
<1>10. Sane(TellFinish(t, FALSE))
    BY <1>7, <1>8, TellFinishLike, LikeSane
<1> QED
    BY <1>2, <1>4, <1>6, <1>9, <1>10 DEF ExportLoggedFinish

-----------------------------------------------------------------------------
(* The importer.                                                           *)
LEMMA ImpMoves ==
    ASSUME NEW s, Sane(s), NEW st \in ImportStates, IsImporting(s)
    PROVE  /\ Sane([s EXCEPT !.imp.state = st])
           /\ [s EXCEPT !.imp.state = st].imp.peer = s.imp.peer
           /\ [s EXCEPT !.imp.state = st].imp.tid = s.imp.tid
           /\ [s EXCEPT !.imp.state = st].imp.state = st
           /\ [s EXCEPT !.imp.state = st].me = s.me
<1>1. s \in RankState /\ s.imp \in ImportStateT /\ s.imp.peer \in Ranks
    BY RankFields DEF Sane, Peers
<1>2. PICK i : i = [s.imp EXCEPT !.state = st]
    OBVIOUS
<1>3. i \in ImportStateT /\ i.peer = s.imp.peer /\ i.state = st /\ i.tid = s.imp.tid
    BY <1>1, <1>2 DEF ImportStateT
<1>4. [s EXCEPT !.imp.state = st] = [s EXCEPT !.imp = i]
    BY <1>1, <1>2 DEF RankState
<1>5. [s EXCEPT !.imp = i].imp = i /\ [s EXCEPT !.imp = i].me = s.me
    BY <1>1 DEF RankState
<1> QED
    BY <1>1, <1>3, <1>4, <1>5, ImpSane

LEMMA BystandersLeft ==
    ASSUME NEW s, Sane(s), NEW b \in SUBSET Ranks
    PROVE  /\ Sane([s EXCEPT !.imp.byst = b])
           /\ [s EXCEPT !.imp.byst = b].imp.state = s.imp.state
<1>1. s \in RankState /\ s.imp \in ImportStateT /\ (s.imp.state # "none" => s.imp.peer \in Ranks)
    BY RankFields DEF Sane, Peers, IsImporting
<1>2. PICK i : i = [s.imp EXCEPT !.byst = b]
    OBVIOUS
<1>3. i \in ImportStateT /\ i.peer = s.imp.peer /\ i.state = s.imp.state
    BY <1>1, <1>2 DEF ImportStateT
<1>4. [s EXCEPT !.imp.byst = b] = [s EXCEPT !.imp = i] /\ [s EXCEPT !.imp = i].imp = i
    BY <1>1, <1>2 DEF RankState
<1> QED
    BY <1>1, <1>3, <1>4, ImpSane

LEMMA NoImportSane ==
    ASSUME NEW s, Sane(s)
    PROVE  Sane([s EXCEPT !.imp = NoImport])
<1>1. NoImport.state = "none"
    BY DEF NoImport
<1> QED
    BY <1>1, NothingThere, ImpSane

LEMMA ReverseFinalSane ==
    ASSUME NEW s, Sane(s)
    PROVE  Sane(ImportReverseFinal(s))
<1>1. PICK t : t = [s EXCEPT !.imp = NoImport]
    OBVIOUS
<1>2. Sane(t)
    BY <1>1, NoImportSane
<1>3. Sane(MaybeSendPendingResolves(t))
    BY <1>2, PendingResolvesLike, LikeSane DEF Sane
<1> QED
    BY <1>1, <1>3 DEF ImportReverseFinal

LEMMA ReverseUnfreezeSane ==
    ASSUME NEW s, Sane(s)
    PROVE  Sane(ImportReverseUnfreeze(s))
<1>1. s \in RankState
    BY DEF Sane
<1>2. Sane(Die(s, "import_reverse_unfreeze: !is_auth"))
    BY <1>1, DieLike, Asserted, LikeSane
<1>3. Sane(ImportReverseFinal(UnfreezeTree(s)))
    BY <1>1, UnfreezeTreeLike, LikeSane, ReverseFinalSane
<1> QED
    BY <1>2, <1>3 DEF ImportReverseUnfreeze

LEMMA ImportAbortSane ==
    ASSUME NEW s, Sane(s), IsImporting(s)
    PROVE  Sane(ImportNotifyAbort(s))
<1> DEFINE left == {q \in s.imp.byst : MayTell(s, q)}
<1>1. s \in RankState /\ s.me \in Ranks /\ s.imp \in ImportStateT /\ s.imp.peer \in Ranks
    BY RankFields DEF Sane, Peers
<1>2. PICK D : D = left
    OBVIOUS
<1>3. D \in SUBSET Ranks
    BY <1>1, <1>2, ImportFields
<1>4. PICK m : m = [Msg("Notify", s.imp.tid) EXCEPT
                      !.old = <<s.imp.peer, s.me>>, !.new = Sole(s.imp.peer)]
    OBVIOUS
<1>5. m \in Message
    <2>1. Msg("Notify", s.imp.tid) \in Message
        BY <1>1, MsgType0, ImportFields DEF MsgType
    <2>2. Sole(s.imp.peer) \in MdsAuthority /\ <<s.imp.peer, s.me>> \in MdsAuthority
        BY <1>1, Authorities
    <2> QED
        BY <1>4, <2>1, <2>2 DEF Message
<1>6. PICK u : u = SendAll(s, D, m)
    OBVIOUS
<1>7. Sane(u)
    BY <1>1, <1>5, <1>6, SendAllLike, LikeSane
<1>8. PICK t : t = [u EXCEPT !.imp.byst = D]
    OBVIOUS
<1>9. Sane(t) /\ Sane(ImportReverseUnfreeze(t))
    BY <1>3, <1>7, <1>8, BystandersLeft, ReverseUnfreezeSane
<1> QED
    BY <1>2, <1>4, <1>6, <1>8, <1>9 DEF ImportNotifyAbort

LEMMA ImportReverseSane ==
    ASSUME NEW s, Sane(s), IsImporting(s)
    PROVE  Sane(ImportReverse(s))
<1>1. s \in RankState /\ s.imp \in ImportStateT /\ s.imp.peer \in Ranks /\ s.imp.tid \in Nat
    BY RankFields, ImportFields DEF Sane, Peers
<1>2. Sane(Die(s, "import_reverse: is_auth"))
    BY <1>1, DieLike, Asserted, LikeSane
<1>3. PICK t : t = [s EXCEPT !.imp.state = "aborting"]
    OBVIOUS
<1>4. Sane(t) /\ t \in RankState /\ t.imp.state = "aborting"
    BY <1>3, ImpMoves DEF ImportStates, Sane
<1>5. PICK a : a = Sole(s.imp.peer)
    OBVIOUS
<1>6. a \in MdsAuthority
    BY <1>1, <1>5, Authorities
<1>7. PICK u : u = [t EXCEPT !.isauth = FALSE, !.auth = a]
    OBVIOUS
<1>8. Like(t, u)
    BY <1>4, <1>6, <1>7 DEF Like, RankState
<1>9. u = [s EXCEPT !.imp.state = "aborting", !.isauth = FALSE, !.auth = a]
    BY <1>1, <1>3, <1>7 DEF RankState
<1>10. PICK v : v = Submit(u, "EImportFinishFalse", s.imp.tid)
    OBVIOUS
<1>11. Sane(v) /\ v.imp.state = "aborting"
    <2>1. Sane(u) /\ u.imp.state = "aborting" /\ u \in RankState
        BY <1>4, <1>8, LikeSane DEF Like
    <2>2. Sane(v)
        BY <1>1, <1>10, <2>1, SubmitSane DEF LogEvent
    <2>3. v.imp = u.imp
        BY <1>10, <2>1 DEF Submit, RankState
    <2> QED
        BY <2>1, <2>2, <2>3
<1>12. Sane(ImportNotifyAbort(v))
    BY <1>11, ImportAbortSane DEF IsImporting
<1> QED
    BY <1>2, <1>5, <1>9, <1>10, <1>12 DEF ImportReverse

LEMMA GiveBackSane ==
    ASSUME NEW s, Sane(s), IsImporting(s)
    PROVE  Sane(GiveBack(s)) /\ GiveBack(s).imp = s.imp
<1>1. s \in RankState /\ s.imp.peer \in Ranks
    BY DEF Sane, Peers
<1>2. PICK a : a = Sole(s.imp.peer)
    OBVIOUS
<1>3. a \in MdsAuthority
    BY <1>1, <1>2, Authorities
<1>4. Like(s, [s EXCEPT !.auth = a])
    BY <1>1, <1>3, AuthLike
<1>5. GiveBack(s) = [s EXCEPT !.auth = a]
    BY <1>2 DEF GiveBack
<1> QED
    BY <1>4, <1>5, LikeSane DEF Like

LEMMA CancelSane ==
    ASSUME NEW s, Sane(s), NEW from, NEW m
    PROVE  Sane(HandleExportCancel(s, from, m))
<1>1. s \in RankState
    BY DEF Sane
<1>2. Sane(Die(s, "got export_cancel in weird state"))
    BY <1>1, DieLike, Asserted, LikeSane
<1>3. s.imp.state = "prepped" => Sane(ImportReverseUnfreeze(GiveBack(s)))
    BY GiveBackSane, ReverseUnfreezeSane DEF IsImporting
<1>4. Sane([s EXCEPT !.imp = NoImport]) /\ Sane(ImportReverseFinal(s))
    BY NoImportSane, ReverseFinalSane
<1> QED
    BY <1>2, <1>3, <1>4 DEF HandleExportCancel

(* A context is parked, or is taken back.                                  *)
LEMMA ParkSane ==
    ASSUME NEW s, Sane(s), NEW c
    PROVE  /\ c \in Context => Sane([s EXCEPT !.wait = @ \cup {c}])
           /\ Sane([s EXCEPT !.wait = @ \ {c}])
           /\ [s EXCEPT !.wait = @ \ {c}].imp = s.imp
<1>1. s \in RankState /\ s.wait \in SUBSET Context
    BY RankFields DEF Sane
<1>2. PICK v, w : v = s.wait \cup {c} /\ w = s.wait \ {c}
    OBVIOUS
<1>3. w \in SUBSET Context /\ (c \in Context => v \in SUBSET Context)
    BY <1>1, <1>2
<1>4. Like(s, [s EXCEPT !.wait = w]) /\ (c \in Context => Like(s, [s EXCEPT !.wait = v]))
    BY <1>1, <1>3, WaitLike
<1>5. Sane([s EXCEPT !.wait = w]) /\ (c \in Context => Sane([s EXCEPT !.wait = v]))
    BY <1>4, LikeSane
<1>6. [s EXCEPT !.wait = w].imp = s.imp
    BY <1>4 DEF Like
<1> QED
    BY <1>2, <1>5, <1>6

LEMMA DiscoveredSane ==
    ASSUME NEW s, Sane(s), IsImporting(s), NEW from \in Ranks \cup {NONE}, NEW tid \in Nat, NEW found
    PROVE  Sane(Discovered(s, from, tid, found))
<1>1. Msg("DiscoverAck", tid) \in Message
    BY MsgType0 DEF MsgType
<1>2. PICK t : t = [s EXCEPT !.imp.state = "discovered"]
    OBVIOUS
<1>3. Sane(t)
    BY <1>2, ImpMoves DEF ImportStates
<1>4. Sane(SendMds(t, from, Msg("DiscoverAck", tid)))
    BY <1>1, <1>3, SendMdsLike, LikeSane DEF Sane
<1>5. PICK c : c = [kind |-> "discover", peer |-> from, tid |-> tid]
    OBVIOUS
<1>6. c \in Context
    BY <1>5 DEF Context
<1>7. Sane([s EXCEPT !.wait = @ \cup {c}])
    BY <1>6, ParkSane
<1> QED
    BY <1>2, <1>4, <1>5, <1>7 DEF Discovered

LEMMA DiscoverNackSane ==
    ASSUME NEW s, Sane(s), NEW from, NEW tid \in Nat
    PROVE  Sane(DiscoverNack(s, from, tid))
<1>1. Msg("DiscoverAck", tid) \in Message
    BY MsgType0 DEF MsgType
<1>2. PICK m : m = [Msg("DiscoverAck", tid) EXCEPT !.flag = FALSE]
    OBVIOUS
<1>3. m \in Message
    BY <1>1, <1>2 DEF Message
<1> QED
    BY <1>2, <1>3, SendMdsLike, LikeSane DEF DiscoverNack, Sane

LEMMA DiscoverSane ==
    ASSUME NEW s, Sane(s), NEW from \in Ranks, NEW m \in Message, NEW found
    PROVE  Sane(HandleExportDiscover(s, from, m, found))
<1>1. s \in RankState /\ m.tid \in Nat
    BY MessageFields DEF Sane
<1>2. Sane(Die(s, "discover: no import yet")) /\ Sane(DiscoverNack(s, from, m.tid))
    BY <1>1, DieLike, Asserted, LikeSane, DiscoverNackSane
<1>3. PICK i : i = [NoImport EXCEPT !.state = "discovering", !.peer = from, !.tid = m.tid]
    OBVIOUS
<1>4. i \in ImportStateT /\ i.state = "discovering" /\ i.peer = from
    BY <1>1, <1>3 DEF NoImport, ImportStateT, ImportStates
<1>5. PICK t : t = [s EXCEPT !.imp = i]
    OBVIOUS
<1>6. Sane(t) /\ t.imp = i
    <2>1. Sane(t)
        BY <1>4, <1>5, ImpSane
    <2>2. t.imp = i
        BY <1>1, <1>5 DEF RankState
    <2> QED
        BY <2>1, <2>2
<1>7. Sane(Discovered(t, from, m.tid, found))
    BY <1>1, <1>4, <1>6, DiscoveredSane DEF IsImporting
<1> QED
    BY <1>2, <1>3, <1>5, <1>7 DEF HandleExportDiscover

LEMMA RetryDiscoverSane ==
    ASSUME NEW s, Sane(s), NEW c \in s.wait, NEW found
    PROVE  Sane(RetryExportDiscover(s, c, found))
<1>1. s \in RankState /\ c \in Context
    BY RankFields DEF Sane
<1>2. c.peer \in Ranks \cup {NONE} /\ c.tid \in Nat
    BY <1>1 DEF Context
<1>3. PICK s0 : s0 = [s EXCEPT !.wait = @ \ {c}]
    OBVIOUS
<1>4. Sane(s0) /\ s0.imp = s.imp
    BY <1>3, ParkSane
<1>5. Sane(DiscoverNack(s0, c.peer, c.tid))
    BY <1>2, <1>4, DiscoverNackSane
<1>6. Sane(Die(s, "discover retry: state"))
    BY <1>1, DieLike, Asserted, LikeSane
<1>7. IsImporting(s) => Sane(Discovered(s0, c.peer, c.tid, found))
    BY <1>2, <1>4, DiscoveredSane DEF IsImporting
<1> QED
    BY <1>3, <1>4, <1>5, <1>6, <1>7 DEF RetryExportDiscover

LEMMA PreppedSane ==
    ASSUME NEW s, Sane(s), IsImporting(s), NEW from \in Ranks, NEW tid \in Nat, NEW opened, NEW locks
    PROVE  Sane(Prepped(s, from, tid, opened, locks))
<1>1. s \in RankState /\ s.me \in Ranks /\ s.imp \in ImportStateT
    BY RankFields DEF Sane
<1>2. PICK ack : ack = Msg("PrepAck", tid)
    OBVIOUS
<1>3. ack \in Message
    BY <1>2, MsgType0 DEF MsgType
<1>4. PICK c : c = [kind |-> "prep", peer |-> from, tid |-> tid]
    OBVIOUS
<1>5. c \in Context
    BY <1>4 DEF Context
<1>6. Sane([s EXCEPT !.wait = @ \cup {c}])
    BY <1>5, ParkSane
<1>7. PICK t : t = [s EXCEPT !.imp.state = "prepped"]
    OBVIOUS
<1>8. Sane(t) /\ t \in RankState
    BY <1>7, ImpMoves DEF ImportStates, Sane
<1>9. PICK a : a = <<from, s.me>>
    OBVIOUS
<1>10. a \in MdsAuthority
    BY <1>1, <1>9, Authorities
<1>11. PICK u : u = [t EXCEPT !.auth = a]
    OBVIOUS
<1>12. Sane(u) /\ u \in RankState
    BY <1>8, <1>10, <1>11, AuthLike, LikeSane DEF Like
<1>13. u = [s EXCEPT !.imp.state = "prepped", !.auth = a]
    BY <1>1, <1>7, <1>11 DEF RankState
<1>14. PICK v : v = FreezeTree(u)
    OBVIOUS
<1>15. Sane(v) /\ v \in RankState
    BY <1>12, <1>14, FreezeTreeLike, LikeSane DEF Like
<1>16. Sane(SendReply(v, from, ack))
    BY <1>3, <1>15, SendReplyLike, LikeSane
<1>17. PICK nack : nack = [ack EXCEPT !.flag = FALSE]
    OBVIOUS
<1>18. nack \in Message
    BY <1>3, <1>17 DEF Message
<1>19. PICK w : w = ImportReverseFinal(s)
    OBVIOUS
<1>20. Sane(w) /\ w \in RankState
    BY <1>19, ReverseFinalSane DEF Sane
<1>21. Sane(SendReply(w, from, nack))
    BY <1>18, <1>20, SendReplyLike, LikeSane
<1> QED
    BY <1>2, <1>4, <1>6, <1>9, <1>13, <1>14, <1>16, <1>17, <1>19, <1>21 DEF Prepped

LEMMA PrepSane ==
    ASSUME NEW s, Sane(s), NEW from \in Ranks, NEW m \in Message, NEW opened, NEW locks
    PROVE  Sane(HandleExportPrep(s, from, m, opened, locks))
<1>1. s \in RankState /\ s.imp \in ImportStateT /\ m.tid \in Nat /\ m.byst \in SUBSET Ranks
    BY RankFields, MessageFields DEF Sane
<1>2. Sane(Die(s, "export_prep: discovered"))
    BY <1>1, DieLike, Asserted, LikeSane
<1>3. ASSUME s.imp.state = "discovered"
      PROVE  Sane(Prepped([s EXCEPT !.imp.state = "prepping", !.imp.byst = m.byst],
                          from, m.tid, opened, locks))
    <2>1. PICK t : t = [s EXCEPT !.imp.state = "prepping"]
        OBVIOUS
    <2>2. Sane(t) /\ t.imp.state = "prepping"
        BY <1>3, <2>1, ImpMoves DEF IsImporting, ImportStates
    <2>3. PICK b : b = m.byst
        OBVIOUS
    <2>4. PICK u : u = [t EXCEPT !.imp.byst = b]
        OBVIOUS
    <2>5. Sane(u) /\ u.imp.state = "prepping"
        BY <1>1, <2>2, <2>3, <2>4, BystandersLeft
    <2>6. u = [s EXCEPT !.imp.state = "prepping", !.imp.byst = b]
        BY <1>1, <2>1, <2>4 DEF RankState
    <2>7. Sane(Prepped(u, from, m.tid, opened, locks))
        BY <1>1, <2>5, PreppedSane DEF IsImporting
    <2> QED
        BY <2>3, <2>6, <2>7
<1> QED
    BY <1>2, <1>3 DEF HandleExportPrep

LEMMA RetryPrepSane ==
    ASSUME NEW s, Sane(s), NEW c \in s.wait, NEW opened, NEW locks
    PROVE  Sane(RetryExportPrep(s, c, opened, locks))
<1>1. s \in RankState /\ c \in Context
    BY RankFields DEF Sane
<1>2. c.tid \in Nat
    BY <1>1 DEF Context
<1>3. PICK s0 : s0 = [s EXCEPT !.wait = @ \ {c}]
    OBVIOUS
<1>4. Sane(s0) /\ s0.imp = s.imp
    BY <1>3, ParkSane
<1>5. Sane(Die(s, "prep retry: prepping"))
    BY <1>1, DieLike, Asserted, LikeSane
<1>6. ASSUME IsImporting(s), s.imp.peer = c.peer
      PROVE  Sane(Prepped(s0, c.peer, c.tid, opened, locks))
    <2>1. c.peer \in Ranks
        BY <1>6 DEF Sane, Peers
    <2> QED
        BY <1>2, <1>4, <1>6, <2>1, PreppedSane DEF IsImporting
<1> QED
    BY <1>3, <1>4, <1>5, <1>6 DEF RetryExportPrep

LEMMA HandleExportDirSane ==
    ASSUME NEW s, Sane(s), NEW from \in Ranks, NEW m \in Message
    PROVE  Sane(HandleExportDir(s, from, m))
<1>1. s \in RankState /\ s.me \in Ranks /\ s.imp \in ImportStateT /\ m.tid \in Nat
    BY RankFields, MessageFields DEF Sane
<1>2. Sane(Die(s, "export_dir: prepped"))
    BY <1>1, DieLike, Asserted, LikeSane
<1>3. ASSUME s.imp.state = "prepped"
      PROVE  Sane(Submit([s EXCEPT !.imp.state = "loggingstart", !.isauth = TRUE,
                                   !.auth = <<s.me, from>>], "EImportStart", m.tid))
    <2>1. PICK t : t = [s EXCEPT !.imp.state = "loggingstart"]
        OBVIOUS
    <2>2. Sane(t) /\ t \in RankState
        BY <1>3, <2>1, ImpMoves DEF IsImporting, ImportStates, Sane
    <2>3. PICK a : a = <<s.me, from>>
        OBVIOUS
    <2>4. a \in MdsAuthority
        BY <1>1, <2>3, Authorities
    <2>5. PICK u : u = [t EXCEPT !.isauth = TRUE, !.auth = a]
        OBVIOUS
    <2>6. Like(t, u)
        BY <2>2, <2>4, <2>5 DEF Like, RankState
    <2>7. u = [s EXCEPT !.imp.state = "loggingstart", !.isauth = TRUE, !.auth = a]
        BY <1>1, <2>1, <2>5 DEF RankState
    <2>8. Sane(Submit(u, "EImportStart", m.tid))
        BY <1>1, <2>2, <2>6, LikeSane, SubmitSane DEF LogEvent
    <2> QED
        BY <2>3, <2>7, <2>8
<1> QED
    BY <1>2, <1>3 DEF HandleExportDir

LEMMA LoggedStartSane ==
    ASSUME NEW s, Sane(s)
    PROVE  Sane(ImportLoggedStart(s))
<1>1. s.imp.tid \in Nat
    BY RankFields, ImportFields DEF Sane
<1>2. PICK m : m = Msg("ExportDirAck", s.imp.tid)
    OBVIOUS
<1>3. m \in Message
    BY <1>1, <1>2, MsgType0 DEF MsgType
<1>4. ASSUME s.imp.state = "loggingstart"
      PROVE  Sane(SendMds([s EXCEPT !.imp.state = "acking"], s.imp.peer, m))
    <2>1. PICK t : t = [s EXCEPT !.imp.state = "acking"]
        OBVIOUS
    <2>2. Sane(t) /\ t \in RankState
        BY <1>4, <2>1, ImpMoves DEF IsImporting, ImportStates, Sane
    <2> QED
        BY <1>3, <2>1, <2>2, SendMdsLike, LikeSane
<1> QED
    BY <1>2, <1>4 DEF ImportLoggedStart

LEMMA NotifyFinishLike ==
    ASSUME NEW s, Sane(s), IsImporting(s)
    PROVE  Like(s, ImportNotifyFinish(s))
<1>1. s \in RankState /\ s.me \in Ranks /\ s.imp.peer \in Ranks /\ s.imp.tid \in Nat
    BY RankFields, ImportFields DEF Sane, Peers
<1>2. PICK m : m = [Msg("Notify", s.imp.tid) EXCEPT !.flag = FALSE,
                      !.old = <<s.imp.peer, s.me>>, !.new = Sole(s.me)]
    OBVIOUS
<1>3. m \in Message
    <2>1. Msg("Notify", s.imp.tid) \in Message
        BY <1>1, MsgType0 DEF MsgType
    <2>2. Sole(s.me) \in MdsAuthority /\ <<s.imp.peer, s.me>> \in MdsAuthority
        BY <1>1, Authorities
    <2> QED
        BY <1>2, <2>1, <2>2 DEF Message
<1> QED
    BY <1>1, <1>2, <1>3, SendAllLike DEF ImportNotifyFinish

LEMMA ImportFinishSane ==
    ASSUME NEW s, Sane(s), NEW notify, NEW last
    PROVE  Sane(ImportFinish(s, notify, last))
<1>1. s \in RankState /\ s.me \in Ranks /\ s.imp.tid \in Nat
    BY RankFields, ImportFields DEF Sane
<1>2. Sane(Die(s, "import_finish: acking or finishing"))
    BY <1>1, DieLike, Asserted, LikeSane
<1>3. PICK a : a = <<s.me, s.me>>
    OBVIOUS
<1>4. a \in MdsAuthority
    BY <1>1, <1>3, Authorities
<1>5. PICK t : t = IF s.imp.state = "acking" THEN [s EXCEPT !.auth = a] ELSE s
    OBVIOUS
<1>6. Like(s, t)
    BY <1>1, <1>4, <1>5, AuthLike, LikeItself
<1>7. Sane(t) /\ t.imp = s.imp
    BY <1>6, LikeSane DEF Like
<1>8. PICK u : u = IF notify THEN ImportNotifyFinish(t) ELSE t
    OBVIOUS
<1>9. ASSUME IsImporting(s)
      PROVE  /\ Sane([t EXCEPT !.imp.state = "finishing"])
             /\ Sane(MaybeSendPendingResolves(UnfreezeTree(
                        Submit([u EXCEPT !.imp = NoImport], "EImportFinishTrue", s.imp.tid))))
    <2>1. Sane([t EXCEPT !.imp.state = "finishing"])
        <3>1. IsImporting(t) /\ "finishing" \in ImportStates
            BY <1>7, <1>9 DEF IsImporting, ImportStates
        <3> QED
            BY <1>7, <3>1, ImpMoves
    <2>2. Sane(u)
        BY <1>7, <1>8, <1>9, NotifyFinishLike, LikeSane DEF IsImporting
    <2>3. PICK v : v = [u EXCEPT !.imp = NoImport]
        OBVIOUS
    <2>4. Sane(v)
        BY <2>2, <2>3, NoImportSane
    <2>5. PICK w : w = Submit(v, "EImportFinishTrue", s.imp.tid)
        OBVIOUS
    <2>6. Sane(w) /\ w \in RankState
        BY <1>1, <2>4, <2>5, SubmitSane DEF LogEvent
    <2>7. PICK x : x = UnfreezeTree(w)
        OBVIOUS
    <2>8. Sane(x) /\ x \in RankState
        BY <2>6, <2>7, UnfreezeTreeLike, LikeSane DEF Like
    <2>9. Sane(MaybeSendPendingResolves(x))
        BY <2>8, PendingResolvesLike, LikeSane
    <2> QED
        BY <2>1, <2>3, <2>5, <2>7, <2>9
<1>10. CASE IsImporting(s)
    BY <1>2, <1>3, <1>5, <1>8, <1>9, <1>10 DEF ImportFinish
<1>11. CASE ~IsImporting(s)
    <2>1. s.imp.state \notin {"acking", "finishing"}
        BY <1>11 DEF IsImporting
    <2> QED
        BY <1>2, <2>1 DEF ImportFinish
<1> QED
    BY <1>10, <1>11

LEMMA FinishSane ==
    ASSUME NEW s, Sane(s), NEW from, NEW m
    PROVE  Sane(HandleExportFinish(s, from, m))
<1>1. s \in RankState
    BY DEF Sane
<1>2. Sane(Die(s, "export_finish: tid"))
    BY <1>1, DieLike, Asserted, LikeSane
<1> QED
    BY <1>2, ImportFinishSane DEF HandleExportFinish

-----------------------------------------------------------------------------
(* The bystander, and the answers it gives.                                *)
LEMMA NotifySane ==
    ASSUME NEW s, Sane(s), NEW from, NEW m \in Message
    PROVE  Sane(HandleExportNotify(s, from, m))
<1>1. s \in RankState /\ m.tid \in Nat /\ m.new \in MdsAuthority
    BY MessageFields DEF Sane
<1>2. PICK a : a = m.new
    OBVIOUS
<1>3. PICK t : t = IF s.auth = m.old THEN [s EXCEPT !.auth = a] ELSE s
    OBVIOUS
<1>4. Sane(t) /\ t \in RankState
    <2>1. Like(s, [s EXCEPT !.auth = a])
        BY <1>1, <1>2, AuthLike
    <2>2. Sane([s EXCEPT !.auth = a])
        BY <2>1, LikeSane
    <2>3. Sane(t)
        BY <1>3, <2>2
    <2> QED
        BY <2>3 DEF Sane
<1>5. Msg("NotifyAck", m.tid) \in Message
    BY <1>1, MsgType0 DEF MsgType
<1>6. PICK ack : ack = [Msg("NotifyAck", m.tid) EXCEPT !.new = a]
    OBVIOUS
<1>7. ack \in Message
    BY <1>1, <1>2, <1>5, <1>6 DEF Message
<1>8. Sane(SendMds(t, from, ack))
    BY <1>4, <1>7, SendMdsLike, LikeSane
<1> QED
    BY <1>2, <1>3, <1>4, <1>6, <1>8 DEF HandleExportNotify

LEMMA NotifyAckSane ==
    ASSUME NEW s, Sane(s), NEW from, NEW m
    PROVE  Sane(HandleExportNotifyAck(s, from, m))
<1>1. s \in RankState /\ s.exp \in ExportStateT /\ s.imp \in ImportStateT
    BY RankFields DEF Sane
<1>2. PICK W, N, B : W = s.exp.warn \ {from} /\ N = s.exp.notify \ {from} /\ B = s.imp.byst \ {from}
    OBVIOUS
<1>3. W \in SUBSET (Ranks \cup {NONE}) /\ N \in SUBSET Ranks /\ B \in SUBSET Ranks
    BY <1>1, <1>2, ExportFields, ImportFields
<1>4. PICK warned, notified, undone :
          /\ warned = [s EXCEPT !.exp.warn = W]
          /\ notified = [s EXCEPT !.exp.notify = N]
          /\ undone = [s EXCEPT !.imp.byst = B]
    OBVIOUS
<1>5. /\ Sane(warned) /\ Sane(notified) /\ notified.exp.state = s.exp.state
      /\ Sane(undone)
    BY <1>3, <1>4, WaitsFor, BystandersLeft
<1>6. notified.exp.peer = s.exp.peer
    BY <1>1, <1>4 DEF RankState, ExportStateT
<1>7. Sane(ExportGo(warned)) /\ Sane(ImportReverseUnfreeze(undone))
    BY <1>5, ExportGoSane, ReverseUnfreezeSane
<1>8. s.exp.state = "notifying" => Sane(ExportFinish(notified))
    BY <1>5, <1>6, ExportFinishSane DEF Sane, Peers, IsExporting
<1>9. s.exp.state = "cancelling" => Sane(EndExport(notified))
    BY <1>5, EndExportSane
<1>10. Sane(Die(s, "notify_ack: bystander"))
    BY <1>1, DieLike, Asserted, LikeSane
<1>11. /\ warned = [s EXCEPT !.exp.warn = @ \ {from}]
       /\ notified = [s EXCEPT !.exp.notify = @ \ {from}]
       /\ undone = [s EXCEPT !.imp.byst = @ \ {from}]
    BY <1>1, <1>2, <1>4 DEF RankState
<1> HIDE <1>4
<1> QED
    BY <1>5, <1>7, <1>8, <1>9, <1>10, <1>11 DEF HandleExportNotifyAck

-----------------------------------------------------------------------------
(* A peer has failed.                                                      *)
LEMMA ExportPeerFailureSane ==
    ASSUME NEW s, Sane(s), NEW who
    PROVE  Sane(ExportPeerFailure(s, who))
<1>1. s \in RankState /\ s.exp \in ExportStateT
    BY RankFields DEF Sane
<1>2. PICK W, V, N :
          /\ W = s.exp.warn \ {who}
          /\ V = IF who \in s.exp.warn /\ s.exp.state = "warning" THEN s.exp.notify \ {who}
                 ELSE s.exp.notify
          /\ N = V \ {who}
    OBVIOUS
<1>3. W \in SUBSET (Ranks \cup {NONE}) /\ V \in SUBSET Ranks /\ N \in SUBSET Ranks
    BY <1>1, <1>2, ExportFields
<1>4. PICK w : w = [s EXCEPT !.exp.warn = W, !.exp.notify = V]
    OBVIOUS
<1>5. Sane(w) /\ w.exp.state = s.exp.state
    BY <1>3, <1>4, WaitsFor
<1>6. w \in RankState /\ w.exp.peer = s.exp.peer /\ w.exp.notify = V
    BY <1>1, <1>4, <1>5 DEF Sane, RankState, ExportStateT
<1>7. PICK n : n = [w EXCEPT !.exp.notify = N]
    OBVIOUS
<1>8. Sane(n) /\ n.exp.state = s.exp.state
    BY <1>3, <1>5, <1>7, WaitsFor
<1>9. n.exp.peer = s.exp.peer
    BY <1>6, <1>7, <1>8 DEF Sane, RankState, ExportStateT
<1>10. Sane(ExportTryCancel(s, TRUE)) /\ Sane(ExportGo(w))
    BY <1>5, TryCancelSane, ExportGoSane
<1>11. s.exp.state = "notifying" => Sane(ExportFinish(n))
    BY <1>8, <1>9, ExportFinishSane DEF Sane, Peers, IsExporting
<1>12. s.exp.state = "cancelling" => Sane(EndExport(n))
    BY <1>8, EndExportSane
<1>13. w = [s EXCEPT !.exp.warn = @ \ {who},
                     !.exp.notify = IF who \in s.exp.warn /\ s.exp.state = "warning"
                                    THEN @ \ {who} ELSE @]
    BY <1>1, <1>2, <1>4 DEF RankState
<1>14. n = [w EXCEPT !.exp.notify = @ \ {who}]
    BY <1>2, <1>6, <1>7 DEF RankState
<1> HIDE <1>2, <1>4, <1>7
<1> QED
    BY <1>5, <1>8, <1>10, <1>11, <1>12, <1>13, <1>14 DEF ExportPeerFailure

LEMMA ImportPeerFailureSane ==
    ASSUME NEW s, Sane(s), NEW who
    PROVE  Sane(ImportPeerFailure(s, who))
<1>1. s \in RankState /\ s.imp \in ImportStateT
    BY RankFields DEF Sane
<1>2. PICK B : B = s.imp.byst \ {who}
    OBVIOUS
<1>3. B \in SUBSET Ranks
    BY <1>1, <1>2, ImportFields
<1>4. PICK undone : undone = [s EXCEPT !.imp.byst = B]
    OBVIOUS
<1>5. Sane(undone) /\ Sane(ImportReverseUnfreeze(undone))
    BY <1>3, <1>4, BystandersLeft, ReverseUnfreezeSane
<1>6. undone = [s EXCEPT !.imp.byst = @ \ {who}]
    BY <1>1, <1>2, <1>4 DEF RankState
<1>7. /\ Sane([s EXCEPT !.imp = NoImport]) /\ Sane(ImportReverseFinal(s))
      /\ Sane(ImportFinish(s, TRUE, TRUE)) /\ Sane([s EXCEPT !.amb = TRUE])
    BY <1>1, NoImportSane, ReverseFinalSane, ImportFinishSane, AmbLike, LikeSane
<1>8. s.imp.state = "loggingstart" => Sane(ImportReverse(s))
    BY ImportReverseSane DEF IsImporting
<1>9. ASSUME s.imp.state = "prepped"
      PROVE  Sane(ImportNotifyAbort([GiveBack(s) EXCEPT !.imp.state = "aborting"]))
    <2>1. PICK t : t = GiveBack(s)
        OBVIOUS
    <2>2. Sane(t) /\ IsImporting(t)
        BY <1>9, <2>1, GiveBackSane DEF IsImporting
    <2>3. PICK u : u = [t EXCEPT !.imp.state = "aborting"]
        OBVIOUS
    <2>4. Sane(u) /\ u.imp.state = "aborting"
        BY <2>2, <2>3, ImpMoves DEF ImportStates
    <2>5. Sane(ImportNotifyAbort(u))
        BY <2>4, ImportAbortSane DEF IsImporting
    <2> QED
        BY <2>1, <2>3, <2>5
<1> HIDE <1>2, <1>4
<1> QED
    BY <1>5, <1>6, <1>7, <1>8, <1>9 DEF ImportPeerFailure

LEMMA FailureOrStopSane ==
    ASSUME NEW s, Sane(s), NEW who
    PROVE  Sane(HandleMdsFailureOrStop(s, who))
    BY ExportPeerFailureSane, ImportPeerFailureSane DEF HandleMdsFailureOrStop

-----------------------------------------------------------------------------
(* Recovery.                                                               *)
LEMMA OtherImportsLike ==
    ASSUME NEW s \in RankState
    PROVE  Like(s, DisambiguateOtherImports(s))
<1> DEFINE open == s.auth[2] # UNKNOWN \/ s.auth = UNDEF
<1>1. s.auth \in MdsAuthority /\ s.other \in SUBSET Ranks
    BY RankFields
<1>2. PICK a : a = IF s.other # {} /\ open THEN Sole(CHOOSE who \in s.other : TRUE) ELSE s.auth
    OBVIOUS
<1>3. a \in MdsAuthority
    <2>1. s.other # {} => (CHOOSE who \in s.other : TRUE) \in Ranks
        BY <1>1
    <2> QED
        BY <1>1, <1>2, <2>1, Authorities
<1>4. Like(s, [s EXCEPT !.auth = a, !.other = {}])
    BY <1>3, SettledLike
<1>5. DisambiguateOtherImports(s) = [s EXCEPT !.auth = a, !.other = {}]
    BY <1>2 DEF DisambiguateOtherImports
<1> QED
    BY <1>4, <1>5

LEMMA MyImportsSane ==
    ASSUME NEW s, Sane(s)
    PROVE  Sane(DisambiguateMyImports(s))
<1>1. s \in RankState /\ s.me \in Ranks
    BY RankFields DEF Sane
<1>2. PICK t : t = DisambiguateOtherImports(s)
    OBVIOUS
<1>3. Sane(t) /\ t \in RankState
    BY <1>1, <1>2, OtherImportsLike, LikeSane DEF Like
<1>4. PICK v : v = [t EXCEPT !.amb = FALSE]
    OBVIOUS
<1>5. Sane(v) /\ v \in RankState
    BY <1>3, <1>4, AmbLike, LikeSane DEF Like
<1>6. PICK a : a = Sole(s.me)
    OBVIOUS
<1>7. a \in MdsAuthority
    BY <1>1, <1>6, Authorities
<1>8. PICK w : w = [v EXCEPT !.auth = a]
    OBVIOUS
<1>9. Sane(w)
    BY <1>5, <1>7, <1>8, AuthLike, LikeSane
<1>10. w = [t EXCEPT !.amb = FALSE, !.auth = a]
    BY <1>3, <1>4, <1>8 DEF RankState
<1>11. Sane(Submit(v, "EImportFinishFalse", 0)) /\ Sane(Submit(w, "EImportFinishTrue", 0))
    BY <1>5, <1>9, SubmitSane DEF LogEvent
<1>12. /\ Sane(Die(s, "my_ambiguous_imports.empty()")) /\ Sane(Die(s, "ambiguous import: no us"))
       /\ Sane(Die(s, "dir_auth is still ambiguous"))
    BY <1>1, DieLike, Asserted, LikeSane
<1> QED
    BY <1>2, <1>3, <1>4, <1>6, <1>10, <1>11, <1>12 DEF DisambiguateMyImports

LEMMA RejoinSane ==
    ASSUME NEW s, Sane(s)
    PROVE  Sane(RejoinSendRejoins(s))
<1>1. s \in RankState
    BY DEF Sane
<1>2. Sane([s EXCEPT !.jpending = TRUE])
    BY <1>1, PendingLike, LikeSane
<1>3. Sane(Die(s, "rejoin: !is_importing, !is_exporting"))
    BY <1>1, DieLike, Asserted, LikeSane
<1>4. PICK t : t = IF s.map[s.me] = "rejoin" THEN s ELSE DisambiguateOtherImports(s)
    OBVIOUS
<1>5. Sane(t) /\ t \in RankState
    BY <1>1, <1>4, OtherImportsLike, LikeSane DEF Like
<1>6. Sane([t EXCEPT !.jpending = FALSE])
    BY <1>5, PendingLike, LikeSane
<1> QED
    BY <1>2, <1>3, <1>4, <1>6 DEF RejoinSendRejoins

LEMMA ResolveFinishSane ==
    ASSUME NEW s, Sane(s)
    PROVE  Sane(MaybeResolveFinish(s))
<1>1. PICK t : t = DisambiguateMyImports(s)
    OBVIOUS
<1>2. Sane(t) /\ t \in RankState /\ Sane(RejoinSendRejoins(t))
    BY <1>1, MyImportsSane, RejoinSane DEF Sane
<1>3. PICK b : b = (t.auth[1] = s.me) /\ b \in BOOLEAN
    OBVIOUS
<1>4. Sane([t EXCEPT !.isauth = b, !.resolved = TRUE])
    BY <1>2, <1>3, ResolvedLike, LikeSane
<1> QED
    BY <1>1, <1>2, <1>3, <1>4 DEF MaybeResolveFinish

LEMMA ResolveSane ==
    ASSUME NEW s, Sane(s), NEW from \in Ranks, NEW m \in Message
    PROVE  Sane(HandleResolve(s, from, m))
<1> DEFINE mine == Surviving(s) /\ s.amb /\ s.imp.peer = from
<1>1. s \in RankState
    BY DEF Sane
<1>2. PICK s0 : s0 = [s EXCEPT !.amb = FALSE]
    OBVIOUS
<1>3. Sane(s0) /\ s0.imp = s.imp
    BY <1>1, <1>2, AmbLike, LikeSane DEF Like
<1>4. PICK t : t = IF ~mine THEN s
                   ELSE IF s.imp.state # "acking" THEN Die(s, "resolve: acking")
                   ELSE IF m.flag THEN ImportReverse(s0)
                   ELSE ImportFinish(s0, TRUE, TRUE)
    OBVIOUS
<1>5. Sane(t)
    <2>1. Sane(Die(s, "resolve: acking"))
        BY <1>1, DieLike, Asserted, LikeSane
    <2>2. s.imp.state = "acking" => Sane(ImportReverse(s0))
        BY <1>3, ImportReverseSane DEF IsImporting
    <2>3. Sane(ImportFinish(s0, TRUE, TRUE))
        BY <1>3, ImportFinishSane
    <2> HIDE DEF mine
    <2> QED
        BY <1>4, <2>1, <2>2, <2>3
<1>6. t \in RankState /\ t.auth \in MdsAuthority /\ t.other \in SUBSET Ranks /\ t.gather \in SUBSET Ranks
    BY <1>5, RankFields DEF Sane
<1>7. PICK a, o, g : /\ a = IF m.flag THEN Sole(from) ELSE t.auth
                     /\ o = IF m.ambig THEN t.other \cup {from} ELSE t.other
                     /\ g = t.gather \ {from}
    OBVIOUS
<1>8. a \in MdsAuthority /\ o \in SUBSET Ranks /\ g \in SUBSET Ranks
    <2>1. Sole(from) \in MdsAuthority
        BY Authorities
    <2> QED
        BY <1>6, <1>7, <2>1
<1>9. PICK u : u = [t EXCEPT !.auth = a, !.other = o, !.gather = g]
    OBVIOUS
<1>10. Sane(u) /\ Sane(MaybeResolveFinish(u))
    <2>1. Like(t, u)
        BY <1>6, <1>8, <1>9, SettledLike
    <2>2. Sane(u)
        BY <1>5, <2>1, LikeSane
    <2> QED
        BY <2>2, ResolveFinishSane
<1>11. u = [t EXCEPT !.auth = IF m.flag THEN Sole(from) ELSE @,
                     !.other = IF m.ambig THEN @ \cup {from} ELSE @,
                     !.gather = @ \ {from}]
    BY <1>6, <1>7, <1>9
<1>12. HandleResolve(s, from, m) = IF t.died # "" THEN t ELSE MaybeResolveFinish(u)
    BY <1>2, <1>4, <1>11 DEF HandleResolve
<1> QED
    BY <1>5, <1>10, <1>12

LEMMA FreshSane ==
    ASSUME NEW r \in Ranks, NEW map \in MDSMap, NEW e \in Nat
    PROVE  Sane(Fresh(r, map, e)) /\ Fresh(r, map, e) \in RankState
<1>1. PICK f : f = Fresh(r, map, e)
    OBVIOUS
<1>2. NoOut \in [Ranks -> Seq(Message)]
    BY DEF NoOut
<1>3. UNDEF \in MdsAuthority
    BY DEF UNDEF, MdsAuthority
<1>4. f \in RankState
    <2>1. PICK x, i, u, l, w, no :
              /\ x = NoExport /\ i = NoImport /\ u = UNDEF /\ l = <<>> /\ w = {} /\ no = NoOut
        OBVIOUS
    <2>2. PICK d, z : d = "" /\ z = "no"
        OBVIOUS
    <2>3. f = [me |-> r, map |-> map, epoch |-> e, exp |-> x, imp |-> i, auth |-> u,
               isauth |-> FALSE, frozen |-> z, wait |-> w, log |-> l, amb |-> FALSE,
               other |-> w, gather |-> w, rpending |-> FALSE, jpending |-> FALSE,
               resolved |-> FALSE, out |-> no, died |-> d]
        BY <1>1, <2>1, <2>2 DEF Fresh
    <2>4. x \in ExportStateT /\ i \in ImportStateT
        BY <2>1, NothingThere
    <2>5. u \in MdsAuthority /\ no \in [Ranks -> Seq(Message)]
        BY <1>2, <1>3, <2>1
    <2>6. d \in Assertions \cup {""}
        BY <2>2
    <2>7. z \in {"no", "freezing", "frozen"}
        BY <2>2
    <2>8. w \in SUBSET Context /\ w \in SUBSET Ranks
        BY <2>1
    <2>9. l \in Seq(LogEntry)
        BY <2>1
    <2> HIDE <2>1, <2>2
    <2> QED
        BY <2>3, <2>4, <2>5, <2>6, <2>7, <2>8, <2>9 DEF RankState
<1>5. f.exp.state = "none" /\ f.imp.state = "none" /\ f.log = <<>>
    BY <1>1 DEF Fresh, NoExport, NoImport
<1> QED
    BY <1>1, <1>4, <1>5 DEF Sane, Peers, Logged, NoEExport, OneEExport, IsExporting, IsImporting

LEMMA ResolveStartSane ==
    ASSUME NEW r \in Ranks, NEW map \in MDSMap, NEW e \in Nat, NEW d \in DurableState
    PROVE  Sane(ResolveStart(r, map, e, d))
<1>1. PICK f : f = Fresh(r, map, e)
    OBVIOUS
<1>2. Sane(f) /\ f \in RankState
    BY <1>1, FreshSane
<1>3. PICK a : a = Replayed(r, d)
    OBVIOUS
<1>4. a \in MdsAuthority
    BY <1>3, Authorities DEF Replayed, DurableState
<1>5. PICK b, c, g : b = (d = "ambig") /\ c = (d = "mine") /\ g = Ranks \ {r}
    OBVIOUS
<1>6. PICK s : s = [f EXCEPT !.auth = a, !.amb = b, !.isauth = c, !.gather = g]
    OBVIOUS
<1>7. b \in BOOLEAN /\ c \in BOOLEAN /\ g \in SUBSET Ranks
    BY <1>5
<1>8. Like(f, s)
    BY <1>2, <1>4, <1>6, <1>7 DEF Like, RankState
<1>9. Sane(s) /\ s \in RankState
    BY <1>2, <1>8, LikeSane DEF Like
<1>10. Sane(SendSubtreeResolves(s))
    BY <1>9, SendSubtreeResolvesLike, LikeSane
<1> QED
    BY <1>1, <1>3, <1>5, <1>6, <1>9, <1>10 DEF ResolveStart

LEMMA MdsFailureSane ==
    ASSUME NEW s, Sane(s), NEW who \in Ranks
    PROVE  Sane(HandleMdsFailure(s, who))
<1>1. s \in RankState /\ s.gather \in SUBSET Ranks
    BY RankFields DEF Sane
<1>2. PICK g : g = s.gather \cup {who}
    OBVIOUS
<1>3. g \in SUBSET Ranks
    BY <1>1, <1>2
<1>4. Sane([s EXCEPT !.gather = g])
    BY <1>1, <1>3, GatherLike, LikeSane
<1>5. Sane(HandleMdsFailureOrStop([s EXCEPT !.gather = g], who))
    BY <1>4, FailureOrStopSane
<1> QED
    BY <1>2, <1>5 DEF HandleMdsFailure


(* The loop over the ranks that failed.  Lost is the function that its     *)
(* definition describes, as the sets are finite.                           *)
LEMMA LeastOf ==
    ASSUME NEW S \in SUBSET Nat, S # {}
    PROVE  \E x \in S : \A y \in S : x <= y
<1> DEFINE R == {ss \in Nat \X Nat : ss[1] < ss[2]}
<1>1. IsWellFoundedOn(R, Nat)
    BY NatLessThanWellFounded DEF OpToRel
<1> HIDE DEF R
<1>2. PICK x \in S : \A y \in S : ~(<<y, x>> \in R)
    BY <1>1, WFMin
<1>3. \A y \in Nat : y < x => <<y, x>> \in R
    <2> SUFFICES ASSUME NEW y \in Nat, y < x, x \in Nat, NEW s, s = <<y, x>> PROVE s \in R
        OBVIOUS
    <2>1. s \in Nat \X Nat /\ s[1] = y /\ s[2] = x
        OBVIOUS
    <2> QED
        BY <2>1 DEF R
<1>4. ASSUME NEW y \in S
      PROVE  x <= y
    <2>1. ~(y < x)
        BY <1>2, <1>3
    <2> QED
        BY <2>1
<1> QED
    BY <1>4

LEMMA OneLess ==
    ASSUME NEW T \in SUBSET Ranks, T # {}, NEW q, q = CHOOSE x \in T : TRUE
    PROVE  /\ q \in T /\ T \ {q} \in SUBSET Ranks
           /\ Cardinality(T) \in Nat /\ Cardinality(T \ {q}) \in Nat
           /\ Cardinality(T \ {q}) < Cardinality(T)
<1>1. q \in T
    OBVIOUS
<1>2. IsFiniteSet(T)
    BY RanksAssumption, FS_Subset
<1>3. Cardinality(T) \in Nat
    BY <1>2, FS_CardinalityType
<1>4. IsFiniteSet(T \ {q}) /\ Cardinality(T \ {q}) = Cardinality(T) - 1
    BY <1>1, <1>2, FS_RemoveElement
<1>5. Cardinality(T \ {q}) \in Nat
    BY <1>4, FS_CardinalityType
<1> QED
    BY <1>1, <1>3, <1>4, <1>5

AfterFailure(t, who) == IF t.died # "" THEN t ELSE HandleMdsFailure(t, who)
Losing(s, g, T) ==
    IF T = {} THEN s
    ELSE AfterFailure(g[T \ {CHOOSE q \in T : TRUE}], CHOOSE q \in T : TRUE)
IsLost(s, F, n, g) ==
    g = [T \in SUBSET F |-> IF Cardinality(T) <= n THEN Losing(s, g, T) ELSE s]

LEMMA LostUpTo ==
    ASSUME NEW s, NEW F \in SUBSET Ranks, NEW k \in Nat
    PROVE  \E g : IsLost(s, F, k, g)
<1> DEFINE Bad == {n \in Nat : ~ \E g : IsLost(s, F, n, g)}
<1> SUFFICES ASSUME Bad # {} PROVE FALSE
    OBVIOUS
<1>1. PICK m \in Bad : \A y \in Bad : m <= y
    BY LeastOf
<1>2. m \in Nat /\ ~ \E g : IsLost(s, F, m, g)
    OBVIOUS
<1>3. m # 0
    <2>1. PICK g : g = [T \in SUBSET F |-> s]
        OBVIOUS
    <2>2. ASSUME NEW T \in SUBSET F, Cardinality(T) <= 0 PROVE T = {}
        <3>1. SUFFICES ASSUME T # {} PROVE FALSE
            OBVIOUS
        <3>2. PICK q : q = CHOOSE x \in T : TRUE
            OBVIOUS
        <3>3. /\ Cardinality(T) \in Nat /\ Cardinality(T \ {q}) \in Nat
              /\ Cardinality(T \ {q}) < Cardinality(T)
            BY <3>1, <3>2, OneLess
        <3> QED
            BY <2>2, <3>3
    <2>3. \A T \in SUBSET F : (IF Cardinality(T) <= 0 THEN Losing(s, g, T) ELSE s) = s
        BY <2>2 DEF Losing
    <2>4. IsLost(s, F, 0, g)
        BY <2>1, <2>3 DEF IsLost
    <2> QED
        BY <1>2, <2>4
<1>4. m - 1 \in Nat /\ m - 1 \notin Bad
    BY <1>1, <1>2, <1>3
<1>5. PICK g : IsLost(s, F, m - 1, g)
    BY <1>4
<1> HIDE DEF Bad
<1>6. PICK f : f = [T \in SUBSET F |-> IF Cardinality(T) <= m THEN Losing(s, g, T) ELSE s]
    OBVIOUS
<1>7. ASSUME NEW T \in SUBSET F, Cardinality(T) <= m
      PROVE  Losing(s, f, T) = Losing(s, g, T)
    <2>1. CASE T = {}
        BY <2>1 DEF Losing
    <2>2. CASE T # {}
        <3>1. PICK q : q = CHOOSE x \in T : TRUE
            OBVIOUS
        <3>2. /\ q \in T /\ T \ {q} \in SUBSET F
              /\ Cardinality(T) \in Nat /\ Cardinality(T \ {q}) \in Nat
              /\ Cardinality(T \ {q}) < Cardinality(T)
            BY <2>2, <3>1, OneLess
        <3>3. PICK U : U = T \ {q}
            OBVIOUS
        <3>4. U \in SUBSET F /\ Cardinality(U) <= m - 1 /\ Cardinality(U) <= m
            BY <1>2, <1>7, <3>2, <3>3
        <3>5. f[U] = Losing(s, g, U)
            BY <1>6, <3>4
        <3>6. g[U] = Losing(s, g, U)
            <4>1. g = [T1 \in SUBSET F |-> IF Cardinality(T1) <= m - 1 THEN Losing(s, g, T1) ELSE s]
                BY <1>5 DEF IsLost
            <4> QED
                BY <3>4, <4>1
        <3> QED
            BY <2>2, <3>1, <3>3, <3>5, <3>6 DEF Losing
    <2> QED
        BY <2>1, <2>2
<1>8. f = [T \in SUBSET F |-> IF Cardinality(T) <= m THEN Losing(s, f, T) ELSE s]
    BY <1>6, <1>7
<1>9. IsLost(s, F, m, f)
    BY <1>8 DEF IsLost
<1> QED
    BY <1>2, <1>9

LEMMA LostIs ==
    ASSUME NEW s, NEW F \in SUBSET Ranks
    PROVE  \A T \in SUBSET F : Lost(s, F)[T] = Losing(s, Lost(s, F), T)
<1> DEFINE N == Cardinality(F)
<1>1. IsFiniteSet(F) /\ N \in Nat
    BY RanksAssumption, FS_Subset, FS_CardinalityType
<1>2. \A T \in SUBSET F : Cardinality(T) <= N
    BY <1>1, FS_Subset
<1> HIDE DEF N
<1>3. PICK g : IsLost(s, F, N, g)
    BY <1>1, LostUpTo
<1>4. g = [T \in SUBSET F |-> Losing(s, g, T)]
    BY <1>2, <1>3 DEF IsLost
<1>5. Lost(s, F) = CHOOSE h : h = [T \in SUBSET F |-> Losing(s, h, T)]
    BY DEF Lost, Losing, AfterFailure
<1>6. PICK h : h = Lost(s, F)
    OBVIOUS
<1>7. h = [T \in SUBSET F |-> Losing(s, h, T)]
    BY <1>4, <1>5, <1>6
<1>8. \A T \in SUBSET F : h[T] = Losing(s, h, T)
    BY <1>7
<1> QED
    BY <1>6, <1>8

LEMMA LostSane ==
    ASSUME NEW s, Sane(s), NEW F \in SUBSET Ranks
    PROVE  Sane(Lost(s, F)[F])
<1>1. PICK h : h = Lost(s, F)
    OBVIOUS
<1>2. \A T \in SUBSET F : h[T] = Losing(s, h, T)
    BY <1>1, LostIs
<1>3. \A T \in SUBSET F : Cardinality(T) \in Nat
    BY RanksAssumption, FS_Subset, FS_CardinalityType
<1> DEFINE Bad == {n \in Nat : \E T \in SUBSET F : Cardinality(T) = n /\ ~Sane(h[T])}
<1>4. Bad = {}
    <2>1. SUFFICES ASSUME Bad # {} PROVE FALSE
        OBVIOUS
    <2>2. PICK m \in Bad : \A y \in Bad : m <= y
        BY <2>1, LeastOf
    <2>3. PICK T \in SUBSET F : Cardinality(T) = m /\ ~Sane(h[T])
        OBVIOUS
    <2>4. T # {}
        BY <1>2, <2>3 DEF Losing
    <2>5. PICK q : q = CHOOSE x \in T : TRUE
        OBVIOUS
    <2>6. PICK U : U = T \ {q}
        OBVIOUS
    <2>7. q \in Ranks /\ U \in SUBSET F /\ Cardinality(U) \in Nat /\ Cardinality(U) < m /\ m \in Nat
        BY <2>3, <2>4, <2>5, <2>6, OneLess
    <2>8. Cardinality(U) \notin Bad
        BY <2>2, <2>7
    <2>9. Sane(h[U])
        BY <2>7, <2>8
    <2>10. Sane(AfterFailure(h[U], q))
        BY <2>7, <2>9, MdsFailureSane DEF AfterFailure
    <2>11. h[T] = AfterFailure(h[U], q)
        BY <1>2, <2>3, <2>4, <2>5, <2>6 DEF Losing
    <2> QED
        BY <2>3, <2>10, <2>11
<1> QED
    BY <1>1, <1>3, <1>4

LEMMA MdsMapSane ==
    ASSUME NEW s, Sane(s), NEW map \in MDSMap, NEW e \in Nat, NEW F \in SUBSET Ranks
    PROVE  Sane(HandleMdsMap(s, map, e, F))
<1>1. s \in RankState /\ s.wait \in SUBSET Context
    BY RankFields DEF Sane
<1>2. PICK w : w = {c \in s.wait : c.peer \notin F}
    OBVIOUS
<1>3. w \in SUBSET Context
    BY <1>1, <1>2
<1>4. PICK s0 : s0 = [s EXCEPT !.map = map, !.epoch = e, !.wait = w]
    OBVIOUS
<1>5. Sane(s0) /\ s0 \in RankState
    BY <1>1, <1>3, <1>4, MapLike, LikeSane DEF Sane
<1>6. s0 = [s EXCEPT !.map = map, !.epoch = e, !.wait = {c \in @ : c.peer \notin F}]
    BY <1>1, <1>2, <1>4
<1>7. PICK s1 : s1 = IF ~IsResolving(s.map) /\ IsResolving(map) THEN SendSubtreeResolves(s0) ELSE s0
    OBVIOUS
<1>8. Sane(s1)
    BY <1>5, <1>7, SendSubtreeResolvesLike, LikeSane
<1>9. PICK s2 : s2 = IF map[s.me] \in ActiveOrStopping \cup {"rejoin"}
                          /\ ~IsRejoining(s.map) /\ IsRejoining(map)
                     THEN RejoinSendRejoins(s1) ELSE s1
    OBVIOUS
<1>10. Sane(s2)
    BY <1>8, <1>9, RejoinSane
<1>11. HandleMdsMap(s, map, e, F) = Lost(s2, F)[F]
    BY <1>6, <1>7, <1>9 DEF HandleMdsMap
<1> QED
    BY <1>10, <1>11, LostSane


-----------------------------------------------------------------------------
(* Connections and maps.                                                   *)
LEMMA FromInstanceType ==
    ASSUME NEW c \in Seq(Message), NEW D
    PROVE  FromInstance(c, D) \in Seq(Message)
<1> DEFINE stale == {k \in 1..Len(c) : \E i \in D : c[k].ep <= i}
           last == CHOOSE k \in stale : \A j \in stale : j <= k
<1>1. CASE stale = {}
    BY <1>1 DEF FromInstance
<1>2. CASE stale # {}
    <2>1. PICK n : n = Len(c) /\ n \in Nat
        BY LenProperties
    <2>2. PICK X : X = stale /\ X \in SUBSET (1..n) /\ X # {}
        BY <1>2, <2>1
    <2>3. PICK Y : Y = {n - k : k \in X}
        OBVIOUS
    <2>4. Y \in SUBSET Nat /\ Y # {}
        BY <2>1, <2>2, <2>3
    <2>5. PICK y \in Y : \A z \in Y : y <= z
        BY <2>4, LeastOf
    <2>6. PICK k \in X : y = n - k
        BY <2>3
    <2>7. \A j \in X : j <= k
        <3> TAKE j \in X
        <3>1. n - j \in Y
            BY <2>3
        <3>2. n - k <= n - j
            BY <2>5, <2>6, <3>1
        <3> QED
            BY <2>1, <2>2, <2>6, <3>2
    <2>8. PICK l : l = CHOOSE a \in X : \A j \in X : j <= a
        OBVIOUS
    <2>9. l \in X
        BY <2>7, <2>8
    <2>10. l + 1 \in 1..(n + 1)
        BY <2>1, <2>2, <2>9
    <2>11. SubSeq(c, l + 1, n) \in Seq(Message)
        <3>1. \A i \in (l + 1)..n : c[i] \in Message
            BY <2>1, <2>10, ElementOfSeq
        <3>2. l + 1 \in Int /\ n \in Int
            BY <2>1, <2>10
        <3> QED
            BY <2>1, <2>10, <3>1, <3>2, SubSeqProperties
    <2> QED
        BY <1>2, <2>1, <2>2, <2>8, <2>11 DEF FromInstance
<1> QED
    BY <1>1, <1>2

Net == [Ranks -> [Ranks -> Seq(Message)]]

LEMMA MapsType ==
    ASSUME TypeOK
    PROVE  /\ Now \in Nat /\ Now >= 1 /\ CurMap \in MDSMap
           /\ \A i \in 1..Now : mdsmap[i] \in MDSMap
<1>1. mdsmap \in Seq(MDSMap) /\ mdsmap # <<>>
    BY DEF TypeOK
<1>2. Len(mdsmap) \in Nat /\ Len(mdsmap) # 0
    BY <1>1, LenProperties, EmptySeq
<1>3. \A i \in 1..Len(mdsmap) : mdsmap[i] \in MDSMap
    BY <1>1, ElementOfSeq
<1> QED
    BY <1>2, <1>3 DEF Now, CurMap

LEMMA Published ==
    ASSUME TypeOK, NEW r \in Ranks, NEW st \in MapState, Publish([CurMap EXCEPT ![r] = st])
    PROVE  mdsmap' \in Seq(MDSMap) /\ mdsmap' # <<>>
<1>1. PICK m : m = [CurMap EXCEPT ![r] = st]
    OBVIOUS
<1>2. m \in MDSMap
    BY <1>1, MapsType DEF MDSMap
<1>3. mdsmap \in Seq(MDSMap) /\ mdsmap' = Append(mdsmap, m)
    BY <1>1 DEF TypeOK, Publish
<1> QED
    BY <1>2, <1>3, AppendProperties

LEMMA GoneType ==
    ASSUME NEW n \in Net, NEW r \in Ranks
    PROVE  Gone(n, r) \in Net
<1>1. PICK l : l = <<>> /\ l \in Seq(Message)
    BY EmptySeq
<1>2. Gone(n, r) = [x \in Ranks |-> [n[x] EXCEPT ![r] = l]]
    BY <1>1 DEF Gone
<1> HIDE <1>1
<1>3. l \in Seq(Message)
    BY <1>1
<1> QED
    BY <1>2, <1>3 DEF Net

LEMMA SentType ==
    ASSUME NEW n \in Net, NEW s \in RankState
    PROVE  Sent(n, s) \in Net
<1>1. s.me \in Ranks /\ s.out \in [Ranks -> Seq(Message)]
    BY RankFields
<1>2. n[s.me] \in [Ranks -> Seq(Message)]
    BY <1>1 DEF Net
<1>3. PICK f : f = [q \in Ranks |-> IF Reaches(s.epoch, q) THEN n[s.me][q] \o s.out[q] ELSE n[s.me][q]]
    OBVIOUS
<1>4. \A q \in Ranks : n[s.me][q] \o s.out[q] \in Seq(Message)
    <2> TAKE q \in Ranks
    <2>1. n[s.me][q] \in Seq(Message) /\ s.out[q] \in Seq(Message)
        BY <1>1, <1>2
    <2> QED
        BY <2>1, ConcatProperties
<1>5. f \in [Ranks -> Seq(Message)]
    BY <1>2, <1>3, <1>4
<1>6. Sent(n, s) = [n EXCEPT ![s.me] = f]
    BY <1>3 DEF Sent
<1> QED
    BY <1>1, <1>5, <1>6 DEF Net


-----------------------------------------------------------------------------
(* The inductive invariant, and what a handler's result makes of it.       *)
Inv == TypeOK /\ \A r \in Ranks : Sane(node[r])

(* Its part that Commit writes, and the rest.                              *)
Shared ==
    /\ mdsmap \in Seq(MDSMap) /\ mdsmap # <<>>
    /\ alive \subseteq Ranks
    /\ node \in [Ranks -> RankState]
    /\ net \in Net
    /\ asserts \subseteq Assertions
    /\ \A r \in Ranks : Sane(node[r])
Others ==
    /\ durable \in [Ranks -> DurableState]
    /\ lastTid \in [Ranks -> Nat]
    /\ used \in [export : Nat, fail : Nat, stop : Nat]

LEMMA InvIs == Inv <=> Shared /\ Others
    BY DEF Inv, Shared, Others, TypeOK, Net

LEMMA NodeSet ==
    ASSUME Inv, NEW r \in Ranks, NEW t, Sane(t), node' = [node EXCEPT ![r] = t]
    PROVE  node' \in [Ranks -> RankState] /\ \A q \in Ranks : Sane(node'[q])
<1>1. t \in RankState /\ node \in [Ranks -> RankState]
    BY DEF Inv, TypeOK, Sane
<1>2. \A q \in Ranks : node'[q] = IF q = r THEN t ELSE node[q]
    BY <1>1
<1> QED
    BY <1>1, <1>2 DEF Inv

LEMMA NoOutSane ==
    ASSUME NEW s, Sane(s)
    PROVE  Sane([s EXCEPT !.out = NoOut])
<1>1. NoOut \in [Ranks -> Seq(Message)]
    BY EmptySeq DEF NoOut
<1>2. s \in RankState
    BY DEF Sane
<1> QED
    BY <1>1, <1>2, OutLike, LikeSane

LEMMA CommitShared ==
    ASSUME Inv, NEW s, Sane(s), NEW n \in Net, Commit(s, n)
    PROVE  Shared'
<1>1. s \in RankState /\ s.me \in Ranks /\ s.died \in Assertions \cup {""}
    BY RankFields DEF Sane
<1>2. Shared
    BY InvIs
<1>3. CASE s.died = ""
    <2>1. /\ node' = [node EXCEPT ![s.me] = [s EXCEPT !.out = NoOut]]
          /\ net' = Sent(n, s)
          /\ mdsmap' = mdsmap /\ alive' = alive /\ asserts' = asserts
        BY <1>3 DEF Commit
    <2>2. node' \in [Ranks -> RankState] /\ \A q \in Ranks : Sane(node'[q])
        BY <1>1, <2>1, NoOutSane, NodeSet
    <2>3. net' \in Net
        BY <1>1, <2>1, SentType
    <2> QED
        BY <1>2, <2>1, <2>2, <2>3 DEF Shared, Net
<1>4. CASE s.died # ""
    <2>1. /\ asserts' = asserts \cup {s.died}
          /\ node' = [node EXCEPT ![s.me] = Fresh(s.me, CurMap, 0)]
          /\ net' = Gone(n, s.me)
          /\ alive' = alive \ {s.me}
          /\ Publish([CurMap EXCEPT ![s.me] = "down"])
        BY <1>4 DEF Commit
    <2>2. TypeOK /\ CurMap \in MDSMap
        BY MapsType DEF Inv
    <2>3. Sane(Fresh(s.me, CurMap, 0))
        BY <1>1, <2>2, FreshSane
    <2>4. node' \in [Ranks -> RankState] /\ \A q \in Ranks : Sane(node'[q])
        BY <1>1, <2>1, <2>3, NodeSet
    <2>5. net' \in Net
        BY <1>1, <2>1, GoneType
    <2>6. mdsmap' \in Seq(MDSMap) /\ mdsmap' # <<>>
        BY <1>1, <2>1, <2>2, Published DEF MapState
    <2>7. asserts' \subseteq Assertions
        BY <1>1, <1>2, <1>4, <2>1 DEF Shared
    <2>8. alive' \subseteq Ranks
        BY <1>2, <2>1 DEF Shared
    <2> QED
        BY <2>4, <2>5, <2>6, <2>7, <2>8 DEF Shared, Net
<1> QED
    BY <1>3, <1>4

(* The common form of the steps of a rank.                                 *)
LEMMA CommitInv ==
    ASSUME Inv, NEW s, Sane(s), NEW n \in Net, Commit(s, n), Others'
    PROVE  Inv'
<1>1. Shared'
    BY CommitShared
<1>2. Inv' <=> Shared' /\ Others'
    BY InvIs, PTL
<1> QED
    BY <1>1, <1>2

LEMMA OthersStay ==
    ASSUME Inv, UNCHANGED <<durable, lastTid, used>>
    PROVE  Others'
    BY InvIs DEF Others

LEMMA LocalInv ==
    ASSUME Inv, NEW s, Sane(s), Local(s)
    PROVE  Inv'
<1>1. net \in Net
    BY InvIs DEF Shared
<1>2. Commit(s, net) /\ UNCHANGED <<durable, lastTid, used>>
    BY DEF Local
<1> QED
    BY <1>1, <1>2, CommitInv, OthersStay

-----------------------------------------------------------------------------
(* The monitors.                                                           *)
LEMMA FailInv ==
    ASSUME Inv, NEW r \in Ranks, Fail(r)
    PROVE  Inv'
<1>1. TypeOK /\ CurMap \in MDSMap /\ Shared /\ Others
    BY MapsType, InvIs DEF Inv
<1>2. Sane(Fresh(r, CurMap, 0))
    BY <1>1, FreshSane
<1>3. node' \in [Ranks -> RankState] /\ \A q \in Ranks : Sane(node'[q])
    BY <1>2, NodeSet DEF Fail
<1>4. mdsmap' \in Seq(MDSMap) /\ mdsmap' # <<>>
    BY <1>1, Published DEF Fail, MapState
<1>5. net' \in Net
    BY <1>1, GoneType DEF Fail, Shared
<1>6. used' \in [export : Nat, fail : Nat, stop : Nat]
    BY <1>1 DEF Fail, Others
<1>7. Shared' /\ Others'
    BY <1>1, <1>3, <1>4, <1>5, <1>6 DEF Fail, Shared, Others, Net
<1> QED
    BY <1>7, InvIs, PTL

LEMMA TakeoverInv ==
    ASSUME Inv, NEW r \in Ranks, Takeover(r)
    PROVE  Inv'
<1>1. TypeOK /\ CurMap \in MDSMap /\ Now \in Nat /\ Shared /\ Others
    BY MapsType, InvIs DEF Inv
<1>2. PICK map : map = [CurMap EXCEPT ![r] = "resolve"]
    OBVIOUS
<1>3. map \in MDSMap
    BY <1>1, <1>2 DEF MDSMap, MapState
<1>4. PICK s : s = ResolveStart(r, map, Now + 1, durable[r])
    OBVIOUS
<1>5. Sane(s) /\ s \in RankState
    <2>1. durable[r] \in DurableState /\ Now + 1 \in Nat
        BY <1>1 DEF Others
    <2> QED
        BY <1>3, <1>4, <2>1, ResolveStartSane DEF Sane
<1>6. /\ Publish(map) /\ node' = [node EXCEPT ![r] = [s EXCEPT !.out = NoOut]]
      /\ net' = Sent(net, s)
    BY <1>2, <1>4 DEF Takeover
<1>7. node' \in [Ranks -> RankState] /\ \A q \in Ranks : Sane(node'[q])
    BY <1>5, <1>6, NoOutSane, NodeSet
<1>8. mdsmap' \in Seq(MDSMap) /\ mdsmap' # <<>>
    BY <1>1, <1>2, <1>6, Published DEF MapState
<1>9. net' \in Net
    BY <1>1, <1>5, <1>6, SentType DEF Shared
<1>10. lastTid' \in [Ranks -> Nat]
    BY <1>1 DEF Takeover, Others
<1>11. Shared' /\ Others'
    BY <1>1, <1>7, <1>8, <1>9, <1>10 DEF Takeover, Shared, Others, Net
<1> QED
    BY <1>11, InvIs, PTL

LEMMA MonStepInv ==
    ASSUME Inv, NEW r \in Ranks, NEW from, NEW to \in MapState, MonStep(r, from, to),
           used' \in [export : Nat, fail : Nat, stop : Nat]
    PROVE  Inv'
<1>1. TypeOK /\ Shared /\ Others
    BY InvIs DEF Inv
<1>2. mdsmap' \in Seq(MDSMap) /\ mdsmap' # <<>>
    BY <1>1, Published DEF MonStep
<1>3. Shared' /\ Others'
    BY <1>1, <1>2 DEF MonStep, Shared, Others, Net
<1> QED
    BY <1>3, InvIs, PTL

LEMMA MonitorInv ==
    ASSUME Inv, NEW r \in Ranks, MonRejoin(r) \/ MonActive(r) \/ MonStop(r)
    PROVE  Inv'
<1>1. used \in [export : Nat, fail : Nat, stop : Nat]
    BY InvIs DEF Others
<1>2. CASE MonRejoin(r)
    BY <1>1, <1>2, MonStepInv DEF MonRejoin, MapState
<1>3. CASE MonActive(r)
    BY <1>1, <1>3, MonStepInv DEF MonActive, MapState
<1>4. CASE MonStop(r)
    <2>1. used' \in [export : Nat, fail : Nat, stop : Nat]
        BY <1>1, <1>4 DEF MonStop
    <2> QED
        BY <1>4, <2>1, MonStepInv DEF MonStop, MapState
<1> QED
    BY <1>2, <1>3, <1>4

-----------------------------------------------------------------------------
(* Maps and messages.                                                      *)
LEMMA HandleMapInv ==
    ASSUME Inv, NEW r \in Ranks, NEW skip \in 0..MapGap, HandleMap(r, skip)
    PROVE  Inv'
<1>1. TypeOK /\ Now \in Nat /\ (\A i \in 1..Now : mdsmap[i] \in MDSMap) /\ Shared
    BY MapsType, InvIs DEF Inv
<1>2. PICK s, e : s = node[r] /\ e = s.epoch + 1 + skip
    OBVIOUS
<1> DEFINE since(q) == {i \in (s.epoch + 1)..e : mdsmap[i][q] = "down"}
<1>3. PICK F : F = {q \in Ranks \ {r} : s.map[q] # "down" /\ since(q) # {}}
    OBVIOUS
<1>4. PICK n : n = [x \in Ranks |-> [net[x] EXCEPT ![r] = FromInstance(@, since(x))]]
    OBVIOUS
<1>5. e <= Now /\ Commit(HandleMdsMap(s, mdsmap[e], e, F), n) /\ UNCHANGED <<durable, lastTid, used>>
    BY <1>2, <1>3, <1>4 DEF HandleMap
<1>6. Sane(s) /\ s.epoch \in Nat
    BY <1>2, RankFields DEF Inv, Sane
<1>7. e \in Nat /\ e \in 1..Now
    BY <1>1, <1>2, <1>5, <1>6, BoundsAssumption
<1>8. F \in SUBSET Ranks
    BY <1>3
<1> HIDE DEF since
<1>9. n \in Net
    <2>1. net \in Net
        BY <1>1 DEF Shared
    <2>2. \A x \in Ranks : [net[x] EXCEPT ![r] = FromInstance(@, since(x))] \in [Ranks -> Seq(Message)]
        <3> TAKE x \in Ranks
        <3>1. net[x] \in [Ranks -> Seq(Message)] /\ net[x][r] \in Seq(Message)
            BY <2>1 DEF Net
        <3>2. FromInstance(net[x][r], since(x)) \in Seq(Message)
            BY <3>1, FromInstanceType
        <3> QED
            BY <3>1, <3>2
    <2> QED
        BY <1>4, <2>2 DEF Net
<1>10. Sane(HandleMdsMap(s, mdsmap[e], e, F))
    BY <1>1, <1>6, <1>7, <1>8, MdsMapSane
<1> QED
    BY <1>5, <1>9, <1>10, CommitInv, OthersStay

LEMMA DeliverInv ==
    ASSUME Inv, NEW x \in Ranks, NEW y \in Ranks, NEW type, NEW s, Deliver(x, y, type, s), Sane(s)
    PROVE  Inv'
<1>1. net \in Net
    BY InvIs DEF Shared
<1>2. net[x][y] \in Seq(Message) /\ net[x][y] # <<>>
    BY <1>1 DEF Net, Deliver, Deliverable
<1>3. PICK l : l = Tail(net[x][y]) /\ l \in Seq(Message)
    BY <1>2, HeadTailProperties
<1>4. Delivered(x, y) = [net EXCEPT ![x][y] = l]
    BY <1>1, <1>3 DEF Delivered, Net
<1>5. Delivered(x, y) \in Net
    BY <1>1, <1>3, <1>4 DEF Net
<1>6. Commit(s, Delivered(x, y)) /\ UNCHANGED <<durable, lastTid, used>>
    BY DEF Deliver
<1> QED
    BY <1>5, <1>6, CommitInv, OthersStay

LEMMA FirstType ==
    ASSUME Inv, NEW x \in Ranks, NEW y \in Ranks, Deliverable(x, y)
    PROVE  First(x, y) \in Message /\ Sane(node[y])
<1>1. net \in Net /\ Sane(node[y])
    BY InvIs DEF Shared
<1>2. net[x][y] \in Seq(Message) /\ net[x][y] # <<>>
    BY <1>1 DEF Net, Deliverable
<1> QED
    BY <1>1, <1>2, HeadTailProperties DEF First


LEMMA ReceiveInv ==
    ASSUME Inv, NEW x \in Ranks, NEW y \in Ranks, Receive(x, y)
    PROVE  Inv'
<1>1. PICK m, s : m = First(x, y) /\ s = node[y]
    OBVIOUS
<1>2. Deliverable(x, y)
    BY DEF Receive, DeliverDiscover, DeliverDiscoverAck, DeliverPrep, DeliverPrepAck,
           DeliverNotify, DeliverNotifyAck, DeliverExportDir, DeliverExportDirAck,
           DeliverFinish, DeliverCancel, DeliverResolve, Deliver
<1>3. m \in Message /\ Sane(s)
    BY <1>1, <1>2, FirstType
<1>4. CASE DeliverDiscover(x, y)
    <2>1. PICK found \in BOOLEAN : Deliver(x, y, "Discover", HandleExportDiscover(s, x, m, found))
        BY <1>1, <1>4 DEF DeliverDiscover
    <2> QED
        BY <1>3, <2>1, DiscoverSane, DeliverInv
<1>5. CASE DeliverPrep(x, y)
    <2>1. PICK opened, locks \in BOOLEAN :
              Deliver(x, y, "Prep", HandleExportPrep(s, x, m, opened, locks))
        BY <1>1, <1>5 DEF DeliverPrep
    <2> QED
        BY <1>3, <2>1, PrepSane, DeliverInv
<1>6. CASE DeliverDiscoverAck(x, y)
    <2>1. Deliver(x, y, "DiscoverAck", HandleExportDiscoverAck(s, x, m))
        BY <1>1, <1>6 DEF DeliverDiscoverAck
    <2> QED
        BY <1>3, <2>1, DiscoverAckSane, DeliverInv
<1>7. CASE DeliverPrepAck(x, y)
    <2>1. Deliver(x, y, "PrepAck", HandleExportPrepAck(s, x, m))
        BY <1>1, <1>7 DEF DeliverPrepAck
    <2> QED
        BY <1>3, <2>1, PrepAckSane, DeliverInv
<1>8. CASE DeliverNotify(x, y)
    <2>1. Deliver(x, y, "Notify", HandleExportNotify(s, x, m))
        BY <1>1, <1>8 DEF DeliverNotify
    <2> QED
        BY <1>3, <2>1, NotifySane, DeliverInv
<1>9. CASE DeliverNotifyAck(x, y)
    <2>1. Deliver(x, y, "NotifyAck", HandleExportNotifyAck(s, x, m))
        BY <1>1, <1>9 DEF DeliverNotifyAck
    <2> QED
        BY <1>3, <2>1, NotifyAckSane, DeliverInv
<1>10. CASE DeliverExportDir(x, y)
    <2>1. Deliver(x, y, "ExportDir", HandleExportDir(s, x, m))
        BY <1>1, <1>10 DEF DeliverExportDir
    <2> QED
        BY <1>3, <2>1, HandleExportDirSane, DeliverInv
<1>11. CASE DeliverExportDirAck(x, y)
    <2>1. Deliver(x, y, "ExportDirAck", HandleExportAck(s, x, m))
        BY <1>1, <1>11 DEF DeliverExportDirAck
    <2> QED
        BY <1>3, <2>1, ExportAckSane, DeliverInv
<1>12. CASE DeliverFinish(x, y)
    <2>1. Deliver(x, y, "Finish", HandleExportFinish(s, x, m))
        BY <1>1, <1>12 DEF DeliverFinish
    <2> QED
        BY <1>3, <2>1, FinishSane, DeliverInv
<1>13. CASE DeliverCancel(x, y)
    <2>1. Deliver(x, y, "Cancel", HandleExportCancel(s, x, m))
        BY <1>1, <1>13 DEF DeliverCancel
    <2> QED
        BY <1>3, <2>1, CancelSane, DeliverInv
<1>14. CASE DeliverResolve(x, y)
    <2>1. Deliver(x, y, "Resolve", HandleResolve(s, x, m))
        BY <1>1, <1>14 DEF DeliverResolve
    <2> QED
        BY <1>3, <2>1, ResolveSane, DeliverInv
<1> QED
    BY <1>4, <1>5, <1>6, <1>7, <1>8, <1>9, <1>10, <1>11, <1>12, <1>13, <1>14 DEF Receive

-----------------------------------------------------------------------------
(* Steps a rank takes by itself.                                           *)
LEMMA StartExportInv ==
    ASSUME Inv, NEW r \in Ranks, NEW dest \in Ranks, StartExport(r, dest)
    PROVE  Inv'
<1>1. Shared /\ Others /\ Sane(node[r])
    BY InvIs DEF Shared
<1>2. lastTid[r] + 1 \in Nat
    BY <1>1 DEF Others
<1>3. Sane(ExportDir(node[r], dest, lastTid[r] + 1))
    BY <1>1, <1>2, ExportDirSane DEF StartExport
<1>4. Others'
    <2>1. used' \in [export : Nat, fail : Nat, stop : Nat]
        BY <1>1 DEF StartExport, Others
    <2>2. lastTid' \in [Ranks -> Nat] /\ durable' = durable
        BY <1>1 DEF StartExport, Others
    <2> QED
        BY <1>1, <2>1, <2>2 DEF Others
<1>5. net \in Net /\ Commit(ExportDir(node[r], dest, lastTid[r] + 1), net)
    BY <1>1 DEF StartExport, Shared
<1> QED
    BY <1>3, <1>4, <1>5, CommitInv

LEMMA FreezeDoneSane ==
    ASSUME NEW s, Sane(s)
    PROVE  Sane([FreezeTree(s) EXCEPT !.wait = @ \cup {[kind |-> "frozen", peer |-> NONE, tid |-> s.exp.tid]}])
<1>1. PICK c, t : c = [kind |-> "frozen", peer |-> NONE, tid |-> s.exp.tid] /\ t = FreezeTree(s)
    OBVIOUS
<1>2. s \in RankState /\ s.exp.tid \in Nat
    BY RankFields, ExportFields DEF Sane
<1>3. c \in Context
    BY <1>1, <1>2 DEF Context
<1>4. Sane(t)
    BY <1>1, <1>2, FreezeTreeLike, LikeSane
<1>5. Sane([t EXCEPT !.wait = @ \cup {c}])
    BY <1>3, <1>4, ParkSane
<1> QED
    BY <1>1, <1>5

LEMMA WaitingSane ==
    ASSUME Inv, NEW r \in Ranks, NEW c \in node[r].wait
    PROVE  c \in Context /\ c.tid \in Nat
<1>1. node[r].wait \in SUBSET Context
    BY RankFields DEF Inv, Sane
<1> QED
    BY <1>1 DEF Context

(* The oldest entry of the journal becomes safe.  If it is an EExport it   *)
(* is the only one, and the export waits for it.                           *)
LEMMA OldestSafe ==
    ASSUME NEW s, Sane(s), s.log # <<>>, NEW t, t = [s EXCEPT !.log = Tail(@)]
    PROVE  /\ Sane(t) /\ Head(s.log) \in LogEntry
           /\ Head(s.log).event = "EExport" => t.exp.state = "loggingfinish" /\ NoEExport(t.log)
<1>1. s \in RankState /\ s.log \in Seq(LogEntry)
    BY RankFields DEF Sane
<1>2. PICK l : l = Tail(s.log)
    OBVIOUS
<1>3. /\ l \in Seq(LogEntry) /\ Head(s.log) \in LogEntry /\ Head(s.log) = s.log[1]
      /\ Len(s.log) \in Nat /\ Len(s.log) >= 1 /\ Len(l) = Len(s.log) - 1
      /\ \A i \in 1..Len(l) : l[i] = s.log[i + 1]
    BY <1>1, <1>2, HeadTailProperties, LenProperties, EmptySeq
<1>4. t = [s EXCEPT !.log = l]
    BY <1>1, <1>2
<1>5. t \in RankState /\ t.exp = s.exp /\ t.imp = s.imp /\ t.log = l
    BY <1>1, <1>3, <1>4 DEF RankState
<1>6. OneEExport(s.log) /\ (s.exp.state # "loggingfinish" => NoEExport(s.log))
    BY DEF Sane, Logged
<1>7. OneEExport(l)
    <2> SUFFICES ASSUME NEW i \in 1..Len(l), NEW j \in 1..Len(l),
                        l[i].event = "EExport", l[j].event = "EExport"
                 PROVE  i = j
        BY DEF OneEExport
    <2>1. i + 1 \in 1..Len(s.log) /\ j + 1 \in 1..Len(s.log)
        BY <1>3
    <2>2. i + 1 = j + 1
        BY <1>3, <1>6, <2>1 DEF OneEExport
    <2> QED
        BY <2>2
<1>8. s.exp.state # "loggingfinish" => NoEExport(l)
    <2>1. \A i \in 1..Len(l) : i + 1 \in 1..Len(s.log)
        BY <1>3
    <2> QED
        BY <1>3, <1>6, <2>1 DEF NoEExport
<1>9. Sane(t)
    BY <1>5, <1>7, <1>8 DEF Sane, Logged, Peers, IsExporting, IsImporting
<1>10. ASSUME Head(s.log).event = "EExport"
       PROVE  s.exp.state = "loggingfinish" /\ NoEExport(l)
    <2>1. 1 \in 1..Len(s.log) /\ s.log[1].event = "EExport"
        BY <1>3, <1>10
    <2>2. s.exp.state = "loggingfinish"
        BY <1>6, <2>1 DEF NoEExport
    <2>3. ASSUME NEW i \in 1..Len(l), l[i].event = "EExport"
          PROVE  FALSE
        <3>1. i + 1 \in 1..Len(s.log) /\ s.log[i + 1].event = "EExport"
            BY <1>3, <2>3
        <3>2. i + 1 = 1
            BY <1>6, <2>1, <3>1 DEF OneEExport
        <3> QED
            BY <3>2
    <2> QED
        BY <2>2, <2>3 DEF NoEExport
<1> QED
    BY <1>3, <1>5, <1>9, <1>10

LEMMA LogFlushInv ==
    ASSUME Inv, NEW r \in Ranks, LogFlush(r)
    PROVE  Inv'
<1>1. Shared /\ Others /\ Sane(node[r])
    BY InvIs DEF Shared
<1>2. PICK e, s : e = Head(node[r].log) /\ s = [node[r] EXCEPT !.log = Tail(@)]
    OBVIOUS
<1>3. /\ Sane(s) /\ e \in LogEntry
      /\ e.event = "EExport" => s.exp.state = "loggingfinish" /\ NoEExport(s.log)
    BY <1>1, <1>2, OldestSafe DEF LogFlush
<1>4. PICK u : u = CASE e.event = "sync" -> ExportGoSynced(s, e.tid)
                     [] e.event = "EExport" -> ExportLoggedFinish(s)
                     [] e.event = "EImportStart" -> ImportLoggedStart(s)
                     [] OTHER -> s
    OBVIOUS
<1>5. e.event \in LogEvent /\ e.tid \in Nat
    BY <1>3 DEF LogEntry
<1>6. Sane(u)
    <2>1. Sane(ExportGoSynced(s, e.tid)) /\ Sane(ImportLoggedStart(s))
        BY <1>3, <1>5, GoSyncedSane, LoggedStartSane
    <2>2. e.event = "EExport" => Sane(ExportLoggedFinish(s))
        BY <1>3, LoggedFinishSane
    <2> QED
        BY <1>3, <1>4, <2>1, <2>2
<1>7. Commit(u, net) /\ UNCHANGED <<lastTid, used>>
    BY <1>2, <1>4 DEF LogFlush
<1>8. durable' \in [Ranks -> DurableState]
    <2>1. PICK safe : safe = CASE e.event = "EExport" -> "none"
                               [] e.event = "EImportStart" -> "ambig"
                               [] e.event = "EImportFinishTrue" -> "mine"
                               [] e.event = "EImportFinishFalse" -> "none"
                               [] e.event = "sync" -> durable[r]
        OBVIOUS
    <2>2. durable \in [Ranks -> DurableState] /\ durable[r] \in DurableState
        BY <1>1 DEF Others
    <2>3. safe \in DurableState
        BY <1>5, <2>1, <2>2 DEF LogEvent, DurableState
    <2>4. durable' = [durable EXCEPT ![r] = safe]
        BY <1>2, <2>1 DEF LogFlush
    <2> QED
        BY <2>2, <2>3, <2>4
<1>9. Others'
    BY <1>1, <1>7, <1>8 DEF Others
<1>10. net \in Net
    BY <1>1 DEF Shared
<1> QED
    BY <1>6, <1>7, <1>9, <1>10, CommitInv

LEMMA InternalInv ==
    ASSUME Inv, NEW r \in Ranks, Internal(r) \/ StaleFreeze(r)
    PROVE  Inv'
<1>1. PICK s : s = node[r]
    OBVIOUS
<1>2. Sane(s)
    BY <1>1 DEF Inv
<1>3. CASE Dispatch(r)
    <2>1. s.exp.state = "locking" /\ (Local(DispatchExportDir(s)) \/ Local(ExportTryCancel(s, TRUE)))
        BY <1>1, <1>3 DEF Dispatch
    <2> QED
        BY <1>2, <2>1, DispatchSane, TryCancelSane, LocalInv
<1>4. CASE FreezeDone(r)
    BY <1>1, <1>2, <1>4, FreezeDoneSane, LocalInv DEF FreezeDone
<1>5. CASE Frozen(r)
    <2>1. PICK c \in node[r].wait, locks \in LockOutcome, caps \in BOOLEAN :
              Local(ExportFrozen(s, c.tid, locks, caps))
        BY <1>1, <1>5 DEF Frozen
    <2>2. c.tid \in Nat
        BY WaitingSane
    <2> QED
        BY <1>2, <2>1, <2>2, ExportFrozenSane, LocalInv
<1>6. CASE SessionsFlushed(r)
    <2>1. PICK c \in node[r].wait : Local(ExportSessionsFlushed(s, c.tid))
        BY <1>1, <1>6 DEF SessionsFlushed
    <2> QED
        BY <1>2, <2>1, SessionsFlushedSane, LocalInv
<1>7. CASE RetryDiscover(r)
    <2>1. PICK c \in s.wait, found \in BOOLEAN : Local(RetryExportDiscover(s, c, found))
        BY <1>1, <1>7 DEF RetryDiscover
    <2> QED
        BY <1>2, <2>1, RetryDiscoverSane, LocalInv
<1>8. CASE RetryPrep(r)
    <2>1. PICK c \in s.wait, opened \in BOOLEAN, locks \in BOOLEAN :
              Local(RetryExportPrep(s, c, opened, locks))
        BY <1>1, <1>8 DEF RetryPrep
    <2> QED
        BY <1>2, <2>1, RetryPrepSane, LocalInv
<1>9. CASE LogFlush(r)
    BY <1>9, LogFlushInv
<1>10. CASE StaleFreeze(r)
    BY <1>1, <1>2, <1>10, TryCancelSane, LocalInv DEF StaleFreeze
<1> QED
    BY <1>3, <1>4, <1>5, <1>6, <1>7, <1>8, <1>9, <1>10 DEF Internal

-----------------------------------------------------------------------------
LEMMA InitInv == Init => Inv
<1> SUFFICES ASSUME Init PROVE Inv
    OBVIOUS
<1>1. PICK up : up = [q \in Ranks |-> "active"]
    OBVIOUS
<1>2. up \in MDSMap
    BY <1>1 DEF MDSMap, MapState
<1>3. mdsmap \in Seq(MDSMap) /\ mdsmap # <<>>
    <2>1. mdsmap = <<up>>
        BY <1>1 DEF Init
    <2> HIDE <1>1
    <2> QED
        BY <1>2, <2>1
<1>4. PICK N : N = [r \in Ranks |-> [Fresh(r, up, 1) EXCEPT !.auth = Sole(Owner0), !.isauth = (r = Owner0)]]
    OBVIOUS
<1>5. \A r \in Ranks : Sane(N[r])
    <2> TAKE r \in Ranks
    <2>1. PICK f : f = Fresh(r, up, 1) /\ Sane(f) /\ f \in RankState
        BY <1>2, FreshSane
    <2>2. PICK a, b : a = Sole(Owner0) /\ a \in MdsAuthority /\ b = (r = Owner0) /\ b \in BOOLEAN
        BY RanksAssumption, Authorities
    <2>3. N[r] = [f EXCEPT !.auth = a, !.isauth = b]
        BY <1>4, <2>1, <2>2
    <2>4. PICK g : g = [f EXCEPT !.auth = a]
        OBVIOUS
    <2>7. Like(f, g)
        BY <2>1, <2>2, <2>4, AuthLike
    <2>8. Sane(g) /\ g \in RankState
        BY <2>1, <2>7, LikeSane DEF Like
    <2>5. Sane([g EXCEPT !.isauth = b])
        BY <2>2, <2>8, IsauthLike, LikeSane
    <2>6. [g EXCEPT !.isauth = b] = [f EXCEPT !.auth = a, !.isauth = b]
        BY <2>1, <2>4 DEF RankState
    <2> QED
        BY <2>3, <2>5, <2>6
<1>6. node = N
    BY <1>1, <1>4 DEF Init
<1>7. node \in [Ranks -> RankState] /\ \A r \in Ranks : Sane(node[r])
    <2>1. \A r \in Ranks : N[r] \in RankState
        BY <1>5 DEF Sane
    <2>2. N \in [Ranks -> RankState]
        BY <1>4, <2>1
    <2> QED
        BY <1>5, <1>6, <2>2
<1>8. net \in Net
    BY EmptySeq DEF Init, Net
<1>9. Others
    <2>1. durable \in [Ranks -> DurableState] /\ lastTid \in [Ranks -> Nat]
        BY DEF Init, DurableState
    <2>2. used \in [export : Nat, fail : Nat, stop : Nat]
        BY DEF Init
    <2> QED
        BY <2>1, <2>2 DEF Others
<1>10. alive \subseteq Ranks /\ asserts \subseteq Assertions
    BY DEF Init
<1> QED
    BY <1>3, <1>7, <1>8, <1>9, <1>10, InvIs DEF Shared

LEMMA NextInv == Inv /\ [Next]_vars => Inv'
<1> SUFFICES ASSUME Inv, [Next]_vars PROVE Inv'
    OBVIOUS
<1>1. CASE UNCHANGED vars
    <2>1. Shared /\ Others
        BY InvIs
    <2>2. Shared' /\ Others'
        BY <1>1, <2>1 DEF vars, Shared, Others, Net
    <2> QED
        BY <2>2, InvIs, PTL
<1>2. CASE \E r \in Ranks : Fail(r) \/ MonStop(r) \/ StaleFreeze(r)
    BY <1>2, FailInv, MonitorInv, InternalInv
<1>3. CASE \E r \in Ranks : Monitor(r) \/ Internal(r)
    BY <1>3, TakeoverInv, MonitorInv, InternalInv DEF Monitor
<1>4. CASE \E r \in Ranks : \E skip \in 0..MapGap : HandleMap(r, skip)
    BY <1>4, HandleMapInv
<1>5. CASE \E x, y \in Ranks : Receive(x, y) \/ StartExport(x, y)
    BY <1>5, ReceiveInv, StartExportInv
<1> QED
    BY <1>1, <1>2, <1>3, <1>4, <1>5 DEF Next

(* The type invariant: whatever fails and in whatever order messages, maps *)
(* and contexts are served, every handler of the Migrator and of           *)
(* MDCache's recovery leaves each rank, connection and journal in the form *)
(* that the next one expects.                                              *)
THEOREM TypeCorrect == Spec => []TypeOK
<1>1. Init => Inv
    BY InitInv
<1>2. Inv /\ [Next]_vars => Inv'
    BY NextInv
<1>3. Inv => TypeOK
    BY DEF Inv
<1> QED
    BY <1>1, <1>2, <1>3, PTL DEF Spec

(* An EExport that is not safe yet belongs to the export that waits for    *)
(* it, and there is one at most, whatever fails or is cancelled between    *)
(* export_go, handle_export_ack and export_logged_finish.                  *)
THEOREM ExportsAreAwaited == Spec => []EExportAwaited
<1>1. Init => Inv
    BY InitInv
<1>2. Inv /\ [Next]_vars => Inv'
    BY NextInv
<1>3. Inv => EExportAwaited
    <2> SUFFICES ASSUME Inv, NEW r \in Ranks,
                        NEW i \in 1..Len(node[r].log), NEW j \in 1..Len(node[r].log),
                        node[r].log[i].event = "EExport"
                 PROVE  /\ node[r].exp.state = "loggingfinish"
                        /\ node[r].log[j].event = "EExport" => i = j
        BY DEF EExportAwaited
    <2>1. Logged(node[r])
        BY DEF Inv, Sane
    <2> QED
        BY <2>1 DEF Logged, NoEExport, OneEExport
<1> QED
    BY <1>1, <1>2, <1>3, PTL DEF Spec

=============================================================================
