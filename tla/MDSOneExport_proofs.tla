-------------------------- MODULE MDSOneExport_proofs --------------------------
(***************************************************************************)
(* One export: the inductive invariant behind the ownership of a subtree,  *)
(* and what each handler of the exporter, of the importer and of a bystander*)
(* keeps of it.                                                            *)
(***************************************************************************)
EXTENDS MDSMigration_proofs

-----------------------------------------------------------------------------
(* With one export there is one exporter, the rank that has the subtree at *)
(* first, and one importer D, or none while no export has been started.    *)
E == Owner0

(* What is on its way from x to y, and what it says of the export.  Only a *)
(* message of type Discover, ExportDir or ExportDirAck moves it on.        *)
Claims(m) == m.type = "Resolve" /\ m.flag
MsgOK(x, y, m, D, gone) ==
    /\ m.type \in {"Discover", "Prep", "ExportDir", "Finish", "Cancel"} => x = E /\ y = D
    /\ m.type \in {"DiscoverAck", "PrepAck", "ExportDirAck"} => x = D /\ y = E
    /\ m.type = "Prep" => E \notin m.byst /\ D \notin m.byst
    /\ m.type = "Finish" => gone
    /\ m.type = "Notify" => D # NONE /\ y # E /\ y # D /\ m.new[1] \in {E, D}
    /\ m.type = "Resolve" => /\ x # y
                             /\ m.ambig => x = D
                             /\ m.flag => x = E \/ (x = D /\ gone)
                             /\ x = E /\ ~m.flag => gone
Tame(m) == m.type \notin {"Discover", "ExportDir", "ExportDirAck"}

-----------------------------------------------------------------------------
(* The exporter, by the stage of its export; d is what its journal says.   *)
Early == {"locking", "discovering", "freezing", "prepping", "warning"}
StageOK(s, D, d) ==
    /\ s.exp.state = "none" =>
         /\ s.auth[1] = E <=> d = "mine"
         /\ s.auth[2] = UNKNOWN /\ s.frozen = "no"
         /\ s.isauth => d = "mine"
    /\ s.exp.state \notin {"none", "notifying"} => s.isauth /\ d = "mine"
    /\ s.exp.state \in {"locking", "cancelling"} => s.frozen = "no" /\ s.auth = Sole(E)
    /\ s.exp.state = "discovering" => s.frozen = "freezing" /\ s.auth = Sole(E)
    /\ s.exp.state = "freezing" => \/ s.frozen = "freezing" /\ s.auth = Sole(E)
                                   \/ s.frozen = "frozen" /\ s.auth = <<E, E>>
    /\ s.exp.state \in {"prepping", "warning"} => s.frozen = "frozen" /\ s.auth = <<E, E>>
    /\ s.exp.state = "exporting" => s.frozen = "frozen" /\ s.auth = <<E, D>>
    /\ s.exp.state = "loggingfinish" => s.frozen = "frozen" /\ s.auth = <<D, E>>
    /\ s.exp.state = "notifying" => s.frozen = "frozen" /\ s.auth[1] # E /\ d = "none"
ExporterOK(s, D, d) ==
    /\ s.imp.state = "none" /\ ~s.amb /\ s.other \subseteq {D}
    /\ \A i \in 1..Len(s.log) : s.log[i].event \in {"sync", "EExport"}
    /\ \A c \in s.wait : c.kind \in {"frozen", "flushed"}
    /\ s.exp.state # "none" =>
         Surviving(s) /\ s.exp.peer = D /\ E \notin s.exp.notify /\ D \notin s.exp.notify
    /\ StageOK(s, D, d)

(* The importer.  gone: the EExport of the exporter is safe.  settled: the *)
(* export is over and the exporter has kept the subtree.                   *)
Late == {"loggingstart", "acking", "finishing"}
Begun == {"discovering", "discovered", "prepping", "prepped"}
Event(log, i, e) == log[i].event = e
JournalOK(s, d, gone) ==
    \/ s.log = <<>> /\ s.imp.state # "loggingstart"
    \/ /\ d = "none" /\ s.imp.state = "loggingstart"
       /\ Len(s.log) = 1 /\ Event(s.log, 1, "EImportStart")
    \/ /\ d = "none" /\ s.imp.state \in {"aborting", "none"}
       /\ Len(s.log) = 2 /\ Event(s.log, 1, "EImportStart")
       /\ Event(s.log, 2, "EImportFinishFalse")
    \/ /\ d = "ambig" /\ s.imp.state \in {"aborting", "none"}
       /\ Len(s.log) = 1 /\ Event(s.log, 1, "EImportFinishFalse")
    \/ /\ d = "ambig" /\ s.imp.state = "none" /\ gone
       /\ Len(s.log) = 1 /\ Event(s.log, 1, "EImportFinishTrue")
Undecided(s, D, gone, settled) ==
    /\ s.imp.state = "none" /\ ~s.isauth
    /\ s.map[D] = "resolve" /\ ~s.resolved
    /\ s.auth = <<D, D>> \/ (s.auth = Sole(E) /\ settled)
    /\ s.auth = <<D, D>> /\ E \notin s.gather => gone
ImporterOK(s, D, d, gone, settled) ==
    /\ s.exp.state = "none" /\ s.other = {}
    /\ \A c \in s.wait : c.kind \in {"discover", "prep"} /\ c.peer = E
    /\ s.imp.state # "none" =>
         Surviving(s) /\ s.imp.peer = E /\ E \notin s.imp.byst /\ D \notin s.imp.byst
    /\ s.imp.state = "prepped" => s.frozen = "frozen"
    /\ s.imp.state \in Late => s.isauth /\ s.frozen = "frozen"
    /\ s.imp.state \notin Late => /\ s.isauth => gone
                                  /\ s.auth[1] = D /\ ~s.amb => gone
    /\ s.imp.state = "finishing" => gone
    /\ s.imp.state \in Begun => d = "none" /\ s.log = <<>>
    /\ s.imp.state \in {"acking", "finishing"} => d = "ambig" /\ s.log = <<>>
    /\ s.amb => \/ s.imp.state = "acking" \/ (gone /\ Surviving(s))
                \/ d = "ambig" /\ s.log = <<>> /\ Undecided(s, D, gone, settled)
    /\ JournalOK(s, d, gone)

(* Every other rank.                                                       *)
BystanderOK(s, D) ==
    /\ s.exp.state = "none" /\ s.imp.state = "none" /\ ~s.amb
    /\ s.log = <<>> /\ s.wait = {} /\ s.other \subseteq {D}
    /\ ~s.isauth /\ s.auth[1] # s.me

RankOK(s, D, d, gone, settled) ==
    /\ s.me = E => ExporterOK(s, D, d)
    /\ s.me = D => ImporterOK(s, D, d, gone, settled)
    /\ s.me \notin {E, D} => BystanderOK(s, D)
Idle(s) == s.exp.state = "none" /\ s.imp.state = "none" /\ s.log = <<>> /\ ~s.amb

-----------------------------------------------------------------------------
(* The exporter, the importer and the connections between them.            *)
Settled(s, d) == s.exp.state = "none" /\ d = "mine"
Clean(s, d) == d = "none" /\ s.log = <<>>
Untouched(s, d) == Clean(s, d) /\ s.imp.state = "none" /\ ~s.amb
Bound(s, d) ==
    d \in {"ambig", "mine"} /\ \A i \in 1..Len(s.log) : s.log[i].event # "EImportFinishFalse"

ToImporter(c, untouched, clean, settled) ==
    /\ \A k \in 1..Len(c) : /\ c[k].type = "Discover" => untouched
                            /\ c[k].type = "ExportDir" => clean
                            /\ Claims(c[k]) => untouched \/ settled
    /\ \A j, k \in 1..Len(c) : j < k =>
         /\ c[j].type = "Discover" => c[k].type # "Discover" /\ (Claims(c[k]) => settled)
         /\ c[j].type = "ExportDir" => c[k].type # "ExportDir"
Without(c, type) == \A k \in 1..Len(c) : c[k].type # type
ToExporter(c, bound, settled) ==
    \A k \in 1..Len(c) : c[k].type = "ExportDirAck" => bound \/ settled
PairOK(s, ds, t, dt, st, ts) ==
    /\ ds # "mine" \/ s.exp.state = "loggingfinish" => Bound(t, dt)
    /\ s.exp.state = "locking" => Untouched(t, dt) /\ Without(st, "Discover")
    /\ s.exp.state \in Early => Clean(t, dt) /\ Without(st, "ExportDir")
    /\ ToImporter(st, Untouched(t, dt), Clean(t, dt), Settled(s, ds))
    /\ ToExporter(ts, Bound(t, dt), Settled(s, ds))

-----------------------------------------------------------------------------
(* All ranks and connections: al are the processes that run, nd the states *)
(* of the ranks, nt the connections, du what the journals say.             *)
Gone0(du) == du[E] # "mine"
Settled0(nd, du) == Settled(nd[E], du[E])
DurableOK(D, du) ==
    /\ du[E] \in {"mine", "none"}
    /\ \A r \in Ranks : r # E /\ r # D => du[r] = "none"
    /\ D \in Ranks /\ du[D] = "mine" => Gone0(du)
RanksOK(D, al, nd, du) == \A r \in Ranks :
    /\ nd[r].me = r
    /\ r \in al => RankOK(nd[r], D, du[r], Gone0(du), Settled0(nd, du))
    /\ r \notin al => Idle(nd[r])
NetOK(D, nt, gone) == \A x, y \in Ranks : \A k \in 1..Len(nt[x][y]) : MsgOK(x, y, nt[x][y][k], D, gone)
World(D, al, nd, nt, du) ==
    /\ DurableOK(D, du) /\ RanksOK(D, al, nd, du) /\ NetOK(D, nt, Gone0(du))
    /\ D = NONE => du[E] = "mine"
    /\ D # NONE => D \in Ranks \ {E} /\ PairOK(nd[E], du[E], nd[D], du[D], nt[E][D], nt[D][E])

(* The maps that a process has and is going to get: its own state only     *)
(* goes forward, and not before it has resolved.                           *)
Later(a, b) ==
    \/ a = "resolve" /\ b # "down"
    \/ a = "rejoin" /\ b \in ActiveOrStopping \cup {"rejoin"}
    \/ a \in ActiveOrStopping /\ b \in ActiveOrStopping
MapsOK(s, r, maps) ==
    /\ s.epoch \in 1..Len(maps) /\ s.map = maps[s.epoch]
    /\ \A i, j \in s.epoch..Len(maps) : i <= j => Later(maps[i][r], maps[j][r])
    /\ s.map[r] = "resolve" /\ ~s.resolved => \A i \in s.epoch..Len(maps) : maps[i][r] = "resolve"
UpToDate(al, nd, maps) ==
    \A r \in Ranks : nd[r].out = NoOut /\ (r \in al => MapsOK(nd[r], r, maps))

(* The inductive invariant.                                                *)
OneExport(D) ==
    /\ World(D, alive, node, net, durable)
    /\ D = NONE => used.export = 0
    /\ D # NONE => used.export >= 1
OneInv ==
    /\ UpToDate(alive, node, mdsmap)
    /\ \E D \in Ranks \cup {NONE} : OneExport(D)

-----------------------------------------------------------------------------
(* What a handler leaves behind.  Alike: only messages, the marks of       *)
(* resolves and rejoins put off, and a failed assertion differ.            *)
Alike(s, t) ==
    /\ t \in RankState
    /\ t.me = s.me /\ t.map = s.map /\ t.epoch = s.epoch /\ t.exp = s.exp /\ t.imp = s.imp
    /\ t.auth = s.auth /\ t.isauth = s.isauth /\ t.frozen = s.frozen /\ t.wait = s.wait
    /\ t.log = s.log /\ t.amb = s.amb /\ t.other = s.other /\ t.gather = s.gather
    /\ t.resolved = s.resolved

(* The messages of s fit; the exporter claims the subtree only if it may.  *)
Fit(x, y, m, D, gone, may) == MsgOK(x, y, m, D, gone) /\ Tame(m) /\ (x = E /\ Claims(m) => may)
Speaks(s, D, gone, may) ==
    \A q \in Ranks : \A k \in 1..Len(s.out[q]) : Fit(s.me, q, s.out[q][k], D, gone, may)

LEMMA AlikeItself ==
    ASSUME NEW s \in RankState
    PROVE  Alike(s, s)
    BY DEF Alike

LEMMA AlikeAlike ==
    ASSUME NEW s, NEW t, NEW u, Alike(s, t), Alike(t, u)
    PROVE  Alike(s, u)
    BY DEF Alike

LEMMA AlikeRank ==
    ASSUME NEW s, NEW t, Alike(s, t), NEW D, NEW d, NEW gone, NEW settled
    PROVE  /\ ExporterOK(s, D, d) => ExporterOK(t, D, d)
           /\ ImporterOK(s, D, d, gone, settled) => ImporterOK(t, D, d, gone, settled)
           /\ BystanderOK(s, D) => BystanderOK(t, D)
           /\ RankOK(s, D, d, gone, settled) => RankOK(t, D, d, gone, settled)
<1>1. ExporterOK(s, D, d) => ExporterOK(t, D, d)
    BY DEF Alike, ExporterOK, StageOK, Surviving
<1>2. ImporterOK(s, D, d, gone, settled) => ImporterOK(t, D, d, gone, settled)
    BY DEF Alike, ImporterOK, JournalOK, Undecided, Surviving
<1>3. BystanderOK(s, D) => BystanderOK(t, D)
    BY DEF Alike, BystanderOK
<1>4. t.me = s.me
    BY DEF Alike
<1> QED
    BY <1>1, <1>2, <1>3, <1>4 DEF RankOK

LEMMA OutAlike ==
    ASSUME NEW s \in RankState, NEW o \in [Ranks -> Seq(Message)]
    PROVE  Alike(s, [s EXCEPT !.out = o]) /\ [s EXCEPT !.out = o].out = o
    BY DEF RankState, Alike

LEMMA DieAlike ==
    ASSUME NEW s \in RankState, NEW w \in Assertions
    PROVE  Alike(s, Die(s, w)) /\ Die(s, w).out = s.out
    BY DEF RankState, Die, Alike

LEMMA PendingAlike ==
    ASSUME NEW s \in RankState, NEW b \in BOOLEAN
    PROVE  /\ Alike(s, [s EXCEPT !.rpending = b]) /\ [s EXCEPT !.rpending = b].out = s.out
           /\ Alike(s, [s EXCEPT !.jpending = b]) /\ [s EXCEPT !.jpending = b].out = s.out
    BY DEF RankState, Alike

LEMMA SameOut ==
    ASSUME NEW s, NEW t, t.out = s.out, t.me = s.me,
           NEW D, NEW gone, NEW may, NEW may2, Speaks(s, D, gone, may), may => may2
    PROVE  Speaks(t, D, gone, may2)
    BY DEF Speaks, Fit

(* The number of the map a message is sent with changes nothing.           *)
LEMMA EpochFits ==
    ASSUME NEW m \in Message, NEW e \in Nat, NEW mm, mm = [m EXCEPT !.ep = e],
           NEW x, NEW y, NEW D, NEW gone, NEW may
    PROVE  mm \in Message /\ (Fit(x, y, m, D, gone, may) => Fit(x, y, mm, D, gone, may))
<1>1. /\ mm \in Message /\ mm.type = m.type /\ mm.byst = m.byst /\ mm.new = m.new
      /\ mm.flag = m.flag /\ mm.ambig = m.ambig
    BY DEF Message
<1> QED
    BY <1>1 DEF Fit, MsgOK, Tame, Claims

LEMMA SendMdsFits ==
    ASSUME NEW s \in RankState, NEW to \in Ranks, NEW m \in Message
    PROVE  /\ Alike(s, SendMds(s, to, m))
           /\ \A D, gone, may :
                Speaks(s, D, gone, may) /\ Fit(s.me, to, m, D, gone, may)
                  => Speaks(SendMds(s, to, m), D, gone, may)
           /\ \A q \in Ranks : SendMds(s, to, m).out[q] = s.out[q]
                \/ (q = to /\ SendMds(s, to, m).out[q] = Append(s.out[q], [m EXCEPT !.ep = s.epoch]))
<1>1. s.epoch \in Nat /\ s.out \in [Ranks -> Seq(Message)]
    BY RankFields
<1>2. PICK mm : mm = [m EXCEPT !.ep = s.epoch]
    OBVIOUS
<1>3. mm \in Message
    BY <1>1, <1>2 DEF Message
<1>4. PICK o : o = [s.out EXCEPT ![to] = Append(@, mm)]
    OBVIOUS
<1>5. \A q \in Ranks : o[q] = IF q = to THEN Append(s.out[q], mm) ELSE s.out[q]
    BY <1>1, <1>4
<1>6. \A q \in Ranks : s.out[q] \in Seq(Message) /\ Append(s.out[q], mm) \in Seq(Message)
    BY <1>1, <1>3, AppendProperties
<1>7. o \in [Ranks -> Seq(Message)]
    <2>1. o = [q \in Ranks |-> o[q]]
        BY <1>1, <1>4
    <2> HIDE <1>4
    <2> QED
        BY <1>5, <1>6, <2>1
<1>8. PICK t : t = SendMds(s, to, m)
    OBVIOUS
<1>9. t = s \/ t = [s EXCEPT !.out = o]
    BY <1>1, <1>2, <1>4, <1>8 DEF SendMds
<1>10. Alike(s, t) /\ (t.out = s.out \/ t.out = o)
    BY <1>7, <1>9, OutAlike, AlikeItself
<1>11. ASSUME NEW D, NEW gone, NEW may, Speaks(s, D, gone, may), Fit(s.me, to, m, D, gone, may)
       PROVE  Speaks(t, D, gone, may)
    <2>1. Fit(s.me, to, mm, D, gone, may)
        BY <1>1, <1>2, <1>11, EpochFits
    <2>2. ASSUME NEW q \in Ranks, NEW k \in 1..Len(t.out[q])
          PROVE  Fit(s.me, q, t.out[q][k], D, gone, may)
        <3>1. CASE t.out[q] = s.out[q]
            BY <1>11, <2>2, <3>1 DEF Speaks
        <3>2. CASE q = to /\ t.out[q] = Append(s.out[q], mm)
            <4>1. /\ Len(t.out[q]) = Len(s.out[q]) + 1 /\ Len(s.out[q]) \in Nat
                  /\ t.out[q][Len(s.out[q]) + 1] = mm
                  /\ \A i \in 1..Len(s.out[q]) : t.out[q][i] = s.out[q][i]
                BY <1>3, <1>6, <3>2, AppendProperties, LenProperties
            <4>2. k \in 1..Len(s.out[q]) \/ k = Len(s.out[q]) + 1
                BY <2>2, <4>1
            <4> QED
                BY <1>11, <2>1, <3>2, <4>1, <4>2 DEF Speaks
        <3> QED
            BY <1>5, <1>10, <3>1, <3>2
    <2> QED
        BY <1>10, <2>2 DEF Speaks, Alike
<1> QED
    BY <1>2, <1>5, <1>8, <1>10, <1>11

LEMMA SendReplyFits ==
    ASSUME NEW s \in RankState, NEW to \in Ranks, NEW m \in Message
    PROVE  /\ Alike(s, SendReply(s, to, m))
           /\ \A D, gone, may :
                Speaks(s, D, gone, may) /\ Fit(s.me, to, m, D, gone, may)
                  => Speaks(SendReply(s, to, m), D, gone, may)
<1>1. s.out \in [Ranks -> Seq(Message)]
    BY RankFields
<1>4. PICK o : o = [s.out EXCEPT ![to] = Append(@, m)]
    OBVIOUS
<1>5. \A q \in Ranks : o[q] = IF q = to THEN Append(s.out[q], m) ELSE s.out[q]
    BY <1>1, <1>4
<1>6. \A q \in Ranks : s.out[q] \in Seq(Message) /\ Append(s.out[q], m) \in Seq(Message)
    BY <1>1, AppendProperties
<1>7. o \in [Ranks -> Seq(Message)]
    <2>1. o = [q \in Ranks |-> o[q]]
        BY <1>1, <1>4
    <2> HIDE <1>4
    <2> QED
        BY <1>5, <1>6, <2>1
<1>8. PICK t : t = SendReply(s, to, m)
    OBVIOUS
<1>9. t = [s EXCEPT !.out = o]
    BY <1>1, <1>4, <1>8 DEF SendReply
<1>10. Alike(s, t) /\ t.out = o
    BY <1>7, <1>9, OutAlike
<1>11. ASSUME NEW D, NEW gone, NEW may, Speaks(s, D, gone, may), Fit(s.me, to, m, D, gone, may)
       PROVE  Speaks(t, D, gone, may)
    <2>2. ASSUME NEW q \in Ranks, NEW k \in 1..Len(t.out[q])
          PROVE  Fit(s.me, q, t.out[q][k], D, gone, may)
        <3>1. CASE q # to
            BY <1>5, <1>10, <1>11, <2>2, <3>1 DEF Speaks
        <3>2. CASE q = to
            <4>0. t.out[q] = Append(s.out[q], m)
                BY <1>5, <1>10, <3>2
            <4>1. /\ Len(t.out[q]) = Len(s.out[q]) + 1 /\ Len(s.out[q]) \in Nat
                  /\ t.out[q][Len(s.out[q]) + 1] = m
                  /\ \A i \in 1..Len(s.out[q]) : t.out[q][i] = s.out[q][i]
                BY <1>6, <4>0, AppendProperties, LenProperties
            <4>2. k \in 1..Len(s.out[q]) \/ k = Len(s.out[q]) + 1
                BY <2>2, <4>1
            <4> QED
                BY <1>11, <3>2, <4>1, <4>2 DEF Speaks
        <3> QED
            BY <3>1, <3>2
    <2> QED
        BY <1>10, <2>2 DEF Speaks, Alike
<1> QED
    BY <1>8, <1>10, <1>11

LEMMA SendAllFits ==
    ASSUME NEW s \in RankState, NEW W, NEW m \in Message
    PROVE  /\ Alike(s, SendAll(s, W, m))
           /\ \A D, gone, may :
                Speaks(s, D, gone, may) /\ (\A q \in Ranks : q \in W => Fit(s.me, q, m, D, gone, may))
                  => Speaks(SendAll(s, W, m), D, gone, may)
<1>1. s.epoch \in Nat /\ s.out \in [Ranks -> Seq(Message)]
    BY RankFields
<1>2. PICK mm : mm = [m EXCEPT !.ep = s.epoch]
    OBVIOUS
<1>3. mm \in Message
    BY <1>1, <1>2 DEF Message
<1>4. PICK o : o = [q \in Ranks |->
          IF q \in W /\ s.map[q] # "down" THEN Append(s.out[q], mm) ELSE s.out[q]]
    OBVIOUS
<1>6. \A q \in Ranks : s.out[q] \in Seq(Message) /\ Append(s.out[q], mm) \in Seq(Message)
    BY <1>1, <1>3, AppendProperties
<1>7. o \in [Ranks -> Seq(Message)]
    BY <1>4, <1>6
<1>8. PICK t : t = SendAll(s, W, m)
    OBVIOUS
<1>9. t = [s EXCEPT !.out = o]
    BY <1>2, <1>4, <1>8 DEF SendAll
<1>10. Alike(s, t) /\ t.out = o
    BY <1>7, <1>9, OutAlike
<1>11. ASSUME NEW D, NEW gone, NEW may, Speaks(s, D, gone, may),
              \A q \in Ranks : q \in W => Fit(s.me, q, m, D, gone, may)
       PROVE  Speaks(t, D, gone, may)
    <2>2. ASSUME NEW q \in Ranks, NEW k \in 1..Len(t.out[q])
          PROVE  Fit(s.me, q, t.out[q][k], D, gone, may)
        <3>1. CASE t.out[q] = s.out[q]
            BY <1>11, <2>2, <3>1 DEF Speaks
        <3>2. CASE q \in W /\ t.out[q] = Append(s.out[q], mm)
            <4>1. /\ Len(t.out[q]) = Len(s.out[q]) + 1 /\ Len(s.out[q]) \in Nat
                  /\ t.out[q][Len(s.out[q]) + 1] = mm
                  /\ \A i \in 1..Len(s.out[q]) : t.out[q][i] = s.out[q][i]
                BY <1>3, <1>6, <3>2, AppendProperties, LenProperties
            <4>2. k \in 1..Len(s.out[q]) \/ k = Len(s.out[q]) + 1
                BY <2>2, <4>1
            <4>0. Fit(s.me, q, m, D, gone, may)
                BY <1>11, <3>2
            <4>3. Fit(s.me, q, mm, D, gone, may)
                BY <1>1, <1>2, <4>0, EpochFits
            <4> QED
                BY <1>11, <4>3, <4>1, <4>2 DEF Speaks
        <3> QED
            BY <1>4, <1>10, <3>1, <3>2
    <2> QED
        BY <1>10, <2>2 DEF Speaks, Alike
<1> QED
    BY <1>8, <1>10, <1>11

LEMMA SendMdsSpeaks ==
    ASSUME NEW s \in RankState, NEW to \in Ranks, NEW m \in Message, NEW D, NEW gone, NEW may,
           Speaks(s, D, gone, may), Fit(s.me, to, m, D, gone, may)
    PROVE  Alike(s, SendMds(s, to, m)) /\ Speaks(SendMds(s, to, m), D, gone, may)
    BY SendMdsFits

-----------------------------------------------------------------------------
(* The parameters of the invariant: the importer or NONE, what the journal *)
(* of the rank says, whether the EExport is safe, whether all is over.     *)
Parties(s, D, d, gone) ==
    /\ D \in Ranks \cup {NONE} /\ D # E
    /\ gone \in BOOLEAN
    /\ s.me = E => (gone <=> d # "mine")
May(s, gone) == s.exp.state = "none" /\ ~gone

(* A rank that resolves claims the subtree only if the journals agree.     *)
LEMMA SendResolvesFits ==
    ASSUME NEW s \in RankState, NEW D, NEW d, NEW gone, NEW settled, Parties(s, D, d, gone),
           RankOK(s, D, d, gone, settled), Speaks(s, D, gone, May(s, gone))
    PROVE  /\ Alike(s, SendSubtreeResolves(s))
           /\ Speaks(SendSubtreeResolves(s), D, gone, May(s, gone))
<1> DEFINE resolving == s.map[s.me] = "resolve"
           dests == {q \in Ranks \ {s.me} : resolving \/ s.map[q] = "resolve"}
           claim == s.auth[1] = s.me /\ ~(resolving /\ s.amb)
<1>1. PICK c : c = claim /\ c \in BOOLEAN
    OBVIOUS
<1>2. PICK b : b = s.amb /\ b \in BOOLEAN
    BY DEF RankState
<1>3. Msg("Resolve", 0) \in Message
    BY MsgType0 DEF MsgType
<1>4. PICK m : m = [Msg("Resolve", 0) EXCEPT !.flag = c, !.ambig = b]
    OBVIOUS
<1>5. m \in Message
    BY <1>1, <1>2, <1>3, <1>4 DEF Message
<1>6. m.type = "Resolve" /\ m.flag = c /\ m.ambig = b
    BY <1>4 DEF Msg
<1>7. CASE IsExporting(s) \/ IsImporting(s)
    <2>1. SendSubtreeResolves(s) = [s EXCEPT !.rpending = TRUE]
        BY <1>7 DEF SendSubtreeResolves
    <2>2. /\ Alike(s, SendSubtreeResolves(s)) /\ SendSubtreeResolves(s).out = s.out
        BY <2>1, PendingAlike
    <2> QED
        BY <2>2, SameOut DEF Alike
<1>8. CASE s.exp.state = "none" /\ s.imp.state = "none"
    <2>1. ASSUME NEW q \in Ranks, q \in dests
          PROVE  Fit(s.me, q, m, D, gone, May(s, gone))
        <3>1. q # s.me
            BY <2>1
        <3>2. b => s.me = D
            BY <1>2 DEF RankOK, ExporterOK, BystanderOK
        <3>3. c => s.me = E \/ (s.me = D /\ gone)
            BY <1>1, <1>8 DEF RankOK, ImporterOK, BystanderOK, Undecided, Late
        <3>4. s.me = E => (c <=> ~gone)
            BY <1>1, <1>8 DEF RankOK, ExporterOK, StageOK, Parties
        <3> QED
            BY <1>6, <1>8, <3>1, <3>2, <3>3, <3>4 DEF Fit, MsgOK, Tame, Claims, May
    <2>2. PICK t : t = SendAll(s, dests, m)
        OBVIOUS
    <2>3. Alike(s, t) /\ Speaks(t, D, gone, May(s, gone))
        <3>1. \A q \in Ranks : q \in dests => Fit(s.me, q, m, D, gone, May(s, gone))
            BY <2>1
        <3> HIDE DEF dests
        <3> QED
            BY <1>5, <2>2, <3>1, SendAllFits
    <2>4. SendSubtreeResolves(s) = [t EXCEPT !.rpending = FALSE]
        BY <1>1, <1>2, <1>4, <1>8, <2>2 DEF SendSubtreeResolves, IsExporting, IsImporting
    <2>5. t \in RankState
        BY <2>3 DEF Alike
    <2>6. Alike(t, SendSubtreeResolves(s)) /\ SendSubtreeResolves(s).out = t.out
        BY <2>4, <2>5, PendingAlike
    <2>7. Speaks(SendSubtreeResolves(s), D, gone, May(s, gone))
        BY <2>3, <2>6, SameOut DEF Alike
    <2> QED
        BY <2>3, <2>6, <2>7, AlikeAlike
<1> QED
    BY <1>7, <1>8 DEF IsExporting, IsImporting

LEMMA PendingFits ==
    ASSUME NEW s \in RankState, NEW D, NEW d, NEW gone, NEW settled, Parties(s, D, d, gone),
           RankOK(s, D, d, gone, settled), Speaks(s, D, gone, May(s, gone))
    PROVE  /\ Alike(s, MaybeSendPendingResolves(s))
           /\ Speaks(MaybeSendPendingResolves(s), D, gone, May(s, gone))
    BY SendResolvesFits, AlikeItself DEF MaybeSendPendingResolves

-----------------------------------------------------------------------------
(* The exporter: what its handlers keep.                                   *)
Frame(s, t) ==
    t.me = s.me /\ t.map = s.map /\ t.epoch = s.epoch /\ (s.resolved => t.resolved)
Onward(s, t) ==
    /\ s.exp.state = "none" => t.exp.state = "none"
    /\ t.exp.state = "locking" => s.exp.state = "locking"
    /\ t.exp.state \in Early => s.exp.state \in Early
    /\ t.exp.state = "loggingfinish" => s.exp.state = "loggingfinish"
Exporter(s, D, d) ==
    /\ s \in RankState /\ s.me = E /\ D \in Ranks \cup {NONE} /\ D # E
    /\ s.exp.state # "none" => D \in Ranks
    /\ ExporterOK(s, D, d) /\ Speaks(s, D, d # "mine", May(s, d # "mine"))
Exported(s, t, D, d) == Exporter(t, D, d) /\ Frame(s, t) /\ Onward(s, t)

LEMMA AlikeOnward ==
    ASSUME NEW s, NEW t, Alike(s, t)
    PROVE  Frame(s, t) /\ Onward(s, t) /\ (\A g : May(s, g) <=> May(t, g))
    BY DEF Alike, Frame, Onward, May

LEMMA ExportedOnce ==
    ASSUME NEW s, NEW t, NEW u, NEW D, NEW d, Exported(s, t, D, d), Exported(t, u, D, d)
    PROVE  Exported(s, u, D, d)
    BY DEF Exported, Frame, Onward

LEMMA ExportedItself ==
    ASSUME NEW s, NEW D, NEW d, Exporter(s, D, d)
    PROVE  Exported(s, s, D, d)
    BY DEF Exported, Frame, Onward

LEMMA ExporterAlike ==
    ASSUME NEW s, NEW t, NEW D, NEW d, Exporter(s, D, d), Alike(s, t),
           Speaks(t, D, d # "mine", May(s, d # "mine"))
    PROVE  Exported(s, t, D, d)
<1>1. ExporterOK(t, D, d)
    BY AlikeRank DEF Exporter
<1>2. Speaks(t, D, d # "mine", May(t, d # "mine"))
    BY SameOut, AlikeOnward
<1> QED
    BY <1>1, <1>2, AlikeOnward DEF Exporter, Exported, Alike

LEMMA ExporterDies ==
    ASSUME NEW s, NEW D, NEW d, Exporter(s, D, d), NEW w \in Assertions
    PROVE  Exported(s, Die(s, w), D, d)
<1>1. Alike(s, Die(s, w)) /\ Die(s, w).out = s.out
    BY DieAlike DEF Exporter
<1>2. Speaks(Die(s, w), D, d # "mine", May(s, d # "mine"))
    BY <1>1, SameOut DEF Exporter, Alike
<1> QED
    BY <1>1, <1>2, ExporterAlike

LEMMA ExporterPends ==
    ASSUME NEW s, NEW D, NEW d, Exporter(s, D, d)
    PROVE  /\ Exported(s, MaybeSendPendingResolves(s), D, d)
           /\ Exported(s, SendSubtreeResolves(s), D, d)
<1>1. RankOK(s, D, d, d # "mine", FALSE) /\ Parties(s, D, d, d # "mine")
    BY DEF Exporter, RankOK, Parties
<1>2. /\ Alike(s, MaybeSendPendingResolves(s))
      /\ Speaks(MaybeSendPendingResolves(s), D, d # "mine", May(s, d # "mine"))
      /\ Alike(s, SendSubtreeResolves(s))
      /\ Speaks(SendSubtreeResolves(s), D, d # "mine", May(s, d # "mine"))
    BY <1>1, PendingFits, SendResolvesFits DEF Exporter
<1> QED
    BY <1>2, ExporterAlike

(* The export ends, one way or the other.                                  *)
LEMMA EndExportKeeps ==
    ASSUME NEW s \in RankState, NEW D, NEW d, s.me = E, D \in Ranks, D # E,
           ExporterOK([s EXCEPT !.exp = NoExport], D, d), Speaks(s, D, d # "mine", FALSE)
    PROVE  /\ Exporter([s EXCEPT !.exp = NoExport], D, d)
           /\ Exporter(EndExport(s), D, d) /\ EndExport(s).exp = NoExport /\ Frame(s, EndExport(s))
<1>1. PICK t : t = [s EXCEPT !.exp = NoExport]
    OBVIOUS
<1>2. t \in RankState /\ t.me = E /\ t.exp = NoExport /\ t.out = s.out /\ Frame(s, t)
    BY <1>1, NothingThere DEF RankState, Frame
<1>3. Exporter(t, D, d)
    <2>1. Speaks(t, D, d # "mine", May(t, d # "mine"))
        BY <1>2, SameOut
    <2> QED
        BY <1>1, <1>2, <2>1 DEF Exporter
<1>4. Exported(t, EndExport(s), D, d)
    BY <1>1, <1>3, ExporterPends DEF EndExport
<1>5. Alike(t, EndExport(s))
    <2>1. RankOK(t, D, d, d # "mine", FALSE) /\ Parties(t, D, d, d # "mine")
        BY <1>3 DEF Exporter, RankOK, Parties
    <2> QED
        BY <1>1, <1>3, <2>1, PendingFits DEF Exporter, EndExport
<1> QED
    BY <1>1, <1>2, <1>3, <1>4, <1>5 DEF Exported, Frame, Alike

(* Thawing a tree touches its authority and nothing else.                  *)
Rest(s, t) ==
    /\ t \in RankState
    /\ t.me = s.me /\ t.map = s.map /\ t.epoch = s.epoch /\ t.imp = s.imp
    /\ t.isauth = s.isauth /\ t.wait = s.wait /\ t.log = s.log /\ t.amb = s.amb
    /\ t.other = s.other /\ t.gather = s.gather /\ t.resolved = s.resolved
LEMMA Thaws ==
    ASSUME NEW s \in RankState
    PROVE  /\ Rest(s, UnfreezeTree(s)) /\ UnfreezeTree(s).exp = s.exp /\ UnfreezeTree(s).out = s.out
           /\ \/ /\ s.frozen = "frozen" /\ s.isauth /\ s.auth[1] # s.auth[2]
                 /\ UnfreezeTree(s).frozen = s.frozen /\ UnfreezeTree(s).auth = s.auth
              \/ /\ s.frozen = "frozen" /\ s.isauth /\ s.auth[1] = s.auth[2]
                 /\ UnfreezeTree(s).frozen = "no" /\ UnfreezeTree(s).auth = Sole(s.auth[1])
              \/ /\ s.frozen # "frozen" \/ ~s.isauth
                 /\ UnfreezeTree(s).frozen = "no" /\ UnfreezeTree(s).auth = s.auth
<1>1. PICK a : a = Sole(s.auth[1])
    OBVIOUS
<1>2. a \in MdsAuthority
    <2>1. s.auth \in MdsAuthority
        BY RankFields
    <2> QED
        BY <1>1, <2>1 DEF MdsAuthority, Sole
<1>3. CASE s.frozen = "frozen" /\ s.isauth /\ s.auth[1] # s.auth[2]
    <2>1. UnfreezeTree(s) = Die(s, "unfreeze: second == first")
        BY <1>3 DEF UnfreezeTree
    <2>2. Alike(s, UnfreezeTree(s)) /\ UnfreezeTree(s).out = s.out
        BY <2>1, DieAlike, Asserted
    <2> QED
        BY <1>3, <2>2 DEF Alike, Rest
<1>4. CASE s.frozen = "frozen" /\ s.isauth /\ s.auth[1] = s.auth[2]
    <2>1. UnfreezeTree(s) = [s EXCEPT !.frozen = "no", !.auth = a]
        BY <1>1, <1>4 DEF UnfreezeTree
    <2> QED
        BY <1>1, <1>2, <1>4, <2>1 DEF RankState, Rest
<1>5. CASE s.frozen # "frozen" \/ ~s.isauth
    <2>1. UnfreezeTree(s) = [s EXCEPT !.frozen = "no"]
        BY <1>5 DEF UnfreezeTree
    <2> QED
        BY <1>5, <2>1 DEF RankState, Rest
<1> QED
    BY <1>3, <1>4, <1>5

LEMMA TellsCancel ==
    ASSUME NEW s \in RankState, s.me = E, NEW D \in Ranks, D # E, NEW e \in ExportStateT, e.peer = D, NEW b,
           NEW gone, NEW may, Speaks(s, D, gone, may)
    PROVE  /\ Alike(s, TellCancel(s, e, b)) /\ Speaks(TellCancel(s, e, b), D, gone, may)
           /\ \A tid \in Nat : /\ Alike(s, SendMds(s, D, Msg("Cancel", tid)))
                               /\ Speaks(SendMds(s, D, Msg("Cancel", tid)), D, gone, may)
<1>1. ASSUME NEW tid \in Nat
      PROVE  /\ Alike(s, SendMds(s, D, Msg("Cancel", tid)))
             /\ Speaks(SendMds(s, D, Msg("Cancel", tid)), D, gone, may)
    <2>1. PICK m : m = Msg("Cancel", tid)
        OBVIOUS
    <2>2. m \in Message
        BY <2>1, MsgType0 DEF MsgType
    <2>3. Fit(E, D, m, D, gone, may)
        BY <2>1 DEF Fit, MsgOK, Tame, Claims, Msg
    <2>4. Alike(s, SendMds(s, D, m)) /\ Speaks(SendMds(s, D, m), D, gone, may)
        BY <2>2, <2>3, SendMdsFits
    <2> QED
        BY <2>1, <2>4
<1>2. e.tid \in Nat
    BY ExportFields
<1> QED
    BY <1>1, <1>2, AlikeItself DEF TellCancel

(* An export that is not with the importer yet is given up.                *)
LEMMA EarlyCancel ==
    ASSUME NEW s, NEW D, NEW d, Exporter(s, D, d), NEW b,
           s.exp.state \in {"discovering", "freezing", "prepping"}
    PROVE  /\ Exporter(EndExport(TellCancel(UnfreezeTree(s), s.exp, b)), D, d)
           /\ Exported(s, EndExport(TellCancel(UnfreezeTree(s), s.exp, b)), D, d)
<1>1. s \in RankState /\ s.me = E /\ D \in Ranks /\ D # E /\ s.exp.peer = D /\ s.exp \in ExportStateT
    BY RankFields DEF Exporter, ExporterOK
<1>2. PICK t : t = UnfreezeTree(s)
    OBVIOUS
<1>3. Rest(s, t) /\ t.exp = s.exp /\ t.out = s.out /\ t.frozen = "no" /\ t.auth = Sole(E)
    BY <1>1, <1>2, Thaws DEF Exporter, ExporterOK, StageOK, Sole
<1>4. PICK u : u = TellCancel(t, s.exp, b)
    OBVIOUS
<1>5. Speaks(t, D, d # "mine", FALSE)
    <2>1. Speaks(s, D, d # "mine", FALSE)
        BY SameOut DEF Exporter, May
    <2> QED
        BY <1>3, <2>1, SameOut DEF Rest
<1>6. Alike(t, u) /\ Speaks(u, D, d # "mine", FALSE)
    BY <1>1, <1>3, <1>4, <1>5, TellsCancel DEF Rest
<1>7. u \in RankState /\ u.me = E /\ Frame(s, u)
    BY <1>1, <1>3, <1>6 DEF Alike, Rest, Frame
<1>8. PICK v : v = [u EXCEPT !.exp = NoExport]
    OBVIOUS
<1>9. ExporterOK(v, D, d)
    <2>1. /\ v.exp = NoExport /\ v.frozen = "no" /\ v.auth = Sole(E) /\ v.isauth = s.isauth
          /\ v.imp = s.imp /\ v.amb = s.amb /\ v.other = s.other /\ v.log = s.log /\ v.wait = s.wait
        BY <1>3, <1>6, <1>7, <1>8 DEF Alike, Rest, RankState
    <2>2. ExporterOK(s, D, d)
        BY DEF Exporter
    <2> QED
        BY <2>1, <2>2 DEF ExporterOK, StageOK, NoExport, Sole
<1>10. /\ Exporter(EndExport(u), D, d) /\ EndExport(u).exp = NoExport /\ Frame(u, EndExport(u))
    BY <1>1, <1>6, <1>7, <1>8, <1>9, EndExportKeeps
<1> QED
    BY <1>2, <1>4, <1>7, <1>10 DEF Exported, Frame, Onward, NoExport, Early

(* export_notify_abort: what the bystanders are told.                      *)
LEMMA NotifyAbortFits ==
    ASSUME NEW s \in RankState, s.me = E, NEW D \in Ranks, D # E, s.exp.peer = D, E \notin s.exp.notify,
           D \notin s.exp.notify, NEW gone, NEW may, Speaks(s, D, gone, may)
    PROVE  /\ Alike(s, SendAll(s, s.exp.notify, NotifyAbort(s)))
           /\ Speaks(SendAll(s, s.exp.notify, NotifyAbort(s)), D, gone, may)
<1>1. s.exp.tid \in Nat /\ E \in Ranks
    BY RankFields, ExportFields
<1>2. Msg("Notify", s.exp.tid) \in Message
    BY <1>1, MsgType0 DEF MsgType
<1>3. PICK a, b : a = <<E, D>> /\ b = Sole(E)
    OBVIOUS
<1>4. a \in MdsAuthority /\ b \in MdsAuthority
    BY <1>1, <1>3, Authorities
<1>5. PICK m : m = [Msg("Notify", s.exp.tid) EXCEPT !.old = a, !.new = b]
    OBVIOUS
<1>6. m \in Message
    BY <1>2, <1>4, <1>5 DEF Message
<1>7. m.type = "Notify" /\ m.new = b /\ b[1] = E
    BY <1>3, <1>5 DEF Msg, Sole
<1>8. NotifyAbort(s) = m
    BY <1>3, <1>5 DEF NotifyAbort
<1>9. \A q \in Ranks : q \in s.exp.notify => Fit(s.me, q, m, D, gone, may)
    BY <1>7, RanksAssumption DEF Fit, MsgOK, Tame, Claims
<1> QED
    BY <1>6, <1>8, <1>9, SendAllFits

(* An export that the bystanders know of is given up: from warning, or     *)
(* reversed from exporting.  s is what is left when the tree is thawed.    *)
LEMMA AbortKeeps ==
    ASSUME NEW s, NEW D, NEW d, Exporter(s, D, d), s.exp.state \in {"warning", "exporting"}
    PROVE  /\ Rest(s, ExportNotifyAbort(s))
           /\ ExportNotifyAbort(s) \in RankState
           /\ Speaks(ExportNotifyAbort(s), D, d # "mine", FALSE)
           /\ ExportNotifyAbort(s).frozen = s.frozen /\ ExportNotifyAbort(s).auth = s.auth
           /\ \/ ExportNotifyAbort(s).exp = NoExport
              \/ /\ ExportNotifyAbort(s).exp.state = "cancelling"
                 /\ ExportNotifyAbort(s).exp.peer = D
                 /\ ExportNotifyAbort(s).exp.notify = s.exp.notify
<1>1. s \in RankState /\ s.me = E /\ D \in Ranks /\ D # E /\ s.exp.peer = D /\ s.exp \in ExportStateT
    BY RankFields DEF Exporter, ExporterOK
<1>2. Speaks(s, D, d # "mine", FALSE)
    BY SameOut DEF Exporter, May
<1>3. E \notin s.exp.notify /\ D \notin s.exp.notify
    BY DEF Exporter, ExporterOK
<1>4. CASE s.exp.notify = {}
    <2>1. PICK t : t = [s EXCEPT !.exp = NoExport]
        OBVIOUS
    <2>2. ExportNotifyAbort(s) = t
        BY <1>4, <2>1 DEF ExportNotifyAbort
    <2>3. t \in RankState /\ t.exp = NoExport /\ t.out = s.out /\ t.frozen = s.frozen /\ t.auth = s.auth
        BY <1>1, <2>1, NothingThere DEF RankState
    <2>4. Rest(s, t) /\ t.me = s.me
        BY <1>1, <2>1, <2>3 DEF RankState, Rest
    <2>5. Speaks(t, D, d # "mine", FALSE)
        BY <1>2, <2>3, <2>4, SameOut
    <2> QED
        BY <2>2, <2>3, <2>4, <2>5
<1>5. CASE s.exp.notify # {}
    <2>1. PICK u : u = SendAll(s, s.exp.notify, NotifyAbort(s))
        OBVIOUS
    <2>2. Alike(s, u) /\ Speaks(u, D, d # "mine", FALSE)
        BY <1>1, <1>2, <1>3, <2>1, NotifyAbortFits
    <2>3. PICK t : t = [u EXCEPT !.exp.state = "cancelling"]
        OBVIOUS
    <2>4. ExportNotifyAbort(s) = t
        BY <1>5, <2>1, <2>3 DEF ExportNotifyAbort
    <2>5. u \in RankState /\ u.exp = s.exp
        BY <2>2 DEF Alike
    <2>6. PICK e : e = [s.exp EXCEPT !.state = "cancelling"]
        OBVIOUS
    <2>7. e \in ExportStateT /\ e.state = "cancelling" /\ e.peer = D /\ e.notify = s.exp.notify
        BY <1>1, <2>6 DEF ExportStateT, ExportStates
    <2>8. t = [u EXCEPT !.exp = e]
        BY <2>3, <2>5, <2>6
    <2>9. t \in RankState /\ t.exp = e /\ t.out = u.out /\ t.me = u.me /\ t.frozen = s.frozen /\ t.auth = s.auth
        BY <2>2, <2>5, <2>7, <2>8 DEF RankState, Alike
    <2>10. Rest(s, t)
        BY <1>1, <2>2, <2>5, <2>7, <2>8 DEF RankState, Rest, Alike
    <2>11. Speaks(t, D, d # "mine", FALSE)
        BY <2>2, <2>9, SameOut
    <2> QED
        BY <2>4, <2>7, <2>9, <2>10, <2>11
<1> QED
    BY <1>4, <1>5

LEMMA WarnedCancel ==
    ASSUME NEW s, NEW D, NEW d, Exporter(s, D, d), NEW t \in RankState, Rest(s, t), s.exp.state # "none",
           t.exp = NoExport \/ (/\ t.exp.state = "cancelling" /\ t.exp.peer = D
                               /\ t.exp.notify = s.exp.notify),
           t.frozen = "no", t.auth = Sole(E), s.isauth, d = "mine", Speaks(t, D, FALSE, FALSE)
    PROVE  Exported(s, IF t.exp.state = "none" THEN MaybeSendPendingResolves(t) ELSE t, D, d)
<1>1. ExporterOK(t, D, d)
    <2>1. /\ t.imp = s.imp /\ t.amb = s.amb /\ t.other = s.other /\ t.log = s.log /\ t.wait = s.wait
          /\ t.isauth = s.isauth /\ t.map = s.map /\ t.me = s.me
        BY DEF Rest
    <2>2. ExporterOK(s, D, d)
        BY DEF Exporter
    <2> QED
        BY <2>1, <2>2 DEF ExporterOK, StageOK, NoExport, Sole, Surviving
<1>2. Exporter(t, D, d)
    <2>1. Speaks(t, D, d # "mine", May(t, d # "mine"))
        BY SameOut
    <2> QED
        BY <1>1, <2>1 DEF Exporter, Rest
<1>3. Exported(s, t, D, d)
    BY <1>2 DEF Exported, Frame, Rest, Onward, NoExport, Early
<1>4. Exported(s, MaybeSendPendingResolves(t), D, d)
    BY <1>2, <1>3, ExporterPends, ExportedOnce
<1> QED
    BY <1>3, <1>4

LEMMA TryCancelKeeps ==
    ASSUME NEW s, NEW D, NEW d, Exporter(s, D, d), NEW b
    PROVE  Exported(s, ExportTryCancel(s, b), D, d)
<1>0. s \in RankState /\ s.me = E /\ ExporterOK(s, D, d)
    BY DEF Exporter
<1>1. CASE s.exp.state = "locking"
    <2>1. ExportTryCancel(s, b) = EndExport(s)
        BY <1>1 DEF ExportTryCancel
    <2>2. PICK t : t = [s EXCEPT !.exp = NoExport]
        OBVIOUS
    <2>3. ExporterOK(t, D, d)
        <3>1. /\ t.exp = NoExport /\ t.frozen = s.frozen /\ t.auth = s.auth /\ t.isauth = s.isauth
              /\ t.imp = s.imp /\ t.amb = s.amb /\ t.other = s.other /\ t.log = s.log /\ t.wait = s.wait
            BY <1>0, <2>2 DEF RankState
        <3> QED
            BY <1>0, <1>1, <3>1 DEF ExporterOK, StageOK, NoExport, Sole
    <2>4. Speaks(s, D, d # "mine", FALSE) /\ D \in Ranks /\ D # E
        BY <1>1, SameOut DEF Exporter, May
    <2>5. Exporter(EndExport(s), D, d) /\ EndExport(s).exp = NoExport /\ Frame(s, EndExport(s))
        BY <1>0, <2>2, <2>3, <2>4, EndExportKeeps
    <2> QED
        BY <2>1, <2>5 DEF Exported, Onward, NoExport, Early
<1>2. CASE s.exp.state \in {"discovering", "freezing", "prepping"}
    BY <1>2, EarlyCancel DEF ExportTryCancel
<1>3. CASE s.exp.state = "warning"
    <2>1. PICK t : t = ExportNotifyAbort(s)
        OBVIOUS
    <2>2. /\ Rest(s, t) /\ t \in RankState /\ Speaks(t, D, d # "mine", FALSE)
          /\ t.frozen = s.frozen /\ t.auth = s.auth
          /\ \/ t.exp = NoExport
             \/ t.exp.state = "cancelling" /\ t.exp.peer = D /\ t.exp.notify = s.exp.notify
        BY <1>3, <2>1, AbortKeeps
    <2>3. s.isauth /\ d = "mine" /\ s.frozen = "frozen" /\ s.auth = <<E, E>> /\ s.exp.peer = D /\ D \in Ranks /\ D # E
        BY <1>0, <1>3 DEF ExporterOK, StageOK, Exporter
    <2>4. PICK u : u = UnfreezeTree(t)
        OBVIOUS
    <2>5. Rest(t, u) /\ u.exp = t.exp /\ u.out = t.out /\ u.frozen = "no" /\ u.auth = Sole(E)
        <3>1. t.isauth /\ t.frozen = "frozen" /\ t.auth[1] = E /\ t.auth[2] = E
            BY <2>2, <2>3 DEF Rest
        <3> QED
            BY <2>2, <2>4, <3>1, Thaws
    <2>6. PICK v : v = TellCancel(u, s.exp, b)
        OBVIOUS
    <2>7. Speaks(u, D, FALSE, FALSE)
        BY <2>2, <2>3, <2>5, SameOut DEF Rest
    <2>8. Alike(u, v) /\ Speaks(v, D, FALSE, FALSE)
        <3>1. s.exp \in ExportStateT
            BY <1>0, RankFields
        <3> QED
            BY <1>0, <2>2, <2>3, <2>5, <2>6, <2>7, <3>1, TellsCancel DEF Rest
    <2>9. /\ v \in RankState /\ Rest(s, v) /\ v.exp = t.exp /\ v.frozen = "no" /\ v.auth = Sole(E)
        BY <2>2, <2>5, <2>8 DEF Rest, Alike
    <2>10. Exported(s, IF v.exp.state = "none" THEN MaybeSendPendingResolves(v) ELSE v, D, d)
        BY <1>3, <2>2, <2>3, <2>8, <2>9, WarnedCancel
    <2> QED
        BY <1>3, <2>1, <2>4, <2>6, <2>10 DEF ExportTryCancel
<1>4. CASE s.exp.state = "exporting"
    <2>1. PICK t : t = ExportNotifyAbort(s)
        OBVIOUS
    <2>2. /\ Rest(s, t) /\ t \in RankState /\ Speaks(t, D, d # "mine", FALSE)
          /\ t.frozen = s.frozen /\ t.auth = s.auth
          /\ \/ t.exp = NoExport
             \/ t.exp.state = "cancelling" /\ t.exp.peer = D /\ t.exp.notify = s.exp.notify
        BY <1>4, <2>1, AbortKeeps
    <2>3. s.isauth /\ d = "mine" /\ s.frozen = "frozen"
        BY <1>0, <1>4 DEF ExporterOK, StageOK, Exporter
    <2>4. PICK a : a = <<E, E>>
        OBVIOUS
    <2>5. a \in MdsAuthority /\ a[1] = E /\ a[2] = E
        BY <2>4, Authorities, RanksAssumption DEF E
    <2>6. PICK w : w = [t EXCEPT !.auth = a]
        OBVIOUS
    <2>7. /\ Rest(t, w) /\ w \in RankState /\ w.exp = t.exp /\ w.out = t.out /\ w.frozen = t.frozen
          /\ w.auth = a
        BY <2>2, <2>5, <2>6 DEF Rest, RankState
    <2>8. PICK v : v = UnfreezeTree(w)
        OBVIOUS
    <2>9. Rest(w, v) /\ v.exp = w.exp /\ v.out = w.out /\ v.frozen = "no" /\ v.auth = Sole(E)
        <3>1. w.isauth /\ w.frozen = "frozen" /\ w.auth[1] = E /\ w.auth[2] = E
            BY <2>2, <2>3, <2>5, <2>7 DEF Rest
        <3> QED
            BY <2>7, <2>8, <3>1, Thaws
    <2>10. Rest(s, v) /\ v \in RankState /\ v.exp = t.exp
        BY <2>2, <2>7, <2>9 DEF Rest
    <2>11. Speaks(v, D, FALSE, FALSE)
        BY <2>2, <2>3, <2>7, <2>9, SameOut DEF Rest
    <2>12. Exported(s, IF v.exp.state = "none" THEN MaybeSendPendingResolves(v) ELSE v, D, d)
        BY <1>4, <2>2, <2>3, <2>9, <2>10, <2>11, WarnedCancel
    <2>13. ExportReverse(s) = v
        BY <1>0, <2>1, <2>4, <2>6, <2>8 DEF ExportReverse
    <2> QED
        BY <1>4, <2>12, <2>13 DEF ExportTryCancel
<1> QED
    BY <1>1, <1>2, <1>3, <1>4, ExportedItself DEF ExportTryCancel

-----------------------------------------------------------------------------
(* The stages of an export.                                                *)
Most(s, t) ==
    /\ t \in RankState
    /\ t.me = s.me /\ t.map = s.map /\ t.epoch = s.epoch /\ t.imp = s.imp
    /\ t.amb = s.amb /\ t.other = s.other /\ t.resolved = s.resolved

LEMMA ExportMoves ==
    ASSUME NEW s, NEW D, NEW d, Exporter(s, D, d), NEW t, Most(s, t),
           s.exp.state # "none", t.exp.state # "none", t.exp.peer = D,
           E \notin t.exp.notify, D \notin t.exp.notify,
           \A c \in t.wait : c \in s.wait \/ c.kind \in {"frozen", "flushed"},
           \A i \in 1..Len(t.log) : t.log[i].event \in {"sync", "EExport"},
           StageOK(t, D, d), Onward(s, t), Speaks(t, D, d # "mine", FALSE)
    PROVE  Exported(s, t, D, d)
<1>1. ExporterOK(s, D, d) /\ s.me = E /\ D \in Ranks \cup {NONE} /\ D # E /\ D \in Ranks
    BY DEF Exporter
<1>2. ExporterOK(t, D, d)
    <2>1. t.imp = s.imp /\ t.amb = s.amb /\ t.other = s.other /\ t.map = s.map /\ t.me = s.me
        BY DEF Most
    <2>2. \A c \in t.wait : c.kind \in {"frozen", "flushed"}
        BY <1>1 DEF ExporterOK
    <2>3. Surviving(t)
        BY <1>1, <2>1 DEF ExporterOK, Surviving
    <2>4. t.imp.state = "none" /\ ~t.amb /\ t.other \subseteq {D}
        BY <1>1, <2>1 DEF ExporterOK
    <2> QED
        BY <2>2, <2>3, <2>4 DEF ExporterOK
<1>3. Speaks(t, D, d # "mine", May(t, d # "mine"))
    BY SameOut
<1>4. Frame(s, t)
    BY DEF Most, Frame
<1> QED
    BY <1>1, <1>2, <1>3, <1>4 DEF Exporter, Exported, Most

LEMMA ExpSet ==
    ASSUME NEW s \in RankState, NEW e \in ExportStateT, NEW t, t = [s EXCEPT !.exp = e]
    PROVE  /\ Rest(s, t) /\ t.exp = e /\ t.frozen = s.frozen /\ t.auth = s.auth /\ t.out = s.out
    BY DEF RankState, Rest

LEMMA ExporterIs ==
    ASSUME NEW s, NEW D, NEW d, Exporter(s, D, d)
    PROVE  /\ s \in RankState /\ s.me = E /\ E \in Ranks /\ D # E /\ s.exp \in ExportStateT
           /\ ExporterOK(s, D, d) /\ StageOK(s, D, d)
           /\ s.log \in Seq(LogEntry) /\ s.wait \in SUBSET Context
           /\ s.exp.state # "none" =>
                /\ D \in Ranks /\ s.exp.peer = D /\ Speaks(s, D, d # "mine", FALSE)
                /\ E \notin s.exp.notify /\ D \notin s.exp.notify
<1>1. s.exp.state # "none" => Speaks(s, D, d # "mine", FALSE)
    BY SameOut DEF Exporter, May
<1>2. s \in RankState /\ s.me = E /\ ExporterOK(s, D, d) /\ D # E /\ (s.exp.state # "none" => D \in Ranks)
    BY DEF Exporter
<1> QED
    BY <1>1, <1>2, RankFields DEF ExporterOK

LEMMA DiscoverAckKeeps ==
    ASSUME NEW s, NEW D, NEW d, Exporter(s, D, d), NEW from, NEW m
    PROVE  Exported(s, HandleExportDiscoverAck(s, from, m), D, d)
<1>1. Exported(s, Die(s, "discover_ack: state"), D, d)
    BY ExporterDies, Asserted
<1>2. Exported(s, ExportTryCancel(s, FALSE), D, d)
    BY TryCancelKeeps
<1>3. ASSUME s.exp.state = "discovering"
      PROVE  Exported(s, [s EXCEPT !.exp.state = "freezing"], D, d)
    <2>1. s \in RankState /\ s.exp \in ExportStateT /\ ExporterOK(s, D, d) /\ StageOK(s, D, d)
        BY ExporterIs
    <2>2. PICK e : e = [s.exp EXCEPT !.state = "freezing"]
        OBVIOUS
    <2>3. e \in ExportStateT /\ e.state = "freezing" /\ e.peer = s.exp.peer /\ e.notify = s.exp.notify
        BY <2>1, <2>2 DEF ExportStateT, ExportStates
    <2>4. PICK t : t = [s EXCEPT !.exp = e]
        OBVIOUS
    <2>5. Rest(s, t) /\ t.exp = e /\ t.frozen = s.frozen /\ t.auth = s.auth /\ t.out = s.out
        BY <2>1, <2>3, <2>4, ExpSet
    <2>6. StageOK(t, D, d)
        BY <1>3, <2>1, <2>3, <2>5 DEF StageOK, Rest
    <2>7. Speaks(t, D, d # "mine", FALSE)
        <3>1. Speaks(s, D, d # "mine", FALSE)
            BY <1>3, ExporterIs
        <3> QED
            BY <2>5, <3>1, SameOut DEF Rest
    <2>8. Onward(s, t)
        BY <1>3, <2>3, <2>5 DEF Onward, Early
    <2>9. Most(s, t) /\ t.wait = s.wait /\ t.log = s.log
        BY <2>5 DEF Rest, Most
    <2>10. Exported(s, t, D, d)
        BY <1>3, <2>1, <2>3, <2>5, <2>6, <2>7, <2>8, <2>9, ExportMoves DEF ExporterOK
    <2> QED
        BY <2>2, <2>4, <2>10
<1> QED
    BY <1>1, <1>2, <1>3, ExportedItself DEF HandleExportDiscoverAck

(* The tree is frozen: on the exporter the authority becomes (E, E).       *)
LEMMA FreezeDoneKeeps ==
    ASSUME NEW s, NEW D, NEW d, Exporter(s, D, d), s.exp.state = "freezing", s.frozen = "freezing",
           NEW c, c = [kind |-> "frozen", peer |-> NONE, tid |-> s.exp.tid]
    PROVE  Exported(s, [FreezeTree(s) EXCEPT !.wait = @ \cup {c}], D, d)
<1>1. /\ s \in RankState /\ s.exp \in ExportStateT /\ ExporterOK(s, D, d) /\ StageOK(s, D, d)
      /\ s.wait \in SUBSET Context /\ E \in Ranks
    BY ExporterIs
<1>2. s.isauth /\ s.auth = Sole(E)
    BY <1>1 DEF StageOK
<1>3. PICK a, w : a = <<E, E>> /\ w = s.wait \cup {c}
    OBVIOUS
<1>4. a \in MdsAuthority /\ w \in SUBSET Context
    <2>1. a \in MdsAuthority
        BY <1>1, <1>3, Authorities
    <2>2. s.exp.tid \in Nat
        BY <1>1, ExportFields
    <2>3. c \in Context
        BY <2>2 DEF Context
    <2> QED
        BY <1>1, <1>3, <2>1, <2>3
<1>5. PICK t : t = [s EXCEPT !.frozen = "frozen", !.auth = a, !.wait = w]
    OBVIOUS
<1>6. /\ Most(s, t) /\ t.exp = s.exp /\ t.frozen = "frozen" /\ t.auth = a /\ t.isauth = s.isauth
      /\ t.out = s.out /\ t.wait = w /\ t.log = s.log
    BY <1>1, <1>4, <1>5 DEF RankState, Most
<1>7. [FreezeTree(s) EXCEPT !.wait = @ \cup {c}] = t
    <2>1. FreezeTree(s) = [s EXCEPT !.frozen = "frozen", !.auth = <<s.auth[1], s.auth[1]>>]
        BY <1>2 DEF FreezeTree, Sole
    <2>2. s.auth[1] = E
        BY <1>2 DEF Sole
    <2>3. PICK f : f = [s EXCEPT !.frozen = "frozen", !.auth = a]
        OBVIOUS
    <2>4. FreezeTree(s) = f /\ f.wait = s.wait
        BY <1>1, <1>3, <2>1, <2>2, <2>3 DEF RankState
    <2>5. [f EXCEPT !.wait = @ \cup {c}] = t
        BY <1>1, <1>3, <1>5, <2>3 DEF RankState
    <2> QED
        BY <2>4, <2>5
<1>8. StageOK(t, D, d)
    BY <1>1, <1>2, <1>3, <1>6 DEF StageOK
<1>9. Speaks(t, D, d # "mine", FALSE)
    <2>1. Speaks(s, D, d # "mine", FALSE)
        BY ExporterIs
    <2> QED
        BY <1>6, <2>1, SameOut DEF Most
<1>10. Onward(s, t)
    BY <1>6 DEF Onward
<1>11. \A x \in t.wait : x \in s.wait \/ x.kind \in {"frozen", "flushed"}
    BY <1>3, <1>6
<1>12. Exported(s, t, D, d)
    BY <1>1, <1>6, <1>8, <1>9, <1>10, <1>11, ExportMoves, ExporterIs DEF ExporterOK
<1> QED
    BY <1>7, <1>12

(* A context is done.                                                      *)
LEMMA WaitDone ==
    ASSUME NEW s, NEW D, NEW d, Exporter(s, D, d), NEW w, w \subseteq s.wait,
           NEW t, t = [s EXCEPT !.wait = w]
    PROVE  Exported(s, t, D, d) /\ t.exp = s.exp /\ t.frozen = s.frozen /\ t.auth = s.auth /\ t.out = s.out
<1>1. s \in RankState /\ s.wait \in SUBSET Context
    BY ExporterIs
<1>2. w \in SUBSET Context
    BY <1>1
<1>4. /\ Rest([s EXCEPT !.wait = w], t) /\ t.exp = s.exp /\ t.frozen = s.frozen /\ t.auth = s.auth
      /\ t.out = s.out /\ t.imp = s.imp /\ t.amb = s.amb /\ t.other = s.other /\ t.log = s.log
      /\ t.wait = w /\ t.isauth = s.isauth /\ t.map = s.map /\ t.me = s.me /\ t.epoch = s.epoch
      /\ t.resolved = s.resolved /\ t \in RankState
    BY <1>1, <1>2 DEF RankState, Rest
<1>5. ExporterOK(s, D, d)
    BY DEF Exporter
<1>6. ExporterOK(t, D, d)
    BY <1>4, <1>5 DEF ExporterOK, StageOK, Surviving
<1>7. Speaks(t, D, d # "mine", May(t, d # "mine"))
    BY <1>4, SameOut DEF Exporter, May
<1>8. Frame(s, t) /\ Onward(s, t)
    BY <1>4 DEF Frame, Onward
<1> QED
    BY <1>4, <1>6, <1>7, <1>8 DEF Exported, Exporter

LEMMA ExportFrozenKeeps ==
    ASSUME NEW s, NEW D, NEW d, Exporter(s, D, d), NEW tid \in Nat, NEW locks, NEW caps
    PROVE  Exported(s, ExportFrozen(s, tid, locks, caps), D, d)
<1>2. PICK waiting, flush : /\ waiting = [kind |-> "frozen", peer |-> NONE, tid |-> tid]
                            /\ flush = [kind |-> "flushed", peer |-> NONE, tid |-> tid]
    OBVIOUS
<1>3. flush \in Context /\ flush.kind = "flushed"
    BY <1>2 DEF Context
<1>4. PICK s0 : s0 = [s EXCEPT !.wait = @ \ {waiting}]
    OBVIOUS
<1>5. Exported(s, s0, D, d) /\ s0.exp = s.exp /\ s0.frozen = s.frozen /\ s0.auth = s.auth /\ s0.out = s.out
    <2>1. PICK w : w = s.wait \ {waiting}
        OBVIOUS
    <2>2. w \subseteq s.wait /\ s0 = [s EXCEPT !.wait = w]
        BY <1>4, <2>1
    <2> QED
        BY <2>2, WaitDone
<1>6. Exported(s, Die(s, "export_frozen: frozen, auth (me, me)"), D, d) /\ Exported(s, s, D, d)
    BY ExporterDies, Asserted, ExportedItself
<1>7. Exporter(s0, D, d)
    BY <1>5 DEF Exported
<1>8. /\ s0 \in RankState /\ s0.me = E /\ E \in Ranks /\ D # E /\ s0.exp \in ExportStateT
      /\ ExporterOK(s0, D, d) /\ StageOK(s0, D, d) /\ s.me = E
      /\ s0.log \in Seq(LogEntry) /\ s0.wait \in SUBSET Context
    BY <1>7, ExporterIs
<1>9. ASSUME s.exp.state = "freezing"
      PROVE  /\ D \in Ranks /\ s0.exp.peer = D /\ Speaks(s0, D, d # "mine", FALSE)
             /\ E \notin s0.exp.notify /\ D \notin s0.exp.notify
    BY <1>5, <1>7, <1>9, ExporterIs
<1>10. ASSUME s.exp.state = "freezing"
       PROVE  Exported(s, EndExport(SendMds(UnfreezeTree(s0), s.exp.peer, Msg("Cancel", tid))), D, d)
    <2>1. PICK t : t = UnfreezeTree(s0)
        OBVIOUS
    <2>2. Rest(s0, t) /\ t.exp = s0.exp /\ t.out = s0.out /\ t.frozen = "no" /\ t.auth = Sole(E)
        BY <1>5, <1>8, <1>10, <2>1, Thaws DEF StageOK, Sole
    <2>3. PICK u : u = SendMds(t, D, Msg("Cancel", tid))
        OBVIOUS
    <2>4. Speaks(t, D, d # "mine", FALSE)
        BY <1>9, <1>10, <2>2, SameOut DEF Rest
    <2>5. Alike(t, u) /\ Speaks(u, D, d # "mine", FALSE)
        BY <1>8, <1>9, <1>10, <2>2, <2>3, <2>4, TellsCancel DEF Rest
    <2>6. u \in RankState /\ u.me = E /\ Frame(s0, u)
        BY <1>8, <2>2, <2>5 DEF Alike, Rest, Frame
    <2>7. PICK v : v = [u EXCEPT !.exp = NoExport]
        OBVIOUS
    <2>8. ExporterOK(v, D, d)
        <3>1. /\ v.exp = NoExport /\ v.frozen = "no" /\ v.auth = Sole(E) /\ v.isauth = s0.isauth
              /\ v.imp = s0.imp /\ v.amb = s0.amb /\ v.other = s0.other /\ v.log = s0.log /\ v.wait = s0.wait
            BY <2>2, <2>5, <2>6, <2>7 DEF Alike, Rest, RankState
        <3> QED
            BY <1>5, <1>8, <1>10, <3>1 DEF ExporterOK, StageOK, NoExport, Sole
    <2>9. /\ Exporter(EndExport(u), D, d) /\ EndExport(u).exp = NoExport /\ Frame(u, EndExport(u))
        BY <1>8, <1>9, <1>10, <2>5, <2>6, <2>7, <2>8, EndExportKeeps
    <2>10. Exported(s0, EndExport(u), D, d)
        BY <2>6, <2>9 DEF Exported, Frame, Onward, NoExport, Early
    <2>11. s.exp.peer = D
        BY <1>5, <1>9, <1>10
    <2> QED
        BY <1>5, <2>1, <2>3, <2>10, <2>11, ExportedOnce
<1> DEFINE bystanders == Ranks \ {s.me, s.exp.peer}
<1>11. PICK t : t = SendMds(s0, s.exp.peer, [Msg("Prep", tid) EXCEPT !.byst = bystanders])
    OBVIOUS
<1>12. ASSUME s.exp.state = "freezing"
       PROVE  Alike(s0, t) /\ Speaks(t, D, d # "mine", FALSE)
    <2>1. Msg("Prep", tid) \in Message
        BY MsgType0 DEF MsgType
    <2>2. PICK m : m = [Msg("Prep", tid) EXCEPT !.byst = bystanders]
        OBVIOUS
    <2>3. m \in Message
        BY <2>1, <2>2 DEF Message
    <2>4. s.exp.peer = D
        BY <1>5, <1>9, <1>12
    <2>5. m.type = "Prep" /\ E \notin m.byst /\ D \notin m.byst
        BY <1>8, <2>2, <2>4 DEF Msg
    <2>6. Fit(E, D, m, D, d # "mine", FALSE)
        BY <2>5 DEF Fit, MsgOK, Tame, Claims
    <2>7. t = SendMds(s0, D, m)
        BY <1>11, <2>2, <2>4
    <2>8. D \in Ranks /\ Speaks(s0, D, d # "mine", FALSE)
        BY <1>9, <1>12
    <2>9. Alike(s0, t)
        BY <1>8, <2>3, <2>7, <2>8, SendMdsFits
    <2>10. Speaks(t, D, d # "mine", FALSE)
        <3>1. PICK g, may : g = (d # "mine") /\ may = FALSE
            OBVIOUS
        <3>2. Fit(s0.me, D, m, D, g, may) /\ Speaks(s0, D, g, may)
            BY <1>8, <2>6, <2>8, <3>1
        <3>3. Speaks(t, D, g, may)
            BY <1>8, <2>3, <2>7, <2>8, <3>2, SendMdsFits
        <3> QED
            BY <3>1, <3>3
    <2> QED
        BY <2>9, <2>10
<1>13. ASSUME s.exp.state = "freezing", s.frozen = "frozen", NEW W, NEW w,
              W \in SUBSET (Ranks \cup {NONE}), w \in SUBSET Context,
              \A c \in w : c \in s0.wait \/ c.kind \in {"frozen", "flushed"},
              NEW e, e = [s.exp EXCEPT !.state = "prepping", !.warn = W],
              NEW v, v = [t EXCEPT !.exp = e, !.wait = w]
       PROVE  Exported(s, v, D, d)
    <2>1. /\ e \in ExportStateT /\ e.state = "prepping" /\ e.peer = s.exp.peer /\ e.notify = s.exp.notify
        BY <1>5, <1>8, <1>13 DEF ExportStateT, ExportStates
    <2>2. t \in RankState
        BY <1>12, <1>13 DEF Alike
    <2>3. /\ v \in RankState /\ v.exp = e /\ v.wait = w /\ v.frozen = t.frozen /\ v.auth = t.auth
          /\ v.isauth = t.isauth /\ v.out = t.out /\ v.log = t.log /\ Most(t, v)
        BY <1>13, <2>1, <2>2 DEF RankState, Most
    <2>4. Most(s0, v) /\ v.frozen = s0.frozen /\ v.auth = s0.auth /\ v.isauth = s0.isauth /\ v.log = s0.log
        BY <1>12, <1>13, <2>3 DEF Most, Alike
    <2>5. StageOK(v, D, d)
        BY <1>5, <1>8, <1>13, <2>1, <2>3, <2>4 DEF StageOK, Sole
    <2>6. Speaks(v, D, d # "mine", FALSE)
        BY <1>12, <1>13, <2>3, SameOut DEF Most
    <2>7. Onward(s0, v)
        BY <1>5, <1>13, <2>1, <2>3 DEF Onward, Early
    <2>8. Exported(s0, v, D, d)
        <3>1. /\ s0.exp.state # "none" /\ v.exp.state # "none" /\ v.exp.peer = D
              /\ E \notin v.exp.notify /\ D \notin v.exp.notify
            BY <1>5, <1>9, <1>13, <2>1, <2>3
        <3>2. \A i \in 1..Len(v.log) : v.log[i].event \in {"sync", "EExport"}
            BY <1>8, <2>4 DEF ExporterOK
        <3>3. \A c \in v.wait : c \in s0.wait \/ c.kind \in {"frozen", "flushed"}
            BY <1>13, <2>3
        <3> QED
            BY <1>7, <2>4, <2>5, <2>6, <2>7, <3>1, <3>2, <3>3, ExportMoves
    <2> QED
        BY <1>5, <2>8, ExportedOnce
<1>14. ASSUME s.exp.state = "freezing", s.frozen = "frozen"
       PROVE  /\ Exported(s, [t EXCEPT !.exp.state = "prepping"], D, d)
              /\ Exported(s, [t EXCEPT !.exp.state = "prepping", !.exp.warn = {NONE},
                                       !.wait = @ \cup {flush}], D, d)
    <2>1. t \in RankState /\ t.exp = s.exp /\ t.wait = s0.wait
        BY <1>5, <1>12, <1>14 DEF Alike
    <2>2. PICK e1, e2, w1, w2 :
              /\ e1 = [s.exp EXCEPT !.state = "prepping", !.warn = s.exp.warn]
              /\ e2 = [s.exp EXCEPT !.state = "prepping", !.warn = {NONE}]
              /\ w1 = t.wait /\ w2 = t.wait \cup {flush}
        OBVIOUS
    <2>3. w1 \in SUBSET Context /\ \A c \in w1 : c \in s0.wait \/ c.kind \in {"frozen", "flushed"}
        BY <1>8, <2>1, <2>2
    <2>4. w2 \in SUBSET Context /\ \A c \in w2 : c \in s0.wait \/ c.kind \in {"frozen", "flushed"}
        BY <1>3, <1>8, <2>1, <2>2
    <2>5. s.exp.warn \in SUBSET (Ranks \cup {NONE}) /\ {NONE} \in SUBSET (Ranks \cup {NONE})
        BY <1>5, <1>8, ExportFields
    <2>6. Exported(s, [t EXCEPT !.exp = e1, !.wait = w1], D, d)
        BY <1>13, <1>14, <2>2, <2>3, <2>5
    <2>7. Exported(s, [t EXCEPT !.exp = e2, !.wait = w2], D, d)
        BY <1>13, <1>14, <2>2, <2>4, <2>5
    <2>8. [t EXCEPT !.exp.state = "prepping"] = [t EXCEPT !.exp = e1, !.wait = w1]
        BY <1>5, <1>8, <2>1, <2>2 DEF RankState, ExportStateT
    <2>9. [t EXCEPT !.exp.state = "prepping", !.exp.warn = {NONE}, !.wait = @ \cup {flush}]
            = [t EXCEPT !.exp = e2, !.wait = w2]
        BY <1>5, <1>8, <2>1, <2>2 DEF RankState, ExportStateT
    <2> QED
        BY <2>6, <2>7, <2>8, <2>9
<1> HIDE DEF bystanders
<1> QED
    BY <1>2, <1>4, <1>5, <1>6, <1>10, <1>11, <1>14 DEF ExportFrozen, bystanders

(* An entry is submitted to the journal.                                   *)
LEMMA SubmitIs ==
    ASSUME NEW s \in RankState, NEW event \in LogEvent, NEW tid \in Nat, NEW t, t = Submit(s, event, tid)
    PROVE  /\ Most(s, t) /\ t.exp = s.exp /\ t.frozen = s.frozen /\ t.auth = s.auth /\ t.isauth = s.isauth
           /\ t.out = s.out /\ t.wait = s.wait /\ t.gather = s.gather
           /\ Len(s.log) \in Nat /\ Len(t.log) = Len(s.log) + 1
           /\ t.log[Len(s.log) + 1].event = event
           /\ \A i \in 1..Len(s.log) : t.log[i] = s.log[i]
<1>1. s.log \in Seq(LogEntry)
    BY RankFields
<1>2. PICK x : x = [event |-> event, tid |-> tid]
    OBVIOUS
<1>3. x \in LogEntry /\ x.event = event
    BY <1>2 DEF LogEntry
<1>4. PICK L : L = Append(s.log, x)
    OBVIOUS
<1>5. /\ L \in Seq(LogEntry) /\ Len(L) = Len(s.log) + 1 /\ L[Len(s.log) + 1] = x
      /\ \A i \in 1..Len(s.log) : L[i] = s.log[i]
    BY <1>1, <1>3, <1>4, AppendProperties
<1>6. t = [s EXCEPT !.log = L]
    BY <1>2, <1>4 DEF Submit
<1>7. /\ Most(s, t) /\ t.exp = s.exp /\ t.frozen = s.frozen /\ t.auth = s.auth /\ t.isauth = s.isauth
      /\ t.out = s.out /\ t.wait = s.wait /\ t.gather = s.gather /\ t.log = L
    BY <1>5, <1>6 DEF RankState, Most
<1>8. Len(s.log) \in Nat
    BY <1>1, LenProperties
<1> QED
    BY <1>3, <1>5, <1>7, <1>8

LEMMA GoKeeps ==
    ASSUME NEW s, NEW D, NEW d, Exporter(s, D, d), s.exp.state # "none"
    PROVE  Exported(s, ExportGo(s), D, d)
<1>1. /\ s \in RankState /\ ExporterOK(s, D, d) /\ StageOK(s, D, d) /\ s.exp \in ExportStateT
      /\ Speaks(s, D, d # "mine", FALSE)
    BY ExporterIs
<1>2. s.exp.tid \in Nat
    BY <1>1, ExportFields
<1>3. PICK t : t = Submit(s, "sync", s.exp.tid)
    OBVIOUS
<1>4. /\ Most(s, t) /\ t.exp = s.exp /\ t.frozen = s.frozen /\ t.auth = s.auth /\ t.isauth = s.isauth
      /\ t.out = s.out /\ t.wait = s.wait
      /\ Len(s.log) \in Nat /\ Len(t.log) = Len(s.log) + 1
      /\ t.log[Len(s.log) + 1].event = "sync"
      /\ \A i \in 1..Len(s.log) : t.log[i] = s.log[i]
    BY <1>1, <1>2, <1>3, SubmitIs DEF LogEvent
<1>5. \A i \in 1..Len(t.log) : t.log[i].event \in {"sync", "EExport"}
    <2> TAKE i \in 1..Len(t.log)
    <2>1. i \in 1..Len(s.log) \/ i = Len(s.log) + 1
        BY <1>4
    <2> QED
        BY <1>1, <1>4, <2>1 DEF ExporterOK
<1>6. StageOK(t, D, d)
    BY <1>1, <1>4 DEF StageOK
<1>7. Onward(s, t)
    BY <1>4 DEF Onward
<1>8. Speaks(t, D, d # "mine", FALSE)
    BY <1>1, <1>4, SameOut DEF Most
<1>9. Exported(s, t, D, d)
    BY <1>1, <1>4, <1>5, <1>6, <1>7, <1>8, ExportMoves DEF ExporterOK
<1> QED
    BY <1>3, <1>9 DEF ExportGo

(* Only whom the export waits for changes.                                 *)
LEMMA AnswerKeeps ==
    ASSUME NEW s, NEW D, NEW d, Exporter(s, D, d), NEW e \in ExportStateT, e.state = s.exp.state,
           e.peer = s.exp.peer, e.notify \subseteq s.exp.notify, NEW t, t = [s EXCEPT !.exp = e]
    PROVE  Exported(s, t, D, d) /\ t.exp = e
<1>1. /\ s \in RankState /\ ExporterOK(s, D, d) /\ StageOK(s, D, d) /\ s.exp \in ExportStateT
    BY ExporterIs
<1>2. Rest(s, t) /\ t.exp = e /\ t.frozen = s.frozen /\ t.auth = s.auth /\ t.out = s.out
    BY <1>1, ExpSet
<1>3. Most(s, t) /\ t.wait = s.wait /\ t.log = s.log /\ t.isauth = s.isauth
    BY <1>2 DEF Rest, Most
<1>4. StageOK(t, D, d)
    BY <1>1, <1>2, <1>3 DEF StageOK
<1>5. Onward(s, t)
    BY <1>2 DEF Onward
<1>6. Speaks(t, D, d # "mine", May(t, d # "mine"))
    BY <1>2, SameOut DEF Rest, Exporter, May
<1>7. ExporterOK(t, D, d)
    <2>1. /\ t.imp = s.imp /\ t.amb = s.amb /\ t.other = s.other /\ t.map = s.map /\ t.me = s.me
        BY <1>2 DEF Rest
    <2>2. Surviving(s) <=> Surviving(t)
        BY <2>1 DEF Surviving
    <2> QED
        BY <1>1, <1>2, <1>3, <1>4, <2>1, <2>2 DEF ExporterOK
<1>9. Exported(s, t, D, d)
    BY <1>2, <1>5, <1>6, <1>7 DEF Rest, Exporter, Exported, Frame
<1> QED
    BY <1>2, <1>9

(* The bystanders are told something about E and D.                        *)
LEMMA TellsNotify ==
    ASSUME NEW s \in RankState, NEW D \in Ranks, s.me \in {E, D}, D # E, NEW W, E \notin W, D \notin W,
           NEW m \in Message, m.type = "Notify", m.new[1] \in {E, D},
           NEW gone, NEW may, Speaks(s, D, gone, may)
    PROVE  Alike(s, SendAll(s, W, m)) /\ Speaks(SendAll(s, W, m), D, gone, may)
<1>1. \A q \in Ranks : q \in W => Fit(s.me, q, m, D, gone, may)
    BY RanksAssumption DEF Fit, MsgOK, Tame, Claims
<1> QED
    BY <1>1, SendAllFits

LEMMA PrepAckKeeps ==
    ASSUME NEW s, NEW D, NEW d, Exporter(s, D, d), NEW from \in Ranks, NEW m \in Message
    PROVE  Exported(s, HandleExportPrepAck(s, from, m), D, d)
<1> DEFINE told == {q \in Ranks \ {s.me, from} : MayTell(s, q)}
<1>1. PICK W : W = told
    OBVIOUS
<1>2. PICK w : w = [Msg("Notify", m.tid) EXCEPT !.old = Sole(s.me), !.new = <<s.me, from>>]
    OBVIOUS
<1>3. PICK u : u = SendAll(s, W, w)
    OBVIOUS
<1>4. PICK t : t = [u EXCEPT !.exp.state = "warning", !.exp.warn = @ \cup W, !.exp.notify = W]
    OBVIOUS
<1>5. ASSUME IsExport(s, from, m), s.exp.state = "prepping"
      PROVE  Exported(s, t, D, d) /\ t.exp.state # "none"
    <2>1. /\ s \in RankState /\ s.me = E /\ E \in Ranks /\ D # E /\ s.exp \in ExportStateT
          /\ ExporterOK(s, D, d) /\ StageOK(s, D, d) /\ D \in Ranks /\ s.exp.peer = D
          /\ Speaks(s, D, d # "mine", FALSE) /\ from = D
        BY <1>5, ExporterIs DEF IsExport
    <2>2. W \subseteq Ranks /\ E \notin W /\ D \notin W
        BY <1>1, <2>1
    <2>3. w \in Message /\ w.type = "Notify" /\ w.new[1] = E
        <3>1. PICK a, b : a = Sole(E) /\ b = <<E, D>>
            OBVIOUS
        <3>2. a \in MdsAuthority /\ b \in MdsAuthority /\ b[1] = E
            BY <2>1, <3>1, Authorities
        <3>0. PICK n : n = m.tid /\ n \in Nat
            BY MessageFields
        <3>3. w = [Msg("Notify", n) EXCEPT !.old = a, !.new = b]
            BY <1>2, <2>1, <3>0, <3>1
        <3>4. w \in Message /\ w.type = "Notify" /\ w.new = b
            <4>1. Msg("Notify", n) \in Message
                BY <3>0, MsgType0 DEF MsgType
            <4> QED
                BY <3>2, <3>3, <4>1 DEF Message, Msg
        <3> QED
            BY <3>2, <3>4
    <2>4. Alike(s, u) /\ Speaks(u, D, d # "mine", FALSE)
        BY <1>3, <2>1, <2>2, <2>3, TellsNotify
    <2>5. PICK e : e = [s.exp EXCEPT !.state = "warning", !.warn = @ \cup W, !.notify = W]
        OBVIOUS
    <2>6. e \in ExportStateT /\ e.state = "warning" /\ e.peer = D /\ e.notify = W
        <3>1. PICK V : V = s.exp.warn \cup W
            OBVIOUS
        <3>2. V \in SUBSET (Ranks \cup {NONE})
            BY <2>1, <2>2, <3>1, ExportFields
        <3>3. e = [s.exp EXCEPT !.state = "warning", !.warn = V, !.notify = W]
            BY <2>1, <2>5, <3>1
        <3> QED
            BY <2>1, <2>2, <3>2, <3>3 DEF ExportStateT, ExportStates
    <2>7. u \in RankState /\ u.exp = s.exp
        BY <2>4 DEF Alike
    <2>8. t = [u EXCEPT !.exp = e]
        BY <1>4, <2>1, <2>5, <2>7 DEF ExportStateT
    <2>9. Rest(u, t) /\ t.exp = e /\ t.frozen = u.frozen /\ t.auth = u.auth /\ t.out = u.out
        BY <2>6, <2>7, <2>8, ExpSet
    <2>10. /\ Most(s, t) /\ t.wait = s.wait /\ t.log = s.log /\ t.isauth = s.isauth
           /\ t.frozen = s.frozen /\ t.auth = s.auth
        BY <2>4, <2>9 DEF Alike, Rest, Most
    <2>11. StageOK(t, D, d)
        BY <1>5, <2>1, <2>6, <2>9, <2>10 DEF StageOK
    <2>12. Onward(s, t)
        BY <1>5, <2>6, <2>9 DEF Onward, Early
    <2>13. Speaks(t, D, d # "mine", FALSE)
        BY <2>4, <2>9, SameOut DEF Rest
    <2>14. \A i \in 1..Len(t.log) : t.log[i].event \in {"sync", "EExport"}
        BY <2>1, <2>10 DEF ExporterOK
    <2> QED
        BY <1>5, <2>2, <2>6, <2>9, <2>10, <2>11, <2>12, <2>13, <2>14, ExportMoves
<1>6. ASSUME IsExport(s, from, m), s.exp.state = "prepping"
      PROVE  Exported(s, ExportGo(t), D, d)
    BY <1>5, <1>6, GoKeeps, ExportedOnce DEF Exported
<1>7. /\ Exported(s, Die(s, "prep_ack: state"), D, d) /\ Exported(s, ExportTryCancel(s, FALSE), D, d)
      /\ Exported(s, s, D, d)
    BY ExporterDies, Asserted, TryCancelKeeps, ExportedItself
<1> QED
    BY <1>1, <1>2, <1>3, <1>4, <1>5, <1>6, <1>7 DEF HandleExportPrepAck

LEMMA SessionsFlushedKeeps ==
    ASSUME NEW s, NEW D, NEW d, Exporter(s, D, d), NEW tid
    PROVE  Exported(s, ExportSessionsFlushed(s, tid), D, d)
<1>1. PICK c, w : c = [kind |-> "flushed", peer |-> NONE, tid |-> tid] /\ w = s.wait \ {c}
    OBVIOUS
<1>2. PICK s0 : s0 = [s EXCEPT !.wait = w]
    OBVIOUS
<1>3. Exported(s, s0, D, d) /\ s0.exp = s.exp
    <2>1. w \subseteq s.wait
        BY <1>1
    <2> QED
        BY <1>2, <2>1, WaitDone
<1>4. PICK t : t = [s0 EXCEPT !.exp.warn = @ \ {NONE}]
    OBVIOUS
<1>5. ASSUME s.exp.state # "none"
      PROVE  Exported(s, t, D, d) /\ Exported(s, ExportGo(t), D, d)
    <2>1. Exporter(s0, D, d) /\ s0.exp \in ExportStateT
        BY <1>3, ExporterIs DEF Exported
    <2>2. PICK V : V = s.exp.warn \ {NONE}
        OBVIOUS
    <2>3. V \in SUBSET (Ranks \cup {NONE})
        BY <1>3, <2>1, <2>2, ExportFields
    <2>4. PICK e : e = [s0.exp EXCEPT !.warn = V]
        OBVIOUS
    <2>5. e \in ExportStateT /\ e.state = s0.exp.state /\ e.peer = s0.exp.peer /\ e.notify = s0.exp.notify
        BY <2>1, <2>3, <2>4 DEF ExportStateT
    <2>6. t = [s0 EXCEPT !.exp = e]
        BY <1>3, <1>4, <2>2, <2>4
    <2>7. Exported(s0, t, D, d) /\ t.exp = e
        BY <1>3, <1>5, <2>1, <2>5, <2>6, AnswerKeeps
    <2>8. Exported(t, ExportGo(t), D, d)
        BY <1>3, <1>5, <2>5, <2>7, GoKeeps DEF Exported
    <2> QED
        BY <1>3, <2>7, <2>8, ExportedOnce
<1>6. Exported(s, Die(s, "sessions_flushed: prepping or warning"), D, d)
    BY ExporterDies, Asserted
<1> QED
    BY <1>1, <1>2, <1>3, <1>4, <1>5, <1>6 DEF ExportSessionsFlushed

(* The EExport is safe: the importer and the bystanders are told.          *)
LEMMA TellsFinish ==
    ASSUME NEW s \in RankState, s.me = E, NEW D \in Ranks, D # E, s.exp.peer = D, NEW last \in BOOLEAN,
           NEW may, Speaks(s, D, TRUE, may)
    PROVE  Alike(s, TellFinish(s, last)) /\ Speaks(TellFinish(s, last), D, TRUE, may)
<1>1. s.exp.tid \in Nat
    BY RankFields, ExportFields
<1>2. PICK m : m = [Msg("Finish", s.exp.tid) EXCEPT !.flag = last]
    OBVIOUS
<1>3. m \in Message
    <2>1. Msg("Finish", s.exp.tid) \in Message
        BY <1>1, MsgType0 DEF MsgType
    <2> QED
        BY <1>2, <2>1 DEF Message
<1>4. PICK gone : gone = TRUE
    OBVIOUS
<1>5. Fit(s.me, D, m, D, gone, may)
    BY <1>2, <1>4 DEF Fit, MsgOK, Tame, Claims, Msg
<1>6. Alike(s, SendMds(s, D, m)) /\ Speaks(SendMds(s, D, m), D, gone, may)
    <2>1. Speaks(s, D, gone, may)
        BY <1>4
    <2>2. Alike(s, SendMds(s, D, m))
        BY <1>3, SendMdsFits
    <2>3. Speaks(SendMds(s, D, m), D, gone, may)
        BY <1>3, <1>5, <2>1, SendMdsSpeaks
    <2> QED
        BY <2>2, <2>3
<1>7. TellFinish(s, last) = SendMds(s, D, m) \/ TellFinish(s, last) = s
    BY <1>2 DEF TellFinish
<1>8. Speaks(SendMds(s, D, m), D, TRUE, may)
    BY <1>4, <1>6
<1> QED
    BY <1>6, <1>7, <1>8, AlikeItself

LEMMA ExportFinishKeeps ==
    ASSUME NEW s, NEW D, NEW d, Exporter(s, D, d), s.exp.state = "notifying"
    PROVE  Exported(s, ExportFinish(s), D, d)
<1>1. /\ s \in RankState /\ s.me = E /\ E \in Ranks /\ D # E /\ D \in Ranks /\ s.exp.peer = D
      /\ ExporterOK(s, D, d) /\ d = "none"
      /\ Speaks(s, D, d # "mine", FALSE)
    BY ExporterIs DEF StageOK
<1>2. PICK t : t = TellFinish(s, TRUE)
    OBVIOUS
<1>3. Alike(s, t) /\ Speaks(t, D, TRUE, FALSE)
    BY <1>1, <1>2, TellsFinish
<1>4. PICK a : a = Sole(D)
    OBVIOUS
<1>5. a \in MdsAuthority
    BY <1>1, <1>4, Authorities
<1>6. PICK u : u = [t EXCEPT !.isauth = FALSE, !.auth = a]
    OBVIOUS
<1>7. t \in RankState
    BY <1>3 DEF Alike
<1>8. /\ u \in RankState /\ u.auth = a /\ u.isauth = FALSE /\ u.exp = t.exp /\ u.out = t.out
      /\ Most(t, u) /\ u.wait = t.wait /\ u.log = t.log
    BY <1>5, <1>6, <1>7 DEF RankState, Most
<1>9. PICK v : v = UnfreezeTree(u)
    OBVIOUS
<1>10. Rest(u, v) /\ v.exp = u.exp /\ v.out = u.out /\ v.frozen = "no" /\ v.auth = a
    BY <1>8, <1>9, Thaws
<1>11. /\ Most(s, v) /\ v.wait = s.wait /\ v.log = s.log /\ v.isauth = FALSE /\ v.exp = s.exp
    BY <1>3, <1>8, <1>10 DEF Alike, Rest, Most
<1>12. Speaks(v, D, d # "mine", FALSE)
    <2>1. Speaks(v, D, TRUE, FALSE)
        BY <1>3, <1>8, <1>10, SameOut DEF Rest, Most
    <2> QED
        BY <1>1, <2>1
<1>13. PICK x : x = [v EXCEPT !.exp = NoExport]
    OBVIOUS
<1>14. ExporterOK(x, D, d)
    <2>1. /\ x.exp = NoExport /\ x.frozen = "no" /\ x.auth = a /\ x.isauth = FALSE
          /\ x.imp = s.imp /\ x.amb = s.amb /\ x.other = s.other /\ x.log = s.log /\ x.wait = s.wait
        BY <1>10, <1>11, <1>13 DEF Most, RankState
    <2> QED
        BY <1>1, <1>4, <2>1 DEF ExporterOK, StageOK, NoExport, Sole
<1>15. v \in RankState /\ v.me = E /\ Frame(s, v)
    BY <1>1, <1>11 DEF Most, Frame
<1>16. /\ Exporter(EndExport(v), D, d) /\ EndExport(v).exp = NoExport /\ Frame(v, EndExport(v))
    BY <1>1, <1>12, <1>13, <1>14, <1>15, EndExportKeeps
<1>17. ExportFinish(s) = EndExport(v)
    BY <1>1, <1>2, <1>4, <1>6, <1>9 DEF ExportFinish
<1> QED
    BY <1>15, <1>16, <1>17 DEF Exported, Frame, Onward, NoExport, Early

(* What is said before the EExport is safe can be said after it.           *)
LEMMA SpeaksGone ==
    ASSUME NEW s, NEW D, NEW gone, NEW may, Speaks(s, D, gone, may)
    PROVE  Speaks(s, D, TRUE, may)
    BY DEF Speaks, Fit, MsgOK

(* export_logged_finish: from here on the journal says "none".             *)
LEMMA LoggedFinishKeeps ==
    ASSUME NEW s, NEW D, Exporter(s, D, "mine"), s.exp.state = "loggingfinish"
    PROVE  /\ Exporter(ExportLoggedFinish(s), D, "none") /\ Frame(s, ExportLoggedFinish(s))
           /\ ExportLoggedFinish(s).exp.state \in {"none", "notifying"}
<1>1. /\ s \in RankState /\ s.me = E /\ E \in Ranks /\ D # E /\ D \in Ranks /\ s.exp.peer = D
      /\ ExporterOK(s, D, "mine") /\ s.exp \in ExportStateT /\ StageOK(s, D, "mine")
      /\ E \notin s.exp.notify /\ D \notin s.exp.notify
    BY ExporterIs
<1>2. PICK m : m = [Msg("Notify", s.exp.tid) EXCEPT !.old = <<s.me, s.exp.peer>>, !.new = Sole(s.exp.peer)]
    OBVIOUS
<1>3. m \in Message /\ m.type = "Notify" /\ m.new[1] = D
    <2>1. PICK a, b : a = <<E, D>> /\ b = Sole(D)
        OBVIOUS
    <2>2. a \in MdsAuthority /\ b \in MdsAuthority /\ b[1] = D
        BY <1>1, <2>1, Authorities DEF Sole
    <2>0. PICK n : n = s.exp.tid /\ n \in Nat
        BY <1>1, ExportFields
    <2>3. m = [Msg("Notify", n) EXCEPT !.old = a, !.new = b]
        BY <1>1, <1>2, <2>0, <2>1
    <2>4. m \in Message /\ m.type = "Notify" /\ m.new = b
        <3>1. Msg("Notify", n) \in Message
            BY <2>0, MsgType0 DEF MsgType
        <3> QED
            BY <2>2, <2>3, <3>1 DEF Message, Msg
    <2> QED
        BY <2>2, <2>4
<1>4. Speaks(s, D, TRUE, FALSE)
    <2>1. Speaks(s, D, "mine" # "mine", FALSE)
        BY ExporterIs
    <2> QED
        BY <2>1, SpeaksGone
<1>5. PICK u : u = SendAll(s, s.exp.notify, m)
    OBVIOUS
<1>6. Alike(s, u) /\ Speaks(u, D, TRUE, FALSE)
    BY <1>1, <1>3, <1>4, <1>5, TellsNotify
<1>7. PICK e : e = [s.exp EXCEPT !.state = "notifying"]
    OBVIOUS
<1>8. e \in ExportStateT /\ e.state = "notifying" /\ e.peer = D /\ e.notify = s.exp.notify
    BY <1>1, <1>7 DEF ExportStateT, ExportStates
<1>9. PICK t : t = [u EXCEPT !.exp = e]
    OBVIOUS
<1>10. u \in RankState /\ u.exp = s.exp
    BY <1>6 DEF Alike
<1>11. Rest(u, t) /\ t.exp = e /\ t.frozen = u.frozen /\ t.auth = u.auth /\ t.out = u.out
    BY <1>8, <1>9, <1>10, ExpSet
<1>12. [u EXCEPT !.exp.state = "notifying"] = t
    BY <1>7, <1>9, <1>10
<1>13. /\ t \in RankState /\ t.me = E /\ Frame(s, t) /\ t.frozen = s.frozen /\ t.auth = s.auth
       /\ t.imp = s.imp /\ t.amb = s.amb /\ t.other = s.other /\ t.log = s.log /\ t.wait = s.wait
       /\ t.map = s.map /\ t.isauth = s.isauth
    BY <1>1, <1>6, <1>11 DEF Alike, Rest, Frame
<1>14. ExporterOK(t, D, "none")
    <2>1. StageOK(t, D, "none")
        BY <1>1, <1>8, <1>11, <1>13 DEF StageOK
    <2>2. Surviving(t)
        BY <1>1, <1>13 DEF ExporterOK, Surviving
    <2> QED
        BY <1>1, <1>8, <1>11, <1>13, <2>1, <2>2 DEF ExporterOK
<1>15. Speaks(t, D, TRUE, FALSE)
    BY <1>6, <1>11, SameOut DEF Rest
<1>16. Exporter(t, D, "none")
    <2>1. Speaks(t, D, "none" # "mine", May(t, "none" # "mine"))
        BY <1>15, SameOut
    <2> QED
        BY <1>1, <1>13, <1>14, <2>1 DEF Exporter
<1>17. CASE s.exp.notify = {}
    <2>1. ExportLoggedFinish(s) = ExportFinish(t)
        BY <1>2, <1>5, <1>8, <1>11, <1>12, <1>17 DEF ExportLoggedFinish
    <2>2. Exported(t, ExportFinish(t), D, "none")
        BY <1>8, <1>11, <1>16, ExportFinishKeeps
    <2>3. ExportFinish(t).exp.state \in {"none", "notifying"}
        <3>1. Onward(t, ExportFinish(t)) /\ StageOK(ExportFinish(t), D, "none")
            BY <2>2, ExporterIs DEF Exported
        <3>2. ExportFinish(t).exp.state \in ExportStates
            BY <2>2, ExporterIs, ExportFields DEF Exported
        <3> QED
            BY <3>1, <3>2 DEF StageOK, ExportStates
    <2> QED
        BY <1>13, <2>1, <2>2, <2>3 DEF Exported, Frame
<1>18. CASE s.exp.notify # {}
    <2>1. ExportLoggedFinish(s) = TellFinish(t, FALSE)
        BY <1>2, <1>5, <1>8, <1>11, <1>12, <1>18 DEF ExportLoggedFinish
    <2>2. Alike(t, TellFinish(t, FALSE)) /\ Speaks(TellFinish(t, FALSE), D, TRUE, FALSE)
        BY <1>1, <1>8, <1>11, <1>13, <1>15, TellsFinish
    <2>3. Exported(t, TellFinish(t, FALSE), D, "none")
        <3>1. Speaks(TellFinish(t, FALSE), D, "none" # "mine", May(t, "none" # "mine"))
            BY <2>2, SameOut
        <3> QED
            BY <1>16, <2>2, <3>1, ExporterAlike
    <2>4. TellFinish(t, FALSE).exp.state = "notifying"
        BY <1>8, <1>11, <2>2 DEF Alike
    <2> QED
        BY <1>13, <2>1, <2>3, <2>4 DEF Exported, Frame
<1> QED
    BY <1>17, <1>18

(* An export that has nothing frozen ends.                                 *)
LEMMA ThawedEnds ==
    ASSUME NEW s, NEW D, NEW d, Exporter(s, D, d), s.exp.state \in {"locking", "cancelling"}
    PROVE  Exported(s, EndExport(s), D, d)
<1>1. /\ s \in RankState /\ s.me = E /\ D # E /\ D \in Ranks
      /\ ExporterOK(s, D, d) /\ Speaks(s, D, d # "mine", FALSE)
    BY ExporterIs
<1>2. PICK t : t = [s EXCEPT !.exp = NoExport]
    OBVIOUS
<1>3. ExporterOK(t, D, d)
    <2>1. /\ t.exp = NoExport /\ t.frozen = s.frozen /\ t.auth = s.auth /\ t.isauth = s.isauth
          /\ t.imp = s.imp /\ t.amb = s.amb /\ t.other = s.other /\ t.log = s.log /\ t.wait = s.wait
        BY <1>1, <1>2 DEF RankState
    <2> QED
        BY <1>1, <2>1 DEF ExporterOK, StageOK, NoExport, Sole
<1>4. Exporter(EndExport(s), D, d) /\ EndExport(s).exp = NoExport /\ Frame(s, EndExport(s))
    BY <1>1, <1>2, <1>3, EndExportKeeps
<1> QED
    BY <1>4 DEF Exported, Onward, NoExport, Early

(* Fewer ranks are waited for.                                             *)
LEMMA FewerWaitedFor ==
    ASSUME NEW s, NEW D, NEW d, Exporter(s, D, d),
           NEW W \in SUBSET (Ranks \cup {NONE}), NEW V \in SUBSET Ranks, V \subseteq s.exp.notify
    PROVE  /\ Exported(s, [s EXCEPT !.exp.warn = W], D, d)
           /\ [s EXCEPT !.exp.warn = W].exp.state = s.exp.state
           /\ [s EXCEPT !.exp.warn = W].exp.notify = s.exp.notify
           /\ Exported(s, [s EXCEPT !.exp.notify = V], D, d)
           /\ [s EXCEPT !.exp.notify = V].exp.state = s.exp.state
           /\ [s EXCEPT !.exp.notify = V].exp.notify = V
<1>1. s \in RankState /\ s.exp \in ExportStateT
    BY ExporterIs
<1>3. PICK e, f : /\ e = [s.exp EXCEPT !.warn = W] /\ f = [s.exp EXCEPT !.notify = V]
    OBVIOUS
<1>4. /\ e \in ExportStateT /\ e.state = s.exp.state /\ e.peer = s.exp.peer /\ e.notify = s.exp.notify
      /\ f \in ExportStateT /\ f.state = s.exp.state /\ f.peer = s.exp.peer /\ f.notify = V
    BY <1>1, <1>3 DEF ExportStateT
<1>5. PICK a, b : a = [s EXCEPT !.exp = e] /\ b = [s EXCEPT !.exp = f]
    OBVIOUS
<1>6. Exported(s, a, D, d) /\ a.exp = e
    BY <1>4, <1>5, AnswerKeeps
<1>7. Exported(s, b, D, d) /\ b.exp = f
    BY <1>4, <1>5, AnswerKeeps
<1>9. /\ a = [s EXCEPT !.exp.warn = W] /\ b = [s EXCEPT !.exp.notify = V]
    BY <1>1, <1>3, <1>5 DEF RankState
<1> HIDE <1>3, <1>5
<1> QED
    BY <1>4, <1>6, <1>7, <1>9

LEMMA ExportedOn ==
    ASSUME NEW s, NEW t, NEW D, NEW d, Exported(s, t, D, d)
    PROVE  /\ t.exp.state # "none" => Exported(s, ExportGo(t), D, d)
           /\ t.exp.state = "notifying" => Exported(s, ExportFinish(t), D, d)
           /\ t.exp.state \in {"locking", "cancelling"} => Exported(s, EndExport(t), D, d)
<1>1. Exporter(t, D, d)
    BY DEF Exported
<1>2. t.exp.state # "none" => Exported(s, ExportGo(t), D, d)
    BY <1>1, GoKeeps, ExportedOnce
<1>3. t.exp.state = "notifying" => Exported(s, ExportFinish(t), D, d)
    BY <1>1, ExportFinishKeeps, ExportedOnce
<1>4. t.exp.state \in {"locking", "cancelling"} => Exported(s, EndExport(t), D, d)
    BY <1>1, ThawedEnds, ExportedOnce
<1> QED
    BY <1>2, <1>3, <1>4

LEMMA ExporterNotifyAck ==
    ASSUME NEW s, NEW D, NEW d, Exporter(s, D, d), NEW from, NEW m
    PROVE  Exported(s, HandleExportNotifyAck(s, from, m), D, d)
<1>1. s \in RankState /\ s.exp \in ExportStateT /\ s.imp.state = "none" /\ s.exp.state \in ExportStates
    BY ExporterIs, ExportFields DEF ExporterOK
<1>2. PICK W, N : W = s.exp.warn \ {from} /\ N = s.exp.notify \ {from}
    OBVIOUS
<1>3. W \in SUBSET (Ranks \cup {NONE}) /\ N \subseteq s.exp.notify /\ N \in SUBSET Ranks
    BY <1>1, <1>2, ExportFields
<1>4. PICK w, n : w = [s EXCEPT !.exp.warn = W] /\ n = [s EXCEPT !.exp.notify = N]
    OBVIOUS
<1>5. s.exp.state # "none" => /\ Exported(s, w, D, d) /\ w.exp.state = s.exp.state
                              /\ Exported(s, n, D, d) /\ n.exp.state = s.exp.state
    BY <1>3, <1>4, FewerWaitedFor
<1>6. s.exp.state = "warning" => Exported(s, ExportGo(w), D, d)
    BY <1>5, ExportedOn
<1>7. s.exp.state = "notifying" => Exported(s, ExportFinish(n), D, d)
    BY <1>5, ExportedOn
<1>8. s.exp.state = "cancelling" => Exported(s, EndExport(n), D, d)
    BY <1>5, ExportedOn
<1>9. Exported(s, s, D, d)
    BY ExportedItself
<1>10. /\ w = [s EXCEPT !.exp.warn = @ \ {from}]
       /\ n = [s EXCEPT !.exp.notify = @ \ {from}]
    BY <1>1, <1>2, <1>4 DEF RankState
<1> HIDE <1>2, <1>4
<1> QED
    BY <1>1, <1>5, <1>6, <1>7, <1>8, <1>9, <1>10 DEF HandleExportNotifyAck

LEMMA ExportPeerFailureKeeps ==
    ASSUME NEW s, NEW D, NEW d, Exporter(s, D, d), NEW who
    PROVE  Exported(s, ExportPeerFailure(s, who), D, d)
<1>1. s \in RankState /\ s.exp \in ExportStateT
    BY ExporterIs
<1>2. PICK W, V, N :
          /\ W = s.exp.warn \ {who}
          /\ V = IF who \in s.exp.warn /\ s.exp.state = "warning" THEN s.exp.notify \ {who}
                 ELSE s.exp.notify
          /\ N = V \ {who}
    OBVIOUS
<1>3. /\ W \in SUBSET (Ranks \cup {NONE}) /\ V \subseteq s.exp.notify /\ N \subseteq V
      /\ V \in SUBSET Ranks /\ N \in SUBSET Ranks
    BY <1>1, <1>2, ExportFields
<1>4. PICK w : w = [s EXCEPT !.exp.warn = W, !.exp.notify = V]
    OBVIOUS
<1>5. Exported(s, w, D, d) /\ w.exp.state = s.exp.state
    <2>1. PICK x : x = [s EXCEPT !.exp.warn = W]
        OBVIOUS
    <2>2. Exported(s, x, D, d) /\ x.exp.state = s.exp.state /\ x.exp.notify = s.exp.notify
        BY <1>3, <2>1, FewerWaitedFor
    <2>3. PICK y : y = [x EXCEPT !.exp.notify = V]
        OBVIOUS
    <2>4. Exported(x, y, D, d) /\ y.exp.state = x.exp.state
        BY <1>3, <2>2, <2>3, FewerWaitedFor DEF Exported
    <2>5. y = w
        BY <1>1, <1>4, <2>1, <2>3 DEF RankState, ExportStateT
    <2> QED
        BY <2>2, <2>4, <2>5, ExportedOnce
<1>6. w.exp.notify = V
    BY <1>1, <1>4 DEF RankState, ExportStateT
<1>7. PICK n : n = [w EXCEPT !.exp.notify = N]
    OBVIOUS
<1>8. Exported(s, n, D, d) /\ n.exp.state = s.exp.state
    <2>1. Exporter(w, D, d) /\ N \subseteq w.exp.notify
        BY <1>3, <1>5, <1>6 DEF Exported
    <2>2. /\ Exported(w, [w EXCEPT !.exp.notify = N], D, d)
          /\ [w EXCEPT !.exp.notify = N].exp.state = w.exp.state
        BY <1>3, <2>1, FewerWaitedFor
    <2>3. Exported(w, n, D, d) /\ n.exp.state = w.exp.state
        BY <1>7, <2>2
    <2> QED
        BY <1>5, <2>3, ExportedOnce
<1>9. Exported(s, s, D, d) /\ Exported(s, ExportTryCancel(s, TRUE), D, d)
    BY ExportedItself, TryCancelKeeps
<1>10. s.exp.state = "warning" => Exported(s, ExportGo(w), D, d)
    BY <1>5, ExportedOn
<1>11. s.exp.state = "notifying" => Exported(s, ExportFinish(n), D, d)
    BY <1>8, ExportedOn
<1>12. s.exp.state = "cancelling" => Exported(s, EndExport(n), D, d)
    BY <1>8, ExportedOn
<1>13. w = [s EXCEPT !.exp.warn = @ \ {who},
                     !.exp.notify = IF who \in s.exp.warn /\ s.exp.state = "warning"
                                    THEN @ \ {who} ELSE @]
    BY <1>1, <1>2, <1>4 DEF RankState
<1>14. n = [w EXCEPT !.exp.notify = @ \ {who}]
    BY <1>2, <1>6, <1>7 DEF RankState
<1> HIDE <1>2, <1>4, <1>7
<1> QED
    BY <1>5, <1>8, <1>9, <1>10, <1>11, <1>12, <1>13, <1>14 DEF ExportPeerFailure

LEMMA BystExporter ==
    ASSUME NEW s, NEW D, NEW d, Exporter(s, D, d), NEW i \in ImportStateT, i.state = "none",
           NEW t, t = [s EXCEPT !.imp = i]
    PROVE  Exported(s, t, D, d)
<1>1. s \in RankState
    BY ExporterIs
<1>5. /\ t \in RankState /\ t.me = s.me /\ t.map = s.map /\ t.epoch = s.epoch /\ t.exp = s.exp
      /\ t.imp = i /\ t.auth = s.auth /\ t.isauth = s.isauth /\ t.frozen = s.frozen
      /\ t.wait = s.wait /\ t.log = s.log /\ t.amb = s.amb /\ t.other = s.other
      /\ t.resolved = s.resolved /\ t.out = s.out
    BY <1>1 DEF RankState
<1>6. ExporterOK(s, D, d)
    BY DEF Exporter
<1>7. ExporterOK(t, D, d)
    BY <1>5, <1>6 DEF ExporterOK, StageOK, Surviving
<1>8. Speaks(t, D, d # "mine", May(t, d # "mine"))
    BY <1>5, SameOut DEF Exporter, May
<1> QED
    BY <1>5, <1>7, <1>8 DEF Exporter, Exported, Frame, Onward

(* The loop over the imports finds none.                                   *)
LEMMA ExporterFailure ==
    ASSUME NEW s, NEW D, NEW d, Exporter(s, D, d), NEW who \in Ranks
    PROVE  Exported(s, HandleMdsFailure(s, who), D, d)
<1>1. s \in RankState /\ s.gather \in SUBSET Ranks
    BY ExporterIs, RankFields
<1>2. PICK g : g = s.gather \cup {who}
    OBVIOUS
<1>3. g \in SUBSET Ranks
    BY <1>1, <1>2
<1>4. PICK t : t = [s EXCEPT !.gather = g]
    OBVIOUS
<1>5. /\ t \in RankState /\ t.me = s.me /\ t.map = s.map /\ t.epoch = s.epoch /\ t.exp = s.exp
      /\ t.imp = s.imp /\ t.auth = s.auth /\ t.isauth = s.isauth /\ t.frozen = s.frozen
      /\ t.wait = s.wait /\ t.log = s.log /\ t.amb = s.amb /\ t.other = s.other
      /\ t.resolved = s.resolved /\ t.out = s.out
    BY <1>1, <1>3, <1>4 DEF RankState
<1>6. Exported(s, t, D, d)
    <2>1. ExporterOK(s, D, d)
        BY DEF Exporter
    <2>2. ExporterOK(t, D, d)
        BY <1>5, <2>1 DEF ExporterOK, StageOK, Surviving
    <2>3. Speaks(t, D, d # "mine", May(t, d # "mine"))
        BY <1>5, SameOut DEF Exporter, May
    <2> QED
        BY <1>5, <2>2, <2>3 DEF Exporter, Exported, Frame, Onward
<1>7. PICK u : u = ExportPeerFailure(t, who)
    OBVIOUS
<1>8. Exported(s, u, D, d)
    BY <1>6, <1>7, ExportPeerFailureKeeps, ExportedOnce DEF Exported
<1>9. Exported(u, ImportPeerFailure(u, who), D, d)
    <2>1. Exporter(u, D, d) /\ u \in RankState /\ u.imp.state = "none" /\ u.imp \in ImportStateT
        BY <1>8, ExporterIs, RankFields DEF Exported, ExporterOK
    <2>2. PICK B : B = u.imp.byst \ {who}
        OBVIOUS
    <2>3. PICK i : i = [u.imp EXCEPT !.byst = B]
        OBVIOUS
    <2>4. i \in ImportStateT /\ i.state = "none"
        BY <2>1, <2>2, <2>3 DEF ImportStateT
    <2>5. PICK x : x = [u EXCEPT !.imp = i]
        OBVIOUS
    <2>6. Exported(u, x, D, d)
        BY <2>1, <2>4, <2>5, BystExporter
    <2>7. x = [u EXCEPT !.imp.byst = @ \ {who}]
        BY <2>1, <2>2, <2>3, <2>5 DEF RankState
    <2>8. Exported(u, u, D, d)
        BY <2>1, ExportedItself
    <2> HIDE <2>2, <2>3, <2>5
    <2> QED
        BY <2>1, <2>6, <2>7, <2>8 DEF ImportPeerFailure
<1>11. HandleMdsFailure(s, who) = ImportPeerFailure(u, who)
    BY <1>2, <1>4, <1>7 DEF HandleMdsFailure, HandleMdsFailureOrStop
<1> QED
    BY <1>8, <1>9, <1>11, ExportedOnce

-----------------------------------------------------------------------------
(* The importer: what its handlers keep.  The conditions on Clean,         *)
(* Untouched and Bound are what the messages of the exporter rely on.      *)
Holds(s, d, t, e, settled) ==
    /\ Clean(s, d) => Clean(t, e)
    /\ Untouched(s, d) => Untouched(t, e)
    /\ Bound(s, d) => Bound(t, e) \/ settled
Importing(s, D, d, gone, settled) ==
    /\ s \in RankState /\ s.me = D /\ D \in Ranks /\ D # E /\ gone \in BOOLEAN
    /\ ImporterOK(s, D, d, gone, settled) /\ Speaks(s, D, gone, FALSE)
Imported(s, t, D, d, gone, settled) ==
    Importing(t, D, d, gone, settled) /\ Frame(s, t) /\ Holds(s, d, t, d, settled)

LEMMA ImporterIs ==
    ASSUME NEW s, NEW D, NEW d, NEW gone, NEW settled, Importing(s, D, d, gone, settled)
    PROVE  /\ s \in RankState /\ s.me = D /\ D \in Ranks /\ E \in Ranks /\ D # E /\ gone \in BOOLEAN
           /\ s.imp \in ImportStateT /\ s.imp.state \in ImportStates /\ s.imp.tid \in Nat
           /\ s.imp.byst \in SUBSET Ranks
           /\ s.exp.state = "none" /\ s.other = {} /\ s.amb \in BOOLEAN /\ s.isauth \in BOOLEAN
           /\ s.log \in Seq(LogEntry) /\ s.wait \in SUBSET Context /\ s.auth \in MdsAuthority
           /\ ImporterOK(s, D, d, gone, settled) /\ Speaks(s, D, gone, FALSE)
           /\ s.imp.state # "none" =>
                Surviving(s) /\ s.imp.peer = E /\ E \notin s.imp.byst /\ D \notin s.imp.byst
<1>1. /\ s \in RankState /\ s.me = D /\ D \in Ranks /\ D # E /\ gone \in BOOLEAN
      /\ ImporterOK(s, D, d, gone, settled) /\ Speaks(s, D, gone, FALSE)
    BY DEF Importing
<1>2. s.amb \in BOOLEAN /\ s.isauth \in BOOLEAN
    BY <1>1 DEF RankState
<1>3. E \in Ranks
    BY RanksAssumption DEF E
<1>4. s.exp.state = "none" /\ s.other = {}
    BY <1>1 DEF ImporterOK
<1>5. s.imp.state # "none" =>
         Surviving(s) /\ s.imp.peer = E /\ E \notin s.imp.byst /\ D \notin s.imp.byst
    BY <1>1 DEF ImporterOK
<1> QED
    BY <1>1, <1>2, <1>3, <1>4, <1>5, RankFields, ImportFields

LEMMA HoldsSame ==
    ASSUME NEW s, NEW d, NEW t, NEW settled, t.log = s.log, t.imp.state = s.imp.state, t.amb = s.amb
    PROVE  Holds(s, d, t, d, settled)
    BY DEF Holds, Clean, Untouched, Bound

LEMMA ImportedOnce ==
    ASSUME NEW s, NEW t, NEW u, NEW D, NEW d, NEW gone, NEW settled,
           Imported(s, t, D, d, gone, settled), Imported(t, u, D, d, gone, settled)
    PROVE  Imported(s, u, D, d, gone, settled)
    BY DEF Imported, Frame, Holds

LEMMA ImportedItself ==
    ASSUME NEW s, NEW D, NEW d, NEW gone, NEW settled, Importing(s, D, d, gone, settled)
    PROVE  Imported(s, s, D, d, gone, settled)
    BY DEF Imported, Frame, Holds

LEMMA ImporterAlike ==
    ASSUME NEW s, NEW t, NEW D, NEW d, NEW gone, NEW settled, Importing(s, D, d, gone, settled),
           Alike(s, t), Speaks(t, D, gone, FALSE)
    PROVE  Imported(s, t, D, d, gone, settled)
<1>1. ImporterOK(t, D, d, gone, settled)
    BY AlikeRank DEF Importing
<1>2. Holds(s, d, t, d, settled)
    BY HoldsSame DEF Alike
<1> QED
    BY <1>1, <1>2, AlikeOnward DEF Importing, Imported, Alike

LEMMA ImporterDies ==
    ASSUME NEW s, NEW D, NEW d, NEW gone, NEW settled, Importing(s, D, d, gone, settled),
           NEW w \in Assertions
    PROVE  Imported(s, Die(s, w), D, d, gone, settled)
<1>1. Alike(s, Die(s, w)) /\ Die(s, w).out = s.out
    BY DieAlike DEF Importing
<1>2. Speaks(Die(s, w), D, gone, FALSE)
    BY <1>1, SameOut DEF Importing, Alike
<1> QED
    BY <1>1, <1>2, ImporterAlike

LEMMA SpeaksElse ==
    ASSUME NEW s, s.me # E, NEW D, NEW gone, NEW may, NEW may2, Speaks(s, D, gone, may)
    PROVE  Speaks(s, D, gone, may2)
    BY DEF Speaks, Fit

LEMMA ImporterPends ==
    ASSUME NEW s, NEW D, NEW d, NEW gone, NEW settled, Importing(s, D, d, gone, settled)
    PROVE  /\ Imported(s, MaybeSendPendingResolves(s), D, d, gone, settled)
           /\ Imported(s, SendSubtreeResolves(s), D, d, gone, settled)
           /\ Alike(s, MaybeSendPendingResolves(s)) /\ Alike(s, SendSubtreeResolves(s))
<1>1. RankOK(s, D, d, gone, settled) /\ Parties(s, D, d, gone) /\ s \in RankState /\ s.me # E
    BY DEF Importing, RankOK, Parties
<1>2. PICK may : may = May(s, gone)
    OBVIOUS
<1>3. Speaks(s, D, gone, may)
    BY <1>1, SpeaksElse DEF Importing
<1>4. /\ Alike(s, MaybeSendPendingResolves(s)) /\ Speaks(MaybeSendPendingResolves(s), D, gone, may)
      /\ Alike(s, SendSubtreeResolves(s)) /\ Speaks(SendSubtreeResolves(s), D, gone, may)
    BY <1>1, <1>2, <1>3, PendingFits, SendResolvesFits
<1>5. MaybeSendPendingResolves(s).me # E /\ SendSubtreeResolves(s).me # E
    BY <1>1, <1>4 DEF Alike
<1>6. Speaks(MaybeSendPendingResolves(s), D, gone, FALSE) /\ Speaks(SendSubtreeResolves(s), D, gone, FALSE)
    BY <1>4, <1>5, SpeaksElse
<1> QED
    BY <1>4, <1>6, ImporterAlike

-----------------------------------------------------------------------------
(* The import ends before anything of it is in the journal, or after it    *)
(* has been reversed there.                                                *)
Ended(s, u, D) ==
    /\ u \in RankState
    /\ u.me = s.me /\ u.map = s.map /\ u.epoch = s.epoch /\ u.exp = s.exp /\ u.imp = NoImport
    /\ u.isauth = s.isauth /\ u.wait = s.wait /\ u.log = s.log /\ u.amb = s.amb
    /\ u.other = s.other /\ u.gather = s.gather /\ u.resolved = s.resolved
    /\ u.auth = s.auth \/ u.auth[1] # D

LEMMA ImportEnds ==
    ASSUME NEW s, NEW D, NEW d, NEW gone, NEW settled, Importing(s, D, d, gone, settled),
           s.imp.state \in Begun \cup {"aborting"}, NEW u, Ended(s, u, D), u.out = s.out
    PROVE  Imported(s, u, D, d, gone, settled)
<1>1. ImporterOK(s, D, d, gone, settled) /\ s.imp.state \in Begun \cup {"aborting"}
    BY DEF Importing
<1>2. u.imp.state = "none"
    BY DEF Ended, NoImport
<1>3. s.amb => gone /\ Surviving(s)
    BY <1>1 DEF ImporterOK, Undecided, Begun
<1>4. Surviving(s) => Surviving(u)
    BY DEF Ended, Surviving
<1>5. (u.isauth => gone) /\ (u.auth[1] = D /\ ~u.amb => gone)
    BY <1>1 DEF Ended, ImporterOK, Late, Begun
<1>6. JournalOK(u, d, gone)
    <2>1. JournalOK(s, d, gone) /\ (s.imp.state \in Begun => d = "none" /\ s.log = <<>>)
        BY <1>1 DEF ImporterOK
    <2>2. u.log = s.log /\ s.imp.state \notin {"loggingstart", "none"}
        BY <1>1 DEF Ended, Begun
    <2> QED
        BY <1>1, <1>2, <2>1, <2>2 DEF JournalOK
<1>7. ImporterOK(u, D, d, gone, settled)
    BY <1>1, <1>2, <1>3, <1>4, <1>5, <1>6 DEF Ended, ImporterOK, Late, Begun
<1>8. Speaks(u, D, gone, FALSE)
    BY SameOut DEF Importing, Ended
<1>9. Holds(s, d, u, d, settled)
    BY <1>1 DEF Holds, Clean, Untouched, Bound, Begun, Ended
<1> QED
    BY <1>7, <1>8, <1>9 DEF Imported, Importing, Frame, Ended

LEMMA ReverseFinalKeeps ==
    ASSUME NEW s, NEW D, NEW d, NEW gone, NEW settled, Importing(s, D, d, gone, settled),
           s.imp.state \in Begun \cup {"aborting"}
    PROVE  /\ Imported(s, [s EXCEPT !.imp = NoImport], D, d, gone, settled)
           /\ Imported(s, ImportReverseFinal(s), D, d, gone, settled)
<1>1. PICK u : u = [s EXCEPT !.imp = NoImport]
    OBVIOUS
<1>2. s \in RankState
    BY ImporterIs
<1>3. Ended(s, u, D) /\ u.out = s.out
    BY <1>1, <1>2, NothingThere DEF RankState, Ended
<1>4. Imported(s, u, D, d, gone, settled)
    BY <1>3, ImportEnds
<1>5. Imported(u, MaybeSendPendingResolves(u), D, d, gone, settled)
    BY <1>4, ImporterPends DEF Imported
<1>6. Imported(s, MaybeSendPendingResolves(u), D, d, gone, settled)
    BY <1>4, <1>5, ImportedOnce
<1> QED
    BY <1>1, <1>4, <1>6 DEF ImportReverseFinal

(* The same with the tree thawed and, from prepped, the authority given    *)
(* back: t is s before that.                                               *)
LEMMA ReverseUnfreezeKeeps ==
    ASSUME NEW s, NEW D, NEW d, NEW gone, NEW settled, Importing(s, D, d, gone, settled),
           s.imp.state \in Begun \cup {"aborting"}, NEW a \in MdsAuthority, a = s.auth \/ a[1] # D,
           NEW t, t = [s EXCEPT !.auth = a]
    PROVE  Imported(s, ImportReverseUnfreeze(t), D, d, gone, settled)
<1>1. s \in RankState
    BY ImporterIs
<1>2. /\ t \in RankState /\ t.auth = a /\ t.out = s.out /\ t.exp = s.exp /\ t.frozen = s.frozen /\ t.imp = s.imp
      /\ Rest(s, t)
    BY <1>1 DEF RankState, Rest
<1>3. CASE s.isauth
    <2>1. ImportReverseUnfreeze(t) = Die(t, "import_reverse_unfreeze: !is_auth")
        BY <1>2, <1>3 DEF ImportReverseUnfreeze, Rest
    <2>2. PICK v : v = Die(t, "import_reverse_unfreeze: !is_auth")
        OBVIOUS
    <2>3. Alike(t, v) /\ v.out = t.out
        BY <1>2, <2>2, DieAlike, Asserted
    <2>4. ImporterOK(s, D, d, gone, settled)
        BY ImporterIs
    <2>5. /\ v.exp = s.exp /\ v.other = s.other /\ v.wait = s.wait /\ v.imp = s.imp /\ v.map = s.map
          /\ v.me = s.me /\ v.isauth = s.isauth /\ v.frozen = s.frozen /\ v.amb = s.amb /\ v.log = s.log
          /\ v.auth = a /\ v.resolved = s.resolved /\ v.gather = s.gather
        BY <1>2, <2>3 DEF Alike, Rest
    <2>6. ImporterOK(v, D, d, gone, settled)
        <3>1. Surviving(v) <=> Surviving(s)
            BY <2>5 DEF Surviving
        <3>2. JournalOK(v, d, gone)
            BY <2>4, <2>5 DEF ImporterOK, JournalOK
        <3>3. v.amb => v.imp.state = "acking" \/ (gone /\ Surviving(v))
            BY <2>4, <2>5, <3>1 DEF ImporterOK, Undecided, Begun
        <3>4. v.imp.state \notin Late => (v.isauth => gone) /\ (v.auth[1] = D /\ ~v.amb => gone)
            BY <2>4, <2>5 DEF ImporterOK
        <3> QED
            BY <2>4, <2>5, <3>1, <3>2, <3>3, <3>4 DEF ImporterOK, Begun, Late
    <2>7. Speaks(v, D, gone, FALSE)
        BY <1>2, <2>3, <2>5, SameOut DEF Importing
    <2>8. Holds(s, d, v, d, settled)
        BY <2>5, HoldsSame
    <2>9. Frame(s, v)
        BY <1>2, <2>3 DEF Alike, Rest, Frame
    <2>10. Imported(s, v, D, d, gone, settled)
        BY <2>3, <2>5, <2>6, <2>7, <2>8, <2>9, ImporterIs DEF Imported, Importing, Alike
    <2> QED
        BY <2>1, <2>2, <2>10
<1>4. CASE ~s.isauth
    <2>1. ~t.isauth
        BY <1>2, <1>4 DEF Rest
    <2>2. PICK v : v = UnfreezeTree(t)
        OBVIOUS
    <2>3. Rest(t, v) /\ v.exp = t.exp /\ v.out = t.out /\ v.auth = t.auth
        BY <1>2, <2>1, <2>2, Thaws
    <2>4. PICK u : u = [v EXCEPT !.imp = NoImport]
        OBVIOUS
    <2>5. v \in RankState
        BY <2>3 DEF Rest
    <2>6. /\ u \in RankState /\ u.imp = NoImport /\ u.exp = v.exp /\ u.out = v.out /\ u.auth = v.auth
          /\ u.me = v.me /\ u.map = v.map /\ u.epoch = v.epoch /\ u.isauth = v.isauth /\ u.wait = v.wait
          /\ u.log = v.log /\ u.amb = v.amb /\ u.other = v.other /\ u.gather = v.gather
          /\ u.resolved = v.resolved
        BY <2>4, <2>5, NothingThere DEF RankState
    <2>7. Ended(s, u, D) /\ u.out = s.out
        BY <1>2, <2>3, <2>6 DEF Ended, Rest
    <2>8. Imported(s, u, D, d, gone, settled)
        BY <2>7, ImportEnds
    <2>9. Imported(u, MaybeSendPendingResolves(u), D, d, gone, settled)
        BY <2>8, ImporterPends DEF Imported
    <2>10. Imported(s, MaybeSendPendingResolves(u), D, d, gone, settled)
        BY <2>8, <2>9, ImportedOnce
    <2>11. ImportReverseUnfreeze(t) = MaybeSendPendingResolves(u)
        BY <2>1, <2>2, <2>4 DEF ImportReverseUnfreeze, ImportReverseFinal
    <2> QED
        BY <2>10, <2>11
<1> QED
    BY <1>3, <1>4

(* Fewer bystanders are left to answer.                                    *)
LEMMA FewerBystanders ==
    ASSUME NEW s, NEW D, NEW d, NEW gone, NEW settled, Importing(s, D, d, gone, settled),
           NEW B \in SUBSET s.imp.byst
    PROVE  /\ Imported(s, [s EXCEPT !.imp.byst = B], D, d, gone, settled)
           /\ [s EXCEPT !.imp.byst = B].imp.state = s.imp.state
<1>0. PICK t : t = [s EXCEPT !.imp.byst = B]
    OBVIOUS
<1>1. s \in RankState /\ s.imp \in ImportStateT /\ s.imp.byst \in SUBSET Ranks
      /\ ImporterOK(s, D, d, gone, settled)
    BY ImporterIs
<1>2. PICK i : i = [s.imp EXCEPT !.byst = B]
    OBVIOUS
<1>3. i \in ImportStateT /\ i.state = s.imp.state /\ i.peer = s.imp.peer /\ i.byst = B
    BY <1>1, <1>2 DEF ImportStateT
<1>4. t = [s EXCEPT !.imp = i]
    BY <1>0, <1>1, <1>2 DEF RankState
<1>5. /\ t \in RankState /\ t.imp = i /\ t.exp = s.exp /\ t.out = s.out /\ t.auth = s.auth
      /\ t.me = s.me /\ t.map = s.map /\ t.epoch = s.epoch /\ t.isauth = s.isauth /\ t.wait = s.wait
      /\ t.log = s.log /\ t.amb = s.amb /\ t.other = s.other /\ t.gather = s.gather
      /\ t.resolved = s.resolved /\ t.frozen = s.frozen
    BY <1>1, <1>3, <1>4 DEF RankState
<1>6. ImporterOK(t, D, d, gone, settled)
    <2>1. Surviving(t) <=> Surviving(s)
        BY <1>5 DEF Surviving
    <2>2. JournalOK(s, d, gone) => JournalOK(t, d, gone)
        BY <1>3, <1>5 DEF JournalOK
    <2>3. Undecided(s, D, gone, settled) => Undecided(t, D, gone, settled)
        BY <1>3, <1>5 DEF Undecided
    <2>4. /\ t.imp.state = s.imp.state /\ t.imp.peer = s.imp.peer
          /\ E \notin s.imp.byst => E \notin t.imp.byst
          /\ D \notin s.imp.byst => D \notin t.imp.byst
        BY <1>3, <1>5
    <2> QED
        BY <1>1, <1>5, <2>1, <2>2, <2>3, <2>4 DEF ImporterOK
<1>7. Speaks(t, D, gone, FALSE)
    BY <1>5, SameOut DEF Importing
<1>8. Holds(s, d, t, d, settled)
    BY <1>3, <1>5, HoldsSame
<1>9. Imported(s, t, D, d, gone, settled) /\ t.imp.state = s.imp.state
    BY <1>3, <1>5, <1>6, <1>7, <1>8 DEF Imported, Importing, Frame
<1> QED
    BY <1>0, <1>9

(* import_notify_abort.                                                    *)
LEMMA ImportAbortKeeps ==
    ASSUME NEW s, NEW D, NEW d, NEW gone, NEW settled, Importing(s, D, d, gone, settled),
           s.imp.state = "aborting"
    PROVE  Imported(s, ImportNotifyAbort(s), D, d, gone, settled)
<1>1. /\ s \in RankState /\ s.me = D /\ D \in Ranks /\ E \in Ranks /\ D # E /\ s.imp.tid \in Nat
      /\ s.imp \in ImportStateT /\ s.imp.byst \in SUBSET Ranks /\ s.imp.peer = E /\ Speaks(s, D, gone, FALSE)
      /\ E \notin s.imp.byst /\ D \notin s.imp.byst
    BY ImporterIs
<1>2. PICK L : L = {q \in s.imp.byst : MayTell(s, q)}
    OBVIOUS
<1>3. L \subseteq s.imp.byst
    BY <1>2
<1>4. PICK m : m = [Msg("Notify", s.imp.tid) EXCEPT !.old = <<s.imp.peer, s.me>>, !.new = Sole(s.imp.peer)]
    OBVIOUS
<1>5. m \in Message /\ m.type = "Notify" /\ m.new[1] = E
    <2>1. PICK a, b : a = <<E, D>> /\ b = Sole(E)
        OBVIOUS
    <2>2. a \in MdsAuthority /\ b \in MdsAuthority /\ b[1] = E
        BY <1>1, <2>1, Authorities DEF Sole
    <2>3. PICK n : n = s.imp.tid /\ n \in Nat
        BY <1>1
    <2>4. m = [Msg("Notify", n) EXCEPT !.old = a, !.new = b]
        BY <1>1, <1>4, <2>1, <2>3
    <2>5. m \in Message /\ m.type = "Notify" /\ m.new = b
        <3>1. Msg("Notify", n) \in Message
            BY <2>3, MsgType0 DEF MsgType
        <3> QED
            BY <2>2, <2>4, <3>1 DEF Message, Msg
    <2> QED
        BY <2>2, <2>5
<1>6. PICK u : u = SendAll(s, L, m)
    OBVIOUS
<1>7. Alike(s, u) /\ Speaks(u, D, gone, FALSE)
    BY <1>1, <1>3, <1>5, <1>6, TellsNotify
<1>8. Imported(s, u, D, d, gone, settled)
    BY <1>7, ImporterAlike
<1>9. PICK t : t = [u EXCEPT !.imp.byst = L]
    OBVIOUS
<1>10. L \subseteq u.imp.byst /\ u.imp.state = "aborting"
    BY <1>3, <1>7 DEF Alike
<1>11. /\ Imported(u, t, D, d, gone, settled) /\ t.imp.state = "aborting"
    <2>1. Importing(u, D, d, gone, settled)
        BY <1>8 DEF Imported
    <2>2. /\ Imported(u, [u EXCEPT !.imp.byst = L], D, d, gone, settled)
          /\ [u EXCEPT !.imp.byst = L].imp.state = u.imp.state
        BY <1>10, <2>1, FewerBystanders
    <2> QED
        BY <1>9, <1>10, <2>2
<1>12. Imported(s, t, D, d, gone, settled)
    BY <1>8, <1>11, ImportedOnce
<1>13. Imported(s, ImportReverseUnfreeze(t), D, d, gone, settled)
    <2>1. Importing(t, D, d, gone, settled) /\ t \in RankState /\ t.auth \in MdsAuthority
        BY <1>12, ImporterIs DEF Imported
    <2>2. PICK a : a = t.auth
        OBVIOUS
    <2>3. t = [t EXCEPT !.auth = a]
        BY <2>1, <2>2 DEF RankState
    <2>4. Imported(t, ImportReverseUnfreeze(t), D, d, gone, settled)
        BY <1>11, <2>1, <2>2, <2>3, ReverseUnfreezeKeeps
    <2> QED
        BY <1>12, <2>4, ImportedOnce
<1>14. ImportNotifyAbort(s) = IF L = {} THEN ImportReverseUnfreeze(t) ELSE t
    BY <1>2, <1>4, <1>6, <1>9 DEF ImportNotifyAbort
<1> QED
    BY <1>12, <1>13, <1>14

(* import_reverse: the import is undone in the journal.  An import that    *)
(* has been acknowledged is undone only if the exporter kept the subtree.  *)
LEMMA ImportReverseKeeps ==
    ASSUME NEW s, NEW D, NEW d, NEW gone, NEW settled, Importing(s, D, d, gone, settled),
           s.imp.state = "loggingstart" \/ (s.imp.state = "acking" /\ settled /\ ~s.amb)
    PROVE  Imported(s, ImportReverse(s), D, d, gone, settled)
<1>1. /\ s \in RankState /\ s.me = D /\ D \in Ranks /\ E \in Ranks /\ D # E /\ s.imp.tid \in Nat
      /\ s.imp \in ImportStateT /\ s.imp.peer = E /\ Speaks(s, D, gone, FALSE)
      /\ ImporterOK(s, D, d, gone, settled) /\ s.log \in Seq(LogEntry) /\ Surviving(s)
    BY ImporterIs
<1>2. s.isauth
    BY <1>1 DEF ImporterOK, Late
<1>3. PICK a : a = Sole(E)
    OBVIOUS
<1>4. a \in MdsAuthority /\ a[1] = E
    BY <1>1, <1>3, Authorities DEF Sole
<1>5. PICK i : i = [s.imp EXCEPT !.state = "aborting"]
    OBVIOUS
<1>6. i \in ImportStateT /\ i.state = "aborting" /\ i.peer = E /\ i.byst = s.imp.byst /\ i.tid = s.imp.tid
    BY <1>1, <1>5 DEF ImportStateT, ImportStates
<1>7. PICK t : t = [s EXCEPT !.imp = i, !.isauth = FALSE, !.auth = a]
    OBVIOUS
<1>8. /\ t \in RankState /\ t.imp = i /\ t.exp = s.exp /\ t.out = s.out /\ t.auth = a
      /\ t.me = s.me /\ t.map = s.map /\ t.epoch = s.epoch /\ t.isauth = FALSE /\ t.wait = s.wait
      /\ t.log = s.log /\ t.amb = s.amb /\ t.other = s.other /\ t.gather = s.gather
      /\ t.resolved = s.resolved /\ t.frozen = s.frozen
    BY <1>1, <1>4, <1>6, <1>7 DEF RankState
<1>9. [s EXCEPT !.imp.state = "aborting", !.isauth = FALSE, !.auth = Sole(s.imp.peer)] = t
    BY <1>1, <1>3, <1>5, <1>7
<1>10. PICK u : u = Submit(t, "EImportFinishFalse", s.imp.tid)
    OBVIOUS
<1>11. /\ Most(t, u) /\ u.exp = t.exp /\ u.frozen = t.frozen /\ u.auth = t.auth /\ u.isauth = t.isauth
       /\ u.out = t.out /\ u.wait = t.wait /\ u.gather = t.gather
       /\ Len(t.log) \in Nat /\ Len(u.log) = Len(t.log) + 1
       /\ u.log[Len(t.log) + 1].event = "EImportFinishFalse"
       /\ \A k \in 1..Len(t.log) : u.log[k] = t.log[k]
    BY <1>1, <1>8, <1>10, SubmitIs DEF LogEvent
<1>12. /\ u \in RankState /\ u.imp = i /\ u.exp = s.exp /\ u.out = s.out /\ u.auth = a
       /\ u.me = s.me /\ u.map = s.map /\ u.epoch = s.epoch /\ u.isauth = FALSE /\ u.wait = s.wait
       /\ u.amb = s.amb /\ u.other = s.other /\ u.gather = s.gather
       /\ u.resolved = s.resolved /\ u.frozen = s.frozen
    BY <1>8, <1>11 DEF Most
<1>13. JournalOK(u, d, gone)
    <2>1. CASE s.imp.state = "loggingstart"
        <3>1. d = "none" /\ Len(s.log) = 1 /\ Event(s.log, 1, "EImportStart")
            BY <1>1, <2>1 DEF ImporterOK, JournalOK
        <3>2. Len(u.log) = 2 /\ Event(u.log, 1, "EImportStart") /\ Event(u.log, 2, "EImportFinishFalse")
            BY <1>8, <1>11, <3>1 DEF Event
        <3> QED
            BY <1>6, <1>12, <3>1, <3>2 DEF JournalOK
    <2>2. CASE s.imp.state = "acking"
        <3>1. d = "ambig" /\ s.log = <<>>
            BY <1>1, <2>2 DEF ImporterOK
        <3>2. Len(s.log) = 0
            BY <3>1, EmptySeq
        <3>3. Len(u.log) = 1 /\ Event(u.log, 1, "EImportFinishFalse")
            BY <1>8, <1>11, <3>2 DEF Event
        <3> QED
            BY <1>6, <1>12, <3>1, <3>3 DEF JournalOK
    <2> QED
        BY <2>1, <2>2
<1>14. ImporterOK(u, D, d, gone, settled)
    <2>1. Surviving(u)
        BY <1>1, <1>12 DEF Surviving
    <2>2. u.amb => gone
        BY <1>1, <1>12 DEF ImporterOK, Undecided
    <2>3. u.imp.state = "aborting" /\ u.imp.peer = E /\ E \notin u.imp.byst /\ D \notin u.imp.byst
        BY <1>1, <1>6, <1>12 DEF ImporterOK
    <2>4. u.exp.state = "none" /\ u.other = {} /\ \A c \in u.wait : c.kind \in {"discover", "prep"} /\ c.peer = E
        BY <1>1, <1>12 DEF ImporterOK
    <2>5. ~u.isauth /\ u.auth[1] # D
        BY <1>1, <1>4, <1>12
    <2> QED
        BY <1>13, <2>1, <2>2, <2>3, <2>4, <2>5 DEF ImporterOK, Late, Begun
<1>15. Speaks(u, D, gone, FALSE)
    BY <1>1, <1>12, SameOut
<1>16. Holds(s, d, u, d, settled)
    <2>1. CASE s.imp.state = "loggingstart"
        <3>1. d = "none" /\ Len(s.log) = 1
            BY <1>1, <2>1 DEF ImporterOK, JournalOK
        <3>2. s.log = <<>> => Len(s.log) = 0
            BY EmptySeq
        <3>3. PICK n : n = Len(s.log)
            OBVIOUS
        <3>4. n = 1 /\ (s.log = <<>> => n = 0)
            BY <3>1, <3>2, <3>3
        <3>5. s.log # <<>>
            BY <3>4
        <3> QED
            BY <3>1, <3>5 DEF Holds, Clean, Untouched, Bound
    <2>2. CASE s.imp.state = "acking" /\ settled
        <3>1. d = "ambig"
            BY <1>1, <2>2 DEF ImporterOK
        <3> QED
            BY <2>2, <3>1 DEF Holds, Clean, Untouched
    <2> QED
        BY <2>1, <2>2
<1>17. Imported(s, u, D, d, gone, settled)
    BY <1>1, <1>12, <1>14, <1>15, <1>16, ImporterIs DEF Imported, Importing, Frame
<1>18. Imported(u, ImportNotifyAbort(u), D, d, gone, settled)
    BY <1>6, <1>12, <1>17, ImportAbortKeeps DEF Imported
<1>19. ImportReverse(s) = ImportNotifyAbort(u)
    BY <1>2, <1>9, <1>10 DEF ImportReverse
<1> QED
    BY <1>17, <1>18, <1>19, ImportedOnce

(* The exporter has failed while the importer is prepped.                  *)
LEMMA PreppedAborts ==
    ASSUME NEW s, NEW D, NEW d, NEW gone, NEW settled, Importing(s, D, d, gone, settled),
           s.imp.state = "prepped"
    PROVE  /\ Imported(s, ImportNotifyAbort([GiveBack(s) EXCEPT !.imp.state = "aborting"]), D, d, gone, settled)
           /\ Imported(s, ImportReverseUnfreeze(GiveBack(s)), D, d, gone, settled)
<1>1. /\ s \in RankState /\ s.me = D /\ D \in Ranks /\ E \in Ranks /\ D # E
      /\ s.imp \in ImportStateT /\ s.imp.peer = E /\ Speaks(s, D, gone, FALSE)
      /\ ImporterOK(s, D, d, gone, settled) /\ Surviving(s)
    BY ImporterIs
<1>2. PICK a : a = Sole(E)
    OBVIOUS
<1>3. a \in MdsAuthority /\ a[1] = E
    BY <1>1, <1>2, Authorities DEF Sole
<1>4. PICK g : g = [s EXCEPT !.auth = a]
    OBVIOUS
<1>5. GiveBack(s) = g
    BY <1>1, <1>2, <1>4 DEF GiveBack
<1>6. Imported(s, ImportReverseUnfreeze(g), D, d, gone, settled)
    BY <1>1, <1>3, <1>4, ReverseUnfreezeKeeps DEF Begun
<1>7. PICK i : i = [s.imp EXCEPT !.state = "aborting"]
    OBVIOUS
<1>8. i \in ImportStateT /\ i.state = "aborting" /\ i.peer = E /\ i.byst = s.imp.byst
    BY <1>1, <1>7 DEF ImportStateT, ImportStates
<1>9. PICK t : t = [s EXCEPT !.imp = i, !.auth = a]
    OBVIOUS
<1>10. /\ t \in RankState /\ t.imp = i /\ t.exp = s.exp /\ t.out = s.out /\ t.auth = a
       /\ t.me = s.me /\ t.map = s.map /\ t.epoch = s.epoch /\ t.isauth = s.isauth /\ t.wait = s.wait
       /\ t.log = s.log /\ t.amb = s.amb /\ t.other = s.other /\ t.gather = s.gather
       /\ t.resolved = s.resolved /\ t.frozen = s.frozen
    BY <1>1, <1>3, <1>8, <1>9 DEF RankState
<1>11. [g EXCEPT !.imp.state = "aborting"] = t
    BY <1>1, <1>4, <1>7, <1>9 DEF RankState
<1>12. ImporterOK(t, D, d, gone, settled)
    <2>1. Surviving(t)
        BY <1>1, <1>10 DEF Surviving
    <2>2. (t.amb => gone) /\ (t.isauth => gone) /\ d = "none" /\ t.log = <<>>
        BY <1>1, <1>10 DEF ImporterOK, Undecided, Late, Begun
    <2>3. t.imp.state = "aborting" /\ t.imp.peer = E /\ E \notin t.imp.byst /\ D \notin t.imp.byst
        BY <1>1, <1>8, <1>10 DEF ImporterOK
    <2>4. t.exp.state = "none" /\ t.other = {} /\ \A c \in t.wait : c.kind \in {"discover", "prep"} /\ c.peer = E
        BY <1>1, <1>10 DEF ImporterOK
    <2>5. t.auth[1] # D
        BY <1>1, <1>3, <1>10
    <2>6. JournalOK(t, d, gone)
        BY <2>2, <2>3 DEF JournalOK
    <2> QED
        BY <2>1, <2>2, <2>3, <2>4, <2>5, <2>6 DEF ImporterOK, Late, Begun
<1>13. Speaks(t, D, gone, FALSE)
    BY <1>1, <1>10, SameOut
<1>14. Holds(s, d, t, d, settled)
    BY <1>10 DEF Holds, Clean, Untouched, Bound
<1>15. Imported(s, t, D, d, gone, settled)
    BY <1>1, <1>10, <1>12, <1>13, <1>14, ImporterIs DEF Imported, Importing, Frame
<1>16. Imported(t, ImportNotifyAbort(t), D, d, gone, settled)
    BY <1>8, <1>10, <1>15, ImportAbortKeeps DEF Imported
<1>17. Imported(s, ImportNotifyAbort(t), D, d, gone, settled)
    BY <1>15, <1>16, ImportedOnce
<1> QED
    BY <1>5, <1>6, <1>11, <1>17

LEMMA CancelKeeps ==
    ASSUME NEW s, NEW D, NEW d, NEW gone, NEW settled, Importing(s, D, d, gone, settled), NEW from, NEW m
    PROVE  Imported(s, HandleExportCancel(s, from, m), D, d, gone, settled)
<1>1. Imported(s, Die(s, "got export_cancel in weird state"), D, d, gone, settled)
    BY ImporterDies, Asserted
<1>2. s.imp.state \in {"discovering", "discovered"} => Imported(s, [s EXCEPT !.imp = NoImport], D, d, gone, settled)
    BY ReverseFinalKeeps DEF Begun
<1>3. s.imp.state = "prepping" => Imported(s, ImportReverseFinal(s), D, d, gone, settled)
    BY ReverseFinalKeeps DEF Begun
<1>4. s.imp.state = "prepped" => Imported(s, ImportReverseUnfreeze(GiveBack(s)), D, d, gone, settled)
    BY PreppedAborts
<1> QED
    BY <1>1, <1>2, <1>3, <1>4 DEF HandleExportCancel

-----------------------------------------------------------------------------
(* The stages of an import.                                                *)

(* The import is done, in memory and in the journal: the subtree is gone   *)
(* from the exporter.                                                      *)
LEMMA ImportDone ==
    ASSUME NEW s, NEW D, NEW d, NEW gone, NEW settled, Importing(s, D, d, gone, settled), gone,
           s.imp.state \in {"acking", "finishing"}, NEW u \in RankState,
           u.me = s.me, u.map = s.map, u.epoch = s.epoch, u.exp = s.exp, u.imp = NoImport,
           u.wait = s.wait, u.amb = s.amb, u.other = s.other, u.resolved = s.resolved,
           Len(u.log) = 1, Event(u.log, 1, "EImportFinishTrue"), Speaks(u, D, gone, FALSE)
    PROVE  Imported(s, u, D, d, gone, settled)
<1>1. ImporterOK(s, D, d, gone, settled) /\ Surviving(s)
    BY ImporterIs
<1>2. Surviving(u) /\ u.imp.state = "none"
    BY <1>1 DEF Surviving, NoImport
<1>3. d = "ambig"
    BY <1>1 DEF ImporterOK
<1>4. JournalOK(u, d, gone)
    BY <1>2, <1>3 DEF JournalOK
<1>5. u.exp.state = "none" /\ u.other = {} /\ \A c \in u.wait : c.kind \in {"discover", "prep"} /\ c.peer = E
    BY <1>1 DEF ImporterOK
<1>6. ImporterOK(u, D, d, gone, settled)
    BY <1>2, <1>4, <1>5 DEF ImporterOK, Late, Begun
<1>7. Holds(s, d, u, d, settled)
    <2>1. Bound(u, d)
        BY <1>3 DEF Bound, Event
    <2> QED
        BY <1>3, <2>1 DEF Holds, Clean, Untouched
<1> QED
    BY <1>6, <1>7, ImporterIs DEF Imported, Importing, Frame

LEMMA NotifyFinishKeeps ==
    ASSUME NEW s, NEW D, NEW d, NEW gone, NEW settled, Importing(s, D, d, gone, settled), s.imp.state # "none",
           NEW t \in RankState, t.me = s.me, t.imp = s.imp, t.out = s.out
    PROVE  Alike(t, ImportNotifyFinish(t)) /\ Speaks(ImportNotifyFinish(t), D, gone, FALSE)
<1>1. /\ s \in RankState /\ s.me = D /\ D \in Ranks /\ E \in Ranks /\ D # E /\ s.imp.tid \in Nat
      /\ s.imp \in ImportStateT /\ s.imp.byst \in SUBSET Ranks /\ s.imp.peer = E /\ Speaks(s, D, gone, FALSE)
      /\ E \notin s.imp.byst /\ D \notin s.imp.byst
    BY ImporterIs
<1>2. PICK n : n = s.imp.tid /\ n \in Nat
    BY <1>1
<1>3. PICK a, b : a = <<E, D>> /\ b = Sole(D)
    OBVIOUS
<1>4. a \in MdsAuthority /\ b \in MdsAuthority /\ b[1] = D
    BY <1>1, <1>3, Authorities DEF Sole
<1>5. PICK m : m = [Msg("Notify", n) EXCEPT !.flag = FALSE, !.old = a, !.new = b]
    OBVIOUS
<1>6. m \in Message /\ m.type = "Notify" /\ m.new = b
    <2>1. Msg("Notify", n) \in Message
        BY <1>2, MsgType0 DEF MsgType
    <2> QED
        BY <1>4, <1>5, <2>1 DEF Message, Msg
<1>7. Speaks(t, D, gone, FALSE)
    BY <1>1, SameOut
<1>8. PICK W : W = s.imp.byst
    OBVIOUS
<1>9. Alike(t, SendAll(t, W, m)) /\ Speaks(SendAll(t, W, m), D, gone, FALSE)
    BY <1>1, <1>4, <1>6, <1>7, <1>8, TellsNotify
<1>10. ImportNotifyFinish(t) = SendAll(t, W, m)
    BY <1>1, <1>2, <1>3, <1>5, <1>8 DEF ImportNotifyFinish
<1> QED
    BY <1>9, <1>10

LEMMA ImportFinishKeeps ==
    ASSUME NEW s, NEW D, NEW d, NEW gone, NEW settled, Importing(s, D, d, gone, settled), gone,
           NEW notify, NEW last
    PROVE  Imported(s, ImportFinish(s, notify, last), D, d, gone, settled)
<1>1. /\ s \in RankState /\ s.me = D /\ D \in Ranks /\ E \in Ranks /\ D # E /\ s.imp.tid \in Nat
      /\ s.imp \in ImportStateT /\ s.imp.state \in ImportStates /\ Speaks(s, D, gone, FALSE)
      /\ ImporterOK(s, D, d, gone, settled) /\ s.log \in Seq(LogEntry)
    BY ImporterIs
<1>2. Imported(s, Die(s, "import_finish: acking or finishing"), D, d, gone, settled)
    BY ImporterDies, Asserted
<1>3. PICK a : a = IF s.imp.state = "acking" THEN <<D, D>> ELSE s.auth
    OBVIOUS
<1>4. a \in MdsAuthority
    BY <1>1, <1>3, Authorities, RankFields
<1>5. PICK t : t = [s EXCEPT !.auth = a]
    OBVIOUS
<1>6. /\ t \in RankState /\ t.imp = s.imp /\ t.exp = s.exp /\ t.out = s.out /\ t.auth = a
      /\ t.me = s.me /\ t.map = s.map /\ t.epoch = s.epoch /\ t.isauth = s.isauth /\ t.wait = s.wait
      /\ t.log = s.log /\ t.amb = s.amb /\ t.other = s.other /\ t.gather = s.gather
      /\ t.resolved = s.resolved /\ t.frozen = s.frozen
    BY <1>1, <1>4, <1>5 DEF RankState
<1>7. t = IF s.imp.state = "acking" THEN [s EXCEPT !.auth = <<s.me, s.me>>] ELSE s
    BY <1>1, <1>3, <1>5 DEF RankState
<1>8. PICK u : u = IF notify THEN ImportNotifyFinish(t) ELSE t
    OBVIOUS
<1>9. ASSUME s.imp.state \in {"acking", "finishing"}
      PROVE  Imported(s, MaybeSendPendingResolves(UnfreezeTree(
               Submit([u EXCEPT !.imp = NoImport], "EImportFinishTrue", s.imp.tid))), D, d, gone, settled)
    <2>1. Alike(t, ImportNotifyFinish(t)) /\ Speaks(ImportNotifyFinish(t), D, gone, FALSE)
        BY <1>6, <1>9, NotifyFinishKeeps
    <2>2. Alike(t, t) /\ Speaks(t, D, gone, FALSE)
        BY <1>1, <1>6, AlikeItself, SameOut
    <2>3. Alike(t, u) /\ Speaks(u, D, gone, FALSE)
        BY <1>8, <2>1, <2>2
    <2>4. PICK v : v = [u EXCEPT !.imp = NoImport]
        OBVIOUS
    <2>5. u \in RankState
        BY <2>3 DEF Alike
    <2>6. /\ v \in RankState /\ v.imp = NoImport /\ v.exp = u.exp /\ v.out = u.out
          /\ v.me = u.me /\ v.map = u.map /\ v.epoch = u.epoch /\ v.wait = u.wait
          /\ v.log = u.log /\ v.amb = u.amb /\ v.other = u.other
          /\ v.resolved = u.resolved
        BY <2>4, <2>5, NothingThere DEF RankState
    <2>7. PICK w : w = Submit(v, "EImportFinishTrue", s.imp.tid)
        OBVIOUS
    <2>8. /\ Most(v, w) /\ w.exp = v.exp
          /\ w.out = v.out /\ w.wait = v.wait
          /\ Len(v.log) \in Nat /\ Len(w.log) = Len(v.log) + 1
          /\ w.log[Len(v.log) + 1].event = "EImportFinishTrue"
        BY <1>1, <2>6, <2>7, SubmitIs DEF LogEvent
    <2>9. v.log = <<>>
        BY <1>1, <1>6, <1>9, <2>3, <2>6 DEF ImporterOK, Alike
    <2>10. Len(v.log) = 0
        BY <2>9, EmptySeq
    <2>11. Len(w.log) = 1 /\ Event(w.log, 1, "EImportFinishTrue")
        BY <2>8, <2>10 DEF Event
    <2>12. w \in RankState
        BY <2>8 DEF Most
    <2>13. PICK z : z = UnfreezeTree(w)
        OBVIOUS
    <2>14. Rest(w, z) /\ z.exp = w.exp /\ z.out = w.out
        BY <2>12, <2>13, Thaws
    <2>15. /\ z \in RankState /\ z.me = s.me /\ z.map = s.map /\ z.epoch = s.epoch /\ z.exp = s.exp /\ z.imp = NoImport
           /\ z.wait = s.wait /\ z.amb = s.amb /\ z.other = s.other /\ z.resolved = s.resolved
           /\ z.log = w.log /\ z.out = u.out
        BY <1>6, <2>3, <2>6, <2>8, <2>14 DEF Most, Rest, Alike
    <2>16. Speaks(z, D, gone, FALSE)
        BY <1>6, <2>3, <2>15, SameOut DEF Alike
    <2>17. Imported(s, z, D, d, gone, settled)
        BY <1>9, <2>11, <2>15, <2>16, ImportDone
    <2>18. Imported(z, MaybeSendPendingResolves(z), D, d, gone, settled)
        BY <2>17, ImporterPends DEF Imported
    <2>19. Imported(s, MaybeSendPendingResolves(z), D, d, gone, settled)
        BY <2>17, <2>18, ImportedOnce
    <2> QED
        BY <2>4, <2>7, <2>13, <2>19
<1>10. ASSUME s.imp.state = "acking"
       PROVE  Imported(s, [t EXCEPT !.imp.state = "finishing"], D, d, gone, settled)
    <2>1. PICK i : i = [s.imp EXCEPT !.state = "finishing"]
        OBVIOUS
    <2>2. i \in ImportStateT /\ i.state = "finishing" /\ i.peer = s.imp.peer /\ i.byst = s.imp.byst
        BY <1>1, <2>1 DEF ImportStateT, ImportStates
    <2>3. PICK v : v = [t EXCEPT !.imp = i]
        OBVIOUS
    <2>4. /\ v \in RankState /\ v.imp = i /\ v.exp = s.exp /\ v.out = s.out
          /\ v.me = s.me /\ v.map = s.map /\ v.epoch = s.epoch /\ v.wait = s.wait
          /\ v.log = s.log /\ v.amb = s.amb /\ v.other = s.other /\ v.isauth = s.isauth
          /\ v.resolved = s.resolved /\ v.frozen = s.frozen
        BY <1>6, <2>2, <2>3 DEF RankState
    <2>5. v = [t EXCEPT !.imp.state = "finishing"]
        BY <1>6, <2>1, <2>3
    <2>6. ImporterOK(v, D, d, gone, settled)
        <3>1. Surviving(v) /\ d = "ambig" /\ v.log = <<>> /\ v.isauth /\ v.frozen = "frozen"
            BY <1>1, <1>10, <2>4 DEF ImporterOK, Surviving, Late
        <3>2. JournalOK(v, d, gone)
            BY <2>2, <2>4, <3>1 DEF JournalOK
        <3>3. v.exp.state = "none" /\ v.other = {} /\ \A c \in v.wait : c.kind \in {"discover", "prep"} /\ c.peer = E
            BY <1>1, <2>4 DEF ImporterOK
        <3>4. v.imp.state = "finishing" /\ v.imp.peer = E /\ E \notin v.imp.byst /\ D \notin v.imp.byst
            BY <1>1, <1>10, <2>2, <2>4 DEF ImporterOK
        <3> QED
            BY <3>1, <3>2, <3>3, <3>4 DEF ImporterOK, Late, Begun
    <2>7. Speaks(v, D, gone, FALSE)
        BY <1>1, <2>4, SameOut
    <2>8. Holds(s, d, v, d, settled)
        BY <1>10, <2>4 DEF Holds, Clean, Untouched, Bound
    <2>9. Imported(s, v, D, d, gone, settled)
        BY <1>1, <2>4, <2>6, <2>7, <2>8, ImporterIs DEF Imported, Importing, Frame
    <2> QED
        BY <2>5, <2>9
<1> HIDE <1>3, <1>5
<1> QED
    BY <1>2, <1>7, <1>8, <1>9, <1>10 DEF ImportFinish

LEMMA FinishKeeps ==
    ASSUME NEW s, NEW D, NEW d, NEW gone, NEW settled, Importing(s, D, d, gone, settled), gone,
           NEW from, NEW m
    PROVE  Imported(s, HandleExportFinish(s, from, m), D, d, gone, settled)
<1>1. Imported(s, Die(s, "export_finish: tid"), D, d, gone, settled)
    BY ImporterDies, Asserted
<1>2. PICK last : last = m.flag
    OBVIOUS
<1>3. Imported(s, ImportFinish(s, FALSE, last), D, d, gone, settled)
    <2>1. PICK n : n = FALSE
        OBVIOUS
    <2>2. Imported(s, ImportFinish(s, n, last), D, d, gone, settled)
        BY ImportFinishKeeps
    <2> QED
        BY <2>1, <2>2
<1> QED
    BY <1>1, <1>2, <1>3 DEF HandleExportFinish

(* The import goes on; nothing of it is in the journal.                    *)
LEMMA ImportMoves ==
    ASSUME NEW s, NEW D, NEW d, NEW gone, NEW settled, Importing(s, D, d, gone, settled),
           s.imp.state \notin Late, Clean(s, d), Surviving(s), NEW t \in RankState,
           t.me = s.me, t.map = s.map, t.epoch = s.epoch, t.exp = s.exp, t.log = s.log, t.amb = s.amb,
           t.other = s.other, t.resolved = s.resolved, t.isauth = s.isauth,
           t.imp.state \in Begun, t.imp.peer = E, E \notin t.imp.byst, D \notin t.imp.byst,
           t.imp.state = "prepped" => t.frozen = "frozen", t.auth = s.auth \/ t.auth[1] # D,
           \A c \in t.wait : c \in s.wait \/ (c.kind \in {"discover", "prep"} /\ c.peer = E),
           Speaks(t, D, gone, FALSE)
    PROVE  /\ Importing(t, D, d, gone, settled) /\ Frame(s, t) /\ Clean(t, d)
           /\ s.imp.state # "none" => Imported(s, t, D, d, gone, settled)
<1>1. ImporterOK(s, D, d, gone, settled)
    BY ImporterIs
<1>2. Surviving(t)
    BY DEF Surviving
<1>3. (t.isauth => gone) /\ (t.auth[1] = D /\ ~t.amb => gone) /\ (t.amb => gone)
    BY <1>1 DEF ImporterOK, Late, Clean
<1>4. d = "none" /\ t.log = <<>>
    BY DEF Clean
<1>5. t.imp.state \notin Late /\ t.imp.state \notin {"loggingstart", "acking", "finishing", "none"}
    BY DEF Begun, Late
<1>6. JournalOK(t, d, gone)
    BY <1>4, <1>5 DEF JournalOK
<1>7. t.exp.state = "none" /\ t.other = {} /\ \A c \in t.wait : c.kind \in {"discover", "prep"} /\ c.peer = E
    BY <1>1 DEF ImporterOK
<1>8. ImporterOK(t, D, d, gone, settled)
    BY <1>2, <1>3, <1>4, <1>5, <1>6, <1>7 DEF ImporterOK
<1>9. Importing(t, D, d, gone, settled) /\ Frame(s, t) /\ Clean(t, d)
    BY <1>4, <1>8, ImporterIs DEF Importing, Frame, Clean
<1>10. s.imp.state # "none" => Holds(s, d, t, d, settled)
    BY <1>4 DEF Holds, Clean, Untouched, Bound
<1> QED
    BY <1>9, <1>10 DEF Imported

(* The importer answers the exporter.                                      *)
LEMMA Answers ==
    ASSUME NEW s \in RankState, NEW D \in Ranks, s.me = D, D # E, NEW gone, Speaks(s, D, gone, FALSE),
           NEW type, type \in {"DiscoverAck", "PrepAck"}, NEW tid \in Nat, NEW f \in BOOLEAN
    PROVE  /\ Alike(s, SendMds(s, E, [Msg(type, tid) EXCEPT !.flag = f]))
           /\ Speaks(SendMds(s, E, [Msg(type, tid) EXCEPT !.flag = f]), D, gone, FALSE)
           /\ Alike(s, SendReply(s, E, [Msg(type, tid) EXCEPT !.flag = f]))
           /\ Speaks(SendReply(s, E, [Msg(type, tid) EXCEPT !.flag = f]), D, gone, FALSE)
           /\ Alike(s, SendMds(s, E, Msg(type, tid)))
           /\ Speaks(SendMds(s, E, Msg(type, tid)), D, gone, FALSE)
           /\ Alike(s, SendReply(s, E, Msg(type, tid)))
           /\ Speaks(SendReply(s, E, Msg(type, tid)), D, gone, FALSE)
<1>1. type \in MsgType
    BY DEF MsgType
<1>2. Msg(type, tid) \in Message
    BY <1>1, MsgType0
<1>3. PICK m, k : m = [Msg(type, tid) EXCEPT !.flag = f] /\ k = Msg(type, tid)
    OBVIOUS
<1>4. m \in Message /\ k \in Message /\ m.type = type /\ k.type = type
    BY <1>2, <1>3 DEF Message, Msg
<1>5. E \in Ranks
    BY RanksAssumption DEF E
<1>6. PICK may : may = FALSE
    OBVIOUS
<1>7. Fit(s.me, E, m, D, gone, may) /\ Fit(s.me, E, k, D, gone, may)
    BY <1>4 DEF Fit, MsgOK, Tame, Claims
<1>8. Speaks(s, D, gone, may)
    BY <1>6
<1>9. /\ Alike(s, SendMds(s, E, m)) /\ Speaks(SendMds(s, E, m), D, gone, may)
      /\ Alike(s, SendMds(s, E, k)) /\ Speaks(SendMds(s, E, k), D, gone, may)
    BY <1>4, <1>5, <1>7, <1>8, SendMdsFits
<1>10. /\ Alike(s, SendReply(s, E, m)) /\ Speaks(SendReply(s, E, m), D, gone, may)
       /\ Alike(s, SendReply(s, E, k)) /\ Speaks(SendReply(s, E, k), D, gone, may)
    BY <1>4, <1>5, <1>7, <1>8, SendReplyFits
<1> QED
    BY <1>3, <1>6, <1>9, <1>10

LEMMA NackKeeps ==
    ASSUME NEW s, NEW D, NEW d, NEW gone, NEW settled, Importing(s, D, d, gone, settled), NEW tid \in Nat
    PROVE  Imported(s, DiscoverNack(s, E, tid), D, d, gone, settled) /\ DiscoverNack(s, E, tid).log = s.log
<1>1. s \in RankState /\ D \in Ranks /\ s.me = D /\ D # E /\ Speaks(s, D, gone, FALSE)
    BY ImporterIs
<1>2. PICK type, f : type = "DiscoverAck" /\ f = FALSE
    OBVIOUS
<1>3. /\ Alike(s, SendMds(s, E, [Msg(type, tid) EXCEPT !.flag = f]))
      /\ Speaks(SendMds(s, E, [Msg(type, tid) EXCEPT !.flag = f]), D, gone, FALSE)
    <2>1. type \in {"DiscoverAck", "PrepAck"} /\ f \in BOOLEAN
        BY <1>2
    <2> HIDE <1>2
    <2> QED
        BY <1>1, <2>1, Answers
<1>4. DiscoverNack(s, E, tid) = SendMds(s, E, [Msg(type, tid) EXCEPT !.flag = f])
    BY <1>2 DEF DiscoverNack
<1> QED
    BY <1>3, <1>4, ImporterAlike DEF Alike

LEMMA DiscoveredKeeps ==
    ASSUME NEW s, NEW D, NEW d, NEW gone, NEW settled, Importing(s, D, d, gone, settled),
           s.imp.state = "discovering", NEW tid \in Nat, NEW found
    PROVE  Imported(s, Discovered(s, E, tid, found), D, d, gone, settled) /\ Clean(Discovered(s, E, tid, found), d)
<1>1. /\ s \in RankState /\ D \in Ranks /\ s.me = D /\ D # E /\ Speaks(s, D, gone, FALSE) /\ E \in Ranks
      /\ ImporterOK(s, D, d, gone, settled) /\ Surviving(s) /\ s.imp \in ImportStateT /\ s.imp.peer = E
      /\ E \notin s.imp.byst /\ D \notin s.imp.byst /\ s.wait \in SUBSET Context
    BY ImporterIs
<1>2. Clean(s, d) /\ s.imp.state \notin Late
    BY <1>1 DEF ImporterOK, Begun, Clean, Late
<1>3. PICK i : i = [s.imp EXCEPT !.state = "discovered"]
    OBVIOUS
<1>4. i \in ImportStateT /\ i.state = "discovered" /\ i.peer = E /\ i.byst = s.imp.byst
    BY <1>1, <1>3 DEF ImportStateT, ImportStates
<1>5. PICK t : t = [s EXCEPT !.imp = i]
    OBVIOUS
<1>6. /\ t \in RankState /\ t.imp = i /\ t.exp = s.exp /\ t.out = s.out /\ t.auth = s.auth
      /\ t.me = s.me /\ t.map = s.map /\ t.epoch = s.epoch /\ t.isauth = s.isauth /\ t.wait = s.wait
      /\ t.log = s.log /\ t.amb = s.amb /\ t.other = s.other /\ t.resolved = s.resolved
    BY <1>1, <1>4, <1>5 DEF RankState
<1>7. Imported(s, t, D, d, gone, settled) /\ Clean(t, d)
    <2>1. Speaks(t, D, gone, FALSE)
        BY <1>1, <1>6, SameOut
    <2>2. t.imp.state \in Begun /\ t.imp.state # "prepped" /\ s.imp.state # "none"
        BY <1>4, <1>6 DEF Begun
    <2> QED
        BY <1>1, <1>2, <1>4, <1>6, <2>1, <2>2, ImportMoves
<1>8. PICK type : type = "DiscoverAck"
    OBVIOUS
<1>9. PICK u : u = SendMds(t, E, Msg(type, tid))
    OBVIOUS
<1>10. Alike(t, u) /\ Speaks(u, D, gone, FALSE)
    <2>1. type \in {"DiscoverAck", "PrepAck"} /\ TRUE \in BOOLEAN /\ Speaks(t, D, gone, FALSE)
        BY <1>1, <1>6, <1>8, SameOut
    <2> HIDE <1>8
    <2> QED
        BY <1>1, <1>6, <1>9, <2>1, Answers
<1>11. Imported(s, u, D, d, gone, settled) /\ Clean(u, d)
    <2>1. Imported(t, u, D, d, gone, settled)
        BY <1>7, <1>10, ImporterAlike DEF Imported
    <2> QED
        BY <1>7, <2>1, ImportedOnce DEF Imported, Holds
<1>12. PICK c : c = [kind |-> "discover", peer |-> E, tid |-> tid]
    OBVIOUS
<1>13. c \in Context /\ c.kind \in {"discover", "prep"} /\ c.peer = E
    BY <1>1, <1>12 DEF Context
<1>14. PICK W : W = s.wait \cup {c}
    OBVIOUS
<1>15. PICK v : v = [s EXCEPT !.wait = W]
    OBVIOUS
<1>16. /\ v \in RankState /\ v.imp = s.imp /\ v.exp = s.exp /\ v.out = s.out /\ v.auth = s.auth
       /\ v.me = s.me /\ v.map = s.map /\ v.epoch = s.epoch /\ v.isauth = s.isauth /\ v.wait = W
       /\ v.log = s.log /\ v.amb = s.amb /\ v.other = s.other /\ v.resolved = s.resolved
    BY <1>1, <1>13, <1>14, <1>15 DEF RankState
<1>17. Imported(s, v, D, d, gone, settled) /\ Clean(v, d)
    <2>1. Speaks(v, D, gone, FALSE)
        BY <1>1, <1>16, SameOut
    <2>2. v.imp.state \in Begun /\ v.imp.state # "prepped" /\ s.imp.state # "none"
        BY <1>16 DEF Begun
    <2>3. \A x \in v.wait : x \in s.wait \/ (x.kind \in {"discover", "prep"} /\ x.peer = E)
        BY <1>13, <1>14, <1>16
    <2> QED
        BY <1>1, <1>2, <1>16, <2>1, <2>2, <2>3, ImportMoves
<1>18. Discovered(s, E, tid, found) = IF found THEN u ELSE v
    <2>1. t = [s EXCEPT !.imp.state = "discovered"]
        BY <1>1, <1>3, <1>5
    <2>2. v = [s EXCEPT !.wait = @ \cup {[kind |-> "discover", peer |-> E, tid |-> tid]}]
        BY <1>1, <1>12, <1>14, <1>15
    <2> HIDE <1>3, <1>5, <1>12, <1>14, <1>15
    <2> QED
        BY <1>8, <1>9, <2>1, <2>2 DEF Discovered
<1> QED
    BY <1>11, <1>17, <1>18

(* handle_export_discover: the importer knows nothing of the export yet.   *)
LEMMA DiscoverBegins ==
    ASSUME NEW s, NEW D, NEW d, NEW gone, NEW settled, Importing(s, D, d, gone, settled),
           Untouched(s, d), NEW m \in Message, NEW found
    PROVE  /\ Importing(HandleExportDiscover(s, E, m, found), D, d, gone, settled)
           /\ Frame(s, HandleExportDiscover(s, E, m, found))
           /\ Clean(HandleExportDiscover(s, E, m, found), d)
<1>1. /\ s \in RankState /\ D \in Ranks /\ s.me = D /\ D # E /\ Speaks(s, D, gone, FALSE) /\ E \in Ranks
      /\ ImporterOK(s, D, d, gone, settled)
    BY ImporterIs
<1>2. PICK tid : tid = m.tid /\ tid \in Nat
    BY MessageFields
<1>3. Clean(s, d) /\ s.imp.state = "none" /\ ~s.amb /\ s.imp.state \notin Late
    BY DEF Untouched, Late
<1>4. CASE ~IsActive(s)
    <2>1. HandleExportDiscover(s, E, m, found) = DiscoverNack(s, E, tid)
        BY <1>2, <1>4 DEF HandleExportDiscover
    <2>2. Imported(s, DiscoverNack(s, E, tid), D, d, gone, settled) /\ DiscoverNack(s, E, tid).log = s.log
        BY <1>2, NackKeeps
    <2> QED
        BY <1>3, <2>1, <2>2 DEF Imported, Clean
<1>5. CASE IsActive(s)
    <2>1. PICK i : i = [NoImport EXCEPT !.state = "discovering", !.peer = E, !.tid = tid]
        OBVIOUS
    <2>2. i \in ImportStateT /\ i.state = "discovering" /\ i.peer = E /\ i.byst = {}
        BY <1>1, <1>2, <2>1 DEF NoImport, ImportStateT, ImportStates
    <2>3. PICK t : t = [s EXCEPT !.imp = i]
        OBVIOUS
    <2>4. /\ t \in RankState /\ t.imp = i /\ t.exp = s.exp /\ t.out = s.out /\ t.auth = s.auth
          /\ t.me = s.me /\ t.map = s.map /\ t.epoch = s.epoch /\ t.isauth = s.isauth /\ t.wait = s.wait
          /\ t.log = s.log /\ t.amb = s.amb /\ t.other = s.other /\ t.resolved = s.resolved
        BY <1>1, <2>2, <2>3 DEF RankState
    <2>5. Importing(t, D, d, gone, settled) /\ Frame(s, t) /\ Clean(t, d)
        <3>1. Speaks(t, D, gone, FALSE)
            BY <1>1, <2>4, SameOut
        <3>2. t.imp.state \in Begun /\ t.imp.state # "prepped"
            BY <2>2, <2>4 DEF Begun
        <3>3. Surviving(s)
            BY <1>5 DEF IsActive, Surviving, ActiveOrStopping
        <3> QED
            BY <1>1, <1>3, <2>2, <2>4, <3>1, <3>2, <3>3, ImportMoves
    <2>6. t.imp.state = "discovering"
        BY <2>2, <2>4
    <2>7. Imported(t, Discovered(t, E, tid, found), D, d, gone, settled) /\ Clean(Discovered(t, E, tid, found), d)
        BY <1>2, <2>5, <2>6, DiscoveredKeeps
    <2>8. HandleExportDiscover(s, E, m, found) = Discovered(t, E, tid, found)
        BY <1>2, <1>3, <1>5, <2>1, <2>3 DEF HandleExportDiscover, IsImporting
    <2> QED
        BY <2>5, <2>7, <2>8 DEF Imported, Frame
<1> QED
    BY <1>4, <1>5

(* A message that was parked is no longer.                                 *)
LEMMA FewerParked ==
    ASSUME NEW s, NEW D, NEW d, NEW gone, NEW settled, Importing(s, D, d, gone, settled), NEW W \in SUBSET s.wait,
           NEW t, t = [s EXCEPT !.wait = W]
    PROVE  Imported(s, t, D, d, gone, settled) /\ t.imp = s.imp /\ t.isauth = s.isauth
<1>1. s \in RankState /\ s.wait \in SUBSET Context /\ ImporterOK(s, D, d, gone, settled)
    BY ImporterIs
<1>2. /\ t \in RankState /\ t.imp = s.imp /\ t.exp = s.exp /\ t.out = s.out /\ t.auth = s.auth
      /\ t.me = s.me /\ t.map = s.map /\ t.epoch = s.epoch /\ t.isauth = s.isauth /\ t.wait = W
      /\ t.log = s.log /\ t.amb = s.amb /\ t.other = s.other /\ t.gather = s.gather
      /\ t.resolved = s.resolved /\ t.frozen = s.frozen
    BY <1>1 DEF RankState
<1>3. ImporterOK(t, D, d, gone, settled)
    <2>1. Surviving(t) <=> Surviving(s)
        BY <1>2 DEF Surviving
    <2>2. JournalOK(s, d, gone) => JournalOK(t, d, gone)
        BY <1>2 DEF JournalOK
    <2>3. Undecided(s, D, gone, settled) => Undecided(t, D, gone, settled)
        BY <1>2 DEF Undecided
    <2>4. (\A c \in s.wait : c.kind \in {"discover", "prep"} /\ c.peer = E)
            => (\A c \in t.wait : c.kind \in {"discover", "prep"} /\ c.peer = E)
        BY <1>2
    <2> QED
        BY <1>1, <1>2, <2>1, <2>2, <2>3, <2>4 DEF ImporterOK
<1>4. Speaks(t, D, gone, FALSE)
    BY <1>2, SameOut DEF Importing
<1>5. Holds(s, d, t, d, settled)
    BY <1>2, HoldsSame
<1> QED
    BY <1>2, <1>3, <1>4, <1>5 DEF Imported, Importing, Frame

LEMMA RetryDiscoverKeeps ==
    ASSUME NEW s, NEW D, NEW d, NEW gone, NEW settled, Importing(s, D, d, gone, settled), NEW c \in s.wait, NEW found
    PROVE  Imported(s, RetryExportDiscover(s, c, found), D, d, gone, settled)
<1>1. s \in RankState /\ s.wait \in SUBSET Context /\ ImporterOK(s, D, d, gone, settled)
    BY ImporterIs
<1>2. c.peer = E /\ c \in Context
    BY <1>1 DEF ImporterOK
<1>3. PICK tid : tid = c.tid /\ tid \in Nat
    BY <1>2 DEF Context
<1>4. PICK W : W = s.wait \ {c}
    OBVIOUS
<1>5. PICK t : t = [s EXCEPT !.wait = W]
    OBVIOUS
<1>6. Imported(s, t, D, d, gone, settled) /\ t.imp = s.imp
    BY <1>4, <1>5, FewerParked
<1>7. t = [s EXCEPT !.wait = @ \ {c}]
    BY <1>4, <1>5
<1>8. Imported(s, DiscoverNack(t, E, tid), D, d, gone, settled)
    BY <1>3, <1>6, NackKeeps, ImportedOnce DEF Imported
<1>9. Imported(s, Die(s, "discover retry: state"), D, d, gone, settled)
    BY ImporterDies, Asserted
<1>10. ASSUME s.imp.state = "discovering"
       PROVE  Imported(s, Discovered(t, E, tid, found), D, d, gone, settled)
    <2>1. Importing(t, D, d, gone, settled) /\ t.imp.state = "discovering"
        BY <1>6, <1>10 DEF Imported
    <2>2. Imported(t, Discovered(t, E, tid, found), D, d, gone, settled)
        BY <1>3, <2>1, DiscoveredKeeps
    <2> QED
        BY <1>6, <2>2, ImportedOnce
<1> HIDE <1>4, <1>5
<1> QED
    BY <1>2, <1>3, <1>6, <1>7, <1>8, <1>9, <1>10 DEF RetryExportDiscover

(* The end of handle_export_prep.                                          *)
LEMMA PreppedKeeps ==
    ASSUME NEW s, NEW D, NEW d, NEW gone, NEW settled, Importing(s, D, d, gone, settled),
           s.imp.state = "prepping", ~s.isauth, NEW tid \in Nat, NEW opened, NEW locks
    PROVE  Imported(s, Prepped(s, E, tid, opened, locks), D, d, gone, settled)
<1>1. /\ s \in RankState /\ D \in Ranks /\ s.me = D /\ D # E /\ Speaks(s, D, gone, FALSE) /\ E \in Ranks
      /\ ImporterOK(s, D, d, gone, settled) /\ Surviving(s) /\ s.imp \in ImportStateT /\ s.imp.peer = E
      /\ E \notin s.imp.byst /\ D \notin s.imp.byst /\ s.wait \in SUBSET Context
    BY ImporterIs
<1>2. Clean(s, d) /\ s.imp.state \notin Late /\ s.imp.state # "none"
    BY <1>1 DEF ImporterOK, Begun, Clean, Late
<1>3. PICK c : c = [kind |-> "prep", peer |-> E, tid |-> tid]
    OBVIOUS
<1>4. c \in Context /\ c.kind \in {"discover", "prep"} /\ c.peer = E
    BY <1>1, <1>3 DEF Context
<1>5. PICK W : W = s.wait \cup {c}
    OBVIOUS
<1>6. PICK v : v = [s EXCEPT !.wait = W]
    OBVIOUS
<1>7. Imported(s, v, D, d, gone, settled)
    <2>1. /\ v \in RankState /\ v.imp = s.imp /\ v.exp = s.exp /\ v.out = s.out /\ v.auth = s.auth
          /\ v.me = s.me /\ v.map = s.map /\ v.epoch = s.epoch /\ v.isauth = s.isauth /\ v.wait = W
          /\ v.log = s.log /\ v.amb = s.amb /\ v.other = s.other /\ v.resolved = s.resolved
        BY <1>1, <1>4, <1>5, <1>6 DEF RankState
    <2>2. Speaks(v, D, gone, FALSE)
        BY <1>1, <2>1, SameOut
    <2>3. v.imp.state \in Begun /\ v.imp.state # "prepped"
        BY <2>1 DEF Begun
    <2>4. \A x \in v.wait : x \in s.wait \/ (x.kind \in {"discover", "prep"} /\ x.peer = E)
        BY <1>4, <1>5, <2>1
    <2> QED
        BY <1>1, <1>2, <2>1, <2>2, <2>3, <2>4, ImportMoves
<1>8. PICK i : i = [s.imp EXCEPT !.state = "prepped"]
    OBVIOUS
<1>9. i \in ImportStateT /\ i.state = "prepped" /\ i.peer = E /\ i.byst = s.imp.byst
    BY <1>1, <1>8 DEF ImportStateT, ImportStates
<1>10. PICK a : a = <<E, D>>
    OBVIOUS
<1>11. a \in MdsAuthority /\ a[1] # D
    BY <1>1, <1>10, Authorities
<1>12. PICK t : t = [s EXCEPT !.imp = i, !.auth = a]
    OBVIOUS
<1>13. PICK u : u = [t EXCEPT !.frozen = "frozen"]
    OBVIOUS
<1>14. t \in RankState /\ t.isauth = s.isauth
    BY <1>1, <1>9, <1>11, <1>12 DEF RankState
<1>15. Imported(s, u, D, d, gone, settled) /\ u \in RankState /\ u.me = D /\ Speaks(u, D, gone, FALSE)
    <2>1. /\ t.imp = i /\ t.exp = s.exp /\ t.out = s.out /\ t.auth = a
          /\ t.me = s.me /\ t.map = s.map /\ t.epoch = s.epoch /\ t.wait = s.wait
          /\ t.log = s.log /\ t.amb = s.amb /\ t.other = s.other /\ t.resolved = s.resolved
        BY <1>1, <1>9, <1>11, <1>12 DEF RankState
    <2>2. /\ u \in RankState /\ u.imp = i /\ u.exp = s.exp /\ u.out = s.out /\ u.auth = a /\ u.isauth = s.isauth
          /\ u.me = s.me /\ u.map = s.map /\ u.epoch = s.epoch /\ u.wait = s.wait
          /\ u.log = s.log /\ u.amb = s.amb /\ u.other = s.other /\ u.resolved = s.resolved
          /\ u.frozen = "frozen"
        BY <1>13, <1>14, <2>1 DEF RankState
    <2>3. Speaks(u, D, gone, FALSE)
        BY <1>1, <2>2, SameOut
    <2>4. u.imp.state \in Begun
        BY <1>9, <2>2 DEF Begun
    <2> QED
        BY <1>1, <1>2, <1>9, <1>11, <2>2, <2>3, <2>4, ImportMoves
<1>16. FreezeTree(t) = u
    BY <1>13, <1>14 DEF FreezeTree
<1>17. PICK type, f : type = "PrepAck" /\ f = FALSE /\ type \in {"DiscoverAck", "PrepAck"} /\ f \in BOOLEAN
    OBVIOUS
<1>18. PICK w : w = ImportReverseFinal(s)
    OBVIOUS
<1>19. Imported(s, w, D, d, gone, settled) /\ w \in RankState /\ w.me = D /\ Speaks(w, D, gone, FALSE)
    <2>1. Imported(s, w, D, d, gone, settled)
        BY <1>18, ReverseFinalKeeps DEF Begun
    <2> QED
        BY <2>1 DEF Imported, Importing
<1>20. Imported(s, SendReply(u, E, Msg(type, tid)), D, d, gone, settled)
    <2>1. Alike(u, SendReply(u, E, Msg(type, tid))) /\ Speaks(SendReply(u, E, Msg(type, tid)), D, gone, FALSE)
        BY <1>1, <1>15, <1>17, Answers
    <2>2. Imported(u, SendReply(u, E, Msg(type, tid)), D, d, gone, settled)
        BY <1>15, <2>1, ImporterAlike DEF Imported
    <2> QED
        BY <1>15, <2>2, ImportedOnce
<1>21. Imported(s, SendReply(w, E, [Msg(type, tid) EXCEPT !.flag = f]), D, d, gone, settled)
    <2>1. /\ Alike(w, SendReply(w, E, [Msg(type, tid) EXCEPT !.flag = f]))
          /\ Speaks(SendReply(w, E, [Msg(type, tid) EXCEPT !.flag = f]), D, gone, FALSE)
        BY <1>1, <1>17, <1>19, Answers
    <2>2. Imported(w, SendReply(w, E, [Msg(type, tid) EXCEPT !.flag = f]), D, d, gone, settled)
        BY <1>19, <2>1, ImporterAlike DEF Imported
    <2> QED
        BY <1>19, <2>2, ImportedOnce
<1>22. t = [s EXCEPT !.imp.state = "prepped", !.auth = <<E, s.me>>]
    BY <1>1, <1>8, <1>10, <1>12
<1>23. v = [s EXCEPT !.wait = @ \cup {[kind |-> "prep", peer |-> E, tid |-> tid]}]
    BY <1>1, <1>3, <1>5, <1>6
<1> HIDE <1>3, <1>5, <1>6, <1>8, <1>10, <1>12, <1>13
<1>24. \/ Prepped(s, E, tid, opened, locks) = v
       \/ Prepped(s, E, tid, opened, locks) = SendReply(u, E, Msg(type, tid))
       \/ Prepped(s, E, tid, opened, locks) = SendReply(w, E, [Msg(type, tid) EXCEPT !.flag = f])
    BY <1>16, <1>17, <1>18, <1>22, <1>23 DEF Prepped
<1> QED
    BY <1>7, <1>20, <1>21, <1>24

LEMMA PrepKeeps ==
    ASSUME NEW s, NEW D, NEW d, NEW gone, NEW settled, Importing(s, D, d, gone, settled),
           NEW m \in Message, E \notin m.byst, D \notin m.byst, NEW opened, NEW locks
    PROVE  Imported(s, HandleExportPrep(s, E, m, opened, locks), D, d, gone, settled)
<1>1. /\ s \in RankState /\ D \in Ranks /\ s.me = D /\ D # E /\ Speaks(s, D, gone, FALSE) /\ E \in Ranks
      /\ ImporterOK(s, D, d, gone, settled) /\ s.imp \in ImportStateT
    BY ImporterIs
<1>2. PICK tid : tid = m.tid /\ tid \in Nat
    BY MessageFields
<1>3. PICK B : B = m.byst /\ B \in SUBSET Ranks
    BY MessageFields
<1>4. Imported(s, Die(s, "export_prep: discovered"), D, d, gone, settled)
    BY ImporterDies, Asserted
<1>5. ASSUME s.imp.state = "discovered", ~s.isauth
      PROVE  Imported(s, Prepped([s EXCEPT !.imp.state = "prepping", !.imp.byst = m.byst], E, m.tid, opened, locks),
                      D, d, gone, settled)
    <2>1. PICK i : i = [s.imp EXCEPT !.state = "prepping", !.byst = B]
        OBVIOUS
    <2>2. i \in ImportStateT /\ i.state = "prepping" /\ i.peer = s.imp.peer /\ i.byst = B
        BY <1>1, <1>3, <2>1 DEF ImportStateT, ImportStates
    <2>3. PICK t : t = [s EXCEPT !.imp = i]
        OBVIOUS
    <2>4. /\ t \in RankState /\ t.imp = i /\ t.exp = s.exp /\ t.out = s.out /\ t.auth = s.auth
          /\ t.me = s.me /\ t.map = s.map /\ t.epoch = s.epoch /\ t.isauth = s.isauth /\ t.wait = s.wait
          /\ t.log = s.log /\ t.amb = s.amb /\ t.other = s.other /\ t.resolved = s.resolved
        BY <1>1, <2>2, <2>3 DEF RankState
    <2>5. Imported(s, t, D, d, gone, settled)
        <3>1. Speaks(t, D, gone, FALSE)
            BY <1>1, <2>4, SameOut
        <3>2. t.imp.state \in Begun /\ t.imp.state # "prepped" /\ s.imp.state # "none" /\ s.imp.state \notin Late
            BY <1>5, <2>2, <2>4 DEF Begun, Late
        <3>3. Surviving(s) /\ s.imp.peer = E /\ Clean(s, d)
            BY <1>1, <1>5 DEF ImporterOK, Begun, Clean
        <3>4. t.imp.peer = E /\ E \notin t.imp.byst /\ D \notin t.imp.byst
            BY <1>3, <2>2, <2>4, <3>3
        <3> QED
            BY <1>1, <2>4, <3>1, <3>2, <3>3, <3>4, ImportMoves
    <2>6. Importing(t, D, d, gone, settled) /\ t.imp.state = "prepping" /\ ~t.isauth
        BY <1>5, <2>2, <2>4, <2>5 DEF Imported
    <2>7. Imported(t, Prepped(t, E, tid, opened, locks), D, d, gone, settled)
        BY <1>2, <2>6, PreppedKeeps
    <2>8. t = [s EXCEPT !.imp.state = "prepping", !.imp.byst = m.byst]
        BY <1>1, <1>3, <2>1, <2>3 DEF RankState
    <2>9. Imported(s, Prepped(t, E, tid, opened, locks), D, d, gone, settled)
        BY <2>5, <2>7, ImportedOnce
    <2> QED
        BY <1>2, <2>8, <2>9
<1> QED
    BY <1>4, <1>5 DEF HandleExportPrep

LEMMA RetryPrepKeeps ==
    ASSUME NEW s, NEW D, NEW d, NEW gone, NEW settled, Importing(s, D, d, gone, settled), NEW c \in s.wait,
           NEW opened, NEW locks
    PROVE  Imported(s, RetryExportPrep(s, c, opened, locks), D, d, gone, settled)
<1>1. s \in RankState /\ s.wait \in SUBSET Context /\ ImporterOK(s, D, d, gone, settled)
    BY ImporterIs
<1>2. c.peer = E /\ c \in Context
    BY <1>1 DEF ImporterOK
<1>3. PICK tid : tid = c.tid /\ tid \in Nat
    BY <1>2 DEF Context
<1>4. PICK W : W = s.wait \ {c}
    OBVIOUS
<1>5. PICK t : t = [s EXCEPT !.wait = W]
    OBVIOUS
<1>6. Imported(s, t, D, d, gone, settled) /\ t.imp = s.imp /\ t.isauth = s.isauth
    BY <1>4, <1>5, FewerParked
<1>7. t = [s EXCEPT !.wait = @ \ {c}]
    BY <1>4, <1>5
<1>9. Imported(s, Die(s, "prep retry: prepping"), D, d, gone, settled)
    BY ImporterDies, Asserted
<1>10. ASSUME s.imp.state = "prepping", ~s.isauth
       PROVE  Imported(s, Prepped(t, E, tid, opened, locks), D, d, gone, settled)
    <2>1. Importing(t, D, d, gone, settled) /\ t.imp.state = "prepping" /\ ~t.isauth
        BY <1>6, <1>10 DEF Imported
    <2>2. Imported(t, Prepped(t, E, tid, opened, locks), D, d, gone, settled)
        BY <1>3, <2>1, PreppedKeeps
    <2> QED
        BY <1>6, <2>2, ImportedOnce
<1> HIDE <1>4, <1>5
<1> QED
    BY <1>2, <1>3, <1>6, <1>7, <1>9, <1>10 DEF RetryExportPrep

(* handle_export_dir: the subtree is imported, in memory.  Nothing of the  *)
(* import is in the journal.                                               *)
LEMMA DirBegins ==
    ASSUME NEW s, NEW D, NEW d, NEW gone, NEW settled, Importing(s, D, d, gone, settled),
           Clean(s, d), NEW m \in Message
    PROVE  /\ Importing(HandleExportDir(s, E, m), D, d, gone, settled)
           /\ Frame(s, HandleExportDir(s, E, m))
           /\ Untouched(s, d) => Untouched(HandleExportDir(s, E, m), d)
<1>1. /\ s \in RankState /\ D \in Ranks /\ s.me = D /\ D # E /\ Speaks(s, D, gone, FALSE) /\ E \in Ranks
      /\ ImporterOK(s, D, d, gone, settled) /\ s.imp \in ImportStateT /\ s.log \in Seq(LogEntry)
    BY ImporterIs
<1>2. Imported(s, Die(s, "export_dir: prepped"), D, d, gone, settled)
    BY ImporterDies, Asserted
<1>3. PICK tid : tid = m.tid /\ tid \in Nat
    BY MessageFields
<1>4. CASE s.isauth \/ s.imp.state # "prepped" \/ s.imp.tid # m.tid \/ s.imp.peer # E
    <2>1. HandleExportDir(s, E, m) = Die(s, "export_dir: prepped")
        BY <1>4 DEF HandleExportDir
    <2> QED
        BY <1>2, <2>1 DEF Imported, Holds
<1>5. CASE ~(s.isauth \/ s.imp.state # "prepped" \/ s.imp.tid # m.tid \/ s.imp.peer # E)
    <2>1. PICK i : i = [s.imp EXCEPT !.state = "loggingstart"]
        OBVIOUS
    <2>2. i \in ImportStateT /\ i.state = "loggingstart" /\ i.peer = s.imp.peer /\ i.byst = s.imp.byst
        BY <1>1, <2>1 DEF ImportStateT, ImportStates
    <2>3. PICK a : a = <<D, E>>
        OBVIOUS
    <2>4. a \in MdsAuthority
        BY <1>1, <2>3, Authorities
    <2>5. PICK t : t = [s EXCEPT !.imp = i, !.isauth = TRUE, !.auth = a]
        OBVIOUS
    <2>6. /\ t \in RankState /\ t.imp = i /\ t.exp = s.exp /\ t.out = s.out /\ t.isauth = TRUE
          /\ t.me = s.me /\ t.map = s.map /\ t.epoch = s.epoch /\ t.wait = s.wait
          /\ t.log = s.log /\ t.amb = s.amb /\ t.other = s.other /\ t.resolved = s.resolved
          /\ t.frozen = s.frozen
        BY <1>1, <2>2, <2>4, <2>5 DEF RankState
    <2>7. PICK u : u = Submit(t, "EImportStart", tid)
        OBVIOUS
    <2>8. /\ Most(t, u) /\ u.exp = t.exp /\ u.frozen = t.frozen /\ u.isauth = t.isauth
          /\ u.out = t.out /\ u.wait = t.wait
          /\ Len(t.log) \in Nat /\ Len(u.log) = Len(t.log) + 1
          /\ u.log[Len(t.log) + 1].event = "EImportStart"
        <3>1. "EImportStart" \in LogEvent /\ tid \in Nat /\ t \in RankState
            BY <1>3, <2>6 DEF LogEvent
        <3> HIDE <1>3
        <3> QED
            BY <2>7, <3>1, SubmitIs
    <2>9. /\ u \in RankState /\ u.imp = i /\ u.exp = s.exp /\ u.out = s.out /\ u.isauth = TRUE
          /\ u.me = s.me /\ u.map = s.map /\ u.epoch = s.epoch /\ u.wait = s.wait
          /\ u.amb = s.amb /\ u.other = s.other /\ u.resolved = s.resolved
          /\ u.frozen = s.frozen
        BY <2>6, <2>8 DEF Most
    <2>10. Len(t.log) = 0
        BY <2>6, EmptySeq DEF Clean
    <2>11. Len(u.log) = 1 /\ Event(u.log, 1, "EImportStart")
        BY <2>8, <2>10 DEF Event
    <2>12. JournalOK(u, d, gone)
        BY <2>2, <2>9, <2>11 DEF JournalOK, Clean
    <2>13. s.imp.state = "prepped" /\ s.frozen = "frozen"
        BY <1>1, <1>5 DEF ImporterOK
    <2>14. ImporterOK(u, D, d, gone, settled)
        <3>1. Surviving(u) /\ (u.amb => gone)
            BY <1>1, <2>9, <2>13 DEF ImporterOK, Surviving, Undecided
        <3>2. u.exp.state = "none" /\ u.other = {} /\ \A c \in u.wait : c.kind \in {"discover", "prep"} /\ c.peer = E
            BY <1>1, <2>9 DEF ImporterOK
        <3>3. u.imp.state = "loggingstart" /\ u.imp.peer = E /\ E \notin u.imp.byst /\ D \notin u.imp.byst
            BY <1>1, <2>2, <2>9, <2>13 DEF ImporterOK
        <3>4. u.isauth /\ u.frozen = "frozen"
            BY <2>9, <2>13
        <3> QED
            BY <2>12, <3>1, <3>2, <3>3, <3>4 DEF ImporterOK, Late, Begun
    <2>15. Speaks(u, D, gone, FALSE)
        BY <1>1, <2>9, SameOut
    <2>16. HandleExportDir(s, E, m) = u
        BY <1>1, <1>3, <1>5, <2>1, <2>3, <2>5, <2>7 DEF HandleExportDir
    <2>17. ~Untouched(s, d)
        BY <2>13 DEF Untouched
    <2> QED
        BY <1>1, <2>9, <2>14, <2>15, <2>16, <2>17, ImporterIs DEF Importing, Frame
<1> QED
    BY <1>4, <1>5

(* A bystander has answered, or is not waited for any more.                *)
LEMMA UndoneKeeps ==
    ASSUME NEW s, NEW D, NEW d, NEW gone, NEW settled, Importing(s, D, d, gone, settled), NEW who, NEW u,
           u = [s EXCEPT !.imp.byst = @ \ {who}]
    PROVE  /\ Imported(s, u, D, d, gone, settled)
           /\ s.imp.state = "aborting" => Imported(s, ImportReverseUnfreeze(u), D, d, gone, settled)
<1>1. s \in RankState /\ s.imp \in ImportStateT
    BY ImporterIs
<1>2. PICK B : B = s.imp.byst \ {who}
    OBVIOUS
<1>3. u = [s EXCEPT !.imp.byst = B]
    BY <1>1, <1>2
<1>4. Imported(s, u, D, d, gone, settled) /\ u.imp.state = s.imp.state
    BY <1>2, <1>3, FewerBystanders
<1>5. ASSUME s.imp.state = "aborting"
      PROVE  Imported(s, ImportReverseUnfreeze(u), D, d, gone, settled)
    <2>1. Importing(u, D, d, gone, settled) /\ u \in RankState /\ u.auth \in MdsAuthority
        BY <1>4, ImporterIs DEF Imported
    <2>2. PICK a : a = u.auth
        OBVIOUS
    <2>3. u = [u EXCEPT !.auth = a]
        BY <2>1, <2>2 DEF RankState
    <2>4. Imported(u, ImportReverseUnfreeze(u), D, d, gone, settled)
        BY <1>4, <1>5, <2>1, <2>2, <2>3, ReverseUnfreezeKeeps
    <2> QED
        BY <1>4, <2>4, ImportedOnce
<1> QED
    BY <1>4, <1>5

LEMMA ImporterNotifyAck ==
    ASSUME NEW s, NEW D, NEW d, NEW gone, NEW settled, Importing(s, D, d, gone, settled), NEW from, NEW m
    PROVE  Imported(s, HandleExportNotifyAck(s, from, m), D, d, gone, settled)
<1>1. s.exp.state = "none"
    BY ImporterIs
<1>2. PICK u : u = [s EXCEPT !.imp.byst = @ \ {from}]
    OBVIOUS
<1>3. /\ Imported(s, u, D, d, gone, settled)
      /\ s.imp.state = "aborting" => Imported(s, ImportReverseUnfreeze(u), D, d, gone, settled)
    BY <1>2, UndoneKeeps
<1>4. Imported(s, Die(s, "notify_ack: bystander"), D, d, gone, settled)
    BY ImporterDies, Asserted
<1>5. Imported(s, s, D, d, gone, settled)
    BY ImportedItself
<1> QED
    BY <1>1, <1>2, <1>3, <1>4, <1>5 DEF HandleExportNotifyAck, IsExporting

LEMMA ImportPeerFailureKeeps ==
    ASSUME NEW s, NEW D, NEW d, NEW gone, NEW settled, Importing(s, D, d, gone, settled), NEW who
    PROVE  Imported(s, ImportPeerFailure(s, who), D, d, gone, settled)
<1>1. s \in RankState /\ s.imp.state \in ImportStates /\ ImporterOK(s, D, d, gone, settled)
    BY ImporterIs
<1>2. PICK u : u = [s EXCEPT !.imp.byst = @ \ {who}]
    OBVIOUS
<1>3. /\ Imported(s, u, D, d, gone, settled)
      /\ s.imp.state = "aborting" => Imported(s, ImportReverseUnfreeze(u), D, d, gone, settled)
    BY <1>2, UndoneKeeps
<1>4. Imported(s, s, D, d, gone, settled)
    BY ImportedItself
<1>5. s.imp.state \in {"discovering", "discovered"} => Imported(s, [s EXCEPT !.imp = NoImport], D, d, gone, settled)
    BY ReverseFinalKeeps DEF Begun
<1>6. s.imp.state = "prepping" => Imported(s, ImportReverseFinal(s), D, d, gone, settled)
    BY ReverseFinalKeeps DEF Begun
<1>7. s.imp.state = "prepped" =>
        Imported(s, ImportNotifyAbort([GiveBack(s) EXCEPT !.imp.state = "aborting"]), D, d, gone, settled)
    BY PreppedAborts
<1>8. s.imp.state = "loggingstart" => Imported(s, ImportReverse(s), D, d, gone, settled)
    BY ImportReverseKeeps
<1>9. s.imp.state = "finishing" => Imported(s, ImportFinish(s, TRUE, TRUE), D, d, gone, settled)
    <2>1. s.imp.state = "finishing" => gone
        BY <1>1 DEF ImporterOK
    <2>2. PICK n : n = TRUE
        OBVIOUS
    <2>3. s.imp.state = "finishing" => Imported(s, ImportFinish(s, n, n), D, d, gone, settled)
        BY <2>1, ImportFinishKeeps
    <2> QED
        BY <2>2, <2>3
<1>10. ASSUME s.imp.state = "acking"
       PROVE  Imported(s, [s EXCEPT !.amb = TRUE], D, d, gone, settled)
    <2>1. PICK t : t = [s EXCEPT !.amb = TRUE]
        OBVIOUS
    <2>2. /\ t \in RankState /\ t.imp = s.imp /\ t.exp = s.exp /\ t.out = s.out /\ t.auth = s.auth
          /\ t.me = s.me /\ t.map = s.map /\ t.epoch = s.epoch /\ t.isauth = s.isauth /\ t.wait = s.wait
          /\ t.log = s.log /\ t.amb = TRUE /\ t.other = s.other /\ t.gather = s.gather
          /\ t.resolved = s.resolved /\ t.frozen = s.frozen
        BY <1>1, <2>1 DEF RankState
    <2>3. ImporterOK(t, D, d, gone, settled)
        <3>1. Surviving(t) <=> Surviving(s)
            BY <2>2 DEF Surviving
        <3>2. JournalOK(s, d, gone) => JournalOK(t, d, gone)
            BY <2>2 DEF JournalOK
        <3> QED
            BY <1>1, <1>10, <2>2, <3>1, <3>2 DEF ImporterOK, Late, Begun
    <2>4. Speaks(t, D, gone, FALSE)
        BY <2>2, SameOut DEF Importing
    <2>5. Holds(s, d, t, d, settled)
        BY <1>10, <2>2 DEF Holds, Clean, Untouched, Bound
    <2>6. Imported(s, t, D, d, gone, settled)
        BY <2>2, <2>3, <2>4, <2>5 DEF Imported, Importing, Frame
    <2> QED
        BY <2>1, <2>6
<1> QED
    BY <1>2, <1>3, <1>4, <1>5, <1>6, <1>7, <1>8, <1>9, <1>10 DEF ImportPeerFailure

(* A rank that does not export: the loop over the exports does nothing.    *)
LEMMA NoExportFailure ==
    ASSUME NEW s \in RankState, s.exp.state = "none", NEW who
    PROVE  \E e \in ExportStateT : e.state = "none" /\ ExportPeerFailure(s, who) = [s EXCEPT !.exp = e]
<1>1. s.exp \in ExportStateT
    BY RankFields
<1>2. PICK W, V, N :
          /\ W = s.exp.warn \ {who}
          /\ V = IF who \in s.exp.warn /\ s.exp.state = "warning" THEN s.exp.notify \ {who}
                 ELSE s.exp.notify
          /\ N = V \ {who}
    OBVIOUS
<1>3. W \in SUBSET (Ranks \cup {NONE}) /\ V \in SUBSET Ranks /\ N \in SUBSET Ranks
    BY <1>1, <1>2, ExportFields
<1>4. PICK e, f : e = [s.exp EXCEPT !.warn = W, !.notify = V] /\ f = [s.exp EXCEPT !.warn = W, !.notify = N]
    OBVIOUS
<1>5. e \in ExportStateT /\ f \in ExportStateT /\ e.state = "none" /\ f.state = "none" /\ f.notify = N
    BY <1>1, <1>3, <1>4 DEF ExportStateT
<1>6. PICK w, n : w = [s EXCEPT !.exp = e] /\ n = [s EXCEPT !.exp = f]
    OBVIOUS
<1>7. w = [s EXCEPT !.exp.warn = @ \ {who},
                    !.exp.notify = IF who \in s.exp.warn /\ s.exp.state = "warning" THEN @ \ {who} ELSE @]
    BY <1>1, <1>2, <1>4, <1>6 DEF RankState, ExportStateT
<1>8. n = [w EXCEPT !.exp.notify = @ \ {who}]
    BY <1>1, <1>2, <1>4, <1>6 DEF RankState, ExportStateT
<1>9. s = [s EXCEPT !.exp = s.exp]
    BY DEF RankState
<1>10. ExportTryCancel(s, TRUE) = s
    BY DEF ExportTryCancel
<1>11. ExportPeerFailure(s, who) = s \/ ExportPeerFailure(s, who) = n
    <2> HIDE <1>2, <1>4, <1>6
    <2> DEFINE Q(x) == x = s \/ x = n
    <2>1. Q(s) /\ Q(n) /\ Q(ExportTryCancel(s, TRUE))
        BY <1>10
    <2> HIDE DEF Q
    <2>2. Q(ExportPeerFailure(s, who))
        BY <1>7, <1>8, <2>1 DEF ExportPeerFailure
    <2> QED
        BY <2>2 DEF Q
<1> QED
    BY <1>1, <1>5, <1>6, <1>9, <1>11

LEMMA ImporterFailure ==
    ASSUME NEW s, NEW D, NEW d, NEW gone, NEW settled, Importing(s, D, d, gone, settled), NEW who \in Ranks
    PROVE  Imported(s, HandleMdsFailure(s, who), D, d, gone, settled)
<1>1. s \in RankState /\ s.gather \in SUBSET Ranks /\ ImporterOK(s, D, d, gone, settled) /\ s.exp.state = "none"
    BY ImporterIs, RankFields
<1>2. PICK g : g = s.gather \cup {who}
    OBVIOUS
<1>3. g \in SUBSET Ranks
    BY <1>1, <1>2
<1>4. PICK t : t = [s EXCEPT !.gather = g]
    OBVIOUS
<1>5. /\ t \in RankState /\ t.me = s.me /\ t.map = s.map /\ t.epoch = s.epoch /\ t.exp = s.exp
      /\ t.imp = s.imp /\ t.auth = s.auth /\ t.isauth = s.isauth /\ t.frozen = s.frozen
      /\ t.wait = s.wait /\ t.log = s.log /\ t.amb = s.amb /\ t.other = s.other
      /\ t.resolved = s.resolved /\ t.out = s.out /\ t.gather = g
    BY <1>1, <1>3, <1>4 DEF RankState
<1>6. PICK e \in ExportStateT : e.state = "none" /\ ExportPeerFailure(t, who) = [t EXCEPT !.exp = e]
    BY <1>1, <1>5, NoExportFailure
<1>7. PICK u : u = [t EXCEPT !.exp = e]
    OBVIOUS
<1>8. /\ u \in RankState /\ u.me = s.me /\ u.map = s.map /\ u.epoch = s.epoch /\ u.exp = e
      /\ u.imp = s.imp /\ u.auth = s.auth /\ u.isauth = s.isauth /\ u.frozen = s.frozen
      /\ u.wait = s.wait /\ u.log = s.log /\ u.amb = s.amb /\ u.other = s.other
      /\ u.resolved = s.resolved /\ u.out = s.out /\ u.gather = g
    BY <1>5, <1>7 DEF RankState
<1>9. ImporterOK(u, D, d, gone, settled)
    <2>1. Surviving(u) <=> Surviving(s)
        BY <1>8 DEF Surviving
    <2>2. JournalOK(s, d, gone) => JournalOK(u, d, gone)
        BY <1>8 DEF JournalOK
    <2>3. Undecided(s, D, gone, settled) => Undecided(u, D, gone, settled)
        BY <1>2, <1>8 DEF Undecided
    <2> QED
        BY <1>1, <1>6, <1>8, <2>1, <2>2, <2>3 DEF ImporterOK
<1>10. Speaks(u, D, gone, FALSE)
    BY <1>8, SameOut DEF Importing
<1>11. Holds(s, d, u, d, settled)
    BY <1>8, HoldsSame
<1>12. Imported(s, u, D, d, gone, settled)
    BY <1>8, <1>9, <1>10, <1>11 DEF Imported, Importing, Frame
<1>13. Imported(u, ImportPeerFailure(u, who), D, d, gone, settled)
    BY <1>12, ImportPeerFailureKeeps DEF Imported
<1>14. HandleMdsFailure(s, who) = ImportPeerFailure(u, who)
    BY <1>2, <1>4, <1>6, <1>7 DEF HandleMdsFailure, HandleMdsFailureOrStop
<1> QED
    BY <1>12, <1>13, <1>14, ImportedOnce

-----------------------------------------------------------------------------
(* The resolve stage at the importer.  A resolve of the exporter tells how *)
(* the export ended.                                                       *)
Hears(s, t, from, flag, g) ==
    t = [s EXCEPT !.auth = IF flag THEN Sole(from) ELSE @, !.gather = g] /\ g = s.gather \ {from}
Told(s, d, from, flag, gone, settled) ==
    /\ flag => from = E /\ (Untouched(s, d) \/ settled)
    /\ from = E /\ ~flag => gone
LEMMA HearsKeeps ==
    ASSUME NEW s, NEW D, NEW d, NEW gone, NEW settled, Importing(s, D, d, gone, settled),
           NEW from \in Ranks, from # D, NEW flag \in BOOLEAN, Told(s, d, from, flag, gone, settled),
           NEW g, NEW t, Hears(s, t, from, flag, g)
    PROVE  Imported(s, t, D, d, gone, settled) /\ t.imp = s.imp /\ t.gather = g /\ t.died = s.died
<1>0. PICK a : a = IF flag THEN Sole(from) ELSE s.auth
    OBVIOUS
<1>a. t = [s EXCEPT !.auth = a, !.gather = g] /\ g = s.gather \ {from}
    BY <1>0 DEF Hears
<1>b. /\ flag => from = E
      /\ from = E /\ flag => Untouched(s, d) \/ settled
      /\ from = E /\ ~flag => gone
    BY DEF Told
<1>1. /\ s \in RankState /\ s.gather \in SUBSET Ranks /\ ImporterOK(s, D, d, gone, settled) /\ s.me = D
      /\ E \in Ranks /\ D # E
    BY ImporterIs, RankFields
<1>2. a \in MdsAuthority /\ (flag => a = Sole(E) /\ a[1] = E)
    BY <1>0, <1>b, <1>1, Authorities, RankFields DEF Sole
<1>3. /\ t \in RankState /\ t.me = s.me /\ t.map = s.map /\ t.epoch = s.epoch /\ t.exp = s.exp
      /\ t.imp = s.imp /\ t.auth = a /\ t.isauth = s.isauth /\ t.frozen = s.frozen
      /\ t.wait = s.wait /\ t.log = s.log /\ t.amb = s.amb /\ t.other = s.other
      /\ t.resolved = s.resolved /\ t.out = s.out /\ t.gather = g /\ t.died = s.died
    BY <1>a, <1>1, <1>2 DEF RankState
<1>4. t.auth[1] = D => t.auth = s.auth
    BY <1>0, <1>b, <1>1, <1>2, <1>3
<1>5. s.amb /\ Undecided(s, D, gone, settled) => Undecided(t, D, gone, settled)
    <2>1. SUFFICES ASSUME s.amb, Undecided(s, D, gone, settled) PROVE Undecided(t, D, gone, settled)
        OBVIOUS
    <2>2. /\ s.imp.state = "none" /\ ~s.isauth /\ s.map[D] = "resolve" /\ ~s.resolved
          /\ s.auth = <<D, D>> \/ (s.auth = Sole(E) /\ settled)
          /\ s.auth = <<D, D>> /\ E \notin s.gather => gone
        BY <2>1 DEF Undecided
    <2>3. ~Untouched(s, d)
        BY <2>1 DEF Untouched
    <2>4. t.auth = <<D, D>> \/ (t.auth = Sole(E) /\ settled)
        BY <1>0, <1>b, <1>2, <1>3, <2>2, <2>3
    <2>5. t.auth = <<D, D>> => ~flag /\ s.auth = <<D, D>>
        BY <1>0, <1>1, <1>2, <1>3 DEF Sole
    <2>6. t.auth = <<D, D>> /\ E \notin t.gather => gone
        BY <1>a, <1>b, <1>3, <2>2, <2>5
    <2> QED
        BY <1>3, <2>2, <2>4, <2>6 DEF Undecided
<1>6. ImporterOK(t, D, d, gone, settled)
    <2>1. Surviving(t) <=> Surviving(s)
        BY <1>3 DEF Surviving
    <2>2. JournalOK(s, d, gone) => JournalOK(t, d, gone)
        BY <1>3 DEF JournalOK
    <2> QED
        BY <1>1, <1>3, <1>4, <1>5, <2>1, <2>2 DEF ImporterOK
<1>7. Speaks(t, D, gone, FALSE)
    BY <1>3, SameOut DEF Importing
<1>8. Holds(s, d, t, d, settled)
    BY <1>3, HoldsSame
<1> QED
    BY <1>3, <1>6, <1>7, <1>8, ImporterIs DEF Imported, Importing, Frame

LEMMA NoOtherImports ==
    ASSUME NEW s \in RankState, s.other = {}
    PROVE  DisambiguateOtherImports(s) = s
<1>1. DisambiguateOtherImports(s) = [s EXCEPT !.auth = s.auth, !.other = {}]
    BY DEF DisambiguateOtherImports
<1>2. [s EXCEPT !.auth = s.auth, !.other = {}] = s
    BY DEF RankState
<1> QED
    BY <1>1, <1>2

(* An import that was not over when this rank failed is undone if the      *)
(* exporter has claimed the subtree, and done if every rank has spoken and *)
(* nobody has.                                                             *)
Decides(s, D, event, a) ==
    \/ event = "EImportFinishFalse" /\ s.auth # <<D, D>> /\ a = s.auth
    \/ event = "EImportFinishTrue" /\ s.auth = <<D, D>> /\ s.gather = {}
Judged(s, t, a) ==
    /\ t \in RankState /\ t.me = s.me /\ t.map = s.map /\ t.epoch = s.epoch /\ t.exp = s.exp
    /\ t.imp = s.imp /\ t.auth = a /\ t.isauth = s.isauth /\ t.frozen = s.frozen
    /\ t.wait = s.wait /\ t.log = s.log /\ t.amb = FALSE /\ t.other = s.other
    /\ t.resolved = s.resolved /\ t.out = s.out
LEMMA DecidedKeeps ==
    ASSUME NEW s, NEW D, NEW d, NEW gone, NEW settled, Importing(s, D, d, gone, settled), s.amb,
           s.map[D] = "resolve", NEW a \in MdsAuthority, NEW event, Decides(s, D, event, a), NEW n \in Nat,
           NEW t, Judged(s, t, a)
    PROVE  /\ Imported(s, Submit(t, event, n), D, d, gone, settled)
           /\ ~Submit(t, event, n).amb /\ Submit(t, event, n).imp = s.imp
<1>0. PICK u : u = Submit(t, event, n)
    OBVIOUS
<1>1. /\ s \in RankState /\ ImporterOK(s, D, d, gone, settled) /\ s.me = D
      /\ E \in Ranks /\ D # E /\ D \in Ranks /\ s.log \in Seq(LogEntry)
    BY ImporterIs
<1>2. ~Surviving(s)
    BY <1>1 DEF Surviving, ActiveOrStopping
<1>3. d = "ambig" /\ s.log = <<>> /\ Undecided(s, D, gone, settled)
    BY <1>1, <1>2 DEF ImporterOK
<1>4. /\ s.imp.state = "none" /\ ~s.isauth
      /\ s.auth = <<D, D>> \/ (s.auth = Sole(E) /\ settled)
      /\ s.auth = <<D, D>> /\ E \notin s.gather => gone
    BY <1>3 DEF Undecided
<1>5. /\ t \in RankState /\ t.me = s.me /\ t.map = s.map /\ t.epoch = s.epoch /\ t.exp = s.exp
      /\ t.imp = s.imp /\ t.auth = a /\ t.isauth = s.isauth /\ t.frozen = s.frozen
      /\ t.wait = s.wait /\ t.log = s.log /\ t.amb = FALSE /\ t.other = s.other
      /\ t.resolved = s.resolved /\ t.out = s.out
    BY DEF Judged
<1>6. event \in LogEvent
    BY DEF Decides, LogEvent
<1>7. /\ Most(t, u) /\ u.exp = t.exp /\ u.frozen = t.frozen /\ u.auth = t.auth /\ u.isauth = t.isauth
      /\ u.out = t.out /\ u.wait = t.wait
      /\ Len(t.log) \in Nat /\ Len(u.log) = Len(t.log) + 1 /\ u.log[Len(t.log) + 1].event = event
    BY <1>0, <1>5, <1>6, SubmitIs
<1>8. Len(t.log) = 0
    BY <1>3, <1>5, EmptySeq
<1>9. Len(u.log) = 1 /\ Event(u.log, 1, event)
    <2>1. PICK k : k = Len(t.log)
        OBVIOUS
    <2>2. k = 0 /\ Len(u.log) = k + 1 /\ u.log[k + 1].event = event
        BY <1>7, <1>8, <2>1
    <2>3. k + 1 = 1
        BY <2>2
    <2> QED
        BY <2>2, <2>3 DEF Event
<1> HIDE <1>0
<1>10. /\ u \in RankState /\ u.me = s.me /\ u.map = s.map /\ u.epoch = s.epoch /\ u.exp = s.exp
       /\ u.imp = s.imp /\ u.auth = a /\ u.isauth = s.isauth /\ u.frozen = s.frozen
       /\ u.wait = s.wait /\ u.amb = FALSE /\ u.other = s.other
       /\ u.resolved = s.resolved /\ u.out = s.out
    BY <1>5, <1>7 DEF Most
<1>11. event = "EImportFinishTrue" => gone
    BY <1>4 DEF Decides
<1>12. JournalOK(u, d, gone)
    BY <1>3, <1>4, <1>9, <1>10, <1>11 DEF JournalOK, Decides
<1>13. u.auth[1] = D => gone
    <2>1. Sole(E)[1] # D
        BY <1>1 DEF Sole
    <2> QED
        BY <1>4, <1>10, <1>11, <2>1 DEF Decides
<1>14. ImporterOK(u, D, d, gone, settled)
    <2>1. u.imp.state = "none" /\ ~u.isauth /\ ~u.amb
        BY <1>4, <1>10
    <2>2. u.exp.state = "none" /\ u.other = {} /\ \A c \in u.wait : c.kind \in {"discover", "prep"} /\ c.peer = E
        BY <1>1, <1>10 DEF ImporterOK
    <2> QED
        BY <1>12, <1>13, <2>1, <2>2 DEF ImporterOK, Late, Begun
<1>15. Speaks(u, D, gone, FALSE)
    BY <1>10, SameOut DEF Importing
<1>16. Holds(s, d, u, d, settled)
    <2>1. event = "EImportFinishTrue" => Bound(u, d)
        BY <1>3, <1>9 DEF Bound, Event
    <2>2. event = "EImportFinishFalse" => settled
        BY <1>4 DEF Decides
    <2> QED
        BY <1>3, <2>1, <2>2 DEF Holds, Clean, Untouched, Decides
<1>17. Imported(s, u, D, d, gone, settled) /\ ~u.amb /\ u.imp = s.imp
    BY <1>10, <1>14, <1>15, <1>16, ImporterIs DEF Imported, Importing, Frame
<1> QED
    BY <1>0, <1>17

LEMMA MyImportsKeep ==
    ASSUME NEW s, NEW D, NEW d, NEW gone, NEW settled, Importing(s, D, d, gone, settled), s.gather = {},
           NEW r, r = DisambiguateMyImports(s)
    PROVE  /\ Imported(s, r, D, d, gone, settled)
           /\ r.died # "" \/ (r.imp = s.imp /\ (s.map[D] = "resolve" => ~r.amb))
<1>1. /\ s \in RankState /\ ImporterOK(s, D, d, gone, settled) /\ s.me = D /\ s.other = {}
      /\ E \in Ranks /\ D # E /\ D \in Ranks /\ s.log \in Seq(LogEntry) /\ s.auth \in MdsAuthority
    BY ImporterIs
<1>2. DisambiguateOtherImports(s) = s
    BY <1>1, NoOtherImports
<1>3. ASSUME NEW w \in Assertions, w # "", r = Die(s, w)
      PROVE  Imported(s, r, D, d, gone, settled) /\ r.died # ""
    <2>1. Imported(s, Die(s, w), D, d, gone, settled)
        BY <1>3, ImporterDies
    <2>2. Die(s, w).died = w
        BY <1>1 DEF Die, RankState
    <2> QED
        BY <1>3, <2>1, <2>2
<1>4. CASE s.map[D] # "resolve"
    <2>1. r = Die(s, "my_ambiguous_imports.empty()") \/ r = s
        BY <1>1, <1>2, <1>4 DEF DisambiguateMyImports
    <2>2. Imported(s, s, D, d, gone, settled)
        BY ImportedItself
    <2> QED
        BY <1>3, <1>4, <2>1, <2>2, Asserted
<1>5. CASE s.map[D] = "resolve" /\ ~s.amb
    <2>1. r = Die(s, "dir_auth is still ambiguous") \/ r = s
        BY <1>1, <1>2, <1>5 DEF DisambiguateMyImports
    <2>2. Imported(s, s, D, d, gone, settled)
        BY ImportedItself
    <2>3. CASE r = s
        BY <1>5, <2>2, <2>3
    <2>4. CASE r = Die(s, "dir_auth is still ambiguous")
        <3>1. Imported(s, r, D, d, gone, settled) /\ r.died # ""
            BY <1>3, <2>4, Asserted
        <3> QED
            BY <3>1
    <2> QED
        BY <2>1, <2>3, <2>4
<1>6. CASE s.map[D] = "resolve" /\ s.amb
    <2>1. PICK lost : lost = Submit([s EXCEPT !.amb = FALSE], "EImportFinishFalse", 0)
        OBVIOUS
    <2>2. PICK a, b : a = s.auth /\ b = Sole(D)
        OBVIOUS
    <2>3. PICK won : won = Submit([s EXCEPT !.amb = FALSE, !.auth = Sole(D)], "EImportFinishTrue", 0)
        OBVIOUS
    <2>4. \/ r = Die(s, "ambiguous import: no us") \/ r = Die(s, "dir_auth is still ambiguous")
          \/ s.auth # <<D, D>> /\ r = lost
          \/ s.auth = <<D, D>> /\ r = won
        BY <1>1, <1>2, <1>6, <2>1, <2>3 DEF DisambiguateMyImports
    <2>5. a \in MdsAuthority /\ b \in MdsAuthority
        BY <1>1, <2>2, Authorities
    <2>6. ASSUME s.auth # <<D, D>>, r = lost
          PROVE  Imported(s, r, D, d, gone, settled) /\ ~r.amb /\ r.imp = s.imp
        <3>1. PICK t : t = [s EXCEPT !.amb = FALSE, !.auth = a]
            OBVIOUS
        <3>2. t = [s EXCEPT !.amb = FALSE]
            BY <1>1, <2>2, <3>1 DEF RankState
        <3>3. PICK ev : ev = "EImportFinishFalse"
            OBVIOUS
        <3>4. PICK n \in Nat : r = Submit(t, ev, n)
            BY <2>1, <2>6, <3>2, <3>3
        <3>5. Decides(s, D, ev, a)
            BY <2>2, <2>6, <3>3 DEF Decides
        <3>6. Judged(s, t, a)
            BY <1>1, <2>5, <3>1 DEF Judged, RankState
        <3> HIDE <2>1, <2>2, <2>3, <3>1, <3>2, <3>3
        <3> QED
            BY <1>6, <2>5, <3>4, <3>5, <3>6, DecidedKeeps
    <2>7. ASSUME s.auth = <<D, D>>, r = won
          PROVE  Imported(s, r, D, d, gone, settled) /\ ~r.amb /\ r.imp = s.imp
        <3>1. PICK t : t = [s EXCEPT !.amb = FALSE, !.auth = b]
            OBVIOUS
        <3>3. PICK ev : ev = "EImportFinishTrue"
            OBVIOUS
        <3>4. PICK n \in Nat : r = Submit(t, ev, n)
            BY <2>2, <2>3, <2>7, <3>1, <3>3
        <3>5. Decides(s, D, ev, b)
            BY <2>7, <3>3 DEF Decides
        <3>6. Judged(s, t, b)
            BY <1>1, <2>5, <3>1 DEF Judged, RankState
        <3> HIDE <2>1, <2>2, <2>3, <3>1, <3>3
        <3> QED
            BY <1>6, <2>5, <3>4, <3>5, <3>6, DecidedKeeps
    <2>8. CASE r = Die(s, "ambiguous import: no us")
        <3>1. Imported(s, r, D, d, gone, settled) /\ r.died # ""
            BY <1>3, <2>8, Asserted
        <3> QED
            BY <3>1
    <2>9. CASE r = Die(s, "dir_auth is still ambiguous")
        <3>1. Imported(s, r, D, d, gone, settled) /\ r.died # ""
            BY <1>3, <2>9, Asserted
        <3> QED
            BY <3>1
    <2> QED
        BY <2>4, <2>6, <2>7, <2>8, <2>9
<1> QED
    BY <1>4, <1>5, <1>6

LEMMA PendingJoin ==
    ASSUME NEW s, NEW D, NEW d, NEW gone, NEW settled, Importing(s, D, d, gone, settled), NEW b \in BOOLEAN
    PROVE  Imported(s, [s EXCEPT !.jpending = b], D, d, gone, settled)
<1>1. s \in RankState /\ Speaks(s, D, gone, FALSE)
    BY ImporterIs
<1>2. PICK t : t = [s EXCEPT !.jpending = b]
    OBVIOUS
<1>3. Alike(s, t) /\ t.out = s.out
    BY <1>1, <1>2, PendingAlike
<1>4. Speaks(t, D, gone, FALSE)
    BY <1>1, <1>3, SameOut DEF Alike
<1> QED
    BY <1>2, <1>3, <1>4, ImporterAlike

LEMMA RejoinKeeps ==
    ASSUME NEW s, NEW D, NEW d, NEW gone, NEW settled, Importing(s, D, d, gone, settled)
    PROVE  Imported(s, RejoinSendRejoins(s), D, d, gone, settled)
<1>1. s \in RankState /\ s.other = {}
    BY ImporterIs
<1>2. DisambiguateOtherImports(s) = s
    BY <1>1, NoOtherImports
<1>3. Imported(s, Die(s, "rejoin: !is_importing, !is_exporting"), D, d, gone, settled)
    BY ImporterDies, Asserted
<1>4. Imported(s, [s EXCEPT !.jpending = TRUE], D, d, gone, settled)
      /\ Imported(s, [s EXCEPT !.jpending = FALSE], D, d, gone, settled)
    <2>1. PICK b, c : b = TRUE /\ c = FALSE
        OBVIOUS
    <2>2. b \in BOOLEAN /\ c \in BOOLEAN
        BY <2>1
    <2>3. Imported(s, [s EXCEPT !.jpending = b], D, d, gone, settled)
          /\ Imported(s, [s EXCEPT !.jpending = c], D, d, gone, settled)
        BY <2>2, PendingJoin
    <2> QED
        BY <2>1, <2>3
<1> QED
    BY <1>2, <1>3, <1>4 DEF RejoinSendRejoins

(* resolve_done on a rank that resolves: the auth bit is recomputed.       *)
LEMMA ResolvedKeeps ==
    ASSUME NEW s, NEW D, NEW d, NEW gone, NEW settled, Importing(s, D, d, gone, settled), ~s.amb,
           s.map[D] = "resolve", NEW b \in BOOLEAN, b = (s.auth[1] = D), NEW t,
           t = [s EXCEPT !.isauth = b, !.resolved = TRUE]
    PROVE  Imported(s, t, D, d, gone, settled)
<1>1. s \in RankState /\ s.me = D /\ ImporterOK(s, D, d, gone, settled)
    BY ImporterIs
<1>2. /\ t \in RankState /\ t.me = s.me /\ t.map = s.map /\ t.epoch = s.epoch /\ t.exp = s.exp
      /\ t.imp = s.imp /\ t.auth = s.auth /\ t.isauth = b /\ t.frozen = s.frozen
      /\ t.wait = s.wait /\ t.log = s.log /\ t.amb = s.amb /\ t.other = s.other
      /\ t.resolved = TRUE /\ t.out = s.out
    BY <1>1 DEF RankState
<1>3. s.imp.state = "none"
    <2>1. ~Surviving(s)
        BY <1>1 DEF Surviving, ActiveOrStopping
    <2> QED
        BY <1>1, <2>1 DEF ImporterOK
<1>4. (t.isauth => gone) /\ (t.auth[1] = D => gone)
    BY <1>1, <1>2, <1>3 DEF ImporterOK, Late
<1>5. ImporterOK(t, D, d, gone, settled)
    <2>0. JournalOK(s, d, gone)
        BY <1>1 DEF ImporterOK
    <2>1. JournalOK(t, d, gone)
        BY <1>2, <2>0 DEF JournalOK
    <2>2. t.imp.state = "none" /\ ~t.amb
        BY <1>2, <1>3
    <2>3. t.exp.state = "none" /\ t.other = {} /\ \A c \in t.wait : c.kind \in {"discover", "prep"} /\ c.peer = E
        BY <1>1, <1>2 DEF ImporterOK
    <2> QED
        BY <1>4, <2>1, <2>2, <2>3 DEF ImporterOK, Late, Begun
<1>6. Speaks(t, D, gone, FALSE)
    <2>1. Speaks(s, D, gone, FALSE)
        BY ImporterIs
    <2> QED
        BY <1>2, <2>1 DEF Speaks, Fit
<1>7. Holds(s, d, t, d, settled)
    BY <1>2, HoldsSame
<1> QED
    BY <1>2, <1>5, <1>6, <1>7, ImporterIs DEF Imported, Importing, Frame

LEMMA ResolveFinishKeeps ==
    ASSUME NEW s, NEW D, NEW d, NEW gone, NEW settled, Importing(s, D, d, gone, settled)
    PROVE  Imported(s, MaybeResolveFinish(s), D, d, gone, settled)
<1>1. s \in RankState /\ s.me = D
    BY ImporterIs
<1>2. Imported(s, s, D, d, gone, settled)
    BY ImportedItself
<1>3. CASE s.gather # {}
    BY <1>2, <1>3 DEF MaybeResolveFinish
<1>4. CASE s.gather = {}
    <2>1. PICK t : t = DisambiguateMyImports(s)
        OBVIOUS
    <2>2. /\ Imported(s, t, D, d, gone, settled)
          /\ t.died # "" \/ (t.imp = s.imp /\ (s.map[D] = "resolve" => ~t.amb))
        BY <1>4, <2>1, MyImportsKeep
    <2>3. Importing(t, D, d, gone, settled) /\ t.map = s.map
        BY <2>2 DEF Imported, Frame
    <2>4. ASSUME t.died = "", s.map[D] = "resolve"
          PROVE  Imported(s, [t EXCEPT !.isauth = (t.auth[1] = s.me), !.resolved = TRUE], D, d, gone, settled)
        <3>1. PICK b \in BOOLEAN : b = (t.auth[1] = D)
            OBVIOUS
        <3>2. PICK u : u = [t EXCEPT !.isauth = b, !.resolved = TRUE]
            OBVIOUS
        <3>3. ~t.amb /\ t.map[D] = "resolve"
            BY <2>2, <2>3, <2>4
        <3>4. Imported(t, u, D, d, gone, settled)
            BY <2>3, <3>1, <3>2, <3>3, ResolvedKeeps
        <3>5. Imported(s, u, D, d, gone, settled)
            BY <2>2, <3>4, ImportedOnce
        <3> QED
            BY <1>1, <3>1, <3>2, <3>5
    <2>5. Imported(s, RejoinSendRejoins(t), D, d, gone, settled)
        <3>1. Imported(t, RejoinSendRejoins(t), D, d, gone, settled)
            BY <2>3, RejoinKeeps
        <3> QED
            BY <2>2, <3>1, ImportedOnce
    <2> QED
        BY <1>1, <1>4, <2>1, <2>2, <2>4, <2>5 DEF MaybeResolveFinish
<1> QED
    BY <1>3, <1>4

LEMMA AmbOver ==
    ASSUME NEW s, NEW D, NEW d, NEW gone, NEW settled, Importing(s, D, d, gone, settled), s.imp.state = "acking",
           NEW t, t = [s EXCEPT !.amb = FALSE]
    PROVE  Imported(s, t, D, d, gone, settled) /\ t.imp = s.imp /\ ~t.amb
<1>1. s \in RankState /\ ImporterOK(s, D, d, gone, settled)
    BY ImporterIs
<1>2. /\ t \in RankState /\ t.imp = s.imp /\ t.exp = s.exp /\ t.out = s.out /\ t.auth = s.auth
      /\ t.me = s.me /\ t.map = s.map /\ t.epoch = s.epoch /\ t.isauth = s.isauth /\ t.wait = s.wait
      /\ t.log = s.log /\ t.amb = FALSE /\ t.other = s.other /\ t.gather = s.gather
      /\ t.resolved = s.resolved /\ t.frozen = s.frozen
    BY <1>1 DEF RankState
<1>3. ImporterOK(t, D, d, gone, settled)
    <2>1. Surviving(t) <=> Surviving(s)
        BY <1>2 DEF Surviving
    <2>2. JournalOK(s, d, gone) => JournalOK(t, d, gone)
        BY <1>2 DEF JournalOK
    <2> QED
        BY <1>1, <1>2, <2>1, <2>2 DEF ImporterOK, Late, Begun
<1>4. Speaks(t, D, gone, FALSE)
    BY <1>2, SameOut DEF Importing
<1>5. Holds(s, d, t, d, settled)
    BY <1>2 DEF Holds, Clean, Untouched, Bound
<1> QED
    BY <1>2, <1>3, <1>4, <1>5 DEF Imported, Importing, Frame

(* handle_resolve at the importer.                                         *)
LEMMA ImporterResolve ==
    ASSUME NEW s, NEW D, NEW d, NEW gone, NEW settled, Importing(s, D, d, gone, settled),
           NEW from \in Ranks, from # D, NEW m \in Message, m.flag => from = E, ~m.ambig,
           from = E /\ m.flag => Untouched(s, d) \/ settled, from = E /\ ~m.flag => gone
    PROVE  Imported(s, HandleResolve(s, from, m), D, d, gone, settled)
<1>1. s \in RankState /\ s.me = D /\ ImporterOK(s, D, d, gone, settled)
    BY ImporterIs
<1>2. PICK flag \in BOOLEAN : flag = m.flag
    BY MessageFields
<1>3. PICK s0 : s0 = [s EXCEPT !.amb = FALSE]
    OBVIOUS
<1>4. DEFINE mine == Surviving(s) /\ s.amb /\ s.imp.peer = from
<1>5. PICK t : t = IF ~mine THEN s
                   ELSE IF s.imp.state # "acking" THEN Die(s, "resolve: acking")
                   ELSE IF m.flag THEN ImportReverse(s0)
                   ELSE ImportFinish(s0, TRUE, TRUE)
    OBVIOUS
<1>6. /\ Imported(s, t, D, d, gone, settled)
      /\ from = E /\ flag => Untouched(t, d) \/ settled
    <2>1. CASE ~mine
        <3>1. t = s
            BY <1>5, <2>1
        <3> QED
            BY <1>2, <3>1, ImportedItself
    <2>2. CASE mine /\ s.imp.state # "acking"
        <3>1. t = Die(s, "resolve: acking")
            BY <1>5, <2>2
        <3>2. Imported(s, Die(s, "resolve: acking"), D, d, gone, settled)
            BY ImporterDies, Asserted
        <3> QED
            BY <1>2, <3>1, <3>2 DEF Imported, Holds
    <2>3. CASE mine /\ s.imp.state = "acking"
        <3>1. s.imp.peer = E /\ d = "ambig" /\ ~Untouched(s, d)
            BY <1>1, <2>3 DEF ImporterOK, Untouched
        <3>2. from = E
            BY <2>3, <3>1
        <3>3. Imported(s, s0, D, d, gone, settled) /\ s0.imp = s.imp /\ ~s0.amb
            BY <1>3, <2>3, AmbOver
        <3>4. Importing(s0, D, d, gone, settled) /\ s0.imp.state = "acking"
            BY <2>3, <3>3 DEF Imported
        <3>5. CASE flag
            <4>1. settled
                BY <1>2, <3>1, <3>2, <3>5
            <4>2. Imported(s0, ImportReverse(s0), D, d, gone, settled)
                BY <3>3, <3>4, <4>1, ImportReverseKeeps
            <4>3. t = ImportReverse(s0)
                BY <1>2, <1>5, <2>3, <3>5
            <4> QED
                BY <3>3, <4>1, <4>2, <4>3, ImportedOnce
        <3>6. CASE ~flag
            <4>1. gone
                BY <1>2, <3>2, <3>6
            <4>2. PICK n : n = TRUE
                OBVIOUS
            <4>3. Imported(s0, ImportFinish(s0, n, n), D, d, gone, settled)
                BY <3>4, <4>1, ImportFinishKeeps
            <4>4. t = ImportFinish(s0, n, n)
                BY <1>2, <1>5, <2>3, <3>6, <4>2
            <4> QED
                BY <3>3, <3>6, <4>3, <4>4, ImportedOnce
        <3> QED
            BY <3>5, <3>6
    <2> QED
        BY <2>1, <2>2, <2>3
<1> HIDE <1>5
<1>7. Importing(t, D, d, gone, settled)
    BY <1>6 DEF Imported
<1>9. PICK g : g = t.gather \ {from}
    OBVIOUS
<1>10. PICK u : u = [t EXCEPT !.auth = IF flag THEN Sole(from) ELSE @, !.gather = g]
    OBVIOUS
<1>11. Imported(t, u, D, d, gone, settled)
    <2>1. Told(t, d, from, flag, gone, settled)
        BY <1>2, <1>6 DEF Told
    <2>2. Hears(t, u, from, flag, g)
        BY <1>9, <1>10 DEF Hears
    <2> QED
        BY <1>7, <2>1, <2>2, HearsKeeps
<1>12. u = [t EXCEPT !.auth = IF m.flag THEN Sole(from) ELSE @,
                     !.other = IF m.ambig THEN @ \cup {from} ELSE @,
                     !.gather = @ \ {from}]
    <2>1. t \in RankState
        BY <1>7 DEF Importing
    <2> QED
        BY <1>2, <1>9, <1>10, <2>1 DEF RankState
<1>13. Imported(s, MaybeResolveFinish(u), D, d, gone, settled)
    <2>1. Imported(u, MaybeResolveFinish(u), D, d, gone, settled)
        BY <1>11, ResolveFinishKeeps DEF Imported
    <2>2. Imported(s, u, D, d, gone, settled)
        BY <1>6, <1>11, ImportedOnce
    <2> QED
        BY <2>1, <2>2, ImportedOnce
<1>14. HandleResolve(s, from, m) = IF t.died # "" THEN t ELSE MaybeResolveFinish(u)
    <2> HIDE <1>9, <1>10
    <2>1. t = IF ~mine THEN s
              ELSE IF s.imp.state # "acking" THEN Die(s, "resolve: acking")
              ELSE IF m.flag THEN ImportReverse([s EXCEPT !.amb = FALSE])
              ELSE ImportFinish([s EXCEPT !.amb = FALSE], TRUE, TRUE)
        BY <1>3, <1>5
    <2> QED
        BY <1>12, <2>1 DEF HandleResolve
<1> QED
    BY <1>6, <1>13, <1>14

-----------------------------------------------------------------------------
(* The resolve stage of a rank with no ambiguous import of its own: what   *)
(* it makes of the imports of others.                                      *)
Open(s) == s.auth[2] # UNKNOWN \/ s.auth = UNDEF
Recast(s, t) ==
    /\ t \in RankState
    /\ t.me = s.me /\ t.map = s.map /\ t.epoch = s.epoch /\ t.exp = s.exp /\ t.imp = s.imp
    /\ t.isauth = s.isauth /\ t.frozen = s.frozen /\ t.wait = s.wait
    /\ t.log = s.log /\ t.amb = s.amb /\ t.other \subseteq s.other /\ t.resolved = s.resolved
    /\ t.out = s.out
    /\ t.auth = s.auth \/ (Open(s) /\ \E w \in s.other : t.auth = Sole(w))
    /\ s.exp.state # "none" /\ Surviving(s) => t.auth = s.auth

LEMMA RecastItself ==
    ASSUME NEW s \in RankState
    PROVE  Recast(s, s)
    BY DEF Recast

LEMMA RecastOnce ==
    ASSUME NEW s, NEW t, NEW u, Recast(s, t), Recast(t, u)
    PROVE  Recast(s, u)
<1>1. t.auth = s.auth => (Open(t) <=> Open(s))
    BY DEF Open
<1>2. Surviving(t) <=> Surviving(s)
    BY DEF Recast, Surviving
<1>3. u.auth = s.auth \/ (Open(s) /\ \E w \in s.other : u.auth = Sole(w))
    BY <1>1 DEF Recast
<1>4. s.exp.state # "none" /\ Surviving(s) => u.auth = s.auth
    BY <1>2 DEF Recast
<1> QED
    BY <1>3, <1>4 DEF Recast

LEMMA RecastDies ==
    ASSUME NEW s \in RankState, NEW w \in Assertions
    PROVE  Recast(s, Die(s, w))
    BY DieAlike DEF Recast, Alike

LEMMA RecastPending ==
    ASSUME NEW s \in RankState, NEW b \in BOOLEAN
    PROVE  Recast(s, [s EXCEPT !.jpending = b])
    BY PendingAlike DEF Recast, Alike

LEMMA OthersDone ==
    ASSUME NEW s \in RankState, s.exp.state = "none" \/ ~Surviving(s)
    PROVE  Recast(s, DisambiguateOtherImports(s))
<1>1. s.auth \in MdsAuthority /\ s.other \in SUBSET Ranks
    BY RankFields
<1>2. PICK a : a = IF s.other # {} /\ Open(s) THEN Sole(CHOOSE who \in s.other : TRUE) ELSE s.auth
    OBVIOUS
<1>3. a = s.auth \/ (Open(s) /\ \E w \in s.other : a = Sole(w))
    BY <1>2
<1>4. a \in MdsAuthority
    BY <1>1, <1>3, Authorities
<1>5. PICK t : t = [s EXCEPT !.auth = a, !.other = {}]
    OBVIOUS
<1>6. t = DisambiguateOtherImports(s)
    BY <1>2, <1>5 DEF DisambiguateOtherImports, Open
<1>7. /\ t \in RankState
      /\ t.me = s.me /\ t.map = s.map /\ t.epoch = s.epoch /\ t.exp = s.exp /\ t.imp = s.imp
      /\ t.isauth = s.isauth /\ t.frozen = s.frozen /\ t.wait = s.wait
      /\ t.log = s.log /\ t.amb = s.amb /\ t.other = {} /\ t.resolved = s.resolved
      /\ t.out = s.out /\ t.auth = a
    BY <1>4, <1>5 DEF RankState
<1> QED
    BY <1>3, <1>6, <1>7 DEF Recast

LEMMA RejoinRecasts ==
    ASSUME NEW s \in RankState
    PROVE  Recast(s, RejoinSendRejoins(s))
<1>1. Recast(s, Die(s, "rejoin: !is_importing, !is_exporting"))
    BY RecastDies, Asserted
<1>2. PICK b, c : b = TRUE /\ c = FALSE
    OBVIOUS
<1>3. b \in BOOLEAN /\ c \in BOOLEAN
    BY <1>2
<1>4. Recast(s, [s EXCEPT !.jpending = b]) /\ Recast(s, [s EXCEPT !.jpending = c])
    BY <1>3, RecastPending
<1>5. ASSUME ~IsExporting(s)
      PROVE  Recast(s, [DisambiguateOtherImports(s) EXCEPT !.jpending = c])
    <2>1. PICK t : t = DisambiguateOtherImports(s)
        OBVIOUS
    <2>2. Recast(s, t)
        BY <1>5, <2>1, OthersDone DEF IsExporting
    <2>3. Recast(t, [t EXCEPT !.jpending = c])
        BY <1>3, <2>2, RecastPending DEF Recast
    <2> QED
        BY <2>1, <2>2, <2>3, RecastOnce
<1> QED
    BY <1>1, <1>2, <1>4, <1>5 DEF RejoinSendRejoins

LEMMA MyImportsRecast ==
    ASSUME NEW s \in RankState, ~s.amb
    PROVE  Recast(s, DisambiguateMyImports(s))
<1>1. Recast(s, s)
    BY RecastItself
<1>2. CASE s.map[s.me] # "resolve"
    BY <1>1, <1>2 DEF DisambiguateMyImports
<1>3. CASE s.map[s.me] = "resolve"
    <2>1. ~Surviving(s)
        BY <1>3 DEF Surviving, ActiveOrStopping
    <2>2. PICK t : t = DisambiguateOtherImports(s)
        OBVIOUS
    <2>3. Recast(s, t) /\ ~t.amb
        BY <2>1, <2>2, OthersDone DEF Recast
    <2>4. Recast(s, Die(s, "dir_auth is still ambiguous"))
        BY RecastDies, Asserted
    <2> QED
        BY <1>3, <2>2, <2>3, <2>4 DEF DisambiguateMyImports
<1> QED
    BY <1>2, <1>3

(* Once every resolve is in: the auth bit follows the authority on a rank  *)
(* that resolves.                                                          *)
Recasts(s, x) ==
    \/ Recast(s, x)
    \/ /\ s.map[s.me] = "resolve"
       /\ \E y : Recast(s, y) /\ x = [y EXCEPT !.isauth = (y.auth[1] = s.me), !.resolved = TRUE]
LEMMA FinishRecasts ==
    ASSUME NEW s \in RankState, ~s.amb
    PROVE  Recasts(s, MaybeResolveFinish(s))
<1>1. PICK t : t = DisambiguateMyImports(s)
    OBVIOUS
<1>2. Recast(s, t)
    BY <1>1, MyImportsRecast
<1>3. Recast(s, RejoinSendRejoins(t))
    <2>1. t \in RankState
        BY <1>2 DEF Recast
    <2>2. Recast(t, RejoinSendRejoins(t))
        BY <2>1, RejoinRecasts
    <2> QED
        BY <1>2, <2>2, RecastOnce
<1>4. Recasts(s, s) /\ Recasts(s, t) /\ Recasts(s, RejoinSendRejoins(t))
    BY <1>2, <1>3, RecastItself DEF Recasts
<1>5. s.map[s.me] = "resolve" => Recasts(s, [t EXCEPT !.isauth = (t.auth[1] = s.me), !.resolved = TRUE])
    BY <1>2 DEF Recasts
<1> QED
    BY <1>1, <1>4, <1>5 DEF MaybeResolveFinish

(* The fields of the result.                                               *)
Recounts(s, x) ==
    /\ x \in RankState
    /\ x.me = s.me /\ x.map = s.map /\ x.epoch = s.epoch /\ x.exp = s.exp /\ x.imp = s.imp
    /\ x.frozen = s.frozen /\ x.wait = s.wait /\ x.out = s.out
    /\ x.log = s.log /\ x.amb = s.amb /\ x.other \subseteq s.other /\ (s.resolved => x.resolved)
    /\ x.auth = s.auth \/ (Open(s) /\ \E w \in s.other : x.auth = Sole(w))
    /\ s.exp.state # "none" /\ Surviving(s) => x.auth = s.auth
    /\ \/ x.isauth = s.isauth
       \/ s.map[s.me] = "resolve" /\ (x.isauth <=> x.auth[1] = s.me)
LEMMA RecastsIs ==
    ASSUME NEW s, NEW x, Recasts(s, x)
    PROVE  Recounts(s, x)
<1>1. CASE Recast(s, x)
    BY <1>1 DEF Recast, Recounts
<1>2. ASSUME NEW y, s.map[s.me] = "resolve", Recast(s, y),
             x = [y EXCEPT !.isauth = (y.auth[1] = s.me), !.resolved = TRUE]
      PROVE  Recounts(s, x)
    <2>1. PICK b \in BOOLEAN : b = (y.auth[1] = s.me)
        OBVIOUS
    <2>2. y \in RankState
        BY <1>2 DEF Recast
    <2>3. x = [y EXCEPT !.isauth = b, !.resolved = TRUE]
        BY <1>2, <2>1
    <2>4. /\ x \in RankState
          /\ x.me = y.me /\ x.map = y.map /\ x.epoch = y.epoch /\ x.exp = y.exp /\ x.imp = y.imp
          /\ x.frozen = y.frozen /\ x.wait = y.wait /\ x.out = y.out /\ x.auth = y.auth
          /\ x.log = y.log /\ x.amb = y.amb /\ x.other = y.other /\ x.resolved = TRUE
          /\ x.isauth = b
        BY <2>2, <2>3 DEF RankState
    <2>5. x.isauth <=> x.auth[1] = s.me
        BY <2>1, <2>4
    <2> HIDE <2>1, <2>3
    <2> QED
        BY <1>2, <2>4, <2>5 DEF Recast, Recounts
<1> QED
    BY <1>1, <1>2 DEF Recasts

-----------------------------------------------------------------------------
(* A bystander: no step gives it the subtree.                              *)
Standing(s, D, gone) ==
    /\ s \in RankState /\ s.me # E /\ s.me # D /\ D \in Ranks \cup {NONE} /\ D # E /\ gone \in BOOLEAN
    /\ BystanderOK(s, D) /\ Speaks(s, D, gone, FALSE)
Stood(s, t, D, gone) == Standing(t, D, gone) /\ Frame(s, t)

LEMMA StoodOnce ==
    ASSUME NEW s, NEW t, NEW u, NEW D, NEW gone, Stood(s, t, D, gone), Stood(t, u, D, gone)
    PROVE  Stood(s, u, D, gone)
    BY DEF Stood, Frame

LEMMA StoodItself ==
    ASSUME NEW s, NEW D, NEW gone, Standing(s, D, gone)
    PROVE  Stood(s, s, D, gone)
    BY DEF Stood, Frame

LEMMA StandsAlike ==
    ASSUME NEW s, NEW t, NEW D, NEW gone, Standing(s, D, gone), Alike(s, t), Speaks(t, D, gone, FALSE)
    PROVE  Stood(s, t, D, gone)
<1>1. BystanderOK(t, D)
    BY AlikeRank DEF Standing
<1> QED
    BY <1>1 DEF Standing, Stood, Frame, Alike

LEMMA StandsSends ==
    ASSUME NEW s, NEW D, NEW gone, Standing(s, D, gone)
    PROVE  Stood(s, SendSubtreeResolves(s), D, gone)
<1>1. /\ s \in RankState /\ s.me # E /\ s.me # D /\ BystanderOK(s, D) /\ Speaks(s, D, gone, FALSE)
      /\ D \in Ranks \cup {NONE} /\ D # E /\ gone \in BOOLEAN
    BY DEF Standing
<1>2. PICK d, settled : d = "none" /\ settled = FALSE
    OBVIOUS
<1>3. Parties(s, D, d, gone)
    BY <1>1 DEF Parties
<1>4. RankOK(s, D, d, gone, settled)
    BY <1>1 DEF RankOK
<1>5. Speaks(s, D, gone, May(s, gone))
    BY <1>1, SpeaksElse
<1>6. Alike(s, SendSubtreeResolves(s)) /\ Speaks(SendSubtreeResolves(s), D, gone, May(s, gone))
    BY <1>1, <1>3, <1>4, <1>5, SendResolvesFits
<1>7. Speaks(SendSubtreeResolves(s), D, gone, FALSE)
    <2>1. PICK t : t = SendSubtreeResolves(s)
        OBVIOUS
    <2>2. t.me # E
        BY <1>1, <1>6, <2>1 DEF Alike
    <2> QED
        BY <1>6, <2>1, <2>2, SpeaksElse
<1> QED
    BY <1>6, <1>7, StandsAlike

(* handle_export_notify.                                                   *)
LEMMA StandsNotify ==
    ASSUME NEW s, NEW D, NEW gone, Standing(s, D, gone), NEW from \in Ranks, NEW m \in Message,
           m.new[1] # s.me
    PROVE  Stood(s, HandleExportNotify(s, from, m), D, gone)
<1>1. /\ s \in RankState /\ BystanderOK(s, D) /\ Speaks(s, D, gone, FALSE) /\ m.new \in MdsAuthority
      /\ m.tid \in Nat
    BY MessageFields DEF Standing
<1>2. PICK a : a = IF s.auth = m.old THEN m.new ELSE s.auth
    OBVIOUS
<1>3. a \in MdsAuthority /\ a[1] # s.me
    BY <1>1, <1>2, RankFields DEF BystanderOK
<1>4. PICK t : t = [s EXCEPT !.auth = a]
    OBVIOUS
<1>5. /\ t \in RankState /\ t.me = s.me /\ t.map = s.map /\ t.epoch = s.epoch /\ t.exp = s.exp
      /\ t.imp = s.imp /\ t.auth = a /\ t.isauth = s.isauth /\ t.frozen = s.frozen
      /\ t.wait = s.wait /\ t.log = s.log /\ t.amb = s.amb /\ t.other = s.other
      /\ t.resolved = s.resolved /\ t.out = s.out
    BY <1>1, <1>3, <1>4 DEF RankState
<1>6. Stood(s, t, D, gone)
    <2>1. BystanderOK(t, D)
        BY <1>1, <1>3, <1>5 DEF BystanderOK
    <2>2. Speaks(t, D, gone, FALSE)
        BY <1>1, <1>5 DEF Speaks, Fit
    <2> QED
        BY <1>5, <2>1, <2>2 DEF Stood, Standing, Frame
<1>7. Stood(s, SendMds(t, from, [Msg("NotifyAck", m.tid) EXCEPT !.new = m.new]), D, gone)
    <2>1. PICK n : n = m.tid
        OBVIOUS
    <2>2. Msg("NotifyAck", n) \in Message
        BY <1>1, <2>1, MsgType0 DEF MsgType
    <2>3. PICK a2 : a2 = m.new
        OBVIOUS
    <2>4. PICK k : k = [Msg("NotifyAck", n) EXCEPT !.new = a2]
        OBVIOUS
    <2>5. k \in Message /\ k.type = "NotifyAck"
        BY <1>1, <2>2, <2>3, <2>4 DEF Message, Msg
    <2>6. ASSUME NEW f PROVE Fit(t.me, from, k, D, gone, f)
        BY <2>5 DEF Fit, MsgOK, Tame, Claims
    <2>7. Standing(t, D, gone)
        BY <1>6 DEF Stood
    <2>8. PICK f : f = FALSE
        OBVIOUS
    <2>9. Speaks(t, D, gone, f)
        BY <2>7, <2>8 DEF Standing
    <2>10. Alike(t, SendMds(t, from, k)) /\ Speaks(SendMds(t, from, k), D, gone, f)
        BY <1>5, <2>5, <2>6, <2>9, SendMdsSpeaks
    <2>11. Stood(t, SendMds(t, from, k), D, gone)
        BY <2>7, <2>8, <2>10, StandsAlike
    <2>12. Stood(s, SendMds(t, from, k), D, gone)
        BY <1>6, <2>11, StoodOnce
    <2> QED
        BY <2>1, <2>3, <2>4, <2>12
<1>8. Stood(s, s, D, gone)
    BY StoodItself
<1>9. t = IF s.auth = m.old THEN [s EXCEPT !.auth = m.new] ELSE s
    BY <1>1, <1>2, <1>4 DEF RankState
<1> HIDE <1>2, <1>4
<1> QED
    BY <1>6, <1>7, <1>8, <1>9 DEF HandleExportNotify

LEMMA StandsNotifyAck ==
    ASSUME NEW s, NEW D, NEW gone, Standing(s, D, gone), NEW from, NEW m
    PROVE  Stood(s, HandleExportNotifyAck(s, from, m), D, gone)
<1>1. s.exp.state = "none" /\ s.imp.state = "none"
    BY DEF Standing, BystanderOK
<1>2. HandleExportNotifyAck(s, from, m) = s
    BY <1>1 DEF HandleExportNotifyAck, IsExporting
<1> QED
    BY <1>2, StoodItself

LEMMA StandsRecounts ==
    ASSUME NEW s, NEW D, NEW gone, Standing(s, D, gone), NEW x, Recounts(s, x)
    PROVE  Stood(s, x, D, gone)
<1>1. x \in RankState /\ x.me = s.me /\ x.out = s.out
    BY DEF Recounts
<1>2. x.auth[1] # s.me
    BY DEF Recounts, Standing, BystanderOK, Sole
<1>3. BystanderOK(x, D)
    BY <1>1, <1>2 DEF Recounts, Standing, BystanderOK
<1>4. Speaks(x, D, gone, FALSE)
    BY <1>1 DEF Standing, Speaks, Fit
<1> QED
    BY <1>1, <1>3, <1>4 DEF Recounts, Stood, Standing, Frame

(* handle_resolve on a rank with no ambiguous import of its own.           *)
Listens(s, t, from, m) ==
    t = [s EXCEPT !.auth = IF m.flag THEN Sole(from) ELSE @,
                  !.other = IF m.ambig THEN @ \cup {from} ELSE @,
                  !.gather = @ \ {from}]
LEMMA ListensIs ==
    ASSUME NEW s \in RankState, NEW from \in Ranks, NEW m, NEW t, Listens(s, t, from, m)
    PROVE  /\ t \in RankState /\ t.me = s.me /\ t.map = s.map /\ t.epoch = s.epoch /\ t.exp = s.exp
           /\ t.imp = s.imp /\ t.isauth = s.isauth /\ t.frozen = s.frozen
           /\ t.wait = s.wait /\ t.log = s.log /\ t.amb = s.amb
           /\ t.resolved = s.resolved /\ t.out = s.out
           /\ t.auth = IF m.flag THEN Sole(from) ELSE s.auth
           /\ t.other = IF m.ambig THEN s.other \cup {from} ELSE s.other
<1>1. s.auth \in MdsAuthority /\ s.other \in SUBSET Ranks /\ s.gather \in SUBSET Ranks
    BY RankFields
<1>2. PICK a, o, g : /\ a = IF m.flag THEN Sole(from) ELSE s.auth
                     /\ o = IF m.ambig THEN s.other \cup {from} ELSE s.other
                     /\ g = s.gather \ {from}
    OBVIOUS
<1>3. a \in MdsAuthority /\ o \in SUBSET Ranks /\ g \in SUBSET Ranks
    BY <1>1, <1>2, Authorities
<1>4. t = [s EXCEPT !.auth = a, !.other = o, !.gather = g]
    BY <1>2 DEF Listens
<1>5. /\ t \in RankState /\ t.me = s.me /\ t.map = s.map /\ t.epoch = s.epoch /\ t.exp = s.exp
      /\ t.imp = s.imp /\ t.isauth = s.isauth /\ t.frozen = s.frozen
      /\ t.wait = s.wait /\ t.log = s.log /\ t.amb = s.amb
      /\ t.resolved = s.resolved /\ t.out = s.out /\ t.auth = a /\ t.other = o
    BY <1>3, <1>4 DEF RankState
<1> QED
    BY <1>2, <1>5

LEMMA ResolveIs ==
    ASSUME NEW s, ~s.amb, NEW from, NEW m
    PROVE  \/ HandleResolve(s, from, m) = s
           \/ \E t : Listens(s, t, from, m) /\ HandleResolve(s, from, m) = MaybeResolveFinish(t)
<1>1. PICK t : t = [s EXCEPT !.auth = IF m.flag THEN Sole(from) ELSE @,
                             !.other = IF m.ambig THEN @ \cup {from} ELSE @,
                             !.gather = @ \ {from}]
    OBVIOUS
<1>2. HandleResolve(s, from, m) = IF s.died # "" THEN s ELSE MaybeResolveFinish(t)
    BY <1>1 DEF HandleResolve
<1>3. Listens(s, t, from, m)
    BY <1>1 DEF Listens
<1> HIDE <1>1
<1> QED
    BY <1>2, <1>3

LEMMA StandsResolve ==
    ASSUME NEW s, NEW D, NEW gone, Standing(s, D, gone), NEW from \in Ranks, from # s.me,
           NEW m, m.ambig => from = D
    PROVE  Stood(s, HandleResolve(s, from, m), D, gone)
<1>1. s \in RankState /\ BystanderOK(s, D) /\ ~s.amb /\ Speaks(s, D, gone, FALSE)
    BY DEF Standing, BystanderOK
<1>2. ASSUME NEW t, Listens(s, t, from, m)
      PROVE  Stood(s, MaybeResolveFinish(t), D, gone)
    <2>1. /\ t \in RankState /\ t.me = s.me /\ t.map = s.map /\ t.epoch = s.epoch /\ t.exp = s.exp
          /\ t.imp = s.imp /\ t.isauth = s.isauth /\ t.frozen = s.frozen
          /\ t.wait = s.wait /\ t.log = s.log /\ t.amb = s.amb
          /\ t.resolved = s.resolved /\ t.out = s.out
          /\ t.auth = IF m.flag THEN Sole(from) ELSE s.auth
          /\ t.other = IF m.ambig THEN s.other \cup {from} ELSE s.other
        BY <1>1, <1>2, ListensIs
    <2>2. t.auth[1] # s.me /\ t.other \subseteq {D}
        BY <1>1, <2>1 DEF BystanderOK, Sole
    <2>3. BystanderOK(t, D)
        BY <1>1, <2>1, <2>2 DEF BystanderOK
    <2>4. Speaks(t, D, gone, FALSE)
        BY <1>1, <2>1 DEF Speaks, Fit
    <2>5. Stood(s, t, D, gone)
        BY <2>1, <2>3, <2>4 DEF Stood, Standing, Frame
    <2>6. Recounts(t, MaybeResolveFinish(t))
        BY <1>1, <2>1, FinishRecasts, RecastsIs
    <2>7. Stood(t, MaybeResolveFinish(t), D, gone)
        BY <2>5, <2>6, StandsRecounts DEF Stood
    <2> QED
        BY <2>5, <2>7, StoodOnce
<1> QED
    BY <1>1, <1>2, ResolveIs, StoodItself

LEMMA StandsRejoin ==
    ASSUME NEW s, NEW D, NEW gone, Standing(s, D, gone)
    PROVE  Stood(s, RejoinSendRejoins(s), D, gone)
<1>1. Recast(s, RejoinSendRejoins(s))
    BY RejoinRecasts DEF Standing
<1> QED
    BY <1>1, RecastsIs, StandsRecounts DEF Recasts

LEMMA NoImportFailure ==
    ASSUME NEW s \in RankState, s.imp.state = "none", NEW who
    PROVE  \E i \in ImportStateT : i.state = "none" /\ ImportPeerFailure(s, who) = [s EXCEPT !.imp = i]
<1>1. s.imp \in ImportStateT
    BY RankFields
<1>2. PICK B : B = s.imp.byst \ {who}
    OBVIOUS
<1>3. PICK i : i = [s.imp EXCEPT !.byst = B]
    OBVIOUS
<1>4. i \in ImportStateT /\ i.state = "none"
    BY <1>1, <1>2, <1>3 DEF ImportStateT
<1>5. PICK u : u = [s EXCEPT !.imp = i]
    OBVIOUS
<1>6. u = [s EXCEPT !.imp.byst = @ \ {who}]
    BY <1>1, <1>2, <1>3, <1>5 DEF RankState
<1>7. s = [s EXCEPT !.imp = s.imp]
    BY DEF RankState
<1>8. ImportPeerFailure(s, who) = s \/ ImportPeerFailure(s, who) = u
    <2> HIDE <1>2, <1>3, <1>5
    <2> DEFINE Q(x) == x = s \/ x = u
    <2>1. Q(s) /\ Q(u)
        OBVIOUS
    <2> HIDE DEF Q
    <2>2. Q(ImportPeerFailure(s, who))
        BY <1>6, <2>1 DEF ImportPeerFailure
    <2> QED
        BY <2>2 DEF Q
<1> QED
    BY <1>1, <1>4, <1>5, <1>7, <1>8

LEMMA StandsFailure ==
    ASSUME NEW s, NEW D, NEW gone, Standing(s, D, gone), NEW who \in Ranks
    PROVE  Stood(s, HandleMdsFailure(s, who), D, gone)
<1>1. s \in RankState /\ BystanderOK(s, D) /\ s.gather \in SUBSET Ranks /\ Speaks(s, D, gone, FALSE)
    BY RankFields DEF Standing
<1>2. PICK g : g = s.gather \cup {who}
    OBVIOUS
<1>3. g \in SUBSET Ranks
    BY <1>1, <1>2
<1>4. PICK t : t = [s EXCEPT !.gather = g]
    OBVIOUS
<1>5. t \in RankState /\ t.exp = s.exp /\ t.imp = s.imp
    BY <1>1, <1>3, <1>4 DEF RankState
<1>6. PICK e \in ExportStateT : e.state = "none" /\ ExportPeerFailure(t, who) = [t EXCEPT !.exp = e]
    BY <1>1, <1>5, NoExportFailure DEF BystanderOK
<1>7. PICK u : u = [t EXCEPT !.exp = e]
    OBVIOUS
<1>8. u \in RankState /\ u.imp = s.imp
    BY <1>5, <1>7 DEF RankState
<1>9. PICK i \in ImportStateT : i.state = "none" /\ ImportPeerFailure(u, who) = [u EXCEPT !.imp = i]
    BY <1>1, <1>8, NoImportFailure DEF BystanderOK
<1>10. PICK v : v = [u EXCEPT !.imp = i]
    OBVIOUS
<1>11. /\ v \in RankState /\ v.me = s.me /\ v.map = s.map /\ v.epoch = s.epoch /\ v.exp = e
       /\ v.imp = i /\ v.auth = s.auth /\ v.isauth = s.isauth /\ v.frozen = s.frozen
       /\ v.wait = s.wait /\ v.log = s.log /\ v.amb = s.amb /\ v.other = s.other
       /\ v.resolved = s.resolved /\ v.out = s.out
    BY <1>1, <1>3, <1>4, <1>5, <1>7, <1>8, <1>10 DEF RankState
<1>12. BystanderOK(v, D)
    BY <1>1, <1>6, <1>9, <1>11 DEF BystanderOK
<1>13. Speaks(v, D, gone, FALSE)
    BY <1>1, <1>11 DEF Speaks, Fit
<1>14. HandleMdsFailure(s, who) = v
    BY <1>2, <1>4, <1>6, <1>7, <1>9, <1>10 DEF HandleMdsFailure, HandleMdsFailureOrStop
<1> HIDE <1>4, <1>7, <1>10
<1> QED
    BY <1>11, <1>12, <1>13, <1>14 DEF Stood, Standing, Frame

-----------------------------------------------------------------------------
(* The resolve stage at the exporter.                                      *)
LEMMA ExporterRecounts ==
    ASSUME NEW s, NEW D, NEW d, Exporter(s, D, d), NEW x, Recounts(s, x)
    PROVE  Exported(s, x, D, d)
<1>1. s \in RankState /\ s.me = E /\ ExporterOK(s, D, d) /\ StageOK(s, D, d) /\ E \in Ranks /\ D # E
    BY ExporterIs
<1>2. /\ x \in RankState
      /\ x.me = s.me /\ x.map = s.map /\ x.epoch = s.epoch /\ x.exp = s.exp /\ x.imp = s.imp
      /\ x.frozen = s.frozen /\ x.wait = s.wait /\ x.out = s.out
      /\ x.log = s.log /\ x.amb = s.amb /\ x.other \subseteq s.other /\ (s.resolved => x.resolved)
    BY DEF Recounts
<1>3. Surviving(x) <=> Surviving(s)
    BY <1>2 DEF Surviving
<1>4. CASE s.exp.state # "none"
    <2>1. Surviving(s)
        BY <1>1, <1>4 DEF ExporterOK
    <2>2. s.map[s.me] # "resolve"
        BY <2>1 DEF Surviving, ActiveOrStopping
    <2>3. x.auth = s.auth /\ x.isauth = s.isauth
        BY <1>4, <2>1, <2>2 DEF Recounts
    <2>4. StageOK(x, D, d)
        BY <1>1, <1>2, <2>3 DEF StageOK
    <2>5. ExporterOK(x, D, d)
        BY <1>1, <1>2, <1>3, <2>4 DEF ExporterOK
    <2>6. Speaks(x, D, d # "mine", May(x, d # "mine"))
        BY <1>2, SameOut DEF Exporter, May
    <2> QED
        BY <1>2, <2>5, <2>6 DEF Exporter, Exported, Frame, Onward
<1>5. CASE s.exp.state = "none"
    <2>1. s.auth[2] = UNKNOWN /\ (s.auth[1] = E <=> d = "mine") /\ s.other \subseteq {D}
        BY <1>1, <1>5 DEF StageOK, ExporterOK
    <2>2. x.auth = s.auth \/ (s.auth = UNDEF /\ x.auth = Sole(D))
        BY <2>1 DEF Recounts, Open
    <2>3. x.auth[2] = UNKNOWN /\ (x.auth[1] = E <=> d = "mine")
        BY <1>1, <2>1, <2>2, RanksAssumption DEF Sole, UNDEF, E
    <2>4. x.isauth => d = "mine"
        BY <1>1, <1>5, <2>3 DEF StageOK, Recounts
    <2>5. StageOK(x, D, d)
        BY <1>1, <1>2, <1>5, <2>3, <2>4 DEF StageOK
    <2>6. ExporterOK(x, D, d)
        BY <1>1, <1>2, <1>3, <2>5 DEF ExporterOK
    <2>7. Speaks(x, D, d # "mine", May(x, d # "mine"))
        BY <1>2, SameOut DEF Exporter, May
    <2> QED
        BY <1>2, <2>6, <2>7 DEF Exporter, Exported, Frame, Onward
<1> QED
    BY <1>4, <1>5

LEMMA ExporterRejoin ==
    ASSUME NEW s, NEW D, NEW d, Exporter(s, D, d)
    PROVE  Exported(s, RejoinSendRejoins(s), D, d)
<1>1. Recast(s, RejoinSendRejoins(s))
    BY RejoinRecasts, ExporterIs
<1> QED
    BY <1>1, RecastsIs, ExporterRecounts DEF Recasts

LEMMA ExporterResolve ==
    ASSUME NEW s, NEW D, NEW d, Exporter(s, D, d), NEW from \in Ranks, from # E, NEW m,
           m.ambig => from = D, m.flag => d # "mine"
    PROVE  Exported(s, HandleResolve(s, from, m), D, d)
<1>1. s \in RankState /\ s.me = E /\ ExporterOK(s, D, d) /\ StageOK(s, D, d) /\ E \in Ranks /\ D # E /\ ~s.amb
    BY ExporterIs DEF ExporterOK
<1>2. ASSUME NEW t, Listens(s, t, from, m)
      PROVE  Exported(s, MaybeResolveFinish(t), D, d)
    <2>1. /\ t \in RankState /\ t.me = s.me /\ t.map = s.map /\ t.epoch = s.epoch /\ t.exp = s.exp
          /\ t.imp = s.imp /\ t.isauth = s.isauth /\ t.frozen = s.frozen
          /\ t.wait = s.wait /\ t.log = s.log /\ t.amb = s.amb
          /\ t.resolved = s.resolved /\ t.out = s.out
          /\ t.auth = IF m.flag THEN Sole(from) ELSE s.auth
          /\ t.other = IF m.ambig THEN s.other \cup {from} ELSE s.other
        BY <1>1, <1>2, ListensIs
    <2>2. t.other \subseteq {D}
        BY <1>1, <2>1 DEF ExporterOK
    <2>3. t.auth = s.auth \/ (t.auth[1] # E /\ t.auth[2] = UNKNOWN /\ d # "mine")
        BY <2>1 DEF Sole
    <2>4. StageOK(t, D, d)
        BY <1>1, <2>1, <2>3 DEF StageOK
    <2>5. Surviving(t) <=> Surviving(s)
        BY <2>1 DEF Surviving
    <2>6. ExporterOK(t, D, d)
        BY <1>1, <2>1, <2>2, <2>4, <2>5 DEF ExporterOK
    <2>7. Speaks(t, D, d # "mine", May(t, d # "mine"))
        BY <2>1, SameOut DEF Exporter, May
    <2>8. Exported(s, t, D, d)
        BY <2>1, <2>6, <2>7 DEF Exporter, Exported, Frame, Onward
    <2>9. Recounts(t, MaybeResolveFinish(t))
        BY <1>1, <2>1, FinishRecasts, RecastsIs
    <2>10. Exported(t, MaybeResolveFinish(t), D, d)
        BY <2>8, <2>9, ExporterRecounts DEF Exported
    <2> QED
        BY <2>8, <2>10, ExportedOnce
<1> QED
    BY <1>1, <1>2, ResolveIs, ExportedItself

-----------------------------------------------------------------------------
(* The journal gets safe, entry by entry.                                  *)
Flushed(s, t) == t = [s EXCEPT !.log = Tail(@)]
LEMMA FlushedIs ==
    ASSUME NEW s \in RankState, s.log # <<>>, NEW t, Flushed(s, t)
    PROVE  /\ t \in RankState /\ t.me = s.me /\ t.map = s.map /\ t.epoch = s.epoch /\ t.exp = s.exp
           /\ t.imp = s.imp /\ t.auth = s.auth /\ t.isauth = s.isauth /\ t.frozen = s.frozen
           /\ t.wait = s.wait /\ t.amb = s.amb /\ t.other = s.other /\ t.gather = s.gather
           /\ t.resolved = s.resolved /\ t.out = s.out /\ t.died = s.died
           /\ Head(s.log) = s.log[1] /\ Head(s.log) \in LogEntry
           /\ Len(s.log) \in Nat /\ Len(s.log) >= 1 /\ Len(t.log) = Len(s.log) - 1
           /\ \A i \in 1..Len(t.log) : t.log[i] = s.log[i + 1]
           /\ Len(s.log) = 1 => t.log = <<>>
<1>1. s.log \in Seq(LogEntry)
    BY RankFields
<1>2. PICK l : l = Tail(s.log)
    OBVIOUS
<1>3. /\ l \in Seq(LogEntry) /\ Head(s.log) \in LogEntry /\ Head(s.log) = s.log[1]
      /\ Len(s.log) \in Nat /\ Len(s.log) >= 1 /\ Len(l) = Len(s.log) - 1
      /\ \A i \in 1..Len(l) : l[i] = s.log[i + 1]
    BY <1>1, <1>2, HeadTailProperties, LenProperties, EmptySeq
<1>4. t = [s EXCEPT !.log = l]
    BY <1>1, <1>2 DEF Flushed
<1>5. Len(s.log) = 1 => l = <<>>
    BY <1>3, EmptySeq
<1>6. /\ t \in RankState /\ t.me = s.me /\ t.map = s.map /\ t.epoch = s.epoch /\ t.exp = s.exp
      /\ t.imp = s.imp /\ t.auth = s.auth /\ t.isauth = s.isauth /\ t.frozen = s.frozen
      /\ t.wait = s.wait /\ t.amb = s.amb /\ t.other = s.other /\ t.gather = s.gather
      /\ t.resolved = s.resolved /\ t.out = s.out /\ t.died = s.died /\ t.log = l
    BY <1>3, <1>4 DEF RankState
<1> QED
    BY <1>3, <1>5, <1>6

LEMMA ExporterFlushed ==
    ASSUME NEW s, NEW D, NEW d, Exporter(s, D, d), s.log # <<>>, NEW t, Flushed(s, t)
    PROVE  Exported(s, t, D, d) /\ t.exp = s.exp /\ Head(s.log).event \in {"sync", "EExport"}
<1>1. s \in RankState /\ ExporterOK(s, D, d) /\ StageOK(s, D, d)
    BY ExporterIs
<1>2. /\ t \in RankState /\ t.me = s.me /\ t.map = s.map /\ t.epoch = s.epoch /\ t.exp = s.exp
      /\ t.imp = s.imp /\ t.auth = s.auth /\ t.isauth = s.isauth /\ t.frozen = s.frozen
      /\ t.wait = s.wait /\ t.amb = s.amb /\ t.other = s.other /\ t.gather = s.gather
      /\ t.resolved = s.resolved /\ t.out = s.out /\ t.died = s.died
      /\ Head(s.log) = s.log[1] /\ Len(s.log) \in Nat /\ Len(s.log) >= 1 /\ Len(t.log) = Len(s.log) - 1
      /\ \A i \in 1..Len(t.log) : t.log[i] = s.log[i + 1]
    BY <1>1, FlushedIs
<1>3. \A i \in 1..Len(s.log) : s.log[i].event \in {"sync", "EExport"}
    BY <1>1 DEF ExporterOK
<1>4. \A i \in 1..Len(t.log) : t.log[i].event \in {"sync", "EExport"}
    <2>1. ASSUME NEW i \in 1..Len(t.log) PROVE i + 1 \in 1..Len(s.log)
        BY <1>2
    <2> QED
        BY <1>2, <1>3, <2>1
<1>5. Surviving(t) <=> Surviving(s)
    BY <1>2 DEF Surviving
<1>6. ExporterOK(t, D, d)
    BY <1>1, <1>2, <1>4, <1>5 DEF ExporterOK, StageOK
<1>7. Speaks(t, D, d # "mine", May(t, d # "mine"))
    BY <1>2, SameOut DEF Exporter, May
<1> QED
    BY <1>2, <1>3, <1>6, <1>7 DEF Exporter, Exported, Frame, Onward

(* What is sent besides: Discover, ExportDir and ExportDirAck move the     *)
(* export on at the other end.                                             *)
Posts(u, t, to, type) == \E n \in Nat : t = SendMds(u, to, Msg(type, n))

Staged(s, u, e, a, f) == u = [s EXCEPT !.exp = e, !.auth = a, !.frozen = f]
LEMMA PostsSet ==
    ASSUME NEW s \in RankState, NEW to \in Ranks, NEW m \in Message, NEW e \in ExportStateT,
           NEW a \in MdsAuthority, NEW f \in {"no", "freezing", "frozen"}, NEW u, Staged(s, u, e, a, f)
    PROVE  Staged(SendMds(s, to, m), SendMds(u, to, m), e, a, f)
<1>1. u = [s EXCEPT !.exp = e, !.auth = a, !.frozen = f]
    BY DEF Staged
<1>2. u \in RankState /\ u.map = s.map /\ u.epoch = s.epoch /\ u.out = s.out
    BY <1>1 DEF RankState
<1>3. CASE s.map[to] = "down"
    BY <1>1, <1>2, <1>3 DEF SendMds, Staged
<1>4. CASE s.map[to] # "down"
    <2>1. PICK o : o = [s.out EXCEPT ![to] = Append(@, [m EXCEPT !.ep = s.epoch])]
        OBVIOUS
    <2>2. SendMds(s, to, m) = [s EXCEPT !.out = o]
        BY <1>4, <2>1 DEF SendMds
    <2>3. SendMds(u, to, m) = [u EXCEPT !.out = o]
        BY <1>2, <1>4, <2>1 DEF SendMds
    <2>4. [[s EXCEPT !.out = o] EXCEPT !.exp = e, !.auth = a, !.frozen = f] = [u EXCEPT !.out = o]
        BY <1>1 DEF RankState
    <2> QED
        BY <2>2, <2>3, <2>4 DEF Staged
<1> QED
    BY <1>3, <1>4

(* dispatch_export_dir.                                                    *)
LEMMA DispatchPosts ==
    ASSUME NEW s, NEW D, NEW d, Exporter(s, D, d), s.exp.state = "locking"
    PROVE  \E u : /\ Exported(s, u, D, d) /\ u.exp.state = "discovering" /\ u.out = s.out
                  /\ Posts(u, DispatchExportDir(s), D, "Discover") /\ u.died = s.died
<1>1. /\ s \in RankState /\ s.me = E /\ E \in Ranks /\ D # E /\ s.exp \in ExportStateT
      /\ ExporterOK(s, D, d) /\ StageOK(s, D, d) /\ s.auth \in MdsAuthority
      /\ D \in Ranks /\ s.exp.peer = D /\ Speaks(s, D, d # "mine", FALSE)
      /\ E \notin s.exp.notify /\ D \notin s.exp.notify
    BY ExporterIs, RankFields
<1>2. PICK e : e = [s.exp EXCEPT !.state = "discovering"]
    OBVIOUS
<1>3. e \in ExportStateT /\ e.state = "discovering" /\ e.peer = D /\ e.notify = s.exp.notify
    BY <1>1, <1>2 DEF ExportStateT, ExportStates
<1>4. PICK f, a, n : f = "freezing" /\ a = s.auth /\ n = s.exp.tid
    OBVIOUS
<1>5. f \in {"no", "freezing", "frozen"} /\ a \in MdsAuthority /\ n \in Nat
    BY <1>1, <1>4, ExportFields
<1>6. PICK u : u = [s EXCEPT !.exp = e, !.auth = a, !.frozen = f]
    OBVIOUS
<1>7. Msg("Discover", n) \in Message
    BY <1>5, MsgType0 DEF MsgType
<1>8. /\ u \in RankState /\ u.me = s.me /\ u.map = s.map /\ u.epoch = s.epoch /\ u.exp = e
      /\ u.imp = s.imp /\ u.auth = s.auth /\ u.isauth = s.isauth /\ u.frozen = "freezing"
      /\ u.wait = s.wait /\ u.log = s.log /\ u.amb = s.amb /\ u.other = s.other
      /\ u.resolved = s.resolved /\ u.out = s.out /\ u.died = s.died
    BY <1>1, <1>3, <1>4, <1>5, <1>6 DEF RankState
<1>9. StageOK(u, D, d)
    BY <1>1, <1>3, <1>8 DEF StageOK
<1>10. Surviving(u) <=> Surviving(s)
    BY <1>8 DEF Surviving
<1>11. ExporterOK(u, D, d)
    BY <1>1, <1>3, <1>8, <1>9, <1>10 DEF ExporterOK
<1>12. Speaks(u, D, d # "mine", May(u, d # "mine"))
    BY <1>3, <1>8, SameOut DEF Exporter, May
<1>13. Onward(s, u)
    BY <1>3, <1>8 DEF Onward, Early
<1>14. Exported(s, u, D, d)
    BY <1>1, <1>8, <1>11, <1>12, <1>13 DEF Exporter, Exported, Frame
<1>15. PICK m : m = Msg("Discover", n)
    OBVIOUS
<1>15a. m \in Message
    BY <1>7, <1>15
<1>15b. Staged(s, u, e, a, f)
    BY <1>6 DEF Staged
<1>16. Staged(SendMds(s, D, m), SendMds(u, D, m), e, a, f)
    BY <1>1, <1>3, <1>5, <1>15a, <1>15b, PostsSet
<1>17. PICK v : v = SendMds(s, D, m)
    OBVIOUS
<1>18. v \in RankState /\ v.exp = s.exp /\ v.auth = s.auth
    BY <1>1, <1>15a, <1>17, SendMdsFits DEF Alike
<1>19. [v EXCEPT !.exp.state = "discovering", !.frozen = "freezing"] = [v EXCEPT !.exp = e, !.auth = a, !.frozen = f]
    BY <1>2, <1>4, <1>18 DEF RankState
<1>20. DispatchExportDir(s) = [v EXCEPT !.exp.state = "discovering", !.frozen = "freezing"]
    BY <1>1, <1>4, <1>15, <1>17 DEF DispatchExportDir
<1>21. DispatchExportDir(s) = SendMds(u, D, Msg("Discover", n))
    BY <1>15, <1>16, <1>17, <1>19, <1>20 DEF Staged
<1> HIDE <1>2, <1>4, <1>6, <1>15, <1>17
<1> QED
    BY <1>3, <1>5, <1>8, <1>14, <1>21 DEF Posts

(* export_go_synced: the subtree is on its way.                            *)
LEMMA SyncedPosts ==
    ASSUME NEW s, NEW D, NEW d, Exporter(s, D, d), NEW tid \in Nat
    PROVE  \/ Exported(s, ExportGoSynced(s, tid), D, d)
           \/ s.exp.state = "warning" /\
              \E u : /\ Exported(s, u, D, d) /\ u.exp.state = "exporting" /\ u.out = s.out
                     /\ Posts(u, ExportGoSynced(s, tid), D, "ExportDir") /\ u.died = s.died
<1>1. Exported(s, s, D, d) /\ Exported(s, Die(s, "export_go_synced: warning, frozen"), D, d)
    BY ExportedItself, ExporterDies, Asserted
<1>2. CASE ~(s.exp.state = "warning" /\ s.frozen = "frozen" /\ s.exp.tid = tid)
    BY <1>1, <1>2 DEF ExportGoSynced
<1>3. CASE s.exp.state = "warning" /\ s.frozen = "frozen" /\ s.exp.tid = tid
    <2>1. /\ s \in RankState /\ s.me = E /\ E \in Ranks /\ D # E /\ s.exp \in ExportStateT
          /\ ExporterOK(s, D, d) /\ StageOK(s, D, d) /\ s.auth \in MdsAuthority
          /\ D \in Ranks /\ s.exp.peer = D /\ Speaks(s, D, d # "mine", FALSE)
          /\ E \notin s.exp.notify /\ D \notin s.exp.notify
        BY <1>3, ExporterIs, RankFields
    <2>2. PICK e : e = [s.exp EXCEPT !.state = "exporting"]
        OBVIOUS
    <2>3. e \in ExportStateT /\ e.state = "exporting" /\ e.peer = D /\ e.notify = s.exp.notify
        BY <2>1, <2>2 DEF ExportStateT, ExportStates
    <2>4. PICK f, a : f = "frozen" /\ a = <<E, D>>
        OBVIOUS
    <2>5. f \in {"no", "freezing", "frozen"} /\ a \in MdsAuthority
        BY <2>1, <2>4, Authorities
    <2>6. PICK u : u = [s EXCEPT !.exp = e, !.auth = a, !.frozen = f]
        OBVIOUS
    <2>7. Msg("ExportDir", tid) \in Message
        BY MsgType0 DEF MsgType
    <2>8. /\ u \in RankState /\ u.me = s.me /\ u.map = s.map /\ u.epoch = s.epoch /\ u.exp = e
          /\ u.imp = s.imp /\ u.auth = <<E, D>> /\ u.isauth = s.isauth /\ u.frozen = "frozen"
          /\ u.wait = s.wait /\ u.log = s.log /\ u.amb = s.amb /\ u.other = s.other
          /\ u.resolved = s.resolved /\ u.out = s.out /\ u.died = s.died
        BY <2>1, <2>3, <2>4, <2>5, <2>6 DEF RankState
    <2>9. StageOK(u, D, d)
        BY <1>3, <2>1, <2>3, <2>8 DEF StageOK
    <2>10. Surviving(u) <=> Surviving(s)
        BY <2>8 DEF Surviving
    <2>11. ExporterOK(u, D, d)
        BY <1>3, <2>1, <2>3, <2>8, <2>9, <2>10 DEF ExporterOK
    <2>12. Speaks(u, D, d # "mine", May(u, d # "mine"))
        BY <2>1, <2>3, <2>8, SameOut DEF Exporter, May
    <2>13. Onward(s, u)
        BY <1>3, <2>3, <2>8 DEF Onward, Early
    <2>14. Exported(s, u, D, d)
        BY <2>1, <2>8, <2>11, <2>12, <2>13 DEF Exporter, Exported, Frame
    <2>15. PICK m : m = Msg("ExportDir", tid)
        OBVIOUS
    <2>15a. m \in Message
        BY <2>7, <2>15
    <2>15b. Staged(s, u, e, a, f)
        BY <2>6 DEF Staged
    <2>16. Staged(SendMds(s, D, m), SendMds(u, D, m), e, a, f)
        BY <2>1, <2>3, <2>5, <2>15a, <2>15b, PostsSet
    <2>17. PICK v : v = SendMds(s, D, m)
        OBVIOUS
    <2>18. v \in RankState /\ v.exp = s.exp /\ v.frozen = "frozen"
        <3>1. Alike(s, SendMds(s, D, m))
            BY <2>1, <2>15a, SendMdsFits
        <3> QED
            BY <1>3, <2>17, <3>1 DEF Alike
    <2>19. [v EXCEPT !.exp.state = "exporting", !.auth = a] = [v EXCEPT !.exp = e, !.auth = a, !.frozen = f]
        BY <2>2, <2>4, <2>18 DEF RankState
    <2>20. ExportGoSynced(s, tid) = [v EXCEPT !.exp.state = "exporting", !.auth = a]
        BY <1>3, <2>1, <2>4, <2>15, <2>17 DEF ExportGoSynced
    <2>21. ExportGoSynced(s, tid) = SendMds(u, D, Msg("ExportDir", tid))
        BY <2>15, <2>16, <2>17, <2>19, <2>20 DEF Staged
    <2> HIDE <2>2, <2>4, <2>6, <2>15, <2>17
    <2> QED
        BY <1>3, <2>3, <2>8, <2>14, <2>21 DEF Posts
<1> QED
    BY <1>2, <1>3

(* Ahead: Onward, but for the step into loggingfinish.                     *)
Ahead(s, t) ==
    /\ s.exp.state = "none" => t.exp.state = "none"
    /\ t.exp.state = "locking" => s.exp.state = "locking"
    /\ t.exp.state \in Early => s.exp.state \in Early

(* handle_export_ack.                                                      *)
LEMMA AckKeeps ==
    ASSUME NEW s, NEW D, NEW d, Exporter(s, D, d), NEW from, NEW m \in Message
    PROVE  /\ Exporter(HandleExportAck(s, from, m), D, d) /\ Frame(s, HandleExportAck(s, from, m))
           /\ Ahead(s, HandleExportAck(s, from, m))
<1>1. Exported(s, Die(s, "export_ack: exporting"), D, d)
    BY ExporterDies, Asserted
<1>2. CASE s.frozen # "frozen" \/ s.exp.state # "exporting" \/ s.exp.tid # m.tid
    <2>1. HandleExportAck(s, from, m) = Die(s, "export_ack: exporting")
        BY <1>2 DEF HandleExportAck
    <2> QED
        BY <1>1, <2>1 DEF Exported, Onward, Ahead
<1>3. CASE s.frozen = "frozen" /\ s.exp.state = "exporting" /\ s.exp.tid = m.tid
    <2>1. /\ s \in RankState /\ s.me = E /\ E \in Ranks /\ D # E /\ s.exp \in ExportStateT
          /\ ExporterOK(s, D, d) /\ StageOK(s, D, d) /\ s.auth \in MdsAuthority /\ s.log \in Seq(LogEntry)
          /\ D \in Ranks /\ s.exp.peer = D /\ Speaks(s, D, d # "mine", FALSE)
          /\ E \notin s.exp.notify /\ D \notin s.exp.notify /\ m.tid \in Nat
        BY <1>3, ExporterIs, RankFields, MessageFields
    <2>2. PICK e : e = [s.exp EXCEPT !.state = "loggingfinish"]
        OBVIOUS
    <2>3. e \in ExportStateT /\ e.state = "loggingfinish" /\ e.peer = D /\ e.notify = s.exp.notify
        BY <2>1, <2>2 DEF ExportStateT, ExportStates
    <2>4. PICK a : a = <<D, E>>
        OBVIOUS
    <2>5. a \in MdsAuthority
        BY <2>1, <2>4, Authorities
    <2>6. PICK u : u = [s EXCEPT !.exp = e, !.auth = a]
        OBVIOUS
    <2>7. /\ u \in RankState /\ u.me = s.me /\ u.map = s.map /\ u.epoch = s.epoch /\ u.exp = e
          /\ u.imp = s.imp /\ u.auth = <<D, E>> /\ u.isauth = s.isauth /\ u.frozen = s.frozen
          /\ u.wait = s.wait /\ u.log = s.log /\ u.amb = s.amb /\ u.other = s.other
          /\ u.resolved = s.resolved /\ u.out = s.out
        BY <2>1, <2>3, <2>4, <2>5, <2>6 DEF RankState
    <2>8. PICK event : event = "EExport"
        OBVIOUS
    <2>9. event \in LogEvent
        BY <2>8 DEF LogEvent
    <2>10. PICK t : t = Submit(u, event, m.tid)
        OBVIOUS
    <2>11. /\ Most(u, t) /\ t.exp = u.exp /\ t.frozen = u.frozen /\ t.auth = u.auth /\ t.isauth = u.isauth
           /\ t.out = u.out /\ t.wait = u.wait /\ t.gather = u.gather
           /\ Len(u.log) \in Nat /\ Len(t.log) = Len(u.log) + 1
           /\ t.log[Len(u.log) + 1].event = event
           /\ \A i \in 1..Len(u.log) : t.log[i] = u.log[i]
        BY <2>1, <2>7, <2>9, <2>10, SubmitIs
    <2>12. \A i \in 1..Len(t.log) : t.log[i].event \in {"sync", "EExport"}
        <3>1. \A i \in 1..Len(s.log) : s.log[i].event \in {"sync", "EExport"}
            BY <2>1 DEF ExporterOK
        <3>2. ASSUME NEW i \in 1..Len(t.log) PROVE i \in 1..Len(u.log) \/ i = Len(u.log) + 1
            BY <2>11
        <3> QED
            BY <2>7, <2>8, <2>11, <3>1, <3>2
    <2>13. /\ t \in RankState /\ t.me = E /\ t.map = s.map /\ t.epoch = s.epoch /\ t.imp = s.imp
           /\ t.amb = s.amb /\ t.other = s.other /\ t.resolved = s.resolved /\ t.exp = e
           /\ t.auth = <<D, E>> /\ t.isauth = s.isauth /\ t.frozen = s.frozen /\ t.wait = s.wait
           /\ t.out = s.out
        BY <2>1, <2>7, <2>11 DEF Most
    <2>14. StageOK(t, D, d)
        BY <1>3, <2>1, <2>3, <2>13 DEF StageOK
    <2>15. Surviving(t) <=> Surviving(s)
        BY <2>1, <2>13 DEF Surviving
    <2>16. ExporterOK(t, D, d)
        BY <1>3, <2>1, <2>3, <2>12, <2>13, <2>14, <2>15 DEF ExporterOK
    <2>17. Speaks(t, D, d # "mine", May(t, d # "mine"))
        BY <2>1, <2>3, <2>13 DEF Speaks, May, Fit
    <2>18. HandleExportAck(s, from, m) = t
        <3>1. u = [s EXCEPT !.exp.state = "loggingfinish", !.auth = <<s.exp.peer, s.me>>]
            BY <2>1, <2>2, <2>4, <2>6 DEF RankState
        <3> QED
            BY <1>3, <2>8, <2>10, <3>1 DEF HandleExportAck
    <2>19. Ahead(s, t)
        BY <1>3, <2>3, <2>13 DEF Ahead, Early
    <2> HIDE <2>2, <2>4, <2>6, <2>8, <2>10
    <2> QED
        BY <2>1, <2>13, <2>16, <2>17, <2>18, <2>19 DEF Exporter, Frame
<1> QED
    BY <1>2, <1>3

(* export_dir: the export begins.                                          *)
LEMMA ExportBegins ==
    ASSUME NEW s, NEW d, Exporter(s, NONE, d), s.exp.state = "none", s.isauth, Surviving(s), s.out = NoOut,
           NEW D \in Ranks, D # E, NEW tid \in Nat
    PROVE  /\ d = "mine" /\ Exporter(ExportDir(s, D, tid), D, d) /\ Frame(s, ExportDir(s, D, tid))
           /\ ExportDir(s, D, tid).exp.state = "locking" /\ ExportDir(s, D, tid).out = NoOut
           /\ ExportDir(s, D, tid).died = s.died
<1>1. /\ s \in RankState /\ s.me = E /\ E \in Ranks /\ s.exp \in ExportStateT
      /\ ExporterOK(s, NONE, d) /\ StageOK(s, NONE, d) /\ s.auth \in MdsAuthority /\ s.other \in SUBSET Ranks
    BY ExporterIs, RankFields
<1>2. /\ d = "mine" /\ s.auth[1] = E /\ s.auth[2] = UNKNOWN /\ s.frozen = "no"
    BY <1>1 DEF StageOK
<1>3. s.auth = Sole(E)
    BY <1>1, <1>2 DEF MdsAuthority, Sole
<1>4. s.other = {}
    BY <1>1, RanksAssumption DEF ExporterOK
<1>5. PICK e : e = [NoExport EXCEPT !.state = "locking", !.peer = D, !.tid = tid]
    OBVIOUS
<1>6. e \in ExportStateT /\ e.state = "locking" /\ e.peer = D /\ e.notify = {}
    BY <1>5 DEF ExportStateT, ExportStates, NoExport
<1>7. PICK t : t = [s EXCEPT !.exp = e]
    OBVIOUS
<1>8. /\ t \in RankState /\ t.me = s.me /\ t.map = s.map /\ t.epoch = s.epoch /\ t.exp = e
      /\ t.imp = s.imp /\ t.auth = s.auth /\ t.isauth = s.isauth /\ t.frozen = s.frozen
      /\ t.wait = s.wait /\ t.log = s.log /\ t.amb = s.amb /\ t.other = s.other
      /\ t.resolved = s.resolved /\ t.out = s.out /\ t.died = s.died
    BY <1>1, <1>6, <1>7 DEF RankState
<1>9. StageOK(t, D, d)
    BY <1>1, <1>2, <1>3, <1>6, <1>8 DEF StageOK
<1>10. Surviving(t)
    BY <1>8 DEF Surviving
<1>11. ExporterOK(t, D, d)
    BY <1>1, <1>4, <1>6, <1>8, <1>9, <1>10 DEF ExporterOK
<1>12. Speaks(t, D, d # "mine", May(t, d # "mine"))
    <2>1. \A q \in Ranks : Len(t.out[q]) = 0
        BY <1>8, EmptySeq DEF NoOut
    <2> QED
        BY <2>1 DEF Speaks
<1>13. ExportDir(s, D, tid) = t
    BY <1>5, <1>7 DEF ExportDir
<1> HIDE <1>5, <1>7
<1> QED
    BY <1>1, <1>2, <1>6, <1>8, <1>11, <1>12, <1>13 DEF Exporter, Frame

-----------------------------------------------------------------------------
(* The journal of the importer.  e is what it says when one entry more is  *)
(* safe.                                                                   *)
SafeIs(event, d) ==
    CASE event = "EExport" -> "none"
      [] event = "EImportStart" -> "ambig"
      [] event = "EImportFinishTrue" -> "mine"
      [] event = "EImportFinishFalse" -> "none"
      [] event = "sync" -> d

LEMMA ImporterLog ==
    ASSUME NEW s, NEW D, NEW d, NEW gone, NEW settled, Importing(s, D, d, gone, settled), s.log # <<>>,
           NEW t, Flushed(s, t)
    PROVE  \/ /\ Head(s.log).event = "EImportStart" /\ d = "none" /\ s.imp.state = "loggingstart"
              /\ t.log = <<>>
           \/ /\ Head(s.log).event = "EImportStart" /\ d = "none" /\ s.imp.state \in {"aborting", "none"}
              /\ Len(t.log) = 1 /\ Event(t.log, 1, "EImportFinishFalse")
           \/ /\ Head(s.log).event = "EImportFinishFalse" /\ d = "ambig" /\ s.imp.state \in {"aborting", "none"}
              /\ Len(s.log) = 1 /\ s.log[1].event = "EImportFinishFalse" /\ t.log = <<>>
           \/ /\ Head(s.log).event = "EImportFinishTrue" /\ d = "ambig" /\ s.imp.state = "none" /\ gone
              /\ t.log = <<>>
<1>1. s \in RankState /\ JournalOK(s, d, gone)
    BY ImporterIs DEF ImporterOK
<1>2. /\ Head(s.log) = s.log[1] /\ Len(s.log) \in Nat /\ Len(t.log) = Len(s.log) - 1
      /\ \A i \in 1..Len(t.log) : t.log[i] = s.log[i + 1]
      /\ Len(s.log) = 1 => t.log = <<>>
    BY <1>1, FlushedIs
<1>3. CASE /\ d = "none" /\ s.imp.state = "loggingstart"
           /\ Len(s.log) = 1 /\ Event(s.log, 1, "EImportStart")
    BY <1>2, <1>3 DEF Event
<1>4. CASE /\ d = "none" /\ s.imp.state \in {"aborting", "none"}
           /\ Len(s.log) = 2 /\ Event(s.log, 1, "EImportStart")
           /\ Event(s.log, 2, "EImportFinishFalse")
    <2>1. Len(t.log) = 1
        BY <1>2, <1>4
    <2>2. t.log[1] = s.log[2]
        <3>1. 1 \in 1..Len(t.log) /\ 1 + 1 = 2
            BY <2>1
        <3> QED
            BY <1>2, <3>1
    <2> QED
        BY <1>2, <1>4, <2>1, <2>2 DEF Event
<1>5. CASE /\ d = "ambig" /\ s.imp.state \in {"aborting", "none"}
           /\ Len(s.log) = 1 /\ Event(s.log, 1, "EImportFinishFalse")
    BY <1>2, <1>5 DEF Event
<1>6. CASE /\ d = "ambig" /\ s.imp.state = "none" /\ gone
           /\ Len(s.log) = 1 /\ Event(s.log, 1, "EImportFinishTrue")
    BY <1>2, <1>6 DEF Event
<1> QED
    BY <1>1, <1>3, <1>4, <1>5, <1>6 DEF JournalOK

(* An entry other than the EImportStart that import_logged_start awaits.   *)
LEMMA ImporterFlushed ==
    ASSUME NEW s, NEW D, NEW d, NEW gone, NEW settled, Importing(s, D, d, gone, settled), s.log # <<>>,
           s.imp.state # "loggingstart", NEW t, Flushed(s, t), NEW e, e = SafeIs(Head(s.log).event, d)
    PROVE  /\ Importing(t, D, e, gone, settled) /\ Frame(s, t) /\ Holds(s, d, t, e, settled)
           /\ e = "mine" => gone
           /\ t.imp = s.imp /\ Head(s.log).event \in {"EImportStart", "EImportFinishTrue", "EImportFinishFalse"}
           /\ e \in {"mine", "ambig", "none"}
<1>1. s \in RankState /\ s.me = D /\ ImporterOK(s, D, d, gone, settled) /\ D \in Ranks /\ D # E /\ gone \in BOOLEAN
    BY ImporterIs
<1>2. /\ t \in RankState /\ t.me = s.me /\ t.map = s.map /\ t.epoch = s.epoch /\ t.exp = s.exp
      /\ t.imp = s.imp /\ t.auth = s.auth /\ t.isauth = s.isauth /\ t.frozen = s.frozen
      /\ t.wait = s.wait /\ t.amb = s.amb /\ t.other = s.other /\ t.gather = s.gather
      /\ t.resolved = s.resolved /\ t.out = s.out
    BY <1>1, FlushedIs
<1>3. Surviving(t) <=> Surviving(s)
    BY <1>2 DEF Surviving
<1>4. s.imp.state \in {"aborting", "none"}
    BY ImporterLog
<1>5. ~(d = "ambig" /\ s.log = <<>>)
    OBVIOUS
<1>6. s.amb => gone /\ Surviving(s)
    BY <1>1, <1>4 DEF ImporterOK
<1>7. Speaks(t, D, gone, FALSE)
    <2>1. Speaks(s, D, gone, FALSE)
        BY ImporterIs
    <2> QED
        BY <1>2, <2>1 DEF Speaks, Fit
<1>8. JournalOK(t, e, gone)
    BY <1>2, ImporterLog DEF JournalOK, SafeIs
<1>9. ImporterOK(t, D, e, gone, settled)
    BY <1>1, <1>2, <1>3, <1>4, <1>6, <1>8 DEF ImporterOK, Late, Begun
<1>10. Holds(s, d, t, e, settled)
    <2>1. ~Clean(s, d) /\ ~Untouched(s, d)
        BY DEF Clean, Untouched
    <2>2. CASE d = "none"
        BY <2>1, <2>2 DEF Holds, Bound
    <2>3. CASE s.log[1].event = "EImportFinishFalse" /\ Len(s.log) = 1
        <3>1. 1 \in 1..Len(s.log)
            BY <2>3
        <3> QED
            BY <2>1, <2>3, <3>1 DEF Holds, Bound
    <2>4. CASE t.log = <<>> /\ e = "mine"
        <3>1. Bound(t, e)
            BY <2>4, EmptySeq DEF Bound
        <3> QED
            BY <2>1, <3>1 DEF Holds
    <2> QED
        BY <2>2, <2>3, <2>4, ImporterLog DEF SafeIs
<1>11. e = "mine" => gone
    BY ImporterLog DEF SafeIs
<1>12. /\ Head(s.log).event \in {"EImportStart", "EImportFinishTrue", "EImportFinishFalse"}
       /\ e \in {"mine", "ambig", "none"}
    BY ImporterLog DEF SafeIs
<1> QED
    BY <1>1, <1>2, <1>7, <1>9, <1>10, <1>11, <1>12 DEF Importing, Frame

(* import_logged_start.                                                    *)
LEMMA LoggedStartPosts ==
    ASSUME NEW s, NEW D, NEW d, NEW gone, NEW settled, Importing(s, D, d, gone, settled), s.log # <<>>,
           s.imp.state = "loggingstart", NEW t, Flushed(s, t)
    PROVE  /\ Head(s.log).event = "EImportStart" /\ d = "none"
           /\ \E u : /\ Importing(u, D, "ambig", gone, settled) /\ Frame(s, u)
                     /\ u.log = <<>> /\ u.out = s.out /\ u.died = s.died
                     /\ Posts(u, ImportLoggedStart(t), E, "ExportDirAck")
<1>1. /\ s \in RankState /\ s.me = D /\ ImporterOK(s, D, d, gone, settled) /\ D \in Ranks /\ D # E
      /\ gone \in BOOLEAN /\ E \in Ranks /\ s.imp \in ImportStateT /\ s.imp.peer = E /\ s.imp.tid \in Nat
      /\ Surviving(s) /\ E \notin s.imp.byst /\ D \notin s.imp.byst
    BY ImporterIs
<1>2. /\ t \in RankState /\ t.me = s.me /\ t.map = s.map /\ t.epoch = s.epoch /\ t.exp = s.exp
      /\ t.imp = s.imp /\ t.auth = s.auth /\ t.isauth = s.isauth /\ t.frozen = s.frozen
      /\ t.wait = s.wait /\ t.amb = s.amb /\ t.other = s.other /\ t.gather = s.gather
      /\ t.resolved = s.resolved /\ t.out = s.out /\ t.died = s.died
    BY <1>1, FlushedIs
<1>3. Head(s.log).event = "EImportStart" /\ d = "none" /\ t.log = <<>>
    BY ImporterLog
<1>4. PICK i : i = [s.imp EXCEPT !.state = "acking"]
    OBVIOUS
<1>5. i \in ImportStateT /\ i.state = "acking" /\ i.peer = E /\ i.byst = s.imp.byst
    BY <1>1, <1>4 DEF ImportStateT, ImportStates
<1>6. PICK u : u = [t EXCEPT !.imp = i]
    OBVIOUS
<1>7. /\ u \in RankState /\ u.me = s.me /\ u.map = s.map /\ u.epoch = s.epoch /\ u.exp = s.exp
      /\ u.imp = i /\ u.auth = s.auth /\ u.isauth = s.isauth /\ u.frozen = s.frozen
      /\ u.wait = s.wait /\ u.amb = s.amb /\ u.other = s.other /\ u.gather = s.gather
      /\ u.resolved = s.resolved /\ u.out = s.out /\ u.log = <<>> /\ u.died = s.died
    BY <1>2, <1>3, <1>5, <1>6 DEF RankState
<1>8. Surviving(u)
    BY <1>1, <1>7 DEF Surviving
<1>9. Speaks(u, D, gone, FALSE)
    <2>1. Speaks(s, D, gone, FALSE)
        BY ImporterIs
    <2> QED
        BY <1>7, <2>1 DEF Speaks, Fit
<1>10. PICK e : e = "ambig"
    OBVIOUS
<1>11. JournalOK(u, e, gone)
    BY <1>5, <1>7 DEF JournalOK
<1>12. ImporterOK(u, D, e, gone, settled)
    BY <1>1, <1>5, <1>7, <1>8, <1>10, <1>11 DEF ImporterOK, Late, Begun
<1>13. Importing(u, D, e, gone, settled) /\ Frame(s, u)
    BY <1>1, <1>7, <1>9, <1>12 DEF Importing, Frame
<1>14. PICK n \in Nat : n = s.imp.tid
    BY <1>1
<1>15. ImportLoggedStart(t) = SendMds(u, E, Msg("ExportDirAck", n))
    <2>1. u = [t EXCEPT !.imp.state = "acking"]
        BY <1>2, <1>4, <1>6 DEF RankState
    <2> QED
        BY <1>1, <1>2, <1>14, <2>1 DEF ImportLoggedStart
<1> HIDE <1>4, <1>6
<1> QED
    BY <1>3, <1>7, <1>10, <1>13, <1>15 DEF Posts

-----------------------------------------------------------------------------
(* The three roles together.                                               *)
Role(s, D, d, gone, settled) ==
    \/ s.me = E /\ gone = (d # "mine") /\ Exporter(s, D, d)
    \/ s.me = D /\ Importing(s, D, d, gone, settled)
    \/ Standing(s, D, gone)
Kept(s, t, D, d, gone, settled) ==
    \/ s.me = E /\ Exported(s, t, D, d)
    \/ s.me = D /\ s.me # E /\ Imported(s, t, D, d, gone, settled)
    \/ s.me # D /\ s.me # E /\ Stood(s, t, D, gone)

LEMMA RoleIs ==
    ASSUME NEW s, NEW D, NEW d, NEW gone, NEW settled, Role(s, D, d, gone, settled)
    PROVE  /\ s \in RankState /\ s.me \in Ranks /\ D # E
           /\ s.me = E => gone = (d # "mine") /\ Exporter(s, D, d)
           /\ s.me = D => Importing(s, D, d, gone, settled)
           /\ s.me # E /\ s.me # D => Standing(s, D, gone)
<1>1. CASE s.me = E /\ gone = (d # "mine") /\ Exporter(s, D, d)
    BY <1>1, RankFields DEF Exporter
<1>2. CASE s.me = D /\ Importing(s, D, d, gone, settled)
    BY <1>2, RankFields DEF Importing
<1>3. CASE Standing(s, D, gone)
    BY <1>3, RankFields DEF Standing
<1> QED
    BY <1>1, <1>2, <1>3 DEF Role

LEMMA KeptRole ==
    ASSUME NEW s, NEW t, NEW D, NEW d, NEW gone, NEW settled, Role(s, D, d, gone, settled),
           Kept(s, t, D, d, gone, settled)
    PROVE  Role(t, D, d, gone, settled) /\ Frame(s, t)
<1>1. CASE s.me = E /\ Exported(s, t, D, d)
    <2>1. gone = (d # "mine")
        BY <1>1, RoleIs
    <2>2. Exporter(t, D, d) /\ Frame(s, t) /\ t.me = E
        BY <1>1 DEF Exported, Frame
    <2> QED
        BY <2>1, <2>2 DEF Role
<1>2. CASE s.me = D /\ s.me # E /\ Imported(s, t, D, d, gone, settled)
    BY <1>2 DEF Imported, Role, Frame
<1>3. CASE s.me # D /\ s.me # E /\ Stood(s, t, D, gone)
    BY <1>3 DEF Stood, Role
<1> QED
    BY <1>1, <1>2, <1>3 DEF Kept

LEMMA KeptOnce ==
    ASSUME NEW s, NEW t, NEW u, NEW D, NEW d, NEW gone, NEW settled,
           Kept(s, t, D, d, gone, settled), Kept(t, u, D, d, gone, settled)
    PROVE  Kept(s, u, D, d, gone, settled)
<1>1. t.me = s.me
    BY DEF Kept, Exported, Imported, Stood, Frame
<1>2. CASE s.me = E
    BY <1>1, <1>2, ExportedOnce DEF Kept
<1>3. CASE s.me = D /\ s.me # E
    BY <1>1, <1>3, ImportedOnce DEF Kept
<1>4. CASE s.me # D /\ s.me # E
    BY <1>1, <1>4, StoodOnce DEF Kept
<1> QED
    BY <1>2, <1>3, <1>4

LEMMA RoleKeeps ==
    ASSUME NEW s, NEW D, NEW d, NEW gone, NEW settled, Role(s, D, d, gone, settled)
    PROVE  /\ Kept(s, s, D, d, gone, settled)
           /\ Kept(s, SendSubtreeResolves(s), D, d, gone, settled)
           /\ Kept(s, RejoinSendRejoins(s), D, d, gone, settled)
           /\ \A who \in Ranks : Kept(s, HandleMdsFailure(s, who), D, d, gone, settled)
<1>1. CASE s.me = E
    <2>1. Exporter(s, D, d)
        BY <1>1, RoleIs
    <2> QED
        BY <1>1, <2>1, ExportedItself, ExporterPends, ExporterRejoin, ExporterFailure DEF Kept
<1>2. CASE s.me = D /\ s.me # E
    <2>1. Importing(s, D, d, gone, settled)
        BY <1>2, RoleIs
    <2> QED
        BY <1>2, <2>1, ImportedItself, ImporterPends, RejoinKeeps, ImporterFailure DEF Kept
<1>3. CASE s.me # D /\ s.me # E
    <2>1. Standing(s, D, gone)
        BY <1>3, RoleIs
    <2> QED
        BY <1>3, <2>1, StoodItself, StandsSends, StandsRejoin, StandsFailure DEF Kept
<1> QED
    BY <1>1, <1>2, <1>3

LEMMA LostKept ==
    ASSUME NEW s, NEW D, NEW d, NEW gone, NEW settled, Role(s, D, d, gone, settled), NEW F \in SUBSET Ranks
    PROVE  Kept(s, Lost(s, F)[F], D, d, gone, settled)
<1>1. PICK h : h = Lost(s, F)
    OBVIOUS
<1>2. \A T \in SUBSET F : h[T] = Losing(s, h, T)
    BY <1>1, LostIs
<1>3. \A T \in SUBSET F : Cardinality(T) \in Nat
    BY RanksAssumption, FS_Subset, FS_CardinalityType
<1> DEFINE Ok(x) == Kept(s, x, D, d, gone, settled)
           Bad == {n \in Nat : \E T \in SUBSET F : Cardinality(T) = n /\ ~Ok(h[T])}
<1>4. Ok(s)
    BY RoleKeeps
<1>5. ASSUME NEW x, Ok(x), NEW q \in Ranks PROVE Ok(AfterFailure(x, q))
    <2>1. Role(x, D, d, gone, settled)
        BY <1>5, KeptRole
    <2>2. Kept(x, HandleMdsFailure(x, q), D, d, gone, settled)
        BY <1>5, <2>1, RoleKeeps
    <2>3. Kept(s, HandleMdsFailure(x, q), D, d, gone, settled)
        BY <1>5, <2>2, KeptOnce
    <2> QED
        BY <1>5, <2>3 DEF AfterFailure
<1> HIDE DEF Ok
<1>6. Bad = {}
    <2>1. SUFFICES ASSUME Bad # {} PROVE FALSE
        OBVIOUS
    <2>2. PICK m \in Bad : \A y \in Bad : m <= y
        BY <2>1, LeastOf
    <2>3. PICK T \in SUBSET F : Cardinality(T) = m /\ ~Ok(h[T])
        OBVIOUS
    <2>4. T # {}
        BY <1>2, <1>4, <2>3 DEF Losing
    <2>5. PICK q : q = CHOOSE x \in T : TRUE
        OBVIOUS
    <2>6. PICK U : U = T \ {q}
        OBVIOUS
    <2>7. q \in Ranks /\ U \in SUBSET F /\ Cardinality(U) \in Nat /\ Cardinality(U) < m /\ m \in Nat
        BY <2>3, <2>4, <2>5, <2>6, OneLess
    <2>8. Cardinality(U) \notin Bad
        BY <2>2, <2>7
    <2>9. Ok(h[U])
        BY <2>7, <2>8
    <2>10. Ok(AfterFailure(h[U], q))
        BY <1>5, <2>7, <2>9
    <2>11. h[T] = AfterFailure(h[U], q)
        BY <1>2, <2>3, <2>4, <2>5, <2>6 DEF Losing
    <2> QED
        BY <2>3, <2>10, <2>11
<1>7. Ok(h[F])
    BY <1>3, <1>6
<1> QED
    BY <1>1, <1>7 DEF Ok

(* A new map: the state of this rank goes on, and not before it has        *)
(* resolved.                                                               *)
Goes(s, t, D, d, settled) ==
    t.me = s.me /\ (s.me = E => Onward(s, t)) /\ (s.me = D => Holds(s, d, t, d, settled))
MapsOn(s, map) ==
    /\ s.map[s.me] \in ActiveOrStopping => map[s.me] \in ActiveOrStopping
    /\ s.map[s.me] = "resolve" /\ ~s.resolved => map[s.me] = "resolve"
Remapped(s, t, map, e, W) == W \in SUBSET s.wait /\ t = [s EXCEPT !.map = map, !.epoch = e, !.wait = W]

LEMMA MapRole ==
    ASSUME NEW s, NEW D, NEW d, NEW gone, NEW settled, Role(s, D, d, gone, settled),
           NEW map \in MDSMap, NEW e \in Nat, NEW W, NEW t, Remapped(s, t, map, e, W), MapsOn(s, map)
    PROVE  /\ Role(t, D, d, gone, settled) /\ Goes(s, t, D, d, settled)
           /\ t.map = map /\ t.epoch = e /\ t.resolved = s.resolved
<1>1. s \in RankState /\ s.wait \in SUBSET Context
    BY RoleIs, RankFields
<1>2. t = [s EXCEPT !.map = map, !.epoch = e, !.wait = W] /\ W \subseteq s.wait /\ W \in SUBSET Context
    BY <1>1 DEF Remapped
<1>3. /\ t \in RankState /\ t.me = s.me /\ t.map = map /\ t.epoch = e /\ t.exp = s.exp
      /\ t.imp = s.imp /\ t.auth = s.auth /\ t.isauth = s.isauth /\ t.frozen = s.frozen
      /\ t.wait = W /\ t.log = s.log /\ t.amb = s.amb /\ t.other = s.other
      /\ t.resolved = s.resolved /\ t.out = s.out /\ t.gather = s.gather
    BY <1>1, <1>2 DEF RankState
<1>4. Surviving(s) => Surviving(t)
    BY <1>3 DEF Surviving, MapsOn
<1>5. CASE s.me = E
    <2>1. Exporter(s, D, d) /\ ExporterOK(s, D, d) /\ StageOK(s, D, d) /\ gone = (d # "mine")
        <3>1. Exporter(s, D, d) /\ gone = (d # "mine")
            BY <1>5, RoleIs
        <3> QED
            BY <3>1, ExporterIs
    <2>2. ExporterOK(t, D, d)
        BY <1>2, <1>3, <1>4, <2>1 DEF ExporterOK, StageOK
    <2>3. Speaks(t, D, d # "mine", May(t, d # "mine"))
        BY <1>3, <2>1, SameOut DEF Exporter, May
    <2>4. Exporter(t, D, d)
        BY <1>3, <2>1, <2>2, <2>3 DEF Exporter
    <2>5. D # E /\ Onward(s, t)
        BY <1>3, RoleIs DEF Onward
    <2> QED
        BY <1>3, <1>5, <2>1, <2>4, <2>5 DEF Role, Goes
<1>6. CASE s.me = D /\ s.me # E
    <2>1. Importing(s, D, d, gone, settled) /\ ImporterOK(s, D, d, gone, settled) /\ Speaks(s, D, gone, FALSE)
          /\ JournalOK(s, d, gone)
        <3>1. Importing(s, D, d, gone, settled)
            BY <1>6, RoleIs
        <3>2. ImporterOK(s, D, d, gone, settled) /\ Speaks(s, D, gone, FALSE)
            BY <3>1, ImporterIs
        <3> QED
            BY <3>1, <3>2 DEF ImporterOK
    <2>2. JournalOK(t, d, gone)
        BY <1>3, <2>1 DEF JournalOK
    <2>3. Undecided(s, D, gone, settled) => Undecided(t, D, gone, settled)
        BY <1>3, <1>6 DEF Undecided, MapsOn
    <2>4. ImporterOK(t, D, d, gone, settled)
        BY <1>2, <1>3, <1>4, <2>1, <2>2, <2>3 DEF ImporterOK
    <2>5. Speaks(t, D, gone, FALSE)
        BY <1>3, <2>1 DEF Speaks, Fit
    <2>6. Holds(s, d, t, d, settled)
        BY <1>3, HoldsSame
    <2> QED
        BY <1>3, <1>6, <2>1, <2>4, <2>5, <2>6 DEF Role, Goes, Importing
<1>7. CASE s.me # D /\ s.me # E
    <2>1. Standing(s, D, gone)
        BY <1>7, RoleIs
    <2>2. BystanderOK(t, D)
        BY <1>2, <1>3, <2>1 DEF BystanderOK, Standing
    <2>3. Speaks(t, D, gone, FALSE)
        BY <1>3, <2>1 DEF Standing, Speaks, Fit
    <2> QED
        BY <1>3, <1>7, <2>1, <2>2, <2>3 DEF Role, Goes, Standing
<1> QED
    BY <1>5, <1>6, <1>7

LEMMA KeptGoes ==
    ASSUME NEW s, NEW t, NEW u, NEW D, NEW d, NEW gone, NEW settled, Goes(s, t, D, d, settled),
           Kept(t, u, D, d, gone, settled)
    PROVE  Goes(s, u, D, d, settled)
<1>1. CASE t.me = E /\ Exported(t, u, D, d)
    <2>1. CASE s.me = D
        BY <1>1, <2>1 DEF Goes, Exported, Exporter
    <2>2. CASE s.me # D
        BY <1>1, <2>2 DEF Goes, Exported, Frame, Onward
    <2> QED
        BY <2>1, <2>2
<1>2. CASE t.me = D /\ t.me # E /\ Imported(t, u, D, d, gone, settled)
    BY <1>2 DEF Goes, Imported, Frame, Holds
<1>3. CASE t.me # D /\ t.me # E /\ Stood(t, u, D, gone)
    BY <1>3 DEF Goes, Stood, Frame
<1> QED
    BY <1>1, <1>2, <1>3 DEF Kept

LEMMA MapKeeps ==
    ASSUME NEW s, NEW D, NEW d, NEW gone, NEW settled, Role(s, D, d, gone, settled),
           NEW map \in MDSMap, NEW e \in Nat, NEW F \in SUBSET Ranks, MapsOn(s, map),
           NEW t, t = HandleMdsMap(s, map, e, F)
    PROVE  /\ Role(t, D, d, gone, settled) /\ Goes(s, t, D, d, settled)
           /\ t.map = map /\ t.epoch = e /\ (s.resolved => t.resolved)
<1>1. PICK W : W = {c \in s.wait : c.peer \notin F}
    OBVIOUS
<1>2. PICK s0 : s0 = [s EXCEPT !.map = map, !.epoch = e, !.wait = W]
    OBVIOUS
<1>3. Remapped(s, s0, map, e, W)
    BY <1>1, <1>2 DEF Remapped
<1>4. s0 = [s EXCEPT !.map = map, !.epoch = e, !.wait = {c \in @ : c.peer \notin F}]
    BY <1>1, <1>2
<1> HIDE <1>1, <1>2
<1>5. /\ Role(s0, D, d, gone, settled) /\ Goes(s, s0, D, d, settled)
      /\ s0.map = map /\ s0.epoch = e /\ s0.resolved = s.resolved
    BY <1>3, MapRole
<1>6. PICK s1 : s1 = IF ~IsResolving(s.map) /\ IsResolving(map) THEN SendSubtreeResolves(s0) ELSE s0
    OBVIOUS
<1>7. Kept(s0, s1, D, d, gone, settled)
    BY <1>5, <1>6, RoleKeeps
<1>8. PICK s2 : s2 = IF map[s.me] \in ActiveOrStopping \cup {"rejoin"}
                          /\ ~IsRejoining(s.map) /\ IsRejoining(map)
                     THEN RejoinSendRejoins(s1) ELSE s1
    OBVIOUS
<1>9. Kept(s0, s2, D, d, gone, settled)
    <2>1. Role(s1, D, d, gone, settled)
        BY <1>5, <1>7, KeptRole
    <2>2. Kept(s1, s2, D, d, gone, settled)
        BY <1>8, <2>1, RoleKeeps
    <2> QED
        BY <1>7, <2>2, KeptOnce
<1>10. t = Lost(s2, F)[F]
    BY <1>4, <1>6, <1>8 DEF HandleMdsMap
<1>11. Kept(s0, t, D, d, gone, settled)
    <2>1. Role(s2, D, d, gone, settled)
        BY <1>5, <1>9, KeptRole
    <2>2. Kept(s2, Lost(s2, F)[F], D, d, gone, settled)
        BY <2>1, LostKept
    <2> QED
        BY <1>9, <1>10, <2>2, KeptOnce
<1> HIDE <1>6, <1>8, <1>10
<1>12. Role(t, D, d, gone, settled) /\ Frame(s0, t)
    BY <1>5, <1>11, KeptRole
<1>13. Goes(s, t, D, d, settled)
    BY <1>5, <1>11, KeptGoes
<1> QED
    BY <1>5, <1>12, <1>13 DEF Frame

=============================================================================
