------------------------- MODULE MDSTableLoss_proofs --------------------------
(***************************************************************************)
(* Nothing is lost: as long as one process at most dies, whatever a client *)
(* has made durable is in the table of the server or pending there, for    *)
(* any set of ranks and any bounds.                                        *)
(***************************************************************************)
EXTENDS MDSTable_proofs

-----------------------------------------------------------------------------
(* Nothing is lost.  Whoever has been down is a rank that died; before the *)
(* first death there is one map.                                           *)
Fell(q) == \E k \in 1..Now : mdsmap[k][q] = "down"
Victims ==
    /\ \A q \in Ranks : client[q].last = -1 => Fell(q)
    /\ \A q \in Ranks : \A k \in 1..Now : mdsmap[k][q] # "active" => Fell(q)
    /\ OneDeath => \A q, r \in Ranks : Fell(q) /\ Fell(r) => q = r
    /\ Deaths = {} => Now = 1 /\ \A q \in Ranks : mdsmap[1][q] = "active"

(* The preparations that a client may yet hear of.  A client accepts an    *)
(* AGREE if it waits for the reqid; one that the server is still going to  *)
(* greet gets reqids above those that are pending.                         *)
Live == table.pending \cup Logged \cup UNION {Agreed(q) : q \in Ranks}
Wanted(p) == p.reqid \in client[p.mds].preparing
Ungreeted(q) == \E k \in epoch[TableServer]..Now : mdsmap[k][q] # "active"
Before(p) ==
    /\ client[p.mds].last # -1 => p.reqid <= client[p.mds].last
    /\ client[p.mds].last = -1 => \A m \in In(net[TableServer][p.mds]) :
            m.op = "SERVER_READY" => p.reqid <= m.reqid
Fresh(p) == Before(p) /\ (Wanted(p) => p.tid \notin done)

(* A reqid is used once by a process, and what an earlier one asked for is *)
(* stale once the server has greeted this one.                             *)
ReqidsOf(c) ==
    /\ \A p \in c.prepared : p.reqid <= c.last /\ p.reqid \notin c.preparing
    /\ \A i \in c.preparing : i <= c.last
Asked(q, m) ==
    m.op = "PREPARE" => \/ client[q].last # -1 /\ m.reqid <= client[q].last
                        \/ \E k \in (m.ep + 1)..Now : mdsmap[k][q] = "down"
Reqids ==
    /\ \A q \in Ranks : ReqidsOf(client[q])
    /\ \A q \in Ranks : \A m \in In(net[q][TableServer]) : Asked(q, m)

(* What a client has prepared, or may yet prepare, is pending, and not     *)
(* done.                                                                   *)
Backed ==
    /\ \A q \in Ranks : \A p \in PreparedBy(q) : p \in table.pending /\ p.tid \notin done
    /\ \A p \in Live : Fresh(p) /\ (Wanted(p) => p \in table.pending)
    /\ \A p \in Logged : p.tid \notin done /\ (Ungreeted(p.mds) => p \in table.pending)

(* What is rolled back will not be prepared, and was committed if it is    *)
(* done.                                                                   *)
Refused(t) ==
    /\ t <= table.version
    /\ \A q \in Ranks : t \notin Tids(client[q].prepared)
    /\ \A p \in Live : p.tid = t => ~Wanted(p)
    /\ \A p \in Logged : p.tid = t => ~Ungreeted(p.mds)
    /\ t \in done => t \in table.snaps
Refusals == \A q \in Ranks : \A m \in In(net[q][TableServer]) :
                m.op = "ROLLBACK" => Refused(m.tid)

(* An AGREE, whether it counts or not, is the only one of its tid.         *)
Tallies(q, m) ==
    m.op = "AGREE" =>
        /\ m.tid <= table.version
        /\ \A p \in Known : p.tid = m.tid => p = Offer(q, m)
        /\ \A r \in Ranks : m.tid \in Signed(r) => r = q
        /\ m.bl => m.tid \notin Tids(Logged)
        /\ ~m.bl => ~Ungreeted(q)
Agreements == \A q \in Ranks : \A m \in In(net[TableServer][q]) : Tallies(q, m)

(* What is done is pending until it is committed, and the client keeps its *)
(* commit until then.                                                      *)
Kept(snaps) ==
    /\ \A t \in done : t \in snaps \/ \E q \in Ranks : t \in client[q].commits \cap updates[q]
    /\ \A q \in Ranks : \A m \in In(net[TableServer][q]) : m.op = "ACK" => m.tid \in snaps
    /\ \A q \in Ranks : \A x \in In(log[q]) : x.type = "ETableClient" => x.tid \in snaps
Decided ==
    /\ done \subseteq table.snaps \cup Tids(table.pending)
    /\ Kept(table.snaps)
    /\ \A x \in In(log[TableServer]) : x.type = "COMMIT" => x.tid \in table.snaps

Guarded == Backed /\ Reqids /\ Refusals /\ Agreements /\ Decided

(* Before anybody has died: a COMMIT is sent once, nothing is rolled back, *)
(* and the table on disk has all tids up to its version.                   *)
CommitsOnce(c) ==
    \A i, j \in 1..Len(c) :
        c[i].op = "COMMIT" /\ c[j].op = "COMMIT" /\ c[i].tid = c[j].tid => i = j
Gathered(t) == Tids(t.pending) \cup t.snaps
Unbroken ==
    /\ \A q \in Ranks : client[q].ready
    /\ \A q \in Ranks : \A m \in In(net[q][TableServer]) :
        /\ m.op # "ROLLBACK"
        /\ m.op = "COMMIT" => \E p \in table.pending : p.tid = m.tid /\ p.mds = q
    /\ \A q \in Ranks : CommitsOnce(net[q][TableServer])
    /\ \A q \in Ranks : \A m \in In(net[TableServer][q]) : ~Salute(m)
OnRecord ==
    /\ \A x \in In(log[TableServer]) :
        /\ x.type # "ROLLBACK"
        /\ x.type = "COMMIT" /\ x.version <= disk.version => x.tid \in disk.snaps
    /\ Logged \subseteq table.pending
    /\ \A t \in Gathered(table) : t \in Gathered(disk) \/ (t > disk.version /\ t \in Tids(Logged))
    /\ disk.snaps \subseteq table.snaps
    /\ \A p \in disk.pending : Fresh(p)
    /\ Kept(disk.snaps)

LossInv ==
    /\ Victims
    /\ OneDeath => Guarded
    /\ Deaths = {} => Unbroken /\ OnRecord

(* What has been proved of every reachable state.                          *)
Sound == /\ TypeOK /\ Causal /\ Continues /\ Epochs /\ Unique
         /\ GreetedApart /\ AnswersOnce /\ AllRetries
(* A step in which nobody dies.                                            *)
Lives == [Next]_vars /\ ~\E r \in Ranks : \E why : Dies(r, why)

(* A map more, or none.                                                    *)
LEMMA MapSteps ==
    ASSUME TypeOK, [Next]_vars
    PROVE  \/ UNCHANGED mdsmap
           \/ \E r \in Ranks : \E st \in {"down", "up", "active"} :
                /\ OneMore(r, st)
                /\ st = "down" => \E why : Dies(r, why)
                /\ st = "up" => ~Up(r)
                /\ st = "active" => mdsmap[Now][r] = "up"
<1>1. CASE UNCHANGED cluster
    BY <1>1 DEF cluster
<1>2. ASSUME NEW r \in Ranks, NEW why, Dies(r, why)
      PROVE  OneMore(r, "down")
    BY <1>2, NextMap DEF Dies
<1>3. ASSUME NEW r \in Ranks, Takeover(r)
      PROVE  OneMore(r, "up") /\ ~Up(r)
    BY <1>3, NextMap DEF Takeover, Published
<1>4. ASSUME NEW r \in Ranks, MonActive(r)
      PROVE  OneMore(r, "active") /\ mdsmap[Now][r] = "up"
    BY <1>4, NextMap DEF MonActive, Published
<1>5. ASSUME NEW r \in Ranks, HandleMdsMap(r)
      PROVE  UNCHANGED mdsmap
    BY <1>5 DEF HandleMdsMap
<1> QED
    BY <1>1, <1>2, <1>3, <1>4, <1>5, ClusterSteps

(* Who dies was running.                                                   *)
LEMMA DiesUp ==
    ASSUME TypeOK, [Next]_vars, NEW r \in Ranks, NEW why, Dies(r, why)
    PROVE  Up(r)
<1>1. OneMore(r, "down")
    BY NextMap DEF Dies
<1>2. Now \in Nat /\ Now >= 1
    BY NowType
<1>3. ~UNCHANGED mdsmap
    BY <1>1, <1>2 DEF OneMore, Now
<1>4. ASSUME NEW q \in Ranks, NEW cause, Dies(q, cause), Up(q)
      PROVE  Up(r)
    <2>1. OneMore(q, "down")
        BY <1>4, NextMap DEF Dies
    <2> QED
        BY <1>1, <1>4, <2>1 DEF OneMore, Up
<1>5. CASE \E q \in Ranks : HandlePrepare(q) \/ HandleAck(q) \/ TableLogged(q) \/ Prepare(q)
                            \/ Expire(q) \/ HandleMdsMap(q)
    BY <1>3, <1>5 DEF HandlePrepare, HandleAck, TableLogged, Prepare, Expire, HandleMdsMap,
                      cluster
<1>6. CASE (\E x, y \in Ranks : DropStale(x, y)) \/ ServerUpdate \/ Save \/ UNCHANGED vars
    BY <1>3, <1>6 DEF DropStale, ServerUpdate, Save, vars, cluster
<1>7. ASSUME NEW q \in Ranks, HandleCommit(q) \/ HandleRollback(q)
      PROVE  Up(r)
    <2>1. Up(TableServer)
        BY <1>7 DEF HandleCommit, HandleRollback, Receives, Arrives
    <2>2. \E cause : Dies(TableServer, cause)
        BY <1>3, <1>7 DEF HandleCommit, HandleRollback, cluster
    <2> QED
        BY <1>4, <2>1, <2>2, TableAssumption
<1>8. ASSUME NEW q \in Ranks, HandleAgree(q) \/ HandleServerReady(q)
      PROVE  Up(r)
    <2>1. Up(q)
        BY <1>8 DEF HandleAgree, HandleServerReady, Receives, Arrives
    <2>2. \E cause : Dies(q, cause)
        BY <1>3, <1>8 DEF HandleAgree, HandleServerReady, cluster
    <2> QED
        BY <1>4, <2>1, <2>2
<1>9. ASSUME NEW q \in Ranks, Mksnap(q) \/ Commit(q) \/ Fail(q)
      PROVE  Up(r)
    <2>1. Up(q)
        BY <1>9 DEF Mksnap, Commit, Fail
    <2>2. \E cause : Dies(q, cause)
        BY <1>3, <1>9 DEF Mksnap, Commit, Fail, cluster
    <2> QED
        BY <1>4, <2>1, <2>2
<1>10. ASSUME NEW q \in Ranks, Takeover(q)
       PROVE  Up(r)
    <2>1. OneMore(q, "up") /\ ~Up(q)
        BY <1>10, NextMap DEF Takeover, Published
    <2> QED
        BY <1>1, <2>1 DEF OneMore, Up
<1>11. ASSUME NEW q \in Ranks, MonActive(q)
       PROVE  Up(r)
    <2>1. OneMore(q, "active") /\ mdsmap[Now][q] = "up"
        BY <1>11, NextMap DEF MonActive, Published
    <2> QED
        BY <1>1, <2>1 DEF OneMore, Up
<1> QED
    BY <1>5, <1>6, <1>7, <1>8, <1>9, <1>10, <1>11 DEF Next, Progress

(* The deaths so far.                                                      *)
LEMMA DeathsGrow ==
    ASSUME TypeOK, [Next]_vars
    PROVE  /\ Deaths \subseteq Deaths'
           /\ \A r \in Ranks : \A why : Dies(r, why) => Now + 1 \in Deaths' /\ Now + 1 \notin Deaths
<1>1. Now \in Nat /\ Now >= 1
    BY NowType
<1>2. Now + 1 \notin Deaths
    BY <1>1 DEF Deaths
<1>3. CASE UNCHANGED mdsmap
    <2>1. Deaths' = Deaths
        BY <1>3 DEF Deaths, Now
    <2>2. ASSUME NEW r \in Ranks, NEW why, Dies(r, why)
          PROVE  FALSE
        <3>1. OneMore(r, "down")
            BY <2>2, NextMap DEF Dies
        <3> QED
            BY <1>1, <1>3, <3>1 DEF OneMore, Now
    <2> QED
        BY <2>1, <2>2
<1>4. ASSUME NEW r \in Ranks, NEW st, OneMore(r, st)
      PROVE  Deaths \subseteq Deaths'
    <2> SUFFICES ASSUME NEW i \in Deaths PROVE i \in Deaths'
        OBVIOUS
    <2>1. i \in 2..Now /\ \E q \in Ranks : mdsmap[i - 1][q] # "down" /\ mdsmap[i][q] = "down"
        BY DEF Deaths
    <2>2. i \in 1..Now /\ i - 1 \in 1..Now /\ Now' = Now + 1 /\ i \in 2..(Now + 1)
        BY <1>1, <1>4, <2>1 DEF OneMore
    <2>3. mdsmap'[i] = mdsmap[i] /\ mdsmap'[i - 1] = mdsmap[i - 1]
        BY <1>4, <2>2 DEF OneMore
    <2> QED
        BY <2>1, <2>2, <2>3 DEF Deaths
<1>5. ASSUME NEW r \in Ranks, NEW why, Dies(r, why)
      PROVE  Now + 1 \in Deaths'
    <2>1. OneMore(r, "down")
        BY <1>5, NextMap DEF Dies
    <2>2. Up(r)
        BY <1>5, DiesUp
    <2>3. Now' = Now + 1 /\ mdsmap'[Now] = mdsmap[Now] /\ mdsmap'[Now + 1][r] = "down"
        BY <1>1, <2>1 DEF OneMore
    <2>4. Now + 1 \in 2..(Now + 1) /\ (Now + 1) - 1 = Now
        BY <1>1
    <2>5. mdsmap'[(Now + 1) - 1][r] # "down"
        BY <2>2, <2>3, <2>4 DEF Up
    <2> QED
        BY <2>3, <2>4, <2>5 DEF Deaths
<1> QED
    BY <1>2, <1>3, <1>4, <1>5, MapSteps

LEMMA DeathsLast ==
    ASSUME TypeOK, [Next]_vars
    PROVE  /\ OneDeath' => OneDeath
           /\ Deaths' = {} => Deaths = {}
           /\ \A r \in Ranks : \A why : Dies(r, why) =>
                Deaths' # {} /\ (OneDeath' => Deaths = {})
    BY DeathsGrow DEF OneDeath

(* Who has fallen.                                                         *)
LEMMA FellChange ==
    ASSUME TypeOK, [Next]_vars, NEW q \in Ranks
    PROVE  /\ Fell(q) => Fell(q)'
           /\ Fell(q)' => Fell(q) \/ \E why : Dies(q, why)
           /\ (\E why : Dies(q, why)) => Fell(q)'
<1>1. Now \in Nat /\ Now >= 1
    BY NowType
<1>2. CASE UNCHANGED mdsmap
    <2>1. ASSUME NEW why, Dies(q, why)
          PROVE  FALSE
        <3>1. OneMore(q, "down")
            BY <2>1, NextMap DEF Dies
        <3> QED
            BY <1>1, <1>2, <3>1 DEF OneMore, Now
    <2> QED
        BY <1>2, <2>1 DEF Fell, Now
<1>3. ASSUME NEW r \in Ranks, NEW st, OneMore(r, st), st = "down" => \E why : Dies(r, why)
      PROVE  /\ Fell(q) => Fell(q)'
             /\ Fell(q)' => Fell(q) \/ \E why : Dies(q, why)
             /\ (\E why : Dies(q, why)) => Fell(q)'
    <2>1. /\ Now' = Now + 1 /\ \A i \in 1..Now : mdsmap'[i] = mdsmap[i]
          /\ mdsmap'[Now + 1][r] = st
          /\ q # r => mdsmap'[Now + 1][q] = mdsmap[Now][q]
        BY <1>3 DEF OneMore
    <2>2. \A k \in 1..(Now + 1) : k \in 1..Now \/ k = Now + 1
        BY <1>1
    <2>3. 1..Now \subseteq 1..(Now + 1) /\ Now + 1 \in 1..(Now + 1) /\ Now \in 1..Now
        BY <1>1
    <2>4. Fell(q) => Fell(q)'
        BY <2>1, <2>3 DEF Fell
    <2>5. Fell(q)' => Fell(q) \/ (q = r /\ st = "down")
        BY <2>1, <2>2, <2>3 DEF Fell
    <2>6. ASSUME NEW why, Dies(q, why)
          PROVE  Fell(q)'
        <3>1. OneMore(q, "down")
            BY <2>6, NextMap DEF Dies
        <3> QED
            BY <2>1, <2>3, <3>1 DEF OneMore, Fell
    <2> QED
        BY <1>3, <2>4, <2>5, <2>6
<1> QED
    BY <1>2, <1>3, MapSteps

LEMMA NextVictims == Sound /\ Victims /\ [Next]_vars => Victims'
<1> SUFFICES ASSUME Sound, Victims, [Next]_vars PROVE Victims'
    OBVIOUS
<1>1. TypeOK /\ Now \in Nat /\ Now >= 1
    BY NowType DEF Sound
<1>2. \A q \in Ranks : client'[q].last = -1 => Fell(q)'
    <2> SUFFICES ASSUME NEW q \in Ranks, client'[q].last = -1 PROVE Fell(q)'
        OBVIOUS
    <2>1. client[q] \in Client
        BY <1>1 DEF TypeOK
    <2>2. CASE client[q].last = -1
        BY <1>1, <2>2, FellChange DEF Victims
    <2>3. CASE client[q].last # -1
        <3>1. client[q].last \in Nat /\ client[q].waiting \in Nat
            BY <2>1, <2>3 DEF Client
        <3>2. ~Asks(q)
            <4> SUFFICES ASSUME Asks(q) PROVE FALSE
                OBVIOUS
            <4>1. client'[q] = [client[q] EXCEPT !.last = client[q].last + 1,
                                    !.preparing = @ \cup {client[q].last + 1}]
                BY <2>3 DEF Asks
            <4>2. client'[q].last = client[q].last + 1
                BY <2>1, <4>1 DEF Client
            <4> QED
                BY <3>1, <4>2
        <3>6. ~AckTaken(q) /\ ~Journals(q) /\ ~Loses(q)
            BY <2>1, <2>3, <3>1 DEF AckTaken, Journals, Loses, Client
        <3>3. ~Accepts(q) /\ ~Commits(q)
            BY <2>3 DEF Accepts, Commits
        <3>4. ~Readied(q)
            <4> DEFINE b == client[q].last + client[q].waiting
            <4>1. [client[q] EXCEPT !.ready = TRUE, !.last = b, !.waiting = 0,
                        !.preparing = client[q].preparing \cup (client[q].last + 1)..b].last = b
                BY <2>1 DEF Client
            <4>2. b # -1
                BY <3>1
            <4> QED
                BY <2>3, <4>1, <4>2 DEF Readied
        <3>5. Restarts(q)
            BY <1>1, <2>3, <3>2, <3>3, <3>4, <3>6, ClientChange
        <3> QED
            BY <1>1, <3>5, FellChange DEF Restarts
    <2> QED
        BY <2>2, <2>3
<1>3. \A q \in Ranks : \A k \in 1..Now' : mdsmap'[k][q] # "active" => Fell(q)'
    <2> SUFFICES ASSUME NEW q \in Ranks, NEW k \in 1..Now', mdsmap'[k][q] # "active"
                 PROVE  Fell(q)'
        OBVIOUS
    <2>1. Fell(q) => Fell(q)'
        BY <1>1, FellChange
    <2>2. CASE UNCHANGED mdsmap
        BY <2>1, <2>2 DEF Victims, Now
    <2>3. ASSUME NEW r \in Ranks, NEW st \in {"down", "up", "active"}, OneMore(r, st),
                 st = "down" => \E why : Dies(r, why), st = "up" => ~Up(r)
          PROVE  Fell(q)'
        <3>1. CASE k \in 1..Now
            BY <2>1, <2>3, <3>1 DEF OneMore, Victims
        <3>2. CASE k = Now + 1
            <4>1. Now \in 1..Now
                BY <1>1
            <4>2. CASE q # r
                BY <2>1, <2>3, <3>2, <4>1, <4>2 DEF OneMore, Victims
            <4>3. CASE q = r /\ st = "up"
                BY <2>1, <2>3, <4>1, <4>3 DEF Up, Fell
            <4>4. CASE q = r /\ st = "down"
                BY <1>1, <2>3, <4>4, FellChange
            <4> QED
                BY <2>3, <3>2, <4>2, <4>3, <4>4 DEF OneMore
        <3> QED
            BY <1>1, <2>3, <3>1, <3>2 DEF OneMore
    <2> QED
        BY <1>1, <2>2, <2>3, MapSteps
<1>4. ASSUME OneDeath', NEW q \in Ranks, NEW r \in Ranks, Fell(q)', Fell(r)'
      PROVE  q = r
    <2>1. ASSUME NEW s \in Ranks, NEW why, Dies(s, why)
          PROVE  /\ \A p \in Ranks : ~Fell(p)
                 /\ \A p \in Ranks : (\E w : Dies(p, w)) => p = s
        <3>1. Now = 1 /\ \A p \in Ranks : mdsmap[1][p] = "active"
            BY <1>1, <1>4, <2>1, DeathsLast DEF Victims
        <3>2. \A p \in Ranks : ~Fell(p)
            BY <3>1 DEF Fell
        <3>3. ASSUME NEW p \in Ranks, NEW w, Dies(p, w)
              PROVE  p = s
            <4>1. OneMore(p, "down") /\ OneMore(s, "down")
                BY <1>1, <2>1, <3>3, NextMap DEF Dies
            <4> QED
                BY <3>1, <4>1 DEF OneMore
        <3> QED
            BY <3>2, <3>3
    <2>2. Fell(q) \/ \E why : Dies(q, why)
        BY <1>1, <1>4, FellChange
    <2>3. Fell(r) \/ \E why : Dies(r, why)
        BY <1>1, <1>4, FellChange
    <2>4. CASE \E why : Dies(q, why)
        BY <2>1, <2>3, <2>4
    <2>5. CASE \E why : Dies(r, why)
        BY <2>1, <2>2, <2>5
    <2>6. CASE Fell(q) /\ Fell(r)
        <3>1. OneDeath
            BY <1>1, <1>4, DeathsLast
        <3> QED
            BY <2>6, <3>1 DEF Victims
    <2> QED
        BY <2>2, <2>3, <2>4, <2>5, <2>6
<1>5. ASSUME Deaths' = {}
      PROVE  Now' = 1 /\ \A q \in Ranks : mdsmap'[1][q] = "active"
    <2>1. Now = 1 /\ \A q \in Ranks : mdsmap[1][q] = "active"
        BY <1>1, <1>5, DeathsLast DEF Victims
    <2>2. UNCHANGED mdsmap
        BY <1>1, <1>5, <2>1, MapSteps, DeathsLast DEF Up
    <2> QED
        BY <2>1, <2>2 DEF Now
<1> QED
    BY <1>2, <1>3, <1>4, <1>5 DEF Victims

-----------------------------------------------------------------------------
(* The messages that a step sends when nobody dies.                        *)
Refuses(q, t) ==
    LET m == Head(net[TableServer][q])
    IN  /\ Receives(TableServer, q, "AGREE") /\ t = m.tid /\ ~client[q].ready
        /\ m.reqid \notin client[q].preparing
        /\ t \notin Tids(client[q].prepared) \cup client[q].commits
New(x, y, m) ==
    \/ y = TableServer /\ m.op = "PREPARE" /\ m.reqid \in client'[x].preparing
    \/ /\ y = TableServer /\ m.op = "COMMIT"
       /\ Readied(x) \/ (Commits(x) /\ m.tid = Head(log[x]).tid)
    \/ y = TableServer /\ m.op = "ROLLBACK" /\ Refuses(x, m.tid)
    \/ /\ x = TableServer /\ m.op = "AGREE" /\ m.bl /\ TableLogged(TableServer)
       /\ Head(log[TableServer]).type = "PREPARE"
       /\ Offer(y, m) = Request(Head(log[TableServer]))
    \/ /\ x = TableServer /\ m.op = "ACK"
       /\ \/ /\ TableLogged(TableServer) /\ Head(log[TableServer]).type = "COMMIT"
             /\ m.tid = Head(log[TableServer]).tid
          \/ /\ Receives(y, TableServer, "COMMIT") /\ m.tid = Head(net[y][TableServer]).tid
             /\ m.tid \notin Tids(table.pending)
    \/ /\ x = TableServer /\ HandleMdsMap(TableServer) /\ Greets(y)
       /\ m \in Welcome(y, epoch[TableServer] + 1)
Shift(c, d, s) ==
    d \in {c, c \o s} \/ (c # <<>> /\ d \in {Tail(c), Tail(c) \o s})
Sends(x, y) ==
    \E s \in Seq(Message) :
        /\ Shift(net[x][y], net'[x][y], s)
        /\ \A m \in In(s) : New(x, y, m)
        /\ Len(s) <= 1 \/ ~client[x].ready

LEMMA NoMessages == <<>> \in Seq(Message) /\ Len(<<>>) = 0 /\ In(<<>>) = {}
<1>1. <<>> \in Seq(Message) /\ Len(<<>>) = 0
    BY EmptySeq
<1> QED
    BY <1>1 DEF In

LEMMA SendsNone ==
    ASSUME NEW x \in Ranks, NEW y \in Ranks,
           \/ net'[x][y] = net[x][y]
           \/ net[x][y] # <<>> /\ net'[x][y] = Tail(net[x][y])
    PROVE  Sends(x, y)
<1>1. PICK s \in Seq(Message) : Len(s) = 0 /\ In(s) = {}
    BY NoMessages
<1>2. Shift(net[x][y], net'[x][y], s)
    BY DEF Shift
<1>3. Len(s) <= 1
    BY <1>1
<1> QED
    BY <1>1, <1>2, <1>3 DEF Sends

LEMMA TakenParts ==
    ASSUME TypeOK, NEW a \in Ranks, NEW b \in Ranks, NEW x \in Ranks, NEW y \in Ranks
    PROVE  \/ Taken(a, b)[x][y] = net[x][y]
           \/ x = a /\ y = b /\ Taken(a, b)[x][y] = Tail(net[x][y])
    BY DEF Taken, TypeOK, Channels

LEMMA SendsTaken ==
    ASSUME TypeOK, NEW a \in Ranks, NEW b \in Ranks, net[a][b] # <<>>, net' = Taken(a, b),
           NEW x \in Ranks, NEW y \in Ranks
    PROVE  Sends(x, y)
    BY TakenParts, SendsNone

LEMMA SendsMessages ==
    ASSUME TypeOK, NEW a \in Ranks, NEW b \in Ranks, NEW r \in Ranks, NEW e, NEW q \in Ranks,
           NEW s \in Seq(Message), \A m \in In(s) : New(r, q, m),
           Len(s) <= 1 \/ ~client[r].ready,
           \/ net' = Send(net, r, e, q, s)
           \/ net[a][b] # <<>> /\ net' = Send(Taken(a, b), r, e, q, s),
           NEW x \in Ranks, NEW y \in Ranks
    PROVE  Sends(x, y)
<1>1. net \in Channels
    BY DEF TypeOK
<1>2. PICK n : n \in {net} \cup {Taken(a, b)} /\ (n = net \/ net[a][b] # <<>>)
               /\ net' = Send(n, r, e, q, s)
    OBVIOUS
<1>3. n \in Channels
    BY <1>1, <1>2, TakenGrows
<1>4. n[x][y] = net[x][y] \/ (net[x][y] # <<>> /\ n[x][y] = Tail(net[x][y]))
    BY <1>2, TakenParts
<1>8. \/ Send(n, r, e, q, s)[x][y] = n[x][y]
      \/ x = r /\ y = q /\ Send(n, r, e, q, s)[x][y] = n[x][y] \o s
    BY <1>3 DEF Send, Channels
<1>9. net'[x][y] = Send(n, r, e, q, s)[x][y]
    BY <1>2
<1>5. net'[x][y] = n[x][y] \/ (x = r /\ y = q /\ net'[x][y] = n[x][y] \o s)
    BY <1>8, <1>9
<1>6. CASE net'[x][y] = n[x][y]
    BY <1>4, <1>6, SendsNone
<1>7. CASE x = r /\ y = q /\ net'[x][y] = n[x][y] \o s
    <2>1. Shift(net[x][y], net'[x][y], s)
        BY <1>4, <1>7 DEF Shift
    <2> QED
        BY <1>7, <2>1 DEF Sends
<1> QED
    BY <1>5, <1>6, <1>7

LEMMA SendsOne ==
    ASSUME TypeOK, NEW a \in Ranks, NEW b \in Ranks, NEW r \in Ranks, NEW e, NEW q \in Ranks,
           NEW m \in Message, New(r, q, m),
           \/ net' = Send(net, r, e, q, <<m>>)
           \/ net[a][b] # <<>> /\ net' = Send(Taken(a, b), r, e, q, <<m>>),
           NEW x \in Ranks, NEW y \in Ranks
    PROVE  Sends(x, y)
<1>1. <<m>> \in Seq(Message) /\ In(<<m>>) = {m} /\ Len(<<m>>) = 1
    BY InOne, OneMessage
<1>2. PICK s : s = <<m>>
    OBVIOUS
<1>3. s \in Seq(Message) /\ (\A k \in In(s) : New(r, q, k)) /\ Len(s) <= 1
    BY <1>1, <1>2
<1>4. \/ net' = Send(net, r, e, q, s)
      \/ net[a][b] # <<>> /\ net' = Send(Taken(a, b), r, e, q, s)
    BY <1>2
<1> HIDE <1>2
<1> QED
    BY <1>3, <1>4, SendsMessages

LEMMA ServerSends ==
    ASSUME TypeOK, NEW r \in Ranks, NEW x \in Ranks, NEW y \in Ranks,
           HandlePrepare(r) \/ HandleCommit(r) \/ HandleRollback(r)
    PROVE  Sends(x, y) \/ \E why : Dies(TableServer, why)
<1> USE TableAssumption
<1> DEFINE e == epoch[TableServer]
           m == Msg("ACK", 0, Head(net[r][TableServer]).tid, FALSE, e)
<1>1. net[r][TableServer] # <<>> /\ Arrives(r, TableServer)
    BY DEF HandlePrepare, HandleCommit, HandleRollback, Receives, Arrives
<1>2. CASE net' = Taken(r, TableServer)
    BY <1>1, <1>2, SendsTaken
<1>3. CASE /\ Receives(r, TableServer, "COMMIT")
           /\ Head(net[r][TableServer]).tid \notin Tids(table.pending)
           /\ net' = Send(Taken(r, TableServer), TableServer, e, r, <<m>>)
    <2>1. Head(net[r][TableServer]).tid \in Nat /\ e \in Nat
        BY <1>1, ArrivesType, EpochType DEF Message
    <2>2. m \in Message /\ m.op = "ACK" /\ m.tid = Head(net[r][TableServer]).tid
        BY <2>1 DEF Msg, Message
    <2> HIDE DEF m, e
    <2>3. New(TableServer, r, m)
        BY <1>3, <2>2 DEF New
    <2> QED
        BY <1>1, <1>3, <2>2, <2>3, SendsOne
<1> QED
    BY <1>2, <1>3 DEF HandlePrepare, HandleCommit, HandleRollback

LEMMA PrepareSends ==
    ASSUME TypeOK, NEW r \in Ranks, NEW x \in Ranks, NEW y \in Ranks, Prepare(r)
    PROVE  Sends(x, y)
<1> USE TableAssumption
<1> DEFINE m == Msg("PREPARE", client[r].last + 1, 0, FALSE, epoch[r])
<1>1. CASE net' = net
    BY <1>1, SendsNone
<1>2. CASE /\ client[r].last # -1 /\ net' = Send(net, r, epoch[r], TableServer, <<m>>)
           /\ client' = [client EXCEPT ![r].last = client[r].last + 1,
                                       ![r].preparing = @ \cup {client[r].last + 1}]
    <2>1. client[r] \in Client /\ client \in [Ranks -> Client] /\ epoch[r] \in Nat
        BY EpochType DEF TypeOK
    <2>2. client[r].last + 1 \in Nat
        BY <1>2, <2>1 DEF Client
    <2>3. client[r].last + 1 \in client'[r].preparing
        BY <1>2, <2>1 DEF Client
    <2>4. m \in Message /\ m.op = "PREPARE" /\ m.reqid = client[r].last + 1
        BY <2>1, <2>2 DEF Msg, Message
    <2> HIDE DEF m
    <2>5. New(r, TableServer, m)
        BY <2>3, <2>4 DEF New
    <2> QED
        BY <1>2, <2>4, <2>5, SendsOne
<1> QED
    BY <1>1, <1>2 DEF Prepare

LEMMA AgreeSends ==
    ASSUME TypeOK, NEW r \in Ranks, NEW x \in Ranks, NEW y \in Ranks, HandleAgree(r)
    PROVE  Sends(x, y) \/ \E why : Dies(r, why)
<1> USE TableAssumption
<1> DEFINE h == Head(net[TableServer][r])
           m == Msg("ROLLBACK", 0, h.tid, FALSE, epoch[r])
<1>1. net[TableServer][r] # <<>> /\ Arrives(TableServer, r)
    BY DEF HandleAgree, Receives, Arrives
<1>2. CASE net' = Taken(TableServer, r)
    BY <1>1, <1>2, SendsTaken
<1>3. CASE /\ Refuses(r, h.tid)
           /\ net' = Send(Taken(TableServer, r), r, epoch[r], TableServer, <<m>>)
    <2>1. h.tid \in Nat /\ epoch[r] \in Nat
        BY <1>1, ArrivesType, EpochType DEF Message
    <2>2. m \in Message /\ m.op = "ROLLBACK" /\ m.tid = h.tid
        BY <2>1 DEF Msg, Message
    <2> HIDE DEF m
    <2>3. New(r, TableServer, m)
        BY <1>3, <2>2 DEF New
    <2> QED
        BY <1>1, <1>3, <2>2, <2>3, SendsOne
<1> QED
    BY <1>2, <1>3 DEF HandleAgree, Refuses

LEMMA ReadySends ==
    ASSUME TypeOK, [Next]_vars, NEW r \in Ranks, NEW x \in Ranks, NEW y \in Ranks,
           HandleServerReady(r)
    PROVE  Sends(x, y) \/ \E why : Dies(r, why)
<1> USE TableAssumption
<1> DEFINE m == Head(net[TableServer][r])
           c == client[r]
           base == IF c.last = -1 THEN m.reqid ELSE c.last
           ids == c.preparing \cup (base + 1)..(base + c.waiting)
<1>1. Arrives(TableServer, r) /\ net[TableServer][r] # <<>>
    BY DEF HandleServerReady, Receives, Arrives
<1>2. m.reqid \in Nat
    BY <1>1, ArrivesType DEF Message
<1>3. base \in Nat /\ c.waiting \in Nat /\ c.preparing \subseteq Nat
      /\ IsFiniteSet(c.preparing) /\ c \in Client /\ client \in [Ranks -> Client]
      /\ c.commits \subseteq Nat /\ IsFiniteSet(c.commits)
    BY <1>2 DEF TypeOK, Client
<1>4. ids \subseteq Nat /\ IsFiniteSet(ids)
    <2>1. (base + 1)..(base + c.waiting) \subseteq Nat /\ base + 1 \in Int
          /\ base + c.waiting \in Int
        BY <1>3
    <2>2. IsFiniteSet((base + 1)..(base + c.waiting))
        BY <2>1, FS_Interval
    <2> QED
        BY <1>3, <2>1, <2>2, FS_Union
<1>5. \/ \E why : Dies(r, why)
      \/ /\ ~c.ready
         /\ client' = [client EXCEPT ![r].ready = TRUE, ![r].last = base + c.waiting,
                            ![r].waiting = 0, ![r].preparing = ids]
         /\ UNCHANGED log
         /\ \E ps \in InOrder({Msg("PREPARE", i, 0, FALSE, epoch[r]) : i \in ids}),
               cs \in InOrder({Msg("COMMIT", 0, t, FALSE, epoch[r]) : t \in c.commits}) :
                net' = Send(Taken(TableServer, r), r, epoch[r], TableServer, ps \o cs)
    BY DEF HandleServerReady
<1> SUFFICES ASSUME ~\E why : Dies(r, why) PROVE Sends(x, y)
    OBVIOUS
<1>20. PICK z : z = ids
    OBVIOUS
<1>21. client'[r] = [c EXCEPT !.ready = TRUE, !.last = base + c.waiting, !.waiting = 0,
                              !.preparing = z]
    BY <1>3, <1>5, <1>20
<1>6. client'[r].preparing = ids
    <2>1. client'[r].preparing = z
        BY <1>3, <1>21 DEF Client
    <2> QED
        BY <1>20, <2>1
<1>7. client'[r] = [c EXCEPT !.ready = TRUE, !.last = base + c.waiting, !.waiting = 0,
                             !.preparing = ids]
    BY <1>3, <1>5
<1>8. Readied(r)
    BY <1>5, <1>7 DEF Readied
<1> HIDE DEF ids
<1> DEFINE P == {Msg("PREPARE", i, 0, FALSE, epoch[r]) : i \in ids}
           C == {Msg("COMMIT", 0, t, FALSE, epoch[r]) : t \in c.commits}
           M == {k \in Message : New(r, TableServer, k)}
<1>9. PICK ps \in InOrder(P), cs \in InOrder(C) :
            net' = Send(Taken(TableServer, r), r, epoch[r], TableServer, ps \o cs)
    BY <1>5
<1>10. IsFiniteSet(P) /\ IsFiniteSet(C)
    BY <1>3, <1>4, FinitePrepares, FiniteCommits
<1>11. epoch[r] \in Nat
    BY EpochType
<1>12. P \subseteq M
    <2> SUFFICES ASSUME NEW i \in ids PROVE Msg("PREPARE", i, 0, FALSE, epoch[r]) \in M
        OBVIOUS
    <2> DEFINE k == Msg("PREPARE", i, 0, FALSE, epoch[r])
    <2>1. k \in Message /\ k.op = "PREPARE" /\ k.reqid = i
        BY <1>4, <1>11 DEF Msg, Message
    <2> HIDE DEF k
    <2>2. New(r, TableServer, k)
        BY <1>6, <2>1 DEF New
    <2> QED
        BY <2>1, <2>2 DEF k
<1>13. C \subseteq M
    <2> SUFFICES ASSUME NEW t \in c.commits PROVE Msg("COMMIT", 0, t, FALSE, epoch[r]) \in M
        OBVIOUS
    <2> DEFINE k == Msg("COMMIT", 0, t, FALSE, epoch[r])
    <2>1. k \in Message /\ k.op = "COMMIT"
        BY <1>3, <1>11 DEF Msg, Message
    <2> HIDE DEF k
    <2>2. New(r, TableServer, k)
        BY <1>8, <2>1 DEF New
    <2> QED
        BY <2>1, <2>2 DEF k
<1> HIDE DEF P, C, M
<1>14. ps \in Seq(M) /\ cs \in Seq(M)
    BY <1>10, <1>12, <1>13, InOrderType
<1>15. PICK s : s = ps \o cs
    OBVIOUS
<1>16. s \in Seq(M)
    BY <1>14, <1>15, ConcatProperties
<1>17. s \in Seq(Message) /\ \A k \in In(s) : New(r, TableServer, k)
    BY <1>16, SeqMono, InType DEF M
<1>18. net' = Send(Taken(TableServer, r), r, epoch[r], TableServer, s)
    BY <1>9, <1>15
<1>19. ~client[r].ready
    BY <1>5
<1> HIDE <1>15, <1>9 DEF c, base, m
<1> QED
    BY <1>1, <1>17, <1>18, <1>19, SendsMessages

LEMMA LoggedSends ==
    ASSUME TypeOK, Continues, Epochs, NEW r \in Ranks, NEW x \in Ranks, NEW y \in Ranks,
           TableLogged(r)
    PROVE  Sends(x, y)
<1> DEFINE h == Head(log[r])
           e == epoch[r]
           a == Msg("AGREE", h.reqid, h.tid, TRUE, e)
           k == Msg("ACK", 0, h.tid, FALSE, e)
<1>1. CASE h.type \notin {"PREPARE", "COMMIT"}
    <2>1. net' = net
        BY <1>1 DEF TableLogged
    <2> QED
        BY <2>1, SendsNone
<1>2. CASE h.type \in {"PREPARE", "COMMIT"}
    <2>1. r = TableServer /\ h \in Entry
        BY <1>2, LoggedByServer DEF TableLogged, ClientEntry
    <2>2. h.reqid \in Nat /\ h.tid \in Nat /\ h.mds \in Ranks /\ e \in Nat
        BY <2>1, EpochType DEF Entry
    <2>3. CASE h.type = "PREPARE"
        <3>1. a \in Message /\ a.op = "AGREE" /\ a.bl /\ Offer(h.mds, a) = Request(h)
            BY <2>2 DEF Msg, Message, Offer, Request
        <3>2. net' = Send(net, r, e, h.mds, <<a>>)
            BY <2>3 DEF TableLogged
        <3> HIDE DEF a, e
        <3>3. New(r, h.mds, a)
            BY <2>1, <2>3, <3>1 DEF New
        <3> QED
            BY <2>2, <3>1, <3>2, <3>3, SendsOne
    <2>4. CASE h.type = "COMMIT"
        <3>1. k \in Message /\ k.op = "ACK" /\ k.tid = h.tid
            BY <2>2 DEF Msg, Message
        <3>2. net' = Send(net, r, e, h.mds, <<k>>)
            BY <2>4 DEF TableLogged
        <3> HIDE DEF k, e
        <3>3. New(r, h.mds, k)
            BY <2>1, <2>4, <3>1 DEF New
        <3> QED
            BY <2>2, <3>1, <3>2, <3>3, SendsOne
    <2> QED
        BY <1>2, <2>3, <2>4
<1> QED
    BY <1>1, <1>2

LEMMA CommitSends ==
    ASSUME TypeOK, [Next]_vars, NEW r \in Ranks, NEW x \in Ranks, NEW y \in Ranks, Commit(r)
    PROVE  Sends(x, y) \/ \E why : Dies(r, why)
<1> USE TableAssumption
<1> DEFINE h == Head(log[r])
           m == Msg("COMMIT", 0, h.tid, FALSE, epoch[r])
<1> SUFFICES ASSUME ~\E why : Dies(r, why) PROVE Sends(x, y)
    OBVIOUS
<1>1. h \in Entry
    BY HeadTailProperties DEF Commit, TypeOK
<1>2. h.tid \in Nat /\ epoch[r] \in Nat
    BY <1>1, EpochType DEF Entry
<1>3. CASE net' = net
    BY <1>3, SendsNone
<1>4. CASE net' = Send(net, r, epoch[r], TableServer, <<m>>)
    <2>1. m \in Message /\ m.op = "COMMIT" /\ m.tid = h.tid
        BY <1>2 DEF Msg, Message
    <2>2. Commits(r)
        <3>1. client[r] \in Client /\ client \in [Ranks -> Client]
            BY DEF TypeOK
        <3>2. /\ h.tid \in Tids(client[r].prepared) /\ log[r] # <<>> /\ h.type = "EUpdate"
              /\ Journalled(r, h)
              /\ client' = [client EXCEPT ![r].prepared = {p \in @ : p.tid # h.tid},
                                          ![r].commits = @ \cup {h.tid}]
            BY DEF Commit
        <3>3. client'[r] = [client[r] EXCEPT !.prepared = {p \in @ : p.tid # h.tid},
                                             !.commits = @ \cup {h.tid}]
            BY <3>1, <3>2
        <3> HIDE DEF m
        <3>4. /\ client'[r].ready = client[r].ready /\ client'[r].last = client[r].last
              /\ client'[r].preparing = client[r].preparing
              /\ client'[r].prepared = {p \in client[r].prepared : p.tid # h.tid}
              /\ client'[r].retry = client[r].retry
              /\ client'[r].commits = client[r].commits \cup {h.tid}
            BY <3>1, <3>3 DEF Client
        <3> QED
            BY <3>2, <3>4 DEF Commits
    <2> HIDE DEF m
    <2>3. New(r, TableServer, m)
        BY <2>1, <2>2 DEF New
    <2> QED
        BY <1>4, <2>1, <2>3, SendsOne
<1> QED
    BY <1>3, <1>4 DEF Commit

LEMMA AllSends ==
    ASSUME Sound, Lives, NEW x \in Ranks, NEW y \in Ranks
    PROVE  Sends(x, y) \/ \E r \in Ranks : HandleMdsMap(r)
<1>1. TypeOK /\ Continues /\ Epochs /\ [Next]_vars /\ ~\E r \in Ranks : \E why : Dies(r, why)
    BY DEF Sound, Lives
<1>2. ASSUME UNCHANGED net PROVE Sends(x, y)
    BY <1>2, SendsNone
<1>3. CASE \E a, b \in Ranks : DropStale(a, b)
    BY <1>1, <1>3, SendsTaken DEF DropStale, Arrives
<1>4. ASSUME NEW r \in Ranks, HandleAck(r) PROVE Sends(x, y)
    BY <1>1, <1>4, SendsTaken, TableAssumption DEF HandleAck, Receives, Arrives
<1>5. ASSUME NEW r \in Ranks, HandlePrepare(r) \/ HandleCommit(r) \/ HandleRollback(r)
      PROVE  Sends(x, y)
    BY <1>1, <1>5, ServerSends, TableAssumption
<1>6. ASSUME NEW r \in Ranks, Mksnap(r) \/ Expire(r) \/ Takeover(r) \/ MonActive(r)
      PROVE  UNCHANGED net
    BY <1>1, <1>6 DEF Mksnap, Expire, Takeover, MonActive
<1>7. CASE ServerUpdate \/ Save \/ UNCHANGED vars
    BY <1>2, <1>7 DEF ServerUpdate, Save, vars
<1>8. ASSUME NEW r \in Ranks, Fail(r) PROVE FALSE
    BY <1>1, <1>8 DEF Fail
<1>9. ASSUME NEW r \in Ranks,
             Prepare(r) \/ HandleAgree(r) \/ HandleServerReady(r) \/ TableLogged(r) \/ Commit(r)
      PROVE  Sends(x, y)
    BY <1>1, <1>9, PrepareSends, AgreeSends, ReadySends, LoggedSends, CommitSends
<1> QED
    BY <1>1, <1>2, <1>3, <1>4, <1>5, <1>6, <1>7, <1>8, <1>9 DEF Next, Progress

(* A message that is under way was so before, or is new.                   *)
LEMMA NetMembers ==
    ASSUME Sound, Lives, NEW x \in Ranks, NEW y \in Ranks, NEW m \in In(net'[x][y])
    PROVE  m \in In(net[x][y]) \/ New(x, y, m)
<1> DEFINE c == net[x][y]
           d == net'[x][y]
<1>1. TypeOK /\ c \in Seq(Message)
    BY DEF Sound, TypeOK, Channels
<1>2. CASE Sends(x, y)
    <2>1. PICK s \in Seq(Message) : Shift(c, d, s) /\ \A k \in In(s) : New(x, y, k)
        BY <1>2 DEF Sends
    <2>2. ASSUME NEW b \in Seq(Message)
          PROVE  In(b \o s) \subseteq In(b) \cup In(s)
        <3>1. Grows(b, b \o s, 0, In(s)) /\ Len(b) \in Nat
            BY GrowsConcat, LenProperties
        <3> QED
            BY <3>1 DEF Grows, In
    <2>3. c # <<>> => Tail(c) \in Seq(Message) /\ In(Tail(c)) \subseteq In(c)
        BY <1>1, HeadTailProperties, InTail
    <2>4. In(c \o s) \subseteq In(c) \cup In(s)
        BY <1>1, <2>2
    <2>5. c # <<>> => In(Tail(c) \o s) \subseteq In(c) \cup In(s)
        BY <2>2, <2>3
    <2> HIDE DEF c, d
    <2>6. In(d) \subseteq In(c) \cup In(s)
        BY <2>1, <2>3, <2>4, <2>5 DEF Shift
    <2> QED
        BY <2>1, <2>6 DEF c, d
<1>3. ASSUME NEW r \in Ranks, HandleMdsMap(r)
      PROVE  m \in In(net[x][y]) \/ New(x, y, m)
    <2>1. d = c \/ (x = TableServer /\ r = TableServer /\ Welcomed(y))
        BY <1>1, <1>3, MapFlow
    <2>2. ASSUME x = TableServer, r = TableServer, Welcomed(y)
          PROVE  m \in In(net[x][y]) \/ New(x, y, m)
        <3>1. Greets(y) /\ Grows(c, d, 0, Welcome(y, epoch[TableServer] + 1))
            BY <2>2 DEF Welcomed
        <3>2. PICK i \in 1..Len(d) : m = d[i]
            BY DEF In
        <3>3. \/ i + 0 <= Len(c) /\ d[i] = c[i + 0]
              \/ d[i] \in Welcome(y, epoch[TableServer] + 1)
            BY <3>1, <3>2 DEF Grows
        <3>4. Len(c) \in Nat /\ i \in Nat /\ i >= 1
            BY <1>1, <3>2, LenProperties
        <3> HIDE DEF c, d
        <3>5. m \in In(c) \/ m \in Welcome(y, epoch[TableServer] + 1)
            BY <3>2, <3>3, <3>4 DEF In
        <3> QED
            BY <1>3, <2>2, <3>1, <3>5 DEF New, c
    <2> QED
        BY <2>1, <2>2
<1> QED
    BY <1>2, <1>3, AllSends

-----------------------------------------------------------------------------
(* What a step in which nobody dies does to the reqids.                    *)
LEMMA LivesIs ==
    ASSUME Sound, Lives
    PROVE  /\ TypeOK /\ Causal /\ Continues /\ Epochs /\ Unique /\ AnswersOnce
           /\ [Next]_vars /\ (\A r \in Ranks : \A why : ~Dies(r, why))
           /\ \A q \in Ranks : ~Restarts(q)
    BY DEF Sound, Lives, Restarts

(* The reqids go up, and those that a client waits for are new or old ones *)
(* it has waited for.                                                      *)
Ascends(q) ==
    LET c == client[q]
        d == client'[q]
        h == Head(net[TableServer][q])
    IN  /\ c.last # -1 => d.last # -1 /\ c.last <= d.last
        /\ c.last = -1 => d.last = -1 \/ (Readied(q) /\ h.reqid <= d.last)
        /\ \A i \in d.preparing : \/ i \in c.preparing
                                  \/ c.last # -1 /\ i > c.last
                                  \/ c.last = -1 /\ Readied(q) /\ i > h.reqid
        /\ ReqidsOf(c) => ReqidsOf(d)

LEMMA AscendsSame ==
    ASSUME TypeOK, NEW q \in Ranks, client'[q].last = client[q].last,
           client'[q].preparing \subseteq client[q].preparing,
           client'[q].prepared \subseteq client[q].prepared
    PROVE  Ascends(q)
<1>1. client[q].last \in Nat \cup {-1}
    BY DEF TypeOK, Client
<1>2. client[q].last <= client[q].last
    BY <1>1
<1>3. ReqidsOf(client[q]) => ReqidsOf(client'[q])
    BY DEF ReqidsOf
<1> QED
    BY <1>2, <1>3 DEF Ascends

LEMMA AllAscend ==
    ASSUME Sound, Lives, NEW q \in Ranks
    PROVE  Ascends(q)
<1> DEFINE c == client[q]
           d == client'[q]
           h == Head(net[TableServer][q])
<1>1. TypeOK /\ Epochs /\ [Next]_vars /\ ~Restarts(q)
    BY LivesIs
<1>2. c \in Client /\ c.last \in Nat \cup {-1} /\ c.waiting \in Nat /\ c.preparing \subseteq Nat
      /\ c.prepared \subseteq [tid : Nat, reqid : Nat]
    BY <1>1 DEF TypeOK, Client
<1>3. CASE d = c
    BY <1>1, <1>3, AscendsSame
<1>4. CASE AckTaken(q) \/ Journals(q) \/ Loses(q)
    <2>1. d.last = c.last /\ d.preparing = c.preparing /\ d.prepared = c.prepared
        BY <1>2, <1>4 DEF AckTaken, Journals, Loses, Client
    <2> QED
        BY <1>1, <2>1, AscendsSame
<1>5. CASE Commits(q)
    <2>1. d.last = c.last /\ d.preparing = c.preparing /\ d.prepared \subseteq c.prepared
        BY <1>5 DEF Commits
    <2> QED
        BY <1>1, <2>1, AscendsSame
<1>6. CASE Accepts(q)
    <2> DEFINE n == [tid |-> h.tid, reqid |-> h.reqid]
    <2>1. /\ d.last = c.last /\ d.preparing = c.preparing \ {h.reqid}
          /\ d.prepared = {p \in c.prepared : p.tid # h.tid} \cup {n}
          /\ h.reqid \in c.preparing
        BY <1>6 DEF Accepts
    <2>2. n.reqid = h.reqid
        OBVIOUS
    <2> HIDE DEF n, h
    <2>3. ASSUME ReqidsOf(c) PROVE ReqidsOf(d)
        BY <2>1, <2>2, <2>3 DEF ReqidsOf
    <2>4. c.last <= c.last
        BY <1>2
    <2>5. d.preparing \subseteq c.preparing
        BY <2>1
    <2> QED
        BY <2>1, <2>3, <2>4, <2>5 DEF Ascends
<1>7. CASE Asks(q)
    <2>1. CASE c.last = -1
        <3>1. d = [c EXCEPT !.waiting = @ + 1]
            BY <1>7, <2>1 DEF Asks
        <3>2. d.last = c.last /\ d.preparing = c.preparing /\ d.prepared = c.prepared
            BY <1>2, <3>1 DEF Client
        <3> QED
            BY <1>1, <3>2, AscendsSame
    <2>2. CASE c.last # -1
        <3>1. d = [c EXCEPT !.last = c.last + 1, !.preparing = @ \cup {c.last + 1}]
            BY <1>7, <2>2 DEF Asks
        <3>2. /\ d.last = c.last + 1 /\ d.preparing = c.preparing \cup {c.last + 1}
              /\ d.prepared = c.prepared
            BY <1>2, <3>1 DEF Client
        <3>3. c.last \in Nat /\ \A p \in c.prepared : p.reqid \in Nat
            BY <1>2, <2>2
        <3> HIDE DEF c, d
        <3>4. /\ d.last # -1 /\ c.last <= d.last
              /\ \A i \in d.preparing : i \in c.preparing \/ i > c.last
            BY <3>2, <3>3
        <3>5. ASSUME ReqidsOf(c) PROVE ReqidsOf(d)
            BY <1>2, <3>2, <3>3, <3>5 DEF ReqidsOf
        <3> QED
            BY <2>2, <3>4, <3>5 DEF Ascends, c, d
    <2> QED
        BY <2>1, <2>2
<1>8. CASE Readied(q)
    <2> DEFINE base == IF c.last = -1 THEN h.reqid ELSE c.last
               ids == c.preparing \cup (base + 1)..(base + c.waiting)
    <2>1. d = [c EXCEPT !.ready = TRUE, !.last = base + c.waiting, !.waiting = 0,
                        !.preparing = ids]
        BY <1>8 DEF Readied
    <2>2. h.reqid \in Nat
        <3>1. Arrives(TableServer, q)
            BY <1>8 DEF Readied, HandleServerReady, Receives
        <3> QED
            BY <1>1, <3>1, ArrivesType, TableAssumption DEF Message
    <2>3. PICK z : z = ids
        OBVIOUS
    <2>4. base \in Nat
        BY <1>2, <2>2
    <2>5. PICK b : b = base + c.waiting
        OBVIOUS
    <2>7. d = [c EXCEPT !.ready = TRUE, !.last = b, !.waiting = 0, !.preparing = z]
        BY <2>1, <2>3, <2>5
    <2>8. d.last = b /\ d.preparing = z /\ d.prepared = c.prepared
        BY <1>2, <2>7 DEF Client
    <2>9. \A i \in z : i \in c.preparing \/ (i > base /\ i <= b /\ i \in Nat)
        BY <2>3, <2>4, <2>5
    <2>10. c.last = -1 => c.preparing = {} /\ c.prepared = {}
        BY <1>1 DEF Epochs, Unasked
    <2>11. b \in Nat /\ base <= b
        BY <1>2, <2>4, <2>5
    <2>12. \A p \in c.prepared : p.reqid \in Nat
        BY <1>2
    <2>13. base = IF c.last = -1 THEN h.reqid ELSE c.last
        OBVIOUS
    <2> HIDE DEF c, d, base, h
    <2>14. ASSUME ReqidsOf(c) PROVE ReqidsOf(d)
        <3>1. CASE c.last = -1
            BY <1>2, <2>8, <2>9, <2>10, <3>1 DEF ReqidsOf
        <3>2. CASE c.last # -1
            <4>1. base = c.last
                BY <2>13, <3>2
            <4>2. \A p \in c.prepared : p.reqid <= base /\ p.reqid \notin c.preparing
                BY <2>14, <4>1 DEF ReqidsOf
            <4>3. \A i \in c.preparing : i <= base
                BY <2>14, <4>1 DEF ReqidsOf
            <4>4. \A p \in d.prepared : p.reqid <= d.last /\ p.reqid \notin d.preparing
                BY <1>2, <2>4, <2>8, <2>9, <2>11, <2>12, <4>2
            <4>5. \A i \in d.preparing : i <= d.last
                BY <1>2, <2>4, <2>8, <2>9, <2>11, <4>3
            <4> QED
                BY <4>4, <4>5 DEF ReqidsOf
        <3> QED
            BY <3>1, <3>2
    <2>15. /\ c.last # -1 => d.last # -1 /\ c.last <= d.last
           /\ c.last = -1 => h.reqid <= d.last
        BY <2>8, <2>11, <2>13
    <2>16. \A i \in d.preparing : \/ i \in c.preparing
                                  \/ c.last # -1 /\ i > c.last
                                  \/ c.last = -1 /\ i > h.reqid
        BY <2>8, <2>9, <2>13
    <2> QED
        BY <1>8, <2>14, <2>15, <2>16 DEF Ascends, c, d, h
<1> QED
    BY <1>1, <1>3, <1>4, <1>5, <1>6, <1>7, <1>8, ClientChange

(* Nobody is to be greeted again.                                          *)
LEMMA UngreetedKept ==
    ASSUME Sound, Lives, NEW q \in Ranks, Ungreeted(q)'
    PROVE  Ungreeted(q)
<1>1. TypeOK /\ [Next]_vars /\ \A r \in Ranks : \A why : ~Dies(r, why)
    BY LivesIs
<1>2. Now \in Nat /\ epoch[TableServer] \in 1..Now /\ epoch \in [Ranks -> 1..Now]
    BY <1>1, EpochType, TableAssumption DEF TypeOK
<1>3. epoch'[TableServer] \in Nat /\ epoch[TableServer] <= epoch'[TableServer]
    <2>1. CASE UNCHANGED cluster
        BY <1>2, <2>1 DEF cluster
    <2>2. ASSUME NEW r \in Ranks, Takeover(r) \/ MonActive(r) \/ HandleMdsMap(r)
          PROVE  epoch'[TableServer] \in {epoch[TableServer], epoch[TableServer] + 1, Now + 1}
        BY <1>2, <2>2, TableAssumption DEF Takeover, MonActive, HandleMdsMap
    <2> QED
        BY <1>1, <1>2, <2>1, <2>2, ClusterSteps
<1>4. PICK k \in (epoch[TableServer]..Now)' : mdsmap'[k][q] # "active"
    BY DEF Ungreeted
<1>5. CASE UNCHANGED mdsmap
    <2>1. Now' = Now
        BY <1>5 DEF Now
    <2>2. k \in epoch[TableServer]..Now
        BY <1>2, <1>3, <1>4, <2>1
    <2> QED
        BY <1>4, <1>5, <2>2 DEF Ungreeted
<1>6. ASSUME NEW r \in Ranks, NEW st \in {"up", "active"}, OneMore(r, st), st = "up" => ~Up(r)
      PROVE  Ungreeted(q)
    <2>1. /\ Now' = Now + 1 /\ \A i \in 1..Now : mdsmap'[i] = mdsmap[i]
          /\ mdsmap'[Now + 1][r] = st
          /\ q # r => mdsmap'[Now + 1][q] = mdsmap[Now][q]
        BY <1>6 DEF OneMore
    <2>2. CASE k \in 1..Now
        <3>1. k \in epoch[TableServer]..Now
            BY <1>2, <1>3, <1>4, <2>2
        <3> QED
            BY <1>4, <2>1, <2>2, <3>1 DEF Ungreeted
    <2>3. CASE k = Now + 1
        <3>1. Now \in epoch[TableServer]..Now
            BY <1>2
        <3>2. mdsmap[Now][q] # "active"
            BY <1>4, <1>6, <2>1, <2>3 DEF Up
        <3> QED
            BY <3>1, <3>2 DEF Ungreeted
    <2> QED
        BY <1>2, <1>3, <1>4, <2>1, <2>2, <2>3
<1> QED
    BY <1>1, <1>5, <1>6, MapSteps

(* A preparation that was made before the reqids a client may use stays    *)
(* so: what it waits for is never a reqid of it.                           *)
LEMMA BeforeKept ==
    ASSUME Sound, Lives, NEW p \in Pending, Before(p),
           HandleMdsMap(TableServer) /\ Greets(p.mds) /\ client[p.mds].last = -1
                => p \in table.pending
    PROVE  Before(p)' /\ (Wanted(p)' => Wanted(p))
<1>1. PICK q : q = p.mds
    OBVIOUS
<1>2. q \in Ranks /\ p.reqid \in Nat
    BY <1>1 DEF Pending
<1>3. TypeOK /\ Epochs /\ [Next]_vars
    BY LivesIs
<1> DEFINE h == Head(net[TableServer][q])
<1>4. Ascends(q)
    BY <1>2, AllAscend
<1>5. client[q].last \in Nat \cup {-1} /\ client[q].preparing \subseteq Nat
    BY <1>2, <1>3 DEF TypeOK, Client
<1>6. Readied(q) /\ client[q].last = -1 => p.reqid <= h.reqid /\ h.reqid \in Nat
    <2> SUFFICES ASSUME Readied(q), client[q].last = -1
                 PROVE  p.reqid <= h.reqid /\ h.reqid \in Nat
        OBVIOUS
    <2>1. /\ h = net[TableServer][q][1] /\ 1 \in 1..Len(net[TableServer][q])
          /\ h.op = "SERVER_READY"
        BY <1>2, <1>3, ReadiedBy
    <2>2. h \in In(net[TableServer][q])
        BY <2>1 DEF In
    <2>3. h \in Message
        <3>1. net[TableServer][q] \in Seq(Message)
            BY <1>2, <1>3, TableAssumption DEF TypeOK, Channels
        <3> QED
            BY <2>2, <3>1, InType
    <2> QED
        BY <1>1, <2>1, <2>2, <2>3 DEF Before, Message
<1> HIDE DEF h
<1>7. client'[q].last # -1 => p.reqid <= client'[q].last
    <2> SUFFICES ASSUME client'[q].last # -1 PROVE p.reqid <= client'[q].last
        OBVIOUS
    <2>1. CASE client[q].last # -1
        <3>1. p.reqid <= client[q].last /\ client[q].last <= client'[q].last
            BY <1>1, <1>4, <2>1 DEF Before, Ascends
        <3>2. client'[q].last \in Nat
            <4>1. TypeOK'
                BY <1>3, NextType
            <4> QED
                BY <1>2, <4>1 DEF TypeOK, Client
        <3> QED
            BY <1>2, <1>5, <2>1, <3>1, <3>2
    <2>2. CASE client[q].last = -1
        <3>1. Readied(q) /\ h.reqid <= client'[q].last
            BY <1>4, <2>2 DEF Ascends, h
        <3>2. p.reqid <= h.reqid /\ h.reqid \in Nat
            BY <1>6, <2>2, <3>1
        <3>3. client'[q].last \in Nat
            <4>1. TypeOK'
                BY <1>3, NextType
            <4> QED
                BY <1>2, <4>1 DEF TypeOK, Client
        <3> QED
            BY <1>2, <3>1, <3>2, <3>3
    <2> QED
        BY <2>1, <2>2
<1>8. ASSUME client'[q].last = -1, NEW m \in In(net'[TableServer][q]), m.op = "SERVER_READY"
      PROVE  p.reqid <= m.reqid
    <2>1. client[q].last = -1
        BY <1>4, <1>8 DEF Ascends
    <2>2. CASE m \in In(net[TableServer][q])
        BY <1>1, <1>8, <2>1, <2>2 DEF Before
    <2>3. CASE New(TableServer, q, m)
        <3>1. HandleMdsMap(TableServer) /\ Greets(q) /\ m \in Welcome(q, epoch[TableServer] + 1)
            BY <1>8, <2>3 DEF New
        <3>2. p \in table.pending
            BY <1>1, <2>1, <3>1
        <3> QED
            BY <1>1, <1>8, <3>1, <3>2 DEF Welcome
    <2> QED
        BY <1>2, <2>2, <2>3, NetMembers, TableAssumption
<1>9. ASSUME p.reqid \in client'[q].preparing
      PROVE  p.reqid \in client[q].preparing
    <2>1. CASE client[q].last # -1
        <3>1. p.reqid <= client[q].last
            BY <1>1, <2>1 DEF Before
        <3> QED
            BY <1>2, <1>4, <1>5, <1>9, <2>1, <3>1 DEF Ascends
    <2>2. CASE client[q].last = -1
        BY <1>2, <1>4, <1>6, <1>9, <2>2 DEF Ascends, h
    <2> QED
        BY <2>1, <2>2
<1>10. Before(p)'
    BY <1>1, <1>7, <1>8 DEF Before
<1>11. Wanted(p)' => Wanted(p)
    BY <1>1, <1>9 DEF Wanted
<1> QED
    BY <1>10, <1>11

-----------------------------------------------------------------------------
(* What a step in which nobody dies does to the table.                     *)
LEMMA HeadIn ==
    ASSUME TypeOK, NEW x \in Ranks, NEW y \in Ranks, NEW op, Receives(x, y, op)
    PROVE  /\ Head(net[x][y]) \in In(net[x][y]) /\ Head(net[x][y]) \in Message
           /\ Head(net[x][y]).op = op
<1>1. net[x][y] \in Seq(Message) /\ net[x][y] # <<>> /\ Head(net[x][y]).op = op
    BY DEF Receives, Arrives, TypeOK, Channels
<1>2. Head(net[x][y]) = net[x][y][1] /\ 1 \in 1..Len(net[x][y]) /\ Head(net[x][y]) \in Message
    BY <1>1, HeadTailProperties, EmptySeq, LenProperties
<1> QED
    BY <1>1, <1>2 DEF In

Decides(r, op) ==
    LET t == Head(net[r][TableServer]).tid
    IN  /\ Receives(r, TableServer, op) /\ t \in Tids(table.pending)
        /\ Update(op, t, r, 0) /\ net' = Taken(r, TableServer)
LEMMA TableSteps ==
    ASSUME TypeOK, Lives
    PROVE  \/ UNCHANGED table
           \/ \E r \in Ranks : HandlePrepare(r) \/ Decides(r, "COMMIT") \/ Decides(r, "ROLLBACK")
           \/ ServerUpdate
<1>1. [Next]_vars /\ \A r \in Ranks : \A why : ~Dies(r, why)
    BY DEF Lives
<1>2. CASE (\E x, y \in Ranks : DropStale(x, y)) \/ Save \/ UNCHANGED vars
    BY <1>2 DEF DropStale, Save, vars
<1>3. ASSUME NEW r \in Ranks, HandleCommit(r)
      PROVE  UNCHANGED table \/ Decides(r, "COMMIT")
    BY <1>1, <1>3, TableAssumption DEF HandleCommit, Decides
<1>4. ASSUME NEW r \in Ranks, HandleRollback(r)
      PROVE  Decides(r, "ROLLBACK")
    BY <1>1, <1>4, TableAssumption DEF HandleRollback, Decides
<1>5. ASSUME NEW r \in Ranks, HandleAgree(r) \/ HandleAck(r) \/ HandleServerReady(r)
                              \/ Mksnap(r) \/ TableLogged(r) \/ Commit(r)
      PROVE  UNCHANGED table
    BY <1>1, <1>5 DEF HandleAgree, HandleAck, HandleServerReady, Mksnap, TableLogged, Commit
<1>6. ASSUME NEW r \in Ranks, Takeover(r) \/ MonActive(r) \/ HandleMdsMap(r)
                              \/ Prepare(r) \/ Expire(r) \/ Fail(r)
      PROVE  UNCHANGED table
    BY <1>1, <1>6 DEF Takeover, MonActive, HandleMdsMap, Prepare, Expire, Fail
<1> QED
    BY <1>1, <1>2, <1>3, <1>4, <1>5, <1>6 DEF Next, Progress

(* The preparation that handle_prepare makes.                              *)
Novel(p) ==
    \E r \in Ranks :
        /\ HandlePrepare(r)
        /\ p = [tid |-> table.version + 1, mds |-> r, reqid |-> Head(net[r][TableServer]).reqid]

(* The version and the snapshots grow; what is pending stays so until it   *)
(* is committed, and is one of the snapshots then, or rolled back.         *)
LEMMA TableGrows ==
    ASSUME TypeOK, Lives
    PROVE  /\ table.version \in Nat /\ table'.version \in Nat /\ table.version <= table'.version
           /\ table.snaps \subseteq table'.snaps
           /\ \A p \in table.pending :
                \/ p \in table'.pending
                \/ /\ \E r \in Ranks : Receives(r, TableServer, "COMMIT") /\
                            p.tid = Head(net[r][TableServer]).tid
                   /\ p.tid \in table'.snaps
                \/ \E r \in Ranks : Receives(r, TableServer, "ROLLBACK") /\
                            p.tid = Head(net[r][TableServer]).tid
           /\ \A t \in Gathered(table)' :
                t \in Gathered(table) \/ \E p : Novel(p) /\ p.tid = t
<1>1. table \in Table /\ table.version \in Nat
    BY DEF TypeOK, Table
<1>2. CASE UNCHANGED table
    BY <1>1, <1>2 DEF Gathered
<1>3. ASSUME NEW r \in Ranks, HandlePrepare(r)
      PROVE  /\ table'.version = table.version + 1 /\ table'.snaps = table.snaps
             /\ table'.pending = table.pending \cup {[tid |-> table.version + 1, mds |-> r,
                                        reqid |-> Head(net[r][TableServer]).reqid]}
    BY <1>3 DEF HandlePrepare, Update, Applied
<1>4. ASSUME NEW r \in Ranks, Decides(r, "COMMIT")
      PROVE  /\ table'.version = table.version + 1
             /\ table'.snaps = table.snaps \cup {Head(net[r][TableServer]).tid}
             /\ table'.pending = {p \in table.pending : p.tid # Head(net[r][TableServer]).tid}
             /\ Receives(r, TableServer, "COMMIT")
             /\ Head(net[r][TableServer]).tid \in Tids(table.pending)
    BY <1>4 DEF Decides, Update, Applied
<1>5. ASSUME NEW r \in Ranks, Decides(r, "ROLLBACK")
      PROVE  /\ table'.version = table.version + 1 /\ table'.snaps = table.snaps
             /\ table'.pending = {p \in table.pending : p.tid # Head(net[r][TableServer]).tid}
             /\ Receives(r, TableServer, "ROLLBACK")
    BY <1>5 DEF Decides, Update, Applied
<1>6. CASE ServerUpdate
    <2>1. table'.version = table.version + 1 /\ table'.snaps = table.snaps
          /\ table'.pending = table.pending
        BY <1>6 DEF ServerUpdate, Update, Applied
    <2> QED
        BY <1>1, <2>1 DEF Gathered
<1>7. ASSUME NEW r \in Ranks, HandlePrepare(r), NEW t \in Gathered(table)'
      PROVE  t \in Gathered(table) \/ \E p : Novel(p) /\ p.tid = t
    <2>1. PICK n : n = [tid |-> table.version + 1, mds |-> r,
                                        reqid |-> Head(net[r][TableServer]).reqid]
        OBVIOUS
    <2>2. Novel(n)
        BY <1>7, <2>1 DEF Novel
    <2>3. table'.snaps = table.snaps /\ table'.pending = table.pending \cup {n}
        BY <1>3, <1>7, <2>1
    <2> QED
        BY <1>7, <2>2, <2>3 DEF Gathered, Tids
<1>8. ASSUME NEW r \in Ranks, Decides(r, "COMMIT") \/ Decides(r, "ROLLBACK")
      PROVE  Gathered(table)' \subseteq Gathered(table)
    BY <1>4, <1>5, <1>8 DEF Gathered, Tids
<1>9. CASE \E r \in Ranks : HandlePrepare(r)
    BY <1>1, <1>3, <1>7, <1>9
<1>10. CASE \E r \in Ranks : Decides(r, "COMMIT")
    BY <1>1, <1>4, <1>8, <1>10
<1>11. CASE \E r \in Ranks : Decides(r, "ROLLBACK")
    BY <1>1, <1>5, <1>8, <1>11
<1> QED
    BY <1>2, <1>6, <1>9, <1>10, <1>11, TableSteps

(* What is done stays done.                                                *)
LEMMA DoneGrows ==
    ASSUME TypeOK, [Next]_vars
    PROVE  done \subseteq done'
<1>1. ASSUME NEW r \in Ranks, NEW x, Journalled(r, x)
      PROVE  done \subseteq done'
    BY <1>1 DEF Journalled
<1>2. ASSUME NEW r \in Ranks, TableLogged(r) \/ Commit(r)
      PROVE  done \subseteq done'
    BY <1>1, <1>2 DEF TableLogged, Commit
<1>3. CASE (\E x, y \in Ranks : DropStale(x, y)) \/ Save \/ ServerUpdate \/ UNCHANGED vars
    BY <1>3 DEF DropStale, Save, ServerUpdate, vars
<1>4. ASSUME NEW r \in Ranks, HandlePrepare(r) \/ HandleCommit(r) \/ HandleRollback(r)
                              \/ HandleAgree(r) \/ HandleAck(r) \/ HandleServerReady(r)
      PROVE  UNCHANGED done
    BY <1>4 DEF HandlePrepare, HandleCommit, HandleRollback, HandleAgree, HandleAck,
                HandleServerReady
<1>5. ASSUME NEW r \in Ranks, Mksnap(r) \/ Takeover(r) \/ MonActive(r) \/ HandleMdsMap(r)
                              \/ Prepare(r) \/ Expire(r) \/ Fail(r)
      PROVE  UNCHANGED done
    BY <1>5 DEF Mksnap, Takeover, MonActive, HandleMdsMap, Prepare, Expire, Fail, Dies
<1> QED
    BY <1>2, <1>3, <1>4, <1>5 DEF Next, Progress

(* What becomes done was prepared by its client.                           *)
LEMMA NewlyDone ==
    ASSUME TypeOK, [Next]_vars, NEW t \in done' \ done
    PROVE  \E q \in Ranks : Commits(q) /\ t = Head(log[q]).tid /\ t \in Tids(client[q].prepared)
                            /\ t \in client'[q].commits /\ t \in updates'[q]
<1>1. PICK q \in Ranks : t \in Signs(q)
    BY UpdatesChange, TableAssumption
<1>2. Commits(q) /\ t = Head(log[q]).tid
    BY <1>1 DEF Signs
<1>3. t \in Tids(client[q].prepared) /\ t \in client'[q].commits
    BY <1>2 DEF Commits
<1>4. Head(log[q]).type = "EUpdate" /\ updates \in [Ranks -> SUBSET Nat]
    BY <1>2 DEF Commits, TypeOK
<1>5. t \in updates'[q]
    BY <1>2, <1>4 DEF Commits, Journalled
<1> QED
    BY <1>2, <1>3, <1>5

(* What is new among the preparations is what handle_prepare makes.        *)
LEMMA PrepareStore ==
    ASSUME TypeOK, NEW p, Novel(p)
    PROVE  /\ table'.pending = table.pending \cup {p} /\ Logged' = Logged \cup {p}
           /\ p.tid = table.version + 1 /\ p \in Pending
           /\ UNCHANGED <<cluster, client, disk, done>>
<1>1. PICK r \in Ranks :
            /\ HandlePrepare(r)
            /\ p = [tid |-> table.version + 1, mds |-> r,
                    reqid |-> Head(net[r][TableServer]).reqid]
    BY DEF Novel
<1>2. /\ Update("PREPARE", table.version + 1, r, Head(net[r][TableServer]).reqid)
      /\ UNCHANGED <<cluster, client, disk, done>> /\ Receives(r, TableServer, "PREPARE")
    BY <1>1 DEF HandlePrepare
<1>3. table.version \in Nat /\ Head(net[r][TableServer]).reqid \in Nat
    BY <1>2, HeadIn, TableAssumption DEF TypeOK, Table, Message
<1>4. PICK x : x = [type |-> "PREPARE", tid |-> table.version + 1, mds |-> r,
                    reqid |-> Head(net[r][TableServer]).reqid, version |-> table.version + 1]
    OBVIOUS
<1>5. In(log'[TableServer]) = In(log[TableServer]) \cup {x}
    BY <1>2, <1>4, SubmitIn
<1>6. x.type = "PREPARE" /\ Request(x) = p
    BY <1>1, <1>4 DEF Request
<1>7. Logged' = Logged \cup {p}
    BY <1>5, <1>6 DEF Logged
<1>8. table'.pending = table.pending \cup {p}
    BY <1>1, <1>2 DEF Update, Applied
<1>9. p.tid = table.version + 1 /\ p \in Pending
    BY <1>1, <1>3 DEF Pending
<1> QED
    BY <1>2, <1>7, <1>8, <1>9

LEMMA LiveChange ==
    ASSUME Sound, Lives
    PROVE  /\ \A p \in Live' : p \in Live \/ Novel(p)
           /\ \A p \in Logged' : p \in Logged \/ Novel(p)
<1>1. /\ TypeOK /\ Continues /\ Epochs /\ Unique /\ [Next]_vars
      /\ \A r \in Ranks : \A why : ~Dies(r, why)
    BY LivesIs
<1>2. /\ \A p \in Logged' : p \in Logged \/ Novel(p)
      /\ \A p \in table'.pending : p \in table.pending \/ Novel(p)
    <2>1. ASSUME NEW p, Novel(p)
          PROVE  table'.pending = table.pending \cup {p} /\ Logged' = Logged \cup {p}
        BY <1>1, <2>1, PrepareStore
    <2>2. CASE \E p : Novel(p)
        BY <2>1, <2>2
    <2>3. CASE ~\E p : Novel(p)
        <3>1. \A r \in Ranks : ~HandlePrepare(r)
            BY <2>3 DEF Novel
        <3>2. CASE Rests
            BY <3>2, RestsStore
        <3>3. ASSUME NEW type \in {"PREPARE", "COMMIT", "ROLLBACK", "SERVER_UPDATE"},
                     NEW tid \in Nat, NEW mds \in Ranks, NEW reqid \in Nat,
                     Updates(type, tid, mds, reqid)
              PROVE  Logged' \subseteq Logged /\ table'.pending \subseteq table.pending
            <4>1. type # "PREPARE"
                BY <3>1, <3>3 DEF Updates
            <4> QED
                BY <1>1, <3>3, <4>1, UpdatesStore
        <3>4. CASE Save
            BY <3>4, SaveStore
        <3>5. CASE TableLogged(TableServer) /\ Head(log[TableServer]).type \notin ClientEntry
            BY <1>1, <3>5, LoggedStore
        <3> QED
            BY <1>1, <3>2, <3>3, <3>4, <3>5, StoreChange, TableAssumption
    <2> QED
        BY <2>2, <2>3
<1>3. ASSUME NEW q \in Ranks, NEW p \in Agreed(q)'
      PROVE  p \in Live
    <2>1. p \in Agreed(q) \cup OnDisk \cup NewlyLogged
        BY <1>1, <1>3, AgreedChange
    <2>2. CASE p \in OnDisk
        <3>1. p \in disk.pending /\ ~Awake
            BY <2>2 DEF OnDisk
        <3>2. table = disk
            BY <1>1, <3>1 DEF Epochs, Idle, Awake
        <3> QED
            BY <3>1, <3>2 DEF Live
    <2>3. CASE p \in NewlyLogged
        BY <1>1, <2>3, NewlyLoggedKnown DEF Unique, Live
    <2> QED
        BY <1>3, <2>1, <2>2, <2>3 DEF Live
<1> QED
    BY <1>2, <1>3 DEF Live

LEMMA LiveKnown ==
    ASSUME TypeOK
    PROVE  Live \subseteq Known /\ Live \subseteq Pending
<1>1. Live \subseteq Known
    BY DEF Live, Known, Claims
<1> QED
    BY <1>1, KnownType

(* A client that the server greets anew had what may be agreed to it       *)
(* pending.                                                                *)
LEMMA GreetPending ==
    ASSUME Sound, Victims, OneDeath, Backed, NEW p \in Live, HandleMdsMap(TableServer),
           Greets(p.mds), client[p.mds].last = -1
    PROVE  p \in table.pending
<1>1. TypeOK /\ Epochs /\ p \in Pending
    BY LiveKnown DEF Sound
<1>2. PICK q \in Ranks : q = p.mds
    BY <1>1 DEF Pending
<1>3. epoch[TableServer] \in 1..Now /\ Now \in Nat /\ epoch[TableServer] \in epoch[TableServer]..Now
    BY <1>1, EpochType, TableAssumption
<1>4. ServerActive(epoch[TableServer]) => mdsmap[epoch[TableServer]][q] # "active"
    BY <1>2 DEF Greets
<1>5. CASE p \in Logged
    <2>1. PICK x \in In(log[TableServer]) : x.type = "PREPARE"
        BY <1>5 DEF Logged
    <2>2. ServerActive(epoch[TableServer])
        BY <1>1, <2>1 DEF Epochs, Idle, In, ClientEntry
    <2>3. Ungreeted(p.mds)
        BY <1>2, <1>3, <1>4, <2>2 DEF Ungreeted
    <2> QED
        BY <1>5, <2>3 DEF Backed
<1>6. ASSUME NEW r \in Ranks, p \in Agreed(r)
      PROVE  FALSE
    <2>1. PICK i \in 1..Len(net[TableServer][r]) :
                p = Offer(r, net[TableServer][r][i]) /\ ~Harmless(r, i)
        BY <1>6 DEF Agreed
    <2>2. r = q
        BY <1>2, <2>1 DEF Offer
    <2>3. PICK j \in 1..(i - 1) : net[TableServer][q][j].op = "SERVER_READY"
        BY <1>2, <2>1, <2>2 DEF Harmless
    <2>4. net[TableServer][q] \in Seq(Message)
        BY <1>1, TableAssumption DEF TypeOK, Channels
    <2>5. Len(net[TableServer][q]) \in Nat
        BY <2>4, LenProperties
    <2>6. j \in 1..Len(net[TableServer][q])
        BY <2>1, <2>2, <2>3, <2>5
    <2>7. Greeting(q)
        BY <2>3, <2>6 DEF Greeting
    <2>8. mdsmap[epoch[TableServer]][q] = "active"
        BY <1>1, <1>3, <2>7 DEF Epochs, Greeted
    <2>9. ~ServerActive(epoch[TableServer])
        BY <1>4, <2>8
    <2>10. Fell(TableServer) /\ Fell(q)
        BY <1>2, <1>3, <2>9, TableAssumption DEF Victims, ServerActive
    <2>11. q = TableServer
        BY <2>10, TableAssumption DEF Victims
    <2> QED
        BY <2>8, <2>9, <2>11 DEF ServerActive
<1> QED
    BY <1>5, <1>6 DEF Live

(* A preparation that a client waits for is not done, and stays so.        *)
LEMMA FreshKept ==
    ASSUME Sound, Lives, Reqids, NEW p \in Known, Fresh(p),
           HandleMdsMap(TableServer) /\ Greets(p.mds) /\ client[p.mds].last = -1
                => p \in table.pending
    PROVE  Fresh(p)' /\ (Wanted(p)' => Wanted(p))
<1>1. TypeOK /\ Unique /\ [Next]_vars
    BY LivesIs
<1>2. p \in Pending
    BY <1>1, KnownType
<1>3. Before(p)' /\ (Wanted(p)' => Wanted(p))
    BY <1>2, BeforeKept DEF Fresh
<1>4. ASSUME Wanted(p), p.tid \in done'
      PROVE  FALSE
    <2>1. p.tid \notin done
        BY <1>4 DEF Fresh
    <2>2. PICK q \in Ranks : p.tid \in Tids(client[q].prepared)
        BY <1>1, <1>4, <2>1, NewlyDone
    <2>3. PICK x \in client[q].prepared : x.tid = p.tid
        BY <2>2 DEF Tids
    <2>4. Offer(q, x) \in Known /\ Offer(q, x).tid = p.tid
        BY <2>3 DEF Known, Claims, PreparedBy, Offer
    <2>5. Offer(q, x) = p
        BY <1>1, <2>4 DEF Unique, Single
    <2>6. p.mds = q /\ p.reqid = x.reqid
        BY <2>5 DEF Offer
    <2>7. x.reqid \notin client[q].preparing
        BY <2>3 DEF Reqids, ReqidsOf
    <2> QED
        BY <1>4, <2>6, <2>7 DEF Wanted
<1>5. Fresh(p)'
    BY <1>3, <1>4 DEF Fresh
<1> QED
    BY <1>3, <1>5

LEMMA LiveFresh ==
    ASSUME Sound, Lives, Victims, OneDeath, Backed, Reqids, NEW p \in Live
    PROVE  Fresh(p)' /\ (Wanted(p)' => Wanted(p))
<1>1. p \in Known
    BY LiveKnown DEF Sound
<1>2. HandleMdsMap(TableServer) /\ Greets(p.mds) /\ client[p.mds].last = -1
      => p \in table.pending
    BY GreetPending
<1>3. Fresh(p)
    BY DEF Backed
<1> QED
    BY <1>1, <1>2, <1>3, FreshKept

(* What handle_prepare makes is fresh: if its client has been replaced the *)
(* server is still going to greet the new one.                             *)
LEMMA NovelFresh ==
    ASSUME Sound, Lives, Reqids, NEW p, Novel(p)
    PROVE  Fresh(p)' /\ p.tid \notin done'
<1>1. TypeOK /\ Continues /\ Epochs /\ Unique /\ [Next]_vars
    BY LivesIs
<1>2. PICK r \in Ranks :
            /\ HandlePrepare(r)
            /\ p = [tid |-> table.version + 1, mds |-> r,
                    reqid |-> Head(net[r][TableServer]).reqid]
    BY DEF Novel
<1>3. Receives(r, TableServer, "PREPARE") /\ net' = Taken(r, TableServer)
    BY <1>2 DEF HandlePrepare
<1>4. PICK m : m = Head(net[r][TableServer])
    OBVIOUS
<1>5. /\ p.mds = r /\ p.reqid = m.reqid /\ p.tid = table.version + 1
      /\ m \in In(net[r][TableServer]) /\ m \in Message /\ m.op = "PREPARE"
      /\ ~Stale(r, TableServer, m) /\ UNCHANGED <<cluster, client, disk, done>>
    BY <1>1, <1>2, <1>3, <1>4, HeadIn, PrepareStore, TableAssumption DEF Receives
<1> HIDE <1>2, <1>4
<1>6. p.tid \notin done
    <2>1. disk.version \in Nat /\ table.version \in Nat /\ disk.version <= table.version
        BY <1>1, LogType DEF Continues, Ordered
    <2>2. done \subseteq Nat /\ \A t \in done : t <= disk.version
        BY <1>1 DEF TypeOK, Unique, Bounded
    <2>3. PICK n : n = p.tid
        OBVIOUS
    <2>4. n = table.version + 1
        BY <1>5, <2>3
    <2>5. n \notin done
        BY <2>1, <2>2, <2>4
    <2> QED
        BY <2>3, <2>5
<1>7. \/ client[r].last # -1 /\ m.reqid <= client[r].last
      \/ client[r].last = -1 /\ ~Greeting(r)
    <2>1. Asked(r, m)
        BY <1>5 DEF Reqids
    <2>2. ASSUME NEW k \in (m.ep + 1)..Now, mdsmap[k][r] = "down"
          PROVE  client[r].last = -1 /\ ~Greeting(r)
        <3>1. epoch[TableServer] \in Nat /\ Now \in Nat /\ m.ep \in Nat
            BY <1>1, <1>5, EpochType, TableAssumption DEF Message
        <3>2. ~(k \in (m.ep + 1)..epoch[TableServer])
            BY <1>5, <2>2 DEF Stale
        <3>3. k \in epoch[TableServer]..Now
            BY <2>2, <3>1, <3>2
        <3> QED
            BY <1>1, <2>2, <3>3 DEF Epochs, Greeted
    <2> QED
        BY <1>5, <2>1, <2>2 DEF Asked
<1>8. \A n \in In(net'[TableServer][r]) : n.op = "SERVER_READY" => Greeting(r)
    <2> SUFFICES ASSUME NEW n \in In(net'[TableServer][r]), n.op = "SERVER_READY"
                 PROVE  Greeting(r)
        OBVIOUS
    <2>1. net[TableServer][r] \in Seq(Message)
        BY <1>1, TableAssumption DEF TypeOK, Channels
    <2>2. net[r][TableServer] # <<>>
        BY <1>3 DEF Receives, Arrives
    <2>3. \/ net'[TableServer][r] = net[TableServer][r]
          \/ r = TableServer /\ net'[TableServer][r] = Tail(net[TableServer][r])
        BY <1>1, <1>3, TakenParts, TableAssumption
    <2>4. In(net'[TableServer][r]) \subseteq In(net[TableServer][r])
        BY <2>1, <2>2, <2>3, InTail
    <2> QED
        BY <2>4 DEF In, Greeting
<1>9. Before(p)'
    BY <1>5, <1>7, <1>8 DEF Before
<1>10. Fresh(p)'
    BY <1>5, <1>6, <1>9 DEF Fresh
<1> QED
    BY <1>5, <1>6, <1>10

(* What a client has prepared, waits for or is to be told again stays      *)
(* pending.                                                                *)
LEMMA PendingStays ==
    ASSUME Sound, Lives, Refusals, NEW p \in table.pending, p.tid \notin done, ~Refused(p.tid)
    PROVE  p \in table'.pending
<1>1. TypeOK /\ Causal
    BY LivesIs
<1>2. ASSUME NEW r \in Ranks, Receives(r, TableServer, "COMMIT"),
             p.tid = Head(net[r][TableServer]).tid
      PROVE  FALSE
    <2>1. Arrives(r, TableServer) /\ Head(net[r][TableServer]).op = "COMMIT"
        BY <1>2 DEF Receives
    <2>2. Head(net[r][TableServer]) \in Justified(done)
        BY <1>1, <2>1, ArrivesJustified, TableAssumption
    <2> QED
        BY <1>2, <2>1, <2>2 DEF Justified
<1>3. ASSUME NEW r \in Ranks, Receives(r, TableServer, "ROLLBACK"),
             p.tid = Head(net[r][TableServer]).tid
      PROVE  FALSE
    BY <1>1, <1>3, HeadIn, TableAssumption DEF Refusals
<1> QED
    BY <1>1, <1>2, <1>3, TableGrows

-----------------------------------------------------------------------------
(* Guarded is kept by every step in which nobody dies.                     *)
Goes == Sound /\ Lives /\ Victims /\ OneDeath /\ Guarded

LEMMA GoesIs ==
    ASSUME Goes
    PROVE  /\ TypeOK /\ Causal /\ Continues /\ Epochs /\ Unique /\ AnswersOnce
           /\ [Next]_vars /\ (\A r \in Ranks : \A why : ~Dies(r, why))
           /\ Sound /\ Lives /\ Backed /\ Reqids /\ Refusals /\ Agreements /\ Decided
           /\ \A p \in Live : Fresh(p)' /\ (Wanted(p)' => Wanted(p))
    BY LivesIs, LiveFresh DEF Goes, Guarded

(* A tid that a client has prepared has one preparation that is known.     *)
LEMMA PreparedKnown ==
    ASSUME TypeOK, Unique, NEW q \in Ranks, NEW t \in Tids(client[q].prepared)
    PROVE  /\ \E p \in PreparedBy(q) : p.tid = t /\ p.mds = q
           /\ \A p \in Known : p.tid = t => p \in PreparedBy(q) /\ p.mds = q
<1>1. PICK x \in client[q].prepared : x.tid = t
    BY DEF Tids
<1>2. Offer(q, x) \in PreparedBy(q) /\ Offer(q, x).tid = t /\ Offer(q, x).mds = q
    BY <1>1 DEF PreparedBy, Offer
<1>3. Offer(q, x) \in Known
    BY <1>2 DEF Known, Claims
<1> QED
    BY <1>2, <1>3 DEF Unique, Single

LEMMA NextBacked == Goes => Backed'
<1> SUFFICES ASSUME Goes PROVE Backed'
    OBVIOUS
<1>1. /\ TypeOK /\ Epochs /\ Continues /\ Unique /\ AnswersOnce /\ [Next]_vars /\ Sound /\ Lives
      /\ Backed /\ Reqids /\ Refusals
      /\ \A r \in Ranks : \A why : ~Dies(r, why)
    BY GoesIs
<1>2. ASSUME NEW q \in Ranks, NEW p \in PreparedBy(q)'
      PROVE  p \in table'.pending /\ p.tid \notin done'
    <2>1. PICK x \in client'[q].prepared : p = Offer(q, x)
        BY <1>2 DEF PreparedBy
    <2>2. p.tid \in Tids(client'[q].prepared) /\ p.mds = q
        BY <2>1 DEF Tids, Offer
    <2>3. CASE p \in PreparedBy(q)
        <3>1. p \in table.pending /\ p.tid \notin done /\ p \in Known
            BY <1>1, <2>3 DEF Backed, Known, Claims
        <3>2. p.tid \in Tids(client[q].prepared)
            BY <2>3 DEF PreparedBy, Tids, Offer
        <3>3. ~Refused(p.tid)
            BY <3>2 DEF Refused
        <3>4. ASSUME p.tid \in done' PROVE FALSE
            <4>1. PICK r \in Ranks : /\ Commits(r) /\ p.tid = Head(log[r]).tid
                                     /\ p.tid \in Tids(client[r].prepared)
                BY <1>1, <3>1, <3>4, NewlyDone
            <4>2. r = q
                BY <1>1, <2>2, <3>1, <4>1, PreparedKnown
            <4>3. client'[q].prepared = {y \in client[q].prepared : y.tid # p.tid}
                BY <4>1, <4>2 DEF Commits
            <4> QED
                BY <2>2, <4>3 DEF Tids
        <3> QED
            BY <1>1, <3>1, <3>3, <3>4, PendingStays
    <2>4. CASE p \notin PreparedBy(q)
        <3>1. x \notin client[q].prepared
            BY <2>1, <2>4 DEF PreparedBy
        <3>2. Accepts(q)
            <4>1. client[q] \in Client
                BY <1>1 DEF TypeOK
            <4>2. ASSUME client'[q] = client[q] \/ AckTaken(q) \/ Journals(q) \/ Loses(q)
                  PROVE  client'[q].prepared = client[q].prepared
                BY <4>1, <4>2 DEF AckTaken, Journals, Loses, Client
            <4>3. ASSUME Asks(q) PROVE client'[q].prepared = client[q].prepared
                BY <4>1, <4>3 DEF Asks, Client
            <4>4. ASSUME Readied(q) PROVE client'[q].prepared = client[q].prepared
                BY <4>1, <4>4 DEF Readied, Client
            <4>5. ASSUME Commits(q) PROVE client'[q].prepared \subseteq client[q].prepared
                BY <4>5 DEF Commits
            <4>6. ~Restarts(q)
                BY <1>1 DEF Restarts
            <4> QED
                BY <1>1, <2>1, <3>1, <4>2, <4>3, <4>4, <4>5, <4>6, ClientChange
        <3> DEFINE m == Head(net[TableServer][q])
        <3>3. Offer(q, m) \in Agreed(q) /\ m.reqid \in client[q].preparing
            BY <1>1, <3>2, AcceptsHead DEF Accepts
        <3>4. p = Offer(q, m)
            <4>1. x = [tid |-> m.tid, reqid |-> m.reqid]
                BY <2>1, <3>1, <3>2 DEF Accepts
            <4> QED
                BY <2>1, <4>1 DEF Offer
        <3>5. p \in Live /\ Wanted(p)
            BY <3>3, <3>4 DEF Live, Wanted, Offer
        <3>6. p \in table.pending /\ p.tid \notin done
            BY <1>1, <3>5 DEF Backed, Fresh
        <3>7. UNCHANGED <<table, done>>
            BY <1>1, <3>2 DEF Accepts, HandleAgree
        <3> QED
            BY <3>6, <3>7
    <2> QED
        BY <2>3, <2>4
<1>3. ASSUME NEW p \in Live'
      PROVE  Fresh(p)' /\ (Wanted(p)' => p \in table'.pending)
    <2>1. CASE Novel(p)
        BY <1>1, <2>1, NovelFresh, PrepareStore
    <2>2. CASE p \in Live
        <3>1. Fresh(p)' /\ (Wanted(p)' => Wanted(p))
            BY <2>2, GoesIs
        <3>2. ASSUME Wanted(p) PROVE p \in table'.pending
            <4>1. p \in table.pending /\ p.tid \notin done
                BY <1>1, <2>2, <3>2 DEF Backed, Fresh
            <4>2. ~Refused(p.tid)
                BY <2>2, <3>2 DEF Refused
            <4> QED
                BY <1>1, <4>1, <4>2, PendingStays
        <3> QED
            BY <3>1, <3>2
    <2> QED
        BY <1>1, <1>3, <2>1, <2>2, LiveChange
<1>4. ASSUME NEW p \in Logged'
      PROVE  p.tid \notin done' /\ (Ungreeted(p.mds)' => p \in table'.pending)
    <2>1. CASE Novel(p)
        BY <1>1, <2>1, NovelFresh, PrepareStore
    <2>2. CASE p \in Logged
        <3>1. p.tid \notin done /\ (Ungreeted(p.mds) => p \in table.pending)
            BY <1>1, <2>2 DEF Backed
        <3>2. p.tid \notin done'
            <4>1. \A q \in Ranks : p.tid \notin Tids(client[q].prepared)
                BY <1>1, <2>2 DEF AnswersOnce, Unanswered, Spoken
            <4> QED
                BY <1>1, <3>1, <4>1, NewlyDone
        <3>3. p.mds \in Ranks
            BY <1>1, <2>2, KnownType DEF Known, Pending
        <3>4. ASSUME Ungreeted(p.mds)' PROVE p \in table'.pending
            <4>1. Ungreeted(p.mds)
                BY <1>1, <3>3, <3>4, UngreetedKept
            <4>2. ~Refused(p.tid)
                BY <2>2, <4>1 DEF Refused
            <4> QED
                BY <1>1, <3>1, <4>1, <4>2, PendingStays
        <3> QED
            BY <3>2, <3>4
    <2> QED
        BY <1>1, <1>4, <2>1, <2>2, LiveChange
<1> QED
    BY <1>2, <1>3, <1>4 DEF Backed

(* Earlier maps stay as they are.                                          *)
LEMMA MapsKept ==
    ASSUME TypeOK, [Next]_vars
    PROVE  Now \in Nat /\ Now' \in Nat /\ Now <= Now' /\ \A k \in 1..Now : mdsmap'[k] = mdsmap[k]
<1>1. Now \in Nat
    BY NowType
<1>2. CASE UNCHANGED mdsmap
    BY <1>1, <1>2 DEF Now
<1>3. ASSUME NEW r \in Ranks, NEW st, OneMore(r, st)
      PROVE  Now' \in Nat /\ Now <= Now' /\ \A k \in 1..Now : mdsmap'[k] = mdsmap[k]
    BY <1>1, <1>3 DEF OneMore
<1> QED
    BY <1>1, <1>2, <1>3, MapSteps

LEMMA NextReqids == Goes => Reqids'
<1> SUFFICES ASSUME Goes PROVE Reqids'
    OBVIOUS
<1>1. TypeOK /\ Epochs /\ [Next]_vars /\ Sound /\ Lives /\ Reqids
    BY GoesIs
<1>2. TypeOK'
    BY <1>1, NextType
<1>3. \A q \in Ranks : Ascends(q) /\ ReqidsOf(client'[q])
    BY <1>1, AllAscend DEF Ascends, Reqids
<1>4. ASSUME NEW q \in Ranks, NEW m \in In(net'[q][TableServer]), m.op = "PREPARE"
      PROVE  \/ client'[q].last # -1 /\ m.reqid <= client'[q].last
             \/ \E k \in (m.ep + 1)..Now' : mdsmap'[k][q] = "down"
    <2>1. client[q].last \in Nat \cup {-1} /\ client'[q].last \in Nat \cup {-1}
        BY <1>1, <1>2 DEF TypeOK, Client
    <2>2. m \in Message
        <3>1. net'[q][TableServer] \in Seq(Message)
            BY <1>2, TableAssumption DEF TypeOK, Channels
        <3> QED
            BY <1>4, <3>1, InType
    <2>3. m.reqid \in Nat /\ m.ep \in Nat
        BY <2>2 DEF Message
    <2>4. CASE m \in In(net[q][TableServer])
        <3>1. \/ client[q].last # -1 /\ m.reqid <= client[q].last
              \/ \E k \in (m.ep + 1)..Now : mdsmap[k][q] = "down"
            BY <1>1, <1>4, <2>4 DEF Reqids, Asked
        <3>2. CASE client[q].last # -1 /\ m.reqid <= client[q].last
            <4>1. client'[q].last # -1 /\ client[q].last <= client'[q].last
                BY <1>3, <3>2 DEF Ascends
            <4> QED
                BY <2>1, <2>3, <3>2, <4>1
        <3>3. ASSUME NEW k \in (m.ep + 1)..Now, mdsmap[k][q] = "down"
              PROVE  k \in (m.ep + 1)..Now' /\ mdsmap'[k][q] = "down"
            BY <1>1, <2>3, <3>3, MapsKept
        <3> QED
            BY <3>1, <3>2, <3>3
    <2>5. CASE New(q, TableServer, m)
        <3>1. m.reqid \in client'[q].preparing
            BY <1>4, <2>5 DEF New, Welcome
        <3>2. m.reqid <= client'[q].last
            BY <1>3, <3>1 DEF ReqidsOf
        <3> QED
            BY <2>1, <2>3, <3>2
    <2> QED
        BY <1>1, <1>4, <2>4, <2>5, NetMembers, TableAssumption
<1> QED
    BY <1>3, <1>4 DEF Reqids, Asked

(* What is refused stays refused.                                          *)
LEMMA RefusedKept ==
    ASSUME Goes, NEW t \in Nat, Refused(t)
    PROVE  Refused(t)'
<1>1. /\ TypeOK /\ Epochs /\ Continues /\ Unique /\ [Next]_vars /\ Sound /\ Lives /\ Reqids
    BY GoesIs
<1>2. /\ table.version \in Nat /\ table'.version \in Nat /\ table.version <= table'.version
      /\ table.snaps \subseteq table'.snaps
    BY <1>1, TableGrows
<1>3. t <= table.version
    BY DEF Refused
<1>4. ASSUME NEW q \in Ranks, t \in Tids(client'[q].prepared)
      PROVE  FALSE
    <2>1. t \notin Tids(client[q].prepared)
        BY DEF Refused
    <2>2. Accepts(q) /\ t = Head(net[TableServer][q]).tid
        BY <1>1, <1>4, <2>1, PreparedTids
    <2>3. Offer(q, Head(net[TableServer][q])) \in Agreed(q)
        BY <1>1, <2>2, AcceptsHead
    <2>4. Head(net[TableServer][q]).reqid \in client[q].preparing
        BY <2>2 DEF Accepts
    <2>5. PICK p : p = Offer(q, Head(net[TableServer][q]))
        OBVIOUS
    <2>6. p \in Live /\ p.tid = t /\ Wanted(p)
        BY <2>2, <2>3, <2>4, <2>5 DEF Live, Offer, Wanted
    <2> QED
        BY <2>6 DEF Refused
<1>5. ASSUME NEW p, Novel(p) PROVE p.tid # t
    <2>1. p.tid = table.version + 1
        BY <1>1, <1>5, PrepareStore
    <2> QED
        BY <1>2, <1>3, <2>1
<1>6. \A p \in Live' : p.tid = t => ~Wanted(p)'
    <2> SUFFICES ASSUME NEW p \in Live', p.tid = t PROVE ~Wanted(p)'
        OBVIOUS
    <2>1. p \in Live
        BY <1>1, <1>5, LiveChange
    <2> QED
        BY <2>1, GoesIs DEF Refused
<1>7. \A p \in Logged' : p.tid = t => ~Ungreeted(p.mds)'
    <2> SUFFICES ASSUME NEW p \in Logged', p.tid = t PROVE ~Ungreeted(p.mds)'
        OBVIOUS
    <2>1. p \in Logged
        BY <1>1, <1>5, LiveChange
    <2>2. p.mds \in Ranks
        BY <1>1, <2>1, KnownType DEF Known, Pending
    <2> QED
        BY <1>1, <2>1, <2>2, UngreetedKept DEF Refused
<1>8. t \in done' => t \in table'.snaps
    BY <1>1, <1>2, NewlyDone DEF Refused
<1>9. t <= table'.version
    BY <1>2, <1>3
<1> QED
    BY <1>4, <1>6, <1>7, <1>8, <1>9 DEF Refused

(* A client refuses what it has neither asked for nor prepared.            *)
LEMMA RefusesRefused ==
    ASSUME Goes, NEW q \in Ranks, NEW t, Refuses(q, t)
    PROVE  Refused(t)
<1>1. TypeOK /\ Unique /\ Agreements /\ Decided
    BY GoesIs
<1>2. PICK m : m = Head(net[TableServer][q])
    OBVIOUS
<1>3. /\ m \in In(net[TableServer][q]) /\ m \in Message /\ m.op = "AGREE" /\ t = m.tid
      /\ m.reqid \notin client[q].preparing
      /\ t \notin Tids(client[q].prepared) \cup client[q].commits
    BY <1>1, <1>2, HeadIn, TableAssumption DEF Refuses
<1> HIDE <1>2
<1>4. /\ t <= table.version
      /\ \A p \in Known : p.tid = t => p = Offer(q, m)
      /\ \A r \in Ranks : t \in Signed(r) => r = q
      /\ m.bl => t \notin Tids(Logged)
      /\ ~m.bl => ~Ungreeted(q)
    BY <1>1, <1>3 DEF Agreements, Tallies
<1>5. ASSUME NEW r \in Ranks, t \in Tids(client[r].prepared) PROVE FALSE
    <2>1. PICK p \in PreparedBy(r) : p.tid = t /\ p.mds = r
        BY <1>1, <1>5, PreparedKnown
    <2>2. p = Offer(q, m)
        BY <1>4, <2>1 DEF Known, Claims
    <2>3. r = q
        BY <2>1, <2>2 DEF Offer
    <2> QED
        BY <1>3, <1>5, <2>3
<1>6. ASSUME NEW p \in Live, p.tid = t PROVE ~Wanted(p)
    <2>1. p = Offer(q, m)
        BY <1>1, <1>4, <1>6, LiveKnown
    <2> QED
        BY <1>3, <2>1 DEF Offer, Wanted
<1>7. ASSUME NEW p \in Logged, p.tid = t PROVE ~Ungreeted(p.mds)
    <2>1. p = Offer(q, m)
        BY <1>4, <1>7 DEF Known
    <2>2. ~m.bl
        BY <1>4, <1>7 DEF Tids
    <2> QED
        BY <1>4, <2>1, <2>2 DEF Offer
<1>8. t \in done => t \in table.snaps
    BY <1>1, <1>3, <1>4 DEF Decided, Kept, Signed
<1> QED
    BY <1>4, <1>5, <1>6, <1>7, <1>8 DEF Refused

LEMMA NextRefusals == Goes => Refusals'
<1> SUFFICES ASSUME Goes, NEW q \in Ranks, NEW m \in In(net'[q][TableServer]),
                    m.op = "ROLLBACK"
             PROVE  Refused(m.tid)'
    BY DEF Refusals
<1>1. TypeOK /\ [Next]_vars /\ Sound /\ Lives /\ Refusals
    BY GoesIs
<1>2. m.tid \in Nat
    <2>1. TypeOK'
        BY <1>1, NextType
    <2>2. net'[q][TableServer] \in Seq(Message)
        BY <2>1, TableAssumption DEF TypeOK, Channels
    <2>3. m \in Message
        BY <2>2, InType
    <2> QED
        BY <2>3 DEF Message
<1>3. PICK t \in Nat : t = m.tid
    BY <1>2
<1>4. Refused(t)
    <2>1. CASE m \in In(net[q][TableServer])
        BY <1>1, <1>3, <2>1 DEF Refusals
    <2>2. CASE New(q, TableServer, m)
        BY <1>3, <2>2, RefusesRefused DEF New, Welcome
    <2> QED
        BY <1>1, <2>1, <2>2, NetMembers, TableAssumption
<1>5. Refused(t)'
    BY <1>4, RefusedKept
<1> QED
    BY <1>3, <1>5

(* An AGREE that says what it must in the state before the step says it    *)
(* after the step.                                                         *)
LEMMA TalliesKept ==
    ASSUME Goes, NEW q \in Ranks, NEW m \in Message, m.op = "AGREE",
           m.tid <= table.version,
           \A p \in Known : p.tid = m.tid => p = Offer(q, m),
           \A r \in Ranks : m.tid \in Signed(r) => r = q,
           m.bl => m.tid \notin Tids(Logged'),
           ~m.bl => ~Ungreeted(q)'
    PROVE  Tallies(q, m)'
<1>1. /\ TypeOK /\ Epochs /\ Continues /\ Unique /\ [Next]_vars /\ Sound /\ Lives
    BY GoesIs
<1>2. /\ table.version \in Nat /\ table'.version \in Nat /\ table.version <= table'.version
    BY <1>1, TableGrows
<1>3. m.tid \in Nat
    BY DEF Message
<1>4. m.tid <= table'.version
    BY <1>2, <1>3
<1>5. ASSUME NEW p \in Known', p.tid = m.tid PROVE p = Offer(q, m)
    <2>1. PICK N : Added(N)
        BY <1>1, KnownChange
    <2>2. CASE p \in N
        <3>1. p.tid = table.version + 1
            BY <2>1, <2>2 DEF Added
        <3> QED
            BY <1>2, <1>3, <1>5, <3>1
    <2>3. CASE p \in Known
        BY <1>5, <2>3
    <2> QED
        BY <1>5, <2>1, <2>2, <2>3 DEF Added
<1>6. ASSUME NEW r \in Ranks, m.tid \in Signed(r)' PROVE r = q
    <2>1. CASE m.tid \in Signed(r)
        BY <2>1
    <2>2. CASE m.tid \in Signs(r)
        <3>1. PICK p \in Claims : p.tid = m.tid /\ p.mds = r
            BY <2>2, SignsClaimed
        <3>2. p = Offer(q, m)
            BY <3>1 DEF Known
        <3> QED
            BY <3>1, <3>2 DEF Offer
    <2> QED
        BY <1>1, <1>6, <2>1, <2>2, SignedChange
<1>7. (m.tid \notin Tids(Logged))' <=> m.tid \notin Tids(Logged')
    BY DEF Tids
<1> QED
    BY <1>4, <1>5, <1>6, <1>7 DEF Tallies, Offer

LEMMA NextAgreements == Goes => Agreements'
<1> SUFFICES ASSUME Goes, NEW q \in Ranks, NEW m \in In(net'[TableServer][q]), m.op = "AGREE"
             PROVE  Tallies(q, m)'
    BY DEF Agreements, Tallies
<1>1. /\ TypeOK /\ Epochs /\ Continues /\ Unique /\ AnswersOnce /\ [Next]_vars /\ Sound /\ Lives
      /\ Agreements
    BY GoesIs
<1>2. m \in Message
    <2>1. TypeOK'
        BY <1>1, NextType
    <2>2. net'[TableServer][q] \in Seq(Message)
        BY <2>1, TableAssumption DEF TypeOK, Channels
    <2> QED
        BY <2>2, InType
<1>3. table.version \in Nat /\ m.tid \in Nat
    BY <1>1, <1>2, LogType DEF Message
<1>4. CASE m \in In(net[TableServer][q])
    <2>1. Tallies(q, m)
        BY <1>1, <1>4 DEF Agreements
    <2>2. ASSUME m.bl, NEW p \in Logged', p.tid = m.tid PROVE FALSE
        <3>1. p \notin Logged
            BY <2>1, <2>2 DEF Tallies, Tids
        <3>2. p.tid = table.version + 1
            BY <1>1, <2>2, <3>1, LoggedChange
        <3>3. m.tid <= table.version
            BY <2>1 DEF Tallies
        <3> QED
            BY <1>3, <2>2, <3>2, <3>3
    <2>3. m.bl => m.tid \notin Tids(Logged')
        BY <2>2 DEF Tids
    <2>4. ~m.bl => ~Ungreeted(q)'
        BY <1>1, <2>1, UngreetedKept DEF Tallies
    <2> QED
        BY <1>2, <2>1, <2>3, <2>4, TalliesKept DEF Tallies
<1>5. CASE /\ m.bl /\ TableLogged(TableServer) /\ Head(log[TableServer]).type = "PREPARE"
           /\ Offer(q, m) = Request(Head(log[TableServer]))
    <2>1. Offer(q, m) \in Logged /\ Offer(q, m).tid = m.tid
        <3>1. Offer(q, m) \in NewlyLogged
            BY <1>5 DEF NewlyLogged
        <3> QED
            BY <1>1, <3>1, NewlyLoggedKnown DEF Unique, Offer
    <2>2. Offer(q, m) \in Known
        BY <2>1 DEF Known
    <2>3. m.tid <= table.version
        BY <1>1, <2>1, <2>2 DEF Unique, Bounded
    <2>4. \A p \in Known : p.tid = m.tid => p = Offer(q, m)
        BY <1>1, <2>1, <2>2 DEF Unique, Single
    <2>5. \A r \in Ranks : m.tid \notin Signed(r)
        BY <1>1, <2>1 DEF AnswersOnce, Unanswered, Spoken
    <2>6. m.tid = Head(log[TableServer]).tid
        BY <1>5 DEF Offer, Request
    <2>7. m.tid \notin Tids(Logged')
        BY <1>1, <1>5, <2>6, LoggedOnce DEF Unique, Tids
    <2> QED
        BY <1>2, <1>5, <2>3, <2>4, <2>5, <2>7, TalliesKept
<1>6. CASE /\ HandleMdsMap(TableServer) /\ Greets(q)
           /\ m \in Welcome(q, epoch[TableServer] + 1)
    <2>1. ~m.bl /\ Offer(q, m) \in table.pending
        BY <1>6 DEF Welcome
    <2>2. Offer(q, m) \in Known /\ Offer(q, m).tid = m.tid /\ Offer(q, m).mds = q
        BY <2>1 DEF Known, Offer
    <2>3. m.tid <= table.version
        BY <1>1, <2>2 DEF Unique, Bounded
    <2>4. \A p \in Known : p.tid = m.tid => p = Offer(q, m)
        BY <1>1, <2>2 DEF Unique, Single
    <2>5. \A r \in Ranks : m.tid \in Signed(r) => r = q
        BY <1>1, <2>2 DEF Unique, OneSigner
    <2>6. ~Ungreeted(q)'
        <3> DEFINE e == epoch[TableServer] + 1
        <3>1. /\ UNCHANGED mdsmap /\ epoch' = [epoch EXCEPT ![TableServer] = e] /\ e \in 1..Now
            BY <1>1, <1>6, MapFlow, TableAssumption
        <3>2. epoch'[TableServer] = e /\ Now' = Now /\ Now \in Nat
            BY <1>1, <3>1, NowType, TableAssumption DEF TypeOK, Now
        <3>3. mdsmap[e][q] = "active" /\ \A k \in e..Now : mdsmap[k][q] # "down"
            BY <1>6 DEF Greets, Reaches
        <3> HIDE DEF e
        <3>4. ASSUME NEW k \in e..Now PROVE mdsmap[k][q] = "active"
            <4>1. k \in 1..Now /\ e <= k
                BY <3>1, <3>2, <3>4
            <4>2. UpThrough(q, e, k)
                BY <3>1, <3>2, <3>3, <4>1 DEF UpThrough
            <4> QED
                BY <1>1, <3>1, <3>3, <4>1, <4>2 DEF Epochs, MapsGoOn
        <3> QED
            BY <3>1, <3>2, <3>4 DEF Ungreeted
    <2> QED
        BY <1>2, <2>1, <2>3, <2>4, <2>5, <2>6, TalliesKept
<1> QED
    BY <1>1, <1>4, <1>5, <1>6, NetMembers, TableAssumption DEF New

(* What a step in which nobody dies adds to the journals: an ETableClient  *)
(* is the answer to an ACK, and a COMMIT is in the table.                  *)
LEMMA LogMembers ==
    ASSUME TypeOK, Lives, NEW q \in Ranks, NEW x \in In(log'[q])
    PROVE  \/ x \in In(log[q])
           \/ x.type \notin {"ETableClient", "COMMIT", "ROLLBACK"}
           \/ /\ x.type = "ETableClient" /\ Receives(TableServer, q, "ACK")
              /\ x.tid = Head(net[TableServer][q]).tid
           \/ x.type = "COMMIT" /\ x.tid \in table'.snaps /\ x.version = table.version + 1
           \/ x.type = "ROLLBACK" /\ \E r \in Ranks : Decides(r, "ROLLBACK")
<1> DEFINE Goal ==
           \/ x \in In(log[q])
           \/ x.type \notin {"ETableClient", "COMMIT", "ROLLBACK"}
           \/ /\ x.type = "ETableClient" /\ Receives(TableServer, q, "ACK")
              /\ x.tid = Head(net[TableServer][q]).tid
           \/ x.type = "COMMIT" /\ x.tid \in table'.snaps /\ x.version = table.version + 1
           \/ x.type = "ROLLBACK" /\ \E r \in Ranks : Decides(r, "ROLLBACK")
<1>1. [Next]_vars /\ \A r \in Ranks : \A why : ~Dies(r, why)
    BY DEF Lives
<1>2. log \in [Ranks -> Seq(Entry)]
    BY DEF TypeOK
<1>3. ASSUME NEW r \in Ranks, NEW type, NEW tid, NEW mds, NEW reqid, NEW version,
             Submit(r, type, tid, mds, reqid, version)
      PROVE  \/ x \in In(log[q])
             \/ q = r /\ x.type = type /\ x.tid = tid /\ x.version = version
    <2>1. PICK y : y = [type |-> type, tid |-> tid, mds |-> mds, reqid |-> reqid,
                        version |-> version]
        OBVIOUS
    <2>2. log' = [log EXCEPT ![r] = Append(@, y)]
        BY <1>3, <2>1 DEF Submit
    <2>3. y.type = type /\ y.tid = tid /\ y.version = version
        BY <2>1
    <2> HIDE <2>1
    <2>4. log'[q] = log[q] \/ (q = r /\ log'[q] = Append(log[q], y))
        BY <1>2, <2>2
    <2>5. q = r /\ log'[q] = Append(log[q], y) => In(log'[q]) = In(log[q]) \cup {y}
        BY <1>2, InAppend
    <2> QED
        BY <2>3, <2>4, <2>5
<1>4. ASSUME UNCHANGED log PROVE Goal
    BY <1>4
<1>5. ASSUME NEW r \in Ranks, log[r] # <<>>, Journalled(r, Head(log[r])) PROVE Goal
    <2>1. log'[q] = log[q] \/ (q = r /\ log'[q] = Tail(log[q]))
        BY <1>2, <1>5 DEF Journalled
    <2> QED
        BY <1>2, <1>5, <2>1, InTail
<1>6. ASSUME NEW r \in Ranks, HandlePrepare(r) PROVE Goal
    BY <1>3, <1>6, TableAssumption DEF HandlePrepare, Update
<1>7. ASSUME NEW r \in Ranks, HandleCommit(r) PROVE Goal
    <2>1. UNCHANGED log \/ Update("COMMIT", Head(net[r][TableServer]).tid, r, 0)
        BY <1>1, <1>7, TableAssumption DEF HandleCommit
    <2>2. ASSUME Update("COMMIT", Head(net[r][TableServer]).tid, r, 0) PROVE Goal
        <3>1. Head(net[r][TableServer]).tid \in table'.snaps
            BY <2>2 DEF Update, Applied
        <3> QED
            BY <1>3, <2>2, <3>1, TableAssumption DEF Update
    <2> QED
        BY <1>4, <2>1, <2>2
<1>8. ASSUME NEW r \in Ranks, HandleRollback(r) PROVE Goal
    <2>1. Decides(r, "ROLLBACK")
        BY <1>1, <1>8, TableAssumption DEF HandleRollback, Decides
    <2> QED
        BY <1>3, <2>1, TableAssumption DEF Decides, Update
<1>9. CASE ServerUpdate
    BY <1>3, <1>9, TableAssumption DEF ServerUpdate, Update
<1>10. ASSUME NEW r \in Ranks, HandleAck(r) PROVE Goal
    <2>1. Receives(TableServer, r, "ACK")
        BY <1>10 DEF HandleAck
    <2>2. UNCHANGED log \/ Submit(r, "ETableClient", Head(net[TableServer][r]).tid, r, 0, 0)
        BY <1>10 DEF HandleAck
    <2> QED
        BY <1>3, <1>4, <2>1, <2>2
<1>11. ASSUME NEW r \in Ranks, Mksnap(r) PROVE Goal
    BY <1>1, <1>3, <1>11 DEF Mksnap
<1>12. ASSUME NEW r \in Ranks, TableLogged(r) \/ Commit(r) PROVE Goal
    BY <1>1, <1>5, <1>12 DEF TableLogged, Commit
<1>13. CASE (\E a, b \in Ranks : DropStale(a, b)) \/ Save \/ UNCHANGED vars
    BY <1>4, <1>13 DEF DropStale, Save, vars
<1>14. ASSUME NEW r \in Ranks, HandleAgree(r) \/ HandleServerReady(r) \/ Takeover(r)
                \/ MonActive(r) \/ HandleMdsMap(r) \/ Prepare(r) \/ Expire(r) \/ Fail(r)
       PROVE  UNCHANGED log
    BY <1>1, <1>14 DEF HandleAgree, HandleServerReady, Takeover, MonActive, HandleMdsMap,
                       Prepare, Expire, Fail
<1> QED
    BY <1>1, <1>4, <1>6, <1>7, <1>8, <1>9, <1>10, <1>11, <1>12, <1>13, <1>14 DEF Next, Progress

(* A commit is kept until it is acked.                                     *)
LEMMA CommitsKept ==
    ASSUME TypeOK, Lives, NEW q \in Ranks, NEW t \in client[q].commits
    PROVE  \/ t \in client'[q].commits
           \/ Receives(TableServer, q, "ACK") /\ t = Head(net[TableServer][q]).tid
<1>1. [Next]_vars /\ ~Restarts(q) /\ client[q] \in Client
    BY DEF Lives, Restarts, TypeOK
<1>2. CASE AckTaken(q)
    <2>1. client'[q].commits = client[q].commits \ {Head(net[TableServer][q]).tid}
        BY <1>1, <1>2 DEF AckTaken, Client
    <2> QED
        BY <1>2, <2>1 DEF AckTaken, HandleAck
<1>3. ASSUME client'[q] = client[q] \/ Accepts(q) \/ Journals(q) \/ Loses(q) \/ Commits(q)
      PROVE  t \in client'[q].commits
    BY <1>1, <1>3 DEF Accepts, Journals, Loses, Commits, Client
<1>4. ASSUME Asks(q) PROVE client'[q].commits = client[q].commits
    BY <1>1, <1>4 DEF Asks, Client
<1>5. ASSUME Readied(q) PROVE client'[q].commits = client[q].commits
    BY <1>1, <1>5 DEF Readied, Client
<1> QED
    BY <1>1, <1>2, <1>3, <1>4, <1>5, ClientChange

(* So is the update in the journal, until that has the ETableClient.       *)
LEMMA UpdatesKept ==
    ASSUME TypeOK, Lives, NEW q \in Ranks, NEW t \in client[q].commits \cap updates[q]
    PROVE  \/ t \in updates'[q]
           \/ \E x \in In(log[q]) : x.type = "ETableClient" /\ x.tid = t
<1> DEFINE Goal == \/ t \in updates'[q]
                   \/ \E x \in In(log[q]) : x.type = "ETableClient" /\ x.tid = t
<1>1. [Next]_vars /\ (\A r \in Ranks : \A why : ~Dies(r, why))
      /\ updates \in [Ranks -> SUBSET Nat] /\ log \in [Ranks -> Seq(Entry)]
    BY DEF Lives, TypeOK
<1>2. ASSUME NEW r \in Ranks, log[r] # <<>>, Journalled(r, Head(log[r])) PROVE Goal
    <2>1. CASE r # q
        BY <1>1, <1>2, <2>1 DEF Journalled
    <2>2. CASE r = q
        <3>1. Head(log[q]) = log[q][1] /\ 1 \in 1..Len(log[q])
            BY <1>1, <1>2, <2>2, EmptySeq, LenProperties
        <3>2. Head(log[q]) \in In(log[q])
            BY <3>1 DEF In
        <3>3. t \in updates'[q] \/ (Head(log[q]).type = "ETableClient" /\ Head(log[q]).tid = t)
            BY <1>1, <1>2, <2>2 DEF Journalled
        <3> QED
            BY <3>2, <3>3
    <2> QED
        BY <2>1, <2>2
<1>3. ASSUME NEW r \in Ranks, TableLogged(r) \/ Commit(r) PROVE Goal
    BY <1>1, <1>2, <1>3 DEF TableLogged, Commit
<1>4. ASSUME NEW r \in Ranks, Expire(r) PROVE Goal
    BY <1>1, <1>4 DEF Expire
<1>5. CASE (\E x, y \in Ranks : DropStale(x, y)) \/ Save \/ ServerUpdate \/ UNCHANGED vars
    BY <1>5 DEF DropStale, Save, ServerUpdate, vars
<1>6. ASSUME NEW r \in Ranks, HandlePrepare(r) \/ HandleCommit(r) \/ HandleRollback(r)
                              \/ HandleAgree(r) \/ HandleAck(r) \/ HandleServerReady(r)
      PROVE  UNCHANGED updates
    BY <1>6 DEF HandlePrepare, HandleCommit, HandleRollback, HandleAgree, HandleAck,
                HandleServerReady
<1>7. ASSUME NEW r \in Ranks, Mksnap(r) \/ Takeover(r) \/ MonActive(r) \/ HandleMdsMap(r)
                              \/ Prepare(r) \/ Fail(r)
      PROVE  UNCHANGED updates
    BY <1>7 DEF Mksnap, Takeover, MonActive, HandleMdsMap, Prepare, Fail, Dies
<1> QED
    BY <1>1, <1>3, <1>4, <1>5, <1>6, <1>7 DEF Next, Progress

(* What is done is in A, the snapshots, or its client goes on with it: A   *)
(* is the table in memory, or the one on disk.                             *)
LEMMA KeptChange ==
    ASSUME Sound, Lives, NEW A, NEW B, Kept(A), A \subseteq B,
           \A q \in Ranks : \A m \in In(net'[TableServer][q]) :
                New(TableServer, q, m) /\ m.op = "ACK" => m.tid \in B
    PROVE  Kept(B)'
<1>1. TypeOK /\ [Next]_vars
    BY LivesIs
<1>2. ASSUME NEW q \in Ranks, Receives(TableServer, q, "ACK")
      PROVE  Head(net[TableServer][q]).tid \in B
    BY <1>1, <1>2, HeadIn, TableAssumption DEF Kept
<1>3. ASSUME NEW t \in done'
      PROVE  t \in B \/ \E q \in Ranks : t \in client'[q].commits \cap updates'[q]
    <2>1. CASE t \in done
        <3>1. CASE t \in A
            BY <3>1
        <3>2. ASSUME NEW q \in Ranks, t \in client[q].commits \cap updates[q]
              PROVE  t \in B \/ t \in client'[q].commits \cap updates'[q]
            <4>1. t \in B \/ t \in client'[q].commits
                BY <1>1, <1>2, <3>2, CommitsKept
            <4>2. t \in B \/ t \in updates'[q]
                BY <1>1, <3>2, UpdatesKept DEF Kept
            <4> QED
                BY <4>1, <4>2
        <3> QED
            BY <2>1, <3>1, <3>2 DEF Kept
    <2>2. CASE t \notin done
        BY <1>1, <1>3, <2>2, NewlyDone
    <2> QED
        BY <2>1, <2>2
<1>4. ASSUME NEW q \in Ranks, NEW m \in In(net'[TableServer][q]), m.op = "ACK"
      PROVE  m.tid \in B
    BY <1>4, NetMembers, TableAssumption DEF Kept
<1>5. ASSUME NEW q \in Ranks, NEW x \in In(log'[q]), x.type = "ETableClient"
      PROVE  x.tid \in B
    BY <1>1, <1>2, <1>5, LogMembers DEF Kept
<1> QED
    BY <1>3, <1>4, <1>5 DEF Kept

LEMMA NextDecided == Goes => Decided'
<1> SUFFICES ASSUME Goes PROVE Decided'
    OBVIOUS
<1>1. /\ TypeOK /\ Epochs /\ Causal /\ Continues /\ Unique /\ [Next]_vars /\ Sound /\ Lives
      /\ Backed /\ Refusals /\ Decided
    BY GoesIs
<1>2. table.snaps \subseteq table'.snaps
    BY <1>1, TableGrows
<1>3. ASSUME NEW t \in done'
      PROVE  t \in table'.snaps \cup Tids(table'.pending)
    <2>1. CASE t \in done
        <3>1. CASE t \in table.snaps
            BY <1>2, <3>1
        <3>2. ASSUME NEW p \in table.pending, p.tid = t, p \notin table'.pending
              PROVE  t \in table'.snaps
            <4>1. ASSUME NEW r \in Ranks, Receives(r, TableServer, "ROLLBACK"),
                         t = Head(net[r][TableServer]).tid
                  PROVE  t \in table.snaps
                <5>1. Refused(t)
                    BY <1>1, <4>1, HeadIn, TableAssumption DEF Refusals
                <5> QED
                    BY <2>1, <5>1 DEF Refused
            <4> QED
                BY <1>1, <1>2, <3>2, <4>1, TableGrows
        <3> QED
            BY <1>1, <2>1, <3>1, <3>2 DEF Decided, Tids
    <2>2. CASE t \notin done
        <3>1. PICK q \in Ranks : t \in Tids(client[q].prepared)
            BY <1>1, <1>3, <2>2, NewlyDone
        <3>2. PICK p \in PreparedBy(q) : p.tid = t
            BY <1>1, <3>1, PreparedKnown
        <3>3. p \in table.pending /\ p.tid \notin done /\ ~Refused(p.tid)
            BY <1>1, <3>1, <3>2 DEF Backed, Refused
        <3> QED
            BY <1>1, <3>2, <3>3, PendingStays DEF Tids
    <2> QED
        BY <2>1, <2>2
<1>4. ASSUME NEW q \in Ranks, NEW m, New(TableServer, q, m), m.op = "ACK"
      PROVE  m.tid \in table'.snaps
    <2>1. CASE /\ TableLogged(TableServer) /\ Head(log[TableServer]).type = "COMMIT"
               /\ m.tid = Head(log[TableServer]).tid
        <3>1. Head(log[TableServer]) \in In(log[TableServer])
            BY <1>1, <2>1, LoggedStore DEF ClientEntry
        <3> QED
            BY <1>1, <1>2, <2>1, <3>1 DEF Decided
    <2>2. CASE /\ Receives(q, TableServer, "COMMIT") /\ m.tid = Head(net[q][TableServer]).tid
               /\ m.tid \notin Tids(table.pending)
        <3>1. Arrives(q, TableServer) /\ Head(net[q][TableServer]).op = "COMMIT"
            BY <2>2 DEF Receives
        <3>2. m.tid \in done
            BY <1>1, <2>2, <3>1, ArrivesJustified, TableAssumption DEF Justified
        <3> QED
            BY <1>1, <1>2, <2>2, <3>2 DEF Decided
    <2> QED
        BY <1>4, <2>1, <2>2 DEF New, Welcome
<1>5. PICK a : a = table.snaps
    OBVIOUS
<1>6. PICK b : b = table'.snaps
    OBVIOUS
<1>7. Kept(b)'
    <2>1. Kept(a) /\ a \subseteq b
        BY <1>1, <1>2, <1>5, <1>6 DEF Decided
    <2>2. \A q \in Ranks : \A m \in In(net'[TableServer][q]) :
                New(TableServer, q, m) /\ m.op = "ACK" => m.tid \in b
        BY <1>4, <1>6
    <2> HIDE <1>5, <1>6
    <2> QED
        BY <1>1, <2>1, <2>2, KeptChange
<1>8. Kept(table.snaps)'
    BY <1>6, <1>7 DEF Kept
<1>9. ASSUME NEW x \in In(log'[TableServer]), x.type = "COMMIT"
      PROVE  x.tid \in table'.snaps
    BY <1>1, <1>2, <1>9, LogMembers, TableAssumption DEF Decided
<1> QED
    BY <1>3, <1>8, <1>9 DEF Decided

-----------------------------------------------------------------------------
(* Before anybody has died.                                                *)
Early == Goes /\ Deaths = {} /\ Unbroken /\ OnRecord

LEMMA EarlyIs ==
    ASSUME Early
    PROVE  /\ TypeOK /\ Causal /\ Continues /\ Epochs /\ Unique /\ AnswersOnce
           /\ [Next]_vars /\ (\A r \in Ranks : \A why : ~Dies(r, why))
           /\ Goes /\ Sound /\ Lives /\ Backed /\ Reqids /\ Refusals /\ Decided
           /\ Unbroken /\ OnRecord
           /\ \A r \in Ranks : ~HandleMdsMap(r)
           /\ \A r \in Ranks : client[r].ready /\ ~Receives(r, TableServer, "ROLLBACK")
           /\ \A x, y \in Ranks : Sends(x, y)
<1>1. /\ TypeOK /\ Causal /\ Continues /\ Epochs /\ Unique /\ AnswersOnce
      /\ [Next]_vars /\ (\A r \in Ranks : \A why : ~Dies(r, why))
      /\ Goes /\ Sound /\ Lives /\ Backed /\ Reqids /\ Refusals /\ Decided
      /\ Unbroken /\ OnRecord
    BY GoesIs DEF Early
<1>2. Now = 1
    BY DEF Early, Goes, Victims
<1>3. ASSUME NEW r \in Ranks, HandleMdsMap(r) PROVE FALSE
    <2>1. epoch[r] + 1 \in 1..Now /\ epoch[r] \in 1..Now
        BY <1>1, <1>3, MapFlow, EpochType
    <2> QED
        BY <1>2, <2>1
<1>4. \A r \in Ranks : client[r].ready /\ ~Receives(r, TableServer, "ROLLBACK")
    BY <1>1, HeadIn, TableAssumption DEF Unbroken
<1> QED
    BY <1>1, <1>3, <1>4, AllSends

LEMMA OnceTail ==
    ASSUME NEW c \in Seq(Message), c # <<>>, CommitsOnce(c)
    PROVE  CommitsOnce(Tail(c))
<1>1. Len(c) \in Nat /\ Len(Tail(c)) = Len(c) - 1 /\ Len(c) >= 1
      /\ \A i \in 1..Len(Tail(c)) : Tail(c)[i] = c[i + 1]
    BY EmptySeq, LenProperties, HeadTailProperties
<1>2. \A i \in 1..Len(Tail(c)) : i + 1 \in 1..Len(c)
    BY <1>1
<1>3. \A i, j \in 1..Len(Tail(c)) : i + 1 = j + 1 => i = j
    BY <1>1
<1> QED
    BY <1>1, <1>2, <1>3 DEF CommitsOnce

LEMMA OnceConcat ==
    ASSUME NEW c \in Seq(Message), NEW s \in Seq(Message), Len(s) <= 1, CommitsOnce(c),
           \A m \in In(s), k \in In(c) : m.op = "COMMIT" /\ k.op = "COMMIT" => m.tid # k.tid
    PROVE  CommitsOnce(c \o s)
<1>1. Len(c) \in Nat /\ Len(s) \in Nat /\ Len(c \o s) = Len(c) + Len(s)
    BY ConcatProperties, LenProperties
<1>2. \A i \in 1..Len(c \o s) : (c \o s)[i] = IF i <= Len(c) THEN c[i] ELSE s[i - Len(c)]
    BY ConcatProperties
<1> SUFFICES ASSUME NEW i \in 1..Len(c \o s), NEW j \in 1..Len(c \o s),
                    (c \o s)[i].op = "COMMIT", (c \o s)[j].op = "COMMIT",
                    (c \o s)[i].tid = (c \o s)[j].tid
             PROVE  i = j
    BY DEF CommitsOnce
<1>3. ASSUME NEW k \in 1..Len(c \o s)
      PROVE  \/ k \in 1..Len(c) /\ (c \o s)[k] = c[k] /\ c[k] \in In(c)
             \/ k = Len(c) + 1 /\ (c \o s)[k] \in In(s)
    <2>1. CASE k <= Len(c)
        <3>1. k \in 1..Len(c)
            BY <1>1, <2>1
        <3> QED
            BY <1>2, <2>1, <3>1 DEF In
    <2>2. CASE ~(k <= Len(c))
        <3>1. k - Len(c) \in 1..Len(s) /\ k = Len(c) + 1
            BY <1>1, <2>2
        <3> QED
            BY <1>2, <2>2, <3>1 DEF In
    <2> QED
        BY <2>1, <2>2
<1>4. \/ i \in 1..Len(c) /\ (c \o s)[i] = c[i] /\ c[i] \in In(c)
      \/ i = Len(c) + 1 /\ (c \o s)[i] \in In(s)
    BY <1>3
<1>5. \/ j \in 1..Len(c) /\ (c \o s)[j] = c[j] /\ c[j] \in In(c)
      \/ j = Len(c) + 1 /\ (c \o s)[j] \in In(s)
    BY <1>3
<1> QED
    BY <1>4, <1>5 DEF CommitsOnce

LEMMA InHeadTail ==
    ASSUME NEW M, NEW s \in Seq(M), s # <<>>, NEW x \in In(s)
    PROVE  x = Head(s) \/ x \in In(Tail(s))
<1>1. PICK i \in 1..Len(s) : x = s[i]
    BY DEF In
<1>2. Len(s) \in Nat /\ Len(Tail(s)) = Len(s) - 1 /\ Head(s) = s[1]
      /\ \A j \in 1..Len(Tail(s)) : Tail(s)[j] = s[j + 1]
    BY EmptySeq, LenProperties, HeadTailProperties
<1>3. CASE i = 1
    BY <1>1, <1>2, <1>3
<1>4. CASE i # 1
    <2>1. i - 1 \in 1..Len(Tail(s)) /\ (i - 1) + 1 = i
        BY <1>1, <1>2, <1>4
    <2>2. Tail(s)[i - 1] = x
        BY <1>1, <1>2, <2>1
    <2> QED
        BY <2>1, <2>2 DEF In
<1> QED
    BY <1>3, <1>4

(* Before the first death a client tells the server to commit what it has  *)
(* prepared, once; nothing is sent again and nothing is rolled back.       *)
LEMMA NextUnbroken == Early => Unbroken'
<1> SUFFICES ASSUME Early PROVE Unbroken'
    OBVIOUS
<1>1. /\ TypeOK /\ Causal /\ Continues /\ Epochs /\ Unique /\ [Next]_vars /\ Sound /\ Lives
      /\ Backed /\ Decided /\ Unbroken /\ Refusals
      /\ \A r \in Ranks : ~HandleMdsMap(r)
      /\ \A r \in Ranks : client[r].ready /\ ~Receives(r, TableServer, "ROLLBACK")
      /\ \A x, y \in Ranks : Sends(x, y)
    BY EarlyIs
<1>2. ASSUME NEW q \in Ranks PROVE client'[q].ready
    <2>1. client[q] \in Client /\ client[q].ready /\ ~Restarts(q) /\ ~Loses(q)
        BY <1>1, LivesIs DEF TypeOK, Loses
    <2>2. ASSUME client'[q] = client[q] \/ Accepts(q) \/ AckTaken(q) \/ Journals(q) \/ Commits(q)
          PROVE  client'[q].ready
        BY <2>1, <2>2 DEF Accepts, AckTaken, Journals, Commits, Client
    <2>3. ASSUME Asks(q) PROVE client'[q].ready
        BY <2>1, <2>3 DEF Asks, Client
    <2>4. ~Readied(q)
        BY <2>1 DEF Readied
    <2> QED
        BY <1>1, <2>1, <2>2, <2>3, <2>4, ClientChange
<1>3. ASSUME NEW q \in Ranks, NEW m, New(q, TableServer, m)
      PROVE  /\ m.op # "ROLLBACK"
             /\ m.op = "COMMIT" => /\ m.tid \notin done
                                   /\ \E p \in table'.pending : p.tid = m.tid /\ p.mds = q
    <2>1. ~Readied(q) /\ \A t : ~Refuses(q, t)
        BY <1>1 DEF Readied, Refuses
    <2>2. m.op # "ROLLBACK"
        BY <1>1, <1>3, <2>1 DEF New, Welcome
    <2>3. ASSUME m.op = "COMMIT"
          PROVE  m.tid \notin done /\ \E p \in table'.pending : p.tid = m.tid /\ p.mds = q
        <3>1. m.tid \in Tids(client[q].prepared)
            BY <1>1, <1>3, <2>1, <2>3 DEF New, Welcome, Commits
        <3>2. PICK p \in PreparedBy(q) : p.tid = m.tid /\ p.mds = q
            BY <1>1, <3>1, PreparedKnown
        <3>3. p \in table.pending /\ p.tid \notin done /\ ~Refused(p.tid)
            BY <1>1, <3>1, <3>2 DEF Backed, Refused
        <3>4. p \in table'.pending
            BY <1>1, <3>3, PendingStays
        <3> QED
            BY <3>2, <3>3, <3>4
    <2> QED
        BY <2>2, <2>3
<1>4. ASSUME NEW q \in Ranks, NEW m \in In(net'[q][TableServer]),
             m \in In(net[q][TableServer]), m.op = "COMMIT"
      PROVE  \E p \in table'.pending : p.tid = m.tid /\ p.mds = q
    <2>1. PICK p \in table.pending : p.tid = m.tid /\ p.mds = q
        BY <1>1, <1>4 DEF Unbroken
    <2>2. CASE UNCHANGED table
        BY <2>1, <2>2
    <2>3. ASSUME NEW r \in Ranks, HandlePrepare(r) PROVE p \in table'.pending
        BY <2>3 DEF HandlePrepare, Update, Applied
    <2>4. ASSUME ServerUpdate PROVE p \in table'.pending
        BY <2>4 DEF ServerUpdate, Update, Applied
    <2>5. ASSUME NEW r \in Ranks, Decides(r, "COMMIT") PROVE p \in table'.pending
        <3> DEFINE h == Head(net[r][TableServer])
        <3>1. /\ Receives(r, TableServer, "COMMIT") /\ net' = Taken(r, TableServer)
              /\ table'.pending = {x \in table.pending : x.tid # h.tid}
            BY <2>5 DEF Decides, Update, Applied
        <3>2. SUFFICES ASSUME p.tid = h.tid PROVE FALSE
            BY <3>1
        <3>3. PICK x \in table.pending : x.tid = h.tid /\ x.mds = r
            BY <1>1, <3>1, HeadIn, TableAssumption DEF Unbroken
        <3>4. x = p
            BY <1>1, <3>2, <3>3 DEF Unique, Single, Known
        <3>5. r = q
            BY <2>1, <3>3, <3>4
        <3>6. PICK c \in Seq(Message) : c = net[q][TableServer]
            BY <1>1, TableAssumption DEF TypeOK, Channels
        <3>7. c # <<>> /\ net'[q][TableServer] = Tail(c)
            BY <1>1, <3>1, <3>5, <3>6, TableAssumption
               DEF Receives, Arrives, Taken, TypeOK, Channels
        <3>8. PICK i \in 1..Len(Tail(c)) : m = Tail(c)[i]
            BY <1>4, <3>7 DEF In
        <3>9. /\ Len(c) \in Nat /\ Len(Tail(c)) = Len(c) - 1 /\ Head(c) = c[1]
              /\ Tail(c)[i] = c[i + 1]
            BY <3>7, <3>8, EmptySeq, LenProperties, HeadTailProperties
        <3>10. i + 1 \in 1..Len(c) /\ 1 \in 1..Len(c) /\ i + 1 # 1
            BY <3>8, <3>9
        <3>11. c[1] = h /\ h.op = "COMMIT" /\ c[i + 1] = m /\ m.tid = h.tid
            BY <2>1, <3>1, <3>2, <3>5, <3>6, <3>8, <3>9 DEF Receives
        <3>12. CommitsOnce(c)
            BY <1>1, <3>6 DEF Unbroken
        <3> QED
            BY <1>4, <3>10, <3>11, <3>12 DEF CommitsOnce
    <2>6. \A r \in Ranks : ~Decides(r, "ROLLBACK")
        BY <1>1 DEF Decides
    <2> QED
        BY <1>1, <2>1, <2>2, <2>3, <2>4, <2>5, <2>6, TableSteps
<1>5. ASSUME NEW q \in Ranks, NEW m \in In(net'[q][TableServer])
      PROVE  /\ m.op # "ROLLBACK"
             /\ m.op = "COMMIT" => \E p \in table'.pending : p.tid = m.tid /\ p.mds = q
    BY <1>1, <1>3, <1>4, <1>5, NetMembers, TableAssumption DEF Unbroken
<1>6. ASSUME NEW q \in Ranks PROVE CommitsOnce(net'[q][TableServer])
    <2>1. PICK c \in Seq(Message) : c = net[q][TableServer]
        BY <1>1, TableAssumption DEF TypeOK, Channels
    <2>2. PICK d : d = net'[q][TableServer]
        OBVIOUS
    <2>3. PICK s \in Seq(Message) : /\ Shift(c, d, s) /\ Len(s) <= 1
                                    /\ \A m \in In(s) : New(q, TableServer, m)
        BY <1>1, <2>1, <2>2, TableAssumption DEF Sends
    <2>4. \A k \in In(c) : k.op = "COMMIT" => k.tid \in done
        <3>1. c \in Seq(Justified(done))
            BY <1>1, <2>1, TableAssumption DEF Causal, ChannelsOf
        <3> QED
            BY <3>1, InType DEF Justified
    <2>5. \A m \in In(s), k \in In(c) : m.op = "COMMIT" /\ k.op = "COMMIT" => m.tid # k.tid
        BY <1>3, <2>3, <2>4
    <2>6. CommitsOnce(c)
        BY <1>1, <2>1 DEF Unbroken
    <2>7. CommitsOnce(c \o s)
        BY <2>3, <2>5, <2>6, OnceConcat
    <2>8. c # <<>> => CommitsOnce(Tail(c)) /\ CommitsOnce(Tail(c) \o s)
        <3> SUFFICES ASSUME c # <<>> PROVE CommitsOnce(Tail(c)) /\ CommitsOnce(Tail(c) \o s)
            OBVIOUS
        <3>1. CommitsOnce(Tail(c)) /\ Tail(c) \in Seq(Message) /\ In(Tail(c)) \subseteq In(c)
            BY <2>6, OnceTail, HeadTailProperties, InTail
        <3>2. PICK b \in Seq(Message) : b = Tail(c)
            BY <3>1
        <3>3. CommitsOnce(b) /\ In(b) \subseteq In(c)
            BY <3>1, <3>2
        <3>4. \A m \in In(s), k \in In(b) : m.op = "COMMIT" /\ k.op = "COMMIT" => m.tid # k.tid
            BY <2>5, <3>3
        <3>5. CommitsOnce(b \o s)
            BY <2>3, <3>3, <3>4, OnceConcat
        <3> QED
            BY <3>1, <3>2, <3>5
    <2> QED
        BY <2>2, <2>3, <2>6, <2>7, <2>8 DEF Shift
<1>7. ASSUME NEW q \in Ranks, NEW m \in In(net'[TableServer][q]) PROVE ~Salute(m)
    <2>1. CASE m \in In(net[TableServer][q])
        BY <1>1, <2>1 DEF Unbroken
    <2>2. CASE New(TableServer, q, m)
        BY <1>1, <2>2, TableAssumption DEF New, Salute
    <2> QED
        BY <1>1, <1>7, <2>1, <2>2, NetMembers, TableAssumption
<1> QED
    BY <1>2, <1>5, <1>6, <1>7 DEF Unbroken

(* A preparation leaves the journal of the server when it is safe.         *)
LEMMA LoggedKept ==
    ASSUME TypeOK, Lives, NEW p \in Logged
    PROVE  \/ p \in Logged'
           \/ /\ TableLogged(TableServer) /\ p = Request(Head(log[TableServer]))
              /\ Head(log[TableServer]).type = "PREPARE"
<1> USE TableAssumption
<1>1. [Next]_vars /\ (\A r \in Ranks : \A why : ~Dies(r, why)) /\ log \in [Ranks -> Seq(Entry)]
    BY DEF Lives, TypeOK
<1>2. PICK x \in In(log[TableServer]) : x.type = "PREPARE" /\ p = Request(x)
    BY DEF Logged
<1>3. SUFFICES x \in In(log'[TableServer]) \/ (TableLogged(TableServer) /\ x = Head(log[TableServer]))
    BY <1>2 DEF Logged
<1>4. ASSUME NEW r \in Ranks, NEW type, NEW tid, NEW mds, NEW reqid, NEW version,
             Submit(r, type, tid, mds, reqid, version)
      PROVE  x \in In(log'[TableServer])
    <2>1. PICK y : log' = [log EXCEPT ![r] = Append(@, y)]
        BY <1>4 DEF Submit
    <2>2. \/ log'[TableServer] = log[TableServer]
          \/ log'[TableServer] = Append(log[TableServer], y)
        BY <1>1, <2>1
    <2> QED
        BY <1>1, <1>2, <2>2, InAppend
<1>5. ASSUME NEW r \in Ranks, log[r] # <<>>, Journalled(r, Head(log[r]))
      PROVE  x \in In(log'[TableServer]) \/ (r = TableServer /\ x = Head(log[r]))
    <2>1. \/ log'[TableServer] = log[TableServer]
          \/ r = TableServer /\ log'[TableServer] = Tail(log[TableServer])
        BY <1>1, <1>5 DEF Journalled
    <2> QED
        BY <1>1, <1>2, <1>5, <2>1, InHeadTail
<1>6. ASSUME NEW r \in Ranks, HandlePrepare(r) \/ HandleCommit(r) \/ HandleRollback(r)
                              \/ HandleAck(r) \/ Mksnap(r)
      PROVE  x \in In(log'[TableServer])
    BY <1>1, <1>2, <1>4, <1>6
       DEF HandlePrepare, HandleCommit, HandleRollback, HandleAck, Mksnap, Update
<1>7. ASSUME NEW r \in Ranks, TableLogged(r)
      PROVE  x \in In(log'[TableServer]) \/ (TableLogged(TableServer) /\ x = Head(log[TableServer]))
    BY <1>5, <1>7 DEF TableLogged
<1>8. ASSUME NEW r \in Ranks, Commit(r)
      PROVE  x \in In(log'[TableServer])
    BY <1>1, <1>2, <1>5, <1>8 DEF Commit
<1>9. CASE ServerUpdate
    BY <1>4, <1>9 DEF ServerUpdate, Update
<1>10. CASE (\E a, b \in Ranks : DropStale(a, b)) \/ Save \/ UNCHANGED vars
    BY <1>2, <1>10 DEF DropStale, Save, vars
<1>11. ASSUME NEW r \in Ranks, HandleAgree(r) \/ HandleServerReady(r) \/ Takeover(r)
                \/ MonActive(r) \/ HandleMdsMap(r) \/ Prepare(r) \/ Expire(r) \/ Fail(r)
       PROVE  UNCHANGED log
    BY <1>1, <1>11 DEF HandleAgree, HandleServerReady, Takeover, MonActive, HandleMdsMap,
                       Prepare, Expire, Fail
<1> QED
    BY <1>1, <1>2, <1>6, <1>7, <1>8, <1>9, <1>10, <1>11 DEF Next, Progress

(* An entry of the server becomes safe: the table on disk has it already,  *)
(* or takes it in; the entries after it are of later versions.             *)
LEMMA DiskStep ==
    ASSUME TypeOK, Continues, TableLogged(TableServer),
           Head(log[TableServer]).type \notin ClientEntry
    PROVE  LET h == Head(log[TableServer])
           IN  /\ h \in Entry /\ h \in In(log[TableServer]) /\ UNCHANGED <<table, client, done>>
               /\ In(log'[TableServer]) \subseteq In(log[TableServer])
               /\ \/ h.version <= disk.version /\ disk' = disk
                  \/ /\ h.version = disk.version + 1
                     /\ disk' = Applied(disk, h.type, h.tid, h.mds, h.reqid)
               /\ \A x \in In(log'[TableServer]) :
                    x.type \notin ClientEntry => x.version > h.version
<1> USE TableAssumption
<1>1. PICK L \in Seq(RoleEntry(TableServer)) : L = log[TableServer]
    BY DEF Continues
<1>2. RoleEntry(TableServer) \subseteq Entry
    BY DEF RoleEntry
<1>3. L \in Seq(Entry) /\ L # <<>> /\ disk.version \in Nat /\ table.version \in Nat
      /\ Ordered(L, disk.version, table.version)
    BY <1>1, <1>2, SeqMono, LogType DEF TableLogged, Continues
<1>4. PICK h : h = Head(L)
    OBVIOUS
<1>5. /\ h \in RoleEntry(TableServer) /\ h = L[1] /\ Len(L) \in Nat /\ Len(L) >= 1
      /\ Len(Tail(L)) = Len(L) - 1
      /\ \A j \in 1..Len(Tail(L)) : Tail(L)[j] = L[j + 1]
    BY <1>1, <1>3, <1>4, EmptySeq, LenProperties, HeadTailProperties
<1>6. h.type \notin ClientEntry /\ h.version > 0 /\ h \in Entry
    BY <1>1, <1>4, <1>5 DEF RoleEntry
<1>7. 1 \in 1..Len(L) /\ h \in In(L)
    BY <1>5 DEF In
<1>8. h.version <= disk.version \/ h.version = disk.version + 1
    <2>1. h.version \in Nat
        BY <1>6 DEF Entry
    <2> QED
        BY <1>3, <1>4, <2>1, OrderedTail
<1>9. Journalled(TableServer, h) /\ UNCHANGED <<table, client, done>>
    <2>1. Journalled(TableServer, h) /\ UNCHANGED <<table, client>>
        BY <1>1, <1>4 DEF TableLogged
    <2> QED
        BY <1>6, <2>1 DEF Journalled, ClientEntry
<1>10. log'[TableServer] = Tail(L)
    BY <1>1, <1>9 DEF Journalled, TypeOK
<1>11. disk' = Replayed(disk, h)
    BY <1>6, <1>9 DEF Journalled, ClientEntry
<1>12. \/ h.version <= disk.version /\ disk' = disk
       \/ /\ h.version = disk.version + 1
          /\ disk' = Applied(disk, h.type, h.tid, h.mds, h.reqid)
    <2>1. h.version = disk.version + 1 => ~(h.version <= disk.version)
        BY <1>3
    <2> QED
        BY <1>8, <1>11, <2>1 DEF Replayed
<1>13. ASSUME NEW x \in In(Tail(L)), x.type \notin ClientEntry PROVE x.version > h.version
    <2>1. PICK j \in 1..Len(Tail(L)) : x = Tail(L)[j]
        BY <1>13 DEF In
    <2>2. j + 1 \in 1..Len(L) /\ x = L[j + 1] /\ 1 < j + 1
        BY <1>5, <2>1
    <2>3. x \in RoleEntry(TableServer)
        BY <1>1, <2>2
    <2>4. x.version > 0 /\ x.version \in Nat /\ h.version \in Nat
        BY <1>6, <1>13, <2>3 DEF RoleEntry, Entry
    <2>5. L[1].version < L[j + 1].version
        BY <1>3, <1>5, <1>6, <1>7, <2>2, <2>4 DEF Ordered
    <2> QED
        BY <1>5, <2>2, <2>4, <2>5
<1>14. In(Tail(L)) \subseteq In(L)
    BY <1>3, InTail
<1> QED
    BY <1>1, <1>4, <1>6, <1>7, <1>9, <1>10, <1>12, <1>13, <1>14

(* The table on disk when nobody dies: as it was, saved, or with one entry *)
(* of the journal more.                                                    *)
LEMMA DiskSteps ==
    ASSUME TypeOK, Continues, Epochs, Lives
    PROVE  \/ disk' = disk
           \/ Save
           \/ TableLogged(TableServer) /\ Head(log[TableServer]).type \notin ClientEntry
<1>1. [Next]_vars /\ \A why : ~Dies(TableServer, why)
    BY TableAssumption DEF Lives
<1>2. ASSUME Rests PROVE disk' = disk
    BY <1>2 DEF Rests
<1>3. ASSUME NEW type, NEW tid, NEW mds, NEW reqid, Updates(type, tid, mds, reqid)
      PROVE  disk' = disk
    BY <1>3 DEF Updates
<1> QED
    BY <1>1, <1>2, <1>3, StoreChange

(* What is on record: the commits up to the version on disk, and the tids  *)
(* of the table in memory, or the journal has them still to come.          *)
Recorded ==
    /\ disk.snaps \subseteq disk'.snaps /\ disk'.snaps \subseteq table'.snaps
    /\ \A x \in In(log'[TableServer]) :
            x.type = "COMMIT" /\ x.version <= disk'.version => x.tid \in disk'.snaps
    /\ \A t \in Gathered(table)' :
            t \in Gathered(disk)' \/ (t > disk'.version /\ t \in Tids(Logged'))
    /\ \A p \in disk'.pending : p \in disk.pending \/ p \in Live

LEMMA RecordedStill ==
    ASSUME Early, disk' = disk
    PROVE  Recorded
<1>1. TypeOK /\ Continues /\ Lives /\ OnRecord
    BY EarlyIs
<1>2. disk.version \in Nat /\ table.version \in Nat /\ disk.version <= table.version
    BY <1>1, LogType DEF Continues, Ordered
<1>3. disk'.snaps \subseteq table'.snaps
    BY <1>1, TableGrows DEF OnRecord
<1>4. ASSUME NEW x \in In(log'[TableServer]), x.type = "COMMIT", x.version <= disk.version
      PROVE  x.tid \in disk.snaps
    <2>1. CASE x.version = table.version + 1
        BY <1>2, <1>4, <2>1
    <2>2. CASE x \in In(log[TableServer])
        BY <1>1, <1>4, <2>2 DEF OnRecord
    <2> QED
        BY <1>1, <1>4, <2>1, <2>2, LogMembers, TableAssumption
<1>5. ASSUME NEW p \in Logged
      PROVE  p \in Logged' \/ (p.tid <= disk.version)
    <2> SUFFICES ASSUME TableLogged(TableServer), Head(log[TableServer]).type = "PREPARE",
                        p = Request(Head(log[TableServer]))
                 PROVE  p.tid <= disk.version
        BY <1>1, LoggedKept
    <2>1. PICK h : h = Head(log[TableServer])
        OBVIOUS
    <2>2. h.type = "PREPARE" /\ h \in In(log[TableServer]) /\ h \in Entry
        BY <1>1, <2>1, DiskStep DEF ClientEntry
    <2>3. \/ h.version <= disk.version
          \/ h.version = disk.version + 1 /\ disk' = Applied(disk, h.type, h.tid, h.mds, h.reqid)
        BY <1>1, <2>1, <2>2, DiskStep DEF ClientEntry
    <2>4. disk' = Applied(disk, h.type, h.tid, h.mds, h.reqid) => disk'.version = disk.version + 1
        BY DEF Applied
    <2>5. h.version <= disk.version
        BY <1>2, <2>3, <2>4
    <2>6. h.tid = h.version
        BY <1>1, <2>2, EarlyIs DEF Unique, Numbered
    <2> QED
        BY <2>1, <2>5, <2>6 DEF Request
<1>6. ASSUME NEW t \in Gathered(table)'
      PROVE  t \in Gathered(disk) \/ (t > disk.version /\ t \in Tids(Logged'))
    <2>1. CASE t \in Gathered(table)
        <3>1. t \in Gathered(disk) \/ (t > disk.version /\ t \in Tids(Logged))
            BY <1>1, <2>1 DEF OnRecord
        <3>2. ASSUME t > disk.version, NEW p \in Logged, p.tid = t
              PROVE  p \in Logged'
            <4>1. t \in Nat
                BY <1>1, <3>2, KnownType DEF Known, Pending
            <4> QED
                BY <1>2, <1>5, <3>2, <4>1
        <3> QED
            BY <3>1, <3>2 DEF Tids
    <2>2. ASSUME NEW p, Novel(p), p.tid = t
          PROVE  t > disk.version /\ t \in Tids(Logged')
        <3>1. p \in Logged' /\ p.tid = table.version + 1
            BY <1>1, <2>2, PrepareStore
        <3> QED
            BY <1>2, <2>2, <3>1 DEF Tids
    <2> QED
        BY <1>1, <1>6, <2>1, <2>2, TableGrows
<1>7. Gathered(disk)' = Gathered(disk)
    BY DEF Gathered
<1> QED
    BY <1>3, <1>4, <1>6, <1>7 DEF Recorded

LEMMA RecordedSave ==
    ASSUME Early, Save
    PROVE  Recorded
<1>1. OnRecord /\ Decided
    BY EarlyIs
<1>2. disk' = table /\ table' = table /\ log' = log
    BY DEF Save
<1>3. Gathered(table)' = Gathered(disk)'
    BY <1>2 DEF Gathered
<1> QED
    BY <1>1, <1>2, <1>3 DEF Recorded, OnRecord, Decided, Live

LEMMA RecordedLogged ==
    ASSUME Early, TableLogged(TableServer), Head(log[TableServer]).type \notin ClientEntry
    PROVE  Recorded
<1>1. TypeOK /\ Continues /\ Unique /\ Lives /\ OnRecord /\ Decided
    BY EarlyIs
<1>2. CASE disk' = disk
    BY <1>2, RecordedStill
<1>3. CASE disk' # disk
    <2>1. PICK h : h = Head(log[TableServer])
        OBVIOUS
    <2>2. /\ h \in Entry /\ h \in In(log[TableServer]) /\ UNCHANGED <<table, client, done>>
          /\ In(log'[TableServer]) \subseteq In(log[TableServer])
          /\ h.version = disk.version + 1
          /\ disk' = Applied(disk, h.type, h.tid, h.mds, h.reqid)
          /\ \A x \in In(log'[TableServer]) : x.type \notin ClientEntry => x.version > h.version
        BY <1>1, <1>3, <2>1, DiskStep
    <2>3. h.type \in {"PREPARE", "COMMIT", "SERVER_UPDATE"}
        BY <1>1, <2>1, <2>2 DEF OnRecord, Entry, ClientEntry
    <2>4. /\ disk'.version = disk.version + 1
          /\ disk'.snaps = IF h.type = "COMMIT" THEN disk.snaps \cup {h.tid} ELSE disk.snaps
          /\ h.type = "PREPARE" => disk'.pending = disk.pending \cup {Request(h)}
          /\ h.type = "COMMIT" => disk'.pending = {p \in disk.pending : p.tid # h.tid}
          /\ h.type = "SERVER_UPDATE" => disk'.pending = disk.pending
        BY <2>2 DEF Applied, Request
    <2>5. disk.version \in Nat /\ h.version \in Nat /\ h.tid \in Nat
        BY <1>1, <2>2, LogType DEF Entry
    <2>6. disk.snaps \subseteq disk'.snaps
        BY <2>4
    <2>7. disk'.snaps \subseteq table'.snaps
        <3>1. h.type = "COMMIT" => h.tid \in table.snaps
            BY <1>1, <2>2 DEF Decided
        <3> QED
            BY <1>1, <2>2, <2>4, <3>1 DEF OnRecord
    <2>8. ASSUME NEW x \in In(log'[TableServer]), x.type = "COMMIT", x.version <= disk'.version
          PROVE  FALSE
        <3>1. x.version > disk.version + 1
            BY <2>2, <2>8 DEF ClientEntry
        <3>2. x \in Entry
            <4>1. log[TableServer] \in Seq(Entry) /\ x \in In(log[TableServer])
                BY <1>1, <2>2, <2>8, LogType
            <4> QED
                BY <4>1, InType
        <3>3. x.version \in Nat
            BY <3>2 DEF Entry
        <3> QED
            BY <2>4, <2>5, <2>8, <3>1, <3>3
    <2>9. ASSUME NEW t \in Gathered(table)'
          PROVE  t \in Gathered(disk)' \/ (t > disk'.version /\ t \in Tids(Logged'))
        <3>1. t \in Gathered(table)
            BY <2>2, <2>9 DEF Gathered
        <3>2. CASE t \in Gathered(disk)
            <4>1. Gathered(disk) \subseteq Gathered(disk)'
                BY <2>3, <2>4 DEF Gathered, Tids
            <4> QED
                BY <3>2, <4>1
        <3>3. ASSUME t > disk.version, NEW p \in Logged, p.tid = t
              PROVE  t \in Gathered(disk)' \/ (t > disk'.version /\ t \in Tids(Logged'))
            <4>1. CASE p = Request(h) /\ h.type = "PREPARE"
                <5>1. p \in disk'.pending
                    BY <2>4, <4>1
                <5> QED
                    BY <3>3, <5>1 DEF Gathered, Tids
            <4>2. CASE p \in Logged'
                <5>1. PICK x \in In(log'[TableServer]) : x.type = "PREPARE" /\ p = Request(x)
                    BY <4>2 DEF Logged
                <5>2. x.version > disk.version + 1 /\ x.tid = x.version
                    BY <1>1, <2>2, <5>1 DEF ClientEntry, Unique, Numbered
                <5>3. t = x.version
                    BY <3>3, <5>1, <5>2 DEF Request
                <5> QED
                    BY <2>4, <3>3, <4>2, <5>2, <5>3 DEF Tids
            <4> QED
                BY <1>1, <2>1, <3>3, <4>1, <4>2, LoggedKept
        <3> QED
            BY <1>1, <3>1, <3>2, <3>3 DEF OnRecord, Tids
    <2>10. ASSUME NEW p \in disk'.pending PROVE p \in disk.pending \/ p \in Live
        <3>1. h.type = "PREPARE" => Request(h) \in Logged
            BY <2>2 DEF Logged
        <3> QED
            BY <2>3, <2>4, <2>10, <3>1 DEF Live
    <2> QED
        BY <2>6, <2>7, <2>8, <2>9, <2>10 DEF Recorded
<1> QED
    BY <1>2, <1>3

LEMMA AlwaysRecorded ==
    ASSUME Early
    PROVE  Recorded
    BY EarlyIs, DiskSteps, RecordedStill, RecordedSave, RecordedLogged

LEMMA NextOnRecord == Early => OnRecord'
<1> SUFFICES ASSUME Early PROVE OnRecord'
    OBVIOUS
<1>1. /\ TypeOK /\ Causal /\ Continues /\ Epochs /\ Unique /\ [Next]_vars /\ Goes /\ Sound /\ Lives
      /\ Backed /\ Reqids /\ Refusals /\ Decided /\ Unbroken /\ OnRecord /\ Recorded
      /\ \A r \in Ranks : ~HandleMdsMap(r)
      /\ \A r \in Ranks : ~Receives(r, TableServer, "ROLLBACK")
    BY EarlyIs, AlwaysRecorded
<1>2. ASSUME NEW x \in In(log'[TableServer]), x.type = "ROLLBACK" PROVE FALSE
    BY <1>1, <1>2, LogMembers, TableAssumption DEF OnRecord, Decides
<1>3. ASSUME NEW p \in Logged' PROVE p \in table'.pending
    <2>1. CASE Novel(p)
        BY <1>1, <2>1, PrepareStore
    <2>2. CASE p \in Logged
        <3>1. p \in table.pending /\ p.tid \notin done
            BY <1>1, <2>2 DEF OnRecord, Backed
        <3>2. ASSUME NEW r \in Ranks, Receives(r, TableServer, "COMMIT"),
                     p.tid = Head(net[r][TableServer]).tid
              PROVE  FALSE
            <4>1. Arrives(r, TableServer) /\ Head(net[r][TableServer]).op = "COMMIT"
                BY <3>2 DEF Receives
            <4> QED
                BY <1>1, <3>1, <3>2, <4>1, ArrivesJustified, TableAssumption DEF Justified
        <3> QED
            BY <1>1, <3>1, <3>2, TableGrows
    <2> QED
        BY <1>1, <1>3, <2>1, <2>2, LiveChange
<1>4. ASSUME NEW p \in disk'.pending PROVE Fresh(p)'
    <2>1. CASE p \in Live
        BY <2>1, <1>1, GoesIs
    <2>2. CASE p \in disk.pending
        <3>1. p \in Known /\ Fresh(p)
            BY <1>1, <2>2 DEF Known, Claims, OnRecord
        <3> QED
            BY <1>1, <3>1, FreshKept, TableAssumption
    <2> QED
        BY <1>1, <1>4, <2>1, <2>2 DEF Recorded
<1>5. ASSUME NEW q \in Ranks, NEW m, New(TableServer, q, m), m.op = "ACK"
      PROVE  m.tid \in disk'.snaps
    <2>1. CASE /\ TableLogged(TableServer) /\ Head(log[TableServer]).type = "COMMIT"
               /\ m.tid = Head(log[TableServer]).tid
        <3>1. PICK h : h = Head(log[TableServer])
            OBVIOUS
        <3>2. /\ h \in In(log[TableServer]) /\ h.type = "COMMIT" /\ m.tid = h.tid
              /\ \/ h.version <= disk.version /\ disk' = disk
                 \/ disk' = Applied(disk, h.type, h.tid, h.mds, h.reqid)
            BY <1>1, <2>1, <3>1, DiskStep DEF ClientEntry
        <3>3. CASE h.version <= disk.version /\ disk' = disk
            BY <1>1, <3>2, <3>3 DEF OnRecord
        <3>4. CASE disk' = Applied(disk, h.type, h.tid, h.mds, h.reqid)
            BY <3>2, <3>4 DEF Applied
        <3> QED
            BY <3>2, <3>3, <3>4
    <2>2. CASE /\ Receives(q, TableServer, "COMMIT") /\ m.tid = Head(net[q][TableServer]).tid
               /\ m.tid \notin Tids(table.pending)
        BY <1>1, <2>2, HeadIn, TableAssumption DEF Unbroken, Tids
    <2> QED
        BY <1>5, <2>1, <2>2 DEF New, Welcome
<1>6. PICK a : a = disk.snaps
    OBVIOUS
<1>7. PICK b : b = disk'.snaps
    OBVIOUS
<1>8. Kept(b)'
    <2>1. Kept(a) /\ a \subseteq b
        BY <1>1, <1>6, <1>7 DEF OnRecord, Recorded
    <2>2. \A q \in Ranks : \A m \in In(net'[TableServer][q]) :
                New(TableServer, q, m) /\ m.op = "ACK" => m.tid \in b
        BY <1>5, <1>7
    <2> HIDE <1>6, <1>7
    <2> QED
        BY <1>1, <2>1, <2>2, KeptChange
<1>9. Kept(disk.snaps)'
    BY <1>7, <1>8 DEF Kept
<1>10. (\A p \in disk.pending : Fresh(p))'
    BY <1>4
<1>11. (\A t \in Gathered(table) : t \in Gathered(disk) \/ (t > disk.version /\ t \in Tids(Logged)))'
    BY <1>1 DEF Recorded, Gathered, Tids
<1>12. /\ (\A x \in In(log[TableServer]) :
                /\ x.type # "ROLLBACK"
                /\ x.type = "COMMIT" /\ x.version <= disk.version => x.tid \in disk.snaps)'
       /\ (disk.snaps \subseteq table.snaps)'
    BY <1>1, <1>2 DEF Recorded
<1>13. (Logged \subseteq table.pending)'
    BY <1>3
<1> QED
    BY <1>9, <1>10, <1>11, <1>12, <1>13 DEF OnRecord

-----------------------------------------------------------------------------
(* The one death.  What is lost with the process is what nobody has been   *)
(* told of.                                                                *)
FirstDeath(r) ==
    /\ Sound /\ Victims /\ Deaths = {} /\ Guarded /\ Unbroken /\ OnRecord
    /\ [Next]_vars /\ \E why : Dies(r, why)

LEMMA FirstIs ==
    ASSUME NEW r \in Ranks, FirstDeath(r)
    PROVE  /\ TypeOK /\ Causal /\ Continues /\ Epochs /\ Unique
           /\ Backed /\ Reqids /\ Agreements /\ Decided /\ Unbroken /\ OnRecord
           /\ OneMore(r, "down") /\ Now \in Nat /\ Now' = Now + 1
           /\ table' = (IF r = TableServer THEN disk ELSE table)
           /\ UNCHANGED <<disk, updates, done>>
           /\ client'[r] = NewClient(updates[r])
           /\ \A q \in Ranks \ {r} : client'[q] = client[q] /\ log'[q] = log[q]
           /\ In(log'[r]) = {}
           /\ \A x \in Ranks : In(net'[x][r]) = {}
           /\ \A x \in Ranks, y \in Ranks \ {r} : net'[x][y] = net[x][y]
<1>1. PICK why : Dies(r, why)
    BY DEF FirstDeath
<1>2. /\ TypeOK /\ Causal /\ Continues /\ Epochs /\ Unique
      /\ Backed /\ Reqids /\ Agreements /\ Decided /\ Unbroken /\ OnRecord
    BY DEF FirstDeath, Sound, Guarded
<1>3. OneMore(r, "down") /\ Now \in Nat /\ Now' = Now + 1
    BY <1>1, <1>2, NextMap, NowType DEF Dies, OneMore
<1>4. /\ table' = (IF r = TableServer THEN disk ELSE table)
      /\ UNCHANGED <<disk, updates, done>>
      /\ client' = [client EXCEPT ![r] = NewClient(updates[r])]
      /\ log' = [log EXCEPT ![r] = <<>>]
      /\ net' = [x \in Ranks |-> [net[x] EXCEPT ![r] = <<>>]]
    BY <1>1 DEF Dies
<1>5. /\ client \in [Ranks -> Client] /\ log \in [Ranks -> Seq(Entry)]
      /\ net \in [Ranks -> [Ranks -> Seq(Message)]]
    BY <1>2 DEF TypeOK, Channels
<1>6. /\ client'[r] = NewClient(updates[r])
      /\ \A q \in Ranks \ {r} : client'[q] = client[q] /\ log'[q] = log[q]
      /\ log'[r] = <<>>
    BY <1>4, <1>5
<1>7. /\ \A x \in Ranks : net'[x][r] = <<>>
      /\ \A x \in Ranks, y \in Ranks \ {r} : net'[x][y] = net[x][y]
    BY <1>4, <1>5
<1> QED
    BY <1>2, <1>3, <1>4, <1>6, <1>7, NoMessages

(* The client that starts anew.                                            *)
LEMMA Restarted ==
    ASSUME NEW r \in Ranks, FirstDeath(r)
    PROVE  /\ client'[r].last = -1 /\ client'[r].preparing = {} /\ client'[r].prepared = {}
           /\ client'[r].commits = updates[r]
           /\ ReqidsOf(client'[r]) /\ PreparedBy(r)' = {} /\ Agreed(r)' = {}
<1>1. client'[r] = NewClient(updates[r]) /\ In(net'[TableServer][r]) = {}
    BY FirstIs, TableAssumption
<1>2. /\ client'[r].last = -1 /\ client'[r].preparing = {} /\ client'[r].prepared = {}
      /\ client'[r].commits = updates[r]
    BY <1>1 DEF NewClient
<1> QED
    BY <1>1, <1>2 DEF ReqidsOf, PreparedBy, Agreed, In

(* The others.                                                             *)
LEMMA Bystanders ==
    ASSUME NEW r \in Ranks, FirstDeath(r), NEW q \in Ranks \ {r}
    PROVE  PreparedBy(q)' = PreparedBy(q) /\ Agreed(q)' = Agreed(q)
<1>1. client'[q] = client[q] /\ net'[TableServer][q] = net[TableServer][q]
    BY FirstIs, TableAssumption
<1>2. PreparedBy(q)' = PreparedBy(q)
    BY <1>1 DEF PreparedBy
<1>3. Agreed(q)' = Agreed(q)
    BY <1>1 DEF Agreed, Harmless
<1> QED
    BY <1>2, <1>3

LEMMA FirstFresh ==
    ASSUME NEW r \in Ranks, FirstDeath(r), NEW p \in Pending, Fresh(p)
    PROVE  Fresh(p)' /\ (Wanted(p)' => Wanted(p))
<1>1. p.mds \in Ranks /\ done' = done
    BY FirstIs DEF Pending
<1>2. CASE p.mds = r
    <2>1. In(net'[TableServer][r]) = {}
        BY FirstIs, TableAssumption
    <2> QED
        BY <1>2, <2>1, Restarted DEF Fresh, Before, Wanted
<1>3. CASE p.mds # r
    <2>1. client'[p.mds] = client[p.mds] /\ net'[TableServer][p.mds] = net[TableServer][p.mds]
        BY <1>1, <1>3, FirstIs, TableAssumption
    <2> QED
        BY <1>1, <2>1 DEF Fresh, Before, Wanted
<1> QED
    BY <1>2, <1>3

(* A preparation that a client has heard of, and has not done, is on disk. *)
LEMMA OnDiskToo ==
    ASSUME NEW r \in Ranks, FirstDeath(r), NEW p \in Claims, p \in table.pending, p.tid \notin done
    PROVE  p \in disk.pending
<1>1. TypeOK /\ Causal /\ Unique /\ OnRecord
    BY FirstIs
<1>2. p \in Known /\ p.tid <= disk.version /\ p.tid \in Nat /\ disk.version \in Nat
    BY <1>1, KnownType, LogType DEF Unique, Bounded, Known, Pending
<1>3. p.tid \in Gathered(table)
    BY DEF Gathered, Tids
<1>4. p.tid \in Gathered(disk)
    BY <1>1, <1>2, <1>3 DEF OnRecord
<1>5. p.tid \notin disk.snaps
    BY <1>1 DEF Causal
<1>6. PICK n \in disk.pending : n.tid = p.tid
    BY <1>4, <1>5 DEF Gathered, Tids
<1>7. n = p
    BY <1>1, <1>2, <1>6 DEF Unique, Single, Known, Claims
<1> QED
    BY <1>6, <1>7

LEMMA FirstBacked ==
    ASSUME NEW r \in Ranks, FirstDeath(r)
    PROVE  Backed'
<1>1. /\ TypeOK /\ Unique /\ Backed /\ OnRecord /\ done' = done
      /\ table' = (IF r = TableServer THEN disk ELSE table)
    BY FirstIs
<1>2. Live \subseteq Pending /\ disk.pending \subseteq Pending
    BY <1>1, LiveKnown, KnownType DEF Known, Claims
<1>3. ASSUME NEW p \in Claims, p \in table.pending, p.tid \notin done
      PROVE  p \in table'.pending
    BY <1>1, <1>3, OnDiskToo
<1>4. Logged' \subseteq Logged
    <2>1. CASE r = TableServer
        BY <2>1, FirstIs DEF Logged
    <2>2. CASE r # TableServer
        BY <2>2, FirstIs, TableAssumption DEF Logged
    <2> QED
        BY <2>1, <2>2
<1>5. ASSUME NEW q \in Ranks, NEW p \in PreparedBy(q)'
      PROVE  p \in table'.pending /\ p.tid \notin done'
    <2>1. q # r /\ p \in PreparedBy(q)
        BY <1>5, Restarted, Bystanders
    <2>2. p \in Claims /\ p \in table.pending /\ p.tid \notin done
        BY <1>1, <2>1 DEF Backed, Claims
    <2> QED
        BY <1>1, <1>3, <2>2
<1>6. ASSUME NEW p \in Live' PROVE Fresh(p)' /\ (Wanted(p)' => p \in table'.pending)
    <2>1. CASE p \in table'.pending
        <3>1. Fresh(p) /\ p \in Pending
            BY <1>1, <1>2, <2>1 DEF Live, Backed, OnRecord
        <3> QED
            BY <2>1, <3>1, FirstFresh
    <2>2. CASE p \in Logged'
        <3>1. p \in Live /\ p \in table.pending
            BY <1>1, <1>4, <2>2 DEF Live, OnRecord
        <3>2. Fresh(p)' 
            BY <1>1, <1>2, <3>1, FirstFresh DEF Backed
        <3>3. r # TableServer
            <4> SUFFICES ASSUME r = TableServer PROVE FALSE
                OBVIOUS
            <4>1. In(log'[TableServer]) = {}
                BY FirstIs
            <4> QED
                BY <2>2, <4>1 DEF Logged
        <3> QED
            BY <1>1, <3>1, <3>2, <3>3
    <2>3. ASSUME NEW q \in Ranks, p \in Agreed(q)'
          PROVE  Fresh(p)' /\ (Wanted(p)' => p \in table'.pending)
        <3>1. p \in Agreed(q)
            BY <2>3, Restarted, Bystanders
        <3>2. p \in Live /\ p \in Claims
            BY <3>1 DEF Live, Claims
        <3>3. Fresh(p)' /\ (Wanted(p)' => Wanted(p))
            BY <1>1, <1>2, <3>2, FirstFresh DEF Backed
        <3>4. Wanted(p) => p \in table.pending /\ p.tid \notin done
            BY <1>1, <3>2 DEF Backed, Fresh
        <3> QED
            BY <1>3, <3>2, <3>3, <3>4
    <2> QED
        BY <1>6, <2>1, <2>2, <2>3 DEF Live
<1>7. ASSUME NEW p \in Logged'
      PROVE  p.tid \notin done' /\ p \in table'.pending
    <2>1. p \in Logged /\ r # TableServer
        BY <1>4, <1>7, FirstIs DEF Logged
    <2> QED
        BY <1>1, <2>1 DEF Backed, OnRecord
<1> QED
    BY <1>5, <1>6, <1>7 DEF Backed

LEMMA FirstAgreements ==
    ASSUME NEW r \in Ranks, FirstDeath(r)
    PROVE  Agreements'
<1>1. /\ TypeOK /\ Unique /\ Agreements /\ Unbroken
      /\ table' = (IF r = TableServer THEN disk ELSE table)
      /\ UNCHANGED <<disk, updates>>
    BY FirstIs
<1>2. Logged' \subseteq Logged /\ (r = TableServer => Logged' = {})
    <2>1. CASE r = TableServer
        BY <2>1, FirstIs DEF Logged
    <2>2. CASE r # TableServer
        BY <2>2, FirstIs, TableAssumption DEF Logged
    <2> QED
        BY <2>1, <2>2
<1>3. Known' \subseteq Known
    <2>1. \A q \in Ranks : PreparedBy(q)' \subseteq PreparedBy(q) /\ Agreed(q)' \subseteq Agreed(q)
        BY Restarted, Bystanders
    <2>2. Claims' \subseteq Claims
        BY <1>1, <2>1 DEF Claims
    <2>3. table'.pending \subseteq table.pending \cup Claims
        BY <1>1 DEF Claims
    <2> QED
        BY <1>2, <2>2, <2>3 DEF Known
<1>4. \A q \in Ranks : Signed(q)' \subseteq Signed(q)
    <2> SUFFICES ASSUME NEW q \in Ranks PROVE Signed(q)' \subseteq Signed(q)
        OBVIOUS
    <2>1. CASE q = r
        BY <1>1, <2>1, Restarted DEF Signed
    <2>2. CASE q # r
        BY <1>1, <2>2, FirstIs DEF Signed
    <2> QED
        BY <2>1, <2>2
<1>5. ASSUME NEW q \in Ranks, NEW m \in In(net'[TableServer][q]), m.op = "AGREE"
      PROVE  Tallies(q, m)'
    <2>1. q # r /\ m \in In(net[TableServer][q])
        BY <1>5, FirstIs, TableAssumption
    <2>2. m.bl
        BY <1>1, <1>5, <2>1 DEF Unbroken, Salute
    <2>3. Tallies(q, m)
        BY <1>1, <2>1 DEF Agreements
    <2>4. m.tid <= table'.version
        <3>1. CASE r # TableServer
            BY <1>1, <1>5, <2>3, <3>1 DEF Tallies
        <3>2. CASE r = TableServer
            <4>1. client[q].last # -1
                BY <1>1 DEF TypeOK, Unbroken
            <4>2. PICK i \in 1..Len(net[TableServer][q]) : m = net[TableServer][q][i]
                BY <2>1 DEF In
            <4>3. Offer(q, m) \in Agreed(q)
                BY <1>5, <4>1, <4>2 DEF Agreed, Harmless
            <4>4. Offer(q, m) \in Claims /\ Offer(q, m).tid = m.tid
                BY <4>3 DEF Claims, Offer
            <4> QED
                BY <1>1, <3>2, <4>4 DEF Unique, Bounded
        <3> QED
            BY <3>1, <3>2
    <2>5. \A p \in Known' : p.tid = m.tid => p = Offer(q, m)
        BY <1>3, <1>5, <2>3 DEF Tallies
    <2>6. \A x \in Ranks : m.tid \in Signed(x)' => x = q
        BY <1>4, <1>5, <2>3 DEF Tallies
    <2>7. (m.tid \notin Tids(Logged))'
        BY <1>2, <1>5, <2>2, <2>3 DEF Tallies, Tids
    <2> QED
        BY <2>2, <2>4, <2>5, <2>6, <2>7 DEF Tallies, Offer
<1> QED
    BY <1>5 DEF Agreements, Tallies

LEMMA FirstDecided ==
    ASSUME NEW r \in Ranks, FirstDeath(r)
    PROVE  Decided'
<1>1. /\ TypeOK /\ Unique /\ Decided /\ OnRecord
      /\ table' = (IF r = TableServer THEN disk ELSE table)
      /\ UNCHANGED <<disk, updates, done>>
    BY FirstIs
<1>2. ASSUME NEW a, Kept(a) PROVE Kept(a)'
    <2>1. \A q \in Ranks : client[q].commits \cap updates[q] \subseteq client'[q].commits
        <3> SUFFICES ASSUME NEW q \in Ranks
                     PROVE  client[q].commits \cap updates[q] \subseteq client'[q].commits
            OBVIOUS
        <3>1. CASE q = r
            BY <3>1, Restarted
        <3>2. CASE q # r
            BY <3>2, FirstIs
        <3> QED
            BY <3>1, <3>2
    <2>2. \A q \in Ranks : In(net'[TableServer][q]) \subseteq In(net[TableServer][q])
        BY FirstIs, TableAssumption
    <2>3. \A q \in Ranks : In(log'[q]) \subseteq In(log[q])
        BY FirstIs
    <2> QED
        BY <1>1, <1>2, <2>1, <2>2, <2>3 DEF Kept
<1>3. PICK b : b = table'.snaps
    OBVIOUS
<1>4. Kept(b)
    <2>1. CASE r = TableServer
        BY <1>1, <1>3, <2>1 DEF OnRecord
    <2>2. CASE r # TableServer
        BY <1>1, <1>3, <2>2 DEF Decided
    <2> QED
        BY <2>1, <2>2
<1>5. Kept(table.snaps)'
    BY <1>2, <1>3, <1>4 DEF Kept
<1>6. (done \subseteq table.snaps \cup Tids(table.pending))'
    <2>1. CASE r # TableServer
        BY <1>1, <2>1 DEF Decided, Tids
    <2>2. CASE r = TableServer
        <3> SUFFICES ASSUME NEW t \in done PROVE t \in disk.snaps \cup Tids(disk.pending)
            BY <1>1, <2>2 DEF Tids
        <3>1. t \in Gathered(table)
            BY <1>1 DEF Decided, Gathered
        <3>2. t <= disk.version /\ t \in Nat /\ disk.version \in Nat
            BY <1>1, LogType DEF Unique, Bounded, TypeOK
        <3> QED
            BY <1>1, <3>1, <3>2 DEF OnRecord, Gathered
    <2> QED
        BY <2>1, <2>2
<1>7. ASSUME NEW x \in In(log'[TableServer]), x.type = "COMMIT"
      PROVE  x.tid \in table'.snaps
    <2>1. r # TableServer
        BY <1>7, FirstIs
    <2>2. x \in In(log[TableServer])
        BY <1>7, <2>1, FirstIs, TableAssumption
    <2> QED
        BY <1>1, <1>7, <2>1, <2>2 DEF Decided
<1> QED
    BY <1>5, <1>6, <1>7 DEF Decided

LEMMA FirstReqids ==
    ASSUME NEW r \in Ranks, FirstDeath(r)
    PROVE  Reqids' /\ Refusals'
<1>1. /\ TypeOK /\ Epochs /\ Reqids /\ Unbroken /\ OneMore(r, "down") /\ Now \in Nat /\ Now' = Now + 1
    BY FirstIs
<1>2. \A q \in Ranks : ReqidsOf(client'[q])
    <2> SUFFICES ASSUME NEW q \in Ranks PROVE ReqidsOf(client'[q])
        OBVIOUS
    <2>1. CASE q = r
        BY <2>1, Restarted
    <2>2. CASE q # r
        BY <1>1, <2>2, FirstIs DEF Reqids
    <2> QED
        BY <2>1, <2>2
<1>3. ASSUME NEW q \in Ranks, NEW m \in In(net'[q][TableServer])
      PROVE  Asked(q, m)' /\ m.op # "ROLLBACK"
    <2>1. r # TableServer /\ m \in In(net[q][TableServer])
        BY <1>3, FirstIs, TableAssumption
    <2>2. m.op # "ROLLBACK" /\ Asked(q, m)
        BY <1>1, <2>1 DEF Unbroken, Reqids
    <2>3. m.ep \in 1..Now
        BY <1>1, <2>1, TableAssumption DEF Epochs, Sent, SentAt, In
    <2>4. CASE q = r
        <3>1. Now + 1 \in (m.ep + 1)..Now' /\ mdsmap'[Now + 1][q] = "down"
            BY <1>1, <2>3, <2>4 DEF OneMore
        <3> QED
            BY <2>2, <3>1 DEF Asked
    <2>5. CASE q # r
        <3>1. client'[q] = client[q]
            BY <2>5, FirstIs
        <3>2. ASSUME NEW k \in (m.ep + 1)..Now, mdsmap[k][q] = "down"
              PROVE  k \in (m.ep + 1)..Now' /\ mdsmap'[k][q] = "down"
            <4>1. k \in 1..Now /\ k \in (m.ep + 1)..Now'
                BY <1>1, <2>3, <3>2
            <4> QED
                BY <1>1, <3>2, <4>1 DEF OneMore
        <3> QED
            BY <2>2, <3>1, <3>2 DEF Asked
    <2> QED
        BY <2>2, <2>4, <2>5
<1> QED
    BY <1>2, <1>3 DEF Reqids, Refusals

LEMMA FirstGuarded ==
    ASSUME NEW r \in Ranks, FirstDeath(r)
    PROVE  Guarded'
    BY FirstBacked, FirstAgreements, FirstDecided, FirstReqids DEF Guarded

-----------------------------------------------------------------------------
(* Nothing is lost.                                                        *)
LEMMA InitLoss == Init => LossInv
<1> SUFFICES ASSUME Init PROVE LossInv
    OBVIOUS
<1>1. Now = 1 /\ \A q \in Ranks : mdsmap[1][q] = "active"
    BY DEF Init, Now
<1>2. \A q \in Ranks : /\ client[q].ready /\ client[q].last = 0
                       /\ client[q].preparing = {} /\ client[q].prepared = {}
                       /\ client[q].commits = {} /\ updates[q] = {}
    BY DEF Init, NewClient
<1>3. \A x, y \in Ranks : net[x][y] = <<>> /\ Len(net[x][y]) = 0 /\ In(net[x][y]) = {}
    BY DEF Init, In
<1>4. \A q \in Ranks : In(log[q]) = {}
    BY DEF Init, In
<1>5. /\ table.pending = {} /\ table.snaps = {} /\ done = {}
      /\ disk.pending = {} /\ disk.snaps = {}
    BY DEF Init
<1>6. /\ Logged = {}
      /\ \A q \in Ranks : Agreed(q) = {} /\ PreparedBy(q) = {}
    <2>1. Logged = {}
        BY <1>4, TableAssumption DEF Logged
    <2>2. \A q \in Ranks : Agreed(q) = {}
        BY <1>3, TableAssumption DEF Agreed
    <2>3. \A q \in Ranks : PreparedBy(q) = {}
        BY <1>2 DEF PreparedBy
    <2> QED
        BY <2>1, <2>2, <2>3
<1>7. Live = {}
    BY <1>5, <1>6 DEF Live
<1>8. Victims
    <2>1. \A q \in Ranks : ~Fell(q)
        BY <1>1 DEF Fell
    <2>2. \A q \in Ranks : client[q].last # -1
        BY <1>2
    <2> QED
        BY <1>1, <2>1, <2>2 DEF Victims
<1>9. Backed
    BY <1>5, <1>6, <1>7 DEF Backed
<1>10. Reqids
    BY <1>2, <1>3, TableAssumption DEF Reqids, ReqidsOf
<1>11. Refusals /\ Agreements
    BY <1>3, TableAssumption DEF Refusals, Agreements
<1>12. Kept({})
    BY <1>3, <1>4, <1>5, TableAssumption DEF Kept
<1>13. Decided
    BY <1>4, <1>5, <1>12, TableAssumption DEF Decided
<1>14. Unbroken
    BY <1>2, <1>3, TableAssumption DEF Unbroken, CommitsOnce
<1>15. OnRecord
    <2>1. Gathered(table) = {}
        BY <1>5 DEF Gathered, Tids
    <2> QED
        BY <1>4, <1>5, <1>6, <1>12, <2>1, TableAssumption DEF OnRecord
<1> QED
    BY <1>8, <1>9, <1>10, <1>11, <1>13, <1>14, <1>15 DEF LossInv, Guarded

(* The one death is the first; all other steps keep what was guarded.      *)
LEMMA NextLoss == Sound /\ LossInv /\ [Next]_vars => LossInv'
<1> SUFFICES ASSUME Sound, LossInv, [Next]_vars PROVE LossInv'
    OBVIOUS
<1>1. TypeOK /\ Victims
    BY DEF Sound, LossInv
<1>2. Victims'
    BY <1>1, NextVictims
<1>3. /\ OneDeath' => OneDeath
      /\ Deaths' = {} => Deaths = {}
    BY <1>1, DeathsLast
<1>4. Deaths = {} => OneDeath
    BY DEF OneDeath
<1>5. CASE \E r \in Ranks : \E why : Dies(r, why)
    <2>1. PICK r \in Ranks : \E why : Dies(r, why)
        BY <1>5
    <2>2. Deaths' # {} /\ (OneDeath' => Deaths = {})
        BY <1>1, <2>1, DeathsLast
    <2>3. ASSUME OneDeath' PROVE Guarded'
        <3>1. FirstDeath(r)
            BY <1>1, <1>4, <2>1, <2>2, <2>3 DEF FirstDeath, LossInv
        <3> QED
            BY <3>1, FirstGuarded
    <2> QED
        BY <1>2, <2>2, <2>3 DEF LossInv
<1>6. CASE ~\E r \in Ranks : \E why : Dies(r, why)
    <2>1. Lives
        BY <1>6 DEF Lives
    <2>2. ASSUME OneDeath PROVE Goes
        BY <1>1, <2>1, <2>2 DEF Goes, LossInv
    <2>3. ASSUME OneDeath' PROVE Guarded'
        BY <1>3, <2>2, <2>3, NextBacked, NextReqids, NextRefusals, NextAgreements, NextDecided
           DEF Guarded
    <2>4. ASSUME Deaths' = {} PROVE Unbroken' /\ OnRecord'
        <3>1. Early
            BY <1>3, <1>4, <2>2, <2>4 DEF Early, LossInv
        <3> QED
            BY <3>1, NextUnbroken, NextOnRecord
    <2> QED
        BY <1>2, <2>3, <2>4 DEF LossInv
<1> QED
    BY <1>5, <1>6

(* As long as at most one process has died, an update that is safe in a    *)
(* client's journal is in the table of the server or pending there.  What  *)
(* could lose it does not: the ROLLBACK with which a client answers an     *)
(* AGREE it does not expect (MDSTableClient::handle_request), the replay   *)
(* of the journal over the table that was saved, and the test of           *)
(* handle_commit that takes a tid up to the version for committed.         *)
THEOREM NothingIsLost == Spec => []NothingLost
<1>1. LossInv => NothingLost
    BY DEF LossInv, Guarded, Decided, NothingLost
<1>2. /\ TypeOK /\ Causal /\ Continues /\ (Epochs /\ Unique)
      /\ (GreetedApart /\ AnswersOnce /\ AllRetries /\ AssertsHold)
      => Sound
    BY DEF Sound
<1> QED
    BY <1>1, <1>2, InitLoss, NextLoss, TypeCorrect, AlwaysCausal, AlwaysContinues,
       AlwaysUnique, AlwaysExpected, PTL DEF Spec

=============================================================================
