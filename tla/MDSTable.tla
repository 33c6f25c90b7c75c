-------------------------------- MODULE MDSTable --------------------------------
(***************************************************************************)
(* The MDS tables: the two-phase commit between the MDSTableClient of every*)
(* rank and the MDSTableServer of one of them, as mksnap uses it on the    *)
(* snap table.  A client prepares an update, the server answers AGREE with *)
(* a tid once the preparation is in its journal, the client journals its   *)
(* own update with the tid and tells the server to commit.  Both ends lose *)
(* their memory with their process and rebuild it from the journals.       *)
(***************************************************************************)
EXTENDS Integers, Sequences, FiniteSets

CONSTANTS
    Ranks,          \* the MDS ranks; every one has a client
    TableServer,    \* MDSMap::tableserver, the rank that has the server
    MaxPrepare,     \* bound: updates that clients prepare
    MaxUpdate,      \* bound: updates of the server's own (purged snapshots)
    MaxFail         \* bound: processes that die other than by an assert

ASSUME TableAssumption ==
    /\ TableServer \in Ranks
    /\ {MaxPrepare, MaxUpdate, MaxFail} \subseteq Nat

VARIABLES
    mdsmap,     \* the MDSMaps published so far; the index is the epoch
    epoch,      \* the newest map each rank has handled
    table,      \* the server's table in memory
    client,     \* the client of each rank
    log,        \* what each rank has submitted to its journal, not yet safe
    disk,       \* the table a replay yields: its object and the safe journal
    updates,    \* the tids that a replay at each rank leaves to be committed
    net,        \* net[x][y]: messages on their way from x to y, in order
    done,       \* the tids whose update is safe in the client's journal
    used,       \* how often each bounded event has happened
    asserts     \* the assertions that failed so far

cluster == <<mdsmap, epoch>>
vars == <<cluster, table, client, log, disk, updates, net, done, used, asserts>>

-----------------------------------------------------------------------------
(* Maps.  "down" is a rank without a process; "up" covers replay to        *)
(* rejoin; "active" covers clientreplay.                                   *)
MapState == {"down", "up", "active"}
Now == Len(mdsmap)
Up(r) == mdsmap[Now][r] # "down"
View(r) == mdsmap[epoch[r]]

(* A prepared update, mds_table_pending_t, and the table: the snapshots    *)
(* are named by the tid that created them.                                 *)
Pending == [tid : Nat, mds : Ranks, reqid : Nat]
Table == [version : Nat, pending : SUBSET Pending, snaps : SUBSET Nat]

Tids(set) == {p.tid : p \in set}

(* The client: pending_prepare, waiting_for_reqid, prepared_update,        *)
(* pending_commit, and the requests that wait to be retried with the tid   *)
(* and the reply buffer of an AGREE.  last is last_reqid, -1 is ~0ULL.     *)
Client == [ready : BOOLEAN, last : Nat \cup {-1}, waiting : Nat,
           preparing : SUBSET Nat, prepared : SUBSET [tid : Nat, reqid : Nat],
           retry : SUBSET [tid : Nat, bl : BOOLEAN], commits : SUBSET Nat]

(* Variants: server_ready not initialised; the journalled tids not noted.   *)
NewClient_Ready(tids) ==
    [ready |-> TRUE, last |-> -1, waiting |-> 0, preparing |-> {},
     prepared |-> {}, retry |-> {}, commits |-> tids]
NewClient_Forgets(tids) ==
    [ready |-> FALSE, last |-> -1, waiting |-> 0, preparing |-> {},
     prepared |-> {}, retry |-> {}, commits |-> {}]

NewClient(tids) ==
    [ready |-> FALSE, last |-> -1, waiting |-> 0, preparing |-> {},
     prepared |-> {}, retry |-> {}, commits |-> tids]

Message == [op : {"PREPARE", "AGREE", "COMMIT", "ACK", "ROLLBACK",
                  "SERVER_READY"},
            reqid : Nat, tid : Nat, bl : BOOLEAN, ep : Nat]

(* ETableServer with an op and the version it leads to, the EUpdate of     *)
(* mksnap, ETableClient.  mds is the rank that the callback answers.       *)
Entry == [type : {"PREPARE", "COMMIT", "ROLLBACK", "SERVER_UPDATE",
                  "EUpdate", "ETableClient"},
          tid : Nat, mds : Ranks, reqid : Nat, version : Nat]

Init ==
    /\ mdsmap = <<[r \in Ranks |-> "active"]>>
    /\ epoch = [r \in Ranks |-> 1]
    /\ table = [version |-> 0, pending |-> {}, snaps |-> {}]
    /\ client = [r \in Ranks |->
                    [NewClient({}) EXCEPT !.ready = TRUE, !.last = 0]]
    /\ log = [r \in Ranks |-> <<>>]
    /\ disk = table
    /\ updates = [r \in Ranks |-> {}]
    /\ net = [x \in Ranks |-> [y \in Ranks |-> <<>>]]
    /\ done = {}
    /\ used = [prepare |-> 0, update |-> 0, fail |-> 0]
    /\ asserts = {}

-----------------------------------------------------------------------------
(* The messenger.                                                          *)

(* The process that map number e shows for q is still running.             *)
Reaches(e, q) == \A i \in e..Now : mdsmap[i][q] # "down"

(* send_message_mds by r, whose map is number e: the map goes first.       *)
Msg(op, reqid, tid, bl, e) ==
    [op |-> op, reqid |-> reqid, tid |-> tid, bl |-> bl, ep |-> e]
Send(n, r, e, q, msgs) ==
    IF Reaches(e, q) THEN [n EXCEPT ![r][q] = @ \o msgs] ELSE n

(* The loops of the code run through their maps in ascending order.        *)
InOrder(msgs) ==
    {s \in [1..Cardinality(msgs) -> msgs] : \A i, j \in DOMAIN s :
        i < j => \/ s[i].tid < s[j].tid
                 \/ s[i].tid = s[j].tid /\ s[i].reqid < s[j].reqid}

(* Variant: messages of a process that has been replaced are handled.       *)
Stale_Never(x, y, m) == FALSE

(* is_stale_message: the receiver's map has another process in the rank.   *)
Stale(x, y, m) == \E i \in (m.ep + 1)..epoch[y] : mdsmap[i][x] = "down"

Arrives(x, y) ==
    /\ Up(y)
    /\ net[x][y] # <<>>
    /\ Head(net[x][y]).ep <= epoch[y]

Taken(x, y) == [net EXCEPT ![x][y] = Tail(@)]

DropStale(x, y) ==
    /\ Arrives(x, y)
    /\ Stale(x, y, Head(net[x][y]))
    /\ net' = Taken(x, y)
    /\ UNCHANGED <<cluster, table, client, log, disk, updates, done, used,
                   asserts>>

Receives(x, y, op) ==
    /\ Arrives(x, y)
    /\ ~Stale(x, y, Head(net[x][y]))
    /\ Head(net[x][y]).op = op

(* The process of r is gone and with it everything but the journal.  What  *)
(* the next one starts with is what a replay of the journal yields.        *)
Dies(r, why) ==
    /\ mdsmap' = Append(mdsmap, [mdsmap[Now] EXCEPT ![r] = "down"])
    /\ table' = IF r = TableServer THEN disk ELSE table
    /\ client' = [client EXCEPT ![r] = NewClient(updates[r])]
    /\ log' = [log EXCEPT ![r] = <<>>]
    /\ net' = [x \in Ranks |-> [net[x] EXCEPT ![r] = <<>>]]
    /\ asserts' = asserts \cup why
    /\ UNCHANGED <<epoch, disk, updates, done>>

-----------------------------------------------------------------------------
(* The server.                                                             *)

Submit(r, type, tid, mds, reqid, version) ==
    log' = [log EXCEPT ![r] = Append(@,
        [type |-> type, tid |-> tid, mds |-> mds, reqid |-> reqid,
         version |-> version])]

(* What an ETableServer does to the table, in the handler and in a replay. *)
Applied(t, type, tid, mds, reqid) ==
    [version |-> t.version + 1,
     pending |-> CASE type = "PREPARE" ->
                        t.pending \cup {[tid |-> tid, mds |-> mds,
                                         reqid |-> reqid]}
                   [] type \in {"COMMIT", "ROLLBACK"} ->
                        {p \in t.pending : p.tid # tid}
                   [] OTHER -> t.pending,
     snaps |-> IF type = "COMMIT" THEN t.snaps \cup {tid} ELSE t.snaps]

Update(type, tid, mds, reqid) ==
    /\ table' = Applied(table, type, tid, mds, reqid)
    /\ Submit(TableServer, type, tid, mds, reqid, table.version + 1)

(* Variant: the AGREE does not wait for the journal.                        *)
HandlePrepare_EarlyAgree(r) ==
    LET m == Head(net[r][TableServer])
        e == epoch[TableServer]
    IN /\ Receives(r, TableServer, "PREPARE")
       /\ Update("PREPARE", table.version + 1, r, m.reqid)
       /\ net' = Send(Taken(r, TableServer), TableServer, e, r,
                 <<Msg("AGREE", m.reqid, table.version + 1, TRUE, e)>>)
       /\ UNCHANGED <<cluster, client, disk, updates, done, used, asserts>>

HandlePrepare(r) ==
    /\ Receives(r, TableServer, "PREPARE")
    /\ LET m == Head(net[r][TableServer])
       IN Update("PREPARE", table.version + 1, r, m.reqid)
    /\ net' = Taken(r, TableServer)
    /\ UNCHANGED <<cluster, client, disk, updates, done, used, asserts>>

HandleCommit(r) ==
    /\ Receives(r, TableServer, "COMMIT")
    /\ LET m == Head(net[r][TableServer])
           n == Taken(r, TableServer)
           e == epoch[TableServer]
       IN \/ /\ m.tid \in Tids(table.pending)
             /\ Update("COMMIT", m.tid, r, 0)
             /\ net' = n
             /\ UNCHANGED <<cluster, client, asserts>>
          \/ /\ m.tid \notin Tids(table.pending)
             /\ m.tid <= table.version
             /\ net' = Send(n, TableServer, e, r,
                            <<Msg("ACK", 0, m.tid, FALSE, e)>>)
             /\ UNCHANGED <<cluster, table, client, log, asserts>>
          \/ /\ m.tid \notin Tids(table.pending)
             /\ m.tid > table.version
             /\ Dies(TableServer, {"commit: tid <= version"})
    /\ UNCHANGED <<disk, updates, done, used>>

HandleRollback(r) ==
    /\ Receives(r, TableServer, "ROLLBACK")
    /\ LET tid == Head(net[r][TableServer]).tid
       IN \/ /\ tid \in Tids(table.pending)
             /\ Update("ROLLBACK", tid, r, 0)
             /\ net' = Taken(r, TableServer)
             /\ UNCHANGED <<cluster, client, asserts>>
          \/ /\ tid \notin Tids(table.pending)
             /\ Dies(TableServer, {"rollback: pending"})
    /\ UNCHANGED <<disk, updates, done, used>>

(* Variant: the table changes and the journal does not hear of it.          *)
ServerUpdate_NotLogged ==
    /\ used.update < MaxUpdate
    /\ View(TableServer)[TableServer] = "active" /\ Up(TableServer)
    /\ table' = [table EXCEPT !.version = @ + 1]
    /\ used' = [used EXCEPT !.update = @ + 1]
    /\ UNCHANGED <<cluster, client, log, disk, updates, net, done, asserts>>

(* do_server_update, when the OSDs have removed purged snapshots.          *)
ServerUpdate ==
    /\ used.update < MaxUpdate
    /\ View(TableServer)[TableServer] = "active" /\ Up(TableServer)
    /\ Update("SERVER_UPDATE", 0, TableServer, 0)
    /\ used' = [used EXCEPT !.update = @ + 1]
    /\ UNCHANGED <<cluster, client, disk, updates, net, done, asserts>>

(* MDSTable::save, when a segment of the journal expires: the object gets  *)
(* the table as it is in memory, what the journal does not have included.  *)
Save ==
    /\ View(TableServer)[TableServer] = "active" /\ Up(TableServer)
    /\ disk # table
    /\ disk' = table
    /\ UNCHANGED <<cluster, table, client, log, updates, net, done, used,
                   asserts>>

(* handle_mds_recovery: resend the AGREEs of who, then SERVER_READY with   *)
(* the first reqid past the ones that are pending.                         *)
Agrees(who, e) ==
    {Msg("AGREE", p.reqid, p.tid, FALSE, e) :
        p \in {x \in table.pending : x.mds = who}}
NextReqid(who) ==
    LET ids == {p.reqid : p \in {x \in table.pending : x.mds = who}}
    IN {n \in {0} \cup {i + 1 : i \in ids} : \A i \in ids : i < n}
Ready(n, e) == Msg("SERVER_READY", n, 0, FALSE, e)

(* Variant: the AGREEs are not sent again.                                  *)
Greetings_NoAgrees(who, e) ==
    {<<Ready(n, e)>> : n \in NextReqid(who)}

Greetings(who, e) ==
    {Append(agrees, Ready(n, e)) :
        agrees \in InOrder(Agrees(who, e)), n \in NextReqid(who)}

-----------------------------------------------------------------------------
(* The client.                                                             *)

Prepare(r) ==
    LET c == client[r]
        e == epoch[r]
    IN /\ used.prepare < MaxPrepare
       /\ Up(r) /\ View(r)[r] = "active"
       /\ \/ /\ c.last = -1
             /\ client' = [client EXCEPT ![r].waiting = @ + 1]
             /\ UNCHANGED net
          \/ /\ c.last # -1
             /\ client' = [client EXCEPT ![r].last = c.last + 1,
                                         ![r].preparing = @ \cup {c.last + 1}]
             /\ net' = IF c.ready
                       THEN Send(net, r, e, TableServer,
                                 <<Msg("PREPARE", c.last + 1, 0, FALSE, e)>>)
                       ELSE net
       /\ used' = [used EXCEPT !.prepare = @ + 1]
       /\ UNCHANGED <<cluster, table, log, disk, updates, done, asserts>>

(* The four cases of handle_request on an AGREE.                           *)
HandleAgree(r) ==
    LET m == Head(net[TableServer][r])
        c == client[r]
        n == Taken(TableServer, r)
        e == epoch[r]
        fine == UNCHANGED <<cluster, table, log, asserts>>
    IN /\ Receives(TableServer, r, "AGREE")
       /\ \/ /\ m.reqid \in c.preparing
             /\ client' = [client EXCEPT
                    ![r].preparing = @ \ {m.reqid},
                    ![r].prepared = {p \in @ : p.tid # m.tid} \cup
                                    {[tid |-> m.tid, reqid |-> m.reqid]},
                    ![r].retry = @ \cup {[tid |-> m.tid, bl |-> m.bl]}]
             /\ net' = n
             /\ fine
          \/ /\ m.reqid \notin c.preparing
             /\ m.tid \in Tids(c.prepared)
             /\ IF [tid |-> m.tid, reqid |-> m.reqid] \notin c.prepared
                THEN Dies(r, {"agree: prepared_update[tid] == reqid"})
                ELSE IF c.ready
                THEN Dies(r, {"agree: duplicate when ready"})
                ELSE net' = n /\ UNCHANGED client /\ fine
          \/ /\ m.reqid \notin c.preparing
             /\ m.tid \notin Tids(c.prepared)
             /\ m.tid \in c.commits
             /\ IF c.ready
                THEN Dies(r, {"agree: committing when ready"})
                ELSE net' = n /\ UNCHANGED client /\ fine
          \/ /\ m.reqid \notin c.preparing
             /\ m.tid \notin Tids(c.prepared) \cup c.commits
             /\ IF c.ready
                THEN Dies(r, {"agree: stray when ready"})
                ELSE /\ net' = Send(n, r, e, TableServer,
                                <<Msg("ROLLBACK", 0, m.tid, FALSE, e)>>)
                     /\ UNCHANGED client
                     /\ fine
       /\ UNCHANGED <<disk, updates, done, used>>

HandleAck(r) ==
    LET tid == Head(net[TableServer][r]).tid
    IN /\ Receives(TableServer, r, "ACK")
       /\ \/ /\ tid \in client[r].commits
             /\ client' = [client EXCEPT ![r].commits = @ \ {tid}]
             /\ Submit(r, "ETableClient", tid, r, 0, 0)
          \/ /\ tid \notin client[r].commits
             /\ UNCHANGED <<client, log>>
       /\ net' = Taken(TableServer, r)
       /\ UNCHANGED <<cluster, table, disk, updates, done, used, asserts>>

(* SERVER_READY: the waiting prepares get their reqids, all prepares and   *)
(* all commits are sent again.                                             *)
HandleServerReady(r) ==
    LET c == client[r]
        m == Head(net[TableServer][r])
        n == Taken(TableServer, r)
        e == epoch[r]
        base == IF c.last = -1 THEN m.reqid ELSE c.last
        ids == c.preparing \cup (base + 1)..(base + c.waiting)
    IN /\ Receives(TableServer, r, "SERVER_READY")
       /\ \/ /\ c.ready
             /\ Dies(r, {"server_ready: !server_ready"})
          \/ /\ ~c.ready
             /\ client' = [client EXCEPT ![r].ready = TRUE,
                    ![r].last = base + c.waiting, ![r].waiting = 0,
                    ![r].preparing = ids]
             /\ \E ps \in InOrder({Msg("PREPARE", i, 0, FALSE, e) : i \in ids}),
                   cs \in InOrder({Msg("COMMIT", 0, t, FALSE, e) :
                                                        t \in c.commits}) :
                    net' = Send(n, r, e, TableServer, ps \o cs)
             /\ UNCHANGED <<cluster, table, log, asserts>>
       /\ UNCHANGED <<disk, updates, done, used>>

(* Variant: the server is told to commit when the update is submitted.      *)
Mksnap_EarlyCommit(r) == \E q \in client[r].retry :
    /\ Up(r) /\ q.bl
    /\ client' = [client EXCEPT ![r].retry = @ \ {q}]
    /\ Submit(r, "EUpdate", q.tid, r, 0, 0)
    /\ net' = Send(net, r, epoch[r], TableServer,
                   <<Msg("COMMIT", 0, q.tid, FALSE, epoch[r])>>)
    /\ UNCHANGED <<cluster, table, asserts, disk, updates, done, used>>

(* handle_client_mksnap, retried with the tid: journal the update.  The    *)
(* snapid is decoded from the buffer that came with the AGREE.             *)
Mksnap(r) == \E q \in client[r].retry :
    /\ Up(r)
    /\ \/ /\ q.bl
          /\ client' = [client EXCEPT ![r].retry = @ \ {q}]
          /\ Submit(r, "EUpdate", q.tid, r, 0, 0)
          /\ UNCHANGED <<cluster, table, net, asserts>>
       \/ /\ ~q.bl
          /\ Dies(r, {"mksnap: decode snapid"})
    /\ UNCHANGED <<disk, updates, done, used>>

-----------------------------------------------------------------------------
(* The journal.                                                            *)

(* A replay skips what the table object already has.                       *)
Replayed(t, x) ==
    IF x.version <= t.version THEN t
    ELSE Applied(t, x.type, x.tid, x.mds, x.reqid)

Journalled(r, x) ==
    /\ log' = [log EXCEPT ![r] = Tail(@)]
    /\ disk' = IF x.type \in {"EUpdate", "ETableClient"} THEN disk
               ELSE Replayed(disk, x)
    /\ updates' = [updates EXCEPT ![r] =
            CASE x.type = "EUpdate" -> @ \cup {x.tid}
              [] x.type = "ETableClient" -> @ \ {x.tid}
              [] OTHER -> @]
    /\ done' = IF x.type = "EUpdate" THEN done \cup {x.tid} ELSE done

(* _prepare_logged, _commit_logged and, for the others, no callback that   *)
(* does more than wake the trimming of the journal.                        *)
TableLogged(r) ==
    LET x == Head(log[r])
        e == epoch[r]
    IN /\ Up(r) /\ log[r] # <<>>
       /\ x.type # "EUpdate"
       /\ Journalled(r, x)
       /\ net' = CASE x.type = "PREPARE" ->
                        Send(net, r, e, x.mds,
                             <<Msg("AGREE", x.reqid, x.tid, TRUE, e)>>)
                   [] x.type = "COMMIT" ->
                        Send(net, r, e, x.mds,
                             <<Msg("ACK", 0, x.tid, FALSE, e)>>)
                   [] OTHER -> net
       /\ UNCHANGED <<cluster, table, client, used, asserts>>

(* _mksnap_finish and MDSTableClient::commit.                              *)
Commit(r) ==
    LET x == Head(log[r])
        e == epoch[r]
    IN /\ Up(r) /\ log[r] # <<>>
       /\ x.type = "EUpdate"
       /\ \/ /\ x.tid \in Tids(client[r].prepared)
             /\ Journalled(r, x)
             /\ client' = [client EXCEPT
                    ![r].prepared = {p \in @ : p.tid # x.tid},
                    ![r].commits = @ \cup {x.tid}]
             /\ net' = IF client[r].ready
                       THEN Send(net, r, e, TableServer,
                                 <<Msg("COMMIT", 0, x.tid, FALSE, e)>>)
                       ELSE net
             /\ UNCHANGED <<cluster, table, asserts>>
          \/ /\ x.tid \notin Tids(client[r].prepared)
             /\ Dies(r, {"commit: prepared_update.count(tid)"})
             /\ UNCHANGED <<disk, updates, done>>
       /\ UNCHANGED used

(* LogSegment::try_to_expire: a segment goes once its tids are acked, with *)
(* the ETableClient on its way to the journal or not.                      *)
Expire(r) ==
    /\ Up(r)
    /\ updates[r] \ client[r].commits # {}
    /\ updates' = [updates EXCEPT ![r] = @ \cap client[r].commits]
    /\ UNCHANGED <<cluster, table, client, log, disk, net, done, used, asserts>>

-----------------------------------------------------------------------------
(* Failure and recovery.                                                   *)

Fail(r) ==
    /\ used.fail < MaxFail
    /\ Up(r)
    /\ Dies(r, {})
    /\ used' = [used EXCEPT !.fail = @ + 1]

Published(r, st) == mdsmap' = Append(mdsmap, [mdsmap[Now] EXCEPT ![r] = st])

Takeover(r) ==
    /\ ~Up(r)
    /\ Published(r, "up")
    /\ epoch' = [epoch EXCEPT ![r] = Now + 1]
    /\ UNCHANGED <<table, client, log, disk, updates, net, done, used, asserts>>

(* A rank becomes active when every rank has taken part in its resolve and *)
(* its rejoin, so has seen it, and all the others, up.                     *)
MonActive(r) ==
    /\ mdsmap[Now][r] = "up"
    /\ \A q \in Ranks : \A i \in epoch[q]..Now : \A p \in Ranks :
            mdsmap[i][p] # "down"
    /\ Published(r, "active")
    /\ UNCHANGED <<epoch, table, client, log, disk, updates, net, done, used,
                   asserts>>

(* handle_mds_map: the server greets the ranks that have become active, or *)
(* all that are when it has become active itself; a client notes that the  *)
(* server has failed.                                                      *)
HandleMdsMap(r) ==
    LET e == epoch[r] + 1
        old == View(r)
        new == mdsmap[e]
        greet == IF r # TableServer \/ new[r] # "active" THEN {}
                 ELSE {q \in Ranks : new[q] = "active" /\
                                    (old[r] = "active" => old[q] # "active")}
    IN /\ Up(r)
       /\ e <= Now
       /\ epoch' = [epoch EXCEPT ![r] = e]
       /\ client' =
            IF old[TableServer] # "down" /\ new[TableServer] = "down"
            THEN [client EXCEPT ![r].ready = FALSE]
            ELSE client
       /\ \E out \in [greet -> UNION {Greetings(q, e) : q \in greet}] :
            /\ \A q \in greet : out[q] \in Greetings(q, e)
            /\ net' = [net EXCEPT ![r] = [q \in Ranks |->
                    IF q \in greet /\ Reaches(e, q)
                    THEN @[q] \o out[q]
                    ELSE @[q]]]
       /\ UNCHANGED <<mdsmap, table, log, disk, updates, done, used, asserts>>

-----------------------------------------------------------------------------
(* What the processes, the messenger and the monitors do by themselves.    *)
Progress ==
    \/ \E x, y \in Ranks : DropStale(x, y)
    \/ \E r \in Ranks :
        \/ HandlePrepare(r) \/ HandleCommit(r) \/ HandleRollback(r)
        \/ HandleAgree(r) \/ HandleAck(r) \/ HandleServerReady(r)
        \/ Mksnap(r) \/ TableLogged(r) \/ Commit(r)
        \/ Takeover(r) \/ MonActive(r) \/ HandleMdsMap(r)

Next ==
    \/ Progress
    \/ \E r \in Ranks : Prepare(r) \/ Expire(r) \/ Fail(r)
    \/ ServerUpdate
    \/ Save

Spec == Init /\ [][Next]_vars

(* Messages arrive, journals are flushed, standbys take over and requests  *)
(* that hold a tid are retried.  Nobody has to ask for a snapshot.         *)
FairSpec == Spec /\ WF_vars(Progress)

-----------------------------------------------------------------------------
Channels == [Ranks -> [Ranks -> Seq(Message)]]

(* The shape of the state.  A client that knows the server ready has been  *)
(* given its first reqid.                                                  *)
TypeOK ==
    /\ mdsmap \in Seq([Ranks -> MapState]) /\ mdsmap # <<>>
    /\ epoch \in [Ranks -> 1..Now]
    /\ table \in Table /\ IsFiniteSet(table.pending)
    /\ disk \in Table /\ IsFiniteSet(disk.pending)
    /\ client \in [Ranks -> Client]
    /\ \A r \in Ranks :
        /\ client[r].ready => client[r].last # -1
        /\ IsFiniteSet(client[r].preparing)
        /\ IsFiniteSet(client[r].commits)
        /\ IsFiniteSet(updates[r])
    /\ log \in [Ranks -> Seq(Entry)]
    /\ updates \in [Ranks -> SUBSET Nat]
    /\ net \in Channels
    /\ done \subseteq Nat
    /\ used \in [prepare : 0..MaxPrepare, update : 0..MaxUpdate,
                 fail : 0..MaxFail]

(* The server's table, in memory or as a replay would rebuild it, has no   *)
(* snapshot whose client did not get its own update into its journal: a    *)
(* COMMIT is sent from _mksnap_finish or after a replay, never earlier,    *)
(* whoever crashed in between and however often it is sent again.          *)
SnapsJournalled == table.snaps \cup disk.snaps \subseteq done

(* "assert(version-1 == server->get_version())" in ETableServer::replay:   *)
(* wherever the table object was saved and the processes died, the journal *)
(* goes on from the table it is replayed on.                               *)
ReplayContinues ==
    \A i \in DOMAIN log[TableServer] :
        LET v == log[TableServer][i].version
        IN \/ v <= disk.version + 1
           \/ \E j \in 1..(i - 1) : log[TableServer][j].version = v - 1

(* A tid that a client holds is durable at the server, so a server that    *)
(* restarts never gives it out again: no two ranks hold the same one.      *)
Held(r) == Tids(client[r].prepared) \cup client[r].commits
TidsDurable ==
    \A r \in Ranks :
        /\ \A t \in Held(r) : t <= disk.version
        /\ \A q \in Ranks \ {r} : Held(r) \cap Held(q) = {}

(* An update that is safe in the client's journal stays prepared at the    *)
(* server until it is committed there, whichever process dies and when: it *)
(* is not rolled back or forgotten.  A second death, by a failure or by an *)
(* assertion, can lose one: see AckIsLogged and AckIsCommitted.            *)
Deaths == {i \in 2..Now : \E r \in Ranks :
                mdsmap[i - 1][r] # "down" /\ mdsmap[i][r] = "down"}
OneDeath == \A i, j \in Deaths : i = j
NothingLost == OneDeath => done \subseteq table.snaps \cup Tids(table.pending)

(* No assertion of the two ends fails, but for the three that              *)
(* RollbackExpected, StrayBeforeReady and AgreeCarriesReply are about.     *)
AssertsHold ==
    asserts \subseteq {"rollback: pending", "agree: stray when ready",
                      "mksnap: decode snapid"}

(* Every update is decided in the end: the table has no pending ones and   *)
(* no client waits for an answer.                                          *)
Settled ==
    /\ table.pending = {}
    /\ \A r \in Ranks :
        LET c == client[r]
        IN c.ready /\ c.waiting = 0 /\ c.preparing = {} /\ c.commits = {}
Settles == <>[]Settled

-----------------------------------------------------------------------------
(* What the code says of itself and does not keep.                         *)

(* handle_rollback: "assert(pending_for_mds.count(tid))".                  *)
RollbackExpected == "rollback: pending" \notin asserts

(* handle_request: "assert(!server_ready)" on a stray AGREE.               *)
StrayBeforeReady == "agree: stray when ready" \notin asserts

(* handle_mds_recovery "resend agrees for recovered mds": what mksnap gets *)
(* is an AGREE like the first, with the snapid.                            *)
AgreeCarriesReply == "mksnap: decode snapid" \notin asserts

Acked(tids) ==
    \A r \in Ranks : \A i \in DOMAIN net[TableServer][r] :
        LET m == net[TableServer][r][i]
        IN m.op = "ACK" => m.tid \in tids

(* "_commit_logged, sending ACK": the commit is in the journal.            *)
AckIsLogged == Acked(disk.snaps)

(* "already committed, sending ack": the tid was committed.                *)
AckIsCommitted == Acked(table.snaps)

=============================================================================
