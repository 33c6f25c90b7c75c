---------------------------- MODULE MDSTable_proofs -----------------------------
(***************************************************************************)
(* Proofs about the MDS tables, for any set of ranks and any bounds: types,*)
(* tids (whoever dies, a tid a client holds is durable at the server and   *)
(* nobody else's) and assertions (only the three that the findings are     *)
(* about can fail).                                                        *)
(***************************************************************************)
EXTENDS MDSTable, FiniteSetTheorems, SequenceTheorems, TLAPS

ChannelsOf(M) == [Ranks -> [Ranks -> Seq(M)]]

-----------------------------------------------------------------------------
(* The messenger.                                                          *)

(* Sending messages of a set M down channels of M leaves channels of M.    *)
LEMMA SendType ==
    ASSUME NEW M, NEW n \in ChannelsOf(M), NEW r \in Ranks, NEW e,
           NEW q \in Ranks, NEW msgs \in Seq(M)
    PROVE  Send(n, r, e, q, msgs) \in ChannelsOf(M)
<1>1. n[r][q] \o msgs \in Seq(M)
    BY ConcatProperties DEF ChannelsOf
<1>2. [n EXCEPT ![r][q] = n[r][q] \o msgs] \in ChannelsOf(M)
    BY <1>1 DEF ChannelsOf
<1> QED
    BY <1>2 DEF Send

(* Receiving a message yields one of M and leaves channels of M.           *)
LEMMA TakenType ==
    ASSUME NEW M, net \in ChannelsOf(M), NEW x \in Ranks, NEW y \in Ranks,
           net[x][y] # <<>>
    PROVE  Head(net[x][y]) \in M /\ Taken(x, y) \in ChannelsOf(M)
<1>1. net[x][y] \in Seq(M)
    BY DEF ChannelsOf
<1>2. Head(net[x][y]) \in M /\ Tail(net[x][y]) \in Seq(M)
    BY <1>1, HeadTailProperties
<1> QED
    BY <1>2 DEF Taken, ChannelsOf

(* One message as a sequence.                                              *)
LEMMA OneMessage ==
    ASSUME NEW M, NEW m \in M
    PROVE  <<m>> \in Seq(M)
    OBVIOUS

(* The loops of the code send exactly messages of the set they run over.   *)
LEMMA InOrderType ==
    ASSUME NEW M, NEW msgs \in SUBSET M, IsFiniteSet(msgs),
           NEW s \in InOrder(msgs)
    PROVE  s \in Seq(M)
<1>1. Cardinality(msgs) \in Nat
    BY FS_CardinalityType
<1>2. s \in [1..Cardinality(msgs) -> msgs]
    BY DEF InOrder
<1> QED
    BY <1>1, <1>2

(* A process that dies leaves channels of M.                               *)
LEMMA GoneType ==
    ASSUME NEW M, net \in ChannelsOf(M), NEW r \in Ranks
    PROVE  [x \in Ranks |-> [net[x] EXCEPT ![r] = <<>>]] \in ChannelsOf(M)
    BY DEF ChannelsOf

-----------------------------------------------------------------------------
(* Finiteness of the sets the loops run over.                              *)

(* One message is a finite set.                                            *)
LEMMA FiniteSingle ==
    ASSUME NEW x
    PROVE  IsFiniteSet({x})
    BY FS_Singleton

(* So is a part of a finite set.                                           *)
LEMMA FiniteFilter ==
    ASSUME NEW S, IsFiniteSet(S), NEW T, T \subseteq S
    PROVE  IsFiniteSet(T)
    BY FS_Subset

(* So is a finite set and one more.                                        *)
LEMMA FiniteAdd ==
    ASSUME NEW S, IsFiniteSet(S), NEW x
    PROVE  IsFiniteSet(S \cup {x})
    BY FS_AddElement

(* The prepares that a SERVER_READY has sent again are finitely many.      *)
LEMMA FinitePrepares ==
    ASSUME NEW ids \in SUBSET Nat, IsFiniteSet(ids), NEW e
    PROVE  IsFiniteSet({Msg("PREPARE", i, 0, FALSE, e) : i \in ids})
<1> DEFINE T == {Msg("PREPARE", i, 0, FALSE, e) : i \in ids}
           f == [i \in ids |-> Msg("PREPARE", i, 0, FALSE, e)]
<1>1. f \in Surjection(ids, T)
    BY DEF Surjection
<1> QED
    BY <1>1, FS_Surjection

(* So are the commits it has sent again.                                   *)
LEMMA FiniteCommits ==
    ASSUME NEW tids \in SUBSET Nat, IsFiniteSet(tids), NEW e
    PROVE  IsFiniteSet({Msg("COMMIT", 0, t, FALSE, e) : t \in tids})
<1> DEFINE T == {Msg("COMMIT", 0, t, FALSE, e) : t \in tids}
           f == [t \in tids |-> Msg("COMMIT", 0, t, FALSE, e)]
<1>1. f \in Surjection(tids, T)
    BY DEF Surjection
<1> QED
    BY <1>1, FS_Surjection

(* So are the AGREEs that handle_mds_recovery resends.                     *)
LEMMA FiniteAgrees ==
    ASSUME IsFiniteSet(table.pending), NEW who, NEW e
    PROVE  IsFiniteSet(Agrees(who, e))
<1> DEFINE S == {x \in table.pending : x.mds = who}
           f == [p \in S |-> Msg("AGREE", p.reqid, p.tid, FALSE, e)]
<1>1. IsFiniteSet(S)
    BY FiniteFilter
<1>2. f \in Surjection(S, Agrees(who, e))
    BY DEF Surjection, Agrees
<1> QED
    BY <1>1, <1>2, FS_Surjection

-----------------------------------------------------------------------------
(* The shape of the state.                                                 *)

(* What Msg builds is a message.                                           *)
LEMMA MsgType ==
    ASSUME NEW op \in {"PREPARE", "AGREE", "COMMIT", "ACK", "ROLLBACK",
                       "SERVER_READY"},
           NEW reqid \in Nat, NEW tid \in Nat, NEW bl \in BOOLEAN, NEW e \in Nat
    PROVE  Msg(op, reqid, tid, bl, e) \in Message
    BY DEF Msg, Message

(* An update turns a table into a table, with finitely many pending.       *)
LEMMA AppliedType ==
    ASSUME NEW t \in Table, IsFiniteSet(t.pending), NEW type, NEW tid \in Nat,
           NEW mds \in Ranks, NEW reqid \in Nat
    PROVE  /\ Applied(t, type, tid, mds, reqid) \in Table
           /\ IsFiniteSet(Applied(t, type, tid, mds, reqid).pending)
<1> DEFINE new == [tid |-> tid, mds |-> mds, reqid |-> reqid]
           more == t.pending \cup {new}
           less == {p \in t.pending : p.tid # tid}
           next == CASE type = "PREPARE" -> more
                     [] type \in {"COMMIT", "ROLLBACK"} -> less
                     [] OTHER -> t.pending
<1>1. next \in {more, less, t.pending}
    OBVIOUS
<1>2. IsFiniteSet(more) /\ IsFiniteSet(less)
    BY FiniteAdd, FiniteFilter
<1>3. more \subseteq Pending /\ less \subseteq Pending
    BY DEF Table, Pending
<1>4. next \subseteq Pending /\ IsFiniteSet(next)
    BY <1>1, <1>2, <1>3 DEF Table
<1>5. /\ Applied(t, type, tid, mds, reqid).pending = next
      /\ Applied(t, type, tid, mds, reqid).version = t.version + 1
      /\ Applied(t, type, tid, mds, reqid).snaps \subseteq Nat
      /\ Applied(t, type, tid, mds, reqid) =
            [version |-> t.version + 1, pending |-> next,
             snaps |-> Applied(t, type, tid, mds, reqid).snaps]
    BY DEF Applied, Table
<1> QED
    BY <1>4, <1>5 DEF Table

(* Submitting an entry leaves journals of entries.                         *)
LEMMA SubmitType ==
    ASSUME log \in [Ranks -> Seq(Entry)], NEW r \in Ranks,
           NEW type \in {"PREPARE", "COMMIT", "ROLLBACK", "SERVER_UPDATE",
                         "EUpdate", "ETableClient"},
           NEW tid \in Nat, NEW mds \in Ranks, NEW reqid \in Nat,
           NEW version \in Nat, Submit(r, type, tid, mds, reqid, version)
    PROVE  log' \in [Ranks -> Seq(Entry)]
<1>1. [type |-> type, tid |-> tid, mds |-> mds, reqid |-> reqid,
       version |-> version] \in Entry
    BY DEF Entry
<1> QED
    BY <1>1, AppendProperties DEF Submit

(* An update of the server leaves a table and journals.                    *)
LEMMA UpdateType ==
    ASSUME TypeOK,
           NEW type \in {"PREPARE", "COMMIT", "ROLLBACK", "SERVER_UPDATE"},
           NEW tid \in Nat, NEW mds \in Ranks, NEW reqid \in Nat,
           Update(type, tid, mds, reqid)
    PROVE  /\ table' \in Table /\ IsFiniteSet(table'.pending)
           /\ log' \in [Ranks -> Seq(Entry)]
<1>1. table' \in Table /\ IsFiniteSet(table'.pending)
    BY AppliedType DEF Update, TypeOK
<1>2. table.version + 1 \in Nat
    BY DEF TypeOK, Table
<1>3. type \in {"PREPARE", "COMMIT", "ROLLBACK", "SERVER_UPDATE", "EUpdate",
                "ETableClient"}
    OBVIOUS
<1>4. /\ Submit(TableServer, type, tid, mds, reqid, table.version + 1)
      /\ log \in [Ranks -> Seq(Entry)]
    BY DEF Update, TypeOK
<1>5. log' \in [Ranks -> Seq(Entry)]
    BY <1>2, <1>3, <1>4, SubmitType, TableAssumption
<1> QED
    BY <1>1, <1>5

(* A new process of a client.                                              *)
LEMMA NewClientType ==
    ASSUME NEW tids \in SUBSET Nat
    PROVE  NewClient(tids) \in Client
    BY DEF NewClient, Client

(* The death of a process keeps the types, whoever dies and why.           *)
LEMMA DiesType ==
    ASSUME TypeOK, NEW r \in Ranks, NEW why, Dies(r, why),
           used' \in [prepare : 0..MaxPrepare, update : 0..MaxUpdate,
                      fail : 0..MaxFail]
    PROVE  TypeOK'
<1>1. mdsmap' \in Seq([Ranks -> MapState]) /\ Len(mdsmap') = Now + 1
    <2>1. [mdsmap[Now] EXCEPT ![r] = "down"] \in [Ranks -> MapState]
        BY DEF TypeOK, Now, MapState
    <2> QED
        BY <2>1, AppendProperties DEF Dies, TypeOK, Now
<1>2. mdsmap' # <<>> /\ epoch' \in [Ranks -> 1..Len(mdsmap')]
    BY <1>1 DEF Dies, TypeOK, Now
<1>3. table' \in Table /\ IsFiniteSet(table'.pending)
    BY DEF Dies, TypeOK
<1>4. client' \in [Ranks -> Client]
    BY NewClientType DEF Dies, TypeOK
<1>5. \A q \in Ranks : /\ client'[q].ready => client'[q].last # -1
                       /\ IsFiniteSet(client'[q].preparing)
                       /\ IsFiniteSet(client'[q].commits)
                       /\ IsFiniteSet(updates'[q])
    BY FS_EmptySet DEF Dies, TypeOK, NewClient
<1>6. log' \in [Ranks -> Seq(Entry)]
    BY DEF Dies, TypeOK
<1>7. net' \in Channels
    BY GoneType DEF Dies, TypeOK, Channels, ChannelsOf
<1> QED
    BY <1>1, <1>2, <1>3, <1>4, <1>5, <1>6, <1>7 DEF Dies, TypeOK, Now

(* The map a rank has is one of those published.                           *)
LEMMA EpochType ==
    ASSUME TypeOK, NEW r \in Ranks
    PROVE  Now \in Nat /\ epoch[r] \in Nat /\ epoch[r] \in 1..Now
<1>1. Now \in Nat
    BY LenProperties DEF TypeOK, Now
<1>2. epoch[r] \in 1..Now
    BY DEF TypeOK
<1> QED
    BY <1>1, <1>2

(* The counters of the bounded events.                                     *)
LEMMA CountType ==
    ASSUME TypeOK
    PROVE  /\ used.prepare < MaxPrepare => [used EXCEPT !.prepare = @ + 1] \in
                [prepare : 0..MaxPrepare, update : 0..MaxUpdate, fail : 0..MaxFail]
           /\ used.update < MaxUpdate => [used EXCEPT !.update = @ + 1] \in
                [prepare : 0..MaxPrepare, update : 0..MaxUpdate, fail : 0..MaxFail]
           /\ used.fail < MaxFail => [used EXCEPT !.fail = @ + 1] \in
                [prepare : 0..MaxPrepare, update : 0..MaxUpdate, fail : 0..MaxFail]
<1>1. used \in [prepare : 0..MaxPrepare, update : 0..MaxUpdate, fail : 0..MaxFail]
    BY DEF TypeOK
<1>2. MaxPrepare \in Nat /\ MaxUpdate \in Nat /\ MaxFail \in Nat
    BY TableAssumption
<1>3. used.prepare < MaxPrepare => used.prepare + 1 \in 0..MaxPrepare
    BY <1>1, <1>2
<1>4. used.update < MaxUpdate => used.update + 1 \in 0..MaxUpdate
    BY <1>1, <1>2
<1>5. used.fail < MaxFail => used.fail + 1 \in 0..MaxFail
    BY <1>1, <1>2
<1> QED
    BY <1>1, <1>3, <1>4, <1>5

(* What arrives is a message, and the rest of the channel keeps its type.  *)
LEMMA ArrivesType ==
    ASSUME TypeOK, NEW x \in Ranks, NEW y \in Ranks, Arrives(x, y)
    PROVE  /\ Head(net[x][y]) \in Message
           /\ Taken(x, y) \in Channels
           /\ epoch[y] \in Nat
<1>1. net \in ChannelsOf(Message) /\ net[x][y] # <<>>
    BY DEF Arrives, TypeOK, Channels, ChannelsOf
<1>2. Head(net[x][y]) \in Message /\ Taken(x, y) \in ChannelsOf(Message)
    BY <1>1, TakenType
<1>3. epoch[y] \in Nat
    BY EpochType
<1> QED
    BY <1>2, <1>3 DEF Channels, ChannelsOf

(* Sending one message.                                                    *)
LEMMA SendOneType ==
    ASSUME NEW n \in Channels, NEW r \in Ranks, NEW e \in Nat, NEW q \in Ranks,
           NEW op \in {"PREPARE", "AGREE", "COMMIT", "ACK", "ROLLBACK",
                       "SERVER_READY"},
           NEW reqid \in Nat, NEW tid \in Nat, NEW bl \in BOOLEAN
    PROVE  Send(n, r, e, q, <<Msg(op, reqid, tid, bl, e)>>) \in Channels
<1>1. Msg(op, reqid, tid, bl, e) \in Message
    BY MsgType
<1>2. <<Msg(op, reqid, tid, bl, e)>> \in Seq(Message)
    BY <1>1
<1> QED
    BY <1>2, SendType DEF Channels, ChannelsOf

(* A stale message that is dropped keeps the shape.                        *)
LEMMA DropStaleType ==
    ASSUME TypeOK, NEW x \in Ranks, NEW y \in Ranks, DropStale(x, y)
    PROVE  TypeOK'
    BY ArrivesType DEF DropStale, TypeOK, Now, cluster

(* handle_prepare keeps the shape.                                         *)
LEMMA HandlePrepareType ==
    ASSUME TypeOK, NEW r \in Ranks, HandlePrepare(r)
    PROVE  TypeOK'
<1> DEFINE m == Head(net[r][TableServer])
<1>1. m \in Message /\ Taken(r, TableServer) \in Channels
    BY ArrivesType, TableAssumption DEF HandlePrepare, Receives
<1>2. Update("PREPARE", table.version + 1, r, m.reqid)
    BY DEF HandlePrepare
<1>3. m.reqid \in Nat /\ table.version + 1 \in Nat
    BY <1>1 DEF Message, TypeOK, Table
<1>4. /\ table' \in Table /\ IsFiniteSet(table'.pending)
      /\ log' \in [Ranks -> Seq(Entry)]
    BY <1>2, <1>3, UpdateType
<1> QED
    BY <1>1, <1>4 DEF HandlePrepare, TypeOK, Now, cluster

(* handle_commit, its assertion included, keeps the shape.                 *)
LEMMA HandleCommitType ==
    ASSUME TypeOK, NEW r \in Ranks, HandleCommit(r)
    PROVE  TypeOK'
<1> DEFINE m == Head(net[r][TableServer])
           n == Taken(r, TableServer)
           e == epoch[TableServer]
<1>1. m \in Message /\ n \in Channels /\ e \in Nat
    BY ArrivesType, TableAssumption DEF HandleCommit, Receives
<1>2. m.tid \in Nat
    BY <1>1 DEF Message
<1>3. CASE /\ Update("COMMIT", m.tid, r, 0)
           /\ net' = n
           /\ UNCHANGED <<cluster, client, asserts>>
    <2>1. /\ table' \in Table /\ IsFiniteSet(table'.pending)
          /\ log' \in [Ranks -> Seq(Entry)]
        BY <1>2, <1>3, UpdateType
    <2> QED
        BY <1>1, <1>3, <2>1 DEF HandleCommit, TypeOK, Now, cluster
<1>4. CASE /\ net' = Send(n, TableServer, e, r,
                          <<Msg("ACK", 0, m.tid, FALSE, e)>>)
           /\ UNCHANGED <<cluster, table, client, log, asserts>>
    <2>1. net' \in Channels
        BY <1>1, <1>2, <1>4, SendOneType, TableAssumption
    <2> QED
        BY <1>4, <2>1 DEF HandleCommit, TypeOK, Now, cluster
<1>5. CASE Dies(TableServer, {"commit: tid <= version"})
    <2>1. used' = used
        BY DEF HandleCommit
    <2> QED
        BY <1>5, <2>1, DiesType, TableAssumption DEF TypeOK
<1> QED
    BY <1>3, <1>4, <1>5 DEF HandleCommit

(* handle_rollback, its assertion included, keeps the shape.               *)
LEMMA HandleRollbackType ==
    ASSUME TypeOK, NEW r \in Ranks, HandleRollback(r)
    PROVE  TypeOK'
<1> DEFINE tid == Head(net[r][TableServer]).tid
<1>1. Head(net[r][TableServer]) \in Message /\ Taken(r, TableServer) \in Channels
    BY ArrivesType, TableAssumption DEF HandleRollback, Receives
<1>2. tid \in Nat
    BY <1>1 DEF Message
<1>3. CASE /\ Update("ROLLBACK", tid, r, 0)
           /\ net' = Taken(r, TableServer)
           /\ UNCHANGED <<cluster, client, asserts>>
    <2>1. /\ table' \in Table /\ IsFiniteSet(table'.pending)
          /\ log' \in [Ranks -> Seq(Entry)]
        BY <1>2, <1>3, UpdateType
    <2> QED
        BY <1>1, <1>3, <2>1 DEF HandleRollback, TypeOK, Now, cluster
<1>4. CASE Dies(TableServer, {"rollback: pending"})
    <2>1. used' = used
        BY DEF HandleRollback
    <2> QED
        BY <1>4, <2>1, DiesType, TableAssumption DEF TypeOK
<1> QED
    BY <1>3, <1>4 DEF HandleRollback

(* do_server_update keeps the shape.                                       *)
LEMMA ServerUpdateType ==
    ASSUME TypeOK, ServerUpdate
    PROVE  TypeOK'
<1>1. Update("SERVER_UPDATE", 0, TableServer, 0)
    BY DEF ServerUpdate
<1>2. /\ table' \in Table /\ IsFiniteSet(table'.pending)
      /\ log' \in [Ranks -> Seq(Entry)]
    BY <1>1, UpdateType, TableAssumption
<1>3. used' \in [prepare : 0..MaxPrepare, update : 0..MaxUpdate,
                 fail : 0..MaxFail]
    BY CountType DEF ServerUpdate
<1> QED
    BY <1>2, <1>3 DEF ServerUpdate, TypeOK, Now, cluster

(* MDSTable::save keeps the shape.                                         *)
LEMMA SaveType ==
    ASSUME TypeOK, Save
    PROVE  TypeOK'
    BY DEF Save, TypeOK, Now, cluster

-----------------------------------------------------------------------------
(* The client that an action leaves at r, the others being as they were.   *)
ClientOK(c) ==
    /\ c \in Client
    /\ c.ready => c.last # -1
    /\ IsFiniteSet(c.preparing)
    /\ IsFiniteSet(c.commits)

(* Replacing one client by a well-formed one keeps them well-formed.       *)
LEMMA ClientsType ==
    ASSUME TypeOK, NEW r \in Ranks, NEW c, ClientOK(c),
           client' = [client EXCEPT ![r] = c]
    PROVE  /\ client' \in [Ranks -> Client]
           /\ \A q \in Ranks : /\ client'[q].ready => client'[q].last # -1
                               /\ IsFiniteSet(client'[q].preparing)
                               /\ IsFiniteSet(client'[q].commits)
    BY DEF ClientOK, TypeOK

(* _prepare keeps the shape.                                               *)
LEMMA PrepareType ==
    ASSUME TypeOK, NEW r \in Ranks, Prepare(r)
    PROVE  TypeOK'
<1> DEFINE c == client[r]
           e == epoch[r]
           later == [c EXCEPT !.waiting = @ + 1]
           sent == [c EXCEPT !.last = c.last + 1,
                             !.preparing = @ \cup {c.last + 1}]
<1>1. c \in Client /\ ClientOK(c) /\ e \in Nat
    BY EpochType DEF TypeOK, ClientOK
<1>2. used' \in [prepare : 0..MaxPrepare, update : 0..MaxUpdate,
                 fail : 0..MaxFail]
    BY CountType DEF Prepare
<1>3. CASE /\ client' = [client EXCEPT ![r].waiting = @ + 1]
           /\ UNCHANGED net
    <2>1. ClientOK(later)
        BY <1>1 DEF ClientOK, Client
    <2>2. client' = [client EXCEPT ![r] = later]
        BY <1>3
    <2> QED
        BY <1>2, <1>3, <2>1, <2>2, ClientsType
        DEF Prepare, TypeOK, Now, cluster
<1>4. CASE /\ c.last # -1
           /\ client' = [client EXCEPT ![r].last = c.last + 1,
                                       ![r].preparing = @ \cup {c.last + 1}]
           /\ net' = IF c.ready
                     THEN Send(net, r, e, TableServer,
                               <<Msg("PREPARE", c.last + 1, 0, FALSE, e)>>)
                     ELSE net
    <2>1. c.last + 1 \in Nat /\ c.last + 1 # -1
        BY <1>1, <1>4 DEF Client
    <2>2. IsFiniteSet(c.preparing \cup {c.last + 1})
        BY <1>1, FiniteAdd DEF ClientOK
    <2>3. ClientOK(sent)
        BY <1>1, <2>1, <2>2 DEF ClientOK, Client
    <2>4. client' = [client EXCEPT ![r] = sent]
        BY <1>4
    <2>5. net' \in Channels
        BY <1>1, <1>4, <2>1, SendOneType, TableAssumption DEF TypeOK
    <2> QED
        BY <1>2, <2>3, <2>4, <2>5, ClientsType DEF Prepare, TypeOK, Now, cluster
<1> QED
    BY <1>3, <1>4 DEF Prepare

(* handle_request on an AGREE keeps the shape.                             *)
LEMMA HandleAgreeType ==
    ASSUME TypeOK, NEW r \in Ranks, HandleAgree(r)
    PROVE  TypeOK'
<1> DEFINE m == Head(net[TableServer][r])
           c == client[r]
           n == Taken(TableServer, r)
           e == epoch[r]
           agreed == [c EXCEPT
                        !.preparing = @ \ {m.reqid},
                        !.prepared = {p \in @ : p.tid # m.tid} \cup
                                     {[tid |-> m.tid, reqid |-> m.reqid]},
                        !.retry = @ \cup {[tid |-> m.tid, bl |-> m.bl]}]
<1>1. m \in Message /\ n \in Channels /\ e \in Nat
    BY ArrivesType, TableAssumption DEF HandleAgree, Receives
<1>2. m.tid \in Nat /\ m.reqid \in Nat /\ m.bl \in BOOLEAN
    BY <1>1 DEF Message
<1>3. c \in Client /\ ClientOK(c)
    BY DEF TypeOK, ClientOK
<1>4. CASE /\ client' = [client EXCEPT
                ![r].preparing = @ \ {m.reqid},
                ![r].prepared = {p \in @ : p.tid # m.tid} \cup
                                {[tid |-> m.tid, reqid |-> m.reqid]},
                ![r].retry = @ \cup {[tid |-> m.tid, bl |-> m.bl]}]
           /\ net' = n
           /\ UNCHANGED <<cluster, table, log, asserts>>
    <2>1. IsFiniteSet(c.preparing \ {m.reqid})
        BY <1>3, FiniteFilter DEF ClientOK
    <2>2. ClientOK(agreed)
        <3> DEFINE prepared == {p \in c.prepared : p.tid # m.tid} \cup
                               {[tid |-> m.tid, reqid |-> m.reqid]}
                   retry == c.retry \cup {[tid |-> m.tid, bl |-> m.bl]}
        <3>1. prepared \subseteq [tid : Nat, reqid : Nat]
            BY <1>2, <1>3 DEF Client
        <3>2. retry \subseteq [tid : Nat, bl : BOOLEAN]
            BY <1>2, <1>3 DEF Client
        <3>3. agreed = [c EXCEPT !.preparing = @ \ {m.reqid},
                                 !.prepared = prepared, !.retry = retry]
            OBVIOUS
        <3> HIDE DEF prepared, retry, agreed, m, c
        <3>4. agreed \in Client
            BY <1>3, <3>1, <3>2, <3>3 DEF Client
        <3>5. /\ agreed.ready = c.ready /\ agreed.last = c.last
              /\ agreed.commits = c.commits
              /\ agreed.preparing = c.preparing \ {m.reqid}
            BY <1>3, <3>3 DEF Client
        <3> QED
            BY <1>3, <2>1, <3>4, <3>5 DEF ClientOK
    <2>3. client' = [client EXCEPT ![r] = agreed]
        BY <1>4
    <2> QED
        BY <1>1, <1>4, <2>2, <2>3, ClientsType
        DEF HandleAgree, TypeOK, Now, cluster
<1>5. CASE net' = n /\ UNCHANGED client /\ UNCHANGED <<cluster, table, log, asserts>>
    BY <1>1, <1>5 DEF HandleAgree, TypeOK, Now, cluster
<1>6. CASE /\ net' = Send(n, r, e, TableServer,
                          <<Msg("ROLLBACK", 0, m.tid, FALSE, e)>>)
           /\ UNCHANGED client
           /\ UNCHANGED <<cluster, table, log, asserts>>
    <2>1. net' \in Channels
        BY <1>1, <1>2, <1>6, SendOneType, TableAssumption
    <2> QED
        BY <1>6, <2>1 DEF HandleAgree, TypeOK, Now, cluster
<1>7. CASE \E why : Dies(r, why)
    <2>1. used' = used
        BY DEF HandleAgree
    <2> QED
        BY <1>7, <2>1, DiesType DEF TypeOK
<1> QED
    BY <1>4, <1>5, <1>6, <1>7 DEF HandleAgree

(* handle_request on an ACK keeps the shape.                               *)
LEMMA HandleAckType ==
    ASSUME TypeOK, NEW r \in Ranks, HandleAck(r)
    PROVE  TypeOK'
<1> DEFINE tid == Head(net[TableServer][r]).tid
           c == client[r]
           acked == [c EXCEPT !.commits = @ \ {tid}]
<1>1. Head(net[TableServer][r]) \in Message /\ Taken(TableServer, r) \in Channels
    BY ArrivesType, TableAssumption DEF HandleAck, Receives
<1>2. tid \in Nat
    BY <1>1 DEF Message
<1>3. CASE /\ client' = [client EXCEPT ![r].commits = @ \ {tid}]
           /\ Submit(r, "ETableClient", tid, r, 0, 0)
    <2>1. log' \in [Ranks -> Seq(Entry)]
        BY <1>2, <1>3, SubmitType DEF TypeOK
    <2>2. IsFiniteSet(c.commits \ {tid})
        BY FiniteFilter DEF TypeOK
    <2>3. ClientOK(acked)
        BY <2>2 DEF ClientOK, Client, TypeOK
    <2>4. client' = [client EXCEPT ![r] = acked]
        BY <1>3
    <2> QED
        BY <1>1, <2>1, <2>3, <2>4, ClientsType DEF HandleAck, TypeOK, Now, cluster
<1>4. CASE UNCHANGED <<client, log>>
    BY <1>1, <1>4 DEF HandleAck, TypeOK, Now, cluster
<1> QED
    BY <1>3, <1>4 DEF HandleAck

(* handle_request on a SERVER_READY keeps the shape.                       *)
LEMMA HandleServerReadyType ==
    ASSUME TypeOK, NEW r \in Ranks, HandleServerReady(r)
    PROVE  TypeOK'
<1> DEFINE c == client[r]
           m == Head(net[TableServer][r])
           n == Taken(TableServer, r)
           e == epoch[r]
           base == IF c.last = -1 THEN m.reqid ELSE c.last
           ids == c.preparing \cup (base + 1)..(base + c.waiting)
           prepares == {Msg("PREPARE", i, 0, FALSE, e) : i \in ids}
           commits == {Msg("COMMIT", 0, t, FALSE, e) : t \in c.commits}
           ready == [c EXCEPT !.ready = TRUE, !.last = base + c.waiting,
                              !.waiting = 0, !.preparing = ids]
<1>1. m \in Message /\ n \in Channels /\ e \in Nat
    BY ArrivesType, TableAssumption DEF HandleServerReady, Receives
<1>2. c \in Client /\ ClientOK(c)
    BY DEF TypeOK, ClientOK
<1>3. base \in Nat /\ base + c.waiting \in Nat
    BY <1>1, <1>2 DEF Client, Message
<1> HIDE DEF base
<1>4. ids \in SUBSET Nat
    BY <1>2, <1>3 DEF Client
<1>5. IsFiniteSet(ids)
    <2>1. base + 1 \in Int /\ base + c.waiting \in Int
        BY <1>3
    <2>2. IsFiniteSet((base + 1)..(base + c.waiting))
        BY <2>1, FS_Interval
    <2> QED
        BY <1>2, <2>2, FS_Union DEF ClientOK
<1>6. CASE Dies(r, {"server_ready: !server_ready"})
    <2>1. used' = used
        BY DEF HandleServerReady
    <2> QED
        BY <1>6, <2>1, DiesType DEF TypeOK
<1>7. CASE /\ client' = [client EXCEPT ![r].ready = TRUE,
                  ![r].last = base + c.waiting, ![r].waiting = 0,
                  ![r].preparing = ids]
           /\ \E ps \in InOrder(prepares), cs \in InOrder(commits) :
                  net' = Send(n, r, e, TableServer, ps \o cs)
           /\ UNCHANGED <<cluster, table, log, asserts>>
    <2>1. ClientOK(ready)
        <3> HIDE DEF ids, c
        <3>1. ready \in Client
            BY <1>2, <1>3, <1>4 DEF Client
        <3>2. /\ ready.last = base + c.waiting /\ ready.preparing = ids
              /\ ready.commits = c.commits
            BY <1>2 DEF Client
        <3> QED
            BY <1>2, <1>3, <1>5, <3>1, <3>2 DEF ClientOK
    <2>2. client' = [client EXCEPT ![r] = ready]
        BY <1>7
    <2>3. prepares \subseteq Message /\ IsFiniteSet(prepares)
        <3> HIDE DEF ids, e
        <3>1. \A i \in ids : Msg("PREPARE", i, 0, FALSE, e) \in Message
            BY <1>1, <1>4, MsgType
        <3>2. IsFiniteSet(prepares)
            BY <1>4, <1>5, FinitePrepares
        <3> QED
            BY <3>1, <3>2
    <2>4. commits \subseteq Message /\ IsFiniteSet(commits)
        <3> HIDE DEF c, e
        <3>1. c.commits \in SUBSET Nat /\ IsFiniteSet(c.commits)
            BY <1>2 DEF ClientOK, Client
        <3>2. \A t \in c.commits : Msg("COMMIT", 0, t, FALSE, e) \in Message
            BY <1>1, <3>1, MsgType
        <3>3. IsFiniteSet(commits)
            BY <3>1, FiniteCommits
        <3> QED
            BY <3>2, <3>3
    <2>5. PICK ps \in InOrder(prepares), cs \in InOrder(commits) :
                  net' = Send(n, r, e, TableServer, ps \o cs)
        BY <1>7
    <2>6. ps \in Seq(Message) /\ cs \in Seq(Message)
        BY <2>3, <2>4, InOrderType
    <2>7. ps \o cs \in Seq(Message)
        BY <2>6, ConcatProperties
    <2>8. net' \in Channels
        BY <1>1, <2>5, <2>7, SendType, TableAssumption DEF Channels, ChannelsOf
    <2> QED
        BY <1>7, <2>1, <2>2, <2>8, ClientsType
        DEF HandleServerReady, TypeOK, Now, cluster
<1> QED
    BY <1>6, <1>7 DEF HandleServerReady, base

(* The retried mksnap keeps the shape.                                     *)
LEMMA MksnapType ==
    ASSUME TypeOK, NEW r \in Ranks, Mksnap(r)
    PROVE  TypeOK'
<1>1. PICK q \in client[r].retry :
        \/ /\ client' = [client EXCEPT ![r].retry = @ \ {q}]
           /\ Submit(r, "EUpdate", q.tid, r, 0, 0)
           /\ UNCHANGED <<cluster, table, net, asserts>>
        \/ Dies(r, {"mksnap: decode snapid"})
    BY DEF Mksnap
<1> DEFINE rest == [client[r] EXCEPT !.retry = @ \ {q}]
<1>2. UNCHANGED <<disk, updates, done, used>>
    BY DEF Mksnap
<1>3. q.tid \in Nat
    BY DEF TypeOK, Client
<1>4. CASE /\ client' = [client EXCEPT ![r].retry = @ \ {q}]
           /\ Submit(r, "EUpdate", q.tid, r, 0, 0)
           /\ UNCHANGED <<cluster, table, net, asserts>>
    <2>1. log' \in [Ranks -> Seq(Entry)]
        BY <1>3, <1>4, SubmitType DEF TypeOK
    <2>2. ClientOK(rest)
        BY DEF ClientOK, Client, TypeOK
    <2>3. client' = [client EXCEPT ![r] = rest]
        BY <1>4
    <2> QED
        BY <1>2, <1>4, <2>1, <2>2, <2>3, ClientsType DEF TypeOK, Now, cluster
<1>5. CASE Dies(r, {"mksnap: decode snapid"})
    BY <1>2, <1>5, DiesType DEF TypeOK
<1> QED
    BY <1>1, <1>4, <1>5

(* An entry that becomes safe leaves what a replay yields well-formed.     *)
LEMMA JournalledType ==
    ASSUME TypeOK, NEW r \in Ranks, log[r] # <<>>, Journalled(r, Head(log[r]))
    PROVE  /\ Head(log[r]) \in Entry
           /\ log' \in [Ranks -> Seq(Entry)]
           /\ disk' \in Table /\ IsFiniteSet(disk'.pending)
           /\ updates' \in [Ranks -> SUBSET Nat]
           /\ \A q \in Ranks : IsFiniteSet(updates'[q])
           /\ done' \subseteq Nat
<1> DEFINE x == Head(log[r])
<1>1. x \in Entry /\ Tail(log[r]) \in Seq(Entry)
    BY HeadTailProperties DEF TypeOK
<1>2. log' \in [Ranks -> Seq(Entry)]
    BY <1>1 DEF Journalled, TypeOK
<1>3. x.tid \in Nat /\ x.mds \in Ranks /\ x.reqid \in Nat
    BY <1>1 DEF Entry
<1> HIDE DEF x
<1>4. disk' \in Table /\ IsFiniteSet(disk'.pending)
    <2>1. \/ disk' = disk
          \/ disk' = Applied(disk, x.type, x.tid, x.mds, x.reqid)
        BY DEF Journalled, Replayed, x
    <2> QED
        BY <1>3, <2>1, AppliedType DEF TypeOK
<1>5. /\ updates' \in [Ranks -> SUBSET Nat]
      /\ \A q \in Ranks : IsFiniteSet(updates'[q])
    <2> DEFINE u == updates[r]
               v == CASE x.type = "EUpdate" -> u \cup {x.tid}
                      [] x.type = "ETableClient" -> u \ {x.tid}
                      [] OTHER -> u
    <2>1. u \subseteq Nat /\ IsFiniteSet(u)
        BY DEF TypeOK
    <2>2. IsFiniteSet(u \cup {x.tid}) /\ IsFiniteSet(u \ {x.tid})
        BY <2>1, FiniteAdd, FiniteFilter
    <2>3. v \in {u \cup {x.tid}, u \ {x.tid}, u}
        OBVIOUS
    <2>4. v \subseteq Nat /\ IsFiniteSet(v)
        BY <1>3, <2>1, <2>2, <2>3
    <2>5. updates' = [updates EXCEPT ![r] = v]
        BY DEF Journalled, x
    <2> HIDE DEF v
    <2> QED
        BY <2>4, <2>5 DEF TypeOK
<1>6. done' \subseteq Nat
    BY <1>3 DEF Journalled, TypeOK, x
<1> QED
    BY <1>1, <1>2, <1>4, <1>5, <1>6 DEF x

(* A journal callback of the table keeps the shape.                        *)
LEMMA TableLoggedType ==
    ASSUME TypeOK, NEW r \in Ranks, TableLogged(r)
    PROVE  TypeOK'
<1> DEFINE x == Head(log[r])
           e == epoch[r]
<1>1. log[r] # <<>> /\ Journalled(r, x)
    BY DEF TableLogged
<1>2. x \in Entry /\ e \in Nat
    BY <1>1, JournalledType, EpochType
<1>3. net' \in Channels
    <2>1. \/ net' = net
          \/ net' = Send(net, r, e, x.mds,
                         <<Msg("AGREE", x.reqid, x.tid, TRUE, e)>>)
          \/ net' = Send(net, r, e, x.mds, <<Msg("ACK", 0, x.tid, FALSE, e)>>)
        BY DEF TableLogged
    <2>2. x.mds \in Ranks /\ x.reqid \in Nat /\ x.tid \in Nat
        BY <1>2 DEF Entry
    <2>3. net \in Channels
        BY DEF TypeOK
    <2> HIDE DEF x, e
    <2>4. Send(net, r, e, x.mds, <<Msg("AGREE", x.reqid, x.tid, TRUE, e)>>)
            \in Channels
        BY <1>2, <2>2, <2>3, SendOneType
    <2>5. Send(net, r, e, x.mds, <<Msg("ACK", 0, x.tid, FALSE, e)>>) \in Channels
        BY <1>2, <2>2, <2>3, SendOneType
    <2> QED
        BY <2>1, <2>3, <2>4, <2>5
<1> QED
    BY <1>1, <1>3, JournalledType DEF TableLogged, TypeOK, Now, cluster

(* _mksnap_finish with commit keeps the shape.                             *)
LEMMA CommitType ==
    ASSUME TypeOK, NEW r \in Ranks, Commit(r)
    PROVE  TypeOK'
<1> DEFINE x == Head(log[r])
           e == epoch[r]
           c == client[r]
           now == [c EXCEPT !.prepared = {p \in @ : p.tid # x.tid},
                            !.commits = @ \cup {x.tid}]
<1>1. log[r] # <<>> /\ e \in Nat
    BY EpochType DEF Commit
<1>2. CASE /\ Journalled(r, x)
           /\ client' = [client EXCEPT
                  ![r].prepared = {p \in @ : p.tid # x.tid},
                  ![r].commits = @ \cup {x.tid}]
           /\ net' = IF client[r].ready
                     THEN Send(net, r, e, TableServer,
                               <<Msg("COMMIT", 0, x.tid, FALSE, e)>>)
                     ELSE net
           /\ UNCHANGED <<cluster, table, asserts>>
    <2>1. x.tid \in Nat
        BY <1>1, <1>2, JournalledType DEF Entry
    <2>2. net' \in Channels
        BY <1>1, <1>2, <2>1, SendOneType, TableAssumption DEF TypeOK
    <2>3. ClientOK(now)
        <3>1. c \in Client /\ ClientOK(c)
            BY DEF TypeOK, ClientOK
        <3> HIDE DEF c, x
        <3>2. IsFiniteSet(c.commits \cup {x.tid})
            BY <3>1, FiniteAdd DEF ClientOK
        <3> QED
            BY <2>1, <3>1, <3>2 DEF ClientOK, Client
    <2>4. client' = [client EXCEPT ![r] = now]
        BY <1>2
    <2> HIDE DEF now
    <2>5. used' = used
        BY DEF Commit
    <2> QED
        BY <1>1, <1>2, <2>2, <2>3, <2>4, <2>5, JournalledType, ClientsType
        DEF TypeOK, Now, cluster
<1>3. CASE Dies(r, {"commit: prepared_update.count(tid)"})
    <2>1. used' = used
        BY DEF Commit
    <2> QED
        BY <1>3, <2>1, DiesType DEF TypeOK
<1> QED
    BY <1>2, <1>3 DEF Commit

(* The expiry of a segment keeps the shape.                                *)
LEMMA ExpireType ==
    ASSUME TypeOK, NEW r \in Ranks, Expire(r)
    PROVE  TypeOK'
<1>1. IsFiniteSet(updates[r] \cap client[r].commits)
    BY FiniteFilter DEF TypeOK
<1>2. /\ updates' \in [Ranks -> SUBSET Nat]
      /\ \A q \in Ranks : IsFiniteSet(updates'[q])
    BY <1>1 DEF Expire, TypeOK
<1> QED
    BY <1>2 DEF Expire, TypeOK, Now, cluster

(* The failure of a process keeps the shape.                               *)
LEMMA FailType ==
    ASSUME TypeOK, NEW r \in Ranks, Fail(r)
    PROVE  TypeOK'
    BY CountType, DiesType DEF Fail

(* A map that changes the state of one rank.                               *)
LEMMA PublishedType ==
    ASSUME TypeOK, NEW r \in Ranks, NEW st \in MapState, Published(r, st)
    PROVE  /\ mdsmap' \in Seq([Ranks -> MapState]) /\ mdsmap' # <<>>
           /\ Len(mdsmap') = Now + 1 /\ Now \in Nat
<1>1. [mdsmap[Now] EXCEPT ![r] = st] \in [Ranks -> MapState]
    BY DEF TypeOK, Now
<1> QED
    BY <1>1, AppendProperties, LenProperties DEF Published, TypeOK, Now

(* A standby that takes over keeps the shape.                              *)
LEMMA TakeoverType ==
    ASSUME TypeOK, NEW r \in Ranks, Takeover(r)
    PROVE  TypeOK'
<1>1. /\ mdsmap' \in Seq([Ranks -> MapState]) /\ mdsmap' # <<>>
      /\ Len(mdsmap') = Now + 1 /\ Now \in Nat
    BY PublishedType DEF Takeover, MapState
<1>2. epoch' \in [Ranks -> 1..Len(mdsmap')]
    BY <1>1 DEF Takeover, TypeOK
<1> QED
    BY <1>1, <1>2 DEF Takeover, TypeOK, Now

(* A rank that becomes active keeps the shape.                             *)
LEMMA MonActiveType ==
    ASSUME TypeOK, NEW r \in Ranks, MonActive(r)
    PROVE  TypeOK'
<1>1. /\ mdsmap' \in Seq([Ranks -> MapState]) /\ mdsmap' # <<>>
      /\ Len(mdsmap') = Now + 1 /\ Now \in Nat
    BY PublishedType DEF MonActive, MapState
<1>2. epoch' \in [Ranks -> 1..Len(mdsmap')]
    BY <1>1 DEF MonActive, TypeOK
<1> QED
    BY <1>1, <1>2 DEF MonActive, TypeOK, Now

(* The AGREEs that are sent again, and SERVER_READY, are messages.         *)
LEMMA GreetingsType ==
    ASSUME TypeOK, NEW q \in Ranks, NEW e \in Nat, NEW s \in Greetings(q, e)
    PROVE  s \in Seq(Message)
<1>1. PICK agrees \in InOrder(Agrees(q, e)), n \in NextReqid(q) :
            s = Append(agrees, Ready(n, e))
    BY DEF Greetings
<1>2. \A p \in table.pending : p.reqid \in Nat /\ p.tid \in Nat
    BY DEF TypeOK, Table, Pending
<1>3. Agrees(q, e) \subseteq Message
    BY <1>2, MsgType DEF Agrees
<1>4. IsFiniteSet(Agrees(q, e))
    BY FiniteAgrees DEF TypeOK
<1>5. agrees \in Seq(Message)
    BY <1>3, <1>4, InOrderType
<1>6. n \in Nat
    BY <1>2 DEF NextReqid
<1>7. Ready(n, e) \in Message
    BY <1>6, MsgType DEF Ready
<1> QED
    BY <1>1, <1>5, <1>7, AppendProperties

(* handle_mds_map keeps the shape.                                         *)
LEMMA HandleMdsMapType ==
    ASSUME TypeOK, NEW r \in Ranks, HandleMdsMap(r)
    PROVE  TypeOK'
<1> DEFINE e == epoch[r] + 1
           old == View(r)
           new == mdsmap[e]
           greet == IF r # TableServer \/ new[r] # "active" THEN {}
                    ELSE {q \in Ranks : new[q] = "active" /\
                                        (old[r] = "active" => old[q] # "active")}
           failed == [client[r] EXCEPT !.ready = FALSE]
<1>1. e \in 1..Now /\ e \in Nat /\ Now \in Nat
    BY EpochType DEF HandleMdsMap
<1>2. epoch' \in [Ranks -> 1..Now]
    <2>1. epoch' = [epoch EXCEPT ![r] = e]
        BY DEF HandleMdsMap
    <2> HIDE DEF e
    <2> QED
        BY <1>1, <2>1 DEF TypeOK
<1>3. /\ client' \in [Ranks -> Client]
      /\ \A q \in Ranks : /\ client'[q].ready => client'[q].last # -1
                          /\ IsFiniteSet(client'[q].preparing)
                          /\ IsFiniteSet(client'[q].commits)
    <2>1. client' = client \/ client' = [client EXCEPT ![r] = failed]
        BY DEF HandleMdsMap
    <2>2. ClientOK(failed)
        BY DEF ClientOK, Client, TypeOK
    <2> HIDE DEF failed
    <2> QED
        BY <2>1, <2>2, ClientsType DEF TypeOK
<1>4. net' \in Channels
    <2>1. PICK out \in [greet -> UNION {Greetings(q, e) : q \in greet}] :
            /\ \A q \in greet : out[q] \in Greetings(q, e)
            /\ net' = [net EXCEPT ![r] = [q \in Ranks |->
                    IF q \in greet /\ Reaches(e, q)
                    THEN @[q] \o out[q] ELSE @[q]]]
        BY DEF HandleMdsMap
    <2>2. greet \subseteq Ranks
        OBVIOUS
    <2> HIDE DEF greet, e
    <2>3. \A q \in greet : out[q] \in Seq(Message)
        BY <1>1, <2>1, <2>2, GreetingsType
    <2>4. \A q \in greet : net[r][q] \o out[q] \in Seq(Message)
        BY <2>2, <2>3, ConcatProperties DEF TypeOK, Channels
    <2> QED
        BY <2>1, <2>2, <2>4 DEF TypeOK, Channels
<1> QED
    BY <1>2, <1>3, <1>4 DEF HandleMdsMap, TypeOK, Now

-----------------------------------------------------------------------------
(* The first state has the shape.                                          *)
LEMMA InitType == Init => TypeOK
<1> SUFFICES ASSUME Init PROVE TypeOK
    OBVIOUS
<1>1. mdsmap \in Seq([Ranks -> MapState]) /\ mdsmap # <<>> /\ Now = 1
    BY DEF Init, MapState, Now
<1>2. epoch \in [Ranks -> 1..Now]
    BY <1>1 DEF Init
<1>3. table \in Table /\ IsFiniteSet(table.pending) /\ disk = table
    BY FS_EmptySet DEF Init, Table
<1>4. /\ client \in [Ranks -> Client]
      /\ \A r \in Ranks : /\ client[r].ready => client[r].last # -1
                          /\ IsFiniteSet(client[r].preparing)
                          /\ IsFiniteSet(client[r].commits)
                          /\ IsFiniteSet(updates[r])
    <2> DEFINE c == [NewClient({}) EXCEPT !.ready = TRUE, !.last = 0]
    <2>1. ClientOK(c)
        <3> DEFINE n == NewClient({})
        <3>1. n \in Client /\ n.preparing = {} /\ n.commits = {}
            BY NewClientType DEF NewClient
        <3>2. c = [n EXCEPT !.ready = TRUE, !.last = 0]
            OBVIOUS
        <3> HIDE DEF n, c
        <3>3. c \in Client
            BY <3>1, <3>2 DEF Client
        <3>4. c.last = 0 /\ c.preparing = {} /\ c.commits = {}
            BY <3>1, <3>2 DEF Client
        <3> QED
            BY <3>3, <3>4, FS_EmptySet DEF ClientOK
    <2>2. \A r \in Ranks : client[r] = c /\ updates[r] = {}
        BY DEF Init
    <2>3. client = [r \in Ranks |-> c]
        BY DEF Init
    <2> HIDE DEF c
    <2> QED
        BY <2>1, <2>2, <2>3, FS_EmptySet DEF ClientOK
<1>5. used \in [prepare : 0..MaxPrepare, update : 0..MaxUpdate, fail : 0..MaxFail]
    BY TableAssumption DEF Init
<1> QED
    BY <1>1, <1>2, <1>3, <1>4, <1>5 DEF Init, TypeOK, Channels

(* Every step keeps it.                                                    *)
LEMMA NextType == TypeOK /\ [Next]_vars => TypeOK'
<1> SUFFICES ASSUME TypeOK, [Next]_vars PROVE TypeOK'
    OBVIOUS
<1>1. CASE \E x, y \in Ranks : DropStale(x, y)
    BY <1>1, DropStaleType
<1>2. ASSUME NEW r \in Ranks,
             \/ HandlePrepare(r) \/ HandleCommit(r) \/ HandleRollback(r)
      PROVE  TypeOK'
    BY <1>2, HandlePrepareType, HandleCommitType, HandleRollbackType
<1>3. ASSUME NEW r \in Ranks,
             \/ Prepare(r) \/ HandleAgree(r) \/ HandleAck(r)
             \/ HandleServerReady(r) \/ Mksnap(r)
      PROVE  TypeOK'
    BY <1>3, PrepareType, HandleAgreeType, HandleAckType,
       HandleServerReadyType, MksnapType
<1>4. ASSUME NEW r \in Ranks, TableLogged(r) \/ Commit(r) \/ Expire(r)
      PROVE  TypeOK'
    BY <1>4, TableLoggedType, CommitType, ExpireType
<1>5. ASSUME NEW r \in Ranks,
             Fail(r) \/ Takeover(r) \/ MonActive(r) \/ HandleMdsMap(r)
      PROVE  TypeOK'
    BY <1>5, FailType, TakeoverType, MonActiveType, HandleMdsMapType
<1>6. CASE ServerUpdate \/ Save
    BY <1>6, ServerUpdateType, SaveType
<1>7. CASE UNCHANGED vars
    BY <1>7 DEF vars, cluster, TypeOK, Now
<1> QED
    BY <1>1, <1>2, <1>3, <1>4, <1>5, <1>6, <1>7 DEF Next, Progress

(* The state keeps its shape, whatever processes die and when: for every   *)
(* set of ranks and every bound.                                           *)
THEOREM TypeCorrect == Spec => []TypeOK
<1>1. Init => TypeOK
    BY InitType
<1>2. TypeOK /\ [Next]_vars => TypeOK'
    BY NextType
<1> QED
    BY <1>1, <1>2, PTL DEF Spec

-----------------------------------------------------------------------------
(* No snapshot without its update.  SnapsJournalled is not inductive: a    *)
(* COMMIT that is on its way, waits in the journal of the server, or will  *)
(* be sent again by a client, before or after its next replay, has to be   *)
(* one whose update is safe.                                               *)
Justified(d) == {m \in Message : m.op = "COMMIT" => m.tid \in d}
JustifiedEntry(d) == {x \in Entry : x.type = "COMMIT" => x.tid \in d}
Causal ==
    /\ net \in ChannelsOf(Justified(done))
    /\ log \in [Ranks -> Seq(JustifiedEntry(done))]
    /\ table.snaps \subseteq done /\ disk.snaps \subseteq done
    /\ \A r \in Ranks : client[r].commits \subseteq done /\ updates[r] \subseteq done

(* Sequences over a set are sequences over a larger one.                   *)
LEMMA SeqMono ==
    ASSUME NEW A, NEW B, A \subseteq B, NEW s \in Seq(A)
    PROVE  s \in Seq(B)
    BY LenProperties

(* Sending one message that is no COMMIT, or one that is justified.        *)
LEMMA SendJustified ==
    ASSUME NEW d, NEW n \in ChannelsOf(Justified(d)), NEW r \in Ranks,
           NEW e \in Nat, NEW q \in Ranks,
           NEW op \in {"PREPARE", "AGREE", "COMMIT", "ACK", "ROLLBACK",
                       "SERVER_READY"},
           NEW reqid \in Nat, NEW tid \in Nat, NEW bl \in BOOLEAN,
           op = "COMMIT" => tid \in d
    PROVE  Send(n, r, e, q, <<Msg(op, reqid, tid, bl, e)>>) \in
                ChannelsOf(Justified(d))
<1> DEFINE m == Msg(op, reqid, tid, bl, e)
<1>1. m \in Message /\ m.op = op /\ m.tid = tid
    BY MsgType DEF Msg
<1> HIDE DEF m
<1>2. m \in Justified(d)
    BY <1>1 DEF Justified
<1>3. <<m>> \in Seq(Justified(d))
    BY <1>2, OneMessage
<1>4. Send(n, r, e, q, <<m>>) \in ChannelsOf(Justified(d))
    BY <1>3, SendType
<1> QED
    BY <1>4 DEF m

(* What arrives is justified, and so is what is left.                      *)
LEMMA ArrivesJustified ==
    ASSUME Causal, NEW x \in Ranks, NEW y \in Ranks, Arrives(x, y)
    PROVE  /\ Head(net[x][y]) \in Justified(done)
           /\ Taken(x, y) \in ChannelsOf(Justified(done))
    BY TakenType DEF Arrives, Causal

(* Submitting an entry that is no COMMIT, or a justified one.              *)
LEMMA SubmitJustified ==
    ASSUME Causal, NEW r \in Ranks,
           NEW type \in {"PREPARE", "COMMIT", "ROLLBACK", "SERVER_UPDATE",
                         "EUpdate", "ETableClient"},
           NEW tid \in Nat, NEW mds \in Ranks, NEW reqid \in Nat,
           NEW version \in Nat, type = "COMMIT" => tid \in done,
           Submit(r, type, tid, mds, reqid, version)
    PROVE  log' \in [Ranks -> Seq(JustifiedEntry(done))]
<1> DEFINE x == [type |-> type, tid |-> tid, mds |-> mds, reqid |-> reqid,
                 version |-> version]
<1>1. x \in JustifiedEntry(done)
    BY DEF JustifiedEntry, Entry
<1>2. log' = [log EXCEPT ![r] = Append(@, x)]
    BY DEF Submit
<1> HIDE DEF x
<1> QED
    BY <1>1, <1>2, AppendProperties DEF Causal

(* An update of the server that is no COMMIT, or a justified one.          *)
LEMMA UpdateJustified ==
    ASSUME TypeOK, Causal,
           NEW type \in {"PREPARE", "COMMIT", "ROLLBACK", "SERVER_UPDATE"},
           NEW tid \in Nat, NEW mds \in Ranks, NEW reqid \in Nat,
           type = "COMMIT" => tid \in done,
           Update(type, tid, mds, reqid)
    PROVE  /\ table'.snaps \subseteq done
           /\ log' \in [Ranks -> Seq(JustifiedEntry(done))]
<1>1. table'.snaps \subseteq done
    BY DEF Update, Applied, Causal
<1>2. table.version + 1 \in Nat
    BY DEF TypeOK, Table
<1>3. type \in {"PREPARE", "COMMIT", "ROLLBACK", "SERVER_UPDATE", "EUpdate",
                "ETableClient"}
    OBVIOUS
<1>4. Submit(TableServer, type, tid, mds, reqid, table.version + 1)
    BY DEF Update
<1> QED
    BY <1>1, <1>2, <1>3, <1>4, SubmitJustified, TableAssumption

(* A crash loses memory only: what the journals say stays justified.       *)
LEMMA DiesCausal ==
    ASSUME TypeOK, Causal, NEW r \in Ranks, NEW why, Dies(r, why)
    PROVE  Causal'
<1>1. net' \in ChannelsOf(Justified(done))
    BY GoneType DEF Dies, Causal
<1>2. log' \in [Ranks -> Seq(JustifiedEntry(done))]
    BY DEF Dies, Causal
<1>3. table'.snaps \subseteq done /\ disk'.snaps \subseteq done
    BY DEF Dies, Causal
<1>4. \A q \in Ranks : client'[q].commits \subseteq done
    BY DEF Dies, Causal, NewClient, TypeOK
<1> QED
    BY <1>1, <1>2, <1>3, <1>4 DEF Dies, Causal

-----------------------------------------------------------------------------
(* Step by step.                                                           *)

(* The handlers of the server keep Causal.                                 *)
LEMMA ServerCausal ==
    ASSUME TypeOK, Causal, NEW r \in Ranks,
           HandlePrepare(r) \/ HandleCommit(r) \/ HandleRollback(r)
    PROVE  Causal'
<1> DEFINE m == Head(net[r][TableServer])
           n == Taken(r, TableServer)
           e == epoch[TableServer]
<1>1. Arrives(r, TableServer)
    BY DEF HandlePrepare, HandleCommit, HandleRollback, Receives
<1>2. /\ m \in Message /\ m \in Justified(done) /\ e \in Nat
      /\ n \in ChannelsOf(Justified(done))
    BY <1>1, ArrivesType, ArrivesJustified, TableAssumption
<1>3. m.tid \in Nat /\ m.reqid \in Nat /\ table.version + 1 \in Nat
    BY <1>2 DEF Message, TypeOK, Table
<1>4. m.op = "COMMIT" => m.tid \in done
    BY <1>2 DEF Justified
<1>5. CASE HandlePrepare(r)
    <2>1. Update("PREPARE", table.version + 1, r, m.reqid)
        BY <1>5 DEF HandlePrepare
    <2>2. /\ table'.snaps \subseteq done
          /\ log' \in [Ranks -> Seq(JustifiedEntry(done))]
        BY <1>3, <2>1, UpdateJustified
    <2> QED
        BY <1>2, <1>5, <2>2 DEF HandlePrepare, Causal
<1>6. CASE HandleCommit(r)
    <2>1. m.tid \in done /\ UNCHANGED <<disk, updates, done>>
        BY <1>4, <1>6 DEF HandleCommit, Receives
    <2>2. CASE /\ Update("COMMIT", m.tid, r, 0)
               /\ net' = n
               /\ UNCHANGED <<cluster, client, asserts>>
        <3>1. /\ table'.snaps \subseteq done
              /\ log' \in [Ranks -> Seq(JustifiedEntry(done))]
            BY <1>3, <2>1, <2>2, UpdateJustified
        <3> QED
            BY <1>2, <2>1, <2>2, <3>1 DEF Causal
    <2>3. CASE /\ net' = Send(n, TableServer, e, r,
                              <<Msg("ACK", 0, m.tid, FALSE, e)>>)
               /\ UNCHANGED <<cluster, table, client, log, asserts>>
        <3>1. net' \in ChannelsOf(Justified(done))
            BY <1>2, <1>3, <2>3, SendJustified, TableAssumption
        <3> QED
            BY <2>1, <2>3, <3>1 DEF Causal
    <2>4. CASE Dies(TableServer, {"commit: tid <= version"})
        BY <2>4, DiesCausal, TableAssumption
    <2> QED
        BY <1>6, <2>2, <2>3, <2>4 DEF HandleCommit
<1>7. CASE HandleRollback(r)
    <2>1. UNCHANGED <<disk, updates, done>>
        BY <1>7 DEF HandleRollback
    <2>2. CASE /\ Update("ROLLBACK", m.tid, r, 0)
               /\ net' = n
               /\ UNCHANGED <<cluster, client, asserts>>
        <3>1. /\ table'.snaps \subseteq done
              /\ log' \in [Ranks -> Seq(JustifiedEntry(done))]
            BY <1>3, <2>2, UpdateJustified
        <3> QED
            BY <1>2, <2>1, <2>2, <3>1 DEF Causal
    <2>3. CASE Dies(TableServer, {"rollback: pending"})
        BY <2>3, DiesCausal, TableAssumption
    <2> QED
        BY <1>7, <2>2, <2>3 DEF HandleRollback
<1> QED
    BY <1>5, <1>6, <1>7

(* _prepare keeps Causal.                                                  *)
LEMMA PrepareCausal ==
    ASSUME TypeOK, Causal, NEW r \in Ranks, Prepare(r)
    PROVE  Causal'
<1> DEFINE c == client[r]
           e == epoch[r]
<1>1. UNCHANGED <<table, log, disk, updates, done>> /\ e \in Nat
    BY EpochType DEF Prepare
<1>2. \A q \in Ranks : client'[q].commits = client[q].commits
    <2>1. CASE client' = [client EXCEPT ![r].waiting = @ + 1]
        BY <2>1 DEF TypeOK, Client
    <2>2. CASE client' = [client EXCEPT ![r].last = c.last + 1,
                                        ![r].preparing = @ \cup {c.last + 1}]
        BY <2>2 DEF TypeOK, Client
    <2> QED
        BY <2>1, <2>2 DEF Prepare
<1>3. net' \in ChannelsOf(Justified(done))
    <2>1. CASE net' = net
        BY <2>1 DEF Causal
    <2>2. CASE /\ c.last # -1
               /\ net' = Send(net, r, e, TableServer,
                              <<Msg("PREPARE", c.last + 1, 0, FALSE, e)>>)
        <3>1. c.last + 1 \in Nat
            BY <2>2 DEF TypeOK, Client
        <3> QED
            BY <1>1, <2>2, <3>1, SendJustified, TableAssumption DEF Causal
    <2> QED
        BY <2>1, <2>2 DEF Prepare
<1> QED
    BY <1>1, <1>2, <1>3 DEF Causal

(* handle_request on an AGREE keeps Causal.                                *)
LEMMA HandleAgreeCausal ==
    ASSUME TypeOK, Causal, NEW r \in Ranks, HandleAgree(r)
    PROVE  Causal'
<1> DEFINE m == Head(net[TableServer][r])
           n == Taken(TableServer, r)
           e == epoch[r]
<1>1. /\ m \in Message /\ e \in Nat /\ n \in ChannelsOf(Justified(done))
      /\ UNCHANGED <<disk, updates, done>>
    BY ArrivesType, ArrivesJustified, TableAssumption DEF HandleAgree, Receives
<1>2. m.tid \in Nat
    BY <1>1 DEF Message
<1>3. CASE /\ client' = [client EXCEPT
                ![r].preparing = @ \ {m.reqid},
                ![r].prepared = {p \in @ : p.tid # m.tid} \cup
                                {[tid |-> m.tid, reqid |-> m.reqid]},
                ![r].retry = @ \cup {[tid |-> m.tid, bl |-> m.bl]}]
           /\ net' = n
           /\ UNCHANGED <<cluster, table, log, asserts>>
    <2>1. \A q \in Ranks : client'[q].commits = client[q].commits
        <3> HIDE DEF m
        <3> QED
            BY <1>3 DEF TypeOK, Client
    <2> QED
        BY <1>1, <1>3, <2>1 DEF Causal
<1>6. CASE net' = n /\ UNCHANGED client /\ UNCHANGED <<cluster, table, log, asserts>>
    BY <1>1, <1>6 DEF Causal
<1>4. CASE /\ net' = Send(n, r, e, TableServer,
                          <<Msg("ROLLBACK", 0, m.tid, FALSE, e)>>)
           /\ UNCHANGED client
           /\ UNCHANGED <<cluster, table, log, asserts>>
    <2>1. net' \in ChannelsOf(Justified(done))
        BY <1>1, <1>2, <1>4, SendJustified, TableAssumption
    <2> QED
        BY <1>1, <1>4, <2>1 DEF Causal
<1>5. CASE \E why : Dies(r, why)
    BY <1>5, DiesCausal
<1> QED
    BY <1>3, <1>4, <1>5, <1>6 DEF HandleAgree

(* handle_request on an ACK keeps Causal.                                  *)
LEMMA HandleAckCausal ==
    ASSUME TypeOK, Causal, NEW r \in Ranks, HandleAck(r)
    PROVE  Causal'
<1> DEFINE tid == Head(net[TableServer][r]).tid
<1>1. /\ Head(net[TableServer][r]) \in Message
      /\ net' \in ChannelsOf(Justified(done))
      /\ UNCHANGED <<table, disk, updates, done>>
    BY ArrivesType, ArrivesJustified, TableAssumption DEF HandleAck, Receives
<1>2. tid \in Nat
    BY <1>1 DEF Message
<1>3. \A q \in Ranks : client'[q].commits \subseteq client[q].commits
    <2>1. CASE client' = [client EXCEPT ![r].commits = @ \ {tid}]
        <3> HIDE DEF tid
        <3> QED
            BY <2>1 DEF TypeOK, Client
    <2> QED
        BY <2>1 DEF HandleAck
<1>4. log' \in [Ranks -> Seq(JustifiedEntry(done))]
    <2>1. CASE Submit(r, "ETableClient", tid, r, 0, 0)
        BY <1>2, <2>1, SubmitJustified
    <2>2. CASE log' = log
        BY <2>2 DEF Causal
    <2> QED
        BY <2>1, <2>2 DEF HandleAck
<1> QED
    BY <1>1, <1>3, <1>4 DEF Causal

(* handle_request on a SERVER_READY keeps Causal.                          *)
LEMMA HandleServerReadyCausal ==
    ASSUME TypeOK, Causal, NEW r \in Ranks, HandleServerReady(r)
    PROVE  Causal'
<1> DEFINE c == client[r]
           m == Head(net[TableServer][r])
           n == Taken(TableServer, r)
           e == epoch[r]
           base == IF c.last = -1 THEN m.reqid ELSE c.last
           ids == c.preparing \cup (base + 1)..(base + c.waiting)
           prepares == {Msg("PREPARE", i, 0, FALSE, e) : i \in ids}
           commits == {Msg("COMMIT", 0, t, FALSE, e) : t \in c.commits}
           J == Justified(done)
<1>1. /\ m \in Message /\ e \in Nat /\ n \in ChannelsOf(J)
      /\ UNCHANGED <<disk, updates, done>>
    BY ArrivesType, ArrivesJustified, TableAssumption
    DEF HandleServerReady, Receives
<1>2. /\ c \in Client /\ IsFiniteSet(c.preparing) /\ IsFiniteSet(c.commits)
      /\ c.commits \subseteq done
    BY DEF TypeOK, Causal
<1>3. base \in Nat /\ base + 1 \in Int /\ base + c.waiting \in Int
    BY <1>1, <1>2 DEF Client, Message
<1> HIDE DEF base, J
<1>4. ids \in SUBSET Nat /\ IsFiniteSet(ids)
    <2>1. ids \in SUBSET Nat
        BY <1>2, <1>3 DEF Client
    <2>2. IsFiniteSet((base + 1)..(base + c.waiting))
        BY <1>3, FS_Interval
    <2> QED
        BY <1>2, <2>1, <2>2, FS_Union
<1>5. CASE Dies(r, {"server_ready: !server_ready"})
    BY <1>5, DiesCausal
<1>6. CASE /\ client' = [client EXCEPT ![r].ready = TRUE,
                  ![r].last = base + c.waiting, ![r].waiting = 0,
                  ![r].preparing = ids]
           /\ \E ps \in InOrder(prepares), cs \in InOrder(commits) :
                  net' = Send(n, r, e, TableServer, ps \o cs)
           /\ UNCHANGED <<cluster, table, log, asserts>>
    <2>1. \A q \in Ranks : client'[q].commits = client[q].commits
        <3> HIDE DEF ids
        <3> QED
            BY <1>6 DEF TypeOK, Client
    <2>2. prepares \subseteq J /\ IsFiniteSet(prepares)
        <3> HIDE DEF ids, e
        <3>1. \A i \in ids : /\ Msg("PREPARE", i, 0, FALSE, e) \in Message
                             /\ Msg("PREPARE", i, 0, FALSE, e).op = "PREPARE"
            BY <1>1, <1>4, MsgType DEF Msg
        <3>2. IsFiniteSet(prepares)
            BY <1>4, FinitePrepares
        <3>3. \A i \in ids : Msg("PREPARE", i, 0, FALSE, e) \in J
            BY <3>1 DEF J, Justified
        <3> QED
            BY <3>2, <3>3
    <2>3. commits \subseteq J /\ IsFiniteSet(commits)
        <3> HIDE DEF c, e
        <3>1. c.commits \in SUBSET Nat
            BY <1>2 DEF Client
        <3>2. \A t \in c.commits : /\ Msg("COMMIT", 0, t, FALSE, e) \in Message
                                   /\ Msg("COMMIT", 0, t, FALSE, e).tid \in done
            BY <1>1, <1>2, <3>1, MsgType DEF Msg
        <3>3. IsFiniteSet(commits)
            BY <1>2, <3>1, FiniteCommits
        <3>4. \A t \in c.commits : Msg("COMMIT", 0, t, FALSE, e) \in J
            BY <3>2 DEF J, Justified
        <3> QED
            BY <3>3, <3>4
    <2>4. PICK ps \in InOrder(prepares), cs \in InOrder(commits) :
                  net' = Send(n, r, e, TableServer, ps \o cs)
        BY <1>6
    <2>5. ps \in Seq(J) /\ cs \in Seq(J)
        BY <2>2, <2>3, InOrderType
    <2>6. ps \o cs \in Seq(J)
        BY <2>5, ConcatProperties
    <2>7. net' \in ChannelsOf(J)
        BY <1>1, <2>4, <2>6, SendType, TableAssumption
    <2> QED
        BY <1>1, <1>6, <2>1, <2>7 DEF Causal, J
<1> QED
    BY <1>5, <1>6 DEF HandleServerReady, base

(* The retried mksnap keeps Causal.                                        *)
LEMMA MksnapCausal ==
    ASSUME TypeOK, Causal, NEW r \in Ranks, Mksnap(r)
    PROVE  Causal'
<1>1. PICK q \in client[r].retry :
        \/ /\ client' = [client EXCEPT ![r].retry = @ \ {q}]
           /\ Submit(r, "EUpdate", q.tid, r, 0, 0)
           /\ UNCHANGED <<cluster, table, net, asserts>>
        \/ Dies(r, {"mksnap: decode snapid"})
    BY DEF Mksnap
<1>2. UNCHANGED <<disk, updates, done>> /\ q.tid \in Nat
    BY DEF Mksnap, TypeOK, Client
<1>3. CASE /\ client' = [client EXCEPT ![r].retry = @ \ {q}]
           /\ Submit(r, "EUpdate", q.tid, r, 0, 0)
           /\ UNCHANGED <<cluster, table, net, asserts>>
    <2>1. log' \in [Ranks -> Seq(JustifiedEntry(done))]
        BY <1>2, <1>3, SubmitJustified
    <2>2. \A p \in Ranks : client'[p].commits = client[p].commits
        BY <1>3 DEF TypeOK, Client
    <2> QED
        BY <1>2, <1>3, <2>1, <2>2 DEF Causal
<1>4. CASE Dies(r, {"mksnap: decode snapid"})
    BY <1>4, DiesCausal
<1> QED
    BY <1>1, <1>3, <1>4

(* An entry of the journal becomes safe.                                   *)
LEMMA JournalledCausal ==
    ASSUME TypeOK, Causal, NEW r \in Ranks, log[r] # <<>>,
           Journalled(r, Head(log[r]))
    PROVE  /\ done \subseteq done'
           /\ log' \in [Ranks -> Seq(JustifiedEntry(done'))]
           /\ disk'.snaps \subseteq done'
           /\ \A q \in Ranks : updates'[q] \subseteq done'
           /\ Head(log[r]).type = "EUpdate" => Head(log[r]).tid \in done'
<1> DEFINE x == Head(log[r])
<1>1. x \in JustifiedEntry(done) /\ Tail(log[r]) \in Seq(JustifiedEntry(done))
    BY HeadTailProperties DEF Causal
<1>2. log' = [log EXCEPT ![r] = Tail(@)]
    BY DEF Journalled
<1>3. log' \in [Ranks -> Seq(JustifiedEntry(done))]
    BY <1>1, <1>2 DEF Causal
<1>4. /\ done \subseteq done' /\ (x.type = "EUpdate" => x.tid \in done')
    BY DEF Journalled
<1>5. JustifiedEntry(done) \subseteq JustifiedEntry(done')
    BY <1>4 DEF JustifiedEntry
<1>6. log' \in [Ranks -> Seq(JustifiedEntry(done'))]
    BY <1>3, <1>5, SeqMono
<1>7. disk'.snaps \subseteq done
    <2>1. x.type = "COMMIT" => x.tid \in done
        BY <1>1 DEF JustifiedEntry
    <2>2. \/ disk' = disk
          \/ disk' = Applied(disk, x.type, x.tid, x.mds, x.reqid)
        BY DEF Journalled, Replayed
    <2> QED
        BY <2>1, <2>2 DEF Applied, Causal
<1>8. \A q \in Ranks : updates'[q] \subseteq done'
    <2>1. \A q \in Ranks : \/ updates'[q] \subseteq updates[q]
                           \/ /\ x.type = "EUpdate"
                              /\ updates'[q] \subseteq updates[q] \cup {x.tid}
        BY DEF Journalled, TypeOK
    <2> QED
        BY <1>4, <2>1 DEF Causal
<1> QED
    BY <1>4, <1>6, <1>7, <1>8

(* Channels over a set are channels over a larger one.                     *)
LEMMA ChannelsMono ==
    ASSUME NEW A, NEW B, A \subseteq B, NEW n \in ChannelsOf(A)
    PROVE  n \in ChannelsOf(B)
    BY SeqMono DEF ChannelsOf

(* A journal callback of the table keeps Causal.                           *)
LEMMA TableLoggedCausal ==
    ASSUME TypeOK, Causal, NEW r \in Ranks, TableLogged(r)
    PROVE  Causal'
<1> DEFINE x == Head(log[r])
           e == epoch[r]
<1>1. log[r] # <<>> /\ Journalled(r, x) /\ UNCHANGED <<table, client>>
    BY DEF TableLogged
<1>2. done' = done
    BY DEF TableLogged, Journalled
<1>3. x \in Entry /\ e \in Nat
    BY <1>1, JournalledType, EpochType
<1>4. x.mds \in Ranks /\ x.reqid \in Nat /\ x.tid \in Nat
    BY <1>3 DEF Entry
<1>5. net' \in ChannelsOf(Justified(done))
    <2>1. \/ net' = net
          \/ net' = Send(net, r, e, x.mds,
                         <<Msg("AGREE", x.reqid, x.tid, TRUE, e)>>)
          \/ net' = Send(net, r, e, x.mds, <<Msg("ACK", 0, x.tid, FALSE, e)>>)
        BY DEF TableLogged
    <2>2. net \in ChannelsOf(Justified(done))
        BY DEF Causal
    <2> HIDE DEF x, e
    <2>3. Send(net, r, e, x.mds, <<Msg("AGREE", x.reqid, x.tid, TRUE, e)>>)
            \in ChannelsOf(Justified(done))
        BY <1>3, <1>4, <2>2, SendJustified
    <2>4. Send(net, r, e, x.mds, <<Msg("ACK", 0, x.tid, FALSE, e)>>)
            \in ChannelsOf(Justified(done))
        BY <1>3, <1>4, <2>2, SendJustified
    <2> QED
        BY <2>1, <2>2, <2>3, <2>4
<1>6. /\ log' \in [Ranks -> Seq(JustifiedEntry(done'))]
      /\ disk'.snaps \subseteq done'
      /\ \A q \in Ranks : updates'[q] \subseteq done'
    BY <1>1, JournalledCausal
<1> QED
    BY <1>1, <1>2, <1>5, <1>6 DEF Causal

(* _mksnap_finish with commit keeps Causal.                                *)
LEMMA CommitCausal ==
    ASSUME TypeOK, Causal, NEW r \in Ranks, Commit(r)
    PROVE  Causal'
<1> DEFINE x == Head(log[r])
           e == epoch[r]
<1>1. log[r] # <<>> /\ e \in Nat /\ x.type = "EUpdate"
    BY EpochType DEF Commit
<1>2. CASE /\ Journalled(r, x)
           /\ client' = [client EXCEPT
                  ![r].prepared = {p \in @ : p.tid # x.tid},
                  ![r].commits = @ \cup {x.tid}]
           /\ net' = IF client[r].ready
                     THEN Send(net, r, e, TableServer,
                               <<Msg("COMMIT", 0, x.tid, FALSE, e)>>)
                     ELSE net
           /\ UNCHANGED <<cluster, table, asserts>>
    <2>1. /\ done \subseteq done' /\ x.tid \in done'
          /\ log' \in [Ranks -> Seq(JustifiedEntry(done'))]
          /\ disk'.snaps \subseteq done'
          /\ \A q \in Ranks : updates'[q] \subseteq done'
        BY <1>1, <1>2, JournalledCausal
    <2>2. x.tid \in Nat
        BY <1>1, <1>2, JournalledType DEF Entry
    <2>3. net \in ChannelsOf(Justified(done'))
        <3>1. Justified(done) \subseteq Justified(done')
            BY <2>1 DEF Justified
        <3> QED
            BY <3>1, ChannelsMono DEF Causal
    <2>4. net' \in ChannelsOf(Justified(done'))
        BY <1>1, <1>2, <2>1, <2>2, <2>3, SendJustified, TableAssumption
    <2>5. \A q \in Ranks : client'[q].commits \subseteq client[q].commits \cup {x.tid}
        <3> HIDE DEF x
        <3> QED
            BY <1>2 DEF TypeOK, Client
    <2> QED
        BY <1>2, <2>1, <2>4, <2>5 DEF Causal
<1>3. CASE Dies(r, {"commit: prepared_update.count(tid)"})
    BY <1>3, DiesCausal
<1> QED
    BY <1>2, <1>3 DEF Commit

(* Nothing that handle_mds_recovery sends is a COMMIT.                     *)
LEMMA GreetingsJustified ==
    ASSUME TypeOK, NEW d, NEW q \in Ranks, NEW e \in Nat,
           NEW s \in Greetings(q, e)
    PROVE  s \in Seq(Justified(d))
<1>1. PICK agrees \in InOrder(Agrees(q, e)), n \in NextReqid(q) :
            s = Append(agrees, Ready(n, e))
    BY DEF Greetings
<1>2. \A p \in table.pending : p.reqid \in Nat /\ p.tid \in Nat
    BY DEF TypeOK, Table, Pending
<1>3. \A p \in table.pending :
            Msg("AGREE", p.reqid, p.tid, FALSE, e) \in Justified(d)
    <2>1. \A p \in table.pending :
            /\ Msg("AGREE", p.reqid, p.tid, FALSE, e) \in Message
            /\ Msg("AGREE", p.reqid, p.tid, FALSE, e).op = "AGREE"
        BY <1>2, MsgType DEF Msg
    <2> QED
        BY <2>1 DEF Justified
<1>4. Agrees(q, e) \subseteq Justified(d)
    BY <1>3 DEF Agrees
<1>5. agrees \in Seq(Justified(d))
    BY <1>4, FiniteAgrees, InOrderType DEF TypeOK
<1>6. n \in Nat
    BY <1>2 DEF NextReqid
<1>7. Ready(n, e) \in Message /\ Ready(n, e).op = "SERVER_READY"
    BY <1>6, MsgType DEF Ready, Msg
<1>8. Ready(n, e) \in Justified(d)
    BY <1>7 DEF Justified
<1> QED
    BY <1>1, <1>5, <1>8, AppendProperties

(* handle_mds_map keeps Causal.                                            *)
LEMMA HandleMdsMapCausal ==
    ASSUME TypeOK, Causal, NEW r \in Ranks, HandleMdsMap(r)
    PROVE  Causal'
<1> DEFINE e == epoch[r] + 1
           old == View(r)
           new == mdsmap[e]
           greet == IF r # TableServer \/ new[r] # "active" THEN {}
                    ELSE {q \in Ranks : new[q] = "active" /\
                                        (old[r] = "active" => old[q] # "active")}
           J == Justified(done)
<1>1. e \in Nat /\ UNCHANGED <<table, log, disk, updates, done>>
    BY EpochType DEF HandleMdsMap
<1>2. \A q \in Ranks : client'[q].commits = client[q].commits
    BY DEF HandleMdsMap, TypeOK, Client
<1>3. net' \in ChannelsOf(J)
    <2>1. PICK out \in [greet -> UNION {Greetings(q, e) : q \in greet}] :
            /\ \A q \in greet : out[q] \in Greetings(q, e)
            /\ net' = [net EXCEPT ![r] = [q \in Ranks |->
                    IF q \in greet /\ Reaches(e, q)
                    THEN @[q] \o out[q] ELSE @[q]]]
        BY DEF HandleMdsMap
    <2>2. greet \subseteq Ranks
        OBVIOUS
    <2> HIDE DEF greet, e, J
    <2>3. \A q \in greet : out[q] \in Seq(J)
        BY <1>1, <2>1, <2>2, GreetingsJustified DEF J
    <2>4. \A q \in greet : net[r][q] \o out[q] \in Seq(J)
        BY <2>2, <2>3, ConcatProperties DEF Causal, ChannelsOf, J
    <2> QED
        BY <2>1, <2>2, <2>4 DEF Causal, ChannelsOf, J
<1> QED
    BY <1>1, <1>2, <1>3 DEF Causal

-----------------------------------------------------------------------------
(* Every step keeps Causal.                                                *)
LEMMA NextCausal == TypeOK /\ Causal /\ [Next]_vars => Causal'
<1> SUFFICES ASSUME TypeOK, Causal, [Next]_vars PROVE Causal'
    OBVIOUS
<1>1. CASE \E x, y \in Ranks : DropStale(x, y)
    BY <1>1, ArrivesJustified DEF DropStale, Causal
<1>2. ASSUME NEW r \in Ranks,
             \/ HandlePrepare(r) \/ HandleCommit(r) \/ HandleRollback(r)
      PROVE  Causal'
    BY <1>2, ServerCausal
<1>3. ASSUME NEW r \in Ranks,
             \/ Prepare(r) \/ HandleAgree(r) \/ HandleAck(r)
             \/ HandleServerReady(r) \/ Mksnap(r)
      PROVE  Causal'
    BY <1>3, PrepareCausal, HandleAgreeCausal, HandleAckCausal,
       HandleServerReadyCausal, MksnapCausal
<1>4. ASSUME NEW r \in Ranks, TableLogged(r) \/ Commit(r)
      PROVE  Causal'
    BY <1>4, TableLoggedCausal, CommitCausal
<1>5. ASSUME NEW r \in Ranks, Expire(r)
      PROVE  Causal'
    BY <1>5 DEF Expire, Causal, TypeOK
<1>6. ASSUME NEW r \in Ranks, Fail(r)
      PROVE  Causal'
    BY <1>6, DiesCausal DEF Fail
<1>7. ASSUME NEW r \in Ranks, Takeover(r) \/ MonActive(r)
      PROVE  Causal'
    BY <1>7 DEF Takeover, MonActive, Causal
<1>8. ASSUME NEW r \in Ranks, HandleMdsMap(r)
      PROVE  Causal'
    BY <1>8, HandleMdsMapCausal
<1>9. CASE ServerUpdate
    <2>1. Update("SERVER_UPDATE", 0, TableServer, 0)
        BY <1>9 DEF ServerUpdate
    <2>2. /\ table'.snaps \subseteq done
          /\ log' \in [Ranks -> Seq(JustifiedEntry(done))]
        BY <2>1, UpdateJustified, TableAssumption
    <2> QED
        BY <1>9, <2>2 DEF ServerUpdate, Causal
<1>10. CASE Save
    BY <1>10 DEF Save, Causal
<1>11. CASE UNCHANGED vars
    BY <1>11 DEF vars, Causal
<1> QED
    BY <1>1, <1>2, <1>3, <1>4, <1>5, <1>6, <1>7, <1>8, <1>9, <1>10, <1>11
    DEF Next, Progress

(* So it always holds.                                                     *)
LEMMA AlwaysCausal == Spec => []Causal
<1>1. Init => Causal
    <2> SUFFICES ASSUME Init PROVE Causal
        OBVIOUS
    <2>1. \A r \in Ranks : client[r].commits = {}
        BY DEF Init, NewClient
    <2>2. net \in ChannelsOf(Justified(done))
        BY DEF Init, ChannelsOf
    <2> QED
        BY <2>1, <2>2 DEF Init, Causal
<1>2. TypeOK /\ Causal /\ [Next]_vars => Causal'
    BY NextCausal
<1> QED
    BY <1>1, <1>2, TypeCorrect, PTL DEF Spec

(* The server never shows a snapshot that the directory's own journal does *)
(* not have, however often either end dies and whatever it sends again.    *)
THEOREM SnapsAreJournalled == Spec => []SnapsJournalled
<1>1. Causal => SnapsJournalled
    BY DEF Causal, SnapsJournalled
<1> QED
    BY <1>1, AlwaysCausal, PTL

-----------------------------------------------------------------------------
(* The journal goes on where the table ends.  The strengthening: among the *)
(* entries not yet safe those of the server ascend, none is past the table *)
(* in memory, and every version between the table on disk and the table in *)
(* memory is there.                                                        *)
Ordered(L, dv, tv) ==
    /\ dv <= tv
    /\ \A i \in 1..Len(L) : L[i].version <= tv
    /\ \A i, j \in 1..Len(L) :
            i < j /\ L[i].version > 0 /\ L[j].version > 0
            => L[i].version < L[j].version
    /\ \A v \in (dv + 1)..tv : \E i \in 1..Len(L) : L[i].version = v

ClientEntry == {"EUpdate", "ETableClient"}
RoleEntry(r) ==
    {x \in Entry : IF x.type \in ClientEntry THEN x.version = 0
                   ELSE r = TableServer /\ x.version > 0}

Continues ==
    /\ \A r \in Ranks : log[r] \in Seq(RoleEntry(r))
    /\ Ordered(log[TableServer], disk.version, table.version)

(* The versions in a journal are natural numbers.                          *)
LEMMA Versions ==
    ASSUME NEW L \in Seq(Entry), NEW i \in 1..Len(L)
    PROVE  L[i].version \in Nat
<1>1. L[i] \in Entry
    BY ElementOfSeq
<1> QED
    BY <1>1 DEF Entry

(* The entry of the next version may follow.                               *)
LEMMA OrderedAppend ==
    ASSUME NEW L \in Seq(Entry), NEW dv \in Nat, NEW tv \in Nat, NEW x \in Entry,
           Ordered(L, dv, tv)
    PROVE  /\ x.version = 0 => Ordered(Append(L, x), dv, tv)
           /\ x.version = tv + 1 => Ordered(Append(L, x), dv, tv + 1)
<1> DEFINE M == Append(L, x)
           n == Len(L)
<1>1. n \in Nat
    BY LenProperties
<1>2. Len(M) = n + 1 /\ M[n + 1] = x /\ \A i \in 1..n : M[i] = L[i]
    BY AppendProperties
<1>3. x.version \in Nat
    BY DEF Entry
<1>4. \A i \in 1..n : L[i].version \in Nat
    BY Versions
<1>5. /\ dv <= tv
      /\ \A i \in 1..n : L[i].version <= tv
      /\ \A i, j \in 1..n :
            i < j /\ L[i].version > 0 /\ L[j].version > 0
            => L[i].version < L[j].version
      /\ \A v \in (dv + 1)..tv : \E i \in 1..n : L[i].version = v
    BY DEF Ordered
<1> HIDE DEF M, n
<1>6. \A i \in 1..(n + 1) : i \in 1..n \/ i = n + 1
    BY <1>1
<1>7. \A i \in 1..n : i \in 1..(n + 1)
    BY <1>1
<1>8. ASSUME NEW v \in (dv + 1)..tv
      PROVE  \E i \in 1..(n + 1) : M[i].version = v
    <2>1. PICK i \in 1..n : L[i].version = v
        BY <1>5
    <2> QED
        BY <1>2, <1>7, <2>1
<1>9. ASSUME x.version = 0 PROVE Ordered(M, dv, tv)
    <2>1. \A i \in 1..(n + 1) : M[i].version <= tv
        BY <1>2, <1>5, <1>6, <1>9
    <2>2. ASSUME NEW i \in 1..(n + 1), NEW j \in 1..(n + 1), i < j,
                 M[i].version > 0, M[j].version > 0
          PROVE  M[i].version < M[j].version
        <3>1. i \in 1..n /\ j \in 1..n
            BY <1>2, <1>6, <1>9, <2>2
        <3> QED
            BY <1>2, <1>5, <2>2, <3>1
    <2> QED
        BY <1>2, <1>5, <1>8, <2>1, <2>2 DEF Ordered
<1>10. ASSUME x.version = tv + 1 PROVE Ordered(M, dv, tv + 1)
    <2>1. ASSUME NEW i \in 1..(n + 1) PROVE M[i].version <= tv + 1
        <3>1. CASE i \in 1..n
            BY <1>2, <1>4, <1>5, <3>1
        <3>2. CASE i = n + 1
            BY <1>2, <1>10, <3>2
        <3> QED
            BY <1>6, <3>1, <3>2
    <2>2. ASSUME NEW i \in 1..(n + 1), NEW j \in 1..(n + 1), i < j,
                 M[i].version > 0, M[j].version > 0
          PROVE  M[i].version < M[j].version
        <3>1. i \in 1..n
            BY <1>1, <2>2
        <3>2. M[i].version = L[i].version /\ L[i].version <= tv
              /\ L[i].version \in Nat
            BY <1>2, <1>4, <1>5, <3>1
        <3>3. CASE j \in 1..n
            BY <1>2, <1>5, <2>2, <3>1, <3>3
        <3>4. CASE j = n + 1
            BY <1>2, <1>10, <3>2, <3>4
        <3> QED
            BY <1>6, <3>3, <3>4
    <2>3. ASSUME NEW v \in (dv + 1)..(tv + 1)
          PROVE  \E i \in 1..(n + 1) : M[i].version = v
        <3>1. CASE v = tv + 1
            <4>1. n + 1 \in 1..(n + 1)
                BY <1>1
            <4> QED
                BY <1>2, <1>10, <3>1, <4>1
        <3>2. CASE v # tv + 1
            <4>1. v \in (dv + 1)..tv
                BY <3>2
            <4> QED
                BY <1>8, <4>1
        <3> QED
            BY <3>1, <3>2
    <2>4. dv <= tv + 1
        BY <1>5
    <2> QED
        BY <1>2, <2>1, <2>2, <2>3, <2>4 DEF Ordered
<1> QED
    BY <1>9, <1>10 DEF M

(* The entry that becomes safe is known to the table object, or is the     *)
(* very next one.                                                          *)
LEMMA OrderedTail ==
    ASSUME NEW L \in Seq(Entry), L # <<>>, NEW dv \in Nat, NEW tv \in Nat,
           Ordered(L, dv, tv)
    PROVE  /\ Head(L).version <= dv => Ordered(Tail(L), dv, tv)
           /\ Head(L).version > dv => /\ Head(L).version = dv + 1
                                      /\ Ordered(Tail(L), dv + 1, tv)
<1> DEFINE M == Tail(L)
           n == Len(L)
<1>1. n \in Nat /\ n > 0
    BY LenProperties, EmptySeq
<1>2. Head(L) = L[1] /\ Len(M) = n - 1
    BY HeadTailProperties, <1>1
<1>3. \A i \in 1..(n - 1) : M[i] = L[i + 1]
    BY HeadTailProperties, <1>1, <1>2
<1>4. \A i \in 1..n : L[i].version \in Nat
    BY Versions
<1>5. /\ dv <= tv
      /\ \A i \in 1..n : L[i].version <= tv
      /\ \A i, j \in 1..n :
            i < j /\ L[i].version > 0 /\ L[j].version > 0
            => L[i].version < L[j].version
      /\ \A v \in (dv + 1)..tv : \E i \in 1..n : L[i].version = v
    BY DEF Ordered
<1> HIDE DEF M, n
<1>6. \A i \in 1..(n - 1) : i + 1 \in 1..n
    BY <1>1
<1>7. \A i \in 1..(n - 1) : M[i].version <= tv
    BY <1>3, <1>5, <1>6
<1>8. ASSUME NEW i \in 1..(n - 1), NEW j \in 1..(n - 1), i < j,
             M[i].version > 0, M[j].version > 0
      PROVE  M[i].version < M[j].version
    <2>1. i + 1 \in 1..n /\ j + 1 \in 1..n /\ i + 1 < j + 1
        BY <1>6, <1>8
    <2>2. M[i] = L[i + 1] /\ M[j] = L[j + 1]
        BY <1>3
    <2> QED
        BY <1>5, <1>8, <2>1, <2>2
<1>9. ASSUME NEW v \in (dv + 1)..tv, v # L[1].version
      PROVE  \E i \in 1..(n - 1) : M[i].version = v
    <2>1. PICK i \in 1..n : L[i].version = v
        BY <1>5
    <2>2. i # 1
        BY <1>9, <2>1
    <2>3. i - 1 \in 1..(n - 1) /\ (i - 1) + 1 = i
        BY <1>1, <2>2
    <2>4. M[i - 1] = L[i]
        BY <1>3, <2>3
    <2> QED
        BY <2>1, <2>3, <2>4
<1>10. ASSUME L[1].version <= dv PROVE Ordered(M, dv, tv)
    <2>1. \A v \in (dv + 1)..tv : v # L[1].version
        BY <1>1, <1>4, <1>10
    <2> QED
        BY <1>2, <1>5, <1>7, <1>8, <1>9, <2>1 DEF Ordered
<1>11. ASSUME L[1].version > dv
       PROVE  L[1].version = dv + 1 /\ Ordered(M, dv + 1, tv)
    <2>1. 1 \in 1..n /\ L[1].version \in Nat /\ L[1].version <= tv
        BY <1>1, <1>4, <1>5
    <2>2. dv + 1 \in (dv + 1)..tv /\ dv + 1 <= tv
        BY <1>11, <2>1
    <2>3. PICK i \in 1..n : L[i].version = dv + 1
        BY <1>5, <2>2
    <2>4. L[1].version = dv + 1
        <3>1. CASE i = 1
            BY <2>3, <3>1
        <3>2. CASE i # 1
            <4>1. 1 < i
                BY <3>2
            <4>2. L[1].version > 0 /\ L[i].version > 0
                BY <1>11, <2>1, <2>3
            <4>3. L[1].version < L[i].version
                BY <1>5, <2>1, <4>1, <4>2
            <4> QED
                BY <1>11, <2>1, <2>3, <4>3
        <3> QED
            BY <3>1, <3>2
    <2>5. ASSUME NEW v \in ((dv + 1) + 1)..tv
          PROVE  \E k \in 1..(n - 1) : M[k].version = v
        <3>1. v \in (dv + 1)..tv /\ v # L[1].version
            BY <2>4
        <3> QED
            BY <1>9, <3>1
    <2> QED
        BY <1>2, <1>7, <1>8, <2>2, <2>4, <2>5 DEF Ordered
<1> QED
    BY <1>2, <1>10, <1>11 DEF M

(* Ordered is what the replay needs: each entry has its predecessor.       *)
LEMMA OrderedReplays ==
    ASSUME NEW L \in Seq(Entry), NEW dv \in Nat, NEW tv \in Nat,
           Ordered(L, dv, tv), NEW i \in 1..Len(L)
    PROVE  \/ L[i].version <= dv + 1
           \/ \E j \in 1..(i - 1) : L[j].version = L[i].version - 1
<1> DEFINE n == Len(L)
<1>1. n \in Nat
    BY LenProperties
<1>2. \A k \in 1..n : L[k].version \in Nat
    BY Versions
<1>3. /\ \A k \in 1..n : L[k].version <= tv
      /\ \A k, j \in 1..n :
            k < j /\ L[k].version > 0 /\ L[j].version > 0
            => L[k].version < L[j].version
      /\ \A v \in (dv + 1)..tv : \E k \in 1..n : L[k].version = v
    BY DEF Ordered
<1>4. i \in 1..n
    OBVIOUS
<1> HIDE DEF n
<1>5. ASSUME L[i].version > dv + 1
      PROVE  \E j \in 1..(i - 1) : L[j].version = L[i].version - 1
    <2>1. L[i].version \in Nat /\ L[i].version <= tv
        BY <1>2, <1>3, <1>4
    <2>2. L[i].version - 1 \in (dv + 1)..tv
        BY <1>5, <2>1
    <2>3. PICK j \in 1..n : L[j].version = L[i].version - 1
        BY <1>3, <2>2
    <2>4. L[j].version > 0 /\ L[i].version > 0 /\ L[j].version < L[i].version
        BY <1>5, <2>1, <2>3
    <2>5. i # j
        BY <2>1, <2>4
    <2>6. ~(i < j)
        BY <1>3, <1>4, <2>1, <2>3, <2>4
    <2>7. j \in 1..(i - 1)
        BY <1>1, <1>4, <2>5, <2>6
    <2> QED
        BY <2>3, <2>7
<1> QED
    BY <1>2, <1>4, <1>5

(* Saving the table in memory keeps the journal in order.                  *)
LEMMA OrderedSaved ==
    ASSUME NEW L \in Seq(Entry), NEW dv \in Nat, NEW tv \in Nat,
           Ordered(L, dv, tv)
    PROVE  Ordered(L, tv, tv)
<1>1. tv <= tv
    OBVIOUS
<1>2. \A v \in (tv + 1)..tv : FALSE
    OBVIOUS
<1>3. \A v \in (tv + 1)..tv : \E i \in 1..Len(L) : L[i].version = v
    BY <1>2, Zenon
<1>4. \A i \in 1..Len(L) : L[i].version <= tv
    BY Zenon DEF Ordered
<1>5. \A i, j \in 1..Len(L) :
            i < j /\ L[i].version > 0 /\ L[j].version > 0
            => L[i].version < L[j].version
    BY Zenon DEF Ordered
<1> QED
    BY <1>1, <1>3, <1>4, <1>5, Zenon DEF Ordered

(* After a restart the journal is empty and the tables are equal.          *)
LEMMA OrderedEmpty ==
    ASSUME NEW dv \in Nat
    PROVE  Ordered(<<>>, dv, dv)
<1>1. Len(<<>>) = 0 /\ (\A v \in (dv + 1)..dv : FALSE)
      /\ \A i \in 1..0 : FALSE
    OBVIOUS
<1> QED
    BY <1>1 DEF Ordered

(* The types that the lemmas on Ordered need.                              *)
LEMMA LogType ==
    ASSUME TypeOK
    PROVE  /\ log \in [Ranks -> Seq(Entry)] /\ log[TableServer] \in Seq(Entry)
           /\ disk.version \in Nat /\ table.version \in Nat
    BY TableAssumption DEF TypeOK, Table

(* Entries of a client are not in the order.                               *)
LEMMA SubmitClient ==
    ASSUME TypeOK, Continues, NEW r \in Ranks, NEW type \in ClientEntry,
           NEW tid \in Nat, Submit(r, type, tid, r, 0, 0),
           UNCHANGED <<disk, table>>
    PROVE  Continues'
<1> DEFINE x == [type |-> type, tid |-> tid, mds |-> r, reqid |-> 0,
                 version |-> 0]
<1>1. x \in RoleEntry(r) /\ x \in Entry /\ x.version = 0
    BY DEF RoleEntry, Entry, ClientEntry
<1>2. log' = [log EXCEPT ![r] = Append(@, x)]
    BY DEF Submit
<1> HIDE DEF x
<1>3. Append(log[r], x) \in Seq(RoleEntry(r))
    BY <1>1, AppendProperties DEF Continues
<1>4. \A q \in Ranks : log'[q] \in Seq(RoleEntry(q))
    BY <1>2, <1>3, LogType DEF Continues
<1>5. Ordered(log'[TableServer], disk.version, table.version)
    <2>1. CASE r = TableServer
        <3>1. log'[TableServer] = Append(log[TableServer], x)
            BY <1>2, <2>1, LogType
        <3> QED
            BY <1>1, <3>1, LogType, OrderedAppend DEF Continues
    <2>2. CASE r # TableServer
        <3>1. log'[TableServer] = log[TableServer]
            BY <1>2, <2>2, LogType, TableAssumption
        <3> QED
            BY <3>1 DEF Continues
    <2> QED
        BY <2>1, <2>2
<1> QED
    BY <1>4, <1>5 DEF Continues

(* An update of the server is the next one in the order.                   *)
LEMMA UpdateContinues ==
    ASSUME TypeOK, Continues,
           NEW type \in {"PREPARE", "COMMIT", "ROLLBACK", "SERVER_UPDATE"},
           NEW tid \in Nat, NEW mds \in Ranks, NEW reqid \in Nat,
           Update(type, tid, mds, reqid), UNCHANGED disk
    PROVE  Continues'
<1> DEFINE x == [type |-> type, tid |-> tid, mds |-> mds, reqid |-> reqid,
                 version |-> table.version + 1]
<1>1. table.version \in Nat
    BY LogType
<1>2. x \in Entry /\ x.version = table.version + 1
    BY <1>1 DEF Entry
<1>3. x \in RoleEntry(TableServer)
    <2>1. x.type \notin ClientEntry
        BY DEF ClientEntry
    <2>2. x.version > 0
        BY <1>1
    <2> QED
        BY <1>2, <2>1, <2>2 DEF RoleEntry
<1>4. log' = [log EXCEPT ![TableServer] = Append(@, x)]
    BY DEF Update, Submit
<1>5. table'.version = table.version + 1
    BY DEF Update, Applied
<1> HIDE DEF x
<1>6. log'[TableServer] = Append(log[TableServer], x)
    BY <1>4, LogType, TableAssumption
<1>7. Append(log[TableServer], x) \in Seq(RoleEntry(TableServer))
    BY <1>3, AppendProperties, TableAssumption DEF Continues
<1>8. \A q \in Ranks : log'[q] \in Seq(RoleEntry(q))
    BY <1>4, <1>7, LogType DEF Continues
<1>9. Ordered(log'[TableServer], disk.version, table.version + 1)
    BY <1>2, <1>6, LogType, OrderedAppend DEF Continues
<1> QED
    BY <1>5, <1>8, <1>9 DEF Continues

(* A crash keeps Continues.                                                *)
LEMMA DiesContinues ==
    ASSUME TypeOK, Continues, NEW r \in Ranks, NEW why, Dies(r, why)
    PROVE  Continues'
<1>1. log' = [log EXCEPT ![r] = <<>>] /\ UNCHANGED disk
    BY DEF Dies
<1>2. \A q \in Ranks : log'[q] \in Seq(RoleEntry(q))
    BY <1>1, LogType, EmptySeq DEF Continues
<1>3. CASE r = TableServer
    <2>1. log'[TableServer] = <<>> /\ table' = disk
        BY <1>1, <1>3, LogType DEF Dies
    <2> QED
        BY <1>1, <1>2, <2>1, LogType, OrderedEmpty DEF Continues
<1>4. CASE r # TableServer
    <2>1. log'[TableServer] = log[TableServer] /\ UNCHANGED table
        BY <1>1, <1>4, LogType, TableAssumption DEF Dies
    <2> QED
        BY <1>1, <1>2, <2>1 DEF Continues
<1> QED
    BY <1>3, <1>4

(* An entry becomes safe: a replay takes it in, or has its effect already. *)
LEMMA JournalledContinues ==
    ASSUME TypeOK, Continues, NEW r \in Ranks, log[r] # <<>>,
           Journalled(r, Head(log[r])), UNCHANGED table
    PROVE  Continues'
<1> DEFINE x == Head(log[r])
<1>1. log' = [log EXCEPT ![r] = Tail(@)]
    BY DEF Journalled
<1>2. x \in RoleEntry(r) /\ Tail(log[r]) \in Seq(RoleEntry(r))
    BY HeadTailProperties DEF Continues
<1>3. \A q \in Ranks : log'[q] \in Seq(RoleEntry(q))
    BY <1>1, <1>2, LogType DEF Continues
<1>4. CASE r = TableServer
    <2>1. log'[TableServer] = Tail(log[TableServer])
        BY <1>1, <1>4, LogType
    <2>2. /\ x.version <= disk.version =>
                Ordered(log'[TableServer], disk.version, table.version)
          /\ x.version > disk.version =>
                Ordered(log'[TableServer], disk.version + 1, table.version)
        BY <1>4, <2>1, LogType, OrderedTail DEF Continues
    <2>3. disk.version \in Nat /\ x.version \in Nat
        BY <1>2, LogType DEF RoleEntry, Entry
    <2>4. CASE x.version <= disk.version
        <3>1. disk' = disk
            BY <2>4 DEF Journalled, Replayed
        <3> QED
            BY <1>3, <2>2, <2>4, <3>1 DEF Continues
    <2>5. CASE x.version > disk.version
        <3>1. x.type \notin ClientEntry
            BY <1>2, <2>3, <2>5 DEF RoleEntry
        <3>2. disk' = Applied(disk, x.type, x.tid, x.mds, x.reqid)
            BY <2>3, <2>5, <3>1 DEF Journalled, Replayed, ClientEntry
        <3>3. disk'.version = disk.version + 1
            BY <3>2 DEF Applied
        <3> QED
            BY <1>3, <2>2, <2>5, <3>3 DEF Continues
    <2> QED
        BY <2>3, <2>4, <2>5
<1>5. CASE r # TableServer
    <2>1. log'[TableServer] = log[TableServer]
        BY <1>1, <1>5, LogType, TableAssumption
    <2>2. x.type \in ClientEntry
        BY <1>2, <1>5 DEF RoleEntry
    <2>3. disk' = disk
        BY <2>2 DEF Journalled, ClientEntry
    <2> QED
        BY <1>3, <2>1, <2>3 DEF Continues
<1> QED
    BY <1>4, <1>5

-----------------------------------------------------------------------------
(* Step by step.                                                           *)

(* The handlers of the server keep Continues.                              *)
LEMMA ServerContinues ==
    ASSUME TypeOK, Continues, NEW r \in Ranks,
           HandlePrepare(r) \/ HandleCommit(r) \/ HandleRollback(r)
    PROVE  Continues'
<1> DEFINE m == Head(net[r][TableServer])
<1>1. Arrives(r, TableServer)
    BY DEF HandlePrepare, HandleCommit, HandleRollback, Receives
<1>2. m \in Message /\ table.version + 1 \in Nat
    BY <1>1, ArrivesType, LogType, TableAssumption
<1>3. m.tid \in Nat /\ m.reqid \in Nat
    BY <1>2 DEF Message
<1>4. UNCHANGED disk
    BY DEF HandlePrepare, HandleCommit, HandleRollback
<1>5. \/ Update("PREPARE", table.version + 1, r, m.reqid)
      \/ Update("COMMIT", m.tid, r, 0)
      \/ Update("ROLLBACK", m.tid, r, 0)
      \/ UNCHANGED <<table, log>>
      \/ Dies(TableServer, {"commit: tid <= version"})
      \/ Dies(TableServer, {"rollback: pending"})
    BY DEF HandlePrepare, HandleCommit, HandleRollback
<1> HIDE DEF m
<1>6. CASE Update("PREPARE", table.version + 1, r, m.reqid)
    BY <1>2, <1>3, <1>4, <1>6, UpdateContinues
<1>7. CASE Update("COMMIT", m.tid, r, 0)
    BY <1>3, <1>4, <1>7, UpdateContinues
<1>8. CASE Update("ROLLBACK", m.tid, r, 0)
    BY <1>3, <1>4, <1>8, UpdateContinues
<1>9. CASE UNCHANGED <<table, log>>
    BY <1>4, <1>9 DEF Continues
<1> QED
    BY <1>5, <1>6, <1>7, <1>8, <1>9, DiesContinues, TableAssumption

(* The handlers of a client keep Continues.                                *)
LEMMA ClientContinues ==
    ASSUME TypeOK, Continues, NEW r \in Ranks,
           \/ Prepare(r) \/ HandleAgree(r) \/ HandleAck(r)
           \/ HandleServerReady(r) \/ Mksnap(r)
    PROVE  Continues'
<1>1. UNCHANGED disk
    BY DEF Prepare, HandleAgree, HandleAck, HandleServerReady, Mksnap
<1>2. CASE Prepare(r)
    BY <1>1, <1>2 DEF Prepare, Continues
<1>3. CASE HandleAgree(r)
    <2>1. UNCHANGED <<table, log>> \/ \E why : Dies(r, why)
        BY <1>3 DEF HandleAgree
    <2> QED
        BY <1>1, <2>1, DiesContinues DEF Continues
<1>4. CASE HandleAck(r)
    <2>1. Arrives(TableServer, r)
        BY <1>4 DEF HandleAck, Receives
    <2>2. Head(net[TableServer][r]).tid \in Nat
        BY <2>1, ArrivesType, TableAssumption DEF Message
    <2>3. UNCHANGED table /\
          \/ UNCHANGED log
          \/ Submit(r, "ETableClient", Head(net[TableServer][r]).tid, r, 0, 0)
        BY <1>4 DEF HandleAck
    <2>4. CASE UNCHANGED log
        BY <1>1, <2>3, <2>4 DEF Continues
    <2>5. "ETableClient" \in ClientEntry
        BY DEF ClientEntry
    <2> QED
        BY <1>1, <2>2, <2>3, <2>4, <2>5, SubmitClient
<1>5. CASE HandleServerReady(r)
    <2>1. UNCHANGED <<table, log>> \/ \E why : Dies(r, why)
        BY <1>5 DEF HandleServerReady
    <2> QED
        BY <1>1, <2>1, DiesContinues DEF Continues
<1>6. CASE Mksnap(r)
    <2>1. PICK q \in client[r].retry :
                \/ UNCHANGED table /\ Submit(r, "EUpdate", q.tid, r, 0, 0)
                \/ Dies(r, {"mksnap: decode snapid"})
        BY <1>6 DEF Mksnap
    <2>2. q.tid \in Nat
        BY DEF TypeOK, Client
    <2>3. "EUpdate" \in ClientEntry
        BY DEF ClientEntry
    <2> QED
        BY <1>1, <2>1, <2>2, <2>3, SubmitClient, DiesContinues
<1> QED
    BY <1>2, <1>3, <1>4, <1>5, <1>6

(* Every step keeps Continues.                                             *)
LEMMA NextContinues == TypeOK /\ Continues /\ [Next]_vars => Continues'
<1> SUFFICES ASSUME TypeOK, Continues, [Next]_vars PROVE Continues'
    OBVIOUS
<1>1. CASE \E x, y \in Ranks : DropStale(x, y)
    BY <1>1 DEF DropStale, Continues
<1>2. ASSUME NEW r \in Ranks,
             \/ HandlePrepare(r) \/ HandleCommit(r) \/ HandleRollback(r)
      PROVE  Continues'
    BY <1>2, ServerContinues
<1>3. ASSUME NEW r \in Ranks,
             \/ Prepare(r) \/ HandleAgree(r) \/ HandleAck(r)
             \/ HandleServerReady(r) \/ Mksnap(r)
      PROVE  Continues'
    BY <1>3, ClientContinues
<1>4. ASSUME NEW r \in Ranks, TableLogged(r)
      PROVE  Continues'
    <2>1. /\ log[r] # <<>> /\ Journalled(r, Head(log[r]))
          /\ UNCHANGED table
        BY <1>4 DEF TableLogged
    <2> QED
        BY <2>1, JournalledContinues
<1>5. ASSUME NEW r \in Ranks, Commit(r)
      PROVE  Continues'
    <2>1. /\ log[r] # <<>>
          /\ \/ Journalled(r, Head(log[r])) /\ UNCHANGED table
             \/ Dies(r, {"commit: prepared_update.count(tid)"})
        BY <1>5 DEF Commit
    <2> QED
        BY <2>1, JournalledContinues, DiesContinues
<1>6. ASSUME NEW r \in Ranks,
             Expire(r) \/ Takeover(r) \/ MonActive(r) \/ HandleMdsMap(r)
      PROVE  Continues'
    BY <1>6 DEF Expire, Takeover, MonActive, HandleMdsMap, Continues
<1>7. ASSUME NEW r \in Ranks, Fail(r)
      PROVE  Continues'
    BY <1>7, DiesContinues DEF Fail
<1>8. CASE ServerUpdate
    BY <1>8, UpdateContinues, TableAssumption DEF ServerUpdate
<1>9. CASE Save
    <2>1. UNCHANGED <<table, log>> /\ disk' = table
        BY <1>9 DEF Save
    <2> QED
        BY <2>1, LogType, OrderedSaved DEF Continues
<1>10. CASE UNCHANGED vars
    BY <1>10 DEF vars, Continues
<1> QED
    BY <1>1, <1>2, <1>3, <1>4, <1>5, <1>6, <1>7, <1>8, <1>9, <1>10
    DEF Next, Progress

(* So it always holds.                                                     *)
LEMMA AlwaysContinues == Spec => []Continues
<1>1. Init => Continues
    <2> SUFFICES ASSUME Init PROVE Continues
        OBVIOUS
    <2>1. \A r \in Ranks : log[r] = <<>>
        BY DEF Init
    <2>2. disk.version = 0 /\ table.version = 0
        BY DEF Init
    <2> QED
        BY <2>1, <2>2, OrderedEmpty, EmptySeq, TableAssumption DEF Continues
<1>2. TypeOK /\ Continues /\ [Next]_vars => Continues'
    BY NextContinues
<1> QED
    BY <1>1, <1>2, TypeCorrect, PTL DEF Spec

(* The assertion of ETableServer::replay holds in every replay: the table  *)
(* object may be saved with updates the journal does not have yet, and the *)
(* journal still goes on from it without a gap.                            *)
THEOREM JournalContinues == Spec => []ReplayContinues
<1>1. TypeOK /\ Continues => ReplayContinues
    <2> SUFFICES ASSUME TypeOK, Continues, NEW i \in DOMAIN log[TableServer]
                 PROVE  LET v == log[TableServer][i].version
                        IN \/ v <= disk.version + 1
                           \/ \E j \in 1..(i - 1) :
                                log[TableServer][j].version = v - 1
        BY DEF ReplayContinues
    <2>1. i \in 1..Len(log[TableServer])
        BY LogType, LenProperties
    <2> QED
        BY <2>1, LogType, OrderedReplays DEF Continues
<1> QED
    BY <1>1, AlwaysContinues, TypeCorrect, PTL

-----------------------------------------------------------------------------
(* The maps.  A rank that is active stays so until it is down, and the map *)
(* that a running process is at is one of its own.                         *)
UpThrough(q, i, j) == \A k \in i..j : mdsmap[k][q] # "down"
MapsGoOn ==
    /\ \A q \in Ranks : \A i, j \in 1..Now :
        i <= j /\ mdsmap[i][q] = "active" /\ UpThrough(q, i, j)
        => mdsmap[j][q] = "active"
    /\ \A q \in Ranks : Up(q) => UpThrough(q, epoch[q], Now)

(* What is published is a map more; the others are as they were.           *)
OneMore(r, st) ==
    /\ Now' = Now + 1
    /\ \A i \in 1..Now : mdsmap'[i] = mdsmap[i]
    /\ mdsmap'[Now + 1][r] = st
    /\ \A q \in Ranks : q # r => mdsmap'[Now + 1][q] = mdsmap[Now][q]

LEMMA NowType ==
    ASSUME TypeOK
    PROVE  Now \in Nat /\ Now >= 1
    BY EpochType DEF TypeOK, Now

LEMMA NextMap ==
    ASSUME TypeOK, NEW r \in Ranks, NEW st,
           mdsmap' = Append(mdsmap, [mdsmap[Now] EXCEPT ![r] = st])
    PROVE  OneMore(r, st)
<1> DEFINE m == [mdsmap[Now] EXCEPT ![r] = st]
<1>1. Now \in Nat /\ Now >= 1
    BY NowType
<1>2. mdsmap \in Seq([Ranks -> MapState])
    BY DEF TypeOK
<1>3. mdsmap[Now] \in [Ranks -> MapState]
    BY <1>1, <1>2, ElementOfSeq DEF Now
<1>4. m[r] = st /\ \A q \in Ranks : q # r => m[q] = mdsmap[Now][q]
    BY <1>3
<1> HIDE DEF m
<1>5. mdsmap' = Append(mdsmap, m)
    BY DEF m
<1>6. /\ Len(mdsmap') = Now + 1
      /\ \A i \in 1..Now : mdsmap'[i] = mdsmap[i]
      /\ mdsmap'[Now + 1] = m
    BY <1>1, <1>2, <1>5, AppendProperties DEF Now
<1> QED
    BY <1>1, <1>4, <1>6 DEF Now, OneMore

(* The steps that change the cluster.                                      *)
LEMMA ClusterSteps ==
    ASSUME [Next]_vars
    PROVE  \/ UNCHANGED cluster
           \/ \E r \in Ranks : \E why : Dies(r, why)
           \/ \E r \in Ranks : Takeover(r) \/ MonActive(r) \/ HandleMdsMap(r)
<1>1. CASE \E r \in Ranks : HandlePrepare(r) \/ DropStale(r, r) \/ HandleAck(r)
        \/ TableLogged(r) \/ Prepare(r) \/ Expire(r)
    BY <1>1 DEF HandlePrepare, DropStale, HandleAck, TableLogged, Prepare, Expire
<1>2. CASE \E x, y \in Ranks : DropStale(x, y)
    BY <1>2 DEF DropStale
<1>3. CASE \E r \in Ranks : HandleCommit(r) \/ HandleRollback(r)
    BY <1>3, TableAssumption DEF HandleCommit, HandleRollback
<1>4. CASE \E r \in Ranks : HandleAgree(r)
    BY <1>4 DEF HandleAgree
<1>5. CASE \E r \in Ranks : HandleServerReady(r)
    BY <1>5 DEF HandleServerReady
<1>6. CASE \E r \in Ranks : Mksnap(r)
    BY <1>6 DEF Mksnap
<1>7. CASE \E r \in Ranks : Commit(r)
    BY <1>7 DEF Commit
<1>8. CASE \E r \in Ranks : Fail(r)
    BY <1>8 DEF Fail
<1>9. CASE ServerUpdate \/ Save \/ UNCHANGED vars
    BY <1>9 DEF ServerUpdate, Save, vars
<1> QED
    BY <1>1, <1>2, <1>3, <1>4, <1>5, <1>6, <1>7, <1>8, <1>9 DEF Next, Progress

(* One rank in the maps f, and in the maps g, which are one more.          *)
LEMMA ColumnGoesOn ==
    ASSUME NEW n \in Nat, n >= 1, NEW f, NEW g,
           \A k \in 1..n : g[k] = f[k],
           \A i, j \in 1..n :
                i <= j /\ f[i] = "active" /\ (\A k \in i..j : f[k] # "down")
                => f[j] = "active",
           f[n] = "active" => g[n + 1] \in {"active", "down"}
    PROVE  \A i, j \in 1..(n + 1) :
                i <= j /\ g[i] = "active" /\ (\A k \in i..j : g[k] # "down")
                => g[j] = "active"
<1> SUFFICES ASSUME NEW i \in 1..(n + 1), NEW j \in 1..(n + 1), i <= j,
                    g[i] = "active", \A k \in i..j : g[k] # "down"
             PROVE  g[j] = "active"
    OBVIOUS
<1>1. CASE j <= n
    <2>1. i \in 1..n /\ j \in 1..n /\ \A k \in i..j : k \in 1..n
        BY <1>1
    <2> QED
        BY <2>1
<1>2. CASE j = n + 1 /\ i <= n
    <2>1. i \in 1..n /\ n \in 1..n /\ j \in i..j /\ \A k \in i..n : k \in 1..n /\ k \in i..j
        BY <1>2
    <2>2. f[i] = "active" /\ \A k \in i..n : f[k] # "down"
        BY <2>1
    <2>3. f[n] = "active"
        BY <1>2, <2>1, <2>2
    <2>4. g[n + 1] # "down"
        BY <1>2, <2>1
    <2> QED
        BY <1>2, <2>3, <2>4
<1> QED
    BY <1>1, <1>2

(* A rank that is not down from e to n and not in the next map.            *)
LEMMA ColumnUp ==
    ASSUME NEW n \in Nat, NEW f, NEW g, NEW e \in 1..n,
           \A k \in 1..n : g[k] = f[k], g[n + 1] # "down",
           \A k \in e..n : f[k] # "down"
    PROVE  \A k \in e..(n + 1) : g[k] # "down"
<1>1. \A k \in e..(n + 1) : k = n + 1 \/ (k \in 1..n /\ k \in e..n)
    OBVIOUS
<1> QED
    BY <1>1

(* A map more keeps MapsGoOn if it is as the map before but for one rank,  *)
(* which dies, is taken over, or becomes active.                           *)
LEMMA PublishedGoesOn ==
    ASSUME TypeOK, MapsGoOn, NEW r \in Ranks, NEW st \in MapState, OneMore(r, st),
           \/ st = "down" /\ UNCHANGED epoch
           \/ ~Up(r) /\ epoch' = [epoch EXCEPT ![r] = Now + 1]
           \/ st = "active" /\ UNCHANGED epoch /\ Up(r)
    PROVE  MapsGoOn'
<1>1. /\ Now \in Nat /\ Now >= 1 /\ Now' = Now + 1
      /\ \A i \in 1..Now : mdsmap'[i] = mdsmap[i]
      /\ mdsmap'[Now + 1][r] = st
      /\ \A q \in Ranks : q # r => mdsmap'[Now + 1][q] = mdsmap[Now][q]
    BY NowType DEF OneMore
<1>2. \A q \in Ranks : epoch[q] \in 1..Now
    BY EpochType
<1>3. ASSUME NEW q \in Ranks
      PROVE  \A i, j \in 1..(Now + 1) :
                i <= j /\ mdsmap'[i][q] = "active" /\
                    (\A k \in i..j : mdsmap'[k][q] # "down")
                => mdsmap'[j][q] = "active"
    <2> DEFINE f == [k \in 1..Now |-> mdsmap[k][q]]
               g == [k \in 1..(Now + 1) |-> mdsmap'[k][q]]
    <2>1. \A k \in 1..Now : g[k] = f[k]
        BY <1>1
    <2>2. \A i, j \in 1..Now :
                i <= j /\ f[i] = "active" /\ (\A k \in i..j : f[k] # "down")
                => f[j] = "active"
        <3> SUFFICES ASSUME NEW i \in 1..Now, NEW j \in 1..Now, i <= j,
                            f[i] = "active", \A k \in i..j : f[k] # "down"
                     PROVE  f[j] = "active"
            OBVIOUS
        <3>1. \A k \in i..j : k \in 1..Now
            BY <1>1
        <3>2. UpThrough(q, i, j)
            BY <3>1 DEF UpThrough
        <3> QED
            BY <3>2 DEF MapsGoOn
    <2>3. f[Now] = "active" => g[Now + 1] \in {"active", "down"}
        <3>1. f[Now] = mdsmap[Now][q] /\ g[Now + 1] = mdsmap'[Now + 1][q]
            BY <1>1
        <3>2. f[Now] = "active" => Up(q)
            BY <3>1 DEF Up
        <3> QED
            BY <1>1, <3>1, <3>2
    <2>4. \A k \in 1..(Now + 1) : g[k] = mdsmap'[k][q]
        OBVIOUS
    <2> HIDE DEF f, g
    <2>5. \A i, j \in 1..(Now + 1) :
                i <= j /\ g[i] = "active" /\ (\A k \in i..j : g[k] # "down")
                => g[j] = "active"
        BY <1>1, <2>1, <2>2, <2>3, ColumnGoesOn
    <2> QED
        <3> SUFFICES ASSUME NEW i \in 1..(Now + 1), NEW j \in 1..(Now + 1), i <= j,
                            mdsmap'[i][q] = "active",
                            \A k \in i..j : mdsmap'[k][q] # "down"
                     PROVE  mdsmap'[j][q] = "active"
            OBVIOUS
        <3>1. \A k \in i..j : k \in 1..(Now + 1)
            BY <1>1
        <3> QED
            BY <2>4, <2>5, <3>1
<1>4. ASSUME NEW q \in Ranks, mdsmap'[Now + 1][q] # "down"
      PROVE  \A k \in epoch'[q]..(Now + 1) : mdsmap'[k][q] # "down"
    <2>1. CASE q = r /\ ~Up(r) /\ epoch' = [epoch EXCEPT ![r] = Now + 1]
        <3>1. epoch'[q] = Now + 1
            BY <2>1 DEF TypeOK
        <3>2. \A k \in (Now + 1)..(Now + 1) : k = Now + 1
            BY <1>1
        <3> QED
            BY <1>4, <3>1, <3>2
    <2>2. CASE ~(q = r /\ ~Up(r) /\ epoch' = [epoch EXCEPT ![r] = Now + 1])
        <3>1. epoch'[q] = epoch[q] /\ Up(q)
            BY <1>1, <1>4, <2>2 DEF TypeOK, Up
        <3>2. \A k \in epoch[q]..Now : mdsmap[k][q] # "down"
            BY <3>1 DEF MapsGoOn, UpThrough
        <3> DEFINE f == [k \in 1..Now |-> mdsmap[k][q]]
                   g == [k \in 1..(Now + 1) |-> mdsmap'[k][q]]
        <3>3. \A k \in epoch[q]..Now : k \in 1..Now
            BY <1>1, <1>2
        <3>4. /\ \A k \in 1..Now : g[k] = f[k]
              /\ g[Now + 1] # "down"
              /\ \A k \in epoch[q]..Now : f[k] # "down"
            BY <1>1, <1>4, <3>2, <3>3
        <3>5. \A k \in epoch[q]..(Now + 1) : g[k] = mdsmap'[k][q]
            BY <1>1, <1>2
        <3> HIDE DEF f, g
        <3>6. \A k \in epoch[q]..(Now + 1) : g[k] # "down"
            BY <1>1, <1>2, <3>4, ColumnUp
        <3> QED
            BY <3>1, <3>5, <3>6
    <2> QED
        BY <2>1, <2>2
<1> QED
    BY <1>1, <1>3, <1>4 DEF MapsGoOn, Up, UpThrough

(* Every step keeps MapsGoOn.                                              *)
LEMMA NextMapsGoOn == TypeOK /\ MapsGoOn /\ [Next]_vars => MapsGoOn'
<1> SUFFICES ASSUME TypeOK, MapsGoOn, [Next]_vars PROVE MapsGoOn'
    OBVIOUS
<1>1. CASE UNCHANGED cluster
    BY <1>1 DEF cluster, MapsGoOn, Up, UpThrough, Now
<1>2. ASSUME NEW r \in Ranks, NEW why, Dies(r, why)
      PROVE  MapsGoOn'
    BY <1>2, NextMap, PublishedGoesOn DEF Dies, MapState
<1>3. ASSUME NEW r \in Ranks, Takeover(r)
      PROVE  MapsGoOn'
    BY <1>3, NextMap, PublishedGoesOn DEF Takeover, Published, MapState
<1>4. ASSUME NEW r \in Ranks, MonActive(r)
      PROVE  MapsGoOn'
    <2>1. Up(r)
        BY <1>4 DEF MonActive, Up
    <2> QED
        BY <1>4, <2>1, NextMap, PublishedGoesOn DEF MonActive, Published, MapState
<1>5. ASSUME NEW r \in Ranks, HandleMdsMap(r)
      PROVE  MapsGoOn'
    <2>1. UNCHANGED mdsmap /\ epoch' = [epoch EXCEPT ![r] = epoch[r] + 1]
        BY <1>5 DEF HandleMdsMap
    <2>2. \A q \in Ranks : epoch[q] \in Nat /\ epoch'[q] \in {epoch[q], epoch[q] + 1}
        BY <2>1, EpochType DEF TypeOK
    <2>3. \A q \in Ranks : UpThrough(q, epoch[q], Now) => UpThrough(q, epoch'[q], Now)
        BY <2>2, EpochType DEF UpThrough
    <2>4. Now' = Now
        BY <2>1 DEF Now
    <2> QED
        BY <2>1, <2>3, <2>4 DEF MapsGoOn, Up, UpThrough
<1> QED
    BY <1>1, <1>2, <1>3, <1>4, <1>5, ClusterSteps

-----------------------------------------------------------------------------
(* The channels.  d is what is left of c without its first k messages, and *)
(* after it come messages of A.                                            *)
Grows(c, d, k, A) ==
    \A i \in 1..Len(d) : \/ i + k <= Len(c) /\ d[i] = c[i + k]
                         \/ i + k > Len(c) /\ d[i] \in A

(* The messages of a sequence.                                             *)
In(s) == {s[i] : i \in 1..Len(s)}

LEMMA GrowsSame ==
    ASSUME NEW M, NEW c \in Seq(M), NEW A
    PROVE  Grows(c, c, 0, A)
    BY LenProperties DEF Grows

LEMMA GrowsEmpty ==
    ASSUME NEW c, NEW k, NEW A
    PROVE  Grows(c, <<>>, k, A)
    BY DEF Grows

LEMMA GrowsTail ==
    ASSUME NEW M, NEW c \in Seq(M), c # <<>>
    PROVE  Grows(c, Tail(c), 1, {}) /\ Tail(c) \in Seq(M)
<1>1. /\ Len(c) \in Nat /\ Len(Tail(c)) = Len(c) - 1 /\ Tail(c) \in Seq(M)
      /\ \A i \in 1..Len(Tail(c)) : Tail(c)[i] = c[i + 1]
    BY HeadTailProperties, LenProperties
<1> QED
    BY <1>1 DEF Grows

LEMMA GrowsConcat ==
    ASSUME NEW M, NEW c \in Seq(M), NEW s \in Seq(M)
    PROVE  Grows(c, c \o s, 0, In(s))
<1>1. /\ Len(c) \in Nat /\ Len(s) \in Nat /\ Len(c \o s) = Len(c) + Len(s)
      /\ \A i \in 1..(Len(c) + Len(s)) :
            (c \o s)[i] = IF i <= Len(c) THEN c[i] ELSE s[i - Len(c)]
    BY ConcatProperties, LenProperties
<1>2. \A i \in 1..(Len(c) + Len(s)) : i > Len(c) => i - Len(c) \in 1..Len(s)
    BY <1>1
<1>3. \A i \in 1..(Len(c) + Len(s)) : i > Len(c) => s[i - Len(c)] \in In(s)
    BY <1>2, Zenon DEF In
<1> QED
    BY <1>1, <1>3 DEF Grows

LEMMA GrowsMono ==
    ASSUME NEW c, NEW d, NEW k, NEW A, NEW B, A \subseteq B, Grows(c, d, k, A)
    PROVE  Grows(c, d, k, B)
    BY DEF Grows

(* First something is taken, then something is sent.                       *)
LEMMA GrowsThen ==
    ASSUME NEW M, NEW b \in Seq(M), NEW c \in Seq(M), NEW d \in Seq(M),
           NEW k \in {0, 1}, NEW A,
           Grows(b, c, k, {}), Grows(c, d, 0, A), Len(c) = Len(b) - k
    PROVE  Grows(b, d, k, A)
<1>1. Len(b) \in Nat /\ Len(c) \in Nat /\ Len(d) \in Nat
    BY LenProperties
<1> SUFFICES ASSUME NEW i \in 1..Len(d)
             PROVE  \/ i + k <= Len(b) /\ d[i] = b[i + k]
                    \/ i + k > Len(b) /\ d[i] \in A
    BY DEF Grows
<1>2. CASE i <= Len(c) /\ d[i] = c[i]
    <2>1. i \in 1..Len(c)
        BY <1>1, <1>2
    <2> QED
        BY <1>1, <1>2, <2>1 DEF Grows
<1>3. CASE i > Len(c) /\ d[i] \in A
    BY <1>1, <1>3
<1> QED
    BY <1>1, <1>2, <1>3 DEF Grows

(* The channel from x to y when a message from a to b has been taken and   *)
(* messages A have been sent by r to q.                                    *)
One(x, y, a, b) == IF x = a /\ y = b THEN 1 ELSE 0
Only(x, y, r, q, A) == IF x = r /\ y = q THEN A ELSE {}
Reached(msgs, e, q) == {m \in In(msgs) : Reaches(e, q)}

(* Receiving.                                                              *)
LEMMA TakenGrows ==
    ASSUME net \in Channels, NEW a \in Ranks, NEW b \in Ranks, net[a][b] # <<>>
    PROVE  /\ Taken(a, b) \in Channels
           /\ \A x, y \in Ranks :
                /\ Grows(net[x][y], Taken(a, b)[x][y], One(x, y, a, b), {})
                /\ Len(Taken(a, b)[x][y]) = Len(net[x][y]) - One(x, y, a, b)
<1>1. net[a][b] \in Seq(Message)
    BY DEF Channels
<1>2. /\ Grows(net[a][b], Tail(net[a][b]), 1, {}) /\ Tail(net[a][b]) \in Seq(Message)
      /\ Len(Tail(net[a][b])) = Len(net[a][b]) - 1
    BY <1>1, GrowsTail, HeadTailProperties
<1>3. Taken(a, b) \in Channels
    BY <1>2 DEF Taken, Channels
<1>4. /\ Taken(a, b)[a][b] = Tail(net[a][b])
      /\ \A x, y \in Ranks : ~(x = a /\ y = b) => Taken(a, b)[x][y] = net[x][y]
    BY DEF Taken, Channels
<1>5. \A x, y \in Ranks : Grows(net[x][y], net[x][y], 0, {})
                          /\ Len(net[x][y]) = Len(net[x][y]) - 0
    <2> SUFFICES ASSUME NEW x \in Ranks, NEW y \in Ranks
                 PROVE  Grows(net[x][y], net[x][y], 0, {})
                        /\ Len(net[x][y]) = Len(net[x][y]) - 0
        OBVIOUS
    <2>1. net[x][y] \in Seq(Message)
        BY DEF Channels
    <2> QED
        BY <2>1, GrowsSame, LenProperties
<1> QED
    BY <1>2, <1>3, <1>4, <1>5 DEF One

(* Sending: only if the process that map number e shows is still there.    *)
LEMMA SendGrows ==
    ASSUME NEW n \in Channels, NEW r \in Ranks, NEW e, NEW q \in Ranks,
           NEW msgs \in Seq(Message)
    PROVE  /\ Send(n, r, e, q, msgs) \in Channels
           /\ \A x, y \in Ranks :
                Grows(n[x][y], Send(n, r, e, q, msgs)[x][y], 0,
                      Only(x, y, r, q, Reached(msgs, e, q)))
<1> DEFINE N == Send(n, r, e, q, msgs)
           A == Reached(msgs, e, q)
<1>1. N \in Channels
    BY SendType DEF Channels, ChannelsOf
<1>2. \A x, y \in Ranks : n[x][y] \in Seq(Message)
    BY DEF Channels
<1>3. \A x, y \in Ranks : \A B : Grows(n[x][y], n[x][y], 0, B)
    BY <1>2, GrowsSame
<1>4. CASE Reaches(e, q)
    <2>1. /\ N[r][q] = n[r][q] \o msgs
          /\ \A x, y \in Ranks : ~(x = r /\ y = q) => N[x][y] = n[x][y]
        BY <1>4 DEF Send, Channels
    <2>2. A = In(msgs)
        BY <1>4 DEF Reached
    <2>3. Grows(n[r][q], N[r][q], 0, A)
        BY <1>2, <2>1, <2>2, GrowsConcat
    <2> HIDE DEF N, A
    <2>4. \A x, y \in Ranks : Grows(n[x][y], N[x][y], 0, Only(x, y, r, q, A))
        BY <1>3, <2>1, <2>3 DEF Only
    <2> QED
        BY <1>1, <2>4 DEF N, A
<1>5. CASE ~Reaches(e, q)
    <2>1. N = n
        BY <1>5 DEF Send
    <2> QED
        BY <1>1, <1>3, <2>1
<1> QED
    BY <1>4, <1>5

(* Receiving, then sending.                                                *)
LEMMA TakenSendGrows ==
    ASSUME net \in Channels, NEW a \in Ranks, NEW b \in Ranks, net[a][b] # <<>>,
           NEW r \in Ranks, NEW e, NEW q \in Ranks, NEW msgs \in Seq(Message)
    PROVE  /\ Send(Taken(a, b), r, e, q, msgs) \in Channels
           /\ \A x, y \in Ranks :
                Grows(net[x][y], Send(Taken(a, b), r, e, q, msgs)[x][y],
                      One(x, y, a, b),
                      Only(x, y, r, q, Reached(msgs, e, q)))
<1> DEFINE T == Taken(a, b)
           N == Send(T, r, e, q, msgs)
           A == Reached(msgs, e, q)
<1>1. /\ T \in Channels
      /\ \A x, y \in Ranks : /\ Grows(net[x][y], T[x][y], One(x, y, a, b), {})
                             /\ Len(T[x][y]) = Len(net[x][y]) - One(x, y, a, b)
    BY TakenGrows
<1> HIDE DEF T
<1>2. /\ N \in Channels
      /\ \A x, y \in Ranks : Grows(T[x][y], N[x][y], 0, Only(x, y, r, q, A))
    BY <1>1, SendGrows
<1> HIDE DEF N, A
<1>3. ASSUME NEW x \in Ranks, NEW y \in Ranks
      PROVE  Grows(net[x][y], N[x][y], One(x, y, a, b), Only(x, y, r, q, A))
    <2>1. net[x][y] \in Seq(Message) /\ T[x][y] \in Seq(Message) /\ N[x][y] \in Seq(Message)
        BY <1>1, <1>2 DEF Channels
    <2>2. One(x, y, a, b) \in {0, 1}
        BY DEF One
    <2> DEFINE k == One(x, y, a, b)
               b0 == net[x][y]
               c == T[x][y]
               d == N[x][y]
               B == Only(x, y, r, q, A)
    <2>3. Grows(b0, c, k, {}) /\ Grows(c, d, 0, B) /\ Len(c) = Len(b0) - k
        BY <1>1, <1>2
    <2>4. k \in {0, 1} /\ b0 \in Seq(Message) /\ c \in Seq(Message) /\ d \in Seq(Message)
        BY <2>1, <2>2
    <2> HIDE DEF k, b0, c, d, B
    <2>5. Grows(b0, d, k, B)
        BY <2>3, <2>4, GrowsThen
    <2> QED
        BY <2>5 DEF k, b0, d, B
<1> QED
    BY <1>2, <1>3 DEF N, A, T

-----------------------------------------------------------------------------
(* The epochs.  The server is active in the map that a message was sent    *)
(* with; what is on its way to the server is for its present process, and  *)
(* what comes from it was sent at a map it has handled.                    *)
ServerActive(i) == mdsmap[i][TableServer] = "active"
SentAt(x, y, m) ==
    /\ m.ep \in 1..Now /\ ServerActive(m.ep)
    /\ y = TableServer => UpThrough(TableServer, m.ep, Now)
    /\ x = TableServer => m.ep <= epoch[TableServer]
Sent == \A x, y \in Ranks : \A i \in 1..Len(net[x][y]) : SentAt(x, y, net[x][y][i])

(* A client that is ready has heard of it from the server that its map     *)
(* shows.                                                                  *)
Heard(q, i) ==
    /\ i \in 1..epoch[q] /\ i <= epoch[TableServer]
    /\ ServerActive(i) /\ UpThrough(TableServer, i, epoch[q])
ReadySince == \A q \in Ranks : client[q].ready => Up(q) /\ \E i : Heard(q, i)

(* A server that is not active yet has done nothing since its replay.      *)
Idle ==
    ~Up(TableServer) \/ ~ServerActive(epoch[TableServer]) =>
        /\ table = disk
        /\ \A i \in 1..Len(log[TableServer]) : log[TableServer][i].type \in ClientEntry

(* A client that has been greeted, or is going to be, is active in all     *)
(* maps the server has and will get: it is not greeted again by this one.  *)
Greeting(q) == \E i \in 1..Len(net[TableServer][q]) :
                    net[TableServer][q][i].op = "SERVER_READY"
Greeted ==
    \A q \in Ranks : client[q].last # -1 \/ Greeting(q) =>
        \A k \in epoch[TableServer]..Now : mdsmap[k][q] = "active"

(* A client that has no reqid yet has not asked for anything.              *)
Unasked ==
    \A q \in Ranks : client[q].last = -1 =>
        client[q].preparing = {} /\ client[q].prepared = {}

Epochs == MapsGoOn /\ Sent /\ ReadySince /\ Idle /\ Greeted /\ Unasked

(* A server that is active and runs through the maps that follow.          *)
LEMMA ActiveOn ==
    ASSUME MapsGoOn, NEW i \in 1..Now, NEW j \in 1..Now, i <= j,
           ServerActive(i), UpThrough(TableServer, i, j)
    PROVE  ServerActive(j)
    BY TableAssumption DEF MapsGoOn, ServerActive

(* The message at the head of a channel.                                   *)
LEMMA HeadSent ==
    ASSUME TypeOK, Sent, NEW x \in Ranks, NEW y \in Ranks, net[x][y] # <<>>
    PROVE  SentAt(x, y, Head(net[x][y])) /\ Head(net[x][y]) = net[x][y][1]
           /\ 1 \in 1..Len(net[x][y])
<1>1. net[x][y] \in Seq(Message)
    BY DEF TypeOK, Channels
<1>2. 1 \in 1..Len(net[x][y]) /\ Head(net[x][y]) = net[x][y][1]
    BY <1>1, HeadTailProperties, LenProperties, EmptySeq
<1> QED
    BY <1>2 DEF Sent

(* What reaches the server reaches an active one.                          *)
LEMMA ServerHandles ==
    ASSUME TypeOK, MapsGoOn, Sent, NEW r \in Ranks, Arrives(r, TableServer)
    PROVE  Up(TableServer) /\ ServerActive(epoch[TableServer])
<1> DEFINE m == Head(net[r][TableServer])
           e == epoch[TableServer]
<1>1. net[r][TableServer] # <<>> /\ m.ep <= e /\ Up(TableServer)
    BY DEF Arrives
<1>2. SentAt(r, TableServer, m)
    BY <1>1, HeadSent, TableAssumption
<1>3. m.ep \in 1..Now /\ ServerActive(m.ep) /\ UpThrough(TableServer, m.ep, Now)
    BY <1>2 DEF SentAt
<1>4. e \in 1..Now /\ Now \in Nat
    BY EpochType, TableAssumption
<1> HIDE DEF m, e
<1>5. UpThrough(TableServer, m.ep, e)
    BY <1>1, <1>3, <1>4 DEF UpThrough
<1>6. ServerActive(e)
    BY <1>1, <1>3, <1>4, <1>5, ActiveOn
<1> QED
    BY <1>1, <1>6 DEF e

(* What a client handles comes from the server that its map shows.         *)
LEMMA ClientHandles ==
    ASSUME TypeOK, MapsGoOn, Sent, NEW r \in Ranks, Arrives(TableServer, r),
           ~Stale(TableServer, r, Head(net[TableServer][r]))
    PROVE  /\ Up(r) /\ ServerActive(epoch[r])
           /\ Heard(r, Head(net[TableServer][r]).ep)
<1> DEFINE m == Head(net[TableServer][r])
<1>1. net[TableServer][r] # <<>> /\ m.ep <= epoch[r] /\ Up(r)
    BY DEF Arrives
<1>2. SentAt(TableServer, r, m)
    BY <1>1, HeadSent, TableAssumption
<1>3. m.ep \in 1..Now /\ ServerActive(m.ep) /\ m.ep <= epoch[TableServer]
    BY <1>2 DEF SentAt
<1>4. epoch[r] \in 1..Now /\ Now \in Nat
    BY EpochType
<1>5. \A i \in (m.ep + 1)..epoch[r] : mdsmap[i][TableServer] # "down"
    BY DEF Stale
<1> HIDE DEF m
<1>6. \A i \in m.ep..epoch[r] : i = m.ep \/ i \in (m.ep + 1)..epoch[r]
    BY <1>3, <1>4
<1>7. UpThrough(TableServer, m.ep, epoch[r])
    BY <1>3, <1>5, <1>6 DEF UpThrough, ServerActive
<1>8. ServerActive(epoch[r])
    BY <1>1, <1>3, <1>4, <1>7, ActiveOn
<1>9. Heard(r, m.ep)
    BY <1>1, <1>3, <1>4, <1>7 DEF Heard
<1> QED
    BY <1>1, <1>8, <1>9 DEF m

(* A client that is ready knows an active server.                          *)
LEMMA ReadyKnows ==
    ASSUME TypeOK, MapsGoOn, ReadySince, NEW r \in Ranks, client[r].ready
    PROVE  ServerActive(epoch[r])
<1>1. PICK i : Heard(r, i)
    BY DEF ReadySince
<1>2. epoch[r] \in 1..Now /\ Now \in Nat
    BY EpochType
<1>3. i \in 1..Now /\ i <= epoch[r] /\ ServerActive(i) /\ UpThrough(TableServer, i, epoch[r])
    BY <1>1, <1>2 DEF Heard
<1> QED
    BY <1>2, <1>3, ActiveOn

-----------------------------------------------------------------------------
(* What a step does to the channels: the first message of those in T is    *)
(* taken, and r sends messages of A to q.                                  *)
Flow(T, r, q, A) ==
    /\ net' \in Channels
    /\ \A x, y \in Ranks : Grows(net[x][y], net'[x][y],
                                 IF <<x, y>> \in T THEN 1 ELSE 0,
                                 Only(x, y, r, q, A))

(* Messages as r sends them to q.                                          *)
Sendable(r, q) ==
    {m \in Message : m.ep = epoch[r] /\ Reaches(epoch[r], q)}

(* Messages that say nothing about tids that are agreed, nor greet.        *)
Plain == {m \in Message : m.op \notin {"AGREE", "SERVER_READY"}}

(* One message as a sequence.                                              *)
LEMMA InOne ==
    ASSUME NEW m
    PROVE  In(<<m>>) = {m}
    BY DEF In

(* The messages of a sequence over M.                                      *)
LEMMA InType ==
    ASSUME NEW M, NEW s \in Seq(M)
    PROVE  In(s) \subseteq M
    BY ElementOfSeq DEF In

(* Nothing is taken and nothing is sent.                                   *)
LEMMA FlowNone ==
    ASSUME TypeOK, UNCHANGED net, NEW r, NEW q
    PROVE  Flow({}, r, q, {})
<1>1. net \in Channels /\ \A x, y \in Ranks : net[x][y] \in Seq(Message)
    BY DEF TypeOK, Channels
<1>2. \A x, y \in Ranks : Grows(net[x][y], net[x][y], 0, {})
    BY <1>1, GrowsSame
<1>3. \A x, y \in Ranks : Only(x, y, r, q, {}) = {}
    BY DEF Only
<1> QED
    BY <1>1, <1>2, <1>3 DEF Flow

(* A message is taken.                                                     *)
LEMMA FlowTaken ==
    ASSUME TypeOK, NEW a \in Ranks, NEW b \in Ranks, net[a][b] # <<>>,
           net' = Taken(a, b), NEW r, NEW q
    PROVE  Flow({<<a, b>>}, r, q, {})
<1>1. /\ net' \in Channels
      /\ \A x, y \in Ranks : Grows(net[x][y], net'[x][y], One(x, y, a, b), {})
    BY TakenGrows DEF TypeOK
<1>2. \A x, y \in Ranks : Only(x, y, r, q, {}) = {}
    BY DEF Only
<1>3. \A x, y \in Ranks :
        One(x, y, a, b) = IF <<x, y>> \in {<<a, b>>} THEN 1 ELSE 0
    BY DEF One
<1> QED
    BY <1>1, <1>2, <1>3 DEF Flow

(* Messages are sent.                                                      *)
LEMMA FlowSend ==
    ASSUME TypeOK, NEW r \in Ranks, NEW q \in Ranks,
           NEW msgs \in Seq(Message), NEW A,
           net' = Send(net, r, epoch[r], q, msgs),
           \A m \in In(msgs) : m \in A /\ m.ep = epoch[r]
    PROVE  Flow({}, r, q, A \cap Sendable(r, q))
<1> DEFINE B == Reached(msgs, epoch[r], q)
           C == A \cap Sendable(r, q)
<1>1. /\ net' \in Channels
      /\ \A x, y \in Ranks : Grows(net[x][y], net'[x][y], 0, Only(x, y, r, q, B))
    BY SendGrows DEF TypeOK
<1>2. B \subseteq C
    BY InType DEF Reached, Sendable
<1> HIDE DEF B, C
<1>3. \A x, y \in Ranks : Only(x, y, r, q, B) \subseteq Only(x, y, r, q, C)
    BY <1>2 DEF Only
<1>4. \A x, y \in Ranks : Grows(net[x][y], net'[x][y], 0, Only(x, y, r, q, C))
    BY <1>1, <1>3 DEF Grows
<1> QED
    BY <1>1, <1>4 DEF Flow, C

(* A message is taken and messages are sent.                               *)
LEMMA FlowAnswer ==
    ASSUME TypeOK, NEW a \in Ranks, NEW b \in Ranks, net[a][b] # <<>>,
           NEW r \in Ranks, NEW q \in Ranks,
           NEW msgs \in Seq(Message), NEW A,
           net' = Send(Taken(a, b), r, epoch[r], q, msgs),
           \A m \in In(msgs) : m \in A /\ m.ep = epoch[r]
    PROVE  Flow({<<a, b>>}, r, q, A \cap Sendable(r, q))
<1> DEFINE B == Reached(msgs, epoch[r], q)
           C == A \cap Sendable(r, q)
<1>1. /\ net' \in Channels
      /\ \A x, y \in Ranks : Grows(net[x][y], net'[x][y], One(x, y, a, b),
                                   Only(x, y, r, q, B))
    BY TakenSendGrows DEF TypeOK
<1>2. B \subseteq C
    BY InType DEF Reached, Sendable
<1> HIDE DEF B, C
<1>3. \A x, y \in Ranks : Only(x, y, r, q, B) \subseteq Only(x, y, r, q, C)
    BY <1>2 DEF Only
<1>4. \A x, y \in Ranks :
        One(x, y, a, b) = IF <<x, y>> \in {<<a, b>>} THEN 1 ELSE 0
    BY DEF One
<1>5. \A x, y \in Ranks : Grows(net[x][y], net'[x][y], One(x, y, a, b),
                                Only(x, y, r, q, C))
    BY <1>1, <1>3, GrowsMono
<1>6. \A x, y \in Ranks : Grows(net[x][y], net'[x][y],
                                IF <<x, y>> \in {<<a, b>>} THEN 1 ELSE 0,
                                Only(x, y, r, q, C))
    BY <1>4, <1>5
<1> QED
    BY <1>1, <1>6 DEF Flow, C

-----------------------------------------------------------------------------
(* The steps that neither greet nor agree: what is sent is plain, and sent *)
(* by who knows an active server.                                          *)
Moves(T) ==
    \E r, q \in Ranks : \E A \in SUBSET (Plain \cap Sendable(r, q)) :
        Flow(T, r, q, A) /\ (A = {} \/ ServerActive(epoch[r]))
Calm(T) == UNCHANGED cluster /\ Moves(T)

LEMMA MovesSilent ==
    ASSUME NEW T, Flow(T, TableServer, TableServer, {})
    PROVE  Moves(T)
    BY TableAssumption DEF Moves

LEMMA MovesSending ==
    ASSUME NEW T, NEW r \in Ranks, NEW q \in Ranks, ServerActive(epoch[r]),
           Flow(T, r, q, Plain \cap Sendable(r, q))
    PROVE  Moves(T)
    BY DEF Moves

LEMMA OnePlain ==
    ASSUME NEW m \in Plain
    PROVE  <<m>> \in Seq(Message) /\ In(<<m>>) = {m}
<1>1. m \in Message
    BY DEF Plain
<1> QED
    BY <1>1, InOne, OneMessage

LEMMA ServerMoves ==
    ASSUME TypeOK, Epochs, NEW r \in Ranks,
           HandlePrepare(r) \/ HandleCommit(r) \/ HandleRollback(r)
    PROVE  \/ Calm({<<r, TableServer>>})
           \/ \E why : Dies(TableServer, why)
<1> USE TableAssumption
<1> DEFINE m == Head(net[r][TableServer])
           e == epoch[TableServer]
           T == {<<r, TableServer>>}
<1>1. Arrives(r, TableServer) /\ net[r][TableServer] # <<>>
    BY DEF HandlePrepare, HandleCommit, HandleRollback, Receives, Arrives
<1>2. m.tid \in Nat /\ ServerActive(e)
    BY <1>1, ArrivesType, ServerHandles DEF Message, Epochs
<1>3. \/ UNCHANGED cluster /\ net' = Taken(r, TableServer)
      \/ /\ UNCHANGED cluster
         /\ net' = Send(Taken(r, TableServer), TableServer, e, r,
                        <<Msg("ACK", 0, m.tid, FALSE, e)>>)
      \/ \E why : Dies(TableServer, why)
    BY DEF HandlePrepare, HandleCommit, HandleRollback
<1>4. ASSUME net' = Taken(r, TableServer)
      PROVE  Moves(T)
    BY <1>1, <1>4, FlowTaken, MovesSilent
<1>5. ASSUME net' = Send(Taken(r, TableServer), TableServer, e, r,
                         <<Msg("ACK", 0, m.tid, FALSE, e)>>)
      PROVE  Moves(T)
    <2> DEFINE k == Msg("ACK", 0, m.tid, FALSE, e)
               s == <<k>>
    <2>1. k \in Plain /\ k.ep = e
        BY <1>2, EpochType DEF Msg, Message, Plain
    <2>2. net' = Send(Taken(r, TableServer), TableServer, e, r, s)
        BY <1>5
    <2> HIDE DEF k
    <2>4. s \in Seq(Message) /\ \A x \in In(s) : x \in Plain /\ x.ep = e
        BY <2>1, OnePlain
    <2> HIDE DEF s
    <2>3. Flow(T, TableServer, r, Plain \cap Sendable(TableServer, r))
        BY <1>1, <2>2, <2>4, FlowAnswer
    <2> QED
        BY <1>2, <2>3, MovesSending
<1> QED
    BY <1>3, <1>4, <1>5 DEF Calm

LEMMA PrepareMoves ==
    ASSUME TypeOK, Epochs, NEW r \in Ranks, Prepare(r)
    PROVE  Calm({})
<1> USE TableAssumption
<1> DEFINE id == client[r].last + 1
           k == Msg("PREPARE", id, 0, FALSE, epoch[r])
           s == <<k>>
<1>1. CASE UNCHANGED net
    BY <1>1, FlowNone, MovesSilent DEF Prepare, Calm
<1>2. CASE ~UNCHANGED net
    <2>1. /\ client[r].last # -1 /\ client[r].ready
          /\ net' = Send(net, r, epoch[r], TableServer, s)
        BY <1>2 DEF Prepare
    <2>2. id \in Nat
        BY <2>1 DEF TypeOK, Client
    <2>3. s \in Seq(Message) /\ \A x \in In(s) : x \in Plain /\ x.ep = epoch[r]
        <3>1. k \in Plain /\ k.ep = epoch[r]
            BY <2>2, EpochType DEF Msg, Message, Plain
        <3> HIDE DEF k
        <3> QED
            BY <3>1, OnePlain
    <2> HIDE DEF s
    <2>4. Flow({}, r, TableServer, Plain \cap Sendable(r, TableServer))
        BY <2>1, <2>3, FlowSend
    <2>5. ServerActive(epoch[r])
        BY <2>1, ReadyKnows DEF Epochs
    <2> QED
        BY <2>4, <2>5, MovesSending DEF Prepare, Calm
<1> QED
    BY <1>1, <1>2

LEMMA HandleAgreeMoves ==
    ASSUME TypeOK, Epochs, NEW r \in Ranks, HandleAgree(r)
    PROVE  Calm({<<TableServer, r>>}) \/ \E why : Dies(r, why)
<1> USE TableAssumption
<1> DEFINE m == Head(net[TableServer][r])
           k == Msg("ROLLBACK", 0, m.tid, FALSE, epoch[r])
           s == <<k>>
<1>1. /\ Arrives(TableServer, r) /\ net[TableServer][r] # <<>>
      /\ ~Stale(TableServer, r, m)
    BY DEF HandleAgree, Receives, Arrives
<1>2. m.tid \in Nat /\ ServerActive(epoch[r])
    BY <1>1, ArrivesType, ClientHandles DEF Message, Epochs
<1>3. \/ UNCHANGED cluster /\ net' = Taken(TableServer, r)
      \/ /\ UNCHANGED cluster
         /\ net' = Send(Taken(TableServer, r), r, epoch[r], TableServer, s)
      \/ \E why : Dies(r, why)
    BY DEF HandleAgree
<1>4. ASSUME net' = Taken(TableServer, r)
      PROVE  Moves({<<TableServer, r>>})
    BY <1>1, <1>4, FlowTaken, MovesSilent
<1>5. ASSUME net' = Send(Taken(TableServer, r), r, epoch[r], TableServer, s)
      PROVE  Moves({<<TableServer, r>>})
    <2>1. s \in Seq(Message) /\ \A x \in In(s) : x \in Plain /\ x.ep = epoch[r]
        <3>1. k \in Plain /\ k.ep = epoch[r]
            BY <1>2, EpochType DEF Msg, Message, Plain
        <3> HIDE DEF k
        <3> QED
            BY <3>1, OnePlain
    <2> HIDE DEF s
    <2>3. Flow({<<TableServer, r>>}, r, TableServer, Plain \cap Sendable(r, TableServer))
        BY <1>1, <1>5, <2>1, FlowAnswer
    <2> QED
        BY <1>2, <2>3, MovesSending
<1> QED
    BY <1>3, <1>4, <1>5 DEF Calm

LEMMA HandleAckMoves ==
    ASSUME TypeOK, Epochs, NEW r \in Ranks, HandleAck(r)
    PROVE  Calm({<<TableServer, r>>})
<1>1. net[TableServer][r] # <<>>
    BY DEF HandleAck, Receives, Arrives
<1>2. UNCHANGED cluster /\ net' = Taken(TableServer, r)
    BY DEF HandleAck
<1> QED
    BY <1>1, <1>2, FlowTaken, MovesSilent, TableAssumption DEF Calm

(* What HandleServerReady sends: prepares and commits.                     *)
LEMMA ResentPlain ==
    ASSUME TypeOK, NEW r \in Ranks, NEW ids \in SUBSET Nat, IsFiniteSet(ids),
           NEW ps \in InOrder({Msg("PREPARE", i, 0, FALSE, epoch[r]) : i \in ids}),
           NEW cs \in InOrder({Msg("COMMIT", 0, t, FALSE, epoch[r]) :
                                    t \in client[r].commits})
    PROVE  ps \o cs \in Seq({m \in Plain : m.ep = epoch[r]})
<1> DEFINE M == {m \in Plain : m.ep = epoch[r]}
           P == {Msg("PREPARE", i, 0, FALSE, epoch[r]) : i \in ids}
           C == {Msg("COMMIT", 0, t, FALSE, epoch[r]) : t \in client[r].commits}
<1>1. client[r].commits \subseteq Nat /\ IsFiniteSet(client[r].commits)
    BY DEF TypeOK, Client
<1>2. epoch[r] \in Nat
    BY EpochType
<1>3. IsFiniteSet(P) /\ IsFiniteSet(C)
    BY <1>1, FinitePrepares, FiniteCommits
<1>4. P \subseteq M
    <2> SUFFICES ASSUME NEW i \in ids PROVE Msg("PREPARE", i, 0, FALSE, epoch[r]) \in M
        OBVIOUS
    <2>1. Msg("PREPARE", i, 0, FALSE, epoch[r]) \in Message
        BY <1>2, MsgType
    <2>2. /\ Msg("PREPARE", i, 0, FALSE, epoch[r]).op = "PREPARE"
          /\ Msg("PREPARE", i, 0, FALSE, epoch[r]).ep = epoch[r]
        BY DEF Msg
    <2> QED
        BY <2>1, <2>2 DEF Plain
<1>5. C \subseteq M
    <2> SUFFICES ASSUME NEW t \in client[r].commits
                 PROVE  Msg("COMMIT", 0, t, FALSE, epoch[r]) \in M
        OBVIOUS
    <2>1. Msg("COMMIT", 0, t, FALSE, epoch[r]) \in Message
        BY <1>1, <1>2, MsgType
    <2>2. /\ Msg("COMMIT", 0, t, FALSE, epoch[r]).op = "COMMIT"
          /\ Msg("COMMIT", 0, t, FALSE, epoch[r]).ep = epoch[r]
        BY DEF Msg
    <2> QED
        BY <2>1, <2>2 DEF Plain
<1> HIDE DEF M
<1>6. ps \in Seq(M) /\ cs \in Seq(M)
    <2>1. ps \in InOrder(P) /\ cs \in InOrder(C)
        OBVIOUS
    <2> HIDE DEF P, C
    <2> QED
        BY <1>3, <1>4, <1>5, <2>1, InOrderType
<1>7. ps \o cs \in Seq(M)
    BY <1>6, ConcatProperties
<1> QED
    BY <1>7 DEF M

LEMMA HandleServerReadyMoves ==
    ASSUME TypeOK, Epochs, NEW r \in Ranks, HandleServerReady(r)
    PROVE  Calm({<<TableServer, r>>}) \/ \E why : Dies(r, why)
<1> USE TableAssumption
<1> DEFINE m == Head(net[TableServer][r])
           c == client[r]
           base == IF c.last = -1 THEN m.reqid ELSE c.last
           ids == c.preparing \cup (base + 1)..(base + c.waiting)
<1>1. /\ Arrives(TableServer, r) /\ net[TableServer][r] # <<>>
      /\ ~Stale(TableServer, r, m)
    BY DEF HandleServerReady, Receives, Arrives
<1>2. m.reqid \in Nat /\ ServerActive(epoch[r])
    BY <1>1, ArrivesType, ClientHandles DEF Message, Epochs
<1>3. base \in Nat /\ c.waiting \in Nat /\ c.preparing \subseteq Nat
      /\ IsFiniteSet(c.preparing)
    BY <1>2 DEF TypeOK, Client
<1>4. ids \subseteq Nat /\ IsFiniteSet(ids)
    <2>1. (base + 1)..(base + c.waiting) \subseteq Nat /\ base + 1 \in Int
          /\ base + c.waiting \in Int
        BY <1>3
    <2>2. IsFiniteSet((base + 1)..(base + c.waiting))
        BY <2>1, FS_Interval
    <2> QED
        BY <1>3, <2>1, <2>2, FS_Union
<1>5. \/ \E why : Dies(r, why)
      \/ /\ UNCHANGED cluster
         /\ \E ps \in InOrder({Msg("PREPARE", i, 0, FALSE, epoch[r]) : i \in ids}),
               cs \in InOrder({Msg("COMMIT", 0, t, FALSE, epoch[r]) : t \in c.commits}) :
                net' = Send(Taken(TableServer, r), r, epoch[r], TableServer, ps \o cs)
    BY DEF HandleServerReady
<1> HIDE DEF ids
<1>6. ASSUME NEW ps \in InOrder({Msg("PREPARE", i, 0, FALSE, epoch[r]) : i \in ids}),
             NEW cs \in InOrder({Msg("COMMIT", 0, t, FALSE, epoch[r]) : t \in c.commits}),
             net' = Send(Taken(TableServer, r), r, epoch[r], TableServer, ps \o cs)
      PROVE  Moves({<<TableServer, r>>})
    <2> DEFINE s == ps \o cs
    <2>1. s \in Seq({x \in Plain : x.ep = epoch[r]})
        BY <1>4, ResentPlain
    <2> HIDE DEF s
    <2>2. s \in Seq(Message)
        BY <2>1, SeqMono DEF Plain
    <2>3. \A x \in In(s) : x \in Plain /\ x.ep = epoch[r]
        BY <2>1, InType
    <2>4. net' = Send(Taken(TableServer, r), r, epoch[r], TableServer, s)
        BY <1>6 DEF s
    <2>5. Flow({<<TableServer, r>>}, r, TableServer, Plain \cap Sendable(r, TableServer))
        BY <1>1, <2>2, <2>3, <2>4, FlowAnswer
    <2> QED
        BY <1>2, <2>5, MovesSending
<1> QED
    BY <1>5, <1>6 DEF Calm

LEMMA CommitMoves ==
    ASSUME TypeOK, Epochs, NEW r \in Ranks, Commit(r)
    PROVE  Calm({}) \/ \E why : Dies(r, why)
<1> USE TableAssumption
<1> DEFINE tid == Head(log[r]).tid
           k == Msg("COMMIT", 0, tid, FALSE, epoch[r])
           s == <<k>>
<1>1. Head(log[r]) \in Entry
    BY HeadTailProperties DEF Commit, TypeOK
<1>2. tid \in Nat
    BY <1>1 DEF Entry
<1>3. \/ \E why : Dies(r, why)
      \/ UNCHANGED cluster /\ UNCHANGED net
      \/ /\ UNCHANGED cluster /\ client[r].ready
         /\ net' = Send(net, r, epoch[r], TableServer, s)
    BY DEF Commit
<1>4. ASSUME UNCHANGED net
      PROVE  Moves({})
    BY <1>4, FlowNone, MovesSilent
<1>5. ASSUME client[r].ready, net' = Send(net, r, epoch[r], TableServer, s)
      PROVE  Moves({})
    <2>1. k \in Plain /\ k.ep = epoch[r]
        BY <1>2, EpochType DEF Msg, Message, Plain
    <2> HIDE DEF k
    <2>2. s \in Seq(Message) /\ \A x \in In(s) : x \in Plain /\ x.ep = epoch[r]
        BY <2>1, OnePlain
    <2> HIDE DEF s
    <2>3. Flow({}, r, TableServer, Plain \cap Sendable(r, TableServer))
        BY <1>5, <2>2, FlowSend
    <2>4. ServerActive(epoch[r])
        BY <1>5, ReadyKnows DEF Epochs
    <2> QED
        BY <2>3, <2>4, MovesSending
<1> QED
    BY <1>3, <1>4, <1>5 DEF Calm

(* A journal entry of the server: it is the server's and it is active.     *)
LEMMA LoggedByServer ==
    ASSUME TypeOK, Continues, Epochs, NEW r \in Ranks, log[r] # <<>>, Up(r),
           Head(log[r]).type \notin ClientEntry
    PROVE  /\ r = TableServer /\ ServerActive(epoch[r])
           /\ Head(log[r]) \in Entry
           /\ Head(log[r]) = log[r][1] /\ 1 \in 1..Len(log[r])
<1>1. log[r] \in Seq(RoleEntry(r)) /\ log[r] \in Seq(Entry)
    BY DEF Continues, TypeOK
<1>2. Head(log[r]) \in RoleEntry(r) /\ Head(log[r]) = log[r][1] /\ Len(log[r]) \in Nat
      /\ Len(log[r]) # 0
    BY <1>1, HeadTailProperties, LenProperties, EmptySeq
<1>3. r = TableServer /\ 1 \in 1..Len(log[r])
    BY <1>2 DEF RoleEntry
<1>4. ServerActive(epoch[r])
    BY <1>2, <1>3 DEF Epochs, Idle
<1> QED
    BY <1>2, <1>3, <1>4 DEF RoleEntry

LEMMA TableLoggedMoves ==
    ASSUME TypeOK, Continues, Epochs, NEW r \in Ranks, TableLogged(r),
           Head(log[r]).type # "PREPARE"
    PROVE  Calm({})
<1> DEFINE x == Head(log[r])
           k == Msg("ACK", 0, x.tid, FALSE, epoch[r])
           s == <<k>>
<1>1. CASE x.type = "COMMIT"
    <2>1. net' = Send(net, r, epoch[r], x.mds, s)
        BY <1>1 DEF TableLogged
    <2>2. /\ r = TableServer /\ ServerActive(epoch[r]) /\ x \in Entry
        BY <1>1, LoggedByServer DEF TableLogged, ClientEntry
    <2>3. x.mds \in Ranks /\ x.tid \in Nat
        BY <2>2 DEF Entry
    <2>4. k \in Plain /\ k.ep = epoch[r]
        BY <2>3, EpochType DEF Msg, Message, Plain
    <2> HIDE DEF k
    <2>5. s \in Seq(Message) /\ \A y \in In(s) : y \in Plain /\ y.ep = epoch[r]
        BY <2>4, OnePlain
    <2> HIDE DEF s, x
    <2>6. Flow({}, r, x.mds, Plain \cap Sendable(r, x.mds))
        BY <2>1, <2>3, <2>5, FlowSend
    <2> QED
        BY <2>2, <2>3, <2>6, MovesSending DEF TableLogged, Calm
<1>2. CASE x.type # "COMMIT"
    <2>1. UNCHANGED net
        BY <1>2 DEF TableLogged
    <2> QED
        BY <2>1, FlowNone, MovesSilent DEF TableLogged, Calm
<1> QED
    BY <1>1, <1>2

(* _prepare_logged: the one AGREE that carries the reply.                  *)
AgreeOf(x) == [op |-> "AGREE", reqid |-> x.reqid, tid |-> x.tid, bl |-> TRUE,
               ep |-> epoch[TableServer]]
LEMMA AgreeFlow ==
    ASSUME TypeOK, Continues, Epochs, NEW r \in Ranks, TableLogged(r),
           Head(log[r]).type = "PREPARE"
    PROVE  /\ r = TableServer /\ ServerActive(epoch[r])
           /\ Head(log[r]) \in Entry /\ UNCHANGED cluster
           /\ Head(log[r]) = log[r][1] /\ 1 \in 1..Len(log[r])
           /\ AgreeOf(Head(log[r])) \in Message
           /\ Flow({}, TableServer, Head(log[r]).mds,
                   {AgreeOf(Head(log[r]))} \cap Sendable(TableServer, Head(log[r]).mds))
<1> DEFINE x == Head(log[r])
           k == AgreeOf(x)
           s == <<k>>
<1>1. /\ r = TableServer /\ ServerActive(epoch[r]) /\ x \in Entry
      /\ x = log[r][1] /\ 1 \in 1..Len(log[r])
    BY LoggedByServer DEF TableLogged, ClientEntry
<1>2. net' = Send(net, TableServer, epoch[TableServer], x.mds, s)
    BY <1>1 DEF TableLogged, AgreeOf, Msg
<1>3. x.mds \in Ranks /\ x.tid \in Nat /\ x.reqid \in Nat
    BY <1>1 DEF Entry
<1>4. k \in Message /\ k.ep = epoch[TableServer]
    BY <1>3, EpochType, TableAssumption DEF AgreeOf, Message
<1> HIDE DEF k
<1>5. s \in Seq(Message) /\ In(s) = {k}
    BY <1>4, InOne, OneMessage
<1> HIDE DEF s, x
<1>6. Flow({}, TableServer, x.mds, {k} \cap Sendable(TableServer, x.mds))
    BY <1>2, <1>3, <1>4, <1>5, FlowSend, TableAssumption
<1>7. UNCHANGED cluster
    BY DEF TableLogged
<1> QED
    BY <1>1, <1>4, <1>6, <1>7 DEF x, k

(* The steps that leave the channels alone.                                *)
LEMMA StillMoves ==
    ASSUME TypeOK, UNCHANGED <<cluster, net>>
    PROVE  Calm({})
    BY FlowNone, MovesSilent DEF Calm

-----------------------------------------------------------------------------
(* The messages in the channels are as Sent says.                          *)

(* A step that changes no map.                                             *)
LEMMA SentKept ==
    ASSUME TypeOK, Sent, UNCHANGED cluster, NEW T, NEW r \in Ranks, NEW q \in Ranks,
           NEW A \in SUBSET Sendable(r, q), Flow(T, r, q, A),
           A = {} \/ ServerActive(epoch[r])
    PROVE  Sent'
<1> SUFFICES ASSUME NEW x \in Ranks, NEW y \in Ranks, NEW i \in 1..Len(net'[x][y])
             PROVE  SentAt(x, y, net[x][y][i])'
    BY DEF Sent
<1> DEFINE c == net[x][y]
           d == net'[x][y]
           k == IF <<x, y>> \in T THEN 1 ELSE 0
<1>1. c \in Seq(Message) /\ d \in Seq(Message)
    BY DEF TypeOK, Flow, Channels
<1>2. Len(c) \in Nat /\ Len(d) \in Nat
    BY <1>1, LenProperties
<1>3. Grows(c, d, k, Only(x, y, r, q, A)) /\ k \in {0, 1}
    BY DEF Flow
<1>4. i \in 1..Len(d)
    OBVIOUS
<1>5. SentAt(x, y, d[i])
    <2>1. CASE i + k <= Len(c) /\ d[i] = c[i + k]
        <3>1. i + k \in 1..Len(c)
            BY <1>2, <1>3, <1>4, <2>1
        <3> QED
            BY <2>1, <3>1 DEF Sent
    <2>2. CASE d[i] \in Only(x, y, r, q, A)
        <3>1. x = r /\ y = q /\ d[i] \in A
            BY <2>2 DEF Only
        <3>2. d[i].ep = epoch[r] /\ Reaches(epoch[r], q) /\ ServerActive(epoch[r])
            BY <3>1 DEF Sendable
        <3>3. epoch[r] \in 1..Now /\ epoch[r] \in Nat
            BY EpochType
        <3>4. q = TableServer => UpThrough(TableServer, epoch[r], Now)
            BY <3>2 DEF Reaches, UpThrough
        <3> QED
            BY <3>1, <3>2, <3>3, <3>4 DEF SentAt
    <2> QED
        BY <1>3, <1>4, <2>1, <2>2 DEF Grows
<1> QED
    BY <1>5 DEF SentAt, cluster, Now, ServerActive, UpThrough

LEMMA CalmSent ==
    ASSUME TypeOK, Sent, NEW T, Calm(T)
    PROVE  Sent'
<1>1. PICK r, q \in Ranks : \E A \in SUBSET (Plain \cap Sendable(r, q)) :
        Flow(T, r, q, A) /\ (A = {} \/ ServerActive(epoch[r]))
    BY DEF Calm, Moves
<1>2. PICK A \in SUBSET (Plain \cap Sendable(r, q)) :
        Flow(T, r, q, A) /\ (A = {} \/ ServerActive(epoch[r]))
    BY <1>1
<1>3. A \in SUBSET Sendable(r, q)
    OBVIOUS
<1> QED
    BY <1>2, <1>3, SentKept DEF Calm

(* A map more, which shows r in the state st.                              *)
LEMMA SentPublished ==
    ASSUME TypeOK, Sent, NEW r \in Ranks, NEW st, OneMore(r, st),
           \A q \in Ranks : epoch'[q] \in Nat /\ epoch[q] <= epoch'[q],
           \A x, y \in Ranks : net'[x][y] = <<>> \/
                (net'[x][y] = net[x][y] /\ (y = r => st # "down"))
    PROVE  Sent'
<1>1. Now \in Nat /\ Now' = Now + 1
    BY NowType DEF OneMore
<1> SUFFICES ASSUME NEW x \in Ranks, NEW y \in Ranks, NEW i \in 1..Len(net'[x][y])
             PROVE  SentAt(x, y, net[x][y][i])'
    BY DEF Sent
<1> DEFINE m == net'[x][y][i]
<1>2. net'[x][y] = net[x][y] /\ (y = r => st # "down")
    <2>1. CASE net'[x][y] = <<>>
        BY <2>1
    <2> QED
        BY <2>1
<1>3. SentAt(x, y, m)
    BY <1>2 DEF Sent
<1>4. PICK ep \in 1..Now :
      /\ ep = m.ep /\ ServerActive(ep)
      /\ y = TableServer => UpThrough(TableServer, ep, Now)
      /\ x = TableServer => ep <= epoch[TableServer]
    BY <1>3 DEF SentAt
<1>5. epoch[TableServer] \in Nat
    BY EpochType, TableAssumption
<1>6. ep \in 1..Now' /\ ServerActive(ep)'
    BY <1>1, <1>4 DEF OneMore, ServerActive
<1>7. x = TableServer => ep <= epoch'[TableServer]
    BY <1>4, <1>5, TableAssumption
<1>8. ASSUME y = TableServer
      PROVE  UpThrough(TableServer, ep, Now)'
    <2>1. \A k \in ep..Now : mdsmap[k][TableServer] # "down"
        BY <1>4, <1>8 DEF UpThrough
    <2>2. Now \in ep..Now /\ ep..Now \subseteq 1..Now
        BY <1>1, <1>4
    <2>3. mdsmap'[Now + 1][TableServer] # "down"
        BY <1>2, <1>8, <2>1, <2>2, TableAssumption DEF OneMore
    <2>4. \A k \in ep..Now : mdsmap'[k][TableServer] # "down"
        BY <2>1, <2>2 DEF OneMore
    <2>5. \A k \in ep..(Now + 1) : k = Now + 1 \/ k \in ep..Now
        BY <1>1, <1>4
    <2> QED
        BY <1>1, <2>3, <2>4, <2>5 DEF UpThrough
<1>9. /\ ep \in 1..Now' /\ ServerActive(ep)'
      /\ y = TableServer => UpThrough(TableServer, ep, Now)'
      /\ x = TableServer => ep <= epoch'[TableServer]
    BY <1>6, <1>7, <1>8
<1> QED
    BY <1>2, <1>4, <1>9 DEF SentAt

LEMMA DiesSent ==
    ASSUME TypeOK, Sent, NEW r \in Ranks, NEW why, Dies(r, why)
    PROVE  Sent'
<1>1. OneMore(r, "down")
    BY NextMap DEF Dies
<1>2. \A x, y \in Ranks : net'[x][y] = IF y = r THEN <<>> ELSE net[x][y]
    BY DEF Dies, TypeOK, Channels
<1>3. \A q \in Ranks : epoch'[q] \in Nat /\ epoch[q] <= epoch'[q]
    BY EpochType DEF Dies
<1> QED
    BY <1>1, <1>2, <1>3, SentPublished

LEMMA TakeoverSent ==
    ASSUME TypeOK, Sent, NEW r \in Ranks, Takeover(r) \/ MonActive(r)
    PROVE  Sent'
<1>1. OneMore(r, "up") \/ OneMore(r, "active")
    BY NextMap DEF Takeover, MonActive, Published
<1>2. UNCHANGED net
    BY DEF Takeover, MonActive
<1>3. \A q \in Ranks : epoch'[q] \in Nat /\ epoch[q] <= epoch'[q]
    BY EpochType, NowType DEF Takeover, MonActive, TypeOK
<1> QED
    BY <1>1, <1>2, <1>3, SentPublished

-----------------------------------------------------------------------------
(* A greeting: the AGREEs of what is pending for q, and SERVER_READY last. *)
Offer(q, m) == [tid |-> m.tid, mds |-> q, reqid |-> m.reqid]
Welcome(q, e) ==
    {m \in Message :
        /\ m.ep = e
        /\ \/ m.op = "SERVER_READY" /\ \A p \in table.pending : p.mds = q => p.reqid <= m.reqid
           \/ m.op = "AGREE" /\ ~m.bl /\ Offer(q, m) \in table.pending}

LEMMA GreetingShape ==
    ASSUME TypeOK, NEW q \in Ranks, NEW e \in Nat, NEW g \in Greetings(q, e)
    PROVE  /\ g \in Seq(Message) /\ In(g) \subseteq Welcome(q, e)
           /\ \A i \in 1..(Len(g) - 1) : g[i].op = "AGREE"
<1>1. PICK a \in InOrder(Agrees(q, e)), n \in NextReqid(q) : g = Append(a, Ready(n, e))
    BY DEF Greetings
<1> DEFINE W == {m \in Welcome(q, e) : m.op = "AGREE"}
<1>2. Agrees(q, e) \subseteq W
    <2> SUFFICES ASSUME NEW p \in table.pending, p.mds = q
                 PROVE  Msg("AGREE", p.reqid, p.tid, FALSE, e) \in W
        BY DEF Agrees
    <2> DEFINE k == Msg("AGREE", p.reqid, p.tid, FALSE, e)
    <2>1. p \in Pending
        BY DEF TypeOK, Table
    <2>2. p = [tid |-> p.tid, mds |-> q, reqid |-> p.reqid] /\ p.tid \in Nat /\ p.reqid \in Nat
        BY <2>1 DEF Pending
    <2>3. k \in Message /\ k.op = "AGREE" /\ ~k.bl /\ k.ep = e
          /\ k.tid = p.tid /\ k.reqid = p.reqid
        BY <2>2 DEF Msg, Message
    <2> HIDE DEF k
    <2>4. Offer(q, k) = p
        BY <2>2, <2>3 DEF Offer
    <2> QED
        BY <2>3, <2>4 DEF Welcome, k
<1>3. IsFiniteSet(Agrees(q, e))
    BY FiniteAgrees DEF TypeOK
<1>4. a \in Seq(W)
    BY <1>2, <1>3, InOrderType
<1> DEFINE k == Ready(n, e)
<1>5. n \in Nat /\ \A p \in table.pending : p.mds = q => p.reqid <= n
    <2>1. \A p \in table.pending : p.reqid \in Nat
        BY DEF TypeOK, Table, Pending
    <2>2. n \in Nat /\ \A p \in {x \in table.pending : x.mds = q} : p.reqid < n
        BY <2>1 DEF NextReqid
    <2> QED
        BY <2>1, <2>2
<1>6. k \in Welcome(q, e) /\ k.op = "SERVER_READY"
    BY <1>5 DEF Ready, Msg, Message, Welcome
<1> HIDE DEF W, k
<1>7. g = Append(a, k)
    BY <1>1 DEF k
<1>8. /\ Len(a) \in Nat /\ Len(g) = Len(a) + 1 /\ g[Len(g)] = k
      /\ \A i \in 1..Len(a) : g[i] = a[i] /\ a[i] \in W
    BY <1>4, <1>7, AppendProperties, LenProperties, ElementOfSeq
<1>9. \A i \in 1..Len(g) : g[i] \in Welcome(q, e)
    BY <1>6, <1>8 DEF W
<1>10. \A i \in 1..(Len(g) - 1) : g[i].op = "AGREE"
    BY <1>8 DEF W
<1>11. g \in Seq(Message)
    <2>1. a \in Seq(Message) /\ k \in Message
        BY <1>4, <1>6, SeqMono DEF W, Welcome
    <2> QED
        BY <1>7, <2>1, AppendProperties
<1> QED
    BY <1>9, <1>10, <1>11 DEF In

(* Whom the server greets at its next map: a rank that has become active,  *)
(* or any if the server itself has.                                        *)
Greets(q) ==
    LET e == epoch[TableServer] + 1
    IN  /\ ServerActive(e) /\ mdsmap[e][q] = "active"
        /\ ServerActive(epoch[TableServer]) => mdsmap[epoch[TableServer]][q] # "active"
        /\ Reaches(e, q)
Welcomed(q) ==
    LET c == net[TableServer][q]
        d == net'[TableServer][q]
    IN  /\ Greets(q)
        /\ Grows(c, d, 0, Welcome(q, epoch[TableServer] + 1))
        /\ \A i \in 1..(Len(d) - 1) : i > Len(c) => d[i].op = "AGREE"

LEMMA MapFlow ==
    ASSUME TypeOK, NEW r \in Ranks, HandleMdsMap(r)
    PROVE  /\ UNCHANGED mdsmap /\ epoch' = [epoch EXCEPT ![r] = epoch[r] + 1]
           /\ epoch[r] + 1 \in 1..Now /\ Up(r)
           /\ net' \in Channels
           /\ \A x, y \in Ranks :
                \/ net'[x][y] = net[x][y]
                \/ x = TableServer /\ r = TableServer /\ Welcomed(y)
<1> DEFINE e == epoch[r] + 1
           old == View(r)
           new == mdsmap[e]
           greet == IF r # TableServer \/ new[r] # "active" THEN {}
                    ELSE {q \in Ranks : new[q] = "active" /\
                                        (old[r] = "active" => old[q] # "active")}
<1>1. UNCHANGED mdsmap /\ epoch' = [epoch EXCEPT ![r] = e] /\ Up(r)
    BY DEF HandleMdsMap
<1>2. e \in 1..Now /\ e \in Nat
    BY EpochType DEF HandleMdsMap
<1>3. net' \in Channels
    BY HandleMdsMapType DEF TypeOK
<1>4. PICK out :
        /\ \A q \in greet : out[q] \in Greetings(q, e)
        /\ net' = [net EXCEPT ![r] = [q \in Ranks |->
                IF q \in greet /\ Reaches(e, q)
                THEN @[q] \o out[q] ELSE @[q]]]
    BY DEF HandleMdsMap
<1>5. ASSUME NEW x \in Ranks, NEW y \in Ranks, net'[x][y] # net[x][y]
      PROVE  x = TableServer /\ r = TableServer /\ Welcomed(y)
    <2>1. x = r /\ y \in greet /\ Reaches(e, y) /\ net'[x][y] = net[x][y] \o out[y]
        <3> HIDE DEF greet, e
        <3> QED
            BY <1>4, <1>5 DEF TypeOK, Channels
    <2>2. r = TableServer /\ Greets(y)
        BY <2>1 DEF Greets, ServerActive, View
    <2> DEFINE c == net[x][y]
               g == out[y]
    <2>3. c \in Seq(Message)
        BY DEF TypeOK, Channels
    <2>4. /\ g \in Seq(Message) /\ In(g) \subseteq Welcome(y, e)
          /\ \A i \in 1..(Len(g) - 1) : g[i].op = "AGREE"
        <3>1. g \in Greetings(y, e)
            BY <1>4, <2>1
        <3> HIDE DEF g, e
        <3> QED
            BY <1>2, <3>1, GreetingShape
    <2> HIDE DEF c, g
    <2>5. Grows(c, c \o g, 0, Welcome(y, e))
        BY <2>3, <2>4, GrowsConcat, GrowsMono
    <2>6. \A i \in 1..(Len(c \o g) - 1) : i > Len(c) => (c \o g)[i].op = "AGREE"
        <3>1. /\ Len(c) \in Nat /\ Len(g) \in Nat /\ Len(c \o g) = Len(c) + Len(g)
              /\ \A i \in 1..(Len(c) + Len(g)) :
                    (c \o g)[i] = IF i <= Len(c) THEN c[i] ELSE g[i - Len(c)]
            BY <2>3, <2>4, ConcatProperties, LenProperties
        <3> SUFFICES ASSUME NEW i \in 1..(Len(c) + Len(g) - 1), i > Len(c)
                     PROVE  (c \o g)[i].op = "AGREE"
            BY <3>1
        <3>2. i \in 1..(Len(c) + Len(g)) /\ i - Len(c) \in 1..(Len(g) - 1)
            BY <3>1
        <3> QED
            BY <2>4, <3>1, <3>2
    <2> QED
        BY <2>1, <2>2, <2>5, <2>6 DEF Welcomed, c, g
<1> QED
    BY <1>1, <1>2, <1>3, <1>5

LEMMA MapSent ==
    ASSUME TypeOK, Sent, NEW r \in Ranks, HandleMdsMap(r)
    PROVE  Sent'
<1>1. /\ UNCHANGED mdsmap /\ epoch' = [epoch EXCEPT ![r] = epoch[r] + 1]
      /\ epoch[r] + 1 \in 1..Now /\ net' \in Channels
      /\ \A x, y \in Ranks :
            \/ net'[x][y] = net[x][y]
            \/ x = TableServer /\ r = TableServer /\ Welcomed(y)
    BY MapFlow
<1>2. Now' = Now /\ Now \in Nat
    BY <1>1, NowType DEF Now
<1>3. \A q \in Ranks : epoch[q] \in Nat /\ epoch'[q] \in Nat /\ epoch[q] <= epoch'[q]
    BY <1>1, EpochType DEF TypeOK
<1> SUFFICES ASSUME NEW x \in Ranks, NEW y \in Ranks, NEW i \in 1..Len(net'[x][y])
             PROVE  SentAt(x, y, net[x][y][i])'
    BY DEF Sent
<1> DEFINE d == net'[x][y]
           c == net[x][y]
<1>4. CASE i \in 1..Len(c) /\ d[i] = c[i]
    <2>1. SentAt(x, y, c[i])
        BY <1>4 DEF Sent
    <2>2. PICK ep : /\ ep = c[i].ep /\ ep \in 1..Now /\ ServerActive(ep)
                    /\ y = TableServer => UpThrough(TableServer, ep, Now)
                    /\ x = TableServer => ep <= epoch[TableServer]
        BY <2>1 DEF SentAt
    <2>3. x = TableServer => ep <= epoch'[TableServer]
        BY <1>3, <2>2, TableAssumption
    <2> QED
        BY <1>1, <1>2, <1>4, <2>2, <2>3 DEF SentAt, ServerActive, UpThrough
<1>5. CASE d[i] \in Welcome(y, epoch[TableServer] + 1) /\ x = TableServer
           /\ r = TableServer /\ Greets(y)
    <2>1. PICK ep : ep = epoch[TableServer] + 1
        OBVIOUS
    <2>2. d[i].ep = ep /\ ServerActive(ep) /\ Reaches(ep, y) /\ ep = epoch'[TableServer]
        BY <1>1, <1>5, <2>1, TableAssumption DEF Welcome, Greets, TypeOK
    <2>3. ep \in 1..Now
        BY <1>1, <1>5, <2>1
    <2>4. y = TableServer => UpThrough(TableServer, ep, Now)
        BY <2>2 DEF Reaches, UpThrough
    <2>5. ep <= ep
        BY <2>3, <1>2
    <2> QED
        BY <1>1, <1>2, <1>5, <2>2, <2>3, <2>4, <2>5 DEF SentAt, ServerActive, UpThrough
<1>6. \/ i \in 1..Len(c) /\ d[i] = c[i]
      \/ d[i] \in Welcome(y, epoch[TableServer] + 1) /\ x = TableServer
         /\ r = TableServer /\ Greets(y)
    <2>1. CASE d = c
        BY <2>1
    <2>2. CASE d # c
        <3>1. x = TableServer /\ r = TableServer /\ Welcomed(y)
            BY <1>1, <2>2
        <3>2. Greets(y) /\ Grows(c, d, 0, Welcome(y, epoch[TableServer] + 1))
            BY <3>1 DEF Welcomed
        <3>3. Len(c) \in Nat /\ Len(d) \in Nat
            BY <1>1, LenProperties DEF TypeOK, Channels
        <3>4. i \in 1..Len(d)
            OBVIOUS
        <3> HIDE DEF c, d
        <3> QED
            BY <3>1, <3>2, <3>3, <3>4 DEF Grows
    <2> QED
        BY <2>1, <2>2
<1> QED
    BY <1>4, <1>5, <1>6

-----------------------------------------------------------------------------
(* What a step does to the client of q.                                    *)
Asks(q) ==
    LET c == client[q]
    IN  /\ Prepare(q)
        /\ \/ c.last = -1 /\ client'[q] = [c EXCEPT !.waiting = @ + 1]
           \/ /\ c.last # -1
              /\ client'[q] = [c EXCEPT !.last = c.last + 1,
                                        !.preparing = @ \cup {c.last + 1}]
Accepts(q) ==
    LET c == client[q]
        m == Head(net[TableServer][q])
    IN  /\ HandleAgree(q) /\ m.reqid \in c.preparing
        /\ client'[q].ready = c.ready /\ client'[q].last = c.last
        /\ client'[q].preparing = c.preparing \ {m.reqid}
        /\ client'[q].prepared = {p \in c.prepared : p.tid # m.tid} \cup
                                 {[tid |-> m.tid, reqid |-> m.reqid]}
        /\ client'[q].retry = c.retry \cup {[tid |-> m.tid, bl |-> m.bl]}
        /\ client'[q].commits = c.commits
AckTaken(q) ==
    /\ HandleAck(q)
    /\ client'[q] = [client[q] EXCEPT !.commits = @ \ {Head(net[TableServer][q]).tid}]
Readied(q) ==
    LET c == client[q]
        base == IF c.last = -1 THEN Head(net[TableServer][q]).reqid ELSE c.last
    IN  /\ HandleServerReady(q) /\ ~c.ready /\ UNCHANGED log
        /\ client'[q] = [c EXCEPT !.ready = TRUE, !.last = base + c.waiting, !.waiting = 0,
             !.preparing = c.preparing \cup (base + 1)..(base + c.waiting)]
Journals(q) ==
    \E p \in client[q].retry :
        /\ Mksnap(q) /\ p.bl /\ Submit(q, "EUpdate", p.tid, q, 0, 0)
        /\ client'[q] = [client[q] EXCEPT !.retry = @ \ {p}]
Commits(q) ==
    LET tid == Head(log[q]).tid
    IN  /\ Commit(q) /\ tid \in Tids(client[q].prepared)
        /\ log[q] # <<>> /\ Head(log[q]).type = "EUpdate" /\ Journalled(q, Head(log[q]))
        /\ client'[q].ready = client[q].ready /\ client'[q].last = client[q].last
        /\ client'[q].preparing = client[q].preparing
        /\ client'[q].prepared = {p \in client[q].prepared : p.tid # tid}
        /\ client'[q].retry = client[q].retry
        /\ client'[q].commits = client[q].commits \cup {tid}
Loses(q) ==
    /\ HandleMdsMap(q)
    /\ client'[q] = [client[q] EXCEPT !.ready = FALSE]
Restarts(q) ==
    /\ \E why : Dies(q, why)
    /\ client'[q] = NewClient(updates[q])

LEMMA DiesClient ==
    ASSUME TypeOK, NEW r \in Ranks, NEW why, Dies(r, why), NEW q \in Ranks
    PROVE  client'[q] = client[q] \/ Restarts(q)
    BY DEF Dies, Restarts, TypeOK

LEMMA ClientChange ==
    ASSUME TypeOK, [Next]_vars, NEW q \in Ranks
    PROVE  \/ client'[q] = client[q]
           \/ Asks(q) \/ Accepts(q) \/ AckTaken(q) \/ Readied(q) \/ Journals(q)
           \/ Commits(q) \/ Loses(q) \/ Restarts(q)
<1>1. CASE UNCHANGED client
    BY <1>1
<1>2. ASSUME NEW r \in Ranks, NEW why, Dies(r, why)
      PROVE  client'[q] = client[q] \/ Restarts(q)
    BY <1>2, DiesClient
<1>3. ASSUME NEW r \in Ranks, HandleCommit(r) \/ HandleRollback(r)
      PROVE  UNCHANGED client \/ \E why : Dies(TableServer, why)
    BY <1>3 DEF HandleCommit, HandleRollback
<1>4. ASSUME NEW r \in Ranks, Prepare(r)
      PROVE  client'[q] = client[q] \/ Asks(q)
    BY <1>4 DEF Prepare, Asks, TypeOK
<1>5. ASSUME NEW r \in Ranks, HandleAgree(r)
      PROVE  client'[q] = client[q] \/ Accepts(q) \/ \E why : Dies(r, why)
    <2> DEFINE m == Head(net[TableServer][r])
    <2>1. \/ UNCHANGED client
          \/ \E why : Dies(r, why)
          \/ /\ m.reqid \in client[r].preparing
             /\ client' = [client EXCEPT
                    ![r].preparing = @ \ {m.reqid},
                    ![r].prepared = {p \in @ : p.tid # m.tid} \cup
                                    {[tid |-> m.tid, reqid |-> m.reqid]},
                    ![r].retry = @ \cup {[tid |-> m.tid, bl |-> m.bl]}]
        BY <1>5 DEF HandleAgree
    <2>4. client[r] \in Client /\ r \in DOMAIN client
        BY DEF TypeOK
    <2>5. ASSUME client' = [client EXCEPT
                    ![r].preparing = @ \ {m.reqid},
                    ![r].prepared = {p \in @ : p.tid # m.tid} \cup
                                    {[tid |-> m.tid, reqid |-> m.reqid]},
                    ![r].retry = @ \cup {[tid |-> m.tid, bl |-> m.bl]}]
          PROVE  /\ client'[r].ready = client[r].ready /\ client'[r].last = client[r].last
                 /\ client'[r].preparing = client[r].preparing \ {m.reqid}
                 /\ client'[r].prepared = {p \in client[r].prepared : p.tid # m.tid} \cup
                                          {[tid |-> m.tid, reqid |-> m.reqid]}
                 /\ client'[r].retry = client[r].retry \cup {[tid |-> m.tid, bl |-> m.bl]}
                 /\ client'[r].commits = client[r].commits
        <3> HIDE DEF m
        <3> QED
            BY <2>4, <2>5 DEF Client
    <2>2. CASE q = r
        BY <1>5, <2>1, <2>2, <2>5 DEF Accepts
    <2>3. CASE q # r
        BY <2>1, <2>3 DEF TypeOK
    <2> QED
        BY <2>2, <2>3
<1>6. ASSUME NEW r \in Ranks, HandleAck(r)
      PROVE  client'[q] = client[q] \/ AckTaken(q)
    BY <1>6 DEF HandleAck, AckTaken, TypeOK
<1>7. ASSUME NEW r \in Ranks, HandleServerReady(r)
      PROVE  client'[q] = client[q] \/ Readied(q) \/ \E why : Dies(r, why)
    <2> DEFINE c == client[r]
               base == IF c.last = -1 THEN Head(net[TableServer][r]).reqid ELSE c.last
               ids == c.preparing \cup (base + 1)..(base + c.waiting)
    <2>1. \/ \E why : Dies(r, why)
          \/ /\ ~c.ready /\ UNCHANGED log
             /\ client' = [client EXCEPT ![r].ready = TRUE,
                    ![r].last = base + c.waiting, ![r].waiting = 0,
                    ![r].preparing = ids]
        BY <1>7 DEF HandleServerReady
    <2>2. CASE q = r
        BY <1>7, <2>1, <2>2 DEF Readied, TypeOK
    <2>3. CASE q # r
        BY <2>1, <2>3 DEF TypeOK
    <2> QED
        BY <2>2, <2>3
<1>8. ASSUME NEW r \in Ranks, Mksnap(r)
      PROVE  client'[q] = client[q] \/ Journals(q) \/ \E why : Dies(r, why)
    <2>1. PICK p \in client[r].retry :
            \/ /\ p.bl
               /\ client' = [client EXCEPT ![r].retry = @ \ {p}]
               /\ Submit(r, "EUpdate", p.tid, r, 0, 0)
            \/ Dies(r, {"mksnap: decode snapid"})
        BY <1>8 DEF Mksnap
    <2> QED
        BY <1>8, <2>1 DEF Journals, TypeOK
<1>9. ASSUME NEW r \in Ranks, Commit(r)
      PROVE  client'[q] = client[q] \/ Commits(q) \/ \E why : Dies(r, why)
    <2> DEFINE x == Head(log[r])
    <2>1. /\ log[r] # <<>> /\ x.type = "EUpdate"
          /\ \/ \E why : Dies(r, why)
             \/ /\ x.tid \in Tids(client[r].prepared)
                /\ Journalled(r, x)
                /\ client' = [client EXCEPT
                       ![r].prepared = {p \in @ : p.tid # x.tid},
                       ![r].commits = @ \cup {x.tid}]
        BY <1>9 DEF Commit
    <2>4. client[r] \in Client /\ r \in DOMAIN client
        BY DEF TypeOK
    <2>5. ASSUME client' = [client EXCEPT
                       ![r].prepared = {p \in @ : p.tid # x.tid},
                       ![r].commits = @ \cup {x.tid}]
          PROVE  /\ client'[r].ready = client[r].ready /\ client'[r].last = client[r].last
                 /\ client'[r].preparing = client[r].preparing
                 /\ client'[r].prepared = {p \in client[r].prepared : p.tid # x.tid}
                 /\ client'[r].retry = client[r].retry
                 /\ client'[r].commits = client[r].commits \cup {x.tid}
        <3> HIDE DEF x
        <3> QED
            BY <2>4, <2>5 DEF Client
    <2>2. CASE q = r
        BY <1>9, <2>1, <2>2, <2>5 DEF Commits
    <2>3. CASE q # r
        BY <2>1, <2>3 DEF TypeOK
    <2> QED
        BY <2>2, <2>3
<1>10. ASSUME NEW r \in Ranks, HandleMdsMap(r)
       PROVE  client'[q] = client[q] \/ Loses(q)
    <2>1. client' = client \/ client' = [client EXCEPT ![r].ready = FALSE]
        BY <1>10 DEF HandleMdsMap
    <2> QED
        BY <1>10, <2>1 DEF Loses, TypeOK
<1>11. ASSUME NEW r \in Ranks, Fail(r)
       PROVE  \E why : Dies(r, why)
    BY <1>11 DEF Fail
<1>12. CASE (\E x, y \in Ranks : DropStale(x, y)) \/ ServerUpdate \/ Save \/ UNCHANGED vars
    BY <1>1, <1>12 DEF DropStale, ServerUpdate, Save, vars
<1>13. CASE \E r \in Ranks : HandlePrepare(r) \/ TableLogged(r) \/ Takeover(r)
                             \/ MonActive(r) \/ Expire(r)
    BY <1>1, <1>13 DEF HandlePrepare, TableLogged, Takeover, MonActive, Expire
<1> QED
    BY <1>1, <1>2, <1>3, <1>4, <1>5, <1>6, <1>7, <1>8, <1>9, <1>10, <1>11, <1>12, <1>13,
       TableAssumption DEF Next, Progress

(* The steps, by what they do to the maps and the channels.                *)
LEMMA NetSteps ==
    ASSUME TypeOK, Continues, Epochs, [Next]_vars
    PROVE  \/ \E T : Calm(T)
           \/ \E r \in Ranks : \E why : Dies(r, why)
           \/ \E r \in Ranks : TableLogged(r) /\ Head(log[r]).type = "PREPARE"
           \/ \E r \in Ranks : Takeover(r) \/ MonActive(r) \/ HandleMdsMap(r)
<1>1. CASE UNCHANGED <<cluster, net>>
    BY <1>1, StillMoves
<1>2. ASSUME NEW r \in Ranks, Mksnap(r)
      PROVE  UNCHANGED <<cluster, net>> \/ \E why : Dies(r, why)
    BY <1>2 DEF Mksnap
<1>3. ASSUME NEW x \in Ranks, NEW y \in Ranks, DropStale(x, y)
      PROVE  Calm({<<x, y>>})
    <2>1. net[x][y] # <<>> /\ net' = Taken(x, y) /\ UNCHANGED cluster
        BY <1>3 DEF DropStale, Arrives
    <2> QED
        BY <2>1, FlowTaken, MovesSilent DEF Calm
<1>4. ASSUME NEW r \in Ranks, Fail(r)
      PROVE  \E why : Dies(r, why)
    BY <1>4 DEF Fail
<1>5. CASE ServerUpdate \/ Save \/ UNCHANGED vars \/ \E r \in Ranks : Expire(r)
    BY <1>1, <1>5 DEF ServerUpdate, Save, vars, Expire
<1>6. ASSUME NEW r \in Ranks, TableLogged(r), Head(log[r]).type # "PREPARE"
      PROVE  Calm({})
    BY <1>6, TableLoggedMoves
<1> QED
    BY <1>1, <1>2, <1>3, <1>4, <1>5, <1>6, ServerMoves, PrepareMoves, HandleAgreeMoves,
       HandleAckMoves, HandleServerReadyMoves, CommitMoves, TableAssumption
    DEF Next, Progress

LEMMA NextSent == TypeOK /\ Continues /\ Epochs /\ [Next]_vars => Sent'
<1> SUFFICES ASSUME TypeOK, Continues, Epochs, [Next]_vars PROVE Sent'
    OBVIOUS
<1>1. Sent
    BY DEF Epochs
<1>2. ASSUME NEW r \in Ranks, TableLogged(r), Head(log[r]).type = "PREPARE"
      PROVE  Sent'
    <2> DEFINE x == Head(log[r])
               A == {AgreeOf(x)} \cap Sendable(TableServer, x.mds)
    <2>1. /\ r = TableServer /\ ServerActive(epoch[r]) /\ x \in Entry /\ UNCHANGED cluster
          /\ Flow({}, TableServer, x.mds, A)
        BY <1>2, AgreeFlow
    <2>2. x.mds \in Ranks /\ A \in SUBSET Sendable(TableServer, x.mds)
        BY <2>1 DEF Entry
    <2> HIDE DEF A, x
    <2> QED
        BY <1>1, <2>1, <2>2, SentKept
<1> QED
    BY <1>1, <1>2, NetSteps, CalmSent, DiesSent, TakeoverSent, MapSent

-----------------------------------------------------------------------------
(* A client becomes ready by a SERVER_READY, and only so.                  *)
LEMMA BecomesReady ==
    ASSUME TypeOK, [Next]_vars, NEW q \in Ranks, client'[q].ready, ~client[q].ready
    PROVE  Readied(q)
<1>1. client[q] \in Client
    BY DEF TypeOK
<1>2. ~Asks(q) /\ ~AckTaken(q) /\ ~Journals(q)
    BY <1>1 DEF Asks, AckTaken, Journals, Client
<1>3. ~Accepts(q) /\ ~Commits(q)
    BY DEF Accepts, Commits
<1>4. ~Loses(q) /\ ~Restarts(q)
    BY <1>1 DEF Loses, Restarts, NewClient, Client
<1> QED
    BY <1>2, <1>3, <1>4, ClientChange

(* It gets its first reqid so too.                                         *)
LEMMA FirstReqid ==
    ASSUME TypeOK, [Next]_vars, NEW q \in Ranks, client'[q].last # -1, client[q].last = -1
    PROVE  Readied(q)
<1>1. client[q] \in Client
    BY DEF TypeOK
<1>2. ~Asks(q) /\ ~AckTaken(q) /\ ~Journals(q)
    BY <1>1 DEF Asks, AckTaken, Journals, Client
<1>3. ~Accepts(q) /\ ~Commits(q)
    BY DEF Accepts, Commits
<1>4. ~Loses(q) /\ ~Restarts(q)
    BY <1>1 DEF Loses, Restarts, NewClient, Client
<1> QED
    BY <1>2, <1>3, <1>4, ClientChange

(* It is the message at the head of its channel.                           *)
LEMMA ReadiedBy ==
    ASSUME TypeOK, Epochs, NEW q \in Ranks, Readied(q)
    PROVE  /\ Up(q) /\ ServerActive(epoch[q]) /\ Heard(q, Head(net[TableServer][q]).ep)
           /\ net[TableServer][q] # <<>>
           /\ Head(net[TableServer][q]).op = "SERVER_READY"
           /\ Head(net[TableServer][q]) = net[TableServer][q][1]
           /\ 1 \in 1..Len(net[TableServer][q])
<1>1. Receives(TableServer, q, "SERVER_READY")
    BY DEF Readied, HandleServerReady
<1>2. Arrives(TableServer, q) /\ ~Stale(TableServer, q, Head(net[TableServer][q]))
      /\ Head(net[TableServer][q]).op = "SERVER_READY" /\ net[TableServer][q] # <<>>
    BY <1>1 DEF Receives, Arrives
<1> QED
    BY <1>2, ClientHandles, HeadSent, TableAssumption DEF Epochs

LEMMA HeardKept ==
    ASSUME TypeOK, NEW q \in Ranks, NEW i, Heard(q, i),
           \A k \in 1..Now : mdsmap'[k] = mdsmap[k],
           epoch'[q] = epoch[q], epoch'[TableServer] \in Nat,
           epoch[TableServer] <= epoch'[TableServer]
    PROVE  Heard(q, i)'
<1>1. epoch[q] \in 1..Now /\ epoch[TableServer] \in 1..Now /\ Now \in Nat
    BY EpochType, TableAssumption
<1>2. i \in 1..epoch[q] /\ i <= epoch[TableServer] /\ i \in 1..Now
    BY <1>1 DEF Heard
<1>3. ServerActive(i)'
    BY <1>2 DEF Heard, ServerActive
<1>4. UpThrough(TableServer, i, epoch[q])'
    BY <1>1, <1>2 DEF Heard, UpThrough
<1> QED
    BY <1>1, <1>2, <1>3, <1>4 DEF Heard

LEMMA StillReady ==
    ASSUME TypeOK, Epochs, [Next]_vars, UNCHANGED cluster
    PROVE  ReadySince'
<1> SUFFICES ASSUME NEW q \in Ranks, client'[q].ready
             PROVE  Up(q)' /\ \E i : Heard(q, i)'
    BY DEF ReadySince
<1>1. Up(q) /\ \E i : Heard(q, i)
    BY BecomesReady, ReadiedBy DEF Epochs, ReadySince
<1>2. epoch[TableServer] \in Nat /\ epoch' = epoch /\ mdsmap' = mdsmap
    BY EpochType, TableAssumption DEF cluster
<1> QED
    BY <1>1, <1>2, HeardKept DEF Up, Now

(* A map more.                                                             *)
LEMMA PublishedReady ==
    ASSUME TypeOK, Epochs, NEW r \in Ranks, NEW st, OneMore(r, st),
           \A q \in Ranks : q # r => epoch'[q] = epoch[q],
           epoch'[TableServer] \in Nat, epoch[TableServer] <= epoch'[TableServer],
           client'[r].ready => st # "down" /\ epoch'[r] = epoch[r],
           \A q \in Ranks : client'[q].ready => client[q].ready
    PROVE  ReadySince'
<1> SUFFICES ASSUME NEW q \in Ranks, client'[q].ready
             PROVE  Up(q)' /\ \E i : Heard(q, i)'
    BY DEF ReadySince
<1>1. Up(q) /\ \E i : Heard(q, i)
    BY DEF Epochs, ReadySince
<1>2. epoch'[q] = epoch[q]
    OBVIOUS
<1>3. Up(q)'
    BY <1>1, NowType DEF OneMore, Up
<1> QED
    BY <1>1, <1>2, <1>3, HeardKept DEF OneMore

LEMMA MapReady ==
    ASSUME TypeOK, Epochs, NEW r \in Ranks, HandleMdsMap(r)
    PROVE  ReadySince'
<1> SUFFICES ASSUME NEW q \in Ranks, client'[q].ready
             PROVE  Up(q)' /\ \E i : Heard(q, i)'
    BY DEF ReadySince
<1>1. /\ UNCHANGED mdsmap /\ epoch' = [epoch EXCEPT ![r] = epoch[r] + 1]
      /\ epoch[r] + 1 \in 1..Now
    BY MapFlow
<1>2. /\ epoch \in [Ranks -> 1..Now] /\ epoch[r] \in 1..Now /\ Now \in Nat
      /\ epoch[TableServer] \in 1..Now /\ client[q] \in Client /\ client[r] \in Client
      /\ r \in DOMAIN client /\ q \in DOMAIN client
    BY EpochType, TableAssumption DEF TypeOK
<1>3. epoch'[TableServer] \in Nat /\ epoch[TableServer] <= epoch'[TableServer]
    BY <1>1, <1>2, TableAssumption
<1>4. \/ client' = client
      \/ client' = [client EXCEPT ![r].ready = FALSE]
    BY DEF HandleMdsMap
<1>5. client[q].ready
    BY <1>2, <1>4 DEF Client
<1>6. PICK i : Up(q) /\ Heard(q, i)
    BY <1>5 DEF Epochs, ReadySince
<1>7. Up(q)'
    BY <1>1, <1>6 DEF Up, Now
<1>8. CASE q # r
    BY <1>1, <1>2, <1>3, <1>6, <1>7, <1>8, HeardKept
<1>9. CASE q = r
    <2>1. ~(mdsmap[epoch[r]][TableServer] # "down" /\ mdsmap[epoch[r] + 1][TableServer] = "down")
        BY <1>2, <1>9 DEF HandleMdsMap, View, Client
    <2>2. i \in 1..epoch[r] /\ i <= epoch[TableServer] /\ i \in 1..Now /\ ServerActive(i)
          /\ \A k \in i..epoch[r] : mdsmap[k][TableServer] # "down"
        BY <1>2, <1>6, <1>9 DEF Heard, UpThrough
    <2>3. mdsmap[epoch[r]][TableServer] # "down"
        BY <1>2, <2>2
    <2>4. epoch'[q] = epoch[r] + 1
        BY <1>1, <1>2, <1>9
    <2>5. \A k \in i..(epoch[r] + 1) : mdsmap[k][TableServer] # "down"
        BY <1>2, <2>1, <2>2, <2>3
    <2>6. Heard(q, i)'
        BY <1>1, <1>2, <1>3, <2>2, <2>4, <2>5 DEF Heard, UpThrough, ServerActive
    <2> QED
        BY <1>7, <2>6
<1> QED
    BY <1>8, <1>9

LEMMA NextReadySince == TypeOK /\ Epochs /\ [Next]_vars => ReadySince'
<1> SUFFICES ASSUME TypeOK, Epochs, [Next]_vars PROVE ReadySince'
    OBVIOUS
<1>1. ASSUME NEW r \in Ranks, NEW why, Dies(r, why)
      PROVE  ReadySince'
    <2>1. OneMore(r, "down") /\ epoch' = epoch
        BY <1>1, NextMap DEF Dies
    <2>2. ~client'[r].ready /\ \A q \in Ranks : client'[q].ready => client[q].ready
        BY <1>1 DEF Dies, NewClient, TypeOK
    <2>3. epoch[TableServer] \in Nat
        BY EpochType, TableAssumption
    <2> QED
        BY <2>1, <2>2, <2>3, PublishedReady
<1>2. ASSUME NEW r \in Ranks, Takeover(r)
      PROVE  ReadySince'
    <2>1. OneMore(r, "up") /\ epoch' = [epoch EXCEPT ![r] = Now + 1] /\ client' = client
        BY <1>2, NextMap DEF Takeover, Published
    <2>2. ~client[r].ready
        BY <1>2 DEF Takeover, Epochs, ReadySince
    <2>3. epoch \in [Ranks -> 1..Now] /\ Now \in Nat
        BY EpochType, TableAssumption DEF TypeOK
    <2>4. epoch'[TableServer] \in Nat /\ epoch[TableServer] <= epoch'[TableServer]
        BY <2>1, <2>3, TableAssumption
    <2>5. \A q \in Ranks : q # r => epoch'[q] = epoch[q]
        BY <2>1, <2>3
    <2> QED
        BY <2>1, <2>2, <2>4, <2>5, PublishedReady
<1>3. ASSUME NEW r \in Ranks, MonActive(r)
      PROVE  ReadySince'
    <2>1. OneMore(r, "active") /\ epoch' = epoch /\ client' = client
        BY <1>3, NextMap DEF MonActive, Published
    <2>2. epoch[TableServer] \in Nat
        BY EpochType, TableAssumption
    <2> QED
        BY <2>1, <2>2, PublishedReady
<1> QED
    BY <1>1, <1>2, <1>3, StillReady, MapReady, ClusterSteps

-----------------------------------------------------------------------------
(* Every step keeps Unasked.                                               *)
LEMMA NextUnasked == TypeOK /\ Epochs /\ [Next]_vars => Unasked'
<1> SUFFICES ASSUME TypeOK, Epochs, [Next]_vars, NEW q \in Ranks, client'[q].last = -1
             PROVE  client'[q].preparing = {} /\ client'[q].prepared = {}
    BY DEF Unasked
<1>1. client[q] \in Client
    BY DEF TypeOK
<1>2. client[q].last = -1 => client[q].preparing = {} /\ client[q].prepared = {}
    BY DEF Epochs, Unasked
<1>3. CASE Asks(q)
    <2>1. CASE client[q].last = -1 /\ client'[q] = [client[q] EXCEPT !.waiting = @ + 1]
        BY <1>1, <1>2, <2>1 DEF Client
    <2>2. CASE /\ client[q].last # -1
               /\ client'[q] = [client[q] EXCEPT !.last = client[q].last + 1,
                                    !.preparing = @ \cup {client[q].last + 1}]
        <3>1. client'[q].last = client[q].last + 1
            BY <1>1, <2>2 DEF Client
        <3> QED
            BY <1>1, <2>2, <3>1 DEF Client
    <2> QED
        BY <1>3, <2>1, <2>2 DEF Asks
<1>7. CASE AckTaken(q) \/ Journals(q) \/ Loses(q)
    BY <1>1, <1>2, <1>7 DEF AckTaken, Journals, Loses, Client
<1>4. CASE Accepts(q) \/ Commits(q)
    BY <1>2, <1>4 DEF Accepts, Commits, Tids
<1>5. CASE Restarts(q)
    BY <1>5 DEF Restarts, NewClient
<1>6. CASE Readied(q)
    <2>1. Head(net[TableServer][q]) \in Message
        BY <1>6, ReadiedBy, TakenType, TableAssumption DEF TypeOK, Channels, ChannelsOf
    <2> QED
        BY <1>1, <1>6, <2>1 DEF Readied, Client, Message
<1> QED
    BY <1>2, <1>3, <1>4, <1>5, <1>6, <1>7, ClientChange

-----------------------------------------------------------------------------
(* Greeted.  A channel that only loses messages, or gets some that are no  *)
(* greetings, does not greet anew.                                         *)
LEMMA NoNewGreeting ==
    ASSUME TypeOK, net' \in Channels, NEW q \in Ranks, NEW k \in {0, 1}, NEW A,
           Grows(net[TableServer][q], net'[TableServer][q], k, A),
           \A m \in A : m.op # "SERVER_READY", Greeting(q)'
    PROVE  Greeting(q)
<1> DEFINE c == net[TableServer][q]
           d == net'[TableServer][q]
<1>1. PICK i \in 1..Len(d) : d[i].op = "SERVER_READY"
    BY DEF Greeting
<1>2. Len(c) \in Nat /\ Len(d) \in Nat
    <2>1. c \in Seq(Message) /\ d \in Seq(Message)
        BY TableAssumption DEF TypeOK, Channels
    <2> QED
        BY <2>1, LenProperties
<1>3. i + k \in 1..Len(c) /\ d[i] = c[i + k]
    <2> HIDE DEF c, d
    <2>1. \/ i + k <= Len(c) /\ d[i] = c[i + k]
          \/ i + k > Len(c) /\ d[i] \in A
        BY DEF Grows, c, d
    <2> QED
        BY <1>1, <1>2, <2>1
<1> QED
    BY <1>1, <1>3 DEF Greeting

LEMMA CalmGreeting ==
    ASSUME TypeOK, NEW T, Calm(T), NEW q \in Ranks, Greeting(q)'
    PROVE  Greeting(q)
<1>1. PICK r \in Ranks, p \in Ranks : \E A \in SUBSET (Plain \cap Sendable(r, p)) :
            Flow(T, r, p, A)
    BY DEF Calm, Moves
<1>2. PICK A \in SUBSET (Plain \cap Sendable(r, p)) : Flow(T, r, p, A)
    BY <1>1
<1>3. \A m \in Only(TableServer, q, r, p, A) : m.op # "SERVER_READY"
    BY <1>2 DEF Only, Plain
<1> DEFINE k == IF <<TableServer, q>> \in T THEN 1 ELSE 0
<1>4. k \in {0, 1}
    OBVIOUS
<1>5. Grows(net[TableServer][q], net'[TableServer][q], k, Only(TableServer, q, r, p, A))
      /\ net' \in Channels
    BY <1>2, TableAssumption DEF Flow
<1> HIDE DEF k
<1> QED
    BY <1>3, <1>4, <1>5, NoNewGreeting

LEMMA AgreeGreeting ==
    ASSUME TypeOK, Continues, Epochs, NEW r \in Ranks, TableLogged(r),
           Head(log[r]).type = "PREPARE", NEW q \in Ranks, Greeting(q)'
    PROVE  Greeting(q)
<1> DEFINE x == Head(log[r])
           A == {AgreeOf(x)} \cap Sendable(TableServer, x.mds)
           B == Only(TableServer, q, TableServer, x.mds, A)
<1>1. Flow({}, TableServer, x.mds, A)
    BY AgreeFlow
<1>2. \A m \in B : m.op # "SERVER_READY"
    BY DEF Only, AgreeOf
<1>3. Grows(net[TableServer][q], net'[TableServer][q], 0, B) /\ net' \in Channels
    BY <1>1, TableAssumption DEF Flow
<1> HIDE DEF B, A, x
<1> QED
    BY <1>2, <1>3, NoNewGreeting

LEMMA StillGreeted ==
    ASSUME TypeOK, Epochs, [Next]_vars, UNCHANGED cluster,
           \A q \in Ranks : Greeting(q)' => Greeting(q)
    PROVE  Greeted'
<1> SUFFICES ASSUME NEW q \in Ranks, client'[q].last # -1 \/ Greeting(q)'
             PROVE  client[q].last # -1 \/ Greeting(q)
    BY DEF Epochs, Greeted, cluster, Now
<1>1. ASSUME client'[q].last # -1, client[q].last = -1
      PROVE  Greeting(q)
    BY <1>1, FirstReqid, ReadiedBy DEF Greeting
<1> QED
    BY <1>1

(* A map more, in which r is not what it was.                              *)
LEMMA PublishedGreeted ==
    ASSUME TypeOK, Epochs, NEW r \in Ranks, NEW st, OneMore(r, st),
           epoch'[TableServer] \in Nat, epoch[TableServer] <= epoch'[TableServer],
           \A q \in Ranks \ {r} : client'[q].last # -1 \/ Greeting(q)' =>
                client[q].last # -1 \/ Greeting(q),
           client'[r].last = -1 /\ ~Greeting(r)'
    PROVE  Greeted'
<1> SUFFICES ASSUME NEW q \in Ranks, client'[q].last # -1 \/ Greeting(q)',
                    NEW k \in epoch'[TableServer]..Now'
             PROVE  mdsmap'[k][q] = "active"
    BY DEF Greeted
<1>1. q # r /\ \A j \in epoch[TableServer]..Now : mdsmap[j][q] = "active"
    BY DEF Epochs, Greeted
<1>2. epoch[TableServer] \in 1..Now /\ Now \in Nat /\ Now' = Now + 1
    BY EpochType, TableAssumption DEF OneMore
<1>3. CASE k \in epoch[TableServer]..Now
    BY <1>1, <1>2, <1>3 DEF OneMore
<1>4. CASE k = Now + 1
    BY <1>1, <1>2, <1>4 DEF OneMore
<1> QED
    BY <1>2, <1>3, <1>4

LEMMA MapGreeted ==
    ASSUME TypeOK, Epochs, NEW r \in Ranks, HandleMdsMap(r)
    PROVE  Greeted'
<1> SUFFICES ASSUME NEW q \in Ranks, client'[q].last # -1 \/ Greeting(q)',
                    NEW k \in epoch'[TableServer]..Now'
             PROVE  mdsmap[k][q] = "active"
    BY MapFlow DEF Greeted
<1>1. /\ mdsmap' = mdsmap /\ epoch' = [epoch EXCEPT ![r] = epoch[r] + 1]
      /\ epoch[r] + 1 \in 1..Now
    BY MapFlow
<1>2. /\ epoch \in [Ranks -> 1..Now] /\ Now \in Nat /\ Now' = Now
      /\ epoch[TableServer] \in 1..Now /\ client \in [Ranks -> Client]
    BY <1>1, EpochType, TableAssumption DEF TypeOK, Now
<1>3. epoch'[TableServer] \in Nat /\ epoch[TableServer] <= epoch'[TableServer]
    BY <1>1, <1>2, TableAssumption
<1>4. client'[q].last = client[q].last
    BY <1>2 DEF HandleMdsMap, Client
<1>5. CASE client[q].last # -1 \/ Greeting(q)
    BY <1>2, <1>3, <1>5 DEF Epochs, Greeted
<1>6. CASE ~(client[q].last # -1 \/ Greeting(q))
    <2>1. r = TableServer /\ Welcomed(q)
        BY <1>4, <1>6, MapFlow, TableAssumption DEF Greeting
    <2> DEFINE e == epoch[TableServer] + 1
    <2>2. mdsmap[e][q] = "active" /\ \A i \in e..Now : mdsmap[i][q] # "down"
        BY <2>1 DEF Welcomed, Greets, Reaches
    <2>3. epoch'[TableServer] = e /\ e \in 1..Now
        BY <1>1, <1>2, <2>1
    <2>4. k \in 1..Now /\ e <= k /\ UpThrough(q, e, k)
        BY <1>2, <2>2, <2>3 DEF UpThrough
    <2> QED
        BY <2>2, <2>3, <2>4 DEF Epochs, MapsGoOn
<1> QED
    BY <1>5, <1>6

LEMMA NextGreeted == TypeOK /\ Continues /\ Epochs /\ [Next]_vars => Greeted'
<1> SUFFICES ASSUME TypeOK, Continues, Epochs, [Next]_vars PROVE Greeted'
    OBVIOUS
<1>1. ASSUME NEW r \in Ranks, NEW why, Dies(r, why)
      PROVE  Greeted'
    <2>1. OneMore(r, "down") /\ epoch' = epoch
        BY <1>1, NextMap DEF Dies
    <2>2. client'[r].last = -1 /\ \A q \in Ranks \ {r} : client'[q] = client[q]
        BY <1>1 DEF Dies, NewClient, TypeOK
    <2>3. \A q \in Ranks \ {r} : net'[TableServer][q] = net[TableServer][q]
        BY <1>1, TableAssumption DEF Dies, TypeOK, Channels
    <2>4. net'[TableServer][r] = <<>>
        BY <1>1, TableAssumption DEF Dies, TypeOK, Channels
    <2>5. ~Greeting(r)' /\ \A q \in Ranks \ {r} : Greeting(q)' => Greeting(q)
        BY <2>3, <2>4 DEF Greeting
    <2>6. epoch[TableServer] \in Nat
        BY EpochType, TableAssumption
    <2> QED
        BY <2>1, <2>2, <2>5, <2>6, PublishedGreeted
<1>2. ASSUME NEW r \in Ranks, Takeover(r) \/ MonActive(r)
      PROVE  Greeted'
    <2>1. /\ OneMore(r, "up") \/ OneMore(r, "active")
          /\ epoch' = [epoch EXCEPT ![r] = Now + 1] \/ epoch' = epoch
          /\ client' = client /\ net' = net
        BY <1>2, NextMap DEF Takeover, MonActive, Published
    <2>2. mdsmap[Now][r] # "active"
        BY <1>2 DEF Takeover, MonActive, Up
    <2>3. epoch \in [Ranks -> 1..Now] /\ Now \in Nat
        BY EpochType, TableAssumption DEF TypeOK
    <2>4. client[r].last = -1 /\ ~Greeting(r)
        BY <2>2, <2>3, TableAssumption DEF Epochs, Greeted
    <2>5. epoch'[TableServer] \in Nat /\ epoch[TableServer] <= epoch'[TableServer]
        BY <2>1, <2>3, TableAssumption
    <2>6. \A q \in Ranks : Greeting(q)' <=> Greeting(q)
        BY <2>1 DEF Greeting
    <2> QED
        BY <2>1, <2>4, <2>5, <2>6, PublishedGreeted
<1>3. ASSUME NEW T, Calm(T)
      PROVE  Greeted'
    BY <1>3, CalmGreeting, StillGreeted DEF Calm
<1>4. ASSUME NEW r \in Ranks, TableLogged(r), Head(log[r]).type = "PREPARE"
      PROVE  Greeted'
    BY <1>4, AgreeGreeting, AgreeFlow, StillGreeted
<1> QED
    BY <1>1, <1>2, <1>3, <1>4, MapGreeted, NetSteps

-----------------------------------------------------------------------------
(* What a step does to the table, in memory and on disk, and to the        *)
(* journal of the server.                                                  *)
Awake == Up(TableServer) /\ ServerActive(epoch[TableServer])
Rests ==
    /\ UNCHANGED <<table, disk>>
    /\ In(log'[TableServer]) \subseteq
            In(log[TableServer]) \cup {x \in Entry : x.type \in ClientEntry}
Updates(type, tid, mds, reqid) ==
    /\ Awake /\ Update(type, tid, mds, reqid)
    /\ type = "PREPARE" => HandlePrepare(mds) /\ tid = table.version + 1
    /\ UNCHANGED <<cluster, disk, client, updates, done>>

LEMMA InAppend ==
    ASSUME NEW M, NEW s \in Seq(M), NEW x
    PROVE  In(Append(s, x)) = In(s) \cup {x}
<1>1. Len(Append(s, x)) = Len(s) + 1 /\ Len(s) \in Nat
    OBVIOUS
<1>2. \A i \in 1..Len(s) : Append(s, x)[i] = s[i]
    OBVIOUS
<1>3. Append(s, x)[Len(s) + 1] = x
    OBVIOUS
<1> QED
    BY <1>1, <1>2, <1>3 DEF In

LEMMA InTail ==
    ASSUME NEW M, NEW s \in Seq(M), s # <<>>
    PROVE  In(Tail(s)) \subseteq In(s)
<1>1. \A i \in 1..Len(Tail(s)) : Tail(s)[i] = s[i + 1] /\ i + 1 \in 1..Len(s)
    OBVIOUS
<1> QED
    BY <1>1 DEF In

LEMMA SubmitRests ==
    ASSUME TypeOK, NEW r \in Ranks, NEW type \in ClientEntry, NEW tid \in Nat,
           Submit(r, type, tid, r, 0, 0), UNCHANGED <<table, disk>>
    PROVE  Rests
<1> DEFINE x == [type |-> type, tid |-> tid, mds |-> r, reqid |-> 0, version |-> 0]
<1>1. log' = [log EXCEPT ![r] = Append(@, x)] /\ x \in Entry /\ x.type \in ClientEntry
    BY DEF Submit, Entry, ClientEntry
<1>2. log \in [Ranks -> Seq(Entry)]
    BY DEF TypeOK
<1> HIDE DEF x
<1>3. log'[TableServer] = log[TableServer] \/ log'[TableServer] = Append(log[TableServer], x)
    BY <1>1, <1>2, TableAssumption
<1> QED
    BY <1>1, <1>2, <1>3, InAppend, TableAssumption DEF Rests

LEMMA JournalledRests ==
    ASSUME TypeOK, NEW r \in Ranks, log[r] # <<>>, Journalled(r, Head(log[r])),
           Head(log[r]).type \in ClientEntry, UNCHANGED table
    PROVE  Rests
<1>1. log' = [log EXCEPT ![r] = Tail(@)] /\ disk' = disk
    BY DEF Journalled, ClientEntry
<1>2. log \in [Ranks -> Seq(Entry)]
    BY DEF TypeOK
<1>3. log'[TableServer] = log[TableServer] \/
        (log[TableServer] # <<>> /\ log'[TableServer] = Tail(log[TableServer]))
    BY <1>1, <1>2, TableAssumption
<1> QED
    BY <1>1, <1>2, <1>3, InTail, TableAssumption DEF Rests

LEMMA DiesRests ==
    ASSUME TypeOK, NEW r \in Ranks, NEW why, Dies(r, why), r # TableServer
    PROVE  Rests
<1>1. log'[TableServer] = log[TableServer] /\ table' = table /\ disk' = disk
    BY TableAssumption DEF Dies, TypeOK
<1> QED
    BY <1>1 DEF Rests

LEMMA StoreChange ==
    ASSUME TypeOK, Continues, Epochs, [Next]_vars
    PROVE  \/ Rests
           \/ \E type \in {"PREPARE", "COMMIT", "ROLLBACK", "SERVER_UPDATE"}, tid \in Nat,
                 mds \in Ranks, reqid \in Nat : Updates(type, tid, mds, reqid)
           \/ Save
           \/ TableLogged(TableServer) /\ Head(log[TableServer]).type \notin ClientEntry
           \/ \E why : Dies(TableServer, why)
<1> DEFINE Any == \E type \in {"PREPARE", "COMMIT", "ROLLBACK", "SERVER_UPDATE"},
                     tid \in Nat, mds \in Ranks, reqid \in Nat :
                        Updates(type, tid, mds, reqid)
<1>1. CASE UNCHANGED <<table, disk, log>>
    BY <1>1 DEF Rests
<1>2. ASSUME NEW r \in Ranks, NEW why, Dies(r, why)
      PROVE  Rests \/ \E w : Dies(TableServer, w)
    BY <1>2, DiesRests
<1>3. ASSUME NEW r \in Ranks, HandlePrepare(r) \/ HandleCommit(r) \/ HandleRollback(r)
      PROVE  Any \/ UNCHANGED <<table, disk, log>> \/ \E w : Dies(TableServer, w)
    <2>1. Arrives(r, TableServer)
        BY <1>3 DEF HandlePrepare, HandleCommit, HandleRollback, Receives
    <2>7. Head(net[r][TableServer]) \in Message
        BY <2>1, ArrivesType, TableAssumption
    <2>8. table.version + 1 \in Nat
        BY LogType
    <2>2. Head(net[r][TableServer]) \in Message /\ table.version + 1 \in Nat
        BY <2>7, <2>8
    <2>3. Awake
        BY <2>1, ServerHandles DEF Epochs, Awake
    <2>4. ASSUME HandlePrepare(r)
          PROVE  Any
        <3>1. Updates("PREPARE", table.version + 1, r, Head(net[r][TableServer]).reqid)
            BY <2>3, <2>4 DEF HandlePrepare, Updates
        <3> QED
            BY <2>2, <3>1 DEF Message
    <2>5. ASSUME HandleCommit(r)
          PROVE  Any \/ UNCHANGED <<table, disk, log>> \/ \E w : Dies(TableServer, w)
        <3>1. \/ /\ Update("COMMIT", Head(net[r][TableServer]).tid, r, 0)
                 /\ UNCHANGED <<cluster, disk, client, updates, done>>
              \/ UNCHANGED <<table, disk, log>>
              \/ \E w : Dies(TableServer, w)
            BY <2>5 DEF HandleCommit
        <3>2. CASE /\ Update("COMMIT", Head(net[r][TableServer]).tid, r, 0)
                   /\ UNCHANGED <<cluster, disk, client, updates, done>>
            <4>1. Updates("COMMIT", Head(net[r][TableServer]).tid, r, 0)
                BY <2>3, <3>2 DEF Updates
            <4> QED
                BY <2>2, <4>1 DEF Message
        <3> QED
            BY <3>1, <3>2
    <2>6. ASSUME HandleRollback(r)
          PROVE  Any \/ \E w : Dies(TableServer, w)
        <3>1. \/ /\ Update("ROLLBACK", Head(net[r][TableServer]).tid, r, 0)
                 /\ UNCHANGED <<cluster, disk, client, updates, done>>
              \/ \E w : Dies(TableServer, w)
            BY <2>6 DEF HandleRollback
        <3>2. CASE /\ Update("ROLLBACK", Head(net[r][TableServer]).tid, r, 0)
                   /\ UNCHANGED <<cluster, disk, client, updates, done>>
            <4>1. Updates("ROLLBACK", Head(net[r][TableServer]).tid, r, 0)
                BY <2>3, <3>2 DEF Updates
            <4> QED
                BY <2>2, <4>1 DEF Message
        <3> QED
            BY <3>1, <3>2
    <2> QED
        BY <1>3, <2>4, <2>5, <2>6
<1>4. ASSUME ServerUpdate
      PROVE  Any
    <2>1. Updates("SERVER_UPDATE", 0, TableServer, 0)
        BY <1>4 DEF ServerUpdate, Updates, Awake, View, ServerActive
    <2> QED
        BY <2>1, TableAssumption
<1>5. ASSUME NEW r \in Ranks, HandleAgree(r) \/ HandleServerReady(r)
      PROVE  UNCHANGED <<table, disk, log>> \/ \E w : Dies(r, w)
    BY <1>5 DEF HandleAgree, HandleServerReady
<1>6. ASSUME NEW r \in Ranks, HandleAck(r)
      PROVE  Rests
    <2>1. UNCHANGED <<table, disk>> /\ (UNCHANGED log \/
            Submit(r, "ETableClient", Head(net[TableServer][r]).tid, r, 0, 0))
        BY <1>6 DEF HandleAck
    <2>2. Head(net[TableServer][r]) \in Message
        BY <1>6, ArrivesType, TableAssumption DEF HandleAck, Receives
    <2>3. Head(net[TableServer][r]).tid \in Nat
        BY <2>2 DEF Message
    <2> QED
        BY <1>1, <2>1, <2>3, SubmitRests DEF ClientEntry, Rests
<1>7. ASSUME NEW r \in Ranks, Mksnap(r)
      PROVE  Rests \/ \E w : Dies(r, w)
    <2>1. PICK p \in client[r].retry :
            \/ UNCHANGED <<table, disk>> /\ Submit(r, "EUpdate", p.tid, r, 0, 0)
            \/ \E w : Dies(r, w)
        BY <1>7 DEF Mksnap
    <2>2. p.tid \in Nat
        BY DEF TypeOK, Client
    <2> QED
        BY <2>1, <2>2, SubmitRests DEF ClientEntry
<1>8. ASSUME NEW r \in Ranks, TableLogged(r)
      PROVE  \/ Rests
             \/ TableLogged(TableServer) /\ Head(log[TableServer]).type \notin ClientEntry
    <2>1. Up(r) /\ log[r] # <<>> /\ Journalled(r, Head(log[r])) /\ UNCHANGED table
        BY <1>8 DEF TableLogged
    <2> QED
        BY <1>8, <2>1, JournalledRests, LoggedByServer
<1>9. ASSUME NEW r \in Ranks, Commit(r)
      PROVE  Rests \/ \E w : Dies(r, w)
    <2>1. /\ log[r] # <<>> /\ Head(log[r]).type = "EUpdate"
          /\ \/ Journalled(r, Head(log[r])) /\ UNCHANGED table
             \/ \E w : Dies(r, w)
        BY <1>9 DEF Commit
    <2> QED
        BY <2>1, JournalledRests DEF ClientEntry
<1>10. ASSUME NEW r \in Ranks, Fail(r)
       PROVE  \E why : Dies(r, why)
    BY <1>10 DEF Fail
<1>11. CASE (\E x, y \in Ranks : DropStale(x, y)) \/ UNCHANGED vars
    BY <1>1, <1>11 DEF DropStale, vars
<1>12. CASE \E r \in Ranks : Prepare(r) \/ Takeover(r) \/ MonActive(r) \/ HandleMdsMap(r)
                             \/ Expire(r)
    BY <1>1, <1>12 DEF Prepare, Takeover, MonActive, HandleMdsMap, Expire
<1> QED
    BY <1>1, <1>2, <1>3, <1>4, <1>5, <1>6, <1>7, <1>8, <1>9, <1>10, <1>11, <1>12,
       TableAssumption DEF Next, Progress

(* A server that is active stays so until it dies.                         *)
LEMMA AwakeKept ==
    ASSUME TypeOK, Epochs, [Next]_vars, Awake
    PROVE  Awake' \/ \E why : Dies(TableServer, why)
<1> SUFFICES ASSUME ~\E why : Dies(TableServer, why)
             PROVE  Awake'
    OBVIOUS
<1>1. Now \in Nat /\ epoch \in [Ranks -> 1..Now] /\ epoch[TableServer] \in 1..Now
    BY EpochType, TableAssumption DEF TypeOK
<1>2. CASE UNCHANGED cluster
    BY <1>2 DEF cluster, Awake, Up, ServerActive, Now
<1>3. ASSUME NEW r \in Ranks, NEW st, OneMore(r, st), r = TableServer => st # "down",
             epoch'[TableServer] = epoch[TableServer]
      PROVE  Awake'
    <2>1. mdsmap'[epoch[TableServer]] = mdsmap[epoch[TableServer]]
        BY <1>1, <1>3 DEF OneMore
    <2>2. Now' = Now + 1 /\ mdsmap'[Now + 1][TableServer] # "down"
        BY <1>3, TableAssumption DEF OneMore, Awake, Up
    <2> QED
        BY <1>3, <2>1, <2>2 DEF Awake, ServerActive, Up
<1>4. ASSUME NEW r \in Ranks, NEW why, Dies(r, why)
      PROVE  Awake'
    <2>1. r # TableServer /\ OneMore(r, "down") /\ epoch' = epoch
        BY <1>4, NextMap DEF Dies
    <2> QED
        BY <1>3, <2>1
<1>5. ASSUME NEW r \in Ranks, Takeover(r)
      PROVE  Awake'
    <2>1. ~Up(r) /\ OneMore(r, "up") /\ epoch' = [epoch EXCEPT ![r] = Now + 1]
        BY <1>5, NextMap DEF Takeover, Published
    <2> QED
        BY <1>1, <1>3, <2>1, TableAssumption DEF Awake
<1>6. ASSUME NEW r \in Ranks, MonActive(r)
      PROVE  Awake'
    <2>1. OneMore(r, "active") /\ epoch' = epoch
        BY <1>6, NextMap DEF MonActive, Published
    <2> QED
        BY <1>3, <2>1
<1>7. ASSUME NEW r \in Ranks, HandleMdsMap(r)
      PROVE  Awake'
    <2>1. /\ mdsmap' = mdsmap /\ epoch' = [epoch EXCEPT ![r] = epoch[r] + 1]
          /\ epoch[r] + 1 \in 1..Now
        BY <1>7, MapFlow
    <2>2. UpThrough(TableServer, epoch[TableServer], Now)
        BY TableAssumption DEF Awake, Epochs, MapsGoOn
    <2>3. epoch'[TableServer] \in 1..Now /\ epoch[TableServer] <= epoch'[TableServer]
        BY <1>1, <2>1, TableAssumption
    <2>4. UpThrough(TableServer, epoch[TableServer], epoch'[TableServer])
        BY <1>1, <2>2, <2>3 DEF UpThrough
    <2>5. ServerActive(epoch'[TableServer])
        BY <1>1, <2>3, <2>4, ActiveOn DEF Epochs, Awake
    <2> QED
        BY <2>1, <2>5 DEF Awake, ServerActive, Up, Now
<1> QED
    BY <1>2, <1>4, <1>5, <1>6, <1>7, ClusterSteps

LEMMA NextIdle == TypeOK /\ Continues /\ Epochs /\ [Next]_vars => Idle'
<1> SUFFICES ASSUME TypeOK, Continues, Epochs, [Next]_vars PROVE Idle'
    OBVIOUS
<1>1. Idle <=> (~Awake => /\ table = disk
                          /\ \A x \in In(log[TableServer]) : x.type \in ClientEntry)
    BY DEF Idle, Awake, In
<1>2. Idle' <=> (~Awake' => /\ table' = disk'
                            /\ \A x \in In(log'[TableServer]) : x.type \in ClientEntry)
    BY DEF Idle, Awake, In
<1>3. ASSUME NEW why, Dies(TableServer, why)
      PROVE  Idle'
    <2>1. table' = disk' /\ log'[TableServer] = <<>>
        BY <1>3, TableAssumption DEF Dies, TypeOK
    <2> QED
        BY <1>2, <2>1 DEF In
<1>4. CASE Awake'
    BY <1>2, <1>4
<1>5. CASE ~Awake
    <2>1. table = disk /\ \A x \in In(log[TableServer]) : x.type \in ClientEntry
        BY <1>1, <1>5 DEF Epochs
    <2>2. CASE Rests
        BY <1>2, <2>1, <2>2 DEF Rests
    <2>3. ~Save /\ \A type, tid, mds, reqid : ~Updates(type, tid, mds, reqid)
        BY <1>5 DEF Save, Updates, Awake, View, ServerActive
    <2>4. ~(TableLogged(TableServer) /\ Head(log[TableServer]).type \notin ClientEntry)
        <3>1. log[TableServer] # <<>> => Head(log[TableServer]) \in In(log[TableServer])
            BY TableAssumption, LogType DEF In
        <3> QED
            BY <2>1, <3>1 DEF TableLogged
    <2> QED
        BY <1>3, <2>2, <2>3, <2>4, StoreChange
<1> QED
    BY <1>3, <1>4, <1>5, AwakeKept

(* Every step keeps Epochs.                                                *)
LEMMA NextEpochs == TypeOK /\ Continues /\ Epochs /\ [Next]_vars => Epochs'
    BY NextMapsGoOn, NextSent, NextReadySince, NextIdle, NextGreeted, NextUnasked DEF Epochs

LEMMA InitEpochs == Init => Epochs
<1> SUFFICES ASSUME Init PROVE Epochs
    OBVIOUS
<1>1. Now = 1 /\ \A q \in Ranks : mdsmap[1][q] = "active"
    BY DEF Init, Now
<1>2. \A q \in Ranks : /\ epoch[q] = 1 /\ log[q] = <<>> /\ client[q].last = 0
                       /\ client[q].preparing = {} /\ client[q].prepared = {}
    BY DEF Init, NewClient
<1>3. \A x, y \in Ranks : net[x][y] = <<>>
    BY DEF Init
<1>4. MapsGoOn
    BY <1>1, <1>2 DEF MapsGoOn, UpThrough, Up
<1>5. Sent
    BY <1>3 DEF Sent
<1>6. ReadySince
    <2>1. \A q \in Ranks : Heard(q, 1) /\ Up(q)
        BY <1>1, <1>2, TableAssumption DEF Heard, UpThrough, ServerActive, Up
    <2> QED
        BY <2>1 DEF ReadySince
<1>7. Idle
    BY <1>2, TableAssumption DEF Idle, Init
<1>8. Greeted
    BY <1>1, <1>2, TableAssumption DEF Greeted
<1>9. Unasked
    BY <1>2 DEF Unasked
<1> QED
    BY <1>4, <1>5, <1>6, <1>7, <1>8, <1>9 DEF Epochs

-----------------------------------------------------------------------------
(* The tids that are known: what the table has pending, in memory, on disk *)
(* or on the way to it, what clients have prepared, and the AGREEs under   *)
(* way, but for those that reach a client before its first SERVER_READY:   *)
(* such a client has asked for nothing and prepares nothing on them.       *)
Harmless(q, i) ==
    /\ client[q].last = -1
    /\ \A j \in 1..(i - 1) : net[TableServer][q][j].op # "SERVER_READY"
Agreed(q) ==
    {Offer(q, net[TableServer][q][i]) :
        i \in {j \in 1..Len(net[TableServer][q]) :
                net[TableServer][q][j].op = "AGREE" /\ ~Harmless(q, j)}}
PreparedBy(q) == {Offer(q, p) : p \in client[q].prepared}
Request(x) == [tid |-> x.tid, mds |-> x.mds, reqid |-> x.reqid]
Logged == {Request(x) : x \in {y \in In(log[TableServer]) : y.type = "PREPARE"}}
Claims == disk.pending \cup UNION {Agreed(q) \cup PreparedBy(q) : q \in Ranks}
Known == Claims \cup table.pending \cup Logged

(* The head of a channel is taken at most, so an AGREE that counts has     *)
(* counted before, or is new.                                              *)
LEMMA AgreedKept ==
    ASSUME TypeOK, net' \in Channels, NEW q \in Ranks, NEW k \in {0, 1}, NEW A,
           Grows(net[TableServer][q], net'[TableServer][q], k, A),
           client'[q].last # -1 => client[q].last # -1 \/
                                   net[TableServer][q][1].op = "SERVER_READY",
           NEW i \in 1..Len(net'[TableServer][q]),
           net'[TableServer][q][i].op = "AGREE", ~Harmless(q, i)'
    PROVE  \/ Offer(q, net'[TableServer][q][i]) \in Agreed(q)
           \/ /\ i + k > Len(net[TableServer][q])
              /\ net'[TableServer][q][i] \in A
<1> DEFINE c == net[TableServer][q]
           d == net'[TableServer][q]
<1>1. c \in Seq(Message) /\ d \in Seq(Message)
    BY TableAssumption DEF TypeOK, Channels
<1>2. Len(c) \in Nat /\ Len(d) \in Nat
    BY <1>1, LenProperties
<1>3. client'[q].last # -1 \/ \E j \in 1..(i - 1) : d[j].op = "SERVER_READY"
    BY DEF Harmless
<1>4. \A n \in 1..Len(d) : \/ n + k <= Len(c) /\ d[n] = c[n + k]
                           \/ n + k > Len(c) /\ d[n] \in A
    BY DEF Grows
<1>5. d[i].op = "AGREE" /\ i \in 1..Len(d)
    OBVIOUS
<1>6. client'[q].last # -1 => client[q].last # -1 \/ c[1].op = "SERVER_READY"
    OBVIOUS
<1>7. \A n \in 1..Len(c) : c[n].op = "AGREE" /\ ~Harmless(q, n) => Offer(q, c[n]) \in Agreed(q)
    BY DEF Agreed
<1>8. \A n : ~Harmless(q, n) <=> \/ client[q].last # -1
                                 \/ \E j \in 1..(n - 1) : c[j].op = "SERVER_READY"
    BY DEF Harmless
<1> SUFFICES ASSUME i + k <= Len(c), d[i] = c[i + k]
             PROVE  Offer(q, d[i]) \in Agreed(q)
    BY <1>4
<1> HIDE DEF c, d
<1>9. i + k \in 1..Len(c) /\ c[i + k].op = "AGREE"
    BY <1>2, <1>5
<1>10. ASSUME client'[q].last # -1
       PROVE  ~Harmless(q, i + k)
    <2>1. CASE client[q].last # -1
        BY <1>8, <2>1
    <2>2. CASE c[1].op = "SERVER_READY"
        <3>1. i + k # 1
            BY <1>9, <2>2
        <3>2. 1 \in 1..(i + k - 1)
            BY <1>2, <1>9, <3>1
        <3> QED
            BY <1>8, <2>2, <3>2
    <2> QED
        BY <1>6, <1>10, <2>1, <2>2
<1>11. ASSUME NEW j \in 1..(i - 1), d[j].op = "SERVER_READY"
       PROVE  ~Harmless(q, i + k)
    <2>1. j \in 1..Len(d) /\ j + k <= Len(c) /\ j + k \in 1..(i + k - 1)
        BY <1>2, <1>5, <1>9
    <2>2. d[j] = c[j + k]
        BY <1>2, <1>4, <2>1
    <2> QED
        BY <1>8, <1>11, <2>1, <2>2
<1> QED
    BY <1>3, <1>7, <1>9, <1>10, <1>11

LEMMA FirstReqidHead ==
    ASSUME TypeOK, Epochs, [Next]_vars, NEW q \in Ranks
    PROVE  client'[q].last # -1 => client[q].last # -1 \/
                                   net[TableServer][q][1].op = "SERVER_READY"
    BY FirstReqid, ReadiedBy

(* A greeting brings a client AGREEs that count only if the server has     *)
(* just become active, with the table that is on disk.                     *)
LEMMA WelcomeKnown ==
    ASSUME TypeOK, Epochs, NEW q \in Ranks, HandleMdsMap(TableServer), Welcomed(q),
           NEW i \in 1..Len(net'[TableServer][q]),
           i > Len(net[TableServer][q]),
           net'[TableServer][q][i].op = "AGREE", ~Harmless(q, i)',
           net'[TableServer][q][i] \in Welcome(q, epoch[TableServer] + 1)
    PROVE  Offer(q, net'[TableServer][q][i]) \in disk.pending /\ ~Awake
<1> DEFINE c == net[TableServer][q]
           d == net'[TableServer][q]
<1>1. Offer(q, d[i]) \in table.pending
    BY DEF Welcome
<1>2. CASE ~ServerActive(epoch[TableServer])
    BY <1>1, <1>2 DEF Epochs, Idle, Awake
<1>3. CASE ServerActive(epoch[TableServer])
    <2>1. mdsmap[epoch[TableServer]][q] # "active"
        BY <1>3 DEF Welcomed, Greets
    <2>2. epoch[TableServer] \in epoch[TableServer]..Now
        BY EpochType, TableAssumption
    <2>3. client[q].last = -1 /\ ~Greeting(q)
        BY <2>1, <2>2 DEF Epochs, Greeted
    <2>4. client'[q].last = -1
        BY <2>3, TableAssumption DEF HandleMdsMap, TypeOK, Client
    <2>5. PICK j \in 1..(i - 1) : d[j].op = "SERVER_READY"
        BY <2>4 DEF Harmless
    <2>6. Len(c) \in Nat /\ Len(d) \in Nat
        <3>1. net \in Channels /\ net' \in Channels
            BY MapFlow, TableAssumption DEF TypeOK
        <3>2. c \in Seq(Message) /\ d \in Seq(Message)
            BY <3>1, TableAssumption DEF Channels
        <3> QED
            BY <3>2, LenProperties
    <2>7. j \in 1..Len(d) /\ j \in 1..(Len(d) - 1)
        BY <2>6
    <2>8. CASE j > Len(c)
        BY <2>5, <2>7, <2>8 DEF Welcomed
    <2>9. CASE j \in 1..Len(c)
        <3>1. d[j] = c[j]
            <4>1. \A n \in 1..Len(d) :
                    \/ n + 0 <= Len(c) /\ d[n] = c[n + 0]
                    \/ n + 0 > Len(c) /\ d[n] \in Welcome(q, epoch[TableServer] + 1)
                BY DEF Welcomed, Grows
            <4> HIDE DEF c, d
            <4> QED
                BY <2>6, <2>7, <2>9, <4>1
        <3> QED
            BY <2>3, <2>5, <2>9, <3>1 DEF Greeting
    <2> QED
        BY <2>6, <2>7, <2>8, <2>9
<1> QED
    BY <1>2, <1>3

(* The AGREEs that count: those that did, those that a server which        *)
(* becomes active has on disk, and the one that _prepare_logged sends.     *)
OnDisk == {p \in disk.pending : ~Awake}
NewlyLogged == {Request(x) : x \in {y \in {Head(log[TableServer])} :
                    TableLogged(TableServer) /\ y.type = "PREPARE"}}

LEMMA AgreedChange ==
    ASSUME TypeOK, Continues, Epochs, [Next]_vars, NEW q \in Ranks
    PROVE  Agreed(q)' \subseteq Agreed(q) \cup OnDisk \cup NewlyLogged
<1> DEFINE c == net[TableServer][q]
           d == net'[TableServer][q]
<1> SUFFICES ASSUME NEW i \in 1..Len(d), d[i].op = "AGREE", ~Harmless(q, i)'
             PROVE  Offer(q, d[i]) \in Agreed(q) \cup OnDisk \cup NewlyLogged
    BY DEF Agreed, Offer
<1>1. client'[q].last # -1 => client[q].last # -1 \/ c[1].op = "SERVER_READY"
    BY FirstReqidHead
<1>2. ASSUME NEW k \in {0, 1}, NEW A, net' \in Channels, Grows(c, d, k, A)
      PROVE  Offer(q, d[i]) \in Agreed(q) \/ (i + k > Len(c) /\ d[i] \in A)
    BY <1>1, <1>2, AgreedKept
<1>3. ASSUME NEW T, Calm(T)
      PROVE  Offer(q, d[i]) \in Agreed(q)
    <2>1. PICK r \in Ranks, p \in Ranks : \E A \in SUBSET (Plain \cap Sendable(r, p)) :
                Flow(T, r, p, A)
        BY <1>3 DEF Calm, Moves
    <2>2. PICK A \in SUBSET (Plain \cap Sendable(r, p)) : Flow(T, r, p, A)
        BY <2>1
    <2> DEFINE k == IF <<TableServer, q>> \in T THEN 1 ELSE 0
               B == Only(TableServer, q, r, p, A)
    <2>3. k \in {0, 1} /\ net' \in Channels /\ Grows(c, d, k, B)
        BY <2>2, TableAssumption DEF Flow
    <2>4. d[i] \notin B
        BY <2>2 DEF Only, Plain
    <2> HIDE DEF k, B, c, d
    <2> QED
        BY <1>2, <2>3, <2>4
<1>4. ASSUME NEW r \in Ranks, TableLogged(r), Head(log[r]).type = "PREPARE"
      PROVE  Offer(q, d[i]) \in Agreed(q) \cup NewlyLogged
    <2> DEFINE x == Head(log[r])
               A == {AgreeOf(x)} \cap Sendable(TableServer, x.mds)
               B == Only(TableServer, q, TableServer, x.mds, A)
    <2>1. Flow({}, TableServer, x.mds, A) /\ r = TableServer
        BY <1>4, AgreeFlow
    <2>2. Grows(c, d, 0, B) /\ net' \in Channels
        BY <2>1, TableAssumption DEF Flow
    <2>3. ASSUME d[i] \in B
          PROVE  Offer(q, d[i]) \in NewlyLogged
        <3>1. q = x.mds /\ d[i] = AgreeOf(x)
            BY <2>3 DEF Only
        <3>2. Offer(q, d[i]) = Request(x)
            BY <3>1 DEF Offer, AgreeOf, Request
        <3> QED
            BY <1>4, <2>1, <3>2 DEF NewlyLogged
    <2> HIDE DEF B, A, c, d
    <2> QED
        BY <1>2, <2>2, <2>3
<1>5. ASSUME NEW r \in Ranks, NEW why, Dies(r, why)
      PROVE  Offer(q, d[i]) \in Agreed(q)
    <2>1. CASE q = r
        <3>1. d = <<>>
            BY <1>5, <2>1, TableAssumption DEF Dies, TypeOK, Channels
        <3> QED
            BY <3>1
    <2>2. CASE q # r
        <3>1. d = c /\ client'[q] = client[q]
            BY <1>5, <2>2, TableAssumption DEF Dies, TypeOK, Channels
        <3> QED
            BY <3>1 DEF Agreed, Harmless
    <2> QED
        BY <2>1, <2>2
<1>6. ASSUME NEW r \in Ranks, Takeover(r) \/ MonActive(r)
      PROVE  Offer(q, d[i]) \in Agreed(q)
    <2>1. d = c /\ client' = client
        BY <1>6 DEF Takeover, MonActive
    <2> QED
        BY <2>1 DEF Agreed, Harmless
<1>7. ASSUME NEW r \in Ranks, HandleMdsMap(r)
      PROVE  Offer(q, d[i]) \in Agreed(q) \cup OnDisk
    <2>1. client'[q].last = client[q].last
        BY <1>7 DEF HandleMdsMap, TypeOK, Client
    <2>2. CASE d = c
        BY <2>1, <2>2 DEF Agreed, Harmless
    <2>3. CASE r = TableServer /\ Welcomed(q)
        <3> DEFINE W == Welcome(q, epoch[TableServer] + 1)
        <3>1. Grows(c, d, 0, W) /\ net' \in Channels
            BY <1>7, <2>3, MapFlow DEF Welcomed
        <3>2. Offer(q, d[i]) \in Agreed(q) \/ (i > Len(c) /\ d[i] \in W)
            <4> HIDE DEF W, c, d
            <4>1. Offer(q, d[i]) \in Agreed(q) \/ (i + 0 > Len(c) /\ d[i] \in W)
                BY <1>2, <3>1
            <4> QED
                BY <4>1
        <3> QED
            BY <1>7, <2>3, <3>2, WelcomeKnown DEF OnDisk
    <2> QED
        BY <1>7, <2>2, <2>3, MapFlow, TableAssumption
<1> QED
    BY <1>3, <1>4, <1>5, <1>6, <1>7, NetSteps

(* What clients have prepared: what an AGREE that counts has brought.      *)
LEMMA PreparedChange ==
    ASSUME TypeOK, Continues, Epochs, [Next]_vars, NEW q \in Ranks
    PROVE  PreparedBy(q)' \subseteq PreparedBy(q) \cup Agreed(q)
<1> SUFFICES ASSUME NEW p \in client'[q].prepared
             PROVE  Offer(q, p) \in PreparedBy(q) \cup Agreed(q)
    BY DEF PreparedBy, Offer
<1>1. client[q] \in Client
    BY DEF TypeOK
<1>2. CASE p \in client[q].prepared
    BY <1>2 DEF PreparedBy
<1>3. CASE Asks(q)
    BY <1>1, <1>2, <1>3 DEF Asks, Client
<1>4. CASE AckTaken(q) \/ Journals(q) \/ Loses(q)
    BY <1>1, <1>2, <1>4 DEF AckTaken, Journals, Loses, Client
<1>5. CASE Restarts(q)
    BY <1>5 DEF Restarts, NewClient
<1>6. CASE Readied(q)
    BY <1>1, <1>2, <1>6 DEF Readied, Client
<1>7. CASE Commits(q)
    BY <1>2, <1>7 DEF Commits
<1>8. CASE Accepts(q)
    <2> DEFINE m == Head(net[TableServer][q])
    <2>1. Receives(TableServer, q, "AGREE") /\ m.reqid \in client[q].preparing
        BY <1>8 DEF Accepts, HandleAgree
    <2>2. /\ m = net[TableServer][q][1] /\ 1 \in 1..Len(net[TableServer][q])
          /\ m.op = "AGREE"
        BY <2>1, HeadSent, TableAssumption DEF Receives, Arrives, Epochs
    <2>3. client[q].last # -1
        BY <2>1 DEF Epochs, Unasked
    <2>4. Offer(q, m) \in Agreed(q)
        BY <2>2, <2>3 DEF Agreed, Harmless
    <2>5. p \in client[q].prepared \/ p = [tid |-> m.tid, reqid |-> m.reqid]
        BY <1>8 DEF Accepts
    <2> QED
        BY <1>2, <2>4, <2>5 DEF Offer
<1> QED
    BY <1>2, <1>3, <1>4, <1>5, <1>6, <1>7, <1>8, ClientChange

-----------------------------------------------------------------------------
(* What the changes of the table do to the tids.                           *)

(* The tid of a preparation is the version it leads to.                    *)
Numbered ==
    \A x \in In(log[TableServer]) : x.type = "PREPARE" => x.tid = x.version

LEMMA RestsStore ==
    ASSUME Rests
    PROVE  /\ table' = table /\ disk' = disk /\ Logged' \subseteq Logged
           /\ Numbered => Numbered'
<1>1. \A x \in In(log'[TableServer]) : x \in In(log[TableServer]) \/ x.type # "PREPARE"
    BY DEF Rests, ClientEntry
<1>2. Logged' \subseteq Logged
    BY <1>1 DEF Logged
<1>3. Numbered => Numbered'
    BY <1>1 DEF Numbered
<1> QED
    BY <1>2, <1>3 DEF Rests

LEMMA SubmitIn ==
    ASSUME TypeOK, NEW type, NEW tid, NEW mds, NEW reqid, Update(type, tid, mds, reqid)
    PROVE  /\ table' = Applied(table, type, tid, mds, reqid)
           /\ In(log'[TableServer]) = In(log[TableServer]) \cup
                {[type |-> type, tid |-> tid, mds |-> mds, reqid |-> reqid,
                  version |-> table.version + 1]}
<1> DEFINE x == [type |-> type, tid |-> tid, mds |-> mds, reqid |-> reqid,
                 version |-> table.version + 1]
<1>1. log' = [log EXCEPT ![TableServer] = Append(@, x)]
    BY DEF Update, Submit
<1>2. log \in [Ranks -> Seq(Entry)] /\ log[TableServer] \in Seq(Entry)
    BY LogType
<1> HIDE DEF x
<1>3. log'[TableServer] = Append(log[TableServer], x)
    BY <1>1, <1>2, TableAssumption
<1>4. In(log'[TableServer]) = In(log[TableServer]) \cup {x}
    BY <1>2, <1>3, InAppend
<1> QED
    BY <1>4 DEF Update, x

LEMMA UpdatesStore ==
    ASSUME TypeOK, NEW type \in {"PREPARE", "COMMIT", "ROLLBACK", "SERVER_UPDATE"},
           NEW tid \in Nat, NEW mds \in Ranks, NEW reqid \in Nat,
           Updates(type, tid, mds, reqid)
    PROVE  /\ disk' = disk /\ table'.version = table.version + 1
           /\ type # "PREPARE" => /\ table'.pending \subseteq table.pending
                                  /\ Logged' \subseteq Logged
           /\ type = "PREPARE" =>
                LET n == [tid |-> table.version + 1, mds |-> mds, reqid |-> reqid]
                IN  /\ table'.pending \subseteq table.pending \cup {n}
                    /\ Logged' \subseteq Logged \cup {n}
           /\ Numbered => Numbered'
<1> DEFINE x == [type |-> type, tid |-> tid, mds |-> mds, reqid |-> reqid,
                 version |-> table.version + 1]
           n == [tid |-> table.version + 1, mds |-> mds, reqid |-> reqid]
<1>1. /\ table' = Applied(table, type, tid, mds, reqid)
      /\ In(log'[TableServer]) = In(log[TableServer]) \cup {x}
    BY SubmitIn DEF Updates
<1>2. disk' = disk /\ table'.version = table.version + 1
    BY <1>1 DEF Updates, Applied
<1>3. type = "PREPARE" => tid = table.version + 1 /\ Request(x) = n
    BY DEF Updates, Request
<1>4. x.type = type /\ x.tid = tid /\ x.version = table.version + 1
    OBVIOUS
<1>5. type # "PREPARE" => table'.pending \subseteq table.pending
    BY <1>1 DEF Applied
<1>6. type = "PREPARE" => table'.pending \subseteq table.pending \cup {n}
    BY <1>1, <1>3 DEF Applied
<1> HIDE DEF x, n
<1>7. type # "PREPARE" => Logged' \subseteq Logged
    BY <1>1, <1>4 DEF Logged
<1>8. type = "PREPARE" => Logged' \subseteq Logged \cup {n}
    BY <1>1, <1>3 DEF Logged
<1>9. Numbered => Numbered'
    BY <1>1, <1>3, <1>4 DEF Numbered
<1> QED
    BY <1>2, <1>5, <1>6, <1>7, <1>8, <1>9 DEF n

LEMMA SaveStore ==
    ASSUME Save
    PROVE  /\ table' = table /\ disk' = table /\ Logged' = Logged
           /\ Numbered => Numbered'
    BY DEF Save, Logged, Numbered

(* An entry of the server becomes safe.                                    *)
LEMMA LoggedStore ==
    ASSUME TypeOK, Continues, TableLogged(TableServer),
           Head(log[TableServer]).type \notin ClientEntry
    PROVE  LET x == Head(log[TableServer])
           IN  /\ table' = table /\ Logged' \subseteq Logged
               /\ x \in In(log[TableServer]) /\ x \in Entry
               /\ disk.version <= disk'.version /\ x.version <= disk'.version
               /\ disk'.version \in Nat
               /\ x.type # "PREPARE" => disk'.pending \subseteq disk.pending
               /\ disk'.pending \subseteq disk.pending \cup {Request(x)}
               /\ Numbered => Numbered'
<1> DEFINE L == log[TableServer]
           x == Head(L)
<1>1. L # <<>> /\ Journalled(TableServer, x) /\ table' = table
    BY DEF TableLogged
<1>2. L \in Seq(Entry) /\ disk.version \in Nat /\ table.version \in Nat
      /\ log \in [Ranks -> Seq(Entry)]
    BY LogType
<1>3. log' = [log EXCEPT ![TableServer] = Tail(@)] /\ disk' = Replayed(disk, x)
    BY <1>1 DEF Journalled, ClientEntry
<1>4. log'[TableServer] = Tail(L)
    BY <1>2, <1>3, TableAssumption
<1>5. In(Tail(L)) \subseteq In(L)
    BY <1>1, <1>2, InTail
<1>6. x \in Entry /\ x \in In(L)
    BY <1>1, <1>2 DEF In
<1>7. Ordered(L, disk.version, table.version)
    BY DEF Continues
<1>8. x.version > disk.version => x.version = disk.version + 1
    BY <1>1, <1>2, <1>7, OrderedTail
<1>9. x.version \in Nat
    BY <1>6 DEF Entry
<1>10. Logged' \subseteq Logged /\ (Numbered => Numbered')
    BY <1>4, <1>5 DEF Logged, Numbered
<1> HIDE DEF x, L
<1>11. CASE x.version <= disk.version
    BY <1>1, <1>2, <1>3, <1>6, <1>9, <1>10, <1>11 DEF Replayed, x, L
<1>12. CASE x.version > disk.version
    <2>1. disk' = Applied(disk, x.type, x.tid, x.mds, x.reqid)
        BY <1>2, <1>3, <1>9, <1>12 DEF Replayed
    <2>2. disk'.version = disk.version + 1
        BY <2>1 DEF Applied
    <2>3. x.type # "PREPARE" => disk'.pending \subseteq disk.pending
        BY <2>1 DEF Applied
    <2>4. disk'.pending \subseteq disk.pending \cup {Request(x)}
        BY <2>1 DEF Applied, Request
    <2> QED
        BY <1>1, <1>2, <1>6, <1>8, <1>10, <1>12, <2>2, <2>3, <2>4 DEF x, L
<1> QED
    BY <1>2, <1>9, <1>11, <1>12

LEMMA DiesStore ==
    ASSUME TypeOK, NEW why, Dies(TableServer, why)
    PROVE  table' = disk /\ disk' = disk /\ Logged' = {} /\ Numbered'
<1>1. table' = disk /\ disk' = disk /\ log'[TableServer] = <<>>
    BY TableAssumption DEF Dies, TypeOK
<1>2. In(log'[TableServer]) = {}
    BY <1>1 DEF In
<1> QED
    BY <1>1, <1>2 DEF Logged, Numbered

-----------------------------------------------------------------------------
(* The tids that a client has signed: it has told its journal, or is going *)
(* to tell the server, that they are to be committed.                      *)
Signed(q) == client[q].commits \cup updates[q]
Signs(q) == {Head(log[q]).tid : y \in {z \in {0} : Commits(q)}}

LEMMA JournalledUpdates ==
    ASSUME TypeOK, NEW r \in Ranks, NEW x, Journalled(r, x), NEW q \in Ranks
    PROVE  /\ q # r \/ x.type # "EUpdate" => updates'[q] \subseteq updates[q]
           /\ updates'[q] \subseteq updates[q] \cup {x.tid}
           /\ done' \subseteq done \cup {x.tid}
           /\ x.type # "EUpdate" => done' = done
<1>1. updates \in [Ranks -> SUBSET Nat]
    BY DEF TypeOK
<1>2. CASE x.type = "EUpdate"
    BY <1>1, <1>2 DEF Journalled
<1>3. CASE x.type = "ETableClient"
    BY <1>1, <1>3 DEF Journalled
<1>4. CASE x.type \notin {"EUpdate", "ETableClient"}
    BY <1>1, <1>4 DEF Journalled
<1> QED
    BY <1>2, <1>3, <1>4

LEMMA CommitsJournalled ==
    ASSUME TypeOK, NEW r \in Ranks, Commit(r)
    PROVE  (\E why : Dies(r, why)) \/ Commits(r)
<1>1. client[r] \in Client
    BY DEF TypeOK
<1> DEFINE x == Head(log[r])
<1>2. /\ log[r] # <<>> /\ x.type = "EUpdate"
      /\ \/ \E why : Dies(r, why)
         \/ /\ x.tid \in Tids(client[r].prepared)
            /\ Journalled(r, x)
            /\ client' = [client EXCEPT
                   ![r].prepared = {p \in @ : p.tid # x.tid},
                   ![r].commits = @ \cup {x.tid}]
    BY DEF Commit
<1>3. r \in DOMAIN client
    BY DEF TypeOK
<1>4. ASSUME client' = [client EXCEPT
                   ![r].prepared = {p \in @ : p.tid # x.tid},
                   ![r].commits = @ \cup {x.tid}]
      PROVE  /\ client'[r].ready = client[r].ready /\ client'[r].last = client[r].last
             /\ client'[r].preparing = client[r].preparing
             /\ client'[r].prepared = {p \in client[r].prepared : p.tid # x.tid}
             /\ client'[r].retry = client[r].retry
             /\ client'[r].commits = client[r].commits \cup {x.tid}
    <2> HIDE DEF x
    <2> QED
        BY <1>1, <1>3, <1>4 DEF Client
<1> QED
    BY <1>2, <1>4 DEF Commits

LEMMA UpdatesChange ==
    ASSUME TypeOK, [Next]_vars, NEW q \in Ranks
    PROVE  /\ updates'[q] \subseteq updates[q] \cup Signs(q)
           /\ done' \subseteq done \cup UNION {Signs(r) : r \in Ranks}
<1>1. CASE UNCHANGED <<updates, done>>
    BY <1>1
<1>2. ASSUME NEW r \in Ranks, NEW why, Dies(r, why)
      PROVE  UNCHANGED <<updates, done>>
    BY <1>2 DEF Dies
<1>3. CASE \E r \in Ranks : TableLogged(r)
    <2>1. PICK r \in Ranks : Journalled(r, Head(log[r])) /\ Head(log[r]).type # "EUpdate"
        BY <1>3 DEF TableLogged
    <2> QED
        BY <2>1, JournalledUpdates
<1>4. ASSUME NEW r \in Ranks, Commits(r)
      PROVE  /\ updates'[q] \subseteq updates[q] \cup Signs(q)
             /\ done' \subseteq done \cup UNION {Signs(p) : p \in Ranks}
    <2>1. Journalled(r, Head(log[r])) /\ Signs(r) = {Head(log[r]).tid}
        BY <1>4 DEF Commits, Signs
    <2>2. CASE q = r
        BY <2>1, <2>2, JournalledUpdates
    <2>3. CASE q # r
        BY <2>1, <2>3, JournalledUpdates
    <2> QED
        BY <2>2, <2>3
<1>5. CASE \E r \in Ranks : Expire(r)
    <2>1. PICK r \in Ranks : updates' = [updates EXCEPT ![r] = @ \cap client[r].commits]
                             /\ done' = done
        BY <1>5 DEF Expire
    <2> QED
        BY <2>1 DEF TypeOK
<1>6. CASE (\E x, y \in Ranks : DropStale(x, y)) \/ ServerUpdate \/ Save \/ UNCHANGED vars
    BY <1>1, <1>6 DEF DropStale, ServerUpdate, Save, vars
<1>7. CASE \E r \in Ranks : HandlePrepare(r) \/ HandleCommit(r) \/ HandleRollback(r)
                \/ HandleAgree(r) \/ HandleAck(r) \/ HandleServerReady(r) \/ Mksnap(r)
    BY <1>1, <1>7 DEF HandlePrepare, HandleCommit, HandleRollback, HandleAgree, HandleAck,
                      HandleServerReady, Mksnap
<1>8. CASE \E r \in Ranks : Takeover(r) \/ MonActive(r) \/ HandleMdsMap(r) \/ Prepare(r)
    BY <1>1, <1>8 DEF Takeover, MonActive, HandleMdsMap, Prepare
<1>9. ASSUME NEW r \in Ranks, Fail(r)
      PROVE  \E why : Dies(r, why)
    BY <1>9 DEF Fail
<1> QED
    BY <1>1, <1>2, <1>3, <1>4, <1>5, <1>6, <1>7, <1>8, <1>9, CommitsJournalled
    DEF Next, Progress

LEMMA SignedChange ==
    ASSUME TypeOK, [Next]_vars, NEW q \in Ranks
    PROVE  Signed(q)' \subseteq Signed(q) \cup Signs(q)
<1>1. client[q] \in Client
    BY DEF TypeOK
<1>2. updates'[q] \subseteq updates[q] \cup Signs(q)
    BY UpdatesChange
<1> SUFFICES client'[q].commits \subseteq Signed(q) \cup Signs(q)
    BY <1>2 DEF Signed
<1>3. CASE Asks(q)
    BY <1>1, <1>3 DEF Asks, Client, Signed
<1>4. CASE AckTaken(q) \/ Journals(q) \/ Loses(q)
    BY <1>1, <1>4 DEF AckTaken, Journals, Loses, Client, Signed
<1>5. CASE Restarts(q)
    BY <1>5 DEF Restarts, NewClient, Signed
<1>6. CASE Readied(q)
    BY <1>1, <1>6 DEF Readied, Client, Signed
<1>7. CASE Commits(q)
    <2>1. Signs(q) = {Head(log[q]).tid}
        BY <1>7 DEF Signs
    <2> QED
        BY <1>7, <2>1 DEF Commits, Signed
<1>8. CASE Accepts(q)
    BY <1>8 DEF Accepts, Signed
<1> QED
    BY <1>3, <1>4, <1>5, <1>6, <1>7, <1>8, ClientChange DEF Signed

-----------------------------------------------------------------------------
(* No tid is given out twice.  A known tid is at most the version of the   *)
(* table, so the next preparation gets a new one; a tid that a restart of  *)
(* the server does not forget is at most the version on disk, so the new   *)
(* process goes on above it; known preparations of one tid are the same;   *)
(* and a tid that a client has signed is nobody else's.                    *)
Bounded ==
    /\ \A p \in Known : p.tid <= table.version
    /\ \A p \in Claims : p.tid <= disk.version
    /\ \A t \in done : t <= disk.version
Single == \A p, q \in Known : p.tid = q.tid => p = q
OneSigner ==
    \A r \in Ranks : \A t \in Signed(r) :
        /\ \A p \in Known : p.tid = t => p.mds = r
        /\ \A q \in Ranks : t \in Signed(q) => q = r
Unique == Numbered /\ Bounded /\ Single /\ OneSigner

LEMMA KnownType ==
    ASSUME TypeOK
    PROVE  Known \subseteq Pending
<1>1. table.pending \subseteq Pending /\ disk.pending \subseteq Pending
    BY DEF TypeOK, Table
<1>2. \A q \in Ranks : Agreed(q) \subseteq Pending
    <2> SUFFICES ASSUME NEW q \in Ranks, NEW i \in 1..Len(net[TableServer][q])
                 PROVE  Offer(q, net[TableServer][q][i]) \in Pending
        BY DEF Agreed
    <2>1. net[TableServer][q] \in Seq(Message)
        BY TableAssumption DEF TypeOK, Channels
    <2>2. net[TableServer][q][i] \in Message
        BY <2>1
    <2> QED
        BY <2>2 DEF Message, Offer, Pending
<1>3. \A q \in Ranks : PreparedBy(q) \subseteq Pending
    <2> SUFFICES ASSUME NEW q \in Ranks, NEW p \in client[q].prepared
                 PROVE  Offer(q, p) \in Pending
        BY DEF PreparedBy
    <2>1. p \in [tid : Nat, reqid : Nat]
        BY DEF TypeOK, Client
    <2> QED
        BY <2>1 DEF Offer, Pending
<1>4. Logged \subseteq Pending
    <2>1. In(log[TableServer]) \subseteq Entry
        BY LogType, InType
    <2> QED
        BY <2>1 DEF Logged, Request, Entry, Pending
<1> QED
    BY <1>1, <1>2, <1>3, <1>4 DEF Known, Claims

LEMMA ClaimsChange ==
    ASSUME TypeOK, Continues, Epochs, [Next]_vars
    PROVE  Claims' \subseteq Claims \cup disk'.pending \cup NewlyLogged
<1>1. \A q \in Ranks : Agreed(q)' \subseteq Agreed(q) \cup disk.pending \cup NewlyLogged
    BY AgreedChange DEF OnDisk
<1>2. \A q \in Ranks : PreparedBy(q)' \subseteq PreparedBy(q) \cup Agreed(q)
    BY PreparedChange
<1> QED
    BY <1>1, <1>2 DEF Claims

(* What _prepare_logged agrees to is known, and is on disk by then.        *)
LEMMA NewlyLoggedKnown ==
    ASSUME TypeOK, Continues, Numbered
    PROVE  /\ NewlyLogged \subseteq Logged
           /\ \A p \in NewlyLogged : p.tid <= disk'.version
           /\ NewlyLogged # {} => /\ TableLogged(TableServer)
                                  /\ Head(log[TableServer]).type \notin ClientEntry
<1> DEFINE x == Head(log[TableServer])
<1>1. CASE ~(TableLogged(TableServer) /\ x.type = "PREPARE")
    <2>1. NewlyLogged = {}
        BY <1>1 DEF NewlyLogged
    <2> QED
        BY <2>1
<1>2. CASE TableLogged(TableServer) /\ x.type = "PREPARE"
    <2>1. NewlyLogged = {Request(x)} /\ x.type \notin ClientEntry
        BY <1>2 DEF NewlyLogged, ClientEntry
    <2>2. x \in In(log[TableServer]) /\ x.version <= disk'.version
        BY <1>2, <2>1, LoggedStore
    <2>3. x.tid = x.version
        BY <1>2, <2>2 DEF Numbered
    <2> QED
        BY <1>2, <2>1, <2>2, <2>3 DEF Logged, Request
<1> QED
    BY <1>1, <1>2

(* What a step adds to the known tids: the next one, and it alone.         *)
Added(N) ==
    /\ Known' \subseteq Known \cup N
    /\ \A n \in N : n.tid = table.version + 1
    /\ \A m, n \in N : m = n
    /\ disk'.version \in Nat /\ table'.version \in Nat
    /\ disk.version <= disk'.version
    /\ \A p \in Known' : p.tid <= table'.version
    /\ \A p \in Claims' : p.tid <= disk'.version

LEMMA KnownChange ==
    ASSUME TypeOK, Continues, Epochs, Unique, [Next]_vars
    PROVE  Numbered' /\ \E N : Added(N)
<1>1. Claims' \subseteq Claims \cup disk'.pending \cup NewlyLogged
    BY ClaimsChange
<1>2. Numbered
    BY DEF Unique
<1>3. /\ NewlyLogged \subseteq Logged
      /\ \A p \in NewlyLogged : p.tid <= disk'.version
      /\ NewlyLogged # {} => /\ TableLogged(TableServer)
                             /\ Head(log[TableServer]).type \notin ClientEntry
    BY <1>2, NewlyLoggedKnown
<1>4. /\ \A p \in Known : p.tid <= table.version
      /\ \A p \in Claims : p.tid <= disk.version
    BY DEF Unique, Bounded
<1>5. Known \subseteq Pending /\ Claims \subseteq Known /\ \A p \in Pending : p.tid \in Nat
    BY KnownType DEF Known, Pending
<1>6. disk.version \in Nat /\ table.version \in Nat /\ disk.version <= table.version
    BY LogType DEF Continues, Ordered
<1>7. disk.pending \subseteq Claims
    BY DEF Claims
<1>8. Known' = Claims' \cup table'.pending \cup Logged'
    BY DEF Known
<1>9. table.pending \subseteq Known /\ Logged \subseteq Known
    BY DEF Known
<1>10. CASE Rests
    <2>1. table' = table /\ disk' = disk /\ Logged' \subseteq Logged /\ Numbered'
        BY <1>2, <1>10, RestsStore
    <2>2. Claims' \subseteq Claims \cup NewlyLogged
        BY <1>1, <1>7, <2>1
    <2>3. \A p \in Claims' : p.tid <= disk'.version
        BY <1>3, <1>4, <2>1, <2>2
    <2>4. Known' \subseteq Known
        BY <1>3, <1>5, <1>8, <1>9, <2>1, <2>2
    <2>5. Added({})
        BY <1>4, <1>6, <2>1, <2>3, <2>4 DEF Added
    <2> QED
        BY <2>1, <2>5
<1>11. ASSUME NEW type \in {"PREPARE", "COMMIT", "ROLLBACK", "SERVER_UPDATE"}, NEW tid \in Nat,
              NEW mds \in Ranks, NEW reqid \in Nat, Updates(type, tid, mds, reqid)
       PROVE  Numbered' /\ \E N : Added(N)
    <2> DEFINE n == [tid |-> table.version + 1, mds |-> mds, reqid |-> reqid]
               N == IF type = "PREPARE" THEN {n} ELSE {}
    <2>1. /\ disk' = disk /\ table'.version = table.version + 1
          /\ table'.pending \subseteq table.pending \cup N
          /\ Logged' \subseteq Logged \cup N
          /\ Numbered'
        BY <1>2, <1>11, UpdatesStore
    <2>2. (\A m \in N : m.tid = table.version + 1) /\ \A m, k \in N : m = k
        OBVIOUS
    <2> HIDE DEF n, N
    <2>3. Claims' \subseteq Claims \cup NewlyLogged
        BY <1>1, <1>7, <2>1
    <2>4. \A p \in Claims' : p.tid <= disk'.version
        BY <1>3, <1>4, <2>1, <2>3
    <2>5. Known' \subseteq Known \cup N
        BY <1>3, <1>5, <1>8, <1>9, <2>1, <2>3
    <2>6. \A p \in Known' : p.tid <= table'.version
        BY <1>4, <1>5, <1>6, <2>1, <2>2, <2>5
    <2>7. Added(N)
        BY <1>6, <2>1, <2>2, <2>4, <2>5, <2>6 DEF Added
    <2> QED
        BY <2>1, <2>7
<1>12. CASE Save
    <2>1. table' = table /\ disk' = table /\ Logged' = Logged /\ Numbered'
        BY <1>2, <1>12, SaveStore
    <2>2. Claims' \subseteq Known
        BY <1>1, <1>3, <1>5, <1>9, <2>1
    <2>3. Known' \subseteq Known
        BY <1>8, <1>9, <2>1, <2>2
    <2>4. Added({})
        BY <1>4, <1>6, <2>1, <2>2, <2>3 DEF Added
    <2> QED
        BY <2>1, <2>4
<1>13. CASE TableLogged(TableServer) /\ Head(log[TableServer]).type \notin ClientEntry
    <2> DEFINE x == Head(log[TableServer])
    <2>1. /\ table' = table /\ Logged' \subseteq Logged
          /\ x \in In(log[TableServer])
          /\ disk.version <= disk'.version /\ x.version <= disk'.version
          /\ disk'.version \in Nat
          /\ x.type # "PREPARE" => disk'.pending \subseteq disk.pending
          /\ disk'.pending \subseteq disk.pending \cup {Request(x)}
          /\ Numbered'
        BY <1>2, <1>13, LoggedStore
    <2>2. x.type = "PREPARE" => Request(x) \in Logged /\ Request(x).tid = x.version
        BY <1>2, <2>1 DEF Logged, Numbered, Request
    <2> HIDE DEF x
    <2>3. \A p \in disk'.pending : p.tid <= disk'.version
        <3>1. \A p \in disk.pending : p.tid <= disk'.version
            BY <1>4, <1>5, <1>6, <1>7, <2>1
        <3> QED
            BY <2>1, <2>2, <3>1
    <2>4. disk'.pending \subseteq Known
        BY <1>5, <1>7, <1>9, <2>1, <2>2
    <2>5. \A p \in Claims' : p.tid <= disk'.version
        <3>1. \A p \in Claims : p.tid <= disk'.version
            BY <1>4, <1>5, <1>6, <2>1
        <3> QED
            BY <1>1, <1>3, <2>3, <3>1
    <2>6. Known' \subseteq Known
        BY <1>1, <1>3, <1>5, <1>8, <1>9, <2>1, <2>4
    <2>7. Added({})
        BY <1>4, <1>6, <2>1, <2>5, <2>6 DEF Added
    <2> QED
        BY <2>1, <2>7
<1>14. ASSUME NEW why, Dies(TableServer, why)
       PROVE  Numbered' /\ \E N : Added(N)
    <2>1. table' = disk /\ disk' = disk /\ Logged' = {} /\ Numbered'
        BY <1>14, DiesStore
    <2>2. NewlyLogged = {}
        <3>1. ASSUME TableLogged(TableServer)
              PROVE  FALSE
            <4>1. mdsmap' = mdsmap
                BY <3>1 DEF TableLogged, cluster
            <4>2. OneMore(TableServer, "down")
                BY <1>14, NextMap, TableAssumption DEF Dies
            <4> QED
                BY <4>1, <4>2, NowType DEF OneMore, Now
        <3> QED
            BY <1>3, <3>1
    <2>3. Claims' \subseteq Claims
        BY <1>1, <1>7, <2>1, <2>2
    <2>4. Known' \subseteq Claims
        BY <1>7, <1>8, <2>1, <2>3
    <2>5. Added({})
        BY <1>4, <1>5, <1>6, <2>1, <2>3, <2>4 DEF Added
    <2> QED
        BY <2>1, <2>5
<1> QED
    BY <1>10, <1>11, <1>12, <1>13, <1>14, StoreChange

(* What a client signs it has prepared.                                    *)
LEMMA SignsClaimed ==
    ASSUME NEW q \in Ranks, NEW t \in Signs(q)
    PROVE  \E p \in Claims : p.tid = t /\ p.mds = q
<1>1. Commits(q) /\ t = Head(log[q]).tid
    BY DEF Signs
<1>2. PICK p \in client[q].prepared : p.tid = t
    BY <1>1 DEF Commits, Tids
<1>3. Offer(q, p) \in Claims /\ Offer(q, p).tid = t /\ Offer(q, p).mds = q
    BY <1>2 DEF Claims, PreparedBy, Offer
<1> QED
    BY <1>3

LEMMA NextUnique == TypeOK /\ Causal /\ Continues /\ Epochs /\ Unique /\ [Next]_vars => Unique'
<1> SUFFICES ASSUME TypeOK, Causal, Continues, Epochs, Unique, [Next]_vars PROVE Unique'
    OBVIOUS
<1>1. Numbered'
    BY KnownChange
<1>2. PICK N : Added(N)
    BY KnownChange
<1>3. /\ Known' \subseteq Known \cup N /\ Claims \subseteq Known
      /\ \A n \in N : n.tid = table.version + 1
      /\ \A m, n \in N : m = n
    BY <1>2 DEF Added, Known
<1>4. /\ \A p \in Known : p.tid \in Nat
      /\ disk.version \in Nat /\ table.version \in Nat /\ disk.version <= table.version
    BY KnownType, LogType DEF Pending, Continues, Ordered
<1>5. /\ \A p \in Known : p.tid <= table.version
      /\ \A p \in Claims : p.tid <= disk.version
      /\ \A t \in done : t <= disk.version
      /\ \A p, q \in Known : p.tid = q.tid => p = q
    BY DEF Unique, Bounded, Single
<1>6. done \subseteq Nat
    BY DEF TypeOK
<1>7. \A q \in Ranks : \A t \in Signs(q) : \E p \in Claims : p.tid = t /\ p.mds = q
    BY SignsClaimed
<1>8. \A q \in Ranks : \A t \in Signs(q) : t \in Nat /\ t <= disk.version
    BY <1>3, <1>4, <1>5, <1>7
<1>9. Bounded'
    <2>1. done' \subseteq done \cup UNION {Signs(r) : r \in Ranks}
        BY UpdatesChange, TableAssumption
    <2>2. disk.version <= disk'.version /\ disk'.version \in Nat
        BY <1>2 DEF Added
    <2>3. \A t \in done' : t <= disk'.version
        BY <1>4, <1>5, <1>6, <1>8, <2>1, <2>2
    <2> QED
        BY <1>2, <2>3 DEF Added, Bounded
<1>10. Single'
    <2> SUFFICES ASSUME NEW p \in Known', NEW q \in Known', p.tid = q.tid
                 PROVE  p = q
        BY DEF Single
    <2>1. \A m \in Known, n \in N : m.tid # n.tid
        BY <1>3, <1>4, <1>5
    <2> QED
        BY <1>3, <1>5, <2>1
<1>11. OneSigner'
    <2> SUFFICES ASSUME NEW r \in Ranks, NEW t \in Signed(r)'
                 PROVE  /\ \A p \in Known' : p.tid = t => p.mds = r
                        /\ \A q \in Ranks : t \in Signed(q)' => q = r
        BY DEF OneSigner
    <2>1. \A q \in Ranks : Signed(q)' \subseteq Signed(q) \cup Signs(q)
        BY SignedChange
    <2>2. \A q \in Ranks : Signed(q) \subseteq done
        BY DEF Causal, Signed
    <2>3. t \in Nat /\ t <= table.version
        <3>1. t \in done \/ t \in Signs(r)
            BY <2>1, <2>2
        <3>2. t \in Nat /\ t <= disk.version
            BY <1>5, <1>6, <1>8, <3>1
        <3> QED
            BY <1>4, <3>2
    <2>4. \A n \in N : n.tid # t
        BY <1>3, <1>4, <2>3
    <2>5. /\ \A p \in Known : t \in Signed(r) /\ p.tid = t => p.mds = r
          /\ \A q \in Ranks, p \in Known : t \in Signed(q) /\ p.tid = t => p.mds = q
          /\ \A q \in Ranks : t \in Signed(r) /\ t \in Signed(q) => q = r
        BY DEF Unique, OneSigner
    <2>6. \A p \in Known : p.tid = t => p.mds = r
        <3>1. CASE t \in Signed(r)
            BY <2>5, <3>1
        <3>2. CASE t \in Signs(r)
            BY <1>3, <1>5, <1>7, <3>2
        <3> QED
            BY <2>1, <3>1, <3>2
    <2>7. ASSUME NEW q \in Ranks, t \in Signed(q)'
          PROVE  q = r
        <3>1. CASE t \in Signs(q)
            BY <1>3, <1>7, <2>6, <3>1
        <3>2. CASE t \in Signed(q) /\ t \in Signed(r)
            BY <2>5, <3>2
        <3>3. CASE t \in Signed(q) /\ t \in Signs(r)
            BY <1>3, <1>7, <2>5, <3>3
        <3> QED
            BY <2>1, <2>7, <3>1, <3>2, <3>3
    <2> QED
        BY <1>3, <2>4, <2>6, <2>7
<1> QED
    BY <1>1, <1>9, <1>10, <1>11 DEF Unique

LEMMA InitUnique == Init => Unique
<1> SUFFICES ASSUME Init PROVE Unique
    OBVIOUS
<1>1. \A q \in Ranks : /\ net[TableServer][q] = <<>> /\ log[q] = <<>>
                       /\ client[q].prepared = {} /\ client[q].commits = {}
                       /\ updates[q] = {}
    BY TableAssumption DEF Init, NewClient
<1>2. table.pending = {} /\ disk.pending = {} /\ done = {}
    BY DEF Init
<1>3. In(log[TableServer]) = {}
    BY <1>1, TableAssumption DEF In
<1>4. \A q \in Ranks : Agreed(q) = {} /\ PreparedBy(q) = {} /\ Signed(q) = {}
    BY <1>1 DEF Agreed, PreparedBy, Signed
<1>5. Known = {} /\ Claims = {}
    BY <1>2, <1>3, <1>4 DEF Known, Claims, Logged
<1> QED
    BY <1>2, <1>3, <1>4, <1>5 DEF Unique, Numbered, Bounded, Single, OneSigner

LEMMA AlwaysUnique == Spec => [](Epochs /\ Unique)
<1>1. Init => Epochs /\ Unique
    BY InitEpochs, InitUnique
<1>2. TypeOK /\ Causal /\ Continues /\ (Epochs /\ Unique) /\ [Next]_vars => (Epochs /\ Unique)'
    BY NextEpochs, NextUnique
<1> QED
    BY <1>1, <1>2, TypeCorrect, AlwaysCausal, AlwaysContinues, PTL DEF Spec

(* A tid that a client holds, prepared or about to be committed, is below  *)
(* the version that a restarted MDSTableServer goes on from, and no other  *)
(* client holds it: _prepare answers only when the journal has the tid,    *)
(* and the AGREEs that handle_mds_recovery sends again are of the table    *)
(* that is on disk, or reach a client that has asked for nothing.          *)
THEOREM TidsAreDurable == Spec => []TidsDurable
<1>1. TypeOK /\ Causal /\ Unique => TidsDurable
    <2> SUFFICES ASSUME TypeOK, Causal, Unique, NEW r \in Ranks
                 PROVE  /\ \A t \in Held(r) : t <= disk.version
                        /\ \A q \in Ranks \ {r} : Held(r) \cap Held(q) = {}
        BY DEF TidsDurable
    <2>1. ASSUME NEW q \in Ranks, NEW t \in Tids(client[q].prepared)
          PROVE  \E p \in Claims : p.tid = t /\ p.mds = q
        <3>1. PICK p \in client[q].prepared : p.tid = t
            BY <2>1 DEF Tids
        <3>2. Offer(q, p) \in Claims /\ Offer(q, p).tid = t /\ Offer(q, p).mds = q
            BY <3>1 DEF Claims, PreparedBy, Offer
        <3> QED
            BY <3>2
    <2>2. /\ \A p \in Claims : p.tid <= disk.version
          /\ \A t \in done : t <= disk.version
          /\ \A p, q \in Claims : p.tid = q.tid => p = q
        BY DEF Unique, Bounded, Single, Known
    <2>3. \A q \in Ranks : client[q].commits \subseteq done
        BY DEF Causal
    <2>4. \A t \in Held(r) : t <= disk.version
        BY <2>1, <2>2, <2>3 DEF Held
    <2>5. ASSUME NEW q \in Ranks, NEW t \in Held(r), t \in Held(q)
          PROVE  q = r
        <3>1. /\ \A p \in Claims : t \in client[r].commits /\ p.tid = t => p.mds = r
              /\ \A p \in Claims : t \in client[q].commits /\ p.tid = t => p.mds = q
              /\ t \in client[r].commits /\ t \in client[q].commits => q = r
            BY DEF Unique, OneSigner, Signed, Known
        <3>2. CASE t \in client[r].commits
            BY <2>1, <2>5, <3>1, <3>2 DEF Held
        <3>3. CASE t \in Tids(client[r].prepared)
            BY <2>1, <2>2, <2>5, <3>1, <3>3 DEF Held
        <3> QED
            BY <3>2, <3>3 DEF Held
    <2> QED
        BY <2>4, <2>5
<1> QED
    BY <1>1, AlwaysUnique, TypeCorrect, AlwaysCausal, PTL

-----------------------------------------------------------------------------
(* A greeting that waits behind another one, or for a client that is ready *)
(* already, was sent by a later process of the server: its receiver will   *)
(* have seen the server down by then.                                      *)
Salute(m) == m.op = "SERVER_READY" \/ (m.op = "AGREE" /\ ~m.bl)
DownIn(maps, i, j) == \E n \in i..j : maps[n][TableServer] = "down"
Apart(q, i) ==
    LET c == net[TableServer][q]
    IN  Salute(c[i]) =>
            /\ client[q].ready => DownIn(mdsmap, epoch[q] + 1, c[i].ep)
            /\ \A j \in 1..(i - 1) : c[j].op = "SERVER_READY" =>
                    DownIn(mdsmap, c[j].ep + 1, c[i].ep)
GreetedApart == \A q \in Ranks : \A i \in 1..Len(net[TableServer][q]) : Apart(q, i)

(* The epoch of a message of the server.                                   *)
LEMMA ServerSent ==
    ASSUME TypeOK, Sent, NEW q \in Ranks, NEW i \in 1..Len(net[TableServer][q])
    PROVE  LET e == net[TableServer][q][i].ep
           IN  e \in 1..Now /\ e \in Nat /\ ServerActive(e) /\ e <= epoch[TableServer]
    BY NowType, TableAssumption DEF Sent, SentAt

LEMMA DownKept ==
    ASSUME TypeOK, \A k \in 1..Now : mdsmap'[k] = mdsmap[k],
           NEW a \in Nat, a >= 1, NEW b \in 1..Now, DownIn(mdsmap, a, b)
    PROVE  DownIn(mdsmap', a, b)
    BY NowType DEF DownIn

(* The channel and what it is compared with go on.                         *)
LEMMA ApartKept ==
    ASSUME TypeOK, Sent, GreetedApart, net' \in Channels, NEW q \in Ranks,
           \A k \in 1..Now : mdsmap'[k] = mdsmap[k],
           NEW k \in {0, 1}, NEW i \in 1..Len(net'[TableServer][q]),
           \A j \in 1..i : /\ j + k <= Len(net[TableServer][q])
                           /\ net'[TableServer][q][j] = net[TableServer][q][j + k],
           Salute(net'[TableServer][q][i]), NEW j \in 1..(i - 1),
           net'[TableServer][q][j].op = "SERVER_READY"
    PROVE  DownIn(mdsmap', net'[TableServer][q][j].ep + 1, net'[TableServer][q][i].ep)
<1> DEFINE c == net[TableServer][q]
           d == net'[TableServer][q]
<1>1. c \in Seq(Message) /\ d \in Seq(Message)
    BY TableAssumption DEF TypeOK, Channels
<1>2. Len(c) \in Nat /\ Len(d) \in Nat
    BY <1>1, LenProperties
<1>3. /\ i + k \in 1..Len(c) /\ j + k \in 1..(i + k - 1) /\ j + k \in 1..Len(c)
      /\ d[i] = c[i + k] /\ d[j] = c[j + k]
    <2>1. \A n \in 1..i : n + k <= Len(c) /\ d[n] = c[n + k]
        OBVIOUS
    <2>2. i \in 1..Len(d) /\ j \in 1..(i - 1)
        OBVIOUS
    <2> HIDE DEF c, d
    <2>3. i \in 1..i /\ j \in 1..i
        BY <1>2, <2>2
    <2> QED
        BY <1>2, <2>1, <2>2, <2>3
<1>4. DownIn(mdsmap, c[j + k].ep + 1, c[i + k].ep)
    <2>1. Apart(q, i + k)
        BY <1>3 DEF GreetedApart
    <2>2. Salute(c[i + k]) /\ c[j + k].op = "SERVER_READY"
        BY <1>3
    <2> QED
        BY <1>3, <2>1, <2>2 DEF Apart
<1>5. c[j + k].ep \in Nat /\ c[i + k].ep \in 1..Now
    BY <1>3, ServerSent
<1>6. c[j + k].ep + 1 \in Nat /\ c[j + k].ep + 1 >= 1
    <2> HIDE DEF c
    <2> QED
        BY <1>5
<1> QED
    BY <1>3, <1>4, <1>5, <1>6, DownKept

(* A step in which q does not become ready: a message may be taken, and    *)
(* what is sent to it greets nobody.                                       *)
LEMMA ApartGrows ==
    ASSUME TypeOK, Sent, GreetedApart, net' \in Channels, NEW q \in Ranks,
           \A k \in 1..Now : mdsmap'[k] = mdsmap[k],
           NEW k \in {0, 1}, NEW A,
           Grows(net[TableServer][q], net'[TableServer][q], k, A),
           \A m \in A : ~Salute(m),
           client'[q].ready =>
                \/ client[q].ready /\ epoch'[q] = epoch[q]
                \/ /\ k = 1 /\ net[TableServer][q] # <<>>
                   /\ net[TableServer][q][1].op = "SERVER_READY"
                   /\ Heard(q, net[TableServer][q][1].ep) /\ epoch'[q] = epoch[q],
           NEW i \in 1..Len(net'[TableServer][q])
    PROVE  Apart(q, i)'
<1> DEFINE c == net[TableServer][q]
           d == net'[TableServer][q]
<1> SUFFICES ASSUME Salute(d[i])
             PROVE  /\ client'[q].ready => DownIn(mdsmap', epoch'[q] + 1, d[i].ep)
                    /\ \A j \in 1..(i - 1) : d[j].op = "SERVER_READY" =>
                            DownIn(mdsmap', d[j].ep + 1, d[i].ep)
    BY DEF Apart, Salute
<1>1. c \in Seq(Message) /\ d \in Seq(Message)
    BY TableAssumption DEF TypeOK, Channels
<1>2. Len(c) \in Nat /\ Len(d) \in Nat
    BY <1>1, LenProperties
<1>3. \A n \in 1..Len(d) : \/ n + k <= Len(c) /\ d[n] = c[n + k]
                           \/ n + k > Len(c) /\ d[n] \in A
    BY DEF Grows
<1>4. i + k <= Len(c) /\ d[i] = c[i + k]
    BY <1>3
<1>5. \A j \in 1..i : j + k <= Len(c) /\ d[j] = c[j + k]
    <2> SUFFICES ASSUME NEW j \in 1..i PROVE j + k <= Len(c) /\ d[j] = c[j + k]
        OBVIOUS
    <2> HIDE DEF c, d
    <2>1. j \in 1..Len(d) /\ j + k <= Len(c)
        BY <1>2, <1>4 DEF d
    <2> QED
        BY <1>2, <1>3, <2>1
<1>6. \A j \in 1..(i - 1) : d[j].op = "SERVER_READY" => DownIn(mdsmap', d[j].ep + 1, d[i].ep)
    BY <1>5, ApartKept
<1>7. ASSUME client'[q].ready
      PROVE  DownIn(mdsmap', epoch'[q] + 1, d[i].ep)
    <2>1. i + k \in 1..Len(c) /\ Salute(c[i + k]) /\ Apart(q, i + k)
        BY <1>2, <1>4 DEF GreetedApart
    <2>2. epoch[q] \in Nat /\ epoch'[q] = epoch[q] /\ Now \in Nat
        BY <1>7, EpochType, NowType
    <2>3. c[i + k].ep \in 1..Now
        BY <2>1, ServerSent
    <2>4. DownIn(mdsmap, epoch[q] + 1, c[i + k].ep)
        <3>1. CASE client[q].ready
            BY <2>1, <3>1 DEF Apart
        <3>2. CASE k = 1 /\ c # <<>> /\ c[1].op = "SERVER_READY" /\ Heard(q, c[1].ep)
            <4>1. 1 \in 1..(i + k - 1) /\ 1 \in 1..Len(c)
                BY <1>2, <1>4, <3>2
            <4>2. DownIn(mdsmap, c[1].ep + 1, c[i + k].ep)
                BY <2>1, <3>2, <4>1 DEF Apart
            <4>3. c[1].ep \in Nat
                BY <4>1, ServerSent
            <4>4. \A n \in c[1].ep..epoch[q] : mdsmap[n][TableServer] # "down"
                BY <3>2 DEF Heard, UpThrough
            <4>5. PICK n \in (c[1].ep + 1)..c[i + k].ep : mdsmap[n][TableServer] = "down"
                BY <4>2 DEF DownIn
            <4>6. n \in (epoch[q] + 1)..c[i + k].ep
                BY <2>2, <2>3, <4>3, <4>4, <4>5
            <4> QED
                BY <4>5, <4>6 DEF DownIn
        <3> QED
            BY <1>7, <3>1, <3>2
    <2>6. epoch[q] + 1 \in Nat /\ epoch[q] + 1 >= 1
        BY <2>2
    <2>5. DownIn(mdsmap', epoch[q] + 1, c[i + k].ep)
        BY <2>3, <2>4, <2>6, DownKept
    <2> QED
        BY <1>4, <2>2, <2>5
<1> QED
    BY <1>6, <1>7

(* Server and clients after a map has been handled.                        *)
LEMMA MapLosesReady ==
    ASSUME TypeOK, Epochs, NEW r \in Ranks, HandleMdsMap(r), NEW q \in Ranks,
           client'[q].ready
    PROVE  /\ client[q].ready
           /\ epoch'[q] = epoch[q] \/
              (q = r /\ epoch'[q] = epoch[q] + 1 /\ epoch[q] + 1 \in 1..Now
                     /\ mdsmap[epoch[q] + 1][TableServer] # "down")
<1>1. /\ UNCHANGED mdsmap /\ epoch' = [epoch EXCEPT ![r] = epoch[r] + 1]
      /\ epoch[r] + 1 \in 1..Now
    BY MapFlow
<1>2. /\ epoch \in [Ranks -> 1..Now] /\ Now \in Nat
      /\ client \in [Ranks -> Client]
    BY EpochType DEF TypeOK
<1>3. client[q].ready
    BY <1>2 DEF HandleMdsMap, Client
<1>4. CASE q # r
    BY <1>1, <1>2, <1>3, <1>4
<1>5. CASE q = r
    <2>1. ~(mdsmap[epoch[r]][TableServer] # "down" /\ mdsmap[epoch[r] + 1][TableServer] = "down")
        BY <1>2, <1>5 DEF HandleMdsMap, View, Client
    <2>2. mdsmap[epoch[r]][TableServer] = "active"
        BY <1>3, <1>5, ReadyKnows DEF Epochs, ServerActive
    <2> QED
        BY <1>1, <1>2, <1>3, <1>5, <2>1, <2>2
<1> QED
    BY <1>4, <1>5

(* The server was active at a and is not at b: it has been down between.   *)
LEMMA WasDown ==
    ASSUME TypeOK, MapsGoOn, NEW a \in 1..Now, NEW b \in 1..Now, a <= b,
           ServerActive(a), ~ServerActive(b)
    PROVE  DownIn(mdsmap, a + 1, b)
<1>1. ~UpThrough(TableServer, a, b)
    BY ActiveOn
<1>2. PICK n \in a..b : mdsmap[n][TableServer] = "down"
    BY <1>1 DEF UpThrough
<1>3. n # a
    BY <1>2 DEF ServerActive
<1>4. n \in (a + 1)..b
    BY <1>2, <1>3, NowType
<1> QED
    BY <1>2, <1>4 DEF DownIn

(* A larger interval.                                                      *)
LEMMA DownWider ==
    ASSUME NEW maps, NEW a \in Nat, NEW b \in Nat, NEW e \in Nat, b <= e, DownIn(maps, a, b)
    PROVE  DownIn(maps, a, e)
    BY DEF DownIn

(* What the server sends when it handles a map.                            *)
LEMMA WelcomeApart ==
    ASSUME TypeOK, Epochs, HandleMdsMap(TableServer), NEW q \in Ranks, Welcomed(q),
           NEW i \in 1..Len(net'[TableServer][q]), i > Len(net[TableServer][q]),
           net'[TableServer][q][i] \in Welcome(q, epoch[TableServer] + 1)
    PROVE  Apart(q, i)'
<1> DEFINE c == net[TableServer][q]
           d == net'[TableServer][q]
           e == epoch[TableServer]
<1>1. d[i].ep = e + 1
    BY DEF Welcome
<1>2. /\ mdsmap' = mdsmap /\ epoch' = [epoch EXCEPT ![TableServer] = e + 1]
      /\ e + 1 \in 1..Now /\ net' \in Channels
    BY MapFlow, TableAssumption
<1>3. /\ epoch \in [Ranks -> 1..Now] /\ Now \in Nat /\ e \in 1..Now
    BY EpochType, TableAssumption DEF TypeOK
<1>4. c \in Seq(Message) /\ d \in Seq(Message)
    BY <1>2, TableAssumption DEF TypeOK, Channels
<1>5. Len(c) \in Nat /\ Len(d) \in Nat
    BY <1>4, LenProperties
<1>6. \A n \in 1..Len(c) : d[n] = c[n]
    <2> SUFFICES ASSUME NEW n \in 1..Len(c) PROVE d[n] = c[n]
        OBVIOUS
    <2>1. \A j \in 1..Len(d) : \/ j + 0 <= Len(c) /\ d[j] = c[j + 0]
                               \/ j + 0 > Len(c) /\ d[j] \in Welcome(q, e + 1)
        BY DEF Welcomed, Grows
    <2> HIDE DEF c, d
    <2>2. n \in 1..Len(d)
        BY <1>5 DEF d, c
    <2> QED
        BY <1>5, <2>1, <2>2
<1>7. \A n \in 1..(Len(d) - 1) : n > Len(c) => d[n].op = "AGREE"
    BY DEF Welcomed
<1> SUFFICES /\ client'[q].ready => DownIn(mdsmap, epoch'[q] + 1, e + 1)
             /\ \A j \in 1..(i - 1) : d[j].op = "SERVER_READY" =>
                    DownIn(mdsmap, d[j].ep + 1, e + 1)
    BY <1>1, <1>2 DEF Apart
<1>8. ASSUME NEW j \in 1..(i - 1), d[j].op = "SERVER_READY"
      PROVE  j \in 1..Len(c) /\ c[j].op = "SERVER_READY" /\ c[j].ep = d[j].ep
    <2>1. i \in 1..Len(d)
        OBVIOUS
    <2> HIDE DEF c, d
    <2> QED
        BY <1>5, <1>6, <1>7, <1>8, <2>1
<1>9. CASE ServerActive(e)
    <2>1. mdsmap[e][q] # "active"
        BY <1>9 DEF Welcomed, Greets
    <2>2. e \in e..Now
        BY <1>3
    <2>3. client[q].last = -1 /\ ~Greeting(q)
        BY <2>1, <2>2 DEF Epochs, Greeted
    <2>4. ~client'[q].ready
        BY <2>3, MapLosesReady, TableAssumption DEF TypeOK
    <2> QED
        BY <1>8, <2>3, <2>4 DEF Greeting
<1>10. CASE ~ServerActive(e)
    <2>1. ASSUME NEW a \in 1..Now, a <= e, ServerActive(a)
          PROVE  DownIn(mdsmap, a + 1, e + 1)
        <3>1. DownIn(mdsmap, a + 1, e)
            BY <1>3, <1>10, <2>1, WasDown DEF Epochs
        <3> QED
            BY <1>3, <2>1, <3>1, DownWider
    <2>2. ASSUME client'[q].ready
          PROVE  DownIn(mdsmap, epoch'[q] + 1, e + 1)
        <3>1. client[q].ready
            BY <2>2, MapLosesReady, TableAssumption
        <3>2. ServerActive(epoch[q]) /\ epoch[q] \in 1..Now
            BY <1>3, <3>1, ReadyKnows DEF Epochs
        <3>3. PICK n : Heard(q, n)
            BY <3>1 DEF Epochs, ReadySince
        <3>4. n \in 1..epoch[q] /\ n <= e /\ ServerActive(n) /\ UpThrough(TableServer, n, epoch[q])
            BY <3>3 DEF Heard
        <3>5. epoch[q] < e
            <4>1. ASSUME e <= epoch[q]
                  PROVE  FALSE
                <5>1. UpThrough(TableServer, n, e)
                    BY <1>3, <3>2, <3>4, <4>1 DEF UpThrough
                <5>2. n \in 1..Now
                    BY <1>3, <3>2, <3>4
                <5> QED
                    BY <1>3, <1>10, <3>4, <5>1, <5>2, ActiveOn DEF Epochs
            <4> QED
                BY <1>3, <3>2, <4>1
        <3>6. q # TableServer /\ epoch'[q] = epoch[q]
            BY <1>2, <1>3, <3>5
        <3> QED
            BY <1>3, <2>1, <3>2, <3>5, <3>6
    <2>3. ASSUME NEW j \in 1..(i - 1), d[j].op = "SERVER_READY"
          PROVE  DownIn(mdsmap, d[j].ep + 1, e + 1)
        <3>1. j \in 1..Len(c) /\ c[j].ep = d[j].ep
            BY <1>8, <2>3
        <3>2. c[j].ep \in 1..Now /\ ServerActive(c[j].ep) /\ c[j].ep <= e
            BY <3>1, ServerSent DEF Epochs
        <3> QED
            BY <2>1, <3>1, <3>2
    <2> QED
        BY <2>2, <2>3
<1> QED
    BY <1>9, <1>10

LEMMA ApartCalm ==
    ASSUME TypeOK, Epochs, GreetedApart, NEW T, Calm(T), NEW q \in Ranks,
           client'[q].ready => client[q].ready \/ (Readied(q) /\ <<TableServer, q>> \in T),
           NEW i \in 1..Len(net'[TableServer][q])
    PROVE  Apart(q, i)'
<1>1. PICK r \in Ranks, p \in Ranks : \E A \in SUBSET (Plain \cap Sendable(r, p)) :
            Flow(T, r, p, A)
    BY DEF Calm, Moves
<1>2. PICK A \in SUBSET (Plain \cap Sendable(r, p)) : Flow(T, r, p, A)
    BY <1>1
<1> DEFINE k == IF <<TableServer, q>> \in T THEN 1 ELSE 0
           B == Only(TableServer, q, r, p, A)
<1>3. k \in {0, 1} /\ net' \in Channels /\ Grows(net[TableServer][q], net'[TableServer][q], k, B)
    BY <1>2, TableAssumption DEF Flow
<1>4. \A m \in B : ~Salute(m)
    BY <1>2 DEF Only, Plain, Salute
<1>5. \A n \in 1..Now : mdsmap'[n] = mdsmap[n]
    BY DEF Calm, cluster
<1>6. epoch'[q] = epoch[q]
    BY DEF Calm, cluster
<1>7. Readied(q) /\ <<TableServer, q>> \in T =>
        /\ k = 1 /\ net[TableServer][q] # <<>>
        /\ net[TableServer][q][1].op = "SERVER_READY"
        /\ Heard(q, net[TableServer][q][1].ep)
    BY ReadiedBy
<1> HIDE DEF k, B
<1> QED
    BY <1>3, <1>4, <1>5, <1>6, <1>7, ApartGrows DEF Epochs

(* The channel, the client and the maps it compares are as they were.      *)
LEMMA ApartSame ==
    ASSUME TypeOK, Sent, GreetedApart, net' \in Channels, NEW q \in Ranks,
           net'[TableServer][q] = net[TableServer][q],
           \A k \in 1..Now : mdsmap'[k] = mdsmap[k],
           client'[q].ready => client[q].ready /\ epoch'[q] = epoch[q],
           NEW i \in 1..Len(net'[TableServer][q])
    PROVE  Apart(q, i)'
<1>1. net[TableServer][q] \in Seq(Message)
    BY TableAssumption DEF TypeOK, Channels
<1>2. Grows(net[TableServer][q], net'[TableServer][q], 0, {})
    BY <1>1, GrowsSame
<1>3. \E A : Grows(net[TableServer][q], net'[TableServer][q], 0, A) /\ \A m \in A : ~Salute(m)
    BY <1>2
<1>4. PICK A : Grows(net[TableServer][q], net'[TableServer][q], 0, A) /\ \A m \in A : ~Salute(m)
    BY <1>3
<1> QED
    BY <1>4, ApartGrows

LEMMA ApartMap ==
    ASSUME TypeOK, Epochs, GreetedApart, NEW r \in Ranks, HandleMdsMap(r), NEW q \in Ranks,
           NEW i \in 1..Len(net'[TableServer][q])
    PROVE  Apart(q, i)'
<1> DEFINE c == net[TableServer][q]
           d == net'[TableServer][q]
<1>1. mdsmap' = mdsmap /\ net' \in Channels
    BY MapFlow
<1>2. d = c \/ (r = TableServer /\ Welcomed(q))
    BY MapFlow, TableAssumption
<1>3. Len(c) \in Nat /\ Len(d) \in Nat
    <2>1. c \in Seq(Message) /\ d \in Seq(Message)
        BY <1>1, TableAssumption DEF TypeOK, Channels
    <2> QED
        BY <2>1, LenProperties
<1>4. CASE i \in 1..Len(c)
    <2>1. \A n \in 1..i : d[n] = c[n]
        <3>1. CASE d = c
            BY <3>1
        <3>2. CASE Welcomed(q)
            <4>1. \A j \in 1..Len(d) :
                    \/ j + 0 <= Len(c) /\ d[j] = c[j + 0]
                    \/ j + 0 > Len(c) /\ d[j] \in Welcome(q, epoch[TableServer] + 1)
                BY <3>2 DEF Welcomed, Grows
            <4>2. i \in 1..Len(d)
                OBVIOUS
            <4> HIDE DEF c, d
            <4> QED
                BY <1>3, <1>4, <4>1, <4>2
        <3> QED
            BY <1>2, <3>1, <3>2
    <2>2. Apart(q, i)
        BY <1>4 DEF GreetedApart
    <2>3. \A n \in 1..(i - 1) : d[n] = c[n]
        BY <2>1
    <2>4. d[i] = c[i]
        BY <1>4, <2>1
    <2>5. ASSUME client'[q].ready, DownIn(mdsmap, epoch[q] + 1, c[i].ep)
          PROVE  DownIn(mdsmap, epoch'[q] + 1, c[i].ep)
        <3>1. /\ epoch'[q] = epoch[q] \/
                 (epoch'[q] = epoch[q] + 1 /\ mdsmap[epoch[q] + 1][TableServer] # "down")
              /\ epoch[q] \in Nat
            BY <2>5, MapLosesReady, EpochType
        <3>2. c[i].ep \in Nat
            BY <1>4, ServerSent DEF Epochs
        <3>3. PICK n \in (epoch[q] + 1)..c[i].ep : mdsmap[n][TableServer] = "down"
            BY <2>5 DEF DownIn
        <3>4. n \in (epoch'[q] + 1)..c[i].ep
            BY <3>1, <3>2, <3>3
        <3> QED
            BY <3>3, <3>4 DEF DownIn
    <2>6. client'[q].ready => client[q].ready
        BY MapLosesReady
    <2> SUFFICES ASSUME Salute(c[i])
                 PROVE  /\ client'[q].ready => DownIn(mdsmap, epoch'[q] + 1, c[i].ep)
                        /\ \A j \in 1..(i - 1) : c[j].op = "SERVER_READY" =>
                                DownIn(mdsmap, c[j].ep + 1, c[i].ep)
        BY <1>1, <2>3, <2>4 DEF Apart
    <2> QED
        BY <2>2, <2>5, <2>6 DEF Apart
<1>5. CASE i \notin 1..Len(c)
    <2>1. r = TableServer /\ Welcomed(q) /\ i > Len(c)
        BY <1>2, <1>3, <1>5
    <2>2. d[i] \in Welcome(q, epoch[TableServer] + 1)
        <3>1. \A j \in 1..Len(d) :
                \/ j + 0 <= Len(c) /\ d[j] = c[j + 0]
                \/ j + 0 > Len(c) /\ d[j] \in Welcome(q, epoch[TableServer] + 1)
            BY <2>1 DEF Welcomed, Grows
        <3>2. i \in 1..Len(d)
            OBVIOUS
        <3> HIDE DEF c, d
        <3> QED
            BY <1>3, <2>1, <3>1, <3>2
    <2> QED
        BY <2>1, <2>2, WelcomeApart
<1> QED
    BY <1>4, <1>5

LEMMA NextApart ==
    TypeOK /\ Continues /\ Epochs /\ GreetedApart /\ [Next]_vars => GreetedApart'
<1> SUFFICES ASSUME TypeOK, Continues, Epochs, GreetedApart, [Next]_vars, NEW q \in Ranks,
                    NEW i \in 1..Len(net'[TableServer][q])
             PROVE  Apart(q, i)'
    BY DEF GreetedApart
<1>1. TypeOK'
    BY NextType
<1>2. net' \in Channels
    BY <1>1 DEF TypeOK
<1>3. ASSUME NEW r \in Ranks, NEW why, Dies(r, why)
      PROVE  Apart(q, i)'
    <2>1. CASE q = r
        <3>1. net'[TableServer][q] = <<>>
            BY <1>3, <2>1, TableAssumption DEF Dies, TypeOK, Channels
        <3> QED
            BY <3>1
    <2>2. CASE q # r
        <3>1. /\ net'[TableServer][q] = net[TableServer][q] /\ client'[q] = client[q]
              /\ epoch' = epoch
            BY <1>3, <2>2, TableAssumption DEF Dies, TypeOK, Channels
        <3>2. \A k \in 1..Now : mdsmap'[k] = mdsmap[k]
            BY <1>3, NextMap DEF Dies, OneMore
        <3> QED
            BY <1>2, <3>1, <3>2, ApartSame DEF Epochs
    <2> QED
        BY <2>1, <2>2
<1>4. CASE Readied(q)
    <2>1. Calm({<<TableServer, q>>}) \/ \E why : Dies(q, why)
        BY <1>4, HandleServerReadyMoves DEF Readied
    <2> QED
        BY <1>3, <1>4, <2>1, ApartCalm
<1>5. CASE ~Readied(q)
    <2>1. client'[q].ready => client[q].ready
        BY <1>5, BecomesReady
    <2>2. ASSUME NEW T, Calm(T)
          PROVE  Apart(q, i)'
        BY <2>1, <2>2, ApartCalm
    <2>3. ASSUME NEW r \in Ranks, TableLogged(r), Head(log[r]).type = "PREPARE"
          PROVE  Apart(q, i)'
        <3> DEFINE x == Head(log[r])
                   A == {AgreeOf(x)} \cap Sendable(TableServer, x.mds)
                   B == Only(TableServer, q, TableServer, x.mds, A)
        <3>1. Flow({}, TableServer, x.mds, A) /\ UNCHANGED cluster
            BY <2>3, AgreeFlow
        <3>2. Grows(net[TableServer][q], net'[TableServer][q], 0, B)
            BY <3>1, TableAssumption DEF Flow
        <3>3. \A m \in B : ~Salute(m)
            BY DEF Only, AgreeOf, Salute
        <3>4. epoch'[q] = epoch[q] /\ \A k \in 1..Now : mdsmap'[k] = mdsmap[k]
            BY <3>1 DEF cluster
        <3> HIDE DEF B, A, x
        <3> QED
            BY <1>2, <2>1, <3>2, <3>3, <3>4, ApartGrows DEF Epochs
    <2>4. ASSUME NEW r \in Ranks, Takeover(r) \/ MonActive(r)
          PROVE  Apart(q, i)'
        <3>1. net' = net /\ client' = client /\ \A k \in 1..Now : mdsmap'[k] = mdsmap[k]
            BY <2>4, NextMap DEF Takeover, MonActive, Published, OneMore
        <3>2. client[q].ready => epoch'[q] = epoch[q]
            BY <2>4 DEF Takeover, MonActive, Epochs, ReadySince, TypeOK
        <3> QED
            BY <1>2, <3>1, <3>2, ApartSame DEF Epochs
    <2> QED
        BY <1>3, <2>2, <2>3, <2>4, ApartMap, NetSteps
<1> QED
    BY <1>4, <1>5

-----------------------------------------------------------------------------
(* A preparation is answered with a reply once: as long as it is on its    *)
(* way to the journal nobody has heard of its tid, and an AGREE with the   *)
(* reply is the first of its tid that its receiver acts on.                *)
Spoken(q) == Tids(client[q].prepared) \cup Signed(q)
Unanswered ==
    \A p \in Logged : \A q \in Ranks : p.tid \notin Spoken(q) \cup Tids(Agreed(q))
First(q, i) ==
    LET c == net[TableServer][q]
    IN  c[i].op = "AGREE" /\ c[i].bl =>
            /\ c[i].tid \notin Spoken(q)
            /\ \A j \in 1..(i - 1) :
                    c[j].op = "AGREE" /\ c[j].tid = c[i].tid => Harmless(q, j)
AnswersOnce ==
    Unanswered /\ \A q \in Ranks : \A i \in 1..Len(net[TableServer][q]) : First(q, i)

(* A client prepares, and signs what it has prepared.                      *)
LEMMA PreparedTids ==
    ASSUME TypeOK, [Next]_vars, NEW q \in Ranks, NEW t \in Tids(client'[q].prepared)
    PROVE  t \in Tids(client[q].prepared) \/ (Accepts(q) /\ t = Head(net[TableServer][q]).tid)
<1>1. client[q] \in Client
    BY DEF TypeOK
<1>2. PICK p \in client'[q].prepared : p.tid = t
    BY DEF Tids
<1>3. CASE p \in client[q].prepared
    BY <1>2, <1>3 DEF Tids
<1>4. CASE Asks(q)
    BY <1>1, <1>2, <1>3, <1>4 DEF Asks, Client
<1>5. CASE AckTaken(q) \/ Journals(q) \/ Loses(q)
    BY <1>1, <1>2, <1>3, <1>5 DEF AckTaken, Journals, Loses, Client
<1>6. CASE Restarts(q)
    BY <1>2, <1>6 DEF Restarts, NewClient
<1>7. CASE Readied(q)
    BY <1>1, <1>2, <1>3, <1>7 DEF Readied, Client
<1>8. CASE Commits(q)
    BY <1>2, <1>3, <1>8 DEF Commits
<1>9. CASE Accepts(q)
    BY <1>2, <1>3, <1>9 DEF Accepts
<1> QED
    BY <1>2, <1>3, <1>4, <1>5, <1>6, <1>7, <1>8, <1>9, ClientChange

LEMMA SpokenChange ==
    ASSUME TypeOK, [Next]_vars, NEW q \in Ranks, NEW t \in Spoken(q)'
    PROVE  t \in Spoken(q) \/ (Accepts(q) /\ t = Head(net[TableServer][q]).tid)
<1>1. Signs(q) \subseteq Tids(client[q].prepared)
    BY DEF Signs, Commits
<1>2. CASE t \in Tids(client'[q].prepared)
    BY <1>2, PreparedTids DEF Spoken
<1>3. CASE t \in Signed(q)'
    BY <1>1, <1>3, SignedChange DEF Spoken
<1> QED
    BY <1>2, <1>3 DEF Spoken

(* What an accepted AGREE is.                                              *)
LEMMA AcceptsHead ==
    ASSUME TypeOK, Epochs, NEW q \in Ranks, Accepts(q)
    PROVE  LET m == Head(net[TableServer][q])
           IN  /\ m = net[TableServer][q][1] /\ 1 \in 1..Len(net[TableServer][q])
               /\ m.op = "AGREE" /\ client[q].last # -1
               /\ Offer(q, m) \in Agreed(q)
<1> DEFINE m == Head(net[TableServer][q])
<1>1. Receives(TableServer, q, "AGREE") /\ m.reqid \in client[q].preparing
    BY DEF Accepts, HandleAgree
<1>2. /\ m = net[TableServer][q][1] /\ 1 \in 1..Len(net[TableServer][q])
      /\ m.op = "AGREE"
    BY <1>1, HeadSent, TableAssumption DEF Receives, Arrives, Epochs
<1>3. client[q].last # -1
    BY <1>1 DEF Epochs, Unasked
<1>4. Offer(q, m) \in Agreed(q)
    BY <1>2, <1>3 DEF Agreed, Harmless
<1> QED
    BY <1>2, <1>3, <1>4

(* What is on its way to the journal of the server.                        *)
LEMMA LoggedChange ==
    ASSUME TypeOK, Continues, Epochs, [Next]_vars, NEW p \in Logged'
    PROVE  p \in Logged \/ p.tid = table.version + 1
<1>1. CASE Rests
    BY <1>1, RestsStore
<1>2. ASSUME NEW type \in {"PREPARE", "COMMIT", "ROLLBACK", "SERVER_UPDATE"}, NEW tid \in Nat,
             NEW mds \in Ranks, NEW reqid \in Nat, Updates(type, tid, mds, reqid)
      PROVE  p \in Logged \/ p.tid = table.version + 1
    BY <1>2, UpdatesStore
<1>3. CASE Save
    BY <1>3, SaveStore
<1>4. CASE TableLogged(TableServer) /\ Head(log[TableServer]).type \notin ClientEntry
    BY <1>4, LoggedStore
<1>5. ASSUME NEW why, Dies(TableServer, why)
      PROVE  FALSE
    BY <1>5, DiesStore
<1> QED
    BY <1>1, <1>2, <1>3, <1>4, <1>5, StoreChange

(* What _prepare_logged answers is not on its way to the journal any more. *)
LEMMA LoggedOnce ==
    ASSUME TypeOK, Continues, Numbered, TableLogged(TableServer),
           Head(log[TableServer]).type = "PREPARE", NEW p \in Logged'
    PROVE  p.tid # Head(log[TableServer]).tid
<1> DEFINE L == log[TableServer]
<1>1. L # <<>> /\ Journalled(TableServer, Head(L))
    BY DEF TableLogged
<1>2. L \in Seq(Entry) /\ log \in [Ranks -> Seq(Entry)]
    BY LogType
<1>3. log'[TableServer] = Tail(L)
    BY <1>1, <1>2, TableAssumption DEF Journalled
<1>4. PICK y \in In(Tail(L)) : y.type = "PREPARE" /\ p.tid = y.tid
    BY <1>3 DEF Logged, Request
<1>5. PICK n \in 1..Len(Tail(L)) : y = Tail(L)[n]
    BY <1>4 DEF In
<1>6. n + 1 \in 1..Len(L) /\ y = L[n + 1] /\ Head(L) = L[1] /\ 1 \in 1..Len(L) /\ 1 < n + 1
    BY <1>1, <1>2, <1>5
<1>7. y \in In(L) /\ Head(L) \in In(L)
    BY <1>6 DEF In
<1>8. p.tid = y.version /\ Head(L).tid = Head(L).version
    BY <1>4, <1>7 DEF Numbered
<1>9. \A i \in 1..Len(L) : L[i].type = "PREPARE" => L[i].version > 0
    <2>1. L \in Seq(RoleEntry(TableServer))
        BY TableAssumption DEF Continues
    <2>2. \A i \in 1..Len(L) : L[i] \in RoleEntry(TableServer)
        BY <2>1
    <2> QED
        BY <2>2 DEF RoleEntry, ClientEntry
<1>10. L[1].version < L[n + 1].version
    <2>1. \A i, j \in 1..Len(L) : i < j /\ L[i].version > 0 /\ L[j].version > 0
                => L[i].version < L[j].version
        BY DEF Continues, Ordered
    <2>2. L[1].version > 0 /\ L[n + 1].version > 0
        BY <1>4, <1>6, <1>9
    <2> HIDE DEF L
    <2> QED
        BY <1>6, <2>1, <2>2
<1>11. L[1].version \in Nat /\ L[n + 1].version \in Nat
    BY <1>2, <1>6, Versions
<1> QED
    BY <1>6, <1>8, <1>10, <1>11

LEMMA NextUnanswered ==
    ASSUME TypeOK, Causal, Continues, Epochs, Unique, Unanswered, [Next]_vars
    PROVE  Unanswered'
<1> SUFFICES ASSUME NEW p \in Logged', NEW q \in Ranks,
                    p.tid \in Spoken(q)' \cup Tids(Agreed(q)')
             PROVE  FALSE
    BY DEF Unanswered
<1> DEFINE t == p.tid
           heard == Spoken(q) \cup Tids(Agreed(q))
<1>1. t \in heard \/ (\E x \in OnDisk : x.tid = t) \/ (\E x \in NewlyLogged : x.tid = t)
    <2>1. ASSUME t \in Spoken(q)'
          PROVE  t \in heard
        <3>1. CASE Accepts(q) /\ t = Head(net[TableServer][q]).tid
            <4> DEFINE x == Offer(q, Head(net[TableServer][q]))
            <4>1. x \in Agreed(q)
                BY <3>1, AcceptsHead
            <4>2. x.tid = t
                BY <3>1 DEF Offer
            <4> HIDE DEF x
            <4> QED
                BY <4>1, <4>2 DEF Tids
        <3> QED
            BY <2>1, <3>1, SpokenChange
    <2>2. ASSUME t \in Tids(Agreed(q)')
          PROVE  \/ t \in heard
                 \/ \E x \in OnDisk : x.tid = t
                 \/ \E x \in NewlyLogged : x.tid = t
        <3>1. PICK x \in Agreed(q)' : x.tid = t
            BY <2>2 DEF Tids
        <3>2. x \in Agreed(q) \cup OnDisk \cup NewlyLogged
            BY <3>1, AgreedChange
        <3> QED
            BY <3>1, <3>2 DEF Tids
    <2> QED
        BY <2>1, <2>2
<1>2. /\ Known \subseteq Pending /\ \A x \in Pending : x.tid \in Nat
      /\ \A x \in Known : x.tid <= table.version
      /\ \A s \in done : s <= disk.version
    BY KnownType DEF Pending, Unique, Bounded
<1>3. disk.version \in Nat /\ table.version \in Nat /\ disk.version <= table.version
    BY LogType DEF Continues, Ordered
<1>4. \A x \in OnDisk \cup NewlyLogged : x \in Known
    BY NewlyLoggedKnown DEF OnDisk, Known, Claims, Unique
<1>5. \A s \in heard : s \in Nat /\ s <= table.version
    <2>1. \A s \in Tids(client[q].prepared) : \E x \in Known : x.tid = s
        <3> SUFFICES ASSUME NEW y \in client[q].prepared
                     PROVE  \E x \in Known : x.tid = y.tid
            BY DEF Tids
        <3>1. Offer(q, y) \in Known /\ Offer(q, y).tid = y.tid
            BY DEF Known, Claims, PreparedBy, Offer
        <3> QED
            BY <3>1
    <2>2. \A s \in Tids(Agreed(q)) : \E x \in Known : x.tid = s
        BY DEF Tids, Known, Claims
    <2>3. \A s \in Signed(q) : s \in Nat /\ s <= disk.version
        BY <1>2 DEF Causal, Signed, TypeOK
    <2>4. \A s \in Signed(q) : s \in Nat /\ s <= table.version
        BY <1>3, <2>3
    <2> QED
        BY <1>2, <2>1, <2>2, <2>4 DEF Spoken
<1>6. CASE t = table.version + 1
    BY <1>1, <1>2, <1>3, <1>4, <1>5, <1>6
<1>7. CASE p \in Logged
    <2>1. t \notin heard
        BY <1>7 DEF Unanswered
    <2>2. ASSUME NEW x \in OnDisk
          PROVE  FALSE
        <3>1. ~Awake
            BY DEF OnDisk
        <3>2. \A i \in 1..Len(log[TableServer]) : log[TableServer][i].type # "PREPARE"
            BY <3>1 DEF Awake, Epochs, Idle, ClientEntry
        <3> QED
            BY <1>7, <3>2 DEF Logged, In
    <2>3. ASSUME NEW x \in NewlyLogged, x.tid = t
          PROVE  FALSE
        <3>1. /\ TableLogged(TableServer) /\ Head(log[TableServer]).type = "PREPARE"
              /\ x = Request(Head(log[TableServer]))
            BY DEF NewlyLogged
        <3>2. t # Head(log[TableServer]).tid
            BY <3>1, LoggedOnce DEF Unique
        <3> QED
            BY <2>3, <3>1, <3>2 DEF Request
    <2> QED
        BY <1>1, <2>1, <2>2, <2>3
<1> QED
    BY <1>6, <1>7, LoggedChange

(* An AGREE that was there.                                                *)
LEMMA FirstKept ==
    ASSUME TypeOK, Epochs, [Next]_vars, net' \in Channels, NEW q \in Ranks, NEW k \in {0, 1},
           Accepts(q) => k = 1,
           NEW i \in 1..Len(net'[TableServer][q]),
           \A n \in 1..i : /\ n + k <= Len(net[TableServer][q])
                           /\ net'[TableServer][q][n] = net[TableServer][q][n + k],
           First(q, i + k)
    PROVE  First(q, i)'
<1> DEFINE c == net[TableServer][q]
           d == net'[TableServer][q]
<1>1. c \in Seq(Message) /\ d \in Seq(Message)
    BY TableAssumption DEF TypeOK, Channels
<1>2. Len(c) \in Nat /\ Len(d) \in Nat
    BY <1>1, LenProperties
<1>3. /\ \A n \in 1..i : n + k <= Len(c) /\ d[n] = c[n + k]
      /\ i \in 1..Len(d)
    OBVIOUS
<1> SUFFICES ASSUME d[i].op = "AGREE", d[i].bl
             PROVE  /\ d[i].tid \notin Spoken(q)'
                    /\ \A j \in 1..(i - 1) :
                        d[j].op = "AGREE" /\ d[j].tid = d[i].tid => Harmless(q, j)'
    BY DEF First
<1>4. /\ c[i + k].tid \notin Spoken(q)
      /\ \A j \in 1..(i + k - 1) :
            c[j].op = "AGREE" /\ c[j].tid = c[i + k].tid => Harmless(q, j)
    <2>1. i \in 1..i
        BY <1>2
    <2>2. d[i] = c[i + k]
        BY <1>3, <2>1
    <2> QED
        BY <2>2 DEF First
<1>5. \A n : Harmless(q, n) => /\ client[q].last = -1
                               /\ \A j \in 1..(n - 1) : c[j].op # "SERVER_READY"
    BY DEF Harmless
<1>6. Accepts(q) => /\ Head(c) = c[1] /\ c[1].op = "AGREE" /\ client[q].last # -1
    BY AcceptsHead
<1>7. client'[q].last # -1 => client[q].last # -1 \/ c[1].op = "SERVER_READY"
    BY FirstReqidHead
<1>8. \A t \in Spoken(q)' : t \in Spoken(q) \/ (Accepts(q) /\ t = Head(c).tid)
    BY SpokenChange
<1>9. \A n : /\ client'[q].last = -1
             /\ \A j \in 1..(n - 1) : d[j].op # "SERVER_READY"
             => Harmless(q, n)'
    BY DEF Harmless
<1> HIDE DEF c, d
<1>10. i \in 1..i /\ d[i] = c[i + k] /\ i + k \in Nat
    BY <1>2, <1>3
<1>11. d[i].tid \notin Spoken(q)'
    <2> SUFFICES ASSUME Accepts(q), d[i].tid = Head(c).tid
                 PROVE  FALSE
        BY <1>4, <1>8, <1>10
    <2>1. 1 \in 1..(i + k - 1)
        BY <1>2, <1>3
    <2>2. Harmless(q, 1)
        BY <1>4, <1>6, <1>10, <2>1
    <2> QED
        BY <1>5, <1>6, <2>2
<1>12. ASSUME NEW j \in 1..(i - 1), d[j].op = "AGREE", d[j].tid = d[i].tid
       PROVE  Harmless(q, j)'
    <2>1. j \in 1..i /\ j + k \in 1..(i + k - 1)
        BY <1>2, <1>3
    <2>2. d[j] = c[j + k]
        BY <1>3, <2>1
    <2>3. Harmless(q, j + k)
        BY <1>4, <1>10, <1>12, <2>1, <2>2
    <2>4. client[q].last = -1 /\ \A n \in 1..(j + k - 1) : c[n].op # "SERVER_READY"
        BY <1>5, <2>3
    <2>5. client'[q].last = -1
        <3> SUFFICES ASSUME c[1].op = "SERVER_READY"
                     PROVE  FALSE
            BY <1>7, <2>4
        <3>1. j + k # 1
            BY <1>12, <2>2
        <3>2. 1 \in 1..(j + k - 1)
            BY <2>1, <3>1
        <3> QED
            BY <2>4, <3>2
    <2>6. ASSUME NEW n \in 1..(j - 1)
          PROVE  d[n].op # "SERVER_READY"
        <3>1. n \in 1..i /\ n + k \in 1..(j + k - 1)
            BY <1>3, <2>1
        <3> QED
            BY <1>3, <2>4, <3>1
    <2> QED
        BY <1>9, <2>5, <2>6
<1> QED
    BY <1>11, <1>12

(* A channel from which a message is taken at most, and which gets none    *)
(* that carries a reply.                                                   *)
LEMMA FirstGrows ==
    ASSUME TypeOK, Epochs, AnswersOnce, [Next]_vars, net' \in Channels, NEW q \in Ranks,
           NEW k \in {0, 1}, Accepts(q) => k = 1, NEW A,
           Grows(net[TableServer][q], net'[TableServer][q], k, A),
           NEW i \in 1..Len(net'[TableServer][q])
    PROVE  \/ First(q, i)'
           \/ net'[TableServer][q][i] \in A /\ i + k > Len(net[TableServer][q])
<1> DEFINE c == net[TableServer][q]
           d == net'[TableServer][q]
<1>1. c \in Seq(Message) /\ d \in Seq(Message)
    BY TableAssumption DEF TypeOK, Channels
<1>2. Len(c) \in Nat /\ Len(d) \in Nat
    BY <1>1, LenProperties
<1>3. \A n \in 1..Len(d) : \/ n + k <= Len(c) /\ d[n] = c[n + k]
                           \/ n + k > Len(c) /\ d[n] \in A
    BY DEF Grows
<1>4. i \in 1..Len(d)
    OBVIOUS
<1>5. CASE i + k <= Len(c)
    <2>1. \A n \in 1..i : n + k <= Len(c) /\ d[n] = c[n + k]
        <3> SUFFICES ASSUME NEW n \in 1..i PROVE n + k <= Len(c) /\ d[n] = c[n + k]
            OBVIOUS
        <3> HIDE DEF c, d
        <3>1. n \in 1..Len(d) /\ n + k <= Len(c)
            BY <1>2, <1>4, <1>5
        <3> QED
            BY <1>2, <1>3, <3>1
    <2>2. i + k \in 1..Len(c)
        BY <1>2, <1>5
    <2>3. First(q, i + k)
        BY <2>2 DEF AnswersOnce
    <2> QED
        BY <2>1, <2>3, FirstKept
<1>6. CASE i + k > Len(c)
    <2> HIDE DEF c, d
    <2>1. d[i] \in A
        BY <1>2, <1>3, <1>4, <1>6
    <2> QED
        BY <1>6, <2>1 DEF c, d
<1> QED
    BY <1>2, <1>5, <1>6

(* The AGREE that _prepare_logged sends.                                   *)
LEMMA FirstAnswer ==
    ASSUME TypeOK, Continues, Epochs, AnswersOnce, TableLogged(TableServer), NEW q \in Ranks,
           Head(log[TableServer]).type = "PREPARE", net' \in Channels, NEW A,
           Grows(net[TableServer][q], net'[TableServer][q], 0, A),
           NEW i \in 1..Len(net'[TableServer][q]), i > Len(net[TableServer][q]),
           net'[TableServer][q][i].tid = Head(log[TableServer]).tid,
           \A j \in 1..(i - 1) : j <= Len(net[TableServer][q])
    PROVE  First(q, i)'
<1> DEFINE c == net[TableServer][q]
           d == net'[TableServer][q]
           x == Head(log[TableServer])
<1>1. c \in Seq(Message) /\ d \in Seq(Message)
    BY TableAssumption DEF TypeOK, Channels
<1>2. Len(c) \in Nat /\ Len(d) \in Nat
    BY <1>1, LenProperties
<1>3. x \in In(log[TableServer]) /\ Request(x) \in Logged /\ Request(x).tid = x.tid
    <2>1. log[TableServer] \in Seq(Entry) /\ log[TableServer] # <<>>
        BY LogType DEF TableLogged
    <2>2. x = log[TableServer][1] /\ 1 \in 1..Len(log[TableServer])
        BY <2>1
    <2>3. x \in In(log[TableServer])
        BY <2>2 DEF In
    <2> QED
        BY <2>3 DEF Logged, Request
<1>4. x.tid \notin Spoken(q) \cup Tids(Agreed(q))
    BY <1>3 DEF AnswersOnce, Unanswered
<1>5. client' = client /\ updates'[q] \subseteq updates[q]
    BY JournalledUpdates, TableAssumption DEF TableLogged
<1>6. x.tid \notin Spoken(q)'
    BY <1>4, <1>5 DEF Spoken, Signed
<1>7. \A j \in 1..(i - 1) : j \in 1..Len(c) /\ d[j] = c[j]
    <2> SUFFICES ASSUME NEW j \in 1..(i - 1) PROVE j \in 1..Len(c) /\ d[j] = c[j]
        OBVIOUS
    <2>1. \A n \in 1..Len(d) : \/ n + 0 <= Len(c) /\ d[n] = c[n + 0]
                               \/ n + 0 > Len(c) /\ d[n] \in A
        BY DEF Grows
    <2>2. i \in 1..Len(d) /\ j <= Len(c)
        OBVIOUS
    <2> HIDE DEF c, d
    <2> QED
        BY <1>2, <2>1, <2>2
<1>8. ASSUME NEW j \in 1..(i - 1), c[j].op = "AGREE", c[j].tid = x.tid
      PROVE  Harmless(q, j)'
    <2>1. j \in 1..Len(c)
        BY <1>7
    <2>2. Harmless(q, j)
        <3> SUFFICES ASSUME ~Harmless(q, j) PROVE FALSE
            OBVIOUS
        <3>1. Offer(q, c[j]) \in Agreed(q) /\ Offer(q, c[j]).tid = x.tid
            BY <1>8, <2>1 DEF Agreed, Offer
        <3>2. x.tid \in Tids(Agreed(q))
            BY <3>1 DEF Tids
        <3> QED
            BY <1>4, <3>2
    <2>3. \A n \in 1..(j - 1) : n \in 1..(i - 1)
        BY <1>2
    <2> QED
        BY <1>5, <1>7, <2>2, <2>3 DEF Harmless
<1> SUFFICES ASSUME d[i].op = "AGREE", d[i].bl
             PROVE  /\ d[i].tid \notin Spoken(q)'
                    /\ \A j \in 1..(i - 1) :
                        d[j].op = "AGREE" /\ d[j].tid = d[i].tid => Harmless(q, j)'
    BY DEF First
<1> QED
    BY <1>6, <1>7, <1>8

(* It is one message.                                                      *)
LEMMA AgreeOne ==
    ASSUME TypeOK, TableLogged(TableServer), Head(log[TableServer]).type = "PREPARE",
           NEW q \in Ranks
    PROVE  Len(net'[TableServer][q]) <= Len(net[TableServer][q]) + 1
<1> DEFINE x == Head(log[TableServer])
           e == epoch[TableServer]
           m == Msg("AGREE", x.reqid, x.tid, TRUE, e)
<1>1. net' = Send(net, TableServer, e, x.mds, <<m>>)
    BY DEF TableLogged
<1>2. net \in [Ranks -> [Ranks -> Seq(Message)]]
    BY DEF TypeOK, Channels
<1>3. net[TableServer][q] \in Seq(Message)
    BY <1>2, TableAssumption
<1> HIDE DEF m, x, e
<1>4. \/ net'[TableServer][q] = net[TableServer][q]
      \/ net'[TableServer][q] = net[TableServer][q] \o <<m>>
    BY <1>1, <1>2, TableAssumption DEF Send
<1>5. Len(net[TableServer][q] \o <<m>>) = Len(net[TableServer][q]) + 1
    <2>1. Len(<<m>>) = 1
        OBVIOUS
    <2>2. <<m>> \in Seq({m})
        BY OneMessage
    <2>3. net[TableServer][q] \in Seq(Message \cup {m}) /\ <<m>> \in Seq(Message \cup {m})
        BY <1>3, <2>2, SeqMono
    <2> QED
        BY <2>1, <2>3, ConcatProperties
<1>6. Len(net[TableServer][q]) \in Nat
    BY <1>3, LenProperties
<1> QED
    BY <1>4, <1>5, <1>6

LEMMA NextAnswersOnce ==
    TypeOK /\ Causal /\ Continues /\ Epochs /\ Unique /\ AnswersOnce /\ [Next]_vars
    => AnswersOnce'
<1> SUFFICES ASSUME TypeOK, Causal, Continues, Epochs, Unique, AnswersOnce, [Next]_vars
             PROVE  AnswersOnce'
    OBVIOUS
<1>1. Unanswered'
    BY NextUnanswered DEF AnswersOnce
<1> SUFFICES ASSUME NEW q \in Ranks, NEW i \in 1..Len(net'[TableServer][q])
             PROVE  First(q, i)'
    BY <1>1 DEF AnswersOnce
<1> DEFINE c == net[TableServer][q]
           d == net'[TableServer][q]
<1>2. net' \in Channels
    BY NextType DEF TypeOK
<1>3. c \in Seq(Message) /\ d \in Seq(Message)
    BY <1>2, TableAssumption DEF TypeOK, Channels
<1>4. Len(c) \in Nat /\ Len(d) \in Nat
    BY <1>3, LenProperties
<1>5. d[i] \notin {m \in Message : m.op = "AGREE" /\ m.bl} => First(q, i)'
    BY <1>3 DEF First
<1>6. ASSUME NEW T, Calm(T), Accepts(q) => <<TableServer, q>> \in T
      PROVE  First(q, i)'
    <2>1. PICK r \in Ranks, p \in Ranks : \E A \in SUBSET (Plain \cap Sendable(r, p)) :
                Flow(T, r, p, A)
        BY <1>6 DEF Calm, Moves
    <2>2. PICK A \in SUBSET (Plain \cap Sendable(r, p)) : Flow(T, r, p, A)
        BY <2>1
    <2> DEFINE k == IF <<TableServer, q>> \in T THEN 1 ELSE 0
               B == Only(TableServer, q, r, p, A)
    <2>3. k \in {0, 1} /\ Grows(c, d, k, B) /\ (Accepts(q) => k = 1)
        BY <1>6, <2>2, TableAssumption DEF Flow
    <2>4. \A m \in B : m.op # "AGREE"
        BY <2>2 DEF Only, Plain
    <2> HIDE DEF k, B
    <2>5. First(q, i)' \/ d[i] \in B
        BY <1>2, <2>3, FirstGrows
    <2> QED
        BY <1>5, <2>4, <2>5
<1>7. ASSUME NEW r \in Ranks, NEW why, Dies(r, why)
      PROVE  First(q, i)'
    <2>1. CASE q = r
        <3>1. d = <<>>
            BY <1>7, <2>1, TableAssumption DEF Dies, TypeOK, Channels
        <3> QED
            BY <3>1
    <2>2. CASE q # r
        <3>1. d = c /\ client'[q] = client[q] /\ updates' = updates
            BY <1>7, <2>2, TableAssumption DEF Dies, TypeOK, Channels
        <3>2. First(q, i)
            BY <3>1 DEF AnswersOnce
        <3> QED
            BY <3>1, <3>2 DEF First, Spoken, Signed, Harmless
    <2> QED
        BY <2>1, <2>2
<1>8. CASE Accepts(q)
    <2>1. Calm({<<TableServer, q>>}) \/ \E why : Dies(q, why)
        BY <1>8, HandleAgreeMoves DEF Accepts
    <2> QED
        BY <1>6, <1>7, <2>1
<1>9. CASE ~Accepts(q)
    <2>1. ASSUME NEW r \in Ranks, TableLogged(r), Head(log[r]).type = "PREPARE"
          PROVE  First(q, i)'
        <3> DEFINE x == Head(log[r])
                   A == {AgreeOf(x)} \cap Sendable(TableServer, x.mds)
                   B == Only(TableServer, q, TableServer, x.mds, A)
        <3>1. Flow({}, TableServer, x.mds, A) /\ r = TableServer
            BY <2>1, AgreeFlow
        <3>2. Grows(c, d, 0, B)
            BY <3>1, TableAssumption DEF Flow
        <3>3. \A m \in B : m.tid = x.tid
            BY DEF Only, AgreeOf
        <3>4. Len(d) <= Len(c) + 1
            BY <2>1, <3>1, AgreeOne
        <3> HIDE DEF B, A
        <3>5. First(q, i)' \/ (d[i] \in B /\ i + 0 > Len(c))
            BY <1>2, <1>9, <3>2, FirstGrows
        <3>6. ASSUME d[i] \in B, i + 0 > Len(c)
              PROVE  First(q, i)'
            <4>1. d[i].tid = x.tid /\ i \in 1..Len(d)
                BY <3>3, <3>6
            <4>2. i > Len(c) /\ \A j \in 1..(i - 1) : j <= Len(c)
                <5> HIDE DEF c, d
                <5> QED
                    BY <1>4, <3>4, <3>6, <4>1
            <4> QED
                BY <1>2, <2>1, <3>1, <3>2, <4>1, <4>2, FirstAnswer
        <3> QED
            BY <3>5, <3>6
    <2>2. ASSUME NEW r \in Ranks, Takeover(r) \/ MonActive(r)
          PROVE  First(q, i)'
        <3>1. net' = net /\ client' = client /\ updates' = updates
            BY <2>2 DEF Takeover, MonActive
        <3>2. First(q, i)
            BY <3>1 DEF AnswersOnce
        <3> QED
            BY <3>1, <3>2 DEF First, Spoken, Signed, Harmless
    <2>3. ASSUME NEW r \in Ranks, HandleMdsMap(r)
          PROVE  First(q, i)'
        <3>1. CASE d = c
            <4>1. Grows(c, d, 0, {})
                BY <1>3, <3>1, GrowsSame
            <4>2. \E A : Grows(c, d, 0, A) /\ \A m : m \notin A
                BY <4>1
            <4>3. PICK A : Grows(c, d, 0, A) /\ \A m : m \notin A
                BY <4>2
            <4>4. First(q, i)' \/ d[i] \in A
                BY <1>2, <1>9, <4>3, FirstGrows
            <4> QED
                BY <4>3, <4>4
        <3>2. CASE Welcomed(q)
            <4> DEFINE W == Welcome(q, epoch[TableServer] + 1)
            <4>1. Grows(c, d, 0, W)
                BY <3>2 DEF Welcomed
            <4>2. \A m \in W : m.op = "AGREE" => ~m.bl
                BY DEF Welcome
            <4> HIDE DEF W
            <4>3. First(q, i)' \/ d[i] \in W
                BY <1>2, <1>9, <4>1, FirstGrows
            <4> QED
                BY <1>5, <4>2, <4>3
        <3> QED
            BY <2>3, <3>1, <3>2, MapFlow, TableAssumption
    <2> QED
        BY <1>6, <1>7, <1>9, <2>1, <2>2, <2>3, NetSteps
<1> QED
    BY <1>8, <1>9

-----------------------------------------------------------------------------
(* What mksnap journals is prepared until it is committed: a request that  *)
(* is to be retried with its reply has its tid prepared and is not in the  *)
(* journal, an EUpdate in the journal has its tid prepared and is the only *)
(* one of it.                                                              *)
Noted(L, t) == \E i \in 1..Len(L) : L[i].type = "EUpdate" /\ L[i].tid = t
Retries(c, L) ==
    /\ \A p \in c.retry : p.bl => p.tid \in Tids(c.prepared) /\ ~Noted(L, p.tid)
    /\ \A i \in 1..Len(L) : L[i].type = "EUpdate" =>
            /\ L[i].tid \in Tids(c.prepared)
            /\ \A j \in 1..Len(L) :
                    L[j].type = "EUpdate" /\ L[j].tid = L[i].tid => i = j
AllRetries == \A q \in Ranks : Retries(client[q], log[q])

(* The journal gets an entry that is no EUpdate, or loses one.             *)
LEMMA RetriesAppend ==
    ASSUME NEW c, NEW L \in Seq(Entry), Retries(c, L), NEW x \in Entry, x.type # "EUpdate"
    PROVE  Retries(c, Append(L, x))
<1> DEFINE N == Append(L, x)
<1>1. Len(N) = Len(L) + 1 /\ Len(L) \in Nat
    OBVIOUS
<1>2. \A i \in 1..Len(L) : N[i] = L[i]
    OBVIOUS
<1>3. N[Len(L) + 1] = x
    OBVIOUS
<1> HIDE DEF N
<1>4. \A i \in 1..Len(N) : N[i].type = "EUpdate" => i \in 1..Len(L) /\ N[i] = L[i]
    BY <1>1, <1>2, <1>3
<1>5. \A t : Noted(N, t) => Noted(L, t)
    BY <1>4 DEF Noted
<1> QED
    BY <1>4, <1>5 DEF Retries, N

LEMMA RetriesTail ==
    ASSUME NEW c, NEW L \in Seq(Entry), L # <<>>, Retries(c, L)
    PROVE  Retries(c, Tail(L))
<1> DEFINE N == Tail(L)
<1>1. Len(N) = Len(L) - 1 /\ Len(L) \in Nat /\ Len(N) \in Nat
    OBVIOUS
<1>2. \A i \in 1..Len(N) : N[i] = L[i + 1] /\ i + 1 \in 1..Len(L)
    OBVIOUS
<1> HIDE DEF N
<1>3. \A t : Noted(N, t) => Noted(L, t)
    BY <1>2 DEF Noted
<1>4. \A p \in c.retry : p.bl => p.tid \in Tids(c.prepared) /\ ~Noted(N, p.tid)
    BY <1>3 DEF Retries
<1>5. ASSUME NEW i \in 1..Len(N), N[i].type = "EUpdate"
      PROVE  /\ N[i].tid \in Tids(c.prepared)
             /\ \A j \in 1..Len(N) : N[j].type = "EUpdate" /\ N[j].tid = N[i].tid => i = j
    <2>1. L[i + 1].type = "EUpdate" /\ i + 1 \in 1..Len(L) /\ N[i] = L[i + 1]
        BY <1>2, <1>5
    <2>2. N[i].tid \in Tids(c.prepared)
        BY <2>1 DEF Retries
    <2>3. ASSUME NEW j \in 1..Len(N), N[j].type = "EUpdate", N[j].tid = N[i].tid
          PROVE  i = j
        <3>1. L[j + 1].type = "EUpdate" /\ j + 1 \in 1..Len(L) /\ L[j + 1].tid = L[i + 1].tid
            BY <1>2, <2>1, <2>3
        <3>2. i + 1 = j + 1
            BY <2>1, <3>1 DEF Retries
        <3> QED
            BY <1>1, <3>2
    <2> QED
        BY <2>2, <2>3
<1> QED
    BY <1>4, <1>5 DEF Retries, N

(* mksnap journals what it was given a tid for.                            *)
LEMMA RetriesJournals ==
    ASSUME NEW c \in Client, NEW L \in Seq(Entry), Retries(c, L), NEW p \in c.retry, p.bl,
           NEW x \in Entry, x.type = "EUpdate", x.tid = p.tid,
           NEW d \in Client, d.prepared = c.prepared, d.retry = c.retry \ {p}
    PROVE  Retries(d, Append(L, x))
<1> DEFINE N == Append(L, x)
<1>1. Len(N) = Len(L) + 1 /\ Len(L) \in Nat
    OBVIOUS
<1>2. \A i \in 1..Len(L) : N[i] = L[i]
    OBVIOUS
<1>3. N[Len(L) + 1] = x
    OBVIOUS
<1> HIDE DEF N
<1>4. p.tid \in Tids(c.prepared) /\ ~Noted(L, p.tid)
    BY DEF Retries
<1>5. \A i \in 1..Len(N) : i \in 1..Len(L) \/ i = Len(L) + 1
    BY <1>1
<1>6. ASSUME NEW y \in d.retry, y.bl
      PROVE  y.tid \in Tids(d.prepared) /\ ~Noted(N, y.tid)
    <2>1. y \in c.retry /\ y # p
        OBVIOUS
    <2>2. y \in [tid : Nat, bl : BOOLEAN] /\ p \in [tid : Nat, bl : BOOLEAN]
        BY <2>1 DEF Client
    <2>3. y.bl = p.bl
        BY <1>6, <2>2
    <2>4. y.tid # p.tid
        <3>1. y = [tid |-> y.tid, bl |-> y.bl]
            BY <2>2, Zenon
        <3>2. p = [tid |-> p.tid, bl |-> p.bl]
            BY <2>2, Zenon
        <3> QED
            BY <2>1, <2>3, <3>1, <3>2, Zenon
    <2>5. y.tid \in Tids(c.prepared) /\ ~Noted(L, y.tid)
        BY <1>6, <2>1 DEF Retries
    <2> QED
        BY <1>2, <1>3, <1>5, <2>4, <2>5 DEF Noted
<1>7. ASSUME NEW i \in 1..Len(N), N[i].type = "EUpdate"
      PROVE  /\ N[i].tid \in Tids(d.prepared)
             /\ \A j \in 1..Len(N) : N[j].type = "EUpdate" /\ N[j].tid = N[i].tid => i = j
    <2>1. N[i].tid \in Tids(d.prepared)
        BY <1>2, <1>3, <1>4, <1>5, <1>7 DEF Retries
    <2>2. ASSUME NEW j \in 1..Len(N), N[j].type = "EUpdate", N[j].tid = N[i].tid
          PROVE  i = j
        <3>1. CASE i \in 1..Len(L) /\ j \in 1..Len(L)
            BY <1>2, <1>7, <2>2, <3>1 DEF Retries
        <3>2. CASE i = Len(L) + 1 /\ j \in 1..Len(L)
            BY <1>2, <1>3, <1>4, <2>2, <3>2 DEF Noted
        <3>3. CASE i \in 1..Len(L) /\ j = Len(L) + 1
            BY <1>2, <1>3, <1>4, <1>7, <2>2, <3>3 DEF Noted
        <3> QED
            BY <1>5, <3>1, <3>2, <3>3
    <2> QED
        BY <2>1, <2>2
<1> QED
    BY <1>6, <1>7 DEF Retries, N

(* The update is safe: it is not prepared any more, nor in the journal.    *)
LEMMA RetriesCommits ==
    ASSUME NEW c, NEW L \in Seq(Entry), Retries(c, L), L # <<>>, Head(L).type = "EUpdate",
           NEW d, d.retry = c.retry, d.prepared = {p \in c.prepared : p.tid # Head(L).tid}
    PROVE  Retries(d, Tail(L))
<1> DEFINE N == Tail(L)
           t == Head(L).tid
<1>1. Len(N) = Len(L) - 1 /\ Len(L) \in Nat /\ Len(N) \in Nat
    OBVIOUS
<1>2. \A i \in 1..Len(N) : N[i] = L[i + 1] /\ i + 1 \in 1..Len(L) /\ i + 1 # 1
    OBVIOUS
<1>3. Head(L) = L[1] /\ 1 \in 1..Len(L)
    OBVIOUS
<1>4. Noted(L, t)
    BY <1>3 DEF Noted
<1>5. \A s \in Tids(c.prepared) : s # t => s \in Tids(d.prepared)
    BY DEF Tids
<1>6. Retries(c, N)
    BY RetriesTail
<1>7. \A p \in c.retry : p.bl => p.tid # t
    BY <1>4 DEF Retries
<1>8. \A i \in 1..Len(N) : N[i].type = "EUpdate" => N[i].tid # t
    <2> SUFFICES ASSUME NEW i \in 1..Len(N), N[i].type = "EUpdate", N[i].tid = t
                 PROVE  FALSE
        OBVIOUS
    <2>1. L[i + 1].type = "EUpdate" /\ L[i + 1].tid = t /\ i + 1 \in 1..Len(L)
        BY <1>2
    <2>2. 1 = i + 1
        BY <1>3, <2>1 DEF Retries
    <2> QED
        BY <1>2, <2>2
<1> HIDE DEF N, t
<1> QED
    BY <1>5, <1>6, <1>7, <1>8 DEF Retries, N

(* An AGREE is accepted.  If it carries the reply its tid is new.          *)
LEMMA RetriesAccepts ==
    ASSUME NEW c \in Client, NEW L \in Seq(Entry), Retries(c, L), NEW r, NEW w,
           w.tid = r.tid, w.bl => r.tid \notin Tids(c.prepared), NEW d,
           d.prepared = {p \in c.prepared : p.tid # r.tid} \cup {r},
           d.retry = c.retry \cup {w}
    PROVE  Retries(d, L)
<1>1. r.tid \in Tids(d.prepared)
    BY DEF Tids
<1>2. \A s \in Tids(c.prepared) : s \in Tids(d.prepared)
    BY <1>1 DEF Tids
<1>3. w.bl => ~Noted(L, r.tid)
    BY DEF Retries, Noted
<1>4. ASSUME NEW p \in d.retry, p.bl
      PROVE  p.tid \in Tids(d.prepared) /\ ~Noted(L, p.tid)
    <2>1. CASE p \in c.retry
        BY <1>2, <1>4, <2>1 DEF Retries
    <2>2. CASE p = w
        BY <1>1, <1>3, <1>4, <2>2
    <2> QED
        BY <2>1, <2>2
<1> QED
    BY <1>2, <1>4 DEF Retries

(* What a step does to the journal of q.                                   *)
LEMMA LogChange ==
    ASSUME TypeOK, [Next]_vars, NEW q \in Ranks
    PROVE  \/ log'[q] = log[q]
           \/ \E x \in Entry : /\ x.type # "EUpdate" /\ log'[q] = Append(log[q], x)
                               /\ client'[q].prepared = client[q].prepared
                               /\ client'[q].retry = client[q].retry
           \/ log[q] # <<>> /\ log'[q] = Tail(log[q]) /\ client'[q] = client[q]
           \/ Restarts(q) \/ Journals(q) \/ Commits(q)
<1> DEFINE Longer == \E x \in Entry :
                        /\ x.type # "EUpdate" /\ log'[q] = Append(log[q], x)
                        /\ client'[q].prepared = client[q].prepared
                        /\ client'[q].retry = client[q].retry
<1>1. log \in [Ranks -> Seq(Entry)] /\ client \in [Ranks -> Client]
    BY DEF TypeOK
<1>3. ASSUME NEW r \in Ranks, NEW why, Dies(r, why)
      PROVE  log'[q] = log[q] \/ Restarts(q)
    BY <1>1, <1>3 DEF Dies, Restarts
<1>4. ASSUME NEW type \in {"PREPARE", "COMMIT", "ROLLBACK", "SERVER_UPDATE", "ETableClient"},
             NEW r \in Ranks, NEW tid \in Nat, NEW mds \in Ranks, NEW reqid \in Nat,
             NEW version \in Nat, Submit(r, type, tid, mds, reqid, version),
             client'[q].prepared = client[q].prepared, client'[q].retry = client[q].retry
      PROVE  log'[q] = log[q] \/ Longer
    <2> DEFINE x == [type |-> type, tid |-> tid, mds |-> mds, reqid |-> reqid,
                     version |-> version]
    <2>1. x \in Entry /\ x.type # "EUpdate" /\ log' = [log EXCEPT ![r] = Append(@, x)]
        BY <1>4 DEF Entry, Submit
    <2> HIDE DEF x
    <2>2. log'[q] = log[q] \/ log'[q] = Append(log[q], x)
        BY <1>1, <2>1
    <2> QED
        BY <1>4, <2>1, <2>2
<1>5. ASSUME NEW type \in {"PREPARE", "COMMIT", "ROLLBACK", "SERVER_UPDATE"}, NEW tid \in Nat,
             NEW mds \in Ranks, NEW reqid \in Nat, Update(type, tid, mds, reqid), client' = client
      PROVE  log'[q] = log[q] \/ Longer
    <2>1. table.version + 1 \in Nat
        BY LogType
    <2> QED
        BY <1>4, <1>5, <2>1, TableAssumption DEF Update
<1>6. ASSUME NEW r \in Ranks, HandlePrepare(r) \/ HandleCommit(r) \/ HandleRollback(r)
      PROVE  log'[q] = log[q] \/ Longer \/ Restarts(q)
    <2> DEFINE m == Head(net[r][TableServer])
    <2>1. Arrives(r, TableServer)
        BY <1>6 DEF HandlePrepare, HandleCommit, HandleRollback, Receives
    <2>2. m \in Message
        BY <2>1, ArrivesType, TableAssumption
    <2>3. m.tid \in Nat /\ m.reqid \in Nat /\ table.version + 1 \in Nat
        BY <2>2, LogType DEF Message
    <2>4. \/ client' = client /\ Update("PREPARE", table.version + 1, r, m.reqid)
          \/ client' = client /\ Update("COMMIT", m.tid, r, 0)
          \/ client' = client /\ Update("ROLLBACK", m.tid, r, 0)
          \/ log' = log
          \/ \E why : Dies(TableServer, why)
        BY <1>6 DEF HandlePrepare, HandleCommit, HandleRollback
    <2> QED
        BY <1>3, <1>5, <2>3, <2>4, TableAssumption
<1>7. ASSUME ServerUpdate
      PROVE  log'[q] = log[q] \/ Longer
    BY <1>5, <1>7, TableAssumption DEF ServerUpdate
<1>8. ASSUME NEW r \in Ranks, HandleAck(r)
      PROVE  log'[q] = log[q] \/ Longer
    <2> DEFINE t == Head(net[TableServer][r]).tid
    <2>1. /\ \/ log' = log
             \/ Submit(r, "ETableClient", t, r, 0, 0)
          /\ client' = client \/ client' = [client EXCEPT ![r].commits = @ \ {t}]
        BY <1>8 DEF HandleAck
    <2>2. Head(net[TableServer][r]) \in Message
        BY <1>8, ArrivesType, TableAssumption DEF HandleAck, Receives
    <2>3. t \in Nat
        BY <2>2 DEF Message
    <2> HIDE DEF t
    <2>4. client'[q].prepared = client[q].prepared /\ client'[q].retry = client[q].retry
        BY <1>1, <2>1 DEF Client
    <2> QED
        BY <1>4, <2>1, <2>3, <2>4
<1>9. ASSUME NEW r \in Ranks, HandleAgree(r) \/ HandleServerReady(r)
      PROVE  log' = log \/ \E why : Dies(r, why)
    BY <1>9 DEF HandleAgree, HandleServerReady
<1>10. ASSUME NEW r \in Ranks, Mksnap(r)
       PROVE  log'[q] = log[q] \/ Journals(q) \/ Restarts(q)
    <2>1. PICK p \in client[r].retry :
            \/ /\ p.bl
               /\ client' = [client EXCEPT ![r].retry = @ \ {p}]
               /\ Submit(r, "EUpdate", p.tid, r, 0, 0)
            \/ Dies(r, {"mksnap: decode snapid"})
        BY <1>10 DEF Mksnap
    <2>2. CASE Dies(r, {"mksnap: decode snapid"})
        BY <1>3, <2>2
    <2>3. CASE q = r /\ ~Dies(r, {"mksnap: decode snapid"})
        BY <1>1, <1>10, <2>1, <2>3 DEF Journals
    <2>4. CASE q # r /\ ~Dies(r, {"mksnap: decode snapid"})
        BY <1>1, <2>1, <2>4 DEF Submit
    <2> QED
        BY <2>2, <2>3, <2>4
<1>11. ASSUME NEW r \in Ranks, TableLogged(r)
       PROVE  log'[q] = log[q] \/
                (log[q] # <<>> /\ log'[q] = Tail(log[q]) /\ client'[q] = client[q])
    <2>1. log[r] # <<>> /\ client' = client /\ log' = [log EXCEPT ![r] = Tail(@)]
        BY <1>11 DEF TableLogged, Journalled
    <2> QED
        BY <1>1, <2>1
<1>12. ASSUME NEW r \in Ranks, Commit(r)
       PROVE  log'[q] = log[q] \/ Restarts(q) \/ Commits(q)
    <2>1. CASE Commits(r)
        <3>1. log' = [log EXCEPT ![r] = Tail(@)]
            BY <2>1 DEF Commits, Journalled
        <3> QED
            BY <1>1, <2>1, <3>1
    <2> QED
        BY <1>3, <1>12, <2>1, CommitsJournalled
<1>13. ASSUME NEW r \in Ranks, Fail(r)
       PROVE  \E why : Dies(r, why)
    BY <1>13 DEF Fail
<1>14. ASSUME (\E x, y \in Ranks : DropStale(x, y)) \/ Save \/ UNCHANGED vars
       PROVE  log' = log
    BY <1>14 DEF DropStale, Save, vars
<1>15. ASSUME NEW r \in Ranks, Prepare(r) \/ Takeover(r) \/ MonActive(r) \/ HandleMdsMap(r)
                             \/ Expire(r)
       PROVE  log' = log
    BY <1>15 DEF Prepare, Takeover, MonActive, HandleMdsMap, Expire
<1> HIDE DEF Longer
<1> DEFINE Goal == \/ log'[q] = log[q] \/ Longer
                   \/ (log[q] # <<>> /\ log'[q] = Tail(log[q]) /\ client'[q] = client[q])
                   \/ Restarts(q) \/ Journals(q) \/ Commits(q)
<1>16. ASSUME NEW r \in Ranks, HandlePrepare(r) \/ HandleCommit(r) \/ HandleRollback(r)
                                \/ HandleAck(r)
       PROVE  Goal
    BY <1>6, <1>8, <1>16
<1>17. ASSUME NEW r \in Ranks, HandleAgree(r) \/ HandleServerReady(r) \/ Fail(r)
       PROVE  Goal
    <2>1. log' = log \/ \E why : Dies(r, why)
        BY <1>9, <1>13, <1>17
    <2> QED
        BY <1>3, <2>1
<1>18. ASSUME NEW r \in Ranks, Mksnap(r) \/ TableLogged(r) \/ Commit(r)
       PROVE  Goal
    BY <1>10, <1>11, <1>12, <1>18
<1>19. ASSUME ServerUpdate
       PROVE  Goal
    BY <1>7, <1>19
<1>20. Goal
    <2>1. CASE log' = log
        BY <2>1
    <2> HIDE DEF Goal
    <2>2. CASE Progress
        BY <1>14, <1>15, <1>16, <1>17, <1>18, <2>1, <2>2 DEF Progress
    <2> QED
        BY <1>14, <1>15, <1>17, <1>19, <2>1, <2>2 DEF Next
<1> QED
    BY <1>20 DEF Longer

LEMMA NextRetries ==
    TypeOK /\ Epochs /\ AnswersOnce /\ AllRetries /\ [Next]_vars => AllRetries'
<1> SUFFICES ASSUME TypeOK, Epochs, AnswersOnce, AllRetries, [Next]_vars, NEW q \in Ranks
             PROVE  Retries(client'[q], log'[q])
    BY DEF AllRetries
<1>1. log \in [Ranks -> Seq(Entry)] /\ log[q] \in Seq(Entry) /\ client[q] \in Client
    BY DEF TypeOK
<1>2. Retries(client[q], log[q])
    BY DEF AllRetries
<1>3. ASSUME NEW d, d.prepared = client[q].prepared, d.retry = client[q].retry, NEW L,
             Retries(client[q], L)
      PROVE  Retries(d, L)
    BY <1>3 DEF Retries
<1>4. CASE Journals(q)
    <2>1. PICK p \in client[q].retry :
            /\ p.bl /\ Submit(q, "EUpdate", p.tid, q, 0, 0)
            /\ client'[q] = [client[q] EXCEPT !.retry = @ \ {p}]
        BY <1>4 DEF Journals
    <2> DEFINE x == [type |-> "EUpdate", tid |-> p.tid, mds |-> q, reqid |-> 0, version |-> 0]
    <2>2. p.tid \in Nat
        BY <1>1 DEF Client
    <2>3. x \in Entry /\ x.type = "EUpdate" /\ x.tid = p.tid
          /\ log' = [log EXCEPT ![q] = Append(@, x)]
        BY <2>1, <2>2 DEF Entry, Submit
    <2> HIDE DEF x
    <2>4. log'[q] = Append(log[q], x)
        BY <1>1, <2>3
    <2>5. client'[q] \in Client /\ client'[q].prepared = client[q].prepared
          /\ client'[q].retry = client[q].retry \ {p}
        BY <1>1, <2>1 DEF Client
    <2> QED
        BY <1>1, <1>2, <2>1, <2>3, <2>4, <2>5, RetriesJournals
<1>5. CASE Commits(q)
    <2>1. /\ log[q] # <<>> /\ Head(log[q]).type = "EUpdate"
          /\ log' = [log EXCEPT ![q] = Tail(@)]
          /\ client'[q].retry = client[q].retry
          /\ client'[q].prepared = {p \in client[q].prepared : p.tid # Head(log[q]).tid}
        BY <1>5 DEF Commits, Journalled
    <2>2. log'[q] = Tail(log[q])
        BY <1>1, <2>1
    <2> QED
        BY <1>1, <1>2, <2>1, <2>2, RetriesCommits
<1>6. CASE Restarts(q)
    <2>1. log'[q] = <<>> /\ client'[q].retry = {}
        BY <1>1, <1>6 DEF Restarts, Dies, NewClient
    <2> QED
        BY <2>1 DEF Retries
<1>7. CASE log'[q] = log[q]
    <2>1. CASE Asks(q)
        <3>1. client'[q].prepared = client[q].prepared /\ client'[q].retry = client[q].retry
            BY <1>1, <2>1 DEF Asks, Client
        <3> QED
            BY <1>2, <1>3, <1>7, <3>1
    <2>2. CASE AckTaken(q) \/ Loses(q)
        <3>1. client'[q].prepared = client[q].prepared /\ client'[q].retry = client[q].retry
            BY <1>1, <2>2 DEF AckTaken, Loses, Client
        <3> QED
            BY <1>2, <1>3, <1>7, <3>1
    <2>3. CASE Readied(q)
        <3>1. client'[q].prepared = client[q].prepared /\ client'[q].retry = client[q].retry
            BY <1>1, <2>3 DEF Readied, Client
        <3> QED
            BY <1>2, <1>3, <1>7, <3>1
    <2>4. CASE Accepts(q)
        <3> DEFINE m == Head(net[TableServer][q])
        <3>1. m = net[TableServer][q][1] /\ 1 \in 1..Len(net[TableServer][q]) /\ m.op = "AGREE"
            BY <2>4, AcceptsHead
        <3>2. m.bl \in BOOLEAN
            <4>1. net[TableServer][q] \in Seq(Message)
                BY TableAssumption DEF TypeOK, Channels
            <4>2. m \in Message
                BY <3>1, <4>1
            <4> QED
                BY <4>2 DEF Message
        <3>3. m.bl => m.tid \notin Tids(client[q].prepared)
            BY <3>1 DEF AnswersOnce, First, Spoken
        <3> DEFINE r == [tid |-> m.tid, reqid |-> m.reqid]
                   w == [tid |-> m.tid, bl |-> m.bl]
        <3>4. /\ client'[q].prepared = {p \in client[q].prepared : p.tid # r.tid} \cup {r}
              /\ client'[q].retry = client[q].retry \cup {w}
            BY <2>4 DEF Accepts
        <3>5. w.tid = r.tid /\ (w.bl => r.tid \notin Tids(client[q].prepared))
            <4> HIDE DEF m
            <4> QED
                BY <3>3, Zenon
        <3> HIDE DEF m, r, w
        <3> QED
            BY <1>1, <1>2, <1>7, <3>4, <3>5, RetriesAccepts
    <2> QED
        BY <1>2, <1>4, <1>5, <1>6, <1>7, <2>1, <2>2, <2>3, <2>4, ClientChange
<1>8. ASSUME NEW x \in Entry, x.type # "EUpdate", log'[q] = Append(log[q], x),
             client'[q].prepared = client[q].prepared, client'[q].retry = client[q].retry
      PROVE  Retries(client'[q], log'[q])
    BY <1>1, <1>2, <1>3, <1>8, RetriesAppend
<1>9. CASE log[q] # <<>> /\ log'[q] = Tail(log[q]) /\ client'[q] = client[q]
    BY <1>1, <1>2, <1>9, RetriesTail
<1> QED
    BY <1>4, <1>5, <1>6, <1>7, <1>8, <1>9, LogChange

-----------------------------------------------------------------------------
(* The assertions.                                                         *)

(* handle_commit: what is not pending was committed or rolled back.        *)
LEMMA CommitKnown ==
    ASSUME TypeOK, Causal, Continues, Unique, NEW r \in Ranks,
           Receives(r, TableServer, "COMMIT")
    PROVE  ~(Head(net[r][TableServer]).tid > table.version)
<1> DEFINE m == Head(net[r][TableServer])
<1>1. m \in Justified(done) /\ m.op = "COMMIT"
    BY ArrivesJustified, TableAssumption DEF Receives
<1>2. m.tid \in done
    BY <1>1 DEF Justified
<1>3. m.tid <= disk.version
    BY <1>2 DEF Unique, Bounded
<1>4. disk.version <= table.version
    BY DEF Continues, Ordered
<1>5. m.tid \in Nat
    BY <1>2 DEF TypeOK
<1> HIDE DEF m
<1>6. m.tid <= table.version
    BY <1>3, <1>4, <1>5, LogType
<1> QED
    BY <1>5, <1>6, LogType DEF m

(* handle_request on an AGREE: what is prepared is what was answered, and  *)
(* a client that is ready gets no answer for the second time.              *)
LEMMA AgreeExpected ==
    ASSUME TypeOK, Epochs, Unique, GreetedApart, AnswersOnce, NEW r \in Ranks,
           Receives(TableServer, r, "AGREE")
    PROVE  LET m == Head(net[TableServer][r])
               c == client[r]
           IN  /\ m.tid \in Tids(c.prepared) =>
                        [tid |-> m.tid, reqid |-> m.reqid] \in c.prepared
               /\ c.ready => m.tid \notin Tids(c.prepared) /\ m.tid \notin c.commits
<1> DEFINE m == Head(net[TableServer][r])
           c == client[r]
<1>1. /\ m = net[TableServer][r][1] /\ 1 \in 1..Len(net[TableServer][r])
      /\ m.op = "AGREE" /\ m.ep <= epoch[r]
    BY HeadSent, TableAssumption DEF Receives, Arrives, Epochs
<1>2. m.ep \in Nat /\ epoch[r] \in Nat
    BY <1>1, ServerSent, EpochType DEF Epochs
<1>3. ASSUME m.tid \in Tids(c.prepared)
      PROVE  [tid |-> m.tid, reqid |-> m.reqid] \in c.prepared
    <2>1. PICK p \in c.prepared : p.tid = m.tid
        BY <1>3 DEF Tids
    <2>2. c.last # -1
        BY <2>1 DEF Epochs, Unasked
    <2>3. Offer(r, m) \in Agreed(r)
        BY <1>1, <2>2 DEF Agreed, Harmless
    <2>4. Offer(r, p) \in Known /\ Offer(r, m) \in Known
        BY <2>1, <2>3 DEF Known, Claims, PreparedBy
    <2>5. Offer(r, p).tid = Offer(r, m).tid
        BY <2>1 DEF Offer
    <2>6. Offer(r, p) = Offer(r, m)
        BY <2>4, <2>5 DEF Unique, Single
    <2>7. p.reqid = m.reqid
        BY <2>6 DEF Offer
    <2>8. p \in [tid : Nat, reqid : Nat]
        BY <2>1 DEF TypeOK, Client
    <2> HIDE DEF m
    <2>9. p = [tid |-> m.tid, reqid |-> m.reqid]
        BY <2>1, <2>7, <2>8
    <2> QED
        BY <2>1, <2>9
<1>4. ASSUME c.ready, m.tid \in Tids(c.prepared) \/ m.tid \in c.commits
      PROVE  FALSE
    <2>1. CASE m.bl
        BY <1>1, <1>4, <2>1 DEF AnswersOnce, First, Spoken, Signed
    <2>2. CASE ~m.bl
        <3>1. Salute(m)
            BY <1>1, <2>2 DEF Salute
        <3>2. DownIn(mdsmap, epoch[r] + 1, m.ep)
            BY <1>1, <1>4, <3>1 DEF GreetedApart, Apart
        <3> QED
            BY <1>1, <1>2, <3>2 DEF DownIn
    <2> QED
        BY <2>1, <2>2
<1> QED
    BY <1>3, <1>4

(* handle_request on a SERVER_READY: the client does not know it.          *)
LEMMA ReadyExpected ==
    ASSUME TypeOK, Epochs, GreetedApart, NEW r \in Ranks,
           Receives(TableServer, r, "SERVER_READY")
    PROVE  ~client[r].ready
<1> DEFINE m == Head(net[TableServer][r])
<1>1. /\ m = net[TableServer][r][1] /\ 1 \in 1..Len(net[TableServer][r])
      /\ m.op = "SERVER_READY" /\ m.ep <= epoch[r]
    BY HeadSent, TableAssumption DEF Receives, Arrives, Epochs
<1>2. m.ep \in Nat /\ epoch[r] \in Nat
    BY <1>1, ServerSent, EpochType DEF Epochs
<1>3. Salute(m)
    BY <1>1 DEF Salute
<1>4. client[r].ready => DownIn(mdsmap, epoch[r] + 1, m.ep)
    BY <1>1, <1>3 DEF GreetedApart, Apart
<1> QED
    BY <1>1, <1>2, <1>4 DEF DownIn

(* _mksnap_finish: the tid is prepared.                                    *)
LEMMA CommitExpected ==
    ASSUME TypeOK, AllRetries, NEW r \in Ranks, log[r] # <<>>, Head(log[r]).type = "EUpdate"
    PROVE  Head(log[r]).tid \in Tids(client[r].prepared)
<1>1. log[r] \in Seq(Entry)
    BY DEF TypeOK
<1>2. 1 \in 1..Len(log[r]) /\ Head(log[r]) = log[r][1]
    BY <1>1, HeadTailProperties, LenProperties, EmptySeq
<1> QED
    BY <1>2 DEF AllRetries, Retries

LEMMA NextAsserts ==
    ASSUME TypeOK, Causal, Continues, Epochs, Unique, GreetedApart, AnswersOnce, AllRetries,
           AssertsHold, [Next]_vars
    PROVE  AssertsHold'
<1> USE DEF AssertsHold
<1>1. ASSUME NEW r \in Ranks, HandleCommit(r)
      PROVE  AssertsHold'
    BY <1>1, CommitKnown DEF HandleCommit
<1>2. ASSUME NEW r \in Ranks, HandleRollback(r)
      PROVE  AssertsHold'
    BY <1>2 DEF HandleRollback, Dies
<1>3. ASSUME NEW r \in Ranks, HandleAgree(r)
      PROVE  AssertsHold'
    <2> DEFINE m == Head(net[TableServer][r])
               c == client[r]
    <2>1. /\ m.tid \in Tids(c.prepared) => [tid |-> m.tid, reqid |-> m.reqid] \in c.prepared
          /\ c.ready => m.tid \notin Tids(c.prepared) /\ m.tid \notin c.commits
        BY <1>3, AgreeExpected DEF HandleAgree
    <2>2. asserts' = asserts \/ Dies(r, {"agree: stray when ready"})
        BY <1>3, <2>1 DEF HandleAgree
    <2> QED
        BY <2>2 DEF Dies
<1>4. ASSUME NEW r \in Ranks, HandleServerReady(r)
      PROVE  AssertsHold'
    BY <1>4, ReadyExpected DEF HandleServerReady
<1>5. ASSUME NEW r \in Ranks, Mksnap(r)
      PROVE  AssertsHold'
    BY <1>5 DEF Mksnap, Dies
<1>6. ASSUME NEW r \in Ranks, Commit(r)
      PROVE  AssertsHold'
    BY <1>6, CommitExpected DEF Commit
<1>7. ASSUME NEW r \in Ranks, Fail(r)
      PROVE  AssertsHold'
    BY <1>7 DEF Fail, Dies
<1>8. ASSUME NEW r \in Ranks,
             \/ HandlePrepare(r) \/ HandleAck(r) \/ TableLogged(r) \/ Takeover(r)
             \/ MonActive(r) \/ HandleMdsMap(r) \/ Prepare(r) \/ Expire(r)
      PROVE  asserts' = asserts
    BY <1>8 DEF HandlePrepare, HandleAck, TableLogged, Takeover, MonActive, HandleMdsMap,
                Prepare, Expire
<1>9. ASSUME (\E x, y \in Ranks : DropStale(x, y)) \/ ServerUpdate \/ Save \/ UNCHANGED vars
      PROVE  asserts' = asserts
    BY <1>9 DEF DropStale, ServerUpdate, Save, vars
<1>10. CASE asserts' = asserts
    BY <1>10
<1> HIDE DEF AssertsHold
<1>11. CASE Progress
    BY <1>1, <1>2, <1>3, <1>4, <1>5, <1>6, <1>8, <1>9, <1>10, <1>11 DEF Progress
<1> QED
    BY <1>7, <1>8, <1>9, <1>10, <1>11 DEF Next

LEMMA InitAsserts == Init => GreetedApart /\ AnswersOnce /\ AllRetries /\ AssertsHold
<1> SUFFICES ASSUME Init PROVE GreetedApart /\ AnswersOnce /\ AllRetries /\ AssertsHold
    OBVIOUS
<1>1. \A q \in Ranks : /\ net[TableServer][q] = <<>> /\ log[q] = <<>>
                       /\ client[q].retry = {}
    BY TableAssumption DEF Init, NewClient
<1>2. In(log[TableServer]) = {}
    BY <1>1, TableAssumption DEF In
<1>3. GreetedApart /\ AnswersOnce
    BY <1>1, <1>2 DEF GreetedApart, AnswersOnce, Unanswered, Logged
<1>4. AllRetries
    BY <1>1 DEF AllRetries, Retries
<1> QED
    BY <1>3, <1>4 DEF Init, AssertsHold

LEMMA AlwaysExpected == Spec => [](GreetedApart /\ AnswersOnce /\ AllRetries /\ AssertsHold)
<1> DEFINE Inv == GreetedApart /\ AnswersOnce /\ AllRetries /\ AssertsHold
<1>1. TypeOK /\ Causal /\ Continues /\ (Epochs /\ Unique) /\ Inv /\ [Next]_vars => Inv'
    BY NextApart, NextAnswersOnce, NextRetries, NextAsserts
<1>2. Init => Inv
    BY InitAsserts
<1> QED
    BY <1>1, <1>2, TypeCorrect, AlwaysCausal, AlwaysContinues, AlwaysUnique, PTL DEF Spec

(* However many clients there are and whoever dies at whatever moment, the *)
(* assertions of MDSTableClient and MDSTableServer that fail are the three *)
(* of the findings, or none: a COMMIT names a tid the table has reached    *)
(* (handle_commit), an AGREE for a tid that is prepared is the one it was  *)
(* prepared with and does not find the client ready (handle_request), a    *)
(* SERVER_READY finds a client that is not, and commit finds the tid       *)
(* prepared.                                                               *)
THEOREM OnlyKnownAssertsFail == Spec => []AssertsHold
    BY AlwaysExpected, PTL

=============================================================================
