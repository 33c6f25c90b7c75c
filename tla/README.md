# Lunule: TLA+ models of the metadata cluster

Lunule is a fork of Ceph whose subject is the balancing of metadata load
between the ranks of a CephFS metadata cluster. Its own code is in `src/src/mds`:
a balancer that decides which subtrees should move (`MDBalancer.cc`) and a changed
`Migrator.cc` that moves them. What must not go wrong is below the balancer: a
subtree that moves while processes die must have exactly one authority, and the
journals of two ranks must agree on which. That is what the models here begin
with. Then come the tables, the balancer itself, the queue that turns its decisions into
exports, and the way from a stray dentry to deleted objects, which every rank that is emptied
has to go. Line numbers are those of the files under `src/src/mds` unless a path is
given.

## Inventory

| Part | State it keeps | Operations | Interacts with |
|---|---|---|---|
| Migrator (`Migrator.cc`) | `export_state`, `import_state` per directory: stage, peer, tid, ranks still to answer | stages of an export and of an import, cancellation, handling of a failed peer, stale freezes, export queue | peer Migrators (11 messages), CDir freeze, MDLog, MDCache resolve |
| MDCache, resolve and rejoin (`MDCache.cc`) | subtree map (`dir_auth`), ambiguous imports (own and others'), resolve gather, resolves/rejoins pending | `send_subtree_resolves`, `handle_resolve`, `disambiguate_*_imports`, `maybe_resolve_finish`, `rejoin_send_rejoins`, `handle_mds_failure` | peers (`MMDSResolve`), Migrator, MDSRank |
| MDSRank (`MDSRank.cc`) | current MDSMap, wanted state, waiting contexts | `handle_mds_map`, `send_message_mds`, `is_stale_message`, `resolve_done`, `rejoin_done` | monitors, every other part |
| MDSMap/FSMap/MDSMonitor | state of each rank, epoch | mark failed, promote a standby, grant a state, deactivate | all ranks |
| MDLog and events (`MDLog.cc`, `journal.cc`) | entries submitted and safe | submit, flush, replay, expire | Migrator, tables |
| MDSTableServer/SnapServer | table version, pending updates, snapshots, the saved object | prepare, commit, rollback, server update, save, recovery of a client | MDSTableClient of every rank |
| MDSTableClient/SnapClient | reqids, prepares, prepared updates, commits not yet acknowledged | prepare, AGREE, ACK, SERVER_READY, commit, server failure | server, MDLog, Server |
| Server, mksnap (`Server.cc`) | the request that waits for the tid | journal the update, commit | SnapClient |
| MDBalancer with the IF balancer | epoch, loads of the ranks, old request counts, decisions | heartbeat, IF beat, imbalance decision of rank 0, choice of subtrees | peers, Migrator queue |
| Export queue (`Migrator.cc` 664-738, `shutdown_pass`) | `export_queue`, flags and auth pins of the directories under export | queue, serve, clear, export pins, the ends of an export, hand-off by a stopping rank | MDBalancer, MDCache, MDSRank |
| StrayManager | strays that are evaluated, purged, or whose removal is journalled | `eval_stray`, `purge`, `_purge_stray_purged`, `_purge_stray_logged` | PurgeQueue, MDLog |
| PurgeQueue | items in flight, limits, delayed flush | push, consume, execute, completion, configuration, drain, recover | StrayManager, Journaler, OSDs |
| Journaler (`osdc/Journaler.cc`) | write, flush, safe, read, expire and trim positions, writes on their way, waiters, heads | append, flush, prefetch, read, write head, trim, recover | PurgeQueue, OSDs |
| Locker, capabilities, slave requests, fragmentation, scrub, sessions | | | not modelled |

What is hard here is concurrency with failures. A rank learns of a failure when
the MDSMap reaches it, so two ranks in one protocol act on different maps. Waiting
contexts (freeze, journal, session flush, retried messages) run later, when the export they
belong to may be gone or replaced. Every process may die between two journal
entries, its own and its peer's. Deferred work (resolves, rejoins, resent AGREEs)
must be taken up by whoever ends the thing it waited for.

The properties that make the parts correct are one authority at any time, one heir
in the journals, agreement of all ranks at rest, no failing assertion, and an end of
every migration and of every recovery (migration); no snapshot without its
journalled update, no tid given out twice, nothing journalled lost, a replayable
journal, every update decided (tables); every epoch closed once, with the loads really
served, and orders only from busy ranks to idle ones (balancer); a queue that is served and a
directory that is free again however its export ends (export queue); nothing reported that a
crash can take back, nothing expired that is not done, no objects without a name
(purging). `PROJECT.json` lists the hazards line by line.

## Modules

| Module | Models |
|---|---|
| `MDSCluster` | ranks, MDSMap predicates, messages, the state of a rank for one directory, sending, submitting to the journal, freezing |
| `Migrator` (extends MDSCluster) | each handler of `Migrator.cc` as a function from the state of a rank to its new state |
| `MDCacheRecovery` (extends Migrator) | resolve, the start of rejoin, replay, `handle_mds_map` |
| `SubtreeOwnership` | abstract: one owner, offers, at most one server |
| `MDSMigration` (extends MDCacheRecovery) | the system: monitors, connections, journals, failures, one action per handler and per step; all migration properties; the refinement of SubtreeOwnership |
| `MCMigration` | instances of MDSMigration: three ranks |
| `MDSMigration_proofs` | theorems about MDSMigration, for all bounds |
| `MDSOneExport_proofs` (extends it), `MDSOwnership_proofs` (extends that) | theorems about MDSMigration with one export: the handlers, then the cluster |
| `MDSTable` | table server, table clients, mksnap, their journals, failures, maps |
| `MCTable` | instances of MDSTable: two ranks, one with the server |
| `MDSTable_proofs`, `MDSTableLoss_proofs` (extends it) | theorems about MDSTable; the second has the one about loss |
| `ImbalanceFactor` | what rank 0 computes from the rates of all ranks, as operators |
| `MDBalancer` (extends ImbalanceFactor) | epochs, heartbeats, IF beats, decisions, degraded clusters |
| `MCBalancer` | instance of MDBalancer: three ranks |
| `MDBalancer_proofs` | theorems about MDBalancer |
| `ExportQueue` | the exports of one rank as they are queued, started, ended; export pins; the shutdown of a rank |
| `MCQueue` | instances of ExportQueue: one rank, two peers, four directories |
| `ExportQueue_proofs` | theorems about ExportQueue |
| `Journaler` | a log in RADOS objects that its process writes and reads |
| `PurgeQueue` (extends Journaler) | StrayManager and PurgeQueue on top of the Journaler; all properties of purging |
| `MCPurge` | instances of PurgeQueue |
| `PurgeQueue_proofs` | theorems about the Journaler and the PurgeQueue |

### Migration

One directory, the root of the subtree, moves between ranks. A handler of the code
is an operator `H(s, ...)` on the record `s` of the rank that runs it; messages it
sends collect in `s.out`, a failed `assert` is recorded in `s.died`. `Commit` in
`MDSMigration` makes a step of it: the messages enter the connections, or, when an
assertion failed, the process is gone, its messages with it, and the monitors publish
a map without it. The field `exp` is `export_state`, `imp` is `import_state`,
`auth` is `dir_auth`, `isauth` is `STATE_AUTH`, `wait` holds contexts, `log` what is
submitted and not yet safe, `amb`/`other` the ambiguous imports, `gather` the resolves
waited for, `rpending`/`jpending` the resolves and rejoins put off. `durable` is what
a replay of the safe journal yields for the directory.

What is abstracted, and how:

- "down" in a map covers failed and replay; reconnect is part of rejoin, clientreplay
  of active. A rank that stops never reaches STOPPED; one that fails while stopping
  comes back active.
- A connection delivers in order. Messages to a process that died are lost. A message
  carries the epoch of the map its sender had: `send_message_mds` pushes that map first,
  so the receiver has it. Messages of an instance that went away are dropped when the
  receiver's map shows that, those parked for a retry too.
- The locks an export needs, the opening of bounds and the search for a path succeed
  or not: a choice. With `MigMode = 2` a frozen export may wait for the file lock
  (`mds_bal_migmode`, line 1172).
- `last_tid` starts again with a process, as in the code.
- The balancer and the operator are `StartExport`: any export that `export_dir`
  accepts, at any time.
- `MonStop` deactivates a rank. The code lets only the highest rank go; with at most one
  stop in a run, any rank may be the highest.

### Tables

`table` is the server's memory, `disk` what its object and its safe journal would
replay to, `updates` the tids that a replay at a client finds uncommitted. A snapshot
is named by the tid that made it. `done` is a history variable: the tids whose update
is safe in the journal of the client. `Save` may happen at any time, as
`LogSegment::try_to_expire` calls it, and writes the memory with what the journal
does not have. When a process dies its memory becomes what the replay yields.
`MonActive` asks that all ranks have seen the recovering ones, which resolve and
rejoin ensure. A killed request that leaves a prepared tid behind is not modelled.

### Balancer

One tick of rank 0 opens an epoch: it clears `mds_load`, puts its own load in and sends
a heartbeat to all (382-475). Who hears it answers all with a heartbeat and rank 0 with an
IF beat (709-799). A heartbeat's load is stored whatever epoch it is from (757-764), an IF
beat's only if it is of the epoch and there is none yet (501-509). Each IF beat that finds
loads of all ranks makes rank 0 compute (512). A load is the request counter of a
process; a rate (`IOPSvector`) is the difference of two.

A counter goes through two conversions. `get_req_rate` returns the 64-bit counter as an int
(`MDSRank.h:411`): `ToInt`, with `IntSpan` for 2^32. And `old_req` is a map of floats (`MDBalancer.h:175`),
so line 536 rounds what it keeps: `Float` is the nearest float, the even one of two, with
`Precision` for 2^24 and `Ulps` for the distances of neighbouring floats. The next
subtraction (531) is exact in doubles, and its result is off by what was rounded: a rate of a rank that has served nothing
need not be 0. The properties say how far this goes. `RealLoads` bounds the error by one part in `Precision` of the old
counter. `OrdersFollowLoad` says everything about averages while the old counters are below `Precision`, and
beyond that only that an idle rank does not export. This and `OneOrderPerEpoch` hold because
line 632 calls a rate of at most 1 a wrong load, and up to `Interval * Precision` requests (`Near`) the error does not look larger: with
an `mds_bal_interval` of 10, 1.7 * 10^8 requests of one process. Above it they are false of the code: with counters of
2^28, 2^28 + 15 and 2^28 + 18 and nothing served since, the rates are 0, 1.5 and -1.4, and
rank 1 is told to export, or told again. A counter that passes 2^31 makes a rate hugely negative, which `NoWrap` leaves
out. Each of these conditions is needed in TLC's instance too: without it the property is violated there.

`ImbalanceFactor` has the computation, 554-681, line by line. The factor and the threshold are
compared as squares and in percent, so that the arithmetic is that of integers; the
urgency, a logistic function, is a table (`Urgency`), and TLC's instance takes the values the
code has for `mds_bal_presetmax` 3. `std::sort` may order equal elements in any way:
`SortedVectors` is a set. A decision is a list of targets with shares, a share being
a fraction, so that a divisor of 0 stays visible.

What the ranks serve in an interval comes from `Profiles`. `MaxTrouble` counts the disturbances: a process
that dies, or an interval that ends before its beats are delivered. `h` is a history of the open
epoch and of the last computation. That a decision replaces what is in the export queue is
`orders`; what the queue does with it is in `ExportQueue`. The old balancer
(`mds_bal_ifenable` 0) and the choice of subtrees that carry a given load are not modelled. Whether the cluster is
degraded (`Degraded`) is known to all ranks at once, while in the code each learns it with its own map.

### Export queue

The protocol of one export is in `Migrator`; here an export is a state and the queue is the subject:
`export_state`, the flag STATE_EXPORTING and the auth pins. Handlers are functions of the
record `Now`, as in `Migrator`. `Loop` is `maybe_do_queued_export` with its
`running` flag; an export that is cancelled at once while the loop runs is `Dispatched` with
"cancel". The ends of an export are those of the code: `export_finish`, with the parts
that `check_export_size` left for later put at the head of the queue; `export_try_cancel`
from each stage; `export_frozen` without its locks; the last notify ack of a cancelled
export. `Limit` is the 4 of line 715: an export is started while at most that many run. With
`Limit` 0 and three directories the queue is as full as it is with 4 and seven.

Exports are started past the queue too, by `ExportDirectly`: by export pins (`HandleExportPins`), by the operator
(`CommandExportDir`), and for imports that have no dentry left in the cache, by `trim` (`Trim`, `MDCache.cc:6484-6497`) and at the end of an
import (`ImportFinish`, `Migrator.cc:3428-3434`). They are not limited, they count when the queue looks for room, and
their ends serve it. `by` is a history field: who has started an export. Whether an import is empty is a choice.

A stopping rank calls `shutdown_pass` at each tick. It first trims the cache (7529), which sends
empty imports away whatever is in the queue (`Trimmed`); `TerminateSessions` and `StoppingDone`
are what follows once it no longer looks at subtrees. An export of `trim` that is cancelled on the spot is left to the action
`Trim`, which may come just before.

### Purging

An entry of the log is two units long and an object `Period` units, so that with 3 an
entry may lie across objects and a write may end inside one. `log` is the entries that were
appended, and `write_pos` its length. How far objects are zeroed ahead decides how much of
a flush goes out: `Cuts` lets it be any number of objects, the rest waiting for
`_finish_prezero`. `pending_safe` has the writes on their way, each with the position
that is safe until it ends. They end in any order. A crash keeps everything before the first of
them and, of the rest, any number of whole objects or writes (`Survives`), and the head in the store or
one on its way to it.

The PurgeQueue's lock is held over several calls of the Journaler, whose own lock is free
between them. `holder` is who has the PurgeQueue's lock and how far it has come, so
completions of the Journaler run in the middle of `_consume`. `drain` takes no lock (594-630), and
may run at any time. The retry of `trim` by the completion of a head (498-500) is `Trim`,
at any time after a head is in the store. The dentry of an inode is "stray",
"purging", "logging" (its EUpdate is submitted) or "gone" (the EUpdate is safe);
after a crash what is not gone is a stray again, and is pushed a second time.

## Runs

The runs are bounded by `MaxExport`, `MaxFail`, `MaxStop`, `MaxPrepare` and `MaxUpdate` (migration, tables),
`MaxTick` and `MaxTrouble` (balancer), `MaxOrders` and `MaxTrouble` (queue), `MaxEntries`, `MaxHeads`, `MaxCrashes` and
`MaxChanges` (purging);
an assertion that fails kills a process beyond `MaxFail`. All runs say
`CHECK_DEADLOCK FALSE`: when the bounded events are used up and nothing is under way,
the system really stops. The safety runs of the migration use symmetry in the two ranks that are
not the first authority; the fair ones use none.
`migration_failover` uses the view `Recent` too, which forgets the maps that every
process has left behind: epochs are only compared with each other and maps older than
the oldest one in use are not read, so states with the same view behave alike (without
it the run has 792 000 states and the same result).

| Run | Bounds | Shows |
|---|---|---|
| `migration_failover` | 1 export, 2 failures; 290 000 states | `SingleAuthority`, `OneHeir`, `ServerIsHeir`, `CommitOrder` and `ImplementsOwnership`: whatever two processes die and when, one rank serves and it is the one the journals name. |
| `migration_again` | 2 exports, 1 failure; 174 000 | `EveryoneKnows` (bystanders know who serves, through warning and notify), `Agreement` at rest, `AssertsHold`, `SingleAuthority`, `EExportAwaited` (an EExport not yet safe is that of the export in `loggingfinish`): late contexts and messages of the first export meet the second. |
| `migration_stop` | 1 export, 1 failure, 1 stopping rank, one missed map, `MigMode` 2; 303 000 | `TypeOK`, `AssertsHold`, `Agreement` with refusals, map gaps and the wait for the file lock. |
| `migration_live` | 1 export, 1 failure, fair; 32 000 | `Settles`: every export ends and the cluster recovers, except in the two stuck states it names. |
| `table_failover` | 2 prepares, 2 failures; 651 000 | `TypeOK`, `SnapsJournalled`, `TidsDurable`, `AssertsHold`. |
| `table_crash` | 2 prepares, 1 server update, 1 failure, fair; 273 000 | `NothingLost`, `ReplayContinues`; `Settles`: every update is decided. |
| `balancer` | 3 ranks, 3 intervals, 3 profiles, 1 disturbance, 64 ints, floats exact below 4; 230 000 | `RoundsClose` (every undisturbed epoch ends with a computation), `RealLoads` (with what the ranks have served, but for the error of the floats), `OrdersFollowLoad`, `OneOrderPerEpoch`. |
| `queue` | 3 directories, 1 order, command or import, 1 failure, a deactivation, fair; 280 000 | `AssertsHold`, `NothingLeftBehind`, `FewAtOnce` (the queue has at most `Limit` + 1 exports of its own under way), `QueueServed`; `StopsUnlessStranded`: a rank stops unless its queue has nobody left to serve it. |
| `purge_crash` | 2 inodes, 3 entries, 1 crash; 1 323 000 | `ReportedIsDurable`, `HeadsFindTheLog`, `ExpiredIsDone`, `NoLeak`, `AssertsHold`. |
| `purge_live` | 1 inode, 1 crash, 1 change of the configuration, fair; 124 000 | `StraysGo`: dentries go even while purging is paused. `ObjectsGo`: objects go unless it is paused for good. |
| `queue_stuck`, `balancer_shares` | | violations, see below |

Why the bounds are enough to be of use: an export has an exporter, an importer and bystanders, so
three ranks have every role; two failures let the exporter and the importer, or one of
them twice, die in one migration; two exports are the least for a context of one to meet
the next. The table has a server and a client at another rank, and the client at the
server's own rank; a second prepare lets tids and reqids be confused. Three ranks are the
least for which rank 0 sorts anything, and the profiles have an exporter that is rank 0, one
that is not, and two at once; three intervals give two computations with rates and one that is
disturbed. Counters reach 48, which is well above `Interval * Precision` (8) and wraps as an int of 64 values. With `Limit` 0 one export fills the queue's room; the
directories of `queue` are an import that may leave a residue, the residue, an import as well, and a pinned one, and one event is enough for an import to follow an export of a pin, or an order to meet one. (With two there are 1 184 000 states, and the invariants hold as well.) Two inodes and three entries let items finish out of order and one be pushed twice.

`NothingLost` speaks of behaviours in which at most one process has died, by a failure or by an
assertion (`OneDeath`), on purpose. With a second death it is false, in two ways. A client that
restarts twice is given reqids that an older pending update uses (1 prepare and 2 failures; an assertion
that fails counts as well, so 3 prepares and 1 failure do). And a repeated COMMIT is acknowledged
before the first is safe (`AckIsLogged`): the client forgets the update, the server dies, its replay
has the update pending again, offers it with an AGREE, and the client rolls it back.

Fairness: `FairSpec` is weak fairness of `Progress` as a whole, that is, of messages,
maps, contexts, journal flushes, the retry of parked messages, takeover by a standby and
the grants of the monitors. Messengers, the Finisher, the journaler and the monitors
keep working while processes run, and a standby is assumed to exist. Failures, operators, new
exports, new snapshots and the timeout of a freeze are not fair. Since all events but
progress are bounded, fairness of the disjunction is enough for the runs to settle.

`ExportQueue` has weak fairness of the tick of a stopping rank, of the steps of each
export, of clients that close their sessions and of standbys; `DispatchExportDir(d, "go")` says
that a lock waited for is granted in the end. The steps of an export are fair together, which is the
same as each for itself, since its state allows only one of them. Cancellations, orders, pins, commands, imports, empty imports and failures are not
fair. `PurgeQueue` has weak fairness of each completion of the OSDs, of the
MDLog, of the evaluation of strays (`MDCache::trim`) and of the thread that holds the lock, and
strong fairness of those that wait for the lock (finisher, timer, completions, configuration),
since each of them is served again and again while others come and go. Neither `Trim` nor `drain` is
fair, and neither is needed.

## Disagreements

Two runs end in a violation; each states what a comment, an assertion or a document of
the repository says.

| Run | What happens |
|---|---|
| `queue_stuck` | `export_frozen` unwinds an export without its locks (`Migrator.cc:1165`, 1187), and so does the last notify ack of a cancelled one (2275), without `maybe_do_queued_export`. A stopping rank whose queue is not empty does not look at its subtrees (`MDCache.cc:7536`): it goes on to terminate its sessions and stays in stopping for ever, unless another export ends later. `trim` (7529) starts one for an import that is empty, so the rank is stuck when its subtrees keep a dentry in the cache, or are below inodes of its own. This is the state `doc/cephfs/multimds.rst:99-103` calls a possible bug. `find_stale_export_freeze`, which might help, runs on active ranks only (`MDSRank.cc:296`). |
| `balancer_shares` | `my_imbalance_vector` is sorted and then indexed by the rank `*p`: the exporter is `whoami` of that element, whose load is checked ("Wrong load", 633), and the share is computed from the load of rank `*p` (637), which may be 0. |

More were met with the same models. Their properties are in the modules, and a cfg
with the bounds given shows each one.

| Property | Bounds | What happens |
|---|---|---|
| `MDSMigration!CancelExpected` | 1 export, 1 failure | `assert(0 == "got export_cancel in weird state")` (`Migrator.cc:2570`): the importer has refused and forgotten the export while the exporter, because a third rank failed, cancels it. |
| `MDSMigration!PendingResolvesSent` | 1 export, 1 failure, `FairSpec` | `import_reverse_discovering` and `import_reverse_discovered` (2543-2553) end an import and do not send the resolves that waited for it: recovery hangs. |
| `MDSMigration!OneHeir` | 2 exports, 1 failure | `import_logged_start` (3271) looks at the state, not at the tid: the log callback of an aborted import acknowledges the next one before its EImportStart is safe; a crash leaves no heir, or two. `doc/dev/mds_internals/exports.rst:50-54` has the acknowledgement follow the log entry. |
| `MDSMigration!RejoinIdle` | 1 export, 1 failure | `assert(!migrator->is_importing())` (`MDCache.cc:3932`): a Discover is accepted from an exporter that has not heard of the failure; its Cancel comes after the rejoin map. |
| `MDSMigration!ImportsEnd` | 1 export, 1 stop, `FairSpec` | a retried Discover at a rank that is stopping is refused (`Migrator.cc:2460`) and its import entry stays. |
| `MDSMigration!Recovers` | 2 failures, `MapGap` 1, `FairSpec` | `MDSRank.cc:1699` compares only whether somebody was resolving in the two maps; a rank that missed the one in between sends no resolve. Without a gap the property holds. |
| `MDSTable!RollbackExpected` | 1 prepare, 1 failure | one AGREE, sent twice to a recovering client, is rolled back twice: `assert(pending_for_mds.count(tid))` (`MDSTableServer.cc:149`). |
| `MDSTable!AckIsCommitted` | 1 prepare, 2 failures | a tid that was rolled back is acknowledged as "already committed" (`MDSTableServer.cc:117`). |
| `MDSTable!StrayBeforeReady` | 1 prepare, 1 failure | an AGREE for the former process of a client follows SERVER_READY: `assert(!server_ready)` (`MDSTableClient.cc:94`). |
| `MDSTable!AgreeCarriesReply` | 1 prepare, 1 failure | the resent AGREE (`MDSTableServer.cc:194`) has no buffer, and mksnap decodes the snapid from it (`Server.cc:8692`). |
| `MDSTable!AckIsLogged` | 1 prepare, 1 failure | a repeated COMMIT is acknowledged (`MDSTableServer.cc:121`) while the first one is not yet safe. With a second failure the update is lost: `NothingLost` without its `OneDeath`. |
| `MDBalancer!LoadsOfEpoch` | those of `MCBalancer.cfg` | `mds_load` is "per-epoch scatter/gathered info" (`MDBalancer.h:171`), but a heartbeat's load is stored whatever its epoch. |
| `PurgeQueue!DrainedIsDone` | those of `MCPurge_live.cfg`, `Spec` | `drain` (594-630) takes no lock: between reading an entry and putting it in flight the queue looks idle, and `MDSRank.cc:315` takes it for drained. |
| `PurgeQueue!ResumedIsConsumed` | those of `MCPurge_live.cfg`, `FairSpec` | `handle_conf_change` (571-592) looks at mds_max_purge_files in an else-if: changed together with an operation limit, purging is resumed and nobody consumes. |

Read in the balancer's code, beside what the properties say:

- "MDS just started, so skip this time" (`MDBalancer.cc:533`): `old_req` keeps the entry of
  the former process of a rank, so its first rate is the difference of two processes'
  counters and often negative. `RealLoads` leaves such a rank out.
- `max_pos` and `min_pos` are begin minus the element (561-562): 0, or a negative number that is no rank.
  With four ranks and rates 0, 3, 3, 3 the factor is high enough to act (610) and no rank is
  an exporter.
- Intervals that overlap may have one rank told twice in an epoch; `OneOrderPerEpoch`
  speaks of epochs that began in order.
- `calc_mds_load` (2135-2158) ignores its argument and adds up the caller's own subtrees, so
  `load_vector` (538) has rank 0's load for every rank, and `target_export_load` (638) is computed from it.

## Proofs

All proofs are checked by TLAPS. Those of the tables are for every set of ranks and all bounds; the only
assumption is `TableAssumption`: the server's rank is a rank, the bounds are natural numbers.

- `TypeCorrect`: `Spec => []TypeOK`. One lemma per action. TypeOK has the finiteness of
  the sets that the resending loops run through, without which what they send is
  not known to be a sequence of messages, and that a client which is ready has a reqid.
- `SnapsAreJournalled`: `Spec => []SnapsJournalled`. The property is not inductive: a
  COMMIT may be on its way, be in the server's journal, or be sent again after a replay.
  `Causal` says of all of these that the tid is in `done`. The proof is that `done` only
  grows, that only `Commit` (the callback of the journal) adds to `commits`, and that every
  other COMMIT is copied from one of these places.
- `JournalContinues`: `Spec => []ReplayContinues`. `Continues` says that the entries of
  the server not yet safe ascend, none is past the table in memory, and each version
  between the saved table and the one in memory is among them. `Save` raises the lower
  end, an update appends the next version, an entry that gets safe is either skipped or the
  next one, and a crash empties the journal and makes the two tables equal.
- `TidsAreDurable`: `Spec => []TidsDurable`. What makes it hard is that
  messages of a server outlive it and AGREEs are sent again. The invariant has two parts.
  `Epochs` dates everything: a message carries the epoch of a map its sender had (`Sent`); a
  rank that is active stays so until it is down (`MapsGoOn`); a client that is ready has heard of it from
  a server that has been up ever since in its maps (`ReadySince`); a server that is not active yet
  has done nothing since its replay (`Idle`); a client is greeted once by one server (`Greeted`).
  `Unique` says that no tid is given out twice: what is pending, on its way or held by a client is at most the
  table's version, and at most the disk's where a restart does not forget it (`Bounded`); two records of
  one tid are the same (`Single`); a tid that a client has signed is nobody else's (`OneSigner`).
- `OnlyKnownAssertsFail`: `Spec => []AssertsHold`. Three assertions of
  the code can fail and do (see above); the theorem is that no other does. On top of `Epochs` and
  `Unique` it needs `GreetedApart` (between two SERVER_READYs to the same client, or one and a client that
  is ready, the server was down), `AnswersOnce` (an AGREE with its reply is the first word on its
  tid that can do something) and `AllRetries` (a tid has one EUpdate in the journal of its client).
- `NothingIsLost` (in `MDSTableLoss_proofs`): `Spec => []NothingLost`. With a second death the property is
  false (see the disagreements), so the invariant `LossInv` follows the number of deaths.
  `Victims`: a rank that any map shows as not active is the one that died; before the first death
  there is one map. `Guarded` holds up to and after the one death. It says that what a client has prepared, or may yet
  accept, is pending and not done (`Backed`); that no reqid is used twice by a process, and one of an earlier process is
  recognised as old (`Reqids`); that a tid which is being rolled back is one that nobody has prepared or can still prepare,
  and is committed if it is done (`Refusals`); that an AGREE is the only one of its tid (`Agreements`); and that what is done
  is in the table, or pending with a client that still has its commit (`Decided`, which gives the property).
  `Unbroken` and `OnRecord` hold before the death only: each COMMIT on its way is the only one of its tid, nothing
  is rolled back, and every tid of the table in memory is in the table that a replay yields or in an entry of the journal
  that is not safe yet. They are what a server that dies falls back on. Each part of `Guarded` has a lemma for the steps in which
  nobody dies, and one for the step of the first death (`FirstGuarded`): a client comes back with the tids
  its journal has, a server with the table saved and the entries that were safe.

`PurgeQueue_proofs` proves every safety property of `purge_crash`, for any set of
items, any object size, any number of entries, heads, crashes and changes. The
assumptions are `JournalerAssumption` (an object is not empty, the bound is a natural number) and
`PurgeQueueAssumption` (the limits are natural numbers and there is a largest one).

- The invariant of the Journaler is `JInv`: types, `HeadsInOrder`, and what holds while
  the process is up (`Up`) and down (`Down`). Its core is `WritesOK`: each write on its way
  knows an end of an entry that is not after its own start, later writes know no less,
  and `safe_pos` is what the first of them knows. From it follows `SafeSurvives`: whatever
  a crash leaves reaches `safe_pos`. That is why completions may be called up to
  `safe_pos` and why a head may say `safe_pos`. `NextSafeOK` and `FlushOK` are the
  lemmas that each way of flushing, with its own choice of the position to remember,
  keeps `WritesOK`; `ObjectStarts` relates what is trimmed to what heads expire.
- The invariant of the whole, `Inv`, adds `ReadIsHandled` (every entry before
  `read_pos` is in flight, done, or in the hands of the thread that has just read it), `InFlightOK`
  (what is in flight was read and is not expired),
  `DoneBefore` (what is before `expire_pos` is done) and `DnOK` (a dentry is past "purging" only
  if its objects are gone or an item of it is safe).
- Theorems: `PurgeTypes`, `PurgeAsserts`, `ReportedEntriesSurvive`, `LogIsFound`, `NothingExpiresEarly`, and
  `NothingLeaks`, which needs all the others: once a dentry is gone its objects are, or the
  item is where the next process will find it.

`ExportQueue_proofs` proves every safety property of `queue`. The assumption is `QueueAssumption`: there
are finitely many directories, this rank is not its own peer, rank 0 is a peer, pins name peers, inodes are a peer's or this rank's.

- `Sound(Now)` is the core: what is exported is a subtree of this rank, STATE_EXPORTING is set
  on exactly the directories that have an `export_state`, the auth pins of a directory are those its
  stage holds (`PinCount`), and no assertion has failed. `Few` counts the exports
  that the queue has started (`Nice`). Both are kept by each handler as a function of the state; the loop of
  `maybe_do_queued_export` is a recursive function (`Tried`), and that any number of its
  rounds keeps them is shown by taking the least number for which it would not (`LoopSound`). The exports past the
  queue have one lemma (`DirectCore`): they add nothing to `Nice`, and if they end at once they serve the queue. `TrimmedSound` says it of
  any number of them, for `shutdown_pass`.
- `QueueServed` needs both: the loop ends with an empty queue or with more than `Limit` running, each
  end of an export but the two silent ones runs it, and no other step lowers the count.
- Theorems: `TypeCorrect`, `OnlyOwnDirsAreExported`, `FlagsAndPinsEnd`, `ExportsAreFew`, `TheQueueIsServed`.

`MDBalancer_proofs` proves every safety property of `balancer`, for any number of ranks from two on, any threshold,
any table of urgencies, any profiles and any number of intervals and disturbances (`BalancerAssumption`), and for any
interval, size of an int and precision of a float (`NumberAssumption`: floats are 1 apart below `Precision` and twice as far above
each doubling of it).

- `Right`: while beats are under way, the loads that rank 0 has, or that are on their way to it, are what the
  processes have counted, except those of ranks a disturbance has made suspect. That is why it does not matter which
  of two beats brings a load. `Based`: `old_req` is the count at the last computation, made an int and then a
  float (`Kept`). A float is off by at most one part in `Precision` (`FloatIs`), and `RealLoads` follows.
- `Round`: in a calm epoch each rank still has the heartbeat to come, or has an IF beat on its way,
  or rank 0 has its load; when none is left to come, rank 0 has computed. `RoundsClose` is the case
  in which nothing is under way.
- `Once`: after a computation in a calm epoch `old_req` is `Kept` of what the processes have counted, so that the rates of
  the next are rounding errors only. While the counters are `Near` they are at most `Interval` requests (`Negligible`), that
  is a rate of at most 1, and line 632 refuses to export. This is `OneOrderPerEpoch`.
- `OrdersFollowLoad` is about the decision loops. `Matched` is the inner one as a recursive
  function; that whatever it has picked is an importer is shown for all its rounds.
- Theorems: `TypeCorrect`, `RatesAreReal`, `BusyRanksExportToIdleOnes`, `OrdersAreGivenOnce`, `EveryRoundCloses`.

`MDSMigration_proofs` proves of the migration, for any finite set of ranks and all bounds (`RanksAssumption`,
`BoundsAssumption`), what its handlers need of each other. The messages, contexts and maps that
start a handler come in any order there is, with any failures in between.

- The invariant is `Sane` of every rank: its types, that a rank which exports or imports has a peer
  (`Peers`), and that an EExport not yet safe is the only one and belongs to an export in
  `loggingfinish` (`Logged`). Types alone are not inductive. `export_logged_finish` (2175-2225) is given the
  directory and not the export, and sends the notifies and the Finish to the peer of whatever export
  there is; without `Logged` there may be none, and the Finish would have no receiver. `Logged` in turn holds because
  `export_try_cancel` leaves an export in `loggingfinish` alone, which `ExportPeerFailureSane` uses.
- One lemma per handler says that its result is `Sane` if it started so, whatever the message and
  the outcomes of locks and lookups. The steps inside a handler that touch neither the export, the import nor the
  journal are `Like` steps. The loop of `handle_mds_map` over the ranks that failed is a recursive
  function on sets (`Lost`); that it is the function its definition describes, and keeps `Sane`,
  is shown by the least size of a set for which it would not be (`LostUpTo`, `LostSane`).
- Theorems: `TypeCorrect` and `ExportsAreAwaited` (`Spec => []EExportAwaited`).

`MDSOneExport_proofs` and `MDSOwnership_proofs` prove what the migration promises its users, for any finite set of ranks, any
number of failures, deactivations and missed maps, both migration modes, and `MaxExport <= 1`. This hypothesis is needed:
with two exports and one failure `OneHeir` is false (see above), and the other properties rest on it. It is
a bound on how often an export is started in a run, not on what happens to it; within it, every stage can be cut off by
the death of any rank, any number of times, and be recovered from.

- There is one exporter, the first authority `E`, and one importer `D`, or none yet. `OneInv` says that there is a
  `D` with `OneExport(D)`, and that a process goes through its own states in the maps in order (`UpToDate`).
- `RanksOK` has what each role knows. `ExporterOK` ties the stage of the export to the journal, to the frozen bit and
  to `dir_auth`: in every stage but `notifying` the exporter has the subtree in its journal, and from
  `prepping` on the tree is frozen. `ImporterOK` ties the stage of the import to its journal and to what is known of
  the exporter: it has the AUTH bit only in the stages in which the tree is frozen, or once the EExport is safe
  (`gone`). A process that takes the importer's rank over with an open import is `Undecided` until it has the
  exporter's resolve. A bystander never has the subtree.
- `NetOK` has what a message says whenever it is delivered: a Finish is on its way only if the EExport is safe, and a
  resolve claims the subtree only for the one who has it, or denies it only if it is gone.
- `PairOK` ties the two ends together, and is the core. If the exporter logs the EExport, or has done so, the importer is
  `Bound`: its EImportStart is safe and no abort is in its journal. An acknowledgement is on its way only if the importer is
  `Bound`, or the export is over and the exporter has kept the subtree (`Settled`), in which case nobody waits for it.
  An ExportDir finds a `Clean` importer, a Discover one that is `Untouched`, and no such message overtakes a resolve
  of the same exporter that would settle the import.
- `MDSOneExport_proofs` shows handler by handler that a rank of each role keeps its part, and what it may send
  (`Exported`, `Imported`, `Standing`). `MDSOwnership_proofs` puts ranks and connections together (`World`): a
  handler whose messages are tame, one that moves the export on by a Discover, an ExportDir or an
  ExportDirAck, the flush of an EExport, of an EImportStart and of an EImportFinish, a death, a takeover. Then one lemma
  per action of `MDSMigration`, and `NextOne`, which also says what a step may write in the journals (`Writes`).
- Theorems: `JournalsDecide` (`OneHeir`), `ServersAreHeirs` (`ServerIsHeir`), `OneServer` (`SingleAuthority`),
  `ExportAfterImport` (`CommitOrder`) and `OwnershipKept` (`ImplementsOwnership`). In the refinement an EExport
  that gets safe is `Transfer`, an EImportStart `Offer`, an abort `Withdraw`; every other step is `Suspend`, `Resume` or
  changes nothing that SubtreeOwnership knows of. Nobody serves in a `Transfer`, since the exporter
  is frozen and the importer, were it serving, would be the heir already.

Only model-checked:

- `EveryoneKnows`, `Agreement` and `AssertsHold` of the migration. They need the order of all messages of an
  export, not only of the three that move it on.
- What the migration promises when there is more than one export: `SingleAuthority` in `migration_again`.
- All liveness (`Settles`, `StopsUnlessStranded`, `StraysGo`, `ObjectsGo`), which is out of the prover's reach.

## Plan

1. (done) Migration: MDSCluster, Migrator, MDCacheRecovery, MDSMigration, the abstract
   SubtreeOwnership, their runs.
2. (done) Tables: MDSTable, runs, the six theorems.
3. (done) The IF balancer: ImbalanceFactor, MDBalancer, the five theorems.
4. (done) The export queue, export pins and the shutdown of a rank; the five theorems.
5. (done) Purging: Journaler, PurgeQueue, runs, the six theorems.
6. Slave requests: ESlaveUpdate and the second half of the resolve stage.
7. (done) Proofs of the migration: `TypeOK` and `EExportAwaited` for all bounds; ownership with one export. Left: which
   of the assertions of the handlers never fail.

## Not modelled

- Locks and capabilities (a coherence protocol of its own; here a lock is free or taken),
  client requests and slave operations, fragmentation, the encoding of migrated
  metadata, caps-only exports, standby-replay, the statistics in `mds/adsl` and Mantle's Lua
  policies (numeric, no protocol).
- Balancer: the old balancer, and which subtrees carry a given load
  (`find_exports`, the popularity counters in floating point). Ranks are numbered without a hole, so the
  assertion of line 527 is not reached.
- Export queue: `mds_bal_migmode` 1, whose retry hands the tid to `export_dir_nicely` as the
  destination rank (`Migrator.cc:1124`, 1177); a peer that stops; export targets as such
  (an export waits for maps or does not); the refusals of `export_dir` for a read-only file system, for
  system directories and for strays (820, 832, 838-842), which end like the others without an export.
  `MDBalancer::export_empties` is not called (`MDBalancer.cc:776`).
- Migration: the ack of `import_logged_start` goes to the peer of the import that is under way; the code sends it to
  the rank that it captured (`Migrator.cc:3306`). The two differ only when three exports of one directory meet.
- Tables: of the updates of SnapServer only the creation of a snapshot; its destruction and the change of its
  name go through the same prepare and commit (`SnapServer.cc:101-127`, 147-187). `Commit` leaves out the assertion that a tid is not
  yet committed (`MDSTableClient.cc:186`), as a request commits its tid once.
- StrayManager: the tests of `_eval_stray` (`StrayManager.cc:404-533`) are one choice; reintegration, migration of strays to other ranks, truncation of strays with
  snapshots. PurgeQueue: creation of a new queue; an entry that does
  not decode or names no action (`PurgeQueue.cc:389-393`, 477-482); a change of `max_mds`, which recomputes the limit of
  operations (`MDSRank.cc:1839`) and which no `_consume` follows; a change of `filer_max_purge_ops` while an item
  runs, which would make `ops_in_flight` (unsigned, 527) wrap around.
- Journaler: the positions of `_issue_prezero` (`Journaler.cc:783-823`), of which `Cuts` keeps how far a flush may go; the
  distances of the fetch window; the partial entry at the tail (1113-1129), which is met only in recovery; `reread_head`
  and `reprobe`. That `on_readable` is free (1263) is a guard of `WaitForReadable`, since its only caller asks
  `have_waiter` first, under the same lock (`PurgeQueue.cc:363-377`). Read-only use, write errors, erasing, reformatting.
- The rest of Ceph (OSDs, object stores, monitors other than the MDSMonitor, clients, RGW,
  RBD, the manager, Boost, the generated bindings), which makes up nearly all of the
  repository and which Lunule does not change; RADOS appears as a store that keeps what
  it has acknowledged.
