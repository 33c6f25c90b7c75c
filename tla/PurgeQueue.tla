-------------------------------- MODULE PurgeQueue --------------------------------
(***************************************************************************)
(* From a stray dentry to objects that are gone: the StrayManager pushes a *)
(* purge item, the PurgeQueue writes it to its journal, reports it safe,   *)
(* reads it back and removes the objects; the StrayManager, once told,     *)
(* journals in the MDLog that the dentry is gone.                          *)
(*                                                                         *)
(* The PurgeQueue's lock is held by one thread at a time, through several  *)
(* calls of the Journaler; the Journaler has a lock of its own, so its     *)
(* completions run between those calls.  holder says who has the lock and  *)
(* how far it has come.                                                    *)
(***************************************************************************)
EXTENDS Journaler, FiniteSetsExt

CONSTANTS
    Files,          \* mds_max_purge_files, when purging is not paused
    Ops,            \* the limits max_purge_ops may have; drain's is the widest
    OpsOf(_),       \* _calculate_ops of an item
    MaxEntries,     \* bound: entries of the journal
    MaxCrashes,     \* bound: crashes
    MaxChanges      \* bound: changes of the configuration

ASSUME PurgeQueueAssumption ==
    /\ Files \in Nat \ {0}
    /\ Ops \subseteq Nat /\ \E n \in Ops : \A m \in Ops : m <= n
    /\ \A i \in Item : OpsOf(i) \in Nat
    /\ {MaxEntries, MaxCrashes, MaxChanges} \subseteq Nat

VARIABLES
    started,        \* StrayManager::started: the rank is active
    dn,             \* the stray dentry of each inode
    purged,         \* inodes whose objects are gone
    in_flight,      \* the ends of the entries that are being executed
    delayed_flush,
    kicked,         \* the finisher has a call of _consume
    holder,         \* of the lock: [by, at, could]
    max_purge_files, max_purge_ops,
    changed,        \* options that have changed, not handled yet
    silent,         \* history: purging was resumed and _consume not called
    drained,        \* drain: "no", "begun", or "yes", it has returned true
    crashes, changes

pqvars == <<started, dn, purged, in_flight, delayed_flush, kicked, holder, max_purge_files,
            max_purge_ops, changed, silent, drained, crashes, changes>>
vars == <<jvars, pqvars>>

Free == [by |-> "nobody", at |-> "free", could |-> FALSE]
IsFree == holder = Free
Holds(by, at) == [by |-> by, at |-> at, could |-> FALSE]

PQInit ==
    /\ started = TRUE
    /\ dn = [i \in Item |-> "stray"]
    /\ purged = {} /\ in_flight = {}
    /\ delayed_flush = FALSE /\ kicked = FALSE
    /\ holder = Free
    /\ max_purge_files \in {0, Files}
    /\ max_purge_ops \in Ops
    /\ changed = {}
    /\ silent = FALSE /\ drained = "no"
    /\ crashes = 0 /\ changes = 0

Init == JInit /\ PQInit

-----------------------------------------------------------------------------
(* The StrayManager: a stray nobody refers to any more is enqueued, and    *)
(* purge pushes its item.                                                  *)
EvalStray(i) ==
    /\ up /\ started /\ dn[i] = "stray" /\ IsFree
    /\ Len(log) < MaxEntries
    /\ dn' = [dn EXCEPT ![i] = "purging"]
    /\ AppendEntry(i)
    /\ holder' = Holds("push", "appended")
    /\ UNCHANGED <<started, purged, in_flight, delayed_flush, kicked, max_purge_files,
                   max_purge_ops, changed, silent, drained, crashes, changes>>

(* The rest of push: the completion, then _consume.                        *)
PushWait ==
    /\ holder.at = "appended"
    /\ WaitForFlush
    /\ holder' = Holds("push", "consume")
    /\ UNCHANGED <<started, dn, purged, in_flight, delayed_flush, kicked, max_purge_files,
                   max_purge_ops, changed, silent, drained, crashes, changes>>

(* _purge_stray_purged: the item of the dentry is safe; an EUpdate that    *)
(* the dentry is null.                                                     *)
ItemOf(i, k) ==
    /\ k \in DOMAIN log /\ log[k] = i
    /\ \A j \in DOMAIN log : log[j] = i => j <= k
IsPushed(i) == TRUE  \* variant: not when the item is safe, but at once
IsReported(i) == \E k \in DOMAIN log : ItemOf(i, k) /\ 2 * k \in reported
PurgeStrayPurged(i) ==
    /\ up /\ dn[i] = "purging" /\ holder.by # "push"
    /\ IsReported(i)
    /\ dn' = [dn EXCEPT ![i] = "logging"]
    /\ UNCHANGED <<jvars, started, purged, in_flight, delayed_flush, kicked, holder,
                   max_purge_files, max_purge_ops, changed, silent, drained, crashes, changes>>

(* _purge_stray_logged: the EUpdate is in the MDLog.                       *)
PurgeStrayLogged(i) ==
    /\ up /\ dn[i] = "logging"
    /\ dn' = [dn EXCEPT ![i] = "gone"]
    /\ UNCHANGED <<jvars, started, purged, in_flight, delayed_flush, kicked, holder,
                   max_purge_files, max_purge_ops, changed, silent, drained, crashes, changes>>

-----------------------------------------------------------------------------
(* can_consume.                                                            *)
ItemAt(p) == log[p \div 2]
OpsInFlight == MapThenSumSet(LAMBDA p : OpsOf(ItemAt(p)), in_flight)
CanConsume ==
    IF in_flight = {} /\ max_purge_files > 0 THEN TRUE
    ELSE /\ OpsInFlight < max_purge_ops
         /\ Cardinality(in_flight) < max_purge_files

(* _consume, one call of the Journaler at a time.                          *)
Consume ==
    /\ up /\ holder.at = "consume"
    /\ IF CanConsume
       THEN /\ IsReadable
            /\ delayed_flush' = FALSE
            /\ holder' = [holder EXCEPT !.at = IF readable THEN "read" ELSE "unreadable",
                                        !.could = TRUE]
       ELSE /\ holder' = [holder EXCEPT !.at = "consumed"]
            /\ UNCHANGED <<jvars, delayed_flush>>
    /\ UNCHANGED <<started, dn, purged, in_flight, kicked, max_purge_files, max_purge_ops,
                   changed, silent, drained, crashes, changes>>

ConsumeWait ==
    /\ up /\ holder.at = "unreadable"
    /\ IF on_readable THEN UNCHANGED jvars ELSE WaitForReadable
    /\ holder' = [holder EXCEPT !.at = "consumed"]
    /\ UNCHANGED <<started, dn, purged, in_flight, delayed_flush, kicked, max_purge_files,
                   max_purge_ops, changed, silent, drained, crashes, changes>>

ConsumeRead ==
    /\ holder.at = "read"
    /\ TryReadEntry
    /\ holder' = [holder EXCEPT !.at = "execute"]
    /\ UNCHANGED <<started, dn, purged, in_flight, delayed_flush, kicked, max_purge_files,
                   max_purge_ops, changed, silent, drained, crashes, changes>>

(* _execute_item: the entry is known by its end.                           *)
StartOfEntry == read_pos - 2  \* variant
EndOfEntry == read_pos
ExecuteItem ==
    /\ up /\ holder.at = "execute"
    /\ in_flight' = in_flight \cup {EndOfEntry}
    /\ holder' = [holder EXCEPT !.at = "consume"]
    /\ UNCHANGED <<jvars, started, dn, purged, delayed_flush, kicked, max_purge_files,
                   max_purge_ops, changed, silent, drained, crashes, changes>>

NeverFlushes == FALSE  \* variant
FlushesLater == holder.by = "push" /\ ~holder.could

(* After _consume: push asks for a flush if nothing can be read for now, a *)
(* completion writes the head if the queue is idle, or it is time to.      *)
Consumed ==
    /\ up /\ holder.at = "consumed"
    /\ holder' = Free
    /\ delayed_flush' = (delayed_flush \/ FlushesLater)
    /\ CASE holder.by # "done" -> UNCHANGED trimming
         [] holder.by = "done" /\ in_flight = {} -> WriteHead(safe_pos)
         [] OTHER -> MaybeWriteHead(safe_pos)
    /\ UNCHANGED <<up, writing, safe_pos, waitfor_safe, reading, reported, expire_pos, end>>
    /\ UNCHANGED <<started, dn, purged, in_flight, kicked, max_purge_files, max_purge_ops,
                   changed, silent, drained, crashes, changes>>

(* The timer's call.                                                       *)
DelayedFlush ==
    /\ IsFree /\ delayed_flush
    /\ delayed_flush' = FALSE
    /\ Flush
    /\ UNCHANGED <<started, dn, purged, in_flight, kicked, holder, max_purge_files,
                   max_purge_ops, changed, silent, drained, crashes, changes>>

(* The finisher's call, of the Journaler's waiter or of a kick.            *)
CalledByJournaler ==
    /\ up /\ IsFree /\ notified
    /\ notified' = FALSE
    /\ holder' = Holds("finisher", "consume")
    /\ UNCHANGED <<up, writing, safe_pos, waitfor_safe, read_pos, requested_pos, received_pos,
                   readable, on_readable, reported, expire_pos, trimming, end>>
    /\ UNCHANGED <<started, dn, purged, in_flight, delayed_flush, kicked, max_purge_files,
                   max_purge_ops, changed, silent, drained, crashes, changes>>
CalledByKick ==
    /\ up /\ IsFree /\ kicked
    /\ kicked' = FALSE
    /\ holder' = Holds("finisher", "consume")
    /\ UNCHANGED <<jvars, started, dn, purged, in_flight, delayed_flush, max_purge_files,
                   max_purge_ops, changed, silent, drained, crashes, changes>>

(* The objects of an item are gone: _execute_item_complete, then _consume. *)
IsLowest(p) == \A q \in in_flight : p <= q
ExpireAny(p) == p  \* variant: whichever item is done
ExpireTo(p) == IF IsLowest(p) THEN p ELSE expire_pos
ExecuteItemComplete(p) ==
    /\ up /\ IsFree /\ p \in in_flight
    /\ purged' = purged \cup {ItemAt(p)}
    /\ expire_pos' = ExpireTo(p)
    /\ in_flight' = in_flight \ {p}
    /\ holder' = Holds("done", "consume")
    /\ UNCHANGED <<up, writing, safe_pos, waitfor_safe, reading, reported, trimming, end>>
    /\ UNCHANGED <<started, dn, delayed_flush, kicked, max_purge_files, max_purge_ops, changed,
                   silent, drained, crashes, changes>>

-----------------------------------------------------------------------------
(* The administrator changes options; they are in force at once, and       *)
(* handle_conf_change hears of it when it has the lock.                    *)
Configure ==
    /\ up /\ changed = {} /\ changes < MaxChanges
    /\ changes' = changes + 1
    /\ max_purge_files' \in {0, Files}
    /\ changed' \in {(IF max_purge_files' # max_purge_files THEN {"files"} ELSE {}) \cup o :
                       o \in SUBSET {"ops"}}
    /\ changed' # {}
    /\ UNCHANGED <<jvars, started, dn, purged, in_flight, delayed_flush, kicked, holder,
                   max_purge_ops, silent, drained, crashes>>

KicksWhenBusy == "files" \in changed /\ "ops" \notin changed /\ in_flight # {}  \* variant
Kicks == "files" \in changed /\ "ops" \notin changed /\ in_flight = {}
HandleConfChange ==
    /\ up /\ IsFree /\ changed # {}
    /\ changed' = {}
    /\ IF "ops" \in changed THEN max_purge_ops' \in Ops ELSE UNCHANGED max_purge_ops
    /\ kicked' = (kicked \/ Kicks)
    /\ silent' = (silent \/ (changed = {"files", "ops"} /\ max_purge_files > 0))
    /\ UNCHANGED <<jvars, started, dn, purged, in_flight, delayed_flush, holder, max_purge_files,
                   drained, crashes, changes>>

(* MDSRank::tick of a stopping rank whose cache is empty.  drain does not  *)
(* take the lock.                                                          *)
Unthrottled == CHOOSE n \in Ops : \A m \in Ops : m <= n
Idle == in_flight = {} /\ read_pos = write_pos
Drain ==
    /\ up /\ started /\ drained # "yes"
    /\ \A i \in Item : dn[i] = "gone"
    /\ drained' = IF Idle THEN "yes" ELSE "begun"
    /\ max_purge_ops' = IF Idle \/ drained = "begun" THEN max_purge_ops ELSE Unthrottled
    /\ UNCHANGED <<jvars, started, dn, purged, in_flight, delayed_flush, kicked, holder,
                   max_purge_files, changed, silent, crashes, changes>>

-----------------------------------------------------------------------------
(* The process dies, and what it had in memory with it; a dentry whose     *)
(* EUpdate is not in the MDLog is a stray again.                           *)
Crash ==
    /\ crashes < MaxCrashes
    /\ crashes' = crashes + 1
    /\ JCrash
    /\ started' = FALSE
    /\ dn' = [i \in Item |-> IF dn[i] = "gone" THEN "gone" ELSE "stray"]
    /\ in_flight' = {}
    /\ delayed_flush' = FALSE /\ kicked' = FALSE
    /\ holder' = Free
    /\ changed' = {} /\ silent' = FALSE
    /\ drained' = IF drained = "begun" THEN "no" ELSE drained
    /\ UNCHANGED <<purged, max_purge_files, max_purge_ops, changes>>

(* open of the next process; the rank of a drained queue is not restarted. *)
Open ==
    /\ drained # "yes"
    /\ JRecover
    /\ UNCHANGED pqvars

(* StrayManager::activate and PurgeQueue::activate.                        *)
Activate ==
    /\ up /\ ~started /\ IsFree
    /\ started' = TRUE
    /\ kicked' = (kicked \/ (read_pos # write_pos /\ in_flight = {}))
    /\ UNCHANGED <<jvars, dn, purged, in_flight, delayed_flush, holder, max_purge_files,
                   max_purge_ops, changed, silent, drained, crashes, changes>>

-----------------------------------------------------------------------------
Callback ==
    \/ \E w \in pending_safe : FinishFlush(w)
    \/ FinishRead
    \/ FinishPrezero
    \/ FinishWriteHead
    \/ Trim \/ FinishTrim

Next ==
    \/ \E i \in Item : EvalStray(i) \/ PurgeStrayPurged(i) \/ PurgeStrayLogged(i)
    \/ PushWait \/ Consume \/ ConsumeWait \/ ConsumeRead \/ ExecuteItem \/ Consumed
    \/ DelayedFlush \/ CalledByJournaler \/ CalledByKick
    \/ \E p \in in_flight : ExecuteItemComplete(p)
    \/ Configure \/ HandleConfChange \/ Drain
    \/ Crash \/ Open \/ Activate
    \/ Callback /\ UNCHANGED pqvars

Spec == Init /\ [][Next]_vars

(* The OSDs answer, the finisher and the timer run, a lock is given back,  *)
(* the MDLog is flushed, and MDCache::trim evaluates its strays.           *)
Fairness ==
    /\ \A i \in Item : WF_vars(EvalStray(i)) /\ WF_vars(PurgeStrayPurged(i)) /\ WF_vars(PurgeStrayLogged(i))
    /\ WF_vars(PushWait \/ Consume \/ ConsumeWait \/ ConsumeRead \/ ExecuteItem \/ Consumed)
    /\ SF_vars(DelayedFlush)
    /\ SF_vars(CalledByJournaler) /\ SF_vars(CalledByKick) /\ SF_vars(HandleConfChange)
    /\ SF_vars(\E p \in in_flight : ExecuteItemComplete(p))
    /\ WF_vars((\E w \in pending_safe : FinishFlush(w)) /\ UNCHANGED pqvars)
    /\ WF_vars(FinishRead /\ UNCHANGED pqvars)
    /\ WF_vars(FinishPrezero /\ UNCHANGED pqvars)
    /\ WF_vars(FinishWriteHead /\ UNCHANGED pqvars)
    /\ WF_vars(Open) /\ WF_vars(Activate)

FairSpec == Spec /\ Fairness

-----------------------------------------------------------------------------
TypeOK ==
    /\ JTypeOK
    /\ started \in BOOLEAN
    /\ dn \in [Item -> {"stray", "purging", "logging", "gone"}]
    /\ purged \subseteq Item
    /\ in_flight \subseteq {2 * k : k \in DOMAIN log}
    /\ delayed_flush \in BOOLEAN /\ kicked \in BOOLEAN /\ silent \in BOOLEAN
    /\ drained \in {"no", "begun", "yes"}
    /\ holder \in [by : {"nobody", "push", "done", "finisher"},
                   at : {"free", "appended", "consume", "unreadable", "read", "execute", "consumed"},
                   could : BOOLEAN]
    /\ max_purge_files \in {0, Files}
    /\ max_purge_ops \in Ops
    /\ changed \subseteq {"files", "ops"}
    /\ crashes \in 0 .. MaxCrashes /\ changes \in 0 .. MaxChanges

(* The assertions of the Journaler and of the PurgeQueue: what is_readable *)
(* promised can be read (PurgeQueue.cc:382), an entry is executed once at  *)
(* a time (512), and a head never says more than it may.                   *)
AssertsHold ==
    /\ JAssertsHold
    /\ holder.at = "read" => readable
    /\ holder.at = "execute" => read_pos \notin in_flight
    /\ \A p \in in_flight : expire_pos < p /\ p <= read_pos

(* What is expired is done.  Items are finished in any order, and expire   *)
(* moves only with the lowest: no entry before expire_pos, or before the   *)
(* expire_pos of a head that is or may come into the store, has objects    *)
(* left (_execute_item_complete, _write_head, _trim).                      *)
ExpiredIsDone ==
    \A k \in DOMAIN log :
        (up /\ 2 * k <= expire_pos) \/ (\E h \in Heads : 2 * k <= h.expire) => log[k] \in purged

(* No objects are leaked.  Once the dentry is gone for good, nothing but   *)
(* the purge item knows of the inode's objects: until they are gone the    *)
(* item is in the store, and whenever the process dies the next one finds  *)
(* it, whatever head and whatever part of the log are left.                *)
NoLeak ==
    \A i \in Item :
        dn[i] = "gone" /\ i \notin purged =>
            \E k \in DOMAIN log :
                /\ log[k] = i
                /\ \A h \in Heads : h.expire < 2 * k
                /\ IF up THEN \A e \in 0 .. flush_pos : Survives(e) => 2 * k <= e
                   ELSE 2 * k <= end

(* Strays go, even when purging is paused: a push that cannot be consumed  *)
(* is flushed by the timer, one that can by the reader.                    *)
StraysGo == \A i \in Item : <>(dn[i] = "gone")

(* Objects go, unless the administrator pauses purging for good, resumes   *)
(* it in a way handle_conf_change overlooks, or the rank is stopped.       *)
ObjectsGo ==
    (<>[](max_purge_files > 0) /\ ~<>silent /\ ~<>(drained = "yes")) => \A i \in Item : <>(i \in purged)

(* What drain says: true if drain is complete, so nothing is left that the *)
(* rank should still have purged.                                          *)
DrainedIsDone == drained = "yes" => purged = Item

(* What the comment of handle_conf_change says: from zero to a finite      *)
(* limit, consuming is kicked off.                                         *)
ResumedIsConsumed ==
    (<>[](max_purge_files > 0) /\ ~<>(drained = "yes")) => \A i \in Item : <>(i \in purged)

=============================================================================
