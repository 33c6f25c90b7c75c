-------------------------------- MODULE Journaler --------------------------------
(***************************************************************************)
(* The Journaler: a log of entries in RADOS objects that its process both  *)
(* writes and reads, with a head that says where it begins and ends.       *)
(*                                                                         *)
(* An entry is two units long, so that a write may end inside one: entry k *)
(* has the positions 2k-2 and 2k-1.  What is at a position is in log, the  *)
(* writes that are not acknowledged are in pending_safe, and a crash may   *)
(* keep or lose them.  How far the objects are zeroed ahead decides how    *)
(* much of a flush goes out; here that is any part of it.                  *)
(***************************************************************************)
EXTENDS Integers, Sequences

CONSTANTS
    Item,           \* what an entry may hold
    Period,         \* get_layout_period(), in units
    MaxHeads        \* bound: head writes on their way

ASSUME JournalerAssumption ==
    /\ Period \in Nat \ {0}
    /\ MaxHeads \in Nat

VARIABLES
    up,             \* the process is there, and its journal is open
    log,            \* the entries, those in the write buffer too
    flush_pos, safe_pos, next_safe_pos,
    pending_safe,   \* writes on their way: [start, safe]
    zero_pos,       \* waiting_for_zero_pos; 0 when it is flushed
    waitfor_safe,   \* [key, for]: completions of entries, and reads to retry
    read_pos, requested_pos, received_pos,
    readable, on_readable,
    notified,       \* the finisher has a call of on_readable
    reported,       \* the ends of the entries whose completion this process has called
    expire_pos, trimming_pos, trimmed_pos,
    heads,          \* head writes on their way, in order
    head,           \* the head in the store, last_committed
    end             \* after a crash: where the probe finds the end of the log

writing == <<log, flush_pos, next_safe_pos, pending_safe, zero_pos>>
reading == <<read_pos, requested_pos, received_pos, readable, on_readable, notified>>
trimming == <<trimming_pos, trimmed_pos, heads, head>>
jvars == <<up, writing, safe_pos, waitfor_safe, reading, reported, expire_pos, trimming, end>>

Position == Nat
Write == [start : Position, safe : Position]
Header == [write : Position, expire : Position, trimmed : Position]
Waiter == [key : Position, for : {"entry", "read"}]

IsBoundary(p) == p % 2 = 0
EndOf(l) == 2 * Len(l)
write_pos == EndOf(log)

NoHead == [write |-> 0, expire |-> 0, trimmed |-> 0]

JInit ==
    /\ up = TRUE
    /\ log = <<>>
    /\ flush_pos = 0 /\ safe_pos = 0 /\ next_safe_pos = 0
    /\ pending_safe = {}
    /\ zero_pos = 0
    /\ waitfor_safe = {}
    /\ read_pos = 0 /\ requested_pos = 0 /\ received_pos = 0
    /\ readable = FALSE /\ on_readable = FALSE /\ notified = FALSE
    /\ reported = {}
    /\ expire_pos = 0 /\ trimming_pos = 0 /\ trimmed_pos = 0
    /\ heads = <<>>
    /\ head = NoHead
    /\ end = 0

-----------------------------------------------------------------------------
(* _do_flush of the log l up to cut.  pending_safe maps the start of the   *)
(* write to the position that is safe until it ends.                       *)
Flushing(cut) ==
    /\ flush_pos' = cut
    /\ pending_safe' = IF cut > flush_pos
                       THEN pending_safe \cup {[start |-> flush_pos, safe |-> next_safe_pos]}
                       ELSE pending_safe

(* next_safe_pos: the end of the log, or the last known end of an entry    *)
(* that is in the write.                                                   *)
Keys(ws) == {w.key : w \in ws}
IsKeyBefore(k, cut, ws) ==
    /\ k \in Keys(ws) /\ next_safe_pos < k /\ k <= cut
    /\ \E g \in Keys(ws) : g >= cut
    /\ \A j \in Keys(ws) : j <= cut => j <= k
NextSafe(wp, cut, ws) ==
    IF cut = wp THEN wp
    ELSE IF \E k \in Keys(ws) : IsKeyBefore(k, cut, ws)
         THEN CHOOSE k \in Keys(ws) : IsKeyBefore(k, cut, ws)
         ELSE next_safe_pos

(* What the zeroing does not allow yet is flushed by _finish_prezero.  The *)
(* objects are zeroed one by one, so a flush goes to its target, stops     *)
(* after an object, or is not made.                                        *)
Wanting(target, cut) == zero_pos' = IF cut < target THEN target ELSE IF zero_pos <= cut THEN 0 ELSE zero_pos
Cuts(target) == {c \in flush_pos .. target : c = flush_pos \/ c = target \/ c % Period = 0}

DoFlush(target, cut) ==
    /\ cut \in Cuts(target)
    /\ Flushing(cut)
    /\ next_safe_pos' = IF cut > flush_pos THEN NextSafe(write_pos, cut, waitfor_safe) ELSE next_safe_pos
    /\ Wanting(target, cut)

(* append_entry.  When the entry fills an object, the log is flushed up to *)
(* its end; an entry of which a part is not flushed is not safe with it.   *)
AppendEntry(item) ==
    LET wp == write_pos + 2
        target == wp - (wp % Period)
    IN  /\ up
        /\ log' = Append(log, item)
        /\ IF wp \div Period = flush_pos \div Period
           THEN UNCHANGED <<flush_pos, next_safe_pos, pending_safe, zero_pos>>
           ELSE \E cut \in Cuts(target) :
                  /\ Flushing(cut)
                  /\ next_safe_pos' = IF cut < wp /\ wp - cut <= 2 THEN write_pos
                                      ELSE IF cut > flush_pos THEN NextSafe(wp, cut, waitfor_safe)
                                      ELSE next_safe_pos
                  /\ Wanting(target, cut)
        /\ UNCHANGED <<up, safe_pos, waitfor_safe, reading, reported, expire_pos, trimming, end>>

(* wait_for_flush: a completion for the log as it is.                      *)
WaitForFlush ==
    /\ up
    /\ IF write_pos = safe_pos
       THEN reported' = reported \cup {write_pos} /\ UNCHANGED waitfor_safe
       ELSE waitfor_safe' = waitfor_safe \cup {[key |-> write_pos, for |-> "entry"]} /\ UNCHANGED reported
    /\ UNCHANGED <<up, writing, safe_pos, reading, expire_pos, trimming, end>>

(* write_head and its assertions.                                          *)
HeadOfFlushed(sp) == [write |-> flush_pos, expire |-> expire_pos, trimmed |-> trimmed_pos]  \* variant
HeadOf(sp) == [write |-> sp, expire |-> expire_pos, trimmed |-> trimmed_pos]
WriteHead(sp) ==
    /\ up /\ Len(heads) < MaxHeads
    /\ heads' = Append(heads, HeadOf(sp))
    /\ UNCHANGED <<trimming_pos, trimmed_pos, head>>
MaybeWriteHead(sp) == WriteHead(sp) \/ UNCHANGED trimming

Flush ==
    /\ up
    /\ IF write_pos = flush_pos THEN UNCHANGED writing
       ELSE (\E cut \in Cuts(write_pos) : DoFlush(write_pos, cut)) /\ UNCHANGED log
    /\ MaybeWriteHead(safe_pos)
    /\ UNCHANGED <<up, safe_pos, waitfor_safe, reading, reported, expire_pos, end>>

(* _prefetch, when sp is safe, pend on its way and ws waiting: read what   *)
(* is safe; with nothing safe to read, flush and retry when more is.  When *)
(* several retries were waiting, more than one is made (again).            *)
IsLast(pend, p) == \A q \in pend : q.start <= p.start
RetryKey(pend, next) ==
    IF \E p \in pend : IsLast(pend, p) THEN (CHOOSE p \in pend : IsLast(pend, p)).safe ELSE next
Retry == [key |-> RetryKey(pending_safe', next_safe_pos'), for |-> "read"]
Prefetch(sp, pend, ws, again) ==
    IF requested_pos < write_pos
    THEN \E cut \in Cuts(write_pos) :
           LET flushes == pend = {} /\ write_pos > sp
               stuck == requested_pos = sp
           IN  /\ flushes \/ cut = flush_pos
               /\ flush_pos' = cut
               /\ pending_safe' = IF cut > flush_pos
                                  THEN {[start |-> flush_pos, safe |-> next_safe_pos]} ELSE pend
               /\ next_safe_pos' = IF cut > flush_pos THEN NextSafe(write_pos, cut, ws) ELSE next_safe_pos
               /\ IF flushes THEN Wanting(write_pos, cut) ELSE UNCHANGED zero_pos
               /\ waitfor_safe' = IF stuck \/ (again /\ sp < write_pos) THEN ws \cup {Retry} ELSE ws
               /\ requested_pos' = sp
               /\ IF stuck /\ pending_safe' = {} THEN MaybeWriteHead(sp) ELSE UNCHANGED trimming
    ELSE /\ pending_safe' = pend /\ waitfor_safe' = ws
         /\ UNCHANGED <<flush_pos, next_safe_pos, zero_pos, requested_pos, trimming>>

EntryThereHalf(rd, rc) == rd < write_pos /\ rd + 1 <= rc  \* variant

(* _is_readable: a whole entry is there.                                   *)
EntryThere(rd, rc) == rd < write_pos /\ rd + 2 <= rc

IsReadable ==
    /\ up
    /\ Prefetch(safe_pos, pending_safe, waitfor_safe, FALSE)
    /\ UNCHANGED <<up, log, safe_pos, read_pos, received_pos, readable, on_readable, notified,
                   reported, expire_pos, end>>

TryReadEntry ==
    /\ up /\ readable
    /\ read_pos' = read_pos + 2
    /\ readable' = EntryThere(read_pos', received_pos)
    /\ Prefetch(safe_pos, pending_safe, waitfor_safe, FALSE)
    /\ UNCHANGED <<up, log, safe_pos, received_pos, on_readable, notified, reported, expire_pos,
                   end>>

WaitForReadable ==
    /\ up /\ ~on_readable
    /\ on_readable' = ~readable
    /\ notified' = (notified \/ readable)
    /\ UNCHANGED <<up, writing, safe_pos, waitfor_safe, read_pos, requested_pos, received_pos,
                   readable, reported, expire_pos, trimming, end>>

(* _finish_read: some of what was asked for has come.                      *)
FinishRead ==
    /\ up /\ received_pos < requested_pos
    /\ \E rc \in {r \in received_pos + 1 .. requested_pos : IsBoundary(r) \/ r % Period = 0} :
          /\ received_pos' = rc
          /\ readable' = EntryThere(read_pos, rc)
    /\ LET wakes == on_readable /\ ((~readable /\ readable') \/ read_pos = write_pos)
       IN  /\ on_readable' = (on_readable /\ ~wakes)
           /\ notified' = (notified \/ wakes)
    /\ Prefetch(safe_pos, pending_safe, waitfor_safe, FALSE)
    /\ UNCHANGED <<up, log, safe_pos, read_pos, reported, expire_pos, end>>

(* _finish_flush of one write, in whatever order they end: what is safe    *)
(* now, who waited for it, and a read that waited goes on.                 *)
IsFirst(pend, p) == p \in pend /\ \A q \in pend : p.start <= q.start
SafeAfterAny(pend) == next_safe_pos  \* variant: the writes end in order
SafeAfter(pend) ==
    IF \E p \in pend : IsFirst(pend, p) THEN (CHOOSE p \in pend : IsFirst(pend, p)).safe
    ELSE next_safe_pos
FinishFlush(w) ==
    LET pend == pending_safe \ {w}
        sp == SafeAfter(pend)
        ready == {x \in waitfor_safe : x.key <= sp}
    IN  /\ up /\ w \in pending_safe
        /\ safe_pos' = sp
        /\ reported' = reported \cup {x.key : x \in {y \in ready : y.for = "entry"}}
        /\ IF \E x \in ready : x.for = "read"
           THEN \E again \in BOOLEAN : Prefetch(sp, pend, waitfor_safe \ ready, again)
           ELSE /\ pending_safe' = pend /\ waitfor_safe' = waitfor_safe \ ready
                /\ UNCHANGED <<flush_pos, next_safe_pos, zero_pos, requested_pos, trimming>>
        /\ UNCHANGED <<up, log, read_pos, received_pos, readable, on_readable, notified,
                       expire_pos, end>>

(* _finish_prezero: more of the log may be flushed.                        *)
FinishPrezero ==
    /\ up /\ flush_pos < zero_pos
    /\ \E cut \in Cuts(zero_pos) \ {flush_pos} : DoFlush(zero_pos, cut)
    /\ UNCHANGED <<up, log, safe_pos, waitfor_safe, reading, reported, expire_pos, trimming, end>>

(* _finish_write_head, and _trim, which removes the objects before the     *)
(* expire_pos of the head that is written.                                 *)
TrimTo(h) == h.expire - (h.expire % Period)
Trims(h) == TrimTo(h) # 0 /\ TrimTo(h) # trimming_pos /\ trimming_pos <= trimmed_pos
FinishWriteHead ==
    /\ up /\ heads # <<>>
    /\ head' = heads[1]
    /\ heads' = Tail(heads)
    /\ trimming_pos' = IF Trims(heads[1]) THEN TrimTo(heads[1]) ELSE trimming_pos
    /\ UNCHANGED <<up, writing, safe_pos, waitfor_safe, reading, reported, expire_pos,
                   trimmed_pos, end>>

(* trim, which the completion of a head that the PurgeQueue wrote calls    *)
(* once more: by then the trim that was under way may have ended.          *)
Trim ==
    /\ up /\ Trims(head)
    /\ trimming_pos' = TrimTo(head)
    /\ UNCHANGED <<up, writing, safe_pos, waitfor_safe, reading, reported, expire_pos,
                   trimmed_pos, heads, head, end>>

FinishTrim ==
    /\ up /\ trimmed_pos < trimming_pos
    /\ trimmed_pos' = trimming_pos
    /\ UNCHANGED <<up, writing, safe_pos, waitfor_safe, reading, reported, expire_pos,
                   trimming_pos, heads, head, end>>

-----------------------------------------------------------------------------
(* The heads the store may have.                                           *)
Heads == {head} \cup {heads[i] : i \in DOMAIN heads}

(* How far the log may be in the store, without a gap: before the first    *)
(* write on its way it is, and of those any object may be.                 *)
Survives(e) ==
    /\ e <= flush_pos
    /\ e = flush_pos \/ \E p \in pending_safe : p.start <= e
    /\ e = flush_pos \/ e % Period = 0 \/ \E p \in pending_safe : p.start = e

(* The process dies, with a head write that may have reached the store.    *)
(* What it had in memory is lost.                                          *)
JCrash ==
    /\ up
    /\ up' = FALSE
    /\ \E e \in 0 .. flush_pos : Survives(e) /\ end' = e /\ log' = SubSeq(log, 1, (e + 1) \div 2)
    /\ head' \in Heads
    /\ heads' = <<>>
    /\ flush_pos' = 0 /\ safe_pos' = 0 /\ next_safe_pos' = 0
    /\ pending_safe' = {} /\ zero_pos' = 0 /\ waitfor_safe' = {}
    /\ read_pos' = 0 /\ requested_pos' = 0 /\ received_pos' = 0
    /\ readable' = FALSE /\ on_readable' = FALSE /\ notified' = FALSE
    /\ expire_pos' = 0
    /\ UNCHANGED <<reported, trimming_pos, trimmed_pos>>

(* recover: the head, the probe for the end, and PurgeQueue::_recover,     *)
(* which reads on from the head's write_pos and drops half an entry.       *)
Whole(e) == e - (e % 2)
FinishReadHead ==
    /\ read_pos' = head.expire /\ requested_pos' = head.expire /\ received_pos' = head.expire
    /\ expire_pos' = head.expire
    /\ trimming_pos' = head.trimmed /\ trimmed_pos' = head.trimmed
FinishProbeEnd(e) ==
    /\ log' = SubSeq(log, 1, e \div 2)
    /\ flush_pos' = e /\ safe_pos' = e /\ next_safe_pos' = e
JRecover ==
    /\ ~up
    /\ up' = TRUE
    /\ FinishReadHead
    /\ FinishProbeEnd(Whole(end))
    /\ reported' = {}
    /\ end' = 0
    /\ UNCHANGED <<pending_safe, zero_pos, waitfor_safe, readable, on_readable, notified,
                   heads, head>>

-----------------------------------------------------------------------------
JTypeOK ==
    /\ up \in BOOLEAN
    /\ log \in Seq(Item)
    /\ flush_pos \in Position /\ safe_pos \in Position /\ next_safe_pos \in Position
    /\ zero_pos \in Position
    /\ read_pos \in Position /\ requested_pos \in Position /\ received_pos \in Position
    /\ expire_pos \in Position /\ trimming_pos \in Position /\ trimmed_pos \in Position
    /\ end \in Position
    /\ pending_safe \subseteq Write
    /\ waitfor_safe \subseteq Waiter
    /\ readable \in BOOLEAN /\ on_readable \in BOOLEAN /\ notified \in BOOLEAN
    /\ reported \subseteq Position
    /\ head \in Header
    /\ heads \in Seq(Header)

(* The assertions of the Journaler: the order of the positions, of the     *)
(* head that is written (460, 461) and trimmed (1326-1328), of the writes  *)
(* (524) and reads (957, 990), and a log as long as its head says (376).   *)
JAssertsHold ==
    /\ up =>
         /\ flush_pos <= write_pos
         /\ trimmed_pos <= expire_pos /\ expire_pos <= safe_pos
         /\ requested_pos <= safe_pos
         /\ received_pos <= requested_pos
         /\ read_pos <= received_pos
         /\ \A w \in pending_safe : w.start < flush_pos
         /\ \A h \in Heads : TrimTo(h) <= expire_pos
         /\ \A h \in Heads : Trims(h) => TrimTo(h) > trimming_pos
    /\ ~up => head.write <= end

(* What was reported safe is safe: whatever writes are still on their way, *)
(* in whatever order they end, and whenever the process dies, an entry     *)
(* whose completion was called is in the store, whole (_finish_flush,      *)
(* append_entry).                                                          *)
ReportedIsDurable ==
    \A k \in reported :
        IF up THEN \A e \in 0 .. flush_pos : Survives(e) => k <= e
        ELSE k <= end

(* The next process finds its log: the head in the store, and every head   *)
(* on its way to it, begins and ends with entries, inside what is in the   *)
(* store and after what is trimmed.                                        *)
HeadsFindTheLog ==
    \A h \in Heads :
        /\ IsBoundary(h.expire) /\ IsBoundary(h.write)
        /\ h.trimmed <= h.expire /\ h.expire <= h.write
        /\ trimming_pos <= h.expire
        /\ IF up THEN \A e \in 0 .. flush_pos : Survives(e) => h.write <= e
           ELSE h.write <= end

=============================================================================
