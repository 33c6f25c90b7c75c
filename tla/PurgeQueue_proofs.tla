---------------------------- MODULE PurgeQueue_proofs ----------------------------
(***************************************************************************)
(* What every operation of the Journaler keeps; and, resting on it, that   *)
(* no objects are leaked and nothing is expired that is not done, for any  *)
(* number of inodes, any object size, any order of the completions and any *)
(* number of crashes.                                                      *)
(***************************************************************************)
EXTENDS PurgeQueue, SequenceTheorems, WellFoundedInduction, TLAPS

-----------------------------------------------------------------------------
(* The Journaler.                                                          *)

(* The writing side, of any values: what is safe is before what is on its  *)
(* way, each write knows an end of an entry before its own start, and      *)
(* later writes know no less.                                              *)
WritesOK(sp, nsp, fp, wp, pend) ==
    /\ sp <= nsp /\ nsp <= fp /\ fp <= wp
    /\ IsBoundary(sp) /\ IsBoundary(nsp)
    /\ \A p \in pend : /\ sp <= p.safe /\ p.safe <= p.start /\ p.start < fp
                       /\ p.safe <= nsp /\ IsBoundary(p.safe)
    /\ \A p, q \in pend : /\ p.start < q.start => p.safe <= q.safe
                          /\ p.start = q.start => p = q

IsObjectStart(p) == p % Period = 0

KeysOK(ws) == \A w \in ws : IsBoundary(w.key)

Writing ==
    /\ WritesOK(safe_pos, next_safe_pos, flush_pos, write_pos, pending_safe)
    /\ KeysOK(waitfor_safe)
    /\ zero_pos <= write_pos
    /\ \A k \in reported : k <= safe_pos

Reading ==
    /\ expire_pos <= read_pos /\ read_pos <= received_pos
    /\ received_pos <= requested_pos /\ requested_pos <= safe_pos
    /\ IsBoundary(expire_pos) /\ IsBoundary(read_pos)
    /\ readable => read_pos + 2 <= received_pos

HeadOK(h) ==
    /\ h.trimmed <= h.expire /\ h.expire <= h.write
    /\ IsBoundary(h.expire) /\ IsBoundary(h.write)
    /\ IsObjectStart(h.trimmed)

HeadsInOrder ==
    /\ \A h \in Heads : HeadOK(h) /\ head.expire <= h.expire
    /\ \A i, j \in DOMAIN heads : i < j => heads[i].expire <= heads[j].expire
    /\ trimmed_pos <= trimming_pos /\ trimming_pos <= head.expire
    /\ IsObjectStart(trimmed_pos) /\ IsObjectStart(trimming_pos)

Up == up => Writing /\ Reading /\ \A h \in Heads : h.expire <= expire_pos /\ h.write <= safe_pos

Down ==
    ~up => /\ head.write <= end /\ heads = <<>>
           /\ end <= write_pos
           /\ pending_safe = {} /\ waitfor_safe = {} /\ zero_pos = 0
           /\ ~readable
           /\ \A k \in reported : k <= end

JInv == JTypeOK /\ HeadsInOrder /\ Up /\ Down

-----------------------------------------------------------------------------
(* Arithmetic.                                                             *)
LEMMA Evens ==
    ASSUME NEW n \in Nat
    PROVE  /\ IsBoundary(2 * n)
           /\ IsBoundary(2 * n + 2)
           /\ IsBoundary(0)
  BY DEF IsBoundary

LEMMA NextEven ==
    ASSUME NEW n \in Nat, IsBoundary(n)
    PROVE  IsBoundary(n + 2)
  BY DEF IsBoundary

(* An end of an entry that is not after e is not after the last whole      *)
(* entry before e.                                                         *)
LEMMA WholeProperties ==
    ASSUME NEW e \in Nat
    PROVE  /\ Whole(e) \in Nat /\ Whole(e) <= e /\ IsBoundary(Whole(e))
           /\ 2 * (Whole(e) \div 2) = Whole(e)
           /\ Whole(e) \div 2 \in Nat
           /\ \A k \in Nat : k <= e /\ IsBoundary(k) => k <= Whole(e)
  BY DEF Whole, IsBoundary

LEMMA HalfProperties ==
    ASSUME NEW e \in Nat, NEW n \in Nat, e <= 2 * n
    PROVE  /\ (e + 1) \div 2 \in 0 .. n
           /\ e <= 2 * ((e + 1) \div 2)
           /\ \A k \in Nat : 2 * k <= e => k <= (e + 1) \div 2
  OBVIOUS

(* The start of an object is not after the position it is the start of.    *)
LEMMA RoundDown ==
    ASSUME NEW x \in Nat
    PROVE  x - (x % Period) \in 0 .. x
<1>1. Period \in Nat /\ Period > 0
  BY JournalerAssumption DEF JournalerAssumption
<1>2. x % Period \in 0 .. Period - 1
  BY <1>1
<1>3. x % Period <= x
  BY <1>1
<1> QED
  BY <1>2, <1>3

(* And no other start of an object is between them.                        *)
LEMMA ObjectStarts ==
    ASSUME NEW x \in Nat
    PROVE  /\ IsObjectStart(x - (x % Period)) /\ IsObjectStart(0)
           /\ \A m \in Nat : m <= x /\ IsObjectStart(m) => m <= x - (x % Period)
<1>1. Period \in Nat /\ Period > 0
  BY JournalerAssumption DEF JournalerAssumption
<1>2. IsObjectStart(x - (x % Period)) /\ IsObjectStart(0)
  BY <1>1 DEF IsObjectStart
<1>3. ASSUME NEW m \in Nat, m <= x, m % Period = 0
      PROVE  m <= x - (x % Period)
  <2> DEFINE a == m \div Period
             b == x \div Period
  <2>1. a \in Nat /\ m = Period * a
    BY <1>1, <1>3
  <2>2. b \in Nat /\ x = Period * b + (x % Period) /\ x % Period \in 0 .. Period - 1
    BY <1>1
  <2> HIDE DEF a, b
  <2>3. CASE a <= b
    <3>1. Period * a <= Period * b
      BY <1>1, <2>1, <2>2, <2>3
    <3> QED  BY <1>1, <2>1, <2>2, <3>1
  <2>4. CASE b + 1 <= a
    <3>1. Period * (b + 1) <= Period * a
      BY <1>1, <2>1, <2>2, <2>4
    <3>2. Period * (b + 1) = Period * b + Period
      BY <1>1, <2>2
    <3> QED  BY <1>1, <1>3, <2>1, <2>2, <3>1, <3>2
  <2> QED  BY <2>1, <2>2, <2>3, <2>4
<1> QED
  BY <1>2, <1>3 DEF IsObjectStart

(* A set of writes that is not empty has a first one.                      *)
LEMMA FirstExists ==
    ASSUME NEW pend \in SUBSET Write, pend # {}
    PROVE  \E p \in pend : IsFirst(pend, p)
<1> DEFINE T == {p.start : p \in pend}
           R == OpToRel(<, Nat)
<1>1. T \subseteq Nat /\ T # {}
  BY DEF Write, Position
<1>2. R = {ss \in Nat \X Nat : ss[1] < ss[2]}
  BY Zenon DEF OpToRel
<1>3. IsWellFoundedOn(R, Nat)
  BY NatLessThanWellFounded
<1> HIDE DEF T, R
<1>4. PICK x \in T : \A y \in T : ~(<<y, x>> \in R)
  BY <1>1, <1>3, WFMin
<1>5. \A y \in T : x <= y
  <2> SUFFICES ASSUME NEW y \in T PROVE ~(y < x)
    BY <1>1
  <2>1. <<y, x>> \in Nat \X Nat /\ <<y, x>>[1] = y /\ <<y, x>>[2] = x
    BY <1>1
  <2>2. <<y, x>> \notin {ss \in Nat \X Nat : ss[1] < ss[2]}
    BY <1>2, <1>4
  <2> QED  BY <2>1, <2>2
<1>6. PICK p \in pend : p.start = x
  BY <1>4 DEF T
<1> QED
  BY <1>5, <1>6 DEF IsFirst, T

-----------------------------------------------------------------------------
(* A new write, from fp to cut.                                            *)
LEMMA FlushOK ==
    ASSUME NEW sp \in Nat, NEW nsp \in Nat, NEW fp \in Nat, NEW wp \in Nat,
           NEW pend \in SUBSET Write, NEW cut \in Nat, NEW n \in Nat,
           WritesOK(sp, nsp, fp, wp, pend),
           fp < cut, cut <= wp, nsp <= n, n <= cut, IsBoundary(n)
    PROVE  /\ WritesOK(sp, n, cut, wp, pend \cup {[start |-> fp, safe |-> nsp]})
           /\ pend \cup {[start |-> fp, safe |-> nsp]} \in SUBSET Write
<1> DEFINE w == [start |-> fp, safe |-> nsp]
<1>1. w \in Write /\ w.start = fp /\ w.safe = nsp
  BY DEF Write, Position
<1>2. \A p \in pend : p.start \in Nat /\ p.safe \in Nat
  BY DEF Write, Position
<1>3. sp <= n /\ n <= cut /\ cut <= wp /\ IsBoundary(sp) /\ IsBoundary(n)
  BY DEF WritesOK
<1>4. ASSUME NEW p \in pend \cup {w}
      PROVE  /\ sp <= p.safe /\ p.safe <= p.start /\ p.start < cut
             /\ p.safe <= n /\ IsBoundary(p.safe)
  <2> HIDE DEF w
  <2>1. CASE p = w
    BY <2>1, <1>1 DEF WritesOK
  <2>2. CASE p \in pend
    BY <2>2, <1>2 DEF WritesOK
  <2> QED  BY <2>1, <2>2
<1>5. ASSUME NEW p \in pend \cup {w}, NEW q \in pend \cup {w}
      PROVE  /\ p.start < q.start => p.safe <= q.safe
             /\ p.start = q.start => p = q
  <2> HIDE DEF w
  <2>1. CASE p = w /\ q \in pend
    BY <2>1, <1>1, <1>2 DEF WritesOK
  <2>2. CASE p \in pend /\ q = w
    BY <2>2, <1>1, <1>2 DEF WritesOK
  <2>3. CASE p \in pend /\ q \in pend
    BY <2>3 DEF WritesOK
  <2>4. CASE p = w /\ q = w
    BY <2>4, <1>1
  <2> QED  BY <2>1, <2>2, <2>3, <2>4
<1> QED
  BY <1>1, <1>3, <1>4, <1>5 DEF WritesOK

(* A write ends.                                                           *)
LEMMA FinishOK ==
    ASSUME NEW sp \in Nat, NEW fp \in Nat, NEW wp \in Nat, next_safe_pos \in Nat,
           NEW pend \in SUBSET Write,
           WritesOK(sp, next_safe_pos, fp, wp, pend),
           NEW w \in pend
    PROVE  /\ SafeAfter(pend \ {w}) \in Nat
           /\ sp <= SafeAfter(pend \ {w})
           /\ WritesOK(SafeAfter(pend \ {w}), next_safe_pos, fp, wp, pend \ {w})
<1> DEFINE rest == pend \ {w}
<1>1. rest \in SUBSET Write
  OBVIOUS
<1>2. \A p \in rest : p.start \in Nat /\ p.safe \in Nat
  BY DEF Write, Position
<1>3. CASE rest = {}
  <2>1. SafeAfter(rest) = next_safe_pos
    BY <1>3 DEF SafeAfter
  <2> QED  BY <1>3, <2>1 DEF WritesOK
<1>4. CASE rest # {}
  <2>1. PICK p \in rest : IsFirst(rest, p) /\ SafeAfter(rest) = p.safe
    BY <1>1, <1>4, FirstExists DEF SafeAfter, IsFirst
  <2>2. \A q \in rest : p.safe <= q.safe
    <3> SUFFICES ASSUME NEW q \in rest PROVE p.safe <= q.safe
      OBVIOUS
    <3>1. p.start <= q.start
      BY <2>1 DEF IsFirst
    <3>2. CASE p.start < q.start
      BY <3>2 DEF WritesOK
    <3>3. CASE p.start = q.start
      <4>1. p = q
        BY <3>3 DEF WritesOK
      <4> QED  BY <4>1, <1>2
    <3> QED  BY <3>1, <3>2, <3>3, <1>2
  <2>3. sp <= p.safe /\ p.safe <= next_safe_pos /\ IsBoundary(p.safe)
    BY DEF WritesOK
  <2> HIDE DEF rest
  <2>4. rest \subseteq pend
    BY DEF rest
  <2>5. WritesOK(p.safe, next_safe_pos, fp, wp, rest)
    BY <2>2, <2>3, <2>4 DEF WritesOK
  <2> QED  BY <1>2, <2>1, <2>3, <2>5 DEF rest
<1> QED  BY <1>3, <1>4

(* What a flush makes safe when it ends.                                   *)
LEMMA NextSafeOK ==
    ASSUME NEW wp \in Nat, NEW cut \in Nat, NEW ws \in SUBSET Waiter,
           next_safe_pos \in Nat, next_safe_pos <= cut, cut <= wp,
           IsBoundary(next_safe_pos), IsBoundary(wp), KeysOK(ws)
    PROVE  /\ NextSafe(wp, cut, ws) \in Nat
           /\ next_safe_pos <= NextSafe(wp, cut, ws)
           /\ NextSafe(wp, cut, ws) <= cut
           /\ IsBoundary(NextSafe(wp, cut, ws))
<1>1. \A k \in Keys(ws) : k \in Nat /\ IsBoundary(k)
  BY DEF Keys, KeysOK, Waiter, Position
<1>2. CASE cut = wp
  BY <1>2 DEF NextSafe
<1>3. CASE cut # wp /\ \E k \in Keys(ws) : IsKeyBefore(k, cut, ws)
  <2>1. PICK k \in Keys(ws) : IsKeyBefore(k, cut, ws) /\ NextSafe(wp, cut, ws) = k
    BY <1>3 DEF NextSafe
  <2> QED  BY <1>1, <2>1 DEF IsKeyBefore
<1>4. CASE cut # wp /\ ~\E k \in Keys(ws) : IsKeyBefore(k, cut, ws)
  BY <1>4 DEF NextSafe
<1> QED  BY <1>2, <1>3, <1>4

-----------------------------------------------------------------------------
(* Heads.                                                                  *)
LEMMA HeadTypes ==
    ASSUME JTypeOK
    PROVE  /\ Heads \in SUBSET Header
           /\ \A h \in Heads : h.write \in Nat /\ h.expire \in Nat /\ h.trimmed \in Nat
           /\ \A i \in DOMAIN heads : heads[i] \in Heads
           /\ head \in Heads
<1>1. head \in Header /\ \A i \in DOMAIN heads : heads[i] \in Header
  BY DEF JTypeOK
<1>2. Heads \in SUBSET Header
  BY <1>1 DEF Heads
<1> QED
  BY <1>2 DEF Heads, Header, Position

HeadsWithin(sp) == \A h \in Heads : h.expire <= expire_pos /\ h.write <= sp

LEMMA WriteHeadOK ==
    ASSUME JTypeOK, HeadsInOrder, NEW sp \in Nat, HeadsWithin(sp),
           IsBoundary(sp), IsBoundary(expire_pos), expire_pos <= sp,
           MaybeWriteHead(sp)
    PROVE  /\ heads' \in Seq(Header) /\ head' \in Header
           /\ trimming_pos' \in Nat /\ trimmed_pos' \in Nat
           /\ HeadsInOrder'
           /\ \A h \in Heads' : h.expire <= expire_pos /\ h.write <= sp
<1>1. CASE UNCHANGED trimming
  BY <1>1 DEF trimming, JTypeOK, HeadsInOrder, HeadsWithin, Heads, Position
<1>2. CASE WriteHead(sp)
  <2> DEFINE n == HeadOf(sp)
  <2>1. /\ n \in Header /\ n.write = sp /\ n.expire = expire_pos /\ n.trimmed = trimmed_pos
        /\ expire_pos \in Nat /\ trimmed_pos \in Nat /\ trimming_pos \in Nat
    BY DEF HeadOf, Header, Position, JTypeOK
  <2> HIDE DEF n
  <2>2. /\ heads' = Append(heads, n) /\ head' = head
        /\ trimming_pos' = trimming_pos /\ trimmed_pos' = trimmed_pos
        /\ heads \in Seq(Header)
    BY <1>2 DEF WriteHead, n, JTypeOK
  <2>3. /\ heads' \in Seq(Header) /\ Len(heads') = Len(heads) + 1
        /\ \A i \in 1 .. Len(heads) : heads'[i] = heads[i]
        /\ heads'[Len(heads) + 1] = n
    BY <2>1, <2>2, AppendProperties
  <2>4. DOMAIN heads' = 1 .. Len(heads) + 1 /\ DOMAIN heads = 1 .. Len(heads) /\ Len(heads) \in Nat
    BY <2>2, <2>3
  <2>5. \A h \in Heads' : h \in Heads \/ h = n
    BY <2>2, <2>3, <2>4 DEF Heads
  <2>6. \A h \in Heads : h.expire \in Nat /\ h.write \in Nat /\ h.trimmed \in Nat
    BY HeadTypes
  <2>7. HeadOK(n) /\ head.expire <= n.expire
    <3>1. trimmed_pos <= trimming_pos /\ trimming_pos <= head.expire /\ head.expire <= expire_pos
          /\ IsObjectStart(trimmed_pos)
      BY HeadTypes DEF HeadsInOrder, HeadsWithin
    <3> QED  BY <2>1, <3>1, HeadTypes DEF HeadOK
  <2>8. \A h \in Heads' : HeadOK(h) /\ head'.expire <= h.expire
    BY <2>2, <2>5, <2>7 DEF HeadsInOrder
  <2>9. \A i, j \in DOMAIN heads' : i < j => heads'[i].expire <= heads'[j].expire
    <3> SUFFICES ASSUME NEW i \in DOMAIN heads', NEW j \in DOMAIN heads', i < j
                 PROVE  heads'[i].expire <= heads'[j].expire
      OBVIOUS
    <3>1. i \in DOMAIN heads /\ heads'[i] = heads[i]
      BY <2>3, <2>4
    <3>2. CASE j \in DOMAIN heads
      BY <3>1, <3>2, <2>3, <2>4 DEF HeadsInOrder
    <3>3. CASE j = Len(heads) + 1
      BY <3>1, <3>3, <2>1, <2>3, HeadTypes DEF HeadsWithin
    <3> QED  BY <2>4, <3>2, <3>3
  <2>10. \A h \in Heads' : h.expire <= expire_pos /\ h.write <= sp
    BY <2>1, <2>5 DEF HeadsWithin
  <2> QED
    BY <2>1, <2>2, <2>3, <2>8, <2>9, <2>10 DEF HeadsInOrder, JTypeOK
<1> QED
  BY <1>1, <1>2 DEF MaybeWriteHead

-----------------------------------------------------------------------------
(* _prefetch: it may flush, and it never asks for more than is safe.       *)
LEMMA PrefetchOK ==
    ASSUME JTypeOK, HeadsInOrder,
           NEW sp \in Nat, NEW pend \in SUBSET Write, NEW ws \in SUBSET Waiter, NEW again,
           WritesOK(sp, next_safe_pos, flush_pos, write_pos, pend), KeysOK(ws),
           zero_pos <= write_pos, requested_pos <= sp,
           HeadsWithin(sp), IsBoundary(expire_pos), expire_pos <= sp,
           Prefetch(sp, pend, ws, again)
    PROVE  /\ flush_pos' \in Nat /\ next_safe_pos' \in Nat /\ zero_pos' \in Nat
           /\ requested_pos' \in Nat /\ requested_pos <= requested_pos' /\ requested_pos' <= sp
           /\ pending_safe' \in SUBSET Write /\ waitfor_safe' \in SUBSET Waiter
           /\ WritesOK(sp, next_safe_pos', flush_pos', write_pos, pending_safe')
           /\ KeysOK(waitfor_safe') /\ zero_pos' <= write_pos
           /\ heads' \in Seq(Header) /\ head' \in Header
           /\ trimming_pos' \in Nat /\ trimmed_pos' \in Nat
           /\ HeadsInOrder'
           /\ \A h \in Heads' : h.expire <= expire_pos /\ h.write <= sp
<1>1. /\ write_pos \in Nat /\ IsBoundary(write_pos) /\ Len(log) \in Nat
      /\ flush_pos \in Nat /\ next_safe_pos \in Nat /\ zero_pos \in Nat /\ requested_pos \in Nat
  BY Evens DEF JTypeOK, Position, write_pos, EndOf
<1>2. IsBoundary(sp) /\ IsBoundary(next_safe_pos) /\ next_safe_pos <= flush_pos
      /\ flush_pos <= write_pos
  BY DEF WritesOK
<1>3. CASE ~(requested_pos < write_pos)
  <2>1. UNCHANGED trimming /\ pending_safe' = pend /\ waitfor_safe' = ws
        /\ UNCHANGED <<flush_pos, next_safe_pos, zero_pos, requested_pos>>
    BY <1>3 DEF Prefetch
  <2>2. MaybeWriteHead(sp)
    BY <2>1 DEF MaybeWriteHead
  <2> QED
    BY <1>1, <1>2, <2>1, <2>2, WriteHeadOK
<1>4. CASE requested_pos < write_pos
  <2>1. PICK cut \in Cuts(write_pos) :
             /\ (pend = {} /\ write_pos > sp) \/ cut = flush_pos
             /\ flush_pos' = cut
             /\ pending_safe' = IF cut > flush_pos
                                THEN {[start |-> flush_pos, safe |-> next_safe_pos]} ELSE pend
             /\ next_safe_pos' = IF cut > flush_pos THEN NextSafe(write_pos, cut, ws) ELSE next_safe_pos
             /\ IF pend = {} /\ write_pos > sp THEN Wanting(write_pos, cut) ELSE UNCHANGED zero_pos
             /\ waitfor_safe' = ws \/ waitfor_safe' = ws \cup {Retry}
             /\ requested_pos' = sp
             /\ MaybeWriteHead(sp) \/ UNCHANGED trimming
    BY <1>4 DEF Prefetch
  <2>2. cut \in Nat /\ flush_pos <= cut /\ cut <= write_pos
    BY <1>1 DEF Cuts
  <2>3. MaybeWriteHead(sp)
    BY <2>1 DEF MaybeWriteHead
  <2>4. /\ next_safe_pos' \in Nat /\ flush_pos' \in Nat
        /\ WritesOK(sp, next_safe_pos', flush_pos', write_pos, pending_safe')
        /\ pending_safe' \in SUBSET Write
    <3>1. CASE cut > flush_pos
      <4> DEFINE n == NextSafe(write_pos, cut, ws)
      <4>1. n \in Nat /\ next_safe_pos <= n /\ n <= cut /\ IsBoundary(n)
        BY <1>1, <1>2, <2>2, NextSafeOK
      <4> HIDE DEF n
      <4>2. pend = {} /\ next_safe_pos' = n /\ flush_pos' = cut
            /\ pending_safe' = pend \cup {[start |-> flush_pos, safe |-> next_safe_pos]}
        <5>1. cut # flush_pos
          BY <1>1, <2>2, <3>1
        <5>2. pend = {}
          BY <2>1, <5>1
        <5>3. pending_safe' = {[start |-> flush_pos, safe |-> next_safe_pos]}
          BY <2>1, <3>1
        <5>4. next_safe_pos' = n /\ flush_pos' = cut
          BY <2>1, <3>1 DEF n
        <5> QED  BY <5>2, <5>3, <5>4
      <4>3. /\ WritesOK(sp, n, cut, write_pos, pend \cup {[start |-> flush_pos, safe |-> next_safe_pos]})
            /\ pend \cup {[start |-> flush_pos, safe |-> next_safe_pos]} \in SUBSET Write
        BY <1>1, <2>2, <3>1, <4>1, FlushOK
      <4> QED  BY <2>2, <4>1, <4>2, <4>3
    <3>2. CASE cut = flush_pos
      BY <1>1, <2>1, <3>2
    <3> QED  BY <1>1, <2>2, <3>1, <3>2
  <2>5. waitfor_safe' \in SUBSET Waiter /\ KeysOK(waitfor_safe')
    <3>1. Retry \in Waiter /\ IsBoundary(Retry.key)
      <4> DEFINE k == RetryKey(pending_safe', next_safe_pos')
      <4>1. k \in Nat /\ IsBoundary(k)
        <5>1. CASE \E p \in pending_safe' : IsLast(pending_safe', p)
          <6>1. PICK p \in pending_safe' : k = p.safe
            BY <5>1 DEF RetryKey
          <6> QED  BY <2>4, <6>1 DEF WritesOK, Write, Position
        <5>2. CASE ~\E p \in pending_safe' : IsLast(pending_safe', p)
          BY <2>4, <5>2 DEF RetryKey, WritesOK
        <5> QED  BY <5>1, <5>2
      <4> HIDE DEF k
      <4>2. Retry = [key |-> k, for |-> "read"]
        BY DEF Retry, k
      <4> QED  BY <4>1, <4>2 DEF Waiter, Position
    <3> QED  BY <2>1, <3>1 DEF KeysOK
  <2>6. zero_pos' \in Nat /\ zero_pos' <= write_pos
    BY <1>1, <2>1, <2>2 DEF Wanting
  <2>7. requested_pos' = sp
    BY <2>1
  <2> QED
    BY <2>3, <2>4, <2>5, <2>6, <2>7, WriteHeadOK, <1>1, <1>2
<1> QED
  BY <1>3, <1>4

-----------------------------------------------------------------------------
(* Every operation keeps the invariant.                                    *)
LEMMA Facts ==
    ASSUME JInv
    PROVE  /\ JTypeOK /\ HeadsInOrder
           /\ log \in Seq(Item) /\ Len(log) \in Nat
           /\ write_pos \in Nat /\ IsBoundary(write_pos) /\ write_pos = 2 * Len(log)
           /\ flush_pos \in Nat /\ safe_pos \in Nat /\ next_safe_pos \in Nat /\ zero_pos \in Nat
           /\ read_pos \in Nat /\ requested_pos \in Nat /\ received_pos \in Nat
           /\ expire_pos \in Nat /\ trimming_pos \in Nat /\ trimmed_pos \in Nat /\ end \in Nat
           /\ pending_safe \in SUBSET Write /\ waitfor_safe \in SUBSET Waiter
           /\ reported \in SUBSET Nat
           /\ up => Writing /\ Reading /\ HeadsWithin(safe_pos)
  BY Evens DEF JInv, JTypeOK, Position, write_pos, EndOf, Up, HeadsWithin

(* The types and the heads when neither the store nor the trimming moves.  *)
LEMMA HeadsStay ==
    ASSUME JInv, UNCHANGED trimming
    PROVE  HeadsInOrder' /\ Heads' = Heads
  BY DEF JInv, HeadsInOrder, Heads, trimming

LEMMA StutterInv ==
    ASSUME JInv, UNCHANGED jvars
    PROVE  JInv'
<1> USE DEF jvars, writing, reading, trimming
<1>1. JTypeOK'
  BY DEF JInv, JTypeOK
<1>2. HeadsInOrder' /\ Heads' = Heads
  BY HeadsStay
<1>3. Up'
  BY <1>2 DEF JInv, Up, Writing, Reading, write_pos, EndOf
<1>4. Down'
  BY DEF JInv, Down, write_pos, EndOf
<1> QED  BY <1>1, <1>2, <1>3, <1>4 DEF JInv

LEMMA AppendEntryInv ==
    ASSUME JInv, NEW item \in Item, AppendEntry(item)
    PROVE  JInv' /\ Len(log') = Len(log) + 1 /\ \A k \in DOMAIN log : log'[k] = log[k]
<1> DEFINE wp == write_pos + 2
           target == wp - (wp % Period)
<1> USE DEF reading, trimming
<1>1. /\ up /\ up' = up /\ log' = Append(log, item)
      /\ safe_pos' = safe_pos /\ waitfor_safe' = waitfor_safe /\ reported' = reported
      /\ UNCHANGED <<reading, expire_pos, trimming, end>>
  BY DEF AppendEntry
<1>2. /\ log' \in Seq(Item) /\ Len(log') = Len(log) + 1
      /\ \A k \in DOMAIN log : log'[k] = log[k]
  BY <1>1, Facts, AppendProperties
<1>3. wp \in Nat /\ IsBoundary(wp) /\ write_pos' = wp
  <2>1. write_pos \in Nat /\ IsBoundary(write_pos) /\ write_pos = 2 * Len(log) /\ Len(log) \in Nat
    BY Facts
  <2>2. write_pos' = 2 * (Len(log) + 1)
    BY <1>2 DEF write_pos, EndOf
  <2> QED  BY <2>1, <2>2, NextEven
<1>4. /\ WritesOK(safe_pos, next_safe_pos, flush_pos, write_pos, pending_safe)
      /\ KeysOK(waitfor_safe) /\ zero_pos <= write_pos /\ \A k \in reported : k <= safe_pos
      /\ Reading /\ HeadsWithin(safe_pos)
  BY <1>1, Facts DEF Writing
<1>5. WritesOK(safe_pos, next_safe_pos, flush_pos, wp, pending_safe)
  BY <1>4, Facts DEF WritesOK
<1>6. /\ WritesOK(safe_pos, next_safe_pos', flush_pos', wp, pending_safe')
      /\ flush_pos' \in Nat /\ next_safe_pos' \in Nat /\ pending_safe' \in SUBSET Write
      /\ zero_pos' \in Nat /\ zero_pos' <= wp
  <2>1. CASE wp \div Period = flush_pos \div Period
    BY <2>1, <1>4, <1>5, Facts DEF AppendEntry
  <2>2. CASE wp \div Period # flush_pos \div Period
    <3>1. PICK cut \in Cuts(target) :
              /\ Flushing(cut)
              /\ next_safe_pos' = IF cut < wp /\ wp - cut <= 2 THEN write_pos
                                  ELSE IF cut > flush_pos THEN NextSafe(wp, cut, waitfor_safe)
                                  ELSE next_safe_pos
              /\ Wanting(target, cut)
      BY <2>2 DEF AppendEntry
    <3>2. target \in 0 .. wp
      BY <1>3, RoundDown
    <3> HIDE DEF target
    <3>3. cut \in Nat /\ flush_pos <= cut /\ cut <= wp
      BY <1>3, <3>2, Facts DEF Cuts
    <3>4. zero_pos' \in Nat /\ zero_pos' <= wp
      BY <3>1, <3>2, <3>3, <1>3, <1>4, Facts DEF Wanting
    <3>5. next_safe_pos <= flush_pos /\ flush_pos <= write_pos /\ IsBoundary(next_safe_pos)
      BY <1>4 DEF WritesOK
    <3>6. next_safe_pos' \in Nat /\ next_safe_pos <= next_safe_pos' /\ next_safe_pos' <= cut
          /\ IsBoundary(next_safe_pos')
      <4>1. CASE cut < wp /\ wp - cut <= 2
        BY <3>1, <3>3, <3>5, <4>1, Facts
      <4>2. CASE ~(cut < wp /\ wp - cut <= 2) /\ cut > flush_pos
        <5>1. next_safe_pos' = NextSafe(wp, cut, waitfor_safe)
          BY <3>1, <4>2
        <5>2. next_safe_pos <= cut
          BY <3>3, <3>5, Facts
        <5> QED  BY <5>1, <5>2, <1>3, <1>4, <3>3, <3>5, Facts, NextSafeOK
      <4>3. CASE ~(cut < wp /\ wp - cut <= 2) /\ ~(cut > flush_pos)
        BY <3>1, <3>3, <3>5, <4>3, Facts
      <4> QED  BY <4>1, <4>2, <4>3
    <3>7. CASE cut > flush_pos
      <4>1. flush_pos' = cut
            /\ pending_safe' = pending_safe \cup {[start |-> flush_pos, safe |-> next_safe_pos]}
        BY <3>1, <3>7 DEF Flushing
      <4> DEFINE n == next_safe_pos'
      <4>2. n \in Nat /\ next_safe_pos <= n /\ n <= cut /\ IsBoundary(n)
        BY <3>6
      <4> HIDE DEF n, wp
      <4>3. /\ WritesOK(safe_pos, n, cut, wp, pending_safe \cup {[start |-> flush_pos, safe |-> next_safe_pos]})
            /\ pending_safe \cup {[start |-> flush_pos, safe |-> next_safe_pos]} \in SUBSET Write
        BY <1>3, <1>5, <3>3, <3>7, <4>2, Facts, FlushOK
      <4> QED  BY <4>1, <4>2, <4>3, <3>3, <3>4 DEF n
    <3>8. CASE cut = flush_pos
      <4>1. flush_pos' = flush_pos /\ pending_safe' = pending_safe
        BY <3>1, <3>8, Facts DEF Flushing
      <4>2. WritesOK(safe_pos, next_safe_pos', flush_pos, wp, pending_safe)
        BY <1>5, <3>6, <3>8, Facts DEF WritesOK, Write, Position
      <4> QED  BY <4>1, <4>2, <3>4, <3>6, Facts
    <3> QED  BY <3>3, <3>7, <3>8, Facts
  <2> QED  BY <2>1, <2>2
<1>7. JTypeOK'
  BY <1>1, <1>2, <1>6 DEF JInv, JTypeOK, Position
<1>8. HeadsInOrder' /\ Heads' = Heads
  BY <1>1, HeadsStay
<1>9. Up'
  <2>1. Writing'
    BY <1>1, <1>3, <1>4, <1>6 DEF Writing
  <2>2. Reading'
    BY <1>1, <1>4 DEF Reading
  <2> QED  BY <1>1, <1>4, <1>8, <2>1, <2>2 DEF Up, HeadsWithin
<1> QED
  BY <1>1, <1>2, <1>7, <1>8, <1>9 DEF JInv, Down

LEMMA WaitForFlushInv ==
    ASSUME JInv, WaitForFlush
    PROVE  JInv'
<1> USE DEF writing, reading, trimming
<1>1. up /\ up' = up /\ UNCHANGED <<writing, safe_pos, reading, expire_pos, trimming, end>>
      /\ write_pos' = write_pos
  BY DEF WaitForFlush, write_pos
<1>2. /\ WritesOK(safe_pos, next_safe_pos, flush_pos, write_pos, pending_safe)
      /\ KeysOK(waitfor_safe) /\ zero_pos <= write_pos /\ \A k \in reported : k <= safe_pos
      /\ Reading /\ HeadsWithin(safe_pos)
  BY <1>1, Facts DEF Writing
<1>3. /\ waitfor_safe' \in SUBSET Waiter /\ KeysOK(waitfor_safe')
      /\ reported' \in SUBSET Nat /\ \A k \in reported' : k <= safe_pos
  <2>1. CASE write_pos = safe_pos
    BY <2>1, <1>2, Facts DEF WaitForFlush
  <2>2. CASE write_pos # safe_pos
    <3> DEFINE w == [key |-> write_pos, for |-> "entry"]
    <3>1. w \in Waiter /\ w.key = write_pos
      BY Facts DEF Waiter, Position
    <3>2. waitfor_safe' = waitfor_safe \cup {w} /\ reported' = reported
      BY <2>2 DEF WaitForFlush
    <3> HIDE DEF w
    <3> QED  BY <3>1, <3>2, <1>2, Facts DEF KeysOK
  <2> QED  BY <2>1, <2>2
<1>4. JTypeOK'
  BY <1>1, <1>3 DEF JInv, JTypeOK, Position
<1>5. HeadsInOrder' /\ Heads' = Heads
  BY <1>1, HeadsStay
<1>6. Up'
  BY <1>1, <1>2, <1>3, <1>5 DEF Up, Writing, Reading, HeadsWithin
<1> QED
  BY <1>1, <1>4, <1>5, <1>6 DEF JInv, Down

LEMMA DoFlushOK ==
    ASSUME JInv, up, NEW t \in Nat, t <= write_pos, NEW cut, DoFlush(t, cut)
    PROVE  /\ flush_pos' \in Nat /\ next_safe_pos' \in Nat /\ pending_safe' \in SUBSET Write
           /\ WritesOK(safe_pos, next_safe_pos', flush_pos', write_pos, pending_safe')
           /\ zero_pos' \in Nat /\ zero_pos' <= write_pos
<1>1. /\ WritesOK(safe_pos, next_safe_pos, flush_pos, write_pos, pending_safe)
      /\ KeysOK(waitfor_safe) /\ zero_pos <= write_pos
  BY Facts DEF Writing
<1>2. cut \in Nat /\ flush_pos <= cut /\ cut <= write_pos
  BY Facts DEF DoFlush, Cuts
<1>3. zero_pos' \in Nat /\ zero_pos' <= write_pos
  BY <1>1, <1>2, Facts DEF DoFlush, Wanting
<1>4. CASE cut > flush_pos
  <2> DEFINE n == NextSafe(write_pos, cut, waitfor_safe)
  <2>1. next_safe_pos <= cut /\ IsBoundary(next_safe_pos)
    BY <1>1, <1>2, Facts DEF WritesOK
  <2>2. n \in Nat /\ next_safe_pos <= n /\ n <= cut /\ IsBoundary(n)
    BY <1>1, <1>2, <2>1, Facts, NextSafeOK
  <2> HIDE DEF n
  <2>3. flush_pos' = cut /\ next_safe_pos' = n
        /\ pending_safe' = pending_safe \cup {[start |-> flush_pos, safe |-> next_safe_pos]}
    BY <1>4 DEF DoFlush, Flushing, n
  <2>4. /\ WritesOK(safe_pos, n, cut, write_pos, pending_safe \cup {[start |-> flush_pos, safe |-> next_safe_pos]})
        /\ pending_safe \cup {[start |-> flush_pos, safe |-> next_safe_pos]} \in SUBSET Write
    BY <1>1, <1>2, <1>4, <2>2, Facts, FlushOK
  <2> QED  BY <1>2, <1>3, <2>2, <2>3, <2>4
<1>5. CASE cut = flush_pos
  <2>1. flush_pos' = flush_pos /\ next_safe_pos' = next_safe_pos /\ pending_safe' = pending_safe
    BY <1>5, Facts DEF DoFlush, Flushing
  <2> QED  BY <1>1, <1>3, <2>1, Facts
<1> QED  BY <1>2, <1>4, <1>5, Facts

LEMMA FlushInv ==
    ASSUME JInv, Flush
    PROVE  JInv'
<1> USE DEF reading
<1>1. /\ up /\ up' = up /\ log' = log /\ write_pos' = write_pos
      /\ UNCHANGED <<safe_pos, waitfor_safe, reading, reported, expire_pos, end>>
      /\ MaybeWriteHead(safe_pos)
  BY DEF Flush, writing, write_pos
<1>2. Writing /\ Reading /\ HeadsWithin(safe_pos)
  BY <1>1, Facts
<1>3. /\ flush_pos' \in Nat /\ next_safe_pos' \in Nat /\ pending_safe' \in SUBSET Write
      /\ WritesOK(safe_pos, next_safe_pos', flush_pos', write_pos, pending_safe')
      /\ zero_pos' \in Nat /\ zero_pos' <= write_pos
  <2>1. CASE write_pos = flush_pos
    BY <2>1, <1>2, Facts DEF Flush, writing, Writing
  <2>2. CASE write_pos # flush_pos
    <3>1. PICK cut : DoFlush(write_pos, cut)
      BY <2>2 DEF Flush
    <3> QED  BY <1>1, <3>1, DoFlushOK, Facts
  <2> QED  BY <2>1, <2>2
<1>4. IsBoundary(safe_pos) /\ IsBoundary(expire_pos) /\ expire_pos <= safe_pos
  BY <1>2, Facts DEF Writing, WritesOK, Reading
<1>5. /\ heads' \in Seq(Header) /\ head' \in Header
      /\ trimming_pos' \in Nat /\ trimmed_pos' \in Nat
      /\ HeadsInOrder'
      /\ \A h \in Heads' : h.expire <= expire_pos /\ h.write <= safe_pos
  BY <1>1, <1>2, <1>4, Facts, WriteHeadOK
<1>6. JTypeOK'
  BY <1>1, <1>3, <1>5 DEF JInv, JTypeOK, Position
<1>7. Up'
  BY <1>1, <1>2, <1>3, <1>5 DEF Up, Writing, Reading
<1> QED
  BY <1>1, <1>5, <1>6, <1>7 DEF JInv, Down

LEMMA FinishPrezeroInv ==
    ASSUME JInv, FinishPrezero
    PROVE  JInv'
<1> USE DEF reading, trimming
<1>1. /\ up /\ up' = up /\ log' = log /\ write_pos' = write_pos
      /\ UNCHANGED <<safe_pos, waitfor_safe, reading, reported, expire_pos, trimming, end>>
  BY DEF FinishPrezero, write_pos
<1>2. Writing /\ Reading /\ HeadsWithin(safe_pos)
  BY <1>1, Facts
<1>3. PICK cut : DoFlush(zero_pos, cut)
  BY DEF FinishPrezero
<1>4. /\ flush_pos' \in Nat /\ next_safe_pos' \in Nat /\ pending_safe' \in SUBSET Write
      /\ WritesOK(safe_pos, next_safe_pos', flush_pos', write_pos, pending_safe')
      /\ zero_pos' \in Nat /\ zero_pos' <= write_pos
  BY <1>1, <1>2, <1>3, DoFlushOK, Facts DEF Writing
<1>5. HeadsInOrder' /\ Heads' = Heads
  BY <1>1, HeadsStay
<1>6. JTypeOK'
  BY <1>1, <1>4 DEF JInv, JTypeOK, Position
<1>7. Up'
  BY <1>1, <1>2, <1>4, <1>5 DEF Up, Writing, Reading, HeadsWithin
<1> QED
  BY <1>1, <1>5, <1>6, <1>7 DEF JInv, Down

(* A step that reads, or has read, and prefetches.                         *)
LEMMA PrefetchInv ==
    ASSUME JInv, up, Prefetch(safe_pos, pending_safe, waitfor_safe, FALSE),
           UNCHANGED <<up, log, safe_pos, reported, expire_pos, end>>,
           read_pos' \in Nat, received_pos' \in Nat,
           readable' \in BOOLEAN, on_readable' \in BOOLEAN, notified' \in BOOLEAN,
           expire_pos <= read_pos', read_pos' <= received_pos', received_pos' <= requested_pos,
           IsBoundary(read_pos'), readable' => read_pos' + 2 <= received_pos'
    PROVE  JInv'
<1>1. Writing /\ Reading /\ HeadsWithin(safe_pos) /\ write_pos' = write_pos
  BY Facts DEF write_pos
<1>2. IsBoundary(expire_pos) /\ expire_pos <= safe_pos /\ requested_pos <= safe_pos
  BY <1>1, Facts DEF Reading
<1>3. /\ flush_pos' \in Nat /\ next_safe_pos' \in Nat /\ zero_pos' \in Nat
      /\ requested_pos' \in Nat /\ requested_pos <= requested_pos' /\ requested_pos' <= safe_pos
      /\ pending_safe' \in SUBSET Write /\ waitfor_safe' \in SUBSET Waiter
      /\ WritesOK(safe_pos, next_safe_pos', flush_pos', write_pos, pending_safe')
      /\ KeysOK(waitfor_safe') /\ zero_pos' <= write_pos
      /\ heads' \in Seq(Header) /\ head' \in Header
      /\ trimming_pos' \in Nat /\ trimmed_pos' \in Nat
      /\ HeadsInOrder'
      /\ \A h \in Heads' : h.expire <= expire_pos /\ h.write <= safe_pos
  BY <1>1, <1>2, Facts, PrefetchOK DEF Writing
<1>4. JTypeOK'
  BY <1>3 DEF JInv, JTypeOK, Position
<1>5. Reading'
  <2>1. expire_pos' = expire_pos /\ safe_pos' = safe_pos
    OBVIOUS
  <2>2. received_pos' <= requested_pos'
    <3>1. requested_pos \in Nat
      BY Facts
    <3>2. requested_pos' \in Nat /\ requested_pos <= requested_pos'
      BY <1>3
    <3> QED  BY <3>1, <3>2
  <2>3. /\ expire_pos' <= read_pos' /\ requested_pos' <= safe_pos' /\ IsBoundary(expire_pos')
    BY <1>2, <1>3, <2>1
  <2> QED  BY <2>2, <2>3 DEF Reading
<1>6. Up'
  BY <1>1, <1>3, <1>5 DEF Up, Writing
<1> QED
  BY <1>3, <1>4, <1>6 DEF JInv, Down

LEMMA IsReadableInv ==
    ASSUME JInv, IsReadable
    PROVE  JInv'
<1>1. /\ up /\ Prefetch(safe_pos, pending_safe, waitfor_safe, FALSE)
      /\ UNCHANGED <<up, log, safe_pos, reported, expire_pos, end>>
      /\ UNCHANGED <<read_pos, received_pos, readable, on_readable, notified>>
  BY DEF IsReadable
<1>2. readable' \in BOOLEAN /\ on_readable' \in BOOLEAN /\ notified' \in BOOLEAN
  BY <1>1 DEF JInv, JTypeOK
<1>3. /\ read_pos' \in Nat /\ received_pos' \in Nat
      /\ expire_pos <= read_pos' /\ read_pos' <= received_pos' /\ received_pos' <= requested_pos
      /\ IsBoundary(read_pos') /\ (readable' => read_pos' + 2 <= received_pos')
  BY <1>1, Facts DEF Reading
<1> QED
  BY <1>1, <1>2, <1>3, PrefetchInv

LEMMA TryReadEntryInv ==
    ASSUME JInv, TryReadEntry
    PROVE  JInv'
<1>1. Reading /\ on_readable \in BOOLEAN /\ notified \in BOOLEAN /\ readable
  BY Facts DEF TryReadEntry, JTypeOK
<1>2. read_pos' = read_pos + 2 /\ received_pos' = received_pos
      /\ readable' = EntryThere(read_pos', received_pos)
  BY DEF TryReadEntry
<1>3. readable' \in BOOLEAN /\ (readable' => read_pos' + 2 <= received_pos')
  BY <1>2 DEF EntryThere
<1>4. read_pos' \in Nat /\ IsBoundary(read_pos') /\ expire_pos <= read_pos'
      /\ read_pos' <= received_pos' /\ received_pos' \in Nat /\ received_pos' <= requested_pos
  <2>1. /\ expire_pos <= read_pos /\ received_pos <= requested_pos /\ IsBoundary(read_pos)
        /\ read_pos + 2 <= received_pos
    BY <1>1, Zenon DEF Reading
  <2>2. read_pos \in Nat /\ received_pos \in Nat /\ expire_pos \in Nat
    BY Facts
  <2>3. IsBoundary(read_pos + 2)
    BY <2>1, <2>2, NextEven
  <2> QED  BY <1>2, <2>1, <2>2, <2>3
<1> QED
  BY <1>1, <1>3, <1>4, PrefetchInv DEF TryReadEntry

LEMMA FinishReadInv ==
    ASSUME JInv, FinishRead
    PROVE  JInv'
<1>1. Reading /\ up
  BY Facts DEF FinishRead
<1>2. PICK rc \in received_pos + 1 .. requested_pos :
          received_pos' = rc /\ readable' = EntryThere(read_pos, rc)
  BY DEF FinishRead
<1>3. read_pos' = read_pos /\ readable' \in BOOLEAN /\ (readable' => read_pos' + 2 <= received_pos')
  BY <1>2 DEF EntryThere, FinishRead
<1>4. on_readable' \in BOOLEAN /\ notified' \in BOOLEAN
  BY DEF FinishRead
<1>4a. /\ Prefetch(safe_pos, pending_safe, waitfor_safe, FALSE)
      /\ UNCHANGED <<up, log, safe_pos, reported, expire_pos, end>>
  BY DEF FinishRead
<1>5. read_pos' \in Nat /\ IsBoundary(read_pos') /\ expire_pos <= read_pos'
      /\ read_pos' <= received_pos' /\ received_pos' \in Nat /\ received_pos' <= requested_pos
  BY <1>1, <1>2, <1>3, Facts DEF Reading
<1> QED
  BY <1>1, <1>3, <1>4, <1>4a, <1>5, PrefetchInv

LEMMA WaitForReadableInv ==
    ASSUME JInv, WaitForReadable
    PROVE  JInv'
<1> USE DEF writing, trimming
<1>1. /\ up /\ up' = up /\ write_pos' = write_pos
      /\ UNCHANGED <<writing, safe_pos, waitfor_safe, read_pos, requested_pos, received_pos,
                     readable, reported, expire_pos, trimming, end>>
  BY DEF WaitForReadable, write_pos
<1>2. on_readable' \in BOOLEAN /\ notified' \in BOOLEAN
  BY DEF WaitForReadable
<1>3. JTypeOK'
  BY <1>1, <1>2 DEF JInv, JTypeOK
<1>4. HeadsInOrder' /\ Heads' = Heads
  BY <1>1, HeadsStay
<1>5. Up'
  BY <1>1, <1>4 DEF JInv, Up, Writing, Reading
<1> QED
  BY <1>1, <1>3, <1>4, <1>5 DEF JInv, Down

LEMMA FinishFlushInv ==
    ASSUME JInv, NEW w, FinishFlush(w)
    PROVE  JInv'
<1> DEFINE pend == pending_safe \ {w}
           sp == SafeAfter(pend)
           ready == {x \in waitfor_safe : x.key <= sp}
<1>1. /\ up /\ up' = up /\ log' = log /\ write_pos' = write_pos /\ safe_pos' = sp
      /\ UNCHANGED <<read_pos, received_pos, readable, on_readable, notified, expire_pos, end>>
      /\ w \in pending_safe
  BY DEF FinishFlush, write_pos
<1>2. Writing /\ Reading /\ HeadsWithin(safe_pos)
  BY <1>1, Facts
<1>3. WritesOK(safe_pos, next_safe_pos, flush_pos, write_pos, pending_safe)
  BY <1>2 DEF Writing
<1>4. /\ sp \in Nat /\ safe_pos <= sp
      /\ WritesOK(sp, next_safe_pos, flush_pos, write_pos, pend)
  BY <1>1, <1>3, Facts, FinishOK
<1>5. reported' \in SUBSET Nat /\ \A k \in reported' : k <= sp
  <2>1. reported' = reported \cup {x.key : x \in {y \in ready : y.for = "entry"}}
    BY DEF FinishFlush
  <2>2. \A x \in ready : x.key \in Nat /\ x.key <= sp
    BY Facts DEF Waiter, Position
  <2>3. \A k \in reported : k \in Nat /\ k <= sp
    BY <1>2, <1>4, Facts DEF Writing
  <2> HIDE DEF ready, sp
  <2> QED  BY <2>1, <2>2, <2>3
<1>6. /\ flush_pos' \in Nat /\ next_safe_pos' \in Nat /\ zero_pos' \in Nat
      /\ requested_pos' \in Nat /\ requested_pos <= requested_pos' /\ requested_pos' <= sp
      /\ pending_safe' \in SUBSET Write /\ waitfor_safe' \in SUBSET Waiter
      /\ WritesOK(sp, next_safe_pos', flush_pos', write_pos, pending_safe')
      /\ KeysOK(waitfor_safe') /\ zero_pos' <= write_pos
      /\ heads' \in Seq(Header) /\ head' \in Header
      /\ trimming_pos' \in Nat /\ trimmed_pos' \in Nat
      /\ HeadsInOrder'
      /\ \A h \in Heads' : h.expire <= expire_pos /\ h.write <= sp
  <2>1. /\ waitfor_safe \ ready \in SUBSET Waiter /\ KeysOK(waitfor_safe \ ready)
        /\ pend \in SUBSET Write
    BY <1>2, Facts DEF Writing, KeysOK
  <2>2. /\ zero_pos <= write_pos /\ requested_pos <= safe_pos /\ expire_pos <= safe_pos
        /\ IsBoundary(expire_pos)
    BY <1>2, Facts DEF Writing, Reading
  <2>3. requested_pos <= sp /\ expire_pos <= sp
    BY <1>4, <2>2, Facts
  <2>4. HeadsWithin(sp)
    BY <1>2, <1>4, Facts, HeadTypes DEF HeadsWithin
  <2> DEFINE ws == waitfor_safe \ ready
  <2>5. CASE \E x \in ready : x.for = "read"
    <3>1. PICK again \in BOOLEAN : Prefetch(sp, pend, ws, again)
      BY <2>5 DEF FinishFlush
    <3> HIDE DEF sp, pend, ws, ready
    <3>2. ws \in SUBSET Waiter /\ KeysOK(ws)
      BY <2>1 DEF ws
    <3> QED  BY <1>4, <2>1, <2>2, <2>3, <2>4, <3>1, <3>2, Facts, PrefetchOK
  <2>6. CASE ~\E x \in ready : x.for = "read"
    <3>1. /\ pending_safe' = pend /\ waitfor_safe' = ws
          /\ UNCHANGED <<flush_pos, next_safe_pos, zero_pos, requested_pos, trimming>>
      BY <2>6 DEF FinishFlush
    <3>2. HeadsInOrder' /\ Heads' = Heads
      BY <3>1, HeadsStay
    <3>3. /\ heads' \in Seq(Header) /\ head' \in Header
          /\ trimming_pos' \in Nat /\ trimmed_pos' \in Nat
      BY <3>1, Facts DEF trimming, JTypeOK, Position
    <3> HIDE DEF sp, pend, ws, ready
    <3>4. ws \in SUBSET Waiter /\ KeysOK(ws)
      BY <2>1 DEF ws
    <3> QED  BY <1>4, <2>1, <2>2, <2>3, <2>4, <3>1, <3>2, <3>3, <3>4, Facts DEF HeadsWithin
  <2> QED  BY <2>5, <2>6
<1> HIDE DEF sp, pend, ready
<1>7. JTypeOK'
  BY <1>1, <1>4, <1>5, <1>6 DEF JInv, JTypeOK, Position
<1>8. Writing'
  BY <1>1, <1>5, <1>6 DEF Writing
<1>9. Reading'
  <2>1. /\ expire_pos <= read_pos /\ read_pos <= received_pos /\ received_pos <= requested_pos
        /\ IsBoundary(expire_pos) /\ IsBoundary(read_pos)
        /\ received_pos \in Nat /\ requested_pos \in Nat
    BY <1>2, Facts DEF Reading
  <2>2. received_pos <= requested_pos'
    BY <1>6, <2>1
  <2>3. readable => read_pos + 2 <= received_pos
    BY <1>2 DEF Reading
  <2> QED  BY <1>1, <1>6, <2>1, <2>2, <2>3 DEF Reading
<1>10. Up'
  BY <1>1, <1>6, <1>8, <1>9 DEF Up
<1> QED
  BY <1>1, <1>6, <1>7, <1>10 DEF JInv, Down

LEMMA FinishWriteHeadInv ==
    ASSUME JInv, FinishWriteHead
    PROVE  JInv'
<1> USE DEF writing, reading
<1>1. /\ up /\ up' = up /\ write_pos' = write_pos
      /\ UNCHANGED <<writing, safe_pos, waitfor_safe, reading, reported, expire_pos, trimmed_pos, end>>
      /\ heads # <<>> /\ head' = heads[1] /\ heads' = Tail(heads)
  BY DEF FinishWriteHead, write_pos
<1>2. /\ heads \in Seq(Header) /\ Len(heads) \in Nat /\ DOMAIN heads = 1 .. Len(heads)
      /\ 1 \in DOMAIN heads
      /\ heads' \in Seq(Header) /\ DOMAIN heads' = 1 .. Len(heads) - 1
      /\ \A i \in 1 .. Len(heads) - 1 : heads'[i] = heads[i + 1]
  <2>1. heads \in Seq(Header) /\ heads # <<>>
    BY <1>1, Facts DEF JTypeOK
  <2>2. /\ heads' \in Seq(Header) /\ Len(heads') = Len(heads) - 1
        /\ \A i \in 1 .. Len(heads') : heads'[i] = heads[i + 1]
    BY <1>1, <2>1, HeadTailProperties
  <2>3. Len(heads) \in Nat /\ DOMAIN heads = 1 .. Len(heads) /\ Len(heads) # 0
        /\ DOMAIN heads' = 1 .. Len(heads')
    BY <2>1, <2>2, EmptySeq
  <2> QED  BY <2>1, <2>2, <2>3
<1>3. heads[1] \in Heads /\ heads[1] \in Header /\ HeadOK(heads[1]) /\ head.expire <= heads[1].expire
  BY <1>2, Facts, HeadTypes DEF HeadsInOrder
<1>4. \A h \in Heads' : h \in Heads
  <2> SUFFICES ASSUME NEW h \in Heads' PROVE h \in Heads
    OBVIOUS
  <2>1. CASE h = head'
    BY <1>1, <1>3, <2>1
  <2>2. CASE \E i \in DOMAIN heads' : h = heads'[i]
    <3>1. PICK i \in 1 .. Len(heads) - 1 : h = heads[i + 1]
      BY <1>2, <2>2
    <3>2. i + 1 \in DOMAIN heads
      BY <1>2
    <3> QED  BY <3>1, <3>2 DEF Heads
  <2> QED  BY <2>1, <2>2 DEF Heads
<1>5. \A i \in DOMAIN heads : heads[1].expire <= heads[i].expire
  <2> SUFFICES ASSUME NEW i \in DOMAIN heads PROVE heads[1].expire <= heads[i].expire
    OBVIOUS
  <2>1. CASE i = 1
    BY <2>1, <1>3, HeadTypes, Facts
  <2>2. CASE 1 < i
    BY <2>2, <1>2, Facts DEF HeadsInOrder
  <2> QED  BY <1>2, <2>1, <2>2
<1>6. \A h \in Heads' : HeadOK(h) /\ head'.expire <= h.expire
  <2> SUFFICES ASSUME NEW h \in Heads' PROVE HeadOK(h) /\ head'.expire <= h.expire
    OBVIOUS
  <2>1. HeadOK(h)
    BY <1>4, Facts DEF HeadsInOrder
  <2>2. CASE h = head'
    BY <1>1, <1>3, <2>2, HeadTypes, Facts
  <2>3. CASE \E i \in DOMAIN heads' : h = heads'[i]
    <3>1. PICK i \in 1 .. Len(heads) - 1 : h = heads[i + 1]
      BY <1>2, <2>3
    <3>2. i + 1 \in DOMAIN heads
      BY <1>2
    <3> QED  BY <1>1, <1>5, <2>1, <3>1, <3>2
  <2> QED  BY <2>1, <2>2, <2>3 DEF Heads
<1>7. \A i, j \in DOMAIN heads' : i < j => heads'[i].expire <= heads'[j].expire
  <2> SUFFICES ASSUME NEW i \in DOMAIN heads', NEW j \in DOMAIN heads', i < j
               PROVE  heads'[i].expire <= heads'[j].expire
    OBVIOUS
  <2>1. i + 1 \in DOMAIN heads /\ j + 1 \in DOMAIN heads /\ i + 1 < j + 1
        /\ heads'[i] = heads[i + 1] /\ heads'[j] = heads[j + 1]
    BY <1>2
  <2> QED  BY <2>1, Facts DEF HeadsInOrder
<1>8. /\ trimming_pos' \in Nat /\ trimmed_pos <= trimming_pos' /\ trimming_pos' <= head'.expire
      /\ IsObjectStart(trimming_pos')
  <2> DEFINE x == heads[1].expire
  <2>1. x \in Nat /\ head.expire \in Nat /\ head.expire <= x
    BY <1>3, Facts, HeadTypes
  <2>2. trimmed_pos <= trimming_pos /\ trimming_pos <= head.expire /\ IsObjectStart(trimming_pos)
    BY Facts DEF HeadsInOrder
  <2>3. trimming_pos' = IF Trims(heads[1]) THEN TrimTo(heads[1]) ELSE trimming_pos
    BY DEF FinishWriteHead
  <2> HIDE DEF x
  <2>4. TrimTo(heads[1]) = x - (x % Period)
    BY DEF TrimTo, x
  <2>5. x - (x % Period) \in 0 .. x /\ IsObjectStart(x - (x % Period))
    BY <2>1, RoundDown, ObjectStarts
  <2>6. trimming_pos <= x - (x % Period)
    <3>1. trimming_pos \in Nat /\ trimming_pos <= x
      BY <2>1, <2>2, Facts
    <3> QED  BY <2>1, <2>2, <3>1, ObjectStarts
  <2>7. head'.expire = x
    BY <1>1 DEF x
  <2>8. trimmed_pos \in Nat /\ trimming_pos \in Nat
    BY Facts
  <2> QED  BY <2>1, <2>2, <2>3, <2>4, <2>5, <2>6, <2>7, <2>8
<1>9. HeadsInOrder'
  BY <1>1, <1>6, <1>7, <1>8, Facts DEF HeadsInOrder
<1>10. JTypeOK'
  BY <1>1, <1>2, <1>3, <1>8 DEF JInv, JTypeOK, Position
<1>11. Up'
  BY <1>1, <1>4 DEF JInv, Up, Writing, Reading
<1> QED
  BY <1>1, <1>9, <1>10, <1>11 DEF JInv, Down

LEMMA TrimInv ==
    ASSUME JInv, Trim
    PROVE  JInv'
<1> USE DEF writing, reading
<1>1. /\ up /\ up' = up /\ write_pos' = write_pos
      /\ UNCHANGED <<writing, safe_pos, waitfor_safe, reading, reported, expire_pos,
                     trimmed_pos, heads, head, end>>
      /\ trimming_pos' = TrimTo(head)
  BY DEF Trim, write_pos
<1>2. Heads' = Heads
  BY <1>1 DEF Heads
<1>3. /\ trimming_pos' \in Nat /\ trimmed_pos <= trimming_pos' /\ trimming_pos' <= head.expire
      /\ IsObjectStart(trimming_pos')
  <2> DEFINE x == head.expire
  <2>1. x \in Nat
    BY Facts, HeadTypes
  <2>2. trimmed_pos <= trimming_pos /\ trimming_pos <= x /\ IsObjectStart(trimming_pos)
    BY Facts DEF HeadsInOrder
  <2>3. TrimTo(head) = x - (x % Period)
    BY DEF TrimTo
  <2> HIDE DEF x
  <2>4. x - (x % Period) \in 0 .. x /\ IsObjectStart(x - (x % Period))
    BY <2>1, RoundDown, ObjectStarts
  <2>5. trimmed_pos \in Nat /\ trimming_pos \in Nat
    BY Facts
  <2>6. trimming_pos <= x - (x % Period)
    BY <2>1, <2>2, <2>5, ObjectStarts
  <2>7. trimming_pos' = x - (x % Period)
    BY <1>1, <2>3
  <2>8. trimming_pos' \in Nat /\ trimmed_pos <= trimming_pos' /\ trimming_pos' <= x
    BY <2>1, <2>2, <2>4, <2>5, <2>6, <2>7
  <2>9. IsObjectStart(trimming_pos')
    BY <2>4, <2>7
  <2> QED  BY <2>8, <2>9 DEF x
<1>4. JTypeOK'
  BY <1>1, <1>3 DEF JInv, JTypeOK, Position
<1>5. HeadsInOrder'
  BY <1>1, <1>2, <1>3, Facts DEF HeadsInOrder
<1>6. Up'
  BY <1>1, <1>2 DEF JInv, Up, Writing, Reading
<1> QED
  BY <1>1, <1>4, <1>5, <1>6 DEF JInv, Down

LEMMA FinishTrimInv ==
    ASSUME JInv, FinishTrim
    PROVE  JInv'
<1> USE DEF writing, reading
<1>1. /\ up /\ up' = up /\ write_pos' = write_pos
      /\ UNCHANGED <<writing, safe_pos, waitfor_safe, reading, reported, expire_pos,
                     trimming_pos, heads, head, end>>
      /\ trimmed_pos' = trimming_pos
  BY DEF FinishTrim, write_pos
<1>2. JTypeOK'
  BY <1>1 DEF JInv, JTypeOK
<1>3. Heads' = Heads
  BY <1>1 DEF Heads
<1>4. HeadsInOrder'
  BY <1>1, <1>3, Facts DEF HeadsInOrder
<1>5. Up'
  BY <1>1, <1>3 DEF JInv, Up, Writing, Reading
<1> QED
  BY <1>1, <1>2, <1>4, <1>5 DEF JInv, Down

-----------------------------------------------------------------------------
(* Crash and recovery.                                                     *)
LEMMA Prefix ==
    ASSUME NEW l \in Seq(Item), NEW n \in 0 .. Len(l)
    PROVE  /\ SubSeq(l, 1, n) \in Seq(Item) /\ Len(SubSeq(l, 1, n)) = n
           /\ \A i \in 1 .. n : i \in DOMAIN l /\ SubSeq(l, 1, n)[i] = l[i]
<1>1. Len(l) \in Nat /\ n \in Nat /\ \A i \in 1 .. n : i \in DOMAIN l /\ l[i] \in Item
  OBVIOUS
<1>2. /\ SubSeq(l, 1, n) \in Seq(Item)
      /\ Len(SubSeq(l, 1, n)) = IF 1 <= n THEN n - 1 + 1 ELSE 0
      /\ \A i \in 1 .. n - 1 + 1 : SubSeq(l, 1, n)[i] = l[1 + i - 1]
  BY <1>1, SubSeqProperties
<1> QED
  BY <1>1, <1>2

(* What is safe is in the store, whatever becomes of the writes that are   *)
(* on their way.                                                           *)
LEMMA SafeSurvives ==
    ASSUME JInv, up, NEW e \in Nat, Survives(e)
    PROVE  safe_pos <= e
<1>1. WritesOK(safe_pos, next_safe_pos, flush_pos, write_pos, pending_safe)
  BY Facts DEF Writing
<1>2. CASE e = flush_pos
  BY <1>1, <1>2, Facts DEF WritesOK
<1>3. CASE \E p \in pending_safe : p.start <= e
  <2>1. PICK p \in pending_safe : p.start <= e
    BY <1>3
  <2>2. p.start \in Nat /\ p.safe \in Nat
    BY Facts DEF Write, Position
  <2>3. safe_pos <= p.safe /\ p.safe <= p.start
    BY <1>1 DEF WritesOK
  <2> QED  BY <2>1, <2>2, <2>3, Facts
<1> QED
  BY <1>2, <1>3 DEF Survives

(* The log after the step is a prefix of the log before, with every entry  *)
(* that ends before e.                                                     *)
IsCutTo(e) ==
    /\ DOMAIN log' \subseteq DOMAIN log
    /\ \A k \in DOMAIN log' : log'[k] = log[k]
    /\ \A k \in DOMAIN log : 2 * k <= e => k \in DOMAIN log'

LEMMA JCrashInv ==
    ASSUME JInv, JCrash
    PROVE  JInv' /\ safe_pos <= end' /\ IsCutTo(end') /\ head' \in Heads
<1>1. up /\ up' = FALSE /\ head' \in Heads /\ heads' = <<>>
      /\ UNCHANGED <<reported, trimming_pos, trimmed_pos>>
  BY DEF JCrash
<1>2. /\ flush_pos' = 0 /\ safe_pos' = 0 /\ next_safe_pos' = 0
      /\ pending_safe' = {} /\ zero_pos' = 0 /\ waitfor_safe' = {}
      /\ read_pos' = 0 /\ requested_pos' = 0 /\ received_pos' = 0
      /\ readable' = FALSE /\ on_readable' = FALSE /\ notified' = FALSE
      /\ expire_pos' = 0
  BY DEF JCrash
<1>3. PICK e \in 0 .. flush_pos : Survives(e) /\ end' = e /\ log' = SubSeq(log, 1, (e + 1) \div 2)
  BY DEF JCrash
<1>4. Writing /\ HeadsWithin(safe_pos)
  BY <1>1, Facts
<1>5. e \in Nat /\ safe_pos <= e /\ e <= 2 * Len(log)
  <2>1. e \in Nat /\ e <= flush_pos
    BY Facts
  <2>2. flush_pos <= write_pos
    BY <1>4 DEF Writing, WritesOK
  <2> QED  BY <1>1, <1>3, <2>1, <2>2, Facts, SafeSurvives
<1> DEFINE n == (e + 1) \div 2
<1>6. n \in 0 .. Len(log) /\ e <= 2 * n /\ \A k \in Nat : 2 * k <= e => k <= n
  BY <1>5, Facts, HalfProperties
<1> HIDE DEF n
<1>7. /\ log' \in Seq(Item) /\ Len(log') = n
      /\ \A i \in 1 .. n : i \in DOMAIN log /\ log'[i] = log[i]
  <2>1. log' = SubSeq(log, 1, n)
    BY <1>3 DEF n
  <2> QED  BY <1>6, <2>1, Facts, Prefix
<1>8. DOMAIN log' = 1 .. n /\ DOMAIN log = 1 .. Len(log)
  BY <1>7, Facts
<1>9. IsCutTo(end')
  <2>1. \A k \in DOMAIN log : k \in Nat /\ k >= 1 /\ (2 * k <= e => k <= n)
    BY <1>6, <1>8, Facts
  <2>2. \A k \in DOMAIN log : 2 * k <= e => k \in 1 .. n
    BY <1>6, <2>1, Facts
  <2> QED  BY <1>3, <1>7, <1>8, <2>2 DEF IsCutTo
<1>10. head' \in Header /\ head'.expire \in Nat /\ head'.write \in Nat /\ head.expire \in Nat
  BY <1>1, Facts, HeadTypes
<1>11. JTypeOK'
  <2>1. heads' \in Seq(Header)
    BY <1>1
  <2> QED  BY <1>1, <1>2, <1>3, <1>5, <1>7, <1>10, <2>1 DEF JInv, JTypeOK, Position
<1>12. Heads' = {head'}
  BY <1>1 DEF Heads
<1>13. HeadsInOrder'
  <2>1. HeadOK(head') /\ head.expire <= head'.expire
    BY <1>1, Facts DEF HeadsInOrder
  <2>2. trimming_pos <= head'.expire
    BY <2>1, <1>10, Facts DEF HeadsInOrder
  <2>3. DOMAIN heads' = {}
    BY <1>1
  <2>4. head'.expire <= head'.expire
    BY <1>10
  <2>5. trimmed_pos <= trimming_pos /\ IsObjectStart(trimmed_pos) /\ IsObjectStart(trimming_pos)
    BY Facts DEF HeadsInOrder
  <2> QED  BY <1>1, <1>12, <2>1, <2>2, <2>3, <2>4, <2>5 DEF HeadsInOrder
<1>14. Down'
  <2>1. head'.write <= end'
    BY <1>1, <1>3, <1>4, <1>5, <1>10, Facts DEF HeadsWithin
  <2>2. end' <= write_pos'
    BY <1>3, <1>6, <1>7 DEF write_pos, EndOf
  <2>3. \A k \in reported' : k <= end'
    BY <1>1, <1>3, <1>4, <1>5, Facts DEF Writing
  <2> QED  BY <1>1, <1>2, <2>1, <2>2, <2>3 DEF Down
<1> QED
  BY <1>1, <1>3, <1>5, <1>9, <1>11, <1>13, <1>14 DEF JInv, Up

LEMMA JRecoverInv ==
    ASSUME JInv, JRecover
    PROVE  JInv' /\ IsCutTo(end) /\ safe_pos' = Whole(end)
<1> DEFINE e == Whole(end)
<1>1. /\ ~up /\ up' = TRUE /\ reported' = {} /\ end' = 0
      /\ log' = SubSeq(log, 1, e \div 2)
      /\ flush_pos' = e /\ safe_pos' = e /\ next_safe_pos' = e
      /\ read_pos' = head.expire /\ requested_pos' = head.expire /\ received_pos' = head.expire
      /\ expire_pos' = head.expire
      /\ trimming_pos' = head.trimmed /\ trimmed_pos' = head.trimmed
      /\ UNCHANGED <<pending_safe, zero_pos, waitfor_safe, readable, on_readable, notified,
                     heads, head>>
  BY DEF JRecover, FinishReadHead, FinishProbeEnd
<1>2. /\ head.write <= end /\ heads = <<>> /\ end <= write_pos
      /\ pending_safe = {} /\ waitfor_safe = {} /\ zero_pos = 0 /\ ~readable
  BY <1>1 DEF JInv, Down
<1>3. /\ e \in Nat /\ e <= end /\ IsBoundary(e) /\ 2 * (e \div 2) = e /\ e \div 2 \in Nat
      /\ \A k \in Nat : k <= end /\ IsBoundary(k) => k <= e
  BY Facts, WholeProperties
<1> DEFINE n == e \div 2
<1>4. n \in Nat /\ 2 * n = e /\ n <= Len(log)
  <2>1. 2 * n <= 2 * Len(log)
    BY <1>2, <1>3, Facts
  <2> QED  BY <1>3, <2>1, Facts
<1>5. \A k \in Nat : 2 * k <= end => k <= n
  <2> SUFFICES ASSUME NEW k \in Nat, 2 * k <= end PROVE k <= n
    OBVIOUS
  <2>1. 2 * k \in Nat /\ IsBoundary(2 * k)
    BY Evens
  <2>2. 2 * k <= e
    BY <1>3, <2>1
  <2> HIDE DEF n
  <2> QED  BY <1>4, <2>2
<1>6. log' = SubSeq(log, 1, n)
  BY <1>1
<1> HIDE DEF n, e
<1>7. /\ log' \in Seq(Item) /\ Len(log') = n
      /\ \A i \in 1 .. n : i \in DOMAIN log /\ log'[i] = log[i]
  <2>1. n \in 0 .. Len(log)
    BY <1>4, Facts
  <2> QED  BY <1>6, <2>1, Facts, Prefix
<1>8. DOMAIN log' = 1 .. n /\ DOMAIN log = 1 .. Len(log)
  BY <1>7, Facts
<1>9. IsCutTo(end)
  BY <1>5, <1>7, <1>8, Facts DEF IsCutTo
<1>10. /\ head.expire \in Nat /\ head.trimmed \in Nat /\ head.write \in Nat /\ head \in Header
       /\ HeadOK(head)
  BY Facts, HeadTypes DEF HeadsInOrder
<1>11. JTypeOK'
  BY <1>1, <1>3, <1>7, <1>10 DEF JInv, JTypeOK, Position
<1>12. Heads' = Heads /\ Heads = {head} /\ DOMAIN heads = {}
  BY <1>1, <1>2 DEF Heads
<1>13. head.expire <= e /\ head.write <= e
  BY <1>2, <1>3, <1>10, Facts DEF HeadOK
<1>14. HeadsInOrder'
  <2>1. /\ \A h \in Heads' : HeadOK(h) /\ head.expire <= h.expire
        /\ head.trimmed <= head.expire /\ head.trimmed <= head.trimmed
        /\ IsObjectStart(head.trimmed)
    BY <1>10, <1>12 DEF HeadOK
  <2> QED  BY <1>1, <1>12, <2>1 DEF HeadsInOrder
<1>15. write_pos' = e
  BY <1>4, <1>7 DEF write_pos, EndOf
<1>16. Writing'
  <2>1. WritesOK(e, e, e, e, {})
    BY <1>3 DEF WritesOK
  <2> QED  BY <1>1, <1>2, <1>3, <1>15, <2>1 DEF Writing, KeysOK
<1>17. Reading'
  BY <1>1, <1>2, <1>10, <1>13 DEF Reading, HeadOK
<1>18. Up'
  BY <1>1, <1>10, <1>12, <1>13, <1>16, <1>17 DEF Up
<1> QED
  BY <1>1, <1>9, <1>11, <1>14, <1>18 DEF JInv, Down, e

-----------------------------------------------------------------------------
(* What the PurgeQueue does to the Journaler's state by itself.            *)
LEMMA WriteHeadInv ==
    ASSUME JInv, up, MaybeWriteHead(safe_pos),
           UNCHANGED <<up, writing, safe_pos, waitfor_safe, reading, reported, expire_pos, end>>
    PROVE  JInv'
<1> USE DEF writing, reading
<1>1. Writing /\ Reading /\ HeadsWithin(safe_pos) /\ write_pos' = write_pos
  BY Facts DEF write_pos
<1>2. IsBoundary(safe_pos) /\ IsBoundary(expire_pos) /\ expire_pos <= safe_pos
  BY <1>1, Facts DEF Writing, WritesOK, Reading
<1>3. /\ heads' \in Seq(Header) /\ head' \in Header
      /\ trimming_pos' \in Nat /\ trimmed_pos' \in Nat
      /\ HeadsInOrder'
      /\ \A h \in Heads' : h.expire <= expire_pos /\ h.write <= safe_pos
  BY <1>1, <1>2, Facts, WriteHeadOK
<1>4. JTypeOK'
  BY <1>3 DEF JInv, JTypeOK, Position
<1>5. Up'
  BY <1>1, <1>3 DEF Up, Writing, Reading
<1> QED
  BY <1>3, <1>4, <1>5 DEF JInv, Down

LEMMA NotifiedInv ==
    ASSUME JInv, up, notified' \in BOOLEAN,
           UNCHANGED <<up, writing, safe_pos, waitfor_safe, read_pos, requested_pos, received_pos,
                       readable, on_readable, reported, expire_pos, trimming, end>>
    PROVE  JInv'
<1> USE DEF writing, trimming
<1>1. HeadsInOrder' /\ Heads' = Heads /\ write_pos' = write_pos
  BY HeadsStay DEF write_pos
<1>2. JTypeOK'
  BY DEF JInv, JTypeOK
<1>3. Up'
  BY <1>1 DEF JInv, Up, Writing, Reading
<1> QED
  BY <1>1, <1>2, <1>3 DEF JInv, Down

LEMMA ExpireInv ==
    ASSUME JInv, up, expire_pos' \in Nat, IsBoundary(expire_pos'),
           expire_pos <= expire_pos', expire_pos' <= read_pos,
           UNCHANGED <<up, writing, safe_pos, waitfor_safe, reading, reported, trimming, end>>
    PROVE  JInv'
<1> USE DEF writing, reading, trimming
<1>1. HeadsInOrder' /\ Heads' = Heads /\ write_pos' = write_pos
  BY HeadsStay DEF write_pos
<1>2. JTypeOK'
  BY DEF JInv, JTypeOK, Position
<1>3. Writing' /\ Reading'
  BY <1>1, Facts DEF Writing, Reading
<1>4. \A h \in Heads' : h.expire <= expire_pos' /\ h.write <= safe_pos'
  BY <1>1, Facts, HeadTypes DEF HeadsWithin
<1> QED
  BY <1>1, <1>2, <1>3, <1>4 DEF JInv, Up, Down

LEMMA JInitInv ==
    ASSUME JInit
    PROVE  JInv
<1> USE DEF JInit, NoHead
<1>1. head \in Header /\ head.write = 0 /\ head.expire = 0 /\ head.trimmed = 0
  BY DEF Header, Position
<1>2. log \in Seq(Item) /\ Len(log) = 0 /\ heads \in Seq(Header) /\ DOMAIN heads = {}
  OBVIOUS
<1>3. JTypeOK
  BY <1>1, <1>2 DEF JTypeOK, Position
<1>4. Heads = {head} /\ write_pos = 0
  BY <1>2 DEF Heads, write_pos, EndOf
<1>5. IsBoundary(0) /\ IsObjectStart(0)
  BY Evens, ObjectStarts
<1>6. HeadsInOrder
  <2>1. HeadOK(head)
    BY <1>1, <1>5 DEF HeadOK
  <2> QED  BY <1>1, <1>2, <1>4, <1>5, <2>1 DEF HeadsInOrder
<1>7. Writing /\ Reading
  BY <1>4, <1>5 DEF Writing, Reading, WritesOK, KeysOK
<1> QED
  BY <1>1, <1>3, <1>4, <1>6, <1>7 DEF JInv, Up, Down

-----------------------------------------------------------------------------
(* What the invariant says of the properties.                              *)
LEMMA InvReported ==
    ASSUME JInv
    PROVE  ReportedIsDurable
<1> SUFFICES ASSUME NEW k \in reported
             PROVE  IF up THEN \A e \in 0 .. flush_pos : Survives(e) => k <= e ELSE k <= end
  BY DEF ReportedIsDurable
<1>1. CASE up
  <2> SUFFICES ASSUME NEW e \in 0 .. flush_pos, Survives(e) PROVE k <= e
    BY <1>1
  <2>1. e \in Nat /\ k \in Nat /\ safe_pos \in Nat
    BY Facts
  <2>2. k <= safe_pos
    BY <1>1, Facts DEF Writing
  <2>3. safe_pos <= e
    BY <1>1, <2>1, SafeSurvives
  <2> QED  BY <2>1, <2>2, <2>3
<1>2. CASE ~up
  BY <1>2 DEF JInv, Down
<1> QED  BY <1>1, <1>2

LEMMA InvHeads ==
    ASSUME JInv
    PROVE  HeadsFindTheLog
<1> SUFFICES ASSUME NEW h \in Heads
             PROVE  /\ IsBoundary(h.expire) /\ IsBoundary(h.write)
                    /\ h.trimmed <= h.expire /\ h.expire <= h.write
                    /\ trimming_pos <= h.expire
                    /\ IF up THEN \A e \in 0 .. flush_pos : Survives(e) => h.write <= e
                       ELSE h.write <= end
  BY DEF HeadsFindTheLog
<1>1. h.expire \in Nat /\ h.write \in Nat /\ h.trimmed \in Nat /\ head.expire \in Nat
  BY Facts, HeadTypes
<1>2. HeadOK(h) /\ head.expire <= h.expire /\ trimming_pos <= head.expire
  BY Facts DEF HeadsInOrder
<1>3. trimming_pos <= h.expire
  BY <1>1, <1>2, Facts
<1>4. CASE up
  <2>1. ASSUME NEW e \in 0 .. flush_pos, Survives(e) PROVE h.write <= e
    <3>1. e \in Nat /\ safe_pos \in Nat
      BY Facts
    <3>2. h.write <= safe_pos
      BY <1>4, Facts DEF HeadsWithin
    <3>3. safe_pos <= e
      BY <1>4, <2>1, <3>1, SafeSurvives
    <3> QED  BY <1>1, <3>1, <3>2, <3>3
  <2> QED  BY <1>2, <1>3, <1>4, <2>1 DEF HeadOK
<1>5. CASE ~up
  <2>1. h = head
    BY <1>5 DEF JInv, Down, Heads
  <2>2. h.write <= end
    BY <1>5, <2>1 DEF JInv, Down
  <2> QED  BY <1>2, <1>3, <1>5, <2>2 DEF HeadOK
<1> QED  BY <1>4, <1>5

LEMMA InvAsserts ==
    ASSUME JInv
    PROVE  JAssertsHold
<1>1. CASE up
  <2>1. Writing /\ Reading /\ HeadsWithin(safe_pos)
    BY <1>1, Facts
  <2>2. flush_pos <= write_pos /\ \A w \in pending_safe : w.start < flush_pos
    BY <2>1 DEF Writing, WritesOK
  <2>3. /\ requested_pos <= safe_pos /\ received_pos <= requested_pos /\ read_pos <= received_pos
        /\ expire_pos <= safe_pos
    BY <2>1, Facts DEF Reading
  <2>4. trimmed_pos <= expire_pos
    BY <2>1, Facts, HeadTypes DEF HeadsInOrder, HeadsWithin
  <2>5. ASSUME NEW h \in Heads
        PROVE  /\ TrimTo(h) \in Nat /\ TrimTo(h) <= expire_pos /\ trimming_pos <= TrimTo(h)
    <3> DEFINE x == h.expire
    <3>1. x \in Nat /\ x <= expire_pos /\ head.expire <= x /\ head.expire \in Nat
      BY <2>1, Facts, HeadTypes DEF HeadsInOrder, HeadsWithin
    <3>2. trimming_pos <= head.expire /\ IsObjectStart(trimming_pos)
      BY Facts DEF HeadsInOrder
    <3> HIDE DEF x
    <3>3. x - (x % Period) \in 0 .. x
      BY <3>1, RoundDown
    <3>4. trimming_pos \in Nat /\ trimming_pos <= x
      BY <3>1, <3>2, Facts
    <3>5. trimming_pos <= x - (x % Period)
      BY <3>1, <3>2, <3>4, ObjectStarts
    <3>6. TrimTo(h) = x - (x % Period)
      BY DEF TrimTo, x
    <3> QED  BY <3>1, <3>3, <3>5, <3>6, Facts
  <2>6. ASSUME NEW h \in Heads, Trims(h) PROVE TrimTo(h) > trimming_pos
    <3>1. TrimTo(h) \in Nat /\ trimming_pos <= TrimTo(h)
      BY <2>5
    <3>2. TrimTo(h) # trimming_pos
      BY <2>6 DEF Trims
    <3> QED  BY <3>1, <3>2, Facts
  <2> QED  BY <1>1, <2>2, <2>3, <2>4, <2>5, <2>6 DEF JAssertsHold
<1>2. CASE ~up
  BY <1>2 DEF JInv, Down, JAssertsHold
<1> QED  BY <1>1, <1>2

-----------------------------------------------------------------------------
(* The PurgeQueue.                                                         *)

(* An entry that was read is done, is being executed, or is the one that   *)
(* _consume has just read.                                                 *)
ReadIsHandled ==
    up => \A k \in DOMAIN log :
             2 * k <= read_pos =>
                 log[k] \in purged \/ 2 * k \in in_flight \/ (2 * k = read_pos /\ holder.at = "execute")

(* Nothing before expire_pos is executed, nor anything that was not read.  *)
InFlightOK ==
    /\ \A p \in in_flight : expire_pos < p /\ p <= read_pos
    /\ holder.at = "execute" => /\ read_pos \notin in_flight /\ expire_pos < read_pos
                                /\ \E k \in DOMAIN log : read_pos = 2 * k
    /\ holder.at = "read" => readable
    /\ ~up => holder.at = "free" /\ in_flight = {}

(* What is expired is done.                                                *)
Expired == IF up THEN expire_pos ELSE head.expire
DoneBefore == \A k \in DOMAIN log : 2 * k <= Expired => log[k] \in purged

(* A dentry is given up only when the item is in the store.                *)
Durable == IF up THEN safe_pos ELSE end
DnOK ==
    \A i \in Item : dn[i] \in {"logging", "gone"} /\ i \notin purged =>
                        \E k \in DOMAIN log : log[k] = i /\ 2 * k <= Durable

Inv == JInv /\ TypeOK /\ ReadIsHandled /\ InFlightOK /\ DoneBefore /\ DnOK

-----------------------------------------------------------------------------
(* The invariant implies the properties.                                   *)
LEMMA LogFacts ==
    ASSUME JInv
    PROVE  /\ DOMAIN log = 1 .. Len(log) /\ Len(log) \in Nat /\ write_pos = 2 * Len(log)
           /\ \A k \in DOMAIN log : k \in Nat /\ 2 * k \in Nat /\ (2 * k) \div 2 = k
                                    /\ 2 * k <= write_pos /\ IsBoundary(2 * k) /\ log[k] \in Item
<1>1. log \in Seq(Item) /\ Len(log) \in Nat /\ write_pos = 2 * Len(log)
  BY Facts
<1>2. DOMAIN log = 1 .. Len(log) /\ \A k \in DOMAIN log : k \in Nat /\ log[k] \in Item
  BY <1>1
<1>3. \A k \in DOMAIN log : 2 * k \in Nat /\ (2 * k) \div 2 = k /\ 2 * k <= write_pos
  BY <1>1, <1>2
<1> QED
  BY <1>1, <1>2, <1>3, Evens

LEMMA HeadsBeforeExpired ==
    ASSUME JInv, NEW h \in Heads
    PROVE  h.expire \in Nat /\ Expired \in Nat /\ h.expire <= Expired
<1>1. h.expire \in Nat /\ head.expire \in Nat /\ expire_pos \in Nat
  BY Facts, HeadTypes
<1>2. CASE up
  BY <1>1, <1>2, Facts DEF HeadsWithin, Expired
<1>3. CASE ~up
  <2>1. h = head
    BY <1>3 DEF JInv, Down, Heads
  <2> QED  BY <1>1, <1>3, <2>1 DEF Expired
<1> QED  BY <1>2, <1>3

LEMMA InvExpired ==
    ASSUME Inv
    PROVE  ExpiredIsDone
<1> SUFFICES ASSUME NEW k \in DOMAIN log,
                    (up /\ 2 * k <= expire_pos) \/ (\E h \in Heads : 2 * k <= h.expire)
             PROVE  log[k] \in purged
  BY DEF ExpiredIsDone
<1>1. 2 * k \in Nat
  BY LogFacts DEF Inv
<1>2. 2 * k <= Expired
  <2>1. CASE up /\ 2 * k <= expire_pos
    BY <2>1 DEF Expired
  <2>2. CASE \E h \in Heads : 2 * k <= h.expire
    BY <1>1, <2>2, HeadsBeforeExpired DEF Inv
  <2> QED  BY <2>1, <2>2
<1> QED  BY <1>2 DEF Inv, DoneBefore

LEMMA InvNoLeak ==
    ASSUME Inv
    PROVE  NoLeak
<1> SUFFICES ASSUME NEW i \in Item, dn[i] = "gone", i \notin purged
             PROVE  \E k \in DOMAIN log :
                       /\ log[k] = i
                       /\ \A h \in Heads : h.expire < 2 * k
                       /\ IF up THEN \A e \in 0 .. flush_pos : Survives(e) => 2 * k <= e
                          ELSE 2 * k <= end
  BY DEF NoLeak
<1>1. PICK k \in DOMAIN log : log[k] = i /\ 2 * k <= Durable
  BY DEF Inv, DnOK
<1>2. 2 * k \in Nat
  BY LogFacts DEF Inv
<1>3. \A h \in Heads : h.expire < 2 * k
  <2> SUFFICES ASSUME NEW h \in Heads PROVE h.expire < 2 * k
    OBVIOUS
  <2>1. ~(2 * k <= h.expire)
    BY <1>1, InvExpired DEF ExpiredIsDone
  <2>2. h.expire \in Nat
    BY HeadsBeforeExpired DEF Inv
  <2> QED  BY <1>2, <2>1, <2>2
<1>4. CASE up
  <2>1. ASSUME NEW e \in 0 .. flush_pos, Survives(e) PROVE 2 * k <= e
    <3>1. e \in Nat /\ safe_pos \in Nat
      BY Facts DEF Inv
    <3>2. safe_pos <= e
      BY <1>4, <2>1, <3>1, SafeSurvives DEF Inv
    <3>3. 2 * k <= safe_pos
      BY <1>1, <1>4 DEF Durable
    <3> QED  BY <1>2, <3>1, <3>2, <3>3
  <2> QED  BY <1>1, <1>3, <1>4, <2>1
<1>5. CASE ~up
  BY <1>1, <1>3, <1>5 DEF Durable
<1> QED  BY <1>4, <1>5

LEMMA InvAssertsHold ==
    ASSUME Inv
    PROVE  AssertsHold
  BY InvAsserts DEF Inv, InFlightOK, AssertsHold

-----------------------------------------------------------------------------
(* The holder of the lock.                                                 *)
Holders == {"nobody", "push", "done", "finisher"}
Places == {"free", "appended", "consume", "unreadable", "read", "execute", "consumed"}
HolderSet == [by : Holders, at : Places, could : BOOLEAN]

LEMMA HolderUpdates ==
    ASSUME NEW h \in HolderSet, NEW x \in Places
    PROVE  /\ [h EXCEPT !.at = x] \in HolderSet /\ [h EXCEPT !.at = x].at = x
           /\ [h EXCEPT !.at = x, !.could = TRUE] \in HolderSet
           /\ [h EXCEPT !.at = x, !.could = TRUE].at = x
  BY DEF HolderSet, Holders, Places

LEMMA HolderValues ==
    /\ \A b \in Holders, x \in Places : Holds(b, x) \in HolderSet /\ Holds(b, x).at = x
    /\ Free \in HolderSet /\ Free.at = "free"
  BY DEF HolderSet, Holders, Places, Holds, Free

LEMMA TypeFacts ==
    ASSUME Inv
    PROVE  /\ JInv /\ JTypeOK /\ TypeOK /\ holder \in HolderSet
           /\ dn \in [Item -> {"stray", "purging", "logging", "gone"}]
           /\ purged \in SUBSET Item /\ in_flight \in SUBSET {2 * k : k \in DOMAIN log}
  BY DEF Inv, JInv, TypeOK, HolderSet, Holders, Places

(* A step that neither reads, executes nor finishes an entry.              *)
LEMMA Keeps ==
    ASSUME Inv, JInv', TypeOK', up, up', log' = log,
           expire_pos' = expire_pos, read_pos' = read_pos, safe_pos <= safe_pos',
           purged' = purged, in_flight' = in_flight,
           \A i \in Item : dn'[i] \in {"logging", "gone"} => dn[i] \in {"logging", "gone"},
           holder'.at = "execute" <=> holder.at = "execute",
           holder'.at = "read" => readable'
    PROVE  Inv'
<1>1. ReadIsHandled'
  BY DEF Inv, ReadIsHandled
<1>2. InFlightOK'
  BY DEF Inv, InFlightOK
<1>3. DoneBefore'
  BY DEF Inv, DoneBefore, Expired
<1>4. DnOK'
  <2> SUFFICES ASSUME NEW i \in Item, dn'[i] \in {"logging", "gone"}, i \notin purged'
               PROVE  \E k \in DOMAIN log' : log'[k] = i /\ 2 * k <= Durable'
    BY DEF DnOK
  <2>1. PICK k \in DOMAIN log : log[k] = i /\ 2 * k <= safe_pos
    BY DEF Inv, DnOK, Durable
  <2>2. 2 * k \in Nat /\ safe_pos \in Nat /\ safe_pos' \in Nat
    BY LogFacts, Facts DEF Inv, JInv, JTypeOK, Position
  <2>3. 2 * k <= safe_pos'
    BY <2>1, <2>2
  <2> QED  BY <2>1, <2>3 DEF Durable
<1> QED
  BY <1>1, <1>2, <1>3, <1>4 DEF Inv

LEMMA StutterPreserves ==
    ASSUME Inv, UNCHANGED vars
    PROVE  Inv'
<1> USE DEF vars, pqvars, jvars, writing, reading, trimming
<1>1. JInv'
  BY StutterInv DEF Inv
<1>2. TypeOK'
  BY <1>1 DEF Inv, TypeOK, JInv
<1>3. ReadIsHandled' /\ InFlightOK'
  BY DEF Inv, ReadIsHandled, InFlightOK
<1>4. DoneBefore' /\ DnOK'
  BY DEF Inv, DoneBefore, DnOK, Expired, Durable
<1> QED
  BY <1>1, <1>2, <1>3, <1>4 DEF Inv

-----------------------------------------------------------------------------
(* The Journaler's callbacks.                                              *)
LEMMA CallbackPreserves ==
    ASSUME Inv, Callback, UNCHANGED pqvars
    PROVE  Inv'
<1> USE DEF pqvars
<1>1. JInv
  BY DEF Inv
<1>2. JInv'
  BY <1>1, FinishFlushInv, FinishReadInv, FinishPrezeroInv, FinishWriteHeadInv, TrimInv,
     FinishTrimInv
     DEF Callback
<1>3. up /\ up' /\ log' = log /\ expire_pos' = expire_pos /\ read_pos' = read_pos
  <2>1. CASE FinishRead
    BY <2>1 DEF FinishRead
  <2>2. CASE \E w \in pending_safe : FinishFlush(w)
    BY <2>2 DEF FinishFlush
  <2>3. CASE FinishPrezero
    BY <2>3 DEF FinishPrezero, reading
  <2>4. CASE FinishWriteHead
    BY <2>4 DEF FinishWriteHead, reading, writing
  <2>5. CASE Trim \/ FinishTrim
    BY <2>5 DEF Trim, FinishTrim, reading, writing
  <2> QED  BY <2>1, <2>2, <2>3, <2>4, <2>5 DEF Callback
<1>4. safe_pos <= safe_pos'
  <2>1. ASSUME NEW w \in pending_safe, FinishFlush(w) PROVE safe_pos <= safe_pos'
    <3>1. WritesOK(safe_pos, next_safe_pos, flush_pos, write_pos, pending_safe)
      BY <1>1, <1>3, Facts DEF Writing
    <3>2. safe_pos <= SafeAfter(pending_safe \ {w})
      BY <1>1, <3>1, Facts, FinishOK
    <3> QED  BY <2>1, <3>2 DEF FinishFlush
  <2>2. ASSUME FinishRead \/ FinishPrezero \/ FinishWriteHead \/ Trim \/ FinishTrim
        PROVE  safe_pos <= safe_pos'
    <3>1. safe_pos' = safe_pos
      BY <2>2 DEF FinishRead, FinishPrezero, FinishWriteHead, Trim, FinishTrim
    <3> QED  BY <1>1, <3>1, Facts
  <2> QED  BY <2>1, <2>2 DEF Callback
<1>5. TypeOK'
  BY <1>2, <1>3 DEF Inv, TypeOK, JInv
<1>6. readable => readable'
  <2>1. CASE FinishRead
    <3>1. PICK rc \in received_pos + 1 .. requested_pos : readable' = EntryThere(read_pos, rc)
      BY <2>1 DEF FinishRead
    <3>2. ASSUME readable PROVE EntryThere(read_pos, rc)
      <4>1. Reading
        BY <1>1, <1>3, Facts
      <4>2. read_pos + 2 <= received_pos /\ received_pos <= requested_pos /\ requested_pos <= safe_pos
        BY <3>2, <4>1, Zenon DEF Reading
      <4>3. safe_pos <= write_pos
        BY <1>1, <1>3, Facts DEF Writing, WritesOK
      <4>4. read_pos \in Nat /\ received_pos \in Nat /\ requested_pos \in Nat /\ safe_pos \in Nat
            /\ write_pos \in Nat
        BY <1>1, Facts
      <4> QED  BY <4>2, <4>3, <4>4 DEF EntryThere
    <3> QED  BY <3>1, <3>2, Zenon
  <2>2. CASE \E w \in pending_safe : FinishFlush(w)
    BY <2>2 DEF FinishFlush
  <2>3. CASE FinishPrezero
    BY <2>3 DEF FinishPrezero, reading
  <2>4. CASE FinishWriteHead
    BY <2>4 DEF FinishWriteHead, reading
  <2>5. CASE Trim \/ FinishTrim
    BY <2>5 DEF Trim, FinishTrim, reading
  <2> QED  BY <2>1, <2>2, <2>3, <2>4, <2>5 DEF Callback
<1>7. holder'.at = "read" => readable'
  BY <1>6 DEF Inv, InFlightOK
<1> QED
  BY <1>2, <1>3, <1>4, <1>5, <1>7, Keeps

-----------------------------------------------------------------------------
(* The steps that move no entry.                                           *)
LEMMA PushWaitPreserves ==
    ASSUME Inv, PushWait
    PROVE  Inv'
<1>1. JInv' /\ up /\ up' /\ UNCHANGED <<log, expire_pos, read_pos, safe_pos>>
  BY WaitForFlushInv DEF Inv, PushWait, WaitForFlush, writing, reading
<1>2. holder.at = "appended" /\ holder' \in HolderSet /\ holder'.at = "consume"
  BY HolderValues DEF PushWait, Holders, Places
<1>3. TypeOK'
  BY <1>1, <1>2 DEF Inv, TypeOK, JInv, PushWait, HolderSet, Holders, Places
<1>4. safe_pos <= safe_pos'
  BY <1>1, Facts DEF Inv
<1> QED
  BY <1>1, <1>2, <1>3, <1>4, Keeps DEF PushWait

LEMMA ConsumePreserves ==
    ASSUME Inv, Consume
    PROVE  Inv'
<1>1. /\ JInv' /\ up /\ up' /\ UNCHANGED <<log, expire_pos, read_pos, safe_pos, readable>>
  <2>1. CASE CanConsume
    BY <2>1, IsReadableInv DEF Inv, Consume, IsReadable
  <2>2. CASE ~CanConsume
    BY <2>2, StutterInv DEF Inv, Consume, jvars, writing, reading
  <2> QED  BY <2>1, <2>2
<1>2. /\ holder.at = "consume" /\ holder' \in HolderSet /\ holder'.at # "execute"
      /\ holder'.at = "read" => readable
      /\ delayed_flush' \in BOOLEAN
  <2>1. CASE CanConsume
    <3> DEFINE x == IF readable THEN "read" ELSE "unreadable"
    <3>1. x \in Places /\ x # "execute" /\ (x = "read" => readable)
      BY DEF Places
    <3>2. holder' = [holder EXCEPT !.at = x, !.could = TRUE] /\ delayed_flush' = FALSE
      BY <2>1 DEF Consume
    <3> HIDE DEF x
    <3>3. holder' \in HolderSet /\ holder'.at = x
      BY <3>1, <3>2, HolderUpdates, TypeFacts
    <3> QED  BY <3>1, <3>2, <3>3 DEF Consume
  <2>2. CASE ~CanConsume
    <3>1. holder' = [holder EXCEPT !.at = "consumed"] /\ delayed_flush' = delayed_flush
      BY <2>2 DEF Consume
    <3>2. holder' \in HolderSet /\ holder'.at = "consumed"
      BY <3>1, HolderUpdates, TypeFacts DEF Places
    <3> QED  BY <3>1, <3>2 DEF Consume, Inv, TypeOK
  <2> QED  BY <2>1, <2>2
<1>3. TypeOK'
  BY <1>1, <1>2 DEF Inv, TypeOK, JInv, Consume, HolderSet, Holders, Places
<1>4. safe_pos <= safe_pos'
  BY <1>1, Facts DEF Inv
<1>5. holder'.at = "read" => readable'
  BY <1>1, <1>2
<1> QED
  BY <1>1, <1>2, <1>3, <1>4, <1>5, Keeps DEF Consume

LEMMA ConsumeWaitPreserves ==
    ASSUME Inv, ConsumeWait
    PROVE  Inv'
<1>1. JInv' /\ up /\ up' /\ UNCHANGED <<log, expire_pos, read_pos, safe_pos>>
  <2>1. CASE on_readable
    BY <2>1, StutterInv DEF Inv, ConsumeWait, jvars, writing, reading
  <2>2. CASE ~on_readable
    BY <2>2, WaitForReadableInv DEF Inv, ConsumeWait, WaitForReadable, writing
  <2> QED  BY <2>1, <2>2
<1>2. holder.at = "unreadable" /\ holder' \in HolderSet /\ holder'.at = "consumed"
  BY HolderUpdates, TypeFacts DEF ConsumeWait, Places
<1>3. TypeOK'
  BY <1>1, <1>2 DEF Inv, TypeOK, JInv, ConsumeWait, HolderSet, Holders, Places
<1>4. safe_pos <= safe_pos'
  BY <1>1, Facts DEF Inv
<1> QED
  BY <1>1, <1>2, <1>3, <1>4, Keeps DEF ConsumeWait

LEMMA ConsumedPreserves ==
    ASSUME Inv, Consumed
    PROVE  Inv'
<1>1. /\ up /\ up' /\ UNCHANGED <<log, expire_pos, read_pos, safe_pos>>
      /\ UNCHANGED <<up, writing, safe_pos, waitfor_safe, reading, reported, expire_pos, end>>
  BY DEF Consumed, writing, reading
<1>2. MaybeWriteHead(safe_pos)
  BY DEF Consumed, MaybeWriteHead
<1>3. JInv'
  BY <1>1, <1>2, WriteHeadInv DEF Inv
<1>4. holder.at = "consumed" /\ holder' \in HolderSet /\ holder'.at = "free"
  BY HolderValues DEF Consumed
<1>5. delayed_flush' \in BOOLEAN
  BY DEF Consumed
<1>6. TypeOK'
  BY <1>1, <1>3, <1>4, <1>5 DEF Inv, TypeOK, JInv, Consumed, HolderSet, Holders, Places
<1>7. safe_pos <= safe_pos'
  BY <1>1, Facts DEF Inv
<1> QED
  BY <1>1, <1>3, <1>4, <1>6, <1>7, Keeps DEF Consumed

LEMMA DelayedFlushPreserves ==
    ASSUME Inv, DelayedFlush
    PROVE  Inv'
<1>1. JInv' /\ up /\ up' /\ UNCHANGED <<log, expire_pos, read_pos, safe_pos>>
  <2>1. JInv' /\ up /\ up' /\ UNCHANGED <<expire_pos, read_pos, safe_pos>>
    BY FlushInv DEF Inv, DelayedFlush, Flush, reading
  <2>2. log' = log
    BY DEF DelayedFlush, Flush, writing
  <2> QED  BY <2>1, <2>2
<1>2. holder = Free /\ holder' = Free /\ Free.at = "free"
  BY DEF DelayedFlush, IsFree, Free
<1>3. TypeOK'
  BY <1>1 DEF Inv, TypeOK, JInv, DelayedFlush
<1>4. safe_pos <= safe_pos'
  BY <1>1, Facts DEF Inv
<1> QED
  BY <1>1, <1>2, <1>3, <1>4, Keeps DEF DelayedFlush

LEMMA CalledPreserves ==
    ASSUME Inv, CalledByJournaler \/ CalledByKick
    PROVE  Inv'
<1>1. JInv' /\ up /\ up' /\ UNCHANGED <<log, expire_pos, read_pos, safe_pos>>
  <2>1. CASE CalledByJournaler
    <3>1. up /\ notified' \in BOOLEAN
      BY <2>1 DEF CalledByJournaler
    <3>2. UNCHANGED <<up, writing, safe_pos, waitfor_safe, read_pos, requested_pos, received_pos,
                      readable, on_readable, reported, expire_pos, trimming, end>>
      BY <2>1 DEF CalledByJournaler
    <3>3. JInv'
      BY <3>1, <3>2, NotifiedInv DEF Inv
    <3> QED  BY <3>1, <3>2, <3>3 DEF writing
  <2>2. CASE CalledByKick
    BY <2>2, StutterInv DEF Inv, CalledByKick, jvars, writing, reading
  <2> QED  BY <2>1, <2>2
<1>2. holder.at = "free" /\ holder' \in HolderSet /\ holder'.at = "consume"
  BY HolderValues DEF CalledByJournaler, CalledByKick, IsFree, Places, Holders
<1>3. TypeOK'
  BY <1>1, <1>2 DEF Inv, TypeOK, JInv, CalledByJournaler, CalledByKick, HolderSet, Holders, Places
<1>4. safe_pos <= safe_pos'
  BY <1>1, Facts DEF Inv
<1> QED
  BY <1>1, <1>2, <1>3, <1>4, Keeps DEF CalledByJournaler, CalledByKick

LEMMA LimitsPreserve ==
    ASSUME Inv, Configure \/ HandleConfChange \/ Drain \/ Activate
    PROVE  Inv'
<1>1. UNCHANGED jvars /\ UNCHANGED <<dn, purged, in_flight, holder>> /\ up
  BY DEF Configure, HandleConfChange, Drain, Activate
<1>2. JInv'
  BY <1>1, StutterInv DEF Inv
<1>3. up' /\ UNCHANGED <<log, expire_pos, read_pos, safe_pos, readable>>
  BY <1>1 DEF jvars, writing, reading
<1>4. TypeOK'
  <2>1. CASE Configure
    <3>1. changed' \subseteq {"files", "ops"}
      BY <2>1 DEF Configure
    <3>2. changes' \in 0 .. MaxChanges
      BY <2>1, PurgeQueueAssumption DEF Configure, Inv, TypeOK, PurgeQueueAssumption
    <3> QED  BY <1>1, <1>2, <1>3, <2>1, <3>1, <3>2 DEF Configure, Inv, TypeOK, JInv
  <2>2. CASE HandleConfChange
    <3>1. max_purge_ops' \in Ops
      BY <2>2 DEF HandleConfChange, Inv, TypeOK
    <3>2. kicked' \in BOOLEAN /\ silent' \in BOOLEAN
      BY <2>2 DEF HandleConfChange
    <3> QED  BY <1>1, <1>2, <1>3, <2>2, <3>1, <3>2 DEF HandleConfChange, Inv, TypeOK, JInv
  <2>3. CASE Drain
    <3>1. max_purge_ops' \in Ops
      BY <2>3, PurgeQueueAssumption DEF Drain, Unthrottled, Inv, TypeOK, PurgeQueueAssumption
    <3>2. drained' \in {"no", "begun", "yes"}
      BY <2>3 DEF Drain
    <3> QED  BY <1>1, <1>2, <1>3, <2>3, <3>1, <3>2 DEF Drain, Inv, TypeOK, JInv
  <2>4. CASE Activate
    <3>1. kicked' \in BOOLEAN /\ started' \in BOOLEAN
      BY <2>4 DEF Activate
    <3> QED  BY <1>1, <1>2, <1>3, <2>4, <3>1 DEF Activate, Inv, TypeOK, JInv
  <2> QED  BY <2>1, <2>2, <2>3, <2>4
<1>5. safe_pos <= safe_pos' /\ (holder'.at = "read" => readable')
  BY <1>1, <1>3, Facts DEF Inv, InFlightOK
<1> QED
  BY <1>1, <1>2, <1>3, <1>4, <1>5, Keeps

-----------------------------------------------------------------------------
(* The steps that move an entry on.                                        *)
LEMMA EvalStrayPreserves ==
    ASSUME Inv, NEW i \in Item, EvalStray(i)
    PROVE  Inv'
<1>1. /\ JInv /\ JInv' /\ Len(log') = Len(log) + 1 /\ \A k \in DOMAIN log : log'[k] = log[k]
  BY AppendEntryInv DEF Inv, EvalStray
<1>2. /\ up /\ up' /\ UNCHANGED <<expire_pos, read_pos, safe_pos>>
      /\ UNCHANGED <<started, purged, in_flight, delayed_flush, kicked, max_purge_files,
                     max_purge_ops, changed, silent, drained, crashes, changes>>
  BY DEF EvalStray, AppendEntry, reading
<1>3. /\ DOMAIN log = 1 .. Len(log) /\ DOMAIN log' = 1 .. Len(log) + 1 /\ Len(log) \in Nat
      /\ DOMAIN log \subseteq DOMAIN log'
  <2>1. log \in Seq(Item) /\ log' \in Seq(Item) /\ Len(log) \in Nat
    BY <1>1 DEF JInv, JTypeOK
  <2>2. DOMAIN log' = 1 .. Len(log')
    BY <2>1
  <2> QED  BY <1>1, <2>1, <2>2
<1>4. holder = Free /\ holder' \in HolderSet /\ holder'.at = "appended"
  BY HolderValues DEF EvalStray, IsFree, Holders, Places
<1>5. /\ dn' = [dn EXCEPT ![i] = "purging"]
      /\ dn' \in [Item -> {"stray", "purging", "logging", "gone"}]
  BY TypeFacts DEF EvalStray
<1>6. TypeOK'
  <2>1. in_flight' \subseteq {2 * k : k \in DOMAIN log'}
    BY <1>2, <1>3, TypeFacts
  <2> QED  BY <1>1, <1>2, <1>4, <1>5, <2>1 DEF Inv, TypeOK, JInv, HolderSet, Holders, Places
<1>7. \A k \in DOMAIN log' : 2 * k <= read_pos => k \in DOMAIN log
  <2>1. read_pos <= 2 * Len(log) /\ read_pos \in Nat
    <3>1. Reading /\ safe_pos <= write_pos
      BY <1>1, <1>2, Facts DEF Writing, WritesOK
    <3> QED  BY <1>1, <3>1, Facts DEF Reading
  <2> QED  BY <1>3, <2>1
<1>8. ReadIsHandled'
  BY <1>1, <1>2, <1>4, <1>7, HolderValues DEF Inv, ReadIsHandled
<1>9. InFlightOK'
  BY <1>2, <1>4 DEF Inv, InFlightOK
<1>10. DoneBefore'
  <2> SUFFICES ASSUME NEW k \in DOMAIN log', 2 * k <= expire_pos PROVE log'[k] \in purged
    BY <1>2 DEF DoneBefore, Expired
  <2>1. 2 * k <= read_pos
    <3>1. expire_pos <= read_pos /\ expire_pos \in Nat /\ read_pos \in Nat
      BY <1>1, <1>2, Facts DEF Reading
    <3>2. 2 * k \in Nat
      BY <1>3
    <3> QED  BY <3>1, <3>2
  <2> QED  BY <1>1, <1>2, <1>7, <2>1 DEF Inv, DoneBefore, Expired
<1>11. DnOK'
  <2> SUFFICES ASSUME NEW j \in Item, dn'[j] \in {"logging", "gone"}, j \notin purged
               PROVE  \E k \in DOMAIN log' : log'[k] = j /\ 2 * k <= safe_pos
    BY <1>2 DEF DnOK, Durable
  <2>1. dn[j] \in {"logging", "gone"}
    BY <1>5, TypeFacts
  <2>2. PICK k \in DOMAIN log : log[k] = j /\ 2 * k <= safe_pos
    BY <1>2, <2>1 DEF Inv, DnOK, Durable
  <2> QED  BY <1>1, <1>3, <2>2
<1> QED
  BY <1>1, <1>6, <1>8, <1>9, <1>10, <1>11 DEF Inv

(* The dentry is given up when the item is reported safe.                  *)
LEMMA PurgeStrayPurgedPreserves ==
    ASSUME Inv, NEW i \in Item, PurgeStrayPurged(i)
    PROVE  Inv'
<1>1. /\ UNCHANGED jvars /\ up
      /\ UNCHANGED <<started, purged, in_flight, delayed_flush, kicked, holder,
                     max_purge_files, max_purge_ops, changed, silent, drained, crashes, changes>>
  BY DEF PurgeStrayPurged
<1>2. JInv /\ JInv'
  BY <1>1, StutterInv DEF Inv
<1>3. UNCHANGED <<up, log, expire_pos, read_pos, safe_pos, readable, head, end>>
  BY <1>1 DEF jvars, writing, reading, trimming
<1>4. /\ dn' = [dn EXCEPT ![i] = "logging"]
      /\ dn' \in [Item -> {"stray", "purging", "logging", "gone"}]
  BY TypeFacts DEF PurgeStrayPurged
<1>5. TypeOK'
  BY <1>1, <1>2, <1>3, <1>4 DEF Inv, TypeOK, JInv
<1>6. ReadIsHandled' /\ InFlightOK' /\ DoneBefore'
  BY <1>1, <1>3 DEF Inv, ReadIsHandled, InFlightOK, DoneBefore, Expired
<1>7. DnOK'
  <2> SUFFICES ASSUME NEW j \in Item, dn'[j] \in {"logging", "gone"}, j \notin purged
               PROVE  \E k \in DOMAIN log : log[k] = j /\ 2 * k <= safe_pos
    BY <1>1, <1>3 DEF DnOK, Durable
  <2>1. CASE j = i
    <3>1. PICK k \in DOMAIN log : log[k] = i /\ 2 * k \in reported
      BY DEF PurgeStrayPurged, IsReported, ItemOf
    <3>2. 2 * k <= safe_pos
      BY <1>1, <1>2, <3>1, Facts DEF Writing
    <3> QED  BY <2>1, <3>1, <3>2
  <2>2. CASE j # i
    <3>1. dn[j] \in {"logging", "gone"}
      BY <1>4, <2>2, TypeFacts
    <3> QED  BY <1>1, <3>1 DEF Inv, DnOK, Durable
  <2> QED  BY <2>1, <2>2
<1> QED
  BY <1>2, <1>5, <1>6, <1>7 DEF Inv

LEMMA PurgeStrayLoggedPreserves ==
    ASSUME Inv, NEW i \in Item, PurgeStrayLogged(i)
    PROVE  Inv'
<1>1. /\ UNCHANGED jvars /\ up
      /\ UNCHANGED <<started, purged, in_flight, delayed_flush, kicked, holder,
                     max_purge_files, max_purge_ops, changed, silent, drained, crashes, changes>>
  BY DEF PurgeStrayLogged
<1>2. JInv /\ JInv'
  BY <1>1, StutterInv DEF Inv
<1>3. up' /\ UNCHANGED <<log, expire_pos, read_pos, safe_pos, readable>>
  BY <1>1 DEF jvars, writing, reading
<1>4. /\ dn' = [dn EXCEPT ![i] = "gone"] /\ dn[i] = "logging"
      /\ dn' \in [Item -> {"stray", "purging", "logging", "gone"}]
  BY TypeFacts DEF PurgeStrayLogged
<1>5. TypeOK'
  BY <1>1, <1>2, <1>3, <1>4 DEF Inv, TypeOK, JInv
<1>6. \A j \in Item : dn'[j] \in {"logging", "gone"} => dn[j] \in {"logging", "gone"}
  BY <1>4, TypeFacts
<1>7. safe_pos <= safe_pos' /\ (holder'.at = "read" => readable')
  BY <1>1, <1>2, <1>3, Facts DEF Inv, InFlightOK
<1> QED
  BY <1>1, <1>2, <1>3, <1>5, <1>6, <1>7, Keeps

LEMMA ConsumeReadPreserves ==
    ASSUME Inv, ConsumeRead
    PROVE  Inv'
<1>1. JInv /\ JInv'
  BY TryReadEntryInv DEF Inv, ConsumeRead
<1>2. /\ up /\ up' /\ readable /\ read_pos' = read_pos + 2
      /\ UNCHANGED <<log, safe_pos, expire_pos>>
      /\ UNCHANGED <<started, dn, purged, in_flight, delayed_flush, kicked, max_purge_files,
                     max_purge_ops, changed, silent, drained, crashes, changes>>
  BY DEF ConsumeRead, TryReadEntry
<1>3. holder.at = "read" /\ holder' \in HolderSet /\ holder'.at = "execute"
  BY HolderUpdates, TypeFacts DEF ConsumeRead, Places
<1>4. TypeOK'
  BY <1>1, <1>2, <1>3 DEF Inv, TypeOK, JInv, HolderSet, Holders, Places
<1>5. /\ read_pos \in Nat /\ expire_pos \in Nat /\ expire_pos <= read_pos /\ IsBoundary(read_pos)
      /\ read_pos + 2 <= 2 * Len(log) /\ Len(log) \in Nat
  <2>1. Reading /\ safe_pos <= write_pos
    BY <1>1, <1>2, Facts DEF Writing, WritesOK
  <2>2. /\ expire_pos <= read_pos /\ IsBoundary(read_pos)
        /\ received_pos <= requested_pos /\ requested_pos <= safe_pos
        /\ read_pos + 2 <= received_pos
    BY <1>2, <2>1, Zenon DEF Reading
  <2>3. /\ read_pos \in Nat /\ expire_pos \in Nat /\ received_pos \in Nat /\ requested_pos \in Nat
        /\ safe_pos \in Nat /\ Len(log) \in Nat /\ write_pos = 2 * Len(log)
    BY <1>1, Facts
  <2> QED  BY <2>1, <2>2, <2>3
<1>6. PICK n \in DOMAIN log : read_pos + 2 = 2 * n
  <2> DEFINE n == read_pos \div 2 + 1
  <2>1. n \in 1 .. Len(log) /\ read_pos + 2 = 2 * n
    BY <1>5 DEF IsBoundary
  <2> QED  BY <1>1, <2>1, LogFacts
<1>7. \A p \in in_flight : p \in Nat /\ expire_pos < p /\ p <= read_pos
  BY <1>1, TypeFacts, LogFacts DEF Inv, InFlightOK
<1>8. ReadIsHandled'
  <2> SUFFICES ASSUME NEW k \in DOMAIN log, 2 * k <= read_pos + 2
               PROVE  log[k] \in purged \/ 2 * k \in in_flight \/ 2 * k = read_pos + 2
    BY <1>2, <1>3 DEF ReadIsHandled
  <2>1. k \in Nat
    BY <1>1, LogFacts
  <2>2. CASE 2 * k <= read_pos
    BY <1>2, <1>3, <2>2 DEF Inv, ReadIsHandled
  <2>3. CASE 2 * k = read_pos + 2
    BY <2>3
  <2> QED  BY <1>5, <2>1, <2>2, <2>3 DEF IsBoundary
<1>9. InFlightOK'
  <2>1. \A p \in in_flight' : expire_pos' < p /\ p <= read_pos'
    BY <1>2, <1>5, <1>7
  <2>2. read_pos' \notin in_flight' /\ expire_pos' < read_pos'
    BY <1>2, <1>5, <1>7
  <2>3. \E k \in DOMAIN log' : read_pos' = 2 * k
    BY <1>2, <1>6
  <2> QED  BY <1>2, <1>3, <2>1, <2>2, <2>3 DEF InFlightOK
<1>10. DoneBefore' /\ DnOK'
  BY <1>2 DEF Inv, DoneBefore, DnOK, Expired, Durable
<1> QED
  BY <1>1, <1>4, <1>8, <1>9, <1>10 DEF Inv

LEMMA ExecuteItemPreserves ==
    ASSUME Inv, ExecuteItem
    PROVE  Inv'
<1>1. /\ UNCHANGED jvars /\ up
      /\ UNCHANGED <<started, dn, purged, delayed_flush, kicked, max_purge_files,
                     max_purge_ops, changed, silent, drained, crashes, changes>>
      /\ in_flight' = in_flight \cup {read_pos}
  BY DEF ExecuteItem, EndOfEntry
<1>2. JInv /\ JInv'
  BY <1>1, StutterInv DEF Inv
<1>3. UNCHANGED <<up, log, expire_pos, read_pos, safe_pos, readable, head, end>>
  BY <1>1 DEF jvars, writing, reading, trimming
<1>4. holder.at = "execute" /\ holder' \in HolderSet /\ holder'.at = "consume"
  BY HolderUpdates, TypeFacts DEF ExecuteItem, Places
<1>5. expire_pos < read_pos /\ (\E k \in DOMAIN log : read_pos = 2 * k) /\ read_pos \in Nat
  BY <1>2, <1>4, Facts DEF Inv, InFlightOK
<1>6. TypeOK'
  <2>1. in_flight' \subseteq {2 * k : k \in DOMAIN log'}
    BY <1>1, <1>3, <1>5, TypeFacts
  <2> QED  BY <1>1, <1>2, <1>3, <1>4, <2>1 DEF Inv, TypeOK, JInv, HolderSet, Holders, Places
<1>7. ReadIsHandled'
  BY <1>1, <1>3 DEF Inv, ReadIsHandled
<1>8. InFlightOK'
  BY <1>1, <1>3, <1>4, <1>5 DEF Inv, InFlightOK
<1>9. DoneBefore' /\ DnOK'
  BY <1>1, <1>3 DEF Inv, DoneBefore, DnOK, Expired, Durable
<1> QED
  BY <1>2, <1>6, <1>7, <1>8, <1>9 DEF Inv

(* Only the lowest moves expire_pos, and by then all before it are done.   *)
LEMMA ExecuteItemCompletePreserves ==
    ASSUME Inv, NEW p \in in_flight, ExecuteItemComplete(p)
    PROVE  Inv'
<1>1. /\ up /\ up' /\ purged' = purged \cup {ItemAt(p)} /\ expire_pos' = ExpireTo(p)
      /\ in_flight' = in_flight \ {p}
      /\ UNCHANGED <<up, writing, safe_pos, waitfor_safe, reading, reported, trimming, end>>
      /\ UNCHANGED <<started, dn, delayed_flush, kicked, max_purge_files, max_purge_ops, changed,
                     silent, drained, crashes, changes>>
  BY DEF ExecuteItemComplete
<1>2. JInv /\ UNCHANGED <<log, read_pos, safe_pos, readable>>
  BY <1>1 DEF Inv, writing, reading
<1>3. PICK n \in DOMAIN log : p = 2 * n
  BY TypeFacts
<1>4. ItemAt(p) = log[n] /\ log[n] \in Item /\ p \in Nat /\ IsBoundary(p)
  BY <1>2, <1>3, LogFacts DEF ItemAt
<1>5. /\ \A q \in in_flight : q \in Nat /\ expire_pos < q /\ q <= read_pos
      /\ expire_pos \in Nat /\ IsBoundary(expire_pos) /\ read_pos \in Nat /\ expire_pos <= read_pos
  <2>1. Reading /\ expire_pos \in Nat /\ read_pos \in Nat
    BY <1>1, <1>2, Facts
  <2>2. expire_pos <= read_pos /\ IsBoundary(expire_pos)
    BY <2>1 DEF Reading
  <2>3. \A q \in in_flight : q \in Nat
    BY <1>2, TypeFacts, LogFacts
  <2> QED  BY <2>1, <2>2, <2>3 DEF Inv, InFlightOK
<1>6. /\ expire_pos' \in Nat /\ IsBoundary(expire_pos')
      /\ expire_pos <= expire_pos' /\ expire_pos' <= read_pos
  <2>1. CASE IsLowest(p)
    BY <1>1, <1>4, <1>5, <2>1 DEF ExpireTo
  <2>2. CASE ~IsLowest(p)
    BY <1>1, <1>5, <2>2 DEF ExpireTo
  <2> QED  BY <2>1, <2>2
<1>7. JInv'
  BY <1>1, <1>2, <1>6, ExpireInv
<1>8. holder.at = "free" /\ holder' \in HolderSet /\ holder'.at = "consume"
  BY HolderValues DEF ExecuteItemComplete, IsFree, Holders, Places
<1>9. TypeOK'
  <2>1. purged' \subseteq Item /\ in_flight' \subseteq {2 * k : k \in DOMAIN log'}
    BY <1>1, <1>2, <1>4, TypeFacts
  <2> QED  BY <1>1, <1>7, <1>8, <2>1 DEF Inv, TypeOK, JInv, HolderSet, Holders, Places
<1>10. \A k \in DOMAIN log : 2 * k <= read_pos => log[k] \in purged' \/ 2 * k \in in_flight'
  <2> SUFFICES ASSUME NEW k \in DOMAIN log, 2 * k <= read_pos
               PROVE  log[k] \in purged' \/ 2 * k \in in_flight'
    OBVIOUS
  <2>1. log[k] \in purged \/ 2 * k \in in_flight
    BY <1>1, <1>8 DEF Inv, ReadIsHandled
  <2>2. CASE 2 * k = p
    <3>1. k = n
      BY <1>2, <1>3, <2>2, LogFacts
    <3> QED  BY <1>1, <1>4, <3>1
  <2> QED  BY <1>1, <2>1, <2>2
<1>11. ReadIsHandled'
  BY <1>2, <1>10 DEF ReadIsHandled
<1>12. \A q \in in_flight' : expire_pos' < q
  <2> SUFFICES ASSUME NEW q \in in_flight, q # p PROVE expire_pos' < q
    BY <1>1
  <2>1. CASE IsLowest(p)
    <3>1. p <= q /\ q \in Nat
      BY <1>5, <2>1 DEF IsLowest
    <3> QED  BY <1>1, <1>4, <2>1, <3>1 DEF ExpireTo
  <2>2. CASE ~IsLowest(p)
    BY <1>1, <1>5, <2>2 DEF ExpireTo
  <2> QED  BY <2>1, <2>2
<1>13. InFlightOK'
  <2>1. \A q \in in_flight' : q <= read_pos'
    BY <1>1, <1>2, <1>5
  <2> QED  BY <1>1, <1>8, <1>12, <2>1 DEF InFlightOK
<1>14. DoneBefore'
  <2> SUFFICES ASSUME NEW k \in DOMAIN log, 2 * k <= expire_pos' PROVE log[k] \in purged'
    BY <1>1, <1>2 DEF DoneBefore, Expired
  <2>1. 2 * k \in Nat
    BY <1>2, LogFacts
  <2>2. 2 * k <= read_pos
    BY <1>5, <1>6, <2>1
  <2>3. 2 * k \notin in_flight'
    <3>1. ~(expire_pos' < 2 * k)
      BY <1>6, <2>1
    <3> QED  BY <1>12, <3>1
  <2> QED  BY <1>10, <2>2, <2>3
<1>15. DnOK'
  BY <1>1, <1>2 DEF Inv, DnOK, Durable
<1> QED
  BY <1>7, <1>9, <1>11, <1>13, <1>14, <1>15 DEF Inv

-----------------------------------------------------------------------------
(* Crash and restart.                                                      *)
LEMMA CrashPreserves ==
    ASSUME Inv, Crash
    PROVE  Inv'
<1>1. JInv /\ JInv' /\ safe_pos <= end' /\ IsCutTo(end') /\ head' \in Heads
  BY JCrashInv DEF Inv, Crash
<1>2. up /\ up' = FALSE
  BY DEF Crash, JCrash
<1>3. /\ crashes < MaxCrashes /\ crashes' = crashes + 1 /\ started' = FALSE
      /\ dn' = [i \in Item |-> IF dn[i] = "gone" THEN "gone" ELSE "stray"]
      /\ in_flight' = {} /\ delayed_flush' = FALSE /\ kicked' = FALSE /\ holder' = Free
      /\ changed' = {} /\ silent' = FALSE
      /\ drained' = (IF drained = "begun" THEN "no" ELSE drained)
      /\ UNCHANGED <<purged, max_purge_files, max_purge_ops, changes>>
  BY DEF Crash
<1>4. TypeOK'
  <2>1. crashes' \in 0 .. MaxCrashes
    BY <1>3, PurgeQueueAssumption DEF Inv, TypeOK, PurgeQueueAssumption
  <2>2. dn' \in [Item -> {"stray", "purging", "logging", "gone"}]
    BY <1>3
  <2>3. holder' \in HolderSet
    BY <1>3, HolderValues
  <2> QED  BY <1>1, <1>3, <2>1, <2>2, <2>3 DEF Inv, TypeOK, JInv, HolderSet, Holders, Places
<1>5. ReadIsHandled'
  BY <1>2 DEF ReadIsHandled
<1>6. InFlightOK'
  BY <1>2, <1>3, HolderValues DEF InFlightOK
<1>7. DoneBefore'
  <2> SUFFICES ASSUME NEW k \in DOMAIN log', 2 * k <= head'.expire PROVE log'[k] \in purged
    BY <1>2, <1>3 DEF DoneBefore, Expired
  <2>1. k \in DOMAIN log /\ log'[k] = log[k]
    BY <1>1 DEF IsCutTo
  <2>2. /\ head'.expire \in Nat /\ Expired \in Nat /\ head'.expire <= Expired /\ 2 * k \in Nat
    BY <1>1, <2>1, HeadsBeforeExpired, LogFacts
  <2>3. 2 * k <= Expired
    BY <2>2
  <2> QED  BY <2>1, <2>3 DEF Inv, DoneBefore
<1>8. DnOK'
  <2> SUFFICES ASSUME NEW i \in Item, dn'[i] \in {"logging", "gone"}, i \notin purged
               PROVE  \E k \in DOMAIN log' : log'[k] = i /\ 2 * k <= end'
    BY <1>2, <1>3 DEF DnOK, Durable
  <2>1. dn[i] = "gone"
    BY <1>3
  <2>2. PICK k \in DOMAIN log : log[k] = i /\ 2 * k <= safe_pos
    BY <1>2, <2>1 DEF Inv, DnOK, Durable
  <2>3. 2 * k \in Nat /\ safe_pos \in Nat /\ end' \in Nat
    BY <1>1, LogFacts, Facts DEF JInv, JTypeOK, Position
  <2>4. 2 * k <= end'
    BY <1>1, <2>2, <2>3
  <2> QED  BY <1>1, <2>2, <2>4 DEF IsCutTo
<1> QED
  BY <1>1, <1>4, <1>5, <1>6, <1>7, <1>8 DEF Inv

LEMMA OpenPreserves ==
    ASSUME Inv, Open
    PROVE  Inv'
<1>1. JInv /\ JInv' /\ IsCutTo(end) /\ safe_pos' = Whole(end)
  BY JRecoverInv DEF Inv, Open
<1>2. ~up /\ up' /\ read_pos' = head.expire /\ expire_pos' = head.expire
  BY DEF Open, JRecover, FinishReadHead, FinishProbeEnd
<1>3. /\ UNCHANGED <<started, dn, purged, in_flight, delayed_flush, kicked, holder, max_purge_files>>
      /\ UNCHANGED <<max_purge_ops, changed, silent, drained, crashes, changes>>
  BY DEF Open, pqvars
<1>4. in_flight = {} /\ holder.at = "free"
  BY <1>2 DEF Inv, InFlightOK
<1>5. TypeOK'
  BY <1>1, <1>3, <1>4 DEF Inv, TypeOK, JInv
<1>6. \A k \in DOMAIN log' : 2 * k <= head.expire => log'[k] \in purged
  BY <1>1, <1>2 DEF IsCutTo, Inv, DoneBefore, Expired
<1>7. ReadIsHandled' /\ DoneBefore'
  BY <1>2, <1>3, <1>6 DEF ReadIsHandled, DoneBefore, Expired
<1>8. InFlightOK'
  BY <1>2, <1>3, <1>4 DEF InFlightOK
<1>9. DnOK'
  <2> SUFFICES ASSUME NEW i \in Item, dn[i] \in {"logging", "gone"}, i \notin purged
               PROVE  \E k \in DOMAIN log' : log'[k] = i /\ 2 * k <= safe_pos'
    BY <1>2, <1>3 DEF DnOK, Durable
  <2>1. PICK k \in DOMAIN log : log[k] = i /\ 2 * k <= end
    BY <1>2 DEF Inv, DnOK, Durable
  <2>2. 2 * k \in Nat /\ IsBoundary(2 * k) /\ end \in Nat
    BY <1>1, LogFacts, Facts
  <2>3. 2 * k <= Whole(end)
    BY <2>1, <2>2, WholeProperties
  <2> QED  BY <1>1, <2>1, <2>3 DEF IsCutTo
<1> QED
  BY <1>1, <1>5, <1>7, <1>8, <1>9 DEF Inv

-----------------------------------------------------------------------------
LEMMA InitInv ==
    ASSUME Init
    PROVE  Inv
<1>1. JInv
  BY JInitInv DEF Init
<1>2. up /\ log = <<>> /\ DOMAIN log = {}
  BY DEF Init, JInit
<1>3. TypeOK
  <2>1. holder \in HolderSet
    BY HolderValues DEF Init, PQInit
  <2>2. dn \in [Item -> {"stray", "purging", "logging", "gone"}]
    BY DEF Init, PQInit
  <2>3. crashes \in 0 .. MaxCrashes /\ changes \in 0 .. MaxChanges
    BY PurgeQueueAssumption DEF Init, PQInit, PurgeQueueAssumption
  <2> QED  BY <1>1, <2>1, <2>2, <2>3 DEF Init, PQInit, TypeOK, JInv, HolderSet, Holders, Places
<1>4. ReadIsHandled /\ DoneBefore
  BY <1>2 DEF ReadIsHandled, DoneBefore
<1>5. InFlightOK
  BY <1>2, HolderValues DEF Init, PQInit, InFlightOK
<1>6. DnOK
  BY DEF Init, PQInit, DnOK
<1> QED
  BY <1>1, <1>3, <1>4, <1>5, <1>6 DEF Inv

LEMMA NextInv ==
    ASSUME Inv, [Next]_vars
    PROVE  Inv'
<1>1. ASSUME NEW i \in Item, EvalStray(i) PROVE Inv'
  BY <1>1, EvalStrayPreserves
<1>2. ASSUME NEW i \in Item, PurgeStrayPurged(i) PROVE Inv'
  BY <1>2, PurgeStrayPurgedPreserves
<1>3. ASSUME NEW i \in Item, PurgeStrayLogged(i) PROVE Inv'
  BY <1>3, PurgeStrayLoggedPreserves
<1>4. ASSUME NEW p \in in_flight, ExecuteItemComplete(p) PROVE Inv'
  BY <1>4, ExecuteItemCompletePreserves
<1>5. CASE PushWait \/ Consume \/ ConsumeWait \/ ConsumeRead \/ ExecuteItem \/ Consumed
  BY <1>5, PushWaitPreserves, ConsumePreserves, ConsumeWaitPreserves, ConsumeReadPreserves,
     ExecuteItemPreserves, ConsumedPreserves
<1>6. CASE DelayedFlush \/ CalledByJournaler \/ CalledByKick
  BY <1>6, DelayedFlushPreserves, CalledPreserves
<1>7. CASE Configure \/ HandleConfChange \/ Drain \/ Activate
  BY <1>7, LimitsPreserve
<1>8. CASE Crash \/ Open
  BY <1>8, CrashPreserves, OpenPreserves
<1>9. CASE Callback /\ UNCHANGED pqvars
  BY <1>9, CallbackPreserves
<1>10. CASE UNCHANGED vars
  BY <1>10, StutterPreserves
<1> QED
  BY <1>1, <1>2, <1>3, <1>4, <1>5, <1>6, <1>7, <1>8, <1>9, <1>10 DEF Next

LEMMA InvHolds == Spec => []Inv
  BY InitInv, NextInv, PTL DEF Spec

(* Types: positions are natural numbers, and what is in flight is the end  *)
(* of an entry of the log, however the lock's holder, the callbacks and    *)
(* the crashes interleave.                                                 *)
THEOREM PurgeTypes == Spec => []TypeOK
<1>1. Inv => TypeOK
  BY DEF Inv
<1> QED
  BY <1>1, InvHolds, PTL

(* The assertions of Journaler.cc and PurgeQueue.cc never fail.            *)
THEOREM PurgeAsserts == Spec => []AssertsHold
<1>1. Inv => AssertsHold
  BY InvAssertsHold
<1> QED
  BY <1>1, InvHolds, PTL

(* An entry whose completion _finish_flush has called is in the store,     *)
(* whole, whatever writes are on their way when the process dies.          *)
THEOREM ReportedEntriesSurvive == Spec => []ReportedIsDurable
<1>1. Inv => ReportedIsDurable
  BY InvReported DEF Inv
<1> QED
  BY <1>1, InvHolds, PTL

(* Every head that is or may come into the store finds its log.            *)
THEOREM LogIsFound == Spec => []HeadsFindTheLog
<1>1. Inv => HeadsFindTheLog
  BY InvHeads DEF Inv
<1> QED
  BY <1>1, InvHolds, PTL

(* Nothing is expired before its objects are gone.                         *)
THEOREM NothingExpiresEarly == Spec => []ExpiredIsDone
<1>1. Inv => ExpiredIsDone
  BY InvExpired
<1> QED
  BY <1>1, InvHolds, PTL

(* A stray whose dentry is gone for good has its objects gone too, or a    *)
(* purge item that the next process finds.                                 *)
THEOREM NothingLeaks == Spec => []NoLeak
<1>1. Inv => NoLeak
  BY InvNoLeak
<1> QED
  BY <1>1, InvHolds, PTL

=============================================================================
