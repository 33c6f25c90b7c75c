---------------------------- MODULE ExportQueue_proofs ----------------------------
(***************************************************************************)
(* Proofs about the export queue, for any directories, pins and limits.    *)
(***************************************************************************)
EXTENDS ExportQueue, FiniteSetTheorems, SequenceTheorems, NaturalsInduction,
        WellFoundedInduction, TLAPS

(* Whether the Migrator has an auth_pin on d.                              *)
HoldsPin(es, d) == d \in DOMAIN es /\ es[d].state \in {"locking", "discovering", "cancelling"}
PinCount(es) == [d \in Dirs |-> IF HoldsPin(es, d) THEN 1 ELSE 0]

(* What holds of the exports between any two steps, those of the loop      *)
(* included: a directory that is exported is a subtree of this rank, has   *)
(* the flag, and one pin in the states that need it.                       *)
Fields(st) == st = [es |-> st.es, auth |-> st.auth, flags |-> st.flags, pins |-> st.pins,
                    failed |-> st.failed]
Sound(st) ==
    /\ Fields(st)
    /\ st.es \in [DOMAIN st.es -> Export]
    /\ DOMAIN st.es \subseteq st.auth /\ st.auth \subseteq Dirs
    /\ st.flags = DOMAIN st.es
    /\ st.pins = PinCount(st.es)
    /\ st.failed = {}

(* The exports that the queue has started.                                 *)
Nice(st) == {d \in DOMAIN st.es : st.es[d].by = "queue"}
Few(st) == Cardinality(Nice(st)) <= Limit + 1

-----------------------------------------------------------------------------
(* The least of some numbers, and the size of sets of directories.         *)
LEMMA MinOf ==
    ASSUME NEW S \in SUBSET Nat, S # {}
    PROVE  Min(S) \in S /\ \A y \in S : Min(S) <= y
<1> DEFINE R == {ss \in Nat \X Nat : ss[1] < ss[2]}
<1>1. IsWellFoundedOn(R, Nat)
    BY NatLessThanWellFounded DEF OpToRel
<1> HIDE DEF R
<1>2. PICK x \in S : \A y \in S : ~(<<y, x>> \in R)
    BY <1>1, WFMin
<1>3. \A y \in Nat : y < x => <<y, x>> \in R
    <2> SUFFICES ASSUME NEW y \in Nat, y < x, x \in Nat, NEW s, s = <<y, x>> PROVE s \in R
        OBVIOUS
    <2>1. s \in Nat \X Nat /\ s[1] = y /\ s[2] = x
        OBVIOUS
    <2> QED
        BY <2>1 DEF R
<1>4. ASSUME NEW y \in S
      PROVE  x <= y
    <2>1. ~(y < x)
        BY <1>2, <1>3
    <2> QED
        BY <2>1
<1> QED
    BY <1>4 DEF Min

LEMMA DirsFinite ==
    ASSUME NEW S \in SUBSET Dirs
    PROVE  IsFiniteSet(S) /\ Cardinality(S) \in Nat
    BY FS_Subset, FS_CardinalityType, QueueAssumption

LEMMA DirsCount ==
    ASSUME NEW S \in SUBSET Dirs, NEW T \in SUBSET S
    PROVE  Cardinality(T) <= Cardinality(S)
    BY DirsFinite, FS_Subset

(* The start of an export.                                                 *)
Begun(st, d, dest, by) ==
    [st EXCEPT !.es = With(@, d, Fresh(dest, by)), !.flags = @ \cup {d},
               !.pins = [st.pins EXCEPT ![d] = @ + 1]]
LEMMA StartedSound ==
    ASSUME NEW st, Sound(st), NEW d \in st.auth, NEW dest \in Peers, d \notin DOMAIN st.es,
           NEW by \in {"queue", "direct"}, NEW s, s = Begun(st, d, dest, by)
    PROVE  /\ Sound(s) /\ s.auth = st.auth
           /\ DOMAIN s.es = DOMAIN st.es \cup {d} /\ s.es[d].state = "locking"
           /\ by = "direct" => Nice(s) \subseteq Nice(st)
<1> DEFINE X == With(st.es, d, Fresh(dest, by))
           Y == st.flags \cup {d}
           Z == [st.pins EXCEPT ![d] = @ + 1]
<1>1. s = [st EXCEPT !.es = X, !.flags = Y, !.pins = Z]
    BY DEF Sound, Fields, Begun
<1> HIDE DEF X, Y, Z
<1>2. /\ Fields(s) /\ s.es = X /\ s.flags = Y /\ s.pins = Z
      /\ s.auth = st.auth /\ s.failed = st.failed
    <2>1. Fields(st)
        BY DEF Sound
    <2> QED
        BY <1>1, <2>1 DEF Fields
<1>3. Fresh(dest, by) \in Export /\ Fresh(dest, by).state = "locking" /\ Fresh(dest, by).by = by
    BY QueueAssumption DEF Fresh, Export, States
<1>4. /\ DOMAIN X = DOMAIN st.es \cup {d} /\ X[d] = Fresh(dest, by)
      /\ \A x \in DOMAIN st.es : X[x] = st.es[x]
      /\ X \in [DOMAIN X -> Export]
    BY <1>3 DEF With, Sound, X
<1>5. Z = PinCount(X)
    BY <1>3, <1>4 DEF Sound, PinCount, HoldsPin, Z
<1>6. by = "direct" => Nice(s) \subseteq Nice(st)
    BY <1>2, <1>3, <1>4 DEF Nice
<1> QED
    BY <1>2, <1>3, <1>4, <1>5, <1>6 DEF Sound, Y

(* The end of an export.                                                   *)
LEMMA ErasedSound ==
    ASSUME NEW st, Sound(st), NEW d \in DOMAIN st.es, NEW unpin,
           unpin = IF HoldsPin(st.es, d) THEN 1 ELSE 0, NEW s, s = Erased(st, d, unpin)
    PROVE  /\ Sound(s) /\ s.auth = st.auth /\ DOMAIN s.es = DOMAIN st.es \ {d}
           /\ Nice(s) \subseteq Nice(st)
<1> DEFINE X == Without(st.es, {d})
           Y == st.flags \ {d}
           Z == [st.pins EXCEPT ![d] = @ - unpin]
<1>1. s = [st EXCEPT !.es = X, !.flags = Y, !.pins = Z]
    BY DEF Sound, Fields, Erased
<1> HIDE DEF X, Y, Z
<1>2. /\ Fields(s) /\ s.es = X /\ s.flags = Y /\ s.pins = Z
      /\ s.auth = st.auth /\ s.failed = st.failed
    <2>1. Fields(st)
        BY DEF Sound
    <2> QED
        BY <1>1, <2>1 DEF Fields
<1>3. /\ DOMAIN X = DOMAIN st.es \ {d} /\ X \in [DOMAIN X -> Export]
      /\ \A x \in DOMAIN X : X[x] = st.es[x]
    BY DEF Without, Sound, X
<1>4. Z = PinCount(X)
    <2>1. \A x \in Dirs : x # d => HoldsPin(X, x) = HoldsPin(st.es, x)
        BY <1>3 DEF HoldsPin
    <2>2. ~HoldsPin(X, d)
        BY <1>3 DEF HoldsPin
    <2>3. d \in Dirs /\ st.pins[d] = unpin /\ unpin \in Nat
        BY DEF Sound, PinCount
    <2>4. Z = [x \in Dirs |-> IF x = d THEN 0 ELSE st.pins[x]]
        BY <2>3 DEF Sound, PinCount, Z
    <2> QED
        BY <2>1, <2>2, <2>4 DEF Sound, PinCount
<1>5. Nice(s) \subseteq Nice(st)
    BY <1>2, <1>3 DEF Nice
<1> QED
    BY <1>2, <1>3, <1>4, <1>5 DEF Sound, Y

(* The states and the counts of an export change, its pin accordingly.     *)
LEMMA ChangedSound ==
    ASSUME NEW st, Sound(st), NEW d \in DOMAIN st.es, NEW e \in Export, e.by = st.es[d].by,
           NEW s, Fields(s), s.es = [st.es EXCEPT ![d] = e], s.auth = st.auth, s.flags = st.flags,
           s.failed = st.failed, s.pins \in [Dirs -> Nat],
           \A x \in Dirs : s.pins[x] =
                IF x = d THEN (IF e.state \in {"locking", "discovering", "cancelling"} THEN 1 ELSE 0)
                ELSE st.pins[x]
    PROVE  Sound(s) /\ DOMAIN s.es = DOMAIN st.es /\ Nice(s) \subseteq Nice(st)
<1>1. DOMAIN s.es = DOMAIN st.es /\ s.es \in [DOMAIN s.es -> Export] /\ s.es[d] = e
      /\ \A x \in DOMAIN st.es : x # d => s.es[x] = st.es[x]
    BY DEF Sound
<1>2. s.pins = PinCount(s.es)
    BY <1>1 DEF Sound, PinCount, HoldsPin
<1>3. Nice(s) \subseteq Nice(st)
    BY <1>1 DEF Nice
<1> QED
    BY <1>1, <1>2, <1>3 DEF Sound

(* dispatch_export_dir.                                                    *)
LEMMA DispatchedSound ==
    ASSUME NEW st, Sound(st), NEW d \in DOMAIN st.es, st.es[d].state = "locking",
           NEW o \in Outcome, NEW s, s = Dispatched(st, d, o)
    PROVE  /\ Sound(s) /\ s.auth = st.auth
           /\ DOMAIN s.es = DOMAIN st.es \/ DOMAIN s.es = DOMAIN st.es \ {d}
           /\ Nice(s) \subseteq Nice(st)
<1>1. Fields(st) /\ st.es[d] \in Export /\ d \in Dirs /\ st.pins \in [Dirs -> Nat]
      /\ st.pins[d] = 1 /\ HoldsPin(st.es, d)
    BY DEF Sound, PinCount, HoldsPin
<1>2. CASE o = "cancel" \/ (o = "map" /\ st.es[d].maps > MapLimit)
    <2>1. s = Erased(st, d, 1)
        <3>1. st.es[d].maps \in Nat /\ MapLimit \in Nat
            BY <1>1, QueueAssumption DEF Export
        <3>2. CASE o = "cancel"
            BY <3>2 DEF Dispatched
        <3>3. CASE o = "map" /\ st.es[d].maps > MapLimit
            BY <3>1, <3>3 DEF Dispatched
        <3> QED
            BY <1>2, <3>2, <3>3
    <2> QED
        BY <1>1, <2>1, ErasedSound
<1>3. CASE o = "map" /\ ~(st.es[d].maps > MapLimit)
    <2> DEFINE e == [st.es[d] EXCEPT !.maps = @ + 1]
               X == [st.es EXCEPT ![d] = e]
    <2>1. st.es[d].maps \in 0 .. MapLimit + 1 /\ MapLimit \in Nat /\ st.es[d].maps <= MapLimit
        BY <1>1, <1>3, QueueAssumption DEF Export
    <2>2. s = [st EXCEPT !.es = X]
        BY <1>1, <1>3, <2>1 DEF Dispatched, Fields
    <2>3. e \in Export /\ e.state = "locking" /\ e.by = st.es[d].by
        BY <1>1, <2>1 DEF Export, States
    <2> HIDE DEF X
    <2>4. /\ Fields(s) /\ s.es = X /\ s.flags = st.flags /\ s.pins = st.pins
          /\ s.auth = st.auth /\ s.failed = st.failed
        BY <1>1, <2>2 DEF Fields
    <2> HIDE DEF e
    <2> QED
        BY <1>1, <2>3, <2>4, ChangedSound DEF X
<1>4. CASE o = "lock"
    <2> DEFINE e == [st.es[d] EXCEPT !.maps = 0]
               X == [st.es EXCEPT ![d] = e]
    <2>1. s = [st EXCEPT !.es = X]
        BY <1>1, <1>4 DEF Dispatched, Fields
    <2>2. e \in Export /\ e.state = "locking" /\ e.by = st.es[d].by
        BY <1>1, QueueAssumption DEF Export, States
    <2> HIDE DEF X
    <2>3. /\ Fields(s) /\ s.es = X /\ s.flags = st.flags /\ s.pins = st.pins
          /\ s.auth = st.auth /\ s.failed = st.failed
        BY <1>1, <2>1 DEF Fields
    <2> HIDE DEF e
    <2> QED
        BY <1>1, <2>2, <2>3, ChangedSound DEF X
<1>5. CASE o = "go"
    <2> DEFINE e == [st.es[d] EXCEPT !.state = "discovering"]
               X == [st.es EXCEPT ![d] = e]
    <2>1. s = [st EXCEPT !.es = X]
        BY <1>1, <1>5 DEF Dispatched, Fields
    <2>2. e \in Export /\ e.state = "discovering" /\ e.by = st.es[d].by
        BY <1>1 DEF Export, States
    <2> HIDE DEF X
    <2>3. /\ Fields(s) /\ s.es = X /\ s.flags = st.flags /\ s.pins = st.pins
          /\ s.auth = st.auth /\ s.failed = st.failed
        BY <1>1, <2>1 DEF Fields
    <2> HIDE DEF e
    <2> QED
        BY <1>1, <2>2, <2>3, ChangedSound DEF X
<1> QED
    BY <1>2, <1>3, <1>4, <1>5 DEF Outcome

(* export_dir of a subtree, to another rank.                               *)
LEMMA ExportDirSound ==
    ASSUME NEW st, Sound(st), NEW d \in st.auth, NEW dest \in Peers, NEW o \in Outcome,
           NEW by \in {"queue", "direct"}, NEW s, s = ExportDir(st, d, dest, o, by)
    PROVE  /\ Sound(s) /\ s.auth = st.auth
           /\ DOMAIN st.es \subseteq DOMAIN s.es /\ DOMAIN s.es \subseteq DOMAIN st.es \cup {d}
           /\ by = "direct" => Nice(s) \subseteq Nice(st)
<1>1. Broken(st, d, dest) = {}
    BY QueueAssumption DEF Broken, Refuses, Sound
<1> DEFINE done == IF Refuses(st, d, dest) THEN st ELSE Dispatched(Begun(st, d, dest, by), d, o)
<1>2. s = [done EXCEPT !.failed = @ \cup {}]
    BY <1>1 DEF ExportDir, Begun
<1>3. /\ Sound(done) /\ done.auth = st.auth
      /\ DOMAIN st.es \subseteq DOMAIN done.es /\ DOMAIN done.es \subseteq DOMAIN st.es \cup {d}
      /\ by = "direct" => Nice(done) \subseteq Nice(st)
    <2>1. CASE Refuses(st, d, dest)
        BY <2>1
    <2>2. CASE ~Refuses(st, d, dest)
        <3>1. d \notin DOMAIN st.es
            BY <2>2 DEF Refuses, Sound
        <3>2. PICK b : b = Begun(st, d, dest, by)
            OBVIOUS
        <3>3. /\ Sound(b) /\ b.auth = st.auth
              /\ DOMAIN b.es = DOMAIN st.es \cup {d} /\ b.es[d].state = "locking"
              /\ by = "direct" => Nice(b) \subseteq Nice(st)
            BY <3>1, <3>2, StartedSound
        <3>4. done = Dispatched(b, d, o)
            BY <2>2, <3>2
        <3> HIDE DEF done
        <3>5. /\ Sound(done) /\ done.auth = b.auth
              /\ DOMAIN done.es = DOMAIN b.es \/ DOMAIN done.es = DOMAIN b.es \ {d}
              /\ Nice(done) \subseteq Nice(b)
            BY <3>3, <3>4, DispatchedSound
        <3> QED
            BY <3>1, <3>3, <3>5
    <2> QED
        BY <2>1, <2>2
<1> HIDE DEF done
<1>4. Fields(done)
    BY <1>3 DEF Sound
<1>5. /\ Fields(s) /\ s.es = done.es /\ s.auth = done.auth /\ s.flags = done.flags
      /\ s.pins = done.pins /\ s.failed = done.failed
    BY <1>2, <1>4 DEF Fields
<1> QED
    BY <1>3, <1>5 DEF Sound, Nice

-----------------------------------------------------------------------------
(* maybe_do_queued_export.  Tried is the function that its definition      *)
(* describes: there is one for each number of entries.                     *)
Try(st, q, o, by, n, s) ==
    IF q[n][1] \in st.auth THEN ExportDir(s, q[n][1], q[n][2], o[q[n][1]], by) ELSE s
IsTried(st, q, o, by, n, g) ==
    g = [i \in 0 .. n |-> IF i = 0 THEN st ELSE Try(st, q, o, by, i, g[i-1])]

LEMMA TriedExists ==
    ASSUME NEW st, NEW q, NEW o, NEW by, NEW k \in Nat
    PROVE  \E g : IsTried(st, q, o, by, k, g)
<1> DEFINE Bad == {n \in Nat : ~ \E g : IsTried(st, q, o, by, n, g)}
<1> SUFFICES ASSUME Bad # {} PROVE FALSE
    OBVIOUS
<1> DEFINE m == Min(Bad)
<1>1. m \in Bad /\ \A y \in Bad : m <= y
    BY MinOf
<1>2. m \in Nat /\ ~ \E g : IsTried(st, q, o, by, m, g)
    BY <1>1
<1>3. m # 0
    <2>1. PICK g : g = [i \in 0 .. 0 |-> st]
        OBVIOUS
    <2>2. IsTried(st, q, o, by, 0, g)
        BY <2>1 DEF IsTried
    <2> QED
        BY <1>2, <2>2
<1>4. m - 1 \in Nat /\ m - 1 \notin Bad
    <2> HIDE DEF m, Bad
    <2> QED
        BY <1>1, <1>2, <1>3
<1>5. PICK g : IsTried(st, q, o, by, m - 1, g)
    BY <1>4
<1> HIDE DEF m
<1>6. PICK t : t = Try(st, q, o, by, m, g[m-1])
    OBVIOUS
<1>7. PICK f : f = [i \in 0 .. m |-> IF i = m THEN t ELSE g[i]]
    OBVIOUS
<1>8. ASSUME NEW i \in 0 .. m
      PROVE  f[i] = IF i = 0 THEN st ELSE Try(st, q, o, by, i, f[i-1])
    <2>1. CASE i = 0
        BY <1>2, <1>3, <1>5, <1>7, <2>1 DEF IsTried
    <2>2. CASE i # 0 /\ i # m
        <3>1. i \in 0 .. (m - 1) /\ i - 1 \in 0 .. m /\ i - 1 # m
            BY <1>2, <1>4, <2>2
        <3>2. f[i] = g[i] /\ f[i-1] = g[i-1]
            BY <1>7, <2>2, <3>1
        <3>3. g[i] = Try(st, q, o, by, i, g[i-1])
            BY <1>5, <2>2, <3>1 DEF IsTried
        <3> QED
            BY <2>2, <3>2, <3>3
    <2>3. CASE i = m
        <3>1. m - 1 \in 0 .. m /\ m - 1 # m /\ m \in 0 .. m
            BY <1>2, <1>4
        <3>2. f[m-1] = g[m-1] /\ f[m] = t
            BY <1>7, <3>1
        <3> QED
            BY <1>3, <1>6, <2>3, <3>2
    <2> QED
        BY <2>1, <2>2, <2>3
<1>9. IsTried(st, q, o, by, m, f)
    BY <1>7, <1>8 DEF IsTried
<1> QED
    BY <1>2, <1>9

LEMMA TriedSteps ==
    ASSUME NEW st, NEW q, Len(q) \in Nat, NEW o, NEW by
    PROVE  LET T == Tried(st, q, o, by)
           IN  /\ T[0] = st
               /\ \A n \in 1 .. Len(q) : T[n] = Try(st, q, o, by, n, T[n-1])
<1>1. Tried(st, q, o, by) = CHOOSE g : IsTried(st, q, o, by, Len(q), g)
    BY DEF Tried, IsTried, Try
<1>2. IsTried(st, q, o, by, Len(q), Tried(st, q, o, by))
    BY <1>1, TriedExists
<1>3. PICK T : T = Tried(st, q, o, by)
    OBVIOUS
<1>4. T = [i \in 0 .. Len(q) |-> IF i = 0 THEN st ELSE Try(st, q, o, by, i, T[i-1])]
    BY <1>2, <1>3 DEF IsTried
<1>5. T[0] = st
    BY <1>4
<1>6. \A n \in 1 .. Len(q) : T[n] = Try(st, q, o, by, n, T[n-1])
    BY <1>4
<1> QED
    BY <1>3, <1>5, <1>6

LEMMA AddOne ==
    ASSUME NEW S \in SUBSET Dirs, NEW d \in Dirs, NEW T \in SUBSET (S \cup {d})
    PROVE  Cardinality(T) <= Cardinality(S) + 1
<1>1. S \cup {d} \in SUBSET Dirs /\ IsFiniteSet(S) /\ Cardinality(S) \in Nat
    BY DirsFinite
<1>2. Cardinality(S \cup {d}) <= Cardinality(S) + 1
    BY <1>1, FS_AddElement
<1>3. Cardinality(T) <= Cardinality(S \cup {d}) /\ Cardinality(T) \in Nat
      /\ Cardinality(S \cup {d}) \in Nat
    BY <1>1, DirsCount, DirsFinite
<1> QED
    BY <1>1, <1>2, <1>3

(* One entry.  The queue starts an export when at most Limit run.          *)
Goes(st, s) == Sound(s) /\ Few(s) /\ s.auth = st.auth
LEMMA TrySound ==
    ASSUME NEW st, NEW q, NEW o, NEW n, q[n][1] \in Dirs, q[n][2] \in Peers, o \in [Dirs -> Outcome],
           NEW s, Goes(st, s), MaySpawn(s), NEW t, t = Try(st, q, o, "queue", n, s)
    PROVE  Goes(st, t)
<1> USE DEF Goes
<1>1. CASE q[n][1] \notin st.auth
    BY <1>1 DEF Try
<1>2. CASE q[n][1] \in st.auth
    <2> DEFINE d == q[n][1]
               dest == q[n][2]
    <2>1. d \in Dirs /\ dest \in Peers /\ d \in s.auth
        BY <1>2
    <2>2. o[d] \in Outcome
        BY <2>1
    <2>3. t = ExportDir(s, d, dest, o[d], "queue")
        BY <1>2 DEF Try
    <2> HIDE DEF d, dest
    <2>4. Sound(t) /\ t.auth = s.auth /\ DOMAIN t.es \subseteq DOMAIN s.es \cup {d}
        BY <2>1, <2>2, <2>3, ExportDirSound
    <2>5. DOMAIN s.es \in SUBSET Dirs /\ DOMAIN t.es \in SUBSET Dirs
        BY <2>4 DEF Sound
    <2>6. Nice(t) \in SUBSET (DOMAIN s.es \cup {d}) /\ Nice(t) \in SUBSET Dirs
          /\ Cardinality(Nice(t)) <= Cardinality(DOMAIN s.es) + 1
        <3>1. Nice(t) \in SUBSET (DOMAIN s.es \cup {d}) /\ Nice(t) \in SUBSET Dirs
            BY <2>4, <2>5 DEF Nice
        <3> QED
            BY <2>1, <2>5, <3>1, AddOne
    <2>7. Cardinality(DOMAIN s.es) <= Limit
        BY DEF MaySpawn, Running
    <2>8. Cardinality(DOMAIN s.es) \in Nat /\ Cardinality(Nice(t)) \in Nat
          /\ Limit \in Nat
        BY <2>5, <2>6, DirsFinite, QueueAssumption
    <2> QED
        BY <2>4, <2>6, <2>7, <2>8 DEF Few
<1> QED
    BY <1>1, <1>2

(* The loop ends with the queue, or with more than Limit exports running.  *)
LEMMA LoopSound ==
    ASSUME NEW st, Sound(st), Few(st), NEW q \in Seq(Dirs \X Peers), NEW o \in [Dirs -> Outcome],
           NEW r, r = Loop(st, q, o)
    PROVE  /\ Sound(r.st) /\ Few(r.st) /\ r.st.auth = st.auth
           /\ r.rest \in Seq(Dirs \X Peers)
           /\ r.rest # <<>> => ~MaySpawn(r.st)
<1> DEFINE S(T) == {n \in 0 .. Len(q) : n = Len(q) \/ ~MaySpawn(T[n])}
<1>1. PICK T : T = Tried(st, q, o, "queue")
    OBVIOUS
<1>2. Len(q) \in Nat /\ \A n \in 1 .. Len(q) : q[n] \in Dirs \X Peers
    BY LenProperties
<1>3. T[0] = st /\ \A n \in 1 .. Len(q) : T[n] = Try(st, q, o, "queue", n, T[n-1])
    BY <1>1, <1>2, TriedSteps
<1>4. PICK p : p = Min(S(T))
    OBVIOUS
<1>5. r.st = T[p] /\ r.rest = SubSeq(q, p + 1, Len(q))
    BY <1>1, <1>4 DEF Loop
<1>6. p \in S(T) /\ \A n \in S(T) : p <= n
    <2>1. S(T) \in SUBSET Nat /\ Len(q) \in S(T)
        BY <1>2
    <2> QED
        BY <1>4, <2>1, MinOf
<1>7. p \in 0 .. Len(q) /\ \A n \in 0 .. Len(q) : n < p => n # Len(q) /\ MaySpawn(T[n])
    BY <1>2, <1>6
<1> DEFINE Good(n) == Goes(st, T[n])
           Bad == {n \in 0 .. p : ~Good(n)}
<1>8. Bad = {}
    <2> SUFFICES ASSUME Bad # {} PROVE FALSE
        OBVIOUS
    <2>1. PICK m : m = Min(Bad)
        OBVIOUS
    <2>2. m \in Bad /\ \A n \in Bad : m <= n
        <3>1. Bad \in SUBSET Nat
            BY <1>7
        <3> QED
            BY <2>1, <3>1, MinOf
    <2>3. m \in 0 .. p /\ ~Good(m)
        BY <2>2
    <2>4. m # 0
        BY <1>3, <2>3 DEF Goes
    <2>5. m - 1 \in 0 .. p /\ m - 1 < p /\ m - 1 \in 0 .. Len(q) /\ m \in 1 .. Len(q) /\ m - 1 < m
        BY <1>2, <1>7, <2>3, <2>4
    <2>6. Good(m - 1)
        BY <2>2, <2>5
    <2>7. MaySpawn(T[m-1]) /\ T[m] = Try(st, q, o, "queue", m, T[m-1]) /\ q[m] \in Dirs \X Peers
        BY <1>2, <1>3, <1>7, <2>5
    <2>8. PICK s, t : s = T[m-1] /\ t = T[m]
        OBVIOUS
    <2>9. Goes(st, t)
        <3>1. Goes(st, s) /\ MaySpawn(s) /\ t = Try(st, q, o, "queue", m, s)
            BY <2>6, <2>7, <2>8
        <3>2. q[m][1] \in Dirs /\ q[m][2] \in Peers
            BY <2>7
        <3> QED
            BY <3>1, <3>2, TrySound
    <2> QED
        BY <2>3, <2>8, <2>9
<1>9. Good(p)
    BY <1>2, <1>7, <1>8
<1>10. r.rest \in Seq(Dirs \X Peers)
    BY <1>2, <1>5, <1>7, SubSeqProperties
<1>11. ASSUME r.rest # <<>>
       PROVE  ~MaySpawn(r.st)
    <2>1. p # Len(q)
        <3> SUFFICES ASSUME p = Len(q) PROVE r.rest = <<>>
            BY <1>11
        <3> QED
            BY <1>2, <1>5, SubSeqProperties
    <2> QED
        BY <1>5, <1>6, <2>1
<1> QED
    BY <1>5, <1>9, <1>10, <1>11 DEF Goes

-----------------------------------------------------------------------------
(* export_try_cancel.                                                      *)
LEMMA CanceledSound ==
    ASSUME NEW st, Sound(st), NEW C \in SUBSET DOMAIN st.es, NEW told,
           \A d \in C : st.es[d].state \notin {"finishing", "cancelling"},
           NEW s, s = Canceled(st, C, told)
    PROVE  /\ Sound(s) /\ s.auth = st.auth /\ DOMAIN s.es \subseteq DOMAIN st.es
           /\ C = {} => DOMAIN s.es = DOMAIN st.es
           /\ Nice(s) \subseteq Nice(st)
<1> DEFINE gone == {d \in C : ~(st.es[d].state = "warning" /\ d \in told)}
           off(d) == IF d \in gone THEN HeldPin(st.es[d].state) ELSE 0
           on(d) == IF d \in C \ gone THEN 1 ELSE 0
           e(d) == [st.es[d] EXCEPT !.state = "cancelling", !.residual = {}]
           X == [d \in DOMAIN st.es \ gone |-> IF d \in C THEN e(d) ELSE st.es[d]]
           Y == st.flags \ gone
           Z == [d \in Dirs |-> st.pins[d] - off(d) + on(d)]
<1>1. s = [st EXCEPT !.es = X, !.flags = Y, !.pins = Z]
    BY DEF Sound, Fields, Canceled
<1> HIDE DEF X, Y, Z
<1>2. /\ Fields(s) /\ s.es = X /\ s.flags = Y /\ s.pins = Z
      /\ s.auth = st.auth /\ s.failed = st.failed
    <2>1. Fields(st)
        BY DEF Sound
    <2> QED
        BY <1>1, <2>1 DEF Fields
<1>3. \A d \in C : st.es[d] \in Export /\ e(d) \in Export /\ e(d).state = "cancelling" /\ e(d).by = st.es[d].by
    <2>1. \A d \in C : st.es[d] \in Export
        BY DEF Sound
    <2>2. ASSUME NEW x \in Export
          PROVE  LET y == [x EXCEPT !.state = "cancelling", !.residual = {}]
                 IN  y \in Export /\ y.state = "cancelling" /\ y.by = x.by
        BY DEF Export, States
    <2> QED
        BY <2>1, <2>2
<1> HIDE DEF e, gone
<1>4. DOMAIN X = DOMAIN st.es \ gone /\ X \in [DOMAIN X -> Export]
      /\ \A d \in DOMAIN X : X[d] = IF d \in C THEN e(d) ELSE st.es[d]
    BY <1>3 DEF X, Sound
<1>5. Z = PinCount(X)
    <2> SUFFICES ASSUME NEW d \in Dirs
                 PROVE  st.pins[d] - off(d) + on(d) = IF HoldsPin(X, d) THEN 1 ELSE 0
        BY DEF Z, PinCount
    <2>1. st.pins[d] = IF HoldsPin(st.es, d) THEN 1 ELSE 0
        BY DEF Sound, PinCount
    <2>2. CASE d \notin C
        <3>1. d \notin gone /\ HoldsPin(X, d) = HoldsPin(st.es, d)
            BY <1>4, <2>2 DEF HoldsPin, gone
        <3> QED
            BY <2>1, <2>2, <3>1
    <2>3. CASE d \in gone
        <3>1. d \in C /\ ~HoldsPin(X, d)
            BY <1>4, <2>3 DEF HoldsPin, gone
        <3>2. HeldPin(st.es[d].state) = IF HoldsPin(st.es, d) THEN 1 ELSE 0
            BY <1>3, <3>1 DEF HeldPin, HoldsPin, Export, States
        <3> QED
            BY <2>1, <2>3, <3>1, <3>2
    <2>4. CASE d \in C \ gone
        <3>1. st.es[d].state = "warning"
            BY <2>4 DEF gone
        <3>2. ~HoldsPin(st.es, d) /\ HoldsPin(X, d)
            BY <1>3, <1>4, <2>4, <3>1 DEF HoldsPin
        <3> QED
            BY <2>1, <2>4, <3>2
    <2> QED
        BY <2>2, <2>3, <2>4
<1>6. C = {} => gone = {}
    BY DEF gone
<1>7. Sound(s)
    BY <1>2, <1>4, <1>5 DEF Sound, Y
<1>8. Nice(s) \subseteq Nice(st)
    BY <1>2, <1>3, <1>4 DEF Nice
<1> QED
    BY <1>2, <1>4, <1>6, <1>7, <1>8

-----------------------------------------------------------------------------
(* The state.  Core is the invariant of the queue and of the exports.      *)
Queue == Seq(Dirs \X Peers)
Core == Sound(Now) /\ Few(Now) /\ export_queue \in Queue /\ QueueServed

LEMMA AppliedSound ==
    ASSUME NEW s, Sound(s), Few(s), Apply(s)
    PROVE  Sound(Now)' /\ Few(Now)'
    BY DEF Sound, Few, Nice, Fields, Apply, Now

(* Fewer exports are few.                                                  *)
LEMMA FewerAreFew ==
    ASSUME NEW st, Sound(st), Few(st), NEW s, Sound(s),
           Nice(s) \subseteq Nice(st)
    PROVE  Few(s)
<1>1. Nice(st) \in SUBSET Dirs /\ Nice(s) \in SUBSET Dirs /\ Nice(s) \in SUBSET Nice(st)
    BY DEF Sound, Nice
<1>2. /\ Cardinality(Nice(s)) <= Cardinality(Nice(st))
      /\ Cardinality(Nice(s)) \in Nat /\ Cardinality(Nice(st)) \in Nat
    BY <1>1, DirsCount, DirsFinite
<1> QED
    BY <1>2, QueueAssumption DEF Few

(* The queue is served.                                                    *)
LEMMA LoopCore ==
    ASSUME NEW st, Sound(st), Few(st), NEW q \in Queue, NEW o \in [Dirs -> Outcome],
           Apply(Loop(st, q, o).st), export_queue' = Loop(st, q, o).rest
    PROVE  Core'
<1>1. PICK r : r = Loop(st, q, o)
    OBVIOUS
<1>2. /\ Sound(r.st) /\ Few(r.st)
      /\ r.rest \in Queue
      /\ r.rest # <<>> => ~MaySpawn(r.st)
    BY <1>1, LoopSound DEF Queue
<1>3. PICK s : s = r.st
    OBVIOUS
<1>4. Sound(s) /\ Few(s) /\ Apply(s) /\ export_queue' = r.rest
    BY <1>1, <1>2, <1>3
<1>5. Sound(Now)' /\ Few(Now)'
    BY <1>4, AppliedSound
<1>6. export_state' = s.es
    BY <1>4 DEF Apply
<1>7. QueueServed'
    BY <1>2, <1>3, <1>4, <1>6 DEF QueueServed, MaySpawn, Running
<1> QED
    BY <1>2, <1>4, <1>5, <1>7 DEF Core

LEMMA OutcomesType ==
    ASSUME NEW D
    PROVE  Outcomes(D) \subseteq [Dirs -> Outcome]
    BY DEF Outcomes, Outcome

LEMMA ServeCore ==
    ASSUME NEW st, Sound(st), Few(st), NEW q \in Queue, NEW u, Serve(st, q, u)
    PROVE  Core'
<1>1. PICK o \in Outcomes(Queued(q)) :
        Apply(Loop(st, q, o).st) /\ export_queue' = Loop(st, q, o).rest
    BY DEF Serve
<1>2. o \in [Dirs -> Outcome]
    BY OutcomesType
<1> QED
    BY <1>1, <1>2, LoopCore

(* The queue is left alone: no export ends.                                *)
LEMMA ApplyCore ==
    ASSUME Core, NEW s, Sound(s), Few(s), Apply(s), DOMAIN export_state \subseteq DOMAIN s.es,
           export_queue' = export_queue, silent' = silent
    PROVE  Core'
<1>1. Sound(Now)' /\ Few(Now)'
    BY AppliedSound
<1>2. export_state' = s.es /\ DOMAIN s.es \in SUBSET Dirs
    BY DEF Apply, Sound
<1>3. /\ Cardinality(DOMAIN export_state) <= Cardinality(DOMAIN s.es)
      /\ Cardinality(DOMAIN export_state) \in Nat /\ Cardinality(DOMAIN s.es) \in Nat
    <2>1. DOMAIN export_state \in SUBSET DOMAIN s.es /\ DOMAIN export_state \in SUBSET Dirs
        BY <1>2
    <2> QED
        BY <1>2, <2>1, DirsCount, DirsFinite
<1>4. QueueServed'
    BY <1>2, <1>3, QueueAssumption DEF Core, QueueServed
<1> QED
    BY <1>1, <1>4 DEF Core

(* The queue is left alone when an export ends.                            *)
LEMMA SilentCore ==
    ASSUME Core, NEW s, Sound(s), Few(s), Apply(s), export_queue' = export_queue, silent'
    PROVE  Core'
<1>1. Sound(Now)' /\ Few(Now)'
    BY AppliedSound
<1> QED
    BY <1>1 DEF Core, QueueServed

(* The queues that are served.                                             *)
LEMMA SetToSeqType ==
    ASSUME NEW S \in SUBSET (Dirs \X Peers), IsFiniteSet(S)
    PROVE  SetToSeq(S) \in Queue /\ SetToSeqs(S) \subseteq Queue
<1>1. Cardinality(S) \in Nat
    BY FS_CardinalityType
<1>2. \E f \in [1..Cardinality(S) -> S] : IsInjective(f)
    BY FS_CardinalityType DEF ExistsBijection, Bijection, Injection, IsInjective
<1>3. SetToSeq(S) \in [1..Cardinality(S) -> S]
    BY <1>2 DEF SetToSeq
<1>4. SetToSeq(S) \in Seq(S)
    BY <1>1, <1>3
<1>5. SetToSeqs(S) \subseteq Seq(S)
    BY <1>1 DEF SetToSeqs
<1> HIDE DEF SetToSeq, SetToSeqs
<1> QED
    BY <1>4, <1>5, LenProperties DEF Queue

(* No directory is twice in what a set is made a sequence of.              *)
LEMMA PairsQueue ==
    ASSUME NEW S \in SUBSET (Dirs \X Peers), \A x, y \in S : x[1] = y[1] => x = y
    PROVE  SetToSeq(S) \in Queue /\ SetToSeqs(S) \subseteq Queue
<1>1. PICK f : f = [x \in S |-> x[1]]
    OBVIOUS
<1>2. f \in [S -> Dirs] /\ \A x, y \in S : f[x] = f[y] => x = y
    BY <1>1
<1>3. f \in Injection(S, Dirs)
    BY <1>2 DEF Injection, IsInjective
<1>4. IsFiniteSet(S)
    BY <1>3, FS_Injection, QueueAssumption
<1> QED
    BY <1>4, SetToSeqType

LEMMA OrdersType == Orders \subseteq Queue
<1> SUFFICES ASSUME NEW q \in Orders PROVE q \in Queue
    OBVIOUS
<1>1. PICK m \in 0 .. 2 : q \in [1 .. m -> Tops \X Peers]
    BY DEF Orders, SeqOf
<1>2. \A i \in 1 .. m : q[i] \in Dirs \X Peers
    BY <1>1 DEF Tops
<1>3. q \in [1 .. m -> Dirs \X Peers]
    BY <1>1, <1>2
<1> QED
    BY <1>1, <1>3 DEF Queue

-----------------------------------------------------------------------------
(* The actions.                                                            *)
LEMMA RebalanceCore == Core /\ Rebalance => Core'
<1> SUFFICES ASSUME Core, Rebalance PROVE Core'
    OBVIOUS
<1>1. PICK st, u : st = Now /\ u = Counted("order")
    OBVIOUS
<1>2. PICK q \in Orders : Serve(st, q, u)
    BY <1>1 DEF Rebalance
<1>3. q \in Queue
    BY OrdersType
<1>4. Sound(st) /\ Few(st)
    BY <1>1 DEF Core
<1> QED
    BY <1>2, <1>3, <1>4, ServeCore

(* An export that is started past the queue.                               *)
LEMMA DirectCore ==
    ASSUME Core, NEW st, Sound(st), Few(st), st.es = export_state,
           NEW d \in st.auth, NEW dest \in Peers, NEW u, ExportDirectly(st, d, dest, u)
    PROVE  Core'
<1>1. ASSUME NEW o \in Outcome, Apply(ExportDir(st, d, dest, o, "direct")),
             UNCHANGED <<export_queue, silent>>
      PROVE  Core'
    <2>1. PICK by, s : by = "direct" /\ s = ExportDir(st, d, dest, o, by)
        OBVIOUS
    <2>2. Sound(s) /\ DOMAIN st.es \subseteq DOMAIN s.es /\ Nice(s) \subseteq Nice(st)
        BY <2>1, ExportDirSound
    <2>3. Few(s) /\ Apply(s)
        BY <1>1, <2>1, <2>2, FewerAreFew
    <2> QED
        BY <1>1, <2>2, <2>3, ApplyCore
<1>2. ASSUME NEW v, Serve(ExportDir(st, d, dest, "cancel", "direct"), export_queue, v)
      PROVE  Core'
    <2>1. PICK by, o, s : by = "direct" /\ o = "cancel" /\ s = ExportDir(st, d, dest, o, by)
        OBVIOUS
    <2>2. o \in Outcome /\ by \in {"queue", "direct"}
        BY <2>1 DEF Outcome
    <2>3. Sound(s) /\ Nice(s) \subseteq Nice(st)
        BY <2>1, <2>2, ExportDirSound
    <2>4. Few(s) /\ Serve(s, export_queue, v) /\ export_queue \in Queue
        BY <1>2, <2>1, <2>3, FewerAreFew DEF Core
    <2> QED
        BY <2>3, <2>4, ServeCore
<1> QED
    BY <1>1, <1>2 DEF ExportDirectly

LEMMA HandleExportPinsCore ==
    ASSUME Core, NEW d \in Dirs, HandleExportPins(d)
    PROVE  Core'
<1>1. PICK st : st = Now
    OBVIOUS
<1>2. Sound(st) /\ Few(st) /\ d \in st.auth /\ Pin[d] \in Peers /\ st.es = export_state
    BY <1>1 DEF Core, HandleExportPins, Now
<1>3. ExportDirectly(st, d, Pin[d], used)
    BY <1>1 DEF HandleExportPins
<1> QED
    BY <1>2, <1>3, DirectCore

LEMMA CommandExportDirCore ==
    ASSUME Core, NEW d \in Dirs, NEW target \in Peers, CommandExportDir(d, target)
    PROVE  Core'
<1>1. PICK st, u : st = Now /\ u = Counted("order")
    OBVIOUS
<1>2. Sound(st) /\ Few(st) /\ d \in st.auth /\ st.es = export_state
    BY <1>1 DEF Core, CommandExportDir, Now
<1>3. ExportDirectly(st, d, target, u)
    BY <1>1 DEF CommandExportDir
<1> QED
    BY <1>2, <1>3, DirectCore

LEMMA TrimCore ==
    ASSUME Core, NEW d \in Dirs, Trim(d)
    PROVE  Core'
<1>1. PICK st : st = Now
    OBVIOUS
<1>2. Sound(st) /\ Few(st) /\ d \in st.auth /\ st.es = export_state
    BY <1>1 DEF Core, Trim, Imports, Now
<1>3. ExportDirectly(st, d, Home[d], used) /\ Home[d] \in Peers
    BY <1>1, QueueAssumption DEF Trim, Imports
<1> QED
    BY <1>2, <1>3, DirectCore

LEMMA ImportFinishCore ==
    ASSUME Core, NEW d \in Dirs, ImportFinish(d)
    PROVE  Core'
<1>1. PICK now : now = Now
    OBVIOUS
<1>2. PICK st, u : st = [now EXCEPT !.auth = @ \cup {d}] /\ u = Counted("order")
    OBVIOUS
<1>3. Sound(now) /\ Few(now) /\ now.es = export_state /\ Fields(now)
    BY <1>1 DEF Core, Sound, Now
<1>4. /\ Fields(st) /\ st.es = now.es /\ st.auth = now.auth \cup {d} /\ st.flags = now.flags
      /\ st.pins = now.pins /\ st.failed = now.failed
    BY <1>2, <1>3 DEF Fields
<1>5. Sound(st) /\ Few(st) /\ st.es = export_state /\ d \in st.auth
    BY <1>3, <1>4 DEF Sound, Few, Nice
<1>6. CASE Apply(st) /\ UNCHANGED <<export_queue, silent>>
    BY <1>5, <1>6, ApplyCore
<1>7. CASE Home[d] # Me /\ ExportDirectly(st, d, Home[d], u)
    <2>1. Home[d] \in Peers
        BY <1>7, QueueAssumption
    <2> QED
        BY <1>5, <1>7, <2>1, DirectCore
<1> QED
    BY <1>1, <1>2, <1>6, <1>7 DEF ImportFinish

LEMMA DispatchExportDirCore ==
    ASSUME Core, NEW d \in Dirs, NEW o \in Outcome, DispatchExportDir(d, o)
    PROVE  Core'
<1>1. PICK st : st = Now
    OBVIOUS
<1>2. PICK s : s = Dispatched(st, d, o)
    OBVIOUS
<1>3. Sound(st) /\ Few(st) /\ st.es = export_state /\ d \in DOMAIN st.es
      /\ st.es[d].state = "locking" /\ export_queue \in Queue
    BY <1>1 DEF Core, DispatchExportDir, Now
<1>4. /\ Sound(s) /\ (DOMAIN s.es = DOMAIN st.es \/ DOMAIN s.es = DOMAIN st.es \ {d})
      /\ Nice(s) \subseteq Nice(st)
    BY <1>2, <1>3, DispatchedSound
<1>5. Few(s)
    BY <1>3, <1>4, FewerAreFew
<1>6. CASE d \in DOMAIN s.es
    <2>1. Apply(s) /\ UNCHANGED <<export_queue, silent>>
        BY <1>1, <1>2, <1>6 DEF DispatchExportDir
    <2> QED
        BY <1>3, <1>4, <1>5, <1>6, <2>1, ApplyCore
<1>7. CASE d \notin DOMAIN s.es
    <2>1. \E n : Serve(s, export_queue, n)
        BY <1>1, <1>2, <1>7 DEF DispatchExportDir
    <2> QED
        BY <1>3, <1>4, <1>5, <2>1, ServeCore
<1> QED
    BY <1>6, <1>7

(* An export goes on to its next state.                                    *)
LEMMA StepCore ==
    ASSUME Core, NEW d \in DOMAIN export_state, NEW e \in Export, e.by = export_state[d].by,
           NEW s, Fields(s), Apply(s), s.es = [export_state EXCEPT ![d] = e], s.auth = subtrees,
           s.flags = exporting, s.failed = failed, s.pins \in [Dirs -> Nat],
           \A x \in Dirs : s.pins[x] =
                IF x = d THEN (IF e.state \in {"locking", "discovering", "cancelling"} THEN 1 ELSE 0)
                ELSE pins[x],
           export_queue' = export_queue, silent' = silent
    PROVE  Core'
<1>1. PICK st : st = Now
    OBVIOUS
<1>2. /\ Sound(st) /\ Few(st) /\ st.es = export_state /\ st.auth = subtrees
      /\ st.flags = exporting /\ st.failed = failed /\ st.pins = pins
    BY <1>1 DEF Core, Now
<1>3. Sound(s) /\ DOMAIN s.es = DOMAIN st.es /\ Nice(s) \subseteq Nice(st)
    BY <1>2, ChangedSound
<1>4. Few(s)
    BY <1>2, <1>3, FewerAreFew
<1> QED
    BY <1>2, <1>3, <1>4, ApplyCore

LEMMA DiscoverAckCore ==
    ASSUME Core, NEW d \in Dirs, HandleExportDiscoverAck(d)
    PROVE  Core'
<1> DEFINE e == [export_state[d] EXCEPT !.state = "freezing"]
           Z == [pins EXCEPT ![d] = @ - 1]
           s == [es |-> [export_state EXCEPT ![d] = e], auth |-> subtrees, flags |-> exporting,
                 pins |-> Z, failed |-> failed]
<1>1. /\ d \in DOMAIN export_state /\ export_state[d].state = "discovering"
      /\ export_state[d] \in Export /\ pins[d] = 1 /\ pins \in [Dirs -> Nat]
    BY DEF HandleExportDiscoverAck, Core, Sound, Now, PinCount, HoldsPin
<1>2. e \in Export /\ e.state = "freezing" /\ e.by = export_state[d].by
    BY <1>1 DEF Export, States
<1>3. Z \in [Dirs -> Nat] /\ Z[d] = 0 /\ \A x \in Dirs : x # d => Z[x] = pins[x]
    BY <1>1
<1>4. Apply(s) /\ export_queue' = export_queue /\ silent' = silent
    BY <1>1 DEF HandleExportDiscoverAck, Apply, Now
<1> HIDE DEF e, Z
<1>5. PICK t : t = s
    OBVIOUS
<1>6. /\ Fields(t) /\ Apply(t) /\ t.es = [export_state EXCEPT ![d] = e] /\ t.auth = subtrees
      /\ t.flags = exporting /\ t.failed = failed /\ t.pins = Z
    BY <1>4, <1>5 DEF Fields
<1> HIDE DEF s
<1> QED
    BY <1>1, <1>2, <1>3, <1>4, <1>6, StepCore

LEMMA ExportFrozenCore ==
    ASSUME Core, NEW d \in Dirs, ExportFrozen(d)
    PROVE  Core'
<1>1. /\ d \in DOMAIN export_state /\ export_state[d].state = "freezing"
      /\ export_state[d] \in Export /\ pins[d] = 0 /\ pins \in [Dirs -> Nat]
    BY DEF ExportFrozen, Core, Sound, Now, PinCount, HoldsPin
<1>2. ASSUME NEW res \in {{}, Below[d]},
             Apply([Now EXCEPT !.es[d].state = "prepping", !.es[d].residual = res]),
             export_queue' = export_queue, silent' = silent
      PROVE  Core'
    <2> DEFINE e == [state |-> "prepping", peer |-> export_state[d].peer,
                     maps |-> export_state[d].maps, residual |-> res, by |-> export_state[d].by]
               s == [es |-> [export_state EXCEPT ![d] = e], auth |-> subtrees,
                     flags |-> exporting, pins |-> pins, failed |-> failed]
    <2>1. res \in SUBSET Dirs
        BY QueueAssumption
    <2>2. e \in Export /\ e.state = "prepping" /\ e.by = export_state[d].by
        BY <1>1, <2>1 DEF Export, States
    <2>3. e = [[export_state[d] EXCEPT !.state = "prepping"] EXCEPT !.residual = res]
        <3>1. PICK r : r = export_state[d]
            OBVIOUS
        <3>2. r \in [state : States, peer : Peers, maps : 0 .. MapLimit + 1, residual : SUBSET Dirs,
                    by : {"queue", "direct"}]
            BY <1>1, <3>1 DEF Export
        <3>3. PICK u : u = [r EXCEPT !.state = "prepping"]
            OBVIOUS
        <3>4. u = [state |-> "prepping", peer |-> r.peer, maps |-> r.maps, residual |-> r.residual,
                   by |-> r.by]
            BY <3>2, <3>3
        <3>5. [u EXCEPT !.residual = res]
                = [state |-> "prepping", peer |-> r.peer, maps |-> r.maps, residual |-> res,
                   by |-> r.by]
            BY <3>4
        <3> QED
            BY <3>1, <3>3, <3>5
    <2>4. Apply(s)
        BY <1>1, <1>2, <2>3 DEF Apply, Now, Core, Sound
    <2> HIDE DEF e
    <2>5. PICK t : t = s
        OBVIOUS
    <2>6. /\ Fields(t) /\ Apply(t) /\ t.es = [export_state EXCEPT ![d] = e] /\ t.auth = subtrees
          /\ t.flags = exporting /\ t.failed = failed /\ t.pins = pins
        BY <2>4, <2>5 DEF Fields
    <2> HIDE DEF s
    <2> QED
        BY <1>1, <1>2, <2>2, <2>6, StepCore
<1>3. ASSUME Apply(Erased(Now, d, 0)), export_queue' = export_queue, silent' = TRUE
      PROVE  Core'
    <2>1. PICK st : st = Now
        OBVIOUS
    <2>2. PICK s : s = Erased(st, d, 0)
        OBVIOUS
    <2>3. Sound(st) /\ Few(st) /\ d \in DOMAIN st.es /\ ~HoldsPin(st.es, d)
        BY <1>1, <2>1 DEF Core, Now, HoldsPin
    <2>4. Sound(s) /\ Nice(s) \subseteq Nice(st)
        BY <2>2, <2>3, ErasedSound
    <2>5. Few(s)
        BY <2>3, <2>4, FewerAreFew
    <2> QED
        BY <1>3, <2>1, <2>2, <2>4, <2>5, SilentCore
<1> QED
    BY <1>2, <1>3 DEF ExportFrozen

LEMMA ProceedCore ==
    ASSUME Core, NEW d \in Dirs, Proceed(d)
    PROVE  Core'
<1> DEFINE w == NextStep[export_state[d].state]
           e == [export_state[d] EXCEPT !.state = w]
           s == [es |-> [export_state EXCEPT ![d] = e], auth |-> subtrees, flags |-> exporting,
                 pins |-> pins, failed |-> failed]
<1>1. /\ d \in DOMAIN export_state /\ export_state[d].state \in {"prepping", "warning"}
      /\ export_state[d] \in Export /\ pins[d] = 0 /\ pins \in [Dirs -> Nat]
    BY DEF Proceed, Core, Sound, Now, PinCount, HoldsPin, NextStep
<1>2. w \in {"warning", "finishing"}
    BY <1>1 DEF NextStep
<1>3. Apply(s) /\ export_queue' = export_queue /\ silent' = silent
    BY <1>1 DEF Proceed, Apply, Now
<1> HIDE DEF w
<1>4. e \in Export /\ e.state = w /\ e.by = export_state[d].by
    BY <1>1, <1>2 DEF Export, States
<1> HIDE DEF e
<1>5. PICK t : t = s
    OBVIOUS
<1>6. /\ Fields(t) /\ Apply(t) /\ t.es = [export_state EXCEPT ![d] = e] /\ t.auth = subtrees
      /\ t.flags = exporting /\ t.failed = failed /\ t.pins = pins
    BY <1>3, <1>5 DEF Fields
<1> HIDE DEF s
<1> QED
    BY <1>1, <1>2, <1>3, <1>4, <1>6, StepCore

LEMMA ExportFinishCore ==
    ASSUME Core, NEW d \in Dirs, ExportFinish(d)
    PROVE  Core'
<1> DEFINE e == export_state[d]
           pairs == {<<x, e.peer>> : x \in e.residual}
           kept == (subtrees \ {d}) \cup e.residual
<1>1. PICK st : st = Now
    OBVIOUS
<1>2. /\ Sound(st) /\ Few(st) /\ d \in DOMAIN st.es /\ ~HoldsPin(st.es, d)
      /\ st.auth = subtrees /\ e \in Export /\ export_queue \in Queue
    BY <1>1 DEF Core, Now, HoldsPin, ExportFinish, Sound
<1>3. PICK b : b = Erased(st, d, 0)
    OBVIOUS
<1>4. /\ Sound(b) /\ DOMAIN b.es = DOMAIN st.es \ {d} /\ b.auth = subtrees
      /\ Nice(b) \subseteq Nice(st)
    BY <1>2, <1>3, ErasedSound
<1>5. e.peer \in Peers /\ e.residual \in SUBSET Dirs
    BY <1>2 DEF Export
<1>6. kept \in SUBSET Dirs /\ DOMAIN b.es \subseteq kept
    BY <1>2, <1>4, <1>5 DEF Sound
<1>7. SetToSeqs(pairs) \subseteq Queue
    <2> HIDE DEF e
    <2>1. pairs \in SUBSET (Dirs \X Peers) /\ \A x, y \in pairs : x[1] = y[1] => x = y
        BY <1>5
    <2> HIDE DEF pairs
    <2> QED
        BY <2>1, PairsQueue
<1>8. PICK left \in SetToSeqs(pairs) :
        Serve([b EXCEPT !.auth = kept], left \o export_queue, used)
    BY <1>1, <1>3 DEF ExportFinish
<1> DEFINE q == left \o export_queue
<1>9. q \in Queue /\ Serve([b EXCEPT !.auth = kept], q, used)
    BY <1>2, <1>7, <1>8, ConcatProperties DEF Queue
<1> HIDE DEF kept, q
<1>10. PICK s : s = [b EXCEPT !.auth = kept]
    OBVIOUS
<1>11. /\ Fields(s) /\ s.es = b.es /\ s.auth = kept /\ s.flags = b.flags
       /\ s.pins = b.pins /\ s.failed = b.failed
    <2>1. Fields(b)
        BY <1>4 DEF Sound
    <2> QED
        BY <1>10, <2>1 DEF Fields
<1>12. Sound(s)
    BY <1>4, <1>6, <1>11 DEF Sound
<1>13. Few(s)
    <2>1. Nice(s) = Nice(b)
        BY <1>11 DEF Nice
    <2> QED
        BY <1>2, <1>4, <1>12, <2>1, FewerAreFew
<1> QED
    BY <1>8, <1>9, <1>10, <1>12, <1>13, ServeCore

LEMMA ExportTryCancelCore ==
    ASSUME Core, NEW d \in Dirs, ExportTryCancel(d)
    PROVE  Core'
<1>1. PICK st : st = Now
    OBVIOUS
<1>2. PICK s : s = Canceled(st, {d}, {})
    OBVIOUS
<1>3. /\ Sound(st) /\ Few(st) /\ {d} \in SUBSET DOMAIN st.es /\ export_queue \in Queue
      /\ \A x \in {d} : st.es[x].state \notin {"finishing", "cancelling"}
    BY <1>1 DEF Core, Now, ExportTryCancel, Cancelable
<1>4. PICK C, told : C = {d} /\ told = {}
    OBVIOUS
<1>5. Sound(s) /\ Nice(s) \subseteq Nice(st)
    <2>1. /\ C \in SUBSET DOMAIN st.es /\ s = Canceled(st, C, told)
          /\ \A x \in C : st.es[x].state \notin {"finishing", "cancelling"}
        BY <1>2, <1>3, <1>4
    <2> QED
        BY <1>3, <2>1, CanceledSound
<1>6. Few(s)
    BY <1>3, <1>5, FewerAreFew
<1>7. Serve(s, export_queue, Counted("trouble"))
    BY <1>1, <1>2 DEF ExportTryCancel
<1> QED
    BY <1>3, <1>5, <1>6, <1>7, ServeCore

LEMMA ExportCancelFinishCore ==
    ASSUME Core, NEW d \in Dirs, ExportCancelFinish(d)
    PROVE  Core'
<1>1. PICK st : st = Now
    OBVIOUS
<1>2. PICK s : s = Erased(st, d, 1)
    OBVIOUS
<1>3. Sound(st) /\ Few(st) /\ d \in DOMAIN st.es /\ HoldsPin(st.es, d)
    BY <1>1 DEF Core, Now, HoldsPin, ExportCancelFinish
<1>4. Sound(s) /\ Nice(s) \subseteq Nice(st)
    BY <1>2, <1>3, ErasedSound
<1>5. Few(s)
    BY <1>3, <1>4, FewerAreFew
<1>6. Apply(s) /\ export_queue' = export_queue /\ silent'
    BY <1>1, <1>2 DEF ExportCancelFinish
<1> QED
    BY <1>4, <1>5, <1>6, SilentCore

LEMMA HandleMdsFailureCore ==
    ASSUME Core, NEW r \in Peers, HandleMdsFailure(r)
    PROVE  Core'
<1> DEFINE early == {"locking", "discovering", "freezing", "prepping"}
           K == {d \in DOMAIN export_state :
                   Cancelable(d) /\ (export_state[d].peer = r \/ export_state[d].state \in early)}
           drops(s) == K # {} /\ MaySpawn(s)
<1>1. PICK told \in SUBSET K :
        /\ Apply(Canceled(Now, K, told))
        /\ export_queue' = IF drops(Canceled(Now, K, told)) THEN <<>> ELSE export_queue
        /\ silent' = IF K # {} THEN FALSE ELSE silent
    BY DEF HandleMdsFailure
<1>2. PICK st : st = Now
    OBVIOUS
<1>3. PICK C : C = K
    OBVIOUS
<1>4. PICK s : s = Canceled(st, C, told)
    OBVIOUS
<1>5. /\ Sound(st) /\ Few(st) /\ C \in SUBSET DOMAIN st.es /\ st.es = export_state
      /\ \A x \in C : st.es[x].state \notin {"finishing", "cancelling"}
    BY <1>2, <1>3 DEF Core, Now, Cancelable
<1>6. /\ Sound(s) /\ Nice(s) \subseteq Nice(st)
      /\ C = {} => DOMAIN s.es = DOMAIN st.es
    BY <1>4, <1>5, CanceledSound
<1>7. Few(s)
    BY <1>5, <1>6, FewerAreFew
<1>8. /\ Apply(s) /\ export_queue' = IF C # {} /\ MaySpawn(s) THEN <<>> ELSE export_queue
    BY <1>1, <1>2, <1>3, <1>4
<1>9. CASE C = {}
    <2>1. export_queue' = export_queue /\ silent' = silent
        BY <1>1, <1>3, <1>8, <1>9
    <2> QED
        BY <1>5, <1>6, <1>7, <1>8, <1>9, <2>1, ApplyCore
<1>10. CASE C # {}
    <2>1. Sound(Now)' /\ Few(Now)'
        BY <1>6, <1>7, <1>8, AppliedSound
    <2>2. export_state' = s.es
        BY <1>8 DEF Apply
    <2>3. export_queue' \in Queue
        BY <1>8 DEF Core, Queue
    <2>4. QueueServed'
        BY <1>8, <1>10, <2>2 DEF QueueServed, MaySpawn, Running
    <2> QED
        BY <2>1, <2>3, <2>4 DEF Core
<1> QED
    BY <1>9, <1>10

(* trim in shutdown_pass: some imports are exported past the queue.        *)
LEMMA TrimmedSound ==
    ASSUME Core, NEW s \in Trimmed
    PROVE  Sound(s) /\ Few(s) /\ s.auth = subtrees /\ DOMAIN export_state \subseteq DOMAIN s.es
<1> DEFINE pairs(E) == {<<d, Home[d]>> : d \in E}
<1>1. PICK E \in SUBSET Imports, o \in Outcomes(Imports) :
        s = Tried(Now, SetToSeq(pairs(E)), o, "direct")[Len(SetToSeq(pairs(E)))]
    <2>1. PICK E \in SUBSET Imports, o \in {x \in Outcomes(Imports) : Trouble(x) = 0} :
            s = Reexported(E, o)
        BY DEF Trimmed
    <2>2. o \in Outcomes(Imports)
        OBVIOUS
    <2>3. s = Tried(Now, SetToSeq(pairs(E)), o, "direct")[Len(SetToSeq(pairs(E)))]
        BY <2>1 DEF Reexported
    <2> QED
        BY <2>2, <2>3, Zenon
<1>2. PICK st, by : st = Now /\ by = "direct"
    OBVIOUS
<1>3. Sound(st) /\ Few(st) /\ st.es = export_state /\ st.auth = subtrees
    BY <1>2 DEF Core, Now
<1>4. o \in [Dirs -> Outcome]
    BY OutcomesType
<1>5. PICK q : q = SetToSeq(pairs(E))
    OBVIOUS
<1>6. q \in Queue
    <2>1. E \in SUBSET Dirs /\ \A d \in E : Home[d] \in Peers
        BY <1>3, QueueAssumption DEF Imports, Sound
    <2>2. pairs(E) \in SUBSET (Dirs \X Peers) /\ \A x, y \in pairs(E) : x[1] = y[1] => x = y
        BY <2>1
    <2> HIDE DEF pairs
    <2> QED
        BY <1>5, <2>2, PairsQueue
<1>7. Len(q) \in Nat /\ \A n \in 1 .. Len(q) : q[n] \in Dirs \X Peers
    BY <1>6, LenProperties DEF Queue
<1>8. PICK T : T = Tried(st, q, o, by)
    OBVIOUS
<1>9. T[0] = st /\ \A n \in 1 .. Len(q) : T[n] = Try(st, q, o, by, n, T[n-1])
    <2>1. Len(q) \in Nat
        BY <1>7
    <2>2. LET U == Tried(st, q, o, by)
          IN  U[0] = st /\ \A n \in 1 .. Len(q) : U[n] = Try(st, q, o, by, n, U[n-1])
        BY ONLY <2>1, TriedSteps
    <2> QED
        BY ONLY <1>8, <2>2
<1>10. s = T[Len(q)]
    BY <1>1, <1>2, <1>5, <1>8
<1> DEFINE Good(t) == /\ Sound(t) /\ t.auth = st.auth /\ Nice(t) \subseteq Nice(st)
                      /\ DOMAIN st.es \subseteq DOMAIN t.es
           Bad == {n \in 0 .. Len(q) : ~Good(T[n])}
<1>11. Bad = {}
    <2> SUFFICES ASSUME Bad # {} PROVE FALSE
        OBVIOUS
    <2>1. PICK m : m = Min(Bad)
        OBVIOUS
    <2>2. m \in Bad /\ \A n \in Bad : m <= n
        <3>1. Bad \in SUBSET Nat
            BY <1>7
        <3> HIDE DEF Bad
        <3> QED
            BY <2>1, <3>1, MinOf
    <2>3. m \in 0 .. Len(q) /\ ~Good(T[m])
        BY <2>2
    <2>4. m # 0
        BY <1>3, <1>9, <2>3
    <2>5. m - 1 \in 0 .. Len(q) /\ m - 1 < m /\ m \in 1 .. Len(q)
        BY <1>7, <2>3, <2>4
    <2>6. Good(T[m-1])
        BY <2>2, <2>5
    <2>7. PICK t, d, dest : t = T[m-1] /\ d = q[m][1] /\ dest = q[m][2]
        OBVIOUS
    <2>8. d \in Dirs /\ dest \in Peers /\ o[d] \in Outcome
        BY <1>4, <1>7, <2>5, <2>7
    <2>9. T[m] = IF d \in st.auth THEN ExportDir(t, d, dest, o[d], by) ELSE t
        BY <1>9, <2>5, <2>7 DEF Try
    <2>10. CASE d \notin st.auth
        BY <2>3, <2>6, <2>7, <2>9, <2>10
    <2>11. CASE d \in st.auth
        <3>1. PICK r : r = T[m]
            OBVIOUS
        <3>2. r = ExportDir(t, d, dest, o[d], by)
            BY <2>9, <2>11, <3>1
        <3>3. Sound(t) /\ d \in t.auth /\ by \in {"queue", "direct"}
            BY <1>2, <2>6, <2>7, <2>11
        <3>4. /\ Sound(r) /\ r.auth = t.auth /\ Nice(r) \subseteq Nice(t)
              /\ DOMAIN t.es \subseteq DOMAIN r.es
            BY <1>2, <2>8, <3>2, <3>3, ExportDirSound
        <3> QED
            BY <2>3, <2>6, <2>7, <3>1, <3>4
    <2> QED
        BY <2>10, <2>11
<1>12. Good(s)
    BY <1>7, <1>10, <1>11
<1> QED
    BY <1>3, <1>12, FewerAreFew

LEMMA ExportSubtreesCore == Core /\ ExportSubtrees => Core'
<1> SUFFICES ASSUME Core, ExportSubtrees PROVE Core'
    OBVIOUS
<1> DEFINE pairs(s) == {<<d, Destination(d)>> : d \in {x \in subtrees : Loose(s, x)}}
<1>1. PICK st \in Trimmed : Serve(st, SetToSeq(pairs(st)), used)
    BY DEF ExportSubtrees
<1>2. subtrees \subseteq Dirs /\ \A d \in Dirs : Destination(d) \in Peers
    BY QueueAssumption DEF Core, Sound, Now, Destination
<1>3. pairs(st) \in SUBSET (Dirs \X Peers) /\ \A x, y \in pairs(st) : x[1] = y[1] => x = y
    BY <1>2
<1> HIDE DEF pairs
<1>4. SetToSeq(pairs(st)) \in Queue
    BY <1>3, PairsQueue
<1>5. Sound(st) /\ Few(st)
    BY TrimmedSound
<1> QED
    BY <1>1, <1>4, <1>5, ServeCore

LEMMA TerminateSessionsCore == Core /\ TerminateSessions => Core'
<1> SUFFICES ASSUME Core, TerminateSessions PROVE Core'
    OBVIOUS
<1>1. PICK st \in Trimmed : Apply(st)
    BY DEF TerminateSessions
<1>2. Sound(st) /\ Few(st) /\ DOMAIN export_state \subseteq DOMAIN st.es
    BY TrimmedSound
<1> QED
    BY <1>1, <1>2, ApplyCore DEF TerminateSessions

(* Steps that leave the exports alone.                                     *)
LEMMA ElsewhereCore ==
    ASSUME Core, UNCHANGED <<subtrees, export_queue, export_state, exporting, pins, silent, failed>>
    PROVE  Core'
<1>1. PICK st : st = Now
    OBVIOUS
<1>2. Sound(st) /\ Few(st) /\ Apply(st)
    BY <1>1 DEF Core, Apply, Now
<1>3. Sound(Now)' /\ Few(Now)'
    BY <1>2, AppliedSound
<1> QED
    BY <1>3 DEF Core, QueueServed

LEMMA StoppingDoneCore == Core /\ StoppingDone => Core'
<1> SUFFICES ASSUME Core, StoppingDone PROVE Core'
    OBVIOUS
<1>1. DOMAIN export_state = {} /\ export_state \in [DOMAIN export_state -> Export]
    BY DEF Core, Sound, Now, StoppingDone
<1>2. export_state = <<>>
    BY <1>1
<1> QED
    BY <1>2, ElsewhereCore DEF StoppingDone

LEMMA NextCore == Core /\ [Next]_vars => Core'
<1> SUFFICES ASSUME Core, [Next]_vars PROVE Core'
    OBVIOUS
<1>1. CASE Rebalance
    BY <1>1, RebalanceCore
<1>2. CASE Deactivate \/ SessionsClosed
    BY <1>2, ElsewhereCore DEF Deactivate, SessionsClosed
<1>3. CASE ExportSubtrees \/ TerminateSessions
    BY <1>3, ExportSubtreesCore, TerminateSessionsCore
<1>4. CASE StoppingDone
    BY <1>4, StoppingDoneCore
<1>5. ASSUME NEW d \in Dirs,
             HandleExportPins(d) \/ Trim(d) \/ ImportFinish(d)
                 \/ \E target \in Peers : CommandExportDir(d, target)
      PROVE  Core'
    BY <1>5, HandleExportPinsCore, TrimCore, ImportFinishCore, CommandExportDirCore
<1>6. ASSUME NEW d \in Dirs, NEW o \in Outcome, DispatchExportDir(d, o)
      PROVE  Core'
    BY <1>6, DispatchExportDirCore
<1>7. ASSUME NEW d \in Dirs, HandleExportDiscoverAck(d) \/ ExportFrozen(d) \/ Proceed(d)
      PROVE  Core'
    BY <1>7, DiscoverAckCore, ExportFrozenCore, ProceedCore
<1>8. ASSUME NEW d \in Dirs, ExportFinish(d) \/ ExportTryCancel(d) \/ ExportCancelFinish(d)
      PROVE  Core'
    BY <1>8, ExportFinishCore, ExportTryCancelCore, ExportCancelFinishCore
<1>9. ASSUME NEW r \in Peers, HandleMdsFailure(r)
      PROVE  Core'
    BY <1>9, HandleMdsFailureCore
<1>10. ASSUME NEW r \in Peers, PeerRecovers(r)
       PROVE  Core'
    BY <1>10, ElsewhereCore DEF PeerRecovers
<1>11. CASE UNCHANGED vars
    BY <1>11, ElsewhereCore DEF vars
<1> QED
    BY <1>1, <1>2, <1>3, <1>4, <1>5, <1>6, <1>7, <1>8, <1>9, <1>10, <1>11
    DEF Next, ShutdownPass


LEMMA InitCore == Init => Core
<1> SUFFICES ASSUME Init PROVE Core
    OBVIOUS
<1>1. export_state \in [{} -> Export] /\ DOMAIN export_state = {}
    BY DEF Init
<1>2. PICK es : es = export_state
    OBVIOUS
<1>3. pins = PinCount(es)
    BY <1>1, <1>2 DEF Init, PinCount, HoldsPin
<1>4. PICK st : st = Now
    OBVIOUS
<1>5. /\ Fields(st) /\ st.es = export_state /\ st.auth = subtrees /\ st.flags = exporting
      /\ st.pins = pins /\ st.failed = failed
    BY <1>4 DEF Now, Fields
<1>6. Sound(st)
    BY <1>1, <1>2, <1>3, <1>5 DEF Init, Sound, Tops
<1>7. Few(st)
    <2>1. PICK none : none = Nice(st)
        OBVIOUS
    <2>2. none = {} /\ Limit \in Nat
        BY <1>1, <1>5, <2>1, QueueAssumption DEF Nice
    <2>3. Cardinality(none) = 0
        BY <2>2, FS_EmptySet
    <2> QED
        BY <2>1, <2>2, <2>3 DEF Few
<1>8. export_queue \in Queue /\ QueueServed
    BY DEF Init, Queue, QueueServed
<1> QED
    BY <1>4, <1>6, <1>7, <1>8 DEF Core

LEMMA AlwaysCore == Spec => []Core
    BY InitCore, NextCore, PTL DEF Spec

(* What the steps do not share with the exports.                           *)
Rest ==
    /\ phase \in {"active", "stopping", "stopped"}
    /\ dead \subseteq Peers
    /\ sessions \in {"open", "closing", "closed"}
    /\ silent \in BOOLEAN
LEMMA NextRest == Rest /\ [Next]_vars => Rest'
<1> SUFFICES ASSUME Rest, [Next]_vars PROVE Rest'
    OBVIOUS
<1>1. CASE Rebalance \/ Deactivate \/ ShutdownPass \/ SessionsClosed
    BY <1>1, Zenon DEF Rest, Rebalance, Deactivate, ShutdownPass, ExportSubtrees, TerminateSessions,
                       StoppingDone, SessionsClosed, Serve
<1>2. ASSUME NEW d \in Dirs, HandleExportDiscoverAck(d) \/ ExportFrozen(d)
      PROVE  Rest'
    BY <1>2, Zenon DEF Rest, HandleExportDiscoverAck, ExportFrozen
<1>3. ASSUME NEW d \in Dirs, NEW o \in Outcome, DispatchExportDir(d, o)
      PROVE  Rest'
    BY <1>3, Zenon DEF Rest, DispatchExportDir, Serve
<1>4. ASSUME NEW d \in Dirs, Proceed(d) \/ ExportFinish(d) \/ ExportTryCancel(d) \/ ExportCancelFinish(d)
      PROVE  Rest'
    BY <1>4, Zenon DEF Rest, Proceed, ExportFinish, ExportTryCancel, ExportCancelFinish, Serve
<1>8. ASSUME NEW d \in Dirs,
             HandleExportPins(d) \/ Trim(d) \/ ImportFinish(d)
                 \/ \E target \in Peers : CommandExportDir(d, target)
      PROVE  Rest'
    <2>1. ASSUME NEW st, NEW dest, NEW u, ExportDirectly(st, d, dest, u)
          PROVE  Rest'
        BY <2>1, Zenon DEF Rest, ExportDirectly, Serve
    <2>2. CASE HandleExportPins(d) \/ Trim(d) \/ \E target \in Peers : CommandExportDir(d, target)
        BY <2>1, <2>2, Zenon DEF HandleExportPins, Trim, CommandExportDir
    <2>3. CASE ImportFinish(d)
        BY <2>1, <2>3, Zenon DEF ImportFinish, Rest
    <2> QED
        BY <1>8, <2>2, <2>3
<1>5. ASSUME NEW r \in Peers, HandleMdsFailure(r)
      PROVE  Rest'
    <2>1. phase' = phase /\ sessions' = sessions /\ dead' = dead \cup {r}
        BY <1>5 DEF HandleMdsFailure
    <2>2. PICK C : silent' = IF C # {} THEN FALSE ELSE silent
        BY <1>5, Zenon DEF HandleMdsFailure
    <2>3. dead' \subseteq Peers
        BY <2>1 DEF Rest
    <2>4. silent' \in BOOLEAN
        BY <2>2, Zenon DEF Rest
    <2> QED
        BY <2>1, <2>3, <2>4, Zenon DEF Rest
<1>6. ASSUME NEW r \in Peers, PeerRecovers(r)
      PROVE  Rest'
    <2>1. phase' = phase /\ sessions' = sessions /\ silent' = silent /\ dead' \subseteq dead
        BY <1>6 DEF PeerRecovers
    <2> QED
        BY <2>1, Zenon DEF Rest
<1>7. CASE UNCHANGED vars
    <2>1. phase' = phase /\ sessions' = sessions /\ silent' = silent /\ dead' = dead
        BY <1>7 DEF vars
    <2> QED
        BY <2>1, Zenon DEF Rest
<1> QED
    BY <1>1, <1>2, <1>3, <1>4, <1>5, <1>6, <1>7, <1>8, Zenon DEF Next

LEMMA InitRest == Init => Rest
    BY DEF Init, Rest

LEMMA AlwaysRest == Spec => []Rest
    BY InitRest, NextRest, PTL DEF Spec

-----------------------------------------------------------------------------
(* Whatever the locks, the maps, the peers and the ticks do, the export    *)
(* queue of the Migrator names directories of the cache and ranks, and     *)
(* every entry of export_state is an export in one of its states with at   *)
(* most one map too many waited for (Migrator.cc 925).                    *)
THEOREM TypeCorrect == Spec => []TypeOK
<1>1. Core /\ Rest => TypeOK
    <2> SUFFICES ASSUME Core, Rest PROVE TypeOK
        OBVIOUS
    <2>1. /\ export_state \in [DOMAIN export_state -> Export] /\ DOMAIN export_state \subseteq Dirs
          /\ subtrees \subseteq Dirs /\ exporting \subseteq Dirs /\ pins = PinCount(export_state)
        BY DEF Core, Sound, Now
    <2>2. Range(export_state) \subseteq Export
        BY <2>1 DEF Range
    <2>3. pins \in [Dirs -> Nat]
        BY <2>1 DEF PinCount
    <2>4. export_queue \in Seq(Entry)
        BY DEF Core, Queue, Entry
    <2> QED
        BY <2>1, <2>2, <2>3, <2>4, Zenon DEF TypeOK, Rest
<1> QED
    BY <1>1, AlwaysCore, AlwaysRest, PTL

(* The assertions of export_dir and of shutdown_pass hold, for any tree of *)
(* directories, any export pins and any limit: export_dir is never called  *)
(* for a directory of another rank, never for this rank as destination and *)
(* never for one that is in export_state; a rank that stops exports nothing. *)
THEOREM OnlyOwnDirsAreExported == Spec => []AssertsHold
<1>1. Core => AssertsHold
    BY DEF Core, Sound, Now, AssertsHold
<1> QED
    BY <1>1, AlwaysCore, PTL

(* However an export ends (finished, refused, timed out, canceled by the   *)
(* failure of a peer), STATE_EXPORTING and the auth_pin end with it.       *)
THEOREM FlagsAndPinsEnd == Spec => []NothingLeftBehind
<1>1. Core => NothingLeftBehind
    <2> SUFFICES ASSUME Core PROVE NothingLeftBehind
        OBVIOUS
    <2>1. exporting = DOMAIN export_state /\ pins = PinCount(export_state)
        BY DEF Core, Sound, Now
    <2> QED
        BY <2>1 DEF NothingLeftBehind, PinCount, HoldsPin
<1> QED
    BY <1>1, AlwaysCore, PTL

(* Of the exports that maybe_do_queued_export starts, at most one more     *)
(* than the limit run at a time, for any pins, commands of the operator,   *)
(* imports and empty imports, which start exports past it without limit.   *)
THEOREM ExportsAreFew == Spec => []FewAtOnce
<1>1. Core => FewAtOnce
    BY DEF Core, Few, Nice, Now, FewAtOnce
<1> QED
    BY <1>1, AlwaysCore, PTL

(* An entry of the export queue waits for room only, except after an       *)
(* export that export_frozen or the last notify ack has erased: these two  *)
(* are the only ends of an export that do not serve the queue.             *)
THEOREM TheQueueIsServed == Spec => []QueueServed
<1>1. Core => QueueServed
    BY DEF Core
<1> QED
    BY <1>1, AlwaysCore, PTL

=============================================================================
