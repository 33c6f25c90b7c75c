---------------------------- MODULE MDBalancer_proofs ----------------------------
(***************************************************************************)
(* Proofs about the balancer, for any number of ranks, any load, threshold *)
(* and urgency, and any number of intervals and failures.                  *)
(***************************************************************************)
EXTENDS MDBalancer, FiniteSetTheorems, SequenceTheorems, NaturalsInduction,
        WellFoundedInduction, TLAPS

LEMMA LeastOf ==
    ASSUME NEW S \in SUBSET Nat, S # {}
    PROVE  \E m \in S : \A y \in S : m <= y
<1> DEFINE R == OpToRel(LAMBDA x, y : x < y, Nat)
<1>1. IsWellFoundedOn(R, Nat)
    BY NatLessThanWellFounded
<1>2. \A x, y \in Nat : x < y => <<x, y>> \in R
    <2> SUFFICES ASSUME NEW x \in Nat, NEW y \in Nat, x < y, NEW s, s = <<x, y>> PROVE s \in R
        OBVIOUS
    <2>1. s \in Nat \X Nat /\ s[1] = x /\ s[2] = y
        OBVIOUS
    <2> QED
        BY <2>1 DEF OpToRel
<1> HIDE DEF R
<1>3. PICK m \in S : \A y \in S : ~(<<y, m>> \in R)
    BY <1>1, WFMin
<1>4. ASSUME NEW y \in S
      PROVE  m <= y
    <2>1. ~(y < m)
        BY <1>2, <1>3
    <2> QED
        BY <2>1
<1> QED
    BY <1>4

-----------------------------------------------------------------------------
(* The numbers: an int is smaller than its span, and the float next to it  *)
(* differs by less than one part in Precision.                             *)
LEMMA NumbersAre ==
    /\ Interval \in Nat /\ IntSpan \in Nat /\ Precision \in Nat /\ Half \in Nat
    /\ Interval > 0 /\ IntSpan > 0 /\ Precision > 0
    /\ Ulps \subseteq Nat /\ \A u \in Ulps : u > 0
<1>1. Interval \in Nat /\ IntSpan \in Nat /\ Precision \in Nat
      /\ Interval > 0 /\ IntSpan > 0 /\ Precision > 0
    BY NumberAssumption
<1>2. Half \in Nat
    BY <1>1 DEF Half
<1> QED
    BY <1>1, <1>2, NumberAssumption

LEMMA ToIntIs ==
    ASSUME NEW n \in Nat
    PROVE  ToInt(n) \in Ints
<1>1. PICK m : m = (n + Half) % IntSpan
    OBVIOUS
<1>2. m \in 0 .. (IntSpan - 1)
    BY <1>1, NumbersAre
<1>3. ToInt(n) = m - Half
    BY <1>1 DEF ToInt
<1> QED
    BY <1>2, <1>3, NumbersAre DEF Ints

LEMMA IntsAre ==
    ASSUME NEW z \in Ints
    PROVE  z \in Int /\ Abs(z) \in Nat /\ Abs(z) < IntSpan
<1>1. Half < IntSpan
    BY NumbersAre DEF Half
<1> QED
    BY <1>1, NumbersAre DEF Ints, Abs

LEMMA NearestIs ==
    ASSUME NEW n \in Nat, NEW u \in Nat, u > 0
    PROVE  /\ Nearest(n, u) \in Int
           /\ 2 * Abs(Nearest(n, u) - n) <= u
           /\ u = 1 => Nearest(n, u) = n
<1>1. PICK q : q = n \div u
    OBVIOUS
<1>2. PICK r : r = n % u
    OBVIOUS
<1>3. q \in Int /\ r \in 0 .. (u - 1) /\ n = (u * q) + r
    BY <1>1, <1>2
<1>4. PICK a : a = u * q
    OBVIOUS
<1>5. a \in Int /\ u * (q + 1) = a + u /\ n = a + r
    BY <1>3, <1>4
<1>6. Nearest(n, u) = IF 2 * r > u \/ (2 * r = u /\ q % 2 = 1) THEN a + u ELSE a
    BY <1>1, <1>2, <1>4, <1>5 DEF Nearest
<1> QED
    BY <1>3, <1>5, <1>6 DEF Abs

LEMMA UlpIs ==
    ASSUME NEW n \in Nat, n < IntSpan
    PROVE  /\ Ulp(n) \in Ulps /\ Ulp(n) \in Nat /\ Ulp(n) > 0 /\ n < Precision * Ulp(n)
           /\ n < Precision => Ulp(n) = 1
           /\ Ulp(n) # 1 => Precision * Ulp(n) <= 2 * n
<1> DEFINE S == {u \in Ulps : n < Precision * u}
<1>1. S \in SUBSET Nat /\ S # {}
    <2>1. PICK u \in Ulps : IntSpan <= Precision * u
        BY NumberAssumption
    <2>2. Precision * u \in Nat
        BY NumbersAre
    <2>3. n < Precision * u
        BY <2>1, <2>2, NumbersAre
    <2> QED
        BY <2>3, NumbersAre
<1>2. \E m \in S : \A y \in S : m <= y
    BY <1>1, LeastOf
<1>3. Ulp(n) \in S /\ \A y \in S : Ulp(n) <= y
    <2> HIDE DEF S
    <2>1. Min(S) \in S /\ \A y \in S : Min(S) <= y
        BY <1>2 DEF Min
    <2> QED
        BY <2>1 DEF Ulp, S
<1>4. PICK w : w = Ulp(n)
    OBVIOUS
<1>5. w \in Ulps /\ w \in Nat /\ w > 0 /\ n < Precision * w
    BY <1>3, <1>4, NumbersAre
<1>6. n < Precision => w = 1
    <2> SUFFICES ASSUME n < Precision PROVE w = 1
        OBVIOUS
    <2>1. Precision * 1 = Precision
        BY NumbersAre
    <2>2. 1 \in S
        BY <2>1, NumberAssumption
    <2> QED
        BY <1>3, <1>4, <1>5, <2>2
<1>7. w # 1 => Precision * w <= 2 * n
    <2> SUFFICES ASSUME w # 1 PROVE Precision * w <= 2 * n
        OBVIOUS
    <2>1. PICK y \in Ulps : w = 2 * y
        BY <1>5, NumberAssumption
    <2>2. y \in Nat /\ y > 0 /\ y < w
        BY <1>5, <2>1, NumbersAre
    <2>3. y \notin S
        BY <1>3, <1>4, <1>5, <2>2
    <2>4. PICK a : a = Precision * y
        OBVIOUS
    <2>5. a \in Nat /\ a <= n
        BY <2>2, <2>3, <2>4, NumbersAre
    <2>6. Precision * w = 2 * a
        BY <2>1, <2>2, <2>4, NumbersAre
    <2> QED
        BY <2>5, <2>6
<1> QED
    BY <1>4, <1>5, <1>6, <1>7

LEMMA MagnitudeIs ==
    ASSUME NEW n \in Nat, n < IntSpan
    PROVE  /\ Nearest(n, Ulp(n)) \in Int
           /\ n < Precision => Nearest(n, Ulp(n)) = n
           /\ Precision * Abs(Nearest(n, Ulp(n)) - n) <= n
<1>1. PICK u : u = Ulp(n)
    OBVIOUS
<1>2. /\ u \in Nat /\ u > 0 /\ n < Precision * u
      /\ n < Precision => u = 1
      /\ u # 1 => Precision * u <= 2 * n
    BY <1>1, UlpIs
<1>3. PICK f : f = Nearest(n, u)
    OBVIOUS
<1>4. f \in Int /\ 2 * Abs(f - n) <= u /\ (u = 1 => f = n)
    BY <1>2, <1>3, NearestIs
<1>5. PICK e : e = Abs(f - n)
    OBVIOUS
<1>6. e \in Nat /\ 2 * e <= u /\ (u = 1 => e = 0)
    BY <1>4, <1>5 DEF Abs
<1>7. Precision * e <= n
    <2>1. CASE u = 1
        BY <1>6, <2>1, NumbersAre
    <2>2. CASE u # 1
        <3>1. Precision * (2 * e) <= Precision * u
            <4>1. PICK c : c = 2 * e
                OBVIOUS
            <4>2. PICK P : P = Precision
                OBVIOUS
            <4>3. c \in Nat /\ c <= u /\ P \in Nat /\ u \in Nat
                BY <1>2, <1>6, <4>1, <4>2, NumbersAre
            <4>4. P * c <= P * u
                BY <4>3
            <4> QED
                BY <4>1, <4>2, <4>4
        <3>2. Precision * (2 * e) = 2 * (Precision * e) /\ Precision * e \in Nat
            BY <1>6, NumbersAre
        <3>3. Precision * u \in Nat
            BY <1>2, NumbersAre
        <3> QED
            BY <1>2, <2>2, <3>1, <3>2, <3>3
    <2> QED
        BY <2>1, <2>2
<1> QED
    BY <1>1, <1>2, <1>3, <1>4, <1>5, <1>7

LEMMA FloatIs ==
    ASSUME NEW z \in Ints
    PROVE  /\ Float(z) \in Int
           /\ Abs(z) < Precision => Float(z) = z
           /\ Precision * Abs(z - Float(z)) <= Abs(z)
<1>1. PICK n : n = Abs(z)
    OBVIOUS
<1>2. n \in Nat /\ n < IntSpan /\ (z < 0 => z = 0 - n) /\ (~(z < 0) => z = n)
    BY <1>1, IntsAre DEF Abs
<1>3. PICK f : f = Nearest(n, Ulp(n))
    OBVIOUS
<1>4. f \in Int /\ (n < Precision => f = n) /\ Precision * Abs(f - n) <= n
    BY <1>2, <1>3, MagnitudeIs
<1>5. CASE z < 0
    <2>1. 0 - z = n
        BY <1>2, <1>5
    <2>2. Float(z) = 0 - f
        BY <1>3, <1>5, <2>1 DEF Float
    <2>3. Abs(z - Float(z)) = Abs(f - n)
        BY <1>2, <1>4, <1>5, <2>2 DEF Abs
    <2> QED
        BY <1>1, <1>2, <1>4, <1>5, <2>2, <2>3
<1>6. CASE ~(z < 0)
    <2>1. Float(z) = f
        BY <1>2, <1>3, <1>6 DEF Float
    <2>2. Abs(z - Float(z)) = Abs(f - n)
        BY <1>2, <1>4, <1>6, <2>1 DEF Abs
    <2> QED
        BY <1>1, <1>2, <1>4, <1>6, <2>1, <2>2
<1> QED
    BY <1>5, <1>6

(* What is left of a counter that is Near is no more than Interval.        *)
LEMMA Negligible ==
    ASSUME NEW e \in Int, NEW n \in Nat, Precision * Abs(e) <= n, n <= Interval * Precision
    PROVE  Abs(e) <= Interval
<1>1. PICK a : a = Abs(e)
    OBVIOUS
<1>2. PICK P : P = Precision
    OBVIOUS
<1>3. PICK i : i = Interval
    OBVIOUS
<1>4. a \in Nat /\ P \in Nat /\ P > 0 /\ i \in Nat
    BY <1>1, <1>2, <1>3, NumbersAre DEF Abs
<1>5. P * a <= n /\ n <= i * P
    BY <1>1, <1>2, <1>3
<1>6. P * a <= P * i
    BY <1>4, <1>5
<1>7. a > i => P * a >= P * (i + 1)
    BY <1>4
<1>8. P * (i + 1) = P * i + P
    BY <1>4
<1>9. ~(a > i)
    BY <1>4, <1>6, <1>7, <1>8
<1> QED
    BY <1>1, <1>3, <1>4, <1>9

-----------------------------------------------------------------------------
(* The ranks, and the sum of rates that are all 0.                         *)
LEMMA RanksAre ==
    /\ N \in Nat /\ N >= 2 /\ Ranks \subseteq Nat /\ 0 \in Ranks /\ 1 \in Ranks
    /\ IsFiniteSet(Ranks) /\ Cardinality(Ranks) = N
<1>1. N \in Nat /\ N >= 2
    BY BalancerAssumption
<1>2. IsFiniteSet(0 .. N-1) /\ Cardinality(0 .. N-1) = N
    BY <1>1, FS_Interval
<1> QED
    BY <1>1, <1>2 DEF Ranks

(* All loads are there when there are as many as ranks.                    *)
LEMMA AllThere ==
    ASSUME NEW S \in SUBSET Ranks
    PROVE  Cardinality(S) = N <=> S = Ranks
    BY RanksAre, FS_Subset

IsSum(f, g) ==
    g = [s \in SUBSET DOMAIN f |->
            IF s = {} THEN 0
            ELSE f[CHOOSE x \in s : TRUE] + g[s \ {CHOOSE x \in s : TRUE}]]

LEMMA ZeroTotal ==
    ASSUME NEW f, DOMAIN f = Ranks, \A r \in Ranks : f[r] = 0
    PROVE  Total(f) = 0
<1> DEFINE g == CHOOSE c : IsSum(f, c)
<1>1. Total(f) = g[DOMAIN f]
    BY DEF Total, SumFunction, SumFunctionOnSet, FoldFunctionOnSet, MapThenFoldSet, IsSum
<1>2. IsSum(f, g)
    <2>1. PICK c : c = [s \in SUBSET Ranks |-> 0]
        OBVIOUS
    <2>2. ASSUME NEW s \in SUBSET Ranks, s # {}
          PROVE  f[CHOOSE x \in s : TRUE] + c[s \ {CHOOSE x \in s : TRUE}] = 0
        <3>1. PICK x : x = CHOOSE y \in s : TRUE
            OBVIOUS
        <3>2. x \in s
            BY <2>2, <3>1
        <3>3. f[x] + c[s \ {x}] = 0
            BY <2>1, <3>2
        <3> QED
            BY <3>1, <3>3
    <2>3. IsSum(f, c)
        BY <2>1, <2>2 DEF IsSum
    <2> QED
        BY <2>3
<1> HIDE DEF g
<1>3. /\ g[{}] = 0
      /\ \A s \in SUBSET Ranks : s # {} =>
            g[s] = f[CHOOSE x \in s : TRUE] + g[s \ {CHOOSE x \in s : TRUE}]
    BY <1>2 DEF IsSum
<1> DEFINE Bad == {n \in Nat : \E s \in SUBSET Ranks : Cardinality(s) = n /\ g[s] # 0}
<1>4. Bad = {}
    <2> SUFFICES ASSUME Bad # {} PROVE FALSE
        OBVIOUS
    <2>1. PICK m \in Bad : \A y \in Bad : m <= y
        BY LeastOf
    <2>2. PICK s \in SUBSET Ranks : Cardinality(s) = m /\ g[s] # 0
        BY <2>1
    <2>3. s # {}
        BY <1>3, <2>2
    <2>4. PICK x : x = CHOOSE y \in s : TRUE
        OBVIOUS
    <2>5. x \in s /\ g[s] = f[x] + g[s \ {x}] /\ f[x] = 0
        BY <1>3, <2>3, <2>4
    <2>6. IsFiniteSet(s)
        BY <2>2, RanksAre, FS_Subset
    <2>7. PICK t : t = s \ {x}
        OBVIOUS
    <2>8. Cardinality(t) = m - 1 /\ Cardinality(t) \in Nat /\ m \in Nat
        <3>1. IsFiniteSet(s \ {x}) /\ Cardinality(s \ {x}) = Cardinality(s) - 1
            BY <2>5, <2>6, FS_RemoveElement
        <3>2. Cardinality(t) \in Nat
            BY <2>7, <3>1, FS_CardinalityType
        <3> QED
            BY <2>1, <2>2, <2>7, <3>1, <3>2
    <2>9. g[t] = 0
        <3>1. Cardinality(t) \notin Bad
            BY <2>1, <2>8
        <3> QED
            BY <2>7, <2>8, <3>1
    <2> QED
        BY <2>2, <2>5, <2>7, <2>9
<1>5. g[Ranks] = 0
    BY <1>4, RanksAre
<1> QED
    BY <1>1, <1>5

(* With the same counters as before there is nothing to decide.            *)
LEMMA NothingToDecide ==
    ASSUME NEW x, DOMAIN x = Ranks, \A r \in Ranks : x[r] = 0, NEW v
    PROVE  Decisions(x, v) = <<>>
    BY ZeroTotal DEF Decisions, IsImbalanced


-----------------------------------------------------------------------------
(* The decision loop.  Matched is the function that its definition         *)
(* describes: there is one for each length of the vector.                  *)
Match(x, v, r, n, im) ==
    IF v[n-1] # r /\ IsImporter(x, v[n-1]) /\ Len(im) < MaxImporters(x)
    THEN Append(im, v[n-1]) ELSE im
IsMatched(x, v, r, n, g) ==
    g = [i \in 0 .. n |-> IF i = 0 THEN <<>> ELSE Match(x, v, r, i, g[i-1])]

LEMMA MatchedExists ==
    ASSUME NEW x, NEW v, NEW r, NEW k \in Nat
    PROVE  \E g : IsMatched(x, v, r, k, g)
<1> DEFINE Bad == {n \in Nat : ~ \E g : IsMatched(x, v, r, n, g)}
<1> SUFFICES ASSUME Bad # {} PROVE FALSE
    OBVIOUS
<1>1. PICK m \in Bad : \A y \in Bad : m <= y
    BY LeastOf
<1>2. m \in Nat /\ ~ \E g : IsMatched(x, v, r, m, g)
    BY <1>1
<1>3. m # 0
    <2>1. PICK g : g = [i \in 0 .. 0 |-> <<>>]
        OBVIOUS
    <2>2. IsMatched(x, v, r, 0, g)
        BY <2>1 DEF IsMatched
    <2> QED
        BY <1>2, <2>2
<1>4. m - 1 \in Nat /\ m - 1 \notin Bad
    BY <1>1, <1>2, <1>3
<1>5. PICK g : IsMatched(x, v, r, m - 1, g)
    BY <1>4
<1>6. PICK t : t = Match(x, v, r, m, g[m-1])
    OBVIOUS
<1>7. PICK f : f = [i \in 0 .. m |-> IF i = m THEN t ELSE g[i]]
    OBVIOUS
<1>8. ASSUME NEW i \in 0 .. m
      PROVE  f[i] = IF i = 0 THEN <<>> ELSE Match(x, v, r, i, f[i-1])
    <2>1. CASE i = 0
        BY <1>2, <1>3, <1>5, <1>7, <2>1 DEF IsMatched
    <2>2. CASE i # 0 /\ i # m
        <3>1. i \in 0 .. (m - 1) /\ i - 1 \in 0 .. m /\ i - 1 # m
            BY <1>2, <1>4, <2>2
        <3>2. f[i] = g[i] /\ f[i-1] = g[i-1]
            BY <1>7, <2>2, <3>1
        <3>3. g[i] = Match(x, v, r, i, g[i-1])
            BY <1>5, <2>2, <3>1 DEF IsMatched
        <3> QED
            BY <2>2, <3>2, <3>3
    <2>3. CASE i = m
        <3>1. m - 1 \in 0 .. m /\ m - 1 # m /\ m \in 0 .. m
            BY <1>2, <1>4
        <3>2. f[m-1] = g[m-1] /\ f[m] = t
            BY <1>7, <3>1
        <3> QED
            BY <1>3, <1>6, <2>3, <3>2
    <2> QED
        BY <2>1, <2>2, <2>3
<1>9. IsMatched(x, v, r, m, f)
    BY <1>7, <1>8 DEF IsMatched
<1> QED
    BY <1>2, <1>9

(* Only ranks that are not busier than the average are matched.            *)
Idlers(x, im) == im \in Seq(Ranks) /\ \A k \in DOMAIN im : ~IsBigger(x, im[k])
LEMMA MatchIdlers ==
    ASSUME NEW x, NEW v, NEW r, NEW n, v[n-1] \in Ranks, NEW im, Idlers(x, im)
    PROVE  Idlers(x, Match(x, v, r, n, im))
<1>1. CASE v[n-1] # r /\ IsImporter(x, v[n-1]) /\ Len(im) < MaxImporters(x)
    <2>1. PICK q : q = v[n-1]
        OBVIOUS
    <2>2. q \in Ranks /\ ~IsBigger(x, q) /\ im \in Seq(Ranks)
        BY <1>1, <2>1 DEF IsImporter, Idlers
    <2>3. PICK s : s = Append(im, q)
        OBVIOUS
    <2>4. /\ s \in Seq(Ranks) /\ DOMAIN s = 1 .. Len(im) + 1 /\ DOMAIN im = 1 .. Len(im)
          /\ s[Len(im) + 1] = q /\ \A k \in 1 .. Len(im) : s[k] = im[k]
        BY <2>2, <2>3
    <2>5. Idlers(x, s)
        BY <2>2, <2>4 DEF Idlers
    <2> QED
        BY <1>1, <2>1, <2>3, <2>5 DEF Match
<1>2. CASE ~(v[n-1] # r /\ IsImporter(x, v[n-1]) /\ Len(im) < MaxImporters(x))
    BY <1>2 DEF Match
<1> QED
    BY <1>1, <1>2

LEMMA ImportersIdle ==
    ASSUME NEW x, DOMAIN x = Ranks, NEW v \in [Ranks -> Ranks], NEW r
    PROVE  Idlers(x, Importers(x, v, r))
<1>1. Size(x) = N /\ N \in Nat
    BY RanksAre DEF Size
<1>2. PICK g : g = Matched(x, v, r)
    OBVIOUS
<1>3. Matched(x, v, r) = CHOOSE c : IsMatched(x, v, r, Size(x), c)
    BY DEF Matched, IsMatched, Match
<1>4. IsMatched(x, v, r, N, g)
    BY <1>1, <1>2, <1>3, MatchedExists
<1>5. /\ g[0] = <<>>
      /\ \A n \in 1 .. N : g[n] = Match(x, v, r, n, g[n-1])
    BY <1>1, <1>4 DEF IsMatched
<1> DEFINE Bad == {n \in 0 .. N : ~Idlers(x, g[n])}
<1>6. Bad = {}
    <2> SUFFICES ASSUME Bad # {} PROVE FALSE
        OBVIOUS
    <2>1. PICK m \in Bad : \A y \in Bad : m <= y
        <3>1. PICK S : S = Bad
            OBVIOUS
        <3>2. S \in SUBSET Nat /\ S # {}
            BY <1>1, <3>1
        <3>3. \E m \in S : \A y \in S : m <= y
            BY <3>2, LeastOf
        <3> QED
            BY <3>1, <3>3
    <2>2. m # 0
        <3>1. PICK none : none = <<>>
            OBVIOUS
        <3>2. Idlers(x, none)
            BY <3>1 DEF Idlers
        <3> QED
            BY <1>5, <2>1, <3>1, <3>2
    <2>3. m \in 1 .. N /\ m - 1 \in 0 .. N /\ m - 1 \in Ranks
        BY <1>1, <2>1, <2>2 DEF Ranks
    <2>4. Idlers(x, g[m-1])
        BY <2>1, <2>3
    <2>5. Idlers(x, Match(x, v, r, m, g[m-1]))
        BY <2>3, <2>4, MatchIdlers
    <2> QED
        BY <1>5, <2>1, <2>3, <2>5
<1>7. Idlers(x, g[N])
    BY <1>1, <1>6
<1> QED
    BY <1>1, <1>2, <1>7 DEF Importers

(* The decisions: busy ranks export to idle ones.                          *)
Decides(x, dec) ==
    /\ DOMAIN dec \subseteq Ranks
    /\ \A r \in DOMAIN dec :
          /\ dec[r] \in Seq(Shares)
          /\ IsBigger(x, r)
          /\ \A k \in DOMAIN dec[r] : ~IsBigger(x, dec[r][k].to)
          /\ dec[r] # <<>> => x[r] > Interval
LEMMA DecisionShares ==
    ASSUME NEW x \in [Ranks -> Int], NEW v \in [Ranks -> Ranks], NEW p \in Ranks
    PROVE  /\ Decision(x, v, p) \in Seq(Shares)
           /\ \A k \in DOMAIN Decision(x, v, p) : ~IsBigger(x, Decision(x, v, p)[k].to)
           /\ Decision(x, v, p) # <<>> => Importers(x, v, v[p]) # <<>>
<1>1. PICK im : im = Importers(x, v, v[p])
    OBVIOUS
<1>2. Idlers(x, im)
    BY <1>1, ImportersIdle
<1>3. /\ im \in Seq(Ranks) /\ DOMAIN im = 1 .. Len(im) /\ Len(im) \in Nat
      /\ \A k \in DOMAIN im : im[k] \in Ranks /\ ~IsBigger(x, im[k])
    BY <1>2 DEF Idlers
<1>4. ASSUME NEW k \in DOMAIN im
      PROVE  Share(x, p, im[k], k) \in Shares /\ Share(x, p, im[k], k).to = im[k]
    <2>1. k \in Nat
        BY <1>3, <1>4
    <2>2. Amount(k) \in Int
        BY <2>1 DEF Amount
    <2>3. im[k] \in Ranks /\ x[p] \in Int /\ x[im[k]] \in Int
        BY <1>3
    <2>4. x[p] - x[im[k]] \in Int /\ x[p] * Amount(k) \in Int
        BY <2>2, <2>3
    <2> QED
        BY <2>3, <2>4 DEF Share, Shares
<1>5. Decision(x, v, p) = [k \in DOMAIN im |-> Share(x, p, im[k], k)]
    BY <1>1 DEF Decision
<1>6. PICK d : d = Decision(x, v, p)
    OBVIOUS
<1>7. DOMAIN d = 1 .. Len(im) /\ \A k \in 1 .. Len(im) : d[k] \in Shares /\ d[k].to = im[k]
    BY <1>3, <1>4, <1>5, <1>6
<1>8. d \in Seq(Shares)
    BY <1>3, <1>4, <1>5, <1>6
<1>9. im = <<>> => d = <<>>
    BY <1>5, <1>6
<1> QED
    BY <1>1, <1>3, <1>6, <1>7, <1>8, <1>9

LEMMA DecisionsDecide ==
    ASSUME NEW x \in [Ranks -> Int], NEW v \in SortedVectors(x)
    PROVE  Decides(x, Decisions(x, v))
<1>1. v \in [Ranks -> Ranks]
    BY DEF SortedVectors, Bijection, Injection, Surjection
<1>2. CASE IsImbalanced(x)
    <2> DEFINE place(r) == CHOOSE p \in Ranks : v[p] = r
               D == {v[p] : p \in Decided(x, v)}
    <2>1. Decisions(x, v) = [r \in D |-> Decision(x, v, place(r))]
        BY <1>2 DEF Decisions
    <2>2. \A p \in Decided(x, v) : p \in Ranks /\ v[p] \in Ranks /\ IsBigger(x, v[p])
        BY <1>1 DEF Decided, IsExporter
    <2>3. ASSUME NEW r \in D
          PROVE  r \in Ranks /\ IsBigger(x, r) /\ place(r) \in Ranks /\ v[place(r)] = r
        BY <2>2
    <2>4. PICK dec : dec = Decisions(x, v)
        OBVIOUS
    <2>5. DOMAIN dec = D /\ \A r \in D : dec[r] = Decision(x, v, place(r))
        BY <2>1, <2>4
    <2>6. ASSUME NEW r \in D, Importers(x, v, r) # <<>>
          PROVE  x[r] > Interval
        <3>1. PICK p \in Decided(x, v) : v[p] = r
            OBVIOUS
        <3>2. /\ p \in Ranks /\ p \in Int /\ (p = 0 => ~WrongLoad(x, v, 0))
              /\ \A q \in Ranks \ {0} : (q <= p \/ p = 0) => ~WrongLoad(x, v, q)
            BY RanksAre DEF Decided
        <3>3. ~WrongLoad(x, v, p)
            BY <3>2
        <3>4. IsExporter(x, v[p])
            BY DEF Decided
        <3>5. ~(x[r] <= Interval)
            BY <2>6, <3>1, <3>3, <3>4 DEF WrongLoad
        <3> QED
            BY <2>3, <3>5, NumbersAre
    <2> HIDE DEF place, D
    <2>7. Decides(x, dec)
        BY <1>1, <2>3, <2>5, <2>6, DecisionShares DEF Decides
    <2> QED
        BY <2>4, <2>7
<1>3. CASE ~IsImbalanced(x)
    BY <1>3 DEF Decisions, Decides
<1> QED
    BY <1>2, <1>3


-----------------------------------------------------------------------------
(* What is on its way.                                                     *)
Has(q, type) == \E i \in 1 .. Len(q) : q[i].type = type
OfEpoch(q, e) == \A i \in 1 .. Len(q) : q[i].beat = e
OfLoad(q, n) == \A i \in 1 .. Len(q) : q[i].load.req = n

LEMMA NothingOnTheWay ==
    ASSUME NEW q, q = <<>>
    PROVE  /\ q \in Seq(Beat)
           /\ \A t : ~Has(q, t)
           /\ \A e : OfEpoch(q, e)
           /\ \A n : OfLoad(q, n)
    BY DEF Has, OfEpoch, OfLoad

LEMMA FirstTaken ==
    ASSUME NEW q \in Seq(Beat), q # <<>>
    PROVE  /\ Head(q) \in Beat /\ Tail(q) \in Seq(Beat)
           /\ \A t : Has(Tail(q), t) => Has(q, t)
           /\ \A t : Has(q, t) => Has(Tail(q), t) \/ Head(q).type = t
           /\ \A e : OfEpoch(q, e) => OfEpoch(Tail(q), e) /\ Head(q).beat = e
           /\ \A n : OfLoad(q, n) => OfLoad(Tail(q), n) /\ Head(q).load.req = n
<1>1. /\ Tail(q) \in Seq(Beat) /\ Len(Tail(q)) = Len(q) - 1 /\ Len(q) \in Nat /\ Len(q) > 0
      /\ Head(q) = q[1] /\ Head(q) \in Beat
      /\ \A i \in 1 .. Len(q) - 1 : Tail(q)[i] = q[i + 1]
    OBVIOUS
<1>2. PICK p : p = Tail(q)
    OBVIOUS
<1>3. Len(p) = Len(q) - 1 /\ \A i \in 1 .. Len(q) - 1 : p[i] = q[i + 1]
    BY <1>1, <1>2
<1>4. \A i \in 2 .. Len(q) : i - 1 \in 1 .. Len(p) /\ p[i-1] = q[i]
    BY <1>1, <1>3
<1>5. \A t : Has(p, t) => Has(q, t)
    BY <1>1, <1>3 DEF Has
<1>6. \A t : Has(q, t) => Has(p, t) \/ Head(q).type = t
    <2> SUFFICES ASSUME NEW t, NEW i \in 1 .. Len(q), q[i].type = t PROVE Has(p, t) \/ q[1].type = t
        BY <1>1 DEF Has
    <2>1. CASE i = 1
        BY <2>1
    <2>2. CASE i # 1
        BY <1>1, <1>4, <2>2 DEF Has
    <2> QED
        BY <2>1, <2>2
<1>7. \A e : OfEpoch(q, e) => OfEpoch(p, e) /\ Head(q).beat = e
    BY <1>1, <1>3 DEF OfEpoch
<1>8. \A n : OfLoad(q, n) => OfLoad(p, n) /\ Head(q).load.req = n
    BY <1>1, <1>3 DEF OfLoad
<1> QED
    BY <1>1, <1>2, <1>5, <1>6, <1>7, <1>8

LEMMA LastAdded ==
    ASSUME NEW q \in Seq(Beat), NEW m \in Beat
    PROVE  /\ Append(q, m) \in Seq(Beat)
           /\ \A t : Has(Append(q, m), t) <=> Has(q, t) \/ m.type = t
           /\ \A e : OfEpoch(q, e) /\ m.beat = e => OfEpoch(Append(q, m), e)
           /\ \A n : OfLoad(q, n) /\ m.load.req = n => OfLoad(Append(q, m), n)
<1>1. PICK p : p = Append(q, m)
    OBVIOUS
<1>2. /\ p \in Seq(Beat) /\ Len(p) = Len(q) + 1 /\ Len(q) \in Nat /\ p[Len(q) + 1] = m
      /\ \A i \in 1 .. Len(q) : p[i] = q[i]
    BY <1>1
<1>3. \A i \in 1 .. Len(p) : i \in 1 .. Len(q) \/ i = Len(q) + 1
    BY <1>2
<1>4. \A t : Has(p, t) <=> Has(q, t) \/ m.type = t
    BY <1>2, <1>3 DEF Has
<1>5. \A e : OfEpoch(q, e) /\ m.beat = e => OfEpoch(p, e)
    BY <1>2, <1>3 DEF OfEpoch
<1>6. \A n : OfLoad(q, n) /\ m.load.req = n => OfLoad(p, n)
    BY <1>2, <1>3 DEF OfLoad
<1> QED
    BY <1>1, <1>2, <1>4, <1>5, <1>6

LEMMA BeatFields ==
    ASSUME NEW m \in Beat
    PROVE  m.type \in {"hb", "if"} /\ m.beat \in Nat /\ m.load \in Load
    BY DEF Beat

LEMMA HeartbeatIs ==
    ASSUME NEW e \in Nat, NEW load \in Load, NEW m, m = Heartbeat(e, load)
    PROVE  m \in Beat /\ m.type = "hb" /\ m.beat = e /\ m.load = load
    BY DEF Heartbeat, Beat

LEMMA IFBeatIs ==
    ASSUME NEW e \in Nat, NEW load \in Load, NEW b \in BOOLEAN, NEW dec \in Seq(Shares),
           NEW m, m = IFBeat(e, load, b, dec)
    PROVE  m \in Beat /\ m.type = "if" /\ m.beat = e /\ m.load = load
<1>1. m \in Beat
    BY Zenon DEF IFBeat, Beat
<1>2. m.type = "if" /\ m.beat = e /\ m.load = load
    BY DEF IFBeat
<1> QED
    BY <1>1, <1>2

LEMMA DecisionOf ==
    ASSUME NEW m \in Beat, m.type = "if"
    PROVE  m.dec \in Seq(Shares)
    BY DEF Beat

(* A message is received, or sent to one rank or to all others.            *)
Channels == [Ranks -> [Ranks -> Seq(Beat)]]
Taken(n, s, d) == [n EXCEPT ![s][d] = Tail(@)]
IsTaken(n, s, d, m) ==
    /\ m \in Channels
    /\ m[s][d] = Tail(n[s][d])
    /\ \A x, y \in Ranks : x # s \/ y # d => m[x][y] = n[x][y]
IsSent(n, s, d, b, m) ==
    /\ m \in Channels
    /\ m[s][d] = Append(n[s][d], b)
    /\ \A x, y \in Ranks : x # s \/ y # d => m[x][y] = n[x][y]
IsScattered(n, s, b, m) ==
    /\ m \in Channels
    /\ m[s][s] = n[s][s]
    /\ \A d \in Ranks : d # s => m[s][d] = Append(n[s][d], b)
    /\ \A x, y \in Ranks : x # s => m[x][y] = n[x][y]
LEMMA TakenIs ==
    ASSUME NEW n \in Channels, NEW s \in Ranks, NEW d \in Ranks, n[s][d] # <<>>
    PROVE  IsTaken(n, s, d, Taken(n, s, d))
<1>1. Tail(n[s][d]) \in Seq(Beat)
    BY FirstTaken DEF Channels
<1> QED
    BY <1>1 DEF Channels, IsTaken, Taken

LEMMA SendIs ==
    ASSUME NEW n \in Channels, NEW s \in Ranks, NEW d \in Ranks, NEW b \in Beat
    PROVE  IsSent(n, s, d, b, Send(n, s, d, b))
<1>1. Append(n[s][d], b) \in Seq(Beat)
    BY LastAdded DEF Channels
<1> QED
    BY <1>1 DEF Channels, Send, IsSent

LEMMA ScatterIs ==
    ASSUME NEW n \in Channels, NEW s \in Ranks, NEW b \in Beat
    PROVE  IsScattered(n, s, b, Scatter(n, s, b))
<1>1. \A d \in Ranks : Append(n[s][d], b) \in Seq(Beat)
    BY LastAdded DEF Channels
<1> QED
    BY <1>1 DEF Channels, Scatter, IsScattered

-----------------------------------------------------------------------------
(* The inductive invariant.                                                *)
Loads(f) == DOMAIN f \subseteq Ranks /\ f \in [DOMAIN f -> Load]
Types ==
    /\ down \subseteq Ranks
    /\ requests \in [Ranks -> Nat]
    /\ beat_epoch \in [Ranks -> Nat]
    /\ mds_load = [r \in Ranks |-> mds_load[r]] /\ \A r \in Ranks : Loads(mds_load[r])
    /\ old_req \in [DOMAIN old_req -> Int] /\ (DOMAIN old_req = {} \/ DOMAIN old_req = Ranks)
    /\ net \in Channels
    /\ orders \in [Ranks -> Seq(Shares)]

Calm == ~h.troubled
Fields ==
    h = [base |-> h.base, suspect |-> h.suspect, troubled |-> h.troubled, computed |-> h.computed,
         given |-> h.given, known |-> h.known, x |-> h.x, from |-> h.from, since |-> h.since,
         doubted |-> h.doubted, dec |-> h.dec]
History ==
    /\ Fields
    /\ h.base \in [Ranks -> Nat] /\ h.given \in [Ranks -> Nat]
    /\ h.suspect \subseteq Ranks
    /\ h.computed = 0 \/ h.computed = 1

(* What rank 0 has computed from: the counters of the processes, except of *)
(* suspect ranks, as ints and then as floats.  In a calm epoch, after a    *)
(* computation, the processes have served nothing since.                   *)
Kept(n) == Float(ToInt(n))
Based == \A r \in DOMAIN old_req : r \notin h.suspect => old_req[r] = Kept(h.base[r])
Once ==
    Calm =>
        /\ h.computed = 0 => \A r \in Ranks : h.given[r] = 0
        /\ h.computed = 1 =>
              /\ DOMAIN old_req = Ranks
              /\ \A r \in Ranks : old_req[r] = Kept(requests[r])
              /\ \A r \in Ranks : Near(requests[r]) => h.given[r] <= 1
Account == History /\ Based /\ Once /\ RealLoads /\ OrdersFollowLoad

(* The loads rank 0 has, and those on their way to it, are those of the    *)
(* processes now, except of suspect ranks.                                 *)
Trusted(r) == r \notin h.suspect \/ Calm
RightFor(n, load, req, r) ==
    /\ OfLoad(n[r][0], req)
    /\ r \in DOMAIN load => load[r].req = req
Right == ~Quiet => \A r \in Ranks : Trusted(r) => RightFor(net, mds_load[0], ToInt(requests[r]), r)

(* A calm epoch: a rank has not got the heartbeat yet, or its IF beat is   *)
(* on its way, or rank 0 has its load; when all have answered, rank 0 has  *)
(* computed.                                                               *)
Pending(n, r) == Has(n[0][r], "hb") \/ Has(n[r][0], "if")
InEpoch(n, be, load) ==
    /\ 0 \in DOMAIN load
    /\ \A s, d \in Ranks : OfEpoch(n[s][d], be[0])
    /\ \A r \in Ranks \ {0} :
          /\ Has(n[0][r], "hb") \/ be[r] = be[0]
          /\ Pending(n, r) \/ r \in DOMAIN load
Round ==
    Calm /\ beat_epoch[0] > 0 =>
        /\ InEpoch(net, beat_epoch, mds_load[0])
        /\ (\A r \in Ranks \ {0} : ~Pending(net, r)) => h.computed = 1

NoSelf == \A r \in Ranks : net[r][r] = <<>>
Failures == down # {} => ~Calm
Traffic == NoSelf /\ Failures /\ Right /\ Round
Inv == Types /\ Account /\ Traffic

-----------------------------------------------------------------------------
LEMMA AccountKept ==
    ASSUME Account, UNCHANGED <<old_req, requests, h>>
    PROVE  Account'
    BY DEF Account, History, Fields, Based, Once, Near, RealLoads, OrdersFollowLoad, NoWrap, Calm

(* Rank d has taken rank 0's heartbeat and answered with hb and ib.        *)
IsAnswered(n, d, hb, ib, m) ==
    /\ m \in Channels
    /\ m[0][d] = Tail(n[0][d])
    /\ m[d][0] = Append(Append(n[d][0], hb), ib)
    /\ m[d][d] = n[d][d]
    /\ \A y \in Ranks : y # 0 /\ y # d => m[d][y] = Append(n[d][y], hb)
    /\ \A x, y \in Ranks : x # d /\ (x # 0 \/ y # d) => m[x][y] = n[x][y]
LEMMA AnswerIs ==
    ASSUME NEW n \in Channels, NEW d \in Ranks, d # 0, n[0][d] # <<>>, NEW hb \in Beat, NEW ib \in Beat,
           NEW m, m = Send(Scatter(Taken(n, 0, d), d, hb), d, 0, ib)
    PROVE  IsAnswered(n, d, hb, ib, m)
<1>0. 0 \in Ranks
    BY RanksAre
<1>1. PICK a : a = Taken(n, 0, d)
    OBVIOUS
<1>2. IsTaken(n, 0, d, a)
    BY <1>0, <1>1, TakenIs
<1>3. PICK b : b = Scatter(a, d, hb)
    OBVIOUS
<1>4. IsScattered(a, d, hb, b)
    <2>1. a \in Channels
        BY <1>2 DEF IsTaken
    <2> QED
        BY <2>1, <1>3, ScatterIs
<1>5. m = Send(b, d, 0, ib)
    BY <1>1, <1>3
<1>6. IsSent(b, d, 0, ib, m)
    <2>1. b \in Channels
        BY <1>4 DEF IsScattered
    <2> QED
        BY <2>1, <1>0, <1>5, SendIs
<1>7. a[d][0] = n[d][0] /\ b[d][0] = Append(a[d][0], hb) /\ m[d][0] = Append(b[d][0], ib)
    BY <1>0, <1>2, <1>4, <1>6 DEF IsTaken, IsScattered, IsSent
<1>8. m[d][0] = Append(Append(n[d][0], hb), ib)
    BY <1>7
<1>9. m[0][d] = Tail(n[0][d])
    BY <1>0, <1>2, <1>4, <1>6 DEF IsTaken, IsScattered, IsSent
<1>10. m[d][d] = n[d][d] /\ \A y \in Ranks : y # 0 /\ y # d => m[d][y] = Append(n[d][y], hb)
    BY <1>0, <1>2, <1>4, <1>6 DEF IsTaken, IsScattered, IsSent
<1>11. \A x, y \in Ranks : x # d /\ (x # 0 \/ y # d) => m[x][y] = n[x][y]
    BY <1>0, <1>2, <1>4, <1>6 DEF IsTaken, IsScattered, IsSent
<1>12. m \in Channels
    BY <1>6 DEF IsSent
<1> QED
    BY <1>8, <1>9, <1>10, <1>11, <1>12 DEF IsAnswered


-----------------------------------------------------------------------------
(* handle_heartbeat.                                                       *)
Adds(f, k, v, g) ==
    /\ DOMAIN g = DOMAIN f \cup {k} /\ g[k] = v
    /\ \A r \in DOMAIN f : r # k => g[r] = f[r]
LEMMA PutLoad ==
    ASSUME NEW f, Loads(f), NEW k \in Ranks, NEW v \in Load
    PROVE  Loads(Put(f, k, v)) /\ Adds(f, k, v, Put(f, k, v))
    BY DEF Loads, Put, Adds

LEMMA InsertLoad ==
    ASSUME NEW f, Loads(f), NEW k \in Ranks, NEW v \in Load
    PROVE  /\ Loads(Insert(f, k, v)) /\ DOMAIN Insert(f, k, v) = DOMAIN f \cup {k}
           /\ \A r \in DOMAIN f : Insert(f, k, v)[r] = f[r]
           /\ k \notin DOMAIN f => Insert(f, k, v)[k] = v
    BY DEF Loads, Insert

LEMMA NoLoads == Loads(<<>>) /\ DOMAIN <<>> = {}
    BY DEF Loads

LEMMA LoadOfIs ==
    ASSUME NEW r, requests[r] \in Nat, NEW e \in Nat
    PROVE  LoadOf(r, e) \in Load /\ LoadOf(r, e).req = ToInt(requests[r])
    BY ToIntIs DEF LoadOf, Load

Hears(s, d, m, e, L) ==
    /\ s # d /\ net[s][d] # <<>> /\ m = Head(net[s][d]) /\ m.type = "hb"
    /\ m \in Beat /\ e \in Nat /\ Loads(L)
    /\ beat_epoch' = [beat_epoch EXCEPT ![d] = e]
    /\ mds_load' = [mds_load EXCEPT ![d] = L]
    /\ UNCHANGED <<down, requests, old_req, orders, h>>
Listens(s, d, m, e, L) ==
    /\ s # 0
    /\ e = beat_epoch[d] \/ (d # 0 /\ e = m.beat)
    /\ d = 0 => Adds(mds_load[0], s, m.load, L)
    /\ net' = Taken(net, s, d)
Replies(s, d, m, e) ==
    /\ s = 0 /\ e = m.beat
    /\ net' = Send(Scatter(Taken(net, 0, d), d, Heartbeat(e, LoadOf(d, e))), d, 0,
                   IFBeat(e, LoadOf(d, e), FALSE, <<>>))

LEMMA HeartbeatSteps ==
    ASSUME Inv, NEW s \in Ranks, NEW d \in Ranks, HandleHeartbeat(s, d)
    PROVE  \E m, e, L : Hears(s, d, m, e, L) /\ (Listens(s, d, m, e, L) \/ Replies(s, d, m, e))
<1>0. /\ net \in Channels /\ net[d][d] = <<>> /\ 0 \in Ranks
      /\ beat_epoch[d] \in Nat /\ requests[d] \in Nat /\ Loads(mds_load[d])
    BY RanksAre DEF Inv, Types, Traffic, NoSelf
<1>1. /\ net[s][d] # <<>> /\ Head(net[s][d]).type = "hb" /\ s # d
      /\ UNCHANGED <<down, requests, old_req, orders, h>>
    BY <1>0 DEF HandleHeartbeat, Receives
<1>2. PICK m : m = Head(net[s][d])
    OBVIOUS
<1>3. m \in Beat
    BY <1>0, <1>1, <1>2, FirstTaken DEF Channels
<1>4. m.beat \in Nat /\ m.load \in Load /\ m.type = "hb"
    BY <1>1, <1>2, <1>3, BeatFields
<1>5. CASE s # 0
    <2> DEFINE newer == d # 0 /\ m.beat > beat_epoch[d]
    <2>1. PICK e : e = IF newer THEN m.beat ELSE beat_epoch[d]
        OBVIOUS
    <2>2. PICK kept : kept = IF newer THEN <<>> ELSE mds_load[d]
        OBVIOUS
    <2>3. PICK L : L = Put(kept, s, m.load)
        OBVIOUS
    <2>4. /\ beat_epoch' = [beat_epoch EXCEPT ![d] = e]
          /\ mds_load' = [mds_load EXCEPT ![d] = L]
          /\ net' = Taken(net, s, d)
        BY <1>2, <1>5, <2>1, <2>2, <2>3 DEF HandleHeartbeat, Answers, Received, Taken
    <2>5. Loads(kept) /\ (d = 0 => kept = mds_load[0])
        BY <1>0, <2>2, NoLoads
    <2>6. Loads(L) /\ Adds(kept, s, m.load, L)
        BY <1>4, <2>3, <2>5, PutLoad
    <2>7. e \in Nat /\ (e = beat_epoch[d] \/ (d # 0 /\ e = m.beat))
        BY <1>0, <1>4, <2>1
    <2>8. Hears(s, d, m, e, L)
        BY <1>1, <1>2, <1>3, <1>4, <2>4, <2>6, <2>7 DEF Hears
    <2>9. Listens(s, d, m, e, L)
        BY <1>5, <2>4, <2>5, <2>6, <2>7 DEF Listens
    <2> QED
        BY <2>8, <2>9
<1>6. CASE s = 0
    <2>1. PICK e : e = m.beat
        OBVIOUS
    <2>2. PICK kept : kept = IF (d # 0 /\ m.beat > beat_epoch[d]) \/ m.beat # beat_epoch[d]
                             THEN <<>> ELSE mds_load[d]
        OBVIOUS
    <2>3. PICK L : L = Put(Insert(kept, d, LoadOf(d, e)), s, m.load)
        OBVIOUS
    <2>4. /\ beat_epoch' = [beat_epoch EXCEPT ![d] = e]
          /\ mds_load' = [mds_load EXCEPT ![d] = L]
        BY <1>2, <1>6, <2>1, <2>2, <2>3 DEF HandleHeartbeat
    <2>5. net' = Send(Scatter(Taken(net, 0, d), d, Heartbeat(e, LoadOf(d, e))), d, 0,
                      IFBeat(e, LoadOf(d, e), FALSE, <<>>))
        BY <1>2, <1>6, <2>1 DEF HandleHeartbeat, Answers, Received, Taken
    <2>6. Loads(kept) /\ e \in Nat
        BY <1>0, <1>4, <2>1, <2>2, NoLoads
    <2>7. LoadOf(d, e) \in Load
        BY <1>0, <2>6, LoadOfIs
    <2>8. Loads(Insert(kept, d, LoadOf(d, e)))
        BY <2>6, <2>7, InsertLoad
    <2>9. Loads(L)
        BY <1>4, <2>3, <2>8, PutLoad
    <2>10. Hears(s, d, m, e, L)
        BY <1>1, <1>2, <1>3, <1>4, <2>4, <2>6, <2>9 DEF Hears
    <2>11. Replies(s, d, m, e)
        BY <1>6, <2>1, <2>5 DEF Replies
    <2> QED
        BY <2>10, <2>11
<1> QED
    BY <1>5, <1>6


LEMMA HearsTypes ==
    ASSUME Inv, NEW s \in Ranks, NEW d \in Ranks, NEW m, NEW e, NEW L, Hears(s, d, m, e, L),
           net' \in Channels
    PROVE  /\ Types' /\ Account' /\ Failures' /\ ~Quiet
           /\ beat_epoch'[d] = e /\ \A r \in Ranks : r # d => beat_epoch'[r] = beat_epoch[r]
           /\ mds_load'[d] = L /\ \A r \in Ranks : r # d => mds_load'[r] = mds_load[r]
<1>1. /\ beat_epoch' \in [Ranks -> Nat] /\ beat_epoch'[d] = e
      /\ \A r \in Ranks : r # d => beat_epoch'[r] = beat_epoch[r]
    BY DEF Inv, Types, Hears
<1>2. /\ mds_load' = [r \in Ranks |-> mds_load'[r]] /\ mds_load'[d] = L
      /\ \A r \in Ranks : r # d => mds_load'[r] = mds_load[r]
    BY DEF Inv, Types, Hears
<1>3. \A r \in Ranks : Loads(mds_load'[r])
    BY <1>2 DEF Inv, Types, Hears
<1>4. UNCHANGED <<down, requests, old_req, orders, h>> /\ ~Quiet
    BY DEF Hears, Quiet
<1>5. Types'
    BY <1>1, <1>2, <1>3, <1>4 DEF Inv, Types
<1>6. Account'
    BY <1>4, AccountKept DEF Inv
<1>7. Failures'
    BY <1>4 DEF Inv, Traffic, Failures, Calm
<1> QED
    BY <1>1, <1>2, <1>4, <1>5, <1>6, <1>7

LEMMA ListensInv ==
    ASSUME Inv, NEW s \in Ranks, NEW d \in Ranks, NEW m, NEW e, NEW L,
           Hears(s, d, m, e, L), Listens(s, d, m, e, L)
    PROVE  Inv'
<1>0. net \in Channels /\ 0 \in Ranks /\ s # 0 /\ s # d /\ m.type = "hb" /\ m = Head(net[s][d])
    BY RanksAre DEF Inv, Types, Hears, Listens
<1>1. IsTaken(net, s, d, net')
    <2>1. net[s][d] # <<>> /\ net' = Taken(net, s, d)
        BY DEF Hears, Listens
    <2> QED
        BY <1>0, <2>1, TakenIs
<1>2. /\ Types' /\ Account' /\ Failures' /\ ~Quiet
      /\ beat_epoch'[d] = e /\ \A r \in Ranks : r # d => beat_epoch'[r] = beat_epoch[r]
      /\ mds_load'[d] = L /\ \A r \in Ranks : r # d => mds_load'[r] = mds_load[r]
    BY <1>1, HearsTypes DEF IsTaken
<1>3. PICK q : q = net[s][d]
    OBVIOUS
<1>4. PICK p : p = Tail(q)
    OBVIOUS
<1>5. /\ net'[s][d] = p
      /\ \A x, y \in Ranks : x # s \/ y # d => net'[x][y] = net[x][y]
    BY <1>1, <1>3, <1>4 DEF IsTaken
<1>6. /\ Has(q, "if") => Has(p, "if")
      /\ \A t : Has(p, t) => Has(q, t)
      /\ \A x : OfEpoch(q, x) => OfEpoch(p, x) /\ m.beat = x
      /\ \A x : OfLoad(q, x) => OfLoad(p, x) /\ m.load.req = x
    <2>1. q \in Seq(Beat) /\ q # <<>> /\ m = Head(q)
        BY <1>0, <1>3 DEF Channels, Hears
    <2> QED
        BY <1>0, <1>4, <2>1, FirstTaken
<1>7. UNCHANGED <<down, requests, old_req, orders, h>>
    BY DEF Hears
<1>8. NoSelf'
    BY <1>0, <1>5 DEF Inv, Traffic, NoSelf
<1>9. Right'
    <2> SUFFICES ASSUME NEW r \in Ranks, Trusted(r)
                 PROVE  RightFor(net', mds_load'[0], ToInt(requests[r]), r)
        BY <1>7 DEF Right, Trusted, Calm
    <2>1. OfLoad(net[r][0], ToInt(requests[r])) /\ (r \in DOMAIN mds_load[0] => mds_load[0][r].req = ToInt(requests[r]))
        BY <1>2 DEF Inv, Traffic, Right, RightFor
    <2>2. OfLoad(net'[r][0], ToInt(requests[r]))
        BY <1>0, <1>3, <1>5, <1>6, <2>1
    <2>3. r \in DOMAIN mds_load'[0] => mds_load'[0][r].req = ToInt(requests[r])
        <3>1. CASE d # 0
            BY <1>0, <1>2, <2>1, <3>1
        <3>2. CASE d = 0
            <4>1. Adds(mds_load[0], s, m.load, L) /\ mds_load'[0] = L
                BY <1>2, <3>2 DEF Listens
            <4>2. r = s => m.load.req = ToInt(requests[r])
                BY <1>3, <1>6, <2>1, <3>2
            <4> QED
                BY <2>1, <4>1, <4>2 DEF Adds
        <3> QED
            BY <3>1, <3>2
    <2> QED
        BY <2>2, <2>3 DEF RightFor
<1>10. Round'
    <2> SUFFICES ASSUME Calm, beat_epoch'[0] > 0
                 PROVE  /\ InEpoch(net', beat_epoch', mds_load'[0])
                        /\ (\A r \in Ranks \ {0} : ~Pending(net', r)) => h.computed = 1
        BY <1>7 DEF Round, Calm
    <2>1. beat_epoch'[0] = beat_epoch[0]
        BY <1>0, <1>2 DEF Listens
    <2>2. /\ InEpoch(net, beat_epoch, mds_load[0])
          /\ (\A r \in Ranks \ {0} : ~Pending(net, r)) => h.computed = 1
        BY <2>1 DEF Inv, Traffic, Round
    <2>3. m.beat = beat_epoch[0]
        BY <1>3, <1>6, <2>2 DEF InEpoch
    <2>4. \A x, y \in Ranks : OfEpoch(net'[x][y], beat_epoch[0])
        BY <1>3, <1>5, <1>6, <2>2 DEF InEpoch
    <2>5. \A r \in Ranks : net'[0][r] = net[0][r]
        BY <1>0, <1>5
    <2>6. \A r \in Ranks : Has(net[r][0], "if") => Has(net'[r][0], "if")
        BY <1>0, <1>3, <1>5, <1>6
    <2>7. \A r \in Ranks : Pending(net, r) => Pending(net', r)
        BY <2>5, <2>6 DEF Pending
    <2>8. \A r \in Ranks : beat_epoch[r] = beat_epoch[0] => beat_epoch'[r] = beat_epoch[0]
        BY <1>2, <2>3 DEF Listens
    <2>9. DOMAIN mds_load[0] \subseteq DOMAIN mds_load'[0]
        BY <1>0, <1>2 DEF Listens, Adds
    <2>10. InEpoch(net', beat_epoch', mds_load'[0])
        BY <2>1, <2>2, <2>4, <2>5, <2>7, <2>8, <2>9 DEF InEpoch
    <2> QED
        BY <2>2, <2>7, <2>10
<1> QED
    BY <1>2, <1>8, <1>9, <1>10 DEF Inv, Traffic

LEMMA RepliesInv ==
    ASSUME Inv, NEW s \in Ranks, NEW d \in Ranks, NEW m, NEW e, NEW L,
           Hears(s, d, m, e, L), Replies(s, d, m, e)
    PROVE  Inv'
<1>0. /\ net \in Channels /\ 0 \in Ranks /\ s = 0 /\ d # 0 /\ e = m.beat /\ e \in Nat
      /\ net[0][d] # <<>> /\ m = Head(net[0][d]) /\ requests[d] \in Nat
    BY RanksAre DEF Inv, Types, Hears, Replies
<1>1. LoadOf(d, e) \in Load /\ LoadOf(d, e).req = ToInt(requests[d])
    BY <1>0, LoadOfIs
<1>2. PICK hb : hb = Heartbeat(e, LoadOf(d, e))
    OBVIOUS
<1>3. hb \in Beat /\ hb.type = "hb" /\ hb.beat = e /\ hb.load = LoadOf(d, e)
    BY <1>0, <1>1, <1>2, HeartbeatIs
<1>4. PICK ib : ib = IFBeat(e, LoadOf(d, e), FALSE, <<>>)
    OBVIOUS
<1>5. ib \in Beat /\ ib.type = "if" /\ ib.beat = e /\ ib.load = LoadOf(d, e)
    <2>1. ib \in Beat
        <3>1. <<>> \in Seq(Shares)
            OBVIOUS
        <3> QED
            BY <1>0, <1>1, <1>4, <3>1, Zenon DEF IFBeat, Beat
    <2>2. ib.type = "if" /\ ib.beat = e /\ ib.load = LoadOf(d, e)
        BY <1>4 DEF IFBeat
    <2> QED
        BY <2>1, <2>2
<1>6. PICK n : n = net'
    OBVIOUS
<1>7. IsAnswered(net, d, hb, ib, n)
    <2>1. n = Send(Scatter(Taken(net, 0, d), d, hb), d, 0, ib)
        BY <1>2, <1>4, <1>6 DEF Replies
    <2> QED
        BY <1>0, <1>3, <1>5, <2>1, AnswerIs
<1>8. /\ Types' /\ Account' /\ Failures' /\ ~Quiet
      /\ beat_epoch'[d] = e /\ \A r \in Ranks : r # d => beat_epoch'[r] = beat_epoch[r]
      /\ \A r \in Ranks : r # d => mds_load'[r] = mds_load[r]
    BY <1>6, <1>7, HearsTypes DEF IsAnswered
<1>9. UNCHANGED <<down, requests, old_req, orders, h>>
    BY DEF Hears
<1>10. \A x, y \in Ranks : net[x][y] \in Seq(Beat)
    BY <1>0 DEF Channels
<1>11. NoSelf'
    <2> SUFFICES ASSUME NEW r \in Ranks PROVE n[r][r] = <<>>
        BY <1>6 DEF NoSelf
    <2>1. net[r][r] = <<>>
        BY DEF Inv, Traffic, NoSelf
    <2> QED
        BY <1>7, <1>0, <2>1 DEF IsAnswered
<1>12. PICK a : a = Append(net[d][0], hb)
    OBVIOUS
<1>13. n[d][0] = Append(a, ib)
    BY <1>7, <1>12 DEF IsAnswered
<1>14. a \in Seq(Beat)
    BY <1>0, <1>3, <1>10, <1>12, LastAdded
<1>15. Right'
    <2> SUFFICES ASSUME NEW r \in Ranks, Trusted(r)
                 PROVE  RightFor(n, mds_load[0], ToInt(requests[r]), r)
        BY <1>0, <1>6, <1>8, <1>9 DEF Right, Trusted, Calm
    <2>1. OfLoad(net[r][0], ToInt(requests[r])) /\ (r \in DOMAIN mds_load[0] => mds_load[0][r].req = ToInt(requests[r]))
        BY <1>8 DEF Inv, Traffic, Right, RightFor
    <2>2. CASE r # d
        BY <1>0, <1>7, <2>1, <2>2 DEF IsAnswered, RightFor
    <2>3. CASE r = d
        <3>1. OfLoad(a, ToInt(requests[d]))
            BY <1>0, <1>1, <1>3, <1>10, <1>12, <2>1, <2>3, LastAdded
        <3>2. OfLoad(n[d][0], ToInt(requests[d]))
            BY <1>1, <1>5, <1>13, <1>14, <3>1, LastAdded
        <3> QED
            BY <2>1, <2>3, <3>2 DEF RightFor
    <2> QED
        BY <2>2, <2>3
<1>16. Round'
    <2> SUFFICES ASSUME Calm, beat_epoch[0] > 0
                 PROVE  InEpoch(n, beat_epoch', mds_load[0]) /\ Pending(n, d)
        BY <1>0, <1>6, <1>8, <1>9 DEF Round, Calm
    <2>1. InEpoch(net, beat_epoch, mds_load[0])
        BY DEF Inv, Traffic, Round
    <2>2. e = beat_epoch[0] /\ OfEpoch(n[0][d], e)
        <3>1. PICK q : q = net[0][d]
            OBVIOUS
        <3>2. q \in Seq(Beat) /\ q # <<>> /\ OfEpoch(q, beat_epoch[0]) /\ Head(q) = m
            BY <1>0, <1>10, <2>1, <3>1 DEF InEpoch
        <3>3. OfEpoch(Tail(q), beat_epoch[0]) /\ m.beat = beat_epoch[0]
            BY <3>2, FirstTaken
        <3> QED
            BY <1>0, <1>7, <3>1, <3>3 DEF IsAnswered
    <2>3. OfEpoch(a, e)
        BY <1>0, <1>3, <1>10, <1>12, <2>1, <2>2, LastAdded DEF InEpoch
    <2>4. OfEpoch(n[d][0], e) /\ Has(n[d][0], "if")
        BY <1>5, <1>13, <1>14, <2>3, LastAdded
    <2>5. ASSUME NEW y \in Ranks, y # 0, y # d
          PROVE  OfEpoch(n[d][y], e)
        <3>1. n[d][y] = Append(net[d][y], hb) /\ OfEpoch(net[d][y], e) /\ net[d][y] \in Seq(Beat)
            BY <1>7, <1>10, <2>1, <2>2, <2>5 DEF IsAnswered, InEpoch
        <3> QED
            BY <1>3, <3>1, LastAdded
    <2>6. \A x, y \in Ranks : OfEpoch(n[x][y], e)
        BY <1>0, <1>7, <2>1, <2>2, <2>4, <2>5 DEF IsAnswered, InEpoch
    <2>7. Pending(n, d)
        BY <2>4 DEF Pending
    <2>8. \A r \in Ranks : r # 0 /\ r # d => n[0][r] = net[0][r] /\ n[r][0] = net[r][0]
        BY <1>0, <1>7 DEF IsAnswered
    <2>9. beat_epoch'[0] = e /\ beat_epoch'[d] = e
        BY <1>0, <1>8, <2>2
    <2>10. ASSUME NEW r \in Ranks \ {0}
           PROVE  /\ Has(n[0][r], "hb") \/ beat_epoch'[r] = beat_epoch'[0]
                  /\ Pending(n, r) \/ r \in DOMAIN mds_load[0]
        <3>1. CASE r = d
            BY <2>7, <2>9, <3>1
        <3>2. CASE r # d
            <4>1. beat_epoch'[r] = beat_epoch[r] /\ n[0][r] = net[0][r] /\ n[r][0] = net[r][0]
                BY <1>8, <2>8, <3>2
            <4> QED
                BY <2>1, <2>2, <2>9, <4>1 DEF InEpoch, Pending
        <3> QED
            BY <3>1, <3>2
    <2> QED
        BY <2>1, <2>6, <2>7, <2>9, <2>10 DEF InEpoch
<1> QED
    BY <1>8, <1>11, <1>15, <1>16 DEF Inv, Traffic

LEMMA HandleHeartbeatInv ==
    ASSUME Inv, NEW s \in Ranks, NEW d \in Ranks, HandleHeartbeat(s, d)
    PROVE  Inv'
    BY HeartbeatSteps, ListensInv, RepliesInv


-----------------------------------------------------------------------------
(* A beat is taken, and nothing comes of it for rank 0.                    *)
LEMMA TakenRight ==
    ASSUME Inv, NEW s \in Ranks, NEW d \in Ranks, net[s][d] # <<>>, net' = Taken(net, s, d),
           UNCHANGED <<requests, h>>
    PROVE  /\ IsTaken(net, s, d, net') /\ net' \in Channels /\ NoSelf' /\ ~Quiet
           /\ \A r \in Ranks : Trusted(r) => OfLoad(net'[r][0], ToInt(requests[r]))
           /\ mds_load'[0] = mds_load[0] => Right'
<1>0. net \in Channels /\ 0 \in Ranks
    BY RanksAre DEF Inv, Types
<1>1. IsTaken(net, s, d, net')
    BY <1>0, TakenIs
<1>2. PICK q : q = net[s][d]
    OBVIOUS
<1>3. \A x : OfLoad(q, x) => OfLoad(Tail(q), x)
    <2>1. q \in Seq(Beat) /\ q # <<>>
        BY <1>0, <1>2 DEF Channels
    <2> QED
        BY <2>1, FirstTaken
<1>4. s # d /\ NoSelf'
    BY <1>1 DEF Inv, Traffic, NoSelf, IsTaken
<1>5. ~Quiet
    BY DEF Quiet
<1>6. ASSUME NEW r \in Ranks, Trusted(r)
      PROVE  OfLoad(net'[r][0], ToInt(requests[r]))
    <2>1. OfLoad(net[r][0], ToInt(requests[r]))
        BY <1>5, <1>6 DEF Inv, Traffic, Right, RightFor
    <2> QED
        BY <1>0, <1>1, <1>2, <1>3, <2>1 DEF IsTaken
<1>7. ASSUME mds_load'[0] = mds_load[0]
      PROVE  Right'
    BY <1>5, <1>6, <1>7 DEF Inv, Traffic, Right, RightFor, Trusted, Calm
<1> QED
    BY <1>1, <1>4, <1>5, <1>6, <1>7 DEF IsTaken

LEMMA IgnoreBeatInv == Inv /\ IgnoreBeat => Inv'
<1> SUFFICES ASSUME Inv, IgnoreBeat PROVE Inv'
    OBVIOUS
<1>1. PICK s \in Ranks, d \in Ranks : net[s][d] # <<>> /\ net' = Taken(net, s, d)
    BY DEF IgnoreBeat, Received, Taken
<1>2. UNCHANGED <<down, requests, beat_epoch, mds_load, old_req, orders, h>> /\ ~Calm
    BY DEF IgnoreBeat, Inv, Traffic, Failures, Degraded
<1>3. net' \in Channels /\ NoSelf' /\ Right'
    BY <1>1, <1>2, TakenRight
<1>4. Types'
    BY <1>2, <1>3 DEF Inv, Types
<1>5. Account'
    BY <1>2, AccountKept DEF Inv
<1>6. Failures' /\ Round'
    BY <1>2 DEF Failures, Round, Calm
<1> QED
    BY <1>3, <1>4, <1>5, <1>6 DEF Inv, Traffic

(* handle_ifbeat at a rank that is told to export.                         *)
LEMMA HandleIfbeatInv ==
    ASSUME Inv, NEW d \in Ranks, HandleIfbeat(d)
    PROVE  Inv'
<1>0. 0 \in Ranks /\ net \in Channels
    BY RanksAre DEF Inv, Types
<1>1. /\ net[0][d] # <<>> /\ Head(net[0][d]).type = "if" /\ net' = Taken(net, 0, d) /\ d # 0
      /\ orders' = [orders EXCEPT ![d] = Head(net[0][d]).dec]
      /\ UNCHANGED <<down, requests, beat_epoch, mds_load, old_req, h>>
    BY DEF HandleIfbeat, Receives, Received, Taken
<1>2. net' \in Channels /\ NoSelf' /\ Right' /\ IsTaken(net, 0, d, net')
    BY <1>0, <1>1, TakenRight
<1>3. PICK q : q = net[0][d]
    OBVIOUS
<1>4. q \in Seq(Beat) /\ q # <<>> /\ Head(q).type = "if" /\ net'[0][d] = Tail(q)
    BY <1>0, <1>1, <1>2, <1>3 DEF Channels, IsTaken
<1>5. /\ Head(q).dec \in Seq(Shares)
      /\ Has(q, "hb") => Has(Tail(q), "hb")
      /\ Has(Tail(q), "hb") => Has(q, "hb")
      /\ \A x : OfEpoch(q, x) => OfEpoch(Tail(q), x)
    <2>1. Head(q) \in Beat
        BY <1>4, FirstTaken
    <2> QED
        BY <1>4, <2>1, FirstTaken, DecisionOf
<1>6. Types'
    BY <1>1, <1>2, <1>3, <1>5 DEF Inv, Types
<1>7. Account' /\ Failures'
    BY <1>1, AccountKept DEF Inv, Traffic, Failures, Calm
<1>8. Round'
    <2>1. \A r \in Ranks : Has(net'[0][r], "hb") <=> Has(net[0][r], "hb")
        BY <1>0, <1>2, <1>3, <1>4, <1>5 DEF IsTaken
    <2>2. \A r \in Ranks : net'[r][0] = net[r][0]
        BY <1>0, <1>1, <1>2 DEF IsTaken
    <2>3. \A r \in Ranks : Pending(net', r) <=> Pending(net, r)
        BY <2>1, <2>2 DEF Pending
    <2>4. \A x, y \in Ranks : OfEpoch(net[x][y], beat_epoch[0]) => OfEpoch(net'[x][y], beat_epoch[0])
        BY <1>2, <1>3, <1>4, <1>5 DEF IsTaken
    <2>5. InEpoch(net, beat_epoch, mds_load[0]) => InEpoch(net', beat_epoch, mds_load[0])
        BY <2>1, <2>3, <2>4 DEF InEpoch
    <2> QED
        BY <1>1, <2>3, <2>5 DEF Inv, Traffic, Round, Calm
<1> QED
    BY <1>2, <1>6, <1>7, <1>8 DEF Inv, Traffic

LEMMA RecoverInv ==
    ASSUME Inv, NEW r \in Ranks, Recover(r)
    PROVE  Inv'
<1>1. UNCHANGED <<requests, beat_epoch, mds_load, old_req, net, orders, h>> /\ down' \subseteq down
    BY DEF Recover
<1>2. Types'
    BY <1>1 DEF Inv, Types
<1>3. Account'
    BY <1>1, AccountKept DEF Inv
<1>4. Traffic'
    BY <1>1 DEF Inv, Traffic, NoSelf, Failures, Right, Round, Quiet, Trusted, Calm
<1> QED
    BY <1>2, <1>3, <1>4 DEF Inv

LEMMA StutterInv == Inv /\ UNCHANGED vars => Inv'
<1> SUFFICES ASSUME Inv, UNCHANGED vars PROVE Inv'
    OBVIOUS
<1>1. UNCHANGED <<down, requests, beat_epoch, mds_load, old_req, net, orders, h>>
    BY DEF vars
<1>2. Types'
    BY <1>1 DEF Inv, Types
<1>3. Account'
    BY <1>1, AccountKept DEF Inv
<1>4. Traffic'
    BY <1>1 DEF Inv, Traffic, NoSelf, Failures, Right, Round, Quiet, Trusted, Calm
<1> QED
    BY <1>2, <1>3, <1>4 DEF Inv


-----------------------------------------------------------------------------
(* A process dies.  The epoch is not calm any more, and its rank suspect.  *)
LEMMA FailHistory ==
    ASSUME Inv, NEW r \in Ranks, Fail(r)
    PROVE  /\ Fields' /\ ~Calm'
           /\ h'.base = [h.base EXCEPT ![r] = 0] /\ h'.suspect = h.suspect \cup {r}
           /\ h'.computed = h.computed /\ h'.given = h.given
           /\ h'.known = h.known /\ h'.x = h.x /\ h'.from = h.from /\ h'.since = h.since
           /\ h'.doubted = h.doubted /\ h'.dec = h.dec
<1> DEFINE X == [h.base EXCEPT ![r] = 0]
           Y == h.suspect \cup {r}
<1>1. Fields
    BY DEF Inv, Account, History
<1>2. h' = [h EXCEPT !.troubled = TRUE, !.base = X, !.suspect = Y]
    BY DEF Fail
<1> HIDE DEF X, Y
<1>3. h' = [base |-> X, suspect |-> Y, troubled |-> TRUE, computed |-> h.computed,
            given |-> h.given, known |-> h.known, x |-> h.x, from |-> h.from, since |-> h.since,
            doubted |-> h.doubted, dec |-> h.dec]
    BY <1>1, <1>2 DEF Fields
<1> QED
    BY <1>3 DEF Fields, Calm, X, Y

LEMMA FailInv ==
    ASSUME Inv, NEW r \in Ranks, Fail(r)
    PROVE  Inv'
<1>0. 0 \in Ranks /\ net \in Channels
    BY RanksAre DEF Inv, Types
<1>1. /\ Fields' /\ ~Calm'
      /\ h'.base = [h.base EXCEPT ![r] = 0] /\ h'.suspect = h.suspect \cup {r}
      /\ h'.computed = h.computed /\ h'.given = h.given
      /\ h'.known = h.known /\ h'.x = h.x /\ h'.from = h.from /\ h'.since = h.since
      /\ h'.doubted = h.doubted /\ h'.dec = h.dec
    BY FailHistory
<1>2. /\ requests' = [requests EXCEPT ![r] = 0]
      /\ beat_epoch' = [beat_epoch EXCEPT ![r] = 0]
      /\ mds_load' = [mds_load EXCEPT ![r] = <<>>]
      /\ old_req' = IF r = 0 THEN <<>> ELSE old_req
      /\ orders' = [orders EXCEPT ![r] = <<>>]
      /\ down' = down \cup {r}
      /\ net' = [s \in Ranks |-> [d \in Ranks |-> IF r \in {s, d} THEN <<>> ELSE net[s][d]]]
    BY DEF Fail
<1>3. /\ net' \in Channels
      /\ \A x, y \in Ranks : net'[x][y] = <<>> \/ net'[x][y] = net[x][y]
    BY <1>0, <1>2 DEF Channels
<1>4. Types'
    <2>1. /\ mds_load' = [x \in Ranks |-> mds_load'[x]] /\ mds_load'[r] = <<>>
          /\ \A x \in Ranks : x # r => mds_load'[x] = mds_load[x]
        BY <1>2 DEF Inv, Types
    <2>2. \A x \in Ranks : Loads(mds_load'[x])
        BY <2>1, NoLoads DEF Inv, Types
    <2>3. old_req' \in [DOMAIN old_req' -> Int] /\ (DOMAIN old_req' = {} \/ DOMAIN old_req' = Ranks)
        <3>1. CASE r = 0
            <4>1. PICK none : none = <<>>
                OBVIOUS
            <4>2. DOMAIN none = {} /\ none \in [{} -> Int]
                BY <4>1
            <4> QED
                BY <1>2, <3>1, <4>1, <4>2
        <3>2. CASE r # 0
            BY <1>2, <3>2 DEF Inv, Types
        <3> QED
            BY <3>1, <3>2
    <2>4. /\ requests' \in [Ranks -> Nat] /\ beat_epoch' \in [Ranks -> Nat]
          /\ orders' \in [Ranks -> Seq(Shares)] /\ down' \subseteq Ranks
        BY <1>2 DEF Inv, Types
    <2> QED
        BY <1>3, <2>1, <2>2, <2>3, <2>4 DEF Types
<1>5. Account'
    <2>1. History'
        BY <1>1 DEF Inv, Account, History
    <2>2. Based'
        BY <1>1, <1>2 DEF Inv, Account, History, Based
    <2>3. Once'
        BY <1>1 DEF Once
    <2>4. RealLoads' /\ OrdersFollowLoad'
        BY <1>1 DEF Inv, Account, RealLoads, OrdersFollowLoad, NoWrap
    <2> QED
        BY <2>1, <2>2, <2>3, <2>4 DEF Account
<1>6. NoSelf' /\ Failures' /\ Round'
    BY <1>1, <1>3 DEF Inv, Traffic, NoSelf, Failures, Round
<1>7. Right'
    <2> SUFFICES ASSUME ~Quiet', NEW x \in Ranks, x \notin h'.suspect
                 PROVE  RightFor(net', mds_load'[0], ToInt(requests'[x]), x)
        BY <1>1 DEF Right, Trusted
    <2>1. ~Quiet
        BY <1>3 DEF Quiet
    <2>2. x # r /\ Trusted(x) /\ requests'[x] = requests[x]
        BY <1>1, <1>2 DEF Trusted, Inv, Types
    <2>3. RightFor(net, mds_load[0], ToInt(requests[x]), x)
        BY <2>1, <2>2 DEF Inv, Traffic, Right
    <2>4. OfLoad(net'[x][0], ToInt(requests[x]))
        BY <1>0, <1>3, <2>3, NothingOnTheWay DEF RightFor
    <2>5. mds_load'[0] = <<>> \/ mds_load'[0] = mds_load[0]
        BY <1>0, <1>2 DEF Inv, Types
    <2> QED
        BY <2>2, <2>3, <2>4, <2>5 DEF RightFor
<1> QED
    BY <1>4, <1>5, <1>6, <1>7 DEF Inv, Traffic

-----------------------------------------------------------------------------
(* A new epoch.                                                            *)
LEMMA NewRoundIs ==
    ASSUME NEW base \in [Ranks -> Nat], NEW suspect \in SUBSET Ranks, NEW b, h' = NewRound(base, suspect, b)
    PROVE  /\ History' /\ h'.troubled = b /\ h'.base = base /\ h'.suspect = suspect
           /\ h'.computed = 0 /\ \A r \in Ranks : h'.given[r] = 0
           /\ RealLoads' /\ OrdersFollowLoad'
<1>1. Zero \in [Ranks -> Nat] /\ \A r \in Ranks : Zero[r] = 0
    BY DEF Zero
<1>2. /\ h'.base = base /\ h'.suspect = suspect /\ h'.troubled = b /\ h'.computed = 0
      /\ h'.given = Zero /\ h'.known = {} /\ h'.dec = <<>>
    BY DEF NewRound
<1>3. Fields'
    BY DEF NewRound, Fields
<1>4. RealLoads' /\ OrdersFollowLoad'
    BY <1>2 DEF RealLoads, OrdersFollowLoad
<1> QED
    BY <1>1, <1>2, <1>3, <1>4 DEF History


(* The heartbeat that opens an epoch when nothing is on its way.           *)
LEMMA OpenedIs ==
    ASSUME NEW n \in Channels, \A s, d \in Ranks : n[s][d] = <<>>, NEW b \in Beat, b.type = "hb",
           NEW m, m = Scatter(n, 0, b)
    PROVE  /\ m \in Channels /\ \A r \in Ranks : m[r][r] = <<>> /\ m[r][0] = <<>>
           /\ \A r \in Ranks \ {0} : Has(m[0][r], "hb")
           /\ \A s, d \in Ranks : OfEpoch(m[s][d], b.beat)
<1>0. 0 \in Ranks
    BY RanksAre
<1>1. IsScattered(n, 0, b, m)
    BY <1>0, ScatterIs
<1>2. PICK none : none = <<>>
    OBVIOUS
<1>3. PICK one : one = Append(none, b)
    OBVIOUS
<1>4. none \in Seq(Beat) /\ OfEpoch(none, b.beat)
    BY <1>2, NothingOnTheWay
<1>5. Has(one, "hb") /\ OfEpoch(one, b.beat)
    BY <1>3, <1>4, LastAdded
<1>6. /\ \A x, y \in Ranks : x # 0 => m[x][y] = none
      /\ m[0][0] = none /\ \A y \in Ranks : y # 0 => m[0][y] = one
    BY <1>0, <1>1, <1>2, <1>3 DEF IsScattered
<1> QED
    BY <1>0, <1>1, <1>2, <1>4, <1>5, <1>6 DEF IsScattered

LEMMA TickInv == Inv /\ Tick => Inv'
<1> SUFFICES ASSUME Inv, Tick PROVE Inv'
    OBVIOUS
<1>0. 0 \in Ranks /\ net \in Channels /\ Profiles \subseteq [Ranks -> Nat]
    BY RanksAre, BalancerAssumption DEF Inv, Types
<1>1. PICK served \in Profiles :
        /\ requests' = [r \in Ranks |-> IF r \in down THEN 0 ELSE requests[r] + served[r]]
        /\ IF Degraded
           THEN /\ h' = IF Quiet THEN h ELSE [h EXCEPT !.suspect = Ranks, !.troubled = TRUE]
                /\ UNCHANGED <<beat_epoch, mds_load, net>>
           ELSE SendHeartbeat0(requests')
    BY DEF Tick
<1>2. UNCHANGED <<down, old_req, orders>>
    BY DEF Tick
<1>3. requests' \in [Ranks -> Nat]
    <2>1. served \in [Ranks -> Nat] /\ requests \in [Ranks -> Nat]
        BY <1>0 DEF Inv, Types
    <2> QED
        BY <1>1, <2>1
<1>4. CASE Degraded /\ Quiet
    <2>1. UNCHANGED <<h, beat_epoch, mds_load, net>> /\ ~Calm
        BY <1>1, <1>4 DEF Inv, Traffic, Failures, Degraded
    <2>2. Types'
        BY <1>2, <1>3, <2>1 DEF Inv, Types
    <2>3. Account'
        BY <1>2, <2>1 DEF Inv, Account, History, Fields, Based, Once, RealLoads, OrdersFollowLoad, NoWrap, Calm
    <2>4. Traffic'
        BY <1>2, <1>4, <2>1 DEF Inv, Traffic, NoSelf, Failures, Right, Round, Quiet, Calm
    <2> QED
        BY <2>2, <2>3, <2>4 DEF Inv
<1>5. CASE Degraded /\ ~Quiet
    <2>1. h' = [h EXCEPT !.suspect = Ranks, !.troubled = TRUE] /\ UNCHANGED <<beat_epoch, mds_load, net>>
        BY <1>1, <1>5
    <2>2. Fields
        BY DEF Inv, Account, History
    <2>3. h' = [base |-> h.base, suspect |-> Ranks, troubled |-> TRUE, computed |-> h.computed,
                given |-> h.given, known |-> h.known, x |-> h.x, from |-> h.from, since |-> h.since,
                doubted |-> h.doubted, dec |-> h.dec]
        BY <2>1, <2>2 DEF Fields
    <2>4. /\ Fields' /\ ~Calm' /\ h'.suspect = Ranks
          /\ h'.base = h.base /\ h'.computed = h.computed /\ h'.given = h.given
          /\ h'.known = h.known /\ h'.x = h.x /\ h'.from = h.from /\ h'.since = h.since
          /\ h'.doubted = h.doubted /\ h'.dec = h.dec
        BY <2>3 DEF Fields, Calm
    <2>5. Types'
        BY <1>2, <1>3, <2>1 DEF Inv, Types
    <2>6. History' /\ Once'
        BY <2>4 DEF Inv, Account, History, Once
    <2>7. Based'
        BY <1>2, <2>4 DEF Inv, Types, Based
    <2>8. RealLoads' /\ OrdersFollowLoad'
        BY <2>4 DEF Inv, Account, RealLoads, OrdersFollowLoad, NoWrap
    <2>9. Traffic'
        BY <2>1, <2>4 DEF Inv, Traffic, NoSelf, Failures, Right, Trusted, Round
    <2> QED
        BY <2>5, <2>6, <2>7, <2>8, <2>9 DEF Inv, Account
<1>6. CASE ~Degraded
    <2> DEFINE e == beat_epoch[0] + 1
               load == [req |-> ToInt(requests'[0]), epoch |-> e]
               b == Heartbeat(e, load)
    <2>1. /\ beat_epoch' = [beat_epoch EXCEPT ![0] = e]
          /\ mds_load' = [mds_load EXCEPT ![0] = ClearedLoads(load)]
          /\ net' = Scatter(net, 0, b)
          /\ h' = IF Quiet THEN NewRound(h.base, h.suspect, FALSE) ELSE NewRound(h.base, Ranks, TRUE)
        BY <1>1, <1>6 DEF SendHeartbeat0
    <2>2. e \in Nat /\ load \in Load /\ load.req = ToInt(requests'[0])
        BY <1>0, <1>3, ToIntIs DEF Inv, Types, Load
    <2> HIDE DEF e, load
    <2>3. b \in Beat /\ b.type = "hb" /\ b.beat = e
        BY <2>2, HeartbeatIs
    <2> HIDE DEF b
    <2>4. PICK L : L = ClearedLoads(load)
        OBVIOUS
    <2>5. Loads(L) /\ DOMAIN L = {0} /\ L[0] = load
        <3>1. PICK none : none = <<>>
            OBVIOUS
        <3>2. Loads(none) /\ DOMAIN none = {}
            BY <3>1, NoLoads
        <3>3. L = Insert(none, 0, load)
            BY <2>4, <3>1 DEF ClearedLoads
        <3>4. PICK l : l = load
            OBVIOUS
        <3>5. l \in Load
            BY <2>2, <3>4
        <3>6. Loads(Insert(none, 0, l)) /\ DOMAIN Insert(none, 0, l) = {0} /\ Insert(none, 0, l)[0] = l
            BY <1>0, <3>2, <3>5, InsertLoad
        <3> QED
            BY <3>3, <3>4, <3>6
    <2>6. /\ mds_load' = [r \in Ranks |-> mds_load'[r]] /\ mds_load'[0] = L
          /\ \A r \in Ranks : r # 0 => mds_load'[r] = mds_load[r]
        BY <1>0, <2>1, <2>4 DEF Inv, Types
    <2>7. \A r \in Ranks : Loads(mds_load'[r])
        BY <2>5, <2>6 DEF Inv, Types
    <2>8. IsScattered(net, 0, b, net')
        BY <1>0, <2>1, <2>3, ScatterIs
    <2>9. net' \in Channels /\ NoSelf'
        BY <1>0, <2>8 DEF IsScattered, NoSelf, Inv, Traffic
    <2>10. beat_epoch' \in [Ranks -> Nat] /\ beat_epoch'[0] = e
        BY <1>0, <2>1, <2>2 DEF Inv, Types
    <2>11. Types'
        BY <1>2, <1>3, <2>6, <2>7, <2>9, <2>10 DEF Inv, Types
    <2>12. Failures'
        BY <1>2, <1>6 DEF Failures, Degraded
    <2>13. h.base \in [Ranks -> Nat] /\ h.suspect \in SUBSET Ranks
        BY DEF Inv, Account, History
    <2>14. CASE Quiet
        <3>1. /\ History' /\ h'.troubled = FALSE /\ h'.base = h.base /\ h'.suspect = h.suspect
              /\ h'.computed = 0 /\ \A r \in Ranks : h'.given[r] = 0
              /\ RealLoads' /\ OrdersFollowLoad'
            BY <2>1, <2>13, <2>14, NewRoundIs
        <3>2. Based' /\ Once'
            BY <1>2, <3>1 DEF Inv, Account, Based, Once
        <3>3. PICK m : m = net'
            OBVIOUS
        <3>4. /\ \A r \in Ranks : m[r][0] = <<>>
              /\ \A r \in Ranks \ {0} : Has(m[0][r], "hb")
              /\ \A s, d \in Ranks : OfEpoch(m[s][d], e)
            BY <1>0, <2>1, <2>3, <2>14, <3>3, OpenedIs DEF Quiet
        <3>5. Right'
            <4> SUFFICES ASSUME NEW r \in Ranks PROVE RightFor(m, L, ToInt(requests'[r]), r)
                BY <2>6, <3>3 DEF Right
            <4>1. OfLoad(m[r][0], ToInt(requests'[r]))
                BY <3>4, NothingOnTheWay
            <4> QED
                BY <2>2, <2>5, <4>1 DEF RightFor
        <3>6. Round'
            <4>1. InEpoch(m, beat_epoch', L)
                BY <2>5, <2>10, <3>4 DEF InEpoch, Pending
            <4>2. Pending(m, 1) /\ 1 \in Ranks \ {0}
                BY <3>4, RanksAre DEF Pending
            <4> QED
                BY <2>6, <3>3, <4>1, <4>2 DEF Round
        <3> QED
            BY <2>9, <2>11, <2>12, <3>1, <3>2, <3>5, <3>6 DEF Inv, Account, Traffic
    <2>15. CASE ~Quiet
        <3>1. /\ History' /\ h'.troubled = TRUE /\ h'.suspect = Ranks
              /\ RealLoads' /\ OrdersFollowLoad'
            BY <2>1, <2>13, <2>15, NewRoundIs
        <3>2. ~Calm'
            BY <3>1 DEF Calm
        <3>3. Based' /\ Once' /\ Right' /\ Round'
            BY <1>2, <3>1, <3>2 DEF Inv, Types, Based, Once, Right, Trusted, Round
        <3> QED
            BY <2>9, <2>11, <2>12, <3>1, <3>3 DEF Inv, Account, Traffic
    <2> QED
        BY <2>14, <2>15
<1> QED
    BY <1>4, <1>5, <1>6


-----------------------------------------------------------------------------
(* handle_ifbeat at rank 0.  A beat of another epoch: not in a calm one.   *)
LEMMA StaleIfbeatInv ==
    ASSUME Inv, NEW s \in Ranks, net[s][0] # <<>>, Head(net[s][0]).beat # beat_epoch[0],
           net' = Taken(net, s, 0),
           UNCHANGED <<down, requests, beat_epoch, mds_load, old_req, orders, h>>
    PROVE  Inv'
<1>0. 0 \in Ranks /\ net \in Channels
    BY RanksAre DEF Inv, Types
<1>1. net' \in Channels /\ NoSelf' /\ Right'
    BY <1>0, TakenRight
<1>2. Types'
    BY <1>1 DEF Inv, Types
<1>3. Account' /\ Failures'
    BY AccountKept DEF Inv, Traffic, Failures, Calm
<1>4. Round'
    <2> SUFFICES ASSUME Calm, beat_epoch[0] > 0 PROVE FALSE
        BY DEF Round, Calm
    <2>1. PICK q : q = net[s][0]
        OBVIOUS
    <2>2. OfEpoch(q, beat_epoch[0]) /\ q \in Seq(Beat) /\ q # <<>>
        BY <1>0, <2>1 DEF Inv, Traffic, Round, InEpoch, Channels
    <2>3. Head(q).beat = beat_epoch[0]
        BY <2>2, FirstTaken
    <2> QED
        BY <2>1, <2>3
<1> QED
    BY <1>1, <1>2, <1>3, <1>4 DEF Inv, Traffic

(* The loads rank 0 has after a beat of the epoch.                         *)
LEMMA GatheredIs ==
    ASSUME Inv, NEW s \in Ranks, net[s][0] # <<>>, Head(net[s][0]).type = "if",
           NEW n, n = Taken(net, s, 0), NEW load, load = Insert(mds_load[0], s, Head(net[s][0]).load)
    PROVE  /\ s # 0 /\ Loads(load) /\ DOMAIN load = DOMAIN mds_load[0] \cup {s} /\ ~Quiet
           /\ IsTaken(net, s, 0, n)
           /\ \A r \in Ranks : Trusted(r) => RightFor(n, load, ToInt(requests[r]), r)
           /\ Calm /\ beat_epoch[0] > 0 =>
                 /\ InEpoch(n, beat_epoch, load)
                 /\ \A r \in Ranks \ {0} : r # s => (Pending(n, r) <=> Pending(net, r))
<1>0. 0 \in Ranks /\ net \in Channels /\ Loads(mds_load[0]) /\ s # 0 /\ ~Quiet
    BY RanksAre DEF Inv, Types, Traffic, NoSelf, Quiet
<1>1. PICK q : q = net[s][0]
    OBVIOUS
<1>2. PICK m : m = Head(q)
    OBVIOUS
<1>3. q \in Seq(Beat) /\ q # <<>> /\ m.type = "if"
    BY <1>0, <1>1, <1>2 DEF Channels
<1>4. /\ m \in Beat
      /\ Has(q, "hb") => Has(Tail(q), "hb")
      /\ \A x : OfEpoch(q, x) => OfEpoch(Tail(q), x) /\ m.beat = x
      /\ \A x : OfLoad(q, x) => OfLoad(Tail(q), x) /\ m.load.req = x
    BY <1>2, <1>3, FirstTaken
<1>5. m.load \in Load
    BY <1>4, BeatFields
<1>6. /\ Loads(load) /\ DOMAIN load = DOMAIN mds_load[0] \cup {s}
      /\ \A r \in DOMAIN mds_load[0] : load[r] = mds_load[0][r]
      /\ s \notin DOMAIN mds_load[0] => load[s] = m.load
    BY <1>0, <1>1, <1>2, <1>5, InsertLoad
<1>7. IsTaken(net, s, 0, n)
    BY <1>0, TakenIs
<1>8. n[s][0] = Tail(q) /\ \A x, y \in Ranks : x # s \/ y # 0 => n[x][y] = net[x][y]
    BY <1>1, <1>7 DEF IsTaken
<1>9. ASSUME NEW r \in Ranks, Trusted(r)
      PROVE  RightFor(n, load, ToInt(requests[r]), r)
    <2>1. OfLoad(net[r][0], ToInt(requests[r])) /\ (r \in DOMAIN mds_load[0] => mds_load[0][r].req = ToInt(requests[r]))
        BY <1>0, <1>9 DEF Inv, Traffic, Right, RightFor
    <2>2. OfLoad(n[r][0], ToInt(requests[r]))
        BY <1>0, <1>1, <1>4, <1>8, <2>1
    <2>3. r \in DOMAIN load => load[r].req = ToInt(requests[r])
        BY <1>1, <1>4, <1>6, <2>1
    <2> QED
        BY <2>2, <2>3 DEF RightFor
<1>10. ASSUME Calm, beat_epoch[0] > 0
       PROVE  /\ InEpoch(n, beat_epoch, load)
              /\ \A r \in Ranks \ {0} : r # s => (Pending(n, r) <=> Pending(net, r))
    <2>1. InEpoch(net, beat_epoch, mds_load[0])
        BY <1>10 DEF Inv, Traffic, Round
    <2>2. \A x, y \in Ranks : OfEpoch(n[x][y], beat_epoch[0])
        BY <1>1, <1>4, <1>8, <2>1 DEF InEpoch
    <2>3. \A r \in Ranks : n[0][r] = net[0][r]
        BY <1>0, <1>8
    <2>4. \A r \in Ranks : r # s => n[r][0] = net[r][0]
        BY <1>0, <1>8
    <2>5. \A r \in Ranks \ {0} : r # s => (Pending(n, r) <=> Pending(net, r))
        BY <2>3, <2>4 DEF Pending
    <2>6. InEpoch(n, beat_epoch, load)
        BY <1>0, <1>6, <2>1, <2>2, <2>3, <2>5 DEF InEpoch
    <2> QED
        BY <2>5, <2>6
<1> QED
    BY <1>0, <1>6, <1>7, <1>9, <1>10

(* Not all loads are there yet.                                            *)
LEMMA GatherInv ==
    ASSUME Inv, NEW s \in Ranks, net[s][0] # <<>>, Head(net[s][0]).type = "if",
           net' = Taken(net, s, 0), NEW load, load = Insert(mds_load[0], s, Head(net[s][0]).load),
           mds_load' = [mds_load EXCEPT ![0] = load], Cardinality(DOMAIN load) # N,
           UNCHANGED <<down, requests, beat_epoch, old_req, orders, h>>
    PROVE  Inv'
<1>0. 0 \in Ranks /\ net \in Channels
    BY RanksAre DEF Inv, Types
<1>1. PICK n : n = Taken(net, s, 0)
    OBVIOUS
<1>2. /\ s # 0 /\ Loads(load) /\ DOMAIN load = DOMAIN mds_load[0] \cup {s}
      /\ IsTaken(net, s, 0, n)
      /\ \A r \in Ranks : Trusted(r) => RightFor(n, load, ToInt(requests[r]), r)
      /\ Calm /\ beat_epoch[0] > 0 => InEpoch(n, beat_epoch, load)
    BY <1>1, GatheredIs
<1>3. net' = n
    BY <1>1
<1>4. /\ mds_load' = [r \in Ranks |-> mds_load'[r]] /\ mds_load'[0] = load
      /\ \A r \in Ranks : r # 0 => mds_load'[r] = mds_load[r]
    BY <1>0 DEF Inv, Types
<1>5. net' \in Channels /\ NoSelf'
    BY <1>0, <1>1, TakenRight
<1>6. Types'
    <2>1. \A r \in Ranks : Loads(mds_load'[r])
        BY <1>2, <1>4 DEF Inv, Types
    <2> QED
        BY <1>4, <1>5, <2>1 DEF Inv, Types
<1>7. Account' /\ Failures'
    BY AccountKept DEF Inv, Traffic, Failures, Calm
<1>8. Right'
    BY <1>2, <1>3, <1>4 DEF Right, Trusted, Calm
<1>9. Round'
    <2> SUFFICES ASSUME Calm, beat_epoch[0] > 0
                 PROVE  InEpoch(n, beat_epoch, load) /\ ~ \A r \in Ranks \ {0} : ~Pending(n, r)
        BY <1>3, <1>4 DEF Round, Calm
    <2>1. InEpoch(n, beat_epoch, load)
        BY <1>2
    <2>2. DOMAIN load \in SUBSET Ranks
        BY <1>2 DEF Loads
    <2>3. DOMAIN load # Ranks
        BY <2>2, AllThere
    <2> QED
        BY <2>1, <2>2, <2>3 DEF InEpoch
<1> QED
    BY <1>5, <1>6, <1>7, <1>8, <1>9 DEF Inv, Traffic


(* The decisions are sent: nothing that rank 0 waits for.                  *)
IsTold(n, e, m) ==
    /\ m \in Channels
    /\ \A x \in Ranks : m[x][0] = n[x][0]
    /\ \A x, y \in Ranks : x # 0 => m[x][y] = n[x][y]
    /\ \A y \in Ranks : Has(m[0][y], "hb") <=> Has(n[0][y], "hb")
    /\ \A y \in Ranks : OfEpoch(n[0][y], e) => OfEpoch(m[0][y], e)
LEMMA TellIs ==
    ASSUME NEW n \in Channels, beat_epoch[0] \in Nat, requests[0] \in Nat, NEW dec,
           \A r \in DOMAIN dec : dec[r] \in Seq(Shares), NEW m, m = Tell(n, dec)
    PROVE  IsTold(n, beat_epoch[0], m)
<1>0. 0 \in Ranks
    BY RanksAre
<1>1. PICK e : e = beat_epoch[0]
    OBVIOUS
<1>2. PICK load : load = LoadOf(0, e)
    OBVIOUS
<1>3. e \in Nat /\ load \in Load
    BY <1>1, <1>2, LoadOfIs
<1> DEFINE b(d) == IFBeat(e, load, TRUE, dec[d])
<1>4. ASSUME NEW d \in DOMAIN dec
      PROVE  b(d) \in Beat /\ b(d).type = "if" /\ b(d).beat = e
    <2>1. b(d) \in Beat
        BY <1>3, Zenon DEF IFBeat, Beat
    <2>2. b(d).type = "if" /\ b(d).beat = e
        BY DEF IFBeat
    <2> QED
        BY <2>1, <2>2
<1>5. m = [n EXCEPT ![0] = [d \in Ranks |->
              IF d # 0 /\ d \in DOMAIN dec THEN Append(n[0][d], b(d)) ELSE n[0][d]]]
    BY <1>1, <1>2 DEF Tell
<1> HIDE DEF b
<1>6. /\ m[0][0] = n[0][0]
      /\ \A x, y \in Ranks : x # 0 => m[x][y] = n[x][y]
      /\ \A y \in Ranks : m[0][y] = n[0][y] \/ (y \in DOMAIN dec /\ m[0][y] = Append(n[0][y], b(y)))
    BY <1>0, <1>5 DEF Channels
<1>7. ASSUME NEW y \in Ranks
      PROVE  /\ m[0][y] \in Seq(Beat)
             /\ Has(m[0][y], "hb") <=> Has(n[0][y], "hb")
             /\ OfEpoch(n[0][y], e) => OfEpoch(m[0][y], e)
    <2>1. n[0][y] \in Seq(Beat)
        BY <1>0 DEF Channels
    <2>2. CASE m[0][y] = n[0][y]
        BY <2>1, <2>2
    <2>3. CASE y \in DOMAIN dec /\ m[0][y] = Append(n[0][y], b(y))
        BY <1>4, <2>1, <2>3, LastAdded
    <2> QED
        BY <1>6, <2>2, <2>3
<1>8. m \in Channels
    <2>1. DOMAIN m = Ranks /\ m = [x \in Ranks |-> m[x]] /\ \A x \in Ranks : m[x] = [y \in Ranks |-> m[x][y]]
        BY <1>0, <1>5 DEF Channels
    <2>2. \A x, y \in Ranks : m[x][y] \in Seq(Beat)
        BY <1>6, <1>7 DEF Channels
    <2> QED
        BY <2>1, <2>2 DEF Channels
<1>9. \A x \in Ranks : m[x][0] = n[x][0]
    BY <1>0, <1>6
<1>10. IsTold(n, e, m)
    BY <1>6, <1>7, <1>8, <1>9 DEF IsTold
<1> QED
    BY <1>1, <1>10

(* The history after a computation.                                        *)
LEMMA ComputedIs ==
    ASSUME Inv, NEW x, NEW dec, h' = Computed(x, dec)
    PROVE  /\ Fields' /\ (Calm' <=> Calm)
           /\ h'.base = requests /\ h'.computed = 1
           /\ ~Calm => h'.suspect = h.suspect
           /\ Calm => h'.suspect = {}
           /\ h'.given = [r \in Ranks |-> h.given[r] + (IF r \in DOMAIN dec /\ dec[r] # <<>> THEN 1 ELSE 0)]
           /\ h'.known = DOMAIN old_req /\ h'.x = x /\ h'.doubted = h.suspect /\ h'.dec = dec
           /\ h'.from = h.base /\ h'.since = [r \in Ranks |-> requests[r] - h.base[r]]
<1> DEFINE S == IF h.troubled THEN h.suspect ELSE {}
           G == [r \in Ranks |-> h.given[r] + (IF r \in DOMAIN dec /\ dec[r] # <<>> THEN 1 ELSE 0)]
           W == [r \in Ranks |-> requests[r] - h.base[r]]
           K == DOMAIN old_req
<1>1. h' = [h EXCEPT !.computed = 1, !.base = requests, !.suspect = S, !.given = G,
               !.known = K, !.x = x, !.doubted = h.suspect, !.dec = dec,
               !.from = h.base, !.since = W]
    BY DEF Computed
<1>2. (~Calm => S = h.suspect) /\ (Calm => S = {})
    BY DEF Calm
<1> HIDE DEF S, G, W, K
<1>3. Fields
    BY DEF Inv, Account, History
<1>4. h' = [base |-> requests, suspect |-> S, troubled |-> h.troubled, computed |-> 1,
            given |-> G, known |-> K, x |-> x, from |-> h.base, since |-> W,
            doubted |-> h.suspect, dec |-> dec]
    BY <1>1, <1>3 DEF Fields
<1>5. /\ Fields' /\ h'.base = requests /\ h'.suspect = S /\ h'.computed = 1 /\ h'.given = G
      /\ h'.known = K /\ h'.x = x /\ h'.doubted = h.suspect /\ h'.dec = dec
      /\ h'.from = h.base /\ h'.since = W
    BY <1>4 DEF Fields
<1>6. h'.troubled = h.troubled
    BY <1>4
<1>7. Calm' <=> Calm
    BY <1>6 DEF Calm
<1> QED
    BY <1>2, <1>5, <1>7 DEF G, W, K


(* All loads are there: rank 0 computes.                                   *)
LEMMA ComputeInv ==
    ASSUME Inv, NEW s \in Ranks, net[s][0] # <<>>, Head(net[s][0]).type = "if",
           NEW load, load = Insert(mds_load[0], s, Head(net[s][0]).load),
           mds_load' = [mds_load EXCEPT ![0] = load], Cardinality(DOMAIN load) = N,
           Compute(load, Taken(net, s, 0)),
           UNCHANGED <<down, requests, beat_epoch>>
    PROVE  Inv'
<1>0. 0 \in Ranks /\ net \in Channels /\ beat_epoch[0] \in Nat /\ requests \in [Ranks -> Nat]
    BY RanksAre DEF Inv, Types
<1>1. PICK n : n = Taken(net, s, 0)
    OBVIOUS
<1>2. /\ s # 0 /\ Loads(load) /\ IsTaken(net, s, 0, n)
      /\ \A r \in Ranks : Trusted(r) => RightFor(n, load, ToInt(requests[r]), r)
      /\ Calm /\ beat_epoch[0] > 0 => InEpoch(n, beat_epoch, load)
    BY <1>1, GatheredIs
<1>3. DOMAIN load = Ranks /\ load \in [Ranks -> Load]
    BY <1>2, AllThere DEF Loads
<1>4. \A r \in Ranks : load[r].req \in Ints /\ load[r].req \in Int /\ (Trusted(r) => load[r].req = ToInt(requests[r]))
    BY <1>2, <1>3, IntsAre DEF Load, RightFor
<1>5. PICK x : x = Rates(load)
    OBVIOUS
<1>6. /\ x \in [Ranks -> Int]
      /\ \A r \in Ranks : x[r] = IF r \in DOMAIN old_req THEN load[r].req - old_req[r] ELSE 0
    <2>1. \A r \in DOMAIN old_req : old_req[r] \in Int
        BY DEF Inv, Types
    <2>2. \A r \in Ranks : (IF r \in DOMAIN old_req THEN load[r].req - old_req[r] ELSE 0) \in Int
        BY <1>4, <2>1
    <2> QED
        BY <1>5, <2>2 DEF Rates
<1>7. PICK v \in SortedVectors(x) :
        /\ net' = Tell(n, Decisions(x, v))
        /\ orders' = IF 0 \in DOMAIN Decisions(x, v)
                     THEN [orders EXCEPT ![0] = Decisions(x, v)[0]] ELSE orders
        /\ h' = Computed(x, Decisions(x, v))
    BY <1>1, <1>5 DEF Compute
<1>8. PICK dec : dec = Decisions(x, v)
    OBVIOUS
<1>9. Decides(x, dec)
    BY <1>6, <1>8, DecisionsDecide
<1>10. /\ net' = Tell(n, dec) /\ h' = Computed(x, dec)
       /\ orders' = IF 0 \in DOMAIN dec THEN [orders EXCEPT ![0] = dec[0]] ELSE orders
    BY <1>7, <1>8
<1>11. old_req' = [r \in Ranks |-> Float(load[r].req)]
    BY DEF Compute, Counters
<1>12. IsTold(n, beat_epoch[0], net')
    <2>1. n \in Channels /\ requests[0] \in Nat /\ \A r \in DOMAIN dec : dec[r] \in Seq(Shares)
        BY <1>0, <1>2, <1>9 DEF IsTaken, Decides
    <2> QED
        BY <1>0, <1>10, <2>1, TellIs
<1>13. /\ Fields' /\ (Calm' <=> Calm)
       /\ h'.base = requests /\ h'.computed = 1
       /\ ~Calm => h'.suspect = h.suspect
       /\ Calm => h'.suspect = {}
       /\ h'.given = [r \in Ranks |-> h.given[r] + (IF r \in DOMAIN dec /\ dec[r] # <<>> THEN 1 ELSE 0)]
       /\ h'.known = DOMAIN old_req /\ h'.x = x /\ h'.doubted = h.suspect /\ h'.dec = dec
       /\ h'.from = h.base /\ h'.since = [r \in Ranks |-> requests[r] - h.base[r]]
    BY <1>10, ComputedIs
<1>14. /\ mds_load' = [r \in Ranks |-> mds_load'[r]] /\ mds_load'[0] = load
       /\ \A r \in Ranks : r # 0 => mds_load'[r] = mds_load[r]
    BY <1>0 DEF Inv, Types
<1>15. Types'
    <2>1. \A r \in Ranks : Loads(mds_load'[r])
        BY <1>2, <1>14 DEF Inv, Types
    <2>2. orders' \in [Ranks -> Seq(Shares)]
        BY <1>9, <1>10 DEF Decides, Inv, Types
    <2>3. old_req' \in [DOMAIN old_req' -> Int] /\ DOMAIN old_req' = Ranks
        BY <1>4, <1>11, FloatIs
    <2>4. net' \in Channels
        BY <1>12 DEF IsTold
    <2> QED
        BY <1>14, <2>1, <2>2, <2>3, <2>4 DEF Inv, Types
<1>16. \A r \in Ranks : h.base[r] \in Nat /\ h.given[r] \in Nat
    BY DEF Inv, Account, History
<1>17. History'
    <2>1. h'.given \in [Ranks -> Nat]
        BY <1>13, <1>16
    <2>2. h'.suspect \subseteq Ranks
        BY <1>13 DEF Inv, Account, History
    <2> QED
        BY <1>0, <1>13, <2>1, <2>2 DEF History
<1>18. Based'
    <2> SUFFICES ASSUME NEW r \in Ranks, r \notin h'.suspect PROVE load[r].req = ToInt(requests[r])
        BY <1>11, <1>13 DEF Based, Kept
    <2>1. Trusted(r)
        BY <1>13 DEF Trusted
    <2> QED
        BY <1>4, <2>1
<1>19. \A r \in DOMAIN old_req : r \in Ranks /\ (r \notin h.suspect => old_req[r] = Kept(h.base[r]))
    BY DEF Inv, Types, Account, Based
<1>20. ASSUME NEW r \in DOMAIN old_req, r \notin h.suspect, NoWrap(r)'
       PROVE  /\ Precision * Abs(x[r] - h'.since[r]) <= Abs(ToInt(h.base[r]))
              /\ Exact(h.base[r]) => x[r] = h'.since[r]
              /\ Near(h.base[r]) => Abs(x[r] - h'.since[r]) <= Interval
    <2>1. r \in Ranks /\ load[r].req = ToInt(requests[r]) /\ old_req[r] = Kept(h.base[r])
        BY <1>4, <1>19, <1>20 DEF Trusted
    <2>2. x[r] = ToInt(requests[r]) - Float(ToInt(h.base[r]))
        BY <1>6, <2>1 DEF Kept
    <2>3. h'.from[r] = h.base[r] /\ h'.since[r] = requests[r] - h.base[r]
        BY <1>13, <2>1
    <2>4. requests[r] \in Nat /\ h.base[r] \in Nat
        BY <1>0, <1>16, <2>1
    <2>5. PICK z : z = ToInt(h.base[r])
        OBVIOUS
    <2>6. PICK f : f = Float(z)
        OBVIOUS
    <2>7. z \in Ints /\ z \in Int /\ Abs(z) \in Nat
        BY <2>4, <2>5, ToIntIs, IntsAre
    <2>8. f \in Int /\ (Abs(z) < Precision => f = z) /\ Precision * Abs(z - f) <= Abs(z)
        BY <2>6, <2>7, FloatIs
    <2>9. h'.from[r] + h'.since[r] = requests[r]
        BY <2>3, <2>4
    <2>10. ToInt(requests[r]) = z + h'.since[r]
        BY <1>20, <2>3, <2>5, <2>9 DEF NoWrap
    <2>11. h'.since[r] \in Int
        BY <2>3, <2>4
    <2>12. x[r] - h'.since[r] = z - f /\ x[r] \in Int
        BY <2>2, <2>5, <2>6, <2>7, <2>8, <2>10, <2>11
    <2>13. Near(h.base[r]) => Abs(z - f) <= Interval
        BY <2>5, <2>7, <2>8, Negligible DEF Near
    <2>14. f = z => x[r] = h'.since[r]
        BY <2>7, <2>8, <2>11, <2>12
    <2> QED
        BY <2>5, <2>8, <2>12, <2>13, <2>14 DEF Exact
<1>21. RealLoads' /\ OrdersFollowLoad'
    <2>1. RealLoads'
        BY <1>13, <1>19, <1>20 DEF RealLoads
    <2> SUFFICES ASSUME h.suspect = {}, \A q \in Ranks : NoWrap(q)', NEW r \in DOMAIN dec
                 PROVE  /\ (\A q \in Ranks : Exact(h.base[q])) =>
                              /\ IsBigger(h'.since, r)
                              /\ \A k \in DOMAIN dec[r] : ~IsBigger(h'.since, dec[r][k].to)
                        /\ dec[r] # <<>> /\ Near(h.base[r]) => h'.since[r] > 0
        BY <1>13, <2>1 DEF OrdersFollowLoad, Exact, Near
    <2>2. DOMAIN old_req = Ranks
        <3> SUFFICES ASSUME DOMAIN old_req = {} PROVE FALSE
            BY DEF Inv, Types
        <3>1. DOMAIN x = Ranks /\ \A q \in Ranks : x[q] = 0
            BY <1>6
        <3>2. dec = <<>>
            BY <1>8, <3>1, NothingToDecide
        <3> QED
            BY <3>2
    <2>3. (\A q \in Ranks : Exact(h.base[q])) => h'.since = x
        <3> SUFFICES ASSUME \A q \in Ranks : Exact(h.base[q]) PROVE h'.since = x
            OBVIOUS
        <3>1. \A q \in Ranks : x[q] = h'.since[q]
            BY <1>20, <2>2
        <3> QED
            BY <1>6, <1>13, <3>1
    <2>4. ASSUME dec[r] # <<>>, Near(h.base[r])
          PROVE  h'.since[r] > 0
        <3>1. r \in Ranks /\ x[r] > Interval
            BY <1>9, <2>4 DEF Decides
        <3>2. Abs(x[r] - h'.since[r]) <= Interval
            BY <1>20, <2>2, <2>4, <3>1
        <3>3. x[r] \in Int /\ h'.since[r] \in Int
            BY <1>0, <1>6, <1>13, <1>16, <3>1
        <3> QED
            BY <3>1, <3>2, <3>3, NumbersAre DEF Abs
    <2> QED
        BY <1>9, <2>3, <2>4 DEF Decides
<1>22. Once'
    <2> SUFFICES ASSUME Calm, NEW r \in Ranks
                 PROVE  /\ DOMAIN old_req' = Ranks /\ old_req'[r] = Kept(requests[r])
                        /\ Near(requests[r]) => h'.given[r] <= 1
        BY <1>13 DEF Once, Kept, Near
    <2>1. load[r].req = ToInt(requests[r])
        BY <1>4 DEF Trusted
    <2>2. DOMAIN old_req' = Ranks /\ old_req'[r] = Kept(requests[r])
        BY <1>11, <2>1 DEF Kept
    <2>3. CASE h.computed = 0
        <3>1. h.given[r] = 0
            BY <2>3 DEF Inv, Account, Once
        <3> QED
            BY <1>13, <2>2, <3>1
    <2>4. CASE h.computed = 1
        <3> SUFFICES ASSUME Near(requests[r]) PROVE h'.given[r] <= 1
            BY <2>2
        <3>1. r \in DOMAIN old_req /\ h.given[r] <= 1 /\ old_req[r] = Kept(requests[r])
            BY <2>4 DEF Inv, Account, Once
        <3>2. PICK z : z = ToInt(requests[r])
            OBVIOUS
        <3>3. z \in Ints /\ z \in Int /\ Abs(z) \in Nat
            BY <1>0, <3>2, ToIntIs, IntsAre
        <3>4. Float(z) \in Int /\ Precision * Abs(z - Float(z)) <= Abs(z)
            BY <3>3, FloatIs
        <3>5. Abs(z - Float(z)) <= Interval
            BY <3>2, <3>3, <3>4, Negligible DEF Near
        <3>6. x[r] = z - Float(z)
            BY <1>6, <2>1, <3>1, <3>2 DEF Kept
        <3>7. ~(x[r] > Interval)
            BY <3>3, <3>4, <3>5, <3>6, NumbersAre DEF Abs
        <3>8. ~(r \in DOMAIN dec /\ dec[r] # <<>>)
            BY <1>9, <3>7 DEF Decides
        <3> QED
            BY <1>13, <1>16, <3>1, <3>8
    <2> QED
        BY <2>3, <2>4 DEF Inv, Account, History
<1>23. NoSelf' /\ Failures'
    <2>1. \A r \in Ranks : n[r][r] = <<>>
        BY <1>0, <1>2 DEF IsTaken, Inv, Traffic, NoSelf
    <2>2. NoSelf'
        BY <1>0, <1>12, <2>1 DEF IsTold, NoSelf
    <2>3. Failures'
        BY <1>13 DEF Inv, Traffic, Failures
    <2> QED
        BY <2>2, <2>3
<1>24. Right'
    <2> SUFFICES ASSUME NEW r \in Ranks, Trusted(r)'
                 PROVE  RightFor(net', load, ToInt(requests[r]), r)
        BY <1>14 DEF Right
    <2>1. Trusted(r)
        BY <1>13 DEF Trusted
    <2> QED
        BY <1>2, <1>12, <2>1 DEF IsTold, RightFor
<1>25. Round'
    <2> SUFFICES ASSUME Calm, beat_epoch[0] > 0 PROVE InEpoch(net', beat_epoch, load)
        BY <1>13, <1>14 DEF Round
    <2>1. InEpoch(n, beat_epoch, load)
        BY <1>2
    <2>2. \A a, b \in Ranks : OfEpoch(net'[a][b], beat_epoch[0])
        BY <1>12, <2>1 DEF IsTold, InEpoch
    <2>3. \A r \in Ranks : (Has(net'[0][r], "hb") <=> Has(n[0][r], "hb")) /\ net'[r][0] = n[r][0]
        BY <1>12 DEF IsTold
    <2> QED
        BY <2>1, <2>2, <2>3 DEF InEpoch, Pending
<1> QED
    BY <1>15, <1>17, <1>18, <1>21, <1>22, <1>23, <1>24, <1>25 DEF Inv, Account, Traffic

LEMMA HandleIfbeat0Inv ==
    ASSUME Inv, NEW s \in Ranks, HandleIfbeat0(s)
    PROVE  Inv'
<1>1. /\ net[s][0] # <<>> /\ Head(net[s][0]).type = "if"
      /\ UNCHANGED <<down, requests, beat_epoch>>
    BY DEF HandleIfbeat0, Receives
<1>2. PICK load : load = Insert(mds_load[0], s, Head(net[s][0]).load)
    OBVIOUS
<1>3. CASE Head(net[s][0]).beat # beat_epoch[0]
    <2>1. net' = Taken(net, s, 0) /\ UNCHANGED <<mds_load, old_req, orders, h>>
        BY <1>3 DEF HandleIfbeat0, Received, Taken
    <2> QED
        BY <1>1, <1>3, <2>1, StaleIfbeatInv
<1>4. CASE Head(net[s][0]).beat = beat_epoch[0] /\ Cardinality(DOMAIN load) = N
    <2>1. mds_load' = [mds_load EXCEPT ![0] = load] /\ Compute(load, Taken(net, s, 0))
        BY <1>2, <1>4 DEF HandleIfbeat0, Received, Taken
    <2> QED
        BY <1>1, <1>2, <1>4, <2>1, ComputeInv
<1>5. CASE Head(net[s][0]).beat = beat_epoch[0] /\ Cardinality(DOMAIN load) # N
    <2>1. /\ mds_load' = [mds_load EXCEPT ![0] = load] /\ net' = Taken(net, s, 0)
          /\ UNCHANGED <<old_req, orders, h>>
        BY <1>2, <1>5 DEF HandleIfbeat0, Received, Taken
    <2> QED
        BY <1>1, <1>2, <1>5, <2>1, GatherInv
<1> QED
    BY <1>3, <1>4, <1>5


-----------------------------------------------------------------------------
LEMMA InitInv == Init => Inv
<1> SUFFICES ASSUME Init PROVE Inv
    OBVIOUS
<1>0. 0 \in Ranks /\ Zero \in [Ranks -> Nat] /\ \A r \in Ranks : Zero[r] = 0
    BY RanksAre DEF Zero
<1>1. PICK none : none = <<>>
    OBVIOUS
<1>2. Loads(none) /\ DOMAIN none = {} /\ none \in Seq(Shares) /\ none \in Seq(Beat)
    BY <1>1, NoLoads
<1>3. /\ down = {} /\ requests = Zero /\ beat_epoch = Zero /\ old_req = none
      /\ mds_load = [r \in Ranks |-> none] /\ orders = [r \in Ranks |-> none]
      /\ net = [s \in Ranks |-> [d \in Ranks |-> none]]
    BY <1>1 DEF Init
<1>4. Types
    <2>1. net \in Channels
        BY <1>2, <1>3 DEF Channels
    <2>2. mds_load = [r \in Ranks |-> mds_load[r]] /\ \A r \in Ranks : Loads(mds_load[r])
        BY <1>2, <1>3
    <2>3. old_req \in [DOMAIN old_req -> Int] /\ DOMAIN old_req = {}
        BY <1>1, <1>2, <1>3
    <2>4. /\ orders \in [Ranks -> Seq(Shares)] /\ requests \in [Ranks -> Nat]
          /\ beat_epoch \in [Ranks -> Nat] /\ down \subseteq Ranks
        BY <1>0, <1>2, <1>3
    <2> QED
        BY <2>1, <2>2, <2>3, <2>4 DEF Types
<1>5. /\ h.base = Zero /\ h.suspect = {} /\ h.computed = 0
      /\ h.given = Zero /\ h.known = {} /\ h.dec = none
    BY <1>1 DEF Init, NewRound
<1>6. Fields
    BY DEF Init, NewRound, Fields
<1>7. Account
    <2>1. History
        BY <1>0, <1>5, <1>6 DEF History
    <2>2. Based /\ Once
        BY <1>0, <1>2, <1>3, <1>5 DEF Based, Once
    <2>3. RealLoads /\ OrdersFollowLoad
        BY <1>2, <1>5 DEF RealLoads, OrdersFollowLoad
    <2> QED
        BY <2>1, <2>2, <2>3 DEF Account
<1>8. Quiet /\ NoSelf /\ down = {} /\ beat_epoch[0] = 0
    BY <1>0, <1>1, <1>3 DEF Quiet, NoSelf
<1>9. Traffic
    BY <1>8 DEF Traffic, Failures, Right, Round
<1> QED
    BY <1>4, <1>7, <1>9 DEF Inv

LEMMA NextInv == Inv /\ [Next]_vars => Inv'
<1> SUFFICES ASSUME Inv, [Next]_vars PROVE Inv'
    OBVIOUS
<1>1. CASE Tick
    BY <1>1, TickInv
<1>2. CASE IgnoreBeat
    BY <1>2, IgnoreBeatInv
<1>3. ASSUME NEW s \in Ranks, NEW d \in Ranks, HandleHeartbeat(s, d)
      PROVE  Inv'
    BY <1>3, HandleHeartbeatInv
<1>4. ASSUME NEW r \in Ranks, HandleIfbeat0(r)
      PROVE  Inv'
    BY <1>4, HandleIfbeat0Inv
<1>5. ASSUME NEW r \in Ranks, HandleIfbeat(r)
      PROVE  Inv'
    BY <1>5, HandleIfbeatInv
<1>6. ASSUME NEW r \in Ranks, Fail(r)
      PROVE  Inv'
    BY <1>6, FailInv
<1>7. ASSUME NEW r \in Ranks, Recover(r)
      PROVE  Inv'
    BY <1>7, RecoverInv
<1>8. CASE UNCHANGED vars
    BY <1>8, StutterInv
<1> QED
    BY <1>1, <1>2, <1>3, <1>4, <1>5, <1>6, <1>7, <1>8 DEF Next

LEMMA AlwaysInv == Spec => []Inv
    BY InitInv, NextInv, PTL DEF Spec

-----------------------------------------------------------------------------
(* The loads, counters, epochs and beats of the balancer keep their types, *)
(* and every decision of handle_ifbeat is a list of shares for ranks, for  *)
(* any number of ranks, any threshold and any urgency.                     *)
THEOREM TypeCorrect == Spec => []TypeOK
<1>1. Inv => TypeOK
    <2> SUFFICES ASSUME Inv PROVE TypeOK
        OBVIOUS
    <2>1. \A r \in Ranks : DOMAIN mds_load[r] \subseteq Ranks /\ Range(mds_load[r]) \subseteq Load
        BY DEF Inv, Types, Loads, Range
    <2>2. DOMAIN old_req \subseteq Ranks /\ Range(old_req) \subseteq Int
        BY DEF Inv, Types, Range
    <2>3. \A s, d \in Ranks : net[s][d] \in Seq(Beat)
        BY DEF Inv, Types, Channels
    <2> QED
        BY <2>1, <2>2, <2>3 DEF Inv, Types, TypeOK
<1> QED
    BY <1>1, AlwaysInv, PTL

(* IOPSvector is right (MDBalancer.cc 521-548): the rates rank 0 computes  *)
(* with are what the processes have served since its last computation, off *)
(* by no more than the float of the old counter (MDBalancer.h:175), for    *)
(* every rank that is not suspect and whose int (MDSRank.h:411) did not    *)
(* wrap, whichever of its beats came first and however many computations   *)
(* an epoch has seen.                                                      *)
THEOREM RatesAreReal == Spec => []RealLoads
<1>1. Inv => RealLoads
    BY DEF Inv, Account
<1> QED
    BY <1>1, AlwaysInv, PTL

(* Only ranks that have served more than the average are told to export,   *)
(* and only to ranks that have not (the decision loops, 618-681), for any  *)
(* order the sort leaves equal ranks in, while the old counters are exact  *)
(* as floats.  When they are not, the test of a wrong load (632) still     *)
(* keeps an idle rank from exporting, while its own counter is Near.       *)
THEOREM BusyRanksExportToIdleOnes == Spec => []OrdersFollowLoad
<1>1. Inv => OrdersFollowLoad
    BY DEF Inv, Account
<1> QED
    BY <1>1, AlwaysInv, PTL

(* In an epoch that began in order and saw nobody die, no rank is told     *)
(* twice to export something, though rank 0 computes again on every        *)
(* further IF beat (512), while the counters are Near: the float error     *)
(* that is left then is a wrong load (632).                                *)
THEOREM OrdersAreGivenOnce == Spec => []OneOrderPerEpoch
<1>1. Inv => OneOrderPerEpoch
    <2> SUFFICES ASSUME Inv, Calm, NEW r \in Ranks, Near(requests[r]) PROVE h.given[r] <= 1
        BY DEF OneOrderPerEpoch, Calm
    <2> QED
        BY DEF Inv, Account, History, Once
<1> QED
    BY <1>1, AlwaysInv, PTL

(* When the beats of such an epoch are delivered, rank 0 has computed and  *)
(* every rank is in the epoch (501, 512): a heartbeat of another rank that *)
(* overtakes rank 0's does not make a rank miss its answer.                *)
THEOREM EveryRoundCloses == Spec => []RoundsClose
<1>1. Inv => RoundsClose
    <2> SUFFICES ASSUME Inv, Quiet, beat_epoch[0] > 0, Calm
                 PROVE  h.computed = 1 /\ \A r \in Ranks : beat_epoch[r] = beat_epoch[0]
        BY DEF RoundsClose, Calm
    <2>1. 0 \in Ranks
        BY RanksAre
    <2>2. \A s, d \in Ranks : \A t : ~Has(net[s][d], t)
        BY NothingOnTheWay DEF Quiet
    <2>3. \A r \in Ranks : ~Pending(net, r) /\ ~Has(net[0][r], "hb")
        BY <2>1, <2>2 DEF Pending
    <2> QED
        BY <2>3 DEF Inv, Traffic, Round, InEpoch
<1> QED
    BY <1>1, AlwaysInv, PTL

=============================================================================
