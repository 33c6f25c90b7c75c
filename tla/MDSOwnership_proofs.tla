-------------------------- MODULE MDSOwnership_proofs --------------------------
(***************************************************************************)
(* One export: the ranks, their connections and journals together, every   *)
(* step of the cluster, and the theorems: one heir, one server, and the    *)
(* promise of SubtreeOwnership.                                            *)
(***************************************************************************)
EXTENDS MDSOneExport_proofs

-----------------------------------------------------------------------------
(* Connections: c2 is what is left of c when some messages at its head are *)
(* gone, followed by o.                                                    *)
Follows(c, o, c2) == \E n \in 0..Len(c) : \A k \in 1..Len(c2) :
    \/ k + n <= Len(c) /\ c2[k] = c[k + n]
    \/ k + n > Len(c) /\ k + n - Len(c) \in 1..Len(o) /\ c2[k] = o[k + n - Len(c)]

Shrinks(c, c2) == \E n \in 0..Len(c) : \A k \in 1..Len(c2) : k + n <= Len(c) /\ c2[k] = c[k + n]

LEMMA FollowsIs ==
    ASSUME NEW c \in Seq(Message), NEW o \in Seq(Message), NEW c2 \in Seq(Message), Follows(c, o, c2)
    PROVE  /\ \A k \in 1..Len(c2) : \/ \E i \in 1..Len(c) : c2[k] = c[i]
                                    \/ \E i \in 1..Len(o) : c2[k] = o[i]
           /\ \A j, k \in 1..Len(c2) : j < k =>
                \/ \E i \in 1..Len(c), l \in 1..Len(c) : i < l /\ c2[j] = c[i] /\ c2[k] = c[l]
                \/ \E l \in 1..Len(o) : c2[k] = o[l]
<1>1. Len(c) \in Nat /\ Len(o) \in Nat /\ Len(c2) \in Nat
    BY LenProperties
<1>2. PICK n \in 0..Len(c) : \A k \in 1..Len(c2) :
         \/ k + n <= Len(c) /\ c2[k] = c[k + n]
         \/ k + n > Len(c) /\ k + n - Len(c) \in 1..Len(o) /\ c2[k] = o[k + n - Len(c)]
    BY DEF Follows
<1>3. ASSUME NEW k \in 1..Len(c2)
      PROVE  \/ \E i \in 1..Len(c) : c2[k] = c[i]
             \/ \E i \in 1..Len(o) : c2[k] = o[i]
    <2>1. k + n <= Len(c) => k + n \in 1..Len(c)
        BY <1>1
    <2> QED
        BY <1>2, <2>1
<1>4. ASSUME NEW j \in 1..Len(c2), NEW k \in 1..Len(c2), j < k
      PROVE  \/ \E i \in 1..Len(c), l \in 1..Len(c) : i < l /\ c2[j] = c[i] /\ c2[k] = c[l]
             \/ \E l \in 1..Len(o) : c2[k] = o[l]
    <2>1. CASE k + n <= Len(c)
        <3>1. j + n \in 1..Len(c) /\ k + n \in 1..Len(c) /\ j + n < k + n
            BY <1>1, <1>4, <2>1
        <3>2. c2[j] = c[j + n] /\ c2[k] = c[k + n]
            BY <1>1, <1>2, <2>1, <3>1
        <3> QED
            BY <3>1, <3>2
    <2>2. CASE k + n > Len(c)
        BY <1>1, <1>2, <2>2
    <2> QED
        BY <1>1, <2>1, <2>2
<1> QED
    BY <1>3, <1>4

(* The messages in o are not those that move the export on.                *)
Plain(o, may) == \A k \in 1..Len(o) : Tame(o[k]) /\ (Claims(o[k]) => may)

LEMMA PlainWithout ==
    ASSUME NEW c \in Seq(Message), NEW o \in Seq(Message), NEW c2 \in Seq(Message), Follows(c, o, c2),
           NEW may, Plain(o, may)
    PROVE  /\ Without(c, "Discover") => Without(c2, "Discover")
           /\ Without(c, "ExportDir") => Without(c2, "ExportDir")
<1>1. ASSUME NEW type, type \in {"Discover", "ExportDir"}, Without(c, type), NEW k \in 1..Len(c2)
      PROVE  c2[k].type # type
    <2>1. CASE \E i \in 1..Len(c) : c2[k] = c[i]
        BY <1>1, <2>1 DEF Without
    <2>2. CASE \E i \in 1..Len(o) : c2[k] = o[i]
        BY <1>1, <2>2 DEF Plain, Tame
    <2> QED
        BY <2>1, <2>2, FollowsIs
<1>2. ASSUME NEW type, type \in {"Discover", "ExportDir"}, Without(c, type)
      PROVE  Without(c2, type)
    BY <1>1, <1>2 DEF Without
<1> QED
    BY <1>2

Calmer(s, ds, s2, ds2) == Settled(s, ds) => Settled(s2, ds2)
Acks(o, t, dt, s, ds) ==
    \A k \in 1..Len(o) : o[k].type = "ExportDirAck" => Bound(t, dt) \/ Settled(s, ds)

(* What is on the way to the importer, when the exporter goes on from s to *)
(* s2 or the importer from t to t2.                                        *)
LEMMA ImporterHears ==
    ASSUME NEW c \in Seq(Message), NEW o \in Seq(Message), NEW c2 \in Seq(Message), Follows(c, o, c2),
           NEW s, NEW ds, NEW t, NEW dt, NEW s2, NEW ds2, NEW t2, NEW dt2,
           ToImporter(c, Untouched(t, dt), Clean(t, dt), Settled(s, ds)),
           Holds(t, dt, t2, dt2, Settled(s2, ds2)), Calmer(s, ds, s2, ds2), Plain(o, Settled(s2, ds2))
    PROVE  ToImporter(c2, Untouched(t2, dt2), Clean(t2, dt2), Settled(s2, ds2))
<1>0. /\ Untouched(t, dt) => Untouched(t2, dt2)
      /\ Clean(t, dt) => Clean(t2, dt2)
      /\ Settled(s, ds) => Settled(s2, ds2)
    BY DEF Holds, Calmer
<1>1. ASSUME NEW k \in 1..Len(c2)
      PROVE  /\ c2[k].type = "Discover" => Untouched(t2, dt2)
             /\ c2[k].type = "ExportDir" => Clean(t2, dt2)
             /\ Claims(c2[k]) => Untouched(t2, dt2) \/ Settled(s2, ds2)
    <2>1. CASE \E i \in 1..Len(c) : c2[k] = c[i]
        BY <1>0, <2>1 DEF ToImporter
    <2>2. CASE \E i \in 1..Len(o) : c2[k] = o[i]
        BY <2>2 DEF Plain, Tame
    <2> QED
        BY <2>1, <2>2, FollowsIs
<1>2. ASSUME NEW j \in 1..Len(c2), NEW k \in 1..Len(c2), j < k
      PROVE  /\ c2[j].type = "Discover" => c2[k].type # "Discover" /\ (Claims(c2[k]) => Settled(s2, ds2))
             /\ c2[j].type = "ExportDir" => c2[k].type # "ExportDir"
    <2>1. CASE \E i \in 1..Len(c), l \in 1..Len(c) : i < l /\ c2[j] = c[i] /\ c2[k] = c[l]
        BY <1>0, <2>1 DEF ToImporter
    <2>2. CASE \E l \in 1..Len(o) : c2[k] = o[l]
        BY <2>2 DEF Plain, Tame
    <2> QED
        BY <1>2, <2>1, <2>2, FollowsIs
<1> QED
    BY <1>1, <1>2 DEF ToImporter

LEMMA ExporterHears ==
    ASSUME NEW c \in Seq(Message), NEW o \in Seq(Message), NEW c2 \in Seq(Message), Follows(c, o, c2),
           NEW s, NEW ds, NEW t, NEW dt, NEW s2, NEW ds2, NEW t2, NEW dt2,
           ToExporter(c, Bound(t, dt), Settled(s, ds)), Calmer(s, ds, s2, ds2),
           Holds(t, dt, t2, dt2, Settled(s2, ds2)), Acks(o, t2, dt2, s2, ds2)
    PROVE  ToExporter(c2, Bound(t2, dt2), Settled(s2, ds2))
<1>1. ASSUME NEW k \in 1..Len(c2), c2[k].type = "ExportDirAck"
      PROVE  Bound(t2, dt2) \/ Settled(s2, ds2)
    <2>1. CASE \E i \in 1..Len(c) : c2[k] = c[i]
        BY <1>1, <2>1 DEF ToExporter, Calmer, Holds
    <2>2. CASE \E i \in 1..Len(o) : c2[k] = o[i]
        BY <1>1, <2>2 DEF Acks
    <2> QED
        BY <2>1, <2>2, FollowsIs
<1> QED
    BY <1>1 DEF ToExporter

LEMMA ShrinksOf ==
    ASSUME NEW c \in Seq(Message), NEW c2 \in Seq(Message), Shrinks(c, c2)
    PROVE  /\ \A k \in 1..Len(c2) : \E i \in 1..Len(c) : c2[k] = c[i]
           /\ \A j, k \in 1..Len(c2) : j < k =>
                \E i \in 1..Len(c), l \in 1..Len(c) : i < l /\ c2[j] = c[i] /\ c2[k] = c[l]
<1>1. Len(c) \in Nat /\ Len(c2) \in Nat
    BY LenProperties
<1>2. PICK n \in 0..Len(c) : \A k \in 1..Len(c2) : k + n <= Len(c) /\ c2[k] = c[k + n]
    BY DEF Shrinks
<1>3. \A k \in 1..Len(c2) : k + n \in 1..Len(c) /\ c2[k] = c[k + n]
    BY <1>1, <1>2
<1>4. \A j, k \in 1..Len(c2) : j < k => j + n < k + n
    BY <1>1
<1> QED
    BY <1>3, <1>4

LEMMA ShrinksWithout ==
    ASSUME NEW c \in Seq(Message), NEW c2 \in Seq(Message), Shrinks(c, c2)
    PROVE  /\ Without(c, "Discover") => Without(c2, "Discover")
           /\ Without(c, "ExportDir") => Without(c2, "ExportDir")
<1>1. ASSUME NEW type, Without(c, type), NEW k \in 1..Len(c2)
      PROVE  c2[k].type # type
    <2>1. PICK i \in 1..Len(c) : c2[k] = c[i]
        BY ShrinksOf
    <2> QED
        BY <1>1, <2>1 DEF Without
<1>2. ASSUME NEW type, Without(c, type)
      PROVE  Without(c2, type)
    BY <1>1, <1>2 DEF Without
<1> QED
    BY <1>2

LEMMA ImporterShrinks ==
    ASSUME NEW c \in Seq(Message), NEW c2 \in Seq(Message), Shrinks(c, c2),
           NEW s, NEW ds, NEW t, NEW dt, NEW t2, NEW dt2,
           ToImporter(c, Untouched(t, dt), Clean(t, dt), Settled(s, ds)),
           Holds(t, dt, t2, dt2, Settled(s, ds))
    PROVE  ToImporter(c2, Untouched(t2, dt2), Clean(t2, dt2), Settled(s, ds))
<1>0. /\ Untouched(t, dt) => Untouched(t2, dt2)
      /\ Clean(t, dt) => Clean(t2, dt2)
    BY DEF Holds
<1>1. ASSUME NEW k \in 1..Len(c2)
      PROVE  /\ c2[k].type = "Discover" => Untouched(t2, dt2)
             /\ c2[k].type = "ExportDir" => Clean(t2, dt2)
             /\ Claims(c2[k]) => Untouched(t2, dt2) \/ Settled(s, ds)
    <2>1. PICK i \in 1..Len(c) : c2[k] = c[i]
        BY ShrinksOf
    <2> QED
        BY <1>0, <2>1 DEF ToImporter
<1>2. ASSUME NEW j \in 1..Len(c2), NEW k \in 1..Len(c2), j < k
      PROVE  /\ c2[j].type = "Discover" => c2[k].type # "Discover" /\ (Claims(c2[k]) => Settled(s, ds))
             /\ c2[j].type = "ExportDir" => c2[k].type # "ExportDir"
    <2>1. PICK i \in 1..Len(c), l \in 1..Len(c) : i < l /\ c2[j] = c[i] /\ c2[k] = c[l]
        BY <1>2, ShrinksOf
    <2> QED
        BY <1>0, <2>1 DEF ToImporter
<1> QED
    BY <1>1, <1>2 DEF ToImporter

LEMMA ExporterShrinks ==
    ASSUME NEW c \in Seq(Message), NEW c2 \in Seq(Message), Shrinks(c, c2),
           NEW s, NEW ds, NEW t, NEW dt, NEW s2, NEW ds2,
           ToExporter(c, Bound(t, dt), Settled(s, ds)), Calmer(s, ds, s2, ds2)
    PROVE  ToExporter(c2, Bound(t, dt), Settled(s2, ds2))
<1>1. ASSUME NEW k \in 1..Len(c2), c2[k].type = "ExportDirAck"
      PROVE  Bound(t, dt) \/ Settled(s2, ds2)
    <2>1. PICK i \in 1..Len(c) : c2[k] = c[i]
        BY ShrinksOf
    <2> QED
        BY <1>1, <2>1 DEF ToExporter, Calmer
<1> QED
    BY <1>1 DEF ToExporter

-----------------------------------------------------------------------------
(* The pair of exporter and importer, when one of them takes a step.       *)
LEMMA PairExporter ==
    ASSUME NEW s, NEW ds, NEW t, NEW dt, NEW s2, NEW ds2,
           NEW st \in Seq(Message), NEW ts \in Seq(Message), NEW st2 \in Seq(Message), NEW ts2 \in Seq(Message),
           NEW o \in Seq(Message), PairOK(s, ds, t, dt, st, ts), Ahead(s, s2),
           ds2 # "mine" \/ s2.exp.state = "loggingfinish" => Bound(t, dt),
           Calmer(s, ds, s2, ds2),
           Follows(st, o, st2), Plain(o, Settled(s2, ds2)), Shrinks(ts, ts2)
    PROVE  PairOK(s2, ds2, t, dt, st2, ts2)
<1>1. /\ s2.exp.state = "locking" => Untouched(t, dt) /\ Without(st, "Discover")
      /\ s2.exp.state \in Early => Clean(t, dt) /\ Without(st, "ExportDir")
      /\ ToImporter(st, Untouched(t, dt), Clean(t, dt), Settled(s, ds))
      /\ ToExporter(ts, Bound(t, dt), Settled(s, ds))
    BY DEF PairOK, Ahead
<1>2. /\ Without(st, "Discover") => Without(st2, "Discover")
      /\ Without(st, "ExportDir") => Without(st2, "ExportDir")
    BY PlainWithout
<1>2a. Holds(t, dt, t, dt, Settled(s2, ds2))
    BY DEF Holds
<1>3. ToImporter(st2, Untouched(t, dt), Clean(t, dt), Settled(s2, ds2))
    BY <1>1, <1>2a, ImporterHears
<1>4. ToExporter(ts2, Bound(t, dt), Settled(s2, ds2))
    BY <1>1, ExporterShrinks
<1> QED
    BY <1>1, <1>2, <1>3, <1>4 DEF PairOK

LEMMA PairImporter ==
    ASSUME NEW s, NEW ds, NEW t, NEW dt, NEW t2, NEW dt2,
           NEW st \in Seq(Message), NEW ts \in Seq(Message), NEW st2 \in Seq(Message), NEW ts2 \in Seq(Message),
           NEW o \in Seq(Message), PairOK(s, ds, t, dt, st, ts), Holds(t, dt, t2, dt2, Settled(s, ds)),
           Shrinks(st, st2), Follows(ts, o, ts2), Acks(o, t2, dt2, s, ds)
    PROVE  PairOK(s, ds, t2, dt2, st2, ts2)
<1>1. /\ Clean(t, dt) => Clean(t2, dt2)
      /\ Untouched(t, dt) => Untouched(t2, dt2)
      /\ Bound(t, dt) => Bound(t2, dt2) \/ Settled(s, ds)
    BY DEF Holds
<1>4. Calmer(s, ds, s, ds)
    BY DEF Calmer
<1>5. /\ Without(st, "Discover") => Without(st2, "Discover")
      /\ Without(st, "ExportDir") => Without(st2, "ExportDir")
    BY ShrinksWithout
<1>6. ToImporter(st2, Untouched(t2, dt2), Clean(t2, dt2), Settled(s, ds))
    <2>1. ToImporter(st, Untouched(t, dt), Clean(t, dt), Settled(s, ds))
        BY DEF PairOK
    <2> QED
        BY <2>1, ImporterShrinks
<1>7. ToExporter(ts2, Bound(t2, dt2), Settled(s, ds))
    <2>1. ToExporter(ts, Bound(t, dt), Settled(s, ds))
        BY DEF PairOK
    <2> QED
        BY <1>4, <2>1, ExporterHears
<1>8. ds # "mine" \/ s.exp.state = "loggingfinish" => ~Settled(s, ds)
    BY DEF Settled
<1> QED
    BY <1>1, <1>5, <1>6, <1>7, <1>8 DEF PairOK

-----------------------------------------------------------------------------
(* More is known once the EExport is safe, or once the export is over.     *)
LEMMA JournalGrows ==
    ASSUME NEW s, NEW D, NEW d, NEW gone, NEW settled, NEW gone2, NEW settled2,
           gone => gone2, settled => settled2
    PROVE  /\ JournalOK(s, d, gone) => JournalOK(s, d, gone2)
           /\ Undecided(s, D, gone, settled) => Undecided(s, D, gone2, settled2)
<1>1. JournalOK(s, d, gone) => JournalOK(s, d, gone2)
    BY DEF JournalOK
<1>2. Undecided(s, D, gone, settled) => Undecided(s, D, gone2, settled2)
    BY DEF Undecided
<1> QED
    BY <1>1, <1>2

LEMMA ImporterGrows ==
    ASSUME NEW s, NEW D, NEW d, NEW gone, NEW settled, NEW gone2, NEW settled2,
           gone => gone2, settled => settled2, ImporterOK(s, D, d, gone, settled)
    PROVE  ImporterOK(s, D, d, gone2, settled2)
<1>1. /\ JournalOK(s, d, gone) => JournalOK(s, d, gone2)
      /\ Undecided(s, D, gone, settled) => Undecided(s, D, gone2, settled2)
    BY JournalGrows
<1> QED
    BY <1>1 DEF ImporterOK

LEMMA RankGrows ==
    ASSUME NEW s, NEW D, NEW d, NEW gone, NEW settled, NEW gone2, NEW settled2,
           gone => gone2, settled => settled2, RankOK(s, D, d, gone, settled)
    PROVE  RankOK(s, D, d, gone2, settled2)
<1>1. ImporterOK(s, D, d, gone, settled) => ImporterOK(s, D, d, gone2, settled2)
    BY ImporterGrows
<1> QED
    BY <1>1 DEF RankOK

LEMMA MsgGrows ==
    ASSUME NEW x, NEW y, NEW m, NEW D, NEW gone, NEW gone2, gone => gone2, MsgOK(x, y, m, D, gone)
    PROVE  MsgOK(x, y, m, D, gone2)
    BY DEF MsgOK

-----------------------------------------------------------------------------
(* One rank takes a step: it may send, and some of what is on its way may  *)
(* have been taken from the head of a connection.                          *)
Typed(nd, nt, du) ==
    nd \in [Ranks -> RankState] /\ nt \in Net /\ du \in [Ranks -> DurableState]
Shrunk(nt, nt2) == \A x, y \in Ranks : Shrinks(nt[x][y], nt2[x][y])
Wire(nt, nt2, r, out) ==
    /\ nt2 \in Net
    /\ \A x, y \in Ranks : x # r => Shrinks(nt[x][y], nt2[x][y])
    /\ \A y \in Ranks : Follows(nt[r][y], out[y], nt2[r][y])
Only(r, al, nd, du, al2, nd2, du2) ==
    \A q \in Ranks : q # r => nd2[q] = nd[q] /\ du2[q] = du[q] /\ (q \in al2 <=> q \in al)
Sends(r, out, D, gone) ==
    /\ out \in [Ranks -> Seq(Message)]
    /\ \A y \in Ranks : \A k \in 1..Len(out[y]) : MsgOK(r, y, out[y][k], D, gone)

LEMMA NetGrows ==
    ASSUME NEW D, NEW nt \in Net, NEW nt2, NEW gone, NEW gone2, gone => gone2, NetOK(D, nt, gone),
           NEW r \in Ranks, NEW out, Wire(nt, nt2, r, out), Sends(r, out, D, gone2)
    PROVE  NetOK(D, nt2, gone2)
<1> SUFFICES ASSUME NEW x \in Ranks, NEW y \in Ranks, NEW k \in 1..Len(nt2[x][y])
             PROVE  MsgOK(x, y, nt2[x][y][k], D, gone2)
    BY DEF NetOK
<1>1. nt[x][y] \in Seq(Message) /\ nt2[x][y] \in Seq(Message) /\ out[y] \in Seq(Message)
    BY DEF Net, Wire, Sends
<1>2. ASSUME NEW i \in 1..Len(nt[x][y]), nt2[x][y][k] = nt[x][y][i]
      PROVE  MsgOK(x, y, nt2[x][y][k], D, gone2)
    BY <1>2, MsgGrows DEF NetOK
<1>3. CASE x # r
    <2>1. Shrinks(nt[x][y], nt2[x][y])
        BY <1>3 DEF Wire
    <2>2. PICK i \in 1..Len(nt[x][y]) : nt2[x][y][k] = nt[x][y][i]
        BY <1>1, <2>1, ShrinksOf
    <2> QED
        BY <1>2, <2>2
<1>4. CASE x = r
    <2>1. Follows(nt[x][y], out[y], nt2[x][y])
        BY <1>4 DEF Wire
    <2>2. \/ \E i \in 1..Len(nt[x][y]) : nt2[x][y][k] = nt[x][y][i]
          \/ \E i \in 1..Len(out[y]) : nt2[x][y][k] = out[y][i]
        BY <1>1, <2>1, FollowsIs
    <2>3. CASE \E i \in 1..Len(out[y]) : nt2[x][y][k] = out[y][i]
        BY <1>4, <2>3 DEF Sends
    <2> QED
        BY <1>2, <2>2, <2>3
<1> QED
    BY <1>3, <1>4

LEMMA WorldStep ==
    ASSUME NEW D, NEW al, NEW nd, NEW nt, NEW du, Typed(nd, nt, du), World(D, al, nd, nt, du),
           NEW r \in Ranks, NEW al2, NEW nd2, NEW nt2, NEW du2, NEW out,
           Only(r, al, nd, du, al2, nd2, du2), nd2[r].me = r,
           r \in al2 => RankOK(nd2[r], D, du2[r], Gone0(du2), Settled0(nd2, du2)),
           r \notin al2 => Idle(nd2[r]), DurableOK(D, du2),
           Gone0(du) => Gone0(du2), Settled0(nd, du) => Settled0(nd2, du2),
           Wire(nt, nt2, r, out), Sends(r, out, D, Gone0(du2)),
           D = NONE => du2[E] = "mine",
           D # NONE => PairOK(nd2[E], du2[E], nd2[D], du2[D], nt2[E][D], nt2[D][E])
    PROVE  World(D, al2, nd2, nt2, du2)
<1>1. RanksOK(D, al2, nd2, du2)
    <2> SUFFICES ASSUME NEW q \in Ranks
                 PROVE  /\ nd2[q].me = q
                        /\ q \in al2 => RankOK(nd2[q], D, du2[q], Gone0(du2), Settled0(nd2, du2))
                        /\ q \notin al2 => Idle(nd2[q])
        BY DEF RanksOK
    <2>1. CASE q = r
        BY <2>1
    <2>2. CASE q # r
        <3>1. nd2[q] = nd[q] /\ du2[q] = du[q] /\ (q \in al2 <=> q \in al)
            BY <2>2 DEF Only
        <3>2. /\ nd[q].me = q
              /\ q \in al => RankOK(nd[q], D, du[q], Gone0(du), Settled0(nd, du))
              /\ q \notin al => Idle(nd[q])
            BY DEF World, RanksOK
        <3>3. RankOK(nd[q], D, du[q], Gone0(du), Settled0(nd, du))
                => RankOK(nd[q], D, du[q], Gone0(du2), Settled0(nd2, du2))
            BY RankGrows
        <3> QED
            BY <3>1, <3>2, <3>3
    <2> QED
        BY <2>1, <2>2
<1>2. NetOK(D, nt2, Gone0(du2))
    <2>1. NetOK(D, nt, Gone0(du)) /\ nt \in Net
        BY DEF World, Typed
    <2> QED
        BY <2>1, NetGrows
<1>3. D # NONE => D \in Ranks \ {E}
    BY DEF World
<1> QED
    BY <1>1, <1>2, <1>3 DEF World

Becomes(r, t, e, al, nd, du, al2, nd2, du2) ==
    Only(r, al, nd, du, al2, nd2, du2) /\ nd2[r] = t /\ du2[r] = e

LEMMA OwnerIsRank ==
    E \in Ranks /\ E # NONE
    BY RanksAssumption DEF E

LEMMA WorldIs ==
    ASSUME NEW D, NEW al, NEW nd, NEW nt, NEW du, Typed(nd, nt, du), World(D, al, nd, nt, du)
    PROVE  /\ D \in Ranks \cup {NONE} /\ D # E
           /\ D # NONE => D \in Ranks /\ PairOK(nd[E], du[E], nd[D], du[D], nt[E][D], nt[D][E])
           /\ D = NONE => du[E] = "mine"
           /\ DurableOK(D, du) /\ NetOK(D, nt, Gone0(du)) /\ nt \in Net
           /\ du[E] \in {"mine", "none"}
           /\ \A r \in Ranks :
                /\ nd[r] \in RankState /\ nd[r].me = r
                /\ r \in al => RankOK(nd[r], D, du[r], Gone0(du), Settled0(nd, du))
                /\ r \notin al => Idle(nd[r])
           /\ \A x, y \in Ranks : nt[x][y] \in Seq(Message)
<1>1. D # NONE => D \in Ranks \ {E}
    BY DEF World
<1>2. D \in Ranks \cup {NONE} /\ D # E
    BY <1>1, OwnerIsRank
<1>3. DurableOK(D, du) /\ NetOK(D, nt, Gone0(du)) /\ nt \in Net /\ du[E] \in {"mine", "none"}
    BY DEF World, Typed, DurableOK
<1>4. \A r \in Ranks :
         /\ nd[r] \in RankState /\ nd[r].me = r
         /\ r \in al => RankOK(nd[r], D, du[r], Gone0(du), Settled0(nd, du))
         /\ r \notin al => Idle(nd[r])
    BY DEF World, RanksOK, Typed
<1>5. \A x, y \in Ranks : nt[x][y] \in Seq(Message)
    BY <1>3 DEF Net
<1> QED
    BY <1>1, <1>2, <1>3, <1>4, <1>5 DEF World

LEMMA SpeaksSends ==
    ASSUME NEW t \in RankState, NEW D, NEW gone, NEW may, Speaks(t, D, gone, may)
    PROVE  Sends(t.me, t.out, D, gone)
<1>1. t.out \in [Ranks -> Seq(Message)]
    BY RankFields
<1> QED
    BY <1>1 DEF Speaks, Fit, Sends

(* The exporter takes a step, with the effect e on its journal.            *)
LEMMA WorldExporter ==
    ASSUME NEW D, NEW al, NEW nd, NEW nt, NEW du, Typed(nd, nt, du), World(D, al, nd, nt, du),
           NEW t, NEW e, NEW al2, NEW nd2, NEW nt2, NEW du2, Becomes(E, t, e, al, nd, du, al2, nd2, du2),
           E \in al2, Exporter(t, D, e), Ahead(nd[E], t), e \in {"mine", "none"},
           du[E] # "mine" => e # "mine", D = NONE => e = "mine",
           D # NONE /\ (e # "mine" \/ t.exp.state = "loggingfinish") => Bound(nd[D], du[D]),
           Settled(nd[E], du[E]) => e = "mine", Wire(nt, nt2, E, t.out)
    PROVE  World(D, al2, nd2, nt2, du2)
<1>1. /\ D \in Ranks \cup {NONE} /\ D # E /\ DurableOK(D, du)
      /\ D # NONE => D \in Ranks /\ PairOK(nd[E], du[E], nd[D], du[D], nt[E][D], nt[D][E])
      /\ \A x, y \in Ranks : nt[x][y] \in Seq(Message)
    BY WorldIs
<1>2. /\ nd2[E] = t /\ du2[E] = e
      /\ \A q \in Ranks : q # E => nd2[q] = nd[q] /\ du2[q] = du[q]
      /\ Only(E, al, nd, du, al2, nd2, du2)
    BY DEF Becomes, Only
<1>3. t \in RankState /\ t.me = E /\ ExporterOK(t, D, e) /\ Speaks(t, D, e # "mine", May(t, e # "mine"))
    BY DEF Exporter
<1>4. RankOK(nd2[E], D, du2[E], Gone0(du2), Settled0(nd2, du2)) /\ nd2[E].me = E
    BY <1>1, <1>2, <1>3 DEF RankOK
<1>5. DurableOK(D, du2)
    BY <1>1, <1>2 DEF DurableOK, Gone0
<1>6. Gone0(du) => Gone0(du2)
    BY <1>2 DEF Gone0
<1>7. Calmer(nd[E], du[E], t, e)
    BY DEF Calmer, Settled, Ahead
<1>8. Settled0(nd, du) => Settled0(nd2, du2)
    BY <1>2, <1>7 DEF Settled0, Calmer
<1>9. Sends(E, t.out, D, Gone0(du2))
    <2>1. Sends(t.me, t.out, D, e # "mine")
        BY <1>3, SpeaksSends
    <2> QED
        BY <1>2, <1>3, <2>1 DEF Gone0
<1>10. ASSUME D # NONE
       PROVE  PairOK(nd2[E], du2[E], nd2[D], du2[D], nt2[E][D], nt2[D][E])
    <2>1. D \in Ranks /\ nd2[D] = nd[D] /\ du2[D] = du[D] /\ E \in Ranks
        BY <1>1, <1>2, <1>10, OwnerIsRank
    <2>2. /\ nt[E][D] \in Seq(Message) /\ nt[D][E] \in Seq(Message) /\ t.out[D] \in Seq(Message)
          /\ nt2[E][D] \in Seq(Message) /\ nt2[D][E] \in Seq(Message)
        BY <1>1, <1>9, <2>1 DEF Wire, Net, Sends
    <2>3. Follows(nt[E][D], t.out[D], nt2[E][D]) /\ Shrinks(nt[D][E], nt2[D][E])
        BY <1>1, <2>1 DEF Wire
    <2>4. Plain(t.out[D], Settled(t, e))
        <3> SUFFICES ASSUME NEW k \in 1..Len(t.out[D])
                     PROVE  Tame(t.out[D][k]) /\ (Claims(t.out[D][k]) => Settled(t, e))
            BY DEF Plain
        <3>1. Fit(E, D, t.out[D][k], D, e # "mine", May(t, e # "mine"))
            BY <1>3, <2>1 DEF Speaks
        <3> QED
            BY <3>1 DEF Fit, May, Settled
    <2>5. e # "mine" \/ t.exp.state = "loggingfinish" => Bound(nd[D], du[D])
        BY <1>10
    <2>6. PairOK(nd[E], du[E], nd[D], du[D], nt[E][D], nt[D][E])
        BY <1>1, <1>10
    <2>7. PairOK(t, e, nd[D], du[D], nt2[E][D], nt2[D][E])
        BY <1>7, <2>2, <2>3, <2>4, <2>5, <2>6, PairExporter
    <2> QED
        BY <1>2, <2>1, <2>7
<1>11. D = NONE => du2[E] = "mine"
    BY <1>2
<1> QED
    BY <1>2, <1>4, <1>5, <1>6, <1>8, <1>9, <1>10, <1>11, OwnerIsRank, WorldStep

(* The importer takes a step.                                              *)
LEMMA WorldImporter ==
    ASSUME NEW D, NEW al, NEW nd, NEW nt, NEW du, Typed(nd, nt, du), World(D, al, nd, nt, du),
           NEW t, NEW e, NEW al2, NEW nd2, NEW nt2, NEW du2, Becomes(D, t, e, al, nd, du, al2, nd2, du2),
           D \in al2, Importing(t, D, e, Gone0(du), Settled0(nd, du)),
           e = "mine" => Gone0(du), Wire(nt, nt2, D, t.out),
           PairOK(nd[E], du[E], t, e, nt2[E][D], nt2[D][E])
    PROVE  World(D, al2, nd2, nt2, du2)
<1>1. /\ DurableOK(D, du) /\ D \in Ranks /\ D # E /\ E \in Ranks /\ D # NONE
    BY WorldIs, OwnerIsRank, RanksAssumption DEF Importing
<1>2. /\ nd2[D] = t /\ du2[D] = e
      /\ \A q \in Ranks : q # D => nd2[q] = nd[q] /\ du2[q] = du[q]
      /\ Only(D, al, nd, du, al2, nd2, du2)
    BY DEF Becomes, Only
<1>2a. nd2[E] = nd[E] /\ du2[E] = du[E]
    BY <1>1, <1>2
<1>3. t \in RankState /\ t.me = D /\ Speaks(t, D, Gone0(du), FALSE)
      /\ ImporterOK(t, D, e, Gone0(du), Settled0(nd, du))
    BY DEF Importing
<1>4. /\ Gone0(du) => Gone0(du2)
      /\ Settled0(nd, du) => Settled0(nd2, du2)
    BY <1>2a DEF Gone0, Settled0
<1>5. RankOK(nd2[D], D, du2[D], Gone0(du2), Settled0(nd2, du2)) /\ nd2[D].me = D
    <2>1. ImporterOK(t, D, e, Gone0(du2), Settled0(nd2, du2))
        BY <1>3, <1>4, ImporterGrows
    <2> QED
        BY <1>1, <1>2, <1>3, <2>1 DEF RankOK
<1>6. DurableOK(D, du2)
    BY <1>1, <1>2, <1>2a DEF DurableOK, Gone0
<1>7. Sends(D, t.out, D, Gone0(du2))
    <2>1. Sends(t.me, t.out, D, Gone0(du))
        BY <1>3, SpeaksSends
    <2> QED
        BY <1>2a, <1>3, <2>1 DEF Gone0
<1>8. PairOK(nd2[E], du2[E], nd2[D], du2[D], nt2[E][D], nt2[D][E])
    BY <1>2, <1>2a
<1> QED
    BY <1>1, <1>2, <1>4, <1>5, <1>6, <1>7, <1>8, WorldStep

LEMMA FollowsShrinks ==
    ASSUME NEW c, NEW c2
    PROVE  Shrinks(c, c2) => \A o : Follows(c, o, c2)
    BY DEF Shrinks, Follows

(* ... and keeps what the exporter counts on.                              *)
LEMMA WorldImported ==
    ASSUME NEW D, NEW al, NEW nd, NEW nt, NEW du, Typed(nd, nt, du), World(D, al, nd, nt, du),
           NEW t, NEW e, NEW al2, NEW nd2, NEW nt2, NEW du2, Becomes(D, t, e, al, nd, du, al2, nd2, du2),
           D \in al2, Importing(t, D, e, Gone0(du), Settled0(nd, du)),
           Holds(nd[D], du[D], t, e, Settled0(nd, du)),
           e = "mine" => Gone0(du), Wire(nt, nt2, D, t.out)
    PROVE  World(D, al2, nd2, nt2, du2)
<1>1. D \in Ranks /\ D # E /\ E \in Ranks /\ D # NONE
    BY OwnerIsRank, RanksAssumption DEF Importing
<1>2. /\ PairOK(nd[E], du[E], nd[D], du[D], nt[E][D], nt[D][E])
      /\ nt[E][D] \in Seq(Message) /\ nt[D][E] \in Seq(Message)
    BY <1>1, WorldIs
<1>3. t \in RankState /\ t.me = D /\ Speaks(t, D, Gone0(du), FALSE)
    BY DEF Importing
<1>4. t.out[E] \in Seq(Message) /\ nt2[E][D] \in Seq(Message) /\ nt2[D][E] \in Seq(Message)
    BY <1>1, <1>3, RankFields DEF Wire, Net
<1>5. Shrinks(nt[E][D], nt2[E][D]) /\ Follows(nt[D][E], t.out[E], nt2[D][E])
    BY <1>1 DEF Wire
<1>6. Acks(t.out[E], t, e, nd[E], du[E])
    <2> SUFFICES ASSUME NEW k \in 1..Len(t.out[E])
                 PROVE  t.out[E][k].type # "ExportDirAck"
        BY DEF Acks
    <2>1. Fit(D, E, t.out[E][k], D, Gone0(du), FALSE)
        BY <1>1, <1>3 DEF Speaks
    <2> QED
        BY <2>1 DEF Fit, Tame
<1>7. Holds(nd[D], du[D], t, e, Settled(nd[E], du[E]))
    BY DEF Settled0
<1>8. PairOK(nd[E], du[E], t, e, nt2[E][D], nt2[D][E])
    BY <1>2, <1>4, <1>5, <1>6, <1>7, PairImporter
<1> QED
    BY <1>8, WorldImporter

LEMMA PairShrinks ==
    ASSUME NEW s, NEW ds, NEW t, NEW dt,
           NEW st \in Seq(Message), NEW ts \in Seq(Message), NEW st2 \in Seq(Message), NEW ts2 \in Seq(Message),
           PairOK(s, ds, t, dt, st, ts), Shrinks(st, st2), Shrinks(ts, ts2)
    PROVE  PairOK(s, ds, t, dt, st2, ts2)
<1>1. PICK o : o = <<>> /\ o \in Seq(Message) /\ Len(o) = 0
    BY EmptySeq
<1>2. Holds(t, dt, t, dt, Settled(s, ds))
    BY DEF Holds
<1>3. Acks(o, t, dt, s, ds)
    BY <1>1 DEF Acks
<1>4. Follows(ts, o, ts2)
    BY FollowsShrinks
<1>5. o \in Seq(Message)
    BY <1>1
<1> HIDE <1>1
<1> QED
    BY <1>2, <1>3, <1>4, <1>5, PairImporter

(* What a rank that takes no part in the export does.                      *)
LEMMA WorldStander ==
    ASSUME NEW D, NEW al, NEW nd, NEW nt, NEW du, Typed(nd, nt, du), World(D, al, nd, nt, du),
           NEW r \in Ranks, NEW t, NEW al2, NEW nd2, NEW nt2, NEW du2,
           Becomes(r, t, du[r], al, nd, du, al2, nd2, du2),
           r \in al2, t.me = r, Standing(t, D, Gone0(du)), Wire(nt, nt2, r, t.out)
    PROVE  World(D, al2, nd2, nt2, du2)
<1>1. r # E /\ r # D /\ t \in RankState /\ BystanderOK(t, D) /\ Speaks(t, D, Gone0(du), FALSE)
    BY DEF Standing
<1>2. /\ nd2[r] = t /\ du2[r] = du[r] /\ Only(r, al, nd, du, al2, nd2, du2)
      /\ \A q \in Ranks : du2[q] = du[q]
      /\ nd2[E] = nd[E] /\ (D \in Ranks => nd2[D] = nd[D])
    BY <1>1, OwnerIsRank DEF Becomes, Only
<1>3. /\ DurableOK(D, du) /\ D \in Ranks \cup {NONE}
      /\ D = NONE => du[E] = "mine"
      /\ D # NONE => D \in Ranks /\ PairOK(nd[E], du[E], nd[D], du[D], nt[E][D], nt[D][E])
      /\ \A x, y \in Ranks : nt[x][y] \in Seq(Message)
    BY WorldIs
<1>4. du2[E] = du[E] /\ DurableOK(D, du2)
    BY <1>2, <1>3, OwnerIsRank DEF DurableOK, Gone0
<1>5. /\ Gone0(du) => Gone0(du2)
      /\ Settled0(nd, du) => Settled0(nd2, du2)
    BY <1>2, <1>4 DEF Gone0, Settled0
<1>6. RankOK(nd2[r], D, du2[r], Gone0(du2), Settled0(nd2, du2)) /\ nd2[r].me = r
    BY <1>1, <1>2 DEF RankOK
<1>7. Sends(r, t.out, D, Gone0(du2))
    <2>1. Sends(t.me, t.out, D, Gone0(du))
        BY <1>1, SpeaksSends
    <2> QED
        BY <1>4, <2>1 DEF Gone0
<1>8. ASSUME D # NONE
      PROVE  PairOK(nd2[E], du2[E], nd2[D], du2[D], nt2[E][D], nt2[D][E])
    <2>1. D \in Ranks /\ E \in Ranks /\ PairOK(nd[E], du[E], nd[D], du[D], nt[E][D], nt[D][E])
        BY <1>3, <1>8, OwnerIsRank
    <2>2. Shrinks(nt[E][D], nt2[E][D]) /\ Shrinks(nt[D][E], nt2[D][E])
        BY <1>1, <2>1 DEF Wire
    <2>3. nt2[E][D] \in Seq(Message) /\ nt2[D][E] \in Seq(Message)
        BY <2>1 DEF Wire, Net
    <2>4. PairOK(nd[E], du[E], nd[D], du[D], nt2[E][D], nt2[D][E])
        BY <1>3, <2>1, <2>2, <2>3, PairShrinks
    <2> QED
        BY <1>2, <2>1, <2>4
<1>9. D = NONE => du2[E] = "mine"
    BY <1>3, <1>4
<1> QED
    BY <1>2, <1>4, <1>5, <1>6, <1>7, <1>8, <1>9, WorldStep

(* Messages at the head of the connections go.                             *)
LEMMA WorldShrinks ==
    ASSUME NEW D, NEW al, NEW nd, NEW nt, NEW du, Typed(nd, nt, du), World(D, al, nd, nt, du),
           NEW nt2 \in Net, Shrunk(nt, nt2)
    PROVE  World(D, al, nd, nt2, du)
<1>1. /\ DurableOK(D, du) /\ RanksOK(D, al, nd, du) /\ NetOK(D, nt, Gone0(du))
      /\ D = NONE => du[E] = "mine"
      /\ D # NONE => D \in Ranks \ {E} /\ PairOK(nd[E], du[E], nd[D], du[D], nt[E][D], nt[D][E])
    BY DEF World
<1>2. NetOK(D, nt2, Gone0(du))
    <2> SUFFICES ASSUME NEW x \in Ranks, NEW y \in Ranks, NEW k \in 1..Len(nt2[x][y])
                 PROVE  MsgOK(x, y, nt2[x][y][k], D, Gone0(du))
        BY DEF NetOK
    <2>1. nt[x][y] \in Seq(Message) /\ nt2[x][y] \in Seq(Message) /\ Shrinks(nt[x][y], nt2[x][y])
        BY DEF Typed, Net, Shrunk
    <2>2. PICK i \in 1..Len(nt[x][y]) : nt2[x][y][k] = nt[x][y][i]
        BY <2>1, ShrinksOf
    <2> QED
        BY <1>1, <2>2 DEF NetOK
<1>3. ASSUME D # NONE
      PROVE  PairOK(nd[E], du[E], nd[D], du[D], nt2[E][D], nt2[D][E])
    <2>1. D \in Ranks /\ E \in Ranks
        BY <1>1, <1>3, OwnerIsRank
    <2>2. /\ nt[E][D] \in Seq(Message) /\ nt2[E][D] \in Seq(Message) /\ Shrinks(nt[E][D], nt2[E][D])
          /\ nt[D][E] \in Seq(Message) /\ nt2[D][E] \in Seq(Message) /\ Shrinks(nt[D][E], nt2[D][E])
        BY <2>1 DEF Typed, Net, Shrunk
    <2> QED
        BY <1>1, <1>3, <2>2, PairShrinks
<1> QED
    BY <1>1, <1>2, <1>3 DEF World

(* What a rank that runs does, unless it moves the export on.              *)
LEMMA WorldRole ==
    ASSUME NEW D, NEW al, NEW nd, NEW nt, NEW du, Typed(nd, nt, du), World(D, al, nd, nt, du),
           NEW r \in Ranks, r \in al, nd[r].out = NoOut, Peers(nd[r])
    PROVE  Role(nd[r], D, du[r], Gone0(du), Settled0(nd, du))
<1>1. PICK s : s = nd[r]
    OBVIOUS
<1>2. /\ D \in Ranks \cup {NONE} /\ D # E /\ s \in RankState /\ s.me = r
      /\ RankOK(s, D, du[r], Gone0(du), Settled0(nd, du))
    BY <1>1, WorldIs
<1>3. \A gone, may : Speaks(s, D, gone, may)
    <2>1. \A q \in Ranks : Len(s.out[q]) = 0
        BY <1>1, EmptySeq DEF NoOut
    <2> QED
        BY <2>1 DEF Speaks
<1>4. CASE r = E
    <2>1. ExporterOK(s, D, du[r])
        BY <1>2, <1>4 DEF RankOK
    <2>2. s.exp.state # "none" => D \in Ranks
        BY <1>1, <2>1 DEF ExporterOK, Peers, IsExporting
    <2>3. Exporter(s, D, du[r])
        BY <1>2, <1>3, <1>4, <2>1, <2>2 DEF Exporter
    <2>4. Gone0(du) = (du[r] # "mine")
        BY <1>4 DEF Gone0
    <2> QED
        BY <1>1, <1>2, <1>4, <2>3, <2>4 DEF Role
<1>5. CASE r = D
    <2>1. ImporterOK(s, D, du[r], Gone0(du), Settled0(nd, du))
        BY <1>2, <1>5 DEF RankOK
    <2>2. Gone0(du) \in BOOLEAN
        BY DEF Gone0
    <2>3. Importing(s, D, du[r], Gone0(du), Settled0(nd, du))
        BY <1>2, <1>3, <1>5, <2>1, <2>2 DEF Importing
    <2> QED
        BY <1>1, <1>2, <1>5, <2>3 DEF Role
<1>6. CASE r # E /\ r # D
    <2>1. BystanderOK(s, D)
        BY <1>2, <1>6 DEF RankOK
    <2>2. Gone0(du) \in BOOLEAN
        BY DEF Gone0
    <2>3. Standing(s, D, Gone0(du))
        BY <1>2, <1>3, <1>6, <2>1, <2>2 DEF Standing
    <2> QED
        BY <1>1, <2>3 DEF Role
<1> QED
    BY <1>4, <1>5, <1>6

LEMMA WorldGoes ==
    ASSUME NEW D, NEW al, NEW nd, NEW nt, NEW du, Typed(nd, nt, du), World(D, al, nd, nt, du),
           NEW r \in Ranks, NEW t, NEW al2, NEW nd2, NEW nt2, NEW du2,
           Becomes(r, t, du[r], al, nd, du, al2, nd2, du2), r \in al2,
           Role(t, D, du[r], Gone0(du), Settled0(nd, du)), Goes(nd[r], t, D, du[r], Settled0(nd, du)),
           Wire(nt, nt2, r, t.out)
    PROVE  World(D, al2, nd2, nt2, du2)
<1>1. nd[r].me = r /\ t.me = r
    BY WorldIs DEF Goes
<1>2. /\ r = E => Exporter(t, D, du[r]) /\ Onward(nd[r], t)
      /\ r = D => Importing(t, D, du[r], Gone0(du), Settled0(nd, du))
                  /\ Holds(nd[r], du[r], t, du[r], Settled0(nd, du))
      /\ r # E /\ r # D => Standing(t, D, Gone0(du))
    BY <1>1, RoleIs DEF Goes
<1>3. CASE r = E
    <2>1. /\ du[E] \in {"mine", "none"}
          /\ D = NONE => du[E] = "mine"
          /\ D # NONE => PairOK(nd[E], du[E], nd[D], du[D], nt[E][D], nt[D][E])
        BY WorldIs
    <2>2. Ahead(nd[E], t) /\ (t.exp.state = "loggingfinish" => nd[E].exp.state = "loggingfinish")
        BY <1>2, <1>3 DEF Onward, Ahead
    <2>3. D # NONE /\ (du[E] # "mine" \/ t.exp.state = "loggingfinish") => Bound(nd[D], du[D])
        BY <2>1, <2>2 DEF PairOK
    <2>4. Settled(nd[E], du[E]) => du[E] = "mine"
        BY DEF Settled
    <2>5. PICK e : e = du[E]
        OBVIOUS
    <2>6. Becomes(E, t, e, al, nd, du, al2, nd2, du2) /\ E \in al2 /\ Exporter(t, D, e) /\ Wire(nt, nt2, E, t.out)
        BY <1>2, <1>3, <2>5
    <2>7. /\ e \in {"mine", "none"} /\ (du[E] # "mine" => e # "mine") /\ (D = NONE => e = "mine")
          /\ D # NONE /\ (e # "mine" \/ t.exp.state = "loggingfinish") => Bound(nd[D], du[D])
          /\ Settled(nd[E], du[E]) => e = "mine"
        BY <2>1, <2>3, <2>4, <2>5
    <2> QED
        BY <2>2, <2>6, <2>7, WorldExporter
<1>4. CASE r = D
    <2>1. du[D] = "mine" => Gone0(du)
        BY <1>4, WorldIs DEF DurableOK
    <2> QED
        BY <1>2, <1>4, <2>1, WorldImported
<1>5. CASE r # E /\ r # D
    BY <1>1, <1>2, <1>5, WorldStander
<1> QED
    BY <1>3, <1>4, <1>5

(* A process is gone.                                                      *)
LEMMA WorldDies ==
    ASSUME NEW D, NEW al, NEW nd, NEW nt, NEW du, Typed(nd, nt, du), World(D, al, nd, nt, du),
           NEW r \in Ranks, NEW t, Idle(t), t.me = r, NEW al2, NEW nd2, NEW nt2 \in Net,
           Becomes(r, t, du[r], al, nd, du, al2, nd2, du), r \notin al2, Shrunk(nt, nt2)
    PROVE  World(D, al2, nd2, nt2, du)
<1>1. /\ D \in Ranks \cup {NONE} /\ D # E /\ DurableOK(D, du)
      /\ D = NONE => du[E] = "mine"
      /\ D # NONE => D \in Ranks /\ PairOK(nd[E], du[E], nd[D], du[D], nt[E][D], nt[D][E])
      /\ \A x, y \in Ranks : nt[x][y] \in Seq(Message)
    BY WorldIs
<1>2. /\ nd2[r] = t /\ Only(r, al, nd, du, al2, nd2, du)
      /\ \A q \in Ranks : q # r => nd2[q] = nd[q]
    BY DEF Becomes, Only
<1>3. Settled0(nd, du) => Settled0(nd2, du)
    <2>1. E = r \/ nd2[E] = nd[E]
        BY <1>2, OwnerIsRank
    <2> QED
        BY <1>2, <2>1 DEF Settled0, Settled, Idle
<1>4. PICK out : out = NoOut
    OBVIOUS
<1>5. out \in [Ranks -> Seq(Message)] /\ \A y \in Ranks : Len(out[y]) = 0
    BY <1>4, EmptySeq DEF NoOut
<1> HIDE <1>4
<1>6. Wire(nt, nt2, r, out)
    <2>1. \A y \in Ranks : Follows(nt[r][y], out[y], nt2[r][y])
        BY FollowsShrinks DEF Shrunk
    <2> QED
        BY <2>1 DEF Wire, Shrunk
<1>7. Sends(r, out, D, Gone0(du))
    BY <1>5 DEF Sends
<1>8. ASSUME D # NONE
      PROVE  PairOK(nd2[E], du[E], nd2[D], du[D], nt2[E][D], nt2[D][E])
    <2>1. D \in Ranks /\ E \in Ranks /\ PairOK(nd[E], du[E], nd[D], du[D], nt[E][D], nt[D][E])
        BY <1>1, <1>8, OwnerIsRank
    <2>2. Shrinks(nt[E][D], nt2[E][D]) /\ Shrinks(nt[D][E], nt2[D][E])
        BY <2>1 DEF Shrunk
    <2>3. /\ nt2[E][D] \in Seq(Message) /\ nt2[D][E] \in Seq(Message)
          /\ nt[E][D] \in Seq(Message) /\ nt[D][E] \in Seq(Message)
        BY <1>1, <2>1 DEF Net
    <2>4. out[D] \in Seq(Message) /\ out[E] \in Seq(Message) /\ Len(out[D]) = 0 /\ Len(out[E]) = 0
          /\ Follows(nt[E][D], out[D], nt2[E][D]) /\ Follows(nt[D][E], out[E], nt2[D][E])
        BY <1>5, <2>1, <2>2, FollowsShrinks
    <2>5. CASE r = E
        <3>1. Ahead(nd[E], t) /\ Calmer(nd[E], du[E], t, du[E])
            BY DEF Ahead, Calmer, Settled, Idle, Early
        <3>2. du[E] # "mine" \/ t.exp.state = "loggingfinish" => Bound(nd[D], du[D])
            BY <2>1 DEF PairOK, Idle
        <3>3. Plain(out[D], Settled(t, du[E]))
            BY <2>4 DEF Plain
        <3>4. PairOK(t, du[E], nd[D], du[D], nt2[E][D], nt2[D][E])
            BY <2>1, <2>2, <2>3, <2>4, <3>1, <3>2, <3>3, PairExporter
        <3> QED
            BY <1>1, <1>2, <2>1, <2>5, <3>4
    <2>6. CASE r = D
        <3>1. Holds(nd[D], du[D], t, du[D], Settled(nd[E], du[E]))
            <4>1. Len(t.log) = 0 /\ t.log = <<>> /\ t.imp.state = "none" /\ ~t.amb
                BY EmptySeq DEF Idle
            <4> QED
                BY <4>1 DEF Holds, Clean, Untouched, Bound
        <3>2. Acks(out[E], t, du[D], nd[E], du[E])
            BY <2>4 DEF Acks
        <3>3. PairOK(nd[E], du[E], t, du[D], nt2[E][D], nt2[D][E])
            BY <2>1, <2>2, <2>3, <2>4, <3>1, <3>2, PairImporter
        <3> QED
            BY <1>1, <1>2, <2>1, <2>6, <3>3
    <2>7. CASE r # E /\ r # D
        <3>1. nd2[E] = nd[E] /\ nd2[D] = nd[D]
            BY <1>2, <2>1, <2>7
        <3> QED
            BY <2>1, <2>2, <2>3, <3>1, PairShrinks
    <2> QED
        BY <2>5, <2>6, <2>7
<1> QED
    BY <1>1, <1>2, <1>3, <1>6, <1>7, <1>8, WorldStep

(* A standby that takes a rank over starts from what the journal says.     *)
Replays(r, map, e, d, s) ==
    s = [Fresh(r, map, e) EXCEPT !.auth = Replayed(r, d), !.amb = (d = "ambig"),
                                 !.isauth = (d = "mine"), !.gather = Ranks \ {r}]
LEMMA ReplaysIs ==
    ASSUME NEW r \in Ranks, NEW map \in MDSMap, NEW e \in Nat, NEW d \in DurableState,
           NEW s, Replays(r, map, e, d, s)
    PROVE  /\ s \in RankState /\ s.me = r /\ s.map = map /\ s.epoch = e /\ ~s.resolved
           /\ s.exp.state = "none" /\ s.imp.state = "none" /\ s.log = <<>> /\ s.wait = {}
           /\ s.frozen = "no" /\ s.other = {} /\ s.gather = Ranks \ {r} /\ s.out = NoOut
           /\ (s.isauth <=> d = "mine") /\ (s.amb <=> d = "ambig")
           /\ s.auth = Replayed(r, d) /\ s.auth \in MdsAuthority
<1>1. PICK f : f = Fresh(r, map, e)
    OBVIOUS
<1>2. f \in RankState
    BY <1>1, FreshSane
<1>3. PICK a : a = Replayed(r, d)
    OBVIOUS
<1>4. a \in MdsAuthority
    BY <1>3, Authorities DEF Replayed, DurableState
<1>5. PICK b, c, g : b = (d = "ambig") /\ c = (d = "mine") /\ g = Ranks \ {r}
    OBVIOUS
<1>6. s = [f EXCEPT !.auth = a, !.amb = b, !.isauth = c, !.gather = g]
    BY <1>1, <1>3, <1>5 DEF Replays
<1>7. b \in BOOLEAN /\ c \in BOOLEAN /\ g \in SUBSET Ranks
    BY <1>5
<1>8. /\ f.me = r /\ f.map = map /\ f.epoch = e /\ f.resolved = FALSE /\ f.exp = NoExport /\ f.imp = NoImport
      /\ f.log = <<>> /\ f.wait = {} /\ f.frozen = "no" /\ f.other = {} /\ f.out = NoOut
    BY <1>1 DEF Fresh
<1>9. /\ s \in RankState /\ s.me = f.me /\ s.map = f.map /\ s.epoch = f.epoch /\ s.resolved = f.resolved
      /\ s.exp = f.exp /\ s.imp = f.imp /\ s.log = f.log /\ s.wait = f.wait /\ s.frozen = f.frozen
      /\ s.other = f.other /\ s.gather = g /\ s.out = f.out /\ s.isauth = c /\ s.amb = b /\ s.auth = a
    BY <1>2, <1>4, <1>6, <1>7 DEF RankState
<1>10. s.exp.state = "none" /\ s.imp.state = "none"
    BY <1>8, <1>9 DEF NoExport, NoImport
<1>11. (s.isauth <=> d = "mine") /\ (s.amb <=> d = "ambig")
    BY <1>5, <1>9
<1>12. s.gather = Ranks \ {r} /\ s.auth = Replayed(r, d)
    BY <1>3, <1>5, <1>9
<1>13. s.resolved = FALSE
    BY <1>8, <1>9
<1> QED
    BY <1>4, <1>3, <1>8, <1>9, <1>10, <1>11, <1>12, <1>13

LEMMA ReplayedRole ==
    ASSUME NEW D, NEW al, NEW nd, NEW nt, NEW du, Typed(nd, nt, du), World(D, al, nd, nt, du),
           NEW r \in Ranks, NEW map \in MDSMap, map[r] = "resolve", NEW e \in Nat,
           NEW s, Replays(r, map, e, du[r], s)
    PROVE  Role(s, D, du[r], Gone0(du), Settled0(nd, du))
<1>1. du[r] \in DurableState
    BY DEF Typed
<1>2. /\ s \in RankState /\ s.me = r /\ s.map = map /\ ~s.resolved
      /\ s.exp.state = "none" /\ s.imp.state = "none" /\ s.log = <<>> /\ s.wait = {}
      /\ s.frozen = "no" /\ s.other = {} /\ s.gather = Ranks \ {r} /\ s.out = NoOut
      /\ (s.isauth <=> du[r] = "mine") /\ (s.amb <=> du[r] = "ambig")
      /\ s.auth = Replayed(r, du[r])
    BY <1>1, ReplaysIs
<1>3. /\ D \in Ranks \cup {NONE} /\ D # E /\ DurableOK(D, du)
    BY WorldIs
<1>4. \A gone, may : Speaks(s, D, gone, may)
    <2>1. \A q \in Ranks : Len(s.out[q]) = 0
        BY <1>2, EmptySeq DEF NoOut
    <2> QED
        BY <2>1 DEF Speaks
<1>5. Len(s.log) = 0
    BY <1>2, EmptySeq
<1>6. r # UNKNOWN
    BY RanksAssumption
<1>7. CASE r = E
    <2>1. du[r] \in {"mine", "none"}
        BY <1>3, <1>7 DEF DurableOK
    <2>2. s.auth[2] = UNKNOWN /\ (s.auth[1] = E <=> du[r] = "mine")
        BY <1>2, <1>6, <1>7, <2>1 DEF Replayed, Sole, UNDEF
    <2>3. StageOK(s, D, du[r])
        BY <1>2, <1>7, <2>2 DEF StageOK
    <2>4. ExporterOK(s, D, du[r])
        BY <1>2, <1>5, <2>1, <2>3 DEF ExporterOK
    <2>5. Gone0(du) = (du[r] # "mine")
        BY <1>7 DEF Gone0
    <2>6. Exporter(s, D, du[r])
        BY <1>2, <1>3, <1>4, <1>7, <2>4 DEF Exporter
    <2> QED
        BY <1>2, <1>7, <2>5, <2>6 DEF Role
<1>8. CASE r = D
    <2>1. du[r] = "mine" => Gone0(du)
        BY <1>3, <1>8 DEF DurableOK
    <2>2. s.auth = <<D, D>> \/ ~s.amb
        BY <1>2, <1>8 DEF Replayed
    <2>3. s.auth[1] = D /\ ~s.amb => Gone0(du)
        BY <1>1, <1>2, <1>6, <1>8, <2>1 DEF Replayed, UNDEF, DurableState
    <2>4. s.amb => Undecided(s, D, Gone0(du), Settled0(nd, du))
        BY <1>2, <1>3, <1>8, <2>2, OwnerIsRank DEF Undecided
    <2>5. JournalOK(s, du[r], Gone0(du))
        BY <1>2 DEF JournalOK
    <2>6. ImporterOK(s, D, du[r], Gone0(du), Settled0(nd, du))
        BY <1>2, <1>3, <1>8, <2>1, <2>3, <2>4, <2>5 DEF ImporterOK, Late, Begun
    <2>7. Gone0(du) \in BOOLEAN
        BY DEF Gone0
    <2>8. Importing(s, D, du[r], Gone0(du), Settled0(nd, du))
        BY <1>2, <1>3, <1>4, <1>8, <2>6, <2>7 DEF Importing
    <2> QED
        BY <1>2, <1>8, <2>8 DEF Role
<1>9. CASE r # E /\ r # D
    <2>1. du[r] = "none"
        BY <1>3, <1>9 DEF DurableOK
    <2>2. s.auth[1] # r
        BY <1>2, <1>6, <2>1 DEF Replayed, UNDEF
    <2>3. BystanderOK(s, D)
        BY <1>2, <2>1, <2>2 DEF BystanderOK
    <2>4. Gone0(du) \in BOOLEAN
        BY DEF Gone0
    <2>5. Standing(s, D, Gone0(du))
        BY <1>2, <1>3, <1>4, <1>9, <2>3, <2>4 DEF Standing
    <2> QED
        BY <2>5 DEF Role
<1> QED
    BY <1>7, <1>8, <1>9

LEMMA TakesOver ==
    ASSUME NEW D, NEW al, NEW nd, NEW nt, NEW du, Typed(nd, nt, du), World(D, al, nd, nt, du),
           NEW r \in Ranks, NEW map \in MDSMap, map[r] = "resolve", NEW e \in Nat, r \notin al,
           NEW t, t = ResolveStart(r, map, e, du[r])
    PROVE  /\ Role(t, D, du[r], Gone0(du), Settled0(nd, du))
           /\ Goes(nd[r], t, D, du[r], Settled0(nd, du))
           /\ t.me = r /\ t.map = map /\ t.epoch = e
<1>1. PICK s : Replays(r, map, e, du[r], s)
    BY DEF Replays
<1>2. t = s \/ t = SendSubtreeResolves(s)
    BY <1>1 DEF ResolveStart, Replays
<1>3. du[r] \in DurableState
    BY DEF Typed
<1>4. /\ s \in RankState /\ s.me = r /\ s.map = map /\ s.epoch = e
      /\ s.exp.state = "none" /\ s.imp.state = "none" /\ s.log = <<>>
      /\ (s.amb <=> du[r] = "ambig")
    BY <1>1, <1>3, ReplaysIs
<1>5. Role(s, D, du[r], Gone0(du), Settled0(nd, du))
    BY <1>1, ReplayedRole
<1>6. Kept(s, t, D, du[r], Gone0(du), Settled0(nd, du))
    BY <1>2, <1>5, RoleKeeps
<1>7. Role(t, D, du[r], Gone0(du), Settled0(nd, du)) /\ Frame(s, t)
    BY <1>5, <1>6, KeptRole
<1>8. Goes(nd[r], s, D, du[r], Settled0(nd, du))
    <2>1. nd[r].me = r /\ Idle(nd[r])
        BY WorldIs
    <2>2. Onward(nd[r], s)
        BY <1>4, <2>1 DEF Onward, Idle, Early
    <2>3. Holds(nd[r], du[r], s, du[r], Settled0(nd, du))
        <3>1. Len(s.log) = 0
            BY <1>4, EmptySeq
        <3> QED
            BY <1>4, <3>1 DEF Holds, Clean, Untouched, Bound
    <2> QED
        BY <1>4, <2>1, <2>2, <2>3 DEF Goes
<1>9. Goes(nd[r], t, D, du[r], Settled0(nd, du))
    BY <1>6, <1>8, KeptGoes
<1> QED
    BY <1>4, <1>7, <1>9 DEF Frame

-----------------------------------------------------------------------------
(* The three messages that move the export on.                             *)
One(o, type) == Len(o) <= 1 /\ \A k \in 1..Len(o) : o[k].type = type

LEMMA PostsIs ==
    ASSUME NEW u \in RankState, u.out = NoOut, NEW t, NEW to \in Ranks, NEW type \in MsgType,
           Posts(u, t, to, type)
    PROVE  /\ Alike(u, t) /\ t.out \in [Ranks -> Seq(Message)]
           /\ \A q \in Ranks : One(t.out[q], type)
           /\ \A q \in Ranks : q # to => Len(t.out[q]) = 0
<1>1. PICK n \in Nat : t = SendMds(u, to, Msg(type, n))
    BY DEF Posts
<1>2. PICK m : m = Msg(type, n)
    OBVIOUS
<1>3. m \in Message /\ m.type = type
    <2>1. m \in Message
        BY <1>2, MsgType0
    <2>2. m.type = type
        BY <1>2 DEF Msg
    <2> QED
        BY <2>1, <2>2
<1>4. /\ Alike(u, t)
      /\ \A q \in Ranks : t.out[q] = u.out[q]
           \/ (q = to /\ t.out[q] = Append(u.out[q], [m EXCEPT !.ep = u.epoch]))
    BY <1>1, <1>2, <1>3, SendMdsFits
<1>5. t.out \in [Ranks -> Seq(Message)]
    BY <1>4, RankFields DEF Alike
<1>6. PICK mm : mm = [m EXCEPT !.ep = u.epoch]
    OBVIOUS
<1>7. mm \in Message /\ mm.type = type
    BY <1>3, <1>6, RankFields DEF Message
<1>8. ASSUME NEW q \in Ranks
      PROVE  One(t.out[q], type) /\ (q # to => Len(t.out[q]) = 0)
    <2>1. PICK c : c = u.out[q] /\ c \in Seq(Message) /\ Len(c) = 0
        BY EmptySeq DEF NoOut
    <2>2. t.out[q] = c \/ (q = to /\ t.out[q] = Append(c, mm))
        BY <1>4, <1>6, <2>1
    <2>3. CASE t.out[q] = c
        BY <2>1, <2>3 DEF One
    <2>4. CASE q = to /\ t.out[q] = Append(c, mm)
        <3>1. Len(Append(c, mm)) = 1 /\ Append(c, mm)[1] = mm
            BY <1>7, <2>1, AppendProperties
        <3> QED
            BY <1>7, <2>4, <3>1 DEF One
    <2> QED
        BY <2>2, <2>3, <2>4
<1> QED
    BY <1>4, <1>5, <1>8

LEMMA FollowsOne ==
    ASSUME NEW c \in Seq(Message), NEW o \in Seq(Message), NEW c2 \in Seq(Message), Follows(c, o, c2),
           NEW type, One(o, type)
    PROVE  \A j, k \in 1..Len(c2) : j < k =>
             \/ \E i \in 1..Len(c), l \in 1..Len(c) : i < l /\ c2[j] = c[i] /\ c2[k] = c[l]
             \/ c2[k].type = type /\ \E i \in 1..Len(c) : c2[j] = c[i]
<1>1. Len(c) \in Nat /\ Len(o) \in Nat /\ Len(c2) \in Nat /\ Len(o) <= 1
    BY LenProperties DEF One
<1>2. PICK n \in 0..Len(c) : \A k \in 1..Len(c2) :
         \/ k + n <= Len(c) /\ c2[k] = c[k + n]
         \/ k + n > Len(c) /\ k + n - Len(c) \in 1..Len(o) /\ c2[k] = o[k + n - Len(c)]
    BY DEF Follows
<1> SUFFICES ASSUME NEW j \in 1..Len(c2), NEW k \in 1..Len(c2), j < k
             PROVE  \/ \E i \in 1..Len(c), l \in 1..Len(c) : i < l /\ c2[j] = c[i] /\ c2[k] = c[l]
                    \/ c2[k].type = type /\ \E i \in 1..Len(c) : c2[j] = c[i]
    OBVIOUS
<1>3. k + n <= Len(o) + Len(c)
    BY <1>1, <1>2
<1>3a. n \in Nat /\ j \in Nat /\ k \in Nat
    BY <1>1, <1>2
<1>4. j + n <= Len(c)
    BY <1>1, <1>3, <1>3a
<1>5. j + n \in 1..Len(c) /\ c2[j] = c[j + n]
    <2>1. j + n \in 1..Len(c)
        BY <1>1, <1>3a, <1>4
    <2>2. ~(j + n > Len(c))
        BY <1>1, <1>3a, <1>4
    <2> QED
        BY <1>2, <2>1, <2>2
<1>6. CASE k + n <= Len(c)
    <2>1. k + n \in 1..Len(c) /\ j + n < k + n /\ c2[k] = c[k + n]
        BY <1>1, <1>2, <1>6
    <2> QED
        BY <1>5, <2>1
<1>7. CASE k + n > Len(c)
    <2>1. c2[k].type = type
        BY <1>1, <1>2, <1>7 DEF One
    <2> QED
        BY <1>5, <2>1
<1> QED
    BY <1>1, <1>6, <1>7

LEMMA PostedTo ==
    ASSUME NEW c \in Seq(Message), NEW o \in Seq(Message), NEW c2 \in Seq(Message), Follows(c, o, c2),
           NEW type, type \in {"Discover", "ExportDir"}, One(o, type), Without(c, type),
           NEW untouched, NEW clean, NEW settled, ToImporter(c, untouched, clean, settled),
           type = "Discover" => untouched, type = "ExportDir" => clean
    PROVE  ToImporter(c2, untouched, clean, settled)
<1>1. ASSUME NEW k \in 1..Len(c2)
      PROVE  /\ c2[k].type = "Discover" => untouched
             /\ c2[k].type = "ExportDir" => clean
             /\ Claims(c2[k]) => untouched \/ settled
    <2>1. CASE \E i \in 1..Len(c) : c2[k] = c[i]
        BY <2>1 DEF ToImporter
    <2>2. CASE \E i \in 1..Len(o) : c2[k] = o[i]
        BY <2>2 DEF One, Claims
    <2> QED
        BY <2>1, <2>2, FollowsIs
<1>2. ASSUME NEW j \in 1..Len(c2), NEW k \in 1..Len(c2), j < k
      PROVE  /\ c2[j].type = "Discover" => c2[k].type # "Discover" /\ (Claims(c2[k]) => settled)
             /\ c2[j].type = "ExportDir" => c2[k].type # "ExportDir"
    <2>1. CASE \E i \in 1..Len(c), l \in 1..Len(c) : i < l /\ c2[j] = c[i] /\ c2[k] = c[l]
        BY <2>1 DEF ToImporter
    <2>2. CASE c2[k].type = type /\ \E i \in 1..Len(c) : c2[j] = c[i]
        BY <2>2 DEF Without, Claims
    <2> QED
        BY <1>2, <2>1, <2>2, FollowsOne
<1> QED
    BY <1>1, <1>2 DEF ToImporter

(* Only for the posts of the exporter: its stage has moved on before.      *)
Posting(s, t, dt, st, type) ==
    /\ \/ type = "Discover" /\ s.exp.state = "discovering" /\ Untouched(t, dt)
       \/ type = "ExportDir" /\ s.exp.state = "exporting" /\ Clean(t, dt)
    /\ Without(st, type)

LEMMA PairPosts ==
    ASSUME NEW s, NEW ds, NEW t, NEW dt, NEW s2,
           NEW st \in Seq(Message), NEW ts \in Seq(Message), NEW st2 \in Seq(Message), NEW ts2 \in Seq(Message),
           NEW o \in Seq(Message), PairOK(s, ds, t, dt, st, ts), s2.exp = s.exp,
           NEW type, Posting(s, t, dt, st, type), Follows(st, o, st2), One(o, type), Shrinks(ts, ts2)
    PROVE  PairOK(s2, ds, t, dt, st2, ts2)
<1>1. /\ type \in {"Discover", "ExportDir"} /\ Without(st, type)
      /\ type = "Discover" => Untouched(t, dt) /\ s.exp.state = "discovering"
      /\ type = "ExportDir" => Clean(t, dt) /\ s.exp.state = "exporting"
    BY DEF Posting
<1>2. /\ ToImporter(st, Untouched(t, dt), Clean(t, dt), Settled(s, ds))
      /\ ToExporter(ts, Bound(t, dt), Settled(s, ds))
    BY DEF PairOK
<1>3. ToImporter(st2, Untouched(t, dt), Clean(t, dt), Settled(s, ds))
    BY <1>1, <1>2, PostedTo
<1>4. Calmer(s, ds, s, ds)
    BY DEF Calmer
<1>5. ToExporter(ts2, Bound(t, dt), Settled(s, ds))
    BY <1>2, <1>4, ExporterShrinks
<1>6. s.exp.state \in Early => Clean(t, dt) /\ Without(st2, "ExportDir")
    <2>1. ASSUME s.exp.state \in Early, NEW k \in 1..Len(st2)
          PROVE  st2[k].type # "ExportDir"
        <3>1. type = "Discover" /\ Without(st, "ExportDir")
            BY <1>1, <2>1 DEF Early, PairOK
        <3>2. CASE \E i \in 1..Len(st) : st2[k] = st[i]
            BY <3>1, <3>2 DEF Without
        <3>3. CASE \E i \in 1..Len(o) : st2[k] = o[i]
            BY <3>1, <3>3 DEF One
        <3> QED
            BY <3>2, <3>3, FollowsIs
    <2> QED
        BY <2>1 DEF PairOK, Without
<1>7. Settled(s2, ds) <=> Settled(s, ds)
    BY DEF Settled
<1>8. ds # "mine" \/ s2.exp.state = "loggingfinish" => Bound(t, dt)
    BY DEF PairOK
<1>9. s2.exp.state # "locking"
    BY <1>1
<1>10. /\ ToImporter(st2, Untouched(t, dt), Clean(t, dt), Settled(s2, ds))
       /\ ToExporter(ts2, Bound(t, dt), Settled(s2, ds))
    BY <1>3, <1>5, <1>7 DEF ToImporter, ToExporter
<1> QED
    BY <1>6, <1>8, <1>9, <1>10 DEF PairOK

LEMMA WorldPosted ==
    ASSUME NEW D, NEW al, NEW nd, NEW nt, NEW du, Typed(nd, nt, du), World(D, al, nd, nt, du), D # NONE,
           NEW r \in Ranks, r \in al, NEW t, Alike(nd[r], t), NEW nd2, NEW nt2,
           Becomes(r, t, du[r], al, nd, du, al, nd2, du), Sends(r, t.out, D, Gone0(du)),
           Wire(nt, nt2, r, t.out), PairOK(nd2[E], du[E], nd2[D], du[D], nt2[E][D], nt2[D][E])
    PROVE  World(D, al, nd2, nt2, du)
<1>1. /\ DurableOK(D, du) /\ nd[r].me = r
      /\ RankOK(nd[r], D, du[r], Gone0(du), Settled0(nd, du))
    BY WorldIs
<1>2. /\ nd2[r] = t /\ Only(r, al, nd, du, al, nd2, du)
      /\ \A q \in Ranks : q # r => nd2[q] = nd[q]
    BY DEF Becomes, Only
<1>3. Settled0(nd, du) <=> Settled0(nd2, du)
    <2>1. nd2[E].exp = nd[E].exp
        BY <1>2, OwnerIsRank DEF Alike
    <2> QED
        BY <2>1 DEF Settled0, Settled
<1>4. RankOK(nd2[r], D, du[r], Gone0(du), Settled0(nd2, du)) /\ nd2[r].me = r
    <2>1. RankOK(t, D, du[r], Gone0(du), Settled0(nd, du))
        BY <1>1, AlikeRank
    <2>2. RankOK(t, D, du[r], Gone0(du), Settled0(nd2, du))
        BY <1>3, <2>1, RankGrows
    <2> QED
        BY <1>1, <1>2, <2>2 DEF Alike
<1> QED
    BY <1>1, <1>2, <1>3, <1>4, WorldStep

(* dispatch_export_dir and export_go_synced, after the change of stage.    *)
LEMMA ExporterPosts ==
    ASSUME NEW D, NEW al, NEW nd, NEW nt, NEW du, Typed(nd, nt, du), World(D, al, nd, nt, du),
           D # NONE, E \in al, nd[E].out = NoOut, NEW t, NEW type, Posts(nd[E], t, D, type),
           Posting(nd[E], nd[D], du[D], nt[E][D], type), NEW nd2, NEW nt2,
           Becomes(E, t, du[E], al, nd, du, al, nd2, du), Wire(nt, nt2, E, t.out)
    PROVE  World(D, al, nd2, nt2, du)
<1>1. /\ D \in Ranks /\ D # E /\ E \in Ranks /\ nd[E] \in RankState
      /\ PairOK(nd[E], du[E], nd[D], du[D], nt[E][D], nt[D][E])
      /\ nt[E][D] \in Seq(Message) /\ nt[D][E] \in Seq(Message)
    BY WorldIs, OwnerIsRank
<1>2. type \in {"Discover", "ExportDir"} /\ type \in MsgType
    BY DEF Posting, MsgType
<1>3. /\ Alike(nd[E], t) /\ t.out \in [Ranks -> Seq(Message)]
      /\ \A q \in Ranks : One(t.out[q], type)
      /\ \A q \in Ranks : q # D => Len(t.out[q]) = 0
    BY <1>1, <1>2, PostsIs
<1>4. Sends(E, t.out, D, Gone0(du))
    <2> SUFFICES ASSUME NEW y \in Ranks, NEW k \in 1..Len(t.out[y])
                 PROVE  MsgOK(E, y, t.out[y][k], D, Gone0(du))
        BY <1>3 DEF Sends
    <2>1. y = D
        BY <1>3
    <2>2. t.out[y][k].type = type
        BY <1>3 DEF One
    <2> QED
        BY <1>2, <2>1, <2>2 DEF MsgOK
<1>5. nd2[E] = t /\ nd2[D] = nd[D]
    BY <1>1 DEF Becomes, Only
<1>6. PairOK(t, du[E], nd[D], du[D], nt2[E][D], nt2[D][E])
    <2>1. /\ t.out[D] \in Seq(Message) /\ nt2[E][D] \in Seq(Message) /\ nt2[D][E] \in Seq(Message)
          /\ Follows(nt[E][D], t.out[D], nt2[E][D]) /\ Shrinks(nt[D][E], nt2[D][E])
        BY <1>1, <1>3 DEF Wire, Net
    <2>2. One(t.out[D], type) /\ t.exp = nd[E].exp
        BY <1>1, <1>3 DEF Alike
    <2> QED
        BY <1>1, <2>1, <2>2, PairPosts
<1> QED
    BY <1>1, <1>3, <1>4, <1>5, <1>6, WorldPosted

(* import_logged_start, after the change of stage.                         *)
LEMMA ImporterPosts ==
    ASSUME NEW D, NEW al, NEW nd, NEW nt, NEW du, Typed(nd, nt, du), World(D, al, nd, nt, du),
           D # NONE, D \in al, nd[D].out = NoOut, NEW t, Posts(nd[D], t, E, "ExportDirAck"),
           Bound(nd[D], du[D]), NEW nd2, NEW nt2,
           Becomes(D, t, du[D], al, nd, du, al, nd2, du), Wire(nt, nt2, D, t.out)
    PROVE  World(D, al, nd2, nt2, du)
<1>1. /\ D \in Ranks /\ D # E /\ E \in Ranks /\ nd[D] \in RankState
      /\ PairOK(nd[E], du[E], nd[D], du[D], nt[E][D], nt[D][E])
      /\ nt[E][D] \in Seq(Message) /\ nt[D][E] \in Seq(Message)
    BY WorldIs, OwnerIsRank
<1>2. "ExportDirAck" \in MsgType
    BY DEF MsgType
<1>3. /\ Alike(nd[D], t) /\ t.out \in [Ranks -> Seq(Message)]
      /\ \A q \in Ranks : One(t.out[q], "ExportDirAck")
      /\ \A q \in Ranks : q # E => Len(t.out[q]) = 0
    BY <1>1, <1>2, PostsIs
<1>4. Sends(D, t.out, D, Gone0(du))
    <2> SUFFICES ASSUME NEW y \in Ranks, NEW k \in 1..Len(t.out[y])
                 PROVE  MsgOK(D, y, t.out[y][k], D, Gone0(du))
        BY <1>3 DEF Sends
    <2>1. y = E
        BY <1>3
    <2>2. t.out[y][k].type = "ExportDirAck"
        BY <1>3 DEF One
    <2> QED
        BY <2>1, <2>2 DEF MsgOK
<1>5. nd2[D] = t /\ nd2[E] = nd[E]
    BY <1>1 DEF Becomes, Only
<1>6. Holds(nd[D], du[D], t, du[D], Settled(nd[E], du[E])) /\ Bound(t, du[D])
    BY <1>3 DEF Holds, Clean, Untouched, Bound, Alike
<1>7. PairOK(nd[E], du[E], t, du[D], nt2[E][D], nt2[D][E])
    <2>1. /\ t.out[E] \in Seq(Message) /\ nt2[E][D] \in Seq(Message) /\ nt2[D][E] \in Seq(Message)
          /\ Follows(nt[D][E], t.out[E], nt2[D][E]) /\ Shrinks(nt[E][D], nt2[E][D])
        BY <1>1, <1>3 DEF Wire, Net
    <2>2. Acks(t.out[E], t, du[D], nd[E], du[E])
        BY <1>6 DEF Acks
    <2> QED
        BY <1>1, <1>6, <2>1, <2>2, PairImporter
<1> QED
    BY <1>1, <1>3, <1>4, <1>5, <1>7, WorldPosted

-----------------------------------------------------------------------------
(* The importer takes the Discover or the ExportDir; nt are the            *)
(* connections without it.                                                 *)
LEMMA PairTakes ==
    ASSUME NEW s, NEW ds, NEW t, NEW dt, NEW t2,
           NEW st \in Seq(Message), NEW ts \in Seq(Message), NEW st2 \in Seq(Message), NEW ts2 \in Seq(Message),
           NEW o \in Seq(Message), PairOK(s, ds, t, dt, st, ts),
           ds = "mine", s.exp.state # "loggingfinish" \/ Bound(t2, dt),
           s.exp.state = "locking" => Untouched(t2, dt), s.exp.state \in Early => Clean(t2, dt),
           ToImporter(st, Untouched(t2, dt), Clean(t2, dt), Settled(s, ds)),
           Bound(t, dt) => Bound(t2, dt),
           Shrinks(st, st2), Follows(ts, o, ts2), Acks(o, t2, dt, s, ds)
    PROVE  PairOK(s, ds, t2, dt, st2, ts2)
<1>1. Holds(t2, dt, t2, dt, Settled(s, ds)) /\ Calmer(s, ds, s, ds)
    BY DEF Holds, Calmer
<1>2. ToImporter(st2, Untouched(t2, dt), Clean(t2, dt), Settled(s, ds))
    BY <1>1, ImporterShrinks
<1>3. ToExporter(ts, Bound(t2, dt), Settled(s, ds))
    BY DEF PairOK, ToExporter
<1>4. ToExporter(ts2, Bound(t2, dt), Settled(s, ds))
    BY <1>1, <1>3, ExporterHears
<1>5. /\ Without(st, "Discover") => Without(st2, "Discover")
      /\ Without(st, "ExportDir") => Without(st2, "ExportDir")
    BY ShrinksWithout
<1> QED
    BY <1>2, <1>4, <1>5 DEF PairOK

Pops(nt, nt1, x, y) ==
    /\ nt1 \in Net /\ nt[x][y] # <<>> /\ nt1[x][y] = Tail(nt[x][y])
    /\ \A a, b \in Ranks : a # x \/ b # y => nt1[a][b] = nt[a][b]

LEMMA TailIs ==
    ASSUME NEW c \in Seq(Message), c # <<>>
    PROVE  /\ Tail(c) \in Seq(Message) /\ Head(c) = c[1] /\ Head(c) \in Message
           /\ Len(c) \in Nat /\ Len(c) >= 1 /\ 1 \in 1..Len(c) /\ Len(Tail(c)) = Len(c) - 1
           /\ \A k \in 1..Len(Tail(c)) : k + 1 \in 1..Len(c) /\ 1 < k + 1 /\ Tail(c)[k] = c[k + 1]
<1>1. /\ Tail(c) \in Seq(Message) /\ Head(c) = c[1] /\ Head(c) \in Message
      /\ Len(c) \in Nat /\ Len(c) >= 1 /\ Len(Tail(c)) = Len(c) - 1
      /\ \A k \in 1..Len(Tail(c)) : Tail(c)[k] = c[k + 1]
    BY HeadTailProperties, LenProperties, EmptySeq
<1>2. \A k \in 1..Len(Tail(c)) : k + 1 \in 1..Len(c) /\ 1 < k + 1
    BY <1>1
<1> QED
    BY <1>1, <1>2

LEMMA PopsShrunk ==
    ASSUME NEW nt \in Net, NEW nt1, NEW x \in Ranks, NEW y \in Ranks, Pops(nt, nt1, x, y)
    PROVE  Shrunk(nt, nt1)
<1> SUFFICES ASSUME NEW a \in Ranks, NEW b \in Ranks
             PROVE  Shrinks(nt[a][b], nt1[a][b])
    BY DEF Shrunk
<1>1. nt[a][b] \in Seq(Message) /\ nt[x][y] \in Seq(Message) /\ nt[x][y] # <<>>
    BY DEF Net, Pops
<1>2. CASE a = x /\ b = y
    <2>1. PICK c : c = nt[x][y]
        OBVIOUS
    <2>2. /\ Len(c) \in Nat /\ Len(c) >= 1
          /\ \A k \in 1..Len(Tail(c)) : k + 1 \in 1..Len(c) /\ Tail(c)[k] = c[k + 1]
        BY <1>1, <2>1, TailIs
    <2>3. 1 \in 0..Len(c) /\ \A k \in 1..Len(Tail(c)) : k + 1 <= Len(c) /\ Tail(c)[k] = c[k + 1]
        BY <2>2
    <2>4. Shrinks(c, Tail(c))
        BY <2>3 DEF Shrinks
    <2> QED
        BY <1>2, <2>1, <2>4 DEF Pops
<1>3. CASE a # x \/ b # y
    <2>1. nt1[a][b] = nt[a][b]
        BY <1>3 DEF Pops
    <2>2. Len(nt[a][b]) \in Nat
        BY <1>1, LenProperties
    <2>3. 0 \in 0..Len(nt[a][b]) /\ \A k \in 1..Len(nt[a][b]) : k + 0 <= Len(nt[a][b]) /\ k + 0 = k
        BY <2>2
    <2> QED
        BY <2>1, <2>3 DEF Shrinks
<1> QED
    BY <1>2, <1>3

LEMMA TailTo ==
    ASSUME NEW c \in Seq(Message), c # <<>>, NEW untouched, NEW clean, NEW settled,
           ToImporter(c, untouched, clean, settled), NEW untouched2, NEW clean2,
           \/ Head(c).type = "Discover" /\ clean2
           \/ Head(c).type = "ExportDir" /\ (untouched => untouched2)
    PROVE  ToImporter(Tail(c), untouched2, clean2, settled)
<1>1. PICK c2 : c2 = Tail(c)
    OBVIOUS
<1>2. /\ Head(c) = c[1] /\ 1 \in 1..Len(c) /\ Len(c) \in Nat /\ Len(c2) = Len(c) - 1
      /\ \A k \in 1..Len(c2) : k + 1 \in 1..Len(c) /\ 1 < k + 1 /\ c2[k] = c[k + 1]
    BY <1>1, TailIs
<1>3. ASSUME NEW k \in 1..Len(c2)
      PROVE  /\ c2[k].type = "Discover" => untouched2
             /\ c2[k].type = "ExportDir" => clean2
             /\ Claims(c2[k]) => untouched2 \/ settled
    <2>1. k + 1 \in 1..Len(c) /\ 1 < k + 1 /\ c2[k] = c[k + 1]
        BY <1>2
    <2>2. /\ c[k + 1].type = "Discover" => untouched
          /\ Claims(c[k + 1]) => untouched \/ settled
          /\ c[1].type = "Discover" => c[k + 1].type # "Discover" /\ (Claims(c[k + 1]) => settled)
          /\ c[1].type = "ExportDir" => c[k + 1].type # "ExportDir"
        BY <1>2, <2>1 DEF ToImporter
    <2> QED
        BY <1>2, <2>1, <2>2
<1>4. ASSUME NEW j \in 1..Len(c2), NEW k \in 1..Len(c2), j < k
      PROVE  /\ c2[j].type = "Discover" => c2[k].type # "Discover" /\ (Claims(c2[k]) => settled)
             /\ c2[j].type = "ExportDir" => c2[k].type # "ExportDir"
    <2>1. j + 1 \in 1..Len(c) /\ k + 1 \in 1..Len(c) /\ c2[j] = c[j + 1] /\ c2[k] = c[k + 1]
        BY <1>2
    <2>2. j + 1 < k + 1
        BY <1>2, <1>4
    <2> QED
        BY <2>1, <2>2 DEF ToImporter
<1> QED
    BY <1>1, <1>3, <1>4 DEF ToImporter

(* handle_export_discover or handle_export_dir, with the result t.         *)
LEMMA WorldTakes ==
    ASSUME NEW D, NEW al, NEW nd, NEW nt, NEW du, Typed(nd, nt, du), World(D, al, nd, nt, du),
           D \in Ranks, D \in al, NEW nt1, Pops(nt, nt1, E, D),
           NEW t, NEW nd2, NEW nt2, Becomes(D, t, du[D], al, nd, du, al, nd2, du),
           Importing(t, D, du[D], Gone0(du), Settled0(nd, du)), Wire(nt1, nt2, D, t.out),
           \/ Head(nt[E][D]).type = "Discover" /\ Clean(t, du[D])
           \/ Head(nt[E][D]).type = "ExportDir" /\ (Untouched(nd[D], du[D]) => Untouched(t, du[D]))
    PROVE  World(D, al, nd2, nt2, du)
<1>1. /\ D # E /\ E \in Ranks /\ D # NONE /\ nt \in Net
      /\ PairOK(nd[E], du[E], nd[D], du[D], nt[E][D], nt[D][E])
      /\ nt[E][D] \in Seq(Message) /\ nt[D][E] \in Seq(Message) /\ nt[E][D] # <<>>
    BY WorldIs, OwnerIsRank, RanksAssumption DEF Pops
<1>2. Shrunk(nt, nt1) /\ nt1 \in Net
    BY <1>1, PopsShrunk DEF Pops
<1>3. World(D, al, nd, nt1, du) /\ Typed(nd, nt1, du)
    BY <1>2, WorldShrinks DEF Typed
<1>4. PICK c : c = nt[E][D]
    OBVIOUS
<1>5. /\ c \in Seq(Message) /\ c # <<>> /\ Head(c) = c[1] /\ 1 \in 1..Len(c)
      /\ nt1[E][D] = Tail(c) /\ Tail(c) \in Seq(Message) /\ nt1[D][E] = nt[D][E]
    BY <1>1, <1>4, TailIs DEF Pops
<1>6. Clean(nd[D], du[D]) /\ (c[1].type = "Discover" => nd[E].exp.state # "locking")
      /\ (c[1].type = "ExportDir" => nd[E].exp.state \notin Early)
    <2>1. ToImporter(c, Untouched(nd[D], du[D]), Clean(nd[D], du[D]), Settled(nd[E], du[E]))
        BY <1>1, <1>4 DEF PairOK
    <2>2. c[1].type = "Discover" \/ c[1].type = "ExportDir"
        BY <1>4, <1>5
    <2>3. Clean(nd[D], du[D])
        BY <1>5, <2>1, <2>2 DEF ToImporter, Untouched
    <2> QED
        BY <1>1, <1>4, <1>5, <2>3 DEF PairOK, Without
<1>7. du[D] = "none" /\ ~Bound(nd[D], du[D])
    BY <1>6 DEF Clean, Bound
<1>8. du[E] = "mine" /\ nd[E].exp.state # "loggingfinish"
    BY <1>1, <1>7 DEF PairOK
<1>9. PairOK(nd[E], du[E], nd[D], du[D], nt1[E][D], nt1[D][E])
    BY <1>1, <1>3, WorldIs
<1>10. ToImporter(nt1[E][D], Untouched(t, du[D]), Clean(t, du[D]), Settled(nd[E], du[E]))
    <2>1. ToImporter(c, Untouched(nd[D], du[D]), Clean(nd[D], du[D]), Settled(nd[E], du[E]))
        BY <1>1, <1>4 DEF PairOK
    <2>2. ToImporter(Tail(c), Untouched(t, du[D]), Clean(t, du[D]), Settled(nd[E], du[E]))
        BY <1>4, <1>5, <2>1, TailTo
    <2> QED
        BY <1>5, <2>2
<1>11. /\ nd[E].exp.state = "locking" => Untouched(t, du[D])
       /\ nd[E].exp.state \in Early => Clean(t, du[D])
    <2>1. CASE c[1].type = "Discover" /\ Clean(t, du[D])
        BY <1>6, <2>1
    <2>2. CASE c[1].type = "ExportDir"
        BY <1>6, <2>2 DEF Early
    <2> QED
        BY <1>4, <1>5, <2>1, <2>2
<1>12. /\ t.out[E] \in Seq(Message) /\ nt2[E][D] \in Seq(Message) /\ nt2[D][E] \in Seq(Message)
       /\ Shrinks(nt1[E][D], nt2[E][D]) /\ Follows(nt1[D][E], t.out[E], nt2[D][E])
       /\ nt1[E][D] \in Seq(Message) /\ nt1[D][E] \in Seq(Message)
    BY <1>1, <1>5, RankFields DEF Wire, Net, Importing
<1>13. Acks(t.out[E], t, du[D], nd[E], du[E])
    <2> SUFFICES ASSUME NEW k \in 1..Len(t.out[E])
                 PROVE  t.out[E][k].type # "ExportDirAck"
        BY DEF Acks
    <2>1. Fit(D, E, t.out[E][k], D, Gone0(du), FALSE)
        BY <1>1 DEF Importing, Speaks
    <2> QED
        BY <2>1 DEF Fit, Tame
<1>14. PairOK(nd[E], du[E], t, du[D], nt2[E][D], nt2[D][E])
    BY <1>7, <1>8, <1>9, <1>10, <1>11, <1>12, <1>13, PairTakes
<1>15. du[D] = "mine" => Gone0(du)
    BY <1>7
<1> QED
    BY <1>3, <1>14, <1>15, WorldImporter

-----------------------------------------------------------------------------
(* The result t of a handler is fine, whether its messages are sent or the *)
(* process dies before.                                                    *)
WellSent(D, al, nd, nt, du, t) ==
    \A n2 : Wire(nt, n2, t.me, t.out) => World(D, al, [nd EXCEPT ![t.me] = t], n2, du)

LEMMA WireItself ==
    ASSUME NEW nt \in Net, NEW r \in Ranks, NEW out
    PROVE  Wire(nt, nt, r, out)
<1>1. ASSUME NEW x \in Ranks, NEW y \in Ranks
      PROVE  Shrinks(nt[x][y], nt[x][y])
    <2>1. Len(nt[x][y]) \in Nat
        BY LenProperties DEF Net
    <2>2. 0 \in 0..Len(nt[x][y]) /\ \A k \in 1..Len(nt[x][y]) : k + 0 <= Len(nt[x][y]) /\ k + 0 = k
        BY <2>1
    <2> QED
        BY <2>2 DEF Shrinks
<1>2. \A y \in Ranks : Follows(nt[r][y], out[y], nt[r][y])
    BY <1>1, FollowsShrinks
<1> QED
    BY <1>1, <1>2 DEF Wire

LEMMA SetBecomes ==
    ASSUME NEW al, NEW nd, NEW nt, NEW du, Typed(nd, nt, du), NEW r \in Ranks, NEW t, NEW e,
           NEW nd2, nd2 = [nd EXCEPT ![r] = t], NEW du2, du2 = [du EXCEPT ![r] = e]
    PROVE  Becomes(r, t, e, al, nd, du, al, nd2, du2)
<1>1. nd2[r] = t /\ du2[r] = e /\ \A q \in Ranks : q # r => nd2[q] = nd[q] /\ du2[q] = du[q]
    BY DEF Typed
<1> QED
    BY <1>1 DEF Becomes, Only

LEMMA SetNode ==
    ASSUME NEW al, NEW nd, NEW nt, NEW du, Typed(nd, nt, du), NEW r \in Ranks, NEW t,
           NEW nd2, nd2 = [nd EXCEPT ![r] = t]
    PROVE  /\ Becomes(r, t, du[r], al, nd, du, al, nd2, du)
           /\ t \in RankState => Typed(nd2, nt, du)
           /\ \A u, nd3 : nd3 = [nd EXCEPT ![r] = u] => Becomes(r, u, du[r], al, nd2, du, al, nd3, du)
<1>1. nd2[r] = t /\ \A q \in Ranks : q # r => nd2[q] = nd[q]
    BY DEF Typed
<1>2. Becomes(r, t, du[r], al, nd, du, al, nd2, du)
    BY <1>1 DEF Becomes, Only
<1>3. t \in RankState => Typed(nd2, nt, du)
    BY DEF Typed
<1>4. ASSUME NEW u, NEW nd3, nd3 = [nd EXCEPT ![r] = u]
      PROVE  Becomes(r, u, du[r], al, nd2, du, al, nd3, du)
    <2>1. nd3[r] = u /\ \A q \in Ranks : q # r => nd3[q] = nd[q]
        BY <1>4 DEF Typed
    <2> QED
        BY <1>1, <2>1 DEF Becomes, Only
<1> QED
    BY <1>2, <1>3, <1>4

LEMMA GoesSent ==
    ASSUME NEW D, NEW al, NEW nd, NEW nt, NEW du, Typed(nd, nt, du), World(D, al, nd, nt, du),
           NEW r \in Ranks, r \in al, NEW t,
           Role(t, D, du[r], Gone0(du), Settled0(nd, du)), Goes(nd[r], t, D, du[r], Settled0(nd, du))
    PROVE  WellSent(D, al, nd, nt, du, t) /\ t.me = r
<1>1. t.me = r
    BY WorldIs DEF Goes
<1>2. ASSUME NEW n2, Wire(nt, n2, t.me, t.out)
      PROVE  World(D, al, [nd EXCEPT ![t.me] = t], n2, du)
    <2>1. PICK nd2 : nd2 = [nd EXCEPT ![r] = t]
        OBVIOUS
    <2>2. Becomes(r, t, du[r], al, nd, du, al, nd2, du) /\ Wire(nt, n2, r, t.out)
        BY <1>1, <1>2, <2>1, SetNode
    <2>3. World(D, al, nd2, n2, du)
        BY <2>2, WorldGoes
    <2> QED
        BY <1>1, <2>1, <2>3
<1> QED
    BY <1>1, <1>2 DEF WellSent

LEMMA KeptSent ==
    ASSUME NEW D, NEW al, NEW nd, NEW nt, NEW du, Typed(nd, nt, du), World(D, al, nd, nt, du),
           NEW r \in Ranks, r \in al, Role(nd[r], D, du[r], Gone0(du), Settled0(nd, du)),
           NEW t, Kept(nd[r], t, D, du[r], Gone0(du), Settled0(nd, du))
    PROVE  WellSent(D, al, nd, nt, du, t) /\ t.me = r
<1>1. Role(t, D, du[r], Gone0(du), Settled0(nd, du)) /\ Frame(nd[r], t) /\ D # E
    BY KeptRole, WorldIs
<1>2. Goes(nd[r], t, D, du[r], Settled0(nd, du))
    BY <1>1 DEF Kept, Goes, Frame, Exported, Imported
<1> QED
    BY <1>1, <1>2, GoesSent

LEMMA TakesSent ==
    ASSUME NEW D, NEW al, NEW nd, NEW nt, NEW du, Typed(nd, nt, du), World(D, al, nd, nt, du),
           D \in Ranks, D \in al, NEW nt1, Pops(nt, nt1, E, D), NEW t,
           Importing(t, D, du[D], Gone0(du), Settled0(nd, du)),
           \/ Head(nt[E][D]).type = "Discover" /\ Clean(t, du[D])
           \/ Head(nt[E][D]).type = "ExportDir" /\ (Untouched(nd[D], du[D]) => Untouched(t, du[D]))
    PROVE  WellSent(D, al, nd, nt1, du, t) /\ t.me = D
<1>1. t.me = D
    BY DEF Importing
<1>2. ASSUME NEW n2, Wire(nt1, n2, t.me, t.out)
      PROVE  World(D, al, [nd EXCEPT ![t.me] = t], n2, du)
    <2>1. PICK nd2 : nd2 = [nd EXCEPT ![D] = t]
        OBVIOUS
    <2>2. Becomes(D, t, du[D], al, nd, du, al, nd2, du) /\ Wire(nt1, n2, D, t.out)
        BY <1>1, <1>2, <2>1, SetNode
    <2>3. World(D, al, nd2, n2, du)
        BY <2>2, WorldTakes
    <2> QED
        BY <1>1, <2>1, <2>3
<1> QED
    BY <1>1, <1>2 DEF WellSent

(* handle_export_ack.                                                      *)
LEMMA AckSent ==
    ASSUME NEW D, NEW al, NEW nd, NEW nt, NEW du, Typed(nd, nt, du), World(D, al, nd, nt, du),
           D \in Ranks, E \in al, Exporter(nd[E], D, du[E]),
           NEW nt1, Pops(nt, nt1, D, E), Head(nt[D][E]).type = "ExportDirAck", NEW m \in Message, NEW from,
           NEW t, t = HandleExportAck(nd[E], from, m)
    PROVE  WellSent(D, al, nd, nt1, du, t) /\ t.me = E
<1>1. /\ D # E /\ E \in Ranks /\ D # NONE /\ nt \in Net /\ du[E] \in {"mine", "none"}
      /\ PairOK(nd[E], du[E], nd[D], du[D], nt[E][D], nt[D][E])
      /\ nt[D][E] \in Seq(Message) /\ nt[D][E] # <<>>
    BY WorldIs, OwnerIsRank, RanksAssumption DEF Pops
<1>2. Exporter(t, D, du[E]) /\ Frame(nd[E], t) /\ Ahead(nd[E], t)
    BY AckKeeps
<1>3. t.me = E
    BY <1>2 DEF Exporter
<1>4. World(D, al, nd, nt1, du) /\ Typed(nd, nt1, du)
    BY <1>1, PopsShrunk, WorldShrinks DEF Pops, Typed
<1>5. Bound(nd[D], du[D]) \/ Settled(nd[E], du[E])
    <2>1. Head(nt[D][E]) = nt[D][E][1] /\ 1 \in 1..Len(nt[D][E])
        BY <1>1, TailIs
    <2> QED
        BY <1>1, <2>1 DEF PairOK, ToExporter
<1>6. du[E] # "mine" \/ t.exp.state = "loggingfinish" => Bound(nd[D], du[D])
    BY <1>1, <1>2, <1>5 DEF PairOK, Settled, Ahead
<1>7. Settled(nd[E], du[E]) => du[E] = "mine"
    BY DEF Settled
<1>8. ASSUME NEW n2, Wire(nt1, n2, t.me, t.out)
      PROVE  World(D, al, [nd EXCEPT ![t.me] = t], n2, du)
    <2>1. PICK nd2 : nd2 = [nd EXCEPT ![E] = t]
        OBVIOUS
    <2>2. Becomes(E, t, du[E], al, nd, du, al, nd2, du) /\ Wire(nt1, n2, E, t.out)
        BY <1>1, <1>3, <1>8, <2>1, SetNode
    <2>3. PICK e : e = du[E]
        OBVIOUS
    <2>4. /\ Becomes(E, t, e, al, nd, du, al, nd2, du) /\ Exporter(t, D, e)
          /\ e \in {"mine", "none"} /\ (du[E] # "mine" => e # "mine") /\ (D = NONE => e = "mine")
          /\ D # NONE /\ (e # "mine" \/ t.exp.state = "loggingfinish") => Bound(nd[D], du[D])
          /\ Settled(nd[E], du[E]) => e = "mine"
        BY <1>1, <1>2, <1>6, <1>7, <2>2, <2>3
    <2>5. World(D, al, nd2, n2, du)
        BY <1>2, <1>4, <2>2, <2>4, WorldExporter
    <2> QED
        BY <1>3, <2>1, <2>5
<1> QED
    BY <1>3, <1>8 DEF WellSent

(* The exporter moves to the stage of u and posts a message.               *)
LEMMA PostSent ==
    ASSUME NEW D, NEW al, NEW nd, NEW nt, NEW du, Typed(nd, nt, du), World(D, al, nd, nt, du),
           D \in Ranks, E \in al, nd[E].out = NoOut, Exporter(nd[E], D, du[E]),
           NEW u, Exported(nd[E], u, D, du[E]), u.out = nd[E].out,
           NEW t, NEW type, Posts(u, t, D, type), Posting(u, nd[D], du[D], nt[E][D], type)
    PROVE  WellSent(D, al, nd, nt, du, t) /\ t.me = E
<1>1. /\ D # E /\ E \in Ranks /\ D # NONE /\ nt \in Net /\ u \in RankState /\ u.me = E /\ u.out = NoOut
    BY WorldIs, OwnerIsRank, RanksAssumption DEF Exported, Exporter
<1>2. Role(u, D, du[E], Gone0(du), Settled0(nd, du)) /\ Goes(nd[E], u, D, du[E], Settled0(nd, du))
    <2>1. Gone0(du) = (du[E] # "mine") /\ nd[E].me = E
        BY DEF Gone0, Exporter
    <2> QED
        BY <1>1, <2>1 DEF Role, Goes, Exported
<1>3. PICK nd1 : nd1 = [nd EXCEPT ![E] = u]
    OBVIOUS
<1>4. /\ Becomes(E, u, du[E], al, nd, du, al, nd1, du) /\ Typed(nd1, nt, du)
      /\ \A v, nd3 : nd3 = [nd EXCEPT ![E] = v] => Becomes(E, v, du[E], al, nd1, du, al, nd3, du)
    BY <1>1, <1>3, SetNode
<1>5. World(D, al, nd1, nt, du)
    BY <1>1, <1>2, <1>4, WireItself, WorldGoes
<1>6. nd1[E] = u /\ nd1[D] = nd[D]
    BY <1>1, <1>4 DEF Becomes, Only
<1>7. t.me = E
    <2>1. type \in MsgType
        BY DEF Posting, MsgType
    <2> QED
        BY <1>1, <2>1, PostsIs DEF Alike
<1>8. ASSUME NEW n2, Wire(nt, n2, t.me, t.out)
      PROVE  World(D, al, [nd EXCEPT ![t.me] = t], n2, du)
    <2>1. PICK nd2 : nd2 = [nd EXCEPT ![E] = t]
        OBVIOUS
    <2>2. Becomes(E, t, du[E], al, nd1, du, al, nd2, du) /\ Wire(nt, n2, E, t.out)
        BY <1>4, <1>7, <1>8, <2>1
    <2>3. /\ nd1[E].out = NoOut /\ Posts(nd1[E], t, D, type)
          /\ Posting(nd1[E], nd1[D], du[D], nt[E][D], type)
        BY <1>1, <1>6
    <2>4. World(D, al, nd2, n2, du)
        BY <1>1, <1>4, <1>5, <2>2, <2>3, ExporterPosts
    <2> QED
        BY <1>7, <2>1, <2>4
<1> QED
    BY <1>7, <1>8 DEF WellSent

LEMMA DispatchSent ==
    ASSUME NEW D, NEW al, NEW nd, NEW nt, NEW du, Typed(nd, nt, du), World(D, al, nd, nt, du),
           D \in Ranks, E \in al, nd[E].out = NoOut, Exporter(nd[E], D, du[E]),
           nd[E].exp.state = "locking", NEW t, t = DispatchExportDir(nd[E])
    PROVE  WellSent(D, al, nd, nt, du, t) /\ t.me = E
<1>1. PICK u : /\ Exported(nd[E], u, D, du[E]) /\ u.exp.state = "discovering" /\ u.out = nd[E].out
               /\ Posts(u, t, D, "Discover")
    BY DispatchPosts
<1>2. PairOK(nd[E], du[E], nd[D], du[D], nt[E][D], nt[D][E])
    BY WorldIs, RanksAssumption
<1>3. Posting(u, nd[D], du[D], nt[E][D], "Discover")
    BY <1>1, <1>2 DEF Posting, PairOK
<1> QED
    BY <1>1, <1>3, PostSent

LEMMA SyncedSent ==
    ASSUME NEW D, NEW al, NEW nd, NEW nt, NEW du, Typed(nd, nt, du), World(D, al, nd, nt, du),
           E \in al, nd[E].out = NoOut, Exporter(nd[E], D, du[E]),
           nd[E].log # <<>>, NEW u, Flushed(nd[E], u), NEW tid \in Nat, NEW t, t = ExportGoSynced(u, tid)
    PROVE  WellSent(D, al, nd, nt, du, t) /\ t.me = E
<1>1. Exported(nd[E], u, D, du[E]) /\ u.exp = nd[E].exp
    BY ExporterFlushed
<1>2. u.out = nd[E].out /\ Exporter(u, D, du[E])
    BY <1>1, FlushedIs DEF Exporter, Exported
<1>3. CASE Exported(u, t, D, du[E])
    <2>1. Exported(nd[E], t, D, du[E]) /\ nd[E].me = E
        BY <1>1, <1>3, ExportedOnce DEF Exporter
    <2>2. Gone0(du) = (du[E] # "mine")
        BY DEF Gone0
    <2>3. /\ Role(nd[E], D, du[E], Gone0(du), Settled0(nd, du))
          /\ Kept(nd[E], t, D, du[E], Gone0(du), Settled0(nd, du))
        BY <2>1, <2>2 DEF Role, Kept
    <2> QED
        BY <2>3, KeptSent, OwnerIsRank
<1>4. CASE u.exp.state = "warning" /\
           \E v : /\ Exported(u, v, D, du[E]) /\ v.exp.state = "exporting" /\ v.out = u.out
                  /\ Posts(v, t, D, "ExportDir") /\ v.died = u.died
    <2>1. PICK v : /\ Exported(u, v, D, du[E]) /\ v.exp.state = "exporting" /\ v.out = u.out
                   /\ Posts(v, t, D, "ExportDir")
        BY <1>4
    <2>2. Exported(nd[E], v, D, du[E]) /\ v.out = nd[E].out
        BY <1>1, <1>2, <2>1, ExportedOnce
    <2>3. D \in Ranks /\ nd[E].exp.state = "warning"
        BY <1>1, <1>4 DEF Exporter
    <2>4. PairOK(nd[E], du[E], nd[D], du[D], nt[E][D], nt[D][E])
        BY <2>3, WorldIs, RanksAssumption
    <2>5. Posting(v, nd[D], du[D], nt[E][D], "ExportDir")
        BY <2>1, <2>3, <2>4 DEF Posting, PairOK, Early
    <2> QED
        BY <2>1, <2>2, <2>3, <2>5, PostSent
<1> QED
    BY <1>2, <1>3, <1>4, SyncedPosts

(* The EExport is safe.                                                    *)
Finishes(u, t, du, du2) == t = ExportLoggedFinish(u) /\ du2 = [du EXCEPT ![E] = "none"]
LEMMA FinishSent ==
    ASSUME NEW D, NEW al, NEW nd, NEW nt, NEW du, Typed(nd, nt, du), World(D, al, nd, nt, du),
           E \in al, Exporter(nd[E], D, du[E]), nd[E].log # <<>>, nd[E].exp.state = "loggingfinish",
           NEW u, Flushed(nd[E], u), NEW t, NEW du2, Finishes(u, t, du, du2)
    PROVE  /\ WellSent(D, al, nd, nt, du2, t) /\ t.me = E
           /\ D \in Ranks \ {E} /\ du[E] = "mine" /\ Bound(nd[D], du[D]) /\ du[D] = "ambig"
<1>0. t = ExportLoggedFinish(u) /\ du2 = [du EXCEPT ![E] = "none"]
    BY DEF Finishes
<1>1. /\ D \in Ranks /\ D # E /\ du[E] = "mine" /\ E \in Ranks /\ D # NONE
    BY OwnerIsRank, RanksAssumption DEF Exporter, ExporterOK, StageOK
<1>2. Exported(nd[E], u, D, du[E]) /\ u.exp = nd[E].exp
    BY ExporterFlushed
<1>3. Exporter(u, D, "mine") /\ u.exp.state = "loggingfinish" /\ u.me = E
    BY <1>1, <1>2 DEF Exported, Exporter
<1>4. Exporter(t, D, "none") /\ t.exp.state \in {"none", "notifying"} /\ t.me = E
    BY <1>0, <1>3, LoggedFinishKeeps DEF Exporter
<1>5. Bound(nd[D], du[D])
    BY <1>1, WorldIs DEF PairOK
<1>6. du[D] = "ambig"
    BY <1>1, <1>5, WorldIs DEF Bound, DurableOK, Gone0
<1>7. Ahead(nd[E], t)
    BY <1>4 DEF Ahead, Early
<1>8. ASSUME NEW n2, Wire(nt, n2, t.me, t.out)
      PROVE  World(D, al, [nd EXCEPT ![t.me] = t], n2, du2)
    <2>1. PICK nd2, e : nd2 = [nd EXCEPT ![E] = t] /\ e = "none"
        OBVIOUS
    <2>2. du2 = [du EXCEPT ![E] = e]
        BY <1>0, <2>1
    <2>3. Becomes(E, t, e, al, nd, du, al, nd2, du2) /\ Wire(nt, n2, E, t.out)
        BY <1>1, <1>4, <1>8, <2>1, <2>2, SetBecomes
    <2>4. /\ Exporter(t, D, e)
          /\ e \in {"mine", "none"} /\ (du[E] # "mine" => e # "mine") /\ (D = NONE => e = "mine")
          /\ D # NONE /\ (e # "mine" \/ t.exp.state = "loggingfinish") => Bound(nd[D], du[D])
          /\ Settled(nd[E], du[E]) => e = "mine"
        BY <1>1, <1>4, <1>5, <2>1 DEF Settled
    <2>5. World(D, al, nd2, n2, du2)
        BY <1>7, <2>3, <2>4, WorldExporter
    <2> QED
        BY <1>4, <2>1, <2>5
<1>9. WellSent(D, al, nd, nt, du2, t)
    BY <1>8 DEF WellSent
<1> QED
    BY <1>1, <1>4, <1>5, <1>6, <1>9

(* An entry of the journal of the importer is safe.                        *)
LEMMA ImporterFlushSent ==
    ASSUME NEW D, NEW al, NEW nd, NEW nt, NEW du, Typed(nd, nt, du), World(D, al, nd, nt, du),
           D \in al, Importing(nd[D], D, du[D], Gone0(du), Settled0(nd, du)), nd[D].log # <<>>,
           nd[D].imp.state # "loggingstart", NEW t, Flushed(nd[D], t),
           NEW e, e = SafeIs(Head(nd[D].log).event, du[D]), NEW du2, du2 = [du EXCEPT ![D] = e]
    PROVE  WellSent(D, al, nd, nt, du2, t) /\ t.me = D
<1>1. /\ Importing(t, D, e, Gone0(du), Settled0(nd, du)) /\ Holds(nd[D], du[D], t, e, Settled0(nd, du))
      /\ e = "mine" => Gone0(du)
    BY ImporterFlushed
<1>2. t.me = D /\ D \in Ranks
    BY <1>1 DEF Importing
<1>3. ASSUME NEW n2, Wire(nt, n2, t.me, t.out)
      PROVE  World(D, al, [nd EXCEPT ![t.me] = t], n2, du2)
    <2>1. PICK nd2 : nd2 = [nd EXCEPT ![D] = t]
        OBVIOUS
    <2>2. Becomes(D, t, e, al, nd, du, al, nd2, du2) /\ Wire(nt, n2, D, t.out)
        BY <1>2, <1>3, <2>1, SetBecomes
    <2>3. World(D, al, nd2, n2, du2)
        BY <1>1, <2>2, WorldImported
    <2> QED
        BY <1>2, <2>1, <2>3
<1> QED
    BY <1>2, <1>3 DEF WellSent

StartLogged(D, v, t, du, du2) == t = ImportLoggedStart(v) /\ du2 = [du EXCEPT ![D] = "ambig"]
LEMMA LoggedStartSent ==
    ASSUME NEW D, NEW al, NEW nd, NEW nt, NEW du, Typed(nd, nt, du), World(D, al, nd, nt, du),
           D \in al, Importing(nd[D], D, du[D], Gone0(du), Settled0(nd, du)), nd[D].log # <<>>,
           nd[D].out = NoOut, nd[D].imp.state = "loggingstart", NEW v, Flushed(nd[D], v),
           NEW t, NEW du2, StartLogged(D, v, t, du, du2)
    PROVE  WellSent(D, al, nd, nt, du2, t) /\ t.me = D
<1>0. t = ImportLoggedStart(v) /\ du2 = [du EXCEPT ![D] = "ambig"]
    BY DEF StartLogged
<1>1. PICK u : /\ Importing(u, D, "ambig", Gone0(du), Settled0(nd, du))
               /\ u.log = <<>> /\ u.out = nd[D].out /\ Posts(u, t, E, "ExportDirAck")
    BY <1>0, LoggedStartPosts
<1>2. du[D] = "none"
    BY <1>0, LoggedStartPosts
<1>3. /\ D \in Ranks /\ D # E /\ E \in Ranks /\ D # NONE /\ u \in RankState /\ u.me = D /\ u.out = NoOut
      /\ nt \in Net
    BY <1>1, OwnerIsRank, RanksAssumption DEF Importing, Typed
<1>4. PICK e, nd1 : e = "ambig" /\ nd1 = [nd EXCEPT ![D] = u]
    OBVIOUS
<1>5. Holds(nd[D], du[D], u, e, Settled0(nd, du))
    BY <1>2 DEF Holds, Clean, Untouched, Bound
<1>6. Becomes(D, u, e, al, nd, du, al, nd1, du2)
    BY <1>0, <1>3, <1>4, SetBecomes
<1>7. World(D, al, nd1, nt, du2)
    <2>1. Importing(u, D, e, Gone0(du), Settled0(nd, du)) /\ (e = "mine" => Gone0(du))
        BY <1>1, <1>4
    <2>2. Wire(nt, nt, D, u.out)
        BY <1>3, WireItself
    <2> QED
        BY <1>5, <1>6, <2>1, <2>2, WorldImported
<1>8. Typed(nd1, nt, du2) /\ nd1[D] = u /\ du2[D] = "ambig"
    BY <1>0, <1>3, <1>4 DEF Typed, DurableState
<1>9. Bound(nd1[D], du2[D])
    <2>1. Len(u.log) = 0
        BY <1>1, EmptySeq
    <2> QED
        BY <1>8, <2>1 DEF Bound
<1>10. t.me = D
    <2>1. "ExportDirAck" \in MsgType
        BY DEF MsgType
    <2> QED
        BY <1>1, <1>3, <2>1, PostsIs DEF Alike
<1>11. ASSUME NEW n2, Wire(nt, n2, t.me, t.out)
       PROVE  World(D, al, [nd EXCEPT ![t.me] = t], n2, du2)
    <2>1. PICK nd2 : nd2 = [nd EXCEPT ![D] = t]
        OBVIOUS
    <2>2. nd2 = [nd1 EXCEPT ![D] = t]
        BY <1>4, <2>1
    <2>3. Becomes(D, t, du2[D], al, nd1, du2, al, nd2, du2) /\ Wire(nt, n2, D, t.out)
        <3>1. nd2[D] = t /\ \A q \in Ranks : q # D => nd2[q] = nd1[q]
            BY <1>3, <1>8, <2>2 DEF Typed
        <3>2. Becomes(D, t, du2[D], al, nd1, du2, al, nd2, du2)
            BY <3>1 DEF Becomes, Only
        <3> QED
            BY <1>10, <1>11, <3>2
    <2>4. nd1[D].out = NoOut /\ Posts(nd1[D], t, E, "ExportDirAck")
        BY <1>1, <1>3, <1>8
    <2>5. World(D, al, nd2, n2, du2)
        BY <1>3, <1>7, <1>8, <1>9, <2>3, <2>4, ImporterPosts
    <2> QED
        BY <1>10, <2>1, <2>5
<1> QED
    BY <1>10, <1>11 DEF WellSent

-----------------------------------------------------------------------------
(* The export is started: before it there is none, and D is a rank like    *)
(* the others.                                                             *)
LEMMA MsgStarts ==
    ASSUME NEW x \in Ranks, NEW y \in Ranks, NEW m, NEW gone, MsgOK(x, y, m, NONE, gone), NEW D
    PROVE  MsgOK(x, y, m, D, gone) /\ m.type \notin {"Discover", "ExportDir", "ExportDirAck"}
<1>1. x # NONE /\ y # NONE
    BY RanksAssumption
<1> QED
    BY <1>1 DEF MsgOK

LEMMA BystanderStarts ==
    ASSUME NEW s \in RankState, BystanderOK(s, NONE), NEW D \in Ranks, NEW gone, NEW settled
    PROVE  /\ BystanderOK(s, D)
           /\ s.me = D => ImporterOK(s, D, "none", gone, settled)
<1>1. s.other = {}
    <2>1. s.other \in SUBSET Ranks
        BY RankFields
    <2> QED
        BY <2>1, RanksAssumption DEF BystanderOK
<1>2. BystanderOK(s, D)
    BY <1>1 DEF BystanderOK
<1>3. JournalOK(s, "none", gone)
    BY DEF BystanderOK, JournalOK
<1>4. s.me = D => ImporterOK(s, D, "none", gone, settled)
    BY <1>1, <1>3 DEF BystanderOK, ImporterOK, Late, Begun
<1> QED
    BY <1>2, <1>4

LEMMA WorldStarts ==
    ASSUME NEW al, NEW nd, NEW nt, NEW du, Typed(nd, nt, du), World(NONE, al, nd, nt, du),
           E \in al, NEW D \in Ranks, D # E, NEW t, Exporter(t, D, "mine"), t.exp.state = "locking",
           NEW nd2, nd2 = [nd EXCEPT ![E] = t]
    PROVE  World(D, al, nd2, nt, du)
<1>1. /\ DurableOK(NONE, du) /\ NetOK(NONE, nt, Gone0(du)) /\ du[E] = "mine"
      /\ \A r \in Ranks :
                /\ nd[r] \in RankState /\ nd[r].me = r
                /\ r \in al => RankOK(nd[r], NONE, du[r], Gone0(du), Settled0(nd, du))
                /\ r \notin al => Idle(nd[r])
      /\ \A x, y \in Ranks : nt[x][y] \in Seq(Message)
    <2>1. PICK N : N = NONE
        OBVIOUS
    <2>2. World(N, al, nd, nt, du)
        BY <2>1
    <2>3. /\ DurableOK(N, du) /\ NetOK(N, nt, Gone0(du)) /\ (N = NONE => du[E] = "mine")
          /\ \A r \in Ranks :
                /\ nd[r] \in RankState /\ nd[r].me = r
                /\ r \in al => RankOK(nd[r], N, du[r], Gone0(du), Settled0(nd, du))
                /\ r \notin al => Idle(nd[r])
          /\ \A x, y \in Ranks : nt[x][y] \in Seq(Message)
        BY <2>2, WorldIs
    <2> QED
        BY <2>1, <2>3
<1>2. E \in Ranks /\ E # NONE /\ D # NONE
    BY OwnerIsRank, RanksAssumption
<1>3. nd2[E] = t /\ \A q \in Ranks : q # E => nd2[q] = nd[q]
    BY <1>2 DEF Typed
<1>4. \A r \in Ranks : r # E => du[r] = "none"
    BY <1>1, RanksAssumption DEF DurableOK
<1>5. DurableOK(D, du)
    BY <1>1, <1>4 DEF DurableOK
<1>6. RanksOK(D, al, nd2, du)
    <2> SUFFICES ASSUME NEW q \in Ranks
                 PROVE  /\ nd2[q].me = q
                        /\ q \in al => RankOK(nd2[q], D, du[q], Gone0(du), Settled0(nd2, du))
                        /\ q \notin al => Idle(nd2[q])
        BY DEF RanksOK
    <2>1. CASE q = E
        BY <1>1, <1>2, <1>3, <2>1 DEF Exporter, RankOK
    <2>2. CASE q # E
        <3>1. nd2[q] = nd[q] /\ nd[q].me = q /\ (q \notin al => Idle(nd[q])) /\ du[q] = "none"
              /\ nd[q] \in RankState
            BY <1>1, <1>3, <1>4, <2>2
        <3>2. ASSUME q \in al
              PROVE  RankOK(nd[q], D, "none", Gone0(du), Settled0(nd2, du))
            <4>1. BystanderOK(nd[q], NONE)
                BY <1>1, <2>2, <3>1, <3>2, RanksAssumption DEF RankOK
            <4>2. /\ BystanderOK(nd[q], D)
                  /\ nd[q].me = D => ImporterOK(nd[q], D, "none", Gone0(du), Settled0(nd2, du))
                BY <3>1, <4>1, BystanderStarts
            <4> QED
                BY <2>2, <3>1, <4>2 DEF RankOK
        <3> QED
            BY <3>1, <3>2
    <2> QED
        BY <2>1, <2>2
<1>7. \A x, y \in Ranks : \A k \in 1..Len(nt[x][y]) :
         /\ MsgOK(x, y, nt[x][y][k], D, Gone0(du))
         /\ nt[x][y][k].type \notin {"Discover", "ExportDir", "ExportDirAck"}
    BY <1>1, MsgStarts DEF NetOK
<1>8. NetOK(D, nt, Gone0(du))
    BY <1>7 DEF NetOK
<1>9. Untouched(nd[D], du[D])
    <2>1. CASE D \in al
        <3>1. BystanderOK(nd[D], NONE)
            BY <1>1, <2>1, RanksAssumption DEF RankOK
        <3> QED
            BY <1>4, <3>1 DEF BystanderOK, Untouched, Clean
    <2>2. CASE D \notin al
        BY <1>1, <1>4, <2>2 DEF Idle, Untouched, Clean
    <2> QED
        BY <2>1, <2>2
<1>10. PairOK(t, du[E], nd[D], du[D], nt[E][D], nt[D][E])
    <2>1. Clean(nd[D], du[D])
        BY <1>9 DEF Untouched
    <2>2. /\ Without(nt[E][D], "Discover") /\ Without(nt[E][D], "ExportDir")
          /\ \A k \in 1..Len(nt[E][D]) : nt[E][D][k].type \notin {"Discover", "ExportDir"}
          /\ \A k \in 1..Len(nt[D][E]) : nt[D][E][k].type # "ExportDirAck"
        BY <1>2, <1>7 DEF Without
    <2>3. ToImporter(nt[E][D], Untouched(nd[D], du[D]), Clean(nd[D], du[D]), Settled(t, du[E]))
        BY <1>9, <2>2 DEF ToImporter
    <2>4. ToExporter(nt[D][E], Bound(nd[D], du[D]), Settled(t, du[E]))
        BY <2>2 DEF ToExporter
    <2> QED
        BY <1>1, <1>9, <2>1, <2>2, <2>3, <2>4 DEF PairOK
<1> QED
    BY <1>2, <1>3, <1>5, <1>6, <1>8, <1>10 DEF World

LEMMA NothingFollows ==
    ASSUME NEW c, NEW o, Len(o) = 0, NEW c2, Follows(c, o, c2)
    PROVE  Shrinks(c, c2)
    BY DEF Follows, Shrinks

LEMMA StartSent ==
    ASSUME NEW al, NEW nd, NEW nt, NEW du, Typed(nd, nt, du), World(NONE, al, nd, nt, du),
           E \in al, NEW D \in Ranks, D # E, NEW t, Exporter(t, D, "mine"), t.exp.state = "locking",
           t.out = NoOut
    PROVE  WellSent(D, al, nd, nt, du, t) /\ t.me = E
<1>1. t.me = E /\ t \in RankState
    BY DEF Exporter
<1>2. ASSUME NEW n2, Wire(nt, n2, t.me, t.out)
      PROVE  World(D, al, [nd EXCEPT ![t.me] = t], n2, du)
    <2>1. PICK nd2 : nd2 = [nd EXCEPT ![E] = t]
        OBVIOUS
    <2>2. World(D, al, nd2, nt, du)
        BY <2>1, WorldStarts
    <2>3. Typed(nd2, nt, du)
        BY <1>1, <2>1 DEF Typed
    <2>4. n2 \in Net
        BY <1>2 DEF Wire
    <2>5. Shrunk(nt, n2)
        <3>1. \A y \in Ranks : Len(t.out[y]) = 0
            BY EmptySeq DEF NoOut
        <3>2. \A y \in Ranks : Shrinks(nt[E][y], n2[E][y])
            BY <1>1, <1>2, <3>1, NothingFollows DEF Wire
        <3> QED
            BY <1>1, <1>2, <3>2 DEF Wire, Shrunk
    <2>6. World(D, al, nd2, n2, du)
        BY <2>2, <2>3, <2>4, <2>5, WorldShrinks
    <2> QED
        BY <1>1, <2>1, <2>6
<1> QED
    BY <1>1, <1>2 DEF WellSent

LEMMA PairAlike ==
    ASSUME NEW s, NEW ds, NEW t, NEW dt, NEW st, NEW ts, PairOK(s, ds, t, dt, st, ts),
           NEW s2, s2.exp = s.exp, NEW t2, t2.log = t.log, t2.imp = t.imp, t2.amb = t.amb
    PROVE  PairOK(s2, ds, t2, dt, st, ts)
<1>1. /\ Settled(s2, ds) <=> Settled(s, ds)
      /\ Untouched(t2, dt) <=> Untouched(t, dt)
      /\ Clean(t2, dt) <=> Clean(t, dt)
      /\ Bound(t2, dt) <=> Bound(t, dt)
    BY DEF Settled, Untouched, Clean, Bound
<1>2. ToImporter(st, Untouched(t2, dt), Clean(t2, dt), Settled(s2, ds))
    BY <1>1 DEF PairOK, ToImporter
<1>3. ToExporter(ts, Bound(t2, dt), Settled(s2, ds))
    BY <1>1 DEF PairOK, ToExporter
<1> QED
    BY <1>1, <1>2, <1>3 DEF PairOK

LEMMA WorldAlike ==
    ASSUME NEW D, NEW al, NEW nd, NEW nt, NEW du, Typed(nd, nt, du), World(D, al, nd, nt, du),
           NEW r \in Ranks, r \in al, NEW t, Alike(nd[r], t), NEW nd2, nd2 = [nd EXCEPT ![r] = t]
    PROVE  World(D, al, nd2, nt, du)
<1>1. /\ DurableOK(D, du) /\ nd[r].me = r /\ nt \in Net
      /\ RankOK(nd[r], D, du[r], Gone0(du), Settled0(nd, du))
      /\ D = NONE => du[E] = "mine"
      /\ D # NONE => D \in Ranks /\ PairOK(nd[E], du[E], nd[D], du[D], nt[E][D], nt[D][E])
    BY WorldIs
<1>2. nd2[r] = t /\ \A q \in Ranks : q # r => nd2[q] = nd[q]
    BY DEF Typed
<1>3. Only(r, al, nd, du, al, nd2, du)
    BY <1>2 DEF Only
<1>4. nd2[E].exp = nd[E].exp
    BY <1>2, OwnerIsRank DEF Alike
<1>5. Settled0(nd, du) <=> Settled0(nd2, du)
    BY <1>4 DEF Settled0, Settled
<1>6. RankOK(nd2[r], D, du[r], Gone0(du), Settled0(nd2, du)) /\ nd2[r].me = r
    <2>1. RankOK(t, D, du[r], Gone0(du), Settled0(nd, du))
        BY <1>1, AlikeRank
    <2>2. RankOK(t, D, du[r], Gone0(du), Settled0(nd2, du))
        BY <1>5, <2>1, RankGrows
    <2> QED
        BY <1>1, <1>2, <2>2 DEF Alike
<1>7. D # NONE => PairOK(nd2[E], du[E], nd2[D], du[D], nt[E][D], nt[D][E])
    <2>1. ASSUME D # NONE
          PROVE  nd2[D].log = nd[D].log /\ nd2[D].imp = nd[D].imp /\ nd2[D].amb = nd[D].amb
        BY <1>1, <1>2, <2>1 DEF Alike
    <2> QED
        BY <1>1, <1>4, <2>1, PairAlike
<1>8. PICK out : out = NoOut
    OBVIOUS
<1>9. Sends(r, out, D, Gone0(du))
    BY <1>8, EmptySeq DEF Sends, NoOut
<1>10. Wire(nt, nt, r, out)
    BY <1>1, WireItself
<1> QED
    BY <1>1, <1>3, <1>5, <1>6, <1>7, <1>9, <1>10, WorldStep

-----------------------------------------------------------------------------
(* What the messenger does with the connections.                           *)
LEMMA GoneShrunk ==
    ASSUME NEW n \in Net, NEW r \in Ranks
    PROVE  Shrunk(n, Gone(n, r)) /\ Gone(n, r) \in Net
<1>1. ASSUME NEW x \in Ranks, NEW y \in Ranks
      PROVE  Shrinks(n[x][y], Gone(n, r)[x][y])
    <2>1. PICK l : l = <<>> /\ Len(l) = 0
        BY EmptySeq
    <2>2. Gone(n, r)[x][y] = IF y = r THEN l ELSE n[x][y]
        BY <2>1 DEF Gone, Net
    <2>3. Len(n[x][y]) \in Nat
        BY LenProperties DEF Net
    <2>4. Shrinks(n[x][y], l)
        <3>1. 0 \in 0..Len(n[x][y])
            BY <2>3
        <3> QED
            BY <2>1, <3>1 DEF Shrinks
    <2>5. Shrinks(n[x][y], n[x][y])
        <3>1. 0 \in 0..Len(n[x][y]) /\ \A k \in 1..Len(n[x][y]) : k + 0 <= Len(n[x][y]) /\ k + 0 = k
            BY <2>3
        <3> QED
            BY <3>1 DEF Shrinks
    <2> QED
        BY <2>2, <2>4, <2>5
<1> QED
    BY <1>1, GoneType DEF Shrunk

LEMMA ConcatFollows ==
    ASSUME NEW c \in Seq(Message), NEW o \in Seq(Message)
    PROVE  Follows(c, o, c \o o)
<1>1. Len(c) \in Nat /\ Len(o) \in Nat /\ 0 \in 0..Len(c)
    BY LenProperties
<1>2. /\ Len(c \o o) = Len(c) + Len(o)
      /\ \A k \in 1..Len(c) + Len(o) : (c \o o)[k] = IF k <= Len(c) THEN c[k] ELSE o[k - Len(c)]
    BY ConcatProperties
<1>3. ASSUME NEW k \in 1..Len(c \o o)
      PROVE  \/ k + 0 <= Len(c) /\ (c \o o)[k] = c[k + 0]
             \/ k + 0 > Len(c) /\ k + 0 - Len(c) \in 1..Len(o) /\ (c \o o)[k] = o[k + 0 - Len(c)]
    <2>1. k \in 1..Len(c) + Len(o) /\ k + 0 = k
        BY <1>1, <1>2
    <2>2. (c \o o)[k] = IF k <= Len(c) THEN c[k] ELSE o[k - Len(c)]
        BY <1>2, <2>1
    <2>3. k > Len(c) => k - Len(c) \in 1..Len(o)
        BY <1>1, <2>1
    <2> QED
        BY <1>1, <2>1, <2>2, <2>3
<1> QED
    BY <1>1, <1>3 DEF Follows

LEMMA SentWire ==
    ASSUME NEW n \in Net, NEW s \in RankState
    PROVE  Wire(n, Sent(n, s), s.me, s.out)
<1>1. s.me \in Ranks /\ s.out \in [Ranks -> Seq(Message)]
    BY RankFields
<1>2. Wire(n, n, s.me, s.out)
    BY <1>1, WireItself
<1>3. ASSUME NEW y \in Ranks
      PROVE  Follows(n[s.me][y], s.out[y], Sent(n, s)[s.me][y])
    <2>1. n[s.me][y] \in Seq(Message) /\ s.out[y] \in Seq(Message)
        BY <1>1 DEF Net
    <2>2. Sent(n, s)[s.me][y] = n[s.me][y] \/ Sent(n, s)[s.me][y] = n[s.me][y] \o s.out[y]
        BY <1>1 DEF Sent, Net
    <2>3. Follows(n[s.me][y], s.out[y], n[s.me][y])
        BY <1>2 DEF Wire
    <2>4. Follows(n[s.me][y], s.out[y], n[s.me][y] \o s.out[y])
        BY <2>1, ConcatFollows
    <2> QED
        BY <2>2, <2>3, <2>4
<1>4. ASSUME NEW x \in Ranks, NEW y \in Ranks, x # s.me
      PROVE  Shrinks(n[x][y], Sent(n, s)[x][y])
    <2>1. Sent(n, s)[x] = n[x]
        BY <1>1, <1>4 DEF Sent, Net
    <2> QED
        BY <1>2, <1>4, <2>1 DEF Wire
<1> QED
    BY <1>1, <1>3, <1>4, SentType DEF Wire

-----------------------------------------------------------------------------
(* The maps of a rank.                                                     *)
LEMMA LaterSteps ==
    ASSUME NEW a, NEW b, Later(a, b)
    PROVE  /\ a # "down" /\ b # "down"
           /\ a \in ActiveOrStopping => b \in ActiveOrStopping
           /\ b = "resolve" => a = "resolve"
           /\ \A c : Later(b, c) => Later(a, c)
    BY DEF Later, ActiveOrStopping

LEMMA MapsFrame ==
    ASSUME NEW s, NEW t, NEW r, NEW maps, MapsOK(s, r, maps),
           t.map = s.map, t.epoch = s.epoch, s.resolved => t.resolved
    PROVE  MapsOK(t, r, maps)
    BY DEF MapsOK

LEMMA MapsPublished ==
    ASSUME NEW s \in RankState, NEW r \in Ranks, NEW maps \in Seq(MDSMap), MapsOK(s, r, maps),
           NEW m \in MDSMap, Later(maps[Len(maps)][r], m[r]), Later(m[r], m[r]),
           s.resolved \/ maps[Len(maps)][r] # "resolve" \/ m[r] = "resolve",
           NEW maps2, maps2 = Append(maps, m)
    PROVE  MapsOK(s, r, maps2)
<1>1. /\ Len(maps) \in Nat /\ Len(maps2) = Len(maps) + 1 /\ maps2[Len(maps) + 1] = m
      /\ \A i \in 1..Len(maps) : maps2[i] = maps[i]
    BY LenProperties, AppendProperties
<1>2. /\ s.epoch \in 1..Len(maps) /\ s.epoch \in Nat /\ s.map = maps[s.epoch]
      /\ \A i, j \in s.epoch..Len(maps) : i <= j => Later(maps[i][r], maps[j][r])
      /\ s.map[r] = "resolve" /\ ~s.resolved => \A i \in s.epoch..Len(maps) : maps[i][r] = "resolve"
    BY RankFields DEF MapsOK
<1>3. \A i \in s.epoch..Len(maps2) :
          (i \in s.epoch..Len(maps) /\ i <= Len(maps) /\ maps2[i] = maps[i]) \/ (i = Len(maps) + 1 /\ maps2[i] = m)
    BY <1>1, <1>2
<1>4. Len(maps) \in s.epoch..Len(maps)
    BY <1>1, <1>2
<1>5. ASSUME NEW i \in s.epoch..Len(maps2), NEW j \in s.epoch..Len(maps2), i <= j
      PROVE  Later(maps2[i][r], maps2[j][r])
    <2>1. CASE j = Len(maps) + 1 /\ maps2[j] = m
        <3>1. CASE i \in s.epoch..Len(maps) /\ i <= Len(maps) /\ maps2[i] = maps[i]
            <4>1. Later(maps[i][r], maps[Len(maps)][r])
                BY <1>2, <1>4, <3>1
            <4> QED
                BY <2>1, <3>1, <4>1, LaterSteps
        <3> QED
            BY <1>3, <2>1, <3>1
    <2>2. CASE j \in s.epoch..Len(maps) /\ j <= Len(maps) /\ maps2[j] = maps[j]
        <3>1. i \in s.epoch..Len(maps) /\ maps2[i] = maps[i]
            BY <1>1, <1>2, <1>3, <1>5, <2>2
        <3> QED
            BY <1>2, <1>5, <2>2, <3>1
    <2> QED
        BY <1>3, <2>1, <2>2
<1>6. ASSUME s.map[r] = "resolve", ~s.resolved, NEW i \in s.epoch..Len(maps2)
      PROVE  maps2[i][r] = "resolve"
    <2>1. maps[Len(maps)][r] = "resolve"
        BY <1>2, <1>4, <1>6
    <2> QED
        BY <1>2, <1>3, <1>6, <2>1
<1>7. s.epoch \in 1..Len(maps2) /\ s.map = maps2[s.epoch]
    BY <1>1, <1>2
<1> QED
    BY <1>5, <1>6, <1>7 DEF MapsOK

LEMMA MapsSkipped ==
    ASSUME NEW s \in RankState, s.me \in Ranks, NEW maps \in Seq(MDSMap), MapsOK(s, s.me, maps),
           NEW e \in 1..Len(maps), s.epoch <= e
    PROVE  /\ MapsOn(s, maps[e])
           /\ \A t : t.map = maps[e] /\ t.epoch = e /\ (s.resolved => t.resolved) => MapsOK(t, s.me, maps)
<1>0. s.epoch \in Nat /\ Len(maps) \in Nat /\ e \in Nat
    <2>1. s.epoch \in Nat /\ Len(maps) \in Nat
        BY RankFields, LenProperties
    <2> QED
        BY <2>1
<1>1. /\ s.map = maps[s.epoch]
      /\ \A i, j \in s.epoch..Len(maps) : i <= j => Later(maps[i][s.me], maps[j][s.me])
      /\ s.map[s.me] = "resolve" /\ ~s.resolved => \A i \in s.epoch..Len(maps) : maps[i][s.me] = "resolve"
    BY DEF MapsOK
<1>2. s.epoch \in s.epoch..Len(maps) /\ e \in s.epoch..Len(maps)
    BY <1>0
<1>3. Later(s.map[s.me], maps[e][s.me])
    BY <1>0, <1>1, <1>2
<1>4. MapsOn(s, maps[e])
    BY <1>1, <1>2, <1>3, LaterSteps DEF MapsOn
<1>5. \A i \in e..Len(maps) : i \in s.epoch..Len(maps)
    BY <1>0
<1>6. ASSUME NEW t, t.map = maps[e], t.epoch = e, s.resolved => t.resolved
      PROVE  MapsOK(t, s.me, maps)
    <2>1. t.map[s.me] = "resolve" /\ ~t.resolved => s.map[s.me] = "resolve" /\ ~s.resolved
        BY <1>3, <1>6, LaterSteps
    <2>2. \A i, j \in t.epoch..Len(maps) : i <= j => Later(maps[i][s.me], maps[j][s.me])
        BY <1>1, <1>5, <1>6
    <2>3. t.map[s.me] = "resolve" /\ ~t.resolved => \A i \in t.epoch..Len(maps) : maps[i][s.me] = "resolve"
        BY <1>1, <1>5, <1>6, <2>1
    <2> QED
        BY <1>6, <2>2, <2>3 DEF MapsOK
<1> QED
    BY <1>4, <1>6

LEMMA PublishedOthers ==
    ASSUME Inv, UpToDate(alive, node, mdsmap), NEW r \in Ranks, NEW st \in MapState,
           Publish([CurMap EXCEPT ![r] = st]), NEW q \in Ranks, q \in alive, q # r
    PROVE  MapsOK(node[q], q, mdsmap')
<1>1. PICK m : m = [CurMap EXCEPT ![r] = st]
    OBVIOUS
<1>2. /\ TypeOK /\ CurMap \in MDSMap /\ mdsmap \in Seq(MDSMap) /\ node[q] \in RankState
      /\ Now \in Nat /\ Now = Len(mdsmap) /\ CurMap = mdsmap[Len(mdsmap)]
    BY MapsType DEF Inv, TypeOK, Now, CurMap
<1>3. m \in MDSMap /\ m[q] = CurMap[q] /\ mdsmap' = Append(mdsmap, m)
    BY <1>1, <1>2 DEF MDSMap, Publish
<1>4. MapsOK(node[q], q, mdsmap)
    BY DEF UpToDate
<1>5. Later(mdsmap[Len(mdsmap)][q], mdsmap[Len(mdsmap)][q])
    <2>1. node[q].epoch \in 1..Len(mdsmap) /\ Len(mdsmap) \in Nat
        BY <1>2, <1>4 DEF MapsOK
    <2>2. Len(mdsmap) \in node[q].epoch..Len(mdsmap)
        BY <2>1
    <2> QED
        BY <1>4, <2>1, <2>2 DEF MapsOK
<1>6. Later(mdsmap[Len(mdsmap)][q], m[q]) /\ Later(m[q], m[q])
    BY <1>2, <1>3, <1>5
<1>7. mdsmap[Len(mdsmap)][q] # "resolve" \/ m[q] = "resolve"
    BY <1>2, <1>3
<1> HIDE <1>1
<1> QED
    BY <1>2, <1>3, <1>4, <1>6, <1>7, MapsPublished

(* A process dies.                                                         *)
LEMMA DeathMaps ==
    ASSUME Inv, UpToDate(alive, node, mdsmap), NEW r \in Ranks,
           Publish([CurMap EXCEPT ![r] = "down"]), alive' = alive \ {r},
           node' = [node EXCEPT ![r] = Fresh(r, CurMap, 0)]
    PROVE  UpToDate(alive', node', mdsmap')
<1>1. PICK f : f = Fresh(r, CurMap, 0)
    OBVIOUS
<1>6. f.out = NoOut
    BY <1>1 DEF Fresh
<1>2. node \in [Ranks -> RankState] /\ alive \subseteq Ranks
    BY DEF Inv, TypeOK
<1>3. \A q \in Ranks : node'[q] = IF q = r THEN f ELSE node[q]
    BY <1>1, <1>2
<1>4. \A q \in Ranks : node'[q].out = NoOut
    BY <1>3, <1>6 DEF UpToDate
<1>5. ASSUME NEW q \in Ranks, q \in alive'
      PROVE  MapsOK(node'[q], q, mdsmap')
    <2>1. q # r /\ q \in alive /\ node'[q] = node[q]
        BY <1>3, <1>5
    <2>2. "down" \in MapState
        BY DEF MapState
    <2> QED
        BY <2>1, <2>2, PublishedOthers
<1> QED
    BY <1>4, <1>5 DEF UpToDate

LEMMA DeathWorld ==
    ASSUME Inv, NEW D, NEW n \in Net, NEW nd, NEW du, Typed(nd, n, du), World(D, alive, nd, n, du),
           NEW r \in Ranks, NEW al2, al2 = alive \ {r}, NEW nd2, nd2 = [nd EXCEPT ![r] = Fresh(r, CurMap, 0)],
           NEW n2, n2 = Gone(n, r)
    PROVE  World(D, al2, nd2, n2, du)
<1>1. PICK f : f = Fresh(r, CurMap, 0)
    OBVIOUS
<1>2. Idle(f) /\ f.me = r
    <2>1. f.exp = NoExport /\ f.imp = NoImport /\ f.log = <<>> /\ f.amb = FALSE /\ f.me = r
        BY <1>1 DEF Fresh
    <2> QED
        BY <2>1 DEF Idle, NoExport, NoImport
<1>3. nd2[r] = f /\ \A q \in Ranks : q # r => nd2[q] = nd[q]
    BY <1>1 DEF Typed
<1>4. Becomes(r, f, du[r], alive, nd, du, al2, nd2, du) /\ r \notin al2
    BY <1>3 DEF Becomes, Only
<1>5. n2 \in Net /\ Shrunk(n, n2)
    BY GoneShrunk
<1> HIDE <1>1
<1> QED
    BY <1>2, <1>4, <1>5, WorldDies

(* A handler ends: its result and the connections.                         *)
LEMMA CommitWorld ==
    ASSUME Inv, NEW D, NEW s, Sane(s), s.me \in alive, NEW n \in Net, Commit(s, n),
           durable' \in [Ranks -> DurableState], WellSent(D, alive, node, n, durable', s)
    PROVE  World(D, alive', node', net', durable')
<1>1. s \in RankState /\ s.me \in Ranks /\ node \in [Ranks -> RankState]
    BY RankFields DEF Sane, Inv, TypeOK
<1>2. PICK nd : nd = [node EXCEPT ![s.me] = s]
    OBVIOUS
<1>3. nd \in [Ranks -> RankState] /\ nd[s.me] = s
    BY <1>1, <1>2
<1>4. CASE s.died = ""
    <2>1. PICK t : t = [s EXCEPT !.out = NoOut]
        OBVIOUS
    <2>2. node' = [node EXCEPT ![s.me] = t] /\ net' = Sent(n, s) /\ alive' = alive
        BY <1>4, <2>1 DEF Commit
    <2>3. Wire(n, net', s.me, s.out) /\ net' \in Net
        BY <1>1, <2>2, SentWire, SentType
    <2>4. World(D, alive, nd, net', durable')
        BY <1>2, <2>3 DEF WellSent
    <2>5. NoOut \in [Ranks -> Seq(Message)]
        BY EmptySeq DEF NoOut
    <2>6. Alike(nd[s.me], t)
        BY <1>1, <1>3, <2>1, <2>5, OutAlike
    <2>7. Typed(nd, net', durable')
        BY <1>3, <2>3 DEF Typed
    <2>8. node' = [nd EXCEPT ![s.me] = t]
        BY <1>1, <1>2, <2>2
    <2> HIDE <1>2, <2>1
    <2>9. World(D, alive, node', net', durable')
        BY <1>1, <2>4, <2>6, <2>7, <2>8, WorldAlike
    <2> QED
        BY <2>2, <2>9
<1>5. CASE s.died # ""
    <2>1. node' = [node EXCEPT ![s.me] = Fresh(s.me, CurMap, 0)] /\ net' = Gone(n, s.me) /\ alive' = alive \ {s.me}
        BY <1>5 DEF Commit
    <2>2. Wire(n, n, s.me, s.out)
        BY <1>1, WireItself
    <2>3. World(D, alive, nd, n, durable')
        BY <1>2, <2>2 DEF WellSent
    <2>4. Typed(nd, n, durable')
        BY <1>3 DEF Typed
    <2>5. node' = [nd EXCEPT ![s.me] = Fresh(s.me, CurMap, 0)]
        BY <1>1, <1>2, <2>1
    <2> HIDE <1>2
    <2> QED
        BY <1>1, <2>1, <2>3, <2>4, <2>5, DeathWorld
<1> QED
    BY <1>4, <1>5

LEMMA CommitMaps ==
    ASSUME Inv, UpToDate(alive, node, mdsmap), NEW s, Sane(s), MapsOK(s, s.me, mdsmap),
           NEW n, Commit(s, n)
    PROVE  UpToDate(alive', node', mdsmap')
<1>1. s \in RankState /\ s.me \in Ranks /\ node \in [Ranks -> RankState]
    BY RankFields DEF Sane, Inv, TypeOK
<1>2. CASE s.died = ""
    <2>1. PICK t : t = [s EXCEPT !.out = NoOut]
        OBVIOUS
    <2>2. node' = [node EXCEPT ![s.me] = t] /\ alive' = alive /\ mdsmap' = mdsmap
        BY <1>2, <2>1 DEF Commit
    <2>3. t.out = NoOut /\ t.map = s.map /\ t.epoch = s.epoch /\ t.resolved = s.resolved
        BY <1>1, <2>1 DEF RankState
    <2>4. MapsOK(t, s.me, mdsmap)
        BY <2>3, MapsFrame
    <2>5. \A q \in Ranks : node'[q] = IF q = s.me THEN t ELSE node[q]
        BY <1>1, <2>2
    <2> HIDE <2>1
    <2> QED
        BY <2>2, <2>3, <2>4, <2>5 DEF UpToDate
<1>3. CASE s.died # ""
    <2>1. /\ node' = [node EXCEPT ![s.me] = Fresh(s.me, CurMap, 0)] /\ alive' = alive \ {s.me}
          /\ Publish([CurMap EXCEPT ![s.me] = "down"])
        BY <1>3 DEF Commit
    <2> QED
        BY <1>1, <2>1, DeathMaps
<1> QED
    BY <1>2, <1>3

-----------------------------------------------------------------------------
(* The steps of the ranks.                                                 *)
LEMMA OneInvNext ==
    ASSUME UpToDate(alive', node', mdsmap'), NEW D, D \in Ranks \cup {NONE},
           World(D, alive', node', net', durable'),
           D = NONE => used'.export = 0, D # NONE => used'.export >= 1
    PROVE  OneInv'
<1>1. OneExport(D)'
    BY DEF OneExport
<1> QED
    BY <1>1 DEF OneInv

LEMMA Turns ==
    ASSUME Inv, UpToDate(alive, node, mdsmap), NEW D, D \in Ranks \cup {NONE},
           NEW r \in Ranks, r \in alive, NEW s, Sane(s), s.me = r, Frame(node[r], s),
           NEW n \in Net, Commit(s, n), durable' \in [Ranks -> DurableState],
           WellSent(D, alive, node, n, durable', s),
           D = NONE => used'.export = 0, D # NONE => used'.export >= 1
    PROVE  OneInv'
<1>1. World(D, alive', node', net', durable')
    BY CommitWorld
<1>2. MapsOK(s, s.me, mdsmap)
    BY MapsFrame DEF UpToDate, Frame
<1>3. UpToDate(alive', node', mdsmap')
    BY <1>2, CommitMaps
<1> QED
    BY <1>1, <1>3, OneInvNext

(* What a rank knows of itself before it takes a step.                     *)
LEMMA Before ==
    ASSUME Inv, NEW D, UpToDate(alive, node, mdsmap), OneExport(D)
    PROVE  /\ World(D, alive, node, net, durable) /\ Typed(node, net, durable)
           /\ D \in Ranks \cup {NONE} /\ D # E /\ E \in Ranks /\ E # NONE
           /\ net \in Net /\ durable \in [Ranks -> DurableState]
           /\ \A r \in Ranks : Sane(node[r]) /\ node[r].me = r /\ node[r].out = NoOut
           /\ \A r \in Ranks : r \in alive =>
                Role(node[r], D, durable[r], Gone0(durable), Settled0(node, durable))
<1>1. World(D, alive, node, net, durable) /\ Shared /\ Others
    BY InvIs DEF OneExport
<1>2. Typed(node, net, durable)
    BY <1>1 DEF Typed, Shared, Others
<1>3. \A r \in Ranks : Sane(node[r]) /\ node[r].out = NoOut /\ Peers(node[r])
    BY DEF Inv, UpToDate, Sane
<1>4. \A r \in Ranks : r \in alive =>
          Role(node[r], D, durable[r], Gone0(durable), Settled0(node, durable))
    BY <1>1, <1>2, <1>3, WorldRole
<1>5. /\ D \in Ranks \cup {NONE} /\ D # E /\ E \in Ranks /\ E # NONE
      /\ \A r \in Ranks : node[r].me = r
    BY <1>1, <1>2, WorldIs, OwnerIsRank
<1> QED
    BY <1>1, <1>2, <1>3, <1>4, <1>5 DEF Shared, Others

(* A handler that keeps the part its rank has in the export.               *)
LEMMA KeptTurns ==
    ASSUME Inv, NEW D, UpToDate(alive, node, mdsmap), OneExport(D), NEW r \in Ranks, r \in alive,
           NEW n \in Net, Shrunk(net, n), NEW s, Sane(s), Commit(s, n), UNCHANGED <<durable, lastTid, used>>,
           Kept(node[r], s, D, durable[r], Gone0(durable), Settled0(node, durable))
    PROVE  OneInv'
<1>1. /\ World(D, alive, node, net, durable) /\ Typed(node, net, durable) /\ D \in Ranks \cup {NONE}
      /\ durable \in [Ranks -> DurableState]
      /\ Role(node[r], D, durable[r], Gone0(durable), Settled0(node, durable))
    BY Before
<1>2. Frame(node[r], s)
    BY <1>1, KeptRole
<1>3. World(D, alive, node, n, durable) /\ Typed(node, n, durable)
    BY <1>1, WorldShrinks DEF Typed
<1>4. WellSent(D, alive, node, n, durable, s) /\ s.me = r
    BY <1>1, <1>3, KeptSent
<1>5. durable' = durable /\ used' = used
    OBVIOUS
<1>6. WellSent(D, alive, node, n, durable', s) /\ durable' \in [Ranks -> DurableState]
    BY <1>1, <1>4, <1>5
<1>7. (D = NONE => used'.export = 0) /\ (D # NONE => used'.export >= 1)
    BY <1>5 DEF OneExport
<1> QED
    BY <1>1, <1>2, <1>4, <1>6, <1>7, Turns

-----------------------------------------------------------------------------
(* The monitors.                                                           *)
LEMMA FailOne ==
    ASSUME Inv, NEW D, UpToDate(alive, node, mdsmap), OneExport(D), NEW r \in Ranks, Fail(r)
    PROVE  OneInv'
<1>1. /\ World(D, alive, node, net, durable) /\ Typed(node, net, durable) /\ D \in Ranks \cup {NONE}
      /\ net \in Net
    BY Before
<1>2. /\ Publish([CurMap EXCEPT ![r] = "down"]) /\ alive' = alive \ {r} /\ net' = Gone(net, r)
      /\ node' = [node EXCEPT ![r] = Fresh(r, CurMap, 0)] /\ durable' = durable
    BY DEF Fail
<1>3. World(D, alive', node', net', durable)
    BY <1>1, <1>2, DeathWorld
<1>4. UpToDate(alive', node', mdsmap')
    BY <1>2, DeathMaps
<1>5. used'.export = used.export
    BY InvIs DEF Others, Fail
<1>6. World(D, alive', node', net', durable')
    BY <1>2, <1>3
<1>7. (D = NONE => used'.export = 0) /\ (D # NONE => used'.export >= 1)
    BY <1>5 DEF OneExport
<1> QED
    BY <1>1, <1>4, <1>6, <1>7, OneInvNext

LEMMA TakeoverMaps ==
    ASSUME Inv, UpToDate(alive, node, mdsmap), NEW r \in Ranks, NEW map, map = [CurMap EXCEPT ![r] = "resolve"],
           Publish(map), NEW t \in RankState, t.map = map, t.epoch = Now + 1, t.out = NoOut,
           node' = [node EXCEPT ![r] = t], alive' = alive \cup {r}
    PROVE  UpToDate(alive', node', mdsmap')
<1>1. TypeOK /\ Now \in Nat /\ Now = Len(mdsmap) /\ CurMap \in MDSMap /\ mdsmap \in Seq(MDSMap)
    BY MapsType DEF Inv, TypeOK, Now
<1>2. map \in MDSMap /\ map[r] = "resolve"
    BY <1>1 DEF MDSMap, MapState
<1>3. mdsmap' = Append(mdsmap, map)
    BY DEF Publish
<1>4. Len(mdsmap') = Now + 1 /\ mdsmap'[Now + 1] = map
    BY <1>1, <1>2, <1>3, AppendProperties
<1>5. MapsOK(t, r, mdsmap')
    <2>1. t.epoch \in 1..Len(mdsmap') /\ t.map = mdsmap'[t.epoch]
        BY <1>1, <1>4
    <2>2. \A i \in t.epoch..Len(mdsmap') : mdsmap'[i][r] = "resolve"
        <3>1. \A i \in t.epoch..Len(mdsmap') : i = Now + 1
            BY <1>1, <1>4
        <3> QED
            BY <1>2, <1>4, <3>1
    <2>3. Later("resolve", "resolve")
        BY DEF Later
    <2>4. \A i, j \in t.epoch..Len(mdsmap') : i <= j => Later(mdsmap'[i][r], mdsmap'[j][r])
        BY <2>2, <2>3
    <2> QED
        BY <2>1, <2>2, <2>4 DEF MapsOK
<1>6. node \in [Ranks -> RankState]
    BY <1>1 DEF TypeOK
<1>7. \A q \in Ranks : node'[q] = IF q = r THEN t ELSE node[q]
    BY <1>6
<1>8. "resolve" \in MapState
    BY DEF MapState
<1>9. \A q \in Ranks : q # r /\ q \in alive => MapsOK(node[q], q, mdsmap')
    BY <1>8, PublishedOthers
<1>10. \A q \in Ranks : node'[q].out = NoOut
    BY <1>7 DEF UpToDate
<1>11. \A q \in Ranks : q \in alive' => MapsOK(node'[q], q, mdsmap')
    BY <1>5, <1>7, <1>9
<1> QED
    BY <1>10, <1>11 DEF UpToDate

LEMMA TakeoverOne ==
    ASSUME Inv, NEW D, UpToDate(alive, node, mdsmap), OneExport(D), NEW r \in Ranks, Takeover(r)
    PROVE  OneInv'
<1>1. /\ World(D, alive, node, net, durable) /\ Typed(node, net, durable) /\ D \in Ranks \cup {NONE}
      /\ net \in Net /\ durable[r] \in DurableState /\ node \in [Ranks -> RankState]
    BY Before DEF Inv, TypeOK
<1>2. TypeOK /\ Now \in Nat /\ Now + 1 \in Nat /\ CurMap \in MDSMap
    BY MapsType DEF Inv
<1>3. PICK map : map = [CurMap EXCEPT ![r] = "resolve"]
    OBVIOUS
<1>4. map \in MDSMap /\ map[r] = "resolve"
    BY <1>2, <1>3 DEF MDSMap, MapState
<1>5. PICK s : s = ResolveStart(r, map, Now + 1, durable[r])
    OBVIOUS
<1>6. PICK t : t = [s EXCEPT !.out = NoOut]
    OBVIOUS
<1>7. /\ r \notin alive /\ Publish(map) /\ node' = [node EXCEPT ![r] = t] /\ net' = Sent(net, s)
      /\ alive' = alive \cup {r} /\ durable' = durable /\ used' = used
    BY <1>3, <1>5, <1>6 DEF Takeover
<1>8. /\ Role(s, D, durable[r], Gone0(durable), Settled0(node, durable))
      /\ Goes(node[r], s, D, durable[r], Settled0(node, durable))
      /\ s.me = r /\ s.map = map /\ s.epoch = Now + 1
    BY <1>1, <1>2, <1>4, <1>5, <1>7, TakesOver
<1> HIDE <1>5
<1>9. s \in RankState
    BY <1>8, RoleIs
<1>10. NoOut \in [Ranks -> Seq(Message)]
    BY EmptySeq DEF NoOut
<1>11. /\ Alike(s, t) /\ t \in RankState /\ t.out = NoOut /\ t.map = map /\ t.epoch = Now + 1
    BY <1>6, <1>8, <1>9, <1>10, OutAlike DEF Alike
<1>12. PICK nd : nd = [node EXCEPT ![r] = s]
    OBVIOUS
<1>13. nd[r] = s /\ (\A q \in Ranks : q # r => nd[q] = node[q]) /\ nd \in [Ranks -> RankState]
    BY <1>1, <1>9, <1>12
<1>14. node' = [nd EXCEPT ![r] = t]
    BY <1>1, <1>7, <1>12
<1> HIDE <1>6, <1>12
<1>15. Wire(net, net', r, s.out) /\ net' \in Net
    BY <1>1, <1>7, <1>8, <1>9, SentWire, SentType
<1>16. Becomes(r, s, durable[r], alive, node, durable, alive', nd, durable)
    BY <1>7, <1>13 DEF Becomes, Only
<1>17. r \in alive'
    BY <1>7
<1>18. World(D, alive', nd, net', durable)
    BY <1>1, <1>8, <1>15, <1>16, <1>17, WorldGoes
<1>19. Typed(nd, net', durable)
    BY <1>1, <1>13, <1>15 DEF Typed
<1>20. World(D, alive', node', net', durable)
    BY <1>11, <1>13, <1>14, <1>17, <1>18, <1>19, WorldAlike
<1>21. UpToDate(alive', node', mdsmap')
    BY <1>3, <1>7, <1>11, TakeoverMaps
<1>22. (D = NONE => used'.export = 0) /\ (D # NONE => used'.export >= 1)
    BY <1>7 DEF OneExport
<1>23. World(D, alive', node', net', durable')
    BY <1>7, <1>20
<1> QED
    BY <1>1, <1>21, <1>22, <1>23, OneInvNext

LEMMA MonStepOne ==
    ASSUME Inv, NEW D, UpToDate(alive, node, mdsmap), OneExport(D), NEW r \in Ranks, NEW from, NEW to \in MapState,
           MonStep(r, from, to), used'.export = used.export, Later(from, to), Later(to, to),
           from = "resolve" => node[r].resolved
    PROVE  OneInv'
<1>1. /\ r \in alive /\ CurMap[r] = from /\ Publish([CurMap EXCEPT ![r] = to])
      /\ alive' = alive /\ node' = node /\ net' = net /\ durable' = durable
    BY DEF MonStep
<1>2. World(D, alive', node', net', durable') /\ D \in Ranks \cup {NONE}
    BY <1>1, Before
<1>3. MapsOK(node[r], r, mdsmap')
    <2>1. PICK m : m = [CurMap EXCEPT ![r] = to]
        OBVIOUS
    <2>2. /\ CurMap \in MDSMap /\ mdsmap \in Seq(MDSMap) /\ node[r] \in RankState
          /\ CurMap = mdsmap[Len(mdsmap)]
        BY MapsType DEF Inv, TypeOK, Now, CurMap
    <2>3. m \in MDSMap /\ m[r] = to /\ mdsmap' = Append(mdsmap, m)
        BY <1>1, <2>1, <2>2 DEF MDSMap, Publish
    <2>4. MapsOK(node[r], r, mdsmap)
        BY <1>1 DEF UpToDate
    <2>5. /\ Later(mdsmap[Len(mdsmap)][r], m[r]) /\ Later(m[r], m[r])
          /\ node[r].resolved \/ mdsmap[Len(mdsmap)][r] # "resolve" \/ m[r] = "resolve"
        BY <1>1, <2>2, <2>3
    <2> HIDE <2>1
    <2> QED
        BY <2>2, <2>3, <2>4, <2>5, MapsPublished
<1>4. \A q \in Ranks : q # r /\ q \in alive => MapsOK(node[q], q, mdsmap')
    BY <1>1, PublishedOthers
<1>5. UpToDate(alive', node', mdsmap')
    BY <1>1, <1>3, <1>4 DEF UpToDate
<1>6. (D = NONE => used'.export = 0) /\ (D # NONE => used'.export >= 1)
    BY DEF OneExport
<1> QED
    BY <1>2, <1>5, <1>6, OneInvNext

LEMMA MonitorOne ==
    ASSUME Inv, NEW D, UpToDate(alive, node, mdsmap), OneExport(D), NEW r \in Ranks,
           MonRejoin(r) \/ MonActive(r) \/ MonStop(r)
    PROVE  OneInv'
<1>1. {"rejoin", "active", "stopping"} \subseteq MapState
    BY DEF MapState
<1>2. /\ Later("resolve", "rejoin") /\ Later("rejoin", "rejoin") /\ Later("rejoin", "active")
      /\ Later("active", "active") /\ Later("active", "stopping") /\ Later("stopping", "stopping")
    BY DEF Later, ActiveOrStopping
<1>3. CASE MonRejoin(r)
    <2>1. MonStep(r, "resolve", "rejoin") /\ used' = used /\ node[r].resolved
        BY <1>3 DEF MonRejoin
    <2> QED
        BY <1>1, <1>2, <2>1, MonStepOne
<1>4. CASE MonActive(r)
    <2>1. MonStep(r, "rejoin", "active") /\ used' = used
        BY <1>4 DEF MonActive
    <2> QED
        BY <1>1, <1>2, <2>1, MonStepOne
<1>5. CASE MonStop(r)
    <2>1. MonStep(r, "active", "stopping") /\ used'.export = used.export
        BY <1>5, InvIs DEF MonStop, Others
    <2> QED
        BY <1>1, <1>2, <2>1, MonStepOne
<1> QED
    BY <1>3, <1>4, <1>5

-----------------------------------------------------------------------------
(* Maps and messages.                                                      *)
LEMMA InstanceShrinks ==
    ASSUME NEW c \in Seq(Message), NEW downs
    PROVE  Shrinks(c, FromInstance(c, downs))
<1> DEFINE stale == {k \in 1..Len(c) : \E i \in downs : c[k].ep <= i}
           last == CHOOSE k \in stale : \A j \in stale : j <= k
<1>1. CASE stale = {}
    <2>1. FromInstance(c, downs) = c
        BY <1>1 DEF FromInstance
    <2>2. Len(c) \in Nat
        BY LenProperties
    <2>3. 0 \in 0..Len(c) /\ \A k \in 1..Len(c) : k + 0 <= Len(c) /\ k + 0 = k
        BY <2>2
    <2> QED
        BY <2>1, <2>3 DEF Shrinks
<1>2. CASE stale # {}
    <2>1. PICK n : n = Len(c) /\ n \in Nat
        BY LenProperties
    <2>2. PICK X : X = stale /\ X \in SUBSET (1..n) /\ X # {}
        BY <1>2, <2>1
    <2>3. PICK Y : Y = {n - k : k \in X}
        OBVIOUS
    <2>4. Y \in SUBSET Nat /\ Y # {}
        BY <2>1, <2>2, <2>3
    <2>5. PICK y \in Y : \A z \in Y : y <= z
        BY <2>4, LeastOf
    <2>6. PICK k \in X : y = n - k
        BY <2>3
    <2>7. \A j \in X : j <= k
        <3> TAKE j \in X
        <3>1. n - j \in Y
            BY <2>3
        <3>2. n - k <= n - j
            BY <2>5, <2>6, <3>1
        <3> QED
            BY <2>1, <2>2, <2>6, <3>2
    <2>8. PICK l : l = CHOOSE a \in X : \A j \in X : j <= a
        OBVIOUS
    <2>9. l \in X
        BY <2>7, <2>8
    <2>10. l \in Nat /\ l \in 1..n /\ l + 1 \in Int /\ n \in Int /\ l \in 0..n
        BY <2>1, <2>2, <2>9
    <2>11. PICK d : d = SubSeq(c, l + 1, n)
        OBVIOUS
    <2>12. FromInstance(c, downs) = d
        BY <1>2, <2>1, <2>2, <2>8, <2>11 DEF FromInstance
    <2>13. \A i \in (l + 1)..n : c[i] \in Message
        <3>1. \A i \in (l + 1)..n : i \in 1..n
            BY <2>1, <2>10
        <3> QED
            BY <2>1, <3>1, ElementOfSeq
    <2> HIDE <1>2, <2>2, <2>8 DEF stale, last
    <2>14. /\ Len(d) = IF l + 1 <= n THEN n - (l + 1) + 1 ELSE 0
           /\ \A i \in 1..n - (l + 1) + 1 : d[i] = c[l + 1 + i - 1]
        BY <2>10, <2>11, <2>13, SubSeqProperties
    <2>15. Len(d) = n - l
        BY <2>1, <2>10, <2>14
    <2>16. \A i \in 1..Len(d) : i + l <= n /\ d[i] = c[i + l]
        <3> TAKE i \in 1..Len(d)
        <3>1. i \in 1..n - (l + 1) + 1 /\ l + 1 + i - 1 = i + l /\ i + l <= n
            BY <2>1, <2>10, <2>15
        <3> QED
            BY <2>14, <3>1
    <2> QED
        BY <2>1, <2>10, <2>12, <2>16 DEF Shrinks
<1> QED
    BY <1>1, <1>2

LEMMA InstancesShrunk ==
    ASSUME NEW n \in Net, NEW r \in Ranks, NEW f, NEW n2,
           n2 = [x \in Ranks |-> [n[x] EXCEPT ![r] = FromInstance(@, f[x])]]
    PROVE  Shrunk(n, n2) /\ n2 \in Net
<1>1. \A x \in Ranks : /\ FromInstance(n[x][r], f[x]) \in Seq(Message)
                       /\ Shrinks(n[x][r], FromInstance(n[x][r], f[x]))
                       /\ n[x] \in [Ranks -> Seq(Message)]
    BY FromInstanceType, InstanceShrinks DEF Net
<1>2. PICK g : g = [x \in Ranks |-> FromInstance(n[x][r], f[x])]
    OBVIOUS
<1>3. \A x \in Ranks : g[x] \in Seq(Message) /\ Shrinks(n[x][r], g[x]) /\ n2[x] = [n[x] EXCEPT ![r] = g[x]]
    BY <1>1, <1>2
<1>4. \A x \in Ranks : n2[x] \in [Ranks -> Seq(Message)]
    BY <1>1, <1>3
<1>5. n2 \in Net
    BY <1>4 DEF Net
<1>6. ASSUME NEW x \in Ranks, NEW y \in Ranks
      PROVE  Shrinks(n[x][y], n2[x][y])
    <2>1. n2[x][y] = IF y = r THEN g[x] ELSE n[x][y]
        BY <1>1, <1>3
    <2>2. Len(n[x][y]) \in Nat
        BY LenProperties DEF Net
    <2>3. 0 \in 0..Len(n[x][y]) /\ \A k \in 1..Len(n[x][y]) : k + 0 <= Len(n[x][y]) /\ k + 0 = k
        BY <2>2
    <2>4. Shrinks(n[x][y], n[x][y])
        BY <2>3 DEF Shrinks
    <2> QED
        BY <1>3, <2>1, <2>4
<1> QED
    BY <1>5, <1>6 DEF Shrunk

LEMMA HandleMapOne ==
    ASSUME Inv, NEW D, UpToDate(alive, node, mdsmap), OneExport(D), NEW r \in Ranks,
           NEW skip \in 0..MapGap, HandleMap(r, skip)
    PROVE  OneInv'
<1>1. TypeOK /\ Now \in Nat /\ (\A i \in 1..Now : mdsmap[i] \in MDSMap) /\ Shared /\ Now = Len(mdsmap)
    BY MapsType, InvIs DEF Inv, Now
<1>2. PICK s, e : s = node[r] /\ e = s.epoch + 1 + skip
    OBVIOUS
<1>3. PICK f : f = [q \in Ranks |-> {i \in (s.epoch + 1)..e : mdsmap[i][q] = "down"}]
    OBVIOUS
<1>4. PICK F : F = {q \in Ranks \ {r} : s.map[q] # "down" /\ f[q] # {}}
    OBVIOUS
<1>5. PICK n : n = [x \in Ranks |-> [net[x] EXCEPT ![r] = FromInstance(@, f[x])]]
    OBVIOUS
<1>6. PICK t : t = HandleMdsMap(s, mdsmap[e], e, F)
    OBVIOUS
<1>7. r \in alive /\ e <= Now /\ Commit(t, n) /\ UNCHANGED <<durable, lastTid, used>>
    <2>1. F = {q \in Ranks \ {r} : s.map[q] # "down"
                 /\ {i \in (s.epoch + 1)..e : mdsmap[i][q] = "down"} # {}}
        BY <1>3, <1>4
    <2>2. n = [x \in Ranks |-> [net[x] EXCEPT ![r] =
                 FromInstance(@, {i \in (s.epoch + 1)..e : mdsmap[i][x] = "down"})]]
        BY <1>3, <1>5
    <2> HIDE <1>3, <1>4, <1>5
    <2> QED
        BY <1>2, <1>6, <2>1, <2>2 DEF HandleMap
<1>8. /\ Sane(s) /\ s \in RankState /\ s.me = r /\ s.epoch \in Nat /\ net \in Net
      /\ World(D, alive, node, net, durable) /\ Typed(node, net, durable) /\ D \in Ranks \cup {NONE}
      /\ durable \in [Ranks -> DurableState]
      /\ Role(s, D, durable[r], Gone0(durable), Settled0(node, durable))
    BY <1>2, <1>7, Before, RankFields DEF Sane
<1>9. e \in Nat /\ e \in 1..Now /\ s.epoch <= e
    BY <1>1, <1>2, <1>7, <1>8, BoundsAssumption
<1>10. F \in SUBSET Ranks /\ mdsmap \in Seq(MDSMap) /\ mdsmap[e] \in MDSMap
    BY <1>1, <1>4, <1>9 DEF Shared
<1>11. Shrunk(net, n) /\ n \in Net
    BY <1>5, <1>8, InstancesShrunk
<1>12. Sane(t)
    BY <1>6, <1>8, <1>9, <1>10, MdsMapSane
<1>13. MapsOK(s, s.me, mdsmap)
    BY <1>2, <1>7, <1>8 DEF UpToDate
<1>14. MapsOn(s, mdsmap[e])
    BY <1>1, <1>8, <1>9, <1>10, <1>13, MapsSkipped
<1> HIDE <1>3, <1>4, <1>5
<1>15. /\ Role(t, D, durable[r], Gone0(durable), Settled0(node, durable))
       /\ Goes(s, t, D, durable[r], Settled0(node, durable))
       /\ t.map = mdsmap[e] /\ t.epoch = e /\ (s.resolved => t.resolved)
    BY <1>6, <1>8, <1>9, <1>10, <1>14, MapKeeps
<1>16. World(D, alive, node, n, durable) /\ Typed(node, n, durable)
    BY <1>8, <1>11, WorldShrinks DEF Typed
<1>17. WellSent(D, alive, node, n, durable, t) /\ t.me = r
    BY <1>2, <1>7, <1>15, <1>16, GoesSent
<1>18. MapsOK(t, t.me, mdsmap)
    BY <1>1, <1>8, <1>9, <1>10, <1>13, <1>15, <1>17, MapsSkipped
<1> HIDE <1>6
<1>19. UpToDate(alive', node', mdsmap')
    BY <1>7, <1>12, <1>18, CommitMaps
<1>20. WellSent(D, alive, node, n, durable', t) /\ durable' \in [Ranks -> DurableState]
    BY <1>7, <1>8, <1>17
<1>21. World(D, alive', node', net', durable')
    BY <1>7, <1>11, <1>12, <1>17, <1>20, CommitWorld
<1>22. (D = NONE => used'.export = 0) /\ (D # NONE => used'.export >= 1)
    BY <1>7 DEF OneExport
<1> QED
    BY <1>8, <1>19, <1>21, <1>22, OneInvNext

LEMMA FirstOf ==
    ASSUME Inv, NEW D, UpToDate(alive, node, mdsmap), OneExport(D), NEW x \in Ranks, NEW y \in Ranks,
           Deliverable(x, y), NEW m, m = First(x, y), NEW n, n = Delivered(x, y)
    PROVE  /\ y \in alive /\ m \in Message /\ MsgOK(x, y, m, D, Gone0(durable))
           /\ Pops(net, n, x, y) /\ m = Head(net[x][y]) /\ Shrunk(net, n) /\ n \in Net
<1>1. World(D, alive, node, net, durable) /\ Typed(node, net, durable) /\ net \in Net
    BY Before
<1>2. y \in alive /\ net[x][y] \in Seq(Message) /\ net[x][y] # <<>> /\ m = Head(net[x][y])
    BY <1>1 DEF Net, Deliverable, First
<1>3. /\ Tail(net[x][y]) \in Seq(Message) /\ Head(net[x][y]) = net[x][y][1] /\ Head(net[x][y]) \in Message
      /\ 1 \in 1..Len(net[x][y])
    BY <1>2, TailIs
<1>4. PICK l : l = Tail(net[x][y]) /\ l \in Seq(Message)
    BY <1>3
<1>5. n = [net EXCEPT ![x][y] = l]
    BY <1>1, <1>4 DEF Delivered, Net
<1>6. n \in Net /\ n[x][y] = l
    BY <1>1, <1>4, <1>5 DEF Net
<1>7. \A a, b \in Ranks : a # x \/ b # y => n[a][b] = net[a][b]
    BY <1>1, <1>5 DEF Net
<1>8. Pops(net, n, x, y)
    BY <1>2, <1>4, <1>6, <1>7 DEF Pops
<1>9. Shrunk(net, n)
    BY <1>1, <1>8, PopsShrunk
<1>10. NetOK(D, net, Gone0(durable))
    BY <1>1, WorldIs
<1>11. MsgOK(x, y, m, D, Gone0(durable))
    BY <1>2, <1>3, <1>10 DEF NetOK
<1> QED
    BY <1>2, <1>3, <1>6, <1>8, <1>9, <1>11

(* The parts of the ranks.                                                 *)
LEMMA Parts ==
    ASSUME Inv, NEW D, UpToDate(alive, node, mdsmap), OneExport(D), NEW r \in Ranks, r \in alive
    PROVE  /\ node[r].me = r /\ Sane(node[r]) /\ node[r].out = NoOut /\ D # E /\ E # NONE /\ E \in Ranks
           /\ r = E => Exporter(node[E], D, durable[E]) /\ (Gone0(durable) <=> durable[E] # "mine")
           /\ r = D => Importing(node[D], D, durable[D], Gone0(durable), Settled0(node, durable))
           /\ r # E /\ r # D => Standing(node[r], D, Gone0(durable))
           /\ \A t : Exported(node[E], t, D, durable[E]) /\ r = E
                => Kept(node[r], t, D, durable[r], Gone0(durable), Settled0(node, durable))
           /\ \A t : Imported(node[D], t, D, durable[D], Gone0(durable), Settled0(node, durable)) /\ r = D
                => Kept(node[r], t, D, durable[r], Gone0(durable), Settled0(node, durable))
           /\ \A t : Stood(node[r], t, D, Gone0(durable)) /\ r # E /\ r # D
                => Kept(node[r], t, D, durable[r], Gone0(durable), Settled0(node, durable))
<1>1. /\ Role(node[r], D, durable[r], Gone0(durable), Settled0(node, durable)) /\ E # NONE /\ E \in Ranks
      /\ node[r].me = r /\ Sane(node[r]) /\ node[r].out = NoOut
    BY Before
<1>2. /\ D # E
      /\ r = E => Exporter(node[r], D, durable[r])
      /\ r = D => Importing(node[r], D, durable[r], Gone0(durable), Settled0(node, durable))
      /\ r # E /\ r # D => Standing(node[r], D, Gone0(durable))
    BY <1>1, RoleIs
<1> QED
    BY <1>1, <1>2 DEF Kept, Gone0

LEMMA Delivers ==
    ASSUME Inv, NEW D, UpToDate(alive, node, mdsmap), OneExport(D), NEW x \in Ranks, NEW y \in Ranks,
           NEW type, NEW s, Deliver(x, y, type, s), Sane(s),
           Kept(node[y], s, D, durable[y], Gone0(durable), Settled0(node, durable))
    PROVE  OneInv'
<1>1. PICK n : n = Delivered(x, y)
    OBVIOUS
<1>2. Deliverable(x, y) /\ Commit(s, n) /\ UNCHANGED <<durable, lastTid, used>>
    BY <1>1 DEF Deliver
<1>3. y \in alive /\ Shrunk(net, n) /\ n \in Net
    BY <1>1, <1>2, FirstOf
<1> HIDE <1>1
<1> QED
    BY <1>2, <1>3, KeptTurns

LEMMA DeliversSent ==
    ASSUME Inv, NEW D, UpToDate(alive, node, mdsmap), OneExport(D), NEW x \in Ranks, NEW y \in Ranks,
           NEW type, NEW s, Deliver(x, y, type, s), Sane(s), s.me = y, Frame(node[y], s),
           WellSent(D, alive, node, Delivered(x, y), durable, s)
    PROVE  OneInv'
<1>1. PICK n : n = Delivered(x, y)
    OBVIOUS
<1>2. Deliverable(x, y) /\ Commit(s, n) /\ durable' = durable /\ used' = used
    BY <1>1 DEF Deliver
<1>3. y \in alive /\ n \in Net
    BY <1>1, <1>2, FirstOf
<1>4. WellSent(D, alive, node, n, durable', s)
    BY <1>1, <1>2
<1>5. D \in Ranks \cup {NONE} /\ durable' \in [Ranks -> DurableState]
    BY <1>2, Before
<1>6. (D = NONE => used'.export = 0) /\ (D # NONE => used'.export >= 1)
    BY <1>2 DEF OneExport
<1> HIDE <1>1
<1> QED
    BY <1>2, <1>3, <1>4, <1>5, <1>6, Turns

(* To the importer.                                                        *)
LEMMA ToImporterOne ==
    ASSUME Inv, NEW D, UpToDate(alive, node, mdsmap), OneExport(D), NEW x \in Ranks, NEW y \in Ranks,
           DeliverDiscover(x, y) \/ DeliverPrep(x, y) \/ DeliverExportDir(x, y)
             \/ DeliverFinish(x, y) \/ DeliverCancel(x, y)
    PROVE  OneInv'
<1>1. PICK m, n : m = First(x, y) /\ n = Delivered(x, y)
    OBVIOUS
<1>2. Deliverable(x, y) /\ m.type \in {"Discover", "Prep", "ExportDir", "Finish", "Cancel"}
    BY <1>1 DEF DeliverDiscover, DeliverPrep, DeliverExportDir, DeliverFinish, DeliverCancel, Deliver
<1>3. /\ y \in alive /\ m \in Message /\ MsgOK(x, y, m, D, Gone0(durable))
      /\ Pops(net, n, x, y) /\ m = Head(net[x][y])
    BY <1>1, <1>2, FirstOf
<1>4. x = E /\ y = D
    BY <1>2, <1>3 DEF MsgOK
<1>5. PICK s, d, g, h : s = node[D] /\ d = durable[D] /\ g = Gone0(durable) /\ h = Settled0(node, durable)
    OBVIOUS
<1>6. Importing(s, D, d, g, h) /\ Sane(s)
    BY <1>3, <1>4, <1>5, Parts
<1>7. /\ World(D, alive, node, net, durable) /\ Typed(node, net, durable)
    BY Before
<1>8. /\ m.type = "Discover" => Untouched(s, d)
      /\ m.type = "ExportDir" => Clean(s, d)
    <2>1. PairOK(node[E], durable[E], s, d, net[E][D], net[D][E]) /\ net[E][D] \in Seq(Message)
        BY <1>4, <1>5, <1>7, WorldIs, RanksAssumption
    <2>2. net[E][D] # <<>>
        BY <1>3, <1>4 DEF Pops
    <2>3. 1 \in 1..Len(net[E][D]) /\ m = net[E][D][1]
        BY <1>3, <1>4, <2>1, <2>2, TailIs
    <2> QED
        BY <2>1, <2>3 DEF PairOK, ToImporter
<1>9. \A t : Imported(s, t, D, d, g, h) => Kept(node[y], t, D, durable[y], Gone0(durable), Settled0(node, durable))
    BY <1>3, <1>4, <1>5, Parts
<1>10. CASE DeliverDiscover(x, y)
    <2>1. PICK found \in BOOLEAN : Deliver(x, y, "Discover", HandleExportDiscover(s, E, m, found))
        BY <1>1, <1>4, <1>5, <1>10 DEF DeliverDiscover
    <2>2. PICK t : t = HandleExportDiscover(s, E, m, found)
        OBVIOUS
    <2>3. Deliver(x, y, "Discover", t) /\ m.type = "Discover"
        BY <1>1, <2>1, <2>2 DEF Deliver
    <2>4. Sane(t)
        BY <1>3, <1>4, <1>6, <2>2, DiscoverSane
    <2>5. Importing(t, D, d, g, h) /\ Frame(s, t) /\ Clean(t, d)
        BY <1>3, <1>6, <1>8, <2>2, <2>3, DiscoverBegins
    <2> HIDE <2>2
    <2>6. WellSent(D, alive, node, n, durable, t) /\ t.me = D
        BY <1>3, <1>4, <1>5, <1>7, <2>3, <2>5, TakesSent
    <2> QED
        BY <1>1, <1>4, <1>5, <2>3, <2>4, <2>5, <2>6, DeliversSent
<1>11. CASE DeliverPrep(x, y)
    <2>1. PICK opened, locks \in BOOLEAN : Deliver(x, y, "Prep", HandleExportPrep(s, E, m, opened, locks))
        BY <1>1, <1>4, <1>5, <1>11 DEF DeliverPrep
    <2>2. m.type = "Prep"
        BY <1>1, <2>1 DEF Deliver
    <2>3. E \notin m.byst /\ D \notin m.byst
        BY <1>3, <2>2 DEF MsgOK
    <2>4. PICK t : t = HandleExportPrep(s, E, m, opened, locks)
        OBVIOUS
    <2>5. Sane(t)
        BY <1>3, <1>4, <1>6, <2>4, PrepSane
    <2>6. Imported(s, t, D, d, g, h)
        BY <1>3, <1>6, <2>3, <2>4, PrepKeeps
    <2> QED
        BY <1>9, <2>1, <2>4, <2>5, <2>6, Delivers
<1>12. CASE DeliverExportDir(x, y)
    <2>1. PICK t : t = HandleExportDir(s, E, m)
        OBVIOUS
    <2>2. Deliver(x, y, "ExportDir", t) /\ m.type = "ExportDir"
        BY <1>1, <1>4, <1>5, <1>12, <2>1 DEF DeliverExportDir, Deliver
    <2>3. Sane(t)
        BY <1>3, <1>4, <1>6, <2>1, HandleExportDirSane
    <2>4. Importing(t, D, d, g, h) /\ Frame(s, t) /\ (Untouched(s, d) => Untouched(t, d))
        BY <1>3, <1>6, <1>8, <2>1, <2>2, DirBegins
    <2> HIDE <2>1
    <2>5. WellSent(D, alive, node, n, durable, t) /\ t.me = D
        BY <1>3, <1>4, <1>5, <1>7, <2>2, <2>4, TakesSent
    <2> QED
        BY <1>1, <1>4, <1>5, <2>2, <2>3, <2>4, <2>5, DeliversSent
<1>13. CASE DeliverFinish(x, y)
    <2>1. PICK t : t = HandleExportFinish(s, E, m)
        OBVIOUS
    <2>2. Deliver(x, y, "Finish", t) /\ m.type = "Finish"
        BY <1>1, <1>4, <1>5, <1>13, <2>1 DEF DeliverFinish, Deliver
    <2>3. g
        BY <1>3, <1>5, <2>2 DEF MsgOK
    <2>4. Sane(t)
        BY <1>3, <1>4, <1>6, <2>1, FinishSane
    <2>5. Imported(s, t, D, d, g, h)
        BY <1>6, <2>1, <2>3, FinishKeeps
    <2> QED
        BY <1>9, <2>2, <2>4, <2>5, Delivers
<1>14. CASE DeliverCancel(x, y)
    <2>1. PICK t : t = HandleExportCancel(s, E, m)
        OBVIOUS
    <2>2. Deliver(x, y, "Cancel", t)
        BY <1>1, <1>4, <1>5, <1>14, <2>1 DEF DeliverCancel
    <2>3. Sane(t)
        BY <1>3, <1>4, <1>6, <2>1, CancelSane
    <2>4. Imported(s, t, D, d, g, h)
        BY <1>6, <2>1, CancelKeeps
    <2> QED
        BY <1>9, <2>2, <2>3, <2>4, Delivers
<1> QED
    BY <1>10, <1>11, <1>12, <1>13, <1>14

(* To the exporter.                                                        *)
LEMMA ToExporterOne ==
    ASSUME Inv, NEW D, UpToDate(alive, node, mdsmap), OneExport(D), NEW x \in Ranks, NEW y \in Ranks,
           DeliverDiscoverAck(x, y) \/ DeliverPrepAck(x, y) \/ DeliverExportDirAck(x, y)
    PROVE  OneInv'
<1>1. PICK m, n : m = First(x, y) /\ n = Delivered(x, y)
    OBVIOUS
<1>2. Deliverable(x, y) /\ m.type \in {"DiscoverAck", "PrepAck", "ExportDirAck"}
    BY <1>1 DEF DeliverDiscoverAck, DeliverPrepAck, DeliverExportDirAck, Deliver
<1>3. /\ y \in alive /\ m \in Message /\ MsgOK(x, y, m, D, Gone0(durable))
      /\ Pops(net, n, x, y) /\ m = Head(net[x][y])
    BY <1>1, <1>2, FirstOf
<1>4. x = D /\ y = E
    BY <1>2, <1>3 DEF MsgOK
<1>5. PICK s, d : s = node[E] /\ d = durable[E]
    OBVIOUS
<1>6. Exporter(s, D, d) /\ Sane(s)
    BY <1>3, <1>4, <1>5, Parts
<1>7. World(D, alive, node, net, durable) /\ Typed(node, net, durable)
    BY Before
<1>8. \A t : Exported(s, t, D, d) => Kept(node[y], t, D, durable[y], Gone0(durable), Settled0(node, durable))
    BY <1>3, <1>4, <1>5, Parts
<1>9. CASE DeliverDiscoverAck(x, y)
    <2>1. PICK t : t = HandleExportDiscoverAck(s, x, m)
        OBVIOUS
    <2>2. Deliver(x, y, "DiscoverAck", t)
        BY <1>1, <1>4, <1>5, <1>9, <2>1 DEF DeliverDiscoverAck
    <2>3. Sane(t)
        BY <1>3, <1>6, <2>1, DiscoverAckSane
    <2>4. Exported(s, t, D, d)
        BY <1>6, <2>1, DiscoverAckKeeps
    <2> QED
        BY <1>8, <2>2, <2>3, <2>4, Delivers
<1>10. CASE DeliverPrepAck(x, y)
    <2>1. PICK t : t = HandleExportPrepAck(s, x, m)
        OBVIOUS
    <2>2. Deliver(x, y, "PrepAck", t)
        BY <1>1, <1>4, <1>5, <1>10, <2>1 DEF DeliverPrepAck
    <2>3. Sane(t)
        BY <1>3, <1>6, <2>1, PrepAckSane
    <2>4. Exported(s, t, D, d)
        BY <1>3, <1>6, <2>1, PrepAckKeeps
    <2> QED
        BY <1>8, <2>2, <2>3, <2>4, Delivers
<1>11. CASE DeliverExportDirAck(x, y)
    <2>1. PICK t : t = HandleExportAck(s, x, m)
        OBVIOUS
    <2>2. Deliver(x, y, "ExportDirAck", t) /\ m.type = "ExportDirAck"
        BY <1>1, <1>4, <1>5, <1>11, <2>1 DEF DeliverExportDirAck, Deliver
    <2>3. Sane(t)
        BY <1>3, <1>6, <2>1, ExportAckSane
    <2>4. Frame(s, t)
        BY <1>3, <1>6, <2>1, AckKeeps
    <2>5. WellSent(D, alive, node, n, durable, t) /\ t.me = E
        BY <1>3, <1>4, <1>5, <1>6, <1>7, <2>1, <2>2, AckSent
    <2> HIDE <2>1
    <2> QED
        BY <1>1, <1>4, <1>5, <2>2, <2>3, <2>4, <2>5, DeliversSent
<1> QED
    BY <1>9, <1>10, <1>11

(* To anyone.                                                              *)
LEMMA ToAnyoneOne ==
    ASSUME Inv, NEW D, UpToDate(alive, node, mdsmap), OneExport(D), NEW x \in Ranks, NEW y \in Ranks,
           DeliverNotify(x, y) \/ DeliverNotifyAck(x, y) \/ DeliverResolve(x, y)
    PROVE  OneInv'
<1>1. PICK m, n : m = First(x, y) /\ n = Delivered(x, y)
    OBVIOUS
<1>2. Deliverable(x, y)
    BY DEF DeliverNotify, DeliverNotifyAck, DeliverResolve, Deliver
<1>3. /\ y \in alive /\ m \in Message /\ MsgOK(x, y, m, D, Gone0(durable))
      /\ Pops(net, n, x, y) /\ m = Head(net[x][y])
    BY <1>1, <1>2, FirstOf
<1>4. PICK s, d, g, h : s = node[y] /\ d = durable[y] /\ g = Gone0(durable) /\ h = Settled0(node, durable)
    OBVIOUS
<1>5. /\ s.me = y /\ Sane(s) /\ D # E
      /\ y = E => Exporter(s, D, d) /\ (g <=> d # "mine")
      /\ y = D => Importing(s, D, d, g, h)
      /\ y # E /\ y # D => Standing(s, D, g)
    BY <1>3, <1>4, Parts
<1>6. \A t : ((y = E /\ Exported(s, t, D, d)) \/ (y = D /\ Imported(s, t, D, d, g, h))
               \/ (y # E /\ y # D /\ Stood(s, t, D, g)))
               => Kept(node[y], t, D, durable[y], Gone0(durable), Settled0(node, durable))
    BY <1>3, <1>4, Parts
<1>7. CASE DeliverNotify(x, y)
    <2>1. PICK t : t = HandleExportNotify(s, x, m)
        OBVIOUS
    <2>2. Deliver(x, y, "Notify", t) /\ m.type = "Notify"
        BY <1>1, <1>4, <1>7, <2>1 DEF DeliverNotify, Deliver
    <2>3. Sane(t)
        BY <1>3, <1>5, <2>1, NotifySane
    <2>4. y # E /\ y # D /\ m.new[1] # s.me
        BY <1>3, <1>5, <2>2 DEF MsgOK
    <2>5. Stood(s, t, D, g)
        BY <1>3, <1>5, <2>1, <2>4, StandsNotify
    <2> QED
        BY <1>6, <2>2, <2>3, <2>4, <2>5, Delivers
<1>8. CASE DeliverNotifyAck(x, y)
    <2>1. PICK t : t = HandleExportNotifyAck(s, x, m)
        OBVIOUS
    <2>2. Deliver(x, y, "NotifyAck", t)
        BY <1>1, <1>4, <1>8, <2>1 DEF DeliverNotifyAck
    <2>3. Sane(t)
        BY <1>3, <1>5, <2>1, NotifyAckSane
    <2>4. /\ y = E => Exported(s, t, D, d)
          /\ y = D => Imported(s, t, D, d, g, h)
          /\ y # E /\ y # D => Stood(s, t, D, g)
        BY <1>5, <2>1, ExporterNotifyAck, ImporterNotifyAck, StandsNotifyAck
    <2>5. Kept(node[y], t, D, durable[y], Gone0(durable), Settled0(node, durable))
        BY <1>6, <2>4
    <2> QED
        BY <2>2, <2>3, <2>5, Delivers
<1>9. CASE DeliverResolve(x, y)
    <2>1. PICK t : t = HandleResolve(s, x, m)
        OBVIOUS
    <2>2. Deliver(x, y, "Resolve", t) /\ m.type = "Resolve"
        BY <1>1, <1>4, <1>9, <2>1 DEF DeliverResolve, Deliver
    <2>3. Sane(t)
        BY <1>3, <1>5, <2>1, ResolveSane
    <2>4. /\ x # y /\ (m.ambig => x = D) /\ (m.flag => x = E \/ (x = D /\ g)) /\ (x = E /\ ~m.flag => g)
        BY <1>3, <1>4, <2>2 DEF MsgOK
    <2>5. CASE y = E
        <3>1. m.flag => d # "mine"
            BY <1>5, <2>4, <2>5
        <3>2. Exported(s, t, D, d)
            BY <1>5, <2>1, <2>4, <2>5, <3>1, ExporterResolve
        <3> QED
            BY <1>6, <2>2, <2>3, <2>5, <3>2, Delivers
    <2>6. CASE y = D
        <3>1. World(D, alive, node, net, durable) /\ Typed(node, net, durable)
            BY Before
        <3>2. x = E /\ m.flag => Untouched(s, d) \/ h
            <4>1. SUFFICES ASSUME x = E, m.flag PROVE Untouched(s, d) \/ h
                OBVIOUS
            <4>2. PairOK(node[E], durable[E], s, d, net[E][D], net[D][E]) /\ net[E][D] \in Seq(Message)
                BY <1>4, <2>6, <3>1, <4>1, WorldIs, RanksAssumption
            <4>3. net[E][D] # <<>>
                BY <1>3, <2>6, <4>1 DEF Pops
            <4>4. 1 \in 1..Len(net[E][D]) /\ m = net[E][D][1]
                BY <1>3, <2>6, <4>1, <4>2, <4>3, TailIs
            <4>5. Claims(m)
                BY <2>2, <4>1 DEF Claims
            <4>6. ToImporter(net[E][D], Untouched(s, d), Clean(s, d), Settled(node[E], durable[E]))
                BY <4>2 DEF PairOK
            <4> QED
                BY <1>4, <4>4, <4>5, <4>6 DEF ToImporter, Settled0
        <3>3. x # D /\ ~m.ambig /\ (m.flag => x = E)
            BY <2>4, <2>6
        <3>4. Imported(s, t, D, d, g, h)
            BY <1>3, <1>5, <2>1, <2>4, <2>6, <3>2, <3>3, ImporterResolve
        <3> QED
            BY <1>6, <2>2, <2>3, <2>6, <3>4, Delivers
    <2>7. CASE y # E /\ y # D
        <3>1. Stood(s, t, D, g)
            BY <1>5, <2>1, <2>4, <2>7, StandsResolve
        <3> QED
            BY <1>6, <2>2, <2>3, <2>7, <3>1, Delivers
    <2> QED
        BY <2>5, <2>6, <2>7
<1> QED
    BY <1>7, <1>8, <1>9

LEMMA ReceiveOne ==
    ASSUME Inv, NEW D, UpToDate(alive, node, mdsmap), OneExport(D), NEW x \in Ranks, NEW y \in Ranks,
           Receive(x, y)
    PROVE  OneInv'
    BY ToImporterOne, ToExporterOne, ToAnyoneOne DEF Receive

-----------------------------------------------------------------------------
(* Steps a rank takes by itself.                                           *)
LEMMA StartExportOne ==
    ASSUME Inv, MaxExport <= 1, NEW D, UpToDate(alive, node, mdsmap), OneExport(D),
           NEW r \in Ranks, NEW dest \in Ranks, StartExport(r, dest)
    PROVE  OneInv'
<1>1. used \in [export : Nat, fail : Nat, stop : Nat] /\ used.export \in Nat /\ used.export < MaxExport
    BY InvIs DEF Others, StartExport
<1>2. MaxExport \in Nat
    BY BoundsAssumption
<1>3. used.export = 0
    BY <1>1, <1>2
<1>4. D = NONE
    BY <1>3 DEF OneExport
<1>5. PICK s : s = node[r]
    OBVIOUS
<1>6. r \in alive /\ s.isauth /\ dest # r /\ Surviving(s) /\ s.exp.state = "none"
    BY <1>5 DEF StartExport, IsExporting
<1>7. /\ s.me = r /\ Sane(s) /\ s.out = NoOut
      /\ r = E => Exporter(s, NONE, durable[E])
      /\ r # E /\ r # NONE => Standing(s, NONE, Gone0(durable))
    BY <1>4, <1>5, <1>6, Parts
<1>8. r = E
    BY <1>6, <1>7, RanksAssumption DEF Standing, BystanderOK
<1>9. PICK tid : tid = lastTid[r] + 1 /\ tid \in Nat
    BY InvIs DEF Others
<1>10. PICK t : t = ExportDir(s, dest, tid)
    OBVIOUS
<1>11. Commit(t, net) /\ durable' = durable /\ used'.export = used.export + 1
    BY <1>1, <1>5, <1>9, <1>10 DEF StartExport
<1>12. /\ durable[E] = "mine" /\ Exporter(t, dest, durable[E]) /\ Frame(s, t)
       /\ t.exp.state = "locking" /\ t.out = NoOut
    BY <1>6, <1>7, <1>8, <1>9, <1>10, ExportBegins
<1>13. Sane(t)
    BY <1>5, <1>6, <1>7, <1>9, <1>10, ExportDirSane DEF StartExport
<1> HIDE <1>10
<1>14. World(NONE, alive, node, net, durable) /\ Typed(node, net, durable) /\ net \in Net
       /\ durable \in [Ranks -> DurableState]
    BY <1>4, Before
<1>15. WellSent(dest, alive, node, net, durable, t) /\ t.me = E
    BY <1>6, <1>8, <1>12, <1>14, StartSent
<1>16. WellSent(dest, alive, node, net, durable', t) /\ durable' \in [Ranks -> DurableState]
    BY <1>11, <1>14, <1>15
<1>17. dest # NONE /\ dest \in Ranks \cup {NONE} /\ used'.export >= 1
    BY <1>3, <1>11, RanksAssumption
<1> QED
    BY <1>5, <1>6, <1>8, <1>11, <1>12, <1>13, <1>14, <1>15, <1>16, <1>17, Turns

LEMMA LocalKeeps ==
    ASSUME Inv, NEW D, UpToDate(alive, node, mdsmap), OneExport(D), NEW r \in Ranks, r \in alive,
           NEW s, Sane(s), Local(s),
           Kept(node[r], s, D, durable[r], Gone0(durable), Settled0(node, durable))
    PROVE  OneInv'
<1>1. net \in Net
    BY Before
<1>2. Commit(s, net) /\ UNCHANGED <<durable, lastTid, used>>
    BY DEF Local
<1>3. Shrunk(net, net)
    <2>1. \A c \in Seq(Message) : Len(c) \in Nat
        BY LenProperties
    <2>2. ASSUME NEW c \in Seq(Message)
          PROVE  Shrinks(c, c)
        <3>1. 0 \in 0..Len(c) /\ \A k \in 1..Len(c) : k + 0 <= Len(c) /\ k + 0 = k
            BY <2>1
        <3> QED
            BY <3>1 DEF Shrinks
    <2> QED
        BY <1>1, <2>2 DEF Shrunk, Net
<1> QED
    BY <1>1, <1>2, <1>3, KeptTurns

LEMMA LocalSent ==
    ASSUME Inv, NEW D, UpToDate(alive, node, mdsmap), OneExport(D), NEW r \in Ranks, r \in alive,
           NEW s, Sane(s), s.me = r, Frame(node[r], s), Commit(s, net),
           durable' \in [Ranks -> DurableState], used' = used,
           WellSent(D, alive, node, net, durable', s)
    PROVE  OneInv'
<1>1. D \in Ranks \cup {NONE} /\ net \in Net
    BY Before
<1>2. (D = NONE => used'.export = 0) /\ (D # NONE => used'.export >= 1)
    BY DEF OneExport
<1> QED
    BY <1>1, <1>2, Turns

LEMMA PostsFrame ==
    ASSUME NEW s, NEW u \in RankState, Frame(s, u), NEW t, NEW to \in Ranks, NEW type,
           type \in MsgType, Posts(u, t, to, type)
    PROVE  Frame(s, t)
<1>1. PICK k \in Nat : t = SendMds(u, to, Msg(type, k))
    BY DEF Posts
<1>2. PICK m : m = Msg(type, k)
    OBVIOUS
<1>3. m \in Message
    BY <1>2, MsgType0
<1>4. Alike(u, SendMds(u, to, m))
    BY <1>3, SendMdsFits
<1> QED
    BY <1>1, <1>2, <1>4 DEF Alike, Frame

(* Only the exporter has an export, and only the importer an import.       *)
LEMMA WhoExports ==
    ASSUME Inv, NEW D, UpToDate(alive, node, mdsmap), OneExport(D), NEW r \in Ranks, r \in alive
    PROVE  /\ node[r].exp.state # "none" => r = E /\ D \in Ranks
           /\ \A c \in node[r].wait : /\ c.kind \in {"frozen", "flushed"} => r = E
                                      /\ c.kind \in {"discover", "prep"} => r = D
           /\ node[r].log # <<>> => r = E \/ r = D
<1>1. /\ r = E => Exporter(node[E], D, durable[E])
      /\ r = D => Importing(node[D], D, durable[D], Gone0(durable), Settled0(node, durable))
      /\ r # E /\ r # D => Standing(node[r], D, Gone0(durable))
    BY Parts
<1>2. CASE r = E
    <2>1. \A c \in node[r].wait : c.kind \in {"frozen", "flushed"}
        BY <1>1, <1>2 DEF Exporter, ExporterOK
    <2>2. node[r].exp.state # "none" => D \in Ranks
        BY <1>1, <1>2 DEF Exporter
    <2> QED
        BY <1>2, <2>1, <2>2
<1>3. CASE r = D
    <2>1. node[r].exp.state = "none" /\ \A c \in node[r].wait : c.kind \in {"discover", "prep"}
        BY <1>1, <1>3 DEF Importing, ImporterOK
    <2> QED
        BY <1>3, <2>1
<1>4. CASE r # E /\ r # D
    <2>1. node[r].exp.state = "none" /\ node[r].wait = {} /\ node[r].log = <<>>
        BY <1>1, <1>4 DEF Standing, BystanderOK
    <2> QED
        BY <2>1
<1> QED
    BY <1>2, <1>3, <1>4

LEMMA InternalOne ==
    ASSUME Inv, NEW D, UpToDate(alive, node, mdsmap), OneExport(D), NEW r \in Ranks,
           \/ Dispatch(r) \/ FreezeDone(r) \/ Frozen(r) \/ SessionsFlushed(r)
           \/ RetryDiscover(r) \/ RetryPrep(r) \/ StaleFreeze(r)
    PROVE  OneInv'
<1>1. r \in alive
    BY DEF Dispatch, FreezeDone, Frozen, SessionsFlushed, RetryDiscover, RetryPrep, StaleFreeze
<1>2. PICK s, d, g, h : s = node[r] /\ d = durable[r] /\ g = Gone0(durable) /\ h = Settled0(node, durable)
    OBVIOUS
<1>3. /\ s.me = r /\ Sane(s) /\ s.out = NoOut
      /\ r = E => Exporter(s, D, d)
      /\ r = D => Importing(s, D, d, g, h)
    BY <1>1, <1>2, Parts
<1>4. \A t : ((r = E /\ Exported(s, t, D, d)) \/ (r = D /\ Imported(s, t, D, d, g, h)))
               => Kept(node[r], t, D, durable[r], Gone0(durable), Settled0(node, durable))
    BY <1>1, <1>2, Parts
<1>5. /\ s.exp.state # "none" => r = E /\ D \in Ranks
      /\ \A c \in s.wait : /\ c.kind \in {"frozen", "flushed"} => r = E
                           /\ c.kind \in {"discover", "prep"} => r = D
    BY <1>1, <1>2, WhoExports
<1>6. ASSUME s.exp.state # "none", Local(ExportTryCancel(s, TRUE))
      PROVE  OneInv'
    <2>1. PICK b : b = TRUE
        OBVIOUS
    <2>2. PICK t : t = ExportTryCancel(s, b)
        OBVIOUS
    <2>3. Local(t)
        BY <1>6, <2>1, <2>2
    <2>4. Sane(t) /\ Exported(s, t, D, d)
        BY <1>3, <1>5, <1>6, <2>2, TryCancelSane, TryCancelKeeps
    <2> HIDE <2>1, <2>2
    <2> QED
        BY <1>1, <1>4, <1>5, <1>6, <2>3, <2>4, LocalKeeps
<1>7. CASE Dispatch(r)
    <2>1. s.exp.state = "locking" /\ (Local(DispatchExportDir(s)) \/ Local(ExportTryCancel(s, TRUE)))
        BY <1>2, <1>7 DEF Dispatch
    <2>2. r = E /\ D \in Ranks /\ Exporter(s, D, d)
        BY <1>3, <1>5, <2>1
    <2>3. CASE Local(DispatchExportDir(s))
        <3>1. PICK t : t = DispatchExportDir(s)
            OBVIOUS
        <3>2. Commit(t, net) /\ durable' = durable /\ used' = used
            BY <2>3, <3>1 DEF Local
        <3>3. Sane(t)
            BY <1>3, <2>1, <3>1, DispatchSane
        <3>4. /\ World(D, alive, node, net, durable) /\ Typed(node, net, durable)
              /\ durable \in [Ranks -> DurableState]
            BY Before
        <3>5. WellSent(D, alive, node, net, durable, t) /\ t.me = E
            BY <1>1, <1>2, <1>3, <2>1, <2>2, <3>1, <3>4, DispatchSent
        <3>6. PICK type : type = "Discover" /\ type \in MsgType
            BY DEF MsgType
        <3>7. PICK u : Exported(s, u, D, d) /\ Posts(u, t, D, type)
            BY <2>1, <2>2, <3>1, <3>6, DispatchPosts
        <3>8. Frame(s, u) /\ u \in RankState
            BY <3>7 DEF Exported, Exporter
        <3> HIDE <3>1
        <3>9. Frame(s, t)
            <4>1. type \in MsgType
                BY <3>6
            <4> HIDE <3>6
            <4> QED
                BY <2>2, <3>7, <3>8, <4>1, PostsFrame
        <3>10. WellSent(D, alive, node, net, durable', t) /\ durable' \in [Ranks -> DurableState]
            BY <3>2, <3>4, <3>5
        <3> QED
            BY <1>1, <1>2, <2>2, <3>2, <3>3, <3>5, <3>9, <3>10, LocalSent
    <2>4. s.exp.state # "none"
        BY <2>1
    <2> QED
        BY <1>6, <2>1, <2>3, <2>4
<1>8. CASE FreezeDone(r)
    <2>1. PICK c : c = [kind |-> "frozen", peer |-> NONE, tid |-> s.exp.tid]
        OBVIOUS
    <2>2. PICK t : t = [FreezeTree(s) EXCEPT !.wait = @ \cup {c}]
        OBVIOUS
    <2>3. s.frozen = "freezing" /\ s.exp.state = "freezing" /\ Local(t)
        BY <1>2, <1>8, <2>1, <2>2 DEF FreezeDone
    <2>4. r = E
        BY <1>5, <2>3
    <2>5. Sane(t)
        BY <1>3, <2>1, <2>2, FreezeDoneSane
    <2>6. Exported(s, t, D, d)
        BY <1>3, <2>1, <2>2, <2>3, <2>4, FreezeDoneKeeps
    <2> HIDE <2>2
    <2> QED
        BY <1>1, <1>4, <2>3, <2>4, <2>5, <2>6, LocalKeeps
<1>9. CASE Frozen(r)
    <2>1. PICK c \in node[r].wait, locks \in LockOutcome, caps \in BOOLEAN :
              c.kind = "frozen" /\ Local(ExportFrozen(s, c.tid, locks, caps))
        BY <1>2, <1>9 DEF Frozen
    <2>2. r = E /\ c.tid \in Nat
        BY <1>2, <1>5, <2>1, WaitingSane
    <2>3. PICK t : t = ExportFrozen(s, c.tid, locks, caps)
        OBVIOUS
    <2>4. Sane(t) /\ Exported(s, t, D, d)
        BY <1>3, <2>2, <2>3, ExportFrozenSane, ExportFrozenKeeps
    <2> QED
        BY <1>1, <1>4, <2>1, <2>2, <2>3, <2>4, LocalKeeps
<1>10. CASE SessionsFlushed(r)
    <2>1. PICK c \in node[r].wait : c.kind = "flushed" /\ Local(ExportSessionsFlushed(s, c.tid))
        BY <1>2, <1>10 DEF SessionsFlushed
    <2>2. r = E
        BY <1>2, <1>5, <2>1
    <2>3. PICK t : t = ExportSessionsFlushed(s, c.tid)
        OBVIOUS
    <2>4. Sane(t) /\ Exported(s, t, D, d)
        BY <1>3, <2>2, <2>3, SessionsFlushedSane, SessionsFlushedKeeps
    <2> QED
        BY <1>1, <1>4, <2>1, <2>2, <2>3, <2>4, LocalKeeps
<1>11. CASE RetryDiscover(r)
    <2>1. PICK c \in s.wait, found \in BOOLEAN : c.kind = "discover" /\ Local(RetryExportDiscover(s, c, found))
        BY <1>2, <1>11 DEF RetryDiscover
    <2>2. r = D
        BY <1>5, <2>1
    <2>3. PICK t : t = RetryExportDiscover(s, c, found)
        OBVIOUS
    <2>4. Sane(t) /\ Imported(s, t, D, d, g, h)
        BY <1>3, <2>1, <2>2, <2>3, RetryDiscoverSane, RetryDiscoverKeeps
    <2> QED
        BY <1>1, <1>4, <2>1, <2>2, <2>3, <2>4, LocalKeeps
<1>12. CASE RetryPrep(r)
    <2>1. PICK c \in s.wait, opened, locks \in BOOLEAN :
              c.kind = "prep" /\ Local(RetryExportPrep(s, c, opened, locks))
        BY <1>2, <1>12 DEF RetryPrep
    <2>2. r = D
        BY <1>5, <2>1
    <2>3. PICK t : t = RetryExportPrep(s, c, opened, locks)
        OBVIOUS
    <2>4. Sane(t) /\ Imported(s, t, D, d, g, h)
        BY <1>3, <2>1, <2>2, <2>3, RetryPrepSane, RetryPrepKeeps
    <2> QED
        BY <1>1, <1>4, <2>1, <2>2, <2>3, <2>4, LocalKeeps
<1>13. CASE StaleFreeze(r)
    <2>1. s.exp.state \in {"discovering", "freezing"} /\ Local(ExportTryCancel(s, TRUE))
        BY <1>2, <1>13 DEF StaleFreeze
    <2>2. s.exp.state # "none"
        BY <2>1
    <2> QED
        BY <1>6, <2>1, <2>2
<1> QED
    BY <1>7, <1>8, <1>9, <1>10, <1>11, <1>12, <1>13

-----------------------------------------------------------------------------
(* The oldest entry of a journal becomes safe.                             *)

(* What the journals say before and after.                                 *)
Commits(D, du, du2) ==
    D \in Ranks \ {E} /\ du[E] = "mine" /\ du[D] = "ambig" /\ du2 = [du EXCEPT ![E] = "none"]
Opens(D, du, du2) ==
    D \in Ranks \ {E} /\ ~Gone0(du) /\ du[D] = "none" /\ du2 = [du EXCEPT ![D] = "ambig"]
Aborts(D, du, du2) ==
    D \in Ranks \ {E} /\ ~Gone0(du) /\ du[D] = "ambig" /\ du2 = [du EXCEPT ![D] = "none"]
Closes(D, du, du2) ==
    D \in Ranks \ {E} /\ Gone0(du) /\ du[D] = "ambig" /\ du2 = [du EXCEPT ![D] = "mine"]

(* The rest of the cluster while r takes a step.                           *)
Apart(r) == \A q \in Ranks : q # r => node'[q] = node[q] /\ (q \in alive' <=> q \in alive)
Writes(D) ==
    \/ durable' = durable
    \/ Commits(D, durable, durable') /\ Apart(E) /\ node[E].frozen = "frozen"
    \/ Opens(D, durable, durable') /\ Apart(D)
    \/ Aborts(D, durable, durable') /\ Apart(D)
    \/ Closes(D, durable, durable')

LEMMA CommitApart ==
    ASSUME Inv, NEW s, NEW r \in Ranks, s.me = r, NEW n, Commit(s, n)
    PROVE  Apart(r)
<1>1. node \in [Ranks -> RankState]
    BY DEF Inv, TypeOK
<1>2. PICK t : node' = [node EXCEPT ![r] = t]
    BY DEF Commit
<1>3. \A q \in Ranks : q # r => (q \in alive' <=> q \in alive)
    BY DEF Commit
<1> QED
    BY <1>1, <1>2, <1>3 DEF Apart

LEMMA ExporterFlush ==
    ASSUME Inv, NEW D, UpToDate(alive, node, mdsmap), OneExport(D), E \in alive, LogFlush(E)
    PROVE  OneInv' /\ Writes(D)
<1>1. /\ World(D, alive, node, net, durable) /\ Typed(node, net, durable)
      /\ durable \in [Ranks -> DurableState] /\ E \in Ranks /\ net \in Net
    BY Before
<1>2. PICK s, d, e, u : s = node[E] /\ d = durable[E] /\ e = Head(s.log) /\ u = [s EXCEPT !.log = Tail(@)]
    OBVIOUS
<1>3. Exporter(s, D, d) /\ Sane(s) /\ s.out = NoOut /\ s.log # <<>>
    BY <1>1, <1>2, Parts DEF LogFlush
<1>4. Flushed(s, u)
    BY <1>2 DEF Flushed
<1>5. Exported(s, u, D, d) /\ u.exp = s.exp /\ e.event \in {"sync", "EExport"} /\ Exporter(u, D, d) /\ Frame(s, u)
    BY <1>2, <1>3, <1>4, ExporterFlushed DEF Exported
<1>6. /\ Sane(u) /\ e \in LogEntry
      /\ e.event = "EExport" => u.exp.state = "loggingfinish" /\ NoEExport(u.log)
    BY <1>2, <1>3, OldestSafe
<1>7. e.tid \in Nat
    BY <1>6 DEF LogEntry
<1>8. used' = used
    BY DEF LogFlush
<1>9. CASE e.event = "sync"
    <2>1. PICK t : t = ExportGoSynced(u, e.tid)
        OBVIOUS
    <2>2. durable' = [durable EXCEPT ![E] = durable[E]] /\ Commit(t, net)
        BY <1>2, <1>9, <2>1 DEF LogFlush
    <2>3. durable' = durable
        BY <1>1, <2>2
    <2>4. Sane(t)
        BY <1>6, <1>7, <2>1, GoSyncedSane
    <2>5. WellSent(D, alive, node, net, durable, t) /\ t.me = E
        BY <1>1, <1>2, <1>3, <1>4, <1>7, <2>1, SyncedSent
    <2>6. Frame(s, t)
        <3>1. PICK type : type = "ExportDir" /\ type \in MsgType
            BY DEF MsgType
        <3>2. \/ Exported(u, t, D, d)
              \/ \E v : Exported(u, v, D, d) /\ Posts(v, t, D, type) /\ u.exp.state = "warning"
            BY <1>5, <1>7, <2>1, <3>1, SyncedPosts
        <3>3. CASE Exported(u, t, D, d)
            BY <1>5, <3>3 DEF Exported, Frame
        <3>4. ASSUME NEW v, Exported(u, v, D, d), Posts(v, t, D, type), u.exp.state = "warning"
              PROVE  Frame(s, t)
            <4>1. Frame(s, v) /\ v \in RankState
                BY <1>5, <3>4 DEF Exported, Exporter, Frame
            <4>2. D \in Ranks
                BY <1>5, <3>4 DEF Exporter
            <4>3. type \in MsgType
                BY <3>1
            <4> HIDE <3>1, <2>1
            <4> QED
                BY <3>4, <4>1, <4>2, <4>3, PostsFrame
        <3> QED
            BY <3>2, <3>3, <3>4
    <2> HIDE <2>1
    <2>7. WellSent(D, alive, node, net, durable', t) /\ durable' \in [Ranks -> DurableState]
        BY <1>1, <2>3, <2>5
    <2>8. OneInv'
        BY <1>1, <1>2, <1>8, <2>2, <2>4, <2>5, <2>6, <2>7, LocalSent
    <2> QED
        BY <2>3, <2>8 DEF Writes
<1>10. CASE e.event = "EExport"
    <2>1. PICK t : t = ExportLoggedFinish(u)
        OBVIOUS
    <2>2. durable' = [durable EXCEPT ![E] = "none"] /\ Commit(t, net)
        BY <1>2, <1>10, <2>1 DEF LogFlush
    <2>3. u.exp.state = "loggingfinish" /\ NoEExport(u.log) /\ s.exp.state = "loggingfinish"
        BY <1>5, <1>6, <1>10
    <2>4. Sane(t)
        BY <1>6, <2>1, <2>3, LoggedFinishSane
    <2>5. /\ WellSent(D, alive, node, net, durable', t) /\ t.me = E
          /\ D \in Ranks \ {E} /\ durable[E] = "mine" /\ durable[D] = "ambig"
        <3>1. PICK du2 : du2 = durable'
            OBVIOUS
        <3>2. Finishes(u, t, durable, du2)
            BY <2>1, <2>2, <3>1 DEF Finishes
        <3>3. /\ Exporter(node[E], D, durable[E]) /\ node[E].log # <<>> /\ Flushed(node[E], u)
              /\ node[E].exp.state = "loggingfinish"
            BY <1>2, <1>3, <1>4, <2>3
        <3> HIDE <3>1, <1>2
        <3>4. /\ WellSent(D, alive, node, net, du2, t) /\ t.me = E
              /\ D \in Ranks \ {E} /\ durable[E] = "mine" /\ durable[D] = "ambig"
            BY <1>1, <3>2, <3>3, FinishSent
        <3> QED
            BY <3>1, <3>4
    <2>6. Frame(s, t)
        <3>1. Exporter(u, D, "mine")
            BY <1>2, <1>5, <2>5
        <3>2. Frame(u, t)
            BY <2>1, <2>3, <3>1, LoggedFinishKeeps
        <3> QED
            BY <1>5, <3>2 DEF Frame
    <2>7. durable' \in [Ranks -> DurableState]
        BY <1>1, <2>2 DEF DurableState
    <2> HIDE <2>1
    <2>8. OneInv'
        BY <1>1, <1>2, <1>8, <2>2, <2>4, <2>5, <2>6, <2>7, LocalSent
    <2> QED
        <3>1. Apart(E)
            BY <1>1, <2>2, <2>5, CommitApart
        <3>2. node[E].frozen = "frozen"
            BY <1>2, <1>3, <2>3 DEF Exporter, ExporterOK, StageOK
        <3> QED
            BY <2>2, <2>5, <2>8, <3>1, <3>2 DEF Writes, Commits
<1> QED
    BY <1>5, <1>9, <1>10

LEMMA ImporterFlush ==
    ASSUME Inv, NEW D \in Ranks, UpToDate(alive, node, mdsmap), OneExport(D), D \in alive, LogFlush(D)
    PROVE  OneInv' /\ Writes(D)
<1>1. /\ World(D, alive, node, net, durable) /\ Typed(node, net, durable) /\ D # E
      /\ durable \in [Ranks -> DurableState] /\ E \in Ranks /\ net \in Net
    BY Before
<1>2. PICK s, d, g, h : s = node[D] /\ d = durable[D] /\ g = Gone0(durable) /\ h = Settled0(node, durable)
    OBVIOUS
<1>3. PICK e, u : e = Head(s.log) /\ u = [s EXCEPT !.log = Tail(@)]
    OBVIOUS
<1>4. Importing(s, D, d, g, h) /\ Sane(s) /\ s.out = NoOut /\ s.log # <<>>
    BY <1>1, <1>2, Parts DEF LogFlush
<1>5. Flushed(s, u)
    BY <1>3 DEF Flushed
<1>6. Sane(u)
    BY <1>3, <1>4, OldestSafe
<1>7. used' = used
    BY DEF LogFlush
<1>8. \/ e.event = "EImportStart" /\ d = "none"
      \/ e.event = "EImportFinishFalse" /\ d = "ambig" /\ Len(s.log) = 1 /\ s.log[1].event = "EImportFinishFalse"
      \/ e.event = "EImportFinishTrue" /\ d = "ambig" /\ g
    BY <1>3, <1>4, <1>5, ImporterLog
<1>9. Bound(s, d) \/ ~g
    <2>1. PairOK(node[E], durable[E], s, d, net[E][D], net[D][E])
        BY <1>1, <1>2, WorldIs, RanksAssumption
    <2> QED
        BY <1>2, <2>1 DEF PairOK, Gone0
<1>10. ~g \/ e.event = "EImportFinishTrue"
    <2>1. 1 \in 1..1
        OBVIOUS
    <2> QED
        BY <1>8, <1>9, <2>1 DEF Bound
<1>11. /\ e.event = "EImportStart" => durable' = [durable EXCEPT ![D] = "ambig"]
       /\ e.event = "EImportFinishFalse" => durable' = [durable EXCEPT ![D] = "none"]
       /\ e.event = "EImportFinishTrue" => durable' = [durable EXCEPT ![D] = "mine"]
    BY <1>2, <1>3 DEF LogFlush
<1>12. durable' \in [Ranks -> DurableState]
    BY <1>1, <1>8, <1>11 DEF DurableState
<1>15. \/ Opens(D, durable, durable') \/ Aborts(D, durable, durable')
       \/ Closes(D, durable, durable')
    BY <1>1, <1>2, <1>8, <1>10, <1>11 DEF Opens, Aborts, Closes
<1>13. CASE s.imp.state = "loggingstart"
    <2>1. PICK t : t = ImportLoggedStart(u)
        OBVIOUS
    <2>2. /\ e.event = "EImportStart"
          /\ \E v : Importing(v, D, "ambig", g, h) /\ Frame(s, v) /\ Posts(v, t, E, "ExportDirAck")
        BY <1>3, <1>4, <1>5, <1>13, <2>1, LoggedStartPosts
    <2>3. Commit(t, net) /\ durable' = [durable EXCEPT ![D] = "ambig"]
        BY <1>2, <1>3, <1>11, <2>1, <2>2 DEF LogFlush
    <2>4. Sane(t)
        BY <1>6, <2>1, LoggedStartSane
    <2>5. WellSent(D, alive, node, net, durable', t) /\ t.me = D
        <3>1. PICK du2 : du2 = durable'
            OBVIOUS
        <3>2. StartLogged(D, u, t, durable, du2)
            BY <2>1, <2>3, <3>1 DEF StartLogged
        <3>3. /\ Importing(node[D], D, durable[D], Gone0(durable), Settled0(node, durable)) /\ node[D].log # <<>>
              /\ node[D].out = NoOut /\ node[D].imp.state = "loggingstart" /\ Flushed(node[D], u)
            BY <1>2, <1>4, <1>5, <1>13
        <3> HIDE <3>1, <1>2, <1>3
        <3>4. WellSent(D, alive, node, net, du2, t) /\ t.me = D
            BY <1>1, <3>2, <3>3, LoggedStartSent
        <3> QED
            BY <3>1, <3>4
    <2>6. Frame(s, t)
        <3>1. PICK type : type = "ExportDirAck" /\ type \in MsgType
            BY DEF MsgType
        <3>2. PICK v : Importing(v, D, "ambig", g, h) /\ Frame(s, v) /\ Posts(v, t, E, type)
            BY <2>2, <3>1
        <3>3. v \in RankState /\ type \in MsgType
            BY <3>1, <3>2 DEF Importing
        <3> HIDE <3>1, <2>1
        <3> QED
            BY <1>1, <3>2, <3>3, PostsFrame
    <2> HIDE <2>1
    <2>7. OneInv'
        BY <1>2, <1>7, <1>12, <2>3, <2>4, <2>5, <2>6, LocalSent
    <2>8. Apart(D)
        BY <2>3, <2>5, CommitApart
    <2> QED
        BY <1>15, <2>7, <2>8 DEF Writes
<1>14. CASE s.imp.state # "loggingstart"
    <2>1. PICK x : x = SafeIs(e.event, d)
        OBVIOUS
    <2>2. durable' = [durable EXCEPT ![D] = x]
        BY <1>8, <1>11, <2>1 DEF SafeIs
    <2>3. WellSent(D, alive, node, net, durable', u) /\ u.me = D
        <3>1. PICK du2 : du2 = durable'
            OBVIOUS
        <3>2. du2 = [durable EXCEPT ![D] = x] /\ x = SafeIs(Head(node[D].log).event, durable[D])
            BY <1>2, <1>3, <2>1, <2>2, <3>1
        <3>3. /\ Importing(node[D], D, durable[D], Gone0(durable), Settled0(node, durable)) /\ node[D].log # <<>>
              /\ node[D].imp.state # "loggingstart" /\ Flushed(node[D], u)
            BY <1>2, <1>4, <1>5, <1>14
        <3> HIDE <3>1, <1>2, <1>3, <2>1
        <3>4. WellSent(D, alive, node, net, du2, u) /\ u.me = D
            BY <1>1, <3>2, <3>3, ImporterFlushSent
        <3> QED
            BY <3>1, <3>4
    <2>4. Frame(s, u) /\ u.imp = s.imp
        BY <1>3, <1>4, <1>5, <1>14, <2>1, ImporterFlushed
    <2>5. ImportLoggedStart(u) = u
        BY <1>14, <2>4 DEF ImportLoggedStart
    <2>6. Commit(u, net)
        <3>1. PICK v : v = CASE e.event = "sync" -> ExportGoSynced(u, e.tid)
                             [] e.event = "EExport" -> ExportLoggedFinish(u)
                             [] e.event = "EImportStart" -> ImportLoggedStart(u)
                             [] OTHER -> u
            OBVIOUS
        <3>2. Commit(v, net)
            BY <1>2, <1>3, <3>1 DEF LogFlush
        <3>3. v = u
            BY <1>8, <2>5, <3>1
        <3> QED
            BY <3>2, <3>3
    <2> HIDE <1>3, <2>1
    <2>7. OneInv'
        BY <1>2, <1>6, <1>7, <1>12, <2>3, <2>4, <2>6, LocalSent
    <2>8. Apart(D)
        BY <2>3, <2>6, CommitApart
    <2> QED
        BY <1>15, <2>7, <2>8 DEF Writes
<1> QED
    BY <1>13, <1>14

LEMMA LogFlushOne ==
    ASSUME Inv, NEW D, UpToDate(alive, node, mdsmap), OneExport(D), NEW r \in Ranks, LogFlush(r)
    PROVE  OneInv' /\ Writes(D)
<1>1. r \in alive /\ node[r].log # <<>>
    BY DEF LogFlush
<1>2. r = E \/ r = D
    BY <1>1, WhoExports
<1> QED
    BY <1>1, <1>2, ExporterFlush, ImporterFlush

-----------------------------------------------------------------------------
LEMMA InitWorld ==
    ASSUME Init
    PROVE  World(NONE, alive, node, net, durable)
<1>1. /\ E \in Ranks /\ E # NONE /\ NONE \notin Ranks /\ E # UNKNOWN
      /\ alive = Ranks
      /\ \A r \in Ranks : durable[r] = IF r = E THEN "mine" ELSE "none"
      /\ \A x, y \in Ranks : net[x][y] = <<>>
    BY OwnerIsRank, RanksAssumption DEF Init, E
<1>2. ASSUME NEW r \in Ranks
      PROVE  /\ node[r].me = r /\ node[r].exp = NoExport /\ node[r].imp = NoImport /\ node[r].amb = FALSE
             /\ node[r].log = <<>> /\ node[r].wait = {} /\ node[r].other = {} /\ node[r].frozen = "no"
             /\ (node[r].isauth <=> r = E) /\ node[r].auth = Sole(E)
    <2>1. PICK up, f : up = [q \in Ranks |-> "active"] /\ f = Fresh(r, up, 1)
        OBVIOUS
    <2>2. node[r] = [f EXCEPT !.auth = Sole(Owner0), !.isauth = (r = Owner0)]
        BY <2>1 DEF Init
    <2>3. PICK a, b : a = Sole(Owner0) /\ b = (r = Owner0)
        OBVIOUS
    <2>4. /\ f.me = r /\ f.exp = NoExport /\ f.imp = NoImport /\ f.amb = FALSE
          /\ f.log = <<>> /\ f.wait = {} /\ f.other = {} /\ f.frozen = "no"
        BY <2>1 DEF Fresh
    <2>5. f \in RankState
        BY <2>1, FreshSane DEF MDSMap, MapState
    <2>6. node[r] = [f EXCEPT !.auth = a, !.isauth = b]
        BY <2>2, <2>3
    <2> HIDE <2>1, <2>2, <2>3
    <2>7. /\ node[r].me = f.me /\ node[r].exp = f.exp /\ node[r].imp = f.imp /\ node[r].amb = f.amb
          /\ node[r].log = f.log /\ node[r].wait = f.wait /\ node[r].other = f.other
          /\ node[r].frozen = f.frozen /\ node[r].isauth = b /\ node[r].auth = a
        BY <2>5, <2>6 DEF RankState
    <2> QED
        BY <2>3, <2>4, <2>7 DEF E
<1>3. NoExport.state = "none" /\ NoImport.state = "none" /\ Len(<<>>) = 0
    BY EmptySeq DEF NoExport, NoImport
<1>4. ASSUME NEW r \in Ranks, NEW gone, NEW settled
      PROVE  RankOK(node[r], NONE, durable[r], gone, settled)
    <2>1. PICK s, d : s = node[r] /\ d = durable[r]
        OBVIOUS
    <2>2. /\ s.me = r /\ s.exp.state = "none" /\ s.imp.state = "none" /\ ~s.amb /\ s.log = <<>> /\ Len(s.log) = 0
          /\ s.wait = {} /\ s.other = {} /\ s.frozen = "no" /\ (s.isauth <=> r = E)
          /\ s.auth = Sole(E) /\ (r = E => d = "mine") /\ r # NONE
        BY <1>1, <1>2, <1>3, <2>1
    <2>3. s.auth[1] = E /\ s.auth[2] = UNKNOWN
        BY <2>2 DEF Sole
    <2> HIDE <2>1
    <2>4. r = E => StageOK(s, NONE, d)
        BY <2>2, <2>3 DEF StageOK
    <2>5. r = E => ExporterOK(s, NONE, d)
        BY <2>2, <2>4 DEF ExporterOK
    <2>6. r # E => BystanderOK(s, NONE)
        BY <2>2, <2>3 DEF BystanderOK
    <2>7. RankOK(s, NONE, d, gone, settled)
        BY <2>2, <2>5, <2>6 DEF RankOK
    <2> QED
        BY <2>1, <2>7
<1>5. DurableOK(NONE, durable) /\ durable[E] = "mine"
    BY <1>1 DEF DurableOK
<1>6. RanksOK(NONE, alive, node, durable)
    BY <1>1, <1>2, <1>4 DEF RanksOK
<1>7. NetOK(NONE, net, Gone0(durable))
    BY <1>1, <1>3 DEF NetOK
<1> QED
    BY <1>5, <1>6, <1>7 DEF World

LEMMA InitMaps ==
    ASSUME Init
    PROVE  UpToDate(alive, node, mdsmap)
<1> SUFFICES ASSUME NEW r \in Ranks
             PROVE  node[r].out = NoOut /\ MapsOK(node[r], r, mdsmap)
    BY DEF UpToDate
<1>1. PICK up, f : up = [q \in Ranks |-> "active"] /\ f = Fresh(r, up, 1)
    OBVIOUS
<1>2. node[r] = [f EXCEPT !.auth = Sole(Owner0), !.isauth = (r = Owner0)] /\ mdsmap = <<up>>
    BY <1>1 DEF Init
<1>3. f.out = NoOut /\ f.epoch = 1 /\ f.map = up /\ f \in RankState
    <2>1. f \in RankState
        BY <1>1, FreshSane DEF MDSMap, MapState
    <2> QED
        BY <1>1, <2>1 DEF Fresh
<1>4. node[r].out = NoOut /\ node[r].epoch = 1 /\ node[r].map = up
    <2>1. PICK a, b : a = Sole(Owner0) /\ b = (r = Owner0)
        OBVIOUS
    <2>2. node[r] = [f EXCEPT !.auth = a, !.isauth = b]
        BY <1>2, <2>1
    <2> HIDE <1>1, <1>2, <2>1
    <2> QED
        BY <1>3, <2>2 DEF RankState
<1>5. up[r] = "active"
    BY <1>1
<1> HIDE <1>1
<1>6. Len(mdsmap) = 1 /\ mdsmap[1] = up
    BY <1>2
<1>7. \A i \in 1..1 : i = 1
    OBVIOUS
<1>8. Later("active", "active")
    BY DEF Later, ActiveOrStopping
<1>9. MapsOK(node[r], r, mdsmap)
    BY <1>4, <1>5, <1>6, <1>7, <1>8 DEF MapsOK
<1> QED
    BY <1>4, <1>9

LEMMA InitOne == Init => OneInv
<1> SUFFICES ASSUME Init PROVE OneInv
    OBVIOUS
<1>1. World(NONE, alive, node, net, durable) /\ UpToDate(alive, node, mdsmap)
    BY InitWorld, InitMaps
<1>2. used.export = 0
    BY DEF Init
<1> QED
    BY <1>1, <1>2 DEF OneInv, OneExport

(* Every step keeps the invariant, and only a journal that is flushed says *)
(* anything new.                                                           *)
LEMMA NextOne ==
    ASSUME MaxExport <= 1, Inv, NEW D, UpToDate(alive, node, mdsmap), OneExport(D), [Next]_vars
    PROVE  OneInv' /\ Writes(D)
<1>1. CASE UNCHANGED vars
    <2>1. /\ UpToDate(alive', node', mdsmap') /\ World(D, alive', node', net', durable')
          /\ D \in Ranks \cup {NONE} /\ used' = used /\ durable' = durable
        BY <1>1, Before DEF vars
    <2>2. (D = NONE => used'.export = 0) /\ (D # NONE => used'.export >= 1)
        BY <2>1 DEF OneExport
    <2> QED
        BY <2>1, <2>2, OneInvNext DEF Writes
<1>2. CASE \E r \in Ranks : Fail(r) \/ MonStop(r) \/ StaleFreeze(r)
    <2>1. OneInv'
        BY <1>2, FailOne, MonitorOne, InternalOne
    <2>2. durable' = durable
        BY <1>2 DEF Fail, MonStop, MonStep, StaleFreeze, Local
    <2> QED
        BY <2>1, <2>2 DEF Writes
<1>3. CASE \E r \in Ranks : LogFlush(r)
    BY <1>3, LogFlushOne
<1>4. CASE \E r \in Ranks : Monitor(r)
    <2>1. OneInv'
        BY <1>4, TakeoverOne, MonitorOne DEF Monitor
    <2>2. durable' = durable
        BY <1>4 DEF Monitor, Takeover, MonRejoin, MonActive, MonStep
    <2> QED
        BY <2>1, <2>2 DEF Writes
<1>5. CASE \E r \in Ranks : \/ Dispatch(r) \/ FreezeDone(r) \/ Frozen(r) \/ SessionsFlushed(r)
                            \/ RetryDiscover(r) \/ RetryPrep(r)
    <2>1. OneInv'
        BY <1>5, InternalOne
    <2>2. durable' = durable
        BY <1>5 DEF Dispatch, FreezeDone, Frozen, SessionsFlushed, RetryDiscover, RetryPrep, Local
    <2> QED
        BY <2>1, <2>2 DEF Writes
<1>6. CASE \E r \in Ranks : \E skip \in 0..MapGap : HandleMap(r, skip)
    <2>1. OneInv'
        BY <1>6, HandleMapOne
    <2>2. durable' = durable
        BY <1>6 DEF HandleMap
    <2> QED
        BY <2>1, <2>2 DEF Writes
<1>7. CASE \E x, y \in Ranks : Receive(x, y) \/ StartExport(x, y)
    <2>1. OneInv'
        BY <1>7, ReceiveOne, StartExportOne
    <2>2. durable' = durable
        BY <1>7 DEF Receive, DeliverDiscover, DeliverDiscoverAck, DeliverPrep, DeliverPrepAck,
               DeliverNotify, DeliverNotifyAck, DeliverExportDir, DeliverExportDirAck,
               DeliverFinish, DeliverCancel, DeliverResolve, Deliver, StartExport
    <2> QED
        BY <2>1, <2>2 DEF Writes
<1> QED
    BY <1>1, <1>2, <1>3, <1>4, <1>5, <1>6, <1>7 DEF Next, Internal

LEMMA NextOneInv ==
    ASSUME MaxExport <= 1
    PROVE  Inv /\ OneInv /\ [Next]_vars => OneInv'
<1> SUFFICES ASSUME Inv, OneInv, [Next]_vars PROVE OneInv'
    OBVIOUS
<1>1. PICK D : UpToDate(alive, node, mdsmap) /\ OneExport(D)
    BY DEF OneInv
<1> QED
    BY <1>1, NextOne

-----------------------------------------------------------------------------
(* Who gets the subtree, and who serves it.                                *)
LEMMA HeirIs ==
    ASSUME Inv, NEW D \in Ranks \cup {NONE}, OneExport(D)
    PROVE  /\ E \in Ranks /\ NONE \notin Ranks
           /\ durable[E] = "mine" => Heirs = {E}
           /\ durable[E] # "mine" => durable[E] = "none" /\ D \in Ranks \ {E} /\ Heirs = {D}
           /\ \A r \in Ranks : r # E /\ r # D => durable[r] = "none"
           /\ \A r \in Ranks : Serves(r) => Heirs = {r}
<1>1. /\ E \in Ranks /\ NONE \notin Ranks /\ World(D, alive, node, net, durable)
      /\ durable \in [Ranks -> DurableState]
    BY OwnerIsRank, RanksAssumption DEF E, OneExport, Inv, TypeOK
<1>2. /\ durable[E] \in {"mine", "none"}
      /\ \A r \in Ranks : r # E /\ r # D => durable[r] = "none"
      /\ D \in Ranks /\ durable[D] = "mine" => durable[E] # "mine"
    BY <1>1 DEF World, DurableOK, Gone0
<1>3. durable[E] = "mine" => Heirs = {E}
    BY <1>1, <1>2 DEF Heirs, Journalled
<1>4. durable[E] # "mine" => durable[E] = "none" /\ D \in Ranks \ {E} /\ Heirs = {D}
    <2> SUFFICES ASSUME durable[E] # "mine" PROVE durable[E] = "none" /\ D \in Ranks \ {E} /\ Heirs = {D}
        OBVIOUS
    <2>1. durable[E] = "none" /\ D \in Ranks \ {E}
        BY <1>1, <1>2 DEF World
    <2>2. durable[D] \in {"ambig", "mine"}
        BY <1>1, <2>1 DEF World, PairOK, Bound
    <2> QED
        BY <1>2, <2>1, <2>2 DEF Heirs, Journalled
<1>5. ASSUME NEW r \in Ranks, Serves(r)
      PROVE  Heirs = {r}
    <2>1. PICK s, d, gone, settled : /\ s = node[r] /\ d = durable[r]
                                     /\ gone = Gone0(durable) /\ settled = Settled0(node, durable)
        OBVIOUS
    <2>2. RankOK(s, D, d, gone, settled) /\ s.me = r /\ s.isauth /\ s.frozen = "no"
        BY <1>1, <1>5, <2>1 DEF World, RanksOK, Serves
    <2>3. (r = E => d = durable[E]) /\ (gone <=> durable[E] # "mine")
        BY <2>1 DEF Gone0
    <2> HIDE <2>1
    <2>4. CASE r = E
        <3>1. StageOK(s, D, d)
            BY <2>2, <2>4 DEF RankOK, ExporterOK
        <3>2. s.exp.state = "none" \/ s.exp.state = "notifying" \/ s.exp.state \notin {"none", "notifying"}
            OBVIOUS
        <3>3. d = "mine"
            BY <2>2, <3>1, <3>2 DEF StageOK
        <3> QED
            BY <1>3, <2>3, <2>4, <3>3
    <2>5. CASE r # E /\ r = D
        <3>1. ImporterOK(s, D, d, gone, settled)
            BY <2>2, <2>5 DEF RankOK
        <3>2. gone
            BY <2>2, <3>1 DEF ImporterOK
        <3> QED
            BY <1>4, <2>3, <2>5, <3>2
    <2>6. CASE r # E /\ r # D
        <3>1. BystanderOK(s, D)
            BY <2>2, <2>6 DEF RankOK
        <3> QED
            BY <2>2, <3>1 DEF BystanderOK
    <2> QED
        BY <2>4, <2>5, <2>6
<1> QED
    BY <1>1, <1>2, <1>3, <1>4, <1>5

LEMMA OneHeirInv == Inv /\ OneInv => OneHeir /\ ServerIsHeir /\ SingleAuthority
<1> SUFFICES ASSUME Inv, OneInv PROVE OneHeir /\ ServerIsHeir /\ SingleAuthority
    OBVIOUS
<1>1. PICK D \in Ranks \cup {NONE} : OneExport(D)
    BY DEF OneInv
<1>2. PICK o \in Ranks : Heirs = {o}
    BY <1>1, HeirIs
<1>3. Cardinality({o}) = 1
    BY FS_Singleton
<1>4. ServerIsHeir
    BY <1>1, HeirIs DEF ServerIsHeir
<1>5. SingleAuthority
    BY <1>4 DEF ServerIsHeir, SingleAuthority
<1> QED
    BY <1>2, <1>3, <1>4, <1>5 DEF OneHeir

-----------------------------------------------------------------------------
(* With at most one export in the life of the cluster, the journals give   *)
(* the subtree to exactly one rank at every moment: logging EImportStart   *)
(* before the acknowledgement, EExport after it and EImportFinish after    *)
(* the finish leaves no crash that loses or doubles it.                    *)
THEOREM JournalsDecide == MaxExport <= 1 => (Spec => []OneHeir)
<1> SUFFICES ASSUME MaxExport <= 1 PROVE Spec => []OneHeir
    OBVIOUS
<1>1. Init => Inv /\ OneInv
    BY InitInv, InitOne
<1>2. Inv /\ OneInv /\ [Next]_vars => (Inv /\ OneInv)'
    BY NextInv, NextOneInv
<1>3. Inv /\ OneInv => OneHeir
    BY OneHeirInv
<1> QED
    BY <1>1, <1>2, <1>3, PTL DEF Spec

(* With at most one export, a process that serves the subtree is the one   *)
(* that recovery gives it back to: the exporter stops to serve before its  *)
(* EExport is logged, the importer begins after it has seen that it is.    *)
THEOREM ServersAreHeirs == MaxExport <= 1 => (Spec => []ServerIsHeir)
<1> SUFFICES ASSUME MaxExport <= 1 PROVE Spec => []ServerIsHeir
    OBVIOUS
<1>1. Init => Inv /\ OneInv
    BY InitInv, InitOne
<1>2. Inv /\ OneInv /\ [Next]_vars => (Inv /\ OneInv)'
    BY NextInv, NextOneInv
<1>3. Inv /\ OneInv => ServerIsHeir
    BY OneHeirInv
<1> QED
    BY <1>1, <1>2, <1>3, PTL DEF Spec

(* With at most one export, at most one process serves the subtree,        *)
(* whatever fails, restarts and is delivered late in between.              *)
THEOREM OneServer == MaxExport <= 1 => (Spec => []SingleAuthority)
<1> SUFFICES ASSUME MaxExport <= 1 PROVE Spec => []SingleAuthority
    OBVIOUS
<1>1. Init => Inv /\ OneInv
    BY InitInv, InitOne
<1>2. Inv /\ OneInv /\ [Next]_vars => (Inv /\ OneInv)'
    BY NextInv, NextOneInv
<1>3. Inv /\ OneInv => SingleAuthority
    BY OneHeirInv
<1> QED
    BY <1>1, <1>2, <1>3, PTL DEF Spec

-----------------------------------------------------------------------------
(* What a step may do to the journals.                                     *)
LEMMA CommitStep ==
    ASSUME Inv, OneInv, [Next]_vars, MaxExport <= 1
    PROVE  \A r \in Ranks : durable[r] = "mine" /\ durable'[r] # "mine"
                              => \E q \in Ranks \ {r} : durable[q] = "ambig"
<1>1. PICK D \in Ranks \cup {NONE} : UpToDate(alive, node, mdsmap) /\ OneExport(D)
    BY DEF OneInv
<1>2. Writes(D)
    BY <1>1, NextOne
<1>3. durable \in [Ranks -> DurableState] /\ E \in Ranks
    BY <1>1, HeirIs DEF Inv, TypeOK
<1> SUFFICES ASSUME NEW r \in Ranks, durable[r] = "mine", durable'[r] # "mine"
             PROVE  \E q \in Ranks \ {r} : durable[q] = "ambig"
    OBVIOUS
<1>4. Commits(D, durable, durable')
    BY <1>2, <1>3 DEF Writes, Opens, Aborts, Closes
<1> QED
    BY <1>3, <1>4 DEF Commits

(* With at most one export, no rank gives up its claim in its journal      *)
(* before another has logged that it may have the subtree: the EExport     *)
(* gets safe only after the EImportStart.                                  *)
THEOREM ExportAfterImport == MaxExport <= 1 => (Spec => CommitOrder)
<1> SUFFICES ASSUME MaxExport <= 1 PROVE Spec => CommitOrder
    OBVIOUS
<1>1. Init => Inv /\ OneInv
    BY InitInv, InitOne
<1>2. Inv /\ OneInv /\ [Next]_vars => (Inv /\ OneInv)'
    BY NextInv, NextOneInv
<1>3. Inv /\ OneInv /\ [Next]_vars
        => [\A r \in Ranks : durable[r] = "mine" /\ durable'[r] # "mine"
              => \E q \in Ranks \ {r} : durable[q] = "ambig"]_vars
    BY CommitStep
<1> QED
    BY <1>1, <1>2, <1>3, PTL DEF Spec, CommitOrder

-----------------------------------------------------------------------------
(* The refinement of SubtreeOwnership.                                     *)
AnOwner == IF Heirs = {} THEN NONE ELSE CHOOSE r \in Heirs : TRUE
AnOffer == Journalled("ambig") \ Heirs
AServer == IF \E r \in Ranks : Serves(r) THEN CHOOSE r \in Ranks : Serves(r) ELSE NONE
View ==
    /\ AnOwner \in Ranks /\ NONE \notin Ranks /\ Heirs = {AnOwner}
    /\ Serves(AnOwner) => AServer = AnOwner
    /\ ~Serves(AnOwner) => AServer = NONE

LEMMA ViewIs == Inv /\ OneInv => View
<1> SUFFICES ASSUME Inv, OneInv PROVE View
    OBVIOUS
<1>1. PICK D \in Ranks \cup {NONE} : OneExport(D)
    BY DEF OneInv
<1>2. NONE \notin Ranks /\ \A r \in Ranks : Serves(r) => Heirs = {r}
    BY <1>1, HeirIs
<1>3. PICK o \in Ranks : Heirs = {o}
    BY <1>1, HeirIs
<1>4. AnOwner = o
    BY <1>3 DEF AnOwner
<1>5. \A r \in Ranks : Serves(r) => r = o
    BY <1>2, <1>3
<1>6. CASE Serves(o)
    <2>1. AServer = CHOOSE r \in Ranks : Serves(r)
        BY <1>6 DEF AServer
    <2>2. AServer \in Ranks /\ Serves(AServer)
        BY <1>6, <2>1
    <2> QED
        BY <1>2, <1>3, <1>4, <1>5, <1>6, <2>2 DEF View
<1>7. CASE ~Serves(o)
    <2>1. AServer = NONE
        BY <1>5, <1>7 DEF AServer
    <2> QED
        BY <1>2, <1>3, <1>4, <1>7, <2>1 DEF View
<1> QED
    BY <1>6, <1>7

(* A step that leaves the two journals alone, or one that closes the       *)
(* import, may only stop or begin to serve.                                *)
LEMMA ServeStep ==
    ASSUME View, View', AnOwner' = AnOwner, AnOffer' = AnOffer
    PROVE  Ownership!Suspend \/ Ownership!Resume \/ UNCHANGED Ownership!vars
<1>1. /\ AServer \in {AnOwner, NONE} /\ AServer' \in {AnOwner, NONE} /\ AnOwner # NONE
    BY DEF View
<1> QED
    BY <1>1 DEF Ownership!Suspend, Ownership!Resume, Ownership!vars, AnOwner, AnOffer, AServer

LEMMA JournalStep ==
    ASSUME Inv, OneInv, View, View', NEW D \in Ranks \cup {NONE}, OneExport(D), Writes(D)
    PROVE  Ownership!Next \/ UNCHANGED Ownership!vars
<1>1. /\ E \in Ranks /\ NONE \notin Ranks /\ durable \in [Ranks -> DurableState]
      /\ \A r \in Ranks : r # E /\ r # D => durable[r] = "none"
      /\ \A r \in Ranks : Serves(r) => Heirs = {r}
    BY HeirIs DEF Inv, TypeOK
<1>2. Heirs = {AnOwner} /\ Heirs' = {AnOwner'}
    BY DEF View
<1>3. CASE durable' = durable
    <2>1. Heirs' = Heirs /\ AnOffer' = AnOffer /\ AnOwner' = AnOwner
        BY <1>3 DEF Heirs, Journalled, AnOffer, AnOwner
    <2> QED
        BY <2>1, ServeStep DEF Ownership!Next
<1>4. CASE Commits(D, durable, durable') /\ Apart(E) /\ node[E].frozen = "frozen"
    <2>1. /\ D \in Ranks \ {E} /\ durable[E] = "mine" /\ durable[D] = "ambig"
          /\ durable'[E] = "none" /\ durable'[D] = "ambig" /\ durable' \in [Ranks -> DurableState]
          /\ \A r \in Ranks : r # E /\ r # D => durable'[r] = "none"
        BY <1>1, <1>4 DEF Commits, DurableState
    <2>2. Heirs = {E} /\ Heirs' = {D} /\ AnOffer = {D} /\ AnOffer' = {}
        BY <1>1, <2>1 DEF Heirs, Journalled, AnOffer
    <2>3. AnOwner = E /\ AnOwner' = D
        BY <1>2, <2>2
    <2>4. ~Serves(E)
        BY <1>4 DEF Serves
    <2>5. ~Serves(D)
        BY <1>1, <2>1, <2>2
    <2>6. ~Serves(D)'
        BY <1>4, <2>1, <2>5 DEF Apart, Serves
    <2>7. AServer = NONE /\ AServer' = NONE
        BY <2>3, <2>4, <2>6 DEF View
    <2>8. Ownership!Transfer(D)
        BY <2>1, <2>2, <2>3, <2>7 DEF Ownership!Transfer, AnOwner, AnOffer, AServer
    <2> QED
        BY <2>1, <2>8 DEF Ownership!Next
<1>5. ASSUME D \in Ranks \ {E}, durable[E] = "mine", durable'[E] = "mine", durable[D] # "mine",
             durable'[D] # "mine", \A r \in Ranks : r # E /\ r # D => durable'[r] = "none", Apart(D)
      PROVE  /\ AnOwner = E /\ AnOwner' = E /\ AServer' = AServer
             /\ Heirs = {E} /\ Heirs' = {E}
    <2>1. Heirs = {E} /\ Heirs' = {E}
        BY <1>1, <1>5 DEF Heirs, Journalled
    <2>2. AnOwner = E /\ AnOwner' = E
        BY <1>2, <2>1
    <2>3. Serves(E)' <=> Serves(E)
        BY <1>1, <1>5 DEF Apart, Serves
    <2> QED
        BY <2>1, <2>2, <2>3 DEF View
<1>6. CASE Opens(D, durable, durable') /\ Apart(D)
    <2>1. /\ D \in Ranks \ {E} /\ durable[E] = "mine" /\ durable[D] = "none"
          /\ durable'[E] = "mine" /\ durable'[D] = "ambig" /\ durable' \in [Ranks -> DurableState]
          /\ \A r \in Ranks : r # E /\ r # D => durable'[r] = "none"
        BY <1>1, <1>6 DEF Opens, Gone0, DurableState
    <2>2. AnOwner = E /\ AnOwner' = E /\ AServer' = AServer /\ Heirs = {E} /\ Heirs' = {E}
        BY <1>5, <1>6, <2>1
    <2>3. AnOffer = {} /\ AnOffer' = {D}
        BY <1>1, <2>1, <2>2 DEF Journalled, AnOffer
    <2>4. Ownership!Offer(D)
        BY <2>1, <2>2, <2>3 DEF Ownership!Offer, AnOwner, AnOffer, AServer
    <2> QED
        BY <2>1, <2>4 DEF Ownership!Next
<1>7. CASE Aborts(D, durable, durable') /\ Apart(D)
    <2>1. /\ D \in Ranks \ {E} /\ durable[E] = "mine" /\ durable[D] = "ambig"
          /\ durable'[E] = "mine" /\ durable'[D] = "none" /\ durable' \in [Ranks -> DurableState]
          /\ \A r \in Ranks : r # E /\ r # D => durable'[r] = "none"
        BY <1>1, <1>7 DEF Aborts, Gone0, DurableState
    <2>2. AnOwner = E /\ AnOwner' = E /\ AServer' = AServer /\ Heirs = {E} /\ Heirs' = {E}
        BY <1>5, <1>7, <2>1
    <2>3. AnOffer = {D} /\ AnOffer' = {}
        BY <1>1, <2>1, <2>2 DEF Journalled, AnOffer
    <2>4. Ownership!Withdraw(D)
        BY <2>1, <2>2, <2>3 DEF Ownership!Withdraw, AnOwner, AnOffer, AServer
    <2> QED
        BY <2>1, <2>4 DEF Ownership!Next
<1>8. CASE Closes(D, durable, durable')
    <2>1. /\ D \in Ranks \ {E} /\ durable[E] = "none" /\ durable[D] = "ambig"
          /\ durable'[E] = "none" /\ durable'[D] = "mine" /\ durable' \in [Ranks -> DurableState]
          /\ \A r \in Ranks : r # E /\ r # D => durable'[r] = "none"
        <3>1. durable[E] = "none"
            BY <1>8, HeirIs DEF Closes, Gone0
        <3> QED
            BY <1>1, <1>8, <3>1 DEF Closes, DurableState
    <2>2. Heirs = {D} /\ Heirs' = {D} /\ AnOffer = {} /\ AnOffer' = {}
        BY <1>1, <2>1 DEF Heirs, Journalled, AnOffer
    <2>3. AnOwner = D /\ AnOwner' = D
        BY <1>2, <2>2
    <2> QED
        BY <2>2, <2>3, ServeStep DEF Ownership!Next
<1> QED
    BY <1>3, <1>4, <1>6, <1>7, <1>8 DEF Writes

LEMMA InitOwnership == Init => Ownership!Init
<1> SUFFICES ASSUME Init PROVE Ownership!Init
    OBVIOUS
<1>1. View /\ Inv
    BY InitInv, InitOne, ViewIs
<1>2. World(NONE, alive, node, net, durable) /\ E \in Ranks /\ E \in alive
    BY InitWorld, OwnerIsRank DEF E, Init
<1>3. /\ durable[E] = "mine" /\ \A r \in Ranks : r # E => durable[r] = "none"
    BY <1>2 DEF Init, E
<1>4. Heirs = {E} /\ AnOffer = {}
    BY <1>2, <1>3 DEF Heirs, Journalled, AnOffer
<1>5. AnOwner = E
    BY <1>1, <1>4 DEF View
<1>6. node[E].isauth /\ node[E].frozen = "no"
    <2>1. PICK up, f : up = [q \in Ranks |-> "active"] /\ f = Fresh(E, up, 1)
        OBVIOUS
    <2>2. f \in RankState /\ f.frozen = "no"
        BY <1>2, <2>1, FreshSane DEF MDSMap, MapState, Fresh
    <2>3. PICK a, b : a = Sole(Owner0) /\ b = (E = Owner0)
        OBVIOUS
    <2>4. node[E] = [f EXCEPT !.auth = a, !.isauth = b]
        BY <1>2, <2>1, <2>3 DEF Init
    <2>5. b
        BY <2>3 DEF E
    <2> HIDE <2>1, <2>3
    <2> QED
        BY <2>2, <2>4, <2>5 DEF RankState
<1>7. AServer = E
    BY <1>1, <1>2, <1>5, <1>6 DEF View, Serves
<1> QED
    BY <1>4, <1>5, <1>7 DEF Ownership!Init, AnOwner, AnOffer, AServer, E

(* With at most one export, migration keeps the promise of                 *)
(* SubtreeOwnership: the subtree has one owner, is served by it or by      *)
(* nobody, and changes hands only while nobody serves it, to a rank that   *)
(* holds an offer in its journal.                                          *)
THEOREM OwnershipKept == MaxExport <= 1 => (Spec => ImplementsOwnership)
<1> SUFFICES ASSUME MaxExport <= 1 PROVE Spec => ImplementsOwnership
    OBVIOUS
<1>1. Init => Inv /\ OneInv /\ Ownership!Init
    BY InitInv, InitOne, InitOwnership
<1>2. Inv /\ OneInv /\ [Next]_vars => (Inv /\ OneInv)'
    BY NextInv, NextOneInv
<1>3. Inv /\ OneInv => View
    BY ViewIs
<1>4. Inv /\ OneInv /\ [Next]_vars /\ View /\ View' => [Ownership!Next]_(Ownership!vars)
    <2> SUFFICES ASSUME Inv, OneInv, [Next]_vars, View, View'
                 PROVE  [Ownership!Next]_(Ownership!vars)
        OBVIOUS
    <2>1. PICK D \in Ranks \cup {NONE} : UpToDate(alive, node, mdsmap) /\ OneExport(D)
        BY DEF OneInv
    <2>2. Writes(D)
        BY <2>1, NextOne
    <2> QED
        BY <2>1, <2>2, JournalStep
<1> QED
    BY <1>1, <1>2, <1>3, <1>4, PTL DEF Spec, ImplementsOwnership, Ownership!Spec

=============================================================================
