----------------------------- MODULE Stores_proofs -----------------------------
(***************************************************************************)
(* Theorems about Stores, for every set of scenes, palettes and contents,  *)
(* every length of file and any number of sessions, compactions, power     *)
(* cuts and upgrades: the scene file is the map its callers were told of   *)
(* (ScenesAreMap), what was acknowledged survives even an interrupted      *)
(* compaction (AckedKept), and the built-in palettes stay (BuiltinsKept).  *)
(***************************************************************************)
EXTENDS Stores, FiniteSetTheorems, WellFoundedInduction, TLAPS

-----------------------------------------------------------------------------
(* Induction over numbers and definition by recursion, with sets in the    *)
(* place of predicates.                                                    *)

LEMMA Order == OpToRel(<, Nat) = {ss \in Nat \X Nat : ss[1] < ss[2]}
  BY DEF OpToRel

\* A set of naturals that is not empty has a least element.
LEMMA Least ==
    ASSUME NEW T, T \subseteq Nat, T # {}
    PROVE  \E x \in T : \A y \in T : x <= y
<1> DEFINE R == {ss \in Nat \X Nat : ss[1] < ss[2]}
<1>1. IsWellFoundedOn(R, Nat)
  BY NatLessThanWellFounded, Order
<1>2. \E x \in T : \A y \in T : ~ (<<y, x>> \in R)
  <2> HIDE DEF R
  <2> QED
    BY <1>1, WFMin
<1>3. PICK x \in T : \A y \in T : ~ (<<y, x>> \in R)
  BY <1>2
<1>4. \A y \in T : <<y, x>> \in R <=> y < x
  BY <1>3
<1>5. ASSUME NEW y \in T PROVE x <= y
  <2>1. x \in Nat /\ y \in Nat
    BY <1>3
  <2>2. ~(y < x)
    BY <1>3, <1>4
  <2> QED
    BY <2>1, <2>2
<1> HIDE DEF R
<1> QED
  BY <1>3, <1>5

\* A set of naturals below a bound that is not empty has a greatest element.
LEMMA Greatest ==
    ASSUME NEW N \in Nat, NEW T, T \subseteq 0 .. N, T # {}
    PROVE  \E x \in T : \A y \in T : x >= y
<1> DEFINE D == {N - y : y \in T}
<1>1. D \subseteq Nat /\ D # {}
  <2>1. \A y \in T : N - y \in Nat
    OBVIOUS
  <2> QED
    BY <2>1
<1>2. PICK d \in D : \A e \in D : d <= e
  <2> HIDE DEF D
  <2> QED
    BY <1>1, Least
<1>3. PICK x \in T : d = N - x
  BY <1>2
<1>4. ASSUME NEW y \in T PROVE x >= y
  <2>1. d <= N - y
    BY <1>2
  <2>2. x \in 0 .. N /\ y \in 0 .. N
    BY <1>3
  <2> QED
    BY <2>1, <2>2, <1>3
<1> QED
  BY <1>3, <1>4

\* A set that contains 0 and with every number the next contains them all.
LEMMA Induction ==
    ASSUME NEW S, 0 \in S, \A n \in Nat : n \in S => n + 1 \in S
    PROVE  \A n \in Nat : n \in S
<1> DEFINE T == {n \in Nat : n \notin S}
<1>1. ASSUME T # {} PROVE FALSE
  <2>1. PICK x \in T : \A y \in T : x <= y
    BY <1>1, Least
  <2>2. x # 0 /\ x \in Nat
    OBVIOUS
  <2>3. x - 1 \in Nat /\ x - 1 \notin T
    BY <2>1, <2>2
  <2>4. x - 1 \in S /\ x - 1 + 1 = x
    BY <2>3, <2>2
  <2> QED
    BY <2>4, <2>3, <2>1
<1> QED
  BY <1>1

\* What a loop of N steps goes through.
Looped(X, N, x0, step) ==
    \E f \in [0 .. N -> X] : f[0] = x0 /\ \A n \in 1 .. N : f[n] = step[f[n - 1]][n]

\* It exists.
LEMMA Recursion ==
    ASSUME NEW X, NEW N \in Nat, NEW x0 \in X, NEW step,
           \A x \in X, n \in 1 .. N : step[x][n] \in X
    PROVE  Looped(X, N, x0, step)
<1> DEFINE Upto(f, m) == /\ f \in [0 .. m -> X] /\ f[0] = x0
                         /\ \A n \in 1 .. m : f[n] = step[f[n - 1]][n]
           S == {m \in Nat : m <= N => \E f : Upto(f, m)}
<1>1. 0 \in S
  <2>1. Upto([i \in 0 .. 0 |-> x0], 0)
    OBVIOUS
  <2> QED
    BY <2>1
<1>2. ASSUME NEW m \in Nat, m \in S PROVE m + 1 \in S
  <2>1. SUFFICES ASSUME m + 1 <= N PROVE \E f : Upto(f, m + 1)
    OBVIOUS
  <2>2. PICK f : Upto(f, m)
    BY <1>2, <2>1
  <2> DEFINE h == [i \in 0 .. m + 1 |-> IF i = m + 1 THEN step[f[m]][m + 1] ELSE f[i]]
  <2>3. f[m] \in X /\ m + 1 \in 1 .. N
    BY <2>1, <2>2
  <2>4. step[f[m]][m + 1] \in X
    BY <2>3
  <2>5. \A i \in 0 .. m : h[i] = f[i] /\ f[i] \in X
    BY <2>2
  <2>6. h \in [0 .. m + 1 -> X]
    <3>1. ASSUME NEW i \in 0 .. m + 1 PROVE (IF i = m + 1 THEN step[f[m]][m + 1] ELSE f[i]) \in X
      <4>1. CASE i = m + 1
        BY <4>1, <2>4
      <4>2. CASE i # m + 1
        <5>1. i \in 0 .. m
          BY <4>2
        <5> QED
          BY <5>1, <4>2, <2>5
      <4> QED
        BY <4>1, <4>2
    <3> QED
      BY <3>1
  <2>7. h[m + 1] = step[h[m]][m + 1]
    <3>1. m \in 0 .. m /\ m + 1 \in 0 .. m + 1
      OBVIOUS
    <3>2. h[m] = f[m]
      BY <3>1, <2>5
    <3> QED
      BY <3>1, <3>2
  <2>8. ASSUME NEW n \in 1 .. m + 1 PROVE h[n] = step[h[n - 1]][n]
    <3>1. CASE n = m + 1
      BY <3>1, <2>7
    <3>2. CASE n # m + 1
      <4>1. n \in 1 .. m /\ n \in 0 .. m /\ n - 1 \in 0 .. m
        BY <3>2
      <4>2. f[n] = step[f[n - 1]][n]
        BY <4>1, <2>2
      <4> HIDE DEF h
      <4> QED
        BY <4>1, <4>2, <2>5
    <3> QED
      BY <3>1, <3>2
  <2>9. h[0] = x0
    BY <2>2
  <2> HIDE DEF h
  <2> QED
    BY <2>6, <2>8, <2>9
<1>3. N \in S
  <2> HIDE DEF S
  <2> QED
    BY <1>1, <1>2, Induction
<1>4. PICK f : Upto(f, N)
  BY <1>3
<1> QED
  BY <1>4 DEF Looped

\* Two loops that begin alike and go on alike ...
Alike(N, g, h) == g[0] = h[0] /\ \A n \in 1 .. N : g[n - 1] = h[n - 1] => g[n] = h[n]

\* ... go through the same.
LEMMA SameLoop ==
    ASSUME NEW N \in Nat, NEW g, NEW h, Alike(N, g, h)
    PROVE  \A n \in 0 .. N : g[n] = h[n]
<1> DEFINE S == {m \in Nat : m <= N => g[m] = h[m]}
<1>1. 0 \in S
  BY DEF Alike
<1>2. ASSUME NEW m \in Nat, m \in S PROVE m + 1 \in S
  <2>1. SUFFICES ASSUME m + 1 <= N PROVE g[m + 1] = h[m + 1]
    OBVIOUS
  <2>2. g[m] = h[m] /\ m + 1 \in 1 .. N /\ m + 1 - 1 = m
    BY <1>2, <2>1
  <2> QED
    BY <2>2 DEF Alike
<1>3. \A m \in Nat : m \in S
  <2> HIDE DEF S
  <2> QED
    BY <1>1, <1>2, Induction
<1> QED
  BY <1>3

-----------------------------------------------------------------------------
(* Writes.                                                                  *)

\* The marks of a slot are no records, and only one of them deletes.
LEMMA MarksDiffer ==
    /\ ZERO \notin Record /\ DELETED \notin Record /\ NotFound \notin Record /\ ZERO # DELETED
    /\ ~IsDeleted(ZERO) /\ IsDeleted(DELETED)
<1>1. ZERO.key = "zero" /\ DELETED.key = "deleted" /\ NotFound.key = "none"
  BY DEF ZERO, DELETED, NotFound
<1>2. \A r \in Record : r.key \in Keys
  BY DEF Record
<1>3. ZERO \notin Record /\ DELETED \notin Record /\ NotFound \notin Record
  BY <1>1, <1>2, SlotAssumption
<1>4. ZERO # DELETED
  BY <1>1
<1> QED
  BY <1>3, <1>4, SlotAssumption DEF IsDeleted

Writes == [at : Nat \ {0}, cell : Cell]

\* A write replaces a cell, or adds one behind the last.
LEMMA Written ==
    ASSUME NEW c \in Seq(Cell), NEW w \in Writes
    PROVE  /\ Write(c, w) \in Seq(Cell)
           /\ w.at \in 1 .. Len(c) + 1 => w.at \in 1 .. Len(Write(c, w)) /\ Write(c, w)[w.at] = w.cell
           /\ Len(Write(c, w)) = IF w.at <= Len(c) THEN Len(c) ELSE Len(c) + 1
           /\ \A i \in 1 .. Len(c) : i # w.at => Write(c, w)[i] = c[i]
<1>1. w.at \in Nat /\ w.at > 0 /\ w.cell \in Cell
  BY DEF Writes
<1>2. CASE w.at <= Len(c)
  <2>1. Write(c, w) = [c EXCEPT ![w.at] = w.cell]
    BY <1>2 DEF Write
  <2>2. Write(c, w) \in Seq(Cell) /\ Len(Write(c, w)) = Len(c)
    BY <2>1, <1>1, <1>2
  <2> QED
    BY <2>1, <2>2, <1>1, <1>2
<1>3. CASE ~(w.at <= Len(c))
  <2>1. Write(c, w) = Append(c, w.cell)
    BY <1>3 DEF Write
  <2> QED
    BY <2>1, <1>1, <1>3
<1> QED
  BY <1>2, <1>3

LEMMA WrittenBehind ==
    ASSUME NEW c \in Seq(Cell), NEW w \in Writes, w.at = Len(c) + 1
    PROVE  /\ Write(c, w) \in Seq(Cell) /\ Len(Write(c, w)) = Len(c) + 1
           /\ Write(c, w)[Len(c) + 1] = w.cell
           /\ \A i \in 1 .. Len(c) : Write(c, w)[i] = c[i]
<1>1. Len(c) \in Nat
  OBVIOUS
<1>2. w.at \in 1 .. Len(c) + 1 /\ ~(w.at <= Len(c)) /\ \A i \in 1 .. Len(c) : i # w.at
  BY <1>1
<1> QED
  BY <1>2, Written

LEMMA WrittenWithin ==
    ASSUME NEW c \in Seq(Cell), NEW w \in Writes, w.at \in 1 .. Len(c)
    PROVE  /\ Write(c, w) \in Seq(Cell) /\ Len(Write(c, w)) = Len(c)
           /\ Write(c, w)[w.at] = w.cell
           /\ \A i \in 1 .. Len(c) : i # w.at => Write(c, w)[i] = c[i]
<1>1. Len(c) \in Nat
  OBVIOUS
<1>2. w.at \in 1 .. Len(c) + 1 /\ w.at <= Len(c)
  BY <1>1
<1> QED
  BY <1>2, Written

\* The contents of the file between the writes of a mutation.
LEMMA Applied ==
    ASSUME NEW c \in Seq(Cell), NEW ws \in Seq(Writes)
    PROVE  \E f \in [0 .. Len(ws) -> Seq(Cell)] :
              /\ f[0] = c
              /\ \A n \in 1 .. Len(ws) : f[n] = Write(f[n - 1], ws[n])
              /\ Apply(c, ws) = f[Len(ws)]
<1> DEFINE N == Len(ws)
           X == Seq(Cell)
           step == [x \in X |-> [n \in 1 .. N |-> Write(x, ws[n])]]
           loop(f) == f = [n \in 0 .. N |-> IF n = 0 THEN c ELSE Write(f[n - 1], ws[n])]
<1>1. \A x \in X, n \in 1 .. N : step[x][n] = Write(x, ws[n]) /\ step[x][n] \in X
  BY Written
<1>2. PICK g \in [0 .. N -> X] : g[0] = c /\ \A n \in 1 .. N : g[n] = step[g[n - 1]][n]
  <2>1. N \in Nat /\ c \in X
    OBVIOUS
  <2>2. Looped(X, N, c, step)
    <3> HIDE DEF N, X, step
    <3> QED
      BY <2>1, <1>1, Recursion
  <2> QED
    BY <2>2 DEF Looped
<1>3. ASSUME NEW f \in [0 .. N -> X], f[0] = c, \A n \in 1 .. N : f[n] = Write(f[n - 1], ws[n])
      PROVE  loop(f)
  <2>1. \A n \in 0 .. N : f[n] = IF n = 0 THEN c ELSE Write(f[n - 1], ws[n])
    BY <1>3
  <2>2. f = [n \in 0 .. N |-> f[n]]
    BY <1>3
  <2> QED
    BY <2>1, <2>2
<1>4. \A n \in 1 .. N : g[n] = Write(g[n - 1], ws[n])
  <2>1. \A n \in 1 .. N : g[n - 1] \in X
    BY <1>2
  <2> HIDE DEF X, N, step
  <2> QED
    BY <2>1, <1>1, <1>2
<1>5. loop(g)
  BY <1>2, <1>3, <1>4
<1> DEFINE h == CHOOSE f : loop(f)
<1>6. loop(h)
  BY <1>5
<1>7. h[0] = c /\ \A n \in 1 .. N : h[n] = Write(h[n - 1], ws[n])
  <2>1. \A n \in 0 .. N : h[n] = IF n = 0 THEN c ELSE Write(h[n - 1], ws[n])
    BY <1>6
  <2> QED
    BY <2>1
<1>8. \A n \in 0 .. N : g[n] = h[n]
  <2>1. g[0] = h[0] /\ \A n \in 1 .. N : g[n - 1] = h[n - 1] => g[n] = h[n]
    BY <1>2, <1>4, <1>7
  <2>2. N \in Nat
    OBVIOUS
  <2> HIDE DEF N, h
  <2>3. Alike(N, g, h)
    BY <2>1 DEF Alike
  <2> QED
    BY <2>2, <2>3, SameLoop
<1>9. Apply(c, ws) = h[N]
  BY DEF Apply
<1>10. Apply(c, ws) = g[N]
  BY <1>8, <1>9
<1> QED
  BY <1>2, <1>4, <1>10

\* Mutations of one, two and four writes.
LEMMA ApplyOne ==
    ASSUME NEW c \in Seq(Cell), NEW w \in Writes
    PROVE  Apply(c, <<w>>) = Write(c, w)
<1> DEFINE ws == <<w>>
<1>1. ws \in Seq(Writes) /\ Len(ws) = 1 /\ ws[1] = w
  OBVIOUS
<1>2. PICK f : f[0] = c /\ (\A n \in 1 .. 1 : f[n] = Write(f[n - 1], ws[n])) /\ Apply(c, ws) = f[1]
  <2> HIDE DEF ws
  <2> QED
    BY <1>1, Applied
<1>3. f[1] = Write(f[0], w)
  BY <1>1, <1>2
<1> QED
  BY <1>2, <1>3

LEMMA ApplyTwo ==
    ASSUME NEW c \in Seq(Cell), NEW v \in Writes, NEW w \in Writes
    PROVE  Apply(c, <<v, w>>) = Write(Write(c, v), w)
<1> DEFINE ws == <<v, w>>
<1>1. ws \in Seq(Writes) /\ Len(ws) = 2 /\ ws[1] = v /\ ws[2] = w
  OBVIOUS
<1>2. PICK f : f[0] = c /\ (\A n \in 1 .. 2 : f[n] = Write(f[n - 1], ws[n])) /\ Apply(c, ws) = f[2]
  <2> HIDE DEF ws
  <2> QED
    BY <1>1, Applied
<1>3. f[1] = Write(f[0], v) /\ f[2] = Write(f[1], w)
  BY <1>1, <1>2
<1> QED
  BY <1>2, <1>3

LEMMA ApplyFour ==
    ASSUME NEW c \in Seq(Cell), NEW t \in Writes, NEW u \in Writes, NEW v \in Writes, NEW w \in Writes
    PROVE  Apply(c, <<t, u>> \o <<v, w>>) = Write(Write(Write(Write(c, t), u), v), w)
<1> DEFINE ws == <<t, u>> \o <<v, w>>
<1>1. ws \in Seq(Writes) /\ Len(ws) = 4 /\ ws[1] = t /\ ws[2] = u /\ ws[3] = v /\ ws[4] = w
  OBVIOUS
<1>2. PICK f : f[0] = c /\ (\A n \in 1 .. 4 : f[n] = Write(f[n - 1], ws[n])) /\ Apply(c, ws) = f[4]
  <2> HIDE DEF ws
  <2>1. PICK f \in [0 .. Len(ws) -> Seq(Cell)] :
            /\ f[0] = c
            /\ \A n \in 1 .. Len(ws) : f[n] = Write(f[n - 1], ws[n])
            /\ Apply(c, ws) = f[Len(ws)]
    BY <1>1, Applied
  <2> QED
    BY <1>1, <2>1
<1>3. /\ f[1] = Write(f[0], t) /\ f[2] = Write(f[1], u)
      /\ f[3] = Write(f[2], v) /\ f[4] = Write(f[3], w)
  BY <1>1, <1>2
<1> QED
  BY <1>2, <1>3

-----------------------------------------------------------------------------
(* A file of whole slots, and what a mutation does to it.                   *)

Slots(c) == 1 .. SlotCount(c)

Good(c) ==
    /\ c \in Seq(Cell) /\ Len(c) = 2 * SlotCount(c)
    /\ \A s \in Slots(c) : c[FlagAt(s)] \in {ZERO, DELETED} /\ c[PayloadAt(s)] \in Record

Same(c, d, s) == d[FlagAt(s)] = c[FlagAt(s)] /\ d[PayloadAt(s)] = c[PayloadAt(s)]

\* d is c with the record in slot t, a new slot or one of c's.
Filled(c, d, t, rec) ==
    /\ Good(d) /\ t \in Slots(d) /\ d[FlagAt(t)] = ZERO /\ d[PayloadAt(t)] = rec
    /\ Slots(c) \subseteq Slots(d)
    /\ \A s \in Slots(d) \ {t} : s \in Slots(c) /\ Same(c, d, s)

\* d is c without slot t.
Marked(c, d, t) ==
    /\ Good(d) /\ d[FlagAt(t)] = DELETED /\ Slots(d) = Slots(c)
    /\ \A s \in Slots(d) \ {t} : Same(c, d, s)

LEMMA LiveIsZero ==
    ASSUME NEW c, Good(c)
    PROVE  /\ SlotCount(c) \in Nat /\ LiveSlots(c) \subseteq Slots(c)
           /\ \A s \in Slots(c) : s \in LiveSlots(c) <=> c[FlagAt(s)] = ZERO
           /\ \A s \in Slots(c) : FlagAt(s) \in 1 .. Len(c) /\ PayloadAt(s) \in 1 .. Len(c)
           /\ \A s \in Slots(c) : s \in Tombstones(c) <=> s \notin LiveSlots(c)
<1>1. SlotCount(c) \in Nat
  BY DEF Good, SlotCount
<1>2. \A s \in Slots(c) : c[FlagAt(s)] = ZERO \/ c[FlagAt(s)] = DELETED
  BY DEF Good
<1>3. \A s \in Slots(c) : s \in LiveSlots(c) <=> c[FlagAt(s)] = ZERO
  BY <1>2, MarksDiffer DEF LiveSlots, Slots
<1>4. \A s \in Slots(c) : FlagAt(s) \in 1 .. Len(c) /\ PayloadAt(s) \in 1 .. Len(c)
  BY <1>1 DEF Good, Slots, FlagAt, PayloadAt
<1> QED
  BY <1>1, <1>3, <1>4 DEF LiveSlots, Tombstones, Slots

\* A file that keeps its length stays good if what changes is a mark or a record.
LEMMA StaysGood ==
    ASSUME NEW c, NEW d \in Seq(Cell), NEW n \in Nat, Len(d) = 2 * n,
           \A s \in 1 .. n : d[FlagAt(s)] \in {ZERO, DELETED} /\ d[PayloadAt(s)] \in Record
    PROVE  Good(d) /\ SlotCount(d) = n
<1>1. SlotCount(d) = n
  BY DEF SlotCount
<1> QED
  BY <1>1 DEF Good, Slots

\* writeLiveRecordSlot into a slot of the file.
LEMMA SlotWritten ==
    ASSUME NEW c, Good(c), NEW t \in Slots(c), NEW rec \in Record
    PROVE  /\ Filled(c, Apply(c, WriteLiveRecordSlot(FlagAt(t), rec)), t, rec)
           /\ SlotCount(Apply(c, WriteLiveRecordSlot(FlagAt(t), rec))) = SlotCount(c)
<1> DEFINE v == [at |-> FlagAt(t), cell |-> ZERO]
           w == [at |-> FlagAt(t) + 1, cell |-> rec]
           b == Write(c, v)
           d == Write(b, w)
<1>0. c \in Seq(Cell) /\ SlotCount(c) \in Nat /\ Len(c) = 2 * SlotCount(c)
  BY LiveIsZero DEF Good
<1>1. v \in Writes /\ w \in Writes
  <2>1. FlagAt(t) \in Nat \ {0} /\ FlagAt(t) + 1 \in Nat \ {0}
    BY <1>0 DEF Slots, FlagAt
  <2> QED
    BY <2>1 DEF Writes, Cell
<1>2. Apply(c, WriteLiveRecordSlot(FlagAt(t), rec)) = d
  BY <1>0, <1>1, ApplyTwo DEF WriteLiveRecordSlot
<1>3. v.at \in 1 .. Len(c) /\ w.at \in 1 .. Len(c) /\ w.at = PayloadAt(t) /\ v.at = FlagAt(t)
  BY <1>0 DEF Slots, FlagAt, PayloadAt
<1>4. /\ b \in Seq(Cell) /\ Len(b) = Len(c) /\ b[FlagAt(t)] = ZERO
      /\ \A i \in 1 .. Len(c) : i # FlagAt(t) => b[i] = c[i]
  <2> HIDE DEF v
  <2>1. v.cell = ZERO
    BY DEF v
  <2>2. v.at \in 1 .. Len(c) + 1 /\ v.at <= Len(c)
    BY <1>3, <1>0
  <2> QED
    BY <1>0, <1>1, <1>3, <2>1, <2>2, Written
<1>5. /\ d \in Seq(Cell) /\ Len(d) = Len(c) /\ d[PayloadAt(t)] = rec
      /\ \A i \in 1 .. Len(c) : i # PayloadAt(t) => d[i] = b[i]
  <2> HIDE DEF w, b
  <2>1. w.cell = rec
    BY DEF w
  <2>2. w.at \in 1 .. Len(b) + 1 /\ w.at <= Len(b)
    BY <1>3, <1>4, <1>0
  <2> QED
    BY <1>0, <1>1, <1>3, <1>4, <2>1, <2>2, Written
<1> HIDE DEF v, w, b, d
<1>6. FlagAt(t) # PayloadAt(t) /\ FlagAt(t) \in 1 .. Len(c) /\ d[FlagAt(t)] = ZERO
  <2>1. FlagAt(t) # PayloadAt(t)
    BY <1>0 DEF Slots, FlagAt, PayloadAt
  <2> QED
    BY <2>1, <1>3, <1>4, <1>5
<1>7. \A s \in Slots(c) \ {t} : Same(c, d, s)
  <2>1. ASSUME NEW s \in Slots(c) \ {t} PROVE Same(c, d, s)
    <3>1. /\ FlagAt(s) \in 1 .. Len(c) /\ PayloadAt(s) \in 1 .. Len(c)
          /\ FlagAt(s) \notin {FlagAt(t), PayloadAt(t)} /\ PayloadAt(s) \notin {FlagAt(t), PayloadAt(t)}
      BY <1>0 DEF Slots, FlagAt, PayloadAt
    <3> QED
      BY <3>1, <1>4, <1>5 DEF Same
  <2> QED
    BY <2>1
<1>8. Good(d) /\ SlotCount(d) = SlotCount(c)
  <2>1. \A s \in 1 .. SlotCount(c) : d[FlagAt(s)] \in {ZERO, DELETED} /\ d[PayloadAt(s)] \in Record
    BY <1>5, <1>6, <1>7 DEF Slots, Same, Good
  <2> QED
    BY <2>1, <1>0, <1>5, StaysGood
<1> QED
  BY <1>2, <1>5, <1>6, <1>7, <1>8 DEF Filled, Slots

\* appendRecordSlot.
LEMMA SlotAppended ==
    ASSUME NEW c, Good(c), NEW rec \in Record
    PROVE  Filled(c, Apply(c, AppendRecordSlot(c, rec)), SlotCount(c) + 1, rec)
<1> DEFINE n == SlotCount(c)
           at == Len(c) + 1
           t == [at |-> at, cell |-> ZERO]
           u == [at |-> at + 1, cell |-> ZERO]
           w == [at |-> at + 1, cell |-> rec]
           b1 == Write(c, t)
           b2 == Write(b1, u)
           b3 == Write(b2, t)
           d == Write(b3, w)
<1>0. c \in Seq(Cell) /\ n \in Nat /\ Len(c) = 2 * n
  BY LiveIsZero DEF Good
<1>1. t \in Writes /\ u \in Writes /\ w \in Writes
  BY <1>0 DEF Writes, Cell
<1>2. Apply(c, AppendRecordSlot(c, rec)) = d
  BY <1>0, <1>1, ApplyFour DEF AppendRecordSlot, WriteLiveRecordSlot
<1>a. t.at = Len(c) + 1 /\ u.at = Len(c) + 2 /\ w.at = Len(c) + 2 /\ t.cell = ZERO /\ w.cell = rec
  BY <1>0
<1>b. Len(c) \in Nat
  BY <1>0
<1> HIDE DEF t, u, w
<1>3. b1 \in Seq(Cell) /\ Len(b1) = Len(c) + 1 /\ \A i \in 1 .. Len(c) : b1[i] = c[i]
  BY <1>0, <1>1, <1>a, WrittenBehind
<1> HIDE DEF b1
<1>4. b2 \in Seq(Cell) /\ Len(b2) = Len(c) + 2 /\ \A i \in 1 .. Len(c) : b2[i] = c[i]
  <2>1. u.at = Len(b1) + 1
    BY <1>3, <1>a, <1>b
  <2>2. b2 \in Seq(Cell) /\ Len(b2) = Len(b1) + 1 /\ \A i \in 1 .. Len(b1) : b2[i] = b1[i]
    BY <2>1, <1>1, <1>3, WrittenBehind
  <2> QED
    BY <2>2, <1>3, <1>b
<1> HIDE DEF b2
<1>5. /\ b3 \in Seq(Cell) /\ Len(b3) = Len(c) + 2 /\ b3[Len(c) + 1] = ZERO
      /\ \A i \in 1 .. Len(c) : b3[i] = c[i]
  <2>1. t.at \in 1 .. Len(b2)
    BY <1>4, <1>a, <1>b
  <2>2. /\ b3 \in Seq(Cell) /\ Len(b3) = Len(b2) /\ b3[t.at] = t.cell
        /\ \A i \in 1 .. Len(b2) : i # t.at => b3[i] = b2[i]
    BY <2>1, <1>1, <1>4, WrittenWithin
  <2> QED
    BY <2>2, <1>4, <1>a, <1>b
<1> HIDE DEF b3
<1>6. /\ d \in Seq(Cell) /\ Len(d) = Len(c) + 2
      /\ d[Len(c) + 1] = ZERO /\ d[Len(c) + 2] = rec
      /\ \A i \in 1 .. Len(c) : d[i] = c[i]
  <2>1. w.at \in 1 .. Len(b3)
    BY <1>5, <1>a, <1>b
  <2>2. /\ d \in Seq(Cell) /\ Len(d) = Len(b3) /\ d[w.at] = w.cell
        /\ \A i \in 1 .. Len(b3) : i # w.at => d[i] = b3[i]
    BY <2>1, <1>1, <1>5, WrittenWithin
  <2> QED
    BY <2>2, <1>5, <1>a, <1>b
<1> HIDE DEF d
<1>7. FlagAt(n + 1) = Len(c) + 1 /\ PayloadAt(n + 1) = Len(c) + 2
  BY <1>0 DEF FlagAt, PayloadAt
<1>8. \A s \in Slots(c) : Same(c, d, s)
  BY <1>6, LiveIsZero DEF Same
<1>9. Good(d) /\ SlotCount(d) = n + 1
  <2>1. ASSUME NEW s \in 1 .. n + 1
        PROVE  d[FlagAt(s)] \in {ZERO, DELETED} /\ d[PayloadAt(s)] \in Record
    <3>1. CASE s = n + 1
      BY <3>1, <1>6, <1>7
    <3>2. CASE s # n + 1
      <4>1. s \in Slots(c)
        BY <3>2, <1>0 DEF Slots
      <4> QED
        BY <4>1, <1>8 DEF Same, Good
    <3> QED
      BY <3>1, <3>2
  <2>2. Len(d) = 2 * (n + 1) /\ n + 1 \in Nat
    BY <1>0, <1>6
  <2> HIDE DEF n
  <2> QED
    BY <2>1, <2>2, <1>6, StaysGood
<1>10. n + 1 \in Slots(d) /\ Slots(c) \subseteq Slots(d) /\ Slots(d) \ {n + 1} = Slots(c)
  BY <1>0, <1>9 DEF Slots
<1> QED
  BY <1>2, <1>6, <1>7, <1>8, <1>9, <1>10 DEF Filled

\* The first tombstone is one.
LEMMA FirstTombstone ==
    ASSUME NEW c, Good(c), Tombstones(c) # {}
    PROVE  Min(Tombstones(c)) \in Slots(c) \ LiveSlots(c)
<1>1. Tombstones(c) = Slots(c) \ LiveSlots(c) /\ Tombstones(c) \subseteq Nat
  BY LiveIsZero DEF Tombstones, Slots
<1>2. \E x \in Tombstones(c) : \A y \in Tombstones(c) : x <= y
  BY <1>1, Least
<1>3. Min(Tombstones(c)) \in Tombstones(c)
  BY <1>2 DEF Min
<1> QED
  BY <1>1, <1>3

\* insertSerialized fills a slot that was not live.
LEMMA Inserted ==
    ASSUME NEW c, Good(c), NEW rec \in Record
    PROVE  \E t \in Nat \ LiveSlots(c) : Filled(c, Apply(c, InsertWrites(c, rec)), t, rec)
<1>1. CASE Tombstones(c) # {}
  <2> DEFINE t == Min(Tombstones(c))
  <2>1. t \in Slots(c) \ LiveSlots(c) /\ t \in Nat
    BY <1>1, FirstTombstone DEF Slots
  <2>2. Apply(c, InsertWrites(c, rec)) = Apply(c, WriteLiveRecordSlot(FlagAt(t), rec))
    BY <1>1 DEF InsertWrites
  <2>3. Filled(c, Apply(c, WriteLiveRecordSlot(FlagAt(t), rec)), t, rec)
    BY <2>1, SlotWritten
  <2> HIDE DEF t
  <2> QED
    BY <2>1, <2>2, <2>3
<1>2. CASE Tombstones(c) = {}
  <2>1. SlotCount(c) + 1 \in Nat \ LiveSlots(c)
    BY LiveIsZero DEF Slots
  <2>2. Apply(c, InsertWrites(c, rec)) = Apply(c, AppendRecordSlot(c, rec))
    BY <1>2 DEF InsertWrites
  <2> QED
    BY <2>1, <2>2, SlotAppended
<1> QED
  BY <1>1, <1>2

\* replaceSerialized fills the live slot it is given.
LEMMA Replaced ==
    ASSUME NEW c, Good(c), NEW t \in LiveSlots(c), NEW rec \in Record
    PROVE  Filled(c, Apply(c, ReplaceWrites(t, rec)), t, rec)
<1> DEFINE w == [at |-> PayloadAt(t), cell |-> rec]
           d == Write(c, w)
<1>0. c \in Seq(Cell) /\ SlotCount(c) \in Nat /\ Len(c) = 2 * SlotCount(c) /\ t \in Slots(c)
  BY LiveIsZero DEF Good
<1>1. w \in Writes /\ w.at = PayloadAt(t) /\ w.cell = rec /\ w.at \in 1 .. Len(c)
  <2>1. PayloadAt(t) \in Nat \ {0} /\ PayloadAt(t) \in 1 .. Len(c)
    BY <1>0 DEF Slots, PayloadAt
  <2> QED
    BY <2>1 DEF Writes, Cell
<1>2. Apply(c, ReplaceWrites(t, rec)) = d
  BY <1>0, <1>1, ApplyOne DEF ReplaceWrites
<1> HIDE DEF w
<1>3. /\ d \in Seq(Cell) /\ Len(d) = Len(c) /\ d[PayloadAt(t)] = rec
      /\ \A i \in 1 .. Len(c) : i # PayloadAt(t) => d[i] = c[i]
  <2>1. w.at <= Len(c) /\ w.at \in 1 .. Len(c) + 1
    BY <1>0, <1>1
  <2> QED
    BY <1>0, <1>1, <2>1, Written
<1> HIDE DEF d
<1>4. d[FlagAt(t)] = c[FlagAt(t)] /\ \A s \in Slots(c) \ {t} : Same(c, d, s)
  <2>1. \A s \in Slots(c) : /\ FlagAt(s) \in 1 .. Len(c) /\ PayloadAt(s) \in 1 .. Len(c)
                            /\ FlagAt(s) # PayloadAt(t) /\ (s # t => PayloadAt(s) # PayloadAt(t))
    BY <1>0 DEF Slots, FlagAt, PayloadAt
  <2> QED
    BY <2>1, <1>0, <1>3 DEF Same
<1>5. d[FlagAt(t)] = ZERO
  BY <1>0, <1>4, LiveIsZero
<1>6. Good(d) /\ SlotCount(d) = SlotCount(c)
  <2>1. \A s \in 1 .. SlotCount(c) : d[FlagAt(s)] \in {ZERO, DELETED} /\ d[PayloadAt(s)] \in Record
    BY <1>3, <1>4, <1>5 DEF Slots, Same, Good
  <2> QED
    BY <2>1, <1>0, <1>3, StaysGood
<1> QED
  BY <1>0, <1>2, <1>3, <1>4, <1>5, <1>6 DEF Filled, Slots

\* remove marks the live slot it is given.
LEMMA Removed ==
    ASSUME NEW c, Good(c), NEW t \in LiveSlots(c)
    PROVE  Marked(c, Apply(c, RemoveWrites(t)), t)
<1> DEFINE w == [at |-> FlagAt(t), cell |-> DELETED]
           d == Write(c, w)
<1>0. c \in Seq(Cell) /\ SlotCount(c) \in Nat /\ Len(c) = 2 * SlotCount(c) /\ t \in Slots(c)
  BY LiveIsZero DEF Good
<1>1. w \in Writes /\ w.at = FlagAt(t) /\ w.cell = DELETED /\ w.at \in 1 .. Len(c)
  <2>1. FlagAt(t) \in Nat \ {0} /\ FlagAt(t) \in 1 .. Len(c)
    BY <1>0 DEF Slots, FlagAt
  <2> QED
    BY <2>1 DEF Writes, Cell
<1>2. Apply(c, RemoveWrites(t)) = d
  BY <1>0, <1>1, ApplyOne DEF RemoveWrites
<1> HIDE DEF w
<1>3. /\ d \in Seq(Cell) /\ Len(d) = Len(c) /\ d[FlagAt(t)] = DELETED
      /\ \A i \in 1 .. Len(c) : i # FlagAt(t) => d[i] = c[i]
  <2>1. w.at <= Len(c) /\ w.at \in 1 .. Len(c) + 1
    BY <1>0, <1>1
  <2> QED
    BY <1>0, <1>1, <2>1, Written
<1> HIDE DEF d
<1>4. d[PayloadAt(t)] = c[PayloadAt(t)] /\ \A s \in Slots(c) \ {t} : Same(c, d, s)
  <2>1. \A s \in Slots(c) : /\ FlagAt(s) \in 1 .. Len(c) /\ PayloadAt(s) \in 1 .. Len(c)
                            /\ PayloadAt(s) # FlagAt(t) /\ (s # t => FlagAt(s) # FlagAt(t))
    BY <1>0 DEF Slots, FlagAt, PayloadAt
  <2> QED
    BY <2>1, <1>0, <1>3 DEF Same
<1>5. Good(d) /\ SlotCount(d) = SlotCount(c)
  <2>1. \A s \in 1 .. SlotCount(c) : d[FlagAt(s)] \in {ZERO, DELETED} /\ d[PayloadAt(s)] \in Record
    BY <1>3, <1>4, <1>0 DEF Slots, Same, Good
  <2> QED
    BY <2>1, <1>0, <1>3, StaysGood
<1> QED
  BY <1>0, <1>2, <1>3, <1>4, <1>5 DEF Marked, Slots

-----------------------------------------------------------------------------
(* What a lookup finds.                                                     *)

KeyAt(c, s) == c[PayloadAt(s)].key

Unique(c) == \A s, u \in LiveSlots(c) : KeyAt(c, s) = KeyAt(c, u) => s = u

KeysIn(c, K) == \A s \in LiveSlots(c) : KeyAt(c, s) \in K

LEMMA IsMatch ==
    ASSUME NEW c, NEW k, NEW s
    PROVE  s \in Matches(c, k) <=> s \in LiveSlots(c) /\ KeyAt(c, s) = k
  BY DEF Matches, KeyAt

\* findById takes the last of several.
LEMMA LastMatch ==
    ASSUME NEW c, Good(c), NEW k, Exists(c, k)
    PROVE  /\ FindSlot(c, k) \in Matches(c, k) /\ FindSlot(c, k) \in LiveSlots(c)
           /\ \A s \in Matches(c, k) : s <= FindSlot(c, k)
           /\ Read(c, k) = c[PayloadAt(FindSlot(c, k))] /\ Read(c, k).key = k
<1>1. Matches(c, k) \subseteq 0 .. SlotCount(c) /\ SlotCount(c) \in Nat /\ Matches(c, k) # {}
  BY LiveIsZero DEF Matches, Slots, Exists
<1>2. \E x \in Matches(c, k) : \A y \in Matches(c, k) : x >= y
  BY <1>1, Greatest
<1>3. FindSlot(c, k) \in Matches(c, k) /\ \A y \in Matches(c, k) : FindSlot(c, k) >= y
  BY <1>2 DEF FindSlot, Max
<1>4. \A y \in Matches(c, k) : y <= FindSlot(c, k)
  BY <1>1, <1>3
<1>5. Read(c, k) = c[PayloadAt(FindSlot(c, k))]
  BY DEF Read
<1> QED
  BY <1>3, <1>4, <1>5, IsMatch DEF KeyAt

\* What is found is the record behind the last match.
LEMMA FoundAt ==
    ASSUME NEW c, Good(c), NEW k, NEW m \in Matches(c, k), \A s \in Matches(c, k) : s <= m
    PROVE  Exists(c, k) /\ FindSlot(c, k) = m /\ Read(c, k) = c[PayloadAt(m)]
<1>1. Exists(c, k)
  BY DEF Exists
<1>2. FindSlot(c, k) \in Matches(c, k) /\ m <= FindSlot(c, k) /\ FindSlot(c, k) <= m
  BY <1>1, LastMatch
<1>3. m \in Nat /\ FindSlot(c, k) \in Nat
  BY <1>2, LiveIsZero, IsMatch DEF Slots
<1>4. FindSlot(c, k) = m
  BY <1>2, <1>3
<1> QED
  BY <1>1, <1>4 DEF Read

\* Two files with the same matches, and the same records there.
LEMMA SameLookup ==
    ASSUME NEW c, NEW d, NEW k, Good(c), Matches(d, k) = Matches(c, k),
           \A s \in Matches(c, k) : d[PayloadAt(s)] = c[PayloadAt(s)]
    PROVE  (Exists(d, k) <=> Exists(c, k)) /\ Read(d, k) = Read(c, k)
<1>1. (Exists(d, k) <=> Exists(c, k)) /\ FindSlot(d, k) = FindSlot(c, k)
  BY DEF Exists, FindSlot
<1>2. CASE Exists(c, k)
  BY <1>1, <1>2, LastMatch DEF Read
<1>3. CASE ~Exists(c, k)
  BY <1>1, <1>3 DEF Read
<1> QED
  BY <1>1, <1>2, <1>3

\* The slot filled is now a match, and the other slots are what they were.
LEMMA FilledMatches ==
    ASSUME NEW c, Good(c), NEW d, NEW t, NEW rec, Filled(c, d, t, rec),
           t \notin LiveSlots(c) \/ KeyAt(c, t) = rec.key
    PROVE  /\ Good(d) /\ LiveSlots(d) = LiveSlots(c) \cup {t}
           /\ KeyAt(d, t) = rec.key /\ d[PayloadAt(t)] = rec
           /\ \A s \in LiveSlots(d) \ {t} : KeyAt(d, s) = KeyAt(c, s)
           /\ \A k : k # rec.key => Matches(d, k) = Matches(c, k) /\ t \notin Matches(c, k)
           /\ Matches(d, rec.key) = Matches(c, rec.key) \cup {t}
           /\ \A s \in LiveSlots(c) \ {t} : d[PayloadAt(s)] = c[PayloadAt(s)]
<1>1. Good(d) /\ t \in LiveSlots(d) /\ d[PayloadAt(t)] = rec
  BY LiveIsZero DEF Filled
<1>2. ASSUME NEW s, s # t
      PROVE  s \in LiveSlots(d) <=> s \in LiveSlots(c)
  <2>1. s \in Slots(d) <=> s \in Slots(c)
    BY <1>2 DEF Filled
  <2>2. s \in Slots(d) => d[FlagAt(s)] = c[FlagAt(s)]
    BY <1>2 DEF Filled, Same
  <2> QED
    BY <2>1, <2>2, <1>1, LiveIsZero
<1>3. \A s \in LiveSlots(d) \ {t} : d[PayloadAt(s)] = c[PayloadAt(s)]
  BY <1>1, LiveIsZero DEF Filled, Same
<1>4. LiveSlots(d) = LiveSlots(c) \cup {t}
  BY <1>1, <1>2
<1>5. KeyAt(d, t) = rec.key /\ \A s \in LiveSlots(d) \ {t} : KeyAt(d, s) = KeyAt(c, s)
  BY <1>1, <1>3 DEF KeyAt
<1>6. ASSUME NEW k, k # rec.key PROVE Matches(d, k) = Matches(c, k) /\ t \notin Matches(c, k)
  <2>1. t \notin Matches(c, k) /\ t \notin Matches(d, k)
    BY <1>5, <1>6, IsMatch
  <2>2. \A s : s # t => (s \in Matches(d, k) <=> s \in Matches(c, k))
    BY <1>4, <1>5, IsMatch
  <2> QED
    BY <2>1, <2>2
<1>7. Matches(d, rec.key) = Matches(c, rec.key) \cup {t}
  <2>1. t \in Matches(d, rec.key)
    BY <1>1, <1>5, IsMatch
  <2>2. \A s : s # t => (s \in Matches(d, rec.key) <=> s \in Matches(c, rec.key))
    BY <1>4, <1>5, IsMatch
  <2> QED
    BY <2>1, <2>2
<1> QED
  BY <1>1, <1>3, <1>4, <1>5, <1>6, <1>7

\* A record that is written where it was found last, or where none was, is found.
LEMMA FilledReads ==
    ASSUME NEW c, Good(c), NEW d, NEW t \in Nat, NEW rec, Filled(c, d, t, rec),
           \/ t \notin LiveSlots(c) /\ ~Exists(c, rec.key)
           \/ Exists(c, rec.key) /\ t = FindSlot(c, rec.key)
    PROVE  /\ Good(d) /\ Exists(d, rec.key) /\ Read(d, rec.key) = rec
           /\ \A k : k # rec.key => (Exists(d, k) <=> Exists(c, k)) /\ Read(d, k) = Read(c, k)
           /\ Unique(c) => Unique(d)
           /\ \A K : KeysIn(c, K) /\ rec.key \in K => KeysIn(d, K)
<1>1. t \notin LiveSlots(c) \/ KeyAt(c, t) = rec.key
  BY LastMatch, IsMatch
<1>2. /\ Good(d) /\ LiveSlots(d) = LiveSlots(c) \cup {t}
      /\ KeyAt(d, t) = rec.key /\ d[PayloadAt(t)] = rec
      /\ \A s \in LiveSlots(d) \ {t} : KeyAt(d, s) = KeyAt(c, s)
      /\ \A k : k # rec.key => Matches(d, k) = Matches(c, k) /\ t \notin Matches(c, k)
      /\ Matches(d, rec.key) = Matches(c, rec.key) \cup {t}
      /\ \A s \in LiveSlots(c) \ {t} : d[PayloadAt(s)] = c[PayloadAt(s)]
  BY <1>1, FilledMatches
<1>3. \A s \in Matches(d, rec.key) : s <= t
  <2>1. \A s \in Matches(c, rec.key) : s <= t
    BY LastMatch DEF Exists
  <2> QED
    BY <2>1, <1>2
<1>4. Exists(d, rec.key) /\ Read(d, rec.key) = rec
  BY <1>2, <1>3, FoundAt
<1>5. ASSUME NEW k, k # rec.key PROVE (Exists(d, k) <=> Exists(c, k)) /\ Read(d, k) = Read(c, k)
  <2>1. Matches(d, k) = Matches(c, k) /\ \A s \in Matches(c, k) : d[PayloadAt(s)] = c[PayloadAt(s)]
    BY <1>2, <1>5, IsMatch
  <2> QED
    BY <2>1, SameLookup
<1>6. ASSUME Unique(c) PROVE Unique(d)
  <2>1. \A s \in LiveSlots(d) \ {t} : KeyAt(d, s) # rec.key
    <3>1. CASE ~Exists(c, rec.key)
      BY <3>1, <1>2, IsMatch DEF Exists
    <3>2. CASE Exists(c, rec.key) /\ t = FindSlot(c, rec.key)
      BY <3>2, <1>2, <1>6, LastMatch, IsMatch DEF Unique
    <3> QED
      BY <3>1, <3>2
  <2> QED
    BY <2>1, <1>2, <1>6 DEF Unique
<1>7. ASSUME NEW K, KeysIn(c, K), rec.key \in K PROVE KeysIn(d, K)
  BY <1>2, <1>7 DEF KeysIn
<1> QED
  BY <1>2, <1>4, <1>5, <1>6, <1>7

\* A key whose last record is removed; the others stay.
LEMMA MarkedReads ==
    ASSUME NEW c, Good(c), NEW d, NEW k, Exists(c, k), Marked(c, d, FindSlot(c, k))
    PROVE  /\ Good(d)
           /\ \A j : j # k => (Exists(d, j) <=> Exists(c, j)) /\ Read(d, j) = Read(c, j)
           /\ Unique(c) => Unique(d) /\ ~Exists(d, k)
           /\ \A K : KeysIn(c, K) => KeysIn(d, K)
<1> DEFINE t == FindSlot(c, k)
<1>1. t \in LiveSlots(c) /\ KeyAt(c, t) = k
  BY LastMatch, IsMatch
<1> HIDE DEF t
<1>a. Marked(c, d, t)
  BY DEF t
<1>2. Good(d) /\ Slots(d) = Slots(c)
  BY <1>a DEF Marked
<1>3. LiveSlots(d) = LiveSlots(c) \ {t}
  <2>1. \A s \in Slots(c) \ {t} : d[FlagAt(s)] = c[FlagAt(s)]
    BY <1>a, <1>2 DEF Marked, Same
  <2>2. t \notin LiveSlots(d)
    BY <1>a, <1>2, LiveIsZero, MarksDiffer DEF Marked
  <2>3. ASSUME NEW s, s # t PROVE s \in LiveSlots(d) <=> s \in LiveSlots(c)
    <3>1. s \in LiveSlots(d) => s \in Slots(c)
      BY <1>2, LiveIsZero
    <3>2. s \in LiveSlots(c) => s \in Slots(c)
      BY LiveIsZero
    <3> QED
      BY <3>1, <3>2, <2>1, <2>3, <1>2, LiveIsZero
  <2> QED
    BY <2>2, <2>3
<1>4. \A s \in LiveSlots(d) : d[PayloadAt(s)] = c[PayloadAt(s)] /\ KeyAt(d, s) = KeyAt(c, s)
  BY <1>a, <1>2, <1>3, LiveIsZero DEF Marked, Same, KeyAt
<1>5. ASSUME NEW j, j # k PROVE (Exists(d, j) <=> Exists(c, j)) /\ Read(d, j) = Read(c, j)
  <2>1. \A s : s \in Matches(d, j) <=> s \in Matches(c, j)
    BY <1>1, <1>3, <1>4, <1>5, IsMatch
  <2>2. Matches(d, j) = Matches(c, j) /\ \A s \in Matches(c, j) : d[PayloadAt(s)] = c[PayloadAt(s)]
    BY <2>1, <1>4, IsMatch
  <2> QED
    BY <2>2, SameLookup
<1>6. ASSUME Unique(c) PROVE Unique(d) /\ ~Exists(d, k)
  <2>1. Unique(d)
    BY <1>3, <1>4, <1>6 DEF Unique
  <2>2. \A s : s \notin Matches(d, k)
    BY <1>1, <1>3, <1>4, <1>6, IsMatch DEF Unique
  <2> QED
    BY <2>1, <2>2 DEF Exists
<1>7. \A K : KeysIn(c, K) => KeysIn(d, K)
  BY <1>3, <1>4 DEF KeysIn
<1> QED
  BY <1>2, <1>5, <1>6, <1>7

\* createImpl, updateImpl, removeImpl.
LEMMA Stored ==
    ASSUME NEW c, Good(c), NEW op \in SceneOps, NEW rec, op # "remove" => rec \in Record,
           Accepts(c, op, rec.key),
           NEW d, d = Apply(c, StoreWrites(c, op, rec))
    PROVE  /\ Good(d)
           /\ \A k : k # rec.key => (Exists(d, k) <=> Exists(c, k)) /\ Read(d, k) = Read(c, k)
           /\ op # "remove" => Exists(d, rec.key) /\ Read(d, rec.key) = rec
           /\ Unique(c) => Unique(d) /\ (op = "remove" => ~Exists(d, rec.key))
           /\ \A K : KeysIn(c, K) /\ rec.key \in K => KeysIn(d, K)
<1>1. CASE op = "create"
  <2>1. ~Exists(c, rec.key) /\ d = Apply(c, InsertWrites(c, rec)) /\ rec \in Record
    BY <1>1 DEF Accepts, StoreWrites
  <2>2. PICK t \in Nat \ LiveSlots(c) : Filled(c, d, t, rec)
    BY <2>1, Inserted
  <2> QED
    BY <2>1, <2>2, <1>1, FilledReads
<1>2. CASE op = "update"
  <2>1. Exists(c, rec.key) /\ d = Apply(c, ReplaceWrites(FindSlot(c, rec.key), rec)) /\ rec \in Record
    BY <1>2 DEF Accepts, StoreWrites
  <2>2. FindSlot(c, rec.key) \in LiveSlots(c) /\ FindSlot(c, rec.key) \in Nat
    BY <2>1, LastMatch, LiveIsZero DEF Slots
  <2>3. Filled(c, d, FindSlot(c, rec.key), rec)
    BY <2>1, <2>2, Replaced
  <2> QED
    BY <2>1, <2>2, <2>3, <1>2, FilledReads
<1>3. CASE op = "remove"
  <2>1. Exists(c, rec.key) /\ d = Apply(c, RemoveWrites(FindSlot(c, rec.key)))
    BY <1>3 DEF Accepts, StoreWrites
  <2>2. FindSlot(c, rec.key) \in LiveSlots(c)
    BY <2>1, LastMatch
  <2>3. Marked(c, d, FindSlot(c, rec.key))
    BY <2>1, <2>2, Removed
  <2> QED
    BY <2>1, <2>3, <1>3, MarkedReads
<1> QED
  BY <1>1, <1>2, <1>3 DEF SceneOps

-----------------------------------------------------------------------------
(* The built-in palettes.                                                   *)

Seed(b) == [key |-> b, val |-> SeedVal]

\* What is found of the built-in palettes is unchanged.
SeedsIn(c) == Good(c) /\ \A b \in Builtins : Exists(c, b) => Read(c, b) = Seed(b)

LEMMA Table ==
    /\ Len(BUILTINS) \in Nat /\ Builtins = {BUILTINS[n] : n \in 1 .. Len(BUILTINS)}
    /\ \A b \in Builtins : Seed(b) \in Record /\ Seed(b).key = b
<1>1. Len(BUILTINS) \in Nat /\ DOMAIN BUILTINS = 1 .. Len(BUILTINS) /\ BUILTINS \in Seq(Keys)
  BY StoreKeys
<1>2. Builtins = {BUILTINS[n] : n \in 1 .. Len(BUILTINS)}
  BY <1>1 DEF Builtins, Range
<1>3. Builtins \subseteq Keys /\ SeedVal \in Vals
  BY StoreKeys
<1> QED
  BY <1>1, <1>2, <1>3 DEF Seed, Record

\* One step of seedMissing.
LEMMA SeedStep ==
    ASSUME NEW c, SeedsIn(c), NEW b \in Builtins, ~Exists(c, b),
           NEW d, d = Apply(c, InsertWrites(c, Seed(b)))
    PROVE  SeedsIn(d) /\ Exists(d, b) /\ \A a : Exists(c, a) => Exists(d, a)
<1>1. Seed(b) \in Record /\ Seed(b).key = b /\ Good(c)
  BY Table DEF SeedsIn
<1>2. PICK t \in Nat \ LiveSlots(c) : Filled(c, d, t, Seed(b))
  BY <1>1, Inserted
<1>3. /\ Good(d) /\ Exists(d, b) /\ Read(d, b) = Seed(b)
      /\ \A k : k # b => (Exists(d, k) <=> Exists(c, k)) /\ Read(d, k) = Read(c, k)
  BY <1>1, <1>2, FilledReads
<1> QED
  BY <1>3 DEF SeedsIn

\* After seedMissing every built-in palette is found, unchanged.
LEMMA SeededFound ==
    ASSUME NEW c, SeedsIn(c)
    PROVE  SeedsIn(Seeded(c)) /\ \A b \in Builtins : Exists(Seeded(c), b)
<1> DEFINE N == Len(BUILTINS)
           X == {x \in Seq(Cell) : SeedsIn(x)}
           seeded(x, n) == IF Exists(x, BUILTINS[n]) THEN x
                           ELSE Apply(x, InsertWrites(x, [key |-> BUILTINS[n], val |-> SeedVal]))
           step == [x \in X |-> [n \in 1 .. N |-> seeded(x, n)]]
           loop(f) == f = [n \in 0 .. N |-> IF n = 0 THEN c ELSE seeded(f[n - 1], n)]
<1>0. N \in Nat /\ c \in X /\ \A n \in 1 .. N : BUILTINS[n] \in Builtins
  BY Table DEF SeedsIn, Good
<1>1. ASSUME NEW x \in X, NEW n \in 1 .. N
      PROVE  /\ seeded(x, n) \in X /\ Exists(seeded(x, n), BUILTINS[n])
             /\ \A a : Exists(x, a) => Exists(seeded(x, n), a)
  <2>1. CASE Exists(x, BUILTINS[n])
    BY <2>1
  <2>2. CASE ~Exists(x, BUILTINS[n])
    <3>1. seeded(x, n) = Apply(x, InsertWrites(x, Seed(BUILTINS[n])))
      BY <2>2 DEF Seed
    <3> HIDE DEF seeded, N
    <3>2. /\ SeedsIn(seeded(x, n)) /\ Exists(seeded(x, n), BUILTINS[n])
          /\ \A a : Exists(x, a) => Exists(seeded(x, n), a)
      BY <3>1, <2>2, <1>0, SeedStep
    <3> QED
      BY <3>2 DEF SeedsIn, Good
  <2> HIDE DEF seeded
  <2> QED
    BY <2>1, <2>2
<1>2. \A x \in X, n \in 1 .. N : step[x][n] = seeded(x, n) /\ step[x][n] \in X
  BY <1>1
<1>3. PICK g \in [0 .. N -> X] : g[0] = c /\ \A n \in 1 .. N : g[n] = step[g[n - 1]][n]
  <2>1. Looped(X, N, c, step)
    <3> HIDE DEF N, X, step
    <3> QED
      BY <1>0, <1>2, Recursion
  <2> QED
    BY <2>1 DEF Looped
<1>4. \A n \in 1 .. N : g[n - 1] \in X /\ g[n] = seeded(g[n - 1], n)
  <2>1. \A n \in 1 .. N : g[n - 1] \in X
    <3>1. \A n \in 1 .. N : n - 1 \in 0 .. N
      BY <1>0
    <3> HIDE DEF X, N
    <3> QED
      BY <3>1, <1>3
  <2> HIDE DEF X, N, step, seeded
  <2> QED
    BY <2>1, <1>2, <1>3
<1> HIDE DEF seeded, X
<1>5. loop(g)
  <2>1. \A n \in 0 .. N : g[n] = IF n = 0 THEN c ELSE seeded(g[n - 1], n)
    BY <1>3, <1>4
  <2>2. g = [n \in 0 .. N |-> g[n]]
    BY <1>3
  <2> QED
    BY <2>1, <2>2
<1> DEFINE h == CHOOSE f : loop(f)
<1>6. loop(h)
  BY <1>5
<1>7. h[0] = c /\ \A n \in 1 .. N : h[n] = seeded(h[n - 1], n)
  <2>1. \A n \in 0 .. N : h[n] = IF n = 0 THEN c ELSE seeded(h[n - 1], n)
    BY <1>6
  <2> QED
    BY <2>1, <1>0
<1>8. \A n \in 0 .. N : g[n] = h[n]
  <2>1. g[0] = h[0] /\ \A n \in 1 .. N : g[n - 1] = h[n - 1] => g[n] = h[n]
    BY <1>3, <1>4, <1>7
  <2> HIDE DEF N, h
  <2>2. Alike(N, g, h)
    BY <2>1 DEF Alike
  <2> QED
    BY <2>2, <1>0, SameLoop
<1>9. Seeded(c) = g[N]
  <2>1. Seeded(c) = h[N]
    BY DEF Seeded, seeded
  <2> QED
    BY <2>1, <1>8, <1>0
<1> DEFINE S == {m \in Nat : m <= N => \A i \in 1 .. m : Exists(g[m], BUILTINS[i])}
<1>10. 0 \in S
  OBVIOUS
<1>11. ASSUME NEW m \in Nat, m \in S PROVE m + 1 \in S
  <2>1. SUFFICES ASSUME m + 1 <= N, NEW i \in 1 .. m + 1 PROVE Exists(g[m + 1], BUILTINS[i])
    OBVIOUS
  <2>2. m + 1 \in 1 .. N /\ m + 1 - 1 = m
    BY <2>1
  <2>3. g[m] \in X /\ g[m + 1] = seeded(g[m], m + 1)
    BY <2>2, <1>4
  <2>4. CASE i = m + 1
    BY <2>2, <2>3, <2>4, <1>1
  <2>5. CASE i # m + 1
    <3>1. i \in 1 .. m /\ m <= N
      BY <2>1, <2>5, <1>0
    <3>2. Exists(g[m], BUILTINS[i])
      BY <3>1, <1>11
    <3> QED
      BY <3>2, <2>2, <2>3, <1>1
  <2> QED
    BY <2>4, <2>5
<1>12. N \in S
  <2> HIDE DEF S
  <2> QED
    BY <1>0, <1>10, <1>11, Induction
<1>13. \A b \in Builtins : Exists(g[N], b)
  BY <1>12, <1>0, Table
<1>14. SeedsIn(g[N])
  BY <1>0, <1>3 DEF X
<1> QED
  BY <1>9, <1>13, <1>14

-----------------------------------------------------------------------------
(* The invariant: versions, requests and the palette file.                  *)

VersionInv ==
    /\ firmware \in Nat \ {0}
    /\ palettes.version \in Nat /\ palettes.version <= firmware
    /\ scenes.version \in Nat /\ scenes.version <= firmware
    /\ acked \in [SceneKeys -> Vals \cup {Absent}]

RequestInv ==
    /\ request.op \in SceneOps =>
          request.key \in SceneKeys /\ (request.op # "remove" => request.val \in Vals)
    /\ request.op \in PaletteOps =>
          /\ request.key \in Keys
          /\ request.op # "removePalette" => request.val \in Vals
          /\ request.op # "createPalette" => request.key \notin Builtins

PaletteInv ==
    /\ SeedsIn(OpenCells(palettes))
    /\ phase # "off" => /\ palettes.version = firmware
                        /\ \A b \in Builtins : Exists(palettes.cells, b)

\* A new file holds nothing.
LEMMA NewFile == Good(<<>>) /\ SlotCount(<<>>) = 0 /\ LiveSlots(<<>>) = {} /\ \A k : ~Exists(<<>>, k)
<1>1. <<>> \in Seq(Cell) /\ Len(<<>>) = 0 /\ SlotCount(<<>>) = 0
  BY DEF SlotCount
<1>2. LiveSlots(<<>>) = {}
  BY <1>1 DEF LiveSlots
<1> QED
  BY <1>1, <1>2 DEF Good, Slots, Exists, Matches

\* ensureOpen.
LEMMA Opened ==
    ASSUME NEW file
    PROVE  /\ file.version = firmware => OpenCells(file) = file.cells
           /\ file.version # firmware => OpenCells(file) = <<>>
  BY DEF OpenCells, EnsureOpen

LEMMA Committed ==
    ASSUME NEW cells
    PROVE  Commit(cells).version = firmware /\ Commit(cells).cells = cells
  BY DEF Commit

LEMMA InitPalettes == Init => VersionInv /\ RequestInv /\ PaletteInv
<1> SUFFICES ASSUME Init PROVE VersionInv /\ RequestInv /\ PaletteInv
  OBVIOUS
<1>1. VersionInv
  <2>1. acked \in [SceneKeys -> Vals \cup {Absent}]
    BY DEF Init, SceneKeys
  <2>2. scenes.version = 0 /\ palettes.version = 0 /\ firmware = 1
    BY DEF Init, NoFile
  <2> QED
    BY <2>1, <2>2 DEF VersionInv
<1>2. RequestInv
  <2>1. request.op = "none"
    BY DEF Init, Idle
  <2> QED
    BY <2>1 DEF RequestInv, SceneOps, PaletteOps
<1>3. PaletteInv
  <2>1. OpenCells(palettes) = <<>>
    BY Opened DEF Init, NoFile
  <2> QED
    BY <2>1, NewFile DEF Init, PaletteInv, SeedsIn
<1> QED
  BY <1>1, <1>2, <1>3

\* Nothing of the palettes is touched.
LEMMA PalettesStay ==
    ASSUME PaletteInv, palettes' = palettes, firmware' = firmware, phase' # "off" => phase # "off"
    PROVE  PaletteInv'
<1>1. OpenCells(palettes)' = OpenCells(palettes)
  BY DEF OpenCells, EnsureOpen
<1> QED
  BY <1>1 DEF PaletteInv

\* What a session of create, update and remove leaves of the built-in palettes.
LEMMA PalettesWritten ==
    ASSUME VersionInv, RequestInv, PaletteInv, PaletteSession
    PROVE  PaletteInv'
<1> DEFINE c == OpenCells(palettes)
           op == PaletteOp(request.op)
           d == Apply(c, StoreWrites(c, op, Rec))
<1>1. phase = "up" /\ request.op \in PaletteOps /\ firmware' = firmware /\ phase' = phase
  BY DEF PaletteSession
<1>2. c = palettes.cells /\ palettes.version = firmware /\ SeedsIn(c) /\ Good(c)
      /\ \A b \in Builtins : Exists(c, b)
  BY <1>1, Opened DEF PaletteInv, SeedsIn
<1>3. op \in SceneOps /\ (op = "remove" <=> request.op = "removePalette")
      /\ (op = "create" <=> request.op = "createPalette")
  BY <1>1 DEF PaletteOps, PaletteOp, SceneOps
<1>4. Rec.key = request.key /\ (op # "remove" => Rec \in Record)
  BY <1>1, <1>3 DEF RequestInv, Rec, Record
<1>5. \/ Accepts(c, op, request.key) /\ palettes' = Commit(d)
      \/ palettes' = Commit(c)
  BY DEF PaletteSession
<1>6. ASSUME NEW e, SeedsIn(e), \A b \in Builtins : Exists(e, b), palettes' = Commit(e)
      PROVE  PaletteInv'
  <2>1. palettes'.version = firmware' /\ palettes'.cells = e
    BY <1>1, <1>6, Committed
  <2>2. OpenCells(palettes)' = e
    BY <2>1 DEF OpenCells, EnsureOpen
  <2>3. SeedsIn(OpenCells(palettes))' 
    BY <1>6, <2>2 DEF SeedsIn
  <2> QED
    BY <1>6, <2>1, <2>3 DEF PaletteInv
<1> HIDE DEF c, op, d
<1>7. CASE Accepts(c, op, request.key) /\ palettes' = Commit(d)
  <2>1. request.key \notin Builtins
    <3>1. CASE op = "create"
      BY <3>1, <1>2, <1>7 DEF Accepts
    <3>2. CASE op # "create"
      BY <3>2, <1>1, <1>3 DEF RequestInv
    <3> QED
      BY <3>1, <3>2
  <2>2. Good(d) /\ \A k : k # Rec.key => (Exists(d, k) <=> Exists(c, k)) /\ Read(d, k) = Read(c, k)
    <3>1. d = Apply(c, StoreWrites(c, op, Rec)) /\ Accepts(c, op, Rec.key)
      BY <1>4, <1>7 DEF d
    <3> QED
      BY <3>1, <1>2, <1>3, <1>4, Stored
  <2>3. \A b \in Builtins : Exists(d, b) /\ Read(d, b) = Seed(b)
    BY <2>1, <2>2, <1>2, <1>4 DEF SeedsIn
  <2> QED
    BY <2>2, <2>3, <1>6, <1>7 DEF SeedsIn
<1>8. CASE palettes' = Commit(c)
  BY <1>2, <1>6, <1>8
<1> QED
  BY <1>5, <1>7, <1>8

\* The boot seeds what is missing.
LEMMA PalettesSeeded ==
    ASSUME PaletteInv, EnsureSeeded
    PROVE  PaletteInv'
<1> DEFINE e == Seeded(OpenCells(palettes))
<1>1. SeedsIn(e) /\ \A b \in Builtins : Exists(e, b)
  BY SeededFound DEF PaletteInv
<1>2. palettes' = Commit(e) /\ firmware' = firmware
  BY DEF EnsureSeeded
<1> HIDE DEF e
<1>3. palettes'.version = firmware' /\ palettes'.cells = e
  BY <1>2, Committed
<1>4. OpenCells(palettes)' = e
  BY <1>3 DEF OpenCells, EnsureOpen
<1>5. SeedsIn(OpenCells(palettes))'
  BY <1>1, <1>4 DEF SeedsIn
<1> QED
  BY <1>1, <1>3, <1>5 DEF PaletteInv

LEMMA PalettesUpgraded ==
    ASSUME VersionInv, Upgrade
    PROVE  PaletteInv'
<1>1. phase' = "off" /\ palettes' = palettes /\ palettes'.version # firmware'
  BY DEF Upgrade, Down, VersionInv
<1>2. OpenCells(palettes)' = <<>>
  BY <1>1 DEF OpenCells, EnsureOpen
<1> QED
  BY <1>1, <1>2, NewFile DEF PaletteInv, SeedsIn

\* The palette file through a step.
LEMMA NextPalettes ==
    ASSUME VersionInv, RequestInv, PaletteInv, [Next]_vars
    PROVE  PaletteInv'
<1>1. CASE EnsureSeeded
  BY <1>1, PalettesSeeded
<1>2. CASE PaletteSession
  BY <1>2, PalettesWritten
<1>3. CASE Upgrade
  BY <1>3, PalettesUpgraded
<1>4. CASE CompactIfFragmented \/ ShrinkRewrite \/ ShrinkFails
  <2>1. palettes' = palettes /\ firmware' = firmware /\ phase # "off"
    BY <1>4 DEF CompactIfFragmented, ShrinkRewrite, ShrinkFails, memory, history
  <2> QED
    BY <2>1, PalettesStay
<1>5. CASE \/ \E id \in SceneIds, val \in Vals : CreateScene(id, val) \/ UpdateScene(id, val)
           \/ \E id \in SceneIds : DeleteScene(id)
           \/ \E val \in Vals : PrepareInline(val)
           \/ SceneSession \/ SceneSessionFull
  <2>1. palettes' = palettes /\ firmware' = firmware /\ phase' = phase
    BY <1>5 DEF CreateScene, UpdateScene, DeleteScene, PrepareInline, SceneSession, SceneSessionFull
  <2> QED
    BY <2>1, PalettesStay
<1>6. CASE \/ \E name \in Builtins \cup UserPalettes, val \in PaletteVals :
                 CheckBuiltin("updatePalette", name, val) \/ PostPalette(name, val)
           \/ \E name \in Builtins \cup UserPalettes : CheckBuiltin("removePalette", name, "none")
           \/ SerializePalette
           \/ \E name \in Builtins \cup UserPalettes : ResolveRead(name)
           \/ ResolveDeserialize
  <2>1. palettes' = palettes /\ firmware' = firmware /\ phase' = phase
    BY <1>6 DEF CheckBuiltin, PostPalette, SerializePalette, ResolveRead, ResolveDeserialize
  <2> QED
    BY <2>1, PalettesStay
<1>7. CASE PowerCut
  BY <1>7, PalettesStay DEF PowerCut, Down
<1>8. CASE UNCHANGED vars
  BY <1>8, PalettesStay DEF vars
<1> QED
  BY <1>1, <1>2, <1>3, <1>4, <1>5, <1>6, <1>7, <1>8 DEF Next

\* Versions and requests through a step.
LEMMA NextRequests ==
    ASSUME VersionInv, RequestInv, [Next]_vars
    PROVE  VersionInv' /\ RequestInv'
<1>1. CASE EnsureSeeded \/ CompactIfFragmented \/ ShrinkRewrite \/ ShrinkFails
  <2>1. /\ request' = request /\ acked' = acked /\ firmware' = firmware
        /\ scenes' = scenes \/ \E e : scenes' = Commit(e)
        /\ palettes' = palettes \/ \E e : palettes' = Commit(e)
    BY <1>1 DEF EnsureSeeded, CompactIfFragmented, ShrinkRewrite, ShrinkFails, Fault, memory, history
  <2>2. /\ scenes'.version \in {scenes.version, firmware}
        /\ palettes'.version \in {palettes.version, firmware}
    BY <2>1, Committed
  <2>3. VersionInv'
    BY <2>1, <2>2 DEF VersionInv
  <2> QED
    BY <2>1, <2>3 DEF RequestInv
<1>2. CASE \/ \E id \in SceneIds, val \in Vals : CreateScene(id, val) \/ UpdateScene(id, val)
           \/ \E id \in SceneIds : DeleteScene(id)
           \/ \E val \in Vals : PrepareInline(val)
  <2>1. UNCHANGED <<scenes, palettes, firmware, acked>>
    BY <1>2 DEF CreateScene, UpdateScene, DeleteScene, PrepareInline, history
  <2>2. PICK op, id, val :
            op \in SceneOps /\ id \in SceneKeys /\ Begin(op, id, val, "session") /\ (op # "remove" => val \in Vals)
    <3>1. ASSUME NEW id \in SceneIds, NEW val \in Vals, CreateScene(id, val) \/ UpdateScene(id, val)
          PROVE  Begin("create", id, val, "session") \/ Begin("update", id, val, "session")
      BY <3>1 DEF CreateScene, UpdateScene
    <3>2. ASSUME NEW id \in SceneIds, DeleteScene(id) PROVE Begin("remove", id, "none", "session")
      BY <3>2 DEF DeleteScene
    <3>3. ASSUME NEW val \in Vals, PrepareInline(val)
          PROVE  Begin("create", OneShot, val, "session") \/ Begin("update", OneShot, val, "session")
      BY <3>3 DEF PrepareInline
    <3>4. SceneIds \subseteq SceneKeys /\ OneShot \in SceneKeys /\ {"create", "update", "remove"} = SceneOps
      BY DEF SceneKeys, SceneOps
    <3> QED
      BY <1>2, <3>1, <3>2, <3>3, <3>4
  <2>3. request'.op = op /\ request'.key = id /\ request'.val = val /\ op \notin PaletteOps
    BY <2>2 DEF Begin, SceneOps, PaletteOps
  <2>4. VersionInv'
    BY <2>1 DEF VersionInv
  <2> QED
    BY <2>2, <2>3, <2>4 DEF RequestInv
<1>3. CASE SceneSession \/ SceneSessionFull \/ PaletteSession
  <2>1. /\ request' = Idle /\ firmware' = firmware
        /\ scenes' = scenes \/ \E e : scenes' = Commit(e)
        /\ palettes' = palettes \/ \E e : palettes' = Commit(e)
    BY <1>3 DEF SceneSession, SceneSessionFull, PaletteSession, history
  <2>2. /\ scenes'.version \in {scenes.version, firmware}
        /\ palettes'.version \in {palettes.version, firmware}
    BY <2>1, Committed
  <2>3. acked' \in [SceneKeys -> Vals \cup {Absent}]
    <3>1. CASE acked' = acked
      BY <3>1 DEF VersionInv
    <3>2. CASE /\ request.op \in SceneOps
               /\ acked' = [acked EXCEPT ![request.key] =
                                IF request.op = "remove" THEN Absent ELSE request.val]
      BY <3>2 DEF VersionInv, RequestInv
    <3> QED
      BY <1>3, <3>1, <3>2 DEF SceneSession, SceneSessionFull, PaletteSession, history
  <2>4. VersionInv'
    BY <2>1, <2>2, <2>3 DEF VersionInv
  <2>5. request'.op = "none"
    BY <2>1 DEF Idle
  <2> QED
    BY <2>4, <2>5 DEF RequestInv, SceneOps, PaletteOps
<1>4. CASE \/ \E name \in Builtins \cup UserPalettes, val \in PaletteVals :
                 CheckBuiltin("updatePalette", name, val) \/ PostPalette(name, val)
           \/ \E name \in Builtins \cup UserPalettes : CheckBuiltin("removePalette", name, "none")
  <2>1. UNCHANGED <<scenes, palettes, firmware, acked>>
    BY <1>4 DEF CheckBuiltin, PostPalette, history
  <2>2. PICK op, name, val, step :
            /\ op \in PaletteOps /\ name \in Builtins \cup UserPalettes
            /\ Begin(op, name, val, step) /\ (op # "removePalette" => val \in PaletteVals)
            /\ op # "createPalette" => name \notin Builtins
    <3>1. ASSUME NEW name \in Builtins \cup UserPalettes, NEW val \in PaletteVals,
                 CheckBuiltin("updatePalette", name, val)
          PROVE  name \notin Builtins /\ Begin("updatePalette", name, val, "checked")
      BY <3>1 DEF CheckBuiltin
    <3>2. ASSUME NEW name \in Builtins \cup UserPalettes, NEW val \in PaletteVals, PostPalette(name, val)
          PROVE  Begin("createPalette", name, val, "checked")
      BY <3>2 DEF PostPalette
    <3>3. ASSUME NEW name \in Builtins \cup UserPalettes, CheckBuiltin("removePalette", name, "none")
          PROVE  name \notin Builtins /\ Begin("removePalette", name, "none", "session")
      BY <3>3 DEF CheckBuiltin
    <3>4. {"createPalette", "updatePalette", "removePalette"} = PaletteOps
      BY DEF PaletteOps
    <3> QED
      BY <1>4, <3>1, <3>2, <3>3, <3>4
  <2>3. request'.op = op /\ request'.key = name /\ request'.val = val /\ op \notin SceneOps
    BY <2>2 DEF Begin, SceneOps, PaletteOps
  <2>4. name \in Keys /\ PaletteVals \subseteq Vals
    BY <2>2, StoreKeys
  <2>5. VersionInv'
    BY <2>1 DEF VersionInv
  <2> QED
    BY <2>2, <2>3, <2>4, <2>5 DEF RequestInv
<1>5. CASE SerializePalette
  <2>1. UNCHANGED <<scenes, palettes, firmware, acked>> /\ request' = [request EXCEPT !.step = "session"]
    BY <1>5 DEF SerializePalette, history
  <2>2. request'.op = request.op /\ request'.key = request.key /\ request'.val = request.val
    BY <2>1
  <2> QED
    BY <2>1, <2>2 DEF VersionInv, RequestInv
<1>6. CASE (\E name \in Builtins \cup UserPalettes : ResolveRead(name)) \/ ResolveDeserialize \/ UNCHANGED vars
  <2>1. UNCHANGED <<scenes, palettes, firmware, acked, request>>
    BY <1>6 DEF ResolveRead, ResolveDeserialize, history, vars
  <2> QED
    BY <2>1 DEF VersionInv, RequestInv
<1>7. CASE PowerCut \/ Upgrade
  <2>1. /\ scenes' = scenes /\ palettes' = palettes /\ firmware' \in {firmware, firmware + 1} /\ request' = Idle
    BY <1>7 DEF PowerCut, Upgrade, Down
  <2>2. acked' = acked \/ acked' = [id \in DOMAIN acked |-> Absent]
    BY <1>7 DEF PowerCut, Upgrade
  <2>3. acked' \in [SceneKeys -> Vals \cup {Absent}]
    BY <2>2 DEF VersionInv
  <2>4. request'.op = "none"
    BY <2>1 DEF Idle
  <2> QED
    BY <2>1, <2>3, <2>4 DEF VersionInv, RequestInv, SceneOps, PaletteOps
<1> QED
  BY <1>1, <1>2, <1>3, <1>4, <1>5, <1>6, <1>7 DEF Next

\* PaletteRepository, isBuiltin: a built-in palette can be resolved, unchanged, from the moment
\* the boot has seeded it, whatever requests, power cuts and upgrades come after.
THEOREM BuiltinsKept == Spec => []BuiltinsStay
<1>1. PaletteInv => BuiltinsStay
  <2> SUFFICES ASSUME PaletteInv, phase # "off", NEW b \in Builtins
               PROVE  Read(palettes.cells, b) = [key |-> b, val |-> SeedVal]
    BY DEF BuiltinsStay
  <2>1. OpenCells(palettes) = palettes.cells /\ Exists(palettes.cells, b)
    BY Opened DEF PaletteInv
  <2> QED
    BY <2>1 DEF PaletteInv, SeedsIn, Seed
<1> QED
  BY InitPalettes, NextPalettes, NextRequests, <1>1, PTL DEF Spec

-----------------------------------------------------------------------------
(* Compaction.                                                              *)

\* Of the live slots up to s with the key of slot t, it is the last.
LastOf(c, s, t) == t <= s /\ \A u \in LiveSlots(c) : u > t /\ u <= s => KeyAt(c, u) # KeyAt(c, t)

\* What compact made of c once it is through slot s: behind what is kept the file is what it
\* was, and of each key found up to there the last record is the last that is kept.
Gathered(c, s, b) ==
    /\ Good(b.cells) /\ SlotCount(b.cells) = SlotCount(c) /\ b.kept \in 0 .. s
    /\ \A t \in Slots(c) : t > b.kept => Same(c, b.cells, t)
    /\ \A n \in 1 .. b.kept :
          /\ b.cells[FlagAt(n)] = ZERO
          /\ \E t \in LiveSlots(c) : t <= s /\ KeyAt(c, t) = KeyAt(b.cells, n)
    /\ \A t \in LiveSlots(c) : LastOf(c, s, t) =>
          \E n \in 1 .. b.kept :
             /\ b.cells[PayloadAt(n)] = c[PayloadAt(t)]
             /\ \A m \in 1 .. b.kept : m > n => KeyAt(b.cells, m) # KeyAt(c, t)
    /\ Unique(c) => \A m, n \in 1 .. b.kept : KeyAt(b.cells, m) = KeyAt(b.cells, n) => m = n

LEMMA NothingGathered ==
    ASSUME NEW c, Good(c), NEW b, b.cells = c, b.kept = 0
    PROVE  Gathered(c, 0, b)
<1>1. \A t \in LiveSlots(c) : ~(t <= 0)
  BY LiveIsZero DEF Slots
<1> QED
  BY <1>1 DEF Gathered, Same, LastOf

\* The live slot s is copied behind what is kept, or it is there already.
LEMMA MovedThere ==
    ASSUME NEW c, Good(c), NEW n \in 1 .. SlotCount(c), NEW s \in LiveSlots(c), n <= s,
           NEW d, d = Moved(c, n, s)
    PROVE  Filled(c, d, n, c[PayloadAt(s)]) /\ SlotCount(d) = SlotCount(c)
<1>1. s \in Slots(c) /\ c[PayloadAt(s)] \in Record /\ n \in Slots(c)
  BY LiveIsZero DEF Good, Slots
<1>2. CASE s = n
  <2>1. d = c
    BY <1>2 DEF Moved
  <2> QED
    BY <2>1, <1>1, <1>2, LiveIsZero DEF Filled, Same
<1>3. CASE s # n
  <2>1. d = Apply(c, WriteLiveRecordSlot(FlagAt(n), c[PayloadAt(s)]))
    BY <1>3 DEF Moved
  <2> QED
    BY <2>1, <1>1, SlotWritten
<1> QED
  BY <1>2, <1>3

\* One slot of the loop of compact.
LEMMA GatheredNext ==
    ASSUME NEW c, Good(c), NEW s \in Slots(c), NEW b, Gathered(c, s - 1, b), NEW e,
           e = IF IsDeleted(b.cells[FlagAt(s)]) THEN b
               ELSE [cells |-> Moved(b.cells, b.kept + 1, s), kept |-> b.kept + 1]
    PROVE  Gathered(c, s, e)
<1> DEFINE N == SlotCount(c)
           a == b.cells
           r == c[PayloadAt(s)]
<1>0. /\ N \in Nat /\ s \in 1 .. N /\ b.kept \in 0 .. s - 1 /\ LiveSlots(c) \subseteq 1 .. N
      /\ Good(a) /\ SlotCount(a) = N
  BY LiveIsZero DEF Gathered, Slots
<1>1. Same(c, a, s) /\ (s \in LiveSlots(c) <=> s \in LiveSlots(a)) /\ (s \in LiveSlots(c) <=> ~IsDeleted(a[FlagAt(s)]))
  <2>1. Same(c, a, s)
    BY <1>0 DEF Gathered, Slots
  <2> QED
    BY <2>1, <1>0 DEF Same, LiveSlots, Slots
<1>2. CASE s \notin LiveSlots(c)
  <2>1. e = b
    BY <1>1, <1>2
  <2>2. \A t \in LiveSlots(c) : (LastOf(c, s, t) => LastOf(c, s - 1, t)) /\ (t <= s - 1 => t <= s)
    BY <1>0, <1>2 DEF LastOf
  <2>3. b.kept \in 0 .. s
    BY <1>0
  <2> QED
    BY <2>1, <2>2, <2>3 DEF Gathered
<1>3. CASE s \in LiveSlots(c)
  <2> DEFINE n == b.kept + 1
             d == Moved(a, n, s)
  <2>1. e.cells = d /\ e.kept = n
    BY <1>1, <1>3
  <2>2. n \in 1 .. s /\ n \in 1 .. N /\ n <= s
    BY <1>0
  <2>3. Filled(a, d, n, a[PayloadAt(s)]) /\ SlotCount(d) = N
    <3>1. n \in 1 .. SlotCount(a)
      BY <2>2, <1>0
    <3> HIDE DEF n
    <3> QED
      BY <3>1, <2>2, <1>0, <1>1, <1>3, MovedThere
  <2>4. a[PayloadAt(s)] = r
    BY <1>1 DEF Same
  <2>5. /\ Good(d) /\ d[FlagAt(n)] = ZERO /\ d[PayloadAt(n)] = r
        /\ \A t \in Slots(d) \ {n} : t \in Slots(a) /\ Same(a, d, t)
    BY <2>3, <2>4 DEF Filled
  <2> HIDE DEF d
  <2>6. \A t \in 1 .. N : t # n => d[FlagAt(t)] = a[FlagAt(t)] /\ d[PayloadAt(t)] = a[PayloadAt(t)]
    BY <2>3, <2>5 DEF Same, Slots
  <2>7. \A t \in Slots(c) : t > n => Same(c, d, t)
    <3>1. ASSUME NEW t \in Slots(c), t > n PROVE Same(c, d, t)
      <4>1. t \in 1 .. N /\ t # n /\ t > b.kept
        BY <3>1, <1>0 DEF Slots
      <4>2. Same(c, a, t)
        BY <4>1, <3>1 DEF Gathered
      <4> QED
        BY <4>1, <4>2, <2>6 DEF Same
    <3> QED
      BY <3>1
  <2>8. \A m \in 1 .. n : m = n \/ m \in 1 .. b.kept
    BY <1>0
  <2>9. \A m \in 1 .. b.kept : m # n /\ m \in 1 .. N /\ m \in 1 .. n /\ ~(m > n)
    BY <1>0
  <2>10. KeyAt(d, n) = KeyAt(c, s) /\ \A m \in 1 .. b.kept : KeyAt(d, m) = KeyAt(a, m) /\ d[PayloadAt(m)] = a[PayloadAt(m)]
    BY <2>5, <2>6, <2>9 DEF KeyAt
  <2>11. ASSUME NEW m \in 1 .. n
         PROVE  d[FlagAt(m)] = ZERO /\ \E t \in LiveSlots(c) : t <= s /\ KeyAt(c, t) = KeyAt(d, m)
    <3>1. CASE m = n
      <4>1. s <= s
        BY <1>0
      <4> QED
        BY <3>1, <4>1, <1>3, <2>5, <2>10
    <3>2. CASE m \in 1 .. b.kept
      <4>1. a[FlagAt(m)] = ZERO /\ \E t \in LiveSlots(c) : t <= s - 1 /\ KeyAt(c, t) = KeyAt(a, m)
        BY <3>2 DEF Gathered
      <4>2. \A t \in LiveSlots(c) : t <= s - 1 => t <= s
        BY <1>0
      <4> QED
        BY <4>1, <4>2, <3>2, <2>6, <2>9, <2>10
    <3> QED
      BY <3>1, <3>2, <2>8
  <2>12. ASSUME NEW t \in LiveSlots(c), LastOf(c, s, t)
         PROVE  \E i \in 1 .. n : /\ d[PayloadAt(i)] = c[PayloadAt(t)]
                                  /\ \A m \in 1 .. n : m > i => KeyAt(d, m) # KeyAt(c, t)
    <3>1. CASE t = s
      <4>1. n \in 1 .. n /\ \A m \in 1 .. n : ~(m > n)
        BY <2>2
      <4> QED
        BY <3>1, <4>1, <2>5
    <3>2. CASE t # s
      <4>1. t <= s - 1 /\ s > t /\ s <= s
        BY <3>2, <2>12, <1>0 DEF LastOf
      <4>2. KeyAt(c, s) # KeyAt(c, t)
        BY <4>1, <2>12, <1>3 DEF LastOf
      <4>3. LastOf(c, s - 1, t)
        BY <4>1, <2>12, <1>0 DEF LastOf
      <4>4. PICK i \in 1 .. b.kept :
               /\ a[PayloadAt(i)] = c[PayloadAt(t)]
               /\ \A m \in 1 .. b.kept : m > i => KeyAt(a, m) # KeyAt(c, t)
        BY <4>3 DEF Gathered
      <4>5. i \in 1 .. n /\ d[PayloadAt(i)] = c[PayloadAt(t)]
        BY <4>4, <2>9, <2>10
      <4>6. \A m \in 1 .. n : m > i => KeyAt(d, m) # KeyAt(c, t)
        BY <4>2, <4>4, <2>8, <2>10
      <4> QED
        BY <4>5, <4>6
    <3> QED
      BY <3>1, <3>2
  <2>13. ASSUME Unique(c), NEW i \in 1 .. n, NEW m \in 1 .. n, KeyAt(d, i) = KeyAt(d, m)
         PROVE  i = m
    <3>1. ASSUME NEW j \in 1 .. b.kept PROVE KeyAt(d, j) # KeyAt(c, s)
      <4>1. PICK t \in LiveSlots(c) : t <= s - 1 /\ KeyAt(c, t) = KeyAt(d, j)
        BY <2>10 DEF Gathered
      <4>2. t # s
        BY <4>1, <1>0
      <4> QED
        BY <4>1, <4>2, <1>3, <2>13 DEF Unique
    <3>2. \A j, l \in 1 .. b.kept : KeyAt(a, j) = KeyAt(a, l) => j = l
      BY <2>13 DEF Gathered
    <3> QED
      BY <3>1, <3>2, <2>8, <2>10, <2>13
  <2>14. n \in 0 .. s
    BY <2>2
  <2> HIDE DEF n
  <2> QED
    BY <2>1, <2>3, <2>5, <2>7, <2>11, <2>12, <2>13, <2>14 DEF Gathered
<1> QED
  BY <1>2, <1>3

\* The loop of compact, from the first slot to the last.
LEMMA Compacts ==
    ASSUME NEW c, Good(c)
    PROVE  Gathered(c, SlotCount(c), Compacted(c))
<1> DEFINE N == SlotCount(c)
           X == {x \in [cells : Seq(Cell), kept : Nat] : Len(x.cells) >= 2 * N}
           gathered(x, s) == IF IsDeleted(x.cells[FlagAt(s)]) THEN x
                             ELSE [cells |-> Moved(x.cells, x.kept + 1, s), kept |-> x.kept + 1]
           x0 == [cells |-> c, kept |-> 0]
           step == [x \in X |-> [s \in 1 .. N |-> gathered(x, s)]]
           loop(f) == f = [s \in 0 .. N |-> IF s = 0 THEN x0 ELSE gathered(f[s - 1], s)]
<1>0. N \in Nat /\ x0 \in X
  BY LiveIsZero DEF Good
<1>1. ASSUME NEW x \in X, NEW s \in 1 .. N PROVE gathered(x, s) \in X
  <2> DEFINE a == x.cells
             n == x.kept + 1
             v == [at |-> FlagAt(n), cell |-> ZERO]
             w == [at |-> FlagAt(n) + 1, cell |-> a[PayloadAt(s)]]
  <2>1. a \in Seq(Cell) /\ Len(a) >= 2 * N /\ n \in Nat \ {0} /\ Len(a) \in Nat
    OBVIOUS
  <2>2. PayloadAt(s) \in 1 .. Len(a)
    <3> HIDE DEF X, a, n, N
    <3> QED
      BY <1>0, <1>1, <2>1 DEF PayloadAt
  <2>3. v \in Writes /\ w \in Writes
    <3>1. FlagAt(n) \in Nat \ {0} /\ FlagAt(n) + 1 \in Nat \ {0}
      BY <2>1 DEF FlagAt
    <3>2. ZERO \in Cell /\ a[PayloadAt(s)] \in Cell
      BY <2>1, <2>2 DEF Cell
    <3> QED
      BY <3>1, <3>2 DEF Writes
  <2>4. Apply(a, WriteLiveRecordSlot(FlagAt(n), a[PayloadAt(s)])) = Write(Write(a, v), w)
    BY <2>1, <2>3, ApplyTwo DEF WriteLiveRecordSlot
  <2>5. Moved(a, n, s) = a \/ Moved(a, n, s) = Write(Write(a, v), w)
    BY <2>4 DEF Moved
  <2> HIDE DEF v, w, a, n, N
  <2> DEFINE L == 2 * N
  <2>a. L \in Nat
    BY <1>0
  <2> HIDE DEF L
  <2>b. ASSUME NEW y \in Seq(Cell), NEW u \in Writes, Len(y) >= L
        PROVE  Write(y, u) \in Seq(Cell) /\ Len(Write(y, u)) >= L
    <3>1. Write(y, u) \in Seq(Cell) /\ Len(Write(y, u)) \in {Len(y), Len(y) + 1} /\ Len(y) \in Nat
      BY <2>b, Written
    <3> QED
      BY <3>1, <2>a, <2>b
  <2>6. Write(a, v) \in Seq(Cell) /\ Len(Write(a, v)) >= L
    BY <2>1, <2>3, <2>b DEF L
  <2>7. Write(Write(a, v), w) \in Seq(Cell) /\ Len(Write(Write(a, v), w)) >= 2 * N
    BY <2>6, <2>3, <2>b DEF L
  <2>8. Moved(a, n, s) \in Seq(Cell) /\ Len(Moved(a, n, s)) >= 2 * N
    BY <2>1, <2>5, <2>7
  <2> QED
    BY <2>8, <2>1 DEF a, n
<1>2. \A x \in X, s \in 1 .. N : step[x][s] = gathered(x, s) /\ step[x][s] \in X
  BY <1>1
<1>3. PICK g \in [0 .. N -> X] : g[0] = x0 /\ \A s \in 1 .. N : g[s] = step[g[s - 1]][s]
  <2>1. Looped(X, N, x0, step)
    <3> HIDE DEF N, X, step, x0
    <3> QED
      BY <1>0, <1>2, Recursion
  <2> QED
    BY <2>1 DEF Looped
<1>4. \A s \in 1 .. N : g[s] = gathered(g[s - 1], s)
  <2>1. \A s \in 1 .. N : s - 1 \in 0 .. N
    BY <1>0
  <2> HIDE DEF X, N, step, gathered
  <2> QED
    BY <2>1, <1>2, <1>3
<1> HIDE DEF gathered, X, x0
<1>5. loop(g)
  <2>1. \A s \in 0 .. N : g[s] = IF s = 0 THEN x0 ELSE gathered(g[s - 1], s)
    BY <1>3, <1>4
  <2>2. g = [s \in 0 .. N |-> g[s]]
    BY <1>3
  <2> QED
    BY <2>1, <2>2
<1> DEFINE h == CHOOSE f : loop(f)
<1>6. loop(h)
  BY <1>5
<1>7. h[0] = x0 /\ \A s \in 1 .. N : h[s] = gathered(h[s - 1], s)
  <2>1. \A s \in 0 .. N : h[s] = IF s = 0 THEN x0 ELSE gathered(h[s - 1], s)
    BY <1>6
  <2> QED
    BY <2>1, <1>0
<1>8. Compacted(c) = h[N]
  BY DEF Compacted, gathered, x0
<1> HIDE DEF h
<1> DEFINE S == {m \in Nat : m <= N => Gathered(c, m, h[m])}
<1>9. 0 \in S
  BY <1>7, NothingGathered DEF x0
<1>10. ASSUME NEW m \in Nat, m \in S PROVE m + 1 \in S
  <2>1. SUFFICES ASSUME m + 1 <= N PROVE Gathered(c, m + 1, h[m + 1])
    OBVIOUS
  <2>2. m + 1 \in 1 .. N /\ m + 1 - 1 = m /\ m + 1 \in Slots(c)
    BY <2>1, <1>0 DEF Slots
  <2>3. Gathered(c, m + 1 - 1, h[m])
    BY <1>10, <2>1, <2>2, <1>0
  <2>4. h[m + 1] = gathered(h[m], m + 1)
    BY <1>7, <2>2
  <2> HIDE DEF S, N
  <2> QED
    BY <2>2, <2>3, <2>4, GatheredNext DEF gathered
<1>11. N \in S
  <2> HIDE DEF S, N
  <2> QED
    BY <1>0, <1>9, <1>10, Induction
<1> QED
  BY <1>0, <1>8, <1>11

\* The first slots of a file.
LEMMA Shrunk ==
    ASSUME NEW c, Good(c), NEW n \in 0 .. SlotCount(c), NEW d, d = Shrink(c, n)
    PROVE  Good(d) /\ SlotCount(d) = n /\ \A s \in 1 .. n : Same(c, d, s)
<1>0. c \in Seq(Cell) /\ SlotCount(c) \in Nat /\ Len(c) = 2 * SlotCount(c) /\ n \in Nat
  BY LiveIsZero DEF Good
<1>1. 2 * n \in 0 .. Len(c)
  BY <1>0
<1>2. d \in Seq(Cell) /\ Len(d) = 2 * n /\ \A i \in 1 .. 2 * n : d[i] = c[i]
  <2>1. d = SubSeq(c, 1, 2 * n)
    BY DEF Shrink
  <2> DEFINE m == 2 * n
  <2>2. m \in 0 .. Len(c)
    BY <1>1
  <2> HIDE DEF m
  <2>3. SubSeq(c, 1, m) \in Seq(Cell) /\ Len(SubSeq(c, 1, m)) = m /\ \A i \in 1 .. m : SubSeq(c, 1, m)[i] = c[i]
    BY <1>0, <2>2
  <2> QED
    BY <2>1, <2>3 DEF m
<1>3. ASSUME NEW s \in 1 .. n PROVE Same(c, d, s) /\ s \in Slots(c)
  <2>1. FlagAt(s) \in 1 .. 2 * n /\ PayloadAt(s) \in 1 .. 2 * n /\ s \in Slots(c)
    BY <1>0 DEF FlagAt, PayloadAt, Slots
  <2> QED
    BY <2>1, <1>2 DEF Same
<1>4. \A s \in 1 .. n : d[FlagAt(s)] \in {ZERO, DELETED} /\ d[PayloadAt(s)] \in Record
  BY <1>3 DEF Same, Good
<1> QED
  BY <1>0, <1>2, <1>3, <1>4, StaysGood

\* Compacted, with the copies still behind what is kept and without them: the lookups find what
\* they found before.
LEMMA GatheredReads ==
    ASSUME NEW c, Good(c), NEW b, Gathered(c, SlotCount(c), b), NEW d, d = Shrink(b.cells, b.kept)
    PROVE  /\ Good(b.cells) /\ b.kept \in 0 .. SlotCount(b.cells)
           /\ Good(d) /\ LiveSlots(d) = 1 .. b.kept
           /\ \A n \in 1 .. b.kept : n \in LiveSlots(b.cells)
           /\ \A k : Read(b.cells, k) = Read(c, k) /\ Read(d, k) = Read(c, k)
           /\ \A K : KeysIn(c, K) => KeysIn(b.cells, K) /\ KeysIn(d, K)
           /\ Unique(c) => Unique(d)
<1> DEFINE N == SlotCount(c)
           a == b.cells
           n == b.kept
<1>0. N \in Nat /\ n \in 0 .. N /\ Good(a) /\ SlotCount(a) = N
  BY LiveIsZero DEF Gathered
<1>1. Good(d) /\ SlotCount(d) = n /\ \A s \in 1 .. n : Same(a, d, s)
  BY <1>0, Shrunk
<1>2. \A s \in 1 .. n : s \in Slots(a) /\ s \in LiveSlots(a) /\ s \in LiveSlots(d) /\ KeyAt(d, s) = KeyAt(a, s)
  <2>1. ASSUME NEW s \in 1 .. n PROVE s \in Slots(a) /\ s \in Slots(d) /\ a[FlagAt(s)] = ZERO
    BY <1>0, <1>1 DEF Slots, Gathered
  <2> QED
    BY <2>1, <1>0, <1>1, LiveIsZero DEF Same, KeyAt
<1>3. LiveSlots(d) = 1 .. n
  BY <1>1, <1>2, LiveIsZero DEF Slots
<1>a. LiveSlots(c) \subseteq 1 .. N
  BY LiveIsZero DEF Slots
<1>b. \A k : \A s \in Matches(d, k) : s \in 1 .. n /\ KeyAt(a, s) = k
  BY <1>2, <1>3 DEF Matches, KeyAt
<1>4. \A s \in LiveSlots(a) : s \in 1 .. n \/ (s > n /\ s \in LiveSlots(c) /\ a[PayloadAt(s)] = c[PayloadAt(s)])
  <2>1. ASSUME NEW s \in LiveSlots(a), s \notin 1 .. n
        PROVE  s > n /\ s \in LiveSlots(c) /\ a[PayloadAt(s)] = c[PayloadAt(s)]
    <3>1. s \in Slots(a) /\ a[FlagAt(s)] = ZERO
      BY <1>0, LiveIsZero
    <3>2. s > n /\ s \in Slots(c)
      BY <3>1, <2>1, <1>0 DEF Slots
    <3>3. Same(c, a, s)
      BY <3>2 DEF Gathered
    <3> QED
      BY <3>1, <3>2, <3>3, LiveIsZero DEF Same
  <2> QED
    BY <2>1
<1>5. \A s \in LiveSlots(c) : s > n => s \in LiveSlots(a) /\ a[PayloadAt(s)] = c[PayloadAt(s)]
  <2>1. ASSUME NEW s \in LiveSlots(c), s > n PROVE s \in LiveSlots(a) /\ a[PayloadAt(s)] = c[PayloadAt(s)]
    <3>1. s \in Slots(c) /\ c[FlagAt(s)] = ZERO /\ s \in Slots(a)
      BY <1>0, LiveIsZero DEF Slots
    <3>2. Same(c, a, s)
      BY <3>1, <2>1 DEF Gathered
    <3> QED
      BY <3>1, <3>2, <1>0, LiveIsZero DEF Same
  <2> QED
    BY <2>1
<1>6. \A s \in 1 .. n : \E t \in LiveSlots(c) : KeyAt(c, t) = KeyAt(a, s)
  BY DEF Gathered
<1> HIDE DEF a, n, N
<1>7. ASSUME NEW k, ~Exists(c, k) PROVE Read(a, k) = Read(c, k) /\ Read(d, k) = Read(c, k)
  <2>1. \A t \in LiveSlots(c) : KeyAt(c, t) # k
    BY <1>7, IsMatch DEF Exists
  <2>2. \A s \in 1 .. n : KeyAt(a, s) # k
    BY <2>1, <1>6
  <2>3. \A s \in LiveSlots(a) : KeyAt(a, s) # k
    BY <2>1, <2>2, <1>4 DEF KeyAt
  <2>4. ~Exists(a, k) /\ ~Exists(d, k)
    BY <2>2, <2>3, <1>b, IsMatch DEF Exists
  <2> QED
    BY <2>4, <1>7 DEF Read
<1>8. ASSUME NEW k, Exists(c, k) PROVE Read(a, k) = Read(c, k) /\ Read(d, k) = Read(c, k)
  <2> DEFINE t == FindSlot(c, k)
  <2>1. /\ t \in LiveSlots(c) /\ KeyAt(c, t) = k /\ Read(c, k) = c[PayloadAt(t)]
        /\ \A u \in Matches(c, k) : u <= t
    BY <1>8, LastMatch, IsMatch
  <2> HIDE DEF t
  <2>2. LastOf(c, N, t)
    <3>1. t \in 1 .. N /\ \A u \in LiveSlots(c) : u \in 1 .. N
      BY <2>1, <1>a
    <3>2. \A u \in LiveSlots(c) : KeyAt(c, u) = k => u <= t
      BY <2>1, IsMatch
    <3> QED
      BY <3>1, <3>2, <2>1 DEF LastOf
  <2>3. PICK i \in 1 .. n : /\ a[PayloadAt(i)] = c[PayloadAt(t)]
                            /\ \A m \in 1 .. n : m > i => KeyAt(a, m) # k
    BY <2>1, <2>2 DEF Gathered, a, n, N
  <2>4. i \in LiveSlots(a) /\ i \in LiveSlots(d) /\ KeyAt(a, i) = k /\ KeyAt(d, i) = k /\ i \in Nat
    BY <2>1, <2>3, <1>0, <1>2 DEF KeyAt
  <2>5. Read(d, k) = d[PayloadAt(i)]
    <3>1. ASSUME NEW m \in Matches(d, k) PROVE m <= i
      <4>1. m \in 1 .. n /\ KeyAt(a, m) = k
        BY <1>b
      <4>2. ~(m > i)
        BY <4>1, <2>3
      <4> QED
        BY <4>1, <4>2, <2>4, <1>0
    <3>2. i \in Matches(d, k)
      BY <2>4, IsMatch
    <3> QED
      BY <3>1, <3>2, <1>1, FoundAt
  <2>6. d[PayloadAt(i)] = a[PayloadAt(i)]
    BY <1>1 DEF Same
  <2>7. CASE t > n
    <3>1. t \in LiveSlots(a) /\ a[PayloadAt(t)] = c[PayloadAt(t)] /\ t \in Nat
      BY <2>1, <2>7, <1>5, LiveIsZero DEF Slots
    <3>2. t \in Matches(a, k)
      BY <3>1, <2>1, IsMatch DEF KeyAt
    <3>3. ASSUME NEW m \in Matches(a, k) PROVE m <= t
      <4>1. m \in LiveSlots(a) /\ KeyAt(a, m) = k
        BY IsMatch
      <4>2. CASE m \in 1 .. n
        BY <4>2, <2>7, <3>1, <1>0
      <4>3. CASE m \notin 1 .. n
        BY <4>1, <4>3, <1>4, <2>1, IsMatch DEF KeyAt
      <4> QED
        BY <4>2, <4>3
    <3>4. Read(a, k) = a[PayloadAt(t)]
      BY <3>2, <3>3, <1>0, FoundAt
    <3> QED
      BY <3>1, <3>4, <2>1, <2>3, <2>5, <2>6
  <2>8. CASE ~(t > n)
    <3>1. i \in Matches(a, k)
      BY <2>4, IsMatch
    <3>2. ASSUME NEW m \in Matches(a, k) PROVE m <= i
      <4>1. m \in LiveSlots(a) /\ KeyAt(a, m) = k /\ t \in Nat
        BY <2>1, IsMatch, LiveIsZero DEF Slots
      <4>2. CASE m \in 1 .. n
        <5>1. ~(m > i)
          BY <4>1, <4>2, <2>3
        <5> QED
          BY <5>1, <4>2, <2>4, <1>0
      <4>3. CASE m \notin 1 .. n
        <5>1. m > n /\ m \in Matches(c, k)
          BY <4>1, <4>3, <1>4, IsMatch DEF KeyAt
        <5>2. m <= t /\ m \in Nat
          BY <5>1, <2>1, IsMatch, LiveIsZero DEF Slots
        <5> QED
          BY <5>1, <5>2, <4>1, <2>8, <1>0
      <4> QED
        BY <4>2, <4>3
    <3>3. Read(a, k) = a[PayloadAt(i)]
      BY <3>1, <3>2, <1>0, FoundAt
    <3> QED
      BY <3>3, <2>1, <2>3, <2>5, <2>6
  <2> QED
    BY <2>7, <2>8
<1>9. ASSUME NEW K, KeysIn(c, K) PROVE KeysIn(a, K) /\ KeysIn(d, K)
  <2>1. \A s \in 1 .. n : KeyAt(a, s) \in K
    BY <1>6, <1>9 DEF KeysIn
  <2>2. \A s \in LiveSlots(a) : KeyAt(a, s) \in K
    BY <2>1, <1>4, <1>9 DEF KeysIn, KeyAt
  <2> QED
    BY <2>1, <2>2, <1>2, <1>3 DEF KeysIn
<1>10. ASSUME Unique(c) PROVE Unique(d)
  <2>1. \A m, i \in 1 .. n : KeyAt(a, m) = KeyAt(a, i) => m = i
    BY <1>10 DEF Gathered, a, n
  <2> QED
    BY <2>1, <1>2, <1>3 DEF Unique
<1>11. n \in 0 .. SlotCount(a)
  BY <1>0
<1> QED
  BY <1>0, <1>1, <1>2, <1>3, <1>7, <1>8, <1>9, <1>10, <1>11 DEF a, n

\* Where nothing live is left behind what is kept, the copies are all there is.
LEMMA NothingBehind ==
    ASSUME NEW c, Good(c), NEW n \in 0 .. SlotCount(c), \A s \in 1 .. n : s \in LiveSlots(c),
           \A s \in LiveSlots(c) : ~(s > n), Unique(Shrink(c, n))
    PROVE  Unique(c)
<1> DEFINE d == Shrink(c, n)
<1>1. Good(d) /\ SlotCount(d) = n /\ \A s \in 1 .. n : Same(c, d, s)
  BY Shrunk
<1> HIDE DEF d
<1>2. \A s \in LiveSlots(c) : s \in 1 .. n
  BY LiveIsZero DEF Slots
<1>3. \A s \in 1 .. n : s \in LiveSlots(d) /\ KeyAt(d, s) = KeyAt(c, s)
  <2>1. \A s \in 1 .. n : c[FlagAt(s)] = ZERO /\ s \in Slots(d)
    BY <1>1, LiveIsZero DEF Slots
  <2> QED
    BY <2>1, <1>1, LiveIsZero DEF Same, KeyAt
<1>4. Unique(d)
  BY DEF d
<1> QED
  BY <1>2, <1>3, <1>4 DEF Unique

-----------------------------------------------------------------------------
(* The list of what a file holds.                                           *)

\* The list after the slots up to s.
Lists(c, hidden, s, list) ==
    /\ list \in Seq(Keys)
    /\ \A i \in 1 .. Len(list) :
          list[i] # hidden /\ \E t \in LiveSlots(c) : t <= s /\ KeyAt(c, t) = list[i]
    /\ \A t \in LiveSlots(c) : t <= s /\ KeyAt(c, t) # hidden =>
          \E i \in 1 .. Len(list) : list[i] = KeyAt(c, t)
    /\ \A i, j \in 1 .. Len(list) : list[i] = list[j] => i = j

\* One slot of foreachMeta.
LEMMA ListsNext ==
    ASSUME NEW c, Good(c), Unique(c), NEW hidden, NEW s \in Slots(c), NEW a, Lists(c, hidden, s - 1, a),
           NEW e, e = IF s \in LiveSlots(c) /\ c[PayloadAt(s)].key # hidden
                      THEN Append(a, c[PayloadAt(s)].key) ELSE a
    PROVE  Lists(c, hidden, s, e)
<1>0. /\ a \in Seq(Keys) /\ Len(a) \in Nat /\ s \in Nat
      /\ \A t \in LiveSlots(c) : t \in Nat /\ (t <= s <=> t <= s - 1 \/ t = s) /\ ~(s <= s - 1)
  BY LiveIsZero DEF Lists, Slots
<1>1. CASE ~(s \in LiveSlots(c) /\ KeyAt(c, s) # hidden)
  <2>1. e = a
    BY <1>1 DEF KeyAt
  <2> QED
    BY <2>1, <1>0, <1>1 DEF Lists
<1>2. CASE s \in LiveSlots(c) /\ KeyAt(c, s) # hidden
  <2> DEFINE k == KeyAt(c, s)
             n == Len(a)
  <2>1. e = Append(a, k)
    BY <1>2 DEF KeyAt
  <2>2. k \in Keys
    <3>1. c[PayloadAt(s)] \in Record
      BY DEF Good
    <3> QED
      BY <3>1 DEF Record, KeyAt
  <2>3. /\ e \in Seq(Keys) /\ Len(e) = n + 1 /\ e[n + 1] = k
        /\ \A i \in 1 .. n : e[i] = a[i]
    <3> HIDE DEF k
    <3> QED
      BY <2>1, <2>2, <1>0
  <2>4. \A i \in 1 .. n + 1 : i = n + 1 \/ i \in 1 .. n
    BY <1>0
  <2>5. \A i \in 1 .. n : i \in 1 .. n + 1 /\ i # n + 1
    BY <1>0
  <2>6. n + 1 \in 1 .. n + 1
    BY <1>0
  <2>7. \A i \in 1 .. n : a[i] # k
    <3>1. ASSUME NEW i \in 1 .. n PROVE a[i] # k
      <4>1. PICK t \in LiveSlots(c) : t <= s - 1 /\ KeyAt(c, t) = a[i]
        BY DEF Lists
      <4>2. t # s
        BY <4>1, <1>0
      <4> QED
        BY <4>1, <4>2, <1>2 DEF Unique
    <3> QED
      BY <3>1
  <2> HIDE DEF k, n
  <2>8. ASSUME NEW i \in 1 .. n + 1
        PROVE  e[i] # hidden /\ \E t \in LiveSlots(c) : t <= s /\ KeyAt(c, t) = e[i]
    <3>1. CASE i = n + 1
      BY <3>1, <1>0, <1>2, <2>3 DEF k
    <3>2. CASE i \in 1 .. n
      <4>1. a[i] # hidden /\ \E t \in LiveSlots(c) : t <= s - 1 /\ KeyAt(c, t) = a[i]
        BY <3>2 DEF Lists, n
      <4> QED
        BY <4>1, <3>2, <2>3, <1>0
    <3> QED
      BY <3>1, <3>2, <2>4
  <2>9. ASSUME NEW t \in LiveSlots(c), t <= s, KeyAt(c, t) # hidden
        PROVE  \E i \in 1 .. n + 1 : e[i] = KeyAt(c, t)
    <3>1. CASE t = s
      BY <3>1, <2>3, <2>6 DEF k
    <3>2. CASE t <= s - 1
      <4>1. \E i \in 1 .. n : a[i] = KeyAt(c, t)
        BY <3>2, <2>9 DEF Lists, n
      <4> QED
        BY <4>1, <2>3, <2>5
    <3> QED
      BY <3>1, <3>2, <2>9, <1>0
  <2>10. ASSUME NEW i \in 1 .. n + 1, NEW j \in 1 .. n + 1, e[i] = e[j] PROVE i = j
    <3>1. \A l, m \in 1 .. n : a[l] = a[m] => l = m
      BY DEF Lists, n
    <3> QED
      BY <3>1, <2>3, <2>4, <2>7, <2>10
  <2> QED
    BY <2>3, <2>8, <2>9, <2>10 DEF Lists
<1> QED
  BY <1>1, <1>2

\* foreachMeta, from the first slot to the last.
LEMMA Listed ==
    ASSUME NEW c, Good(c), Unique(c), NEW hidden
    PROVE  Lists(c, hidden, SlotCount(c), Listing(c, hidden))
<1> DEFINE N == SlotCount(c)
           X == Seq(Keys)
           listed(x, s) == IF s \in LiveSlots(c) /\ c[PayloadAt(s)].key # hidden
                           THEN Append(x, c[PayloadAt(s)].key) ELSE x
           step == [x \in X |-> [s \in 1 .. N |-> listed(x, s)]]
           loop(f) == f = [s \in 0 .. N |-> IF s = 0 THEN <<>>
                              ELSE IF s \in LiveSlots(c) /\ c[PayloadAt(s)].key # hidden
                              THEN Append(f[s - 1], c[PayloadAt(s)].key) ELSE f[s - 1]]
<1>0. N \in Nat /\ <<>> \in X
  BY LiveIsZero
<1>1. \A x \in X, s \in 1 .. N : step[x][s] = listed(x, s) /\ step[x][s] \in X
  <2>1. \A s \in 1 .. N : c[PayloadAt(s)].key \in Keys
    BY DEF Good, Slots, Record
  <2> QED
    BY <2>1
<1>2. PICK g \in [0 .. N -> X] : g[0] = <<>> /\ \A s \in 1 .. N : g[s] = step[g[s - 1]][s]
  <2>1. Looped(X, N, <<>>, step)
    <3> HIDE DEF N, X, step
    <3> QED
      BY <1>0, <1>1, Recursion
  <2> QED
    BY <2>1 DEF Looped
<1>3. \A s \in 1 .. N : g[s] = listed(g[s - 1], s)
  <2>1. \A s \in 1 .. N : s - 1 \in 0 .. N
    BY <1>0
  <2> HIDE DEF X, N, step, listed
  <2> QED
    BY <2>1, <1>1, <1>2
<1>4. loop(g)
  <2>1. \A s \in 0 .. N : g[s] = IF s = 0 THEN <<>> ELSE listed(g[s - 1], s)
    <3> HIDE DEF listed
    <3> QED
      BY <1>2, <1>3
  <2>2. g = [s \in 0 .. N |-> g[s]]
    BY <1>2
  <2> QED
    BY <2>1, <2>2
<1> DEFINE h == CHOOSE f : loop(f)
<1>5. loop(h)
  BY <1>4
<1>6. h[0] = <<>> /\ \A s \in 1 .. N : h[s] = listed(h[s - 1], s)
  <2>1. \A s \in 0 .. N : h[s] = IF s = 0 THEN <<>> ELSE listed(h[s - 1], s)
    BY <1>5
  <2> HIDE DEF listed, h
  <2> QED
    BY <2>1, <1>0
<1>7. Listing(c, hidden) = h[N]
  BY DEF Listing
<1> HIDE DEF h
<1> DEFINE S == {m \in Nat : m <= N => Lists(c, hidden, m, h[m])}
<1>8. 0 \in S
  <2>1. \A t \in LiveSlots(c) : ~(t <= 0)
    BY LiveIsZero DEF Slots
  <2>2. Lists(c, hidden, 0, <<>>)
    BY <2>1 DEF Lists
  <2> QED
    BY <2>2, <1>6
<1>9. ASSUME NEW m \in Nat, m \in S PROVE m + 1 \in S
  <2>1. SUFFICES ASSUME m + 1 <= N PROVE Lists(c, hidden, m + 1, h[m + 1])
    OBVIOUS
  <2>2. m + 1 \in 1 .. N /\ m + 1 - 1 = m /\ m + 1 \in Slots(c)
    BY <2>1, <1>0 DEF Slots
  <2>3. Lists(c, hidden, m + 1 - 1, h[m])
    BY <1>9, <2>1, <2>2, <1>0
  <2>4. h[m + 1] = listed(h[m], m + 1)
    BY <1>6, <2>2
  <2> DEFINE t == m + 1
             e == h[t]
             a == h[m]
  <2>5. e = IF t \in LiveSlots(c) /\ c[PayloadAt(t)].key # hidden THEN Append(a, c[PayloadAt(t)].key) ELSE a
    BY <2>4
  <2>6. t \in Slots(c) /\ Lists(c, hidden, t - 1, a)
    BY <2>2, <2>3
  <2> HIDE DEF S, N, t, e, a
  <2>7. Lists(c, hidden, t, e)
    BY <2>5, <2>6, ListsNext
  <2> QED
    BY <2>7 DEF t, e
<1>10. N \in S
  <2> HIDE DEF S, N
  <2> QED
    BY <1>0, <1>8, <1>9, Induction
<1> QED
  BY <1>0, <1>7, <1>10

\* A list that names nothing twice is as long as the set of what it names.
LEMMA NamedOnce ==
    ASSUME NEW list, NEW n \in Nat, DOMAIN list = 1 .. n, list = [i \in 1 .. n |-> list[i]],
           \A i, j \in 1 .. n : list[i] = list[j] => i = j
    PROVE  Cardinality({list[i] : i \in 1 .. n}) = n
<1> DEFINE T == {list[i] : i \in 1 .. n}
<1>1. list \in [1 .. n -> T]
  OBVIOUS
<1>2. \A t \in T : \E i \in 1 .. n : list[i] = t
  OBVIOUS
<1> HIDE DEF T
<1>3. list \in Bijection(1 .. n, T)
  BY <1>1, <1>2 DEF Bijection, Injection, Surjection, IsInjective
<1>4. ExistsBijection(1 .. n, T)
  BY <1>3 DEF ExistsBijection
<1>5. Cardinality(T) = n
  BY <1>4, FS_CountingElements
<1> QED
  BY <1>5 DEF T

LEMMA ListingOnce ==
    ASSUME NEW c, Good(c), Unique(c), NEW hidden, NEW T,
           \A k : k \in T <=> k # hidden /\ Exists(c, k)
    PROVE  Len(Listing(c, hidden)) = Cardinality(T) /\ Range(Listing(c, hidden)) = T
<1> DEFINE list == Listing(c, hidden)
           n == Len(list)
<1>1. Lists(c, hidden, SlotCount(c), list)
  BY Listed
<1> HIDE DEF list
<1>2. n \in Nat /\ DOMAIN list = 1 .. n /\ list = [i \in 1 .. n |-> list[i]]
  BY <1>1 DEF Lists
<1>3. \A k : k \in T <=> \E i \in 1 .. n : list[i] = k
  <2>1. \A k : Exists(c, k) <=> \E t \in LiveSlots(c) : t <= SlotCount(c) /\ KeyAt(c, t) = k
    <3>1. \A t \in LiveSlots(c) : t <= SlotCount(c)
      BY LiveIsZero DEF Slots
    <3> QED
      BY <3>1, IsMatch DEF Exists
  <2> QED
    BY <2>1, <1>1 DEF Lists
<1>4. T = {list[i] : i \in 1 .. n} /\ Range(list) = {list[i] : i \in 1 .. n}
  BY <1>2, <1>3 DEF Range
<1>5. Cardinality({list[i] : i \in 1 .. n}) = n
  <2>1. \A i, j \in 1 .. n : list[i] = list[j] => i = j
    BY <1>1 DEF Lists
  <2> HIDE DEF n
  <2> QED
    BY <2>1, <1>2, NamedOnce
<1> QED
  BY <1>4, <1>5 DEF list

-----------------------------------------------------------------------------
(* The scene file: the invariant.                                           *)

Says(said, id) == IF said[id] = Absent THEN NotFound ELSE [key |-> id, val |-> said[id]]

\* A file that holds what was said; exactly that if nothing did harm, and each record once
\* unless the copies of a compaction lie in it.
FileInv(c, said, harm, once) ==
    /\ Good(c) /\ KeysIn(c, SceneKeys)
    /\ \A id \in SceneKeys : said[id] # Absent => Read(c, id) = Says(said, id)
    /\ harm = {} => \A id \in SceneKeys : Read(c, id) = Says(said, id)
    /\ harm = {} /\ once => Unique(c)

\* Between the copies and the rewrite, of the file and of what the rewrite will leave.
CopiesInv ==
    /\ scenes.version = firmware
    /\ keep \in 0 .. SlotCount(scenes.cells)
    /\ \A n \in 1 .. keep : n \in LiveSlots(scenes.cells)
    /\ FileInv(Shrink(scenes.cells, keep), acked, damage, TRUE)

SceneInv ==
    "full" \notin damage =>
        /\ FileInv(OpenCells(scenes), acked, damage, phase # "copied")
        /\ phase = "copied" => CopiesInv

\* Nothing of the scenes is touched.
LEMMA ScenesStay ==
    ASSUME SceneInv, UNCHANGED <<scenes, firmware, acked, damage>>,
           phase' = "copied" <=> phase = "copied", phase = "copied" => keep' = keep
    PROVE  SceneInv'
<1>1. OpenCells(scenes)' = OpenCells(scenes)
  BY DEF OpenCells, EnsureOpen
<1>2. phase = "copied" /\ CopiesInv => CopiesInv'
  BY DEF CopiesInv
<1>3. (phase' # "copied") = (phase # "copied")
  OBVIOUS
<1> QED
  BY <1>1, <1>2, <1>3 DEF SceneInv

\* A session, or the boot, leaves the file e.
LEMMA ScenesLeft ==
    ASSUME NEW e, scenes' = Commit(e), firmware' = firmware, phase' # "copied",
           "full" \notin damage' => FileInv(e, acked', damage', TRUE)
    PROVE  SceneInv'
<1>1. OpenCells(scenes)' = e
  BY Committed DEF OpenCells, EnsureOpen
<1> QED
  BY <1>1 DEF SceneInv, FileInv

\* createImpl, updateImpl, removeImpl and what they tell their callers.
LEMMA ScenesWritten ==
    ASSUME VersionInv, RequestInv, SceneInv, SceneSession
    PROVE  SceneInv'
<1> DEFINE c == OpenCells(scenes)
           op == request.op
           key == request.key
           d == Apply(c, StoreWrites(c, op, Rec))
<1>1. /\ phase = "up" /\ op \in SceneOps /\ firmware' = firmware /\ phase' = phase /\ damage' = damage
      /\ key \in SceneKeys /\ (op # "remove" => request.val \in Vals)
      /\ Rec.key = key /\ Rec.val = request.val /\ Rec = [key |-> key, val |-> request.val]
  BY DEF SceneSession, RequestInv, Rec
<1>2. "full" \notin damage => FileInv(c, acked, damage, TRUE)
  BY <1>1 DEF SceneInv, FileInv
<1>3. \/ /\ Accepts(c, op, key) /\ scenes' = Commit(d)
         /\ acked' = [acked EXCEPT ![key] = IF op = "remove" THEN Absent ELSE request.val]
      \/ scenes' = Commit(c) /\ acked' = acked
  BY DEF SceneSession
<1>4. acked \in [SceneKeys -> Vals \cup {Absent}]
  BY DEF VersionInv
<1>5. op # "remove" => Rec \in Record
  <2>1. SceneKeys \subseteq Keys
    BY StoreKeys DEF SceneKeys
  <2> QED
    BY <2>1, <1>1 DEF Record
<1> HIDE DEF c, d, op, key
<1>6. CASE scenes' = Commit(c) /\ acked' = acked
  BY <1>1, <1>2, <1>6, ScenesLeft
<1>7. CASE /\ Accepts(c, op, key) /\ scenes' = Commit(d)
           /\ acked' = [acked EXCEPT ![key] = IF op = "remove" THEN Absent ELSE request.val]
  <2>1. SUFFICES ASSUME "full" \notin damage PROVE FileInv(d, acked', damage', TRUE)
    BY <1>1, <1>7, ScenesLeft
  <2>2. Good(c) /\ d = Apply(c, StoreWrites(c, op, Rec)) /\ Accepts(c, op, Rec.key)
    BY <1>1, <1>2, <1>7, <2>1 DEF FileInv, d
  <2>3. /\ Good(d)
        /\ \A k : k # key => (Exists(d, k) <=> Exists(c, k)) /\ Read(d, k) = Read(c, k)
        /\ op # "remove" => Exists(d, key) /\ Read(d, key) = Rec
        /\ Unique(c) => Unique(d) /\ (op = "remove" => ~Exists(d, key))
        /\ \A K : KeysIn(c, K) /\ key \in K => KeysIn(d, K)
    BY <2>2, <1>1, <1>5, Stored
  <2>4. /\ \A id \in SceneKeys : id # key => acked'[id] = acked[id] /\ Says(acked', id) = Says(acked, id)
        /\ op = "remove" => acked'[key] = Absent /\ Says(acked', key) = NotFound
        /\ op # "remove" => Says(acked', key) = Rec
    <3>1. \A id \in SceneKeys : id # key => acked'[id] = acked[id]
      BY <1>4, <1>7
    <3>2. acked'[key] = IF op = "remove" THEN Absent ELSE request.val
      BY <1>1, <1>4, <1>7
    <3>3. op # "remove" => request.val # Absent
      BY <1>1, StoreKeys
    <3> QED
      BY <1>1, <3>1, <3>2, <3>3 DEF Says
  <2>5. KeysIn(d, SceneKeys)
    BY <1>1, <1>2, <2>1, <2>3 DEF FileInv
  <2>6. ASSUME NEW id \in SceneKeys, acked'[id] # Absent PROVE Read(d, id) = Says(acked', id)
    <3>1. CASE id = key
      BY <3>1, <2>3, <2>4, <2>6
    <3>2. CASE id # key
      BY <3>2, <1>2, <2>1, <2>3, <2>4, <2>6 DEF FileInv
    <3> QED
      BY <3>1, <3>2
  <2>7. ASSUME damage = {} PROVE Unique(d) /\ \A id \in SceneKeys : Read(d, id) = Says(acked', id)
    <3>1. Unique(c) /\ \A id \in SceneKeys : Read(c, id) = Says(acked, id)
      BY <1>2, <2>1, <2>7 DEF FileInv
    <3>2. op = "remove" => Read(d, key) = NotFound
      BY <3>1, <2>3 DEF Read
    <3>3. Read(d, key) = Says(acked', key)
      BY <3>2, <2>3, <2>4
    <3> QED
      BY <3>1, <3>3, <2>3, <2>4
  <2> QED
    BY <1>1, <2>3, <2>5, <2>6, <2>7 DEF FileInv
<1> QED
  BY <1>3, <1>6, <1>7

\* compactIfFragmented, up to the rewrite.
LEMMA ScenesCompacted ==
    ASSUME SceneInv, CompactIfFragmented
    PROVE  SceneInv'
<1> DEFINE c == OpenCells(scenes)
           b == Compacted(c)
           d == Shrink(b.cells, b.kept)
<1>1. /\ phase = "seeded" /\ firmware' = firmware /\ acked' = acked /\ damage' = damage
      /\ \/ scenes' = Commit(b.cells) /\ keep' = b.kept /\ phase' = "copied"
         \/ scenes' = Commit(c) /\ phase' = "up"
  BY DEF CompactIfFragmented, history
<1>2. "full" \notin damage => FileInv(c, acked, damage, TRUE)
  BY <1>1 DEF SceneInv, FileInv
<1>3. ASSUME "full" \notin damage
      PROVE  /\ Good(b.cells) /\ b.kept \in 0 .. SlotCount(b.cells) /\ Good(d)
             /\ \A n \in 1 .. b.kept : n \in LiveSlots(b.cells)
             /\ \A k : Read(b.cells, k) = Read(c, k) /\ Read(d, k) = Read(c, k)
             /\ \A K : KeysIn(c, K) => KeysIn(b.cells, K) /\ KeysIn(d, K)
             /\ Unique(c) => Unique(d)
  <2>1. Good(c)
    BY <1>2, <1>3 DEF FileInv
  <2>2. Gathered(c, SlotCount(c), b) /\ d = Shrink(b.cells, b.kept)
    BY <2>1, Compacts
  <2> HIDE DEF c, b, d
  <2> QED
    BY <2>1, <2>2, GatheredReads
<1>a. d = Shrink(b.cells, b.kept)
  OBVIOUS
<1> HIDE DEF c, b, d
<1>4. CASE scenes' = Commit(c) /\ phase' = "up"
  BY <1>1, <1>2, <1>4, ScenesLeft
<1>5. CASE scenes' = Commit(b.cells) /\ keep' = b.kept /\ phase' = "copied"
  <2>1. scenes'.version = firmware' /\ scenes'.cells = b.cells
    BY <1>1, <1>5, Committed
  <2>2. OpenCells(scenes)' = b.cells
    BY <2>1 DEF OpenCells, EnsureOpen
  <2>3. SUFFICES ASSUME "full" \notin damage
                 PROVE  FileInv(b.cells, acked, damage, FALSE) /\ CopiesInv'
    BY <1>1, <1>5, <2>2 DEF SceneInv, FileInv
  <2>4. FileInv(b.cells, acked, damage, FALSE) /\ FileInv(d, acked, damage, TRUE)
    BY <1>2, <1>3, <2>3 DEF FileInv
  <2> QED
    BY <1>1, <1>3, <1>5, <1>a, <2>1, <2>3, <2>4 DEF CopiesInv
<1> QED
  BY <1>1, <1>4, <1>5

\* The rewrite.
LEMMA ScenesRewritten ==
    ASSUME SceneInv, ShrinkRewrite
    PROVE  SceneInv'
<1>1. /\ phase = "copied" /\ scenes' = Commit(Shrink(scenes.cells, keep)) /\ phase' = "up"
      /\ firmware' = firmware /\ acked' = acked /\ damage' = damage
  BY DEF ShrinkRewrite, history
<1>2. "full" \notin damage => FileInv(Shrink(scenes.cells, keep), acked, damage, TRUE)
  BY <1>1 DEF SceneInv, CopiesInv
<1> QED
  BY <1>1, <1>2, ScenesLeft

\* The copies stay, as nothing but copies or as damage.
LEMMA CopiesStay ==
    ASSUME SceneInv, phase = "copied", UNCHANGED <<scenes, firmware, acked>>, phase' # "copied",
           damage' = IF CopiesRemain THEN damage \cup {"copies"} ELSE damage
    PROVE  SceneInv'
<1>1. SUFFICES ASSUME "full" \notin damage PROVE FileInv(scenes.cells, acked, damage', TRUE)
  <2>1. "full" \in damage' <=> "full" \in damage
    OBVIOUS
  <2>2. "full" \notin damage => OpenCells(scenes)' = scenes.cells
    BY DEF SceneInv, CopiesInv, OpenCells, EnsureOpen
  <2> QED
    BY <2>1, <2>2 DEF SceneInv, FileInv
<1>2. OpenCells(scenes) = scenes.cells /\ FileInv(scenes.cells, acked, damage, FALSE) /\ CopiesInv
  BY <1>1 DEF SceneInv, CopiesInv, OpenCells, EnsureOpen, FileInv
<1>3. ASSUME damage' = {} PROVE damage = {} /\ Unique(scenes.cells)
  <2>1. ~CopiesRemain /\ damage = {}
    BY <1>3
  <2>2. \A s \in LiveSlots(scenes.cells) : ~(s > keep)
    BY <2>1 DEF CopiesRemain
  <2>3. Good(scenes.cells) /\ Unique(Shrink(scenes.cells, keep))
    BY <1>2, <2>1 DEF CopiesInv, FileInv
  <2> QED
    BY <1>2, <2>1, <2>2, <2>3, NothingBehind DEF CopiesInv
<1> QED
  BY <1>2, <1>3 DEF FileInv

LEMMA ScenesUpgraded ==
    ASSUME VersionInv, Upgrade
    PROVE  SceneInv'
<1>1. /\ phase' = "off" /\ scenes' = scenes /\ scenes'.version # firmware'
      /\ acked' = [id \in DOMAIN acked |-> Absent]
  BY DEF Upgrade, Down, VersionInv
<1>2. OpenCells(scenes)' = <<>>
  BY <1>1 DEF OpenCells, EnsureOpen
<1>3. \A id \in SceneKeys : acked'[id] = Absent /\ Read(<<>>, id) = NotFound
  BY <1>1, NewFile DEF VersionInv, Read
<1>4. FileInv(<<>>, acked', damage', TRUE)
  BY <1>3, NewFile DEF FileInv, Says, KeysIn, Unique
<1> QED
  BY <1>1, <1>2, <1>4 DEF SceneInv, FileInv

LEMMA InitScenes == Init => SceneInv
<1> SUFFICES ASSUME Init PROVE SceneInv
  OBVIOUS
<1>1. phase = "off" /\ acked = [id \in SceneKeys |-> Absent]
  BY DEF Init, SceneKeys
<1>2. OpenCells(scenes) = <<>>
  BY Opened DEF Init, NoFile
<1>3. \A id \in SceneKeys : acked[id] = Absent /\ Read(<<>>, id) = NotFound
  BY <1>1, NewFile DEF Read
<1>4. FileInv(<<>>, acked, damage, TRUE)
  BY <1>3, NewFile DEF FileInv, Says, KeysIn, Unique
<1> QED
  BY <1>1, <1>2, <1>4 DEF SceneInv, FileInv

\* The scene file through a step.
LEMMA NextScenes ==
    ASSUME VersionInv, RequestInv, SceneInv, [Next]_vars
    PROVE  SceneInv'
<1>1. CASE EnsureSeeded
  BY <1>1, ScenesStay DEF EnsureSeeded, history
<1>2. CASE CompactIfFragmented
  BY <1>2, ScenesCompacted
<1>3. CASE ShrinkRewrite
  BY <1>3, ScenesRewritten
<1>4. CASE ShrinkFails
  <2>1. /\ phase = "copied" /\ phase' = "up" /\ UNCHANGED <<scenes, firmware, acked>>
        /\ damage' = IF CopiesRemain THEN damage \cup {"copies"} ELSE damage
    BY <1>4 DEF ShrinkFails, Fault
  <2> QED
    BY <2>1, CopiesStay
<1>5. CASE \/ \E id \in SceneIds, val \in Vals : CreateScene(id, val) \/ UpdateScene(id, val)
           \/ \E id \in SceneIds : DeleteScene(id)
           \/ \E val \in Vals : PrepareInline(val)
  <2>1. UNCHANGED <<scenes, firmware, acked, damage, phase, keep>>
    BY <1>5 DEF CreateScene, UpdateScene, DeleteScene, PrepareInline, history
  <2> QED
    BY <2>1, ScenesStay
<1>6. CASE SceneSession
  BY <1>6, ScenesWritten
<1>7. CASE SceneSessionFull
  <2>1. "full" \in damage'
    BY <1>7 DEF SceneSessionFull, Fault
  <2> QED
    BY <2>1 DEF SceneInv
<1>8. CASE \/ \E name \in Builtins \cup UserPalettes, val \in PaletteVals :
                 CheckBuiltin("updatePalette", name, val) \/ PostPalette(name, val)
           \/ \E name \in Builtins \cup UserPalettes : CheckBuiltin("removePalette", name, "none")
           \/ SerializePalette \/ PaletteSession
           \/ \E name \in Builtins \cup UserPalettes : ResolveRead(name)
           \/ ResolveDeserialize
  <2>1. UNCHANGED <<scenes, firmware, acked, damage, phase, keep>>
    BY <1>8 DEF CheckBuiltin, PostPalette, SerializePalette, PaletteSession, ResolveRead,
                ResolveDeserialize, history
  <2> QED
    BY <2>1, ScenesStay
<1>9. CASE PowerCut
  <2>1. /\ phase' = "off" /\ UNCHANGED <<scenes, firmware, acked>>
        /\ damage' = IF CopiesRemain THEN damage \cup {"copies"} ELSE damage
    BY <1>9 DEF PowerCut, Down, Fault
  <2>2. CASE phase = "copied"
    BY <2>1, <2>2, CopiesStay
  <2>3. CASE phase # "copied"
    BY <2>1, <2>3, ScenesStay DEF CopiesRemain
  <2> QED
    BY <2>2, <2>3
<1>10. CASE Upgrade
  BY <1>10, ScenesUpgraded
<1>11. CASE UNCHANGED vars
  BY <1>11, ScenesStay DEF vars
<1> QED
  BY <1>1, <1>2, <1>3, <1>4, <1>5, <1>6, <1>7, <1>8, <1>9, <1>10, <1>11 DEF Next

\* SceneStore, findById: unless a disk filled, a record that was acknowledged and not removed
\* since is found with its last contents, even among the copies of an interrupted compaction.
THEOREM AckedKept == Spec => []AckedSurvive
<1>1. SceneInv => AckedSurvive
  BY DEF SceneInv, FileInv, AckedSurvive, Promised, Says
<1> QED
  BY InitPalettes, InitScenes, NextScenes, NextRequests, <1>1, PTL DEF Spec

\* SceneStore: a lookup finds exactly what was acknowledged, in every phase of a boot and
\* whenever the power went, and after a boot the list of scenes names each of them once and
\* nothing else.
THEOREM ScenesAreMap == Spec => []StoreIsMap
<1>1. SceneInv => StoreIsMap
  <2> DEFINE c == OpenCells(scenes)
             T == {id \in SceneIds : acked[id] # Absent}
  <2>1. SUFFICES ASSUME SceneInv, damage = {}
                 PROVE  /\ \A id \in SceneKeys : Read(c, id) = Promised(id)
                        /\ phase # "copied" => Len(SceneListing) = Cardinality(T) /\ Range(SceneListing) = T
    BY DEF StoreIsMap
  <2>2. /\ Good(c) /\ KeysIn(c, SceneKeys) /\ (phase # "copied" => Unique(c))
        /\ \A id \in SceneKeys : Read(c, id) = Promised(id)
    BY <2>1 DEF SceneInv, FileInv, Promised, Says
  <2>3. ASSUME NEW k PROVE k \in T <=> k # OneShot /\ Exists(c, k)
    <3>1. ASSUME k \in SceneKeys PROVE Exists(c, k) <=> acked[k] # Absent
      <4>1. Read(c, k) = Promised(k)
        BY <3>1, <2>2
      <4>2. NotFound.key = "none" /\ k # "none"
        BY <3>1, StoreKeys, SlotAssumption DEF NotFound, SceneKeys
      <4>3. Exists(c, k) => Read(c, k).key = k
        BY <2>2, LastMatch
      <4>4. ~Exists(c, k) => Read(c, k) = NotFound
        BY DEF Read
      <4>5. acked[k] # Absent => Promised(k).key = k
        BY DEF Promised
      <4>6. acked[k] = Absent => Promised(k) = NotFound
        BY DEF Promised
      <4> QED
        BY <4>1, <4>2, <4>3, <4>4, <4>5, <4>6
    <3>2. Exists(c, k) => k \in SceneKeys
      BY <2>2, IsMatch DEF Exists, KeysIn
    <3>3. OneShot \notin SceneIds /\ SceneKeys = SceneIds \cup {OneShot}
      BY StoreKeys DEF SceneKeys
    <3> QED
      BY <3>1, <3>2, <3>3
  <2> HIDE DEF c, T
  <2>4. ASSUME phase # "copied" PROVE Len(SceneListing) = Cardinality(T) /\ Range(SceneListing) = T
    <3>1. SceneListing = Listing(c, OneShot)
      BY DEF SceneListing, c
    <3> QED
      BY <3>1, <2>2, <2>3, <2>4, ListingOnce
  <2> QED
    BY <2>2, <2>4
<1> QED
  BY InitPalettes, InitScenes, NextScenes, NextRequests, <1>1, PTL DEF Spec

=============================================================================
