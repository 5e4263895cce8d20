---------------------------- MODULE MapperProofs ----------------------------
(***************************************************************************)
(* Theorems about the mapper.  Loops over the components of a file are     *)
(* recursive functions: they are reasoned about with the least number that *)
(* has a property, in place of an induction theorem.                       *)
(***************************************************************************)
EXTENDS Mapper, WellFoundedInduction, TLAPS

LEMMA LeastNat ==
  ASSUME NEW T \in SUBSET Nat, T # {}
  PROVE  \E x \in T : \A y \in T : x <= y
<1>1. PICK x \in T : \A y \in T : ~ (<<y, x>> \in OpToRel(<, Nat))
  BY NatLessThanWellFounded, WFMin
<1>2. ASSUME NEW y \in T PROVE x <= y
  <2>1. <<y, x>> \in Nat \X Nat => ~ (y < x)
    BY <1>1 DEF OpToRel
  <2> QED BY <2>1
<1> QED BY <1>2

(* A set of numbers that has 0, and k + 1 with k, has all up to n.         *)
LEMMA UpTo ==
  ASSUME NEW n \in Nat, NEW P, 0 \in P, \A k \in 0 .. n - 1 : k \in P => k + 1 \in P
  PROVE  \A k \in 0 .. n : k \in P
<1> DEFINE T == {k \in 0 .. n : k \notin P}
<1>1. SUFFICES ASSUME T # {} PROVE FALSE
  OBVIOUS
<1>2. T \in SUBSET Nat
  OBVIOUS
<1>3. PICK x \in T : \A y \in T : x <= y
  BY <1>1, <1>2, LeastNat
<1>4. x - 1 \in 0 .. n - 1 /\ x - 1 \notin T /\ (x - 1) + 1 = x
  BY <1>3
<1> QED BY <1>3, <1>4

(* The values of a loop that goes from base by step.                       *)
Loops(g, V, base, n, step) ==
  /\ g \in [0 .. n -> V] /\ g[0] = base
  /\ \A k \in 1 .. n : g[k] = step[k][g[k - 1]]

LEMMA LoopExists ==
  ASSUME NEW V, NEW base \in V, NEW n \in Nat, NEW step \in [1 .. n -> [V -> V]]
  PROVE  \E g : Loops(g, V, base, n, step)
<1> DEFINE P == {m \in 0 .. n : \E g : Loops(g, V, base, m, step)}
<1>1. 0 \in P
  <2> DEFINE g == [k \in 0 .. 0 |-> base]
  <2>1. g \in [0 .. 0 -> V] /\ g[0] = base /\ \A k \in 1 .. 0 : g[k] = step[k][g[k - 1]]
    OBVIOUS
  <2> HIDE DEF g
  <2>2. Loops(g, V, base, 0, step)
    BY <2>1 DEF Loops
  <2> QED BY <2>2
<1>2. ASSUME NEW m \in 0 .. n - 1, m \in P PROVE m + 1 \in P
  <2>p. PICK g : Loops(g, V, base, m, step)
    BY <1>2
  <2>1. /\ g \in [0 .. m -> V] /\ g[0] = base
        /\ \A k \in 1 .. m : g[k] = step[k][g[k - 1]]
    BY <2>p DEF Loops
  <2> DEFINE h == [k \in 0 .. m + 1 |-> IF k = m + 1 THEN step[m + 1][g[m]] ELSE g[k]]
  <2>2. g[m] \in V /\ m + 1 \in 1 .. n /\ step[m + 1][g[m]] \in V
    BY <2>1
  <2>3. h \in [0 .. m + 1 -> V] /\ h[0] = base
    BY <2>1, <2>2
  <2>4. \A k \in 0 .. m : h[k] = g[k]
    OBVIOUS
  <2>5. h[m + 1] = step[m + 1][g[m]]
    OBVIOUS
  <2> HIDE DEF h
  <2>6. ASSUME NEW k \in 1 .. m + 1 PROVE h[k] = step[k][h[k - 1]]
    <3>1. CASE k = m + 1
      BY <2>4, <2>5, <3>1
    <3>2. CASE k # m + 1
      <4>1. k \in 1 .. m /\ k - 1 \in 0 .. m /\ k \in 0 .. m
        BY <3>2
      <4> QED BY <2>1, <2>4, <4>1
    <3> QED BY <3>1, <3>2
  <2>7. Loops(h, V, base, m + 1, step)
    BY <2>3, <2>6 DEF Loops
  <2>8. m + 1 \in 0 .. n
    OBVIOUS
  <2> QED BY <2>7, <2>8
<1>3. n \in P
  <2> HIDE DEF P
  <2>1. \A k \in 0 .. n - 1 : k \in P => k + 1 \in P
    BY <1>2
  <2>2. \A k \in 0 .. n : k \in P
    BY <1>1, <2>1, UpTo
  <2> QED BY <2>2
<1> QED BY <1>3

-----------------------------------------------------------------------------
(* Insertions and removals, by index.                                      *)
LEMMA ConcatIs ==
  ASSUME NEW C, NEW s \in Seq(C), NEW t \in Seq(C)
  PROVE  /\ s \o t \in Seq(C) /\ Len(s \o t) = Len(s) + Len(t)
         /\ \A j \in 1 .. Len(s) : (s \o t)[j] = s[j]
         /\ \A j \in Len(s) + 1 .. Len(s) + Len(t) : (s \o t)[j] = t[j - Len(s)]
OBVIOUS

(* t is s with e at i.                                                     *)
Inserted(C, s, i, e, t) ==
  /\ t \in Seq(C) /\ Len(t) = Len(s) + 1
  /\ \A j \in 1 .. i - 1 : t[j] = s[j]
  /\ t[i] = e
  /\ \A j \in i + 1 .. Len(s) + 1 : t[j] = s[j - 1]

LEMMA InsertIs ==
  ASSUME NEW C, NEW s \in Seq(C), NEW i \in 1 .. Len(s) + 1, NEW e \in C
  PROVE  Inserted(C, s, i, e, InsertAt(s, i, e))
<1> DEFINE a == SubSeq(s, 1, i - 1)
           z == SubSeq(s, i, Len(s))
           b == a \o <<e>>
           t == b \o z
<1>1. a \in Seq(C) /\ Len(a) = i - 1 /\ \A j \in 1 .. i - 1 : a[j] = s[j]
  OBVIOUS
<1>2. z \in Seq(C) /\ Len(z) = Len(s) + 1 - i /\ \A j \in 1 .. Len(s) + 1 - i : z[j] = s[i + j - 1]
  OBVIOUS
<1>3. InsertAt(s, i, e) = t
  BY DEF InsertAt
<1>4. <<e>> \in Seq(C) /\ Len(<<e>>) = 1 /\ <<e>>[1] = e
  OBVIOUS
<1> HIDE DEF a, z
<1>5. b \in Seq(C) /\ Len(b) = i /\ b[i] = e /\ \A j \in 1 .. i - 1 : b[j] = s[j]
  <2>1. /\ b \in Seq(C) /\ Len(b) = Len(a) + Len(<<e>>)
        /\ \A j \in 1 .. Len(a) : b[j] = a[j]
        /\ \A j \in Len(a) + 1 .. Len(a) + Len(<<e>>) : b[j] = <<e>>[j - Len(a)]
    BY <1>1, <1>4, ConcatIs, ZenonT(60)
  <2> HIDE DEF b
  <2>2. i \in Len(a) + 1 .. Len(a) + Len(<<e>>) /\ i - Len(a) = 1
    BY <1>1, <1>4
  <2>3. b[i] = e
    BY <1>4, <2>1, <2>2
  <2> QED BY <1>1, <1>4, <2>1, <2>3
<1> HIDE DEF b
<1>6. t \in Seq(C) /\ Len(t) = Len(s) + 1
  <2>1. t \in Seq(C) /\ Len(t) = Len(b) + Len(z)
    BY <1>2, <1>5, ConcatIs
  <2> QED BY <1>2, <1>5, <2>1
<1>7. /\ \A j \in 1 .. i : t[j] = b[j]
      /\ \A j \in i + 1 .. Len(s) + 1 : t[j] = z[j - i]
  BY <1>2, <1>5, ConcatIs
<1> HIDE DEF t
<1>8. ASSUME NEW j \in i + 1 .. Len(s) + 1 PROVE t[j] = s[j - 1]
  <2>1. j - i \in 1 .. Len(s) + 1 - i /\ i + (j - i) - 1 = j - 1
    OBVIOUS
  <2> QED BY <1>2, <1>7, <2>1
<1> QED BY <1>3, <1>5, <1>6, <1>7, <1>8 DEF Inserted

LEMMA RemoveIs ==
  ASSUME NEW C, NEW s \in Seq(C), NEW i \in 1 .. Len(s)
  PROVE  /\ RemoveAt(s, i) \in Seq(C) /\ Len(RemoveAt(s, i)) = Len(s) - 1
         /\ \A j \in 1 .. i - 1 : RemoveAt(s, i)[j] = s[j]
         /\ \A j \in i .. Len(s) - 1 : RemoveAt(s, i)[j] = s[j + 1]
<1> DEFINE a == SubSeq(s, 1, i - 1)
           z == SubSeq(s, i + 1, Len(s))
           t == a \o z
<1>1. a \in Seq(C) /\ Len(a) = i - 1 /\ \A j \in 1 .. i - 1 : a[j] = s[j]
  OBVIOUS
<1>2. z \in Seq(C) /\ Len(z) = Len(s) - i /\ \A j \in 1 .. Len(s) - i : z[j] = s[i + j]
  OBVIOUS
<1>3. RemoveAt(s, i) = t
  BY DEF RemoveAt
<1> HIDE DEF a, z
<1>4. t \in Seq(C) /\ Len(t) = Len(s) - 1
  <2>1. t \in Seq(C) /\ Len(t) = Len(a) + Len(z)
    BY <1>1, <1>2, ConcatIs
  <2> QED BY <1>1, <1>2, <2>1
<1>5. /\ \A j \in 1 .. i - 1 : t[j] = a[j]
      /\ \A j \in i .. Len(s) - 1 : t[j] = z[j - (i - 1)]
  BY <1>1, <1>2, ConcatIs
<1> HIDE DEF t
<1>6. ASSUME NEW j \in i .. Len(s) - 1 PROVE t[j] = s[j + 1]
  <2>1. j - (i - 1) \in 1 .. Len(s) - i /\ i + (j - (i - 1)) = j + 1
    OBVIOUS
  <2> QED BY <1>2, <1>5, <2>1
<1> QED BY <1>1, <1>3, <1>4, <1>5, <1>6

(* t is s with two more components, at i and i + 1.                        *)
Stretched(s, t, i) ==
  /\ Len(t) = Len(s) + 2 /\ i \in 1 .. Len(s) + 1
  /\ \A j \in 1 .. i - 1 : t[j] = s[j]
  /\ \A j \in i + 2 .. Len(t) : t[j] = s[j - 2]

LEMMA InsertedTwo ==
  ASSUME NEW C, NEW s \in Seq(C), NEW i \in 1 .. Len(s) + 1, NEW d \in C, NEW e \in C
  PROVE  LET t == InsertAt(InsertAt(s, i, d), i, e)
             u == InsertAt(InsertAt(s, i, d), i + 1, e)
         IN  /\ t \in Seq(C) /\ Stretched(s, t, i) /\ t[i] = e /\ t[i + 1] = d
             /\ u \in Seq(C) /\ Stretched(s, u, i) /\ u[i] = d /\ u[i + 1] = e
<1> DEFINE r == InsertAt(s, i, d)
<1>1. /\ r \in Seq(C) /\ Len(r) = Len(s) + 1
      /\ \A j \in 1 .. i - 1 : r[j] = s[j]
      /\ r[i] = d
      /\ \A j \in i + 1 .. Len(s) + 1 : r[j] = s[j - 1]
  <2>1. Inserted(C, s, i, d, r)
    BY InsertIs
  <2> QED BY <2>1 DEF Inserted
<1> HIDE DEF r
<1> DEFINE t == InsertAt(r, i, e)
           u == InsertAt(r, i + 1, e)
<1>2. /\ t \in Seq(C) /\ Len(t) = Len(r) + 1
      /\ \A j \in 1 .. i - 1 : t[j] = r[j]
      /\ t[i] = e
      /\ \A j \in i + 1 .. Len(r) + 1 : t[j] = r[j - 1]
  <2>1. r \in Seq(C) /\ i \in 1 .. Len(r) + 1
    BY <1>1
  <2>2. Inserted(C, r, i, e, t)
    BY <2>1, InsertIs
  <2> QED BY <2>2 DEF Inserted
<1>3. /\ u \in Seq(C) /\ Len(u) = Len(r) + 1
      /\ \A j \in 1 .. (i + 1) - 1 : u[j] = r[j]
      /\ u[i + 1] = e
      /\ \A j \in (i + 1) + 1 .. Len(r) + 1 : u[j] = r[j - 1]
  <2>1. PICK k \in 1 .. Len(r) + 1 : k = i + 1
    BY <1>1
  <2> DEFINE v == InsertAt(r, k, e)
  <2>2. /\ v \in Seq(C) /\ Len(v) = Len(r) + 1
        /\ \A j \in 1 .. k - 1 : v[j] = r[j]
        /\ v[k] = e
        /\ \A j \in k + 1 .. Len(r) + 1 : v[j] = r[j - 1]
    <3>1. r \in Seq(C)
      BY <1>1
    <3>2. Inserted(C, r, k, e, v)
      BY <3>1, InsertIs
    <3> QED BY <3>2 DEF Inserted
  <2>3. u = v
    BY <2>1
  <2> HIDE DEF u, v
  <2> QED BY <2>1, <2>2, <2>3
<1> HIDE DEF t, u
<1>4. Stretched(s, t, i) /\ t[i] = e /\ t[i + 1] = d
  <2>1. ASSUME NEW j \in i + 2 .. Len(t) PROVE t[j] = s[j - 2]
    <3>1. j \in i + 1 .. Len(r) + 1 /\ j - 1 \in i + 1 .. Len(s) + 1 /\ (j - 1) - 1 = j - 2
      BY <1>1, <1>2
    <3> QED BY <1>1, <1>2, <3>1
  <2>2. t[i + 1] = d
    BY <1>1, <1>2
  <2> QED BY <1>1, <1>2, <2>1, <2>2 DEF Stretched
<1>5. Stretched(s, u, i) /\ u[i] = d /\ u[i + 1] = e
  <2>1. ASSUME NEW j \in i + 2 .. Len(u) PROVE u[j] = s[j - 2]
    <3>1. /\ j \in (i + 1) + 1 .. Len(r) + 1 /\ j - 1 \in i + 1 .. Len(s) + 1
          /\ (j - 1) - 1 = j - 2
      BY <1>1, <1>3
    <3> QED BY <1>1, <1>3, <3>1
  <2>2. u[i] = d
    BY <1>1, <1>3
  <2> QED BY <1>1, <1>3, <2>1, <2>2 DEF Stretched
<1> QED BY <1>2, <1>3, <1>4, <1>5 DEF r, t, u

LEMMA RemovedTwo ==
  ASSUME NEW C, NEW t \in Seq(C), NEW i \in 1 .. Len(t) - 1
  PROVE  removeTwice(t, i) \in Seq(C) /\ Stretched(removeTwice(t, i), t, i)
<1> DEFINE r == RemoveAt(t, i)
<1>1. /\ r \in Seq(C) /\ Len(r) = Len(t) - 1
      /\ \A j \in 1 .. i - 1 : r[j] = t[j]
      /\ \A j \in i .. Len(t) - 1 : r[j] = t[j + 1]
  <2>1. i \in 1 .. Len(t)
    OBVIOUS
  <2> QED BY <2>1, RemoveIs
<1> HIDE DEF r
<1> DEFINE s == RemoveAt(r, i)
<1>2. /\ s \in Seq(C) /\ Len(s) = Len(r) - 1
      /\ \A j \in 1 .. i - 1 : s[j] = r[j]
      /\ \A j \in i .. Len(r) - 1 : s[j] = r[j + 1]
  <2>1. i \in 1 .. Len(r)
    BY <1>1
  <2> QED BY <1>1, <2>1, RemoveIs
<1> HIDE DEF s
<1>3. ASSUME NEW j \in i + 2 .. Len(t) PROVE t[j] = s[j - 2]
  <2>1. j - 2 \in i .. Len(r) - 1 /\ (j - 2) + 1 \in i .. Len(t) - 1 /\ ((j - 2) + 1) + 1 = j
    BY <1>1
  <2> QED BY <1>1, <1>2, <2>1
<1>4. Stretched(s, t, i)
  BY <1>1, <1>2, <1>3 DEF Stretched
<1> QED BY <1>2, <1>4 DEF removeTwice, r, s

-----------------------------------------------------------------------------
(* FlattenSeq is the last of the concatenations of its first elements.     *)
Cat(s, t) == s \o t

Concats(F, S, w) ==
  /\ F \in [0 .. Len(w) -> Seq(S)] /\ F[0] = <<>>
  /\ \A k \in 1 .. Len(w) : F[k] = Cat(F[k - 1], w[k])

LEMMA ElementOf ==
  ASSUME NEW Q, NEW w \in Seq(Q)
  PROVE  Len(w) \in Nat /\ DOMAIN w = 1 .. Len(w) /\ \A i \in 1 .. Len(w) : w[i] \in Q
OBVIOUS

LEMMA CatIs ==
  ASSUME NEW S, NEW s \in Seq(S), NEW t \in Seq(S)
  PROVE  Cat(s, t) \in Seq(S) /\ Cat(<<>>, s) = s /\ Cat(s, <<>>) = s
BY DEF Cat

LEMMA FlattenIs ==
  ASSUME NEW S, NEW w \in Seq(Seq(S)), NEW F, Concats(F, S, w)
  PROVE  FlattenSeq(w) = F[Len(w)]
<1> DEFINE n == Len(w)
           Def(f) == [i \in 1 .. n |-> IF i = 1 THEN w[i] ELSE Cat(f[i - 1], w[i])]
           flatten == CHOOSE f : f = Def(f)
<1>0. n \in Nat /\ \A i \in 1 .. n : w[i] \in Seq(S)
  BY ElementOf
<1>c. F[0] = <<>> /\ \A k \in 1 .. n : F[k] = Cat(F[k - 1], w[k])
  BY DEF Concats
<1>1. CASE n = 0
  BY <1>1 DEF FlattenSeq, Concats
<1>2. CASE n # 0
  <2>1. FlattenSeq(w) = flatten[n]
    BY <1>2 DEF FlattenSeq, Cat
  <2> HIDE DEF n
  <2>f. F[1] = w[1]
    <3>1. 1 \in 1 .. n /\ 1 - 1 = 0
      BY <1>0, <1>2
    <3>2. Cat(<<>>, w[1]) = w[1]
      BY <1>0, <3>1, CatIs
    <3> QED BY <1>c, <3>1, <3>2
  <2> DEFINE f == [i \in 1 .. n |-> F[i]]
  <2>3. f = Def(f)
    <3>1. ASSUME NEW i \in 1 .. n
          PROVE  f[i] = IF i = 1 THEN w[i] ELSE Cat(f[i - 1], w[i])
      <4>1. F[i] = Cat(F[i - 1], w[i]) /\ f[i] = F[i]
        BY <1>c
      <4>2. CASE i = 1
        BY <2>f, <4>1, <4>2
      <4>3. CASE i # 1
        <5>1. i - 1 \in 1 .. n
          BY <1>0, <4>3
        <5>2. f[i - 1] = F[i - 1]
          BY <5>1
        <5> QED BY <4>1, <4>3, <5>2
      <4> QED BY <4>2, <4>3
    <3> QED BY <3>1
  <2>4. flatten = Def(flatten)
    <3> HIDE DEF Def, f
    <3> QED BY <2>3
  <2> HIDE DEF flatten
  <2> DEFINE P == {k \in 0 .. n : k = 0 \/ flatten[k] = F[k]}
  <2>5. ASSUME NEW k \in 0 .. n - 1, k \in P PROVE k + 1 \in P
    <3>1. PICK i \in 1 .. n : i = k + 1
      BY <1>0
    <3>2. flatten[i] = IF i = 1 THEN w[i] ELSE Cat(flatten[i - 1], w[i])
      BY <2>4
    <3>3. CASE k = 0
      <4>1. i = 1
        BY <3>1, <3>3
      <4> QED BY <2>f, <3>1, <3>2, <4>1
    <3>4. CASE k # 0
      <4>1. i # 1 /\ i - 1 = k
        BY <1>0, <3>1, <3>4
      <4>2. flatten[k] = F[k]
        BY <2>5, <3>4
      <4>3. flatten[i] = Cat(F[k], w[i]) /\ F[i] = Cat(F[k], w[i])
        BY <1>c, <3>2, <4>1, <4>2
      <4> QED BY <3>1, <4>3
    <3> QED BY <3>3, <3>4
  <2>6. 0 \in P
    BY <1>0
  <2>7. n \in P
    <3> HIDE DEF P
    <3>1. \A k \in 0 .. n : k \in P
      BY <1>0, <2>5, <2>6, UpTo
    <3> QED BY <1>0, <3>1
  <2>8. flatten[n] = F[n]
    BY <1>2, <2>7
  <2> QED BY <2>1, <2>8 DEF n
<1> QED BY <1>1, <1>2

LEMMA ConcatsExist ==
  ASSUME NEW S, NEW w \in Seq(Seq(S))
  PROVE  \E F : Concats(F, S, w)
<1> DEFINE n == Len(w)
           V == Seq(S)
           step == [k \in 1 .. n |-> [v \in V |-> Cat(v, w[k])]]
<1>0. n \in Nat /\ \A i \in 1 .. n : w[i] \in V
  BY ElementOf
<1>1. \A v \in V, t \in V : Cat(v, t) \in V
  BY CatIs
<1>2. <<>> \in V
  OBVIOUS
<1> HIDE DEF n, V
<1>3. step \in [1 .. n -> [V -> V]]
  BY <1>0, <1>1
<1>4. \A v \in V, k \in 1 .. n : step[k][v] = Cat(v, w[k])
  OBVIOUS
<1> HIDE DEF step
<1> DEFINE e == <<>>
<1>b. e \in V /\ n \in Nat
  BY <1>0, <1>2
<1> HIDE DEF e
<1>5. PICK F \in [0 .. n -> V] : F[0] = e /\ \A k \in 1 .. n : F[k] = step[k][F[k - 1]]
  <2>1. \E F : Loops(F, V, e, n, step)
    BY <1>b, <1>3, LoopExists
  <2> QED BY <2>1 DEF Loops
<1>6. ASSUME NEW k \in 1 .. n PROVE F[k] = Cat(F[k - 1], w[k])
  <2>1. k - 1 \in 0 .. n
    BY <1>0
  <2>2. F[k - 1] \in V
    BY <2>1
  <2> QED BY <1>4, <1>5, <2>2
<1>7. Concats(F, S, w)
  BY <1>5, <1>6 DEF Concats, n, V, e
<1> QED BY <1>7

(* What the user wrote, as a sequence of texts; it is the same with two    *)
(* more components that the user did not write.                            *)
Texts(D) == D \cup PluginTypes

LEMMA Kinds ==
  ASSUME NEW D, NEW c \in Component(D)
  PROVE  /\ c.kind \in {"default", "header", "plugin"}
         /\ c.kind = "default" => c = Spacer
         /\ c.kind = "header" => c.type \in PluginTypes
         /\ c.kind = "plugin" =>
              c \in [kind : {"plugin"}, type : PluginTypes, name : D, names : D, to : D,
                     tags : Seq(D), pass : Seq(D), passLast : BOOLEAN,
                     drop : {"none", "aggregated", "false"},
                     exclude : {"none", "own", "default"}, user : BOOLEAN]
BY DEF Component, Spacer, Header

LEMMA WrittenTexts ==
  ASSUME NEW D, NEW s \in Seq(Component(D))
  PROVE  [i \in DOMAIN s |-> Written(s[i])] \in Seq(Seq(Texts(D)))
<1>1. ASSUME NEW c \in Component(D) PROVE Written(c) \in Seq(Texts(D))
  <2>1. CASE c.kind = "default"
    BY <2>1 DEF Written
  <2>2. CASE c.kind = "header"
    <3>1. Written(c) = <<c.type>> /\ c.type \in Texts(D)
      BY <2>2, Kinds DEF Written, Texts
    <3> QED BY <3>1
  <2>3. CASE c.kind = "plugin"
    <3>1. c.name \in Texts(D)
      BY <2>3, Kinds DEF Texts
    <3>2. Written(c) = <<c.name>> \/ Written(c) = <<>>
      BY <2>3 DEF Written
    <3>3. <<c.name>> \in Seq(Texts(D)) /\ <<>> \in Seq(Texts(D))
      BY <3>1
    <3> QED BY <3>2, <3>3
  <2> QED BY <2>1, <2>2, <2>3, Kinds
<1> DEFINE Q == Component(D)
<1> HIDE DEF Q
<1>2. DOMAIN s = 1 .. Len(s) /\ Len(s) \in Nat /\ \A i \in 1 .. Len(s) : s[i] \in Q
  BY ElementOf DEF Q
<1>3. \A i \in 1 .. Len(s) : Written(s[i]) \in Seq(Texts(D))
  BY <1>1, <1>2 DEF Q
<1> DEFINE T == Seq(Texts(D))
<1> HIDE DEF T
<1>4. \A i \in 1 .. Len(s) : Written(s[i]) \in T
  BY <1>3 DEF T
<1>5. [i \in 1 .. Len(s) |-> Written(s[i])] \in Seq(T)
  BY <1>2, <1>4
<1> QED BY <1>2, <1>5 DEF T

LEMMA OwnSame ==
  ASSUME NEW D, NEW s \in Seq(Component(D)), NEW t \in Seq(Component(D)), Len(t) = Len(s),
         \A i \in 1 .. Len(s) : Written(t[i]) = Written(s[i])
  PROVE  UsersOwn(t) = UsersOwn(s)
<1>1. DOMAIN s = 1 .. Len(s) /\ DOMAIN t = 1 .. Len(s)
  OBVIOUS
<1>2. [i \in DOMAIN t |-> Written(t[i])] = [i \in DOMAIN s |-> Written(s[i])]
  BY <1>1
<1> QED BY <1>2 DEF UsersOwn

LEMMA OwnStretched ==
  ASSUME NEW D, NEW s \in Seq(Component(D)), NEW t \in Seq(Component(D)),
         NEW i \in Nat, Stretched(s, t, i), Written(t[i]) = <<>>, Written(t[i + 1]) = <<>>
  PROVE  UsersOwn(t) = UsersOwn(s)
<1> DEFINE S == Texts(D)
           v == [j \in DOMAIN s |-> Written(s[j])]
           w == [j \in DOMAIN t |-> Written(t[j])]
           n == Len(s)
<1>1. v \in Seq(Seq(S)) /\ w \in Seq(Seq(S))
  BY WrittenTexts
<1>2. Len(t) = n + 2 /\ i \in 1 .. n + 1 /\ n \in Nat
  BY DEF Stretched
<1>3. Len(v) = n /\ Len(w) = n + 2 /\ DOMAIN s = 1 .. n /\ DOMAIN t = 1 .. n + 2
  BY <1>1, <1>2
<1>4. /\ \A j \in 1 .. i - 1 : w[j] = v[j]
      /\ w[i] = <<>> /\ w[i + 1] = <<>>
      /\ \A j \in i + 2 .. n + 2 : w[j] = v[j - 2]
  BY <1>2, <1>3 DEF Stretched
<1>5. PICK F : Concats(F, S, v)
  BY <1>1, ConcatsExist
<1> DEFINE Q == Seq(S)
           e == <<>>
           G == [k \in 0 .. n + 2 |-> IF k < i THEN F[k] ELSE IF k <= i + 1 THEN F[i - 1] ELSE F[k - 2]]
<1>6. Concats(G, S, w)
  <2>1. F \in [0 .. n -> Q] /\ F[0] = e /\ \A k \in 1 .. n : F[k] = Cat(F[k - 1], v[k])
    BY <1>3, <1>5 DEF Concats
  <2>0. /\ \A j \in 1 .. i - 1 : w[j] = v[j]
        /\ w[i] = e /\ w[i + 1] = e
        /\ \A j \in i + 2 .. n + 2 : w[j] = v[j - 2]
    BY <1>4
  <2>e. \A q \in Q : Cat(q, e) = q
    BY CatIs
  <2> HIDE DEF S, v, w, Q, n, e
  <2>2. G \in [0 .. n + 2 -> Q]
    <3>1. ASSUME NEW k \in 0 .. n + 2
          PROVE  (IF k < i THEN F[k] ELSE IF k <= i + 1 THEN F[i - 1] ELSE F[k - 2]) \in Q
      <4>1. /\ i - 1 \in 0 .. n
            /\ k < i => k \in 0 .. n
            /\ ~ (k <= i + 1) => k - 2 \in 0 .. n
        BY <1>2
      <4> QED BY <2>1, <4>1
    <3> QED BY <3>1
  <2>3. /\ \A k \in 0 .. i - 1 : G[k] = F[k]
        /\ G[i] = F[i - 1] /\ G[i + 1] = F[i - 1]
        /\ \A k \in i + 2 .. n + 2 : G[k] = F[k - 2]
    BY <1>2
  <2>z. G[0] = e
    BY <1>2, <2>1, <2>3
  <2> HIDE DEF G
  <2>4. ASSUME NEW k \in 1 .. n + 2 PROVE G[k] = Cat(G[k - 1], w[k])
    <3>1. CASE k < i
      <4>1. k \in 0 .. i - 1 /\ k - 1 \in 0 .. i - 1 /\ k \in 1 .. i - 1 /\ k \in 1 .. n
        BY <1>2, <3>1
      <4>2. G[k] = F[k] /\ G[k - 1] = F[k - 1] /\ w[k] = v[k]
        BY <2>0, <2>3, <4>1
      <4> QED BY <2>1, <4>1, <4>2
    <3>2. Cat(F[i - 1], e) = F[i - 1]
      <4>1. i - 1 \in 0 .. n
        BY <1>2
      <4> QED BY <2>1, <2>e, <4>1
    <3>3. CASE k = i
      <4>1. k - 1 \in 0 .. i - 1
        BY <1>2, <3>3
      <4>2. G[k - 1] = F[k - 1]
        BY <2>3, <4>1
      <4> QED BY <2>0, <2>3, <3>2, <3>3, <4>2
    <3>4. CASE k = i + 1
      <4>1. k - 1 = i
        BY <1>2, <3>4
      <4> QED BY <2>0, <2>3, <3>2, <3>4, <4>1
    <3>5. CASE k = i + 2
      <4>1. k - 1 = i + 1 /\ k - 2 = i /\ i \in 1 .. n /\ k \in i + 2 .. n + 2
        BY <1>2, <3>5
      <4>2. G[k - 1] = F[i - 1] /\ w[k] = v[i] /\ G[k] = F[i]
        BY <2>0, <2>3, <4>1
      <4> QED BY <2>1, <4>1, <4>2
    <3>6. CASE k > i + 2
      <4>1. /\ k - 1 \in i + 2 .. n + 2 /\ k \in i + 2 .. n + 2 /\ k - 2 \in 1 .. n
            /\ (k - 1) - 2 = (k - 2) - 1
        BY <1>2, <3>6
      <4>2. G[k - 1] = F[(k - 2) - 1] /\ w[k] = v[k - 2] /\ G[k] = F[k - 2]
        BY <2>0, <2>3, <4>1
      <4> QED BY <2>1, <4>1, <4>2
    <3> QED BY <1>2, <3>1, <3>3, <3>4, <3>5, <3>6
  <2> QED BY <1>3, <2>2, <2>4, <2>z DEF Concats, Q, e
<1>7. FlattenSeq(v) = F[n] /\ FlattenSeq(w) = G[n + 2]
  <2> HIDE DEF S, v, w, G, n
  <2>1. FlattenSeq(v) = F[Len(v)]
    BY <1>1, <1>5, FlattenIs
  <2>2. FlattenSeq(w) = G[Len(w)]
    BY <1>1, <1>6, FlattenIs
  <2> QED BY <1>3, <2>1, <2>2
<1>8. G[n + 2] = F[n]
  <2> HIDE DEF n
  <2>1. i < n + 2 /\ n + 2 \in 0 .. n + 2 /\ (n + 2) - 2 = n
    BY <1>2
  <2>2. CASE n + 2 <= i + 1
    <3>1. i - 1 = n
      BY <1>2, <2>2
    <3> QED BY <2>1, <2>2, <3>1
  <2>3. CASE ~ (n + 2 <= i + 1)
    BY <2>1, <2>3
  <2> QED BY <2>2, <2>3
<1> HIDE DEF G, n
<1> QED BY <1>7, <1>8 DEF UsersOwn

-----------------------------------------------------------------------------
(* Why a removal takes a component that the user did not write.  Every     *)
(* component has a height: at most one more than the next for a blank      *)
(* line, less than the next for a plugin of the mapper's, and 0 for what    *)
(* the user wrote.  So a plugin of the mapper's has something behind it    *)
(* that is not the user's; and there is a blank line b, of height 0 and    *)
(* never removed, with nothing of the user's behind it.                    *)
Class(c) ==
  IF c.kind = "default" THEN "default"
  ELSE IF c.kind = "plugin" /\ c.name \in Added /\ (~ c.user \/ TakenForOwn(c))
       THEN "added" ELSE "own"

Classes(s) == [j \in 1 .. Len(s) |-> Class(s[j])]

At(cl, b, h, j) ==
  /\ cl[j] = "own" \/ j = b => h[j] = 0
  /\ cl[j] = "default" => h[j] <= h[j + 1] + 1
  /\ cl[j] = "added" => h[j] + 1 <= h[j + 1]
  /\ j > b => cl[j] # "own"

Heights(n, cl, b, h) ==
  /\ b \in 1 .. n /\ cl[b] = "default"
  /\ h \in [1 .. n + 1 -> Nat] /\ h[n + 1] = 0
  /\ \A j \in 1 .. n : At(cl, b, h, j)

Steady(n, cl) == \E b, h : Heights(n, cl, b, h)

(* dl is cl with two more, at i and i + 1.                                 *)
Grown(n, cl, dl, i) ==
  /\ n \in Nat /\ i \in 1 .. n + 1
  /\ \A j \in 1 .. n : cl[j] \in {"default", "added", "own"}
  /\ \A j \in 1 .. i - 1 : dl[j] = cl[j]
  /\ \A j \in i + 2 .. n + 2 : dl[j] = cl[j - 2]

LEMMA SteadyEnds ==
  ASSUME NEW n \in Nat, NEW cl, Steady(n, cl), \A j \in 1 .. n : cl[j] \in {"default", "added", "own"}
  PROVE  n \in 1 .. n /\ cl[n] = "default"
<1>1. PICK b, h : Heights(n, cl, b, h)
  BY DEF Steady
<1>2. b \in 1 .. n /\ n \in 1 .. n /\ cl[b] = "default"
  BY <1>1 DEF Heights
<1>3. At(cl, b, h, n) /\ h[n] \in Nat /\ h[n + 1] = 0
  BY <1>1, <1>2 DEF Heights
<1>4. CASE n = b
  BY <1>2, <1>4
<1>5. CASE n # b
  <2>1. n > b
    BY <1>2, <1>5
  <2> QED BY <1>2, <1>3, <2>1 DEF At
<1> QED BY <1>4, <1>5

LEMMA SteadyInsert ==
  ASSUME NEW n, NEW cl, NEW dl, NEW i, Grown(n, cl, dl, i), i <= n, Steady(n, cl),
         dl[i] = "added", dl[i + 1] = "default"
  PROVE  Steady(n + 2, dl)
<1>0. n \in Nat /\ i \in 1 .. n
  BY DEF Grown
<1>1. PICK b, h : Heights(n, cl, b, h)
  BY DEF Steady
<1>2. b \in 1 .. n /\ cl[b] = "default" /\ h \in [1 .. n + 1 -> Nat] /\ h[n + 1] = 0
  BY <1>1 DEF Heights
<1> DEFINE c == IF b < i THEN b ELSE b + 2
           g == [j \in 1 .. n + 3 |-> IF j <= i THEN h[j] ELSE IF j = i + 1 THEN h[i] + 1 ELSE h[j - 2]]
<1>3. /\ \A j \in 1 .. i : g[j] = h[j]
      /\ g[i + 1] = h[i] + 1
      /\ \A j \in i + 2 .. n + 3 : g[j] = h[j - 2]
  BY <1>0
<1>4. g \in [1 .. n + 3 -> Nat]
  <2>1. ASSUME NEW j \in 1 .. n + 3
        PROVE  (IF j <= i THEN h[j] ELSE IF j = i + 1 THEN h[i] + 1 ELSE h[j - 2]) \in Nat
    BY <1>0, <1>2
  <2> QED BY <2>1
<1>5. c \in 1 .. n + 2 /\ (c < i => c = b) /\ (c >= i => c = b + 2 /\ b >= i)
  BY <1>0, <1>2
<1> HIDE DEF c, g
<1>6. dl[c] = "default"
  <2>1. CASE c < i
    <3>1. c \in 1 .. i - 1
      BY <1>0, <1>5, <2>1
    <3> QED BY <1>2, <1>5, <2>1, <3>1 DEF Grown
  <2>2. CASE c >= i
    <3>1. c \in i + 2 .. n + 2 /\ c - 2 = b
      BY <1>0, <1>2, <1>5, <2>2
    <3> QED BY <1>2, <3>1 DEF Grown
  <2> QED BY <1>0, <1>5, <2>1, <2>2
<1>7. g[n + 3] = 0
  <2>1. n + 3 \in i + 2 .. n + 3 /\ (n + 3) - 2 = n + 1
    BY <1>0
  <2> QED BY <1>2, <1>3, <2>1
<1>8. ASSUME NEW j \in 1 .. n + 2 PROVE At(dl, c, g, j)
  <2>1. CASE j < i
    <3>1. /\ j \in 1 .. i - 1 /\ j \in 1 .. i /\ j + 1 \in 1 .. i /\ j \in 1 .. n
          /\ (j = c => j = b) /\ (j > c => j > b)
      BY <1>0, <1>2, <1>5, <2>1
    <3>2. g[j] = h[j] /\ g[j + 1] = h[j + 1] /\ dl[j] = cl[j]
      BY <1>3, <3>1 DEF Grown
    <3>3. At(cl, b, h, j)
      BY <1>1, <3>1 DEF Heights
    <3> QED BY <3>1, <3>2, <3>3 DEF At
  <2>2. CASE j = i
    <3>1. j # c /\ g[j] = h[i] /\ g[j + 1] = h[i] + 1 /\ dl[j] = "added" /\ h[i] \in Nat
      BY <1>0, <1>2, <1>3, <1>5, <2>2
    <3> QED BY <3>1 DEF At
  <2>3. CASE j = i + 1
    <3>1. /\ j # c /\ dl[j] = "default" /\ h[i] \in Nat /\ i + 2 \in i + 2 .. n + 3
          /\ (i + 2) - 2 = i /\ j + 1 = i + 2 /\ g[j] = h[i] + 1
      BY <1>0, <1>2, <1>3, <1>5, <2>3
    <3>2. g[j + 1] = h[i]
      BY <1>3, <3>1
    <3> QED BY <3>1, <3>2 DEF At
  <2>4. CASE j >= i + 2
    <3>1. PICK k \in 1 .. n : k = j - 2
      BY <1>0, <2>4
    <3>2. /\ j \in i + 2 .. n + 2 /\ j \in i + 2 .. n + 3 /\ j + 1 \in i + 2 .. n + 3
          /\ (j + 1) - 2 = k + 1 /\ (j = c => k = b) /\ (j > c => k > b)
      BY <1>0, <1>2, <1>5, <2>4, <3>1
    <3>3. g[j] = h[k] /\ g[j + 1] = h[k + 1] /\ dl[j] = cl[k]
      BY <1>3, <3>1, <3>2 DEF Grown
    <3>4. At(cl, b, h, k)
      BY <1>1 DEF Heights
    <3> QED BY <3>2, <3>3, <3>4 DEF At
  <2> QED BY <1>0, <2>1, <2>2, <2>3, <2>4
<1>9. Heights(n + 2, dl, c, g)
  <2>1. (n + 2) + 1 = n + 3
    BY <1>0
  <2> QED BY <1>4, <1>5, <1>6, <1>7, <1>8, <2>1 DEF Heights
<1> QED BY <1>9 DEF Steady

LEMMA SteadyInsertLast ==
  ASSUME NEW n, NEW cl, NEW dl, Grown(n, cl, dl, n), Steady(n, cl),
         dl[n] = "default", dl[n + 1] = "added"
  PROVE  Steady(n + 2, dl)
<1>0. n \in Nat /\ n \in 1 .. n + 1
  BY DEF Grown
<1>1. PICK b, h : Heights(n, cl, b, h)
  BY DEF Steady
<1>2. b \in 1 .. n /\ cl[b] = "default" /\ h \in [1 .. n + 1 -> Nat] /\ h[n + 1] = 0
  BY <1>1 DEF Heights
<1>l. cl[n] = "default"
  <2>1. \A j \in 1 .. n : cl[j] \in {"default", "added", "own"}
    BY DEF Grown
  <2> QED BY <1>0, <2>1, SteadyEnds
<1> DEFINE g == [j \in 1 .. n + 3 |-> IF j <= n THEN h[j] ELSE IF j = n + 2 THEN 1 ELSE 0]
<1>3. (\A j \in 1 .. n : g[j] = h[j]) /\ g[n + 1] = 0 /\ g[n + 2] = 1 /\ g[n + 3] = 0
  BY <1>0
<1>4. g \in [1 .. n + 3 -> Nat]
  BY <1>0, <1>2
<1>5. b \in 1 .. n + 2
  BY <1>0, <1>2
<1> HIDE DEF g
<1>6. dl[b] = "default"
  <2>1. CASE b = n
    BY <2>1
  <2>2. CASE b # n
    <3>1. b \in 1 .. n - 1
      BY <1>0, <1>2, <2>2
    <3> QED BY <1>2, <3>1 DEF Grown
  <2> QED BY <2>1, <2>2
<1>8. ASSUME NEW j \in 1 .. n + 2 PROVE At(dl, b, g, j)
  <2>1. CASE j < n
    <3>1. j \in 1 .. n - 1 /\ j \in 1 .. n /\ j + 1 \in 1 .. n
      BY <1>0, <2>1
    <3>2. g[j] = h[j] /\ g[j + 1] = h[j + 1] /\ dl[j] = cl[j]
      BY <1>3, <3>1 DEF Grown
    <3>3. At(cl, b, h, j)
      BY <1>1, <3>1 DEF Heights
    <3> QED BY <3>2, <3>3 DEF At
  <2>2. CASE j = n
    <3>1. At(cl, b, h, n) /\ n \in 1 .. n
      BY <1>0, <1>1, <1>2 DEF Heights
    <3>2. h[n] \in Nat /\ g[n] = h[n] /\ g[n + 1] = 0 /\ dl[n] = "default"
      BY <1>2, <1>3, <3>1
    <3> QED BY <1>2, <1>l, <2>2, <3>1, <3>2 DEF At
  <2>3. CASE j = n + 1
    <3>1. j # b /\ g[j] = 0 /\ g[j + 1] = 1 /\ dl[j] = "added"
      BY <1>0, <1>2, <1>3, <2>3
    <3> QED BY <3>1 DEF At
  <2>4. CASE j = n + 2
    <3>1. j # b /\ g[j] = 1 /\ g[j + 1] = 0 /\ j \in n + 2 .. n + 2 /\ j - 2 = n
      BY <1>0, <1>2, <1>3, <2>4
    <3>2. dl[j] = "default"
      BY <1>l, <3>1 DEF Grown
    <3> QED BY <3>1, <3>2 DEF At
  <2> QED BY <1>0, <2>1, <2>2, <2>3, <2>4
<1>9. Heights(n + 2, dl, b, g)
  <2>1. (n + 2) + 1 = n + 3
    BY <1>0
  <2> QED BY <1>3, <1>4, <1>5, <1>6, <1>8, <2>1 DEF Heights
<1> QED BY <1>9 DEF Steady

(* Of dl, a plugin of the mapper's and what is behind it.                  *)
LEMMA SteadyFollowed ==
  ASSUME NEW n \in Nat, NEW dl, NEW i \in 1 .. n, Steady(n, dl), dl[i] = "added"
  PROVE  i + 1 \in 1 .. n /\ dl[i + 1] # "own"
<1>1. PICK b, h : Heights(n, dl, b, h)
  BY DEF Steady
<1>2. h \in [1 .. n + 1 -> Nat] /\ h[n + 1] = 0 /\ At(dl, b, h, i)
  BY <1>1 DEF Heights
<1>3. h[i] \in Nat /\ h[i] + 1 <= h[i + 1]
  BY <1>2 DEF At
<1>4. i + 1 \in 1 .. n
  BY <1>2, <1>3
<1>5. At(dl, b, h, i + 1)
  BY <1>1, <1>4 DEF Heights
<1>6. dl[i + 1] # "own"
  BY <1>3, <1>5 DEF At
<1> QED BY <1>4, <1>6

LEMMA SteadyRemove ==
  ASSUME NEW n, NEW cl, NEW dl, NEW i, Grown(n, cl, dl, i), Steady(n + 2, dl),
         dl[i] = "added", dl[i + 1] \in {"default", "added"}
  PROVE  Steady(n, cl)
<1>0. n \in Nat /\ i \in 1 .. n + 1
  BY DEF Grown
<1>1. PICK b, h : Heights(n + 2, dl, b, h)
  BY DEF Steady
<1>2. b \in 1 .. n + 2 /\ dl[b] = "default" /\ h \in [1 .. n + 3 -> Nat] /\ h[n + 3] = 0
  <2>1. (n + 2) + 1 = n + 3
    BY <1>0
  <2> QED BY <1>1, <2>1 DEF Heights
<1>3. At(dl, b, h, i) /\ At(dl, b, h, i + 1)
  <2>1. i \in 1 .. n + 2 /\ i + 1 \in 1 .. n + 2
    BY <1>0
  <2> QED BY <1>1, <2>1 DEF Heights
<1>4. /\ h[i] \in Nat /\ h[i + 1] \in Nat /\ h[i + 2] \in Nat
      /\ h[i] + 1 <= h[i + 1] /\ h[i + 1] <= h[i + 2] + 1
  <2>1. i \in 1 .. n + 3 /\ i + 1 \in 1 .. n + 3 /\ i + 2 \in 1 .. n + 3 /\ (i + 1) + 1 = i + 2
    BY <1>0
  <2>2. h[i] \in Nat /\ h[i + 1] \in Nat /\ h[i + 2] \in Nat
    BY <1>2, <2>1
  <2> QED BY <1>3, <2>1, <2>2 DEF At
<1>5. b # i /\ b # i + 1
  <2>1. b # i
    BY <1>2
  <2>2. b # i + 1
    BY <1>3, <1>4 DEF At
  <2> QED BY <2>1, <2>2
<1> DEFINE c == IF b < i THEN b ELSE b - 2
           g == [j \in 1 .. n + 1 |-> IF j < i THEN h[j] ELSE h[j + 2]]
<1>6. /\ \A j \in 1 .. i - 1 : g[j] = h[j]
      /\ \A j \in i .. n + 1 : g[j] = h[j + 2]
  BY <1>0
<1>7. g \in [1 .. n + 1 -> Nat]
  <2>1. ASSUME NEW j \in 1 .. n + 1 PROVE (IF j < i THEN h[j] ELSE h[j + 2]) \in Nat
    BY <1>0, <1>2
  <2> QED BY <2>1
<1>8. c \in 1 .. n /\ (c < i => c = b) /\ (c >= i => b = c + 2)
  BY <1>0, <1>2, <1>5
<1> HIDE DEF c, g
<1>9. cl[c] = "default"
  <2>1. CASE c < i
    <3>1. c \in 1 .. i - 1
      BY <1>0, <1>8, <2>1
    <3> QED BY <1>2, <1>8, <2>1, <3>1 DEF Grown
  <2>2. CASE c >= i
    <3>1. b \in i + 2 .. n + 2 /\ b - 2 = c
      BY <1>0, <1>2, <1>8, <2>2
    <3> QED BY <1>2, <3>1 DEF Grown
  <2> QED BY <1>0, <1>8, <2>1, <2>2
<1>10. g[n + 1] = 0
  <2>1. n + 1 \in i .. n + 1 /\ (n + 1) + 2 = n + 3
    BY <1>0
  <2> QED BY <1>2, <1>6, <2>1
<1>11. ASSUME NEW j \in 1 .. n PROVE At(cl, c, g, j)
  <2>1. CASE j < i - 1
    <3>1. /\ j \in 1 .. i - 1 /\ j + 1 \in 1 .. i - 1 /\ j \in 1 .. n + 2
          /\ (j = c => j = b) /\ (j > c => j > b)
      BY <1>0, <1>2, <1>8, <2>1
    <3>2. g[j] = h[j] /\ g[j + 1] = h[j + 1] /\ dl[j] = cl[j]
      BY <1>6, <3>1 DEF Grown
    <3>3. At(dl, b, h, j)
      BY <1>1, <3>1 DEF Heights
    <3> QED BY <3>1, <3>2, <3>3 DEF At
  <2>2. CASE j = i - 1
    <3>1. /\ j \in 1 .. i - 1 /\ j + 1 = i /\ j \in 1 .. n + 2 /\ j \in 1 .. n + 3
          /\ i \in i .. n + 1
          /\ (j = c => j = b) /\ (j > c => j > b)
      BY <1>0, <1>2, <1>8, <2>2
    <3>2. g[j] = h[j] /\ g[j + 1] = h[i + 2] /\ dl[j] = cl[j] /\ h[j] \in Nat
      BY <1>2, <1>6, <3>1 DEF Grown
    <3>3. At(dl, b, h, j)
      BY <1>1, <3>1 DEF Heights
    <3>4. cl[j] = "default" => h[j] <= h[i] + 1
      BY <3>1, <3>2, <3>3 DEF At
    <3>5. cl[j] = "added" => h[j] + 1 <= h[i]
      BY <3>1, <3>2, <3>3 DEF At
    <3>6. /\ cl[j] = "own" \/ j = c => h[j] = 0
          /\ j > c => cl[j] # "own"
      BY <3>1, <3>2, <3>3 DEF At
    <3>7. cl[j] = "default" => h[j] <= h[i + 2] + 1
      BY <1>4, <3>2, <3>4
    <3>8. cl[j] = "added" => h[j] + 1 <= h[i + 2]
      BY <1>4, <3>2, <3>5
    <3> QED BY <3>2, <3>6, <3>7, <3>8 DEF At
  <2>3. CASE j >= i
    <3>1. PICK k \in i + 2 .. n + 2 : k = j + 2
      BY <1>0, <2>3
    <3>2. /\ k \in 1 .. n + 2 /\ j \in i .. n + 1 /\ j + 1 \in i .. n + 1
          /\ (j + 1) + 2 = k + 1 /\ k - 2 = j /\ (j = c => k = b) /\ (j > c => k > b)
      BY <1>0, <1>2, <1>8, <2>3, <3>1
    <3>3. g[j] = h[k] /\ g[j + 1] = h[k + 1] /\ dl[k] = cl[j]
      BY <1>6, <3>1, <3>2 DEF Grown
    <3>4. At(dl, b, h, k)
      BY <1>1, <3>2 DEF Heights
    <3> QED BY <3>2, <3>3, <3>4 DEF At
  <2> QED BY <1>0, <2>1, <2>2, <2>3
<1>12. Heights(n, cl, c, g)
  BY <1>7, <1>8, <1>9, <1>10, <1>11 DEF Heights
<1> QED BY <1>12 DEF Steady

-----------------------------------------------------------------------------
(* The files that the agents start with.                                   *)
LEMMA SteadyAtFirst ==
  ASSUME NEW n \in Nat, NEW cl, n >= 1, cl[n] = "default",
         \A j \in 1 .. n : cl[j] \in {"default", "added", "own"},
         \A j \in 1 .. n : cl[j] = "added" =>
            j > 1 /\ cl[j - 1] = "default" /\ cl[j + 1] = "default"
  PROVE  Steady(n, cl)
<1> DEFINE B == {j \in 1 .. n : cl[j] = "default" /\ (j = 1 \/ cl[j - 1] # "added")}
<1>1. ASSUME NEW j \in 1 .. n, cl[j] = "own" PROVE \E k \in B : k > j
  <2> DEFINE T == {k \in j .. n : cl[k] = "default"}
  <2>1. T \in SUBSET Nat /\ n \in T
    OBVIOUS
  <2>2. PICK k \in T : \A y \in T : k <= y
    BY <2>1, LeastNat
  <2>3. k \in 1 .. n /\ cl[k] = "default" /\ k > j /\ k - 1 \in j .. n /\ k - 1 \in 1 .. n
    BY <1>1
  <2>4. k - 1 \notin T
    BY <2>2, <2>3
  <2>5. cl[k - 1] # "default"
    BY <2>3, <2>4
  <2>6. ASSUME cl[k - 1] = "added" PROVE FALSE
    <3>1. k - 1 > 1 /\ cl[(k - 1) - 1] = "default"
      BY <2>3, <2>6
    <3>2. k - 1 # j
      BY <1>1, <2>6
    <3>3. (k - 1) - 1 \in j .. n
      BY <2>3, <3>2
    <3>4. (k - 1) - 1 \in T
      BY <3>1, <3>3
    <3> QED BY <2>2, <2>3, <3>4
  <2>7. k \in B
    BY <2>3, <2>6
  <2> QED BY <2>3, <2>7
<1>2. B # {}
  <2>1. CASE cl[1] = "default"
    <3>1. 1 \in 1 .. n
      OBVIOUS
    <3>2. 1 \in B
      BY <2>1, <3>1
    <3> QED BY <3>2
  <2>2. CASE cl[1] = "own"
    <3>1. 1 \in 1 .. n
      OBVIOUS
    <3> QED BY <1>1, <2>2, <3>1
  <2>3. 1 \in 1 .. n /\ cl[1] # "added"
    OBVIOUS
  <2> QED BY <2>1, <2>2, <2>3
<1>3. PICK b \in B : \A j \in B : j <= b
  <2> DEFINE T == {n - j : j \in B}
  <2>1. T \in SUBSET Nat /\ T # {}
    BY <1>2
  <2>2. PICK x \in T : \A y \in T : x <= y
    BY <2>1, LeastNat
  <2>3. PICK b \in B : x = n - b
    BY <2>2
  <2>4. ASSUME NEW j \in B PROVE j <= b
    <3>1. n - j \in T
      OBVIOUS
    <3>2. n - b <= n - j /\ j \in 1 .. n /\ b \in 1 .. n
      BY <2>2, <2>3, <3>1
    <3> QED BY <3>2
  <2> QED BY <2>4
<1>4. b \in 1 .. n /\ cl[b] = "default" /\ (b = 1 \/ cl[b - 1] # "added")
  OBVIOUS
<1>5. ASSUME NEW j \in 1 .. n, j > b PROVE cl[j] # "own"
  <2>1. SUFFICES ASSUME cl[j] = "own" PROVE FALSE
    OBVIOUS
  <2>2. PICK k \in B : k > j
    BY <1>1, <2>1
  <2>3. k <= b /\ k \in 1 .. n
    BY <1>3
  <2> QED BY <1>4, <1>5, <2>2, <2>3
<1> HIDE DEF B
<1> DEFINE h == [j \in 1 .. n + 1 |-> IF j > 1 /\ cl[j - 1] = "added" THEN 1 ELSE 0]
<1>6. h \in [1 .. n + 1 -> Nat]
  OBVIOUS
<1>7. /\ \A j \in 1 .. n + 1 : h[j] \in {0, 1}
      /\ \A j \in 1 .. n + 1 : j = 1 \/ cl[j - 1] # "added" => h[j] = 0
      /\ \A j \in 1 .. n : cl[j] = "added" => h[j + 1] = 1
  <2>1. ASSUME NEW j \in 1 .. n, cl[j] = "added" PROVE h[j + 1] = 1
    <3>1. j + 1 \in 1 .. n + 1 /\ j + 1 > 1 /\ (j + 1) - 1 = j
      OBVIOUS
    <3> QED BY <2>1, <3>1
  <2> QED BY <2>1
<1>8. h[n + 1] = 0
  <2>1. n + 1 \in 1 .. n + 1 /\ (n + 1) - 1 = n
    OBVIOUS
  <2> QED BY <1>7, <2>1
<1> HIDE DEF h
<1>9. ASSUME NEW j \in 1 .. n PROVE At(cl, b, h, j)
  <2>1. h[j] \in {0, 1} /\ h[j + 1] \in {0, 1}
    <3>1. j \in 1 .. n + 1 /\ j + 1 \in 1 .. n + 1
      OBVIOUS
    <3> QED BY <1>7, <3>1
  <2>2. cl[j] = "own" \/ j = b => h[j] = 0
    <3>1. j \in 1 .. n + 1
      OBVIOUS
    <3>2. CASE j = b
      BY <1>4, <1>7, <3>1, <3>2
    <3>3. CASE cl[j] = "own"
      <4>1. j = 1 \/ cl[j - 1] # "added"
        <5>1. SUFFICES ASSUME j # 1, cl[j - 1] = "added" PROVE FALSE
          OBVIOUS
        <5>2. j - 1 \in 1 .. n /\ (j - 1) + 1 = j
          BY <5>1
        <5> QED BY <3>3, <5>1, <5>2
      <4> QED BY <1>7, <3>1, <4>1
    <3> QED BY <3>2, <3>3
  <2>3. cl[j] = "added" => h[j] = 0 /\ h[j + 1] = 1
    <3>1. SUFFICES ASSUME cl[j] = "added" PROVE h[j] = 0 /\ h[j + 1] = 1
      OBVIOUS
    <3>2. j \in 1 .. n + 1 /\ cl[j - 1] = "default"
      BY <3>1
    <3> QED BY <1>7, <3>1, <3>2
  <2> QED BY <1>5, <2>1, <2>2, <2>3 DEF At
<1>10. Heights(n, cl, b, h)
  BY <1>4, <1>6, <1>8, <1>9 DEF Heights
<1> QED BY <1>10 DEF Steady

-----------------------------------------------------------------------------
(* A file of which every plugin of the mapper's can be removed.            *)
Good(D, s) == s \in Seq(Component(D)) /\ Steady(Len(s), Classes(s))

LEMMA ClassesOf ==
  ASSUME NEW D, NEW s \in Seq(Component(D))
  PROVE  /\ Len(s) \in Nat
         /\ \A j \in 1 .. Len(s) : Classes(s)[j] = Class(s[j])
         /\ \A j \in 1 .. Len(s) : Classes(s)[j] \in {"default", "added", "own"}
<1>1. Len(s) \in Nat
  OBVIOUS
<1>2. \A j \in 1 .. Len(s) : Classes(s)[j] = Class(s[j])
  BY DEF Classes
<1>3. \A j \in 1 .. Len(s) : Class(s[j]) \in {"default", "added", "own"}
  BY DEF Class
<1> QED BY <1>1, <1>2, <1>3

LEMMA StretchedGrown ==
  ASSUME NEW D, NEW s \in Seq(Component(D)), NEW t \in Seq(Component(D)), NEW i \in Nat,
         Stretched(s, t, i)
  PROVE  /\ Len(t) = Len(s) + 2 /\ Grown(Len(s), Classes(s), Classes(t), i)
         /\ Classes(t)[i] = Class(t[i]) /\ Classes(t)[i + 1] = Class(t[i + 1])
<1> DEFINE n == Len(s)
           cl == Classes(s)
           dl == Classes(t)
<1>1. n \in Nat /\ Len(t) = n + 2 /\ i \in 1 .. n + 1
  BY DEF Stretched
<1>2. \A j \in 1 .. n : cl[j] = Class(s[j])
  BY ClassesOf
<1>3. \A j \in 1 .. n + 2 : dl[j] = Class(t[j])
  <2>1. \A j \in 1 .. Len(t) : dl[j] = Class(t[j])
    BY ClassesOf
  <2> QED BY <1>1, <2>1
<1>4. \A j \in 1 .. n : cl[j] \in {"default", "added", "own"}
  BY ClassesOf
<1>5. /\ \A j \in 1 .. i - 1 : t[j] = s[j]
      /\ \A j \in i + 2 .. n + 2 : t[j] = s[j - 2]
  BY <1>1 DEF Stretched
<1> HIDE DEF n, cl, dl
<1>6. ASSUME NEW j \in 1 .. i - 1 PROVE dl[j] = cl[j]
  <2>1. j \in 1 .. n /\ j \in 1 .. n + 2
    BY <1>1
  <2> QED BY <1>2, <1>3, <1>5, <2>1
<1>7. ASSUME NEW j \in i + 2 .. n + 2 PROVE dl[j] = cl[j - 2]
  <2>1. j - 2 \in 1 .. n /\ j \in 1 .. n + 2
    BY <1>1
  <2> QED BY <1>2, <1>3, <1>5, <2>1
<1>8. i \in 1 .. n + 2 /\ i + 1 \in 1 .. n + 2
  BY <1>1
<1>9. dl[i] = Class(t[i]) /\ dl[i + 1] = Class(t[i + 1])
  BY <1>3, <1>8
<1>10. Grown(n, cl, dl, i)
  BY <1>1, <1>4, <1>6, <1>7 DEF Grown
<1> QED BY <1>1, <1>9, <1>10 DEF n, cl, dl

LEMMA GoodFile ==
  ASSUME NEW D, NEW s \in Seq(Component(D)), FromParser(s)
  PROVE  Good(D, s)
<1> DEFINE n == Len(s)
           cl == Classes(s)
<1>0. /\ s # <<>> /\ Last(s) = Spacer
      /\ \A i \in DOMAIN s :
           IsPlugin(s[i]) => i > 1 /\ s[i - 1] = Spacer /\ s[i + 1] = Spacer
  BY DEF FromParser
<1>1. n \in Nat /\ n >= 1 /\ DOMAIN s = 1 .. n /\ s[n] = Spacer
  BY <1>0 DEF Last
<1>2. /\ \A j \in 1 .. n : cl[j] = Class(s[j])
      /\ \A j \in 1 .. n : cl[j] \in {"default", "added", "own"}
  BY ClassesOf
<1>3. Class(Spacer) = "default" /\ Spacer.kind = "default"
  BY DEF Class, Spacer
<1>4. \A c : Class(c) = "added" => IsPlugin(c)
  BY DEF Class, IsPlugin
<1>5. ~ IsPlugin(Spacer)
  BY <1>3 DEF IsPlugin
<1> HIDE DEF n, cl
<1>6. n \in 1 .. n
  BY <1>1
<1>7. cl[n] = "default"
  BY <1>1, <1>2, <1>3, <1>6
<1>8. ASSUME NEW j \in 1 .. n, cl[j] = "added"
      PROVE  j > 1 /\ cl[j - 1] = "default" /\ cl[j + 1] = "default"
  <2>1. IsPlugin(s[j])
    BY <1>2, <1>4, <1>8
  <2>2. j > 1 /\ s[j - 1] = Spacer /\ s[j + 1] = Spacer
    BY <1>0, <1>1, <2>1
  <2>3. j # n
    BY <1>7, <1>8
  <2>4. j - 1 \in 1 .. n /\ j + 1 \in 1 .. n
    BY <1>1, <2>2, <2>3
  <2> QED BY <1>2, <1>3, <2>2, <2>4
<1>9. Steady(n, cl)
  BY <1>1, <1>2, <1>7, <1>8, SteadyAtFirst
<1> QED BY <1>9 DEF Good, n, cl

LEMMA LargerSet ==
  ASSUME NEW D, NEW E, D \subseteq E, NEW s, Good(D, s)
  PROVE  Good(E, s)
<1>1. Component(D) \subseteq Component(E)
  <2>1. Seq(D) \subseteq Seq(E)
    OBVIOUS
  <2> QED BY <2>1 DEF Component
<1> DEFINE P == Component(D)
           Q == Component(E)
<1>2. s \in Seq(P) /\ P \subseteq Q
  BY <1>1 DEF Good
<1> HIDE DEF P, Q
<1>3. s \in Seq(Q)
  BY <1>2
<1> QED BY <1>3 DEF Good, Q

-----------------------------------------------------------------------------
(* The operations on a file keep it good, and keep what the user wrote.    *)
LEMMA PluginAdded ==
  ASSUME NEW D, NEW s, Good(D, s), NEW p \in Component(D), Class(p) = "added"
  PROVE  Good(D, addPlugin(s, p)) /\ UsersOwn(addPlugin(s, p)) = UsersOwn(s)
<1> DEFINE n == Len(s)
           here == {i \in 1 .. n - 1 : IsOfType(s[i], p.type)}
<1>1. s \in Seq(Component(D)) /\ Steady(n, Classes(s)) /\ n \in Nat
  BY DEF Good
<1>2. n \in 1 .. n
  BY <1>1, ClassesOf, SteadyEnds
<1>3. Spacer \in Component(D) /\ Class(Spacer) = "default" /\ Written(Spacer) = <<>>
  BY DEF Component, Class, Spacer, Written
<1>4. Written(p) = <<>>
  BY DEF Class, Written
<1>5. CASE here = {}
  <2> DEFINE t == InsertAt(InsertAt(s, n, Spacer), n + 1, p)
  <2>1. addPlugin(s, p) = t
    BY <1>5 DEF addPlugin
  <2>2. n \in 1 .. n + 1
    BY <1>1, <1>2
  <2>3. t \in Seq(Component(D)) /\ Stretched(s, t, n) /\ t[n] = Spacer /\ t[n + 1] = p
    BY <1>1, <1>3, <2>2, InsertedTwo
  <2> HIDE DEF t
  <2>4. /\ Len(t) = n + 2 /\ Grown(n, Classes(s), Classes(t), n)
        /\ Classes(t)[n] = "default" /\ Classes(t)[n + 1] = "added"
    BY <1>1, <1>3, <2>3, StretchedGrown
  <2>5. Steady(n + 2, Classes(t))
    BY <1>1, <2>4, SteadyInsertLast
  <2>6. Good(D, t)
    BY <2>3, <2>4, <2>5 DEF Good
  <2>7. UsersOwn(t) = UsersOwn(s)
    BY <1>1, <1>3, <1>4, <2>3, OwnStretched
  <2> QED BY <2>1, <2>6, <2>7
<1>6. CASE here # {}
  <2>1. here \in SUBSET Nat
    OBVIOUS
  <2>2. \E x \in here : \A y \in here : x <= y
    BY <1>6, <2>1, LeastNat
  <2>3. Min(here) \in here
    BY <2>2 DEF Min
  <2>m. PICK m \in 1 .. n - 1 : m = Min(here)
    BY <2>3
  <2>4. PICK i \in 1 .. n : i = m + 1
    BY <1>1
  <2> DEFINE t == InsertAt(InsertAt(s, i, Spacer), i, p)
  <2>5. addPlugin(s, p) = t
    BY <1>6, <2>m, <2>4 DEF addPlugin
  <2>6. i \in 1 .. n + 1 /\ i \in Nat /\ i <= n
    BY <1>1
  <2>7. t \in Seq(Component(D)) /\ Stretched(s, t, i) /\ t[i] = p /\ t[i + 1] = Spacer
    BY <1>1, <1>3, <2>6, InsertedTwo
  <2> HIDE DEF t
  <2>8. /\ Len(t) = n + 2 /\ Grown(n, Classes(s), Classes(t), i)
        /\ Classes(t)[i] = "added" /\ Classes(t)[i + 1] = "default"
    BY <1>1, <1>3, <2>6, <2>7, StretchedGrown
  <2>9. Steady(n + 2, Classes(t))
    BY <1>1, <2>6, <2>8, SteadyInsert
  <2>10. Good(D, t)
    BY <2>7, <2>8, <2>9 DEF Good
  <2>11. UsersOwn(t) = UsersOwn(s)
    BY <1>1, <1>3, <1>4, <2>6, <2>7, OwnStretched
  <2> QED BY <2>5, <2>10, <2>11
<1> QED BY <1>5, <1>6

(* A change that leaves every component in its place, with its name.       *)
LEMMA Rewritten ==
  ASSUME NEW D, NEW s, Good(D, s), NEW t \in Seq(Component(D)), Len(t) = Len(s),
         \A i \in 1 .. Len(s) : Class(t[i]) = Class(s[i]) /\ Written(t[i]) = Written(s[i])
  PROVE  Good(D, t) /\ UsersOwn(t) = UsersOwn(s)
<1>1. Classes(t) = Classes(s)
  BY DEF Classes
<1>2. UsersOwn(t) = UsersOwn(s)
  BY OwnSame DEF Good
<1> QED BY <1>1, <1>2 DEF Good

(* The plugins among the components.                                       *)
Plugins(D) ==
  [kind : {"plugin"}, type : PluginTypes, name : D, names : D, to : D,
   tags : Seq(D), pass : Seq(D), passLast : BOOLEAN,
   drop : {"none", "aggregated", "false"},
   exclude : {"none", "own", "default"}, user : BOOLEAN]

LEMMA PluginIs ==
  ASSUME NEW D
  PROVE  /\ \A c \in Component(D) : IsPlugin(c) => c \in Plugins(D)
         /\ \A c \in Plugins(D) : c \in Component(D)
<1>1. ASSUME NEW c \in Component(D), IsPlugin(c) PROVE c \in Plugins(D)
  BY <1>1, Kinds DEF IsPlugin, Plugins
<1>2. ASSUME NEW c \in Plugins(D) PROVE c \in Component(D)
  BY DEF Plugins, Component
<1> QED BY <1>1, <1>2

(* The same plugin, with other tables, that pass the same conditions.      *)
SameBut(c, e) ==
  /\ e.name = c.name /\ e.type = c.type /\ e.names = c.names /\ e.user = c.user
  /\ \A id \in CepIds : Contains(e.pass, id) <=> Contains(c.pass, id)

LEMMA OtherTables ==
  ASSUME NEW D, NEW c \in Plugins(D), NEW e \in Plugins(D), SameBut(c, e)
  PROVE  e \in Component(D) /\ Class(e) = Class(c) /\ Written(e) = Written(c)
<1>1. e.kind = "plugin" /\ c.kind = "plugin"
  BY DEF Plugins
<1>2. \A m \in Names : \A id \in CepIds : MustGo(e, m, id, TRUE) <=> MustGo(c, m, id, TRUE)
  BY <1>1 DEF SameBut, MustGo, hasTagpassForToCepId, IsPluginOf, IsPlugin
<1>3. TakenForOwn(e) <=> TakenForOwn(c)
  BY <1>2 DEF TakenForOwn
<1>4. e.name = c.name /\ e.user = c.user
  BY DEF SameBut
<1>5. Class(e) = Class(c) /\ Written(e) = Written(c)
  BY <1>1, <1>3, <1>4 DEF Class, Written
<1> QED BY <1>5, PluginIs

LEMMA DefaultIsNoId == "default" \notin CepIds
BY NamesAssumption DEF CepIds, Null, Ids

LEMMA AbsentIsNoId == "absent" \notin CepIds
BY NamesAssumption DEF CepIds, Null, Ids

LEMMA InsertedContains ==
  ASSUME NEW D, NEW s \in Seq(D), NEW i \in 1 .. Len(s) + 1, NEW e, NEW t, Inserted(D, s, i, e, t),
         NEW x, x # e
  PROVE  Contains(t, x) <=> Contains(s, x)
<1>1. /\ Len(t) = Len(s) + 1 /\ Len(s) \in Nat
      /\ \A j \in 1 .. i - 1 : t[j] = s[j]
      /\ t[i] = e
      /\ \A j \in i + 1 .. Len(s) + 1 : t[j] = s[j - 1]
  BY DEF Inserted
<1>2. ASSUME NEW j \in 1 .. Len(t), t[j] = x PROVE \E k \in 1 .. Len(s) : s[k] = x
  <2>1. CASE j \in 1 .. i - 1
    <3>1. j \in 1 .. Len(s) /\ s[j] = x
      BY <1>1, <1>2, <2>1
    <3> QED BY <3>1
  <2>2. CASE j \in i + 1 .. Len(s) + 1
    <3>1. j - 1 \in 1 .. Len(s) /\ s[j - 1] = x
      BY <1>1, <1>2, <2>2
    <3> QED BY <3>1
  <2>3. j # i
    BY <1>1, <1>2
  <2>4. j \in 1 .. i - 1 \/ j \in i + 1 .. Len(s) + 1
    BY <1>1, <2>3
  <2> QED BY <2>1, <2>2, <2>4
<1>3. ASSUME NEW j \in 1 .. Len(s), s[j] = x PROVE \E k \in 1 .. Len(t) : t[k] = x
  <2>1. CASE j < i
    <3>1. j \in 1 .. i - 1 /\ j \in 1 .. Len(t)
      BY <1>1, <2>1
    <3> QED BY <1>1, <1>3, <3>1
  <2>2. CASE ~ (j < i)
    <3>1. PICK k : k = j + 1
      OBVIOUS
    <3>2. k \in i + 1 .. Len(s) + 1 /\ k \in 1 .. Len(t) /\ k - 1 = j
      BY <1>1, <2>2, <3>1
    <3>3. t[k] = x
      BY <1>1, <1>3, <3>2
    <3> QED BY <3>2, <3>3
  <2> QED BY <2>1, <2>2
<1> QED BY <1>2, <1>3 DEF Contains

(* Where addDefaults puts the filter of an output.                         *)
LEMMA TagpassIs ==
  ASSUME NEW D, "default" \in D, NEW p, p.pass \in Seq(D)
  PROVE  /\ addTagpass(p) \in Seq(D)
         /\ \E i \in 1 .. Len(p.pass) + 1 :
              /\ Inserted(D, p.pass, i, "default", addTagpass(p))
              /\ i = IF p.passLast /\ p.pass # <<>> THEN Len(p.pass) ELSE Len(p.pass) + 1
<1> DEFINE s == p.pass
           n == Len(p.pass)
<1>1. n \in Nat /\ (s # <<>> => n >= 1)
  OBVIOUS
<1>2. CASE p.passLast /\ s # <<>>
  <2>1. n \in 1 .. n + 1
    BY <1>1, <1>2
  <2>2. Inserted(D, s, n, "default", InsertAt(s, n, "default"))
    BY <2>1, InsertIs
  <2>3. addTagpass(p) = InsertAt(s, n, "default")
    BY <1>2 DEF addTagpass
  <2>4. addTagpass(p) \in Seq(D)
    BY <2>2, <2>3 DEF Inserted
  <2> QED BY <1>2, <2>1, <2>2, <2>3, <2>4
<1>3. CASE ~ (p.passLast /\ s # <<>>)
  <2> DEFINE t == Append(s, "default")
  <2>1. addTagpass(p) = t
    BY <1>3 DEF addTagpass
  <2>2. t \in Seq(D) /\ Len(t) = n + 1 /\ t[n + 1] = "default" /\ \A j \in 1 .. n : t[j] = s[j]
    OBVIOUS
  <2> HIDE DEF t
  <2>3. n + 1 \in 1 .. n + 1 /\ (\A j \in 1 .. (n + 1) - 1 : t[j] = s[j])
        /\ \A j \in (n + 1) + 1 .. n + 1 : t[j] = s[j - 1]
    BY <1>1, <2>2
  <2>4. Inserted(D, s, n + 1, "default", t)
    BY <2>2, <2>3 DEF Inserted
  <2> QED BY <1>3, <2>1, <2>2, <2>3, <2>4
<1> QED BY <1>2, <1>3

LEMMA TailContains ==
  ASSUME NEW D, NEW s \in Seq(D), s # <<>>, NEW x, Head(s) # x
  PROVE  Contains(Tail(s), x) <=> Contains(s, x)
<1>1. /\ Len(s) \in Nat /\ Len(s) >= 1 /\ Len(Tail(s)) = Len(s) - 1 /\ s[1] = Head(s)
      /\ \A j \in 1 .. Len(s) - 1 : Tail(s)[j] = s[j + 1]
  OBVIOUS
<1>2. ASSUME NEW j \in 1 .. Len(Tail(s)), Tail(s)[j] = x PROVE \E k \in 1 .. Len(s) : s[k] = x
  <2>1. j + 1 \in 1 .. Len(s) /\ s[j + 1] = x
    BY <1>1, <1>2
  <2> QED BY <2>1
<1>3. ASSUME NEW j \in 1 .. Len(s), s[j] = x PROVE \E k \in 1 .. Len(Tail(s)) : Tail(s)[k] = x
  <2>1. PICK k : k = j - 1
    OBVIOUS
  <2>2. j # 1
    BY <1>1, <1>3
  <2>3. k \in 1 .. Len(s) - 1 /\ k + 1 = j
    BY <1>1, <2>1, <2>2
  <2>4. Tail(s)[k] = x
    BY <1>1, <1>3, <2>3
  <2> QED BY <1>1, <2>3, <2>4
<1> QED BY <1>2, <1>3 DEF Contains

(* The texts that the mapper writes itself.                                *)
Words == {"", "maybe", "default", "false", "http", "basicstats", "override", "backloop"}

LEMMA DefaultsAdded ==
  ASSUME NEW D, Words \subseteq D, NEW s, Good(D, s)
  PROVE  Good(D, addDefaults(s)) /\ UsersOwn(addDefaults(s)) = UsersOwn(s)
<1> DEFINE n == Len(s)
           Q == Component(D)
           t == addDefaults(s)
           New(c) == CASE IsPluginOf(c, "input") -> [c EXCEPT !.tags = Append(@, "maybe")]
                       [] IsPluginOf(c, "output") ->
                            [c EXCEPT !.exclude = "default", !.pass = addTagpass(c)]
                       [] OTHER -> c
<1>1. s \in Seq(Q) /\ n \in Nat /\ DOMAIN s = 1 .. n /\ \A i \in 1 .. n : s[i] \in Q
  <2>1. s \in Seq(Q)
    BY DEF Good
  <2> QED BY <2>1, ElementOf
<1>2. ASSUME NEW c \in Q
      PROVE  New(c) \in Q /\ Class(New(c)) = Class(c) /\ Written(New(c)) = Written(c)
  <2>1. IsPluginOf(c, "input") \/ IsPluginOf(c, "output") => c \in Plugins(D)
    BY PluginIs DEF IsPluginOf
  <2>2. CASE IsPluginOf(c, "input")
    <3> DEFINE e == [c EXCEPT !.tags = Append(@, "maybe")]
    <3>1. c \in Plugins(D)
      BY <2>1, <2>2
    <3>2. Append(c.tags, "maybe") \in Seq(D)
      <4>1. "maybe" \in D
        BY DEF Words
      <4>2. c.tags \in Seq(D)
        BY <3>1 DEF Plugins
      <4> QED BY <4>1, <4>2
    <3> HIDE DEF New
    <3>3. e \in Plugins(D) /\ SameBut(c, e)
      BY <3>1, <3>2 DEF Plugins, SameBut
    <3>4. New(c) = e
      <4> USE DEF New
      <4>1. ~ IsPluginOf(c, "output")
        BY <2>2 DEF IsPluginOf
      <4> QED BY <2>2, <4>1
    <3> HIDE DEF e, New
    <3> QED BY <3>1, <3>3, <3>4, OtherTables
  <2>3. CASE IsPluginOf(c, "output") /\ ~ IsPluginOf(c, "input")
    <3> DEFINE q == addTagpass(c)
               e == [c EXCEPT !.exclude = "default", !.pass = q]
    <3>1. c \in Plugins(D)
      BY <2>1, <2>3
    <3>p. "default" \in D /\ c.pass \in Seq(D)
      BY <3>1 DEF Words, Plugins
    <3>2. q \in Seq(D) /\ \E i \in 1 .. Len(c.pass) + 1 : Inserted(D, c.pass, i, "default", q)
      BY <3>p, TagpassIs
    <3>4. New(c) = e
      BY <2>3
    <3> HIDE DEF q, New
    <3>5. \A id \in CepIds : Contains(q, id) <=> Contains(c.pass, id)
      BY <3>p, <3>2, DefaultIsNoId, InsertedContains
    <3>3. e \in Plugins(D) /\ SameBut(c, e)
      <4>1. e \in Plugins(D) /\ e.pass = q
        BY <3>1, <3>2 DEF Plugins
      <4>2. e.name = c.name /\ e.type = c.type /\ e.names = c.names /\ e.user = c.user
        OBVIOUS
      <4> HIDE DEF e
      <4> QED BY <3>5, <4>1, <4>2 DEF SameBut
    <3> HIDE DEF e, New
    <3> QED BY <3>1, <3>3, <3>4, OtherTables
  <2>4. CASE ~ IsPluginOf(c, "output") /\ ~ IsPluginOf(c, "input")
    BY <2>4
  <2> QED BY <2>2, <2>3, <2>4
<1>3. t = [i \in 1 .. n |-> New(s[i])]
  BY <1>1 DEF addDefaults
<1> HIDE DEF New, Q, n, t
<1>4. t \in Seq(Q) /\ Len(t) = n
  BY <1>1, <1>2, <1>3
<1>5. \A i \in 1 .. n : Class(t[i]) = Class(s[i]) /\ Written(t[i]) = Written(s[i])
  BY <1>1, <1>2, <1>3
<1>6. Good(D, t) /\ UsersOwn(t) = UsersOwn(s)
  BY <1>4, <1>5, Rewritten DEF Q, n
<1> QED BY <1>6 DEF t

LEMMA RerouteAdded ==
  ASSUME NEW D, Words \subseteq D, NEW conf, Good(D, conf.comps), NEW cond, NEW url \in D,
         cond.measurement \in D, cond.cepId \in D
  PROVE  LET new == rerouteMesurementToCep(conf, cond, url).comps
         IN  Good(D, new) /\ UsersOwn(new) = UsersOwn(conf.comps)
<1> DEFINE P1 == createBackloopHttpListenerInputPlugin
           P2 == createOverrideProcessorPlugin(cond.measurement, cond.cepId, cond.proxy)
           P3 == createBasicStatsAggregatorPlugin(cond.measurement, cond.cepId)
           P4 == createCepHttpOutputPlugin(cond.cepId, url)
<1>1. /\ "" \in D /\ "false" \in D
      /\ "http" \in D /\ "basicstats" \in D /\ "override" \in D /\ "backloop" \in D
  BY DEF Words
<1>2. \A v \in D : <<v>> \in Seq(D)
  OBVIOUS
<1>3. <<>> \in Seq(D)
  OBVIOUS
<1>p1. P1 \in Component(D) /\ Class(P1) = "added"
  BY <1>1, <1>2, <1>3 DEF createBackloopHttpListenerInputPlugin, Plugin, Component, Class, Added, PluginTypes
<1>p2. P2 \in Component(D) /\ Class(P2) = "added"
  BY <1>1, <1>2, <1>3 DEF createOverrideProcessorPlugin, Plugin, Component, Class, Added, PluginTypes
<1>p3. P3 \in Component(D) /\ Class(P3) = "added"
  BY <1>1, <1>2, <1>3 DEF createBasicStatsAggregatorPlugin, Plugin, Component, Class, Added, PluginTypes
<1>p4. P4 \in Component(D) /\ Class(P4) = "added"
  BY <1>1, <1>2, <1>3 DEF createCepHttpOutputPlugin, Plugin, Component, Class, Added, PluginTypes
<1> HIDE DEF P1, P2, P3, P4
<1> DEFINE once == IF conf.reroutes < 1 THEN addPlugin(addDefaults(conf.comps), P1) ELSE conf.comps
           over == addPlugin(once, P2)
           aggr == IF ~ cond.proxy /\ cond.aggregates THEN addPlugin(over, P3) ELSE over
           new  == addPlugin(aggr, P4)
<1>4. Good(D, once) /\ UsersOwn(once) = UsersOwn(conf.comps)
  <2>1. Good(D, addDefaults(conf.comps)) /\ UsersOwn(addDefaults(conf.comps)) = UsersOwn(conf.comps)
    BY DefaultsAdded
  <2> DEFINE d == addDefaults(conf.comps)
  <2>2. Good(D, addPlugin(d, P1)) /\ UsersOwn(addPlugin(d, P1)) = UsersOwn(d)
    BY <1>p1, <2>1, PluginAdded
  <2> QED BY <2>1, <2>2
<1> HIDE DEF once
<1>5. Good(D, over) /\ UsersOwn(over) = UsersOwn(once)
  BY <1>p2, <1>4, PluginAdded
<1> HIDE DEF over
<1>6. Good(D, aggr) /\ UsersOwn(aggr) = UsersOwn(over)
  <2>1. Good(D, addPlugin(over, P3)) /\ UsersOwn(addPlugin(over, P3)) = UsersOwn(over)
    BY <1>p3, <1>5, PluginAdded
  <2> QED BY <1>5, <2>1
<1> HIDE DEF aggr
<1>7. Good(D, new) /\ UsersOwn(new) = UsersOwn(aggr)
  BY <1>p4, <1>6, PluginAdded
<1>8. rerouteMesurementToCep(conf, cond, url).comps = new
  BY DEF rerouteMesurementToCep, new, aggr, over, once, P1, P2, P3, P4
<1> HIDE DEF new
<1> QED BY <1>4, <1>5, <1>6, <1>7, <1>8


(* One turn of the loop of removeReroute.                                  *)
Turn(rest, i, measurement, cepId, last) ==
  IF ~ IsPlugin(rest[i]) THEN rest
  ELSE IF MustGo(rest[i], measurement, cepId, last) THEN removeTwice(rest, i)
  ELSE IF last THEN [rest EXCEPT ![i] = reset(@)]
  ELSE rest

LEMMA ResetKeeps ==
  ASSUME NEW D, NEW c \in Component(D)
  PROVE  reset(c) \in Component(D) /\ Class(reset(c)) = Class(c) /\ Written(reset(c)) = Written(c)
<1> DEFINE A == IsPluginOf(c, "output") /\ c.exclude = "default" /\ FirstTable(c.pass) = "default"
           B == IsPluginOf(c, "input") /\ FirstTable(c.tags) = "maybe"
<1>1. IsPluginOf(c, "input") \/ IsPluginOf(c, "output") => c \in Plugins(D)
  BY PluginIs DEF IsPluginOf
<1>2. ~ (IsPluginOf(c, "input") /\ IsPluginOf(c, "output"))
  BY DEF IsPluginOf
<1>t. \A s \in Seq(D) : s # <<>> => Tail(s) \in Seq(D)
  OBVIOUS
<1>f. FirstTable(<<>>) = "none"
  BY DEF FirstTable
<1>3. CASE A
  <2> DEFINE e == [c EXCEPT !.exclude = "none", !.pass = Tail(@)]
  <2>1. c \in Plugins(D)
    BY <1>1, <1>3
  <2>2. Tail(c.pass) \in Seq(D)
    <3>1. c.pass \in Seq(D)
      BY <2>1 DEF Plugins
    <3>2. c.pass # <<>>
      BY <1>3, <1>f
    <3> QED BY <1>t, <3>1, <3>2
  <2>c. \A id \in CepIds : Contains(Tail(c.pass), id) <=> Contains(c.pass, id)
    <3>1. c.pass \in Seq(D) /\ c.pass # <<>> /\ Head(c.pass) = "default"
      BY <1>3, <1>f, <2>1 DEF Plugins, FirstTable
    <3> QED BY <3>1, TailContains, DefaultIsNoId
  <2>3. e \in Plugins(D) /\ SameBut(c, e)
    <3>1. e \in Plugins(D) /\ e.pass = Tail(c.pass)
      BY <2>1, <2>2 DEF Plugins
    <3>2. e.name = c.name /\ e.type = c.type /\ e.names = c.names /\ e.user = c.user
      OBVIOUS
    <3> HIDE DEF e
    <3> QED BY <2>c, <3>1, <3>2 DEF SameBut
  <2>4. reset(c) = e
    BY <1>2, <1>3 DEF reset
  <2> HIDE DEF e
  <2> QED BY <2>1, <2>3, <2>4, OtherTables
<1>4. CASE B
  <2> DEFINE e == [c EXCEPT !.tags = Tail(@)]
  <2>1. c \in Plugins(D)
    BY <1>1, <1>4
  <2>2. Tail(c.tags) \in Seq(D)
    <3>1. c.tags \in Seq(D)
      BY <2>1 DEF Plugins
    <3>2. c.tags # <<>>
      BY <1>4, <1>f
    <3> QED BY <1>t, <3>1, <3>2
  <2>3. e \in Plugins(D) /\ SameBut(c, e)
    BY <2>1, <2>2 DEF Plugins, SameBut
  <2>4. reset(c) = e
    BY <1>2, <1>4 DEF reset
  <2> HIDE DEF e
  <2> QED BY <2>1, <2>3, <2>4, OtherTables
<1>5. CASE ~ A /\ ~ B
  <2>1. reset(c) = c
    BY <1>5 DEF reset
  <2> QED BY <2>1
<1> QED BY <1>3, <1>4, <1>5

LEMMA MustGoIs ==
  ASSUME NEW c, NEW measurement \in Names, NEW cepId \in CepIds, NEW last, IsPlugin(c),
         MustGo(c, measurement, cepId, last)
  PROVE  Class(c) = "added"
<1>1. MustGo(c, measurement, cepId, TRUE) /\ c.name \in Added
  BY DEF MustGo, Added
<1>2. TakenForOwn(c)
  BY <1>1 DEF TakenForOwn
<1> QED BY <1>1, <1>2 DEF Class, IsPlugin

LEMMA TurnKeeps ==
  ASSUME NEW D, NEW s, Good(D, s), NEW i \in 1 .. Len(s),
         NEW measurement \in Names, NEW cepId \in CepIds, NEW last
  PROVE  LET t == Turn(s, i, measurement, cepId, last)
         IN  Good(D, t) /\ UsersOwn(t) = UsersOwn(s) /\ Len(t) >= i - 1
<1> DEFINE Q == Component(D)
           n == Len(s)
<1>0. s \in Seq(Q) /\ n \in Nat /\ Steady(n, Classes(s)) /\ i \in 1 .. n /\ i \in Nat
  BY DEF Good
<1>1. CASE IsPlugin(s[i]) /\ MustGo(s[i], measurement, cepId, last)
  <2> DEFINE t == removeTwice(s, i)
  <2>1. Class(s[i]) = "added"
    BY <1>1, MustGoIs
  <2>2. Classes(s)[i] = "added" /\ \A j \in 1 .. n : Classes(s)[j] = Class(s[j])
    BY <1>0, <2>1, ClassesOf
  <2>3. i + 1 \in 1 .. n /\ Classes(s)[i + 1] # "own"
    BY <1>0, <2>2, SteadyFollowed
  <2>4. i \in 1 .. n - 1
    BY <1>0, <2>3
  <2>5. t \in Seq(Q) /\ Stretched(t, s, i)
    BY <1>0, <2>4, RemovedTwo
  <2> HIDE DEF t
  <2>6. /\ n = Len(t) + 2 /\ Grown(Len(t), Classes(t), Classes(s), i)
    BY <1>0, <2>5, StretchedGrown
  <2>7. Class(s[i + 1]) \in {"default", "added"} /\ Classes(s)[i + 1] = Class(s[i + 1])
    <3>1. Classes(s)[i + 1] = Class(s[i + 1])
      BY <2>2, <2>3
    <3> QED BY <2>3, <3>1 DEF Class
  <2>8. Steady(Len(t), Classes(t))
    BY <1>0, <2>2, <2>6, <2>7, SteadyRemove
  <2>9. Written(s[i]) = <<>> /\ Written(s[i + 1]) = <<>>
    BY <2>1, <2>7 DEF Class, Written
  <2>10. UsersOwn(s) = UsersOwn(t)
    BY <1>0, <2>5, <2>9, OwnStretched
  <2>11. Len(t) >= i - 1
    <3>1. Len(t) \in Nat
      BY <2>5
    <3> QED BY <2>4, <2>6, <3>1
  <2>12. Turn(s, i, measurement, cepId, last) = t
    BY <1>1 DEF Turn, t
  <2> QED BY <2>5, <2>8, <2>10, <2>11, <2>12 DEF Good
<1>2. CASE IsPlugin(s[i]) /\ ~ MustGo(s[i], measurement, cepId, last) /\ last
  <2> DEFINE t == [s EXCEPT ![i] = reset(@)]
  <2>0. DOMAIN s = 1 .. n /\ \A j \in 1 .. n : s[j] \in Q
    BY <1>0, ElementOf
  <2>1. reset(s[i]) \in Q /\ Class(reset(s[i])) = Class(s[i]) /\ Written(reset(s[i])) = Written(s[i])
    BY <1>0, <2>0, ResetKeeps
  <2>2. t[i] = reset(s[i]) /\ \A j \in 1 .. n : j # i => t[j] = s[j]
    BY <1>0, <2>0
  <2>3. t \in Seq(Q) /\ Len(t) = n
    <3> HIDE DEF Q
    <3> QED BY <1>0, <2>1
  <2>4. Turn(s, i, measurement, cepId, last) = t
    BY <1>2 DEF Turn
  <2> HIDE DEF t
  <2>5. \A j \in 1 .. n : Class(t[j]) = Class(s[j]) /\ Written(t[j]) = Written(s[j])
    BY <2>1, <2>2
  <2>6. Good(D, t) /\ UsersOwn(t) = UsersOwn(s)
    BY <2>3, <2>5, Rewritten
  <2> QED BY <1>0, <2>3, <2>4, <2>6
<1>3. CASE ~ IsPlugin(s[i]) \/ (~ MustGo(s[i], measurement, cepId, last) /\ ~ last)
  <2>1. Turn(s, i, measurement, cepId, last) = s
    BY <1>3 DEF Turn
  <2> QED BY <1>0, <2>1
<1> QED BY <1>1, <1>2, <1>3


(* What every turn of the loop keeps, the loop keeps: V are the pairs of a *)
(* list and the number of turns that have been made.                       *)
LEMMA RemoveLoop ==
  ASSUME NEW C, NEW conf, conf.comps \in Seq(C), NEW measurement, NEW cepId,
         NEW V \in SUBSET (Seq(C) \X Nat), <<conf.comps, 0>> \in V,
         \A k \in 1 .. Len(conf.comps) : \A t \in Seq(C) : <<t, k - 1>> \in V =>
            <<Turn(t, Len(conf.comps) + 1 - k, measurement, cepId, conf.reroutes - 1 < 1), k>> \in V
  PROVE  <<removeReroute(conf, measurement, cepId).comps, Len(conf.comps)>> \in V
<1> DEFINE s == conf.comps
           n == Len(conf.comps)
           last == conf.reroutes - 1 < 1
           Body(rest, k) == Turn(rest, n + 1 - k, measurement, cepId, last)
           Def(f) == [k \in 0 .. n |-> IF k = 0 THEN s ELSE Body(f[k - 1], k)]
           loop == CHOOSE f : f = Def(f)
           X == Seq(C)
<1>1. removeReroute(conf, measurement, cepId).comps = loop[n]
  BY DEF removeReroute, Turn
<1>2. s \in X /\ n \in Nat
  OBVIOUS
<1>3. ASSUME NEW k \in 1 .. n, NEW t, <<t, k - 1>> \in V PROVE <<Body(t, k), k>> \in V /\ Body(t, k) \in X
  <2>1. t \in X
    BY <1>3
  <2>2. <<Body(t, k), k>> \in V
    BY <1>3, <2>1
  <2> QED BY <2>2
<1>4. <<s, 0>> \in V
  OBVIOUS
<1> HIDE DEF n, s, last, Body, X
<1> DEFINE step == [k \in 1 .. n |-> [t \in X |-> IF Body(t, k) \in X THEN Body(t, k) ELSE t]]
<1>5. step \in [1 .. n -> [X -> X]]
  OBVIOUS
<1>6. \A k \in 1 .. n, t \in X : Body(t, k) \in X => step[k][t] = Body(t, k)
  OBVIOUS
<1> HIDE DEF step
<1>7. PICK g \in [0 .. n -> X] : g[0] = s /\ \A k \in 1 .. n : g[k] = step[k][g[k - 1]]
  <2>1. \E g : Loops(g, X, s, n, step)
    BY <1>2, <1>5, LoopExists
  <2> QED BY <2>1 DEF Loops
<1>8. \A k \in 0 .. n : <<g[k], k>> \in V
  <2> DEFINE P == {k \in 0 .. n : <<g[k], k>> \in V}
  <2>1. 0 \in P
    <3>1. <<g[0], 0>> = <<s, 0>> /\ 0 \in 0 .. n
      BY <1>2, <1>7
    <3> QED BY <1>4, <3>1
  <2>2. ASSUME NEW k \in 0 .. n - 1, k \in P PROVE k + 1 \in P
    <3>1. PICK m \in 1 .. n : m = k + 1
      BY <1>2
    <3>2. m - 1 = k /\ k \in 0 .. n /\ m \in 0 .. n
      BY <1>2, <3>1
    <3>3. <<g[m - 1], m - 1>> \in V /\ g[m - 1] \in X
      BY <1>7, <2>2, <3>2
    <3>4. <<Body(g[m - 1], m), m>> \in V /\ Body(g[m - 1], m) \in X
      BY <1>3, <3>3
    <3>5. g[m] = Body(g[m - 1], m)
      BY <1>6, <1>7, <3>3, <3>4
    <3>6. m \in P
      BY <3>2, <3>4, <3>5
    <3> QED BY <3>1, <3>6
  <2> HIDE DEF P
  <2>3. \A k \in 0 .. n : k \in P
    BY <1>2, <2>1, <2>2, UpTo
  <2> QED BY <2>3 DEF P
<1>9. \A k \in 1 .. n : g[k] = Body(g[k - 1], k)
  <2>1. ASSUME NEW k \in 1 .. n PROVE g[k] = Body(g[k - 1], k)
    <3>1. k - 1 \in 0 .. n
      BY <1>2
    <3>2. <<g[k - 1], k - 1>> \in V /\ g[k - 1] \in X
      BY <1>7, <1>8, <3>1
    <3>3. Body(g[k - 1], k) \in X
      BY <1>3, <3>2
    <3> QED BY <1>6, <1>7, <3>2, <3>3
  <2> QED BY <2>1
<1>10. g = Def(g)
  <2>1. \A k \in 0 .. n : g[k] = IF k = 0 THEN s ELSE Body(g[k - 1], k)
    <3>1. ASSUME NEW k \in 0 .. n PROVE g[k] = IF k = 0 THEN s ELSE Body(g[k - 1], k)
      <4>1. k = 0 \/ k \in 1 .. n
        BY <1>2
      <4> QED BY <1>7, <1>9, <4>1
    <3> QED BY <3>1
  <2> QED BY <2>1
<1>11. loop = Def(loop)
  <2> HIDE DEF Def
  <2> QED BY <1>10
<1> HIDE DEF loop
<1>12. \A k \in 0 .. n : loop[k] = g[k]
  <2> DEFINE P == {k \in 0 .. n : loop[k] = g[k]}
  <2>0. \A k \in 0 .. n : loop[k] = IF k = 0 THEN s ELSE Body(loop[k - 1], k)
    BY <1>11
  <2>1. 0 \in P
    BY <1>2, <1>7, <2>0
  <2>2. ASSUME NEW k \in 0 .. n - 1, k \in P PROVE k + 1 \in P
    <3>1. PICK m \in 1 .. n : m = k + 1
      BY <1>2
    <3>2. m - 1 = k /\ m \in 0 .. n /\ m # 0
      BY <1>2, <3>1
    <3>3. loop[m] = Body(loop[m - 1], m)
      BY <2>0, <3>2
    <3>4. loop[m - 1] = g[m - 1]
      BY <2>2, <3>2
    <3>5. loop[m] = g[m]
      BY <1>9, <3>3, <3>4
    <3>6. m \in P
      BY <3>2, <3>5
    <3> QED BY <3>1, <3>6
  <2> HIDE DEF P
  <2>3. \A k \in 0 .. n : k \in P
    BY <1>2, <2>1, <2>2, UpTo
  <2> QED BY <2>3 DEF P
<1>13. n \in 0 .. n
  BY <1>2
<1> QED BY <1>1, <1>8, <1>12, <1>13 DEF n

LEMMA RerouteRemoved ==
  ASSUME NEW D, NEW conf, Good(D, conf.comps), NEW measurement \in Names, NEW cepId \in CepIds
  PROVE  LET new == removeReroute(conf, measurement, cepId).comps
         IN  Good(D, new) /\ UsersOwn(new) = UsersOwn(conf.comps)
<1> DEFINE s == conf.comps
           n == Len(conf.comps)
           last == conf.reroutes - 1 < 1
           C == Component(D)
           new == removeReroute(conf, measurement, cepId).comps
           V == {v \in Seq(C) \X Nat :
                   Good(D, v[1]) /\ UsersOwn(v[1]) = UsersOwn(s) /\ Len(v[1]) >= n - v[2]}
<1>1. s \in Seq(C) /\ n \in Nat
  BY DEF Good
<1>2. <<s, 0>> \in V
  BY <1>1
<1>3. ASSUME NEW k \in 1 .. n, NEW t \in Seq(C), <<t, k - 1>> \in V
      PROVE  <<Turn(t, n + 1 - k, measurement, cepId, last), k>> \in V
  <2> HIDE DEF last, C, n
  <2>1. Good(D, t) /\ UsersOwn(t) = UsersOwn(s) /\ Len(t) >= n - (k - 1) /\ Len(t) \in Nat
    BY <1>3
  <2>2. PICK i \in 1 .. Len(t) : i = n + 1 - k
    BY <1>1, <2>1
  <2> DEFINE u == Turn(t, i, measurement, cepId, last)
  <2>3. Good(D, u) /\ UsersOwn(u) = UsersOwn(t) /\ Len(u) >= i - 1
    BY <2>1, TurnKeeps
  <2>4. u \in Seq(C)
    BY <2>3 DEF Good, C
  <2> HIDE DEF u
  <2>5. i - 1 = n - k
    BY <1>1, <2>2
  <2>6. <<u, k>> \in V
    BY <2>1, <2>3, <2>4, <2>5
  <2> QED BY <2>2, <2>6 DEF u
<1>4. V \in SUBSET (Seq(C) \X Nat)
  OBVIOUS
<1> HIDE DEF V
<1>5. <<new, n>> \in V
  BY <1>1, <1>2, <1>3, <1>4, RemoveLoop
<1> HIDE DEF new
<1> QED BY <1>5 DEF V, new

-----------------------------------------------------------------------------
(* Every configuration, the mapper's and the agent's, is good and has what *)
(* the user wrote.                                                         *)
Faithful(comps, file) == (\E D : Good(D, comps)) /\ UsersOwn(comps) = UsersOwn(file)

FileInv ==
  /\ DOMAIN config = Hosts /\ DOMAIN running = Hosts
  /\ \A h \in Hosts : Faithful(config[h].comps, files[h]) /\ Faithful(running[h], files[h])

LEMMA FileInit == Init => FileInv
<1> SUFFICES ASSUME Init PROVE FileInv
  OBVIOUS
<1>1. /\ files \in Files /\ running = files
      /\ config = [h \in Hosts |-> [comps |-> files[h], reroutes |-> 0]]
  BY DEF Init
<1>2. files \in [Hosts -> Seq(Component(STRING))]
  BY <1>1, FilesAssumption
<1>3. ASSUME NEW h \in Hosts PROVE Good(STRING, files[h])
  <2> DEFINE s == files[h]
  <2>1. FromParser(s)
    BY <1>1, FilesAssumption
  <2>2. s \in Seq(Component(STRING))
    BY <1>2
  <2> HIDE DEF s
  <2>3. Good(STRING, s)
    BY <2>1, <2>2, GoodFile
  <2> QED BY <2>3 DEF s
<1>4. DOMAIN config = Hosts /\ DOMAIN running = Hosts
  BY <1>1, <1>2
<1>5. \A h \in Hosts : config[h].comps = files[h] /\ running[h] = files[h]
  BY <1>1
<1> QED BY <1>3, <1>4, <1>5 DEF FileInv, Faithful

LEMMA Saved ==
  ASSUME FileInv, NEW x, NEW new, saveConfig(x, new), files' = files,
         x \in Hosts => Faithful(new.comps, files[x])
  PROVE  FileInv'
<1>1. config' = [config EXCEPT ![x] = new]
  BY DEF saveConfig
<1>2. running' = running \/ running' = [running EXCEPT ![x] = new.comps]
  BY DEF saveConfig
<1>3. DOMAIN config' = Hosts /\ DOMAIN running' = Hosts
  BY <1>1, <1>2 DEF FileInv
<1>4. ASSUME NEW h \in Hosts
      PROVE  Faithful(config'[h].comps, files[h]) /\ Faithful(running'[h], files[h])
  <2>1. config'[h] = config[h] \/ (h = x /\ config'[h] = new)
    BY <1>1 DEF FileInv
  <2>2. running'[h] = running[h] \/ (h = x /\ running'[h] = new.comps)
    BY <1>2 DEF FileInv
  <2> QED BY <2>1, <2>2 DEF FileInv
<1>5. \A h \in Hosts : Faithful(config[h].comps, files[h])' /\ Faithful(running[h], files[h])'
  BY <1>4 DEF Faithful
<1> QED BY <1>3, <1>5 DEF FileInv

-----------------------------------------------------------------------------
(* Alert trees.                                                            *)
(* Trees with n conditions, on places of W.                                *)
TreesOf(n, W) ==
  [cond : [1 .. n -> W], op : [1 .. n -> W],
   proxied : SUBSET ((1 .. n) \X {1, 2})]

LEMMA KidsAre ==
  ASSUME NEW n \in Nat, NEW k \in 1 .. n
  PROVE  /\ k = 1 => DOMAIN Kids(k) = {1} /\ Kids(k)[1] = Cond(1)
         /\ k = 2 => DOMAIN Kids(k) = {1, 2} /\ Kids(k)[1] = Cond(1) /\ Kids(k)[2] = Cond(2)
         /\ k >= 3 => DOMAIN Kids(k) = {1, 2} /\ Kids(k)[1] = Cond(k) /\ Kids(k)[2] = Op(k - 1)
         /\ Len(Kids(k)) = IF k = 1 THEN 1 ELSE 2
<1>1. CASE k = 1
  <2>1. Kids(k) = [i \in 1 .. 1 |-> Cond(i)]
    BY <1>1 DEF Kids
  <2>2. Kids(k) \in Seq({Cond(1)}) /\ Len(Kids(k)) = 1 /\ DOMAIN Kids(k) = {1} /\ Kids(k)[1] = Cond(1)
    BY <2>1
  <2> QED BY <1>1, <2>2
<1>2. CASE k = 2
  <2>1. Kids(k) = [i \in 1 .. 2 |-> Cond(i)]
    BY <1>2 DEF Kids
  <2>2. Len(Kids(k)) = 2 /\ DOMAIN Kids(k) = {1, 2} /\ Kids(k)[1] = Cond(1) /\ Kids(k)[2] = Cond(2)
    BY <2>1
  <2> QED BY <1>2, <2>2
<1>3. CASE k >= 3
  <2>1. Kids(k) = <<Cond(k), Op(k - 1)>>
    BY <1>3 DEF Kids
  <2> QED BY <1>3, <2>1
<1> QED BY <1>1, <1>2, <1>3

(* What optimizeAlertTree makes of operator k, if the one below is on v.   *)
Chosen(tree, k, v) ==
  IF k = 1 THEN tree.cond[1]
  ELSE IF k = 2 THEN IF tree.cond[1] = tree.cond[2] THEN tree.cond[1] ELSE tree.op[2]
  ELSE IF tree.cond[k] = v THEN v ELSE tree.op[k]

LEMMA ChosenIn ==
  ASSUME NEW W, NEW n \in Nat, NEW tree \in TreesOf(n, W), NEW k \in 1 .. n, NEW v \in W
  PROVE  Chosen(tree, k, v) \in W
<1>1. tree.cond[k] \in W /\ tree.op[k] \in W /\ tree.cond[1] \in W
  BY DEF TreesOf
<1>2. k # 1 => 2 \in 1 .. n
  OBVIOUS
<1>3. k # 1 => tree.op[2] \in W
  BY <1>2 DEF TreesOf
<1> QED BY <1>1, <1>3 DEF Chosen
Optimal(W, tree, n, o) ==
  /\ o \in [1 .. n -> W]
  /\ \A k \in 1 .. n : o[k] = Chosen(tree, k, IF k = 1 THEN Nowhere ELSE o[k - 1])

LEMMA Optimized ==
  ASSUME NEW W, Nowhere \in W, NEW n \in Nat, NEW tree \in TreesOf(n, W)
  PROVE  \E o : Optimal(W, tree, n, o) /\ optimizeAlertTree(tree) = [tree EXCEPT !.op = o]
<1> DEFINE On(k, v) == [j \in DOMAIN Kids(k) |->
                          IF Kids(k)[j][1] = "op" THEN v ELSE tree.cond[Kids(k)[j][2]]]
           Body(k, v) == IF \A j \in DOMAIN On(k, v) : On(k, v)[j] = On(k, v)[1]
                         THEN On(k, v)[1] ELSE tree.op[k]
           Def(f) == [k \in DOMAIN tree.op |-> Body(k, f[k - 1])]
           op == CHOOSE f : f = Def(f)
<1>1. optimizeAlertTree(tree) = [tree EXCEPT !.op = op]
  BY DEF optimizeAlertTree
<1>2. DOMAIN tree.op = 1 .. n
  BY DEF TreesOf
<1>3. ASSUME NEW k \in 1 .. n, NEW v PROVE Body(k, v) = Chosen(tree, k, v)
  <2>1. CASE k = 1
    <3>1. DOMAIN On(k, v) = {1} /\ On(k, v)[1] = tree.cond[1]
      BY <2>1, KidsAre DEF Cond
    <3> HIDE DEF On
    <3> QED BY <2>1, <3>1 DEF Chosen
  <2>2. CASE k = 2
    <3>1. DOMAIN On(k, v) = {1, 2} /\ On(k, v)[1] = tree.cond[1] /\ On(k, v)[2] = tree.cond[2]
      BY <2>2, KidsAre DEF Cond
    <3> HIDE DEF On
    <3> QED BY <2>2, <3>1 DEF Chosen
  <2>3. CASE k >= 3
    <3>1. DOMAIN On(k, v) = {1, 2} /\ On(k, v)[1] = tree.cond[k] /\ On(k, v)[2] = v
      BY <2>3, KidsAre DEF Cond, Op
    <3> HIDE DEF On
    <3> QED BY <2>3, <3>1 DEF Chosen
  <2> QED BY <2>1, <2>2, <2>3
<1> HIDE DEF Body
<1> DEFINE step == [k \in 1 .. n |-> [v \in W |-> Chosen(tree, k, v)]]
<1>4. step \in [1 .. n -> [W -> W]]
  BY ChosenIn
<1>5. Nowhere \in W
  OBVIOUS
<1>6. \A k \in 1 .. n, v \in W : step[k][v] = Chosen(tree, k, v)
  OBVIOUS
<1> HIDE DEF step
<1> DEFINE base == Nowhere
<1> HIDE DEF base
<1>7. PICK g : Loops(g, W, base, n, step)
  BY <1>4, <1>5, LoopExists DEF base
<1>8. /\ g \in [0 .. n -> W]
      /\ \A k \in 1 .. n : k - 1 \in 0 .. n /\ g[k - 1] \in W /\ g[k] = Chosen(tree, k, g[k - 1])
  <2>1. g \in [0 .. n -> W] /\ \A k \in 1 .. n : g[k] = step[k][g[k - 1]]
    BY <1>7 DEF Loops
  <2>2. \A k \in 1 .. n : k - 1 \in 0 .. n
    OBVIOUS
  <2>3. \A k \in 1 .. n : g[k - 1] \in W
    BY <2>1, <2>2
  <2> QED BY <1>6, <2>1, <2>2, <2>3
<1> DEFINE f == [k \in 1 .. n |-> g[k]]
<1>9. \A k \in 1 .. n : \A v, w : k = 1 => Chosen(tree, k, v) = Chosen(tree, k, w)
  BY DEF Chosen
<1>10. ASSUME NEW k \in 1 .. n PROVE f[k] = Chosen(tree, k, f[k - 1])
  <2>1. CASE k = 1
    BY <1>8, <1>9, <2>1
  <2>2. CASE k # 1
    <3>1. k - 1 \in 1 .. n
      BY <2>2
    <3> QED BY <1>8, <3>1
  <2> QED BY <2>1, <2>2
<1>11. f = Def(f)
  <2> HIDE DEF f
  <2>0. f = [k \in 1 .. n |-> f[k]]
    BY DEF f
  <2>1. \A k \in 1 .. n : f[k] = Body(k, f[k - 1])
    BY <1>3, <1>10
  <2> QED BY <1>2, <2>0, <2>1
<1> HIDE DEF f
<1>12. op = Def(op)
  <2> HIDE DEF Def
  <2> QED BY <1>11
<1> HIDE DEF op
<1>13. op = [k \in 1 .. n |-> Body(k, op[k - 1])]
  BY <1>2, <1>12
<1>14. \A k \in 1 .. n : op[k] = Chosen(tree, k, op[k - 1])
  <2>1. \A k \in 1 .. n : op[k] = Body(k, op[k - 1])
    BY <1>13
  <2> QED BY <1>3, <2>1
<1>15. \A k \in 0 .. n : k = 0 \/ op[k] \in W
  <2> DEFINE P == {k \in 0 .. n : k = 0 \/ op[k] \in W}
  <2>1. 0 \in P
    OBVIOUS
  <2>2. ASSUME NEW k \in 0 .. n - 1, k \in P PROVE k + 1 \in P
    <3>1. PICK m \in 1 .. n : m = k + 1
      OBVIOUS
    <3>2. op[m] = Chosen(tree, m, IF m = 1 THEN Nowhere ELSE op[m - 1])
      BY <1>9, <1>14
    <3>3. (IF m = 1 THEN Nowhere ELSE op[m - 1]) \in W
      BY <1>5, <2>2, <3>1
    <3>4. op[m] \in W
      BY <3>2, <3>3, ChosenIn
    <3> QED BY <3>1, <3>4
  <2> HIDE DEF P
  <2>3. \A k \in 0 .. n : k \in P
    BY <2>1, <2>2, UpTo
  <2> QED BY <2>3 DEF P
<1>16. Optimal(W, tree, n, op)
  <2>1. \A k \in 1 .. n : op[k] = Chosen(tree, k, IF k = 1 THEN Nowhere ELSE op[k - 1])
    BY <1>9, <1>14
  <2>2. \A k \in 1 .. n : op[k] \in W
    BY <1>15
  <2> QED BY <1>13, <2>1, <2>2 DEF Optimal
<1> QED BY <1>1, <1>16


LEMMA OptimizedAgain ==
  ASSUME NEW W, NEW n \in Nat, NEW tree, NEW o, Optimal(W, tree, n, o),
         NEW best, best.cond = tree.cond, best.op = o, NEW q, Optimal(W, best, n, q)
  PROVE  q = o
<1> DEFINE P == {k \in 0 .. n : k = 0 \/ q[k] = o[k]}
<1>1. 0 \in P
  OBVIOUS
<1>2. ASSUME NEW k \in 0 .. n - 1, k \in P PROVE k + 1 \in P
  <2>1. PICK m \in 1 .. n : m = k + 1
    OBVIOUS
  <2>2. o[m] = Chosen(tree, m, IF m = 1 THEN Nowhere ELSE o[m - 1])
    BY DEF Optimal
  <2>3. q[m] = Chosen(best, m, IF m = 1 THEN Nowhere ELSE q[m - 1])
    BY DEF Optimal
  <2>4. m = 1 \/ q[m - 1] = o[m - 1]
    BY <1>2, <2>1
  <2>5. q[m] = o[m]
    BY <2>2, <2>3, <2>4 DEF Chosen
  <2> QED BY <2>1, <2>5
<1> HIDE DEF P
<1>3. \A k \in 0 .. n : k \in P
  BY <1>1, <1>2, UpTo
<1>4. \A k \in 1 .. n : q[k] = o[k]
  BY <1>3 DEF P
<1>5. q \in [1 .. n -> W] /\ o \in [1 .. n -> W]
  BY DEF Optimal
<1> QED BY <1>4, <1>5

-----------------------------------------------------------------------------
(* The trees that are placed.  H are the hosts.                            *)
Leaves(n, H) == {Cond(i) : i \in 1 .. n} \union {<<"proxy", h>> : h \in H}

LocalTrees(n, H) ==
  [root : {Cond(i) : i \in 1 .. n} \union {Op(k) : k \in 1 .. n}, host : H,
   conds : Seq(Leaves(n, H))]

LEMMA FlattenType ==
  ASSUME NEW S, NEW w \in Seq(Seq(S))
  PROVE  FlattenSeq(w) \in Seq(S)
<1>1. PICK F : Concats(F, S, w)
  BY ConcatsExist
<1>2. FlattenSeq(w) = F[Len(w)]
  BY <1>1, FlattenIs
<1>3. Len(w) \in 0 .. Len(w)
  OBVIOUS
<1> QED BY <1>1, <1>2, <1>3 DEF Concats

(* A function on the children of an operator is a sequence.                *)
LEMMA OverKids ==
  ASSUME NEW n \in Nat, NEW k \in 1 .. n, NEW S, NEW w, DOMAIN w = DOMAIN Kids(k),
         w = [j \in DOMAIN w |-> w[j]], \A j \in DOMAIN Kids(k) : w[j] \in S
  PROVE  w \in Seq(S)
<1>1. PICK m \in 1 .. 2 : DOMAIN Kids(k) = 1 .. m
  <2>1. CASE k = 1
    <3>1. DOMAIN Kids(k) = 1 .. 1
      BY <2>1, KidsAre
    <3> QED BY <3>1
  <2>2. CASE k # 1
    <3>1. DOMAIN Kids(k) = 1 .. 2
      <4>1. k = 2 \/ k >= 3
        BY <2>2
      <4>2. DOMAIN Kids(k) = {1, 2}
        BY <4>1, KidsAre
      <4> QED BY <4>2
    <3> QED BY <3>1
  <2> QED BY <2>1, <2>2
<1>2. w \in [1 .. m -> S]
  BY <1>1
<1> QED BY <1>2

(* The children of an operator: conditions, and the operator below.        *)
LEMMA KidIs ==
  ASSUME NEW n \in Nat, NEW k \in 1 .. n, NEW j \in DOMAIN Kids(k)
  PROVE  \/ \E i \in 1 .. k : Kids(k)[j] = Cond(i) /\ Kids(k)[j][1] = "cond" /\ Kids(k)[j][2] = i
         \/ k >= 3 /\ j = 2 /\ Kids(k)[j] = Op(k - 1) /\ Kids(k)[j][1] = "op" /\ Kids(k)[j][2] = k - 1
<1>1. CASE k = 1
  <2>1. j = 1 /\ Kids(k)[j] = Cond(1)
    BY <1>1, KidsAre
  <2> QED BY <2>1 DEF Cond
<1>2. CASE k = 2
  <2>1. j \in {1, 2} /\ Kids(k)[j] = Cond(j)
    BY <1>2, KidsAre
  <2> QED BY <1>2, <2>1 DEF Cond
<1>3. CASE k >= 3
  <2>1. (j = 1 /\ Kids(k)[j] = Cond(k)) \/ (j = 2 /\ Kids(k)[j] = Op(k - 1))
    BY <1>3, KidsAre
  <2> QED BY <1>3, <2>1 DEF Cond, Op
<1> QED BY <1>1, <1>2, <1>3


(* A recursion along the operators.                                        *)
Chain(f, V, base, n, step) ==
  /\ f \in [1 .. n -> V]
  /\ \A k \in 1 .. n : f[k] = step[k][IF k = 1 THEN base ELSE f[k - 1]]

LEMMA ChainExists ==
  ASSUME NEW V, NEW base \in V, NEW n \in Nat, NEW step \in [1 .. n -> [V -> V]]
  PROVE  \E f : Chain(f, V, base, n, step)
<1>1. PICK g : Loops(g, V, base, n, step)
  BY LoopExists
<1>2. g \in [0 .. n -> V] /\ g[0] = base /\ \A k \in 1 .. n : g[k] = step[k][g[k - 1]]
  BY <1>1 DEF Loops
<1> DEFINE f == [k \in 1 .. n |-> g[k]]
<1>3. f \in [1 .. n -> V]
  BY <1>2
<1>4. ASSUME NEW k \in 1 .. n PROVE f[k] = step[k][IF k = 1 THEN base ELSE f[k - 1]]
  <2>1. CASE k = 1
    BY <1>2, <2>1
  <2>2. CASE k # 1
    <3>1. k - 1 \in 1 .. n
      BY <2>2
    <3> QED BY <1>2, <2>2, <3>1
  <2> QED BY <2>1, <2>2
<1> HIDE DEF f
<1>5. Chain(f, V, base, n, step)
  BY <1>3, <1>4 DEF Chain
<1> QED BY <1>5

(* What is below the operators: conditions and proxies.                    *)
LEMMA BelowType ==
  ASSUME NEW H, NEW n \in Nat, NEW tree \in TreesOf(n, H \union {Nowhere}), NEW replaced,
         \A k \in 1 .. n : \A j \in DOMAIN Kids(k) :
            <<k, j>> \in replaced => deployOn(tree, Kids(k)[j]) \in H
  PROVE  \A k \in 1 .. n : ConditionsBelow(tree, replaced)[k] \in Seq(Leaves(n, H))
<1> DEFINE V == Seq(Leaves(n, H))
           Part(k, v) == [j \in DOMAIN Kids(k) |->
                            IF <<k, j>> \in replaced THEN <<Proxy(tree, Kids(k)[j])>>
                            ELSE IF Kids(k)[j][1] = "op" THEN v
                            ELSE <<Kids(k)[j]>>]
           Body(k, v) == FlattenSeq(Part(k, v))
           Def(f) == [k \in DOMAIN tree.op |-> Body(k, f[k - 1])]
           below == CHOOSE f : f = Def(f)
<1>1. ConditionsBelow(tree, replaced) = below
  BY DEF ConditionsBelow
<1>2. DOMAIN tree.op = 1 .. n
  BY DEF TreesOf
<1>3. ASSUME NEW k \in 1 .. n, NEW v, k < 3 \/ v \in V PROVE Body(k, v) \in V
  <2>1. ASSUME NEW j \in DOMAIN Kids(k) PROVE Part(k, v)[j] \in V
    <3>1. Part(k, v)[j] = IF <<k, j>> \in replaced THEN <<Proxy(tree, Kids(k)[j])>>
                          ELSE IF Kids(k)[j][1] = "op" THEN v ELSE <<Kids(k)[j]>>
      OBVIOUS
    <3> HIDE DEF Part
    <3>2. CASE <<k, j>> \in replaced
      <4>1. Proxy(tree, Kids(k)[j]) \in Leaves(n, H)
        BY <3>2 DEF Proxy, Leaves
      <4> QED BY <3>1, <3>2, <4>1
    <3>3. CASE <<k, j>> \notin replaced /\ Kids(k)[j][1] = "op"
      <4>1. k >= 3
        BY <3>3, KidIs
      <4> QED BY <1>3, <3>1, <3>3, <4>1
    <3>4. CASE <<k, j>> \notin replaced /\ Kids(k)[j][1] # "op"
      <4>1. \E i \in 1 .. k : Kids(k)[j] = Cond(i)
        BY <3>4, KidIs
      <4>2. Kids(k)[j] \in Leaves(n, H)
        BY <4>1 DEF Leaves
      <4> QED BY <3>1, <3>4, <4>2
    <3> QED BY <3>2, <3>3, <3>4
  <2>2. DOMAIN Part(k, v) = DOMAIN Kids(k) /\ Part(k, v) = [j \in DOMAIN Part(k, v) |-> Part(k, v)[j]]
    OBVIOUS
  <2> DEFINE w == Part(k, v)
  <2> HIDE DEF Part, V
  <2>3. DOMAIN w = DOMAIN Kids(k) /\ w = [j \in DOMAIN w |-> w[j]] /\ \A j \in DOMAIN Kids(k) : w[j] \in V
    BY <2>1, <2>2
  <2> HIDE DEF w
  <2>4. w \in Seq(V)
    BY <2>3, OverKids
  <2>5. FlattenSeq(w) \in V
    BY <2>4, FlattenType DEF V
  <2> QED BY <2>5 DEF w
<1>4. ASSUME NEW k \in 1 .. n, k < 3, NEW v, NEW u PROVE Body(k, v) = Body(k, u)
  <2>1. \A j \in DOMAIN Kids(k) : Kids(k)[j][1] # "op"
    BY <1>4, KidIs
  <2>2. Part(k, v) = Part(k, u)
    BY <2>1
  <2> HIDE DEF Part
  <2> QED BY <2>2
<1> HIDE DEF Body, V
<1> DEFINE step == [k \in 1 .. n |-> [v \in V |-> Body(k, v)]]
           base == <<>>
<1>5. base \in V
  BY DEF V
<1>6. step \in [1 .. n -> [V -> V]] /\ \A k \in 1 .. n, v \in V : step[k][v] = Body(k, v)
  BY <1>3
<1> HIDE DEF step, base
<1>7. PICK f \in [1 .. n -> V] : \A k \in 1 .. n : f[k] = step[k][IF k = 1 THEN base ELSE f[k - 1]]
  <2>1. \E f : Chain(f, V, base, n, step)
    BY <1>5, <1>6, ChainExists
  <2> QED BY <2>1 DEF Chain
<1>8. ASSUME NEW k \in 1 .. n PROVE f[k] = Body(k, f[k - 1])
  <2>1. CASE k = 1
    <3>1. f[k] = Body(k, base)
      BY <1>5, <1>6, <1>7, <2>1
    <3> QED BY <1>4, <2>1, <3>1
  <2>2. CASE k # 1
    <3>1. k - 1 \in 1 .. n
      BY <2>2
    <3>2. f[k - 1] \in V /\ f[k] = step[k][f[k - 1]]
      BY <1>7, <2>2, <3>1
    <3> QED BY <1>6, <3>2
  <2> QED BY <2>1, <2>2
<1>9. f = Def(f)
  BY <1>2, <1>7, <1>8
<1>10. below = Def(below)
  <2> HIDE DEF Def
  <2> QED BY <1>9
<1> HIDE DEF below
<1>11. \A k \in 1 .. n : below[k] = Body(k, below[k - 1])
  BY <1>2, <1>10
<1> DEFINE P == {k \in 0 .. n : k = 0 \/ below[k] \in V}
<1>12. 0 \in P
  OBVIOUS
<1>13. ASSUME NEW k \in 0 .. n - 1, k \in P PROVE k + 1 \in P
  <2>1. PICK m \in 1 .. n : m = k + 1
    OBVIOUS
  <2>2. below[m] = Body(m, below[m - 1])
    BY <1>11
  <2>3. m < 3 \/ below[m - 1] \in V
    BY <1>13, <2>1
  <2>4. below[m] \in V
    BY <1>3, <2>2, <2>3
  <2> QED BY <2>1, <2>4
<1> HIDE DEF P
<1>14. \A k \in 0 .. n : k \in P
  BY <1>12, <1>13, UpTo
<1>15. \A k \in 1 .. n : below[k] \in V
  BY <1>14 DEF P
<1> QED BY <1>1, <1>15 DEF V


LEMMA OneOf ==
  ASSUME NEW S, NEW x \in S
  PROVE  <<x>> \in Seq(S)
OBVIOUS

LEMMA OpsLen ==
  ASSUME NEW W, NEW n \in Nat, NEW tree \in TreesOf(n, W)
  PROVE  Len(tree.op) = n /\ DOMAIN tree.op = 1 .. n /\ DOMAIN tree.cond = 1 .. n
<1>1. tree.op \in [1 .. n -> W] /\ tree.cond \in [1 .. n -> W]
  BY DEF TreesOf
<1> QED BY <1>1

LEMMA MovedTo ==
  ASSUME NEW H, NEW n \in Nat, NEW tree \in TreesOf(n, H \union {Nowhere}),
         NEW k \in 1 .. n, NEW j \in DOMAIN Kids(k)
  PROVE  /\ deployOn(tree, Kids(k)[j]) \in H \union {Nowhere}
         /\ Moved(tree, k, j) => deployOn(tree, Kids(k)[j]) \in H
<1>1. deployOn(tree, Kids(k)[j]) \in H \union {Nowhere}
  <2>1. CASE \E i \in 1 .. k : Kids(k)[j] = Cond(i) /\ Kids(k)[j][1] = "cond" /\ Kids(k)[j][2] = i
    <3>1. PICK i \in 1 .. k : Kids(k)[j][1] = "cond" /\ Kids(k)[j][2] = i
      BY <2>1
    <3>2. i \in 1 .. n
      OBVIOUS
    <3>3. deployOn(tree, Kids(k)[j]) = tree.cond[i]
      BY <3>1 DEF deployOn
    <3> QED BY <3>2, <3>3 DEF TreesOf
  <2>2. CASE k >= 3 /\ Kids(k)[j][1] = "op" /\ Kids(k)[j][2] = k - 1
    <3>1. k - 1 \in 1 .. n
      BY <2>2
    <3>2. deployOn(tree, Kids(k)[j]) = tree.op[k - 1]
      BY <2>2 DEF deployOn
    <3> QED BY <3>1, <3>2 DEF TreesOf
  <2> QED BY <2>1, <2>2, KidIs
<1>2. Moved(tree, k, j) => deployOn(tree, Kids(k)[j]) # Nowhere
  BY DEF Moved
<1> QED BY <1>1, <1>2

LEMMA RootType ==
  ASSUME NEW H, NEW n \in Nat, NEW tree \in TreesOf(n, H \union {Nowhere}), NEW k \in 1 .. n
  PROVE  RootConditions(tree, k) \in Seq(Leaves(n, H))
<1> DEFINE V == Seq(Leaves(n, H))
           replaced == ReplacedBelow(tree)
           below == ConditionsBelow(tree, replaced)
           w == [j \in DOMAIN Kids(k) |->
                   IF Moved(tree, k, j) THEN <<Proxy(tree, Kids(k)[j])>>
                   ELSE IF Kids(k)[j][1] = "op" THEN below[k - 1]
                   ELSE <<Kids(k)[j]>>]
<1>1. \A m \in 1 .. n : \A j \in DOMAIN Kids(m) :
         <<m, j>> \in replaced => deployOn(tree, Kids(m)[j]) \in H
  <2>1. ASSUME NEW m \in 1 .. n, NEW j \in DOMAIN Kids(m), <<m, j>> \in replaced
        PROVE  deployOn(tree, Kids(m)[j]) \in H
    <3>1. Moved(tree, m, j)
      BY <2>1 DEF ReplacedBelow
    <3> QED BY <3>1, MovedTo
  <2> QED BY <2>1
<1> HIDE DEF replaced
<1>2. \A m \in 1 .. n : below[m] \in V
  BY <1>1, BelowType
<1> HIDE DEF below
<1>3. ASSUME NEW j \in DOMAIN Kids(k) PROVE w[j] \in V
  <2>1. CASE Moved(tree, k, j)
    <3>1. Proxy(tree, Kids(k)[j]) \in Leaves(n, H)
      BY <2>1, MovedTo DEF Proxy, Leaves
    <3>2. w[j] = <<Proxy(tree, Kids(k)[j])>>
      BY <2>1
    <3>3. <<Proxy(tree, Kids(k)[j])>> \in V
      BY <3>1, OneOf
    <3> QED BY <3>2, <3>3
  <2>2. CASE ~ Moved(tree, k, j) /\ Kids(k)[j][1] = "op"
    <3>1. k >= 3
      BY <2>2, KidIs
    <3>2. k - 1 \in 1 .. n
      BY <3>1
    <3>3. w[j] = below[k - 1]
      BY <2>2
    <3> QED BY <1>2, <3>2, <3>3
  <2>3. CASE ~ Moved(tree, k, j) /\ Kids(k)[j][1] # "op"
    <3>1. \E i \in 1 .. k : Kids(k)[j] = Cond(i)
      BY <2>3, KidIs
    <3>2. Kids(k)[j] \in Leaves(n, H)
      BY <3>1 DEF Leaves
    <3>3. w[j] = <<Kids(k)[j]>>
      BY <2>3
    <3>4. <<Kids(k)[j]>> \in V
      BY <3>2, OneOf
    <3> QED BY <3>3, <3>4
  <2> QED BY <2>1, <2>2, <2>3
<1>4. DOMAIN w = DOMAIN Kids(k) /\ w = [j \in DOMAIN w |-> w[j]]
  OBVIOUS
<1>5. RootConditions(tree, k) = FlattenSeq(w)
  BY DEF RootConditions, below, replaced
<1> HIDE DEF w, V
<1>6. w \in Seq(V)
  BY <1>3, <1>4, OverKids
<1>7. FlattenSeq(w) \in V
  BY <1>6, FlattenType DEF V
<1> QED BY <1>5, <1>7 DEF V


LEMMA LocalType ==
  ASSUME NEW H, NEW n \in Nat, n >= 1, NEW tree \in TreesOf(n, H \union {Nowhere}),
         \A i \in 1 .. n : tree.cond[i] \in H
  PROVE  getLocallyPlaceableAlertTrees(tree) \in Seq(LocalTrees(n, H))
<1> DEFINE V == Seq(LocalTrees(n, H))
           Own(k, j) == [root |-> Kids(k)[j], host |-> deployOn(tree, Kids(k)[j]),
                         conds |-> <<Kids(k)[j]>>]
           Root(k) == [root |-> Op(k), host |-> tree.op[k], conds |-> RootConditions(tree, k)]
           Part(k, v) == [j \in DOMAIN Kids(k) |->
                            IF Kids(k)[j][1] = "op" THEN v
                            ELSE IF IsNewRootChild(tree, k, j) THEN <<Own(k, j)>> ELSE <<>>]
           Up(k) == IF tree.op[k] # Nowhere /\ IsNewRoot(tree, k) THEN <<Root(k)>> ELSE <<>>
           Body(k, v) == FlattenSeq(Part(k, v)) \o Up(k)
           Def(f) == [k \in DOMAIN tree.op |-> Body(k, f[k - 1])]
           trees == CHOOSE f : f = Def(f)
<1>1. getLocallyPlaceableAlertTrees(tree) = trees[Len(tree.op)]
  BY DEF getLocallyPlaceableAlertTrees
<1>2. DOMAIN tree.op = 1 .. n /\ Len(tree.op) = n
  BY OpsLen
<1>e. <<>> \in V
  OBVIOUS
<1>u. ASSUME NEW k \in 1 .. n PROVE Up(k) \in V
  <2>1. CASE tree.op[k] # Nowhere /\ IsNewRoot(tree, k)
    <3>1. tree.op[k] \in H
      BY <2>1 DEF TreesOf
    <3>2. RootConditions(tree, k) \in Seq(Leaves(n, H))
      BY RootType
    <3>3. Root(k) \in LocalTrees(n, H)
      BY <3>1, <3>2 DEF LocalTrees
    <3>4. Up(k) = <<Root(k)>>
      BY <2>1
    <3> HIDE DEF Up, Root
    <3> QED BY <3>3, <3>4, OneOf
  <2>2. CASE ~ (tree.op[k] # Nowhere /\ IsNewRoot(tree, k))
    <3>1. Up(k) = <<>>
      BY <2>2
    <3> QED BY <1>e, <3>1
  <2> QED BY <2>1, <2>2
<1> HIDE DEF Up
<1>3. ASSUME NEW k \in 1 .. n, NEW v, k < 3 \/ v \in V PROVE Body(k, v) \in V
  <2> DEFINE w == Part(k, v)
  <2>1. ASSUME NEW j \in DOMAIN Kids(k) PROVE w[j] \in V
    <3>1. w[j] = IF Kids(k)[j][1] = "op" THEN v
                 ELSE IF IsNewRootChild(tree, k, j) THEN <<Own(k, j)>> ELSE <<>>
      OBVIOUS
    <3> HIDE DEF w
    <3>2. CASE Kids(k)[j][1] = "op"
      <4>1. k >= 3
        BY <3>2, KidIs
      <4> QED BY <1>3, <3>1, <3>2, <4>1
    <3>3. CASE Kids(k)[j][1] # "op" /\ IsNewRootChild(tree, k, j)
      <4>1. PICK i \in 1 .. k : Kids(k)[j] = Cond(i) /\ Kids(k)[j][1] = "cond" /\ Kids(k)[j][2] = i
        BY <3>3, KidIs
      <4>2. i \in 1 .. n
        OBVIOUS
      <4>3. deployOn(tree, Kids(k)[j]) \in H
        BY <4>1, <4>2 DEF deployOn
      <4>4. Kids(k)[j] \in Leaves(n, H)
        BY <4>1, <4>2 DEF Leaves
      <4>5. <<Kids(k)[j]>> \in Seq(Leaves(n, H))
        BY <4>4, OneOf
      <4>6. Kids(k)[j] \in {Cond(m) : m \in 1 .. n}
        BY <4>1, <4>2
      <4>7. Own(k, j) \in LocalTrees(n, H)
        BY <4>3, <4>5, <4>6 DEF LocalTrees
      <4> HIDE DEF Own
      <4>8. <<Own(k, j)>> \in V
        BY <4>7, OneOf
      <4> QED BY <3>1, <3>3, <4>8
    <3>4. CASE Kids(k)[j][1] # "op" /\ ~ IsNewRootChild(tree, k, j)
      <4> HIDE DEF V
      <4> QED BY <1>e, <3>1, <3>4
    <3> QED BY <3>2, <3>3, <3>4
  <2>2. DOMAIN w = DOMAIN Kids(k) /\ w = [j \in DOMAIN w |-> w[j]]
    OBVIOUS
  <2> HIDE DEF w, V
  <2>4. w \in Seq(V)
    BY <2>1, <2>2, OverKids
  <2>5. FlattenSeq(w) \in V
    BY <2>4, FlattenType DEF V
  <2>6. FlattenSeq(w) \o Up(k) \in V
    BY <1>u, <2>5 DEF V
  <2> QED BY <2>6 DEF w
<1>4. ASSUME NEW k \in 1 .. n, k < 3, NEW v, NEW u PROVE Body(k, v) = Body(k, u)
  <2>1. \A j \in DOMAIN Kids(k) : Kids(k)[j][1] # "op"
    BY <1>4, KidIs
  <2>2. Part(k, v) = Part(k, u)
    BY <2>1
  <2> HIDE DEF Part
  <2> QED BY <2>2
<1> HIDE DEF Body, V
<1> DEFINE step == [k \in 1 .. n |-> [v \in V |-> Body(k, v)]]
           base == <<>>
<1>5. base \in V
  BY <1>e
<1>6. step \in [1 .. n -> [V -> V]] /\ \A k \in 1 .. n, v \in V : step[k][v] = Body(k, v)
  BY <1>3
<1> HIDE DEF step, base
<1>7. PICK f \in [1 .. n -> V] : \A k \in 1 .. n : f[k] = step[k][IF k = 1 THEN base ELSE f[k - 1]]
  <2>1. \E f : Chain(f, V, base, n, step)
    BY <1>5, <1>6, ChainExists
  <2> QED BY <2>1 DEF Chain
<1>8. ASSUME NEW k \in 1 .. n PROVE f[k] = Body(k, f[k - 1])
  <2>1. CASE k = 1
    <3>1. f[k] = Body(k, base)
      BY <1>5, <1>6, <1>7, <2>1
    <3> QED BY <1>4, <2>1, <3>1
  <2>2. CASE k # 1
    <3>1. k - 1 \in 1 .. n
      BY <2>2
    <3>2. f[k - 1] \in V /\ f[k] = step[k][f[k - 1]]
      BY <1>7, <2>2, <3>1
    <3> QED BY <1>6, <3>2
  <2> QED BY <2>1, <2>2
<1>9. f = Def(f)
  BY <1>2, <1>7, <1>8
<1>10. trees = Def(trees)
  <2> HIDE DEF Def
  <2> QED BY <1>9
<1> HIDE DEF trees
<1>11. \A k \in 1 .. n : trees[k] = Body(k, trees[k - 1])
  BY <1>2, <1>10
<1> DEFINE P == {k \in 0 .. n : k = 0 \/ trees[k] \in V}
<1>12. 0 \in P
  OBVIOUS
<1>13. ASSUME NEW k \in 0 .. n - 1, k \in P PROVE k + 1 \in P
  <2>1. PICK m \in 1 .. n : m = k + 1
    OBVIOUS
  <2>2. trees[m] = Body(m, trees[m - 1])
    BY <1>11
  <2>3. m < 3 \/ trees[m - 1] \in V
    BY <1>13, <2>1
  <2>4. trees[m] \in V
    BY <1>3, <2>2, <2>3
  <2> QED BY <2>1, <2>4
<1> HIDE DEF P
<1>14. \A k \in 0 .. n : k \in P
  BY <1>12, <1>13, UpTo
<1>15. trees[n] \in V
  BY <1>14 DEF P
<1> QED BY <1>1, <1>2, <1>15 DEF V


-----------------------------------------------------------------------------
(* The calls of an alert: one is the call for a statement, two that for a  *)
(* reroute, three the last one.                                            *)
N(a) == Len(Alerts[a].conds)

Meant(a, w) ==
  \/ w.proxy = TRUE /\ w.cepId = Null /\ w.measurement = Alerts[a].id
  \/ w.proxy = FALSE /\ \E i \in 1 .. N(a) :
       /\ w.cepId = Alerts[a].conds[i].name
       /\ w.measurement = Alerts[a].conds[i].measurement

Whats(a) ==
  {w \in [source : Hosts, measurement : STRING, cepId : STRING \union {Null},
          proxy : BOOLEAN, aggregates : BOOLEAN] : Meant(a, w)}

Roots(n) == {Cond(i) : i \in 1 .. n} \union {Op(k) : k \in 1 .. n}

StatementCalls(a, one) == {Call(one, h, <<a, r>>) : h \in Hosts, r \in Roots(N(a))}
RerouteCalls(a, two)   == {Call(two, h, w) : h \in Hosts, w \in Whats(a)}

CallsFor(a, one, two, three) ==
  StatementCalls(a, one) \union RerouteCalls(a, two) \union {Call(three, "", a)}

LEMMA CallIn ==
  ASSUME NEW a, NEW one, NEW two, NEW three, NEW h \in Hosts
  PROVE  /\ \A r \in Roots(N(a)) : Call(one, h, <<a, r>>) \in CallsFor(a, one, two, three)
         /\ \A w \in Whats(a) : Call(two, h, w) \in CallsFor(a, one, two, three)
         /\ Call(three, "", a) \in CallsFor(a, one, two, three)
<1>1. \A r \in Roots(N(a)) : Call(one, h, <<a, r>>) \in StatementCalls(a, one)
  BY DEF StatementCalls
<1>2. \A w \in Whats(a) : Call(two, h, w) \in RerouteCalls(a, two)
  BY DEF RerouteCalls
<1> QED BY <1>1, <1>2 DEF CallsFor

LEMMA AlertIs ==
  ASSUME NEW a \in Ids
  PROVE  /\ N(a) \in Nat /\ N(a) >= 1 /\ DOMAIN Alerts[a].conds = 1 .. N(a) /\ Alerts[a].id \in STRING
         /\ \A i \in 1 .. N(a) :
              /\ Head(Alerts[a].conds[i].sources) \in Hosts
              /\ Alerts[a].conds[i].name \in STRING /\ Alerts[a].conds[i].measurement \in STRING
<1> DEFINE C == [name : STRING, sources : Seq(Hosts), measurement : STRING, query : STRING]
           R == [id : STRING, conds : Seq(C)]
<1>1. Alerts[a] \in R
  <2>1. Alerts \in Seq(R) /\ a \in DOMAIN Alerts
    BY AlertsAssumption DEF Ids
  <2> HIDE DEF R
  <2> QED BY <2>1, ElementOf
<1>2. Alerts[a].conds \in Seq(C) /\ Alerts[a].conds # <<>> /\ Alerts[a].id \in STRING
  BY <1>1, AlertsAssumption DEF Ids
<1>3. N(a) \in Nat /\ N(a) >= 1 /\ DOMAIN Alerts[a].conds = 1 .. N(a)
  BY <1>2 DEF N
<1>4. ASSUME NEW i \in 1 .. N(a)
      PROVE  /\ Head(Alerts[a].conds[i].sources) \in Hosts
             /\ Alerts[a].conds[i].name \in STRING /\ Alerts[a].conds[i].measurement \in STRING
  <2>1. Alerts[a].conds[i] \in C
    <3> HIDE DEF C
    <3> QED BY <1>2, <1>3, ElementOf
  <2>2. Alerts[a].conds[i].sources # <<>>
    BY <1>3, AlertsAssumption DEF Ids
  <2>3. Alerts[a].conds[i].sources \in Seq(Hosts)
    BY <2>1
  <2>4. Head(Alerts[a].conds[i].sources) \in Hosts
    BY <2>2, <2>3
  <2> QED BY <2>1, <2>4
<1> QED BY <1>2, <1>3, <1>4

LEMMA WhatIs ==
  ASSUME NEW a \in Ids, NEW w \in Whats(a)
  PROVE  w.measurement \in Names /\ w.cepId \in CepIds
<1>1. DOMAIN Alerts[a].conds = 1 .. N(a)
  BY AlertIs
<1>2. Meant(a, w)
  BY DEF Whats
<1>3. CASE w.cepId = Null /\ w.measurement = Alerts[a].id
  BY <1>3 DEF Names, CepIds
<1>4. CASE \E i \in 1 .. N(a) : /\ w.cepId = Alerts[a].conds[i].name
                                /\ w.measurement = Alerts[a].conds[i].measurement
  <2>1. PICK i \in 1 .. N(a) : /\ w.cepId = Alerts[a].conds[i].name
                               /\ w.measurement = Alerts[a].conds[i].measurement
    BY <1>4
  <2>2. i \in DOMAIN Alerts[a].conds
    BY <1>1
  <2>3. w.measurement \in {Alerts[a].conds[j].measurement : j \in DOMAIN Alerts[a].conds}
        /\ w.cepId \in {Alerts[a].conds[j].name : j \in DOMAIN Alerts[a].conds}
    BY <2>1, <2>2
  <2> QED BY <2>3 DEF Names, CepIds
<1> QED BY <1>2, <1>3, <1>4 DEF Meant

LEMMA DescribedType ==
  ASSUME NEW a \in Ids, NEW tree, NEW node \in Leaves(N(a), Hosts)
  PROVE  Described(a, tree, node) \in Whats(a)
<1>1. CASE \E h \in Hosts : node = <<"proxy", h>>
  <2>1. PICK h \in Hosts : node = <<"proxy", h>>
    BY <1>1
  <2>2. Described(a, tree, node) = [source |-> h, measurement |-> Alerts[a].id, cepId |-> Null,
                                    proxy |-> TRUE, aggregates |-> FALSE]
    BY <2>1 DEF Described
  <2> QED BY <2>2, AlertIs DEF Whats, Meant
<1>2. CASE \E i \in 1 .. N(a) : node = Cond(i)
  <2>1. PICK i \in 1 .. N(a) : node = Cond(i)
    BY <1>2
  <2> DEFINE agg == i \in policy[a].aggregates
  <2>2. Described(a, tree, node) =
          [source |-> Head(Alerts[a].conds[i].sources),
           measurement |-> Alerts[a].conds[i].measurement,
           cepId |-> Alerts[a].conds[i].name, proxy |-> FALSE, aggregates |-> agg]
    BY <2>1 DEF Described, Cond
  <2>3. agg \in BOOLEAN
    OBVIOUS
  <2> HIDE DEF agg
  <2> QED BY <2>2, <2>3, AlertIs DEF Whats, Meant
<1> QED BY <1>1, <1>2 DEF Leaves

LEMMA LastOf ==
  ASSUME NEW S, NEW s \in Seq(S), NEW x \in S
  PROVE  s \o <<x>> \in Seq(S) /\ s \o <<x>> # <<>> /\ Last(s \o <<x>>) = x
BY DEF Last

LEMMA PlaceType ==
  ASSUME NEW a \in Ids, NEW tree \in TreesOf(N(a), Hosts \union {Nowhere}),
         \A i \in 1 .. N(a) : tree.cond[i] \in Hosts
  PROVE  LET s == placeAlertLocally(a, tree)
         IN  /\ s # <<>> /\ Last(s) = Call("update", "", a)
             /\ s \in Seq(CallsFor(a, "deploy", "reroute", "update"))
<1> DEFINE S == CallsFor(a, "deploy", "reroute", "update")
           trees == getLocallyPlaceableAlertTrees(tree)
           Of(i) == <<Call("deploy", trees[i].host, <<a, trees[i].root>>)>>
                    \o [j \in DOMAIN trees[i].conds |->
                          Call("reroute", trees[i].host, Described(a, tree, trees[i].conds[j]))]
           w == [i \in DOMAIN trees |-> Of(i)]
           last == Call("update", "", a)
<1>0. N(a) \in Nat /\ N(a) >= 1
  BY AlertIs
<1>1. trees \in Seq(LocalTrees(N(a), Hosts))
  BY <1>0, LocalType
<1>2. placeAlertLocally(a, tree) = FlattenSeq(w) \o <<last>>
  BY DEF placeAlertLocally
<1> HIDE DEF trees
<1>3. ASSUME NEW i \in DOMAIN trees PROVE Of(i) \in Seq(S)
  <2> DEFINE t == trees[i]
             rest == [j \in DOMAIN t.conds |-> Call("reroute", t.host, Described(a, tree, t.conds[j]))]
             first == Call("deploy", t.host, <<a, t.root>>)
  <2>1. t \in LocalTrees(N(a), Hosts)
    BY <1>1
  <2> HIDE DEF t
  <2>2. t.root \in Roots(N(a)) /\ t.host \in Hosts /\ t.conds \in Seq(Leaves(N(a), Hosts))
    BY <2>1 DEF LocalTrees, Roots
  <2>3. first \in S
    <3>1. \A h \in Hosts, r \in Roots(N(a)) : Call("deploy", h, <<a, r>>) \in S
      BY CallIn
    <3> HIDE DEF S
    <3> QED BY <2>2, <3>1
  <2>4. \A j \in DOMAIN t.conds : Described(a, tree, t.conds[j]) \in Whats(a)
    BY <2>2, DescribedType
  <2>5. ASSUME NEW j \in DOMAIN t.conds PROVE rest[j] \in S
    <3>1. \A h \in Hosts, v \in Whats(a) : Call("reroute", h, v) \in S
      BY CallIn
    <3> HIDE DEF S
    <3> QED BY <2>2, <2>4, <3>1
  <2>6. DOMAIN t.conds = 1 .. Len(t.conds) /\ Len(t.conds) \in Nat
    BY <2>2
  <2>7. rest \in [1 .. Len(t.conds) -> S]
    <3> HIDE DEF S
    <3> QED BY <2>5, <2>6
  <2>8. Of(i) = <<first>> \o rest
    BY DEF t
  <2> HIDE DEF rest, first, S
  <2>9. rest \in Seq(S)
    BY <2>6, <2>7
  <2>10. <<first>> \in Seq(S)
    BY <2>3, OneOf
  <2>11. <<first>> \o rest \in Seq(S)
    BY <2>9, <2>10, ConcatIs
  <2> QED BY <2>8, <2>11
<1> HIDE DEF Of, S
<1>4. DOMAIN trees = 1 .. Len(trees) /\ Len(trees) \in Nat
  BY <1>1
<1>5. w \in [1 .. Len(trees) -> Seq(S)]
  BY <1>3, <1>4
<1> HIDE DEF w
<1>6. w \in Seq(Seq(S))
  BY <1>4, <1>5
<1>7. FlattenSeq(w) \in Seq(S)
  BY <1>6, FlattenType
<1>8. last \in S
  BY DEF S, CallsFor
<1> HIDE DEF last
<1>9. /\ FlattenSeq(w) \o <<last>> \in Seq(S) /\ FlattenSeq(w) \o <<last>> # <<>>
      /\ Last(FlattenSeq(w) \o <<last>>) = last
  BY <1>7, <1>8, LastOf
<1> QED BY <1>2, <1>9 DEF S, last

LEMMA RevertType ==
  ASSUME NEW a \in Ids, NEW tree \in TreesOf(N(a), Hosts \union {Nowhere}),
         \A i \in 1 .. N(a) : tree.cond[i] \in Hosts
  PROVE  LET s == revertLocalPlacementOfAlert(a, tree)
         IN  /\ s # <<>> /\ Last(s) = Call("restore", "", a)
             /\ s \in Seq(CallsFor(a, "undeploy", "unroute", "restore"))
<1> DEFINE S == CallsFor(a, "undeploy", "unroute", "restore")
           trees == getLocallyPlaceableAlertTrees(tree)
           Of(i) == [j \in DOMAIN trees[i].conds |->
                       Call("unroute", trees[i].host, Described(a, tree, trees[i].conds[j]))]
                    \o <<Call("undeploy", trees[i].host, <<a, trees[i].root>>)>>
           w == [i \in DOMAIN trees |-> Of(i)]
           last == Call("restore", "", a)
<1>0. N(a) \in Nat /\ N(a) >= 1
  BY AlertIs
<1>1. trees \in Seq(LocalTrees(N(a), Hosts))
  BY <1>0, LocalType
<1>2. revertLocalPlacementOfAlert(a, tree) = FlattenSeq(w) \o <<last>>
  BY DEF revertLocalPlacementOfAlert
<1> HIDE DEF trees
<1>3. ASSUME NEW i \in DOMAIN trees PROVE Of(i) \in Seq(S)
  <2> DEFINE t == trees[i]
             rest == [j \in DOMAIN t.conds |-> Call("unroute", t.host, Described(a, tree, t.conds[j]))]
             end == Call("undeploy", t.host, <<a, t.root>>)
  <2>1. t \in LocalTrees(N(a), Hosts)
    BY <1>1
  <2> HIDE DEF t
  <2>2. t.root \in Roots(N(a)) /\ t.host \in Hosts /\ t.conds \in Seq(Leaves(N(a), Hosts))
    BY <2>1 DEF LocalTrees, Roots
  <2>3. end \in S
    <3>1. \A h \in Hosts, r \in Roots(N(a)) : Call("undeploy", h, <<a, r>>) \in S
      BY CallIn
    <3> HIDE DEF S
    <3> QED BY <2>2, <3>1
  <2>4. \A j \in DOMAIN t.conds : Described(a, tree, t.conds[j]) \in Whats(a)
    BY <2>2, DescribedType
  <2>5. ASSUME NEW j \in DOMAIN t.conds PROVE rest[j] \in S
    <3>1. \A h \in Hosts, v \in Whats(a) : Call("unroute", h, v) \in S
      BY CallIn
    <3> HIDE DEF S
    <3> QED BY <2>2, <2>4, <3>1
  <2>6. DOMAIN t.conds = 1 .. Len(t.conds) /\ Len(t.conds) \in Nat
    BY <2>2
  <2>7. rest \in [1 .. Len(t.conds) -> S]
    <3> HIDE DEF S
    <3> QED BY <2>5, <2>6
  <2>8. Of(i) = rest \o <<end>>
    BY DEF t
  <2> HIDE DEF rest, end, S
  <2>9. rest \in Seq(S)
    BY <2>6, <2>7
  <2>10. <<end>> \in Seq(S)
    BY <2>3, OneOf
  <2>11. rest \o <<end>> \in Seq(S)
    BY <2>9, <2>10, ConcatIs
  <2> QED BY <2>8, <2>11
<1> HIDE DEF Of, S
<1>4. DOMAIN trees = 1 .. Len(trees) /\ Len(trees) \in Nat
  BY <1>1
<1>5. w \in [1 .. Len(trees) -> Seq(S)]
  BY <1>3, <1>4
<1> HIDE DEF w
<1>6. w \in Seq(Seq(S))
  BY <1>4, <1>5
<1>7. FlattenSeq(w) \in Seq(S)
  BY <1>6, FlattenType
<1>8. last \in S
  BY DEF S, CallsFor
<1> HIDE DEF last
<1>9. /\ FlattenSeq(w) \o <<last>> \in Seq(S) /\ FlattenSeq(w) \o <<last>> # <<>>
      /\ Last(FlattenSeq(w) \o <<last>>) = last
  BY <1>7, <1>8, LastOf
<1> QED BY <1>2, <1>9 DEF S, last


-----------------------------------------------------------------------------
(* The types.                                                              *)
Somewhere == Hosts \union {Nowhere}

PolicyOK(p) ==
  \A a \in Ids : /\ p[a].cond \in [1 .. N(a) -> Somewhere]
                 /\ p[a].op \in [1 .. N(a) -> Somewhere]

CallsOK ==
  \/ calls = <<>>
  \/ /\ command = "place" /\ alert \in Ids
     /\ calls \in Seq(CallsFor(alert, "deploy", "reroute", "update"))
  \/ /\ command = "undo" /\ alert \in Ids
     /\ calls \in Seq(CallsFor(alert, "undeploy", "unroute", "restore"))

TypeInv ==
  /\ PolicyOK(policy)
  /\ DOMAIN alertTree = Ids /\ alertTree = [a \in Ids |-> alertTree[a]]
  /\ \A a \in Ids : \/ alertTree[a] = NewTree(N(a))
                    \/ alertTree[a] \in TreesOf(N(a), Somewhere)
  /\ \A h \in Hosts : config[h].reroutes \in Int
  /\ DOMAIN statements = Hosts
  /\ \A h \in Hosts : \A s \in statements[h] : s[1] \in Ids
  /\ command \in {"none", "place", "undo"} /\ alert \in 0 .. Len(Alerts) /\ crashed \in BOOLEAN
  /\ CallsOK
  /\ history \in Seq({"place", "undo"}) /\ faults \in Seq(Nat)
  /\ Len(faults) = Len(history) /\ Len(history) <= MaxCommands

LEMMA IdsAre == Len(Alerts) \in Nat /\ Ids = 1 .. Len(Alerts)
  BY AlertsAssumption DEF Ids

LEMMA DefaultPolicyOK == PolicyOK(writeDefaultPoliciesFileForAlerts)
<1> SUFFICES ASSUME NEW a \in Ids
             PROVE  /\ writeDefaultPoliciesFileForAlerts[a].cond \in [1 .. N(a) -> Somewhere]
                    /\ writeDefaultPoliciesFileForAlerts[a].op \in [1 .. N(a) -> Somewhere]
  BY DEF PolicyOK
<1> DEFINE d == writeDefaultPoliciesFileForAlerts[a]
<1>1. /\ d.cond = [i \in DOMAIN Alerts[a].conds |->
                     IF Len(Alerts[a].conds[i].sources) = 1 THEN Head(Alerts[a].conds[i].sources)
                                                            ELSE Nowhere]
      /\ d.op = [k \in DOMAIN Alerts[a].conds |-> Nowhere]
  BY DEF writeDefaultPoliciesFileForAlerts
<1>2. DOMAIN Alerts[a].conds = 1 .. N(a) /\ \A i \in 1 .. N(a) : Head(Alerts[a].conds[i].sources) \in Hosts
  BY AlertIs
<1> HIDE DEF d
<1>3. d.cond \in [1 .. N(a) -> Somewhere] /\ d.op \in [1 .. N(a) -> Somewhere]
  BY <1>1, <1>2 DEF Somewhere
<1> QED BY <1>3 DEF d

LEMMA EveryPolicyOK ==
  ASSUME NEW p \in Policies \union {writeDefaultPoliciesFileForAlerts}
  PROVE  PolicyOK(p)
<1>1. CASE p \in Policies
  <2>1. ASSUME NEW a \in Ids
        PROVE  p[a].cond \in [1 .. N(a) -> Somewhere] /\ p[a].op \in [1 .. N(a) -> Somewhere]
    <3>1. /\ p[a].cond \in [DOMAIN Alerts[a].conds -> Somewhere]
          /\ p[a].op \in [DOMAIN Alerts[a].conds -> Somewhere]
      BY <1>1, PoliciesAssumption DEF Ids, Somewhere
    <3> QED BY <3>1, AlertIs
  <2> QED BY <2>1 DEF PolicyOK
<1>2. CASE p = writeDefaultPoliciesFileForAlerts
  BY <1>2, DefaultPolicyOK
<1> QED BY <1>1, <1>2

LEMMA NewTreeIs ==
  ASSUME NEW n \in Nat, n >= 1
  PROVE  /\ PlacementFails(NewTree(n)) /\ NewTree(n).proxied = {}
         /\ NewTree(n) \in [cond : [1 .. n -> {Null}], op : [1 .. n -> {Null}],
                            proxied : SUBSET ((1 .. n) \X {1, 2})]
<1>1. /\ NewTree(n).cond = [i \in 1 .. n |-> Null] /\ NewTree(n).proxied = {}
      /\ NewTree(n) \in [cond : [1 .. n -> {Null}], op : [1 .. n -> {Null}],
                         proxied : SUBSET ((1 .. n) \X {1, 2})]
  BY DEF NewTree
<1>2. 1 \in DOMAIN NewTree(n).cond /\ NewTree(n).cond[1] = Null
  BY <1>1
<1>3. PlacementFails(NewTree(n))
  BY <1>2 DEF PlacementFails
<1> QED BY <1>1, <1>3

(* The tree of an alert when its turn has come.                            *)
Turned(a) == IF command = "place" THEN applyPolicy(alertTree[a], policy[a]) ELSE alertTree[a]

LEMMA TurnedType ==
  ASSUME TypeInv, NEW a \in Ids, ~ PlacementFails(Turned(a))
  PROVE  /\ Turned(a) \in TreesOf(N(a), Somewhere) /\ Turned(a).proxied = {}
         /\ \A i \in 1 .. N(a) : Turned(a).cond[i] \in Hosts
         /\ command = "place" => Turned(a).cond = policy[a].cond /\ Turned(a).op = policy[a].op
<1> DEFINE n == N(a)
           t == Turned(a)
<1>0. n \in Nat /\ n >= 1
  BY AlertIs
<1>1. ASSUME command = "place"
      PROVE  t \in TreesOf(n, Somewhere) /\ t.cond = policy[a].cond /\ t.op = policy[a].op
  <2>1. alertTree[a] \in [cond : [1 .. n -> Somewhere \union {Null}], op : [1 .. n -> Somewhere \union {Null}],
                          proxied : SUBSET ((1 .. n) \X {1, 2})]
    <3>1. CASE alertTree[a] = NewTree(n)
      BY <1>0, <3>1, NewTreeIs
    <3>2. CASE alertTree[a] \in TreesOf(n, Somewhere)
      BY <3>2 DEF TreesOf
    <3> QED BY <3>1, <3>2 DEF TypeInv
  <2>2. policy[a].cond \in [1 .. n -> Somewhere] /\ policy[a].op \in [1 .. n -> Somewhere]
    BY DEF TypeInv, PolicyOK
  <2>3. t = [alertTree[a] EXCEPT !.cond = policy[a].cond, !.op = policy[a].op]
    BY <1>1 DEF Turned, applyPolicy
  <2> HIDE DEF t, n
  <2>4. t \in TreesOf(n, Somewhere) /\ t.cond = policy[a].cond /\ t.op = policy[a].op
    BY <2>1, <2>2, <2>3 DEF TreesOf
  <2> QED BY <2>4 DEF t, n
<1>2. ASSUME command # "place" PROVE t \in TreesOf(n, Somewhere)
  <2>1. t = alertTree[a]
    BY <1>2 DEF Turned
  <2>2. t # NewTree(n)
    BY <1>0, NewTreeIs
  <2> QED BY <1>2, <2>1, <2>2 DEF TypeInv
<1>3. t \in TreesOf(n, Somewhere)
  BY <1>1, <1>2
<1>4. t.proxied = {} /\ \A i \in DOMAIN t.cond : t.cond[i] # Nowhere
  BY DEF PlacementFails
<1>5. \A i \in 1 .. n : t.cond[i] \in Somewhere /\ i \in DOMAIN t.cond
  <2> HIDE DEF t
  <2> QED BY <1>3 DEF TreesOf
<1>6. \A i \in 1 .. n : t.cond[i] \in Hosts
  BY <1>4, <1>5 DEF Somewhere
<1>7. command = "place" => t.cond = policy[a].cond /\ t.op = policy[a].op
  BY <1>1
<1> QED BY <1>3, <1>4, <1>6, <1>7

LEMMA BestIs ==
  ASSUME NEW W, Nowhere \in W, NEW n \in Nat, NEW tree \in TreesOf(n, W)
  PROVE  LET best == optimizeAlertTree(tree)
         IN  /\ best \in TreesOf(n, W) /\ best.cond = tree.cond /\ best.proxied = tree.proxied
             /\ Optimal(W, tree, n, best.op) /\ ReplacedBelow(best) \in SUBSET ((1 .. n) \X {1, 2})
             /\ [best EXCEPT !.proxied = ReplacedBelow(best)] \in TreesOf(n, W)
<1>1. PICK o : Optimal(W, tree, n, o) /\ optimizeAlertTree(tree) = [tree EXCEPT !.op = o]
  BY Optimized
<1> DEFINE best == optimizeAlertTree(tree)
<1>2. best \in TreesOf(n, W) /\ best.cond = tree.cond /\ best.proxied = tree.proxied /\ best.op = o
  BY <1>1 DEF TreesOf, Optimal
<1> HIDE DEF best
<1>3. Len(best.op) = n
  BY <1>2, OpsLen
<1>4. ReplacedBelow(best) \in SUBSET ((1 .. n) \X {1, 2})
  BY <1>3 DEF ReplacedBelow
<1>5. [best EXCEPT !.proxied = ReplacedBelow(best)] \in TreesOf(n, W)
  BY <1>2, <1>4 DEF TreesOf
<1> QED BY <1>1, <1>2, <1>4, <1>5 DEF best


LEMMA CallIs ==
  ASSUME NEW a, NEW one, NEW two, NEW three, one # two, two # three, one # three,
         NEW c \in CallsFor(a, one, two, three)
  PROVE  /\ c.name \in {one, two, three}
         /\ c.name = one => c.host \in Hosts /\ \E r \in Roots(N(a)) : c.what = <<a, r>>
         /\ c.name = two => c.host \in Hosts /\ c.what \in Whats(a)
         /\ c.name = three => c.what = a
<1>1. CASE c \in StatementCalls(a, one)
  <2>1. PICK h \in Hosts, r \in Roots(N(a)) : c = Call(one, h, <<a, r>>)
    BY <1>1 DEF StatementCalls
  <2>2. c.name = one /\ c.host = h /\ c.what = <<a, r>>
    BY <2>1 DEF Call
  <2> QED BY <2>2
<1>2. CASE c \in RerouteCalls(a, two)
  <2>1. PICK h \in Hosts, w \in Whats(a) : c = Call(two, h, w)
    BY <1>2 DEF RerouteCalls
  <2>2. c.name = two /\ c.host = h /\ c.what = w
    BY <2>1 DEF Call
  <2> QED BY <2>2
<1>3. CASE c = Call(three, "", a)
  <2>1. c.name = three /\ c.what = a
    BY <1>3 DEF Call
  <2> QED BY <2>1
<1> QED BY <1>1, <1>2, <1>3 DEF CallsFor

LEMMA DoingIs ==
  ASSUME CallsOK, NEW name, Doing(name)
  PROVE  /\ alert \in Ids
         /\ \/ command = "place" /\ name \in {"deploy", "reroute", "update"}
            \/ command = "undo" /\ name \in {"undeploy", "unroute", "restore"}
         /\ name \in {"deploy", "undeploy"} =>
              Here \in Hosts /\ \E r \in Roots(N(alert)) : What = <<alert, r>>
         /\ name \in {"reroute", "unroute"} => Here \in Hosts /\ What \in Whats(alert)
         /\ name \in {"update", "restore"} => What = alert
<1> DEFINE c == Head(calls)
<1>0. calls # <<>> /\ c.name = name /\ Here = c.host /\ What = c.what
  BY DEF Doing, Here, What
<1>1. CASE command = "place" /\ alert \in Ids /\ calls \in Seq(CallsFor(alert, "deploy", "reroute", "update"))
  <2>1. c \in CallsFor(alert, "deploy", "reroute", "update")
    <3> DEFINE S == CallsFor(alert, "deploy", "reroute", "update")
    <3>1. calls \in Seq(S)
      BY <1>1
    <3> HIDE DEF S
    <3>2. c \in S
      BY <1>0, <3>1
    <3> QED BY <3>2 DEF S
  <2> HIDE DEF c
  <2>2. /\ c.name \in {"deploy", "reroute", "update"}
        /\ c.name = "deploy" => c.host \in Hosts /\ \E r \in Roots(N(alert)) : c.what = <<alert, r>>
        /\ c.name = "reroute" => c.host \in Hosts /\ c.what \in Whats(alert)
        /\ c.name = "update" => c.what = alert
    BY <2>1, CallIs
  <2> QED BY <1>0, <1>1, <2>2
<1>2. CASE command = "undo" /\ alert \in Ids /\ calls \in Seq(CallsFor(alert, "undeploy", "unroute", "restore"))
  <2>1. c \in CallsFor(alert, "undeploy", "unroute", "restore")
    <3> DEFINE S == CallsFor(alert, "undeploy", "unroute", "restore")
    <3>1. calls \in Seq(S)
      BY <1>2
    <3> HIDE DEF S
    <3>2. c \in S
      BY <1>0, <3>1
    <3> QED BY <3>2 DEF S
  <2> HIDE DEF c
  <2>2. /\ c.name \in {"undeploy", "unroute", "restore"}
        /\ c.name = "undeploy" => c.host \in Hosts /\ \E r \in Roots(N(alert)) : c.what = <<alert, r>>
        /\ c.name = "unroute" => c.host \in Hosts /\ c.what \in Whats(alert)
        /\ c.name = "restore" => c.what = alert
    BY <2>1, CallIs
  <2> QED BY <1>0, <1>2, <2>2
<1> QED BY <1>0, <1>1, <1>2 DEF CallsOK

LEMMA DoneOK ==
  ASSUME CallsOK, calls # <<>>, Done
  PROVE  CallsOK'
<1>1. calls' = Tail(calls) /\ alert' = alert /\ command' = command
  BY DEF Done
<1>2. \A S : calls \in Seq(S) => Tail(calls) \in Seq(S)
  <2>1. ASSUME NEW S, calls \in Seq(S) PROVE Tail(calls) \in Seq(S)
    BY <2>1
  <2> QED BY <2>1
<1>3. CASE command = "place" /\ alert \in Ids /\ calls \in Seq(CallsFor(alert, "deploy", "reroute", "update"))
  <2>1. calls' \in Seq(CallsFor(alert, "deploy", "reroute", "update"))
    BY <1>1, <1>2, <1>3
  <2>2. CallsFor(alert, "deploy", "reroute", "update")' = CallsFor(alert, "deploy", "reroute", "update")
    BY <1>1
  <2>3. calls' \in Seq(CallsFor(alert, "deploy", "reroute", "update"))'
    BY <2>1, <2>2
  <2> QED BY <1>1, <1>3, <2>3 DEF CallsOK, Ids
<1>4. CASE command = "undo" /\ alert \in Ids /\ calls \in Seq(CallsFor(alert, "undeploy", "unroute", "restore"))
  <2>1. calls' \in Seq(CallsFor(alert, "undeploy", "unroute", "restore"))
    BY <1>1, <1>2, <1>4
  <2>2. CallsFor(alert, "undeploy", "unroute", "restore")' = CallsFor(alert, "undeploy", "unroute", "restore")
    BY <1>1
  <2>3. calls' \in Seq(CallsFor(alert, "undeploy", "unroute", "restore"))'
    BY <2>1, <2>2
  <2> QED BY <1>1, <1>4, <2>3 DEF CallsOK, Ids
<1> QED BY <1>3, <1>4 DEF CallsOK

LEMMA TypeInit == Init => TypeInv
<1> SUFFICES ASSUME Init PROVE TypeInv
  OBVIOUS
<1>1. PolicyOK(policy)
  BY DefaultPolicyOK DEF Init
<1>2. /\ DOMAIN alertTree = Ids /\ alertTree = [a \in Ids |-> alertTree[a]]
      /\ \A a \in Ids : alertTree[a] = NewTree(N(a))
  BY DEF Init, N
<1>3. \A h \in Hosts : config[h].reroutes \in Int
  BY DEF Init
<1>4. DOMAIN statements = Hosts /\ \A h \in Hosts : \A s \in statements[h] : s[1] \in Ids
  BY DEF Init
<1>5. calls = <<>> /\ command = "none" /\ alert = 0 /\ crashed = FALSE /\ history = <<>> /\ faults = <<>>
  BY DEF Init
<1>6. alert \in 0 .. Len(Alerts)
  BY <1>5, IdsAre
<1>7. history \in Seq({"place", "undo"}) /\ faults \in Seq(Nat) /\ Len(faults) = Len(history) /\ Len(history) <= MaxCommands
  BY <1>5, BoundsAssumption
<1> QED BY <1>1, <1>2, <1>3, <1>4, <1>5, <1>6, <1>7 DEF TypeInv, CallsOK

(* The part of the state that a call leaves alone.                         *)
LEMMA DoneType ==
  ASSUME TypeInv, calls # <<>>, Done, Succeeds \/ Fails,
         \A h \in Hosts : config'[h].reroutes \in Int,
         DOMAIN statements' = Hosts, \A h \in Hosts : \A s \in statements'[h] : s[1] \in Ids
  PROVE  TypeInv'
<1>1. CallsOK'
  BY DoneOK DEF TypeInv
<1>2. /\ policy' = policy /\ alertTree' = alertTree /\ command' = command /\ alert' = alert
      /\ crashed' = crashed /\ history' = history
  BY DEF Done
<1>3. faults' \in Seq(Nat) /\ Len(faults') = Len(faults)
  <2>1. faults \in Seq(Nat)
    BY DEF TypeInv
  <2>2. CASE Succeeds
    BY <2>1, <2>2 DEF Succeeds
  <2>3. CASE Fails
    <3>1. faults' = [faults EXCEPT ![Len(faults)] = @ + 1]
      BY <2>3 DEF Fails
    <3>2. \A i \in 1 .. Len(faults) : faults[i] \in Nat
      BY <2>1
    <3>3. DOMAIN faults = 1 .. Len(faults) /\ Len(faults) \in Nat
      BY <2>1
    <3>4. \A i \in 1 .. Len(faults) :
             faults'[i] = IF i = Len(faults) THEN faults[i] + 1 ELSE faults[i]
      BY <3>1, <3>3
    <3>5. \A i \in 1 .. Len(faults) : faults'[i] \in Nat
      BY <3>2, <3>4
    <3>6. faults' = [i \in 1 .. Len(faults) |-> faults'[i]]
      BY <3>1, <3>3
    <3>7. faults' \in [1 .. Len(faults) -> Nat]
      BY <3>5, <3>6
    <3> QED BY <3>3, <3>7
  <2> QED BY <2>2, <2>3
<1>4. PolicyOK(policy)'
  BY <1>2 DEF TypeInv, PolicyOK
<1>5. /\ (DOMAIN alertTree = Ids /\ alertTree = [a \in Ids |-> alertTree[a]])'
      /\ (\A a \in Ids : alertTree[a] = NewTree(N(a)) \/ alertTree[a] \in TreesOf(N(a), Somewhere))'
  BY <1>2 DEF TypeInv
<1>6. /\ command' \in {"none", "place", "undo"} /\ alert' \in 0 .. Len(Alerts) /\ crashed' \in BOOLEAN
      /\ history' \in Seq({"place", "undo"}) /\ Len(faults') = Len(history') /\ Len(history') <= MaxCommands
  BY <1>2, <1>3 DEF TypeInv
<1> QED BY <1>1, <1>3, <1>4, <1>5, <1>6 DEF TypeInv

LEMMA SaveType ==
  ASSUME TypeInv, FileInv, calls # <<>>, Done, NEW x, NEW new, saveConfig(x, new),
         new.reroutes \in Int, statements' = statements
  PROVE  TypeInv'
<1>1. config' = [config EXCEPT ![x] = new] /\ (Succeeds \/ Fails)
  BY DEF saveConfig
<1>2. \A h \in Hosts : config'[h] = config[h] \/ config'[h] = new
  BY <1>1 DEF FileInv
<1>3. \A h \in Hosts : config'[h].reroutes \in Int
  BY <1>2 DEF TypeInv
<1>4. DOMAIN statements' = Hosts /\ \A h \in Hosts : \A s \in statements'[h] : s[1] \in Ids
  BY DEF TypeInv
<1> QED BY <1>1, <1>3, <1>4, DoneType

LEMMA CrashType ==
  ASSUME TypeInv, Crash
  PROVE  TypeInv'
<1>1. /\ crashed' = TRUE
      /\ policy' = policy /\ alertTree' = alertTree /\ config' = config /\ statements' = statements
      /\ command' = command /\ alert' = alert /\ calls' = calls /\ history' = history /\ faults' = faults
  BY DEF Crash, world
<1>2. CallsOK' /\ PolicyOK(policy)'
  BY <1>1 DEF TypeInv, CallsOK, PolicyOK
<1> QED BY <1>1, <1>2 DEF TypeInv

(* The tree of the alert whose turn has come, and its calls.               *)
LEMMA NextAlertType ==
  ASSUME TypeInv, NextAlert, ~ crashed'
  PROVE  LET a == alert + 1
             best == optimizeAlertTree(Turned(a))
         IN  /\ a \in Ids /\ alert' = a /\ ~ PlacementFails(Turned(a))
             /\ alertTree' = [alertTree EXCEPT ![a] = [best EXCEPT !.proxied = ReplacedBelow(best)]]
             /\ timed' = [timed EXCEPT ![a] = @ \union Together(best)]
             /\ calls' = IF command = "place" THEN placeAlertLocally(a, best)
                                              ELSE revertLocalPlacementOfAlert(a, best)
             /\ UNCHANGED <<policy, world, command, crashed, files, history, faults>>
<1>1. ~ crashed /\ command # "none" /\ calls = <<>> /\ alert < Len(Alerts)
  BY DEF NextAlert
<1>2. alert + 1 \in Ids
  BY <1>1, IdsAre DEF TypeInv
<1>3. ~ Crash
  BY DEF Crash
<1>4. ~ PlacementFails(Turned(alert + 1))
  BY <1>3 DEF NextAlert, Turned
<1> QED BY <1>2, <1>3, <1>4 DEF NextAlert, Turned

LEMMA TurnType ==
  ASSUME TypeInv, NextAlert
  PROVE  TypeInv'
<1>1. CASE crashed'
  <2>1. ~ crashed
    BY DEF NextAlert
  <2>2. Crash
    BY <1>1, <2>1 DEF NextAlert
  <2> QED BY <2>2, CrashType
<1>2. CASE ~ crashed'
  <2> DEFINE a == alert + 1
             tree == Turned(a)
             best == optimizeAlertTree(tree)
  <2>1. /\ a \in Ids /\ alert' = a /\ ~ PlacementFails(tree)
        /\ alertTree' = [alertTree EXCEPT ![a] = [best EXCEPT !.proxied = ReplacedBelow(best)]]
        /\ calls' = IF command = "place" THEN placeAlertLocally(a, best)
                                         ELSE revertLocalPlacementOfAlert(a, best)
        /\ UNCHANGED <<policy, world, command, crashed, files, history, faults>>
    BY <1>2, NextAlertType
  <2>2. tree \in TreesOf(N(a), Somewhere) /\ \A i \in 1 .. N(a) : tree.cond[i] \in Hosts
    BY <2>1, TurnedType
  <2>3. N(a) \in Nat /\ Nowhere \in Somewhere
    BY <2>1, AlertIs DEF Somewhere
  <2> HIDE DEF tree
  <2>4. /\ best \in TreesOf(N(a), Somewhere) /\ best.cond = tree.cond
        /\ [best EXCEPT !.proxied = ReplacedBelow(best)] \in TreesOf(N(a), Somewhere)
    BY <2>2, <2>3, BestIs
  <2> HIDE DEF best, a
  <2>7. ASSUME CallsOK' PROVE TypeInv'
    <3>1. PolicyOK(policy)'
      BY <2>1 DEF TypeInv, PolicyOK
    <3>2. DOMAIN alertTree' = Ids /\ alertTree' = [b \in Ids |-> alertTree'[b]]
      BY <2>1 DEF TypeInv
    <3>3. ASSUME NEW b \in Ids
          PROVE  alertTree'[b] = NewTree(N(b)) \/ alertTree'[b] \in TreesOf(N(b), Somewhere)
      <4>1. CASE b = a
        <5>1. alertTree'[b] = [best EXCEPT !.proxied = ReplacedBelow(best)]
          BY <2>1, <4>1 DEF TypeInv
        <5> QED BY <2>4, <4>1, <5>1
      <4>2. CASE b # a
        <5>1. alertTree'[b] = alertTree[b]
          BY <2>1, <4>2 DEF TypeInv
        <5> QED BY <5>1 DEF TypeInv
      <4> QED BY <4>1, <4>2
    <3>4. config' = config /\ statements' = statements
      BY <2>1 DEF world
    <3>5. alert' \in 0 .. Len(Alerts) /\ crashed' \in BOOLEAN
      BY <2>1, IdsAre DEF TypeInv
    <3> QED BY <2>1, <2>7, <3>1, <3>2, <3>3, <3>4, <3>5 DEF TypeInv
  <2>5. CASE command = "place"
    <3>1. calls' \in Seq(CallsFor(a, "deploy", "reroute", "update"))
      BY <2>1, <2>2, <2>4, <2>5, PlaceType DEF Somewhere
    <3>2. CallsOK'
      BY <2>1, <2>5, <3>1 DEF CallsOK
    <3> QED BY <2>7, <3>2
  <2>6. CASE command = "undo"
    <3>1. calls' \in Seq(CallsFor(a, "undeploy", "unroute", "restore"))
      BY <2>1, <2>2, <2>4, <2>6, RevertType DEF Somewhere
    <3>2. CallsOK'
      BY <2>1, <2>6, <3>1 DEF CallsOK
    <3> QED BY <2>7, <3>2
  <2> QED BY <2>5, <2>6 DEF NextAlert, TypeInv
<1> QED BY <1>1, <1>2

LEMMA TypeNext == TypeInv /\ FileInv /\ [Next]_vars => TypeInv'
<1> SUFFICES ASSUME TypeInv, FileInv, [Next]_vars PROVE TypeInv'
  OBVIOUS
<1>1. ASSUME NEW name \in {"place", "undo"}, Start(name) PROVE TypeInv'
  <2>1. /\ command = "none" /\ Len(history) < MaxCommands
        /\ command' = name /\ alert' = 0 /\ calls' = <<>>
        /\ history' = Append(history, name) /\ faults' = Append(faults, 0)
        /\ alertTree' = alertTree /\ config' = config /\ statements' = statements /\ crashed' = crashed
    BY <1>1 DEF Start, world
  <2>2. PolicyOK(policy)'
    <3>1. policy' = policy \/ policy' \in Policies \union {writeDefaultPoliciesFileForAlerts}
      BY <1>1 DEF Start
    <3>2. PolicyOK(policy')
      BY <3>1, EveryPolicyOK DEF TypeInv
    <3> QED BY <3>2 DEF PolicyOK
  <2>3. /\ history' \in Seq({"place", "undo"}) /\ faults' \in Seq(Nat)
        /\ Len(faults') = Len(history') /\ Len(history') <= MaxCommands
    BY <2>1, BoundsAssumption DEF TypeInv
  <2>4. alert' \in 0 .. Len(Alerts) /\ CallsOK'
    BY <2>1, IdsAre DEF CallsOK
  <2> QED BY <2>1, <2>2, <2>3, <2>4 DEF TypeInv
<1>2. CASE NextAlert
  BY <1>2, TurnType
<1>3. CASE Finish
  <2>1. /\ command' = "none" /\ calls = <<>> /\ calls' = <<>>
        /\ UNCHANGED <<policy, alertTree, config, statements, alert, crashed, history, faults>>
    BY <1>3 DEF Finish, world
  <2>2. CallsOK' /\ PolicyOK(policy)'
    BY <2>1 DEF CallsOK, TypeInv, PolicyOK
  <2> QED BY <2>1, <2>2 DEF TypeInv
<1>4. CASE addAlertTree
  <2>1. Doing("deploy") /\ Done /\ config' = config /\ (Succeeds \/ Fails) /\ calls # <<>>
    BY <1>4 DEF addAlertTree, Doing
  <2>2. Here \in Hosts /\ alert \in Ids /\ \E r : What = <<alert, r>>
    BY <2>1, DoingIs DEF TypeInv
  <2>3. statements' = statements \/ statements' = [statements EXCEPT ![Here] = @ \union {What}]
    BY <1>4 DEF addAlertTree
  <2>w. What[1] \in Ids
    BY <2>2
  <2>4. DOMAIN statements' = Hosts /\ \A h \in Hosts : \A s \in statements'[h] : s[1] \in Ids
    <3>1. ASSUME NEW h \in Hosts, NEW s \in statements'[h] PROVE s[1] \in Ids
      <4>1. statements'[h] = statements[h] \/ statements'[h] = statements[h] \union {What}
        BY <2>3 DEF TypeInv
      <4>2. s \in statements[h] \/ s = What
        BY <4>1
      <4> QED BY <2>w, <4>2 DEF TypeInv
    <3> QED BY <2>3, <3>1 DEF TypeInv
  <2>5. \A h \in Hosts : config'[h].reroutes \in Int
    BY <2>1 DEF TypeInv
  <2> QED BY <2>1, <2>4, <2>5, DoneType
<1>5. CASE removeAlertTree
  <2>1. Doing("undeploy") /\ Done /\ config' = config /\ (Succeeds \/ Fails) /\ calls # <<>>
    BY <1>5 DEF removeAlertTree, Doing
  <2>3. statements' = statements \/ statements' = [statements EXCEPT ![Here] = @ \ {What}]
    BY <1>5 DEF removeAlertTree
  <2>4. DOMAIN statements' = Hosts /\ \A h \in Hosts : \A s \in statements'[h] : s[1] \in Ids
    BY <2>3 DEF TypeInv
  <2>5. \A h \in Hosts : config'[h].reroutes \in Int
    BY <2>1 DEF TypeInv
  <2> QED BY <2>1, <2>4, <2>5, DoneType
<1>6. CASE addRerouteMetricToLocalAlertingSystem
  <2> DEFINE x == What.source
             new == rerouteMesurementToCep(config[x], What, Here)
  <2>1. Doing("reroute") /\ Done /\ calls # <<>> /\ saveConfig(x, new) /\ statements' = statements
    BY <1>6 DEF addRerouteMetricToLocalAlertingSystem, Doing
  <2>2. x \in Hosts
    BY <2>1, DoingIs DEF TypeInv, Whats
  <2>3. new.reroutes = config[x].reroutes + 1
    BY DEF rerouteMesurementToCep
  <2>4. new.reroutes \in Int
    BY <2>2, <2>3 DEF TypeInv
  <2> HIDE DEF x, new
  <2> QED BY <2>1, <2>4, SaveType
<1>7. CASE removeRerouteMetricToLocalAlertingSystem
  <2> DEFINE x == What.source
             new == removeReroute(config[x], What.measurement, What.cepId)
  <2>0. CASE Crash
    BY <2>0, CrashType
  <2>1. CASE ~ Crash
    <3>1. Doing("unroute") /\ Done /\ calls # <<>> /\ saveConfig(x, new) /\ statements' = statements
      BY <1>7, <2>1 DEF removeRerouteMetricToLocalAlertingSystem, Doing
    <3>2. x \in Hosts
      BY <3>1, DoingIs DEF TypeInv, Whats
    <3>3. new.reroutes = config[x].reroutes - 1
      BY DEF removeReroute
    <3>4. new.reroutes \in Int
      BY <3>2, <3>3 DEF TypeInv
    <3> HIDE DEF x, new
    <3> QED BY <3>1, <3>4, SaveType
  <2> QED BY <2>0, <2>1
<1>8. CASE updateInstanceForLocallyPlacedAlert
  <2>0. CASE Crash
    BY <2>0, CrashType
  <2>1. CASE ~ Crash
    <3>1. Done /\ calls # <<>> /\ (Succeeds \/ Fails) /\ config' = config /\ statements' = statements
      BY <1>8, <2>1 DEF updateInstanceForLocallyPlacedAlert, Doing, updateDashboard
    <3> QED BY <3>1, DoneType DEF TypeInv
  <2> QED BY <2>0, <2>1
<1>9. CASE restoreInstanceCentralAlertPlacement
  <2>1. Done /\ calls # <<>> /\ (Succeeds \/ Fails) /\ config' = config /\ statements' = statements
    BY <1>9 DEF restoreInstanceCentralAlertPlacement, Doing, updateDashboard, world
  <2> QED BY <2>1, DoneType DEF TypeInv
<1>10. CASE UNCHANGED vars
  BY <1>10 DEF vars, world, TypeInv, CallsOK, PolicyOK
<1> QED BY <1>1, <1>2, <1>3, <1>4, <1>5, <1>6, <1>7, <1>8, <1>9, <1>10 DEF Next

LEMMA FileNext == TypeInv /\ FileInv /\ [Next]_vars => FileInv'
<1> SUFFICES ASSUME TypeInv, FileInv, [Next]_vars PROVE FileInv'
  OBVIOUS
<1>1. CASE UNCHANGED <<config, running, files>>
  BY <1>1 DEF FileInv, Faithful
<1>2. CASE addRerouteMetricToLocalAlertingSystem
  <2> DEFINE x == What.source
             new == rerouteMesurementToCep(config[x], What, Here)
  <2>1. saveConfig(x, new) /\ files' = files
    BY <1>2 DEF addRerouteMetricToLocalAlertingSystem, Done
  <2>2. ASSUME x \in Hosts PROVE Faithful(new.comps, files[x])
    <3>1. PICK D : Good(D, config[x].comps)
      BY <2>2 DEF FileInv, Faithful
    <3> DEFINE E == D \cup Words \cup {Here, What.measurement, What.cepId}
    <3>2. /\ D \subseteq E /\ Words \subseteq E
          /\ Here \in E /\ What.measurement \in E /\ What.cepId \in E
      OBVIOUS
    <3> HIDE DEF E
    <3>3. Good(E, config[x].comps)
      BY <3>1, <3>2, LargerSet
    <3>4. Good(E, new.comps) /\ UsersOwn(new.comps) = UsersOwn(config[x].comps)
      BY <3>2, <3>3, RerouteAdded
    <3> QED BY <2>2, <3>4 DEF FileInv, Faithful
  <2> HIDE DEF x, new
  <2> QED BY <2>1, <2>2, Saved
<1>3. CASE removeRerouteMetricToLocalAlertingSystem
  <2> DEFINE x == What.source
             new == removeReroute(config[x], What.measurement, What.cepId)
  <2>1. CASE removeRerouteFails(config[x], What.measurement, What.cepId)
    <3>1. UNCHANGED <<config, running, files>>
      BY <1>3, <2>1 DEF removeRerouteMetricToLocalAlertingSystem, Crash, world
    <3> QED BY <1>1, <3>1
  <2>2. CASE ~ removeRerouteFails(config[x], What.measurement, What.cepId)
    <3>1. saveConfig(x, new) /\ files' = files
      BY <1>3, <2>2 DEF removeRerouteMetricToLocalAlertingSystem, Done
    <3>2. ASSUME x \in Hosts PROVE Faithful(new.comps, files[x])
      <4>1. PICK D : Good(D, config[x].comps)
        BY <3>2 DEF FileInv, Faithful
      <4>2. What.measurement \in Names /\ What.cepId \in CepIds
        <5>1. Doing("unroute")
          BY <1>3 DEF removeRerouteMetricToLocalAlertingSystem
        <5>2. alert \in Ids /\ What \in Whats(alert)
          BY <5>1, DoingIs DEF TypeInv
        <5> QED BY <5>2, WhatIs
      <4>3. Good(D, new.comps) /\ UsersOwn(new.comps) = UsersOwn(config[x].comps)
        BY <4>1, <4>2, RerouteRemoved
      <4> QED BY <3>2, <4>3 DEF FileInv, Faithful
    <3> HIDE DEF x, new
    <3> QED BY <3>1, <3>2, Saved
  <2> QED BY <2>1, <2>2
<1>4. CASE Start("place") \/ Start("undo") \/ Finish
  BY <1>1, <1>4 DEF Start, Finish, world
<1>5. CASE NextAlert
  BY <1>1, <1>5 DEF NextAlert, Crash, world
<1>6. CASE addAlertTree \/ removeAlertTree
  BY <1>1, <1>6 DEF addAlertTree, removeAlertTree, Done
<1>7. CASE updateInstanceForLocallyPlacedAlert
  BY <1>1, <1>7 DEF updateInstanceForLocallyPlacedAlert, Crash, world, Done
<1>8. CASE restoreInstanceCentralAlertPlacement
  BY <1>1, <1>8 DEF restoreInstanceCentralAlertPlacement, world, Done
<1>9. CASE UNCHANGED vars
  BY <1>1, <1>9 DEF vars, world
<1> QED BY <1>2, <1>3, <1>4, <1>5, <1>6, <1>7, <1>8, <1>9 DEF Next

(* Whatever alerts are placed and undone on whatever files, with whatever  *)
(* policies and failing calls, rerouteMesurementToCep and removeReroute    *)
(* lose no header that the user wrote and no plugin of the user's but one  *)
(* that removeReroute takes for the mapper's, for any number of hosts,     *)
(* alerts, commands and plugins.                                           *)
THEOREM UserPluginsAlwaysKept == Spec => []UserPluginsKept
<1>1. FileInv => UserPluginsKept
  BY DEF FileInv, Faithful, UserPluginsKept
<1> QED BY TypeInit, TypeNext, FileInit, FileNext, <1>1, PTL DEF Spec

(* The components of a good file.                                          *)
LEMMA GoodEnds ==
  ASSUME NEW D, NEW s, Good(D, s)
  PROVE  s # <<>> /\ Last(s) = Spacer /\ \A i \in DOMAIN s : s[i].kind \in {"default", "header", "plugin"}
<1> DEFINE n == Len(s)
           Q == Component(D)
<1>1. s \in Seq(Q) /\ n \in Nat /\ Steady(n, Classes(s)) /\ DOMAIN s = 1 .. n
  BY DEF Good
<1>2. \A i \in 1 .. n : s[i] \in Q
  BY <1>1, ElementOf
<1>3. \A i \in 1 .. n : s[i].kind \in {"default", "header", "plugin"}
  BY <1>2, Kinds
<1>c. \A j \in 1 .. n : Classes(s)[j] = Class(s[j]) /\ Classes(s)[j] \in {"default", "added", "own"}
  BY <1>1, ClassesOf
<1>4. n \in 1 .. n /\ Classes(s)[n] = "default"
  BY <1>1, <1>c, SteadyEnds
<1>5. s[n].kind = "default"
  BY <1>c, <1>4 DEF Class
<1>6. s[n] = Spacer
  BY <1>2, <1>4, <1>5, Kinds
<1> QED BY <1>1, <1>3, <1>4, <1>6 DEF Last

-----------------------------------------------------------------------------
(* The trees between the commands.                                         *)
AllPolicies == Policies \union {writeDefaultPoliciesFileForAlerts}

Best(a, p)       == optimizeAlertTree(applyPolicy(NewTree(N(a)), p[a]))
Deployable(a, p) == \A i \in 1 .. N(a) : p[a].cond[i] \in Hosts
PlacedBy(a, p)   == alertTree[a] = [Best(a, p) EXCEPT !.proxied = ReplacedBelow(Best(a, p))]

LEMMA BestOf ==
  ASSUME NEW a \in Ids, NEW p, PolicyOK(p)
  PROVE  /\ Best(a, p) \in TreesOf(N(a), Somewhere) /\ Best(a, p).cond = p[a].cond
         /\ Best(a, p).proxied = {}
         /\ Optimal(Somewhere, applyPolicy(NewTree(N(a)), p[a]), N(a), Best(a, p).op)
<1> DEFINE n == N(a)
           t == applyPolicy(NewTree(n), p[a])
<1>1. n \in Nat /\ n >= 1 /\ Nowhere \in Somewhere
  BY AlertIs DEF Somewhere
<1>2. p[a].cond \in [1 .. n -> Somewhere] /\ p[a].op \in [1 .. n -> Somewhere]
  BY DEF PolicyOK
<1>3. t = [NewTree(n) EXCEPT !.cond = p[a].cond, !.op = p[a].op]
  BY DEF applyPolicy
<1> HIDE DEF t, n
<1>4. t \in TreesOf(n, Somewhere) /\ t.cond = p[a].cond /\ t.proxied = {}
  BY <1>2, <1>3 DEF NewTree, TreesOf
<1>5. /\ optimizeAlertTree(t) \in TreesOf(n, Somewhere) /\ optimizeAlertTree(t).cond = t.cond
      /\ optimizeAlertTree(t).proxied = t.proxied
      /\ Optimal(Somewhere, t, n, optimizeAlertTree(t).op)
  BY <1>1, <1>4, BestIs
<1>6. Best(a, p) = optimizeAlertTree(t)
  BY DEF Best, t, n
<1> QED BY <1>4, <1>5, <1>6 DEF t, n

(* Trees that agree are equal.                                             *)
LEMMA SameTree ==
  ASSUME NEW n, NEW W, NEW s \in TreesOf(n, W), NEW t \in TreesOf(n, W),
         s.cond = t.cond, s.op = t.op, s.proxied = t.proxied
  PROVE  s = t
BY DEF TreesOf

(* A tree that has been optimized stays as it is.                          *)
LEMMA BestStays ==
  ASSUME NEW a \in Ids, NEW p, PolicyOK(p)
  PROVE  optimizeAlertTree(Best(a, p)) = Best(a, p)
<1> DEFINE n == N(a)
           t == applyPolicy(NewTree(n), p[a])
           b == Best(a, p)
           c == optimizeAlertTree(b)
<1>1. n \in Nat /\ Nowhere \in Somewhere
  BY AlertIs DEF Somewhere
<1>2. b \in TreesOf(n, Somewhere) /\ b.cond = p[a].cond /\ Optimal(Somewhere, t, n, b.op)
  BY BestOf
<1>3. t.cond = p[a].cond
  BY DEF applyPolicy, NewTree
<1> HIDE DEF b, t, n
<1>4. /\ c \in TreesOf(n, Somewhere) /\ c.cond = b.cond /\ c.proxied = b.proxied
      /\ Optimal(Somewhere, b, n, c.op)
  BY <1>1, <1>2, BestIs
<1> HIDE DEF c
<1>5. b.cond = t.cond
  BY <1>2, <1>3
<1>6. c.op = b.op
  BY <1>1, <1>2, <1>4, <1>5, OptimizedAgain
<1>7. c = b
  BY <1>2, <1>4, <1>6, SameTree
<1> QED BY <1>7 DEF c, b

(* The tree of an alert whose turn comes, in a place ...                   *)
LEMMA PlaceTurn ==
  ASSUME TypeInv, NEW a \in Ids, ~ PlacementFails(Turned(a)), command = "place"
  PROVE  optimizeAlertTree(Turned(a)) = Best(a, policy) /\ Deployable(a, policy)
<1> DEFINE n == N(a)
           s == applyPolicy(NewTree(n), policy[a])
           t == Turned(a)
<1>1. /\ t \in TreesOf(n, Somewhere) /\ t.proxied = {} /\ \A i \in 1 .. n : t.cond[i] \in Hosts
      /\ t.cond = policy[a].cond /\ t.op = policy[a].op
  BY TurnedType
<1>2. policy[a].cond \in [1 .. n -> Somewhere] /\ policy[a].op \in [1 .. n -> Somewhere]
  BY DEF TypeInv, PolicyOK
<1>3. s = [NewTree(n) EXCEPT !.cond = policy[a].cond, !.op = policy[a].op]
  BY DEF applyPolicy
<1>6. Best(a, policy) = optimizeAlertTree(s)
  BY DEF Best
<1> HIDE DEF n, t, s
<1>4. s \in TreesOf(n, Somewhere) /\ s.cond = policy[a].cond /\ s.op = policy[a].op /\ s.proxied = {}
  BY <1>2, <1>3 DEF NewTree, TreesOf
<1>5. s = t
  BY <1>1, <1>4, SameTree
<1> QED BY <1>1, <1>5, <1>6 DEF Deployable, n, t

(* ... and in an undo.                                                     *)
LEMMA UndoTurn ==
  ASSUME TypeInv, NEW a \in Ids, ~ PlacementFails(Turned(a)), command # "place",
         NEW p, PolicyOK(p), PlacedBy(a, p)
  PROVE  /\ alertTree[a] = Best(a, p) /\ optimizeAlertTree(Turned(a)) = Best(a, p)
         /\ ReplacedBelow(Best(a, p)) = {}
<1> DEFINE n == N(a)
           b == Best(a, p)
           t == alertTree[a]
<1>1. Turned(a) = t
  BY DEF Turned
<1>2. t.proxied = {}
  BY <1>1 DEF PlacementFails
<1>3. b \in TreesOf(n, Somewhere) /\ b.proxied = {} /\ optimizeAlertTree(b) = b
  BY BestOf, BestStays
<1>4. t = [b EXCEPT !.proxied = ReplacedBelow(b)]
  BY DEF PlacedBy
<1> HIDE DEF n, b, t
<1>5. t.cond = b.cond /\ t.op = b.op /\ t.proxied = ReplacedBelow(b)
  BY <1>3, <1>4 DEF TreesOf
<1>6. t \in TreesOf(n, Somewhere)
  BY <1>2, <1>3, <1>4, <1>5 DEF TreesOf
<1>7. t = b
  BY <1>2, <1>3, <1>5, <1>6, SameTree
<1> QED BY <1>1, <1>2, <1>3, <1>5, <1>7 DEF b, t

(* Every tree has been placed by a policy, or no alert's turn has come to  *)
(* it; and while the process lives only the alert that is being placed may *)
(* have proxies, before the update that fails because of them.             *)
TreeInv ==
  /\ policy \in AllPolicies
  /\ command # "none" => history # <<>> /\ Last(history) = command
  /\ command = "none" /\ history # <<>> => alert = Len(Alerts)
  /\ ~ crashed => \A a \in Ids :
       /\ \/ alertTree[a] = NewTree(N(a)) /\ a > alert /\ Len(history) <= 1
          \/ \E p \in AllPolicies : Deployable(a, p) /\ PlacedBy(a, p)
       /\ a <= alert /\ command = "place" => PlacedBy(a, policy)
       /\ alertTree[a].proxied # {} =>
            command = "place" /\ a = alert /\ calls # <<>> /\ Last(calls).name = "update"

LEMMA TreeInit == Init => TreeInv
<1> SUFFICES ASSUME Init PROVE TreeInv
  OBVIOUS
<1>1. /\ policy = writeDefaultPoliciesFileForAlerts /\ command = "none" /\ history = <<>> /\ alert = 0
      /\ \A a \in Ids : alertTree[a] = NewTree(N(a))
  BY DEF Init, N
<1>2. \A a \in Ids : a > 0 /\ NewTree(N(a)).proxied = {}
  BY IdsAre DEF NewTree
<1> QED BY <1>1, <1>2 DEF TreeInv, AllPolicies

LEMMA TreeStart ==
  ASSUME TypeInv, TreeInv, NEW name \in {"place", "undo"}, Start(name)
  PROVE  TreeInv'
<1>1. /\ command = "none" /\ ~ crashed /\ command' = name /\ alert' = 0
      /\ history' = Append(history, name) /\ alertTree' = alertTree
  BY DEF Start
<1>2. policy' \in AllPolicies
  BY DEF Start, AllPolicies, TreeInv
<1>3. history' # <<>> /\ Last(history') = name /\ Len(history') = Len(history) + 1 /\ Len(history) \in Nat
  <2> DEFINE S == {"place", "undo"}
  <2>1. history \in Seq(S) /\ name \in S
    BY DEF TypeInv
  <2> HIDE DEF S
  <2>2. Append(history, name) \in Seq(S) /\ Len(Append(history, name)) = Len(history) + 1 /\ Len(history) \in Nat
        /\ Append(history, name)[Len(history) + 1] = name
    BY <2>1
  <2>3. Append(history, name) # <<>>
    BY <2>2
  <2> QED BY <1>1, <2>2, <2>3 DEF Last
<1>4. ASSUME NEW a \in Ids
      PROVE  /\ \/ alertTree[a] = NewTree(N(a)) /\ a > 0 /\ Len(history') <= 1
                \/ \E p \in AllPolicies : Deployable(a, p) /\ PlacedBy(a, p)
             /\ alertTree[a].proxied = {} /\ ~ (a <= 0)
  <2>1. a \in 1 .. Len(Alerts)
    BY IdsAre
  <2>2. CASE history = <<>>
    BY <1>1, <1>3, <2>1, <2>2 DEF TreeInv
  <2>3. CASE history # <<>>
    <3>1. alert = Len(Alerts)
      BY <1>1, <2>3 DEF TreeInv
    <3> QED BY <1>1, <2>1, <3>1 DEF TreeInv
  <2> QED BY <2>2, <2>3
<1>5. ASSUME NEW a \in Ids, NEW p PROVE PlacedBy(a, p)' = PlacedBy(a, p)
  BY <1>1 DEF PlacedBy
<1> QED BY <1>1, <1>2, <1>3, <1>4, <1>5 DEF TreeInv

(* The next alert: its tree is that of the policy, or, in an undo, as it   *)
(* was.                                                                    *)
LEMMA TreeTurned ==
  ASSUME TypeInv, TreeInv, NextAlert, ~ crashed', NEW a, a = alert + 1
  PROVE  /\ a \in Ids /\ alert' = a /\ ~ crashed /\ calls = <<>>
         /\ UNCHANGED <<policy, world, command, files, history, faults>>
         /\ \A b \in Ids : b # a => alertTree'[b] = alertTree[b]
         /\ command = "place" => /\ Deployable(a, policy) /\ PlacedBy(a, policy)'
                                 /\ calls' = placeAlertLocally(a, Best(a, policy))
         /\ command # "place" => /\ alertTree' = alertTree /\ alertTree[a].proxied = {}
                                 /\ calls' = revertLocalPlacementOfAlert(a, alertTree[a])
                                 /\ \E p \in AllPolicies : Deployable(a, p) /\ PlacedBy(a, p)
<1> DEFINE best == optimizeAlertTree(Turned(a))
<1>1. /\ a \in Ids /\ alert' = a /\ ~ PlacementFails(Turned(a))
      /\ alertTree' = [alertTree EXCEPT ![a] = [best EXCEPT !.proxied = ReplacedBelow(best)]]
      /\ calls' = IF command = "place" THEN placeAlertLocally(a, best)
                                       ELSE revertLocalPlacementOfAlert(a, best)
      /\ UNCHANGED <<policy, world, command, crashed, files, history, faults>>
  BY NextAlertType
<1>2. ~ crashed /\ calls = <<>> /\ DOMAIN alertTree = Ids
  BY DEF NextAlert, TypeInv
<1> HIDE DEF best
<1>3. /\ \A b \in Ids : b # a => alertTree'[b] = alertTree[b]
      /\ alertTree'[a] = [best EXCEPT !.proxied = ReplacedBelow(best)]
  BY <1>1, <1>2
<1>4. ASSUME command = "place"
      PROVE  /\ Deployable(a, policy) /\ PlacedBy(a, policy)'
             /\ calls' = placeAlertLocally(a, Best(a, policy))
  <2>1. best = Best(a, policy) /\ Deployable(a, policy)
    BY <1>1, <1>4, PlaceTurn DEF best
  <2>2. PlacedBy(a, policy)'
    BY <1>1, <1>3, <2>1 DEF PlacedBy, Best
  <2> QED BY <1>1, <1>4, <2>1, <2>2
<1>5. ASSUME command # "place"
      PROVE  /\ alertTree' = alertTree /\ alertTree[a].proxied = {}
             /\ calls' = revertLocalPlacementOfAlert(a, alertTree[a])
             /\ \E p \in AllPolicies : Deployable(a, p) /\ PlacedBy(a, p)
  <2>1. Turned(a) = alertTree[a]
    BY <1>5 DEF Turned
  <2>2. alertTree[a] # NewTree(N(a))
    BY <1>1, <2>1, NewTreeIs, AlertIs
  <2>3. PICK p \in AllPolicies : Deployable(a, p) /\ PlacedBy(a, p)
    BY <1>1, <1>2, <2>2 DEF TreeInv
  <2>4. PolicyOK(p)
    BY EveryPolicyOK DEF AllPolicies
  <2>5. alertTree[a] = Best(a, p) /\ best = Best(a, p) /\ ReplacedBelow(Best(a, p)) = {}
    BY <1>1, <1>5, <2>3, <2>4, UndoTurn DEF best
  <2>6. Best(a, p) \in TreesOf(N(a), Somewhere) /\ Best(a, p).proxied = {}
    BY <1>1, <2>4, BestOf
  <2>7. [best EXCEPT !.proxied = ReplacedBelow(best)] = best
    BY <2>5, <2>6 DEF TreesOf
  <2>8. alertTree' = alertTree
    <3>1. alertTree' = [alertTree EXCEPT ![a] = alertTree[a]]
      BY <1>1, <2>5, <2>7
    <3>2. alertTree = [b \in Ids |-> alertTree[b]]
      BY DEF TypeInv
    <3> QED BY <3>1, <3>2
  <2> QED BY <1>1, <1>5, <2>3, <2>5, <2>6, <2>8
<1> QED BY <1>1, <1>2, <1>3, <1>4, <1>5

LEMMA TreeTurn ==
  ASSUME TypeInv, TreeInv, NextAlert, ~ crashed'
  PROVE  TreeInv'
<1>0. PICK a : a = alert + 1
  OBVIOUS
<1>1. /\ a \in Ids /\ alert' = a /\ ~ crashed /\ calls = <<>>
      /\ UNCHANGED <<policy, world, command, files, history, faults>>
      /\ \A b \in Ids : b # a => alertTree'[b] = alertTree[b]
      /\ command = "place" => /\ Deployable(a, policy) /\ PlacedBy(a, policy)'
                              /\ calls' = placeAlertLocally(a, Best(a, policy))
      /\ command # "place" => /\ alertTree' = alertTree /\ alertTree[a].proxied = {}
                              /\ calls' = revertLocalPlacementOfAlert(a, alertTree[a])
                              /\ \E p \in AllPolicies : Deployable(a, p) /\ PlacedBy(a, p)
  BY <1>0, TreeTurned
<1>2. policy \in AllPolicies /\ alert \in Nat /\ a \in Nat /\ command # "none"
  BY <1>1, IdsAre DEF TreeInv, TypeInv, NextAlert
<1>3. ASSUME NEW b \in Ids, b # a
      PROVE  /\ b > alert => b > a
             /\ b <= a => b <= alert
             /\ \A p : PlacedBy(b, p)' <=> PlacedBy(b, p)
             /\ alertTree'[b].proxied = {}
  <2>1. b \in Nat
    BY IdsAre
  <2>2. alertTree[b].proxied = {}
    BY <1>1 DEF TreeInv
  <2> QED BY <1>0, <1>1, <1>2, <1>3, <2>1, <2>2 DEF PlacedBy
<1>4. CASE command = "place"
  <2>1. Best(a, policy) \in TreesOf(N(a), Somewhere) /\ \A i \in 1 .. N(a) : Best(a, policy).cond[i] \in Hosts
    <3>1. Best(a, policy) \in TreesOf(N(a), Somewhere) /\ Best(a, policy).cond = policy[a].cond
      BY <1>1, BestOf DEF TypeInv
    <3> QED BY <1>1, <1>4, <3>1 DEF Deployable
  <2>2. calls' # <<>> /\ Last(calls') = Call("update", "", a)
    BY <1>1, <1>4, <2>1, PlaceType DEF Somewhere
  <2>3. Last(calls').name = "update"
    <3>1. Call("update", "", a).name = "update"
      BY DEF Call
    <3> QED BY <2>2, <3>1
  <2>4. ASSUME NEW b \in Ids
        PROVE  /\ \/ alertTree'[b] = NewTree(N(b)) /\ b > alert' /\ Len(history') <= 1
                  \/ \E p \in AllPolicies : Deployable(b, p) /\ PlacedBy(b, p)'
               /\ b <= alert' /\ command' = "place" => PlacedBy(b, policy)'
               /\ alertTree'[b].proxied # {} => b = alert'
    <3>1. CASE b = a
      BY <1>1, <1>2, <1>4, <3>1
    <3>2. CASE b # a
      <4>1. /\ \/ alertTree[b] = NewTree(N(b)) /\ b > alert /\ Len(history) <= 1
               \/ \E p \in AllPolicies : Deployable(b, p) /\ PlacedBy(b, p)
            /\ b <= alert => PlacedBy(b, policy)
        BY <1>1, <1>4 DEF TreeInv
      <4>2. b <= a => b <= alert
        BY <1>3, <3>2
      <4>3. PlacedBy(b, policy) => PlacedBy(b, policy)'
        BY <1>1, <3>2 DEF PlacedBy
      <4>4. b > alert => b > a
        BY <1>3, <3>2
      <4>5. alertTree'[b] = alertTree[b] /\ alertTree'[b].proxied = {}
        BY <1>1, <1>3, <3>2
      <4>6. \A p : PlacedBy(b, p) => PlacedBy(b, p)'
        BY <1>3, <3>2
      <4> QED BY <1>1, <4>1, <4>2, <4>3, <4>4, <4>5, <4>6
    <3> QED BY <3>1, <3>2
  <2>5. policy' \in AllPolicies /\ command' = "place" /\ history' # <<>> /\ Last(history') = command'
    BY <1>1, <1>2, <1>4 DEF TreeInv
  <2> QED BY <2>2, <2>3, <2>4, <2>5 DEF TreeInv
<1>5. CASE command # "place"
  <2>1. ASSUME NEW b \in Ids
        PROVE  /\ \/ alertTree'[b] = NewTree(N(b)) /\ b > alert' /\ Len(history') <= 1
                  \/ \E p \in AllPolicies : Deployable(b, p) /\ PlacedBy(b, p)'
               /\ alertTree'[b].proxied = {}
    <3>0. \A p : PlacedBy(b, p) => PlacedBy(b, p)'
      BY <1>1, <1>5 DEF PlacedBy
    <3>1. CASE b = a
      BY <1>1, <1>5, <3>0, <3>1
    <3>2. CASE b # a
      <4>1. \/ alertTree[b] = NewTree(N(b)) /\ b > alert /\ Len(history) <= 1
            \/ \E p \in AllPolicies : Deployable(b, p) /\ PlacedBy(b, p)
        BY <1>1 DEF TreeInv
      <4>2. b > alert => b > a
        BY <1>3, <3>2
      <4> QED BY <1>1, <1>3, <1>5, <3>0, <3>2, <4>1, <4>2
    <3> QED BY <3>1, <3>2
  <2>2. policy' \in AllPolicies /\ command' # "place" /\ command' # "none" /\ history' # <<>> /\ Last(history') = command'
    BY <1>1, <1>2, <1>5 DEF TreeInv
  <2> QED BY <2>1, <2>2 DEF TreeInv
<1> QED BY <1>4, <1>5

LEMMA LastOfTail ==
  ASSUME NEW S, NEW s \in Seq(S), Len(s) >= 2
  PROVE  Tail(s) # <<>> /\ Last(Tail(s)) = Last(s)
<1>1. Tail(s) \in Seq(S) /\ Len(Tail(s)) = Len(s) - 1 /\ Len(s) \in Nat
  OBVIOUS
<1>2. \A i \in 1 .. Len(s) - 1 : Tail(s)[i] = s[i + 1]
  OBVIOUS
<1>3. Len(s) - 1 \in 1 .. Len(s) - 1 /\ (Len(s) - 1) + 1 = Len(s)
  BY <1>1
<1>4. Tail(s)[Len(s) - 1] = s[Len(s)]
  BY <1>2, <1>3
<1>5. Tail(s) # <<>>
  <2> DEFINE r == Tail(s)
  <2>1. r \in Seq(S) /\ Len(r) = Len(s) - 1 /\ Len(s) \in Nat
    BY <1>1
  <2> HIDE DEF r
  <2>2. r # <<>>
    BY <2>1
  <2> QED BY <2>2 DEF r
<1>6. Len(Tail(s)) = Len(s) - 1
  BY <1>1
<1>7. Tail(s)[Len(Tail(s))] = s[Len(s)]
  BY <1>4, <1>6
<1> QED BY <1>5, <1>7 DEF Last

(* A call that has been made.                                              *)
LEMMA TreeDone ==
  ASSUME TypeInv, TreeInv, ~ crashed, calls # <<>>, Done,
         Head(calls).name = "update" => alertTree[alert].proxied = {}
  PROVE  TreeInv'
<1>1. /\ UNCHANGED <<policy, alertTree, command, alert, crashed, history>>
      /\ calls' = Tail(calls)
  BY DEF Done
<1>2. ASSUME NEW a \in Ids, alertTree[a].proxied # {}
      PROVE  command = "place" /\ a = alert /\ Tail(calls) # <<>> /\ Last(Tail(calls)).name = "update"
  <2>1. command = "place" /\ a = alert /\ Last(calls).name = "update"
    BY <1>2 DEF TreeInv
  <2>2. \E S : calls \in Seq(S)
    BY DEF TypeInv, CallsOK
  <2>3. PICK S : calls \in Seq(S)
    BY <2>2
  <2>4. Len(calls) # 1
    BY <1>2, <2>1, <2>3 DEF Last
  <2>5. Len(calls) >= 2 /\ Len(calls) \in Nat
    BY <2>3, <2>4
  <2>6. Tail(calls) # <<>> /\ Last(Tail(calls)) = Last(calls)
    BY <2>3, <2>5, LastOfTail
  <2> QED BY <2>1, <2>6
<1>3. \A a \in Ids : \A p : PlacedBy(a, p)' <=> PlacedBy(a, p)
  BY <1>1 DEF PlacedBy
<1>4. policy' \in AllPolicies
  BY <1>1 DEF TreeInv
<1>5. \A a \in Ids : PlacedBy(a, policy)' <=> PlacedBy(a, policy)
  BY <1>1 DEF PlacedBy, Best
<1> QED BY <1>1, <1>2, <1>3, <1>4, <1>5 DEF TreeInv

LEMMA TreeNext == TypeInv /\ TreeInv /\ [Next]_vars => TreeInv'
<1> SUFFICES ASSUME TypeInv, TreeInv, [Next]_vars PROVE TreeInv'
  OBVIOUS
<1>1. ASSUME UNCHANGED <<policy, command, alert, history>>, crashed' = TRUE PROVE TreeInv'
  BY <1>1 DEF TreeInv
<1>2. CASE Start("place") \/ Start("undo")
  BY <1>2, TreeStart
<1>3. CASE NextAlert
  <2>1. CASE ~ crashed'
    BY <1>3, <2>1, TreeTurn
  <2>2. CASE crashed'
    <3>1. Crash
      BY <1>3, <2>2 DEF NextAlert
    <3> QED BY <1>1, <3>1 DEF Crash
  <2> QED BY <2>1, <2>2
<1>4. CASE Finish
  <2>1. /\ ~ crashed /\ command # "none" /\ calls = <<>> /\ alert = Len(Alerts) /\ command' = "none"
        /\ UNCHANGED <<policy, alertTree, alert, calls, crashed, history>>
    BY <1>4 DEF Finish
  <2>2. \A a \in Ids : \A p : PlacedBy(a, p)' <=> PlacedBy(a, p)
    BY <2>1 DEF PlacedBy
  <2>3. \A a \in Ids : alertTree[a].proxied = {}
    BY <2>1 DEF TreeInv
  <2> QED BY <2>1, <2>2, <2>3 DEF TreeInv
<1>5. CASE addAlertTree \/ removeAlertTree
  <2>1. ~ crashed /\ calls # <<>> /\ Done /\ Head(calls).name # "update"
    BY <1>5 DEF addAlertTree, removeAlertTree, Doing
  <2> QED BY <2>1, TreeDone
<1>6. CASE addRerouteMetricToLocalAlertingSystem \/ restoreInstanceCentralAlertPlacement
  <2>1. ~ crashed /\ calls # <<>> /\ Done /\ Head(calls).name # "update"
    BY <1>6 DEF addRerouteMetricToLocalAlertingSystem, restoreInstanceCentralAlertPlacement, Doing
  <2> QED BY <2>1, TreeDone
<1>7. CASE removeRerouteMetricToLocalAlertingSystem
  <2>1. CASE Crash
    BY <1>1, <2>1 DEF Crash
  <2>2. CASE ~ Crash
    <3>1. ~ crashed /\ calls # <<>> /\ Done /\ Head(calls).name # "update"
      BY <1>7, <2>2 DEF removeRerouteMetricToLocalAlertingSystem, Doing
    <3> QED BY <3>1, TreeDone
  <2> QED BY <2>1, <2>2
<1>8. CASE updateInstanceForLocallyPlacedAlert
  <2>1. CASE Crash
    BY <1>1, <2>1 DEF Crash
  <2>2. CASE ~ Crash
    <3>1. ~ crashed /\ calls # <<>> /\ Done /\ Doing("update") /\ alertTree[What].proxied = {}
      BY <1>8, <2>2 DEF updateInstanceForLocallyPlacedAlert, updateFails, Doing
    <3>2. What = alert
      BY <3>1, DoingIs DEF TypeInv
    <3> QED BY <3>1, <3>2, TreeDone
  <2> QED BY <2>1, <2>2
<1>9. CASE UNCHANGED vars
  <2>1. UNCHANGED <<policy, alertTree, command, alert, calls, crashed, history>>
    BY <1>9 DEF vars
  <2>2. \A a \in Ids : \A p : PlacedBy(a, p)' <=> PlacedBy(a, p)
    BY <2>1 DEF PlacedBy
  <2>3. \A a \in Ids : PlacedBy(a, policy)' <=> PlacedBy(a, policy)
    BY <2>1 DEF PlacedBy, Best
  <2> QED BY <2>1, <2>2, <2>3 DEF TreeInv
<1> QED BY <1>2, <1>3, <1>4, <1>5, <1>6, <1>7, <1>8, <1>9 DEF Next

(* The operators that have a time window are the alert's, and while alerts *)
(* are placed they are all that the policy brings together.                *)
TimedInv ==
  /\ DOMAIN timed = Ids
  /\ \A a \in Ids :
       /\ timed[a] \subseteq 1 .. N(a)
       /\ ~ crashed /\ command = "place" /\ a <= alert => Together(Best(a, policy)) \subseteq timed[a]

LEMMA TimedInit == Init => TimedInv
BY DEF Init, TimedInv

LEMMA TimedTurn ==
  ASSUME TypeInv, TreeInv, TimedInv, NextAlert, ~ crashed'
  PROVE  TimedInv'
<1>1. PICK a : a = alert + 1
  OBVIOUS
<1> DEFINE best == optimizeAlertTree(Turned(a))
<1>2. /\ a \in Ids /\ alert' = a /\ ~ PlacementFails(Turned(a))
      /\ timed' = [timed EXCEPT ![a] = @ \union Together(best)]
      /\ policy' = policy /\ command' = command /\ crashed' = crashed
  BY <1>1, NextAlertType
<1>3. best.op \in [1 .. N(a) -> Somewhere]
  <2>1. Turned(a) \in TreesOf(N(a), Somewhere) /\ N(a) \in Nat /\ Nowhere \in Somewhere
    BY <1>2, TurnedType, AlertIs DEF Somewhere
  <2>2. best \in TreesOf(N(a), Somewhere)
    BY <2>1, BestIs
  <2> HIDE DEF best
  <2> QED BY <2>2 DEF TreesOf
<1>4. command = "place" => best = Best(a, policy)
  BY <1>2, PlaceTurn
<1> HIDE DEF best
<1>5. Together(best) \subseteq 1 .. N(a)
  BY <1>3 DEF Together
<1>6. ASSUME NEW b \in Ids
      PROVE  /\ timed'[b] \subseteq 1 .. N(b)
             /\ ~ crashed' /\ command' = "place" /\ b <= alert' => Together(Best(b, policy)) \subseteq timed'[b]
  <2>1. CASE b = a
    <3>1. timed'[b] = timed[a] \union Together(best)
      BY <1>2, <2>1 DEF TimedInv
    <3>2. timed[a] \subseteq 1 .. N(a)
      BY <1>2 DEF TimedInv
    <3> QED BY <1>2, <1>4, <1>5, <2>1, <3>1, <3>2
  <2>2. CASE b # a
    <3>1. timed'[b] = timed[b]
      BY <1>2, <2>2 DEF TimedInv
    <3>2. b \in Nat /\ a \in Nat /\ alert \in Nat
      BY <1>2, IdsAre DEF TypeInv
    <3>3. b <= alert' => b <= alert
      BY <1>1, <1>2, <2>2, <3>2
    <3> QED BY <1>2, <3>1, <3>3 DEF TimedInv
  <2> QED BY <2>1, <2>2
<1>7. DOMAIN timed' = Ids
  BY <1>2 DEF TimedInv
<1>8. \A b \in Ids : Best(b, policy)' = Best(b, policy)
  BY <1>2 DEF Best
<1> QED BY <1>6, <1>7, <1>8 DEF TimedInv

LEMMA TimedNext == TypeInv /\ TreeInv /\ TimedInv /\ [Next]_vars => TimedInv'
<1> SUFFICES ASSUME TypeInv, TreeInv, TimedInv, [Next]_vars PROVE TimedInv'
  OBVIOUS
<1>1. ASSUME timed' = timed,
             \/ crashed' = TRUE \/ command' # "place" \/ alert' = 0
             \/ UNCHANGED <<policy, command, alert, crashed>>
      PROVE  TimedInv'
  <2>1. \A a \in Ids : ~ (a <= 0)
    BY IdsAre
  <2>2. ASSUME UNCHANGED policy PROVE \A a \in Ids : Best(a, policy)' = Best(a, policy)
    BY <2>2 DEF Best
  <2>3. CASE crashed' = TRUE \/ command' # "place"
    BY <1>1, <2>3 DEF TimedInv
  <2>4. CASE alert' = 0
    <3>1. \A a \in Ids : ~ (a <= alert')
      BY <2>1, <2>4
    <3> QED BY <1>1, <3>1 DEF TimedInv
  <2>5. CASE UNCHANGED <<policy, command, alert, crashed>>
    BY <1>1, <2>2, <2>5 DEF TimedInv
  <2> QED BY <1>1, <2>3, <2>4, <2>5
<1>2. CASE NextAlert
  <2>1. CASE ~ crashed'
    BY <1>2, <2>1, TimedTurn
  <2>2. CASE crashed'
    <3>1. Crash
      BY <1>2, <2>2 DEF NextAlert
    <3> QED BY <1>1, <3>1 DEF Crash
  <2> QED BY <2>1, <2>2
<1>3. CASE Start("place") \/ Start("undo") \/ Finish
  BY <1>1, <1>3 DEF Start, Finish
<1>4. CASE \/ addAlertTree \/ removeAlertTree \/ addRerouteMetricToLocalAlertingSystem
           \/ restoreInstanceCentralAlertPlacement
  BY <1>1, <1>4 DEF addAlertTree, removeAlertTree, addRerouteMetricToLocalAlertingSystem,
                    restoreInstanceCentralAlertPlacement, Done
<1>5. CASE removeRerouteMetricToLocalAlertingSystem
  BY <1>1, <1>5 DEF removeRerouteMetricToLocalAlertingSystem, Crash, Done
<1>6. CASE updateInstanceForLocallyPlacedAlert
  BY <1>1, <1>6 DEF updateInstanceForLocallyPlacedAlert, Crash, Done
<1>7. CASE UNCHANGED vars
  BY <1>1, <1>7 DEF vars
<1> QED BY <1>2, <1>3, <1>4, <1>5, <1>6, <1>7 DEF Next

(* The types of the mapper's state: in particular every configuration,     *)
(* the mapper's and the agent's, ends with a blank line, and a tree has    *)
(* proxies only in place of the children that its operators have.          *)
THEOREM MapperTypeOK == Spec => []TypeOK
<1>1. TypeInv /\ FileInv /\ TimedInv => TypeOK
  <2> SUFFICES ASSUME TypeInv, FileInv, TimedInv PROVE TypeOK
    OBVIOUS
  <2>1. ASSUME NEW a \in Ids
        PROVE  /\ policy[a].cond \in [DOMAIN Alerts[a].conds -> Hosts \union {Nowhere}]
               /\ alertTree[a].proxied \subseteq (DOMAIN Alerts[a].conds) \X {1, 2}
    <3>1. DOMAIN Alerts[a].conds = 1 .. N(a) /\ N(a) \in Nat /\ N(a) >= 1
      BY AlertIs
    <3>2. alertTree[a].proxied \subseteq (1 .. N(a)) \X {1, 2}
      <4>1. CASE alertTree[a] = NewTree(N(a))
        BY <4>1 DEF NewTree
      <4>2. CASE alertTree[a] \in TreesOf(N(a), Somewhere)
        BY <4>2 DEF TreesOf
      <4> QED BY <4>1, <4>2 DEF TypeInv
    <3> QED BY <3>1, <3>2 DEF TypeInv, PolicyOK, Somewhere
  <2>2. ASSUME NEW h \in Hosts, NEW comps \in {config[h].comps, running[h]}
        PROVE  /\ comps # <<>> /\ Last(comps) = Spacer
               /\ \A i \in DOMAIN comps : comps[i].kind \in {"default", "header", "plugin"}
    <3>1. PICK D : Good(D, comps)
      BY DEF FileInv, Faithful
    <3> QED BY <3>1, GoodEnds
  <2>3. \A a \in Ids : timed[a] \subseteq DOMAIN Alerts[a].conds
    BY AlertIs DEF TimedInv
  <2> QED BY <2>1, <2>2, <2>3 DEF TypeInv, TypeOK
<1> QED BY TypeInit, TypeNext, FileInit, FileNext, TreeInit, TreeNext, TimedInit, TimedNext, <1>1, PTL DEF Spec

-----------------------------------------------------------------------------
(* What is left of a file by removeReroute.                                *)
Changed(s, t, i, c) ==
  /\ Len(t) = Len(s) /\ t[i] = c
  /\ \A j \in 1 .. Len(s) : j # i => t[j] = s[j]

LEMMA TurnIs ==
  ASSUME NEW D, NEW s, Good(D, s), NEW i \in 1 .. Len(s),
         NEW measurement \in Names, NEW cepId \in CepIds, NEW last
  PROVE  LET u == Turn(s, i, measurement, cepId, last)
         IN  /\ Good(D, u)
             /\ \/ /\ u = s
                   /\ ~ IsPlugin(s[i]) \/ (~ MustGo(s[i], measurement, cepId, last) /\ ~ last)
                \/ /\ IsPlugin(s[i]) /\ MustGo(s[i], measurement, cepId, last)
                   /\ Stretched(u, s, i) /\ i + 1 \in 1 .. Len(s)
                   /\ Class(s[i]) = "added" /\ Class(s[i + 1]) # "own"
                \/ /\ IsPlugin(s[i]) /\ ~ MustGo(s[i], measurement, cepId, last) /\ last
                   /\ Changed(s, u, i, reset(s[i]))
<1> DEFINE Q == Component(D)
           n == Len(s)
           u == Turn(s, i, measurement, cepId, last)
<1>0. s \in Seq(Q) /\ n \in Nat /\ Steady(n, Classes(s)) /\ i \in 1 .. n /\ i \in Nat
  BY DEF Good
<1>g. Good(D, u)
  BY TurnKeeps
<1>1. CASE IsPlugin(s[i]) /\ MustGo(s[i], measurement, cepId, last)
  <2>1. Class(s[i]) = "added"
    BY <1>1, MustGoIs
  <2>2. Classes(s)[i] = "added" /\ \A j \in 1 .. n : Classes(s)[j] = Class(s[j])
    BY <1>0, <2>1, ClassesOf
  <2>3. i + 1 \in 1 .. n /\ Classes(s)[i + 1] # "own"
    BY <1>0, <2>2, SteadyFollowed
  <2>4. i \in 1 .. n - 1
    BY <1>0, <2>3
  <2>5. Stretched(removeTwice(s, i), s, i)
    BY <1>0, <2>4, RemovedTwo
  <2>6. u = removeTwice(s, i)
    BY <1>1 DEF Turn
  <2>7. Stretched(u, s, i) /\ Class(s[i + 1]) # "own"
    BY <2>2, <2>3, <2>5, <2>6
  <2> QED BY <1>1, <1>g, <2>1, <2>3, <2>7
<1>2. CASE IsPlugin(s[i]) /\ ~ MustGo(s[i], measurement, cepId, last) /\ last
  <2>1. u = [s EXCEPT ![i] = reset(@)]
    BY <1>2 DEF Turn
  <2>2. DOMAIN s = 1 .. n
    BY <1>0
  <2>3. DOMAIN u = 1 .. n /\ u[i] = reset(s[i]) /\ \A j \in 1 .. n : j # i => u[j] = s[j]
    BY <1>0, <2>1, <2>2
  <2>4. Len(u) = n
    <3>1. u \in Seq(Q)
      BY <1>g DEF Good
    <3> HIDE DEF Q, u
    <3> QED BY <1>0, <2>3, <3>1
  <2>5. Changed(s, u, i, reset(s[i]))
    BY <2>3, <2>4 DEF Changed
  <2> QED BY <1>2, <1>g, <2>5
<1>3. CASE ~ IsPlugin(s[i]) \/ (~ MustGo(s[i], measurement, cepId, last) /\ ~ last)
  <2>1. u = s
    BY <1>3 DEF Turn
  <2> QED BY <1>3, <1>g, <2>1
<1> QED BY <1>1, <1>2, <1>3

(* Everything that is left is in R.                                        *)
LEMMA LeftIn ==
  ASSUME NEW D, NEW conf, Good(D, conf.comps), NEW measurement \in Names, NEW cepId \in CepIds,
         NEW last, last = (conf.reroutes - 1 < 1), NEW R,
         \A i \in 1 .. Len(conf.comps) :
           /\ ~ IsPlugin(conf.comps[i]) => conf.comps[i] \in R
           /\ IsPlugin(conf.comps[i]) /\ ~ MustGo(conf.comps[i], measurement, cepId, last)
              => (IF last THEN reset(conf.comps[i]) ELSE conf.comps[i]) \in R
  PROVE  removeReroute(conf, measurement, cepId).comps \in Seq(R)
<1> DEFINE s == conf.comps
           n == Len(s)
           C == Component(D)
           V == {v \in Seq(C) \X Nat :
                   /\ Good(D, v[1]) /\ Len(v[1]) >= n - v[2]
                   /\ \A j \in 1 .. n - v[2] : v[1][j] = s[j]
                   /\ \A j \in n - v[2] + 1 .. Len(v[1]) : v[1][j] \in R}
           new == removeReroute(conf, measurement, cepId).comps
<1>1. s \in Seq(C) /\ n \in Nat
  BY DEF Good
<1>2. <<s, 0>> \in V
  BY <1>1
<1>a. \A i \in 1 .. n :
           /\ ~ IsPlugin(s[i]) => s[i] \in R
           /\ IsPlugin(s[i]) /\ ~ MustGo(s[i], measurement, cepId, last)
              => (IF last THEN reset(s[i]) ELSE s[i]) \in R
  OBVIOUS
<1>3. ASSUME NEW k \in 1 .. n, NEW t \in Seq(C), <<t, k - 1>> \in V
      PROVE  <<Turn(t, n + 1 - k, measurement, cepId, last), k>> \in V
  <2> HIDE DEF C, n, s
  <2>1. /\ Good(D, t) /\ Len(t) >= n - (k - 1) /\ Len(t) \in Nat
        /\ \A j \in 1 .. n - (k - 1) : t[j] = s[j]
        /\ \A j \in n - (k - 1) + 1 .. Len(t) : t[j] \in R
    BY <1>3
  <2>2. PICK i \in 1 .. Len(t) : i = n + 1 - k
    BY <1>1, <2>1
  <2>3. /\ i \in 1 .. n /\ n - (k - 1) = i /\ n - k = i - 1 /\ k \in Nat /\ n - k + 1 = i
    BY <1>1, <2>2
  <2>4. /\ \A j \in 1 .. i : t[j] = s[j]
        /\ \A j \in i + 1 .. Len(t) : t[j] \in R
    BY <2>1, <2>3
  <2>5. /\ ~ IsPlugin(t[i]) => t[i] \in R
        /\ IsPlugin(t[i]) /\ ~ MustGo(t[i], measurement, cepId, last)
              => (IF last THEN reset(t[i]) ELSE t[i]) \in R
    BY <1>a, <2>3, <2>4
  <2> DEFINE u == Turn(t, i, measurement, cepId, last)
  <2>6. /\ Good(D, u)
        /\ \/ /\ u = t
              /\ ~ IsPlugin(t[i]) \/ (~ MustGo(t[i], measurement, cepId, last) /\ ~ last)
           \/ Stretched(u, t, i) /\ i + 1 \in 1 .. Len(t)
           \/ /\ IsPlugin(t[i]) /\ ~ MustGo(t[i], measurement, cepId, last) /\ last
              /\ Changed(t, u, i, reset(t[i]))
    BY <2>1, TurnIs
  <2> HIDE DEF u
  <2>7. u \in Seq(C) /\ Len(u) \in Nat
    BY <2>6 DEF Good, C
  <2>8. /\ Len(u) >= i - 1 /\ \A j \in 1 .. i - 1 : u[j] = s[j]
        /\ \A j \in i .. Len(u) : u[j] \in R
    <3>1. CASE u = t /\ (~ IsPlugin(t[i]) \/ (~ MustGo(t[i], measurement, cepId, last) /\ ~ last))
      <4>1. t[i] \in R
        BY <2>5, <3>1
      <4> QED BY <2>4, <3>1, <4>1
    <3>2. CASE Stretched(u, t, i) /\ i + 1 \in 1 .. Len(t)
      <4>1. /\ Len(t) = Len(u) + 2 /\ \A j \in 1 .. i - 1 : t[j] = u[j]
            /\ \A j \in i + 2 .. Len(t) : t[j] = u[j - 2]
        BY <3>2 DEF Stretched
      <4>2. ASSUME NEW j \in i .. Len(u) PROVE u[j] \in R
        <5>1. PICK m \in i + 2 .. Len(t) : m = j + 2
          BY <2>7, <4>1
        <5>2. t[m] = u[j] /\ t[m] \in R
          BY <2>4, <4>1, <5>1
        <5> QED BY <5>2
      <4>3. Len(u) >= i - 1
        BY <2>1, <2>7, <3>2, <4>1
      <4> QED BY <2>4, <4>1, <4>2, <4>3
    <3>3. CASE IsPlugin(t[i]) /\ ~ MustGo(t[i], measurement, cepId, last) /\ last
               /\ Changed(t, u, i, reset(t[i]))
      <4>1. reset(t[i]) \in R
        BY <2>5, <3>3
      <4>2. Len(u) = Len(t) /\ u[i] \in R /\ \A j \in 1 .. Len(t) : j # i => u[j] = t[j]
        BY <3>3, <4>1 DEF Changed
      <4> QED BY <2>1, <2>4, <4>2
    <3> QED BY <2>6, <3>1, <3>2, <3>3
  <2>9. <<u, k>> \in V
    BY <2>3, <2>6, <2>7, <2>8
  <2> QED BY <2>2, <2>9 DEF u
<1>4. V \in SUBSET (Seq(C) \X Nat)
  OBVIOUS
<1> HIDE DEF V
<1>5. <<new, n>> \in V
  BY <1>1, <1>2, <1>3, <1>4, RemoveLoop
<1> HIDE DEF new
<1>6. new \in Seq(C) /\ \A j \in n - n + 1 .. Len(new) : new[j] \in R
  BY <1>5 DEF V
<1>7. new \in Seq(R)
  <2> HIDE DEF C
  <2>1. \A j \in 1 .. Len(new) : new[j] \in R
    BY <1>1, <1>6
  <2> QED BY <1>6, <2>1
<1> QED BY <1>7 DEF new

-----------------------------------------------------------------------------
(* What rerouteMesurementToCep adds, and where: t is s with p and a spacer *)
(* at i.                                                                   *)
AddedAt(s, t, p, i) ==
  /\ Stretched(s, t, i)
  /\ \/ t[i] = Spacer /\ t[i + 1] = p /\ i = Len(s)
        /\ \A j \in 1 .. Len(s) - 1 : ~ IsOfType(s[j], p.type)
     \/ t[i] = p /\ t[i + 1] = Spacer /\ i > 1 /\ IsOfType(s[i - 1], p.type)
        /\ \A j \in 1 .. i - 2 : ~ IsOfType(s[j], p.type)

LEMMA AddedIs ==
  ASSUME NEW C, NEW s \in Seq(C), Len(s) >= 1, Spacer \in C, NEW p \in C
  PROVE  addPlugin(s, p) \in Seq(C) /\ \E i \in 1 .. Len(s) : AddedAt(s, addPlugin(s, p), p, i)
<1> DEFINE n == Len(s)
           here == {i \in 1 .. n - 1 : IsOfType(s[i], p.type)}
           t == addPlugin(s, p)
<1>1. n \in Nat /\ n \in 1 .. n /\ n \in 1 .. n + 1
  OBVIOUS
<1>2. CASE here = {}
  <2> DEFINE u == InsertAt(InsertAt(s, n, Spacer), n + 1, p)
  <2>1. t = u
    BY <1>2 DEF addPlugin
  <2>u. u \in Seq(C) /\ Stretched(s, u, n) /\ u[n] = Spacer /\ u[n + 1] = p
    BY <1>1, InsertedTwo
  <2> HIDE DEF u, t
  <2>2. t \in Seq(C) /\ Stretched(s, t, n) /\ t[n] = Spacer /\ t[n + 1] = p
    BY <2>1, <2>u
  <2>3. \A j \in 1 .. n - 1 : ~ IsOfType(s[j], p.type)
    BY <1>2
  <2> HIDE DEF t
  <2>4. AddedAt(s, t, p, n)
    BY <2>2, <2>3 DEF AddedAt
  <2> QED BY <1>1, <2>2, <2>4 DEF t
<1>3. CASE here # {}
  <2>1. here \in SUBSET Nat
    OBVIOUS
  <2>2. \E x \in here : \A y \in here : x <= y
    BY <1>3, <2>1, LeastNat
  <2>3. Min(here) \in here /\ \A y \in here : Min(here) <= y
    BY <2>2 DEF Min
  <2>4. PICK m \in here : m = Min(here) /\ \A y \in here : m <= y
    BY <2>3
  <2>5. PICK i \in 1 .. n : i = m + 1
    OBVIOUS
  <2> DEFINE u == InsertAt(InsertAt(s, i, Spacer), i, p)
  <2>6. t = u
    BY <1>3, <2>4, <2>5 DEF addPlugin
  <2>7. i \in 1 .. n + 1
    BY <1>1
  <2>u. u \in Seq(C) /\ Stretched(s, u, i) /\ u[i] = p /\ u[i + 1] = Spacer
    BY <2>7, InsertedTwo
  <2> HIDE DEF u, t
  <2>8. t \in Seq(C) /\ Stretched(s, t, i) /\ t[i] = p /\ t[i + 1] = Spacer
    BY <2>6, <2>u
  <2>9. i > 1 /\ IsOfType(s[i - 1], p.type)
    BY <2>5
  <2>10. \A j \in 1 .. i - 2 : ~ IsOfType(s[j], p.type)
    <3>1. ASSUME NEW j \in 1 .. i - 2, IsOfType(s[j], p.type) PROVE FALSE
      <4>1. j \in here
        BY <2>5, <3>1
      <4> QED BY <2>4, <2>5, <4>1
    <3> QED BY <3>1
  <2> HIDE DEF t, here
  <2>11. AddedAt(s, t, p, i)
    BY <2>8, <2>9, <2>10 DEF AddedAt
  <2> QED BY <2>8, <2>11 DEF t
<1> QED BY <1>2, <1>3

(* The plugin that is added to a component as its default.                 *)
Defaulted(c) ==
  CASE IsPluginOf(c, "input") -> [c EXCEPT !.tags = Append(@, "maybe")]
    [] IsPluginOf(c, "output") -> [c EXCEPT !.exclude = "default", !.pass = addTagpass(c)]
    [] OTHER -> c

LEMMA DefaultedIs ==
  ASSUME NEW C, NEW s \in Seq(C)
  PROVE  /\ addDefaults(s) = [i \in 1 .. Len(s) |-> Defaulted(s[i])]
         /\ \A R : (\A i \in 1 .. Len(s) : Defaulted(s[i]) \in R) => addDefaults(s) \in Seq(R)
<1>1. DOMAIN s = 1 .. Len(s) /\ Len(s) \in Nat
  OBVIOUS
<1>2. addDefaults(s) = [i \in 1 .. Len(s) |-> Defaulted(s[i])]
  BY <1>1 DEF addDefaults, Defaulted
<1>3. ASSUME NEW R, \A i \in 1 .. Len(s) : Defaulted(s[i]) \in R PROVE addDefaults(s) \in Seq(R)
  BY <1>1, <1>2, <1>3
<1> QED BY <1>2, <1>3

LEMMA AddedIn ==
  ASSUME NEW C, NEW s \in Seq(C), Len(s) >= 1, Spacer \in C, NEW p \in C
  PROVE  addPlugin(s, p) \in Seq(C) /\ Len(addPlugin(s, p)) >= 1
<1>1. PICK i \in 1 .. Len(s) : AddedAt(s, addPlugin(s, p), p, i)
  BY AddedIs
<1>2. addPlugin(s, p) \in Seq(C)
  BY AddedIs
<1>3. Len(addPlugin(s, p)) = Len(s) + 2
  BY <1>1 DEF AddedAt, Stretched
<1> QED BY <1>2, <1>3

(* All that there is after rerouteMesurementToCep is in R.                 *)
LEMMA RerouteIn ==
  ASSUME NEW C, NEW conf, conf.comps \in Seq(C), Len(conf.comps) >= 1, NEW cond, NEW url,
         NEW R, Spacer \in R,
         conf.reroutes < 1 => /\ \A i \in 1 .. Len(conf.comps) : Defaulted(conf.comps[i]) \in R
                              /\ createBackloopHttpListenerInputPlugin \in R,
         ~ (conf.reroutes < 1) => \A i \in 1 .. Len(conf.comps) : conf.comps[i] \in R,
         createOverrideProcessorPlugin(cond.measurement, cond.cepId, cond.proxy) \in R,
         ~ cond.proxy => createBasicStatsAggregatorPlugin(cond.measurement, cond.cepId) \in R,
         createCepHttpOutputPlugin(cond.cepId, url) \in R
  PROVE  rerouteMesurementToCep(conf, cond, url).comps \in Seq(R)
<1> DEFINE P1 == createBackloopHttpListenerInputPlugin
           P2 == createOverrideProcessorPlugin(cond.measurement, cond.cepId, cond.proxy)
           P3 == createBasicStatsAggregatorPlugin(cond.measurement, cond.cepId)
           P4 == createCepHttpOutputPlugin(cond.cepId, url)
           s == conf.comps
           d == addDefaults(s)
           once == IF conf.reroutes < 1 THEN addPlugin(d, P1) ELSE s
           over == addPlugin(once, P2)
           aggr == IF ~ cond.proxy /\ cond.aggregates THEN addPlugin(over, P3) ELSE over
           new  == addPlugin(aggr, P4)
<1>0. rerouteMesurementToCep(conf, cond, url).comps = new
  BY DEF rerouteMesurementToCep
<1>1. P2 \in R /\ P4 \in R /\ (~ cond.proxy => P3 \in R) /\ (conf.reroutes < 1 => P1 \in R)
  OBVIOUS
<1> HIDE DEF P1, P2, P3, P4
<1>2. once \in Seq(R) /\ Len(once) >= 1
  <2>1. CASE conf.reroutes < 1
    <3>1. d \in Seq(R) /\ d = [i \in 1 .. Len(s) |-> Defaulted(s[i])]
      BY <2>1, DefaultedIs
    <3>2. Len(d) >= 1
      BY <3>1
    <3> HIDE DEF d
    <3>3. addPlugin(d, P1) \in Seq(R) /\ Len(addPlugin(d, P1)) >= 1
      BY <1>1, <2>1, <3>1, <3>2, AddedIn
    <3> QED BY <2>1, <3>3
  <2>2. CASE ~ (conf.reroutes < 1)
    <3>1. s \in Seq(R)
      BY <2>2
    <3> QED BY <2>2, <3>1
  <2> QED BY <2>1, <2>2
<1> HIDE DEF once
<1>3. over \in Seq(R) /\ Len(over) >= 1
  BY <1>1, <1>2, AddedIn
<1> HIDE DEF over
<1>4. aggr \in Seq(R) /\ Len(aggr) >= 1
  <2>1. CASE ~ cond.proxy /\ cond.aggregates
    BY <1>1, <1>3, <2>1, AddedIn
  <2>2. CASE ~ (~ cond.proxy /\ cond.aggregates)
    BY <1>3, <2>2
  <2> QED BY <2>1, <2>2
<1> HIDE DEF aggr
<1>5. new \in Seq(R)
  BY <1>1, <1>4, AddedIn
<1> QED BY <1>0, <1>5

-----------------------------------------------------------------------------
(* Every tags table of an input has the tag to_cep.                        *)
Tagged(c) == IsPluginOf(c, "input") => \A j \in 1 .. Len(c.tags) : c.tags[j] # "absent"

LEMMA TaggedDefault ==
  ASSUME NEW D, NEW c \in Component(D), Tagged(c)
  PROVE  Tagged(Defaulted(c))
<1>1. CASE IsPluginOf(c, "input")
  <2>1. c \in Plugins(D)
    BY <1>1, PluginIs DEF IsPluginOf
  <2>2. c.tags \in Seq(D)
    BY <2>1 DEF Plugins
  <2> DEFINE s == c.tags
             r == Append(s, "maybe")
  <2>3. Defaulted(c) = [c EXCEPT !.tags = r]
    <3>1. ~ IsPluginOf(c, "output")
      BY <1>1 DEF IsPluginOf
    <3> QED BY <1>1, <3>1 DEF Defaulted
  <2>4. Defaulted(c).tags = r
    BY <2>1, <2>3 DEF Plugins
  <2>5. \A j \in 1 .. Len(r) : r[j] # "absent"
    <3>1. \A j \in 1 .. Len(s) : s[j] # "absent"
      BY <1>1 DEF Tagged
    <3> HIDE DEF s
    <3> QED BY <2>2, <3>1 DEF s
  <2> QED BY <2>4, <2>5 DEF Tagged
<1>2. CASE ~ IsPluginOf(c, "input")
  <2>1. CASE IsPluginOf(c, "output")
    <3>1. c \in Plugins(D)
      BY <2>1, PluginIs DEF IsPluginOf
    <3>2. Defaulted(c) = [c EXCEPT !.exclude = "default", !.pass = addTagpass(c)]
      BY <1>2, <2>1 DEF Defaulted
    <3>3. Defaulted(c).type = "output"
      BY <2>1, <3>1, <3>2 DEF Plugins, IsPluginOf
    <3> QED BY <3>3 DEF Tagged, IsPluginOf
  <2>2. CASE ~ IsPluginOf(c, "output")
    <3>1. Defaulted(c) = c
      BY <1>2, <2>2 DEF Defaulted
    <3> QED BY <3>1
  <2> QED BY <2>1, <2>2
<1> QED BY <1>1, <1>2

LEMMA TaggedReset ==
  ASSUME NEW D, NEW c \in Component(D), Tagged(c)
  PROVE  Tagged(reset(c))
<1>0. IsPlugin(c) => c \in Plugins(D)
  BY PluginIs
<1>1. CASE IsPluginOf(c, "input")
  <2>1. c \in Plugins(D) /\ ~ IsPluginOf(c, "output")
    BY <1>0, <1>1 DEF IsPluginOf
  <2> DEFINE s == c.tags
             r == Tail(s)
  <2>2. s \in Seq(D)
    BY <2>1 DEF Plugins
  <2>3. CASE FirstTable(s) = "maybe"
    <3>1. reset(c) = [c EXCEPT !.tags = r]
      BY <1>1, <2>1, <2>3 DEF reset
    <3>2. reset(c).tags = r
      BY <2>1, <3>1 DEF Plugins
    <3>3. s # <<>>
      BY <2>3 DEF FirstTable
    <3>4. \A j \in 1 .. Len(s) : s[j] # "absent"
      BY <1>1 DEF Tagged
    <3>5. \A j \in 1 .. Len(r) : r[j] # "absent"
      <4> HIDE DEF s
      <4>1. Len(r) = Len(s) - 1 /\ \A j \in 1 .. Len(s) - 1 : r[j] = s[j + 1]
        BY <2>2, <3>3
      <4> QED BY <2>2, <3>4, <4>1
    <3> QED BY <3>2, <3>5 DEF Tagged
  <2>4. CASE FirstTable(s) # "maybe"
    <3>1. reset(c) = c
      BY <1>1, <2>1, <2>4 DEF reset
    <3> QED BY <3>1
  <2> QED BY <2>3, <2>4
<1>2. CASE ~ IsPluginOf(c, "input")
  <2>1. reset(c) = c \/ (IsPluginOf(c, "output") /\ reset(c) = [c EXCEPT !.exclude = "none", !.pass = Tail(c.pass)])
    BY <1>2 DEF reset
  <2>2. ~ IsPluginOf(reset(c), "input")
    <3>1. CASE reset(c) = c
      BY <1>2, <3>1
    <3>2. CASE IsPluginOf(c, "output") /\ reset(c) = [c EXCEPT !.exclude = "none", !.pass = Tail(c.pass)]
      <4>1. c \in Plugins(D) /\ c.type = "output"
        BY <1>0, <3>2 DEF IsPluginOf
      <4>2. reset(c).type = "output"
        BY <3>2, <4>1 DEF Plugins
      <4> QED BY <4>2 DEF IsPluginOf
    <3> QED BY <2>1, <3>1, <3>2
  <2> QED BY <2>2 DEF Tagged
<1> QED BY <1>1, <1>2

(* The first tagpass of an output with the default is one that passes      *)
(* something of to_cep: the tables that are silent are the last.           *)
LastAbsent(last, pass) == \A j \in 1 .. Len(pass) : pass[j] = "absent" => last /\ j = Len(pass)
Askable(c) ==
  IsPluginOf(c, "output") => /\ LastAbsent(c.passLast, c.pass)
                             /\ c.exclude = "default" => FirstTable(c.pass) # "absent"

LEMMA AskableDefault ==
  ASSUME NEW D, NEW c \in Component(D), Askable(c)
  PROVE  Askable(Defaulted(c))
<1>1. CASE IsPluginOf(c, "output")
  <2>1. c \in Plugins(D)
    BY <1>1, PluginIs DEF IsPluginOf
  <2> DEFINE E == D \cup {"default"}
             s == c.pass
             r == addTagpass(c)
             n == Len(s)
  <2>2. s \in Seq(E) /\ n \in Nat /\ "default" \in E
    <3>1. s \in Seq(D)
      BY <2>1 DEF Plugins
    <3> QED BY <3>1
  <2>3. Defaulted(c) = [c EXCEPT !.exclude = "default", !.pass = r]
    <3>1. ~ IsPluginOf(c, "input")
      BY <1>1 DEF IsPluginOf
    <3> QED BY <1>1, <3>1 DEF Defaulted
  <2> HIDE DEF E, r
  <2>4. Defaulted(c).pass = r /\ Defaulted(c).passLast = c.passLast
    BY <2>1, <2>3 DEF Plugins
  <2>5. r \in Seq(E) /\ \E i \in 1 .. n + 1 : /\ Inserted(E, s, i, "default", r)
                                            /\ i = IF c.passLast /\ s # <<>> THEN n ELSE n + 1
    BY <2>2, TagpassIs DEF r
  <2>6. PICK i \in 1 .. n + 1 : /\ Inserted(E, s, i, "default", r)
                                /\ i = IF c.passLast /\ s # <<>> THEN n ELSE n + 1
    BY <2>5
  <2>7. /\ Len(r) = n + 1 /\ r[i] = "default"
        /\ \A j \in 1 .. i - 1 : r[j] = s[j]
        /\ \A j \in i + 1 .. n + 1 : r[j] = s[j - 1]
    BY <2>6 DEF Inserted
  <2>8. \A j \in 1 .. n : s[j] = "absent" => c.passLast /\ j = n
    BY <1>1 DEF Askable, LastAbsent
  <2> HIDE DEF s, n
  <2>9. ASSUME NEW j \in 1 .. n + 1, r[j] = "absent" PROVE c.passLast /\ j = n + 1 /\ j # 1
    <3>1. CASE j \in 1 .. i - 1
      <4>1. j \in 1 .. n /\ s[j] = "absent"
        BY <2>2, <2>7, <2>9, <3>1
      <4>2. c.passLast /\ j = n
        BY <2>8, <4>1
      <4>3. s # <<>>
        BY <2>2, <4>1 DEF n, s
      <4> QED BY <2>2, <2>6, <3>1, <4>2, <4>3
    <3>2. CASE j \in i + 1 .. n + 1
      <4>1. j - 1 \in 1 .. n /\ s[j - 1] = "absent"
        BY <2>2, <2>7, <2>9, <3>2
      <4>2. c.passLast /\ j - 1 = n
        BY <2>8, <4>1
      <4> QED BY <2>2, <4>1, <4>2
    <3>3. j # i
      BY <2>7, <2>9
    <3> QED BY <2>2, <3>1, <3>2, <3>3
  <2>10. r # <<>> /\ r[1] # "absent"
    BY <2>2, <2>5, <2>7, <2>9
  <2>11. LastAbsent(c.passLast, r)
    BY <2>7, <2>9 DEF LastAbsent
  <2> QED BY <2>4, <2>10, <2>11 DEF Askable, FirstTable
<1>2. CASE ~ IsPluginOf(c, "output")
  <2>1. CASE IsPluginOf(c, "input")
    <3>1. c \in Plugins(D)
      BY <2>1, PluginIs DEF IsPluginOf
    <3>2. Defaulted(c) = [c EXCEPT !.tags = Append(c.tags, "maybe")]
      BY <1>2, <2>1 DEF Defaulted
    <3>3. Defaulted(c).type = "input"
      BY <2>1, <3>1, <3>2 DEF Plugins, IsPluginOf
    <3> QED BY <3>3 DEF Askable, IsPluginOf
  <2>2. CASE ~ IsPluginOf(c, "input")
    <3>1. Defaulted(c) = c
      BY <1>2, <2>2 DEF Defaulted
    <3> QED BY <3>1
  <2> QED BY <2>1, <2>2
<1> QED BY <1>1, <1>2

LEMMA AskableReset ==
  ASSUME NEW D, NEW c \in Component(D), Askable(c)
  PROVE  Askable(reset(c))
<1>0. IsPlugin(c) => c \in Plugins(D)
  BY PluginIs
<1>1. CASE IsPluginOf(c, "output")
  <2>1. c \in Plugins(D) /\ ~ IsPluginOf(c, "input")
    BY <1>0, <1>1 DEF IsPluginOf
  <2> DEFINE s == c.pass
             r == Tail(s)
  <2>2. s \in Seq(D)
    BY <2>1 DEF Plugins
  <2>3. CASE c.exclude = "default" /\ FirstTable(s) = "default"
    <3>1. reset(c) = [c EXCEPT !.exclude = "none", !.pass = r]
      BY <1>1, <2>1, <2>3 DEF reset
    <3>2. reset(c).pass = r /\ reset(c).exclude = "none" /\ reset(c).passLast = c.passLast
      BY <2>1, <3>1 DEF Plugins
    <3>3. s # <<>>
      BY <2>3 DEF FirstTable
    <3>4. \A j \in 1 .. Len(s) : s[j] = "absent" => c.passLast /\ j = Len(s)
      BY <1>1 DEF Askable, LastAbsent
    <3>5. \A j \in 1 .. Len(r) : r[j] = "absent" => c.passLast /\ j = Len(r)
      <4> HIDE DEF s
      <4>1. Len(s) \in Nat /\ Len(r) = Len(s) - 1 /\ \A j \in 1 .. Len(s) - 1 : r[j] = s[j + 1]
        BY <2>2, <3>3
      <4> HIDE DEF r
      <4>2. ASSUME NEW j \in 1 .. Len(r), r[j] = "absent" PROVE c.passLast /\ j = Len(r)
        <5>1. j + 1 \in 1 .. Len(s) /\ s[j + 1] = "absent"
          BY <4>1, <4>2
        <5>2. c.passLast /\ j + 1 = Len(s)
          BY <3>4, <5>1
        <5> QED BY <4>1, <5>2
      <4> QED BY <4>2
    <3> QED BY <3>2, <3>5 DEF Askable, LastAbsent
  <2>4. CASE ~ (c.exclude = "default" /\ FirstTable(s) = "default")
    <3>1. reset(c) = c
      BY <1>1, <2>1, <2>4 DEF reset
    <3> QED BY <3>1
  <2> QED BY <2>3, <2>4
<1>2. CASE ~ IsPluginOf(c, "output")
  <2>1. reset(c) = c \/ (IsPluginOf(c, "input") /\ reset(c) = [c EXCEPT !.tags = Tail(c.tags)])
    BY <1>2 DEF reset
  <2>2. ~ IsPluginOf(reset(c), "output")
    <3>1. CASE reset(c) = c
      BY <1>2, <3>1
    <3>2. CASE IsPluginOf(c, "input") /\ reset(c) = [c EXCEPT !.tags = Tail(c.tags)]
      <4>1. c \in Plugins(D) /\ c.type = "input"
        BY <1>0, <3>2 DEF IsPluginOf
      <4>2. reset(c).type = "input"
        BY <3>2, <4>1 DEF Plugins
      <4> QED BY <4>2 DEF IsPluginOf
    <3> QED BY <2>1, <3>1, <3>2
  <2> QED BY <2>2 DEF Askable
<1> QED BY <1>1, <1>2

(* Files of plain plugins never get one that removeReroute cannot ask.     *)
AllTagged(s) == \A i \in 1 .. Len(s) : Tagged(s[i]) /\ Askable(s[i])

LEMMA TaggedRerouted ==
  ASSUME NEW D, NEW conf, Good(D, conf.comps), AllTagged(conf.comps), NEW cond, NEW url,
         cond.cepId # "absent"
  PROVE  AllTagged(rerouteMesurementToCep(conf, cond, url).comps)
<1> DEFINE s == conf.comps
           P1 == createBackloopHttpListenerInputPlugin
           P2 == createOverrideProcessorPlugin(cond.measurement, cond.cepId, cond.proxy)
           P3 == createBasicStatsAggregatorPlugin(cond.measurement, cond.cepId)
           P4 == createCepHttpOutputPlugin(cond.cepId, url)
           R == {s[i] : i \in 1 .. Len(s)} \cup {Defaulted(s[i]) : i \in 1 .. Len(s)}
                \cup {Spacer, P1, P2, P3, P4}
           new == rerouteMesurementToCep(conf, cond, url).comps
<1>1. s \in Seq(Component(D)) /\ s # <<>> /\ DOMAIN s = 1 .. Len(s) /\ Len(s) >= 1
  <2>1. s \in Seq(Component(D)) /\ s # <<>>
    BY GoodEnds DEF Good
  <2> QED BY <2>1
<1>2. \A i \in 1 .. Len(s) : /\ s[i] \in Component(D) /\ Tagged(s[i]) /\ Tagged(Defaulted(s[i]))
                            /\ Askable(s[i]) /\ Askable(Defaulted(s[i]))
  <2>1. \A i \in 1 .. Len(s) : s[i] \in Component(D) /\ Tagged(s[i]) /\ Askable(s[i])
    BY <1>1, ElementOf DEF AllTagged
  <2> QED BY <2>1, TaggedDefault, AskableDefault
<1>3. Tagged(Spacer) /\ Tagged(P1)
  <2>1. ~ IsPluginOf(Spacer, "input")
    BY DEF Spacer, IsPluginOf, IsPlugin
  <2>2. P1.tags = <<"false">>
    BY DEF createBackloopHttpListenerInputPlugin, Plugin
  <2>3. \A j \in 1 .. Len(P1.tags) : P1.tags[j] # "absent"
    BY <2>2
  <2> QED BY <2>1, <2>3 DEF Tagged
<1>4. Tagged(P2) /\ Tagged(P3) /\ Tagged(P4)
  <2>1. P2.type = "processor" /\ P3.type = "aggregator" /\ P4.type = "output"
    BY DEF createOverrideProcessorPlugin, createBasicStatsAggregatorPlugin, createCepHttpOutputPlugin, Plugin
  <2> QED BY <2>1 DEF Tagged, IsPluginOf
<1>a. Askable(Spacer) /\ Askable(P1) /\ Askable(P2) /\ Askable(P3)
  <2>1. ~ IsPluginOf(Spacer, "output")
    BY DEF Spacer, IsPluginOf, IsPlugin
  <2>2. P1.type = "input" /\ P2.type = "processor" /\ P3.type = "aggregator"
    BY DEF createBackloopHttpListenerInputPlugin, createOverrideProcessorPlugin,
           createBasicStatsAggregatorPlugin, Plugin
  <2> HIDE DEF P1, P2, P3
  <2> QED BY <2>1, <2>2 DEF Askable, IsPluginOf
<1>b. Askable(P4)
  <2>1. P4.pass = <<cond.cepId>> /\ P4.exclude = "own"
    BY DEF createCepHttpOutputPlugin, Plugin
  <2>2. \A j \in 1 .. Len(P4.pass) : P4.pass[j] # "absent"
    BY <2>1
  <2> HIDE DEF P4
  <2> QED BY <2>1, <2>2 DEF Askable, LastAbsent
<1> HIDE DEF P1, P2, P3, P4, s
<1>5. \A c \in R : Tagged(c) /\ Askable(c)
  BY <1>2, <1>3, <1>4, <1>a, <1>b
<1>6. /\ \A i \in 1 .. Len(s) : s[i] \in R /\ Defaulted(s[i]) \in R
      /\ Spacer \in R /\ P1 \in R /\ P2 \in R /\ P3 \in R /\ P4 \in R
  OBVIOUS
<1> HIDE DEF R
<1>7. new \in Seq(R)
  BY <1>1, <1>6, RerouteIn DEF s, P1, P2, P3, P4
<1> HIDE DEF new
<1>8. \A i \in 1 .. Len(new) : new[i] \in R
  BY <1>7
<1>9. AllTagged(new)
  BY <1>5, <1>8 DEF AllTagged
<1> QED BY <1>9 DEF new

LEMMA TaggedRemoved ==
  ASSUME NEW D, NEW conf, Good(D, conf.comps), AllTagged(conf.comps),
         NEW measurement \in Names, NEW cepId \in CepIds
  PROVE  AllTagged(removeReroute(conf, measurement, cepId).comps)
         /\ ~ removeRerouteFails(conf, measurement, cepId)
<1> DEFINE s == conf.comps
           R == {s[i] : i \in 1 .. Len(s)} \cup {reset(s[i]) : i \in 1 .. Len(s)}
           new == removeReroute(conf, measurement, cepId).comps
           last == conf.reroutes - 1 < 1
<1>1. s \in Seq(Component(D)) /\ DOMAIN s = 1 .. Len(s)
  BY DEF Good
<1>2. \A i \in 1 .. Len(s) : /\ s[i] \in Component(D) /\ Tagged(s[i]) /\ Tagged(reset(s[i]))
                            /\ Askable(s[i]) /\ Askable(reset(s[i]))
  <2>1. \A i \in 1 .. Len(s) : s[i] \in Component(D) /\ Tagged(s[i]) /\ Askable(s[i])
    BY <1>1, ElementOf DEF AllTagged
  <2> QED BY <2>1, TaggedReset, AskableReset
<1> HIDE DEF s, last
<1>3. \A c \in R : Tagged(c) /\ Askable(c)
  BY <1>2
<1>4. \A i \in 1 .. Len(s) : s[i] \in R /\ (IF last THEN reset(s[i]) ELSE s[i]) \in R
  OBVIOUS
<1> HIDE DEF R
<1>5. new \in Seq(R)
  <2>1. last = (conf.reroutes - 1 < 1)
    BY DEF last
  <2>2. \A i \in 1 .. Len(conf.comps) :
           /\ ~ IsPlugin(conf.comps[i]) => conf.comps[i] \in R
           /\ IsPlugin(conf.comps[i]) /\ ~ MustGo(conf.comps[i], measurement, cepId, last)
              => (IF last THEN reset(conf.comps[i]) ELSE conf.comps[i]) \in R
    BY <1>4 DEF s
  <2> QED BY <2>1, <2>2, LeftIn
<1> HIDE DEF new
<1>6. \A i \in 1 .. Len(new) : new[i] \in R
  BY <1>5
<1>7. AllTagged(new)
  BY <1>3, <1>6 DEF AllTagged
<1>8. ASSUME NEW i \in 1 .. Len(s), HasNoTagToAskFor(s[i]) PROVE FALSE
  <2>1. \/ IsPluginOf(s[i], "input") /\ FirstTable(s[i].tags) = "absent"
        \/ IsPluginOf(s[i], "output") /\ s[i].exclude = "default" /\ FirstTable(s[i].pass) = "absent"
    BY <1>8 DEF HasNoTagToAskFor
  <2>2. IsPluginOf(s[i], "input") /\ FirstTable(s[i].tags) = "absent"
    BY <1>2, <2>1 DEF Askable
  <2>3. s[i].tags \in Seq(D)
    <3>1. s[i] \in Plugins(D)
      BY <1>2, <2>2, PluginIs DEF IsPluginOf
    <3> QED BY <3>1 DEF Plugins
  <2>4. s[i].tags # <<>> /\ Head(s[i].tags) = "absent"
    BY <2>2 DEF FirstTable
  <2>5. 1 \in 1 .. Len(s[i].tags) /\ s[i].tags[1] = "absent"
    BY <2>3, <2>4
  <2> QED BY <1>2, <2>2, <2>5 DEF Tagged
<1>9. ~ removeRerouteFails(conf, measurement, cepId)
  BY <1>1, <1>8 DEF removeRerouteFails, s
<1> QED BY <1>7, <1>9 DEF new

-----------------------------------------------------------------------------
(* The default policies.                                                   *)
OneSource == \A a \in Ids : \A i \in DOMAIN Alerts[a].conds : Len(Alerts[a].conds[i].sources) = 1

LEMMA DefaultDeployable ==
  ASSUME OneSource, NEW a \in Ids
  PROVE  Deployable(a, writeDefaultPoliciesFileForAlerts)
<1>1. writeDefaultPoliciesFileForAlerts[a].cond =
        [i \in DOMAIN Alerts[a].conds |->
           IF Len(Alerts[a].conds[i].sources) = 1 THEN Head(Alerts[a].conds[i].sources) ELSE Nowhere]
  BY DEF writeDefaultPoliciesFileForAlerts
<1>2. DOMAIN Alerts[a].conds = 1 .. N(a) /\ \A i \in 1 .. N(a) : Head(Alerts[a].conds[i].sources) \in Hosts
  BY AlertIs
<1> DEFINE q == writeDefaultPoliciesFileForAlerts
<1> HIDE DEF q
<1>3. ASSUME NEW i \in 1 .. N(a) PROVE q[a].cond[i] \in Hosts
  <2>1. Len(Alerts[a].conds[i].sources) = 1
    BY <1>2 DEF OneSource
  <2>2. q[a].cond[i] = Head(Alerts[a].conds[i].sources)
    BY <1>1, <1>2, <2>1 DEF q
  <2> QED BY <1>2, <2>2
<1>4. Deployable(a, q)
  BY <1>3 DEF Deployable
<1> QED BY <1>4 DEF q

(* An operator that the default keeps central is deployed only where all   *)
(* that is below it is: nothing is replaced.                               *)
LEMMA DefaultReplacesNothing ==
  ASSUME NEW a \in Ids
  PROVE  ReplacedBelow(Best(a, writeDefaultPoliciesFileForAlerts)) = {}
<1> DEFINE p == writeDefaultPoliciesFileForAlerts
           n == N(a)
           t == applyPolicy(NewTree(n), p[a])
           b == Best(a, p)
<1>1. n \in Nat /\ n >= 1 /\ DOMAIN Alerts[a].conds = 1 .. n
  BY AlertIs
<1>2. b \in TreesOf(n, Somewhere) /\ b.cond = p[a].cond /\ Optimal(Somewhere, t, n, b.op)
  BY BestOf, DefaultPolicyOK
<1>3. t.cond = p[a].cond /\ t.op = p[a].op
  BY DEF applyPolicy, NewTree
<1>4. p[a].op = [k \in DOMAIN Alerts[a].conds |-> Nowhere]
  BY DEF writeDefaultPoliciesFileForAlerts
<1> HIDE DEF p, n, b, t
<1>5. \A k \in 1 .. n : t.op[k] = Nowhere
  BY <1>1, <1>3, <1>4
<1>6. \A k \in 1 .. n : b.op[k] = Chosen(t, k, IF k = 1 THEN Nowhere ELSE b.op[k - 1])
  BY <1>2 DEF Optimal
<1>7. Len(b.op) = n
  BY <1>1, <1>2, OpsLen
<1>8. ASSUME NEW k \in 1 .. n, NEW j \in DOMAIN Kids(k), Moved(b, k, j) PROVE FALSE
  <2>1. b.op[k] # Nowhere /\ deployOn(b, Kids(k)[j]) # b.op[k]
    BY <1>8 DEF Moved
  <2>2. CASE k = 1
    <3>1. Kids(k)[j] = Cond(1) /\ b.op[k] = t.cond[1]
      <4>1. DOMAIN Kids(k) = {1} /\ Kids(k)[1] = Cond(1)
        BY <1>1, <2>2, KidsAre
      <4>2. j = 1
        BY <4>1
      <4>3. Kids(k)[j] = Cond(1)
        BY <4>1, <4>2
      <4>4. b.op[k] = t.cond[1]
        BY <1>5, <1>6, <2>1, <2>2 DEF Chosen
      <4> QED BY <4>3, <4>4
    <3>2. deployOn(b, Kids(k)[j]) = b.cond[1]
      BY <3>1 DEF deployOn, Cond
    <3> QED BY <1>2, <1>3, <2>1, <3>1, <3>2
  <2>3. CASE k = 2
    <3>1. j \in {1, 2} /\ Kids(k)[j] = Cond(j)
      BY <1>1, <2>3, KidsAre
    <3>2. t.cond[1] = t.cond[2] /\ b.op[k] = t.cond[1]
      BY <1>5, <1>6, <2>1, <2>3 DEF Chosen
    <3>3. deployOn(b, Kids(k)[j]) = b.cond[j]
      BY <3>1 DEF deployOn, Cond
    <3> QED BY <1>2, <1>3, <2>1, <3>1, <3>2, <3>3
  <2>4. CASE k >= 3
    <3>1. (j = 1 /\ Kids(k)[j] = Cond(k)) \/ (j = 2 /\ Kids(k)[j] = Op(k - 1))
      BY <1>1, <2>4, KidsAre
    <3>2. b.op[k] = b.op[k - 1] /\ t.cond[k] = b.op[k - 1]
      BY <1>5, <1>6, <2>1, <2>4 DEF Chosen
    <3>3. deployOn(b, Kids(k)[j]) = b.cond[k] \/ deployOn(b, Kids(k)[j]) = b.op[k - 1]
      BY <3>1 DEF deployOn, Cond, Op
    <3> QED BY <1>2, <1>3, <2>1, <3>2, <3>3
  <2> QED BY <1>1, <2>2, <2>3, <2>4
<1>9. ReplacedBelow(b) = {}
  BY <1>7, <1>8 DEF ReplacedBelow
<1> QED BY <1>9 DEF b, p

(* The central system is left with no operator but deployed ones.          *)
LEMMA ShownDeployed ==
  ASSUME NEW n \in Nat, n >= 1, NEW tree, DOMAIN tree.op = 1 .. n, Len(tree.op) = n,
         NEW k, Op(k) \in Range(createDashboardPanelAlertConditions(tree))
  PROVE  k \in 1 .. n /\ tree.op[k] # Nowhere
<1> DEFINE V == Seq({Cond(i) : i \in 1 .. n} \union {Op(m) : m \in {m \in 1 .. n : tree.op[m] # Nowhere}})
           Body(m, v) == CASE tree.op[m] # Nowhere -> <<Op(m)>>
                           [] tree.op[m] = Nowhere /\ m <= 2 -> Kids(m)
                           [] OTHER -> Append(v, Cond(m))
           Def(f) == [m \in DOMAIN tree.op |-> Body(m, f[m - 1])]
           central == CHOOSE f : f = Def(f)
<1>1. createDashboardPanelAlertConditions(tree) = central[n]
  BY DEF createDashboardPanelAlertConditions
<1>2. ASSUME NEW m \in 1 .. n, NEW v, m < 3 \/ v \in V PROVE Body(m, v) \in V
  <2> DEFINE S == {Cond(i) : i \in 1 .. n} \union {Op(q) : q \in {q \in 1 .. n : tree.op[q] # Nowhere}}
  <2>1. CASE tree.op[m] # Nowhere
    <3>1. Op(m) \in S
      BY <2>1
    <3>2. Body(m, v) = <<Op(m)>>
      BY <2>1
    <3> HIDE DEF S, Body
    <3> QED BY <3>1, <3>2 DEF S
  <2>2. CASE tree.op[m] = Nowhere /\ m <= 2
    <3>1. Body(m, v) = Kids(m) /\ Kids(m) = [i \in 1 .. m |-> Cond(i)]
      BY <2>2 DEF Kids
    <3>2. \A i \in 1 .. m : Cond(i) \in S
      BY <2>2
    <3> HIDE DEF S, Body
    <3>3. [i \in 1 .. m |-> Cond(i)] \in Seq(S)
      BY <2>2, <3>2
    <3> QED BY <3>1, <3>3 DEF S
  <2>3. CASE tree.op[m] = Nowhere /\ ~ (m <= 2)
    <3>1. Body(m, v) = Append(v, Cond(m))
      BY <2>3
    <3>2. Cond(m) \in S /\ v \in Seq(S)
      BY <1>2, <2>3
    <3> HIDE DEF S, Body
    <3>3. Append(v, Cond(m)) \in Seq(S)
      BY <3>2
    <3> QED BY <3>1, <3>3 DEF S
  <2> QED BY <2>1, <2>2, <2>3
<1>3. ASSUME NEW m \in 1 .. n, m < 3, NEW v, NEW u PROVE Body(m, v) = Body(m, u)
  BY <1>3
<1> DEFINE base == <<>>
<1>4. base \in V
  OBVIOUS
<1> HIDE DEF Body, V, base
<1> DEFINE step == [m \in 1 .. n |-> [v \in V |-> Body(m, v)]]
<1>5. step \in [1 .. n -> [V -> V]] /\ \A m \in 1 .. n, v \in V : step[m][v] = Body(m, v)
  BY <1>2
<1> HIDE DEF step
<1>6. PICK f \in [1 .. n -> V] : \A m \in 1 .. n : f[m] = step[m][IF m = 1 THEN base ELSE f[m - 1]]
  <2>1. \E f : Chain(f, V, base, n, step)
    BY <1>4, <1>5, ChainExists
  <2> QED BY <2>1 DEF Chain
<1>7. ASSUME NEW m \in 1 .. n PROVE f[m] = Body(m, f[m - 1])
  <2>1. CASE m = 1
    <3>1. f[m] = Body(m, base)
      BY <1>4, <1>5, <1>6, <2>1
    <3> QED BY <1>3, <2>1, <3>1
  <2>2. CASE m # 1
    <3>1. m - 1 \in 1 .. n
      BY <2>2
    <3>2. f[m - 1] \in V /\ f[m] = step[m][f[m - 1]]
      BY <1>6, <2>2, <3>1
    <3> QED BY <1>5, <3>2
  <2> QED BY <2>1, <2>2
<1>8. f = Def(f)
  BY <1>6, <1>7
<1>9. central = Def(central)
  <2> HIDE DEF Def
  <2> QED BY <1>8
<1> HIDE DEF central
<1>10. \A m \in 1 .. n : central[m] = Body(m, central[m - 1])
  BY <1>9
<1> DEFINE P == {m \in 0 .. n : m = 0 \/ central[m] \in V}
<1>11. 0 \in P
  OBVIOUS
<1>12. ASSUME NEW q \in 0 .. n - 1, q \in P PROVE q + 1 \in P
  <2>1. PICK m \in 1 .. n : m = q + 1
    OBVIOUS
  <2>2. central[m] = Body(m, central[m - 1])
    BY <1>10
  <2>3. m < 3 \/ central[m - 1] \in V
    BY <1>12, <2>1
  <2>4. central[m] \in V
    BY <1>2, <2>2, <2>3
  <2> QED BY <2>1, <2>4
<1> HIDE DEF P
<1>13. n \in P
  <2>1. \A m \in 0 .. n : m \in P
    BY <1>11, <1>12, UpTo
  <2> QED BY <2>1
<1>14. central[n] \in V
  BY <1>13 DEF P
<1>15. Op(k) \in {Cond(i) : i \in 1 .. n} \union {Op(m) : m \in {m \in 1 .. n : tree.op[m] # Nowhere}}
  <2> DEFINE S == {Cond(i) : i \in 1 .. n} \union {Op(m) : m \in {m \in 1 .. n : tree.op[m] # Nowhere}}
  <2>1. central[n] \in Seq(S) /\ Op(k) \in Range(central[n])
    BY <1>1, <1>14 DEF V
  <2> HIDE DEF S
  <2>2. Op(k) \in S
    BY <2>1 DEF Range
  <2> QED BY <2>2 DEF S
<1>16. \A i \in 1 .. n : Op(k) # Cond(i)
  BY DEF Op, Cond
<1>17. \A m : Op(m) = Op(k) => m = k
  BY DEF Op
<1> QED BY <1>15, <1>16, <1>17

LEMMA DefaultUpdate ==
  ASSUME NEW a \in Ids, policy = writeDefaultPoliciesFileForAlerts,
         PlacedBy(a, policy), Together(Best(a, policy)) \subseteq timed[a]
  PROVE  ~ updateFails(a)
<1> DEFINE p == writeDefaultPoliciesFileForAlerts
           n == N(a)
           b == Best(a, p)
           t == applyPolicy(NewTree(n), p[a])
<1>1. n \in Nat /\ n >= 1 /\ DOMAIN Alerts[a].conds = 1 .. n
  BY AlertIs
<1>2. /\ b \in TreesOf(n, Somewhere) /\ b.cond = p[a].cond /\ b.proxied = {}
      /\ Optimal(Somewhere, t, n, b.op)
  BY BestOf, DefaultPolicyOK
<1>3. t.cond = p[a].cond /\ t.op = p[a].op
  BY DEF applyPolicy, NewTree
<1>4. p[a].op = [k \in DOMAIN Alerts[a].conds |-> Nowhere]
  BY DEF writeDefaultPoliciesFileForAlerts
<1>5. ReplacedBelow(b) = {}
  BY DefaultReplacesNothing
<1>6. alertTree[a] = [b EXCEPT !.proxied = ReplacedBelow(b)]
  BY DEF PlacedBy
<1>7. Together(b) \subseteq timed[a]
  OBVIOUS
<1> HIDE DEF p, n, b, t
<1>8. alertTree[a] = b
  BY <1>2, <1>5, <1>6 DEF TreesOf
<1>9. \A k \in 1 .. n : t.op[k] = Nowhere
  BY <1>1, <1>3, <1>4
<1>10. \A k \in 1 .. n : b.op[k] = Chosen(t, k, IF k = 1 THEN Nowhere ELSE b.op[k - 1])
  BY <1>2 DEF Optimal
<1>11. Len(b.op) = n /\ DOMAIN b.op = 1 .. n
  BY <1>1, <1>2, OpsLen
<1>12. ASSUME NEW k \in 1 .. n, b.op[k] # Nowhere PROVE k \in Together(b)
  <2>1. ASSUME NEW j \in DOMAIN Kids(k) PROVE deployOn(b, Kids(k)[j]) = deployOn(b, Kids(k)[1])
    <3>1. CASE k = 1
      <4>1. j = 1
        BY <1>1, <3>1, KidsAre
      <4> QED BY <4>1
    <3>2. CASE k = 2
      <4>1. j \in {1, 2} /\ Kids(k)[1] = Cond(1) /\ Kids(k)[2] = Cond(2)
        BY <1>1, <3>2, KidsAre
      <4>2. t.cond[1] = t.cond[2]
        BY <1>9, <1>10, <1>12, <3>2 DEF Chosen
      <4>3. deployOn(b, Kids(k)[1]) = b.cond[1] /\ deployOn(b, Kids(k)[2]) = b.cond[2]
        BY <4>1 DEF deployOn, Cond
      <4> QED BY <1>2, <1>3, <4>1, <4>2, <4>3
    <3>3. CASE k >= 3
      <4>1. j \in {1, 2} /\ Kids(k)[1] = Cond(k) /\ Kids(k)[2] = Op(k - 1)
        BY <1>1, <3>3, KidsAre
      <4>2. t.cond[k] = b.op[k - 1]
        BY <1>9, <1>10, <1>12, <3>3 DEF Chosen
      <4>3. deployOn(b, Kids(k)[1]) = b.cond[k] /\ deployOn(b, Kids(k)[2]) = b.op[k - 1]
        BY <4>1 DEF deployOn, Cond, Op
      <4> QED BY <1>2, <1>3, <4>1, <4>2, <4>3
    <3> QED BY <1>1, <3>1, <3>2, <3>3
  <2> QED BY <1>11, <2>1 DEF Together
<1>13. ASSUME NEW k \in DOMAIN b.op, Op(k) \in Range(createDashboardPanelAlertConditions(b))
       PROVE  k \in timed[a]
  <2>1. k \in 1 .. n /\ b.op[k] # Nowhere
    BY <1>1, <1>11, <1>13, ShownDeployed
  <2> QED BY <1>7, <1>12, <2>1
<1> QED BY <1>2, <1>8, <1>13 DEF updateFails

PlainFiles == \A h \in Hosts : \A i \in DOMAIN files[h] : IsPlugin(files[h][i]) => Plain(files[h][i])

TagInv == PlainFiles => \A h \in Hosts : AllTagged(config[h].comps)

LEMMA TagInit == Init => TagInv
<1> SUFFICES ASSUME Init, PlainFiles, NEW h \in Hosts PROVE AllTagged(config[h].comps)
  BY DEF TagInv
<1>1. config[h].comps = files[h] /\ files \in [Hosts -> Seq(Component(STRING))]
  BY FilesAssumption DEF Init
<1>2. files[h] \in Seq(Component(STRING))
  BY <1>1
<1>3. DOMAIN files[h] = 1 .. Len(files[h])
  BY <1>2
<1>4. ASSUME NEW i \in 1 .. Len(files[h]) PROVE Tagged(files[h][i]) /\ Askable(files[h][i])
  <2>1. IsPlugin(files[h][i]) => Plain(files[h][i])
    BY <1>3 DEF PlainFiles
  <2>2. IsPluginOf(files[h][i], "input") => files[h][i].tags = <<>>
    BY <2>1 DEF IsPluginOf, Plain
  <2>3. PICK c : c = files[h][i]
    OBVIOUS
  <2>4. IsPluginOf(c, "output") =>
          c.pass = <<>> \/ (Len(c.pass) = 1 /\ c.passLast /\ c.exclude = "none")
    BY <2>1, <2>3 DEF IsPluginOf, Plain
  <2>5. IsPluginOf(c, "output") => LastAbsent(c.passLast, c.pass)
    BY <2>4 DEF LastAbsent
  <2>6. Askable(c)
    BY <2>4, <2>5 DEF Askable, FirstTable
  <2> QED BY <2>2, <2>3, <2>6 DEF Tagged
<1> QED BY <1>1, <1>4 DEF AllTagged

LEMMA TagNext == TypeInv /\ FileInv /\ TagInv /\ [Next]_vars => TagInv'
<1> SUFFICES ASSUME TypeInv, FileInv, TagInv, [Next]_vars PROVE TagInv'
  OBVIOUS
<1>w. ASSUME Doing("reroute") \/ Doing("unroute")
      PROVE  What.measurement \in Names /\ What.cepId \in CepIds /\ What.cepId # "absent"
  <2>1. alert \in Ids /\ What \in Whats(alert)
    BY <1>w, DoingIs DEF TypeInv
  <2> QED BY <2>1, WhatIs, AbsentIsNoId
<1>1. ASSUME UNCHANGED <<config, files>> PROVE TagInv'
  BY <1>1 DEF TagInv, PlainFiles
<1>2. ASSUME NEW x, NEW new, saveConfig(x, new), files' = files,
             x \in Hosts /\ AllTagged(config[x].comps) => AllTagged(new.comps)
      PROVE  TagInv'
  <2>1. config' = [config EXCEPT ![x] = new]
    BY <1>2 DEF saveConfig
  <2>2. \A h \in Hosts : config'[h] = config[h] \/ (h = x /\ config'[h] = new)
    BY <2>1 DEF FileInv
  <2>3. PlainFiles' <=> PlainFiles
    BY <1>2 DEF PlainFiles
  <2>4. PlainFiles => \A h \in Hosts : AllTagged(config'[h].comps)
    BY <1>2, <2>2 DEF TagInv
  <2> QED BY <2>3, <2>4 DEF TagInv
<1>3. CASE addRerouteMetricToLocalAlertingSystem
  <2> DEFINE x == What.source
             new == rerouteMesurementToCep(config[x], What, Here)
  <2>1. saveConfig(x, new) /\ files' = files
    BY <1>3 DEF addRerouteMetricToLocalAlertingSystem, Done
  <2>2. ASSUME x \in Hosts, AllTagged(config[x].comps) PROVE AllTagged(new.comps)
    <3>1. PICK D : Good(D, config[x].comps)
      BY <2>2 DEF FileInv, Faithful
    <3>2. What.cepId # "absent"
      BY <1>3, <1>w DEF addRerouteMetricToLocalAlertingSystem
    <3> QED BY <2>2, <3>1, <3>2, TaggedRerouted
  <2> HIDE DEF x, new
  <2> QED BY <1>2, <2>1, <2>2
<1>4. CASE removeRerouteMetricToLocalAlertingSystem
  <2> DEFINE x == What.source
             new == removeReroute(config[x], What.measurement, What.cepId)
  <2>1. CASE Crash
    BY <1>1, <2>1 DEF Crash, world
  <2>2. CASE ~ Crash
    <3>1. saveConfig(x, new) /\ files' = files
      BY <1>4, <2>2 DEF removeRerouteMetricToLocalAlertingSystem, Done
    <3>2. ASSUME x \in Hosts, AllTagged(config[x].comps) PROVE AllTagged(new.comps)
      <4>1. PICK D : Good(D, config[x].comps)
        BY <3>2 DEF FileInv, Faithful
      <4>2. What.measurement \in Names /\ What.cepId \in CepIds
        BY <1>4, <1>w DEF removeRerouteMetricToLocalAlertingSystem
      <4> QED BY <3>2, <4>1, <4>2, TaggedRemoved
    <3> HIDE DEF x, new
    <3> QED BY <1>2, <3>1, <3>2
  <2> QED BY <2>1, <2>2
<1>5. CASE Start("place") \/ Start("undo") \/ Finish \/ NextAlert
  BY <1>1, <1>5 DEF Start, Finish, NextAlert, Crash, world
<1>6. CASE addAlertTree \/ removeAlertTree
  BY <1>1, <1>6 DEF addAlertTree, removeAlertTree, Done
<1>7. CASE updateInstanceForLocallyPlacedAlert \/ restoreInstanceCentralAlertPlacement
  BY <1>1, <1>7 DEF updateInstanceForLocallyPlacedAlert, restoreInstanceCentralAlertPlacement,
                    Crash, world, Done
<1>8. CASE UNCHANGED vars
  BY <1>1, <1>8 DEF vars, world
<1> QED BY <1>3, <1>4, <1>5, <1>6, <1>7, <1>8 DEF Next

(* While the commands take turns an undo never finds a tree that no policy *)
(* has been applied to, so with the default policies no alert's turn fails. *)
LEMMA DefaultTurn ==
  ASSUME TypeInv, TreeInv, InTurn, OneSource, policy = writeDefaultPoliciesFileForAlerts,
         ~ crashed, command # "none", calls = <<>>, NEW a \in Ids
  PROVE  ~ PlacementFails(Turned(a))
<1> DEFINE n == N(a)
           t == Turned(a)
<1>1. n \in Nat /\ Nowhere \notin Hosts /\ Null \notin Hosts
  BY AlertIs, AlertsAssumption
<1>2. alertTree[a].proxied = {}
  BY DEF TreeInv
<1>3. \/ alertTree[a] = NewTree(n) /\ Len(history) <= 1
      \/ \E p \in AllPolicies : Deployable(a, p) /\ PlacedBy(a, p)
  BY DEF TreeInv
<1>4. alertTree[a] = NewTree(n) \/ alertTree[a] \in TreesOf(n, Somewhere)
  BY DEF TypeInv
<1>5. ASSUME t.proxied = {}, DOMAIN t.cond = 1 .. n, \A i \in 1 .. n : t.cond[i] \in Hosts
      PROVE  ~ PlacementFails(t)
  <2> HIDE DEF t, n
  <2>1. \A i \in DOMAIN t.cond : t.cond[i] \notin {Nowhere, Null}
    BY <1>1, <1>5
  <2> QED BY <1>5, <2>1 DEF PlacementFails
<1>6. CASE command = "place"
  <2>1. Deployable(a, policy)
    BY DefaultDeployable
  <2>2. policy[a].cond \in [1 .. n -> Somewhere]
    BY DEF TypeInv, PolicyOK
  <2>3. t = [alertTree[a] EXCEPT !.cond = policy[a].cond, !.op = policy[a].op]
    BY <1>6 DEF Turned, applyPolicy
  <2> HIDE DEF t
  <2>4. t.cond = policy[a].cond /\ t.proxied = alertTree[a].proxied
    BY <1>4, <2>3 DEF NewTree, TreesOf
  <2>5. DOMAIN t.cond = 1 .. n /\ \A i \in 1 .. n : t.cond[i] \in Hosts
    BY <2>1, <2>2, <2>4 DEF Deployable
  <2> QED BY <1>2, <1>5, <2>4, <2>5 DEF t
<1>7. CASE command # "place"
  <2>1. command = "undo" /\ history # <<>> /\ Last(history) = "undo"
    BY <1>7 DEF TypeInv, TreeInv
  <2>2. ~ (Len(history) <= 1)
    <3>1. history \in Seq({"place", "undo"})
      BY DEF TypeInv
    <3>2. ASSUME Len(history) <= 1 PROVE FALSE
      <4>1. Len(history) = 1 /\ 1 \in DOMAIN history /\ Last(history) = history[1]
        <5>1. Len(history) = 1
          <6>1. Len(history) \in Nat /\ Len(history) # 0
            BY <2>1, <3>1
          <6> QED BY <3>2, <6>1
        <5>2. DOMAIN history = 1 .. Len(history)
          BY <3>1
        <5> QED BY <5>1, <5>2 DEF Last
      <4>2. history[1] = "place"
        BY <4>1 DEF InTurn
      <4> QED BY <2>1, <4>1, <4>2
    <3> QED BY <3>2
  <2>3. PICK p \in AllPolicies : Deployable(a, p) /\ PlacedBy(a, p)
    BY <1>3, <2>2
  <2>4. PolicyOK(p)
    BY EveryPolicyOK DEF AllPolicies
  <2> DEFINE b == Best(a, p)
  <2>5. b \in TreesOf(n, Somewhere) /\ b.cond = p[a].cond
    BY <2>4, BestOf
  <2>6. t = [b EXCEPT !.proxied = ReplacedBelow(b)]
    BY <1>7, <2>3 DEF Turned, PlacedBy
  <2>7. t = alertTree[a]
    BY <1>7 DEF Turned
  <2>8. p[a].cond \in [1 .. n -> Somewhere]
    BY <2>4 DEF PolicyOK
  <2> HIDE DEF t, b
  <2>9. t.cond = p[a].cond
    BY <2>5, <2>6 DEF TreesOf
  <2>10. DOMAIN t.cond = 1 .. n /\ \A i \in 1 .. n : t.cond[i] \in Hosts
    BY <2>3, <2>8, <2>9 DEF Deployable
  <2> QED BY <1>2, <1>5, <2>7, <2>10 DEF t
<1> QED BY <1>6, <1>7

LEMMA DefaultSafeNext ==
  ASSUME TypeInv, FileInv, TreeInv, TimedInv, TagInv, DefaultPolicySafe, [Next]_vars
  PROVE  DefaultPolicySafe'
<1>1. ASSUME UNCHANGED vars PROVE DefaultPolicySafe'
  BY <1>1 DEF vars, world, DefaultPolicySafe, InTurn
<1>2. ASSUME crashed' = FALSE PROVE DefaultPolicySafe'
  BY <1>2 DEF DefaultPolicySafe
<1>3. ASSUME Crash, ~ crashed,
             InTurn /\ OneSource /\ policy = writeDefaultPoliciesFileForAlerts /\ PlainFiles => FALSE
      PROVE  DefaultPolicySafe'
  <2>1. policy' = policy /\ files' = files /\ history' = history
    BY <1>3 DEF Crash
  <2>2. InTurn' <=> InTurn
    BY <2>1 DEF InTurn
  <2> QED BY <1>3, <2>1, <2>2 DEF DefaultPolicySafe, OneSource, PlainFiles
<1>4. CASE NextAlert
  <2>1. ~ crashed /\ command # "none" /\ calls = <<>> /\ alert < Len(Alerts)
    BY <1>4 DEF NextAlert
  <2>2. alert + 1 \in Ids
    BY <2>1, IdsAre DEF TypeInv
  <2>3. PICK a \in Ids : a = alert + 1
    BY <2>2
  <2>4. CASE PlacementFails(Turned(a))
    <3>1. Crash
      BY <1>4, <2>3, <2>4 DEF NextAlert, Turned
    <3>2. InTurn /\ OneSource /\ policy = writeDefaultPoliciesFileForAlerts /\ PlainFiles => FALSE
      BY <2>1, <2>4, DefaultTurn
    <3> QED BY <1>3, <2>1, <3>1, <3>2
  <2>5. CASE ~ PlacementFails(Turned(a))
    <3>1. crashed' = crashed
      BY <1>4, <2>3, <2>5 DEF NextAlert, Turned
    <3> QED BY <1>2, <2>1, <3>1 DEF TypeInv
  <2> QED BY <2>4, <2>5
<1>5. CASE removeRerouteMetricToLocalAlertingSystem
  <2> DEFINE x == What.source
  <2>1. Doing("unroute") /\ ~ crashed
    BY <1>5 DEF removeRerouteMetricToLocalAlertingSystem, Doing
  <2>2. x \in Hosts /\ What.measurement \in Names /\ What.cepId \in CepIds
    <3>1. alert \in Ids /\ What \in Whats(alert)
      BY <2>1, DoingIs DEF TypeInv
    <3> QED BY <3>1, WhatIs DEF Whats
  <2>3. CASE removeRerouteFails(config[x], What.measurement, What.cepId)
    <3>1. Crash
      BY <1>5, <2>3 DEF removeRerouteMetricToLocalAlertingSystem
    <3>2. PICK D : Good(D, config[x].comps)
      BY <2>2 DEF FileInv, Faithful
    <3> HIDE DEF x
    <3>3. ASSUME PlainFiles PROVE FALSE
      <4>1. AllTagged(config[x].comps)
        BY <2>2, <3>3 DEF TagInv
      <4> QED BY <2>2, <2>3, <3>2, <4>1, TaggedRemoved
    <3> QED BY <1>3, <2>1, <3>1, <3>3
  <2>4. CASE ~ removeRerouteFails(config[x], What.measurement, What.cepId)
    <3>1. crashed' = crashed
      BY <1>5, <2>4 DEF removeRerouteMetricToLocalAlertingSystem, Done
    <3> QED BY <1>2, <2>1, <3>1 DEF TypeInv
  <2> QED BY <2>3, <2>4
<1>6. CASE updateInstanceForLocallyPlacedAlert
  <2>1. Doing("update") /\ ~ crashed
    BY <1>6 DEF updateInstanceForLocallyPlacedAlert, Doing
  <2>2. What = alert /\ alert \in Ids /\ command = "place"
    BY <2>1, DoingIs DEF TypeInv
  <2>3. CASE updateFails(What)
    <3>1. Crash
      BY <1>6, <2>3 DEF updateInstanceForLocallyPlacedAlert
    <3>2. ASSUME policy = writeDefaultPoliciesFileForAlerts PROVE FALSE
      <4>1. PlacedBy(alert, policy) /\ Together(Best(alert, policy)) \subseteq timed[alert]
        <5>1. alert <= alert
          BY DEF TypeInv
        <5> QED BY <2>1, <2>2, <5>1 DEF TreeInv, TimedInv
      <4> QED BY <2>2, <2>3, <3>2, <4>1, DefaultUpdate
    <3> QED BY <1>3, <2>1, <3>1, <3>2
  <2>4. CASE ~ updateFails(What)
    <3>1. crashed' = crashed
      BY <1>6, <2>4 DEF updateInstanceForLocallyPlacedAlert, Done
    <3> QED BY <1>2, <2>1, <3>1 DEF TypeInv
  <2> QED BY <2>3, <2>4
<1>7. CASE \/ Start("place") \/ Start("undo") \/ Finish \/ addAlertTree \/ removeAlertTree
           \/ addRerouteMetricToLocalAlertingSystem \/ restoreInstanceCentralAlertPlacement
  <2>1. ~ crashed /\ crashed' = crashed
    BY <1>7 DEF Start, Finish, addAlertTree, removeAlertTree, addRerouteMetricToLocalAlertingSystem,
                restoreInstanceCentralAlertPlacement, Done, Doing
  <2> QED BY <1>2, <2>1 DEF TypeInv
<1> QED BY <1>1, <1>4, <1>5, <1>6, <1>7 DEF Next

(* With the default policies, conditions of one source each and files of   *)
(* plain plugins, a place is never asked for a host that a condition does  *)
(* not have, never leaves a proxy in an alert's own tree or shows the      *)
(* result of an operator without a time window, and an undo finds in every *)
(* plugin the option that it looks for: commands that take turns never end *)
(* the process, for any number of hosts, alerts, commands, plugins and     *)
(* failing calls.                                                          *)
THEOREM DefaultPoliciesSafe == Spec => []DefaultPolicySafe
<1>1. Init => DefaultPolicySafe
  BY DEF Init, DefaultPolicySafe
<1>2. TypeInv /\ FileInv /\ TreeInv /\ TimedInv /\ TagInv /\ DefaultPolicySafe /\ [Next]_vars => DefaultPolicySafe'
  BY DefaultSafeNext
<1> QED BY TypeInit, TypeNext, FileInit, FileNext, TreeInit, TreeNext, TimedInit, TimedNext,
           TagInit, TagNext, <1>1, <1>2, PTL DEF Spec

=============================================================================
