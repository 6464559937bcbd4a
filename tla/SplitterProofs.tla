--------------------------- MODULE SplitterProofs ---------------------------
(***************************************************************************)
(* The splitter, for any script: what is sent are the commands of the      *)
(* script.  The scanner reads characters and the commands are told by the  *)
(* tokens; most of what follows is about where in the text they are.       *)
(***************************************************************************)
EXTENDS SqlSplitter, SequenceTheorems, WellFoundedInduction, TLAPS

(***************************************************************************)
(* Sequences of sequences: where in the whole the parts are.               *)
(***************************************************************************)
\* Induction over the natural numbers.
LEMMA NumberInduction ==
  ASSUME NEW F, 0 \in F, \A n \in Nat : n \in F => n + 1 \in F
  PROVE  \A n \in Nat : n \in F
<1> DEFINE Bad == {n \in Nat : n \notin F}
<1>1. SUFFICES ASSUME Bad # {} PROVE FALSE
  OBVIOUS
<1>2. Bad \subseteq Nat
  OBVIOUS
<1>3. IsWellFoundedOn(OpToRel(<, Nat), Nat)
  BY NatLessThanWellFounded
<1>4. \E n \in Bad : \A m \in Bad : ~ (<<m, n>> \in OpToRel(<, Nat))
  <2> HIDE DEF Bad
  <2> QED BY <1>1, <1>2, <1>3, WFMin
<1>5. PICK n \in Bad : \A m \in Bad : ~ (m < n)
  BY <1>2, <1>4 DEF OpToRel
<1>6. n # 0 /\ n \in Nat
  BY <1>5
<1>7. n - 1 \in F
  BY <1>5, <1>6
<1> QED BY <1>5, <1>6, <1>7

\* The same, up to a number.
LEMMA InductionUpTo ==
  ASSUME NEW N \in Nat, NEW F, 0 \in F, \A n \in 0..(N - 1) : n \in F => n + 1 \in F
  PROVE  \A n \in 0..N : n \in F
<1> DEFINE G == {n \in Nat : n <= N => n \in F}
<1>1. 0 \in G
  OBVIOUS
<1>2. ASSUME NEW n \in Nat, n \in G PROVE n + 1 \in G
  BY <1>2
<1>3. \A n \in Nat : n \in G
  <2> HIDE DEF G
  <2> QED BY <1>1, <1>2, NumberInduction
<1> QED BY <1>3

\* There is a function that is defined by recursion on numbers.
Recurs(g, n, a, step) == g[0] = a /\ \A i \in 1..n : g[i] = step[i][g[i - 1]]

LEMMA Recursion ==
  ASSUME NEW N \in Nat, NEW S, NEW a \in S, NEW step \in [1..N -> [S -> S]]
  PROVE  \E g \in [0..N -> S] : Recurs(g, N, a, step)
<1> DEFINE F == {n \in 0..N : \E g \in [0..n -> S] : Recurs(g, n, a, step)}
<1>1. 0 \in F
  <2> DEFINE g == [i \in 0..0 |-> a]
  <2>1. g \in [0..0 -> S] /\ g[0] = a
    OBVIOUS
  <2> HIDE DEF g
  <2>2. Recurs(g, 0, a, step)
    BY <2>1 DEF Recurs
  <2> QED BY <2>1, <2>2
<1>2. ASSUME NEW n \in 0..(N - 1), n \in F PROVE n + 1 \in F
  <2>1. PICK g \in [0..n -> S] : Recurs(g, n, a, step)
    BY <1>2
  <2>2. n + 1 \in 1..N /\ g[n] \in S
    OBVIOUS
  <2> DEFINE last == step[n + 1][g[n]]
             h == [i \in 0..(n + 1) |-> IF i = n + 1 THEN last ELSE g[i]]
  <2>3. last \in S
    BY <2>2
  <2>4. h \in [0..(n + 1) -> S] /\ h[n + 1] = last /\ \A i \in 0..n : h[i] = g[i]
    <3> HIDE DEF last
    <3> QED BY <2>3
  <2> HIDE DEF h
  <2>5. Recurs(h, n + 1, a, step)
    <3>1. h[0] = a
      BY <2>1, <2>4 DEF Recurs
    <3>2. ASSUME NEW i \in 1..(n + 1) PROVE h[i] = step[i][h[i - 1]]
      <4>1. CASE i = n + 1
        BY <2>4, <4>1
      <4>2. CASE i # n + 1
        <5>1. i \in 1..n /\ i - 1 \in 0..n /\ i \in 0..n
          BY <4>2
        <5> QED BY <2>1, <2>4, <5>1 DEF Recurs
      <4> QED BY <4>1, <4>2
    <3> QED BY <3>1, <3>2 DEF Recurs
  <2>6. n + 1 \in 0..N
    BY <2>2
  <2> QED BY <2>4, <2>5, <2>6
<1>3. \A n \in 0..N : n \in F
  <2> HIDE DEF F
  <2> QED BY <1>1, <1>2, InductionUpTo
<1> QED BY <1>3

\* A set of numbers has a least element, and a greatest one if it is bounded.
LEMMA LeastExists ==
  ASSUME NEW S \in SUBSET Nat, S # {}
  PROVE  Min(S) \in S /\ \A x \in S : Min(S) <= x
<1>1. IsWellFoundedOn(OpToRel(<, Nat), Nat)
  BY NatLessThanWellFounded
<1>2. PICK n \in S : \A m \in S : ~ (<<m, n>> \in OpToRel(<, Nat))
  BY <1>1, WFMin
<1>3. \A m \in S : ~ (m < n)
  BY <1>2 DEF OpToRel
<1>4. \A m \in S : n <= m
  BY <1>3
<1> QED BY <1>4 DEF Min

\* A bounded one has a greatest.
LEMMA GreatestExists ==
  ASSUME NEW N \in Nat, NEW S \in SUBSET (0..N), S # {}
  PROVE  Max(S) \in S /\ \A x \in S : x <= Max(S)
<1> DEFINE T == {N - x : x \in S}
<1>1. T \in SUBSET Nat /\ T # {}
  OBVIOUS
<1>2. PICK m \in T : \A y \in T : m <= y
  <2> HIDE DEF T
  <2> QED BY <1>1, LeastExists
<1>3. PICK n \in S : m = N - n
  BY <1>2
<1>4. \A x \in S : n >= x
  BY <1>2, <1>3
<1>5. PICK x \in S : x = Max(S) /\ \A y \in S : x >= y
  BY <1>4 DEF Max
<1> QED BY <1>5
-----------------------------------------------------------------------------
\* What is between two places of a sequence.
LEMMA Cut ==
  ASSUME NEW C, NEW s \in Seq(C), NEW a \in 0..Len(s), NEW e \in a..Len(s)
  PROVE  /\ SubSeq(s, a + 1, e) \in Seq(C)
         /\ Len(SubSeq(s, a + 1, e)) = e - a
         /\ \A i \in 1..(e - a) : SubSeq(s, a + 1, e)[i] = s[a + i]
<1> DEFINE part == SubSeq(s, a + 1, e)
<1>1. Len(s) \in Nat
  BY LenProperties
<1>2. \A i \in (a + 1)..e : s[i] \in C
  BY <1>1, ElementOfSeq
<1>3. /\ part \in Seq(C)
      /\ Len(part) = IF a + 1 <= e THEN e - (a + 1) + 1 ELSE 0
      /\ \A i \in 1..(e - (a + 1) + 1) : part[i] = s[(a + 1) + i - 1]
  BY <1>1, <1>2, SubSeqProperties
<1>4. e - (a + 1) + 1 = e - a /\ \A i \in 1..(e - a) : (a + 1) + i - 1 = a + i
  BY <1>1
<1>5. e - a = IF a + 1 <= e THEN e - (a + 1) + 1 ELSE 0
  BY <1>1
<1> HIDE DEF part
<1>6. part \in Seq(C) /\ Len(part) = e - a /\ \A i \in 1..(e - a) : part[i] = s[a + i]
  BY <1>3, <1>4, <1>5
<1> QED BY <1>6 DEF part

\* Where the sequences end, one after the other.
Place(seqs) ==
  LET place[i \in 0..Len(seqs)] == IF i = 0 THEN 0 ELSE place[i - 1] + Len(seqs[i])
  IN place

\* The recursion of Place.
LEMMA PlaceOf ==
  ASSUME NEW C, NEW seqs \in Seq(Seq(C))
  PROVE  /\ Place(seqs) \in [0..Len(seqs) -> Nat]
         /\ Place(seqs)[0] = 0
         /\ \A i \in 1..Len(seqs) :
              Len(seqs[i]) \in Nat /\ Place(seqs)[i] = Place(seqs)[i - 1] + Len(seqs[i])
<1> DEFINE IsOne(g) == g = [i \in 0..Len(seqs) |-> IF i = 0 THEN 0 ELSE g[i - 1] + Len(seqs[i])]
           f == CHOOSE g : IsOne(g)
           step == [i \in 1..Len(seqs) |-> [k \in Nat |-> k + Len(seqs[i])]]
<1>1. Len(seqs) \in Nat /\ \A i \in 1..Len(seqs) : Len(seqs[i]) \in Nat
  BY LenProperties, ElementOfSeq
<1>2. step \in [1..Len(seqs) -> [Nat -> Nat]]
  BY <1>1
<1>3. \A i \in 1..Len(seqs), k \in Nat : step[i][k] = k + Len(seqs[i])
  BY <1>1
<1> HIDE DEF step, f, IsOne
<1>4. PICK g \in [0..Len(seqs) -> Nat] : Recurs(g, Len(seqs), 0, step)
  BY <1>1, <1>2, 0 \in Nat, Recursion
<1>5. \A i \in 1..Len(seqs) : i - 1 \in 0..Len(seqs) /\ i \in 0..Len(seqs)
  BY <1>1
<1>6. \A i \in 0..Len(seqs) : g[i] = IF i = 0 THEN 0 ELSE g[i - 1] + Len(seqs[i])
  <2>1. ASSUME NEW i \in 1..Len(seqs) PROVE g[i] = g[i - 1] + Len(seqs[i])
    BY <1>3, <1>4, <1>5 DEF Recurs
  <2> QED BY <1>1, <1>4, <2>1 DEF Recurs
<1>7. IsOne(g)
  BY <1>6 DEF IsOne
<1>8. IsOne(f)
  BY <1>7 DEF f
<1>9. Place(seqs) = f
  BY DEF Place, f, IsOne
<1>10. /\ DOMAIN f = 0..Len(seqs) /\ f[0] = 0
       /\ \A i \in 1..Len(seqs) : f[i] = f[i - 1] + Len(seqs[i])
  <2>1. f = [i \in 0..Len(seqs) |-> IF i = 0 THEN 0 ELSE f[i - 1] + Len(seqs[i])]
    BY <1>8 DEF IsOne
  <2>2. \A i \in 0..Len(seqs) : f[i] = IF i = 0 THEN 0 ELSE f[i - 1] + Len(seqs[i])
    BY <2>1
  <2> QED BY <1>1, <2>1, <2>2
<1>11. \A n \in 0..Len(seqs) : n \in {k \in 0..Len(seqs) : f[k] \in Nat}
  <2>1. ASSUME NEW n \in 0..(Len(seqs) - 1), f[n] \in Nat PROVE f[n + 1] \in Nat
    <3>1. n + 1 \in 1..Len(seqs) /\ (n + 1) - 1 = n
      BY <1>1
    <3>2. f[n + 1] = f[n] + Len(seqs[n + 1]) /\ Len(seqs[n + 1]) \in Nat
      BY <1>1, <1>10, <3>1
    <3> HIDE DEF f
    <3> QED BY <2>1, <3>2
  <2> DEFINE F == {k \in 0..Len(seqs) : f[k] \in Nat}
  <2>2. 0 \in F /\ \A n \in 0..(Len(seqs) - 1) : n \in F => n + 1 \in F
    BY <1>1, <1>10, <2>1
  <2> HIDE DEF F
  <2>3. \A n \in 0..Len(seqs) : n \in F
    BY <1>1, <2>2, InductionUpTo
  <2> QED BY <2>3 DEF F
<1>12. f \in [0..Len(seqs) -> Nat]
  <2>1. f = [i \in 0..Len(seqs) |-> f[i]]
    BY <1>8 DEF IsOne
  <2> QED BY <1>11, <2>1
<1> QED BY <1>1, <1>9, <1>10, <1>12

\* Later parts end later.
LEMMA PlaceGrows ==
  ASSUME NEW C, NEW seqs \in Seq(Seq(C)), NEW i \in 0..Len(seqs), NEW j \in i..Len(seqs)
  PROVE  Place(seqs)[i] <= Place(seqs)[j]
<1> DEFINE P == Place(seqs)
           F == {n \in 0..Len(seqs) : \A m \in 0..n : P[m] <= P[n]}
<1>1. Len(seqs) \in Nat /\ \A n \in 0..Len(seqs) : P[n] \in Nat
  BY PlaceOf, LenProperties
<1>2. \A n \in 1..Len(seqs) : Len(seqs[n]) \in Nat /\ P[n] = P[n - 1] + Len(seqs[n])
  BY PlaceOf
<1> HIDE DEF P
<1>3. 0 \in F
  <2>1. 0 \in 0..Len(seqs) /\ P[0] \in Nat /\ P[0] <= P[0]
    BY <1>1
  <2> QED BY <2>1
<1>4. ASSUME NEW n \in 0..(Len(seqs) - 1), n \in F PROVE n + 1 \in F
  <2>1. n + 1 \in 1..Len(seqs) /\ (n + 1) - 1 = n /\ n \in 0..Len(seqs) /\ n + 1 \in 0..Len(seqs)
    BY <1>1
  <2>2. P[n + 1] = P[n] + Len(seqs[n + 1]) /\ Len(seqs[n + 1]) \in Nat
    BY <1>2, <2>1
  <2>3. P[n] \in Nat /\ P[n + 1] \in Nat /\ P[n + 1] <= P[n + 1]
    BY <1>1, <2>1
  <2>4. ASSUME NEW m \in 0..n PROVE P[m] <= P[n + 1]
    <3>1. P[m] \in Nat
      BY <1>1, <2>1
    <3>2. P[m] <= P[n]
      BY <1>4
    <3> QED BY <2>2, <2>3, <3>1, <3>2
  <2>5. \A m \in 0..(n + 1) : P[m] <= P[n + 1]
    <3>1. \A m \in 0..(n + 1) : m = n + 1 \/ m \in 0..n
      OBVIOUS
    <3> QED BY <2>3, <2>4, <3>1
  <2> QED BY <2>1, <2>5
<1>5. \A n \in 0..Len(seqs) : n \in F
  <2> HIDE DEF F
  <2> QED BY <1>1, <1>3, <1>4, InductionUpTo
<1>6. j \in 0..Len(seqs) /\ i \in 0..j
  BY <1>1
<1> QED BY <1>5, <1>6 DEF P

\* Every place of the whole is one of some part.
IsWithin(p, seqs, n) == \E i \in 1..n : \E k \in 1..Len(seqs[i]) : p = Place(seqs)[i - 1] + k

LEMMA PlaceFound ==
  ASSUME NEW C, NEW seqs \in Seq(Seq(C)), NEW n \in 0..Len(seqs), NEW p \in 1..Place(seqs)[n]
  PROVE  IsWithin(p, seqs, n)
<1> DEFINE P == Place(seqs)
           Found(q, m) == \E i \in 1..m : \E k \in 1..Len(seqs[i]) : q = P[i - 1] + k
           F == {m \in 0..Len(seqs) : \A q \in 1..P[m] : Found(q, m)}
<1>1. /\ Len(seqs) \in Nat /\ P \in [0..Len(seqs) -> Nat] /\ P[0] = 0
      /\ \A m \in 1..Len(seqs) : Len(seqs[m]) \in Nat /\ P[m] = P[m - 1] + Len(seqs[m])
  BY PlaceOf, LenProperties
<1> HIDE DEF P
<1>2. 0 \in F
  BY <1>1
<1>3. ASSUME NEW m \in 0..(Len(seqs) - 1), m \in F PROVE m + 1 \in F
  <2>1. m + 1 \in 1..Len(seqs) /\ (m + 1) - 1 = m /\ m \in 0..Len(seqs) /\ m + 1 \in 1..(m + 1)
    BY <1>1
  <2>2. P[m + 1] = P[m] + Len(seqs[m + 1]) /\ Len(seqs[m + 1]) \in Nat /\ P[m] \in Nat
    BY <1>1, <2>1
  <2>3. ASSUME NEW q \in 1..P[m + 1] PROVE Found(q, m + 1)
    <3>1. CASE q <= P[m]
      <4>1. q \in 1..P[m]
        BY <2>2, <3>1
      <4>2. Found(q, m)
        <5> HIDE DEF Found
        <5> QED BY <1>3, <4>1
      <4>3. \A i \in 1..m : i \in 1..(m + 1)
        OBVIOUS
      <4> QED BY <4>2, <4>3
    <3>2. CASE q > P[m]
      <4>1. q - P[m] \in 1..Len(seqs[m + 1]) /\ q = P[(m + 1) - 1] + (q - P[m])
        BY <2>1, <2>2, <3>2
      <4> QED BY <2>1, <4>1
    <3> QED BY <2>2, <3>1, <3>2
  <2> QED BY <1>1, <2>1, <2>3
<1>4. \A m \in 0..Len(seqs) : m \in F
  <2> HIDE DEF F
  <2> QED BY <1>1, <1>2, <1>3, InductionUpTo
<1>5. Found(p, n)
  BY <1>4 DEF P
<1> QED BY <1>5 DEF P, IsWithin

\* The recursion of FlattenSeq.
LEMMA FlattenOf ==
  ASSUME NEW C, NEW seqs \in Seq(Seq(C))
  PROVE  \E f \in [0..Len(seqs) -> Seq(C)] :
           /\ f[0] = <<>> /\ \A i \in 1..Len(seqs) : f[i] = f[i - 1] \o seqs[i]
           /\ FlattenSeq(seqs) = f[Len(seqs)]
<1> DEFINE step == [i \in 1..Len(seqs) |-> [s \in Seq(C) |-> s \o seqs[i]]]
<1>1. Len(seqs) \in Nat /\ <<>> \in Seq(C) /\ \A i \in 1..Len(seqs) : seqs[i] \in Seq(C)
  BY LenProperties, ElementOfSeq, EmptySeq
<1>2. step \in [1..Len(seqs) -> [Seq(C) -> Seq(C)]]
  BY <1>1
<1>3. \A i \in 1..Len(seqs), s \in Seq(C) : step[i][s] = s \o seqs[i]
  OBVIOUS
<1> HIDE DEF step
<1>4. PICK f \in [0..Len(seqs) -> Seq(C)] : Recurs(f, Len(seqs), <<>>, step)
  BY <1>1, <1>2, Recursion
<1>5. f[0] = <<>> /\ \A i \in 1..Len(seqs) : f[i] = f[i - 1] \o seqs[i]
  <2>1. \A i \in 1..Len(seqs) : i - 1 \in 0..Len(seqs)
    BY <1>1
  <2> QED BY <1>3, <1>4, <2>1 DEF Recurs
<1>6. CASE Len(seqs) = 0
  <2>1. seqs = <<>>
    BY <1>6, EmptySeq
  <2>2. FlattenSeq(seqs) = seqs
    BY <1>6 DEF FlattenSeq
  <2> QED BY <1>5, <1>6, <2>1, <2>2
<1>7. CASE Len(seqs) # 0
  <2> DEFINE IsOne(g) == g = [i \in 1..Len(seqs) |->
                                IF i = 1 THEN seqs[i] ELSE g[i - 1] \o seqs[i]]
             flat == CHOOSE g : IsOne(g)
             h == [i \in 1..Len(seqs) |-> f[i]]
  <2>1. FlattenSeq(seqs) = flat[Len(seqs)]
    BY <1>7 DEF FlattenSeq
  <2>2. \A i \in 1..Len(seqs) : f[i] = IF i = 1 THEN seqs[i] ELSE f[i - 1] \o seqs[i]
    <3>1. \A i \in 1..Len(seqs) : i = 1 => f[i - 1] \o seqs[i] = seqs[i]
      BY <1>1, <1>5, ConcatEmptySeq
    <3> QED BY <1>5, <3>1
  <2>3. \A i \in 1..Len(seqs) : i # 1 => i - 1 \in 1..Len(seqs)
    BY <1>1
  <2> HIDE DEF flat
  <2>4. IsOne(h)
    BY <2>2, <2>3
  <2>5. IsOne(flat)
    <3> HIDE DEF IsOne, h
    <3> QED BY <2>4 DEF flat
  <2>6. \A i \in 1..Len(seqs) : flat[i] = IF i = 1 THEN seqs[i] ELSE flat[i - 1] \o seqs[i]
    BY <2>5
  <2> DEFINE F == {n \in 0..Len(seqs) : n \in 1..Len(seqs) => flat[n] = f[n]}
  <2>7. 0 \in F
    BY <1>1
  <2>8. ASSUME NEW n \in 0..(Len(seqs) - 1), n \in F PROVE n + 1 \in F
    <3>1. n + 1 \in 1..Len(seqs) /\ (n + 1) - 1 = n /\ (n # 0 => n \in 1..Len(seqs))
      BY <1>1
    <3>2. n # 0 => flat[n] = f[n]
      BY <2>8, <3>1
    <3>3. n = 0 => n + 1 = 1
      OBVIOUS
    <3>4. flat[n + 1] = f[n + 1]
      <4>1. CASE n = 0
        BY <2>2, <2>6, <3>1, <3>3, <4>1
      <4>2. CASE n # 0
        <5>1. n + 1 # 1
          BY <4>2
        <5>2. flat[n + 1] = flat[n] \o seqs[n + 1] /\ f[n + 1] = f[n] \o seqs[n + 1]
          BY <2>2, <2>6, <3>1, <5>1
        <5> QED BY <3>2, <4>2, <5>2
      <4> QED BY <4>1, <4>2
    <3> QED BY <1>1, <3>1, <3>4
  <2>9. \A n \in 0..Len(seqs) : n \in F
    <3> HIDE DEF F
    <3> QED BY <1>1, <2>7, <2>8, InductionUpTo
  <2>10. Len(seqs) \in 0..Len(seqs) /\ Len(seqs) \in 1..Len(seqs)
    BY <1>1, <1>7
  <2>11. flat[Len(seqs)] = f[Len(seqs)]
    BY <2>9, <2>10
  <2> QED BY <1>5, <2>1, <2>11
<1> QED BY <1>6, <1>7

\* The whole has each part in its place.
LEMMA FlattenPlaced ==
  ASSUME NEW C, NEW seqs \in Seq(Seq(C))
  PROVE  /\ FlattenSeq(seqs) \in Seq(C)
         /\ Len(FlattenSeq(seqs)) = Place(seqs)[Len(seqs)]
         /\ \A i \in 1..Len(seqs) : \A k \in 1..Len(seqs[i]) :
              FlattenSeq(seqs)[Place(seqs)[i - 1] + k] = seqs[i][k]
<1>1. PICK f \in [0..Len(seqs) -> Seq(C)] :
           /\ f[0] = <<>> /\ \A i \in 1..Len(seqs) : f[i] = f[i - 1] \o seqs[i]
           /\ FlattenSeq(seqs) = f[Len(seqs)]
  BY FlattenOf
<1> DEFINE P == Place(seqs)
           F == {n \in 0..Len(seqs) :
                  /\ Len(f[n]) = P[n]
                  /\ \A i \in 1..n : \A k \in 1..Len(seqs[i]) : f[n][P[i - 1] + k] = seqs[i][k]}
<1>2. Len(seqs) \in Nat /\ P[0] = 0 /\ \A n \in 0..Len(seqs) : P[n] \in Nat
  BY PlaceOf, LenProperties
<1>a. \A n \in 1..Len(seqs) : Len(seqs[n]) \in Nat /\ P[n] = P[n - 1] + Len(seqs[n])
  BY PlaceOf
<1>b. \A i \in 0..Len(seqs) : \A j \in i..Len(seqs) : P[i] <= P[j]
  BY PlaceGrows
<1> HIDE DEF P
<1>3. 0 \in F
  <2>1. Len(f[0]) = 0
    BY <1>1
  <2> QED BY <1>2, <2>1
<1>4. ASSUME NEW n \in 0..(Len(seqs) - 1), n \in F PROVE n + 1 \in F
  <2>1. n + 1 \in 1..Len(seqs) /\ (n + 1) - 1 = n /\ n \in 0..Len(seqs)
    BY <1>2
  <2>2. P[n + 1] = P[n] + Len(seqs[n + 1]) /\ Len(seqs[n + 1]) \in Nat /\ P[n] \in Nat
    <3>1. P[n + 1] = P[n] + Len(seqs[n + 1]) /\ Len(seqs[n + 1]) \in Nat
      BY <1>a, <2>1
    <3>2. P[n] \in Nat
      BY <1>2, <2>1
    <3> QED BY <3>1, <3>2
  <2>3. f[n] \in Seq(C) /\ seqs[n + 1] \in Seq(C) /\ f[n + 1] = f[n] \o seqs[n + 1]
    BY <1>1, <2>1, ElementOfSeq
  <2>4. Len(f[n]) = P[n]
    BY <1>4
  <2>5. Len(f[n + 1]) = P[n + 1] /\
        \A x \in 1..P[n + 1] : f[n + 1][x] = IF x <= P[n] THEN f[n][x] ELSE seqs[n + 1][x - P[n]]
    <3>1. /\ Len(f[n] \o seqs[n + 1]) = Len(f[n]) + Len(seqs[n + 1])
          /\ \A x \in 1..(Len(f[n]) + Len(seqs[n + 1])) : (f[n] \o seqs[n + 1])[x] =
               IF x <= Len(f[n]) THEN f[n][x] ELSE seqs[n + 1][x - Len(f[n])]
      BY <2>3, ConcatProperties
    <3> QED BY <2>2, <2>3, <2>4, <3>1
  <2>6. ASSUME NEW i \in 1..(n + 1), NEW k \in 1..Len(seqs[i])
        PROVE  f[n + 1][P[i - 1] + k] = seqs[i][k]
    <3>1. CASE i = n + 1
      <4>1. P[i - 1] + k = P[n] + k /\ P[n] + k \in 1..P[n + 1] /\ ~(P[n] + k <= P[n])
            /\ (P[n] + k) - P[n] = k
        BY <2>1, <2>2, <3>1
      <4> QED BY <2>5, <3>1, <4>1
    <3>2. CASE i # n + 1
      <4>1. i \in 1..n /\ i \in 1..Len(seqs) /\ i - 1 \in 0..Len(seqs) /\ i \in 0..Len(seqs)
            /\ n \in i..Len(seqs)
        BY <2>1, <3>2
      <4>2. P[i] <= P[n] /\ P[i] = P[i - 1] + Len(seqs[i]) /\ P[i - 1] \in Nat /\ P[i] \in Nat
            /\ Len(seqs[i]) \in Nat
        <5>1. P[i] <= P[n]
          BY <1>b, <4>1
        <5>2. P[i] = P[i - 1] + Len(seqs[i]) /\ Len(seqs[i]) \in Nat
          BY <1>a, <4>1
        <5>3. P[i - 1] \in Nat /\ P[i] \in Nat
          BY <1>2, <4>1
        <5> QED BY <5>1, <5>2, <5>3
      <4>3. P[i - 1] + k \in 1..P[n + 1] /\ P[i - 1] + k <= P[n]
        <5>1. k \in Int /\ 1 <= k /\ k <= Len(seqs[i])
          BY <4>2
        <5>2. P[i - 1] + k <= P[i] /\ 1 <= P[i - 1] + k
          BY <4>2, <5>1
        <5>3. P[n] <= P[n + 1] /\ P[n + 1] \in Nat
          BY <2>2
        <5>4. \A x, y, z, w \in Int : x <= y /\ y <= z /\ z <= w => x <= w /\ x <= z
          OBVIOUS
        <5>5. P[i - 1] + k \in Int /\ P[i] \in Int /\ P[n] \in Int /\ P[n + 1] \in Int
          BY <2>2, <4>2, <5>1, <5>3
        <5>6. P[i - 1] + k <= P[n + 1] /\ P[i - 1] + k <= P[n]
          BY <4>2, <5>2, <5>3, <5>4, <5>5
        <5> QED BY <5>2, <5>5, <5>6
      <4>4. f[n][P[i - 1] + k] = seqs[i][k]
        BY <1>4, <4>1
      <4> QED BY <2>5, <4>3, <4>4
    <3> QED BY <3>1, <3>2
  <2>7. n + 1 \in 0..Len(seqs)
    BY <2>1
  <2> QED BY <2>5, <2>6, <2>7
<1>5. \A n \in 0..Len(seqs) : n \in F
  <2> HIDE DEF F
  <2> QED BY <1>2, <1>3, <1>4, InductionUpTo
<1>6. Len(seqs) \in F
  BY <1>2, <1>5
<1>7. f[Len(seqs)] \in Seq(C)
  BY <1>2
<1> QED BY <1>1, <1>6, <1>7 DEF P

\* Places of a part are places of the whole.
LEMMA PlaceOfPart ==
  ASSUME NEW C, NEW seqs \in Seq(Seq(C)), NEW a \in 0..Len(seqs), NEW e \in a..Len(seqs)
  PROVE  /\ SubSeq(seqs, a + 1, e) \in Seq(Seq(C))
         /\ Len(SubSeq(seqs, a + 1, e)) = e - a
         /\ \A i \in 1..(e - a) : SubSeq(seqs, a + 1, e)[i] = seqs[a + i]
         /\ \A i \in 0..(e - a) :
              Place(SubSeq(seqs, a + 1, e))[i] = Place(seqs)[a + i] - Place(seqs)[a]
<1> DEFINE P == Place(seqs)
           part == SubSeq(seqs, a + 1, e)
           Q == Place(part)
           F == {n \in 0..(e - a) : Q[n] = P[a + n] - P[a]}
<1>1. Len(seqs) \in Nat
  BY LenProperties
<1>2. /\ part \in Seq(Seq(C)) /\ Len(part) = e - a
      /\ \A i \in 1..(e - a) : part[i] = seqs[a + i]
  BY Cut
<1> HIDE DEF part
<1>3. \A n \in 0..Len(seqs) : P[n] \in Nat
  BY PlaceOf
<1>a. \A n \in 1..Len(seqs) : P[n] = P[n - 1] + Len(seqs[n])
  BY PlaceOf
<1>4. /\ Q \in [0..(e - a) -> Nat] /\ Q[0] = 0
      /\ \A n \in 1..(e - a) : Q[n] = Q[n - 1] + Len(part[n]) /\ Len(part[n]) \in Nat
  <2>1. /\ Q \in [0..Len(part) -> Nat] /\ Q[0] = 0
        /\ \A n \in 1..Len(part) : Len(part[n]) \in Nat /\ Q[n] = Q[n - 1] + Len(part[n])
    BY <1>2, PlaceOf
  <2> QED BY <1>2, <2>1
<1> HIDE DEF P, Q
<1>5. 0 \in F
  <2>1. P[a] \in Nat /\ a + 0 = a /\ 0 \in 0..(e - a)
    BY <1>1, <1>3
  <2>2. Q[0] = P[a + 0] - P[a]
    BY <1>4, <2>1
  <2> QED BY <2>1, <2>2
<1>6. ASSUME NEW n \in 0..((e - a) - 1), n \in F PROVE n + 1 \in F
  <2>1. /\ n + 1 \in 1..(e - a) /\ (n + 1) - 1 = n /\ n \in 0..(e - a)
        /\ a + (n + 1) \in 1..Len(seqs) /\ (a + (n + 1)) - 1 = a + n
        /\ a + n \in 0..Len(seqs) /\ a \in 0..Len(seqs)
    BY <1>1
  <2>2. Q[n + 1] = Q[n] + Len(seqs[a + (n + 1)]) /\ Len(seqs[a + (n + 1)]) \in Nat
    BY <1>2, <1>4, <2>1
  <2>3. P[a + (n + 1)] = P[a + n] + Len(seqs[a + (n + 1)])
    BY <1>a, <2>1
  <2>4. Q[n] = P[a + n] - P[a] /\ P[a + n] \in Nat /\ P[a] \in Nat
    BY <1>3, <1>6, <2>1
  <2>5. Q[n + 1] = P[a + (n + 1)] - P[a]
    BY <2>2, <2>3, <2>4
  <2> QED BY <2>1, <2>5
<1>7. e - a \in Nat
  BY <1>1
<1>8. \A n \in 0..(e - a) : n \in F
  <2> HIDE DEF F
  <2> QED BY <1>5, <1>6, <1>7, InductionUpTo
<1> QED BY <1>2, <1>8 DEF P, Q, part

LEMMA FlattenOfPart ==
  ASSUME NEW C, NEW seqs \in Seq(Seq(C)), NEW a \in 0..Len(seqs), NEW e \in a..Len(seqs)
  PROVE  FlattenSeq(SubSeq(seqs, a + 1, e))
         = SubSeq(FlattenSeq(seqs), Place(seqs)[a] + 1, Place(seqs)[e])
<1> DEFINE P == Place(seqs)
           part == SubSeq(seqs, a + 1, e)
           Q == Place(part)
           whole == FlattenSeq(seqs)
           piece == FlattenSeq(part)
           cut == SubSeq(whole, P[a] + 1, P[e])
<1>1. Len(seqs) \in Nat /\ e - a \in Nat
  BY LenProperties
<1>2. /\ part \in Seq(Seq(C)) /\ Len(part) = e - a
      /\ \A i \in 1..(e - a) : part[i] = seqs[a + i]
      /\ \A i \in 0..(e - a) : Q[i] = P[a + i] - P[a]
  <2>1. part \in Seq(Seq(C)) /\ Len(part) = e - a
    BY PlaceOfPart
  <2>2. \A i \in 1..(e - a) : part[i] = seqs[a + i]
    BY PlaceOfPart
  <2>3. \A i \in 0..(e - a) : Q[i] = P[a + i] - P[a]
    BY PlaceOfPart
  <2> QED BY <2>1, <2>2, <2>3
<1>3. (\A n \in 0..Len(seqs) : P[n] \in Nat) /\ P[a] <= P[e] /\ P[e] <= P[Len(seqs)]
  <2>1. \A n \in 0..Len(seqs) : P[n] \in Nat
    BY PlaceOf
  <2>2. e \in 0..Len(seqs) /\ Len(seqs) \in e..Len(seqs)
    BY <1>1
  <2>3. P[a] <= P[e]
    BY PlaceGrows
  <2>4. P[e] <= P[Len(seqs)]
    BY <2>2, PlaceGrows
  <2> QED BY <2>1, <2>3, <2>4
<1>4. /\ whole \in Seq(C) /\ Len(whole) = P[Len(seqs)]
      /\ \A i \in 1..Len(seqs) : \A k \in 1..Len(seqs[i]) : whole[P[i - 1] + k] = seqs[i][k]
  BY FlattenPlaced
<1>5. /\ piece \in Seq(C) /\ Len(piece) = Q[e - a]
      /\ \A i \in 1..(e - a) : \A k \in 1..Len(part[i]) : piece[Q[i - 1] + k] = part[i][k]
  <2>1. /\ piece \in Seq(C) /\ Len(piece) = Q[Len(part)]
        /\ \A i \in 1..Len(part) : \A k \in 1..Len(part[i]) : piece[Q[i - 1] + k] = part[i][k]
    <3>1. part \in Seq(Seq(C))
      BY <1>2
    <3> HIDE DEF part
    <3> QED BY <3>1, FlattenPlaced
  <2> HIDE DEF part, piece, Q
  <2> QED BY <1>2, <2>1
<1>6. \A p \in 1..Q[e - a] : \E i \in 1..(e - a) : \E k \in 1..Len(part[i]) : p = Q[i - 1] + k
  <2> SUFFICES ASSUME NEW p \in 1..Q[e - a]
               PROVE  \E i \in 1..(e - a) : \E k \in 1..Len(part[i]) : p = Q[i - 1] + k
    OBVIOUS
  <2>1. e - a \in 0..Len(part)
    BY <1>1, <1>2
  <2> HIDE DEF part
  <2>2. IsWithin(p, part, e - a)
    BY <1>2, <2>1, PlaceFound
  <2> QED BY <2>2 DEF IsWithin
<1> HIDE DEF P, part, Q, whole, piece
<1>7. P[a] \in Nat /\ P[e] \in Nat /\ P[Len(seqs)] \in Nat /\ Q[e - a] = P[e] - P[a]
  <2>1. a + (e - a) = e /\ e - a \in 0..(e - a) /\ Len(seqs) \in 0..Len(seqs) /\ e \in 0..Len(seqs)
    BY <1>1
  <2> QED BY <1>2, <1>3, <2>1
<1>8. /\ cut \in Seq(C) /\ Len(cut) = P[e] - P[a]
      /\ \A x \in 1..(P[e] - P[a]) : cut[x] = whole[P[a] + x]
  <2>1. P[a] \in 0..Len(whole) /\ P[e] \in P[a]..Len(whole)
    BY <1>3, <1>4, <1>7
  <2> HIDE DEF cut
  <2>2. cut \in Seq(C)
    BY <1>4, <2>1, Cut DEF cut
  <2>3. Len(cut) = P[e] - P[a]
    <3>1. whole \in Seq(C)
      BY <1>4
    <3> QED BY <2>1, <3>1, Cut DEF cut
  <2>4. \A x \in 1..(P[e] - P[a]) : cut[x] = whole[P[a] + x]
    BY <1>4, <2>1, Cut DEF cut
  <2> QED BY <2>2, <2>3, <2>4
<1> HIDE DEF cut
<1>9. ASSUME NEW x \in 1..Len(piece) PROVE piece[x] = cut[x]
  <2>1. PICK i \in 1..(e - a) : \E k \in 1..Len(part[i]) : x = Q[i - 1] + k
    BY <1>5, <1>6
  <2> PICK k \in 1..Len(part[i]) : x = Q[i - 1] + k
    BY <2>1
  <2>2. /\ a + i \in 1..Len(seqs) /\ i - 1 \in 0..(e - a) /\ (a + i) - 1 = a + (i - 1)
        /\ a + (i - 1) \in 0..Len(seqs)
    BY <1>1
  <2>3. Q[i - 1] = P[a + (i - 1)] - P[a] /\ P[a + (i - 1)] \in Nat /\ part[i] = seqs[a + i]
    BY <1>2, <1>3, <2>2
  <2>4. piece[x] = seqs[a + i][k]
    BY <1>5, <2>3
  <2>5. k \in Int /\ k \in 1..Len(seqs[a + i])
    BY <2>3
  <2>6. cut[x] = whole[P[a + (i - 1)] + k]
    <3>1. P[a] + x = P[a + (i - 1)] + k /\ x \in 1..(P[e] - P[a])
      <4>1. x = (P[a + (i - 1)] - P[a]) + k
        BY <2>3
      <4>2. x \in 1..(P[e] - P[a])
        BY <1>5, <1>7
      <4>3. P[a] + x = P[a + (i - 1)] + k
        <5>1. \A p, q, z \in Int : p + ((q - p) + z) = q + z
          OBVIOUS
        <5>2. P[a] \in Int /\ P[a + (i - 1)] \in Int
          BY <1>7, <2>3
        <5> QED BY <2>5, <4>1, <5>1, <5>2
      <4> QED BY <4>2, <4>3
    <3> QED BY <1>8, <3>1
  <2>7. whole[P[(a + i) - 1] + k] = seqs[a + i][k]
    BY <1>4, <2>2, <2>5
  <2> QED BY <2>2, <2>4, <2>6, <2>7
<1>10. piece = cut
  BY <1>5, <1>7, <1>8, <1>9, SeqEqual
<1> QED BY <1>10 DEF P, part, whole, piece, cut

-----------------------------------------------------------------------------
(***************************************************************************)
(* Texts: what is stripped, and the lines.                                 *)
(***************************************************************************)
\* The same as Cut, by the first place and the last.
LEMMA Slice ==
  ASSUME NEW C, NEW s \in Seq(C), NEW m \in 1..(Len(s) + 1), NEW n \in (m - 1)..Len(s)
  PROVE  /\ SubSeq(s, m, n) \in Seq(C)
         /\ Len(SubSeq(s, m, n)) = n - m + 1
         /\ \A i \in 1..(n - m + 1) : SubSeq(s, m, n)[i] = s[m + i - 1]
<1>1. Len(s) \in Nat
  BY LenProperties
<1>2. m - 1 \in 0..Len(s) /\ n \in (m - 1)..Len(s) /\ (m - 1) + 1 = m /\ n - (m - 1) = n - m + 1
  BY <1>1
<1>3. /\ SubSeq(s, (m - 1) + 1, n) \in Seq(C)
      /\ Len(SubSeq(s, (m - 1) + 1, n)) = n - (m - 1)
      /\ \A i \in 1..(n - (m - 1)) : SubSeq(s, (m - 1) + 1, n)[i] = s[(m - 1) + i]
  BY <1>2, Cut
<1>4. \A i \in 1..(n - m + 1) : (m - 1) + i = m + i - 1
  BY <1>1
<1> QED BY <1>2, <1>3, <1>4

Blanks == {Blank, NewLine}

\* What is left of a text that is not blank.
Strips(s, lo, hi) ==
  /\ lo \in 1..Len(s) /\ hi \in lo..Len(s)
  /\ s[lo] \notin Blanks /\ s[hi] \notin Blanks
  /\ (\A i \in 1..Len(s) : i < lo \/ hi < i => s[i] \in Blanks)
  /\ Strip(s) = SubSeq(s, lo, hi)

\* A text is blank, or begins and ends with what is not.
LEMMA StripCases ==
  ASSUME NEW C, NEW s \in Seq(C)
  PROVE  \/ Strip(s) = <<>> /\ \A i \in 1..Len(s) : s[i] \in Blanks
         \/ \E lo, hi \in 1..Len(s) : Strips(s, lo, hi)
<1> DEFINE solid == {i \in DOMAIN s : s[i] \notin Blanks}
<1>1. Len(s) \in Nat /\ DOMAIN s = 1..Len(s)
  BY LenProperties
<1>2. Strip(s) = IF solid = {} THEN <<>> ELSE SubSeq(s, Min(solid), Max(solid))
  BY DEF Strip, Blanks
<1>3. CASE solid = {}
  BY <1>1, <1>2, <1>3
<1>4. CASE solid # {}
  <2>1. solid \in SUBSET Nat /\ solid \in SUBSET (0..Len(s))
    BY <1>1
  <2> DEFINE lo == Min(solid)
             hi == Max(solid)
  <2>2. lo \in solid /\ \A x \in solid : lo <= x
    <3> HIDE DEF solid
    <3> QED BY <1>4, <2>1, LeastExists
  <2>3. hi \in solid /\ \A x \in solid : x <= hi
    <3> HIDE DEF solid
    <3> QED BY <1>1, <1>4, <2>1, GreatestExists
  <2>4. Strip(s) = SubSeq(s, lo, hi)
    BY <1>2, <1>4
  <2> HIDE DEF lo, hi
  <2>5. lo \in 1..Len(s) /\ hi \in 1..Len(s) /\ s[lo] \notin Blanks /\ s[hi] \notin Blanks
    BY <1>1, <2>2, <2>3
  <2>6. hi \in lo..Len(s)
    BY <1>1, <2>2, <2>3, <2>5
  <2>7. ASSUME NEW i \in 1..Len(s), i < lo \/ hi < i PROVE s[i] \in Blanks
    BY <1>1, <2>2, <2>3, <2>5, <2>7
  <2>8. Strips(s, lo, hi)
    BY <2>4, <2>5, <2>6, <2>7 DEF Strips
  <2> QED BY <2>5, <2>8
<1> QED BY <1>3, <1>4

LEMMA StrippedText ==
  ASSUME NEW C, NEW s \in Seq(C), NEW lo \in Int, NEW hi \in Int, Strips(s, lo, hi)
  PROVE  /\ lo \in Nat /\ hi \in Nat /\ lo <= hi
         /\ Strip(s) \in Seq(C) /\ Strip(s) # <<>> /\ Len(Strip(s)) = hi - lo + 1
         /\ \A k \in 1..(hi - lo + 1) : Strip(s)[k] = s[lo + k - 1]
<1>1. Len(s) \in Nat
  BY LenProperties
<1>2. lo \in 1..Len(s) /\ hi \in lo..Len(s) /\ Strip(s) = SubSeq(s, lo, hi)
  BY DEF Strips
<1>3. lo \in 1..(Len(s) + 1) /\ hi \in (lo - 1)..Len(s) /\ lo \in Nat /\ hi \in Nat /\ lo <= hi
  BY <1>1, <1>2
<1>4. /\ Strip(s) \in Seq(C) /\ Len(Strip(s)) = hi - lo + 1
      /\ \A k \in 1..(hi - lo + 1) : Strip(s)[k] = s[lo + k - 1]
  BY <1>2, <1>3, Slice
<1>5. Len(Strip(s)) # 0
  BY <1>3, <1>4
<1> QED BY <1>3, <1>4, <1>5, EmptySeq

LEMMA StripType ==
  ASSUME NEW C, NEW s \in Seq(C)
  PROVE  Strip(s) \in Seq(C)
<1>1. CASE Strip(s) = <<>>
  BY <1>1, EmptySeq
<1>2. ASSUME NEW lo \in 1..Len(s), NEW hi \in 1..Len(s), Strips(s, lo, hi)
      PROVE  Strip(s) \in Seq(C)
  <2>1. lo \in Int /\ hi \in Int
    OBVIOUS
  <2> QED BY <1>2, <2>1, StrippedText
<1> QED BY <1>1, <1>2, StripCases

\* The last place of a line.
LineEnd(s, i) == Max({k \in i..Len(s) : \A l \in i..k : s[l] # NewLine} \union {i - 1})

LEMMA EndOfLine ==
  ASSUME NEW C, NEW s \in Seq(C), NEW i \in 1..Len(s)
  PROVE  /\ LineEnd(s, i) \in (i - 1)..Len(s)
         /\ \A l \in i..LineEnd(s, i) : s[l] # NewLine
         /\ \A k \in i..Len(s) : (\A l \in i..k : s[l] # NewLine) => k <= LineEnd(s, i)
<1> DEFINE S == {k \in i..Len(s) : \A l \in i..k : s[l] # NewLine} \union {i - 1}
           e == LineEnd(s, i)
<1>1. Len(s) \in Nat
  BY LenProperties
<1>2. S \in SUBSET (0..Len(s)) /\ S # {}
  BY <1>1
<1>3. e \in S /\ \A x \in S : x <= e
  <2>1. e = Max(S)
    BY DEF LineEnd
  <2> HIDE DEF S, e
  <2> QED BY <1>1, <1>2, <2>1, GreatestExists
<1> HIDE DEF e
<1>4. e \in (i - 1)..Len(s)
  BY <1>1, <1>3
<1>5. \A l \in i..e : s[l] # NewLine
  BY <1>1, <1>3
<1>6. \A k \in i..Len(s) : (\A l \in i..k : s[l] # NewLine) => k <= e
  BY <1>3
<1> QED BY <1>4, <1>5, <1>6 DEF e

\* A line is blank or it begins, after blanks, with some character.
BeginsWith(s, i, q) ==
  /\ q \in i..Len(s) /\ s[q] \notin Blanks
  /\ \A l \in i..(q - 1) : s[l] = Blank

\* A line is blank, or begins with something else after blanks.
LEMMA Lines ==
  ASSUME NEW C, NEW s \in Seq(C), NEW i \in 1..Len(s)
  PROVE  LineFrom(s, i) = <<>> \/ \E q \in i..Len(s) : BeginsWith(s, i, q)
<1> DEFINE e == LineEnd(s, i)
           w == SubSeq(s, i, e)
<1>1. LineFrom(s, i) = Strip(w)
  BY DEF LineFrom, LineEnd
<1>2. Len(s) \in Nat /\ e \in (i - 1)..Len(s) /\ \A l \in i..e : s[l] # NewLine
  BY LenProperties, EndOfLine
<1> HIDE DEF e
<1>3. /\ w \in Seq(C) /\ Len(w) = e - i + 1
      /\ \A k \in 1..(e - i + 1) : w[k] = s[i + k - 1]
  <2>1. i \in 1..(Len(s) + 1)
    BY <1>2
  <2> QED BY <1>2, <2>1, Slice
<1> HIDE DEF w
<1>4. SUFFICES ASSUME Strip(w) # <<>> PROVE \E q \in i..Len(s) : BeginsWith(s, i, q)
  BY <1>1
<1>5. PICK lo, hi \in 1..Len(w) : Strips(w, lo, hi)
  BY <1>3, <1>4, StripCases
<1>6. lo \in 1..(e - i + 1) /\ w[lo] \notin Blanks /\ \A k \in 1..(e - i + 1) : k < lo => w[k] \in Blanks
  BY <1>3, <1>5 DEF Strips
<1> DEFINE q == i + lo - 1
<1>7. q \in i..Len(s) /\ q \in i..e
  BY <1>2, <1>6
<1>8. s[q] \notin Blanks
  BY <1>3, <1>6
<1>9. ASSUME NEW l \in i..(q - 1) PROVE s[l] = Blank
  <2> DEFINE k == l - i + 1
  <2>1. k \in 1..(e - i + 1) /\ k < lo /\ i + k - 1 = l /\ l \in i..e
    BY <1>2, <1>6
  <2> HIDE DEF k
  <2>2. s[l] \in Blanks /\ s[l] # NewLine
    BY <1>2, <1>3, <1>6, <2>1
  <2> QED BY <2>2 DEF Blanks
<1> QED BY <1>7, <1>8, <1>9 DEF BeginsWith

\* One that is not is a comment when two dashes are what it begins with.
LEMMA LineIsComment ==
  ASSUME NEW C, NEW s \in Seq(C), NEW i \in 1..Len(s), NEW q \in i..Len(s), BeginsWith(s, i, q)
  PROVE  /\ LineFrom(s, i) # <<>>
         /\ IsPrefix(<<Dash, Dash>>, LineFrom(s, i))
            <=> s[q] = Dash /\ q + 1 <= Len(s) /\ s[q + 1] = Dash
<1> DEFINE e == LineEnd(s, i)
           w == SubSeq(s, i, e)
           L == LineFrom(s, i)
           j == q - i + 1
<1>1. L = Strip(w)
  BY DEF LineFrom, LineEnd
<1>2. Len(s) \in Nat /\ e \in (i - 1)..Len(s)
  BY LenProperties, EndOfLine
<1>3. \A k \in i..Len(s) : (\A l \in i..k : s[l] # NewLine) => k <= e
  BY EndOfLine
<1> HIDE DEF e, L
<1>4. /\ w \in Seq(C) /\ Len(w) = e - i + 1
      /\ \A k \in 1..(e - i + 1) : w[k] = s[i + k - 1]
  <2>1. i \in 1..(Len(s) + 1)
    BY <1>2
  <2> QED BY <1>2, <2>1, Slice
<1> HIDE DEF w
<1>5. /\ s[q] \notin Blanks /\ s[q] # NewLine
      /\ \A l \in i..(q - 1) : s[l] = Blank /\ s[l] # NewLine /\ s[l] \in Blanks
  <2>1. Blank # NewLine
    BY DEF Blank, NewLine
  <2> QED BY <2>1 DEF BeginsWith, Blanks
<1>6. q \in i..e
  <2>1. \A l \in i..q : l = q \/ l \in i..(q - 1)
    BY <1>2
  <2>2. \A l \in i..q : s[l] # NewLine
    BY <1>5, <2>1
  <2>3. q <= e
    BY <1>3, <2>2
  <2> QED BY <1>2, <2>3
<1>7. j \in 1..(e - i + 1) /\ i + j - 1 = q
  BY <1>2, <1>6
<1>8. w[j] \notin Blanks
  BY <1>4, <1>5, <1>7
<1>9. \A k \in 1..(j - 1) : w[k] \in Blanks
  <2> SUFFICES ASSUME NEW k \in 1..(j - 1) PROVE w[k] \in Blanks
    OBVIOUS
  <2>1. k \in 1..(e - i + 1) /\ i + k - 1 \in i..(q - 1)
    BY <1>2, <1>7
  <2> QED BY <1>4, <1>5, <2>1
<1> HIDE DEF j
<1>10. PICK lo, hi \in 1..Len(w) : Strips(w, lo, hi)
  BY <1>4, <1>7, <1>8, StripCases
<1>11. /\ lo \in 1..Len(w) /\ hi \in lo..Len(w) /\ w[lo] \notin Blanks
       /\ \A k \in 1..Len(w) : k < lo \/ hi < k => w[k] \in Blanks
  BY <1>10 DEF Strips
<1>12. j \in 1..Len(w) /\ Len(w) \in Nat
  BY <1>2, <1>4, <1>7
<1>13. lo = j
  <2>1. ~ (j < lo)
    BY <1>8, <1>11, <1>12
  <2>2. ~ (lo < j)
    <3>1. lo < j => lo \in 1..(j - 1)
      BY <1>11, <1>12
    <3> QED BY <1>9, <1>11, <3>1
  <2> QED BY <1>11, <1>12, <2>1, <2>2
<1>14. /\ L # <<>> /\ L \in Seq(C) /\ Len(L) = hi - j + 1
       /\ \A k \in 1..(hi - j + 1) : L[k] = w[j + k - 1]
  <2>1. /\ Strip(w) # <<>> /\ Strip(w) \in Seq(C) /\ Len(Strip(w)) = hi - lo + 1
        /\ \A k \in 1..(hi - lo + 1) : Strip(w)[k] = w[lo + k - 1]
    <3>1. w \in Seq(C) /\ Strips(w, lo, hi) /\ lo \in Int /\ hi \in Int
      BY <1>4, <1>10
    <3>2. Strip(w) # <<>> /\ Strip(w) \in Seq(C)
      BY <3>1, StrippedText
    <3>3. Len(Strip(w)) = hi - lo + 1
      BY <3>1, StrippedText
    <3>4. \A k \in 1..(hi - lo + 1) : Strip(w)[k] = w[lo + k - 1]
      BY <3>1, StrippedText
    <3> QED BY <3>2, <3>3, <3>4
  <2> QED BY <1>1, <1>13, <2>1
<1>15. hi \in j..Len(w)
  BY <1>11, <1>13
<1>16. L[1] = s[q] /\ Len(L) >= 1
  <2>1. 1 \in 1..(hi - j + 1) /\ j + 1 - 1 = j
    BY <1>12, <1>15
  <2>2. L[1] = w[j] /\ Len(L) >= 1
    BY <1>14, <2>1
  <2>3. w[j] = s[q]
    BY <1>4, <1>7
  <2> QED BY <2>2, <2>3
<1>17. ASSUME Len(L) >= 2 PROVE q + 1 <= Len(s) /\ L[2] = s[q + 1]
  <2>1. 2 \in 1..(hi - j + 1) /\ j + 2 - 1 = j + 1 /\ j + 1 \in 1..(e - i + 1)
    BY <1>4, <1>12, <1>14, <1>15, <1>17
  <2>2. L[2] = w[j + 1]
    BY <1>14, <2>1
  <2>3. i + (j + 1) - 1 = q + 1 /\ q + 1 <= Len(s)
    BY <1>2, <1>7, <2>1
  <2> QED BY <1>4, <2>1, <2>2, <2>3
<1>18. ASSUME q + 1 <= Len(s), s[q + 1] = Dash PROVE Len(L) >= 2
  <2>1. s[q + 1] \notin Blanks /\ s[q + 1] # NewLine
    BY <1>18 DEF Dash, Blanks, Blank, NewLine
  <2>2. \A l \in i..(q + 1) : l = q + 1 \/ l = q \/ l \in i..(q - 1)
    BY <1>2
  <2>3. \A l \in i..(q + 1) : s[l] # NewLine
    BY <1>5, <2>1, <2>2
  <2>4. q + 1 \in i..Len(s)
    BY <1>2, <1>18
  <2>5. q + 1 <= e
    BY <1>3, <2>3, <2>4
  <2>6. j + 1 \in 1..(e - i + 1) /\ i + (j + 1) - 1 = q + 1
    BY <1>2, <1>7, <2>5
  <2>7. w[j + 1] \notin Blanks /\ j + 1 \in 1..Len(w)
    BY <1>4, <2>1, <2>6
  <2>8. ~ (hi < j + 1)
    BY <1>11, <2>7
  <2> QED BY <1>12, <1>14, <1>15, <2>8
<1>19. IsPrefix(<<Dash, Dash>>, L) <=> Len(L) >= 2 /\ L[1] = Dash /\ L[2] = Dash
  <2>1. Len(<<Dash, Dash>>) = 2 /\ SubSeq(<<Dash, Dash>>, 1, 2) = <<Dash, Dash>>
    <3>1. <<Dash, Dash>> \in Seq({Dash}) /\ Len(<<Dash, Dash>>) = 2
      OBVIOUS
    <3> QED BY <3>1, SubSeqFull
  <2>2. Len(L) \in Nat
    BY <1>14, LenProperties
  <2>3. ASSUME Len(L) >= 2
        PROVE  SubSeq(L, 1, 2) = <<Dash, Dash>> <=> L[1] = Dash /\ L[2] = Dash
    <3>1. /\ SubSeq(L, 1, 2) \in Seq(C) /\ Len(SubSeq(L, 1, 2)) = 2
          /\ SubSeq(L, 1, 2)[1] = L[1] /\ SubSeq(L, 1, 2)[2] = L[2]
      <4>1. 1 \in 1..(Len(L) + 1) /\ 2 \in (1 - 1)..Len(L) /\ 2 - 1 + 1 = 2
            /\ 1 + 1 - 1 = 1 /\ 1 + 2 - 1 = 2 /\ 1 \in 1..2 /\ 2 \in 1..2
        BY <2>2, <2>3
      <4>2. /\ SubSeq(L, 1, 2) \in Seq(C) /\ Len(SubSeq(L, 1, 2)) = 2 - 1 + 1
            /\ \A k \in 1..(2 - 1 + 1) : SubSeq(L, 1, 2)[k] = L[1 + k - 1]
        BY <1>14, <4>1, Slice
      <4> QED BY <4>1, <4>2
    <3>2. L[1] \in C /\ L[2] \in C
      BY <1>14, <2>2, <2>3, ElementOfSeq
    <3>3. /\ <<L[1], L[2]>> \in Seq(C) /\ Len(<<L[1], L[2]>>) = 2
          /\ <<L[1], L[2]>>[1] = L[1] /\ <<L[1], L[2]>>[2] = L[2]
      BY <3>2
    <3>4. \A k \in 1..2 : k = 1 \/ k = 2
      OBVIOUS
    <3>5. SubSeq(L, 1, 2) = <<L[1], L[2]>>
      BY <3>1, <3>3, <3>4, SeqEqual
    <3> QED BY <3>5
  <2> QED BY <2>1, <2>2, <2>3 DEF IsPrefix
<1> QED BY <1>14, <1>16, <1>17, <1>18, <1>19 DEF L

-----------------------------------------------------------------------------
(***************************************************************************)
(* Tokens.                                                                 *)
(***************************************************************************)
\* The special characters are different, and neither letters nor signs.
LEMMA KindsApart ==
  /\ Blank # NewLine /\ Blank # Quote /\ Blank # Dollar /\ Blank # Dash /\ Blank # Semicolon
  /\ NewLine # Quote /\ NewLine # Dollar /\ NewLine # Dash /\ NewLine # Semicolon
  /\ Quote # Dollar /\ Quote # Dash /\ Quote # Semicolon
  /\ Dollar # Dash /\ Dollar # Semicolon /\ Dash # Semicolon
  /\ \A c \in Letters \union Signs : c \notin Special
  /\ \A c \in Letters : c \notin Signs
<1>1. \A c \in Letters \union Signs : c \notin Special
  BY LettersAssumption
<1>2. \A c \in Letters : c \notin Signs
  BY LettersAssumption
<1> QED BY <1>1, <1>2 DEF Blank, NewLine, Quote, Dollar, Dash, Semicolon

LEMMA SingleChar ==
  ASSUME NEW C, NEW s \in Seq(C), Len(s) = 1
  PROVE  s = <<s[1]>>
<1>1. s[1] \in C
  BY ElementOfSeq
<1>2. <<s[1]>> \in Seq(C) /\ Len(<<s[1]>>) = 1 /\ <<s[1]>>[1] = s[1]
  BY <1>1
<1>3. \A i \in 1..1 : i = 1
  OBVIOUS
<1> QED BY <1>2, <1>3, SeqEqual

LEMMA HeadIsFirst ==
  ASSUME NEW C, NEW s \in Seq(C), Len(s) # 0
  PROVE  Head(s) = s[1]
BY DEF Head

\* A block begins with the delimiter that ends it.
LEMMA BlockParts ==
  ASSUME NEW t \in Seq(Chars), NEW d \in Seq(Chars), DelimitedBy(t, d)
  PROVE  /\ Len(d) \in Nat /\ Len(d) > 1 /\ Len(t) \in Nat /\ Len(t) >= 2 * Len(d)
         /\ \A k \in 1..Len(d) : t[k] = d[k]
         /\ t[1] = Dollar /\ t[Len(d)] = Dollar /\ \A k \in 2..(Len(d) - 1) : t[k] \in Letters
<1>1. Len(d) \in Nat /\ Len(t) \in Nat
  BY LenProperties
<1>2. /\ Len(d) > 1 /\ d[1] = Dollar /\ d[Len(d)] = Dollar
      /\ \A k \in 2..(Len(d) - 1) : d[k] \in Letters
  BY DEF DelimitedBy, Delimiter
<1>3. Len(t) >= 2 * Len(d) /\ SubSeq(t, 1, Len(d)) = d
  BY DEF DelimitedBy
<1>4. \A k \in 1..Len(d) : t[k] = d[k]
  <2>1. 1 \in 1..(Len(t) + 1) /\ Len(d) \in (1 - 1)..Len(t)
    BY <1>1, <1>3
  <2>2. \A k \in 1..(Len(d) - 1 + 1) : SubSeq(t, 1, Len(d))[k] = t[1 + k - 1]
    BY <2>1, Slice
  <2>3. \A k \in 1..Len(d) : k \in 1..(Len(d) - 1 + 1) /\ 1 + k - 1 = k
    BY <1>1
  <2>4. \A k \in 1..Len(d) : SubSeq(t, 1, Len(d))[k] = t[k]
    BY <2>2, <2>3
  <2> QED BY <1>3, <2>4
<1>5. 1 \in 1..Len(d) /\ Len(d) \in 1..Len(d) /\ \A k \in 2..(Len(d) - 1) : k \in 1..Len(d)
  BY <1>1, <1>2
<1>6. t[1] = Dollar /\ t[Len(d)] = Dollar /\ \A k \in 2..(Len(d) - 1) : t[k] \in Letters
  BY <1>2, <1>4, <1>5
<1> QED BY <1>1, <1>2, <1>3, <1>4, <1>6

LEMMA BlockDelimiter ==
  ASSUME NEW t \in Seq(Chars), IsBlock(t)
  PROVE  \E d \in Seq(Chars) : DelimitedBy(t, d)
<1>1. PICK m \in DOMAIN t : DelimitedBy(t, SubSeq(t, 1, m))
  BY DEF IsBlock
<1>2. m \in 1..Len(t) /\ Len(t) \in Nat
  BY LenProperties
<1>3. 1 \in 1..(Len(t) + 1) /\ m \in (1 - 1)..Len(t)
  BY <1>2
<1>4. SubSeq(t, 1, m) \in Seq(Chars)
  BY <1>3, Slice
<1> QED BY <1>1, <1>4

\* What a token is shows in its first character, but for a comment and a dash, a block and a
\* dollar sign.
LEMMA TokenKinds ==
  ASSUME NEW t \in Tokens
  PROVE  /\ t \in Seq(Chars) /\ Len(t) \in Nat /\ Len(t) # 0 /\ Head(t) = t[1]
         /\ \/ t = Boundary /\ t[1] = Semicolon /\ Len(t) = 1
            \/ t \in Spaces /\ t[1] \in Blanks /\ Len(t) = 1
            \/ IsComment(t) /\ t[1] = Dash /\ Len(t) > 1
            \/ IsLiteral(t) /\ t[1] = Quote /\ Len(t) > 1
            \/ IsBlock(t) /\ t[1] = Dollar /\ Len(t) > 1
            \/ /\ IsSymbol(t) /\ t = <<t[1]>> /\ Len(t) = 1
               /\ t[1] \in Letters \union Signs \union {Dash, Dollar}
<1>1. t \in Seq(Chars) /\ Len(t) \in Nat
  BY LenProperties DEF Tokens
<1>2. \/ t = Boundary \/ t \in Spaces \/ IsComment(t) \/ IsLiteral(t) \/ IsBlock(t) \/ IsSymbol(t)
  BY DEF Tokens
<1>3. CASE t = Boundary
  <2>1. t[1] = Semicolon /\ Len(t) = 1
    BY <1>3 DEF Boundary
  <2> QED BY <1>1, <1>3, <2>1, HeadIsFirst
<1>4. CASE t \in Spaces
  <2>1. t[1] \in Blanks /\ Len(t) = 1
    BY <1>4 DEF Spaces, Blanks
  <2> QED BY <1>1, <1>4, <2>1, HeadIsFirst
<1>5. CASE IsComment(t)
  <2>1. t[1] = Dash /\ Len(t) > 1
    BY <1>5 DEF IsComment
  <2> QED BY <1>1, <1>5, <2>1, HeadIsFirst
<1>6. CASE IsLiteral(t)
  <2>1. Len(t) > 1 /\ \A k \in 1..Len(t) : t[k] = Quote <=> k \in {1, Len(t)}
    BY <1>1, <1>6, LenProperties DEF IsLiteral
  <2>2. 1 \in 1..Len(t)
    BY <1>1, <2>1
  <2>3. t[1] = Quote /\ Len(t) # 0
    BY <2>1, <2>2
  <2> QED BY <1>1, <1>6, <2>1, <2>3, HeadIsFirst
<1>7. CASE IsBlock(t)
  <2>1. PICK d \in Seq(Chars) : DelimitedBy(t, d)
    BY <1>1, <1>7, BlockDelimiter
  <2>2. Len(d) \in Nat /\ Len(d) > 1 /\ Len(t) >= 2 * Len(d) /\ t[1] = Dollar
    BY <1>1, <2>1, BlockParts
  <2>3. Len(t) > 1 /\ Len(t) # 0
    BY <1>1, <2>2
  <2> QED BY <1>1, <1>7, <2>2, <2>3, HeadIsFirst
<1>8. CASE IsSymbol(t)
  <2>1. Len(t) = 1 /\ t[1] \in Letters \union Signs \union {Dash, Dollar}
    BY <1>8 DEF IsSymbol
  <2> QED BY <1>1, <1>8, <2>1, HeadIsFirst, SingleChar
<1> QED BY <1>2, <1>3, <1>4, <1>5, <1>6, <1>7, <1>8

LEMMA HeadTells ==
  ASSUME NEW t \in Tokens
  PROVE  /\ t[1] = Semicolon <=> t = Boundary
         /\ t[1] = Quote <=> IsLiteral(t)
         /\ t[1] \in Blanks <=> t \in Spaces
         /\ t[1] = Dollar <=> IsBlock(t) \/ t = <<Dollar>>
         /\ t[1] = Dash <=> IsComment(t) \/ t = <<Dash>>
<1>1. \A c \in {Blank, NewLine, Quote, Dollar, Dash, Semicolon} : c \notin Letters \union Signs
  BY KindsApart DEF Special
<1>2. <<Dollar>>[1] = Dollar /\ <<Dash>>[1] = Dash /\ Len(<<Dollar>>) = 1 /\ Len(<<Dash>>) = 1
  OBVIOUS
<1>3. /\ t \in Seq(Chars) /\ Len(t) \in Nat
      /\ \/ t = Boundary /\ t[1] = Semicolon /\ Len(t) = 1
         \/ t \in Spaces /\ t[1] \in Blanks /\ Len(t) = 1
         \/ IsComment(t) /\ t[1] = Dash /\ Len(t) > 1
         \/ IsLiteral(t) /\ t[1] = Quote /\ Len(t) > 1
         \/ IsBlock(t) /\ t[1] = Dollar /\ Len(t) > 1
         \/ /\ IsSymbol(t) /\ t = <<t[1]>> /\ Len(t) = 1
            /\ t[1] \in Letters \union Signs \union {Dash, Dollar}
  BY TokenKinds
<1>4. IsLiteral(t) => t[1] = Quote
  <2> SUFFICES ASSUME IsLiteral(t) PROVE t[1] = Quote
    OBVIOUS
  <2>1. Len(t) > 1 /\ \A k \in 1..Len(t) : t[k] = Quote <=> k \in {1, Len(t)}
    BY <1>3, LenProperties DEF IsLiteral
  <2>2. 1 \in 1..Len(t)
    BY <1>3, <2>1
  <2> QED BY <2>1, <2>2
<1>5. IsBlock(t) => t[1] = Dollar
  <2> SUFFICES ASSUME IsBlock(t) PROVE t[1] = Dollar
    OBVIOUS
  <2>1. PICK d \in Seq(Chars) : DelimitedBy(t, d)
    BY <1>3, BlockDelimiter
  <2> QED BY <1>3, <2>1, BlockParts
<1>6. IsComment(t) => t[1] = Dash
  BY DEF IsComment
<1>7. /\ t = Boundary => t[1] = Semicolon
      /\ t \in Spaces => t[1] \in Blanks
  BY DEF Boundary, Spaces, Blanks
<1>8. t[1] = Semicolon <=> t = Boundary
  BY <1>1, <1>3, <1>7, KindsApart DEF Blanks
<1>9. t[1] = Quote <=> IsLiteral(t)
  BY <1>1, <1>3, <1>4, KindsApart DEF Blanks
<1>10. t[1] \in Blanks <=> t \in Spaces
  BY <1>1, <1>3, <1>7, KindsApart DEF Blanks
<1>11. t[1] = Dollar <=> IsBlock(t) \/ t = <<Dollar>>
  BY <1>1, <1>2, <1>3, <1>5, KindsApart DEF Blanks
<1>12. t[1] = Dash <=> IsComment(t) \/ t = <<Dash>>
  BY <1>1, <1>2, <1>3, <1>6, KindsApart DEF Blanks
<1> QED BY <1>8, <1>9, <1>10, <1>11, <1>12

-----------------------------------------------------------------------------
(***************************************************************************)
(* Sequences of tokens and their text.                                     *)
(***************************************************************************)
LEMMA TokensAreTexts ==
  ASSUME NEW g \in Seq(Tokens)
  PROVE  g \in Seq(Seq(Chars)) /\ Len(g) \in Nat /\ \A i \in 1..Len(g) : g[i] \in Tokens
<1>1. Tokens \subseteq Seq(Chars)
  BY DEF Tokens
<1> QED BY <1>1, SeqMonotonic, LenProperties, ElementOfSeq

\* Where the tokens are in their text.
LEMMA TextOf ==
  ASSUME NEW g \in Seq(Tokens)
  PROVE  /\ FlattenSeq(g) \in Seq(Chars) /\ Len(FlattenSeq(g)) = Place(g)[Len(g)]
         /\ \A i \in 0..Len(g) : Place(g)[i] \in Nat
         /\ Place(g)[0] = 0
<1>1. g \in Seq(Seq(Chars))
  BY TokensAreTexts
<1> QED BY <1>1, FlattenPlaced, PlaceOf

LEMMA TokenPlace ==
  ASSUME NEW g \in Seq(Tokens), NEW i \in 1..Len(g)
  PROVE  /\ Len(g[i]) \in Nat /\ Len(g[i]) # 0
         /\ Place(g)[i] \in Nat /\ Place(g)[i - 1] \in Nat
         /\ Place(g)[i] = Place(g)[i - 1] + Len(g[i])
         /\ \A k \in 1..Len(g[i]) : FlattenSeq(g)[Place(g)[i - 1] + k] = g[i][k]
<1>1. g \in Seq(Seq(Chars)) /\ g[i] \in Tokens
  BY TokensAreTexts
<1>2. Len(g[i]) \in Nat /\ Len(g[i]) # 0
  BY <1>1, TokenKinds
<1>3. Place(g)[i] \in Nat /\ Place(g)[i - 1] \in Nat
  <2>1. Len(g) \in Nat /\ i \in 0..Len(g) /\ i - 1 \in 0..Len(g)
    BY TokensAreTexts
  <2> QED BY <2>1, TextOf
<1>4. Place(g)[i] = Place(g)[i - 1] + Len(g[i])
  BY <1>1, PlaceOf
<1>5. \A k \in 1..Len(g[i]) : FlattenSeq(g)[Place(g)[i - 1] + k] = g[i][k]
  BY <1>1, FlattenPlaced
<1> QED BY <1>2, <1>3, <1>4, <1>5

LEMMA PlacesGrow ==
  ASSUME NEW g \in Seq(Tokens), NEW i \in 0..Len(g), NEW j \in i..Len(g)
  PROVE  Place(g)[i] <= Place(g)[j]
<1>1. g \in Seq(Seq(Chars))
  BY TokensAreTexts
<1> QED BY <1>1, PlaceGrows

\* Every character belongs to a token.
LEMMA TokenFound ==
  ASSUME NEW g \in Seq(Tokens), NEW n \in 0..Len(g), NEW p \in 1..Place(g)[n]
  PROVE  \E i \in 1..n : \E k \in 1..Len(g[i]) :
           /\ p = Place(g)[i - 1] + k /\ i \in 1..Len(g) /\ FlattenSeq(g)[p] = g[i][k]
<1>1. g \in Seq(Seq(Chars)) /\ Len(g) \in Nat
  BY TokensAreTexts
<1>2. IsWithin(p, g, n)
  BY <1>1, PlaceFound
<1>3. PICK i \in 1..n : \E k \in 1..Len(g[i]) : p = Place(g)[i - 1] + k
  BY <1>2 DEF IsWithin
<1>4. PICK k \in 1..Len(g[i]) : p = Place(g)[i - 1] + k
  BY <1>3
<1>5. i \in 1..Len(g)
  BY <1>1
<1>6. FlattenSeq(g)[p] = g[i][k]
  BY <1>4, <1>5, TokenPlace
<1> QED BY <1>4, <1>5, <1>6

LEMMA SpaceChar ==
  ASSUME NEW t \in Spaces, NEW k \in 1..Len(t)
  PROVE  Len(t) = 1 /\ k = 1 /\ t[k] \in Blanks /\ (t[k] # NewLine => t[k] = Blank)
<1>1. Len(t) = 1 /\ t[1] \in Blanks
  BY DEF Spaces, Blanks
<1>2. k = 1
  BY <1>1
<1> QED BY <1>1, <1>2 DEF Blanks

\* The first command of a group, and what comes before it.
FirstCommand(g, j) ==
  /\ j \in 1..Len(g) /\ ~IsComment(g[j]) /\ g[j] \notin Spaces
  /\ \A i \in 1..(j - 1) : IsComment(g[i]) \/ g[i] \in Spaces

LEMMA FirstCommandExists ==
  ASSUME NEW g \in Seq(Tokens), HasCommand(g)
  PROVE  \E j \in 1..Len(g) : FirstCommand(g, j)
<1> DEFINE J == {i \in 1..Len(g) : ~IsComment(g[i]) /\ g[i] \notin Spaces}
<1>1. Len(g) \in Nat /\ DOMAIN g = 1..Len(g)
  BY LenProperties
<1>2. J \in SUBSET Nat /\ J # {}
  BY <1>1 DEF HasCommand
<1>3. PICK j \in J : \A i \in J : j <= i
  <2> HIDE DEF J
  <2> QED BY <1>2, LeastExists
<1>4. \A i \in 1..(j - 1) : i \in 1..Len(g) /\ ~ (j <= i)
  BY <1>1, <1>3
<1> QED BY <1>3, <1>4 DEF FirstCommand

\* Between the newest end of a line and the first command there are blanks.
LEMMA BlanksBefore ==
  ASSUME NEW g \in Seq(Tokens), WellFormed(g), NEW j \in 1..Len(g), FirstCommand(g, j),
         NEW x \in 1..Place(g)[j - 1],
         \A y \in x..Place(g)[j - 1] : FlattenSeq(g)[y] # NewLine
  PROVE  FlattenSeq(g)[x] = Blank
<1> DEFINE P == Place(g)
           F == FlattenSeq(g)
<1>1. Len(g) \in Nat /\ j - 1 \in 0..Len(g) /\ P[j - 1] \in Nat
  BY TokensAreTexts, TokenPlace
<1>2. PICK i \in 1..(j - 1) : \E k \in 1..Len(g[i]) :
           /\ x = P[i - 1] + k /\ i \in 1..Len(g) /\ F[x] = g[i][k]
  BY <1>1, TokenFound
<1>3. PICK k \in 1..Len(g[i]) : x = P[i - 1] + k /\ i \in 1..Len(g) /\ F[x] = g[i][k]
  BY <1>2
<1>4. IsComment(g[i]) \/ g[i] \in Spaces
  BY DEF FirstCommand
<1>5. F[x] # NewLine
  BY <1>1
<1>6. CASE g[i] \in Spaces
  BY <1>3, <1>5, <1>6, SpaceChar
<1>7. CASE IsComment(g[i])
  <2>1. i + 1 \in 1..Len(g) /\ i + 1 \in DOMAIN g \ {1} /\ (i + 1) - 1 = i
    BY <1>1, <1>3, LenProperties
  <2>2. g[i + 1] = <<NewLine>>
    BY <1>7, <2>1 DEF WellFormed
  <2>3. g[i + 1] \in Spaces
    BY <2>2 DEF Spaces
  <2>4. i + 1 # j
    BY <2>3 DEF FirstCommand
  <2>5. i + 1 \in 0..Len(g) /\ j - 1 \in (i + 1)..Len(g)
    BY <1>1, <2>1, <2>4
  <2>6. P[i + 1] <= P[j - 1]
    BY <2>5, PlacesGrow
  <2>7. Len(g[i + 1]) = 1 /\ g[i + 1][1] = NewLine
    BY <2>2
  <2>8. P[i + 1] = P[i] + 1 /\ P[i] \in Nat /\ F[P[i] + 1] = NewLine
    <3>1. /\ P[i + 1] = P[(i + 1) - 1] + Len(g[i + 1]) /\ P[(i + 1) - 1] \in Nat
          /\ \A m \in 1..Len(g[i + 1]) : F[P[(i + 1) - 1] + m] = g[i + 1][m]
      BY <2>1, TokenPlace
    <3>2. 1 \in 1..Len(g[i + 1])
      BY <2>7
    <3> QED BY <2>1, <2>7, <3>1, <3>2
  <2>9. P[i] = P[i - 1] + Len(g[i]) /\ P[i - 1] \in Nat /\ Len(g[i]) \in Nat
    BY <1>3, TokenPlace
  <2> HIDE DEF P, F
  <2>10. P[i] + 1 \in x..P[j - 1]
    <3>1. x <= P[i]
      BY <1>3, <2>9
    <3> QED BY <1>1, <2>6, <2>8, <3>1
  <2> QED BY <2>8, <2>10 DEF P, F
<1> QED BY <1>4, <1>6, <1>7

-----------------------------------------------------------------------------
(***************************************************************************)
(* A piece of the script is sent when there is a command in it: the test   *)
(* on the lines of its text says the same as the tokens.                   *)
(***************************************************************************)
\* A token that is neither a comment nor a space, in a group: not a blank, nor two dashes.
LEMMA CommandHead ==
  ASSUME NEW g \in Seq(Tokens), \A i \in 1..Len(g) : g[i] # Boundary,
         NEW j \in 1..Len(g), ~IsComment(g[j]), g[j] \notin Spaces
  PROVE  /\ g[j][1] \notin Blanks
         /\ g[j][1] = Dash => g[j] = <<Dash>>
<1>1. g[j] \in Tokens
  BY TokensAreTexts
<1> QED BY <1>1, HeadTells

\* The line a place is on.
LEMMA LineOf ==
  ASSUME NEW C, NEW s \in Seq(C), NEW q \in 1..Len(s)
  PROVE  \E i \in 1..q : i \in LineStarts(s) /\ \A l \in i..(q - 1) : s[l] # NewLine
<1> DEFINE T == {l \in LineStarts(s) : l <= q}
           i == Max(T)
<1>1. Len(s) \in Nat /\ DOMAIN s = 1..Len(s)
  BY LenProperties
<1>2. LineStarts(s) \subseteq 1..Len(s) /\ 1 \in LineStarts(s)
  BY <1>1 DEF LineStarts
<1>3. T \in SUBSET (0..Len(s)) /\ T # {}
  BY <1>1, <1>2
<1>4. i \in T /\ \A l \in T : l <= i
  <2> HIDE DEF T
  <2> QED BY <1>1, <1>3, GreatestExists
<1> HIDE DEF i
<1>5. i \in 1..q /\ i \in LineStarts(s)
  BY <1>1, <1>2, <1>4
<1>6. ASSUME NEW l \in i..(q - 1), s[l] = NewLine PROVE FALSE
  <2>1. l + 1 \in 1..Len(s) /\ l + 1 > 1 /\ (l + 1) - 1 = l /\ l + 1 <= q
    BY <1>1, <1>5
  <2>2. l + 1 \in LineStarts(s)
    BY <1>1, <1>6, <2>1 DEF LineStarts
  <2>3. l + 1 <= i
    BY <1>4, <2>1, <2>2
  <2> QED BY <1>5, <2>3
<1> QED BY <1>5, <1>6

\* A piece with a command in it is sent.
LEMMA CommandIsSent ==
  ASSUME NEW g \in Seq(Tokens), WellFormed(g), \A i \in 1..Len(g) : g[i] # Boundary, HasCommand(g)
  PROVE  Strip(FlattenSeq(g)) # <<>> /\ ~OnlyComments(Strip(FlattenSeq(g)))
<1> DEFINE P == Place(g)
           F == FlattenSeq(g)
           s == Strip(F)
<1>1. PICK j \in 1..Len(g) : FirstCommand(g, j)
  BY FirstCommandExists
<1>2. g[j][1] \notin Blanks /\ (g[j][1] = Dash => g[j] = <<Dash>>)
  BY <1>1, CommandHead DEF FirstCommand
<1>3. /\ Len(g) \in Nat /\ F \in Seq(Chars) /\ Len(F) = P[Len(g)] /\ P[Len(g)] \in Nat
      /\ Len(F) \in Nat
  <2>1. Len(g) \in Nat /\ Len(g) \in 0..Len(g)
    BY TokensAreTexts
  <2> QED BY <2>1, TextOf
<1>4. /\ P[j] \in Nat /\ P[j - 1] \in Nat /\ P[j] = P[j - 1] + Len(g[j]) /\ Len(g[j]) \in Nat
      /\ Len(g[j]) # 0 /\ F[P[j - 1] + 1] = g[j][1]
  <2>1. /\ Len(g[j]) \in Nat /\ Len(g[j]) # 0 /\ P[j] \in Nat /\ P[j - 1] \in Nat
        /\ P[j] = P[j - 1] + Len(g[j])
        /\ \A k \in 1..Len(g[j]) : F[P[j - 1] + k] = g[j][k]
    BY TokenPlace
  <2>2. 1 \in 1..Len(g[j])
    BY <2>1
  <2> QED BY <2>1, <2>2
<1>5. P[j] <= P[Len(g)]
  <2>1. j \in 0..Len(g) /\ Len(g) \in j..Len(g)
    BY <1>3
  <2> QED BY <2>1, PlacesGrow
<1> DEFINE p == P[j - 1] + 1
<1>6. p \in 1..Len(F) /\ F[p] \notin Blanks
  BY <1>2, <1>3, <1>4, <1>5
<1>7. PICK lo, hi \in 1..Len(F) : Strips(F, lo, hi)
  BY <1>3, <1>6, StripCases
<1>8. /\ s \in Seq(Chars) /\ s # <<>> /\ Len(s) = hi - lo + 1
      /\ \A k \in 1..(hi - lo + 1) : s[k] = F[lo + k - 1]
  <2>1. lo \in Int /\ hi \in Int
    OBVIOUS
  <2> QED BY <1>3, <1>7, <2>1, StrippedText
<1>9. lo <= p /\ p <= hi
  <2>1. \A i \in 1..Len(F) : i < lo \/ hi < i => F[i] \in Blanks
    BY <1>7 DEF Strips
  <2> QED BY <1>3, <1>6, <2>1
<1> HIDE DEF s
<1> DEFINE q == p - lo + 1
<1>10. q \in 1..Len(s) /\ lo + q - 1 = p /\ q \in 1..(hi - lo + 1)
  <2>1. p \in Int /\ lo \in Int /\ hi \in Int
    BY <1>4
  <2> HIDE DEF p
  <2>2. q \in 1..(hi - lo + 1) /\ lo + q - 1 = p
    BY <1>9, <2>1
  <2> HIDE DEF q
  <2> QED BY <1>8, <2>2
<1> HIDE DEF q
<1>11. s[q] = g[j][1]
  BY <1>4, <1>8, <1>10
<1>12. PICK i \in 1..q : i \in LineStarts(s) /\ \A l \in i..(q - 1) : s[l] # NewLine
  BY <1>8, <1>10, LineOf
<1>13. ASSUME NEW l \in i..(q - 1) PROVE s[l] = Blank
  <2> DEFINE x == lo + l - 1
  <2>1. l \in 1..(hi - lo + 1) /\ x \in 1..P[j - 1]
    BY <1>4, <1>10
  <2>2. s[l] = F[x]
    BY <1>8, <2>1
  <2>3. ASSUME NEW y \in x..P[j - 1] PROVE F[y] # NewLine
    <3> DEFINE m == y - lo + 1
    <3>1. m \in i..(q - 1) /\ m \in 1..(hi - lo + 1) /\ lo + m - 1 = y
      BY <1>4, <1>10
    <3> HIDE DEF m
    <3> QED BY <1>8, <1>12, <3>1
  <2>4. F[x] = Blank
    <3> HIDE DEF x
    <3> QED BY <1>1, <2>1, <2>3, BlanksBefore
  <2> QED BY <2>2, <2>4
<1>14. i \in 1..Len(s) /\ q \in i..Len(s) /\ Len(s) \in Nat
  BY <1>8, <1>10, LenProperties
<1>15. BeginsWith(s, i, q)
  BY <1>2, <1>11, <1>13, <1>14 DEF BeginsWith
<1>16. LineFrom(s, i) # <<>>
  BY <1>8, <1>14, <1>15, LineIsComment
<1>17. ~ IsPrefix(<<Dash, Dash>>, LineFrom(s, i))
  <2> SUFFICES ASSUME IsPrefix(<<Dash, Dash>>, LineFrom(s, i)) PROVE FALSE
    OBVIOUS
  <2>1. s[q] = Dash /\ q + 1 <= Len(s) /\ s[q + 1] = Dash
    BY <1>8, <1>14, <1>15, LineIsComment
  <2>2. g[j] = <<Dash>> /\ Len(g[j]) = 1
    BY <1>2, <1>11, <2>1
  <2>3. P[j] = p
    BY <1>4, <2>2
  <2>4. p + 1 <= Len(F) /\ lo + (q + 1) - 1 = p + 1 /\ q + 1 \in 1..(hi - lo + 1)
    <3>1. p \in Int /\ q \in Int /\ lo \in Int /\ hi \in Int
      BY <1>4, <1>10
    <3>2. hi <= Len(F) /\ lo >= 1
      BY <1>3
    <3>3. q + 1 <= hi - lo + 1 /\ q >= 1 /\ lo + q - 1 = p
      BY <1>8, <1>10, <2>1
    <3> HIDE DEF p, F
    <3> QED BY <1>3, <3>1, <3>2, <3>3
  <2>5. F[p + 1] = Dash
    BY <1>8, <2>1, <2>4
  <2>6. j # Len(g)
    BY <1>3, <1>4, <2>3, <2>4
  <2>7. j + 1 \in 1..Len(g) /\ (j + 1) - 1 = j /\ j + 1 \in DOMAIN g \ {1}
    BY <1>3, <2>6, LenProperties
  <2>8. F[P[j] + 1] = g[j + 1][1]
    <3>1. /\ Len(g[j + 1]) \in Nat /\ Len(g[j + 1]) # 0
          /\ \A k \in 1..Len(g[j + 1]) : F[P[(j + 1) - 1] + k] = g[j + 1][k]
      BY <2>7, TokenPlace
    <3>2. 1 \in 1..Len(g[j + 1])
      BY <3>1
    <3> QED BY <2>7, <3>1, <3>2
  <2>9. Head(g[j + 1]) = Dash
    <3>1. g[j + 1] \in Tokens
      BY <2>7, TokensAreTexts
    <3>2. Head(g[j + 1]) = g[j + 1][1]
      BY <3>1, TokenKinds
    <3> QED BY <2>3, <2>5, <2>8, <3>2
  <2> QED BY <2>2, <2>7, <2>9 DEF WellFormed
<1>18. ~OnlyComments(s)
  BY <1>12, <1>16, <1>17 DEF OnlyComments
<1> QED BY <1>8, <1>18 DEF s

\* A piece of blanks and comments is not.
LEMMA CommentsAreNotSent ==
  ASSUME NEW g \in Seq(Tokens), ~HasCommand(g), Strip(FlattenSeq(g)) # <<>>
  PROVE  OnlyComments(Strip(FlattenSeq(g)))
<1> DEFINE P == Place(g)
           F == FlattenSeq(g)
           s == Strip(F)
<1>1. /\ Len(g) \in Nat /\ F \in Seq(Chars) /\ Len(F) = P[Len(g)] /\ P[Len(g)] \in Nat
      /\ Len(F) \in Nat /\ Len(g) \in 0..Len(g)
  <2>1. Len(g) \in Nat /\ Len(g) \in 0..Len(g)
    BY TokensAreTexts
  <2> QED BY <2>1, TextOf
<1>2. \A m \in 1..Len(g) : IsComment(g[m]) \/ g[m] \in Spaces
  BY LenProperties DEF HasCommand
<1>3. PICK lo, hi \in 1..Len(F) : Strips(F, lo, hi)
  BY <1>1, StripCases
<1>4. /\ s \in Seq(Chars) /\ Len(s) = hi - lo + 1 /\ Len(s) \in Nat /\ lo <= hi
      /\ \A k \in 1..(hi - lo + 1) : s[k] = F[lo + k - 1]
  <2>1. lo \in Int /\ hi \in Int
    OBVIOUS
  <2> QED BY <1>1, <1>3, <2>1, StrippedText, LenProperties
<1>5. \A i \in 1..Len(F) : i < lo \/ hi < i => F[i] \in Blanks
  BY <1>3 DEF Strips
<1>6. Dash \notin Blanks /\ Dash # Blank /\ Dash # NewLine
  BY KindsApart DEF Blanks
<1> HIDE DEF s
<1>7. SUFFICES ASSUME NEW i \in LineStarts(s), LineFrom(s, i) # <<>>
               PROVE  IsPrefix(<<Dash, Dash>>, LineFrom(s, i))
  BY DEF OnlyComments, s
<1>8. i \in 1..Len(s)
  BY <1>1, <1>4, LenProperties DEF LineStarts
<1>9. PICK q \in i..Len(s) : BeginsWith(s, i, q)
  BY <1>4, <1>7, <1>8, Lines
<1>10. s[q] \notin Blanks /\ \A l \in i..(q - 1) : s[l] = Blank
  BY <1>9 DEF BeginsWith
<1> DEFINE x == lo + q - 1
<1>11. q \in 1..(hi - lo + 1) /\ x \in 1..P[Len(g)] /\ lo <= x
  BY <1>1, <1>4, <1>8
<1>12. F[x] = s[q]
  BY <1>4, <1>11
<1>13. PICK m \in 1..Len(g) : \E k \in 1..Len(g[m]) : x = P[m - 1] + k /\ F[x] = g[m][k]
  <2> HIDE DEF x
  <2> QED BY <1>1, <1>11, TokenFound
<1>14. PICK k \in 1..Len(g[m]) : x = P[m - 1] + k /\ F[x] = g[m][k]
  BY <1>13
<1>15. IsComment(g[m])
  <2>1. g[m] \notin Spaces
    BY <1>10, <1>12, <1>14, SpaceChar
  <2> QED BY <1>2, <2>1
<1>16. /\ Len(g[m]) \in Nat /\ Len(g[m]) > 1 /\ g[m][1] = Dash /\ g[m][2] = Dash
       /\ \A z \in 1..Len(g[m]) : g[m][z] # NewLine
  <2>1. g[m] \in Tokens
    BY TokensAreTexts
  <2>2. g[m] \in Seq(Chars) /\ Len(g[m]) \in Nat
    BY <2>1, TokenKinds
  <2> QED BY <1>15, <2>2, LenProperties DEF IsComment
<1>17. /\ P[m - 1] \in Nat /\ P[m] = P[m - 1] + Len(g[m]) /\ P[m] \in Nat
       /\ \A z \in 1..Len(g[m]) : F[P[m - 1] + z] = g[m][z]
  BY TokenPlace
<1>18. P[m] <= Len(F)
  <2>1. m \in 0..Len(g) /\ Len(g) \in m..Len(g)
    BY <1>1
  <2> QED BY <1>1, <2>1, PlacesGrow
<1> HIDE DEF P, F
<1>19. k = 1
  <2> SUFFICES ASSUME k # 1 PROVE FALSE
    OBVIOUS
  <2> DEFINE y == P[m - 1] + 1
             ly == y - lo + 1
  <2>1. y \in 1..Len(F) /\ y < x
    <3>1. /\ P[m - 1] \in Nat /\ Len(g[m]) \in Nat /\ Len(g[m]) > 1 /\ Len(F) \in Nat
          /\ P[m - 1] + Len(g[m]) <= Len(F)
      BY <1>1, <1>16, <1>17, <1>18
    <3>2. y \in 1..Len(F)
      <4> HIDE DEF P
      <4>1. P[m - 1] + 1 >= 1 /\ P[m - 1] + 1 <= Len(F) /\ P[m - 1] + 1 \in Int
        BY <3>1
      <4> QED BY <3>1, <4>1
    <3>3. k > 1 /\ x = P[m - 1] + k
      BY <1>14, <1>16
    <3> HIDE DEF x
    <3> QED BY <3>1, <3>2, <3>3
  <2>2. F[y] = Dash
    <3>1. 1 \in 1..Len(g[m])
      BY <1>16
    <3> QED BY <1>16, <1>17, <3>1
  <2>3. lo <= y
    BY <1>5, <1>6, <2>1, <2>2
  <2>4. ly \in 1..(q - 1) /\ lo + ly - 1 = y /\ ly \in 1..(hi - lo + 1)
    <3>1. y \in Int /\ lo \in Int /\ hi \in Int /\ q \in Int /\ q <= hi - lo + 1 /\ y < lo + q - 1
      BY <1>1, <1>8, <1>11, <2>1
    <3> HIDE DEF y
    <3> QED BY <2>3, <3>1
  <2>5. s[ly] = Dash
    BY <1>4, <2>2, <2>4
  <2>6. ly < i
    <3> SUFFICES ASSUME ~ (ly < i) PROVE FALSE
      BY <1>8, <2>4
    <3> HIDE DEF ly
    <3>1. ly \in i..(q - 1)
      BY <1>8, <2>4
    <3> QED BY <1>6, <1>10, <2>5, <3>1
  <2>7. i > 1 /\ s[i - 1] = NewLine
    <3>1. i # 1
      BY <1>8, <2>4, <2>6
    <3> QED BY <1>7, <1>8, <3>1 DEF LineStarts
  <2> DEFINE z == (lo + i - 2) - P[m - 1]
  <2>8. z \in 1..Len(g[m]) /\ P[m - 1] + z = lo + (i - 1) - 1 /\ i - 1 \in 1..(hi - lo + 1)
    <3>1. /\ P[m - 1] \in Int /\ lo \in Int /\ hi \in Int /\ i \in Int /\ q \in Int /\ k \in Int
          /\ ly \in Int /\ Len(g[m]) \in Int
      BY <1>4, <1>8, <1>16, <1>17, <2>4
    <3>2. /\ lo + ly - 1 = P[m - 1] + 1 /\ ly < i /\ i <= q /\ i > 1 /\ lo + q - 1 = P[m - 1] + k
          /\ k <= Len(g[m]) /\ q <= hi - lo + 1
      BY <1>8, <1>11, <1>14, <1>16, <2>4, <2>6, <2>7
    <3> HIDE DEF ly, y, x
    <3>3. z = i - ly
      <4>1. P[m - 1] = lo + ly - 2
        BY <3>1, <3>2
      <4> QED BY <3>1, <4>1
    <3>4. z = (lo + i - 2) - P[m - 1]
      OBVIOUS
    <3> HIDE DEF z
    <3>5. z \in 1..Len(g[m]) /\ i - 1 \in 1..(hi - lo + 1)
      BY <3>1, <3>2, <3>3
    <3>6. P[m - 1] + z = lo + (i - 1) - 1
      BY <3>1, <3>4
    <3> QED BY <3>5, <3>6
  <2> HIDE DEF z
  <2>9. g[m][z] = NewLine
    BY <1>4, <1>17, <2>7, <2>8
  <2> QED BY <1>16, <2>8, <2>9
<1>20. F[x] = Dash /\ F[x + 1] = Dash /\ x + 1 \in 1..Len(F)
  <2>1. 1 \in 1..Len(g[m]) /\ 2 \in 1..Len(g[m])
    BY <1>16
  <2>2. x = P[m - 1] + 1 /\ x + 1 = P[m - 1] + 2
    <3>1. x = P[m - 1] + 1
      BY <1>14, <1>19
    <3> HIDE DEF x
    <3> QED BY <1>17, <3>1
  <2>3. F[P[m - 1] + 1] = Dash /\ F[P[m - 1] + 2] = Dash
    BY <1>16, <1>17, <2>1
  <2>4. x + 1 \in 1..Len(F)
    <3>1. /\ P[m - 1] \in Nat /\ Len(g[m]) \in Nat /\ Len(g[m]) > 1 /\ Len(F) \in Nat
          /\ P[m - 1] + Len(g[m]) <= Len(F)
      BY <1>1, <1>16, <1>17, <1>18
    <3> HIDE DEF x, P
    <3>2. x + 1 = P[m - 1] + 2
      BY <2>2
    <3> QED BY <3>1, <3>2
  <2> HIDE DEF x
  <2> QED BY <2>2, <2>3, <2>4
<1>21. x + 1 <= hi
  BY <1>5, <1>6, <1>11, <1>20
<1>22. s[q] = Dash /\ q + 1 <= Len(s) /\ s[q + 1] = Dash
  <2>1. q + 1 \in 1..(hi - lo + 1) /\ lo + (q + 1) - 1 = x + 1
    BY <1>8, <1>11, <1>21
  <2> QED BY <1>4, <1>12, <1>20, <2>1
<1> QED BY <1>4, <1>8, <1>9, <1>22, LineIsComment

-----------------------------------------------------------------------------
(***************************************************************************)
(* Lists of groups.                                                        *)
(***************************************************************************)
\* The next group follows those before it.
LEMMA AreGroupsAppend ==
  ASSUME NEW ss \in Seq(Seq(Chars)), NEW B \in SUBSET Int, NEW b \in Int, \A c \in B : c < b,
         AreGroups(ss, B)
  PROVE  AreGroups(Append(ss, Strip(FlattenSeq(Group(b)))), B \union {b})
<1> DEFINE piece(c) == Strip(FlattenSeq(Group(c)))
           n == Len(ss)
           all == Append(ss, piece(b))
<1>1. n \in Nat /\ DOMAIN ss = 1..n
  BY LenProperties
<1> HIDE DEF piece
<1>2. DOMAIN all = 1..(n + 1) /\ all[n + 1] = piece(b) /\ \A k \in 1..n : all[k] = ss[k]
  BY <1>1
<1> HIDE DEF all
<1>3. PICK order \in [1..n -> B] :
         /\ \A k, l \in 1..n : k < l => order[k] < order[l]
         /\ \A c \in B : \E k \in 1..n : order[k] = c
         /\ \A k \in 1..n : ss[k] = piece(order[k])
  BY <1>1 DEF AreGroups, piece
<1> HIDE DEF n
<1> DEFINE longer == [k \in 1..(n + 1) |-> IF k = n + 1 THEN b ELSE order[k]]
<1>4. /\ longer \in [1..(n + 1) -> B \union {b}]
      /\ longer[n + 1] = b /\ \A k \in 1..n : longer[k] = order[k] /\ longer[k] \in B
  BY <1>1, <1>3
<1> HIDE DEF longer
<1>5. \A k, l \in 1..(n + 1) : k < l => longer[k] < longer[l]
  <2> SUFFICES ASSUME NEW k \in 1..(n + 1), NEW l \in 1..(n + 1), k < l
               PROVE  longer[k] < longer[l]
    OBVIOUS
  <2>1. k \in 1..n
    BY <1>1
  <2>2. CASE l = n + 1
    BY <1>4, <2>1, <2>2
  <2>3. CASE l # n + 1
    <3>1. l \in 1..n
      BY <1>1, <2>3
    <3> QED BY <1>3, <1>4, <2>1, <3>1
  <2> QED BY <2>2, <2>3
<1>6. \A c \in B \union {b} : \E k \in 1..(n + 1) : longer[k] = c
  <2>1. n + 1 \in 1..(n + 1) /\ \A k \in 1..n : k \in 1..(n + 1)
    BY <1>1
  <2>2. ASSUME NEW c \in B PROVE \E k \in 1..(n + 1) : longer[k] = c
    <3>1. PICK k \in 1..n : order[k] = c
      BY <1>3
    <3> QED BY <1>4, <2>1, <3>1
  <2> QED BY <1>4, <2>1, <2>2
<1>7. \A k \in 1..(n + 1) : all[k] = piece(longer[k])
  <2> SUFFICES ASSUME NEW k \in 1..(n + 1) PROVE all[k] = piece(longer[k])
    OBVIOUS
  <2>1. CASE k = n + 1
    BY <1>2, <1>4, <2>1
  <2>2. CASE k # n + 1
    <3>1. k \in 1..n
      BY <1>1, <2>2
    <3> QED BY <1>2, <1>3, <1>4, <3>1
  <2> QED BY <2>1, <2>2
<1>8. DOMAIN longer = 1..(n + 1)
  BY <1>4
<1>9. AreGroups(all, B \union {b})
  <2>1. DOMAIN all = 1..(n + 1) /\ longer \in [DOMAIN all -> B \union {b}]
    BY <1>2, <1>4
  <2>2. \A k, l \in DOMAIN longer : k < l => longer[k] < longer[l]
    BY <1>5, <1>8
  <2>3. \A c \in B \union {b} : \E k \in DOMAIN longer : longer[k] = c
    BY <1>6, <1>8
  <2>4. \A k \in DOMAIN longer : all[k] = Strip(FlattenSeq(Group(longer[k])))
    BY <1>7, <1>8 DEF piece
  <2> QED BY <2>1, <2>2, <2>3, <2>4 DEF AreGroups
<1> QED BY <1>9 DEF all, piece

LEMMA NoGroups == AreGroups(<<>>, {})
<1>1. DOMAIN <<>> = {}
  OBVIOUS
<1>2. [k \in {} |-> 0] \in [{} -> {}] /\ DOMAIN [k \in {} |-> 0] = {}
  OBVIOUS
<1> QED BY <1>1, <1>2 DEF AreGroups

\* Leaving out the comments keeps the others, by recursion over the pieces.
KeepStep(pieces) ==
  [i \in 1..Len(pieces) |-> [ss \in Seq(Seq(Chars)) |->
     IF OnlyComments(pieces[i]) THEN ss ELSE Append(ss, pieces[i])]]

\* The recursion of Sent.
LEMMA SentOf ==
  ASSUME NEW pieces \in Seq(Seq(Chars))
  PROVE  \E f \in [0..Len(pieces) -> Seq(Seq(Chars))] :
           /\ Recurs(f, Len(pieces), <<>>, KeepStep(pieces))
           /\ Sent(pieces) = f[Len(pieces)]
<1> DEFINE N == Len(pieces)
           S == Seq(Seq(Chars))
           step == KeepStep(pieces)
           IsOne(g) == g = [n \in 0..N |-> IF n = 0 THEN <<>>
                                           ELSE IF OnlyComments(pieces[n]) THEN g[n - 1]
                                           ELSE Append(g[n - 1], pieces[n])]
           f == CHOOSE g : IsOne(g)
<1>1. N \in Nat /\ <<>> \in S /\ \A i \in 1..N : pieces[i] \in Seq(Chars)
  BY LenProperties, ElementOfSeq, EmptySeq
<1>2. step \in [1..N -> [S -> S]]
  <2>1. \A i \in 1..N : \A ss \in S : Append(ss, pieces[i]) \in S
    BY <1>1, AppendProperties
  <2> QED BY <2>1 DEF KeepStep
<1>3. \A i \in 1..N : \A ss \in S :
        step[i][ss] = IF OnlyComments(pieces[i]) THEN ss ELSE Append(ss, pieces[i])
  BY DEF KeepStep
<1> HIDE DEF step, f, IsOne, N, S
<1>4. PICK g \in [0..N -> S] : Recurs(g, N, <<>>, step)
  BY <1>1, <1>2, Recursion
<1>5. \A i \in 1..N : i - 1 \in 0..N /\ i \in 0..N /\ i # 0
  BY <1>1
<1>6. /\ g[0] = <<>>
      /\ \A n \in 1..N :
           g[n] = IF OnlyComments(pieces[n]) THEN g[n - 1] ELSE Append(g[n - 1], pieces[n])
  BY <1>3, <1>4, <1>5 DEF Recurs
<1>7. \A n \in 0..N : n = 0 \/ n \in 1..N
  BY <1>1
<1>8. \A n \in 0..N :
        g[n] = IF n = 0 THEN <<>>
               ELSE IF OnlyComments(pieces[n]) THEN g[n - 1] ELSE Append(g[n - 1], pieces[n])
  BY <1>6, <1>7
<1>9. IsOne(g)
  BY <1>8 DEF IsOne
<1>10. IsOne(f)
  BY <1>9 DEF f
<1>11. \A n \in 0..N :
        f[n] = IF n = 0 THEN <<>>
               ELSE IF OnlyComments(pieces[n]) THEN f[n - 1] ELSE Append(f[n - 1], pieces[n])
  BY <1>10 DEF IsOne
<1>12. \A n \in 0..N : n \in {k \in 0..N : f[k] = g[k]}
  <2> DEFINE F == {k \in 0..N : f[k] = g[k]}
  <2>1. 0 \in F
    BY <1>1, <1>6, <1>11
  <2>2. ASSUME NEW n \in 0..(N - 1), n \in F PROVE n + 1 \in F
    <3>1. n + 1 \in 0..N /\ n + 1 # 0 /\ (n + 1) - 1 = n
      BY <1>1
    <3>2. f[n] = g[n]
      BY <2>2
    <3>3. f[n + 1] = g[n + 1]
      BY <1>8, <1>11, <3>1, <3>2
    <3> QED BY <3>1, <3>3
  <2> HIDE DEF F
  <2>3. \A n \in 0..N : n \in F
    BY <1>1, <2>1, <2>2, InductionUpTo
  <2> QED BY <2>3 DEF F
<1>13. f[N] = g[N]
  BY <1>1, <1>12
<1>14. Sent(pieces) = f[N]
  BY DEF Sent, f, IsOne, N
<1> QED BY <1>4, <1>13, <1>14 DEF N, S, step

\* What is sent of a list of groups: those that are more than comments, in their order.
LEMMA SentGroups ==
  ASSUME NEW ss \in Seq(Seq(Chars)), NEW B \in SUBSET Int, AreGroups(ss, B)
  PROVE  /\ Sent(ss) \in Seq(Seq(Chars))
         /\ AreGroups(Sent(ss), {b \in B : ~OnlyComments(Strip(FlattenSeq(Group(b))))})
<1> DEFINE piece(c) == Strip(FlattenSeq(Group(c)))
           N == Len(ss)
           step == KeepStep(ss)
<1>1. N \in Nat /\ DOMAIN ss = 1..N /\ Len(ss) = N
  BY LenProperties
<1>2. \A i \in 1..N : \A gs \in Seq(Seq(Chars)) :
        step[i][gs] = IF OnlyComments(ss[i]) THEN gs ELSE Append(gs, ss[i])
  BY DEF KeepStep
<1>3. PICK f \in [0..N -> Seq(Seq(Chars))] : Recurs(f, N, <<>>, step) /\ Sent(ss) = f[N]
  BY SentOf
<1> HIDE DEF piece, N, step
<1>4. PICK order \in [1..N -> B] :
         /\ \A k, l \in 1..N : k < l => order[k] < order[l]
         /\ \A c \in B : \E k \in 1..N : order[k] = c
         /\ \A k \in 1..N : ss[k] = piece(order[k])
  BY <1>1 DEF AreGroups, piece
<1> DEFINE Keeps(n) == {order[k] : k \in {l \in 1..n : ~OnlyComments(ss[l])}}
           F == {n \in 0..N : AreGroups(f[n], Keeps(n))}
<1>5. 0 \in F
  <2>1. Keeps(0) = {}
    OBVIOUS
  <2>2. f[0] = <<>> /\ 0 \in 0..N
    BY <1>1, <1>3 DEF Recurs
  <2> QED BY <2>1, <2>2, NoGroups
<1>6. ASSUME NEW n \in 0..(N - 1), n \in F PROVE n + 1 \in F
  <2>1. n + 1 \in 0..N /\ n + 1 \in 1..N /\ (n + 1) - 1 = n /\ n \in 0..N /\ n \in Nat
    BY <1>1
  <2>2. f[n + 1] = IF OnlyComments(ss[n + 1]) THEN f[n] ELSE Append(f[n], ss[n + 1])
    <3>1. f[n + 1] = step[n + 1][f[n]] /\ f[n] \in Seq(Seq(Chars))
      BY <1>3, <2>1 DEF Recurs
    <3> QED BY <1>2, <2>1, <3>1
  <2>3. AreGroups(f[n], Keeps(n)) /\ f[n] \in Seq(Seq(Chars))
    BY <1>6, <1>3, <2>1
  <2>4. \A l : l \in 1..(n + 1) <=> l \in 1..n \/ l = n + 1
    BY <2>1
  <2>5. CASE OnlyComments(ss[n + 1])
    <3>1. Keeps(n + 1) = Keeps(n)
      BY <2>4, <2>5
    <3> HIDE DEF Keeps
    <3> QED BY <2>1, <2>2, <2>3, <2>5, <3>1
  <2>6. CASE ~OnlyComments(ss[n + 1])
    <3>1. Keeps(n + 1) = Keeps(n) \union {order[n + 1]}
      BY <2>4, <2>6
    <3>2. Keeps(n) \in SUBSET Int /\ order[n + 1] \in Int
      <4>1. \A l \in 1..n : l \in 1..N
        BY <1>1, <2>1
      <4>2. \A k \in 1..N : order[k] \in Int
        BY <1>4
      <4> QED BY <2>1, <4>1, <4>2
    <3>3. \A c \in Keeps(n) : c < order[n + 1]
      <4>1. \A l \in 1..n : l \in 1..N /\ l < n + 1
        BY <1>1, <2>1
      <4>2. \A l \in 1..n : order[l] < order[n + 1]
        BY <1>4, <2>1, <4>1
      <4> QED BY <4>2
    <3>4. ss[n + 1] = Strip(FlattenSeq(Group(order[n + 1])))
      BY <1>4, <2>1 DEF piece
    <3> HIDE DEF Keeps
    <3>5. AreGroups(Append(f[n], Strip(FlattenSeq(Group(order[n + 1])))), Keeps(n) \union {order[n + 1]})
      BY <2>3, <3>2, <3>3, AreGroupsAppend
    <3> QED BY <2>1, <2>2, <2>6, <3>1, <3>4, <3>5
  <2> QED BY <2>5, <2>6
<1>7. N \in F
  <2> HIDE DEF F
  <2>1. \A n \in 0..N : n \in F
    BY <1>1, <1>5, <1>6, InductionUpTo
  <2> QED BY <1>1, <2>1
<1>8. Keeps(N) = {b \in B : ~OnlyComments(piece(b))}
  <2>1. \A k \in 1..N : order[k] \in B /\ ss[k] = piece(order[k])
    BY <1>4
  <2>2. \A b \in B : \E k \in 1..N : order[k] = b
    BY <1>4
  <2> HIDE DEF piece
  <2>3. ASSUME NEW b \in B, ~OnlyComments(piece(b)) PROVE b \in Keeps(N)
    <3>1. PICK k \in 1..N : order[k] = b
      BY <2>2
    <3> QED BY <2>1, <2>3, <3>1
  <2>4. ASSUME NEW b \in Keeps(N) PROVE b \in B /\ ~OnlyComments(piece(b))
    BY <2>1
  <2> HIDE DEF Keeps
  <2> QED BY <2>3, <2>4
<1>9. Sent(ss) \in Seq(Seq(Chars))
  BY <1>1, <1>3
<1> HIDE DEF Keeps
<1> QED BY <1>3, <1>7, <1>8, <1>9 DEF piece

-----------------------------------------------------------------------------
(***************************************************************************)
(* The script, its boundaries and its groups.                              *)
(***************************************************************************)
\* The last place of a token in the text.
EndOf(i) == Place(script)[i]

\* The text of a script.
LEMMA ScriptText ==
  ASSUME script \in Scripts
  PROVE  /\ script \in Seq(Tokens) /\ WellFormed(script) /\ Len(script) \in Nat
         /\ DOMAIN script = 1..Len(script)
         /\ Text \in Seq(Chars) /\ Len(Text) \in Nat /\ Len(Text) = EndOf(Len(script))
         /\ EndOf(0) = 0 /\ \A i \in 0..Len(script) : EndOf(i) \in Nat /\ EndOf(i) <= Len(Text)
<1>1. script \in Seq(Tokens) /\ WellFormed(script)
  BY ScriptsAssumption
<1>2. Len(script) \in Nat /\ DOMAIN script = 1..Len(script)
  BY <1>1, LenProperties
<1>3. /\ Text \in Seq(Chars) /\ Len(Text) = EndOf(Len(script)) /\ EndOf(0) = 0
      /\ \A i \in 0..Len(script) : EndOf(i) \in Nat
  BY <1>1, TextOf DEF Text, EndOf
<1>4. ASSUME NEW i \in 0..Len(script) PROVE EndOf(i) <= Len(Text)
  <2>1. Len(script) \in i..Len(script)
    BY <1>2
  <2> QED BY <1>1, <1>3, <2>1, PlacesGrow DEF EndOf
<1> QED BY <1>1, <1>2, <1>3, <1>4, LenProperties

\* A token of it.
LEMMA ScriptToken ==
  ASSUME script \in Scripts, NEW i \in 1..Len(script)
  PROVE  /\ script[i] \in Tokens /\ Len(script[i]) \in Nat /\ Len(script[i]) # 0
         /\ EndOf(i) \in Nat /\ EndOf(i - 1) \in Nat /\ EndOf(i) = EndOf(i - 1) + Len(script[i])
         /\ EndOf(i) <= Len(Text)
         /\ \A k \in 1..Len(script[i]) : Text[EndOf(i - 1) + k] = script[i][k]
<1>1. script \in Seq(Tokens) /\ Len(script) \in Nat /\ EndOf(i) <= Len(Text)
  <2>1. Len(script) \in Nat
    BY ScriptText
  <2>2. i \in 0..Len(script)
    BY <2>1
  <2> QED BY <2>2, ScriptText
<1>2. script[i] \in Tokens
  BY <1>1, TokensAreTexts
<1> QED BY <1>1, <1>2, TokenPlace DEF EndOf, Text

LEMMA BoundsAre ==
  ASSUME script \in Scripts
  PROVE  /\ Bounds \in SUBSET (0..(Len(script) + 1)) /\ Bounds \in SUBSET Int
         /\ \A c \in Bounds : c \in Nat /\ c <= Len(script) + 1
         /\ 0 \in Bounds /\ Len(script) + 1 \in Bounds
         /\ \A i \in 1..Len(script) : i \in Bounds <=> script[i] = Boundary
<1>1. Len(script) \in Nat /\ DOMAIN script = 1..Len(script)
  BY ScriptText
<1> QED BY <1>1 DEF Bounds

\* Two boundaries with none between them.
Neighbours(b, i) ==
  /\ b \in Bounds /\ i \in Bounds /\ b < i
  /\ \A c \in Bounds : c <= b \/ c >= i

\* There is a next boundary but for the last one.
LEMMA NextBound ==
  ASSUME script \in Scripts, NEW b \in Bounds, b # Len(script) + 1
  PROVE  \E i \in Bounds : Neighbours(b, i)
<1> DEFINE S == {c \in Bounds : c > b}
<1>1. Bounds \in SUBSET (0..(Len(script) + 1)) /\ Len(script) + 1 \in Bounds /\ Len(script) \in Nat
  BY BoundsAre, ScriptText
<1>2. S \in SUBSET Nat /\ S # {}
  <2>1. \A c \in Bounds : c \in Nat /\ c <= Len(script) + 1
    BY BoundsAre
  <2>2. b < Len(script) + 1
    BY <1>1, <2>1
  <2> QED BY <1>1, <2>1, <2>2
<1>3. Min(S) \in S /\ \A c \in S : Min(S) <= c
  <2> HIDE DEF S
  <2> QED BY <1>2, LeastExists
<1>4. Neighbours(b, Min(S))
  <2> DEFINE i == Min(S)
  <2> HIDE DEF i
  <2>1. i \in S /\ \A c \in S : i <= c
    BY <1>3 DEF i
  <2>2. Neighbours(b, i)
    BY <1>1, <2>1 DEF Neighbours
  <2> QED BY <2>2 DEF i
<1> QED BY <1>4 DEF Neighbours

\* A group is what is between two boundaries, as tokens and as text.
LEMMA GroupIs ==
  ASSUME script \in Scripts, NEW b, NEW i, Neighbours(b, i)
  PROVE  /\ b \in 0..Len(script) /\ i \in 1..(Len(script) + 1) /\ i - 1 \in b..Len(script)
         /\ Group(b) = SubSeq(script, b + 1, i - 1)
         /\ FlattenSeq(Group(b)) = SubSeq(Text, EndOf(b) + 1, EndOf(i - 1))
         /\ FlattenSeq(Group(b)) \in Seq(Chars)
<1>1. Bounds \in SUBSET (0..(Len(script) + 1)) /\ Len(script) \in Nat
  BY BoundsAre, ScriptText
<1>2. b \in 0..Len(script) /\ i \in 1..(Len(script) + 1) /\ i - 1 \in b..Len(script)
  BY <1>1 DEF Neighbours
<1> DEFINE S == {c \in Bounds : c > b}
<1>3. Min(S) = i
  <2>1. S \in SUBSET Nat /\ i \in S /\ \A c \in S : i <= c
    <3>1. \A c \in Bounds : c \in Nat
      BY BoundsAre
    <3>2. b \in Nat /\ i \in Bounds /\ i > b
      BY <1>2, <3>1 DEF Neighbours
    <3>3. \A c \in Bounds : c > b => c >= i
      BY <3>1, <3>2 DEF Neighbours
    <3> QED BY <3>1, <3>2, <3>3
  <2>2. Min(S) \in S /\ \A c \in S : Min(S) <= c
    <3> HIDE DEF S
    <3> QED BY <2>1, LeastExists
  <2> DEFINE m == Min(S)
  <2> HIDE DEF m, S
  <2>3. m \in Nat /\ i \in Nat /\ m <= i /\ i <= m
    BY <2>1, <2>2 DEF m
  <2>4. m = i
    BY <2>3
  <2> QED BY <2>4 DEF m
<1>4. Group(b) = SubSeq(script, b + 1, i - 1)
  BY <1>3 DEF Group
<1>5. script \in Seq(Seq(Chars))
  BY ScriptText, TokensAreTexts
<1>6. FlattenSeq(Group(b)) = SubSeq(Text, EndOf(b) + 1, EndOf(i - 1))
  BY <1>2, <1>4, <1>5, FlattenOfPart DEF EndOf, Text
<1>7. FlattenSeq(Group(b)) \in Seq(Chars)
  <2>1. Group(b) \in Seq(Seq(Chars))
    BY <1>2, <1>4, <1>5, PlaceOfPart
  <2> QED BY <2>1, FlattenPlaced
<1> QED BY <1>2, <1>4, <1>6, <1>7

\* It is well formed, and has no boundary in it.
LEMMA GroupTokens ==
  ASSUME script \in Scripts, NEW b, NEW i, Neighbours(b, i)
  PROVE  /\ Group(b) \in Seq(Tokens) /\ WellFormed(Group(b))
         /\ \A k \in 1..Len(Group(b)) : Group(b)[k] # Boundary
<1> DEFINE g == Group(b)
<1>1. /\ b \in 0..Len(script) /\ i \in 1..(Len(script) + 1) /\ i - 1 \in b..Len(script)
      /\ g = SubSeq(script, b + 1, i - 1)
  BY GroupIs
<1>2. script \in Seq(Tokens) /\ WellFormed(script) /\ Len(script) \in Nat /\ DOMAIN script = 1..Len(script)
  BY ScriptText
<1> HIDE DEF g
<1>3. /\ g \in Seq(Tokens) /\ Len(g) = i - 1 - b
      /\ \A k \in 1..(i - 1 - b) : g[k] = script[b + k]
  <2> DEFINE e == i - 1
  <2>1. g = SubSeq(script, b + 1, e) /\ b \in 0..Len(script) /\ e \in b..Len(script)
    BY <1>1
  <2> HIDE DEF e
  <2>2. /\ g \in Seq(Tokens) /\ Len(g) = e - b
        /\ \A k \in 1..(e - b) : g[k] = script[b + k]
    BY <1>2, <2>1, Cut
  <2> QED BY <2>2 DEF e
<1>4. DOMAIN g = 1..Len(g) /\ Len(g) \in Nat
  BY <1>3, LenProperties
<1>5. ASSUME NEW k \in 1..Len(g) PROVE g[k] # Boundary
  <2>1. b + k \in 1..Len(script) /\ g[k] = script[b + k] /\ b + k > b /\ b + k < i
    BY <1>1, <1>2, <1>3
  <2>2. b + k \notin Bounds
    <3> DEFINE c == b + k
    <3>1. c \in Int /\ b \in Int /\ i \in Int /\ b < c /\ c < i
      BY <1>1, <1>3, <2>1
    <3> HIDE DEF c
    <3>2. c \notin Bounds
      BY <3>1 DEF Neighbours
    <3> QED BY <3>2 DEF c
  <2> QED BY <2>1, <2>2, BoundsAre
<1>6. WellFormed(g)
  <2>1. ASSUME NEW k \in DOMAIN g \ {1}
        PROVE  /\ b + k \in DOMAIN script \ {1} /\ g[k] = script[b + k]
               /\ g[k - 1] = script[(b + k) - 1]
    <3>1. k \in 1..Len(g) /\ k - 1 \in 1..Len(g)
      BY <1>4
    <3>2. b + k \in DOMAIN script \ {1} /\ b + (k - 1) = (b + k) - 1
      <4>1. k \in Int /\ b \in Int /\ i \in Int /\ Len(script) \in Int
        BY <1>1, <1>2, <3>1
      <4>2. k > 1 /\ k <= i - 1 - b /\ b >= 0 /\ i - 1 <= Len(script)
        BY <1>1, <1>3, <3>1
      <4> QED BY <1>2, <4>1, <4>2
    <3> QED BY <1>3, <3>1, <3>2
  <2> QED BY <1>2, <2>1 DEF WellFormed
<1> QED BY <1>3, <1>5, <1>6 DEF g

\* A group is sent when it is no blank and more than comments.
Solid(c) == Strip(FlattenSeq(Group(c))) # <<>>

\* Of the groups that are no blanks those are sent that have a command.
LEMMA CommandsAreSent ==
  ASSUME script \in Scripts
  PROVE  {b \in {c \in Bounds : c < Len(script) + 1 /\ Solid(c)} :
            ~OnlyComments(Strip(FlattenSeq(Group(b))))} = Commands
<1>1. Bounds \in SUBSET (0..(Len(script) + 1)) /\ Len(script) \in Nat
  BY BoundsAre, ScriptText
<1>2. \A c \in Bounds : c < Len(script) + 1 <=> c # Len(script) + 1
  BY <1>1
<1>3. ASSUME NEW c \in Bounds, c # Len(script) + 1
      PROVE  HasCommand(Group(c)) <=> Solid(c) /\ ~OnlyComments(Strip(FlattenSeq(Group(c))))
  <2>1. PICK i \in Bounds : Neighbours(c, i)
    BY <1>3, NextBound
  <2>2. /\ Group(c) \in Seq(Tokens) /\ WellFormed(Group(c))
        /\ \A k \in 1..Len(Group(c)) : Group(c)[k] # Boundary
    BY <2>1, GroupTokens
  <2> DEFINE g == Group(c)
  <2> HIDE DEF g
  <2>3. HasCommand(g) <=> Strip(FlattenSeq(g)) # <<>> /\ ~OnlyComments(Strip(FlattenSeq(g)))
    BY <2>2, CommandIsSent, CommentsAreNotSent DEF g
  <2> QED BY <2>3 DEF g, Solid
<1> QED BY <1>2, <1>3 DEF Commands

\* What is emitted at a boundary is the group that ends there.
SolidBefore(i) == {c \in Bounds : c < i /\ Solid(c)}

LEMMA EmittedGroups ==
  ASSUME script \in Scripts, statements \in Seq(Seq(Chars)), NEW b, NEW i, Neighbours(b, i),
         buf = SubSeq(Text, EndOf(b) + 1, EndOf(i - 1)), AreGroups(statements, SolidBefore(b))
  PROVE  Emitted \in Seq(Seq(Chars)) /\ AreGroups(Emitted, SolidBefore(i))
<1>1. Bounds \in SUBSET Int /\ b \in Int /\ i \in Int /\ b \in Bounds /\ b < i
  BY BoundsAre DEF Neighbours
<1>2. buf = FlattenSeq(Group(b)) /\ buf \in Seq(Chars)
  BY GroupIs
<1>3. Strip(buf) \in Seq(Chars)
  BY <1>2, StripType
<1>4. SolidBefore(b) \in SUBSET Int /\ \A c \in SolidBefore(b) : c < b
  BY <1>1 DEF SolidBefore
<1>5. \A c \in Bounds : c \in Int /\ (c < i <=> c < b \/ c = b)
  <2> SUFFICES ASSUME NEW c \in Bounds PROVE c \in Int /\ (c < i <=> c < b \/ c = b)
    OBVIOUS
  <2>1. c \in Int /\ (c <= b \/ c >= i)
    BY <1>1 DEF Neighbours
  <2> QED BY <1>1, <2>1
<1>6. CASE Strip(buf) = <<>>
  <2>1. ~Solid(b)
    BY <1>2, <1>6 DEF Solid
  <2>2. SolidBefore(i) = SolidBefore(b)
    BY <1>1, <1>5, <2>1 DEF SolidBefore
  <2> QED BY <1>6, <2>2 DEF Emitted
<1>7. CASE Strip(buf) # <<>>
  <2>1. Solid(b)
    BY <1>2, <1>7 DEF Solid
  <2>2. SolidBefore(i) = SolidBefore(b) \union {b}
    BY <1>1, <1>5, <2>1 DEF SolidBefore
  <2>3. Emitted = Append(statements, Strip(FlattenSeq(Group(b))))
    BY <1>2, <1>7 DEF Emitted
  <2>4. Emitted \in Seq(Seq(Chars))
    BY <1>2, <1>3, <2>3, AppendProperties
  <2> QED BY <1>1, <1>4, <2>2, <2>3, <2>4, AreGroupsAppend
<1> QED BY <1>6, <1>7

-----------------------------------------------------------------------------
(***************************************************************************)
(* The scanner: what is ahead, and where it is.                            *)
(***************************************************************************)
LEMMA PrefixIs ==
  ASSUME NEW C, NEW s \in Seq(C), NEW r \in Seq(C)
  PROVE  IsPrefix(s, r) <=> Len(s) <= Len(r) /\ \A k \in 1..Len(s) : s[k] = r[k]
<1>1. Len(s) \in Nat /\ Len(r) \in Nat /\ SubSeq(s, 1, Len(s)) = s
  BY LenProperties, SubSeqFull
<1>2. ASSUME Len(s) <= Len(r)
      PROVE  s = SubSeq(r, 1, Len(s)) <=> \A k \in 1..Len(s) : s[k] = r[k]
  <2> DEFINE n == Len(s)
             p == SubSeq(r, 1, n)
  <2>1. p \in Seq(C) /\ Len(p) = n /\ \A k \in 1..n : p[k] = r[k]
    <3>1. 0 \in 0..Len(r) /\ n \in 0..Len(r)
      BY <1>1, <1>2
    <3>2. /\ SubSeq(r, 0 + 1, n) \in Seq(C) /\ Len(SubSeq(r, 0 + 1, n)) = n - 0
          /\ \A k \in 1..(n - 0) : SubSeq(r, 0 + 1, n)[k] = r[0 + k]
      BY <3>1, Cut
    <3>3. 0 + 1 = 1 /\ n - 0 = n /\ \A k \in 1..n : 0 + k = k
      BY <1>1
    <3> QED BY <3>2, <3>3
  <2> HIDE DEF p
  <2>2. s = p <=> \A k \in 1..n : s[k] = p[k]
    BY <2>1, SeqEqual
  <2>3. s = p <=> \A k \in 1..n : s[k] = r[k]
    BY <2>1, <2>2
  <2> QED BY <2>3 DEF p
<1> QED BY <1>1, <1>2 DEF IsPrefix

\* What is left to read.
LEMMA RestIs ==
  ASSUME SplitTypeOK
  PROVE  /\ Rest \in Seq(Chars) /\ Len(Rest) \in Nat /\ Len(Rest) = Len(Text) + 1 - pos
         /\ Len(Text) \in Nat /\ pos \in Nat /\ pos > 0
         /\ \A k \in 1..Len(Rest) : Rest[k] = Text[pos + k - 1]
         /\ Rest = <<>> <=> pos = Len(Text) + 1
<1>1. Text \in Seq(Chars) /\ Len(Text) \in Nat /\ pos \in 1..(Len(Text) + 1)
  BY ScriptText DEF SplitTypeOK
<1> HIDE DEF Text
<1>2. Len(Text) \in (pos - 1)..Len(Text)
  BY <1>1
<1>3. /\ Rest \in Seq(Chars) /\ Len(Rest) = Len(Text) - pos + 1
      /\ \A k \in 1..(Len(Text) - pos + 1) : Rest[k] = Text[pos + k - 1]
  BY <1>1, <1>2, Slice DEF Rest
<1> HIDE DEF Rest
<1>4. Rest = <<>> <=> Len(Rest) = 0
  BY <1>3, EmptySeq
<1> QED BY <1>1, <1>3, <1>4

LEMMA AheadIs ==
  ASSUME SplitTypeOK, NEW s \in Seq(Chars)
  PROVE  Ahead(s) <=> Len(s) <= Len(Rest) /\ \A k \in 1..Len(s) : s[k] = Rest[k]
BY RestIs, PrefixIs DEF Ahead

LEMMA OneAhead ==
  ASSUME SplitTypeOK, Rest # <<>>
  PROVE  /\ Len(Rest) > 0 /\ Head(Rest) = Rest[1]
         /\ <<Head(Rest)>> \in Seq(Chars) /\ Len(<<Head(Rest)>>) = 1 /\ <<Head(Rest)>>[1] = Rest[1]
<1>1. Rest \in Seq(Chars) /\ Len(Rest) \in Nat /\ Len(Rest) # 0
  BY RestIs, EmptySeq
<1>2. Head(Rest) = Rest[1] /\ Rest[1] \in Chars
  <2>1. 1 \in 1..Len(Rest)
    BY <1>1
  <2> QED BY <1>1, <2>1, HeadIsFirst, ElementOfSeq
<1> QED BY <1>1, <1>2

\* Where the scanner is, in or before the i-th token: the next character is at p, q tells
\* whether it is inside a literal, t is the delimiter of the block it is inside.
InLiteral(i, p, q, t) ==
  /\ i \in 1..Len(script) /\ IsLiteral(script[i])
  /\ q = TRUE /\ t = NoTag /\ p \in (EndOf(i - 1) + 2)..EndOf(i)
InBlock(i, p, q, t) ==
  /\ i \in 1..Len(script) /\ DelimitedBy(script[i], t)
  /\ q = FALSE /\ p \in (EndOf(i - 1) + Len(t) + 1)..(EndOf(i) - Len(t) + 1)
Before(i, p, q, t) == q = FALSE /\ t = NoTag /\ p = EndOf(i - 1) + 1
Inside(i, p, q, t) == Before(i, p, q, t) \/ InLiteral(i, p, q, t) \/ InBlock(i, p, q, t)

\* The newest boundary before a token.
Newest(b, i) == b \in Bounds /\ b < i /\ \A c \in Bounds : c <= b \/ c >= i

ScannedTo(p, q, t, text, pieces) ==
  \E i \in 1..(Len(script) + 1) : \E b \in Bounds :
    /\ Newest(b, i) /\ Inside(i, p, q, t)
    /\ text = SubSeq(Text, EndOf(b) + 1, p - 1)
    /\ AreGroups(pieces, SolidBefore(b))

\* A token that is no boundary leaves the newest one what it is.
LEMMA NewestIs ==
  ASSUME script \in Scripts, NEW i \in 1..(Len(script) + 1), NEW b, Newest(b, i)
  PROVE  /\ b \in 0..Len(script) /\ i - 1 \in 0..Len(script)
         /\ EndOf(b) \in Nat /\ EndOf(i - 1) \in Nat /\ EndOf(b) <= EndOf(i - 1)
         /\ (i \in Bounds => Neighbours(b, i))
         /\ (i \notin Bounds => Newest(b, i + 1))
<1>1. /\ Bounds \in SUBSET Int /\ Len(script) \in Nat
      /\ \A c \in Bounds : c \in Nat /\ c <= Len(script) + 1
  BY BoundsAre, ScriptText
<1>2. b \in 0..Len(script) /\ i - 1 \in 0..Len(script) /\ i - 1 \in b..Len(script)
  BY <1>1 DEF Newest
<1>3. EndOf(b) \in Nat /\ EndOf(i - 1) \in Nat
  BY <1>2, ScriptText
<1>4. EndOf(b) <= EndOf(i - 1)
  BY <1>2, ScriptText, PlacesGrow DEF EndOf
<1>5. i \notin Bounds => Newest(b, i + 1)
  <2> SUFFICES ASSUME i \notin Bounds, NEW c \in Bounds PROVE b < i + 1 /\ (c <= b \/ c >= i + 1)
    BY DEF Newest
  <2>1. c \in Int /\ c # i /\ (c <= b \/ c >= i) /\ b < i /\ b \in Int
    BY <1>1, <1>2 DEF Newest
  <2> QED BY <2>1
<1>6. i \in Bounds => Neighbours(b, i)
  BY DEF Newest, Neighbours
<1> QED BY <1>2, <1>3, <1>4, <1>5, <1>6

\* A piece that is copied was ahead, and joins what there is of the statement.
LEMMA CopyScans ==
  ASSUME SplitTypeOK, NEW i \in 1..(Len(script) + 1), NEW b, Newest(b, i),
         buf = SubSeq(Text, EndOf(b) + 1, pos - 1), pos > EndOf(i - 1),
         AreGroups(statements, SolidBefore(b)),
         NEW s \in Seq(Chars), Len(s) <= Len(Rest), \A k \in 1..Len(s) : s[k] = Rest[k],
         NEW q, NEW t, NEW j \in 1..(Len(script) + 1), j = i \/ (j = i + 1 /\ script[i] # Boundary),
         Inside(j, pos + Len(s), q, t)
  PROVE  /\ pos + Len(s) \in 1..(Len(Text) + 1) /\ buf \o s \in Seq(Chars)
         /\ ScannedTo(pos + Len(s), q, t, buf \o s, statements)
<1>1. /\ Rest \in Seq(Chars) /\ Len(Rest) \in Nat /\ Len(Rest) = Len(Text) + 1 - pos
      /\ Len(Text) \in Nat /\ pos \in Nat /\ pos > 0
      /\ \A k \in 1..Len(Rest) : Rest[k] = Text[pos + k - 1]
  BY RestIs
<1>2. script \in Scripts /\ buf \in Seq(Chars) /\ Text \in Seq(Chars) /\ Len(script) \in Nat
  BY ScriptText DEF SplitTypeOK
<1>3. Len(s) \in Nat
  BY LenProperties
<1>4. /\ EndOf(b) \in Nat /\ EndOf(i - 1) \in Nat /\ EndOf(b) <= EndOf(i - 1)
      /\ (i \notin Bounds => Newest(b, i + 1)) /\ b \in Bounds
  BY <1>2, NewestIs DEF Newest
<1> HIDE DEF Text, Rest
<1>5. pos + Len(s) \in 1..(Len(Text) + 1)
  BY <1>1, <1>3
<1>6. buf \o s = SubSeq(Text, EndOf(b) + 1, (pos + Len(s)) - 1)
  <2> DEFINE m == EndOf(b) + 1
             k == pos - 1
             n == (pos + Len(s)) - 1
  <2>1. m \in 1..(Len(Text) + 1) /\ k \in (m - 1)..Len(Text) /\ n \in k..Len(Text) /\ k + 1 = pos
    <3>1. /\ pos \in Int /\ EndOf(b) \in Int /\ EndOf(i - 1) \in Int /\ Len(s) \in Int /\ Len(Text) \in Int
          /\ EndOf(b) >= 0 /\ Len(s) >= 0
      BY <1>1, <1>3, <1>4
    <3>2. EndOf(b) <= pos - 1 /\ pos + Len(s) - 1 <= Len(Text)
      BY <1>1, <1>3, <1>4, <1>5
    <3>3. m \in 1..(Len(Text) + 1)
      BY <3>1, <3>2
    <3>4. k \in (m - 1)..Len(Text) /\ k + 1 = pos
      BY <3>1, <3>2
    <3>5. n \in k..Len(Text)
      BY <3>1, <3>2
    <3> QED BY <3>3, <3>4, <3>5
  <2>2. s = SubSeq(Text, pos, n)
    <3>1. pos \in 1..(Len(Text) + 1) /\ n \in (pos - 1)..Len(Text) /\ n - pos + 1 = Len(s)
      BY <1>1, <1>3, <2>1
    <3> HIDE DEF n
    <3>2. /\ SubSeq(Text, pos, n) \in Seq(Chars) /\ Len(SubSeq(Text, pos, n)) = Len(s)
          /\ \A l \in 1..Len(s) : SubSeq(Text, pos, n)[l] = Text[pos + l - 1]
      <4>1. /\ SubSeq(Text, pos, n) \in Seq(Chars) /\ Len(SubSeq(Text, pos, n)) = n - pos + 1
            /\ \A l \in 1..(n - pos + 1) : SubSeq(Text, pos, n)[l] = Text[pos + l - 1]
        BY <1>2, <3>1, Slice
      <4> QED BY <3>1, <4>1
    <3>3. \A l \in 1..Len(s) : l \in 1..Len(Rest)
      BY <1>1, <1>3
    <3>4. \A l \in 1..Len(s) : SubSeq(Text, pos, n)[l] = s[l]
      BY <1>1, <3>2, <3>3
    <3> QED BY <3>2, <3>4, SeqEqual
  <2>3. SubSeq(Text, m, k) \o SubSeq(Text, k + 1, n) = SubSeq(Text, m, n)
    <3> HIDE DEF m, k, n
    <3> QED BY <1>2, <2>1, ConcatAdjacentSubSeq
  <2> QED BY <2>1, <2>2, <2>3
<1>7. buf \o s \in Seq(Chars)
  BY <1>2, ConcatProperties
<1>8. Newest(b, j)
  <2>1. CASE j = i
    BY <2>1
  <2>2. CASE j = i + 1 /\ script[i] # Boundary
    <3>1. i \in 1..Len(script)
      BY <1>2, <2>2
    <3>2. i \notin Bounds
      BY <1>2, <2>2, <3>1, BoundsAre
    <3> QED BY <1>4, <2>2, <3>2
  <2> QED BY <2>1, <2>2
<1>9. ScannedTo(pos + Len(s), q, t, buf \o s, statements)
  <2> DEFINE p == pos + Len(s)
             text == buf \o s
  <2>1. Newest(b, j) /\ AreGroups(statements, SolidBefore(b)) /\ b \in Bounds
    BY <1>4, <1>8
  <2>2. Inside(j, p, q, t)
    OBVIOUS
  <2>3. text = SubSeq(Text, EndOf(b) + 1, p - 1)
    BY <1>6
  <2> HIDE DEF p, text
  <2>4. ScannedTo(p, q, t, text, statements)
    BY <2>1, <2>2, <2>3 DEF ScannedTo
  <2> QED BY <2>4 DEF p, text
<1> QED BY <1>5, <1>7, <1>9

\* What is ahead of a place in a token: the rest of it, then the next one.
LEMMA TokenAhead ==
  ASSUME SplitTypeOK, NEW i \in 1..Len(script), NEW j \in 1..Len(script[i]), pos = EndOf(i - 1) + j
  PROVE  /\ Len(script[i]) \in Nat /\ Len(script[i]) - j + 1 <= Len(Rest)
         /\ \A k \in 1..(Len(script[i]) - j + 1) : Rest[k] = script[i][j + k - 1]
         /\ i = Len(script) => Len(Rest) = Len(script[i]) - j + 1
         /\ i # Len(script) => /\ i + 1 \in 1..Len(script) /\ Len(Rest) >= Len(script[i]) - j + 2
                               /\ Rest[Len(script[i]) - j + 2] = script[i + 1][1]
<1> DEFINE t == script[i]
           n == Len(t)
           next == script[i + 1]
<1>1. /\ Len(Rest) \in Nat /\ Len(Rest) = Len(Text) + 1 - pos /\ Len(Text) \in Nat /\ pos \in Nat
      /\ \A k \in 1..Len(Rest) : Rest[k] = Text[pos + k - 1]
  BY RestIs
<1>2. /\ n \in Nat /\ EndOf(i) \in Nat /\ EndOf(i - 1) \in Nat /\ EndOf(i) = EndOf(i - 1) + n
      /\ EndOf(i) <= Len(Text) /\ \A k \in 1..n : Text[EndOf(i - 1) + k] = t[k]
  BY ScriptToken DEF SplitTypeOK
<1>3. Len(script) \in Nat /\ Len(Text) = EndOf(Len(script))
  BY ScriptText DEF SplitTypeOK
<1> HIDE DEF t, n
<1>4. j \in 1..n /\ j \in Int
  BY DEF n, t
<1>5. n - j + 1 <= Len(Rest)
  BY <1>1, <1>2, <1>4
<1>6. ASSUME NEW k \in 1..(n - j + 1) PROVE Rest[k] = t[j + k - 1]
  <2>1. k \in 1..Len(Rest) /\ j + k - 1 \in 1..n /\ pos + k - 1 = EndOf(i - 1) + (j + k - 1)
    <3>1. /\ k \in Int /\ k >= 1 /\ k <= n - j + 1 /\ n \in Int /\ j >= 1 /\ Len(Rest) \in Int
          /\ EndOf(i - 1) \in Int
      BY <1>1, <1>2, <1>4
    <3> QED BY <1>4, <1>5, <3>1
  <2>2. Rest[k] = Text[EndOf(i - 1) + (j + k - 1)]
    BY <1>1, <2>1
  <2> QED BY <1>2, <2>1, <2>2
<1>7. i = Len(script) => Len(Rest) = n - j + 1
  BY <1>1, <1>2, <1>3, <1>4
<1>8. ASSUME i # Len(script)
      PROVE  i + 1 \in 1..Len(script) /\ Len(Rest) >= n - j + 2 /\ Rest[n - j + 2] = next[1]
  <2>1. i + 1 \in 1..Len(script) /\ (i + 1) - 1 = i
    BY <1>3, <1>8
  <2>2. /\ Len(next) \in Nat /\ Len(next) # 0 /\ EndOf(i + 1) = EndOf(i) + Len(next)
        /\ EndOf(i + 1) <= Len(Text) /\ \A k \in 1..Len(next) : Text[EndOf(i) + k] = next[k]
    <3>1. /\ Len(next) \in Nat /\ Len(next) # 0 /\ EndOf(i + 1) = EndOf((i + 1) - 1) + Len(next)
          /\ EndOf(i + 1) <= Len(Text)
          /\ \A k \in 1..Len(next) : Text[EndOf((i + 1) - 1) + k] = next[k]
      BY <2>1, ScriptToken DEF SplitTypeOK
    <3> QED BY <2>1, <3>1
  <2> HIDE DEF next
  <2>3. 1 \in 1..Len(next) /\ EndOf(i) + 1 <= Len(Text)
    <3>1. 1 \in 1..Len(next)
      BY <2>2
    <3>2. EndOf(i) + Len(next) <= Len(Text) /\ EndOf(i) \in Nat /\ Len(next) \in Nat /\ Len(next) # 0
      BY <1>2, <2>2
    <3> QED BY <1>1, <3>1, <3>2
  <2>4. n - j + 2 \in 1..Len(Rest) /\ pos + (n - j + 2) - 1 = EndOf(i) + 1
    <3>1. /\ n \in Int /\ j >= 1 /\ j <= n /\ Len(Rest) \in Int /\ EndOf(i - 1) \in Int
          /\ EndOf(i) = EndOf(i - 1) + n /\ EndOf(i) + 1 <= Len(Text) /\ Len(Text) \in Int
          /\ Len(Rest) = Len(Text) + 1 - pos
      BY <1>1, <1>2, <1>4, <2>3
    <3> QED BY <1>4, <3>1
  <2>5. Rest[n - j + 2] = Text[EndOf(i) + 1]
    BY <1>1, <2>4
  <2> QED BY <1>1, <2>1, <2>2, <2>3, <2>4, <2>5
<1> QED BY <1>2, <1>5, <1>6, <1>7, <1>8 DEF n, t

ScanAt(i, b) ==
  /\ i \in 1..(Len(script) + 1) /\ Newest(b, i) /\ Inside(i, pos, quoted, tag)
  /\ buf = SubSeq(Text, EndOf(b) + 1, pos - 1)
  /\ AreGroups(statements, SolidBefore(b))

\* What a step has to keep, in the text of the script it does not change.
Moves ==
  /\ pos' \in 1..(Len(Text) + 1) /\ quoted' \in BOOLEAN
  /\ tag' \in Seq(Chars) /\ (tag' = NoTag \/ Delimiter(tag'))
  /\ buf' \in Seq(Chars) /\ statements' \in Seq(Seq(Chars))
  /\ ScannedTo(pos', quoted', tag', buf', statements')

\* Before the end the scanner is in or before a token.
LEMMA Where ==
  ASSUME SplitTypeOK, NEW i, NEW b, ScanAt(i, b), Rest # <<>>
  PROVE  /\ i \in 1..Len(script) /\ Len(script) \in Nat /\ pos > EndOf(i - 1)
         /\ script[i] \in Tokens /\ Len(script[i]) \in Nat /\ Len(script[i]) # 0
         /\ EndOf(i) \in Nat /\ EndOf(i - 1) \in Nat /\ EndOf(i) = EndOf(i - 1) + Len(script[i])
<1>1. /\ pos \in Nat /\ Len(Text) \in Nat /\ Rest # <<>> => pos # Len(Text) + 1
      /\ pos \in 1..(Len(Text) + 1)
  BY RestIs DEF SplitTypeOK
<1>2. Len(script) \in Nat /\ Len(Text) = EndOf(Len(script)) /\ script \in Scripts
  BY ScriptText DEF SplitTypeOK
<1>3. i \in 1..(Len(script) + 1) /\ Inside(i, pos, quoted, tag)
  BY DEF ScanAt
<1>4. Len(tag) \in Nat
  BY LenProperties DEF SplitTypeOK
<1>5. i - 1 \in 0..Len(script)
  BY <1>2, <1>3
<1>6. EndOf(i - 1) \in Nat
  BY <1>2, <1>5, ScriptText
<1>7. pos > EndOf(i - 1)
  BY <1>1, <1>4, <1>6, <1>3 DEF Inside, Before, InLiteral, InBlock
<1>8. i \in 1..Len(script)
  <2> SUFFICES ASSUME i = Len(script) + 1 PROVE FALSE
    BY <1>2, <1>3
  <2>1. i - 1 = Len(script)
    BY <1>2
  <2>2. EndOf(i - 1) = Len(Text)
    BY <1>2, <2>1
  <2> QED BY <1>1, <1>7, <2>2
<1> QED BY <1>2, <1>7, <1>8, ScriptToken

\* A piece that is copied whole and leaves the scanner in or before a token.
LEMMA CopyMoves ==
  ASSUME SplitTypeOK, NEW i, NEW b, ScanAt(i, b), Rest # <<>>,
         NEW s \in Seq(Chars), Len(s) <= Len(Rest), \A k \in 1..Len(s) : s[k] = Rest[k],
         Copy(s), statements' = statements,
         NEW j \in 1..(Len(script) + 1), j = i \/ (j = i + 1 /\ script[i] # Boundary),
         Inside(j, pos + Len(s), quoted', tag'),
         quoted' \in BOOLEAN, tag' \in Seq(Chars), tag' = NoTag \/ Delimiter(tag')
  PROVE  Moves
<1>1. i \in 1..(Len(script) + 1) /\ Newest(b, i) /\ buf = SubSeq(Text, EndOf(b) + 1, pos - 1)
  BY DEF ScanAt
<1>2. pos > EndOf(i - 1) /\ AreGroups(statements, SolidBefore(b))
  BY Where DEF ScanAt
<1>3. /\ pos + Len(s) \in 1..(Len(Text) + 1) /\ buf \o s \in Seq(Chars)
      /\ ScannedTo(pos + Len(s), quoted', tag', buf \o s, statements)
  BY <1>1, <1>2, CopyScans
<1>4. pos' = pos + Len(s) /\ buf' = buf \o s
  BY DEF Copy
<1>5. statements' \in Seq(Seq(Chars))
  BY DEF SplitTypeOK
<1> QED BY <1>3, <1>4, <1>5 DEF Moves

\* A step outside begins with a token.
LEMMA OutsideIs ==
  ASSUME SplitTypeOK, NEW i, NEW b, ScanAt(i, b), Outside
  PROVE  pos = EndOf(i - 1) + 1 /\ quoted = FALSE /\ tag = NoTag
<1>1. tag = NoTag /\ quoted = FALSE
  BY DEF Outside, SplitTypeOK
<1>2. ~ InBlock(i, pos, quoted, tag)
  BY <1>1 DEF InBlock, DelimitedBy, Delimiter, NoTag
<1>3. ~ InLiteral(i, pos, quoted, tag)
  BY <1>1 DEF InLiteral
<1> QED BY <1>1, <1>2, <1>3 DEF ScanAt, Inside, Before

\* What the scanner sees there.
LEMMA TokenSeen ==
  ASSUME SplitTypeOK, NEW i, NEW b, ScanAt(i, b), Outside, Rest # <<>>
  PROVE  /\ Len(script[i]) <= Len(Rest) /\ \A k \in 1..Len(script[i]) : Rest[k] = script[i][k]
         /\ Rest[1] = script[i][1]
         /\ i = Len(script) => Len(Rest) = Len(script[i])
         /\ i # Len(script) => /\ i + 1 \in 1..Len(script) /\ Len(Rest) >= Len(script[i]) + 1
                               /\ Rest[Len(script[i]) + 1] = script[i + 1][1]
                               /\ script[i + 1] \in Tokens /\ Head(script[i + 1]) = script[i + 1][1]
<1>1. /\ i \in 1..Len(script) /\ Len(script[i]) \in Nat /\ Len(script[i]) # 0
      /\ pos = EndOf(i - 1) + 1
  BY Where, OutsideIs
<1> DEFINE n == Len(script[i])
<1>2. 1 \in 1..n /\ n - 1 + 1 = n /\ n - 1 + 2 = n + 1 /\ \A k \in 1..n : 1 + k - 1 = k
  BY <1>1
<1>3. /\ n - 1 + 1 <= Len(Rest)
      /\ \A k \in 1..(n - 1 + 1) : Rest[k] = script[i][1 + k - 1]
      /\ i = Len(script) => Len(Rest) = n - 1 + 1
      /\ i # Len(script) => /\ i + 1 \in 1..Len(script) /\ Len(Rest) >= n - 1 + 2
                            /\ Rest[n - 1 + 2] = script[i + 1][1]
  BY <1>1, <1>2, TokenAhead
<1>4. i # Len(script) => script[i + 1] \in Tokens /\ Head(script[i + 1]) = script[i + 1][1]
  BY <1>3, ScriptToken, TokenKinds DEF SplitTypeOK
<1> HIDE DEF n
<1>5. /\ n <= Len(Rest) /\ \A k \in 1..n : Rest[k] = script[i][k]
      /\ i = Len(script) => Len(Rest) = n
      /\ i # Len(script) => /\ i + 1 \in 1..Len(script) /\ Len(Rest) >= n + 1
                            /\ Rest[n + 1] = script[i + 1][1]
  BY <1>2, <1>3
<1>6. Rest[1] = script[i][1]
  BY <1>2, <1>5
<1> QED BY <1>4, <1>5, <1>6 DEF n

\* A token that is copied whole.
LEMMA TokenCopied ==
  ASSUME SplitTypeOK, NEW i, NEW b, ScanAt(i, b), Outside, Rest # <<>>, script[i] # Boundary,
         NEW s \in Seq(Chars), Len(s) = Len(script[i]), \A k \in 1..Len(s) : s[k] = Rest[k],
         Copy(s), UNCHANGED <<quoted, tag, statements>>
  PROVE  Moves
<1>1. /\ i \in 1..Len(script) /\ Len(script) \in Nat /\ Len(script[i]) \in Nat
      /\ EndOf(i) = EndOf(i - 1) + Len(script[i]) /\ EndOf(i) \in Nat /\ EndOf(i - 1) \in Nat
  BY Where
<1>2. pos = EndOf(i - 1) + 1 /\ quoted = FALSE /\ tag = NoTag
  BY OutsideIs
<1>3. Len(s) <= Len(Rest)
  BY TokenSeen
<1>4. pos + Len(s) = EndOf((i + 1) - 1) + 1 /\ i + 1 \in 1..(Len(script) + 1)
  <2>1. (i + 1) - 1 = i
    BY <1>1
  <2> QED BY <1>1, <1>2, <2>1
<1>5. Inside(i + 1, pos + Len(s), quoted', tag')
  BY <1>2, <1>4 DEF Inside, Before
<1>6. quoted' \in BOOLEAN /\ tag' \in Seq(Chars) /\ (tag' = NoTag \/ Delimiter(tag'))
  BY DEF SplitTypeOK
<1> QED BY <1>3, <1>4, <1>5, <1>6, CopyMoves

-----------------------------------------------------------------------------
(***************************************************************************)
(* Each action keeps to the tokens.                                        *)
(***************************************************************************)
\* An opening quote is the first character of a literal.
LEMMA OpenLiteralMoves ==
  ASSUME SplitTypeOK, NEW i, NEW b, ScanAt(i, b), Rest # <<>>, OpenLiteral
  PROVE  Moves
<1>1. /\ Outside /\ Ahead(<<Quote>>) /\ Copy(<<Quote>>) /\ quoted' = TRUE
      /\ tag' = tag /\ statements' = statements
  BY DEF OpenLiteral
<1>2. <<Quote>> \in Seq(Chars) /\ Len(<<Quote>>) = 1 /\ <<Quote>>[1] = Quote
  BY DEF Chars, Special
<1>3. Len(<<Quote>>) <= Len(Rest) /\ \A k \in 1..Len(<<Quote>>) : <<Quote>>[k] = Rest[k]
  BY <1>1, <1>2, AheadIs
<1>4. Rest[1] = Quote
  BY <1>2, <1>3
<1>5. /\ i \in 1..Len(script) /\ Len(script) \in Nat /\ Len(script[i]) \in Nat /\ script[i] \in Tokens
      /\ EndOf(i) = EndOf(i - 1) + Len(script[i]) /\ EndOf(i) \in Nat /\ EndOf(i - 1) \in Nat
  BY Where
<1>6. IsLiteral(script[i]) /\ Len(script[i]) > 1
  <2>1. script[i][1] = Quote
    BY <1>1, <1>4, TokenSeen
  <2>2. IsLiteral(script[i])
    BY <1>5, <2>1, HeadTells
  <2> QED BY <2>2 DEF IsLiteral
<1>7. pos = EndOf(i - 1) + 1 /\ quoted = FALSE /\ tag = NoTag
  BY <1>1, OutsideIs
<1>8. Inside(i, pos + Len(<<Quote>>), quoted', tag')
  <2>1. pos + 1 \in (EndOf(i - 1) + 2)..EndOf(i)
    BY <1>5, <1>6, <1>7
  <2> QED BY <1>1, <1>2, <1>5, <1>6, <1>7, <2>1 DEF Inside, InLiteral
<1>9. /\ i \in 1..(Len(script) + 1) /\ quoted' \in BOOLEAN
      /\ tag' \in Seq(Chars) /\ (tag' = NoTag \/ Delimiter(tag'))
  BY <1>1, <1>5 DEF SplitTypeOK
<1> QED BY <1>1, <1>2, <1>3, <1>8, <1>9, CopyMoves

\* Two dashes outside are a comment, and what is copied is that comment.
LEMMA CopyCommentMoves ==
  ASSUME SplitTypeOK, NEW i, NEW b, ScanAt(i, b), Rest # <<>>, CopyComment
  PROVE  Moves
<1>1. Outside /\ Ahead(<<Dash, Dash>>) /\ UNCHANGED <<quoted, tag, statements>>
  BY DEF CopyComment
<1>2. PICK n \in 1..Len(Rest) : /\ \A k \in 1..n : Rest[k] # NewLine
                                /\ n < Len(Rest) => Rest[n + 1] = NewLine
                                /\ Copy(SubSeq(Rest, 1, n))
  BY DEF CopyComment
<1> DEFINE t == script[i]
           next == script[i + 1]
<1>3. i \in 1..Len(script) /\ Len(script) \in Nat /\ Len(t) \in Nat /\ Len(t) # 0 /\ t \in Tokens
  BY Where
<1>4. /\ Len(t) <= Len(Rest) /\ \A k \in 1..Len(t) : Rest[k] = t[k]
      /\ Rest[1] = t[1]
      /\ i = Len(script) => Len(Rest) = Len(t)
  BY <1>1, TokenSeen
<1>5. i # Len(script) => /\ i + 1 \in 1..Len(script) /\ Len(Rest) >= Len(t) + 1
                         /\ Rest[Len(t) + 1] = next[1] /\ Head(next) = next[1]
  BY <1>1, TokenSeen
<1>6. Rest \in Seq(Chars) /\ Len(Rest) \in Nat
  BY RestIs
<1>7. WellFormed(script) /\ DOMAIN script = 1..Len(script)
  BY ScriptText DEF SplitTypeOK
<1>8. i # Len(script) =>
        /\ IsComment(t) => next = <<NewLine>>
        /\ t = <<Dash>> => Head(next) # Dash
  <2> SUFFICES ASSUME i # Len(script)
               PROVE  (IsComment(t) => next = <<NewLine>>) /\ (t = <<Dash>> => Head(next) # Dash)
    OBVIOUS
  <2>1. i + 1 \in DOMAIN script \ {1} /\ (i + 1) - 1 = i
    <3>1. i \in Int /\ i >= 1 /\ i <= Len(script) /\ Len(script) \in Int
      BY <1>3
    <3>2. i + 1 \in 1..Len(script) /\ i + 1 # 1 /\ (i + 1) - 1 = i
      BY <3>1
    <3> QED BY <3>2, <1>7
  <2> QED BY <1>7, <2>1 DEF WellFormed
<1> HIDE DEF t, next
<1>9. Len(Rest) >= 2 /\ Rest[1] = Dash /\ Rest[2] = Dash
  <2>1. /\ <<Dash, Dash>> \in Seq(Chars) /\ Len(<<Dash, Dash>>) = 2
        /\ <<Dash, Dash>>[1] = Dash /\ <<Dash, Dash>>[2] = Dash
    BY DEF Chars, Special
  <2>2. Len(<<Dash, Dash>>) <= Len(Rest) /\ \A k \in 1..Len(<<Dash, Dash>>) : <<Dash, Dash>>[k] = Rest[k]
    BY <1>1, <2>1, AheadIs
  <2>3. 1 \in 1..2 /\ 2 \in 1..2
    OBVIOUS
  <2> QED BY <1>6, <2>1, <2>2, <2>3
<1>10. IsComment(t)
  <2> SUFFICES ASSUME t = <<Dash>> PROVE FALSE
    BY <1>3, <1>4, <1>9, HeadTells
  <2>1. Len(t) = 1
    OBVIOUS
  <2>2. i # Len(script)
    BY <1>4, <1>9, <2>1
  <2>3. Head(next) = Dash
    BY <1>5, <1>9, <2>1, <2>2
  <2> QED BY <1>8, <2>2, <2>3
<1>11. \A k \in 1..Len(t) : t[k] # NewLine
  <2>1. DOMAIN t = 1..Len(t)
    BY <1>3, TokenKinds, LenProperties
  <2> QED BY <1>10, <2>1 DEF IsComment
<1>12. n = Len(t)
  <2>1. ~ (n < Len(t))
    <3> SUFFICES ASSUME n < Len(t) PROVE FALSE
      OBVIOUS
    <3>1. n + 1 \in 1..Len(t) /\ n < Len(Rest)
      BY <1>3, <1>4, <1>6
    <3> QED BY <1>2, <1>4, <1>11, <3>1
  <2>2. ~ (Len(t) < n)
    <3> SUFFICES ASSUME Len(t) < n PROVE FALSE
      OBVIOUS
    <3>1. i # Len(script)
      BY <1>3, <1>4, <1>6
    <3>2. Rest[Len(t) + 1] = NewLine
      BY <1>5, <1>8, <1>10, <3>1
    <3>3. Len(t) + 1 \in 1..n
      BY <1>3, <1>6
    <3> QED BY <1>2, <3>2, <3>3
  <2> QED BY <1>3, <1>6, <2>1, <2>2
<1> DEFINE s == SubSeq(Rest, 1, n)
<1>13. s \in Seq(Chars) /\ Len(s) = n /\ \A k \in 1..n : s[k] = Rest[k]
  <2>1. 0 \in 0..Len(Rest) /\ n \in 0..Len(Rest) /\ 0 + 1 = 1 /\ n - 0 = n /\ \A k \in 1..n : 0 + k = k
    BY <1>6
  <2>2. /\ SubSeq(Rest, 0 + 1, n) \in Seq(Chars) /\ Len(SubSeq(Rest, 0 + 1, n)) = n - 0
        /\ \A k \in 1..(n - 0) : SubSeq(Rest, 0 + 1, n)[k] = Rest[0 + k]
    BY <1>6, <2>1, Cut
  <2> QED BY <2>1, <2>2
<1>14. Copy(s)
  BY <1>2
<1>15. t # Boundary
  BY <1>10 DEF IsComment, Boundary
<1> HIDE DEF s
<1> QED BY <1>1, <1>12, <1>13, <1>14, <1>15, TokenCopied DEF t

\* A delimiter outside opens the block it begins.
LEMMA OpenBlockMoves ==
  ASSUME SplitTypeOK, NEW i, NEW b, ScanAt(i, b), Rest # <<>>, OpenBlock
  PROVE  Moves
<1>1. Outside /\ quoted' = quoted /\ statements' = statements
  BY DEF OpenBlock
<1>2. Rest \in Seq(Chars) /\ Len(Rest) \in Nat /\ DOMAIN Rest = 1..Len(Rest)
  BY RestIs, LenProperties
<1>3. PICK m \in 1..Len(Rest) : /\ Delimiter(SubSeq(Rest, 1, m))
                                /\ Copy(SubSeq(Rest, 1, m)) /\ tag' = SubSeq(Rest, 1, m)
  BY <1>2 DEF OpenBlock
<1> DEFINE d == SubSeq(Rest, 1, m)
           t == script[i]
           next == script[i + 1]
<1>4. d \in Seq(Chars) /\ Len(d) = m /\ \A k \in 1..m : d[k] = Rest[k]
  <2>1. 0 \in 0..Len(Rest) /\ m \in 0..Len(Rest) /\ 0 + 1 = 1 /\ m - 0 = m /\ \A k \in 1..m : 0 + k = k
    BY <1>2
  <2>2. /\ SubSeq(Rest, 0 + 1, m) \in Seq(Chars) /\ Len(SubSeq(Rest, 0 + 1, m)) = m - 0
        /\ \A k \in 1..(m - 0) : SubSeq(Rest, 0 + 1, m)[k] = Rest[0 + k]
    BY <1>2, <2>1, Cut
  <2> QED BY <2>1, <2>2
<1>5. Delimiter(d) /\ Copy(d) /\ tag' = d
  BY <1>3
<1>6. /\ i \in 1..Len(script) /\ Len(script) \in Nat /\ Len(t) \in Nat /\ Len(t) # 0 /\ t \in Tokens
      /\ EndOf(i) = EndOf(i - 1) + Len(t) /\ EndOf(i) \in Nat /\ EndOf(i - 1) \in Nat
  BY Where
<1>7. /\ Len(t) <= Len(Rest) /\ \A k \in 1..Len(t) : Rest[k] = t[k]
      /\ Rest[1] = t[1]
      /\ i = Len(script) => Len(Rest) = Len(t)
  BY <1>1, TokenSeen
<1>8. i # Len(script) => /\ i + 1 \in 1..Len(script) /\ Len(Rest) >= Len(t) + 1
                         /\ Rest[Len(t) + 1] = next[1] /\ Head(next) = next[1]
  BY <1>1, TokenSeen
<1>9. i # Len(script) /\ t = <<Dollar>> => Head(next) \notin Letters \union {Dollar}
  <2> SUFFICES ASSUME i # Len(script), t = <<Dollar>> PROVE Head(next) \notin Letters \union {Dollar}
    OBVIOUS
  <2>1. WellFormed(script) /\ DOMAIN script = 1..Len(script)
    BY ScriptText DEF SplitTypeOK
  <2>2. i + 1 \in DOMAIN script \ {1} /\ (i + 1) - 1 = i
    <3>1. i \in Int /\ i >= 1 /\ i <= Len(script) /\ Len(script) \in Int
      BY <1>6
    <3>2. i + 1 \in 1..Len(script) /\ i + 1 # 1 /\ (i + 1) - 1 = i
      BY <3>1
    <3> QED BY <3>2, <2>1
  <2> QED BY <2>1, <2>2 DEF WellFormed
<1> HIDE DEF d, t, next
<1>10. m > 1 /\ d[1] = Dollar /\ d[m] = Dollar /\ \A k \in 2..(m - 1) : d[k] \in Letters
  BY <1>4, <1>5 DEF Delimiter
<1>11. Dollar \notin Letters
  BY KindsApart DEF Special
<1>12. IsBlock(t)
  <2> SUFFICES ASSUME t = <<Dollar>> PROVE FALSE
    <3>1. 1 \in 1..m
      BY <1>2
    <3>2. t[1] = Dollar
      BY <1>4, <1>7, <1>10, <3>1
    <3> QED BY <1>6, <3>2, HeadTells
  <2>1. Len(t) = 1
    OBVIOUS
  <2>2. i # Len(script) /\ 2 \in 1..m
    BY <1>2, <1>7, <1>10, <2>1
  <2>3. Head(next) = d[2]
    BY <1>4, <1>8, <2>1, <2>2
  <2>4. d[2] \in Letters \union {Dollar}
    BY <1>2, <1>10
  <2> QED BY <1>9, <2>2, <2>3, <2>4
<1>13. t \in Seq(Chars)
  BY <1>6, TokenKinds
<1>14. PICK e \in Seq(Chars) : DelimitedBy(t, e)
  BY <1>12, <1>13, BlockDelimiter
<1>15. /\ Len(e) \in Nat /\ Len(e) > 1 /\ Len(t) >= 2 * Len(e)
       /\ \A k \in 1..Len(e) : t[k] = e[k]
       /\ t[1] = Dollar /\ t[Len(e)] = Dollar /\ \A k \in 2..(Len(e) - 1) : t[k] \in Letters
  BY <1>13, <1>14, BlockParts
<1>16. m = Len(e)
  <2>1. ~ (m < Len(e))
    <3> SUFFICES ASSUME m < Len(e) PROVE FALSE
      OBVIOUS
    <3>1. m \in 2..(Len(e) - 1) /\ m \in 1..Len(t) /\ m \in 1..m
      BY <1>2, <1>6, <1>10, <1>15
    <3> QED BY <1>4, <1>7, <1>10, <1>11, <1>15, <3>1
  <2>2. ~ (Len(e) < m)
    <3> SUFFICES ASSUME Len(e) < m PROVE FALSE
      OBVIOUS
    <3>1. Len(e) \in 2..(m - 1) /\ Len(e) \in 1..Len(t) /\ Len(e) \in 1..m
      BY <1>2, <1>6, <1>10, <1>15
    <3> QED BY <1>4, <1>7, <1>10, <1>11, <1>15, <3>1
  <2> QED BY <1>2, <1>15, <2>1, <2>2
<1>17. d = e
  <2>1. \A k \in 1..m : d[k] = e[k]
    <3>1. \A k \in 1..m : k \in 1..Len(t)
      BY <1>2, <1>6, <1>15, <1>16
    <3> QED BY <1>4, <1>7, <1>15, <1>16, <3>1
  <2> QED BY <1>4, <1>16, <2>1, SeqEqual
<1>18. pos = EndOf(i - 1) + 1 /\ quoted = FALSE /\ tag = NoTag
  BY <1>1, OutsideIs
<1>19. Inside(i, pos + Len(d), quoted', tag')
  <2>1. pos + m \in (EndOf(i - 1) + m + 1)..(EndOf(i) - m + 1)
    <3>1. /\ m \in Int /\ m > 1 /\ Len(t) \in Int /\ Len(t) >= 2 * m /\ EndOf(i - 1) \in Int
          /\ EndOf(i) = EndOf(i - 1) + Len(t)
      BY <1>6, <1>10, <1>15, <1>16
    <3> QED BY <1>18, <3>1
  <2>2. InBlock(i, pos + Len(d), quoted', tag')
    BY <1>1, <1>4, <1>5, <1>6, <1>14, <1>17, <1>18, <2>1 DEF InBlock, t
  <2> QED BY <2>2 DEF Inside
<1>20. /\ i \in 1..(Len(script) + 1) /\ quoted' \in BOOLEAN
       /\ tag' \in Seq(Chars) /\ (tag' = NoTag \/ Delimiter(tag'))
  BY <1>1, <1>4, <1>5, <1>6 DEF SplitTypeOK
<1>21. Len(d) <= Len(Rest) /\ \A k \in 1..Len(d) : d[k] = Rest[k]
  BY <1>2, <1>4
<1> QED BY <1>1, <1>4, <1>5, <1>19, <1>20, <1>21, CopyMoves

\* Anything else outside is a token of one character.
LEMMA CopyOtherMoves ==
  ASSUME SplitTypeOK, NEW i, NEW b, ScanAt(i, b), Rest # <<>>, CopyOther
  PROVE  Moves
<1>1. /\ Outside /\ ~Ahead(<<Quote>>) /\ ~Ahead(<<Dash, Dash>>) /\ ~Ahead(Boundary)
      /\ Copy(<<Head(Rest)>>) /\ UNCHANGED <<quoted, tag, statements>>
  BY DEF CopyOther
<1>2. \A m \in 1..Len(Rest) : ~Delimiter(SubSeq(Rest, 1, m))
  BY RestIs, LenProperties DEF CopyOther
<1> DEFINE t == script[i]
<1>3. i \in 1..Len(script) /\ Len(t) \in Nat /\ Len(t) # 0 /\ t \in Tokens
  BY Where
<1>4. Len(t) <= Len(Rest) /\ (\A k \in 1..Len(t) : Rest[k] = t[k]) /\ Rest[1] = t[1]
  BY <1>1, TokenSeen
<1>5. Rest \in Seq(Chars) /\ Len(Rest) \in Nat
  BY RestIs
<1> HIDE DEF t
<1>6. t \in Seq(Chars)
  BY <1>3, TokenKinds
<1>7. 1 \in 1..Len(t) /\ Len(Rest) >= 1
  BY <1>3, <1>4, <1>5
<1>8. t # Boundary
  <2> SUFFICES ASSUME t = Boundary PROVE FALSE
    OBVIOUS
  <2> QED BY <1>1, <1>4, <1>6, AheadIs
<1>9. ~IsComment(t)
  <2> SUFFICES ASSUME IsComment(t) PROVE FALSE
    OBVIOUS
  <2>1. /\ <<Dash, Dash>> \in Seq(Chars) /\ Len(<<Dash, Dash>>) = 2
        /\ <<Dash, Dash>>[1] = Dash /\ <<Dash, Dash>>[2] = Dash
    BY DEF Chars, Special
  <2>2. Len(t) > 1 /\ t[1] = Dash /\ t[2] = Dash
    BY DEF IsComment
  <2>3. 1 \in 1..Len(t) /\ 2 \in 1..Len(t) /\ 2 <= Len(Rest) /\ \A k \in 1..2 : k = 1 \/ k = 2
    BY <1>3, <1>4, <1>5, <2>2
  <2>4. \A k \in 1..2 : <<Dash, Dash>>[k] = Rest[k]
    BY <1>4, <2>1, <2>2, <2>3
  <2> QED BY <1>1, <2>1, <2>3, <2>4, AheadIs
<1>10. ~IsLiteral(t)
  <2> SUFFICES ASSUME IsLiteral(t) PROVE FALSE
    OBVIOUS
  <2>1. <<Quote>> \in Seq(Chars) /\ Len(<<Quote>>) = 1 /\ <<Quote>>[1] = Quote
    BY DEF Chars, Special
  <2>2. t[1] = Quote
    BY <1>3, HeadTells
  <2>3. \A k \in 1..1 : <<Quote>>[k] = Rest[k]
    BY <1>4, <2>1, <2>2
  <2> QED BY <1>1, <1>7, <2>1, <2>3, AheadIs
<1>11. ~IsBlock(t)
  <2> SUFFICES ASSUME IsBlock(t) PROVE FALSE
    OBVIOUS
  <2>1. PICK e \in Seq(Chars) : DelimitedBy(t, e)
    BY <1>6, BlockDelimiter
  <2>2. /\ Len(e) \in Nat /\ Len(e) > 1 /\ Len(t) >= 2 * Len(e)
        /\ \A k \in 1..Len(e) : t[k] = e[k]
    BY <1>6, <2>1, BlockParts
  <2> DEFINE m == Len(e)
             d == SubSeq(Rest, 1, m)
  <2>3. m \in 1..Len(Rest) /\ m <= Len(t)
    BY <1>3, <1>4, <1>5, <2>2
  <2>4. d \in Seq(Chars) /\ Len(d) = m /\ \A k \in 1..m : d[k] = Rest[k]
    <3>1. 0 \in 0..Len(Rest) /\ m \in 0..Len(Rest) /\ 0 + 1 = 1 /\ m - 0 = m /\ \A k \in 1..m : 0 + k = k
      BY <1>5, <2>3
    <3>2. /\ SubSeq(Rest, 0 + 1, m) \in Seq(Chars) /\ Len(SubSeq(Rest, 0 + 1, m)) = m - 0
          /\ \A k \in 1..(m - 0) : SubSeq(Rest, 0 + 1, m)[k] = Rest[0 + k]
      BY <1>5, <3>1, Cut
    <3> QED BY <3>1, <3>2
  <2> HIDE DEF d
  <2>5. \A k \in 1..m : d[k] = e[k]
    <3>1. \A k \in 1..m : k \in 1..Len(t)
      BY <1>3, <2>3
    <3> QED BY <1>4, <2>2, <2>4, <3>1
  <2>6. d = e
    BY <2>4, <2>5, SeqEqual
  <2>7. Delimiter(e)
    BY <2>1 DEF DelimitedBy
  <2> QED BY <1>2, <2>3, <2>6, <2>7 DEF d
<1>12. Len(t) = 1
  BY <1>3, <1>8, <1>9, <1>10, <1>11, TokenKinds
<1>13. /\ <<Head(Rest)>> \in Seq(Chars) /\ Len(<<Head(Rest)>>) = 1
       /\ \A k \in 1..Len(<<Head(Rest)>>) : <<Head(Rest)>>[k] = Rest[k]
  <2>1. <<Head(Rest)>> \in Seq(Chars) /\ Len(<<Head(Rest)>>) = 1 /\ <<Head(Rest)>>[1] = Rest[1]
    BY OneAhead
  <2>2. \A k \in 1..1 : k = 1
    OBVIOUS
  <2> QED BY <2>1, <2>2
<1> QED BY <1>1, <1>8, <1>12, <1>13, TokenCopied DEF t

\* A quote that is not doubled ends the literal, a doubled one goes on in the next.
LEMMA ScanLiteralMoves ==
  ASSUME SplitTypeOK, NEW i, NEW b, ScanAt(i, b), Rest # <<>>, ScanLiteral
  PROVE  Moves
<1>1. quoted = TRUE /\ tag = NoTag /\ tag' = tag /\ statements' = statements
  BY DEF ScanLiteral, SplitTypeOK
<1> DEFINE t == script[i]
           n == Len(t)
           next == script[i + 1]
           j == pos - EndOf(i - 1)
<1>2. /\ i \in 1..Len(script) /\ Len(script) \in Nat /\ n \in Nat /\ n # 0 /\ t \in Tokens
      /\ EndOf(i) = EndOf(i - 1) + n /\ EndOf(i) \in Nat /\ EndOf(i - 1) \in Nat
  BY Where
<1>3. IsLiteral(t) /\ pos \in (EndOf(i - 1) + 2)..EndOf(i)
  BY <1>1 DEF ScanAt, Inside, Before, InLiteral, InBlock
<1>4. /\ n > 1 /\ \A k \in 1..n : t[k] = Quote <=> k \in {1, n}
  <2>1. DOMAIN t = 1..n
    BY <1>2, TokenKinds, LenProperties
  <2> QED BY <1>3, <2>1 DEF IsLiteral
<1>5. j \in 2..n /\ j \in 1..n /\ pos = EndOf(i - 1) + j /\ pos \in Int
  <2> HIDE DEF n, t
  <2> QED BY <1>2, <1>3
<1> HIDE DEF j
<1>6. /\ n - j + 1 <= Len(Rest)
      /\ \A k \in 1..(n - j + 1) : Rest[k] = t[j + k - 1]
      /\ i = Len(script) => Len(Rest) = n - j + 1
      /\ i # Len(script) => /\ i + 1 \in 1..Len(script) /\ Len(Rest) >= n - j + 2
                            /\ Rest[n - j + 2] = next[1]
  BY <1>2, <1>5, TokenAhead
<1>7. Len(Rest) \in Nat /\ Len(Rest) > 0
  BY RestIs, OneAhead
<1> HIDE DEF t, n
<1>8. Rest[1] = t[j]
  <2>1. 1 \in 1..(n - j + 1) /\ j + 1 - 1 = j
    BY <1>2, <1>5
  <2> QED BY <1>6, <2>1
<1>9. Rest[1] = Quote <=> j = n
  BY <1>2, <1>4, <1>5, <1>8
<1>10. t # Boundary
  <2>1. Len(Boundary) = 1
    BY DEF Boundary
  <2> QED BY <1>4, <2>1 DEF n
<1>11. /\ tag' \in Seq(Chars) /\ (tag' = NoTag \/ Delimiter(tag'))
       /\ i \in 1..(Len(script) + 1) /\ i + 1 \in 1..(Len(script) + 1) /\ (i + 1) - 1 = i
  BY <1>1, <1>2 DEF SplitTypeOK
<1>12. /\ <<Quote, Quote>> \in Seq(Chars) /\ Len(<<Quote, Quote>>) = 2
       /\ <<Quote, Quote>>[1] = Quote /\ <<Quote, Quote>>[2] = Quote
  BY DEF Chars, Special
<1>13. CASE Ahead(<<Quote, Quote>>)
  <2>1. Copy(<<Quote, Quote>>) /\ quoted' = TRUE
    BY <1>1, <1>13 DEF ScanLiteral
  <2>2. /\ Len(<<Quote, Quote>>) <= Len(Rest)
        /\ \A k \in 1..Len(<<Quote, Quote>>) : <<Quote, Quote>>[k] = Rest[k]
    BY <1>12, <1>13, AheadIs
  <2>3. Len(Rest) >= 2 /\ Rest[1] = Quote /\ Rest[2] = Quote
    <3>1. 1 \in 1..2 /\ 2 \in 1..2
      OBVIOUS
    <3> QED BY <1>7, <1>12, <2>2, <3>1
  <2>4. j = n /\ n - j + 1 = 1 /\ n - j + 2 = 2
    BY <1>2, <1>9, <2>3
  <2>5. i # Len(script)
    BY <1>6, <1>7, <2>3, <2>4
  <2>6. i + 1 \in 1..Len(script) /\ next[1] = Quote
    BY <1>6, <2>3, <2>4, <2>5
  <2>7. /\ next \in Tokens /\ Len(next) \in Nat /\ Len(next) # 0
        /\ EndOf(i + 1) = EndOf(i) + Len(next)
    <3>1. /\ next \in Tokens /\ Len(next) \in Nat /\ Len(next) # 0
          /\ EndOf(i + 1) = EndOf((i + 1) - 1) + Len(next)
      BY <2>6, ScriptToken DEF SplitTypeOK
    <3> QED BY <1>11, <3>1
  <2>8. IsLiteral(next) /\ Len(next) > 1
    <3>1. IsLiteral(next)
      BY <2>6, <2>7, HeadTells
    <3> QED BY <3>1 DEF IsLiteral
  <2> HIDE DEF next
  <2>9. Inside(i + 1, pos + Len(<<Quote, Quote>>), quoted', tag')
    <3>1. pos + 2 \in (EndOf(i) + 2)..EndOf(i + 1)
      BY <1>2, <1>5, <2>4, <2>7, <2>8
    <3>2. pos + 2 \in (EndOf((i + 1) - 1) + 2)..EndOf(i + 1)
      BY <1>11, <3>1
    <3> QED BY <1>1, <1>12, <2>1, <2>6, <2>8, <3>2 DEF Inside, InLiteral, next
  <2>10. script[i] # Boundary
    BY <1>10 DEF t
  <2> QED BY <1>1, <1>11, <1>12, <2>1, <2>2, <2>9, <2>10, CopyMoves
<1>14. CASE ~Ahead(<<Quote, Quote>>)
  <2>1. Copy(<<Head(Rest)>>) /\ quoted' = (Head(Rest) # Quote)
    BY <1>14 DEF ScanLiteral
  <2> DEFINE s == <<Head(Rest)>>
  <2>2. s \in Seq(Chars) /\ Len(s) = 1 /\ s[1] = Rest[1] /\ Head(Rest) = Rest[1]
    BY OneAhead
  <2>3. Copy(s)
    BY <2>1
  <2> HIDE DEF s
  <2>4. Len(s) <= Len(Rest) /\ \A k \in 1..Len(s) : s[k] = Rest[k]
    <3>1. \A k \in 1..1 : k = 1
      OBVIOUS
    <3> QED BY <1>7, <2>2, <3>1
  <2>5. CASE j = n
    <3>1. quoted' = FALSE
      BY <1>9, <2>1, <2>2, <2>5
    <3>2. pos + 1 = EndOf((i + 1) - 1) + 1
      BY <1>2, <1>5, <1>11, <2>5
    <3>3. Inside(i + 1, pos + Len(s), quoted', tag')
      BY <1>1, <2>2, <3>1, <3>2 DEF Inside, Before
    <3>4. script[i] # Boundary /\ quoted' \in BOOLEAN
      BY <1>10, <3>1 DEF t
    <3> QED BY <1>1, <1>11, <2>2, <2>3, <2>4, <3>3, <3>4, CopyMoves
  <2>6. CASE j # n
    <3>1. quoted' = TRUE
      BY <1>9, <2>1, <2>2, <2>6
    <3>2. pos + 1 \in (EndOf(i - 1) + 2)..EndOf(i)
      BY <1>2, <1>5, <2>6
    <3>3. Inside(i, pos + Len(s), quoted', tag')
      BY <1>1, <1>2, <1>3, <2>2, <3>1, <3>2 DEF Inside, InLiteral, t
    <3>4. quoted' \in BOOLEAN
      BY <3>1
    <3> QED BY <1>1, <1>11, <2>2, <2>3, <2>4, <3>3, <3>4, CopyMoves
  <2> QED BY <2>5, <2>6
<1> QED BY <1>13, <1>14

\* The block ends where its delimiter is ahead, and nowhere before.
LEMMA ScanBlockMoves ==
  ASSUME SplitTypeOK, NEW i, NEW b, ScanAt(i, b), Rest # <<>>, ScanBlock
  PROVE  Moves
<1>1. tag # NoTag /\ quoted' = quoted /\ statements' = statements
  BY DEF ScanBlock
<1> DEFINE t == script[i]
           n == Len(t)
           m == Len(tag)
           j == pos - EndOf(i - 1)
<1>2. /\ i \in 1..Len(script) /\ Len(script) \in Nat /\ n \in Nat /\ n # 0 /\ t \in Tokens
      /\ EndOf(i) = EndOf(i - 1) + n /\ EndOf(i) \in Nat /\ EndOf(i - 1) \in Nat
  BY Where
<1>3. /\ DelimitedBy(t, tag) /\ quoted = FALSE
      /\ pos \in (EndOf(i - 1) + m + 1)..(EndOf(i) - m + 1)
  BY <1>1 DEF ScanAt, Inside, Before, InLiteral, InBlock
<1>4. t \in Seq(Chars) /\ tag \in Seq(Chars)
  BY <1>2, TokenKinds DEF SplitTypeOK
<1>5. m \in Nat /\ m > 1 /\ n >= 2 * m
  BY <1>3, <1>4, BlockParts
<1>6. \A k \in (m + 1)..(n - m + 1) : SubSeq(t, k, k + m - 1) = tag <=> k = n - m + 1
  BY <1>3 DEF DelimitedBy
<1> HIDE DEF m, n
<1>7. /\ j \in (m + 1)..(n - m + 1) /\ j \in 1..n /\ pos = EndOf(i - 1) + j /\ pos \in Int
      /\ j \in Int /\ j <= n - m + 1
  <2>1. /\ EndOf(i - 1) \in Int /\ EndOf(i) \in Int /\ m \in Int /\ n \in Int /\ m > 1
        /\ pos \in Int /\ pos >= EndOf(i - 1) + m + 1 /\ pos <= EndOf(i) - m + 1
    BY <1>2, <1>3, <1>5
  <2>2. pos = EndOf(i - 1) + j /\ j \in Int
    BY <2>1
  <2> HIDE DEF j
  <2>3. j >= m + 1 /\ j <= n - m + 1
    BY <1>2, <2>1, <2>2
  <2> QED BY <2>1, <2>2, <2>3
<1> HIDE DEF j
<1>8. /\ n - j + 1 <= Len(Rest)
      /\ \A k \in 1..(n - j + 1) : Rest[k] = t[j + k - 1]
  BY <1>2, <1>7, TokenAhead DEF n
<1>9. Len(Rest) \in Nat /\ Len(Rest) > 0
  BY RestIs, OneAhead
<1> HIDE DEF t
<1>10. m <= Len(Rest) /\ \A k \in 1..m : k \in 1..(n - j + 1)
  BY <1>2, <1>5, <1>7, <1>8, <1>9
<1>11. Ahead(tag) <=> SubSeq(t, j, j + m - 1) = tag
  <2> DEFINE e == j + m - 1
             w == SubSeq(t, j, e)
  <2>1. /\ w \in Seq(Chars) /\ Len(w) = m
        /\ \A k \in 1..m : w[k] = t[j + k - 1]
    <3>1. j \in 1..(Len(t) + 1) /\ e \in (j - 1)..Len(t) /\ e - j + 1 = m
      BY <1>2, <1>5, <1>7 DEF n
    <3> HIDE DEF e
    <3>2. /\ w \in Seq(Chars) /\ Len(w) = e - j + 1
          /\ \A k \in 1..(e - j + 1) : w[k] = t[j + k - 1]
      BY <1>4, <3>1, Slice
    <3> HIDE DEF w
    <3> QED BY <3>1, <3>2
  <2> HIDE DEF w, e
  <2>2. \A k \in 1..m : w[k] = Rest[k]
    BY <1>8, <1>10, <2>1
  <2>3. Ahead(tag) <=> \A k \in 1..m : tag[k] = Rest[k]
    BY <1>4, <1>10, AheadIs DEF m
  <2>4. w = tag <=> \A k \in 1..m : w[k] = tag[k]
    BY <1>4, <2>1, SeqEqual DEF m
  <2>5. Ahead(tag) <=> w = tag
    BY <2>2, <2>3, <2>4
  <2> QED BY <2>5 DEF w, e
<1>12. Ahead(tag) <=> j = n - m + 1
  BY <1>6, <1>7, <1>11
<1>13. t # Boundary
  <2>1. Len(Boundary) = 1
    BY DEF Boundary
  <2>2. n # 1
    BY <1>2, <1>5
  <2> QED BY <2>1, <2>2 DEF n
<1>14. /\ i \in 1..(Len(script) + 1) /\ i + 1 \in 1..(Len(script) + 1) /\ (i + 1) - 1 = i
       /\ quoted' \in BOOLEAN /\ script[i] # Boundary
  <2>1. i \in 1..(Len(script) + 1) /\ i + 1 \in 1..(Len(script) + 1) /\ (i + 1) - 1 = i
    BY <1>2
  <2> QED BY <1>1, <1>3, <1>13, <2>1 DEF t
<1>15. CASE Ahead(tag)
  <2>1. Copy(tag) /\ tag' = NoTag
    BY <1>15 DEF ScanBlock
  <2>2. Len(tag) <= Len(Rest) /\ \A k \in 1..Len(tag) : tag[k] = Rest[k]
    BY <1>4, <1>15, AheadIs
  <2>3. pos + Len(tag) = EndOf((i + 1) - 1) + 1
    <3>1. pos + m = EndOf(i) + 1
      BY <1>2, <1>5, <1>7, <1>12, <1>15
    <3> QED BY <1>14, <3>1 DEF m
  <2>4. Inside(i + 1, pos + Len(tag), quoted', tag')
    BY <1>1, <1>3, <2>1, <2>3 DEF Inside, Before
  <2>5. tag' \in Seq(Chars)
    BY <2>1 DEF NoTag
  <2> QED BY <1>1, <1>4, <1>14, <2>1, <2>2, <2>4, <2>5, CopyMoves
<1>16. CASE ~Ahead(tag)
  <2>1. Copy(<<Head(Rest)>>) /\ tag' = tag
    BY <1>16 DEF ScanBlock
  <2> DEFINE s == <<Head(Rest)>>
  <2>2. s \in Seq(Chars) /\ Len(s) = 1 /\ s[1] = Rest[1]
    BY OneAhead
  <2>3. Copy(s)
    BY <2>1
  <2> HIDE DEF s
  <2>4. Len(s) <= Len(Rest) /\ \A k \in 1..Len(s) : s[k] = Rest[k]
    <3>1. \A k \in 1..1 : k = 1
      OBVIOUS
    <3> QED BY <1>9, <2>2, <3>1
  <2>5. Inside(i, pos + Len(s), quoted', tag')
    <3>1. pos + 1 \in (EndOf(i - 1) + m + 1)..(EndOf(i) - m + 1)
      BY <1>2, <1>3, <1>5, <1>7, <1>12, <1>16
    <3> QED BY <1>1, <1>2, <1>3, <2>1, <2>2, <3>1 DEF Inside, InBlock, t, m
  <2>6. tag' \in Seq(Chars) /\ (tag' = NoTag \/ Delimiter(tag'))
    BY <2>1 DEF SplitTypeOK
  <2> QED BY <1>1, <1>14, <2>2, <2>3, <2>4, <2>5, <2>6, CopyMoves
<1> QED BY <1>15, <1>16

\* A semicolon outside is a boundary, and what there is of the statement is the group it ends.
LEMMA EndStatementMoves ==
  ASSUME SplitTypeOK, NEW i, NEW b, ScanAt(i, b), Rest # <<>>, EndStatement
  PROVE  Moves
<1>1. /\ Outside /\ Ahead(Boundary) /\ statements' = Emitted /\ buf' = <<>> /\ pos' = pos + 1
      /\ quoted' = quoted /\ tag' = tag
  BY DEF EndStatement
<1> DEFINE t == script[i]
<1>2. /\ i \in 1..Len(script) /\ Len(script) \in Nat /\ Len(t) \in Nat /\ t \in Tokens
      /\ EndOf(i) = EndOf(i - 1) + Len(t) /\ EndOf(i) \in Nat /\ EndOf(i - 1) \in Nat
  BY Where
<1>3. pos = EndOf(i - 1) + 1 /\ quoted = FALSE /\ tag = NoTag
  BY <1>1, OutsideIs
<1>4. t = Boundary /\ Len(t) = 1
  <2>1. Boundary \in Seq(Chars) /\ Len(Boundary) = 1 /\ Boundary[1] = Semicolon
    BY DEF Chars, Special, Boundary
  <2>2. \A k \in 1..1 : Boundary[k] = Rest[k]
    BY <1>1, <2>1, AheadIs
  <2>3. t[1] = Semicolon
    BY <1>1, <2>1, <2>2, TokenSeen
  <2> QED BY <1>2, <2>1, <2>3, HeadTells
<1>5. i \in Bounds /\ script \in Scripts
  BY <1>2, <1>4, BoundsAre DEF SplitTypeOK
<1>6. Neighbours(b, i)
  BY <1>5, NewestIs DEF ScanAt
<1>7. buf = SubSeq(Text, EndOf(b) + 1, EndOf(i - 1)) /\ AreGroups(statements, SolidBefore(b))
  <2>1. pos - 1 = EndOf(i - 1)
    BY <1>2, <1>3
  <2> QED BY <2>1 DEF ScanAt
<1>8. Emitted \in Seq(Seq(Chars)) /\ AreGroups(Emitted, SolidBefore(i))
  BY <1>5, <1>6, <1>7, EmittedGroups DEF SplitTypeOK
<1> HIDE DEF t
<1>9. /\ pos' = EndOf((i + 1) - 1) + 1 /\ i + 1 \in 1..(Len(script) + 1)
      /\ (pos' - 1) < EndOf(i) + 1 /\ pos' - 1 \in Int /\ EndOf(i) + 1 \in Int
  <2>1. (i + 1) - 1 = i
    BY <1>2
  <2> QED BY <1>1, <1>2, <1>3, <1>4, <2>1
<1>10. Inside(i + 1, pos', quoted', tag')
  BY <1>1, <1>3, <1>9 DEF Inside, Before
<1>11. buf' = SubSeq(Text, EndOf(i) + 1, pos' - 1)
  BY <1>1, <1>9, SubSeqEmpty
<1>12. Newest(i, i + 1)
  <2> SUFFICES ASSUME NEW c \in Bounds PROVE i < i + 1 /\ (c <= i \/ c >= i + 1)
    BY <1>5 DEF Newest
  <2>1. c \in Nat
    BY <1>5, BoundsAre
  <2> QED BY <1>2, <2>1
<1>13. ScannedTo(pos', quoted', tag', buf', statements')
  BY <1>1, <1>5, <1>8, <1>9, <1>10, <1>11, <1>12 DEF ScannedTo
<1>14. pos' \in 1..(Len(Text) + 1)
  BY <1>1, OneAhead, RestIs
<1> QED BY <1>1, <1>8, <1>13, <1>14 DEF Moves, SplitTypeOK

-----------------------------------------------------------------------------
(***************************************************************************)
(* The invariant.                                                          *)
(***************************************************************************)
\* What the scanner relies on: it is in or before a token, the statements so far are the groups
\* that end before it, and what it has of the next one begins at the newest boundary.
Scanned ==
  IF scanning THEN ScannedTo(pos, quoted, tag, buf, statements) ELSE Rest = <<>>

SplitInv == SplitTypeOK /\ Scanned /\ SplitsAtBoundaries

LEMMA SplitInvInit == SplitInit => SplitInv
<1> SUFFICES ASSUME SplitInit PROVE SplitInv
  OBVIOUS
<1>1. /\ script \in Scripts /\ pos = 1 /\ quoted = FALSE /\ tag = NoTag /\ buf = <<>>
      /\ statements = <<>> /\ scanning = TRUE
  BY DEF SplitInit
<1>2. /\ Text \in Seq(Chars) /\ Len(Text) \in Nat /\ Len(script) \in Nat /\ EndOf(0) = 0
  BY <1>1, ScriptText
<1>3. SplitTypeOK
  <2>1. pos \in 1..(Len(Text) + 1)
    BY <1>1, <1>2
  <2>2. <<>> \in Seq(Chars) /\ <<>> \in Seq(Seq(Chars))
    OBVIOUS
  <2>3. quoted \in BOOLEAN /\ scanning \in BOOLEAN
    BY <1>1
  <2> QED BY <1>1, <2>1, <2>2, <2>3 DEF SplitTypeOK, NoTag
<1>4. 0 \in Bounds /\ \A c \in Bounds : c \in Nat
  BY <1>1, BoundsAre
<1>5. Newest(0, 1)
  BY <1>4 DEF Newest
<1>6. Inside(1, pos, quoted, tag)
  BY <1>1, <1>2 DEF Inside, Before
<1>7. buf = SubSeq(Text, EndOf(0) + 1, pos - 1)
  <2>1. SubSeq(Text, 1, 0) = <<>>
    BY SubSeqEmpty
  <2> QED BY <1>1, <1>2, <2>1
<1>8. AreGroups(statements, SolidBefore(0))
  <2>1. SolidBefore(0) = {}
    BY <1>4 DEF SolidBefore
  <2> QED BY <1>1, <2>1, NoGroups
<1>9. 1 \in 1..(Len(script) + 1)
  BY <1>2
<1>10. ScannedTo(pos, quoted, tag, buf, statements)
  BY <1>4, <1>5, <1>6, <1>7, <1>8, <1>9 DEF ScannedTo
<1> QED BY <1>1, <1>3, <1>10 DEF SplitInv, Scanned, SplitsAtBoundaries

\* The script is the same before and after a step, and so is all that is said of it.
LEMMA SameScript ==
  ASSUME script' = script
  PROVE  /\ Text' = Text /\ Commands' = Commands
         /\ AreGroups(statements, Commands)' <=> AreGroups(statements', Commands)
         /\ ScannedTo(pos, quoted, tag, buf, statements)'
            <=> ScannedTo(pos', quoted', tag', buf', statements')
<1>1. Text' = Text /\ Bounds' = Bounds
  BY DEF Text, Bounds
<1>2. ASSUME NEW c PROVE Group(c)' = Group(c)
  BY <1>1 DEF Group
<1>3. Commands' = Commands
  BY <1>1, <1>2 DEF Commands
<1>4. AreGroups(statements, Commands)' <=> AreGroups(statements', Commands)
  BY <1>2, <1>3 DEF AreGroups
<1>5. ASSUME NEW b PROVE AreGroups(statements, SolidBefore(b))' <=> AreGroups(statements', SolidBefore(b))
  <2>1. SolidBefore(b)' = SolidBefore(b)
    BY <1>1, <1>2 DEF SolidBefore, Solid
  <2> QED BY <1>2, <2>1 DEF AreGroups
<1>6. ASSUME NEW i PROVE EndOf(i)' = EndOf(i)
  BY DEF EndOf
<1>7. ASSUME NEW i, NEW b PROVE Newest(b, i)' <=> Newest(b, i)
  BY <1>1 DEF Newest
<1>8. ASSUME NEW i PROVE Inside(i, pos, quoted, tag)' <=> Inside(i, pos', quoted', tag')
  BY <1>6 DEF Inside, Before, InLiteral, InBlock
<1>9. ScannedTo(pos, quoted, tag, buf, statements)'
       <=> ScannedTo(pos', quoted', tag', buf', statements')
  BY <1>1, <1>5, <1>6, <1>7, <1>8 DEF ScannedTo
<1> QED BY <1>1, <1>3, <1>4, <1>9

LEMMA ScanKeeps == SplitInv /\ Scan => SplitInv'
<1> SUFFICES ASSUME SplitInv, Scan PROVE SplitInv'
  OBVIOUS
<1>1. script' = script /\ scanning' = scanning /\ Rest # <<>>
  BY DEF Scan
<1>2. SplitTypeOK /\ scanning = TRUE /\ ScannedTo(pos, quoted, tag, buf, statements)
  BY <1>1 DEF SplitInv, Scanned, SplitTypeOK
<1>3. PICK i \in 1..(Len(script) + 1) : \E b \in Bounds : ScanAt(i, b)
  BY <1>2 DEF ScannedTo, ScanAt
<1>4. PICK b \in Bounds : ScanAt(i, b)
  BY <1>3
<1>5. Moves
  <2>1. CASE ScanBlock
    BY <1>1, <1>2, <1>4, <2>1, ScanBlockMoves
  <2>2. CASE ScanLiteral
    BY <1>1, <1>2, <1>4, <2>2, ScanLiteralMoves
  <2>3. CASE OpenLiteral
    BY <1>1, <1>2, <1>4, <2>3, OpenLiteralMoves
  <2>4. CASE OpenBlock
    BY <1>1, <1>2, <1>4, <2>4, OpenBlockMoves
  <2>5. CASE CopyComment
    BY <1>1, <1>2, <1>4, <2>5, CopyCommentMoves
  <2>6. CASE EndStatement
    BY <1>1, <1>2, <1>4, <2>6, EndStatementMoves
  <2>7. CASE CopyOther
    BY <1>1, <1>2, <1>4, <2>7, CopyOtherMoves
  <2> QED BY <2>1, <2>2, <2>3, <2>4, <2>5, <2>6, <2>7 DEF Scan
<1>6. Text' = Text /\ ScannedTo(pos, quoted, tag, buf, statements)'
  BY <1>1, <1>5, SameScript DEF Moves
<1>7. SplitTypeOK'
  BY <1>1, <1>2, <1>5, <1>6 DEF SplitTypeOK, Moves
<1>8. Scanned' /\ SplitsAtBoundaries'
  BY <1>1, <1>2, <1>6 DEF Scanned, SplitsAtBoundaries
<1> QED BY <1>7, <1>8 DEF SplitInv

\* At the end of the script what there is of a statement is its last group.
LEMMA AllGroups ==
  ASSUME SplitTypeOK, ScannedTo(pos, quoted, tag, buf, statements), Rest = <<>>
  PROVE  Sent(Emitted) \in Seq(Seq(Chars)) /\ AreGroups(Sent(Emitted), Commands)
<1>1. PICK i \in 1..(Len(script) + 1) : \E b \in Bounds : ScanAt(i, b)
  BY DEF ScannedTo, ScanAt
<1>2. PICK b \in Bounds : ScanAt(i, b)
  BY <1>1
<1>3. /\ Newest(b, i) /\ Inside(i, pos, quoted, tag) /\ buf = SubSeq(Text, EndOf(b) + 1, pos - 1)
      /\ AreGroups(statements, SolidBefore(b))
  BY <1>2 DEF ScanAt
<1>4. /\ script \in Scripts /\ Len(script) \in Nat /\ Len(Text) \in Nat
      /\ pos = Len(Text) + 1 /\ Len(Text) = EndOf(Len(script))
  BY RestIs, ScriptText DEF SplitTypeOK
<1>5. i \in 1..Len(script) =>
        /\ EndOf(i) \in Nat /\ EndOf(i - 1) \in Nat /\ EndOf(i) = EndOf(i - 1) + Len(script[i])
        /\ Len(script[i]) \in Nat /\ Len(script[i]) # 0 /\ EndOf(i) <= Len(Text)
  BY <1>4, ScriptToken
<1>6. i = Len(script) + 1
  <2> SUFFICES ASSUME i \in 1..Len(script) PROVE FALSE
    BY <1>4
  <2>1. CASE Before(i, pos, quoted, tag)
    BY <1>4, <1>5, <2>1 DEF Before
  <2>2. CASE InLiteral(i, pos, quoted, tag)
    BY <1>4, <1>5, <2>2 DEF InLiteral
  <2>3. CASE InBlock(i, pos, quoted, tag)
    <3>1. Len(tag) \in Nat /\ Len(tag) > 1
      BY <2>3, LenProperties DEF InBlock, DelimitedBy, Delimiter, SplitTypeOK
    <3> QED BY <1>4, <1>5, <2>3, <3>1 DEF InBlock
  <2> QED BY <1>3, <2>1, <2>2, <2>3 DEF Inside
<1>7. Neighbours(b, i)
  <2>1. i \in Bounds
    BY <1>4, <1>6, BoundsAre
  <2> QED BY <1>3, <1>4, <2>1, NewestIs
<1>8. i - 1 = Len(script) /\ pos - 1 = EndOf(i - 1)
  <2>1. i - 1 = Len(script)
    BY <1>4, <1>6
  <2> QED BY <1>4, <2>1
<1>9. Emitted \in Seq(Seq(Chars)) /\ AreGroups(Emitted, SolidBefore(i))
  BY <1>3, <1>4, <1>7, <1>8, EmittedGroups DEF SplitTypeOK
<1>10. SolidBefore(i) \in SUBSET Int
  BY <1>4, BoundsAre DEF SolidBefore
<1>11. /\ Sent(Emitted) \in Seq(Seq(Chars))
       /\ AreGroups(Sent(Emitted), {c \in SolidBefore(i) : ~OnlyComments(Strip(FlattenSeq(Group(c))))})
  BY <1>9, <1>10, SentGroups
<1> QED BY <1>4, <1>6, <1>11, CommandsAreSent DEF SolidBefore

LEMMA FinishKeeps == SplitInv /\ Finish => SplitInv'
<1> SUFFICES ASSUME SplitInv, Finish PROVE SplitInv'
  OBVIOUS
<1>1. /\ scanning /\ Rest = <<>> /\ scanning' = FALSE /\ statements' = Sent(Emitted)
      /\ script' = script /\ pos' = pos /\ quoted' = quoted /\ tag' = tag /\ buf' = buf
  BY DEF Finish
<1>2. SplitTypeOK /\ ScannedTo(pos, quoted, tag, buf, statements)
  BY <1>1 DEF SplitInv, Scanned
<1>3. Sent(Emitted) \in Seq(Seq(Chars)) /\ AreGroups(Sent(Emitted), Commands)
  BY <1>1, <1>2, AllGroups
<1>4. Text' = Text /\ AreGroups(statements, Commands)'
  BY <1>1, <1>3, SameScript
<1>5. SplitTypeOK'
  BY <1>1, <1>2, <1>3, <1>4 DEF SplitTypeOK
<1>6. Rest' = <<>>
  BY <1>1, <1>4 DEF Rest
<1> QED BY <1>1, <1>4, <1>5, <1>6 DEF SplitInv, Scanned, SplitsAtBoundaries

LEMMA SplitInvNext == SplitInv /\ [SplitNext]_splitVars => SplitInv'
<1> SUFFICES ASSUME SplitInv, [SplitNext]_splitVars PROVE SplitInv'
  OBVIOUS
<1>1. CASE UNCHANGED splitVars
  <2>1. UNCHANGED <<script, pos, quoted, tag, buf, statements, scanning>>
    BY <1>1 DEF splitVars
  <2>2. /\ Text' = Text
        /\ AreGroups(statements, Commands)' <=> AreGroups(statements, Commands)
    BY <2>1, SameScript
  <2>3. ScannedTo(pos, quoted, tag, buf, statements)' <=> ScannedTo(pos, quoted, tag, buf, statements)
    BY <2>1, SameScript
  <2>4. SplitTypeOK'
    BY <2>1, <2>2 DEF SplitInv, SplitTypeOK
  <2>5. Rest' = Rest
    BY <2>1, <2>2 DEF Rest
  <2>6. Scanned'
    BY <2>1, <2>3, <2>5 DEF SplitInv, Scanned
  <2>7. SplitsAtBoundaries'
    BY <2>1, <2>2 DEF SplitInv, SplitsAtBoundaries
  <2> QED BY <2>4, <2>6, <2>7 DEF SplitInv
<1> QED BY <1>1, ScanKeeps, FinishKeeps DEF SplitNext

LEMMA SplitInvariant == SplitSpec => []SplitInv
<1> QED BY SplitInvInit, SplitInvNext, PTL DEF SplitSpec

\* The scanner never reads past the end of a script, whatever the scripts are.
THEOREM SplitTypeCorrect == SplitSpec => []SplitTypeOK
<1>1. SplitInv => SplitTypeOK
  BY DEF SplitInv
<1> QED BY <1>1, SplitInvariant, PTL

\* What is sent are the commands of the script.
THEOREM SplitCorrect == SplitSpec => []SplitsAtBoundaries
<1>1. SplitInv => SplitsAtBoundaries
  BY DEF SplitInv
<1> QED BY <1>1, SplitInvariant, PTL
=============================================================================
