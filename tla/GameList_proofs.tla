-------------------------- MODULE GameList_proofs --------------------------
(***************************************************************************)
(* Machine-checked proofs about GameList, for every set of words, titles   *)
(* of every length and every number of lines: each game and DLC is listed, *)
(* with its own id and size, and a game with its own title.                *)
(*                                                                         *)
(* The output is a text made by recursion over the lines.  What it looks   *)
(* like is proved by the least number for which it would not: see          *)
(* LeastNatural, FlattenIsLast and FlattenShape.                           *)
(***************************************************************************)
EXTENDS GameList, SequenceTheorems, WellFoundedInduction, TLAPS

(* Every set of natural numbers that is not empty has a least element.     *)
LEMMA LeastNatural ==
  ASSUME NEW T \in SUBSET Nat, T # {}
  PROVE  \E m \in T : \A n \in T : m <= n
<1> DEFINE R == OpToRel(<, Nat)
<1>1. IsWellFoundedOn(R, Nat)
  BY NatLessThanWellFounded
<1>2. \A x, y \in Nat : <<x, y>> \in R <=> x < y
  BY DEF OpToRel
<1> HIDE DEF R
<1>3. PICK m \in T : \A n \in T : ~ (<<n, m>> \in R)
  BY <1>1, WFMin
<1>4. \A n \in T : n \in Nat /\ m \in Nat /\ ~ (n < m)
  BY <1>2, <1>3
<1>5. QED
  BY <1>4

(* Every set of natural numbers with a bound has a greatest one.           *)
LEMMA GreatestNatural ==
  ASSUME NEW T \in SUBSET Nat, T # {}, NEW b \in Nat, \A n \in T : n <= b
  PROVE  \E m \in T : \A n \in T : m >= n
<1> DEFINE D == {d \in Nat : b - d \in T}
<1>1. PICK t \in T : TRUE
  OBVIOUS
<1>2. b - t \in D
  BY <1>1
<1>3. PICK d \in D : \A x \in D : d <= x
  BY <1>2, LeastNatural
<1>4. d \in Nat /\ b - d \in T
  BY <1>3
<1>5. ASSUME NEW n \in T
      PROVE  b - d >= n
  <2>1. n \in Nat /\ b - n \in Nat /\ b - (b - n) = n
    OBVIOUS
  <2>2. b - n \in D
    BY <2>1
  <2>3. d <= b - n
    BY <1>3, <2>2
  <2>4. QED
    BY <1>4, <2>1, <2>3
<1>6. QED
  BY <1>4, <1>5

(* What holds of 0 and is inherited up to n holds of all numbers up to n:  *)
(* the set S is that of the numbers of which it holds.                     *)
LEMMA UpTo ==
  ASSUME NEW n \in Nat, NEW S, 0 \in S, \A k \in 1..n : k - 1 \in S => k \in S
  PROVE  0..n \subseteq S
<1> DEFINE T == (0..n) \ S
<1> SUFFICES ASSUME T # {}
             PROVE  FALSE
  OBVIOUS
<1>1. PICK k \in T : \A m \in T : k <= m
  <2>1. T \in SUBSET Nat /\ T # {}
    OBVIOUS
  <2> HIDE DEF T
  <2>2. QED
    BY <2>1, LeastNatural
<1>2. k \in 1..n /\ k - 1 \in 0..n /\ k - 1 \notin T
  BY <1>1
<1>3. QED
  BY <1>1, <1>2

(* A part that is one element long.                                        *)
LEMMA OneElement ==
  ASSUME NEW T, NEW s \in Seq(T), NEW m \in 1..Len(s)
  PROVE  SubSeq(s, m, m) = <<s[m]>>
<1>1. Len(s) \in Nat /\ \A j \in 1..Len(s) : s[j] \in T
  BY LenProperties, ElementOfSeq
<1>2. /\ SubSeq(s, m, m) \in Seq(T)
      /\ Len(SubSeq(s, m, m)) = 1
      /\ SubSeq(s, m, m)[1] = s[m]
  BY <1>1, SubSeqProperties
<1>3. <<s[m]>> \in Seq(T) /\ Len(<<s[m]>>) = 1 /\ <<s[m]>>[1] = s[m]
  BY <1>1
<1>4. \A j \in 1..1 : SubSeq(s, m, m)[j] = <<s[m]>>[j]
  BY <1>2, <1>3
<1>5. QED
  BY <1>2, <1>3, <1>4, SeqEqual

(* SelectInSubSeq finds the first element that passes the test, if any.    *)
LEMMA MarkerFromFirst ==
  ASSUME NEW S, NEW k \in Nat, Len(output) \in Nat
  PROVE  \/ /\ MarkerFrom(S, k) = 0
            /\ \A j \in k..Len(output) : output[j] \notin S
         \/ /\ MarkerFrom(S, k) \in k..Len(output)
            /\ output[MarkerFrom(S, k)] \in S
            /\ \A j \in k..(MarkerFrom(S, k) - 1) : output[j] \notin S
<1> DEFINE I == {j \in k..Len(output) : output[j] \in S}
<1>1. CASE I = {}
  BY <1>1 DEF MarkerFrom, SelectInSubSeq
<1>2. CASE I # {}
  <2>1. \E m \in I : \A n \in I : m <= n
    <3>1. I \in SUBSET Nat
      OBVIOUS
    <3> HIDE DEF I
    <3>2. QED
      BY <1>2, <3>1, LeastNatural
  <2>2. MarkerFrom(S, k) = CHOOSE m \in I : \A n \in I : m <= n
    BY <1>2 DEF MarkerFrom, SelectInSubSeq, Min
  <2>3. MarkerFrom(S, k) \in I /\ \A n \in I : MarkerFrom(S, k) <= n
    BY <2>1, <2>2
  <2>4. QED
    BY <2>3
<1>3. QED
  BY <1>1, <1>2

(* FlattenSeq is the last of the texts that grow by one sequence each.     *)
LEMMA FlattenIsLast ==
  ASSUME NEW T, NEW seqs \in Seq(Seq(T))
  PROVE  \E f \in [0..Len(seqs) -> Seq(T)] :
            /\ f[0] = <<>>
            /\ \A k \in 1..Len(seqs) : f[k] = f[k - 1] \o seqs[k]
            /\ FlattenSeq(seqs) = f[Len(seqs)]
<1> DEFINE N == Len(seqs)
           Grows(g, n) == \A k \in 1..n : g[k] = IF k = 1 THEN seqs[k] ELSE g[k - 1] \o seqs[k]
           S == {n \in 0..N : \E g \in [1..n -> Seq(T)] : Grows(g, n)}
<1>1. N \in Nat /\ \A k \in 1..N : seqs[k] \in Seq(T)
  BY LenProperties, ElementOfSeq
<1>2. 0 \in S
  <2> DEFINE g == [k \in 1..0 |-> <<>>]
  <2>1. g \in [1..0 -> Seq(T)] /\ Grows(g, 0)
    OBVIOUS
  <2> HIDE DEF g, Grows
  <2>2. \E x \in [1..0 -> Seq(T)] : Grows(x, 0)
    BY <2>1
  <2>3. 0 \in 0..N
    BY <1>1
  <2>4. QED
    BY <2>2, <2>3, Zenon
<1>3. ASSUME NEW n \in 1..N, n - 1 \in S
      PROVE  n \in S
  <2>1. PICK g \in [1..(n - 1) -> Seq(T)] : Grows(g, n - 1)
    BY <1>3
  <2> DEFINE h == [k \in 1..n |-> IF k = n THEN IF n = 1 THEN seqs[n] ELSE g[n - 1] \o seqs[n]
                                  ELSE g[k]]
  <2>2. n # 1 => g[n - 1] \o seqs[n] \in Seq(T)
    BY <1>1, ConcatProperties
  <2>3. h \in [1..n -> Seq(T)]
    BY <1>1, <2>2
  <2>4. ASSUME NEW k \in 1..n
        PROVE  h[k] = IF k = 1 THEN seqs[k] ELSE h[k - 1] \o seqs[k]
    <3>1. CASE k = n
      BY <3>1
    <3>2. CASE k # n
      <4>1. k \in 1..(n - 1) /\ (k # 1 => k - 1 \in 1..(n - 1))
        BY <3>2
      <4>2. g[k] = IF k = 1 THEN seqs[k] ELSE g[k - 1] \o seqs[k]
        BY <2>1, <4>1
      <4>3. h[k] = g[k] /\ (k # 1 => h[k - 1] = g[k - 1])
        BY <3>2, <4>1
      <4>4. QED
        BY <4>2, <4>3, Zenon
    <3>3. QED
      BY <3>1, <3>2
  <2>5. Grows(h, n)
    BY <2>4
  <2> HIDE DEF h, Grows
  <2>6. QED
    BY <2>3, <2>5
<1>4. PICK g \in [1..N -> Seq(T)] : Grows(g, N)
  <2>1. 0..N \subseteq S
    <3> HIDE DEF N, S
    <3>1. QED
      BY <1>1, <1>2, <1>3, UpTo
  <2>2. N \in S
    <3> HIDE DEF N, S
    <3>1. N \in 0..N
      BY <1>1
    <3>2. QED
      BY <2>1, <3>1
  <2> HIDE DEF N, Grows
  <2>3. QED
    BY <2>2, Zenon
<1>5. N # 0 => \E f : /\ f = [k \in 1..N |-> IF k = 1 THEN seqs[k] ELSE f[k - 1] \o seqs[k]]
                      /\ FlattenSeq(seqs) = f[N]
  <2> SUFFICES ASSUME N # 0
               PROVE  \E f : /\ f = [k \in 1..N |-> IF k = 1 THEN seqs[k] ELSE f[k - 1] \o seqs[k]]
                             /\ FlattenSeq(seqs) = f[N]
    OBVIOUS
  <2> DEFINE ff == CHOOSE f : f = [k \in 1..N |-> IF k = 1 THEN seqs[k] ELSE f[k - 1] \o seqs[k]]
  <2>1. g = [k \in 1..N |-> IF k = 1 THEN seqs[k] ELSE g[k - 1] \o seqs[k]]
    BY <1>4
  <2>2. ff = [k \in 1..N |-> IF k = 1 THEN seqs[k] ELSE ff[k - 1] \o seqs[k]]
    BY <2>1
  <2>3. FlattenSeq(seqs) = ff[N]
    BY DEF FlattenSeq
  <2> HIDE DEF ff
  <2>4. QED
    BY <2>2, <2>3
<1>6. CASE N = 0
  <2>1. FlattenSeq(seqs) = <<>>
    BY <1>6, EmptySeq DEF FlattenSeq
  <2> DEFINE h == [k \in 0..N |-> <<>>]
  <2>2. h \in [0..N -> Seq(T)] /\ h[0] = <<>>
    BY <1>6, EmptySeq
  <2> HIDE DEF h
  <2>3. \A k \in 1..N : h[k] = h[k - 1] \o seqs[k]
    BY <1>6
  <2>4. QED
    BY <1>6, <2>1, <2>2, <2>3
<1>7. CASE N # 0
  <2>1. PICK f : /\ f = [k \in 1..N |-> IF k = 1 THEN seqs[k] ELSE f[k - 1] \o seqs[k]]
                 /\ FlattenSeq(seqs) = f[N]
    BY <1>5, <1>7
  <2> DEFINE h == [k \in 0..N |-> IF k = 0 THEN <<>> ELSE f[k]]
             P == {k \in 0..N : h[k] \in Seq(T)}
  <2>2. \A k \in 1..N : f[k] = IF k = 1 THEN seqs[k] ELSE f[k - 1] \o seqs[k]
    BY <2>1
  <2>3. \A k \in 1..N : h[k] = h[k - 1] \o seqs[k]
    <3>1. \A s \in Seq(T) : <<>> \o s = s
      BY ConcatEmptySeq
    <3>2. ASSUME NEW k \in 1..N
          PROVE  h[k] = h[k - 1] \o seqs[k]
      <4>1. CASE k = 1
        <5>1. h[k] = seqs[1] /\ h[k - 1] = <<>> /\ seqs[1] \in Seq(T)
          BY <1>1, <2>2, <4>1
        <5>2. QED
          BY <3>1, <4>1, <5>1
      <4>2. CASE k # 1
        <5>1. k - 1 \in 1..N
          BY <1>1, <4>2
        <5>2. h[k] = f[k] /\ h[k - 1] = f[k - 1]
          BY <4>2, <5>1
        <5>3. QED
          BY <2>2, <4>2, <5>2
      <4>3. QED
        BY <4>1, <4>2
    <3>3. QED
      BY <3>2
  <2>4. h[0] = <<>> /\ h[N] = FlattenSeq(seqs)
    BY <1>1, <1>7, <2>1
  <2>5. 0..N \subseteq P
    <3>1. 0 \in P
      BY <1>1, EmptySeq
    <3>2. ASSUME NEW k \in 1..N, k - 1 \in P
          PROVE  k \in P
      <4>1. h[k - 1] \in Seq(T) /\ seqs[k] \in Seq(T) /\ k \in 0..N
        BY <1>1, <3>2
      <4>2. h[k - 1] \o seqs[k] \in Seq(T)
        BY <4>1, ConcatProperties
      <4>3. QED
        BY <2>3, <4>1, <4>2
    <3> HIDE DEF P
    <3>3. QED
      BY <1>1, <3>1, <3>2, UpTo
  <2>6. h \in [0..N -> Seq(T)]
    BY <2>5
  <2>7. QED
    BY <2>3, <2>4, <2>6
<1>8. QED
  BY <1>6, <1>7

(* Where the sequences are in what they are flattened to: the k-th one is  *)
(* between e[k-1] and e[k].                                                *)
LEMMA FlattenShape ==
  ASSUME NEW T, NEW seqs \in Seq(Seq(T))
  PROVE  LET N == Len(seqs)
             out == FlattenSeq(seqs)
         IN  /\ N \in Nat
             /\ out \in Seq(T)
             /\ \E e \in [0..N -> Nat] :
                   /\ e[0] = 0
                   /\ e[N] = Len(out)
                   /\ \A k \in 1..N : e[k] = e[k - 1] + Len(seqs[k])
                   /\ \A k \in 1..N : \A j \in 1..Len(seqs[k]) : out[e[k - 1] + j] = seqs[k][j]
                   /\ \A k \in 0..N : \A j \in 0..k : e[j] <= e[k]
                   /\ \A p \in 1..Len(out) : \E k \in 1..N : e[k - 1] < p /\ p <= e[k]
<1> DEFINE N == Len(seqs)
<1>1. N \in Nat /\ \A k \in 1..N : seqs[k] \in Seq(T) /\ Len(seqs[k]) \in Nat
  <2>1. N \in Nat /\ \A k \in 1..N : seqs[k] \in Seq(T)
    BY LenProperties, ElementOfSeq
  <2>2. \A s \in Seq(T) : Len(s) \in Nat
    BY LenProperties
  <2>3. QED
    BY <2>1, <2>2
<1>2. PICK f \in [0..N -> Seq(T)] :
            /\ f[0] = <<>>
            /\ \A k \in 1..N : f[k] = f[k - 1] \o seqs[k]
            /\ FlattenSeq(seqs) = f[N]
  BY FlattenIsLast
<1> HIDE DEF N
<1>3. \A k \in 0..N : f[k] \in Seq(T) /\ Len(f[k]) \in Nat
  <2>1. \A s \in Seq(T) : Len(s) \in Nat
    BY LenProperties
  <2>2. QED
    BY <1>1, <1>2, <2>1
<1>4. PICK e \in [0..N -> Nat] : \A k \in 0..N : e[k] = Len(f[k])
  <2> DEFINE lengths == [k \in 0..N |-> Len(f[k])]
  <2>1. lengths \in [0..N -> Nat] /\ \A k \in 0..N : lengths[k] = Len(f[k])
    BY <1>3
  <2> HIDE DEF lengths
  <2>2. QED
    BY <2>1
<1>5. PICK l \in [1..N -> Nat] : \A k \in 1..N : l[k] = Len(seqs[k])
  <2> DEFINE lengths == [k \in 1..N |-> Len(seqs[k])]
  <2>1. lengths \in [1..N -> Nat] /\ \A k \in 1..N : lengths[k] = Len(seqs[k])
    BY <1>1
  <2> HIDE DEF lengths
  <2>2. QED
    BY <2>1
<1>6. ASSUME NEW k \in 1..N
      PROVE  /\ k - 1 \in 0..N /\ k \in 0..N
             /\ e[k] = e[k - 1] + l[k]
             /\ \A j \in 1..e[k - 1] : f[k][j] = f[k - 1][j]
             /\ \A j \in 1..l[k] : f[k][e[k - 1] + j] = seqs[k][j]
  <2>1. k - 1 \in 0..N /\ k \in 0..N
    BY <1>1
  <2> DEFINE s == f[k - 1]
             t == seqs[k]
  <2>2. s \in Seq(T) /\ t \in Seq(T) /\ f[k] = s \o t
    BY <1>1, <1>2, <1>3, <2>1
  <2>3. Len(s) = e[k - 1] /\ Len(t) = l[k] /\ Len(f[k]) = e[k] /\ e[k - 1] \in Nat /\ l[k] \in Nat
    BY <1>4, <1>5, <2>1
  <2> HIDE DEF s, t
  <2>4. /\ Len(f[k]) = Len(s) + Len(t)
        /\ \A j \in 1..(Len(s) + Len(t)) : f[k][j] = IF j <= Len(s) THEN s[j] ELSE t[j - Len(s)]
    BY <2>2, ConcatProperties
  <2>5. /\ e[k] = e[k - 1] + l[k]
        /\ \A j \in 1..e[k - 1] : f[k][j] = s[j]
        /\ \A j \in 1..l[k] : f[k][e[k - 1] + j] = t[j]
    <3> DEFINE x == Len(s)
               y == Len(t)
               g == f[k]
    <3>1. x \in Nat /\ y \in Nat /\ \A j \in 1..(x + y) : g[j] = IF j <= x THEN s[j] ELSE t[j - x]
      BY <2>3, <2>4
    <3> HIDE DEF x, y, g
    <3>2. \A j \in 1..x : g[j] = s[j]
      BY <3>1
    <3>3. ASSUME NEW j \in 1..y
          PROVE  g[x + j] = t[j]
      <4>1. x + j \in 1..(x + y) /\ ~ (x + j <= x) /\ (x + j) - x = j
        BY <3>1
      <4>2. QED
        BY <3>1, <4>1
    <3>4. QED
      BY <2>3, <2>4, <3>2, <3>3 DEF x, y, g
  <2>6. QED
    BY <2>1, <2>5 DEF s, t
<1> DEFINE Keeps(k) == \A j \in 0..k : e[j] <= e[k] /\ \A p \in 1..e[j] : f[k][p] = f[j][p]
           Covers(k) == \A p \in 1..e[k] : \E j \in 1..k : e[j - 1] < p /\ p <= e[j]
           S == {k \in 0..N : Keeps(k) /\ Covers(k)}
<1>7. 0 \in S
  <2>1. e[0] = 0
    BY <1>1, <1>2, <1>4, EmptySeq
  <2>2. Keeps(0) /\ Covers(0)
    BY <2>1
  <2>3. 0 \in 0..N
    BY <1>1
  <2> HIDE DEF Keeps, Covers
  <2>4. QED
    BY <2>2, <2>3
<1>8. ASSUME NEW k \in 1..N, k - 1 \in S
      PROVE  k \in S
  <2>1. Keeps(k - 1) /\ Covers(k - 1)
    BY <1>8
  <2>2. Keeps(k)
    <3>1. ASSUME NEW j \in 0..k
          PROVE  e[j] <= e[k] /\ \A p \in 1..e[j] : f[k][p] = f[j][p]
      <4>1. CASE j = k
        BY <1>1, <4>1
      <4>2. CASE j # k
        <5>1. j \in 0..(k - 1) /\ j \in 0..N
          BY <1>1, <4>2
        <5>2. e[j] <= e[k - 1] /\ \A p \in 1..e[j] : f[k - 1][p] = f[j][p]
          BY <2>1, <5>1
        <5>3. e[j] \in Nat /\ e[k - 1] \in Nat /\ e[k] = e[k - 1] + l[k] /\ l[k] \in Nat
          BY <1>6, <5>1
        <5>4. ASSUME NEW p \in 1..e[j]
              PROVE  f[k][p] = f[j][p]
          <6>1. p \in 1..e[k - 1]
            BY <5>2, <5>3
          <6>2. QED
            BY <1>6, <5>2, <6>1
        <5>5. QED
          BY <5>2, <5>3, <5>4
      <4>3. QED
        BY <4>1, <4>2
    <3>2. QED
      BY <3>1
  <2>3. Covers(k)
    <3>1. ASSUME NEW p \in 1..e[k]
          PROVE  \E j \in 1..k : e[j - 1] < p /\ p <= e[j]
      <4>0. k - 1 \in 0..N /\ k \in 0..N
        BY <1>6, Zenon
      <4>1. e[k] \in Nat /\ e[k - 1] \in Nat /\ k \in 1..k
        BY <1>1, <4>0
      <4>2. CASE p <= e[k - 1]
        <5>1. p \in 1..e[k - 1]
          BY <4>1, <4>2
        <5>2. PICK j \in 1..(k - 1) : e[j - 1] < p /\ p <= e[j]
          BY <2>1, <5>1
        <5>3. j \in 1..k
          BY <5>2
        <5>4. QED
          BY <5>2, <5>3
      <4>3. CASE ~ (p <= e[k - 1])
        BY <4>1, <4>3
      <4>4. QED
        BY <4>2, <4>3
    <3>2. QED
      BY <3>1
  <2> HIDE DEF Keeps, Covers
  <2>4. QED
    BY <1>6, <2>2, <2>3
<1>9. \A k \in 0..N : Keeps(k) /\ Covers(k)
  <2>1. 0..N \subseteq S
    <3> HIDE DEF S
    <3>1. QED
      BY <1>1, <1>7, <1>8, UpTo
  <2> HIDE DEF Keeps, Covers
  <2>2. QED
    BY <2>1
<1> HIDE DEF S
<1> DEFINE out == FlattenSeq(seqs)
<1>10. N \in 0..N /\ out = f[N] /\ out \in Seq(T) /\ Len(out) = e[N]
  <2>1. N \in 0..N
    BY <1>1
  <2>2. QED
    BY <1>2, <1>3, <1>4, <2>1
<1>11. Keeps(N) /\ Covers(N)
  <2> HIDE DEF Keeps, Covers
  <2>1. QED
    BY <1>9, <1>10
<1>12. e[0] = 0 /\ e[N] = Len(out) /\ \A k \in 1..N : e[k] = e[k - 1] + Len(seqs[k])
  <2>1. e[0] = 0
    BY <1>1, <1>2, <1>4, EmptySeq
  <2>2. \A k \in 1..N : e[k] = e[k - 1] + Len(seqs[k])
    BY <1>5, <1>6
  <2>3. QED
    BY <1>10, <2>1, <2>2
<1>13. ASSUME NEW k \in 1..N, NEW j \in 1..Len(seqs[k])
       PROVE  out[e[k - 1] + j] = seqs[k][j]
  <2>1. j \in 1..l[k] /\ k \in 0..N /\ e[k - 1] \in Nat /\ l[k] \in Nat /\ e[k] = e[k - 1] + l[k]
    BY <1>5, <1>6
  <2>2. e[k - 1] + j \in 1..e[k]
    BY <2>1
  <2>3. f[N][e[k - 1] + j] = f[k][e[k - 1] + j]
    BY <1>11, <2>1, <2>2
  <2>4. QED
    BY <1>6, <1>10, <2>1, <2>3
<1>14. \A k \in 0..N : \A j \in 0..k : e[j] <= e[k]
  BY <1>9
<1>15. \A p \in 1..Len(out) : \E k \in 1..N : e[k - 1] < p /\ p <= e[k]
  BY <1>10, <1>11
<1> HIDE DEF out, Keeps, Covers
<1>16. QED
  BY <1>1, <1>10, <1>12, <1>13, <1>14, <1>15 DEF N, out

-----------------------------------------------------------------------------
(* The text, and where its lines are.                                      *)
TitleToken == {<<w>> : w \in Word} \cup {Star, Paren}

Token == TitleToken \cup {App, Bar, Version, GiB} \cup {Id(k) : k \in Nat} \cup {Size(k) : k \in Nat}

PrintedLine == [dlc : BOOLEAN, title : Title]

(* Where the parts of a line are in it.                                    *)
Lead(l) == IF l.dlc THEN 0 ELSE 1
AppIn(l) == Lead(l) + Len(l.title) + 1

(* The markers differ, and are none of the other tokens.                   *)
LEMMA TokensDiffer ==
  /\ Star # App /\ Star # Paren /\ Star # Bar /\ Star # Version /\ Star # GiB
  /\ App # Paren /\ App # Bar /\ App # Version /\ App # GiB
  /\ GiB # Paren /\ GiB # Bar /\ GiB # Version
  /\ Paren # Bar /\ Paren # Version /\ Bar # Version
  /\ \A t \in TitleToken : t # App /\ t # GiB
  /\ \A k \in Nat : /\ Id(k) \notin {Star, App, Paren, Bar, GiB}
                    /\ Size(k) \notin {Star, App, Paren, Bar, GiB}
<1>1. /\ Star # App /\ Star # Paren /\ Star # Bar /\ Star # Version /\ Star # GiB
      /\ App # Paren /\ App # Bar /\ App # Version /\ App # GiB
      /\ GiB # Paren /\ GiB # Bar /\ GiB # Version
      /\ Paren # Bar /\ Paren # Version /\ Bar # Version
  BY DEF Star, App, Paren, Bar, Version, GiB
<1>2. \A w \in Word : <<w>> # App /\ <<w>> # GiB
  BY WordAssumption DEF App, GiB
<1>3. \A k \in Nat : /\ Id(k) \notin {Star, App, Paren, Bar, GiB}
                     /\ Size(k) \notin {Star, App, Paren, Bar, GiB}
  BY DEF Star, App, Paren, Bar, GiB, Id, Size
<1>4. QED
  BY <1>1, <1>2, <1>3 DEF TitleToken

(* Titles are sequences of such tokens and not empty.                      *)
LEMMA TitleType ==
  ASSUME NEW l \in PrintedLine
  PROVE  /\ l.dlc \in BOOLEAN
         /\ l.title \in Seq(TitleToken)
         /\ l.title \in Seq(Token)
         /\ Len(l.title) \in Nat \ {0}
<1>1. l.title \in Title /\ l.dlc \in BOOLEAN
  BY DEF PrintedLine
<1>2. l.title \in Seq(TitleToken) /\ l.title # <<>>
  BY <1>1, BoundsAssumption, SeqDef DEF Title, BoundedSeq, SeqOf, TitleToken
<1>3. l.title \in Seq(Token)
  BY <1>2, SeqMonotonic DEF Token
<1>4. Len(l.title) \in Nat \ {0}
  BY <1>2, EmptySeq
<1>5. QED
  BY <1>1, <1>2, <1>3, <1>4

(* What a line holds, and where.                                           *)
LineShaped(k, l, inst) ==
    /\ Line(k, l, inst) \in Seq(Token)
    /\ AppIn(l) \in Nat \ {0, 1}
    /\ Len(Line(k, l, inst)) = AppIn(l) + (IF inst THEN 6 ELSE 3)
    /\ ~l.dlc => Line(k, l, inst)[1] = Star
    /\ \A j \in 1..Len(l.title) : Line(k, l, inst)[Lead(l) + j] = l.title[j]
    /\ Line(k, l, inst)[AppIn(l)] = App
    /\ Line(k, l, inst)[AppIn(l) + 1] = Id(k)
    /\ Line(k, l, inst)[AppIn(l) + 2] = Bar
    /\ Line(k, l, inst)[AppIn(l) + 3] = Version
    /\ inst => /\ Line(k, l, inst)[AppIn(l) + 4] = Bar
               /\ Line(k, l, inst)[AppIn(l) + 5] = Size(k)
               /\ Line(k, l, inst)[AppIn(l) + 6] = GiB

(* Every line is like this.                                                *)
LEMMA LineShape ==
  ASSUME NEW k \in Nat, NEW l \in PrintedLine, NEW inst \in BOOLEAN
  PROVE  LineShaped(k, l, inst)
<1> DEFINE t == l.title
           lead == IF l.dlc THEN <<>> ELSE <<Star>>
           mid == <<App, Id(k), Bar, Version>>
           tail == IF inst THEN <<Bar, Size(k), GiB>> ELSE <<>>
           a == lead \o t
           b == a \o mid
           c == b \o tail
           x == Lead(l)
           n == Len(t)
           y == IF inst THEN 3 ELSE 0
<1>1. /\ lead \in Seq(Token) /\ Len(lead) = x /\ x \in {0, 1} /\ (~l.dlc => x = 1 /\ lead[1] = Star)
  <2>1. Star \in Token
    BY DEF Token, TitleToken
  <2>2. <<>> \in Seq(Token) /\ Len(<<>>) = 0 /\ <<Star>> \in Seq(Token) /\ Len(<<Star>>) = 1
    BY <2>1
  <2>3. CASE l.dlc
    BY <2>2, <2>3 DEF Lead
  <2>4. CASE ~l.dlc
    BY <2>2, <2>4 DEF Lead
  <2>5. QED
    BY <2>3, <2>4
<1>2. /\ mid \in Seq(Token) /\ Len(mid) = 4
      /\ mid[1] = App /\ mid[2] = Id(k) /\ mid[3] = Bar /\ mid[4] = Version
  BY DEF Token
<1>3. /\ tail \in Seq(Token) /\ Len(tail) = y /\ y \in Nat
      /\ inst => y = 3 /\ tail[1] = Bar /\ tail[2] = Size(k) /\ tail[3] = GiB
  <2>1. Bar \in Token /\ Size(k) \in Token /\ GiB \in Token
    BY DEF Token
  <2>2. <<>> \in Seq(Token) /\ Len(<<>>) = 0
        /\ <<Bar, Size(k), GiB>> \in Seq(Token) /\ Len(<<Bar, Size(k), GiB>>) = 3
    BY <2>1
  <2>3. CASE inst
    BY <2>2, <2>3
  <2>4. CASE ~inst
    BY <2>2, <2>4
  <2>5. QED
    BY <2>3, <2>4
<1>4. t \in Seq(Token) /\ n \in Nat \ {0}
  BY TitleType
<1>5. Line(k, l, inst) = c
  BY DEF Line
<1>6. l.title = t /\ AppIn(l) = x + n + 1 /\ Lead(l) = x /\ (inst => y = 3) /\ (~inst => y = 0)
  BY DEF AppIn
<1> HIDE DEF t, lead, mid, tail, x, n, y
<1>7. /\ a \in Seq(Token) /\ Len(a) = x + n
      /\ x = 1 => a[1] = lead[1]
      /\ \A j \in 1..n : a[x + j] = t[j]
  <2>1. /\ a \in Seq(Token) /\ Len(a) = Len(lead) + Len(t)
        /\ \A j \in 1..(Len(lead) + Len(t)) :
              a[j] = IF j <= Len(lead) THEN lead[j] ELSE t[j - Len(lead)]
    BY <1>1, <1>4, ConcatProperties
  <2>2. Len(t) = n
    BY DEF n
  <2> HIDE DEF a
  <2>3. QED
    BY <1>1, <1>4, <2>1, <2>2
<1>8. /\ b \in Seq(Token) /\ Len(b) = x + n + 4
      /\ \A j \in 1..(x + n) : b[j] = a[j]
      /\ \A j \in 1..4 : b[x + n + j] = mid[j]
  <2> HIDE DEF a
  <2>1. /\ b \in Seq(Token) /\ Len(b) = Len(a) + Len(mid)
        /\ \A j \in 1..(Len(a) + Len(mid)) :
              b[j] = IF j <= Len(a) THEN a[j] ELSE mid[j - Len(a)]
    BY <1>2, <1>7, ConcatProperties
  <2> HIDE DEF b
  <2>2. QED
    BY <1>1, <1>2, <1>4, <1>7, <2>1
<1>9. /\ c \in Seq(Token) /\ Len(c) = x + n + 4 + y
      /\ \A j \in 1..(x + n + 4) : c[j] = b[j]
      /\ \A j \in 1..y : c[x + n + 4 + j] = tail[j]
  <2> HIDE DEF a, b
  <2>1. /\ c \in Seq(Token) /\ Len(c) = Len(b) + Len(tail)
        /\ \A j \in 1..(Len(b) + Len(tail)) :
              c[j] = IF j <= Len(b) THEN b[j] ELSE tail[j - Len(b)]
    BY <1>3, <1>8, ConcatProperties
  <2> HIDE DEF c
  <2>2. /\ x \in Nat /\ n \in Nat /\ y \in Nat /\ c \in Seq(Token) /\ Len(c) = (x + n + 4) + y
        /\ \A j \in 1..((x + n + 4) + y) : c[j] = IF j <= x + n + 4 THEN b[j] ELSE tail[j - (x + n + 4)]
    BY <1>1, <1>3, <1>4, <1>8, <2>1
  <2> DEFINE z == x + n + 4
  <2>3. /\ z \in Nat /\ y \in Nat /\ Len(c) = z + y
        /\ \A j \in 1..(z + y) : c[j] = IF j <= z THEN b[j] ELSE tail[j - z]
    BY <2>2
  <2> HIDE DEF z
  <2>4. \A j \in 1..z : c[j] = b[j]
    BY <2>3
  <2>5. ASSUME NEW j \in 1..y
        PROVE  c[z + j] = tail[j]
    <3>1. z + j \in 1..(z + y) /\ ~ (z + j <= z) /\ (z + j) - z = j
      BY <2>3
    <3>2. QED
      BY <2>3, <3>1
  <2>6. QED
    BY <2>2, <2>3, <2>4, <2>5 DEF z
<1> HIDE DEF a, b, c
<1>10. c \in Seq(Token) /\ Len(c) = (x + n + 1) + 3 + y /\ (x + n + 1) \in Nat \ {0, 1}
  BY <1>1, <1>3, <1>4, <1>9
<1>11. (~l.dlc => c[1] = Star) /\ \A j \in 1..n : c[x + j] = t[j]
  <2>1. ~l.dlc => c[1] = Star
    BY <1>1, <1>4, <1>7, <1>8, <1>9
  <2>2. ASSUME NEW j \in 1..n
        PROVE  c[x + j] = t[j]
    <3>1. x + j \in 1..(x + n) /\ x + j \in 1..(x + n + 4)
      BY <1>1, <1>4
    <3>2. QED
      BY <1>7, <1>8, <1>9, <3>1
  <2>3. QED
    BY <2>1, <2>2
<1>12. /\ c[x + n + 1] = App /\ c[x + n + 2] = Id(k)
       /\ c[x + n + 3] = Bar /\ c[x + n + 4] = Version
  <2>1. \A j \in 1..4 : x + n + j \in 1..(x + n + 4)
    BY <1>1, <1>4
  <2>2. \A j \in 1..4 : c[x + n + j] = mid[j]
    BY <1>8, <1>9, <2>1
  <2>3. QED
    BY <1>2, <2>2
<1>13. inst => /\ c[x + n + 5] = Bar /\ c[x + n + 6] = Size(k) /\ c[x + n + 7] = GiB
  <2> SUFFICES ASSUME inst
               PROVE  c[x + n + 5] = Bar /\ c[x + n + 6] = Size(k) /\ c[x + n + 7] = GiB
    OBVIOUS
  <2>1. c[x + n + 4 + 1] = tail[1] /\ c[x + n + 4 + 2] = tail[2] /\ c[x + n + 4 + 3] = tail[3]
    BY <1>3, <1>9
  <2>2. x + n + 4 + 1 = x + n + 5 /\ x + n + 4 + 2 = x + n + 6 /\ x + n + 4 + 3 = x + n + 7
    BY <1>1, <1>4
  <2>3. QED
    BY <1>3, <2>1, <2>2
<1>14. /\ (x + n + 1) + 1 = x + n + 2 /\ (x + n + 1) + 2 = x + n + 3 /\ (x + n + 1) + 3 = x + n + 4
       /\ (x + n + 1) + 4 = x + n + 5 /\ (x + n + 1) + 5 = x + n + 6 /\ (x + n + 1) + 6 = x + n + 7
       /\ (x + n + 1) + 3 + 3 = (x + n + 1) + 6 /\ (x + n + 1) + 3 + 0 = (x + n + 1) + 3
  BY <1>1, <1>4
<1>15. /\ c \in Seq(Token)
       /\ AppIn(l) \in Nat \ {0, 1}
       /\ Len(c) = AppIn(l) + (IF inst THEN 6 ELSE 3)
  BY <1>6, <1>10, <1>14
<1>16. (~l.dlc => c[1] = Star) /\ \A j \in 1..Len(l.title) : c[Lead(l) + j] = l.title[j]
  BY <1>6, <1>11 DEF n
<1>17. /\ c[AppIn(l)] = App /\ c[AppIn(l) + 1] = Id(k)
       /\ c[AppIn(l) + 2] = Bar /\ c[AppIn(l) + 3] = Version
  BY <1>6, <1>12, <1>14
<1>18. inst => /\ c[AppIn(l) + 4] = Bar /\ c[AppIn(l) + 5] = Size(k) /\ c[AppIn(l) + 6] = GiB
  BY <1>6, <1>13, <1>14
<1>19. QED
  BY <1>5, <1>15, <1>16, <1>17, <1>18 DEF LineShaped

(* The k-th line is between e[k-1] and e[k] in the output.                 *)
AppAt(e, k) == e[k - 1] + AppIn(printed[k])

LineAt(e, k) ==
    /\ e[k] = AppAt(e, k) + (IF installed THEN 6 ELSE 3)
    /\ ~printed[k].dlc => output[e[k - 1] + 1] = Star
    /\ \A j \in 1..Len(printed[k].title) :
          output[e[k - 1] + (Lead(printed[k]) + j)] = printed[k].title[j]
    /\ output[AppAt(e, k)] = App
    /\ output[AppAt(e, k) + 1] = Id(k)
    /\ output[AppAt(e, k) + 2] = Bar
    /\ output[AppAt(e, k) + 3] = Version
    /\ installed => /\ output[AppAt(e, k) + 4] = Bar
                    /\ output[AppAt(e, k) + 5] = Size(k)
                    /\ output[AppAt(e, k) + 6] = GiB

Layout(e) ==
    /\ e \in [0..Len(printed) -> Nat]
    /\ e[0] = 0 /\ e[Len(printed)] = Len(output)
    /\ \A k \in 0..Len(printed) : \A j \in 0..k : e[j] <= e[k]
    /\ \A p \in 1..Len(output) : \E k \in 1..Len(printed) : e[k - 1] < p /\ p <= e[k]
    /\ \A k \in 1..Len(printed) : LineAt(e, k)

TextOK ==
    /\ installed \in BOOLEAN
    /\ Len(printed) \in Nat
    /\ \A k \in 1..Len(printed) : printed[k] \in PrintedLine
    /\ printed # <<>> => Len(printed) # 0 /\ ~printed[1].dlc
    /\ printed = <<>> => Len(printed) = 0
    /\ DOMAIN printed = 1..Len(printed)
    /\ output \in Seq(Token)

(* The text of the initial state is laid out like this.                    *)
LEMMA OutputLayout ==
  ASSUME printed \in Library, installed \in BOOLEAN, output = Output(printed, installed)
  PROVE  TextOK /\ \E e : Layout(e)
<1> DEFINE seqs == [k \in DOMAIN printed |-> Line(k, printed[k], installed)]
           N == Len(printed)
<1>1. /\ printed \in Seq(PrintedLine)
      /\ printed # <<>> => ~printed[1].dlc
  <2>1. printed \in BoundedSeq(PrintedLine, MaxLines) /\ (printed # <<>> => ~Head(printed).dlc)
    BY DEF Library, PrintedLine
  <2>2. printed \in Seq(PrintedLine)
    BY <2>1, BoundsAssumption, SeqDef DEF BoundedSeq, SeqOf
  <2>3. printed # <<>> => Head(printed) = printed[1]
    BY <2>2
  <2>4. QED
    BY <2>1, <2>2, <2>3
<1>2. /\ N \in Nat /\ DOMAIN printed = 1..N
      /\ \A k \in 1..N : printed[k] \in PrintedLine
      /\ printed # <<>> => N # 0
      /\ printed = <<>> => N = 0
  BY <1>1, LenProperties, ElementOfSeq, EmptySeq
<1>3. \A k \in 1..N : Line(k, printed[k], installed) \in Seq(Token)
  BY <1>2, LineShape DEF LineShaped
<1>4. seqs \in Seq(Seq(Token)) /\ Len(seqs) = N
      /\ \A k \in 1..N : seqs[k] = Line(k, printed[k], installed)
  <2>1. seqs \in [1..N -> Seq(Token)] /\ \A k \in 1..N : seqs[k] = Line(k, printed[k], installed)
    BY <1>2, <1>3
  <2> HIDE DEF seqs, N
  <2>2. seqs \in Seq(Seq(Token))
    BY <1>2, <2>1, SeqDef
  <2>3. DOMAIN seqs = 1..N /\ DOMAIN seqs = 1..Len(seqs) /\ Len(seqs) \in Nat
    BY <2>1, <2>2, LenProperties
  <2>4. Len(seqs) = N
    BY <1>2, <2>3
  <2>5. QED
    BY <2>1, <2>2, <2>4
<1>5. output = FlattenSeq(seqs)
  BY DEF Output
<1> HIDE DEF seqs
<1>6. /\ output \in Seq(Token)
      /\ \E e \in [0..N -> Nat] :
            /\ e[0] = 0
            /\ e[N] = Len(output)
            /\ \A k \in 1..N : e[k] = e[k - 1] + Len(seqs[k])
            /\ \A k \in 1..N : \A j \in 1..Len(seqs[k]) : output[e[k - 1] + j] = seqs[k][j]
            /\ \A k \in 0..N : \A j \in 0..k : e[j] <= e[k]
            /\ \A p \in 1..Len(output) : \E k \in 1..N : e[k - 1] < p /\ p <= e[k]
  <2> HIDE DEF N
  <2> DEFINE out == FlattenSeq(seqs)
             n == Len(seqs)
  <2>1. /\ out \in Seq(Token)
        /\ \E e \in [0..n -> Nat] :
              /\ e[0] = 0
              /\ e[n] = Len(out)
              /\ \A k \in 1..n : e[k] = e[k - 1] + Len(seqs[k])
              /\ \A k \in 1..n : \A j \in 1..Len(seqs[k]) : out[e[k - 1] + j] = seqs[k][j]
              /\ \A k \in 0..n : \A j \in 0..k : e[j] <= e[k]
              /\ \A p \in 1..Len(out) : \E k \in 1..n : e[k - 1] < p /\ p <= e[k]
    BY <1>4, FlattenShape, Zenon
  <2>2. out = output /\ n = N
    BY <1>4, <1>5
  <2> HIDE DEF out, n
  <2>3. PICK e \in [0..n -> Nat] :
              /\ e[0] = 0
              /\ e[n] = Len(out)
              /\ \A k \in 1..n : e[k] = e[k - 1] + Len(seqs[k])
              /\ \A k \in 1..n : \A j \in 1..Len(seqs[k]) : out[e[k - 1] + j] = seqs[k][j]
              /\ \A k \in 0..n : \A j \in 0..k : e[j] <= e[k]
              /\ \A p \in 1..Len(out) : \E k \in 1..n : e[k - 1] < p /\ p <= e[k]
    BY <2>1
  <2>4. /\ e \in [0..N -> Nat]
        /\ e[0] = 0
        /\ e[N] = Len(output)
        /\ \A k \in 1..N : e[k] = e[k - 1] + Len(seqs[k])
        /\ \A k \in 1..N : \A j \in 1..Len(seqs[k]) : output[e[k - 1] + j] = seqs[k][j]
        /\ \A k \in 0..N : \A j \in 0..k : e[j] <= e[k]
        /\ \A p \in 1..Len(output) : \E k \in 1..N : e[k - 1] < p /\ p <= e[k]
    BY <2>2, <2>3
  <2>5. output \in Seq(Token)
    BY <2>1, <2>2
  <2>6. QED
    BY <2>4, <2>5, Zenon
<1>7. PICK e \in [0..N -> Nat] :
            /\ e[0] = 0
            /\ e[N] = Len(output)
            /\ \A k \in 1..N : e[k] = e[k - 1] + Len(seqs[k])
            /\ \A k \in 1..N : \A j \in 1..Len(seqs[k]) : output[e[k - 1] + j] = seqs[k][j]
            /\ \A k \in 0..N : \A j \in 0..k : e[j] <= e[k]
            /\ \A p \in 1..Len(output) : \E k \in 1..N : e[k - 1] < p /\ p <= e[k]
  BY <1>6
<1>8. ASSUME NEW k \in 1..N
      PROVE  LineAt(e, k)
  <2> DEFINE L == Line(k, printed[k], installed)
             n == Len(L)
             x == e[k - 1]
             a == AppIn(printed[k])
  <2>1. printed[k] \in PrintedLine /\ k \in Nat
    BY <1>2
  <2>2. /\ a \in Nat \ {0, 1}
        /\ n = a + (IF installed THEN 6 ELSE 3)
        /\ ~printed[k].dlc => L[1] = Star
        /\ \A j \in 1..Len(printed[k].title) : L[Lead(printed[k]) + j] = printed[k].title[j]
        /\ L[a] = App /\ L[a + 1] = Id(k) /\ L[a + 2] = Bar /\ L[a + 3] = Version
        /\ installed => L[a + 4] = Bar /\ L[a + 5] = Size(k) /\ L[a + 6] = GiB
    <3>1. LineShaped(k, printed[k], installed)
      BY <2>1, LineShape, Zenon
    <3>2. QED
      BY <3>1 DEF LineShaped
  <2>3. e[k] = x + n /\ \A j \in 1..n : output[x + j] = L[j]
    BY <1>4, <1>7
  <2>4. x \in Nat
    BY <1>2, <1>7
  <2>5. \A j \in 1..Len(printed[k].title) : Lead(printed[k]) + j \in 1..(a - 1)
    <3>1. Len(printed[k].title) \in Nat
      BY <2>1, TitleType
    <3>2. QED
      BY <3>1 DEF AppIn, Lead
  <2>6. AppAt(e, k) = x + a
    BY DEF AppAt
  <2> HIDE DEF L, n, x, a
  <2>7. n \in Nat /\ n >= a + 3 /\ (installed => n = a + 6)
        /\ (~printed[k].dlc => output[x + 1] = Star)
        /\ \A j \in 1..Len(printed[k].title) :
              output[x + (Lead(printed[k]) + j)] = printed[k].title[j]
    <3>1. n \in Nat /\ n >= a + 3 /\ (installed => n = a + 6) /\ a \in Nat
      BY <2>2
    <3>2. 1 \in 1..n /\ \A j \in 1..(a - 1) : j \in 1..n
      BY <2>2, <3>1
    <3>3. ~printed[k].dlc => output[x + 1] = Star
      BY <2>2, <2>3, <3>2
    <3>4. \A j \in 1..Len(printed[k].title) :
             output[x + (Lead(printed[k]) + j)] = printed[k].title[j]
      BY <2>2, <2>3, <2>5, <3>2, Zenon
    <3>5. QED
      BY <3>1, <3>3, <3>4
  <2>8. \A j \in 0..3 : a + j \in 1..n /\ x + (a + j) = (x + a) + j
    BY <2>2, <2>4, <2>7
  <2>9. installed => \A j \in 0..6 : a + j \in 1..n /\ x + (a + j) = (x + a) + j
    BY <2>2, <2>4, <2>7
  <2>10. /\ output[x + a] = App /\ output[(x + a) + 1] = Id(k)
         /\ output[(x + a) + 2] = Bar /\ output[(x + a) + 3] = Version
    <3>1. \A j \in 0..3 : output[(x + a) + j] = L[a + j]
      BY <2>3, <2>8
    <3>2. 0 \in 0..3 /\ 1 \in 0..3 /\ 2 \in 0..3 /\ 3 \in 0..3 /\ a + 0 = a /\ (x + a) + 0 = x + a
      BY <2>2, <2>4
    <3>3. QED
      BY <2>2, <3>1, <3>2
  <2>11. installed => /\ output[(x + a) + 4] = Bar /\ output[(x + a) + 5] = Size(k)
                      /\ output[(x + a) + 6] = GiB
    <3>1. installed => \A j \in 0..6 : output[(x + a) + j] = L[a + j]
      BY <2>3, <2>9
    <3>2. 4 \in 0..6 /\ 5 \in 0..6 /\ 6 \in 0..6
      OBVIOUS
    <3>3. QED
      BY <2>2, <3>1, <3>2
  <2>12. e[k] = (x + a) + (IF installed THEN 6 ELSE 3)
    BY <2>2, <2>3, <2>4
  <2>13. QED
    BY <2>6, <2>7, <2>10, <2>11, <2>12 DEF LineAt, x
<1>9. Layout(e)
  BY <1>7, <1>8 DEF Layout
<1>10. TextOK
  BY <1>1, <1>2, <1>6 DEF TextOK
<1>11. QED
  BY <1>9, <1>10

(* The lines follow each other, and hold their parts.                      *)
LEMMA Positions ==
  ASSUME TextOK, NEW e, Layout(e)
  PROVE  /\ Len(output) \in Nat
         /\ \A k \in 1..Len(printed) :
               /\ e[k - 1] \in Nat /\ e[k] \in Nat /\ AppAt(e, k) \in Nat
               /\ Lead(printed[k]) \in {0, 1}
               /\ Len(printed[k].title) \in Nat \ {0}
               /\ AppAt(e, k) = e[k - 1] + Lead(printed[k]) + Len(printed[k].title) + 1
               /\ e[k] = AppAt(e, k) + (IF installed THEN 6 ELSE 3)
               /\ e[k] <= Len(output)
               /\ e[k - 1] + 1 < AppAt(e, k) /\ AppAt(e, k) + 3 <= e[k]
         /\ \A k \in 1..Len(printed) : \A j \in 1..(k - 1) : e[j] <= e[k - 1]
<1> DEFINE N == Len(printed)
<1>1. N \in Nat /\ Len(output) \in Nat
  BY LenProperties DEF TextOK
<1>2. ASSUME NEW k \in 1..N
      PROVE  /\ e[k - 1] \in Nat /\ e[k] \in Nat /\ AppAt(e, k) \in Nat
             /\ Lead(printed[k]) \in {0, 1}
             /\ Len(printed[k].title) \in Nat \ {0}
             /\ AppAt(e, k) = e[k - 1] + Lead(printed[k]) + Len(printed[k].title) + 1
             /\ e[k] = AppAt(e, k) + (IF installed THEN 6 ELSE 3)
             /\ e[k] <= Len(output)
             /\ e[k - 1] + 1 < AppAt(e, k) /\ AppAt(e, k) + 3 <= e[k]
  <2>1. e[k - 1] \in Nat /\ e[k] \in Nat
    <3>1. e \in [0..N -> Nat]
      BY DEF Layout
    <3> HIDE DEF N
    <3>2. k - 1 \in 0..N /\ k \in 0..N
      BY <1>1
    <3>3. QED
      BY <3>1, <3>2
  <2>2. Lead(printed[k]) \in {0, 1}
    BY DEF Lead
  <2>3. Len(printed[k].title) \in Nat \ {0}
    BY TitleType DEF TextOK
  <2>4. AppAt(e, k) = e[k - 1] + Lead(printed[k]) + Len(printed[k].title) + 1
    BY <2>1, <2>2, <2>3 DEF AppAt, AppIn
  <2>5. e[k] = AppAt(e, k) + (IF installed THEN 6 ELSE 3)
    BY DEF Layout, LineAt
  <2>6. e[k] <= Len(output)
    <3>1. e[N] = Len(output) /\ \A h \in 0..N : \A j \in 0..h : e[j] <= e[h]
      BY Zenon DEF Layout
    <3> HIDE DEF N
    <3>2. N \in 0..N /\ k \in 0..N
      BY <1>1
    <3>3. QED
      BY <3>1, <3>2
  <2>7. e[k - 1] + 1 < AppAt(e, k) /\ AppAt(e, k) + 3 <= e[k] /\ AppAt(e, k) \in Nat
    <3> DEFINE a == AppAt(e, k)
               x == e[k - 1]
               d == Lead(printed[k])
               n == Len(printed[k].title)
               z == e[k]
    <3>1. /\ x \in Nat /\ z \in Nat /\ d \in {0, 1} /\ n \in Nat \ {0} /\ a = x + d + n + 1
          /\ z = a + 3 \/ z = a + 6
      BY <2>1, <2>2, <2>3, <2>4, <2>5
    <3> HIDE DEF a, x, d, n, z
    <3>2. x + 1 < a /\ a + 3 <= z /\ a \in Nat
      BY <3>1
    <3>3. QED
      BY <3>2 DEF a, x, z
  <2>8. QED
    BY <2>1, <2>2, <2>3, <2>4, <2>5, <2>6, <2>7
<1>3. ASSUME NEW k \in 1..N, NEW j \in 1..(k - 1)
      PROVE  e[j] <= e[k - 1]
  <2>1. k - 1 \in 0..N /\ j \in 0..(k - 1)
    BY <1>1
  <2>2. QED
    BY <2>1 DEF Layout
<1>4. QED
  BY <1>1, <1>2, <1>3

(* No place is in two lines.                                               *)
LEMMA OneLine ==
  ASSUME TextOK, NEW e, Layout(e), NEW j \in 1..Len(printed), NEW k \in 1..Len(printed),
         NEW p \in Nat, e[j - 1] < p, p <= e[j], e[k - 1] < p, p <= e[k]
  PROVE  j = k
<1>1. /\ e[j - 1] \in Nat /\ e[j] \in Nat /\ e[k - 1] \in Nat /\ e[k] \in Nat
      /\ Len(printed) \in Nat
  BY Positions DEF TextOK
<1>2. ~ (j < k)
  <2>1. j < k => e[j] <= e[k - 1]
    BY <1>1, Positions
  <2>2. QED
    BY <1>1, <2>1
<1>3. ~ (k < j)
  <2>1. k < j => e[k] <= e[j - 1]
    BY <1>1, Positions
  <2>2. QED
    BY <1>1, <2>1
<1>4. QED
  BY <1>1, <1>2, <1>3

(* Where the markers are in the k-th line.                                 *)
LEMMA TokenIn ==
  ASSUME TextOK, NEW e, Layout(e), NEW k \in 1..Len(printed),
         NEW p \in Nat, e[k - 1] < p, p <= e[k]
  PROVE  /\ output[p] = App => p = AppAt(e, k)
         /\ output[p] = GiB => installed /\ p = AppAt(e, k) + 6
         /\ output[p] = Star => p < AppAt(e, k)
         /\ output[p] \in {App, Paren} => p <= AppAt(e, k)
<1> DEFINE x == e[k - 1]
           d == Lead(printed[k])
           n == Len(printed[k].title)
           a == AppAt(e, k)
           y == IF installed THEN 6 ELSE 3
<1>1. /\ x \in Nat /\ d \in {0, 1} /\ n \in Nat \ {0} /\ a = x + d + n + 1
      /\ e[k] = a + y /\ y \in {3, 6} /\ (installed => y = 6) /\ (~installed => y = 3)
  BY Positions
<1>2. /\ LineAt(e, k) /\ k \in Nat
      /\ printed[k] \in PrintedLine
  BY DEF Layout, TextOK
<1> HIDE DEF x, d, n, a, y
<1>3. p = x + 1 \/ (\E j \in 1..n : p = x + (d + j)) \/ (\E j \in 0..y : p = a + j)
  <2>1. p \in (x + 1)..(a + y)
    BY <1>1 DEF x
  <2>2. CASE p <= x + d
    BY <1>1, <2>1, <2>2
  <2>3. CASE x + d < p /\ p < a
    <3>1. p - (x + d) \in 1..n /\ p = x + (d + (p - (x + d)))
      BY <1>1, <2>1, <2>3
    <3>2. QED
      BY <3>1
  <2>4. CASE a <= p
    <3>1. p - a \in 0..y /\ p = a + (p - a)
      BY <1>1, <2>1, <2>4
    <3>2. QED
      BY <3>1
  <2>5. QED
    BY <1>1, <2>1, <2>2, <2>3, <2>4
<1>4. CASE \E j \in 1..n : p = x + (d + j)
  <2>1. PICK j \in 1..n : p = x + (d + j)
    BY <1>4
  <2>2. output[p] = printed[k].title[j] /\ p < a
    <3>1. output[p] = printed[k].title[j]
      BY <1>2, <2>1 DEF LineAt, x, d, n
    <3>2. p < a
      BY <1>1, <2>1
    <3>3. QED
      BY <3>1, <3>2
  <2>3. output[p] \in TitleToken
    BY <1>2, <2>2, TitleType, ElementOfSeq DEF n
  <2>4. output[p] # App /\ output[p] # GiB
    BY <2>3, TokensDiffer
  <2>5. QED
    BY <1>1, <2>2, <2>4 DEF a
<1>5. CASE \E j \in 0..y : p = a + j
  <2>1. PICK j \in 0..y : p = a + j
    BY <1>5
  <2>2. /\ output[a] = App /\ output[a + 1] = Id(k) /\ output[a + 2] = Bar /\ output[a + 3] = Version
        /\ installed => output[a + 4] = Bar /\ output[a + 5] = Size(k) /\ output[a + 6] = GiB
    BY <1>2 DEF LineAt, a
  <2>3. a + 0 = a
    BY <1>1
  <2>4. Id(k) \notin {Star, App, Paren, Bar, GiB} /\ Size(k) \notin {Star, App, Paren, Bar, GiB}
    BY <1>2, TokensDiffer
  <2>5. \/ j = 0 /\ output[p] = App
        \/ j \in 1..6 /\ output[p] \notin {App, Star, Paren, GiB}
        \/ j = 6 /\ installed /\ output[p] = GiB
    BY <1>1, <2>1, <2>2, <2>3, <2>4, TokensDiffer
  <2>6. QED
    BY <1>1, <2>1, <2>5, TokensDiffer DEF a
<1>6. CASE d = 1 /\ p = x + 1
  <2>1. output[p] = Star
    BY <1>2, <1>6 DEF LineAt, x, d, Lead
  <2>2. QED
    BY <1>1, <1>6, <2>1, TokensDiffer DEF a
<1>7. CASE d # 1 /\ p = x + 1
  <2>1. 1 \in 1..n /\ p = x + (d + 1)
    BY <1>1, <1>7
  <2>2. QED
    BY <1>4, <2>1
<1>8. QED
  BY <1>3, <1>4, <1>5, <1>6, <1>7

(* The place of the last "* " in a title; 0 if it has none.                *)
LastStarIn(title) == SelectLastInSeq(title, LAMBDA t : t = Star)

(* It is one, and none is behind it.                                       *)
LEMMA LastStarIsLast ==
  ASSUME NEW l \in PrintedLine
  PROVE  /\ LastStarIn(l.title) \in 0..Len(l.title)
         /\ LastStarIn(l.title) # 0 => l.title[LastStarIn(l.title)] = Star
         /\ \A j \in (LastStarIn(l.title) + 1)..Len(l.title) : l.title[j] # Star
         /\ ~EndsInStar(l) => LastStarIn(l.title) # Len(l.title)
<1> DEFINE n == Len(l.title)
           I == {j \in 1..n : l.title[j] = Star}
           last == LastStarIn(l.title)
<1>1. n \in Nat \ {0}
  BY TitleType
<1>2. last = IF I # {} THEN Max(I) ELSE 0
  BY DEF LastStarIn, SelectLastInSeq
<1>3. EndsInStar(l) <=> l.title[n] = Star
  BY DEF EndsInStar, Last
<1>4. CASE I = {}
  <2>1. last = 0 /\ \A j \in 1..n : l.title[j] # Star
    BY <1>2, <1>4
  <2> HIDE DEF last, I
  <2>2. QED
    BY <1>1, <2>1 DEF last
<1>5. CASE I # {}
  <2>1. I \in SUBSET Nat /\ \A j \in I : j <= n
    BY <1>1
  <2>2. \E m \in I : \A j \in I : m >= j
    <3> HIDE DEF I, n
    <3>1. QED
      BY <1>1, <1>5, <2>1, GreatestNatural
  <2>3. last \in I /\ \A j \in I : last >= j
    BY <1>2, <1>5, <2>2 DEF Max
  <2> HIDE DEF last
  <2>4. last \in 1..n /\ l.title[last] = Star /\ \A j \in 1..n : l.title[j] = Star => last >= j
    BY <2>3
  <2> HIDE DEF I, n
  <2>5. last \in 0..n /\ \A j \in (last + 1)..n : l.title[j] # Star
    BY <1>1, <2>4
  <2>6. ~EndsInStar(l) => last # n
    BY <1>3, <2>4
  <2>7. QED
    BY <2>4, <2>5, <2>6 DEF last, n
<1>6. QED
  BY <1>4, <1>5

-----------------------------------------------------------------------------
(* The pass.                                                               *)

(* The line has a title of its own that the parser can find.               *)
Plain(k) == ~printed[k].dlc /\ ~EndsInStar(printed[k])

(* Where the last "* " before the end of the title is.                     *)
LastStar(e, k) == e[k - 1] + 1 + LastStarIn(printed[k].title)

IdsSoFar(e) ==
    /\ games \in Seq([id : Seq(Token), title : Seq(Token)])
    /\ Len(games) <= Len(printed)
    /\ \A k \in 1..Len(printed) : AppAt(e, k) < i <=> k <= Len(games)
    /\ \A k \in 1..Len(games) : games[k].id = <<Id(k)>>
    /\ game_id = IF Len(games) = 0 THEN <<>> ELSE <<Id(Len(games))>>

SizesSoFar(e) ==
    installed =>
        /\ sizes \in Seq(Seq(Seq(Token)))
        /\ Len(sizes) <= Len(printed)
        /\ \A k \in 1..Len(printed) : AppAt(e, k) + 6 < i <=> k <= Len(sizes)
        /\ \A k \in 1..Len(sizes) : sizes[k] = <<<<Id(k)>>, <<Size(k)>>>>

NameSoFar(e) ==
    /\ game_name \in Seq(Token)
    /\ i > 1 => game_name # <<>>
    /\ \A k \in 1..Len(printed) :
          Plain(k) /\ LastStar(e, k) < i /\ i <= AppAt(e, k) => game_name = Shown(printed[k].title)

TitlesSoFar == \A k \in 1..Len(games) : Plain(k) => games[k].title = Shown(printed[k].title)

Progress(e) ==
    /\ i \in 1..(Len(output) + 1)
    /\ failed \in BOOLEAN
    /\ failed => Len(printed) # 0 /\ EndsInStar(printed[Len(printed)])
    /\ ~failed => IdsSoFar(e) /\ SizesSoFar(e) /\ NameSoFar(e) /\ TitlesSoFar

IInv == TextOK /\ \E e : Layout(e) /\ Progress(e)

(* Nothing is listed in the initial state.                                 *)
LEMMA InitIInv == Init => IInv
<1> SUFFICES ASSUME Init
             PROVE  IInv
  OBVIOUS
<1>1. TextOK /\ \E e : Layout(e)
  BY OutputLayout DEF Init
<1>2. PICK e : Layout(e)
  BY <1>1
<1>3. /\ Len(output) \in Nat
      /\ \A k \in 1..Len(printed) : AppAt(e, k) \in Nat /\ AppAt(e, k) > 1 /\ e[k - 1] \in Nat
  <2>1. Len(output) \in Nat
    BY <1>1, <1>2, Positions
  <2>2. ASSUME NEW k \in 1..Len(printed)
        PROVE  AppAt(e, k) \in Nat /\ AppAt(e, k) > 1 /\ e[k - 1] \in Nat
    <3> DEFINE a == AppAt(e, k)
               x == e[k - 1]
               d == Lead(printed[k])
               n == Len(printed[k].title)
    <3>1. a \in Nat /\ x \in Nat /\ d \in {0, 1} /\ n \in Nat \ {0} /\ a = x + d + n + 1
      BY <1>1, <1>2, Positions
    <3> HIDE DEF a, x, d, n
    <3>2. a > 1
      BY <3>1
    <3>3. QED
      BY <3>1, <3>2 DEF a, x
  <2>3. QED
    BY <2>1, <2>2
<1>4. /\ i = 1 /\ game_name = <<>> /\ game_id = <<>> /\ games = <<>> /\ sizes = <<>> /\ failed = FALSE
  BY DEF Init
<1>5. <<>> \in Seq(Token) /\ Len(games) = 0 /\ Len(sizes) = 0
      /\ games \in Seq([id : Seq(Token), title : Seq(Token)]) /\ sizes \in Seq(Seq(Seq(Token)))
  BY <1>4, EmptySeq
<1>6. IdsSoFar(e)
  BY <1>1, <1>3, <1>4, <1>5 DEF IdsSoFar, TextOK
<1>7. SizesSoFar(e)
  BY <1>1, <1>3, <1>4, <1>5 DEF SizesSoFar, TextOK
<1>8. NameSoFar(e)
  <2>1. ASSUME NEW k \in 1..Len(printed)
        PROVE  ~ (LastStar(e, k) < i)
    <3>1. LastStarIn(printed[k].title) \in Nat
      <4>1. printed[k] \in PrintedLine
        BY <1>1 DEF TextOK
      <4>2. QED
        BY <4>1, LastStarIsLast, TitleType
    <3>2. QED
      BY <1>3, <1>4, <3>1 DEF LastStar
  <2>2. QED
    BY <1>4, <1>5, <2>1 DEF NameSoFar
<1>9. TitlesSoFar
  BY <1>5 DEF TitlesSoFar
<1>10. Progress(e)
  <2>1. i \in 1..(Len(output) + 1)
    BY <1>3, <1>4
  <2>2. QED
    BY <1>4, <1>6, <1>7, <1>8, <1>9, <2>1, Zenon DEF Progress
<1>11. QED
  BY <1>1, <1>2, <1>10 DEF IInv

(* What a round knows of the place it looks at.                            *)
LEMMA Here ==
  ASSUME TextOK, NEW e, Layout(e), Progress(e), i <= Len(output)
  PROVE  /\ i \in 1..Len(output) /\ Len(output) \in Nat
         /\ \E k \in 1..Len(printed) : e[k - 1] < i /\ i <= e[k]
<1>1. i \in 1..Len(output) /\ Len(output) \in Nat
  BY Positions DEF Progress
<1>2. QED
  BY <1>1 DEF Layout

(* At an App the next line is listed, with its id.                         *)
LEMMA AtApp ==
  ASSUME TextOK, NEW e, Layout(e), Progress(e), ~failed, i <= Len(output), output[i] = App
  PROVE  /\ Len(games) \in Nat
         /\ Len(games) + 1 \in 1..Len(printed)
         /\ i = AppAt(e, Len(games) + 1)
         /\ MarkerFrom({Bar}, i + 1) = i + 2
         /\ SubSeq(output, i + 1, MarkerFrom({Bar}, i + 1) - 1) = <<Id(Len(games) + 1)>>
<1> DEFINE n == Len(games)
<1>1. /\ i \in 1..Len(output) /\ Len(output) \in Nat /\ n \in Nat /\ Len(printed) \in Nat
      /\ n <= Len(printed) /\ IdsSoFar(e)
      /\ \A k \in 1..Len(printed) : AppAt(e, k) < i <=> k <= n
  BY Here, LenProperties DEF Progress, IdsSoFar, TextOK
<1>2. PICK k \in 1..Len(printed) : e[k - 1] < i /\ i <= e[k]
  BY Here
<1>3. i = AppAt(e, k)
  BY <1>1, <1>2, TokenIn
<1>4. k = n + 1
  <2>1. ~ (k <= n)
    BY <1>1, <1>3
  <2>2. ASSUME k > n + 1
        PROVE  FALSE
    <3>1. n + 1 \in 1..Len(printed) /\ n + 1 \in 1..(k - 1)
      BY <1>1, <2>2
    <3>2. e[n + 1] <= e[k - 1]
      BY <3>1, Positions
    <3>3. /\ AppAt(e, n + 1) + 3 <= e[n + 1]
          /\ AppAt(e, n + 1) \in Nat /\ e[n + 1] \in Nat /\ e[k - 1] \in Nat
      BY <3>1, Positions
    <3>4. AppAt(e, n + 1) < i
      BY <1>1, <1>2, <3>2, <3>3
    <3>5. QED
      BY <1>1, <3>1, <3>4
  <2>3. QED
    BY <1>1, <2>1, <2>2
<1>5. /\ output[i + 1] = Id(k) /\ output[i + 2] = Bar /\ k \in Nat
      /\ i + 2 <= Len(output)
  <2>1. output[i + 1] = Id(k) /\ output[i + 2] = Bar
    BY <1>3 DEF Layout, LineAt
  <2>2. e[k] \in Nat /\ e[k] = i + (IF installed THEN 6 ELSE 3) /\ e[k] <= Len(output)
    BY <1>3, Positions
  <2>3. QED
    BY <1>1, <2>1, <2>2
<1>6. MarkerFrom({Bar}, i + 1) = i + 2
  <2> DEFINE m == MarkerFrom({Bar}, i + 1)
  <2>1. Id(k) # Bar
    BY <1>5, TokensDiffer
  <2>2. \/ m = 0 /\ \A j \in (i + 1)..Len(output) : output[j] \notin {Bar}
        \/ /\ m \in (i + 1)..Len(output) /\ output[m] \in {Bar}
           /\ \A j \in (i + 1)..(m - 1) : output[j] \notin {Bar}
    BY <1>1, MarkerFromFirst
  <2> HIDE DEF m
  <2>3. i + 2 \in (i + 1)..Len(output)
    BY <1>1, <1>5
  <2>4. m \in (i + 1)..Len(output) /\ m # i + 1 /\ ~ (i + 2 < m)
    BY <1>1, <1>5, <2>1, <2>2, <2>3
  <2>5. m = i + 2
    BY <1>1, <2>4
  <2>6. QED
    BY <2>5 DEF m
<1>7. SubSeq(output, i + 1, i + 1) = <<output[i + 1]>>
  <2>1. i + 1 \in 1..Len(output) /\ output \in Seq(Token)
    BY <1>1, <1>5 DEF TextOK
  <2>2. QED
    BY <2>1, OneElement
<1>8. (i + 2) - 1 = i + 1
  BY <1>1
<1>9. QED
  BY <1>1, <1>2, <1>3, <1>4, <1>5, <1>6, <1>7, <1>8

(* At a GiB the size of the last line listed is added.                     *)
LEMMA AtGiB ==
  ASSUME TextOK, NEW e, Layout(e), Progress(e), ~failed, i <= Len(output), output[i] = GiB
  PROVE  /\ installed
         /\ Len(sizes) \in Nat
         /\ Len(sizes) + 1 \in 1..Len(printed)
         /\ i = AppAt(e, Len(sizes) + 1) + 6
         /\ game_id = <<Id(Len(sizes) + 1)>>
         /\ SubSeq(output, i - 1, i - 1) = <<Size(Len(sizes) + 1)>>
<1> DEFINE n == Len(sizes)
<1>1. PICK k \in 1..Len(printed) : e[k - 1] < i /\ i <= e[k]
  BY Here
<1>2. installed /\ i = AppAt(e, k) + 6
  BY <1>1, Here, TokenIn
<1>3. /\ i \in 1..Len(output) /\ Len(output) \in Nat /\ n \in Nat /\ Len(printed) \in Nat
      /\ n <= Len(printed) /\ Len(games) \in Nat /\ Len(games) <= Len(printed)
      /\ \A j \in 1..Len(printed) : AppAt(e, j) + 6 < i <=> j <= n
      /\ \A j \in 1..Len(printed) : AppAt(e, j) < i <=> j <= Len(games)
      /\ game_id = IF Len(games) = 0 THEN <<>> ELSE <<Id(Len(games))>>
  <2>1. i \in 1..Len(output) /\ Len(output) \in Nat /\ IdsSoFar(e) /\ SizesSoFar(e)
    BY Here DEF Progress
  <2>2. n \in Nat /\ Len(games) \in Nat /\ Len(printed) \in Nat
    BY <1>2, <2>1, LenProperties DEF IdsSoFar, SizesSoFar, TextOK
  <2>3. QED
    BY <1>2, <2>1, <2>2 DEF IdsSoFar, SizesSoFar
<1>4. \A j \in 1..Len(printed) : j < k => AppAt(e, j) + 6 < i
  <2>1. ASSUME NEW j \in 1..Len(printed), j < k
        PROVE  AppAt(e, j) + 6 < i
    <3>1. j \in 1..(k - 1)
      BY <1>3, <2>1
    <3>2. e[j] <= e[k - 1]
      BY <3>1, Positions
    <3>3. e[j] = AppAt(e, j) + 6 /\ e[j] \in Nat /\ e[k - 1] \in Nat /\ AppAt(e, j) \in Nat
      BY <1>2, Positions
    <3>4. QED
      BY <1>1, <1>3, <3>2, <3>3
  <2>2. QED
    BY <2>1
<1>5. k = n + 1
  <2>1. ~ (k <= n)
    BY <1>2, <1>3
  <2>2. ASSUME k > n + 1
        PROVE  FALSE
    <3>1. n + 1 \in 1..Len(printed) /\ n + 1 < k
      BY <1>3, <2>2
    <3>2. AppAt(e, n + 1) + 6 < i
      BY <1>4, <3>1
    <3>3. QED
      BY <1>3, <3>1, <3>2
  <2>3. QED
    BY <1>3, <2>1, <2>2
<1>6. k = Len(games)
  <2>1. AppAt(e, k) \in Nat /\ e[k] = AppAt(e, k) + 6 /\ e[k] \in Nat /\ e[k] <= Len(output)
    BY <1>2, Positions
  <2>2. k <= Len(games)
    BY <1>2, <1>3, <2>1
  <2>3. ASSUME k < Len(games)
        PROVE  FALSE
    <3>1. k + 1 \in 1..Len(printed) /\ k \in 1..((k + 1) - 1) /\ (k + 1) - 1 = k
      BY <1>3, <2>3
    <3>2. e[k] + 1 < AppAt(e, k + 1) /\ AppAt(e, k + 1) \in Nat
      BY <3>1, Positions
    <3>3. AppAt(e, k + 1) < i
      BY <1>3, <2>3, <3>1
    <3>4. QED
      BY <1>2, <1>3, <2>1, <3>2, <3>3
  <2>4. QED
    BY <1>3, <2>2, <2>3
<1>7. /\ output[i - 1] = Size(k)
      /\ i - 1 \in 1..Len(output) /\ output \in Seq(Token)
  <2>1. output[AppAt(e, k) + 5] = Size(k) /\ AppAt(e, k) \in Nat
    BY <1>2, Positions DEF Layout, LineAt
  <2>2. i - 1 = AppAt(e, k) + 5 /\ i - 1 \in 1..Len(output)
    BY <1>2, <1>3, <2>1
  <2>3. QED
    BY <2>1, <2>2 DEF TextOK
<1>8. SubSeq(output, i - 1, i - 1) = <<Size(k)>>
  BY <1>7, OneElement
<1>9. game_id = <<Id(k)>>
  BY <1>3, <1>6
<1>10. QED
  BY <1>2, <1>3, <1>5, <1>8, <1>9

(* The last "* " of a line of a game, and what is behind it.               *)
LEMMA LastStarAt ==
  ASSUME TextOK, NEW e, Layout(e), NEW k \in 1..Len(printed), Plain(k)
  PROVE  LET title == printed[k].title
             last == LastStarIn(title)
             q == LastStar(e, k)
         IN  /\ last \in 0..(Len(title) - 1)
             /\ q \in Nat /\ e[k - 1] < q
             /\ AppAt(e, k) = q + (Len(title) - last) + 1
             /\ output[q] = Star
             /\ \A j \in 1..(Len(title) - last) : /\ output[q + j] = title[last + j]
                                                  /\ title[last + j] # Star
                                                  /\ title[last + j] # App
<1> DEFINE title == printed[k].title
           n == Len(title)
           last == LastStarIn(title)
           q == LastStar(e, k)
           x == e[k - 1]
           a == AppAt(e, k)
<1>1. printed[k] \in PrintedLine /\ LineAt(e, k) /\ ~printed[k].dlc /\ ~EndsInStar(printed[k])
  BY DEF TextOK, Layout, Plain
<1>2. Lead(printed[k]) = 1
  BY <1>1 DEF Lead
<1>3. x \in Nat /\ n \in Nat \ {0} /\ a = x + 1 + n + 1
  BY <1>2, Positions
<1>4. /\ last \in 0..n
      /\ last # 0 => title[last] = Star
      /\ \A j \in (last + 1)..n : title[j] # Star
      /\ last # n
  BY <1>1, LastStarIsLast
<1>5. q = x + 1 + last
  BY DEF LastStar
<1>6. output[x + 1] = Star /\ \A j \in 1..n : output[x + (1 + j)] = title[j]
  BY <1>1, <1>2 DEF LineAt
<1>7. \A j \in 1..n : title[j] # App
  <2>1. title \in Seq(TitleToken)
    BY <1>1, TitleType
  <2>2. \A j \in 1..n : title[j] \in TitleToken
    BY <2>1, ElementOfSeq
  <2>3. QED
    BY <2>2, TokensDiffer
<1> HIDE DEF n, last, q, x, a, title
<1>8. last \in 0..(n - 1) /\ q \in Nat /\ x < q /\ a = q + (n - last) + 1
  BY <1>3, <1>4, <1>5
<1>9. output[q] = Star
  <2>1. CASE last = 0
    <3>1. q = x + 1
      BY <1>3, <1>5, <2>1
    <3>2. QED
      BY <1>6, <3>1
  <2>2. CASE last # 0
    <3>1. last \in 1..n /\ q = x + (1 + last)
      BY <1>3, <1>4, <1>5, <2>2
    <3>2. QED
      BY <1>4, <1>6, <2>2, <3>1
  <2>3. QED
    BY <2>1, <2>2
<1>10. ASSUME NEW j \in 1..(n - last)
       PROVE  output[q + j] = title[last + j] /\ title[last + j] # Star /\ title[last + j] # App
  <2>1. /\ last + j \in 1..n /\ last + j \in (last + 1)..n
        /\ q + j = x + (1 + (last + j))
    BY <1>3, <1>4, <1>5
  <2>2. QED
    BY <1>4, <1>6, <1>7, <2>1
<1>11. QED
  BY <1>8, <1>9, <1>10 DEF n, last, q, x, a, title

(* From there the parser takes what Shown says, and never fails.           *)
LEMMA ShownIsTaken ==
  ASSUME TextOK, NEW e, Layout(e), NEW k \in 1..Len(printed), Plain(k)
  PROVE  LET q == LastStar(e, k)
             m == MarkerFrom({App, Paren}, q + 2)
         IN  m # 0 /\ SubSeq(output, q + 1, m - 1) = Shown(printed[k].title)
<1> DEFINE title == printed[k].title
           n == Len(title)
           last == LastStarIn(title)
           q == LastStar(e, k)
           a == AppAt(e, k)
           r == n - last
           rest == SubSeq(title, last + 1, n)
           I == {j \in 2..r : rest[j] = Paren}
           m == MarkerFrom({App, Paren}, q + 2)
<1>1. /\ last \in 0..(n - 1) /\ q \in Nat /\ a = q + r + 1 /\ output[q] = Star
      /\ \A j \in 1..r : output[q + j] = title[last + j] /\ title[last + j] # App
  BY LastStarAt
<1>2. title \in Seq(Token) /\ n \in Nat \ {0} /\ output \in Seq(Token) /\ output[a] = App
  BY TitleType DEF TextOK, Layout, LineAt
<1>3. a \in Nat /\ Len(output) \in Nat /\ a <= Len(output)
  <2>1. a \in Nat /\ e[k] \in Nat /\ a + 3 <= e[k] /\ e[k] <= Len(output) /\ Len(output) \in Nat
    BY Positions
  <2> HIDE DEF a
  <2>2. QED
    BY <2>1
<1>4. /\ rest \in Seq(Token) /\ Len(rest) = r /\ r \in Nat \ {0}
      /\ \A j \in 1..r : rest[j] = title[last + j]
  <2> HIDE DEF title, last
  <2>1. \A j \in (last + 1)..n : title[j] \in Token
    BY <1>1, <1>2, ElementOfSeq
  <2>2. last + 1 \in Int /\ n \in Int /\ n - (last + 1) + 1 = r /\ r \in Nat \ {0} /\ last + 1 <= n
    BY <1>1, <1>2
  <2>3. /\ rest \in Seq(Token) /\ Len(rest) = r
        /\ \A j \in 1..r : rest[j] = title[(last + 1) + j - 1]
    BY <2>1, <2>2, SubSeqProperties
  <2>4. \A j \in 1..r : (last + 1) + j - 1 = last + j
    BY <1>1, <2>2
  <2>5. QED
    BY <2>2, <2>3, <2>4
<1>5. \A j \in 1..r : output[q + j] = rest[j] /\ rest[j] # App
  BY <1>1, <1>4
<1>6. Shown(title) = LET cut == IF I # {} THEN Min(I) ELSE 0
                     IN  IF cut = 0 THEN rest ELSE SubSeq(rest, 1, cut - 1)
  BY <1>4 DEF Shown, LastStarIn, SelectInSubSeq
<1>7. \/ m = 0 /\ \A j \in (q + 2)..Len(output) : output[j] \notin {App, Paren}
      \/ /\ m \in (q + 2)..Len(output) /\ output[m] \in {App, Paren}
         /\ \A j \in (q + 2)..(m - 1) : output[j] \notin {App, Paren}
  <2>1. q + 2 \in Nat
    BY <1>1
  <2> HIDE DEF q
  <2> DEFINE p == q + 2
  <2> HIDE DEF p
  <2>2. p \in Nat /\ Len(output) \in Nat
    BY <1>3, <2>1 DEF p
  <2>3. LET w == MarkerFrom({App, Paren}, p)
        IN  \/ w = 0 /\ \A j \in p..Len(output) : output[j] \notin {App, Paren}
            \/ /\ w \in p..Len(output) /\ output[w] \in {App, Paren}
               /\ \A j \in p..(w - 1) : output[j] \notin {App, Paren}
    BY <2>2, MarkerFromFirst
  <2>4. QED
    BY <2>3, Zenon DEF p
<1> HIDE DEF title, n, last, q, a, r, rest, m
<1>8. a \in (q + 2)..Len(output)
  BY <1>1, <1>3, <1>4
<1>9. /\ m \in (q + 2)..a /\ output[m] \in {App, Paren}
      /\ \A j \in (q + 2)..(m - 1) : output[j] \notin {App, Paren}
  BY <1>1, <1>2, <1>3, <1>7, <1>8
<1>10. ASSUME NEW c \in 1..r
       PROVE  SubSeq(output, q + 1, q + c) = SubSeq(rest, 1, c)
  <2>0. /\ q \in Nat /\ r \in Nat /\ a = q + r + 1 /\ a \in Nat
        /\ Len(output) \in Nat /\ a <= Len(output)
    BY <1>1, <1>3, <1>4
  <2>1. /\ q + 1 \in Int /\ q + c \in Int /\ q + 1 <= q + c /\ (q + c) - (q + 1) + 1 = c
        /\ q + c <= Len(output) /\ q + 1 >= 1 /\ c \in Nat
    BY <2>0
  <2>2. \A j \in (q + 1)..(q + c) : output[j] \in Token
    BY <1>2, <1>3, <2>1, ElementOfSeq
  <2>3. /\ SubSeq(output, q + 1, q + c) \in Seq(Token)
        /\ Len(SubSeq(output, q + 1, q + c)) = c
        /\ \A j \in 1..c : SubSeq(output, q + 1, q + c)[j] = output[(q + 1) + j - 1]
    BY <2>1, <2>2, SubSeqProperties
  <2>4. \A j \in 1..c : rest[j] \in Token /\ j \in 1..r
    BY <1>4, ElementOfSeq
  <2>5. /\ SubSeq(rest, 1, c) \in Seq(Token)
        /\ Len(SubSeq(rest, 1, c)) = c
        /\ \A j \in 1..c : SubSeq(rest, 1, c)[j] = rest[1 + j - 1]
    BY <2>1, <2>4, SubSeqProperties
  <2>6. ASSUME NEW j \in 1..c
        PROVE  SubSeq(output, q + 1, q + c)[j] = SubSeq(rest, 1, c)[j]
    <3>1. (q + 1) + j - 1 = q + j /\ 1 + j - 1 = j
      BY <1>1
    <3>2. QED
      BY <1>5, <2>3, <2>4, <2>5, <3>1
  <2>7. QED
    BY <2>3, <2>5, <2>6, SeqEqual
<1>11. CASE I = {}
  <2>1. m = a
    <3>1. ASSUME m # a
          PROVE  FALSE
      <4>0. /\ q \in Nat /\ r \in Nat /\ a = q + r + 1 /\ m \in (q + 2)..a /\ m # a
        BY <1>1, <1>4, <1>9, <3>1, Zenon
      <4>1. m - q \in 2..r /\ m - q \in 1..r /\ q + (m - q) = m
        BY <4>0
      <4>2. rest[m - q] # Paren /\ output[m] = rest[m - q] /\ rest[m - q] # App
        BY <1>5, <1>11, <4>1
      <4>3. QED
        BY <1>9, <4>2
    <3>2. QED
      BY <3>1
  <2>2. m - 1 = q + r /\ r \in 1..r /\ m # 0
    BY <1>1, <1>4, <2>1
  <2>3. SubSeq(rest, 1, r) = rest
    BY <1>4, SubSeqFull
  <2>4. Shown(title) = rest
    BY <1>6, <1>11
  <2>5. QED
    BY <1>10, <2>2, <2>3, <2>4 DEF q, m, title
<1>12. CASE I # {}
  <2> DEFINE c == Min(I)
  <2>1. c \in I /\ \A j \in I : c <= j
    <3>1. I \in SUBSET Nat
      OBVIOUS
    <3> HIDE DEF I
    <3>2. \E x \in I : \A j \in I : x <= j
      BY <1>12, <3>1, LeastNatural
    <3>3. QED
      BY <3>2 DEF Min
  <2> HIDE DEF c
  <2>2. c \in 2..r /\ rest[c] = Paren /\ \A j \in 2..r : rest[j] = Paren => c <= j
    BY <2>1
  <2>3. m = q + c
    <3>1. q + c \in (q + 2)..Len(output) /\ output[q + c] = Paren
      <4>1. c \in 1..r /\ q + c \in (q + 2)..a
        BY <1>1, <1>4, <2>2
      <4>2. QED
        BY <1>1, <1>3, <1>5, <2>2, <4>1
    <3>2. ~ (q + c < m)
      BY <1>1, <1>3, <1>9, <3>1
    <3>3. ASSUME m < q + c
          PROVE  FALSE
      <4>1. m - q \in 2..r /\ m - q \in 1..r /\ q + (m - q) = m /\ m - q < c
        BY <1>1, <1>3, <1>4, <1>9, <2>2, <3>3
      <4>2. rest[m - q] # Paren /\ output[m] = rest[m - q] /\ rest[m - q] # App
        BY <1>5, <2>2, <4>1
      <4>3. QED
        BY <1>9, <4>2
    <3>4. m \in Nat /\ q + c \in Nat
      BY <1>1, <1>3, <1>9, <3>1
    <3>5. QED
      BY <3>2, <3>3, <3>4
  <2>4. c - 1 \in 1..r /\ m - 1 = q + (c - 1) /\ m # 0 /\ c # 0
    BY <1>1, <1>4, <2>2, <2>3
  <2>5. Shown(title) = SubSeq(rest, 1, c - 1)
    BY <1>6, <1>12, <2>4 DEF c
  <2>6. QED
    BY <1>10, <2>4, <2>5 DEF q, m, title
<1>13. QED
  BY <1>11, <1>12

(* At a "* " of a title the parser finds where a name ends, or the text    *)
(* ends in it.  At the last one before an App, what it takes is the title. *)
LEMMA AtStar ==
  ASSUME TextOK, NEW e, Layout(e), Progress(e), ~failed, i <= Len(output), output[i] = Star
  PROVE  /\ NameEnd = 0 => Len(printed) # 0 /\ EndsInStar(printed[Len(printed)])
         /\ NameEnd # 0 =>
               /\ SubSeq(output, NameStart, NameEnd - 1) \in Seq(Token)
               /\ SubSeq(output, NameStart, NameEnd - 1) # <<>>
               /\ \A k \in 1..Len(printed) :
                     Plain(k) /\ LastStar(e, k) < i + 1 /\ i + 1 <= AppAt(e, k) =>
                         SubSeq(output, NameStart, NameEnd - 1) = Shown(printed[k].title)
<1> DEFINE m == NameEnd
           taken == SubSeq(output, NameStart, NameEnd - 1)
           N == Len(printed)
<1>1. i \in 1..Len(output) /\ Len(output) \in Nat /\ N \in Nat /\ output \in Seq(Token)
  BY Here DEF TextOK
<1>2. \/ m = 0 /\ \A j \in (i + 2)..Len(output) : output[j] \notin {App, Paren}
      \/ /\ m \in (i + 2)..Len(output) /\ output[m] \in {App, Paren}
         /\ \A j \in (i + 2)..(m - 1) : output[j] \notin {App, Paren}
  <2> DEFINE p == i + 2
  <2>1. p \in Nat
    BY <1>1
  <2> HIDE DEF p
  <2>2. LET w == MarkerFrom({App, Paren}, p)
        IN  \/ w = 0 /\ \A j \in p..Len(output) : output[j] \notin {App, Paren}
            \/ /\ w \in p..Len(output) /\ output[w] \in {App, Paren}
               /\ \A j \in p..(w - 1) : output[j] \notin {App, Paren}
    BY <1>1, <2>1, MarkerFromFirst
  <2>3. QED
    BY <2>2, Zenon DEF p, NameEnd
<1> HIDE DEF m
<1>3. PICK k \in 1..N : e[k - 1] < i /\ i <= e[k]
  BY Here
<1>4. i < AppAt(e, k)
  BY <1>1, <1>3, TokenIn
<1>5. ASSUME m = 0
      PROVE  N # 0 /\ EndsInStar(printed[N])
  <2>1. \A j \in 1..N : AppAt(e, j) \in Nat /\ AppAt(e, j) <= i + 1
    <3>1. ASSUME NEW j \in 1..N
          PROVE  AppAt(e, j) \in Nat /\ AppAt(e, j) <= i + 1
      <4> DEFINE a == AppAt(e, j)
      <4>1. a \in Nat /\ e[j] \in Nat /\ a + 3 <= e[j] /\ e[j] <= Len(output) /\ output[a] = App
        BY Positions DEF Layout, LineAt
      <4> HIDE DEF a
      <4>2. a \notin (i + 2)..Len(output)
        BY <1>1, <1>2, <1>5, <4>1
      <4>3. a \in Nat /\ a <= i + 1
        BY <1>1, <4>1, <4>2
      <4>4. QED
        BY <4>3 DEF a
    <3>2. QED
      BY <3>1
  <2>2. AppAt(e, k) = i + 1
    BY <1>1, <1>4, <2>1
  <2>3. k = N
    <3>1. ASSUME k < N
          PROVE  FALSE
      <4>1. N \in 1..N /\ k \in 1..(N - 1)
        BY <1>1, <3>1
      <4>2. e[k] <= e[N - 1]
        BY <4>1, Positions
      <4>3. e[N - 1] + 1 < AppAt(e, N) /\ AppAt(e, N) \in Nat /\ e[N - 1] \in Nat
        BY <4>1, Positions
      <4>4. AppAt(e, k) + 3 <= e[k] /\ e[k] \in Nat
        BY Positions
      <4>5. AppAt(e, N) <= i + 1
        BY <2>1, <4>1
      <4>6. QED
        BY <1>1, <2>2, <4>2, <4>3, <4>4, <4>5
    <3>2. QED
      BY <1>1, <3>1
  <2>4. printed[k].title[Len(printed[k].title)] = Star
    <3> DEFINE x == e[k - 1]
               d == Lead(printed[k])
               n == Len(printed[k].title)
    <3>1. x \in Nat /\ d \in {0, 1} /\ n \in Nat \ {0} /\ AppAt(e, k) = x + d + n + 1
      BY Positions
    <3>2. \A j \in 1..n : output[x + (d + j)] = printed[k].title[j]
      BY DEF Layout, LineAt
    <3> HIDE DEF x, d, n
    <3>3. i = x + (d + n) /\ n \in 1..n
      BY <1>1, <2>2, <3>1
    <3>4. printed[k].title[n] = Star
      BY <3>2, <3>3
    <3>5. QED
      BY <3>4 DEF n
  <2>5. EndsInStar(printed[k])
    BY <2>4 DEF EndsInStar, Last
  <2>6. QED
    BY <1>1, <2>3, <2>5
<1>6. ASSUME m # 0
      PROVE  taken \in Seq(Token) /\ taken # <<>>
  <2>1. m \in (i + 2)..Len(output)
    BY <1>2, <1>6
  <2>2. /\ i + 1 \in Int /\ m - 1 \in Int /\ i + 1 <= m - 1 /\ m - 1 <= Len(output)
        /\ (m - 1) - (i + 1) + 1 # 0
    BY <1>1, <2>1
  <2>3. \A j \in (i + 1)..(m - 1) : output[j] \in Token
    <3>1. \A j \in (i + 1)..(m - 1) : j \in 1..Len(output)
      BY <1>1, <2>1
    <3>2. QED
      BY <1>1, <3>1, ElementOfSeq
  <2>4. /\ SubSeq(output, i + 1, m - 1) \in Seq(Token)
        /\ Len(SubSeq(output, i + 1, m - 1)) = (m - 1) - (i + 1) + 1
    BY <2>2, <2>3, SubSeqProperties
  <2>5. SubSeq(output, i + 1, m - 1) # <<>>
    BY <2>2, <2>4, EmptySeq
  <2>6. QED
    BY <2>4, <2>5 DEF m, NameStart
<1>7. ASSUME NEW h \in 1..N, Plain(h), LastStar(e, h) < i + 1, i + 1 <= AppAt(e, h)
      PROVE  taken = Shown(printed[h].title)
  <2> DEFINE q == LastStar(e, h)
             last == LastStarIn(printed[h].title)
             n == Len(printed[h].title)
             r == n - last
             a == AppAt(e, h)
  <2>1. /\ last \in 0..(n - 1) /\ q \in Nat /\ a = q + r + 1
        /\ \A j \in 1..r : output[q + j] # Star
    <3>1. /\ last \in 0..(n - 1) /\ q \in Nat /\ a = q + r + 1
          /\ \A j \in 1..r : output[q + j] = printed[h].title[last + j] /\ printed[h].title[last + j] # Star
      BY <1>7, LastStarAt
    <3>2. QED
      BY <3>1, Zenon
  <2>2. n \in Nat
    BY Positions
  <2>3. q < i + 1 /\ i + 1 <= a
    BY <1>7
  <2>4. q = i
    <3> HIDE DEF q, last, n, a
    <3>1. ASSUME q # i
          PROVE  FALSE
      <4>1. i - q \in 1..r /\ q + (i - q) = i
        BY <1>1, <2>1, <2>2, <2>3, <3>1
      <4>2. QED
        BY <2>1, <4>1
    <3>2. QED
      BY <3>1
  <2>5. SubSeq(output, q + 1, MarkerFrom({App, Paren}, q + 2) - 1) = Shown(printed[h].title)
    BY <1>7, ShownIsTaken
  <2> HIDE DEF q
  <2>6. QED
    BY <2>4, <2>5, Zenon DEF NameStart, NameEnd
<1>8. QED
  BY <1>5, <1>6, <1>7, Zenon DEF m

(* The first of the lines is that of a game.                               *)
LEMMA FirstIsStar ==
  ASSUME TextOK, NEW e, Layout(e), Progress(e), i <= Len(output), output[i] # Star
  PROVE  i > 1
<1>1. i \in 1..Len(output) /\ Len(output) \in Nat
  BY Here
<1>2. PICK k \in 1..Len(printed) : e[k - 1] < i /\ i <= e[k]
  BY Here
<1>3. ASSUME i = 1
      PROVE  FALSE
  <2>1. e[k - 1] = 0 /\ Len(printed) \in Nat
    BY <1>2, <1>3, Positions DEF TextOK
  <2>2. 1 \in 1..Len(printed)
    BY <2>1
  <2>3. k = 1
    <3>1. ASSUME k # 1
          PROVE  FALSE
      <4>1. e[1] <= e[k - 1]
        BY <2>1, <3>1, Positions
      <4>2. e[1] \in Nat /\ AppAt(e, 1) \in Nat /\ AppAt(e, 1) + 3 <= e[1]
        BY <2>2, Positions
      <4>3. QED
        BY <2>1, <4>1, <4>2
    <3>2. QED
      BY <3>1
  <2>4. ~printed[1].dlc
    BY <2>1, <2>2 DEF TextOK
  <2>5. output[e[1 - 1] + 1] = Star
    BY <2>2, <2>4 DEF Layout, LineAt
  <2>6. QED
    BY <1>3, <2>1, <2>3, <2>5
<1>4. QED
  BY <1>1, <1>3

(* Each of the places is only passed by a round that looks at it.          *)
LEMMA Passed ==
  ASSUME TextOK, NEW e, Layout(e), Progress(e), i <= Len(output), NEW k \in 1..Len(printed)
  PROVE  /\ output[i] # App => (AppAt(e, k) < i + 1 <=> AppAt(e, k) < i)
         /\ installed /\ output[i] # GiB => (AppAt(e, k) + 6 < i + 1 <=> AppAt(e, k) + 6 < i)
         /\ Plain(k) /\ output[i] # Star => (LastStar(e, k) < i + 1 <=> LastStar(e, k) < i)
<1>1. i \in Nat
  BY Here
<1>2. AppAt(e, k) \in Nat /\ output[AppAt(e, k)] = App
  BY Positions DEF Layout, LineAt
<1>3. installed => output[AppAt(e, k) + 6] = GiB
  BY DEF Layout, LineAt
<1>4. Plain(k) => LastStar(e, k) \in Nat /\ output[LastStar(e, k)] = Star
  BY LastStarAt
<1>5. output[i] # App => (AppAt(e, k) < i + 1 <=> AppAt(e, k) < i)
  BY <1>1, <1>2
<1>6. installed /\ output[i] # GiB => (AppAt(e, k) + 6 < i + 1 <=> AppAt(e, k) + 6 < i)
  BY <1>1, <1>2, <1>3
<1>7. Plain(k) /\ output[i] # Star => (LastStar(e, k) < i + 1 <=> LastStar(e, k) < i)
  BY <1>1, <1>4
<1>8. QED
  BY <1>5, <1>6, <1>7

(* The text stays, and with it the places.                                 *)
LEMMA Places ==
  ASSUME NEW e, printed' = printed, NEW k
  PROVE  /\ AppAt(e, k)' = AppAt(e, k)
         /\ LastStar(e, k)' = LastStar(e, k)
         /\ Plain(k)' <=> Plain(k)
  BY DEF AppAt, AppIn, Lead, LastStar, Plain

(* What a round does not read stays as it is.                              *)
LEMMA IdsStay ==
  ASSUME TextOK, NEW e, Layout(e), Progress(e), ~failed, i <= Len(output), output[i] # App,
         i' = i + 1, printed' = printed, games' = games, game_id' = game_id
  PROVE  IdsSoFar(e)'
<1>1. IdsSoFar(e)
  BY DEF Progress
<1>2. \A k \in 1..Len(printed) : AppAt(e, k)' < i' <=> k <= Len(games)
  BY <1>1, Passed, Places DEF IdsSoFar
<1>3. QED
  BY <1>1, <1>2 DEF IdsSoFar

LEMMA SizesStay ==
  ASSUME TextOK, NEW e, Layout(e), Progress(e), ~failed, i <= Len(output), output[i] # GiB,
         i' = i + 1, printed' = printed, installed' = installed, sizes' = sizes
  PROVE  SizesSoFar(e)'
<1>1. SizesSoFar(e)
  BY DEF Progress
<1>2. CASE installed
  <2>1. \A k \in 1..Len(printed) : AppAt(e, k)' + 6 < i' <=> k <= Len(sizes)
    BY <1>1, <1>2, Passed, Places DEF SizesSoFar
  <2>2. QED
    BY <1>1, <1>2, <2>1 DEF SizesSoFar
<1>3. CASE ~installed
  BY <1>3 DEF SizesSoFar
<1>4. QED
  BY <1>2, <1>3

LEMMA NameStays ==
  ASSUME TextOK, NEW e, Layout(e), Progress(e), ~failed, i <= Len(output), output[i] # Star,
         i' = i + 1, printed' = printed, game_name' = game_name
  PROVE  NameSoFar(e)'
<1>1. NameSoFar(e) /\ i \in Nat /\ i > 1
  BY Here, FirstIsStar DEF Progress
<1>2. ASSUME NEW k \in 1..Len(printed), Plain(k), LastStar(e, k) < i + 1, i + 1 <= AppAt(e, k)
      PROVE  game_name = Shown(printed[k].title)
  <2>1. LastStar(e, k) < i
    BY <1>2, Passed
  <2>2. i <= AppAt(e, k)
    BY <1>1, <1>2, Positions
  <2>3. QED
    BY <1>1, <1>2, <2>1, <2>2 DEF NameSoFar
<1>3. \A k \in 1..Len(printed') :
         Plain(k)' /\ LastStar(e, k)' < i' /\ i' <= AppAt(e, k)' => game_name' = Shown(printed'[k].title)
  BY <1>2, Places
<1>4. game_name' \in Seq(Token) /\ game_name' # <<>>
  BY <1>1 DEF NameSoFar
<1>5. QED
  BY <1>3, <1>4 DEF NameSoFar

LEMMA TitlesStay ==
  ASSUME NEW e, Progress(e), ~failed, printed' = printed, games' = games
  PROVE  TitlesSoFar'
<1>1. TitlesSoFar
  BY DEF Progress
<1>2. QED
  BY <1>1, Places DEF TitlesSoFar

(* At an App the line is listed, and never fails.                          *)
LEMMA ReadIdStep ==
  ASSUME TextOK, NEW e, Layout(e), Progress(e), ~failed, i <= Len(output), ReadId,
         i' = i + 1, printed' = printed, installed' = installed, output' = output
  PROVE  failed' = failed /\ IdsSoFar(e)' /\ SizesSoFar(e)' /\ NameSoFar(e)' /\ TitlesSoFar'
<1> DEFINE n == Len(games)
<1>1. output[i] = App
  BY DEF ReadId
<1>2. /\ n \in Nat /\ n + 1 \in 1..Len(printed) /\ i = AppAt(e, n + 1)
      /\ MarkerFrom({Bar}, i + 1) = i + 2
      /\ SubSeq(output, i + 1, MarkerFrom({Bar}, i + 1) - 1) = <<Id(n + 1)>>
  BY <1>1, AtApp
<1>3. output[i] # Star /\ output[i] # GiB
  BY <1>1, TokensDiffer
<1>4. i \in Nat /\ i > 1 /\ Len(printed) \in Nat
  BY <1>3, Here, FirstIsStar DEF TextOK
<1>5. IdsSoFar(e) /\ NameSoFar(e) /\ TitlesSoFar
  BY DEF Progress
<1>6. game_name \in Seq(Token) /\ game_name # <<>>
  BY <1>4, <1>5 DEF NameSoFar
<1>7. /\ game_id' = <<Id(n + 1)>>
      /\ games' = Append(games, [id |-> <<Id(n + 1)>>, title |-> game_name])
      /\ game_name' = game_name /\ sizes' = sizes /\ failed' = failed
  <2>1. ~ (MarkerFrom({Bar}, i + 1) = 0 \/ (game_name = <<>> /\ ~installed))
    BY <1>2, <1>4, <1>6
  <2>2. /\ game_id' = SubSeq(output, i + 1, MarkerFrom({Bar}, i + 1) - 1)
        /\ games' = Append(games, Listed)
        /\ UNCHANGED <<game_name, names, sizes, failed>>
    BY <2>1, Zenon DEF ReadId
  <2>3. QED
    BY <1>2, <2>2 DEF Listed
<1>8. /\ games' \in Seq([id : Seq(Token), title : Seq(Token)])
      /\ Len(games') = n + 1
      /\ games'[n + 1] = [id |-> <<Id(n + 1)>>, title |-> game_name]
      /\ \A k \in 1..n : games'[k] = games[k]
  <2>1. Id(n + 1) \in Token
    BY <1>2 DEF Token
  <2>2. <<Id(n + 1)>> \in Seq(Token)
    BY <2>1
  <2> DEFINE g == [id |-> <<Id(n + 1)>>, title |-> game_name]
             G == [id : Seq(Token), title : Seq(Token)]
  <2>3. g \in G /\ games \in Seq(G)
    BY <1>5, <1>6, <2>2 DEF IdsSoFar
  <2>4. games' = Append(games, g)
    BY <1>7
  <2> HIDE DEF g, G
  <2>5. /\ games' \in Seq(G) /\ Len(games') = Len(games) + 1
        /\ games'[Len(games) + 1] = g
        /\ \A k \in 1..Len(games) : games'[k] = games[k]
    BY <2>3, <2>4, AppendProperties
  <2>6. QED
    BY <2>5 DEF g, G
<1>9. ASSUME NEW k \in 1..Len(printed)
      PROVE  AppAt(e, k)' < i' <=> k <= n + 1
  <2>1. AppAt(e, k) \in Nat
    BY Positions
  <2>2. AppAt(e, k) < i <=> k <= n
    BY <1>5 DEF IdsSoFar
  <2>3. AppAt(e, k) = i => k = n + 1
    <3>1. ASSUME AppAt(e, k) = i
          PROVE  k = n + 1
      <4>1. e[k - 1] < i /\ i <= e[k] /\ e[(n + 1) - 1] < i /\ i <= e[n + 1]
        <5>1. ASSUME NEW j \in 1..Len(printed), AppAt(e, j) = i
              PROVE  e[j - 1] < i /\ i <= e[j]
          <6>1. e[j - 1] \in Nat /\ e[j] \in Nat /\ e[j - 1] + 1 < i /\ i + 3 <= e[j]
            BY <5>1, Positions
          <6>2. QED
            BY <1>4, <6>1
        <5>2. QED
          BY <1>2, <3>1, <5>1
      <4>2. QED
        BY <1>2, <1>4, <4>1, OneLine
    <3>2. QED
      BY <3>1
  <2>4. AppAt(e, k) < i + 1 <=> k <= n + 1
    BY <1>2, <1>4, <2>1, <2>2, <2>3
  <2>5. QED
    BY <2>4, Places
<1>10. IdsSoFar(e)'
  <2>1. \A k \in 1..Len(games') : games'[k].id = <<Id(k)>>
    <3>1. \A k \in 1..n : games'[k].id = <<Id(k)>>
      BY <1>5, <1>8 DEF IdsSoFar
    <3>2. games'[n + 1].id = <<Id(n + 1)>>
      BY <1>8
    <3>3. \A k \in 1..Len(games') : k \in 1..n \/ k = n + 1
      BY <1>2, <1>8
    <3>4. QED
      BY <3>1, <3>2, <3>3, Zenon
  <2>2. Len(games') # 0 /\ Len(games') <= Len(printed')
    BY <1>2, <1>4, <1>8
  <2>3. game_id' = <<Id(Len(games'))>>
    BY <1>7, <1>8
  <2>4. \A k \in 1..Len(printed') : AppAt(e, k)' < i' <=> k <= Len(games')
    BY <1>8, <1>9
  <2>5. QED
    BY <1>8, <2>1, <2>2, <2>3, <2>4 DEF IdsSoFar
<1>11. TitlesSoFar'
  <2>1. Plain(n + 1) => game_name = Shown(printed[n + 1].title)
    <3>1. ASSUME Plain(n + 1)
          PROVE  LastStar(e, n + 1) < i /\ i <= AppAt(e, n + 1)
      <4> DEFINE k == n + 1
                 a == AppAt(e, k)
                 q == LastStar(e, k)
                 last == LastStarIn(printed[k].title)
                 t == Len(printed[k].title)
      <4>1. /\ last \in 0..(t - 1) /\ q \in Nat /\ a = q + (t - last) + 1 /\ t \in Nat
        BY <1>2, <3>1, LastStarAt, Positions
      <4>2. i = a
        BY <1>2
      <4> HIDE DEF a, q, last, t
      <4>3. q < i /\ i <= a
        BY <4>1, <4>2
      <4>4. QED
        BY <4>3 DEF a, q
    <3>2. QED
      BY <1>2, <1>5, <3>1 DEF NameSoFar
  <2>2. ASSUME NEW k \in 1..(n + 1), Plain(k)
        PROVE  games'[k].title = Shown(printed[k].title)
    <3>1. CASE k = n + 1
      BY <1>8, <2>1, <2>2, <3>1
    <3>2. CASE k # n + 1
      <4>1. k \in 1..n
        BY <1>2, <3>2
      <4>2. QED
        BY <1>5, <1>8, <2>2, <4>1 DEF TitlesSoFar
    <3>3. QED
      BY <3>1, <3>2
  <2>3. \A k \in 1..Len(games') : Plain(k)' => games'[k].title = Shown(printed'[k].title)
    BY <1>8, <2>2, Places
  <2>4. QED
    BY <2>3 DEF TitlesSoFar
<1>12. SizesSoFar(e)' /\ NameSoFar(e)'
  BY <1>3, <1>7, SizesStay, NameStays
<1>13. QED
  BY <1>7, <1>10, <1>11, <1>12

(* At a GiB the size is, and never fails either.                           *)
LEMMA ReadSizeStep ==
  ASSUME TextOK, NEW e, Layout(e), Progress(e), ~failed, i <= Len(output), ReadSize,
         i' = i + 1, printed' = printed, installed' = installed, output' = output
  PROVE  failed' = failed /\ IdsSoFar(e)' /\ SizesSoFar(e)' /\ NameSoFar(e)' /\ TitlesSoFar'
<1> DEFINE n == Len(sizes)
           s == <<<<Id(n + 1)>>, <<Size(n + 1)>>>>
<1>1. output[i] = GiB
  BY DEF ReadSize
<1>2. /\ installed /\ n \in Nat /\ n + 1 \in 1..Len(printed) /\ i = AppAt(e, n + 1) + 6
      /\ game_id = <<Id(n + 1)>>
      /\ SubSeq(output, i - 1, i - 1) = <<Size(n + 1)>>
  BY <1>1, AtGiB
<1>3. output[i] # Star /\ output[i] # App
  BY <1>1, TokensDiffer
<1>4. i \in Nat /\ Len(printed) \in Nat
  BY Here DEF TextOK
<1>5. SizesSoFar(e)
  BY DEF Progress
<1>6. /\ sizes' = Append(sizes, s)
      /\ game_name' = game_name /\ game_id' = game_id /\ games' = games /\ failed' = failed
  <2>1. game_id # <<>>
    BY <1>2
  <2>2. sizes' = Append(sizes, Sized) /\ UNCHANGED <<game_name, game_id, games, names, failed>>
    BY <2>1, Zenon DEF ReadSize
  <2>3. QED
    BY <1>2, <2>2 DEF Sized
<1>7. /\ sizes' \in Seq(Seq(Seq(Token)))
      /\ Len(sizes') = n + 1
      /\ sizes'[n + 1] = s
      /\ \A k \in 1..n : sizes'[k] = sizes[k]
  <2>1. Id(n + 1) \in Token /\ Size(n + 1) \in Token
    BY <1>2 DEF Token
  <2>2. <<Id(n + 1)>> \in Seq(Token) /\ <<Size(n + 1)>> \in Seq(Token)
    BY <2>1
  <2>3. s \in Seq(Seq(Token)) /\ sizes \in Seq(Seq(Seq(Token)))
    BY <1>2, <1>5, <2>2 DEF SizesSoFar
  <2> HIDE DEF s
  <2>4. QED
    BY <1>6, <2>3, AppendProperties
<1>8. ASSUME NEW k \in 1..Len(printed)
      PROVE  AppAt(e, k)' + 6 < i' <=> k <= n + 1
  <2>1. AppAt(e, k) \in Nat
    BY Positions
  <2>2. AppAt(e, k) + 6 < i <=> k <= n
    BY <1>2, <1>5 DEF SizesSoFar
  <2>3. AppAt(e, k) + 6 = i => k = n + 1
    <3>1. ASSUME AppAt(e, k) + 6 = i
          PROVE  k = n + 1
      <4>1. e[k - 1] < i /\ i <= e[k] /\ e[(n + 1) - 1] < i /\ i <= e[n + 1]
        <5>1. ASSUME NEW j \in 1..Len(printed), AppAt(e, j) + 6 = i
              PROVE  e[j - 1] < i /\ i <= e[j]
          <6>1. /\ e[j - 1] \in Nat /\ e[j] \in Nat /\ AppAt(e, j) \in Nat
                /\ e[j - 1] + 1 < AppAt(e, j) /\ AppAt(e, j) + 6 = e[j]
            BY <1>2, Positions
          <6>2. QED
            BY <1>4, <5>1, <6>1
        <5>2. QED
          BY <1>2, <3>1, <5>1
      <4>2. QED
        BY <1>2, <1>4, <4>1, OneLine
    <3>2. QED
      BY <3>1
  <2>4. AppAt(e, k) + 6 < i + 1 <=> k <= n + 1
    BY <1>2, <1>4, <2>1, <2>2, <2>3
  <2>5. QED
    BY <2>4, Places
<1>9. SizesSoFar(e)'
  <2>1. \A k \in 1..Len(sizes') : sizes'[k] = <<<<Id(k)>>, <<Size(k)>>>>
    <3>1. \A k \in 1..n : sizes'[k] = <<<<Id(k)>>, <<Size(k)>>>>
      BY <1>2, <1>5, <1>7, Zenon DEF SizesSoFar
    <3>2. sizes'[n + 1] = <<<<Id(n + 1)>>, <<Size(n + 1)>>>>
      BY <1>7, Zenon
    <3>3. \A k \in 1..Len(sizes') : k \in 1..n \/ k = n + 1
      BY <1>2, <1>7
    <3>4. QED
      BY <3>1, <3>2, <3>3, Zenon
  <2>2. Len(sizes') <= Len(printed')
    BY <1>2, <1>4, <1>7
  <2>3. \A k \in 1..Len(printed') : AppAt(e, k)' + 6 < i' <=> k <= Len(sizes')
    BY <1>7, <1>8
  <2>4. QED
    BY <1>7, <2>1, <2>2, <2>3 DEF SizesSoFar
<1>10. IdsSoFar(e)' /\ NameSoFar(e)' /\ TitlesSoFar'
  BY <1>3, <1>6, IdsStay, NameStays, TitlesStay
<1>11. QED
  BY <1>6, <1>9, <1>10

(* Every round keeps what is so far true of the lists.                     *)
LEMMA Step ==
  ASSUME TextOK, NEW e, Layout(e), Progress(e), Round
  PROVE  Progress(e)'
<1>1. /\ ~failed /\ i <= Len(output) /\ i' = i + 1
      /\ printed' = printed /\ installed' = installed /\ output' = output
  BY DEF Round
<1>2. i \in 1..Len(output) /\ Len(output) \in Nat
  BY <1>1, Here
<1>3. i' \in 1..(Len(output') + 1)
  BY <1>1, <1>2
<1>4. failed' = failed /\ IdsSoFar(e)' /\ SizesSoFar(e)' /\ NameSoFar(e)' /\ TitlesSoFar' => Progress(e)'
  <2> SUFFICES ASSUME failed' = failed, IdsSoFar(e)', SizesSoFar(e)', NameSoFar(e)', TitlesSoFar'
               PROVE  Progress(e)'
    OBVIOUS
  <2>1. failed \in BOOLEAN /\ ~failed
    BY <1>1, Zenon DEF Progress
  <2>2. failed = FALSE
    BY <2>1, Zenon
  <2>3. failed' = FALSE
    BY <2>2
  <2>4. failed' \in BOOLEAN /\ ~failed'
    BY <2>3
  <2>5. QED
    BY <1>3, <2>4, Zenon DEF Progress
<1>5. failed' = TRUE /\ Len(printed) # 0 /\ EndsInStar(printed[Len(printed)]) => Progress(e)'
  <2> SUFFICES ASSUME failed' = TRUE, Len(printed) # 0, EndsInStar(printed[Len(printed)])
               PROVE  Progress(e)'
    OBVIOUS
  <2>1. failed' \in BOOLEAN /\ (~failed' => FALSE)
    OBVIOUS
  <2>2. Len(printed') # 0 /\ EndsInStar(printed'[Len(printed')])
    BY <1>1
  <2>3. QED
    BY <1>3, <2>1, <2>2, Zenon DEF Progress
<1>6. CASE ReadName
  <2>1. output[i] = Star
    BY <1>6 DEF ReadName
  <2>2. CASE NameEnd = 0
    <3>1. failed' = TRUE
      BY <1>6, <2>2, Zenon DEF ReadName, Fail
    <3>2. Len(printed) # 0 /\ EndsInStar(printed[Len(printed)])
      BY <1>1, <2>1, <2>2, AtStar
    <3>3. QED
      BY <1>5, <3>1, <3>2
  <2>3. CASE NameEnd # 0
    <3> DEFINE taken == SubSeq(output, NameStart, NameEnd - 1)
    <3>1. /\ game_name' = taken
          /\ game_id' = game_id /\ games' = games /\ sizes' = sizes /\ failed' = failed
      <4>1. game_name' = taken /\ UNCHANGED <<game_id, games, sizes, failed>>
        BY <1>6, <2>3, Zenon DEF ReadName
      <4>2. QED
        BY <4>1
    <3>2. /\ taken \in Seq(Token) /\ taken # <<>>
          /\ \A k \in 1..Len(printed) :
                Plain(k) /\ LastStar(e, k) < i + 1 /\ i + 1 <= AppAt(e, k) => taken = Shown(printed[k].title)
      BY <1>1, <2>1, <2>3, AtStar
    <3>3. output[i] # App /\ output[i] # GiB
      BY <2>1, TokensDiffer
    <3>4. IdsSoFar(e)' /\ SizesSoFar(e)' /\ TitlesSoFar'
      BY <1>1, <3>1, <3>3, IdsStay, SizesStay, TitlesStay
    <3> HIDE DEF taken
    <3>5. \A k \in 1..Len(printed') :
             Plain(k)' /\ LastStar(e, k)' < i' /\ i' <= AppAt(e, k)' => game_name' = Shown(printed'[k].title)
      BY <1>1, <3>1, <3>2, Places
    <3>6. NameSoFar(e)'
      BY <3>1, <3>2, <3>5 DEF NameSoFar
    <3>7. QED
      BY <1>4, <3>1, <3>4, <3>6
  <2>4. QED
    BY <2>2, <2>3
<1>7. CASE ReadId
  BY <1>1, <1>4, <1>7, ReadIdStep
<1>8. CASE ReadSize
  BY <1>1, <1>4, <1>8, ReadSizeStep
<1>9. CASE Skip
  <2>1. output[i] # Star /\ output[i] # App /\ output[i] # GiB
    BY <1>9 DEF Skip
  <2>2. /\ game_name' = game_name /\ game_id' = game_id /\ games' = games
        /\ sizes' = sizes /\ failed' = failed
    BY <1>9 DEF Skip
  <2>3. IdsSoFar(e)' /\ SizesSoFar(e)' /\ NameSoFar(e)' /\ TitlesSoFar'
    BY <1>1, <2>1, <2>2, IdsStay, SizesStay, NameStays, TitlesStay
  <2>4. QED
    BY <1>4, <2>2, <2>3
<1>10. QED
  BY <1>6, <1>7, <1>8, <1>9 DEF Round

(* A round keeps the text.                                                 *)
LEMMA SameText ==
  ASSUME printed' = printed, installed' = installed, output' = output
  PROVE  /\ TextOK => TextOK'
         /\ \A e : Layout(e) => Layout(e)'
<1>1. TextOK => TextOK'
  BY Zenon DEF TextOK
<1>2. ASSUME NEW e, Layout(e)
      PROVE  Layout(e)'
  <2>1. \A k : LineAt(e, k)' <=> LineAt(e, k)
    <3> TAKE k
    <3>1. Lead(printed[k])' = Lead(printed[k]) /\ AppAt(e, k)' = AppAt(e, k)
      BY Places DEF Lead
    <3>2. QED
      BY <3>1, Zenon DEF LineAt
  <2>2. QED
    BY <1>2, <2>1, Zenon DEF Layout
<1>3. QED
  BY <1>1, <1>2

LEMMA NextIInv == IInv /\ [Next]_vars => IInv'
<1> SUFFICES ASSUME IInv, [Next]_vars
             PROVE  IInv'
  OBVIOUS
<1>1. PICK e : Layout(e) /\ Progress(e)
  BY DEF IInv
<1>2. TextOK
  BY DEF IInv
<1>3. printed' = printed /\ installed' = installed /\ output' = output
  BY DEF Next, Round, vars
<1>4. TextOK' /\ Layout(e)'
  BY <1>1, <1>2, <1>3, SameText
<1>5. CASE Round
  <2>1. Progress(e)'
    BY <1>1, <1>2, <1>5, Step
  <2>2. QED
    BY <1>4, <2>1, Zenon DEF IInv
<1>6. CASE UNCHANGED vars
  <2>1. /\ i' = i /\ game_name' = game_name /\ game_id' = game_id /\ games' = games
        /\ sizes' = sizes /\ failed' = failed
    BY <1>6 DEF vars
  <2>2. Progress(e)'
    BY <1>1, <1>3, <2>1, Zenon
       DEF Progress, IdsSoFar, SizesSoFar, NameSoFar, TitlesSoFar, AppAt, AppIn, Lead, LastStar, Plain
  <2>3. QED
    BY <1>4, <2>2, Zenon DEF IInv
<1>7. QED
  BY <1>5, <1>6 DEF Next

THEOREM Invariance == Spec => []IInv
  BY InitIInv, NextIInv, PTL DEF Spec

(* At the end every line has been passed.                                  *)
LEMMA AtEnd ==
  ASSUME TextOK, NEW e, Layout(e), Progress(e), Done
  PROVE  /\ Len(printed) \in Nat
         /\ IdsSoFar(e) /\ SizesSoFar(e) /\ TitlesSoFar
         /\ Len(games) = Len(printed)
         /\ installed => Len(sizes) = Len(printed)
<1> DEFINE N == Len(printed)
<1>1. ~failed /\ i > Len(output)
  BY DEF Done
<1>2. IdsSoFar(e) /\ SizesSoFar(e) /\ TitlesSoFar /\ i \in Nat
  <2>1. i \in 1..(Len(output) + 1) /\ Len(output) \in Nat
    BY Positions DEF Progress
  <2>2. QED
    BY <1>1, <2>1 DEF Progress
<1>3. N \in Nat /\ Len(games) \in Nat /\ (installed => Len(sizes) \in Nat)
  BY <1>2, LenProperties DEF IdsSoFar, SizesSoFar, TextOK
<1>4. \A k \in 1..N : /\ AppAt(e, k) < i
                      /\ installed => AppAt(e, k) + 6 < i
  <2>1. ASSUME NEW k \in 1..N
        PROVE  AppAt(e, k) < i /\ (installed => AppAt(e, k) + 6 < i)
    <3>1. /\ AppAt(e, k) \in Nat /\ e[k] \in Nat /\ e[k] <= Len(output) /\ Len(output) \in Nat
          /\ AppAt(e, k) + 3 <= e[k] /\ (installed => e[k] = AppAt(e, k) + 6)
      BY Positions
    <3>2. QED
      BY <1>1, <1>2, <3>1
  <2>2. QED
    BY <2>1
<1>5. N # 0 => N \in 1..N
  BY <1>3
<1>6. Len(games) = N
  <2>1. N # 0 => N <= Len(games)
    BY <1>2, <1>4, <1>5 DEF IdsSoFar
  <2>2. QED
    BY <1>2, <1>3, <2>1 DEF IdsSoFar
<1>7. installed => Len(sizes) = N
  <2>1. installed /\ N # 0 => N <= Len(sizes)
    BY <1>2, <1>4, <1>5 DEF SizesSoFar
  <2>2. QED
    BY <1>2, <1>3, <2>1 DEF SizesSoFar
<1>8. QED
  BY <1>2, <1>3, <1>6, <1>7

(* Whatever the titles, every game and every DLC that is printed is in the *)
(* list under its own id, and with its own size: generate_gamelist().      *)
THEOREM GamesAreListed == Spec => []IdsListed
<1>1. IInv => IdsListed
  <2> SUFFICES ASSUME IInv
               PROVE  IdsListed
    OBVIOUS
  <2>1. PICK e : Layout(e) /\ Progress(e)
    BY DEF IInv
  <2>2. TextOK
    BY DEF IInv
  <2>3. failed => EndsInStar(Last(printed))
    BY <2>1, Zenon DEF Progress, Last
  <2>4. ASSUME Done
        PROVE  /\ Len(games) = Len(printed)
               /\ \A k \in DOMAIN printed : games[k].id = <<Id(k)>>
    BY <2>1, <2>2, <2>4, AtEnd DEF IdsSoFar, TextOK
  <2>5. ASSUME Done, installed
        PROVE  sizes = [k \in DOMAIN printed |-> <<<<Id(k)>>, <<Size(k)>>>>]
    <3>1. /\ sizes \in Seq(Seq(Seq(Token))) /\ Len(sizes) = Len(printed) /\ Len(printed) \in Nat
          /\ \A k \in 1..Len(sizes) : sizes[k] = <<<<Id(k)>>, <<Size(k)>>>>
      BY <2>1, <2>2, <2>5, AtEnd, Zenon DEF SizesSoFar
    <3>2. DOMAIN printed = 1..Len(printed)
      BY <2>2 DEF TextOK
    <3>3. sizes \in [1..Len(sizes) -> Seq(Seq(Token))]
      BY <3>1, LenProperties
    <3>4. QED
      BY <3>1, <3>2, <3>3, Zenon
  <2>6. QED
    BY <2>3, <2>4, <2>5, Zenon DEF IdsListed
<1>2. QED
  BY <1>1, Invariance, PTL

(* An owned game whose title does not end in an asterisk is listed with    *)
(* its own title, or what is left of it.                                   *)
THEOREM TitlesAreShown == Spec => []TitlesListed
<1>1. IInv => TitlesListed
  <2> SUFFICES ASSUME IInv, Done, ~installed, NEW k \in DOMAIN printed,
                      ~printed[k].dlc /\ ~EndsInStar(printed[k])
               PROVE  games[k].title = Shown(printed[k].title)
    BY Zenon DEF TitlesListed
  <2>1. PICK e : Layout(e) /\ Progress(e)
    BY DEF IInv
  <2>2. TextOK /\ k \in 1..Len(printed) /\ Plain(k)
    BY DEF IInv, TextOK, Plain
  <2>3. TitlesSoFar /\ Len(games) = Len(printed)
    BY <2>1, <2>2, AtEnd
  <2>4. QED
    BY <2>2, <2>3 DEF TitlesSoFar
<1>2. QED
  BY <1>1, Invariance, PTL
=============================================================================
