---------------------- MODULE MARCRecordLayout_proofs -----------------------
(***************************************************************************)
(* For any number of digits, any records and any number of copies: what is *)
(* written of a record is framed and read back, and what is written again  *)
(* of what was read is the same to the byte, whatever subfields the reader *)
(* has made of it, unless the length of the record wraps.                  *)
(*                                                                         *)
(* The bytes of a record are described by what is where (IsAt): a part of  *)
(* them that is read is the part that was put there.                       *)
(***************************************************************************)
EXTENDS MARCRecordLayout, SequenceTheorems, FiniteSetTheorems, WellFoundedInduction, TLAPS

(* A set of numbers that has one has a least one.                          *)
LEMMA LeastNumber ==
  ASSUME NEW D, D \subseteq Nat, D # {}
  PROVE  \E x \in D : \A y \in D : x <= y
<1> DEFINE Less == {ss \in Nat \X Nat : ss[1] < ss[2]}
<1>1. IsWellFoundedOn(Less, Nat)
  BY NatLessThanWellFounded DEF OpToRel
<1> HIDE DEF Less
<1>2. PICK x \in D : \A y \in D : ~(<<y, x>> \in Less)
  BY <1>1, WFMin
<1>3. ASSUME NEW y \in D PROVE x <= y
  <2>1. x \in Nat /\ y \in Nat
    OBVIOUS
  <2>2. y < x => <<y, x>> \in Less
    BY <2>1 DEF Less
  <2> QED
    BY <1>2, <2>1, <2>2
<1> QED
  BY <1>3

(* What holds of 0, and of a number when it holds of the one before.       *)
LEMMA UpTo ==
  ASSUME NEW n \in Nat, NEW S, 0 \in S, \A k \in 1..n : k - 1 \in S => k \in S
  PROVE  \A k \in 0..n : k \in S
<1> DEFINE D == {k \in 0..n : k \notin S}
<1>1. SUFFICES ASSUME D # {} PROVE FALSE
  OBVIOUS
<1>2. PICK x \in D : \A y \in D : x <= y
  <2>1. D \subseteq Nat
    OBVIOUS
  <2> HIDE DEF D
  <2> QED
    BY <1>1, <2>1, LeastNumber
<1>3. x \in 1..n /\ x - 1 \in 0..n
  OBVIOUS
<1>4. x - 1 \notin D
  BY <1>2, <1>3
<1> QED
  BY <1>3, <1>4

(* Sequences put together.                                                 *)

(* A function on the first numbers is a sequence.                          *)
LEMMA Numbered ==
  ASSUME NEW n \in Nat, NEW S, NEW s, DOMAIN s = 1..n, s = [i \in 1..n |-> s[i]],
         \A i \in 1..n : s[i] \in S
  PROVE  s \in Seq(S) /\ Len(s) = n
OBVIOUS

IsFlatten(f, seqs) ==
  f = [i \in 1..Len(seqs) |-> IF i = 1 THEN seqs[i] ELSE f[i - 1] \o seqs[i]]

(* FlattenSeq is defined by choosing such a function.                      *)
LEMMA FlattenExists ==
  ASSUME NEW S, NEW seqs \in Seq(Seq(S))
  PROVE  \E f : IsFlatten(f, seqs)
<1> DEFINE IsPart(g, m) == g = [k \in 1..m |-> IF k = 1 THEN seqs[k] ELSE g[k - 1] \o seqs[k]]
           T == {m \in 0..Len(seqs) : \E g : IsPart(g, m)}
<1>1. Len(seqs) \in Nat
  BY LenProperties
<1>2. 0 \in T
  <2>1. IsPart([k \in 1..0 |-> 0], 0)
    OBVIOUS
  <2> HIDE DEF IsPart
  <2> QED
    BY <1>1, <2>1
<1>3. ASSUME NEW m \in 1..Len(seqs), m - 1 \in T
      PROVE  m \in T
  <2>1. PICK g : IsPart(g, m - 1)
    BY <1>3
  <2> DEFINE h == [k \in 1..m |-> IF k = 1 THEN seqs[1]
                               ELSE IF k = m THEN g[m - 1] \o seqs[m] ELSE g[k]]
  <2>2. \A k \in 1..(m - 1) : g[k] = IF k = 1 THEN seqs[1] ELSE g[k - 1] \o seqs[k]
    BY <2>1
  <2>3. \A k \in 1..m : h[k] = IF k = 1 THEN seqs[k] ELSE h[k - 1] \o seqs[k]
    <3>1. h[1] = seqs[1]
      OBVIOUS
    <3>2. ASSUME NEW k \in 2..m PROVE h[k] = h[k - 1] \o seqs[k]
      <4> DEFINE p == k - 1
      <4>1. p \in 1..(m - 1) /\ p \in 1..m /\ p # m /\ k \in 1..m /\ k # 1
        OBVIOUS
      <4>2. p = 1 => g[p] = seqs[1]
        BY <2>2, <4>1
      <4>3. h[p] = g[p]
        BY <4>1, <4>2
      <4>4. k # m => k \in 1..(m - 1)
        OBVIOUS
      <4>5. k # m => g[k] = g[p] \o seqs[k]
        BY <2>2, <4>1, <4>4
      <4>6. h[k] = g[p] \o seqs[k]
        BY <4>1, <4>5
      <4> QED
        BY <4>3, <4>6
    <3> HIDE DEF h
    <3>3. ASSUME NEW k \in 1..m PROVE k = 1 \/ k \in 2..m
      OBVIOUS
    <3> QED
      BY <3>1, <3>2, <3>3
  <2>4. IsPart(h, m)
    <3>1. h = [k \in 1..m |-> h[k]]
      OBVIOUS
    <3> HIDE DEF h
    <3> QED
      BY <2>3, <3>1
  <2> HIDE DEF h, IsPart
  <2> QED
    BY <1>1, <2>4
<1> HIDE DEF T
<1>4. \A m \in 0..Len(seqs) : m \in T
  BY <1>1, <1>2, <1>3, UpTo
<1>5. Len(seqs) \in T
  BY <1>1, <1>4
<1>6. PICK g : IsPart(g, Len(seqs))
  BY <1>5 DEF T
<1> QED
  BY <1>6 DEF IsFlatten

(* Where each of the parts begins in a flattened sequence.                 *)
ArePlaces(places, seqs, whole) ==
  /\ places \in [0..Len(seqs) -> Nat]
  /\ places[0] = 0
  /\ \A i \in 1..Len(seqs) :
       /\ places[i] = places[i - 1] + Len(seqs[i])
       /\ \A j \in 1..Len(seqs[i]) : whole[places[i - 1] + j] = seqs[i][j]
  /\ places[Len(seqs)] = Len(whole)

(* Two sequences put together.                                             *)
LEMMA Beside ==
  ASSUME NEW S, NEW s \in Seq(S), NEW t \in Seq(S)
  PROVE  /\ s \o t \in Seq(S) /\ Len(s \o t) = Len(s) + Len(t)
         /\ \A j \in 1..Len(s) : (s \o t)[j] = s[j]
         /\ \A j \in 1..Len(t) : (s \o t)[Len(s) + j] = t[j]
<1>1. Len(s) \in Nat /\ Len(t) \in Nat
  BY LenProperties
<1>2. ASSUME NEW j \in 1..Len(t) PROVE (s \o t)[Len(s) + j] = t[j]
  <2> DEFINE k == Len(s) + j
  <2>1. k \in 1..Len(s) + Len(t) /\ ~(k <= Len(s)) /\ k - Len(s) = j
    BY <1>1
  <2> HIDE DEF k
  <2>2. (s \o t)[k] = t[j]
    BY <2>1, ConcatProperties
  <2> QED
    BY <2>2 DEF k
<1> QED
  BY <1>1, <1>2, ConcatProperties

(* A flattened sequence has the elements of each of its parts in its place. *)
LEMMA FlattenIs ==
  ASSUME NEW S, NEW seqs \in Seq(Seq(S))
  PROVE  FlattenSeq(seqs) \in Seq(S) /\ \E places : ArePlaces(places, seqs, FlattenSeq(seqs))
<1> DEFINE n == Len(seqs)
           whole == FlattenSeq(seqs)
<1>1. n \in Nat /\ \A i \in 1..n : seqs[i] \in Seq(S) /\ Len(seqs[i]) \in Nat
  BY ElementOfSeq, LenProperties
<1>2. CASE n = 0
  <2>1. seqs = << >> /\ whole = << >>
    BY <1>2, EmptySeq DEF FlattenSeq
  <2>2. ArePlaces([i \in 0..0 |-> 0], seqs, whole)
    BY <2>1 DEF ArePlaces
  <2> QED
    BY <2>1, <2>2
<1>3. CASE n # 0
  <2> DEFINE f == CHOOSE f : f = [i \in 1..n |-> IF i = 1 THEN seqs[i] ELSE f[i - 1] \o seqs[i]]
  <2>1. f = [i \in 1..n |-> IF i = 1 THEN seqs[i] ELSE f[i - 1] \o seqs[i]]
    BY FlattenExists DEF IsFlatten
  <2>2. whole = f[n]
    BY <1>3 DEF FlattenSeq
  <2> HIDE DEF f, whole
  <2>3. \A i \in 1..n : f[i] = IF i = 1 THEN seqs[i] ELSE f[i - 1] \o seqs[i]
    BY <2>1
  <2> DEFINE T == {i \in 0..n : i = 0 \/ f[i] \in Seq(S)}
  <2>4. \A i \in 1..n : i - 1 \in T => i \in T
    <3>1. ASSUME NEW i \in 1..n, i - 1 \in T PROVE i \in T
      <4>1. CASE i = 1
        BY <1>1, <2>3, <4>1
      <4>2. CASE i # 1
        <5>1. f[i - 1] \in Seq(S) /\ seqs[i] \in Seq(S) /\ f[i] = f[i - 1] \o seqs[i]
          <6>1. i - 1 # 0
            BY <4>2
          <6>2. f[i] = f[i - 1] \o seqs[i]
            BY <2>3, <4>2
          <6> QED
            BY <1>1, <3>1, <6>1, <6>2
        <5>2. f[i] \in Seq(S)
          BY <5>1, ConcatProperties
        <5> QED
          BY <5>2
      <4> QED
        BY <4>1, <4>2
    <3> QED
      BY <3>1
  <2>5. 0 \in T
    BY <1>1
  <2> HIDE DEF T
  <2>6. \A i \in 0..n : i \in T
    BY <1>1, <2>4, <2>5, UpTo
  <2>7. \A i \in 1..n : f[i] \in Seq(S) /\ Len(f[i]) \in Nat
    <3>1. \A i \in 1..n : f[i] \in Seq(S)
      BY <2>6 DEF T
    <3> QED
      BY <3>1, LenProperties
  <2> DEFINE places == [i \in 0..n |-> IF i = 0 THEN 0 ELSE Len(f[i])]
  <2>8. ASSUME NEW i \in 1..n
        PROVE  /\ places[i] = places[i - 1] + Len(seqs[i])
               /\ \A j \in 1..Len(seqs[i]) : f[i][places[i - 1] + j] = seqs[i][j]
               /\ \A j \in 1..places[i - 1] : f[i][j] = f[i - 1][j]
    <3>1. CASE i = 1
      BY <1>1, <2>3, <3>1
    <3>2. CASE i # 1
      <4> DEFINE p == i - 1
      <4>1. p \in 1..n /\ p \in 0..n /\ p # 0 /\ i \in 0..n /\ i # 0
        BY <1>1, <3>2
      <4>2. f[i] = f[p] \o seqs[i]
        BY <2>3, <3>2
      <4>3. f[p] \in Seq(S) /\ seqs[i] \in Seq(S)
        BY <1>1, <2>7, <4>1
      <4>4. places[p] = Len(f[p]) /\ places[i] = Len(f[i])
        BY <4>1
      <4> HIDE DEF p, places
      <4>5. /\ Len(f[i]) = Len(f[p]) + Len(seqs[i])
            /\ \A j \in 1..Len(seqs[i]) : f[i][Len(f[p]) + j] = seqs[i][j]
            /\ \A j \in 1..Len(f[p]) : f[i][j] = f[p][j]
        <5> DEFINE a == f[p]
                   b == seqs[i]
        <5>1. a \in Seq(S) /\ b \in Seq(S) /\ f[i] = a \o b
          BY <4>2, <4>3
        <5> HIDE DEF a, b
        <5>2. /\ Len(f[i]) = Len(a) + Len(b)
              /\ \A j \in 1..Len(b) : f[i][Len(a) + j] = b[j]
              /\ \A j \in 1..Len(a) : f[i][j] = a[j]
          BY <5>1, Beside
        <5> QED
          BY <5>2 DEF a, b
      <4>6. /\ places[i] = places[p] + Len(seqs[i])
            /\ \A j \in 1..Len(seqs[i]) : f[i][places[p] + j] = seqs[i][j]
            /\ \A j \in 1..places[p] : f[i][j] = f[p][j]
        BY <4>4, <4>5
      <4> QED
        BY <4>6 DEF p
    <3> QED
      BY <3>1, <3>2
  <2>9. \A i \in 0..n : places[i] \in Nat
    BY <2>7
  <2>10. places[0] = 0 /\ places[n] = Len(f[n]) /\ places \in [0..n -> Nat]
    BY <1>1, <1>3, <2>7
  <2> HIDE DEF places
  <2> DEFINE U == {m \in 0..n : \A i \in 1..m : \A j \in 1..Len(seqs[i]) :
                      f[m][places[i - 1] + j] = seqs[i][j] /\ places[i] <= places[m]}
  <2>11. 0 \in U
    BY <1>1
  <2>12. ASSUME NEW m \in 1..n, m - 1 \in U PROVE m \in U
    <3>1. ASSUME NEW i \in 1..m, NEW j \in 1..Len(seqs[i])
          PROVE  f[m][places[i - 1] + j] = seqs[i][j] /\ places[i] <= places[m]
      <4>1. CASE i = m
        BY <2>8, <2>9, <4>1
      <4>2. CASE i # m
        <5>1. i \in 1..(m - 1) /\ i \in 1..n /\ i - 1 \in 0..n /\ m - 1 \in 0..n
          BY <4>2
        <5>2. f[m - 1][places[i - 1] + j] = seqs[i][j] /\ places[i] <= places[m - 1]
          BY <2>12, <5>1
        <5>3. /\ places[i] = places[i - 1] + Len(seqs[i])
              /\ places[m] = places[m - 1] + Len(seqs[m])
              /\ \A q \in 1..places[m - 1] : f[m][q] = f[m - 1][q]
          BY <2>8, <5>1
        <5>4. /\ places[i - 1] \in Nat /\ places[i] \in Nat
              /\ places[m - 1] \in Nat /\ places[m] \in Nat
              /\ Len(seqs[i]) \in Nat /\ Len(seqs[m]) \in Nat
          BY <1>1, <2>9, <5>1
        <5> DEFINE q == places[i - 1] + j
        <5>5. q \in 1..places[m - 1]
          <6> DEFINE a == places[i - 1]
                     b == places[i]
                     c == places[m - 1]
                     d == Len(seqs[i])
          <6>1. /\ a \in Nat /\ b \in Nat /\ c \in Nat /\ d \in Nat
                /\ j \in 1..d /\ b = a + d /\ b <= c
            BY <5>2, <5>3, <5>4
          <6> HIDE DEF a, b, c, d
          <6>2. a + j \in 1..c
            BY <6>1
          <6> QED
            BY <6>2 DEF a, c
        <5>6. f[m][q] = f[m - 1][q]
          BY <5>3, <5>5
        <5>7. places[i] <= places[m]
          BY <5>2, <5>3, <5>4
        <5> QED
          BY <5>2, <5>6, <5>7
      <4> QED
        BY <4>1, <4>2
    <3> QED
      BY <3>1
  <2> HIDE DEF U
  <2>13. \A m \in 0..n : m \in U
    BY <1>1, <2>11, <2>12, UpTo
  <2>14. n \in U
    BY <1>1, <2>13
  <2>15. ArePlaces(places, seqs, whole)
    BY <2>2, <2>8, <2>10, <2>14 DEF ArePlaces, U
  <2>16. whole \in Seq(S)
    BY <1>1, <1>3, <2>2, <2>7
  <2> QED
    BY <2>15, <2>16 DEF whole
<1> QED
  BY <1>2, <1>3

-----------------------------------------------------------------------------
(* What a recursive function on the first numbers is: each of those of the *)
(* layout has a step that takes the value before.                          *)
IsStep(step, n, S) == step \in [1..n -> [S -> S]]
IsRun(f, n, S, start, step) ==
  f \in [0..n -> S] /\ f[0] = start /\ \A k \in 1..n : f[k] = step[k][f[k - 1]]

(* A recursion over the first numbers has a solution.                      *)
LEMMA RecursionExists ==
  ASSUME NEW n \in Nat, NEW S, NEW start \in S, NEW step, IsStep(step, n, S)
  PROVE  \E f : IsRun(f, n, S, start, step)
<1> DEFINE IsPart(g, m) == /\ g \in [0..m -> S]
                           /\ g[0] = start
                           /\ \A k \in 1..m : g[k] = step[k][g[k - 1]]
           T == {m \in 0..n : \E g : IsPart(g, m)}
<1>0. step \in [1..n -> [S -> S]]
  BY DEF IsStep
<1>1. 0 \in T
  <2>1. IsPart([k \in 0..0 |-> start], 0)
    OBVIOUS
  <2> HIDE DEF IsPart
  <2> QED
    BY <2>1
<1>2. ASSUME NEW m \in 1..n, m - 1 \in T PROVE m \in T
  <2>1. PICK g : IsPart(g, m - 1)
    BY <1>2
  <2> DEFINE h == [k \in 0..m |-> IF k = m THEN step[m][g[m - 1]] ELSE g[k]]
  <2>2. /\ g \in [0..(m - 1) -> S] /\ g[0] = start
        /\ \A k \in 1..(m - 1) : g[k] = step[k][g[k - 1]]
    BY <2>1
  <2>3. step[m][g[m - 1]] \in S
    BY <1>0, <2>2
  <2>4. h \in [0..m -> S] /\ h[0] = start
    BY <2>2, <2>3
  <2>5. \A k \in 1..m : h[k] = step[k][h[k - 1]]
    BY <2>2
  <2>6. IsPart(h, m)
    BY <2>4, <2>5
  <2> HIDE DEF h, IsPart
  <2> QED
    BY <2>6
<1> HIDE DEF T
<1>3. \A m \in 0..n : m \in T
  <2>1. \A m \in 1..n : m - 1 \in T => m \in T
    BY <1>2
  <2> QED
    BY <1>1, <2>1, UpTo
<1>4. n \in T
  BY <1>3
<1> QED
  BY <1>4 DEF T, IsRun

-----------------------------------------------------------------------------
(* Sums.                                                                   *)
LEMMA SumsAre ==
  ASSUME NEW sizes \in Seq(Int)
  PROVE  /\ Sums(sizes) \in [0..Len(sizes) -> Int]
         /\ Sums(sizes)[0] = 0
         /\ \A i \in 1..Len(sizes) : Sums(sizes)[i] = Sums(sizes)[i - 1] + sizes[i]
<1> DEFINE n == Len(sizes)
           IsSum(f) == f = [i \in 0..n |-> IF i = 0 THEN 0 ELSE f[i - 1] + sizes[i]]
<1>1. n \in Nat /\ \A i \in 1..n : sizes[i] \in Int
  BY LenProperties, ElementOfSeq
<1>2. \E f : IsSum(f)
  <2> DEFINE step == [k \in 1..n |-> [x \in Int |-> x + sizes[k]]]
  <2>1. step \in [1..n -> [Int -> Int]]
    BY <1>1
  <2> HIDE DEF n
  <2>2. \A k \in 1..n : \A x \in Int : step[k][x] = x + sizes[k]
    OBVIOUS
  <2> HIDE DEF step
  <2>3. PICK f \in [0..n -> Int] : f[0] = 0 /\ \A k \in 1..n : f[k] = step[k][f[k - 1]]
    <3>1. n \in Nat /\ 0 \in Int /\ IsStep(step, n, Int)
      BY <1>1, <2>1 DEF IsStep
    <3>2. \E f : IsRun(f, n, Int, 0, step)
      BY <3>1, RecursionExists
    <3> QED
      BY <3>2 DEF IsRun
  <2>4. ASSUME NEW k \in 1..n PROVE f[k] = f[k - 1] + sizes[k]
    <3>1. f[k - 1] \in Int
      BY <1>1, <2>3
    <3> QED
      BY <2>2, <2>3, <3>1
  <2>5. f = [i \in 0..n |-> f[i]]
    BY <2>3
  <2>6. \A i \in 0..n : f[i] = IF i = 0 THEN 0 ELSE f[i - 1] + sizes[i]
    BY <1>1, <2>3, <2>4
  <2> QED
    BY <2>5, <2>6
<1>3. IsSum(Sums(sizes))
  BY <1>2 DEF Sums
<1> DEFINE f == Sums(sizes)
<1> HIDE DEF f, n
<1>4. f[0] = 0 /\ \A i \in 1..n : f[i] = f[i - 1] + sizes[i]
  BY <1>1, <1>3 DEF f
<1>5. \A i \in 0..n : f[i] \in Int
  <2> DEFINE T == {i \in 0..n : f[i] \in Int}
  <2>1. 0 \in T /\ \A i \in 1..n : i - 1 \in T => i \in T
    BY <1>1, <1>4
  <2> HIDE DEF T
  <2>2. \A i \in 0..n : i \in T
    BY <1>1, <2>1, UpTo
  <2> QED
    BY <2>2 DEF T
<1> QED
  BY <1>3, <1>4, <1>5 DEF f, n

(* The sums of sizes grow, size by size, up to the total.                  *)
LEMMA SumsOfNumbers ==
  ASSUME NEW sizes \in Seq(Nat)
  PROVE  /\ Sums(sizes) \in [0..Len(sizes) -> Nat]
         /\ Total(sizes) \in Nat
         /\ \A i \in 0..Len(sizes) : Sums(sizes)[i] <= Total(sizes)
         /\ \A i \in 1..Len(sizes) : Sums(sizes)[i] = Sums(sizes)[i - 1] + sizes[i]
<1> DEFINE n == Len(sizes)
           f == Sums(sizes)
<1>1. n \in Nat /\ sizes \in Seq(Int) /\ \A i \in 1..n : sizes[i] \in Nat
  BY LenProperties, ElementOfSeq, SeqMonotonic
<1>2. /\ f \in [0..n -> Int] /\ f[0] = 0
      /\ \A i \in 1..n : f[i] = f[i - 1] + sizes[i]
  BY <1>1, SumsAre
<1> HIDE DEF n, f
<1>3. \A i \in 0..n : f[i] \in Nat
  <2> DEFINE T == {i \in 0..n : f[i] \in Nat}
  <2>1. 0 \in T
    BY <1>1, <1>2
  <2>2. ASSUME NEW i \in 1..n, f[i - 1] \in Nat PROVE f[i] \in Nat
    <3>1. f[i] = f[i - 1] + sizes[i] /\ sizes[i] \in Nat
      BY <1>1, <1>2
    <3> QED
      BY <2>2, <3>1
  <2>3. \A i \in 1..n : i - 1 \in T => i \in T
    BY <1>1, <2>2
  <2> HIDE DEF T
  <2>4. \A i \in 0..n : i \in T
    BY <1>1, <2>1, <2>3, UpTo
  <2> QED
    BY <2>4 DEF T
<1>4. \A m \in 0..n : \A i \in 0..m : f[i] <= f[m]
  <2> DEFINE T == {m \in 0..n : \A i \in 0..m : f[i] <= f[m]}
  <2>1. 0 \in T
    BY <1>1, <1>3
  <2>2. ASSUME NEW m \in 1..n, m - 1 \in T PROVE m \in T
    <3>1. f[m] = f[m - 1] + sizes[m] /\ f[m] \in Nat /\ f[m - 1] \in Nat /\ sizes[m] \in Nat
      BY <1>1, <1>2, <1>3
    <3>2. ASSUME NEW i \in 0..m PROVE f[i] <= f[m]
      <4>1. CASE i = m
        BY <3>1, <4>1
      <4>2. CASE i # m
        <5>1. i \in 0..(m - 1) /\ i \in 0..n
          BY <1>1, <4>2
        <5>2. f[i] <= f[m - 1] /\ f[i] \in Nat
          BY <1>3, <2>2, <5>1
        <5> QED
          BY <3>1, <5>2
      <4> QED
        BY <4>1, <4>2
    <3> QED
      BY <3>2
  <2> HIDE DEF T
  <2>3. \A m \in 0..n : m \in T
    BY <1>1, <2>1, <2>2, UpTo
  <2> QED
    BY <2>3 DEF T
<1>5. Total(sizes) = f[n]
  BY DEF Total, f, n
<1>6. f \in [0..n -> Nat]
  BY <1>2, <1>3
<1> QED
  BY <1>1, <1>2, <1>4, <1>5, <1>6 DEF f, n

AreSums(f, n, sizes) ==
  f \in [0..n -> Int] /\ f[0] = 0 /\ \A k \in 1..n : f[k] = f[k - 1] + sizes[k]

(* There is one way to sum up.                                             *)
LEMMA SumsAreUnique ==
  ASSUME NEW n \in Nat, NEW sizes, NEW f, AreSums(f, n, sizes), NEW g, AreSums(g, n, sizes)
  PROVE  f = g
<1>0. /\ f \in [0..n -> Int] /\ g \in [0..n -> Int] /\ f[0] = g[0]
      /\ \A k \in 1..n : f[k] = f[k - 1] + sizes[k] /\ g[k] = g[k - 1] + sizes[k]
  BY DEF AreSums
<1> DEFINE T == {k \in 0..n : f[k] = g[k]}
<1>1. 0 \in T
  BY <1>0
<1>2. ASSUME NEW k \in 1..n, f[k - 1] = g[k - 1] PROVE f[k] = g[k]
  BY <1>0, <1>2
<1>3. \A k \in 1..n : k - 1 \in T => k \in T
  BY <1>2
<1> HIDE DEF T
<1>4. \A k \in 0..n : k \in T
  BY <1>1, <1>3, UpTo
<1> QED
  BY <1>0, <1>4 DEF T

(* The parts of a flattened sequence are where the sums of their lengths   *)
(* say.                                                                    *)
LEMMA FlattenAtSums ==
  ASSUME NEW S, NEW seqs \in Seq(Seq(S)), NEW sizes, DOMAIN sizes = 1..Len(seqs),
         sizes = [i \in 1..Len(seqs) |-> sizes[i]],
         \A i \in 1..Len(seqs) : sizes[i] = Len(seqs[i])
  PROVE  /\ sizes \in Seq(Nat) /\ Len(sizes) = Len(seqs)
         /\ FlattenSeq(seqs) \in Seq(S)
         /\ ArePlaces(Sums(sizes), seqs, FlattenSeq(seqs))
         /\ Len(FlattenSeq(seqs)) = Total(sizes)
<1> DEFINE n == Len(seqs)
<1>1. n \in Nat /\ \A i \in 1..n : Len(seqs[i]) \in Nat
  BY LenProperties, ElementOfSeq
<1>2. sizes \in Seq(Nat) /\ Len(sizes) = n
  BY <1>1, Numbered
<1>3. PICK places : ArePlaces(places, seqs, FlattenSeq(seqs))
  BY FlattenIs
<1>4. /\ places \in [0..n -> Nat] /\ places[0] = 0
      /\ \A i \in 1..n : places[i] = places[i - 1] + sizes[i]
  BY <1>3 DEF ArePlaces
<1>5. /\ Sums(sizes) \in [0..n -> Int] /\ Sums(sizes)[0] = 0
      /\ \A i \in 1..n : Sums(sizes)[i] = Sums(sizes)[i - 1] + sizes[i]
  <2>1. sizes \in Seq(Int)
    BY <1>2, SeqMonotonic
  <2> QED
    BY <1>2, <2>1, SumsAre
<1>6. AreSums(places, n, sizes)
  BY <1>4 DEF AreSums
<1>7. AreSums(Sums(sizes), n, sizes)
  BY <1>5 DEF AreSums
<1>8. Sums(sizes) = places
  BY <1>1, <1>6, <1>7, SumsAreUnique
<1>9. Len(FlattenSeq(seqs)) = Total(sizes)
  BY <1>2, <1>3, <1>8 DEF ArePlaces, Total
<1> QED
  BY <1>2, <1>3, <1>8, <1>9, FlattenIs

-----------------------------------------------------------------------------
(* Digits.                                                                 *)
ArePowers(f, n) == f[0] = 1 /\ \A k \in 1..n : f[k] = 10 * f[k - 1]

(* There is one way to make powers of ten, and none is zero.               *)
LEMMA PowersAre ==
  ASSUME NEW n \in Nat, NEW f, ArePowers(f, n), NEW g, ArePowers(g, n)
  PROVE  \A k \in 0..n : f[k] = g[k] /\ f[k] \in Nat \ {0}
<1> DEFINE T == {k \in 0..n : f[k] = g[k] /\ f[k] \in Nat \ {0}}
<1>1. 0 \in T
  BY DEF ArePowers
<1>2. ASSUME NEW k \in 1..n, f[k - 1] = g[k - 1] /\ f[k - 1] \in Nat \ {0}
      PROVE  f[k] = g[k] /\ f[k] \in Nat \ {0}
  BY <1>2 DEF ArePowers
<1>3. \A k \in 1..n : k - 1 \in T => k \in T
  BY <1>2
<1> HIDE DEF T
<1>4. \A k \in 0..n : k \in T
  BY <1>1, <1>3, UpTo
<1> QED
  BY <1>4 DEF T

(* PowerOf10 makes them.                                                   *)
LEMMA PowersExist ==
  ASSUME NEW n \in Nat
  PROVE  \E f : /\ ArePowers(f, n) /\ PowerOf10(n) = f[n]
<1> DEFINE IsPower(f) == f = [i \in 0..n |-> IF i = 0 THEN 1 ELSE 10 * f[i - 1]]
<1>1. \E f : IsPower(f)
  <2> DEFINE step == [k \in 1..n |-> [x \in Int |-> 10 * x]]
  <2>1. IsStep(step, n, Int) /\ 1 \in Int
    BY DEF IsStep
  <2>2. \A k \in 1..n : \A x \in Int : step[k][x] = 10 * x
    OBVIOUS
  <2> HIDE DEF step
  <2>3. PICK f : IsRun(f, n, Int, 1, step)
    BY <2>1, RecursionExists
  <2>4. f \in [0..n -> Int] /\ f[0] = 1
    BY <2>3 DEF IsRun
  <2>5. ASSUME NEW k \in 1..n PROVE f[k] = 10 * f[k - 1]
    <3>1. f[k - 1] \in Int /\ f[k] = step[k][f[k - 1]]
      BY <2>3, <2>4 DEF IsRun
    <3> QED
      BY <2>2, <3>1
  <2>6. f = [i \in 0..n |-> f[i]]
    BY <2>4
  <2>7. \A i \in 0..n : f[i] = IF i = 0 THEN 1 ELSE 10 * f[i - 1]
    BY <2>4, <2>5
  <2> QED
    BY <2>6, <2>7
<1> DEFINE f == CHOOSE f : IsPower(f)
<1>2. IsPower(f)
  BY <1>1
<1>3. PowerOf10(n) = f[n]
  BY DEF PowerOf10
<1> HIDE DEF f
<1>4. ArePowers(f, n)
  BY <1>2 DEF ArePowers
<1> QED
  BY <1>3, <1>4

(* The recursion that PowerOf10 is, without a bound.                       *)
LEMMA PowerIs ==
  ASSUME NEW n \in Nat
  PROVE  /\ PowerOf10(n) \in Nat \ {0}
         /\ PowerOf10(0) = 1
         /\ PowerOf10(n + 1) = 10 * PowerOf10(n)
<1>1. PICK f : ArePowers(f, n) /\ PowerOf10(n) = f[n]
  BY PowersExist
<1>2. PICK g : ArePowers(g, n + 1) /\ PowerOf10(n + 1) = g[n + 1]
  <2>1. n + 1 \in Nat
    OBVIOUS
  <2> QED
    BY <2>1, PowersExist
<1>3. PICK h : ArePowers(h, 0) /\ PowerOf10(0) = h[0]
  BY PowersExist
<1>4. ArePowers(g, n) /\ g[n + 1] = 10 * g[n]
  BY <1>2 DEF ArePowers
<1>5. f[n] = g[n] /\ f[n] \in Nat \ {0}
  BY <1>1, <1>4, PowersAre
<1> QED
  BY <1>1, <1>2, <1>3, <1>4, <1>5 DEF ArePowers

(* Division with a rest, as BibMarcSizeWrite uses it.                      *)
LEMMA DivisionIs ==
  ASSUME NEW v \in Nat, NEW p \in Nat \ {0}
  PROVE  /\ v \div p \in Nat /\ v % p \in 0..(p - 1)
         /\ v = p * (v \div p) + (v % p)
<1>1. v \div p \in Nat /\ v % p \in 0..(p - 1)
  OBVIOUS
<1>2. v = p * (v \div p) + (v % p)
  BY SMTT(20)
<1> QED
  BY <1>1, <1>2

(* A number is a multiple and a rest in one way.                           *)
LEMMA DivisionIsUnique ==
  ASSUME NEW v \in Nat, NEW p \in Nat \ {0}, NEW a \in Nat, NEW b \in 0..(p - 1),
         v = p * a + b
  PROVE  v \div p = a /\ v % p = b
OBVIOUS

(* What is left of a number, and what is left of that.                     *)
LEMMA RestOfRest ==
  ASSUME NEW v \in Nat, NEW p \in Nat \ {0}
  PROVE  /\ v % (10 * p) \in 0..(10 * p - 1)
         /\ (v % (10 * p)) \div p \in Digit
         /\ v % (10 * p) = p * ((v % (10 * p)) \div p) + (v % p)
<1> DEFINE q == v \div (10 * p)
           r == v % (10 * p)
           e == r \div p
           f == r % p
<1>1. 10 * p \in Nat \ {0}
  OBVIOUS
<1>2. q \in Nat /\ r \in Nat /\ r \in 0..(10 * p - 1) /\ v = (10 * p) * q + r
  <2> DEFINE t == 10 * p
  <2>1. t \in Nat \ {0}
    BY <1>1
  <2> HIDE DEF t
  <2>2. /\ v \div t \in Nat /\ v % t \in 0..(t - 1)
        /\ v = t * (v \div t) + (v % t)
    BY <2>1, DivisionIs
  <2> QED
    BY <2>2 DEF t
<1>3. e \in Nat /\ f \in 0..(p - 1) /\ r = p * e + f
  BY <1>2, DivisionIs
<1>4. e \in Digit
  <2> HIDE DEF q
  <2>1. r < 10 * p
    BY <1>2
  <2> QED
    BY <1>2, <2>1 DEF Digit
<1> HIDE DEF q, r, e, f
<1>5. v = p * (10 * q + e) + f
  BY <1>2, <1>3
<1>6. v % p = f
  <2>1. 10 * q + e \in Nat
    BY <1>2, <1>3
  <2> QED
    BY <1>3, <1>5, <2>1, DivisionIsUnique
<1>7. r = p * e + (v % p)
  BY <1>3, <1>6, Zenon
<1> QED
  BY <1>2, <1>4, <1>7 DEF r, e

(* A digit stays itself; what is too large for eight bits does not.        *)
LEMMA AsInt8Is ==
  /\ \A n \in Digit : AsInt8(n) = n /\ n \in Int
  /\ \A n \in Int : AsInt8(n) \in Byte
  /\ \A n \in 0..127 : AsInt8(n) = n
  /\ \A n \in 128..255 : AsInt8(n) = n - 256
BY DEF AsInt8, Byte, Digit

(* The digits of a size, and what is left before each.                     *)
RestBefore(value, digits, i) == IF i = 1 THEN value ELSE value % PowerOf10(digits - i + 1)
RawDigit(value, digits, i) == RestBefore(value, digits, i) \div PowerOf10(digits - i)

(* The digits BibMarcSizeWrite leaves: all but the first are digits.       *)
LEMMA SizeWriteIs ==
  ASSUME NEW value \in Nat, NEW digits \in Nat \ {0}
  PROVE  /\ SizeWrite(value, digits) \in Seq(Byte)
         /\ Len(SizeWrite(value, digits)) = digits
         /\ DOMAIN SizeWrite(value, digits) = 1..digits
         /\ \A i \in 1..digits : SizeWrite(value, digits)[i] = AsInt8(RawDigit(value, digits, i))
         /\ \A i \in 1..digits :
              /\ RestBefore(value, digits, i) \in Nat
              /\ RestBefore(value, digits, i)
                   = PowerOf10(digits - i) * RawDigit(value, digits, i)
                       + (IF i = digits THEN 0 ELSE RestBefore(value, digits, i + 1))
         /\ \A i \in 2..digits : RawDigit(value, digits, i) \in Digit
<1>1. \A i \in 1..digits : /\ digits - i \in Nat
                           /\ PowerOf10(digits - i) \in Nat \ {0}
                           /\ PowerOf10(digits - i + 1) = 10 * PowerOf10(digits - i)
  <2> TAKE i \in 1..digits
  <2>1. digits - i \in Nat
    OBVIOUS
  <2> QED
    BY <2>1, PowerIs
<1>2. ASSUME NEW i \in 1..digits
      PROVE  /\ RestBefore(value, digits, i) \in Nat
             /\ RawDigit(value, digits, i) \in Nat
             /\ i # 1 => RawDigit(value, digits, i) \in Digit
             /\ RestBefore(value, digits, i)
                  = PowerOf10(digits - i) * RawDigit(value, digits, i)
                      + (value % PowerOf10(digits - i))
  <2> DEFINE p == PowerOf10(digits - i)
  <2>1. p \in Nat \ {0} /\ PowerOf10(digits - i + 1) = 10 * p
    BY <1>1
  <2> HIDE DEF p
  <2>2. CASE i = 1
    <3>1. RestBefore(value, digits, i) = value /\ RawDigit(value, digits, i) = value \div p
      BY <2>2 DEF RestBefore, RawDigit, p
    <3> QED
      BY <2>1, <2>2, <3>1, DivisionIs DEF p
  <2>3. CASE i # 1
    <3>1. /\ RestBefore(value, digits, i) = value % (10 * p)
          /\ RawDigit(value, digits, i) = (value % (10 * p)) \div p
      BY <2>1, <2>3 DEF RestBefore, RawDigit, p
    <3>2. /\ value % (10 * p) \in 0..(10 * p - 1)
          /\ (value % (10 * p)) \div p \in Digit
          /\ value % (10 * p) = p * ((value % (10 * p)) \div p) + (value % p)
      BY <2>1, RestOfRest
    <3> QED
      BY <2>1, <3>1, <3>2 DEF p, Digit
  <2> QED
    BY <2>2, <2>3
<1>3. ASSUME NEW i \in 1..digits
      PROVE  value % PowerOf10(digits - i)
               = IF i = digits THEN 0 ELSE RestBefore(value, digits, i + 1)
  <2>1. CASE i = digits
    <3>1. PowerOf10(digits - i) = 1
      BY <2>1, PowerIs
    <3> QED
      BY <2>1, <3>1
  <2>2. CASE i # digits
    <3>1. digits - (i + 1) + 1 = digits - i /\ i + 1 # 1
      OBVIOUS
    <3> QED
      BY <2>2, <3>1 DEF RestBefore
  <2> QED
    BY <2>1, <2>2
<1>4. ASSUME NEW i \in 1..digits
      PROVE  SizeWrite(value, digits)[i] = AsInt8(RawDigit(value, digits, i))
  BY DEF SizeWrite, RawDigit, RestBefore
<1>5. SizeWrite(value, digits) \in Seq(Byte) /\ Len(SizeWrite(value, digits)) = digits
      /\ DOMAIN SizeWrite(value, digits) = 1..digits
  <2>1. /\ DOMAIN SizeWrite(value, digits) = 1..digits
        /\ SizeWrite(value, digits) = [i \in 1..digits |-> SizeWrite(value, digits)[i]]
    BY DEF SizeWrite
  <2>2. \A i \in 1..digits : SizeWrite(value, digits)[i] \in Byte
    BY <1>2, <1>4, AsInt8Is
  <2> QED
    BY <2>1, <2>2, Numbered
<1>6. ASSUME NEW i \in 1..digits
      PROVE  RestBefore(value, digits, i)
               = PowerOf10(digits - i) * RawDigit(value, digits, i)
                   + (IF i = digits THEN 0 ELSE RestBefore(value, digits, i + 1))
  BY <1>2, <1>3, Zenon
<1>7. \A i \in 2..digits : RawDigit(value, digits, i) \in Digit
  BY <1>2
<1> QED
  BY <1>2, <1>4, <1>5, <1>6, <1>7


(* What a size is read back as: itself when it has no more digits than     *)
(* there is room for, and otherwise no size at all while the first digit   *)
(* does not wrap.                                                          *)
LEMMA SizeReadValues ==
  ASSUME NEW bytes \in Seq(Int)
  PROVE  \E f : /\ f \in [0..Len(bytes) -> Int] /\ f[0] = 0
                /\ \A i \in 1..Len(bytes) : f[i] = 10 * f[i - 1] + bytes[i]
                /\ SizeRead(bytes) = IF \A i \in DOMAIN bytes : bytes[i] \in Digit
                                     THEN f[Len(bytes)] ELSE NotFound
<1> DEFINE n == Len(bytes)
           IsValue(f) == f = [i \in 0..n |-> IF i = 0 THEN 0 ELSE 10 * f[i - 1] + bytes[i]]
<1>1. n \in Nat /\ \A i \in 1..n : bytes[i] \in Int
  BY LenProperties, ElementOfSeq
<1>2. \E f : IsValue(f) /\ f \in [0..n -> Int]
  <2> DEFINE step == [k \in 1..n |-> [x \in Int |-> 10 * x + bytes[k]]]
  <2>1. IsStep(step, n, Int) /\ 0 \in Int
    BY <1>1 DEF IsStep
  <2> HIDE DEF n
  <2>2. \A k \in 1..n : \A x \in Int : step[k][x] = 10 * x + bytes[k]
    OBVIOUS
  <2> HIDE DEF step
  <2>3. PICK f : IsRun(f, n, Int, 0, step)
    BY <1>1, <2>1, RecursionExists
  <2>4. f \in [0..n -> Int] /\ f[0] = 0
    BY <2>3 DEF IsRun
  <2>5. ASSUME NEW k \in 1..n PROVE f[k] = 10 * f[k - 1] + bytes[k]
    <3>1. f[k - 1] \in Int /\ f[k] = step[k][f[k - 1]]
      BY <1>1, <2>3, <2>4 DEF IsRun
    <3> QED
      BY <2>2, <3>1
  <2>6. f = [i \in 0..n |-> f[i]]
    BY <2>4
  <2>7. \A i \in 0..n : f[i] = IF i = 0 THEN 0 ELSE 10 * f[i - 1] + bytes[i]
    BY <1>1, <2>4, <2>5
  <2> QED
    BY <2>4, <2>6, <2>7
<1> DEFINE f == CHOOSE f : IsValue(f)
<1>3. IsValue(f)
  BY <1>2
<1>4. SizeRead(bytes) = IF \A i \in DOMAIN bytes : bytes[i] \in Digit THEN f[n] ELSE NotFound
  BY DEF SizeRead
<1> HIDE DEF f
<1>5. f[0] = 0 /\ \A i \in 1..n : f[i] = 10 * f[i - 1] + bytes[i]
  BY <1>1, <1>3
<1>6. f \in [0..n -> Int]
  <2> DEFINE T == {i \in 0..n : f[i] \in Int}
  <2>1. 0 \in T
    BY <1>1, <1>5
  <2>2. ASSUME NEW i \in 1..n, f[i - 1] \in Int PROVE f[i] \in Int
    <3>1. f[i] = 10 * f[i - 1] + bytes[i] /\ bytes[i] \in Int
      BY <1>1, <1>5
    <3> QED
      BY <2>2, <3>1
  <2>3. \A i \in 1..n : i - 1 \in T => i \in T
    BY <1>1, <2>2
  <2> HIDE DEF T
  <2>4. \A i \in 0..n : i \in T
    BY <1>1, <2>1, <2>3, UpTo
  <2> QED
    BY <1>3, <2>4 DEF T
<1> QED
  BY <1>4, <1>5, <1>6

(* A size that fits is read back, and one that does not fit and does not   *)
(* wrap is not read at all.                                                *)
LEMMA SizeIsReadBack ==
  ASSUME NEW value \in Nat, NEW digits \in Nat \ {0}
  PROVE  /\ value < PowerOf10(digits) => SizeRead(SizeWrite(value, digits)) = value
         /\ value < 256 * PowerOf10(digits - 1) /\ SizeRead(SizeWrite(value, digits)) # NotFound
              => SizeRead(SizeWrite(value, digits)) = value /\ value < PowerOf10(digits)
<1> DEFINE bytes == SizeWrite(value, digits)
           raw(i) == RawDigit(value, digits, i)
           rest(i) == RestBefore(value, digits, i)
           p == PowerOf10(digits - 1)
<1>1. /\ bytes \in Seq(Byte) /\ Len(bytes) = digits /\ DOMAIN bytes = 1..digits
      /\ \A i \in 1..digits : bytes[i] = AsInt8(raw(i))
      /\ \A i \in 1..digits :
           /\ rest(i) \in Nat
           /\ rest(i) = PowerOf10(digits - i) * raw(i) + (IF i = digits THEN 0 ELSE rest(i + 1))
      /\ \A i \in 2..digits : raw(i) \in Digit
  BY SizeWriteIs
<1>2. p \in Nat \ {0} /\ PowerOf10(digits) = 10 * p
  <2>1. digits - 1 \in Nat /\ (digits - 1) + 1 = digits
    OBVIOUS
  <2> QED
    BY <2>1, PowerIs
<1>3. rest(1) = value /\ raw(1) = value \div p
  BY DEF RestBefore, RawDigit
<1> HIDE DEF p
<1>4. value < 10 * p <=> raw(1) \in Digit
  BY <1>2, <1>3 DEF Digit
<1>5. value < 256 * p => raw(1) \in 0..255
  BY <1>2, <1>3
<1>6. \A i \in 2..digits : bytes[i] = raw(i)
  <2> HIDE DEF bytes, raw
  <2> TAKE i \in 2..digits
  <2>1. i \in 1..digits
    OBVIOUS
  <2>2. raw(i) \in Digit /\ bytes[i] = AsInt8(raw(i))
    BY <1>1, <2>1
  <2> QED
    BY <2>2, AsInt8Is
<1> HIDE DEF bytes, raw, rest
<1>7. value < 256 * p /\ bytes[1] \in Digit => raw(1) \in Digit
  <2> SUFFICES ASSUME value < 256 * p, bytes[1] \in Digit PROVE raw(1) \in Digit
    OBVIOUS
  <2>1. raw(1) \in 0..255 /\ bytes[1] = AsInt8(raw(1))
    BY <1>1, <1>5
  <2>2. raw(1) \in 0..127 \/ (raw(1) \in 128..255 /\ bytes[1] = raw(1) - 256)
    BY <2>1, AsInt8Is
  <2> QED
    BY <2>1, <2>2, AsInt8Is DEF Digit
<1>8. raw(1) \in Digit => bytes[1] = raw(1)
  <2>1. bytes[1] = AsInt8(raw(1))
    BY <1>1
  <2> QED
    BY <2>1, AsInt8Is
<1>9. bytes \in Seq(Int)
  <2>1. Byte \subseteq Int
    BY DEF Byte
  <2> QED
    BY <1>1, <2>1, SeqMonotonic
<1>10. PICK f : /\ f \in [0..digits -> Int] /\ f[0] = 0
                /\ \A i \in 1..digits : f[i] = 10 * f[i - 1] + bytes[i]
                /\ SizeRead(bytes) = IF \A i \in 1..digits : bytes[i] \in Digit
                                     THEN f[digits] ELSE NotFound
  BY <1>1, <1>9, SizeReadValues
<1>11. ASSUME raw(1) \in Digit PROVE SizeRead(bytes) = value
  <2>1. \A i \in 1..digits : bytes[i] = raw(i) /\ raw(i) \in Digit
    BY <1>1, <1>6, <1>8, <1>11
  <2> DEFINE left(i) == IF i = digits THEN 0 ELSE rest(i + 1)
             T == {i \in 0..digits : i = 0 \/ value = PowerOf10(digits - i) * f[i] + left(i)}
  <2>2. ASSUME NEW i \in 1..digits,
               i - 1 = 0 \/ value = PowerOf10(digits - (i - 1)) * f[i - 1] + left(i - 1)
        PROVE  value = PowerOf10(digits - i) * f[i] + left(i)
    <3> DEFINE q == PowerOf10(digits - i)
    <3>1. q \in Nat /\ PowerOf10(digits - (i - 1)) = 10 * q
      <4>1. digits - i \in Nat /\ digits - (i - 1) = (digits - i) + 1
        OBVIOUS
      <4> QED
        BY <4>1, PowerIs
    <3>2. rest(i) \in Nat /\ rest(i) = q * raw(i) + left(i)
      BY <1>1
    <3>3. f[i] = 10 * f[i - 1] + raw(i) /\ f[i - 1] \in Int /\ raw(i) \in Int
      <4>1. i - 1 \in 0..digits
        OBVIOUS
      <4>2. f[i - 1] \in Int /\ f[i] = 10 * f[i - 1] + bytes[i]
        BY <1>10, <4>1
      <4> QED
        BY <2>1, <4>2, AsInt8Is
    <3>4. i # 1 => left(i - 1) = rest(i)
      OBVIOUS
    <3>5. left(i) \in Int
      BY <1>1
    <3> HIDE DEF q, left
    <3>6. CASE i = 1
      BY <1>3, <1>10, <3>1, <3>2, <3>3, <3>6 DEF q
    <3>7. CASE i # 1
      <4> DEFINE a == f[i - 1]
                 b == raw(i)
                 c == left(i)
      <4>1. value = (10 * q) * a + (q * b + c)
        BY <2>2, <3>1, <3>2, <3>4, <3>7
      <4>2. f[i] = 10 * a + b /\ a \in Int /\ b \in Int /\ c \in Int
        BY <3>3, <3>5
      <4> HIDE DEF a, b, c
      <4>3. (10 * q) * a + (q * b + c) = q * (10 * a + b) + c
        BY <3>1, <4>2
      <4> QED
        BY <4>1, <4>2, <4>3 DEF q, c
    <3> QED
      BY <3>6, <3>7
  <2>3. 0 \in T /\ \A i \in 1..digits : i - 1 \in T => i \in T
    BY <2>2
  <2> HIDE DEF T
  <2>4. \A i \in 0..digits : i \in T
    BY <2>3, UpTo
  <2>5. value = PowerOf10(digits - digits) * f[digits] + 0
    BY <2>4 DEF T
  <2>6. value = f[digits]
    <3>1. digits - digits = 0 /\ PowerOf10(0) = 1 /\ f[digits] \in Int
      BY <1>10, PowerIs
    <3> QED
      BY <2>5, <3>1
  <2> QED
    BY <1>10, <2>1, <2>6
<1>12. SizeRead(bytes) # NotFound => bytes[1] \in Digit
  BY <1>10
<1> QED
  BY <1>2, <1>4, <1>7, <1>11, <1>12 DEF bytes, p

-----------------------------------------------------------------------------
(* Where a sequence is in another one.                                     *)
IsAt(part, at, whole) ==
  /\ at + Len(part) <= Len(whole)
  /\ \A j \in 1..Len(part) : whole[at + j] = part[j]

(* What is cut out of bytes is there.                                      *)
LEMMA SliceIs ==
  ASSUME NEW S, NEW whole \in Seq(S), NEW at \in Nat, NEW length \in Nat,
         at + length <= Len(whole)
  PROVE  /\ Bytes(whole, at, length) \in Seq(S)
         /\ Len(Bytes(whole, at, length)) = length
         /\ \A j \in 1..length : Bytes(whole, at, length)[j] = whole[at + j]
         /\ IsAt(Bytes(whole, at, length), at, whole)
<1>1. Len(whole) \in Nat /\ \A j \in 1..Len(whole) : whole[j] \in S
  BY LenProperties, ElementOfSeq
<1> DEFINE s == SubSeq(whole, at + 1, at + length)
<1>2. s = [j \in 1..length |-> whole[at + j]]
  <2>1. /\ (at + length) - (at + 1) + 1 = length
        /\ \A j \in 1..length : j + (at + 1) - 1 = at + j
    BY <1>1
  <2> QED
    BY <1>1, <2>1
<1> HIDE DEF s
<1>3. /\ DOMAIN s = 1..length /\ s = [j \in 1..length |-> s[j]]
      /\ \A j \in 1..length : s[j] = whole[at + j]
  BY <1>2
<1>4. \A j \in 1..length : s[j] \in S
  <2> TAKE j \in 1..length
  <2>1. at + j \in 1..Len(whole)
    BY <1>1
  <2> QED
    BY <1>1, <1>3, <2>1
<1>5. s \in Seq(S) /\ Len(s) = length
  BY <1>3, <1>4, Numbered
<1>6. Bytes(whole, at, length) = s
  BY DEF Bytes, s
<1> QED
  BY <1>3, <1>5, <1>6 DEF IsAt

(* What is somewhere can be cut out there.                                 *)
LEMMA SliceAt ==
  ASSUME NEW S, NEW whole \in Seq(S), NEW part \in Seq(S), NEW at \in Nat, IsAt(part, at, whole)
  PROVE  Bytes(whole, at, Len(part)) = part
<1>1. Len(part) \in Nat /\ at + Len(part) <= Len(whole)
  BY LenProperties DEF IsAt
<1> DEFINE s == Bytes(whole, at, Len(part))
<1>2. /\ s \in Seq(S) /\ Len(s) = Len(part)
      /\ \A j \in 1..Len(part) : s[j] = whole[at + j]
  BY <1>1, SliceIs
<1> HIDE DEF s
<1>3. \A j \in 1..Len(s) : s[j] = part[j]
  BY <1>2 DEF IsAt
<1>4. s = part
  BY <1>2, <1>3, SeqEqual
<1> QED
  BY <1>4 DEF s

(* What is in a part of the bytes is in the bytes.                         *)
LEMMA AtInside ==
  ASSUME NEW S, NEW whole \in Seq(S), NEW middle \in Seq(S), NEW part \in Seq(S),
         NEW at \in Nat, IsAt(middle, at, whole), NEW inside \in Nat, IsAt(part, inside, middle)
  PROVE  IsAt(part, at + inside, whole)
<1>1. Len(whole) \in Nat /\ Len(middle) \in Nat /\ Len(part) \in Nat
  BY LenProperties
<1>2. /\ at + Len(middle) <= Len(whole) /\ inside + Len(part) <= Len(middle)
      /\ \A j \in 1..Len(middle) : whole[at + j] = middle[j]
      /\ \A j \in 1..Len(part) : middle[inside + j] = part[j]
  BY DEF IsAt
<1>3. ASSUME NEW j \in 1..Len(part) PROVE whole[(at + inside) + j] = part[j]
  <2>1. inside + j \in 1..Len(middle) /\ at + (inside + j) = (at + inside) + j
    BY <1>1, <1>2
  <2>2. whole[at + (inside + j)] = middle[inside + j]
    BY <1>2, <2>1
  <2> QED
    BY <1>2, <2>1, <2>2
<1> QED
  BY <1>1, <1>2, <1>3 DEF IsAt

(* The two parts of a concatenation are where they were put.               *)
LEMMA AtConcat ==
  ASSUME NEW S, NEW s \in Seq(S), NEW t \in Seq(S)
  PROVE  /\ s \o t \in Seq(S) /\ Len(s \o t) = Len(s) + Len(t)
         /\ IsAt(s, 0, s \o t) /\ IsAt(t, Len(s), s \o t)
<1>1. /\ s \o t \in Seq(S) /\ Len(s \o t) = Len(s) + Len(t)
      /\ \A j \in 1..Len(s) : (s \o t)[j] = s[j]
      /\ \A j \in 1..Len(t) : (s \o t)[Len(s) + j] = t[j]
  BY Beside
<1>2. Len(s) \in Nat /\ Len(t) \in Nat
  BY LenProperties
<1>3. \A j \in 1..Len(s) : 0 + j = j
  BY <1>2
<1> QED
  BY <1>1, <1>2, <1>3 DEF IsAt

(* What is at a place of a sequence is there still when more follows.      *)
LEMMA AtConcatToo ==
  ASSUME NEW S, NEW s \in Seq(S), NEW t \in Seq(S), NEW part \in Seq(S), NEW at \in Nat,
         IsAt(part, at, s)
  PROVE  IsAt(part, at, s \o t)
<1>1. s \o t \in Seq(S) /\ IsAt(s, 0, s \o t) /\ 0 + at = at
  BY AtConcat
<1> QED
  BY <1>1, AtInside, Zenon

(* The parts of a flattened sequence.                                      *)
AreLengths(sizes, seqs) ==
  /\ DOMAIN sizes = 1..Len(seqs) /\ sizes = [i \in 1..Len(seqs) |-> sizes[i]]
  /\ \A i \in 1..Len(seqs) : sizes[i] = Len(seqs[i])

(* The parts of a flattened sequence lie at the sums of their lengths.     *)
LEMMA FlattenAt ==
  ASSUME NEW S, NEW seqs \in Seq(Seq(S)), NEW sizes, AreLengths(sizes, seqs)
  PROVE  /\ sizes \in Seq(Nat) /\ Len(sizes) = Len(seqs)
         /\ FlattenSeq(seqs) \in Seq(S)
         /\ Len(FlattenSeq(seqs)) = Total(sizes)
         /\ \A i \in 1..Len(seqs) : /\ Sums(sizes)[i - 1] \in Nat
                                    /\ IsAt(seqs[i], Sums(sizes)[i - 1], FlattenSeq(seqs))
<1> DEFINE n == Len(seqs)
           flat == FlattenSeq(seqs)
           f == Sums(sizes)
<1>0. /\ DOMAIN sizes = 1..Len(seqs) /\ sizes = [i \in 1..Len(seqs) |-> sizes[i]]
      /\ \A i \in 1..Len(seqs) : sizes[i] = Len(seqs[i])
  BY DEF AreLengths
<1>1. /\ sizes \in Seq(Nat) /\ Len(sizes) = n
      /\ flat \in Seq(S) /\ ArePlaces(f, seqs, flat) /\ Len(flat) = Total(sizes)
  BY <1>0, FlattenAtSums
<1>2. /\ f \in [0..n -> Nat] /\ Total(sizes) \in Nat /\ n \in Nat
      /\ \A i \in 0..n : f[i] <= Total(sizes)
      /\ \A i \in 1..n : f[i] = f[i - 1] + sizes[i]
  BY <1>1, SumsOfNumbers, LenProperties
<1> HIDE DEF flat, f, n
<1>3. ASSUME NEW i \in 1..n PROVE f[i - 1] \in Nat /\ IsAt(seqs[i], f[i - 1], flat)
  <2>1. i - 1 \in 0..n /\ i \in 0..n
    BY <1>2
  <2>2. f[i - 1] \in Nat /\ f[i] <= Len(flat) /\ f[i] = f[i - 1] + Len(seqs[i])
    BY <1>0, <1>1, <1>2, <2>1 DEF n
  <2>3. \A j \in 1..Len(seqs[i]) : flat[f[i - 1] + j] = seqs[i][j]
    BY <1>1 DEF ArePlaces, n
  <2> QED
    BY <2>2, <2>3 DEF IsAt
<1> QED
  BY <1>1, <1>3 DEF n, flat, f

-----------------------------------------------------------------------------
(* Selections.                                                             *)
Options(seq, I) == [i \in DOMAIN seq |-> IF i \in I THEN <<seq[i]>> ELSE << >>]

ControlPlaces(record) == {i \in DOMAIN record : IsControlField(record[i])}
DataPlaces(record) == {i \in DOMAIN record : IsDataField(record[i])}

(* Marshalled without its operator parameter.                              *)
LEMMA MarshalledIsSelected ==
  ASSUME NEW record
  PROVE  Marshalled(record) = FlattenSeq(Options(record, ControlPlaces(record)))
                                \o FlattenSeq(Options(record, DataPlaces(record)))
<1>1. Selected(record, IsControlField) = FlattenSeq(Options(record, ControlPlaces(record)))
  <2>1. [i \in DOMAIN record |-> IF IsControlField(record[i]) THEN <<record[i]>> ELSE << >>]
          = Options(record, ControlPlaces(record))
    BY DEF Options, ControlPlaces
  <2> QED
    BY <2>1 DEF Selected
<1>2. Selected(record, IsDataField) = FlattenSeq(Options(record, DataPlaces(record)))
  <2>1. [i \in DOMAIN record |-> IF IsDataField(record[i]) THEN <<record[i]>> ELSE << >>]
          = Options(record, DataPlaces(record))
    BY DEF Options, DataPlaces
  <2> QED
    BY <2>1 DEF Selected
<1> QED
  BY <1>1, <1>2 DEF Marshalled

(* An element is selected or not.                                          *)
LEMMA OptionIs ==
  ASSUME NEW S
  PROVE  /\ << >> \in Seq(S) /\ Len(<< >>) = 0
         /\ \A x \in S : <<x>> \in Seq(S) /\ Len(<<x>>) = 1 /\ <<x>>[1] = x
OBVIOUS

(* What Options holds of each element.                                     *)
LEMMA OptionsAreSequences ==
  ASSUME NEW S, NEW seq \in Seq(S), NEW I, \A i \in I : seq[i] \in S
  PROVE  /\ Options(seq, I) \in Seq(Seq(S)) /\ Len(Options(seq, I)) = Len(seq)
         /\ \A i \in 1..Len(seq) : Options(seq, I)[i] = IF i \in I THEN <<seq[i]>> ELSE << >>
<1>1. Len(seq) \in Nat /\ DOMAIN seq = 1..Len(seq)
  BY LenProperties
<1> DEFINE o == Options(seq, I)
<1>2. /\ DOMAIN o = 1..Len(seq) /\ o = [i \in 1..Len(seq) |-> o[i]]
      /\ \A i \in 1..Len(seq) : o[i] = IF i \in I THEN <<seq[i]>> ELSE << >>
  BY <1>1 DEF Options
<1> HIDE DEF o
<1>3. ASSUME NEW i \in 1..Len(seq) PROVE o[i] \in Seq(S)
  <2>1. CASE i \in I
    BY <1>2, <2>1, OptionIs
  <2>2. CASE i \notin I
    BY <1>2, <2>2, OptionIs
  <2> QED
    BY <2>1, <2>2
<1>4. o \in Seq(Seq(S)) /\ Len(o) = Len(seq)
  BY <1>1, <1>2, <1>3, Numbered
<1> QED
  BY <1>2, <1>4 DEF o

(* What is selected is among what may be.                                  *)
LEMMA SelectedAreAmong ==
  ASSUME NEW S, NEW seq \in Seq(S), NEW I, NEW P, \A i \in I : i \in 1..Len(seq) => seq[i] \in P
  PROVE  FlattenSeq(Options(seq, I)) \in Seq(P)
<1> DEFINE o == Options(seq, I)
           J == I \cap (1..Len(seq))
<1>1. Len(seq) \in Nat /\ DOMAIN seq = 1..Len(seq)
  BY LenProperties
<1>2. /\ DOMAIN o = 1..Len(seq) /\ o = [i \in 1..Len(seq) |-> o[i]]
      /\ \A i \in 1..Len(seq) : o[i] = IF i \in I THEN <<seq[i]>> ELSE << >>
  BY <1>1 DEF Options
<1> HIDE DEF o
<1>3. ASSUME NEW i \in 1..Len(seq) PROVE o[i] \in Seq(P)
  <2>1. CASE i \in I
    <3>1. seq[i] \in P /\ o[i] = <<seq[i]>>
      BY <1>2, <2>1
    <3> QED
      BY <3>1, OptionIs
  <2>2. CASE i \notin I
    BY <1>2, <2>2, OptionIs
  <2> QED
    BY <2>1, <2>2
<1>4. o \in Seq(Seq(P))
  BY <1>1, <1>2, <1>3, Numbered
<1> QED
  BY <1>4, FlattenIs DEF o

(* A selection of neighbours is a slice.                                   *)
LEMMA SelectedNeighbours ==
  ASSUME NEW S, NEW seq \in Seq(S), NEW a \in Nat, NEW b \in Nat, a <= b, b <= Len(seq)
  PROVE  FlattenSeq(Options(seq, (a + 1)..b)) = Bytes(seq, a, b - a)
<1> DEFINE n == Len(seq)
           I == (a + 1)..b
           o == Options(seq, I)
           flat == FlattenSeq(o)
           sizes == [i \in 1..n |-> IF i \in I THEN 1 ELSE 0]
           g == [i \in 0..n |-> IF i <= a THEN 0 ELSE IF i <= b THEN i - a ELSE b - a]
<1>1. n \in Nat /\ \A i \in 1..n : seq[i] \in S
  BY LenProperties, ElementOfSeq
<1>2. /\ o \in Seq(Seq(S)) /\ Len(o) = n
      /\ \A i \in 1..n : o[i] = IF i \in I THEN <<seq[i]>> ELSE << >>
  <2>1. \A i \in I : seq[i] \in S
    BY <1>1
  <2> HIDE DEF I
  <2> QED
    BY <2>1, OptionsAreSequences
<1>3. DOMAIN sizes = 1..n /\ sizes = [i \in 1..n |-> sizes[i]]
  OBVIOUS
<1>4. ASSUME NEW i \in 1..n PROVE sizes[i] = Len(o[i])
  <2>1. CASE i \in I
    <3>1. o[i] = <<seq[i]>> /\ sizes[i] = 1 /\ seq[i] \in S
      BY <1>1, <1>2, <2>1
    <3> QED
      BY <3>1, OptionIs
  <2>2. CASE i \notin I
    <3>1. o[i] = << >> /\ sizes[i] = 0
      BY <1>2, <2>2
    <3> QED
      BY <3>1, OptionIs
  <2> QED
    BY <2>1, <2>2
<1>5. AreSums(g, n, sizes)
  <2> HIDE DEF n
  <2>1. g \in [0..n -> Int] /\ g[0] = 0
    BY <1>1
  <2>2. \A i \in 1..n : g[i] = g[i - 1] + sizes[i]
    BY <1>1
  <2> QED
    BY <2>1, <2>2 DEF AreSums
<1> HIDE DEF sizes, o, flat
<1>6. /\ sizes \in Seq(Nat) /\ Len(sizes) = n /\ flat \in Seq(S) /\ Len(flat) = Total(sizes)
      /\ \A i \in 1..n : IsAt(o[i], Sums(sizes)[i - 1], flat)
  <2>1. AreLengths(sizes, o)
    BY <1>2, <1>3, <1>4 DEF AreLengths
  <2>2. /\ sizes \in Seq(Nat) /\ Len(sizes) = Len(o)
        /\ FlattenSeq(o) \in Seq(S)
        /\ Len(FlattenSeq(o)) = Total(sizes)
        /\ \A i \in 1..Len(o) : IsAt(o[i], Sums(sizes)[i - 1], FlattenSeq(o))
    BY <1>2, <2>1, FlattenAt
  <2> QED
    BY <1>2, <2>2 DEF flat
<1> HIDE DEF n
<1>7. Sums(sizes) = g
  <2>1. sizes \in Seq(Int)
    BY <1>6, SeqMonotonic
  <2>2. AreSums(Sums(sizes), n, sizes)
    BY <1>6, <2>1, SumsAre DEF AreSums
  <2> HIDE DEF g
  <2> QED
    BY <1>1, <1>5, <2>2, SumsAreUnique
<1>8. Len(flat) = b - a
  <2>1. Len(flat) = g[n]
    BY <1>6, <1>7 DEF Total
  <2> QED
    BY <1>1, <2>1 DEF n
<1>9. ASSUME NEW j \in 1..(b - a) PROVE flat[j] = seq[a + j]
  <2>1. a + j \in 1..n /\ a + j \in I /\ g[(a + j) - 1] = j - 1
    BY <1>1 DEF n
  <2>2. IsAt(o[a + j], j - 1, flat) /\ o[a + j] = <<seq[a + j]>>
    <3> HIDE DEF g, I
    <3> QED
      BY <1>2, <1>6, <1>7, <2>1
  <2>3. flat[(j - 1) + 1] = <<seq[a + j]>>[1]
    BY <2>2 DEF IsAt
  <2> QED
    BY <2>3
<1>10. /\ Bytes(seq, a, b - a) \in Seq(S) /\ Len(Bytes(seq, a, b - a)) = b - a
       /\ \A j \in 1..(b - a) : Bytes(seq, a, b - a)[j] = seq[a + j]
  <2>1. b - a \in Nat /\ a + (b - a) <= Len(seq)
    OBVIOUS
  <2> QED
    BY <2>1, SliceIs
<1>11. flat = Bytes(seq, a, b - a)
  <2> HIDE DEF I, g
  <2> QED
    BY <1>6, <1>8, <1>9, <1>10, SeqEqual
<1> QED
  BY <1>11 DEF flat, o

-----------------------------------------------------------------------------
(* The order of a marshalled record: first its control fields.             *)
Whole == {f \in Field : HasItsParts(f)}
IsInOrder(marc, a) ==
  /\ marc \in Seq(Whole)
  /\ a \in 0..Len(marc)
  /\ \A i \in 1..a : IsControlField(marc[i])
  /\ \A i \in (a + 1)..Len(marc) : IsDataField(marc[i])

(* No field is of both kinds.                                              *)
LEMMA NotBoth ==
  ASSUME NEW f
  PROVE  ~(IsControlField(f) /\ IsDataField(f))
BY DEF IsControlField, IsDataField

(* Control fields come first, and no field is made up.                     *)
LEMMA MarshalledIsSorted ==
  ASSUME NEW record \in Seq(Whole)
  PROVE  /\ \E a : IsInOrder(Marshalled(record), a)
         /\ \A i \in 1..Len(Marshalled(record)) :
              \E j \in 1..Len(record) : Marshalled(record)[i] = record[j]
<1> DEFINE all == {record[j] : j \in 1..Len(record)}
           C == {f \in all : IsControlField(f)}
           D == {f \in all : IsDataField(f)}
           c == FlattenSeq(Options(record, ControlPlaces(record)))
           d == FlattenSeq(Options(record, DataPlaces(record)))
           marc == Marshalled(record)
<1>1. c \in Seq(C)
  <2>1. \A i \in ControlPlaces(record) : i \in 1..Len(record) => record[i] \in C
    BY DEF ControlPlaces
  <2> HIDE DEF C
  <2> QED
    BY <2>1, SelectedAreAmong
<1>2. d \in Seq(D)
  <2>1. \A i \in DataPlaces(record) : i \in 1..Len(record) => record[i] \in D
    BY DEF DataPlaces
  <2> HIDE DEF D
  <2> QED
    BY <2>1, SelectedAreAmong
<1>3. marc = c \o d
  BY MarshalledIsSelected
<1>4. all \subseteq Whole
  BY ElementOfSeq, LenProperties
<1>5. c \in Seq(all) /\ d \in Seq(all)
  <2>1. C \subseteq all /\ D \subseteq all
    OBVIOUS
  <2> HIDE DEF all, C, D, c, d
  <2> QED
    BY <1>1, <1>2, <2>1, SeqMonotonic
<1> HIDE DEF all, c, d, marc
<1>6. /\ marc \in Seq(all) /\ Len(marc) = Len(c) + Len(d)
      /\ \A j \in 1..Len(c) : marc[j] = c[j]
      /\ \A j \in 1..Len(d) : marc[Len(c) + j] = d[j]
  BY <1>3, <1>5, Beside
<1>7. Len(c) \in Nat /\ Len(d) \in Nat /\ Len(marc) \in Nat
  BY <1>1, <1>2, <1>6, LenProperties
<1>8. \A i \in 1..Len(c) : IsControlField(c[i])
  BY <1>1, ElementOfSeq
<1>9. \A i \in 1..Len(d) : IsDataField(d[i])
  BY <1>2, ElementOfSeq
<1>10. ASSUME NEW i \in (Len(c) + 1)..Len(marc) PROVE IsDataField(marc[i])
  <2> DEFINE j == i - Len(c)
  <2>1. j \in 1..Len(d) /\ Len(c) + j = i
    BY <1>6, <1>7
  <2> HIDE DEF j
  <2> QED
    BY <1>6, <1>9, <2>1
<1>11. marc \in Seq(Whole)
  BY <1>4, <1>6, SeqMonotonic
<1>12. IsInOrder(marc, Len(c))
  BY <1>6, <1>7, <1>8, <1>10, <1>11 DEF IsInOrder
<1>13. \A i \in 1..Len(marc) : \E j \in 1..Len(record) : marc[i] = record[j]
  BY <1>6, ElementOfSeq DEF all
<1> QED
  BY <1>12, <1>13 DEF marc

(* A sorted record is left as it is.                                       *)
LEMMA SortedIsMarshalled ==
  ASSUME NEW marc, NEW a, IsInOrder(marc, a)
  PROVE  Marshalled(marc) = marc
<1> DEFINE n == Len(marc)
<1>1. marc \in Seq(Whole) /\ n \in Nat /\ a \in 0..n /\ DOMAIN marc = 1..n
  BY LenProperties DEF IsInOrder
<1>2. ControlPlaces(marc) = (0 + 1)..a
  BY <1>1, NotBoth DEF ControlPlaces, IsInOrder
<1>3. DataPlaces(marc) = (a + 1)..n
  BY <1>1, NotBoth DEF DataPlaces, IsInOrder
<1>4. FlattenSeq(Options(marc, ControlPlaces(marc))) = Bytes(marc, 0, a)
  <2>1. 0 \in Nat /\ a \in Nat /\ 0 <= a /\ a <= Len(marc) /\ a - 0 = a
    BY <1>1
  <2> QED
    BY <1>1, <1>2, <2>1, SelectedNeighbours
<1>5. FlattenSeq(Options(marc, DataPlaces(marc))) = Bytes(marc, a, n - a)
  <2>1. a \in Nat /\ n \in Nat /\ a <= n /\ n <= Len(marc)
    BY <1>1
  <2> QED
    BY <1>1, <1>3, <2>1, SelectedNeighbours
<1>6. Bytes(marc, 0, a) \o Bytes(marc, a, n - a) = marc
  <2>1. Bytes(marc, 0, a) = SubSeq(marc, 1, a) /\ Bytes(marc, a, n - a) = SubSeq(marc, a + 1, n)
    BY <1>1 DEF Bytes
  <2>2. SubSeq(marc, 1, a) \o SubSeq(marc, a + 1, n) = SubSeq(marc, 1, n)
    <3>1. 1 \in 1..Len(marc) + 1 /\ a \in (1 - 1)..Len(marc) /\ n \in a..Len(marc)
      BY <1>1
    <3> HIDE DEF n
    <3> QED
      BY <1>1, <3>1, ConcatAdjacentSubSeq
  <2> QED
    BY <1>1, <2>1, <2>2, SubSeqFull
<1> QED
  BY <1>4, <1>5, <1>6, MarshalledIsSelected

-----------------------------------------------------------------------------
(* A field's bytes and their number.                                       *)
LEMMA Numbers ==
  /\ RecordDigits \in Nat \ {0} /\ LengthDigits \in Nat \ {0}
  /\ RecordDigits <= LengthDigits + 1
  /\ LeaderLength \in Nat /\ LeaderLength = 2 * RecordDigits
  /\ EntryLength \in Nat /\ EntryLength = 3 + LengthDigits + RecordDigits
  /\ TagLength = 3 /\ IndicatorsLength = 2
BY LayoutAssumption DEF LeaderLength, EntryLength, TagLength, IndicatorsLength

(* The bytes that end and begin the parts.                                 *)
LEMMA Delimiters ==
  /\ RecordTerminator \in Byte /\ FieldTerminator \in Byte /\ SubfieldDelimiter \in Byte
  /\ FieldTerminator # SubfieldDelimiter
  /\ Digit \subseteq Byte /\ Digit \subseteq Nat /\ NotFound \notin Nat
BY DEF RecordTerminator, FieldTerminator, SubfieldDelimiter, Byte, Digit, NotFound

Laid(subfields) == [i \in DOMAIN subfields |-> SubfieldWrite(subfields[i])]
SubfieldSizes(subfields) == [i \in DOMAIN subfields |-> 2 + Len(subfields[i].content)]

(* The bytes of a subfield: delimiter, code and content.                   *)
LEMMA SubfieldWriteIs ==
  ASSUME NEW s \in Subfield
  PROVE  /\ SubfieldWrite(s) \in Seq(Byte) /\ Len(SubfieldWrite(s)) = 2 + Len(s.content)
         /\ SubfieldWrite(s)[1] = SubfieldDelimiter /\ SubfieldWrite(s)[2] = s.code
         /\ \A j \in 1..Len(s.content) : SubfieldWrite(s)[2 + j] = s.content[j]
         /\ Len(s.content) \in Nat
<1> DEFINE two == <<SubfieldDelimiter, s.code>>
<1>1. s.code \in Byte /\ s.content \in Seq(Byte) /\ Len(s.content) \in Nat
  BY LenProperties DEF Subfield
<1>2. /\ two \in Seq(Byte) /\ Len(two) = 2
      /\ two[1] = SubfieldDelimiter /\ two[2] = s.code
  BY <1>1, Delimiters
<1>3. SubfieldWrite(s) = two \o s.content
  BY DEF SubfieldWrite
<1> HIDE DEF two
<1> DEFINE w == two \o s.content
<1>4. /\ w \in Seq(Byte) /\ Len(w) = Len(two) + Len(s.content)
      /\ \A j \in 1..Len(two) : w[j] = two[j]
      /\ \A j \in 1..Len(s.content) : w[Len(two) + j] = s.content[j]
  BY <1>1, <1>2, Beside
<1> HIDE DEF w
<1>5. 1 \in 1..2 /\ 2 \in 1..2
  OBVIOUS
<1>6. w[1] = SubfieldDelimiter /\ w[2] = s.code
  BY <1>2, <1>4, <1>5
<1> QED
  BY <1>1, <1>2, <1>3, <1>4, <1>6 DEF w

(* The bytes of each of the subfields.                                     *)
LEMMA LaidIs ==
  ASSUME NEW subfields \in Seq(Subfield)
  PROVE  /\ Laid(subfields) \in Seq(Seq(Byte)) /\ Len(Laid(subfields)) = Len(subfields)
         /\ \A i \in 1..Len(subfields) : /\ Laid(subfields)[i] = SubfieldWrite(subfields[i])
                                         /\ subfields[i] \in Subfield
         /\ AreLengths(SubfieldSizes(subfields), Laid(subfields))
<1> DEFINE n == Len(subfields)
           l == Laid(subfields)
           z == SubfieldSizes(subfields)
<1>1. n \in Nat /\ DOMAIN subfields = 1..n /\ \A i \in 1..n : subfields[i] \in Subfield
  BY LenProperties, ElementOfSeq
<1>2. /\ DOMAIN l = 1..n /\ l = [i \in 1..n |-> l[i]]
      /\ \A i \in 1..n : l[i] = SubfieldWrite(subfields[i])
  BY <1>1 DEF Laid
<1>3. /\ DOMAIN z = 1..n /\ z = [i \in 1..n |-> z[i]]
      /\ \A i \in 1..n : z[i] = 2 + Len(subfields[i].content)
  BY <1>1 DEF SubfieldSizes
<1> HIDE DEF n, l, z
<1>4. \A i \in 1..n : l[i] \in Seq(Byte) /\ Len(l[i]) = z[i]
  BY <1>1, <1>2, <1>3, SubfieldWriteIs
<1>5. l \in Seq(Seq(Byte)) /\ Len(l) = n
  BY <1>1, <1>2, <1>4, Numbered
<1>6. AreLengths(z, l)
  BY <1>3, <1>4, <1>5 DEF AreLengths
<1> QED
  BY <1>1, <1>2, <1>5, <1>6 DEF n, l, z

(* A control field is its value and a terminator.                          *)
LEMMA ControlFieldIs ==
  ASSUME NEW f \in Field, IsControlField(f)
  PROVE  /\ f.value \in Seq(Byte) /\ Len(f.value) \in Nat
         /\ FieldWrite(f) = f.value \o <<FieldTerminator>>
         /\ FieldWriteSize(f) = Len(f.value) + 1
<1>1. f.value \in Seq(Byte) /\ Len(f.value) \in Nat
  BY LenProperties DEF Field
<1>2. FieldWrite(f) = Append(f.value, FieldTerminator)
  BY DEF FieldWrite
<1> QED
  BY <1>1, <1>2, Delimiters, AppendIsConcat DEF FieldWriteSize

(* A data field is its indicators, its subfields and a terminator.         *)
LEMMA DataFieldIs ==
  ASSUME NEW f \in Field, ~IsControlField(f)
  PROVE  /\ f.indicators \in Seq(Byte) /\ f.subfields \in Seq(Subfield)
         /\ FieldWrite(f) = (f.indicators \o FlattenSeq(Laid(f.subfields))) \o <<FieldTerminator>>
         /\ FieldWriteSize(f) = 2 + Total(SubfieldSizes(f.subfields)) + 1
  BY DEF Field, FieldWrite, FieldWriteSize, Laid, SubfieldSizes, IndicatorsLength

(* A field has as many bytes as its size says.                             *)
LEMMA FieldWriteIs ==
  ASSUME NEW f \in Whole, IsControlField(f) \/ IsDataField(f)
  PROVE  /\ FieldWrite(f) \in Seq(Byte) /\ FieldWriteSize(f) \in Nat
         /\ Len(FieldWrite(f)) = FieldWriteSize(f)
<1>1. f \in Field /\ HasItsParts(f)
  BY DEF Whole
<1>2. <<FieldTerminator>> \in Seq(Byte) /\ Len(<<FieldTerminator>>) = 1
  BY Delimiters
<1>3. CASE IsControlField(f)
  <2>1. /\ f.value \in Seq(Byte) /\ Len(f.value) \in Nat
        /\ FieldWrite(f) = f.value \o <<FieldTerminator>>
        /\ FieldWriteSize(f) = Len(f.value) + 1
    BY <1>1, <1>3, ControlFieldIs
  <2> QED
    BY <1>2, <2>1, Beside
<1>4. CASE ~IsControlField(f)
  <2> DEFINE flat == FlattenSeq(Laid(f.subfields))
             total == Total(SubfieldSizes(f.subfields))
  <2>1. /\ f.indicators \in Seq(Byte) /\ f.subfields \in Seq(Subfield)
        /\ FieldWrite(f) = (f.indicators \o flat) \o <<FieldTerminator>>
        /\ FieldWriteSize(f) = 2 + total + 1
    BY <1>1, <1>4, DataFieldIs
  <2>2. Len(f.indicators) = 2
    BY <1>1, <1>4 DEF HasItsParts, IndicatorsLength
  <2>3. /\ Laid(f.subfields) \in Seq(Seq(Byte))
        /\ AreLengths(SubfieldSizes(f.subfields), Laid(f.subfields))
    BY <2>1, LaidIs
  <2>4. flat \in Seq(Byte) /\ Len(flat) = total /\ total \in Nat
    BY <2>3, FlattenAt, LenProperties
  <2> HIDE DEF flat, total
  <2>5. f.indicators \o flat \in Seq(Byte) /\ Len(f.indicators \o flat) = 2 + total
    <3>1. /\ f.indicators \o flat \in Seq(Byte)
          /\ Len(f.indicators \o flat) = Len(f.indicators) + Len(flat)
      BY <2>1, <2>4, Beside
    <3> QED
      BY <2>2, <2>4, <3>1
  <2>6. /\ FieldWrite(f) \in Seq(Byte)
        /\ Len(FieldWrite(f)) = (2 + total) + 1
    BY <1>2, <2>1, <2>5, Beside
  <2> QED
    BY <2>1, <2>4, <2>6
<1> QED
  BY <1>3, <1>4

-----------------------------------------------------------------------------
(* Where the parts of a record are.                                        *)
Entries(marc) == [i \in DOMAIN marc |-> EntryWrite(marc, i)]
Written(marc) == [i \in DOMAIN marc |-> FieldWrite(marc[i])]

Layout(marc) ==
  SizeWrite(RecordWriteSize(marc), RecordDigits)
    \o SizeWrite(FieldsLocation(Len(marc)), RecordDigits)
    \o FlattenSeq(Entries(marc))
    \o <<FieldTerminator>>
    \o FlattenSeq(Written(marc))
    \o <<RecordTerminator>>

(* A record is laid out once it is marshalled.                             *)
LEMMA RecordWriteIs ==
  ASSUME NEW record
  PROVE  RecordWrite(record) = Layout(Marshalled(record))
BY DEF RecordWrite, Layout, Entries, Written

(* Of a sorted record the first fields are the control fields.             *)
LEMMA SortedFields ==
  ASSUME NEW marc, NEW a, IsInOrder(marc, a)
  PROVE  /\ marc \in Seq(Whole) /\ Len(marc) \in Nat /\ DOMAIN marc = 1..Len(marc)
         /\ \A i \in 1..Len(marc) :
              /\ marc[i] \in Whole
              /\ IsControlField(marc[i]) <=> i <= a
              /\ IsDataField(marc[i]) <=> ~(i <= a)
<1>1. marc \in Seq(Whole) /\ a \in 0..Len(marc) /\ Len(marc) \in Nat /\ DOMAIN marc = 1..Len(marc)
  BY LenProperties DEF IsInOrder
<1>2. \A i \in 1..Len(marc) : marc[i] \in Whole
  BY <1>1, ElementOfSeq
<1>3. ASSUME NEW i \in 1..Len(marc)
      PROVE  /\ IsControlField(marc[i]) <=> i <= a
             /\ IsDataField(marc[i]) <=> ~(i <= a)
  <2>1. i \in 1..a \/ i \in (a + 1)..Len(marc)
    BY <1>1
  <2> QED
    BY <1>1, <2>1, NotBoth DEF IsInOrder
<1> QED
  BY <1>1, <1>2, <1>3

(* The sizes of the fields, their sums, and the bytes they measure.        *)
LEMMA FieldSizesAre ==
  ASSUME NEW marc, NEW a, IsInOrder(marc, a)
  PROVE  /\ FieldSizes(marc) \in Seq(Nat) /\ Len(FieldSizes(marc)) = Len(marc)
         /\ Sums(FieldSizes(marc)) \in [0..Len(marc) -> Nat]
         /\ Total(FieldSizes(marc)) \in Nat
         /\ \A i \in 0..Len(marc) : Sums(FieldSizes(marc))[i] <= Total(FieldSizes(marc))
         /\ \A i \in 1..Len(marc) :
              /\ FieldSizes(marc)[i] = FieldWriteSize(marc[i])
              /\ FieldWriteSize(marc[i]) \in Nat
              /\ Sums(FieldSizes(marc))[i] = Sums(FieldSizes(marc))[i - 1] + FieldWriteSize(marc[i])
         /\ Written(marc) \in Seq(Seq(Byte)) /\ Len(Written(marc)) = Len(marc)
         /\ \A i \in 1..Len(marc) : Written(marc)[i] = FieldWrite(marc[i])
         /\ AreLengths(FieldSizes(marc), Written(marc))
<1> DEFINE n == Len(marc)
           z == FieldSizes(marc)
           w == Written(marc)
<1>1. /\ n \in Nat /\ DOMAIN marc = 1..n
      /\ \A i \in 1..n : marc[i] \in Whole /\ (IsControlField(marc[i]) \/ IsDataField(marc[i]))
  BY SortedFields
<1>2. \A i \in 1..n : /\ FieldWrite(marc[i]) \in Seq(Byte) /\ FieldWriteSize(marc[i]) \in Nat
                      /\ Len(FieldWrite(marc[i])) = FieldWriteSize(marc[i])
  BY <1>1, FieldWriteIs
<1>3. /\ DOMAIN z = 1..n /\ z = [i \in 1..n |-> z[i]]
      /\ \A i \in 1..n : z[i] = FieldWriteSize(marc[i])
  BY <1>1 DEF FieldSizes
<1>4. /\ DOMAIN w = 1..n /\ w = [i \in 1..n |-> w[i]]
      /\ \A i \in 1..n : w[i] = FieldWrite(marc[i])
  BY <1>1 DEF Written
<1> HIDE DEF n, z, w
<1>5. z \in Seq(Nat) /\ Len(z) = n
  <2>1. \A i \in 1..n : z[i] \in Nat
    BY <1>2, <1>3
  <2> QED
    BY <1>1, <1>3, <2>1, Numbered
<1>6. w \in Seq(Seq(Byte)) /\ Len(w) = n
  <2>1. \A i \in 1..n : w[i] \in Seq(Byte)
    BY <1>2, <1>4
  <2> QED
    BY <1>1, <1>4, <2>1, Numbered
<1>7. AreLengths(z, w)
  BY <1>2, <1>3, <1>4, <1>6 DEF AreLengths
<1>8. /\ Sums(z) \in [0..n -> Nat] /\ Total(z) \in Nat
      /\ \A i \in 0..n : Sums(z)[i] <= Total(z)
      /\ \A i \in 1..n : Sums(z)[i] = Sums(z)[i - 1] + z[i]
  BY <1>5, SumsOfNumbers
<1> QED
  BY <1>2, <1>3, <1>4, <1>5, <1>6, <1>7, <1>8 DEF n, z, w

(* Three parts put together are where they were put.                       *)
LEMMA ThreeParts ==
  ASSUME NEW S, NEW s \in Seq(S), NEW t \in Seq(S), NEW u \in Seq(S)
  PROVE  /\ (s \o t) \o u \in Seq(S) /\ Len((s \o t) \o u) = Len(s) + Len(t) + Len(u)
         /\ IsAt(s, 0, (s \o t) \o u)
         /\ IsAt(t, Len(s), (s \o t) \o u)
         /\ IsAt(u, Len(s) + Len(t), (s \o t) \o u)
<1>1. Len(s) \in Nat /\ Len(t) \in Nat /\ Len(u) \in Nat
  BY LenProperties
<1>2. /\ s \o t \in Seq(S) /\ Len(s \o t) = Len(s) + Len(t)
      /\ IsAt(s, 0, s \o t) /\ IsAt(t, Len(s), s \o t)
  BY AtConcat
<1> DEFINE b == s \o t
<1>3. b \in Seq(S) /\ Len(b) = Len(s) + Len(t) /\ IsAt(s, 0, b) /\ IsAt(t, Len(s), b)
  BY <1>2
<1> HIDE DEF b
<1>4. /\ b \o u \in Seq(S) /\ Len(b \o u) = Len(b) + Len(u) /\ IsAt(u, Len(b), b \o u)
  BY <1>3, AtConcat
<1>5. IsAt(s, 0, b \o u) /\ IsAt(t, Len(s), b \o u)
  BY <1>1, <1>3, AtConcatToo
<1>6. Len(b \o u) = Len(s) + Len(t) + Len(u) /\ IsAt(u, Len(s) + Len(t), b \o u)
  BY <1>1, <1>3, <1>4
<1> QED
  BY <1>4, <1>5, <1>6 DEF b

(* A tag is three bytes.                                                   *)
LEMMA TagIs ==
  ASSUME NEW f \in Field
  PROVE  f.tag \in Seq(Byte) /\ f.tag \in Seq(Digit) /\ Len(f.tag) = 3
<1>1. f.tag \in [1..3 -> Digit]
  BY DEF Field, TagLength
<1>2. /\ DOMAIN f.tag = 1..3 /\ f.tag = [i \in 1..3 |-> f.tag[i]]
      /\ \A i \in 1..3 : f.tag[i] \in Digit /\ f.tag[i] \in Byte
  BY <1>1, Delimiters
<1> DEFINE t == f.tag
<1> HIDE DEF t
<1>3. t \in Seq(Digit) /\ t \in Seq(Byte) /\ Len(t) = 3
  BY <1>2, Numbered DEF t
<1> QED
  BY <1>3 DEF t

Location(marc, i) == Sums(FieldSizes(marc))[i - 1]

(* Each field ends inside the bytes of all fields.                         *)
LEMMA LocationIs ==
  ASSUME NEW marc, NEW a, IsInOrder(marc, a), NEW i \in 1..Len(marc)
  PROVE  /\ Location(marc, i) \in Nat /\ FieldWriteSize(marc[i]) \in Nat
         /\ Total(FieldSizes(marc)) \in Nat
         /\ Location(marc, i) + FieldWriteSize(marc[i]) <= Total(FieldSizes(marc))
<1>1. i - 1 \in 0..Len(marc) /\ i \in 0..Len(marc)
  BY SortedFields
<1> QED
  BY <1>1, FieldSizesAre DEF Location

(* Where the three parts of an entry of the directory are.                 *)
LEMMA EntryWriteIs ==
  ASSUME NEW marc, NEW a, IsInOrder(marc, a), NEW i \in 1..Len(marc)
  PROVE  /\ EntryWrite(marc, i) \in Seq(Byte) /\ Len(EntryWrite(marc, i)) = EntryLength
         /\ IsAt(marc[i].tag, 0, EntryWrite(marc, i))
         /\ IsAt(SizeWrite(FieldWriteSize(marc[i]), LengthDigits), 3, EntryWrite(marc, i))
         /\ IsAt(SizeWrite(Location(marc, i), RecordDigits), 3 + LengthDigits,
                 EntryWrite(marc, i))
<1> DEFINE t == marc[i].tag
           z == SizeWrite(FieldWriteSize(marc[i]), LengthDigits)
           l == SizeWrite(Location(marc, i), RecordDigits)
<1>1. t \in Seq(Byte) /\ Len(t) = 3
  <2>1. marc[i] \in Field
    BY SortedFields DEF Whole
  <2> QED
    BY <2>1, TagIs
<1>2. /\ z \in Seq(Byte) /\ Len(z) = LengthDigits
      /\ l \in Seq(Byte) /\ Len(l) = RecordDigits
  BY LocationIs, Numbers, SizeWriteIs
<1>3. EntryWrite(marc, i) = (t \o z) \o l
  BY FieldSizesAre DEF EntryWrite, Location
<1> HIDE DEF t, z, l
<1> DEFINE e == (t \o z) \o l
<1>4. /\ e \in Seq(Byte) /\ Len(e) = Len(t) + Len(z) + Len(l)
      /\ IsAt(t, 0, e) /\ IsAt(z, Len(t), e) /\ IsAt(l, Len(t) + Len(z), e)
  <2>1. t \in Seq(Byte) /\ z \in Seq(Byte) /\ l \in Seq(Byte)
    BY <1>1, <1>2
  <2>2. ASSUME NEW s1 \in Seq(Byte), NEW s2 \in Seq(Byte), NEW s3 \in Seq(Byte)
        PROVE  /\ (s1 \o s2) \o s3 \in Seq(Byte)
               /\ Len((s1 \o s2) \o s3) = Len(s1) + Len(s2) + Len(s3)
               /\ IsAt(s1, 0, (s1 \o s2) \o s3)
               /\ IsAt(s2, Len(s1), (s1 \o s2) \o s3)
               /\ IsAt(s3, Len(s1) + Len(s2), (s1 \o s2) \o s3)
    BY ThreeParts
  <2> QED
    BY <2>1, <2>2
<1> HIDE DEF e
<1>5. /\ Len(e) = EntryLength /\ IsAt(z, 3, e) /\ IsAt(l, 3 + LengthDigits, e)
  BY <1>1, <1>2, <1>4, Numbers
<1> QED
  BY <1>3, <1>4, <1>5 DEF e, t, z, l

(* Where each entry of the directory is.                                   *)
LEMMA EntriesAre ==
  ASSUME NEW marc, NEW a, IsInOrder(marc, a)
  PROVE  /\ FlattenSeq(Entries(marc)) \in Seq(Byte)
         /\ Len(FlattenSeq(Entries(marc))) = Len(marc) * EntryLength
         /\ \A i \in 1..Len(marc) :
              IsAt(EntryWrite(marc, i), (i - 1) * EntryLength, FlattenSeq(Entries(marc)))
<1> DEFINE n == Len(marc)
           e == Entries(marc)
           z == [i \in 1..n |-> EntryLength]
           f == [i \in 0..n |-> i * EntryLength]
<1>1. /\ n \in Nat /\ DOMAIN e = 1..n /\ e = [i \in 1..n |-> e[i]]
      /\ \A i \in 1..n : e[i] = EntryWrite(marc, i)
  BY SortedFields DEF Entries
<1>2. \A i \in 1..n : EntryWrite(marc, i) \in Seq(Byte) /\ Len(EntryWrite(marc, i)) = EntryLength
  BY EntryWriteIs
<1>3. DOMAIN z = 1..n /\ z = [i \in 1..n |-> z[i]] /\ \A i \in 1..n : z[i] = EntryLength
  OBVIOUS
<1>4. AreSums(f, n, z)
  <2>1. f \in [0..n -> Int] /\ f[0] = 0
    BY <1>1, Numbers
  <2>2. ASSUME NEW k \in 1..n PROVE f[k] = f[k - 1] + z[k]
    <3>1. k \in 0..n /\ k - 1 \in 0..n /\ k \in Int
      BY <1>1
    <3>2. f[k] = k * EntryLength /\ f[k - 1] = (k - 1) * EntryLength /\ z[k] = EntryLength
      BY <3>1
    <3> QED
      BY <3>1, <3>2, Numbers
  <2> HIDE DEF f
  <2> QED
    BY <2>1, <2>2 DEF AreSums
<1>f. \A i \in 1..n : f[i - 1] = (i - 1) * EntryLength
  BY <1>1
<1>t. f[n] = n * EntryLength
  BY <1>1
<1> HIDE DEF n, e, z, f
<1>5. e \in Seq(Seq(Byte)) /\ Len(e) = n
  <2>1. \A i \in 1..n : e[i] \in Seq(Byte)
    BY <1>1, <1>2
  <2> QED
    BY <1>1, <2>1, Numbered
<1>6. AreLengths(z, e)
  BY <1>1, <1>2, <1>3, <1>5 DEF AreLengths
<1>7. /\ z \in Seq(Nat) /\ Len(z) = n
      /\ FlattenSeq(e) \in Seq(Byte) /\ Len(FlattenSeq(e)) = Total(z)
      /\ \A i \in 1..n : IsAt(e[i], Sums(z)[i - 1], FlattenSeq(e))
  BY <1>5, <1>6, FlattenAt
<1>8. Sums(z) = f
  <2>1. AreSums(Sums(z), n, z)
    <3>1. z \in Seq(Int)
      BY <1>7, SeqMonotonic
    <3> QED
      BY <1>7, <3>1, SumsAre DEF AreSums
  <2> QED
    BY <1>1, <1>4, <2>1, SumsAreUnique
<1>9. Total(z) = n * EntryLength
  BY <1>7, <1>8, <1>t DEF Total
<1>10. \A i \in 1..n : IsAt(EntryWrite(marc, i), (i - 1) * EntryLength, FlattenSeq(e))
  BY <1>1, <1>7, <1>8, <1>f
<1> QED
  BY <1>7, <1>9, <1>10 DEF n, e

(* A product of numbers is a number.                                       *)
LEMMA Products ==
  ASSUME NEW x \in Nat, NEW y \in Nat
  PROVE  x * y \in Nat
OBVIOUS

(* The size of a record, and where its fields begin.                       *)
LEMMA WriteSizeIs ==
  ASSUME NEW marc, NEW a, IsInOrder(marc, a)
  PROVE  /\ FieldsLocation(Len(marc)) \in Nat \ {0}
         /\ FieldsLocation(Len(marc)) = LeaderLength + Len(marc) * EntryLength + 1
         /\ RecordWriteSize(marc) \in Nat
         /\ RecordWriteSize(marc) = FieldsLocation(Len(marc)) + Total(FieldSizes(marc)) + 1
         /\ Len(marc) * EntryLength \in Nat
<1>1. Len(marc) \in Nat /\ Len(marc) * EntryLength \in Nat
  BY SortedFields, Numbers, Products
<1>2. Total(FieldSizes(marc)) \in Nat
  BY FieldSizesAre
<1>3. /\ FieldsLocation(Len(marc)) = LeaderLength + Len(marc) * EntryLength + 1
      /\ RecordWriteSize(marc) = FieldsLocation(Len(marc)) + Total(FieldSizes(marc)) + 1
  BY DEF FieldsLocation, RecordWriteSize
<1> DEFINE m == Len(marc) * EntryLength
<1>4. m \in Nat /\ FieldsLocation(Len(marc)) = LeaderLength + m + 1
  BY <1>1, <1>3
<1> HIDE DEF m
<1>5. FieldsLocation(Len(marc)) \in Nat \ {0}
  BY <1>4, Numbers
<1> QED
  BY <1>1, <1>2, <1>3, <1>5

IsLaidOut(whole, marc) ==
  /\ whole \in Seq(Byte) /\ Len(whole) = RecordWriteSize(marc)
  /\ IsAt(SizeWrite(RecordWriteSize(marc), RecordDigits), 0, whole)
  /\ IsAt(SizeWrite(FieldsLocation(Len(marc)), RecordDigits), RecordDigits, whole)
  /\ \A i \in 1..Len(marc) :
       /\ IsAt(EntryWrite(marc, i), LeaderLength + (i - 1) * EntryLength, whole)
       /\ IsAt(FieldWrite(marc[i]), FieldsLocation(Len(marc)) + Location(marc, i), whole)
  /\ whole[FieldsLocation(Len(marc))] = FieldTerminator
  /\ whole[RecordWriteSize(marc)] = RecordTerminator

(* What BibMarcRecordWrite puts where.                                     *)
LEMMA LayoutIs ==
  ASSUME NEW marc, NEW a, IsInOrder(marc, a)
  PROVE  IsLaidOut(Layout(marc), marc)
<1> DEFINE n == Len(marc)
           start == FieldsLocation(n)
           m == n * EntryLength
           A == SizeWrite(RecordWriteSize(marc), RecordDigits)
           B == SizeWrite(start, RecordDigits)
           E == FlattenSeq(Entries(marc))
           F == <<FieldTerminator>>
           W == FlattenSeq(Written(marc))
           R == <<RecordTerminator>>
           D == (A \o B) \o E
           G == (D \o F) \o W
           H == G \o R
<1>1. /\ A \in Seq(Byte) /\ Len(A) = RecordDigits
      /\ B \in Seq(Byte) /\ Len(B) = RecordDigits
  BY Numbers, WriteSizeIs, SizeWriteIs
<1>2. /\ E \in Seq(Byte) /\ Len(E) = m /\ m \in Nat
      /\ \A i \in 1..n : IsAt(EntryWrite(marc, i), (i - 1) * EntryLength, E)
  BY EntriesAre, WriteSizeIs
<1>3. /\ F \in Seq(Byte) /\ Len(F) = 1 /\ F[1] = FieldTerminator
      /\ R \in Seq(Byte) /\ Len(R) = 1 /\ R[1] = RecordTerminator
  BY Delimiters
<1>4. /\ W \in Seq(Byte) /\ Len(W) = Total(FieldSizes(marc))
      /\ \A i \in 1..n : IsAt(FieldWrite(marc[i]), Location(marc, i), W)
  <2>1. /\ Written(marc) \in Seq(Seq(Byte)) /\ Len(Written(marc)) = n
        /\ \A i \in 1..n : Written(marc)[i] = FieldWrite(marc[i])
        /\ AreLengths(FieldSizes(marc), Written(marc))
    BY FieldSizesAre
  <2>2. /\ W \in Seq(Byte) /\ Len(W) = Total(FieldSizes(marc))
        /\ \A i \in 1..n : IsAt(Written(marc)[i], Sums(FieldSizes(marc))[i - 1], W)
    BY <2>1, FlattenAt
  <2> QED
    BY <2>1, <2>2 DEF Location
<1>5. Layout(marc) = H
  BY DEF Layout
<1>6. /\ start = LeaderLength + m + 1 /\ start \in Nat
      /\ RecordWriteSize(marc) = start + Total(FieldSizes(marc)) + 1
      /\ Total(FieldSizes(marc)) \in Nat /\ n \in Nat
  BY WriteSizeIs, FieldSizesAre, SortedFields
<1>7. ASSUME NEW s1 \in Seq(Byte), NEW s2 \in Seq(Byte), NEW s3 \in Seq(Byte)
      PROVE  /\ (s1 \o s2) \o s3 \in Seq(Byte)
             /\ Len((s1 \o s2) \o s3) = Len(s1) + Len(s2) + Len(s3)
             /\ IsAt(s1, 0, (s1 \o s2) \o s3)
             /\ IsAt(s2, Len(s1), (s1 \o s2) \o s3)
             /\ IsAt(s3, Len(s1) + Len(s2), (s1 \o s2) \o s3)
  BY ThreeParts
<1> HIDE DEF n, start, m, A, B, E, F, W, R
<1>8. /\ D \in Seq(Byte) /\ Len(D) = Len(A) + Len(B) + Len(E)
      /\ IsAt(A, 0, D) /\ IsAt(B, Len(A), D) /\ IsAt(E, Len(A) + Len(B), D)
  BY <1>1, <1>2, <1>7
<1> HIDE DEF D
<1>9. /\ G \in Seq(Byte) /\ Len(G) = Len(D) + Len(F) + Len(W)
      /\ IsAt(D, 0, G) /\ IsAt(F, Len(D), G) /\ IsAt(W, Len(D) + Len(F), G)
  BY <1>3, <1>4, <1>7, <1>8
<1> HIDE DEF G
<1>10. /\ H \in Seq(Byte) /\ Len(H) = Len(G) + Len(R)
       /\ IsAt(G, 0, H) /\ IsAt(R, Len(G), H)
  BY <1>3, <1>9, AtConcat
<1> HIDE DEF H
<1>11. /\ Len(D) = LeaderLength + m /\ Len(D) + 1 = start
       /\ Len(D) + Len(F) = start
       /\ Len(G) = start + Total(FieldSizes(marc)) /\ Len(H) = RecordWriteSize(marc)
       /\ Len(A) + Len(B) = LeaderLength
  BY <1>1, <1>2, <1>3, <1>4, <1>6, <1>8, <1>9, <1>10, Numbers
<1>12. ASSUME NEW part \in Seq(Byte), NEW at \in Nat, IsAt(part, at, G)
       PROVE  IsAt(part, at, H)
  <2>1. IsAt(part, 0 + at, H)
    BY <1>9, <1>10, <1>12, AtInside
  <2> QED
    BY <2>1
<1>13. ASSUME NEW part \in Seq(Byte), NEW at \in Nat, IsAt(part, at, D)
       PROVE  IsAt(part, at, H)
  <2>1. IsAt(part, 0 + at, G)
    BY <1>8, <1>9, <1>13, AtInside
  <2> QED
    BY <2>1, <1>12
<1>14. IsAt(A, 0, H) /\ IsAt(B, RecordDigits, H)
  <2>1. 0 \in Nat /\ RecordDigits \in Nat
    BY Numbers
  <2> QED
    BY <1>1, <1>8, <1>13, <2>1
<1>15. ASSUME NEW i \in 1..n
       PROVE  IsAt(EntryWrite(marc, i), LeaderLength + (i - 1) * EntryLength, H)
  <2> DEFINE e == EntryWrite(marc, i)
             k == (i - 1) * EntryLength
  <2>1. e \in Seq(Byte)
    BY EntryWriteIs DEF n
  <2>2. k \in Nat
    <3>1. i - 1 \in Nat /\ EntryLength \in Nat
      BY <1>6, Numbers
    <3> QED
      BY <3>1, Products
  <2>3. IsAt(e, k, E)
    BY <1>2
  <2> HIDE DEF e, k
  <2>4. IsAt(E, LeaderLength, D) /\ LeaderLength \in Nat
    BY <1>8, <1>11, Numbers
  <2>5. IsAt(e, LeaderLength + k, D)
    BY <1>2, <1>8, <2>1, <2>2, <2>3, <2>4, AtInside
  <2>6. LeaderLength + k \in Nat
    BY <2>2, <2>4
  <2>7. IsAt(e, LeaderLength + k, H)
    BY <1>13, <2>1, <2>5, <2>6
  <2> QED
    BY <2>7 DEF e, k
<1>16. ASSUME NEW i \in 1..n
       PROVE  IsAt(FieldWrite(marc[i]), start + Location(marc, i), H)
  <2> DEFINE f == FieldWrite(marc[i])
             k == Location(marc, i)
  <2>1. f \in Seq(Byte)
    BY FieldSizesAre, ElementOfSeq DEF n
  <2>2. k \in Nat
    BY LocationIs DEF n
  <2>3. IsAt(f, k, W)
    BY <1>4
  <2> HIDE DEF f, k
  <2>4. IsAt(W, start, G)
    BY <1>9, <1>11
  <2>5. IsAt(f, start + k, G)
    BY <1>4, <1>6, <1>9, <2>1, <2>2, <2>3, <2>4, AtInside
  <2>6. start + k \in Nat
    BY <1>6, <2>2
  <2>7. IsAt(f, start + k, H)
    BY <1>12, <2>1, <2>5, <2>6
  <2> QED
    BY <2>7 DEF f, k
<1>17. H[start] = FieldTerminator
  <2>1. IsAt(F, Len(D), H) /\ Len(D) \in Nat
    BY <1>3, <1>8, <1>9, <1>12, LenProperties
  <2>2. H[Len(D) + 1] = F[1]
    BY <1>3, <2>1 DEF IsAt
  <2> QED
    BY <1>3, <1>11, <2>2
<1>18. H[RecordWriteSize(marc)] = RecordTerminator
  <2>1. H[Len(G) + 1] = R[1]
    BY <1>3, <1>10 DEF IsAt
  <2>2. Len(G) + 1 = RecordWriteSize(marc)
    BY <1>6, <1>11
  <2> QED
    BY <1>3, <2>1, <2>2
<1> QED
  BY <1>5, <1>10, <1>11, <1>14, <1>15, <1>16, <1>17, <1>18 DEF IsLaidOut, n, start, A, B

(* What RecordRead works out on its way.                                   *)
LengthRead(bytes) == SizeRead(Bytes(bytes, 0, RecordDigits))
BaseRead(bytes) == SizeRead(Bytes(bytes, RecordDigits, RecordDigits))
CountRead(bytes) == (BaseRead(bytes) - LeaderLength) \div EntryLength
StartRead(bytes) == FieldsLocation(CountRead(bytes))
EntriesRead(bytes) == [i \in 1..CountRead(bytes) |-> EntryRead(bytes, i)]
FieldRead(bytes, i) == FieldBytes(bytes, StartRead(bytes), EntriesRead(bytes)[i])

IsReadable(bytes) ==
  /\ bytes[StartRead(bytes)] = FieldTerminator
  /\ \A i \in DOMAIN EntriesRead(bytes) :
       FieldIsReadable(EntriesRead(bytes)[i], FieldRead(bytes, i),
                       LengthRead(bytes) - StartRead(bytes), IsControlEntry(EntriesRead(bytes), i))
  /\ bytes[LengthRead(bytes)] = RecordTerminator

FieldsRead(bytes) ==
  [i \in DOMAIN EntriesRead(bytes) |->
     IF IsControlEntry(EntriesRead(bytes), i)
     THEN ControlFieldRead(EntriesRead(bytes)[i], FieldRead(bytes, i))
     ELSE ContentFieldRead(EntriesRead(bytes)[i], FieldRead(bytes, i))]

(* BibMarcRecordRead, by what it reads.                                    *)
LEMMA RecordReadIs ==
  ASSUME NEW bytes
  PROVE  RecordRead(bytes)
           = IF LengthRead(bytes) = NotFound \/ BaseRead(bytes) = NotFound
               THEN Failed("malformed")
             ELSE IF LengthRead(bytes) > Len(bytes) THEN Failed("missing")
             ELSE IF IsReadable(bytes)
               THEN [outcome |-> "record", fields |-> FieldsRead(bytes)]
             ELSE Failed("aborted")
BY DEF RecordRead, LengthRead, BaseRead, CountRead, StartRead, EntriesRead, FieldRead, IsReadable,
       FieldsRead

(* Powers of ten grow.                                                     *)
LEMMA PowersGrow ==
  ASSUME NEW n \in Nat
  PROVE  \A k \in 0..n : PowerOf10(k) <= PowerOf10(n)
<1> DEFINE T == {k \in 0..n : PowerOf10(n - k) <= PowerOf10(n)}
<1>1. 0 \in T
  BY PowerIs
<1>2. ASSUME NEW k \in 1..n, k - 1 \in T PROVE k \in T
  <2>1. n - k \in Nat /\ (n - k) + 1 = n - (k - 1)
    OBVIOUS
  <2>2. /\ PowerOf10(n - k) \in Nat /\ PowerOf10(n - (k - 1)) = 10 * PowerOf10(n - k)
        /\ PowerOf10(n) \in Nat
    BY <2>1, PowerIs
  <2>3. PowerOf10(n - (k - 1)) <= PowerOf10(n)
    BY <1>2
  <2>4. PowerOf10(n - k) <= PowerOf10(n)
    BY <2>2, <2>3
  <2> QED
    BY <2>4
<1> HIDE DEF T
<1>3. \A k \in 0..n : k \in T
  BY <1>1, <1>2, UpTo
<1>4. ASSUME NEW k \in 0..n PROVE PowerOf10(k) <= PowerOf10(n)
  <2>1. n - k \in 0..n /\ n - (n - k) = k
    OBVIOUS
  <2>2. n - k \in T
    BY <1>3, <2>1
  <2> QED
    BY <2>1, <2>2 DEF T
<1> QED
  BY <1>4

(* What is not too long for its length is not for anything shorter, and a  *)
(* field of it is not too long for the length of a field.                  *)
LEMMA RoomIs ==
  /\ PowerOf10(RecordDigits) \in Nat /\ PowerOf10(RecordDigits - 1) \in Nat \ {0}
  /\ PowerOf10(LengthDigits) \in Nat /\ PowerOf10(LengthDigits - 1) \in Nat \ {0}
  /\ PowerOf10(RecordDigits) = 10 * PowerOf10(RecordDigits - 1)
  /\ PowerOf10(LengthDigits) = 10 * PowerOf10(LengthDigits - 1)
  /\ PowerOf10(RecordDigits) <= 100 * PowerOf10(LengthDigits - 1)
<1>1. RecordDigits - 1 \in Nat /\ LengthDigits - 1 \in Nat /\ LengthDigits \in Nat
      /\ (RecordDigits - 1) + 1 = RecordDigits /\ (LengthDigits - 1) + 1 = LengthDigits
      /\ RecordDigits \in 0..(LengthDigits + 1) /\ LengthDigits + 1 \in Nat /\ RecordDigits \in Nat
  BY Numbers
<1>2. /\ PowerOf10(RecordDigits - 1) \in Nat \ {0}
      /\ PowerOf10(RecordDigits) = 10 * PowerOf10(RecordDigits - 1)
      /\ PowerOf10(LengthDigits - 1) \in Nat \ {0}
      /\ PowerOf10(LengthDigits) = 10 * PowerOf10(LengthDigits - 1)
      /\ PowerOf10(LengthDigits + 1) = 10 * PowerOf10(LengthDigits)
      /\ PowerOf10(RecordDigits) \in Nat /\ PowerOf10(LengthDigits) \in Nat
  BY <1>1, PowerIs
<1>3. PowerOf10(RecordDigits) <= PowerOf10(LengthDigits + 1)
  BY <1>1, PowersGrow
<1> QED
  BY <1>2, <1>3

(* The two sizes in the leader are read where they were written.           *)
LEMMA SizesAreFound ==
  ASSUME NEW marc, NEW a, IsInOrder(marc, a), NEW whole, IsLaidOut(whole, marc)
  PROVE  /\ LengthRead(whole) = SizeRead(SizeWrite(RecordWriteSize(marc), RecordDigits))
         /\ BaseRead(whole) = SizeRead(SizeWrite(FieldsLocation(Len(marc)), RecordDigits))
<1> DEFINE A == SizeWrite(RecordWriteSize(marc), RecordDigits)
           B == SizeWrite(FieldsLocation(Len(marc)), RecordDigits)
<1>1. /\ A \in Seq(Byte) /\ Len(A) = RecordDigits
      /\ B \in Seq(Byte) /\ Len(B) = RecordDigits
  BY Numbers, WriteSizeIs, SizeWriteIs
<1>2. whole \in Seq(Byte) /\ IsAt(A, 0, whole) /\ IsAt(B, RecordDigits, whole)
  BY DEF IsLaidOut
<1> HIDE DEF A, B
<1>3. Bytes(whole, 0, RecordDigits) = A /\ Bytes(whole, RecordDigits, RecordDigits) = B
  <2>1. 0 \in Nat /\ RecordDigits \in Nat
    BY Numbers
  <2>2. Bytes(whole, 0, Len(A)) = A /\ Bytes(whole, RecordDigits, Len(B)) = B
    BY <1>1, <1>2, <2>1, SliceAt
  <2> QED
    BY <1>1, <2>2
<1> QED
  BY <1>3 DEF LengthRead, BaseRead, A, B

(* The number of entries follows from the base address.                    *)
LEMMA CountIs ==
  ASSUME NEW marc, NEW a, IsInOrder(marc, a), NEW whole,
         BaseRead(whole) = FieldsLocation(Len(marc))
  PROVE  CountRead(whole) = Len(marc) /\ StartRead(whole) = FieldsLocation(Len(marc))
<1>1. /\ Len(marc) \in Nat /\ Len(marc) * EntryLength \in Nat
      /\ FieldsLocation(Len(marc)) = LeaderLength + Len(marc) * EntryLength + 1
      /\ FieldsLocation(Len(marc)) \in Nat
  BY SortedFields, WriteSizeIs
<1>2. EntryLength \in Nat \ {0} /\ 1 \in 0..(EntryLength - 1)
  BY Numbers
<1> DEFINE v == FieldsLocation(Len(marc)) - LeaderLength
           m == EntryLength * Len(marc)
<1>3. m \in Nat /\ v = m + 1 /\ v \in Nat
  <2>1. m = Len(marc) * EntryLength
    BY <1>1, <1>2
  <2> HIDE DEF m
  <2> QED
    BY <1>1, <2>1, Numbers
<1>4. v = EntryLength * Len(marc) + 1 /\ v \in Nat
  BY <1>3
<1> HIDE DEF v
<1>5. v \div EntryLength = Len(marc)
  BY <1>1, <1>2, <1>4, DivisionIsUnique
<1> QED
  BY <1>5 DEF CountRead, StartRead, v

(* A length that does not wrap is not read as another.                     *)
LEMMA SizesAreRead ==
  ASSUME NEW marc, NEW a, IsInOrder(marc, a), NEW whole, IsLaidOut(whole, marc),
         RecordWriteSize(marc) < 256 * PowerOf10(RecordDigits - 1),
         LengthRead(whole) # NotFound, BaseRead(whole) # NotFound
  PROVE  /\ LengthRead(whole) = RecordWriteSize(marc)
         /\ RecordWriteSize(marc) < PowerOf10(RecordDigits)
         /\ BaseRead(whole) = FieldsLocation(Len(marc))
<1>1. /\ RecordWriteSize(marc) \in Nat /\ FieldsLocation(Len(marc)) \in Nat
      /\ FieldsLocation(Len(marc)) <= RecordWriteSize(marc)
  BY WriteSizeIs, FieldSizesAre
<1>2. RecordDigits \in Nat \ {0}
  BY Numbers
<1>3. /\ LengthRead(whole) = SizeRead(SizeWrite(RecordWriteSize(marc), RecordDigits))
      /\ BaseRead(whole) = SizeRead(SizeWrite(FieldsLocation(Len(marc)), RecordDigits))
  BY SizesAreFound
<1>4. LengthRead(whole) = RecordWriteSize(marc) /\ RecordWriteSize(marc) < PowerOf10(RecordDigits)
  BY <1>1, <1>2, <1>3, SizeIsReadBack
<1>5. FieldsLocation(Len(marc)) < PowerOf10(RecordDigits)
  BY <1>1, <1>4, RoomIs
<1> QED
  BY <1>1, <1>2, <1>3, <1>4, <1>5, SizeIsReadBack

(* A length that fits is read back, and so is the base address.            *)
LEMMA FittingSizesAreRead ==
  ASSUME NEW marc, NEW a, IsInOrder(marc, a), NEW whole, IsLaidOut(whole, marc),
         RecordWriteSize(marc) < PowerOf10(RecordDigits)
  PROVE  /\ LengthRead(whole) = RecordWriteSize(marc)
         /\ BaseRead(whole) = FieldsLocation(Len(marc))
         /\ RecordWriteSize(marc) < 256 * PowerOf10(RecordDigits - 1)
<1>1. /\ RecordWriteSize(marc) \in Nat /\ FieldsLocation(Len(marc)) \in Nat
      /\ FieldsLocation(Len(marc)) <= RecordWriteSize(marc)
  BY WriteSizeIs, FieldSizesAre
<1>2. FieldsLocation(Len(marc)) < PowerOf10(RecordDigits)
      /\ RecordWriteSize(marc) < 256 * PowerOf10(RecordDigits - 1)
  BY <1>1, RoomIs
<1> QED
  BY <1>1, <1>2, Numbers, SizesAreFound, SizeIsReadBack

(* The entry of a field is read as it was written.                         *)
LEMMA EntryIsFound ==
  ASSUME NEW marc, NEW a, IsInOrder(marc, a), NEW whole, IsLaidOut(whole, marc),
         NEW i \in 1..Len(marc)
  PROVE  EntryRead(whole, i)
           = [tag |-> marc[i].tag,
              length |-> SizeRead(SizeWrite(FieldWriteSize(marc[i]), LengthDigits)),
              location |-> SizeRead(SizeWrite(Location(marc, i), RecordDigits))]
<1> DEFINE t == marc[i].tag
           z == SizeWrite(FieldWriteSize(marc[i]), LengthDigits)
           l == SizeWrite(Location(marc, i), RecordDigits)
           e == EntryWrite(marc, i)
           at == LeaderLength + (i - 1) * EntryLength
<1>1. t \in Seq(Byte) /\ Len(t) = 3
  <2>1. marc[i] \in Field
    BY SortedFields DEF Whole
  <2> QED
    BY <2>1, TagIs
<1>2. /\ z \in Seq(Byte) /\ Len(z) = LengthDigits
      /\ l \in Seq(Byte) /\ Len(l) = RecordDigits
  BY LocationIs, Numbers, SizeWriteIs
<1>3. /\ e \in Seq(Byte) /\ IsAt(t, 0, e) /\ IsAt(z, 3, e) /\ IsAt(l, 3 + LengthDigits, e)
  BY EntryWriteIs
<1>4. whole \in Seq(Byte) /\ IsAt(e, at, whole)
  BY DEF IsLaidOut
<1>5. at \in Nat
  <2>1. i - 1 \in Nat /\ EntryLength \in Nat /\ LeaderLength \in Nat
    BY Numbers, SortedFields
  <2> DEFINE k == (i - 1) * EntryLength
  <2>2. k \in Nat
    BY <2>1, Products
  <2> HIDE DEF k
  <2>3. LeaderLength + k \in Nat
    BY <2>1, <2>2
  <2> QED
    BY <2>3 DEF k
<1>6. EntryRead(whole, i) = [tag |-> Bytes(whole, at, TagLength),
                             length |-> SizeRead(Bytes(whole, at + TagLength, LengthDigits)),
                             location |-> SizeRead(Bytes(whole, at + TagLength + LengthDigits,
                                                         RecordDigits))]
  BY DEF EntryRead
<1> HIDE DEF t, z, l, e, at
<1>7. 3 \in Nat /\ 3 + LengthDigits \in Nat /\ 0 \in Nat /\ TagLength = 3
  BY Numbers
<1>8. IsAt(t, at + 0, whole) /\ IsAt(z, at + 3, whole) /\ IsAt(l, at + (3 + LengthDigits), whole)
  BY <1>1, <1>2, <1>3, <1>4, <1>5, <1>7, AtInside
<1>9. /\ at + 0 = at /\ at + TagLength = at + 3
      /\ at + TagLength + LengthDigits = at + (3 + LengthDigits)
      /\ at + 3 \in Nat /\ at + (3 + LengthDigits) \in Nat
  BY <1>5, <1>7, Numbers
<1>10. IsAt(t, at, whole)
  BY <1>8, <1>9
<1>11. /\ Bytes(whole, at, Len(t)) = t
       /\ Bytes(whole, at + 3, Len(z)) = z
       /\ Bytes(whole, at + (3 + LengthDigits), Len(l)) = l
  BY <1>1, <1>2, <1>4, <1>5, <1>8, <1>9, <1>10, SliceAt
<1>12. /\ Bytes(whole, at, TagLength) = t
       /\ Bytes(whole, at + TagLength, LengthDigits) = z
       /\ Bytes(whole, at + TagLength + LengthDigits, RecordDigits) = l
  BY <1>1, <1>2, <1>7, <1>9, <1>11
<1> QED
  BY <1>6, <1>12 DEF t, z, l

(* A flattened sequence grows by what is appended to the sequence.         *)
LEMMA FlattenAppend ==
  ASSUME NEW S, NEW seqs \in Seq(Seq(S)), NEW s \in Seq(S)
  PROVE  FlattenSeq(Append(seqs, s)) = FlattenSeq(seqs) \o s
<1> DEFINE n == Len(seqs)
           more == Append(seqs, s)
<1>1. /\ n \in Nat /\ more \in Seq(Seq(S)) /\ Len(more) = n + 1
      /\ \A i \in 1..n : more[i] = seqs[i]
      /\ more[n + 1] = s
  BY LenProperties, AppendProperties
<1> HIDE DEF more
<1>2. PICK g : IsFlatten(g, more) /\ FlattenSeq(more) = g[n + 1]
  <2> DEFINE g == CHOOSE f : IsFlatten(f, more)
  <2>1. IsFlatten(g, more)
    BY <1>1, FlattenExists
  <2>2. FlattenSeq(more) = g[n + 1]
    BY <1>1 DEF FlattenSeq, IsFlatten
  <2> QED
    BY <2>1, <2>2
<1>3. \A i \in 1..(n + 1) : g[i] = IF i = 1 THEN more[i] ELSE g[i - 1] \o more[i]
  <2>1. g = [i \in 1..(n + 1) |-> IF i = 1 THEN more[i] ELSE g[i - 1] \o more[i]]
    BY <1>1, <1>2 DEF IsFlatten
  <2> QED
    BY <2>1
<1>4. CASE n = 0
  <2>1. g[1] = s
    BY <1>1, <1>3, <1>4
  <2>2. FlattenSeq(seqs) = << >>
    BY <1>4, EmptySeq DEF FlattenSeq
  <2> QED
    BY <1>2, <1>4, <2>1, <2>2 DEF more
<1>5. CASE n # 0
  <2>1. PICK f : IsFlatten(f, seqs) /\ FlattenSeq(seqs) = f[n]
    <3> DEFINE f == CHOOSE h : IsFlatten(h, seqs)
    <3>1. IsFlatten(f, seqs)
      BY FlattenExists
    <3>2. FlattenSeq(seqs) = f[n]
      BY <1>5 DEF FlattenSeq, IsFlatten
    <3> QED
      BY <3>1, <3>2
  <2>2. \A i \in 1..n : f[i] = IF i = 1 THEN seqs[i] ELSE f[i - 1] \o seqs[i]
    <3>1. f = [i \in 1..n |-> IF i = 1 THEN seqs[i] ELSE f[i - 1] \o seqs[i]]
      BY <2>1 DEF IsFlatten
    <3> QED
      BY <3>1
  <2> DEFINE T == {k \in 0..n : k = 0 \/ f[k] = g[k]}
  <2>3. 0 \in T
    BY <1>1
  <2>4. ASSUME NEW k \in 1..n, k - 1 \in T PROVE k \in T
    <3>1. k \in 1..(n + 1) /\ (k = 1 \/ (k # 1 /\ k - 1 # 0))
      BY <1>1
    <3>2. k # 1 => f[k - 1] = g[k - 1]
      BY <2>4, <3>1
    <3>3. more[k] = seqs[k]
      BY <1>1
    <3>4. f[k] = g[k]
      BY <1>3, <2>2, <3>1, <3>2, <3>3
    <3> QED
      BY <1>1, <3>4
  <2> HIDE DEF T, n
  <2>5. \A k \in 0..n : k \in T
    BY <1>1, <2>3, <2>4, UpTo
  <2>6. n \in 0..n /\ n + 1 \in 1..(n + 1) /\ n + 1 # 1 /\ (n + 1) - 1 = n
    BY <1>1, <1>5
  <2>7. f[n] = g[n]
    BY <1>5, <2>5, <2>6 DEF T
  <2>8. g[n + 1] = g[n] \o s
    BY <1>1, <1>3, <2>6
  <2> QED
    BY <1>2, <2>1, <2>7, <2>8 DEF more
<1> QED
  BY <1>4, <1>5

(* The bytes of one subfield more.                                         *)
LEMMA LaidAppend ==
  ASSUME NEW subfields \in Seq(Subfield), NEW s \in Subfield
  PROVE  FlattenSeq(Laid(Append(subfields, s))) = FlattenSeq(Laid(subfields)) \o SubfieldWrite(s)
<1> DEFINE n == Len(subfields)
           l == Laid(subfields)
           m == Append(subfields, s)
           k == Laid(m)
           w == SubfieldWrite(s)
<1>1. /\ n \in Nat /\ m \in Seq(Subfield) /\ Len(m) = n + 1
      /\ \A i \in 1..n : m[i] = subfields[i]
      /\ m[n + 1] = s
  BY LenProperties, AppendProperties
<1>2. /\ l \in Seq(Seq(Byte)) /\ Len(l) = n
      /\ \A i \in 1..n : l[i] = SubfieldWrite(subfields[i])
  BY LaidIs
<1>w. w \in Seq(Byte)
  BY SubfieldWriteIs
<1> HIDE DEF m
<1>3. /\ k \in Seq(Seq(Byte)) /\ Len(k) = n + 1
      /\ \A i \in 1..(n + 1) : k[i] = SubfieldWrite(m[i])
  BY <1>1, LaidIs
<1> HIDE DEF l, k, n, w
<1>4. /\ Append(l, w) \in Seq(Seq(Byte)) /\ Len(Append(l, w)) = n + 1
      /\ \A i \in 1..n : Append(l, w)[i] = l[i]
      /\ Append(l, w)[n + 1] = w
  BY <1>2, <1>w, AppendProperties
<1>5. \A i \in 1..(n + 1) : k[i] = Append(l, w)[i]
  <2>1. \A i \in 1..n : k[i] = Append(l, w)[i]
    BY <1>1, <1>2, <1>3, <1>4
  <2>2. k[n + 1] = w
    BY <1>1, <1>3 DEF w
  <2>3. \A i \in 1..(n + 1) : i \in 1..n \/ i = n + 1
    BY <1>1
  <2> QED
    BY <1>4, <2>1, <2>2, <2>3
<1>6. k = Append(l, w)
  BY <1>3, <1>4, <1>5, SeqEqual
<1>7. FlattenSeq(Append(l, w)) = FlattenSeq(l) \o w
  BY <1>2, <1>w, FlattenAppend
<1> QED
  BY <1>6, <1>7 DEF k, l, m, w

-----------------------------------------------------------------------------
(* How far the subfields of a field have been read.                        *)
Delimited(bytes) == {p \in DOMAIN bytes : bytes[p] = SubfieldDelimiter}
Progress == [at : Nat \ {0}, ok : BOOLEAN, subfields : Seq(Subfield)]
Start == [at |-> 1, ok |-> TRUE, subfields |-> << >>]
Ends(bytes, at) == {p \in (at + 2)..Len(bytes) : bytes[p] \in {SubfieldDelimiter, FieldTerminator}}
IsEnd(end, bytes, at) == end \in Ends(bytes, at) /\ \A q \in Ends(bytes, at) : end <= q

(* The end that SubfieldRead chooses.                                      *)
LEMMA EndIs ==
  ASSUME NEW bytes \in Seq(Byte), NEW at \in Nat \ {0}, Ends(bytes, at) # {}
  PROVE  IsEnd(CHOOSE p \in Ends(bytes, at) : \A q \in Ends(bytes, at) : p <= q, bytes, at)
<1>1. Ends(bytes, at) \subseteq Nat
  BY LenProperties DEF Ends
<1> QED
  BY <1>1, LeastNumber DEF IsEnd

(* One call of BibMarcSubfieldRead reads a subfield, or fails.             *)
LEMMA SubfieldReadIs ==
  ASSUME NEW bytes \in Seq(Byte), NEW read \in Progress
  PROVE  \/ \E end :
              /\ IsEnd(end, bytes, read.at) /\ read.ok
              /\ bytes[read.at] = SubfieldDelimiter
              /\ SubfieldRead(bytes, read)
                   = [at |-> end, ok |-> TRUE,
                      subfields |-> Append(read.subfields,
                                           [code    |-> bytes[read.at + 1],
                                            content |-> SubSeq(bytes, read.at + 2, end - 1)])]
         \/ /\ SubfieldRead(bytes, read) = [read EXCEPT !.ok = FALSE]
            /\ ~(read.ok /\ bytes[read.at] = SubfieldDelimiter /\ Ends(bytes, read.at) # {})
<1> DEFINE end == CHOOSE p \in Ends(bytes, read.at) : \A q \in Ends(bytes, read.at) : p <= q
           next == [at |-> end, ok |-> TRUE,
                      subfields |-> Append(read.subfields,
                                           [code    |-> bytes[read.at + 1],
                                            content |-> SubSeq(bytes, read.at + 2, end - 1)])]
<1>1. SubfieldRead(bytes, read)
        = IF read.ok /\ bytes[read.at] = SubfieldDelimiter /\ Ends(bytes, read.at) # {}
          THEN next
          ELSE [read EXCEPT !.ok = FALSE]
  BY DEF SubfieldRead, Ends
<1>2. Ends(bytes, read.at) # {} => IsEnd(end, bytes, read.at)
  <2>1. read.at \in Nat \ {0}
    BY DEF Progress
  <2> QED
    BY <2>1, EndIs
<1>3. CASE read.ok /\ bytes[read.at] = SubfieldDelimiter /\ Ends(bytes, read.at) # {}
  <2>1. SubfieldRead(bytes, read) = next
    BY <1>1, <1>3
  <2> QED
    BY <1>2, <1>3, <2>1
<1>4. CASE ~(read.ok /\ bytes[read.at] = SubfieldDelimiter /\ Ends(bytes, read.at) # {})
  <2>1. SubfieldRead(bytes, read) = [read EXCEPT !.ok = FALSE]
    BY <1>1, <1>4
  <2> QED
    BY <1>4, <2>1
<1> QED
  BY <1>3, <1>4

(* The subfield between a delimiter and the next end.                      *)
LEMMA SubfieldBetween ==
  ASSUME NEW bytes \in Seq(Byte), NEW at \in Nat \ {0}, NEW end, IsEnd(end, bytes, at),
         NEW s, s = [code |-> bytes[at + 1], content |-> SubSeq(bytes, at + 2, end - 1)]
  PROVE  /\ end \in Nat \ {0} /\ end >= at + 2 /\ end <= Len(bytes)
         /\ s \in Subfield /\ Len(s.content) = end - 1 - (at + 2) + 1
         /\ s.code = bytes[at + 1]
         /\ \A j \in 1..(end - 1 - (at + 2) + 1) : s.content[j] = bytes[at + 2 + j - 1]
<1>1. end \in Nat \ {0} /\ end >= at + 2 /\ end <= Len(bytes) /\ Len(bytes) \in Nat
  BY LenProperties DEF IsEnd, Ends
<1>2. \A i \in 1..Len(bytes) : bytes[i] \in Byte
  BY ElementOfSeq
<1>3. at + 2 \in Int /\ end - 1 \in Int /\ at + 1 \in 1..Len(bytes)
  BY <1>1
<1>4. \A i \in (at + 2)..(end - 1) : bytes[i] \in Byte
  BY <1>1, <1>2
<1> DEFINE c == SubSeq(bytes, at + 2, end - 1)
<1>5. /\ c \in Seq(Byte)
      /\ Len(c) = IF at + 2 <= end - 1 THEN end - 1 - (at + 2) + 1 ELSE 0
      /\ \A i \in 1..(end - 1 - (at + 2) + 1) : c[i] = bytes[at + 2 + i - 1]
  BY <1>3, <1>4, SubSeqProperties
<1> HIDE DEF c
<1>6. Len(c) = end - 1 - (at + 2) + 1
  BY <1>1, <1>5
<1>7. s = [code |-> bytes[at + 1], content |-> c]
  BY DEF c
<1>8. bytes[at + 1] \in Byte
  BY <1>2, <1>3
<1> QED
  BY <1>1, <1>5, <1>6, <1>7, <1>8 DEF Subfield

(* How far reading has come keeps its type.                                *)
LEMMA SubfieldReadStays ==
  ASSUME NEW bytes \in Seq(Byte), NEW read \in Progress
  PROVE  SubfieldRead(bytes, read) \in Progress
<1> DEFINE x(end) == [code |-> bytes[read.at + 1], content |-> SubSeq(bytes, read.at + 2, end - 1)]
<1>0. read.at \in Nat \ {0} /\ read.ok \in BOOLEAN /\ read.subfields \in Seq(Subfield)
  BY DEF Progress
<1>1. ASSUME NEW end, IsEnd(end, bytes, read.at),
             SubfieldRead(bytes, read)
               = [at |-> end, ok |-> TRUE, subfields |-> Append(read.subfields, x(end))]
      PROVE  SubfieldRead(bytes, read) \in Progress
  <2>1. end \in Nat \ {0} /\ x(end) \in Subfield
    BY <1>0, <1>1, SubfieldBetween
  <2>2. Append(read.subfields, x(end)) \in Seq(Subfield)
    BY <1>0, <2>1, AppendProperties
  <2> HIDE DEF x
  <2> QED
    BY <1>1, <2>1, <2>2 DEF Progress
<1>2. CASE SubfieldRead(bytes, read) = [read EXCEPT !.ok = FALSE]
  BY <1>2 DEF Progress
<1> QED
  BY <1>1, <1>2, SubfieldReadIs

(* Two runs of bytes, one behind the other.                                *)
LEMMA BesideBytes ==
  ASSUME NEW s \in Seq(Byte), NEW t \in Seq(Byte)
  PROVE  /\ s \o t \in Seq(Byte) /\ Len(s \o t) = Len(s) + Len(t)
         /\ \A j \in 1..Len(s) : (s \o t)[j] = s[j]
         /\ \A j \in 1..Len(t) : (s \o t)[Len(s) + j] = t[j]
BY Beside

Count(bytes) == Cardinality(Delimited(bytes))

AreReads(read, bytes) ==
  /\ read \in [0..Count(bytes) -> Progress]
  /\ read[0] = Start
  /\ \A k \in 1..Count(bytes) : read[k] = SubfieldRead(bytes, read[k - 1])

IsReadWith(read, bytes) ==
  SubfieldsRead(bytes)
    = [read[Count(bytes)] EXCEPT !.ok = @ /\ read[Count(bytes)].at = Len(bytes)
                                          /\ bytes[read[Count(bytes)].at] = FieldTerminator]

(* The number of delimiters is a number.                                   *)
LEMMA CountIsNumber ==
  ASSUME NEW bytes \in Seq(Byte)
  PROVE  IsFiniteSet(Delimited(bytes)) /\ Count(bytes) \in Nat
<1>1. Len(bytes) \in Nat /\ DOMAIN bytes = 1..Len(bytes)
  BY LenProperties
<1>2. IsFiniteSet(1..Len(bytes))
  BY <1>1, FS_Interval
<1>3. IsFiniteSet(Delimited(bytes))
  BY <1>1, <1>2, FS_Subset DEF Delimited
<1> QED
  BY <1>3, FS_CardinalityType DEF Count

(* Reading goes subfield by subfield, as often as there are delimiters.    *)
LEMMA ReadsExist ==
  ASSUME NEW bytes \in Seq(Byte)
  PROVE  \E read : AreReads(read, bytes) /\ IsReadWith(read, bytes)
<1> DEFINE n == Count(bytes)
           IsReads(f) == f = [k \in 0..n |-> IF k = 0 THEN Start ELSE SubfieldRead(bytes, f[k - 1])]
           read == CHOOSE f : IsReads(f)
<1>1. n \in Nat
  BY CountIsNumber
<1>2. Start \in Progress
  <2>1. << >> \in Seq(Subfield)
    OBVIOUS
  <2> QED
    BY <2>1 DEF Start, Progress
<1> HIDE DEF n
<1>3. \E f : IsReads(f)
  <2> DEFINE step == [k \in 1..n |-> [r \in Progress |-> SubfieldRead(bytes, r)]]
  <2>1. step \in [1..n -> [Progress -> Progress]]
    BY SubfieldReadStays
  <2>2. \A k \in 1..n : \A r \in Progress : step[k][r] = SubfieldRead(bytes, r)
    OBVIOUS
  <2> HIDE DEF step
  <2>3. PICK f : IsRun(f, n, Progress, Start, step)
    <3>1. IsStep(step, n, Progress)
      BY <2>1 DEF IsStep
    <3> QED
      BY <1>1, <1>2, <3>1, RecursionExists
  <2>4. f \in [0..n -> Progress] /\ f[0] = Start /\ \A k \in 1..n : f[k] = step[k][f[k - 1]]
    BY <2>3 DEF IsRun
  <2>5. ASSUME NEW k \in 1..n PROVE f[k] = SubfieldRead(bytes, f[k - 1])
    <3>1. k - 1 \in 0..n
      BY <1>1
    <3>2. f[k - 1] \in Progress
      BY <2>4, <3>1
    <3> QED
      BY <2>2, <2>4, <3>2
  <2>6. f = [k \in 0..n |-> f[k]]
    BY <2>4
  <2>7. \A k \in 0..n : f[k] = IF k = 0 THEN Start ELSE SubfieldRead(bytes, f[k - 1])
    BY <1>1, <2>4, <2>5
  <2> QED
    BY <2>6, <2>7
<1>4. IsReads(read)
  BY <1>3
<1>5. IsReadWith(read, bytes)
  BY DEF IsReadWith, SubfieldsRead, Count, Delimited, Start, n
<1> HIDE DEF read
<1>6. /\ DOMAIN read = 0..n /\ read = [k \in 0..n |-> read[k]]
      /\ read[0] = Start /\ \A k \in 1..n : read[k] = SubfieldRead(bytes, read[k - 1])
  <2>1. read = [k \in 0..n |-> IF k = 0 THEN Start ELSE SubfieldRead(bytes, read[k - 1])]
    BY <1>4
  <2>2. DOMAIN read = 0..n
    BY <2>1
  <2>3. \A k \in 0..n : read[k] = IF k = 0 THEN Start ELSE SubfieldRead(bytes, read[k - 1])
    BY <2>1
  <2>4. read = [k \in 0..n |-> read[k]]
    BY <2>1
  <2>5. 0 \in 0..n /\ \A k \in 1..n : k \in 0..n /\ k # 0
    BY <1>1
  <2> QED
    BY <2>2, <2>3, <2>4, <2>5
<1> DEFINE T == {k \in 0..n : read[k] \in Progress}
<1>7. 0 \in T
  BY <1>1, <1>2, <1>6
<1>8. ASSUME NEW k \in 1..n, k - 1 \in T PROVE k \in T
  <2>1. read[k - 1] \in Progress
    BY <1>8
  <2>2. read[k] \in Progress
    BY <1>6, <2>1, SubfieldReadStays
  <2> QED
    BY <1>1, <2>2
<1> HIDE DEF T
<1>9. \A k \in 0..n : k \in T
  BY <1>1, <1>7, <1>8, UpTo
<1>10. \A k \in 0..n : read[k] \in Progress
  BY <1>9 DEF T
<1>11. AreReads(read, bytes)
  BY <1>6, <1>10 DEF AreReads, n
<1> QED
  BY <1>5, <1>11

-----------------------------------------------------------------------------
(* What has been read of a field is what was there, byte by byte, whatever *)
(* its subfields are taken to be.                                          *)
IsExact(bytes, read) ==
  read.ok => /\ read.at - 1 <= Len(bytes)
             /\ FlattenSeq(Laid(read.subfields)) = SubSeq(bytes, 1, read.at - 1)

(* One subfield more, and what was read is still laid out as the bytes it  *)
(* was read from.                                                          *)
LEMMA SubfieldReadIsExact ==
  ASSUME NEW bytes \in Seq(Byte), NEW read \in Progress, IsExact(bytes, read)
  PROVE  IsExact(bytes, SubfieldRead(bytes, read))
<1> DEFINE x(end) == [code |-> bytes[read.at + 1], content |-> SubSeq(bytes, read.at + 2, end - 1)]
<1>0. read.at \in Nat \ {0} /\ read.ok \in BOOLEAN /\ read.subfields \in Seq(Subfield)
  BY DEF Progress
<1>1. CASE SubfieldRead(bytes, read) = [read EXCEPT !.ok = FALSE]
  <2>1. ~(SubfieldRead(bytes, read).ok)
    BY <1>1 DEF Progress
  <2> QED
    BY <2>1 DEF IsExact
<1>2. ASSUME NEW end, IsEnd(end, bytes, read.at), read.ok, bytes[read.at] = SubfieldDelimiter,
             SubfieldRead(bytes, read)
               = [at |-> end, ok |-> TRUE, subfields |-> Append(read.subfields, x(end))]
      PROVE  IsExact(bytes, SubfieldRead(bytes, read))
  <2> DEFINE s == x(end)
             m == read.at
             w == SubfieldWrite(s)
             old == SubSeq(bytes, 1, m - 1)
             new == SubSeq(bytes, 1, end - 1)
  <2>1. m \in Nat \ {0} /\ m - 1 <= Len(bytes) /\ Len(bytes) \in Nat
        /\ \A i \in 1..Len(bytes) : bytes[i] \in Byte
    BY <1>0, <1>2, LenProperties, ElementOfSeq DEF IsExact
  <2>2. /\ end \in Nat \ {0} /\ end >= m + 2 /\ end <= Len(bytes)
        /\ s \in Subfield /\ Len(s.content) = end - 1 - (m + 2) + 1
        /\ s.code = bytes[m + 1]
        /\ \A j \in 1..(end - 1 - (m + 2) + 1) : s.content[j] = bytes[m + 2 + j - 1]
    <3>1. s = [code |-> bytes[m + 1], content |-> SubSeq(bytes, m + 2, end - 1)]
      OBVIOUS
    <3>2. m \in Nat \ {0} /\ IsEnd(end, bytes, m)
      BY <1>0, <1>2
    <3> HIDE DEF s, m
    <3> QED
      BY <3>1, <3>2, SubfieldBetween
  <2>3. FlattenSeq(Laid(read.subfields)) = old
    BY <1>2 DEF IsExact
  <2>4. FlattenSeq(Laid(Append(read.subfields, s))) = old \o w
    BY <1>0, <2>2, <2>3, LaidAppend
  <2>5. /\ w \in Seq(Byte) /\ Len(w) = 2 + Len(s.content)
        /\ w[1] = SubfieldDelimiter /\ w[2] = s.code
        /\ \A j \in 1..Len(s.content) : w[2 + j] = s.content[j]
    BY <2>2, SubfieldWriteIs
  <2>6. /\ old \in Seq(Byte) /\ Len(old) = m - 1
        /\ \A i \in 1..(m - 1) : old[i] = bytes[i]
    <3>1. /\ old \in Seq(Byte) /\ Len(old) = (IF 1 <= m - 1 THEN m - 1 - 1 + 1 ELSE 0)
          /\ \A i \in 1..(m - 1 - 1 + 1) : old[i] = bytes[1 + i - 1]
      <4>1. 1 \in Int /\ m - 1 \in Int /\ \A i \in 1..(m - 1) : bytes[i] \in Byte
        BY <2>1
      <4> QED
        BY <4>1, SubSeqProperties
    <3> HIDE DEF old, m
    <3> QED
      BY <2>1, <3>1
  <2>7. /\ new \in Seq(Byte) /\ Len(new) = end - 1
        /\ \A i \in 1..(end - 1) : new[i] = bytes[i]
    <3>1. /\ new \in Seq(Byte) /\ Len(new) = (IF 1 <= end - 1 THEN end - 1 - 1 + 1 ELSE 0)
          /\ \A i \in 1..(end - 1 - 1 + 1) : new[i] = bytes[1 + i - 1]
      <4>1. 1 \in Int /\ end - 1 \in Int /\ \A i \in 1..(end - 1) : bytes[i] \in Byte
        BY <2>1, <2>2
      <4> QED
        BY <4>1, SubSeqProperties
    <3> HIDE DEF new
    <3> QED
      BY <2>2, <3>1
  <2> HIDE DEF old, new, w, s, m
  <2>8. /\ old \o w \in Seq(Byte) /\ Len(old \o w) = Len(old) + Len(w)
        /\ \A j \in 1..Len(old) : (old \o w)[j] = old[j]
        /\ \A j \in 1..Len(w) : (old \o w)[Len(old) + j] = w[j]
    BY <2>5, <2>6, BesideBytes
  <2> DEFINE b == old \o w
  <2>9. /\ b \in Seq(Byte) /\ Len(b) = end - 1
        /\ \A j \in 1..(m - 1) : b[j] = old[j]
        /\ \A j \in 1..Len(w) : b[m - 1 + j] = w[j]
    BY <2>1, <2>2, <2>5, <2>6, <2>8
  <2> HIDE DEF b
  <2>10. ASSUME NEW i \in 1..(end - 1) PROVE b[i] = new[i]
    <3>1. new[i] = bytes[i]
      BY <2>7
    <3>2. CASE i \in 1..(m - 1)
      BY <2>6, <2>9, <3>1, <3>2
    <3>3. CASE i = m
      <4>1. 1 \in 1..Len(w) /\ m - 1 + 1 = m
        BY <2>1, <2>2, <2>5
      <4>2. b[m] = w[1]
        BY <2>9, <4>1
      <4> QED
        BY <1>2, <2>5, <3>1, <3>3, <4>2 DEF m
    <3>4. CASE i = m + 1
      <4>1. 2 \in 1..Len(w) /\ m - 1 + 2 = m + 1
        BY <2>1, <2>2, <2>5
      <4>2. b[m + 1] = w[2]
        BY <2>9, <4>1
      <4> QED
        BY <2>2, <2>5, <3>1, <3>4, <4>2
    <3>5. CASE i \in (m + 2)..(end - 1)
      <4> DEFINE j == i - m - 1
      <4>1. /\ j \in 1..(end - 1 - (m + 2) + 1) /\ j \in 1..Len(s.content)
            /\ 2 + j \in 1..Len(w)
            /\ m - 1 + (2 + j) = i /\ m + 2 + j - 1 = i
        BY <2>1, <2>2, <2>5, <3>5
      <4> HIDE DEF j
      <4>2. b[i] = w[2 + j]
        BY <2>9, <4>1
      <4>3. w[2 + j] = s.content[j]
        BY <2>5, <4>1
      <4>4. s.content[j] = bytes[i]
        BY <2>2, <4>1
      <4> QED
        BY <3>1, <4>2, <4>3, <4>4
    <3>6. i \in 1..(m - 1) \/ i = m \/ i = m + 1 \/ i \in (m + 2)..(end - 1)
      BY <2>1, <2>2
    <3> QED
      BY <3>2, <3>3, <3>4, <3>5, <3>6
  <2>11. b = new
    BY <2>7, <2>9, <2>10, SeqEqual
  <2>12. /\ SubfieldRead(bytes, read).at = end
         /\ SubfieldRead(bytes, read).subfields = Append(read.subfields, s)
    BY <1>2 DEF s
  <2> QED
    BY <2>2, <2>4, <2>11, <2>12 DEF IsExact, b, new
<1> HIDE DEF x
<1>3. \/ SubfieldRead(bytes, read) = [read EXCEPT !.ok = FALSE]
      \/ \E end : /\ IsEnd(end, bytes, read.at) /\ read.ok /\ bytes[read.at] = SubfieldDelimiter
                  /\ SubfieldRead(bytes, read)
                       = [at |-> end, ok |-> TRUE, subfields |-> Append(read.subfields, x(end))]
  BY SubfieldReadIs DEF x
<1> QED
  BY <1>1, <1>2, <1>3

(* Subfields that were read are laid out as the bytes they were read from, *)
(* whatever these are.                                                     *)
LEMMA SubfieldsReadAreExact ==
  ASSUME NEW bytes \in Seq(Byte), SubfieldsRead(bytes).ok
  PROVE  /\ SubfieldsRead(bytes).subfields \in Seq(Subfield)
         /\ FlattenSeq(Laid(SubfieldsRead(bytes).subfields)) \o <<FieldTerminator>> = bytes
<1> DEFINE n == Count(bytes)
<1>1. PICK read : AreReads(read, bytes) /\ IsReadWith(read, bytes)
  BY ReadsExist
<1>2. /\ n \in Nat /\ \A k \in 0..n : read[k] \in Progress
      /\ read[0] = Start /\ \A k \in 1..n : read[k] = SubfieldRead(bytes, read[k - 1])
  BY <1>1, CountIsNumber DEF AreReads
<1>3. SubfieldsRead(bytes)
        = [read[n] EXCEPT !.ok = @ /\ read[n].at = Len(bytes) /\ bytes[read[n].at] = FieldTerminator]
  BY <1>1 DEF IsReadWith
<1> HIDE DEF n
<1> DEFINE T == {k \in 0..n : IsExact(bytes, read[k])}
<1>4. 0 \in T
  <2>1. FlattenSeq(Laid(<< >>)) = << >>
    <3>1. Laid(<< >>) = << >>
      BY DEF Laid
    <3> QED
      BY <3>1 DEF FlattenSeq
  <2>2. SubSeq(bytes, 1, 0) = << >>
    BY SubSeqEmpty
  <2>3. Len(bytes) \in Nat
    BY LenProperties
  <2>4. Start.at - 1 = 0 /\ Start.subfields = << >>
    BY DEF Start
  <2> DEFINE at == Start.at - 1
  <2>7. at = 0
    BY <2>4
  <2> HIDE DEF at
  <2>8. FlattenSeq(Laid(Start.subfields)) = SubSeq(bytes, 1, at)
    BY <2>1, <2>2, <2>4, <2>7
  <2>5. FlattenSeq(Laid(Start.subfields)) = SubSeq(bytes, 1, at) /\ at <= Len(bytes)
    BY <2>3, <2>7, <2>8
  <2>6. IsExact(bytes, Start)
    BY <2>5 DEF IsExact, at
  <2> QED
    BY <1>2, <2>6
<1>5. ASSUME NEW k \in 1..n, k - 1 \in T PROVE k \in T
  <2>1. k - 1 \in 0..n /\ k \in 0..n
    BY <1>2
  <2>2. IsExact(bytes, SubfieldRead(bytes, read[k - 1]))
    BY <1>2, <1>5, <2>1, SubfieldReadIsExact
  <2> QED
    BY <1>2, <2>1, <2>2
<1> HIDE DEF T
<1>6. \A k \in 0..n : k \in T
  BY <1>2, <1>4, <1>5, UpTo
<1> DEFINE last == read[n]
           subs == last.subfields
<1>7. last \in Progress /\ IsExact(bytes, last)
  <2>1. n \in 0..n
    BY <1>2
  <2> QED
    BY <1>2, <1>6, <2>1 DEF T
<1> HIDE DEF last
<1>8. /\ last.at \in Nat \ {0} /\ subs \in Seq(Subfield)
      /\ SubfieldsRead(bytes).subfields = subs
      /\ last.ok /\ last.at = Len(bytes) /\ bytes[last.at] = FieldTerminator
  BY <1>3, <1>7 DEF Progress, last
<1>9. FlattenSeq(Laid(subs)) = SubSeq(bytes, 1, Len(bytes) - 1)
  BY <1>7, <1>8 DEF IsExact
<1>10. SubSeq(bytes, 1, Len(bytes) - 1) \o <<FieldTerminator>> = bytes
  <2> DEFINE l == Len(bytes)
             s == SubSeq(bytes, 1, l - 1)
             t == <<FieldTerminator>>
             b == s \o t
  <2>1. l \in Nat \ {0} /\ bytes[l] = FieldTerminator /\ \A i \in 1..l : bytes[i] \in Byte
    BY <1>8, ElementOfSeq
  <2> HIDE DEF l
  <2>2. /\ s \in Seq(Byte) /\ Len(s) = l - 1
        /\ \A i \in 1..(l - 1) : s[i] = bytes[i]
    <3>1. /\ s \in Seq(Byte) /\ Len(s) = (IF 1 <= l - 1 THEN l - 1 - 1 + 1 ELSE 0)
          /\ \A i \in 1..(l - 1 - 1 + 1) : s[i] = bytes[1 + i - 1]
      <4>1. 1 \in Int /\ l - 1 \in Int /\ \A i \in 1..(l - 1) : bytes[i] \in Byte
        BY <2>1
      <4> QED
        BY <4>1, SubSeqProperties
    <3> HIDE DEF s
    <3> QED
      BY <2>1, <3>1
  <2>3. t \in Seq(Byte) /\ Len(t) = 1 /\ t[1] = FieldTerminator
    BY Delimiters
  <2> HIDE DEF s, t
  <2>4. /\ b \in Seq(Byte) /\ Len(b) = Len(s) + Len(t)
        /\ \A j \in 1..Len(s) : b[j] = s[j]
        /\ \A j \in 1..Len(t) : b[Len(s) + j] = t[j]
    BY <2>2, <2>3, BesideBytes
  <2> HIDE DEF b
  <2>5. Len(b) = l /\ b[l] = FieldTerminator /\ \A j \in 1..(l - 1) : b[j] = bytes[j]
    <3>1. 1 \in 1..Len(t) /\ (l - 1) + 1 = l
      BY <2>1, <2>3
    <3> QED
      BY <2>1, <2>2, <2>3, <2>4, <3>1
  <2>6. \A i \in 1..l : b[i] = bytes[i]
    BY <2>1, <2>5
  <2>7. b = bytes
    BY <2>4, <2>5, <2>6, SeqEqual DEF l
  <2> QED
    BY <2>7 DEF b, s, t, l
<1> QED
  BY <1>8, <1>9, <1>10

(* A place up to the last sum lies between two sums.                       *)
LEMMA PieceOf ==
  ASSUME NEW n \in Nat, NEW f \in [0..n -> Nat], f[0] = 0, NEW p \in 1..f[n]
  PROVE  \E i \in 1..n : f[i - 1] < p /\ p <= f[i]
<1> DEFINE D == {i \in 0..n : p <= f[i]}
<1>1. n \in D /\ D \subseteq Nat
  OBVIOUS
<1>2. PICK i \in D : \A j \in D : i <= j
  <2> HIDE DEF D
  <2> QED
    BY <1>1, LeastNumber
<1>3. i \in 0..n /\ p <= f[i] /\ i # 0
  OBVIOUS
<1>4. i - 1 \in 0..n /\ ~(i <= i - 1) /\ i \in 1..n
  BY <1>3
<1>5. i - 1 \notin D
  BY <1>2, <1>4
<1>6. f[i - 1] < p
  <2>1. f[i - 1] \in Nat /\ ~(p <= f[i - 1])
    BY <1>4, <1>5
  <2> QED
    BY <2>1
<1> QED
  BY <1>3, <1>4, <1>6

(* What never falls from one number to the next never falls.               *)
LEMMA Grows ==
  ASSUME NEW n \in Nat, NEW f \in [0..n -> Nat], \A i \in 1..n : f[i - 1] <= f[i],
         NEW i \in 0..n, NEW j \in i..n
  PROVE  f[i] <= f[j]
<1> DEFINE T == {k \in 0..n : i <= k => f[i] <= f[k]}
<1>1. 0 \in T
  <2>1. i <= 0 => i = 0
    OBVIOUS
  <2>2. f[0] \in Nat
    OBVIOUS
  <2> QED
    BY <2>1, <2>2
<1>2. ASSUME NEW k \in 1..n, k - 1 \in T PROVE k \in T
  <2>1. k \in 0..n /\ k - 1 \in 0..n /\ f[k] \in Nat /\ f[k - 1] \in Nat /\ f[i] \in Nat
    OBVIOUS
  <2>2. f[k - 1] <= f[k]
    OBVIOUS
  <2>3. i <= k => i = k \/ i <= k - 1
    BY <2>1
  <2>4. i <= k - 1 => f[i] <= f[k - 1]
    BY <1>2
  <2>5. i <= k => f[i] <= f[k]
    BY <2>1, <2>2, <2>3, <2>4
  <2> QED
    BY <2>1, <2>5
<1> HIDE DEF T
<1>3. \A k \in 0..n : k \in T
  BY <1>1, <1>2, UpTo
<1>4. j \in 0..n /\ i <= j
  OBVIOUS
<1> QED
  BY <1>3, <1>4 DEF T

-----------------------------------------------------------------------------
(* What follows the indicators of a field.                                 *)
Ended(subs) == FlattenSeq(Laid(subs)) \o <<FieldTerminator>>

(* The bytes of the subfields, each at its place.                          *)
AreAt(places, subs, bytes) ==
  /\ places \in [0..Len(subs) -> Nat] /\ places[0] = 0
  /\ bytes \in Seq(Byte)
  /\ Len(bytes) = places[Len(subs)] + 1
  /\ bytes[places[Len(subs)] + 1] = FieldTerminator
  /\ \A i \in 1..Len(subs) :
       /\ Len(subs[i].content) \in Nat
       /\ places[i] = places[i - 1] + 2 + Len(subs[i].content)
       /\ bytes[places[i - 1] + 1] = SubfieldDelimiter
       /\ bytes[places[i - 1] + 2] = subs[i].code
       /\ \A j \in 1..Len(subs[i].content) :
            bytes[places[i - 1] + 2 + j] = subs[i].content[j]

(* The subfields of a field, each at its place, and its terminator.        *)
LEMMA EndedIs ==
  ASSUME NEW subs \in Seq(Subfield)
  PROVE  \E places : AreAt(places, subs, Ended(subs))
<1> DEFINE n == Len(subs)
           l == Laid(subs)
           flat == FlattenSeq(l)
           t == <<FieldTerminator>>
           b == flat \o t
<1>1. /\ l \in Seq(Seq(Byte)) /\ Len(l) = n /\ n \in Nat
      /\ \A i \in 1..n : l[i] = SubfieldWrite(subs[i]) /\ subs[i] \in Subfield
  BY LaidIs, LenProperties
<1> HIDE DEF l
<1>2. PICK places : flat \in Seq(Byte) /\ ArePlaces(places, l, flat)
  BY <1>1, FlattenIs
<1>3. t \in Seq(Byte) /\ Len(t) = 1 /\ t[1] = FieldTerminator
  BY Delimiters
<1> HIDE DEF flat, t
<1>4. /\ b \in Seq(Byte) /\ Len(b) = Len(flat) + Len(t)
      /\ \A j \in 1..Len(flat) : b[j] = flat[j]
      /\ \A j \in 1..Len(t) : b[Len(flat) + j] = t[j]
  BY <1>2, <1>3, BesideBytes
<1> HIDE DEF b, n
<1>5. /\ places \in [0..n -> Nat] /\ places[0] = 0 /\ places[n] = Len(flat) /\ Len(flat) \in Nat
      /\ \A i \in 1..n : /\ places[i] = places[i - 1] + Len(l[i])
                         /\ \A j \in 1..Len(l[i]) : flat[places[i - 1] + j] = l[i][j]
  BY <1>1, <1>2, LenProperties DEF ArePlaces
<1>6. Len(b) = places[n] + 1 /\ b[places[n] + 1] = FieldTerminator
  <2>1. 1 \in 1..Len(t)
    BY <1>3
  <2> QED
    BY <1>3, <1>4, <1>5, <2>1
<1>7. \A i \in 1..n : places[i - 1] <= places[i]
  <2> SUFFICES ASSUME NEW i \in 1..n PROVE places[i - 1] <= places[i]
    OBVIOUS
  <2>1. Len(l[i]) \in Nat /\ i - 1 \in 0..n
    BY <1>1, SubfieldWriteIs
  <2> QED
    BY <1>5, <2>1
<1>8. ASSUME NEW i \in 1..n
      PROVE  /\ Len(subs[i].content) \in Nat
             /\ places[i] = places[i - 1] + 2 + Len(subs[i].content)
             /\ b[places[i - 1] + 1] = SubfieldDelimiter
             /\ b[places[i - 1] + 2] = subs[i].code
             /\ \A j \in 1..Len(subs[i].content) :
                  b[places[i - 1] + 2 + j] = subs[i].content[j]
  <2> DEFINE s == subs[i]
             w == SubfieldWrite(s)
             p == places[i - 1]
             c == Len(s.content)
  <2>1. /\ Len(w) = 2 + c /\ c \in Nat
        /\ w[1] = SubfieldDelimiter /\ w[2] = s.code
        /\ \A j \in 1..c : w[2 + j] = s.content[j]
    BY <1>1, SubfieldWriteIs
  <2>2. /\ p \in Nat /\ places[i] = p + Len(w) /\ places[i] <= Len(flat)
        /\ \A j \in 1..Len(w) : flat[p + j] = w[j]
    <3>1. l[i] = w /\ i - 1 \in 0..n /\ i \in 0..n /\ n \in i..n
      BY <1>1
    <3>2. places[i] <= places[n]
      BY <1>1, <1>5, <1>7, <3>1, Grows
    <3> HIDE DEF w
    <3> QED
      BY <1>5, <3>1, <3>2
  <2> HIDE DEF s, w, p, c
  <2>3. ASSUME NEW j \in 1..(2 + c) PROVE b[p + j] = w[j]
    <3>1. p + j \in 1..Len(flat) /\ j \in 1..Len(w)
      BY <1>5, <2>1, <2>2
    <3> QED
      BY <1>4, <2>2, <3>1
  <2>4. b[p + 1] = SubfieldDelimiter /\ b[p + 2] = s.code
    <3>1. 1 \in 1..(2 + c) /\ 2 \in 1..(2 + c)
      BY <2>1
    <3> QED
      BY <2>1, <2>3, <3>1
  <2>5. \A j \in 1..c : b[p + 2 + j] = s.content[j]
    <3> SUFFICES ASSUME NEW j \in 1..c PROVE b[p + 2 + j] = s.content[j]
      OBVIOUS
    <3>1. 2 + j \in 1..(2 + c) /\ p + (2 + j) = p + 2 + j
      BY <2>1, <2>2
    <3>2. b[p + (2 + j)] = w[2 + j]
      BY <2>3, <3>1
    <3> QED
      BY <2>1, <3>1, <3>2
  <2>6. places[i] = p + 2 + c
    BY <2>1, <2>2
  <2> QED
    BY <2>1, <2>4, <2>5, <2>6 DEF s, p, c
<1>9. AreAt(places, subs, b)
  BY <1>4, <1>5, <1>6, <1>8 DEF AreAt, n
<1>10. b = Ended(subs)
  BY DEF b, flat, l, t, Ended
<1> QED
  BY <1>9, <1>10

ArePlain(subs) ==
  \A i \in 1..Len(subs) :
    /\ subs[i].code # SubfieldDelimiter
    /\ \A j \in 1..Len(subs[i].content) :
         subs[i].content[j] # SubfieldDelimiter /\ subs[i].content[j] # FieldTerminator

(* Plain subfields have delimiters where they begin, and nowhere else.     *)
LEMMA DelimitersAre ==
  ASSUME NEW subs \in Seq(Subfield), ArePlain(subs), NEW bytes, NEW places,
         AreAt(places, subs, bytes)
  PROVE  /\ Delimited(bytes) = {places[i - 1] + 1 : i \in 1..Len(subs)}
         /\ Count(bytes) = Len(subs)
<1> DEFINE n == Len(subs)
           g == [i \in 1..n |-> places[i - 1] + 1]
           P == {places[i - 1] + 1 : i \in 1..n}
<1>1. /\ n \in Nat /\ places \in [0..n -> Nat] /\ places[0] = 0
      /\ bytes \in Seq(Byte) /\ Len(bytes) = places[n] + 1 /\ DOMAIN bytes = 1..(places[n] + 1)
      /\ bytes[places[n] + 1] = FieldTerminator
      /\ \A i \in 1..n :
           /\ Len(subs[i].content) \in Nat
           /\ places[i] = places[i - 1] + 2 + Len(subs[i].content)
           /\ bytes[places[i - 1] + 1] = SubfieldDelimiter
           /\ bytes[places[i - 1] + 2] = subs[i].code
           /\ \A j \in 1..Len(subs[i].content) :
                bytes[places[i - 1] + 2 + j] = subs[i].content[j]
  <2>1. bytes \in Seq(Byte) /\ Len(bytes) = places[n] + 1 /\ n \in Nat
    BY LenProperties DEF AreAt
  <2>2. DOMAIN bytes = 1..(places[n] + 1)
    BY <2>1, LenProperties
  <2> HIDE DEF n
  <2> QED
    BY <2>1, <2>2 DEF AreAt, n
<1>2. \A i \in 1..n :
        /\ subs[i].code # SubfieldDelimiter
        /\ \A j \in 1..Len(subs[i].content) : subs[i].content[j] # SubfieldDelimiter
  BY DEF ArePlain
<1> HIDE DEF n
<1>3. \A i \in 1..n : places[i - 1] <= places[i] /\ i - 1 \in 0..n /\ places[i - 1] + 2 <= places[i]
  <2> SUFFICES ASSUME NEW i \in 1..n
               PROVE places[i - 1] <= places[i] /\ i - 1 \in 0..n /\ places[i - 1] + 2 <= places[i]
    OBVIOUS
  <2>1. i - 1 \in 0..n /\ Len(subs[i].content) \in Nat
    BY <1>1
  <2>2. places[i - 1] \in Nat /\ places[i] = places[i - 1] + 2 + Len(subs[i].content)
    BY <1>1, <2>1
  <2> QED
    BY <2>1, <2>2
<1>4. ASSUME NEW i \in 1..n, NEW j \in 1..n, i < j
      PROVE  places[i - 1] + 2 <= places[j - 1]
  <2>1. i \in 0..n /\ j - 1 \in i..n /\ i - 1 \in 0..n /\ j - 1 \in 0..n
    BY <1>1, <1>4
  <2>2. places[i] <= places[j - 1]
    BY <1>1, <1>3, <2>1, Grows
  <2>3. places[i - 1] \in Nat /\ places[i] \in Nat /\ places[j - 1] \in Nat
    BY <1>1, <2>1
  <2> QED
    BY <1>3, <2>2, <2>3
<1>5. P \subseteq Delimited(bytes)
  <2> SUFFICES ASSUME NEW i \in 1..n PROVE places[i - 1] + 1 \in Delimited(bytes)
    OBVIOUS
  <2>1. i \in 0..n /\ n \in i..n /\ i - 1 \in 0..n /\ n \in 0..n
    BY <1>1
  <2>2. places[i] <= places[n]
    BY <1>1, <1>3, <2>1, Grows
  <2>3. places[i - 1] \in Nat /\ places[i] \in Nat /\ places[n] \in Nat
    BY <1>1, <2>1
  <2>4. places[i - 1] + 1 \in 1..(places[n] + 1)
    BY <1>3, <2>2, <2>3
  <2> QED
    BY <1>1, <2>4 DEF Delimited
<1>6. ASSUME NEW p \in Delimited(bytes) PROVE p \in P
  <2>1. p \in 1..(places[n] + 1) /\ bytes[p] = SubfieldDelimiter /\ places[n] \in Nat
    <3>1. n \in 0..n
      BY <1>1
    <3> QED
      BY <1>1, <3>1 DEF Delimited
  <2>2. p \in 1..places[n]
    BY <1>1, <2>1, Delimiters
  <2>3. PICK i \in 1..n : places[i - 1] < p /\ p <= places[i]
    BY <1>1, <2>2, PieceOf
  <2> DEFINE q == places[i - 1]
             c == Len(subs[i].content)
  <2>4. q \in Nat /\ c \in Nat /\ places[i] = q + 2 + c
    BY <1>1, <1>3
  <2>5. /\ bytes[q + 2] # SubfieldDelimiter
        /\ \A j \in 1..c : bytes[q + 2 + j] # SubfieldDelimiter
    BY <1>1, <1>2
  <2> HIDE DEF q, c
  <2>6. q < p /\ p <= q + 2 + c
    BY <2>3, <2>4 DEF q
  <2>7. p # q + 2
    BY <2>1, <2>5
  <2>8. ~(p > q + 2)
    <3> SUFFICES ASSUME p > q + 2 PROVE FALSE
      OBVIOUS
    <3> DEFINE j == p - q - 2
    <3>1. j \in 1..c /\ q + 2 + j = p
      BY <2>1, <2>4, <2>6
    <3> HIDE DEF j
    <3> QED
      BY <2>1, <2>5, <3>1
  <2>9. p = q + 1
    BY <2>1, <2>4, <2>6, <2>7, <2>8
  <2> QED
    BY <2>9 DEF q
<1>7. Delimited(bytes) = P
  BY <1>5, <1>6
<1>8. g \in Bijection(1..n, P)
  <2>1. g \in [1..n -> P]
    OBVIOUS
  <2>2. \A i \in 1..n : g[i] = places[i - 1] + 1 /\ places[i - 1] \in Nat
    BY <1>1, <1>3
  <2>3. ASSUME NEW i \in 1..n, NEW j \in 1..n, i # j PROVE g[i] # g[j]
    <3>1. i < j \/ j < i
      BY <1>1, <2>3
    <3>2. places[i - 1] # places[j - 1]
      BY <1>4, <2>2, <3>1
    <3> QED
      BY <2>2, <3>2
  <2>4. \A p \in P : \E i \in 1..n : g[i] = p
    BY <2>2
  <2> HIDE DEF g, P
  <2> QED
    BY <2>1, <2>3, <2>4 DEF Bijection, Injection, Surjection, IsInjective
<1>9. Cardinality(P) = n
  <2>1. IsFiniteSet(1..n) /\ Cardinality(1..n) = n
    BY <1>1, FS_Interval
  <2>2. ExistsBijection(1..n, P)
    BY <1>8 DEF ExistsBijection
  <2> HIDE DEF P
  <2> QED
    BY <2>1, <2>2, FS_Bijection
<1> QED
  BY <1>7, <1>9 DEF Count, n

(* The least end after a plain subfield is the place of the next one.      *)
LEMMA PlainEnd ==
  ASSUME NEW subs \in Seq(Subfield), ArePlain(subs), NEW bytes, NEW places,
         AreAt(places, subs, bytes), NEW k \in 1..Len(subs), NEW end,
         IsEnd(end, bytes, places[k - 1] + 1)
  PROVE  end = places[k] + 1
<1> DEFINE n == Len(subs)
           q == places[k - 1]
           c == Len(subs[k].content)
<1>1. /\ n \in Nat /\ places \in [0..n -> Nat] /\ bytes \in Seq(Byte)
      /\ Len(bytes) = places[n] + 1 /\ bytes[places[n] + 1] = FieldTerminator
      /\ \A i \in 1..n : /\ Len(subs[i].content) \in Nat
                         /\ places[i] = places[i - 1] + 2 + Len(subs[i].content)
                         /\ bytes[places[i - 1] + 1] = SubfieldDelimiter
  BY LenProperties DEF AreAt
<1>2. \A i \in 1..n : places[i - 1] <= places[i]
  <2> SUFFICES ASSUME NEW i \in 1..n PROVE places[i - 1] <= places[i]
    OBVIOUS
  <2>1. Len(subs[i].content) \in Nat /\ i - 1 \in 0..n
    BY <1>1
  <2>2. places[i - 1] \in Nat /\ places[i] = places[i - 1] + 2 + Len(subs[i].content)
    BY <1>1, <2>1
  <2> QED
    BY <2>1, <2>2
<1>3. \A j \in 1..c : bytes[q + 2 + j] # SubfieldDelimiter /\ bytes[q + 2 + j] # FieldTerminator
  <2>1. \A j \in 1..c : bytes[q + 2 + j] = subs[k].content[j]
    BY DEF AreAt
  <2>2. \A j \in 1..c : /\ subs[k].content[j] # SubfieldDelimiter
                         /\ subs[k].content[j] # FieldTerminator
    BY DEF ArePlain
  <2> HIDE DEF c, q
  <2> QED
    BY <2>1, <2>2
<1>4. q \in Nat /\ c \in Nat /\ places[k] = q + 2 + c
  <2>1. k - 1 \in 0..n
    BY <1>1
  <2> QED
    BY <1>1, <2>1
<1>5. places[k] + 1 \in Ends(bytes, q + 1)
  <2>1. k \in 0..n /\ n \in k..n /\ n \in 0..n
    BY <1>1
  <2>2. places[k] <= places[n] /\ places[n] \in Nat /\ places[k] \in Nat
    BY <1>1, <1>2, <2>1, Grows
  <2>3. places[k] + 1 \in ((q + 1) + 2)..Len(bytes)
    BY <1>1, <1>4, <2>2
  <2>4. bytes[places[k] + 1] \in {SubfieldDelimiter, FieldTerminator}
    <3>1. CASE k = n
      BY <1>1, <3>1
    <3>2. CASE k # n
      <4>1. k + 1 \in 1..n /\ (k + 1) - 1 = k
        BY <1>1, <3>2
      <4> QED
        BY <1>1, <4>1
    <3> QED
      BY <3>1, <3>2
  <2> QED
    BY <2>3, <2>4 DEF Ends
<1>6. /\ end \in ((q + 1) + 2)..Len(bytes) /\ end <= places[k] + 1
      /\ bytes[end] \in {SubfieldDelimiter, FieldTerminator}
  BY <1>5 DEF IsEnd, Ends
<1>7. ~(end < places[k] + 1)
  <2> SUFFICES ASSUME end < places[k] + 1 PROVE FALSE
    OBVIOUS
  <2> DEFINE j == end - q - 2
  <2>1. end \in Int
    BY <1>6
  <2> HIDE DEF q, c
  <2>2. j \in 1..c /\ q + 2 + j = end
    BY <1>4, <1>6, <2>1
  <2> HIDE DEF j
  <2> QED
    BY <1>3, <1>6, <2>2
<1>8. end \in Int
  BY <1>6
<1> HIDE DEF q, c
<1> QED
  BY <1>4, <1>6, <1>7, <1>8

ReadUpTo(places, subs, k) ==
  [at |-> places[k] + 1, ok |-> TRUE, subfields |-> SubSeq(subs, 1, k)]

(* A subfield without delimiters is read as it was written.                *)
LEMMA PlainSubfieldIsRead ==
  ASSUME NEW subs \in Seq(Subfield), ArePlain(subs), NEW bytes, NEW places,
         AreAt(places, subs, bytes), NEW k \in 1..Len(subs)
  PROVE  SubfieldRead(bytes, ReadUpTo(places, subs, k - 1)) = ReadUpTo(places, subs, k)
<1> DEFINE n == Len(subs)
           q == places[k - 1]
           c == Len(subs[k].content)
           read == ReadUpTo(places, subs, k - 1)
           old == SubSeq(subs, 1, k - 1)
           x(end) == [code |-> bytes[read.at + 1], content |-> SubSeq(bytes, read.at + 2, end - 1)]
<1>1. /\ n \in Nat /\ k - 1 \in 0..n /\ q \in Nat /\ c \in Nat /\ places[k] = q + 2 + c
      /\ bytes \in Seq(Byte) /\ places[k] \in Nat
      /\ bytes[q + 1] = SubfieldDelimiter /\ bytes[q + 2] = subs[k].code
      /\ \A j \in 1..c : bytes[q + 2 + j] = subs[k].content[j]
  <2>1. n \in Nat /\ k - 1 \in 0..n /\ k \in 0..n
    BY LenProperties
  <2> QED
    BY <2>1 DEF AreAt
<1>2. old \in Seq(Subfield)
  <2>1. \A i \in 1..n : subs[i] \in Subfield
    BY ElementOfSeq
  <2>2. 1 \in Int /\ k - 1 \in Int /\ \A i \in 1..(k - 1) : subs[i] \in Subfield
    BY <1>1, <2>1
  <2> QED
    BY <2>2, SubSeqProperties
<1> HIDE DEF old
<1>3. read = [at |-> q + 1, ok |-> TRUE, subfields |-> old]
  BY DEF ReadUpTo, old
<1> HIDE DEF read
<1>4. read \in Progress /\ read.at = q + 1 /\ read.ok /\ read.subfields = old
  <2>1. q + 1 \in Nat \ {0}
    BY <1>1
  <2> HIDE DEF q
  <2> QED
    BY <1>2, <1>3, <2>1 DEF Progress
<1>5. Ends(bytes, read.at) # {}
  <2>1. places[k] + 1 \in Ends(bytes, q + 1)
    <3>1. n \in 0..n /\ k \in 0..n /\ n \in k..n
      BY <1>1
    <3>2. /\ places \in [0..n -> Nat] /\ Len(bytes) = places[n] + 1
          /\ bytes[places[n] + 1] = FieldTerminator
          /\ \A i \in 1..n : /\ Len(subs[i].content) \in Nat
                             /\ places[i] = places[i - 1] + 2 + Len(subs[i].content)
                             /\ bytes[places[i - 1] + 1] = SubfieldDelimiter
      BY DEF AreAt
    <3>3. \A i \in 1..n : places[i - 1] <= places[i]
      <4> SUFFICES ASSUME NEW i \in 1..n PROVE places[i - 1] <= places[i]
        OBVIOUS
      <4>1. Len(subs[i].content) \in Nat /\ i - 1 \in 0..n
        BY <1>1, <3>2
      <4>2. places[i - 1] \in Nat /\ places[i] = places[i - 1] + 2 + Len(subs[i].content)
        BY <3>2, <4>1
      <4> QED
        BY <4>1, <4>2
    <3>4. places[k] <= places[n] /\ places[n] \in Nat
      BY <1>1, <3>1, <3>2, <3>3, Grows
    <3>5. places[k] + 1 \in ((q + 1) + 2)..Len(bytes)
      <4> HIDE DEF q, c
      <4> QED
        BY <1>1, <3>2, <3>4
    <3>6. bytes[places[k] + 1] \in {SubfieldDelimiter, FieldTerminator}
      <4>1. CASE k = n
        BY <3>2, <4>1
      <4>2. CASE k # n
        <5>1. k + 1 \in 1..n /\ (k + 1) - 1 = k
          BY <1>1, <4>2
        <5> QED
          BY <3>2, <5>1
      <4> QED
        BY <4>1, <4>2
    <3> QED
      BY <3>5, <3>6 DEF Ends
  <2> QED
    BY <1>4, <2>1
<1>6. PICK end :
        /\ IsEnd(end, bytes, read.at)
        /\ SubfieldRead(bytes, read)
             = [at |-> end, ok |-> TRUE, subfields |-> Append(read.subfields, x(end))]
  <2>1. \/ \E end :
              /\ IsEnd(end, bytes, read.at) /\ read.ok
              /\ bytes[read.at] = SubfieldDelimiter
              /\ SubfieldRead(bytes, read)
                   = [at |-> end, ok |-> TRUE, subfields |-> Append(read.subfields, x(end))]
        \/ ~(read.ok /\ bytes[read.at] = SubfieldDelimiter /\ Ends(bytes, read.at) # {})
    BY <1>1, <1>4, SubfieldReadIs
  <2> HIDE DEF x
  <2> QED
    BY <1>1, <1>4, <1>5, <2>1
<1>7. end = places[k] + 1
  <2>1. IsEnd(end, bytes, places[k - 1] + 1)
    BY <1>4, <1>6
  <2> QED
    BY <2>1, PlainEnd
<1>8. x(end) = subs[k]
  <2> DEFINE s == x(end)
             at == q + 1
  <2>1. /\ s \in Subfield /\ Len(s.content) = end - 1 - (at + 2) + 1
        /\ s.code = bytes[at + 1]
        /\ \A j \in 1..(end - 1 - (at + 2) + 1) : s.content[j] = bytes[at + 2 + j - 1]
    <3>1. s = [code |-> bytes[at + 1], content |-> SubSeq(bytes, at + 2, end - 1)]
      BY <1>4
    <3>2. at \in Nat \ {0} /\ IsEnd(end, bytes, at)
      BY <1>1, <1>4, <1>6
    <3> HIDE DEF s, at
    <3> QED
      BY <1>1, <3>1, <3>2, SubfieldBetween
  <2>2. subs[k] \in Subfield
    BY ElementOfSeq
  <2> HIDE DEF s, q
  <2>3. end - 1 - (at + 2) + 1 = c /\ at + 1 = q + 2
    <3> HIDE DEF c
    <3> QED
      BY <1>1, <1>7
  <2>4. s.code = subs[k].code /\ Len(s.content) = c
    BY <1>1, <2>1, <2>3
  <2>5. \A j \in 1..c : s.content[j] = subs[k].content[j]
    <3> SUFFICES ASSUME NEW j \in 1..c PROVE s.content[j] = subs[k].content[j]
      OBVIOUS
    <3>1. at + 2 + j - 1 = q + 2 + j
      BY <1>1
    <3>2. s.content[j] = bytes[at + 2 + j - 1]
      BY <2>1, <2>3
    <3> HIDE DEF c
    <3> QED
      BY <1>1, <3>1, <3>2
  <2>6. s.content = subs[k].content
    <3>1. s.content \in Seq(Byte) /\ subs[k].content \in Seq(Byte)
      BY <2>1, <2>2 DEF Subfield
    <3> QED
      BY <2>4, <2>5, <3>1, SeqEqual
  <2>7. s = subs[k]
    BY <2>1, <2>2, <2>4, <2>6 DEF Subfield
  <2> QED
    BY <2>7 DEF s
<1>9. Append(old, subs[k]) = SubSeq(subs, 1, k)
  <2> DEFINE new == SubSeq(subs, 1, k)
             a == Append(old, subs[k])
  <2>1. n \in Nat /\ k \in 1..n /\ \A i \in 1..n : subs[i] \in Subfield
    BY <1>1, ElementOfSeq
  <2>2. /\ new \in Seq(Subfield) /\ Len(new) = k /\ \A i \in 1..k : new[i] = subs[i]
    <3>1. 1 \in Int /\ k \in Int /\ \A i \in 1..k : subs[i] \in Subfield
      BY <2>1
    <3>2. /\ new \in Seq(Subfield) /\ Len(new) = (IF 1 <= k THEN k - 1 + 1 ELSE 0)
          /\ \A i \in 1..(k - 1 + 1) : new[i] = subs[1 + i - 1]
      BY <3>1, SubSeqProperties
    <3> HIDE DEF new
    <3> QED
      BY <2>1, <3>2
  <2>3. /\ Len(old) = k - 1 /\ \A i \in 1..(k - 1) : old[i] = subs[i]
    <3>1. 1 \in Int /\ k - 1 \in Int /\ \A i \in 1..(k - 1) : subs[i] \in Subfield
      BY <2>1
    <3>2. /\ Len(old) = (IF 1 <= k - 1 THEN k - 1 - 1 + 1 ELSE 0)
          /\ \A i \in 1..(k - 1 - 1 + 1) : old[i] = subs[1 + i - 1]
      BY <3>1, SubSeqProperties DEF old
    <3> QED
      BY <2>1, <3>2
  <2>4. /\ a \in Seq(Subfield) /\ Len(a) = Len(old) + 1
        /\ \A i \in 1..Len(old) : a[i] = old[i]
        /\ a[Len(old) + 1] = subs[k]
    BY <1>2, <2>1, AppendProperties
  <2> HIDE DEF a, new
  <2>5. Len(a) = k /\ a[k] = subs[k] /\ \A i \in 1..(k - 1) : a[i] = subs[i]
    <3>1. Len(old) + 1 = k
      BY <2>1, <2>3
    <3> QED
      BY <2>3, <2>4, <3>1
  <2>6. \A i \in 1..k : a[i] = new[i]
    <3>1. \A i \in 1..k : i = k \/ i \in 1..(k - 1)
      BY <2>1
    <3> QED
      BY <2>2, <2>5, <3>1
  <2>7. a = new
    BY <2>2, <2>4, <2>5, <2>6, SeqEqual
  <2> QED
    BY <2>7 DEF a, new
<1> HIDE DEF x
<1>10. SubfieldRead(bytes, read) = [at |-> places[k] + 1, ok |-> TRUE,
                                    subfields |-> SubSeq(subs, 1, k)]
  BY <1>4, <1>6, <1>7, <1>8, <1>9
<1> QED
  BY <1>10 DEF ReadUpTo, read

(* Plain subfields are read as they were written.                          *)
LEMMA PlainAreRead ==
  ASSUME NEW subs \in Seq(Subfield), ArePlain(subs)
  PROVE  SubfieldsRead(Ended(subs)).ok /\ SubfieldsRead(Ended(subs)).subfields = subs
<1> DEFINE bytes == Ended(subs)
           n == Len(subs)
<1>1. PICK places : AreAt(places, subs, bytes)
  BY EndedIs
<1> HIDE DEF bytes
<1>2. /\ bytes \in Seq(Byte) /\ n \in Nat /\ places[0] = 0
      /\ Len(bytes) = places[n] + 1 /\ bytes[places[n] + 1] = FieldTerminator
  BY <1>1, LenProperties DEF AreAt
<1>3. Count(bytes) = n
  BY <1>1, DelimitersAre
<1>4. PICK read : AreReads(read, bytes) /\ IsReadWith(read, bytes)
  BY <1>2, ReadsExist
<1>5. read[0] = Start /\ \A k \in 1..n : read[k] = SubfieldRead(bytes, read[k - 1])
  BY <1>3, <1>4 DEF AreReads
<1> DEFINE T == {k \in 0..n : read[k] = ReadUpTo(places, subs, k)}
<1>6. 0 \in T
  <2>1. SubSeq(subs, 1, 0) = << >>
    BY SubSeqEmpty
  <2>2. ReadUpTo(places, subs, 0) = Start
    <3>1. places[0] + 1 = 1
      BY <1>2
    <3> QED
      BY <2>1, <3>1 DEF ReadUpTo, Start
  <2> QED
    BY <1>2, <1>5, <2>2
<1>7. ASSUME NEW k \in 1..n, k - 1 \in T PROVE k \in T
  <2>1. read[k - 1] = ReadUpTo(places, subs, k - 1)
    BY <1>7
  <2>2. SubfieldRead(bytes, ReadUpTo(places, subs, k - 1)) = ReadUpTo(places, subs, k)
    BY <1>1, PlainSubfieldIsRead
  <2> QED
    BY <1>2, <1>5, <2>1, <2>2
<1> HIDE DEF T
<1>8. \A k \in 0..n : k \in T
  BY <1>2, <1>6, <1>7, UpTo
<1>9. read[n] = ReadUpTo(places, subs, n)
  <2>1. n \in T
    BY <1>2, <1>8
  <2> QED
    BY <2>1 DEF T
<1>10. SubSeq(subs, 1, n) = subs
  <2>1. 1 \in Int /\ n \in Int /\ \A i \in 1..n : subs[i] \in Subfield
    BY <1>2, ElementOfSeq
  <2> DEFINE s == SubSeq(subs, 1, n)
  <2>2. /\ s \in Seq(Subfield) /\ Len(s) = (IF 1 <= n THEN n - 1 + 1 ELSE 0)
        /\ \A i \in 1..(n - 1 + 1) : s[i] = subs[1 + i - 1]
    BY <2>1, SubSeqProperties
  <2> HIDE DEF s
  <2>3. Len(s) = n /\ \A i \in 1..n : s[i] = subs[i]
    <3> HIDE DEF n
    <3> QED
      BY <1>2, <2>2
  <2>4. s = subs
    BY <2>2, <2>3, SeqEqual
  <2> QED
    BY <2>4 DEF s
<1>11. SubfieldsRead(bytes)
         = [read[n] EXCEPT !.ok = @ /\ read[n].at = Len(bytes) /\ bytes[read[n].at] = FieldTerminator]
  BY <1>3, <1>4 DEF IsReadWith
<1>12. read[n] = [at |-> places[n] + 1, ok |-> TRUE, subfields |-> subs]
  BY <1>9, <1>10 DEF ReadUpTo
<1>13. SubfieldsRead(bytes).ok /\ SubfieldsRead(bytes).subfields = subs
  <2> DEFINE last == read[n]
  <2>1. last.at = Len(bytes) /\ last.ok = TRUE /\ last.subfields = subs
    BY <1>2, <1>12
  <2>2. DOMAIN last = {"at", "ok", "subfields"}
    BY <1>12
  <2>3. bytes[last.at] = FieldTerminator
    BY <1>2, <2>1
  <2>4. SubfieldsRead(bytes)
          = [last EXCEPT !.ok = @ /\ last.at = Len(bytes) /\ bytes[last.at] = FieldTerminator]
    BY <1>11
  <2> HIDE DEF last
  <2> QED
    BY <2>1, <2>2, <2>3, <2>4
<1> QED
  BY <1>13 DEF bytes

(* A data field's bytes are its indicators and what follows them.          *)
LEMMA DataFieldEnds ==
  ASSUME NEW f \in Whole, IsDataField(f)
  PROVE  /\ f.indicators \in Seq(Byte) /\ Len(f.indicators) = 2
         /\ f.subfields \in Seq(Subfield)
         /\ Ended(f.subfields) \in Seq(Byte) /\ Len(Ended(f.subfields)) \in Nat \ {0}
         /\ FieldWrite(f) = f.indicators \o Ended(f.subfields)
         /\ FieldWrite(f) \in Seq(Byte)
         /\ Len(FieldWrite(f)) = 2 + Len(Ended(f.subfields))
<1> DEFINE ind == f.indicators
           flat == FlattenSeq(Laid(f.subfields))
           t == <<FieldTerminator>>
<1>1. f \in Field /\ HasItsParts(f) /\ ~IsControlField(f)
  BY NotBoth DEF Whole
<1>2. /\ ind \in Seq(Byte) /\ f.subfields \in Seq(Subfield)
      /\ FieldWrite(f) = (ind \o flat) \o t
  BY <1>1, DataFieldIs
<1>3. Len(ind) = 2
  BY <1>1 DEF HasItsParts, IndicatorsLength
<1>4. flat \in Seq(Byte)
  BY <1>2, LaidIs, FlattenIs
<1>5. t \in Seq(Byte) /\ Len(t) = 1
  BY Delimiters
<1> HIDE DEF ind, flat, t
<1>6. (ind \o flat) \o t = ind \o (flat \o t)
  BY <1>2, <1>4, <1>5, ConcatAssociative
<1>7. flat \o t \in Seq(Byte) /\ Len(flat \o t) = Len(flat) + Len(t) /\ Len(flat) \in Nat
  BY <1>4, <1>5, BesideBytes, LenProperties
<1> DEFINE e == flat \o t
<1>8. e \in Seq(Byte) /\ Len(e) \in Nat \ {0}
  BY <1>5, <1>7
<1> HIDE DEF e
<1>9. ind \o e \in Seq(Byte) /\ Len(ind \o e) = Len(ind) + Len(e)
  BY <1>2, <1>8, BesideBytes
<1>10. e = Ended(f.subfields) /\ FieldWrite(f) = ind \o e
  BY <1>2, <1>6 DEF e, flat, t, Ended
<1> QED
  BY <1>2, <1>3, <1>8, <1>9, <1>10 DEF ind

(* What is somewhere in bytes can be cut out there.                        *)
LEMMA SliceAtBytes ==
  ASSUME NEW whole \in Seq(Byte), NEW part \in Seq(Byte), NEW at \in Nat, IsAt(part, at, whole)
  PROVE  Bytes(whole, at, Len(part)) = part
BY SliceAt

(* What is read of a field from its bytes.                                 *)
Reread(f) == [f EXCEPT !.subfields = SubfieldsRead(Ended(f.subfields)).subfields]

(* A control field is read as it was written.                              *)
LEMMA ControlFieldIsRead ==
  ASSUME NEW f \in Whole, IsControlField(f), NEW entry, entry.tag = f.tag
  PROVE  ControlFieldRead(entry, FieldWrite(f)) = f
<1> DEFINE v == f.value
           t == <<FieldTerminator>>
           w == FieldWrite(f)
<1>1. f \in Field /\ f.indicators = << >> /\ f.subfields = << >>
  BY NotBoth DEF Whole, HasItsParts
<1>2. v \in Seq(Byte) /\ Len(v) \in Nat /\ w = v \o t
  BY <1>1, ControlFieldIs
<1>3. t \in Seq(Byte) /\ Len(t) = 1
  BY Delimiters
<1>4. ControlFieldRead(entry, w)
        = [tag |-> f.tag, value |-> SubSeq(w, 1, Len(w) - 1), indicators |-> << >>,
           subfields |-> << >>]
  BY DEF ControlFieldRead
<1> HIDE DEF v, t, w
<1>5. w \in Seq(Byte) /\ Len(w) = Len(v) + Len(t) /\ \A j \in 1..Len(v) : w[j] = v[j]
  BY <1>2, <1>3, BesideBytes
<1>6. IsAt(v, 0, w)
  BY <1>2, <1>3, <1>5 DEF IsAt
<1>7. Bytes(w, 0, Len(v)) = v
  BY <1>2, <1>5, <1>6, SliceAtBytes
<1>8. SubSeq(w, 1, Len(w) - 1) = v
  <2>1. 0 + 1 = 1 /\ 0 + Len(v) = Len(w) - 1
    BY <1>2, <1>3, <1>5
  <2> QED
    BY <1>7, <2>1 DEF Bytes
<1>9. f = [tag |-> f.tag, value |-> f.value, indicators |-> f.indicators,
           subfields |-> f.subfields]
  BY <1>1 DEF Field
<1> QED
  BY <1>1, <1>4, <1>8, <1>9 DEF v, w

(* A data field is read as it was written, but for its subfields.          *)
LEMMA ContentFieldIsRead ==
  ASSUME NEW f \in Whole, IsDataField(f), NEW entry, entry.tag = f.tag
  PROVE  /\ AfterIndicators(FieldWrite(f)) = Ended(f.subfields)
         /\ ContentFieldRead(entry, FieldWrite(f)) = Reread(f)
<1> DEFINE ind == f.indicators
           e == Ended(f.subfields)
           w == FieldWrite(f)
<1>1. f \in Field /\ f.value = << >>
  BY DEF Whole, HasItsParts
<1>2. /\ ind \in Seq(Byte) /\ Len(ind) = 2
      /\ e \in Seq(Byte) /\ Len(e) \in Nat
      /\ w = ind \o e /\ w \in Seq(Byte) /\ Len(w) = 2 + Len(e)
  BY DataFieldEnds
<1>3. AfterIndicators(w) = Bytes(w, 2, Len(w) - 2)
  BY DEF AfterIndicators, IndicatorsLength
<1>4. ContentFieldRead(entry, w)
        = [tag |-> f.tag, value |-> << >>, indicators |-> Bytes(w, 0, 2),
           subfields |-> SubfieldsRead(AfterIndicators(w)).subfields]
  BY DEF ContentFieldRead, IndicatorsLength
<1> HIDE DEF ind, e, w
<1>5. /\ \A j \in 1..Len(ind) : w[j] = ind[j]
      /\ \A j \in 1..Len(e) : w[Len(ind) + j] = e[j]
  BY <1>2, BesideBytes
<1>6. IsAt(ind, 0, w) /\ IsAt(e, 2, w)
  BY <1>2, <1>5 DEF IsAt
<1>7. Bytes(w, 0, Len(ind)) = ind /\ Bytes(w, 2, Len(e)) = e
  <2>1. 0 \in Nat /\ 2 \in Nat
    OBVIOUS
  <2> QED
    BY <1>2, <1>6, <2>1, SliceAtBytes
<1>8. Len(w) - 2 = Len(e)
  BY <1>2
<1>9. AfterIndicators(w) = e /\ Bytes(w, 0, 2) = ind
  BY <1>2, <1>3, <1>7, <1>8
<1>10. f = [tag |-> f.tag, value |-> f.value, indicators |-> f.indicators,
            subfields |-> f.subfields]
  BY <1>1 DEF Field
<1>11. Reread(f) = [tag |-> f.tag, value |-> f.value, indicators |-> f.indicators,
                    subfields |-> SubfieldsRead(e).subfields]
  <2> DEFINE x == SubfieldsRead(e).subfields
  <2>1. Reread(f) = [f EXCEPT !.subfields = x]
    BY DEF Reread, e
  <2> HIDE DEF x
  <2>2. [f EXCEPT !.subfields = x]
          = [tag |-> f.tag, value |-> f.value, indicators |-> f.indicators, subfields |-> x]
    BY <1>1 DEF Field
  <2> QED
    BY <2>1, <2>2 DEF x
<1> QED
  BY <1>1, <1>4, <1>9, <1>11 DEF w, e, ind

(* A field that is read with other subfields has the same bytes.           *)
LEMMA RereadIsWritten ==
  ASSUME NEW f \in Whole, IsDataField(f), SubfieldsRead(Ended(f.subfields)).ok
  PROVE  /\ Reread(f) \in Whole /\ IsDataField(Reread(f)) /\ Reread(f).tag = f.tag
         /\ FieldWrite(Reread(f)) = FieldWrite(f)
         /\ FieldWriteSize(Reread(f)) = FieldWriteSize(f)
<1> DEFINE e == Ended(f.subfields)
           x == SubfieldsRead(e).subfields
           g == Reread(f)
<1>1. /\ f \in Field /\ f.value = << >> /\ Len(f.indicators) = IndicatorsLength
  BY DEF Whole, HasItsParts
<1>2. /\ e \in Seq(Byte) /\ FieldWrite(f) = f.indicators \o e
  BY DataFieldEnds
<1>3. x \in Seq(Subfield) /\ Ended(x) = e
  BY <1>2, SubfieldsReadAreExact DEF Ended
<1>4. g = [f EXCEPT !.subfields = x]
  BY DEF Reread
<1> HIDE DEF g, x
<1>5. /\ g \in Field /\ g.tag = f.tag /\ g.value = f.value /\ g.indicators = f.indicators
      /\ g.subfields = x
  BY <1>1, <1>3, <1>4 DEF Field
<1>6. IsDataField(g) /\ g \in Whole
  BY <1>1, <1>5 DEF IsDataField, Whole, HasItsParts
<1>7. FieldWrite(g) = g.indicators \o Ended(g.subfields)
  BY <1>6, DataFieldEnds
<1>8. FieldWrite(g) = FieldWrite(f)
  BY <1>2, <1>3, <1>5, <1>7
<1>9. FieldWriteSize(g) = FieldWriteSize(f)
  <2>1. Len(FieldWrite(g)) = FieldWriteSize(g) /\ Len(FieldWrite(f)) = FieldWriteSize(f)
    BY <1>6, FieldWriteIs
  <2> QED
    BY <1>8, <2>1
<1> QED
  BY <1>5, <1>6, <1>8, <1>9 DEF g

(* A data field of subfields without delimiters is read as it was written. *)
LEMMA PlainIsReread ==
  ASSUME NEW f \in Whole, IsDataField(f), ArePlain(f.subfields)
  PROVE  SubfieldsRead(Ended(f.subfields)).ok /\ Reread(f) = f
<1>1. f \in Field /\ f.subfields \in Seq(Subfield)
  BY DataFieldEnds DEF Whole
<1>2. /\ SubfieldsRead(Ended(f.subfields)).ok
      /\ SubfieldsRead(Ended(f.subfields)).subfields = f.subfields
  BY <1>1, PlainAreRead
<1>3. [f EXCEPT !.subfields = f.subfields] = f
  BY <1>1 DEF Field
<1> QED
  BY <1>2, <1>3 DEF Reread

(* The bytes of a field are where its entry says.                          *)
LEMMA FieldIsFound ==
  ASSUME NEW marc, NEW a, IsInOrder(marc, a), NEW whole, IsLaidOut(whole, marc),
         NEW i \in 1..Len(marc), NEW entry, entry.length = FieldWriteSize(marc[i]),
         entry.location = Location(marc, i)
  PROVE  FieldBytes(whole, FieldsLocation(Len(marc)), entry) = FieldWrite(marc[i])
<1> DEFINE w == FieldWrite(marc[i])
           at == FieldsLocation(Len(marc)) + Location(marc, i)
<1>1. w \in Seq(Byte) /\ Len(w) = FieldWriteSize(marc[i])
  <2>1. marc[i] \in Whole /\ (IsControlField(marc[i]) \/ IsDataField(marc[i]))
    BY SortedFields
  <2> QED
    BY <2>1, FieldWriteIs
<1>2. at \in Nat
  BY LocationIs, WriteSizeIs
<1>3. whole \in Seq(Byte) /\ IsAt(w, at, whole)
  BY DEF IsLaidOut
<1>4. FieldBytes(whole, FieldsLocation(Len(marc)), entry) = Bytes(whole, at, FieldWriteSize(marc[i]))
  BY DEF FieldBytes
<1> HIDE DEF w, at
<1>5. Bytes(whole, at, Len(w)) = w
  BY <1>1, <1>2, <1>3, SliceAtBytes
<1> QED
  BY <1>1, <1>4, <1>5 DEF w

(* The entries of control fields are told by their tags.                   *)
LEMMA ControlEntriesAre ==
  ASSUME NEW marc, NEW a, IsInOrder(marc, a), NEW entries,
         \A i \in 1..Len(marc) : entries[i].tag = marc[i].tag, NEW i \in 1..Len(marc)
  PROVE  IsControlEntry(entries, i) <=> i <= a
<1>1. /\ Len(marc) \in Nat /\ a \in 0..Len(marc)
      /\ \A j \in 1..Len(marc) : /\ IsControlField(marc[j]) <=> j <= a
                                 /\ IsDataField(marc[j]) <=> ~(j <= a)
  BY SortedFields DEF IsInOrder
<1>2. \A j \in 1..i : j \in 1..Len(marc)
  BY <1>1
<1>3. \A j \in 1..Len(marc) : IsReserved(entries[j].tag) <=> j <= a
  BY <1>1 DEF IsControlField, IsDataField
<1>4. IsControlEntry(entries, i) <=> \A j \in 1..i : j <= a
  BY <1>2, <1>3 DEF IsControlEntry
<1>5. (\A j \in 1..i : j <= a) <=> i <= a
  BY <1>1
<1> QED
  BY <1>4, <1>5

(* The location of a field always fits where the length of its record does,*)
(* and its length is read as it was written or not at all.                 *)
LEMMA EntryIsRight ==
  ASSUME NEW marc, NEW a, IsInOrder(marc, a), RecordWriteSize(marc) < PowerOf10(RecordDigits),
         NEW i \in 1..Len(marc)
  PROVE  /\ SizeRead(SizeWrite(Location(marc, i), RecordDigits)) = Location(marc, i)
         /\ SizeRead(SizeWrite(FieldWriteSize(marc[i]), LengthDigits)) # NotFound
              => SizeRead(SizeWrite(FieldWriteSize(marc[i]), LengthDigits)) = FieldWriteSize(marc[i])
         /\ FieldWriteSize(marc[i]) < PowerOf10(LengthDigits)
              => SizeRead(SizeWrite(FieldWriteSize(marc[i]), LengthDigits)) = FieldWriteSize(marc[i])
<1>1. /\ Location(marc, i) \in Nat /\ FieldWriteSize(marc[i]) \in Nat
      /\ Total(FieldSizes(marc)) \in Nat
      /\ Location(marc, i) + FieldWriteSize(marc[i]) <= Total(FieldSizes(marc))
  BY LocationIs
<1>2. /\ RecordWriteSize(marc) = FieldsLocation(Len(marc)) + Total(FieldSizes(marc)) + 1
      /\ FieldsLocation(Len(marc)) \in Nat
  BY WriteSizeIs
<1>3. Location(marc, i) < PowerOf10(RecordDigits)
  BY <1>1, <1>2, RoomIs
<1>4. FieldWriteSize(marc[i]) < 256 * PowerOf10(LengthDigits - 1)
  BY <1>1, <1>2, RoomIs
<1> QED
  BY <1>1, <1>3, <1>4, Numbers, SizeIsReadBack

EntriesAreRight(marc, whole) ==
  /\ DOMAIN EntriesRead(whole) = 1..Len(marc)
  /\ StartRead(whole) = FieldsLocation(Len(marc))
  /\ \A i \in 1..Len(marc) :
       EntriesRead(whole)[i]
         = [tag |-> marc[i].tag,
            length |-> SizeRead(SizeWrite(FieldWriteSize(marc[i]), LengthDigits)),
            location |-> SizeRead(SizeWrite(Location(marc, i), RecordDigits))]

(* The entries of the directory are read where they were written.          *)
LEMMA EntriesAreFound ==
  ASSUME NEW marc, NEW a, IsInOrder(marc, a), NEW whole, IsLaidOut(whole, marc),
         BaseRead(whole) = FieldsLocation(Len(marc))
  PROVE  /\ EntriesAreRight(marc, whole)
         /\ \A i \in 1..Len(marc) : IsControlEntry(EntriesRead(whole), i) <=> i <= a
<1>1. CountRead(whole) = Len(marc) /\ StartRead(whole) = FieldsLocation(Len(marc))
  BY CountIs
<1>2. /\ DOMAIN EntriesRead(whole) = 1..Len(marc)
      /\ \A i \in 1..Len(marc) : EntriesRead(whole)[i] = EntryRead(whole, i)
  BY <1>1 DEF EntriesRead
<1>3. EntriesAreRight(marc, whole)
  BY <1>1, <1>2, EntryIsFound DEF EntriesAreRight
<1>4. \A i \in 1..Len(marc) : EntriesRead(whole)[i].tag = marc[i].tag
  BY <1>3 DEF EntriesAreRight
<1> QED
  BY <1>3, <1>4, ControlEntriesAre

(* What is read of a record that has been laid out.                        *)
ReadOf(marc, a) == [i \in 1..Len(marc) |-> IF i <= a THEN marc[i] ELSE Reread(marc[i])]
DataIsReadable(marc, a) ==
  \A i \in 1..Len(marc) : ~(i <= a) => SubfieldsRead(Ended(marc[i].subfields)).ok

(* With the right entries every field is read from its own bytes.          *)
LEMMA FieldsAreRead ==
  ASSUME NEW marc, NEW a, IsInOrder(marc, a), NEW whole, IsLaidOut(whole, marc),
         RecordWriteSize(marc) < PowerOf10(RecordDigits),
         BaseRead(whole) = FieldsLocation(Len(marc)),
         \A i \in 1..Len(marc) : EntriesRead(whole)[i].length # NotFound
  PROVE  /\ FieldsRead(whole) = ReadOf(marc, a)
         /\ \A i \in 1..Len(marc) : /\ FieldRead(whole, i) = FieldWrite(marc[i])
                                    /\ EntriesRead(whole)[i].length = FieldWriteSize(marc[i])
                                    /\ EntriesRead(whole)[i].location = Location(marc, i)
<1> DEFINE E == EntriesRead(whole)
<1>1. /\ EntriesAreRight(marc, whole)
      /\ \A i \in 1..Len(marc) : IsControlEntry(E, i) <=> i <= a
  BY EntriesAreFound
<1>2. /\ DOMAIN E = 1..Len(marc)
      /\ StartRead(whole) = FieldsLocation(Len(marc))
      /\ \A i \in 1..Len(marc) :
           /\ E[i].tag = marc[i].tag
           /\ E[i].length = SizeRead(SizeWrite(FieldWriteSize(marc[i]), LengthDigits))
           /\ E[i].location = SizeRead(SizeWrite(Location(marc, i), RecordDigits))
  BY <1>1 DEF EntriesAreRight
<1>3. FieldsRead(whole) = [i \in DOMAIN E |->
                             IF IsControlEntry(E, i)
                             THEN ControlFieldRead(E[i], FieldRead(whole, i))
                             ELSE ContentFieldRead(E[i], FieldRead(whole, i))]
  BY DEF FieldsRead
<1>4. \A i \in 1..Len(marc) : FieldRead(whole, i) = FieldBytes(whole, StartRead(whole), E[i])
  BY DEF FieldRead
<1> HIDE DEF E
<1>5. \A i \in 1..Len(marc) : E[i].length = FieldWriteSize(marc[i])
                              /\ E[i].location = Location(marc, i)
  BY <1>2, EntryIsRight DEF E
<1>6. \A i \in 1..Len(marc) : FieldRead(whole, i) = FieldWrite(marc[i])
  BY <1>2, <1>4, <1>5, FieldIsFound
<1>7. ASSUME NEW i \in 1..Len(marc)
      PROVE  (IF IsControlEntry(E, i) THEN ControlFieldRead(E[i], FieldRead(whole, i))
              ELSE ContentFieldRead(E[i], FieldRead(whole, i)))
               = IF i <= a THEN marc[i] ELSE Reread(marc[i])
  <2>1. /\ marc[i] \in Whole
        /\ IsControlField(marc[i]) <=> i <= a
        /\ IsDataField(marc[i]) <=> ~(i <= a)
    BY SortedFields
  <2>2. CASE i <= a
    <3>1. ControlFieldRead(E[i], FieldWrite(marc[i])) = marc[i]
      BY <1>2, <2>1, <2>2, ControlFieldIsRead
    <3> QED
      BY <1>1, <1>6, <2>2, <3>1 DEF E
  <2>3. CASE ~(i <= a)
    <3>1. ContentFieldRead(E[i], FieldWrite(marc[i])) = Reread(marc[i])
      BY <1>2, <2>1, <2>3, ContentFieldIsRead
    <3> QED
      BY <1>1, <1>6, <2>3, <3>1 DEF E
  <2> QED
    BY <2>2, <2>3
<1>8. FieldsRead(whole) = ReadOf(marc, a)
  BY <1>2, <1>3, <1>7 DEF ReadOf
<1> QED
  BY <1>5, <1>6, <1>8 DEF E

(* If reading succeeds, it reads the record that was laid out, but for its *)
(* subfields.                                                              *)
LEMMA LaidOutIsRead ==
  ASSUME NEW marc, NEW a, IsInOrder(marc, a), NEW whole, IsLaidOut(whole, marc),
         RecordWriteSize(marc) < 256 * PowerOf10(RecordDigits - 1),
         RecordRead(whole).outcome = "record"
  PROVE  RecordRead(whole).fields = ReadOf(marc, a) /\ DataIsReadable(marc, a)
<1>1. /\ LengthRead(whole) # NotFound /\ BaseRead(whole) # NotFound
      /\ IsReadable(whole)
      /\ RecordRead(whole).fields = FieldsRead(whole)
  BY RecordReadIs DEF Failed
<1>2. /\ RecordWriteSize(marc) < PowerOf10(RecordDigits)
      /\ BaseRead(whole) = FieldsLocation(Len(marc))
  BY <1>1, SizesAreRead
<1>3. /\ DOMAIN EntriesRead(whole) = 1..Len(marc)
      /\ \A i \in 1..Len(marc) : IsControlEntry(EntriesRead(whole), i) <=> i <= a
  BY <1>2, EntriesAreFound DEF EntriesAreRight
<1>4. \A i \in 1..Len(marc) :
        FieldIsReadable(EntriesRead(whole)[i], FieldRead(whole, i),
                        LengthRead(whole) - StartRead(whole), IsControlEntry(EntriesRead(whole), i))
  BY <1>1, <1>3 DEF IsReadable
<1>5. \A i \in 1..Len(marc) :
        /\ EntriesRead(whole)[i].length # NotFound
        /\ ~(i <= a) => SubfieldsRead(AfterIndicators(FieldRead(whole, i))).ok
  BY <1>3, <1>4 DEF FieldIsReadable
<1>6. /\ FieldsRead(whole) = ReadOf(marc, a)
      /\ \A i \in 1..Len(marc) : FieldRead(whole, i) = FieldWrite(marc[i])
  BY <1>2, <1>5, FieldsAreRead
<1>7. ASSUME NEW i \in 1..Len(marc), ~(i <= a) PROVE SubfieldsRead(Ended(marc[i].subfields)).ok
  <2>1. marc[i] \in Whole /\ IsDataField(marc[i])
    BY <1>7, SortedFields
  <2>2. AfterIndicators(FieldWrite(marc[i])) = Ended(marc[i].subfields)
    <3>1. [tag |-> marc[i].tag].tag = marc[i].tag
      OBVIOUS
    <3> QED
      BY <2>1, <3>1, ContentFieldIsRead
  <2> QED
    BY <1>5, <1>6, <1>7, <2>2
<1> QED
  BY <1>1, <1>6, <1>7 DEF DataIsReadable

(* If every size fits, reading succeeds.                                   *)
LEMMA FittingIsReadable ==
  ASSUME NEW marc, NEW a, IsInOrder(marc, a), NEW whole, IsLaidOut(whole, marc),
         RecordWriteSize(marc) < PowerOf10(RecordDigits),
         \A i \in 1..Len(marc) : FieldWriteSize(marc[i]) < PowerOf10(LengthDigits),
         DataIsReadable(marc, a)
  PROVE  RecordRead(whole) = [outcome |-> "record", fields |-> ReadOf(marc, a)]
<1> DEFINE E == EntriesRead(whole)
           start == FieldsLocation(Len(marc))
<1>1. /\ LengthRead(whole) = RecordWriteSize(marc)
      /\ BaseRead(whole) = start
  BY FittingSizesAreRead
<1>2. /\ EntriesAreRight(marc, whole)
      /\ \A i \in 1..Len(marc) : IsControlEntry(E, i) <=> i <= a
  BY <1>1, EntriesAreFound
<1>3. /\ start \in Nat /\ RecordWriteSize(marc) \in Nat
      /\ RecordWriteSize(marc) = start + Total(FieldSizes(marc)) + 1
      /\ Total(FieldSizes(marc)) \in Nat /\ NotFound \notin Nat
  BY WriteSizeIs, FieldSizesAre, Delimiters
<1>4. ASSUME NEW i \in 1..Len(marc) PROVE E[i].length # NotFound
  <2>1. E[i].length = FieldWriteSize(marc[i])
    BY <1>2, EntryIsRight DEF EntriesAreRight
  <2> QED
    BY <1>3, <2>1, LocationIs
<1>5. /\ FieldsRead(whole) = ReadOf(marc, a)
      /\ \A i \in 1..Len(marc) : /\ FieldRead(whole, i) = FieldWrite(marc[i])
                                 /\ E[i].length = FieldWriteSize(marc[i])
                                 /\ E[i].location = Location(marc, i)
  BY <1>1, <1>4, FieldsAreRead
<1>6. ASSUME NEW i \in 1..Len(marc)
      PROVE  FieldIsReadable(E[i], FieldRead(whole, i), LengthRead(whole) - StartRead(whole),
                             IsControlEntry(E, i))
  <2>1. LengthRead(whole) - StartRead(whole) = Total(FieldSizes(marc)) + 1
    <3>1. StartRead(whole) = start
      BY <1>2 DEF EntriesAreRight
    <3> QED
      BY <1>1, <1>3, <3>1
  <2>2. /\ Location(marc, i) \in Nat /\ FieldWriteSize(marc[i]) \in Nat
        /\ Location(marc, i) + FieldWriteSize(marc[i]) <= Total(FieldSizes(marc))
    BY LocationIs
  <2>3. E[i].length # NotFound /\ E[i].location # NotFound
    BY <1>3, <1>5, <2>2
  <2>4. E[i].location + E[i].length < LengthRead(whole) - StartRead(whole)
    BY <1>3, <1>5, <2>1, <2>2
  <2>5. ASSUME ~IsControlEntry(E, i)
        PROVE  /\ E[i].length >= IndicatorsLength + 1
               /\ SubfieldsRead(AfterIndicators(FieldRead(whole, i))).ok
    <3>1. ~(i <= a) /\ marc[i] \in Whole /\ IsDataField(marc[i])
      BY <1>2, <2>5, SortedFields
    <3>2. AfterIndicators(FieldWrite(marc[i])) = Ended(marc[i].subfields)
      <4>1. [tag |-> marc[i].tag].tag = marc[i].tag
        OBVIOUS
      <4> QED
        BY <3>1, <4>1, ContentFieldIsRead
    <3>3. /\ Len(FieldWrite(marc[i])) = 2 + Len(Ended(marc[i].subfields))
          /\ Len(Ended(marc[i].subfields)) \in Nat \ {0}
      BY <3>1, DataFieldEnds
    <3>4. Len(FieldWrite(marc[i])) = FieldWriteSize(marc[i])
      BY <3>1, FieldWriteIs
    <3>5. E[i].length >= IndicatorsLength + 1
      BY <1>5, <3>3, <3>4 DEF IndicatorsLength
    <3>6. SubfieldsRead(Ended(marc[i].subfields)).ok
      BY <3>1 DEF DataIsReadable
    <3> QED
      BY <1>5, <3>2, <3>5, <3>6
  <2> HIDE DEF E
  <2> QED
    BY <2>3, <2>4, <2>5 DEF FieldIsReadable
<1>7. IsReadable(whole)
  <2>1. /\ whole[start] = FieldTerminator
        /\ whole[RecordWriteSize(marc)] = RecordTerminator
    BY DEF IsLaidOut
  <2>2. StartRead(whole) = start /\ DOMAIN E = 1..Len(marc)
    BY <1>2 DEF EntriesAreRight
  <2> QED
    BY <1>1, <1>6, <2>1, <2>2 DEF IsReadable
<1>8. LengthRead(whole) # NotFound /\ BaseRead(whole) # NotFound
  BY <1>1, <1>3
<1>9. ~(LengthRead(whole) > Len(whole))
  <2>1. Len(whole) = RecordWriteSize(marc)
    BY DEF IsLaidOut
  <2> QED
    BY <1>1, <1>3, <2>1
<1> QED
  BY <1>5, <1>7, <1>8, <1>9, RecordReadIs

(* What was read is laid out as the bytes it was read from.                *)
LEMMA ReadOfIs ==
  ASSUME NEW marc, NEW a, IsInOrder(marc, a), DataIsReadable(marc, a)
  PROVE  IsInOrder(ReadOf(marc, a), a) /\ Layout(ReadOf(marc, a)) = Layout(marc)
<1> DEFINE n == Len(marc)
           r == ReadOf(marc, a)
<1>1. /\ n \in Nat /\ DOMAIN marc = 1..n /\ a \in 0..n
      /\ \A i \in 1..n : /\ marc[i] \in Whole
                         /\ IsControlField(marc[i]) <=> i <= a
                         /\ IsDataField(marc[i]) <=> ~(i <= a)
  BY SortedFields DEF IsInOrder
<1>2. /\ DOMAIN r = 1..n /\ r = [i \in 1..n |-> r[i]]
      /\ \A i \in 1..n : r[i] = IF i <= a THEN marc[i] ELSE Reread(marc[i])
  BY DEF ReadOf
<1>3. \A i \in 1..n : ~(i <= a) => SubfieldsRead(Ended(marc[i].subfields)).ok
  BY DEF DataIsReadable
<1> HIDE DEF n, r
<1>4. \A i \in 1..n : /\ r[i] \in Whole /\ r[i].tag = marc[i].tag
                      /\ i <= a => IsControlField(r[i])
                      /\ ~(i <= a) => IsDataField(r[i])
                      /\ FieldWrite(r[i]) = FieldWrite(marc[i])
                      /\ FieldWriteSize(r[i]) = FieldWriteSize(marc[i])
  BY <1>1, <1>2, <1>3, RereadIsWritten
<1>5. r \in Seq(Whole) /\ Len(r) = n
  <2>1. \A i \in 1..n : r[i] \in Whole
    BY <1>4
  <2> QED
    BY <1>1, <1>2, <2>1, Numbered
<1>6. IsInOrder(r, a)
  <2>1. \A i \in 1..a : i \in 1..n /\ i <= a
    BY <1>1
  <2>2. \A i \in (a + 1)..n : i \in 1..n /\ ~(i <= a)
    BY <1>1
  <2> QED
    BY <1>1, <1>4, <1>5, <2>1, <2>2 DEF IsInOrder
<1>7. FieldSizes(r) = FieldSizes(marc)
  BY <1>1, <1>2, <1>4 DEF FieldSizes
<1>8. Written(r) = Written(marc)
  BY <1>1, <1>2, <1>4 DEF Written
<1>9. Entries(r) = Entries(marc)
  <2>1. \A i \in 1..n : EntryWrite(r, i) = EntryWrite(marc, i)
    BY <1>4, <1>7 DEF EntryWrite
  <2> QED
    BY <1>1, <1>2, <2>1 DEF Entries
<1>10. RecordWriteSize(r) = RecordWriteSize(marc)
  BY <1>5, <1>7 DEF RecordWriteSize, n
<1>11. Layout(r) = Layout(marc)
  BY <1>5, <1>8, <1>9, <1>10 DEF Layout, n
<1> QED
  BY <1>6, <1>11 DEF r

(* What is written of a record that does not wrap is read as a record that *)
(* would be written just so.                                               *)
LEMMA CopyIsWritten ==
  ASSUME NEW record \in Seq(Whole), IsShort(record),
         RecordRead(RecordWrite(record)).outcome = "record"
  PROVE  /\ RecordRead(RecordWrite(record)).fields \in Seq(Whole)
         /\ RecordWrite(RecordRead(RecordWrite(record)).fields) = RecordWrite(record)
         /\ Marshalled(RecordRead(RecordWrite(record)).fields)
              = RecordRead(RecordWrite(record)).fields
<1> DEFINE marc == Marshalled(record)
           whole == Layout(marc)
           r == RecordRead(whole).fields
<1>1. PICK a : IsInOrder(marc, a)
  BY MarshalledIsSorted
<1>2. RecordWrite(record) = whole
  BY RecordWriteIs
<1>3. RecordWriteSize(marc) < 256 * PowerOf10(RecordDigits - 1)
  BY DEF IsShort
<1> HIDE DEF marc
<1>4. IsLaidOut(whole, marc)
  BY <1>1, LayoutIs
<1>5. r = ReadOf(marc, a) /\ DataIsReadable(marc, a)
  BY <1>1, <1>2, <1>3, <1>4, LaidOutIsRead
<1>6. IsInOrder(r, a) /\ Layout(r) = whole
  BY <1>1, <1>5, ReadOfIs
<1> HIDE DEF r, whole
<1>7. Marshalled(r) = r
  BY <1>6, SortedIsMarshalled
<1>8. RecordWrite(r) = whole
  BY <1>6, <1>7, RecordWriteIs
<1>9. r \in Seq(Whole)
  BY <1>6 DEF IsInOrder
<1> QED
  BY <1>2, <1>7, <1>8, <1>9 DEF r

(* Plain subfields leave nothing to be read as others.                     *)
LEMMA PlainMarshalled ==
  ASSUME NEW record \in Seq(Whole), HasPlainSubfields(record)
  PROVE  \A i \in 1..Len(Marshalled(record)) : ArePlain(Marshalled(record)[i].subfields)
<1> SUFFICES ASSUME NEW i \in 1..Len(Marshalled(record))
             PROVE  ArePlain(Marshalled(record)[i].subfields)
  OBVIOUS
<1>1. PICK j \in 1..Len(record) : Marshalled(record)[i] = record[j]
  BY MarshalledIsSorted
<1> DEFINE subs == record[j].subfields
<1>2. record[j] \in Field /\ j \in DOMAIN record
  BY ElementOfSeq, LenProperties DEF Whole
<1>3. subs \in Seq(Subfield)
  BY <1>2 DEF Field
<1>4. DOMAIN subs = 1..Len(subs) /\ \A k \in 1..Len(subs) : subs[k] \in Subfield
  BY <1>3, LenProperties, ElementOfSeq
<1>5. \A k \in 1..Len(subs) : subs[k] \in Subfields(record)
  BY <1>2, <1>4 DEF Subfields
<1> HIDE DEF subs
<1>6. \A k \in 1..Len(subs) : DOMAIN subs[k].content = 1..Len(subs[k].content)
  <2>1. \A k \in 1..Len(subs) : subs[k].content \in Seq(Byte)
    BY <1>4 DEF Subfield
  <2> QED
    BY <2>1, LenProperties
<1>7. ArePlain(subs)
  BY <1>5, <1>6 DEF ArePlain, HasPlainSubfields
<1> QED
  BY <1>1, <1>7 DEF subs

(* Records of subfields without delimiters are readable, and read as they  *)
(* are.                                                                    *)
LEMMA PlainReadOf ==
  ASSUME NEW record \in Seq(Whole), HasPlainSubfields(record), NEW a,
         IsInOrder(Marshalled(record), a)
  PROVE  /\ DataIsReadable(Marshalled(record), a)
         /\ ReadOf(Marshalled(record), a) = Marshalled(record)
<1> DEFINE marc == Marshalled(record)
           n == Len(marc)
<1>1. /\ n \in Nat /\ DOMAIN marc = 1..n /\ marc \in Seq(Whole)
      /\ \A i \in 1..n : marc[i] \in Whole /\ (IsDataField(marc[i]) <=> ~(i <= a))
  BY SortedFields
<1>2. \A i \in 1..n : ArePlain(marc[i].subfields)
  BY PlainMarshalled
<1> HIDE DEF marc, n
<1>3. \A i \in 1..n : ~(i <= a) => /\ SubfieldsRead(Ended(marc[i].subfields)).ok
                                   /\ Reread(marc[i]) = marc[i]
  BY <1>1, <1>2, PlainIsReread
<1>4. DataIsReadable(marc, a)
  BY <1>3 DEF DataIsReadable, n
<1>5. ReadOf(marc, a) = [i \in 1..n |-> marc[i]]
  BY <1>3 DEF ReadOf, n
<1>6. marc = [i \in 1..n |-> marc[i]]
  BY <1>1
<1> QED
  BY <1>4, <1>5, <1>6 DEF marc

(* If such a record is read at all, it is read as it was written.          *)
LEMMA PlainIsReadBack ==
  ASSUME NEW record \in Seq(Whole), HasPlainSubfields(record), IsShort(record),
         RecordRead(RecordWrite(record)).outcome = "record"
  PROVE  RecordRead(RecordWrite(record)).fields = Marshalled(record)
<1> DEFINE marc == Marshalled(record)
<1>1. PICK a : IsInOrder(marc, a)
  BY MarshalledIsSorted
<1>2. RecordWrite(record) = Layout(marc) /\ ReadOf(marc, a) = marc
  BY <1>1, RecordWriteIs, PlainReadOf
<1>3. RecordWriteSize(marc) < 256 * PowerOf10(RecordDigits - 1)
  BY DEF IsShort
<1> HIDE DEF marc
<1>4. IsLaidOut(Layout(marc), marc)
  BY <1>1, LayoutIs
<1>5. RecordRead(Layout(marc)).fields = ReadOf(marc, a)
  BY <1>1, <1>2, <1>3, <1>4, LaidOutIsRead
<1> QED
  BY <1>2, <1>5 DEF marc

(* If the sizes of a record fit, so do those of the record marshalled.     *)
LEMMA FittingSizes ==
  ASSUME NEW record \in Seq(Whole), FitsTheDigits(record)
  PROVE  /\ IsShort(record)
         /\ RecordWriteSize(Marshalled(record)) < PowerOf10(RecordDigits)
         /\ \A i \in 1..Len(Marshalled(record)) :
              FieldWriteSize(Marshalled(record)[i]) < PowerOf10(LengthDigits)
<1> DEFINE marc == Marshalled(record)
<1>1. PICK a : IsInOrder(marc, a)
  BY MarshalledIsSorted
<1>2. RecordWriteSize(marc) \in Nat /\ RecordWriteSize(marc) < PowerOf10(RecordDigits)
  BY <1>1, WriteSizeIs DEF FitsTheDigits
<1>3. RecordWriteSize(marc) < 256 * PowerOf10(RecordDigits - 1)
  <2> HIDE DEF marc
  <2> QED
    BY <1>2, RoomIs
<1>4. ASSUME NEW i \in 1..Len(marc) PROVE FieldWriteSize(marc[i]) < PowerOf10(LengthDigits)
  <2>1. PICK j \in 1..Len(record) : marc[i] = record[j]
    BY MarshalledIsSorted
  <2>2. j \in DOMAIN record
    BY LenProperties
  <2> QED
    BY <2>1, <2>2 DEF FitsTheDigits
<1> QED
  BY <1>2, <1>3, <1>4 DEF IsShort

(* Such a record is read if its sizes fit.                                 *)
LEMMA FittingIsRead ==
  ASSUME NEW record \in Seq(Whole), HasPlainSubfields(record), FitsTheDigits(record)
  PROVE  RecordRead(RecordWrite(record)) = [outcome |-> "record", fields |-> Marshalled(record)]
<1> DEFINE marc == Marshalled(record)
<1>1. PICK a : IsInOrder(marc, a)
  BY MarshalledIsSorted
<1>2. /\ RecordWrite(record) = Layout(marc) /\ ReadOf(marc, a) = marc
      /\ DataIsReadable(marc, a)
  BY <1>1, RecordWriteIs, PlainReadOf
<1>3. /\ RecordWriteSize(marc) < PowerOf10(RecordDigits)
      /\ \A i \in 1..Len(marc) : FieldWriteSize(marc[i]) < PowerOf10(LengthDigits)
  BY FittingSizes
<1> HIDE DEF marc
<1>4. IsLaidOut(Layout(marc), marc)
  BY <1>1, LayoutIs
<1>5. RecordRead(Layout(marc)) = [outcome |-> "record", fields |-> ReadOf(marc, a)]
  BY <1>1, <1>2, <1>3, <1>4, FittingIsReadable
<1> QED
  BY <1>2, <1>5 DEF marc

(* What is written of a record whose sizes fit is framed.                  *)
LEMMA FittingIsFramed ==
  ASSUME NEW record \in Seq(Whole), FitsTheDigits(record), NEW bytes,
         bytes = RecordWrite(record)
  PROVE  /\ SizeRead(Bytes(bytes, 0, RecordDigits)) = Len(bytes)
         /\ bytes[SizeRead(Bytes(bytes, RecordDigits, RecordDigits))] = FieldTerminator
         /\ bytes[Len(bytes)] = RecordTerminator
<1> DEFINE marc == Marshalled(record)
<1>1. PICK a : IsInOrder(marc, a)
  BY MarshalledIsSorted
<1>2. bytes = Layout(marc)
  BY RecordWriteIs
<1>3. RecordWriteSize(marc) < PowerOf10(RecordDigits)
  BY FittingSizes
<1> HIDE DEF marc
<1>4. IsLaidOut(bytes, marc)
  BY <1>1, <1>2, LayoutIs
<1>5. /\ LengthRead(bytes) = RecordWriteSize(marc)
      /\ BaseRead(bytes) = FieldsLocation(Len(marc))
  BY <1>1, <1>3, <1>4, FittingSizesAreRead
<1> QED
  BY <1>4, <1>5 DEF IsLaidOut, LengthRead, BaseRead

-----------------------------------------------------------------------------
(* The leaders that go round with a record.                                *)
IsTaken(l) == l \in Leader /\ l.layout \in {"standard", "lenient"}

(* A leader that BibLeader takes is read back as it is, and a second copy  *)
(* changes nothing more.                                                   *)
LEMMA LeadersAre ==
  /\ NoLeader \notin Leader /\ NoLeader.layout = "none"
  /\ \A l \in Leader : /\ IsTaken(LeaderToData(l))
                       /\ LeaderToData(LeaderToData(l)) = LeaderToData(l)
                       /\ LeaderFromData(l) = NoLeader <=> ~IsTaken(l)
                       /\ IsTaken(l) => LeaderFromData(l) = l
                       /\ ~IsTaken(l) => l.layout = "other"
<1>1. NoLeader.layout = "none"
  BY DEF NoLeader
<1>2. \A l \in Leader : l.layout \in {"standard", "lenient", "other"}
  BY DEF Leader
<1>3. NoLeader \notin Leader
  BY <1>1, <1>2
<1>4. ASSUME NEW l \in Leader
      PROVE  /\ IsTaken(LeaderToData(l))
             /\ LeaderToData(LeaderToData(l)) = LeaderToData(l)
  BY DEF Leader, LeaderToData, IsTaken
<1>5. \A l \in Leader : /\ LeaderFromData(l) = NoLeader <=> ~IsTaken(l)
                        /\ IsTaken(l) => LeaderFromData(l) = l
                        /\ ~IsTaken(l) => l.layout = "other"
  BY <1>2, <1>3 DEF LeaderFromData, IsTaken
<1> QED
  BY <1>1, <1>3, <1>4, <1>5

(* No setter makes a leader that is not taken.                             *)
LEMMA DescribedLeaders ==
  ASSUME NEW l, IsTaken(l)
  PROVE  /\ \A kind \in Kinds : IsTaken(SetRecordKind(l, kind))
         /\ \A level \in Levels : IsTaken(SetBibliographicLevel(l, level))
<1>1. ASSUME NEW kind \in Kinds PROVE IsTaken(SetRecordKind(l, kind))
  <2>1. kind \in RecordKinds
    BY LayoutAssumption
  <2> QED
    BY <2>1 DEF IsTaken, Leader, SetRecordKind
<1>2. ASSUME NEW level \in Levels PROVE IsTaken(SetBibliographicLevel(l, level))
  <2>1. level \in BibliographicLevels \cup {Blank}
    BY LayoutAssumption
  <2>2. IsTaken([l EXCEPT !.level = level])
    BY <2>1 DEF IsTaken, Leader
  <2> QED
    BY <2>2 DEF SetBibliographicLevel
<1> QED
  BY <1>1, <1>2

-----------------------------------------------------------------------------
(* A record of the client's own, before it is written.                     *)
IsUnwritten ==
  /\ data = << >> /\ header = NoLeader /\ fields = original /\ copies = 0
  /\ state = "record" /\ IsTaken(leader)

(* The data that goes round, as long as the length does not wrap: what the *)
(* original would be written as.  What is read from it would be, too.      *)
IsCopied ==
  /\ first[2] = RecordWrite(original)
  /\ data = RecordWrite(original)
  /\ state = "record" =>
       /\ fields \in Seq(Whole)
       /\ RecordWrite(fields) = RecordWrite(original)
       /\ HasPlainSubfields(original) => fields = Marshalled(original)

IsWritten ==
  /\ header \in Leader
  /\ header \in {first[1], LeaderToData(first[1])} /\ first[1] \in Leader
  /\ state = "record" => leader = LeaderFromData(header)
  /\ IsShort(original) => IsCopied
  /\ FitsTheDigits(original) /\ HasPlainSubfields(original) /\ header.layout # "other"
       => state \in {"record", "data"}

LayoutInv ==
  /\ original \in Seq(Whole)
  /\ copies \in Nat
  /\ first = << >> => IsUnwritten
  /\ first # << >> => IsWritten

(* The records a client starts with have their parts.                      *)
LEMMA OriginalsAreWhole ==
  ASSUME NEW record \in Originals
  PROVE  record \in Seq(Whole)
<1>1. record \in Seq(Field) /\ \A i \in DOMAIN record : HasItsParts(record[i])
  BY LayoutAssumption
<1> DEFINE n == Len(record)
<1>2. n \in Nat /\ DOMAIN record = 1..n /\ record = [i \in 1..n |-> record[i]]
      /\ \A i \in 1..n : record[i] \in Field
  BY <1>1, LenProperties, ElementOfSeq
<1>3. \A i \in 1..n : record[i] \in Whole
  BY <1>1, <1>2 DEF Whole
<1> HIDE DEF n
<1> QED
  BY <1>2, <1>3, Numbered

(* The invariant, in the initial states and of each action.                *)
LEMMA LayoutInit == Init => LayoutInv
<1> SUFFICES ASSUME Init PROVE LayoutInv
  OBVIOUS
<1>1. original \in Seq(Whole) /\ fields = original /\ copies = 0
  BY OriginalsAreWhole DEF Init
<1>2. CASE Created
  <2>1. IsTaken(leader)
    <3>1. leader \in Leader /\ LeaderFromData(leader) = leader
      BY <1>2, LayoutAssumption DEF Created
    <3> QED
      BY <3>1, LeadersAre
  <2> QED
    BY <1>1, <1>2, <2>1 DEF Created, LayoutInv, IsUnwritten
<1>3. CASE Received
  <2>1. header \in Leader /\ data = RecordWrite(original) /\ first = <<header, data>>
        /\ state = "data"
    BY <1>3, LayoutAssumption DEF Received
  <2>2. first # << >> /\ first[1] = header /\ first[2] = data
    BY <2>1
  <2> QED
    BY <1>1, <2>1, <2>2 DEF LayoutInv, IsWritten, IsCopied
<1> QED
  BY <1>2, <1>3 DEF Init

LEMMA DescribeKeeps ==
  ASSUME LayoutInv, Describe
  PROVE  LayoutInv'
<1>1. /\ first = << >> /\ IsUnwritten
      /\ UNCHANGED <<original, fields, header, data, first, copies, state>>
  BY DEF LayoutInv, Describe
<1>2. IsTaken(leader')
  <2>1. \/ \E kind \in Kinds : leader' = SetRecordKind(leader, kind)
        \/ \E level \in Levels : leader' = SetBibliographicLevel(leader, level)
    BY DEF Describe
  <2>2. IsTaken(leader)
    BY <1>1 DEF IsUnwritten
  <2> QED
    BY <2>1, <2>2, DescribedLeaders
<1> QED
  BY <1>1, <1>2 DEF LayoutInv, IsUnwritten

LEMMA WriteKeeps ==
  ASSUME LayoutInv, Write
  PROVE  LayoutInv'
<1>1. /\ state = "record" /\ leader # NoLeader
      /\ header' = LeaderToData(leader) /\ data' = RecordWrite(fields)
      /\ first' = IF first = << >> THEN <<header', data'>> ELSE first
      /\ state' = "data"
      /\ original' = original /\ fields' = fields /\ copies' = copies
  BY DEF Write
<1>2. CASE first = << >>
  <2>1. fields = original /\ IsTaken(leader)
    BY <1>2 DEF LayoutInv, IsUnwritten
  <2>2. first' = <<header', data'>> /\ first' # << >> /\ first'[1] = header' /\ first'[2] = data'
    BY <1>1, <1>2
  <2>3. header' \in Leader
    BY <1>1, <2>1, LeadersAre DEF IsTaken
  <2>4. IsCopied'
    BY <1>1, <2>1, <2>2 DEF IsCopied
  <2>5. IsWritten'
    BY <1>1, <2>2, <2>3, <2>4 DEF IsWritten
  <2> QED
    BY <1>1, <2>2, <2>5 DEF LayoutInv
<1>3. CASE first # << >>
  <2>1. first' = first /\ IsWritten
    BY <1>1, <1>3 DEF LayoutInv
  <2>2. leader = header /\ IsTaken(header) /\ header \in Leader
    BY <1>1, <2>1, LeadersAre DEF IsWritten
  <2>3. first[1] \in Leader /\ header' = LeaderToData(first[1]) /\ header' \in Leader
    <3>1. first[1] \in Leader /\ header \in {first[1], LeaderToData(first[1])}
      BY <2>1 DEF IsWritten
    <3>2. LeaderToData(header) = LeaderToData(first[1])
      BY <3>1, LeadersAre
    <3> QED
      BY <1>1, <2>2, <3>1, <3>2, LeadersAre DEF IsTaken
  <2>4. IsShort(original) => IsCopied'
    BY <1>1, <2>1 DEF IsWritten, IsCopied
  <2>5. IsWritten'
    BY <1>1, <2>1, <2>3, <2>4 DEF IsWritten
  <2> QED
    BY <1>1, <1>3, <2>1, <2>5 DEF LayoutInv
<1> QED
  BY <1>2, <1>3

LEMMA WriteWithoutLeaderKeeps ==
  ASSUME LayoutInv, WriteWithoutLeader
  PROVE  LayoutInv'
<1>1. /\ state = "record" /\ leader = NoLeader /\ state' = "aborted"
      /\ UNCHANGED <<original, leader, fields, header, data, first, copies>>
  BY DEF WriteWithoutLeader
<1>2. first # << >>
  BY <1>1, LeadersAre DEF LayoutInv, IsUnwritten, IsTaken
<1>3. IsWritten
  BY <1>2 DEF LayoutInv
<1>4. header.layout = "other"
  BY <1>1, <1>3, LeadersAre DEF IsWritten
<1>5. IsWritten'
  BY <1>1, <1>3, <1>4 DEF IsWritten, IsCopied
<1> QED
  BY <1>1, <1>2, <1>5 DEF LayoutInv

LEMMA ReadKeeps ==
  ASSUME LayoutInv, Read
  PROVE  LayoutInv'
<1> DEFINE read == RecordRead(data)
<1>1. /\ state = "data" /\ state' = read.outcome
      /\ leader' = IF read.outcome = "record" THEN LeaderFromData(header) ELSE leader
      /\ fields' = IF read.outcome = "record" THEN read.fields ELSE fields
      /\ copies' = copies + 1
      /\ original' = original /\ header' = header /\ data' = data /\ first' = first
  BY DEF Read
<1>2. first # << >> /\ IsWritten /\ original \in Seq(Whole) /\ copies \in Nat
  BY <1>1 DEF LayoutInv, IsUnwritten
<1>3. ASSUME IsShort(original) PROVE IsCopied'
  <2>1. first[2] = RecordWrite(original) /\ data = RecordWrite(original)
    BY <1>2, <1>3 DEF IsWritten, IsCopied
  <2>2. ASSUME read.outcome = "record"
        PROVE  /\ read.fields \in Seq(Whole)
               /\ RecordWrite(read.fields) = RecordWrite(original)
               /\ HasPlainSubfields(original) => read.fields = Marshalled(original)
    BY <1>2, <1>3, <2>1, <2>2, CopyIsWritten, PlainIsReadBack
  <2> HIDE DEF read
  <2>3. /\ (first[2] = RecordWrite(original))' /\ (data = RecordWrite(original))'
    BY <1>1, <2>1
  <2>4. state' = "record" => /\ fields' \in Seq(Whole)
                             /\ RecordWrite(fields') = RecordWrite(original)
                             /\ HasPlainSubfields(original) => fields' = Marshalled(original)
    BY <1>1, <2>2
  <2> QED
    BY <1>1, <2>3, <2>4 DEF IsCopied
<1>4. ASSUME FitsTheDigits(original), HasPlainSubfields(original)
      PROVE  state' = "record"
  <2>1. IsShort(original)
    BY <1>2, <1>4, FittingSizes
  <2>2. data = RecordWrite(original)
    BY <1>2, <2>1 DEF IsWritten, IsCopied
  <2> QED
    BY <1>1, <1>2, <1>4, <2>2, FittingIsRead
<1>5. IsWritten'
  <2>1. /\ header \in Leader /\ first[1] \in Leader
        /\ header \in {first[1], LeaderToData(first[1])}
    BY <1>2 DEF IsWritten
  <2> HIDE DEF read
  <2>2. state' = "record" => leader' = LeaderFromData(header)
    BY <1>1
  <2> QED
    BY <1>1, <1>3, <1>4, <2>1, <2>2 DEF IsWritten
<1> QED
  BY <1>1, <1>2, <1>5 DEF LayoutInv

(* The invariant, of each step and in each state.                          *)
LEMMA LayoutStep == LayoutInv /\ [Next]_vars => LayoutInv'
<1> SUFFICES ASSUME LayoutInv, [Next]_vars PROVE LayoutInv'
  OBVIOUS
<1>1. CASE UNCHANGED vars
  BY <1>1 DEF vars, LayoutInv, IsUnwritten, IsWritten, IsCopied
<1> QED
  BY <1>1, DescribeKeeps, WriteKeeps, WriteWithoutLeaderKeeps, ReadKeeps DEF Next

LEMMA LayoutInvHolds == Spec => []LayoutInv
<1>1. Init => LayoutInv
  BY LayoutInit
<1>2. LayoutInv /\ [Next]_vars => LayoutInv'
  BY LayoutStep
<1> QED
  BY <1>1, <1>2, PTL DEF Spec

-----------------------------------------------------------------------------
(* Whatever the sizes, a record that is read back is the one written, with *)
(* its control fields first, unless its length wraps (ReadBackIsOriginal). *)
THEOREM NothingElseIsRead == Spec => []ReadBackIsOriginal
<1>1. LayoutInv => ReadBackIsOriginal
  BY DEF LayoutInv, IsUnwritten, IsWritten, IsCopied, ReadBackIsOriginal
<1> QED
  BY <1>1, LayoutInvHolds, PTL

(* A record whose sizes fit is read back, as often as it is copied         *)
(* (FittingIsReadBack).                                                    *)
THEOREM FittingStaysReadable == Spec => []FittingIsReadBack
<1>1. LayoutInv => FittingIsReadBack
  BY DEF LayoutInv, IsUnwritten, IsWritten, FittingIsReadBack
<1> QED
  BY <1>1, LayoutInvHolds, PTL

(* Copies are the same to the byte, and in the leader but for a layout     *)
(* that a copy puts right, unless the length of the record wraps           *)
(* (CopiesAreExact).                                                       *)
THEOREM CopiesStayExact == Spec => []CopiesAreExact
<1>1. LayoutInv => CopiesAreExact
  <2> SUFFICES ASSUME LayoutInv, copies > 0 PROVE CopiesAreExact
    BY DEF CopiesAreExact
  <2>1. first # << >>
    BY DEF LayoutInv, IsUnwritten
  <2> QED
    BY <2>1 DEF LayoutInv, IsWritten, IsCopied, CopiesAreExact
<1> QED
  BY <1>1, LayoutInvHolds, PTL

(* What is written is framed the way the streams read it                   *)
(* (WrittenIsFramed).                                                      *)
THEOREM WrittenStaysFramed == Spec => []WrittenIsFramed
<1>1. LayoutInv => WrittenIsFramed
  <2> SUFFICES ASSUME LayoutInv, data # << >>, FitsTheDigits(original)
               PROVE  WrittenIsFramed
    BY DEF WrittenIsFramed
  <2>1. first # << >> /\ original \in Seq(Whole)
    BY DEF LayoutInv, IsUnwritten
  <2>2. IsShort(original)
    BY <2>1, FittingSizes
  <2>3. data = RecordWrite(original)
    BY <2>1, <2>2 DEF LayoutInv, IsWritten, IsCopied
  <2> QED
    BY <2>1, <2>3, FittingIsFramed DEF WrittenIsFramed
<1> QED
  BY <1>1, LayoutInvHolds, PTL
=============================================================================
