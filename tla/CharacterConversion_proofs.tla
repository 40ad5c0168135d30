--------------------- MODULE CharacterConversion_proofs ---------------------
(***************************************************************************)
(* For every set of strings, every growth of the buffer and every choice   *)
(* of the converter: the room the converter is told of is what the buffer  *)
(* has, and a result is the string that was converted.                     *)
(***************************************************************************)
EXTENDS CharacterConversion, SequenceTheorems, NaturalsInduction, WellFoundedInduction, TLAPS

(* A set of numbers that has one has a least one.                          *)
LEMMA LeastNumber ==
  ASSUME NEW D, D \subseteq Nat, D # {}
  PROVE  \E x \in D : \A y \in D : x <= y
<1> DEFINE Less == {ss \in Nat \X Nat : ss[1] < ss[2]}
<1>1. IsWellFoundedOn(Less, Nat)
  BY NatLessThanWellFounded DEF OpToRel
<1> HIDE DEF Less
<1>2. PICK x \in D : \A y \in D : ~(<<y, x>> \in Less)
  BY <1>1, WFMin
<1>3. ASSUME NEW y \in D PROVE x <= y
  <2>1. x \in Nat /\ y \in Nat
    OBVIOUS
  <2>2. y < x => <<y, x>> \in Less
    BY <2>1 DEF Less
  <2> QED
    BY <1>2, <2>1, <2>2
<1> QED
  BY <1>3

(* What holds of 0, and of a number when it holds of the one before.       *)
LEMMA UpTo ==
  ASSUME NEW n \in Nat, NEW S, 0 \in S, \A k \in 1..n : k - 1 \in S => k \in S
  PROVE  \A k \in 0..n : k \in S
<1> DEFINE D == {k \in 0..n : k \notin S}
<1>1. SUFFICES ASSUME D # {} PROVE FALSE
  OBVIOUS
<1>2. PICK x \in D : \A y \in D : x <= y
  <2>1. D \subseteq Nat
    OBVIOUS
  <2> HIDE DEF D
  <2> QED
    BY <1>1, <2>1, LeastNumber
<1>3. x \in 1..n /\ x - 1 \in 0..n
  OBVIOUS
<1>4. x - 1 \notin D
  BY <1>2, <1>3
<1> QED
  BY <1>3, <1>4

-----------------------------------------------------------------------------
(* The sum of a sequence of sizes.                                         *)

IsTotal(f, sizes) ==
  f = [k \in 0..Len(sizes) |-> IF k = 0 THEN 0 ELSE f[k - 1] + sizes[k]]

LEMMA TotalValues ==
  ASSUME NEW sizes \in Seq(Nat), NEW f, IsTotal(f, sizes)
  PROVE  /\ f[0] = 0
         /\ \A k \in 1..Len(sizes) : f[k] = f[k - 1] + sizes[k]
         /\ \A k \in 0..Len(sizes) : f[k] \in Nat
<1>1. Len(sizes) \in Nat /\ \A k \in 1..Len(sizes) : sizes[k] \in Nat
  BY ElementOfSeq, LenProperties
<1>2. /\ f[0] = 0
      /\ \A k \in 1..Len(sizes) : f[k] = f[k - 1] + sizes[k]
  BY <1>1 DEF IsTotal
<1> DEFINE S == {k \in 0..Len(sizes) : f[k] \in Nat}
<1>3. 0 \in S
  BY <1>1, <1>2
<1>4. \A k \in 1..Len(sizes) : k - 1 \in S => k \in S
  BY <1>1, <1>2
<1> HIDE DEF S
<1>5. \A k \in 0..Len(sizes) : k \in S
  BY <1>1, <1>3, <1>4, UpTo
<1> QED
  BY <1>2, <1>5 DEF S

LEMMA TotalIsUnique ==
  ASSUME NEW sizes \in Seq(Nat), NEW f, IsTotal(f, sizes), NEW g, IsTotal(g, sizes)
  PROVE  f[Len(sizes)] = g[Len(sizes)]
<1> DEFINE S == {k \in 0..Len(sizes) : f[k] = g[k]}
<1>1. Len(sizes) \in Nat
  BY LenProperties
<1>2. 0 \in S
  BY <1>1, TotalValues
<1>3. \A k \in 1..Len(sizes) : k - 1 \in S => k \in S
  BY <1>1, TotalValues
<1> HIDE DEF S
<1>4. \A k \in 0..Len(sizes) : k \in S
  BY <1>1, <1>2, <1>3, UpTo
<1> QED
  BY <1>1, <1>4 DEF S

LEMMA TotalExists ==
  ASSUME NEW sizes \in Seq(Nat)
  PROVE  \E f : IsTotal(f, sizes)
<1> DEFINE IsPart(g, m) == g = [k \in 0..m |-> IF k = 0 THEN 0 ELSE g[k - 1] + sizes[k]]
           S == {m \in 0..Len(sizes) : \E g : IsPart(g, m)}
<1>1. Len(sizes) \in Nat
  BY LenProperties
<1>2. 0 \in S
  <2>1. IsPart([k \in 0..0 |-> 0], 0)
    OBVIOUS
  <2> HIDE DEF IsPart
  <2> QED
    BY <1>1, <2>1
<1>3. ASSUME NEW m \in 1..Len(sizes), m - 1 \in S
      PROVE  m \in S
  <2>1. PICK g : IsPart(g, m - 1)
    BY <1>3
  <2> DEFINE h == [k \in 0..m |-> IF k = m THEN g[m - 1] + sizes[m] ELSE g[k]]
  <2>2. /\ g[0] = 0
        /\ \A k \in 1..(m - 1) : g[k] = g[k - 1] + sizes[k]
    <3>1. \A k \in 0..(m - 1) : g[k] = IF k = 0 THEN 0 ELSE g[k - 1] + sizes[k]
      BY <2>1
    <3> QED
      BY <3>1
  <2>3. \A k \in 0..m : h[k] = IF k = 0 THEN 0 ELSE h[k - 1] + sizes[k]
    <3>1. h[0] = 0
      BY <2>2
    <3>2. \A k \in 1..m : h[k] = h[k - 1] + sizes[k]
      BY <2>2
    <3> HIDE DEF h
    <3> QED
      BY <3>1, <3>2
  <2>4. IsPart(h, m)
    <3>1. h = [k \in 0..m |-> h[k]]
      OBVIOUS
    <3> HIDE DEF h
    <3> QED
      BY <2>3, <3>1
  <2> HIDE DEF h, IsPart
  <2> QED
    BY <1>1, <2>4
<1> HIDE DEF S
<1>4. \A m \in 1..Len(sizes) : m - 1 \in S => m \in S
  BY <1>3
<1>5. \A m \in 0..Len(sizes) : m \in S
  BY <1>1, <1>2, <1>4, UpTo
<1>6. Len(sizes) \in S
  BY <1>1, <1>5
<1> QED
  BY <1>6 DEF S, IsTotal

LEMMA TotalIs ==
  ASSUME NEW sizes \in Seq(Nat), NEW f, IsTotal(f, sizes)
  PROVE  Total(sizes) = f[Len(sizes)] /\ Total(sizes) \in Nat
<1> DEFINE g == CHOOSE h : h = [k \in 0..Len(sizes) |-> IF k = 0 THEN 0 ELSE h[k - 1] + sizes[k]]
<1>1. IsTotal(g, sizes)
  BY TotalExists DEF IsTotal
<1>2. Total(sizes) = g[Len(sizes)]
  BY DEF Total
<1> HIDE DEF g
<1> QED
  BY <1>1, <1>2, TotalIsUnique, TotalValues, LenProperties

LEMMA TotalOfConcat ==
  ASSUME NEW s \in Seq(Nat), NEW t \in Seq(Nat)
  PROVE  Total(s \o t) = Total(s) + Total(t)
<1>1. PICK f : IsTotal(f, s)
  BY TotalExists
<1>2. PICK g : IsTotal(g, t)
  BY TotalExists
<1> DEFINE h == [k \in 0..Len(s) + Len(t) |->
                   IF k <= Len(s) THEN f[k] ELSE f[Len(s)] + g[k - Len(s)]]
<1>3. /\ Len(s) \in Nat /\ Len(t) \in Nat
      /\ s \o t \in Seq(Nat)
      /\ Len(s \o t) = Len(s) + Len(t)
      /\ \A k \in 1..Len(s) + Len(t) :
           (s \o t)[k] = IF k <= Len(s) THEN s[k] ELSE t[k - Len(s)]
  BY LenProperties, ConcatProperties
<1>4. /\ f[0] = 0
      /\ \A k \in 1..Len(s) : f[k] = f[k - 1] + s[k]
      /\ \A k \in 0..Len(s) : f[k] \in Nat
  BY <1>1, TotalValues
<1>5. /\ g[0] = 0
      /\ \A k \in 1..Len(t) : g[k] = g[k - 1] + t[k]
      /\ \A k \in 0..Len(t) : g[k] \in Nat
  BY <1>2, TotalValues
<1>6. ASSUME NEW k \in 1..Len(s) + Len(t)
      PROVE  h[k] = h[k - 1] + (s \o t)[k]
  <2>1. CASE k <= Len(s)
    BY <1>3, <1>4, <2>1
  <2>2. CASE ~(k <= Len(s))
    <3> DEFINE j == k - Len(s)
    <3>1. j \in 1..Len(t) /\ j - 1 \in 0..Len(t) /\ k - 1 - Len(s) = j - 1
      BY <1>3, <2>2
    <3>2. h[k] = f[Len(s)] + g[j] /\ (s \o t)[k] = t[j]
      BY <1>3, <2>2
    <3>3. h[k - 1] = f[Len(s)] + g[j - 1]
      <4>1. k - 1 \in 0..Len(s) + Len(t) /\ k - 1 - Len(s) = j - 1
        BY <1>3
      <4>2. CASE k - 1 = Len(s)
        <5>1. j - 1 = 0 /\ g[j - 1] = 0 /\ f[k - 1] = f[Len(s)] /\ f[Len(s)] \in Nat
          BY <1>3, <1>4, <1>5, <4>1, <4>2
        <5>2. h[k - 1] = f[k - 1]
          BY <1>3, <4>1, <4>2
        <5> HIDE DEF h, j
        <5> QED
          BY <5>1, <5>2
      <4>3. CASE k - 1 # Len(s)
        <5>1. ~(k - 1 <= Len(s))
          BY <1>3, <2>2, <4>3
        <5> QED
          BY <4>1, <5>1
      <4> QED
        BY <4>2, <4>3
    <3>4. g[j] = g[j - 1] + t[j] /\ t[j] \in Nat /\ g[j - 1] \in Nat /\ f[Len(s)] \in Nat
      BY <1>3, <1>4, <1>5, <3>1, ElementOfSeq
    <3> HIDE DEF j, h
    <3> QED
      BY <3>2, <3>3, <3>4
  <2> QED
    BY <2>1, <2>2
<1>7. h[0] = 0 /\ h[Len(s) + Len(t)] = f[Len(s)] + g[Len(t)]
  <2>1. h[0] = 0
    BY <1>3, <1>4
  <2>2. CASE Len(t) = 0
    BY <1>3, <1>4, <1>5, <2>2
  <2>3. CASE Len(t) # 0
    <3>1. ~(Len(s) + Len(t) <= Len(s)) /\ Len(s) + Len(t) - Len(s) = Len(t)
          /\ Len(s) + Len(t) \in 0..Len(s) + Len(t)
      BY <1>3, <2>3
    <3> QED
      BY <2>1, <3>1
  <2> QED
    BY <2>1, <2>2, <2>3
<1>8. IsTotal(h, s \o t)
  <2>1. h = [k \in 0..Len(s \o t) |-> h[k]]
    BY <1>3
  <2> HIDE DEF h
  <2>2. \A k \in 0..Len(s \o t) : h[k] = IF k = 0 THEN 0 ELSE h[k - 1] + (s \o t)[k]
    BY <1>3, <1>6, <1>7
  <2>3. h = [k \in 0..Len(s \o t) |-> IF k = 0 THEN 0 ELSE h[k - 1] + (s \o t)[k]]
    BY <2>1, <2>2
  <2> QED
    BY <2>3 DEF IsTotal
<1> HIDE DEF h
<1> QED
  BY <1>1, <1>2, <1>3, <1>7, <1>8, TotalIs

-----------------------------------------------------------------------------
(* What a text takes in the other encoding.                                *)

LEMMA SpecialCharacters == Nul \in Character /\ Escape \in Character /\ Nul.to = 1
BY ConversionAssumption DEF Nul, Escape, Character

LEMMA SizesAreNumbers ==
  ASSUME NEW text \in Seq(Character)
  PROVE  SizeIn(text) \in Nat /\ SizeOut(text) \in Nat
<1>1. ASSUME NEW sizes \in Seq(Nat) PROVE Total(sizes) \in Nat
  BY TotalExists, TotalIs
<1>2. Len(text) \in Nat /\ \A k \in 1..Len(text) : text[k] \in Character
  BY LenProperties, ElementOfSeq
<1>3. [k \in 1..Len(text) |-> text[k].from] \in Seq(Nat)
  BY <1>2 DEF Character
<1>4. [k \in 1..Len(text) |-> text[k].to] \in Seq(Nat)
  BY <1>2 DEF Character
<1> QED
  BY <1>1, <1>3, <1>4 DEF SizeIn, SizeOut

LEMMA SizeOfConcat ==
  ASSUME NEW a \in Seq(Character), NEW b \in Seq(Character)
  PROVE  SizeOut(a \o b) = SizeOut(a) + SizeOut(b)
<1> DEFINE Sizes(text) == [k \in 1..Len(text) |-> text[k].to]
<1>1. /\ Len(a) \in Nat /\ Len(b) \in Nat
      /\ \A k \in 1..Len(a) : a[k] \in Character
      /\ \A k \in 1..Len(b) : b[k] \in Character
  BY LenProperties, ElementOfSeq
<1>2. /\ Len(a \o b) = Len(a) + Len(b)
      /\ \A k \in 1..Len(a) + Len(b) :
           (a \o b)[k] = IF k <= Len(a) THEN a[k] ELSE b[k - Len(a)]
  BY ConcatProperties
<1>3. /\ Sizes(a) \in Seq(Nat) /\ Len(Sizes(a)) = Len(a)
      /\ Sizes(b) \in Seq(Nat) /\ Len(Sizes(b)) = Len(b)
  BY <1>1 DEF Character
<1>4. Sizes(a \o b) = Sizes(a) \o Sizes(b)
  <2>1. /\ Len(Sizes(a) \o Sizes(b)) = Len(a) + Len(b)
        /\ Sizes(a) \o Sizes(b) \in Seq(Nat)
        /\ \A k \in 1..Len(a) + Len(b) : (Sizes(a) \o Sizes(b))[k] =
             IF k <= Len(Sizes(a)) THEN Sizes(a)[k] ELSE Sizes(b)[k - Len(Sizes(a))]
    BY <1>3, ConcatProperties
  <2>2. /\ Len(Sizes(a \o b)) = Len(a) + Len(b)
        /\ Sizes(a \o b) = [k \in 1..Len(a) + Len(b) |-> (a \o b)[k].to]
    BY <1>1, <1>2
  <2>3. ASSUME NEW k \in 1..Len(a) + Len(b)
        PROVE  (a \o b)[k].to = (Sizes(a) \o Sizes(b))[k] /\ (a \o b)[k].to \in Nat
    <3>1. CASE k <= Len(a)
      <4>1. k \in 1..Len(a)
        BY <1>1, <3>1
      <4> QED
        BY <1>1, <1>2, <1>3, <2>1, <3>1, <4>1 DEF Character
    <3>2. CASE ~(k <= Len(a))
      <4>1. k - Len(a) \in 1..Len(b)
        BY <1>1, <3>2
      <4> QED
        BY <1>1, <1>2, <1>3, <2>1, <3>2, <4>1 DEF Character
    <3> QED
      BY <3>1, <3>2
  <2>4. Sizes(a \o b) \in Seq(Nat)
    <3>1. Len(a) + Len(b) \in Nat
      BY <1>1
    <3>2. \A k \in 1..Len(a) + Len(b) : (a \o b)[k].to \in Nat
      BY <2>3
    <3>3. [k \in 1..Len(a) + Len(b) |-> (a \o b)[k].to] \in Seq(Nat)
      BY <3>1, <3>2
    <3> HIDE DEF Sizes
    <3> QED
      BY <2>2, <3>3
  <2>5. \A k \in 1..Len(a) + Len(b) : Sizes(a \o b)[k] = (Sizes(a) \o Sizes(b))[k]
    BY <2>2, <2>3
  <2> HIDE DEF Sizes
  <2> QED
    BY <2>1, <2>2, <2>4, <2>5, SeqEqual
<1>5. \A text : SizeOut(text) = Total(Sizes(text))
  BY DEF SizeOut
<1> HIDE DEF Sizes
<1> QED
  BY <1>3, <1>4, <1>5, TotalOfConcat

LEMMA SizeOfFew ==
  /\ SizeOut(<< >>) = 0
  /\ \A c \in Character : SizeOut(<<c>>) = c.to
<1>1. SizeOut(<< >>) = 0
  <2>1. << >> \in Seq(Character) /\ << >> \o << >> = << >>
    BY EmptySeq, ConcatEmptySeq
  <2>2. SizeOut(<< >>) = SizeOut(<< >>) + SizeOut(<< >>) /\ SizeOut(<< >>) \in Nat
    BY <2>1, SizeOfConcat, SizesAreNumbers
  <2> QED
    BY <2>2
<1>2. ASSUME NEW c \in Character PROVE SizeOut(<<c>>) = c.to
  <2> DEFINE sizes == [k \in 1..Len(<<c>>) |-> <<c>>[k].to]
             f == [k \in 0..1 |-> IF k = 0 THEN 0 ELSE c.to]
  <2>1. c.to \in Nat /\ sizes \in Seq(Nat) /\ Len(sizes) = 1 /\ sizes[1] = c.to
    BY DEF Character
  <2>2. IsTotal(f, sizes)
    <3>1. \A k \in 0..1 : f[k] = IF k = 0 THEN 0 ELSE f[k - 1] + sizes[k]
      BY <2>1
    <3>2. f = [k \in 0..1 |-> f[k]]
      OBVIOUS
    <3> HIDE DEF f, sizes
    <3> QED
      BY <2>1, <3>1, <3>2 DEF IsTotal
  <2>3. f[1] = c.to
    OBVIOUS
  <2>4. SizeOut(<<c>>) = Total(sizes)
    BY DEF SizeOut
  <2> HIDE DEF f, sizes
  <2> QED
    BY <2>1, <2>2, <2>3, <2>4, TotalIs
<1> QED
  BY <1>1, <1>2

-----------------------------------------------------------------------------
(* The first part of a text and what is left of it.                        *)

LEMMA Parted ==
  ASSUME NEW S, NEW text \in Seq(S), NEW n \in 0..Len(text)
  PROVE  /\ SubSeq(text, 1, n) \in Seq(S)
         /\ SubSeq(text, n + 1, Len(text)) \in Seq(S)
         /\ Len(SubSeq(text, n + 1, Len(text))) = Len(text) - n
         /\ SubSeq(text, 1, n) \o SubSeq(text, n + 1, Len(text)) = text
<1>1. Len(text) \in Nat /\ \A i \in 1..Len(text) : text[i] \in S
  BY LenProperties, ElementOfSeq
<1>2. SubSeq(text, 1, n) \in Seq(S)
  BY <1>1, SubSeqProperties
<1>3. /\ SubSeq(text, n + 1, Len(text)) \in Seq(S)
      /\ Len(SubSeq(text, n + 1, Len(text))) = IF n + 1 <= Len(text) THEN Len(text) - (n + 1) + 1 ELSE 0
  <2>1. \A i \in n + 1 .. Len(text) : text[i] \in S
    BY <1>1
  <2>2. n + 1 \in Int /\ Len(text) \in Int
    BY <1>1
  <2> QED
    BY <2>1, <2>2, SubSeqProperties
<1>4. SubSeq(text, 1, n) \o SubSeq(text, n + 1, Len(text)) = SubSeq(text, 1, Len(text))
  <2>1. 1 \in 1..Len(text) + 1 /\ n \in 1 - 1 .. Len(text) /\ Len(text) \in n..Len(text)
    BY <1>1
  <2> QED
    BY <2>1, ConcatAdjacentSubSeq
<1>5. SubSeq(text, 1, Len(text)) = text
  BY SubSeqFull
<1>6. Len(SubSeq(text, n + 1, Len(text))) = Len(text) - n
  BY <1>1, <1>3
<1> QED
  BY <1>2, <1>3, <1>4, <1>5, <1>6

LEMMA EndOfEnd ==
  ASSUME NEW S, NEW text \in Seq(S), NEW i \in 1..Len(text), NEW m \in 0..(Len(text) - i)
  PROVE  SubSeq(SubSeq(text, i, Len(text)), m + 1, Len(text) - i + 1) = SubSeq(text, i + m, Len(text))
<1>1. Len(text) \in Nat
  BY LenProperties
<1> DEFINE first == m + 1
           last == Len(text) - i + 1
           end == Len(text)
<1>2. /\ end \in 1..Len(text) /\ first \in 1 .. end - i + 1 /\ last \in 1 .. end - i + 1
      /\ i + first - 1 = i + m /\ i + last - 1 = Len(text)
  BY <1>1
<1>3. text \in Seq(S) /\ i \in 1..Len(text)
  OBVIOUS
<1> HIDE DEF first, last, end
<1>4. SubSeq(SubSeq(text, i, end), first, last) = SubSeq(text, i + first - 1, i + last - 1)
  BY <1>2, <1>3, SubSeqOfSubSeq
<1> QED
  BY <1>2, <1>4 DEF first, last, end

LEMMA Associative ==
  \A a \in Seq(Character), b \in Seq(Character), c \in Seq(Character) :
    (a \o b) \o c = a \o (b \o c)
<1> SUFFICES ASSUME NEW a \in Seq(Character), NEW b \in Seq(Character), NEW c \in Seq(Character)
             PROVE  (a \o b) \o c = a \o (b \o c)
  OBVIOUS
<1> QED
  BY ConcatAssociative

(* The beginning of two texts put together.                                *)
LEMMA BeginningOfConcat ==
  ASSUME NEW S, NEW a \in Seq(S), NEW b \in Seq(S), NEW n \in 0..Len(a) + Len(b)
  PROVE  SubSeq(a \o b, 1, n) = IF n < Len(a) THEN SubSeq(a, 1, n)
                                ELSE a \o SubSeq(b, 1, n - Len(a))
<1>1. /\ Len(a) \in Nat /\ Len(b) \in Nat
      /\ \A i \in 1..Len(a) : a[i] \in S
      /\ \A i \in 1..Len(b) : b[i] \in S
  BY LenProperties, ElementOfSeq
<1>2. /\ a \o b \in Seq(S)
      /\ Len(a \o b) = Len(a) + Len(b)
      /\ \A i \in 1..Len(a) + Len(b) :
           (a \o b)[i] = IF i <= Len(a) THEN a[i] ELSE b[i - Len(a)]
  BY ConcatProperties
<1> DEFINE c == SubSeq(a \o b, 1, n)
<1>3. /\ c \in Seq(S) /\ Len(c) = n
      /\ \A i \in 1..n : c[i] = (a \o b)[i]
  <2>1. \A i \in 1..n : (a \o b)[i] \in S
    BY <1>1, <1>2, ElementOfSeq
  <2>2. /\ c \in Seq(S)
        /\ Len(c) = IF 1 <= n THEN n - 1 + 1 ELSE 0
        /\ \A i \in 1..n - 1 + 1 : c[i] = (a \o b)[1 + i - 1]
    BY <1>1, <2>1, SubSeqProperties
  <2> HIDE DEF c
  <2> QED
    BY <1>1, <2>2
<1>4. CASE n < Len(a)
  <2> DEFINE d == SubSeq(a, 1, n)
  <2>1. /\ d \in Seq(S) /\ Len(d) = n
        /\ \A i \in 1..n : d[i] = a[i]
    <3>1. \A i \in 1..n : a[i] \in S
      BY <1>1, <1>4
    <3>2. /\ d \in Seq(S)
          /\ Len(d) = IF 1 <= n THEN n - 1 + 1 ELSE 0
          /\ \A i \in 1..n - 1 + 1 : d[i] = a[1 + i - 1]
      BY <1>1, <3>1, SubSeqProperties
    <3> HIDE DEF d
    <3> QED
      BY <1>1, <3>2
  <2>2. \A i \in 1..n : c[i] = d[i]
    BY <1>1, <1>2, <1>3, <1>4, <2>1
  <2> HIDE DEF c, d
  <2>3. c = d
    BY <1>3, <2>1, <2>2, SeqEqual
  <2> QED
    BY <1>4, <2>3 DEF c, d
<1>5. CASE ~(n < Len(a))
  <2> DEFINE m == n - Len(a)
             e == SubSeq(b, 1, m)
             d == a \o e
  <2>1. m \in 0..Len(b)
    BY <1>1, <1>5
  <2>2. /\ e \in Seq(S) /\ Len(e) = m
        /\ \A i \in 1..m : e[i] = b[i]
    <3>1. \A i \in 1..m : b[i] \in S
      BY <1>1, <2>1
    <3>2. /\ e \in Seq(S)
          /\ Len(e) = IF 1 <= m THEN m - 1 + 1 ELSE 0
          /\ \A i \in 1..m - 1 + 1 : e[i] = b[1 + i - 1]
      BY <1>1, <2>1, <3>1, SubSeqProperties
    <3> HIDE DEF e, m
    <3> QED
      BY <1>1, <2>1, <3>2
  <2> HIDE DEF e
  <2>3. /\ d \in Seq(S) /\ Len(d) = Len(a) + m
        /\ \A i \in 1..Len(a) + m : d[i] = IF i <= Len(a) THEN a[i] ELSE e[i - Len(a)]
    BY <2>2, ConcatProperties
  <2>4. Len(a) + m = n
    BY <1>1
  <2>5. ASSUME NEW i \in 1..n PROVE c[i] = d[i]
    <3>1. CASE i <= Len(a)
      BY <1>1, <1>2, <1>3, <2>3, <2>4, <3>1
    <3>2. CASE ~(i <= Len(a))
      <4>1. i - Len(a) \in 1..m
        BY <1>1, <2>4, <3>2
      <4>2. c[i] = b[i - Len(a)]
        BY <1>1, <1>2, <1>3, <3>2
      <4>3. d[i] = e[i - Len(a)]
        BY <2>3, <2>4, <3>2
      <4> QED
        BY <2>2, <4>1, <4>2, <4>3
    <3> QED
      BY <3>1, <3>2
  <2> HIDE DEF c, d, m
  <2>6. c = d
    BY <1>3, <2>3, <2>4, <2>5, SeqEqual
  <2> QED
    BY <1>5, <2>6 DEF c, d, e, m
<1> QED
  BY <1>4, <1>5

-----------------------------------------------------------------------------
(* The invariant: what was written, what the converter holds and what it   *)
(* has not taken make up the string, in this order.                        *)

Rest == SubSeq(string, next, Len(string))

TypeInv ==
  /\ phase \in {"ready", "convert", "flush", "done", "failed"}
  /\ string \in Seq(Character) /\ held \in Seq(Character) /\ written \in Seq(Character)
  /\ resultLength \in Nat /\ outLength \in Nat /\ factor \in Nat /\ allocated \in Nat

StringInv ==
  /\ phase \in {"convert", "flush", "done"} => \E s \in Strings : string = Append(s, Nul)
  /\ phase \notin {"convert", "flush"} => held = << >>

ConvertInv == phase = "convert" =>
  /\ next \in 1..Len(string) + 1
  /\ written \o (held \o Rest) = string
  /\ held # << >> \/ next <= Len(string)

FlushInv == phase = "flush" => written \o held = string

DoneInv == phase = "done" => \E more \in Seq(Character) : written = string \o more

IInv == TypeInv /\ StringInv /\ ConvertInv /\ FlushInv /\ DoneInv /\ RoomIsAccounted

LEMMA StringsOfCharacters ==
  ASSUME NEW s \in Strings
  PROVE  /\ s \in Seq(Character \ {Nul}) /\ s \in Seq(Character)
         /\ Append(s, Nul) \in Seq(Character)
<1>1. s \in Seq(Character \ {Nul})
  BY ConversionAssumption
<1>2. s \in Seq(Character)
  BY <1>1, SeqMonotonic
<1> QED
  BY <1>1, <1>2, SpecialCharacters, AppendProperties

LEMMA InitHolds == Init => IInv
BY EmptySeq DEF Init, IInv, TypeInv, StringInv, ConvertInv, FlushInv, DoneInv, RoomIsAccounted

LEMMA StartKeeps == IInv /\ Start => IInv'
<1> SUFFICES ASSUME IInv, Start PROVE IInv'
  OBVIOUS
<1>1. PICK s \in Strings : string' = Append(s, Nul) /\ resultLength' = SizeIn(string')
  BY DEF Start
<1>2. held = << >> /\ held' = << >> /\ written' = << >> /\ next' = 1
  BY DEF IInv, StringInv, Start
<1>3. string' \in Seq(Character) /\ string' # << >> /\ resultLength' \in Nat
  <2>1. string' \in Seq(Character) /\ string' # << >>
    BY <1>1, StringsOfCharacters, SpecialCharacters, AppendProperties
  <2> QED
    BY <1>1, <2>1, SizesAreNumbers
<1>4. << >> \in Seq(Character) /\ Len(string') \in Nat /\ Len(string') # 0
  BY <1>3, EmptySeq, LenProperties
<1>5. written' \o (held' \o Rest') = string'
  <2>1. Rest' = string'
    BY <1>2, <1>3, SubSeqFull DEF Rest
  <2> QED
    BY <1>2, <1>3, <2>1, ConcatEmptySeq
<1>6. resultLength' - outLength' = SizeOut(written') /\ resultLength' = allocated'
  BY <1>2, <1>3, SizeOfFew DEF Start
<1>7. phase' = "convert" /\ outLength' = resultLength' /\ allocated' = resultLength' /\ factor' = 0
  BY DEF Start
<1>8. TypeInv'
  BY <1>2, <1>3, <1>4, <1>7 DEF TypeInv
<1>9. StringInv' /\ FlushInv' /\ DoneInv'
  BY <1>1, <1>7 DEF StringInv, FlushInv, DoneInv
<1>10. ConvertInv'
  BY <1>2, <1>4, <1>5 DEF ConvertInv
<1>11. RoomIsAccounted'
  BY <1>6, <1>7 DEF RoomIsAccounted
<1> QED
  BY <1>8, <1>9, <1>10, <1>11 DEF IInv

-----------------------------------------------------------------------------
(* What can be converted is what is held and the rest of the string, up to *)
(* the first character that is not valid.                                  *)

LEMMA ConvertibleIs ==
  ASSUME IInv, phase = "convert"
  PROVE  \E valid \in 0..Len(Rest) :
           /\ Convertible = held \o SubSeq(Rest, 1, valid)
           /\ ~HasInvalid => valid = Len(Rest)
<1>1. /\ string \in Seq(Character) /\ next \in 1..Len(string) + 1
      /\ Len(string) \in Nat /\ \A i \in 1..Len(string) : string[i] \in Character
  BY LenProperties, ElementOfSeq DEF IInv, TypeInv, ConvertInv
<1>2. /\ Rest \in Seq(Character) /\ Len(Rest) = Len(string) + 1 - next
      /\ \A i \in 1..Len(Rest) : Rest[i] = string[next + i - 1]
  <2>1. \A i \in next..Len(string) : string[i] \in Character
    BY <1>1
  <2>2. /\ Rest \in Seq(Character)
        /\ Len(Rest) = IF next <= Len(string) THEN Len(string) - next + 1 ELSE 0
        /\ \A i \in 1..Len(string) - next + 1 : Rest[i] = string[next + i - 1]
    BY <1>1, <2>1, SubSeqProperties DEF Rest
  <2> QED
    BY <1>1, <2>2
<1> DEFINE bad == {i \in next..Len(string) : IsInvalid(i)}
           First(i) == i \in bad /\ \A j \in bad : i <= j
           first == CHOOSE i \in bad : \A j \in bad : i <= j
<1>3. Convertible = held \o (IF bad = {} THEN Rest ELSE SubSeq(string, next, first - 1))
  BY DEF Convertible, Rest
<1>4. HasInvalid <=> bad # {}
  BY DEF HasInvalid
<1>5. CASE bad = {}
  <2>1. SubSeq(Rest, 1, Len(Rest)) = Rest /\ Len(Rest) \in 0..Len(Rest)
    BY <1>1, <1>2, SubSeqFull
  <2> QED
    BY <1>3, <1>5, <2>1
<1>6. CASE bad # {}
  <2>1. bad \subseteq Nat
    BY <1>1
  <2> HIDE DEF bad
  <2>2. \E i \in bad : \A j \in bad : i <= j
    BY <1>6, <2>1, LeastNumber
  <2>3. first \in bad
    BY <2>2
  <2>4. first \in next..Len(string)
    BY <2>3 DEF bad
  <2> HIDE DEF first
  <2> DEFINE valid == first - next
  <2>5. valid \in 0..Len(Rest) - 1 /\ valid \in 0..Len(Rest)
    BY <1>1, <1>2, <2>4
  <2>6. SubSeq(string, next, first - 1) = SubSeq(Rest, 1, valid)
    <3> DEFINE a == SubSeq(string, next, first - 1)
               b == SubSeq(Rest, 1, valid)
    <3>1. /\ a \in Seq(Character)
          /\ Len(a) = valid
          /\ \A i \in 1..valid : a[i] = string[next + i - 1]
      <4>1. \A i \in next..first - 1 : string[i] \in Character
        BY <1>1, <2>4
      <4>2. /\ a \in Seq(Character)
            /\ Len(a) = IF next <= first - 1 THEN first - 1 - next + 1 ELSE 0
            /\ \A i \in 1..first - 1 - next + 1 : a[i] = string[next + i - 1]
        BY <1>1, <2>4, <4>1, SubSeqProperties
      <4> HIDE DEF a
      <4> QED
        BY <1>1, <2>4, <4>2
    <3>2. /\ b \in Seq(Character)
          /\ Len(b) = valid
          /\ \A i \in 1..valid : b[i] = Rest[i]
      <4>1. \A i \in 1..valid : Rest[i] \in Character
        BY <1>2, <2>5, ElementOfSeq
      <4>2. /\ b \in Seq(Character)
            /\ Len(b) = IF 1 <= valid THEN valid - 1 + 1 ELSE 0
            /\ \A i \in 1..valid - 1 + 1 : b[i] = Rest[1 + i - 1]
        BY <2>5, <4>1, SubSeqProperties
      <4> HIDE DEF b, valid
      <4> QED
        BY <2>5, <4>2
    <3>3. \A i \in 1..valid : a[i] = b[i]
      BY <1>1, <1>2, <2>5, <3>1, <3>2
    <3> HIDE DEF a, b, valid
    <3>4. a = b
      BY <3>1, <3>2, <3>3, SeqEqual
    <3> QED
      BY <3>4 DEF a, b
  <2> HIDE DEF valid
  <2> QED
    BY <1>3, <1>4, <1>6, <2>5, <2>6
<1> QED
  BY <1>5, <1>6

LEMMA ConvertingIs ==
  ASSUME IInv, phase = "convert"
  PROVE  /\ Rest \in Seq(Character) /\ Len(Rest) \in Nat /\ Len(held) \in Nat
         /\ Len(Rest) = Len(string) + 1 - next
         /\ Convertible \in Seq(Character)
         /\ ~HasInvalid => Convertible = held \o Rest /\ Len(Convertible) >= 1
<1>1. /\ string \in Seq(Character) /\ next \in 1..Len(string) + 1
      /\ held \in Seq(Character)
      /\ Len(string) \in Nat
      /\ held # << >> \/ next <= Len(string)
  BY LenProperties DEF IInv, TypeInv, ConvertInv
<1>2. Rest \in Seq(Character) /\ Len(Rest) = Len(string) + 1 - next
  <2>1. next - 1 \in 0..Len(string) /\ (next - 1) + 1 = next
    BY <1>1
  <2>2. /\ SubSeq(string, (next - 1) + 1, Len(string)) \in Seq(Character)
        /\ Len(SubSeq(string, (next - 1) + 1, Len(string))) = Len(string) - (next - 1)
    BY <1>1, <2>1, Parted
  <2> QED
    BY <1>1, <2>1, <2>2 DEF Rest
<1>3. Len(Rest) \in Nat /\ Len(held) \in Nat
  BY <1>1, <1>2, LenProperties
<1>4. PICK valid \in 0..Len(Rest) :
        /\ Convertible = held \o SubSeq(Rest, 1, valid)
        /\ ~HasInvalid => valid = Len(Rest)
  BY ConvertibleIs
<1>5. SubSeq(Rest, 1, valid) \in Seq(Character)
  BY <1>2, <1>4, Parted
<1>6. Convertible \in Seq(Character)
  BY <1>1, <1>4, <1>5, ConcatProperties
<1>7. ASSUME ~HasInvalid PROVE Convertible = held \o Rest /\ Len(Convertible) >= 1
  <2>1. Convertible = held \o Rest
    BY <1>2, <1>4, <1>7, SubSeqFull
  <2>2. Len(Convertible) = Len(held) + Len(Rest)
    BY <1>1, <1>2, <2>1, ConcatProperties
  <2>3. Len(held) >= 1 \/ Len(Rest) >= 1
    BY <1>1, <1>2, <1>3, EmptySeq
  <2> QED
    BY <1>3, <2>1, <2>2, <2>3
<1> QED
  BY <1>1, <1>2, <1>3, <1>6, <1>7

LEMMA FailKeeps == IInv /\ Fail => IInv'
BY EmptySeq
DEF Fail, IInv, TypeInv, StringInv, ConvertInv, FlushInv, DoneInv, RoomIsAccounted

LEMMA FlushNeedsRoomKeeps == IInv /\ FlushNeedsRoom => IInv'
<1> SUFFICES ASSUME IInv, FlushNeedsRoom PROVE IInv'
  OBVIOUS
<1>1. /\ phase = "flush" /\ phase' = "flush"
      /\ string' = string /\ next' = next /\ held' = held /\ written' = written
      /\ factor' = factor + 1
      /\ resultLength' = resultLength + factor' * Expansion
      /\ outLength' = outLength + factor' * Expansion
      /\ allocated' = resultLength'
  BY DEF FlushNeedsRoom, Expand, conversion
<1>2. resultLength \in Nat /\ outLength \in Nat /\ factor \in Nat /\ Expansion \in Nat
  BY ConversionAssumption DEF IInv, TypeInv
<1>3. factor' \in Nat /\ factor' * Expansion \in Nat
  BY <1>1, <1>2
<1> DEFINE growth == factor' * Expansion
<1> HIDE DEF growth
<1>4. growth \in Nat /\ resultLength' = resultLength + growth /\ outLength' = outLength + growth
  BY <1>1, <1>3 DEF growth
<1>5. TypeInv'
  BY <1>1, <1>2, <1>3, <1>4 DEF IInv, TypeInv
<1>6. StringInv' /\ ConvertInv' /\ FlushInv' /\ DoneInv'
  BY <1>1 DEF IInv, StringInv, ConvertInv, FlushInv, DoneInv
<1>7. RoomIsAccounted'
  <2>1. resultLength - outLength = SizeOut(written)
    BY <1>1 DEF IInv, RoomIsAccounted
  <2>2. resultLength' - outLength' = SizeOut(written)
    BY <1>2, <1>4, <2>1
  <2> QED
    BY <1>1, <2>2 DEF RoomIsAccounted
<1> QED
  BY <1>5, <1>6, <1>7 DEF IInv

LEMMA ConvertRestKeeps == IInv /\ ConvertRest => IInv'
<1> SUFFICES ASSUME IInv, ConvertRest PROVE IInv'
  OBVIOUS
<1>1. PICK n \in {Len(Convertible) - 1, Len(Convertible)} :
        /\ SizeOut(SubSeq(Convertible, 1, n)) <= outLength
        /\ written' = written \o SubSeq(Convertible, 1, n)
        /\ held' = SubSeq(Convertible, n + 1, Len(Convertible))
        /\ outLength' = outLength - SizeOut(SubSeq(Convertible, 1, n))
  BY DEF ConvertRest
<1> DEFINE out == SubSeq(Convertible, 1, n)
<1>2. /\ phase = "convert" /\ ~HasInvalid /\ phase' = "flush"
      /\ string' = string /\ resultLength' = resultLength
      /\ factor' = factor /\ allocated' = allocated
  BY DEF ConvertRest
<1>3. /\ Rest \in Seq(Character)
      /\ Convertible \in Seq(Character) /\ Convertible = held \o Rest /\ Len(Convertible) >= 1
  BY <1>2, ConvertingIs
<1>4. n \in 0..Len(Convertible)
  BY <1>3, LenProperties
<1>5. /\ out \in Seq(Character) /\ held' \in Seq(Character)
      /\ out \o held' = Convertible
  <2>1. /\ SubSeq(Convertible, 1, n) \in Seq(Character)
        /\ SubSeq(Convertible, n + 1, Len(Convertible)) \in Seq(Character)
        /\ SubSeq(Convertible, 1, n) \o SubSeq(Convertible, n + 1, Len(Convertible)) = Convertible
    <3>1. Convertible \in Seq(Character)
      BY <1>3
    <3> QED
      BY <1>4, <3>1, Parted
  <2> QED
    BY <1>1, <2>1
<1>6. /\ written \in Seq(Character) /\ held \in Seq(Character)
      /\ outLength \in Nat /\ resultLength \in Nat
      /\ resultLength - outLength = SizeOut(written) /\ resultLength = allocated
      /\ written \o (held \o Rest) = string
  BY <1>2 DEF IInv, TypeInv, ConvertInv, RoomIsAccounted
<1>7. SizeOut(out) \in Nat /\ SizeOut(out) <= outLength /\ outLength' = outLength - SizeOut(out)
      /\ written' = written \o out
  BY <1>1, <1>5, SizesAreNumbers
<1> HIDE DEF out
<1>8. written' \o held' = string'
  <2>1. (written \o out) \o held' = written \o (out \o held')
    <3>1. written \in Seq(Character) /\ out \in Seq(Character) /\ held' \in Seq(Character)
      BY <1>5, <1>6
    <3> QED
      BY <3>1, Associative
  <2> QED
    BY <1>2, <1>3, <1>5, <1>6, <1>7, <2>1
<1>9. written' \in Seq(Character) /\ SizeOut(written') = SizeOut(written) + SizeOut(out)
  BY <1>5, <1>6, <1>7, ConcatProperties, SizeOfConcat
<1>10. TypeInv'
  BY <1>2, <1>5, <1>6, <1>7, <1>9 DEF IInv, TypeInv
<1>11. StringInv' /\ ConvertInv' /\ DoneInv'
  BY <1>2 DEF IInv, StringInv, ConvertInv, DoneInv
<1>12. FlushInv'
  BY <1>8 DEF FlushInv
<1>13. RoomIsAccounted'
  <2>1. SizeOut(written) \in Nat
    BY <1>6, SizesAreNumbers
  <2>2. resultLength' - outLength' = SizeOut(written') /\ resultLength' = allocated'
    BY <1>2, <1>6, <1>7, <1>9, <2>1
  <2> QED
    BY <1>2, <2>2 DEF RoomIsAccounted
<1> QED
  BY <1>10, <1>11, <1>12, <1>13 DEF IInv

LEMMA ConvertSomeKeeps == IInv /\ ConvertSome => IInv'
<1> SUFFICES ASSUME IInv, ConvertSome PROVE IInv'
  OBVIOUS
<1> DEFINE Out(n) == SubSeq(Convertible, 1, n)
<1>1. PICK n \in 0..(Len(Convertible) - 1) :
        /\ SizeOut(Out(n)) <= outLength
        /\ written' = written \o Out(n)
        /\ next' = IF n < Len(held) THEN next ELSE next + n - Len(held)
        /\ held' = IF n < Len(held) THEN SubSeq(held, n + 1, Len(held)) ELSE << >>
        /\ Expand(outLength - SizeOut(Out(n)))
  BY DEF ConvertSome
<1>2. phase = "convert" /\ phase' = "convert" /\ string' = string
  BY DEF ConvertSome
<1>3. /\ Rest \in Seq(Character) /\ Len(Rest) \in Nat /\ Len(held) \in Nat
      /\ Len(Rest) = Len(string) + 1 - next
      /\ Convertible \in Seq(Character)
  BY <1>2, ConvertingIs
<1>4. /\ string \in Seq(Character) /\ next \in 1..Len(string) + 1 /\ Len(string) \in Nat
      /\ written \in Seq(Character) /\ held \in Seq(Character)
      /\ outLength \in Nat /\ resultLength \in Nat /\ factor \in Nat
      /\ resultLength - outLength = SizeOut(written)
      /\ written \o (held \o Rest) = string
  BY <1>2, LenProperties DEF IInv, TypeInv, ConvertInv, RoomIsAccounted
<1>5. PICK valid \in 0..Len(Rest) : Convertible = held \o SubSeq(Rest, 1, valid)
  BY <1>2, ConvertibleIs
<1> DEFINE part == SubSeq(Rest, 1, valid)
           out == Out(n)
<1>6. part \in Seq(Character) /\ Len(part) = valid
  <2>1. \A i \in 1..valid : Rest[i] \in Character
    BY <1>3, <1>5, ElementOfSeq
  <2>2. part \in Seq(Character) /\ Len(part) = IF 1 <= valid THEN valid - 1 + 1 ELSE 0
    BY <1>3, <1>5, <2>1, SubSeqProperties
  <2> HIDE DEF part
  <2> QED
    BY <1>3, <1>5, <2>2
<1>7. n \in Nat /\ n < Len(held) + valid
  <2>1. Len(Convertible) = Len(held) + Len(part)
    BY <1>4, <1>5, <1>6, ConcatProperties
  <2> HIDE DEF part
  <2> QED
    BY <1>1, <1>3, <1>5, <1>6, <2>1
<1>8. out = IF n < Len(held) THEN SubSeq(held, 1, n) ELSE held \o SubSeq(part, 1, n - Len(held))
  <2>1. n \in 0..Len(held) + Len(part)
    BY <1>1, <1>3, <1>5, <1>6, <1>7
  <2> HIDE DEF part
  <2>2. SubSeq(held \o part, 1, n) =
          IF n < Len(held) THEN SubSeq(held, 1, n) ELSE held \o SubSeq(part, 1, n - Len(held))
    BY <1>4, <1>6, <2>1, BeginningOfConcat
  <2> QED
    BY <1>5, <2>2 DEF part
(* What is written and what is left are what could be converted, and in    *)
(* its order.                                                              *)
<1>9. /\ out \in Seq(Character) /\ held' \in Seq(Character) /\ Rest' \in Seq(Character)
      /\ out \o (held' \o Rest') = held \o Rest
      /\ next' \in 1..Len(string) + 1
      /\ held' # << >> \/ next' <= Len(string)
  <2>1. CASE n < Len(held)
    <3>1. n \in 0..Len(held)
      BY <1>3, <1>7, <2>1
    <3>2. /\ SubSeq(held, 1, n) \in Seq(Character)
          /\ SubSeq(held, n + 1, Len(held)) \in Seq(Character)
          /\ Len(SubSeq(held, n + 1, Len(held))) = Len(held) - n
          /\ SubSeq(held, 1, n) \o SubSeq(held, n + 1, Len(held)) = held
      BY <1>4, <3>1, Parted
    <3>3. out = SubSeq(held, 1, n) /\ held' = SubSeq(held, n + 1, Len(held)) /\ next' = next
      BY <1>1, <1>8, <2>1
    <3>4. Rest' = Rest
      BY <1>2, <3>3 DEF Rest
    <3>5. out \o held' = held /\ out \in Seq(Character) /\ held' \in Seq(Character)
      BY <3>2, <3>3
    <3>6. held' # << >>
      <4>1. Len(held') = Len(held) - n
        BY <3>2, <3>3
      <4>2. Len(held) - n # 0
        BY <1>3, <1>7, <2>1
      <4>3. Len(<< >>) = 0
        BY EmptySeq
      <4> QED
        BY <4>1, <4>2, <4>3
    <3> HIDE DEF out
    <3>7. (out \o held') \o Rest = out \o (held' \o Rest)
      <4>1. out \in Seq(Character) /\ held' \in Seq(Character) /\ Rest \in Seq(Character)
        BY <1>3, <3>5
      <4> QED
        BY <4>1, Associative
    <3> QED
      BY <1>3, <1>4, <3>3, <3>4, <3>5, <3>6, <3>7
  <2>2. CASE ~(n < Len(held))
    <3> DEFINE m == n - Len(held)
    <3>1. m \in 0..valid /\ m < valid /\ m \in 0..Len(Rest) /\ m < Len(Rest)
      BY <1>3, <1>5, <1>7, <2>2
    <3>2. next' = next + m /\ held' = << >>
      BY <1>1, <1>3, <1>4, <1>7, <2>2
    <3>3. SubSeq(part, 1, m) = SubSeq(Rest, 1, m)
      <4>1. /\ SubSeq(Rest, valid + 1, Len(Rest)) \in Seq(Character)
            /\ part \o SubSeq(Rest, valid + 1, Len(Rest)) = Rest
        BY <1>3, <1>5, Parted
      <4> DEFINE tail == SubSeq(Rest, valid + 1, Len(Rest))
      <4> HIDE DEF tail, part, m
      <4>2. tail \in Seq(Character) /\ part \o tail = Rest
        BY <4>1 DEF tail, part
      <4>3. m \in 0..Len(part) + Len(tail) /\ m < Len(part)
        <5>1. Len(tail) \in Nat
          BY <4>2, LenProperties
        <5> QED
          BY <1>5, <1>6, <3>1, <5>1
      <4> QED
        BY <1>6, <4>2, <4>3, BeginningOfConcat
    <3>4. /\ SubSeq(Rest, 1, m) \in Seq(Character)
          /\ SubSeq(Rest, m + 1, Len(Rest)) \in Seq(Character)
          /\ SubSeq(Rest, 1, m) \o SubSeq(Rest, m + 1, Len(Rest)) = Rest
      BY <1>3, <3>1, Parted
    <3>5. Rest' = SubSeq(Rest, m + 1, Len(Rest)) /\ Rest' \in Seq(Character)
      <4>1. next \in 1..Len(string) /\ m \in 0..(Len(string) - next)
        BY <1>3, <1>4, <3>1
      <4>2. string \in Seq(Character)
        BY <1>4
      <4>3. SubSeq(SubSeq(string, next, Len(string)), m + 1, Len(string) - next + 1)
              = SubSeq(string, next + m, Len(string))
        <5> HIDE DEF m
        <5> QED
          BY <4>1, <4>2, EndOfEnd
      <4>4. Len(Rest) = Len(string) - next + 1
        BY <1>3, <1>4
      <4>5. SubSeq(Rest, m + 1, Len(Rest)) = SubSeq(string, next + m, Len(string))
        BY <4>3, <4>4 DEF Rest
      <4>6. Rest' = SubSeq(string, next + m, Len(string))
        BY <1>2, <3>2 DEF Rest
      <4> QED
        BY <3>4, <4>5, <4>6
    <3>6. out = held \o SubSeq(Rest, 1, m)
      BY <1>8, <2>2, <3>3
    <3> DEFINE taken == SubSeq(Rest, 1, m)
    <3>7. taken \in Seq(Character) /\ taken \o Rest' = Rest /\ out = held \o taken
      BY <3>4, <3>5, <3>6
    <3> HIDE DEF taken, out, part
    <3>8. out \in Seq(Character) /\ (held \o taken) \o Rest' = held \o (taken \o Rest')
      <4>1. held \in Seq(Character) /\ taken \in Seq(Character) /\ Rest' \in Seq(Character)
        BY <1>4, <3>5, <3>7
      <4>2. held \o taken \in Seq(Character)
        BY <4>1, ConcatProperties
      <4> QED
        BY <3>7, <4>1, <4>2, Associative
    <3>9. held' \o Rest' = Rest' /\ held' \in Seq(Character)
      BY <3>2, <3>5, ConcatEmptySeq, EmptySeq
    <3>10. next' \in 1..Len(string) + 1 /\ next' <= Len(string)
      BY <1>3, <1>4, <3>1, <3>2
    <3> QED
      BY <3>5, <3>7, <3>8, <3>9, <3>10
  <2> QED
    BY <2>1, <2>2
<1>10. /\ SizeOut(out) \in Nat /\ SizeOut(out) <= outLength
       /\ written' = written \o out
       /\ factor' = factor + 1
       /\ resultLength' = resultLength + factor' * Expansion
       /\ outLength' = outLength - SizeOut(out) + factor' * Expansion
       /\ allocated' = resultLength'
  BY <1>1, <1>9, SizesAreNumbers DEF Expand
<1> HIDE DEF out, part
<1>11. /\ written' \in Seq(Character)
       /\ SizeOut(written') = SizeOut(written) + SizeOut(out)
       /\ written' \o (held' \o Rest') = string
  <2>1. held' \o Rest' \in Seq(Character)
    BY <1>9, ConcatProperties
  <2>2. (written \o out) \o (held' \o Rest') = written \o (out \o (held' \o Rest'))
    <3>1. written \in Seq(Character) /\ out \in Seq(Character)
      BY <1>4, <1>9
    <3> QED
      BY <2>1, <3>1, Associative
  <2> QED
    BY <1>4, <1>9, <1>10, <2>2, ConcatProperties, SizeOfConcat
<1> DEFINE growth == factor' * Expansion
<1>12. growth \in Nat
  BY <1>4, <1>10, ConversionAssumption
<1>13. resultLength' = resultLength + growth /\ outLength' = outLength - SizeOut(out) + growth
  BY <1>10
<1> HIDE DEF growth
<1>14. TypeInv'
  <2>1. resultLength' \in Nat /\ outLength' \in Nat /\ factor' \in Nat
    <3>1. factor' \in Nat
      <4>1. factor \in Nat /\ factor' = factor + 1
        BY <1>4, <1>10
      <4> QED
        BY <4>1
    <3>2. resultLength' \in Nat /\ outLength' \in Nat
      <4>1. /\ resultLength \in Nat /\ outLength \in Nat
            /\ SizeOut(out) \in Nat /\ SizeOut(out) <= outLength
        BY <1>4, <1>10
      <4> QED
        BY <1>12, <1>13, <4>1
    <3> QED
      BY <3>1, <3>2
  <2> QED
    BY <1>2, <1>4, <1>9, <1>10, <1>11, <2>1 DEF TypeInv
<1>15. StringInv' /\ FlushInv' /\ DoneInv'
  BY <1>2 DEF IInv, StringInv, FlushInv, DoneInv
<1>16. ConvertInv'
  BY <1>2, <1>9, <1>11 DEF ConvertInv
<1>17. RoomIsAccounted'
  <2>1. SizeOut(written) \in Nat
    BY <1>4, SizesAreNumbers
  <2>2. resultLength' - outLength' = SizeOut(written')
    <3>1. resultLength - outLength = SizeOut(written) /\ SizeOut(out) \in Nat
          /\ resultLength \in Nat /\ outLength \in Nat
          /\ SizeOut(written') = SizeOut(written) + SizeOut(out)
      BY <1>4, <1>10, <1>11
    <3> QED
      BY <1>12, <1>13, <2>1, <3>1
  <2> QED
    BY <1>2, <1>10, <2>2 DEF RoomIsAccounted
<1> QED
  BY <1>14, <1>15, <1>16, <1>17 DEF IInv

LEMMA FlushKeeps == IInv /\ Flush => IInv'
<1> SUFFICES ASSUME IInv, Flush PROVE IInv'
  OBVIOUS
<1>1. PICK f \in Flushes :
        SizeOut(f) <= outLength /\ Finalize(written \o f, outLength - SizeOut(f))
  BY DEF Flush
<1> DEFINE result == written \o f
           room == outLength - SizeOut(f)
           ended == result[Len(result)] = Nul
<1>2. /\ phase = "flush" /\ phase' = "done" /\ held' = << >> /\ string' = string
  BY DEF Flush
<1>3. /\ written \in Seq(Character) /\ held \in Seq(Character)
      /\ resultLength \in Nat /\ outLength \in Nat /\ factor \in Nat
      /\ written \o held = string
      /\ resultLength - outLength = SizeOut(written) /\ resultLength = allocated
  BY <1>2 DEF IInv, TypeInv, FlushInv, RoomIsAccounted
<1>4. \E more \in Seq(Character) : f = held \o more
  <2>1. CASE f = held
    BY <1>3, <2>1, EmptySeq, ConcatEmptySeq
  <2>2. CASE f = Append(held, Escape)
    <3>1. f = held \o <<Escape>>
      BY <1>3, <2>2, SpecialCharacters, AppendIsConcat
    <3>2. <<Escape>> \in Seq(Character)
      BY SpecialCharacters
    <3> QED
      BY <3>1, <3>2
  <2> QED
    BY <2>1, <2>2 DEF Flushes
<1>5. PICK more \in Seq(Character) : f = held \o more
  BY <1>4
<1>6. f \in Seq(Character)
  BY <1>3, <1>5, ConcatProperties
<1>7. result \in Seq(Character) /\ SizeOut(result) = SizeOut(written) + SizeOut(f)
  BY <1>3, <1>6, ConcatProperties, SizeOfConcat
<1>8. result = string \o more
  <2>1. (written \o held) \o more = written \o (held \o more)
    <3>1. written \in Seq(Character) /\ held \in Seq(Character)
      BY <1>3
    <3> QED
      BY <3>1, Associative
  <2> QED
    BY <1>3, <1>5, <2>1
<1>9. SizeOut(written) \in Nat /\ SizeOut(f) \in Nat /\ SizeOut(result) \in Nat
  BY <1>3, <1>6, <1>7, SizesAreNumbers
<1>10. room \in Nat /\ resultLength - room = SizeOut(result)
  BY <1>1, <1>3, <1>7, <1>9
<1>11. /\ written' = IF ended THEN result ELSE Append(result, Nul)
       /\ allocated' = IF ~ended /\ room = 0 THEN resultLength - room + 1 ELSE allocated
       /\ resultLength' = IF ~ended /\ room = 0 THEN resultLength - room ELSE resultLength
       /\ outLength' = 0 /\ factor' = factor
  BY <1>1 DEF Finalize
<1> HIDE DEF result, room, ended
<1>12. string \in Seq(Character) /\ more \in Seq(Character)
  BY DEF IInv, TypeInv
<1>13. /\ Append(result, Nul) = result \o <<Nul>>
       /\ <<Nul>> \in Seq(Character)
       /\ more \o <<Nul>> \in Seq(Character)
       /\ Append(result, Nul) \in Seq(Character)
       /\ Append(result, Nul) = string \o (more \o <<Nul>>)
       /\ SizeOut(Append(result, Nul)) = SizeOut(result) + 1
  <2>1. <<Nul>> \in Seq(Character)
    BY SpecialCharacters
  <2>2. Append(result, Nul) = result \o <<Nul>>
    BY <1>7, SpecialCharacters, AppendIsConcat
  <2>3. (string \o more) \o <<Nul>> = string \o (more \o <<Nul>>)
    BY <1>12, <2>1, Associative
  <2>4. more \o <<Nul>> \in Seq(Character) /\ result \o <<Nul>> \in Seq(Character)
    BY <1>7, <2>1, ConcatProperties
  <2>5. SizeOut(result \o <<Nul>>) = SizeOut(result) + SizeOut(<<Nul>>)
    BY <1>7, <2>1, SizeOfConcat
  <2>6. SizeOut(<<Nul>>) = 1
    BY SpecialCharacters, SizeOfFew
  <2> QED
    BY <1>8, <2>1, <2>2, <2>3, <2>4, <2>5, <2>6
<1>14. /\ written' \in Seq(Character)
       /\ \E rest \in Seq(Character) : written' = string \o rest
  <2>1. CASE ended
    BY <1>7, <1>8, <1>11, <2>1
  <2>2. CASE ~ended
    BY <1>11, <1>13, <2>2
  <2> QED
    BY <2>1, <2>2
<1>15. SizeOut(written') <= allocated'
  <2>1. CASE ended
    BY <1>3, <1>9, <1>10, <1>11, <2>1
  <2>2. CASE ~ended /\ room = 0
    BY <1>3, <1>9, <1>10, <1>11, <1>13, <2>2
  <2>3. CASE ~ended /\ room # 0
    BY <1>3, <1>9, <1>10, <1>11, <1>13, <2>3
  <2> QED
    BY <2>1, <2>2, <2>3
<1>16. allocated' \in Nat /\ resultLength' \in Nat
  BY <1>3, <1>9, <1>10, <1>11
<1>17. TypeInv'
  BY <1>2, <1>11, <1>12, <1>14, <1>16, <1>3, EmptySeq DEF TypeInv
<1>18. StringInv' /\ ConvertInv' /\ FlushInv'
  BY <1>2 DEF IInv, StringInv, ConvertInv, FlushInv
<1>19. DoneInv' /\ RoomIsAccounted'
  BY <1>2, <1>14, <1>15 DEF DoneInv, RoomIsAccounted
<1> QED
  BY <1>17, <1>18, <1>19 DEF IInv

LEMMA UnchangedKeeps == IInv /\ UNCHANGED vars => IInv'
BY DEF vars, conversion, buffer, IInv, TypeInv, StringInv, ConvertInv, FlushInv, DoneInv,
       RoomIsAccounted, Rest

LEMMA Invariant == Spec => []IInv
<1>1. IInv /\ [Next]_vars => IInv'
  BY StartKeeps, ConvertSomeKeeps, ConvertRestKeeps, FailKeeps, FlushNeedsRoomKeeps,
     FlushKeeps, UnchangedKeeps DEF Next, Step
<1> QED
  BY <1>1, InitHolds, PTL DEF Spec

-----------------------------------------------------------------------------

(* The room the converter is told of is the room the buffer has, however   *)
(* often bib_char_convert grows it; and a finished result, with the NUL    *)
(* that _bib_char_converter_finalize may add, lies in its allocation.      *)
THEOREM RoomStaysAccounted == Spec => []RoomIsAccounted
<1>1. IInv => RoomIsAccounted
  BY DEF IInv
<1> QED
  BY <1>1, Invariant, PTL

(* A finished result reads as the string that was given, whatever the      *)
(* converter held back and however the buffer was grown.                   *)
THEOREM ResultsAreTheirStrings == Spec => []ResultIsTheString
<1>1. ASSUME IInv PROVE ResultIsTheString
  <2>1. SUFFICES ASSUME phase = "done"
                 PROVE  LET length == CHOOSE n \in 0..(Len(written) - 1) :
                                        written[n + 1] = Nul /\ \A i \in 1..n : written[i] # Nul
                        IN  /\ \E i \in DOMAIN written : written[i] = Nul
                            /\ SubSeq(written, 1, length) = SubSeq(string, 1, Len(string) - 1)
    BY DEF ResultIsTheString
  <2>2. PICK s \in Strings : string = Append(s, Nul)
    BY <1>1, <2>1 DEF IInv, StringInv
  <2>3. PICK more \in Seq(Character) : written = string \o more
    BY <1>1, <2>1 DEF IInv, DoneInv
  <2>4. string \in Seq(Character) /\ s \in Seq(Character) /\ s \in Seq(Character \ {Nul})
    BY <1>1, StringsOfCharacters DEF IInv, TypeInv
  <2>5. /\ Len(s) \in Nat /\ Len(more) \in Nat
        /\ Len(string) = Len(s) + 1
        /\ string[Len(s) + 1] = Nul
        /\ \A i \in 1..Len(s) : string[i] = s[i] /\ s[i] # Nul
    <3>1. \A i \in 1..Len(s) : s[i] \in Character \ {Nul}
      BY <2>4, ElementOfSeq
    <3> QED
      BY <2>2, <2>4, <3>1, SpecialCharacters, AppendProperties, LenProperties
  <2>6. /\ Len(written) = Len(string) + Len(more)
        /\ DOMAIN written = 1..Len(written)
        /\ \A i \in 1..Len(string) + Len(more) :
             written[i] = IF i <= Len(string) THEN string[i] ELSE more[i - Len(string)]
    BY <2>3, <2>4, ConcatProperties, LenProperties
  <2>7. /\ written[Len(s) + 1] = Nul
        /\ \A i \in 1..Len(s) : written[i] # Nul
        /\ Len(s) \in 0..(Len(written) - 1)
        /\ Len(s) + 1 \in DOMAIN written
    BY <2>5, <2>6
  <2> DEFINE Ends(n) == written[n + 1] = Nul /\ \A i \in 1..n : written[i] # Nul
             length == CHOOSE n \in 0..(Len(written) - 1) : Ends(n)
  <2>8. Ends(Len(s))
    BY <2>7
  <2>9. length \in 0..(Len(written) - 1) /\ Ends(length)
    <3> HIDE DEF Ends
    <3> QED
      BY <2>7, <2>8
  <2>10. length = Len(s)
    <3> HIDE DEF length
    <3>1. ~(length < Len(s))
      <4>1. length < Len(s) => length + 1 \in 1..Len(s)
        BY <2>5, <2>9
      <4> QED
        BY <2>7, <2>9, <4>1
    <3>2. ~(Len(s) < length)
      <4>1. Len(s) < length => Len(s) + 1 \in 1..length
        BY <2>5, <2>9
      <4> QED
        BY <2>7, <2>9, <4>1
    <3> QED
      BY <2>5, <2>6, <2>9, <3>1, <3>2
  <2>11. SubSeq(written, 1, Len(s)) = SubSeq(string, 1, Len(s))
    <3>1. Len(s) \in 0..Len(string) + Len(more) /\ Len(s) < Len(string)
      BY <2>5
    <3> QED
      BY <2>3, <2>4, <3>1, BeginningOfConcat
  <2>12. Len(string) - 1 = Len(s)
    BY <2>5
  <2> HIDE DEF length
  <2>13. SubSeq(written, 1, length) = SubSeq(string, 1, Len(string) - 1)
    BY <2>10, <2>11, <2>12
  <2> QED
    BY <2>7, <2>13 DEF length
<1> QED
  BY <1>1, Invariant, PTL
=============================================================================
