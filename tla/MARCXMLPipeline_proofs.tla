----------------------- MODULE MARCXMLPipeline_proofs -----------------------
(***************************************************************************)
(* For all records, wherever a document was cut off and however the        *)
(* streams fail: what a BibMARCXMLInputStream returns of a document that a *)
(* BibMARCXMLOutputStream made are its first records, it reports the end   *)
(* only after the last, and it returns nothing more once it has failed.    *)
(*                                                                         *)
(* The parser is followed node by node over what is written for a content, *)
(* a subfield, a field and a record, then over a document of records of    *)
(* which only the first nodes may be there; then come the writer, that     *)
(* makes such documents, and the reader, that stands between two records   *)
(* of one.                                                                 *)
(***************************************************************************)
EXTENDS MARCXMLPipeline, SequenceTheorems, NaturalsInduction, WellFoundedInduction, TLAPS

(* A set of numbers that has one has a least one.                          *)
LEMMA LeastNumber ==
  ASSUME NEW D, D \subseteq Nat, D # {}
  PROVE  \E x \in D : \A y \in D : x <= y
<1> DEFINE Less == {ss \in Nat \X Nat : ss[1] < ss[2]}
<1>1. IsWellFoundedOn(Less, Nat)
  BY NatLessThanWellFounded DEF OpToRel
<1> HIDE DEF Less
<1>2. PICK x \in D : \A y \in D : ~(<<y, x>> \in Less)
  BY <1>1, WFMin
<1>3. ASSUME NEW y \in D PROVE x <= y
  <2>1. x \in Nat /\ y \in Nat
    OBVIOUS
  <2>2. y < x => <<y, x>> \in Less
    BY <2>1 DEF Less
  <2> QED
    BY <1>2, <2>1, <2>2
<1> QED
  BY <1>3

(* What holds of 0, and of a number when it holds of the one before.       *)
LEMMA UpTo ==
  ASSUME NEW n \in Nat, NEW S, 0 \in S, \A k \in 1..n : k - 1 \in S => k \in S
  PROVE  \A k \in 0..n : k \in S
<1> DEFINE D == {k \in 0..n : k \notin S}
<1>1. SUFFICES ASSUME D # {} PROVE FALSE
  OBVIOUS
<1>2. PICK x \in D : \A y \in D : x <= y
  <2>1. D \subseteq Nat
    OBVIOUS
  <2> HIDE DEF D
  <2> QED
    BY <1>1, <2>1, LeastNumber
<1>3. x \in 1..n /\ x - 1 \in 0..n
  OBVIOUS
<1>4. x - 1 \notin D
  BY <1>2, <1>3
<1> QED
  BY <1>3, <1>4

-----------------------------------------------------------------------------
(* Sequences put together.                                                 *)

(* A function on the first numbers is a sequence.                          *)
LEMMA Numbered ==
  ASSUME NEW n \in Nat, NEW S, NEW s, DOMAIN s = 1..n, s = [i \in 1..n |-> s[i]],
         \A i \in 1..n : s[i] \in S
  PROVE  s \in Seq(S) /\ Len(s) = n
OBVIOUS

IsFlatten(f, seqs) ==
  f = [i \in 1..Len(seqs) |-> IF i = 1 THEN seqs[i] ELSE f[i - 1] \o seqs[i]]

(* FlattenSeq is defined by choosing such a function.                      *)
LEMMA FlattenExists ==
  ASSUME NEW S, NEW seqs \in Seq(Seq(S))
  PROVE  \E f : IsFlatten(f, seqs)
<1> DEFINE IsPart(g, m) == g = [k \in 1..m |-> IF k = 1 THEN seqs[k] ELSE g[k - 1] \o seqs[k]]
           T == {m \in 0..Len(seqs) : \E g : IsPart(g, m)}
<1>1. Len(seqs) \in Nat
  BY LenProperties
<1>2. 0 \in T
  <2>1. IsPart([k \in 1..0 |-> 0], 0)
    OBVIOUS
  <2> HIDE DEF IsPart
  <2> QED
    BY <1>1, <2>1
<1>3. ASSUME NEW m \in 1..Len(seqs), m - 1 \in T
      PROVE  m \in T
  <2>1. PICK g : IsPart(g, m - 1)
    BY <1>3
  <2> DEFINE h == [k \in 1..m |-> IF k = 1 THEN seqs[1]
                               ELSE IF k = m THEN g[m - 1] \o seqs[m] ELSE g[k]]
  <2>2. \A k \in 1..(m - 1) : g[k] = IF k = 1 THEN seqs[1] ELSE g[k - 1] \o seqs[k]
    BY <2>1
  <2>3. \A k \in 1..m : h[k] = IF k = 1 THEN seqs[k] ELSE h[k - 1] \o seqs[k]
    <3>1. h[1] = seqs[1]
      OBVIOUS
    <3>2. ASSUME NEW k \in 2..m PROVE h[k] = h[k - 1] \o seqs[k]
      <4> DEFINE p == k - 1
      <4>1. p \in 1..(m - 1) /\ p \in 1..m /\ p # m /\ k \in 1..m /\ k # 1
        OBVIOUS
      <4>2. p = 1 => g[p] = seqs[1]
        BY <2>2, <4>1
      <4>3. h[p] = g[p]
        BY <4>1, <4>2
      <4>4. k # m => k \in 1..(m - 1)
        OBVIOUS
      <4>5. k # m => g[k] = g[p] \o seqs[k]
        BY <2>2, <4>1, <4>4
      <4>6. h[k] = g[p] \o seqs[k]
        BY <4>1, <4>5
      <4> QED
        BY <4>3, <4>6
    <3> HIDE DEF h
    <3>3. ASSUME NEW k \in 1..m PROVE k = 1 \/ k \in 2..m
      OBVIOUS
    <3> QED
      BY <3>1, <3>2, <3>3
  <2>4. IsPart(h, m)
    <3>1. h = [k \in 1..m |-> h[k]]
      OBVIOUS
    <3> HIDE DEF h
    <3> QED
      BY <2>3, <3>1
  <2> HIDE DEF h, IsPart
  <2> QED
    BY <1>1, <2>4
<1> HIDE DEF T
<1>4. \A m \in 0..Len(seqs) : m \in T
  BY <1>1, <1>2, <1>3, UpTo
<1>5. Len(seqs) \in T
  BY <1>1, <1>4
<1>6. PICK g : IsPart(g, Len(seqs))
  BY <1>5 DEF T
<1> QED
  BY <1>6 DEF IsFlatten

(* Where each of the parts begins in a flattened sequence.                 *)
ArePlaces(places, seqs, whole) ==
  /\ places \in [0..Len(seqs) -> Nat]
  /\ places[0] = 0
  /\ \A i \in 1..Len(seqs) :
       /\ places[i] = places[i - 1] + Len(seqs[i])
       /\ \A j \in 1..Len(seqs[i]) : whole[places[i - 1] + j] = seqs[i][j]
  /\ places[Len(seqs)] = Len(whole)

(* Two sequences put together.                                             *)
LEMMA Beside ==
  ASSUME NEW S, NEW s \in Seq(S), NEW t \in Seq(S)
  PROVE  /\ s \o t \in Seq(S) /\ Len(s \o t) = Len(s) + Len(t)
         /\ \A j \in 1..Len(s) : (s \o t)[j] = s[j]
         /\ \A j \in 1..Len(t) : (s \o t)[Len(s) + j] = t[j]
<1>1. Len(s) \in Nat /\ Len(t) \in Nat
  BY LenProperties
<1>2. ASSUME NEW j \in 1..Len(t) PROVE (s \o t)[Len(s) + j] = t[j]
  <2> DEFINE k == Len(s) + j
  <2>1. k \in 1..Len(s) + Len(t) /\ ~(k <= Len(s)) /\ k - Len(s) = j
    BY <1>1
  <2> HIDE DEF k
  <2>2. (s \o t)[k] = t[j]
    BY <2>1, ConcatProperties
  <2> QED
    BY <2>2 DEF k
<1> QED
  BY <1>1, <1>2, ConcatProperties

(* A flattened sequence has the elements of each of its parts in its place. *)
LEMMA FlattenIs ==
  ASSUME NEW S, NEW seqs \in Seq(Seq(S))
  PROVE  FlattenSeq(seqs) \in Seq(S) /\ \E places : ArePlaces(places, seqs, FlattenSeq(seqs))
<1> DEFINE n == Len(seqs)
           whole == FlattenSeq(seqs)
<1>1. n \in Nat /\ \A i \in 1..n : seqs[i] \in Seq(S) /\ Len(seqs[i]) \in Nat
  BY ElementOfSeq, LenProperties
<1>2. CASE n = 0
  <2>1. seqs = << >> /\ whole = << >>
    BY <1>2, EmptySeq DEF FlattenSeq
  <2>2. ArePlaces([i \in 0..0 |-> 0], seqs, whole)
    BY <2>1 DEF ArePlaces
  <2> QED
    BY <2>1, <2>2
<1>3. CASE n # 0
  <2> DEFINE f == CHOOSE f : f = [i \in 1..n |-> IF i = 1 THEN seqs[i] ELSE f[i - 1] \o seqs[i]]
  <2>1. f = [i \in 1..n |-> IF i = 1 THEN seqs[i] ELSE f[i - 1] \o seqs[i]]
    BY FlattenExists DEF IsFlatten
  <2>2. whole = f[n]
    BY <1>3 DEF FlattenSeq
  <2> HIDE DEF f, whole
  <2>3. \A i \in 1..n : f[i] = IF i = 1 THEN seqs[i] ELSE f[i - 1] \o seqs[i]
    BY <2>1
  <2> DEFINE T == {i \in 0..n : i = 0 \/ f[i] \in Seq(S)}
  <2>4. \A i \in 1..n : i - 1 \in T => i \in T
    <3>1. ASSUME NEW i \in 1..n, i - 1 \in T PROVE i \in T
      <4>1. CASE i = 1
        BY <1>1, <2>3, <4>1
      <4>2. CASE i # 1
        <5>1. f[i - 1] \in Seq(S) /\ seqs[i] \in Seq(S) /\ f[i] = f[i - 1] \o seqs[i]
          <6>1. i - 1 # 0
            BY <4>2
          <6>2. f[i] = f[i - 1] \o seqs[i]
            BY <2>3, <4>2
          <6> QED
            BY <1>1, <3>1, <6>1, <6>2
        <5>2. f[i] \in Seq(S)
          BY <5>1, ConcatProperties
        <5> QED
          BY <5>2
      <4> QED
        BY <4>1, <4>2
    <3> QED
      BY <3>1
  <2>5. 0 \in T
    BY <1>1
  <2> HIDE DEF T
  <2>6. \A i \in 0..n : i \in T
    BY <1>1, <2>4, <2>5, UpTo
  <2>7. \A i \in 1..n : f[i] \in Seq(S) /\ Len(f[i]) \in Nat
    <3>1. \A i \in 1..n : f[i] \in Seq(S)
      BY <2>6 DEF T
    <3> QED
      BY <3>1, LenProperties
  <2> DEFINE places == [i \in 0..n |-> IF i = 0 THEN 0 ELSE Len(f[i])]
  <2>8. ASSUME NEW i \in 1..n
        PROVE  /\ places[i] = places[i - 1] + Len(seqs[i])
               /\ \A j \in 1..Len(seqs[i]) : f[i][places[i - 1] + j] = seqs[i][j]
               /\ \A j \in 1..places[i - 1] : f[i][j] = f[i - 1][j]
    <3>1. CASE i = 1
      BY <1>1, <2>3, <3>1
    <3>2. CASE i # 1
      <4> DEFINE p == i - 1
      <4>1. p \in 1..n /\ p \in 0..n /\ p # 0 /\ i \in 0..n /\ i # 0
        BY <1>1, <3>2
      <4>2. f[i] = f[p] \o seqs[i]
        BY <2>3, <3>2
      <4>3. f[p] \in Seq(S) /\ seqs[i] \in Seq(S)
        BY <1>1, <2>7, <4>1
      <4>4. places[p] = Len(f[p]) /\ places[i] = Len(f[i])
        BY <4>1
      <4> HIDE DEF p, places
      <4>5. /\ Len(f[i]) = Len(f[p]) + Len(seqs[i])
            /\ \A j \in 1..Len(seqs[i]) : f[i][Len(f[p]) + j] = seqs[i][j]
            /\ \A j \in 1..Len(f[p]) : f[i][j] = f[p][j]
        <5> DEFINE a == f[p]
                   b == seqs[i]
        <5>1. a \in Seq(S) /\ b \in Seq(S) /\ f[i] = a \o b
          BY <4>2, <4>3
        <5> HIDE DEF a, b
        <5>2. /\ Len(f[i]) = Len(a) + Len(b)
              /\ \A j \in 1..Len(b) : f[i][Len(a) + j] = b[j]
              /\ \A j \in 1..Len(a) : f[i][j] = a[j]
          BY <5>1, Beside
        <5> QED
          BY <5>2 DEF a, b
      <4>6. /\ places[i] = places[p] + Len(seqs[i])
            /\ \A j \in 1..Len(seqs[i]) : f[i][places[p] + j] = seqs[i][j]
            /\ \A j \in 1..places[p] : f[i][j] = f[p][j]
        BY <4>4, <4>5
      <4> QED
        BY <4>6 DEF p
    <3> QED
      BY <3>1, <3>2
  <2>9. \A i \in 0..n : places[i] \in Nat
    BY <2>7
  <2>10. places[0] = 0 /\ places[n] = Len(f[n]) /\ places \in [0..n -> Nat]
    BY <1>1, <1>3, <2>7
  <2> HIDE DEF places
  <2> DEFINE U == {m \in 0..n : \A i \in 1..m : \A j \in 1..Len(seqs[i]) :
                      f[m][places[i - 1] + j] = seqs[i][j] /\ places[i] <= places[m]}
  <2>11. 0 \in U
    BY <1>1
  <2>12. ASSUME NEW m \in 1..n, m - 1 \in U PROVE m \in U
    <3>1. ASSUME NEW i \in 1..m, NEW j \in 1..Len(seqs[i])
          PROVE  f[m][places[i - 1] + j] = seqs[i][j] /\ places[i] <= places[m]
      <4>1. CASE i = m
        BY <2>8, <2>9, <4>1
      <4>2. CASE i # m
        <5>1. i \in 1..(m - 1) /\ i \in 1..n /\ i - 1 \in 0..n /\ m - 1 \in 0..n
          BY <4>2
        <5>2. f[m - 1][places[i - 1] + j] = seqs[i][j] /\ places[i] <= places[m - 1]
          BY <2>12, <5>1
        <5>3. /\ places[i] = places[i - 1] + Len(seqs[i])
              /\ places[m] = places[m - 1] + Len(seqs[m])
              /\ \A q \in 1..places[m - 1] : f[m][q] = f[m - 1][q]
          BY <2>8, <5>1
        <5>4. /\ places[i - 1] \in Nat /\ places[i] \in Nat
              /\ places[m - 1] \in Nat /\ places[m] \in Nat
              /\ Len(seqs[i]) \in Nat /\ Len(seqs[m]) \in Nat
          BY <1>1, <2>9, <5>1
        <5> DEFINE q == places[i - 1] + j
        <5>5. q \in 1..places[m - 1]
          <6> DEFINE a == places[i - 1]
                     b == places[i]
                     c == places[m - 1]
                     d == Len(seqs[i])
          <6>1. /\ a \in Nat /\ b \in Nat /\ c \in Nat /\ d \in Nat
                /\ j \in 1..d /\ b = a + d /\ b <= c
            BY <5>2, <5>3, <5>4
          <6> HIDE DEF a, b, c, d
          <6>2. a + j \in 1..c
            BY <6>1
          <6> QED
            BY <6>2 DEF a, c
        <5>6. f[m][q] = f[m - 1][q]
          BY <5>3, <5>5
        <5>7. places[i] <= places[m]
          BY <5>2, <5>3, <5>4
        <5> QED
          BY <5>2, <5>6, <5>7
      <4> QED
        BY <4>1, <4>2
    <3> QED
      BY <3>1
  <2> HIDE DEF U
  <2>13. \A m \in 0..n : m \in U
    BY <1>1, <2>11, <2>12, UpTo
  <2>14. n \in U
    BY <1>1, <2>13
  <2>15. ArePlaces(places, seqs, whole)
    BY <2>2, <2>8, <2>10, <2>14 DEF ArePlaces, U
  <2>16. whole \in Seq(S)
    BY <1>1, <1>3, <2>2, <2>7
  <2> QED
    BY <2>15, <2>16 DEF whole
<1> QED
  BY <1>2, <1>3

-----------------------------------------------------------------------------
(* The states of the parser.                                               *)

State(expects, offset, leader, tag, contents, fields) ==
  [expects |-> expects, at |-> offset, leader |-> leader, tag |-> tag, contents |-> contents,
   fields |-> fields]

(* The parser's states, by their parts.                                    *)
LEMMA StateParts ==
  ASSUME NEW e, NEW k, NEW l, NEW t, NEW c, NEW f
  PROVE  /\ State(e, k, l, t, c, f).expects = e
         /\ State(e, k, l, t, c, f).at = k
         /\ State(e, k, l, t, c, f).leader = l
         /\ State(e, k, l, t, c, f).tag = t
         /\ State(e, k, l, t, c, f).contents = c
         /\ State(e, k, l, t, c, f).fields = f
BY DEF State

States(E, K, L, T, C, F) ==
  [expects : E, at : K, leader : L, tag : T, contents : C, fields : F]

LEMMA StatesEqual ==
  ASSUME NEW E, NEW K, NEW L, NEW T, NEW C, NEW F,
         NEW s \in States(E, K, L, T, C, F)
  PROVE  s = State(s.expects, s.at, s.leader, s.tag, s.contents, s.fields)
BY DEF States, State

SetLeader(s, e, leader) == [s EXCEPT !.leader = leader, !.expects = e]
SetTag(s, e, tag, contents) == [s EXCEPT !.tag = tag, !.contents = contents, !.expects = e]
SetContents(s, e, contents) == [s EXCEPT !.contents = contents, !.expects = e]
SetFields(s, e, fields) == [s EXCEPT !.expects = e, !.fields = fields]
IsUntagged(node) == node.value = ""

(* What the updates of a state make of it.                                 *)
LEMMA ExpectsChanges ==
  ASSUME NEW e, NEW k, NEW l, NEW t, NEW c, NEW f, NEW e2
  PROVE  [State(e, k, l, t, c, f) EXCEPT !.expects = e2] = State(e2, k, l, t, c, f)
<1> DEFINE s == State(e, k, l, t, c, f)
           S == States({e, e2}, {k}, {l}, {t}, {c}, {f})
           x == [s EXCEPT !.expects = e2]
<1>1. s \in S
  BY DEF State, States
<1>2. /\ s.expects = e /\ s.at = k /\ s.leader = l
      /\ s.tag = t /\ s.contents = c /\ s.fields = f
  BY StateParts
<1> HIDE DEF s
<1>3. x \in S
  BY <1>1 DEF States
<1>4. /\ x.expects = e2 /\ x.at = k /\ x.leader = l
      /\ x.tag = t /\ x.contents = c /\ x.fields = f
  BY <1>1, <1>2 DEF States
<1> HIDE DEF x
<1>5. x = State(x.expects, x.at, x.leader, x.tag, x.contents, x.fields)
  BY <1>3, StatesEqual
<1> QED
  BY <1>4, <1>5 DEF s, x

LEMMA OffsetChanges ==
  ASSUME NEW e, NEW k, NEW l, NEW t, NEW c, NEW f, NEW k2
  PROVE  [State(e, k, l, t, c, f) EXCEPT !.at = k2] = State(e, k2, l, t, c, f)
<1> DEFINE s == State(e, k, l, t, c, f)
           S == States({e}, {k, k2}, {l}, {t}, {c}, {f})
           x == [s EXCEPT !.at = k2]
<1>1. s \in S
  BY DEF State, States
<1>2. /\ s.expects = e /\ s.at = k /\ s.leader = l
      /\ s.tag = t /\ s.contents = c /\ s.fields = f
  BY StateParts
<1> HIDE DEF s
<1>3. x \in S
  BY <1>1 DEF States
<1>4. /\ x.expects = e /\ x.at = k2 /\ x.leader = l
      /\ x.tag = t /\ x.contents = c /\ x.fields = f
  BY <1>1, <1>2 DEF States
<1> HIDE DEF x
<1>5. x = State(x.expects, x.at, x.leader, x.tag, x.contents, x.fields)
  BY <1>3, StatesEqual
<1> QED
  BY <1>4, <1>5 DEF s, x

LEMMA LeaderChanges ==
  ASSUME NEW e, NEW k, NEW l, NEW t, NEW c, NEW f, NEW l2, NEW e2
  PROVE  SetLeader(State(e, k, l, t, c, f), e2, l2) = State(e2, k, l2, t, c, f)
<1> DEFINE s == State(e, k, l, t, c, f)
           S == States({e, e2}, {k}, {l, l2}, {t}, {c}, {f})
           x == [s EXCEPT !.leader = l2, !.expects = e2]
<1>1. s \in S
  BY DEF State, States
<1>2. /\ s.expects = e /\ s.at = k /\ s.leader = l
      /\ s.tag = t /\ s.contents = c /\ s.fields = f
  BY StateParts
<1> HIDE DEF s
<1>3. x \in S
  BY <1>1 DEF States
<1>4. /\ x.expects = e2 /\ x.at = k /\ x.leader = l2
      /\ x.tag = t /\ x.contents = c /\ x.fields = f
  BY <1>1, <1>2 DEF States
<1> HIDE DEF x
<1>5. x = State(x.expects, x.at, x.leader, x.tag, x.contents, x.fields)
  BY <1>3, StatesEqual
<1> QED
  BY <1>4, <1>5 DEF s, x, SetLeader

LEMMA TagChanges ==
  ASSUME NEW e, NEW k, NEW l, NEW t, NEW c, NEW f, NEW t2, NEW c2, NEW e2
  PROVE  SetTag(State(e, k, l, t, c, f), e2, t2, c2) = State(e2, k, l, t2, c2, f)
<1> DEFINE s == State(e, k, l, t, c, f)
           S == States({e, e2}, {k}, {l}, {t, t2}, {c, c2}, {f})
           x == [s EXCEPT !.tag = t2, !.contents = c2, !.expects = e2]
<1>1. s \in S
  BY DEF State, States
<1>2. /\ s.expects = e /\ s.at = k /\ s.leader = l
      /\ s.tag = t /\ s.contents = c /\ s.fields = f
  BY StateParts
<1> HIDE DEF s
<1>3. x \in S
  BY <1>1 DEF States
<1>4. /\ x.expects = e2 /\ x.at = k /\ x.leader = l
      /\ x.tag = t2 /\ x.contents = c2 /\ x.fields = f
  BY <1>1, <1>2 DEF States
<1> HIDE DEF x
<1>5. x = State(x.expects, x.at, x.leader, x.tag, x.contents, x.fields)
  BY <1>3, StatesEqual
<1> QED
  BY <1>4, <1>5 DEF s, x, SetTag

LEMMA ContentsChanges ==
  ASSUME NEW e, NEW k, NEW l, NEW t, NEW c, NEW f, NEW c2, NEW e2
  PROVE  SetContents(State(e, k, l, t, c, f), e2, c2) = State(e2, k, l, t, c2, f)
<1> DEFINE s == State(e, k, l, t, c, f)
           S == States({e, e2}, {k}, {l}, {t}, {c, c2}, {f})
           x == [s EXCEPT !.contents = c2, !.expects = e2]
<1>1. s \in S
  BY DEF State, States
<1>2. /\ s.expects = e /\ s.at = k /\ s.leader = l
      /\ s.tag = t /\ s.contents = c /\ s.fields = f
  BY StateParts
<1> HIDE DEF s
<1>3. x \in S
  BY <1>1 DEF States
<1>4. /\ x.expects = e2 /\ x.at = k /\ x.leader = l
      /\ x.tag = t /\ x.contents = c2 /\ x.fields = f
  BY <1>1, <1>2 DEF States
<1> HIDE DEF x
<1>5. x = State(x.expects, x.at, x.leader, x.tag, x.contents, x.fields)
  BY <1>3, StatesEqual
<1> QED
  BY <1>4, <1>5 DEF s, x, SetContents

LEMMA FieldsChanges ==
  ASSUME NEW e, NEW k, NEW l, NEW t, NEW c, NEW f, NEW e2, NEW f2
  PROVE  SetFields(State(e, k, l, t, c, f), e2, f2) = State(e2, k, l, t, c, f2)
<1> DEFINE s == State(e, k, l, t, c, f)
           S == States({e, e2}, {k}, {l}, {t}, {c}, {f, f2})
           x == [s EXCEPT !.expects = e2, !.fields = f2]
<1>1. s \in S
  BY DEF State, States
<1>2. /\ s.expects = e /\ s.at = k /\ s.leader = l
      /\ s.tag = t /\ s.contents = c /\ s.fields = f
  BY StateParts
<1> HIDE DEF s
<1>3. x \in S
  BY <1>1 DEF States
<1>4. /\ x.expects = e2 /\ x.at = k /\ x.leader = l
      /\ x.tag = t /\ x.contents = c /\ x.fields = f2
  BY <1>1, <1>2 DEF States
<1> HIDE DEF x
<1>5. x = State(x.expects, x.at, x.leader, x.tag, x.contents, x.fields)
  BY <1>3, StatesEqual
<1> QED
  BY <1>4, <1>5 DEF s, x, SetFields

-----------------------------------------------------------------------------
(* What a state becomes with the next node.                                *)
LEMMA TakenNext ==
  ASSUME NEW e, NEW k, NEW l, NEW t, NEW c, NEW f, NEW node
  PROVE  /\ e \in Stopped => TakeNext(State(e, k, l, t, c, f), node) = State(e, k, l, t, c, f)
         /\ e \notin Stopped /\ node.type = "SIGNIFICANT_WHITESPACE" =>
              TakeNext(State(e, k, l, t, c, f), node) = State(e, k + 1, l, t, c, f)
         /\ e \notin Stopped /\ node.type # "SIGNIFICANT_WHITESPACE" =>
              TakeNext(State(e, k, l, t, c, f), node) = Take(State(e, k + 1, l, t, c, f), node)
<1> DEFINE s == State(e, k, l, t, c, f)
           next == [s EXCEPT !.at = @ + 1]
<1>1. s.expects = e /\ s.at = k
  BY StateParts
<1>2. [s EXCEPT !.at = k + 1] = State(e, k + 1, l, t, c, f)
  BY OffsetChanges
<1> HIDE DEF s
<1>3. next = State(e, k + 1, l, t, c, f)
  BY <1>1, <1>2
<1> HIDE DEF next
<1>4. TakeNext(s, node) =
        IF s.expects \in Stopped THEN s
        ELSE IF node.type = "SIGNIFICANT_WHITESPACE" THEN next ELSE Take(next, node)
  BY DEF TakeNext, Whitespace, next
<1> QED
  BY <1>1, <1>3, <1>4 DEF s

LEMMA Stops ==
  ASSUME NEW e, NEW k, NEW l, NEW t, NEW c, NEW f, NEW e2
  PROVE  Stop(State(e, k, l, t, c, f), e2) = State(e2, k, l, t, c, f)
BY ExpectsChanges DEF Stop

(* The start of a record, its leader, and the end of a collection.         *)
LEMMA TakesRecordStart ==
  ASSUME NEW k, NEW l, NEW t, NEW c, NEW f, NEW node, Is(node, "ELEMENT", "record")
  PROVE  TakeNext(State("record", k, l, t, c, f), node) = State("leader", k + 1, l, t, c, f)
<1> DEFINE s == State("record", k + 1, l, t, c, f)
<1>1. s.expects = "record" /\ Stop(s, "leader") = State("leader", k + 1, l, t, c, f)
  BY StateParts, Stops
<1>2. TakeNext(State("record", k, l, t, c, f), node) = Take(s, node)
  BY TakenNext DEF Stopped, Is
<1> HIDE DEF s
<1>3. Take(s, node) = Stop(s, "leader")
  BY <1>1 DEF Take, TakeRecord, Is
<1> QED
  BY <1>1, <1>2, <1>3

LEMMA TakesCollectionEnd ==
  ASSUME NEW k, NEW l, NEW t, NEW c, NEW f, NEW node, Is(node, "END_ELEMENT", "collection")
  PROVE  TakeNext(State("record", k, l, t, c, f), node) = State("collectionEnd", k + 1, l, t, c, f)
<1> DEFINE s == State("record", k + 1, l, t, c, f)
<1>1. s.expects = "record" /\ Stop(s, "collectionEnd") = State("collectionEnd", k + 1, l, t, c, f)
  BY StateParts, Stops
<1>2. TakeNext(State("record", k, l, t, c, f), node) = Take(s, node)
  BY TakenNext DEF Stopped, Is
<1> HIDE DEF s
<1>3. Take(s, node) = Stop(s, "collectionEnd")
  BY <1>1 DEF Take, TakeRecord, ExpectEnd, Is
<1> QED
  BY <1>1, <1>2, <1>3

LEMMA TakesLeaderStart ==
  ASSUME NEW k, NEW l, NEW t, NEW c, NEW f, NEW node, Is(node, "ELEMENT", "leader")
  PROVE  TakeNext(State("leader", k, l, t, c, f), node) = State("leaderText", k + 1, l, t, c, f)
<1> DEFINE s == State("leader", k + 1, l, t, c, f)
<1>1. s.expects = "leader" /\ Stop(s, "leaderText") = State("leaderText", k + 1, l, t, c, f)
  BY StateParts, Stops
<1>2. TakeNext(State("leader", k, l, t, c, f), node) = Take(s, node)
  BY TakenNext DEF Stopped, Is
<1> HIDE DEF s
<1>3. Take(s, node) = Stop(s, "leaderText")
  BY <1>1 DEF Take, TakeLeader, Is
<1> QED
  BY <1>1, <1>2, <1>3

LEMMA TakesLeaderText ==
  ASSUME NEW k, NEW l, NEW t, NEW c, NEW f, NEW node, node.type = "TEXT"
  PROVE  TakeNext(State("leaderText", k, l, t, c, f), node) =
           State("leaderEnd", k + 1, node.value, t, c, f)
<1> DEFINE s == State("leaderText", k + 1, l, t, c, f)
           x == SetLeader(s, "leaderEnd", node.value)
<1>1. s.expects = "leaderText" /\ s.contents = c /\ s.tag = t /\ s.fields = f
  BY StateParts
<1>2. x = State("leaderEnd", k + 1, node.value, t, c, f)
  BY LeaderChanges
<1>3. TakeNext(State("leaderText", k, l, t, c, f), node) = Take(s, node)
  BY TakenNext DEF Stopped, Is
<1> HIDE DEF s
<1>4. Take(s, node) = x
  BY <1>1 DEF Take, TakeLeaderText, SetLeader
<1> QED
  BY <1>2, <1>3, <1>4

LEMMA TakesLeaderEnd ==
  ASSUME NEW k, NEW l, NEW t, NEW c, NEW f, NEW node, Is(node, "END_ELEMENT", "leader")
  PROVE  TakeNext(State("leaderEnd", k, l, t, c, f), node) = State("field", k + 1, l, t, c, f)
<1> DEFINE s == State("leaderEnd", k + 1, l, t, c, f)
<1>1. s.expects = "leaderEnd" /\ Stop(s, "field") = State("field", k + 1, l, t, c, f)
  BY StateParts, Stops
<1>2. TakeNext(State("leaderEnd", k, l, t, c, f), node) = Take(s, node)
  BY TakenNext DEF Stopped, Is
<1> HIDE DEF s
<1>3. Take(s, node) = Stop(s, "field")
  BY <1>1 DEF Take, ExpectEnd, Is
<1> QED
  BY <1>1, <1>2, <1>3

(* A control field.                                                        *)
LEMMA TakesControlStart ==
  ASSUME NEW k, NEW l, NEW t, NEW c, NEW f, NEW node,
         Is(node, "ELEMENT", "controlfield"), ~IsUntagged(node)
  PROVE  TakeNext(State("field", k, l, t, c, f), node) =
           State("value", k + 1, l, node.value, << >>, f)
<1> DEFINE s == State("field", k + 1, l, t, c, f)
           x == SetTag(s, "value", node.value, << >>)
<1>1. s.expects = "field" /\ s.contents = c /\ s.tag = t /\ s.fields = f
  BY StateParts
<1>2. x = State("value", k + 1, l, node.value, << >>, f)
  BY TagChanges
<1>3. TakeNext(State("field", k, l, t, c, f), node) = Take(s, node)
  BY TakenNext DEF Stopped, Is
<1> HIDE DEF s
<1>4. Take(s, node) = x
  BY <1>1 DEF Take, TakeField, Is, IsUntagged, SetTag
<1> QED
  BY <1>2, <1>3, <1>4

LEMMA TakesValue ==
  ASSUME NEW k, NEW l, NEW t, NEW c, NEW f, NEW node, node.type = "TEXT"
  PROVE  TakeNext(State("value", k, l, t, c, f), node) =
           State("fieldEnd", k + 1, l, t, Append(c, node.value), f)
<1> DEFINE s == State("value", k + 1, l, t, c, f)
           x == SetContents(s, "fieldEnd", Append(c, node.value))
<1>1. s.expects = "value" /\ s.contents = c /\ s.tag = t /\ s.fields = f
  BY StateParts
<1>2. x = State("fieldEnd", k + 1, l, t, Append(c, node.value), f)
  BY ContentsChanges
<1>3. TakeNext(State("value", k, l, t, c, f), node) = Take(s, node)
  BY TakenNext DEF Stopped, Is
<1> HIDE DEF s
<1>4. Take(s, node) = x
  BY <1>1 DEF Take, TakeContent, SetContents
<1> QED
  BY <1>2, <1>3, <1>4

LEMMA TakesControlEnd ==
  ASSUME NEW k, NEW l, NEW t, NEW c, NEW f, NEW node, Is(node, "END_ELEMENT", "controlfield")
  PROVE  TakeNext(State("fieldEnd", k, l, t, c, f), node) =
           State("field", k + 1, l, t, c,
                 Append(f, [isControlField |-> TRUE, tag |-> t, contents |-> c]))
<1> DEFINE s == State("fieldEnd", k + 1, l, t, c, f)
           x == SetFields(s, "field",
                          Append(f, [isControlField |-> TRUE, tag |-> t, contents |-> c]))
<1>1. s.expects = "fieldEnd" /\ s.contents = c /\ s.tag = t /\ s.fields = f
  BY StateParts
<1>2. x = State("field", k + 1, l, t, c,
                Append(f, [isControlField |-> TRUE, tag |-> t, contents |-> c]))
  BY FieldsChanges
<1>3. TakeNext(State("fieldEnd", k, l, t, c, f), node) = Take(s, node)
  BY TakenNext DEF Stopped, Is
<1> HIDE DEF s
<1>4. Take(s, node) = x
  BY <1>1 DEF Take, TakeFieldEnd, AddField, Is, SetFields
<1> QED
  BY <1>2, <1>3, <1>4

(* A data field and its subfields.                                         *)
LEMMA TakesDataStart ==
  ASSUME NEW k, NEW l, NEW t, NEW c, NEW f, NEW node,
         Is(node, "ELEMENT", "datafield"), ~IsUntagged(node)
  PROVE  TakeNext(State("field", k, l, t, c, f), node) =
           State("subfield", k + 1, l, node.value, << >>, f)
<1> DEFINE s == State("field", k + 1, l, t, c, f)
           x == SetTag(s, "subfield", node.value, << >>)
<1>1. s.expects = "field" /\ s.contents = c /\ s.tag = t /\ s.fields = f
  BY StateParts
<1>2. x = State("subfield", k + 1, l, node.value, << >>, f)
  BY TagChanges
<1>3. TakeNext(State("field", k, l, t, c, f), node) = Take(s, node)
  BY TakenNext DEF Stopped, Is
<1> HIDE DEF s
<1>4. Take(s, node) = x
  BY <1>1 DEF Take, TakeField, Is, IsUntagged, SetTag
<1> QED
  BY <1>2, <1>3, <1>4

LEMMA TakesSubfieldStart ==
  ASSUME NEW k, NEW l, NEW t, NEW c, NEW f, NEW node,
         Is(node, "ELEMENT", "subfield"), ~IsUntagged(node)
  PROVE  TakeNext(State("subfield", k, l, t, c, f), node) = State("content", k + 1, l, t, c, f)
<1> DEFINE s == State("subfield", k + 1, l, t, c, f)
<1>1. s.expects = "subfield" /\ Stop(s, "content") = State("content", k + 1, l, t, c, f)
  BY StateParts, Stops
<1>2. TakeNext(State("subfield", k, l, t, c, f), node) = Take(s, node)
  BY TakenNext DEF Stopped, Is
<1> HIDE DEF s
<1>3. Take(s, node) = Stop(s, "content")
  BY <1>1 DEF Take, TakeSubfield, Is, IsUntagged
<1> QED
  BY <1>1, <1>2, <1>3

LEMMA TakesContent ==
  ASSUME NEW k, NEW l, NEW t, NEW c, NEW f, NEW node, node.type = "TEXT"
  PROVE  TakeNext(State("content", k, l, t, c, f), node) =
           State("subfieldEnd", k + 1, l, t, Append(c, node.value), f)
<1> DEFINE s == State("content", k + 1, l, t, c, f)
           x == SetContents(s, "subfieldEnd", Append(c, node.value))
<1>1. s.expects = "content" /\ s.contents = c /\ s.tag = t /\ s.fields = f
  BY StateParts
<1>2. x = State("subfieldEnd", k + 1, l, t, Append(c, node.value), f)
  BY ContentsChanges
<1>3. TakeNext(State("content", k, l, t, c, f), node) = Take(s, node)
  BY TakenNext DEF Stopped, Is
<1> HIDE DEF s
<1>4. Take(s, node) = x
  BY <1>1 DEF Take, TakeContent, SetContents
<1> QED
  BY <1>2, <1>3, <1>4

LEMMA TakesSubfieldEnd ==
  ASSUME NEW k, NEW l, NEW t, NEW c, NEW f, NEW node, Is(node, "END_ELEMENT", "subfield")
  PROVE  TakeNext(State("subfieldEnd", k, l, t, c, f), node) = State("subfield", k + 1, l, t, c, f)
<1> DEFINE s == State("subfieldEnd", k + 1, l, t, c, f)
<1>1. s.expects = "subfieldEnd" /\ Stop(s, "subfield") = State("subfield", k + 1, l, t, c, f)
  BY StateParts, Stops
<1>2. TakeNext(State("subfieldEnd", k, l, t, c, f), node) = Take(s, node)
  BY TakenNext DEF Stopped, Is
<1> HIDE DEF s
<1>3. Take(s, node) = Stop(s, "subfield")
  BY <1>1 DEF Take, ExpectEnd, Is
<1> QED
  BY <1>1, <1>2, <1>3

LEMMA TakesDataEnd ==
  ASSUME NEW k, NEW l, NEW t, NEW c, NEW f, NEW node, Is(node, "END_ELEMENT", "datafield")
  PROVE  TakeNext(State("subfield", k, l, t, c, f), node) =
           State("field", k + 1, l, t, c,
                 Append(f, [isControlField |-> FALSE, tag |-> t, contents |-> c]))
<1> DEFINE s == State("subfield", k + 1, l, t, c, f)
           x == SetFields(s, "field",
                          Append(f, [isControlField |-> FALSE, tag |-> t, contents |-> c]))
<1>1. s.expects = "subfield" /\ s.contents = c /\ s.tag = t /\ s.fields = f
  BY StateParts
<1>2. x = State("field", k + 1, l, t, c,
                Append(f, [isControlField |-> FALSE, tag |-> t, contents |-> c]))
  BY FieldsChanges
<1>3. TakeNext(State("subfield", k, l, t, c, f), node) = Take(s, node)
  BY TakenNext DEF Stopped, Is
<1> HIDE DEF s
<1>4. Take(s, node) = x
  BY <1>1 DEF Take, TakeSubfield, AddField, Is, SetFields
<1> QED
  BY <1>2, <1>3, <1>4

(* The end of a record.                                                    *)
LEMMA TakesRecordEnd ==
  ASSUME NEW k, NEW l, NEW t, NEW c, NEW f, NEW node, Is(node, "END_ELEMENT", "record")
  PROVE  TakeNext(State("field", k, l, t, c, f), node) = State("read", k + 1, l, t, c, f)
<1> DEFINE s == State("field", k + 1, l, t, c, f)
<1>1. s.expects = "field" /\ Stop(s, "read") = State("read", k + 1, l, t, c, f)
  BY StateParts, Stops
<1>2. TakeNext(State("field", k, l, t, c, f), node) = Take(s, node)
  BY TakenNext DEF Stopped, Is
<1> HIDE DEF s
<1>3. Take(s, node) = Stop(s, "read")
  BY <1>1 DEF Take, TakeField, ExpectEnd, Is
<1> QED
  BY <1>1, <1>2, <1>3

(* Where a content, a subfield or the end of a data field is missing.      *)
LEMMA RefusesNoValue ==
  ASSUME NEW k, NEW l, NEW t, NEW c, NEW f, NEW node, node.type = "END_ELEMENT"
  PROVE  TakeNext(State("value", k, l, t, c, f), node) = State("malformed", k + 1, l, t, c, f)
<1> DEFINE s == State("value", k + 1, l, t, c, f)
<1>1. s.expects = "value" /\ Stop(s, "malformed") = State("malformed", k + 1, l, t, c, f)
  BY StateParts, Stops
<1>2. TakeNext(State("value", k, l, t, c, f), node) = Take(s, node)
  BY TakenNext DEF Stopped, Is
<1> HIDE DEF s
<1>3. Take(s, node) = Stop(s, "malformed")
  BY <1>1 DEF Take, TakeContent
<1> QED
  BY <1>1, <1>2, <1>3

LEMMA RefusesNoContent ==
  ASSUME NEW k, NEW l, NEW t, NEW c, NEW f, NEW node, node.type = "END_ELEMENT"
  PROVE  TakeNext(State("content", k, l, t, c, f), node) = State("malformed", k + 1, l, t, c, f)
<1> DEFINE s == State("content", k + 1, l, t, c, f)
<1>1. s.expects = "content" /\ Stop(s, "malformed") = State("malformed", k + 1, l, t, c, f)
  BY StateParts, Stops
<1>2. TakeNext(State("content", k, l, t, c, f), node) = Take(s, node)
  BY TakenNext DEF Stopped, Is
<1> HIDE DEF s
<1>3. Take(s, node) = Stop(s, "malformed")
  BY <1>1 DEF Take, TakeContent
<1> QED
  BY <1>1, <1>2, <1>3

LEMMA RefusesNoSubfield ==
  ASSUME NEW k, NEW l, NEW t, NEW c, NEW f, NEW node, node.type \in {"ELEMENT", "END_ELEMENT"},
         node.name \in {"controlfield", "datafield", "record"},
         ~Is(node, "END_ELEMENT", "datafield")
  PROVE  TakeNext(State("subfield", k, l, t, c, f), node) = State("malformed", k + 1, l, t, c, f)
<1> DEFINE s == State("subfield", k + 1, l, t, c, f)
<1>1. s.expects = "subfield" /\ Stop(s, "malformed") = State("malformed", k + 1, l, t, c, f)
  BY StateParts, Stops
<1>2. TakeNext(State("subfield", k, l, t, c, f), node) = Take(s, node)
  BY TakenNext DEF Stopped, Is
<1> HIDE DEF s
<1>3. Take(s, node) = Stop(s, "malformed")
  BY <1>1 DEF Take, TakeSubfield, Is
<1> QED
  BY <1>1, <1>2, <1>3

-----------------------------------------------------------------------------
(* Nodes that stand somewhere in a document, and the states over them.     *)

Stand(nodes, a, piece) == \A j \in 1..Len(piece) : nodes[a + j] = piece[j]

Runs(R, nodes, a, b) == \A k \in a..(b - 1) : R[k + 1] = TakeNext(R[k], nodes[k + 1])

(* No record is found, and when the nodes can be read nothing is refused.  *)
Goes(state, sure) ==
  /\ state.expects \notin {"read", "collectionEnd"}
  /\ sure => state.expects \notin Stopped

Underway(R, a, b, sure) == \A k \in a..b : Goes(R[k], sure)

IsRefused(state) == state.expects \in {"malformed", "missing"}

(* The parts of what stands somewhere stand one behind the other.          *)
LEMMA StandApart ==
  ASSUME NEW S, NEW s \in Seq(S), NEW t \in Seq(S), NEW a \in Nat, NEW nodes,
         Stand(nodes, a, s \o t)
  PROVE  Stand(nodes, a, s) /\ Stand(nodes, a + Len(s), t)
<1>1. Len(s) \in Nat /\ Len(t) \in Nat
  BY LenProperties
<1>2. /\ Len(s \o t) = Len(s) + Len(t)
      /\ \A j \in 1..Len(s) : (s \o t)[j] = s[j]
      /\ \A j \in 1..Len(t) : (s \o t)[Len(s) + j] = t[j]
  BY Beside
<1>3. ASSUME NEW j \in 1..Len(s) PROVE nodes[a + j] = s[j]
  <2>1. j \in 1..Len(s \o t)
    BY <1>1, <1>2
  <2> QED
    BY <1>2, <2>1 DEF Stand
<1>4. ASSUME NEW j \in 1..Len(t) PROVE nodes[(a + Len(s)) + j] = t[j]
  <2> DEFINE i == Len(s) + j
  <2>1. i \in 1..Len(s \o t) /\ (a + Len(s)) + j = a + i
    BY <1>1, <1>2
  <2>2. (s \o t)[i] = t[j]
    BY <1>2
  <2> HIDE DEF i
  <2> QED
    BY <2>1, <2>2 DEF Stand
<1> QED
  BY <1>3, <1>4 DEF Stand

LEMMA RunsWithin ==
  ASSUME NEW R, NEW nodes, NEW a \in Nat, NEW b \in Nat, NEW c \in Nat, NEW d \in Nat,
         Runs(R, nodes, a, b), a <= c, d <= b
  PROVE  Runs(R, nodes, c, d)
BY DEF Runs

LEMMA RunsOne ==
  ASSUME NEW R, NEW nodes, NEW a \in Nat, NEW b \in Nat, Runs(R, nodes, a, b),
         NEW k \in Nat, a <= k, k < b
  PROVE  R[k + 1] = TakeNext(R[k], nodes[k + 1])
BY DEF Runs

(* From state to state.                                                    *)
LEMMA UnderwayOn ==
  ASSUME NEW R, NEW a \in Nat, NEW b \in Nat, NEW c \in Nat, NEW sure,
         Underway(R, a, b, sure), Underway(R, b, c, sure)
  PROVE  Underway(R, a, c, sure)
BY DEF Underway

LEMMA UnderwayFrom ==
  ASSUME NEW R, NEW a \in Nat, NEW sure, Goes(R[a], sure)
  PROVE  Underway(R, a, a, sure)
BY DEF Underway

LEMMA UnderwayStep ==
  ASSUME NEW R, NEW a \in Nat, NEW b \in Nat, NEW sure,
         Underway(R, a, b, sure), Goes(R[b + 1], sure)
  PROVE  Underway(R, a, b + 1, sure)
BY DEF Underway

LEMMA StateGoes ==
  ASSUME NEW e, NEW k, NEW l, NEW t, NEW c, NEW f, NEW sure, e \notin Stopped
  PROVE  Goes(State(e, k, l, t, c, f), sure)
BY StateParts DEF Goes, Stopped

(* What has been refused stays refused.                                    *)
LEMMA RefusedStays ==
  ASSUME NEW R, NEW nodes, NEW a \in Nat, NEW b \in Nat, a <= b, Runs(R, nodes, a, b),
         IsRefused(R[a])
  PROVE  Underway(R, a, b, FALSE) /\ IsRefused(R[b])
<1> DEFINE D == {d \in 0..(b - a) : IsRefused(R[a + d])}
<1>1. 0 \in D
  OBVIOUS
<1>2. ASSUME NEW d \in 1..(b - a), d - 1 \in D PROVE d \in D
  <2> DEFINE k == a + (d - 1)
  <2>1. k \in a..(b - 1) /\ k + 1 = a + d /\ IsRefused(R[k])
    BY <1>2
  <2> HIDE DEF k
  <2>2. R[k + 1] = TakeNext(R[k], nodes[k + 1])
    BY <2>1 DEF Runs
  <2>3. R[k + 1] = R[k]
    BY <2>1, <2>2 DEF TakeNext, IsRefused, Stopped
  <2> QED
    BY <1>2, <2>1, <2>3
<1> HIDE DEF D
<1>3. b - a \in Nat
  OBVIOUS
<1>4. \A d \in 0..(b - a) : d \in D
  BY <1>1, <1>2, <1>3, UpTo
<1>5. ASSUME NEW k \in a..b PROVE IsRefused(R[k])
  <2> DEFINE d == k - a
  <2>1. d \in 0..(b - a) /\ a + d = k
    OBVIOUS
  <2> HIDE DEF d
  <2> QED
    BY <1>4, <2>1 DEF D
<1> QED
  BY <1>5 DEF Underway, Goes, IsRefused

-----------------------------------------------------------------------------
(* A content between the start of its element and the end.                 *)

(* The nodes, as the parser tests them.                                    *)
LEMMA ElementIs ==
  ASSUME NEW name, NEW tag
  PROVE  Is(Element(name, tag), "ELEMENT", name) /\ Element(name, tag).value = tag
BY DEF Element, Is

LEMMA EndElementIs ==
  ASSUME NEW name
  PROVE  Is(EndElement(name), "END_ELEMENT", name)
BY DEF EndElement, Is

LEMMA TextParts ==
  ASSUME NEW value
  PROVE  Text(value).type = "TEXT" /\ Text(value).value = value
BY DEF Text

IsBlank(content) == content \in {"", " "}

LEMMA TextNodesAre ==
  ASSUME NEW content
  PROVE  /\ ~IsBlank(content) => TextNodes(content) = <<Text(content)>>
         /\ IsBlank(content) => TextNodes(content) \in {<< >>, <<Whitespace>>}
BY DEF TextNodes, IsBlank

Awaits(e, next) == <<e, next>> \in {<<"value", "fieldEnd">>, <<"content", "subfieldEnd">>}

ReadsContent(R, nodes, a, b, content, e, next, l, t, c, f) ==
  /\ a \in Nat /\ b \in Nat /\ b = a + Len(TextNodes(content))
  /\ Stand(nodes, a, TextNodes(content))
  /\ Runs(R, nodes, a, b)
  /\ Awaits(e, next)
  /\ R[a] = State(e, a, l, t, c, f)

ContentRead(R, a, b, content, e, next, l, t, c, f) ==
  /\ Underway(R, a, b, TRUE)
  /\ ~IsBlank(content) => R[b] = State(next, b, l, t, Append(c, content), f)
  /\ IsBlank(content) => R[b] = State(e, b, l, t, c, f)

(* A content is read, passed over when it is blank, and then missed.       *)
LEMMA ContentIsRead ==
  ASSUME NEW R, NEW nodes, NEW a, NEW b, NEW content, NEW e, NEW next,
         NEW l, NEW t, NEW c, NEW f, ReadsContent(R, nodes, a, b, content, e, next, l, t, c, f)
  PROVE  ContentRead(R, a, b, content, e, next, l, t, c, f)
<1> USE DEF ContentRead
<1>0. /\ a \in Nat /\ b \in Nat /\ b = a + Len(TextNodes(content))
      /\ Stand(nodes, a, TextNodes(content)) /\ Runs(R, nodes, a, b)
      /\ Awaits(e, next) /\ R[a] = State(e, a, l, t, c, f)
  BY DEF ReadsContent
<1>1. e \notin Stopped /\ next \notin Stopped
  BY <1>0 DEF Awaits, Stopped
<1>2. Underway(R, a, a, TRUE)
  BY <1>0, <1>1, StateGoes, UnderwayFrom
<1>3. ASSUME NEW node, TextNodes(content) = <<node>>
      PROVE  b = a + 1 /\ nodes[a + 1] = node /\ R[a + 1] = TakeNext(R[a], node)
  <2>1. Len(<<node>>) = 1 /\ <<node>>[1] = node
    OBVIOUS
  <2>2. b = a + 1 /\ nodes[a + 1] = node
    BY <1>0, <1>3, <2>1 DEF Stand
  <2> QED
    BY <1>0, <2>2, RunsOne
<1>4. CASE ~IsBlank(content)
  <2>1. R[a + 1] = TakeNext(R[a], Text(content)) /\ b = a + 1
    BY <1>3, <1>4, TextNodesAre
  <2>2. Text(content).type = "TEXT" /\ Text(content).value = content
    BY TextParts
  <2>3. R[b] = State(next, b, l, t, Append(c, content), f)
    BY <1>0, <2>1, <2>2, TakesValue, TakesContent DEF Awaits
  <2> QED
    BY <1>0, <1>1, <1>2, <1>4, <2>1, <2>3, StateGoes, UnderwayStep
<1>5. CASE TextNodes(content) = << >> /\ IsBlank(content)
  <2>1. b = a
    BY <1>0, <1>5, EmptySeq
  <2> QED
    BY <1>0, <1>2, <1>5, <2>1
<1>6. CASE TextNodes(content) = <<Whitespace>> /\ IsBlank(content)
  <2>1. R[a + 1] = TakeNext(R[a], Whitespace) /\ b = a + 1
    BY <1>3, <1>6
  <2>2. Whitespace.type = "SIGNIFICANT_WHITESPACE"
    BY DEF Whitespace
  <2>3. R[b] = State(e, b, l, t, c, f)
    BY <1>0, <1>1, <2>1, <2>2, TakenNext
  <2> QED
    BY <1>0, <1>1, <1>2, <1>6, <2>1, <2>3, StateGoes, UnderwayStep
<1> QED
  BY <1>4, <1>5, <1>6, TextNodesAre

(* The nodes inside a collection: none of them ends it.                    *)
NodeTypes == {"ELEMENT", "END_ELEMENT", "TEXT", "SIGNIFICANT_WHITESPACE"}
InnerNames == {"", "record", "leader", "controlfield", "datafield", "subfield"}
Values == STRING \cup {"", " ", "a"}

Inner == [type : NodeTypes, name : InnerNames, value : Values]

(* An element with the nodes inside it.                                    *)
LEMMA EnclosedIs ==
  ASSUME NEW S, NEW name, NEW tag, NEW inner \in Seq(S),
         Element(name, tag) \in S, EndElement(name) \in S
  PROVE  /\ Enclosed(name, tag, inner) \in Seq(S)
         /\ Len(Enclosed(name, tag, inner)) = Len(inner) + 2
<1>1. <<Element(name, tag)>> \in Seq(S) /\ <<EndElement(name)>> \in Seq(S)
      /\ Len(<<Element(name, tag)>>) = 1 /\ Len(<<EndElement(name)>>) = 1
  OBVIOUS
<1>2. Len(inner) \in Nat
  BY LenProperties
<1> DEFINE first == <<Element(name, tag)>>
           last == <<EndElement(name)>>
<1> HIDE DEF first, last
<1>3. first \o inner \in Seq(S) /\ Len(first \o inner) = 1 + Len(inner)
  BY <1>1, Beside DEF first
<1>4. (first \o inner) \o last \in Seq(S) /\ Len((first \o inner) \o last) = Len(first \o inner) + 1
  <2>1. last \in Seq(S) /\ Len(last) = 1
    BY <1>1 DEF last
  <2> QED
    BY <1>3, <2>1, Beside
<1> QED
  BY <1>2, <1>3, <1>4 DEF Enclosed, first, last

LEMMA EnclosedStands ==
  ASSUME NEW S, NEW name, NEW tag, NEW inner \in Seq(S),
         Element(name, tag) \in S, EndElement(name) \in S,
         NEW nodes, NEW a \in Nat, Stand(nodes, a, Enclosed(name, tag, inner))
  PROVE  /\ nodes[a + 1] = Element(name, tag)
         /\ Stand(nodes, a + 1, inner)
         /\ nodes[a + 1 + Len(inner) + 1] = EndElement(name)
<1> DEFINE first == <<Element(name, tag)>>
           last == <<EndElement(name)>>
<1>1. /\ first \in Seq(S) /\ Len(first) = 1 /\ first[1] = Element(name, tag)
      /\ last \in Seq(S) /\ Len(last) = 1 /\ last[1] = EndElement(name)
  OBVIOUS
<1>2. Len(inner) \in Nat
  BY LenProperties
<1>3. Enclosed(name, tag, inner) = (first \o inner) \o last
  BY DEF Enclosed
<1> HIDE DEF first, last
<1>4. first \o inner \in Seq(S) /\ Len(first \o inner) = 1 + Len(inner)
  BY <1>1, Beside
<1>5. Stand(nodes, a, first \o inner) /\ Stand(nodes, a + Len(first \o inner), last)
  BY <1>1, <1>3, <1>4, StandApart
<1>6. Stand(nodes, a, first) /\ Stand(nodes, a + 1, inner)
  BY <1>1, <1>5, StandApart
<1>7. nodes[a + 1] = Element(name, tag)
  BY <1>1, <1>6 DEF Stand
<1>8. nodes[(a + Len(first \o inner)) + 1] = EndElement(name)
  BY <1>1, <1>5 DEF Stand
<1> QED
  BY <1>2, <1>4, <1>6, <1>7, <1>8

(* What was flattened stands part by part.                                 *)
LEMMA FlattenStands ==
  ASSUME NEW nodes, NEW a \in Nat, NEW seqs, NEW whole, Len(seqs) \in Nat,
         \A i \in 1..Len(seqs) : Len(seqs[i]) \in Nat, Len(whole) \in Nat,
         Stand(nodes, a, whole), NEW places, ArePlaces(places, seqs, whole),
         NEW i \in 1..Len(seqs)
  PROVE  Stand(nodes, a + places[i - 1], seqs[i]) /\ places[i] <= Len(whole)
<1>0. /\ \A k \in 0..Len(seqs) : places[k] \in Nat
      /\ \A k \in 1..Len(seqs) : places[k] = places[k - 1] + Len(seqs[k])
      /\ places[Len(seqs)] = Len(whole)
  BY DEF ArePlaces
<1> DEFINE T == {k \in 0..Len(seqs) : k < i \/ places[i] <= places[k]}
<1>1. \A k \in 0..Len(seqs) : k \in T
  <2>1. 0 \in T
    OBVIOUS
  <2>2. ASSUME NEW k \in 1..Len(seqs), k - 1 \in T PROVE k \in T
    <3>1. /\ places[k] = places[k - 1] + Len(seqs[k])
          /\ places[k] \in Nat /\ places[k - 1] \in Nat /\ places[i] \in Nat
          /\ Len(seqs[k]) \in Nat
      BY <1>0
    <3>2. CASE k < i \/ k = i
      BY <3>1, <3>2
    <3>3. CASE ~(k < i \/ k = i)
      <4>1. places[i] <= places[k - 1]
        BY <2>2, <3>3
      <4> QED
        BY <3>1, <4>1
    <3> QED
      BY <3>2, <3>3
  <2> HIDE DEF T
  <2> QED
    BY <2>1, <2>2, UpTo
<1>2. /\ places[i] <= Len(whole) /\ places[i] = places[i - 1] + Len(seqs[i])
      /\ places[i - 1] \in Nat /\ places[i] \in Nat
  <2>1. Len(seqs) \in T
    BY <1>1
  <2>2. places[i] <= places[Len(seqs)]
    BY <2>1
  <2> QED
    BY <1>0, <2>2
<1>3. ASSUME NEW j \in 1..Len(seqs[i])
      PROVE  nodes[(a + places[i - 1]) + j] = seqs[i][j]
  <2> DEFINE k == places[i - 1] + j
  <2>1. k \in 1..Len(whole) /\ (a + places[i - 1]) + j = a + k
    <3> DEFINE p == places[i - 1]
               q == places[i]
               n == Len(seqs[i])
    <3>1. p \in Nat /\ q \in Nat /\ n \in Nat /\ q = p + n /\ j \in 1..n /\ q <= Len(whole)
      BY <1>2
    <3> HIDE DEF p, q, n
    <3>2. p + j \in 1..Len(whole) /\ (a + p) + j = a + (p + j)
      BY <3>1
    <3> QED
      BY <3>2 DEF p
  <2>2. whole[k] = seqs[i][j]
    BY DEF ArePlaces
  <2> HIDE DEF k
  <2> QED
    BY <2>1, <2>2 DEF Stand
<1> QED
  BY <1>2, <1>3 DEF Stand

-----------------------------------------------------------------------------
(* What is written for a record is made of such nodes.                     *)

LEMMA PartsAreInner ==
  ASSUME NEW name \in InnerNames, NEW tag \in Values
  PROVE  Element(name, tag) \in Inner /\ EndElement(name) \in Inner
<1>1. "ELEMENT" \in NodeTypes /\ "END_ELEMENT" \in NodeTypes
  BY DEF NodeTypes
<1>2. "" \in Values
  BY DEF Values
<1> QED
  BY <1>1, <1>2 DEF Element, EndElement, Inner

LEMMA TextIsInner ==
  ASSUME NEW content \in STRING
  PROVE  TextNodes(content) \in Seq(Inner)
<1>1. Text(content) \in Inner /\ Whitespace \in Inner
  <2>1. "TEXT" \in NodeTypes /\ "SIGNIFICANT_WHITESPACE" \in NodeTypes
    BY DEF NodeTypes
  <2>2. "" \in InnerNames
    BY DEF InnerNames
  <2>3. " " \in Values /\ content \in Values
    BY DEF Values
  <2> QED
    BY <2>1, <2>2, <2>3 DEF Text, Whitespace, Inner
<1>2. ASSUME NEW node \in Inner PROVE <<node>> \in Seq(Inner)
  OBVIOUS
<1>3. << >> \in Seq(Inner)
  BY EmptySeq
<1> QED
  BY <1>1, <1>2, <1>3, TextNodesAre

SubfieldPieces(contents) ==
  [i \in DOMAIN contents |-> Enclosed("subfield", "a", TextNodes(contents[i]))]

LEMMA SubfieldsAreInner ==
  ASSUME NEW contents \in Seq(STRING)
  PROVE  /\ SubfieldPieces(contents) \in Seq(Seq(Inner))
         /\ Len(SubfieldPieces(contents)) = Len(contents)
         /\ SubfieldNodes(contents) \in Seq(Inner)
<1>1. ASSUME NEW i \in 1..Len(contents)
      PROVE  Enclosed("subfield", "a", TextNodes(contents[i])) \in Seq(Inner)
  <2>1. contents[i] \in STRING /\ "a" \in Values /\ "subfield" \in InnerNames
    BY ElementOfSeq DEF Values, InnerNames
  <2> QED
    BY <2>1, TextIsInner, PartsAreInner, EnclosedIs
<1>2. DOMAIN contents = 1..Len(contents) /\ Len(contents) \in Nat
  BY LenProperties
<1>3. SubfieldPieces(contents) \in Seq(Seq(Inner)) /\ Len(SubfieldPieces(contents)) = Len(contents)
  <2>1. SubfieldPieces(contents) =
          [i \in 1..Len(contents) |-> Enclosed("subfield", "a", TextNodes(contents[i]))]
    BY <1>2 DEF SubfieldPieces
  <2> DEFINE s == SubfieldPieces(contents)
             n == Len(contents)
  <2>2. DOMAIN s = 1..n /\ s = [i \in 1..n |-> s[i]] /\ \A i \in 1..n : s[i] \in Seq(Inner)
    BY <1>1, <2>1
  <2> HIDE DEF s, n
  <2>3. n \in Nat
    BY <1>2 DEF n
  <2>4. s \in Seq(Seq(Inner)) /\ Len(s) = n
    BY <2>2, <2>3, Numbered
  <2> QED
    BY <2>4 DEF s, n
<1>4. SubfieldNodes(contents) = FlattenSeq(SubfieldPieces(contents))
  BY DEF SubfieldNodes, SubfieldPieces
<1> QED
  BY <1>3, <1>4, FlattenIs

LEMMA FieldIsInner ==
  ASSUME NEW field \in Field
  PROVE  FieldNodes(field) \in Seq(Inner)
<1>1. /\ field.tag \in STRING /\ field.contents \in Seq(STRING)
      /\ field.isControlField => Len(field.contents) = 1
  BY DEF Field
<1>0. /\ field.tag \in Values /\ "controlfield" \in InnerNames /\ "datafield" \in InnerNames
  BY <1>1 DEF Values, InnerNames
<1>2. CASE field.isControlField
  <2>1. field.contents[1] \in STRING
    BY <1>1, <1>2, ElementOfSeq
  <2>2. Enclosed("controlfield", field.tag, TextNodes(field.contents[1])) \in Seq(Inner)
    BY <1>0, <1>1, <2>1, TextIsInner, PartsAreInner, EnclosedIs
  <2> QED
    BY <1>2, <2>2 DEF FieldNodes
<1>3. CASE ~field.isControlField
  <2>1. Element("datafield", field.tag) \in Inner
    BY <1>0, <1>1, PartsAreInner
  <2>2. <<Element("datafield", field.tag)>> \in Seq(Inner)
    BY <2>1
  <2>3. Enclosed("datafield", field.tag, SubfieldNodes(field.contents)) \in Seq(Inner)
    BY <1>0, <1>1, SubfieldsAreInner, PartsAreInner, EnclosedIs
  <2> QED
    BY <1>3, <2>2, <2>3 DEF FieldNodes
<1> QED
  BY <1>2, <1>3

LEMMA UnderwayWeaker ==
  ASSUME NEW R, NEW a, NEW b, NEW sure, NEW surer, Underway(R, a, b, surer), sure => surer
  PROVE  Underway(R, a, b, sure)
BY DEF Underway, Goes

LEMMA UnderwayUnsure ==
  ASSUME NEW R, NEW a, NEW b, NEW sure, Underway(R, a, b, TRUE)
  PROVE  Underway(R, a, b, sure)
BY DEF Underway, Goes

LEMMA RefusedGoes ==
  ASSUME NEW state, IsRefused(state)
  PROVE  Goes(state, FALSE)
BY DEF Goes, IsRefused

LEMMA StateRefused ==
  ASSUME NEW k, NEW l, NEW t, NEW c, NEW f
  PROVE  IsRefused(State("malformed", k, l, t, c, f))
BY StateParts DEF IsRefused

(* The start of what is read one by one, and all of it.                    *)
LEMMA PrefixesGrow ==
  ASSUME NEW S, NEW s \in Seq(S)
  PROVE  /\ SubSeq(s, 1, 0) = << >>
         /\ SubSeq(s, 1, Len(s)) = s
         /\ \A i \in 1..Len(s) : Append(SubSeq(s, 1, i - 1), s[i]) = SubSeq(s, 1, i)
<1>1. Len(s) \in Nat
  BY LenProperties
<1>2. SubSeq(s, 1, 0) = << >>
  OBVIOUS
<1>3. SubSeq(s, 1, Len(s)) = s
  OBVIOUS
<1>4. ASSUME NEW i \in 1..Len(s) PROVE Append(SubSeq(s, 1, i - 1), s[i]) = SubSeq(s, 1, i)
  OBVIOUS
<1> QED
  BY <1>2, <1>3, <1>4

ReadsSubfield(R, nodes, a, b, content, l, t, c, f) ==
  /\ a \in Nat /\ b \in Nat /\ content \in STRING
  /\ b = a + Len(TextNodes(content)) + 2
  /\ Stand(nodes, a, Enclosed("subfield", "a", TextNodes(content)))
  /\ Runs(R, nodes, a, b)
  /\ R[a] = State("subfield", a, l, t, c, f)

SubfieldRead(R, a, b, content, l, t, c, f) ==
  /\ Underway(R, a, b, ~IsBlank(content))
  /\ \/ R[b] = State("subfield", b, l, t, Append(c, content), f)
     \/ IsBlank(content) /\ IsRefused(R[b])

(* A subfield is read, or its blank content is missed at its end.          *)
LEMMA SubfieldIsRead ==
  ASSUME NEW R, NEW nodes, NEW a, NEW b, NEW content, NEW l, NEW t, NEW c, NEW f,
         ReadsSubfield(R, nodes, a, b, content, l, t, c, f)
  PROVE  SubfieldRead(R, a, b, content, l, t, c, f)
<1>0. /\ a \in Nat /\ b \in Nat /\ content \in STRING
      /\ b = a + Len(TextNodes(content)) + 2
      /\ Stand(nodes, a, Enclosed("subfield", "a", TextNodes(content)))
      /\ Runs(R, nodes, a, b)
      /\ R[a] = State("subfield", a, l, t, c, f)
  BY DEF ReadsSubfield
<1> DEFINE sure == ~IsBlank(content)
           d == a + 1 + Len(TextNodes(content))
<1>1. TextNodes(content) \in Seq(Inner) /\ Len(TextNodes(content)) \in Nat
  BY <1>0, TextIsInner, LenProperties
<1>2. d \in Nat /\ d + 1 = b /\ a + 1 \in Nat /\ a + 1 <= d
  BY <1>0, <1>1
<1>3. Element("subfield", "a") \in Inner /\ EndElement("subfield") \in Inner
  <2>1. "a" \in Values /\ "subfield" \in InnerNames
    BY DEF Values, InnerNames
  <2> QED
    BY <1>0, <2>1, PartsAreInner
<1>4. /\ nodes[a + 1] = Element("subfield", "a")
      /\ Stand(nodes, a + 1, TextNodes(content))
      /\ nodes[d + 1] = EndElement("subfield")
  BY <1>0, <1>1, <1>3, EnclosedStands
<1> HIDE DEF d
<1>5. R[a + 1] = TakeNext(R[a], nodes[a + 1]) /\ R[d + 1] = TakeNext(R[d], nodes[d + 1])
  BY <1>0, <1>2, RunsOne
<1>6. R[a + 1] = State("content", a + 1, l, t, c, f)
  <2>1. Is(Element("subfield", "a"), "ELEMENT", "subfield")
    BY <1>0, ElementIs
  <2>2. ~IsUntagged(Element("subfield", "a"))
    <3>1. Element("subfield", "a").value = "a"
      BY <1>0, ElementIs
    <3> QED
      BY <1>0, <3>1 DEF IsUntagged
  <2> QED
    BY <1>0, <1>4, <1>5, <2>1, <2>2, TakesSubfieldStart
<1>7. Underway(R, a, a + 1, sure)
  <2>1. "subfield" \notin Stopped /\ "content" \notin Stopped
    BY DEF Stopped
  <2>2. Underway(R, a, a, sure)
    BY <1>0, <2>1, StateGoes, UnderwayFrom
  <2> QED
    BY <1>0, <1>6, <2>1, <2>2, StateGoes, UnderwayStep
<1>8. Runs(R, nodes, a + 1, d)
  BY <1>0, <1>2, RunsWithin
<1>9. /\ Underway(R, a + 1, d, TRUE)
      /\ ~IsBlank(content) => R[d] = State("subfieldEnd", d, l, t, Append(c, content), f)
      /\ IsBlank(content) => R[d] = State("content", d, l, t, c, f)
  <2>1. d = (a + 1) + Len(TextNodes(content))
    BY <1>0, <1>1 DEF d
  <2>2. Awaits("content", "subfieldEnd")
    BY DEF Awaits
  <2>3. ReadsContent(R, nodes, a + 1, d, content, "content", "subfieldEnd", l, t, c, f)
    BY <1>0, <1>2, <1>4, <1>6, <1>8, <2>1, <2>2 DEF ReadsContent
  <2>4. ContentRead(R, a + 1, d, content, "content", "subfieldEnd", l, t, c, f)
    BY <1>0, <2>3, ContentIsRead
  <2> QED
    BY <1>0, <2>4 DEF ContentRead
<1>10. Underway(R, a, d, sure)
  BY <1>0, <1>2, <1>7, <1>9, UnderwayUnsure, UnderwayOn
<1>11. CASE sure
  <2>1. R[b] = State("subfield", b, l, t, Append(c, content), f)
    BY <1>0, <1>2, <1>4, <1>5, <1>9, <1>11, EndElementIs, TakesSubfieldEnd
  <2>2. Goes(R[b], sure)
    BY <1>0, <2>1, StateGoes DEF Stopped
  <2> QED
    BY <1>0, <1>2, <1>10, <2>1, <2>2, UnderwayStep DEF SubfieldRead
<1>12. CASE ~sure
  <2>1. R[b] = State("malformed", b, l, t, c, f)
    <3>1. EndElement("subfield").type = "END_ELEMENT"
      BY <1>0, EndElementIs DEF Is
    <3> QED
      BY <1>0, <1>2, <1>4, <1>5, <1>9, <1>12, <3>1, RefusesNoContent
  <2>2. IsRefused(R[b])
    BY <1>0, <2>1, StateRefused
  <2>3. Goes(R[b], sure)
    BY <1>0, <1>12, <2>2 DEF Goes, IsRefused
  <2> QED
    BY <1>0, <1>2, <1>10, <1>12, <2>2, <2>3, UnderwayStep DEF SubfieldRead
<1> QED
  BY <1>0, <1>11, <1>12

-----------------------------------------------------------------------------
(* A field.                                                                *)

IsFieldReadable(field) ==
  field.contents # << >> /\ \A j \in DOMAIN field.contents : ~IsBlank(field.contents[j])

ReadsField(R, nodes, a, b, field, l, t, c, f) ==
  /\ a \in Nat /\ b \in Nat /\ field \in Field
  /\ b = a + Len(FieldNodes(field))
  /\ Stand(nodes, a, FieldNodes(field))
  /\ Runs(R, nodes, a, b)
  /\ R[a] = State("field", a, l, t, c, f)

(* After a field: it was read, or it was not readable, which may show only *)
(* in the next node.                                                       *)
FieldRead(R, a, b, field, l, f) ==
  /\ Underway(R, a, b, IsFieldReadable(field))
  /\ \/ \E t, c : R[b] = State("field", b, l, t, c, Append(f, field))
     \/ ~IsFieldReadable(field) /\ IsRefused(R[b])
     \/ ~IsFieldReadable(field) /\ \E t, c : R[b] = State("subfield", b, l, t, c, f)

(* The parts of a field, and of a sequence of one.                         *)
LEMMA FieldParts ==
  ASSUME NEW field \in Field
  PROVE  /\ field.tag \in STRING /\ field.tag \in Values
         /\ ~(field.tag = "")
         /\ field.contents \in Seq(STRING)
         /\ field.isControlField \in BOOLEAN
         /\ field.isControlField => Len(field.contents) = 1
         /\ field = [isControlField |-> field.isControlField, tag |-> field.tag,
                     contents |-> field.contents]
BY DEF Field, Values

LEMMA OneIs ==
  ASSUME NEW S, NEW s \in Seq(S), Len(s) = 1
  PROVE  /\ s[1] \in S /\ s = <<s[1]>> /\ s = Append(<< >>, s[1])
         /\ DOMAIN s = {1} /\ s # << >>
<1>1. DOMAIN s = 1..1 /\ s[1] \in S
  BY ElementOfSeq
<1>2. s # << >>
  BY EmptySeq
<1>3. s = <<s[1]>>
  <2> DEFINE x == <<s[1]>>
  <2>1. x \in Seq(S) /\ Len(x) = 1 /\ x[1] = s[1]
    BY <1>1
  <2> HIDE DEF x
  <2>2. s = x
    BY <2>1, SeqEqual
  <2> QED
    BY <2>2 DEF x
<1> QED
  BY <1>1, <1>2, <1>3

(* A control field is read, or refused when it is blank.                   *)
LEMMA ControlFieldIsRead ==
  ASSUME NEW R, NEW nodes, NEW a, NEW b, NEW field, NEW l, NEW t, NEW c, NEW f,
         ReadsField(R, nodes, a, b, field, l, t, c, f), field.isControlField
  PROVE  FieldRead(R, a, b, field, l, f)
<1> DEFINE content == field.contents[1]
           sure == IsFieldReadable(field)
           d == a + 1 + Len(TextNodes(content))
           tag == field.tag
<1>0. /\ a \in Nat /\ b \in Nat /\ field \in Field
      /\ b = a + Len(FieldNodes(field))
      /\ Stand(nodes, a, FieldNodes(field))
      /\ Runs(R, nodes, a, b)
      /\ R[a] = State("field", a, l, t, c, f)
  BY DEF ReadsField
<1>1. /\ tag \in Values /\ ~(tag = "")
      /\ field.contents \in Seq(STRING) /\ Len(field.contents) = 1
      /\ field = [isControlField |-> TRUE, tag |-> tag, contents |-> field.contents]
  BY <1>0, FieldParts
<1>2. content \in STRING /\ field.contents = <<content>> /\ field.contents = Append(<< >>, content)
  BY <1>1, OneIs
<1>3. sure <=> ~IsBlank(content)
  <2>1. DOMAIN field.contents = {1} /\ field.contents # << >>
    BY <1>1, OneIs
  <2> QED
    BY <2>1 DEF IsFieldReadable
<1>4. FieldNodes(field) = Enclosed("controlfield", tag, TextNodes(content))
  BY DEF FieldNodes
<1>5. TextNodes(content) \in Seq(Inner) /\ Len(TextNodes(content)) \in Nat
  BY <1>2, TextIsInner, LenProperties
<1>6. Element("controlfield", tag) \in Inner /\ EndElement("controlfield") \in Inner
  <2>1. "controlfield" \in InnerNames
    BY DEF InnerNames
  <2> QED
    BY <1>1, <2>1, PartsAreInner
<1> HIDE DEF content, sure, tag
<1>7. Len(FieldNodes(field)) = Len(TextNodes(content)) + 2
  BY <1>4, <1>5, <1>6, EnclosedIs
<1>8. d \in Nat /\ d + 1 = b /\ a + 1 \in Nat /\ a + 1 <= d /\ d = (a + 1) + Len(TextNodes(content))
  BY <1>0, <1>5, <1>7
<1>9. /\ nodes[a + 1] = Element("controlfield", tag)
      /\ Stand(nodes, a + 1, TextNodes(content))
      /\ nodes[d + 1] = EndElement("controlfield")
  BY <1>0, <1>4, <1>5, <1>6, EnclosedStands
<1> HIDE DEF d
<1>10. R[a + 1] = TakeNext(R[a], nodes[a + 1]) /\ R[d + 1] = TakeNext(R[d], nodes[d + 1])
  BY <1>0, <1>8, RunsOne
<1>11. R[a + 1] = State("value", a + 1, l, tag, << >>, f)
  <2>1. Is(Element("controlfield", tag), "ELEMENT", "controlfield")
    BY ElementIs
  <2>2. Element("controlfield", tag).value = tag
    BY ElementIs
  <2>3. ~IsUntagged(Element("controlfield", tag))
    BY <1>1, <2>2 DEF IsUntagged
  <2> QED
    BY <1>0, <1>9, <1>10, <2>1, <2>2, <2>3, TakesControlStart
<1>12. Underway(R, a, a + 1, sure)
  <2>1. "field" \notin Stopped /\ "value" \notin Stopped
    BY DEF Stopped
  <2>2. Underway(R, a, a, sure)
    BY <1>0, <2>1, StateGoes, UnderwayFrom
  <2> QED
    BY <1>0, <1>11, <2>1, <2>2, StateGoes, UnderwayStep
<1>13. ContentRead(R, a + 1, d, content, "value", "fieldEnd", l, tag, << >>, f)
  <2>1. Runs(R, nodes, a + 1, d)
    BY <1>0, <1>8, RunsWithin
  <2>2. Awaits("value", "fieldEnd")
    BY DEF Awaits
  <2>3. ReadsContent(R, nodes, a + 1, d, content, "value", "fieldEnd", l, tag, << >>, f)
    BY <1>8, <1>9, <1>11, <2>1, <2>2 DEF ReadsContent
  <2> QED
    BY <2>3, ContentIsRead
<1>14. Underway(R, a, d, sure)
  <2>1. Underway(R, a + 1, d, TRUE)
    BY <1>13 DEF ContentRead
  <2>2. Underway(R, a + 1, d, sure)
    BY <2>1, UnderwayUnsure
  <2> QED
    BY <1>0, <1>8, <1>12, <2>2, UnderwayOn
<1>15. CASE sure
  <2>1. R[d] = State("fieldEnd", d, l, tag, field.contents, f)
    BY <1>2, <1>3, <1>13, <1>15 DEF ContentRead
  <2>2. R[b] = State("field", b, l, tag, field.contents,
                     Append(f, [isControlField |-> TRUE, tag |-> tag, contents |-> field.contents]))
    BY <1>8, <1>9, <1>10, <2>1, EndElementIs, TakesControlEnd
  <2>3. R[b] = State("field", b, l, tag, field.contents, Append(f, field))
    BY <1>1, <2>2
  <2>4. Goes(R[b], sure)
    BY <2>3, StateGoes DEF Stopped
  <2> QED
    BY <1>0, <1>8, <1>14, <2>3, <2>4, UnderwayStep DEF FieldRead, sure
<1>16. CASE ~sure
  <2>1. R[d] = State("value", d, l, tag, << >>, f)
    BY <1>3, <1>13, <1>16 DEF ContentRead
  <2>2. EndElement("controlfield").type = "END_ELEMENT"
    BY EndElementIs DEF Is
  <2>3. R[b] = State("malformed", b, l, tag, << >>, f)
    BY <1>8, <1>9, <1>10, <2>1, <2>2, RefusesNoValue
  <2>4. IsRefused(R[b])
    BY <2>3, StateRefused
  <2>5. Goes(R[b], sure)
    BY <1>16, <2>4 DEF Goes, IsRefused
  <2> QED
    BY <1>0, <1>8, <1>14, <1>16, <2>4, <2>5, UnderwayStep DEF FieldRead, sure
<1> QED
  BY <1>15, <1>16

(* Some subfields were read, or one of them was refused.                   *)
SubfieldsRead(R, a, q, l, t, contents, f, sure) ==
  /\ Underway(R, a, q, sure)
  /\ \/ R[q] = State("subfield", q, l, t, contents, f)
     \/ ~sure /\ IsRefused(R[q])

(* So is a data field, one subfield after the other.                       *)
LEMMA DataFieldIsRead ==
  ASSUME NEW R, NEW nodes, NEW a, NEW b, NEW field, NEW l, NEW t, NEW c, NEW f,
         ReadsField(R, nodes, a, b, field, l, t, c, f), ~field.isControlField
  PROVE  FieldRead(R, a, b, field, l, f)
<1> DEFINE contents == field.contents
           sure == IsFieldReadable(field)
           tag == field.tag
           pieces == SubfieldPieces(contents)
<1>0. /\ a \in Nat /\ b \in Nat /\ field \in Field
      /\ b = a + Len(FieldNodes(field))
      /\ Stand(nodes, a, FieldNodes(field))
      /\ Runs(R, nodes, a, b)
      /\ R[a] = State("field", a, l, t, c, f)
  BY DEF ReadsField
<1>1. /\ tag \in Values /\ ~(tag = "") /\ contents \in Seq(STRING)
      /\ field = [isControlField |-> FALSE, tag |-> tag, contents |-> contents]
  BY <1>0, FieldParts
<1>13. contents \in Seq(STRING)
  BY <1>1
<1>14. /\ SubSeq(contents, 1, 0) = << >>
       /\ SubSeq(contents, 1, Len(contents)) = contents
       /\ \A i \in 1..Len(contents) :
            Append(SubSeq(contents, 1, i - 1), contents[i]) = SubSeq(contents, 1, i)
  <2> HIDE DEF contents
  <2> QED
    BY <1>13, PrefixesGrow
<1>2. /\ pieces \in Seq(Seq(Inner)) /\ Len(pieces) = Len(contents)
      /\ SubfieldNodes(contents) \in Seq(Inner)
  BY <1>1, SubfieldsAreInner
<1>3. SubfieldNodes(contents) = FlattenSeq(pieces)
  BY DEF SubfieldNodes, SubfieldPieces
<1>4. Len(contents) \in Nat /\ Len(SubfieldNodes(contents)) \in Nat
  BY <1>1, <1>2, LenProperties
<1>5. Element("datafield", tag) \in Inner /\ EndElement("datafield") \in Inner
  <2>1. "datafield" \in InnerNames
    BY DEF InnerNames
  <2> QED
    BY <1>1, <2>1, PartsAreInner
<1>6. /\ FieldNodes(field) = IF contents = << >> THEN <<Element("datafield", tag)>>
                             ELSE Enclosed("datafield", tag, SubfieldNodes(contents))
  BY DEF FieldNodes
<1>7. \A i \in 1..Len(contents) :
        /\ contents[i] \in STRING
        /\ pieces[i] = Enclosed("subfield", "a", TextNodes(contents[i]))
        /\ Len(pieces[i]) = Len(TextNodes(contents[i])) + 2
  <2>1. ASSUME NEW i \in 1..Len(contents)
        PROVE  /\ contents[i] \in STRING
               /\ pieces[i] = Enclosed("subfield", "a", TextNodes(contents[i]))
               /\ Len(pieces[i]) = Len(TextNodes(contents[i])) + 2
    <3>1. contents[i] \in STRING /\ DOMAIN contents = 1..Len(contents)
      BY <1>13, ElementOfSeq
    <3>2. pieces[i] = Enclosed("subfield", "a", TextNodes(contents[i]))
      BY <3>1 DEF SubfieldPieces
    <3>3. TextNodes(contents[i]) \in Seq(Inner)
      BY <3>1, TextIsInner
    <3>4. Element("subfield", "a") \in Inner /\ EndElement("subfield") \in Inner
      <4>1. "a" \in Values /\ "subfield" \in InnerNames
        BY DEF Values, InnerNames
      <4> QED
        BY <4>1, PartsAreInner
    <3> QED
      BY <3>1, <3>2, <3>3, <3>4, EnclosedIs
  <2> QED
    BY <2>1
<1> HIDE DEF contents, sure, tag, pieces
<1>8. nodes[a + 1] = Element("datafield", tag) /\ a < b
  <2>1. CASE contents = << >>
    <3>1. /\ Len(<<Element("datafield", tag)>>) = 1
          /\ <<Element("datafield", tag)>>[1] = Element("datafield", tag)
      OBVIOUS
    <3> QED
      BY <1>0, <1>6, <2>1, <3>1 DEF Stand
  <2>2. CASE contents # << >>
    BY <1>0, <1>2, <1>4, <1>5, <1>6, <2>2, EnclosedIs, EnclosedStands
  <2> QED
    BY <2>1, <2>2
<1>9. R[a + 1] = State("subfield", a + 1, l, tag, << >>, f)
  <2>1. Is(Element("datafield", tag), "ELEMENT", "datafield")
    BY ElementIs
  <2>2. Element("datafield", tag).value = tag
    BY ElementIs
  <2>3. ~IsUntagged(Element("datafield", tag))
    BY <1>1, <2>2 DEF IsUntagged
  <2>4. R[a + 1] = TakeNext(R[a], nodes[a + 1])
    BY <1>0, <1>8, RunsOne
  <2> QED
    BY <1>0, <1>8, <2>1, <2>2, <2>3, <2>4, TakesDataStart
<1>10. Underway(R, a, a + 1, sure)
  <2>1. "field" \notin Stopped /\ "subfield" \notin Stopped
    BY DEF Stopped
  <2>2. Underway(R, a, a, sure)
    BY <1>0, <2>1, StateGoes, UnderwayFrom
  <2> QED
    BY <1>0, <1>9, <2>1, <2>2, StateGoes, UnderwayStep
<1>11. CASE contents = << >>
  <2>1. b = a + 1
    <3>1. Len(<<Element("datafield", tag)>>) = 1
      OBVIOUS
    <3> QED
      BY <1>0, <1>6, <1>11, <3>1
  <2>2. ~sure
    BY <1>11 DEF sure, contents, IsFieldReadable
  <2> QED
    BY <1>9, <1>10, <2>1, <2>2 DEF FieldRead, sure
<1>12. CASE contents # << >>
  <2>1. /\ FieldNodes(field) = Enclosed("datafield", tag, SubfieldNodes(contents))
        /\ Len(FieldNodes(field)) = Len(SubfieldNodes(contents)) + 2
    BY <1>2, <1>5, <1>6, <1>12, EnclosedIs
  <2> DEFINE p == a + 1
             d == p + Len(SubfieldNodes(contents))
             n == Len(contents)
  <2>2. p \in Nat /\ d \in Nat /\ d + 1 = b /\ a <= p /\ p <= d
    BY <1>0, <1>4, <2>1
  <2>3. Stand(nodes, p, SubfieldNodes(contents)) /\ nodes[d + 1] = EndElement("datafield")
    BY <1>0, <1>2, <1>5, <2>1, EnclosedStands
  <2>4. PICK places : ArePlaces(places, pieces, SubfieldNodes(contents))
    BY <1>2, <1>3, FlattenIs
  <2>5. /\ \A i \in 0..n : places[i] \in Nat
        /\ \A i \in 1..n : places[i] = places[i - 1] + Len(pieces[i])
        /\ places[0] = 0 /\ d = p + places[n]
    BY <1>2, <2>4 DEF ArePlaces
  <2>6. n \in Nat
    BY <1>4
  <2> HIDE DEF d, p, n
  <2>7. ASSUME NEW i \in 1..n
        PROVE  /\ Stand(nodes, p + places[i - 1], pieces[i])
               /\ p + places[i] <= d
               /\ p + places[i - 1] \in Nat /\ p + places[i] \in Nat
               /\ p + places[i] = (p + places[i - 1]) + Len(TextNodes(contents[i])) + 2
               /\ a <= p + places[i - 1] /\ p + places[i - 1] <= p + places[i]
    <3>1. Stand(nodes, p + places[i - 1], pieces[i]) /\ places[i] <= Len(SubfieldNodes(contents))
      <4>1. Len(pieces) \in Nat /\ i \in 1..Len(pieces)
            /\ \A k \in 1..Len(pieces) : Len(pieces[k]) \in Nat
        BY <1>2, <2>6, LenProperties, ElementOfSeq DEF n
      <4> QED
        BY <1>4, <2>2, <2>3, <2>4, <4>1, FlattenStands
    <3>2. /\ places[i] = places[i - 1] + Len(pieces[i])
          /\ places[i] \in Nat /\ places[i - 1] \in Nat
          /\ places[i] >= places[i - 1]
          /\ Len(pieces[i]) = Len(TextNodes(contents[i])) + 2
      <4>1. Len(pieces[i]) \in Nat
        BY <1>2, <2>6, LenProperties, ElementOfSeq DEF n
      <4> QED
        BY <1>7, <2>5, <2>6, <4>1 DEF n
    <3>3. Len(TextNodes(contents[i])) \in Nat
      BY <1>7, TextIsInner, LenProperties DEF n
    <3>4. d = p + Len(SubfieldNodes(contents))
      BY DEF d
    <3> DEFINE x == places[i - 1]
               y == places[i]
               z == Len(TextNodes(contents[i]))
    <3>5. /\ x \in Nat /\ y \in Nat /\ z \in Nat
          /\ y = x + (z + 2) /\ y <= Len(SubfieldNodes(contents))
      BY <3>1, <3>2, <3>3
    <3> HIDE DEF x, y, z
    <3>6. /\ p + y <= d /\ p + x \in Nat /\ p + y \in Nat /\ p + y = (p + x) + z + 2
          /\ a <= p + x /\ p + x <= p + y
      BY <1>0, <1>4, <2>2, <3>4, <3>5
    <3> QED
      BY <3>1, <3>6 DEF x, y, z
  <2> DEFINE Done(i) == SubfieldsRead(R, a, p + places[i], l, tag, SubSeq(contents, 1, i), f, sure)
             T == {i \in 0..n : Done(i)}
  <2>8. 0 \in T
    <3>1. p + places[0] = p /\ SubSeq(contents, 1, 0) = << >>
      BY <1>14, <2>2, <2>5
    <3>2. R[p] = State("subfield", p, l, tag, << >>, f) /\ Underway(R, a, p, sure)
      BY <1>9, <1>10 DEF p
    <3>3. Done(0)
      BY <3>1, <3>2 DEF SubfieldsRead
    <3> HIDE DEF Done
    <3> QED
      BY <2>6, <3>3
  <2>9. ASSUME NEW i \in 1..n, i - 1 \in T PROVE i \in T
    <3> DEFINE u == p + places[i - 1]
               v == p + places[i]
               content == contents[i]
               before == SubSeq(contents, 1, i - 1)
    <3>1. /\ Stand(nodes, u, Enclosed("subfield", "a", TextNodes(content)))
          /\ u \in Nat /\ v \in Nat /\ a <= u /\ u <= v /\ v <= d /\ d <= b
          /\ v = u + Len(TextNodes(content)) + 2 /\ content \in STRING
      BY <1>0, <1>7, <2>2, <2>7 DEF n
    <3>0. Done(i - 1)
      <4> HIDE DEF Done
      <4> QED
        BY <2>9
    <3>2. Underway(R, a, u, sure)
      BY <3>0 DEF SubfieldsRead
    <3>3. R[u] = State("subfield", u, l, tag, before, f) \/ (~sure /\ IsRefused(R[u]))
      BY <3>0 DEF SubfieldsRead
    <3>4. Append(before, content) = SubSeq(contents, 1, i)
      BY <1>14 DEF n
    <3>5. sure => ~IsBlank(content)
      <4>1. DOMAIN contents = 1..n
        BY <1>13, LenProperties DEF n
      <4> QED
        BY <4>1 DEF sure, IsFieldReadable, contents
    <3>6. SUFFICES /\ Underway(R, a, v, sure)
                   /\ \/ R[v] = State("subfield", v, l, tag, Append(before, content), f)
                      \/ ~sure /\ IsRefused(R[v])
      <4>1. Done(i)
        BY <3>4, <3>6 DEF SubfieldsRead
      <4> HIDE DEF Done
      <4> QED
        BY <4>1
    <3> HIDE DEF u, v, content, before, T, Done
    <3>7. Runs(R, nodes, u, v)
      BY <1>0, <2>2, <3>1, RunsWithin
    <3>8. CASE R[u] = State("subfield", u, l, tag, before, f)
      <4>1. ReadsSubfield(R, nodes, u, v, content, l, tag, before, f)
        BY <3>1, <3>7, <3>8 DEF ReadsSubfield
      <4>2. SubfieldRead(R, u, v, content, l, tag, before, f)
        BY <4>1, SubfieldIsRead
      <4>3. Underway(R, u, v, sure)
        <5>1. Underway(R, u, v, ~IsBlank(content))
          BY <4>2 DEF SubfieldRead
        <5> QED
          BY <3>5, <5>1, UnderwayWeaker
      <4>4. Underway(R, a, v, sure)
        BY <1>0, <3>1, <3>2, <4>3, UnderwayOn
      <4> QED
        BY <3>5, <4>2, <4>4 DEF SubfieldRead
    <3>9. CASE ~sure /\ IsRefused(R[u])
      <4>1. Underway(R, u, v, FALSE) /\ IsRefused(R[v])
        BY <3>1, <3>7, <3>9, RefusedStays
      <4>2. Underway(R, u, v, sure)
        BY <3>9, <4>1, UnderwayWeaker
      <4>3. Underway(R, a, v, sure)
        BY <1>0, <3>1, <3>2, <4>2, UnderwayOn
      <4> QED
        BY <3>9, <4>1, <4>3
    <3> QED
      BY <3>3, <3>8, <3>9
  <2>10. n \in T
    <3> HIDE DEF T
    <3>1. \A i \in 0..n : i \in T
      BY <2>6, <2>8, <2>9, UpTo
    <3> QED
      BY <2>6, <3>1
  <2>11. /\ Underway(R, a, d, sure)
         /\ R[d] = State("subfield", d, l, tag, contents, f) \/ (~sure /\ IsRefused(R[d]))
    <3>1. SubSeq(contents, 1, n) = contents
      BY <1>14 DEF n
    <3>2. Done(n)
      <4> HIDE DEF Done
      <4> QED
        BY <2>10
    <3> QED
      BY <2>5, <3>1, <3>2 DEF SubfieldsRead
  <2>12. R[d + 1] = TakeNext(R[d], nodes[d + 1])
    BY <1>0, <2>2, RunsOne
  <2>13. CASE R[d] = State("subfield", d, l, tag, contents, f)
    <3>1. R[b] = State("field", b, l, tag, contents,
                       Append(f, [isControlField |-> FALSE, tag |-> tag, contents |-> contents]))
      BY <2>2, <2>3, <2>12, <2>13, EndElementIs, TakesDataEnd
    <3>2. R[b] = State("field", b, l, tag, contents, Append(f, field))
      BY <1>1, <3>1
    <3>3. Goes(R[b], sure)
      BY <3>2, StateGoes DEF Stopped
    <3> QED
      BY <1>0, <2>2, <2>11, <3>2, <3>3, UnderwayStep DEF FieldRead, sure
  <2>14. CASE ~sure /\ IsRefused(R[d])
    <3>1. Runs(R, nodes, d, b)
      BY <1>0, <2>2, RunsWithin
    <3>5. d \in Nat /\ b \in Nat /\ d <= b
      BY <1>0, <2>2
    <3>2. Underway(R, d, b, FALSE) /\ IsRefused(R[b])
      BY <2>14, <3>1, <3>5, RefusedStays
    <3>3. Underway(R, d, b, sure)
      BY <2>14, <3>2, UnderwayWeaker
    <3>4. Underway(R, a, b, sure)
      BY <1>0, <2>2, <2>11, <3>3, UnderwayOn
    <3> QED
      BY <2>14, <3>2, <3>4 DEF FieldRead, sure
  <2> QED
    BY <2>11, <2>13, <2>14
<1> QED
  BY <1>11, <1>12

(* A field of either kind.                                                 *)
LEMMA FieldIsRead ==
  ASSUME NEW R, NEW nodes, NEW a, NEW b, NEW field, NEW l, NEW t, NEW c, NEW f,
         ReadsField(R, nodes, a, b, field, l, t, c, f)
  PROVE  FieldRead(R, a, b, field, l, f)
BY ControlFieldIsRead, DataFieldIsRead

(* A field begins with its element.                                        *)
LEMMA FieldBegins ==
  ASSUME NEW field \in Field, NEW nodes, NEW a \in Nat, Stand(nodes, a, FieldNodes(field))
  PROVE  /\ Len(FieldNodes(field)) \in Nat /\ Len(FieldNodes(field)) >= 1
         /\ nodes[a + 1] \in {Element("controlfield", field.tag), Element("datafield", field.tag)}
<1>1. /\ field.tag \in Values /\ field.contents \in Seq(STRING)
      /\ field.isControlField \in BOOLEAN /\ (field.isControlField => Len(field.contents) = 1)
  BY FieldParts
<1>2. "controlfield" \in InnerNames /\ "datafield" \in InnerNames
  BY DEF InnerNames
<1>3. /\ Element("controlfield", field.tag) \in Inner /\ EndElement("controlfield") \in Inner
      /\ Element("datafield", field.tag) \in Inner /\ EndElement("datafield") \in Inner
  BY <1>1, <1>2, PartsAreInner
<1>4. CASE field.isControlField
  <2>1. field.contents[1] \in STRING
    BY <1>1, <1>4, ElementOfSeq
  <2> DEFINE inner == TextNodes(field.contents[1])
  <2>2. inner \in Seq(Inner) /\ Len(inner) \in Nat
    BY <2>1, TextIsInner, LenProperties
  <2>3. FieldNodes(field) = Enclosed("controlfield", field.tag, inner)
    BY <1>4 DEF FieldNodes
  <2> HIDE DEF inner
  <2> QED
    BY <1>3, <2>2, <2>3, EnclosedIs, EnclosedStands
<1>5. CASE ~field.isControlField /\ field.contents = << >>
  <2>1. FieldNodes(field) = <<Element("datafield", field.tag)>>
    BY <1>5 DEF FieldNodes
  <2>2. Len(<<Element("datafield", field.tag)>>) = 1
        /\ <<Element("datafield", field.tag)>>[1] = Element("datafield", field.tag)
    OBVIOUS
  <2> QED
    BY <2>1, <2>2 DEF Stand
<1>6. CASE ~field.isControlField /\ field.contents # << >>
  <2> DEFINE inner == SubfieldNodes(field.contents)
  <2>1. inner \in Seq(Inner) /\ Len(inner) \in Nat
    BY <1>1, SubfieldsAreInner, LenProperties
  <2>2. FieldNodes(field) = Enclosed("datafield", field.tag, inner)
    BY <1>6 DEF FieldNodes
  <2> HIDE DEF inner
  <2> QED
    BY <1>3, <2>1, <2>2, EnclosedIs, EnclosedStands
<1> QED
  BY <1>4, <1>5, <1>6

FieldPieces(fields) == [i \in DOMAIN fields |-> FieldNodes(fields[i])]

(* All the fields of a record.                                             *)
LEMMA FieldsAreInner ==
  ASSUME NEW fields \in Seq(Field)
  PROVE  /\ FieldPieces(fields) \in Seq(Seq(Inner))
         /\ Len(FieldPieces(fields)) = Len(fields)
         /\ \A i \in 1..Len(fields) :
              fields[i] \in Field /\ FieldPieces(fields)[i] = FieldNodes(fields[i])
         /\ FlattenSeq(FieldPieces(fields)) \in Seq(Inner)
<1>1. DOMAIN fields = 1..Len(fields) /\ Len(fields) \in Nat
  BY LenProperties
<1>2. \A i \in 1..Len(fields) : fields[i] \in Field /\ FieldNodes(fields[i]) \in Seq(Inner)
  BY ElementOfSeq, FieldIsInner
<1> DEFINE s == FieldPieces(fields)
           n == Len(fields)
<1>3. /\ DOMAIN s = 1..n /\ s = [i \in 1..n |-> s[i]]
      /\ \A i \in 1..n : s[i] = FieldNodes(fields[i])
  BY <1>1 DEF FieldPieces
<1>4. \A i \in 1..n : s[i] \in Seq(Inner)
  BY <1>2, <1>3
<1>5. n \in Nat
  BY <1>1
<1> HIDE DEF s, n
<1>6. s \in Seq(Seq(Inner)) /\ Len(s) = n
  BY <1>3, <1>4, <1>5, Numbered
<1>7. FlattenSeq(s) \in Seq(Inner)
  BY <1>6, FlattenIs
<1> QED
  BY <1>2, <1>3, <1>6, <1>7 DEF s, n

-----------------------------------------------------------------------------
(* A record.                                                               *)

(* An element without an attribute.                                        *)
Plain(name) == Element(name, "")
Wrapped(name, nodes) == Enclosed(name, "", nodes)

(* Elements without attributes.                                            *)
LEMMA PlainIs ==
  ASSUME NEW name
  PROVE  Is(Plain(name), "ELEMENT", name)
BY DEF Plain, Element, Is

LEMMA WrappedIs ==
  ASSUME NEW name \in InnerNames, NEW inner \in Seq(Inner)
  PROVE  /\ Wrapped(name, inner) \in Seq(Inner)
         /\ Len(Wrapped(name, inner)) = Len(inner) + 2
<1> DEFINE tag == ""
<1>1. tag \in Values
  BY DEF Values
<1>2. Wrapped(name, inner) = Enclosed(name, tag, inner)
  BY DEF Wrapped
<1> HIDE DEF tag
<1>3. Element(name, tag) \in Inner /\ EndElement(name) \in Inner
  BY <1>1, PartsAreInner
<1> QED
  BY <1>2, <1>3, EnclosedIs

LEMMA WrappedStands ==
  ASSUME NEW name \in InnerNames, NEW inner \in Seq(Inner),
         NEW nodes, NEW a \in Nat, Stand(nodes, a, Wrapped(name, inner))
  PROVE  /\ nodes[a + 1] = Plain(name)
         /\ Stand(nodes, a + 1, inner)
         /\ nodes[a + 1 + Len(inner) + 1] = EndElement(name)
<1> DEFINE tag == ""
<1>1. tag \in Values
  BY DEF Values
<1>2. Wrapped(name, inner) = Enclosed(name, tag, inner) /\ Plain(name) = Element(name, tag)
  BY DEF Wrapped, Plain
<1> HIDE DEF tag
<1>3. Element(name, tag) \in Inner /\ EndElement(name) \in Inner
  BY <1>1, PartsAreInner
<1> QED
  BY <1>2, <1>3, EnclosedStands

Record == [leader : STRING \ {"", " "}, fields : Seq(Field)]

BodyNodes(record) == FlattenSeq(FieldPieces(record.fields))

(* The parts of a record, and of its nodes.                                *)
LEMMA RecordParts ==
  ASSUME NEW record \in Record
  PROVE  /\ record.leader \in STRING /\ ~IsBlank(record.leader)
         /\ record.fields \in Seq(Field)
         /\ BodyNodes(record) \in Seq(Inner) /\ Len(BodyNodes(record)) \in Nat
<1>1. record.leader \in STRING /\ ~IsBlank(record.leader)
  BY DEF Record, IsBlank
<1>2. record.fields \in Seq(Field)
  BY DEF Record
<1>3. BodyNodes(record) \in Seq(Inner)
  BY <1>2, FieldsAreInner DEF BodyNodes
<1> QED
  BY <1>1, <1>2, <1>3, LenProperties

HeadNodes(record) == Wrapped("leader", <<Text(record.leader)>>)

LEMMA RecordNodesAre ==
  ASSUME NEW record \in Record
  PROVE  RecordNodes(record) = Wrapped("record", HeadNodes(record) \o BodyNodes(record))
<1>1. TextNodes(record.leader) = <<Text(record.leader)>>
  BY RecordParts, TextNodesAre
<1> QED
  BY <1>1 DEF RecordNodes, HeadNodes, BodyNodes, FieldPieces, Wrapped

LEMMA RecordPieces ==
  ASSUME NEW record \in Record
  PROVE  /\ <<Text(record.leader)>> \in Seq(Inner) /\ Len(<<Text(record.leader)>>) = 1
         /\ HeadNodes(record) \in Seq(Inner) /\ Len(HeadNodes(record)) = 3
         /\ HeadNodes(record) \o BodyNodes(record) \in Seq(Inner)
         /\ Len(HeadNodes(record) \o BodyNodes(record)) = Len(BodyNodes(record)) + 3
<1>1. "leader" \in InnerNames
  BY DEF InnerNames
<1> DEFINE text == <<Text(record.leader)>>
<1>3. text \in Seq(Inner)
  BY RecordParts, TextNodesAre, TextIsInner
<1>4. Len(text) = 1
  OBVIOUS
<1>5. HeadNodes(record) = Wrapped("leader", text)
  BY DEF HeadNodes
<1> HIDE DEF text
<1>6. HeadNodes(record) \in Seq(Inner) /\ Len(HeadNodes(record)) = 3
  <2>1. Wrapped("leader", text) \in Seq(Inner) /\ Len(Wrapped("leader", text)) = Len(text) + 2
    BY <1>1, <1>3, WrappedIs
  <2> QED
    BY <1>4, <1>5, <2>1
<1>7. /\ HeadNodes(record) \o BodyNodes(record) \in Seq(Inner)
      /\ Len(HeadNodes(record) \o BodyNodes(record)) = 3 + Len(BodyNodes(record))
  <2>1. BodyNodes(record) \in Seq(Inner)
    BY RecordParts
  <2> QED
    <3>1. HeadNodes(record) \in Seq(Inner)
      BY <1>6
    <3> QED
      <4> DEFINE x == HeadNodes(record)
                 y == BodyNodes(record)
      <4> HIDE DEF x, y
      <4>1. x \in Seq(Inner) /\ y \in Seq(Inner)
        BY <2>1, <3>1 DEF x, y
      <4>2. x \o y \in Seq(Inner) /\ Len(x \o y) = Len(x) + Len(y)
        BY <4>1, Beside
      <4> QED
        BY <1>6, <4>2 DEF x, y
<1> QED
  BY <1>3, <1>4, <1>6, <1>7, RecordParts DEF text

LEMMA RecordIsInner ==
  ASSUME NEW record \in Record
  PROVE  /\ RecordNodes(record) \in Seq(Inner)
         /\ Len(RecordNodes(record)) = Len(BodyNodes(record)) + 5
<1> DEFINE inner == HeadNodes(record) \o BodyNodes(record)
<1>1. inner \in Seq(Inner) /\ Len(inner) = Len(BodyNodes(record)) + 3
  BY RecordPieces
<1>2. RecordNodes(record) = Wrapped("record", inner)
  BY RecordNodesAre
<1>3. "record" \in InnerNames
  BY DEF InnerNames
<1> HIDE DEF inner
<1>4. RecordNodes(record) \in Seq(Inner) /\ Len(RecordNodes(record)) = Len(inner) + 2
  BY <1>1, <1>2, <1>3, WrappedIs
<1> QED
  BY <1>1, <1>4, RecordParts

(* Where the nodes of a record stand.                                      *)
LEMMA RecordStands ==
  ASSUME NEW record \in Record, NEW nodes, NEW a \in Nat, Stand(nodes, a, RecordNodes(record))
  PROVE  /\ nodes[a + 1] = Plain("record")
         /\ nodes[a + 2] = Plain("leader")
         /\ nodes[a + 3] = Text(record.leader)
         /\ nodes[a + 4] = EndElement("leader")
         /\ Stand(nodes, a + 4, BodyNodes(record))
         /\ nodes[a + 4 + Len(BodyNodes(record)) + 1] = EndElement("record")
<1> DEFINE head == HeadNodes(record)
           body == BodyNodes(record)
           text == <<Text(record.leader)>>
<1>1. /\ text \in Seq(Inner) /\ Len(text) = 1
      /\ head \in Seq(Inner) /\ Len(head) = 3
      /\ body \in Seq(Inner) /\ Len(body) \in Nat
      /\ head \o body \in Seq(Inner) /\ Len(head \o body) = Len(body) + 3
  BY RecordPieces, RecordParts
<1>2. "leader" \in InnerNames /\ "record" \in InnerNames
  BY DEF InnerNames
<1>3. text[1] = Text(record.leader)
  OBVIOUS
<1>4. head = Wrapped("leader", text)
  BY DEF HeadNodes
<1>5. Stand(nodes, a, Wrapped("record", head \o body))
  BY RecordNodesAre
<1> HIDE DEF head, body, text
<1>6. /\ nodes[a + 1] = Plain("record")
      /\ Stand(nodes, a + 1, head \o body)
      /\ nodes[a + 1 + Len(head \o body) + 1] = EndElement("record")
  <2>1. head \o body \in Seq(Inner)
    BY <1>1
  <2> DEFINE inner == head \o body
  <2> HIDE DEF inner
  <2>2. "record" \in InnerNames /\ inner \in Seq(Inner) /\ Stand(nodes, a, Wrapped("record", inner))
    BY <1>2, <1>5, <2>1 DEF inner
  <2>3. /\ nodes[a + 1] = Plain("record")
        /\ Stand(nodes, a + 1, inner)
        /\ nodes[a + 1 + Len(inner) + 1] = EndElement("record")
    BY <2>2, WrappedStands
  <2> QED
    BY <2>3 DEF inner
<1> DEFINE p == a + 1
<1>7. p \in Nat /\ p + 1 = a + 2 /\ p + 1 + 1 = a + 3 /\ p + 1 + 1 + 1 = a + 4 /\ p + 3 = a + 4
  OBVIOUS
<1>8. Stand(nodes, p, head) /\ Stand(nodes, p + 3, body)
  <2>1. Stand(nodes, p, head \o body)
    BY <1>6
  <2> HIDE DEF p
  <2>2. Stand(nodes, p, head) /\ Stand(nodes, p + Len(head), body)
    BY <1>1, <1>7, <2>1, StandApart
  <2> QED
    BY <1>1, <2>2
<1> HIDE DEF p
<1>9. /\ nodes[p + 1] = Plain("leader")
      /\ Stand(nodes, p + 1, text)
      /\ nodes[p + 1 + 1 + 1] = EndElement("leader")
  <2>1. Stand(nodes, p, Wrapped("leader", text))
    BY <1>4, <1>8
  <2>2. /\ nodes[p + 1] = Plain("leader")
        /\ Stand(nodes, p + 1, text)
        /\ nodes[p + 1 + Len(text) + 1] = EndElement("leader")
    <3>1. "leader" \in InnerNames /\ text \in Seq(Inner) /\ p \in Nat
      BY <1>1, <1>2, <1>7
    <3> QED
      BY <2>1, <3>1, WrappedStands
  <2> QED
    BY <1>1, <2>2
<1>10. nodes[p + 1 + 1] = Text(record.leader)
  BY <1>1, <1>3, <1>9 DEF Stand
<1>11. a + 1 + Len(head \o body) + 1 = a + 4 + Len(body) + 1
  BY <1>1
<1> QED
  BY <1>6, <1>7, <1>8, <1>9, <1>10, <1>11 DEF body

IsRecordReadable(record) == \A i \in DOMAIN record.fields : IsFieldReadable(record.fields[i])

ReadsRecord(R, nodes, a, b, record, l, t, c) ==
  /\ a \in Nat /\ b \in Nat /\ record \in Record
  /\ b = a + Len(RecordNodes(record))
  /\ Stand(nodes, a, RecordNodes(record))
  /\ Runs(R, nodes, a, b)
  /\ R[a] = State("record", a, l, t, c, << >>)

(* Before the last node of a record nothing is returned.  With it, the     *)
(* record is read, or it was not readable.                                 *)
RecordRead(R, a, b, record) ==
  /\ Underway(R, a, b - 1, IsRecordReadable(record))
  /\ \/ \E t, c : R[b] = State("read", b, record.leader, t, c, record.fields)
     \/ ~IsRecordReadable(record) /\ IsRefused(R[b])

HeadRead(R, a, record) ==
  /\ Underway(R, a, a + 4, TRUE)
  /\ \E t, c : R[a + 4] = State("field", a + 4, record.leader, t, c, << >>)

(* The leader is read: it is not blank.                                    *)
LEMMA HeadIsRead ==
  ASSUME NEW R, NEW nodes, NEW a, NEW b, NEW record, NEW l, NEW t, NEW c,
         ReadsRecord(R, nodes, a, b, record, l, t, c)
  PROVE  HeadRead(R, a, record)
<1>0. /\ a \in Nat /\ b \in Nat /\ record \in Record
      /\ b = a + Len(RecordNodes(record))
      /\ Stand(nodes, a, RecordNodes(record))
      /\ Runs(R, nodes, a, b)
      /\ R[a] = State("record", a, l, t, c, << >>)
  BY DEF ReadsRecord
<1>1. Len(RecordNodes(record)) \in Nat /\ Len(RecordNodes(record)) >= 5
  BY <1>0, RecordIsInner, RecordParts
<1>2. /\ nodes[a + 1] = Plain("record") /\ nodes[a + 2] = Plain("leader")
      /\ nodes[a + 3] = Text(record.leader) /\ nodes[a + 4] = EndElement("leader")
  BY <1>0, RecordStands
<1> DEFINE p == a + 1
           q == a + 2
           r == a + 3
           s == a + 4
<1>3. /\ p \in Nat /\ q \in Nat /\ r \in Nat /\ s \in Nat
      /\ p = a + 1 /\ q = p + 1 /\ r = q + 1 /\ s = r + 1
      /\ a < b /\ p < b /\ q < b /\ r < b /\ a <= p /\ a <= q /\ a <= r
  BY <1>0, <1>1
<1>4. /\ nodes[p] = Plain("record") /\ nodes[q] = Plain("leader")
      /\ nodes[r] = Text(record.leader) /\ nodes[s] = EndElement("leader")
  BY <1>2
<1> HIDE DEF p, q, r, s
<1>5. /\ R[p] = TakeNext(R[a], nodes[p])
      /\ R[q] = TakeNext(R[p], nodes[q])
      /\ R[r] = TakeNext(R[q], nodes[r])
      /\ R[s] = TakeNext(R[r], nodes[s])
  <2>1. ASSUME NEW k \in Nat, a <= k, k < b PROVE R[k + 1] = TakeNext(R[k], nodes[k + 1])
    BY <1>0, <2>1, RunsOne
  <2> QED
    BY <1>0, <1>3, <2>1
<1>6. R[p] = State("leader", p, l, t, c, << >>)
  BY <1>0, <1>3, <1>4, <1>5, PlainIs, TakesRecordStart
<1>7. R[q] = State("leaderText", q, l, t, c, << >>)
  BY <1>3, <1>4, <1>5, <1>6, PlainIs, TakesLeaderStart
<1>8. R[r] = State("leaderEnd", r, record.leader, t, c, << >>)
  BY <1>3, <1>4, <1>5, <1>7, TextParts, TakesLeaderText
<1>9. R[s] = State("field", s, record.leader, t, c, << >>)
  BY <1>3, <1>4, <1>5, <1>8, EndElementIs, TakesLeaderEnd
<1>10. Underway(R, a, s, TRUE)
  <2>1. /\ "record" \notin Stopped /\ "leader" \notin Stopped /\ "leaderText" \notin Stopped
        /\ "leaderEnd" \notin Stopped /\ "field" \notin Stopped
    BY DEF Stopped
  <2>2. /\ Goes(R[a], TRUE) /\ Goes(R[p], TRUE) /\ Goes(R[q], TRUE)
        /\ Goes(R[r], TRUE) /\ Goes(R[s], TRUE)
    BY <1>0, <1>6, <1>7, <1>8, <1>9, <2>1, StateGoes
  <2>3. Underway(R, a, p, TRUE)
    BY <1>0, <1>3, <2>2, UnderwayFrom, UnderwayStep
  <2>4. Underway(R, a, q, TRUE)
    BY <1>0, <1>3, <2>2, <2>3, UnderwayStep
  <2>5. Underway(R, a, r, TRUE)
    BY <1>0, <1>3, <2>2, <2>4, UnderwayStep
  <2> QED
    BY <1>0, <1>3, <2>2, <2>5, UnderwayStep
<1> QED
  BY <1>9, <1>10 DEF HeadRead, s

(* Some fields were read, or one of them was not readable.                 *)
FieldsRead(R, a, q, l, fields, sure) ==
  /\ Underway(R, a, q, sure)
  /\ \/ \E t, c : R[q] = State("field", q, l, t, c, fields)
     \/ ~sure /\ IsRefused(R[q])
     \/ ~sure /\ \E t, c, f : R[q] = State("subfield", q, l, t, c, f)

ReadsNextField(R, nodes, a, u, v, field, l, before, sure) ==
  /\ a \in Nat /\ u \in Nat /\ v \in Nat /\ a <= u /\ field \in Field
  /\ v = u + Len(FieldNodes(field))
  /\ Stand(nodes, u, FieldNodes(field))
  /\ Runs(R, nodes, u, v)
  /\ FieldsRead(R, a, u, l, before, sure)
  /\ sure => IsFieldReadable(field)

(* A node that no data field has, behind one that has not ended.           *)
LEMMA NotEnded ==
  ASSUME NEW node, NEW k, NEW l, NEW t, NEW c, NEW f, NEW tag,
         node \in {Element("controlfield", tag), Element("datafield", tag), EndElement("record")}
  PROVE  IsRefused(TakeNext(State("subfield", k, l, t, c, f), node))
<1>1. /\ node.type \in {"ELEMENT", "END_ELEMENT"}
      /\ node.name \in {"controlfield", "datafield", "record"}
      /\ ~Is(node, "END_ELEMENT", "datafield")
  <2>1. CASE node = Element("controlfield", tag)
    <3>1. node.type = "ELEMENT" /\ node.name = "controlfield"
      BY <2>1 DEF Element
    <3> QED
      BY <3>1 DEF Is
  <2>2. CASE node = Element("datafield", tag)
    <3>1. node.type = "ELEMENT" /\ node.name = "datafield"
      BY <2>2 DEF Element
    <3> QED
      BY <3>1 DEF Is
  <2>3. CASE node = EndElement("record")
    <3>1. node.type = "END_ELEMENT" /\ node.name = "record"
      BY <2>3 DEF EndElement
    <3> QED
      BY <3>1 DEF Is
  <2> QED
    BY <2>1, <2>2, <2>3
<1> QED
  BY <1>1, RefusesNoSubfield, StateRefused

(* With one more field the record is as far, or it was refused.            *)
LEMMA NextFieldIsRead ==
  ASSUME NEW R, NEW nodes, NEW a, NEW u, NEW v, NEW field, NEW l, NEW before, NEW sure,
         ReadsNextField(R, nodes, a, u, v, field, l, before, sure)
  PROVE  FieldsRead(R, a, v, l, Append(before, field), sure)
<1>0. /\ a \in Nat /\ u \in Nat /\ v \in Nat /\ a <= u /\ field \in Field
      /\ v = u + Len(FieldNodes(field))
      /\ Stand(nodes, u, FieldNodes(field))
      /\ Runs(R, nodes, u, v)
      /\ FieldsRead(R, a, u, l, before, sure)
      /\ sure => IsFieldReadable(field)
  BY DEF ReadsNextField
<1>1. Underway(R, a, u, sure)
  BY <1>0 DEF FieldsRead
<1>2. /\ u < v /\ u + 1 \in Nat /\ u + 1 <= v
      /\ nodes[u + 1] \in {Element("controlfield", field.tag), Element("datafield", field.tag)}
  BY <1>0, FieldBegins
<1>3. u \in Nat /\ v \in Nat /\ u <= v /\ Runs(R, nodes, u, v)
  BY <1>0, <1>2
<1>4. Underway(R, u, v, sure) => Underway(R, a, v, sure)
  BY <1>0, <1>1, UnderwayOn
<1>5. CASE \E t, c : R[u] = State("field", u, l, t, c, before)
  <2>1. PICK t, c : R[u] = State("field", u, l, t, c, before)
    BY <1>5
  <2>2. ReadsField(R, nodes, u, v, field, l, t, c, before)
    BY <1>0, <2>1 DEF ReadsField
  <2>3. FieldRead(R, u, v, field, l, before)
    BY <2>2, FieldIsRead
  <2>4. Underway(R, u, v, sure)
    <3>1. Underway(R, u, v, IsFieldReadable(field))
      BY <2>3 DEF FieldRead
    <3> QED
      BY <1>0, <3>1, UnderwayWeaker
  <2> QED
    BY <1>0, <1>4, <2>3, <2>4 DEF FieldRead, FieldsRead
<1>6. CASE ~sure /\ IsRefused(R[u])
  <2>1. Underway(R, u, v, FALSE) /\ IsRefused(R[v])
    BY <1>3, <1>6, RefusedStays
  <2>2. Underway(R, u, v, sure)
    BY <1>6, <2>1, UnderwayWeaker
  <2> QED
    BY <1>4, <1>6, <2>1, <2>2 DEF FieldsRead
<1>7. CASE ~sure /\ \E t, c, f : R[u] = State("subfield", u, l, t, c, f)
  <2>1. PICK t, c, f : R[u] = State("subfield", u, l, t, c, f)
    BY <1>7
  <2>2. R[u + 1] = TakeNext(R[u], nodes[u + 1])
    BY <1>0, <1>2, RunsOne
  <2>3. IsRefused(R[u + 1])
    BY <1>2, <2>1, <2>2, NotEnded
  <2>4. Runs(R, nodes, u + 1, v)
    BY <1>0, <1>2, RunsWithin
  <2>5. Underway(R, u + 1, v, FALSE) /\ IsRefused(R[v])
    BY <1>0, <1>2, <2>3, <2>4, RefusedStays
  <2>6. Underway(R, u, u + 1, FALSE)
    <3>1. Goes(R[u], FALSE)
      <4>1. "subfield" \notin Stopped
        BY DEF Stopped
      <4> QED
        BY <2>1, <4>1, StateGoes
    <3>2. Goes(R[u + 1], FALSE)
      BY <2>3, RefusedGoes
    <3>3. Underway(R, u, u, FALSE)
      BY <1>0, <3>1, UnderwayFrom
    <3> QED
      BY <1>0, <3>2, <3>3, UnderwayStep
  <2>7. Underway(R, u, v, FALSE)
    BY <1>0, <1>2, <2>5, <2>6, UnderwayOn
  <2>8. Underway(R, u, v, sure)
    BY <1>7, <2>7, UnderwayWeaker
  <2> QED
    BY <1>4, <1>7, <2>5, <2>8 DEF FieldsRead
<1> QED
  BY <1>0, <1>5, <1>6, <1>7 DEF FieldsRead

(* A record of which all the nodes are there.                              *)
LEMMA RecordIsRead ==
  ASSUME NEW R, NEW nodes, NEW a, NEW b, NEW record, NEW l, NEW t, NEW c,
         ReadsRecord(R, nodes, a, b, record, l, t, c)
  PROVE  RecordRead(R, a, b, record)
<1> DEFINE fields == record.fields
           leader == record.leader
           sure == IsRecordReadable(record)
           pieces == FieldPieces(fields)
           body == BodyNodes(record)
           n == Len(fields)
           p == a + 4
           d == p + Len(body)
<1>0. /\ a \in Nat /\ b \in Nat /\ record \in Record
      /\ b = a + Len(RecordNodes(record))
      /\ Stand(nodes, a, RecordNodes(record))
      /\ Runs(R, nodes, a, b)
      /\ R[a] = State("record", a, l, t, c, << >>)
  BY DEF ReadsRecord
<1>1. fields \in Seq(Field) /\ Len(body) \in Nat /\ n \in Nat
  <2>1. record.fields \in Seq(Field) /\ Len(BodyNodes(record)) \in Nat
    BY <1>0, RecordParts
  <2> QED
    BY <2>1, LenProperties
<1>2. /\ pieces \in Seq(Seq(Inner)) /\ Len(pieces) = n /\ body = FlattenSeq(pieces)
      /\ \A i \in 1..n : fields[i] \in Field /\ pieces[i] = FieldNodes(fields[i])
                         /\ Len(FieldNodes(fields[i])) \in Nat
  <2>1. record.fields \in Seq(Field)
    BY <1>1
  <2>2. /\ FieldPieces(record.fields) \in Seq(Seq(Inner))
        /\ Len(FieldPieces(record.fields)) = Len(record.fields)
        /\ \A i \in 1..Len(record.fields) :
             /\ record.fields[i] \in Field
             /\ FieldPieces(record.fields)[i] = FieldNodes(record.fields[i])
    BY <2>1, FieldsAreInner
  <2>3. \A i \in 1..n : Len(FieldNodes(fields[i])) \in Nat
    BY <2>2, FieldIsInner, LenProperties
  <2> QED
    BY <2>2, <2>3 DEF BodyNodes
<1>3. HeadRead(R, a, record)
  BY HeadIsRead
<1>4. Stand(nodes, p, body) /\ nodes[d + 1] = EndElement("record")
  BY <1>0, RecordStands
<1>5. p \in Nat /\ d \in Nat /\ d + 1 = b /\ a <= p /\ p <= d /\ a <= d /\ d <= b /\ d < b
  BY <1>0, <1>1, RecordIsInner
<1>6. PICK places : ArePlaces(places, pieces, body)
  BY <1>2, FlattenIs
<1>7. /\ SubSeq(fields, 1, 0) = << >>
      /\ SubSeq(fields, 1, Len(fields)) = fields
      /\ \A i \in 1..Len(fields) :
           Append(SubSeq(fields, 1, i - 1), fields[i]) = SubSeq(fields, 1, i)
  <2>1. fields \in Seq(Field)
    BY <1>1
  <2> HIDE DEF fields
  <2> QED
    BY <2>1, PrefixesGrow
<1>8. \A i \in 1..n : sure => IsFieldReadable(fields[i])
  <2>1. DOMAIN fields = 1..n
    BY <1>1
  <2> QED
    BY <2>1 DEF IsRecordReadable
<1>9. Underway(R, a, p, TRUE) /\ \E t2, c2 : R[p] = State("field", p, leader, t2, c2, << >>)
  BY <1>3 DEF HeadRead
<1>10. d = p + Len(body)
  OBVIOUS
<1> HIDE DEF fields, leader, sure, pieces, body, p, d
<1>11. /\ \A i \in 0..n : places[i] \in Nat
       /\ \A i \in 1..n : places[i] = places[i - 1] + Len(pieces[i])
       /\ places[0] = 0 /\ places[n] = Len(body)
  BY <1>2, <1>6 DEF ArePlaces
<1>12. ASSUME NEW i \in 1..n
       PROVE  /\ Stand(nodes, p + places[i - 1], FieldNodes(fields[i]))
              /\ p + places[i - 1] \in Nat /\ p + places[i] \in Nat
              /\ p + places[i] = (p + places[i - 1]) + Len(FieldNodes(fields[i]))
              /\ a <= p + places[i - 1] /\ p + places[i] <= d
  <2>1. Len(pieces) \in Nat /\ i \in 1..Len(pieces)
        /\ \A k \in 1..Len(pieces) : Len(pieces[k]) \in Nat
    BY <1>1, <1>2
  <2>2. Stand(nodes, p + places[i - 1], pieces[i]) /\ places[i] <= Len(body)
    BY <1>1, <1>4, <1>5, <1>6, <2>1, FlattenStands
  <2> DEFINE x == places[i - 1]
             y == places[i]
             z == Len(FieldNodes(fields[i]))
  <2>3. x \in Nat /\ y \in Nat /\ z \in Nat /\ y = x + z /\ y <= Len(body)
    BY <1>2, <1>11, <2>2
  <2> HIDE DEF x, y, z
  <2>4. /\ p + x \in Nat /\ p + y \in Nat /\ p + y = (p + x) + z
        /\ a <= p + x /\ p + y <= d
    BY <1>0, <1>1, <1>5, <1>10, <2>3
  <2> QED
    BY <1>2, <2>2, <2>4 DEF x, y, z
<1> DEFINE Done(i) == FieldsRead(R, a, p + places[i], leader, SubSeq(fields, 1, i), sure)
           T == {i \in 0..n : Done(i)}
<1>13. Done(0)
  <2>1. p + places[0] = p
    BY <1>5, <1>11
  <2>2. Underway(R, a, p, sure)
    BY <1>9, UnderwayUnsure
  <2> QED
    BY <1>7, <1>9, <2>1, <2>2 DEF FieldsRead
<1>14. ASSUME NEW i \in 1..n, Done(i - 1) PROVE Done(i)
  <2> DEFINE u == p + places[i - 1]
             v == p + places[i]
             field == fields[i]
             before == SubSeq(fields, 1, i - 1)
  <2>1. Append(before, field) = SubSeq(fields, 1, i)
    BY <1>7
  <2>2. FieldsRead(R, a, u, leader, before, sure)
    BY <1>14
  <2>3. /\ Stand(nodes, u, FieldNodes(field)) /\ u \in Nat /\ v \in Nat
        /\ v = u + Len(FieldNodes(field)) /\ a <= u /\ v <= d
    BY <1>12
  <2>4. field \in Field /\ (sure => IsFieldReadable(field)) /\ Len(FieldNodes(field)) \in Nat
    BY <1>2, <1>8
  <2>5. SUFFICES FieldsRead(R, a, v, leader, Append(before, field), sure)
    BY <2>1
  <2> HIDE DEF u, v, field, before
  <2>6. Runs(R, nodes, u, v)
    <3>1. a <= u /\ v <= b
      BY <1>0, <1>5, <2>3
    <3> QED
      BY <1>0, <2>3, <3>1, RunsWithin
  <2>7. ReadsNextField(R, nodes, a, u, v, field, leader, before, sure)
    BY <1>0, <2>2, <2>3, <2>4, <2>6 DEF ReadsNextField
  <2> QED
    BY <2>7, NextFieldIsRead
<1>15. Done(n)
  <2> HIDE DEF Done
  <2>1. 0 \in T
    BY <1>1, <1>13
  <2>2. \A i \in 1..n : i - 1 \in T => i \in T
    BY <1>14
  <2>3. \A i \in 0..n : i \in T
    <3> HIDE DEF T
    <3> QED
      BY <1>1, <2>1, <2>2, UpTo
  <2> QED
    BY <1>1, <2>3
<1>16. FieldsRead(R, a, d, leader, fields, sure)
  BY <1>7, <1>10, <1>11, <1>15
<1>17. Underway(R, a, b - 1, sure)
  <2>1. b - 1 = d
    BY <1>0, <1>5
  <2> QED
    BY <1>16, <2>1 DEF FieldsRead
<1>18. R[b] = TakeNext(R[d], EndElement("record"))
  BY <1>0, <1>4, <1>5, RunsOne
<1>19. CASE \E t2, c2 : R[d] = State("field", d, leader, t2, c2, fields)
  <2>1. PICK t2, c2 : R[d] = State("field", d, leader, t2, c2, fields)
    BY <1>19
  <2>2. R[b] = State("read", b, leader, t2, c2, fields)
    BY <1>5, <1>18, <2>1, EndElementIs, TakesRecordEnd
  <2> QED
    BY <1>17, <2>2 DEF RecordRead, sure, leader, fields
<1>20. CASE ~sure /\ IsRefused(R[d])
  <2>1. R[b] = R[d]
    BY <1>18, <1>20 DEF TakeNext, IsRefused, Stopped
  <2> QED
    BY <1>17, <1>20, <2>1 DEF RecordRead, sure
<1>21. CASE ~sure /\ \E t2, c2, f : R[d] = State("subfield", d, leader, t2, c2, f)
  <2>1. IsRefused(R[b])
    BY <1>18, <1>21, NotEnded
  <2> QED
    BY <1>17, <1>21, <2>1 DEF RecordRead, sure
<1> QED
  BY <1>16, <1>19, <1>20, <1>21 DEF FieldsRead

-----------------------------------------------------------------------------
(* The states that a parser goes through over some nodes.                  *)

(* There are such states, from any.                                        *)
LEMMA RunExists ==
  ASSUME NEW nodes, NEW a \in Nat, NEW n \in Nat, NEW parser
  PROVE  \E R : R[a] = parser /\ Runs(R, nodes, a, a + n)
<1> DEFINE IsRun(R, m) == R[a] = parser /\ Runs(R, nodes, a, a + m)
           T == {m \in 0..n : \E R : IsRun(R, m)}
<1>1. 0 \in T
  <2>1. IsRun([k \in {a} |-> parser], 0)
    BY DEF Runs
  <2> HIDE DEF IsRun
  <2> QED
    BY <2>1
<1>2. ASSUME NEW m \in 1..n, m - 1 \in T PROVE m \in T
  <2>1. PICK R : IsRun(R, m - 1)
    BY <1>2
  <2> DEFINE q == a + (m - 1)
             new == TakeNext(R[q], nodes[q + 1])
             R2 == [k \in a..(q + 1) |-> IF k = q + 1 THEN new ELSE R[k]]
  <2>2. q \in Nat /\ a <= q /\ a + m = q + 1
    OBVIOUS
  <2>3. R[a] = parser /\ \A k \in a..(q - 1) : R[k + 1] = TakeNext(R[k], nodes[k + 1])
    BY <2>1 DEF Runs
  <2> HIDE DEF q
  <2>4. R2[q + 1] = new /\ \A k \in a..q : R2[k] = R[k]
    BY <2>2
  <2> HIDE DEF R2
  <2>5. ASSUME NEW k \in a..q PROVE R2[k + 1] = TakeNext(R2[k], nodes[k + 1])
    <3>1. CASE k = q
      BY <2>2, <2>4, <3>1
    <3>2. CASE k # q
      <4>1. k \in a..(q - 1) /\ k + 1 \in a..q
        BY <2>2, <3>2
      <4> QED
        BY <2>3, <2>4, <4>1
    <3> QED
      BY <3>1, <3>2
  <2>6. a \in a..q /\ a + m - 1 = q
    BY <2>2
  <2>7. IsRun(R2, m)
    BY <2>3, <2>4, <2>5, <2>6 DEF Runs
  <2> HIDE DEF IsRun
  <2> QED
    BY <2>7
<1> HIDE DEF T
<1>3. \A m \in 0..n : m \in T
  BY <1>1, <1>2, UpTo
<1>4. n \in T
  BY <1>3
<1> QED
  BY <1>4 DEF T

(* Over the same nodes they are the same.                                  *)
LEMMA RunsAgree ==
  ASSUME NEW R, NEW R2, NEW nodes, NEW nodes2, NEW a \in Nat, NEW c \in Nat, a <= c,
         R[a] = R2[a], Runs(R, nodes, a, c), Runs(R2, nodes2, a, c),
         \A q \in (a + 1)..c : nodes[q] = nodes2[q]
  PROVE  \A k \in a..c : R[k] = R2[k]
<1> DEFINE T == {d \in 0..(c - a) : R[a + d] = R2[a + d]}
<1>1. 0 \in T
  OBVIOUS
<1>2. ASSUME NEW d \in 1..(c - a), d - 1 \in T PROVE d \in T
  <2> DEFINE k == a + (d - 1)
  <2>1. k \in a..(c - 1) /\ k + 1 = a + d /\ R[k] = R2[k] /\ k + 1 \in (a + 1)..c
    BY <1>2
  <2> HIDE DEF k
  <2>2. R[k + 1] = R2[k + 1]
    BY <2>1 DEF Runs
  <2> QED
    BY <2>1, <2>2
<1> HIDE DEF T
<1>3. c - a \in Nat
  OBVIOUS
<1>4. \A d \in 0..(c - a) : d \in T
  BY <1>1, <1>2, <1>3, UpTo
<1>5. ASSUME NEW k \in a..c PROVE R[k] = R2[k]
  <2> DEFINE d == k - a
  <2>1. d \in 0..(c - a) /\ a + d = k
    OBVIOUS
  <2> HIDE DEF d
  <2> QED
    BY <1>4, <2>1 DEF T
<1> QED
  BY <1>5

(* Over one document.                                                      *)
LEMMA RunsSame ==
  ASSUME NEW R, NEW R2, NEW nodes, NEW a \in Nat, NEW c \in Nat, a <= c,
         R[a] = R2[a], Runs(R, nodes, a, c), Runs(R2, nodes, a, c)
  PROVE  \A k \in a..c : R[k] = R2[k]
<1>1. \A q \in (a + 1)..c : nodes[q] = nodes[q]
  OBVIOUS
<1> QED
  BY <1>1, RunsAgree

(* A parser that has stopped takes no more.                                *)
LEMMA StoppedStays ==
  ASSUME NEW R, NEW nodes, NEW a \in Nat, NEW b \in Nat, a <= b, Runs(R, nodes, a, b),
         R[a].expects \in Stopped
  PROVE  R[b] = R[a]
<1> DEFINE T == {d \in 0..(b - a) : R[a + d] = R[a]}
<1>1. 0 \in T
  OBVIOUS
<1>2. ASSUME NEW d \in 1..(b - a), d - 1 \in T PROVE d \in T
  <2> DEFINE k == a + (d - 1)
  <2>1. k \in a..(b - 1) /\ k + 1 = a + d /\ R[k] = R[a]
    BY <1>2
  <2> HIDE DEF k
  <2>2. R[k + 1] = TakeNext(R[k], nodes[k + 1])
    BY <2>1 DEF Runs
  <2>3. R[k + 1] = R[a]
    BY <2>1, <2>2 DEF TakeNext
  <2> QED
    BY <2>1, <2>3
<1> HIDE DEF T
<1>3. b - a \in Nat
  OBVIOUS
<1>4. \A d \in 0..(b - a) : d \in T
  BY <1>1, <1>2, <1>3, UpTo
<1>5. b - a \in T /\ a + (b - a) = b
  BY <1>3, <1>4
<1> QED
  BY <1>5 DEF T

-----------------------------------------------------------------------------
(* What the reader's parser makes of nodes.                                *)

(* The reader's instance of the module is this one.                        *)
LEMMA ReaderTakes ==
  ASSUME NEW state, NEW node
  PROVE  Reader!TakeNext(state, node) = TakeNext(state, node)
BY DEF TakeNext, Take, TakeRecord, TakeLeader, TakeLeaderText, TakeField, TakeContent,
       TakeFieldEnd, TakeSubfield, ExpectEnd, AddField, Stop, Is, Stopped, Whitespace,
       Reader!TakeNext, Reader!Take, Reader!TakeRecord, Reader!TakeLeader,
       Reader!TakeLeaderText, Reader!TakeField, Reader!TakeContent, Reader!TakeFieldEnd,
       Reader!TakeSubfield, Reader!ExpectEnd, Reader!AddField, Reader!Stop, Reader!Is,
       Reader!Stopped, Reader!Whitespace

IsAfter(g, parser, nodes, a, b) ==
  g = [k \in a..b |-> IF k = a THEN parser ELSE Reader!TakeNext(g[k - 1], nodes[k])]

LEMMA AfterIsRun ==
  ASSUME NEW parser, NEW nodes, NEW a \in Nat, NEW b \in Nat, a <= b,
         NEW R, R[a] = parser, Runs(R, nodes, a, b),
         NEW after, after = CHOOSE g : IsAfter(g, parser, nodes, a, b)
  PROVE  after[b] = R[b]
<1>1. IsAfter([k \in a..b |-> R[k]], parser, nodes, a, b)
  <2> DEFINE g == [k \in a..b |-> R[k]]
  <2>1. ASSUME NEW k \in a..b
        PROVE  g[k] = IF k = a THEN parser ELSE Reader!TakeNext(g[k - 1], nodes[k])
    <3>1. CASE k = a
      BY <3>1
    <3>2. CASE k # a
      <4> DEFINE q == k - 1
      <4>1. q \in a..(b - 1) /\ q \in a..b /\ q + 1 = k
        BY <3>2
      <4> HIDE DEF q
      <4>2. R[q + 1] = TakeNext(R[q], nodes[q + 1])
        BY <4>1 DEF Runs
      <4>3. g[k] = Reader!TakeNext(g[q], nodes[k])
        BY <4>1, <4>2, ReaderTakes
      <4> QED
        BY <3>2, <4>3 DEF q
    <3> QED
      BY <3>1, <3>2
  <2> QED
    BY <2>1 DEF IsAfter
<1>2. IsAfter(after, parser, nodes, a, b)
  BY <1>1
<1>3. \A k \in a..b : after[k] = IF k = a THEN parser ELSE Reader!TakeNext(after[k - 1], nodes[k])
  BY <1>2 DEF IsAfter
<1>4. after[a] = R[a]
  BY <1>3
<1>5. Runs(after, nodes, a, b)
  <2>1. ASSUME NEW k \in a..(b - 1) PROVE after[k + 1] = TakeNext(after[k], nodes[k + 1])
    <3> DEFINE q == k + 1
    <3>1. q \in a..b /\ q # a /\ q - 1 = k
      OBVIOUS
    <3> HIDE DEF q
    <3>2. after[q] = Reader!TakeNext(after[k], nodes[q])
      BY <1>3, <3>1
    <3> QED
      BY <3>2, ReaderTakes DEF q
  <2> QED
    BY <2>1 DEF Runs
<1> QED
  BY <1>4, <1>5, RunsSame

(* The last of the states is what the reader's Parse returns.              *)
LEMMA ReaderParses ==
  ASSUME NEW parser, NEW nodes, Len(nodes) \in Nat, nodes # << >>,
         parser.at \in 0..Len(nodes),
         NEW R, R[parser.at] = parser, Runs(R, nodes, parser.at, Len(nodes))
  PROVE  Reader!Parse(parser, nodes) = R[Len(nodes)]
<1> DEFINE a == parser.at
           b == Len(nodes)
           after == CHOOSE g : IsAfter(g, parser, nodes, a, b)
<1>1. Reader!Parse(parser, nodes) = after[b]
  BY DEF Reader!Parse, IsAfter
<1>2. a \in Nat /\ b \in Nat /\ a <= b /\ R[a] = parser /\ Runs(R, nodes, a, b)
  OBVIOUS
<1>3. after = CHOOSE g : IsAfter(g, parser, nodes, a, b)
  OBVIOUS
<1> HIDE DEF a, b, after
<1>4. after[b] = R[b]
  BY <1>2, <1>3, AfterIsRun
<1> QED
  BY <1>1, <1>4 DEF b

-----------------------------------------------------------------------------
(* A parser at the start of a record of which all the nodes are there, or  *)
(* only the first ones.                                                    *)

StandsTo(nodes, m, a, piece) == \A j \in 1..Len(piece) : a + j <= m => nodes[a + j] = piece[j]

ReadsNext(R, nodes, a, m, record, l, t, c) ==
  /\ a \in Nat /\ m \in Nat /\ a <= m /\ record \in Record
  /\ StandsTo(nodes, m, a, RecordNodes(record))
  /\ Runs(R, nodes, a, m)
  /\ R[a] = State("record", a, l, t, c, << >>)

NextRead(R, a, m, record) ==
  /\ a + Len(RecordNodes(record)) > m => Goes(R[m], IsRecordReadable(record))
  /\ a + Len(RecordNodes(record)) <= m =>
       \/ \E t, c : R[m] = State("read", a + Len(RecordNodes(record)), record.leader, t, c,
                                 record.fields)
       \/ ~IsRecordReadable(record) /\ IsRefused(R[m])

(* A record is read at its last node and not before; or it was refused.    *)
LEMMA NextIsRead ==
  ASSUME NEW R, NEW nodes, NEW a, NEW m, NEW record, NEW l, NEW t, NEW c,
         ReadsNext(R, nodes, a, m, record, l, t, c)
  PROVE  NextRead(R, a, m, record)
<1> DEFINE piece == RecordNodes(record)
           n == Len(piece)
           b == a + n
           sure == IsRecordReadable(record)
           nodes2 == [q \in 1..(b + m) |-> IF q <= m THEN nodes[q] ELSE piece[q - a]]
<1>0. /\ a \in Nat /\ m \in Nat /\ a <= m /\ record \in Record
      /\ StandsTo(nodes, m, a, piece)
      /\ Runs(R, nodes, a, m)
      /\ R[a] = State("record", a, l, t, c, << >>)
  BY DEF ReadsNext
<1>1. n \in Nat /\ n >= 5 /\ b \in Nat /\ a <= b /\ a < b /\ b - 1 \in Nat
  BY <1>0, RecordIsInner, RecordParts
<1> HIDE DEF n, sure
<1>2. /\ \A q \in 1..m : nodes2[q] = nodes[q]
      /\ \A q \in 1..b : q > m => nodes2[q] = piece[q - a]
  BY <1>0, <1>1
<1> HIDE DEF nodes2
<1>3. Stand(nodes2, a, piece)
  <2>1. ASSUME NEW j \in 1..n PROVE nodes2[a + j] = piece[j]
    <3> DEFINE q == a + j
    <3>1. q \in 1..b /\ q - a = j /\ q \in Nat /\ q >= 1
      BY <1>0, <1>1
    <3>2. q <= m => nodes[q] = piece[j]
      BY <1>0 DEF StandsTo, n
    <3> HIDE DEF q
    <3>3. CASE q <= m
      <4>1. q \in 1..m
        BY <1>0, <3>1, <3>3
      <4> QED
        BY <1>2, <3>2, <3>3, <4>1 DEF q
    <3>4. CASE ~(q <= m)
      <4>1. q > m
        BY <1>0, <3>1, <3>4
      <4> QED
        BY <1>2, <3>1, <4>1 DEF q
    <3> QED
      BY <3>3, <3>4
  <2> QED
    BY <2>1 DEF Stand, n
<1>4. PICK R2 : R2[a] = R[a] /\ Runs(R2, nodes2, a, b)
  BY <1>0, <1>1, RunExists
<1> DEFINE x == R2[a]
<1>5. RecordRead(R2, a, b, record)
  <2>1. ReadsRecord(R2, nodes2, a, b, record, l, t, c)
    BY <1>0, <1>1, <1>3, <1>4 DEF ReadsRecord, n
  <2> QED
    BY <2>1, RecordIsRead
<1> HIDE DEF piece, b
<1>6. ASSUME NEW d \in Nat, a <= d, d <= m, d <= b PROVE R[d] = R2[d]
  <2>1. Runs(R, nodes, a, d) /\ Runs(R2, nodes2, a, d)
    BY <1>0, <1>1, <1>4, <1>6, RunsWithin
  <2>2. \A q \in (a + 1)..d : nodes[q] = nodes2[q]
    <3>1. ASSUME NEW q \in (a + 1)..d PROVE q \in 1..m
      BY <1>0, <1>6
    <3> QED
      BY <1>2, <3>1
  <2>3. \A k \in a..d : R[k] = R2[k]
    BY <1>0, <1>4, <1>6, <2>1, <2>2, RunsAgree
  <2> QED
    BY <1>0, <1>6, <2>3
<1>7. CASE b > m
  <2>1. R[m] = R2[m] /\ m \in a..(b - 1)
    BY <1>0, <1>1, <1>6, <1>7
  <2>2. Goes(R[m], sure)
    BY <1>5, <2>1 DEF RecordRead, Underway, sure
  <2> QED
    BY <1>0, <1>1, <1>7, <2>2 DEF NextRead, b, n, piece, sure
<1>8. CASE b <= m
  <2>1. R[b] = R2[b]
    BY <1>0, <1>1, <1>6, <1>8
  <2>2. R[b].expects \in Stopped => R[m] = R[b]
    <3>1. Runs(R, nodes, b, m)
      BY <1>0, <1>1, <1>8, RunsWithin
    <3> QED
      BY <1>0, <1>1, <1>8, <3>1, StoppedStays
  <2>3. CASE \E t2, c2 : R2[b] = State("read", b, record.leader, t2, c2, record.fields)
    <3>1. PICK t2, c2 : R2[b] = State("read", b, record.leader, t2, c2, record.fields)
      BY <2>3
    <3>2. R[b].expects \in Stopped
      BY <2>1, <3>1, StateParts DEF Stopped
    <3>3. R[m] = State("read", b, record.leader, t2, c2, record.fields)
      BY <2>1, <2>2, <3>1, <3>2
    <3> QED
      BY <1>0, <1>1, <1>8, <3>3 DEF NextRead, b, n, piece
  <2>4. CASE ~sure /\ IsRefused(R2[b])
    <3>1. R[b].expects \in Stopped
      BY <2>1, <2>4 DEF IsRefused, Stopped
    <3>2. IsRefused(R[m])
      BY <2>1, <2>2, <2>4, <3>1
    <3> QED
      BY <1>0, <1>1, <1>8, <2>4, <3>2 DEF NextRead, b, n, piece, sure
  <2> QED
    BY <1>5, <2>3, <2>4 DEF RecordRead, sure
<1> QED
  BY <1>0, <1>1, <1>7, <1>8

-----------------------------------------------------------------------------
(* Where the records begin in a document, and the first nodes of one.      *)

AreStarts(starts, all) ==
  /\ starts \in [0..Len(all) -> Nat]
  /\ starts[0] = 1
  /\ \A i \in 1..Len(all) : starts[i] = starts[i - 1] + Len(RecordNodes(all[i]))

Parts == Inner \cup {Plain("collection"), EndElement("collection")}

(* The nodes are the first ones of the document of all these records.      *)
Begins(nodes, starts, all) ==
  /\ nodes \in Seq(Parts) /\ all \in Seq(Record)
  /\ AreStarts(starts, all)
  /\ Len(nodes) <= starts[Len(all)] + 1
  /\ Len(nodes) >= 1 => nodes[1] = Plain("collection")
  /\ \A i \in 1..Len(all) : StandsTo(nodes, Len(nodes), starts[i - 1], RecordNodes(all[i]))
  /\ Len(nodes) = starts[Len(all)] + 1 => nodes[starts[Len(all)] + 1] = EndElement("collection")

(* Every record has nodes, five at least.                                  *)
LEMMA RecordsHaveNodes ==
  ASSUME NEW all \in Seq(Record)
  PROVE  /\ Len(all) \in Nat
         /\ \A i \in 1..Len(all) :
              /\ all[i] \in Record
              /\ RecordNodes(all[i]) \in Seq(Inner)
              /\ Len(RecordNodes(all[i])) \in Nat /\ Len(RecordNodes(all[i])) >= 5
<1>1. Len(all) \in Nat /\ \A i \in 1..Len(all) : all[i] \in Record
  BY LenProperties, ElementOfSeq
<1>2. ASSUME NEW r \in Record
      PROVE  /\ RecordNodes(r) \in Seq(Inner)
             /\ Len(RecordNodes(r)) \in Nat /\ Len(RecordNodes(r)) >= 5
  BY RecordIsInner, RecordParts
<1> QED
  BY <1>1, <1>2

(* Each record begins behind the one before.                               *)
LEMMA StartsRise ==
  ASSUME NEW all \in Seq(Record), NEW starts, AreStarts(starts, all)
  PROVE  /\ \A i \in 0..Len(all) : starts[i] \in Nat
         /\ \A i \in 1..Len(all) : starts[i - 1] < starts[i]
         /\ \A j \in 0..Len(all) : \A i \in 0..j : starts[i] <= starts[j]
<1> DEFINE n == Len(all)
<1>1. n \in Nat /\ \A i \in 1..n : Len(RecordNodes(all[i])) \in Nat /\ Len(RecordNodes(all[i])) >= 5
  BY RecordsHaveNodes
<1>2. \A i \in 0..n : starts[i] \in Nat
  BY DEF AreStarts
<1>3. \A i \in 1..n : starts[i - 1] < starts[i]
  <2>1. ASSUME NEW i \in 1..n PROVE starts[i - 1] < starts[i]
    <3>1. starts[i] = starts[i - 1] + Len(RecordNodes(all[i])) /\ i - 1 \in 0..n
      BY DEF AreStarts
    <3> QED
      BY <1>1, <1>2, <3>1
  <2> QED
    BY <2>1
<1> HIDE DEF n
<1> DEFINE T == {j \in 0..n : \A i \in 0..j : starts[i] <= starts[j]}
<1>4. 0 \in T
  BY <1>1, <1>2
<1>5. ASSUME NEW j \in 1..n, j - 1 \in T PROVE j \in T
  <2>1. ASSUME NEW i \in 0..j PROVE starts[i] <= starts[j]
    <3>1. CASE i = j
      BY <1>1, <1>2, <3>1
    <3>2. CASE i # j
      <4>1. i \in 0..(j - 1) /\ i \in 0..n /\ j - 1 \in 0..n /\ j \in 0..n
        BY <1>1, <3>2
      <4>2. starts[i] <= starts[j - 1] /\ starts[j - 1] < starts[j]
        BY <1>3, <1>5, <4>1
      <4> QED
        BY <1>2, <4>1, <4>2
    <3> QED
      BY <3>1, <3>2
  <2> QED
    BY <2>1
<1> HIDE DEF T
<1>6. \A j \in 0..n : j \in T
  BY <1>1, <1>4, <1>5, UpTo
<1> QED
  BY <1>2, <1>3, <1>6 DEF T, n

(* A node between the start and the end of a collection is one of a record. *)
LEMMA StartsCover ==
  ASSUME NEW all \in Seq(Record), NEW starts, AreStarts(starts, all),
         NEW q \in 2..starts[Len(all)]
  PROVE  \E i \in 1..Len(all) : starts[i - 1] < q /\ q <= starts[i]
<1> DEFINE n == Len(all)
<1>1. n \in Nat /\ \A i \in 0..n : starts[i] \in Nat
  BY RecordsHaveNodes, StartsRise
<1>2. starts[0] = 1 /\ q \in 2..starts[n]
  BY DEF AreStarts
<1> HIDE DEF n
<1> DEFINE T == {j \in 0..n : q <= starts[j] => \E i \in 1..n : starts[i - 1] < q /\ q <= starts[i]}
<1>3. 0 \in T
  BY <1>1, <1>2
<1>4. ASSUME NEW j \in 1..n, j - 1 \in T PROVE j \in T
  <2>1. j - 1 \in 0..n /\ j \in 0..n
    BY <1>1
  <2>2. CASE q <= starts[j - 1]
    BY <1>4, <2>2
  <2>3. CASE ~(q <= starts[j - 1])
    <3>1. starts[j - 1] < q
      BY <1>1, <1>2, <2>1, <2>3
    <3> QED
      BY <2>1, <3>1
  <2> QED
    BY <2>2, <2>3
<1> HIDE DEF T
<1>5. \A j \in 0..n : j \in T
  BY <1>1, <1>3, <1>4, UpTo
<1>6. n \in T /\ q <= starts[n]
  BY <1>1, <1>2, <1>5
<1> QED
  BY <1>6 DEF T, n

(* Nothing ends the collection before the last record's end.               *)
LEMMA NotTheEnd ==
  ASSUME NEW nodes, NEW starts, NEW all, Begins(nodes, starts, all),
         NEW q \in 1..Len(nodes), q <= starts[Len(all)]
  PROVE  nodes[q] # EndElement("collection")
<1>1. /\ all \in Seq(Record) /\ AreStarts(starts, all) /\ nodes \in Seq(Parts)
      /\ Len(nodes) >= 1 => nodes[1] = Plain("collection")
      /\ \A i \in 1..Len(all) : StandsTo(nodes, Len(nodes), starts[i - 1], RecordNodes(all[i]))
  BY DEF Begins
<1>2. CASE q = 1
  <2>1. nodes[q] = Plain("collection")
    BY <1>1, <1>2
  <2>2. Plain("collection").type = "ELEMENT" /\ EndElement("collection").type = "END_ELEMENT"
    BY DEF Plain, Element, EndElement
  <2> QED
    BY <2>1, <2>2
<1>3. CASE q # 1
  <2>1. Len(all) \in Nat /\ starts[Len(all)] \in Nat
    BY <1>1, RecordsHaveNodes, StartsRise
  <2>2. q \in 2..starts[Len(all)]
    BY <1>3, <2>1
  <2>3. PICK i \in 1..Len(all) : starts[i - 1] < q /\ q <= starts[i]
    BY <1>1, <2>2, StartsCover
  <2> DEFINE piece == RecordNodes(all[i])
             j == q - starts[i - 1]
  <2>4. /\ piece \in Seq(Inner) /\ Len(piece) \in Nat
        /\ starts[i - 1] \in Nat /\ starts[i] \in Nat /\ starts[i] = starts[i - 1] + Len(piece)
    <3>1. piece \in Seq(Inner) /\ Len(piece) \in Nat
      BY <1>1, RecordsHaveNodes
    <3>2. starts[i] = starts[i - 1] + Len(piece)
      BY <1>1 DEF AreStarts
    <3>3. i - 1 \in 0..Len(all) /\ i \in 0..Len(all)
      BY <2>1
    <3>4. starts[i - 1] \in Nat /\ starts[i] \in Nat
      BY <1>1, <3>3, StartsRise
    <3> QED
      BY <3>1, <3>2, <3>4
  <2>5. StandsTo(nodes, Len(nodes), starts[i - 1], piece)
    BY <1>1
  <2> HIDE DEF piece
  <2>6. j \in 1..Len(piece) /\ starts[i - 1] + j = q
    BY <2>3, <2>4
  <2> HIDE DEF j
  <2>7. nodes[q] = piece[j] /\ piece[j] \in Inner
    BY <2>4, <2>5, <2>6, ElementOfSeq DEF StandsTo
  <2>8. nodes[q].name \in InnerNames /\ EndElement("collection").name = "collection"
    BY <2>7 DEF Inner, EndElement
  <2>9. "collection" \notin InnerNames
    BY DEF InnerNames
  <2> QED
    BY <2>8, <2>9
<1> QED
  BY <1>2, <1>3

(* The first elements of a sequence.                                       *)
LEMMA PartOfSeq ==
  ASSUME NEW S, NEW s \in Seq(S), NEW k \in 0..Len(s)
  PROVE  /\ SubSeq(s, 1, k) \in Seq(S) /\ Len(SubSeq(s, 1, k)) = k
         /\ \A q \in 1..k : SubSeq(s, 1, k)[q] = s[q]
<1>1. Len(s) \in Nat
  BY LenProperties
<1> QED
  BY <1>1, SubSeqProperties

(* The first nodes of a document are the first ones still.                 *)
LEMMA PartBegins ==
  ASSUME NEW nodes, NEW starts, NEW all, Begins(nodes, starts, all), NEW k \in 0..Len(nodes)
  PROVE  Begins(SubSeq(nodes, 1, k), starts, all) /\ Len(SubSeq(nodes, 1, k)) = k
<1> DEFINE part == SubSeq(nodes, 1, k)
           n == Len(all)
           m == Len(nodes)
<1>1. /\ nodes \in Seq(Parts) /\ all \in Seq(Record)
      /\ AreStarts(starts, all)
      /\ m <= starts[n] + 1
      /\ m >= 1 => nodes[1] = Plain("collection")
      /\ \A i \in 1..n : StandsTo(nodes, m, starts[i - 1], RecordNodes(all[i]))
      /\ m = starts[n] + 1 => nodes[starts[n] + 1] = EndElement("collection")
  BY DEF Begins
<1>2. part \in Seq(Parts) /\ Len(part) = k /\ \A q \in 1..k : part[q] = nodes[q]
  BY <1>1, PartOfSeq
<1>3. m \in Nat /\ k \in 0..m /\ n \in Nat /\ starts[n] \in Nat
  BY <1>1, LenProperties, StartsRise
<1> HIDE DEF part, m, n
<1>4. k >= 1 => part[1] = Plain("collection")
  BY <1>1, <1>2, <1>3
<1>5. ASSUME NEW i \in 1..n PROVE StandsTo(part, k, starts[i - 1], RecordNodes(all[i]))
  <2> DEFINE piece == RecordNodes(all[i])
             a == starts[i - 1]
  <2>1. StandsTo(nodes, m, a, piece) /\ a \in Nat
    BY <1>1, <1>3, StartsRise DEF n
  <2> HIDE DEF piece, a
  <2>2. ASSUME NEW j \in 1..Len(piece), a + j <= k PROVE part[a + j] = piece[j]
    <3>1. a + j \in 1..k /\ a + j <= m
      BY <1>3, <2>1, <2>2
    <3> QED
      BY <1>2, <2>1, <3>1 DEF StandsTo
  <2> QED
    BY <2>2 DEF StandsTo, piece, a
<1>6. k = starts[n] + 1 => part[starts[n] + 1] = EndElement("collection")
  BY <1>1, <1>2, <1>3
<1>7. k <= starts[n] + 1
  BY <1>1, <1>3
<1> QED
  BY <1>1, <1>2, <1>4, <1>5, <1>6, <1>7 DEF Begins, n, part

-----------------------------------------------------------------------------
(* A document grows by a record, or comes to its end.                      *)

(* The nodes around the records.                                           *)
LEMMA PlainParts ==
         /\ Plain("collection") \in Parts /\ EndElement("collection") \in Parts
         /\ <<Plain("collection")>> \in Seq(Parts) /\ Len(<<Plain("collection")>>) = 1
         /\ <<EndElement("collection")>> \in Seq(Parts) /\ Len(<<EndElement("collection")>>) = 1
         /\ Seq(Inner) \subseteq Seq(Parts)
<1>1. Plain("collection") \in Parts /\ EndElement("collection") \in Parts
  BY DEF Parts
<1>2. ASSUME NEW S, NEW node \in S PROVE <<node>> \in Seq(S) /\ Len(<<node>>) = 1
  OBVIOUS
<1>3. Seq(Inner) \subseteq Seq(Parts)
  <2>1. ASSUME NEW s \in Seq(Inner) PROVE s \in Seq(Parts)
    <3>1. Len(s) \in Nat /\ \A i \in 1..Len(s) : s[i] \in Parts
      BY LenProperties, ElementOfSeq DEF Parts
    <3>2. DOMAIN s = 1..Len(s) /\ s = [i \in 1..Len(s) |-> s[i]]
      BY LenProperties
    <3> QED
      BY <3>1, <3>2, Numbered
  <2> QED
    BY <2>1
<1> QED
  BY <1>1, <1>2, <1>3

(* No record yet.                                                          *)
LEMMA CollectionBegins ==
         /\ AreStarts([i \in 0..0 |-> 1], << >>)
         /\ Begins(<<Plain("collection")>>, [i \in 0..0 |-> 1], << >>)
         /\ Begins(<< >>, [i \in 0..0 |-> 1], << >>)
<1> DEFINE starts == [i \in 0..0 |-> 1]
           one == <<Plain("collection")>>
           none == << >>
<1>1. none \in Seq(Record) /\ Len(none) = 0 /\ starts[0] = 1 /\ starts \in [0..0 -> Nat]
  BY EmptySeq
<1>2. one \in Seq(Parts) /\ Len(one) = 1 /\ one[1] = Plain("collection")
  BY PlainParts
<1>3. none \in Seq(Parts)
  BY EmptySeq
<1> HIDE DEF none, one, starts
<1>4. AreStarts(starts, none)
  BY <1>1 DEF AreStarts
<1> QED
  BY <1>1, <1>2, <1>3, <1>4 DEF Begins, none, one, starts

NextStarts(starts, all, record) ==
  [i \in 0..(Len(all) + 1) |-> IF i <= Len(all) THEN starts[i]
                               ELSE starts[Len(all)] + Len(RecordNodes(record))]

(* One record more.                                                        *)
LEMMA NextStartsAre ==
  ASSUME NEW all \in Seq(Record), NEW starts, AreStarts(starts, all), NEW record \in Record
  PROVE  /\ Append(all, record) \in Seq(Record) /\ Len(Append(all, record)) = Len(all) + 1
         /\ Append(all, record)[Len(all) + 1] = record
         /\ \A i \in 1..Len(all) : Append(all, record)[i] = all[i]
         /\ AreStarts(NextStarts(starts, all, record), Append(all, record))
         /\ \A i \in 0..Len(all) : NextStarts(starts, all, record)[i] = starts[i]
         /\ NextStarts(starts, all, record)[Len(all) + 1]
              = starts[Len(all)] + Len(RecordNodes(record))
<1> DEFINE n == Len(all)
           more == Append(all, record)
           starts2 == NextStarts(starts, all, record)
           size == Len(RecordNodes(record))
<1>1. n \in Nat /\ size \in Nat
  BY RecordsHaveNodes, RecordIsInner, RecordParts
<1>2. /\ more \in Seq(Record) /\ Len(more) = n + 1 /\ more[n + 1] = record
      /\ \A i \in 1..n : more[i] = all[i]
  BY AppendProperties
<1>3. /\ starts2 = [i \in 0..(n + 1) |-> IF i <= n THEN starts[i] ELSE starts[n] + size]
  BY DEF NextStarts
<1>4. /\ \A i \in 0..n : starts[i] \in Nat
      /\ starts[0] = 1
      /\ \A i \in 1..n : starts[i] = starts[i - 1] + Len(RecordNodes(all[i]))
  BY DEF AreStarts
<1> HIDE DEF n, more, starts2, size
<1>5. (\A i \in 0..n : starts2[i] = starts[i]) /\ starts2[n + 1] = starts[n] + size
  BY <1>1, <1>3
<1>6. starts2 \in [0..(n + 1) -> Nat]
  <2>1. n \in 0..n /\ starts[n] + size \in Nat
    BY <1>1, <1>4
  <2>2. ASSUME NEW i \in 0..(n + 1), i <= n PROVE starts[i] \in Nat
    BY <1>1, <1>4, <2>2
  <2> QED
    BY <1>3, <2>1, <2>2
<1>7. ASSUME NEW i \in 1..(n + 1) PROVE starts2[i] = starts2[i - 1] + Len(RecordNodes(more[i]))
  <2>1. CASE i = n + 1
    <3>1. i - 1 = n /\ n \in 0..n
      BY <1>1, <2>1
    <3> QED
      BY <1>2, <1>5, <2>1, <3>1 DEF size
  <2>2. CASE i # n + 1
    <3>1. i \in 1..n /\ i \in 0..n /\ i - 1 \in 0..n
      BY <1>1, <2>2
    <3> QED
      BY <1>2, <1>4, <1>5, <3>1
  <2> QED
    BY <2>1, <2>2
<1>8. starts2[0] = 1
  BY <1>1, <1>4, <1>5
<1>9. AreStarts(starts2, more)
  BY <1>2, <1>6, <1>7, <1>8 DEF AreStarts
<1> QED
  BY <1>2, <1>5, <1>9 DEF n, more, starts2, size

(* A record is written behind the others.                                  *)
LEMMA RecordBegins ==
  ASSUME NEW base, NEW starts, NEW all, Begins(base, starts, all), Len(base) = starts[Len(all)],
         NEW record \in Record
  PROVE  /\ Begins(base \o RecordNodes(record), NextStarts(starts, all, record), Append(all, record))
         /\ Len(base \o RecordNodes(record))
              = NextStarts(starts, all, record)[Len(Append(all, record))]
         /\ Len(base \o RecordNodes(record)) = Len(base) + Len(RecordNodes(record))
<1> DEFINE n == Len(all)
           m == Len(base)
           more == Append(all, record)
           starts2 == NextStarts(starts, all, record)
           piece == RecordNodes(record)
           size == Len(piece)
           new == base \o piece
<1>1. /\ base \in Seq(Parts) /\ all \in Seq(Record)
      /\ AreStarts(starts, all) /\ m = starts[n]
      /\ m >= 1 => base[1] = Plain("collection")
      /\ \A i \in 1..n : StandsTo(base, m, starts[i - 1], RecordNodes(all[i]))
  BY DEF Begins
<1>2. piece \in Seq(Inner) /\ size \in Nat /\ size >= 5
  BY RecordIsInner, RecordParts
<1>3. piece \in Seq(Parts)
  BY <1>2, PlainParts
<1>4. /\ n \in Nat /\ m \in Nat /\ starts[n] \in Nat
      /\ \A i \in 0..n : starts[i] \in Nat /\ starts[0] <= starts[i]
  BY <1>1, RecordsHaveNodes, LenProperties, StartsRise
<1>5. m >= 1
  BY <1>1, <1>4 DEF AreStarts
<1>6. /\ more \in Seq(Record) /\ Len(more) = n + 1
      /\ more[n + 1] = record
      /\ \A i \in 1..n : more[i] = all[i]
      /\ AreStarts(starts2, more)
      /\ \A i \in 0..n : starts2[i] = starts[i]
      /\ starts2[n + 1] = starts[n] + size
  BY <1>1, NextStartsAre
<1>7. /\ new \in Seq(Parts) /\ Len(new) = m + size
      /\ \A j \in 1..m : new[j] = base[j]
      /\ \A j \in 1..size : new[m + j] = piece[j]
  <2>1. base \in Seq(Parts) /\ piece \in Seq(Parts)
    BY <1>1, <1>3
  <2> HIDE DEF piece
  <2> QED
    BY <2>1, Beside
<1> HIDE DEF n, m, more, starts2, piece, size, new
<1>8. Len(new) = starts2[n + 1] /\ Len(new) \in Nat
  BY <1>1, <1>2, <1>4, <1>6, <1>7
<1>9. new[1] = Plain("collection")
  BY <1>1, <1>4, <1>5, <1>7
<1>10. ASSUME NEW i \in 1..(n + 1)
       PROVE  StandsTo(new, Len(new), starts2[i - 1], RecordNodes(more[i]))
  <2>1. CASE i = n + 1
    <3>1. more[i] = record /\ starts2[i - 1] = m
      <4>1. i - 1 = n /\ n \in 0..n
        BY <1>4, <2>1
      <4> QED
        BY <1>1, <1>6, <2>1, <4>1
    <3> QED
      BY <1>7, <3>1 DEF StandsTo, piece, size
  <2>2. CASE i # n + 1
    <3> DEFINE q == RecordNodes(all[i])
               a == starts[i - 1]
    <3>1. i \in 1..n /\ i \in 0..n /\ i - 1 \in 0..n
      BY <1>4, <2>2
    <3>2. StandsTo(base, m, a, q) /\ a \in Nat /\ RecordNodes(more[i]) = q /\ starts2[i - 1] = a
      BY <1>1, <1>4, <1>6, <3>1
    <3>3. a + Len(q) <= m /\ Len(q) \in Nat
      <4>1. starts[i] = starts[i - 1] + Len(RecordNodes(all[i])) /\ starts[i] <= starts[n]
        <5>1. starts[i] = starts[i - 1] + Len(RecordNodes(all[i]))
          BY <1>1, <3>1 DEF AreStarts, n
        <5>2. n \in 0..n /\ i \in 0..n
          BY <1>1, <1>4, <3>1
        <5>3. \A k \in 0..Len(all) : \A j \in 0..k : starts[j] <= starts[k]
          BY <1>1, StartsRise
        <5> QED
          BY <5>1, <5>2, <5>3 DEF n
      <4>2. Len(RecordNodes(all[i])) \in Nat
        BY <1>1, <3>1, RecordsHaveNodes DEF n
      <4> QED
        BY <1>1, <4>1, <4>2
    <3> HIDE DEF a, q
    <3>4. ASSUME NEW j \in 1..Len(q) PROVE new[a + j] = q[j]
      <4>1. a + j \in 1..m
        BY <1>4, <3>2, <3>3
      <4> QED
        BY <1>7, <3>2, <4>1 DEF StandsTo
    <3> QED
      BY <3>2, <3>4 DEF StandsTo
  <2> QED
    BY <2>1, <2>2
<1>11. Begins(new, starts2, more)
  BY <1>4, <1>6, <1>7, <1>8, <1>9, <1>10 DEF Begins
<1> QED
  BY <1>6, <1>7, <1>8, <1>11 DEF n, m, more, starts2, piece, size, new

(* The end of the collection is written behind them all.                   *)
LEMMA EndBegins ==
  ASSUME NEW base, NEW starts, NEW all, Begins(base, starts, all), Len(base) = starts[Len(all)]
  PROVE  /\ Begins(base \o <<EndElement("collection")>>, starts, all)
         /\ Len(base \o <<EndElement("collection")>>) = starts[Len(all)] + 1
<1> DEFINE n == Len(all)
           m == Len(base)
           end == <<EndElement("collection")>>
           new == base \o end
<1>1. /\ base \in Seq(Parts) /\ all \in Seq(Record)
      /\ AreStarts(starts, all) /\ m = starts[n]
      /\ m >= 1 => base[1] = Plain("collection")
      /\ \A i \in 1..n : StandsTo(base, m, starts[i - 1], RecordNodes(all[i]))
  BY DEF Begins
<1>2. end \in Seq(Parts) /\ Len(end) = 1 /\ end[1] = EndElement("collection")
  BY PlainParts
<1>3. /\ n \in Nat /\ m \in Nat /\ starts[n] \in Nat
      /\ \A i \in 0..n : starts[i] \in Nat /\ starts[0] <= starts[i]
  BY <1>1, RecordsHaveNodes, LenProperties, StartsRise
<1>4. m >= 1
  BY <1>1, <1>3 DEF AreStarts
<1>5. /\ new \in Seq(Parts) /\ Len(new) = m + 1
      /\ \A j \in 1..m : new[j] = base[j]
      /\ new[m + 1] = EndElement("collection")
  <2>1. base \in Seq(Parts) /\ end \in Seq(Parts)
    BY <1>1, <1>2
  <2> HIDE DEF end
  <2>2. /\ new \in Seq(Parts) /\ Len(new) = m + Len(end)
        /\ \A j \in 1..m : new[j] = base[j]
        /\ \A j \in 1..Len(end) : new[m + j] = end[j]
    BY <2>1, Beside
  <2> QED
    BY <1>2, <2>2
<1> HIDE DEF n, m, end, new
<1>6. new[1] = Plain("collection")
  BY <1>1, <1>3, <1>4, <1>5
<1>7. ASSUME NEW i \in 1..n
      PROVE  StandsTo(new, Len(new), starts[i - 1], RecordNodes(all[i]))
  <2> DEFINE q == RecordNodes(all[i])
             a == starts[i - 1]
  <2>1. i \in 0..n /\ i - 1 \in 0..n
    BY <1>3
  <2>2. StandsTo(base, m, a, q) /\ a \in Nat
    BY <1>1, <1>3, <2>1
  <2>3. a + Len(q) <= m /\ Len(q) \in Nat
    <3>1. starts[i] = starts[i - 1] + Len(RecordNodes(all[i])) /\ starts[i] <= starts[n]
      <4>1. starts[i] = starts[i - 1] + Len(RecordNodes(all[i]))
        BY <1>1 DEF AreStarts, n
      <4>2. n \in 0..n /\ i \in 0..n
        BY <1>1, <1>3, <2>1
      <4>3. \A k \in 0..Len(all) : \A j \in 0..k : starts[j] <= starts[k]
        BY <1>1, StartsRise
      <4> QED
        BY <4>1, <4>2, <4>3 DEF n
    <3>2. Len(RecordNodes(all[i])) \in Nat
      BY <1>1, RecordsHaveNodes DEF n
    <3> QED
      BY <1>1, <3>1, <3>2
  <2> HIDE DEF a, q
  <2>4. ASSUME NEW j \in 1..Len(q) PROVE new[a + j] = q[j]
    <3>1. a + j \in 1..m
      BY <1>3, <2>2, <2>3
    <3> QED
      BY <1>5, <2>2, <3>1 DEF StandsTo
  <2> QED
    BY <2>4 DEF StandsTo, a, q
<1>8. Begins(new, starts, all)
  BY <1>1, <1>3, <1>5, <1>6, <1>7 DEF Begins, n
<1> QED
  BY <1>1, <1>5, <1>8 DEF n, m, end, new

-----------------------------------------------------------------------------
(* What the writer makes of a record.                                      *)

(* The writer's instance of the module is this one too.                    *)
LEMMA WriterNodes ==
  ASSUME NEW record
  PROVE  Writer!RecordNodes(record) = RecordNodes(record)
<1>1. ASSUME NEW content PROVE Writer!TextNodes(content) = TextNodes(content)
  BY DEF TextNodes, Text, Whitespace, Writer!TextNodes, Writer!Text, Writer!Whitespace
<1>2. ASSUME NEW name, NEW tag, NEW nodes
      PROVE  Writer!Enclosed(name, tag, nodes) = Enclosed(name, tag, nodes)
  BY DEF Enclosed, Element, EndElement, Writer!Enclosed, Writer!Element, Writer!EndElement
<1>3. ASSUME NEW seqs PROVE Writer!FlattenSeq(seqs) = FlattenSeq(seqs)
  BY DEF FlattenSeq, Writer!FlattenSeq
<1>4. ASSUME NEW contents PROVE Writer!SubfieldNodes(contents) = SubfieldNodes(contents)
  BY <1>1, <1>2, <1>3 DEF SubfieldNodes, Writer!SubfieldNodes
<1>5. ASSUME NEW field PROVE Writer!FieldNodes(field) = FieldNodes(field)
  BY <1>1, <1>2, <1>4 DEF FieldNodes, Writer!FieldNodes, Element, Writer!Element
<1> QED
  BY <1>1, <1>2, <1>3, <1>5 DEF RecordNodes, Writer!RecordNodes

LEMMA WriterEnd == Writer!EndElement("collection") = EndElement("collection")
BY DEF Writer!EndElement, EndElement

LEMMA WriterStart ==
  Writer!CollectionStart = IF didStartRecordCollection THEN << >> ELSE <<Plain("collection")>>
BY DEF Writer!CollectionStart, Writer!Element, Plain, Element

LEMMA RecordIsRecord ==
  ASSUME NEW record \in Records
  PROVE  record \in Record
BY RecordShapeAssumption DEF Record

FirstOf(s, t) == \A q \in 1..Len(s) : s[q] = t[q]

(* The nodes of the document when something is written, but the last.      *)
LEMMA AllButTheLast ==
  ASSUME NEW S, NEW s \in Seq(S), NEW t \in Seq(S), NEW u \in Seq(S), Len(u) >= 1
  PROVE  /\ s \o Front(t \o u) \in Seq(S)
         /\ Len(s \o Front(t \o u)) + 1 = Len((s \o t) \o u)
         /\ FirstOf(s \o Front(t \o u), (s \o t) \o u)
<1> DEFINE tu == t \o u
           front == Front(tu)
           x == s \o front
           y == (s \o t) \o u
           ls == Len(s)
           lt == Len(t)
           lu == Len(u)
<1>1. ls \in Nat /\ lt \in Nat /\ lu \in Nat /\ lu >= 1
  BY LenProperties
<1>2. /\ tu \in Seq(S) /\ Len(tu) = lt + lu
      /\ \A q \in 1..lt : tu[q] = t[q]
      /\ \A q \in 1..lu : tu[lt + q] = u[q]
  BY Beside
<1>3. front = SubSeq(tu, 1, Len(tu) - 1)
  BY DEF Front
<1> HIDE DEF tu
<1>4. /\ front \in Seq(S) /\ Len(front) = lt + lu - 1
      /\ \A q \in 1..(lt + lu - 1) : front[q] = tu[q]
  <2>1. Len(tu) - 1 \in 0..Len(tu)
    BY <1>1, <1>2
  <2> DEFINE k == Len(tu) - 1
  <2>2. k \in 0..Len(tu) /\ front = SubSeq(tu, 1, k)
    BY <1>3, <2>1
  <2> HIDE DEF k, front
  <2>3. front \in Seq(S) /\ Len(front) = k /\ \A q \in 1..k : front[q] = tu[q]
    BY <1>2, <2>2, PartOfSeq
  <2> QED
    <3>1. k = lt + lu - 1
      BY <1>1, <1>2 DEF k
    <3> HIDE DEF lt, lu
    <3> QED
      BY <2>3, <3>1
<1> HIDE DEF front
<1>5. /\ x \in Seq(S) /\ Len(x) = ls + (lt + lu - 1)
      /\ \A q \in 1..ls : x[q] = s[q]
      /\ \A q \in 1..(lt + lu - 1) : x[ls + q] = front[q]
  <2>1. /\ x \in Seq(S) /\ Len(x) = ls + Len(front)
        /\ \A q \in 1..ls : x[q] = s[q]
        /\ \A q \in 1..Len(front) : x[ls + q] = front[q]
    <3>1. front \in Seq(S)
      BY <1>4
    <3> QED
      BY <3>1, Beside
  <2> QED
    BY <1>4, <2>1
<1> DEFINE st == s \o t
<1>6. /\ st \in Seq(S) /\ Len(st) = ls + lt
      /\ \A q \in 1..ls : st[q] = s[q]
      /\ \A q \in 1..lt : st[ls + q] = t[q]
  BY Beside
<1> HIDE DEF st
<1>7. /\ Len(y) = (ls + lt) + lu
      /\ \A q \in 1..(ls + lt) : y[q] = st[q]
      /\ \A q \in 1..lu : y[(ls + lt) + q] = u[q]
  <2>1. y = st \o u
    BY DEF st
  <2> HIDE DEF y
  <2>2. /\ Len(y) = Len(st) + lu
        /\ \A q \in 1..Len(st) : y[q] = st[q]
        /\ \A q \in 1..lu : y[Len(st) + q] = u[q]
    <3>1. st \in Seq(S)
      BY <1>6
    <3> QED
      BY <2>1, <3>1, Beside
  <2> QED
    BY <1>6, <2>2
<1> HIDE DEF x, y, ls, lt, lu
<1>8. ASSUME NEW q \in 1..Len(x) PROVE x[q] = y[q]
  <2>1. CASE q <= ls
    <3>1. q \in 1..ls /\ q \in 1..(ls + lt)
      BY <1>1, <1>5, <2>1
    <3> QED
      BY <1>5, <1>6, <1>7, <3>1
  <2>2. CASE ~(q <= ls) /\ q <= ls + lt
    <3> DEFINE j == q - ls
    <3>1. j \in 1..lt /\ ls + j = q /\ q \in 1..(ls + lt) /\ j \in 1..(lt + lu - 1)
      BY <1>1, <1>5, <2>2
    <3> HIDE DEF j
    <3>2. x[q] = front[j] /\ front[j] = tu[j] /\ tu[j] = t[j]
      BY <1>2, <1>4, <1>5, <3>1 DEF lt
    <3>3. y[q] = st[q] /\ st[q] = t[j]
      BY <1>6, <1>7, <3>1
    <3> QED
      BY <3>2, <3>3
  <2>3. CASE ~(q <= ls + lt)
    <3> DEFINE j == q - (ls + lt)
               i == lt + j
    <3>1. j \in 1..lu /\ (ls + lt) + j = q /\ ls + i = q /\ i \in 1..(lt + lu - 1)
      BY <1>1, <1>5, <2>3
    <3>2. tu[i] = u[j]
      BY <1>2, <3>1
    <3> HIDE DEF i, j
    <3>3. x[q] = front[i] /\ front[i] = tu[i]
      BY <1>4, <1>5, <3>1
    <3>4. y[q] = u[j]
      BY <1>7, <3>1
    <3> QED
      BY <3>2, <3>3, <3>4
  <2> QED
    BY <2>1, <2>2, <2>3
<1>9. Len(x) + 1 = Len(y)
  BY <1>1, <1>5, <1>7
<1> QED
  BY <1>5, <1>8, <1>9 DEF x, y, front, tu, FirstOf

-----------------------------------------------------------------------------
(* The writer.                                                             *)

(* All that was accepted is in the document, which may be at its end.      *)
AllWritten(starts) ==
  Begins(document, starts, accepted) /\ Len(document) = starts[Len(accepted)]

Ended(starts) ==
  /\ Begins(document, starts, accepted) /\ Len(document) = starts[Len(accepted)] + 1
  /\ writerOwn # "Open" /\ ~hasWriter

(* A write has failed: no more is flushed, and what was ends before the    *)
(* end of the record that was refused.                                     *)
CutShort(starts, record) ==
  /\ record \in Record
  /\ Begins(SubSeq(document, 1, flushed), starts, Append(accepted, record))
  /\ flushed < starts[Len(accepted) + 1]
  /\ isFull /\ writerOwn # "Open"

WriterOpened ==
  /\ writerOwn = "NotOpen" => ~hasWriter /\ ~didStartRecordCollection
  /\ writerOwn # "NotOpen" => writerInner # "NotOpen"

IsDocument ==
  /\ document \in Seq(Parts) /\ flushed \in 0..Len(document)
  /\ accepted \in Seq(Record)

IsWritten ==
  /\ ~didStartRecordCollection => document = << >> /\ accepted = << >>
  /\ didStartRecordCollection =>
       \E starts : AllWritten(starts) \/ Ended(starts) \/ (\E record : CutShort(starts, record))

WritingInv == WriterOpened /\ IsDocument /\ IsWritten

(* What was flushed stays when more is written.                            *)
LEMMA SubSeqGrows ==
  ASSUME NEW S, NEW s \in Seq(S), NEW t \in Seq(S), NEW k \in 0..Len(s)
  PROVE  SubSeq(s \o t, 1, k) = SubSeq(s, 1, k)
<1> DEFINE st == s \o t
           x == SubSeq(st, 1, k)
           y == SubSeq(s, 1, k)
<1>1. st \in Seq(S) /\ Len(st) = Len(s) + Len(t) /\ \A j \in 1..Len(s) : st[j] = s[j]
  BY Beside
<1>2. Len(s) \in Nat /\ Len(t) \in Nat
  BY LenProperties
<1> HIDE DEF st
<1>3. k \in 0..Len(st)
  BY <1>1, <1>2
<1>4. x \in Seq(S) /\ Len(x) = k /\ \A q \in 1..k : x[q] = st[q]
  BY <1>1, <1>3, PartOfSeq
<1>5. y \in Seq(S) /\ Len(y) = k /\ \A q \in 1..k : y[q] = s[q]
  BY PartOfSeq
<1> HIDE DEF x, y
<1>6. ASSUME NEW q \in 1..Len(x) PROVE x[q] = y[q]
  <2>1. q \in 1..k /\ q \in 1..Len(s)
    BY <1>2, <1>4
  <2> QED
    BY <1>1, <1>4, <1>5, <2>1
<1>7. x = y
  BY <1>4, <1>5, <1>6, SeqEqual
<1> QED
  BY <1>7 DEF x, y, st

LEMMA FlushesWithin ==
  ASSUME flushed \in 0..Len(document), NEW nodes, Len(nodes) \in Nat, Len(nodes) >= Len(document),
         Len(document) \in Nat
  PROVE  \A k \in Writer!Flushes(nodes) : k \in 0..Len(nodes) /\ (isFull => k = flushed)
BY DEF Writer!Flushes

(* What an open writer puts a record behind.                               *)
LEMMA BaseBegins ==
  ASSUME WritingInv, writerOwn = "Open"
  PROVE  /\ document \in Seq(Parts) /\ Writer!CollectionStart \in Seq(Parts)
         /\ \E starts : /\ Begins(document \o Writer!CollectionStart, starts, accepted)
                        /\ Len(document \o Writer!CollectionStart) = starts[Len(accepted)]
<1>1. document \in Seq(Parts)
  BY DEF WritingInv, IsDocument
<1>2. CASE ~didStartRecordCollection
  <2>1. document = << >> /\ accepted = << >> /\ Writer!CollectionStart = <<Plain("collection")>>
    BY <1>2, WriterStart DEF WritingInv, IsWritten
  <2>2. << >> \o <<Plain("collection")>> = <<Plain("collection")>>
    OBVIOUS
  <2>3. Begins(<<Plain("collection")>>, [i \in 0..0 |-> 1], << >>)
    BY CollectionBegins
  <2>4. Len(<<Plain("collection")>>) = 1 /\ Len(<< >>) = 0
    OBVIOUS
  <2>5. [i \in 0..0 |-> 1][0] = 1
    OBVIOUS
  <2> DEFINE starts == [i \in 0..0 |-> 1]
  <2>6. Begins(<<Plain("collection")>>, starts, << >>) /\ starts[0] = 1
    BY <2>3, <2>5
  <2> HIDE DEF starts
  <2>7. \E s : Begins(<<Plain("collection")>>, s, << >>) /\ s[0] = 1
    BY <2>6
  <2> QED
    BY <1>1, <2>1, <2>2, <2>4, <2>7, PlainParts
<1>3. CASE didStartRecordCollection
  <2>1. Writer!CollectionStart = << >>
    BY <1>3, WriterStart
  <2>2. document \o << >> = document
    BY <1>1
  <2>3. PICK starts : AllWritten(starts)
    BY <1>3 DEF WritingInv, IsWritten, Ended, CutShort
  <2>4. << >> \in Seq(Parts)
    BY EmptySeq
  <2> QED
    BY <1>1, <2>1, <2>2, <2>3, <2>4 DEF AllWritten
<1> QED
  BY <1>2, <1>3

(* A record is accepted behind the others, all of it.                      *)
LEMMA WriteKeepsInv ==
  ASSUME WritingInv, NEW record \in Records, Writer!WriteRecord(record)
  PROVE  WritingInv'
<1> DEFINE base == document \o Writer!CollectionStart
           new == base \o RecordNodes(record)
<1>1. /\ writerOwn = "Open" /\ document' = new
      /\ flushed' \in Writer!Flushes(document')
      /\ writerInner' = IF isFull' /\ writerInner = "Open" THEN "AtEnd" ELSE writerInner
      /\ didStartRecordCollection' = TRUE
      /\ accepted' = Append(accepted, record)
      /\ writerOwn' = writerOwn /\ hasWriter' = hasWriter
  BY WriterNodes DEF Writer!WriteRecord
<1>2. PICK starts : Begins(base, starts, accepted) /\ Len(base) = starts[Len(accepted)]
  BY <1>1, BaseBegins
<1>3. record \in Record
  BY RecordIsRecord
<1>4. document \in Seq(Parts) /\ Writer!CollectionStart \in Seq(Parts) /\ accepted \in Seq(Record)
      /\ flushed \in 0..Len(document) /\ Len(document) \in Nat
  BY <1>1, BaseBegins, LenProperties DEF WritingInv, IsDocument
<1>5. Len(base) = Len(document) + Len(Writer!CollectionStart) /\ Len(Writer!CollectionStart) \in Nat
  BY <1>4, Beside, LenProperties
<1> HIDE DEF base
<1> DEFINE more == Append(accepted, record)
<1>0. PICK starts2 : starts2 = NextStarts(starts, accepted, record)
  OBVIOUS
<1>6. /\ Begins(new, starts2, more) /\ Len(new) = starts2[Len(more)]
      /\ Len(new) = Len(base) + Len(RecordNodes(record))
  <2>1. /\ Begins(new, NextStarts(starts, accepted, record), more)
        /\ Len(new) = NextStarts(starts, accepted, record)[Len(more)]
        /\ Len(new) = Len(base) + Len(RecordNodes(record))
    BY <1>2, <1>3, RecordBegins
  <2> HIDE DEF new, more
  <2> QED
    BY <1>0, <2>1
<1>7. Len(RecordNodes(record)) \in Nat
  BY <1>3, RecordIsInner, RecordParts
<1>14. accepted' = more
  BY <1>1
<1> HIDE DEF new, more
<1>8. AllWritten(starts2)'
  BY <1>1, <1>6, <1>14 DEF AllWritten
<1>9. new \in Seq(Parts) /\ accepted' \in Seq(Record)
  BY <1>6, <1>14 DEF Begins
<1>10. flushed' \in 0..Len(document')
  <2>1. Len(new) \in Nat /\ Len(new) >= Len(document)
    BY <1>4, <1>5, <1>6, <1>7
  <2> QED
    BY <1>1, <1>4, <2>1, FlushesWithin
<1>11. IsDocument' /\ IsWritten'
  BY <1>1, <1>8, <1>9, <1>10 DEF IsDocument, IsWritten
<1>12. WriterOpened'
  BY <1>1 DEF WritingInv, WriterOpened
<1> QED
  BY <1>11, <1>12 DEF WritingInv

(* Of one that is refused the last node is not flushed.                    *)
LEMMA FailedWriteKeepsInv ==
  ASSUME WritingInv, NEW record \in Records, Writer!WriteRecordFails(record)
  PROVE  WritingInv'
<1> DEFINE base == document \o Writer!CollectionStart
           new == base \o RecordNodes(record)
           short == document \o Front(Writer!CollectionStart \o RecordNodes(record))
<1>1. /\ writerOwn = "Open"
      /\ \/ document' = short /\ didStartRecordCollection' = TRUE
         \/ /\ ~didStartRecordCollection
            /\ document' = document /\ didStartRecordCollection' = didStartRecordCollection
      /\ flushed' \in Writer!Flushes(document')
      /\ isFull' = TRUE
      /\ writerInner' = IF writerInner = "Closed" THEN writerInner ELSE "Error"
      /\ writerOwn' = writerInner'
      /\ hasWriter' = hasWriter /\ accepted' = accepted
  <2>1. Writer!RecordNodes(record) = RecordNodes(record)
    BY WriterNodes
  <2>2. \A s : Writer!Front(s) = Front(s)
    BY DEF Writer!Front, Front
  <2> QED
    BY <2>1, <2>2 DEF Writer!WriteRecordFails, Writer!UpdateStreamStatusAfterError
<1>2. PICK starts : Begins(base, starts, accepted) /\ Len(base) = starts[Len(accepted)]
  BY <1>1, BaseBegins
<1>3. record \in Record
  BY RecordIsRecord
<1>4. document \in Seq(Parts) /\ Writer!CollectionStart \in Seq(Parts) /\ accepted \in Seq(Record)
      /\ flushed \in 0..Len(document) /\ Len(document) \in Nat
  BY <1>1, BaseBegins, LenProperties DEF WritingInv, IsDocument
<1>5. Len(base) = Len(document) + Len(Writer!CollectionStart) /\ Len(Writer!CollectionStart) \in Nat
  BY <1>4, Beside, LenProperties
<1>6. /\ RecordNodes(record) \in Seq(Parts)
      /\ Len(RecordNodes(record)) \in Nat /\ Len(RecordNodes(record)) >= 5
  BY <1>3, RecordIsInner, RecordParts, PlainParts
<1>7. WriterOpened'
  <2>1. writerInner' # "NotOpen" /\ writerInner' # "Open"
    BY <1>1
  <2> QED
    BY <1>1, <2>1 DEF WriterOpened
<1>8. CASE document' = document
  <2>1. flushed' \in 0..Len(document')
    BY <1>1, <1>4, <1>8, FlushesWithin
  <2>2. IsDocument'
    BY <1>1, <1>4, <1>8, <2>1 DEF IsDocument
  <2>3. CASE ~didStartRecordCollection /\ didStartRecordCollection' = didStartRecordCollection
    BY <1>1, <1>7, <1>8, <2>2, <2>3 DEF WritingInv, IsWritten
  <2>4. CASE document' = short
    <3>1. Len(short) + 1 = Len(new)
      BY <1>4, <1>6, AllButTheLast
    <3>2. Len(new) = Len(base) + Len(RecordNodes(record))
      <4> HIDE DEF base
      <4> QED
        BY <1>2, <1>3, RecordBegins
    <3>3. Len(short) > Len(document)
      BY <1>4, <1>5, <1>6, <3>1, <3>2
    <3> QED
      BY <1>4, <1>8, <2>4, <3>3
  <2> QED
    BY <1>1, <2>3, <2>4
<1>9. CASE document' = short /\ didStartRecordCollection' = TRUE
  <2> DEFINE more == Append(accepted, record)
  <2>0. PICK starts2 : starts2 = NextStarts(starts, accepted, record)
    OBVIOUS
  <2>1. /\ Begins(new, starts2, more) /\ Len(new) = starts2[Len(more)]
        /\ Len(new) = Len(base) + Len(RecordNodes(record))
    <3> HIDE DEF base
    <3>1. /\ Begins(new, NextStarts(starts, accepted, record), more)
          /\ Len(new) = NextStarts(starts, accepted, record)[Len(more)]
          /\ Len(new) = Len(base) + Len(RecordNodes(record))
      BY <1>2, <1>3, RecordBegins
    <3> HIDE DEF new, more
    <3> QED
      BY <2>0, <3>1
  <2>2. Len(more) = Len(accepted) + 1 /\ Len(accepted) \in Nat
    BY <1>2, <1>3, NextStartsAre, LenProperties DEF Begins
  <2>3. /\ short \in Seq(Parts) /\ Len(short) + 1 = Len(new)
        /\ \A q \in 1..Len(short) : short[q] = new[q]
    <3> DEFINE s == document
               t == Writer!CollectionStart
               u == RecordNodes(record)
    <3>1. s \in Seq(Parts) /\ t \in Seq(Parts) /\ u \in Seq(Parts) /\ Len(u) >= 1
      BY <1>4, <1>6
    <3>2. short = s \o Front(t \o u) /\ new = (s \o t) \o u
      OBVIOUS
    <3> HIDE DEF s, t, u, short, new
    <3>3. s \o Front(t \o u) \in Seq(Parts) /\ Len(s \o Front(t \o u)) + 1 = Len((s \o t) \o u)
      BY <3>1, AllButTheLast
    <3>4. FirstOf(s \o Front(t \o u), (s \o t) \o u)
      BY <3>1, AllButTheLast
    <3> QED
      BY <3>2, <3>3, <3>4 DEF FirstOf
  <2>4. Len(short) \in Nat /\ Len(short) >= Len(document) /\ Len(new) \in Nat
    BY <1>4, <1>5, <1>6, <2>1, <2>3
  <2> HIDE DEF short, new, more
  <2>5. flushed' \in 0..Len(short)
    BY <1>1, <1>4, <1>9, <2>4, FlushesWithin
  <2>6. SubSeq(short, 1, flushed') = SubSeq(new, 1, flushed')
    <3> DEFINE k == flushed'
               x == SubSeq(short, 1, k)
               y == SubSeq(new, 1, k)
    <3>1. k \in 0..Len(short) /\ k \in 0..Len(new) /\ new \in Seq(Parts)
      BY <2>1, <2>3, <2>4, <2>5 DEF Begins
    <3> HIDE DEF k
    <3>2. x \in Seq(Parts) /\ Len(x) = k /\ \A q \in 1..k : x[q] = short[q]
      BY <2>3, <3>1, PartOfSeq
    <3>3. y \in Seq(Parts) /\ Len(y) = k /\ \A q \in 1..k : y[q] = new[q]
      BY <3>1, PartOfSeq
    <3> HIDE DEF x, y
    <3>4. \A q \in 1..Len(x) : x[q] = y[q]
      BY <2>3, <3>1, <3>2, <3>3
    <3>5. x = y
      BY <3>2, <3>3, <3>4, SeqEqual
    <3> QED
      BY <3>5 DEF x, y, k
  <2>7. Begins(SubSeq(new, 1, flushed'), starts2, more)
    <3>1. flushed' \in 0..Len(new)
      BY <2>3, <2>4, <2>5
    <3> QED
      BY <2>1, <3>1, PartBegins
  <2>8. flushed' < starts2[Len(accepted) + 1]
    <3>1. starts2[Len(accepted) + 1] = Len(new)
      BY <2>1, <2>2
    <3>2. Len(short) + 1 = Len(new)
      BY <2>3
    <3> HIDE DEF base
    <3> QED
      BY <2>4, <2>5, <3>1, <3>2
  <2>9. writerOwn' # "Open"
    BY <1>1
  <2>10. CutShort(starts2, record)'
    BY <1>1, <1>3, <1>9, <2>6, <2>7, <2>8, <2>9 DEF CutShort, more
  <2>11. IsDocument' /\ IsWritten'
    BY <1>1, <1>4, <1>9, <2>3, <2>5, <2>10 DEF IsDocument, IsWritten
  <2> QED
    BY <1>7, <2>11 DEF WritingInv
<1> QED
  BY <1>1, <1>8, <1>9

(* Closing ends the collection, or nothing more is flushed.                *)
LEMMA CloseKeepsInv ==
  ASSUME WritingInv, Writer!Close
  PROVE  WritingInv'
<1> DEFINE end == IF didStartRecordCollection THEN <<EndElement("collection")>> ELSE << >>
           new == document \o end
<1>1. /\ writerOwn # "Closed" /\ hasWriter
      /\ document' = new
      /\ flushed' \in Writer!Flushes(document') \cup {Len(document')}
      /\ isFull => flushed' \in Writer!Flushes(document')
      /\ isFull' = (isFull \/ flushed' < Len(document'))
      /\ writerInner' \in Writer!ClosedStatus(writerInner)
      /\ writerOwn' = writerInner' /\ hasWriter' = FALSE
      /\ didStartRecordCollection' = didStartRecordCollection
      /\ accepted' = accepted
  BY WriterEnd DEF Writer!Close
<1>2. /\ document \in Seq(Parts) /\ flushed \in 0..Len(document) /\ accepted \in Seq(Record)
      /\ Len(document) \in Nat
  BY LenProperties DEF WritingInv, IsDocument
<1>3. writerInner' # "NotOpen" /\ writerOwn' # "NotOpen" /\ writerOwn' # "Open"
  BY <1>1 DEF WritingInv, WriterOpened, Writer!ClosedStatus
<1>4. end \in Seq(Parts)
  BY PlainParts, EmptySeq
<1>5. /\ new \in Seq(Parts) /\ Len(new) = Len(document) + Len(end) /\ Len(end) \in Nat
  <2> HIDE DEF end
  <2> QED
    BY <1>2, <1>4, Beside, LenProperties
<1>6. Len(new) \in Nat /\ Len(new) >= Len(document)
  BY <1>2, <1>5
<1>7. SubSeq(new, 1, flushed) = SubSeq(document, 1, flushed)
  <2> HIDE DEF end
  <2> QED
    BY <1>2, <1>4, SubSeqGrows
<1>8. didStartRecordCollection => new = document \o <<EndElement("collection")>>
  OBVIOUS
<1>9. ~didStartRecordCollection => new = document
  <2>1. document \o << >> = document
    BY <1>2
  <2> QED
    BY <2>1
<1> HIDE DEF end, new
<1>10. flushed' \in 0..Len(document') /\ (isFull => flushed' = flushed)
  BY <1>1, <1>2, <1>6, FlushesWithin
<1>11. WriterOpened' /\ IsDocument'
  BY <1>1, <1>2, <1>3, <1>5, <1>10 DEF WriterOpened, IsDocument
<1>12. CASE ~didStartRecordCollection
  BY <1>1, <1>9, <1>11, <1>12 DEF WritingInv, IsWritten
<1>13. CASE didStartRecordCollection
  <2>1. PICK starts : AllWritten(starts) \/ (\E record : CutShort(starts, record))
    BY <1>1, <1>13 DEF WritingInv, IsWritten, Ended
  <2>2. CASE AllWritten(starts)
    <3>1. Begins(new, starts, accepted) /\ Len(new) = starts[Len(accepted)] + 1
      BY <1>8, <1>13, <2>2, EndBegins DEF AllWritten
    <3>2. Ended(starts)'
      BY <1>1, <1>3, <3>1 DEF Ended
    <3> QED
      BY <1>1, <1>11, <1>13, <3>2 DEF WritingInv, IsWritten
  <2>3. CASE \E record : CutShort(starts, record)
    <3>1. PICK record : CutShort(starts, record)
      BY <2>3
    <3>2. isFull /\ flushed' = flushed /\ isFull'
      BY <1>1, <1>10, <3>1 DEF CutShort
    <3>3. CutShort(starts, record)'
      BY <1>1, <1>3, <1>7, <3>1, <3>2 DEF CutShort
    <3> QED
      BY <1>1, <1>11, <1>13, <3>3 DEF WritingInv, IsWritten
  <2> QED
    BY <2>1, <2>2, <2>3
<1> QED
  BY <1>12, <1>13

(* Whatever the writer does next.                                          *)
LEMMA WriterKeepsInv ==
  ASSUME WritingInv, Writer!Next
  PROVE  WritingInv'
<1>1. CASE Writer!OwnerCloses
  <2>1. /\ writerInner' \in Writer!ClosedStatus(writerInner)
        /\ isFull' = (isFull \/ writerInner' = "Closed")
        /\ document' = document /\ flushed' = flushed /\ writerOwn' = writerOwn
        /\ hasWriter' = hasWriter /\ didStartRecordCollection' = didStartRecordCollection
        /\ accepted' = accepted
    BY <1>1 DEF Writer!OwnerCloses
  <2>2. writerInner # "NotOpen" => writerInner' # "NotOpen"
    BY <2>1 DEF Writer!ClosedStatus
  <2>3. WriterOpened' /\ IsDocument'
    BY <2>1, <2>2 DEF WritingInv, WriterOpened, IsDocument
  <2>4. ASSUME NEW starts, NEW record, CutShort(starts, record) PROVE CutShort(starts, record)'
    BY <2>1, <2>4 DEF CutShort
  <2>5. ASSUME NEW starts
        PROVE  (AllWritten(starts) => AllWritten(starts)') /\ (Ended(starts) => Ended(starts)')
    BY <2>1 DEF AllWritten, Ended
  <2>6. IsWritten'
    BY <2>1, <2>4, <2>5 DEF WritingInv, IsWritten
  <2> QED
    BY <2>3, <2>6 DEF WritingInv
<1>2. CASE Writer!Open
  <2>1. /\ writerOwn = "NotOpen"
        /\ writerInner' \in Writer!OpenedStatus(writerInner, sinkKind = "file")
        /\ writerOwn' = writerInner'
        /\ document' = document /\ flushed' = flushed
        /\ didStartRecordCollection' = didStartRecordCollection /\ accepted' = accepted
    BY <1>2 DEF Writer!Open
  <2>2. writerInner' # "NotOpen"
    BY <2>1 DEF Writer!OpenedStatus
  <2> QED
    BY <2>1, <2>2 DEF WritingInv, WriterOpened, IsDocument, IsWritten
<1>3. CASE \E record \in Records : Writer!WriteRecord(record) \/ Writer!WriteRecordFails(record)
  BY <1>3, WriteKeepsInv, FailedWriteKeepsInv
<1>4. CASE Writer!Close
  BY <1>4, CloseKeepsInv
<1> QED
  BY <1>1, <1>2, <1>3, <1>4 DEF Writer!Next

LEMMA WritingInit ==
  ASSUME Writer!Init
  PROVE  WritingInv
<1>1. << >> \in Seq(Parts) /\ << >> \in Seq(Record) /\ Len(<< >>) = 0
  BY EmptySeq
<1> QED
  BY <1>1 DEF Writer!Init, WritingInv, WriterOpened, IsDocument, IsWritten

-----------------------------------------------------------------------------
(* What is handed over.                                                    *)

(* The nodes that are handed over are the first ones of the document of    *)
(* the records accepted, or of these and one more; it is whole when they   *)
(* are all there.                                                          *)
HandsOver(starts, all, nodes, records, isWhole) ==
  /\ Begins(nodes, starts, all) /\ records \in Seq(Record)
  /\ \/ /\ all = records
        /\ isWhole <=> Len(nodes) = starts[Len(all)] + 1
     \/ /\ \E record \in Record : all = Append(records, record)
        /\ Len(nodes) < starts[Len(all)] /\ ~isWhole

(* When all that was written has been flushed, it is whole if it ends so.  *)
LEMMA WrittenHandsOver ==
  ASSUME WritingInv
  PROVE  \E starts, all : HandsOver(starts, all, Written.nodes, Written.records, Written.isWhole)
<1> DEFINE nodes == SubSeq(document, 1, flushed)
           isWhole == /\ document # << >>
                      /\ flushed = Len(document)
                      /\ Last(document) = EndElement("collection")
<1>1. Written.nodes = nodes /\ Written.records = accepted /\ Written.isWhole = isWhole
  BY DEF Written, Writer!Flushed
<1>2. /\ document \in Seq(Parts) /\ flushed \in 0..Len(document) /\ accepted \in Seq(Record)
      /\ Len(document) \in Nat
  BY LenProperties DEF WritingInv, IsDocument
<1>3. Last(document) = document[Len(document)]
  BY DEF Last
<1>4. nodes \in Seq(Parts) /\ Len(nodes) = flushed /\ \A q \in 1..flushed : nodes[q] = document[q]
  BY <1>2, PartOfSeq
<1>5. isWhole => /\ document # << >> /\ Len(nodes) = Len(document) /\ Len(nodes) # 0
                 /\ nodes[Len(nodes)] = EndElement("collection")
  <2>1. document # << >> => Len(document) # 0
    BY <1>2, EmptySeq
  <2>2. ASSUME isWhole PROVE nodes[Len(nodes)] = EndElement("collection")
    <3>1. Len(nodes) \in 1..flushed /\ Len(nodes) = Len(document)
      BY <1>2, <1>4, <2>1, <2>2
    <3> QED
      BY <1>3, <1>4, <2>2, <3>1
  <2> QED
    BY <1>4, <2>1, <2>2
<1> SUFFICES \E starts, all : HandsOver(starts, all, nodes, accepted, isWhole)
  BY <1>1
<1>6. CASE ~didStartRecordCollection
  <2>1. document = << >> /\ accepted = << >>
    BY <1>6 DEF WritingInv, IsWritten
  <2>2. ~isWhole
    BY <2>1
  <2>3. nodes = << >>
    BY <1>2, <1>4, <2>1, EmptySeq
  <2>4. PICK starts : starts = [i \in 0..0 |-> 1]
    OBVIOUS
  <2>5. Begins(<< >>, starts, << >>) /\ starts[0] = 1 /\ << >> \in Seq(Record)
    BY <2>4, CollectionBegins, EmptySeq
  <2>6. Len(<< >>) = 0
    OBVIOUS
  <2> HIDE DEF nodes, isWhole
  <2>7. HandsOver(starts, << >>, << >>, << >>, isWhole)
    BY <2>2, <2>5, <2>6 DEF HandsOver
  <2> QED
    BY <2>1, <2>3, <2>7
<1>7. CASE didStartRecordCollection
  <2>1. PICK starts : AllWritten(starts) \/ Ended(starts) \/ (\E record : CutShort(starts, record))
    BY <1>7 DEF WritingInv, IsWritten
  <2>2. ASSUME AllWritten(starts) \/ Ended(starts)
        PROVE  HandsOver(starts, accepted, nodes, accepted, isWhole)
    <3>1. Begins(document, starts, accepted)
      BY <2>2 DEF AllWritten, Ended
    <3>2. Begins(nodes, starts, accepted)
      BY <1>2, <3>1, PartBegins
    <3>3. starts[Len(accepted)] \in Nat
      BY <1>2, <3>1, StartsRise DEF Begins
    <3>4. isWhole => Len(nodes) = starts[Len(accepted)] + 1
      <4>1. SUFFICES ASSUME isWhole, Len(nodes) # starts[Len(accepted)] + 1 PROVE FALSE
        OBVIOUS
      <4>2. Len(nodes) \in 1..Len(nodes) /\ Len(nodes) <= starts[Len(accepted)]
        BY <1>2, <1>4, <1>5, <3>2, <3>3, <4>1 DEF Begins
      <4> HIDE DEF nodes, isWhole
      <4> QED
        BY <1>5, <3>2, <4>1, <4>2, NotTheEnd
    <3>5. ASSUME Len(nodes) = starts[Len(accepted)] + 1 PROVE isWhole
      <4>1. Len(document) <= starts[Len(accepted)] + 1
        BY <3>1 DEF Begins
      <4>2. flushed = Len(document) /\ Len(document) = starts[Len(accepted)] + 1
        BY <1>2, <1>4, <3>3, <3>5, <4>1
      <4>3. document[Len(document)] = EndElement("collection")
        BY <3>1, <4>2 DEF Begins
      <4>4. document # << >>
        BY <1>2, <3>3, <4>2, EmptySeq
      <4> QED
        BY <1>3, <4>2, <4>3, <4>4
    <3> HIDE DEF nodes, isWhole
    <3> QED
      BY <1>2, <3>2, <3>4, <3>5 DEF HandsOver
  <2>3. ASSUME NEW record, CutShort(starts, record)
        PROVE  HandsOver(starts, Append(accepted, record), nodes, accepted, isWhole)
    <3> DEFINE all == Append(accepted, record)
    <3>1. /\ record \in Record /\ Begins(nodes, starts, all)
          /\ flushed < starts[Len(accepted) + 1]
      BY <2>3 DEF CutShort
    <3>2. Len(all) = Len(accepted) + 1
      BY <1>2, <3>1, AppendProperties
    <3>3. Len(nodes) < starts[Len(all)]
      BY <1>4, <3>1, <3>2
    <3>4a. all \in Seq(Record) /\ AreStarts(starts, all)
      BY <3>1 DEF Begins
    <3> HIDE DEF all
    <3>4b. Len(all) \in 0..Len(all)
      BY <3>4a, LenProperties
    <3>4. starts[Len(all)] \in Nat
      BY <3>4a, <3>4b, StartsRise
    <3>5. ~isWhole
      <4>1. SUFFICES ASSUME isWhole PROVE FALSE
        OBVIOUS
      <4>2. Len(nodes) \in 1..Len(nodes) /\ Len(nodes) <= starts[Len(all)]
        BY <1>2, <1>4, <1>5, <3>3, <3>4, <4>1
      <4> HIDE DEF nodes, isWhole
      <4> QED
        BY <1>5, <3>1, <4>1, <4>2, NotTheEnd
    <3> HIDE DEF nodes, isWhole
    <3> QED
      BY <1>2, <3>1, <3>3, <3>5 DEF HandsOver, all
  <2> QED
    BY <2>1, <2>2, <2>3
<1> QED
  BY <1>6, <1>7

-----------------------------------------------------------------------------
(* What is read from the document that was handed over.                    *)

(* The nodes that the text reader makes of it.                             *)
Documented(starts, all) ==
  /\ Begins(input.nodes, starts, all) /\ input.records \in Seq(Record)
  /\ \/ /\ all = input.records
        /\ Len(input.nodes) = starts[Len(all)] + 1 => input.isWhole
     \/ /\ \E record \in Record : all = Append(input.records, record)
        /\ Len(input.nodes) < starts[Len(all)] /\ ~input.isWhole
  /\ input.fault = "end" => input.isWhole /\ Len(input.nodes) = starts[Len(all)] + 1
  /\ input.isWhole => input.fault \in {"io", "end"}

(* A reader that has read n records stands behind the last of them, or     *)
(* behind the collection's end.                                            *)
StandsAt(starts, all, n, offset) ==
  /\ n \in 0..Len(input.records) /\ offset \in 1..Len(input.nodes)
  /\ \/ offset = starts[n]
     \/ all = input.records /\ n = Len(all) /\ offset = starts[n] + 1

AllReadable == \A i \in 1..Len(input.records) : IsRecordReadable(input.records[i])

FindsRecord(parsed, starts, n) ==
  /\ n + 1 \in 1..Len(input.records) /\ starts[n + 1] \in 1..Len(input.nodes)
  /\ \E t, c : parsed = State("read", starts[n + 1], input.records[n + 1].leader, t, c,
                              input.records[n + 1].fields)

FindsEnd(parsed, starts, all, n) ==
  /\ all = input.records /\ n = Len(all) /\ input.isWhole
  /\ parsed.expects = "collectionEnd" /\ parsed.at = starts[n] + 1
  /\ parsed.at \in 1..Len(input.nodes)

(* Neither: when all the nodes of readable records are there, the reader   *)
(* has read them all.                                                      *)
FindsNothing(parsed, starts, all, n) ==
  /\ parsed.expects \notin {"read", "collectionEnd"}
  /\ input.isWhole /\ AllReadable =>
       /\ parsed.expects \notin Stopped
       /\ Len(input.nodes) = starts[Len(all)] + 1 => n = Len(input.records)

(* What follows from it.                                                   *)
LEMMA DocumentedParts ==
  ASSUME NEW starts, NEW all, Documented(starts, all)
  PROVE  /\ input.nodes \in Seq(Parts) /\ input.records \in Seq(Record) /\ all \in Seq(Record)
         /\ Len(input.nodes) \in Nat /\ Len(input.records) \in Nat /\ Len(all) \in Nat
         /\ Len(input.records) <= Len(all)
         /\ Len(all) = Len(input.records) \/ Len(all) = Len(input.records) + 1
         /\ \A i \in 1..Len(input.records) : all[i] = input.records[i]
         /\ \A i \in 0..Len(all) : starts[i] \in Nat
         /\ \A i \in 1..Len(all) : starts[i - 1] < starts[i]
         /\ \A i \in 0..Len(all) : starts[i] <= starts[Len(all)] /\ 1 <= starts[i]
         /\ starts[0] = 1
<1>1. /\ input.nodes \in Seq(Parts) /\ all \in Seq(Record) /\ AreStarts(starts, all)
      /\ input.records \in Seq(Record)
  BY DEF Documented, Begins
<1>2. Len(input.nodes) \in Nat /\ Len(all) \in Nat /\ Len(input.records) \in Nat
  BY <1>1, LenProperties
<1>3. /\ Len(all) = Len(input.records) \/ Len(all) = Len(input.records) + 1
      /\ \A i \in 1..Len(input.records) : all[i] = input.records[i]
  <2>1. CASE all = input.records
    BY <2>1
  <2>2. CASE \E record \in Record : all = Append(input.records, record)
    BY <1>1, <1>2, <2>2, AppendProperties
  <2> QED
    BY <2>1, <2>2 DEF Documented
<1>4. starts[0] = 1
  BY <1>1 DEF AreStarts
<1>5. /\ \A i \in 0..Len(all) : starts[i] \in Nat
      /\ \A i \in 1..Len(all) : starts[i - 1] < starts[i]
      /\ \A j \in 0..Len(all) : \A i \in 0..j : starts[i] <= starts[j]
  BY <1>1, StartsRise
<1>6. ASSUME NEW i \in 0..Len(all) PROVE starts[i] <= starts[Len(all)] /\ 1 <= starts[i]
  <2>1. Len(all) \in 0..Len(all) /\ 0 \in 0..i
    BY <1>2
  <2> QED
    BY <1>4, <1>5, <2>1
<1> QED
  BY <1>1, <1>2, <1>3, <1>4, <1>5, <1>6

(* The states of a reader that looks for the next record.                  *)
LEMMA DescentRuns ==
  ASSUME hasReader, input.nodes \in Seq(Parts), NEW offset \in 1..Len(input.nodes)
  PROVE  \E R, l, t, c :
           /\ R[offset] = State("record", offset, l, t, c, << >>)
           /\ Runs(R, input.nodes, offset, Len(input.nodes))
           /\ Reader!Descent("collection", offset) = R[Len(input.nodes)]
<1> DEFINE parser == Reader!Parser(offset)
           nodes == input.nodes
           m == Len(nodes)
<1>1. m \in Nat /\ nodes # << >> /\ offset \in 1..m
  BY LenProperties, EmptySeq
<1>2. \E l, t, c : parser = State("record", offset, l, t, c, << >>)
  BY DEF Reader!Parser, State
<1>3. Reader!Descent("collection", offset) = Reader!Parse(parser, nodes)
  BY DEF Reader!Descent, Reader!Nodes
<1> HIDE DEF parser, nodes, m
<1>4. PICK l, t, c : parser = State("record", offset, l, t, c, << >>)
  BY <1>2
<1>5. parser.at = offset
  BY <1>4, StateParts
<1> DEFINE d == m - offset
<1>6. d \in Nat /\ offset \in Nat /\ offset + d = m
  BY <1>1
<1> HIDE DEF d
<1>7. PICK R : R[offset] = parser /\ Runs(R, nodes, offset, m)
  BY <1>6, RunExists
<1>8. Reader!Parse(parser, nodes) = R[m]
  <2>1. /\ Len(nodes) \in Nat /\ nodes # << >> /\ parser.at \in 0..Len(nodes)
        /\ R[parser.at] = parser /\ Runs(R, nodes, parser.at, Len(nodes)) /\ m = Len(nodes)
    BY <1>1, <1>5, <1>7 DEF m
  <2> QED
    BY <2>1, ReaderParses
<1> QED
  BY <1>3, <1>4, <1>7, <1>8 DEF nodes, m

Finds(parsed, starts, all, n) ==
  \/ FindsRecord(parsed, starts, n)
  \/ FindsEnd(parsed, starts, all, n)
  \/ FindsNothing(parsed, starts, all, n)

LEMMA NoneLeft ==
  ASSUME NEW starts, NEW all, NEW n, NEW parsed, n = Len(input.records),
         parsed.expects = "record"
  PROVE  FindsNothing(parsed, starts, all, n)
BY DEF FindsNothing, Stopped

(* Behind the last record only the end of the collection is found.         *)
LEMMA EndFound ==
  ASSUME NEW starts, NEW all, NEW n, NEW R, NEW l, NEW t, NEW c,
         Documented(starts, all), StandsAt(starts, all, n, starts[n]), n = Len(all),
         R[starts[n]] = State("record", starts[n], l, t, c, << >>),
         Runs(R, input.nodes, starts[n], Len(input.nodes))
  PROVE  Finds(R[Len(input.nodes)], starts, all, n)
<1> DEFINE m == Len(input.nodes)
           a == starts[n]
<1>1. /\ m \in Nat /\ Len(input.records) \in Nat /\ n \in 0..Len(input.records) /\ a \in 1..m
      /\ Len(all) \in Nat /\ (Len(all) = Len(input.records) \/ Len(all) = Len(input.records) + 1)
  BY DocumentedParts DEF StandsAt
<1>2. n = Len(input.records)
  BY <1>1
<1>3. all = input.records
  <2>1. input.records \in Seq(Record) /\ Len(all) # Len(input.records) + 1
    BY <1>1, <1>2 DEF Documented
  <2>2. ~(\E record \in Record : all = Append(input.records, record))
    BY <2>1, AppendProperties
  <2> QED
    BY <2>2 DEF Documented
<1>4. /\ m <= a + 1
      /\ m = a + 1 => input.nodes[a + 1] = EndElement("collection")
      /\ m = a + 1 => input.isWhole
  <2>1. m <= a + 1 /\ (m = a + 1 => input.nodes[a + 1] = EndElement("collection"))
    BY DEF Documented, Begins
  <2>2. m = a + 1 => input.isWhole
    <3>1. CASE all = input.records /\ (Len(input.nodes) = starts[Len(all)] + 1 => input.isWhole)
      BY <3>1
    <3>2. CASE Len(input.nodes) < starts[Len(all)]
      BY <1>1, <3>2
    <3> QED
      BY <3>1, <3>2 DEF Documented
  <2> QED
    BY <2>1, <2>2
<1>5. R[a] = State("record", a, l, t, c, << >>) /\ Runs(R, input.nodes, a, m)
  OBVIOUS
<1> HIDE DEF m, a
<1>6. CASE m = a
  <2>1. R[m].expects = "record"
    BY <1>5, <1>6, StateParts
  <2> QED
    BY <1>2, <2>1, NoneLeft DEF Finds, m
<1>7. CASE m = a + 1
  <2>1. R[a + 1] = TakeNext(R[a], input.nodes[a + 1])
    BY <1>1, <1>5, <1>7, RunsOne
  <2>2. Is(input.nodes[a + 1], "END_ELEMENT", "collection")
    BY <1>4, <1>7, EndElementIs
  <2>3. R[m] = State("collectionEnd", a + 1, l, t, c, << >>)
    BY <1>5, <1>7, <2>1, <2>2, TakesCollectionEnd
  <2>4. R[m].expects = "collectionEnd" /\ R[m].at = a + 1
    BY <2>3, StateParts
  <2>5. a + 1 \in 1..m
    BY <1>1, <1>7
  <2>6. FindsEnd(R[m], starts, all, n)
    BY <1>3, <1>4, <1>7, <2>4, <2>5 DEF FindsEnd, m, a
  <2> QED
    BY <2>6 DEF Finds, m
<1> QED
  BY <1>1, <1>4, <1>6, <1>7

(* Before it the next record is found, or not all of it is there, or it is *)
(* not readable.                                                           *)
LEMMA NextFound ==
  ASSUME NEW starts, NEW all, NEW n, NEW R, NEW l, NEW t, NEW c,
         Documented(starts, all), StandsAt(starts, all, n, starts[n]), n # Len(all),
         R[starts[n]] = State("record", starts[n], l, t, c, << >>),
         Runs(R, input.nodes, starts[n], Len(input.nodes))
  PROVE  Finds(R[Len(input.nodes)], starts, all, n)
<1> DEFINE m == Len(input.nodes)
           a == starts[n]
           k == n + 1
           record == all[k]
           b == starts[k]
           r == Len(input.records)
<1>1. /\ m \in Nat /\ r \in Nat /\ n \in 0..r /\ a \in 1..m
      /\ Len(all) \in Nat /\ (Len(all) = r \/ Len(all) = r + 1)
      /\ \A i \in 1..r : all[i] = input.records[i]
      /\ \A i \in 0..Len(all) : starts[i] \in Nat /\ starts[i] <= starts[Len(all)] /\ 1 <= starts[i]
      /\ all \in Seq(Record)
  BY DocumentedParts DEF StandsAt
<1>2. k \in 1..Len(all) /\ k \in 0..Len(all) /\ k - 1 = n /\ k = n + 1
  BY <1>1
<1>3. /\ AreStarts(starts, all)
      /\ \A i \in 1..Len(all) : StandsTo(input.nodes, m, starts[i - 1], RecordNodes(all[i]))
  BY DEF Documented, Begins
<1> HIDE DEF k
<1>4. /\ record \in Record /\ b = a + Len(RecordNodes(record))
      /\ StandsTo(input.nodes, m, a, RecordNodes(record))
  <2>1. record \in Record
    BY <1>1, <1>2, RecordsHaveNodes
  <2>2. b = a + Len(RecordNodes(record))
    BY <1>2, <1>3 DEF AreStarts
  <2>3. StandsTo(input.nodes, m, a, RecordNodes(record))
    BY <1>2, <1>3
  <2> QED
    BY <2>1, <2>2, <2>3
<1>5. b \in Nat /\ b <= starts[Len(all)] /\ 1 <= b
  BY <1>1, <1>2
<1>6. R[a] = State("record", a, l, t, c, << >>) /\ Runs(R, input.nodes, a, m)
  OBVIOUS
<1>7. /\ input.isWhole => all = input.records
      /\ all # input.records => m < starts[Len(all)]
  BY DEF Documented
<1>8. b <= m => k \in 1..r
  <2>1. CASE all = input.records
    BY <1>2, <2>1
  <2>2. CASE all # input.records
    <3>1. b <= m => k # Len(all)
      BY <1>1, <1>5, <1>7, <2>2
    <3> QED
      BY <1>1, <1>2, <3>1
  <2> QED
    BY <2>1, <2>2
<1>9. k \in 1..r => record = input.records[k]
  BY <1>1
<1> HIDE DEF m, a, b, r, record
<1>10. NextRead(R, a, m, record)
  <2>1. a \in Nat /\ a <= m
    BY <1>1
  <2>2. ReadsNext(R, input.nodes, a, m, record, l, t, c)
    BY <1>1, <1>4, <1>6, <2>1 DEF ReadsNext
  <2> QED
    BY <2>2, NextIsRead
<1>11. CASE b > m
  <2>1. Goes(R[m], IsRecordReadable(record))
    BY <1>4, <1>10, <1>11 DEF NextRead
  <2>2. input.isWhole /\ AllReadable => IsRecordReadable(record)
    <3>1. input.isWhole => k \in 1..r
      BY <1>2, <1>7 DEF r
    <3> QED
      BY <1>9, <3>1 DEF AllReadable, r
  <2>3. m # starts[Len(all)] + 1
    <3>1. Len(all) \in 0..Len(all)
      BY <1>1
    <3>2. starts[Len(all)] \in Nat
      BY <1>1, <3>1
    <3> QED
      BY <1>1, <1>5, <1>11, <3>2
  <2>4. FindsNothing(R[m], starts, all, n)
    BY <2>1, <2>2, <2>3 DEF FindsNothing, Goes, m
  <2> QED
    BY <2>4 DEF Finds, m
<1>12. CASE b <= m
  <2>1. CASE \E t2, c2 : R[m] = State("read", b, record.leader, t2, c2, record.fields)
    <3>1. b \in 1..m
      BY <1>1, <1>5, <1>12
    <3>2. k \in 1..r /\ record = input.records[k]
      BY <1>8, <1>9, <1>12
    <3>3. FindsRecord(R[m], starts, n)
      BY <2>1, <3>1, <3>2 DEF FindsRecord, k, b, r, m
    <3> QED
      BY <3>3 DEF Finds, m
  <2>2. CASE ~IsRecordReadable(record) /\ IsRefused(R[m])
    <3>1. ~AllReadable
      BY <1>8, <1>9, <1>12, <2>2 DEF AllReadable, r
    <3>2. R[m].expects \notin {"read", "collectionEnd"}
      BY <2>2 DEF IsRefused
    <3>3. FindsNothing(R[m], starts, all, n)
      BY <3>1, <3>2 DEF FindsNothing
    <3> QED
      BY <3>3 DEF Finds, m
  <2> QED
    BY <1>4, <1>10, <1>12, <2>1, <2>2 DEF NextRead
<1> QED
  BY <1>1, <1>5, <1>11, <1>12

(* What a read that goes on finds.                                         *)
LEMMA DescentFinds ==
  ASSUME NEW starts, NEW all, NEW n, NEW offset,
         hasReader, Documented(starts, all), StandsAt(starts, all, n, offset)
  PROVE  Finds(Reader!Descent("collection", offset), starts, all, n)
<1> DEFINE m == Len(input.nodes)
           parsed == Reader!Descent("collection", offset)
<1>1. /\ input.nodes \in Seq(Parts) /\ m \in Nat /\ offset \in 1..m
      /\ Len(all) \in Nat /\ Len(input.records) \in Nat /\ n \in 0..Len(input.records)
  BY DocumentedParts DEF StandsAt
<1>2. PICK R, l, t, c :
           /\ R[offset] = State("record", offset, l, t, c, << >>)
           /\ Runs(R, input.nodes, offset, m)
           /\ parsed = R[m]
  BY <1>1, DescentRuns
<1> HIDE DEF m, parsed
<1>3. CASE offset = starts[n]
  BY <1>2, <1>3, EndFound, NextFound DEF m, parsed
<1>4. CASE all = input.records /\ n = Len(all) /\ offset = starts[n] + 1
  <2>1. m <= offset
    BY <1>4 DEF Documented, Begins, m
  <2>2. m = offset
    BY <1>1, <2>1
  <2>3. parsed.expects = "record"
    BY <1>2, <2>2, StateParts
  <2> QED
    BY <1>4, <2>3, NoneLeft DEF Finds, parsed
<1> QED
  BY <1>3, <1>4 DEF StandsAt

-----------------------------------------------------------------------------
(* A reader that has failed returns nothing more.                          *)

(* The reader was opened before it has a text reader or can fail, and the  *)
(* wrapped stream before that.                                             *)
OpenedFirst ==
  /\ readerInner \in Reader!Status
  /\ readerOwn \in Reader!Status
  /\ hasReader \/ failed => readerOwn # "NotOpen"
  /\ readerOwn # "NotOpen" => readerInner # "NotOpen"

(* A reader that has failed and reads again either has no text reader any  *)
(* more or finds the wrapped stream closed or failed.                      *)
FailedIsStopped ==
  failed /\ readerOwn = "Open" /\ hasReader => readerInner \in {"Error", "Closed"}

FInv == OpenedFirst /\ FailedIsStopped

-----------------------------------------------------------------------------

(* Without a text reader no record is found: the node that is current may  *)
(* still begin one, but no other follows.                                  *)
LEMMA NoReaderNoRecord ==
  ASSUME ~hasReader, NEW name, NEW offset
  PROVE  Reader!Descent(name, offset).expects # "read"
<1> DEFINE parser == Reader!Parser(offset)
           first == Reader!Take(parser, input.nodes[offset])
<1>1. Reader!Nodes = << >>
  BY DEF Reader!Nodes
<1>2. Reader!Descent(name, offset) = IF name = "collection" THEN parser ELSE first
  BY <1>1 DEF Reader!Descent, Reader!Parse
<1>3. parser.expects = "record"
  BY DEF Reader!Parser
<1>4. first = Reader!TakeRecord(parser, input.nodes[offset])
  BY <1>3 DEF Reader!Take
<1>5. ASSUME NEW outcome
      PROVE  Reader!Stop(parser, outcome).expects = outcome
  BY DEF Reader!Stop, Reader!Parser
<1> HIDE DEF parser
<1>6. first.expects \in {"leader", "collectionEnd", "malformed"}
  BY <1>4, <1>5 DEF Reader!TakeRecord, Reader!ExpectEnd
<1> QED BY <1>2, <1>3, <1>6

(* The statuses between which the wrapped stream moves.                    *)
LEMMA AdvanceStatus ==
  ASSUME readerInner \in Reader!Status, NEW ranOut \in BOOLEAN,
         readerInner' \in Reader!AfterAdvance(ranOut)
  PROVE  readerInner' \in Reader!Status /\ (readerInner # "NotOpen" => readerInner' # "NotOpen")
BY DEF Reader!AfterAdvance, Reader!Status

LEMMA ReadableStatus ==
  ASSUME Reader!CanRead, readerInner \in Reader!Status
  PROVE  readerOwn = "Open" /\ readerInner \in {"Open", "AtEnd"}
BY DEF Reader!CanRead, Reader!InputStreamNotOpenedError, Reader!StreamErrorOf, Reader!NoError,
       Reader!Status

LEMMA FailsKeepsInv ==
  ASSUME FInv, Reader!CanRead, NEW ranOut \in BOOLEAN, NEW offset, NEW error,
         Reader!Fails(ranOut, offset, error)
  PROVE  FInv'
<1>1. /\ readerInner' \in Reader!AfterAdvance(ranOut) /\ readerOwn' = "Error"
      /\ hasReader' = hasReader
  BY DEF Reader!Fails
<1>2. readerInner \in Reader!Status /\ readerInner # "NotOpen"
  BY ReadableStatus DEF FInv, OpenedFirst
<1>3. readerInner' \in Reader!Status /\ readerInner' # "NotOpen"
  BY <1>1, <1>2, AdvanceStatus
<1> QED BY <1>1, <1>3 DEF FInv, OpenedFirst, FailedIsStopped, Reader!Status

LEMMA ReadKeepsInv ==
  ASSUME FInv, Reader!CanRead, NEW name, NEW offset, Reader!Read(name, offset)
  PROVE  FInv' /\ (failed => delivered' = delivered)
<1> DEFINE parsed == Reader!Descent(name, offset)
           ranOut == parsed.expects \notin Reader!Stopped
           record == IF parsed.expects = "read"
                     THEN [leader |-> parsed.leader, fields |-> parsed.fields]
                     ELSE Reader!NoRecord
<1>1. /\ readerOwn = "Open" /\ readerInner \in {"Open", "AtEnd"}
      /\ readerInner \in Reader!Status /\ readerInner # "NotOpen"
  BY ReadableStatus DEF FInv, OpenedFirst
<1>2. failed => ~hasReader
  BY <1>1 DEF FInv, FailedIsStopped
<1>3. CASE Reader!IsDone(parsed)
  <2>1. /\ readerInner' \in Reader!AfterAdvance(FALSE)
        /\ delivered' = IF record = Reader!NoRecord THEN delivered ELSE Append(delivered, record)
        /\ readerOwn' = readerOwn /\ hasReader' = hasReader /\ failed' = failed
    BY <1>3 DEF Reader!Read
  <2>2. failed => delivered' = delivered
    <3>1. failed => parsed.expects # "read"
      BY <1>2, NoReaderNoRecord
    <3> HIDE DEF parsed
    <3> QED BY <2>1, <3>1
  <2>3. readerInner' \in Reader!Status /\ readerInner' # "NotOpen"
    BY <1>1, <2>1, AdvanceStatus
  <2> QED BY <1>1, <1>2, <2>1, <2>2, <2>3 DEF FInv, OpenedFirst, FailedIsStopped
<1>4. CASE ~Reader!IsDone(parsed)
  <2>1. /\ readerInner' \in Reader!AfterAdvance(ranOut) /\ readerOwn' = "Error"
        /\ hasReader' = hasReader /\ delivered' = delivered
    BY <1>4 DEF Reader!Read
  <2>2. ranOut \in BOOLEAN
    OBVIOUS
  <2> HIDE DEF ranOut
  <2>3. readerInner' \in Reader!Status /\ readerInner' # "NotOpen"
    BY <1>1, <2>1, <2>2, AdvanceStatus
  <2> QED BY <2>1, <2>3 DEF FInv, OpenedFirst, FailedIsStopped, Reader!Status
<1> QED BY <1>3, <1>4

LEMMA ReaderKeepsInv ==
  ASSUME FInv, Reader!Next
  PROVE  FInv' /\ (failed => delivered' = delivered)
<1> USE DEF FInv
<1>1. CASE Reader!OwnerCloses
  BY <1>1 DEF Reader!OwnerCloses, Reader!ClosedStatus, OpenedFirst, FailedIsStopped,
              Reader!Status
<1>2. CASE Reader!Open
  <2>1. readerOwn = "NotOpen" /\ failed' = failed /\ delivered' = delivered
    BY <1>2 DEF Reader!Open
  <2>2. ~failed
    BY <2>1 DEF OpenedFirst
  <2>3. readerInner' \in Reader!Status /\ readerInner' # "NotOpen" /\ readerOwn' = readerInner'
    BY <1>2 DEF Reader!Open, Reader!OpenedStatus, OpenedFirst, Reader!Status
  <2> QED BY <2>1, <2>2, <2>3 DEF OpenedFirst, FailedIsStopped
<1>3. CASE Reader!Close
  <2>1. /\ hasReader /\ hasReader' = FALSE /\ readerOwn' = readerInner
        /\ readerInner' = readerInner /\ failed' = failed /\ delivered' = delivered
    BY <1>3 DEF Reader!Close
  <2> QED BY <2>1 DEF OpenedFirst, FailedIsStopped
<1>4. CASE Reader!ReadUnopened
  BY <1>4 DEF Reader!ReadUnopened, OpenedFirst, FailedIsStopped
<1>5. CASE Reader!ReadUnavailable
  <2>1. /\ readerOwn = "Open" /\ Reader!InputStreamNotOpenedError(readerInner) # Reader!NoError
        /\ UNCHANGED <<readerInner, readerOwn, hasReader, delivered>>
    BY <1>5 DEF Reader!ReadUnavailable
  <2>2. readerInner \in Reader!Status /\ readerInner # "NotOpen"
    BY <2>1 DEF OpenedFirst
  <2>3. readerInner \in {"Error", "Closed"}
    BY <2>1, <2>2 DEF Reader!InputStreamNotOpenedError, Reader!Status
  <2> QED BY <2>1, <2>2, <2>3 DEF OpenedFirst, FailedIsStopped, Reader!Status
<1>6. CASE Reader!ReadsNoRoot
  <2>1. Reader!CanRead /\ Reader!Fails(TRUE, Len(Reader!Nodes), Reader!AdvanceError)
    BY <1>6 DEF Reader!ReadsNoRoot
  <2>2. delivered' = delivered
    BY <2>1 DEF Reader!Fails
  <2> QED BY <2>1, <2>2, FailsKeepsInv
<1>7. CASE Reader!ReadsOtherRoot
  <2>1. Reader!CanRead /\ Reader!Fails(FALSE, Reader!RootAt, Reader!NoError)
    BY <1>7 DEF Reader!ReadsOtherRoot
  <2>2. delivered' = delivered
    BY <2>1 DEF Reader!Fails
  <2> QED BY <2>1, <2>2, FailsKeepsInv
<1>8. CASE Reader!ReadRecord
  <2>1. PICK name, offset : Reader!CanRead /\ Reader!Read(name, offset)
    BY <1>8 DEF Reader!ReadRecord
  <2> QED BY <2>1, ReadKeepsInv
<1> QED BY <1>1, <1>2, <1>3, <1>4, <1>5, <1>6, <1>7, <1>8 DEF Reader!Next

LEMMA StepKeepsInv ==
  ASSUME FInv, [Next]_vars
  PROVE  FInv' /\ (failed => delivered' = delivered)
<1>1. CASE UNCHANGED readerVars
  BY <1>1 DEF readerVars, FInv, OpenedFirst, FailedIsStopped
<1>2. CASE HandOver
  <2>1. UNCHANGED <<readerInner, readerOwn, hasReader, delivered, failed>>
    BY <1>2 DEF HandOver
  <2> QED BY <2>1 DEF FInv, OpenedFirst, FailedIsStopped
<1>3. CASE Reader!Next
  BY <1>3, ReaderKeepsInv
<1> QED BY <1>1, <1>2, <1>3 DEF Next, vars

(* The reader fails only once it was opened, and does not go on.           *)
THEOREM FInvIsInvariant == Spec => []FInv
<1>1. Init => FInv
  BY DEF Init, Reader!Init, FInv, OpenedFirst, FailedIsStopped, Reader!Status
<1>2. FInv /\ [Next]_vars => FInv'
  BY StepKeepsInv
<1> QED BY <1>1, <1>2, PTL DEF Spec

(* Once a read of the open stream has failed, no later one returns a       *)
(* record: not when the stream is closed and takes the wrapped stream's    *)
(* status, and not when the text reader's last node could begin one.       *)
THEOREM FailedReadsNoMore == Spec => FailureIsFinal
<1>1. FInv /\ [Next]_vars => [failed => delivered' = delivered]_vars
  BY StepKeepsInv
<1> QED BY <1>1, FInvIsInvariant, PTL DEF Spec, FailureIsFinal

-----------------------------------------------------------------------------
(* The reader.                                                             *)

Progress(starts, all, n) ==
  /\ n \in 0..Len(input.records) /\ delivered = SubSeq(input.records, 1, n)
  /\ root \in {"none", "collection"}
  /\ ~failed => \/ root = "none" /\ at = 0 /\ n = 0
                \/ root = "collection" /\ StandsAt(starts, all, n, at)

EndIsTheEnd ==
  reply.ok /\ reply.record = Reader!NoRecord => input.isWhole /\ delivered = input.records

WholeIsRead ==
  /\ input.isWhole /\ AllReadable
  /\ failed /\ hasReader /\ reply.error \in {"AtEnd", "MissingData", "Malformed"}
  => delivered = input.records

ReadingInv(starts, all, n) ==
  Documented(starts, all) /\ Progress(starts, all, n) /\ EndIsTheEnd /\ WholeIsRead

SameInput == input' = input

(* The document stays, whatever is read.                                   *)
LEMMA SameDocument ==
  ASSUME SameInput, NEW starts, NEW all, Documented(starts, all)
  PROVE  Documented(starts, all)' /\ (AllReadable' <=> AllReadable)
BY DEF SameInput, Documented, AllReadable

(* What has been delivered, with one record more.                          *)
LEMMA DeliveredParts ==
  ASSUME NEW starts, NEW all, NEW n, Documented(starts, all), Progress(starts, all, n)
  PROVE  /\ n = Len(input.records) => delivered = input.records
         /\ n + 1 \in 1..Len(input.records) =>
              Append(delivered, input.records[n + 1]) = SubSeq(input.records, 1, n + 1)
<1>1. /\ input.records \in Seq(Record) /\ n \in 0..Len(input.records)
      /\ delivered = SubSeq(input.records, 1, n)
  BY DEF Documented, Progress
<1>2. Len(input.records) \in Nat
  BY <1>1, LenProperties
<1> DEFINE k == n + 1
<1>3. k - 1 = n
  BY <1>1, <1>2
<1> HIDE DEF k
<1>4. k \in 1..Len(input.records) =>
        Append(SubSeq(input.records, 1, k - 1), input.records[k]) = SubSeq(input.records, 1, k)
  BY <1>1, PrefixesGrow
<1>5. SubSeq(input.records, 1, Len(input.records)) = input.records
  BY <1>1, PrefixesGrow
<1> QED
  BY <1>1, <1>3, <1>4, <1>5 DEF k

(* The first node is the start of the collection.                          *)
LEMMA RootIsCollection ==
  ASSUME hasReader, NEW starts, NEW all, Documented(starts, all)
  PROVE  \/ input.nodes = << >> /\ Reader!RootAt = 0
         \/ Reader!RootAt = 1 /\ 1 \in 1..Len(input.nodes)
            /\ Reader!RootIs("collection") /\ ~Reader!RootIs("record")
<1> DEFINE nodes == input.nodes
           solid == {i \in DOMAIN nodes : nodes[i].type # Reader!Whitespace.type}
<1>1. /\ nodes \in Seq(Parts) /\ Len(nodes) \in Nat /\ DOMAIN nodes = 1..Len(nodes)
      /\ Len(nodes) >= 1 => nodes[1] = Plain("collection")
  BY DocumentedParts, LenProperties DEF Documented, Begins
<1>2. Reader!RootAt = IF solid = {} THEN 0 ELSE CHOOSE i \in solid : \A j \in solid : i <= j
  BY DEF Reader!RootAt, Reader!Nodes
<1>3. CASE Len(nodes) = 0
  <2>1. nodes = << >> /\ solid = {}
    BY <1>1, <1>3, EmptySeq
  <2> QED
    BY <1>2, <2>1
<1>4. CASE Len(nodes) # 0
  <2>1. 1 \in 1..Len(nodes) /\ nodes[1] = Plain("collection")
    BY <1>1, <1>4
  <2>2. nodes[1].type = "ELEMENT" /\ nodes[1].name = "collection"
    BY <2>1, PlainIs DEF Is
  <2>3. 1 \in solid /\ \A j \in solid : j \in Nat /\ 1 <= j
    BY <1>1, <2>1, <2>2 DEF Reader!Whitespace
  <2> HIDE DEF solid, nodes
  <2>4. Reader!RootAt = 1
    <3>1. \A i \in solid : (\A j \in solid : i <= j) => i = 1
      BY <2>3
    <3> QED
      BY <1>2, <2>3, <3>1
  <2>5. Reader!Nodes[1] = nodes[1]
    BY DEF Reader!Nodes, nodes
  <2>6. Reader!RootIs("collection") /\ ~Reader!RootIs("record")
    BY <2>2, <2>4, <2>5 DEF Reader!RootIs, Reader!Is
  <2> QED
    BY <2>1, <2>4, <2>6 DEF nodes
<1> QED
  BY <1>3, <1>4

(* Without a text reader there is nothing to find.                         *)
LEMMA NoReaderNoDescent ==
  ASSUME ~hasReader, NEW offset
  PROVE  Reader!Descent("collection", offset).expects = "record"
<1>1. Reader!Nodes = << >>
  BY DEF Reader!Nodes
<1>2. Reader!Descent("collection", offset) = Reader!Parser(offset)
  BY <1>1 DEF Reader!Descent, Reader!Parse
<1>3. \E l, t, c : Reader!Parser(offset) = State("record", offset, l, t, c, << >>)
  BY DEF Reader!Parser, State
<1> QED
  BY <1>2, <1>3, StateParts

(* What the reader does with what it has found.                            *)
LEMMA ReadsOn ==
  ASSUME NEW name, NEW offset, NEW parsed, parsed = Reader!Descent(name, offset),
         Reader!Read(name, offset)
  PROVE  /\ input' = input /\ hasReader' = hasReader /\ root' = name
         /\ parsed.expects \in {"read", "collectionEnd"} =>
              at' = parsed.at /\ failed' = failed /\ reply'.ok
         /\ parsed.expects = "read" =>
              /\ reply'.record = [leader |-> parsed.leader, fields |-> parsed.fields]
              /\ reply'.record # Reader!NoRecord => delivered' = Append(delivered, reply'.record)
         /\ parsed.expects = "collectionEnd" => delivered' = delivered
         /\ parsed.expects \notin {"read", "collectionEnd"} =>
              /\ delivered' = delivered /\ failed' /\ ~reply'.ok
              /\ parsed.expects \notin Stopped => reply'.error = Reader!AdvanceError
<1>1. Stopped = Reader!Stopped
  BY DEF Stopped, Reader!Stopped
<1> DEFINE record == IF parsed.expects = "read"
                     THEN [leader |-> parsed.leader, fields |-> parsed.fields]
                     ELSE Reader!NoRecord
<1>2. input' = input /\ hasReader' = hasReader /\ root' = name
  BY DEF Reader!Read
<1>3. CASE parsed.expects \in {"read", "collectionEnd"}
  <2>1. /\ at' = parsed.at /\ failed' = failed
        /\ delivered' = IF record = Reader!NoRecord THEN delivered ELSE Append(delivered, record)
        /\ reply' = [ok |-> TRUE, record |-> record, error |-> Reader!NoError]
    BY <1>3 DEF Reader!Read, Reader!IsDone
  <2>2. parsed.expects = "collectionEnd" => record = Reader!NoRecord
    OBVIOUS
  <2>3. parsed.expects = "read" => record = [leader |-> parsed.leader, fields |-> parsed.fields]
    OBVIOUS
  <2> HIDE DEF record
  <2>4. reply'.ok /\ reply'.record = record
    BY <2>1
  <2> QED
    BY <1>2, <1>3, <2>1, <2>2, <2>3, <2>4
<1>4. CASE parsed.expects \notin {"read", "collectionEnd"}
  <2>1. /\ delivered' = delivered /\ failed'
        /\ parsed.expects \notin Stopped => readerError' = Reader!AdvanceError
        /\ reply' = [ok |-> FALSE, record |-> Reader!NoRecord, error |-> readerError']
    BY <1>1, <1>4 DEF Reader!Read, Reader!IsDone
  <2>2. ~reply'.ok /\ reply'.error = readerError'
    BY <2>1
  <2> QED
    BY <1>2, <1>4, <2>1, <2>2
<1> QED
  BY <1>3, <1>4

(* A read that fails returns nothing, and has an error that says that no   *)
(* more will come only when the wrapped stream has failed or all has come. *)
FailsWell ==
  /\ SameInput /\ delivered' = delivered /\ root' \in {"none", "collection"}
  /\ failed' /\ ~reply'.ok

(* A read that fails.                                                      *)
LEMMA FailureKeeps ==
  ASSUME NEW starts, NEW all, NEW n, ReadingInv(starts, all, n), FailsWell,
         WholeIsRead'
  PROVE  ReadingInv(starts, all, n)'
<1>1. Documented(starts, all)'
  BY SameDocument DEF ReadingInv, FailsWell
<1>2. Progress(starts, all, n)'
  BY DEF ReadingInv, FailsWell, Progress, SameInput
<1>3. EndIsTheEnd'
  BY DEF FailsWell, EndIsTheEnd
<1> QED
  BY <1>1, <1>2, <1>3 DEF ReadingInv

(* A record has a leader and is not mistaken for none.                     *)
LEMMA RecordIsNotNone ==
  ASSUME NEW record \in Record
  PROVE  /\ record = [leader |-> record.leader, fields |-> record.fields]
         /\ record # Reader!NoRecord
<1>1. record = [leader |-> record.leader, fields |-> record.fields]
  BY DEF Record
<1>2. record.leader # Reader!NoRecord.leader
  <2>1. record.leader # ""
    BY DEF Record
  <2>2. Reader!NoRecord.leader = ""
    BY DEF Reader!NoRecord
  <2> QED
    BY <2>1, <2>2
<1> QED
  BY <1>1, <1>2

(* A read below the collection.                                            *)
LEMMA ReadKeeps ==
  ASSUME NEW starts, NEW all, NEW n, NEW offset, ReadingInv(starts, all, n),
         hasReader => ~failed /\ StandsAt(starts, all, n, offset),
         Reader!Read("collection", offset)
  PROVE  \E n2 : ReadingInv(starts, all, n2)'
<1> DEFINE parsed == Reader!Descent("collection", offset)
<1>1. /\ SameInput /\ hasReader' = hasReader /\ root' = "collection"
      /\ parsed.expects \in {"read", "collectionEnd"} =>
           at' = parsed.at /\ failed' = failed /\ reply'.ok
      /\ parsed.expects = "read" =>
           /\ reply'.record = [leader |-> parsed.leader, fields |-> parsed.fields]
           /\ reply'.record # Reader!NoRecord => delivered' = Append(delivered, reply'.record)
      /\ parsed.expects = "collectionEnd" => delivered' = delivered
      /\ parsed.expects \notin {"read", "collectionEnd"} =>
           /\ delivered' = delivered /\ failed' /\ ~reply'.ok
           /\ parsed.expects \notin Stopped => reply'.error = Reader!AdvanceError
  BY ReadsOn DEF SameInput
<1> HIDE DEF parsed
<1>2. /\ Documented(starts, all) /\ Progress(starts, all, n) /\ Documented(starts, all)'
      /\ (AllReadable' <=> AllReadable) /\ input' = input
  BY <1>1, SameDocument DEF ReadingInv, SameInput
<1>3. /\ n = Len(input.records) => delivered = input.records
      /\ n + 1 \in 1..Len(input.records) =>
           Append(delivered, input.records[n + 1]) = SubSeq(input.records, 1, n + 1)
  BY <1>2, DeliveredParts
<1>4. n \in 0..Len(input.records) /\ delivered = SubSeq(input.records, 1, n)
  BY <1>2 DEF Progress
<1>5. CASE ~hasReader
  <2>1. parsed.expects = "record"
    BY <1>5, NoReaderNoDescent DEF parsed
  <2>2. FailsWell
    BY <1>1, <2>1 DEF FailsWell
  <2>3. WholeIsRead'
    BY <1>1, <1>5 DEF WholeIsRead
  <2> QED
    BY <2>2, <2>3, FailureKeeps
<1>6. CASE hasReader
  <2>1. ~failed /\ StandsAt(starts, all, n, offset)
    BY <1>6
  <2>2. Finds(parsed, starts, all, n)
    BY <1>2, <1>6, <2>1, DescentFinds DEF parsed
  <2>3. CASE FindsRecord(parsed, starts, n)
    <3> DEFINE k == n + 1
               record == input.records[k]
    <3>1. PICK t, c : parsed = State("read", starts[k], record.leader, t, c, record.fields)
      BY <2>3 DEF FindsRecord
    <3>2. /\ parsed.expects = "read" /\ parsed.at = starts[k]
          /\ parsed.leader = record.leader /\ parsed.fields = record.fields
      BY <3>1, StateParts
    <3>3. k \in 1..Len(input.records) /\ starts[k] \in 1..Len(input.nodes)
      BY <2>3 DEF FindsRecord
    <3>4. record \in Record
      BY <1>2, <3>3, ElementOfSeq DEF Documented
    <3> HIDE DEF record
    <3>5. reply'.record = record /\ record # Reader!NoRecord
      BY <1>1, <3>2, <3>4, RecordIsNotNone
    <3>6. delivered' = Append(delivered, record) /\ at' = starts[k] /\ ~failed' /\ reply'.ok
      BY <1>1, <2>1, <3>2, <3>5
    <3>7. delivered' = SubSeq(input.records, 1, k)
      BY <1>3, <3>3, <3>6 DEF record
    <3>8. k \in 0..Len(input.records)
      BY <3>3
    <3> HIDE DEF k
    <3>9. Progress(starts, all, k)'
      BY <1>1, <1>2, <3>3, <3>6, <3>7, <3>8 DEF Progress, StandsAt
    <3>10. EndIsTheEnd' /\ WholeIsRead'
      BY <3>5, <3>6 DEF EndIsTheEnd, WholeIsRead
    <3>11. ReadingInv(starts, all, k)'
      BY <1>2, <3>9, <3>10 DEF ReadingInv
    <3> QED
      BY <3>11
  <2>4. CASE FindsEnd(parsed, starts, all, n)
    <3>1. /\ all = input.records /\ n = Len(all) /\ input.isWhole
          /\ parsed.expects = "collectionEnd" /\ parsed.at = starts[n] + 1
          /\ parsed.at \in 1..Len(input.nodes)
      BY <2>4 DEF FindsEnd
    <3>2. delivered' = delivered /\ at' = starts[n] + 1 /\ ~failed' /\ delivered = input.records
      BY <1>1, <1>3, <2>1, <3>1
    <3>3. at' \in 1..Len(input.nodes)
      BY <3>1, <3>2
    <3>4. Progress(starts, all, n)'
      BY <1>1, <1>2, <1>4, <3>1, <3>2, <3>3 DEF Progress, StandsAt
    <3>5. EndIsTheEnd' /\ WholeIsRead'
      BY <1>2, <3>1, <3>2 DEF EndIsTheEnd, WholeIsRead
    <3> QED
      BY <1>2, <3>4, <3>5 DEF ReadingInv
  <2>5. CASE FindsNothing(parsed, starts, all, n)
    <3>1. FailsWell
      BY <1>1, <2>5 DEF FindsNothing, FailsWell
    <3>2. ASSUME input.isWhole, AllReadable, reply'.error \in {"AtEnd", "MissingData", "Malformed"}
          PROVE  delivered' = input.records
      <4>1. /\ parsed.expects \notin Stopped /\ parsed.expects \notin {"read", "collectionEnd"}
            /\ Len(input.nodes) = starts[Len(all)] + 1 => n = Len(input.records)
        BY <2>5, <3>2 DEF FindsNothing
      <4>2. reply'.error = Reader!AdvanceError /\ delivered' = delivered
        BY <1>1, <4>1
      <4>3. input.fault \in {"io", "end"}
        BY <1>2, <3>2 DEF Documented
      <4>4. input.fault = "io" => Reader!AdvanceError = "IO"
        BY <1>6 DEF Reader!AdvanceError
      <4>5. input.fault = "end"
        BY <3>2, <4>2, <4>3, <4>4
      <4>6. n = Len(input.records)
        BY <1>2, <4>1, <4>5 DEF Documented
      <4> QED
        BY <1>3, <4>2, <4>6
    <3>3. WholeIsRead'
      BY <1>2, <3>2 DEF WholeIsRead
    <3> QED
      BY <3>1, <3>3, FailureKeeps
  <2> QED
    BY <2>2, <2>3, <2>4, <2>5 DEF Finds
<1> QED
  BY <1>5, <1>6

(* What is not a read, or a read of a stream that is not open.             *)
LEMMA OthersKeep ==
  ASSUME NEW starts, NEW all, NEW n, ReadingInv(starts, all, n), FInv,
         UNCHANGED <<input, at, root, delivered>>,
         failed => failed',
         \/ reply' = reply /\ failed' = failed /\ (hasReader' => hasReader \/ ~failed)
         \/ ~reply'.ok /\ reply'.error \notin {"AtEnd", "MissingData", "Malformed"}
  PROVE  ReadingInv(starts, all, n)'
<1>1. Documented(starts, all)' /\ (AllReadable' <=> AllReadable)
  BY SameDocument DEF ReadingInv, SameInput
<1>2. Progress(starts, all, n)'
  BY DEF ReadingInv, Progress, StandsAt
<1>3. EndIsTheEnd'
  BY DEF ReadingInv, EndIsTheEnd
<1>4. WholeIsRead'
  BY <1>1 DEF ReadingInv, WholeIsRead
<1> QED
  BY <1>1, <1>2, <1>3, <1>4 DEF ReadingInv

(* The error of a stream that is not open is not one of the reader's own.  *)
LEMMA NotOpenedErrors ==
  ASSUME readerInner \in Reader!Status
  PROVE  Reader!InputStreamNotOpenedError(readerInner) \notin {"AtEnd", "MissingData", "Malformed"}
BY DEF Reader!InputStreamNotOpenedError, Reader!StreamErrorOf, Reader!NoError, Reader!Status

(* A read that finds no root: nothing was handed over, or the reader was   *)
(* closed.                                                                 *)
LEMMA NoRootKeeps ==
  ASSUME NEW starts, NEW all, NEW n, ReadingInv(starts, all, n), root = "none",
         Reader!RootAt = 0, Reader!Fails(TRUE, Len(Reader!Nodes), Reader!AdvanceError)
  PROVE  ReadingInv(starts, all, n)'
<1>1. /\ input' = input /\ root' = root /\ delivered' = delivered /\ hasReader' = hasReader
      /\ failed' = TRUE
      /\ reply' = [ok |-> FALSE, record |-> Reader!NoRecord, error |-> Reader!AdvanceError]
  BY DEF Reader!Fails
<1>2. ~reply'.ok /\ reply'.error = Reader!AdvanceError
  BY <1>1
<1>3. FailsWell
  BY <1>1, <1>2 DEF FailsWell, SameInput
<1>4. ASSUME hasReader, input.isWhole
      PROVE  Reader!AdvanceError = "IO"
  <2>1. Documented(starts, all)
    BY DEF ReadingInv
  <2>2. input.nodes = << >>
    BY <1>4, <2>1, RootIsCollection
  <2>3. Len(input.nodes) = 0
    BY <2>2
  <2>4. starts[Len(all)] \in Nat
    <3>1. Len(all) \in 0..Len(all) /\ \A i \in 0..Len(all) : starts[i] \in Nat
      BY <2>1, DocumentedParts
    <3> QED
      BY <3>1
  <2>5. Len(input.nodes) # starts[Len(all)] + 1
    BY <2>3, <2>4
  <2>6. input.fault = "io"
    BY <1>4, <2>1, <2>5 DEF Documented
  <2> QED
    BY <1>4, <2>6 DEF Reader!AdvanceError
<1>5. WholeIsRead'
  BY <1>1, <1>2, <1>4 DEF WholeIsRead
<1> QED
  BY <1>3, <1>5, FailureKeeps

(* Whatever the reader does next.                                          *)
LEMMA ReaderKeepsReading ==
  ASSUME NEW starts, NEW all, NEW n, ReadingInv(starts, all, n), FInv, Reader!Next
  PROVE  \E n2 : ReadingInv(starts, all, n2)'
<1> USE DEF FInv
<1>0. Documented(starts, all) /\ Progress(starts, all, n)
  BY DEF ReadingInv
<1>1. CASE Reader!OwnerCloses
  BY <1>1, OthersKeep DEF Reader!OwnerCloses
<1>2. CASE Reader!Open
  <2>1. readerOwn = "NotOpen" /\ UNCHANGED <<input, at, root, delivered, failed, reply>>
    BY <1>2 DEF Reader!Open
  <2>2. ~failed
    BY <2>1 DEF OpenedFirst
  <2> QED
    BY <2>1, <2>2, OthersKeep
<1>3. CASE Reader!Close
  <2>1. hasReader' = FALSE /\ UNCHANGED <<input, at, root, delivered, failed, reply>>
    BY <1>3 DEF Reader!Close
  <2> QED
    BY <2>1, OthersKeep
<1>4. CASE Reader!ReadUnopened
  <2> DEFINE error == IF readerOwn = "AtEnd" THEN Reader!NoError
                      ELSE Reader!InputStreamNotOpenedError(readerInner)
  <2>1. /\ reply' = [ok |-> FALSE, record |-> Reader!NoRecord, error |-> error]
        /\ UNCHANGED <<input, at, root, delivered, failed>>
    BY <1>4 DEF Reader!ReadUnopened
  <2>2. error \notin {"AtEnd", "MissingData", "Malformed"}
    BY NotOpenedErrors DEF OpenedFirst, Reader!NoError
  <2> HIDE DEF error
  <2>3. ~reply'.ok /\ reply'.error = error
    BY <2>1
  <2> QED
    BY <2>1, <2>2, <2>3, OthersKeep
<1>5. CASE Reader!ReadUnavailable
  <2> DEFINE error == Reader!InputStreamNotOpenedError(readerInner)
  <2>1. /\ reply' = [ok |-> FALSE, record |-> Reader!NoRecord, error |-> error]
        /\ failed' = TRUE
        /\ UNCHANGED <<input, at, root, delivered>>
    BY <1>5 DEF Reader!ReadUnavailable
  <2>2. error \notin {"AtEnd", "MissingData", "Malformed"}
    BY NotOpenedErrors DEF OpenedFirst
  <2> HIDE DEF error
  <2>3. ~reply'.ok /\ reply'.error = error
    BY <2>1
  <2> QED
    BY <2>1, <2>2, <2>3, OthersKeep
<1>6. CASE Reader!ReadsNoRoot
  BY <1>6, NoRootKeeps DEF Reader!ReadsNoRoot
<1>7. CASE Reader!ReadsOtherRoot
  <2>1. Reader!RootAt # 0 /\ ~Reader!RootIs("collection")
    BY <1>7 DEF Reader!ReadsOtherRoot
  <2>2. ~hasReader
    BY <1>0, <2>1, RootIsCollection
  <2>3. FALSE
    BY <2>1, <2>2 DEF Reader!RootAt, Reader!Nodes
  <2> QED
    BY <2>3
<1>8. CASE Reader!ReadRecord
  <2>1. Reader!CanRead /\ readerInner \in Reader!Status
    BY <1>8 DEF Reader!ReadRecord, OpenedFirst
  <2>2. readerOwn = "Open" /\ readerInner \in {"Open", "AtEnd"}
    BY <2>1, ReadableStatus
  <2>3. hasReader => ~failed
    BY <2>2 DEF FailedIsStopped
  <2>4. CASE root = "none"
    <3>1. PICK name \in {"collection", "record"} :
            Reader!RootIs(name) /\ Reader!Read(name, Reader!RootAt)
      BY <1>8, <2>4 DEF Reader!ReadRecord
    <3>2. Reader!RootAt # 0
      BY <3>1 DEF Reader!RootIs
    <3>3. hasReader
      BY <3>2 DEF Reader!RootAt, Reader!Nodes
    <3>4. /\ Reader!RootAt = 1 /\ 1 \in 1..Len(input.nodes)
          /\ Reader!RootIs("collection") /\ ~Reader!RootIs("record")
      BY <1>0, <3>2, <3>3, RootIsCollection
    <3>5. name = "collection"
      BY <3>1, <3>4
    <3>6. Reader!Read("collection", 1)
      BY <3>1, <3>4, <3>5
    <3>7. n = 0
      BY <1>0, <2>3, <2>4, <3>3 DEF Progress
    <3>8. StandsAt(starts, all, n, 1)
      <4>1. starts[0] = 1 /\ n \in 0..Len(input.records)
        BY <1>0, DocumentedParts DEF Progress
      <4> QED
        BY <3>4, <3>7, <4>1 DEF StandsAt
    <3> QED
      BY <2>3, <3>6, <3>8, ReadKeeps
  <2>5. CASE root # "none"
    <3>1. root = "collection" /\ (hasReader => StandsAt(starts, all, n, at))
      BY <1>0, <2>3, <2>5 DEF Progress
    <3>2. Reader!Read("collection", at)
      BY <1>8, <2>5, <3>1 DEF Reader!ReadRecord
    <3> QED
      BY <2>3, <3>1, <3>2, ReadKeeps
  <2> QED
    BY <2>4, <2>5
<1> QED
  BY <1>1, <1>2, <1>3, <1>4, <1>5, <1>6, <1>7, <1>8 DEF Reader!Next

-----------------------------------------------------------------------------
(* Both.                                                                   *)

(* While the writer has the document the reader has done nothing.          *)
WriterInv == ~isReading =>
  /\ WritingInv /\ at = 0 /\ root = "none" /\ delivered = << >> /\ ~failed /\ ~reply.ok
  /\ ~input.isWritten

ReaderInv == isReading /\ input.isWritten =>
  \E starts, all, n : ReadingInv(starts, all, n)

PipelineInv == FInv /\ WriterInv /\ ReaderInv

(* The text reader's nodes are the first ones of those written.            *)
LEMMA ReadingsAreDocumented ==
  ASSUME NEW starts, NEW all,
         HandsOver(starts, all, Written.nodes, Written.records, Written.isWhole),
         input' \in Readings(Written)
  PROVE  Documented(starts, all)'
<1> DEFINE nodes == Written.nodes
           isWhole == Written.isWhole
           records == Written.records
<1>1. /\ Begins(nodes, starts, all) /\ records \in Seq(Record)
      /\ \/ /\ all = records
            /\ isWhole <=> Len(nodes) = starts[Len(all)] + 1
         \/ /\ \E record \in Record : all = Append(records, record)
            /\ Len(nodes) < starts[Len(all)] /\ ~isWhole
  BY DEF HandsOver
<1>2. Len(nodes) \in Nat /\ starts[Len(all)] \in Nat /\ Len(nodes) <= starts[Len(all)] + 1
  <2>1. nodes \in Seq(Parts) /\ all \in Seq(Record) /\ AreStarts(starts, all)
        /\ Len(nodes) <= starts[Len(all)] + 1
    BY <1>1 DEF Begins
  <2>2. Len(all) \in 0..Len(all)
    BY <2>1, LenProperties
  <2> QED
    BY <2>1, <2>2, StartsRise, LenProperties
<1>3. \/ \E k \in 0..Len(nodes),
            fault \in {"io", "truncated"} \ (IF isWhole THEN {"truncated"} ELSE {}) :
           input' = [nodes |-> SubSeq(nodes, 1, k), fault |-> fault, isWhole |-> isWhole,
                     isWritten |-> Written.isWritten, records |-> records]
      \/ isWhole /\ input' = [nodes |-> nodes, fault |-> "end", isWhole |-> TRUE,
                              isWritten |-> Written.isWritten, records |-> records]
  BY DEF Readings
<1> HIDE DEF nodes, isWhole, records
<1>4. ASSUME NEW k \in 0..Len(nodes),
             NEW fault \in {"io", "truncated"} \ (IF isWhole THEN {"truncated"} ELSE {}),
             input' = [nodes |-> SubSeq(nodes, 1, k), fault |-> fault, isWhole |-> isWhole,
                       isWritten |-> Written.isWritten, records |-> records]
      PROVE  Documented(starts, all)'
  <2>1. /\ input'.nodes = SubSeq(nodes, 1, k) /\ input'.fault = fault
        /\ input'.isWhole = isWhole /\ input'.records = records
    BY <1>4
  <2>2. Begins(input'.nodes, starts, all) /\ Len(input'.nodes) = k
    BY <1>1, <2>1, PartBegins
  <2>3. fault # "end" /\ (isWhole => fault = "io")
    OBVIOUS
  <2>4. CASE all = records /\ (isWhole <=> Len(nodes) = starts[Len(all)] + 1)
    <3>1. k = starts[Len(all)] + 1 => isWhole
      BY <1>2, <2>4
    <3> QED
      BY <1>1, <2>1, <2>2, <2>3, <2>4, <3>1 DEF Documented
  <2>5. CASE /\ \E record \in Record : all = Append(records, record)
             /\ Len(nodes) < starts[Len(all)] /\ ~isWhole
    <3>1. k < starts[Len(all)]
      BY <1>2, <2>5
    <3> QED
      BY <1>1, <2>1, <2>2, <2>3, <2>5, <3>1 DEF Documented
  <2> QED
    BY <1>1, <2>4, <2>5
<1>5. ASSUME isWhole, input' = [nodes |-> nodes, fault |-> "end", isWhole |-> TRUE,
                                isWritten |-> Written.isWritten, records |-> records]
      PROVE  Documented(starts, all)'
  <2>1. /\ input'.nodes = nodes /\ input'.fault = "end" /\ input'.isWhole
        /\ input'.records = records
    BY <1>5
  <2> QED
    BY <1>1, <1>5, <2>1 DEF Documented
<1> QED
  BY <1>3, <1>4, <1>5

(* The step from the writer to the reader.                                 *)
LEMMA HandOverKeepsInv ==
  ASSUME WriterInv, HandOver
  PROVE  WriterInv' /\ ReaderInv'
<1>1. /\ ~isReading /\ isReading'
      /\ \E data \in {Written} \cup Documents : input' \in Readings(data)
      /\ UNCHANGED <<at, root, delivered, failed, reply>>
  BY DEF HandOver
<1>2. /\ WritingInv /\ at = 0 /\ root = "none" /\ delivered = << >> /\ ~failed /\ ~reply.ok
  BY <1>1 DEF WriterInv
<1>3. ASSUME input'.isWritten PROVE ReaderInv'
  <2>1. PICK data \in {Written} \cup Documents : input' \in Readings(data)
    BY <1>1
  <2>2. data.isWritten
    BY <1>3, <2>1 DEF Readings
  <2>3. input' \in Readings(Written)
    BY <2>1, <2>2, DocumentsAssumption
  <2>4. PICK starts, all : HandsOver(starts, all, Written.nodes, Written.records, Written.isWhole)
    BY <1>2, WrittenHandsOver
  <2>5. Documented(starts, all)'
    BY <2>3, <2>4, ReadingsAreDocumented
  <2>6. input'.records \in Seq(Record)
    BY <2>5 DEF Documented
  <2>7. 0 \in 0..Len(input'.records) /\ SubSeq(input'.records, 1, 0) = << >>
    BY <2>6, LenProperties, PrefixesGrow
  <2>8. Progress(starts, all, 0)' /\ EndIsTheEnd' /\ WholeIsRead'
    BY <1>1, <1>2, <2>7 DEF Progress, EndIsTheEnd, WholeIsRead
  <2>9. ReadingInv(starts, all, 0)'
    BY <2>5, <2>8 DEF ReadingInv
  <2> QED
    BY <2>9 DEF ReaderInv
<1> QED
  BY <1>1, <1>3 DEF WriterInv, ReaderInv

LEMMA StepKeepsPipelineInv ==
  ASSUME PipelineInv, [Next]_vars
  PROVE  PipelineInv'
<1>1. FInv'
  BY StepKeepsInv DEF PipelineInv
<1>2. CASE UNCHANGED vars
  <2>1. UNCHANGED <<isReading, sinkKind, document, flushed, isFull, writerInner, writerOwn,
                    writerError, hasWriter, didStartRecordCollection, accepted, refused,
                    input, at, readerInner, readerOwn, readerError, hasReader, root,
                    delivered, failed, reply>>
    BY <1>2 DEF vars, writerVars, readerVars
  <2>2. WriterInv'
    <3>1. WritingInv' <=> WritingInv
      BY <2>1 DEF WritingInv, WriterOpened, IsDocument, IsWritten, AllWritten, Ended, CutShort
    <3> QED
      BY <2>1, <3>1 DEF PipelineInv, WriterInv
  <2>3. ReaderInv'
    <3>1. ASSUME NEW starts, NEW all, NEW n, ReadingInv(starts, all, n)
          PROVE  ReadingInv(starts, all, n)'
      <4>1. Documented(starts, all)' /\ (AllReadable' <=> AllReadable)
        BY <2>1, <3>1, SameDocument DEF ReadingInv, SameInput
      <4>2. Progress(starts, all, n)' /\ EndIsTheEnd' /\ WholeIsRead'
        BY <2>1, <3>1, <4>1 DEF ReadingInv, Progress, StandsAt, EndIsTheEnd, WholeIsRead
      <4> QED
        BY <4>1, <4>2 DEF ReadingInv
    <3> QED
      BY <2>1, <3>1 DEF PipelineInv, ReaderInv
  <2> QED
    BY <1>1, <2>2, <2>3 DEF PipelineInv
<1>3. CASE ~isReading /\ Writer!Next /\ UNCHANGED <<isReading, readerVars>>
  <2>1. WritingInv'
    BY <1>3, WriterKeepsInv DEF PipelineInv, WriterInv
  <2>2. UNCHANGED <<isReading, input, at, root, delivered, failed, reply>>
    BY <1>3 DEF readerVars
  <2>3. WriterInv' /\ ReaderInv'
    BY <1>3, <2>1, <2>2 DEF PipelineInv, WriterInv, ReaderInv
  <2> QED
    BY <1>1, <2>3 DEF PipelineInv
<1>4. CASE HandOver
  BY <1>1, <1>4, HandOverKeepsInv DEF PipelineInv
<1>5. CASE isReading /\ Reader!Next /\ UNCHANGED <<isReading, writerVars>>
  <2>1. WriterInv'
    BY <1>5 DEF WriterInv
  <2>2. SameInput
    BY <1>5 DEF SameInput, Reader!Next, Reader!OwnerCloses, Reader!Open, Reader!Close,
                Reader!ReadUnopened, Reader!ReadUnavailable, Reader!ReadsNoRoot,
                Reader!ReadsOtherRoot, Reader!ReadRecord, Reader!Fails, Reader!Read
  <2>3. ReaderInv'
    <3>1. SUFFICES ASSUME input.isWritten PROVE \E starts, all, n : ReadingInv(starts, all, n)'
      BY <2>2 DEF ReaderInv, SameInput
    <3>2. PICK starts, all, n : ReadingInv(starts, all, n)
      BY <1>5, <3>1 DEF PipelineInv, ReaderInv
    <3>3. \E n2 : ReadingInv(starts, all, n2)'
      BY <1>5, <3>2, ReaderKeepsReading DEF PipelineInv
    <3> QED
      BY <3>3
  <2> QED
    BY <1>1, <2>1, <2>3 DEF PipelineInv
<1> QED
  BY <1>2, <1>3, <1>4, <1>5 DEF Next

(* For all records and every interleaving: whatever the sink does to the   *)
(* writer and the wrapped stream to the reader, what was written is the    *)
(* start of the document of the records accepted, or of these and of one   *)
(* that was refused, and what was read of it are its first records.        *)
THEOREM PipelineInvIsInvariant == Spec => []PipelineInv
<1>1. Init => PipelineInv
  <2>1. SUFFICES ASSUME Init PROVE PipelineInv
    OBVIOUS
  <2>2. FInv
    BY <2>1 DEF Init, Reader!Init, FInv, OpenedFirst, FailedIsStopped, Reader!Status
  <2>3. WritingInv
    BY <2>1, WritingInit DEF Init
  <2>4. at = 0 /\ root = "none" /\ delivered = << >> /\ ~failed /\ ~reply.ok /\ ~isReading
    BY <2>1 DEF Init, Reader!Init
  <2>5. ~input.isWritten
    BY <2>1 DEF Init, Reader!Init, Nothing
  <2> QED
    BY <2>2, <2>3, <2>4, <2>5 DEF PipelineInv, WriterInv, ReaderInv
<1>2. PipelineInv /\ [Next]_vars => PipelineInv'
  BY StepKeepsPipelineInv
<1> QED
  BY <1>1, <1>2, PTL DEF Spec

(* What the invariant says of a document that was written.                 *)
LEMMA WrittenIsRead ==
  ASSUME PipelineInv, input.isWritten
  PROVE  /\ DeliveredIsPrefix
         /\ EndIsTheEnd /\ WholeIsRead
<1>1. PICK starts, all, n : ReadingInv(starts, all, n)
  BY DEF PipelineInv, WriterInv, ReaderInv
<1>2. /\ input.records \in Seq(Record) /\ n \in 0..Len(input.records)
      /\ delivered = SubSeq(input.records, 1, n)
  BY <1>1 DEF ReadingInv, Documented, Progress
<1> DEFINE all2 == input.records
<1>3. all2 \in Seq(Record) /\ n \in 0..Len(all2) /\ Len(all2) \in Nat
  BY <1>2, LenProperties
<1>4. delivered = SubSeq(all2, 1, n)
  BY <1>2
<1> HIDE DEF all2
<1>5. delivered \in Seq(Record) /\ Len(delivered) = n
  BY <1>3, <1>4, PartOfSeq
<1>6. SubSeq(delivered, 1, n) = delivered
  BY <1>5, PrefixesGrow
<1>7. /\ Len(delivered) <= Len(all2)
      /\ SubSeq(delivered, 1, Len(delivered)) = SubSeq(all2, 1, Len(delivered))
  BY <1>3, <1>4, <1>5, <1>6
<1>8. IsPrefix(delivered, all2)
  BY <1>7 DEF IsPrefix
<1> QED
  BY <1>1, <1>8 DEF ReadingInv, DeliveredIsPrefix, all2

(* The records returned from what the writer has flushed, at any moment,   *)
(* are the first ones that writeRecord:error: accepted, in order and none  *)
(* changed, wherever the text reader stops.                                *)
THEOREM WrittenIsReadAsPrefix == Spec => [](input.isWritten => DeliveredIsPrefix)
<1>1. PipelineInv => (input.isWritten => DeliveredIsPrefix)
  BY WrittenIsRead
<1> QED
  BY <1>1, PipelineInvIsInvariant, PTL

(* readRecord:error: says that a document the writer made is at its end    *)
(* only when it was finished and all its records have been returned.       *)
THEOREM WrittenEndIsComplete == Spec => [](input.isWritten => EndIsComplete)
<1>1. PipelineInv => (input.isWritten => EndIsComplete)
  BY WrittenIsRead DEF EndIsTheEnd, EndIsComplete
<1> QED
  BY <1>1, PipelineInvIsInvariant, PTL

(* A record is readable when its fields are.                               *)
LEMMA ReadableAlike ==
  ASSUME NEW record
  PROVE  IsReadable(record) <=> IsRecordReadable(record)
BY DEF IsReadable, IsRecordReadable, IsFieldReadable, IsBlank

(* A finished document of readable records is read back whole, unless the  *)
(* wrapped stream fails or the reader is closed before.                    *)
THEOREM WholeIsReadBack == Spec => []RoundTrip
<1>1. PipelineInv => RoundTrip
  <2>1. SUFFICES ASSUME PipelineInv, input.isWritten, input.isWhole,
                        \A i \in DOMAIN input.records : IsReadable(input.records[i]),
                        failed, hasReader, reply.error \in {"AtEnd", "MissingData", "Malformed"}
                 PROVE  delivered = input.records
    BY DEF RoundTrip
  <2>2. WholeIsRead
    BY <2>1, WrittenIsRead
  <2>3. input.records \in Seq(Record)
    BY <2>1 DEF PipelineInv, WriterInv, ReaderInv, ReadingInv, Documented
  <2>4. AllReadable
    <3>1. DOMAIN input.records = 1..Len(input.records)
      BY <2>3, LenProperties
    <3> QED
      BY <2>1, <3>1, ReadableAlike DEF AllReadable
  <2> QED
    BY <2>1, <2>2, <2>4 DEF WholeIsRead
<1> QED
  BY <1>1, PipelineInvIsInvariant, PTL
=============================================================================
