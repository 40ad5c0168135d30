-------------------------- MODULE CallNumber_proofs --------------------------
(***************************************************************************)
(* What is proved of call numbers.                                         *)
(*                                                                         *)
(* Of the comparison of any two: a part never changes what an earlier one  *)
(* has decided, the shelf order is the same from either side and           *)
(* transitive, an ancestor comes before its descendants, inclusion reads   *)
(* the same from either side and is transitive, and descendants stand      *)
(* together on the shelf.                                                  *)
(*                                                                         *)
(* Of the reading of any string: the parts it leaves are those the         *)
(* comparison knows.                                                       *)
(***************************************************************************)
EXTENDS CallNumberComparison, LCCallNumber, SequenceTheorems, FiniteSetTheorems,
        WellFoundedInduction, TLAPS

-----------------------------------------------------------------------------
(* A decided comparison is final.                                          *)

(* What a part may make of the result it is given.                         *)
Keeps(status, next) ==
  /\ next \in Results
  /\ status \in Decided => next = status
  /\ status = Specifying => next \notin {Same, Generalizing}
  /\ status = Generalizing => next \notin {Same, Specifying}

USE DEF Generalizing, Descending, Same, Ascending, Specifying

LEMMA KeepsIsTransitive ==
  ASSUME NEW s \in Results, NEW t, NEW u, Keeps(s, t), Keeps(t, u)
  PROVE  Keeps(s, u)
BY DEF Keeps, Results, Decided

LEMMA StringBaseType ==
  ASSUME NEW l, NEW r
  PROVE  StringBase(l, r) \in Results
BY DEF StringBase, Results, Ordered

LEMMA StringKeeps ==
  ASSUME NEW s \in Results, NEW l, NEW r, NEW spec \in BOOLEAN
  PROVE  Keeps(s, StringCompare(s, l, r, spec))
BY StringBaseType
   DEF Keeps, StringCompare, AfterSpecialization, Within, Linear, Results, Decided

LEMMA DecimalKeeps ==
  ASSUME NEW s \in Results, NEW l, NEW r, NEW spec \in BOOLEAN
  PROVE  Keeps(s, DecimalCompare(s, l, r, spec))
BY StringBaseType
   DEF Keeps, DecimalCompare, DecimalBase, AfterSpecialization, Within, Linear, Results, Decided

LEMMA SettledKeeps ==
  ASSUME NEW s \in Results, NEW le \in BOOLEAN, NEW re \in BOOLEAN, NEW spec \in BOOLEAN,
         Settles(s, le, re)
  PROVE  Keeps(s, Settled(s, le, re, spec))
BY DEF Keeps, Settles, Settled, Within, Linear, Results, Decided

LEMMA OrderedKeeps ==
  ASSUME NEW s \in Results \ Decided, NEW a, NEW b
  PROVE  Keeps(s, Ordered(a, b))
BY DEF Keeps, Ordered, Results, Decided

LEMMA IntegerKeeps ==
  ASSUME NEW s \in Results, NEW l, NEW r, NEW spec \in BOOLEAN
  PROVE  Keeps(s, IntegerCompare(s, l, r, spec))
<1>1. CASE Settles(s, l = Absent, r = Absent)
  BY <1>1, SettledKeeps DEF IntegerCompare
<1>2. CASE ~Settles(s, l = Absent, r = Absent)
  BY <1>2 DEF IntegerCompare, Settles, Keeps, Ordered, Linear, Results, Decided
<1> QED BY <1>1, <1>2

LEMMA YearKeeps ==
  ASSUME NEW s \in Results, NEW l, NEW r
  PROVE  Keeps(s, YearCompare(s, l, r))
BY DEF YearCompare, Keeps, Ordered, Results, Decided

LEMMA FormKeeps ==
  ASSUME NEW s \in Results \ Decided, NEW l, NEW r, NEW spec \in BOOLEAN
  PROVE  Keeps(s, FormCompare(s, l, r, spec))
BY DEF FormCompare, Keeps, Within, Linear, Results, Decided

LEMMA DayKeeps ==
  ASSUME NEW s \in Results \ Decided, NEW l, NEW r, NEW spec \in BOOLEAN
  PROVE  Keeps(s, DayCompare(s, l, r, spec))
BY DEF DayCompare, Keeps, Ordered, Linear, Results, Decided

LEMMA DateKeeps ==
  ASSUME NEW s \in Results, NEW l, NEW r, NEW spec \in BOOLEAN
  PROVE  Keeps(s, DateCompare(s, l, r, spec))
<1> DEFINE year == YearCompare(s, l.year, r.year)
           form == IF year \in Decided THEN year
                   ELSE IF l.form # r.form THEN FormCompare(year, l, r, spec)
                   ELSE IF l.form = "span" THEN YearCompare(year, l.span, r.span)
                   ELSE IF l.form = "day" THEN DayCompare(year, l, r, spec)
                   ELSE year
<1>1. Keeps(s, year)
  BY YearKeeps
<1>2. year \in Results
  BY <1>1 DEF Keeps
<1>3. Keeps(year, form)
  <2> HIDE DEF year
  <2>1. Keeps(year, year)
    BY <1>2 DEF Keeps, Decided
  <2>2. CASE year \notin Decided
    BY <1>2, <2>1, <2>2, FormKeeps, YearKeeps, DayKeeps
  <2> QED BY <2>1, <2>2
<1>4. Keeps(s, form)
  <2> HIDE DEF year, form
  <2> QED BY <1>1, <1>3, KeepsIsTransitive
<1>5. Keeps(form, StringCompare(form, l.mark, r.mark, spec))
  <2> HIDE DEF form
  <2> QED BY <1>4, StringKeeps DEF Keeps
<1>6. Keeps(s, StringCompare(form, l.mark, r.mark, spec))
  <2> HIDE DEF form
  <2> QED BY <1>4, <1>5, KeepsIsTransitive
<1> QED BY <1>6 DEF DateCompare

(* Two texts one after the other: an ordinal, a volume or a supplement.    *)
LEMMA TwoStringsKeep ==
  ASSUME NEW s \in Results, NEW a, NEW b, NEW c, NEW d, NEW spec \in BOOLEAN
  PROVE  Keeps(s, StringCompare(StringCompare(s, a, b, spec), c, d, spec))
<1> DEFINE t == StringCompare(s, a, b, spec)
<1>1. Keeps(s, t)
  BY StringKeeps
<1> HIDE DEF t
<1>2. Keeps(t, StringCompare(t, c, d, spec))
  BY <1>1, StringKeeps DEF Keeps
<1>3. Keeps(s, StringCompare(t, c, d, spec))
  BY <1>1, <1>2, KeepsIsTransitive
<1> QED BY <1>3 DEF t

LEMMA EtcKeeps ==
  ASSUME NEW s \in Results, NEW l, NEW r,
         NEW same \in {Generalizing, Descending}
  PROVE  Keeps(s, EtcCompare(s, l, r, same))
BY DEF EtcCompare, AfterSpecialization, Keeps, Linear, Results, Decided

LEMMA NumberedKeeps ==
  ASSUME NEW s \in Results, NEW l, NEW r, NEW spec \in BOOLEAN
  PROVE  /\ Keeps(s, VolumeCompare(s, l, r, spec))
         /\ Keeps(s, SupplementCompare(s, l, r, spec))
<1> DEFINE t == NumberedCompare(s, l, r, spec)
<1>1. Keeps(s, t)
  BY TwoStringsKeep DEF NumberedCompare
<1> HIDE DEF t
<1>2. t \in Results
  BY <1>1 DEF Keeps
<1>3. Within(spec, Generalizing) \in {Generalizing, Descending}
  BY DEF Within, Linear
<1>4. /\ Keeps(t, EtcCompare(t, l, r, Within(spec, Generalizing)))
      /\ Keeps(t, EtcCompare(t, l, r, Descending))
  BY <1>2, <1>3, EtcKeeps
<1>5. /\ Keeps(s, EtcCompare(t, l, r, Within(spec, Generalizing)))
      /\ Keeps(s, EtcCompare(t, l, r, Descending))
  BY <1>1, <1>4, KeepsIsTransitive
<1> QED BY <1>5 DEF t, VolumeCompare, SupplementCompare

LEMMA DateordKeeps ==
  ASSUME NEW s \in Results, NEW l, NEW r, NEW spec \in BOOLEAN
  PROVE  Keeps(s, DateordCompare(s, l, r, spec))
<1>1. CASE Settles(s, l.kind = "none", r.kind = "none")
  BY <1>1, SettledKeeps DEF DateordCompare
<1>2. CASE ~Settles(s, l.kind = "none", r.kind = "none")
  <2>1. s \in Results \ Decided
    BY <1>2 DEF Settles
  <2>2. Keeps(s, Ascending) /\ Keeps(s, Descending)
    BY <2>1 DEF Keeps, Results, Decided
  <2> QED BY <1>2, <2>2, DateKeeps, TwoStringsKeep DEF DateordCompare, OrdinalCompare
<1> QED BY <1>1, <1>2

LEMMA CutterKeeps ==
  ASSUME NEW s \in Results, NEW l, NEW r, NEW spec \in BOOLEAN
  PROVE  Keeps(s, CutterCompare(s, l, r, spec))
<1> DEFINE letter == LetterCompare(s, Upper(l.letter), Upper(r.letter))
           digits == DecimalCompare(letter, l.number, r.number, FALSE)
           mark == DecimalCompare(digits, l.mark, r.mark, spec)
<1>1. Keeps(s, letter)
  BY DEF LetterCompare, Keeps, Ordered, Linear, Results, Decided
<1>2. Keeps(letter, digits)
  <2> HIDE DEF letter
  <2> QED BY <1>1, DecimalKeeps DEF Keeps
<1>3. Keeps(digits, mark)
  <2> HIDE DEF digits
  <2> QED BY <1>2, DecimalKeeps DEF Keeps
<1>4. Keeps(s, mark)
  <2> HIDE DEF letter, digits, mark
  <2>1. Keeps(s, digits)
    BY <1>1, <1>2, KeepsIsTransitive
  <2> QED BY <2>1, <1>3, KeepsIsTransitive
<1> QED BY <1>4 DEF CutterCompare

LEMMA CuttsegKeeps ==
  ASSUME NEW s \in Results, NEW l, NEW r, NEW spec \in BOOLEAN
  PROVE  Keeps(s, CuttsegCompare(s, l, r, spec))
<1>1. CASE Settles(s, l.letter = 0, r.letter = 0)
  BY <1>1, SettledKeeps DEF CuttsegCompare
<1>2. CASE ~Settles(s, l.letter = 0, r.letter = 0)
  <2> DEFINE t == CutterCompare(s, l, r, spec)
  <2>1. Keeps(s, t)
    BY CutterKeeps
  <2> HIDE DEF t
  <2>2. Keeps(t, DateordCompare(t, l.dateord, r.dateord, spec))
    BY <2>1, DateordKeeps DEF Keeps
  <2>3. Keeps(s, DateordCompare(t, l.dateord, r.dateord, spec))
    BY <2>1, <2>2, KeepsIsTransitive
  <2> QED BY <1>2, <2>3 DEF CuttsegCompare, t
<1> QED BY <1>1, <1>2

LEMMA SpecificationKeeps ==
  ASSUME NEW s \in Results, NEW l \in Specification, NEW r \in Specification,
         NEW spec \in BOOLEAN
  PROVE  Keeps(s, SpecificationCompare(s, l, r, spec))
<1>1. CASE Settles(s, l.kind = "none", r.kind = "none")
  BY <1>1, SettledKeeps DEF SpecificationCompare
<1>2. CASE ~Settles(s, l.kind = "none", r.kind = "none")
  <2>1. s \in Results \ Decided
    BY <1>2 DEF Settles
  <2>2. l.kind \in {"date", "word", "ordinal", "volume", "supplement"}
    BY <1>2 DEF Settles, Specification, Dateord, Missing, Date, YearDate, SpanDate,
                DayDate, OrdinalNumber, WordText, Numbered
  <2>3. Keeps(s, SameKindCompare(s, l, r, spec))
    BY <2>2, DateKeeps, StringKeeps, TwoStringsKeep, NumberedKeeps
       DEF SameKindCompare, OrdinalCompare
  <2>4. Keeps(s, Ordered(KindRank(l), KindRank(r)))
    BY <2>1, OrderedKeeps
  <2> QED BY <1>2, <2>3, <2>4 DEF SpecificationCompare
<1> QED BY <1>1, <1>2

(* The smaller one of two lengths.                                         *)
LEMMA MinOfTwo ==
  ASSUME NEW a \in Nat, NEW b \in Nat
  PROVE  Min({a, b}) \in Nat /\ Min({a, b}) <= a /\ Min({a, b}) <= b
<1>1. \E x \in {a, b} : \A y \in {a, b} : x <= y
  <2>1. CASE a <= b
    BY <2>1
  <2>2. CASE b <= a
    BY <2>2
  <2> QED BY <2>1, <2>2
<1> QED BY <1>1 DEF Min

LEMMA PartsOfCallNumbers ==
  ASSUME NEW l \in CallNumber, NEW r \in CallNumber,
         NEW k \in Nat \ {0}, k <= Segments(l, r)
  PROVE  /\ k \in 5..7 => l.cutters[k - 4] \in Cuttseg
         /\ k \in 5..7 => r.cutters[k - 4] \in Cuttseg
         /\ k \in 8..9 => l.specifications[k - 7] \in Specification
         /\ k \in 8..9 => r.specifications[k - 7] \in Specification
         /\ k > 9 => l.remainder[k - 9] \in Specification
         /\ k > 9 => r.remainder[k - 9] \in Specification
<1>1. /\ l.cutters \in [1..3 -> Cuttseg]
      /\ r.cutters \in [1..3 -> Cuttseg]
      /\ l.specifications \in [1..2 -> Specification]
      /\ r.specifications \in [1..2 -> Specification]
      /\ l.remainder \in Seq(Specification)
      /\ r.remainder \in Seq(Specification)
  BY DEF CallNumber
<1>2. Len(l.remainder) \in Nat /\ Len(r.remainder) \in Nat
  BY <1>1
<1>3. /\ Min({Len(l.remainder), Len(r.remainder)}) \in Int
      /\ Min({Len(l.remainder), Len(r.remainder)}) <= Len(l.remainder)
      /\ Min({Len(l.remainder), Len(r.remainder)}) <= Len(r.remainder)
  BY <1>2, MinOfTwo
<1>4. k > 9 => k - 9 \in 1..Len(l.remainder) /\ k - 9 \in 1..Len(r.remainder)
  BY <1>2, <1>3 DEF Segments
<1> QED BY <1>1, <1>4

LEMMA SegmentKeeps ==
  ASSUME NEW s \in Results, NEW l \in CallNumber, NEW r \in CallNumber,
         NEW spec \in BOOLEAN, NEW k \in Nat \ {0}, k <= Segments(l, r)
  PROVE  Keeps(s, SegmentCompare(k, s, l, r, spec))
<1>1. CASE k \in 1..4
  BY <1>1, StringKeeps, IntegerKeeps, DecimalKeeps, DateordKeeps DEF SegmentCompare
<1>2. CASE k \in 5..7
  BY <1>2, CuttsegKeeps DEF SegmentCompare
<1>3. CASE k \in 8..9
  BY <1>3, PartsOfCallNumbers, SpecificationKeeps DEF SegmentCompare
<1>4. CASE k > 9
  BY <1>4, PartsOfCallNumbers, SpecificationKeeps DEF SegmentCompare
<1> QED BY <1>1, <1>2, <1>3, <1>4

LEMMA RemainderKeeps ==
  ASSUME NEW s \in Results, NEW l, NEW r, NEW spec \in BOOLEAN
  PROVE  Keeps(s, RemainderCompare(s, l, r, spec))
BY DEF RemainderCompare, Keeps, Within, Linear, Results, Decided

TypeOK ==
  /\ left \in CallNumber
  /\ right \in CallNumber
  /\ specify \in BOOLEAN
  /\ segment \in Nat \ {0}
  /\ result \in Results
  /\ opposite \in Results
  /\ shelf \in Results

(* The variables keep their types: in particular each part is there when   *)
(* it is compared, and every comparison of parts has one of five results.  *)
THEOREM TypeCorrect == Spec => []TypeOK
<1>1. Init => TypeOK
  BY CallNumberAssumption DEF Init, TypeOK, Results
<1>2. TypeOK /\ [Next]_vars => TypeOK'
  <2> SUFFICES ASSUME TypeOK, [Next]_vars PROVE TypeOK'
    OBVIOUS
  <2>1. CASE CompareSegment
    <3>1. Segments(right, left) = Segments(left, right)
      <4>1. {Len(right.remainder), Len(left.remainder)}
              = {Len(left.remainder), Len(right.remainder)}
        OBVIOUS
      <4> QED BY <4>1 DEF Segments
    <3>2. Keeps(result, result') /\ Keeps(opposite, opposite') /\ Keeps(shelf, shelf')
      BY <2>1, <3>1, SegmentKeeps DEF CompareSegment, TypeOK
    <3>3. segment' = segment + 1 /\ UNCHANGED question
      BY <2>1 DEF CompareSegment
    <3> QED BY <3>2, <3>3 DEF TypeOK, Keeps, question
  <2>2. CASE CompareRemainders
    <3>1. Keeps(result, result') /\ Keeps(opposite, opposite') /\ Keeps(shelf, shelf')
      BY <2>2, RemainderKeeps DEF CompareRemainders, TypeOK
    <3>2. segment' = segment + 1 /\ UNCHANGED question
      BY <2>2 DEF CompareRemainders
    <3> QED BY <3>1, <3>2 DEF TypeOK, Keeps, question
  <2>3. CASE UNCHANGED vars
    BY <2>3 DEF TypeOK, vars, question
  <2> QED BY <2>1, <2>2, <2>3 DEF Next
<1> QED BY <1>1, <1>2, PTL DEF Spec

(* Whatever the call numbers, a part that is compared later never changes  *)
(* an order that an earlier part has decided, and never makes a descendant *)
(* an ancestor or the two call numbers the same.                           *)
THEOREM DecisionsAreFinal == Spec => DecisionIsFinal
<1> DEFINE Final == /\ result \in Decided => result' = result
                    /\ result = Specifying => result' \notin {Same, Generalizing}
                    /\ result = Generalizing => result' \notin {Same, Specifying}
<1>1. TypeOK /\ [Next]_vars => [Final]_vars
  <2> SUFFICES ASSUME TypeOK, Next PROVE Final
    BY DEF vars, question
  <2>1. CASE CompareSegment
    BY <2>1, SegmentKeeps DEF CompareSegment, TypeOK, Keeps
  <2>2. CASE CompareRemainders
    BY <2>2, RemainderKeeps DEF CompareRemainders, TypeOK, Keeps
  <2> QED BY <2>1, <2>2 DEF Next
<1> QED BY <1>1, TypeCorrect, PTL DEF Spec, DecisionIsFinal

-----------------------------------------------------------------------------
(* The shelf order is the same from either side.                           *)

(* Two results of one comparison, asked in the two directions.             *)
Mirror(a, b) ==
  \/ a = Same /\ b = Same
  \/ a = Ascending /\ b = Descending
  \/ a = Descending /\ b = Ascending

LEMMA OrderedMirror ==
  ASSUME NEW a \in Int, NEW b \in Int, a # b
  PROVE  Mirror(Ordered(a, b), Ordered(b, a))
BY DEF Mirror, Ordered

LEMMA AtType ==
  ASSUME NEW t \in Text, NEW i \in Nat
  PROVE  At(t, i) \in Int
<1>1. CASE i \in 1..Len(t)
  <2>1. t[i] \in 1..127
    BY <1>1, ElementOfSeq DEF Text
  <2>2. Upper(t[i]) \in Int
    BY <2>1 DEF Upper
  <2> QED BY <1>1, <2>2 DEF At
<1>2. CASE i \notin 1..Len(t)
  BY <1>2 DEF At
<1> QED BY <1>1, <1>2

(* Texts that are not the same have a first difference.                    *)
LEMMA FirstDifference ==
  ASSUME NEW l \in Text, NEW r \in Text, Differences(l, r) # {}
  PROVE  Min(Differences(l, r)) \in Differences(l, r)
<1> DEFINE D == Differences(l, r)
           Less == {ss \in Nat \X Nat : ss[1] < ss[2]}
<1>1. D \subseteq Nat /\ D # {}
  BY DEF Differences, Text
<1>2. IsWellFoundedOn(Less, Nat)
  BY NatLessThanWellFounded DEF OpToRel
<1> HIDE DEF D, Less
<1>3. PICK x \in D : \A y \in D : ~(<<y, x>> \in Less)
  BY <1>1, <1>2, WFMin
<1>4. ASSUME NEW y \in D PROVE x <= y
  <2>1. x \in Nat /\ y \in Nat
    BY <1>1
  <2>2. y < x => <<y, x>> \in Less
    BY <2>1 DEF Less
  <2> QED BY <1>3, <2>1, <2>2
<1>5. Min(D) \in D
  BY <1>4 DEF Min
<1> QED BY <1>5 DEF D

LEMMA LinearMirror ==
  ASSUME NEW a \in Results, NEW b, b = -a
  PROVE  Mirror(Linear(a), Linear(b))
BY DEF Mirror, Linear, Results

LEMMA TextMirror ==
  ASSUME NEW l \in Text, NEW r \in Text
  PROVE  Mirror(Linear(StringBase(l, r)), Linear(StringBase(r, l)))
<1> DEFINE there == StringBase(l, r)
           back == StringBase(r, l)
           i == Min(Differences(l, r))
<1>1. Differences(l, r) = Differences(r, l)
  <2>1. Len(l) + Len(r) = Len(r) + Len(l)
    BY DEF Text
  <2> QED BY <2>1 DEF Differences
<1>2. there \in Results
  BY StringBaseType
<1>3. CASE Differences(l, r) = {}
  <2>1. there = 0 /\ back = 0
    BY <1>1, <1>3 DEF StringBase
  <2> HIDE DEF there, back
  <2>2. Mirror(Linear(there), Linear(back))
    BY <2>1, <1>2, LinearMirror
  <2> QED BY <2>2 DEF there, back
<1>4. CASE Differences(l, r) # {}
  <2>1. i \in Nat /\ At(l, i) # At(r, i)
    <3>1. i \in Differences(l, r)
      BY <1>4, FirstDifference
    <3> HIDE DEF i
    <3>2. i \in 1..(Len(l) + Len(r)) /\ At(l, i) # At(r, i)
      BY <3>1 DEF Differences
    <3> QED BY <3>2
  <2> DEFINE x == At(l, i)
             y == At(r, i)
  <2>2. x \in Int /\ y \in Int
    BY <2>1, AtType
  <2>3. /\ there = IF x = 0 THEN Specifying
                   ELSE IF y = 0 THEN Generalizing ELSE Ordered(x, y)
        /\ back = IF y = 0 THEN Specifying
                  ELSE IF x = 0 THEN Generalizing ELSE Ordered(y, x)
    BY <1>1, <1>4 DEF StringBase
  <2>4. x # y
    BY <2>1
  <2>5. back = -there
    <3> HIDE DEF there, back, x, y
    <3> QED BY <2>2, <2>3, <2>4 DEF Ordered
  <2> HIDE DEF there, back
  <2>6. Mirror(Linear(there), Linear(back))
    BY <2>5, <1>2, LinearMirror
  <2> QED BY <2>6 DEF there, back
<1> QED BY <1>3, <1>4

(* One after the other, the parts of two call numbers on the shelf.        *)

LEMMA StringMirror ==
  ASSUME NEW s, NEW t, Mirror(s, t), NEW l \in Text, NEW r \in Text
  PROVE  Mirror(StringCompare(s, l, r, FALSE), StringCompare(t, r, l, FALSE))
<1>1. CASE s = Same
  <2>1. t = Same
    BY <1>1 DEF Mirror
  <2>2. /\ StringCompare(s, l, r, FALSE) = Linear(StringBase(l, r))
        /\ StringCompare(t, r, l, FALSE) = Linear(StringBase(r, l))
    BY <1>1, <2>1 DEF StringCompare, Within, Decided
  <2> QED BY <2>2, TextMirror
<1>2. CASE s # Same
  <2>1. s \in Decided /\ t \in Decided
    BY <1>2 DEF Mirror, Decided
  <2> QED BY <2>1 DEF StringCompare
<1> QED BY <1>1, <1>2

LEMMA LinearIsIdempotent ==
  ASSUME NEW a \in Results
  PROVE  Linear(Linear(a)) = Linear(a)
BY DEF Linear, Results

LEMMA DecimalMirror ==
  ASSUME NEW s, NEW t, Mirror(s, t), NEW l \in Text, NEW r \in Text
  PROVE  Mirror(DecimalCompare(s, l, r, FALSE), DecimalCompare(t, r, l, FALSE))
<1>1. CASE s = Same
  <2>1. t = Same
    BY <1>1 DEF Mirror
  <2>2. /\ Linear(DecimalBase(l, r)) = Linear(StringBase(l, r))
        /\ Linear(DecimalBase(r, l)) = Linear(StringBase(r, l))
    BY LinearIsIdempotent, StringBaseType DEF DecimalBase
  <2>3. /\ DecimalCompare(s, l, r, FALSE) = Linear(DecimalBase(l, r))
        /\ DecimalCompare(t, r, l, FALSE) = Linear(DecimalBase(r, l))
    BY <1>1, <2>1 DEF DecimalCompare, Within, Decided
  <2> QED BY <2>2, <2>3, TextMirror
<1>2. CASE s # Same
  <2>1. s \in Decided /\ t \in Decided
    BY <1>2 DEF Mirror, Decided
  <2> QED BY <2>1 DEF DecimalCompare
<1> QED BY <1>1, <1>2

LEMMA SettledMirror ==
  ASSUME NEW s, NEW t, Mirror(s, t), NEW le \in BOOLEAN, NEW re \in BOOLEAN,
         Settles(s, le, re)
  PROVE  Mirror(Settled(s, le, re, FALSE), Settled(t, re, le, FALSE)) /\ Settles(t, re, le)
BY DEF Mirror, Settles, Settled, Within, Linear, Decided

LEMMA IntegerMirror ==
  ASSUME NEW s, NEW t, Mirror(s, t), NEW l \in Nat \cup {Absent}, NEW r \in Nat \cup {Absent}
  PROVE  Mirror(IntegerCompare(s, l, r, FALSE), IntegerCompare(t, r, l, FALSE))
<1>1. CASE Settles(s, l = Absent, r = Absent)
  BY <1>1, SettledMirror DEF IntegerCompare
<1>2. CASE ~Settles(s, l = Absent, r = Absent)
  <2>1. s = Same /\ t = Same /\ ~Settles(t, r = Absent, l = Absent)
    BY <1>2 DEF Mirror, Settles, Decided
  <2>2. /\ IntegerCompare(s, l, r, FALSE) = IF l = r THEN Same ELSE Ordered(l, r)
        /\ IntegerCompare(t, r, l, FALSE) = IF l = r THEN Same ELSE Ordered(r, l)
    BY <1>2, <2>1 DEF IntegerCompare
  <2>3. l \in Int /\ r \in Int
    BY DEF Absent
  <2>4. Mirror(IF l = r THEN Same ELSE Ordered(l, r), IF l = r THEN Same ELSE Ordered(r, l))
    BY <2>3 DEF Mirror, Ordered
  <2> QED BY <2>2, <2>4
<1> QED BY <1>1, <1>2

LEMMA YearMirror ==
  ASSUME NEW s, NEW t, Mirror(s, t), NEW l \in Nat, NEW r \in Nat
  PROVE  Mirror(YearCompare(s, l, r), YearCompare(t, r, l))
BY DEF Mirror, YearCompare, Ordered, Decided

LEMMA FormMirror ==
  ASSUME NEW l \in Date, NEW r \in Date, l.form # r.form
  PROVE  Mirror(FormCompare(Same, l, r, FALSE), FormCompare(Same, r, l, FALSE))
<1>1. l.form \in {"span", "year", "day"} /\ r.form \in {"span", "year", "day"}
  BY DEF Date, YearDate, SpanDate, DayDate
<1>2. DateRank(l) \in 1..3 /\ DateRank(r) \in 1..3 /\ DateRank(l) # DateRank(r)
  BY <1>1 DEF DateRank
<1> QED BY <1>2 DEF FormCompare, Mirror, Within, Linear

LEMMA DayMirror ==
  ASSUME NEW l \in DayDate, NEW r \in DayDate
  PROVE  Mirror(DayCompare(Same, l, r, FALSE), DayCompare(Same, r, l, FALSE))
<1>1. l.month \in Int /\ r.month \in Int /\ l.day \in Int /\ r.day \in Int
  BY DEF DayDate
<1> QED BY <1>1 DEF DayCompare, Mirror, Ordered

(* On the shelf the forms of two dates are not looked at before the years  *)
(* are the same.                                                           *)
LEMMA DateMirror ==
  ASSUME NEW s, NEW t, Mirror(s, t), NEW l \in Date, NEW r \in Date
  PROVE  Mirror(DateCompare(s, l, r, FALSE), DateCompare(t, r, l, FALSE))
<1> DEFINE Form(year, a, b) ==
             IF year \in Decided THEN year
             ELSE IF a.form # b.form THEN FormCompare(year, a, b, FALSE)
             ELSE IF a.form = "span" THEN YearCompare(year, a.span, b.span)
             ELSE IF a.form = "day" THEN DayCompare(year, a, b, FALSE)
             ELSE year
           y == YearCompare(s, l.year, r.year)
           z == YearCompare(t, r.year, l.year)
<1>1. /\ l.year \in Nat /\ r.year \in Nat
      /\ l.mark \in Text /\ r.mark \in Text
      /\ l.form = "span" => l.span \in Nat
      /\ r.form = "span" => r.span \in Nat
      /\ l.form = "day" => l \in DayDate
      /\ r.form = "day" => r \in DayDate
  BY DEF Date, YearDate, SpanDate, DayDate
<1>2. Mirror(y, z)
  BY <1>1, YearMirror
<1>3. Mirror(Form(y, l, r), Form(z, r, l))
  <2> HIDE DEF y, z
  <2>1. CASE y \in Decided
    BY <1>2, <2>1 DEF Mirror, Decided
  <2>2. CASE y \notin Decided
    <3>1. y = Same /\ z = Same
      BY <1>2, <2>2 DEF Mirror, Decided
    <3>2. CASE l.form # r.form
      <4>1. /\ Form(y, l, r) = FormCompare(Same, l, r, FALSE)
            /\ Form(z, r, l) = FormCompare(Same, r, l, FALSE)
        <5>1. y \notin Decided /\ z \notin Decided
          BY <3>1 DEF Decided
        <5>2. Form(y, l, r) = FormCompare(y, l, r, FALSE)
          BY <3>2, <5>1
        <5>3. Form(z, r, l) = FormCompare(z, r, l, FALSE)
          BY <3>2, <5>1
        <5> QED BY <3>1, <5>2, <5>3
      <4> QED BY <3>2, <4>1, FormMirror
    <3>3. CASE l.form = "span" /\ r.form = "span"
      BY <1>1, <1>2, <3>1, <3>3, YearMirror DEF Decided
    <3>4. CASE l.form = "day" /\ r.form = "day"
      <4>1. /\ Form(y, l, r) = DayCompare(Same, l, r, FALSE)
            /\ Form(z, r, l) = DayCompare(Same, r, l, FALSE)
        BY <3>1, <3>4 DEF Decided
      <4> QED BY <1>1, <3>4, <4>1, DayMirror
    <3>5. CASE l.form = r.form /\ l.form \notin {"span", "day"}
      BY <1>2, <3>1, <3>5 DEF Decided
    <3> QED BY <3>2, <3>3, <3>4, <3>5
  <2> QED BY <2>1, <2>2
<1>4. /\ DateCompare(s, l, r, FALSE) = StringCompare(Form(y, l, r), l.mark, r.mark, FALSE)
      /\ DateCompare(t, r, l, FALSE) = StringCompare(Form(z, r, l), r.mark, l.mark, FALSE)
  BY DEF DateCompare
<1> HIDE DEF Form, y, z
<1> QED BY <1>1, <1>3, <1>4, StringMirror

LEMMA TwoStringsMirror ==
  ASSUME NEW s, NEW t, Mirror(s, t),
         NEW a \in Text, NEW b \in Text, NEW c \in Text, NEW d \in Text
  PROVE  Mirror(StringCompare(StringCompare(s, a, b, FALSE), c, d, FALSE),
                StringCompare(StringCompare(t, b, a, FALSE), d, c, FALSE))
<1>1. Mirror(StringCompare(s, a, b, FALSE), StringCompare(t, b, a, FALSE))
  BY StringMirror
<1> QED BY <1>1, StringMirror

LEMMA EtcMirror ==
  ASSUME NEW s, NEW t, Mirror(s, t), NEW l \in Numbered, NEW r \in Numbered
  PROVE  Mirror(EtcCompare(s, l, r, Descending), EtcCompare(t, r, l, Descending))
<1>1. l.hasetc \in BOOLEAN /\ r.hasetc \in BOOLEAN
  BY DEF Numbered
<1>2. CASE l.hasetc = r.hasetc \/ s \in Decided
  BY <1>2 DEF EtcCompare, Mirror, Decided
<1>3. CASE l.hasetc # r.hasetc /\ s \notin Decided
  <2>1. s = Same /\ t = Same
    BY <1>3 DEF Mirror, Decided
  <2>2. /\ EtcCompare(s, l, r, Descending) = IF l.hasetc THEN Descending ELSE -Descending
        /\ EtcCompare(t, r, l, Descending) = IF r.hasetc THEN Descending ELSE -Descending
    BY <1>3, <2>1 DEF EtcCompare, Decided
  <2>3. -Descending = Ascending
    <3>1. Descending \in Int /\ -2 < Descending /\ Descending < 0
      OBVIOUS
    <3> HIDE DEF Descending
    <3> QED BY <3>1
  <2>4. CASE l.hasetc /\ ~r.hasetc
    BY <2>2, <2>3, <2>4 DEF Mirror
  <2>5. CASE ~l.hasetc /\ r.hasetc
    BY <2>2, <2>3, <2>5 DEF Mirror
  <2> QED BY <1>1, <1>3, <2>4, <2>5
<1> QED BY <1>2, <1>3

LEMMA NumberedMirror ==
  ASSUME NEW s, NEW t, Mirror(s, t), NEW l \in Numbered, NEW r \in Numbered
  PROVE  /\ Mirror(VolumeCompare(s, l, r, FALSE), VolumeCompare(t, r, l, FALSE))
         /\ Mirror(SupplementCompare(s, l, r, FALSE), SupplementCompare(t, r, l, FALSE))
<1> DEFINE there == NumberedCompare(s, l, r, FALSE)
           back == NumberedCompare(t, r, l, FALSE)
<1>1. l.prefix \in Text /\ r.prefix \in Text /\ l.number \in Text /\ r.number \in Text
  BY DEF Numbered
<1>2. Mirror(there, back)
  BY <1>1, TwoStringsMirror DEF NumberedCompare
<1>3. Within(FALSE, Generalizing) = Descending
  BY DEF Within, Linear
<1> HIDE DEF there, back
<1>4. Mirror(EtcCompare(there, l, r, Descending), EtcCompare(back, r, l, Descending))
  BY <1>2, EtcMirror
<1> QED BY <1>3, <1>4 DEF VolumeCompare, SupplementCompare, there, back

LEMMA OrdinalMirror ==
  ASSUME NEW s, NEW t, Mirror(s, t), NEW l \in OrdinalNumber, NEW r \in OrdinalNumber
  PROVE  Mirror(OrdinalCompare(s, l, r, FALSE), OrdinalCompare(t, r, l, FALSE))
<1>1. l.number \in Text /\ r.number \in Text /\ l.suffix \in Text /\ r.suffix \in Text
  BY DEF OrdinalNumber
<1> QED BY <1>1, TwoStringsMirror DEF OrdinalCompare

LEMMA DateordMirror ==
  ASSUME NEW s, NEW t, Mirror(s, t), NEW l \in Dateord, NEW r \in Dateord
  PROVE  Mirror(DateordCompare(s, l, r, FALSE), DateordCompare(t, r, l, FALSE))
<1> DEFINE le == l.kind = "none"
           re == r.kind = "none"
<1>1. CASE Settles(s, le, re)
  <2>1. Mirror(Settled(s, le, re, FALSE), Settled(t, re, le, FALSE)) /\ Settles(t, re, le)
    BY <1>1, SettledMirror
  <2> QED BY <1>1, <2>1 DEF DateordCompare
<1>2. CASE ~Settles(s, le, re)
  <2>1. ~Settles(t, re, le) /\ ~le /\ ~re
    BY <1>2 DEF Settles, Mirror, Decided
  <2>2. /\ (l \in Date /\ l.kind = "date") \/ (l \in OrdinalNumber /\ l.kind = "ordinal")
        /\ (r \in Date /\ r.kind = "date") \/ (r \in OrdinalNumber /\ r.kind = "ordinal")
    BY <2>1 DEF Dateord, Missing, Date, YearDate, SpanDate, DayDate, OrdinalNumber
  <2>3. CASE l.kind # r.kind
    BY <1>2, <2>1, <2>2, <2>3 DEF DateordCompare, Mirror
  <2>4. CASE l.kind = "date" /\ r.kind = "date"
    BY <1>2, <2>1, <2>2, <2>4, DateMirror DEF DateordCompare
  <2>5. CASE l.kind = "ordinal" /\ r.kind = "ordinal"
    BY <1>2, <2>1, <2>2, <2>5, OrdinalMirror DEF DateordCompare
  <2> QED BY <2>2, <2>3, <2>4, <2>5
<1> QED BY <1>1, <1>2

LEMMA UpperType ==
  ASSUME NEW c \in Int
  PROVE  Upper(c) \in Int
BY DEF Upper

LEMMA CutterMirror ==
  ASSUME NEW s, NEW t, Mirror(s, t), NEW l \in Cuttseg, NEW r \in Cuttseg
  PROVE  Mirror(CutterCompare(s, l, r, FALSE), CutterCompare(t, r, l, FALSE))
<1> DEFINE x == Upper(l.letter)
           y == Upper(r.letter)
           there == LetterCompare(s, x, y)
           back == LetterCompare(t, y, x)
<1>1. /\ l.letter \in Int /\ r.letter \in Int
      /\ l.number \in Text /\ r.number \in Text
      /\ l.mark \in Text /\ r.mark \in Text
  BY DEF Cuttseg
<1>2. x \in Int /\ y \in Int
  BY <1>1, UpperType
<1>3. Mirror(there, back)
  <2> HIDE DEF x, y
  <2> QED BY <1>2 DEF LetterCompare, Mirror, Ordered, Linear
<1>4. /\ CutterCompare(s, l, r, FALSE)
           = DecimalCompare(DecimalCompare(there, l.number, r.number, FALSE), l.mark, r.mark, FALSE)
      /\ CutterCompare(t, r, l, FALSE)
           = DecimalCompare(DecimalCompare(back, r.number, l.number, FALSE), r.mark, l.mark, FALSE)
  BY DEF CutterCompare
<1> HIDE DEF there, back
<1>5. Mirror(DecimalCompare(there, l.number, r.number, FALSE),
             DecimalCompare(back, r.number, l.number, FALSE))
  BY <1>1, <1>3, DecimalMirror
<1> QED BY <1>1, <1>4, <1>5, DecimalMirror

LEMMA CuttsegMirror ==
  ASSUME NEW s, NEW t, Mirror(s, t), NEW l \in Cuttseg, NEW r \in Cuttseg
  PROVE  Mirror(CuttsegCompare(s, l, r, FALSE), CuttsegCompare(t, r, l, FALSE))
<1> DEFINE le == l.letter = 0
           re == r.letter = 0
<1>1. CASE Settles(s, le, re)
  <2>1. Mirror(Settled(s, le, re, FALSE), Settled(t, re, le, FALSE)) /\ Settles(t, re, le)
    BY <1>1, SettledMirror
  <2> QED BY <1>1, <2>1 DEF CuttsegCompare
<1>2. CASE ~Settles(s, le, re)
  <2>1. ~Settles(t, re, le)
    BY <1>2 DEF Settles, Mirror, Decided
  <2>2. l.dateord \in Dateord /\ r.dateord \in Dateord
    BY DEF Cuttseg
  <2>3. Mirror(CutterCompare(s, l, r, FALSE), CutterCompare(t, r, l, FALSE))
    BY CutterMirror
  <2> QED BY <1>2, <2>1, <2>2, <2>3, DateordMirror DEF CuttsegCompare
<1> QED BY <1>1, <1>2

LEMMA SpecificationMirror ==
  ASSUME NEW s, NEW t, Mirror(s, t), NEW l \in Specification, NEW r \in Specification
  PROVE  Mirror(SpecificationCompare(s, l, r, FALSE), SpecificationCompare(t, r, l, FALSE))
<1> DEFINE le == l.kind = "none"
           re == r.kind = "none"
<1>1. CASE Settles(s, le, re)
  <2>1. Mirror(Settled(s, le, re, FALSE), Settled(t, re, le, FALSE)) /\ Settles(t, re, le)
    BY <1>1, SettledMirror
  <2> QED BY <1>1, <2>1 DEF SpecificationCompare
<1>2. CASE ~Settles(s, le, re)
  <2>1. ~Settles(t, re, le) /\ ~le /\ ~re
    BY <1>2 DEF Settles, Mirror, Decided
  <2>2. ASSUME NEW n \in Specification, n.kind # "none"
        PROVE  \/ n \in Date /\ n.kind = "date"
               \/ n \in WordText /\ n.kind = "word"
               \/ n \in OrdinalNumber /\ n.kind = "ordinal"
               \/ n \in Numbered /\ n.kind \in {"volume", "supplement"}
    BY <2>2 DEF Specification, Dateord, Missing, Date, YearDate, SpanDate, DayDate,
                OrdinalNumber, WordText, Numbered
  <2>3. CASE l.kind # r.kind
    <3>1. KindRank(l) \in 1..5 /\ KindRank(r) \in 1..5 /\ KindRank(l) # KindRank(r)
      BY <2>1, <2>2, <2>3 DEF KindRank
    <3>2. Mirror(Ordered(KindRank(l), KindRank(r)), Ordered(KindRank(r), KindRank(l)))
      BY <3>1, OrderedMirror
    <3> QED BY <1>2, <2>1, <2>3, <3>2 DEF SpecificationCompare
  <2>4. CASE l.kind = r.kind
    <3>1. Mirror(SameKindCompare(s, l, r, FALSE), SameKindCompare(t, r, l, FALSE))
      <4>1. CASE l.kind = "date"
        BY <2>1, <2>2, <2>4, <4>1, DateMirror DEF SameKindCompare
      <4>2. CASE l.kind = "word"
        <5>1. l.word \in Text /\ r.word \in Text
          BY <2>1, <2>2, <2>4, <4>2 DEF WordText
        <5> QED BY <2>4, <4>2, <5>1, StringMirror DEF SameKindCompare
      <4>3. CASE l.kind = "ordinal"
        BY <2>1, <2>2, <2>4, <4>3, OrdinalMirror DEF SameKindCompare
      <4>4. CASE l.kind \in {"volume", "supplement"}
        BY <2>1, <2>2, <2>4, <4>4, NumberedMirror DEF SameKindCompare
      <4> QED BY <2>1, <2>2, <4>1, <4>2, <4>3, <4>4
    <3> QED BY <1>2, <2>1, <2>4, <3>1 DEF SpecificationCompare
  <2> QED BY <2>3, <2>4
<1> QED BY <1>1, <1>2

LEMMA SegmentMirror ==
  ASSUME NEW s, NEW t, Mirror(s, t), NEW l \in CallNumber, NEW r \in CallNumber,
         NEW k \in Nat \ {0}, k <= Segments(l, r)
  PROVE  Mirror(SegmentCompare(k, s, l, r, FALSE), SegmentCompare(k, t, r, l, FALSE))
<1>1. /\ l.letters \in Text /\ r.letters \in Text
      /\ l.integer \in Nat \cup {Absent} /\ r.integer \in Nat \cup {Absent}
      /\ l.decimal \in Text /\ r.decimal \in Text
      /\ l.dateord \in Dateord /\ r.dateord \in Dateord
  BY DEF CallNumber
<1>2. CASE k = 1
  <2>1. SegmentCompare(k, s, l, r, FALSE) = StringCompare(s, l.letters, r.letters, FALSE)
    BY <1>2 DEF SegmentCompare
  <2>2. SegmentCompare(k, t, r, l, FALSE) = StringCompare(t, r.letters, l.letters, FALSE)
    BY <1>2 DEF SegmentCompare
  <2> QED BY <1>1, <2>1, <2>2, StringMirror
<1>3. CASE k = 2
  <2>1. SegmentCompare(k, s, l, r, FALSE) = IntegerCompare(s, l.integer, r.integer, FALSE)
    BY <1>3 DEF SegmentCompare
  <2>2. SegmentCompare(k, t, r, l, FALSE) = IntegerCompare(t, r.integer, l.integer, FALSE)
    BY <1>3 DEF SegmentCompare
  <2> QED BY <1>1, <2>1, <2>2, IntegerMirror
<1>4. CASE k = 3
  <2>1. SegmentCompare(k, s, l, r, FALSE) = DecimalCompare(s, l.decimal, r.decimal, FALSE)
    BY <1>4 DEF SegmentCompare
  <2>2. SegmentCompare(k, t, r, l, FALSE) = DecimalCompare(t, r.decimal, l.decimal, FALSE)
    BY <1>4 DEF SegmentCompare
  <2> QED BY <1>1, <2>1, <2>2, DecimalMirror
<1>5. CASE k = 4
  <2>1. SegmentCompare(k, s, l, r, FALSE) = DateordCompare(s, l.dateord, r.dateord, FALSE)
    BY <1>5 DEF SegmentCompare
  <2>2. SegmentCompare(k, t, r, l, FALSE) = DateordCompare(t, r.dateord, l.dateord, FALSE)
    BY <1>5 DEF SegmentCompare
  <2> QED BY <1>1, <2>1, <2>2, DateordMirror
<1>6. CASE k \in 5..7
  <2>1. l.cutters[k - 4] \in Cuttseg /\ r.cutters[k - 4] \in Cuttseg
    BY <1>6, PartsOfCallNumbers
  <2>2. k \notin {1, 2, 3, 4} /\ k \notin 8..9 /\ ~(k > 9)
    BY <1>6
  <2>3. SegmentCompare(k, s, l, r, FALSE) = CuttsegCompare(s, l.cutters[k - 4], r.cutters[k - 4], FALSE)
    BY <1>6, <2>2 DEF SegmentCompare
  <2>4. SegmentCompare(k, t, r, l, FALSE) = CuttsegCompare(t, r.cutters[k - 4], l.cutters[k - 4], FALSE)
    BY <1>6, <2>2 DEF SegmentCompare
  <2> QED BY <2>1, <2>3, <2>4, CuttsegMirror
<1>7. CASE k \in 8..9
  <2>1. l.specifications[k - 7] \in Specification /\ r.specifications[k - 7] \in Specification
    BY <1>7, PartsOfCallNumbers
  <2>2. k \notin {1, 2, 3, 4} /\ k \notin 5..7 /\ ~(k > 9)
    BY <1>7
  <2>3. SegmentCompare(k, s, l, r, FALSE) = SpecificationCompare(s, l.specifications[k - 7], r.specifications[k - 7], FALSE)
    BY <1>7, <2>2 DEF SegmentCompare
  <2>4. SegmentCompare(k, t, r, l, FALSE) = SpecificationCompare(t, r.specifications[k - 7], l.specifications[k - 7], FALSE)
    BY <1>7, <2>2 DEF SegmentCompare
  <2> QED BY <2>1, <2>3, <2>4, SpecificationMirror
<1>8. CASE k > 9
  <2>1. l.remainder[k - 9] \in Specification /\ r.remainder[k - 9] \in Specification
    BY <1>8, PartsOfCallNumbers
  <2>2. k \notin {1, 2, 3, 4} /\ k \notin 5..7 /\ k \notin 8..9
    BY <1>8
  <2>3. SegmentCompare(k, s, l, r, FALSE) = SpecificationCompare(s, l.remainder[k - 9], r.remainder[k - 9], FALSE)
    BY <1>8, <2>2 DEF SegmentCompare
  <2>4. SegmentCompare(k, t, r, l, FALSE) = SpecificationCompare(t, r.remainder[k - 9], l.remainder[k - 9], FALSE)
    BY <1>8, <2>2 DEF SegmentCompare
  <2> QED BY <2>1, <2>3, <2>4, SpecificationMirror
<1>9. k = 1 \/ k = 2 \/ k = 3 \/ k = 4 \/ k \in 5..7 \/ k \in 8..9 \/ k > 9
  OBVIOUS
<1> QED BY <1>2, <1>3, <1>4, <1>5, <1>6, <1>7, <1>8, <1>9

LEMMA RemainderMirror ==
  ASSUME NEW s, NEW t, Mirror(s, t), NEW l \in CallNumber, NEW r \in CallNumber
  PROVE  Mirror(RemainderCompare(s, l, r, FALSE), RemainderCompare(t, r, l, FALSE))
<1> DEFINE m == Len(l.remainder)
           n == Len(r.remainder)
<1>1. m \in Nat /\ n \in Nat
  BY DEF CallNumber
<1>2. CASE s # Same \/ m = n
  <2>1. t # Same \/ m = n
    BY <1>2 DEF Mirror
  <2>2. RemainderCompare(s, l, r, FALSE) = s /\ RemainderCompare(t, r, l, FALSE) = t
    BY <1>2, <2>1 DEF RemainderCompare
  <2> QED BY <2>2
<1>3. CASE s = Same /\ m < n
  <2>1. t = Same /\ ~(n < m) /\ m # n
    BY <1>1, <1>3 DEF Mirror
  <2>2. /\ RemainderCompare(s, l, r, FALSE) = Ascending
        /\ RemainderCompare(t, r, l, FALSE) = Descending
    BY <1>3, <2>1 DEF RemainderCompare, Within, Linear
  <2> QED BY <2>2 DEF Mirror
<1>4. CASE s = Same /\ n < m
  <2>1. t = Same /\ ~(m < n) /\ m # n
    BY <1>1, <1>4 DEF Mirror
  <2>2. /\ RemainderCompare(s, l, r, FALSE) = Descending
        /\ RemainderCompare(t, r, l, FALSE) = Ascending
    BY <1>4, <2>1 DEF RemainderCompare, Within, Linear
  <2> QED BY <2>2 DEF Mirror
<1>5. m = n \/ m < n \/ n < m
  <2> HIDE DEF m, n
  <2> QED BY <1>1
<1> HIDE DEF m, n
<1> QED BY <1>2, <1>3, <1>4, <1>5

OnTheShelf == ~specify => Mirror(result, opposite)

(* compare: gives opposite results when the two call numbers change        *)
(* places, whatever they are, and after every part already: no sort sees   *)
(* two orders of one pair.                                                 *)
THEOREM ShelfOrderFromEitherSide == Spec => []ShelfOrderIsAntisymmetric
<1>1. Init => OnTheShelf
  BY DEF Init, OnTheShelf, Mirror
<1>2. TypeOK /\ OnTheShelf /\ [Next]_vars => OnTheShelf'
  <2> SUFFICES ASSUME TypeOK, OnTheShelf, [Next]_vars, ~specify' PROVE Mirror(result', opposite')
    BY DEF OnTheShelf
  <2>1. CASE CompareSegment
    <3>1. specify = FALSE /\ Mirror(result, opposite)
      BY <2>1 DEF CompareSegment, question, OnTheShelf, TypeOK
    <3>2. Mirror(SegmentCompare(segment, result, left, right, FALSE),
                 SegmentCompare(segment, opposite, right, left, FALSE))
      BY <2>1, <3>1, SegmentMirror DEF CompareSegment, TypeOK
    <3> QED BY <2>1, <3>1, <3>2 DEF CompareSegment
  <2>2. CASE CompareRemainders
    <3>1. specify = FALSE /\ Mirror(result, opposite)
      BY <2>2 DEF CompareRemainders, question, OnTheShelf, TypeOK
    <3>2. Mirror(RemainderCompare(result, left, right, FALSE),
                 RemainderCompare(opposite, right, left, FALSE))
      BY <3>1, RemainderMirror DEF TypeOK
    <3> QED BY <2>2, <3>1, <3>2 DEF CompareRemainders
  <2>3. CASE UNCHANGED vars
    BY <2>3 DEF vars, question, OnTheShelf
  <2> QED BY <2>1, <2>2, <2>3 DEF Next
<1>3. TypeOK /\ OnTheShelf => ShelfOrderIsAntisymmetric
  <2> SUFFICES ASSUME ~specify, Mirror(result, opposite) PROVE opposite = -result
    BY DEF OnTheShelf, ShelfOrderIsAntisymmetric
  <2>1. result \in Int /\ opposite \in Int /\ result + opposite = 0
    BY DEF Mirror
  <2>2. ASSUME NEW a \in Int, NEW b \in Int, a + b = 0
        PROVE  b = -a
    BY <2>2
  <2> QED BY <2>1, <2>2
<1> QED BY <1>1, <1>2, <1>3, TypeCorrect, PTL DEF Spec

-----------------------------------------------------------------------------
(* An ancestor comes before its descendants.                               *)

(* A result of compareWithCallNumber: and one of compare:.                 *)
Agree(a, b) ==
  /\ a \in Results
  /\ b \in {Same, Ascending, Descending}
  /\ a = Same <=> b = Same
  /\ a = Specifying => b = Ascending
  /\ a = Generalizing => b = Descending

(* What a part makes of two results that are not the same any more.        *)
LEMMA KeepsAgree ==
  ASSUME NEW a, NEW b, Agree(a, b), a # Same, NEW c, NEW d, Keeps(a, c), Keeps(b, d)
  PROVE  Agree(c, d)
BY DEF Agree, Keeps, Results, Decided

LEMMA AgreeTypes ==
  ASSUME NEW a, NEW b, Agree(a, b)
  PROVE  a \in Results /\ b \in Results
BY DEF Agree, Results

(* So only what it makes of two equal beginnings has to be looked at.      *)
LEMMA LinearAgrees ==
  ASSUME NEW a \in Results
  PROVE  Agree(a, Linear(a))
BY DEF Agree, Linear, Results

LEMMA StringAgrees ==
  ASSUME NEW a, NEW b, Agree(a, b), NEW l, NEW r
  PROVE  Agree(StringCompare(a, l, r, TRUE), StringCompare(b, l, r, FALSE))
<1>1. CASE a = Same
  <2>1. b = Same
    BY <1>1 DEF Agree
  <2>2. /\ StringCompare(a, l, r, TRUE) = StringBase(l, r)
        /\ StringCompare(b, l, r, FALSE) = Linear(StringBase(l, r))
    BY <1>1, <2>1 DEF StringCompare, Within, Decided
  <2> QED BY <2>2, LinearAgrees, StringBaseType
<1>2. CASE a # Same
  BY <1>2, AgreeTypes, StringKeeps, KeepsAgree
<1> QED BY <1>1, <1>2

LEMMA DecimalAgrees ==
  ASSUME NEW a, NEW b, Agree(a, b), NEW l, NEW r, NEW spec \in BOOLEAN
  PROVE  Agree(DecimalCompare(a, l, r, spec), DecimalCompare(b, l, r, FALSE))
<1>1. CASE a = Same
  <2>1. b = Same
    BY <1>1 DEF Agree
  <2>2. DecimalBase(l, r) \in Results
    BY StringBaseType DEF DecimalBase, Linear, Results
  <2>3. /\ DecimalCompare(a, l, r, spec) = Within(spec, DecimalBase(l, r))
        /\ DecimalCompare(b, l, r, FALSE) = Linear(DecimalBase(l, r))
    BY <1>1, <2>1 DEF DecimalCompare, Within, Decided
  <2> HIDE DEF Generalizing, Descending, Same, Ascending, Specifying
  <2>4. Agree(Within(spec, DecimalBase(l, r)), Linear(DecimalBase(l, r)))
    <3>1. Linear(DecimalBase(l, r)) \in Results
      BY <2>2 DEF Linear, Results
    <3>2. Linear(Linear(DecimalBase(l, r))) = Linear(DecimalBase(l, r))
      BY <2>2, LinearIsIdempotent
    <3> QED BY <2>2, <3>1, <3>2, LinearAgrees DEF Within
  <2> QED BY <2>3, <2>4
<1>2. CASE a # Same
  BY <1>2, AgreeTypes, DecimalKeeps, KeepsAgree
<1> QED BY <1>1, <1>2

LEMMA SettledAgrees ==
  ASSUME NEW le \in BOOLEAN, NEW re \in BOOLEAN, Settles(Same, le, re)
  PROVE  Agree(Settled(Same, le, re, TRUE), Settled(Same, le, re, FALSE))
BY DEF Agree, Settles, Settled, Within, Linear, Results, Decided

LEMMA IntegerAgrees ==
  ASSUME NEW a, NEW b, Agree(a, b), NEW l, NEW r
  PROVE  Agree(IntegerCompare(a, l, r, TRUE), IntegerCompare(b, l, r, FALSE))
<1>1. CASE a = Same
  <2>1. b = Same
    BY <1>1 DEF Agree
  <2>2. CASE Settles(Same, l = Absent, r = Absent)
    BY <1>1, <2>1, <2>2, SettledAgrees DEF IntegerCompare
  <2>3. CASE ~Settles(Same, l = Absent, r = Absent)
    BY <1>1, <2>1, <2>3 DEF IntegerCompare, Agree, Ordered, Results
  <2> QED BY <2>2, <2>3
<1>2. CASE a # Same
  BY <1>2, AgreeTypes, IntegerKeeps, KeepsAgree
<1> QED BY <1>1, <1>2

LEMMA FormAgrees ==
  ASSUME NEW l, NEW r
  PROVE  Agree(FormCompare(Same, l, r, TRUE), FormCompare(Same, l, r, FALSE))
BY DEF FormCompare, Agree, Within, Linear, Results

(* The whole month includes its days and comes before them.                *)
LEMMA DayAgrees ==
  ASSUME NEW l \in DayDate, NEW r \in DayDate
  PROVE  Agree(DayCompare(Same, l, r, TRUE), DayCompare(Same, l, r, FALSE))
<1>1. l.month \in Nat /\ r.month \in Nat /\ l.day \in Nat /\ r.day \in Nat
  BY DEF DayDate
<1> QED BY <1>1 DEF DayCompare, Agree, Ordered, Results

LEMMA DateAgrees ==
  ASSUME NEW a, NEW b, Agree(a, b), NEW l \in Date, NEW r \in Date
  PROVE  Agree(DateCompare(a, l, r, TRUE), DateCompare(b, l, r, FALSE))
<1>1. CASE a = Same
  <2> DEFINE year == YearCompare(Same, l.year, r.year)
             Form(spec) == IF year \in Decided THEN year
                           ELSE IF l.form # r.form THEN FormCompare(year, l, r, spec)
                           ELSE IF l.form = "span" THEN YearCompare(year, l.span, r.span)
                           ELSE IF l.form = "day" THEN DayCompare(year, l, r, spec)
                           ELSE year
  <2>1. b = Same
    BY <1>1 DEF Agree
  <2>2. year = Same \/ year \in Decided
    BY DEF YearCompare, Ordered, Decided
  <2>3. /\ l.form = "day" => l \in DayDate
        /\ r.form = "day" => r \in DayDate
    BY DEF Date, YearDate, SpanDate, DayDate
  <2>4. /\ DateCompare(a, l, r, TRUE) = StringCompare(Form(TRUE), l.mark, r.mark, TRUE)
        /\ DateCompare(b, l, r, FALSE) = StringCompare(Form(FALSE), l.mark, r.mark, FALSE)
    BY <1>1, <2>1 DEF DateCompare
  <2>5. Agree(Form(TRUE), Form(FALSE))
    <3> HIDE DEF year
    <3>1. CASE year \in Decided
      <4>1. Form(TRUE) = year /\ Form(FALSE) = year
        BY <3>1
      <4>2. Agree(year, year)
        BY <3>1 DEF Agree, Results, Decided
      <4> QED BY <4>1, <4>2
    <3>2. CASE year = Same
      <4>1. year \notin Decided
        BY <3>2 DEF Decided
      <4>2. CASE l.form # r.form
        BY <3>2, <4>1, <4>2, FormAgrees
      <4>3. CASE l.form = r.form /\ l.form = "span"
        <5>1. Agree(YearCompare(Same, l.span, r.span), YearCompare(Same, l.span, r.span))
          BY DEF Agree, YearCompare, Ordered, Results, Decided
        <5> QED BY <3>2, <4>1, <4>3, <5>1
      <4>4. CASE l.form = r.form /\ l.form = "day"
        BY <2>3, <3>2, <4>1, <4>4, DayAgrees
      <4>5. CASE l.form = r.form /\ l.form \notin {"span", "day"}
        <5>1. Form(TRUE) = year /\ Form(FALSE) = year
          BY <4>1, <4>5
        <5>2. Agree(year, year)
          BY <3>2 DEF Agree, Results
        <5> QED BY <5>1, <5>2
      <4> QED BY <4>2, <4>3, <4>4, <4>5
    <3> QED BY <2>2, <3>1, <3>2
  <2> HIDE DEF Form
  <2> QED BY <2>4, <2>5, StringAgrees
<1>2. CASE a # Same
  BY <1>2, AgreeTypes, DateKeeps, KeepsAgree
<1> QED BY <1>1, <1>2

LEMMA OrdinalAgrees ==
  ASSUME NEW a, NEW b, Agree(a, b), NEW l, NEW r
  PROVE  Agree(OrdinalCompare(a, l, r, TRUE), OrdinalCompare(b, l, r, FALSE))
<1>1. Agree(StringCompare(a, l.number, r.number, TRUE), StringCompare(b, l.number, r.number, FALSE))
  BY StringAgrees
<1> QED BY <1>1, StringAgrees DEF OrdinalCompare

LEMMA Opposites ==
  ASSUME NEW n \in {Generalizing, Descending}
  PROVE  -n \in {Specifying, Ascending} /\ -Descending = Ascending
<1>1. ASSUME NEW a \in Int, NEW b \in Int, a + b = 0
      PROVE  b = -a
  BY <1>1
<1>2. /\ Descending \in Int /\ Ascending \in Int /\ Descending + Ascending = 0
      /\ Generalizing \in Int /\ Specifying \in Int /\ Generalizing + Specifying = 0
  OBVIOUS
<1> HIDE DEF Generalizing, Descending, Ascending, Specifying
<1>3. Ascending = -Descending /\ Specifying = -Generalizing
  BY <1>1, <1>2
<1> QED BY <1>3

LEMMA NumberedAgree ==
  ASSUME NEW a, NEW b, Agree(a, b), NEW l, NEW r
  PROVE  /\ Agree(VolumeCompare(a, l, r, TRUE), VolumeCompare(b, l, r, FALSE))
         /\ Agree(SupplementCompare(a, l, r, TRUE), SupplementCompare(b, l, r, FALSE))
<1> DEFINE c == NumberedCompare(a, l, r, TRUE)
           d == NumberedCompare(b, l, r, FALSE)
<1>1. Agree(c, d)
  <2>1. Agree(StringCompare(a, l.prefix, r.prefix, TRUE),
              StringCompare(b, l.prefix, r.prefix, FALSE))
    BY StringAgrees
  <2> QED BY <2>1, StringAgrees DEF NumberedCompare
<1>2. Within(TRUE, Generalizing) = Generalizing /\ Within(FALSE, Generalizing) = Descending
  BY DEF Within, Linear
<1> HIDE DEF c, d
<1>3. ASSUME NEW same \in {Generalizing, Descending}
      PROVE  Agree(EtcCompare(c, l, r, same), EtcCompare(d, l, r, Descending))
  <2>1. CASE c = Same
    <3>1. d = Same
      BY <1>1, <2>1 DEF Agree
    <3>2. CASE l.hasetc = r.hasetc
      BY <2>1, <3>1, <3>2 DEF EtcCompare, Agree, Results
    <3>3. CASE l.hasetc # r.hasetc
      <4>1. /\ EtcCompare(c, l, r, same) = IF l.hasetc THEN same ELSE -same
            /\ EtcCompare(d, l, r, Descending) = IF l.hasetc THEN Descending ELSE -Descending
        BY <2>1, <3>1, <3>3 DEF EtcCompare, Decided
      <4>2. -same \in {Specifying, Ascending} /\ -Descending = Ascending
        BY Opposites
      <4>3. Agree(same, Descending) /\ Agree(Specifying, Ascending) /\ Agree(Ascending, Ascending)
        BY DEF Agree, Results
      <4>4. Agree(-same, -Descending)
        BY <4>2, <4>3, Zenon
      <4> QED BY <4>1, <4>3, <4>4
    <3> QED BY <3>2, <3>3
  <2>2. CASE c # Same
    BY <1>1, <2>2, AgreeTypes, EtcKeeps, KeepsAgree
  <2> QED BY <2>1, <2>2
<1> QED BY <1>2, <1>3 DEF VolumeCompare, SupplementCompare, c, d

LEMMA DateordAgrees ==
  ASSUME NEW a, NEW b, Agree(a, b), NEW l \in Dateord, NEW r \in Dateord
  PROVE  Agree(DateordCompare(a, l, r, TRUE), DateordCompare(b, l, r, FALSE))
<1> DEFINE le == l.kind = "none"
           re == r.kind = "none"
<1>1. CASE a = Same
  <2>1. b = Same
    BY <1>1 DEF Agree
  <2>2. CASE Settles(Same, le, re)
    BY <1>1, <2>1, <2>2, SettledAgrees DEF DateordCompare
  <2>3. CASE ~Settles(Same, le, re)
    <3>1. Agree(Ascending, Ascending) /\ Agree(Descending, Descending)
      BY DEF Agree, Results
    <3>2. ~le /\ ~re
      BY <2>3 DEF Settles
    <3>3. l.kind = "date" /\ r.kind = "date" => l \in Date /\ r \in Date
      BY DEF Dateord, Missing, OrdinalNumber
    <3>4. CASE l.kind # r.kind
      BY <1>1, <2>1, <2>3, <3>1, <3>4 DEF DateordCompare
    <3>5. CASE l.kind = r.kind /\ l.kind = "date"
      BY <1>1, <2>1, <2>3, <3>3, <3>5, DateAgrees DEF DateordCompare
    <3>6. CASE l.kind = r.kind /\ l.kind # "date"
      BY <1>1, <2>1, <2>3, <3>6, OrdinalAgrees DEF DateordCompare
    <3> QED BY <3>4, <3>5, <3>6
  <2> QED BY <2>2, <2>3
<1>2. CASE a # Same
  BY <1>2, AgreeTypes, DateordKeeps, KeepsAgree
<1> QED BY <1>1, <1>2

LEMMA CutterAgrees ==
  ASSUME NEW a, NEW b, Agree(a, b), NEW l, NEW r
  PROVE  Agree(CutterCompare(a, l, r, TRUE), CutterCompare(b, l, r, FALSE))
<1> DEFINE x == Upper(l.letter)
           y == Upper(r.letter)
           c == LetterCompare(a, x, y)
           d == LetterCompare(b, x, y)
<1>1. Agree(c, d)
  <2> HIDE DEF x, y
  <2> QED BY DEF LetterCompare, Agree, Ordered, Linear, Results
<1>2. /\ CutterCompare(a, l, r, TRUE)
           = DecimalCompare(DecimalCompare(c, l.number, r.number, FALSE), l.mark, r.mark, TRUE)
      /\ CutterCompare(b, l, r, FALSE)
           = DecimalCompare(DecimalCompare(d, l.number, r.number, FALSE), l.mark, r.mark, FALSE)
  BY DEF CutterCompare
<1> HIDE DEF c, d
<1>3. Agree(DecimalCompare(c, l.number, r.number, FALSE),
            DecimalCompare(d, l.number, r.number, FALSE))
  BY <1>1, DecimalAgrees
<1> QED BY <1>2, <1>3, DecimalAgrees

LEMMA CuttsegAgrees ==
  ASSUME NEW a, NEW b, Agree(a, b), NEW l \in Cuttseg, NEW r \in Cuttseg
  PROVE  Agree(CuttsegCompare(a, l, r, TRUE), CuttsegCompare(b, l, r, FALSE))
<1> DEFINE le == l.letter = 0
           re == r.letter = 0
<1>1. CASE a = Same
  <2>1. b = Same
    BY <1>1 DEF Agree
  <2>2. CASE Settles(Same, le, re)
    BY <1>1, <2>1, <2>2, SettledAgrees DEF CuttsegCompare
  <2>3. CASE ~Settles(Same, le, re)
    <3>1. l.dateord \in Dateord /\ r.dateord \in Dateord
      BY DEF Cuttseg
    <3>2. Agree(CutterCompare(a, l, r, TRUE), CutterCompare(b, l, r, FALSE))
      BY CutterAgrees
    <3> QED BY <1>1, <2>1, <2>3, <3>1, <3>2, DateordAgrees DEF CuttsegCompare
  <2> QED BY <2>2, <2>3
<1>2. CASE a # Same
  BY <1>2, AgreeTypes, CuttsegKeeps, KeepsAgree
<1> QED BY <1>1, <1>2

LEMMA SpecificationAgrees ==
  ASSUME NEW a, NEW b, Agree(a, b), NEW l \in Specification, NEW r \in Specification
  PROVE  Agree(SpecificationCompare(a, l, r, TRUE), SpecificationCompare(b, l, r, FALSE))
<1> DEFINE le == l.kind = "none"
           re == r.kind = "none"
<1>1. CASE a = Same
  <2>1. b = Same
    BY <1>1 DEF Agree
  <2>2. CASE Settles(Same, le, re)
    BY <1>1, <2>1, <2>2, SettledAgrees DEF SpecificationCompare
  <2>3. CASE ~Settles(Same, le, re)
    <3>1. l.kind # "none" /\ r.kind # "none"
      BY <2>3 DEF Settles
    <3>2. l.kind \in {"date", "word", "ordinal", "volume", "supplement"}
      BY <3>1 DEF Specification, Dateord, Missing, Date, YearDate, SpanDate, DayDate,
                  OrdinalNumber, WordText, Numbered
    <3>3. l.kind = "date" /\ r.kind = "date" => l \in Date /\ r \in Date
      BY DEF Specification, Dateord, Missing, OrdinalNumber, WordText, Numbered
    <3>4. CASE l.kind = r.kind
      <4>1. Agree(SameKindCompare(a, l, r, TRUE), SameKindCompare(b, l, r, FALSE))
        <5>1. CASE l.kind = "date"
          BY <3>3, <3>4, <5>1, DateAgrees DEF SameKindCompare
        <5>2. CASE l.kind = "word"
          BY <5>2, StringAgrees DEF SameKindCompare
        <5>3. CASE l.kind = "ordinal"
          BY <5>3, OrdinalAgrees DEF SameKindCompare
        <5>4. CASE l.kind \in {"volume", "supplement"}
          BY <5>4, NumberedAgree DEF SameKindCompare
        <5> QED BY <3>2, <5>1, <5>2, <5>3, <5>4
      <4> QED BY <1>1, <2>1, <2>3, <3>4, <4>1 DEF SpecificationCompare
    <3>5. CASE l.kind # r.kind
      <4>1. Agree(Ordered(KindRank(l), KindRank(r)), Ordered(KindRank(l), KindRank(r)))
        BY DEF Agree, Ordered, Results
      <4> QED BY <1>1, <2>1, <2>3, <3>5, <4>1 DEF SpecificationCompare
    <3> QED BY <3>4, <3>5
  <2> QED BY <2>2, <2>3
<1>2. CASE a # Same
  BY <1>2, AgreeTypes, SpecificationKeeps, KeepsAgree
<1> QED BY <1>1, <1>2

LEMMA SegmentAgrees ==
  ASSUME NEW a, NEW b, Agree(a, b), NEW l \in CallNumber, NEW r \in CallNumber,
         NEW k \in Nat \ {0}, k <= Segments(l, r)
  PROVE  Agree(SegmentCompare(k, a, l, r, TRUE), SegmentCompare(k, b, l, r, FALSE))
<1>1. l.dateord \in Dateord /\ r.dateord \in Dateord
  BY DEF CallNumber
<1>2. CASE k = 1
  <2>1. /\ SegmentCompare(k, a, l, r, TRUE) = StringCompare(a, l.letters, r.letters, TRUE)
        /\ SegmentCompare(k, b, l, r, FALSE) = StringCompare(b, l.letters, r.letters, FALSE)
    BY <1>2 DEF SegmentCompare
  <2> QED BY <2>1, StringAgrees
<1>3. CASE k = 2
  <2>1. /\ SegmentCompare(k, a, l, r, TRUE) = IntegerCompare(a, l.integer, r.integer, TRUE)
        /\ SegmentCompare(k, b, l, r, FALSE) = IntegerCompare(b, l.integer, r.integer, FALSE)
    BY <1>3 DEF SegmentCompare
  <2> QED BY <2>1, IntegerAgrees
<1>4. CASE k = 3
  <2>1. /\ SegmentCompare(k, a, l, r, TRUE) = DecimalCompare(a, l.decimal, r.decimal, TRUE)
        /\ SegmentCompare(k, b, l, r, FALSE) = DecimalCompare(b, l.decimal, r.decimal, FALSE)
    BY <1>4 DEF SegmentCompare
  <2> QED BY <2>1, DecimalAgrees
<1>5. CASE k = 4
  <2>1. /\ SegmentCompare(k, a, l, r, TRUE) = DateordCompare(a, l.dateord, r.dateord, TRUE)
        /\ SegmentCompare(k, b, l, r, FALSE) = DateordCompare(b, l.dateord, r.dateord, FALSE)
    BY <1>5 DEF SegmentCompare
  <2> QED BY <2>1, <1>1, DateordAgrees
<1>6. CASE k \in 5..7
  <2>1. l.cutters[k - 4] \in Cuttseg /\ r.cutters[k - 4] \in Cuttseg
    BY <1>6, PartsOfCallNumbers
  <2>2. k \notin {1, 2, 3, 4} /\ k \notin 8..9 /\ ~(k > 9)
    BY <1>6
  <2>3. /\ SegmentCompare(k, a, l, r, TRUE)
             = CuttsegCompare(a, l.cutters[k - 4], r.cutters[k - 4], TRUE)
        /\ SegmentCompare(k, b, l, r, FALSE)
             = CuttsegCompare(b, l.cutters[k - 4], r.cutters[k - 4], FALSE)
    BY <1>6, <2>2 DEF SegmentCompare
  <2> QED BY <2>1, <2>3, CuttsegAgrees
<1>7. CASE k \in 8..9
  <2>1. l.specifications[k - 7] \in Specification /\ r.specifications[k - 7] \in Specification
    BY <1>7, PartsOfCallNumbers
  <2>2. k \notin {1, 2, 3, 4} /\ k \notin 5..7 /\ ~(k > 9)
    BY <1>7
  <2>3. /\ SegmentCompare(k, a, l, r, TRUE)
             = SpecificationCompare(a, l.specifications[k - 7], r.specifications[k - 7], TRUE)
        /\ SegmentCompare(k, b, l, r, FALSE)
             = SpecificationCompare(b, l.specifications[k - 7], r.specifications[k - 7], FALSE)
    BY <1>7, <2>2 DEF SegmentCompare
  <2> QED BY <2>1, <2>3, SpecificationAgrees
<1>8. CASE k > 9
  <2>1. l.remainder[k - 9] \in Specification /\ r.remainder[k - 9] \in Specification
    BY <1>8, PartsOfCallNumbers
  <2>2. k \notin {1, 2, 3, 4} /\ k \notin 5..7 /\ k \notin 8..9
    BY <1>8
  <2>3. /\ SegmentCompare(k, a, l, r, TRUE)
             = SpecificationCompare(a, l.remainder[k - 9], r.remainder[k - 9], TRUE)
        /\ SegmentCompare(k, b, l, r, FALSE)
             = SpecificationCompare(b, l.remainder[k - 9], r.remainder[k - 9], FALSE)
    BY <1>8, <2>2 DEF SegmentCompare
  <2> QED BY <2>1, <2>3, SpecificationAgrees
<1>9. k = 1 \/ k = 2 \/ k = 3 \/ k = 4 \/ k \in 5..7 \/ k \in 8..9 \/ k > 9
  OBVIOUS
<1> QED BY <1>2, <1>3, <1>4, <1>5, <1>6, <1>7, <1>8, <1>9

LEMMA RemainderAgrees ==
  ASSUME NEW a, NEW b, Agree(a, b), NEW l, NEW r
  PROVE  Agree(RemainderCompare(a, l, r, TRUE), RemainderCompare(b, l, r, FALSE))
BY DEF RemainderCompare, Agree, Within, Linear, Results

WithTheShelf == specify => Agree(result, shelf)

(* Whatever the call numbers, and after every part: what                   *)
(* compareWithCallNumber: finds to include the other number comes before   *)
(* it by compare:, and the two are equal in both or in neither.            *)
THEOREM AncestorsBeforeDescendants == Spec => []AncestorsComeFirst
<1>1. Init => WithTheShelf
  BY DEF Init, WithTheShelf, Agree, Results
<1>2. TypeOK /\ WithTheShelf /\ [Next]_vars => WithTheShelf'
  <2> SUFFICES ASSUME TypeOK, WithTheShelf, [Next]_vars, specify' PROVE Agree(result', shelf')
    BY DEF WithTheShelf
  <2>1. CASE CompareSegment
    <3>1. specify = TRUE /\ Agree(result, shelf)
      BY <2>1 DEF CompareSegment, question, WithTheShelf, TypeOK
    <3>2. Agree(SegmentCompare(segment, result, left, right, TRUE),
                SegmentCompare(segment, shelf, left, right, FALSE))
      BY <2>1, <3>1, SegmentAgrees DEF CompareSegment, TypeOK
    <3> QED BY <2>1, <3>1, <3>2 DEF CompareSegment
  <2>2. CASE CompareRemainders
    <3>1. specify = TRUE /\ Agree(result, shelf)
      BY <2>2 DEF CompareRemainders, question, WithTheShelf, TypeOK
    <3>2. Agree(RemainderCompare(result, left, right, TRUE),
                RemainderCompare(shelf, left, right, FALSE))
      BY <3>1, RemainderAgrees, Zenon
    <3> QED BY <2>2, <3>1, <3>2 DEF CompareRemainders
  <2>3. CASE UNCHANGED vars
    BY <2>3 DEF vars, question, WithTheShelf
  <2> QED BY <2>1, <2>2, <2>3 DEF Next
<1>3. TypeOK /\ WithTheShelf => AncestorsComeFirst
  BY DEF WithTheShelf, Agree, AncestorsComeFirst
<1> QED BY <1>1, <1>2, <1>3, TypeCorrect, PTL DEF Spec

-----------------------------------------------------------------------------
(* The shelf order is transitive.                                          *)

Shelf == {Same, Ascending, Descending}

(* The results of a first number with a second, of the second with a third *)
(* and of the first with the third, as an order gives them.                *)
Composes(a, b, c) ==
  /\ a \in Shelf /\ b \in Shelf /\ c \in Shelf
  /\ a = Same => c = b
  /\ b = Same => c = a
  /\ a = b => c = a

(* What a part makes of a result on the shelf.                             *)
Later(status, next) == next \in Shelf /\ (status # Same => next = status)

LEMMA LaterIs ==
  ASSUME NEW s \in Shelf, NEW t, NEW u, Keeps(s, t), Agree(u, t)
  PROVE  Later(s, t)
BY DEF Later, Keeps, Agree, Shelf, Results, Decided

(* So only what it makes of three equal beginnings has to be looked at.    *)
LEMMA LaterComposes ==
  ASSUME NEW a, NEW b, NEW c, Composes(a, b, c), ~(a = Same /\ b = Same),
         NEW d, NEW e, NEW f, Later(a, d), Later(b, e), Later(c, f)
  PROVE  Composes(d, e, f)
BY DEF Composes, Later, Shelf

LEMMA ComposesTypes ==
  ASSUME NEW a, NEW b, NEW c, Composes(a, b, c)
  PROVE  /\ a \in Shelf /\ b \in Shelf /\ c \in Shelf
         /\ a = Same /\ b = Same => c = Same
BY DEF Composes

LEMMA ShelfResults ==
  ASSUME NEW s \in Shelf
  PROVE  s \in Results /\ Agree(s, s)
BY DEF Shelf, Results, Agree

(* Numbers, in their order.                                                *)
LEMMA IntegersCompose ==
  ASSUME NEW x \in Int, NEW y \in Int, NEW z \in Int
  PROVE  Composes(IF x = y THEN Same ELSE Ordered(x, y),
                  IF y = z THEN Same ELSE Ordered(y, z),
                  IF x = z THEN Same ELSE Ordered(x, z))
BY DEF Composes, Ordered, Shelf

(* Parts of several kinds, in the order of their kinds.                    *)
LEMMA RanksCompose ==
  ASSUME NEW x \in Int, NEW y \in Int, NEW z \in Int, ~(x = y /\ y = z),
         NEW a \in Shelf, NEW b \in Shelf, NEW c \in Shelf,
         x < y => a = Ascending, y < x => a = Descending,
         y < z => b = Ascending, z < y => b = Descending,
         x < z => c = Ascending, z < x => c = Descending
  PROVE  Composes(a, b, c)
BY DEF Composes, Shelf

-----------------------------------------------------------------------------
(* Texts, up to their first difference.                                    *)

Alike(l, r) == \A i \in Nat \ {0} : At(l, i) = At(r, i)

Sooner(l, r) ==
  \E i \in Nat \ {0} : At(l, i) < At(r, i) /\ \A j \in 1..(i - 1) : At(l, j) = At(r, j)

LEMMA AtIsNatural ==
  ASSUME NEW t \in Text, NEW i \in Nat
  PROVE  At(t, i) \in Nat
<1>1. CASE i \in 1..Len(t)
  <2>1. t[i] \in 1..127
    BY <1>1, ElementOfSeq DEF Text
  <2>2. Upper(t[i]) \in Nat
    BY <2>1 DEF Upper
  <2> QED BY <1>1, <2>2 DEF At
<1>2. CASE i \notin 1..Len(t)
  BY <1>2 DEF At
<1> QED BY <1>1, <1>2

LEMMA SoonerIsOneWay ==
  ASSUME NEW l \in Text, NEW r \in Text, Sooner(l, r)
  PROVE  ~Alike(l, r) /\ ~Sooner(r, l)
<1> DEFINE First(i, x, y) == At(x, i) < At(y, i) /\ \A j \in 1..(i - 1) : At(x, j) = At(y, j)
<1>1. PICK i \in Nat \ {0} : First(i, l, r)
  BY DEF Sooner
<1>2. \A k \in Nat : At(l, k) \in Int /\ At(r, k) \in Int
  BY AtType
<1>3. ~Alike(l, r)
  BY <1>1, <1>2 DEF Alike
<1>4. ASSUME NEW k \in Nat \ {0}, First(k, r, l) PROVE FALSE
  <2>1. i < k => i \in 1..(k - 1)
    OBVIOUS
  <2>2. k < i => k \in 1..(i - 1)
    OBVIOUS
  <2>3. i < k \/ k < i \/ i = k
    OBVIOUS
  <2> QED BY <1>1, <1>2, <1>4, <2>1, <2>2, <2>3
<1> QED BY <1>3, <1>4 DEF Sooner

LEMMA SoonerIsTransitive ==
  ASSUME NEW l \in Text, NEW m \in Text, NEW r \in Text, Sooner(l, m), Sooner(m, r)
  PROVE  Sooner(l, r)
<1> DEFINE First(i, x, y) == At(x, i) < At(y, i) /\ \A j \in 1..(i - 1) : At(x, j) = At(y, j)
<1>1. PICK i \in Nat \ {0} : First(i, l, m)
  BY DEF Sooner
<1>2. PICK k \in Nat \ {0} : First(k, m, r)
  BY DEF Sooner
<1>3. \A j \in Nat : At(l, j) \in Int /\ At(m, j) \in Int /\ At(r, j) \in Int
  BY AtType
<1>4. CASE i <= k
  <2>1. At(l, i) < At(r, i)
    <3>1. i = k \/ i \in 1..(k - 1)
      BY <1>4
    <3> QED BY <1>1, <1>2, <1>3, <3>1
  <2>2. ASSUME NEW j \in 1..(i - 1) PROVE At(l, j) = At(r, j)
    <3>1. j \in 1..(k - 1)
      BY <1>4
    <3> QED BY <1>1, <1>2, <3>1
  <2> QED BY <2>1, <2>2 DEF Sooner
<1>5. CASE k < i
  <2>1. At(l, k) < At(r, k)
    <3>1. k \in 1..(i - 1)
      BY <1>5
    <3> QED BY <1>1, <1>2, <3>1
  <2>2. ASSUME NEW j \in 1..(k - 1) PROVE At(l, j) = At(r, j)
    <3>1. j \in 1..(i - 1)
      BY <1>5
    <3> QED BY <1>1, <1>2, <3>1
  <2> QED BY <2>1, <2>2 DEF Sooner
<1> QED BY <1>4, <1>5

LEMMA AlikeReplaces ==
  ASSUME NEW l \in Text, NEW m \in Text, NEW r \in Text, Alike(l, m)
  PROVE  /\ Alike(l, r) <=> Alike(m, r)
         /\ Alike(r, l) <=> Alike(r, m)
         /\ Sooner(l, r) <=> Sooner(m, r)
         /\ Sooner(r, l) <=> Sooner(r, m)
<1>1. \A i \in Nat \ {0} : At(l, i) = At(m, i)
  BY DEF Alike
<1>2. \A i \in Nat \ {0} : \A j \in 1..(i - 1) : At(l, j) = At(m, j)
  BY <1>1
<1>3. (Alike(l, r) <=> Alike(m, r)) /\ (Alike(r, l) <=> Alike(r, m))
  BY <1>1 DEF Alike
<1>4. Sooner(l, r) <=> Sooner(m, r)
  BY <1>1, <1>2 DEF Sooner
<1>5. Sooner(r, l) <=> Sooner(r, m)
  BY <1>1, <1>2 DEF Sooner
<1> QED BY <1>3, <1>4, <1>5

LEMMA FirstIsLeast ==
  ASSUME NEW l \in Text, NEW r \in Text, Differences(l, r) # {}
  PROVE  \A j \in Differences(l, r) : Min(Differences(l, r)) <= j
<1> DEFINE D == Differences(l, r)
           Less == {ss \in Nat \X Nat : ss[1] < ss[2]}
<1>1. D \subseteq Nat /\ D # {}
  BY DEF Differences, Text
<1>2. IsWellFoundedOn(Less, Nat)
  BY NatLessThanWellFounded DEF OpToRel
<1> HIDE DEF D, Less
<1>3. PICK x \in D : \A y \in D : ~(<<y, x>> \in Less)
  BY <1>1, <1>2, WFMin
<1>4. ASSUME NEW y \in D PROVE x <= y
  <2>1. x \in Nat /\ y \in Nat
    BY <1>1
  <2>2. y < x => <<y, x>> \in Less
    BY <2>1 DEF Less
  <2> QED BY <1>3, <2>1, <2>2
<1>5. \A y \in D : Min(D) <= y
  BY <1>4 DEF Min
<1> QED BY <1>5 DEF D

(* StringBase, on the shelf, is the order of the first difference.         *)
LEMMA TextOrder ==
  ASSUME NEW l \in Text, NEW r \in Text
  PROVE  \/ Linear(StringBase(l, r)) = Same /\ Alike(l, r)
         \/ Linear(StringBase(l, r)) = Ascending /\ Sooner(l, r)
         \/ Linear(StringBase(l, r)) = Descending /\ Sooner(r, l)
<1> DEFINE i == Min(Differences(l, r))
<1>1. Len(l) \in Nat /\ Len(r) \in Nat
  BY DEF Text
<1>2. CASE Differences(l, r) = {}
  <2>1. ASSUME NEW j \in Nat \ {0} PROVE At(l, j) = At(r, j)
    <3>1. CASE j \in 1..(Len(l) + Len(r))
      BY <1>2, <3>1 DEF Differences
    <3>2. CASE j \notin 1..(Len(l) + Len(r))
      <4>1. j \notin 1..Len(l) /\ j \notin 1..Len(r)
        BY <1>1, <3>2
      <4> QED BY <4>1 DEF At
    <3> QED BY <3>1, <3>2
  <2>2. StringBase(l, r) = Same
    BY <1>2 DEF StringBase
  <2> QED BY <2>1, <2>2 DEF Linear, Alike
<1>3. CASE Differences(l, r) # {}
  <2>1. i \in Differences(l, r)
    BY <1>3, FirstDifference
  <2>2. \A j \in Differences(l, r) : i <= j
    BY <1>3, FirstIsLeast
  <2>3. StringBase(l, r) = IF At(l, i) = 0 THEN Specifying
                           ELSE IF At(r, i) = 0 THEN Generalizing
                           ELSE Ordered(At(l, i), At(r, i))
    BY <1>3 DEF StringBase
  <2> HIDE DEF i
  <2>4. i \in 1..(Len(l) + Len(r)) /\ At(l, i) # At(r, i)
    BY <2>1 DEF Differences
  <2>5. i \in Nat \ {0}
    BY <2>4
  <2>6. ASSUME NEW j \in 1..(i - 1) PROVE At(l, j) = At(r, j)
    <3>1. j \in 1..(Len(l) + Len(r)) /\ ~(i <= j)
      BY <1>1, <2>4
    <3>2. j \notin Differences(l, r)
      BY <2>2, <3>1
    <3> QED BY <3>1, <3>2 DEF Differences
  <2> DEFINE x == At(l, i)
             y == At(r, i)
  <2>7. x \in Nat /\ y \in Nat
    BY <2>5, AtIsNatural
  <2>8. x < y => Sooner(l, r)
    BY <2>5, <2>6 DEF Sooner
  <2>9. y < x => Sooner(r, l)
    BY <2>5, <2>6 DEF Sooner
  <2>10. x # y
    BY <2>4
  <2>11. StringBase(l, r) = IF x = 0 THEN Specifying
                            ELSE IF y = 0 THEN Generalizing ELSE Ordered(x, y)
    BY <2>3
  <2> HIDE DEF x, y
  <2>12. \/ x < y /\ Linear(StringBase(l, r)) = Ascending
         \/ y < x /\ Linear(StringBase(l, r)) = Descending
    BY <2>7, <2>10, <2>11 DEF Linear, Ordered
  <2> QED BY <2>8, <2>9, <2>12
<1> QED BY <1>2, <1>3

LEMMA TextsCompose ==
  ASSUME NEW l \in Text, NEW m \in Text, NEW r \in Text
  PROVE  Composes(Linear(StringBase(l, m)), Linear(StringBase(m, r)), Linear(StringBase(l, r)))
<1> DEFINE a == Linear(StringBase(l, m))
           b == Linear(StringBase(m, r))
           c == Linear(StringBase(l, r))
<1>1. \/ a = Same /\ Alike(l, m)
      \/ a = Ascending /\ Sooner(l, m)
      \/ a = Descending /\ Sooner(m, l)
  BY TextOrder
<1>2. \/ b = Same /\ Alike(m, r)
      \/ b = Ascending /\ Sooner(m, r)
      \/ b = Descending /\ Sooner(r, m)
  BY TextOrder
<1>3. \/ c = Same /\ Alike(l, r)
      \/ c = Ascending /\ Sooner(l, r)
      \/ c = Descending /\ Sooner(r, l)
  BY TextOrder
<1> HIDE DEF a, b, c
<1>4. /\ Sooner(l, r) => c = Ascending
      /\ Sooner(r, l) => c = Descending
      /\ Alike(l, r) => c = Same
  BY <1>3, SoonerIsOneWay DEF Alike
<1>5. Alike(m, r) => Alike(r, m)
  BY DEF Alike
<1>6. a = Same => c = b
  BY <1>1, <1>2, <1>4, AlikeReplaces
<1>7. b = Same => c = a
  BY <1>1, <1>2, <1>4, <1>5, AlikeReplaces
<1>8. a = b => c = a
  BY <1>1, <1>2, <1>4, <1>6, SoonerIsTransitive
<1>9. Composes(a, b, c)
  BY <1>1, <1>2, <1>3, <1>6, <1>7, <1>8 DEF Composes, Shelf
<1> QED BY <1>9 DEF a, b, c

-----------------------------------------------------------------------------
(* The parts.                                                              *)

LEMMA StringLater ==
  ASSUME NEW s \in Shelf, NEW l, NEW r
  PROVE  Later(s, StringCompare(s, l, r, FALSE))
BY ShelfResults, StringKeeps, StringAgrees, LaterIs

LEMMA StringsCompose ==
  ASSUME NEW a, NEW b, NEW c, Composes(a, b, c),
         NEW l \in Text, NEW m \in Text, NEW r \in Text
  PROVE  Composes(StringCompare(a, l, m, FALSE), StringCompare(b, m, r, FALSE),
                  StringCompare(c, l, r, FALSE))
<1>1. CASE a = Same /\ b = Same
  <2>1. c = Same
    BY <1>1, ComposesTypes
  <2>2. /\ StringCompare(a, l, m, FALSE) = Linear(StringBase(l, m))
        /\ StringCompare(b, m, r, FALSE) = Linear(StringBase(m, r))
        /\ StringCompare(c, l, r, FALSE) = Linear(StringBase(l, r))
    BY <1>1, <2>1 DEF StringCompare, Within, Decided
  <2> QED BY <2>2, TextsCompose
<1>2. CASE ~(a = Same /\ b = Same)
  BY <1>2, ComposesTypes, StringLater, LaterComposes
<1> QED BY <1>1, <1>2

LEMMA DecimalLater ==
  ASSUME NEW s \in Shelf, NEW l, NEW r
  PROVE  Later(s, DecimalCompare(s, l, r, FALSE))
<1>1. Agree(DecimalCompare(s, l, r, FALSE), DecimalCompare(s, l, r, FALSE))
  BY ShelfResults, DecimalAgrees
<1> QED BY <1>1, ShelfResults, DecimalKeeps, LaterIs

LEMMA DecimalsCompose ==
  ASSUME NEW a, NEW b, NEW c, Composes(a, b, c),
         NEW l \in Text, NEW m \in Text, NEW r \in Text
  PROVE  Composes(DecimalCompare(a, l, m, FALSE), DecimalCompare(b, m, r, FALSE),
                  DecimalCompare(c, l, r, FALSE))
<1>1. CASE a = Same /\ b = Same
  <2>1. c = Same
    BY <1>1, ComposesTypes
  <2>2. ASSUME NEW x, NEW y PROVE DecimalCompare(Same, x, y, FALSE) = Linear(StringBase(x, y))
    <3>1. Linear(DecimalBase(x, y)) = Linear(StringBase(x, y))
      BY LinearIsIdempotent, StringBaseType DEF DecimalBase
    <3> QED BY <3>1 DEF DecimalCompare, Within, Decided
  <2>3. /\ DecimalCompare(a, l, m, FALSE) = Linear(StringBase(l, m))
        /\ DecimalCompare(b, m, r, FALSE) = Linear(StringBase(m, r))
        /\ DecimalCompare(c, l, r, FALSE) = Linear(StringBase(l, r))
    BY <1>1, <2>1, <2>2
  <2> QED BY <2>3, TextsCompose
<1>2. CASE ~(a = Same /\ b = Same)
  BY <1>2, ComposesTypes, DecimalLater, LaterComposes
<1> QED BY <1>1, <1>2

LEMMA IntegerLater ==
  ASSUME NEW s \in Shelf, NEW l, NEW r
  PROVE  Later(s, IntegerCompare(s, l, r, FALSE))
BY ShelfResults, IntegerKeeps, IntegerAgrees, LaterIs

(* An integer that is not there comes before every other one.              *)
LEMMA IntegerPartsCompose ==
  ASSUME NEW a, NEW b, NEW c, Composes(a, b, c), NEW l \in Nat \cup {Absent},
         NEW m \in Nat \cup {Absent}, NEW r \in Nat \cup {Absent}
  PROVE  Composes(IntegerCompare(a, l, m, FALSE), IntegerCompare(b, m, r, FALSE),
                  IntegerCompare(c, l, r, FALSE))
<1>1. CASE a = Same /\ b = Same
  <2>1. c = Same
    BY <1>1, ComposesTypes
  <2>2. ASSUME NEW x \in Nat \cup {Absent}, NEW y \in Nat \cup {Absent}
        PROVE  IntegerCompare(Same, x, y, FALSE) = IF x = y THEN Same ELSE Ordered(x, y)
    <3>1. CASE x = Absent \/ y = Absent
      BY <3>1 DEF IntegerCompare, Settles, Settled, Within, Linear, Decided, Ordered, Absent
    <3>2. CASE x # Absent /\ y # Absent
      <4>1. ~Settles(Same, x = Absent, y = Absent)
        BY <3>2 DEF Settles, Decided
      <4> QED BY <4>1 DEF IntegerCompare
    <3> QED BY <3>1, <3>2
  <2>3. l \in Int /\ m \in Int /\ r \in Int
    BY DEF Absent
  <2>4. /\ IntegerCompare(a, l, m, FALSE) = IF l = m THEN Same ELSE Ordered(l, m)
        /\ IntegerCompare(b, m, r, FALSE) = IF m = r THEN Same ELSE Ordered(m, r)
        /\ IntegerCompare(c, l, r, FALSE) = IF l = r THEN Same ELSE Ordered(l, r)
    BY <1>1, <2>1, <2>2
  <2> QED BY <2>3, <2>4, IntegersCompose
<1>2. CASE ~(a = Same /\ b = Same)
  BY <1>2, ComposesTypes, IntegerLater, LaterComposes
<1> QED BY <1>1, <1>2

LEMMA YearsCompose ==
  ASSUME NEW a, NEW b, NEW c, Composes(a, b, c), NEW l \in Nat, NEW m \in Nat, NEW r \in Nat
  PROVE  Composes(YearCompare(a, l, m), YearCompare(b, m, r), YearCompare(c, l, r))
<1>1. CASE a = Same /\ b = Same
  <2>1. c = Same
    BY <1>1, ComposesTypes
  <2>2. ASSUME NEW x, NEW y PROVE YearCompare(Same, x, y) = IF x = y THEN Same ELSE Ordered(x, y)
    BY DEF YearCompare, Decided
  <2>3. l \in Int /\ m \in Int /\ r \in Int
    OBVIOUS
  <2> QED BY <1>1, <2>1, <2>2, <2>3, IntegersCompose
<1>2. CASE ~(a = Same /\ b = Same)
  <2>1. ASSUME NEW s \in Shelf, NEW x, NEW y PROVE Later(s, YearCompare(s, x, y))
    BY DEF Shelf, Later, YearCompare, Ordered, Decided
  <2> QED BY <1>2, <2>1, ComposesTypes, LaterComposes
<1> QED BY <1>1, <1>2

(* Dates of one year: by their forms, and those of one form by what they   *)
(* have besides the year.                                                  *)
YearForm(l, r) ==
  IF l.form # r.form THEN FormCompare(Same, l, r, FALSE)
  ELSE IF l.form = "span" THEN YearCompare(Same, l.span, r.span)
  ELSE IF l.form = "day" THEN DayCompare(Same, l, r, FALSE)
  ELSE Same

DateForm(year, l, r) ==
  IF year \in Decided THEN year
  ELSE IF l.form # r.form THEN FormCompare(year, l, r, FALSE)
  ELSE IF l.form = "span" THEN YearCompare(year, l.span, r.span)
  ELSE IF l.form = "day" THEN DayCompare(year, l, r, FALSE)
  ELSE year

LEMMA DateForms ==
  ASSUME NEW d \in Date
  PROVE  /\ d.year \in Nat /\ d.mark \in Text
         /\ d.form \in {"span", "year", "day"}
         /\ DateRank(d) = IF d.form = "span" THEN 1 ELSE IF d.form = "year" THEN 2 ELSE 3
         /\ d.form = "span" => d.span \in Int
         /\ d.form = "day" => d.month \in Int /\ d.day \in Int
<1>1. /\ d.year \in Nat /\ d.mark \in Text
      /\ d.form \in {"span", "year", "day"}
      /\ d.form = "span" => d.span \in Int
      /\ d.form = "day" => d.month \in Int /\ d.day \in Int
  BY DEF Date, YearDate, SpanDate, DayDate
<1>2. DateRank(d) = IF d.form = "span" THEN 1 ELSE IF d.form = "year" THEN 2 ELSE 3
  BY <1>1 DEF DateRank
<1> QED BY <1>1, <1>2

LEMMA YearFormIs ==
  ASSUME NEW l \in Date, NEW r \in Date
  PROVE  YearForm(l, r) =
           IF DateRank(l) # DateRank(r) THEN Ordered(DateRank(l), DateRank(r))
           ELSE IF l.form = "span" THEN IF l.span = r.span THEN Same ELSE Ordered(l.span, r.span)
           ELSE IF l.form = "day"
           THEN IF l.month # r.month THEN Ordered(l.month, r.month)
                ELSE IF l.day = r.day THEN Same ELSE Ordered(l.day, r.day)
           ELSE Same
<1>1. /\ l.form \in {"span", "year", "day"} /\ r.form \in {"span", "year", "day"}
      /\ DateRank(l) = IF l.form = "span" THEN 1 ELSE IF l.form = "year" THEN 2 ELSE 3
      /\ DateRank(r) = IF r.form = "span" THEN 1 ELSE IF r.form = "year" THEN 2 ELSE 3
  BY DateForms
<1>2. DateRank(l) = DateRank(r) <=> l.form = r.form
  BY <1>1
<1>3. FormCompare(Same, l, r, FALSE) = Ordered(DateRank(l), DateRank(r))
  BY DEF FormCompare, Within, Linear, Ordered
<1>4. YearCompare(Same, l.span, r.span) =
        IF l.span = r.span THEN Same ELSE Ordered(l.span, r.span)
  BY DEF YearCompare, Decided
<1>5. DayCompare(Same, l, r, FALSE) =
        IF l.month # r.month THEN Ordered(l.month, r.month)
        ELSE IF l.day = r.day THEN Same ELSE Ordered(l.day, r.day)
  BY DEF DayCompare
<1> QED BY <1>2, <1>3, <1>4, <1>5 DEF YearForm

LEMMA YearFormsCompose ==
  ASSUME NEW l \in Date, NEW m \in Date, NEW r \in Date
  PROVE  Composes(YearForm(l, m), YearForm(m, r), YearForm(l, r))
<1>1. ASSUME NEW d \in Date
      PROVE  /\ DateRank(d) \in Int
             /\ d.form = "span" <=> DateRank(d) = 1
             /\ d.form = "day" <=> DateRank(d) = 3
             /\ DateRank(d) = 1 => d.span \in Int
             /\ DateRank(d) = 3 => d.month \in Int /\ d.day \in Int
  BY DateForms
<1>2. CASE DateRank(l) = DateRank(m) /\ DateRank(m) = DateRank(r)
  <2>1. CASE DateRank(l) = 1
    <3>1. /\ YearForm(l, m) = IF l.span = m.span THEN Same ELSE Ordered(l.span, m.span)
          /\ YearForm(m, r) = IF m.span = r.span THEN Same ELSE Ordered(m.span, r.span)
          /\ YearForm(l, r) = IF l.span = r.span THEN Same ELSE Ordered(l.span, r.span)
      BY <1>1, <1>2, <2>1, YearFormIs
    <3>2. l.span \in Int /\ m.span \in Int /\ r.span \in Int
      BY <1>1, <1>2, <2>1
    <3> QED BY <3>1, <3>2, IntegersCompose
  <2>2. CASE DateRank(l) = 3
    <3> DEFINE Days(x, y) == IF x.month # y.month THEN Ordered(x.month, y.month)
                             ELSE IF x.day = y.day THEN Same ELSE Ordered(x.day, y.day)
    <3>1. YearForm(l, m) = Days(l, m) /\ YearForm(m, r) = Days(m, r) /\ YearForm(l, r) = Days(l, r)
      BY <1>1, <1>2, <2>2, YearFormIs
    <3>2. /\ l.month \in Int /\ m.month \in Int /\ r.month \in Int
          /\ l.day \in Int /\ m.day \in Int /\ r.day \in Int
      BY <1>1, <1>2, <2>2
    <3>3. Composes(Days(l, m), Days(m, r), Days(l, r))
      BY <3>2 DEF Composes, Ordered, Shelf
    <3> QED BY <3>1, <3>3
  <2>3. CASE DateRank(l) \notin {1, 3}
    <3>1. YearForm(l, m) = Same /\ YearForm(m, r) = Same /\ YearForm(l, r) = Same
      BY <1>1, <1>2, <2>3, YearFormIs
    <3> QED BY <3>1 DEF Composes, Shelf
  <2> QED BY <2>1, <2>2, <2>3
<1>3. CASE ~(DateRank(l) = DateRank(m) /\ DateRank(m) = DateRank(r))
  <2>1. ASSUME NEW x \in Date, NEW y \in Date
        PROVE  /\ YearForm(x, y) \in Shelf
               /\ DateRank(x) < DateRank(y) => YearForm(x, y) = Ascending
               /\ DateRank(y) < DateRank(x) => YearForm(x, y) = Descending
    BY <1>1, YearFormIs DEF Ordered, Shelf
  <2>2. DateRank(l) \in Int /\ DateRank(m) \in Int /\ DateRank(r) \in Int
    BY <1>1
  <2> QED BY <1>3, <2>1, <2>2, RanksCompose
<1> QED BY <1>2, <1>3

LEMMA DatesCompose ==
  ASSUME NEW a, NEW b, NEW c, Composes(a, b, c),
         NEW l \in Date, NEW m \in Date, NEW r \in Date
  PROVE  Composes(DateCompare(a, l, m, FALSE), DateCompare(b, m, r, FALSE),
                  DateCompare(c, l, r, FALSE))
<1> DEFINE d == YearCompare(a, l.year, m.year)
           e == YearCompare(b, m.year, r.year)
           f == YearCompare(c, l.year, r.year)
<1>1. /\ l.year \in Nat /\ m.year \in Nat /\ r.year \in Nat
      /\ l.mark \in Text /\ m.mark \in Text /\ r.mark \in Text
  BY DateForms
<1>2. Composes(d, e, f)
  BY <1>1, YearsCompose
<1>3. /\ DateCompare(a, l, m, FALSE) = StringCompare(DateForm(d, l, m), l.mark, m.mark, FALSE)
      /\ DateCompare(b, m, r, FALSE) = StringCompare(DateForm(e, m, r), m.mark, r.mark, FALSE)
      /\ DateCompare(c, l, r, FALSE) = StringCompare(DateForm(f, l, r), l.mark, r.mark, FALSE)
  BY DEF DateCompare, DateForm
<1> HIDE DEF d, e, f
<1>4. \A x, y : DateForm(Same, x, y) = YearForm(x, y)
  BY DEF DateForm, YearForm, Decided
<1>5. Composes(DateForm(d, l, m), DateForm(e, m, r), DateForm(f, l, r))
  <2>1. CASE d = Same /\ e = Same
    <3>1. f = Same
      BY <1>2, <2>1, ComposesTypes
    <3> QED BY <1>4, <2>1, <3>1, YearFormsCompose
  <2>2. CASE ~(d = Same /\ e = Same)
    <3>1. ASSUME NEW x \in Date, NEW y \in Date PROVE YearForm(x, y) \in Shelf
      BY YearFormIs DEF Ordered, Shelf
    <3>2. ASSUME NEW s \in Shelf, NEW x \in Date, NEW y \in Date
          PROVE  Later(s, DateForm(s, x, y))
      <4>1. CASE s = Same
        BY <1>4, <3>1, <4>1 DEF Later
      <4>2. CASE s # Same
        BY <4>2 DEF Later, DateForm, Shelf, Decided
      <4> QED BY <4>1, <4>2
    <3> QED BY <1>2, <2>2, <3>2, ComposesTypes, LaterComposes
  <2> QED BY <2>1, <2>2
<1> QED BY <1>1, <1>3, <1>5, StringsCompose

LEMMA OrdinalsCompose ==
  ASSUME NEW a, NEW b, NEW c, Composes(a, b, c),
         NEW l \in OrdinalNumber, NEW m \in OrdinalNumber, NEW r \in OrdinalNumber
  PROVE  Composes(OrdinalCompare(a, l, m, FALSE), OrdinalCompare(b, m, r, FALSE),
                  OrdinalCompare(c, l, r, FALSE))
<1>1. /\ l.number \in Text /\ m.number \in Text /\ r.number \in Text
      /\ l.suffix \in Text /\ m.suffix \in Text /\ r.suffix \in Text
  BY DEF OrdinalNumber
<1>2. Composes(StringCompare(a, l.number, m.number, FALSE),
               StringCompare(b, m.number, r.number, FALSE),
               StringCompare(c, l.number, r.number, FALSE))
  BY <1>1, StringsCompose
<1> QED BY <1>1, <1>2, StringsCompose DEF OrdinalCompare

LEMMA EtcsCompose ==
  ASSUME NEW a, NEW b, NEW c, Composes(a, b, c),
         NEW l \in Numbered, NEW m \in Numbered, NEW r \in Numbered
  PROVE  Composes(EtcCompare(a, l, m, Descending), EtcCompare(b, m, r, Descending),
                  EtcCompare(c, l, r, Descending))
<1>1. l.hasetc \in BOOLEAN /\ m.hasetc \in BOOLEAN /\ r.hasetc \in BOOLEAN
  BY DEF Numbered
<1>2. -Descending = Ascending
  BY Opposites
<1>3. ASSUME NEW x, NEW y, x.hasetc \in BOOLEAN, y.hasetc \in BOOLEAN
      PROVE  EtcCompare(Same, x, y, Descending) =
               IF x.hasetc = y.hasetc THEN Same ELSE IF x.hasetc THEN Descending ELSE Ascending
  <2>1. Same \notin Decided
    BY DEF Decided
  <2> HIDE DEF Descending, Ascending, Same
  <2> QED BY <1>2, <2>1, Zenon DEF EtcCompare
<1>4. CASE a = Same /\ b = Same
  <2>1. c = Same
    BY <1>4, ComposesTypes
  <2>2. EtcCompare(a, l, m, Descending) =
          IF l.hasetc = m.hasetc THEN Same ELSE IF l.hasetc THEN Descending ELSE Ascending
    BY <1>1, <1>3, <1>4
  <2>3. EtcCompare(b, m, r, Descending) =
          IF m.hasetc = r.hasetc THEN Same ELSE IF m.hasetc THEN Descending ELSE Ascending
    BY <1>1, <1>3, <1>4
  <2>4. EtcCompare(c, l, r, Descending) =
          IF l.hasetc = r.hasetc THEN Same ELSE IF l.hasetc THEN Descending ELSE Ascending
    BY <1>1, <1>3, <2>1
  <2> QED BY <1>1, <2>2, <2>3, <2>4 DEF Composes, Shelf
<1>5. CASE ~(a = Same /\ b = Same)
  <2>1. ASSUME NEW s \in Shelf, NEW x, NEW y, x.hasetc \in BOOLEAN, y.hasetc \in BOOLEAN
        PROVE  Later(s, EtcCompare(s, x, y, Descending))
    <3>1. CASE s = Same
      BY <1>3, <2>1, <3>1 DEF Later, Shelf
    <3>2. CASE s # Same
      BY <3>2 DEF Later, EtcCompare, Shelf, Decided
    <3> QED BY <3>1, <3>2
  <2> QED BY <1>1, <1>5, <2>1, ComposesTypes, LaterComposes
<1> QED BY <1>4, <1>5

LEMMA NumberedCompose ==
  ASSUME NEW a, NEW b, NEW c, Composes(a, b, c),
         NEW l \in Numbered, NEW m \in Numbered, NEW r \in Numbered
  PROVE  /\ Composes(VolumeCompare(a, l, m, FALSE), VolumeCompare(b, m, r, FALSE),
                     VolumeCompare(c, l, r, FALSE))
         /\ Composes(SupplementCompare(a, l, m, FALSE), SupplementCompare(b, m, r, FALSE),
                     SupplementCompare(c, l, r, FALSE))
<1> DEFINE d == NumberedCompare(a, l, m, FALSE)
           e == NumberedCompare(b, m, r, FALSE)
           f == NumberedCompare(c, l, r, FALSE)
<1>1. /\ l.prefix \in Text /\ m.prefix \in Text /\ r.prefix \in Text
      /\ l.number \in Text /\ m.number \in Text /\ r.number \in Text
  BY DEF Numbered
<1>2. Composes(StringCompare(a, l.prefix, m.prefix, FALSE),
               StringCompare(b, m.prefix, r.prefix, FALSE),
               StringCompare(c, l.prefix, r.prefix, FALSE))
  BY <1>1, StringsCompose
<1>3. Composes(d, e, f)
  BY <1>1, <1>2, StringsCompose DEF NumberedCompare
<1>4. Within(FALSE, Generalizing) = Descending
  BY DEF Within, Linear
<1> HIDE DEF d, e, f
<1>5. Composes(EtcCompare(d, l, m, Descending), EtcCompare(e, m, r, Descending),
               EtcCompare(f, l, r, Descending))
  BY <1>3, EtcsCompose
<1> QED BY <1>4, <1>5 DEF VolumeCompare, SupplementCompare, d, e, f

-----------------------------------------------------------------------------
(* The segments.                                                           *)

(* A part that is not there comes before every one that is.                *)
LEMMA MissingIs ==
  ASSUME NEW le \in BOOLEAN, NEW re \in BOOLEAN
  PROVE  /\ Settles(Same, le, re) <=> le \/ re
         /\ le \/ re => Settled(Same, le, re, FALSE) =
              IF le /\ re THEN Same ELSE IF le THEN Ascending ELSE Descending
<1>1. Settles(Same, le, re) <=> le \/ re
  BY DEF Settles, Decided
<1>2. le \/ re => Settled(Same, le, re, FALSE) =
        IF le /\ re THEN Same ELSE IF le THEN Ascending ELSE Descending
  BY DEF Settled, Within, Linear, Decided
<1> QED BY <1>1, <1>2

LEMMA MissingCompose ==
  ASSUME NEW le \in BOOLEAN, NEW me \in BOOLEAN, NEW re \in BOOLEAN, le \/ me \/ re,
         NEW a \in Shelf, NEW b \in Shelf, NEW c \in Shelf,
         le \/ me => a = IF le /\ me THEN Same ELSE IF le THEN Ascending ELSE Descending,
         me \/ re => b = IF me /\ re THEN Same ELSE IF me THEN Ascending ELSE Descending,
         le \/ re => c = IF le /\ re THEN Same ELSE IF le THEN Ascending ELSE Descending
  PROVE  Composes(a, b, c)
BY DEF Composes, Shelf

LEMMA DateordLater ==
  ASSUME NEW s \in Shelf, NEW l \in Dateord, NEW r \in Dateord
  PROVE  Later(s, DateordCompare(s, l, r, FALSE))
<1>1. Agree(s, s) /\ s \in Results
  BY ShelfResults
<1>2. Keeps(s, DateordCompare(s, l, r, FALSE))
  BY <1>1, DateordKeeps
<1>3. Agree(DateordCompare(s, l, r, TRUE), DateordCompare(s, l, r, FALSE))
  BY <1>1, DateordAgrees
<1> QED BY <1>2, <1>3, LaterIs

LEMMA DateordsCompose ==
  ASSUME NEW a, NEW b, NEW c, Composes(a, b, c),
         NEW l \in Dateord, NEW m \in Dateord, NEW r \in Dateord
  PROVE  Composes(DateordCompare(a, l, m, FALSE), DateordCompare(b, m, r, FALSE),
                  DateordCompare(c, l, r, FALSE))
<1> DEFINE Of(x, y) == DateordCompare(Same, x, y, FALSE)
<1>1. ASSUME NEW x \in Dateord, NEW y \in Dateord
      PROVE  /\ Of(x, y) \in Shelf
             /\ x.kind = "none" \/ y.kind = "none" => Of(x, y) =
                  IF x.kind = "none" /\ y.kind = "none" THEN Same
                  ELSE IF x.kind = "none" THEN Ascending ELSE Descending
             /\ x.kind # "none" /\ y.kind # "none" /\ x.kind # y.kind =>
                  Of(x, y) = IF x.kind = "ordinal" THEN Ascending ELSE Descending
             /\ x.kind = "date" /\ y.kind = "date" => Of(x, y) = DateCompare(Same, x, y, FALSE)
             /\ x.kind = "ordinal" /\ y.kind = "ordinal" =>
                  Of(x, y) = OrdinalCompare(Same, x, y, FALSE)
  <2> DEFINE le == x.kind = "none"
             re == y.kind = "none"
  <2>1. Of(x, y) \in Shelf
    BY DateordLater DEF Later, Shelf
  <2>2. /\ Settles(Same, le, re) <=> le \/ re
        /\ le \/ re => Settled(Same, le, re, FALSE) =
             IF le /\ re THEN Same ELSE IF le THEN Ascending ELSE Descending
    BY MissingIs
  <2>3. Of(x, y) =
          IF Settles(Same, le, re) THEN Settled(Same, le, re, FALSE)
          ELSE IF x.kind # y.kind THEN IF x.kind = "ordinal" THEN Ascending ELSE Descending
          ELSE IF x.kind = "date" THEN DateCompare(Same, x, y, FALSE)
          ELSE OrdinalCompare(Same, x, y, FALSE)
    BY DEF DateordCompare
  <2> HIDE DEF Of
  <2>4. CASE le \/ re
    BY <2>1, <2>2, <2>3, <2>4
  <2>5. CASE ~(le \/ re)
    BY <2>1, <2>2, <2>3, <2>5
  <2> QED BY <2>4, <2>5
<1>2. ASSUME NEW d \in Dateord, d.kind # "none"
      PROVE  (d \in Date /\ d.kind = "date") \/ (d \in OrdinalNumber /\ d.kind = "ordinal")
  BY <1>2 DEF Dateord, Missing, Date, YearDate, SpanDate, DayDate, OrdinalNumber
<1>3. CASE a = Same /\ b = Same
  <2>1. c = Same
    BY <1>3, ComposesTypes
  <2> HIDE DEF Of
  <2>2. Composes(Of(l, m), Of(m, r), Of(l, r))
    <3>1. CASE l.kind = "none" \/ m.kind = "none" \/ r.kind = "none"
      <4> DEFINE le == l.kind = "none"
                 me == m.kind = "none"
                 re == r.kind = "none"
      <4>1. /\ Of(l, m) \in Shelf /\ Of(m, r) \in Shelf /\ Of(l, r) \in Shelf
            /\ le \/ me => Of(l, m) = IF le /\ me THEN Same ELSE IF le THEN Ascending ELSE Descending
            /\ me \/ re => Of(m, r) = IF me /\ re THEN Same ELSE IF me THEN Ascending ELSE Descending
            /\ le \/ re => Of(l, r) = IF le /\ re THEN Same ELSE IF le THEN Ascending ELSE Descending
        BY <1>1
      <4>2. le \in BOOLEAN /\ me \in BOOLEAN /\ re \in BOOLEAN /\ (le \/ me \/ re)
        BY <3>1
      <4> HIDE DEF le, me, re
      <4> QED BY <4>1, <4>2, MissingCompose
    <3>2. CASE l.kind = "date" /\ m.kind = "date" /\ r.kind = "date"
      <4>1. l \in Date /\ m \in Date /\ r \in Date
        BY <1>2, <3>2 DEF OrdinalNumber
      <4>2. Composes(Same, Same, Same)
        BY DEF Composes, Shelf
      <4>3. /\ Of(l, m) = DateCompare(Same, l, m, FALSE)
            /\ Of(m, r) = DateCompare(Same, m, r, FALSE)
            /\ Of(l, r) = DateCompare(Same, l, r, FALSE)
        BY <1>1, <3>2
      <4>4. Composes(DateCompare(Same, l, m, FALSE), DateCompare(Same, m, r, FALSE),
                     DateCompare(Same, l, r, FALSE))
        BY <4>1, <4>2, DatesCompose
      <4> QED BY <4>3, <4>4
    <3>3. CASE l.kind = "ordinal" /\ m.kind = "ordinal" /\ r.kind = "ordinal"
      <4>1. l \in OrdinalNumber /\ m \in OrdinalNumber /\ r \in OrdinalNumber
        BY <1>2, <3>3 DEF Date, YearDate, SpanDate, DayDate
      <4>2. Composes(Same, Same, Same)
        BY DEF Composes, Shelf
      <4>3. /\ Of(l, m) = OrdinalCompare(Same, l, m, FALSE)
            /\ Of(m, r) = OrdinalCompare(Same, m, r, FALSE)
            /\ Of(l, r) = OrdinalCompare(Same, l, r, FALSE)
        BY <1>1, <3>3
      <4>4. Composes(OrdinalCompare(Same, l, m, FALSE), OrdinalCompare(Same, m, r, FALSE),
                     OrdinalCompare(Same, l, r, FALSE))
        BY <4>1, <4>2, OrdinalsCompose
      <4> QED BY <4>3, <4>4
    <3>4. CASE /\ l.kind # "none" /\ m.kind # "none" /\ r.kind # "none"
               /\ ~(l.kind = m.kind /\ m.kind = r.kind)
      <4> DEFINE Rank(d) == IF d.kind = "ordinal" THEN 1 ELSE 2
      <4>1. ASSUME NEW x \in Dateord, NEW y \in Dateord, x.kind # "none", y.kind # "none"
            PROVE  /\ Of(x, y) \in Shelf
                   /\ Rank(x) < Rank(y) => Of(x, y) = Ascending
                   /\ Rank(y) < Rank(x) => Of(x, y) = Descending
                   /\ Rank(x) = Rank(y) => x.kind = y.kind
                   /\ Rank(x) \in Int
        <5>1. x.kind \in {"date", "ordinal"} /\ y.kind \in {"date", "ordinal"}
          BY <1>2, <4>1
        <5>2. Of(x, y) \in Shelf
          BY <1>1
        <5>3. x.kind # y.kind => Of(x, y) = IF x.kind = "ordinal" THEN Ascending ELSE Descending
          BY <1>1, <4>1
        <5> QED BY <5>1, <5>2, <5>3
      <4>2. /\ Of(l, m) \in Shelf /\ Of(m, r) \in Shelf /\ Of(l, r) \in Shelf
            /\ Rank(l) \in Int /\ Rank(m) \in Int /\ Rank(r) \in Int
            /\ ~(Rank(l) = Rank(m) /\ Rank(m) = Rank(r))
        BY <3>4, <4>1
      <4>3. /\ Rank(l) < Rank(m) => Of(l, m) = Ascending
            /\ Rank(m) < Rank(l) => Of(l, m) = Descending
            /\ Rank(m) < Rank(r) => Of(m, r) = Ascending
            /\ Rank(r) < Rank(m) => Of(m, r) = Descending
            /\ Rank(l) < Rank(r) => Of(l, r) = Ascending
            /\ Rank(r) < Rank(l) => Of(l, r) = Descending
        BY <3>4, <4>1
      <4> HIDE DEF Rank
      <4> QED BY <4>2, <4>3, RanksCompose
    <3> QED BY <1>2, <3>1, <3>2, <3>3, <3>4
  <2> QED BY <1>3, <2>1, <2>2 DEF Of
<1>4. CASE ~(a = Same /\ b = Same)
  BY <1>4, ComposesTypes, DateordLater, LaterComposes
<1> QED BY <1>3, <1>4

LEMMA LettersCompose ==
  ASSUME NEW a, NEW b, NEW c, Composes(a, b, c), NEW x \in Int, NEW y \in Int, NEW z \in Int
  PROVE  Composes(LetterCompare(a, x, y), LetterCompare(b, y, z), LetterCompare(c, x, z))
<1>1. CASE a = Same /\ b = Same
  <2>1. c = Same
    BY <1>1, ComposesTypes
  <2>2. \A u, v : LetterCompare(Same, u, v) = IF u = v THEN Same ELSE Ordered(u, v)
    BY DEF LetterCompare
  <2> QED BY <1>1, <2>1, <2>2, IntegersCompose
<1>2. CASE ~(a = Same /\ b = Same)
  <2>1. ASSUME NEW s \in Shelf, NEW u, NEW v PROVE Later(s, LetterCompare(s, u, v))
    BY DEF Shelf, Later, LetterCompare, Ordered, Linear
  <2> QED BY <1>2, <2>1, ComposesTypes, LaterComposes
<1> QED BY <1>1, <1>2

LEMMA CuttersCompose ==
  ASSUME NEW a, NEW b, NEW c, Composes(a, b, c),
         NEW l \in Cuttseg, NEW m \in Cuttseg, NEW r \in Cuttseg
  PROVE  Composes(CutterCompare(a, l, m, FALSE), CutterCompare(b, m, r, FALSE),
                  CutterCompare(c, l, r, FALSE))
<1> DEFINE d == LetterCompare(a, Upper(l.letter), Upper(m.letter))
           e == LetterCompare(b, Upper(m.letter), Upper(r.letter))
           f == LetterCompare(c, Upper(l.letter), Upper(r.letter))
<1>1. /\ l.number \in Text /\ m.number \in Text /\ r.number \in Text
      /\ l.mark \in Text /\ m.mark \in Text /\ r.mark \in Text
      /\ l.letter \in Int /\ m.letter \in Int /\ r.letter \in Int
  BY DEF Cuttseg
<1>2. Upper(l.letter) \in Int /\ Upper(m.letter) \in Int /\ Upper(r.letter) \in Int
  BY <1>1, UpperType
<1>3. Composes(d, e, f)
  BY <1>2, LettersCompose
<1> HIDE DEF d, e, f
<1>4. Composes(DecimalCompare(d, l.number, m.number, FALSE),
               DecimalCompare(e, m.number, r.number, FALSE),
               DecimalCompare(f, l.number, r.number, FALSE))
  BY <1>1, <1>3, DecimalsCompose
<1> QED BY <1>1, <1>4, DecimalsCompose DEF CutterCompare, d, e, f

LEMMA CuttsegLater ==
  ASSUME NEW s \in Shelf, NEW l \in Cuttseg, NEW r \in Cuttseg
  PROVE  Later(s, CuttsegCompare(s, l, r, FALSE))
<1>1. Agree(s, s) /\ s \in Results
  BY ShelfResults
<1>2. Keeps(s, CuttsegCompare(s, l, r, FALSE))
  BY <1>1, CuttsegKeeps
<1>3. Agree(CuttsegCompare(s, l, r, TRUE), CuttsegCompare(s, l, r, FALSE))
  BY <1>1, CuttsegAgrees
<1> QED BY <1>2, <1>3, LaterIs

LEMMA CuttsegsCompose ==
  ASSUME NEW a, NEW b, NEW c, Composes(a, b, c),
         NEW l \in Cuttseg, NEW m \in Cuttseg, NEW r \in Cuttseg
  PROVE  Composes(CuttsegCompare(a, l, m, FALSE), CuttsegCompare(b, m, r, FALSE),
                  CuttsegCompare(c, l, r, FALSE))
<1> DEFINE Of(x, y) == CuttsegCompare(Same, x, y, FALSE)
           Both(x, y) == DateordCompare(CutterCompare(Same, x, y, FALSE),
                                        x.dateord, y.dateord, FALSE)
<1>1. ASSUME NEW x \in Cuttseg, NEW y \in Cuttseg
      PROVE  /\ Of(x, y) \in Shelf
             /\ x.letter = 0 \/ y.letter = 0 => Of(x, y) =
                  IF x.letter = 0 /\ y.letter = 0 THEN Same
                  ELSE IF x.letter = 0 THEN Ascending ELSE Descending
             /\ x.letter # 0 /\ y.letter # 0 => Of(x, y) = Both(x, y)
  <2> DEFINE le == x.letter = 0
             re == y.letter = 0
  <2>1. Of(x, y) \in Shelf
    BY CuttsegLater DEF Later, Shelf
  <2>2. /\ Settles(Same, le, re) <=> le \/ re
        /\ le \/ re => Settled(Same, le, re, FALSE) =
             IF le /\ re THEN Same ELSE IF le THEN Ascending ELSE Descending
    BY MissingIs
  <2>3. Of(x, y) = IF Settles(Same, le, re) THEN Settled(Same, le, re, FALSE) ELSE Both(x, y)
    BY DEF CuttsegCompare
  <2> HIDE DEF Of, Both
  <2> QED BY <2>1, <2>2, <2>3
<1>2. CASE a = Same /\ b = Same
  <2>1. c = Same
    BY <1>2, ComposesTypes
  <2>2. Composes(Of(l, m), Of(m, r), Of(l, r))
    <3>1. CASE l.letter = 0 \/ m.letter = 0 \/ r.letter = 0
      <4> DEFINE le == l.letter = 0
                 me == m.letter = 0
                 re == r.letter = 0
      <4> HIDE DEF Of, Both
      <4>1. /\ Of(l, m) \in Shelf /\ Of(m, r) \in Shelf /\ Of(l, r) \in Shelf
            /\ le \/ me => Of(l, m) = IF le /\ me THEN Same ELSE IF le THEN Ascending ELSE Descending
            /\ me \/ re => Of(m, r) = IF me /\ re THEN Same ELSE IF me THEN Ascending ELSE Descending
            /\ le \/ re => Of(l, r) = IF le /\ re THEN Same ELSE IF le THEN Ascending ELSE Descending
        BY <1>1
      <4>2. le \in BOOLEAN /\ me \in BOOLEAN /\ re \in BOOLEAN /\ (le \/ me \/ re)
        BY <3>1
      <4> HIDE DEF le, me, re
      <4> QED BY <4>1, <4>2, MissingCompose
    <3>2. CASE l.letter # 0 /\ m.letter # 0 /\ r.letter # 0
      <4>1. Composes(Same, Same, Same)
        BY DEF Composes, Shelf
      <4>2. Composes(CutterCompare(Same, l, m, FALSE), CutterCompare(Same, m, r, FALSE),
                     CutterCompare(Same, l, r, FALSE))
        BY <4>1, CuttersCompose
      <4>3. l.dateord \in Dateord /\ m.dateord \in Dateord /\ r.dateord \in Dateord
        BY DEF Cuttseg
      <4>4. Composes(Both(l, m), Both(m, r), Both(l, r))
        BY <4>2, <4>3, DateordsCompose
      <4> HIDE DEF Of, Both
      <4> QED BY <1>1, <3>2, <4>4
    <3> QED BY <3>1, <3>2
  <2> QED BY <1>2, <2>1, <2>2
<1>3. CASE ~(a = Same /\ b = Same)
  BY <1>3, ComposesTypes, CuttsegLater, LaterComposes
<1> QED BY <1>2, <1>3

LEMMA SpecificationLater ==
  ASSUME NEW s \in Shelf, NEW l \in Specification, NEW r \in Specification
  PROVE  Later(s, SpecificationCompare(s, l, r, FALSE))
<1>1. Agree(s, s) /\ s \in Results
  BY ShelfResults
<1>2. Keeps(s, SpecificationCompare(s, l, r, FALSE))
  BY <1>1, SpecificationKeeps
<1>3. Agree(SpecificationCompare(s, l, r, TRUE), SpecificationCompare(s, l, r, FALSE))
  BY <1>1, SpecificationAgrees
<1> QED BY <1>2, <1>3, LaterIs

LEMMA SpecificationsCompose ==
  ASSUME NEW a, NEW b, NEW c, Composes(a, b, c),
         NEW l \in Specification, NEW m \in Specification, NEW r \in Specification
  PROVE  Composes(SpecificationCompare(a, l, m, FALSE), SpecificationCompare(b, m, r, FALSE),
                  SpecificationCompare(c, l, r, FALSE))
<1> DEFINE Of(x, y) == SpecificationCompare(Same, x, y, FALSE)
<1>1. ASSUME NEW x \in Specification, NEW y \in Specification
      PROVE  /\ Of(x, y) \in Shelf
             /\ x.kind = "none" \/ y.kind = "none" => Of(x, y) =
                  IF x.kind = "none" /\ y.kind = "none" THEN Same
                  ELSE IF x.kind = "none" THEN Ascending ELSE Descending
             /\ x.kind # "none" /\ y.kind # "none" => Of(x, y) =
                  IF x.kind = y.kind THEN SameKindCompare(Same, x, y, FALSE)
                  ELSE Ordered(KindRank(x), KindRank(y))
  <2> DEFINE le == x.kind = "none"
             re == y.kind = "none"
  <2>1. Of(x, y) \in Shelf
    BY SpecificationLater DEF Later, Shelf
  <2>2. /\ Settles(Same, le, re) <=> le \/ re
        /\ le \/ re => Settled(Same, le, re, FALSE) =
             IF le /\ re THEN Same ELSE IF le THEN Ascending ELSE Descending
    BY MissingIs
  <2>3. Of(x, y) = IF Settles(Same, le, re) THEN Settled(Same, le, re, FALSE)
                   ELSE IF x.kind = y.kind THEN SameKindCompare(Same, x, y, FALSE)
                   ELSE Ordered(KindRank(x), KindRank(y))
    BY DEF SpecificationCompare
  <2> HIDE DEF Of
  <2> QED BY <2>1, <2>2, <2>3
<1>2. ASSUME NEW n \in Specification, n.kind # "none"
      PROVE  \/ n \in Date /\ n.kind = "date"
             \/ n \in WordText /\ n.kind = "word"
             \/ n \in OrdinalNumber /\ n.kind = "ordinal"
             \/ n \in Numbered /\ n.kind \in {"volume", "supplement"}
  BY <1>2 DEF Specification, Dateord, Missing, Date, YearDate, SpanDate, DayDate,
              OrdinalNumber, WordText, Numbered
<1>3. CASE a = Same /\ b = Same
  <2>1. c = Same
    BY <1>3, ComposesTypes
  <2> HIDE DEF Of
  <2>2. Composes(Of(l, m), Of(m, r), Of(l, r))
    <3>1. CASE l.kind = "none" \/ m.kind = "none" \/ r.kind = "none"
      <4> DEFINE le == l.kind = "none"
                 me == m.kind = "none"
                 re == r.kind = "none"
      <4>1. /\ Of(l, m) \in Shelf /\ Of(m, r) \in Shelf /\ Of(l, r) \in Shelf
            /\ le \/ me => Of(l, m) = IF le /\ me THEN Same ELSE IF le THEN Ascending ELSE Descending
            /\ me \/ re => Of(m, r) = IF me /\ re THEN Same ELSE IF me THEN Ascending ELSE Descending
            /\ le \/ re => Of(l, r) = IF le /\ re THEN Same ELSE IF le THEN Ascending ELSE Descending
        BY <1>1
      <4>2. le \in BOOLEAN /\ me \in BOOLEAN /\ re \in BOOLEAN /\ (le \/ me \/ re)
        BY <3>1
      <4> HIDE DEF le, me, re
      <4> QED BY <4>1, <4>2, MissingCompose
    <3>2. CASE l.kind # "none" /\ l.kind = m.kind /\ m.kind = r.kind
      <4> DEFINE Alone(x, y) == SameKindCompare(Same, x, y, FALSE)
      <4>1. Composes(Same, Same, Same)
        BY DEF Composes, Shelf
      <4>2. Composes(Alone(l, m), Alone(m, r), Alone(l, r))
        <5>1. CASE l.kind = "date"
          <6>1. l \in Date /\ m \in Date /\ r \in Date
            BY <1>2, <3>2, <5>1
          <6> QED BY <3>2, <4>1, <5>1, <6>1, DatesCompose DEF SameKindCompare
        <5>2. CASE l.kind = "word"
          <6>1. l.word \in Text /\ m.word \in Text /\ r.word \in Text
            BY <1>2, <3>2, <5>2 DEF WordText
          <6> QED BY <3>2, <4>1, <5>2, <6>1, StringsCompose DEF SameKindCompare
        <5>3. CASE l.kind = "ordinal"
          <6>1. l \in OrdinalNumber /\ m \in OrdinalNumber /\ r \in OrdinalNumber
            BY <1>2, <3>2, <5>3
          <6> QED BY <3>2, <4>1, <5>3, <6>1, OrdinalsCompose DEF SameKindCompare
        <5>4. CASE l.kind \in {"volume", "supplement"}
          <6>1. l \in Numbered /\ m \in Numbered /\ r \in Numbered
            BY <1>2, <3>2, <5>4
          <6> QED BY <3>2, <4>1, <5>4, <6>1, NumberedCompose DEF SameKindCompare
        <5> QED BY <1>2, <3>2, <5>1, <5>2, <5>3, <5>4
      <4>3. Of(l, m) = Alone(l, m) /\ Of(m, r) = Alone(m, r) /\ Of(l, r) = Alone(l, r)
        BY <1>1, <3>2
      <4> QED BY <4>2, <4>3
    <3>3. CASE /\ l.kind # "none" /\ m.kind # "none" /\ r.kind # "none"
               /\ ~(l.kind = m.kind /\ m.kind = r.kind)
      <4>1. ASSUME NEW x \in Specification, x.kind # "none"
            PROVE  KindRank(x) = IF x.kind = "date" THEN 1 ELSE IF x.kind = "word" THEN 2
                                 ELSE IF x.kind = "ordinal" THEN 3
                                 ELSE IF x.kind = "volume" THEN 4 ELSE 5
        BY <1>2, <4>1 DEF KindRank
      <4>2. ASSUME NEW x \in Specification, NEW y \in Specification,
                   x.kind # "none", y.kind # "none"
            PROVE  /\ Of(x, y) \in Shelf
                   /\ KindRank(x) < KindRank(y) => Of(x, y) = Ascending
                   /\ KindRank(y) < KindRank(x) => Of(x, y) = Descending
                   /\ KindRank(x) = KindRank(y) => x.kind = y.kind
                   /\ KindRank(x) \in Int
        <5>1. KindRank(x) \in Int /\ KindRank(y) \in Int
              /\ (KindRank(x) = KindRank(y) <=> x.kind = y.kind)
          BY <1>2, <4>1, <4>2
        <5>2. Of(x, y) \in Shelf
          BY <1>1
        <5>3. x.kind # y.kind => Of(x, y) = Ordered(KindRank(x), KindRank(y))
          BY <1>1, <4>2
        <5> QED BY <5>1, <5>2, <5>3 DEF Ordered
      <4>3. /\ Of(l, m) \in Shelf /\ Of(m, r) \in Shelf /\ Of(l, r) \in Shelf
            /\ KindRank(l) \in Int /\ KindRank(m) \in Int /\ KindRank(r) \in Int
            /\ ~(KindRank(l) = KindRank(m) /\ KindRank(m) = KindRank(r))
        BY <3>3, <4>2
      <4>4. /\ KindRank(l) < KindRank(m) => Of(l, m) = Ascending
            /\ KindRank(m) < KindRank(l) => Of(l, m) = Descending
            /\ KindRank(m) < KindRank(r) => Of(m, r) = Ascending
            /\ KindRank(r) < KindRank(m) => Of(m, r) = Descending
            /\ KindRank(l) < KindRank(r) => Of(l, r) = Ascending
            /\ KindRank(r) < KindRank(l) => Of(l, r) = Descending
        BY <3>3, <4>2
      <4> QED BY <4>3, <4>4, RanksCompose
    <3> QED BY <3>1, <3>2, <3>3
  <2> QED BY <1>3, <2>1, <2>2 DEF Of
<1>4. CASE ~(a = Same /\ b = Same)
  BY <1>4, ComposesTypes, SpecificationLater, LaterComposes
<1> QED BY <1>3, <1>4

LEMMA SegmentLater ==
  ASSUME NEW s \in Shelf, NEW l \in CallNumber, NEW r \in CallNumber,
         NEW k \in Nat \ {0}, k <= Segments(l, r)
  PROVE  Later(s, SegmentCompare(k, s, l, r, FALSE))
<1>1. Agree(s, s) /\ s \in Results
  BY ShelfResults
<1>2. Keeps(s, SegmentCompare(k, s, l, r, FALSE))
  BY <1>1, SegmentKeeps
<1>3. Agree(SegmentCompare(k, s, l, r, TRUE), SegmentCompare(k, s, l, r, FALSE))
  BY <1>1, SegmentAgrees
<1> QED BY <1>2, <1>3, LaterIs

LEMMA SegmentsCompose ==
  ASSUME NEW a, NEW b, NEW c, Composes(a, b, c),
         NEW l \in CallNumber, NEW m \in CallNumber, NEW r \in CallNumber,
         NEW k \in Nat \ {0}, k <= Segments(l, m), k <= Segments(m, r), k <= Segments(l, r)
  PROVE  Composes(SegmentCompare(k, a, l, m, FALSE), SegmentCompare(k, b, m, r, FALSE),
                  SegmentCompare(k, c, l, r, FALSE))
<1>1. ASSUME NEW n \in CallNumber
      PROVE  /\ n.letters \in Text /\ n.integer \in Nat \cup {Absent}
             /\ n.decimal \in Text /\ n.dateord \in Dateord
  BY DEF CallNumber
<1>2. CASE k = 1
  <2>1. /\ l.letters \in Text
        /\ m.letters \in Text
        /\ r.letters \in Text
    BY <1>1
  <2>2. /\ SegmentCompare(k, a, l, m, FALSE) = StringCompare(a, l.letters, m.letters, FALSE)
        /\ SegmentCompare(k, b, m, r, FALSE) = StringCompare(b, m.letters, r.letters, FALSE)
        /\ SegmentCompare(k, c, l, r, FALSE) = StringCompare(c, l.letters, r.letters, FALSE)
    BY <1>2 DEF SegmentCompare
  <2> QED BY <2>1, <2>2, StringsCompose
<1>3. CASE k = 2
  <2>1. /\ l.integer \in Nat \cup {Absent}
        /\ m.integer \in Nat \cup {Absent}
        /\ r.integer \in Nat \cup {Absent}
    BY <1>1
  <2>2. /\ SegmentCompare(k, a, l, m, FALSE) = IntegerCompare(a, l.integer, m.integer, FALSE)
        /\ SegmentCompare(k, b, m, r, FALSE) = IntegerCompare(b, m.integer, r.integer, FALSE)
        /\ SegmentCompare(k, c, l, r, FALSE) = IntegerCompare(c, l.integer, r.integer, FALSE)
    BY <1>3 DEF SegmentCompare
  <2> QED BY <2>1, <2>2, IntegerPartsCompose
<1>4. CASE k = 3
  <2>1. /\ l.decimal \in Text
        /\ m.decimal \in Text
        /\ r.decimal \in Text
    BY <1>1
  <2>2. /\ SegmentCompare(k, a, l, m, FALSE) = DecimalCompare(a, l.decimal, m.decimal, FALSE)
        /\ SegmentCompare(k, b, m, r, FALSE) = DecimalCompare(b, m.decimal, r.decimal, FALSE)
        /\ SegmentCompare(k, c, l, r, FALSE) = DecimalCompare(c, l.decimal, r.decimal, FALSE)
    BY <1>4 DEF SegmentCompare
  <2> QED BY <2>1, <2>2, DecimalsCompose
<1>5. CASE k = 4
  <2>1. /\ l.dateord \in Dateord
        /\ m.dateord \in Dateord
        /\ r.dateord \in Dateord
    BY <1>1
  <2>2. /\ SegmentCompare(k, a, l, m, FALSE) = DateordCompare(a, l.dateord, m.dateord, FALSE)
        /\ SegmentCompare(k, b, m, r, FALSE) = DateordCompare(b, m.dateord, r.dateord, FALSE)
        /\ SegmentCompare(k, c, l, r, FALSE) = DateordCompare(c, l.dateord, r.dateord, FALSE)
    BY <1>5 DEF SegmentCompare
  <2> QED BY <2>1, <2>2, DateordsCompose
<1>6. CASE k \in 5..7
  <2>1. l.cutters[k - 4] \in Cuttseg /\ m.cutters[k - 4] \in Cuttseg /\ r.cutters[k - 4] \in Cuttseg
    BY <1>6, PartsOfCallNumbers
  <2>2. k \notin {1, 2, 3, 4} /\ k \notin 8..9
    BY <1>6
  <2>3. /\ SegmentCompare(k, a, l, m, FALSE)
             = CuttsegCompare(a, l.cutters[k - 4], m.cutters[k - 4], FALSE)
        /\ SegmentCompare(k, b, m, r, FALSE)
             = CuttsegCompare(b, m.cutters[k - 4], r.cutters[k - 4], FALSE)
        /\ SegmentCompare(k, c, l, r, FALSE)
             = CuttsegCompare(c, l.cutters[k - 4], r.cutters[k - 4], FALSE)
    BY <1>6, <2>2 DEF SegmentCompare
  <2> QED BY <2>1, <2>3, CuttsegsCompose
<1>7. CASE k \in 8..9
  <2>1. /\ l.specifications[k - 7] \in Specification
        /\ m.specifications[k - 7] \in Specification
        /\ r.specifications[k - 7] \in Specification
    BY <1>7, PartsOfCallNumbers
  <2>2. k \notin {1, 2, 3, 4} /\ k \notin 5..7
    BY <1>7
  <2>3. /\ SegmentCompare(k, a, l, m, FALSE)
             = SpecificationCompare(a, l.specifications[k - 7], m.specifications[k - 7], FALSE)
        /\ SegmentCompare(k, b, m, r, FALSE)
             = SpecificationCompare(b, m.specifications[k - 7], r.specifications[k - 7], FALSE)
        /\ SegmentCompare(k, c, l, r, FALSE)
             = SpecificationCompare(c, l.specifications[k - 7], r.specifications[k - 7], FALSE)
    BY <1>7, <2>2 DEF SegmentCompare
  <2> QED BY <2>1, <2>3, SpecificationsCompose
<1>8. CASE k > 9
  <2>1. /\ l.remainder[k - 9] \in Specification
        /\ m.remainder[k - 9] \in Specification
        /\ r.remainder[k - 9] \in Specification
    BY <1>8, PartsOfCallNumbers
  <2>2. k \notin {1, 2, 3, 4} /\ k \notin 5..7 /\ k \notin 8..9
    BY <1>8
  <2>3. /\ SegmentCompare(k, a, l, m, FALSE)
             = SpecificationCompare(a, l.remainder[k - 9], m.remainder[k - 9], FALSE)
        /\ SegmentCompare(k, b, m, r, FALSE)
             = SpecificationCompare(b, m.remainder[k - 9], r.remainder[k - 9], FALSE)
        /\ SegmentCompare(k, c, l, r, FALSE)
             = SpecificationCompare(c, l.remainder[k - 9], r.remainder[k - 9], FALSE)
    BY <1>8, <2>2 DEF SegmentCompare
  <2> QED BY <2>1, <2>3, SpecificationsCompose
<1>9. k = 1 \/ k = 2 \/ k = 3 \/ k = 4 \/ k \in 5..7 \/ k \in 8..9 \/ k > 9
  OBVIOUS
<1> QED BY <1>2, <1>3, <1>4, <1>5, <1>6, <1>7, <1>8, <1>9

-----------------------------------------------------------------------------
(* The comparison of two whole call numbers.                               *)

(* What holds of 0, and of a number when it holds of the one before.       *)
LEMMA UpTo ==
  ASSUME NEW n \in Nat, NEW S, 0 \in S, \A k \in 1..n : k - 1 \in S => k \in S
  PROVE  \A k \in 0..n : k \in S
<1> DEFINE D == {k \in 0..n : k \notin S}
           Less == {ss \in Nat \X Nat : ss[1] < ss[2]}
<1>1. SUFFICES ASSUME D # {} PROVE FALSE
  OBVIOUS
<1>2. IsWellFoundedOn(Less, Nat)
  BY NatLessThanWellFounded DEF OpToRel
<1>3. PICK x \in D : \A y \in D : ~(<<y, x>> \in Less)
  <2>1. D \subseteq Nat
    OBVIOUS
  <2> HIDE DEF D, Less
  <2> QED BY <1>1, <1>2, <2>1, WFMin
<1>4. x \in 1..n /\ x - 1 \in 0..n
  OBVIOUS
<1>5. x - 1 \notin D
  <2>1. <<x - 1, x>> \in Less
    BY <1>4
  <2> QED BY <1>3, <2>1
<1> QED BY <1>4, <1>5

LEMMA SegmentsType ==
  ASSUME NEW l \in CallNumber, NEW r \in CallNumber
  PROVE  /\ Len(l.remainder) \in Nat /\ Len(r.remainder) \in Nat
         /\ Segments(l, r) = 9 + (IF Len(l.remainder) <= Len(r.remainder)
                                  THEN Len(l.remainder) ELSE Len(r.remainder))
         /\ Segments(l, r) \in Nat
<1> DEFINE x == Len(l.remainder)
           y == Len(r.remainder)
<1>1. x \in Nat /\ y \in Nat
  BY DEF CallNumber
<1>2. Segments(l, r) = 9 + Min({x, y})
  BY DEF Segments
<1> HIDE DEF x, y
<1>3. Min({x, y}) = IF x <= y THEN x ELSE y
  <2>1. CASE x <= y
    <3>1. x \in {x, y} /\ \A z \in {x, y} : x <= z
      BY <1>1, <2>1
    <3>2. \A w \in {x, y} : (\A z \in {x, y} : w <= z) => w = x
      BY <1>1, <2>1
    <3>3. Min({x, y}) = x
      BY <3>1, <3>2 DEF Min
    <3> QED BY <2>1, <3>3
  <2>2. CASE ~(x <= y)
    <3>1. y \in {x, y} /\ \A z \in {x, y} : y <= z
      BY <1>1, <2>2
    <3>2. \A w \in {x, y} : (\A z \in {x, y} : w <= z) => w = y
      BY <1>1, <2>2
    <3>3. Min({x, y}) = y
      BY <3>1, <3>2 DEF Min
    <3> QED BY <2>2, <3>3
  <2> QED BY <2>1, <2>2
<1> QED BY <1>1, <1>2, <1>3 DEF x, y

IsStatuses(f, l, r, spec) ==
  f = [k \in 0..Segments(l, r) |->
         IF k = 0 THEN Same ELSE SegmentCompare(k, f[k - 1], l, r, spec)]

LEMMA StatusesExist ==
  ASSUME NEW l \in CallNumber, NEW r \in CallNumber, NEW spec \in BOOLEAN
  PROVE  \E f : IsStatuses(f, l, r, spec)
<1> DEFINE IsPart(g, m) ==
             g = [k \in 0..m |-> IF k = 0 THEN Same ELSE SegmentCompare(k, g[k - 1], l, r, spec)]
           S == {m \in 0..Segments(l, r) : \E g : IsPart(g, m)}
<1>1. Segments(l, r) \in Nat
  BY SegmentsType
<1>2. 0 \in S
  <2>1. IsPart([k \in 0..0 |-> Same], 0)
    OBVIOUS
  <2> HIDE DEF IsPart
  <2> QED BY <1>1, <2>1
<1>3. ASSUME NEW m \in 1..Segments(l, r), m - 1 \in S
      PROVE  m \in S
  <2>1. PICK g : IsPart(g, m - 1)
    BY <1>3
  <2> DEFINE h == [k \in 0..m |-> IF k = m THEN SegmentCompare(m, g[m - 1], l, r, spec) ELSE g[k]]
  <2>2. \A k \in 0..(m - 1) : g[k] = IF k = 0 THEN Same ELSE SegmentCompare(k, g[k - 1], l, r, spec)
    BY <2>1
  <2>3. h[0] = Same
    BY <2>2
  <2>4. \A k \in 1..m : h[k] = SegmentCompare(k, h[k - 1], l, r, spec)
    BY <2>2
  <2>5. h = [k \in 0..m |-> h[k]]
    OBVIOUS
  <2> HIDE DEF h
  <2>6. \A k \in 0..m : h[k] = IF k = 0 THEN Same ELSE SegmentCompare(k, h[k - 1], l, r, spec)
    BY <2>3, <2>4
  <2>7. IsPart(h, m)
    BY <2>5, <2>6
  <2> HIDE DEF IsPart
  <2> QED BY <1>1, <2>7
<1> HIDE DEF S
<1>4. \A m \in 1..Segments(l, r) : m - 1 \in S => m \in S
  BY <1>3
<1>5. \A m \in 0..Segments(l, r) : m \in S
  BY <1>1, <1>2, <1>4, UpTo
<1>6. Segments(l, r) \in S
  BY <1>1, <1>5
<1> QED BY <1>6 DEF S, IsStatuses

LEMMA StatusesAre ==
  ASSUME NEW l \in CallNumber, NEW r \in CallNumber, NEW spec \in BOOLEAN
  PROVE  /\ Statuses(l, r, spec)[0] = Same
         /\ \A k \in 1..Segments(l, r) :
              Statuses(l, r, spec)[k] = SegmentCompare(k, Statuses(l, r, spec)[k - 1], l, r, spec)
<1> DEFINE f == CHOOSE f : f = [k \in 0..Segments(l, r) |->
                  IF k = 0 THEN Same ELSE SegmentCompare(k, f[k - 1], l, r, spec)]
<1>1. IsStatuses(f, l, r, spec)
  BY StatusesExist DEF IsStatuses
<1>2. Statuses(l, r, spec) = f
  BY DEF Statuses
<1> HIDE DEF f
<1>3. Segments(l, r) \in Nat
  BY SegmentsType
<1>4. f[0] = Same /\ \A k \in 1..Segments(l, r) : f[k] = SegmentCompare(k, f[k - 1], l, r, spec)
  BY <1>1, <1>3 DEF IsStatuses
<1> QED BY <1>2, <1>4

LEMMA StatusesOnTheShelf ==
  ASSUME NEW l \in CallNumber, NEW r \in CallNumber, NEW n \in 0..Segments(l, r)
  PROVE  /\ \A k \in 0..Segments(l, r) : Statuses(l, r, FALSE)[k] \in Shelf
         /\ \A k \in n..Segments(l, r) :
              Later(Statuses(l, r, FALSE)[n], Statuses(l, r, FALSE)[k])
<1> DEFINE f == Statuses(l, r, FALSE)
           S == {k \in 0..Segments(l, r) : f[k] \in Shelf}
           T == {k \in 0..Segments(l, r) : k < n \/ Later(f[n], f[k])}
<1>1. Segments(l, r) \in Nat
  BY SegmentsType
<1>2. f[0] = Same /\ \A k \in 1..Segments(l, r) : f[k] = SegmentCompare(k, f[k - 1], l, r, FALSE)
  BY StatusesAre
<1> HIDE DEF f
<1>3. \A k \in 1..Segments(l, r) : f[k - 1] \in Shelf => Later(f[k - 1], f[k])
  <2> SUFFICES ASSUME NEW k \in 1..Segments(l, r), f[k - 1] \in Shelf
               PROVE  Later(f[k - 1], f[k])
    OBVIOUS
  <2>1. k \in Nat \ {0} /\ k <= Segments(l, r)
    BY <1>1
  <2>2. Later(f[k - 1], SegmentCompare(k, f[k - 1], l, r, FALSE))
    BY <2>1, SegmentLater
  <2> QED BY <1>2, <2>2
<1>4. \A k \in 0..Segments(l, r) : f[k] \in Shelf
  <2>1. 0 \in S
    BY <1>1, <1>2 DEF Shelf
  <2>2. \A k \in 1..Segments(l, r) : k - 1 \in S => k \in S
    BY <1>1, <1>3 DEF Later
  <2> HIDE DEF S
  <2>3. \A k \in 0..Segments(l, r) : k \in S
    BY <1>1, <2>1, <2>2, UpTo
  <2> QED BY <2>3 DEF S
<1>5. \A k \in n..Segments(l, r) : Later(f[n], f[k])
  <2>1. 0 \in T
    BY <1>1, <1>4 DEF Later
  <2>2. ASSUME NEW k \in 1..Segments(l, r), k - 1 \in T PROVE k \in T
    <3>1. CASE k < n
      BY <1>1, <3>1
    <3>2. CASE k = n
      BY <1>1, <1>4, <3>2 DEF Later
    <3>3. CASE k > n
      <4>1. Later(f[n], f[k - 1]) /\ Later(f[k - 1], f[k])
        BY <1>1, <1>3, <1>4, <2>2, <3>3
      <4>2. Later(f[n], f[k])
        BY <4>1 DEF Later
      <4> QED BY <1>1, <4>2
    <3> QED BY <1>1, <3>1, <3>2, <3>3
  <2> HIDE DEF T
  <2>3. \A k \in 1..Segments(l, r) : k - 1 \in T => k \in T
    BY <2>2
  <2>4. \A k \in 0..Segments(l, r) : k \in T
    BY <1>1, <2>1, <2>3, UpTo
  <2>5. ASSUME NEW k \in n..Segments(l, r) PROVE Later(f[n], f[k])
    <3>1. k \in T /\ ~(k < n)
      BY <1>1, <2>4
    <3> QED BY <3>1 DEF T
  <2> QED BY <2>5
<1> QED BY <1>4, <1>5 DEF f

(* After as many parts as all three have.                                  *)
LEMMA StatusesCompose ==
  ASSUME NEW l \in CallNumber, NEW m \in CallNumber, NEW r \in CallNumber,
         NEW n \in Nat, n <= Segments(l, m), n <= Segments(m, r), n <= Segments(l, r)
  PROVE  Composes(Statuses(l, m, FALSE)[n], Statuses(m, r, FALSE)[n], Statuses(l, r, FALSE)[n])
<1> DEFINE f == Statuses(l, m, FALSE)
           g == Statuses(m, r, FALSE)
           h == Statuses(l, r, FALSE)
           S == {k \in 0..n : Composes(f[k], g[k], h[k])}
<1>1. Segments(l, m) \in Nat /\ Segments(m, r) \in Nat /\ Segments(l, r) \in Nat
  BY SegmentsType
<1>2. f[0] = Same /\ \A k \in 1..Segments(l, m) : f[k] = SegmentCompare(k, f[k - 1], l, m, FALSE)
  BY StatusesAre
<1>3. g[0] = Same /\ \A k \in 1..Segments(m, r) : g[k] = SegmentCompare(k, g[k - 1], m, r, FALSE)
  BY StatusesAre
<1>4. h[0] = Same /\ \A k \in 1..Segments(l, r) : h[k] = SegmentCompare(k, h[k - 1], l, r, FALSE)
  BY StatusesAre
<1> HIDE DEF f, g, h
<1>5. 0 \in S
  BY <1>2, <1>3, <1>4 DEF Composes, Shelf
<1>6. ASSUME NEW k \in 1..n, k - 1 \in S PROVE k \in S
  <2>1. /\ k \in Nat \ {0}
        /\ k <= Segments(l, m) /\ k <= Segments(m, r) /\ k <= Segments(l, r)
    BY <1>1
  <2>2. Composes(f[k - 1], g[k - 1], h[k - 1])
    BY <1>6
  <2>3. Composes(SegmentCompare(k, f[k - 1], l, m, FALSE), SegmentCompare(k, g[k - 1], m, r, FALSE),
                 SegmentCompare(k, h[k - 1], l, r, FALSE))
    BY <2>1, <2>2, SegmentsCompose
  <2>4. /\ f[k] = SegmentCompare(k, f[k - 1], l, m, FALSE)
        /\ g[k] = SegmentCompare(k, g[k - 1], m, r, FALSE)
        /\ h[k] = SegmentCompare(k, h[k - 1], l, r, FALSE)
    <3>1. k \in 1..Segments(l, m) /\ k \in 1..Segments(m, r) /\ k \in 1..Segments(l, r)
      BY <1>1, <2>1
    <3> QED BY <1>2, <1>3, <1>4, <3>1
  <2>5. Composes(f[k], g[k], h[k])
    BY <2>3, <2>4
  <2> QED BY <2>5
<1> HIDE DEF S
<1>7. \A k \in 1..n : k - 1 \in S => k \in S
  BY <1>6
<1>8. \A k \in 0..n : k \in S
  BY <1>5, <1>7, UpTo
<1>9. Composes(f[n], g[n], h[n])
  BY <1>8 DEF S
<1> QED BY <1>9 DEF f, g, h

(* What compare: says of two numbers, seen after n of their parts.         *)
LEMMA CompareIsLater ==
  ASSUME NEW l \in CallNumber, NEW r \in CallNumber, NEW n \in 0..Segments(l, r)
  PROVE  /\ Later(Statuses(l, r, FALSE)[n], Compare(l, r, FALSE))
         /\ Statuses(l, r, FALSE)[n] = Same /\ n = Segments(l, r) =>
              Compare(l, r, FALSE) =
                IF Len(l.remainder) = Len(r.remainder) THEN Same
                ELSE Ordered(Len(l.remainder), Len(r.remainder))
<1> DEFINE f == Statuses(l, r, FALSE)
           s == f[Segments(l, r)]
<1>1. Segments(l, r) \in Nat
  BY SegmentsType
<1>2. Later(f[n], s) /\ s \in Shelf
  <2>1. Segments(l, r) \in n..Segments(l, r) /\ Segments(l, r) \in 0..Segments(l, r)
    BY <1>1
  <2> QED BY <2>1, StatusesOnTheShelf
<1>3. Compare(l, r, FALSE) = RemainderCompare(s, l, r, FALSE)
  BY DEF Compare
<1> HIDE DEF f, s
<1>4. Later(s, RemainderCompare(s, l, r, FALSE))
  BY <1>2, ShelfResults, RemainderKeeps, RemainderAgrees, LaterIs
<1>5. Later(f[n], RemainderCompare(s, l, r, FALSE))
  BY <1>2, <1>4 DEF Later
<1>6. ASSUME f[n] = Same, n = Segments(l, r)
      PROVE  RemainderCompare(s, l, r, FALSE) =
               IF Len(l.remainder) = Len(r.remainder) THEN Same
               ELSE Ordered(Len(l.remainder), Len(r.remainder))
  <2>1. s = Same
    BY <1>6 DEF s
  <2> QED BY <2>1 DEF RemainderCompare, Within, Linear, Ordered
<1> QED BY <1>3, <1>5, <1>6 DEF f

LEMMA CompareComposes ==
  ASSUME NEW l \in CallNumber, NEW m \in CallNumber, NEW r \in CallNumber
  PROVE  Composes(Compare(l, m, FALSE), Compare(m, r, FALSE), Compare(l, r, FALSE))
<1> DEFINE x == Len(l.remainder)
           y == Len(m.remainder)
           z == Len(r.remainder)
           least == IF x <= y THEN IF x <= z THEN x ELSE z ELSE IF y <= z THEN y ELSE z
           n == 9 + least
           a == Statuses(l, m, FALSE)[n]
           b == Statuses(m, r, FALSE)[n]
           c == Statuses(l, r, FALSE)[n]
           d == Compare(l, m, FALSE)
           e == Compare(m, r, FALSE)
           f == Compare(l, r, FALSE)
<1>1. x \in Nat /\ y \in Nat /\ z \in Nat
  BY SegmentsType
<1>2. /\ Segments(l, m) = 9 + (IF x <= y THEN x ELSE y)
      /\ Segments(m, r) = 9 + (IF y <= z THEN y ELSE z)
      /\ Segments(l, r) = 9 + (IF x <= z THEN x ELSE z)
  BY SegmentsType
<1> HIDE DEF x, y, z
<1>3. /\ n \in Nat
      /\ n <= Segments(l, m) /\ n <= Segments(m, r) /\ n <= Segments(l, r)
      /\ n \in 0..Segments(l, m) /\ n \in 0..Segments(m, r) /\ n \in 0..Segments(l, r)
  BY <1>1, <1>2
<1>4. /\ (x <= z /\ x <= y) \/ (y <= z /\ y <= x) => n = Segments(l, m)
      /\ (y <= x /\ y <= z) \/ (z <= x /\ z <= y) => n = Segments(m, r)
      /\ (x <= y /\ x <= z) \/ (z <= x /\ z <= y) => n = Segments(l, r)
  BY <1>1, <1>2
<1> HIDE DEF n
<1>5. Composes(a, b, c)
  BY <1>3, StatusesCompose
<1>6. Later(a, d) /\ (a = Same /\ n = Segments(l, m) => d = IF x = y THEN Same ELSE Ordered(x, y))
  BY <1>3, CompareIsLater DEF x, y
<1>7. Later(b, e) /\ (b = Same /\ n = Segments(m, r) => e = IF y = z THEN Same ELSE Ordered(y, z))
  BY <1>3, CompareIsLater DEF y, z
<1>8. Later(c, f) /\ (c = Same /\ n = Segments(l, r) => f = IF x = z THEN Same ELSE Ordered(x, z))
  BY <1>3, CompareIsLater DEF x, z
<1> HIDE DEF a, b, c, d, e, f
<1>9. CASE ~(a = Same /\ b = Same)
  BY <1>5, <1>6, <1>7, <1>8, <1>9, LaterComposes DEF d, e, f
<1>10. CASE a = Same /\ b = Same
  <2>1. c = Same
    BY <1>5, <1>10, ComposesTypes
  <2>2. d \in Shelf /\ e \in Shelf /\ f \in Shelf
    BY <1>6, <1>7, <1>8 DEF Later
  <2>3. /\ (x <= z /\ x <= y) \/ (y <= z /\ y <= x) => d = IF x = y THEN Same ELSE Ordered(x, y)
        /\ (y <= x /\ y <= z) \/ (z <= x /\ z <= y) => e = IF y = z THEN Same ELSE Ordered(y, z)
        /\ (x <= y /\ x <= z) \/ (z <= x /\ z <= y) => f = IF x = z THEN Same ELSE Ordered(x, z)
    BY <1>4, <1>6, <1>7, <1>8, <1>10, <2>1
  <2>4. Composes(d, e, f)
    BY <1>1, <2>2, <2>3 DEF Composes, Ordered, Shelf
  <2> QED BY <2>4 DEF d, e, f
<1> QED BY <1>9, <1>10

-----------------------------------------------------------------------------

(* The comparison in steps is the comparison in one step.                  *)
InSteps ==
  /\ left \in CallNumbers /\ right \in CallNumbers
  /\ segment \in 1..(Segments(left, right) + 2)
  /\ segment <= Segments(left, right) + 1 =>
       result = Statuses(left, right, specify)[segment - 1]
  /\ Compared => result = Compare(left, right, specify)

LEMMA StepsAreCompare == Spec => []InSteps
<1>1. Init => InSteps
  <2> SUFFICES ASSUME Init PROVE InSteps
    OBVIOUS
  <2>1. left \in CallNumber /\ right \in CallNumber /\ specify \in BOOLEAN
    BY CallNumberAssumption DEF Init
  <2>2. Segments(left, right) \in Nat
    BY <2>1, SegmentsType
  <2>3. Statuses(left, right, specify)[0] = Same
    BY <2>1, StatusesAre
  <2> QED BY <2>2, <2>3 DEF Init, InSteps, Compared
<1>2. TypeOK /\ InSteps /\ [Next]_vars => InSteps'
  <2> SUFFICES ASSUME TypeOK, InSteps, [Next]_vars PROVE InSteps'
    OBVIOUS
  <2> DEFINE n == Segments(left, right)
  <2>1. n \in Nat
    BY SegmentsType DEF TypeOK
  <2>2. CASE CompareSegment
    <3>1. /\ segment <= n /\ segment' = segment + 1
          /\ left' = left /\ right' = right /\ specify' = specify
          /\ result' = SegmentCompare(segment, result, left, right, specify)
      BY <2>2 DEF CompareSegment, question
    <3>2. segment \in 1..n /\ result = Statuses(left, right, specify)[segment - 1]
      BY <2>1, <3>1 DEF InSteps
    <3>3. result' = Statuses(left, right, specify)[segment]
      BY <3>1, <3>2, StatusesAre DEF TypeOK
    <3>4. (segment' - 1) = segment /\ segment' \in 1..(n + 2) /\ segment' # n + 2
      BY <2>1, <3>1, <3>2
    <3> QED BY <3>1, <3>3, <3>4 DEF InSteps, Compared
  <2>3. CASE CompareRemainders
    <3>1. /\ segment = n + 1 /\ segment' = segment + 1
          /\ left' = left /\ right' = right /\ specify' = specify
          /\ result' = RemainderCompare(result, left, right, specify)
      BY <2>3 DEF CompareRemainders, question
    <3>2. result = Statuses(left, right, specify)[n]
      BY <2>1, <3>1 DEF InSteps
    <3>3. result' = Compare(left, right, specify)
      BY <3>1, <3>2 DEF Compare
    <3>4. segment' = n + 2 /\ segment' \in 1..(n + 2) /\ ~(segment' <= n + 1)
      BY <2>1, <3>1
    <3> QED BY <3>1, <3>3, <3>4 DEF InSteps, Compared
  <2>4. CASE UNCHANGED vars
    BY <2>4 DEF vars, question, InSteps, Compared
  <2> QED BY <2>2, <2>3, <2>4 DEF Next
<1> QED BY <1>1, <1>2, TypeCorrect, PTL DEF Spec

(* Whatever the call numbers, compare: puts them in one order: a number    *)
(* before or at a second, which is before or at a third, is before or at   *)
(* the third, and at it only when all three are equal.                     *)
THEOREM ShelfOrderIsAnOrder == Spec => []ShelfOrderIsTransitive
<1>1. ASSUME TypeOK, InSteps PROVE ShelfOrderIsTransitive
  <2> SUFFICES ASSUME Compared, ~specify, result # Descending,
                      NEW third \in CallNumbers, Order[right][third] # Descending
               PROVE  /\ Order[left][third] # Descending
                      /\ Order[left][third] = Same => result = Same
    BY DEF ShelfOrderIsTransitive
  <2>1. left \in CallNumbers /\ right \in CallNumbers /\ result = Compare(left, right, specify)
    BY <1>1 DEF InSteps
  <2>2. left \in CallNumber /\ right \in CallNumber /\ third \in CallNumber
    BY <2>1, CallNumberAssumption
  <2>3. Composes(Compare(left, right, FALSE), Compare(right, third, FALSE),
                 Compare(left, third, FALSE))
    BY <2>2, CompareComposes
  <2>4. /\ Order[right][third] = Compare(right, third, FALSE)
        /\ Order[left][third] = Compare(left, third, FALSE)
    BY <2>1 DEF Order
  <2>5. result = Compare(left, right, FALSE)
    <3>1. specify = FALSE
      BY <1>1 DEF TypeOK
    <3> QED BY <2>1, <3>1
  <2> QED BY <2>3, <2>4, <2>5 DEF Composes, Shelf
<1> QED BY <1>1, TypeCorrect, StepsAreCompare, PTL

-----------------------------------------------------------------------------
(* Inclusion is the same from either side, but for late dates.             *)

(* Two results of compareWithCallNumber:, asked in the two directions.     *)
Opposed(a, b) ==
  \/ a = Same /\ b = Same
  \/ a = Ascending /\ b = Descending
  \/ a = Descending /\ b = Ascending
  \/ a = Specifying /\ b = Generalizing
  \/ a = Generalizing /\ b = Specifying

LEMMA OpposedTypes ==
  ASSUME NEW a, NEW b, Opposed(a, b)
  PROVE  /\ a \in Results /\ b \in Results
         /\ a = Same <=> b = Same
         /\ a \in Decided <=> b \in Decided
         /\ Opposed(Linear(a), Linear(b))
         /\ Opposed(b, a)
BY DEF Opposed, Results, Decided, Linear

LEMMA WithinOpposed ==
  ASSUME NEW a, NEW b, Opposed(a, b), NEW spec \in BOOLEAN
  PROVE  Opposed(Within(spec, a), Within(spec, b))
BY DEF Opposed, Within, Linear

LEMMA OrderedOpposed ==
  ASSUME NEW x \in Int, NEW y \in Int
  PROVE  /\ x # y => Opposed(Ordered(x, y), Ordered(y, x))
         /\ Opposed(IF x = y THEN Same ELSE Ordered(x, y), IF x = y THEN Same ELSE Ordered(y, x))
BY DEF Opposed, Ordered

LEMMA TextOpposed ==
  ASSUME NEW l \in Text, NEW r \in Text
  PROVE  Opposed(StringBase(l, r), StringBase(r, l))
<1> DEFINE there == StringBase(l, r)
           back == StringBase(r, l)
           i == Min(Differences(l, r))
<1>1. Differences(l, r) = Differences(r, l)
  <2>1. Len(l) + Len(r) = Len(r) + Len(l)
    BY DEF Text
  <2> QED BY <2>1 DEF Differences
<1>2. CASE Differences(l, r) = {}
  BY <1>1, <1>2 DEF StringBase, Opposed
<1>3. CASE Differences(l, r) # {}
  <2>1. i \in Nat /\ At(l, i) # At(r, i)
    <3>1. i \in Differences(l, r)
      BY <1>3, FirstDifference
    <3> HIDE DEF i
    <3> QED BY <3>1 DEF Differences
  <2> DEFINE x == At(l, i)
             y == At(r, i)
  <2>2. x \in Int /\ y \in Int /\ x # y
    BY <2>1, AtType
  <2>3. /\ there = IF x = 0 THEN Specifying
                   ELSE IF y = 0 THEN Generalizing ELSE Ordered(x, y)
        /\ back = IF y = 0 THEN Specifying
                  ELSE IF x = 0 THEN Generalizing ELSE Ordered(y, x)
    BY <1>1, <1>3 DEF StringBase
  <2> HIDE DEF there, back, x, y
  <2>4. Opposed(there, back)
    BY <2>2, <2>3 DEF Opposed, Ordered
  <2> QED BY <2>4 DEF there, back
<1> QED BY <1>2, <1>3

LEMMA AfterSpecializationOpposed ==
  ASSUME NEW a, NEW b, Opposed(a, b), NEW le \in BOOLEAN, NEW re \in BOOLEAN
  PROVE  Opposed(AfterSpecialization(a, le, re), AfterSpecialization(b, re, le))
BY DEF Opposed, AfterSpecialization, Linear

LEMMA StringOpposed ==
  ASSUME NEW a, NEW b, Opposed(a, b), NEW l \in Text, NEW r \in Text, NEW spec \in BOOLEAN
  PROVE  Opposed(StringCompare(a, l, r, spec), StringCompare(b, r, l, spec))
<1>1. CASE a \in Decided
  BY <1>1, OpposedTypes DEF StringCompare
<1>2. CASE a = Same
  <2>1. b = Same
    BY <1>2, OpposedTypes
  <2>2. /\ StringCompare(a, l, r, spec) = Within(spec, StringBase(l, r))
        /\ StringCompare(b, r, l, spec) = Within(spec, StringBase(r, l))
    BY <1>2, <2>1 DEF StringCompare, Decided
  <2> QED BY <2>2, TextOpposed, WithinOpposed
<1>3. CASE a \notin Decided /\ a # Same
  <2>1. b \notin Decided /\ b # Same
    BY <1>3, OpposedTypes
  <2> DEFINE there == AfterSpecialization(a, Empty(l), Empty(r))
             back == AfterSpecialization(b, Empty(r), Empty(l))
  <2>2. Opposed(there, back)
    BY AfterSpecializationOpposed DEF Empty
  <2>3. StringCompare(a, l, r, spec) = Within(spec, there)
    BY <1>3 DEF StringCompare
  <2>4. StringCompare(b, r, l, spec) = Within(spec, back)
    BY <2>1 DEF StringCompare
  <2> HIDE DEF there, back
  <2> QED BY <2>2, <2>3, <2>4, WithinOpposed
<1> QED BY <1>1, <1>2, <1>3

LEMMA DecimalOpposed ==
  ASSUME NEW a, NEW b, Opposed(a, b), NEW l \in Text, NEW r \in Text, NEW spec \in BOOLEAN
  PROVE  Opposed(DecimalCompare(a, l, r, spec), DecimalCompare(b, r, l, spec))
<1>1. CASE a \in Decided
  BY <1>1, OpposedTypes DEF DecimalCompare
<1>2. CASE a = Same
  <2>1. b = Same
    BY <1>2, OpposedTypes
  <2>2. /\ DecimalCompare(a, l, r, spec) = Within(spec, DecimalBase(l, r))
        /\ DecimalCompare(b, r, l, spec) = Within(spec, DecimalBase(r, l))
    BY <1>2, <2>1 DEF DecimalCompare, Decided
  <2>3. Opposed(DecimalBase(l, r), DecimalBase(r, l))
    BY TextOpposed, OpposedTypes DEF DecimalBase
  <2> QED BY <2>2, <2>3, WithinOpposed
<1>3. CASE a \notin Decided /\ a # Same
  <2>1. b \notin Decided /\ b # Same
    BY <1>3, OpposedTypes
  <2> DEFINE there == AfterSpecialization(a, Empty(l), Empty(r))
             back == AfterSpecialization(b, Empty(r), Empty(l))
  <2>2. Opposed(there, back)
    BY AfterSpecializationOpposed DEF Empty
  <2>3. DecimalCompare(a, l, r, spec) = Within(spec, there)
    BY <1>3 DEF DecimalCompare
  <2>4. DecimalCompare(b, r, l, spec) = Within(spec, back)
    BY <2>1 DEF DecimalCompare
  <2> HIDE DEF there, back
  <2> QED BY <2>2, <2>3, <2>4, WithinOpposed
<1> QED BY <1>1, <1>2, <1>3

LEMMA SettledOpposed ==
  ASSUME NEW a, NEW b, Opposed(a, b), NEW le \in BOOLEAN, NEW re \in BOOLEAN
  PROVE  /\ Settles(a, le, re) <=> Settles(b, re, le)
         /\ Settles(a, le, re) =>
              Opposed(Settled(a, le, re, TRUE), Settled(b, re, le, TRUE))
<1>1. Settles(a, le, re) <=> Settles(b, re, le)
  BY DEF Opposed, Settles, Decided
<1>2. Settles(a, le, re) => Opposed(Settled(a, le, re, TRUE), Settled(b, re, le, TRUE))
  BY DEF Opposed, Settles, Settled, Within, Linear, Decided
<1> QED BY <1>1, <1>2

LEMMA IntegerOpposed ==
  ASSUME NEW a, NEW b, Opposed(a, b), NEW l \in Nat \cup {Absent}, NEW r \in Nat \cup {Absent}
  PROVE  Opposed(IntegerCompare(a, l, r, TRUE), IntegerCompare(b, r, l, TRUE))
<1> DEFINE le == l = Absent
           re == r = Absent
<1>1. CASE Settles(a, le, re)
  <2>1. Settles(b, re, le) /\ Opposed(Settled(a, le, re, TRUE), Settled(b, re, le, TRUE))
    BY <1>1, SettledOpposed
  <2> QED BY <1>1, <2>1 DEF IntegerCompare
<1>2. CASE ~Settles(a, le, re)
  <2>1. ~Settles(b, re, le)
    BY <1>2, SettledOpposed
  <2>2. /\ IntegerCompare(a, l, r, TRUE) =
             IF a # Same THEN Linear(a) ELSE IF l = r THEN Same ELSE Ordered(l, r)
        /\ IntegerCompare(b, r, l, TRUE) =
             IF b # Same THEN Linear(b) ELSE IF l = r THEN Same ELSE Ordered(r, l)
    BY <1>2, <2>1 DEF IntegerCompare
  <2>3. l \in Int /\ r \in Int
    BY DEF Absent
  <2>4. Opposed(IF l = r THEN Same ELSE Ordered(l, r), IF l = r THEN Same ELSE Ordered(r, l))
    BY <2>3, OrderedOpposed
  <2> QED BY <2>2, <2>4, OpposedTypes
<1> QED BY <1>1, <1>2

LEMMA YearOpposed ==
  ASSUME NEW a, NEW b, Opposed(a, b), NEW l \in Int, NEW r \in Int
  PROVE  Opposed(YearCompare(a, l, r), YearCompare(b, r, l))
<1>1. CASE a \in Decided \/ l = r
  BY <1>1, OpposedTypes DEF YearCompare
<1>2. CASE ~(a \in Decided \/ l = r)
  <2>1. YearCompare(a, l, r) = Ordered(l, r) /\ YearCompare(b, r, l) = Ordered(r, l)
    BY <1>2, OpposedTypes DEF YearCompare
  <2> QED BY <1>2, <2>1, OrderedOpposed
<1> QED BY <1>1, <1>2

LEMMA FormOpposed ==
  ASSUME NEW a, NEW b, Opposed(a, b), NEW l \in Date, NEW r \in Date, l.form # r.form
  PROVE  Opposed(FormCompare(a, l, r, TRUE), FormCompare(b, r, l, TRUE))
<1>1. DateRank(l) \in Int /\ DateRank(r) \in Int /\ DateRank(l) # DateRank(r)
  BY DateForms
<1>2. /\ FormCompare(a, l, r, TRUE) =
           IF a # Same THEN Linear(a)
           ELSE IF DateRank(l) < DateRank(r) THEN Specifying ELSE Generalizing
      /\ FormCompare(b, r, l, TRUE) =
           IF b # Same THEN Linear(b)
           ELSE IF DateRank(r) < DateRank(l) THEN Specifying ELSE Generalizing
  BY DEF FormCompare, Within
<1>3. Opposed(IF DateRank(l) < DateRank(r) THEN Specifying ELSE Generalizing,
              IF DateRank(r) < DateRank(l) THEN Specifying ELSE Generalizing)
  BY <1>1 DEF Opposed
<1>4. CASE a = Same
  <2>1. b = Same
    BY <1>4, OpposedTypes
  <2> QED BY <1>2, <1>3, <1>4, <2>1
<1>5. CASE a # Same
  <2>1. b # Same
    BY <1>5, OpposedTypes
  <2>2. Opposed(Linear(a), Linear(b))
    BY OpposedTypes
  <2> QED BY <1>2, <1>5, <2>1, <2>2
<1> QED BY <1>4, <1>5

(* Two days of one month that are compared late are ascending both ways.   *)
LEMMA DayOpposed ==
  ASSUME NEW a, NEW b, Opposed(a, b), a \notin Decided, NEW l \in Date, NEW r \in Date,
         l.form = "day", r.form = "day", ~(a # Same /\ OnOtherDays(l, r))
  PROVE  Opposed(DayCompare(a, l, r, TRUE), DayCompare(b, r, l, TRUE))
<1>1. l.month \in Int /\ r.month \in Int /\ l.day \in Int /\ r.day \in Int
  BY DateForms
<1>2. CASE a = Same
  <2>1. b = Same
    BY <1>2, OpposedTypes
  <2> QED BY <1>1, <1>2, <2>1 DEF DayCompare, Opposed, Ordered
<1>3. CASE a # Same
  <2>1. b # Same
    BY <1>3, OpposedTypes
  <2>2. l.month # r.month \/ l.day = r.day
    BY <1>3 DEF OnOtherDays
  <2>3. /\ DayCompare(a, l, r, TRUE) = IF l.month # r.month THEN Linear(a) ELSE a
        /\ DayCompare(b, r, l, TRUE) = IF l.month # r.month THEN Linear(b) ELSE b
    BY <1>3, <2>1, <2>2 DEF DayCompare
  <2>4. Opposed(Linear(a), Linear(b))
    BY OpposedTypes
  <2>5. CASE l.month # r.month
    BY <2>3, <2>4, <2>5
  <2>6. CASE l.month = r.month
    BY <2>3, <2>6
  <2> QED BY <2>5, <2>6
<1> QED BY <1>2, <1>3

LEMMA DateOpposed ==
  ASSUME NEW a, NEW b, Opposed(a, b), NEW l \in Date, NEW r \in Date,
         ~(a \in {Specifying, Generalizing} /\ OnOtherDays(l, r))
  PROVE  Opposed(DateCompare(a, l, r, TRUE), DateCompare(b, r, l, TRUE))
<1> DEFINE Form(year, x, y) ==
             IF year \in Decided THEN year
             ELSE IF x.form # y.form THEN FormCompare(year, x, y, TRUE)
             ELSE IF x.form = "span" THEN YearCompare(year, x.span, y.span)
             ELSE IF x.form = "day" THEN DayCompare(year, x, y, TRUE)
             ELSE year
           c == YearCompare(a, l.year, r.year)
           d == YearCompare(b, r.year, l.year)
<1>1. /\ l.year \in Int /\ r.year \in Int /\ l.mark \in Text /\ r.mark \in Text
      /\ l.form = "span" => l.span \in Int
      /\ r.form = "span" => r.span \in Int
  BY DateForms
<1>2. Opposed(c, d)
  BY <1>1, YearOpposed
<1>3. ~(c \notin Decided /\ c # Same /\ OnOtherDays(l, r))
  BY OpposedTypes DEF YearCompare, Ordered, Decided, Results
<1>4. /\ DateCompare(a, l, r, TRUE) = StringCompare(Form(c, l, r), l.mark, r.mark, TRUE)
      /\ DateCompare(b, r, l, TRUE) = StringCompare(Form(d, r, l), r.mark, l.mark, TRUE)
  BY DEF DateCompare
<1> HIDE DEF c, d
<1>5. Opposed(Form(c, l, r), Form(d, r, l))
  <2>1. c \in Decided <=> d \in Decided
    BY <1>2, OpposedTypes
  <2>2. CASE c \in Decided
    BY <1>2, <2>1, <2>2
  <2>3. CASE c \notin Decided /\ l.form # r.form
    BY <1>2, <2>1, <2>3, FormOpposed
  <2>4. CASE c \notin Decided /\ l.form = "span" /\ r.form = "span"
    BY <1>1, <1>2, <2>1, <2>4, YearOpposed
  <2>5. CASE c \notin Decided /\ l.form = "day" /\ r.form = "day"
    <3>1. Form(c, l, r) = DayCompare(c, l, r, TRUE) /\ Form(d, r, l) = DayCompare(d, r, l, TRUE)
      BY <2>1, <2>5
    <3> QED BY <1>2, <1>3, <2>5, <3>1, DayOpposed
  <2>6. CASE c \notin Decided /\ l.form = r.form /\ l.form \notin {"span", "day"}
    BY <1>2, <2>1, <2>6
  <2> QED BY <2>2, <2>3, <2>4, <2>5, <2>6
<1> HIDE DEF Form
<1> QED BY <1>1, <1>4, <1>5, StringOpposed

LEMMA OrdinalOpposed ==
  ASSUME NEW a, NEW b, Opposed(a, b), NEW l \in OrdinalNumber, NEW r \in OrdinalNumber
  PROVE  Opposed(OrdinalCompare(a, l, r, TRUE), OrdinalCompare(b, r, l, TRUE))
<1>1. l.number \in Text /\ r.number \in Text /\ l.suffix \in Text /\ r.suffix \in Text
  BY DEF OrdinalNumber
<1>2. Opposed(StringCompare(a, l.number, r.number, TRUE), StringCompare(b, r.number, l.number, TRUE))
  BY <1>1, StringOpposed
<1> QED BY <1>1, <1>2, StringOpposed DEF OrdinalCompare

LEMMA EtcOpposed ==
  ASSUME NEW a, NEW b, Opposed(a, b), NEW l \in Numbered, NEW r \in Numbered,
         NEW same, Opposed(same, -same)
  PROVE  Opposed(EtcCompare(a, l, r, same), EtcCompare(b, r, l, same))
<1>1. l.hasetc \in BOOLEAN /\ r.hasetc \in BOOLEAN
  BY DEF Numbered
<1>2. CASE l.hasetc = r.hasetc \/ a \in Decided
  BY <1>2, OpposedTypes DEF EtcCompare
<1>3. CASE l.hasetc # r.hasetc /\ a \notin Decided
  <2>1. b \notin Decided /\ (a = Same <=> b = Same)
    BY <1>3, OpposedTypes
  <2>2. /\ EtcCompare(a, l, r, same) =
             IF a = Same THEN IF l.hasetc THEN same ELSE -same
             ELSE AfterSpecialization(a, r.hasetc, l.hasetc)
        /\ EtcCompare(b, r, l, same) =
             IF b = Same THEN IF r.hasetc THEN same ELSE -same
             ELSE AfterSpecialization(b, l.hasetc, r.hasetc)
    BY <1>3, <2>1 DEF EtcCompare
  <2>3. Opposed(-same, same)
    BY OpposedTypes
  <2>4. Opposed(AfterSpecialization(a, r.hasetc, l.hasetc), AfterSpecialization(b, l.hasetc, r.hasetc))
    BY <1>1, AfterSpecializationOpposed
  <2>5. CASE a # Same
    BY <2>1, <2>2, <2>4, <2>5
  <2>6. CASE a = Same /\ l.hasetc
    BY <1>1, <1>3, <2>1, <2>2, <2>6
  <2>7. CASE a = Same /\ ~l.hasetc
    BY <1>1, <1>3, <2>1, <2>2, <2>3, <2>7
  <2> QED BY <2>5, <2>6, <2>7
<1> QED BY <1>2, <1>3

LEMMA NumberedOpposed ==
  ASSUME NEW a, NEW b, Opposed(a, b), NEW l \in Numbered, NEW r \in Numbered
  PROVE  /\ Opposed(VolumeCompare(a, l, r, TRUE), VolumeCompare(b, r, l, TRUE))
         /\ Opposed(SupplementCompare(a, l, r, TRUE), SupplementCompare(b, r, l, TRUE))
<1> DEFINE there == NumberedCompare(a, l, r, TRUE)
           back == NumberedCompare(b, r, l, TRUE)
<1>1. l.prefix \in Text /\ r.prefix \in Text /\ l.number \in Text /\ r.number \in Text
  BY DEF Numbered
<1>2. Opposed(StringCompare(a, l.prefix, r.prefix, TRUE), StringCompare(b, r.prefix, l.prefix, TRUE))
  BY <1>1, StringOpposed
<1>3. Opposed(there, back)
  BY <1>1, <1>2, StringOpposed DEF NumberedCompare
<1>4. Opposed(Descending, -Descending) /\ Opposed(Generalizing, -Generalizing)
  <2>1. ASSUME NEW x \in Int, NEW y \in Int, x + y = 0
        PROVE  y = -x
    BY <2>1
  <2>2. /\ Descending \in Int /\ Ascending \in Int /\ Descending + Ascending = 0
        /\ Generalizing \in Int /\ Specifying \in Int /\ Generalizing + Specifying = 0
    OBVIOUS
  <2>3. Opposed(Descending, Ascending) /\ Opposed(Generalizing, Specifying)
    BY DEF Opposed
  <2> HIDE DEF Generalizing, Descending, Ascending, Specifying
  <2>4. Ascending = -Descending /\ Specifying = -Generalizing
    BY <2>1, <2>2
  <2> QED BY <2>3, <2>4
<1>5. Within(TRUE, Generalizing) = Generalizing
  BY DEF Within
<1> HIDE DEF there, back, Generalizing, Descending
<1>6. /\ Opposed(EtcCompare(there, l, r, Generalizing), EtcCompare(back, r, l, Generalizing))
      /\ Opposed(EtcCompare(there, l, r, Descending), EtcCompare(back, r, l, Descending))
  BY <1>3, <1>4, EtcOpposed
<1> QED BY <1>5, <1>6 DEF VolumeCompare, SupplementCompare, there, back

(* Dates that are compared when a specialization is known.                 *)
LateDays(status, l, r) ==
  /\ l.kind = "date" /\ r.kind = "date"
  /\ status \in {Specifying, Generalizing}
  /\ OnOtherDays(l, r)

LEMMA DateordOpposed ==
  ASSUME NEW a, NEW b, Opposed(a, b), NEW l \in Dateord, NEW r \in Dateord, ~LateDays(a, l, r)
  PROVE  Opposed(DateordCompare(a, l, r, TRUE), DateordCompare(b, r, l, TRUE))
<1> DEFINE le == l.kind = "none"
           re == r.kind = "none"
<1>1. CASE Settles(a, le, re)
  <2>1. Settles(b, re, le) /\ Opposed(Settled(a, le, re, TRUE), Settled(b, re, le, TRUE))
    BY <1>1, SettledOpposed
  <2> QED BY <1>1, <2>1 DEF DateordCompare
<1>2. CASE ~Settles(a, le, re)
  <2>1. ~Settles(b, re, le) /\ ~le /\ ~re
    BY <1>2, SettledOpposed DEF Settles
  <2>2. /\ (l \in Date /\ l.kind = "date") \/ (l \in OrdinalNumber /\ l.kind = "ordinal")
        /\ (r \in Date /\ r.kind = "date") \/ (r \in OrdinalNumber /\ r.kind = "ordinal")
    BY <2>1 DEF Dateord, Missing, Date, YearDate, SpanDate, DayDate, OrdinalNumber
  <2>3. CASE l.kind # r.kind
    BY <1>2, <2>1, <2>2, <2>3 DEF DateordCompare, Opposed
  <2>4. CASE l.kind = "date" /\ r.kind = "date"
    <3>1. l \in Date /\ r \in Date
      BY <2>2, <2>4
    <3>2. Opposed(DateCompare(a, l, r, TRUE), DateCompare(b, r, l, TRUE))
      BY <2>4, <3>1, DateOpposed DEF LateDays
    <3> QED BY <1>2, <2>1, <2>4, <3>2 DEF DateordCompare
  <2>5. CASE l.kind = "ordinal" /\ r.kind = "ordinal"
    <3>1. l \in OrdinalNumber /\ r \in OrdinalNumber
      BY <2>2, <2>5
    <3>2. Opposed(OrdinalCompare(a, l, r, TRUE), OrdinalCompare(b, r, l, TRUE))
      BY <3>1, OrdinalOpposed
    <3> QED BY <1>2, <2>1, <2>5, <3>2 DEF DateordCompare
  <2> QED BY <2>2, <2>3, <2>4, <2>5
<1> QED BY <1>1, <1>2

LEMMA CutterOpposed ==
  ASSUME NEW a, NEW b, Opposed(a, b), NEW l \in Cuttseg, NEW r \in Cuttseg
  PROVE  Opposed(CutterCompare(a, l, r, TRUE), CutterCompare(b, r, l, TRUE))
<1> DEFINE x == Upper(l.letter)
           y == Upper(r.letter)
           there == LetterCompare(a, x, y)
           back == LetterCompare(b, y, x)
<1>1. /\ l.letter \in Int /\ r.letter \in Int
      /\ l.number \in Text /\ r.number \in Text
      /\ l.mark \in Text /\ r.mark \in Text
  BY DEF Cuttseg
<1>2. x \in Int /\ y \in Int
  BY <1>1, UpperType
<1>3. Opposed(there, back)
  <2> HIDE DEF x, y
  <2>1. CASE x = y
    BY <2>1 DEF LetterCompare
  <2>2. CASE x # y
    <3>1. /\ there = IF a = Same THEN Ordered(x, y) ELSE Linear(a)
          /\ back = IF b = Same THEN Ordered(y, x) ELSE Linear(b)
      BY <2>2 DEF LetterCompare
    <3> QED BY <1>2, <2>2, <3>1, OpposedTypes, OrderedOpposed
  <2> QED BY <2>1, <2>2
<1>4. /\ CutterCompare(a, l, r, TRUE)
           = DecimalCompare(DecimalCompare(there, l.number, r.number, FALSE), l.mark, r.mark, TRUE)
      /\ CutterCompare(b, r, l, TRUE)
           = DecimalCompare(DecimalCompare(back, r.number, l.number, FALSE), r.mark, l.mark, TRUE)
  BY DEF CutterCompare
<1> HIDE DEF there, back
<1>5. Opposed(DecimalCompare(there, l.number, r.number, FALSE),
              DecimalCompare(back, r.number, l.number, FALSE))
  BY <1>1, <1>3, DecimalOpposed
<1> QED BY <1>1, <1>4, <1>5, DecimalOpposed

LEMMA CuttsegOpposed ==
  ASSUME NEW a, NEW b, Opposed(a, b), NEW l \in Cuttseg, NEW r \in Cuttseg,
         ~LateDays(CutterCompare(a, l, r, TRUE), l.dateord, r.dateord)
  PROVE  Opposed(CuttsegCompare(a, l, r, TRUE), CuttsegCompare(b, r, l, TRUE))
<1> DEFINE le == l.letter = 0
           re == r.letter = 0
<1>1. CASE Settles(a, le, re)
  <2>1. Settles(b, re, le) /\ Opposed(Settled(a, le, re, TRUE), Settled(b, re, le, TRUE))
    BY <1>1, SettledOpposed
  <2> QED BY <1>1, <2>1 DEF CuttsegCompare
<1>2. CASE ~Settles(a, le, re)
  <2>1. ~Settles(b, re, le)
    BY <1>2, SettledOpposed
  <2>2. l.dateord \in Dateord /\ r.dateord \in Dateord
    BY DEF Cuttseg
  <2>3. Opposed(CutterCompare(a, l, r, TRUE), CutterCompare(b, r, l, TRUE))
    BY CutterOpposed
  <2> QED BY <1>2, <2>1, <2>2, <2>3, DateordOpposed DEF CuttsegCompare
<1> QED BY <1>1, <1>2

LEMMA SpecificationOpposed ==
  ASSUME NEW a, NEW b, Opposed(a, b), NEW l \in Specification, NEW r \in Specification,
         ~LateDays(a, l, r)
  PROVE  Opposed(SpecificationCompare(a, l, r, TRUE), SpecificationCompare(b, r, l, TRUE))
<1> DEFINE le == l.kind = "none"
           re == r.kind = "none"
<1>1. CASE Settles(a, le, re)
  <2>1. Settles(b, re, le) /\ Opposed(Settled(a, le, re, TRUE), Settled(b, re, le, TRUE))
    BY <1>1, SettledOpposed
  <2> QED BY <1>1, <2>1 DEF SpecificationCompare
<1>2. CASE ~Settles(a, le, re)
  <2>1. ~Settles(b, re, le) /\ ~le /\ ~re
    BY <1>2, SettledOpposed DEF Settles
  <2>2. ASSUME NEW n \in Specification, n.kind # "none"
        PROVE  \/ n \in Date /\ n.kind = "date"
               \/ n \in WordText /\ n.kind = "word"
               \/ n \in OrdinalNumber /\ n.kind = "ordinal"
               \/ n \in Numbered /\ n.kind \in {"volume", "supplement"}
    BY <2>2 DEF Specification, Dateord, Missing, Date, YearDate, SpanDate, DayDate,
                OrdinalNumber, WordText, Numbered
  <2>3. CASE l.kind # r.kind
    <3>1. KindRank(l) \in 1..5 /\ KindRank(r) \in 1..5 /\ KindRank(l) # KindRank(r)
      BY <2>1, <2>2, <2>3 DEF KindRank
    <3>2. Opposed(Ordered(KindRank(l), KindRank(r)), Ordered(KindRank(r), KindRank(l)))
      BY <3>1, OrderedOpposed
    <3> QED BY <1>2, <2>1, <2>3, <3>2 DEF SpecificationCompare
  <2>4. CASE l.kind = r.kind
    <3>1. Opposed(SameKindCompare(a, l, r, TRUE), SameKindCompare(b, r, l, TRUE))
      <4>1. CASE l.kind = "date"
        <5>1. l \in Date /\ r \in Date
          BY <2>1, <2>2, <2>4, <4>1
        <5>2. Opposed(DateCompare(a, l, r, TRUE), DateCompare(b, r, l, TRUE))
          BY <2>4, <4>1, <5>1, DateOpposed DEF LateDays
        <5> QED BY <2>4, <4>1, <5>2 DEF SameKindCompare
      <4>2. CASE l.kind = "word"
        <5>1. l.word \in Text /\ r.word \in Text
          BY <2>1, <2>2, <2>4, <4>2 DEF WordText
        <5> QED BY <2>4, <4>2, <5>1, StringOpposed DEF SameKindCompare
      <4>3. CASE l.kind = "ordinal"
        <5>1. l \in OrdinalNumber /\ r \in OrdinalNumber
          BY <2>1, <2>2, <2>4, <4>3
        <5> QED BY <2>4, <4>3, <5>1, OrdinalOpposed DEF SameKindCompare
      <4>4. CASE l.kind \in {"volume", "supplement"}
        <5>1. l \in Numbered /\ r \in Numbered
          BY <2>1, <2>2, <2>4, <4>4
        <5> QED BY <2>4, <4>4, <5>1, NumberedOpposed DEF SameKindCompare
      <4> QED BY <2>1, <2>2, <4>1, <4>2, <4>3, <4>4
    <3> QED BY <1>2, <2>1, <2>4, <3>1 DEF SpecificationCompare
  <2> QED BY <2>3, <2>4
<1> QED BY <1>1, <1>2

(* The result that goes into the dates of part k.                          *)
IntoDate(k, status, l, r) ==
  IF k \in 5..7 THEN CutterCompare(status, l.cutters[k - 4], r.cutters[k - 4], TRUE) ELSE status

LEMMA SegmentOpposed ==
  ASSUME NEW a, NEW b, Opposed(a, b), NEW l \in CallNumber, NEW r \in CallNumber,
         NEW k \in Nat \ {0}, k <= Segments(l, r),
         k >= 4 => ~LateDays(IntoDate(k, a, l, r), DateAt(k, l), DateAt(k, r))
  PROVE  Opposed(SegmentCompare(k, a, l, r, TRUE), SegmentCompare(k, b, r, l, TRUE))
<1>1. /\ l.letters \in Text /\ r.letters \in Text
      /\ l.integer \in Nat \cup {Absent} /\ r.integer \in Nat \cup {Absent}
      /\ l.decimal \in Text /\ r.decimal \in Text
      /\ l.dateord \in Dateord /\ r.dateord \in Dateord
  BY DEF CallNumber
<1>2. CASE k = 1
  <2>1. SegmentCompare(k, a, l, r, TRUE) = StringCompare(a, l.letters, r.letters, TRUE)
    BY <1>2 DEF SegmentCompare
  <2>2. SegmentCompare(k, b, r, l, TRUE) = StringCompare(b, r.letters, l.letters, TRUE)
    BY <1>2 DEF SegmentCompare
  <2> QED BY <1>1, <2>1, <2>2, StringOpposed
<1>3. CASE k = 2
  <2>1. SegmentCompare(k, a, l, r, TRUE) = IntegerCompare(a, l.integer, r.integer, TRUE)
    BY <1>3 DEF SegmentCompare
  <2>2. SegmentCompare(k, b, r, l, TRUE) = IntegerCompare(b, r.integer, l.integer, TRUE)
    BY <1>3 DEF SegmentCompare
  <2> QED BY <1>1, <2>1, <2>2, IntegerOpposed
<1>4. CASE k = 3
  <2>1. SegmentCompare(k, a, l, r, TRUE) = DecimalCompare(a, l.decimal, r.decimal, TRUE)
    BY <1>4 DEF SegmentCompare
  <2>2. SegmentCompare(k, b, r, l, TRUE) = DecimalCompare(b, r.decimal, l.decimal, TRUE)
    BY <1>4 DEF SegmentCompare
  <2> QED BY <1>1, <2>1, <2>2, DecimalOpposed
<1>5. CASE k = 4
  <2>1. SegmentCompare(k, a, l, r, TRUE) = DateordCompare(a, l.dateord, r.dateord, TRUE)
    BY <1>5 DEF SegmentCompare
  <2>2. SegmentCompare(k, b, r, l, TRUE) = DateordCompare(b, r.dateord, l.dateord, TRUE)
    BY <1>5 DEF SegmentCompare
  <2>3. ~LateDays(a, l.dateord, r.dateord)
    BY <1>5 DEF IntoDate, DateAt
  <2> QED BY <1>1, <2>1, <2>2, <2>3, DateordOpposed
<1>6. CASE k \in 5..7
  <2>1. l.cutters[k - 4] \in Cuttseg /\ r.cutters[k - 4] \in Cuttseg
    BY <1>6, PartsOfCallNumbers
  <2>2. k \notin {1, 2, 3, 4} /\ k \notin 8..9 /\ k >= 4
    BY <1>6
  <2>3. SegmentCompare(k, a, l, r, TRUE) = CuttsegCompare(a, l.cutters[k - 4], r.cutters[k - 4], TRUE)
    BY <1>6, <2>2 DEF SegmentCompare
  <2>4. SegmentCompare(k, b, r, l, TRUE) = CuttsegCompare(b, r.cutters[k - 4], l.cutters[k - 4], TRUE)
    BY <1>6, <2>2 DEF SegmentCompare
  <2>5. ~LateDays(CutterCompare(a, l.cutters[k - 4], r.cutters[k - 4], TRUE),
                  l.cutters[k - 4].dateord, r.cutters[k - 4].dateord)
    BY <1>6, <2>2 DEF IntoDate, DateAt
  <2> QED BY <2>1, <2>3, <2>4, <2>5, CuttsegOpposed
<1>7. CASE k \in 8..9
  <2>1. l.specifications[k - 7] \in Specification /\ r.specifications[k - 7] \in Specification
    BY <1>7, PartsOfCallNumbers
  <2>2. k \notin {1, 2, 3, 4} /\ k \notin 5..7 /\ k >= 4
    BY <1>7
  <2>3. SegmentCompare(k, a, l, r, TRUE)
          = SpecificationCompare(a, l.specifications[k - 7], r.specifications[k - 7], TRUE)
    BY <1>7, <2>2 DEF SegmentCompare
  <2>4. SegmentCompare(k, b, r, l, TRUE)
          = SpecificationCompare(b, r.specifications[k - 7], l.specifications[k - 7], TRUE)
    BY <1>7, <2>2 DEF SegmentCompare
  <2>5. ~LateDays(a, l.specifications[k - 7], r.specifications[k - 7])
    BY <1>7, <2>2 DEF IntoDate, DateAt
  <2> QED BY <2>1, <2>3, <2>4, <2>5, SpecificationOpposed
<1>8. CASE k > 9
  <2>1. l.remainder[k - 9] \in Specification /\ r.remainder[k - 9] \in Specification
    BY <1>8, PartsOfCallNumbers
  <2>2. k \notin {1, 2, 3, 4} /\ k \notin 5..7 /\ k \notin 8..9 /\ k >= 4
    BY <1>8
  <2>3. SegmentCompare(k, a, l, r, TRUE)
          = SpecificationCompare(a, l.remainder[k - 9], r.remainder[k - 9], TRUE)
    BY <1>8, <2>2 DEF SegmentCompare
  <2>4. SegmentCompare(k, b, r, l, TRUE)
          = SpecificationCompare(b, r.remainder[k - 9], l.remainder[k - 9], TRUE)
    BY <1>8, <2>2 DEF SegmentCompare
  <2>5. ~LateDays(a, l.remainder[k - 9], r.remainder[k - 9])
    BY <1>8, <2>2 DEF IntoDate, DateAt
  <2> QED BY <2>1, <2>3, <2>4, <2>5, SpecificationOpposed
<1>9. k = 1 \/ k = 2 \/ k = 3 \/ k = 4 \/ k \in 5..7 \/ k \in 8..9 \/ k > 9
  OBVIOUS
<1> QED BY <1>2, <1>3, <1>4, <1>5, <1>6, <1>7, <1>8, <1>9

LEMMA RemainderOpposed ==
  ASSUME NEW a, NEW b, Opposed(a, b), NEW l \in CallNumber, NEW r \in CallNumber
  PROVE  Opposed(RemainderCompare(a, l, r, TRUE), RemainderCompare(b, r, l, TRUE))
<1> DEFINE m == Len(l.remainder)
           n == Len(r.remainder)
<1>1. m \in Nat /\ n \in Nat
  BY DEF CallNumber
<1>2. /\ RemainderCompare(a, l, r, TRUE) =
           IF a # Same \/ m = n THEN a ELSE IF m < n THEN Specifying ELSE Generalizing
      /\ RemainderCompare(b, r, l, TRUE) =
           IF b # Same \/ n = m THEN b ELSE IF n < m THEN Specifying ELSE Generalizing
  BY DEF RemainderCompare, Within
<1> HIDE DEF m, n
<1>3. a = Same <=> b = Same
  BY OpposedTypes
<1>4. CASE a # Same \/ m = n
  BY <1>2, <1>3, <1>4
<1>5. CASE ~(a # Same \/ m = n)
  <2>1. Opposed(IF m < n THEN Specifying ELSE Generalizing,
                IF n < m THEN Specifying ELSE Generalizing)
    BY <1>1, <1>5 DEF Opposed
  <2> QED BY <1>2, <1>3, <1>5, <2>1
<1> QED BY <1>4, <1>5

DaysComparedLate ==
  \E k \in LateDates(left, right) : OnOtherDays(DateAt(k, left), DateAt(k, right))

FromEitherSide == specify => Opposed(result, opposite) \/ DaysComparedLate

(* Whatever the call numbers, and after every part: compareWithCallNumber: *)
(* gives opposite results when the two change places, so that one includes *)
(* the other exactly when that one is included, unless two days of one     *)
(* month have been compared after a specialization was known.              *)
THEOREM InclusionFromEitherSide == Spec => []InclusionIsAntisymmetric
<1>1. Init => FromEitherSide
  BY DEF Init, FromEitherSide, Opposed
<1>2. TypeOK /\ InSteps /\ FromEitherSide /\ [Next]_vars => FromEitherSide'
  <2> SUFFICES ASSUME TypeOK, InSteps, FromEitherSide, [Next]_vars, specify'
               PROVE  Opposed(result', opposite') \/ DaysComparedLate'
    BY DEF FromEitherSide
  <2>1. CASE Next
    <3>1. left' = left /\ right' = right /\ specify' = specify /\ specify = TRUE
      BY <2>1 DEF Next, CompareSegment, CompareRemainders, question, TypeOK
    <3>2. DaysComparedLate' <=> DaysComparedLate
      BY <3>1 DEF DaysComparedLate
    <3>3. CASE DaysComparedLate
      BY <3>2, <3>3
    <3>4. CASE ~DaysComparedLate /\ CompareSegment
      <4>1. /\ segment <= Segments(left, right)
            /\ result' = SegmentCompare(segment, result, left, right, TRUE)
            /\ opposite' = SegmentCompare(segment, opposite, right, left, TRUE)
        BY <3>1, <3>4 DEF CompareSegment
      <4>2. Segments(left, right) \in Nat /\ segment \in Nat \ {0}
        BY SegmentsType DEF TypeOK
      <4>3. result = Statuses(left, right, TRUE)[segment - 1]
        <5>1. segment <= Segments(left, right) + 1
          BY <4>1, <4>2
        <5>2. result = Statuses(left, right, specify)[segment - 1]
          BY <5>1 DEF InSteps
        <5> QED BY <3>1, <5>2
      <4>4. IntoDate(segment, result, left, right) = BeforeDate(segment, left, right)
        BY <4>3 DEF IntoDate, BeforeDate
      <4>5. segment >= 4 => ~LateDays(IntoDate(segment, result, left, right),
                                      DateAt(segment, left), DateAt(segment, right))
        <5>1. segment >= 4 => segment \in 4..Segments(left, right)
          BY <4>1, <4>2
        <5> QED BY <3>4, <4>4, <5>1 DEF DaysComparedLate, LateDates, LateDays
      <4>6. Opposed(result, opposite)
        BY <3>1, <3>4 DEF FromEitherSide
      <4> QED BY <4>1, <4>2, <4>5, <4>6, SegmentOpposed DEF TypeOK
    <3>5. CASE ~DaysComparedLate /\ CompareRemainders
      <4>1. /\ result' = RemainderCompare(result, left, right, TRUE)
            /\ opposite' = RemainderCompare(opposite, right, left, TRUE)
        BY <3>1, <3>5 DEF CompareRemainders
      <4>2. Opposed(result, opposite)
        BY <3>1, <3>5 DEF FromEitherSide
      <4> QED BY <4>1, <4>2, RemainderOpposed DEF TypeOK
    <3> QED BY <2>1, <3>3, <3>4, <3>5 DEF Next
  <2>2. CASE UNCHANGED vars
    BY <2>2 DEF vars, question, FromEitherSide, DaysComparedLate
  <2> QED BY <2>1, <2>2
<1>3. FromEitherSide => InclusionIsAntisymmetric
  <2> SUFFICES ASSUME Opposed(result, opposite) PROVE opposite = -result
    BY DEF FromEitherSide, InclusionIsAntisymmetric, DaysComparedLate
  <2>1. result \in Int /\ opposite \in Int /\ result + opposite = 0
    BY DEF Opposed
  <2>2. ASSUME NEW a \in Int, NEW b \in Int, a + b = 0
        PROVE  b = -a
    BY <2>2
  <2> QED BY <2>1, <2>2
<1> QED BY <1>1, <1>2, <1>3, TypeCorrect, StepsAreCompare, PTL DEF Spec

-----------------------------------------------------------------------------
(* Inclusion is transitive.                                                *)

Including == {Same, Specifying}

(* The results of a first number with a second, of the second with a third *)
(* and of the first with the third, as inclusion gives them.               *)
Chain(a, b, c) ==
  /\ a \in Results /\ b \in Results /\ c \in Results
  /\ a \in Including /\ b \in Including =>
       c \in Including /\ (c = Same <=> a = Same /\ b = Same)

(* What a part that is missing on the left, or on the right, makes of a    *)
(* specialization, and of two equal beginnings.                            *)
Lacks(status, next, l, r) ==
  /\ Keeps(status, next)
  /\ status = Specifying => (next \in Including <=> l)
  /\ status = Same /\ r /\ next \in Including => l

LEMMA KeepsIncluding ==
  ASSUME NEW s \in Results, NEW t, Keeps(s, t)
  PROVE  /\ t \in Results
         /\ t \in Including => s \in Including
         /\ t = Same => s = Same
BY DEF Keeps, Results, Decided, Including

LEMMA ChainTypes ==
  ASSUME NEW a, NEW b, NEW c, Chain(a, b, c)
  PROVE  a \in Results /\ b \in Results /\ c \in Results
BY DEF Chain

LEMMA SameChain == Chain(Same, Same, Same)
BY DEF Chain, Results, Including

(* Once the first is an ancestor, it is missing the part, and so is the    *)
(* third comparison's left side.                                           *)
LEMMA LacksChain ==
  ASSUME NEW a, NEW b, NEW c, Chain(a, b, c), ~(a = Same /\ b = Same /\ c = Same),
         NEW d, NEW e, NEW f, NEW l \in BOOLEAN, NEW m \in BOOLEAN, NEW r \in BOOLEAN,
         Lacks(a, d, l, m), Lacks(b, e, m, r), Keeps(c, f),
         c = Specifying /\ l => f = Specifying
  PROVE  Chain(d, e, f)
<1>1. d \in Results /\ e \in Results /\ f \in Results
  BY ChainTypes, KeepsIncluding DEF Lacks
<1>2. ASSUME d \in Including, e \in Including
      PROVE  f \in Including /\ (f = Same <=> d = Same /\ e = Same)
  <2>1. a \in Including /\ b \in Including /\ (d = Same => a = Same) /\ (e = Same => b = Same)
    BY <1>2, ChainTypes, KeepsIncluding DEF Lacks
  <2>2. c = Specifying /\ ~(a = Same /\ b = Same)
    BY <2>1 DEF Chain, Including
  <2>3. l
    BY <1>2, <2>1, <2>2 DEF Lacks, Including
  <2>4. f = Specifying
    BY <2>2, <2>3
  <2> QED BY <2>1, <2>2, <2>4 DEF Including
<1> QED BY <1>1, <1>2 DEF Chain

-----------------------------------------------------------------------------
(* Texts: the first one begins the second.                                 *)

Begins(l, r) == \A i \in Nat \ {0} : At(l, i) = 0 \/ At(l, i) = At(r, i)

LEMMA EndsAre ==
  ASSUME NEW t \in Text, NEW i \in Nat \ {0}
  PROVE  /\ At(t, i) = 0 <=> i > Len(t)
         /\ Len(t) \in Nat
         /\ Empty(t) <=> At(t, 1) = 0
<1>1. Len(t) \in Nat
  BY DEF Text
<1>2. ASSUME NEW k \in Nat \ {0} PROVE At(t, k) = 0 <=> k > Len(t)
  <2>1. CASE k \in 1..Len(t)
    <3>1. t[k] \in 1..127
      BY <2>1, ElementOfSeq DEF Text
    <3>2. Upper(t[k]) # 0
      BY <3>1 DEF Upper
    <3> QED BY <1>1, <2>1, <3>2 DEF At
  <2>2. CASE k \notin 1..Len(t)
    BY <1>1, <2>2 DEF At
  <2> QED BY <2>1, <2>2
<1>3. Empty(t) <=> Len(t) = 0
  BY DEF Empty, Text
<1> QED BY <1>1, <1>2, <1>3

LEMMA BaseIs ==
  ASSUME NEW l \in Text, NEW r \in Text
  PROVE  /\ StringBase(l, r) \in Including <=> Begins(l, r)
         /\ StringBase(l, r) = Same <=> Alike(l, r)
<1> DEFINE i == Min(Differences(l, r))
<1>1. CASE Differences(l, r) = {}
  <2>1. StringBase(l, r) = Same
    BY <1>1 DEF StringBase
  <2>2. Alike(l, r)
    BY <2>1, TextOrder, SoonerIsOneWay DEF Linear
  <2>3. Begins(l, r)
    BY <2>2 DEF Begins, Alike
  <2> QED BY <2>1, <2>2, <2>3 DEF Including
<1>2. CASE Differences(l, r) # {}
  <2>1. i \in Differences(l, r)
    BY <1>2, FirstDifference
  <2>2. StringBase(l, r) = IF At(l, i) = 0 THEN Specifying
                           ELSE IF At(r, i) = 0 THEN Generalizing
                           ELSE Ordered(At(l, i), At(r, i))
    BY <1>2 DEF StringBase
  <2>3. \A j \in Differences(l, r) : i <= j
    BY <1>2, FirstIsLeast
  <2> HIDE DEF i
  <2>4. Len(l) \in Nat /\ Len(r) \in Nat
    BY DEF Text
  <2>5. i \in Nat \ {0} /\ i <= Len(l) + Len(r) /\ At(l, i) # At(r, i)
    BY <2>1, <2>4 DEF Differences
  <2>6. ~Alike(l, r) /\ StringBase(l, r) # Same
    BY <2>2, <2>5 DEF Alike, Ordered
  <2>7. StringBase(l, r) \in Including <=> At(l, i) = 0
    BY <2>2 DEF Ordered, Including
  <2>8. Begins(l, r) => At(l, i) = 0
    BY <2>5 DEF Begins
  <2>9. ASSUME At(l, i) = 0, NEW j \in Nat \ {0}
        PROVE  At(l, j) = 0 \/ At(l, j) = At(r, j)
    <3>1. CASE j < i
      <4>1. j \notin Differences(l, r)
        BY <2>3, <2>5, <3>1
      <4> QED BY <2>4, <2>5, <3>1, <4>1 DEF Differences
    <3>2. CASE ~(j < i)
      <4>1. i > Len(l)
        BY <2>5, <2>9, EndsAre
      <4> QED BY <2>4, <2>5, <3>2, <4>1, EndsAre
    <3> QED BY <3>1, <3>2
  <2> QED BY <2>6, <2>7, <2>8, <2>9 DEF Begins
<1> QED BY <1>1, <1>2

LEMMA BasesChain ==
  ASSUME NEW l \in Text, NEW m \in Text, NEW r \in Text
  PROVE  Chain(StringBase(l, m), StringBase(m, r), StringBase(l, r))
<1>1. Begins(l, m) /\ Begins(m, r) => Begins(l, r)
  BY DEF Begins
<1>2. Begins(l, m) /\ Begins(m, r) => (Alike(l, r) <=> Alike(l, m) /\ Alike(m, r))
  <2>1. Alike(l, m) /\ Alike(m, r) => Alike(l, r)
    BY DEF Alike
  <2>2. ASSUME Begins(l, m), Begins(m, r), Alike(l, r), NEW i \in Nat \ {0}
        PROVE  At(l, i) = At(m, i) /\ At(m, i) = At(r, i)
    BY <2>2 DEF Begins, Alike
  <2> QED BY <2>1, <2>2 DEF Alike
<1> QED BY <1>1, <1>2, BaseIs, StringBaseType DEF Chain

LEMMA EmptyBegins ==
  ASSUME NEW l \in Text, NEW r \in Text
  PROVE  /\ Empty(l) => Begins(l, r)
         /\ Empty(r) /\ Begins(l, r) => Empty(l)
         /\ Empty(l) => (Alike(l, r) <=> Empty(r))
<1>1. Empty(l) => \A i \in Nat \ {0} : At(l, i) = 0
  BY DEF Empty, At
<1>2. Empty(r) => \A i \in Nat \ {0} : At(r, i) = 0
  BY DEF Empty, At
<1>3. (Empty(l) <=> At(l, 1) = 0) /\ (Empty(r) <=> At(r, 1) = 0)
  BY EndsAre
<1> QED BY <1>1, <1>2, <1>3 DEF Begins, Alike

LEMMA StringLacks ==
  ASSUME NEW s \in Results, NEW l \in Text, NEW r \in Text
  PROVE  /\ Lacks(s, StringCompare(s, l, r, TRUE), Empty(l), Empty(r))
         /\ s = Specifying /\ Empty(l) => StringCompare(s, l, r, TRUE) = Specifying
<1>1. Keeps(s, StringCompare(s, l, r, TRUE))
  BY StringKeeps
<1>2. s = Specifying =>
        StringCompare(s, l, r, TRUE) = IF Empty(l) THEN Specifying ELSE Ascending
  BY DEF StringCompare, AfterSpecialization, Within, Linear, Decided
<1>3. s = Same => StringCompare(s, l, r, TRUE) = StringBase(l, r)
  BY DEF StringCompare, Within, Decided
<1>4. StringBase(l, r) \in Including /\ Empty(r) => Empty(l)
  BY BaseIs, EmptyBegins
<1> DEFINE le == Empty(l)
           re == Empty(r)
           next == StringCompare(s, l, r, TRUE)
<1>5. le \in BOOLEAN /\ re \in BOOLEAN
  BY DEF Empty
<1>6. /\ Keeps(s, next)
      /\ s = Specifying => next = IF le THEN Specifying ELSE Ascending
      /\ s = Same /\ next \in Including /\ re => le
  BY <1>1, <1>2, <1>3, <1>4
<1> HIDE DEF le, re, next
<1>7. Lacks(s, next, le, re) /\ (s = Specifying /\ le => next = Specifying)
  BY <1>5, <1>6 DEF Lacks, Including
<1> QED BY <1>7 DEF le, re, next

LEMMA StringsChain ==
  ASSUME NEW a, NEW b, NEW c, Chain(a, b, c),
         NEW l \in Text, NEW m \in Text, NEW r \in Text
  PROVE  Chain(StringCompare(a, l, m, TRUE), StringCompare(b, m, r, TRUE),
               StringCompare(c, l, r, TRUE))
<1>1. CASE a = Same /\ b = Same /\ c = Same
  <2>1. \A x, y : StringCompare(Same, x, y, TRUE) = StringBase(x, y)
    BY DEF StringCompare, Within, Decided
  <2> QED BY <1>1, <2>1, BasesChain
<1>2. CASE ~(a = Same /\ b = Same /\ c = Same)
  <2>1. Empty(l) \in BOOLEAN /\ Empty(m) \in BOOLEAN /\ Empty(r) \in BOOLEAN
    BY DEF Empty
  <2> QED BY <1>2, <2>1, ChainTypes, StringKeeps, StringLacks, LacksChain
<1> QED BY <1>1, <1>2

LEMMA DecimalBaseIs ==
  ASSUME NEW l \in Text, NEW r \in Text
  PROVE  /\ DecimalBase(l, r) \in Results
         /\ DecimalBase(l, r) \in Including <=> Empty(l) \/ Alike(l, r)
         /\ DecimalBase(l, r) = Same <=> Alike(l, r)
<1>1. /\ StringBase(l, r) \in Including <=> Begins(l, r)
      /\ StringBase(l, r) = Same <=> Alike(l, r)
      /\ StringBase(l, r) \in Results
  BY BaseIs, StringBaseType
<1>2. CASE Empty(l) \/ Empty(r)
  <2>1. Alike(l, r) => Begins(l, r)
    BY DEF Alike, Begins
  <2> QED BY <1>1, <1>2, <2>1, EmptyBegins DEF DecimalBase
<1>3. CASE ~(Empty(l) \/ Empty(r))
  BY <1>1, <1>3 DEF DecimalBase, Linear, Results, Including
<1> QED BY <1>2, <1>3

LEMMA DecimalLacks ==
  ASSUME NEW s \in Results, NEW l \in Text, NEW r \in Text
  PROVE  /\ Lacks(s, DecimalCompare(s, l, r, TRUE), Empty(l), Empty(r))
         /\ s = Specifying /\ Empty(l) => DecimalCompare(s, l, r, TRUE) = Specifying
<1>1. Keeps(s, DecimalCompare(s, l, r, TRUE))
  BY DecimalKeeps
<1>2. s = Specifying =>
        DecimalCompare(s, l, r, TRUE) = IF Empty(l) THEN Specifying ELSE Ascending
  BY DEF DecimalCompare, AfterSpecialization, Within, Linear, Decided
<1>3. s = Same => DecimalCompare(s, l, r, TRUE) = DecimalBase(l, r)
  BY DEF DecimalCompare, Within, Decided
<1>4. DecimalBase(l, r) \in Including /\ Empty(r) => Empty(l)
  <2>1. Alike(l, r) => Begins(l, r)
    BY DEF Alike, Begins
  <2> QED BY <2>1, DecimalBaseIs, EmptyBegins
<1> DEFINE le == Empty(l)
           re == Empty(r)
           next == DecimalCompare(s, l, r, TRUE)
<1>5. le \in BOOLEAN /\ re \in BOOLEAN
  BY DEF Empty
<1>6. /\ Keeps(s, next)
      /\ s = Specifying => next = IF le THEN Specifying ELSE Ascending
      /\ s = Same /\ next \in Including /\ re => le
  BY <1>1, <1>2, <1>3, <1>4
<1> HIDE DEF le, re, next
<1>7. Lacks(s, next, le, re) /\ (s = Specifying /\ le => next = Specifying)
  BY <1>5, <1>6 DEF Lacks, Including
<1> QED BY <1>7 DEF le, re, next

LEMMA DecimalsChain ==
  ASSUME NEW a, NEW b, NEW c, Chain(a, b, c),
         NEW l \in Text, NEW m \in Text, NEW r \in Text
  PROVE  Chain(DecimalCompare(a, l, m, TRUE), DecimalCompare(b, m, r, TRUE),
               DecimalCompare(c, l, r, TRUE))
<1>1. CASE a = Same /\ b = Same /\ c = Same
  <2>1. \A x, y : DecimalCompare(Same, x, y, TRUE) = DecimalBase(x, y)
    BY DEF DecimalCompare, Within, Decided
  <2>2. Chain(DecimalBase(l, m), DecimalBase(m, r), DecimalBase(l, r))
    <3>1. \A x \in Text, y \in Text : Empty(x) /\ Alike(y, x) => Empty(y)
      <4>1. \A x \in Text, y \in Text : Alike(y, x) => Begins(y, x)
        BY DEF Alike, Begins
      <4> QED BY <4>1, EmptyBegins
    <3>2. Alike(l, m) /\ Alike(m, r) => Alike(l, r)
      BY DEF Alike
    <3>3. Alike(l, m) => Alike(m, l)
      BY DEF Alike
    <3>4. Empty(l) => (Alike(l, m) <=> Empty(m)) /\ (Alike(l, r) <=> Empty(r))
      BY EmptyBegins
    <3>5. Empty(m) => (Alike(m, r) <=> Empty(r))
      BY EmptyBegins
    <3>6. Alike(l, r) /\ Alike(l, m) => Alike(m, r)
      BY DEF Alike
    <3> QED BY <3>1, <3>2, <3>3, <3>4, <3>5, <3>6, DecimalBaseIs DEF Chain
  <2> QED BY <1>1, <2>1, <2>2
<1>2. CASE ~(a = Same /\ b = Same /\ c = Same)
  <2>1. Empty(l) \in BOOLEAN /\ Empty(m) \in BOOLEAN /\ Empty(r) \in BOOLEAN
    BY DEF Empty
  <2> QED BY <1>2, <2>1, ChainTypes, DecimalKeeps, DecimalLacks, LacksChain
<1> QED BY <1>1, <1>2

(* A cutter's number is compared without specialization: it has to be the  *)
(* same.                                                                   *)
LEMMA CutterNumberIs ==
  ASSUME NEW s \in Results, NEW l \in Text, NEW r \in Text
  PROVE  LET next == DecimalCompare(s, l, r, FALSE)
         IN  /\ next \in Results
             /\ next \in Including <=> s = Same /\ Alike(l, r)
             /\ next \in Including => next = Same
<1> DEFINE next == DecimalCompare(s, l, r, FALSE)
           base == DecimalBase(l, r)
<1>1. next \in Results
  BY DecimalKeeps DEF Keeps
<1>2. s = Same => next = Linear(base)
  BY DEF DecimalCompare, Within, Decided
<1>3. s # Same => next \in Decided
  BY DEF DecimalCompare, Within, AfterSpecialization, Linear, Decided, Results
<1>4. base \in Results /\ (base = Same <=> Alike(l, r))
  BY DecimalBaseIs
<1> HIDE DEF next, base
<1>5. next \in Including <=> s = Same /\ base = Same
  BY <1>2, <1>3, <1>4 DEF Linear, Including, Results, Decided
<1>6. next \in Including => next = Same
  BY <1>2, <1>3, <1>4 DEF Linear, Including, Results, Decided
<1> QED BY <1>1, <1>4, <1>5, <1>6 DEF next

LEMMA CutterNumbersChain ==
  ASSUME NEW a, NEW b, NEW c, Chain(a, b, c),
         NEW l \in Text, NEW m \in Text, NEW r \in Text
  PROVE  Chain(DecimalCompare(a, l, m, FALSE), DecimalCompare(b, m, r, FALSE),
               DecimalCompare(c, l, r, FALSE))
<1> DEFINE d == DecimalCompare(a, l, m, FALSE)
           e == DecimalCompare(b, m, r, FALSE)
           f == DecimalCompare(c, l, r, FALSE)
<1>1. Alike(l, m) /\ Alike(m, r) => Alike(l, r)
  BY DEF Alike
<1>2. /\ d \in Results /\ e \in Results /\ f \in Results
      /\ d \in Including => d = Same /\ a = Same /\ Alike(l, m)
      /\ e \in Including => e = Same /\ b = Same /\ Alike(m, r)
      /\ c = Same /\ Alike(l, r) => f = Same
  BY ChainTypes, CutterNumberIs
<1> HIDE DEF d, e, f
<1>3. Chain(d, e, f)
  BY <1>1, <1>2 DEF Chain, Including
<1> QED BY <1>3 DEF d, e, f

LEMMA IntegerLacks ==
  ASSUME NEW s \in Results, NEW l, NEW r
  PROVE  /\ Lacks(s, IntegerCompare(s, l, r, TRUE), l = Absent, r = Absent)
         /\ s = Specifying /\ l = Absent => IntegerCompare(s, l, r, TRUE) = Specifying
<1> DEFINE le == l = Absent
           re == r = Absent
           next == IntegerCompare(s, l, r, TRUE)
<1>1. Keeps(s, next)
  BY IntegerKeeps
<1>2. s = Specifying => next = IF le THEN Specifying ELSE Ascending
  BY DEF IntegerCompare, Settles, Settled, Within, Linear, Decided
<1>3. s = Same /\ re => next = IF le THEN Same ELSE Generalizing
  BY DEF IntegerCompare, Settles, Settled, Within, Decided
<1>4. le \in BOOLEAN /\ re \in BOOLEAN
  OBVIOUS
<1> HIDE DEF le, re, next
<1>5. Lacks(s, next, le, re) /\ (s = Specifying /\ le => next = Specifying)
  BY <1>1, <1>2, <1>3, <1>4 DEF Lacks, Including
<1> QED BY <1>5 DEF le, re, next

LEMMA IntegersChain ==
  ASSUME NEW a, NEW b, NEW c, Chain(a, b, c), NEW l \in Nat \cup {Absent},
         NEW m \in Nat \cup {Absent}, NEW r \in Nat \cup {Absent}
  PROVE  Chain(IntegerCompare(a, l, m, TRUE), IntegerCompare(b, m, r, TRUE),
               IntegerCompare(c, l, r, TRUE))
<1> DEFINE d == IntegerCompare(a, l, m, TRUE)
           e == IntegerCompare(b, m, r, TRUE)
           f == IntegerCompare(c, l, r, TRUE)
<1>2. CASE a = Same /\ b = Same /\ c = Same
  <2> DEFINE Of(x, y) == IF x = y THEN Same ELSE IF x = Absent THEN Specifying
                         ELSE IF y = Absent THEN Generalizing ELSE Ordered(x, y)
  <2>0. \A x, y : IntegerCompare(Same, x, y, TRUE) = Of(x, y)
    BY DEF IntegerCompare, Settles, Settled, Within, Decided
  <2>1. d = Of(l, m) /\ e = Of(m, r) /\ f = Of(l, r)
    BY <1>2, <2>0
  <2>2. d \in Results /\ e \in Results /\ f \in Results
    BY IntegerKeeps, ChainTypes DEF Keeps
  <2> HIDE DEF d, e, f
  <2>3. Chain(d, e, f)
    BY <2>1, <2>2 DEF Chain, Including, Ordered
  <2> QED BY <2>3 DEF d, e, f
<1>3. CASE ~(a = Same /\ b = Same /\ c = Same)
  <2> DEFINE le == l = Absent
             me == m = Absent
             re == r = Absent
  <2>1. /\ Lacks(a, d, le, me) /\ Lacks(b, e, me, re) /\ Keeps(c, f)
        /\ c = Specifying /\ le => f = Specifying
    BY ChainTypes, IntegerKeeps, IntegerLacks
  <2>2. le \in BOOLEAN /\ me \in BOOLEAN /\ re \in BOOLEAN
    OBVIOUS
  <2> HIDE DEF le, me, re, d, e, f
  <2>3. Chain(d, e, f)
    BY <1>3, <2>1, <2>2, LacksChain
  <2> QED BY <2>3 DEF d, e, f
<1> QED BY <1>2, <1>3

LEMMA LettersChain ==
  ASSUME NEW a, NEW b, NEW c, Chain(a, b, c), NEW x, NEW y, NEW z
  PROVE  Chain(LetterCompare(a, x, y), LetterCompare(b, y, z), LetterCompare(c, x, z))
<1> DEFINE d == LetterCompare(a, x, y)
           e == LetterCompare(b, y, z)
           f == LetterCompare(c, x, z)
<1>1. ASSUME NEW s \in Results, NEW u, NEW v
      PROVE  /\ LetterCompare(s, u, v) \in Results
             /\ LetterCompare(s, u, v) \in Including => u = v
             /\ u = v => LetterCompare(s, u, v) = s
  BY DEF LetterCompare, Ordered, Linear, Results, Including
<1>2. /\ d \in Results /\ e \in Results /\ f \in Results
      /\ d \in Including => x = y /\ d = a
      /\ e \in Including => y = z /\ e = b
      /\ x = z => f = c
  BY <1>1, ChainTypes
<1> HIDE DEF d, e, f
<1>3. Chain(d, e, f)
  BY <1>2 DEF Chain
<1> QED BY <1>3 DEF d, e, f

(* Dates, by their years and by their forms.                               *)
FormOf(l, r) ==
  IF l.form # r.form THEN FormCompare(Same, l, r, TRUE)
  ELSE IF l.form = "span" THEN YearCompare(Same, l.span, r.span)
  ELSE IF l.form = "day" THEN DayCompare(Same, l, r, TRUE)
  ELSE Same

BeforeMark(l, r) == IF l.year = r.year THEN FormOf(l, r) ELSE Ordered(l.year, r.year)

LEMMA DateByMark ==
  ASSUME NEW l, NEW r
  PROVE  DateCompare(Same, l, r, TRUE) = StringCompare(BeforeMark(l, r), l.mark, r.mark, TRUE)
<1>1. YearCompare(Same, l.year, r.year) = IF l.year = r.year THEN Same ELSE Ordered(l.year, r.year)
  BY DEF YearCompare, Decided
<1>2. Ordered(l.year, r.year) \in Decided /\ Same \notin Decided
  BY DEF Ordered, Decided
<1> QED BY <1>1, <1>2 DEF DateCompare, BeforeMark, FormOf

LEMMA FormOfIs ==
  ASSUME NEW l \in Date, NEW r \in Date
  PROVE  FormOf(l, r) =
           IF DateRank(l) # DateRank(r)
           THEN IF DateRank(l) < DateRank(r) THEN Specifying ELSE Generalizing
           ELSE IF l.form = "span" THEN IF l.span = r.span THEN Same ELSE Ordered(l.span, r.span)
           ELSE IF l.form = "day"
           THEN IF l.month # r.month THEN Ordered(l.month, r.month)
                ELSE IF l.day = r.day THEN Same
                ELSE IF l.day = 0 THEN Specifying
                ELSE IF r.day = 0 THEN Generalizing ELSE Ordered(l.day, r.day)
           ELSE Same
<1>1. /\ l.form \in {"span", "year", "day"} /\ r.form \in {"span", "year", "day"}
      /\ DateRank(l) = IF l.form = "span" THEN 1 ELSE IF l.form = "year" THEN 2 ELSE 3
      /\ DateRank(r) = IF r.form = "span" THEN 1 ELSE IF r.form = "year" THEN 2 ELSE 3
  BY DateForms
<1>2. DateRank(l) = DateRank(r) <=> l.form = r.form
  BY <1>1
<1>3. FormCompare(Same, l, r, TRUE) =
        IF DateRank(l) < DateRank(r) THEN Specifying ELSE Generalizing
  BY DEF FormCompare, Within
<1>4. YearCompare(Same, l.span, r.span) =
        IF l.span = r.span THEN Same ELSE Ordered(l.span, r.span)
  BY DEF YearCompare, Decided
<1>5. DayCompare(Same, l, r, TRUE) =
        IF l.month # r.month THEN Ordered(l.month, r.month)
        ELSE IF l.day = r.day THEN Same
        ELSE IF l.day = 0 THEN Specifying
        ELSE IF r.day = 0 THEN Generalizing ELSE Ordered(l.day, r.day)
  BY DEF DayCompare
<1> QED BY <1>2, <1>3, <1>4, <1>5 DEF FormOf

(* When a date includes another one, of the same year, before the marks.   *)
Covers(l, r) ==
  \/ DateRank(l) < DateRank(r)
  \/ /\ DateRank(l) = DateRank(r)
     /\ l.form = "span" => l.span = r.span
     /\ l.form = "day" => l.month = r.month /\ (l.day = r.day \/ l.day = 0)

Coincides(l, r) ==
  /\ DateRank(l) = DateRank(r)
  /\ l.form = "span" => l.span = r.span
  /\ l.form = "day" => l.month = r.month /\ l.day = r.day

LEMMA BeforeMarkIs ==
  ASSUME NEW l \in Date, NEW r \in Date
  PROVE  /\ BeforeMark(l, r) \in Results
         /\ BeforeMark(l, r) \in Including <=> l.year = r.year /\ Covers(l, r)
         /\ BeforeMark(l, r) = Same <=> l.year = r.year /\ Coincides(l, r)
<1> DEFINE form == FormOf(l, r)
           next == BeforeMark(l, r)
           x == DateRank(l)
           y == DateRank(r)
<1>1. x \in Int /\ y \in Int
  BY DateForms
<1>2. form = IF x # y THEN IF x < y THEN Specifying ELSE Generalizing
             ELSE IF l.form = "span" THEN IF l.span = r.span THEN Same ELSE Ordered(l.span, r.span)
             ELSE IF l.form = "day"
             THEN IF l.month # r.month THEN Ordered(l.month, r.month)
                  ELSE IF l.day = r.day THEN Same
                  ELSE IF l.day = 0 THEN Specifying
                  ELSE IF r.day = 0 THEN Generalizing ELSE Ordered(l.day, r.day)
             ELSE Same
  BY FormOfIs
<1>3. next = IF l.year = r.year THEN form ELSE Ordered(l.year, r.year)
  BY DEF BeforeMark
<1>4. (Covers(l, r) <=>
         \/ x < y
         \/ /\ x = y
            /\ l.form = "span" => l.span = r.span
            /\ l.form = "day" => l.month = r.month /\ (l.day = r.day \/ l.day = 0))
      /\ (Coincides(l, r) <=>
            /\ x = y
            /\ l.form = "span" => l.span = r.span
            /\ l.form = "day" => l.month = r.month /\ l.day = r.day)
  BY DEF Covers, Coincides
<1> HIDE DEF form, next, x, y
<1>5. /\ form \in Results
      /\ form \in Including <=> Covers(l, r)
      /\ form = Same <=> Coincides(l, r)
  BY <1>1, <1>2, <1>4 DEF Results, Including, Ordered
<1>6. /\ next \in Results
      /\ next \in Including <=> l.year = r.year /\ Covers(l, r)
      /\ next = Same <=> l.year = r.year /\ Coincides(l, r)
  BY <1>3, <1>5 DEF Results, Including, Ordered
<1> QED BY <1>6 DEF next

LEMMA DatesChain ==
  ASSUME NEW l \in Date, NEW m \in Date, NEW r \in Date
  PROVE  Chain(DateCompare(Same, l, m, TRUE), DateCompare(Same, m, r, TRUE),
               DateCompare(Same, l, r, TRUE))
<1>1. ASSUME NEW n \in Date
      PROVE  /\ n.mark \in Text
             /\ DateRank(n) \in 1..3
             /\ n.form = "span" <=> DateRank(n) = 1
             /\ n.form = "day" <=> DateRank(n) = 3
  BY DateForms
<1>2. Covers(l, m) /\ Covers(m, r) => Covers(l, r)
  BY <1>1 DEF Covers
<1>3. Covers(l, m) /\ Covers(m, r) => (Coincides(l, r) <=> Coincides(l, m) /\ Coincides(m, r))
  BY <1>1 DEF Covers, Coincides
<1>4. Chain(BeforeMark(l, m), BeforeMark(m, r), BeforeMark(l, r))
  BY <1>2, <1>3, BeforeMarkIs DEF Chain
<1> QED BY <1>1, <1>4, DateByMark, StringsChain

LEMMA OrdinalsChain ==
  ASSUME NEW a, NEW b, NEW c, Chain(a, b, c),
         NEW l \in OrdinalNumber, NEW m \in OrdinalNumber, NEW r \in OrdinalNumber
  PROVE  Chain(OrdinalCompare(a, l, m, TRUE), OrdinalCompare(b, m, r, TRUE),
               OrdinalCompare(c, l, r, TRUE))
<1>1. /\ l.number \in Text /\ m.number \in Text /\ r.number \in Text
      /\ l.suffix \in Text /\ m.suffix \in Text /\ r.suffix \in Text
  BY DEF OrdinalNumber
<1>2. Chain(StringCompare(a, l.number, m.number, TRUE),
            StringCompare(b, m.number, r.number, TRUE),
            StringCompare(c, l.number, r.number, TRUE))
  BY <1>1, StringsChain
<1> QED BY <1>1, <1>2, StringsChain DEF OrdinalCompare

(* "etc.", in a volume and in a supplement.                                *)
LEMMA EtcIs ==
  ASSUME NEW s \in Results, NEW l \in Numbered, NEW r \in Numbered,
         NEW same \in {Generalizing, Descending}
  PROVE  LET next == EtcCompare(s, l, r, same)
         IN  /\ next \in Results
             /\ next \in Including <=>
                  /\ s \in Including
                  /\ l.hasetc => r.hasetc
                  /\ s = Same /\ same = Descending => l.hasetc = r.hasetc
             /\ next = Same <=> s = Same /\ l.hasetc = r.hasetc
<1> DEFINE le == l.hasetc
           re == r.hasetc
           other == IF le THEN same ELSE -same
           next == EtcCompare(s, l, r, same)
<1>1. le \in BOOLEAN /\ re \in BOOLEAN
  BY DEF Numbered
<1>2. next = IF le = re \/ s \in Decided THEN s
             ELSE IF s = Same THEN other ELSE AfterSpecialization(s, re, le)
  BY DEF EtcCompare
<1>3. AfterSpecialization(s, re, le) =
        IF (s = Specifying /\ re) \/ (s = Generalizing /\ le) THEN s ELSE Linear(s)
  BY DEF AfterSpecialization
<1>4. other \in {Generalizing, Descending, Ascending, Specifying}
  OBVIOUS
<1>5. other \in Including => ~le /\ same = Generalizing
  BY DEF Including
<1>6. /\ same = Descending => -same = Ascending
      /\ same = Generalizing => -same = Specifying
  <2>1. ASSUME NEW n \in Int PROVE (n = -1 => -n = 1) /\ (n = -2 => -n = 2)
    OBVIOUS
  <2>2. same \in Int
    OBVIOUS
  <2> QED BY <2>1, <2>2
<1>7. /\ same = Descending => other \in Decided
      /\ same = Generalizing /\ ~le => other = Specifying
  BY <1>6 DEF Decided
<1> HIDE DEF le, re, other, next
<1>8. s = Specifying => next = IF le /\ ~re THEN Ascending ELSE Specifying
  BY <1>1, <1>2, <1>3 DEF Linear, Decided
<1>9. s = Same => next = IF le = re THEN Same ELSE other
  BY <1>1, <1>2 DEF Decided
<1>10. s \notin Including => next \in Results /\ next \notin Including
  BY <1>1, <1>2, <1>3 DEF Linear, Decided, Including, Results
<1>11. s \in {Same, Specifying} \/ s \notin Including
  BY DEF Including
<1>12. next \in Results
  BY <1>4, <1>8, <1>9, <1>10, <1>11 DEF Results
<1>13. next = Same <=> s = Same /\ le = re
  BY <1>4, <1>8, <1>9, <1>10, <1>11, <1>7 DEF Including, Decided
<1>14. CASE s = Same
  <2>1. le # re => (other \in Including <=> ~le /\ same # Descending)
    BY <1>1, <1>5, <1>7 DEF Decided, Including
  <2>2. next \in Including <=> (le => re) /\ (same = Descending => le = re)
    BY <1>1, <1>9, <1>14, <2>1 DEF Including
  <2>3. s \in Including
    BY <1>14 DEF Including
  <2> QED BY <1>12, <1>13, <1>14, <2>2, <2>3 DEF le, re, next
<1>15. CASE s = Specifying
  <2>1. (next \in Including <=> (le => re)) /\ s \in Including /\ s # Same
    BY <1>1, <1>8, <1>15 DEF Including
  <2> QED BY <1>12, <1>13, <2>1 DEF le, re, next
<1>16. CASE s \notin Including
  BY <1>10, <1>12, <1>13, <1>16 DEF le, re, next
<1> QED BY <1>11, <1>14, <1>15, <1>16

LEMMA EtcsChain ==
  ASSUME NEW a, NEW b, NEW c, Chain(a, b, c), NEW same \in {Generalizing, Descending},
         NEW l \in Numbered, NEW m \in Numbered, NEW r \in Numbered
  PROVE  Chain(EtcCompare(a, l, m, same), EtcCompare(b, m, r, same), EtcCompare(c, l, r, same))
<1> DEFINE d == EtcCompare(a, l, m, same)
           e == EtcCompare(b, m, r, same)
           f == EtcCompare(c, l, r, same)
           le == l.hasetc
           me == m.hasetc
           re == r.hasetc
           strict == same = Descending
<1>1. /\ d \in Results
      /\ d \in Including <=> a \in Including /\ (le => me) /\ (a = Same /\ strict => le = me)
      /\ d = Same <=> a = Same /\ le = me
  BY ChainTypes, EtcIs
<1>2. /\ e \in Results
      /\ e \in Including <=> b \in Including /\ (me => re) /\ (b = Same /\ strict => me = re)
      /\ e = Same <=> b = Same /\ me = re
  BY ChainTypes, EtcIs
<1>3. /\ f \in Results
      /\ f \in Including <=> c \in Including /\ (le => re) /\ (c = Same /\ strict => le = re)
      /\ f = Same <=> c = Same /\ le = re
  BY ChainTypes, EtcIs
<1>4. le \in BOOLEAN /\ me \in BOOLEAN /\ re \in BOOLEAN
  BY DEF Numbered
<1> HIDE DEF d, e, f, le, me, re, strict
<1>5. ASSUME d \in Including, e \in Including
      PROVE  f \in Including /\ (f = Same <=> d = Same /\ e = Same)
  <2>1. /\ a \in Including /\ b \in Including /\ c \in Including
        /\ (c = Same <=> a = Same /\ b = Same)
    BY <1>1, <1>2, <1>5 DEF Chain
  <2>2. le => re
    BY <1>1, <1>2, <1>5
  <2>3. c = Same /\ strict => le = re
    BY <1>1, <1>2, <1>5, <2>1
  <2>4. f \in Including
    BY <1>3, <2>1, <2>2, <2>3
  <2>5. (le => me) /\ (me => re)
    BY <1>1, <1>2, <1>5
  <2>6. le = re <=> le = me /\ me = re
    BY <1>4, <2>5
  <2> QED BY <1>1, <1>2, <1>3, <2>1, <2>4, <2>6
<1>6. Chain(d, e, f)
  BY <1>1, <1>2, <1>3, <1>5 DEF Chain
<1> QED BY <1>6 DEF d, e, f

LEMMA NumberedsChain ==
  ASSUME NEW a, NEW b, NEW c, Chain(a, b, c),
         NEW l \in Numbered, NEW m \in Numbered, NEW r \in Numbered
  PROVE  /\ Chain(VolumeCompare(a, l, m, TRUE), VolumeCompare(b, m, r, TRUE),
                  VolumeCompare(c, l, r, TRUE))
         /\ Chain(SupplementCompare(a, l, m, TRUE), SupplementCompare(b, m, r, TRUE),
                  SupplementCompare(c, l, r, TRUE))
<1>1. /\ l.prefix \in Text /\ m.prefix \in Text /\ r.prefix \in Text
      /\ l.number \in Text /\ m.number \in Text /\ r.number \in Text
  BY DEF Numbered
<1>2. Chain(StringCompare(a, l.prefix, m.prefix, TRUE),
            StringCompare(b, m.prefix, r.prefix, TRUE),
            StringCompare(c, l.prefix, r.prefix, TRUE))
  BY <1>1, StringsChain
<1>3. Chain(NumberedCompare(a, l, m, TRUE), NumberedCompare(b, m, r, TRUE),
            NumberedCompare(c, l, r, TRUE))
  BY <1>1, <1>2, StringsChain DEF NumberedCompare
<1>4. Within(TRUE, Generalizing) = Generalizing
  BY DEF Within
<1>5. Chain(VolumeCompare(a, l, m, TRUE), VolumeCompare(b, m, r, TRUE), VolumeCompare(c, l, r, TRUE))
  BY <1>3, <1>4, EtcsChain DEF VolumeCompare
<1>6. Chain(SupplementCompare(a, l, m, TRUE), SupplementCompare(b, m, r, TRUE),
            SupplementCompare(c, l, r, TRUE))
  BY <1>3, EtcsChain DEF SupplementCompare
<1> QED BY <1>5, <1>6

(* A part that is not there.                                               *)
LEMMA SettledLacks ==
  ASSUME NEW s \in Results, NEW le \in BOOLEAN, NEW re \in BOOLEAN, Settles(s, le, re)
  PROVE  /\ Lacks(s, Settled(s, le, re, TRUE), le, re)
         /\ s = Specifying /\ le => Settled(s, le, re, TRUE) = Specifying
         /\ s = Same => Settled(s, le, re, TRUE) =
              IF le /\ re THEN Same ELSE IF le THEN Specifying ELSE Generalizing
<1> DEFINE next == Settled(s, le, re, TRUE)
<1>1. Keeps(s, next)
  BY SettledKeeps
<1>2. s = Specifying => next = IF le THEN Specifying ELSE Ascending
  BY DEF Settled, Settles, Within, Linear, Decided
<1>3. s = Same => next = IF le /\ re THEN Same ELSE IF le THEN Specifying ELSE Generalizing
  BY DEF Settled, Settles, Within, Linear, Decided
<1> HIDE DEF next
<1>4. Lacks(s, next, le, re)
  BY <1>1, <1>2, <1>3 DEF Lacks, Including
<1>5. s = Specifying /\ le => next = Specifying
  BY <1>2
<1> QED BY <1>3, <1>4, <1>5 DEF next

LEMMA MissingChain ==
  ASSUME NEW le \in BOOLEAN, NEW me \in BOOLEAN, NEW re \in BOOLEAN, le \/ me \/ re,
         NEW a \in Results, NEW b \in Results, NEW c \in Results,
         le \/ me => a = IF le /\ me THEN Same ELSE IF le THEN Specifying ELSE Generalizing,
         me \/ re => b = IF me /\ re THEN Same ELSE IF me THEN Specifying ELSE Generalizing,
         le \/ re => c = IF le /\ re THEN Same ELSE IF le THEN Specifying ELSE Generalizing
  PROVE  Chain(a, b, c)
BY DEF Chain, Including

(* A text that is there, after a specialization.                           *)
LEMMA StringAscends ==
  ASSUME NEW l, NEW r, ~Empty(l)
  PROVE  StringCompare(Specifying, l, r, TRUE) = Ascending
BY DEF StringCompare, AfterSpecialization, Within, Linear, Decided

LEMMA StringDecided ==
  ASSUME NEW s \in Decided, NEW l, NEW r
  PROVE  StringCompare(s, l, r, TRUE) = s
BY DEF StringCompare

LEMMA PartAscends ==
  /\ \A l \in OrdinalNumber, r \in OrdinalNumber :
       OrdinalCompare(Specifying, l, r, TRUE) = Ascending
  /\ \A l \in WordText, r \in WordText :
       StringCompare(Specifying, l.word, r.word, TRUE) = Ascending
  /\ \A l \in Numbered, r \in Numbered :
       /\ VolumeCompare(Specifying, l, r, TRUE) = Ascending
       /\ SupplementCompare(Specifying, l, r, TRUE) = Ascending
<1>1. Ascending \in Decided
  BY DEF Decided
<1>2. \A l \in OrdinalNumber : ~Empty(l.number)
  BY DEF OrdinalNumber, Empty
<1>3. \A l \in WordText : ~Empty(l.word)
  BY DEF WordText, Empty
<1>4. \A l \in Numbered : ~Empty(l.prefix)
  BY DEF Numbered, Empty
<1>5. \A l \in Numbered, r \in Numbered : NumberedCompare(Specifying, l, r, TRUE) = Ascending
  BY <1>1, <1>4, StringAscends, StringDecided DEF NumberedCompare
<1>6. \A l, r, same : EtcCompare(Ascending, l, r, same) = Ascending
  BY <1>1 DEF EtcCompare
<1>7. \A l \in OrdinalNumber, r \in OrdinalNumber :
        OrdinalCompare(Specifying, l, r, TRUE) = Ascending
  BY <1>1, <1>2, StringAscends, StringDecided DEF OrdinalCompare
<1>8. \A l \in WordText, r \in WordText :
        StringCompare(Specifying, l.word, r.word, TRUE) = Ascending
  BY <1>3, StringAscends
<1>9. \A l \in Numbered, r \in Numbered :
       /\ VolumeCompare(Specifying, l, r, TRUE) = Ascending
       /\ SupplementCompare(Specifying, l, r, TRUE) = Ascending
  BY <1>5, <1>6 DEF VolumeCompare, SupplementCompare
<1> QED BY <1>7, <1>8, <1>9

LEMMA MixedChain ==
  ASSUME NEW a \in Results, NEW b \in Results, NEW c \in Results, a \in Decided \/ b \in Decided
  PROVE  Chain(a, b, c)
BY DEF Chain, Decided, Including

(* No dates are compared once one number is an ancestor.                   *)
InTime(status, l, r) ==
  l.kind = "date" /\ r.kind = "date" => status \notin {Specifying, Generalizing}

LEMMA DateordIs ==
  ASSUME NEW s \in Results \ Decided, NEW l \in Dateord, NEW r \in Dateord
  PROVE  LET le == l.kind = "none"
             re == r.kind = "none"
             next == DateordCompare(s, l, r, TRUE)
         IN  /\ le \/ re => Settles(s, le, re) /\ next = Settled(s, le, re, TRUE)
             /\ ~le /\ ~re => next = IF l.kind # r.kind
                                     THEN IF l.kind = "ordinal" THEN Ascending ELSE Descending
                                     ELSE IF l.kind = "date" THEN DateCompare(s, l, r, TRUE)
                                     ELSE OrdinalCompare(s, l, r, TRUE)
BY DEF DateordCompare, Settles

LEMMA DateordKinds ==
  ASSUME NEW n \in Dateord
  PROVE  \/ n.kind = "none"
         \/ n \in Date /\ n.kind = "date"
         \/ n \in OrdinalNumber /\ n.kind = "ordinal"
BY DEF Dateord, Missing, Date, YearDate, SpanDate, DayDate, OrdinalNumber

LEMMA DateordLacks ==
  ASSUME NEW s \in Results, NEW l \in Dateord, NEW r \in Dateord
  PROVE  /\ InTime(s, l, r) =>
              Lacks(s, DateordCompare(s, l, r, TRUE), l.kind = "none", r.kind = "none")
         /\ s = Specifying /\ l.kind = "none" => DateordCompare(s, l, r, TRUE) = Specifying
<1> DEFINE le == l.kind = "none"
           re == r.kind = "none"
           next == DateordCompare(s, l, r, TRUE)
<1>1. le \in BOOLEAN /\ re \in BOOLEAN
  OBVIOUS
<1>2. Keeps(s, next)
  BY DateordKeeps
<1>3. CASE s \in {Generalizing, Descending, Ascending}
  <2> HIDE DEF le, re, next
  <2>1. Lacks(s, next, le, re) /\ s # Specifying
    BY <1>2, <1>3 DEF Lacks
  <2> QED BY <2>1 DEF le, re, next
<1>4. CASE s \in {Same, Specifying}
  <2>1. s \in Results \ Decided
    BY <1>4 DEF Decided
  <2>2. CASE le \/ re
    <3>1. Settles(s, le, re) /\ next = Settled(s, le, re, TRUE)
      BY <2>1, <2>2, DateordIs
    <3> HIDE DEF le, re, next
    <3>2. Lacks(s, next, le, re) /\ (s = Specifying /\ le => next = Specifying)
      BY <1>1, <3>1, SettledLacks
    <3> QED BY <3>2 DEF le, re, next
  <2>3. CASE ~le /\ ~re
    <3>1. ASSUME InTime(s, l, r), s = Specifying PROVE next \in Decided
      <4>1. next = IF l.kind # r.kind THEN IF l.kind = "ordinal" THEN Ascending ELSE Descending
                   ELSE IF l.kind = "date" THEN DateCompare(s, l, r, TRUE)
                   ELSE OrdinalCompare(s, l, r, TRUE)
        BY <2>1, <2>3, DateordIs
      <4>2. ~(l.kind = "date" /\ r.kind = "date")
        BY <3>1 DEF InTime
      <4>3. l.kind = r.kind => l \in OrdinalNumber /\ r \in OrdinalNumber /\ l.kind # "date"
        BY <2>3, <4>2, DateordKinds
      <4>4. l.kind = r.kind => OrdinalCompare(s, l, r, TRUE) = Ascending
        BY <3>1, <4>3, PartAscends
      <4> QED BY <4>1, <4>3, <4>4 DEF Decided
    <3> HIDE DEF le, re, next
    <3>2. next \in Decided => next \notin Including
      BY DEF Decided, Including
    <3>3. InTime(s, l, r) => Lacks(s, next, le, re)
      BY <1>2, <2>3, <3>1, <3>2 DEF Lacks
    <3> QED BY <2>3, <3>3 DEF le, re, next
  <2> QED BY <2>2, <2>3
<1> QED BY <1>3, <1>4 DEF Results

LEMMA DateordsChain ==
  ASSUME NEW a, NEW b, NEW c, Chain(a, b, c),
         NEW l \in Dateord, NEW m \in Dateord, NEW r \in Dateord,
         InTime(a, l, m), InTime(b, m, r)
  PROVE  Chain(DateordCompare(a, l, m, TRUE), DateordCompare(b, m, r, TRUE),
               DateordCompare(c, l, r, TRUE))
<1> DEFINE Of(x, y) == DateordCompare(Same, x, y, TRUE)
           le == l.kind = "none"
           me == m.kind = "none"
           re == r.kind = "none"
<1>1. le \in BOOLEAN /\ me \in BOOLEAN /\ re \in BOOLEAN
  OBVIOUS
<1>2. Same \in Results \ Decided
  BY DEF Results, Decided
<1>3. Of(l, m) \in Results /\ Of(m, r) \in Results /\ Of(l, r) \in Results
  BY <1>2, DateordKeeps DEF Keeps
<1>4. CASE a = Same /\ b = Same /\ c = Same
  <2>1. CASE le \/ me \/ re
    <3>1. ASSUME NEW x \in Dateord, NEW y \in Dateord, x.kind = "none" \/ y.kind = "none"
          PROVE  Of(x, y) = IF x.kind = "none" /\ y.kind = "none" THEN Same
                            ELSE IF x.kind = "none" THEN Specifying ELSE Generalizing
      <4> DEFINE xe == x.kind = "none"
                 ye == y.kind = "none"
      <4>1. Settles(Same, xe, ye) /\ Of(x, y) = Settled(Same, xe, ye, TRUE)
        BY <1>2, <3>1, DateordIs
      <4>2. xe \in BOOLEAN /\ ye \in BOOLEAN
        OBVIOUS
      <4> HIDE DEF xe, ye, Of
      <4>3. Of(x, y) = IF xe /\ ye THEN Same ELSE IF xe THEN Specifying ELSE Generalizing
        BY <1>2, <4>1, <4>2, SettledLacks
      <4> QED BY <4>3 DEF xe, ye
    <3> HIDE DEF Of
    <3>2. /\ le \/ me => Of(l, m) = IF le /\ me THEN Same ELSE IF le THEN Specifying ELSE Generalizing
          /\ me \/ re => Of(m, r) = IF me /\ re THEN Same ELSE IF me THEN Specifying ELSE Generalizing
          /\ le \/ re => Of(l, r) = IF le /\ re THEN Same ELSE IF le THEN Specifying ELSE Generalizing
      BY <3>1
    <3> HIDE DEF le, me, re
    <3>3. Chain(Of(l, m), Of(m, r), Of(l, r))
      BY <1>1, <1>3, <2>1, <3>2, MissingChain
    <3> QED BY <1>4, <3>3 DEF Of
  <2>2. CASE ~le /\ ~me /\ ~re
    <3>1. ASSUME NEW x \in Dateord, NEW y \in Dateord, x.kind # "none", y.kind # "none"
          PROVE  Of(x, y) = IF x.kind # y.kind
                            THEN IF x.kind = "ordinal" THEN Ascending ELSE Descending
                            ELSE IF x.kind = "date" THEN DateCompare(Same, x, y, TRUE)
                            ELSE OrdinalCompare(Same, x, y, TRUE)
      BY <1>2, <3>1, DateordIs
    <3> HIDE DEF Of
    <3>2. CASE l.kind # m.kind \/ m.kind # r.kind
      <4>1. Of(l, m) \in Decided \/ Of(m, r) \in Decided
        BY <2>2, <3>1, <3>2 DEF Decided
      <4>2. Chain(Of(l, m), Of(m, r), Of(l, r))
        BY <1>3, <4>1, MixedChain
      <4> QED BY <1>4, <4>2 DEF Of
    <3>3. CASE l.kind = "date" /\ m.kind = "date" /\ r.kind = "date"
      <4>1. l \in Date /\ m \in Date /\ r \in Date
        BY <3>3, DateordKinds
      <4>2. /\ Of(l, m) = DateCompare(Same, l, m, TRUE)
            /\ Of(m, r) = DateCompare(Same, m, r, TRUE)
            /\ Of(l, r) = DateCompare(Same, l, r, TRUE)
        BY <3>1, <3>3
      <4>3. Chain(Of(l, m), Of(m, r), Of(l, r))
        BY <4>1, <4>2, DatesChain
      <4> QED BY <1>4, <4>3 DEF Of
    <3>4. CASE l.kind = "ordinal" /\ m.kind = "ordinal" /\ r.kind = "ordinal"
      <4>1. l \in OrdinalNumber /\ m \in OrdinalNumber /\ r \in OrdinalNumber
        BY <3>4, DateordKinds
      <4>2. /\ Of(l, m) = OrdinalCompare(Same, l, m, TRUE)
            /\ Of(m, r) = OrdinalCompare(Same, m, r, TRUE)
            /\ Of(l, r) = OrdinalCompare(Same, l, r, TRUE)
        BY <3>1, <3>4
      <4>3. Chain(Of(l, m), Of(m, r), Of(l, r))
        BY <4>1, <4>2, SameChain, OrdinalsChain
      <4> QED BY <1>4, <4>3 DEF Of
    <3> QED BY <2>2, <3>2, <3>3, <3>4, DateordKinds
  <2> QED BY <2>1, <2>2
<1>5. CASE ~(a = Same /\ b = Same /\ c = Same)
  <2> DEFINE d == DateordCompare(a, l, m, TRUE)
             e == DateordCompare(b, m, r, TRUE)
             f == DateordCompare(c, l, r, TRUE)
  <2>1. /\ Lacks(a, d, le, me) /\ Lacks(b, e, me, re) /\ Keeps(c, f)
        /\ c = Specifying /\ le => f = Specifying
    BY ChainTypes, DateordKeeps, DateordLacks
  <2> HIDE DEF le, me, re, d, e, f, Of
  <2>2. Chain(d, e, f)
    BY <1>1, <1>5, <2>1, LacksChain
  <2> QED BY <2>2 DEF d, e, f
<1> QED BY <1>4, <1>5

LEMMA CuttersChain ==
  ASSUME NEW a, NEW b, NEW c, Chain(a, b, c),
         NEW l \in Cuttseg, NEW m \in Cuttseg, NEW r \in Cuttseg
  PROVE  Chain(CutterCompare(a, l, m, TRUE), CutterCompare(b, m, r, TRUE),
               CutterCompare(c, l, r, TRUE))
<1> DEFINE d == LetterCompare(a, Upper(l.letter), Upper(m.letter))
           e == LetterCompare(b, Upper(m.letter), Upper(r.letter))
           f == LetterCompare(c, Upper(l.letter), Upper(r.letter))
<1>1. /\ l.number \in Text /\ m.number \in Text /\ r.number \in Text
      /\ l.mark \in Text /\ m.mark \in Text /\ r.mark \in Text
  BY DEF Cuttseg
<1>2. Chain(d, e, f)
  BY LettersChain
<1>3. /\ CutterCompare(a, l, m, TRUE)
           = DecimalCompare(DecimalCompare(d, l.number, m.number, FALSE), l.mark, m.mark, TRUE)
      /\ CutterCompare(b, m, r, TRUE)
           = DecimalCompare(DecimalCompare(e, m.number, r.number, FALSE), m.mark, r.mark, TRUE)
      /\ CutterCompare(c, l, r, TRUE)
           = DecimalCompare(DecimalCompare(f, l.number, r.number, FALSE), l.mark, r.mark, TRUE)
  BY DEF CutterCompare
<1> HIDE DEF d, e, f
<1>4. Chain(DecimalCompare(d, l.number, m.number, FALSE), DecimalCompare(e, m.number, r.number, FALSE),
            DecimalCompare(f, l.number, r.number, FALSE))
  BY <1>1, <1>2, CutterNumbersChain
<1> QED BY <1>1, <1>3, <1>4, DecimalsChain

LEMMA CuttsegIs ==
  ASSUME NEW s \in Results \ Decided, NEW l \in Cuttseg, NEW r \in Cuttseg
  PROVE  LET le == l.letter = 0
             re == r.letter = 0
             next == CuttsegCompare(s, l, r, TRUE)
         IN  /\ le \/ re => Settles(s, le, re) /\ next = Settled(s, le, re, TRUE)
             /\ ~le /\ ~re => next = DateordCompare(CutterCompare(s, l, r, TRUE),
                                                    l.dateord, r.dateord, TRUE)
BY DEF CuttsegCompare, Settles

LEMMA CuttsegLacks ==
  ASSUME NEW s \in Results, NEW l \in Cuttseg, NEW r \in Cuttseg
  PROVE  /\ Lacks(s, CuttsegCompare(s, l, r, TRUE), l.letter = 0, r.letter = 0)
         /\ s = Specifying /\ l.letter = 0 => CuttsegCompare(s, l, r, TRUE) = Specifying
<1> DEFINE le == l.letter = 0
           re == r.letter = 0
           next == CuttsegCompare(s, l, r, TRUE)
<1>1. le \in BOOLEAN /\ re \in BOOLEAN
  OBVIOUS
<1>2. Keeps(s, next)
  BY CuttsegKeeps
<1>3. CASE s \in {Generalizing, Descending, Ascending}
  <2> HIDE DEF le, re, next
  <2>1. Lacks(s, next, le, re) /\ s # Specifying
    BY <1>2, <1>3 DEF Lacks
  <2> QED BY <2>1 DEF le, re, next
<1>4. CASE s \in {Same, Specifying}
  <2>1. s \in Results \ Decided
    BY <1>4 DEF Decided
  <2>2. CASE le \/ re
    <3>1. Settles(s, le, re) /\ next = Settled(s, le, re, TRUE)
      BY <2>1, <2>2, CuttsegIs
    <3> HIDE DEF le, re, next
    <3>2. Lacks(s, next, le, re) /\ (s = Specifying /\ le => next = Specifying)
      BY <1>1, <3>1, SettledLacks
    <3> QED BY <3>2 DEF le, re, next
  <2>3. CASE ~le /\ ~re
    <3>1. ASSUME s = Specifying PROVE next \notin Including
      <4> DEFINE digits == DecimalCompare(LetterCompare(s, Upper(l.letter), Upper(r.letter)),
                                          l.number, r.number, FALSE)
                 cutter == CutterCompare(s, l, r, TRUE)
      <4>1. /\ l.number \in Text /\ r.number \in Text
            /\ l.mark \in Text /\ r.mark \in Text
            /\ l.dateord \in Dateord /\ r.dateord \in Dateord
        BY DEF Cuttseg
      <4>2. LetterCompare(s, Upper(l.letter), Upper(r.letter)) \in Results \ {Same}
        BY <3>1 DEF LetterCompare, Linear, Results
      <4>3. digits \in Results /\ digits \notin Including
        BY <4>1, <4>2, CutterNumberIs
      <4>4. cutter = DecimalCompare(digits, l.mark, r.mark, TRUE)
        BY DEF CutterCompare
      <4>5. next = DateordCompare(cutter, l.dateord, r.dateord, TRUE)
        BY <2>1, <2>3, CuttsegIs
      <4> HIDE DEF digits, cutter, next, le, re
      <4>6. cutter \in Results /\ cutter \notin Including
        BY <4>1, <4>3, <4>4, DecimalKeeps, KeepsIncluding
      <4> QED BY <4>1, <4>5, <4>6, DateordKeeps, KeepsIncluding
    <3> HIDE DEF le, re, next
    <3>2. Lacks(s, next, le, re)
      BY <1>2, <2>3, <3>1 DEF Lacks
    <3> QED BY <2>3, <3>2 DEF le, re, next
  <2> QED BY <2>2, <2>3
<1> QED BY <1>3, <1>4 DEF Results

(* What is known when the dates of two cutters are compared.               *)
CuttersInTime(status, l, r) == InTime(CutterCompare(status, l, r, TRUE), l.dateord, r.dateord)

LEMMA CuttsegsChain ==
  ASSUME NEW a, NEW b, NEW c, Chain(a, b, c),
         NEW l \in Cuttseg, NEW m \in Cuttseg, NEW r \in Cuttseg,
         CuttersInTime(a, l, m), CuttersInTime(b, m, r)
  PROVE  Chain(CuttsegCompare(a, l, m, TRUE), CuttsegCompare(b, m, r, TRUE),
               CuttsegCompare(c, l, r, TRUE))
<1> DEFINE Of(x, y) == CuttsegCompare(Same, x, y, TRUE)
           le == l.letter = 0
           me == m.letter = 0
           re == r.letter = 0
<1>1. le \in BOOLEAN /\ me \in BOOLEAN /\ re \in BOOLEAN
  OBVIOUS
<1>2. Same \in Results \ Decided
  BY DEF Results, Decided
<1>3. Of(l, m) \in Results /\ Of(m, r) \in Results /\ Of(l, r) \in Results
  BY <1>2, CuttsegKeeps DEF Keeps
<1>4. CASE a = Same /\ b = Same /\ c = Same
  <2>1. CASE le \/ me \/ re
    <3>1. ASSUME NEW x \in Cuttseg, NEW y \in Cuttseg, x.letter = 0 \/ y.letter = 0
          PROVE  Of(x, y) = IF x.letter = 0 /\ y.letter = 0 THEN Same
                            ELSE IF x.letter = 0 THEN Specifying ELSE Generalizing
      <4> DEFINE xe == x.letter = 0
                 ye == y.letter = 0
      <4>1. Settles(Same, xe, ye) /\ Of(x, y) = Settled(Same, xe, ye, TRUE)
        BY <1>2, <3>1, CuttsegIs
      <4>2. xe \in BOOLEAN /\ ye \in BOOLEAN
        OBVIOUS
      <4> HIDE DEF xe, ye, Of
      <4>3. Of(x, y) = IF xe /\ ye THEN Same ELSE IF xe THEN Specifying ELSE Generalizing
        BY <1>2, <4>1, <4>2, SettledLacks
      <4> QED BY <4>3 DEF xe, ye
    <3> HIDE DEF Of
    <3>2. /\ le \/ me => Of(l, m) = IF le /\ me THEN Same ELSE IF le THEN Specifying ELSE Generalizing
          /\ me \/ re => Of(m, r) = IF me /\ re THEN Same ELSE IF me THEN Specifying ELSE Generalizing
          /\ le \/ re => Of(l, r) = IF le /\ re THEN Same ELSE IF le THEN Specifying ELSE Generalizing
      BY <3>1
    <3> HIDE DEF le, me, re
    <3>3. Chain(Of(l, m), Of(m, r), Of(l, r))
      BY <1>1, <1>3, <2>1, <3>2, MissingChain
    <3> QED BY <1>4, <3>3 DEF Of
  <2>2. CASE ~le /\ ~me /\ ~re
    <3>1. Chain(CutterCompare(a, l, m, TRUE), CutterCompare(b, m, r, TRUE), CutterCompare(c, l, r, TRUE))
      BY CuttersChain
    <3>2. l.dateord \in Dateord /\ m.dateord \in Dateord /\ r.dateord \in Dateord
      BY DEF Cuttseg
    <3>3. Chain(DateordCompare(CutterCompare(a, l, m, TRUE), l.dateord, m.dateord, TRUE),
                DateordCompare(CutterCompare(b, m, r, TRUE), m.dateord, r.dateord, TRUE),
                DateordCompare(CutterCompare(c, l, r, TRUE), l.dateord, r.dateord, TRUE))
      BY <3>1, <3>2, DateordsChain DEF CuttersInTime
    <3>4. ASSUME NEW x \in Cuttseg, NEW y \in Cuttseg, x.letter # 0, y.letter # 0
          PROVE  Of(x, y) = DateordCompare(CutterCompare(Same, x, y, TRUE), x.dateord, y.dateord, TRUE)
      BY <1>2, <3>4, CuttsegIs
    <3> HIDE DEF Of
    <3>5. Chain(Of(l, m), Of(m, r), Of(l, r))
      BY <1>4, <2>2, <3>3, <3>4
    <3> QED BY <1>4, <3>5 DEF Of
  <2> QED BY <2>1, <2>2
<1>5. CASE ~(a = Same /\ b = Same /\ c = Same)
  <2> DEFINE d == CuttsegCompare(a, l, m, TRUE)
             e == CuttsegCompare(b, m, r, TRUE)
             f == CuttsegCompare(c, l, r, TRUE)
  <2>1. /\ Lacks(a, d, le, me) /\ Lacks(b, e, me, re) /\ Keeps(c, f)
        /\ c = Specifying /\ le => f = Specifying
    BY ChainTypes, CuttsegKeeps, CuttsegLacks
  <2> HIDE DEF le, me, re, d, e, f, Of
  <2>2. Chain(d, e, f)
    BY <1>1, <1>5, <2>1, LacksChain
  <2> QED BY <2>2 DEF d, e, f
<1> QED BY <1>4, <1>5

LEMMA SpecificationIs ==
  ASSUME NEW s \in Results \ Decided, NEW l \in Specification, NEW r \in Specification
  PROVE  LET le == l.kind = "none"
             re == r.kind = "none"
             next == SpecificationCompare(s, l, r, TRUE)
         IN  /\ le \/ re => Settles(s, le, re) /\ next = Settled(s, le, re, TRUE)
             /\ ~le /\ ~re => next = IF l.kind = r.kind THEN SameKindCompare(s, l, r, TRUE)
                                     ELSE Ordered(KindRank(l), KindRank(r))
BY DEF SpecificationCompare, Settles

LEMMA SpecificationKinds ==
  ASSUME NEW n \in Specification
  PROVE  \/ n.kind = "none"
         \/ n \in Date /\ n.kind = "date"
         \/ n \in WordText /\ n.kind = "word"
         \/ n \in OrdinalNumber /\ n.kind = "ordinal"
         \/ n \in Numbered /\ n.kind \in {"volume", "supplement"}
BY DEF Specification, Dateord, Missing, Date, YearDate, SpanDate, DayDate,
       OrdinalNumber, WordText, Numbered

LEMMA SameKindAscends ==
  ASSUME NEW l \in Specification, NEW r \in Specification, l.kind = r.kind,
         l.kind \notin {"none", "date"}
  PROVE  SameKindCompare(Specifying, l, r, TRUE) = Ascending
<1>1. CASE l.kind = "word"
  <2>1. l \in WordText /\ r \in WordText
    BY <1>1, SpecificationKinds
  <2> QED BY <1>1, <2>1, PartAscends DEF SameKindCompare
<1>2. CASE l.kind = "ordinal"
  <2>1. l \in OrdinalNumber /\ r \in OrdinalNumber
    BY <1>2, SpecificationKinds
  <2> QED BY <1>2, <2>1, PartAscends DEF SameKindCompare
<1>3. CASE l.kind \in {"volume", "supplement"}
  <2>1. l \in Numbered /\ r \in Numbered
    BY <1>3, SpecificationKinds
  <2> QED BY <1>3, <2>1, PartAscends DEF SameKindCompare
<1> QED BY <1>1, <1>2, <1>3, SpecificationKinds

LEMMA SpecificationLacks ==
  ASSUME NEW s \in Results, NEW l \in Specification, NEW r \in Specification
  PROVE  /\ InTime(s, l, r) =>
              Lacks(s, SpecificationCompare(s, l, r, TRUE), l.kind = "none", r.kind = "none")
         /\ s = Specifying /\ l.kind = "none" => SpecificationCompare(s, l, r, TRUE) = Specifying
<1> DEFINE le == l.kind = "none"
           re == r.kind = "none"
           next == SpecificationCompare(s, l, r, TRUE)
<1>1. le \in BOOLEAN /\ re \in BOOLEAN
  OBVIOUS
<1>2. Keeps(s, next)
  BY SpecificationKeeps
<1>3. CASE s \in {Generalizing, Descending, Ascending}
  <2> HIDE DEF le, re, next
  <2>1. Lacks(s, next, le, re) /\ s # Specifying
    BY <1>2, <1>3 DEF Lacks
  <2> QED BY <2>1 DEF le, re, next
<1>4. CASE s \in {Same, Specifying}
  <2>1. s \in Results \ Decided
    BY <1>4 DEF Decided
  <2>2. CASE le \/ re
    <3>1. Settles(s, le, re) /\ next = Settled(s, le, re, TRUE)
      BY <2>1, <2>2, SpecificationIs
    <3> HIDE DEF le, re, next
    <3>2. Lacks(s, next, le, re) /\ (s = Specifying /\ le => next = Specifying)
      BY <1>1, <3>1, SettledLacks
    <3> QED BY <3>2 DEF le, re, next
  <2>3. CASE ~le /\ ~re
    <3>1. ASSUME InTime(s, l, r), s = Specifying PROVE next \in Decided
      <4>1. next = IF l.kind = r.kind THEN SameKindCompare(s, l, r, TRUE)
                   ELSE Ordered(KindRank(l), KindRank(r))
        BY <2>1, <2>3, SpecificationIs
      <4>2. l.kind = r.kind => l.kind # "date"
        BY <3>1 DEF InTime
      <4>3. l.kind = r.kind => SameKindCompare(s, l, r, TRUE) = Ascending
        BY <2>3, <3>1, <4>2, SameKindAscends
      <4> QED BY <4>1, <4>3 DEF Decided, Ordered
    <3> HIDE DEF le, re, next
    <3>2. next \in Decided => next \notin Including
      BY DEF Decided, Including
    <3>3. InTime(s, l, r) => Lacks(s, next, le, re)
      BY <1>2, <2>3, <3>1, <3>2 DEF Lacks
    <3> QED BY <2>3, <3>3 DEF le, re, next
  <2> QED BY <2>2, <2>3
<1> QED BY <1>3, <1>4 DEF Results

LEMMA SameKindsChain ==
  ASSUME NEW l \in Specification, NEW m \in Specification, NEW r \in Specification,
         l.kind = m.kind, m.kind = r.kind, l.kind # "none"
  PROVE  Chain(SameKindCompare(Same, l, m, TRUE), SameKindCompare(Same, m, r, TRUE),
               SameKindCompare(Same, l, r, TRUE))
<1>1. CASE l.kind = "date"
  <2>1. l \in Date /\ m \in Date /\ r \in Date
    BY <1>1, SpecificationKinds
  <2> QED BY <1>1, <2>1, DatesChain DEF SameKindCompare
<1>2. CASE l.kind = "word"
  <2>1. l.word \in Text /\ m.word \in Text /\ r.word \in Text
    BY <1>2, SpecificationKinds DEF WordText
  <2> QED BY <1>2, <2>1, SameChain, StringsChain DEF SameKindCompare
<1>3. CASE l.kind = "ordinal"
  <2>1. l \in OrdinalNumber /\ m \in OrdinalNumber /\ r \in OrdinalNumber
    BY <1>3, SpecificationKinds
  <2> QED BY <1>3, <2>1, SameChain, OrdinalsChain DEF SameKindCompare
<1>4. CASE l.kind \in {"volume", "supplement"}
  <2>1. l \in Numbered /\ m \in Numbered /\ r \in Numbered
    BY <1>4, SpecificationKinds
  <2> QED BY <1>4, <2>1, SameChain, NumberedsChain DEF SameKindCompare
<1> QED BY <1>1, <1>2, <1>3, <1>4, SpecificationKinds

LEMMA SpecificationsChain ==
  ASSUME NEW a, NEW b, NEW c, Chain(a, b, c),
         NEW l \in Specification, NEW m \in Specification, NEW r \in Specification,
         InTime(a, l, m), InTime(b, m, r)
  PROVE  Chain(SpecificationCompare(a, l, m, TRUE), SpecificationCompare(b, m, r, TRUE),
               SpecificationCompare(c, l, r, TRUE))
<1> DEFINE Of(x, y) == SpecificationCompare(Same, x, y, TRUE)
           le == l.kind = "none"
           me == m.kind = "none"
           re == r.kind = "none"
<1>1. le \in BOOLEAN /\ me \in BOOLEAN /\ re \in BOOLEAN
  OBVIOUS
<1>2. Same \in Results \ Decided
  BY DEF Results, Decided
<1>3. Of(l, m) \in Results /\ Of(m, r) \in Results /\ Of(l, r) \in Results
  BY <1>2, SpecificationKeeps DEF Keeps
<1>4. CASE a = Same /\ b = Same /\ c = Same
  <2>1. CASE le \/ me \/ re
    <3>1. ASSUME NEW x \in Specification, NEW y \in Specification, x.kind = "none" \/ y.kind = "none"
          PROVE  Of(x, y) = IF x.kind = "none" /\ y.kind = "none" THEN Same
                            ELSE IF x.kind = "none" THEN Specifying ELSE Generalizing
      <4> DEFINE xe == x.kind = "none"
                 ye == y.kind = "none"
      <4>1. Settles(Same, xe, ye) /\ Of(x, y) = Settled(Same, xe, ye, TRUE)
        BY <1>2, <3>1, SpecificationIs
      <4>2. xe \in BOOLEAN /\ ye \in BOOLEAN
        OBVIOUS
      <4> HIDE DEF xe, ye, Of
      <4>3. Of(x, y) = IF xe /\ ye THEN Same ELSE IF xe THEN Specifying ELSE Generalizing
        BY <1>2, <4>1, <4>2, SettledLacks
      <4> QED BY <4>3 DEF xe, ye
    <3> HIDE DEF Of
    <3>2. /\ le \/ me => Of(l, m) = IF le /\ me THEN Same ELSE IF le THEN Specifying ELSE Generalizing
          /\ me \/ re => Of(m, r) = IF me /\ re THEN Same ELSE IF me THEN Specifying ELSE Generalizing
          /\ le \/ re => Of(l, r) = IF le /\ re THEN Same ELSE IF le THEN Specifying ELSE Generalizing
      BY <3>1
    <3> HIDE DEF le, me, re
    <3>3. Chain(Of(l, m), Of(m, r), Of(l, r))
      BY <1>1, <1>3, <2>1, <3>2, MissingChain
    <3> QED BY <1>4, <3>3 DEF Of
  <2>2. CASE ~le /\ ~me /\ ~re
    <3>1. ASSUME NEW x \in Specification, NEW y \in Specification, x.kind # "none", y.kind # "none"
          PROVE  Of(x, y) = IF x.kind = y.kind THEN SameKindCompare(Same, x, y, TRUE)
                            ELSE Ordered(KindRank(x), KindRank(y))
      BY <1>2, <3>1, SpecificationIs
    <3> HIDE DEF Of
    <3>2. CASE l.kind # m.kind \/ m.kind # r.kind
      <4>1. Of(l, m) \in Decided \/ Of(m, r) \in Decided
        BY <2>2, <3>1, <3>2 DEF Decided, Ordered
      <4>2. Chain(Of(l, m), Of(m, r), Of(l, r))
        BY <1>3, <4>1, MixedChain
      <4> QED BY <1>4, <4>2 DEF Of
    <3>3. CASE l.kind = m.kind /\ m.kind = r.kind
      <4>1. /\ Of(l, m) = SameKindCompare(Same, l, m, TRUE)
            /\ Of(m, r) = SameKindCompare(Same, m, r, TRUE)
            /\ Of(l, r) = SameKindCompare(Same, l, r, TRUE)
        BY <2>2, <3>1, <3>3
      <4>2. Chain(Of(l, m), Of(m, r), Of(l, r))
        BY <2>2, <3>3, <4>1, SameKindsChain
      <4> QED BY <1>4, <4>2 DEF Of
    <3> QED BY <3>2, <3>3
  <2> QED BY <2>1, <2>2
<1>5. CASE ~(a = Same /\ b = Same /\ c = Same)
  <2> DEFINE d == SpecificationCompare(a, l, m, TRUE)
             e == SpecificationCompare(b, m, r, TRUE)
             f == SpecificationCompare(c, l, r, TRUE)
  <2>1. /\ Lacks(a, d, le, me) /\ Lacks(b, e, me, re) /\ Keeps(c, f)
        /\ c = Specifying /\ le => f = Specifying
    BY ChainTypes, SpecificationKeeps, SpecificationLacks
  <2> HIDE DEF le, me, re, d, e, f, Of
  <2>2. Chain(d, e, f)
    BY <1>1, <1>5, <2>1, LacksChain
  <2> QED BY <2>2 DEF d, e, f
<1> QED BY <1>4, <1>5

(* What is known when the dates of part k are compared.                    *)
PartInTime(k, status, l, r) ==
  k >= 4 => InTime(IntoDate(k, status, l, r), DateAt(k, l), DateAt(k, r))

LEMMA SegmentsChain ==
  ASSUME NEW a, NEW b, NEW c, Chain(a, b, c),
         NEW l \in CallNumber, NEW m \in CallNumber, NEW r \in CallNumber,
         NEW k \in Nat \ {0}, k <= Segments(l, m), k <= Segments(m, r), k <= Segments(l, r),
         PartInTime(k, a, l, m), PartInTime(k, b, m, r)
  PROVE  Chain(SegmentCompare(k, a, l, m, TRUE), SegmentCompare(k, b, m, r, TRUE),
               SegmentCompare(k, c, l, r, TRUE))
<1>1. ASSUME NEW n \in CallNumber
      PROVE  /\ n.letters \in Text /\ n.integer \in Nat \cup {Absent}
             /\ n.decimal \in Text /\ n.dateord \in Dateord
  BY DEF CallNumber
<1>2. CASE k = 1
  <2>1. l.letters \in Text /\ m.letters \in Text /\ r.letters \in Text
    BY <1>1
  <2>2. /\ SegmentCompare(k, a, l, m, TRUE) = StringCompare(a, l.letters, m.letters, TRUE)
        /\ SegmentCompare(k, b, m, r, TRUE) = StringCompare(b, m.letters, r.letters, TRUE)
        /\ SegmentCompare(k, c, l, r, TRUE) = StringCompare(c, l.letters, r.letters, TRUE)
    BY <1>2 DEF SegmentCompare
  <2> QED BY <2>1, <2>2, StringsChain
<1>3. CASE k = 2
  <2>1. /\ l.integer \in Nat \cup {Absent}
        /\ m.integer \in Nat \cup {Absent}
        /\ r.integer \in Nat \cup {Absent}
    BY <1>1
  <2>2. /\ SegmentCompare(k, a, l, m, TRUE) = IntegerCompare(a, l.integer, m.integer, TRUE)
        /\ SegmentCompare(k, b, m, r, TRUE) = IntegerCompare(b, m.integer, r.integer, TRUE)
        /\ SegmentCompare(k, c, l, r, TRUE) = IntegerCompare(c, l.integer, r.integer, TRUE)
    BY <1>3 DEF SegmentCompare
  <2> QED BY <2>1, <2>2, IntegersChain
<1>4. CASE k = 3
  <2>1. l.decimal \in Text /\ m.decimal \in Text /\ r.decimal \in Text
    BY <1>1
  <2>2. /\ SegmentCompare(k, a, l, m, TRUE) = DecimalCompare(a, l.decimal, m.decimal, TRUE)
        /\ SegmentCompare(k, b, m, r, TRUE) = DecimalCompare(b, m.decimal, r.decimal, TRUE)
        /\ SegmentCompare(k, c, l, r, TRUE) = DecimalCompare(c, l.decimal, r.decimal, TRUE)
    BY <1>4 DEF SegmentCompare
  <2> QED BY <2>1, <2>2, DecimalsChain
<1>5. CASE k = 4
  <2>1. l.dateord \in Dateord /\ m.dateord \in Dateord /\ r.dateord \in Dateord
    BY <1>1
  <2>2. /\ SegmentCompare(k, a, l, m, TRUE) = DateordCompare(a, l.dateord, m.dateord, TRUE)
        /\ SegmentCompare(k, b, m, r, TRUE) = DateordCompare(b, m.dateord, r.dateord, TRUE)
        /\ SegmentCompare(k, c, l, r, TRUE) = DateordCompare(c, l.dateord, r.dateord, TRUE)
    BY <1>5 DEF SegmentCompare
  <2>3. InTime(a, l.dateord, m.dateord) /\ InTime(b, m.dateord, r.dateord)
    BY <1>5 DEF PartInTime, IntoDate, DateAt
  <2> QED BY <2>1, <2>2, <2>3, DateordsChain
<1>6. CASE k \in 5..7
  <2>1. l.cutters[k - 4] \in Cuttseg /\ m.cutters[k - 4] \in Cuttseg /\ r.cutters[k - 4] \in Cuttseg
    BY <1>6, PartsOfCallNumbers
  <2>2. k \notin {1, 2, 3, 4} /\ k \notin 8..9 /\ k >= 4
    BY <1>6
  <2>3. /\ SegmentCompare(k, a, l, m, TRUE)
             = CuttsegCompare(a, l.cutters[k - 4], m.cutters[k - 4], TRUE)
        /\ SegmentCompare(k, b, m, r, TRUE)
             = CuttsegCompare(b, m.cutters[k - 4], r.cutters[k - 4], TRUE)
        /\ SegmentCompare(k, c, l, r, TRUE)
             = CuttsegCompare(c, l.cutters[k - 4], r.cutters[k - 4], TRUE)
    BY <1>6, <2>2 DEF SegmentCompare
  <2>4. /\ CuttersInTime(a, l.cutters[k - 4], m.cutters[k - 4])
        /\ CuttersInTime(b, m.cutters[k - 4], r.cutters[k - 4])
    BY <1>6, <2>2 DEF PartInTime, IntoDate, DateAt, CuttersInTime
  <2> QED BY <2>1, <2>3, <2>4, CuttsegsChain
<1>7. CASE k \in 8..9
  <2>1. /\ l.specifications[k - 7] \in Specification
        /\ m.specifications[k - 7] \in Specification
        /\ r.specifications[k - 7] \in Specification
    BY <1>7, PartsOfCallNumbers
  <2>2. k \notin {1, 2, 3, 4} /\ k \notin 5..7 /\ k >= 4
    BY <1>7
  <2>3. /\ SegmentCompare(k, a, l, m, TRUE)
             = SpecificationCompare(a, l.specifications[k - 7], m.specifications[k - 7], TRUE)
        /\ SegmentCompare(k, b, m, r, TRUE)
             = SpecificationCompare(b, m.specifications[k - 7], r.specifications[k - 7], TRUE)
        /\ SegmentCompare(k, c, l, r, TRUE)
             = SpecificationCompare(c, l.specifications[k - 7], r.specifications[k - 7], TRUE)
    BY <1>7, <2>2 DEF SegmentCompare
  <2>4. /\ InTime(a, l.specifications[k - 7], m.specifications[k - 7])
        /\ InTime(b, m.specifications[k - 7], r.specifications[k - 7])
    BY <1>7, <2>2 DEF PartInTime, IntoDate, DateAt
  <2> QED BY <2>1, <2>3, <2>4, SpecificationsChain
<1>8. CASE k > 9
  <2>1. /\ l.remainder[k - 9] \in Specification
        /\ m.remainder[k - 9] \in Specification
        /\ r.remainder[k - 9] \in Specification
    BY <1>8, PartsOfCallNumbers
  <2>2. k \notin {1, 2, 3, 4} /\ k \notin 5..7 /\ k \notin 8..9 /\ k >= 4
    BY <1>8
  <2>3. /\ SegmentCompare(k, a, l, m, TRUE)
             = SpecificationCompare(a, l.remainder[k - 9], m.remainder[k - 9], TRUE)
        /\ SegmentCompare(k, b, m, r, TRUE)
             = SpecificationCompare(b, m.remainder[k - 9], r.remainder[k - 9], TRUE)
        /\ SegmentCompare(k, c, l, r, TRUE)
             = SpecificationCompare(c, l.remainder[k - 9], r.remainder[k - 9], TRUE)
    BY <1>8, <2>2 DEF SegmentCompare
  <2>4. /\ InTime(a, l.remainder[k - 9], m.remainder[k - 9])
        /\ InTime(b, m.remainder[k - 9], r.remainder[k - 9])
    BY <1>8, <2>2 DEF PartInTime, IntoDate, DateAt
  <2> QED BY <2>1, <2>3, <2>4, SpecificationsChain
<1>9. k = 1 \/ k = 2 \/ k = 3 \/ k = 4 \/ k \in 5..7 \/ k \in 8..9 \/ k > 9
  OBVIOUS
<1> QED BY <1>2, <1>3, <1>4, <1>5, <1>6, <1>7, <1>8, <1>9

LEMMA StatusesKeep ==
  ASSUME NEW l \in CallNumber, NEW r \in CallNumber, NEW spec \in BOOLEAN,
         NEW n \in 0..Segments(l, r)
  PROVE  /\ \A k \in 0..Segments(l, r) : Statuses(l, r, spec)[k] \in Results
         /\ \A k \in n..Segments(l, r) : Keeps(Statuses(l, r, spec)[n], Statuses(l, r, spec)[k])
<1> DEFINE f == Statuses(l, r, spec)
           S == {k \in 0..Segments(l, r) : f[k] \in Results}
           T == {k \in 0..Segments(l, r) : k < n \/ Keeps(f[n], f[k])}
<1>1. Segments(l, r) \in Nat
  BY SegmentsType
<1>2. f[0] = Same /\ \A k \in 1..Segments(l, r) : f[k] = SegmentCompare(k, f[k - 1], l, r, spec)
  BY StatusesAre
<1> HIDE DEF f
<1>3. \A k \in 1..Segments(l, r) : f[k - 1] \in Results => Keeps(f[k - 1], f[k])
  <2> SUFFICES ASSUME NEW k \in 1..Segments(l, r), f[k - 1] \in Results
               PROVE  Keeps(f[k - 1], f[k])
    OBVIOUS
  <2>1. k \in Nat \ {0} /\ k <= Segments(l, r)
    BY <1>1
  <2>2. Keeps(f[k - 1], SegmentCompare(k, f[k - 1], l, r, spec))
    BY <2>1, SegmentKeeps
  <2> QED BY <1>2, <2>2
<1>4. \A k \in 0..Segments(l, r) : f[k] \in Results
  <2>1. 0 \in S
    BY <1>1, <1>2 DEF Results
  <2>2. \A k \in 1..Segments(l, r) : k - 1 \in S => k \in S
    BY <1>1, <1>3 DEF Keeps
  <2> HIDE DEF S
  <2>3. \A k \in 0..Segments(l, r) : k \in S
    BY <1>1, <2>1, <2>2, UpTo
  <2> QED BY <2>3 DEF S
<1>5. \A k \in n..Segments(l, r) : Keeps(f[n], f[k])
  <2>1. \A s \in Results : Keeps(s, s)
    BY DEF Keeps, Decided
  <2>2. 0 \in T
    BY <1>1, <1>4, <2>1
  <2>3. ASSUME NEW k \in 1..Segments(l, r), k - 1 \in T PROVE k \in T
    <3>1. CASE k < n
      BY <1>1, <3>1
    <3>2. CASE k = n
      BY <1>1, <1>4, <2>1, <3>2
    <3>3. CASE k > n
      <4>1. Keeps(f[n], f[k - 1]) /\ Keeps(f[k - 1], f[k]) /\ f[n] \in Results
        BY <1>1, <1>3, <1>4, <2>3, <3>3
      <4>2. Keeps(f[n], f[k])
        BY <4>1, KeepsIsTransitive
      <4> QED BY <1>1, <4>2
    <3> QED BY <1>1, <3>1, <3>2, <3>3
  <2> HIDE DEF T
  <2>4. \A k \in 1..Segments(l, r) : k - 1 \in T => k \in T
    BY <2>3
  <2>5. \A k \in 0..Segments(l, r) : k \in T
    BY <1>1, <2>2, <2>4, UpTo
  <2>6. ASSUME NEW k \in n..Segments(l, r) PROVE Keeps(f[n], f[k])
    <3>1. k \in T /\ ~(k < n)
      BY <1>1, <2>5
    <3> QED BY <3>1 DEF T
  <2> QED BY <2>6
<1> QED BY <1>4, <1>5 DEF f

LEMMA NoLateDates ==
  ASSUME NEW l \in CallNumber, NEW r \in CallNumber, LateDates(l, r) = {},
         NEW k \in 1..Segments(l, r)
  PROVE  PartInTime(k, Statuses(l, r, TRUE)[k - 1], l, r)
<1>1. Segments(l, r) \in Nat
  BY SegmentsType
<1>2. BeforeDate(k, l, r) = IntoDate(k, Statuses(l, r, TRUE)[k - 1], l, r)
  BY DEF BeforeDate, IntoDate
<1>3. k >= 4 => k \in 4..Segments(l, r)
  BY <1>1
<1>4. ASSUME k >= 4, DateAt(k, l).kind = "date", DateAt(k, r).kind = "date"
      PROVE  BeforeDate(k, l, r) \notin {Specifying, Generalizing}
  BY <1>3, <1>4 DEF LateDates
<1> QED BY <1>2, <1>4 DEF PartInTime, InTime

LEMMA StatusesChain ==
  ASSUME NEW l \in CallNumber, NEW m \in CallNumber, NEW r \in CallNumber,
         NEW n \in Nat, n <= Segments(l, m), n <= Segments(m, r), n <= Segments(l, r),
         LateDates(l, m) = {}, LateDates(m, r) = {}
  PROVE  Chain(Statuses(l, m, TRUE)[n], Statuses(m, r, TRUE)[n], Statuses(l, r, TRUE)[n])
<1> DEFINE f == Statuses(l, m, TRUE)
           g == Statuses(m, r, TRUE)
           h == Statuses(l, r, TRUE)
           S == {k \in 0..n : Chain(f[k], g[k], h[k])}
<1>1. Segments(l, m) \in Nat /\ Segments(m, r) \in Nat /\ Segments(l, r) \in Nat
  BY SegmentsType
<1>2. f[0] = Same /\ \A k \in 1..Segments(l, m) : f[k] = SegmentCompare(k, f[k - 1], l, m, TRUE)
  BY StatusesAre
<1>3. g[0] = Same /\ \A k \in 1..Segments(m, r) : g[k] = SegmentCompare(k, g[k - 1], m, r, TRUE)
  BY StatusesAre
<1>4. h[0] = Same /\ \A k \in 1..Segments(l, r) : h[k] = SegmentCompare(k, h[k - 1], l, r, TRUE)
  BY StatusesAre
<1>5. /\ \A k \in 1..Segments(l, m) : PartInTime(k, f[k - 1], l, m)
      /\ \A k \in 1..Segments(m, r) : PartInTime(k, g[k - 1], m, r)
  BY NoLateDates
<1> HIDE DEF f, g, h
<1>6. 0 \in S
  BY <1>2, <1>3, <1>4, SameChain
<1>7. ASSUME NEW k \in 1..n, k - 1 \in S PROVE k \in S
  <2>1. /\ k \in Nat \ {0}
        /\ k <= Segments(l, m) /\ k <= Segments(m, r) /\ k <= Segments(l, r)
        /\ k \in 1..Segments(l, m) /\ k \in 1..Segments(m, r) /\ k \in 1..Segments(l, r)
    BY <1>1
  <2>2. Chain(f[k - 1], g[k - 1], h[k - 1])
    BY <1>7
  <2>3. PartInTime(k, f[k - 1], l, m) /\ PartInTime(k, g[k - 1], m, r)
    BY <1>5, <2>1
  <2>4. Chain(SegmentCompare(k, f[k - 1], l, m, TRUE), SegmentCompare(k, g[k - 1], m, r, TRUE),
              SegmentCompare(k, h[k - 1], l, r, TRUE))
    BY <2>1, <2>2, <2>3, SegmentsChain
  <2>5. Chain(f[k], g[k], h[k])
    BY <1>2, <1>3, <1>4, <2>1, <2>4
  <2> QED BY <2>5
<1> HIDE DEF S
<1>8. \A k \in 1..n : k - 1 \in S => k \in S
  BY <1>7
<1>9. \A k \in 0..n : k \in S
  BY <1>6, <1>8, UpTo
<1>10. Chain(f[n], g[n], h[n])
  BY <1>9 DEF S
<1> QED BY <1>10 DEF f, g, h

(* compareWithCallNumber:, seen after n of the parts.                      *)
LEMMA CompareKeeps ==
  ASSUME NEW l \in CallNumber, NEW r \in CallNumber, NEW n \in 0..Segments(l, r)
  PROVE  /\ Keeps(Statuses(l, r, TRUE)[n], Compare(l, r, TRUE))
         /\ Statuses(l, r, TRUE)[n] \in Results
         /\ n = Segments(l, r) =>
              Compare(l, r, TRUE) =
                IF Statuses(l, r, TRUE)[n] # Same \/ Len(l.remainder) = Len(r.remainder)
                THEN Statuses(l, r, TRUE)[n]
                ELSE IF Len(l.remainder) < Len(r.remainder) THEN Specifying ELSE Generalizing
<1> DEFINE f == Statuses(l, r, TRUE)
           s == f[Segments(l, r)]
<1>1. Segments(l, r) \in Nat
  BY SegmentsType
<1>2. Keeps(f[n], s) /\ s \in Results /\ f[n] \in Results
  <2>1. Segments(l, r) \in n..Segments(l, r) /\ Segments(l, r) \in 0..Segments(l, r)
    BY <1>1
  <2> QED BY <2>1, StatusesKeep
<1>3. Compare(l, r, TRUE) = RemainderCompare(s, l, r, TRUE)
  BY DEF Compare
<1>4. n = Segments(l, r) => s = f[n]
  OBVIOUS
<1> HIDE DEF f, s
<1>5. Keeps(f[n], RemainderCompare(s, l, r, TRUE))
  BY <1>2, RemainderKeeps, KeepsIsTransitive
<1>6. RemainderCompare(s, l, r, TRUE) =
        IF s # Same \/ Len(l.remainder) = Len(r.remainder) THEN s
        ELSE IF Len(l.remainder) < Len(r.remainder) THEN Specifying ELSE Generalizing
  BY DEF RemainderCompare, Within
<1> QED BY <1>2, <1>3, <1>4, <1>5, <1>6 DEF f

LEMMA CompareCarriesOver ==
  ASSUME NEW l \in CallNumber, NEW m \in CallNumber, NEW r \in CallNumber,
         ~Outlasts(l, m), LateDates(l, m) = {}, LateDates(m, r) = {},
         Compare(l, m, TRUE) \in Including, Compare(m, r, TRUE) \in Including
  PROVE  Compare(l, r, TRUE) \in Including
<1> DEFINE x == Len(l.remainder)
           y == Len(m.remainder)
           z == Len(r.remainder)
           n == 9 + (IF x <= z THEN x ELSE z)
           a == Statuses(l, m, TRUE)[n]
           b == Statuses(m, r, TRUE)[n]
           c == Statuses(l, r, TRUE)[n]
           d == Compare(l, m, TRUE)
           e == Compare(m, r, TRUE)
           f == Compare(l, r, TRUE)
<1>1. x \in Nat /\ y \in Nat /\ z \in Nat /\ x <= y
  BY SegmentsType DEF Outlasts
<1>2. /\ Segments(l, m) = 9 + (IF x <= y THEN x ELSE y)
      /\ Segments(m, r) = 9 + (IF y <= z THEN y ELSE z)
      /\ Segments(l, r) = 9 + (IF x <= z THEN x ELSE z)
  BY SegmentsType
<1> HIDE DEF x, y, z
<1>3. /\ n \in Nat
      /\ n <= Segments(l, m) /\ n <= Segments(m, r) /\ n <= Segments(l, r)
      /\ n \in 0..Segments(l, m) /\ n \in 0..Segments(m, r) /\ n \in 0..Segments(l, r)
      /\ n = Segments(l, r)
      /\ x > z => n = Segments(m, r) /\ y > z
  BY <1>1, <1>2
<1> HIDE DEF n
<1>4. Chain(a, b, c)
  BY <1>3, StatusesChain
<1>5. Keeps(a, d) /\ a \in Results
  BY <1>3, CompareKeeps
<1>6. /\ Keeps(b, e) /\ b \in Results
      /\ n = Segments(m, r) =>
           e = IF b # Same \/ y = z THEN b ELSE IF y < z THEN Specifying ELSE Generalizing
  BY <1>3, CompareKeeps DEF y, z
<1>7. f = IF c # Same \/ x = z THEN c ELSE IF x < z THEN Specifying ELSE Generalizing
  BY <1>3, CompareKeeps DEF x, z
<1>8. d \in Including /\ e \in Including
  OBVIOUS
<1> HIDE DEF a, b, c, d, e, f
<1>9. a \in Including /\ b \in Including
  BY <1>5, <1>6, <1>8, KeepsIncluding
<1>10. c \in Including /\ (c = Same <=> a = Same /\ b = Same)
  BY <1>4, <1>9 DEF Chain
<1>11. x > z => b # Same
  BY <1>1, <1>3, <1>6, <1>8 DEF Including
<1>12. f \in Including
  BY <1>1, <1>7, <1>10, <1>11 DEF Including
<1> QED BY <1>12 DEF f

(* Whatever the call numbers: what a call number includes, it includes     *)
(* with everything that is included there, unless it goes on where the one *)
(* it includes ends, or two dates have been compared late on the way.      *)
THEOREM InclusionCarriesOver == Spec => []InclusionIsTransitive
<1>1. ASSUME TypeOK, InSteps PROVE InclusionIsTransitive
  <2> SUFFICES ASSUME Compared, specify, result \in {Same, Specifying},
                      NEW third \in Included[right] \ Included[left],
                      ~Outlasts(left, right), LateDates(left, right) = {},
                      LateDates(right, third) = {}
               PROVE  FALSE
    BY DEF InclusionIsTransitive
  <2>1. left \in CallNumbers /\ right \in CallNumbers /\ specify = TRUE
    BY <1>1 DEF InSteps, TypeOK
  <2>2. result = Compare(left, right, TRUE)
    BY <1>1, <2>1 DEF InSteps
  <2>3. third \in CallNumbers /\ Compare(right, third, TRUE) \in {Same, Specifying}
        /\ Compare(left, third, TRUE) \notin {Same, Specifying}
    BY <2>1 DEF Included
  <2>4. left \in CallNumber /\ right \in CallNumber /\ third \in CallNumber
    BY <2>1, <2>3, CallNumberAssumption
  <2> QED BY <2>2, <2>3, <2>4, CompareCarriesOver DEF Including
<1> QED BY <1>1, TypeCorrect, StepsAreCompare, PTL DEF Spec

-----------------------------------------------------------------------------
(* What a call number includes stands together on the shelf.               *)

(* The results of a first number with a third and with a second, and, on   *)
(* the shelf, of the first with the second and of the second with the      *)
(* third: a second number between them is included with the third one.     *)
Between(p, c, s, t) ==
  /\ p \in Results /\ c \in Results /\ s \in Shelf /\ t \in Shelf
  /\ p \in Including /\ s # Descending /\ t # Descending =>
       c \in Including /\ (p = Same => c = Same /\ s = Same /\ t = Same)

LEMMA BetweenTypes ==
  ASSUME NEW p, NEW c, NEW s, NEW t, Between(p, c, s, t)
  PROVE  p \in Results /\ c \in Results /\ s \in Shelf /\ t \in Shelf
BY DEF Between

LEMMA SameBetween == Between(Same, Same, Same, Same)
BY DEF Between, Results, Shelf, Including

(* Once the first is an ancestor it is missing the part, and goes on to    *)
(* include the second.  So only what a part makes of equal beginnings has  *)
(* to be looked at.                                                        *)
LEMMA BetweenStep ==
  ASSUME NEW p, NEW c, NEW s, NEW t, Between(p, c, s, t),
         NEW q, NEW d, NEW v, NEW w, d \in Results, Later(s, v), Later(t, w),
         NEW l \in BOOLEAN, NEW m \in BOOLEAN, Lacks(p, q, l, m),
         c \in Including /\ l => d \in Including,
         p = Same /\ c = Same /\ s = Same /\ t = Same => Between(q, d, v, w)
  PROVE  Between(q, d, v, w)
<1>1. q \in Results /\ v \in Shelf /\ w \in Shelf
  BY BetweenTypes, KeepsIncluding DEF Lacks, Later
<1>2. ASSUME q \in Including, v # Descending, w # Descending
      PROVE  d \in Including /\ (q = Same => d = Same /\ v = Same /\ w = Same)
  <2>1. p \in Including /\ (q = Same => p = Same)
    BY <1>2, BetweenTypes, KeepsIncluding DEF Lacks
  <2>2. s # Descending /\ t # Descending
    BY <1>2 DEF Later
  <2>3. c \in Including /\ (p = Same => c = Same /\ s = Same /\ t = Same)
    BY <2>1, <2>2 DEF Between
  <2>4. CASE p = Same
    BY <1>2, <2>3, <2>4 DEF Between
  <2>5. CASE p # Same
    <3>1. p = Specifying
      BY <2>1, <2>5 DEF Including
    <3>2. l
      BY <1>2, <3>1 DEF Lacks
    <3> QED BY <2>1, <2>3, <2>5, <3>2
  <2> QED BY <2>4, <2>5
<1> QED BY <1>1, <1>2 DEF Between

(* A text that is not before the first one's and not after the third's.    *)
LEMMA BetweenTexts ==
  ASSUME NEW l \in Text, NEW n \in Text, NEW m \in Text,
         Linear(StringBase(l, n)) # Descending, Linear(StringBase(n, m)) # Descending
  PROVE  /\ Begins(l, m) => Begins(l, n)
         /\ Alike(l, m) => Alike(l, n) /\ Alike(n, m)
<1>1. (Alike(l, n) \/ Sooner(l, n)) /\ ~Sooner(m, n)
  <2>1. Alike(l, n) \/ Sooner(l, n)
    BY TextOrder
  <2>2. Alike(n, m) \/ Sooner(n, m)
    BY TextOrder
  <2>3. Alike(n, m) => ~Sooner(m, n)
    <3>1. Alike(n, m) => Alike(m, n)
      BY DEF Alike
    <3> QED BY <3>1, SoonerIsOneWay
  <2>4. Sooner(n, m) => ~Sooner(m, n)
    BY SoonerIsOneWay
  <2> QED BY <2>1, <2>2, <2>3, <2>4
<1>2. ASSUME Begins(l, m), Sooner(l, n) PROVE Begins(l, n)
  <2>1. PICK i \in Nat \ {0} : At(l, i) < At(n, i) /\ \A j \in 1..(i - 1) : At(l, j) = At(n, j)
    BY <1>2 DEF Sooner
  <2>2. CASE At(l, i) = 0
    <3>1. ASSUME NEW j \in Nat \ {0} PROVE At(l, j) = 0 \/ At(l, j) = At(n, j)
      <4>1. CASE j < i
        <5>1. j \in 1..(i - 1)
          BY <4>1
        <5> QED BY <2>1, <5>1
      <4>2. CASE ~(j < i)
        <5>1. i > Len(l) /\ Len(l) \in Nat
          BY <2>2, EndsAre
        <5>2. j > Len(l)
          BY <4>2, <5>1
        <5> QED BY <5>2, EndsAre
      <4> QED BY <4>1, <4>2
    <3> QED BY <3>1 DEF Begins
  <2>3. CASE At(l, i) # 0
    <3>1. At(m, i) = At(l, i)
      BY <1>2, <2>3 DEF Begins
    <3>2. ASSUME NEW j \in 1..(i - 1) PROVE At(m, j) = At(n, j)
      <4>1. j \in Nat \ {0} /\ j < i
        OBVIOUS
      <4>2. At(l, j) # 0
        <5>1. Len(l) \in Nat /\ ~(i > Len(l))
          BY <2>3, EndsAre
        <5>2. ~(j > Len(l))
          BY <4>1, <5>1
        <5> QED BY <4>1, <5>2, EndsAre
      <4>3. At(m, j) = At(l, j)
        BY <1>2, <4>1, <4>2 DEF Begins
      <4> QED BY <2>1, <4>3
    <3>3. Sooner(m, n)
      BY <2>1, <3>1, <3>2 DEF Sooner
    <3> QED BY <1>1, <3>3
  <2> QED BY <2>2, <2>3
<1>3. Alike(l, n) => Begins(l, n)
  BY DEF Alike, Begins
<1>4. ASSUME Alike(l, m) PROVE Alike(l, n) /\ Alike(n, m)
  <2>1. Sooner(l, n) => Sooner(m, n)
    BY <1>4, AlikeReplaces
  <2>2. Alike(l, n)
    BY <1>1, <2>1
  <2> QED BY <1>4, <2>2 DEF Alike
<1> QED BY <1>1, <1>2, <1>3, <1>4

(* How a part that is missing on the left goes on.                         *)
LEMMA StringIncludes ==
  ASSUME NEW c \in Including, NEW l \in Text, NEW r \in Text, Empty(l)
  PROVE  /\ StringCompare(c, l, r, TRUE) \in Including
         /\ DecimalCompare(c, l, r, TRUE) \in Including
<1>1. c \in Results /\ c \in {Same, Specifying}
  BY DEF Including, Results
<1>2. c = Specifying => /\ StringCompare(c, l, r, TRUE) \in Including
                        /\ DecimalCompare(c, l, r, TRUE) \in Including
  BY <1>1, StringLacks, DecimalLacks DEF Including
<1>3. /\ StringCompare(Same, l, r, TRUE) = StringBase(l, r)
      /\ DecimalCompare(Same, l, r, TRUE) = DecimalBase(l, r)
  BY DEF StringCompare, DecimalCompare, Within, Decided
<1>4. StringBase(l, r) \in Including /\ DecimalBase(l, r) \in Including
  BY BaseIs, DecimalBaseIs, EmptyBegins
<1>5. CASE c = Same
  BY <1>3, <1>4, <1>5
<1> QED BY <1>1, <1>2, <1>5

LEMMA StringsBetween ==
  ASSUME NEW p, NEW c, NEW s, NEW t, Between(p, c, s, t),
         NEW l \in Text, NEW n \in Text, NEW m \in Text
  PROVE  Between(StringCompare(p, l, m, TRUE), StringCompare(c, l, n, TRUE),
                 StringCompare(s, l, n, FALSE), StringCompare(t, n, m, FALSE))
<1> DEFINE q == StringCompare(p, l, m, TRUE)
           d == StringCompare(c, l, n, TRUE)
           v == StringCompare(s, l, n, FALSE)
           w == StringCompare(t, n, m, FALSE)
           le == Empty(l)
           me == Empty(m)
<1>1. ASSUME p = Same, c = Same, s = Same, t = Same
      PROVE  Between(q, d, v, w)
  <2> DEFINE pb == StringBase(l, m)
             cb == StringBase(l, n)
             tb == StringBase(n, m)
  <2>1. q = pb /\ d = cb /\ v = Linear(cb) /\ w = Linear(tb)
    BY <1>1 DEF StringCompare, Within, Decided
  <2>2. pb \in Results /\ cb \in Results /\ tb \in Results
    BY StringBaseType
  <2>3. /\ pb \in Including <=> Begins(l, m)
        /\ pb = Same <=> Alike(l, m)
        /\ cb \in Including <=> Begins(l, n)
        /\ cb = Same <=> Alike(l, n)
        /\ tb = Same <=> Alike(n, m)
    BY BaseIs
  <2>4. Linear(cb) # Descending /\ Linear(tb) # Descending =>
          /\ Begins(l, m) => Begins(l, n)
          /\ Alike(l, m) => Alike(l, n) /\ Alike(n, m)
    BY BetweenTexts
  <2> HIDE DEF pb, cb, tb, q, d, v, w
  <2>5. Linear(cb) \in Shelf /\ Linear(tb) \in Shelf /\ Linear(Same) = Same
    BY <2>2 DEF Linear, Shelf, Results
  <2> QED BY <2>1, <2>2, <2>3, <2>4, <2>5 DEF Between
<1>2. p \in Results /\ c \in Results /\ s \in Shelf /\ t \in Shelf
  BY BetweenTypes
<1>3. Lacks(p, q, le, me)
  BY <1>2, StringLacks
<1>4. c \in Including /\ le => d \in Including
  BY StringIncludes
<1>5. d \in Results /\ Later(s, v) /\ Later(t, w)
  BY <1>2, StringKeeps, StringLater DEF Keeps
<1>6. le \in BOOLEAN /\ me \in BOOLEAN
  BY DEF Empty
<1> HIDE DEF q, d, v, w, le, me
<1>7. Between(q, d, v, w)
  BY <1>1, <1>3, <1>4, <1>5, <1>6, BetweenStep
<1> QED BY <1>7 DEF q, d, v, w

(* Decimals, and a cutter's number, are put in order as texts are.         *)
LEMMA DecimalsOnTheShelf ==
  ASSUME NEW l \in Text, NEW r \in Text
  PROVE  /\ DecimalCompare(Same, l, r, FALSE) = Linear(StringBase(l, r))
         /\ Alike(l, r) <=> Linear(StringBase(l, r)) = Same
<1>1. Linear(DecimalBase(l, r)) = Linear(StringBase(l, r))
  BY LinearIsIdempotent, StringBaseType DEF DecimalBase
<1>2. DecimalCompare(Same, l, r, FALSE) = Linear(DecimalBase(l, r))
  BY DEF DecimalCompare, Within, Decided
<1>3. Alike(l, r) <=> StringBase(l, r) = Same
  BY BaseIs
<1>4. StringBase(l, r) = Same <=> Linear(StringBase(l, r)) = Same
  BY StringBaseType DEF Linear, Results
<1> QED BY <1>1, <1>2, <1>3, <1>4

LEMMA DecimalsBetween ==
  ASSUME NEW p, NEW c, NEW s, NEW t, Between(p, c, s, t),
         NEW l \in Text, NEW n \in Text, NEW m \in Text
  PROVE  Between(DecimalCompare(p, l, m, TRUE), DecimalCompare(c, l, n, TRUE),
                 DecimalCompare(s, l, n, FALSE), DecimalCompare(t, n, m, FALSE))
<1> DEFINE q == DecimalCompare(p, l, m, TRUE)
           d == DecimalCompare(c, l, n, TRUE)
           v == DecimalCompare(s, l, n, FALSE)
           w == DecimalCompare(t, n, m, FALSE)
           le == Empty(l)
           me == Empty(m)
<1>1. ASSUME p = Same, c = Same, s = Same, t = Same
      PROVE  Between(q, d, v, w)
  <2> DEFINE x == Linear(StringBase(l, n))
             y == Linear(StringBase(n, m))
  <2>1. q = DecimalBase(l, m) /\ d = DecimalBase(l, n)
    BY <1>1 DEF DecimalCompare, Within, Decided
  <2>2. v = x /\ w = y /\ (Alike(l, n) <=> x = Same) /\ (Alike(n, m) <=> y = Same)
    BY <1>1, DecimalsOnTheShelf
  <2>3. /\ q \in Results /\ d \in Results
        /\ q \in Including <=> le \/ Alike(l, m)
        /\ q = Same <=> Alike(l, m)
        /\ d \in Including <=> le \/ Alike(l, n)
        /\ d = Same <=> Alike(l, n)
    BY <2>1, DecimalBaseIs
  <2>4. x # Descending /\ y # Descending /\ Alike(l, m) => Alike(l, n) /\ Alike(n, m)
    BY BetweenTexts
  <2>5. x \in Shelf /\ y \in Shelf
    BY StringBaseType DEF Linear, Shelf, Results
  <2> HIDE DEF q, d, v, w, x, y, le
  <2> QED BY <2>2, <2>3, <2>4, <2>5 DEF Between
<1>2. p \in Results /\ c \in Results /\ s \in Shelf /\ t \in Shelf
  BY BetweenTypes
<1>3. Lacks(p, q, le, me)
  BY <1>2, DecimalLacks
<1>4. c \in Including /\ le => d \in Including
  BY StringIncludes
<1>5. d \in Results /\ Later(s, v) /\ Later(t, w)
  BY <1>2, DecimalKeeps, DecimalLater DEF Keeps
<1>6. le \in BOOLEAN /\ me \in BOOLEAN
  BY DEF Empty
<1> HIDE DEF q, d, v, w, le, me
<1>7. Between(q, d, v, w)
  BY <1>1, <1>3, <1>4, <1>5, <1>6, BetweenStep
<1> QED BY <1>7 DEF q, d, v, w

LEMMA CutterNumbersBetween ==
  ASSUME NEW p, NEW c, NEW s, NEW t, Between(p, c, s, t),
         NEW l \in Text, NEW n \in Text, NEW m \in Text
  PROVE  Between(DecimalCompare(p, l, m, FALSE), DecimalCompare(c, l, n, FALSE),
                 DecimalCompare(s, l, n, FALSE), DecimalCompare(t, n, m, FALSE))
<1> DEFINE q == DecimalCompare(p, l, m, FALSE)
           d == DecimalCompare(c, l, n, FALSE)
           v == DecimalCompare(s, l, n, FALSE)
           w == DecimalCompare(t, n, m, FALSE)
           x == Linear(StringBase(l, n))
           y == Linear(StringBase(n, m))
<1>1. p \in Results /\ c \in Results /\ s \in Shelf /\ t \in Shelf
  BY BetweenTypes
<1>2. /\ q \in Results /\ d \in Results
      /\ q \in Including => q = Same /\ p = Same /\ Alike(l, m)
      /\ d \in Including <=> c = Same /\ Alike(l, n)
      /\ d \in Including => d = Same
  BY <1>1, CutterNumberIs
<1>3. Later(s, v) /\ Later(t, w)
  BY <1>1, DecimalLater
<1>4. (s = Same => v = x) /\ (t = Same => w = y)
  BY DecimalsOnTheShelf
<1>5. (Alike(l, n) <=> x = Same) /\ (Alike(n, m) <=> y = Same)
  BY DecimalsOnTheShelf
<1>6. x # Descending /\ y # Descending /\ Alike(l, m) => Alike(l, n) /\ Alike(n, m)
  BY BetweenTexts
<1> HIDE DEF q, d, v, w, x, y
<1>7. ASSUME q \in Including, v # Descending, w # Descending
      PROVE  d \in Including /\ d = Same /\ v = Same /\ w = Same
  <2>1. s # Descending /\ t # Descending
    BY <1>7, <1>3 DEF Later
  <2>2. p = Same /\ Alike(l, m) /\ c = Same /\ s = Same /\ t = Same
    BY <1>2, <1>7, <2>1 DEF Between, Including
  <2>3. Alike(l, n) /\ x = Same /\ y = Same
    BY <1>4, <1>5, <1>6, <1>7, <2>2
  <2> QED BY <1>2, <1>4, <2>2, <2>3
<1>8. v \in Shelf /\ w \in Shelf
  BY <1>3 DEF Later
<1>9. Between(q, d, v, w)
  BY <1>2, <1>7, <1>8 DEF Between
<1> QED BY <1>9 DEF q, d, v, w

LEMMA LettersBetween ==
  ASSUME NEW x \in Int, NEW y \in Int, NEW z \in Int
  PROVE  Between(LetterCompare(Same, x, z), LetterCompare(Same, x, y),
                 LetterCompare(Same, x, y), LetterCompare(Same, y, z))
<1>1. \A u, v : LetterCompare(Same, u, v) = IF u = v THEN Same ELSE Ordered(u, v)
  BY DEF LetterCompare
<1> QED BY <1>1 DEF Between, Ordered, Results, Shelf, Including

LEMMA CuttersBetween ==
  ASSUME NEW l \in Cuttseg, NEW n \in Cuttseg, NEW m \in Cuttseg
  PROVE  Between(CutterCompare(Same, l, m, TRUE), CutterCompare(Same, l, n, TRUE),
                 CutterCompare(Same, l, n, FALSE), CutterCompare(Same, n, m, FALSE))
<1> DEFINE Letters(i, j) == LetterCompare(Same, Upper(i.letter), Upper(j.letter))
           Numbers(i, j) == DecimalCompare(Letters(i, j), i.number, j.number, FALSE)
<1>1. /\ l.number \in Text /\ n.number \in Text /\ m.number \in Text
      /\ l.mark \in Text /\ n.mark \in Text /\ m.mark \in Text
      /\ l.letter \in Int /\ n.letter \in Int /\ m.letter \in Int
  BY DEF Cuttseg
<1>2. Upper(l.letter) \in Int /\ Upper(n.letter) \in Int /\ Upper(m.letter) \in Int
  BY <1>1, UpperType
<1>3. Between(Letters(l, m), Letters(l, n), Letters(l, n), Letters(n, m))
  BY <1>2, LettersBetween
<1>4. \A i, j, spec : CutterCompare(Same, i, j, spec)
                        = DecimalCompare(Numbers(i, j), i.mark, j.mark, spec)
  BY DEF CutterCompare
<1> HIDE DEF Letters
<1>5. Between(Numbers(l, m), Numbers(l, n), Numbers(l, n), Numbers(n, m))
  BY <1>1, <1>3, CutterNumbersBetween
<1> HIDE DEF Numbers
<1>6. Between(DecimalCompare(Numbers(l, m), l.mark, m.mark, TRUE),
              DecimalCompare(Numbers(l, n), l.mark, n.mark, TRUE),
              DecimalCompare(Numbers(l, n), l.mark, n.mark, FALSE),
              DecimalCompare(Numbers(n, m), n.mark, m.mark, FALSE))
  BY <1>1, <1>5, DecimalsBetween
<1> QED BY <1>4, <1>6

LEMMA IntegersBetween ==
  ASSUME NEW p, NEW c, NEW s, NEW t, Between(p, c, s, t), NEW l \in Nat \cup {Absent},
         NEW n \in Nat \cup {Absent}, NEW m \in Nat \cup {Absent}
  PROVE  Between(IntegerCompare(p, l, m, TRUE), IntegerCompare(c, l, n, TRUE),
                 IntegerCompare(s, l, n, FALSE), IntegerCompare(t, n, m, FALSE))
<1> DEFINE q == IntegerCompare(p, l, m, TRUE)
           d == IntegerCompare(c, l, n, TRUE)
           v == IntegerCompare(s, l, n, FALSE)
           w == IntegerCompare(t, n, m, FALSE)
           le == l = Absent
           me == m = Absent
<1>1. p \in Results /\ c \in Results /\ s \in Shelf /\ t \in Shelf
  BY BetweenTypes
<1>2. q \in Results /\ d \in Results /\ Later(s, v) /\ Later(t, w)
  BY <1>1, IntegerKeeps, IntegerLater DEF Keeps
<1>3. Lacks(p, q, le, me)
  BY <1>1, IntegerLacks
<1>4. \A x, y : IntegerCompare(Same, x, y, TRUE)
                  = IF x = y THEN Same ELSE IF x = Absent THEN Specifying
                    ELSE IF y = Absent THEN Generalizing ELSE Ordered(x, y)
  BY DEF IntegerCompare, Settles, Settled, Within, Decided
<1>5. c \in Including /\ le => d \in Including
  <2>1. c = Same /\ le => d \in Including
    BY <1>4 DEF Including
  <2>2. c = Specifying /\ le => d \in Including
    BY <1>1, IntegerLacks DEF Including
  <2> HIDE DEF d, le
  <2> QED BY <2>1, <2>2 DEF Including
<1>6. ASSUME p = Same, c = Same, s = Same, t = Same
      PROVE  Between(q, d, v, w)
  <2>1. \A x, y : IntegerCompare(Same, x, y, FALSE)
                    = IF x = y THEN Same ELSE IF x = Absent THEN Ascending
                      ELSE IF y = Absent THEN Descending ELSE Ordered(x, y)
    BY DEF IntegerCompare, Settles, Settled, Within, Linear, Decided
  <2>2. /\ q = IF l = m THEN Same ELSE IF l = Absent THEN Specifying
               ELSE IF m = Absent THEN Generalizing ELSE Ordered(l, m)
        /\ d = IF l = n THEN Same ELSE IF l = Absent THEN Specifying
               ELSE IF n = Absent THEN Generalizing ELSE Ordered(l, n)
        /\ v = IF l = n THEN Same ELSE IF l = Absent THEN Ascending
               ELSE IF n = Absent THEN Descending ELSE Ordered(l, n)
        /\ w = IF n = m THEN Same ELSE IF n = Absent THEN Ascending
               ELSE IF m = Absent THEN Descending ELSE Ordered(n, m)
    BY <1>4, <1>6, <2>1
  <2>3. v \in Shelf /\ w \in Shelf
    BY <1>2 DEF Later
  <2> HIDE DEF q, d, v, w
  <2>4. ASSUME q \in Including, v # Descending, w # Descending
        PROVE  d \in Including /\ (q = Same => d = Same /\ v = Same /\ w = Same)
    BY <2>2, <2>4 DEF Including, Ordered
  <2> QED BY <1>2, <2>3, <2>4 DEF Between
<1>7. le \in BOOLEAN /\ me \in BOOLEAN
  OBVIOUS
<1> HIDE DEF q, d, v, w, le, me
<1>8. Between(q, d, v, w)
  BY <1>2, <1>3, <1>5, <1>6, <1>7, BetweenStep
<1> QED BY <1>8 DEF q, d, v, w

(* Dates on the shelf, by their years and by their forms.                  *)
BeforeShelfMark(l, r) ==
  IF l.year = r.year THEN YearForm(l, r) ELSE Ordered(l.year, r.year)

LEMMA ShelfDateByMark ==
  ASSUME NEW l, NEW r
  PROVE  DateCompare(Same, l, r, FALSE)
           = StringCompare(BeforeShelfMark(l, r), l.mark, r.mark, FALSE)
<1>1. YearCompare(Same, l.year, r.year) = IF l.year = r.year THEN Same ELSE Ordered(l.year, r.year)
  BY DEF YearCompare, Decided
<1>2. Ordered(l.year, r.year) \in Decided /\ Same \notin Decided
  BY DEF Ordered, Decided
<1> QED BY <1>1, <1>2 DEF DateCompare, BeforeShelfMark, YearForm

(* Whether a date is not after another one on the shelf, before the marks. *)
NotAfter(l, r) ==
  \/ DateRank(l) < DateRank(r)
  \/ /\ DateRank(l) = DateRank(r)
     /\ l.form = "span" => l.span <= r.span
     /\ l.form = "day" => l.month < r.month \/ (l.month = r.month /\ l.day <= r.day)

LEMMA BeforeShelfMarkIs ==
  ASSUME NEW l \in Date, NEW r \in Date
  PROVE  /\ BeforeShelfMark(l, r) \in Shelf
         /\ BeforeShelfMark(l, r) # Descending =>
              l.year < r.year \/ (l.year = r.year /\ NotAfter(l, r))
         /\ l.year = r.year /\ Coincides(l, r) => BeforeShelfMark(l, r) = Same
<1> DEFINE form == YearForm(l, r)
           next == BeforeShelfMark(l, r)
           x == DateRank(l)
           y == DateRank(r)
<1>1. /\ x \in Int /\ y \in Int /\ l.year \in Int /\ r.year \in Int
      /\ l.form = "span" <=> x = 1
      /\ l.form = "day" <=> x = 3
      /\ r.form = "span" <=> y = 1
      /\ r.form = "day" <=> y = 3
      /\ x = 1 => l.span \in Int
      /\ y = 1 => r.span \in Int
      /\ x = 3 => l.month \in Int /\ l.day \in Int
      /\ y = 3 => r.month \in Int /\ r.day \in Int
  BY DateForms
<1>2. form = IF x # y THEN Ordered(x, y)
             ELSE IF l.form = "span" THEN IF l.span = r.span THEN Same ELSE Ordered(l.span, r.span)
             ELSE IF l.form = "day"
             THEN IF l.month # r.month THEN Ordered(l.month, r.month)
                  ELSE IF l.day = r.day THEN Same ELSE Ordered(l.day, r.day)
             ELSE Same
  BY YearFormIs
<1>3. next = IF l.year = r.year THEN form ELSE Ordered(l.year, r.year)
  BY DEF BeforeShelfMark
<1>4. (NotAfter(l, r) <=>
         \/ x < y
         \/ /\ x = y
            /\ l.form = "span" => l.span <= r.span
            /\ l.form = "day" => l.month < r.month \/ (l.month = r.month /\ l.day <= r.day))
      /\ (Coincides(l, r) <=>
            /\ x = y
            /\ l.form = "span" => l.span = r.span
            /\ l.form = "day" => l.month = r.month /\ l.day = r.day)
  BY DEF NotAfter, Coincides
<1> HIDE DEF form, next, x, y
<1>5. /\ form \in Shelf
      /\ form # Descending => NotAfter(l, r)
      /\ Coincides(l, r) => form = Same
  BY <1>1, <1>2, <1>4 DEF Shelf, Ordered
<1>6. /\ next \in Shelf
      /\ next # Descending => l.year < r.year \/ (l.year = r.year /\ NotAfter(l, r))
      /\ l.year = r.year /\ Coincides(l, r) => next = Same
  BY <1>1, <1>3, <1>5 DEF Shelf, Ordered
<1> QED BY <1>6 DEF next

(* Spans that begin with the same year have the same end.                  *)
OneSpan(l, r) ==
  l.kind = "date" /\ r.kind = "date" /\ l.form = "span" /\ r.form = "span" => l.span = r.span

LEMMA BetweenDates ==
  ASSUME NEW l \in Date, NEW n \in Date, NEW m \in Date, NotAfter(l, n), NotAfter(n, m),
         Covers(l, m), OneSpan(l, n)
  PROVE  /\ Covers(l, n)
         /\ Coincides(l, m) => Coincides(l, n) /\ Coincides(n, m)
<1>1. ASSUME NEW d \in Date
      PROVE  /\ d.kind = "date"
             /\ DateRank(d) \in Int
             /\ d.form = "span" <=> DateRank(d) = 1
             /\ d.form = "day" <=> DateRank(d) = 3
             /\ DateRank(d) = 3 => d.month \in Int /\ d.day \in Int
             /\ DateRank(d) = 3 => d.day >= 0
  <2>1. d.kind = "date" /\ (d.form = "day" => d.day >= 0)
    BY DEF Date, YearDate, SpanDate, DayDate
  <2> QED BY <2>1, DateForms
<1> DEFINE x == DateRank(l)
           y == DateRank(n)
           z == DateRank(m)
<1>2. x \in Int /\ y \in Int /\ z \in Int /\ x <= y /\ y <= z
  BY <1>1 DEF NotAfter
<1>3. Covers(l, n)
  <2>1. CASE x < y
    BY <2>1 DEF Covers
  <2>2. CASE x = y /\ x = 3
    <3>1. z = 3 \/ z > 3
      BY <1>2, <2>2
    <3>2. z = 3
      BY <3>1, DateForms
    <3>3. /\ x = 3 /\ y = 3 /\ z = 3
          /\ l.form = "day" /\ n.form = "day" /\ m.form = "day" /\ l.form # "span"
      BY <1>1, <2>2, <3>2
    <3>4. /\ l.month \in Int /\ n.month \in Int /\ m.month \in Int
          /\ l.day \in Int /\ n.day \in Int /\ m.day \in Int
      BY <1>1, <3>3
    <3>5. /\ l.month < n.month \/ (l.month = n.month /\ l.day <= n.day)
          /\ n.month < m.month \/ (n.month = m.month /\ n.day <= m.day)
          /\ l.month = m.month /\ (l.day = m.day \/ l.day = 0)
      BY <3>3 DEF NotAfter, Covers
    <3>6. l.month = n.month /\ (l.day = n.day \/ l.day = 0)
      BY <3>4, <3>5
    <3> QED BY <3>3, <3>6 DEF Covers
  <2>3. CASE x = y /\ x # 3
    BY <1>1, <2>3 DEF Covers, OneSpan
  <2> QED BY <1>2, <2>1, <2>2, <2>3
<1>4. ASSUME Coincides(l, m) PROVE Coincides(l, n) /\ Coincides(n, m)
  <2>1. x = y /\ y = z
    BY <1>2, <1>4 DEF Coincides
  <2>2. x = 1 => l.span = n.span /\ n.span = m.span
    BY <1>1, <1>4, <2>1 DEF Coincides, OneSpan
  <2>3. ASSUME x = 3
        PROVE  l.month = n.month /\ n.month = m.month /\ l.day = n.day /\ n.day = m.day
    <3>1. /\ l.month \in Int /\ n.month \in Int /\ m.month \in Int
          /\ l.day \in Int /\ n.day \in Int /\ m.day \in Int
          /\ l.month = m.month /\ l.day = m.day
          /\ l.month < n.month \/ (l.month = n.month /\ l.day <= n.day)
          /\ n.month < m.month \/ (n.month = m.month /\ n.day <= m.day)
      <4>1. /\ x = 3 /\ y = 3 /\ z = 3
            /\ l.form = "day" /\ n.form = "day" /\ m.form = "day"
        BY <1>1, <2>1, <2>3
      <4> QED BY <1>1, <1>4, <4>1 DEF Coincides, NotAfter
    <3> QED BY <3>1
  <2> QED BY <1>1, <2>1, <2>2, <2>3 DEF Coincides
<1> QED BY <1>3, <1>4

LEMMA DatesBetween ==
  ASSUME NEW l \in Date, NEW n \in Date, NEW m \in Date, OneSpan(l, n)
  PROVE  Between(DateCompare(Same, l, m, TRUE), DateCompare(Same, l, n, TRUE),
                 DateCompare(Same, l, n, FALSE), DateCompare(Same, n, m, FALSE))
<1> DEFINE q == BeforeMark(l, m)
           d == BeforeMark(l, n)
           v == BeforeShelfMark(l, n)
           w == BeforeShelfMark(n, m)
<1>1. /\ q \in Results /\ (q \in Including <=> l.year = m.year /\ Covers(l, m))
      /\ q = Same => l.year = m.year /\ Coincides(l, m)
      /\ d \in Results /\ (d \in Including <=> l.year = n.year /\ Covers(l, n))
      /\ d = Same <=> l.year = n.year /\ Coincides(l, n)
  BY BeforeMarkIs
<1>2. /\ v \in Shelf /\ w \in Shelf
      /\ v # Descending => l.year < n.year \/ (l.year = n.year /\ NotAfter(l, n))
      /\ w # Descending => n.year < m.year \/ (n.year = m.year /\ NotAfter(n, m))
      /\ l.year = n.year /\ Coincides(l, n) => v = Same
      /\ n.year = m.year /\ Coincides(n, m) => w = Same
  BY BeforeShelfMarkIs
<1>3. /\ l.year \in Int /\ n.year \in Int /\ m.year \in Int
      /\ l.mark \in Text /\ n.mark \in Text /\ m.mark \in Text
  BY DateForms
<1>4. NotAfter(l, n) /\ NotAfter(n, m) /\ Covers(l, m) =>
        /\ Covers(l, n)
        /\ Coincides(l, m) => Coincides(l, n) /\ Coincides(n, m)
  BY BetweenDates
<1> HIDE DEF q, d, v, w
<1>5. ASSUME q \in Including, v # Descending, w # Descending
      PROVE  d \in Including /\ (q = Same => d = Same /\ v = Same /\ w = Same)
  <2>1. l.year = n.year /\ n.year = m.year /\ NotAfter(l, n) /\ NotAfter(n, m) /\ Covers(l, m)
    BY <1>1, <1>2, <1>3, <1>5
  <2> QED BY <1>1, <1>2, <1>4, <2>1
<1>6. Between(q, d, v, w)
  BY <1>1, <1>2, <1>5 DEF Between
<1>7. Between(StringCompare(q, l.mark, m.mark, TRUE), StringCompare(d, l.mark, n.mark, TRUE),
              StringCompare(v, l.mark, n.mark, FALSE), StringCompare(w, n.mark, m.mark, FALSE))
  BY <1>3, <1>6, StringsBetween
<1> QED BY <1>7, DateByMark, ShelfDateByMark DEF q, d, v, w

LEMMA OrdinalsBetween ==
  ASSUME NEW p, NEW c, NEW s, NEW t, Between(p, c, s, t),
         NEW l \in OrdinalNumber, NEW n \in OrdinalNumber, NEW m \in OrdinalNumber
  PROVE  Between(OrdinalCompare(p, l, m, TRUE), OrdinalCompare(c, l, n, TRUE),
                 OrdinalCompare(s, l, n, FALSE), OrdinalCompare(t, n, m, FALSE))
<1>1. /\ l.number \in Text /\ n.number \in Text /\ m.number \in Text
      /\ l.suffix \in Text /\ n.suffix \in Text /\ m.suffix \in Text
  BY DEF OrdinalNumber
<1>2. Between(StringCompare(p, l.number, m.number, TRUE),
              StringCompare(c, l.number, n.number, TRUE),
              StringCompare(s, l.number, n.number, FALSE),
              StringCompare(t, n.number, m.number, FALSE))
  BY <1>1, StringsBetween
<1> QED BY <1>1, <1>2, StringsBetween DEF OrdinalCompare

LEMMA EtcLater ==
  ASSUME NEW s \in Shelf, NEW l \in Numbered, NEW r \in Numbered
  PROVE  Later(s, EtcCompare(s, l, r, Descending))
<1>1. l.hasetc \in BOOLEAN /\ r.hasetc \in BOOLEAN
  BY DEF Numbered
<1>2. -Descending = Ascending
  BY Opposites
<1>3. CASE s = Same
  <2>1. EtcCompare(s, l, r, Descending) \in Shelf
    <3>1. Same \notin Decided
      BY DEF Decided
    <3>2. Same \in Shelf /\ Descending \in Shelf /\ Ascending \in Shelf
      BY DEF Shelf
    <3> HIDE DEF Descending, Ascending, Same
    <3> QED BY <1>2, <1>3, <3>1, <3>2, Zenon DEF EtcCompare
  <2> QED BY <1>3, <2>1 DEF Later
<1>4. CASE s # Same
  BY <1>4 DEF Later, EtcCompare, Shelf, Decided
<1> QED BY <1>3, <1>4

(* "etc." on both sides, or on neither.                                    *)
LEMMA EtcsBetween ==
  ASSUME NEW p, NEW c, NEW s, NEW t, Between(p, c, s, t), NEW same \in {Generalizing, Descending},
         NEW l \in Numbered, NEW n \in Numbered, NEW m \in Numbered, l.hasetc = n.hasetc
  PROVE  Between(EtcCompare(p, l, m, same), EtcCompare(c, l, n, same),
                 EtcCompare(s, l, n, Descending), EtcCompare(t, n, m, Descending))
<1> DEFINE q == EtcCompare(p, l, m, same)
           w == EtcCompare(t, n, m, Descending)
<1>1. p \in Results /\ c \in Results /\ s \in Shelf /\ t \in Shelf
  BY BetweenTypes
<1>2. EtcCompare(c, l, n, same) = c /\ EtcCompare(s, l, n, Descending) = s
  BY DEF EtcCompare
<1>3. /\ q \in Results
      /\ q \in Including => p \in Including
      /\ q = Same => p = Same /\ l.hasetc = m.hasetc
  BY <1>1, EtcIs
<1>4. Later(t, w)
  BY <1>1, EtcLater
<1>5. n.hasetc = m.hasetc => w = t
  BY DEF EtcCompare
<1> HIDE DEF q, w
<1>6. Between(q, c, s, w)
  <2>1. w \in Shelf /\ (w # Descending => t # Descending)
    BY <1>4 DEF Later
  <2>2. q = Same => w = t
    BY <1>3, <1>5
  <2> QED BY <1>3, <2>1, <2>2 DEF Between
<1> QED BY <1>2, <1>6 DEF q, w

LEMMA NumberedsBetween ==
  ASSUME NEW p, NEW c, NEW s, NEW t, Between(p, c, s, t),
         NEW l \in Numbered, NEW n \in Numbered, NEW m \in Numbered, l.hasetc = n.hasetc
  PROVE  /\ Between(VolumeCompare(p, l, m, TRUE), VolumeCompare(c, l, n, TRUE),
                    VolumeCompare(s, l, n, FALSE), VolumeCompare(t, n, m, FALSE))
         /\ Between(SupplementCompare(p, l, m, TRUE), SupplementCompare(c, l, n, TRUE),
                    SupplementCompare(s, l, n, FALSE), SupplementCompare(t, n, m, FALSE))
<1>1. /\ l.prefix \in Text /\ n.prefix \in Text /\ m.prefix \in Text
      /\ l.number \in Text /\ n.number \in Text /\ m.number \in Text
  BY DEF Numbered
<1>2. Between(StringCompare(p, l.prefix, m.prefix, TRUE),
              StringCompare(c, l.prefix, n.prefix, TRUE),
              StringCompare(s, l.prefix, n.prefix, FALSE),
              StringCompare(t, n.prefix, m.prefix, FALSE))
  BY <1>1, StringsBetween
<1>3. Between(NumberedCompare(p, l, m, TRUE), NumberedCompare(c, l, n, TRUE),
              NumberedCompare(s, l, n, FALSE), NumberedCompare(t, n, m, FALSE))
  BY <1>1, <1>2, StringsBetween DEF NumberedCompare
<1>4. Within(TRUE, Generalizing) = Generalizing /\ Within(FALSE, Generalizing) = Descending
  BY DEF Within, Linear
<1>5. Between(VolumeCompare(p, l, m, TRUE), VolumeCompare(c, l, n, TRUE),
              VolumeCompare(s, l, n, FALSE), VolumeCompare(t, n, m, FALSE))
  BY <1>3, <1>4, EtcsBetween DEF VolumeCompare
<1>6. Between(SupplementCompare(p, l, m, TRUE), SupplementCompare(c, l, n, TRUE),
              SupplementCompare(s, l, n, FALSE), SupplementCompare(t, n, m, FALSE))
  BY <1>3, EtcsBetween DEF SupplementCompare
<1> QED BY <1>5, <1>6

(* A part that is not there, of the first number or of the others.         *)
LEMMA MissingBetween ==
  ASSUME NEW le \in BOOLEAN, NEW ne \in BOOLEAN, NEW me \in BOOLEAN, le \/ ne \/ me,
         NEW p \in Results, NEW c \in Results, NEW s \in Shelf, NEW t \in Shelf,
         le \/ me => p = IF le /\ me THEN Same ELSE IF le THEN Specifying ELSE Generalizing,
         le \/ ne => c = IF le /\ ne THEN Same ELSE IF le THEN Specifying ELSE Generalizing,
         le \/ ne => s = IF le /\ ne THEN Same ELSE IF le THEN Ascending ELSE Descending,
         ne \/ me => t = IF ne /\ me THEN Same ELSE IF ne THEN Ascending ELSE Descending
  PROVE  Between(p, c, s, t)
BY DEF Between, Including

LEMMA DescendingBetween ==
  ASSUME NEW p \in Results, NEW c \in Results, NEW s \in Shelf, NEW t \in Shelf,
         p \notin Including \/ s = Descending \/ t = Descending
  PROVE  Between(p, c, s, t)
BY DEF Between

(* compareWithCallNumber: and compare: of a date or ordinal, when nothing  *)
(* is known yet.                                                           *)
LEMMA DateordFromSame ==
  ASSUME NEW l \in Dateord, NEW r \in Dateord
  PROVE  LET a == DateordCompare(Same, l, r, TRUE)
             b == DateordCompare(Same, l, r, FALSE)
             le == l.kind = "none"
             re == r.kind = "none"
         IN  /\ a \in Results /\ b \in Shelf
             /\ le \/ re =>
                  /\ a = IF le /\ re THEN Same ELSE IF le THEN Specifying ELSE Generalizing
                  /\ b = IF le /\ re THEN Same ELSE IF le THEN Ascending ELSE Descending
             /\ l.kind = "date" /\ r.kind = "date" =>
                  a = DateCompare(Same, l, r, TRUE) /\ b = DateCompare(Same, l, r, FALSE)
             /\ l.kind = "ordinal" /\ r.kind = "ordinal" =>
                  a = OrdinalCompare(Same, l, r, TRUE) /\ b = OrdinalCompare(Same, l, r, FALSE)
             /\ l.kind = "date" /\ r.kind = "ordinal" => a = Descending /\ b = Descending
             /\ l.kind = "ordinal" /\ r.kind = "date" => a = Ascending /\ b = Ascending
<1> DEFINE a == DateordCompare(Same, l, r, TRUE)
           b == DateordCompare(Same, l, r, FALSE)
           le == l.kind = "none"
           re == r.kind = "none"
           x == Settled(Same, le, re, TRUE)
           y == Settled(Same, le, re, FALSE)
<1>1. Same \in Results /\ Same \in Shelf
  BY DEF Results, Shelf
<1>2. a \in Results /\ b \in Shelf
  BY <1>1, DateordKeeps, DateordLater DEF Keeps, Later
<1>3. /\ Settles(Same, le, re) <=> le \/ re
      /\ le \/ re => y = IF le /\ re THEN Same ELSE IF le THEN Ascending ELSE Descending
  BY MissingIs
<1>4. le \/ re => x = IF le /\ re THEN Same ELSE IF le THEN Specifying ELSE Generalizing
  BY DEF Settled, Within, Decided
<1>5. a = IF Settles(Same, le, re) THEN x
          ELSE IF l.kind # r.kind THEN IF l.kind = "ordinal" THEN Ascending ELSE Descending
          ELSE IF l.kind = "date" THEN DateCompare(Same, l, r, TRUE)
          ELSE OrdinalCompare(Same, l, r, TRUE)
  BY DEF DateordCompare
<1>6. b = IF Settles(Same, le, re) THEN y
          ELSE IF l.kind # r.kind THEN IF l.kind = "ordinal" THEN Ascending ELSE Descending
          ELSE IF l.kind = "date" THEN DateCompare(Same, l, r, FALSE)
          ELSE OrdinalCompare(Same, l, r, FALSE)
  BY DEF DateordCompare
<1> HIDE DEF a, b, x, y
<1>7. CASE le \/ re
  BY <1>2, <1>3, <1>4, <1>5, <1>6, <1>7 DEF a, b
<1>8. CASE ~(le \/ re)
  BY <1>2, <1>3, <1>5, <1>6, <1>8 DEF a, b
<1> QED BY <1>7, <1>8

LEMMA DateordsFromSame ==
  ASSUME NEW l \in Dateord, NEW n \in Dateord, NEW m \in Dateord, OneSpan(l, n)
  PROVE  Between(DateordCompare(Same, l, m, TRUE), DateordCompare(Same, l, n, TRUE),
                 DateordCompare(Same, l, n, FALSE), DateordCompare(Same, n, m, FALSE))
<1> DEFINE q == DateordCompare(Same, l, m, TRUE)
           d == DateordCompare(Same, l, n, TRUE)
           v == DateordCompare(Same, l, n, FALSE)
           w == DateordCompare(Same, n, m, FALSE)
<1>1. q \in Results /\ d \in Results /\ v \in Shelf /\ w \in Shelf
  BY DateordFromSame
<1>2. CASE l.kind = "none" \/ n.kind = "none" \/ m.kind = "none"
  <2> DEFINE le == l.kind = "none"
             ne == n.kind = "none"
             me == m.kind = "none"
  <2>1. /\ le \/ me => q = IF le /\ me THEN Same ELSE IF le THEN Specifying ELSE Generalizing
        /\ le \/ ne => d = IF le /\ ne THEN Same ELSE IF le THEN Specifying ELSE Generalizing
        /\ le \/ ne => v = IF le /\ ne THEN Same ELSE IF le THEN Ascending ELSE Descending
        /\ ne \/ me => w = IF ne /\ me THEN Same ELSE IF ne THEN Ascending ELSE Descending
    BY DateordFromSame
  <2>2. le \in BOOLEAN /\ ne \in BOOLEAN /\ me \in BOOLEAN /\ (le \/ ne \/ me)
    BY <1>2
  <2> HIDE DEF le, ne, me, q, d, v, w
  <2>3. Between(q, d, v, w)
    BY <1>1, <2>1, <2>2, MissingBetween
  <2> QED BY <2>3 DEF q, d, v, w
<1>3. CASE l.kind = "date" /\ n.kind = "date" /\ m.kind = "date"
  <2>1. l \in Date /\ n \in Date /\ m \in Date
    BY <1>3, DateordKinds
  <2>2. /\ q = DateCompare(Same, l, m, TRUE)
        /\ d = DateCompare(Same, l, n, TRUE)
        /\ v = DateCompare(Same, l, n, FALSE)
        /\ w = DateCompare(Same, n, m, FALSE)
    BY <1>3, DateordFromSame
  <2> HIDE DEF q, d, v, w
  <2>3. Between(q, d, v, w)
    BY <2>1, <2>2, DatesBetween
  <2> QED BY <2>3 DEF q, d, v, w
<1>4. CASE l.kind = "ordinal" /\ n.kind = "ordinal" /\ m.kind = "ordinal"
  <2>1. l \in OrdinalNumber /\ n \in OrdinalNumber /\ m \in OrdinalNumber
    BY <1>4, DateordKinds
  <2>2. /\ q = OrdinalCompare(Same, l, m, TRUE)
        /\ d = OrdinalCompare(Same, l, n, TRUE)
        /\ v = OrdinalCompare(Same, l, n, FALSE)
        /\ w = OrdinalCompare(Same, n, m, FALSE)
    BY <1>4, DateordFromSame
  <2> HIDE DEF q, d, v, w
  <2>3. Between(q, d, v, w)
    BY <2>1, <2>2, SameBetween, OrdinalsBetween
  <2> QED BY <2>3 DEF q, d, v, w
<1>5. CASE /\ l.kind # "none" /\ n.kind # "none" /\ m.kind # "none"
           /\ ~(l.kind = n.kind /\ n.kind = m.kind)
  <2>1. /\ l.kind \in {"date", "ordinal"}
        /\ n.kind \in {"date", "ordinal"}
        /\ m.kind \in {"date", "ordinal"}
    BY <1>5, DateordKinds
  <2>2. q \in {Ascending, Descending} \/ v = Descending \/ w = Descending
    BY <1>5, <2>1, DateordFromSame
  <2> HIDE DEF q, d, v, w
  <2>3. q \notin Including \/ v = Descending \/ w = Descending
    BY <2>2 DEF Including
  <2>4. Between(q, d, v, w)
    BY <1>1, <2>3, DescendingBetween
  <2> QED BY <2>4 DEF q, d, v, w
<1> QED BY <1>2, <1>3, <1>4, <1>5, DateordKinds

LEMMA DateordsBetween ==
  ASSUME NEW p, NEW c, NEW s, NEW t, Between(p, c, s, t),
         NEW l \in Dateord, NEW n \in Dateord, NEW m \in Dateord,
         OneSpan(l, n), InTime(p, l, m)
  PROVE  Between(DateordCompare(p, l, m, TRUE), DateordCompare(c, l, n, TRUE),
                 DateordCompare(s, l, n, FALSE), DateordCompare(t, n, m, FALSE))
<1> DEFINE q == DateordCompare(p, l, m, TRUE)
           d == DateordCompare(c, l, n, TRUE)
           v == DateordCompare(s, l, n, FALSE)
           w == DateordCompare(t, n, m, FALSE)
           le == l.kind = "none"
           me == m.kind = "none"
<1>1. p \in Results /\ c \in Results /\ s \in Shelf /\ t \in Shelf
  BY BetweenTypes
<1>2. d \in Results /\ Later(s, v) /\ Later(t, w)
  BY <1>1, DateordKeeps, DateordLater DEF Keeps
<1>3. Lacks(p, q, le, me)
  BY <1>1, DateordLacks
<1>4. c \in Including /\ le => d \in Including
  <2>1. c = Same /\ le => d \in {Same, Specifying}
    BY DateordFromSame
  <2>2. c = Specifying /\ le => d = Specifying
    BY <1>1, DateordLacks
  <2> HIDE DEF d, le
  <2> QED BY <2>1, <2>2 DEF Including
<1>5. p = Same /\ c = Same /\ s = Same /\ t = Same => Between(q, d, v, w)
  BY DateordsFromSame
<1>6. le \in BOOLEAN /\ me \in BOOLEAN
  OBVIOUS
<1> HIDE DEF q, d, v, w, le, me
<1>7. Between(q, d, v, w)
  BY <1>2, <1>3, <1>4, <1>5, <1>6, BetweenStep
<1> QED BY <1>7 DEF q, d, v, w

(* The same of a cutter segment.                                           *)
LEMMA CuttsegFromSame ==
  ASSUME NEW l \in Cuttseg, NEW r \in Cuttseg
  PROVE  LET a == CuttsegCompare(Same, l, r, TRUE)
             b == CuttsegCompare(Same, l, r, FALSE)
             le == l.letter = 0
             re == r.letter = 0
         IN  /\ a \in Results /\ b \in Shelf
             /\ le \/ re =>
                  /\ a = IF le /\ re THEN Same ELSE IF le THEN Specifying ELSE Generalizing
                  /\ b = IF le /\ re THEN Same ELSE IF le THEN Ascending ELSE Descending
             /\ ~(le \/ re) =>
                  /\ a = DateordCompare(CutterCompare(Same, l, r, TRUE), l.dateord, r.dateord, TRUE)
                  /\ b = DateordCompare(CutterCompare(Same, l, r, FALSE), l.dateord, r.dateord, FALSE)
<1> DEFINE a == CuttsegCompare(Same, l, r, TRUE)
           b == CuttsegCompare(Same, l, r, FALSE)
           le == l.letter = 0
           re == r.letter = 0
           x == Settled(Same, le, re, TRUE)
           y == Settled(Same, le, re, FALSE)
<1>1. Same \in Results /\ Same \in Shelf
  BY DEF Results, Shelf
<1>2. a \in Results /\ b \in Shelf
  BY <1>1, CuttsegKeeps, CuttsegLater DEF Keeps, Later
<1>3. /\ Settles(Same, le, re) <=> le \/ re
      /\ le \/ re => y = IF le /\ re THEN Same ELSE IF le THEN Ascending ELSE Descending
  BY MissingIs
<1>4. le \/ re => x = IF le /\ re THEN Same ELSE IF le THEN Specifying ELSE Generalizing
  BY DEF Settled, Within, Decided
<1>5. a = IF Settles(Same, le, re) THEN x
          ELSE DateordCompare(CutterCompare(Same, l, r, TRUE), l.dateord, r.dateord, TRUE)
  BY DEF CuttsegCompare
<1>6. b = IF Settles(Same, le, re) THEN y
          ELSE DateordCompare(CutterCompare(Same, l, r, FALSE), l.dateord, r.dateord, FALSE)
  BY DEF CuttsegCompare
<1> HIDE DEF a, b, x, y
<1>7. CASE le \/ re
  BY <1>2, <1>3, <1>4, <1>5, <1>6, <1>7 DEF a, b
<1>8. CASE ~(le \/ re)
  BY <1>2, <1>3, <1>5, <1>6, <1>8 DEF a, b
<1> QED BY <1>7, <1>8

LEMMA CuttsegsBetween ==
  ASSUME NEW p, NEW c, NEW s, NEW t, Between(p, c, s, t),
         NEW l \in Cuttseg, NEW n \in Cuttseg, NEW m \in Cuttseg,
         OneSpan(l.dateord, n.dateord), CuttersInTime(p, l, m)
  PROVE  Between(CuttsegCompare(p, l, m, TRUE), CuttsegCompare(c, l, n, TRUE),
                 CuttsegCompare(s, l, n, FALSE), CuttsegCompare(t, n, m, FALSE))
<1> DEFINE q == CuttsegCompare(p, l, m, TRUE)
           d == CuttsegCompare(c, l, n, TRUE)
           v == CuttsegCompare(s, l, n, FALSE)
           w == CuttsegCompare(t, n, m, FALSE)
           le == l.letter = 0
           ne == n.letter = 0
           me == m.letter = 0
<1>1. p \in Results /\ c \in Results /\ s \in Shelf /\ t \in Shelf
  BY BetweenTypes
<1>2. d \in Results /\ Later(s, v) /\ Later(t, w)
  BY <1>1, CuttsegKeeps, CuttsegLater DEF Keeps
<1>3. Lacks(p, q, le, me)
  BY <1>1, CuttsegLacks
<1>4. c \in Including /\ le => d \in Including
  <2>1. c = Same /\ le => d \in {Same, Specifying}
    BY CuttsegFromSame
  <2>2. c = Specifying /\ le => d = Specifying
    BY <1>1, CuttsegLacks
  <2> HIDE DEF d, le
  <2> QED BY <2>1, <2>2 DEF Including
<1>5. le \in BOOLEAN /\ ne \in BOOLEAN /\ me \in BOOLEAN
  OBVIOUS
<1>6. ASSUME p = Same, c = Same, s = Same, t = Same
      PROVE  Between(q, d, v, w)
  <2>1. q \in Results /\ d \in Results /\ v \in Shelf /\ w \in Shelf
    BY <1>6, CuttsegFromSame
  <2>2. CASE le \/ ne \/ me
    <3>1. /\ le \/ me => q = IF le /\ me THEN Same ELSE IF le THEN Specifying ELSE Generalizing
          /\ le \/ ne => d = IF le /\ ne THEN Same ELSE IF le THEN Specifying ELSE Generalizing
          /\ le \/ ne => v = IF le /\ ne THEN Same ELSE IF le THEN Ascending ELSE Descending
          /\ ne \/ me => w = IF ne /\ me THEN Same ELSE IF ne THEN Ascending ELSE Descending
      BY <1>6, CuttsegFromSame
    <3> HIDE DEF q, d, v, w, le, ne, me
    <3> QED BY <1>5, <2>1, <2>2, <3>1, MissingBetween
  <2>3. CASE ~(le \/ ne \/ me)
    <3>1. /\ q = DateordCompare(CutterCompare(Same, l, m, TRUE), l.dateord, m.dateord, TRUE)
          /\ d = DateordCompare(CutterCompare(Same, l, n, TRUE), l.dateord, n.dateord, TRUE)
          /\ v = DateordCompare(CutterCompare(Same, l, n, FALSE), l.dateord, n.dateord, FALSE)
          /\ w = DateordCompare(CutterCompare(Same, n, m, FALSE), n.dateord, m.dateord, FALSE)
      BY <1>6, <2>3, CuttsegFromSame
    <3>2. l.dateord \in Dateord /\ n.dateord \in Dateord /\ m.dateord \in Dateord
      BY DEF Cuttseg
    <3>3. InTime(CutterCompare(Same, l, m, TRUE), l.dateord, m.dateord)
      BY <1>6 DEF CuttersInTime
    <3> HIDE DEF q, d, v, w
    <3> QED BY <3>1, <3>2, <3>3, CuttersBetween, DateordsBetween
  <2> QED BY <2>2, <2>3
<1> HIDE DEF q, d, v, w, le, ne, me
<1>7. Between(q, d, v, w)
  BY <1>2, <1>3, <1>4, <1>5, <1>6, BetweenStep
<1> QED BY <1>7 DEF q, d, v, w

(* Both volumes, or supplements, are followed by "etc.", or neither is.    *)
OneEtc(l, r) ==
  l.kind = r.kind /\ l.kind \in {"volume", "supplement"} => l.hasetc = r.hasetc

LEMMA SpecificationFromSame ==
  ASSUME NEW l \in Specification, NEW r \in Specification
  PROVE  LET a == SpecificationCompare(Same, l, r, TRUE)
             b == SpecificationCompare(Same, l, r, FALSE)
             le == l.kind = "none"
             re == r.kind = "none"
         IN  /\ a \in Results /\ b \in Shelf
             /\ le \/ re =>
                  /\ a = IF le /\ re THEN Same ELSE IF le THEN Specifying ELSE Generalizing
                  /\ b = IF le /\ re THEN Same ELSE IF le THEN Ascending ELSE Descending
             /\ ~(le \/ re) =>
                  /\ a = IF l.kind = r.kind THEN SameKindCompare(Same, l, r, TRUE)
                         ELSE Ordered(KindRank(l), KindRank(r))
                  /\ b = IF l.kind = r.kind THEN SameKindCompare(Same, l, r, FALSE)
                         ELSE Ordered(KindRank(l), KindRank(r))
<1> DEFINE a == SpecificationCompare(Same, l, r, TRUE)
           b == SpecificationCompare(Same, l, r, FALSE)
           le == l.kind = "none"
           re == r.kind = "none"
           x == Settled(Same, le, re, TRUE)
           y == Settled(Same, le, re, FALSE)
<1>1. Same \in Results /\ Same \in Shelf
  BY DEF Results, Shelf
<1>2. a \in Results /\ b \in Shelf
  BY <1>1, SpecificationKeeps, SpecificationLater DEF Keeps, Later
<1>3. /\ Settles(Same, le, re) <=> le \/ re
      /\ le \/ re => y = IF le /\ re THEN Same ELSE IF le THEN Ascending ELSE Descending
  BY MissingIs
<1>4. le \/ re => x = IF le /\ re THEN Same ELSE IF le THEN Specifying ELSE Generalizing
  BY DEF Settled, Within, Decided
<1>5. a = IF Settles(Same, le, re) THEN x
          ELSE IF l.kind = r.kind THEN SameKindCompare(Same, l, r, TRUE)
          ELSE Ordered(KindRank(l), KindRank(r))
  BY DEF SpecificationCompare
<1>6. b = IF Settles(Same, le, re) THEN y
          ELSE IF l.kind = r.kind THEN SameKindCompare(Same, l, r, FALSE)
          ELSE Ordered(KindRank(l), KindRank(r))
  BY DEF SpecificationCompare
<1> HIDE DEF a, b, x, y
<1>7. CASE le \/ re
  BY <1>2, <1>3, <1>4, <1>5, <1>6, <1>7 DEF a, b
<1>8. CASE ~(le \/ re)
  BY <1>2, <1>3, <1>5, <1>6, <1>8 DEF a, b
<1> QED BY <1>7, <1>8

LEMMA SameKindsBetween ==
  ASSUME NEW l \in Specification, NEW n \in Specification, NEW m \in Specification,
         l.kind = n.kind, n.kind = m.kind, l.kind # "none", OneSpan(l, n), OneEtc(l, n)
  PROVE  Between(SameKindCompare(Same, l, m, TRUE), SameKindCompare(Same, l, n, TRUE),
                 SameKindCompare(Same, l, n, FALSE), SameKindCompare(Same, n, m, FALSE))
<1>1. CASE l.kind = "date"
  <2>1. l \in Date /\ n \in Date /\ m \in Date
    BY <1>1, SpecificationKinds
  <2> QED BY <1>1, <2>1, DatesBetween DEF SameKindCompare
<1>2. CASE l.kind = "word"
  <2>1. l.word \in Text /\ n.word \in Text /\ m.word \in Text
    BY <1>2, SpecificationKinds DEF WordText
  <2> QED BY <1>2, <2>1, SameBetween, StringsBetween DEF SameKindCompare
<1>3. CASE l.kind = "ordinal"
  <2>1. l \in OrdinalNumber /\ n \in OrdinalNumber /\ m \in OrdinalNumber
    BY <1>3, SpecificationKinds
  <2> QED BY <1>3, <2>1, SameBetween, OrdinalsBetween DEF SameKindCompare
<1>4. CASE l.kind \in {"volume", "supplement"}
  <2>1. l \in Numbered /\ n \in Numbered /\ m \in Numbered
    BY <1>4, SpecificationKinds
  <2>2. l.hasetc = n.hasetc
    BY <1>4 DEF OneEtc
  <2> QED BY <1>4, <2>1, <2>2, SameBetween, NumberedsBetween DEF SameKindCompare
<1> QED BY <1>1, <1>2, <1>3, <1>4, SpecificationKinds

LEMMA KindRanks ==
  ASSUME NEW l \in Specification, l.kind # "none"
  PROVE  /\ KindRank(l) \in Int
         /\ \A r \in Specification :
              r.kind # "none" /\ KindRank(l) = KindRank(r) => l.kind = r.kind
<1>1. ASSUME NEW n \in Specification, n.kind # "none"
      PROVE  /\ n.kind \in {"date", "word", "ordinal", "volume", "supplement"}
             /\ KindRank(n) = IF n.kind = "date" THEN 1 ELSE IF n.kind = "word" THEN 2
                              ELSE IF n.kind = "ordinal" THEN 3 ELSE IF n.kind = "volume" THEN 4
                              ELSE 5
  <2>1. n.kind \in {"date", "word", "ordinal", "volume", "supplement"}
    BY <1>1, SpecificationKinds
  <2> QED BY <2>1 DEF KindRank
<1> QED BY <1>1

LEMMA SpecificationsFromSame ==
  ASSUME NEW l \in Specification, NEW n \in Specification, NEW m \in Specification,
         OneSpan(l, n), OneEtc(l, n)
  PROVE  Between(SpecificationCompare(Same, l, m, TRUE), SpecificationCompare(Same, l, n, TRUE),
                 SpecificationCompare(Same, l, n, FALSE), SpecificationCompare(Same, n, m, FALSE))
<1> DEFINE q == SpecificationCompare(Same, l, m, TRUE)
           d == SpecificationCompare(Same, l, n, TRUE)
           v == SpecificationCompare(Same, l, n, FALSE)
           w == SpecificationCompare(Same, n, m, FALSE)
<1>1. q \in Results /\ d \in Results /\ v \in Shelf /\ w \in Shelf
  BY SpecificationFromSame
<1>2. CASE l.kind = "none" \/ n.kind = "none" \/ m.kind = "none"
  <2> DEFINE le == l.kind = "none"
             ne == n.kind = "none"
             me == m.kind = "none"
  <2>1. /\ le \/ me => q = IF le /\ me THEN Same ELSE IF le THEN Specifying ELSE Generalizing
        /\ le \/ ne => d = IF le /\ ne THEN Same ELSE IF le THEN Specifying ELSE Generalizing
        /\ le \/ ne => v = IF le /\ ne THEN Same ELSE IF le THEN Ascending ELSE Descending
        /\ ne \/ me => w = IF ne /\ me THEN Same ELSE IF ne THEN Ascending ELSE Descending
    BY SpecificationFromSame
  <2>2. le \in BOOLEAN /\ ne \in BOOLEAN /\ me \in BOOLEAN /\ (le \/ ne \/ me)
    BY <1>2
  <2> HIDE DEF le, ne, me, q, d, v, w
  <2>3. Between(q, d, v, w)
    BY <1>1, <2>1, <2>2, MissingBetween
  <2> QED BY <2>3 DEF q, d, v, w
<1>3. CASE l.kind # "none" /\ n.kind # "none" /\ m.kind # "none"
  <2>1. /\ q = IF l.kind = m.kind THEN SameKindCompare(Same, l, m, TRUE)
               ELSE Ordered(KindRank(l), KindRank(m))
        /\ d = IF l.kind = n.kind THEN SameKindCompare(Same, l, n, TRUE)
               ELSE Ordered(KindRank(l), KindRank(n))
        /\ v = IF l.kind = n.kind THEN SameKindCompare(Same, l, n, FALSE)
               ELSE Ordered(KindRank(l), KindRank(n))
        /\ w = IF n.kind = m.kind THEN SameKindCompare(Same, n, m, FALSE)
               ELSE Ordered(KindRank(n), KindRank(m))
    BY <1>3, SpecificationFromSame
  <2> HIDE DEF q, d, v, w
  <2>2. CASE l.kind = n.kind /\ n.kind = m.kind
    <3>1. Between(q, d, v, w)
      BY <1>3, <2>1, <2>2, SameKindsBetween
    <3> QED BY <3>1 DEF q, d, v, w
  <2>3. CASE ~(l.kind = n.kind /\ n.kind = m.kind)
    <3> DEFINE x == KindRank(l)
               y == KindRank(n)
               z == KindRank(m)
    <3>1. /\ x \in Int /\ y \in Int /\ z \in Int
          /\ l.kind = m.kind => x = z
          /\ l.kind = n.kind => x = y
          /\ n.kind = m.kind => y = z
          /\ x = y => l.kind = n.kind
          /\ y = z => n.kind = m.kind
      BY <1>3, KindRanks DEF KindRank
    <3>0. /\ l.kind # n.kind => v = IF x < y THEN Ascending ELSE Descending
          /\ n.kind # m.kind => w = IF y < z THEN Ascending ELSE Descending
      BY <2>1 DEF Ordered
    <3> HIDE DEF x, y, z
    <3>2. l.kind # m.kind => q \in {Ascending, Descending}
      BY <2>1 DEF Ordered
    <3>3. l.kind = m.kind => v = Descending \/ w = Descending
      BY <2>3, <3>0, <3>1
    <3>4. q \notin Including \/ v = Descending \/ w = Descending
      BY <3>2, <3>3 DEF Including
    <3>5. Between(q, d, v, w)
      BY <1>1, <3>4, DescendingBetween
    <3> QED BY <3>5 DEF q, d, v, w
  <2> QED BY <2>2, <2>3
<1> QED BY <1>2, <1>3

LEMMA SpecificationsBetween ==
  ASSUME NEW p, NEW c, NEW s, NEW t, Between(p, c, s, t),
         NEW l \in Specification, NEW n \in Specification, NEW m \in Specification,
         OneSpan(l, n), OneEtc(l, n), InTime(p, l, m)
  PROVE  Between(SpecificationCompare(p, l, m, TRUE), SpecificationCompare(c, l, n, TRUE),
                 SpecificationCompare(s, l, n, FALSE), SpecificationCompare(t, n, m, FALSE))
<1> DEFINE q == SpecificationCompare(p, l, m, TRUE)
           d == SpecificationCompare(c, l, n, TRUE)
           v == SpecificationCompare(s, l, n, FALSE)
           w == SpecificationCompare(t, n, m, FALSE)
           le == l.kind = "none"
           me == m.kind = "none"
<1>1. p \in Results /\ c \in Results /\ s \in Shelf /\ t \in Shelf
  BY BetweenTypes
<1>2. d \in Results /\ Later(s, v) /\ Later(t, w)
  BY <1>1, SpecificationKeeps, SpecificationLater DEF Keeps
<1>3. Lacks(p, q, le, me)
  BY <1>1, SpecificationLacks
<1>4. c \in Including /\ le => d \in Including
  <2>1. c = Same /\ le => d \in {Same, Specifying}
    BY SpecificationFromSame
  <2>2. c = Specifying /\ le => d = Specifying
    BY <1>1, SpecificationLacks
  <2> HIDE DEF d, le
  <2> QED BY <2>1, <2>2 DEF Including
<1>5. p = Same /\ c = Same /\ s = Same /\ t = Same => Between(q, d, v, w)
  BY SpecificationsFromSame
<1>6. le \in BOOLEAN /\ me \in BOOLEAN
  OBVIOUS
<1> HIDE DEF q, d, v, w, le, me
<1>7. Between(q, d, v, w)
  BY <1>2, <1>3, <1>4, <1>5, <1>6, BetweenStep
<1> QED BY <1>7 DEF q, d, v, w

(* What has to hold of part k of a number and of one between it and what   *)
(* it includes.                                                            *)
PartsMatch(k, l, n) ==
  /\ k >= 4 => OneSpan(DateAt(k, l), DateAt(k, n))
  /\ k >= 8 => OneEtc(DateAt(k, l), DateAt(k, n))

LEMMA SegmentsBetween ==
  ASSUME NEW p, NEW c, NEW s, NEW t, Between(p, c, s, t),
         NEW l \in CallNumber, NEW n \in CallNumber, NEW m \in CallNumber,
         NEW k \in Nat \ {0}, k <= Segments(l, m), k <= Segments(l, n), k <= Segments(n, m),
         PartInTime(k, p, l, m), PartsMatch(k, l, n)
  PROVE  Between(SegmentCompare(k, p, l, m, TRUE), SegmentCompare(k, c, l, n, TRUE),
                 SegmentCompare(k, s, l, n, FALSE), SegmentCompare(k, t, n, m, FALSE))
<1>1. ASSUME NEW i \in CallNumber
      PROVE  /\ i.letters \in Text /\ i.integer \in Nat \cup {Absent}
             /\ i.decimal \in Text /\ i.dateord \in Dateord
  BY DEF CallNumber
<1>2. CASE k = 1
  <2>1. l.letters \in Text /\ n.letters \in Text /\ m.letters \in Text
    BY <1>1
  <2>2. \A a, i, j, spec : SegmentCompare(k, a, i, j, spec) = StringCompare(a, i.letters, j.letters, spec)
    BY <1>2 DEF SegmentCompare
  <2>3. Between(StringCompare(p, l.letters, m.letters, TRUE), StringCompare(c, l.letters, n.letters, TRUE),
                StringCompare(s, l.letters, n.letters, FALSE), StringCompare(t, n.letters, m.letters, FALSE))
    BY <2>1, StringsBetween
  <2> QED BY <2>2, <2>3
<1>3. CASE k = 2
  <2>1. /\ l.integer \in Nat \cup {Absent}
        /\ n.integer \in Nat \cup {Absent}
        /\ m.integer \in Nat \cup {Absent}
    BY <1>1
  <2>2. \A a, i, j, spec : SegmentCompare(k, a, i, j, spec) = IntegerCompare(a, i.integer, j.integer, spec)
    BY <1>3 DEF SegmentCompare
  <2>3. Between(IntegerCompare(p, l.integer, m.integer, TRUE), IntegerCompare(c, l.integer, n.integer, TRUE),
                IntegerCompare(s, l.integer, n.integer, FALSE), IntegerCompare(t, n.integer, m.integer, FALSE))
    BY <2>1, IntegersBetween
  <2> QED BY <2>2, <2>3
<1>4. CASE k = 3
  <2>1. l.decimal \in Text /\ n.decimal \in Text /\ m.decimal \in Text
    BY <1>1
  <2>2. \A a, i, j, spec : SegmentCompare(k, a, i, j, spec) = DecimalCompare(a, i.decimal, j.decimal, spec)
    BY <1>4 DEF SegmentCompare
  <2>3. Between(DecimalCompare(p, l.decimal, m.decimal, TRUE), DecimalCompare(c, l.decimal, n.decimal, TRUE),
                DecimalCompare(s, l.decimal, n.decimal, FALSE), DecimalCompare(t, n.decimal, m.decimal, FALSE))
    BY <2>1, DecimalsBetween
  <2> QED BY <2>2, <2>3
<1>5. CASE k = 4
  <2>1. l.dateord \in Dateord /\ n.dateord \in Dateord /\ m.dateord \in Dateord
    BY <1>1
  <2>2. \A a, i, j, spec : SegmentCompare(k, a, i, j, spec) = DateordCompare(a, i.dateord, j.dateord, spec)
    BY <1>5 DEF SegmentCompare
  <2>3. InTime(p, l.dateord, m.dateord) /\ OneSpan(l.dateord, n.dateord)
    BY <1>5 DEF PartInTime, IntoDate, DateAt, PartsMatch
  <2>4. Between(DateordCompare(p, l.dateord, m.dateord, TRUE), DateordCompare(c, l.dateord, n.dateord, TRUE),
                DateordCompare(s, l.dateord, n.dateord, FALSE), DateordCompare(t, n.dateord, m.dateord, FALSE))
    BY <2>1, <2>3, DateordsBetween
  <2> QED BY <2>2, <2>4
<1>6. CASE k \in 5..7
  <2> DEFINE Part(i) == i.cutters[k - 4]
  <2>1. Part(l) \in Cuttseg /\ Part(n) \in Cuttseg /\ Part(m) \in Cuttseg
    BY <1>6, PartsOfCallNumbers
  <2>2. k \notin {1, 2, 3, 4} /\ k \notin 8..9 /\ k >= 4
    BY <1>6
  <2>3. \A a, i, j, spec : SegmentCompare(k, a, i, j, spec) = CuttsegCompare(a, Part(i), Part(j), spec)
    BY <1>6, <2>2 DEF SegmentCompare
  <2>4. CuttersInTime(p, Part(l), Part(m)) /\ OneSpan(Part(l).dateord, Part(n).dateord)
    BY <1>6, <2>2 DEF PartInTime, IntoDate, DateAt, CuttersInTime, PartsMatch
  <2> HIDE DEF Part
  <2>5. Between(CuttsegCompare(p, Part(l), Part(m), TRUE), CuttsegCompare(c, Part(l), Part(n), TRUE),
                CuttsegCompare(s, Part(l), Part(n), FALSE), CuttsegCompare(t, Part(n), Part(m), FALSE))
    BY <2>1, <2>4, CuttsegsBetween
  <2> QED BY <2>3, <2>5
<1>7. CASE k \in 8..9
  <2> DEFINE Part(i) == i.specifications[k - 7]
  <2>1. Part(l) \in Specification /\ Part(n) \in Specification /\ Part(m) \in Specification
    BY <1>7, PartsOfCallNumbers
  <2>2. k \notin {1, 2, 3, 4} /\ k \notin 5..7 /\ k >= 4 /\ k >= 8
    BY <1>7
  <2>3. \A a, i, j, spec : SegmentCompare(k, a, i, j, spec)
                             = SpecificationCompare(a, Part(i), Part(j), spec)
    BY <1>7, <2>2 DEF SegmentCompare
  <2>4. InTime(p, Part(l), Part(m)) /\ OneSpan(Part(l), Part(n)) /\ OneEtc(Part(l), Part(n))
    BY <1>7, <2>2 DEF PartInTime, IntoDate, DateAt, PartsMatch
  <2> HIDE DEF Part
  <2>5. Between(SpecificationCompare(p, Part(l), Part(m), TRUE), SpecificationCompare(c, Part(l), Part(n), TRUE),
                SpecificationCompare(s, Part(l), Part(n), FALSE), SpecificationCompare(t, Part(n), Part(m), FALSE))
    BY <2>1, <2>4, SpecificationsBetween
  <2> QED BY <2>3, <2>5
<1>8. CASE k > 9
  <2> DEFINE Part(i) == i.remainder[k - 9]
  <2>1. Part(l) \in Specification /\ Part(n) \in Specification /\ Part(m) \in Specification
    BY <1>8, PartsOfCallNumbers
  <2>2. k \notin {1, 2, 3, 4} /\ k \notin 5..7 /\ k \notin 8..9 /\ k >= 4 /\ k >= 8
    BY <1>8
  <2>3. \A a, i, j, spec : SegmentCompare(k, a, i, j, spec)
                             = SpecificationCompare(a, Part(i), Part(j), spec)
    BY <1>8, <2>2 DEF SegmentCompare
  <2>4. InTime(p, Part(l), Part(m)) /\ OneSpan(Part(l), Part(n)) /\ OneEtc(Part(l), Part(n))
    BY <1>8, <2>2 DEF PartInTime, IntoDate, DateAt, PartsMatch
  <2> HIDE DEF Part
  <2>5. Between(SpecificationCompare(p, Part(l), Part(m), TRUE), SpecificationCompare(c, Part(l), Part(n), TRUE),
                SpecificationCompare(s, Part(l), Part(n), FALSE), SpecificationCompare(t, Part(n), Part(m), FALSE))
    BY <2>1, <2>4, SpecificationsBetween
  <2> QED BY <2>3, <2>5
<1>9. k = 1 \/ k = 2 \/ k = 3 \/ k = 4 \/ k \in 5..7 \/ k \in 8..9 \/ k > 9
  OBVIOUS
<1> QED BY <1>2, <1>3, <1>4, <1>5, <1>6, <1>7, <1>8, <1>9

LEMMA PartsAreMatched ==
  ASSUME NEW l \in CallNumber, NEW n \in CallNumber, ~OtherSpans(l, n), ~OtherEtc(l, n),
         NEW k \in 1..Segments(l, n)
  PROVE  PartsMatch(k, l, n)
<1>1. Segments(l, n) \in Nat
  BY SegmentsType
<1>2. k >= 4 => OneSpan(DateAt(k, l), DateAt(k, n))
  <2>1. k >= 4 => k \in 4..Segments(l, n)
    BY <1>1
  <2> QED BY <2>1 DEF OtherSpans, OneSpan
<1>3. k >= 8 => OneEtc(DateAt(k, l), DateAt(k, n))
  <2>1. k >= 8 => k \in 8..Segments(l, n)
    BY <1>1
  <2> QED BY <2>1 DEF OtherEtc, OneEtc
<1> QED BY <1>2, <1>3 DEF PartsMatch

LEMMA StatusesBetween ==
  ASSUME NEW l \in CallNumber, NEW n \in CallNumber, NEW m \in CallNumber,
         NEW u \in Nat, u <= Segments(l, m), u <= Segments(l, n), u <= Segments(n, m),
         LateDates(l, m) = {}, ~OtherSpans(l, n), ~OtherEtc(l, n)
  PROVE  Between(Statuses(l, m, TRUE)[u], Statuses(l, n, TRUE)[u],
                 Statuses(l, n, FALSE)[u], Statuses(n, m, FALSE)[u])
<1> DEFINE f == Statuses(l, m, TRUE)
           g == Statuses(l, n, TRUE)
           h == Statuses(l, n, FALSE)
           i == Statuses(n, m, FALSE)
           S == {k \in 0..u : Between(f[k], g[k], h[k], i[k])}
<1>1. Segments(l, m) \in Nat /\ Segments(l, n) \in Nat /\ Segments(n, m) \in Nat
  BY SegmentsType
<1>2. f[0] = Same /\ \A k \in 1..Segments(l, m) : f[k] = SegmentCompare(k, f[k - 1], l, m, TRUE)
  BY StatusesAre
<1>3. g[0] = Same /\ \A k \in 1..Segments(l, n) : g[k] = SegmentCompare(k, g[k - 1], l, n, TRUE)
  BY StatusesAre
<1>4. h[0] = Same /\ \A k \in 1..Segments(l, n) : h[k] = SegmentCompare(k, h[k - 1], l, n, FALSE)
  BY StatusesAre
<1>5. i[0] = Same /\ \A k \in 1..Segments(n, m) : i[k] = SegmentCompare(k, i[k - 1], n, m, FALSE)
  BY StatusesAre
<1>6. \A k \in 1..Segments(l, m) : PartInTime(k, f[k - 1], l, m)
  BY NoLateDates
<1>7. \A k \in 1..Segments(l, n) : PartsMatch(k, l, n)
  BY PartsAreMatched
<1> HIDE DEF f, g, h, i
<1>8. 0 \in S
  BY <1>2, <1>3, <1>4, <1>5, SameBetween
<1>9. ASSUME NEW k \in 1..u, k - 1 \in S PROVE k \in S
  <2>1. /\ k \in Nat \ {0}
        /\ k <= Segments(l, m) /\ k <= Segments(l, n) /\ k <= Segments(n, m)
        /\ k \in 1..Segments(l, m) /\ k \in 1..Segments(l, n) /\ k \in 1..Segments(n, m)
    BY <1>1
  <2>2. Between(f[k - 1], g[k - 1], h[k - 1], i[k - 1])
    BY <1>9
  <2>3. PartInTime(k, f[k - 1], l, m) /\ PartsMatch(k, l, n)
    BY <1>6, <1>7, <2>1
  <2>4. Between(SegmentCompare(k, f[k - 1], l, m, TRUE), SegmentCompare(k, g[k - 1], l, n, TRUE),
                SegmentCompare(k, h[k - 1], l, n, FALSE), SegmentCompare(k, i[k - 1], n, m, FALSE))
    BY <2>1, <2>2, <2>3, SegmentsBetween
  <2>5. Between(f[k], g[k], h[k], i[k])
    BY <1>2, <1>3, <1>4, <1>5, <2>1, <2>4
  <2> QED BY <2>5
<1> HIDE DEF S
<1>10. \A k \in 1..u : k - 1 \in S => k \in S
  BY <1>9
<1>11. \A k \in 0..u : k \in S
  BY <1>8, <1>10, UpTo
<1>12. Between(f[u], g[u], h[u], i[u])
  BY <1>11 DEF S
<1> QED BY <1>12 DEF f, g, h, i

LEMMA StatusesAgree ==
  ASSUME NEW l \in CallNumber, NEW r \in CallNumber, NEW u \in 0..Segments(l, r)
  PROVE  Agree(Statuses(l, r, TRUE)[u], Statuses(l, r, FALSE)[u])
<1> DEFINE f == Statuses(l, r, TRUE)
           g == Statuses(l, r, FALSE)
           S == {k \in 0..Segments(l, r) : Agree(f[k], g[k])}
<1>1. Segments(l, r) \in Nat
  BY SegmentsType
<1>2. f[0] = Same /\ \A k \in 1..Segments(l, r) : f[k] = SegmentCompare(k, f[k - 1], l, r, TRUE)
  BY StatusesAre
<1>3. g[0] = Same /\ \A k \in 1..Segments(l, r) : g[k] = SegmentCompare(k, g[k - 1], l, r, FALSE)
  BY StatusesAre
<1> HIDE DEF f, g
<1>4. 0 \in S
  BY <1>1, <1>2, <1>3 DEF Agree, Results
<1>5. ASSUME NEW k \in 1..Segments(l, r), k - 1 \in S PROVE k \in S
  <2>1. k \in Nat \ {0} /\ k <= Segments(l, r) /\ Agree(f[k - 1], g[k - 1])
    BY <1>1, <1>5
  <2>2. Agree(SegmentCompare(k, f[k - 1], l, r, TRUE), SegmentCompare(k, g[k - 1], l, r, FALSE))
    BY <2>1, SegmentAgrees
  <2>3. Agree(f[k], g[k])
    BY <1>2, <1>3, <2>2
  <2> QED BY <2>3
<1> HIDE DEF S
<1>6. \A k \in 1..Segments(l, r) : k - 1 \in S => k \in S
  BY <1>5
<1>7. \A k \in 0..Segments(l, r) : k \in S
  BY <1>1, <1>4, <1>6, UpTo
<1>8. Agree(f[u], g[u])
  BY <1>7 DEF S
<1> QED BY <1>8 DEF f, g

LEMMA CompareIsBetween ==
  ASSUME NEW l \in CallNumber, NEW n \in CallNumber, NEW m \in CallNumber,
         ~Outlasts(l, m), LateDates(l, m) = {}, ~OtherSpans(l, n), ~OtherEtc(l, n),
         Compare(l, m, TRUE) \in Including,
         Compare(l, n, FALSE) # Descending, Compare(n, m, FALSE) # Descending
  PROVE  Compare(l, n, TRUE) \in Including
<1> DEFINE x == Len(l.remainder)
           y == Len(m.remainder)
           z == Len(n.remainder)
           u == 9 + (IF x <= z THEN x ELSE z)
           p == Statuses(l, m, TRUE)[u]
           c == Statuses(l, n, TRUE)[u]
           s == Statuses(l, n, FALSE)[u]
           t == Statuses(n, m, FALSE)[u]
           q == Compare(l, m, TRUE)
           d == Compare(l, n, TRUE)
           v == Compare(l, n, FALSE)
           w == Compare(n, m, FALSE)
<1>1. x \in Nat /\ y \in Nat /\ z \in Nat /\ x <= y
  BY SegmentsType DEF Outlasts
<1>2. /\ Segments(l, m) = 9 + (IF x <= y THEN x ELSE y)
      /\ Segments(l, n) = 9 + (IF x <= z THEN x ELSE z)
      /\ Segments(n, m) = 9 + (IF z <= y THEN z ELSE y)
  BY SegmentsType
<1> HIDE DEF x, y, z
<1>3. /\ u \in Nat
      /\ u <= Segments(l, m) /\ u <= Segments(l, n) /\ u <= Segments(n, m)
      /\ u \in 0..Segments(l, m) /\ u \in 0..Segments(l, n) /\ u \in 0..Segments(n, m)
      /\ u = Segments(l, n)
  BY <1>1, <1>2
<1> HIDE DEF u
<1>4. Between(p, c, s, t)
  BY <1>3, StatusesBetween
<1>5. Keeps(p, q) /\ p \in Results
  BY <1>3, CompareKeeps
<1>6. d = IF c # Same \/ x = z THEN c ELSE IF x < z THEN Specifying ELSE Generalizing
  BY <1>3, CompareKeeps DEF x, z
<1>7. /\ Later(s, v)
      /\ s = Same => v = IF x = z THEN Same ELSE IF x < z THEN Ascending ELSE Descending
  BY <1>3, CompareIsLater DEF x, z, Ordered
<1>8. Later(t, w)
  BY <1>3, CompareIsLater
<1>9. Agree(c, s)
  BY <1>3, StatusesAgree
<1>10. q \in Including /\ v # Descending /\ w # Descending
  OBVIOUS
<1> HIDE DEF p, c, s, t, q, d, v, w
<1>11. p \in Including
  BY <1>5, <1>10, KeepsIncluding
<1>12. s # Descending /\ t # Descending
  BY <1>7, <1>8, <1>10 DEF Later
<1>13. c \in Including
  BY <1>4, <1>11, <1>12 DEF Between
<1>14. c = Same => x <= z
  BY <1>1, <1>7, <1>9, <1>10 DEF Agree
<1>15. d \in Including
  BY <1>1, <1>6, <1>13, <1>14 DEF Including
<1> QED BY <1>15 DEF d

(* Whatever the call numbers, what one includes stands together behind it  *)
(* on the shelf, as far as no remainder is overlooked, no date is compared *)
(* late, and no span or "etc." sets the number between them apart.         *)
THEOREM DescendantsStandTogether == Spec => []DescendantsAreContiguous
<1>1. ASSUME TypeOK, InSteps PROVE DescendantsAreContiguous
  <2> SUFFICES ASSUME Compared, specify, result \in {Same, Specifying},
                      NEW third \in CallNumbers \ Included[left],
                      Order[left][third] # Descending, Order[third][right] # Descending,
                      ~Outlasts(left, right), LateDates(left, right) = {},
                      ~OtherSpans(left, third), ~OtherEtc(left, third)
               PROVE  FALSE
    BY DEF DescendantsAreContiguous
  <2>1. left \in CallNumbers /\ right \in CallNumbers /\ specify = TRUE
    BY <1>1 DEF InSteps, TypeOK
  <2>2. result = Compare(left, right, TRUE)
    BY <1>1, <2>1 DEF InSteps
  <2>3. Compare(left, third, TRUE) \notin {Same, Specifying}
    BY <2>1 DEF Included
  <2>4. Compare(left, third, FALSE) # Descending /\ Compare(third, right, FALSE) # Descending
    BY <2>1 DEF Order
  <2>5. left \in CallNumber /\ right \in CallNumber /\ third \in CallNumber
    BY <2>1, CallNumberAssumption
  <2> QED BY <2>2, <2>3, <2>4, <2>5, CompareIsBetween DEF Including
<1> QED BY <1>1, TypeCorrect, StepsAreCompare, PTL DEF Spec

-----------------------------------------------------------------------------
(* Call numbers from strings.                                              *)

(* A set of numbers that has one has a least one.                          *)
LEMMA LeastNumber ==
  ASSUME NEW D, D \subseteq Nat, D # {}
  PROVE  \E x \in D : \A y \in D : x <= y
<1> DEFINE Less == {ss \in Nat \X Nat : ss[1] < ss[2]}
<1>1. IsWellFoundedOn(Less, Nat)
  BY NatLessThanWellFounded DEF OpToRel
<1> HIDE DEF Less
<1>2. PICK x \in D : \A y \in D : ~(<<y, x>> \in Less)
  BY <1>1, WFMin
<1>3. ASSUME NEW y \in D PROVE x <= y
  <2>1. x \in Nat /\ y \in Nat
    OBVIOUS
  <2>2. y < x => <<y, x>> \in Less
    BY <2>1 DEF Less
  <2> QED
    BY <1>2, <2>1, <2>2
<1> QED
  BY <1>3

(* One that has a bound has a greatest one.                                *)
LEMMA GreatestNumber ==
  ASSUME NEW n \in Nat, NEW D, D \subseteq 0..n, D # {}
  PROVE  \E x \in D : \A y \in D : x >= y
<1> DEFINE E == {y \in 0..n : n - y \in D}
<1>1. E \subseteq Nat /\ E # {}
  <2>1. PICK w \in D : TRUE
    OBVIOUS
  <2>2. w \in 0..n /\ n - w \in 0..n /\ n - (n - w) = w
    OBVIOUS
  <2>3. n - w \in E
    BY <2>2
  <2>4. E \subseteq Nat
    OBVIOUS
  <2> HIDE DEF E
  <2> QED
    BY <2>3, <2>4
<1>2. PICK y \in E : \A z \in E : y <= z
  <2> HIDE DEF E
  <2> QED
    BY <1>1, LeastNumber
<1> DEFINE x == n - y
<1>3. x \in D /\ y \in 0..n
  OBVIOUS
<1>4. ASSUME NEW w \in D PROVE x >= w
  <2>1. w \in 0..n
    OBVIOUS
  <2>2. n - w \in 0..n /\ n - (n - w) = w
    BY <2>1
  <2>3. n - w \in E
    BY <2>2
  <2>4. y <= n - w
    BY <1>2, <2>3
  <2> QED
    BY <1>3, <2>1, <2>4
<1> HIDE DEF x
<1> QED
  BY <1>3, <1>4

(* The bounds of a set of places.                                          *)
LEMMA BoundsAre ==
  ASSUME NEW n \in Nat, NEW D, D \subseteq 0..n, D # {}
  PROVE  Min(D) \in D /\ Max(D) \in D
<1>1. PICK x \in D : \A y \in D : x <= y
  <2>1. D \subseteq Nat
    OBVIOUS
  <2> QED
    BY <2>1, LeastNumber
<1>2. PICK x2 \in D : \A y \in D : x2 >= y
  BY GreatestNumber
<1>3. Min(D) \in D
  BY <1>1 DEF Min
<1>4. Max(D) \in D
  BY <1>2 DEF Max
<1> QED
  BY <1>3, <1>4

(* Sequences put together.                                                 *)

(* A function on the first numbers is a sequence.                          *)
LEMMA AreElements ==
  ASSUME NEW n \in Nat, NEW S, NEW s, DOMAIN s = 1..n, s = [i \in 1..n |-> s[i]],
         \A i \in 1..n : s[i] \in S
  PROVE  s \in Seq(S) /\ Len(s) = n
OBVIOUS

(* Two sequences put together.                                             *)
LEMMA Beside ==
  ASSUME NEW S, NEW s \in Seq(S), NEW t \in Seq(S)
  PROVE  /\ s \o t \in Seq(S) /\ Len(s \o t) = Len(s) + Len(t)
         /\ \A j \in 1..Len(s) : (s \o t)[j] = s[j]
         /\ \A j \in 1..Len(t) : (s \o t)[Len(s) + j] = t[j]
<1>1. Len(s) \in Nat /\ Len(t) \in Nat
  BY LenProperties
<1>2. ASSUME NEW j \in 1..Len(t) PROVE (s \o t)[Len(s) + j] = t[j]
  <2> DEFINE k == Len(s) + j
  <2>1. k \in 1..Len(s) + Len(t) /\ ~(k <= Len(s)) /\ k - Len(s) = j
    BY <1>1
  <2> HIDE DEF k
  <2>2. (s \o t)[k] = t[j]
    BY <2>1, ConcatProperties
  <2> QED
    BY <2>2 DEF k
<1> QED
  BY <1>1, <1>2, ConcatProperties

-----------------------------------------------------------------------------
(* What a recursive function on the first numbers is: each of them has a   *)
(* step that takes the value before.                                       *)
IsStep(step, n, S) == step \in [1..n -> [S -> S]]
IsRun(f, n, S, start, step) ==
  f \in [0..n -> S] /\ f[0] = start /\ \A k \in 1..n : f[k] = step[k][f[k - 1]]

(* A recursion over the first numbers has a solution.                      *)
LEMMA RecursionExists ==
  ASSUME NEW n \in Nat, NEW S, NEW start \in S, NEW step, IsStep(step, n, S)
  PROVE  \E f : IsRun(f, n, S, start, step)
<1> DEFINE IsPart(g, m) == /\ g \in [0..m -> S]
                           /\ g[0] = start
                           /\ \A k \in 1..m : g[k] = step[k][g[k - 1]]
           T == {m \in 0..n : \E g : IsPart(g, m)}
<1>0. step \in [1..n -> [S -> S]]
  BY DEF IsStep
<1>1. 0 \in T
  <2>1. IsPart([k \in 0..0 |-> start], 0)
    OBVIOUS
  <2> HIDE DEF IsPart
  <2> QED
    BY <2>1
<1>2. ASSUME NEW m \in 1..n, m - 1 \in T PROVE m \in T
  <2>1. PICK g : IsPart(g, m - 1)
    BY <1>2
  <2> DEFINE h == [k \in 0..m |-> IF k = m THEN step[m][g[m - 1]] ELSE g[k]]
  <2>2. /\ g \in [0..(m - 1) -> S] /\ g[0] = start
        /\ \A k \in 1..(m - 1) : g[k] = step[k][g[k - 1]]
    BY <2>1
  <2>3. step[m][g[m - 1]] \in S
    BY <1>0, <2>2
  <2>4. h \in [0..m -> S] /\ h[0] = start
    BY <2>2, <2>3
  <2>5. \A k \in 1..m : h[k] = step[k][h[k - 1]]
    BY <2>2
  <2>6. IsPart(h, m)
    BY <2>4, <2>5
  <2> HIDE DEF h, IsPart
  <2> QED
    BY <2>6
<1> HIDE DEF T
<1>3. \A m \in 0..n : m \in T
  <2>1. \A m \in 1..n : m - 1 \in T => m \in T
    BY <1>2
  <2> QED
    BY <1>1, <2>1, UpTo
<1>4. n \in T
  BY <1>3
<1> QED
  BY <1>4 DEF T, IsRun

(* Sequences of elements of one kind, one behind the other.                *)
LEMMA FlattenIs ==
  ASSUME NEW S, NEW seqs \in Seq(Seq(S))
  PROVE  FlattenSeq(seqs) \in Seq(S)
<1> DEFINE n == Len(seqs)
           step == [k \in 1..n |-> [x \in Seq(S) |-> IF k = 1 THEN seqs[k] ELSE x \o seqs[k]]]
           IsFlatten(f) == f = [i \in 1..n |-> IF i = 1 THEN seqs[i] ELSE f[i - 1] \o seqs[i]]
           flatten == CHOOSE f : IsFlatten(f)
<1>1. n \in Nat /\ \A k \in 1..n : seqs[k] \in Seq(S)
  BY ElementOfSeq, LenProperties
<1>2. CASE n = 0
  BY <1>2, EmptySeq DEF FlattenSeq
<1>3. CASE n # 0
  <2>1. FlattenSeq(seqs) = flatten[n]
    BY <1>3 DEF FlattenSeq
  <2> HIDE DEF n
  <2>2. \A k \in 1..n, x \in Seq(S) : (IF k = 1 THEN seqs[k] ELSE x \o seqs[k]) \in Seq(S)
    BY <1>1, ConcatProperties
  <2>3. IsStep(step, n, Seq(S))
    BY <2>2 DEF IsStep
  <2>4. PICK f : IsRun(f, n, Seq(S), << >>, step)
    <3> HIDE DEF step
    <3> QED
      BY <1>1, <2>3, EmptySeq, RecursionExists
  <2>5. \A k \in 1..n : f[k] = IF k = 1 THEN seqs[k] ELSE f[k - 1] \o seqs[k]
    <3>1. \A k \in 1..n, x \in Seq(S) :
            step[k][x] = IF k = 1 THEN seqs[k] ELSE x \o seqs[k]
      OBVIOUS
    <3> HIDE DEF step
    <3>2. f \in [0..n -> Seq(S)] /\ \A k \in 1..n : f[k] = step[k][f[k - 1]]
      BY <2>4 DEF IsRun
    <3>3. \A k \in 1..n : f[k - 1] \in Seq(S)
      BY <1>1, <3>2
    <3> QED
      BY <3>1, <3>2, <3>3
  <2> DEFINE g == [i \in 1..n |-> f[i]]
  <2>6. IsFlatten(g)
    <3>1. \A k \in 1..n : k # 1 => g[k - 1] = f[k - 1]
      BY <1>1
    <3> QED
      BY <2>5, <3>1
  <2>7. IsFlatten(flatten)
    <3> HIDE DEF IsFlatten, g
    <3> QED
      BY <2>6
  <2> HIDE DEF flatten
  <2>8. \A k \in 1..n : flatten[k] = IF k = 1 THEN seqs[k] ELSE flatten[k - 1] \o seqs[k]
    BY <2>7
  <2> DEFINE T == {k \in 0..n : k = 0 \/ flatten[k] \in Seq(S)}
  <2>9. 0 \in T
    BY <1>1
  <2>10. \A k \in 1..n : k - 1 \in T => k \in T
    <3> SUFFICES ASSUME NEW k \in 1..n, k - 1 \in T PROVE k \in T
      OBVIOUS
    <3>1. k \in 0..n /\ seqs[k] \in Seq(S)
      BY <1>1
    <3>2. CASE k = 1
      <4>1. flatten[k] = seqs[k]
        BY <2>8, <3>2
      <4> QED
        BY <3>1, <4>1
    <3>3. CASE k # 1
      <4>1. flatten[k - 1] \in Seq(S)
        BY <3>3
      <4>2. flatten[k] = flatten[k - 1] \o seqs[k]
        BY <2>8, <3>3
      <4>3. flatten[k] \in Seq(S)
        BY <3>1, <4>1, <4>2, ConcatProperties
      <4> QED
        BY <3>1, <4>3
    <3> QED
      BY <3>2, <3>3
  <2> HIDE DEF T
  <2>11. \A k \in 0..n : k \in T
    BY <1>1, <2>9, <2>10, UpTo
  <2>12. flatten[n] \in Seq(S)
    <3>1. n \in T
      BY <1>1, <2>11
    <3> QED
      BY <1>3, <3>1 DEF T
  <2> QED
    BY <2>1, <2>12
<1> QED
  BY <1>1, <1>2, <1>3

-----------------------------------------------------------------------------
(* What is left of a text, and what a reader returns.                      *)
Buffer == Seq(0..127)

Reads(read, S) ==
  /\ read \in [ok : BOOLEAN, value : S \cup {<< >>, 0}, rest : Buffer]
  /\ read.ok => read.value \in S

(* The first characters that are among some: as many as there are.         *)
LEMMA MatchingIs ==
  ASSUME NEW S, NEW buffer \in Seq(S), NEW chars, NEW limit \in Nat
  PROVE  /\ Matching(buffer, chars, limit) \in Nat
         /\ Matching(buffer, chars, limit) <= limit
         /\ Matching(buffer, chars, limit) <= Len(buffer)
         /\ \A j \in 1..Matching(buffer, chars, limit) : buffer[j] \in chars
         /\ limit >= 1 /\ Len(buffer) >= 1 /\ buffer[1] \in chars
              => Matching(buffer, chars, limit) >= 1
<1> DEFINE n == Len(buffer)
           m == Min({limit, n})
           D == {i \in 0..m : i \in {limit, n} \/ buffer[i + 1] \notin chars}
<1>1. n \in Nat
  BY LenProperties
<1>2. m \in {limit, n} /\ m <= limit /\ m <= n /\ m \in Nat
  <2>1. \E x \in {limit, n} : \A y \in {limit, n} : x <= y
    BY <1>1
  <2>2. m \in {limit, n} /\ \A y \in {limit, n} : m <= y
    BY <2>1 DEF Min
  <2> QED
    BY <1>1, <2>2
<1> HIDE DEF m, n
<1>3. D \subseteq Nat /\ m \in D
  BY <1>1, <1>2
<1>4. PICK x \in D : \A y \in D : x <= y
  <2> HIDE DEF D
  <2> QED
    BY <1>3, LeastNumber
<1>5. Min(D) \in D /\ \A y \in D : Min(D) <= y
  <2> HIDE DEF D
  <2> QED
    BY <1>4 DEF Min
<1> DEFINE k == Min(D)
<1>6. Matching(buffer, chars, limit) = k
  BY DEF Matching, m, n
<1>7. k \in 0..m
  BY <1>5
<1>8. ASSUME NEW j \in 1..k PROVE buffer[j] \in chars
  <2> DEFINE i == j - 1
  <2>1. i \in 0..m /\ i < k /\ i + 1 = j
    BY <1>2, <1>7
  <2>2. i \notin D
    <3> HIDE DEF D
    <3>1. k \in D /\ \A y \in D : k <= y
      BY <1>5
    <3> HIDE DEF k
    <3> QED
      BY <1>2, <1>7, <2>1, <3>1
  <2> QED
    BY <2>1, <2>2
<1>9. limit >= 1 /\ n >= 1 /\ buffer[1] \in chars => k # 0
  <2> SUFFICES ASSUME limit >= 1, n >= 1, buffer[1] \in chars PROVE 0 \notin D
    BY <1>5
  <2> QED
    BY <1>1
<1> HIDE DEF k, D
<1> QED
  BY <1>1, <1>2, <1>6, <1>7, <1>8, <1>9 DEF n

(* What a step leaves.                                                     *)
LEMMA AdvanceStepIs ==
  ASSUME NEW buffer \in Buffer, NEW step \in Nat
  PROVE  AdvanceStep(buffer, step) \in Buffer
<1>1. Len(buffer) \in Nat /\ \A i \in 1..Len(buffer) : buffer[i] \in 0..127
  BY LenProperties, ElementOfSeq DEF Buffer
<1>2. \A i \in (step + 1)..Len(buffer) : buffer[i] \in 0..127
  BY <1>1
<1>3. SubSeq(buffer, step + 1, Len(buffer)) \in Seq(0..127)
  BY <1>1, <1>2, SubSeqProperties
<1> QED
  BY <1>3 DEF AdvanceStep, Buffer

(* A run of characters of one kind.                                        *)
LEMMA LexCharsReads ==
  ASSUME NEW buffer \in Buffer, NEW chars, NEW size \in Nat \ {0}
  PROVE  /\ Reads(LexChars(buffer, chars, size), Seq(chars) \ {<< >>})
         /\ LexChars(buffer, chars, size).value \in Seq(chars)
         /\ Len(LexChars(buffer, chars, size).value) \in Nat
         /\ Len(LexChars(buffer, chars, size).value) <= size - 1
         /\ LexChars(buffer, chars, size).ok
              <=> Len(LexChars(buffer, chars, size).value) > 0
<1> DEFINE n == Matching(buffer, chars, size - 1)
<1>1. /\ n \in Nat /\ n <= size - 1 /\ n <= Len(buffer)
      /\ \A j \in 1..n : buffer[j] \in chars
  BY MatchingIs DEF Buffer
<1>2. LexChars(buffer, chars, size)
        = [ok |-> n > 0, value |-> SubSeq(buffer, 1, n), rest |-> AdvanceStep(buffer, n)]
  BY DEF LexChars, Taken
<1> HIDE DEF n
<1>3. SubSeq(buffer, 1, n) \in Seq(chars) /\ Len(SubSeq(buffer, 1, n)) = n
  BY <1>1, SubSeqProperties
<1>4. AdvanceStep(buffer, n) \in Buffer
  BY <1>1, AdvanceStepIs
<1>5. n = 0 => SubSeq(buffer, 1, n) = << >>
  BY <1>3, EmptySeq
<1>6. n # 0 => SubSeq(buffer, 1, n) # << >>
  BY <1>1, <1>3, EmptySeq
<1> DEFINE r == LexChars(buffer, chars, size)
           V == Seq(chars) \ {<< >>}
           v == SubSeq(buffer, 1, n)
<1>7. v \in V \cup {<< >>, 0} /\ (n > 0 => v \in V) /\ (n > 0) \in BOOLEAN
  BY <1>1, <1>3, <1>5, <1>6
<1>8. r = [ok |-> n > 0, value |-> v, rest |-> AdvanceStep(buffer, n)]
  BY <1>2
<1> HIDE DEF r, V, v
<1>9. Reads(r, V)
  BY <1>4, <1>7, <1>8 DEF Reads
<1>10. r.value = v /\ (r.ok <=> n > 0)
  BY <1>8
<1> QED
  BY <1>1, <1>3, <1>9, <1>10 DEF r, V, v

(* A reader that worked on a copy of the buffer.                           *)
LEMMA AdvancedReads ==
  ASSUME NEW buffer \in Buffer, NEW rest \in Buffer, NEW S, NEW value,
         NEW success \in BOOLEAN, success => value \in S
  PROVE  /\ Reads(Advanced(buffer, success, value, rest), S)
         /\ Advanced(buffer, success, value, rest).ok
              => success /\ Advanced(buffer, success, value, rest).value = value
BY DEF Reads, Advanced, Failed


(* What is taken over without a condition.                                 *)
LEMMA TakenOver ==
  ASSUME NEW buffer \in Buffer, NEW rest \in Buffer, NEW S, NEW value \in S
  PROVE  Reads(Advanced(buffer, TRUE, value, rest), S)
BY DEF Reads, Advanced, Failed

-----------------------------------------------------------------------------
(* The pieces of a call number.                                            *)
NonEmpty == Text \ {<< >>}

(* Texts of some characters are texts.                                     *)
LEMMA TextsOf ==
  ASSUME NEW chars, chars \subseteq 1..127
  PROVE  Seq(chars) \subseteq Text /\ Seq(chars) \ {<< >>} \subseteq NonEmpty
<1>1. Seq(chars) \subseteq Seq(1..127)
  BY SeqMonotonic
<1> QED
  BY <1>1 DEF Text, NonEmpty

(* The sizes of the arrays leave room for a character.                     *)
LEMMA SizesAre ==
  /\ SizeOfSubclass \in Nat \ {0} /\ SizeOfInteger \in Nat \ {0}
  /\ SizeOfDigit16 \in Nat \ {0} /\ SizeOfYear \in Nat \ {0}
  /\ SizeOfMark \in Nat \ {0} /\ SizeOfWord \in Nat \ {0}
  /\ SizeOfWord - 1 \in Nat \ {0} /\ SizeOfLongword \in Nat \ {0}
  /\ 2 \in Nat \ {0} /\ 3 \in Nat \ {0} /\ 4 \in Nat \ {0}
BY DEF SizeOfSubclass, SizeOfInteger, SizeOfDigit16, SizeOfYear, SizeOfMark, SizeOfWord,
       SizeOfLongword

(* What reads one kind of value reads a wider one.                         *)
LEMMA ReadsMore ==
  ASSUME NEW read, NEW S, NEW T, Reads(read, S), S \subseteq T
  PROVE  Reads(read, T)
BY DEF Reads

(* The kinds of character are characters of texts.                         *)
LEMMA CharactersAre ==
  /\ Capitals \subseteq 1..127 /\ Smalls \subseteq 1..127 /\ Alpha \subseteq 1..127
  /\ Digits \subseteq 1..127 /\ Spaces \subseteq 1..127 /\ NotSpace \subseteq 1..127
  /\ Alpha \cup {Point} \subseteq 1..127
  /\ Point \in 1..127 /\ Comma \in 1..127
BY DEF Capitals, Smalls, Alpha, Digits, Spaces, NotSpace, Point, Comma

(* A run of characters of a text.                                          *)
LEMMA TextReads ==
  ASSUME NEW buffer \in Buffer, NEW chars, chars \subseteq 1..127, NEW size \in Nat \ {0}
  PROVE  /\ Reads(LexChars(buffer, chars, size), NonEmpty)
         /\ LexChars(buffer, chars, size).value \in Text
<1>1. /\ Reads(LexChars(buffer, chars, size), Seq(chars) \ {<< >>})
      /\ LexChars(buffer, chars, size).value \in Seq(chars)
  BY LexCharsReads, SizesAre
<1> QED
  BY <1>1, TextsOf, ReadsMore

(* The single characters and the spaces between the pieces.                *)
LEMMA CharReads ==
  ASSUME NEW buffer \in Buffer, NEW chars
  PROVE  Reads(ReadChar(buffer, chars), Seq(chars) \ {<< >>})
BY LexCharsReads, SizesAre DEF ReadChar

LEMMA RestOf ==
  ASSUME NEW read, NEW S, Reads(read, S)
  PROVE  read.ok \in BOOLEAN /\ read.rest \in Buffer
BY DEF Reads

LEMMA CharRest ==
  ASSUME NEW buffer \in Buffer
  PROVE  /\ \A chars : /\ ReadChar(buffer, chars).ok \in BOOLEAN
                       /\ ReadChar(buffer, chars).rest \in Buffer
         /\ ReadPoint(buffer).ok \in BOOLEAN /\ ReadPoint(buffer).rest \in Buffer
         /\ ReadSpace(buffer).ok \in BOOLEAN /\ ReadSpace(buffer).rest \in Buffer
<1>1. ASSUME NEW chars
      PROVE  ReadChar(buffer, chars).ok \in BOOLEAN /\ ReadChar(buffer, chars).rest \in Buffer
  BY CharReads, RestOf
<1>2. ReadPoint(buffer).ok \in BOOLEAN /\ ReadPoint(buffer).rest \in Buffer
  BY <1>1 DEF ReadPoint
<1>3. Len(buffer) + 1 \in Nat \ {0}
  BY LenProperties DEF Buffer
<1>4. Reads(ReadSpace(buffer), Seq(Spaces) \ {<< >>})
  BY <1>3, LexCharsReads DEF ReadSpace
<1> QED
  BY <1>1, <1>2, <1>4, RestOf

LEMMA PeeksAreBoolean ==
  ASSUME NEW buffer, NEW chars
  PROVE  PeekChar(buffer, chars) \in BOOLEAN /\ PeekBreak(buffer) \in BOOLEAN
BY DEF PeekChar, PeekBreak

(* ", etc." is there or not.                                               *)
LEMMA EtcReads ==
  ASSUME NEW buffer \in Buffer
  PROVE  ReadEtc(buffer).ok \in BOOLEAN /\ ReadEtc(buffer).rest \in Buffer
<1> DEFINE comma == ReadChar(buffer, {Comma})
           space == ReadSpace(comma.rest)
           word == LexChars(space.rest, Smalls, 4)
           point == ReadPoint(word.rest)
           success == comma.ok /\ space.ok /\ word.value = EtcWord /\ point.ok
<1>1. comma.ok \in BOOLEAN /\ comma.rest \in Buffer
  BY CharRest
<1>2. space.ok \in BOOLEAN /\ space.rest \in Buffer
  BY <1>1, CharRest
<1>3. word.ok \in BOOLEAN /\ word.rest \in Buffer
  BY <1>2, LexCharsReads, RestOf, SizesAre
<1>4. point.ok \in BOOLEAN /\ point.rest \in Buffer
  BY <1>3, CharRest
<1>5. ReadEtc(buffer) = Advanced(buffer, success, TRUE, point.rest)
  BY DEF ReadEtc
<1>6. success \in BOOLEAN
  BY <1>1, <1>2, <1>4
<1> HIDE DEF success, point
<1> QED
  BY <1>4, <1>5, <1>6 DEF Advanced, Failed

(* Numbers.                                                                *)
LEMMA Digit16Reads ==
  ASSUME NEW buffer \in Buffer
  PROVE  Reads(LexDigit16(buffer), NonEmpty)
BY TextReads, CharactersAre, SizesAre DEF LexDigit16

LEMMA IntegerReads ==
  ASSUME NEW buffer \in Buffer
  PROVE  Reads(LexInteger(buffer), Seq(Digits) \ {<< >>})
BY LexCharsReads, SizesAre DEF LexInteger

LEMMA DecimalReads ==
  ASSUME NEW buffer \in Buffer
  PROVE  Reads(LexDecimal(buffer), NonEmpty)
<1> DEFINE point == ReadChar(buffer, {Point, Comma})
           digits == LexDigit16(point.rest)
           success == point.ok /\ digits.ok
<1>1. point.ok \in BOOLEAN /\ point.rest \in Buffer
  BY CharRest
<1>2. Reads(digits, NonEmpty)
  BY <1>1, Digit16Reads
<1>3. /\ success \in BOOLEAN /\ digits.rest \in Buffer
      /\ success => digits.value \in NonEmpty
  BY <1>1, <1>2 DEF Reads
<1>4. LexDecimal(buffer) = Advanced(buffer, success, digits.value, digits.rest)
  BY DEF LexDecimal
<1> HIDE DEF success, digits
<1> QED
  BY <1>3, <1>4, AdvancedReads

LEMMA YearReads ==
  ASSUME NEW buffer \in Buffer
  PROVE  Reads(LexYear(buffer), Seq(Digits)) /\ Reads(LexYearAbv(buffer), Seq(Digits))
<1>1. ASSUME NEW size \in Nat \ {0}, NEW n
      PROVE  LET digits == LexChars(buffer, Digits, size)
             IN  Reads(Advanced(buffer, Len(digits.value) = n, digits.value, digits.rest),
                       Seq(Digits))
  <2> DEFINE digits == LexChars(buffer, Digits, size)
  <2>1. digits.value \in Seq(Digits) /\ digits.rest \in Buffer
    BY LexCharsReads, RestOf
  <2> HIDE DEF digits
  <2>2. Reads(Advanced(buffer, Len(digits.value) = n, digits.value, digits.rest), Seq(Digits))
    BY <2>1, AdvancedReads
  <2> QED
    BY <2>2 DEF digits
<1>2. 5 \in Nat \ {0} /\ 3 \in Nat \ {0}
  OBVIOUS
<1>3. Reads(LexYear(buffer), Seq(Digits))
  BY <1>1, <1>2 DEF LexYear, SizeOfYear
<1>4. Reads(LexYearAbv(buffer), Seq(Digits))
  BY <1>1, <1>2 DEF LexYearAbv
<1> QED
  BY <1>3, <1>4

(* Letters.                                                                *)
LEMMA WordReads ==
  ASSUME NEW buffer \in Buffer, NEW size \in Nat \ {0}
  PROVE  Reads(WordOf(buffer, size), NonEmpty)
<1> DEFINE letters == LexChars(buffer, Alpha, size)
           success == letters.ok /\ PeekBreak(letters.rest)
<1>1. Reads(letters, NonEmpty)
  BY TextReads, CharactersAre, SizesAre
<1>2. /\ success \in BOOLEAN /\ letters.rest \in Buffer
      /\ success => letters.value \in NonEmpty
  BY <1>1, PeeksAreBoolean DEF Reads
<1>3. WordOf(buffer, size) = Advanced(buffer, success, letters.value, letters.rest)
  BY DEF WordOf
<1> HIDE DEF success, letters
<1> QED
  BY <1>2, <1>3, AdvancedReads

LEMMA MarkReads ==
  ASSUME NEW buffer \in Buffer
  PROVE  Reads(LexMark(buffer), NonEmpty)
BY WordReads, SizesAre DEF LexMark

LEMMA SuffixReads ==
  ASSUME NEW buffer \in Buffer, NEW place \in {"caption", "cutter", "specification"}
  PROVE  Reads(LexOrdinalSuffix(buffer, place), Text)
<1>1. CASE place = "caption"
  <2> DEFINE letters == LexChars(buffer, Alpha, SizeOfWord)
             success == letters.ok /\ (PeekBreak(letters.rest) \/ ReadPoint(letters.rest).ok)
  <2>1. Reads(letters, NonEmpty) /\ letters.value \in Text
    BY TextReads, CharactersAre, SizesAre
  <2>2. letters.ok \in BOOLEAN /\ letters.rest \in Buffer
    BY <2>1, RestOf
  <2>3. success \in BOOLEAN
    BY <2>2, PeeksAreBoolean, CharRest
  <2>4. LexOrdinalSuffix(buffer, place) = Advanced(buffer, success, letters.value, letters.rest)
    BY <1>1 DEF LexOrdinalSuffix, LexCaptionOrdinalSuffix
  <2> HIDE DEF success, letters
  <2> QED
    BY <2>1, <2>2, <2>3, <2>4, AdvancedReads
<1>2. CASE place = "cutter"
  <2>1. Reads(WordOf(buffer, SizeOfWord), NonEmpty)
    BY WordReads, SizesAre
  <2> QED
    BY <1>2, <2>1, ReadsMore DEF LexOrdinalSuffix, LexCutterOrdinalSuffix, NonEmpty
<1>3. CASE place = "specification"
  <2> DEFINE word == LexChars(buffer, Alpha \cup {Point}, SizeOfWord)
             length == Len(word.value)
             success == /\ PeekChar(buffer, Alpha)
                        /\ \A i \in 2..length : word.value[i - 1] # Point \/ word.value[i] # Point
                        /\ IF word.value[length] = Point THEN PeekBreak(word.rest)
                           ELSE length = SizeOfWord - 1
  <2>1. Reads(word, NonEmpty) /\ word.value \in Text
    BY TextReads, CharactersAre, SizesAre
  <2>2. word.rest \in Buffer
    BY <2>1, RestOf
  <2>3. success \in BOOLEAN
    BY PeeksAreBoolean
  <2>4. LexOrdinalSuffix(buffer, place) = Advanced(buffer, success, word.value, word.rest)
    BY <1>3 DEF LexOrdinalSuffix, LexSpecificationOrdinalSuffix
  <2> HIDE DEF success, word
  <2> QED
    BY <2>1, <2>2, <2>3, <2>4, AdvancedReads
<1> QED
  BY <1>1, <1>2, <1>3

(* Capitals are characters of texts.                                       *)
LEMMA UpperIs ==
  ASSUME NEW c \in 1..127
  PROVE  Upper(c) \in 1..127
BY DEF Upper

LEMMA SubclassReads ==
  ASSUME NEW buffer \in Buffer
  PROVE  Reads(LexSubclass(buffer), Text)
<1> DEFINE letters == LexChars(buffer, Alpha, SizeOfSubclass)
           value == letters.value
           n == Len(value)
           capitals == [i \in DOMAIN value |-> Upper(value[i])]
<1>1. Reads(letters, NonEmpty) /\ value \in Text
  BY TextReads, CharactersAre, SizesAre
<1>2. LexSubclass(buffer) = [letters EXCEPT !.value = capitals]
  BY DEF LexSubclass
<1> HIDE DEF letters, value
<1>3. n \in Nat /\ DOMAIN value = 1..n /\ \A i \in 1..n : value[i] \in 1..127
  BY <1>1, LenProperties, ElementOfSeq DEF Text
<1> HIDE DEF n
<1>4. DOMAIN capitals = 1..n /\ \A i \in 1..n : capitals[i] \in 1..127
  BY <1>3, UpperIs
<1>5. capitals = [i \in 1..n |-> capitals[i]]
  BY <1>3
<1> HIDE DEF capitals
<1>6. capitals \in Text
  <2>1. n \in Nat /\ \A i \in 1..n : capitals[i] \in 1..127
    BY <1>3, <1>4
  <2>2. capitals \in Seq(1..127)
    BY <1>4, <1>5, <2>1, AreElements
  <2> QED
    BY <2>2, Zenon DEF Text
<1> QED
  BY <1>1, <1>2, <1>6 DEF Reads

LEMMA InitialReads ==
  ASSUME NEW buffer \in Buffer
  PROVE  Reads(LexInitial(buffer), 1..127)
<1> DEFINE letter == ReadChar(buffer, Alpha)
<1>1. Reads(letter, NonEmpty)
  BY TextReads, CharactersAre, SizesAre DEF ReadChar
<1>2. letter.ok => Upper(letter.value[1]) \in 1..127
  <2> SUFFICES ASSUME letter.ok PROVE letter.value[1] \in 1..127
    BY UpperIs
  <2>1. letter.value \in Seq(1..127) /\ letter.value # << >>
    BY <1>1 DEF Reads, NonEmpty, Text
  <2> HIDE DEF letter
  <2>2. 1 \in 1..Len(letter.value)
    BY <2>1, EmptySeq
  <2> QED
    BY <2>1, <2>2, ElementOfSeq
<1>3. LexInitial(buffer)
        = [letter EXCEPT !.value = IF letter.ok THEN Upper(letter.value[1]) ELSE 0]
  BY DEF LexInitial
<1> HIDE DEF letter
<1> QED
  BY <1>1, <1>2, <1>3 DEF Reads

LEMMA VolumePrefixReads ==
  ASSUME NEW buffer \in Buffer
  PROVE  Reads(LexVolumePrefix(buffer), NonEmpty)
<1> DEFINE letters == LexChars(buffer, Smalls, SizeOfWord)
           point == ReadPoint(letters.rest)
           success == letters.ok /\ point.ok
<1>1. Reads(letters, NonEmpty)
  BY TextReads, CharactersAre, SizesAre
<1>2. letters.ok \in BOOLEAN /\ letters.rest \in Buffer
  BY <1>1, RestOf
<1>3. point.ok \in BOOLEAN /\ point.rest \in Buffer
  BY <1>2, CharRest
<1>4. success \in BOOLEAN /\ (success => letters.value \in NonEmpty)
  BY <1>1, <1>2, <1>3 DEF Reads
<1>5. LexVolumePrefix(buffer) = Advanced(buffer, success, letters.value, point.rest)
  BY DEF LexVolumePrefix
<1> HIDE DEF success, letters, point
<1> QED
  BY <1>3, <1>4, <1>5, AdvancedReads

(* Texts put together.                                                     *)
LEMMA TextsTogether ==
  ASSUME NEW s \in Text, NEW t \in Text
  PROVE  s \o t \in Text /\ (s # << >> => s \o t \in NonEmpty)
BY ConcatProperties, ConcatEqualIffEmpty DEF Text, NonEmpty

LEMMA SupplementPrefixReads ==
  ASSUME NEW buffer \in Buffer
  PROVE  Reads(LexSupplementPrefix(buffer), NonEmpty)
<1> DEFINE capital == ReadChar(buffer, Capitals)
           letters == LexChars(capital.rest, Smalls, SizeOfWord - 1)
           value == capital.value \o letters.value
<1>1. Reads(capital, NonEmpty) /\ capital.value \in Text
  BY TextReads, CharactersAre, SizesAre DEF ReadChar
<1>2. capital.ok \in BOOLEAN /\ capital.rest \in Buffer
  BY <1>1, RestOf
<1>3. Reads(letters, NonEmpty) /\ letters.value \in Text
  BY <1>2, TextReads, CharactersAre, SizesAre
<1>4. LexSupplementPrefix(buffer) = Advanced(buffer, capital.ok, value, letters.rest)
  BY DEF LexSupplementPrefix
<1>5. letters.rest \in Buffer
  BY <1>3, RestOf
<1> HIDE DEF capital, letters
<1>6. capital.ok => value \in NonEmpty
  <2> SUFFICES ASSUME capital.ok PROVE value \in NonEmpty
    OBVIOUS
  <2>1. capital.value # << >>
    BY <1>1 DEF Reads, NonEmpty
  <2> QED
    BY <1>1, <1>3, <2>1, TextsTogether
<1> HIDE DEF value
<1> QED
  BY <1>2, <1>4, <1>5, <1>6, AdvancedReads

LEMMA LongwordReads ==
  ASSUME NEW buffer \in Buffer
  PROVE  Reads(LexLongword(buffer), NonEmpty)
BY TextReads, CharactersAre, SizesAre DEF LexLongword


-----------------------------------------------------------------------------
(* The parts of a call number, as the parser leaves them.                  *)
MonthAndDay == [month : 1..12, day : 0..99]
OtherYear == [separator : Text, span : Seq(Digits)]

ReadSpan ==
  [kind : {"date"}, form : {"span"}, year : Seq(Digits), separator : Text,
   span : Seq(Digits), mark : Text]
ReadDay ==
  [kind : {"date"}, form : {"day"}, year : Seq(Digits), month : 1..12, day : 0..99,
   mark : Text]
ReadYear == [kind : {"date"}, form : {"year"}, year : Seq(Digits), mark : Text]
ReadDate == ReadSpan \cup ReadDay \cup ReadYear
ReadDateord == Missing \cup ReadDate \cup OrdinalNumber
ReadCuttseg == [letter : 0..127, number : Text, mark : Text, dateord : ReadDateord]
ReadVolume ==
  [kind : {"volume"}, prefix : NonEmpty, number : NonEmpty, hasetc : BOOLEAN]
ReadSupplement ==
  [kind : {"supplement"}, prefix : NonEmpty, number : NonEmpty, hasetc : BOOLEAN,
   isabbr : BOOLEAN]
ReadSpecification == ReadDateord \cup WordText \cup ReadVolume \cup ReadSupplement
ReadCalln ==
  [letters : Text, integer : Seq(Digits), decimal : Text, dateord : ReadDateord,
   cutters : [1..3 -> ReadCuttseg], specifications : [1..2 -> ReadSpecification],
   remainder : Seq(ReadSpecification)]

(* A number with one more digit.                                           *)
LEMMA OneMoreDigit ==
  ASSUME NEW x \in Nat, NEW d \in 48..57
  PROVE  /\ 10 * x + d - 48 \in Nat
         /\ x = 0 => 10 * x + d - 48 \in 0..9
         /\ x \in 0..9 => 10 * x + d - 48 \in 0..99
OBVIOUS

(* The number that digits stand for.                                       *)
LEMMA NumberIs ==
  ASSUME NEW digits \in Seq(Digits)
  PROVE  /\ NumberOf(digits) \in Nat
         /\ Len(digits) <= 2 => NumberOf(digits) \in 0..99
<1> DEFINE n == Len(digits)
           step == [k \in 1..n |-> [x \in Nat |-> 10 * x + digits[k] - 48]]
           IsNumber(f) == f = [i \in 0..n |-> IF i = 0 THEN 0
                                              ELSE 10 * f[i - 1] + digits[i] - 48]
           value == CHOOSE f : IsNumber(f)
<1>1. n \in Nat
  BY LenProperties
<1>2. \A k \in 1..n : digits[k] \in 48..57
  BY ElementOfSeq DEF Digits
<1> HIDE DEF n
<1>3. IsStep(step, n, Nat)
  <2>1. \A k \in 1..n, x \in Nat : 10 * x + digits[k] - 48 \in Nat
    BY <1>2
  <2> QED
    BY <2>1 DEF IsStep
<1>4. PICK f : IsRun(f, n, Nat, 0, step)
  <2> HIDE DEF step
  <2> QED
    BY <1>1, <1>3, RecursionExists
<1>5. f \in [0..n -> Nat] /\ f[0] = 0 /\ \A k \in 1..n : f[k] = 10 * f[k - 1] + digits[k] - 48
  <2>1. \A k \in 1..n, x \in Nat : step[k][x] = 10 * x + digits[k] - 48
    OBVIOUS
  <2> HIDE DEF step
  <2>2. f \in [0..n -> Nat] /\ f[0] = 0 /\ \A k \in 1..n : f[k] = step[k][f[k - 1]]
    BY <1>4 DEF IsRun
  <2>3. \A k \in 1..n : f[k - 1] \in Nat
    BY <1>1, <2>2
  <2> QED
    BY <2>1, <2>2, <2>3
<1>6. IsNumber(f)
  BY <1>5
<1>7. IsNumber(value)
  <2> HIDE DEF IsNumber
  <2> QED
    BY <1>6
<1>8. NumberOf(digits) = value[n]
  BY DEF NumberOf, n
<1> HIDE DEF value
<1>9. value[0] = 0 /\ \A k \in 1..n : value[k] = 10 * value[k - 1] + digits[k] - 48
  BY <1>1, <1>7
<1>10. \A k \in 0..n : value[k] \in Nat
  <2> DEFINE T == {k \in 0..n : value[k] \in Nat}
  <2>1. 0 \in T
    BY <1>1, <1>9
  <2>2. \A k \in 1..n : k - 1 \in T => k \in T
    <3> SUFFICES ASSUME NEW k \in 1..n, k - 1 \in T PROVE k \in T
      OBVIOUS
    <3>1. value[k - 1] \in Nat /\ digits[k] \in 48..57
      BY <1>2
    <3>2. value[k] = 10 * value[k - 1] + digits[k] - 48
      BY <1>9
    <3>3. value[k] \in Nat
      BY <3>1, <3>2, OneMoreDigit
    <3> QED
      BY <1>1, <3>3
  <2> HIDE DEF T
  <2>3. \A k \in 0..n : k \in T
    BY <1>1, <2>1, <2>2, UpTo
  <2> QED
    BY <2>3 DEF T
<1>11. n <= 2 => value[n] \in 0..99
  <2>1. CASE n = 0
    BY <1>9, <2>1
  <2>2. CASE n = 1
    <3>1. 1 \in 1..n /\ 1 - 1 = 0
      BY <2>2
    <3>2. value[1] = 10 * value[0] + digits[1] - 48 /\ digits[1] \in 48..57
      BY <1>2, <1>9, <3>1
    <3>3. value[0] \in Nat /\ value[0] = 0
      BY <1>9
    <3>4. value[1] \in 0..9
      BY <3>2, <3>3, OneMoreDigit
    <3> QED
      BY <2>2, <3>4
  <2>3. CASE n = 2
    <3>1. 1 \in 1..n /\ 2 \in 1..n /\ 1 - 1 = 0 /\ 2 - 1 = 1
      BY <2>3
    <3>2. value[1] = 10 * value[0] + digits[1] - 48 /\ digits[1] \in 48..57
      BY <1>2, <1>9, <3>1
    <3>3. value[2] = 10 * value[1] + digits[2] - 48 /\ digits[2] \in 48..57
      BY <1>2, <1>9, <3>1
    <3>4. value[0] \in Nat /\ value[0] = 0
      BY <1>9
    <3>5. value[1] \in 0..9
      BY <3>2, <3>4, OneMoreDigit
    <3>6. value[1] \in Nat
      BY <3>5
    <3>7. value[2] \in 0..99
      BY <3>3, <3>5, <3>6, OneMoreDigit
    <3> QED
      BY <2>3, <3>7
  <2> QED
    BY <1>1, <2>1, <2>2, <2>3
<1> QED
  BY <1>1, <1>8, <1>10, <1>11 DEF n

(* The number of a month.                                                  *)
LEMMA MonthIs ==
  ASSUME NEW name
  PROVE  MonthNamed(name) \in 0..12
<1> DEFINE D == {0} \cup {i \in DOMAIN Months : Months[i] = name}
<1>1. DOMAIN Months = 1..12
  BY DEF Months
<1>2. D \subseteq 0..12 /\ D # {}
  BY <1>1
<1> HIDE DEF D
<1>3. Max(D) \in D
  BY <1>2, BoundsAre
<1> QED
  BY <1>2, <1>3 DEF MonthNamed, D

LEMMA MonthReads ==
  ASSUME NEW buffer \in Buffer
  PROVE  Reads(ParseMonth(buffer), 1..12)
<1> DEFINE capital == ReadChar(buffer, Capitals)
           letters == LexChars(capital.rest, Smalls, 4)
           month == MonthNamed(capital.value \o letters.value)
           success == capital.ok /\ month # 0 /\ PeekChar(letters.rest, DateBreaks)
<1>1. capital.ok \in BOOLEAN /\ capital.rest \in Buffer
  BY CharRest
<1>2. letters.rest \in Buffer
  BY <1>1, LexCharsReads, RestOf, SizesAre
<1>3. month \in 0..12
  BY MonthIs
<1>4. ParseMonth(buffer) = Advanced(buffer, success, month, letters.rest)
  BY DEF ParseMonth
<1>5. success \in BOOLEAN /\ (success => month \in 1..12)
  BY <1>1, <1>3, PeeksAreBoolean
<1> HIDE DEF success, month, letters
<1> QED
  BY <1>2, <1>4, <1>5, AdvancedReads

-----------------------------------------------------------------------------
(* Dates.                                                                  *)

(* The month and day of a year.                                            *)
LEMMA DateDateReads ==
  ASSUME NEW buffer \in Buffer
  PROVE  Reads(ParseDateDate(buffer), MonthAndDay)
<1> DEFINE comma == ReadChar(buffer, {Comma})
           space == ReadSpace(comma.rest)
           month == ParseMonth(space.rest)
           point == ReadPoint(month.rest)
           gap == ReadSpace(point.rest)
           digits == LexChars(gap.rest, Digits, 3)
           day == IF (point.ok \/ gap.ok) /\ digits.ok /\ PeekChar(digits.rest, DateBreaks)
                  THEN NumberOf(digits.value) ELSE 0
           rest == IF day \in 1..31 THEN digits.rest ELSE point.rest
           value == [month |-> month.value, day |-> day]
           success == space.ok /\ month.ok
<1>1. comma.rest \in Buffer
  BY CharRest
<1>2. space.ok \in BOOLEAN /\ space.rest \in Buffer
  BY <1>1, CharRest
<1>3. Reads(month, 1..12)
  BY <1>2, MonthReads
<1>4. /\ month.ok \in BOOLEAN /\ month.rest \in Buffer
      /\ month.ok => month.value \in 1..12
  BY <1>3 DEF Reads
<1>5. point.rest \in Buffer
  BY <1>4, CharRest
<1>6. gap.rest \in Buffer
  BY <1>5, CharRest
<1>7. digits.value \in Seq(Digits) /\ Len(digits.value) <= 2 /\ digits.rest \in Buffer
  <2>1. /\ digits.value \in Seq(Digits) /\ Len(digits.value) \in Nat
        /\ Len(digits.value) <= 3 - 1 /\ Reads(digits, Seq(Digits) \ {<< >>})
    BY <1>6, LexCharsReads, SizesAre
  <2> HIDE DEF digits
  <2> QED
    BY <2>1, RestOf
<1>8. ParseDateDate(buffer) = Advanced(buffer, success, value, rest)
  BY DEF ParseDateDate
<1> HIDE DEF comma, space, month, point, gap, digits
<1>9. day \in 0..99
  <2>1. NumberOf(digits.value) \in 0..99
    BY <1>7, NumberIs
  <2> QED
    BY <2>1
<1>10. rest \in Buffer
  BY <1>5, <1>7
<1>11. success \in BOOLEAN
  BY <1>2, <1>4
<1>12. success => value \in MonthAndDay
  BY <1>4, <1>9 DEF MonthAndDay
<1> HIDE DEF success, value, rest
<1> QED
  BY <1>8, <1>10, <1>11, <1>12, AdvancedReads

LEMMA FirstOfReads ==
  ASSUME NEW S, NEW read, NEW other, Reads(read, S), Reads(other, S)
  PROVE  Reads(FirstOf(read, other), S)
BY DEF FirstOf

(* The other end of a span.                                                *)
LEMMA SpanReads ==
  ASSUME NEW buffer \in Buffer
  PROVE  Reads(ParseDateSpan(buffer), OtherYear)
<1> DEFINE separator == ReadChar(buffer, {Dash, Slash})
           year == LexYear(separator.rest)
           abbreviated == LexYearAbv(separator.rest)
           span == IF year.ok THEN year ELSE abbreviated
           value == [separator |-> separator.value, span |-> span.value]
           success == separator.ok /\ span.ok
<1>1. {Dash, Slash} \subseteq 1..127
  BY DEF Dash, Slash
<1>2. Reads(separator, NonEmpty) /\ separator.value \in Text
  BY <1>1, TextReads, SizesAre DEF ReadChar
<1>3. separator.ok \in BOOLEAN /\ separator.rest \in Buffer
  BY <1>2, RestOf
<1>4. Reads(year, Seq(Digits)) /\ Reads(abbreviated, Seq(Digits))
  BY <1>3, YearReads
<1>5. ParseDateSpan(buffer) = Advanced(buffer, success, value, span.rest)
  BY DEF ParseDateSpan
<1> HIDE DEF separator, year, abbreviated
<1>6. Reads(span, Seq(Digits))
  BY <1>4
<1> HIDE DEF span
<1>7. /\ success \in BOOLEAN /\ span.rest \in Buffer
      /\ success => value \in OtherYear
  BY <1>2, <1>3, <1>6 DEF Reads, OtherYear
<1> HIDE DEF success, value
<1> QED
  BY <1>5, <1>7, AdvancedReads

LEMMA NoText == << >> \in Text
BY EmptySeq DEF Text

LEMMA DateOfReads ==
  ASSUME NEW buffer \in Buffer, NEW year, Reads(year, Seq(Digits)),
         NEW span, Reads(span, OtherYear),
         NEW date, Reads(date, MonthAndDay),
         NEW mark, Reads(mark, Text)
  PROVE  Reads(DateOf(buffer, year, span, date, mark), ReadDate)
<1> DEFINE m == ValueOr(mark, << >>)
           d1 == [kind |-> "date", form |-> "span", year |-> year.value,
                  separator |-> span.value.separator, span |-> span.value.span, mark |-> m]
           d2 == [kind |-> "date", form |-> "day", year |-> year.value,
                  month |-> date.value.month, day |-> date.value.day, mark |-> << >>]
           d3 == [kind |-> "date", form |-> "year", year |-> year.value, mark |-> m]
<1>1. m \in Text
  BY NoText DEF Reads, ValueOr
<1>2. mark.rest \in Buffer /\ date.rest \in Buffer
  BY DEF Reads
<1>3. CASE ~year.ok
  <2>1. DateOf(buffer, year, span, date, mark) = Failed(buffer)
    BY <1>3 DEF DateOf
  <2> QED
    BY <2>1 DEF Reads, Failed
<1>4. CASE year.ok /\ span.ok
  <2>1. DateOf(buffer, year, span, date, mark) = Advanced(buffer, TRUE, d1, mark.rest)
    BY <1>4 DEF DateOf
  <2>2. d1 \in ReadSpan
    BY <1>1, <1>4 DEF Reads, ReadSpan, OtherYear
  <2>3. d1 \in ReadDate
    BY <2>2 DEF ReadDate
  <2> HIDE DEF d1
  <2> QED
    BY <1>2, <2>1, <2>3, TakenOver
<1>5. CASE year.ok /\ ~span.ok /\ date.ok
  <2>1. DateOf(buffer, year, span, date, mark) = Advanced(buffer, TRUE, d2, date.rest)
    BY <1>5 DEF DateOf
  <2>2. d2 \in ReadDay
    BY <1>5, NoText DEF Reads, ReadDay, MonthAndDay
  <2>3. d2 \in ReadDate
    BY <2>2 DEF ReadDate
  <2> HIDE DEF d2
  <2> QED
    BY <1>2, <2>1, <2>3, TakenOver
<1>6. CASE year.ok /\ ~span.ok /\ ~date.ok
  <2>1. DateOf(buffer, year, span, date, mark) = Advanced(buffer, TRUE, d3, mark.rest)
    BY <1>6 DEF DateOf
  <2>2. d3 \in ReadYear
    BY <1>1, <1>6 DEF Reads, ReadYear
  <2>3. d3 \in ReadDate
    BY <2>2 DEF ReadDate
  <2> HIDE DEF d3
  <2> QED
    BY <1>2, <2>1, <2>3, TakenOver
<1>7. year.ok \in BOOLEAN /\ span.ok \in BOOLEAN /\ date.ok \in BOOLEAN
  BY DEF Reads
<1> QED
  BY <1>3, <1>4, <1>5, <1>6, <1>7

LEMMA DateReads ==
  ASSUME NEW buffer \in Buffer
  PROVE  Reads(ParseDate(buffer), ReadDate)
<1> DEFINE year == LexYear(buffer)
           span == ParseDateSpan(year.rest)
           date == ParseDateDate(year.rest)
           mark == LexMark(span.rest)
<1>1. Reads(year, Seq(Digits)) /\ year.rest \in Buffer
  BY YearReads, RestOf
<1>2. Reads(span, OtherYear) /\ span.rest \in Buffer
  BY <1>1, SpanReads, RestOf
<1>3. Reads(date, MonthAndDay)
  BY <1>1, DateDateReads
<1>4. Reads(mark, Text)
  BY <1>2, MarkReads, ReadsMore DEF NonEmpty
<1>5. ParseDate(buffer) = DateOf(buffer, year, span, date, mark)
  BY DEF ParseDate
<1> HIDE DEF year, span, date, mark
<1> QED
  BY <1>1, <1>2, <1>3, <1>4, <1>5, DateOfReads

-----------------------------------------------------------------------------
(* Numbers with a word before or behind them.                              *)
Places == {"caption", "cutter", "specification"}

LEMMA OrdinalReads ==
  ASSUME NEW buffer \in Buffer, NEW place \in Places
  PROVE  Reads(ParseOrdinal(buffer, place), OrdinalNumber)
<1> DEFINE digits == LexDigit16(buffer)
           suffix == LexOrdinalSuffix(digits.rest, place)
           value == [kind |-> "ordinal", number |-> digits.value, suffix |-> suffix.value]
           success == digits.ok /\ suffix.ok
<1>1. Reads(digits, NonEmpty) /\ digits.rest \in Buffer
  BY Digit16Reads, RestOf
<1>2. Reads(suffix, Text)
  BY <1>1, SuffixReads DEF Places
<1>3. ParseOrdinal(buffer, place) = Advanced(buffer, success, value, suffix.rest)
  BY DEF ParseOrdinal
<1> HIDE DEF digits, suffix
<1>4. /\ success \in BOOLEAN /\ suffix.rest \in Buffer
      /\ success => value \in OrdinalNumber
  BY <1>1, <1>2 DEF Reads, OrdinalNumber, NonEmpty
<1> HIDE DEF success, value
<1> QED
  BY <1>3, <1>4, AdvancedReads

LEMMA DateordReads ==
  ASSUME NEW buffer \in Buffer, NEW place \in Places
  PROVE  Reads(ParseDateord(buffer, place), ReadDateord)
<1>1. Reads(ParseDate(buffer), ReadDateord)
  BY DateReads, ReadsMore DEF ReadDateord
<1>2. Reads(ParseOrdinal(buffer, place), ReadDateord)
  BY OrdinalReads, ReadsMore DEF ReadDateord
<1> QED
  BY <1>1, <1>2, FirstOfReads DEF ParseDateord

LEMMA BehindReads ==
  ASSUME NEW space, space.ok \in BOOLEAN, NEW S, NEW read, Reads(read, S)
  PROVE  Reads(Behind(space, read), S)
BY DEF Reads, Behind

LEMMA EndingWordReads ==
  ASSUME NEW S, NEW read, Reads(read, S)
  PROVE  Reads(EndingWord(read), S)
BY PeeksAreBoolean DEF Reads, EndingWord

(* A volume and its prefix.                                                *)
LEMMA VolumeReads ==
  ASSUME NEW buffer \in Buffer
  PROVE  Reads(ParseVolume(buffer), ReadVolume)
<1> DEFINE prefix == LexVolumePrefix(buffer)
           space == ReadSpace(prefix.rest)
           digits == LexDigit16(space.rest)
           etc == ReadEtc(digits.rest)
           value == [kind |-> "volume", prefix |-> prefix.value, number |-> digits.value,
                     hasetc |-> etc.ok]
           success == prefix.ok /\ digits.ok
<1>1. Reads(prefix, NonEmpty) /\ prefix.rest \in Buffer
  BY VolumePrefixReads, RestOf
<1>2. space.rest \in Buffer
  BY <1>1, CharRest
<1>3. Reads(digits, NonEmpty) /\ digits.rest \in Buffer
  BY <1>2, Digit16Reads, RestOf
<1>4. etc.ok \in BOOLEAN /\ etc.rest \in Buffer
  BY <1>3, EtcReads
<1>5. ParseVolume(buffer) = Advanced(buffer, success, value, etc.rest)
  BY DEF ParseVolume
<1> HIDE DEF prefix, space, digits, etc
<1>6. success \in BOOLEAN /\ (success => value \in ReadVolume)
  BY <1>1, <1>3, <1>4 DEF Reads, ReadVolume
<1> HIDE DEF success, value
<1> QED
  BY <1>4, <1>5, <1>6, AdvancedReads

(* A supplement and its prefix.                                            *)
LEMMA SupplementReads ==
  ASSUME NEW buffer \in Buffer
  PROVE  Reads(ParseSupplement(buffer), ReadSupplement)
<1> DEFINE prefix == LexSupplementPrefix(buffer)
           point == ReadPoint(prefix.rest)
           space == ReadSpace(point.rest)
           digits == LexDigit16(space.rest)
           etc == ReadEtc(digits.rest)
           value == [kind |-> "supplement", prefix |-> prefix.value,
                     number |-> digits.value, hasetc |-> etc.ok, isabbr |-> point.ok]
           success == prefix.ok /\ space.ok /\ digits.ok
<1>1. Reads(prefix, NonEmpty) /\ prefix.rest \in Buffer
  BY SupplementPrefixReads, RestOf
<1>2. point.ok \in BOOLEAN /\ point.rest \in Buffer
  BY <1>1, CharRest
<1>3. space.ok \in BOOLEAN /\ space.rest \in Buffer
  BY <1>2, CharRest
<1>4. Reads(digits, NonEmpty) /\ digits.rest \in Buffer
  BY <1>3, Digit16Reads, RestOf
<1>5. etc.ok \in BOOLEAN /\ etc.rest \in Buffer
  BY <1>4, EtcReads
<1>6. ParseSupplement(buffer) = Advanced(buffer, success, value, etc.rest)
  BY DEF ParseSupplement
<1> HIDE DEF prefix, point, space, digits, etc
<1>7. success \in BOOLEAN /\ (success => value \in ReadSupplement)
  BY <1>1, <1>2, <1>3, <1>4, <1>5 DEF Reads, ReadSupplement
<1> HIDE DEF success, value
<1> QED
  BY <1>5, <1>6, <1>7, AdvancedReads

-----------------------------------------------------------------------------
(* Cutters.                                                                *)

(* What takes in a part of the kind it has room for stays of its kind.     *)
LEMMA ThenReads ==
  ASSUME NEW S, NEW T, NEW part, NEW read, Reads(read, S), NEW next, Reads(next, T),
         \A v \in S, x \in T : [v EXCEPT ![part] = x] \in S
  PROVE  Reads(Then(read, part, next), S)
<1>1. CASE ~(read.ok /\ next.ok)
  BY <1>1 DEF Then
<1>2. CASE read.ok /\ next.ok
  <2> DEFINE v == [read.value EXCEPT ![part] = next.value]
  <2>1. v \in S
    BY <1>2 DEF Reads
  <2>2. Then(read, part, next) = [read EXCEPT !.value = v, !.rest = next.rest]
    BY <1>2 DEF Then
  <2> HIDE DEF v
  <2> QED
    BY <2>1, <2>2 DEF Reads
<1> QED
  BY <1>1, <1>2

LEMMA WithDateordReads ==
  ASSUME NEW place \in Places, NEW S, NEW read, Reads(read, S),
         \A v \in S, x \in ReadDateord : [v EXCEPT !["dateord"] = x] \in S
  PROVE  Reads(WithDateord(read, place), S)
<1> DEFINE space == ReadSpace(read.rest)
           next == ParseDateord(space.rest, place)
<1>1. space.ok \in BOOLEAN /\ space.rest \in Buffer
  BY RestOf, CharRest
<1>2. Reads(next, ReadDateord)
  BY <1>1, DateordReads
<1>3. WithDateord(read, place) = Then(read, "dateord", Behind(space, next))
  BY DEF WithDateord
<1> HIDE DEF space, next
<1> DEFINE behind == Behind(space, next)
<1>4. Reads(behind, ReadDateord)
  BY <1>1, <1>2, BehindReads
<1> HIDE DEF behind
<1>5. Reads(Then(read, "dateord", behind), S)
  BY <1>4, ThenReads, Zenon
<1> QED
  BY <1>3, <1>5 DEF behind

LEMMA NoPart == None \in ReadDateord
BY DEF None, ReadDateord, Missing

LEMMA CutterReads ==
  ASSUME NEW buffer \in Buffer
  PROVE  Reads(ParseCutter(buffer), ReadCuttseg)
<1> DEFINE letter == LexInitial(buffer)
           digits == LexDigit16(letter.rest)
           mark == LexMark(digits.rest)
           hasMark == digits.ok /\ Len(mark.value) > 1
           value == [letter |-> letter.value, number |-> digits.value,
                     mark |-> IF hasMark THEN mark.value ELSE << >>, dateord |-> None]
           rest == IF hasMark THEN mark.rest ELSE digits.rest
           success == letter.ok /\ (digits.ok \/ PeekChar(digits.rest, Stops))
<1>1. Reads(letter, 1..127) /\ letter.rest \in Buffer
  BY InitialReads, RestOf
<1>2. /\ Reads(digits, NonEmpty) /\ digits.value \in Text /\ digits.rest \in Buffer
  BY <1>1, Digit16Reads, RestOf, TextReads, SizesAre, CharactersAre DEF LexDigit16
<1>3. Reads(mark, NonEmpty) /\ mark.rest \in Buffer
  BY <1>2, MarkReads, RestOf
<1>4. ParseCutter(buffer) = Advanced(buffer, success, value, rest)
  BY DEF ParseCutter
<1>5. mark.ok \/ mark.value = << >>
  BY DEF LexMark, WordOf, Advanced, Failed
<1> HIDE DEF letter, digits, mark
<1>6. mark.value \in Text
  BY <1>3, <1>5, NoText DEF Reads, NonEmpty
<1>7. rest \in Buffer /\ success \in BOOLEAN
  BY <1>1, <1>2, <1>3, PeeksAreBoolean DEF Reads
<1>8. success => value \in ReadCuttseg
  BY <1>1, <1>2, <1>6, NoPart, NoText DEF Reads, ReadCuttseg
<1> HIDE DEF success, value, rest
<1> QED
  BY <1>4, <1>7, <1>8, AdvancedReads

LEMMA CuttsegReads ==
  ASSUME NEW buffer \in Buffer
  PROVE  Reads(ParseCuttseg(buffer), ReadCuttseg)
<1>1. \A v \in ReadCuttseg, x \in ReadDateord : [v EXCEPT !["dateord"] = x] \in ReadCuttseg
  BY DEF ReadCuttseg
<1>2. "cutter" \in Places
  BY DEF Places
<1> QED
  BY <1>1, <1>2, CutterReads, WithDateordReads DEF ParseCuttseg

(* The list of cutters while it is read.                                   *)
CutterList == [segs : Seq(ReadCuttseg), rest : Buffer, stop : BOOLEAN, ok : BOOLEAN]

LEMMA AddCuttsegIs ==
  ASSUME NEW list \in CutterList, NEW apart \in BOOLEAN, NEW rest \in Buffer,
         NEW seg, Reads(seg, ReadCuttseg)
  PROVE  AddCuttseg(list, apart, rest, seg) \in CutterList
<1> DEFINE must == list.segs # << >> /\ NeedsSpaceAfter(Last(list.segs)) /\ ~apart
           ended == list.segs # << >> \/ PeekBreak(rest)
           breaks == PeekBreak(rest)
           longer == Append(list.segs, seg.value)
<1>1. breaks \in BOOLEAN /\ ended \in BOOLEAN
  BY PeeksAreBoolean
<1>2. seg.ok => longer \in Seq(ReadCuttseg) /\ seg.rest \in Buffer
  BY AppendProperties DEF Reads, CutterList
<1>3. AddCuttseg(list, apart, rest, seg)
        = IF list.stop THEN list
          ELSE IF must THEN [list EXCEPT !.stop = TRUE, !.ok = breaks]
          ELSE IF seg.ok THEN [list EXCEPT !.segs = longer, !.rest = seg.rest]
          ELSE [list EXCEPT !.stop = TRUE, !.ok = ended]
  BY DEF AddCuttseg
<1> HIDE DEF must, ended, breaks, longer
<1> QED
  BY <1>1, <1>2, <1>3 DEF CutterList

LEMMA NextCuttsegIs ==
  ASSUME NEW list \in CutterList
  PROVE  ParseNextCuttseg(list) \in CutterList
<1> DEFINE space == IF list.segs = << >> THEN Failed(list.rest) ELSE ReadSpace(list.rest)
           point == ReadPoint(space.rest)
           seg == ParseCuttseg(point.rest)
<1>1. list.rest \in Buffer
  BY DEF CutterList
<1>2. space.ok \in BOOLEAN /\ space.rest \in Buffer
  BY <1>1, CharRest DEF Failed
<1>3. point.ok \in BOOLEAN /\ point.rest \in Buffer
  BY <1>2, CharRest
<1>4. Reads(seg, ReadCuttseg)
  BY <1>3, CuttsegReads
<1>5. ParseNextCuttseg(list) = AddCuttseg(list, space.ok \/ point.ok, point.rest, seg)
  BY DEF ParseNextCuttseg
<1> DEFINE apart == space.ok \/ point.ok
<1>6. apart \in BOOLEAN
  BY <1>2, <1>3
<1> HIDE DEF apart, space, point, seg
<1>7. AddCuttseg(list, apart, point.rest, seg) \in CutterList
  BY <1>3, <1>4, <1>6, AddCuttsegIs
<1> QED
  BY <1>5, <1>7 DEF apart

LEMMA NoCutterIs == NoCutter \in ReadCuttseg
BY NoPart, NoText DEF NoCutter, ReadCuttseg

LEMMA CuttersOfReads ==
  ASSUME NEW buffer \in Buffer, NEW list \in CutterList
  PROVE  Reads(CuttersOf(buffer, list), [1..3 -> ReadCuttseg])
<1> DEFINE Cutter(k) == IF k \in DOMAIN list.segs THEN list.segs[k] ELSE NoCutter
           value == <<Cutter(1), Cutter(2), Cutter(3)>>
<1>1. list.ok \in BOOLEAN /\ list.rest \in Buffer /\ list.segs \in Seq(ReadCuttseg)
  BY DEF CutterList
<1>2. \A k : Cutter(k) \in ReadCuttseg
  BY <1>1, ElementOfSeq, NoCutterIs
<1>3. CuttersOf(buffer, list) = Advanced(buffer, list.ok, value, list.rest)
  BY DEF CuttersOf
<1> HIDE DEF Cutter
<1>4. value \in [1..3 -> ReadCuttseg]
  BY <1>2
<1> HIDE DEF value
<1> QED
  BY <1>1, <1>3, <1>4, AdvancedReads

LEMMA CuttsegListReads ==
  ASSUME NEW buffer \in Buffer
  PROVE  Reads(ParseCuttsegList(buffer), [1..3 -> ReadCuttseg])
<1> DEFINE start == [segs |-> << >>, rest |-> ReadPoint(buffer).rest,
                     stop |-> FALSE, ok |-> TRUE]
           first == ParseNextCuttseg(start)
           second == ParseNextCuttseg(first)
           third == ParseNextCuttseg(second)
<1>1. start \in CutterList
  BY CharRest, EmptySeq DEF CutterList
<1>2. ParseCuttsegList(buffer) = CuttersOf(buffer, third)
  BY DEF ParseCuttsegList
<1> HIDE DEF start
<1>3. first \in CutterList
  BY <1>1, NextCuttsegIs
<1> HIDE DEF first
<1>4. second \in CutterList
  BY <1>3, NextCuttsegIs
<1> HIDE DEF second
<1>5. third \in CutterList
  BY <1>4, NextCuttsegIs
<1> HIDE DEF third
<1> QED
  BY <1>2, <1>5, CuttersOfReads

-----------------------------------------------------------------------------
(* Specifications.                                                         *)

LEMMA PaddedIs ==
  ASSUME NEW string \in Text, NEW size \in Nat
  PROVE  Padded(string, size) \in Buffer
<1> DEFINE n == IF size > Len(string) THEN size - Len(string) ELSE 0
           zeros == [i \in 1..(size - Len(string)) |-> 0]
<1>1. Len(string) \in Nat
  BY LenProperties DEF Text
<1>2. n \in Nat /\ zeros = [i \in 1..n |-> 0]
  BY <1>1
<1>3. zeros \in Seq(0..127)
  BY <1>2
<1>4. string \in Seq(0..127)
  BY SeqMonotonic DEF Text
<1> HIDE DEF zeros
<1>5. string \o zeros \in Seq(0..127)
  BY <1>3, <1>4, ConcatProperties
<1> QED
  BY <1>5 DEF Padded, Buffer, zeros

LEMMA VolumeBytesAre ==
  ASSUME NEW volume \in ReadVolume
  PROVE  VolumeBytes(volume) \in Buffer
<1> DEFINE prefix == Padded(volume.prefix, SizeOfWord)
           digits == Padded(volume.number, SizeOfDigit16)
           etc == <<IF volume.hasetc THEN 1 ELSE 0>>
<1>1. prefix \in Seq(0..127) /\ digits \in Seq(0..127)
  BY PaddedIs, SizesAre DEF ReadVolume, NonEmpty, Buffer
<1>2. etc \in Seq(0..127)
  OBVIOUS
<1>3. VolumeBytes(volume) = prefix \o digits \o etc
  BY DEF VolumeBytes
<1> HIDE DEF prefix, digits, etc
<1>4. prefix \o digits \in Seq(0..127)
  BY <1>1, ConcatProperties
<1> QED
  BY <1>2, <1>3, <1>4, ConcatProperties DEF Buffer

(* A word that is written over a volume is still a word.                   *)
LEMMA WordLaidOverIs ==
  ASSUME NEW word \in NonEmpty, NEW volume, Reads(volume, ReadVolume)
  PROVE  WordLaidOver(word, volume) \in NonEmpty
<1>1. CASE ~volume.ok
  BY <1>1 DEF WordLaidOver
<1>2. CASE volume.ok
  <2> DEFINE bytes == VolumeBytes(volume.value)
             behind == SubSeq(bytes, Len(word) + 1, Len(bytes))
             union == word \o behind
             n == Matching(union, 1..127, Len(union))
  <2>1. bytes \in Seq(0..127) /\ Len(bytes) \in Nat
    BY <1>2, VolumeBytesAre, LenProperties DEF Reads, Buffer
  <2>2. word \in Seq(0..127) /\ word # << >> /\ Len(word) \in Nat /\ Len(word) >= 1
    <3>1. word \in Seq(1..127) /\ word # << >>
      BY DEF NonEmpty, Text
    <3>2. Len(word) \in Nat /\ Len(word) # 0
      BY <3>1, EmptySeq, LenProperties
    <3> QED
      BY <3>1, <3>2, SeqMonotonic
  <2>3. WordLaidOver(word, volume) = SubSeq(union, 1, n)
    BY <1>2 DEF WordLaidOver
  <2> HIDE DEF bytes
  <2>4. behind \in Seq(0..127)
    <3>1. \A i \in (Len(word) + 1)..Len(bytes) : bytes[i] \in 0..127
      BY <2>1, <2>2, ElementOfSeq
    <3> QED
      BY <2>1, <2>2, <3>1, SubSeqProperties
  <2> HIDE DEF behind
  <2>5. union \in Seq(0..127) /\ Len(union) \in Nat /\ Len(union) >= 1 /\ union[1] = word[1]
    BY <2>2, <2>4, Beside, LenProperties
  <2>6. word[1] \in 1..127
    BY <2>2, ElementOfSeq DEF NonEmpty, Text
  <2> HIDE DEF union
  <2>7. n \in Nat /\ n >= 1 /\ \A j \in 1..n : union[j] \in 1..127
    <3> DEFINE chars == 1..127
               limit == Len(union)
    <3>1. /\ limit \in Nat /\ limit >= 1 /\ Len(union) >= 1 /\ Len(union) = limit
          /\ union[1] \in chars /\ union \in Seq(0..127)
      BY <2>5, <2>6
    <3> HIDE DEF chars, limit
    <3>2. /\ Matching(union, chars, limit) \in Nat /\ Matching(union, chars, limit) >= 1
          /\ \A j \in 1..Matching(union, chars, limit) : union[j] \in chars
      BY <3>1, MatchingIs
    <3> QED
      BY <3>2 DEF chars, limit
  <2> HIDE DEF n
  <2>8. SubSeq(union, 1, n) \in Seq(1..127) /\ Len(SubSeq(union, 1, n)) = n
    BY <2>7, SubSeqProperties
  <2>9. SubSeq(union, 1, n) # << >>
    <3>1. Len(SubSeq(union, 1, n)) # 0
      BY <2>7, <2>8
    <3>2. Len(<< >>) = 0
      BY EmptySeq
    <3> QED
      BY <3>1, <3>2
  <2> QED
    BY <2>3, <2>8, <2>9 DEF NonEmpty, Text
<1> QED
  BY <1>1, <1>2

LEMMA WordTextReads ==
  ASSUME NEW buffer \in Buffer, NEW volume, Reads(volume, ReadVolume)
  PROVE  Reads(ParseWord(buffer, volume), WordText)
<1> DEFINE word == LexLongword(buffer)
           laid == WordLaidOver(word.value, volume)
           value == [kind |-> "word", word |-> laid]
           success == EndingWord(word).ok
<1>1. Reads(word, NonEmpty)
  BY LongwordReads
<1>2. ParseWord(buffer, volume) = Advanced(buffer, success, value, word.rest)
  BY DEF ParseWord
<1> HIDE DEF word
<1>3. word.rest \in Buffer /\ success \in BOOLEAN /\ (success => word.value \in NonEmpty)
  BY <1>1, PeeksAreBoolean DEF Reads, EndingWord
<1>4. success => laid \in NonEmpty
  BY <1>3, WordLaidOverIs
<1> HIDE DEF laid
<1>5. success => value \in WordText
  BY <1>4 DEF WordText, NonEmpty
<1> HIDE DEF success, value
<1> QED
  BY <1>2, <1>3, <1>5, AdvancedReads

LEMMA SpecificationReads ==
  ASSUME NEW buffer \in Buffer
  PROVE  Reads(ParseLcSpecification(buffer), ReadSpecification)
<1> DEFINE S == ReadSpecification
           date == EndingWord(ParseDate(buffer))
           ordinal == EndingWord(ParseOrdinal(buffer, "specification"))
           supplement == EndingWord(ParseSupplement(buffer))
           volume == EndingWord(ParseVolume(buffer))
           word == ParseWord(buffer, ParseVolume(buffer))
<1>1. /\ ReadDate \subseteq S /\ OrdinalNumber \subseteq S /\ ReadSupplement \subseteq S
      /\ ReadVolume \subseteq S /\ WordText \subseteq S
  BY DEF ReadSpecification, ReadDateord
<1>2. ParseLcSpecification(buffer)
        = FirstOf(date, FirstOf(ordinal, FirstOf(supplement, FirstOf(volume, word))))
  BY DEF ParseLcSpecification
<1> HIDE DEF S
<1>3. Reads(date, S)
  BY <1>1, DateReads, EndingWordReads, ReadsMore
<1>4. Reads(ordinal, S)
  BY <1>1, OrdinalReads, EndingWordReads, ReadsMore DEF Places
<1>5. Reads(supplement, S)
  BY <1>1, SupplementReads, EndingWordReads, ReadsMore
<1>6. Reads(volume, S)
  BY <1>1, VolumeReads, EndingWordReads, ReadsMore
<1>7. Reads(word, S)
  BY <1>1, VolumeReads, WordTextReads, ReadsMore
<1> HIDE DEF date, ordinal, supplement, volume, word
<1>8. Reads(FirstOf(volume, word), S)
  BY <1>6, <1>7, FirstOfReads
<1>9. Reads(FirstOf(supplement, FirstOf(volume, word)), S)
  BY <1>5, <1>8, FirstOfReads
<1>10. Reads(FirstOf(ordinal, FirstOf(supplement, FirstOf(volume, word))), S)
  BY <1>4, <1>9, FirstOfReads
<1>11. Reads(FirstOf(date, FirstOf(ordinal, FirstOf(supplement, FirstOf(volume, word)))), S)
  BY <1>3, <1>10, FirstOfReads
<1> QED
  BY <1>2, <1>11 DEF S

(* The list of specifications while it is read.                            *)
SpecificationList == [ok : {TRUE}, value : Seq(ReadSpecification), rest : Buffer]

LEMMA NextSpecificationIs ==
  ASSUME NEW list \in SpecificationList
  PROVE  ParseNextSpecification(list) \in SpecificationList
<1> DEFINE space == ReadSpace(list.rest)
           read == ParseLcSpecification(space.rest)
           next == Behind(space, read)
           longer == Append(list.value, next.value)
<1>1. space.ok \in BOOLEAN /\ space.rest \in Buffer
  BY CharRest DEF SpecificationList
<1>2. Reads(read, ReadSpecification)
  BY <1>1, SpecificationReads
<1>3. Reads(next, ReadSpecification)
  <2> HIDE DEF space, read
  <2> QED
    BY <1>1, <1>2, BehindReads
<1>4. ParseNextSpecification(list)
        = IF next.ok THEN [list EXCEPT !.value = longer, !.rest = next.rest] ELSE list
  BY DEF ParseNextSpecification, AddSpecification
<1> HIDE DEF next
<1>5. next.ok => longer \in Seq(ReadSpecification) /\ next.rest \in Buffer
  BY <1>3, AppendProperties DEF Reads, SpecificationList
<1> HIDE DEF longer
<1> QED
  BY <1>4, <1>5 DEF SpecificationList

LEMMA RemainderIs ==
  ASSUME NEW buffer \in Buffer
  PROVE  ParseLcRemainder(buffer) \in SpecificationList
<1> DEFINE places == {i \in DOMAIN buffer : buffer[i] \in Spaces}
           n == Cardinality(places)
           start == [ok |-> TRUE, value |-> << >>, rest |-> buffer]
           step == [k \in 1..n |-> [x \in SpecificationList |-> ParseNextSpecification(x)]]
           IsList(f) == f = [k \in 0..n |-> IF k = 0 THEN start
                                            ELSE ParseNextSpecification(f[k - 1])]
           list == CHOOSE f : IsList(f)
<1>1. n \in Nat
  <2>1. Len(buffer) \in Nat /\ DOMAIN buffer = 1..Len(buffer)
    BY LenProperties DEF Buffer
  <2>2. IsFiniteSet(1..Len(buffer))
    BY <2>1, FS_Interval
  <2>3. IsFiniteSet(places)
    BY <2>1, <2>2, FS_Subset
  <2> QED
    BY <2>3, FS_CardinalityType
<1>2. ParseLcRemainder(buffer) = list[n]
  BY DEF ParseLcRemainder
<1> HIDE DEF n
<1>3. start \in SpecificationList
  BY EmptySeq DEF SpecificationList
<1> HIDE DEF start
<1>4. IsStep(step, n, SpecificationList)
  BY NextSpecificationIs DEF IsStep
<1>5. PICK f : IsRun(f, n, SpecificationList, start, step)
  <2> HIDE DEF step
  <2> QED
    BY <1>1, <1>3, <1>4, RecursionExists
<1>6. /\ f \in [0..n -> SpecificationList] /\ f[0] = start
      /\ \A k \in 1..n : f[k] = ParseNextSpecification(f[k - 1])
  <2>1. \A k \in 1..n, x \in SpecificationList : step[k][x] = ParseNextSpecification(x)
    OBVIOUS
  <2> HIDE DEF step
  <2>2. /\ f \in [0..n -> SpecificationList] /\ f[0] = start
        /\ \A k \in 1..n : f[k] = step[k][f[k - 1]]
    BY <1>5 DEF IsRun
  <2>3. \A k \in 1..n : f[k - 1] \in SpecificationList
    BY <1>1, <2>2
  <2> QED
    BY <2>1, <2>2, <2>3
<1>7. IsList(f)
  BY <1>1, <1>6
<1>8. IsList(list)
  <2> HIDE DEF IsList
  <2> QED
    BY <1>7
<1> HIDE DEF list
<1>9. list[0] = start /\ \A k \in 1..n : list[k] = ParseNextSpecification(list[k - 1])
  BY <1>1, <1>8
<1> DEFINE T == {k \in 0..n : list[k] \in SpecificationList}
<1>10. 0 \in T
  BY <1>1, <1>3, <1>9
<1>11. \A k \in 1..n : k - 1 \in T => k \in T
  <2> SUFFICES ASSUME NEW k \in 1..n, k - 1 \in T PROVE list[k] \in SpecificationList
    BY <1>1
  <2>1. list[k - 1] \in SpecificationList
    OBVIOUS
  <2> QED
    BY <1>9, <2>1, NextSpecificationIs
<1> HIDE DEF T
<1>12. n \in T
  BY <1>1, <1>10, <1>11, UpTo
<1> QED
  BY <1>2, <1>12 DEF T

-----------------------------------------------------------------------------
(* Call numbers.                                                           *)

LEMMA BlankIs == Blank \in ReadCalln
<1>1. <<NoCutter, NoCutter, NoCutter>> \in [1..3 -> ReadCuttseg]
  BY NoCutterIs
<1>2. None \in ReadSpecification
  BY NoPart DEF ReadSpecification
<1>3. <<None, None>> \in [1..2 -> ReadSpecification]
  BY <1>2
<1> QED
  BY <1>1, <1>3, NoPart, NoText, EmptySeq DEF Blank, ReadCalln

LEMMA SubjectBaseReads ==
  ASSUME NEW buffer \in Buffer
  PROVE  Reads(ParseLcSubjectBase(buffer), ReadCalln)
<1> DEFINE letters == LexSubclass(buffer)
           space == ReadSpace(letters.rest)
           integer == LexInteger(space.rest)
           decimal == LexDecimal(integer.rest)
           caption == [Blank EXCEPT !.letters = letters.value, !.integer = integer.value,
                                    !.decimal = decimal.value]
           subclass == [Blank EXCEPT !.letters = letters.value]
<1>1. Reads(letters, Text) /\ letters.rest \in Buffer
  BY SubclassReads, RestOf
<1>2. space.rest \in Buffer
  BY <1>1, CharRest
<1>3. Reads(integer, Seq(Digits) \ {<< >>}) /\ integer.rest \in Buffer
  BY <1>2, IntegerReads, RestOf
<1>4. Reads(decimal, NonEmpty) /\ decimal.rest \in Buffer
  BY <1>3, DecimalReads, RestOf
<1>5. decimal.ok \/ decimal.value = << >>
  BY DEF LexDecimal, Advanced, Failed
<1>6. ParseLcSubjectBase(buffer)
        = IF letters.ok /\ integer.ok THEN Advanced(buffer, TRUE, caption, decimal.rest)
          ELSE Advanced(buffer, letters.ok, subclass, letters.rest)
  BY DEF ParseLcSubjectBase
<1> HIDE DEF letters, space, integer, decimal
<1>7. decimal.value \in Text
  BY <1>4, <1>5, NoText DEF Reads, NonEmpty
<1>8. letters.ok /\ integer.ok => caption \in ReadCalln
  BY <1>1, <1>3, <1>7, BlankIs DEF Reads, ReadCalln
<1>9. letters.ok \in BOOLEAN /\ (letters.ok => subclass \in ReadCalln)
  BY <1>1, BlankIs DEF Reads, ReadCalln
<1> HIDE DEF caption, subclass
<1>10. CASE letters.ok /\ integer.ok
  <2>1. Reads(Advanced(buffer, TRUE, caption, decimal.rest), ReadCalln)
    BY <1>4, <1>8, <1>10, TakenOver
  <2> QED
    BY <1>6, <1>10, <2>1
<1>11. CASE ~(letters.ok /\ integer.ok)
  <2>1. Reads(Advanced(buffer, letters.ok, subclass, letters.rest), ReadCalln)
    BY <1>1, <1>9, AdvancedReads
  <2> QED
    BY <1>6, <1>11, <2>1
<1> QED
  BY <1>10, <1>11

LEMMA WithSpecificationsReads ==
  ASSUME NEW calln, Reads(calln, ReadCalln), NEW list \in SpecificationList
  PROVE  Reads(WithSpecifications(calln, list), ReadCalln)
<1> DEFINE Place(k) == IF k \in DOMAIN list.value THEN list.value[k] ELSE None
           places == <<Place(1), Place(2)>>
           remainder == SubSeq(list.value, 3, Len(list.value))
           value == [calln.value EXCEPT !.specifications = places, !.remainder = remainder]
<1>1. CASE ~calln.ok
  BY <1>1 DEF WithSpecifications
<1>2. CASE calln.ok
  <2>1. list.value \in Seq(ReadSpecification) /\ list.rest \in Buffer
    BY DEF SpecificationList
  <2>2. /\ Len(list.value) \in Nat /\ DOMAIN list.value = 1..Len(list.value)
        /\ \A k \in 1..Len(list.value) : list.value[k] \in ReadSpecification
    BY <2>1, LenProperties, ElementOfSeq
  <2>3. \A k : Place(k) \in ReadSpecification
    BY <2>2, NoPart DEF ReadSpecification
  <2>4. remainder \in Seq(ReadSpecification)
    <3>1. \A i \in 3..Len(list.value) : list.value[i] \in ReadSpecification
      BY <2>2
    <3> QED
      BY <2>2, <3>1, SubSeqProperties
  <2>5. WithSpecifications(calln, list) = [calln EXCEPT !.value = value, !.rest = list.rest]
    BY <1>2 DEF WithSpecifications, Reads
  <2> HIDE DEF Place
  <2>6. places \in [1..2 -> ReadSpecification]
    BY <2>3
  <2>7. value \in ReadCalln
    <3> HIDE DEF places, remainder
    <3> QED
      BY <1>2, <2>4, <2>6 DEF Reads, ReadCalln
  <2> HIDE DEF value
  <2> QED
    BY <2>1, <2>5, <2>7 DEF Reads
<1> QED
  BY <1>1, <1>2

(* Whatever is in the buffer, what is read as a call number has parts of   *)
(* the kinds the parser knows.                                             *)
LEMMA CallnReads ==
  ASSUME NEW buffer \in Buffer
  PROVE  Reads(ParseLcCalln(buffer), ReadCalln)
<1> DEFINE base == ParseLcSubjectBase(buffer)
           subject == WithDateord(base, "caption")
           space == ReadSpace(subject.rest)
           cutters == ParseCuttsegList(space.rest)
           calln == Then(subject, "cutters", cutters)
           list == ParseLcRemainder(calln.rest)
<1>1. Reads(base, ReadCalln)
  BY SubjectBaseReads
<1>2. \A v \in ReadCalln, x \in ReadDateord : [v EXCEPT !["dateord"] = x] \in ReadCalln
  BY DEF ReadCalln
<1>3. \A v \in ReadCalln, x \in [1..3 -> ReadCuttseg] : [v EXCEPT !["cutters"] = x] \in ReadCalln
  BY DEF ReadCalln
<1>4. ParseLcCalln(buffer) = WithSpecifications(calln, list)
  BY DEF ParseLcCalln, WithRemainder, WithCutters, ParseLcSubject
<1> HIDE DEF base
<1>5. "caption" \in Places
  BY DEF Places
<1>6. Reads(subject, ReadCalln)
  BY <1>1, <1>2, <1>5, WithDateordReads
<1> HIDE DEF subject
<1>7. space.rest \in Buffer
  BY <1>6, RestOf, CharRest
<1> HIDE DEF space
<1>8. Reads(cutters, [1..3 -> ReadCuttseg])
  BY <1>7, CuttsegListReads
<1> HIDE DEF cutters
<1>9. Reads(calln, ReadCalln)
  <2> DEFINE T == [1..3 -> ReadCuttseg]
  <2>1. Reads(cutters, T) /\ \A v \in ReadCalln, x \in T : [v EXCEPT !["cutters"] = x] \in ReadCalln
    BY <1>3, <1>8
  <2> HIDE DEF T
  <2> QED
    BY <1>6, <2>1, ThenReads, Zenon
<1> HIDE DEF calln
<1>10. list \in SpecificationList
  BY <1>9, RestOf, RemainderIs
<1> HIDE DEF list
<1> QED
  BY <1>4, <1>9, <1>10, WithSpecificationsReads

LEMMA BufferOfIs ==
  ASSUME NEW string \in Text
  PROVE  BufferOf(string) \in Buffer
<1> DEFINE inner == {i \in DOMAIN string : string[i] \notin Spaces}
           trimmed == SubSeq(string, Min(inner), Max(inner))
<1>1. /\ Len(string) \in Nat /\ DOMAIN string = 1..Len(string)
      /\ \A i \in 1..Len(string) : string[i] \in 0..127
  BY LenProperties, ElementOfSeq DEF Text
<1>2. <<0>> \in Seq(0..127)
  OBVIOUS
<1>3. CASE inner = {}
  BY <1>2, <1>3 DEF BufferOf, Buffer
<1>4. CASE inner # {}
  <2>1. inner \subseteq 0..Len(string) /\ inner \subseteq 1..Len(string)
    BY <1>1
  <2>2. BufferOf(string) = trimmed \o <<0>>
    BY <1>4 DEF BufferOf
  <2> HIDE DEF inner
  <2>3. Min(inner) \in 1..Len(string) /\ Max(inner) \in 1..Len(string)
    BY <1>1, <1>4, <2>1, BoundsAre
  <2>4. trimmed \in Seq(0..127)
    <3>1. \A i \in Min(inner)..Max(inner) : string[i] \in 0..127
      BY <1>1, <2>3
    <3> QED
      BY <1>1, <2>3, <3>1, SubSeqProperties
  <2> HIDE DEF trimmed
  <2> QED
    BY <1>2, <2>2, <2>4, ConcatProperties DEF Buffer
<1> QED
  BY <1>3, <1>4

LEMMA InitReads ==
  ASSUME NEW string \in Text
  PROVE  Reads(InitLcCalln(string), ReadCalln)
<1> DEFINE calln == ParseLcCalln(BufferOf(string))
<1>1. Reads(calln, ReadCalln)
  BY BufferOfIs, CallnReads
<1>2. InitLcCalln(string) = IF Len(calln.rest) = 1 THEN calln ELSE Failed(calln.rest)
  BY DEF InitLcCalln, ToTheEnd
<1> HIDE DEF calln
<1>3. Reads(Failed(calln.rest), ReadCalln)
  BY <1>1 DEF Reads, Failed
<1> QED
  BY <1>1, <1>2, <1>3

-----------------------------------------------------------------------------
(* Printing.                                                               *)

LEMMA CharacterIsText ==
  ASSUME NEW c \in 1..127
  PROVE  <<c>> \in Text
BY DEF Text

LEMMA DecimalIsText ==
  ASSUME NEW n \in 0..99
  PROVE  Decimal(n) \in Text
<1>1. CASE n < 10
  <2>1. 48 + n \in 1..127
    BY <1>1
  <2> QED
    BY <1>1, <2>1 DEF Decimal, Text
<1>2. CASE ~(n < 10)
  <2>1. 48 + (n \div 10) \in 1..127 /\ 48 + (n % 10) \in 1..127
    OBVIOUS
  <2> QED
    BY <1>2, <2>1 DEF Decimal, Text
<1> QED
  BY <1>1, <1>2

LEMMA DigitsAreText == Seq(Digits) \subseteq Text
BY TextsOf, CharactersAre

LEMMA SpaceIsText == Space \in Text
BY CharacterIsText DEF Space

LEMMA DateIsText ==
  ASSUME NEW date \in ReadDate
  PROVE  PrintDate(date) \in Text
<1>1. CASE date \in ReadSpan
  <2>1. /\ date.form = "span" /\ date.year \in Text /\ date.separator \in Text
        /\ date.span \in Text /\ date.mark \in Text
    BY <1>1, DigitsAreText DEF ReadSpan
  <2>2. PrintDate(date) = date.year \o date.separator \o date.span \o date.mark
    BY <2>1 DEF PrintDate
  <2>3. date.year \o date.separator \in Text
    BY <2>1, TextsTogether
  <2>4. date.year \o date.separator \o date.span \in Text
    BY <2>1, <2>3, TextsTogether
  <2> QED
    BY <2>1, <2>2, <2>4, TextsTogether
<1>2. CASE date \in ReadDay
  <2> DEFINE day == IF date.day > 0 THEN Space \o Decimal(date.day) ELSE << >>
             month == Decimal(date.month)
  <2>1. /\ date.form = "day" /\ date.year \in Text /\ date.month \in 0..99
        /\ date.day \in 0..99
    BY <1>2, DigitsAreText DEF ReadDay
  <2>2. PrintDate(date) = date.year \o Space \o month \o day
    BY <2>1 DEF PrintDate
  <2>3. month \in Text /\ Decimal(date.day) \in Text
    BY <2>1, DecimalIsText
  <2>4. day \in Text
    BY <2>3, SpaceIsText, TextsTogether, NoText
  <2> HIDE DEF month, day
  <2>5. date.year \o Space \in Text
    BY <2>1, SpaceIsText, TextsTogether
  <2>6. date.year \o Space \o month \in Text
    BY <2>3, <2>5, TextsTogether
  <2> QED
    BY <2>2, <2>4, <2>6, TextsTogether
<1>3. CASE date \in ReadYear
  <2>1. date.form = "year" /\ date.year \in Text /\ date.mark \in Text
    BY <1>3, DigitsAreText DEF ReadYear
  <2>2. PrintDate(date) = date.year \o date.mark
    BY <2>1 DEF PrintDate
  <2> QED
    BY <2>1, <2>2, TextsTogether
<1> QED
  BY <1>1, <1>2, <1>3 DEF ReadDate

LEMMA DateordIsText ==
  ASSUME NEW dateord \in ReadDateord
  PROVE  PrintDateord(dateord) \in Text
<1>1. CASE dateord \in Missing
  BY <1>1, NoText DEF Missing, PrintDateord
<1>2. CASE dateord \in ReadDate
  <2>1. dateord.kind = "date"
    BY <1>2 DEF ReadDate, ReadSpan, ReadDay, ReadYear
  <2>2. PrintDateord(dateord) = PrintDate(dateord)
    BY <2>1 DEF PrintDateord
  <2> QED
    BY <1>2, <2>2, DateIsText
<1>3. CASE dateord \in OrdinalNumber
  <2>1. dateord.kind = "ordinal" /\ dateord.number \in Text /\ dateord.suffix \in Text
    BY <1>3 DEF OrdinalNumber
  <2>2. PrintDateord(dateord) = dateord.number \o dateord.suffix
    BY <2>1 DEF PrintDateord, PrintOrdinal
  <2> QED
    BY <2>1, <2>2, TextsTogether
<1> QED
  BY <1>1, <1>2, <1>3 DEF ReadDateord

LEMMA EtcIsText ==
  ASSUME NEW numbered
  PROVE  EtcOf(numbered) \in Text
<1>1. <<Comma>> \in Text /\ <<Point>> \in Text /\ EtcWord \in Text
  BY CharacterIsText, CharactersAre DEF EtcWord, Text
<1>2. <<Comma>> \o Space \in Text
  BY <1>1, SpaceIsText, TextsTogether
<1>3. <<Comma>> \o Space \o EtcWord \in Text
  BY <1>1, <1>2, TextsTogether
<1>4. <<Comma>> \o Space \o EtcWord \o <<Point>> \in Text
  BY <1>1, <1>3, TextsTogether
<1> QED
  BY <1>4, NoText DEF EtcOf

LEMMA SpecificationIsText ==
  ASSUME NEW part \in ReadSpecification
  PROVE  PrintSpecification(part) \in Text
<1> DEFINE point == <<Point>>
           abbreviation == IF part.isabbr THEN <<Point>> ELSE << >>
           etc == EtcOf(part)
<1>1. point \in Text /\ abbreviation \in Text /\ etc \in Text
  BY CharacterIsText, CharactersAre, EtcIsText, NoText
<1>2. CASE part \in ReadDateord
  <2>1. part.kind \notin {"supplement", "volume", "word"}
    BY <1>2 DEF ReadDateord, Missing, ReadDate, ReadSpan, ReadDay, ReadYear, OrdinalNumber
  <2>2. PrintSpecification(part) = PrintDateord(part)
    BY <2>1 DEF PrintSpecification
  <2> QED
    BY <1>2, <2>2, DateordIsText
<1>3. CASE part \in WordText
  BY <1>3 DEF WordText, PrintSpecification
<1>4. CASE part \in ReadVolume
  <2>1. part.kind = "volume" /\ part.prefix \in Text /\ part.number \in Text
    BY <1>4 DEF ReadVolume, NonEmpty
  <2>2. PrintSpecification(part) = part.prefix \o point \o Space \o part.number \o etc
    BY <2>1 DEF PrintSpecification, PrintVolume
  <2> HIDE DEF point, etc
  <2>3. part.prefix \o point \in Text
    BY <1>1, <2>1, TextsTogether
  <2>4. part.prefix \o point \o Space \in Text
    BY <2>3, SpaceIsText, TextsTogether
  <2>5. part.prefix \o point \o Space \o part.number \in Text
    BY <2>1, <2>4, TextsTogether
  <2> QED
    BY <1>1, <2>2, <2>5, TextsTogether
<1>5. CASE part \in ReadSupplement
  <2>1. part.kind = "supplement" /\ part.prefix \in Text /\ part.number \in Text
    BY <1>5 DEF ReadSupplement, NonEmpty
  <2>2. PrintSpecification(part) = part.prefix \o abbreviation \o Space \o part.number \o etc
    BY <2>1 DEF PrintSpecification, PrintSupplement
  <2> HIDE DEF abbreviation, etc
  <2>3. part.prefix \o abbreviation \in Text
    BY <1>1, <2>1, TextsTogether
  <2>4. part.prefix \o abbreviation \o Space \in Text
    BY <2>3, SpaceIsText, TextsTogether
  <2>5. part.prefix \o abbreviation \o Space \o part.number \in Text
    BY <2>1, <2>4, TextsTogether
  <2> QED
    BY <1>1, <2>2, <2>5, TextsTogether
<1> QED
  BY <1>2, <1>3, <1>4, <1>5 DEF ReadSpecification

(* A sequence of texts, one behind the other.                              *)
LEMMA FlattenIsText ==
  ASSUME NEW texts \in Seq(Text)
  PROVE  FlattenSeq(texts) \in Text
BY FlattenIs DEF Text

LEMMA ConditionIsText ==
  ASSUME NEW condition, NEW s \in Text
  PROVE  (IF condition THEN s ELSE << >>) \in Text
BY NoText

LEMMA StyleIs ==
  ASSUME NEW options \in Style
  PROVE  <<options.separator>> \in Text
<1>1. options.separator \in {32, 10}
  BY DEF Style
<1>2. options.separator \in 1..127
  BY <1>1
<1> QED
  BY <1>2, CharacterIsText

LEMMA CuttsegIsText ==
  ASSUME NEW seg \in ReadCuttseg, seg.letter # 0, NEW options \in Style
  PROVE  PrintCuttseg(seg, options) \in Text
<1> DEFINE letter == <<seg.letter>>
           separator == <<options.separator>>
           dateord == PrintDateord(seg.dateord)
           date == IF HasDate(seg) THEN separator \o dateord ELSE << >>
<1>1. /\ seg.letter \in 1..127 /\ seg.number \in Text /\ seg.mark \in Text
      /\ seg.dateord \in ReadDateord
  BY DEF ReadCuttseg
<1>2. letter \in Text /\ separator \in Text
  BY <1>1, CharacterIsText, StyleIs
<1>3. dateord \in Text
  BY <1>1, DateordIsText
<1>4. PrintCuttseg(seg, options) = letter \o seg.number \o seg.mark \o date
  BY DEF PrintCuttseg
<1> HIDE DEF letter, separator, dateord
<1>5. date \in Text
  BY <1>2, <1>3, TextsTogether, NoText
<1> HIDE DEF date
<1>6. letter \o seg.number \in Text
  BY <1>1, <1>2, TextsTogether
<1>7. letter \o seg.number \o seg.mark \in Text
  BY <1>1, <1>6, TextsTogether
<1> QED
  BY <1>4, <1>5, <1>7, TextsTogether

LEMMA GapIsText ==
  ASSUME NEW before, NEW options \in Style
  PROVE  CutterGap(before, options) \in Text
<1> DEFINE dated == before # << >> /\ HasDate(Last(before))
           period == before = << >> \/ (dated /\ options.extraCutpoint)
           separated == IF before = << >> THEN options.splitSections
                        ELSE options.splitCutters
                               \/ (dated /\ (~options.extraCutpoint \/ options.splitSections))
           first == IF separated THEN <<options.separator>> ELSE << >>
           second == IF period THEN <<Point>> ELSE << >>
<1>1. CutterGap(before, options) = first \o second
  BY DEF CutterGap
<1> HIDE DEF separated, period
<1>2. first \in Text
  BY StyleIs, NoText
<1>3. second \in Text
  BY CharacterIsText, CharactersAre, NoText
<1> QED
  BY <1>1, <1>2, <1>3, TextsTogether

LEMMA CuttersAreText ==
  ASSUME NEW cutters \in [1..3 -> ReadCuttseg], NEW options \in Style
  PROVE  PrintCutters(cutters, options) \in Text
<1> DEFINE There == {seg \in ReadCuttseg : seg.letter # 0}
           pieces == [k \in DOMAIN cutters |->
                        IF cutters[k].letter # 0 THEN <<cutters[k]>> ELSE << >>]
           present == Present(cutters)
           Piece(k) == CutterGap(SubSeq(present, 1, k - 1), options)
                         \o PrintCuttseg(present[k], options)
           texts == [k \in DOMAIN present |-> Piece(k)]
<1>1. \A k \in 1..3 : pieces[k] \in Seq(There)
  <2> SUFFICES ASSUME NEW k \in 1..3 PROVE pieces[k] \in Seq(There)
    OBVIOUS
  <2>1. cutters[k] \in ReadCuttseg
    OBVIOUS
  <2>2. CASE cutters[k].letter # 0
    <3>1. cutters[k] \in There
      BY <2>1, <2>2
    <3> HIDE DEF There
    <3>2. <<cutters[k]>> \in Seq(There)
      BY <3>1
    <3> QED
      BY <2>2, <3>2
  <2>3. CASE cutters[k].letter = 0
    <3> HIDE DEF There
    <3> QED
      BY <2>3, EmptySeq
  <2> QED
    BY <2>2, <2>3
<1>2. pieces \in Seq(Seq(There))
  <2>1. DOMAIN pieces = 1..3 /\ pieces = [k \in 1..3 |-> pieces[k]]
    OBVIOUS
  <2> HIDE DEF pieces, There
  <2> QED
    BY <1>1, <2>1, AreElements
<1>3. present = FlattenSeq(pieces)
  BY DEF Present
<1> HIDE DEF pieces, There
<1>4. present \in Seq(There)
  BY <1>2, <1>3, FlattenIs
<1>5. PrintCutters(cutters, options) = FlattenSeq(texts)
  BY DEF PrintCutters
<1> HIDE DEF present
<1> DEFINE n == Len(present)
<1>6. n \in Nat /\ DOMAIN present = 1..n
  BY <1>4, LenProperties
<1>7. \A k \in 1..n : Piece(k) \in Text
  <2> SUFFICES ASSUME NEW k \in 1..n PROVE Piece(k) \in Text
    OBVIOUS
  <2> DEFINE gap == CutterGap(SubSeq(present, 1, k - 1), options)
             seg == PrintCuttseg(present[k], options)
  <2>1. present[k] \in There
    BY <1>4, ElementOfSeq
  <2>2. seg \in Text
    BY <2>1, CuttsegIsText DEF There
  <2>3. gap \in Text
    BY GapIsText
  <2> HIDE DEF gap, seg
  <2>4. gap \o seg \in Text
    BY <2>2, <2>3, TextsTogether
  <2> QED
    BY <2>4 DEF gap, seg
<1> HIDE DEF n, Piece
<1>8. DOMAIN texts = 1..n /\ texts = [k \in 1..n |-> texts[k]] /\ \A k \in 1..n : texts[k] \in Text
  BY <1>6, <1>7
<1> HIDE DEF texts
<1>9. texts \in Seq(Text)
  BY <1>6, <1>8, AreElements
<1> QED
  BY <1>5, <1>9, FlattenIsText

LEMMA SpecificationsAreText ==
  ASSUME NEW parts \in Seq(ReadSpecification), NEW options \in Style
  PROVE  PrintSpecifications(parts, options) \in Text
<1> DEFINE n == Len(parts)
           separator == <<options.separator>>
           Piece(k) == IF parts[k].kind = "none" THEN << >>
                       ELSE separator \o PrintSpecification(parts[k])
           texts == [k \in DOMAIN parts |-> Piece(k)]
<1>1. n \in Nat /\ DOMAIN parts = 1..n
  BY LenProperties
<1>2. PrintSpecifications(parts, options) = FlattenSeq(texts)
  BY DEF PrintSpecifications
<1>3. separator \in Text
  BY StyleIs
<1> HIDE DEF separator
<1>4. \A k \in 1..n : Piece(k) \in Text
  <2> SUFFICES ASSUME NEW k \in 1..n PROVE Piece(k) \in Text
    OBVIOUS
  <2>1. parts[k] \in ReadSpecification
    BY ElementOfSeq
  <2>2. PrintSpecification(parts[k]) \in Text
    BY <2>1, SpecificationIsText
  <2> QED
    BY <1>3, <2>2, TextsTogether, NoText
<1> HIDE DEF n, Piece
<1>5. DOMAIN texts = 1..n /\ texts = [k \in 1..n |-> texts[k]] /\ \A k \in 1..n : texts[k] \in Text
  BY <1>1, <1>4
<1> HIDE DEF texts
<1>6. texts \in Seq(Text)
  BY <1>1, <1>5, AreElements
<1> QED
  BY <1>2, <1>6, FlattenIsText

(* The string of a call number, in every style, is a text without a NUL.   *)
LEMMA CallnIsText ==
  ASSUME NEW calln \in ReadCalln, NEW options \in Style
  PROVE  PrintLcCalln(calln, options) \in Text
<1> DEFINE separator == <<options.separator>>
           split == calln.integer # << >> /\ options.splitSubject
           gap == IF split THEN separator ELSE << >>
           decimal == IF calln.decimal # << >> THEN <<Point>> \o calln.decimal ELSE << >>
           dateord == PrintDateord(calln.dateord)
           date == IF HasDate(calln) THEN separator \o dateord ELSE << >>
           cutters == PrintCutters(calln.cutters, options)
           parts == calln.specifications \o calln.remainder
           rest == PrintSpecifications(parts, options)
<1>1. /\ calln.letters \in Text /\ calln.integer \in Text /\ calln.decimal \in Text
      /\ calln.dateord \in ReadDateord /\ calln.cutters \in [1..3 -> ReadCuttseg]
      /\ calln.specifications \in [1..2 -> ReadSpecification]
      /\ calln.remainder \in Seq(ReadSpecification)
  BY DigitsAreText DEF ReadCalln
<1>2. separator \in Text /\ <<Point>> \in Text
  BY StyleIs, CharacterIsText, CharactersAre
<1>3. calln.specifications \in Seq(ReadSpecification)
  <2> DEFINE first == calln.specifications
  <2>1. /\ DOMAIN first = 1..2 /\ first = [k \in 1..2 |-> first[k]]
        /\ \A k \in 1..2 : first[k] \in ReadSpecification
    BY <1>1
  <2> HIDE DEF first
  <2>2. first \in Seq(ReadSpecification)
    BY <2>1, AreElements
  <2> QED
    BY <2>2 DEF first
<1>4. parts \in Seq(ReadSpecification)
  BY <1>1, <1>3, ConcatProperties
<1>5. PrintLcCalln(calln, options)
        = calln.letters \o gap \o calln.integer \o decimal \o date \o cutters \o rest
  BY DEF PrintLcCalln
<1>6. cutters \in Text
  BY <1>1, CuttersAreText
<1>7. rest \in Text
  <2> HIDE DEF parts
  <2> QED
    BY <1>4, SpecificationsAreText
<1>8. dateord \in Text
  BY <1>1, DateordIsText
<1> HIDE DEF separator, split, dateord, cutters, rest
<1>9. gap \in Text /\ decimal \in Text /\ date \in Text
  BY <1>1, <1>2, <1>8, TextsTogether, NoText
<1> HIDE DEF gap, decimal, date
<1>10. calln.letters \o gap \in Text
  BY <1>1, <1>9, TextsTogether
<1>11. calln.letters \o gap \o calln.integer \in Text
  BY <1>1, <1>10, TextsTogether
<1>12. calln.letters \o gap \o calln.integer \o decimal \in Text
  BY <1>9, <1>11, TextsTogether
<1>13. calln.letters \o gap \o calln.integer \o decimal \o date \in Text
  BY <1>9, <1>12, TextsTogether
<1>14. calln.letters \o gap \o calln.integer \o decimal \o date \o cutters \in Text
  BY <1>6, <1>13, TextsTogether
<1> QED
  BY <1>5, <1>7, <1>14, TextsTogether

-----------------------------------------------------------------------------
(* What the comparisons make of the parts.                                 *)

LEMMA DateIsCompared ==
  ASSUME NEW date \in ReadDate
  PROVE  DateAsCompared(date) \in Date
<1>1. CASE date \in ReadSpan
  <2>1. /\ date.form = "span" /\ NumberOf(date.year) \in Nat /\ NumberOf(date.span) \in Nat
        /\ date.mark \in Text
    BY <1>1, NumberIs DEF ReadSpan
  <2>2. DateAsCompared(date)
          = [kind |-> "date", form |-> "span", year |-> NumberOf(date.year),
             span |-> NumberOf(date.span), mark |-> date.mark]
    BY <2>1 DEF DateAsCompared
  <2> QED
    BY <2>1, <2>2 DEF Date, SpanDate
<1>2. CASE date \in ReadDay
  <2>1. date.form = "day" /\ NumberOf(date.year) \in Nat
    BY <1>2, NumberIs DEF ReadDay
  <2>2. DateAsCompared(date) = [date EXCEPT !.year = NumberOf(date.year)]
    BY <2>1 DEF DateAsCompared
  <2>3. DateAsCompared(date) \in DayDate
    BY <1>2, <2>1, <2>2 DEF ReadDay, DayDate
  <2> QED
    BY <2>3 DEF Date
<1>3. CASE date \in ReadYear
  <2>1. date.form = "year" /\ NumberOf(date.year) \in Nat
    BY <1>3, NumberIs DEF ReadYear
  <2>2. DateAsCompared(date) = [date EXCEPT !.year = NumberOf(date.year)]
    BY <2>1 DEF DateAsCompared
  <2>3. DateAsCompared(date) \in YearDate
    BY <1>3, <2>1, <2>2 DEF ReadYear, YearDate
  <2> QED
    BY <2>3 DEF Date
<1> QED
  BY <1>1, <1>2, <1>3 DEF ReadDate

LEMMA PartIsCompared ==
  ASSUME NEW part \in ReadSpecification
  PROVE  /\ PartAsCompared(part) \in Specification
         /\ part \in ReadDateord => PartAsCompared(part) \in Dateord
<1>1. CASE part \in ReadDate
  <2>1. part.kind = "date"
    BY <1>1 DEF ReadDate, ReadSpan, ReadDay, ReadYear
  <2>2. PartAsCompared(part) = DateAsCompared(part)
    BY <2>1 DEF PartAsCompared
  <2> QED
    BY <1>1, <2>2, DateIsCompared DEF Dateord, Specification
<1>2. CASE part \in Missing \cup OrdinalNumber
  <2>1. part.kind \notin {"date", "supplement"}
    BY <1>2 DEF Missing, OrdinalNumber
  <2>2. PartAsCompared(part) = part
    BY <2>1 DEF PartAsCompared
  <2> QED
    BY <1>2, <2>2 DEF Dateord, Specification
<1>3. CASE part \in WordText
  <2>1. part.kind = "word"
    BY <1>3 DEF WordText
  <2>2. PartAsCompared(part) = part
    BY <2>1 DEF PartAsCompared
  <2>3. part \notin ReadDateord
    BY <2>1 DEF ReadDateord, Missing, ReadDate, ReadSpan, ReadDay, ReadYear, OrdinalNumber
  <2> QED
    BY <1>3, <2>2, <2>3 DEF Specification
<1>4. CASE part \in ReadVolume
  <2>1. part.kind = "volume"
    BY <1>4 DEF ReadVolume
  <2>2. PartAsCompared(part) = part
    BY <2>1 DEF PartAsCompared
  <2>3. part \notin ReadDateord
    BY <2>1 DEF ReadDateord, Missing, ReadDate, ReadSpan, ReadDay, ReadYear, OrdinalNumber
  <2>4. part \in Numbered
    BY <1>4 DEF ReadVolume, Numbered, NonEmpty
  <2> QED
    BY <2>2, <2>3, <2>4 DEF Specification
<1>5. CASE part \in ReadSupplement
  <2>1. part.kind = "supplement"
    BY <1>5 DEF ReadSupplement
  <2>2. PartAsCompared(part)
          = [kind |-> "supplement", prefix |-> part.prefix, number |-> part.number,
             hasetc |-> part.hasetc]
    BY <2>1 DEF PartAsCompared
  <2>3. part \notin ReadDateord
    BY <2>1 DEF ReadDateord, Missing, ReadDate, ReadSpan, ReadDay, ReadYear, OrdinalNumber
  <2>4. PartAsCompared(part) \in Numbered
    BY <1>5, <2>2 DEF ReadSupplement, Numbered, NonEmpty
  <2> QED
    BY <2>3, <2>4 DEF Specification
<1> QED
  BY <1>1, <1>2, <1>3, <1>4, <1>5 DEF ReadSpecification, ReadDateord

(* What is read as a call number is one the comparisons know.              *)
LEMMA CallnIsCompared ==
  ASSUME NEW calln \in ReadCalln
  PROVE  AsCompared(calln) \in CallNumber
<1> DEFINE integer == IF calln.integer = << >> THEN Absent ELSE NumberOf(calln.integer)
           dateord == PartAsCompared(calln.dateord)
           cutters == [k \in 1..3 |-> CuttsegAsCompared(calln.cutters[k])]
           specifications == PartsAsCompared(calln.specifications)
           remainder == PartsAsCompared(calln.remainder)
<1>1. /\ calln.integer \in Seq(Digits) /\ calln.dateord \in ReadDateord
      /\ calln.cutters \in [1..3 -> ReadCuttseg]
      /\ calln.specifications \in [1..2 -> ReadSpecification]
      /\ calln.remainder \in Seq(ReadSpecification)
  BY DEF ReadCalln
<1>2. AsCompared(calln) = [calln EXCEPT !.integer = integer, !.dateord = dateord,
                                        !.cutters = cutters,
                                        !.specifications = specifications,
                                        !.remainder = remainder]
  BY DEF AsCompared
<1>3. integer \in Nat \cup {Absent}
  BY <1>1, NumberIs
<1>4. \A part \in ReadDateord : PartAsCompared(part) \in Dateord
  BY PartIsCompared DEF ReadSpecification
<1>5. dateord \in Dateord
  BY <1>1, <1>4
<1>6. cutters \in [1..3 -> Cuttseg]
  <2>1. \A seg \in ReadCuttseg : CuttsegAsCompared(seg) \in Cuttseg
    BY <1>4 DEF CuttsegAsCompared, ReadCuttseg, Cuttseg
  <2> QED
    BY <1>1, <2>1
<1>7. specifications \in [1..2 -> Specification]
  BY <1>1, PartIsCompared DEF PartsAsCompared
<1>8. remainder \in Seq(Specification)
  <2> DEFINE n == Len(calln.remainder)
  <2>1. n \in Nat /\ DOMAIN calln.remainder = 1..n
        /\ \A k \in 1..n : calln.remainder[k] \in ReadSpecification
    BY <1>1, LenProperties, ElementOfSeq
  <2> HIDE DEF n
  <2>2. /\ DOMAIN remainder = 1..n /\ remainder = [k \in 1..n |-> remainder[k]]
        /\ \A k \in 1..n : remainder[k] \in Specification
    BY <2>1, PartIsCompared DEF PartsAsCompared
  <2> HIDE DEF remainder
  <2> QED
    BY <2>1, <2>2, AreElements
<1> HIDE DEF integer, dateord, cutters, specifications, remainder
<1> QED
  BY <1>2, <1>3, <1>5, <1>6, <1>7, <1>8 DEF ReadCalln, CallNumber

-----------------------------------------------------------------------------
(* What holds of a call number at every step: its string is a text, and    *)
(* when it has been made its parts are those of the kinds the parser knows. *)
MadeInv ==
  /\ text \in Text
  /\ made = "yes" => number \in ReadCalln

LEMMA MadeInvInit == LCInit => MadeInv
BY TextsAssumption DEF LCInit, MadeInv, Text

LEMMA MadeInvStep ==
  MadeInv /\ [LCNext]_lcVars => MadeInv'
<1> SUFFICES ASSUME MadeInv, [LCNext]_lcVars PROVE MadeInv'
  OBVIOUS
<1>1. CASE InitWithString
  <2> DEFINE calln == InitLcCalln(text)
  <2>1. Reads(calln, ReadCalln)
    BY InitReads DEF MadeInv
  <2>2. /\ made' = IF calln.ok THEN "yes" ELSE "nil"
        /\ number' = ValueOr(calln, Blank) /\ text' = text
    BY <1>1 DEF InitWithString
  <2> HIDE DEF calln
  <2>3. made' = "yes" => number' \in ReadCalln
    BY <2>1, <2>2 DEF ValueOr, Reads
  <2> QED
    BY <2>2, <2>3 DEF MadeInv
<1>2. ASSUME NEW options \in Styles, StringWithFormatOptions(options) PROVE MadeInv'
  <2>1. options \in Style /\ number \in ReadCalln
    BY <1>2, StylesAssumption DEF StringWithFormatOptions, MadeInv
  <2>2. text' \in Text
    BY <1>2, <2>1, CallnIsText DEF StringWithFormatOptions
  <2>3. made' # "yes"
    BY <1>2 DEF StringWithFormatOptions
  <2> QED
    BY <2>2, <2>3 DEF MadeInv
<1>3. CASE UNCHANGED lcVars
  BY <1>3 DEF MadeInv, lcVars
<1> QED
  BY <1>1, <1>2, <1>3 DEF LCNext

(* Every part the parser makes is one the comparisons know, from whatever  *)
(* string it makes it, its own strings among them: the theorems above are  *)
(* about all call numbers that a program can have.                         *)
THEOREM MadeStaysComparable == LCSpec => []MadeIsComparable
<1>1. MadeInv => MadeIsComparable
  BY CallnIsCompared DEF MadeInv, MadeIsComparable
<1> QED
  BY <1>1, MadeInvInit, MadeInvStep, PTL DEF LCSpec

(* Of any text without a NUL, what is read as a call number is one the     *)
(* comparisons know: what they assume of call numbers holds of all that    *)
(* there are.                                                              *)
THEOREM ReadNumbersMayBeCompared ==
  \A string \in Seq(1..127) :
    InitLcCalln(string).ok => AsCompared(InitLcCalln(string).value) \in CallNumber
<1> SUFFICES ASSUME NEW string \in Seq(1..127), InitLcCalln(string).ok
             PROVE  AsCompared(InitLcCalln(string).value) \in CallNumber
  OBVIOUS
<1>1. Reads(InitLcCalln(string), ReadCalln)
  BY InitReads DEF Text
<1> QED
  BY <1>1, CallnIsCompared DEF Reads
=============================================================================
