------------------------- MODULE CallNumberSegments -------------------------
(***************************************************************************)
(* bibtype.c's comparisons of the parts of two Library of Congress call    *)
(* numbers.  Every one of them takes the result of the parts before it and *)
(* gives the result that goes into the next one.                           *)
(*                                                                         *)
(* A text is a sequence of ASCII codes.  Integers and years stand for the  *)
(* digits atoi reads; Absent is a missing integer.  An absent text is the  *)
(* empty one.                                                              *)
(***************************************************************************)
EXTENDS Integers, Sequences, SequencesExt

Generalizing == -2
Descending == -1
Same == 0
Ascending == 1
Specifying == 2

Results == {Generalizing, Descending, Same, Ascending, Specifying}

(* The results no later part may change.                                   *)
Decided == {Ascending, Descending}

Absent == -1
Empty(text) == text = << >>

(* Without specialization an ancestor only comes before its descendants.   *)
Linear(result) ==
  IF result = Specifying THEN Ascending
  ELSE IF result = Generalizing THEN Descending
  ELSE result

Within(specify, result) == IF specify THEN result ELSE Linear(result)

Ordered(l, r) == IF l < r THEN Ascending ELSE Descending

-----------------------------------------------------------------------------
(* The parts of a call number (bibtype.h), as the parser leaves them.      *)

Text == Seq(1..127)

YearDate == [kind : {"date"}, form : {"year"}, year : Nat, mark : Text]
SpanDate == [kind : {"date"}, form : {"span"}, year : Nat, span : Nat, mark : Text]
DayDate ==
  [kind : {"date"}, form : {"day"}, year : Nat, month : 1..12, day : 0..99, mark : Text]
Date == YearDate \cup SpanDate \cup DayDate

OrdinalNumber == [kind : {"ordinal"}, number : Text \ {<< >>}, suffix : Text]
Missing == [kind : {"none"}]
Dateord == Missing \cup Date \cup OrdinalNumber

(* A cutter segment that is not there has no letter: its letter is NUL.    *)
Cuttseg == [letter : 0..127, number : Text, mark : Text, dateord : Dateord]

WordText == [kind : {"word"}, word : Text \ {<< >>}]
Numbered ==
  [kind : {"volume", "supplement"}, prefix : Text \ {<< >>}, number : Text \ {<< >>},
   hasetc : BOOLEAN]
Specification == Dateord \cup WordText \cup Numbered

CallNumber ==
  [letters : Text, integer : Nat \cup {Absent}, decimal : Text, dateord : Dateord,
   cutters : [1..3 -> Cuttseg], specifications : [1..2 -> Specification],
   remainder : Seq(Specification)]

-----------------------------------------------------------------------------
(* Missing parts.                                                          *)

(* A mutation: an earlier decision is not looked at.                       *)
Settles_ForgetsTheDecision(status, leftEmpty, rightEmpty) == leftEmpty \/ rightEmpty

(* bib_should_return_empty_comparison returns true: a part is missing, or  *)
(* an earlier one has decided.                                             *)
Settles(status, leftEmpty, rightEmpty) ==
  leftEmpty \/ rightEmpty \/ status \in Decided

(* A mutation: a part only the ancestor has leaves it the ancestor.        *)
Settled_KeepsTheStatus(status, leftEmpty, rightEmpty, specify) ==
  IF status # Same \/ (leftEmpty /\ rightEmpty) THEN status
  ELSE Within(specify, IF leftEmpty THEN Specifying ELSE Generalizing)

(* A mutation: a right number that stops first is not asked whether it has *)
(* been the other's descendant so far.                                     *)
Settled_OneSided(status, leftEmpty, rightEmpty, specify) ==
  IF (leftEmpty /\ rightEmpty) \/ status \in Decided THEN status
  ELSE IF leftEmpty /\ status # Generalizing THEN Within(specify, Specifying)
  ELSE IF rightEmpty THEN Within(specify, Generalizing)
  ELSE Linear(status)

(* The status it leaves then: the call number that stops first includes    *)
(* the other one, unless the other one has stopped before.                 *)
Settled(status, leftEmpty, rightEmpty, specify) ==
  IF (leftEmpty /\ rightEmpty) \/ status \in Decided THEN status
  ELSE IF leftEmpty /\ status # Generalizing THEN Within(specify, Specifying)
  ELSE IF rightEmpty /\ status # Specifying THEN Within(specify, Generalizing)
  ELSE Linear(status)

-----------------------------------------------------------------------------
(* Texts.                                                                  *)

Upper(c) == IF c \in 97..122 THEN c - 32 ELSE c

(* The character at a place of a NUL-terminated text.                      *)
At(text, i) == IF i \in 1..Len(text) THEN Upper(text[i]) ELSE 0

(* Two texts are read up to their first difference, which for a prefix is  *)
(* the NUL that ends it.                                                   *)
Differences(l, r) == {i \in 1..(Len(l) + Len(r)) : At(l, i) # At(r, i)}

(* A mutation: the ancestor may go on.                                     *)
AfterSpecialization_Stays(status, leftEmpty, rightEmpty) == status

(* Once the result is a specialization, the side it makes the ancestor has *)
(* to be empty from then on.                                               *)
AfterSpecialization(status, leftEmpty, rightEmpty) ==
  IF (status = Specifying /\ leftEmpty) \/ (status = Generalizing /\ rightEmpty)
  THEN status
  ELSE Linear(status)

(* A text specifies those it is a prefix of.                               *)
StringBase(l, r) ==
  IF Differences(l, r) = {} THEN Same
  ELSE LET i == Min(Differences(l, r))
       IN IF At(l, i) = 0 THEN Specifying
          ELSE IF At(r, i) = 0 THEN Generalizing
          ELSE Ordered(At(l, i), At(r, i))

(* A decimal specifies another one only when it is missing.                *)
DecimalBase(l, r) ==
  IF Empty(l) \/ Empty(r) THEN StringBase(l, r) ELSE Linear(StringBase(l, r))

StringCompare(status, l, r, specify) ==
  IF status \in Decided THEN status
  ELSE IF status = Same THEN Within(specify, StringBase(l, r))
  ELSE Within(specify, AfterSpecialization(status, Empty(l), Empty(r)))

DecimalCompare(status, l, r, specify) ==
  IF status \in Decided THEN status
  ELSE IF status = Same THEN Within(specify, DecimalBase(l, r))
  ELSE Within(specify, AfterSpecialization(status, Empty(l), Empty(r)))

IntegerCompare(status, l, r, specify) ==
  IF Settles(status, l = Absent, r = Absent)
  THEN Settled(status, l = Absent, r = Absent, specify)
  ELSE IF status # Same THEN Linear(status)
  ELSE IF l = r THEN Same
  ELSE Ordered(l, r)

-----------------------------------------------------------------------------
(* Dates: a year, a span of years, or a day or month of a year.            *)

YearCompare(status, l, r) ==
  IF status \in Decided \/ l = r THEN status ELSE Ordered(l, r)

(* A span includes a year that begins with it, a year the days in it.      *)
DateRank(date) ==
  CASE date.form = "span" -> 1
    [] date.form = "year" -> 2
    [] date.form = "day" -> 3

(* A mutation: the case of a span and a day is missing.                    *)
FormCompare_SkipsSpans(status, l, r, specify) ==
  IF {l.form, r.form} = {"span", "day"} THEN status
  ELSE IF status # Same THEN Linear(status)
  ELSE IF DateRank(l) < DateRank(r) THEN Within(specify, Specifying)
  ELSE Within(specify, Generalizing)

(* bib_should_return_after_normalization: dates of two forms.              *)
FormCompare(status, l, r, specify) ==
  IF status # Same THEN Linear(status)
  ELSE IF DateRank(l) < DateRank(r) THEN Within(specify, Specifying)
  ELSE Within(specify, Generalizing)

(* Two days of the same year; day 0 is the whole month.                    *)
DayCompare(status, l, r, specify) ==
  IF l.month # r.month
  THEN IF status = Same THEN Ordered(l.month, r.month) ELSE Linear(status)
  ELSE IF l.day = r.day THEN status
  ELSE IF status = Same
  THEN IF specify /\ l.day = 0 THEN Specifying
       ELSE IF specify /\ r.day = 0 THEN Generalizing
       ELSE Ordered(l.day, r.day)
  ELSE IF status = Specifying
  THEN IF l.day > 0 \/ ~specify THEN Ascending ELSE status
  ELSE IF r.day > 0 \/ ~specify THEN Ascending ELSE status

(* A date in a call number always has a year.                              *)
DateCompare(status, l, r, specify) ==
  LET year == YearCompare(status, l.year, r.year)
      form == IF year \in Decided THEN year
              ELSE IF l.form # r.form THEN FormCompare(year, l, r, specify)
              ELSE IF l.form = "span" THEN YearCompare(year, l.span, r.span)
              ELSE IF l.form = "day" THEN DayCompare(year, l, r, specify)
              ELSE year
  IN StringCompare(form, l.mark, r.mark, specify)

-----------------------------------------------------------------------------
(* Ordinals, volumes and supplements: numbers compared as texts.           *)

OrdinalCompare(status, l, r, specify) ==
  StringCompare(StringCompare(status, l.number, r.number, specify),
                l.suffix, r.suffix, specify)

(* A mutation: either side's "etc." counts as the left one's.              *)
EtcCompare_OneSided(status, l, r, same) ==
  IF l.hasetc = r.hasetc \/ status \in Decided THEN status
  ELSE IF status = Same THEN same
  ELSE AfterSpecialization(status, r.hasetc, l.hasetc)

(* A trailing "etc." on one side only; `same` is the result when nothing   *)
(* else differs and the left one has it.                                   *)
EtcCompare(status, l, r, same) ==
  IF l.hasetc = r.hasetc \/ status \in Decided THEN status
  ELSE IF status = Same THEN IF l.hasetc THEN same ELSE -same
  ELSE AfterSpecialization(status, r.hasetc, l.hasetc)

NumberedCompare(status, l, r, specify) ==
  StringCompare(StringCompare(status, l.prefix, r.prefix, specify),
                l.number, r.number, specify)

VolumeCompare(status, l, r, specify) ==
  EtcCompare(NumberedCompare(status, l, r, specify), l, r,
             Within(specify, Generalizing))

SupplementCompare(status, l, r, specify) ==
  EtcCompare(NumberedCompare(status, l, r, specify), l, r, Descending)

-----------------------------------------------------------------------------
(* Segments.                                                               *)

DateordCompare(status, l, r, specify) ==
  IF Settles(status, l.kind = "none", r.kind = "none")
  THEN Settled(status, l.kind = "none", r.kind = "none", specify)
  ELSE IF l.kind # r.kind
  THEN IF l.kind = "ordinal" THEN Ascending ELSE Descending
  ELSE IF l.kind = "date" THEN DateCompare(status, l, r, specify)
  ELSE OrdinalCompare(status, l, r, specify)

(* Letters that differ keep a specialization in the direction it has.      *)
LetterCompare(status, l, r) ==
  IF l = r THEN status
  ELSE IF status = Same THEN Ordered(l, r)
  ELSE Linear(status)

(* A mutation: a cutter's mark is not compared.                            *)
CutterCompare_SkipsMarks(status, l, r, specify) ==
  DecimalCompare(LetterCompare(status, Upper(l.letter), Upper(r.letter)),
                 l.number, r.number, FALSE)

CutterCompare(status, l, r, specify) ==
  LET letter == LetterCompare(status, Upper(l.letter), Upper(r.letter))
  IN DecimalCompare(DecimalCompare(letter, l.number, r.number, FALSE),
                    l.mark, r.mark, specify)

(* An absent cutter segment has no letter.                                 *)
CuttsegCompare(status, l, r, specify) ==
  IF Settles(status, l.letter = 0, r.letter = 0)
  THEN Settled(status, l.letter = 0, r.letter = 0, specify)
  ELSE DateordCompare(CutterCompare(status, l, r, specify), l.dateord, r.dateord, specify)

KindRank(specification) ==
  CASE specification.kind = "date" -> 1
    [] specification.kind = "word" -> 2
    [] specification.kind = "ordinal" -> 3
    [] specification.kind = "volume" -> 4
    [] specification.kind = "supplement" -> 5

SameKindCompare(status, l, r, specify) ==
  CASE l.kind = "date" -> DateCompare(status, l, r, specify)
    [] l.kind = "word" -> StringCompare(status, l.word, r.word, specify)
    [] l.kind = "ordinal" -> OrdinalCompare(status, l, r, specify)
    [] l.kind = "volume" -> VolumeCompare(status, l, r, specify)
    [] l.kind = "supplement" -> SupplementCompare(status, l, r, specify)

SpecificationCompare(status, l, r, specify) ==
  IF Settles(status, l.kind = "none", r.kind = "none")
  THEN Settled(status, l.kind = "none", r.kind = "none", specify)
  ELSE IF l.kind = r.kind THEN SameKindCompare(status, l, r, specify)
  ELSE Ordered(KindRank(l), KindRank(r))

-----------------------------------------------------------------------------
(* Call numbers.                                                           *)

(* The caption has four parts; then there are three cutters, the first two *)
(* specifications, and those of the remainder that both numbers have.      *)
Segments(l, r) == 9 + Min({Len(l.remainder), Len(r.remainder)})

SegmentCompare(k, status, l, r, spec) ==
  CASE k = 1 -> StringCompare(status, l.letters, r.letters, spec)
    [] k = 2 -> IntegerCompare(status, l.integer, r.integer, spec)
    [] k = 3 -> DecimalCompare(status, l.decimal, r.decimal, spec)
    [] k = 4 -> DateordCompare(status, l.dateord, r.dateord, spec)
    [] k \in 5..7 -> CuttsegCompare(status, l.cutters[k - 4], r.cutters[k - 4], spec)
    [] k \in 8..9 ->
         SpecificationCompare(status, l.specifications[k - 7], r.specifications[k - 7], spec)
    [] OTHER ->
         SpecificationCompare(status, l.remainder[k - 9], r.remainder[k - 9], spec)

(* A mutation: the longer remainder is taken for the ancestor's.           *)
RemainderCompare_Swapped(status, l, r, spec) ==
  IF status # Same \/ Len(l.remainder) = Len(r.remainder) THEN status
  ELSE IF Len(l.remainder) < Len(r.remainder)
  THEN IF spec THEN Generalizing ELSE Ascending
  ELSE IF spec THEN Specifying ELSE Descending

(* The call number with the longer remainder belongs to the other one.     *)
RemainderCompare(status, l, r, spec) ==
  IF status # Same \/ Len(l.remainder) = Len(r.remainder) THEN status
  ELSE IF Len(l.remainder) < Len(r.remainder) THEN Within(spec, Specifying)
  ELSE Within(spec, Generalizing)

(* The results after each part: none has been compared after part 0.       *)
Statuses(l, r, spec) ==
  LET status[k \in 0..Segments(l, r)] ==
        IF k = 0 THEN Same ELSE SegmentCompare(k, status[k - 1], l, r, spec)
  IN  status

(* compareWithCallNumber:forSpecialization: in one step.                   *)
Compare(l, r, spec) ==
  RemainderCompare(Statuses(l, r, spec)[Segments(l, r)], l, r, spec)
=============================================================================
