------------------------ MODULE CallNumberComparison ------------------------
(***************************************************************************)
(* bib_lc_calln_compare: two call numbers, compared part by part, with the *)
(* result of each part handed to the next one.  A sort or an inclusion     *)
(* asks it in either direction, and a client may ask for inclusion and for *)
(* the order, so three comparisons of one pair are followed here: `result` *)
(* is the left call number's with the right one, `opposite` the right      *)
(* one's with the left, and `shelf` what compare: says of the two.         *)
(***************************************************************************)
EXTENDS CallNumberSegments

CONSTANT CallNumbers  \* the call numbers that are compared

ASSUME CallNumberAssumption == CallNumbers \subseteq CallNumber

VARIABLES
  left,      \* the receiver's call number
  right,     \* the other one
  specify,   \* compareWithCallNumber: (TRUE) or compare: (FALSE)
  segment,   \* the part that is compared next
  result,    \* of left with right
  opposite,  \* of right with left
  shelf      \* of left with right, by compare:

question == <<left, right, specify>>
vars == <<question, segment, result, opposite, shelf>>

-----------------------------------------------------------------------------

Init ==
  /\ left \in CallNumbers
  /\ right \in CallNumbers
  /\ specify \in BOOLEAN
  /\ segment = 1
  /\ result = Same
  /\ opposite = Same
  /\ shelf = Same

CompareSegment ==
  /\ segment <= Segments(left, right)
  /\ result' = SegmentCompare(segment, result, left, right, specify)
  /\ opposite' = SegmentCompare(segment, opposite, right, left, specify)
  /\ shelf' = SegmentCompare(segment, shelf, left, right, FALSE)
  /\ segment' = segment + 1
  /\ UNCHANGED question

CompareRemainders ==
  /\ segment = Segments(left, right) + 1
  /\ result' = RemainderCompare(result, left, right, specify)
  /\ opposite' = RemainderCompare(opposite, right, left, specify)
  /\ shelf' = RemainderCompare(shelf, left, right, FALSE)
  /\ segment' = segment + 1
  /\ UNCHANGED question

Next == CompareSegment \/ CompareRemainders

Spec == Init /\ [][Next]_vars

Compared == segment = Segments(left, right) + 2

-----------------------------------------------------------------------------

(* compare: and includesCallNumber: over every pair.                       *)
Order == [l \in CallNumbers |-> [r \in CallNumbers |-> Compare(l, r, FALSE)]]

Included ==
  [l \in CallNumbers |-> {r \in CallNumbers : Compare(l, r, TRUE) \in {Same, Specifying}}]

(* Where a call number may have a date.                                    *)
DateAt(k, n) ==
  CASE k = 4 -> n.dateord
    [] k \in 5..7 -> n.cutters[k - 4].dateord
    [] k \in 8..9 -> n.specifications[k - 7]
    [] OTHER -> n.remainder[k - 9]

(* What is known when the dates of part k are compared.                    *)
BeforeDate(k, l, r) ==
  LET status == Statuses(l, r, TRUE)[k - 1]
  IN IF k \in 5..7
     THEN CutterCompare(status, l.cutters[k - 4], r.cutters[k - 4], TRUE)
     ELSE status

(* The parts where both numbers have a date after one has become the       *)
(* ancestor of the other: dates are the only parts that are still compared *)
(* then, and do not have to be missing on the ancestor's side.             *)
LateDates(l, r) ==
  {k \in 4..Segments(l, r) :
     /\ DateAt(k, l).kind = "date" /\ DateAt(k, r).kind = "date"
     /\ BeforeDate(k, l, r) \in {Specifying, Generalizing}}

OnOtherDays(l, r) ==
  l.form = "day" /\ r.form = "day" /\ l.month = r.month /\ l.day # r.day

(* Spans that begin with the same year stand before the year, and none     *)
(* includes another one.                                                   *)
OtherSpans(l, r) ==
  \E k \in 4..Segments(l, r) :
    LET a == DateAt(k, l)
        b == DateAt(k, r)
    IN a.kind = "date" /\ b.kind = "date" /\ a.form = "span" /\ b.form = "span"
         /\ a.span # b.span

(* The first number goes on where the second one ends.  Once it is the     *)
(* ancestor, what it goes on with is not looked at.                        *)
Outlasts(l, r) == Len(l.remainder) > Len(r.remainder)

(* Volumes or supplements of which only one is followed by "etc.": the one *)
(* that is does not include the others, and no supplement includes it.     *)
OtherEtc(l, r) ==
  \E k \in 8..Segments(l, r) :
    LET a == DateAt(k, l)
        b == DateAt(k, r)
    IN a.kind = b.kind /\ a.kind \in {"volume", "supplement"} /\ a.hasetc # b.hasetc

(* compare: is the same asked from either side, after every part.          *)
ShelfOrderIsAntisymmetric == ~specify => opposite = -result

(* So is compareWithCallNumber:, except for two days of one month that are *)
(* compared when a specialization is known: both directions are ascending. *)
InclusionIsAntisymmetric ==
  specify =>
    \/ opposite = -result
    \/ \E k \in LateDates(left, right) : OnOtherDays(DateAt(k, left), DateAt(k, right))

(* compare: orders call numbers on one shelf: a number before or at a      *)
(* second, which is before or at a third, is before or at the third, and   *)
(* at it only when all three are equal.                                    *)
ShelfOrderIsTransitive ==
  Compared /\ ~specify /\ result # Descending =>
    \A third \in {n \in CallNumbers : Order[right][n] # Descending} :
      /\ Order[left][third] # Descending
      /\ Order[left][third] = Same => result = Same

(* A number that includes another one comes before it on the shelf, and    *)
(* the two are the same in both comparisons or in neither                  *)
(* (BibClassificationOrderedSpecifying, OrderedGeneralizing), after every  *)
(* part.                                                                   *)
AncestorsComeFirst ==
  specify =>
    /\ result = Specifying => shelf = Ascending
    /\ result = Generalizing => shelf = Descending
    /\ (result = Same) <=> (shelf = Same)

(* What a call number includes, it includes with everything that is        *)
(* included there, unless it goes on where the one it includes ends, or a  *)
(* date is compared late on the way.                                       *)
InclusionIsTransitive ==
  Compared /\ specify /\ result \in {Same, Specifying} =>
    \A third \in Included[right] \ Included[left] :
      \/ Outlasts(left, right)
      \/ LateDates(left, right) # {}
      \/ LateDates(right, third) # {}

(* What a call number includes stands together behind it on the shelf: a   *)
(* number between it and one that it includes is included too.  Not so for *)
(* one that goes on where the other ends, for dates compared late, for a   *)
(* span with another end, and for a volume with an "etc." that the first   *)
(* number's does not have, or the reverse.                                 *)
DescendantsAreContiguous ==
  Compared /\ specify /\ result \in {Same, Specifying} =>
    \A third \in {n \in CallNumbers \ Included[left] :
                   Order[left][n] # Descending /\ Order[n][right] # Descending} :
      \/ Outlasts(left, right)
      \/ LateDates(left, right) # {}
      \/ OtherSpans(left, third)
      \/ OtherEtc(left, third)

(* A part never changes what an earlier one has decided, and never turns a *)
(* specialization round or makes the numbers the same again.               *)
DecisionIsFinal ==
  [][/\ result \in Decided => result' = result
     /\ result = Specifying => result' \notin {Same, Generalizing}
     /\ result = Generalizing => result' \notin {Same, Specifying}]_vars

(* BibLCCallNumber.h:159-164: a number compareWithCallNumber: finds    *)
(* ascending is ordered before the other one, a descending one after it.   *)
(* Not so: parts of two kinds, and dates of two years, are put in order    *)
(* whatever an earlier part has found.                                     *)
AscendingIsOrderedBefore ==
  Compared /\ specify =>
    /\ result = Ascending => shelf = Ascending
    /\ result = Descending => shelf = Descending
=============================================================================
