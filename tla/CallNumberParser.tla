-------------------------- MODULE CallNumberParser --------------------------
(***************************************************************************)
(* bibparse.c: the parts of a call number, each tried at the position      *)
(* where the parts before it have ended and given up without a trace when  *)
(* it is not there.  A part is read by the rules of CallNumberLexer and is *)
(* kept as text; AsCompared is what the comparisons make of it.            *)
(***************************************************************************)
EXTENDS CallNumberLexer

None == [kind |-> "none"]
NoCutter == [letter |-> 0, number |-> << >>, mark |-> << >>, dateord |-> None]

Blank ==
  [letters |-> << >>, integer |-> << >>, decimal |-> << >>, dateord |-> None,
   cutters |-> <<NoCutter, NoCutter, NoCutter>>,
   specifications |-> <<None, None>>, remainder |-> << >>]

(* atoi, for digits.                                                       *)
NumberOf(digits) ==
  LET number[i \in 0..Len(digits)] ==
        IF i = 0 THEN 0 ELSE 10 * number[i - 1] + digits[i] - 48
  IN number[Len(digits)]

(* What is read, or what stands for it when it is not there.               *)
ValueOr(read, default) == IF read.ok THEN read.value ELSE default

FirstOf(read, other) == IF read.ok THEN read ELSE other

(* A part behind a space is read when both are there.                      *)
Behind(space, read) == [read EXCEPT !.ok = space.ok /\ @]

(* What has been read takes in the part that is next, if it is there.      *)
Then(read, part, next) ==
  IF read.ok /\ next.ok
  THEN [read EXCEPT !.value[part] = next.value, !.rest = next.rest]
  ELSE read

-----------------------------------------------------------------------------
(* Dates.                                                                  *)

Months ==
  <<Codes("Jan"), Codes("Feb"), Codes("Mar"), Codes("Apr"), Codes("May"), Codes("Jun"),
    Codes("Jul"), Codes("Aug"), Codes("Sept"), Codes("Oct"), Codes("Nov"), Codes("Dec")>>

DateBreaks == Spaces \cup Stops \cup {Point}

(* The number of a month of this name, or none.                            *)
MonthNamed(name) == Max({0} \cup {i \in DOMAIN Months : Months[i] = name})

(* A mutation: any capitalised word will do.                               *)
ParseMonth_AnyWord(buffer) ==
  LET capital == ReadChar(buffer, Capitals)
      letters == LexChars(capital.rest, Smalls, 4)
      month == MonthNamed(capital.value \o letters.value)
  IN Advanced(buffer, capital.ok /\ PeekChar(letters.rest, DateBreaks), month, letters.rest)

ParseMonth(buffer) ==
  LET capital == ReadChar(buffer, Capitals)
      letters == LexChars(capital.rest, Smalls, 4)
      month == MonthNamed(capital.value \o letters.value)
  IN Advanced(buffer, capital.ok /\ month # 0 /\ PeekChar(letters.rest, DateBreaks),
              month, letters.rest)

(* The month and day of a year.  The point of an abbreviated month is      *)
(* read, and so is the day unless it is out of range: then it is left for  *)
(* the parts behind the date, and is in the date as well.                  *)
ParseDateDate(buffer) ==
  LET comma == ReadChar(buffer, {Comma})
      space == ReadSpace(comma.rest)
      month == ParseMonth(space.rest)
      point == ReadPoint(month.rest)
      gap == ReadSpace(point.rest)
      digits == LexChars(gap.rest, Digits, 3)
      day == IF (point.ok \/ gap.ok) /\ digits.ok /\ PeekChar(digits.rest, DateBreaks)
             THEN NumberOf(digits.value) ELSE 0
  IN Advanced(buffer, space.ok /\ month.ok, [month |-> month.value, day |-> day],
              IF day \in 1..31 THEN digits.rest ELSE point.rest)

(* The other end of a span: four digits, or the first two there are.       *)
ParseDateSpan(buffer) ==
  LET separator == ReadChar(buffer, {Dash, Slash})
      year == LexYear(separator.rest)
      span == IF year.ok THEN year ELSE LexYearAbv(separator.rest)
  IN Advanced(buffer, separator.ok /\ span.ok,
              [separator |-> separator.value, span |-> span.value], span.rest)

DateOf(buffer, year, span, date, mark) ==
  IF ~year.ok THEN Failed(buffer)
  ELSE IF span.ok
  THEN Advanced(buffer, TRUE,
                [kind |-> "date", form |-> "span", year |-> year.value,
                 separator |-> span.value.separator, span |-> span.value.span,
                 mark |-> ValueOr(mark, << >>)], mark.rest)
  ELSE IF date.ok
  THEN Advanced(buffer, TRUE,
                [kind |-> "date", form |-> "day", year |-> year.value,
                 month |-> date.value.month, day |-> date.value.day, mark |-> << >>],
                date.rest)
  ELSE Advanced(buffer, TRUE,
                [kind |-> "date", form |-> "year", year |-> year.value,
                 mark |-> ValueOr(mark, << >>)], mark.rest)

(* A mark may follow a span or a year alone.                               *)
ParseDate(buffer) ==
  LET year == LexYear(buffer)
      span == ParseDateSpan(year.rest)
  IN DateOf(buffer, year, span, ParseDateDate(year.rest), LexMark(span.rest))

-----------------------------------------------------------------------------
(* Numbers with a word before or behind them.                              *)

(* Which letters end an ordinal depends on the place it is read in.        *)
LexOrdinalSuffix(buffer, place) ==
  CASE place = "caption" -> LexCaptionOrdinalSuffix(buffer)
    [] place = "cutter" -> LexCutterOrdinalSuffix(buffer)
    [] place = "specification" -> LexSpecificationOrdinalSuffix(buffer)

ParseOrdinal(buffer, place) ==
  LET number == LexDigit16(buffer)
      suffix == LexOrdinalSuffix(number.rest, place)
  IN Advanced(buffer, number.ok /\ suffix.ok,
              [kind |-> "ordinal", number |-> number.value, suffix |-> suffix.value],
              suffix.rest)

ParseDateord(buffer, place) == FirstOf(ParseDate(buffer), ParseOrdinal(buffer, place))

(* The date or ordinal behind a caption or cutter, if there is one.        *)
WithDateord(read, place) ==
  LET space == ReadSpace(read.rest)
  IN Then(read, "dateord", Behind(space, ParseDateord(space.rest, place)))

(* A volume's prefix ends with a point, and a space may follow.            *)
ParseVolume(buffer) ==
  LET prefix == LexVolumePrefix(buffer)
      number == LexDigit16(ReadSpace(prefix.rest).rest)
      etc == ReadEtc(number.rest)
  IN Advanced(buffer, prefix.ok /\ number.ok,
              [kind |-> "volume", prefix |-> prefix.value, number |-> number.value,
               hasetc |-> etc.ok], etc.rest)

(* A supplement's prefix may end with a point, and a space has to follow.  *)
ParseSupplement(buffer) ==
  LET prefix == LexSupplementPrefix(buffer)
      point == ReadPoint(prefix.rest)
      space == ReadSpace(point.rest)
      number == LexDigit16(space.rest)
      etc == ReadEtc(number.rest)
  IN Advanced(buffer, prefix.ok /\ space.ok /\ number.ok,
              [kind |-> "supplement", prefix |-> prefix.value, number |-> number.value,
               hasetc |-> etc.ok, isabbr |-> point.ok], etc.rest)

-----------------------------------------------------------------------------
(* Cutters.                                                                *)

(* A letter alone is a cutter only where the text stops.  A mark of one    *)
(* letter is left to be the next cutter.                                   *)
ParseCutter(buffer) ==
  LET letter == LexInitial(buffer)
      number == LexDigit16(letter.rest)
      mark == LexMark(number.rest)
      hasMark == number.ok /\ Len(mark.value) > 1
  IN Advanced(buffer, letter.ok /\ (number.ok \/ PeekChar(number.rest, Stops)),
              [letter |-> letter.value, number |-> number.value,
               mark |-> IF hasMark THEN mark.value ELSE << >>, dateord |-> None],
              IF hasMark THEN mark.rest ELSE number.rest)

ParseCuttseg(buffer) == WithDateord(ParseCutter(buffer), "cutter")

(* Whether a cutter has to stand apart from the one before it.             *)
NeedsSpaceAfter(seg) == seg.dateord.kind # "none" \/ seg.mark # << >>

(* One turn of the loop over the cutters.                                  *)
AddCuttseg(list, apart, rest, seg) ==
  IF list.stop THEN list
  ELSE IF list.segs # << >> /\ NeedsSpaceAfter(Last(list.segs)) /\ ~apart
  THEN [list EXCEPT !.stop = TRUE, !.ok = PeekBreak(rest)]
  ELSE IF seg.ok
  THEN [list EXCEPT !.segs = Append(@, seg.value), !.rest = seg.rest]
  ELSE [list EXCEPT !.stop = TRUE, !.ok = list.segs # << >> \/ PeekBreak(rest)]

ParseNextCuttseg(list) ==
  LET space == IF list.segs = << >> THEN Failed(list.rest) ELSE ReadSpace(list.rest)
      point == ReadPoint(space.rest)
  IN AddCuttseg(list, space.ok \/ point.ok, point.rest, ParseCuttseg(point.rest))

CuttersOf(buffer, list) ==
  LET Cutter(k) == IF k \in DOMAIN list.segs THEN list.segs[k] ELSE NoCutter
  IN Advanced(buffer, list.ok, <<Cutter(1), Cutter(2), Cutter(3)>>, list.rest)

(* At most three cutters, with a point before the first.                   *)
ParseCuttsegList(buffer) ==
  LET start == [segs |-> << >>, rest |-> ReadPoint(buffer).rest, stop |-> FALSE, ok |-> TRUE]
  IN CuttersOf(buffer, ParseNextCuttseg(ParseNextCuttseg(ParseNextCuttseg(start))))

-----------------------------------------------------------------------------
(* Specifications.                                                         *)

Padded(text, size) == text \o [i \in 1..(size - Len(text)) |-> 0]

(* The bytes of a bib_volume_t.                                            *)
VolumeBytes(volume) ==
  Padded(volume.prefix, SizeOfWord) \o Padded(volume.number, SizeOfDigit16)
    \o <<IF volume.hasetc THEN 1 ELSE 0>>

(* The kinds are tried in one union.  An attempt that fails clears what it *)
(* has written, but a volume that is read and turns out not to end with a  *)
(* word is left there, and a word is written over it without a NUL.        *)
WordLaidOver(word, volume) ==
  IF ~volume.ok THEN word
  ELSE LET bytes == VolumeBytes(volume.value)
           union == word \o SubSeq(bytes, Len(word) + 1, Len(bytes))
       IN SubSeq(union, 1, Matching(union, 1..127, Len(union)))

EndingWord(read) == [read EXCEPT !.ok = @ /\ PeekBreak(read.rest)]

ParseWord(buffer, volume) ==
  LET word == LexLongword(buffer)
  IN Advanced(buffer, EndingWord(word).ok,
              [kind |-> "word", word |-> WordLaidOver(word.value, volume)], word.rest)

(* The kinds of specification in the order in which they are tried.        *)
ParseLcSpecification(buffer) ==
  FirstOf(EndingWord(ParseDate(buffer)),
  FirstOf(EndingWord(ParseOrdinal(buffer, "specification")),
  FirstOf(EndingWord(ParseSupplement(buffer)),
  FirstOf(EndingWord(ParseVolume(buffer)),
          ParseWord(buffer, ParseVolume(buffer))))))

(* Every specification, with a space before it, as long as there is one.   *)
AddSpecification(list, next) ==
  IF next.ok THEN [list EXCEPT !.value = Append(@, next.value), !.rest = next.rest] ELSE list

ParseNextSpecification(list) ==
  LET space == ReadSpace(list.rest)
  IN AddSpecification(list, Behind(space, ParseLcSpecification(space.rest)))

ParseLcRemainder(buffer) ==
  LET spaces == Cardinality({i \in DOMAIN buffer : buffer[i] \in Spaces})
      list[k \in 0..spaces] ==
        IF k = 0 THEN [ok |-> TRUE, value |-> << >>, rest |-> buffer]
        ELSE ParseNextSpecification(list[k - 1])
  IN list[spaces]

-----------------------------------------------------------------------------
(* Call numbers.                                                           *)

ParseLcSubjectBase(buffer) ==
  LET letters == LexSubclass(buffer)
      integer == LexInteger(ReadSpace(letters.rest).rest)
      decimal == LexDecimal(integer.rest)
  IN IF letters.ok /\ integer.ok
     THEN Advanced(buffer, TRUE,
                   [Blank EXCEPT !.letters = letters.value, !.integer = integer.value,
                                 !.decimal = decimal.value], decimal.rest)
     ELSE Advanced(buffer, letters.ok, [Blank EXCEPT !.letters = letters.value], letters.rest)

ParseLcSubject(buffer) == WithDateord(ParseLcSubjectBase(buffer), "caption")

(* The first two specifications have places of their own.                  *)
WithSpecifications(calln, list) ==
  LET Place(k) == IF k \in DOMAIN list.value THEN list.value[k] ELSE None
  IN IF ~calln.ok THEN calln
     ELSE [calln EXCEPT
             !.value.specifications = <<Place(1), Place(2)>>,
             !.value.remainder = SubSeq(list.value, 3, Len(list.value)),
             !.rest = list.rest]

WithCutters(calln) ==
  Then(calln, "cutters", ParseCuttsegList(ReadSpace(calln.rest).rest))

WithRemainder(calln) == WithSpecifications(calln, ParseLcRemainder(calln.rest))

(* The subject, then the cutters, two specifications and the remainder; a  *)
(* part of the last three is only tried when those before it are there.    *)
ParseLcCalln(buffer) == WithRemainder(WithCutters(ParseLcSubject(buffer)))
=============================================================================
