------------------------- MODULE CallNumberPrinting -------------------------
(***************************************************************************)
(* bibtypeio.c: a call number, as CallNumberParser reads it, written as    *)
(* text in one of the styles of BibLCCallNumberFormatOptions.  The texts   *)
(* are those that fit the array they are written to.                       *)
(***************************************************************************)
EXTENDS CallNumberParser

Style ==
  [separator : {32, 10}, splitSubject : BOOLEAN, splitCutters : BOOLEAN,
   splitSections : BOOLEAN, extraCutpoint : BOOLEAN]

DefaultStyle ==
  [separator |-> 32, splitSubject |-> FALSE, splitCutters |-> FALSE,
   splitSections |-> FALSE, extraCutpoint |-> FALSE]

(* "%d", for a month or a day.                                             *)
Decimal(n) == IF n < 10 THEN <<48 + n>> ELSE <<48 + (n \div 10), 48 + (n % 10)>>

Space == <<32>>
EtcOf(numbered) == IF numbered.hasetc THEN <<Comma>> \o Space \o EtcWord \o <<Point>> ELSE << >>

(* Months and days are written as numbers.                                 *)
PrintDate(date) ==
  CASE date.form = "span" -> date.year \o date.separator \o date.span \o date.mark
    [] date.form = "day" ->
         date.year \o Space \o Decimal(date.month)
           \o IF date.day > 0 THEN Space \o Decimal(date.day) ELSE << >>
    [] date.form = "year" -> date.year \o date.mark

PrintOrdinal(ordinal) == ordinal.number \o ordinal.suffix

PrintDateord(dateord) ==
  CASE dateord.kind = "none" -> << >>
    [] dateord.kind = "date" -> PrintDate(dateord)
    [] dateord.kind = "ordinal" -> PrintOrdinal(dateord)

PrintSupplement(supplement) ==
  supplement.prefix \o (IF supplement.isabbr THEN <<Point>> ELSE << >>)
    \o Space \o supplement.number \o EtcOf(supplement)

PrintVolume(volume) == volume.prefix \o <<Point>> \o Space \o volume.number \o EtcOf(volume)

PrintSpecification(specification) ==
  CASE specification.kind = "supplement" -> PrintSupplement(specification)
    [] specification.kind = "volume" -> PrintVolume(specification)
    [] specification.kind = "word" -> specification.word
    [] OTHER -> PrintDateord(specification)

-----------------------------------------------------------------------------

HasDate(seg) == seg.dateord.kind # "none"

PrintCuttseg(seg, style) ==
  <<seg.letter>> \o seg.number \o seg.mark
    \o (IF HasDate(seg) THEN <<style.separator>> \o PrintDateord(seg.dateord) ELSE << >>)

(* A mutation: a date is not told apart from the cutter behind it.         *)
CutterGap_IgnoresDates(before, style) ==
  IF before = << >>
  THEN IF style.splitSections THEN <<style.separator, Point>> ELSE <<Point>>
  ELSE IF style.splitCutters THEN <<style.separator>> ELSE << >>

(* What stands before a cutter: a point before the first one, and in one   *)
(* style behind every date; a separator between cutters in some styles,    *)
(* and otherwise behind a date.                                            *)
CutterGap(before, style) ==
  LET dated == before # << >> /\ HasDate(Last(before))
      period == before = << >> \/ (dated /\ style.extraCutpoint)
      separated ==
        IF before = << >> THEN style.splitSections
        ELSE style.splitCutters
               \/ (dated /\ (~style.extraCutpoint \/ style.splitSections))
  IN (IF separated THEN <<style.separator>> ELSE << >>)
       \o (IF period THEN <<Point>> ELSE << >>)

(* The cutters that are there.                                             *)
Present(cutters) ==
  FlattenSeq([k \in DOMAIN cutters |->
                IF cutters[k].letter # 0 THEN <<cutters[k]>> ELSE << >>])

PrintCutters(cutters, style) ==
  LET present == Present(cutters)
      Piece(k) == CutterGap(SubSeq(present, 1, k - 1), style) \o PrintCuttseg(present[k], style)
  IN FlattenSeq([k \in DOMAIN present |-> Piece(k)])

PrintSpecifications(specifications, style) ==
  FlattenSeq([k \in DOMAIN specifications |->
                IF specifications[k].kind = "none" THEN << >>
                ELSE <<style.separator>> \o PrintSpecification(specifications[k])])

PrintLcCalln(number, style) ==
  number.letters
    \o (IF number.integer # << >> /\ style.splitSubject THEN <<style.separator>> ELSE << >>)
    \o number.integer
    \o (IF number.decimal # << >> THEN <<Point>> \o number.decimal ELSE << >>)
    \o (IF HasDate(number) THEN <<style.separator>> \o PrintDateord(number.dateord) ELSE << >>)
    \o PrintCutters(number.cutters, style)
    \o PrintSpecifications(number.specifications \o number.remainder, style)
=============================================================================
