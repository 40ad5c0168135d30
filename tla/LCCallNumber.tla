---------------------------- MODULE LCCallNumber ----------------------------
(***************************************************************************)
(* BibLCCallNumber: a call number made from a string, and the strings it   *)
(* gives for itself, which a client keeps and makes call numbers from.     *)
(***************************************************************************)
EXTENDS CallNumberPrinting

CONSTANTS
  Texts,   \* the strings a client has
  Styles,  \* the options it asks strings for
  Shelved  \* the strings of the call numbers it compares with

ASSUME TextsAssumption == Texts \subseteq Seq(1..127)
ASSUME ShelvedAssumption == Shelved \subseteq Seq(1..127)
ASSUME StylesAssumption == Styles \subseteq Style

VARIABLES
  text,    \* the string of the newest call number
  made,    \* "not yet", or whether there is a call number of it: "yes", "nil"
  number,  \* its parts
  origin,  \* the call number that gave the string, if one did
  style    \* and in what style

lcVars == <<text, made, number, origin, style>>

(* stringByTrimmingCharactersInSet:, and the NUL of the C string.          *)
BufferOf(string) ==
  LET inner == {i \in DOMAIN string : string[i] \notin Spaces}
  IN IF inner = {} THEN <<0>> ELSE SubSeq(string, Min(inner), Max(inner)) \o <<0>>

(* A mutation: what is left over of the string is ignored.                 *)
InitLcCalln_AnyRest(string) == ParseLcCalln(BufferOf(string))

(* bib_lc_calln_init: the whole string has to be read.                     *)
ToTheEnd(calln) == IF Len(calln.rest) = 1 THEN calln ELSE Failed(calln.rest)

InitLcCalln(string) == ToTheEnd(ParseLcCalln(BufferOf(string)))

-----------------------------------------------------------------------------
(* What the comparisons of bibtype.c make of the parts.                    *)

DateAsCompared(date) ==
  CASE date.form = "span" ->
         [kind |-> "date", form |-> "span", year |-> NumberOf(date.year),
          span |-> NumberOf(date.span), mark |-> date.mark]
    [] date.form = "day" -> [date EXCEPT !.year = NumberOf(@)]
    [] date.form = "year" -> [date EXCEPT !.year = NumberOf(@)]

PartAsCompared(part) ==
  CASE part.kind = "date" -> DateAsCompared(part)
    [] part.kind = "supplement" ->
         [kind |-> "supplement", prefix |-> part.prefix, number |-> part.number,
          hasetc |-> part.hasetc]
    [] OTHER -> part

CuttsegAsCompared(seg) == [seg EXCEPT !.dateord = PartAsCompared(@)]

PartsAsCompared(parts) == [k \in DOMAIN parts |-> PartAsCompared(parts[k])]

AsCompared(calln) ==
  [calln EXCEPT
     !.integer = IF @ = << >> THEN Absent ELSE NumberOf(@),
     !.dateord = PartAsCompared(@),
     !.cutters = [k \in 1..3 |-> CuttsegAsCompared(@[k])],
     !.specifications = PartsAsCompared(@),
     !.remainder = PartsAsCompared(@)]

CompareNumbers(l, r, specify) == Compare(AsCompared(l), AsCompared(r), specify)

-----------------------------------------------------------------------------

LCInit ==
  /\ text \in Texts
  /\ made = "not yet"
  /\ number = Blank
  /\ origin = << >>
  /\ style = DefaultStyle

(* initWithString:                                                         *)
InitWithString ==
  /\ made = "not yet"
  /\ LET calln == InitLcCalln(text)
     IN /\ made' = IF calln.ok THEN "yes" ELSE "nil"
        /\ number' = ValueOr(calln, Blank)
  /\ UNCHANGED <<text, origin, style>>

(* stringWithFormatOptions:, and the string becomes the next one's.  The   *)
(* call number that gave it is kept to compare the next one with.          *)
StringWithFormatOptions(options) ==
  /\ made = "yes"
  /\ origin = << >>
  /\ text' = PrintLcCalln(number, options)
  /\ style' = options
  /\ origin' = <<number>>
  /\ made' = "not yet"
  /\ number' = Blank

LCNext == InitWithString \/ \E options \in Styles : StringWithFormatOptions(options)

LCSpec == LCInit /\ [][LCNext]_lcVars

-----------------------------------------------------------------------------

(* What a string of a call number does not tell.                           *)

PartsOf(calln) ==
  <<calln.dateord>> \o [k \in 1..3 |-> calln.cutters[k].dateord]
    \o calln.specifications \o calln.remainder

(* A month is written as a number, which is not read as a month.           *)
NamesAMonth(calln) ==
  \E k \in DOMAIN PartsOf(calln) :
    PartsOf(calln)[k].kind = "date" /\ PartsOf(calln)[k].form = "day"

(* What stands before a cutter: the caption's date or ordinal, or the      *)
(* cutter before it.                                                       *)
DateordBefore(calln, k) ==
  IF k = 1 THEN calln.dateord ELSE calln.cutters[k - 1].dateord

MarkBefore(calln, k) ==
  IF DateordBefore(calln, k).kind = "date" THEN DateordBefore(calln, k).mark
  ELSE IF k = 1 THEN << >> ELSE calln.cutters[k - 1].mark

(* A mark ends with its word, and so does a cutter's ordinal: a cutter     *)
(* behind them, or its point, has to stand apart.  It does behind a date   *)
(* in most styles, and behind another cutter when cutters are split.       *)
RunsTogether(calln, options) ==
  \E k \in 1..3 :
    /\ calln.cutters[k].letter # 0
    /\ CutterGap(SubSeq(calln.cutters, 1, k - 1), options) \in {<< >>, <<Point>>}
    /\ \/ MarkBefore(calln, k) # << >>
       \/ k > 1 /\ DateordBefore(calln, k).kind = "ordinal"

(* The point that had kept a specification apart from the caption was read *)
(* as that of a first cutter that is not there, and is not written.        *)
LosesItsPoint(calln) ==
  /\ calln.cutters[1].letter = 0
  /\ LET word == PrintSpecification(calln.specifications[1]) \o <<0>>
     IN \/ ParseCutter(word).ok
        \/ calln.dateord.kind = "none" /\ ParseDateord(word, "caption").ok
        \/ calln.integer = << >> /\ LexInteger(word).ok

(* A long word that begins like a volume may have other characters behind  *)
(* it than the string had (WordLaidOver).                                  *)
IsLaidOver(calln) ==
  \E k \in DOMAIN PartsOf(calln) :
    LET part == PartsOf(calln)[k]
    IN /\ part.kind = "word"
       /\ Len(part.word) >= SizeOfWord
       /\ ParseVolume(part.word \o <<0>>).ok

IsTold(calln, options) ==
  /\ ~NamesAMonth(calln)
  /\ ~RunsTogether(calln, options)
  /\ ~LosesItsPoint(calln)
  /\ ~IsLaidOver(calln)

Squeezed(string) ==
  LET characters == SelectSeq(string, LAMBDA c : c \notin Spaces \cup {Point, Comma})
  IN [i \in DOMAIN characters |-> Upper(characters[i])]

-----------------------------------------------------------------------------
(* Properties.                                                             *)

(* Every part the parser makes is one the comparisons know: whatever is    *)
(* read in one union as one kind, or given up half way, leaves no part     *)
(* without the texts and numbers of its kind.                              *)
MadeIsComparable == made = "yes" => AsCompared(number) \in CallNumber

ReadBack == origin # << >> /\ made # "not yet"

(* The string of a call number, in any style, is read as the same parts:   *)
(* what the printer leaves out is what the parser does not need to keep    *)
(* them apart.  The exceptions are what a string does not tell.            *)
StringIsReadBack ==
  ReadBack /\ IsTold(origin[1], style) => made = "yes" /\ number = origin[1]

(* A call number's string has the letters and digits of the one it was     *)
(* made from, in their order, in every style: no part is lost when an      *)
(* attempt to read it as another kind fails, and none is read twice.       *)
StringKeepsTheCharacters ==
  [][\/ origin' = origin
     \/ NamesAMonth(number) \/ IsLaidOver(number)
     \/ Squeezed(text') = Squeezed(text)]_lcVars

IsSpan(part) == part.kind = "date" /\ part.form = "span"

(* The years that spans end with: "95" and "0095" are the same one.        *)
SpanEnds(parts) ==
  [k \in DOMAIN parts |-> IF IsSpan(parts[k]) THEN NumberOf(parts[k].span) ELSE Absent]

(* A part as it would be written if only what isEqual: looks at were.      *)
Essential(part) ==
  CASE IsSpan(part) -> [part EXCEPT !.separator = <<Dash>>, !.span = << >>]
    [] part.kind = "supplement" -> [part EXCEPT !.isabbr = FALSE]
    [] OTHER -> part

EssentialCuttseg(seg) == [seg EXCEPT !.dateord = Essential(@)]

EssentialParts(parts) == [k \in DOMAIN parts |-> Essential(parts[k])]

EssentialNumber(calln) ==
  [calln EXCEPT
     !.integer = << >>,
     !.dateord = Essential(@),
     !.cutters = [k \in 1..3 |-> EssentialCuttseg(@[k])],
     !.specifications = EssentialParts(@),
     !.remainder = EssentialParts(@)]

(* What a call number's string tells when all that isEqual: does not look  *)
(* at is taken out of it: case, the zeros before the caption's integer and *)
(* before a span's end, what the years of a span are written with, and the *)
(* point of an abbreviated supplement.                                     *)
Significant(calln) ==
  LET string == PrintLcCalln(EssentialNumber(calln), DefaultStyle)
  IN [integer |-> NumberOf(calln.integer),
      ends |-> SpanEnds(PartsOf(calln)),
      string |-> [i \in DOMAIN string |-> Upper(string[i])]]

OnShelf == {calln \in {InitLcCalln(string) : string \in Shelved} : calln.ok}

(* hash is that of the string although isEqual: compares the parts, so     *)
(* that equal call numbers may have two hashes.  They only do when their   *)
(* strings differ in what Significant leaves out: no part that the string  *)
(* tells is forgotten by the comparisons that isEqual: is put together of. *)
EqualNumbersPrintAlike ==
  made = "yes" =>
    \A other \in OnShelf :
      CompareNumbers(number, other.value, FALSE) = Same
        => Significant(number) = Significant(other.value)
=============================================================================
