--------------------------- MODULE CallNumberLexer ---------------------------
(***************************************************************************)
(* biblex.c: the readers of the pieces of a call number.                   *)
(*                                                                         *)
(* A string buffer is what is left of a text, as a sequence of ASCII       *)
(* codes: its end is the text's NUL, and its first element is the          *)
(* character at the reader's position.  Every reader takes a buffer and    *)
(* gives whether it succeeded, what it has read, and the buffer after it,  *)
(* which is the one it was given when it fails.                            *)
(***************************************************************************)
EXTENDS CallNumberSegments

(* The characters from the comma on, with six that are left out.           *)
Printable ==
  ",-./0123456789:;<=>?@ABCDEFGHIJKLMNOPQRSTUVWXYZ[[[[[[abcdefghijklmnopqrstuvwxyz"

(* The code of a character, and the codes of a string of them.             *)
Code(character) ==
  IF character = " " THEN 32
  ELSE 43 + CHOOSE i \in 1..Len(Printable) : SubSeq(Printable, i, i) = character

Codes(string) == [i \in 1..Len(string) |-> Code(SubSeq(string, i, i))]

Comma == 44
Dash == 45
Point == 46
Slash == 47

EtcWord == <<101, 116, 99>>

Capitals == 65..90
Smalls == 97..122
Alpha == Capitals \cup Smalls
Digits == 48..57
Spaces == (9..13) \cup {32}
Stops == {0, 3} \cup (28..31)
NotSpace == (1..127) \ Spaces

(* The lengths of the character arrays, with the NUL that ends them.       *)
SizeOfSubclass == 4
SizeOfInteger == 7
SizeOfDigit16 == 17
SizeOfYear == 5
SizeOfMark == 5
SizeOfWord == 17
SizeOfLongword == 25

-----------------------------------------------------------------------------
(* Moving on.                                                              *)

(* A step that would leave nothing is not taken, although it succeeds.     *)
AdvanceStep(buffer, step) ==
  IF step < Len(buffer) THEN SubSeq(buffer, step + 1, Len(buffer)) ELSE buffer

Failed(buffer) == [ok |-> FALSE, value |-> << >>, rest |-> buffer]

(* bib_advance_strbuf: a reader that worked on a copy of the buffer takes  *)
(* over the copy, which has to be shorter.                                 *)
Advanced(buffer, success, value, rest) ==
  IF success /\ Len(rest) < Len(buffer)
  THEN [ok |-> TRUE, value |-> value, rest |-> rest]
  ELSE Failed(buffer)

(* How many of the first characters, at most `limit`, are among `chars`.   *)
Matching(buffer, chars, limit) ==
  Min({i \in 0..Min({limit, Len(buffer)}) :
         i \in {limit, Len(buffer)} \/ buffer[i + 1] \notin chars})

Taken(buffer, length) ==
  [ok |-> length > 0, value |-> SubSeq(buffer, 1, length), rest |-> AdvanceStep(buffer, length)]

(* One or more characters, as many as an array of the size takes.          *)
LexChars(buffer, chars, size) == Taken(buffer, Matching(buffer, chars, size - 1))

ReadChar(buffer, chars) == LexChars(buffer, chars, 2)
ReadPoint(buffer) == ReadChar(buffer, {Point})
ReadSpace(buffer) == LexChars(buffer, Spaces, Len(buffer) + 1)

PeekChar(buffer, chars) == buffer # << >> /\ buffer[1] \in chars

(* A word ends here.                                                       *)
PeekBreak(buffer) == buffer = << >> \/ PeekChar(buffer, Spaces \cup Stops)

(* ", etc."                                                                *)
ReadEtc(buffer) ==
  LET comma == ReadChar(buffer, {Comma})
      space == ReadSpace(comma.rest)
      word == LexChars(space.rest, Smalls, 4)
      point == ReadPoint(word.rest)
  IN Advanced(buffer,
              comma.ok /\ space.ok /\ word.value = EtcWord /\ point.ok,
              TRUE, point.rest)

-----------------------------------------------------------------------------
(* Pieces of a call number.                                                *)

LexInteger(buffer) == LexChars(buffer, Digits, SizeOfInteger)
LexDigit16(buffer) == LexChars(buffer, Digits, SizeOfDigit16)

(* A comma is taken for the point of a decimal.                            *)
LexDecimal(buffer) ==
  LET point == ReadChar(buffer, {Point, Comma})
      digits == LexDigit16(point.rest)
  IN Advanced(buffer, point.ok /\ digits.ok, digits.value, digits.rest)

LexYear(buffer) ==
  LET digits == LexChars(buffer, Digits, SizeOfYear)
  IN Advanced(buffer, Len(digits.value) = 4, digits.value, digits.rest)

LexYearAbv(buffer) ==
  LET digits == LexChars(buffer, Digits, 3)
  IN Advanced(buffer, Len(digits.value) = 2, digits.value, digits.rest)

(* Letters that end with the word.                                         *)
WordOf(buffer, size) ==
  LET letters == LexChars(buffer, Alpha, size)
  IN Advanced(buffer, letters.ok /\ PeekBreak(letters.rest), letters.value, letters.rest)

LexMark(buffer) == WordOf(buffer, SizeOfMark)

LexCutterOrdinalSuffix(buffer) == WordOf(buffer, SizeOfWord)

(* A caption's suffix may be followed by the point of the first cutter.    *)
LexCaptionOrdinalSuffix(buffer) ==
  LET letters == LexChars(buffer, Alpha, SizeOfWord)
  IN Advanced(buffer,
              letters.ok /\ (PeekBreak(letters.rest) \/ ReadPoint(letters.rest).ok),
              letters.value, letters.rest)

(* Letters with single points between them and one at the end, where the   *)
(* word ends too.  A suffix that fills its array with a letter is taken    *)
(* without the point.                                                      *)
LexSpecificationOrdinalSuffix(buffer) ==
  LET word == LexChars(buffer, Alpha \cup {Point}, SizeOfWord)
      length == Len(word.value)
  IN Advanced(buffer,
              /\ PeekChar(buffer, Alpha)
              /\ \A i \in 2..length : word.value[i - 1] # Point \/ word.value[i] # Point
              /\ IF word.value[length] = Point THEN PeekBreak(word.rest)
                 ELSE length = SizeOfWord - 1,
              word.value, word.rest)

(* Letters of the class, which become capitals.                            *)
LexSubclass(buffer) ==
  LET letters == LexChars(buffer, Alpha, SizeOfSubclass)
  IN [letters EXCEPT !.value = [i \in DOMAIN letters.value |-> Upper(letters.value[i])]]

LexInitial(buffer) ==
  LET letter == ReadChar(buffer, Alpha)
  IN [letter EXCEPT !.value = IF letter.ok THEN Upper(letter.value[1]) ELSE 0]

LexVolumePrefix(buffer) ==
  LET letters == LexChars(buffer, Smalls, SizeOfWord)
      point == ReadPoint(letters.rest)
  IN Advanced(buffer, letters.ok /\ point.ok, letters.value, point.rest)

LexSupplementPrefix(buffer) ==
  LET capital == ReadChar(buffer, Capitals)
      letters == LexChars(capital.rest, Smalls, SizeOfWord - 1)
  IN Advanced(buffer, capital.ok, capital.value \o letters.value, letters.rest)

LexLongword(buffer) == LexChars(buffer, NotSpace, SizeOfLongword)
=============================================================================
