------------------------ MODULE CharacterConversion ------------------------
(***************************************************************************)
(* bib_char_convert: converts one string after another with the same iconv *)
(* converter, into a buffer that grows when it is full.                    *)
(*                                                                         *)
(* A character is known by the bytes it takes in its own encoding and in   *)
(* the other one.  The converter (yaz_iconv) is external: it may hold the  *)
(* last character back until it sees another one or is flushed, and a      *)
(* flush may add an escape sequence.                                       *)
(***************************************************************************)
EXTENDS Integers, Sequences

CONSTANTS
  Names,      \* what characters are called
  Strings,    \* the strings a client converts: sequences of characters
  Expansion,  \* how much the buffer grows the first time: 32 bytes
  MaxStrings  \* bound: how many strings one converter is given

Character == [from : Nat, to : Nat, valid : BOOLEAN, name : Names]
Nul == [from |-> 1, to |-> 1, valid |-> TRUE, name |-> "NUL"]
Escape == [from |-> 0, to |-> 3, valid |-> TRUE, name |-> "ESC"]

(* A string ends at its first NUL, and so has none.                        *)
ASSUME ConversionAssumption ==
  /\ {"NUL", "ESC"} \subseteq Names
  /\ \A s \in Strings : s \in Seq(Character \ {Nul})
  /\ Expansion \in Nat \ {0}
  /\ MaxStrings \in Nat

VARIABLES
  count,         \* the strings begun so far
  string,        \* the one being converted, with its NUL
  next,          \* in_buffer: the character the converter takes next
  held,          \* external: characters taken and not written yet
  written,       \* what result_buffer holds
  resultLength,  \* result_length
  outLength,     \* out_length
  factor,        \* expansion_factor
  allocated,     \* the size of the allocation behind result_buffer
  phase          \* "ready", "convert", "flush", "done" or "failed"

conversion == <<string, next, held, written>>
buffer == <<resultLength, outLength, factor, allocated>>
vars == <<count, conversion, buffer, phase>>

Total(sizes) ==
  LET total[k \in 0..Len(sizes)] == IF k = 0 THEN 0 ELSE total[k - 1] + sizes[k]
  IN total[Len(sizes)]

SizeIn(characters) == Total([k \in 1..Len(characters) |-> characters[k].from])
SizeOut(characters) == Total([k \in 1..Len(characters) |-> characters[k].to])

-----------------------------------------------------------------------------

Init ==
  /\ count = 0
  /\ string = << >> /\ next = 1 /\ held = << >> /\ written = << >>
  /\ resultLength = 0 /\ outLength = 0 /\ factor = 0 /\ allocated = 0
  /\ phase = "ready"

(* The buffer starts as large as the input and its NUL.                    *)
Start ==
  /\ phase \in {"ready", "done", "failed"}
  /\ count < MaxStrings
  /\ count' = count + 1
  /\ \E s \in Strings :
       /\ string' = Append(s, Nul)
       /\ resultLength' = SizeIn(string')
  /\ next' = 1
  /\ written' = << >>
  /\ outLength' = resultLength'
  /\ allocated' = resultLength'
  /\ factor' = 0
  /\ phase' = "convert"
  /\ UNCHANGED held

\* Mutation: the factor does not grow, so that the first growth is by nothing.
Expand_KeepsTheFactor(room) ==
  /\ factor' = factor
  /\ resultLength' = resultLength + factor * Expansion
  /\ outLength' = room + factor * Expansion
  /\ allocated' = resultLength'

\* Mutation: the room left before the last write is counted again.
Expand_ForgetsTheWrite(room) ==
  /\ factor' = factor + 1
  /\ resultLength' = resultLength + factor' * Expansion
  /\ outLength' = outLength + factor' * Expansion
  /\ allocated' = resultLength'

(* Grows the buffer when the converter has left this much room in it.      *)
Expand(room) ==
  /\ factor' = factor + 1
  /\ resultLength' = resultLength + factor' * Expansion
  /\ outLength' = room + factor' * Expansion
  /\ allocated' = resultLength'

(* What the converter holds and what is left up to an invalid character.   *)
IsInvalid(i) == ~string[i].valid
Convertible ==
  LET rest == SubSeq(string, next, Len(string))
      bad  == {i \in next..Len(string) : IsInvalid(i)}
  IN  held \o (IF bad = {} THEN rest
               ELSE SubSeq(string, next, (CHOOSE i \in bad : \A j \in bad : i <= j) - 1))
HasInvalid == \E i \in next..Len(string) : IsInvalid(i)

(* yaz_iconv stops with E2BIG at the first character without room.         *)
ConvertSome ==
  /\ phase = "convert"
  /\ SizeOut(Convertible) > outLength
  /\ \E n \in 0..(Len(Convertible) - 1) :
       LET out == SubSeq(Convertible, 1, n)
       IN  /\ SizeOut(out) <= outLength
           /\ SizeOut(SubSeq(Convertible, 1, n + 1)) > outLength
           /\ written' = written \o out
           /\ next' = IF n < Len(held) THEN next ELSE next + n - Len(held)
           /\ held' = IF n < Len(held) THEN SubSeq(held, n + 1, Len(held)) ELSE << >>
           /\ Expand(outLength - SizeOut(out))
  /\ UNCHANGED <<count, string, phase>>

ConvertRest ==
  /\ phase = "convert"
  /\ ~HasInvalid
  /\ \E n \in {Len(Convertible) - 1, Len(Convertible)} :
       LET out == SubSeq(Convertible, 1, n)
       IN  /\ SizeOut(out) <= outLength
           /\ written' = written \o out
           /\ held' = SubSeq(Convertible, n + 1, Len(Convertible))
           /\ outLength' = outLength - SizeOut(out)
  /\ next' = Len(string) + 1
  /\ phase' = "flush"
  /\ UNCHANGED <<count, string, resultLength, factor, allocated>>

\* Mutation: the state left in the converter is not cleared.
Fail_KeepsTheState ==
  /\ phase = "convert"
  /\ HasInvalid
  /\ SizeOut(Convertible) <= outLength
  /\ held' = (IF Convertible = << >> THEN << >> ELSE <<Convertible[Len(Convertible)]>>)
  /\ written' = << >>
  /\ resultLength' = 0 /\ outLength' = 0 /\ factor' = 0 /\ allocated' = 0
  /\ phase' = "failed"
  /\ UNCHANGED <<count, string, next>>

(* An invalid character: the converter is cleared, the buffer freed, NULL  *)
(* returned.                                                               *)
Fail ==
  /\ phase = "convert"
  /\ HasInvalid
  /\ SizeOut(Convertible) <= outLength
  /\ held' = << >>
  /\ written' = << >>
  /\ resultLength' = 0 /\ outLength' = 0 /\ factor' = 0 /\ allocated' = 0
  /\ phase' = "failed"
  /\ UNCHANGED <<count, string, next>>

Flushes == {held, Append(held, Escape)}

FlushNeedsRoom ==
  /\ phase = "flush"
  /\ \E f \in Flushes : SizeOut(f) > outLength
  /\ Expand(outLength)
  /\ UNCHANGED <<count, conversion, phase>>

(* A result whose last byte is not a NUL gets one, in a buffer one byte    *)
(* longer when there is no room for it.                                    *)
Finalize(result, room) ==
  LET finalLength == resultLength - room
      ended == result[Len(result)] = Nul
  IN  /\ written' = IF ended THEN result ELSE Append(result, Nul)
      /\ allocated' = IF ~ended /\ room = 0 THEN finalLength + 1 ELSE allocated
      /\ resultLength' = IF ~ended /\ room = 0 THEN finalLength ELSE resultLength
      /\ outLength' = 0
      /\ UNCHANGED factor

Flush ==
  /\ phase = "flush"
  /\ \E f \in Flushes :
       /\ SizeOut(f) <= outLength
       /\ Finalize(written \o f, outLength - SizeOut(f))
  /\ held' = << >>
  /\ phase' = "done"
  /\ UNCHANGED <<count, string, next>>

Step == ConvertSome \/ ConvertRest \/ Fail \/ FlushNeedsRoom \/ Flush

Next == Start \/ Step

Spec == Init /\ [][Next]_vars /\ WF_vars(Step)

-----------------------------------------------------------------------------

(* While a string is converted, the room the converter is told of is what  *)
(* the buffer has left behind what was written, however often it grew; and *)
(* a finished result lies in its allocation, its last NUL included.        *)
RoomIsAccounted ==
  /\ phase \in {"convert", "flush"} =>
       resultLength - outLength = SizeOut(written) /\ resultLength = allocated
  /\ phase = "done" => SizeOut(written) <= allocated

(* A result, read up to its first NUL, is the whole string and nothing but *)
(* the string: growing the buffer loses and repeats no character, and what *)
(* the converter kept of an earlier string, finished or given up, does not *)
(* show up in a later one.                                                 *)
ResultIsTheString ==
  phase = "done" =>
    LET length == CHOOSE n \in 0..(Len(written) - 1) :
                    written[n + 1] = Nul /\ \A i \in 1..n : written[i] # Nul
    IN  /\ \E i \in DOMAIN written : written[i] = Nul
        /\ SubSeq(written, 1, length) = SubSeq(string, 1, Len(string) - 1)

(* Every conversion ends, however much larger the result is.               *)
ConversionEnds == phase \in {"convert", "flush"} ~> phase \in {"done", "failed"}
=============================================================================
