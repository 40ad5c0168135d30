--------------------------- MODULE RecordChannel ---------------------------
(***************************************************************************)
(* What a record stream written by one party and read by another promises. *)
(* Records arrive in the order they were sent, each one at most once; one  *)
(* is skipped only after the receiver was told of a fault, or past a place *)
(* where a sender was cut off in the middle of a record, and only such a   *)
(* place can make something arrive that was not sent.                      *)
(***************************************************************************)
EXTENDS Integers, Sequences

CONSTANT Record

VARIABLES sent, received, faulted, torn

vars == <<sent, received, faulted, torn>>

(* One more record at the end of a sequence.                               *)
ExtendedByOne(old, new) ==
  LET r == new[Len(new)] IN r \in Record /\ new = Append(old, r)

Arrived(i) == \E j \in DOMAIN received : received[j] = sent[i]

Init ==
  /\ sent = << >>
  /\ received = << >>
  /\ faulted = FALSE
  /\ torn = FALSE

Send ==
  /\ sent' # << >> /\ ExtendedByOne(sent, sent')
  /\ UNCHANGED <<received, faulted, torn>>

Tear ==
  /\ torn' = TRUE
  /\ UNCHANGED <<sent, received, faulted>>

Receive ==
  /\ \E i \in DOMAIN sent :
       /\ \A j \in DOMAIN sent : Arrived(j) => j < i
       /\ (\A j \in 1..(i - 1) : Arrived(j)) \/ faulted \/ torn
       /\ received' = Append(received, sent[i])
  /\ UNCHANGED <<sent, faulted, torn>>

ReceiveJunk ==
  /\ torn
  /\ received' # << >> /\ ExtendedByOne(received, received')
  /\ UNCHANGED <<sent, faulted, torn>>

Fault ==
  /\ faulted' = TRUE
  /\ UNCHANGED <<sent, received, torn>>

Next == Send \/ Tear \/ Receive \/ ReceiveJunk \/ Fault

Spec == Init /\ [][Next]_vars
=============================================================================
