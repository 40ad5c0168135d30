------------------------- MODULE MCMARCInputStream -------------------------
(* Files of up to MaxRecords records, each intact or damaged in one of the *)
(* ways the reader tells apart, cut off at any unit.                       *)
EXTENDS MARCDecoding, SequencesExt

CONSTANTS MCLengths, MCMaxRecords

Intact == {Serialized(n) : n \in MCLengths}

\* Each kind of damage replaces one unit of an intact record: the digits of
\* its length, of its base address, its directory, its length itself (so that
\* it claims the next record's leader, or the whole next record).
DamagedAt(i, unit) == {[s EXCEPT ![i] = unit] : s \in Intact}
Blank == [kind |-> "field", length |-> 0]
Damaged ==
  DamagedAt(1, Blank) \cup DamagedAt(2, Blank) \cup DamagedAt(3, Blank)
    \cup UNION {DamagedAt(1, [kind |-> "len", length |-> n]) : n \in MCLengths}
    \cup {[s EXCEPT ![1] = [kind |-> "len", length |-> 2 * Len(s)]] : s \in Intact}

Files == {FlattenSeq(f) : f \in UNION {[1..n -> Intact \cup Damaged] : n \in 0..MCMaxRecords}}

MCInputs == UNION {{SubSeq(f, 1, n) : n \in 0..Len(f)} : f \in Files}
=============================================================================
