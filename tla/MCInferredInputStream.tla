----------------------- MODULE MCInferredInputStream -----------------------
(* Files of up to two records whose leaders have units of every kind the   *)
(* inference looks at, the beginnings of documents, and all of them cut    *)
(* off at any unit.                                                        *)
EXTENDS InferredInputStream, SequencesExt

CONSTANT MCLengths

Plausible == {Serialized(n) : n \in MCLengths}
Blank == [kind |-> "field", length |-> 0]
Markup == [kind |-> "markup", length |-> 0]
Terminator == [kind |-> "term", length |-> 0]

\* The length is no number, or that of the next record too; the numbers that
\* never change do; the directory has no end.
Damaged ==
  {[r EXCEPT ![1] = Blank] : r \in Plausible}
    \cup {[r EXCEPT ![1].length = 2 * Len(r)] : r \in Plausible}
    \cup {[r EXCEPT ![3] = Terminator] : r \in Plausible}
    \cup {[r EXCEPT ![LeaderLength + 1] = Blank] : r \in Plausible}

Documents == {<<Markup, Markup, Blank, Blank, Blank>>, <<Markup, Blank, Blank, Blank>>}

Files ==
  Documents
    \cup {FlattenSeq(f) : f \in UNION {[1..n -> Plausible \cup Damaged] : n \in 0..2}}

MCInputs == UNION {{SubSeq(f, 1, n) : n \in 0..Len(f)} : f \in Files}
=============================================================================
