----------------------- MODULE MCCharacterConversion -----------------------
(* Strings over a character that keeps its size, one that grows beyond     *)
(* what a first expansion gives it, one that shrinks and one that has no   *)
(* form in the other encoding.                                             *)
EXTENDS CharacterConversion

CONSTANT MCMaxLength

MCCharacters ==
  {[from |-> 1, to |-> 1, valid |-> TRUE, name |-> "plain"],
   [from |-> 1, to |-> 5, valid |-> TRUE, name |-> "wide"],
   [from |-> 3, to |-> 1, valid |-> TRUE, name |-> "narrow"],
   [from |-> 1, to |-> 0, valid |-> FALSE, name |-> "unknown"]}

MCNames == {"NUL", "ESC", "plain", "wide", "narrow", "unknown"}

MCStrings == UNION {[1..n -> MCCharacters] : n \in 0..MCMaxLength}
=============================================================================
