----------------------------- MODULE ConfMeaning -----------------------------
(***************************************************************************)
(* What the parser must make of a file: the tree the writer meant.         *)
(***************************************************************************)
EXTENDS ConfParser

\* The entries without a key: what is left of a quoted value is read as one.
RECURSIVE Tidy(_)
Tidy(c) ==
  LET named == SelectSeq(c.map, LAMBDA e : e.key # <<>>)
  IN  Conf(c.key, c.value, [n \in DOMAIN named |-> Tidy(named[n])])

\* A file is understood as it was meant, whatever comments, blanks, "=" and
\* quotes it is written with, and rejected if a block is not closed (conf::load).
ParsedAsMeant ==
  /\ pc = "accepted" => Len(meant) = 1 /\ Tidy(blocks[1]) = meant[1]
  /\ pc = "rejected" => Len(meant) > 1
=============================================================================
