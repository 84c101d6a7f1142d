----------------------------- MODULE MCUciCache -----------------------------
(* UciCache on small instances, and the order it implements.               *)
EXTENDS UciCache

\* the sections in the order sections() returns them
ShownOrder ==
  [i \in 1..Cardinality(Visible) |->
     CHOOSE s \in Visible : Rank(Visible, s) = i - 1]

Sequence == INSTANCE UciSequence WITH order <- ShownOrder

\* add() appends, remove() takes out, and move() puts the section where its
\* caller asked, leaving the others in their order (uci.js move, sections).
SequenceSpec == Sequence!Spec
=============================================================================
