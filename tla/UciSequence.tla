---------------------------- MODULE UciSequence -----------------------------
(***************************************************************************)
(* The order of the sections of a configuration, as add, remove and move   *)
(* promise it: a sequence that add() appends to and from which move()      *)
(* takes one section to put it in elsewhere, keeping all others in order.  *)
(***************************************************************************)
EXTENDS Integers, SequencesExt

CONSTANT Sids

VARIABLE order

Without(s) == RemoveAt(order, CHOOSE i \in DOMAIN order : order[i] = s)

Init == order \in Seq(Sids) /\ IsInjective(order)

Append1(s) == s \notin ToSet(order) /\ order' = Append(order, s)

Delete(s) == s \in ToSet(order) /\ order' = Without(s)

MoveToEnd(s) == s \in ToSet(order) /\ order' = Append(Without(s), s)

\* s comes to stand immediately before or after t
MoveNextTo(s, t, after) ==
  /\ {s, t} \subseteq ToSet(order) /\ s # t
  /\ LET rest == Without(s)
         i == CHOOSE k \in DOMAIN rest : rest[k] = t
     IN  order' = InsertAt(rest, IF after THEN i + 1 ELSE i, s)

Next == \/ \E s \in Sids : Append1(s) \/ Delete(s) \/ MoveToEnd(s)
        \/ \E s, t \in Sids, after \in BOOLEAN : MoveNextTo(s, t, after)

Spec == Init /\ [][Next]_order
=============================================================================
