----------------------------- MODULE UciBuffer ------------------------------
(***************************************************************************)
(* What the edit operations of LuCI.uci promise to their callers: a set of *)
(* sections with options, where add, remove, set and unset change the one  *)
(* section or option they name and nothing else, and reads change nothing. *)
(***************************************************************************)
CONSTANTS Sids, Opts, Vals, Blank, None

VARIABLES
  live,  \* the sections there are
  opts   \* their options; a section that is not live has none

Nothing == [o \in Opts |-> None]

Init == /\ live \in SUBSET Sids
        /\ opts \in [Sids -> [Opts -> (Vals \ {Blank}) \cup {None}]]
        /\ \A s \in Sids \ live : opts[s] = Nothing

\* add(): a new section starts without options
Create(s) == /\ s \notin live
             /\ live' = live \cup {s}
             /\ opts' = opts

\* remove(): a section goes with all its options
Drop(s) == /\ s \in live
           /\ live' = live \ {s}
           /\ opts' = [opts EXCEPT ![s] = Nothing]

\* set(), unset(): an empty value removes the option
Assign(s, o, x) == /\ s \in live
                   /\ live' = live
                   /\ opts' = [opts EXCEPT ![s][o] =
                                 IF x = Blank THEN None ELSE x]

Next == \/ \E s \in Sids : Create(s) \/ Drop(s)
        \/ \E s \in Sids, o \in Opts, x \in Vals \cup {None} : Assign(s, o, x)

Spec == Init /\ [][Next]_<<live, opts>>
=============================================================================
