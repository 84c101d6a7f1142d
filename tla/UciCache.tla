------------------------------ MODULE UciCache ------------------------------
(***************************************************************************)
(* The local edit state of LuCI.uci (uci.js): the sections as the server   *)
(* last sent them ("values") under three layers of edits that wait for     *)
(* save(): created sections, changed options, deleted options or sections. *)
(* One configuration, already loaded, so state.values is the map of its    *)
(* sections.  Section types, lists of values and "@type[n]" references are *)
(* left out; an option value is a member of Vals.                          *)
(***************************************************************************)
EXTENDS Integers, FiniteSets

CONSTANTS
  Named,       \* section ids the server or the caller of add() may use
  TempIds,     \* the "newXXXXXX" ids createSID() may draw
  Opts, Vals,  \* option names, values; Vals may hold Blank
  Blank,       \* the empty string
  None,        \* undefined, null: the option is absent
  NewBase,     \* 1000: the index of a created section is NewBase + newidx
  MaxNew,      \* bound on the calls of add()
  WholeReads   \* do callers use get(conf, sid) and move() between edits?

Sids == Named \cup TempIds
OptMap == [Opts -> Vals \cup {None}]
Empty == [o \in Opts |-> None]

ASSUME NoneAssumption == None \notin Vals /\ Blank # None
ASSUME IdsAssumption == IsFiniteSet(Sids) /\ Named \cap TempIds = {}
ASSUME BaseAssumption == NewBase \in Nat /\ Cardinality(Sids) <= NewBase
ASSUME BoundAssumption == MaxNew \in Nat /\ WholeReads \in BOOLEAN

VARIABLES
  base,      \* history: option values as the server last sent them
  known,     \* the sections of state.values
  values,    \* their options, which get() and move() write to as well
  created,   \* the sections of state.creates
  creates,   \* their options
  changes,   \* state.changes: the options set in existing sections
  deletes,   \* state.deletes: the options deleted in existing sections
  removed,   \* the sections s with state.deletes[s] = true
  vindex,    \* the .index of the sections of state.values
  nindex,    \* the .index of the sections of state.creates
  newidx,    \* state.newidx
  reorder    \* state.reorder

layers == <<known, values, created, creates, changes, deletes, removed>>
places == <<vindex, nindex, newidx, reorder>>
vars == <<base, layers, places>>

-----------------------------------------------------------------------------
(* What the getters see *)

Existing == known \ removed              \* sections of values still there
Visible == created \cup Existing         \* what sections() enumerates
Index(s) == IF s \in created THEN nindex[s] ELSE vindex[s]

\* get(conf, s, o) in an existing section
Merged(s, o) ==
  IF o \in deletes[s] THEN None
  ELSE IF changes[s][o] # None THEN changes[s][o] ELSE values[s][o]

\* get(conf, s, o)
Get(s, o) == IF s \in created THEN creates[s][o]
             ELSE IF s \in Existing THEN Merged(s, o) ELSE None

\* get(conf, s) writes the pending edits of s into values itself
Fold(S) == [s \in Sids |-> IF s \in S THEN [o \in Opts |-> Merged(s, o)]
                                      ELSE values[s]]

\* the .index sections() gives to s when it sorts the sections S
Rank(S, s) == Cardinality({t \in S : Index(t) < Index(s)})

-----------------------------------------------------------------------------
Loaded(K, m, p) ==
  /\ base = m /\ values = m /\ known = K
  /\ created = {} /\ removed = {}
  /\ creates = [s \in Sids |-> Empty]
  /\ changes = [s \in Sids |-> Empty]
  /\ deletes = [s \in Sids |-> {}]
  /\ vindex = p /\ nindex = [s \in Sids |-> 0]

\* what a load may return: sections, options that are not blank, and indexes
ServerMaps(K) == {m \in [Sids -> OptMap] :
                    /\ \A s \in Sids \ K : m[s] = Empty
                    /\ \A s \in K, o \in Opts : m[s][o] # Blank}
ServerOrders(K) == {p \in [Sids -> 0..Cardinality(Sids)] :
                     /\ \A s \in K : p[s] < Cardinality(K)
                     /\ \A s, t \in K : s # t => p[s] # p[t]
                     /\ \A s \in Sids \ K : p[s] = 0}

Init ==
  /\ \E K \in SUBSET Named : \E m \in ServerMaps(K), p \in ServerOrders(K) :
       Loaded(K, m, p)
  /\ newidx = 0 /\ reorder = FALSE

\* Mutant of Add: newidx counts down
AddCountsDown(s) ==
  /\ newidx < MaxNew /\ s \notin Visible /\ s \notin TempIds
  /\ created' = created \cup {s}
  /\ creates' = [creates EXCEPT ![s] = Empty]
  /\ nindex' = [nindex EXCEPT ![s] = NewBase + newidx]
  /\ newidx' = newidx - 1
  /\ UNCHANGED <<base, known, values, changes, deletes, removed, vindex,
                 reorder>>

\* add(conf, type, name) and, for s in TempIds, add(conf, type)
Add(s) ==
  /\ newidx < MaxNew
  /\ s \notin Visible        \* callers do not add a section that is shown
  /\ s \in TempIds => s \notin known \cup created             \* createSID()
  /\ created' = created \cup {s}
  /\ creates' = [creates EXCEPT ![s] = Empty]
  /\ nindex' = [nindex EXCEPT ![s] = NewBase + newidx]
  /\ newidx' = newidx + 1
  /\ UNCHANGED <<base, known, values, changes, deletes, removed, vindex,
                 reorder>>

\* remove(conf, s) of a section that is only local
RemoveCreated(s) ==
  /\ s \in created
  /\ created' = created \ {s}
  /\ creates' = [creates EXCEPT ![s] = Empty]
  /\ nindex' = [nindex EXCEPT ![s] = 0]
  /\ UNCHANGED <<base, known, values, changes, deletes, removed, vindex,
                 newidx, reorder>>

\* Mutant of RemoveExisting: the changes of the section stay
RemoveKeepsChanges(s) ==
  /\ s \in known \ created
  /\ deletes' = [deletes EXCEPT ![s] = {}]
  /\ removed' = removed \cup {s}
  /\ UNCHANGED <<base, known, values, created, creates, changes, places>>

\* remove(conf, s) of a section the server has
RemoveExisting(s) ==
  /\ s \in known \ created
  /\ changes' = [changes EXCEPT ![s] = Empty]
  /\ deletes' = [deletes EXCEPT ![s] = {}]
  /\ removed' = removed \cup {s}
  /\ UNCHANGED <<base, known, values, created, creates, places>>

Remove(s) == RemoveCreated(s) \/ RemoveExisting(s)

\* set(conf, s, o, x) in a created section: nothing is checked
SetCreated(s, o, x) ==
  /\ s \in created
  /\ creates' = [creates EXCEPT ![s][o] = x]
  /\ UNCHANGED <<base, known, values, created, changes, deletes, removed,
                 places>>

\* Mutant of SetExisting: the option is not undeleted
SetStaysDeleted(s, o, x) ==
  /\ s \in Existing \ created /\ x \notin {None, Blank}
  /\ changes' = [changes EXCEPT ![s][o] = x]
  /\ UNCHANGED <<base, known, values, created, creates, deletes, removed,
                 places>>

\* Mutant of SetExisting: all options of the section are undeleted
SetUndeletesAll(s, o, x) ==
  /\ s \in Existing \ created /\ x \notin {None, Blank}
  /\ deletes' = [deletes EXCEPT ![s] = {}]
  /\ changes' = [changes EXCEPT ![s][o] = x]
  /\ UNCHANGED <<base, known, values, created, creates, removed, places>>

\* set(conf, s, o, x) with a value, in a section the server has
SetExisting(s, o, x) ==
  /\ s \notin created /\ x \notin {None, Blank}
  /\ s \in Existing
  /\ deletes' = [deletes EXCEPT ![s] = @ \ {o}]
  /\ changes' = [changes EXCEPT ![s][o] = x]
  /\ UNCHANGED <<base, known, values, created, creates, removed, places>>

\* Mutant of UnsetExisting: a pending change is dropped instead of a deletion
UnsetChangeOnly(s, o, x) ==
  /\ s \notin created /\ x \in {None, Blank}
  /\ changes' = [changes EXCEPT ![s][o] = None]
  /\ deletes' = [deletes EXCEPT ![s] =
                   IF s \in Existing /\ values[s][o] # None
                      /\ changes[s][o] = None
                   THEN @ \cup {o} ELSE @]
  /\ UNCHANGED <<base, known, values, created, creates, removed, places>>

\* set(conf, s, o, "") and unset(conf, s, o) in a section not created here
UnsetExisting(s, o, x) ==
  /\ s \notin created /\ x \in {None, Blank}
  /\ changes' = [changes EXCEPT ![s][o] = None]
  /\ deletes' = [deletes EXCEPT ![s] =
                   IF s \in Existing /\ values[s][o] # None THEN @ \cup {o}
                                                            ELSE @]
  /\ UNCHANGED <<base, known, values, created, creates, removed, places>>

Set(s, o, x) == \/ SetCreated(s, o, x)
                \/ SetExisting(s, o, x)
                \/ UnsetExisting(s, o, x)

\* get(conf, s)
ReadSection(s) ==
  /\ WholeReads
  /\ s \in Existing \ created
  /\ values' = Fold({s})
  /\ UNCHANGED <<base, known, created, creates, changes, deletes, removed,
                 places>>

\* where move() puts section s when s1 is taken out and put in at place p
PlaceAfterMove(s1, p, s) ==
  LET r == Rank(Visible \ {s1}, s)
  IN  IF s = s1 THEN p ELSE IF r < p THEN r ELSE r + 1

\* move() renumbers what it gets with get(conf, s), so it folds as well
MoveTo(s1, p) ==
  /\ WholeReads
  /\ s1 \in Visible
  /\ values' = Fold(Existing \ created)
  /\ vindex' = [s \in Sids |-> IF s \in Existing \ created
                               THEN PlaceAfterMove(s1, p, s) ELSE vindex[s]]
  /\ nindex' = [s \in Sids |-> IF s \in created
                               THEN PlaceAfterMove(s1, p, s) ELSE nindex[s]]
  /\ reorder' = TRUE
  /\ UNCHANGED <<base, known, created, creates, changes, deletes, removed,
                 newidx>>

\* move(conf, s1, null)
MoveLast(s1) == MoveTo(s1, Cardinality(Visible \ {s1}))

\* move(conf, s1, s2, after)
MoveBeside(s1, s2, after) ==
  /\ s2 \in Visible \ {s1}
  /\ MoveTo(s1, Rank(Visible \ {s1}, s2) + (IF after THEN 1 ELSE 0))

Edit ==
  \/ \E s \in Sids : Add(s) \/ Remove(s) \/ ReadSection(s) \/ MoveLast(s)
  \/ \E s \in Sids, o \in Opts, x \in Vals \cup {None} : Set(s, o, x)
  \/ \E s, t \in Sids, after \in BOOLEAN : MoveBeside(s, t, after)

Next == Edit
Spec == Init /\ [][Next]_vars

-----------------------------------------------------------------------------
(* What save() asks the server to do, and what that makes of the sections  *)

\* an option with an empty value is not stored by the server
Stored(x) == IF x = Blank THEN None ELSE x

\* the delete calls, then the add calls, then the set calls of save()
AfterDeletes(s, o) == IF s \in removed \/ o \in deletes[s] THEN None
                      ELSE base[s][o]
Submitted(s, o) == IF s \in created THEN Stored(creates[s][o])
                   ELSE IF changes[s][o] # None THEN changes[s][o]
                   ELSE AfterDeletes(s, o)

\* the sections and options the getters show
ShownOpts == [s \in Sids |-> [o \in Opts |-> Stored(Get(s, o))]]

Buffer == INSTANCE UciBuffer WITH live <- Visible, opts <- ShownOpts

-----------------------------------------------------------------------------
TypeOK ==
  /\ base \in [Sids -> OptMap] /\ values \in [Sids -> OptMap]
  /\ creates \in [Sids -> OptMap] /\ changes \in [Sids -> OptMap]
  /\ deletes \in [Sids -> SUBSET Opts]
  /\ known \in SUBSET Sids /\ created \in SUBSET Sids
  /\ removed \in SUBSET Sids
  /\ vindex \in [Sids -> Nat] /\ nindex \in [Sids -> Nat]
  /\ newidx \in Nat /\ reorder \in BOOLEAN

\* Every pending edit is about a section that is still there: nothing is
\* left over from a section removed or from a removed option set again
\* (remove() drops the changes, set() undeletes, unset() drops the change).
LayersConsistent ==
  /\ removed \subseteq known
  /\ created \cap known \subseteq removed
  /\ \A s \in Sids : \A o \in Opts :
       /\ changes[s][o] # None \/ o \in deletes[s] => s \in Existing
       /\ ~(changes[s][o] # None /\ o \in deletes[s])
       /\ changes[s][o] # Blank /\ values[s][o] # Blank

\* No two sections that sections() enumerates share an .index, so the order
\* it sorts them in is one order, whatever was added, removed and moved.
IndexDistinct == \A s, t \in Visible : s # t => Index(s) # Index(t)

\* One step changes the order of at most one section: any two others that stay
\* keep theirs (sections() re-sorts by .index after add() and move() set it).
OneMoves ==
  [][\E s1 \in Sids : \A s, t \in (Visible \cap Visible') \ {s1} :
       Index(s) < Index(t) <=> Index(s)' < Index(t)']_vars

\* What save() submits differs from what the user sees in one way only: an
\* option whose deletion get(conf, s) or move() had folded into values.
\* Every value that is shown is stored, and no other option keeps a value.
LossOnlyByFold ==
  \A s \in Visible, o \in Opts : Submitted(s, o) # Stored(Get(s, o)) =>
    /\ Get(s, o) = None
    /\ s \notin created /\ values[s][o] = None /\ base[s][o] # None

\* save() submits all local changes (uci.js:804): once it is done the server
\* has the sections and options that the getters showed.
SubmitsAllChanges ==
  \A s \in Visible, o \in Opts : Submitted(s, o) = Stored(Get(s, o))

\* The edit layers behave as one plain buffer of sections: every operation
\* changes the section or option it names as the getters show it, and no
\* other; whole-section reads and moves change none (uci.js get, set, add,
\* remove, move).
BufferSpec == Buffer!Spec

\* No edit is lost on the way: an option shows the value it was just set to, or
\* none when unset, a removed section is gone, and an added one starts without
\* options, whatever edits of an earlier section of that name the layers held.
EditsTakeEffect ==
  [][\A s \in Sids :
       /\ \A o \in Opts, x \in Vals \cup {None} :
            s \in Visible /\ Set(s, o, x) => ShownOpts'[s][o] = Stored(x)
       /\ Remove(s) => s \notin Visible'
       /\ Add(s) => s \in Visible' /\ ShownOpts'[s] = Empty]_vars
=============================================================================
