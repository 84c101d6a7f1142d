--------------------------- MODULE UciCacheProofs ---------------------------
(***************************************************************************)
(* Proofs about UciCache, for all sections, options, values and bounds.    *)
(***************************************************************************)
EXTENDS MCUciCache, SequenceTheorems, FiniteSetTheorems, TLAPS

USE DEF Sids, OptMap, Empty, Existing, Visible

-----------------------------------------------------------------------------
(* Types                                                                   *)

LEMMA MergedType ==
  ASSUME TypeOK, NEW s \in Sids, NEW o \in Opts
  PROVE  Merged(s, o) \in Vals \cup {None}
BY DEF TypeOK, Merged

LEMMA FoldType ==
  ASSUME TypeOK, NEW S \in SUBSET Sids
  PROVE  Fold(S) \in [Sids -> OptMap]
BY MergedType DEF TypeOK, Fold

LEMMA RankType ==
  ASSUME NEW S \in SUBSET Sids, NEW s \in Sids
  PROVE  Rank(S, s) \in Nat
<1> DEFINE T == {t \in S : Index(t) < Index(s)}
<1>1. IsFiniteSet(T)
  BY IdsAssumption, FS_Subset, T \subseteq Sids
<1> QED BY <1>1, FS_CardinalityType DEF Rank

LEMMA StrictSubset ==
  ASSUME NEW S, IsFiniteSet(S), NEW T \in SUBSET S, NEW x \in S \ T
  PROVE  Cardinality(T) < Cardinality(S)
<1>1. IsFiniteSet(T) /\ Cardinality(T) <= Cardinality(S)
      /\ (Cardinality(S) = Cardinality(T) => S = T)
  BY FS_Subset
<1>2. Cardinality(S) \in Nat /\ Cardinality(T) \in Nat
  BY <1>1, FS_CardinalityType
<1> QED BY <1>1, <1>2

\* a section of S has a rank below the size of S
LEMMA RankBound ==
  ASSUME TypeOK, NEW S \in SUBSET Sids, NEW s \in S
  PROVE  Rank(S, s) < Cardinality(S)
<1> DEFINE T == {t \in S : Index(t) < Index(s)}
<1>1. IsFiniteSet(S)
  BY IdsAssumption, FS_Subset
<1>2. Index(s) \in Nat
  BY DEF TypeOK, Index
<1>3. T \in SUBSET S /\ s \in S \ T
  BY <1>2
<1> HIDE DEF T
<1>4. Cardinality(T) < Cardinality(S)
  BY <1>1, <1>3, StrictSubset
<1> QED BY <1>4 DEF Rank, T

LEMMA PlaceType ==
  ASSUME NEW s1 \in Sids, NEW p \in Nat, NEW s \in Sids, TypeOK
  PROVE  PlaceAfterMove(s1, p, s) \in Nat
<1>1. Rank(Visible \ {s1}, s) \in Nat
  BY RankType DEF TypeOK
<1> QED BY <1>1 DEF PlaceAfterMove

LEMMA InitType == Init => TypeOK
<1> SUFFICES ASSUME Init PROVE TypeOK OBVIOUS
<1>0. PICK K \in SUBSET Named :
        \E m \in ServerMaps(K), p \in ServerOrders(K) : Loaded(K, m, p)
  BY DEF Init
<1>1. PICK m \in ServerMaps(K), p \in ServerOrders(K) : Loaded(K, m, p)
  BY <1>0
<1>2. Cardinality(Sids) \in Nat
  BY IdsAssumption, FS_CardinalityType
<1>3. m \in [Sids -> OptMap] /\ p \in [Sids -> Nat]
  BY <1>2 DEF ServerMaps, ServerOrders
<1> QED BY <1>1, <1>3 DEF Init, Loaded, TypeOK

\* where the two forms of move() put the section
LEMMA MovePlaces ==
  ASSUME TypeOK, NEW s1 \in Sids, s1 \in Visible,
         \/ MoveLast(s1)
         \/ \E s2 \in Sids, after \in BOOLEAN : MoveBeside(s1, s2, after)
  PROVE  \E p \in Nat : /\ p <= Cardinality(Visible \ {s1})
                        /\ MoveTo(s1, p)
<1> DEFINE S == Visible \ {s1}
<1>1. S \in SUBSET Sids
  BY DEF TypeOK
<1>2. Cardinality(S) \in Nat
  BY <1>1, IdsAssumption, FS_Subset, FS_CardinalityType
<1>3. CASE MoveLast(s1)
  BY <1>2, <1>3 DEF MoveLast
<1>4. ASSUME NEW s2 \in Sids, NEW after \in BOOLEAN, MoveBeside(s1, s2, after)
      PROVE  \E p \in Nat : p <= Cardinality(S) /\ MoveTo(s1, p)
  <2>1. s2 \in S
    BY <1>4 DEF MoveBeside
  <2>2. Rank(S, s2) \in Nat /\ Rank(S, s2) < Cardinality(S)
    BY ONLY <1>1, <2>1, RankType, RankBound, TypeOK
  <2> QED BY <1>2, <1>4, <2>2 DEF MoveBeside
<1> QED BY <1>3, <1>4

LEMMA NextType == TypeOK /\ [Next]_vars => TypeOK'
<1> SUFFICES ASSUME TypeOK, [Next]_vars PROVE TypeOK' OBVIOUS
<1> USE DEF TypeOK, layers, places
<1>1. ASSUME NEW s \in Sids, Add(s) PROVE TypeOK'
  BY <1>1, BaseAssumption DEF Add
<1>2. ASSUME NEW s \in Sids, Remove(s) PROVE TypeOK'
  <2>1. CASE RemoveCreated(s) BY <2>1 DEF RemoveCreated
  <2>2. CASE RemoveExisting(s) BY <2>2 DEF RemoveExisting
  <2> QED BY <1>2, <2>1, <2>2 DEF Remove
<1>3. ASSUME NEW s \in Sids, NEW o \in Opts, NEW x \in Vals \cup {None},
             Set(s, o, x)
      PROVE  TypeOK'
  <2>1. CASE SetCreated(s, o, x) BY <2>1 DEF SetCreated
  <2>2. CASE SetExisting(s, o, x) BY <2>2 DEF SetExisting
  <2>3. CASE UnsetExisting(s, o, x) BY <2>3 DEF UnsetExisting
  <2> QED BY <1>3, <2>1, <2>2, <2>3 DEF Set
<1>4. ASSUME NEW s \in Sids, ReadSection(s) PROVE TypeOK'
  BY <1>4, FoldType DEF ReadSection
<1>5. ASSUME NEW s1 \in Sids, NEW p \in Nat, MoveTo(s1, p) PROVE TypeOK'
  <2>1. values' \in [Sids -> OptMap]
    BY <1>5, FoldType DEF MoveTo
  <2>2. vindex' \in [Sids -> Nat] /\ nindex' \in [Sids -> Nat]
    BY <1>5, PlaceType DEF MoveTo
  <2> QED BY <1>5, <2>1, <2>2 DEF MoveTo
<1>6. CASE UNCHANGED vars BY <1>6 DEF vars
<1>7. ASSUME NEW s \in Sids,
             \/ MoveLast(s)
             \/ \E t \in Sids, after \in BOOLEAN : MoveBeside(s, t, after)
      PROVE  TypeOK'
  <2>1. s \in Visible
    BY <1>7 DEF MoveLast, MoveBeside, MoveTo
  <2>2. PICK p \in Nat : MoveTo(s, p)
    BY ONLY TypeOK, <1>7, <2>1, MovePlaces
  <2> QED BY <1>5, <2>2
<1> QED BY <1>1, <1>2, <1>3, <1>4, <1>6, <1>7 DEF Next, Edit

\* Every variable of the edit state keeps its type under all operations of
\* uci.js: the layers map section ids to options, the indexes are naturals.
THEOREM TypeCorrect == Spec => []TypeOK
BY InitType, NextType, PTL DEF Spec

-----------------------------------------------------------------------------
(* The layers.  LayersConsistent is not inductive for what save() submits: *)
(* it says nothing of the options without a pending edit.  BaseAgrees does *)
(* and NeverFolded says more as long as nobody reads whole sections.       *)

\* an option without a pending edit is what the server sent, or folded away
BaseAgrees ==
  \A s \in Existing, o \in Opts :
    changes[s][o] = None /\ o \notin deletes[s]
      => values[s][o] \in {base[s][o], None}

NeverFolded == ~WholeReads => values = base

LayersInv == TypeOK /\ LayersConsistent /\ BaseAgrees /\ NeverFolded

LEMMA InitLayers == Init => LayersInv
<1> SUFFICES ASSUME Init PROVE LayersInv OBVIOUS
<1>1. TypeOK
  BY InitType
<1>2. PICK K \in SUBSET Named :
        \E m \in ServerMaps(K), p \in ServerOrders(K) : Loaded(K, m, p)
  BY DEF Init
<1>3. PICK m \in ServerMaps(K), p \in ServerOrders(K) : Loaded(K, m, p)
  BY <1>2
<1>4. \A s \in Sids, o \in Opts : m[s][o] # Blank
  <2> TAKE s \in Sids, o \in Opts
  <2>1. CASE s \in K BY <2>1 DEF ServerMaps
  <2>2. CASE s \notin K BY <2>2, NoneAssumption DEF ServerMaps
  <2> QED BY <2>1, <2>2
<1>5. /\ changes = [s \in Sids |-> Empty] /\ deletes = [s \in Sids |-> {}]
      /\ values = m /\ base = m /\ created = {} /\ removed = {}
  BY <1>3 DEF Loaded
<1>6. LayersConsistent
  BY <1>4, <1>5, NoneAssumption DEF LayersConsistent
<1>7. BaseAgrees /\ NeverFolded
  BY <1>5 DEF BaseAgrees, NeverFolded
<1> QED BY <1>1, <1>6, <1>7 DEF LayersInv

\* folding keeps the pending edits and every option without one
LEMMA FoldLayers ==
  ASSUME LayersInv, NEW S \in SUBSET Existing, WholeReads,
         values' = Fold(S),
         UNCHANGED <<base, known, created, creates, changes, deletes, removed>>
  PROVE  LayersConsistent' /\ BaseAgrees' /\ NeverFolded'
<1> USE DEF LayersInv, TypeOK
<1>1. \A s \in Sids, o \in Opts :
        values'[s][o] = IF s \in S THEN Merged(s, o) ELSE values[s][o]
  BY DEF Fold
<1>2. \A s \in Sids, o \in Opts : values'[s][o] # Blank
  BY <1>1, NoneAssumption DEF LayersConsistent, Merged
<1>3. LayersConsistent'
  BY <1>2 DEF LayersConsistent
<1>4. BaseAgrees'
  BY <1>1 DEF BaseAgrees, Merged
<1> QED BY <1>3, <1>4 DEF NeverFolded

LEMMA NextLayers == LayersInv /\ [Next]_vars => LayersInv'
<1> SUFFICES ASSUME LayersInv, [Next]_vars PROVE LayersInv' OBVIOUS
<1>0. TypeOK'
  BY NextType DEF LayersInv
<1>a. SUFFICES LayersConsistent' /\ BaseAgrees' /\ NeverFolded'
  BY <1>0 DEF LayersInv
<1> USE DEF LayersInv, layers, places
<1>1. ASSUME NEW s \in Sids, Add(s)
      PROVE  LayersConsistent' /\ BaseAgrees' /\ NeverFolded'
  BY <1>1 DEF Add, LayersConsistent, BaseAgrees, NeverFolded
<1>2. ASSUME NEW s \in Sids, RemoveCreated(s)
      PROVE  LayersConsistent' /\ BaseAgrees' /\ NeverFolded'
  BY <1>2 DEF RemoveCreated, LayersConsistent, BaseAgrees, NeverFolded
<1>3. ASSUME NEW s \in Sids, RemoveExisting(s)
      PROVE  LayersConsistent' /\ BaseAgrees' /\ NeverFolded'
  <2>1. \A t \in Sids, o \in Opts :
          /\ changes'[t][o] = IF t = s THEN None ELSE changes[t][o]
          /\ deletes'[t] = IF t = s THEN {} ELSE deletes[t]
    BY <1>3 DEF RemoveExisting, TypeOK
  <2>2. LayersConsistent'
    BY <1>3, <2>1, NoneAssumption DEF RemoveExisting, LayersConsistent
  <2>3. BaseAgrees' /\ NeverFolded'
    BY <1>3, <2>1 DEF RemoveExisting, BaseAgrees, NeverFolded
  <2> QED BY <2>2, <2>3
<1>4. ASSUME NEW s \in Sids, NEW o \in Opts, NEW x \in Vals \cup {None},
             SetCreated(s, o, x)
      PROVE  LayersConsistent' /\ BaseAgrees' /\ NeverFolded'
  BY <1>4 DEF SetCreated, LayersConsistent, BaseAgrees, NeverFolded
<1>5. ASSUME NEW s \in Sids, NEW o \in Opts, NEW x \in Vals \cup {None},
             SetExisting(s, o, x)
      PROVE  LayersConsistent' /\ BaseAgrees' /\ NeverFolded'
  <2>1. \A t \in Sids, q \in Opts :
          /\ changes'[t][q] = IF t = s /\ q = o THEN x ELSE changes[t][q]
          /\ deletes'[t] = IF t = s THEN deletes[t] \ {o} ELSE deletes[t]
    BY <1>5 DEF SetExisting, TypeOK
  <2>2. LayersConsistent'
    BY <1>5, <2>1 DEF SetExisting, LayersConsistent
  <2>3. BaseAgrees' /\ NeverFolded'
    BY <1>5, <2>1 DEF SetExisting, BaseAgrees, NeverFolded
  <2> QED BY <2>2, <2>3
<1>6. ASSUME NEW s \in Sids, NEW o \in Opts, NEW x \in Vals \cup {None},
             UnsetExisting(s, o, x)
      PROVE  LayersConsistent' /\ BaseAgrees' /\ NeverFolded'
  <2>1. \A t \in Sids, q \in Opts :
          /\ changes'[t][q] = IF t = s /\ q = o THEN None ELSE changes[t][q]
          /\ deletes'[t] = IF t = s /\ t \in Existing /\ values[t][o] # None
                           THEN deletes[t] \cup {o} ELSE deletes[t]
    BY <1>6 DEF UnsetExisting, TypeOK
  <2>2. LayersConsistent'
    BY <1>6, <2>1, NoneAssumption DEF UnsetExisting, LayersConsistent
  <2>3. BaseAgrees' /\ NeverFolded'
    <3>1. UNCHANGED <<base, known, values, removed>>
      BY <1>6 DEF UnsetExisting
    <3>2. ASSUME NEW t \in Existing, NEW q \in Opts,
                 changes'[t][q] = None, q \notin deletes'[t]
          PROVE  values[t][q] \in {base[t][q], None}
      <4>1. CASE t = s /\ q = o BY <2>1, <3>2, <4>1 DEF TypeOK
      <4>2. CASE ~(t = s /\ q = o)
        BY <2>1, <3>2, <4>2 DEF TypeOK, BaseAgrees
      <4> QED BY <4>1, <4>2
    <3> QED BY <3>1, <3>2 DEF BaseAgrees, NeverFolded
  <2> QED BY <2>2, <2>3
<1>7. ASSUME NEW s \in Sids, ReadSection(s)
      PROVE  LayersConsistent' /\ BaseAgrees' /\ NeverFolded'
  <2>1. {s} \in SUBSET Existing
    BY <1>7 DEF ReadSection
  <2> QED BY <1>7, <2>1, FoldLayers DEF ReadSection
<1>8. ASSUME NEW s \in Sids, NEW p, MoveTo(s, p)
      PROVE  LayersConsistent' /\ BaseAgrees' /\ NeverFolded'
  BY <1>8, FoldLayers DEF MoveTo
<1>9. CASE UNCHANGED vars
  BY <1>9 DEF vars, LayersConsistent, BaseAgrees, NeverFolded
<1> QED BY <1>1, <1>2, <1>3, <1>4, <1>5, <1>6, <1>7, <1>8, <1>9
        DEF Next, Edit, Remove, Set, MoveLast, MoveBeside

LEMMA LayersInvariant == Spec => []LayersInv
BY InitLayers, NextLayers, PTL DEF Spec

\* No operation of uci.js leaves an edit behind that contradicts a later
\* one: a removed section keeps none, an option is not both set and deleted.
THEOREM LayersAreConsistent == Spec => []LayersConsistent
<1>1. LayersInv => LayersConsistent
  BY DEF LayersInv
<1> QED BY <1>1, LayersInvariant, PTL

LEMMA LossLemma == LayersInv => LossOnlyByFold
<1>1. ASSUME LayersInv, NEW s \in Visible, NEW o \in Opts,
             Submitted(s, o) # Stored(Get(s, o))
      PROVE  /\ Get(s, o) = None
             /\ s \notin created /\ values[s][o] = None /\ base[s][o] # None
  <2>1. s \in Sids /\ s \notin created /\ s \in Existing
    BY <1>1 DEF LayersInv, TypeOK, Submitted, Get
  <2>2. /\ ~(changes[s][o] # None /\ o \in deletes[s])
        /\ changes[s][o] # Blank /\ values[s][o] # Blank
    BY <1>1, <2>1 DEF LayersInv, LayersConsistent
  <2>3. changes[s][o] = None /\ o \notin deletes[s]
    BY <1>1, <2>1, <2>2, NoneAssumption
       DEF Submitted, AfterDeletes, Get, Merged, Stored
  <2>4. Submitted(s, o) = base[s][o] /\ Get(s, o) = values[s][o]
    BY <2>1, <2>3 DEF Submitted, AfterDeletes, Get, Merged
  <2>5. values[s][o] \in {base[s][o], None}
    BY <1>1, <2>1, <2>3 DEF LayersInv, BaseAgrees
  <2> QED BY <1>1, <2>1, <2>2, <2>4, <2>5 DEF Stored
<1> QED BY <1>1 DEF LossOnlyByFold

\* Whatever is edited and read, in any order: save() submits every option
\* as shown, unless the option had its deletion folded into values.
THEOREM OnlyFoldedDeletionsAreLost == Spec => []LossOnlyByFold
BY LossLemma, LayersInvariant, PTL

\* As long as nobody reads a whole section or moves one, save() submits
\* exactly what the getters show (uci.js:804).
THEOREM SubmitsAllWithoutFold == ~WholeReads => (Spec => []SubmitsAllChanges)
<1> SUFFICES ASSUME ~WholeReads PROVE Spec => []SubmitsAllChanges
  OBVIOUS
<1>1. LayersInv => LossOnlyByFold /\ values = base
  BY LossLemma DEF LayersInv, NeverFolded
<1>2. LayersInv => SubmitsAllChanges
  BY <1>1 DEF LossOnlyByFold, SubmitsAllChanges
<1> QED BY <1>2, LayersInvariant, PTL

-----------------------------------------------------------------------------
(* The layers implement a plain buffer of sections                         *)

LEMMA ShownType ==
  ASSUME TypeOK, NEW s \in Sids, NEW o \in Opts
  PROVE  Get(s, o) \in Vals \cup {None}
BY MergedType DEF TypeOK, Get

LEMMA ShownSame ==
  ASSUME \A t \in Sids, q \in Opts : Get(t, q)' = Get(t, q)
  PROVE  ShownOpts' = ShownOpts
BY DEF ShownOpts, Stored

LEMMA InitBuffer == Init => Buffer!Init
<1> SUFFICES ASSUME Init PROVE Buffer!Init OBVIOUS
<1>1. LayersInv
  BY InitLayers
<1>2. created = {}
  BY DEF Init, Loaded
<1>3. \A s \in Sids, o \in Opts :
        /\ Stored(Get(s, o)) \in (Vals \ {Blank}) \cup {None}
        /\ s \notin Visible => Stored(Get(s, o)) = None
  BY <1>1, <1>2, ShownType, NoneAssumption DEF Stored, LayersInv, Get
<1>4. Visible \in SUBSET Sids
  BY <1>1 DEF LayersInv, TypeOK
<1>5. ShownOpts \in [Sids -> [Opts -> (Vals \ {Blank}) \cup {None}]]
  BY <1>3 DEF ShownOpts
<1>6. \A s \in Sids \ Visible : ShownOpts[s] = Buffer!Nothing
  BY <1>3 DEF ShownOpts, Buffer!Nothing
<1> QED BY <1>4, <1>5, <1>6 DEF Buffer!Init

LEMMA NextBuffer ==
  LayersInv /\ [Next]_vars => [Buffer!Next]_<<Visible, ShownOpts>>
<1> SUFFICES ASSUME LayersInv, [Next]_vars
             PROVE  Buffer!Next \/ UNCHANGED <<Visible, ShownOpts>>
  OBVIOUS
<1> USE DEF LayersInv, layers, places
<1>0. TypeOK'
  BY NextType
<1>1. ASSUME NEW s \in Sids, Add(s)
      PROVE  Buffer!Next \/ UNCHANGED <<Visible, ShownOpts>>
  <2>1. Visible' = Visible \cup {s} /\ s \notin Visible
    BY <1>1 DEF Add
  <2>2. \A t \in Sids, q \in Opts : Get(t, q)' = Get(t, q)
    BY <1>1 DEF Add, Get, Merged, TypeOK
  <2>3. ShownOpts' = ShownOpts
    BY <2>2, ShownSame
  <2>4. Buffer!Create(s)
    BY <2>1, <2>3 DEF Buffer!Create
  <2> QED BY <2>4 DEF Buffer!Next
<1>2. ASSUME NEW s \in Sids, Remove(s)
      PROVE  Buffer!Next \/ UNCHANGED <<Visible, ShownOpts>>
  <2>1. \A t \in Sids, q \in Opts : Get(t, q)' = IF t = s THEN None ELSE Get(t, q)
    BY <1>2 DEF Remove, RemoveCreated, RemoveExisting, Get, Merged, TypeOK,
       LayersConsistent
  <2>2. Visible' = Visible \ {s}
    BY <1>2 DEF Remove, RemoveCreated, RemoveExisting, LayersConsistent
  <2>3. ShownOpts' = [ShownOpts EXCEPT ![s] = Buffer!Nothing]
    BY <2>1 DEF ShownOpts, Stored, Buffer!Nothing
  <2>4. CASE s \in Visible
    BY <2>2, <2>3, <2>4 DEF Buffer!Next, Buffer!Drop
  <2>5. CASE s \notin Visible
    <3>1. \A q \in Opts : Get(s, q) = None
      BY <2>5 DEF Get
    <3> QED BY <2>1, <2>2, <2>5, <3>1, ShownSame
  <2> QED BY <2>4, <2>5
<1>3. ASSUME NEW s \in Sids, NEW o \in Opts, NEW x \in Vals \cup {None},
             Set(s, o, x)
      PROVE  Buffer!Next \/ UNCHANGED <<Visible, ShownOpts>>
  <2>1. Visible' = Visible
    BY <1>3 DEF Set, SetCreated, SetExisting, UnsetExisting
  <2>2. CASE s \in Visible
    <3>1. \A t \in Sids, q \in Opts :
            Stored(Get(t, q))' = IF t = s /\ q = o THEN Stored(x)
                                                  ELSE Stored(Get(t, q))
      <4>1. CASE SetCreated(s, o, x)
        BY <4>1 DEF SetCreated, Get, Merged, TypeOK, Stored
      <4>2. CASE SetExisting(s, o, x)
        BY <4>2 DEF SetExisting, Get, Merged, TypeOK, Stored
      <4>3. CASE UnsetExisting(s, o, x)
        BY <2>2, <4>3, NoneAssumption
           DEF UnsetExisting, Get, Merged, TypeOK, Stored
      <4> QED BY <1>3, <4>1, <4>2, <4>3 DEF Set
    <3>2. ShownOpts' = [ShownOpts EXCEPT ![s][o] =
                          IF x = Blank THEN None ELSE x]
      BY <3>1 DEF ShownOpts, Stored
    <3> QED BY <2>1, <2>2, <3>2 DEF Buffer!Next, Buffer!Assign
  <2>3. CASE s \notin Visible
    <3>1. \A t \in Sids, q \in Opts : Get(t, q)' = Get(t, q)
      BY <1>3, <2>3
         DEF Set, SetCreated, SetExisting, UnsetExisting, Get, Merged, TypeOK
    <3> QED BY <2>1, <3>1, ShownSame
  <2> QED BY <2>2, <2>3
<1>4. ASSUME NEW S \in SUBSET Existing, values' = Fold(S),
             UNCHANGED <<known, created, creates, changes, deletes, removed>>
      PROVE  UNCHANGED <<Visible, ShownOpts>>
  <2>1. \A t \in Sids, q \in Opts : Get(t, q)' = Get(t, q)
    BY <1>4 DEF Get, Merged, TypeOK, Fold
  <2> QED BY <1>4, <2>1, ShownSame
<1>5. ASSUME NEW s \in Sids, ReadSection(s)
      PROVE  UNCHANGED <<Visible, ShownOpts>>
  BY <1>4, <1>5 DEF ReadSection
<1>6. ASSUME NEW s \in Sids, NEW p, MoveTo(s, p)
      PROVE  UNCHANGED <<Visible, ShownOpts>>
  BY <1>4, <1>6 DEF MoveTo
<1>7. CASE UNCHANGED vars
  BY <1>7, ShownSame DEF vars, Get, Merged
<1> QED BY <1>1, <1>2, <1>3, <1>5, <1>6, <1>7
        DEF Next, Edit, MoveLast, MoveBeside

\* Every operation of uci.js changes, as the getters show it, the one
\* section or option its caller names, and whole reads and moves change none.
THEOREM ImplementsBuffer == Spec => BufferSpec
<1>1. LayersInv /\ [Next]_vars => [Buffer!Next]_<<Visible, ShownOpts>>
  BY NextBuffer
<1> QED BY InitBuffer, <1>1, LayersInvariant, PTL
        DEF Spec, BufferSpec, Buffer!Spec

-----------------------------------------------------------------------------
\* Whatever the layers hold from earlier edits, folds and moves, the next edit
\* shows in the getters as its caller asked (uci.js set, unset, add, remove).
THEOREM NoEditIsLost == Spec => EditsTakeEffect
<1>1. ASSUME LayersInv, NEW s \in Sids, NEW o \in Opts,
             NEW x \in Vals \cup {None}, s \in Visible, Set(s, o, x)
      PROVE  ShownOpts'[s][o] = Stored(x)
  <2> USE DEF LayersInv, TypeOK
  <2>0. ShownOpts'[s][o] = Stored(Get(s, o)')
    BY DEF ShownOpts, Stored
  <2>1. CASE SetCreated(s, o, x)
    <3>1. Get(s, o)' = x
      BY <1>1, <2>1 DEF SetCreated, Get
    <3> QED BY <2>0, <3>1
  <2>2. CASE SetExisting(s, o, x)
    <3>1. Get(s, o)' = x
      BY <1>1, <2>2 DEF SetExisting, Get, Merged
    <3> QED BY <2>0, <3>1
  <2>3. CASE UnsetExisting(s, o, x)
    <3>1. Get(s, o)' = None
      BY <1>1, <2>3 DEF UnsetExisting, Get, Merged
    <3> QED BY <2>0, <2>3, <3>1, NoneAssumption DEF UnsetExisting, Stored
  <2> QED BY <1>1, <2>1, <2>2, <2>3 DEF Set
<1>2. ASSUME LayersInv, NEW s \in Sids, Remove(s) PROVE s \notin Visible'
  BY <1>2 DEF Remove, RemoveCreated, RemoveExisting, LayersInv,
     LayersConsistent
<1>3. ASSUME LayersInv, NEW s \in Sids, Add(s)
      PROVE  s \in Visible' /\ ShownOpts'[s] = Empty
  <2>1. s \in created' /\ \A o \in Opts : creates'[s][o] = None
    BY <1>3 DEF Add, LayersInv, TypeOK
  <2>2. \A o \in Opts : Stored(Get(s, o))' = None
    BY <2>1 DEF Stored, Get
  <2> QED BY <2>1, <2>2 DEF ShownOpts
<1>4. LayersInv =>
        [\A s \in Sids :
           /\ \A o \in Opts, x \in Vals \cup {None} :
                s \in Visible /\ Set(s, o, x) => ShownOpts'[s][o] = Stored(x)
           /\ Remove(s) => s \notin Visible'
           /\ Add(s) => s \in Visible' /\ ShownOpts'[s] = Empty]_vars
  BY <1>1, <1>2, <1>3
<1> QED BY <1>4, LayersInvariant, PTL DEF EditsTakeEffect

-----------------------------------------------------------------------------
(* The order of the sections                                               *)

LEMMA IndexType == TypeOK => \A s \in Sids : Index(s) \in Nat
BY DEF TypeOK, Index

\* ranks are ordered as the indexes are
LEMMA RankOrder ==
  ASSUME TypeOK, NEW S \in SUBSET Sids, NEW s \in S, NEW t \in S,
         Index(s) < Index(t)
  PROVE  Rank(S, s) < Rank(S, t)
<1> DEFINE T == {u \in S : Index(u) < Index(t)}
           U == {u \in S : Index(u) < Index(s)}
<1>1. IsFiniteSet(T)
  BY IdsAssumption, FS_Subset, T \subseteq Sids
<1>2. \A u \in S : Index(u) \in Nat
  BY IndexType
<1>3. U \in SUBSET T /\ s \in T \ U
  BY <1>2
<1> HIDE DEF T, U
<1>4. Cardinality(U) < Cardinality(T)
  BY <1>1, <1>3, StrictSubset
<1> QED BY <1>4 DEF Rank, T, U

\* taking a section out and putting it in at p keeps the order of the others
LEMMA PlaceOrder ==
  ASSUME TypeOK, NEW s1 \in Sids, NEW p \in Nat,
         NEW s \in Visible \ {s1}, NEW t \in Visible \ {s1},
         Index(s) < Index(t)
  PROVE  PlaceAfterMove(s1, p, s) < PlaceAfterMove(s1, p, t)
<1> DEFINE S == Visible \ {s1}
<1>1. S \in SUBSET Sids /\ s \in S /\ t \in S
  BY DEF TypeOK
<1>2. Rank(S, s) \in Nat /\ Rank(S, t) \in Nat
  BY <1>1, RankType
<1>3. Rank(S, s) < Rank(S, t)
  BY ONLY <1>1, RankOrder, TypeOK, Index(s) < Index(t)
<1> QED BY <1>2, <1>3 DEF PlaceAfterMove

LEMMA PlaceDistinct ==
  ASSUME TypeOK, IndexDistinct, NEW s1 \in Sids, NEW p \in Nat,
         NEW s \in Visible, NEW t \in Visible, s # t
  PROVE  PlaceAfterMove(s1, p, s) # PlaceAfterMove(s1, p, t)
<1> DEFINE P(u) == PlaceAfterMove(s1, p, u)
<1>0. \A u \in Visible : u \in Sids
  BY DEF TypeOK
<1>1. \A u \in Visible : P(u) \in Nat
  BY <1>0, PlaceType
<1>2. ASSUME NEW u \in Visible \ {s1} PROVE P(u) # P(s1)
  <2>1. Rank(Visible \ {s1}, u) \in Nat
    BY <1>0, RankType
  <2> QED BY <2>1 DEF PlaceAfterMove
<1>3. CASE s # s1 /\ t # s1
  <2>1. Index(s) # Index(t) /\ Index(s) \in Nat /\ Index(t) \in Nat
    BY <1>0, IndexType DEF IndexDistinct
  <2>2. Index(s) < Index(t) => P(s) < P(t)
    BY <1>3, PlaceOrder
  <2>3. Index(t) < Index(s) => P(t) < P(s)
    BY <1>3, PlaceOrder
  <2> QED BY <1>1, <2>1, <2>2, <2>3
<1> QED BY <1>2, <1>3

LEMMA PlaceBound ==
  ASSUME TypeOK, NEW s1 \in Visible, NEW p \in Nat,
         p <= Cardinality(Visible \ {s1}), NEW s \in Visible
  PROVE  PlaceAfterMove(s1, p, s) < NewBase
<1> DEFINE S == Visible \ {s1}
<1>1. S \in SUBSET Sids /\ s1 \in Sids \ S
  BY DEF TypeOK
<1>2. Cardinality(S) < Cardinality(Sids)
  BY <1>1, IdsAssumption, StrictSubset
<1>3. IsFiniteSet(S)
  BY <1>1, IdsAssumption, FS_Subset
<1>4. Cardinality(S) \in Nat /\ Cardinality(Sids) \in Nat
  BY <1>3, IdsAssumption, FS_CardinalityType
<1>5. CASE s = s1
  BY <1>2, <1>4, <1>5, BaseAssumption DEF PlaceAfterMove
<1>6. CASE s # s1
  <2>1. s \in S
    BY <1>6
  <2>2. Rank(S, s) \in Nat /\ Rank(S, s) < Cardinality(S)
    BY ONLY <1>1, <2>1, RankType, RankBound, TypeOK
  <2> QED BY <1>2, <1>4, <1>6, <2>2, BaseAssumption DEF PlaceAfterMove
<1> QED BY <1>5, <1>6

-----------------------------------------------------------------------------
(* IndexDistinct is inductive with the ranges of the two kinds of index:   *)
(* what was loaded or moved lies below NewBase, what was added below       *)
(* NewBase + newidx.                                                       *)
IndexInv ==
  /\ IndexDistinct
  /\ \A s \in created : nindex[s] < NewBase + newidx
  /\ \A s \in Existing : vindex[s] < NewBase

OrderInv == LayersInv /\ IndexInv

LEMMA InitIndex == Init => IndexInv
<1> SUFFICES ASSUME Init PROVE IndexInv OBVIOUS
<1>1. PICK K \in SUBSET Named :
        \E m \in ServerMaps(K), p \in ServerOrders(K) : Loaded(K, m, p)
  BY DEF Init
<1>2. PICK m \in ServerMaps(K), p \in ServerOrders(K) : Loaded(K, m, p)
  BY <1>1
<1>3. K \in SUBSET Sids /\ IsFiniteSet(K)
  BY IdsAssumption, FS_Subset
<1>4. /\ Cardinality(K) \in Nat /\ Cardinality(Sids) \in Nat
      /\ Cardinality(K) <= NewBase
  BY <1>3, IdsAssumption, BaseAssumption, FS_Subset, FS_CardinalityType
<1>5. /\ \A s \in K : p[s] \in Nat /\ p[s] < Cardinality(K)
      /\ \A s, t \in K : s # t => p[s] # p[t]
  BY <1>3, <1>4 DEF ServerOrders
<1> QED BY <1>2, <1>4, <1>5, BaseAssumption
        DEF Loaded, IndexInv, IndexDistinct, Index

\* A step that leaves the indexes alone and shows no new section.
LEMMA SameIndexes ==
  ASSUME TypeOK, IndexInv, UNCHANGED <<vindex, nindex, newidx, created>>,
         Existing' \subseteq Existing
  PROVE  IndexInv'
BY DEF IndexInv, IndexDistinct, Index

LEMMA NextIndex == OrderInv /\ [Next]_vars => IndexInv'
<1> SUFFICES ASSUME OrderInv, [Next]_vars PROVE IndexInv' OBVIOUS
<1> USE DEF OrderInv, LayersInv, layers, places
<1>1. ASSUME NEW s \in Sids, Add(s) PROVE IndexInv'
  <2>1. \A t \in Sids : nindex'[t] = IF t = s THEN NewBase + newidx
                                            ELSE nindex[t]
    BY <1>1 DEF Add, TypeOK
  <2>2. \A t \in Visible : Index(t) \in Nat /\ Index(t) < NewBase + newidx
    BY BaseAssumption DEF TypeOK, IndexInv, Index
  <2>3. \A t \in Visible' : Index(t)' = IF t = s THEN NewBase + newidx
                                                ELSE Index(t)
    BY <1>1, <2>1 DEF Add, Index
  <2>4. IndexDistinct'
    BY <1>1, <2>2, <2>3, BaseAssumption DEF Add, IndexInv, IndexDistinct,
       TypeOK
  <2> QED BY <1>1, <2>1, <2>4, BaseAssumption DEF Add, IndexInv, TypeOK
<1>2. ASSUME NEW s \in Sids, RemoveCreated(s) PROVE IndexInv'
  <2>1. s \notin Visible'
    BY <1>2 DEF RemoveCreated, LayersConsistent
  <2>2. \A t \in Visible' : t \in Visible /\ Index(t)' = Index(t)
    BY <1>2, <2>1 DEF RemoveCreated, Index, TypeOK
  <2>3. \A t \in created' : nindex'[t] = nindex[t]
    BY <1>2 DEF RemoveCreated, TypeOK
  <2> QED BY <1>2, <2>2, <2>3 DEF RemoveCreated, IndexInv, IndexDistinct
<1>3. ASSUME NEW s \in Sids, RemoveExisting(s) PROVE IndexInv'
  BY <1>3, SameIndexes DEF RemoveExisting
<1>4. ASSUME NEW s \in Sids, NEW o \in Opts, NEW x \in Vals \cup {None},
             Set(s, o, x)
      PROVE  IndexInv'
  BY <1>4, SameIndexes DEF Set, SetCreated, SetExisting, UnsetExisting
<1>5. ASSUME NEW s \in Sids, ReadSection(s) PROVE IndexInv'
  BY <1>5, SameIndexes DEF ReadSection
<1>6. ASSUME NEW s1 \in Sids, NEW p \in Nat, MoveTo(s1, p),
             p <= Cardinality(Visible \ {s1})
      PROVE  IndexInv'
  <2>1. Visible' = Visible /\ created' = created /\ Existing' = Existing
        /\ newidx' = newidx /\ s1 \in Visible
    BY <1>6 DEF MoveTo
  <2>2. \A s \in Visible : Index(s)' = PlaceAfterMove(s1, p, s)
    BY <1>6, <2>1 DEF MoveTo, Index, TypeOK
  <2>3. \A s, t \in Visible : s # t =>
          PlaceAfterMove(s1, p, s) # PlaceAfterMove(s1, p, t)
    BY PlaceDistinct DEF IndexInv
  <2>4. \A s \in Visible : /\ PlaceAfterMove(s1, p, s) \in Nat
                           /\ PlaceAfterMove(s1, p, s) < NewBase
    BY <1>6, <2>1, PlaceBound, PlaceType DEF TypeOK
  <2>5. IndexDistinct'
    BY <2>1, <2>2, <2>3 DEF IndexDistinct
  <2>6. \A s \in created : nindex'[s] < NewBase + newidx
    BY <1>6, <2>4, BaseAssumption DEF MoveTo, TypeOK
  <2>7. \A s \in Existing : vindex'[s] < NewBase
    BY <1>6, <2>4 DEF MoveTo, TypeOK, LayersConsistent
  <2> QED BY <2>1, <2>5, <2>6, <2>7 DEF IndexInv
<1>7. ASSUME NEW s \in Sids,
             \/ MoveLast(s)
             \/ \E t \in Sids, after \in BOOLEAN : MoveBeside(s, t, after)
      PROVE  IndexInv'
  <2>1. s \in Visible
    BY <1>7 DEF MoveLast, MoveBeside, MoveTo
  <2>2. PICK p \in Nat : p <= Cardinality(Visible \ {s}) /\ MoveTo(s, p)
    BY <1>7, <2>1, MovePlaces
  <2> QED BY <1>6, <2>2
<1>8. CASE UNCHANGED vars
  BY <1>8, SameIndexes DEF vars
<1> QED BY <1>1, <1>2, <1>3, <1>4, <1>5, <1>7, <1>8 DEF Next, Edit, Remove

LEMMA OrderInvariant == Spec => []OrderInv
<1>1. Init => OrderInv
  BY InitLayers, InitIndex DEF OrderInv
<1>2. OrderInv /\ [Next]_vars => OrderInv'
  BY NextLayers, NextIndex DEF OrderInv
<1> QED BY <1>1, <1>2, PTL DEF Spec

\* sections() always has one order to sort into: no two sections it shows
\* ever get the same .index, whatever is added, removed and moved.
THEOREM OneOrder == Spec => []IndexDistinct
<1>1. OrderInv => IndexDistinct
  BY DEF OrderInv, IndexInv
<1> QED BY <1>1, OrderInvariant, PTL

\* Removing and moving a section leaves all others in their order, and a new
\* one comes last: no step of uci.js changes the order of two others.
LEMMA StepMovesOne ==
  OrderInv /\ [Next]_vars =>
    (\/ \E s1 \in Sids : \A s, t \in (Visible \cap Visible') \ {s1} :
          Index(s) < Index(t) <=> Index(s)' < Index(t)'
     \/ UNCHANGED vars)
<1> DEFINE Keeps(s1) == \A s, t \in (Visible \cap Visible') \ {s1} :
                          Index(s) < Index(t) <=> Index(s)' < Index(t)'
<1> SUFFICES ASSUME OrderInv, Next PROVE \E s1 \in Sids : Keeps(s1)
  BY DEF vars
<1> USE DEF OrderInv, LayersInv, layers, places
<1>1. ASSUME NEW s1 \in Sids, Add(s1) PROVE Keeps(s1)
  BY <1>1 DEF Add, Index, TypeOK
<1>2. ASSUME NEW s1 \in Sids, Remove(s1) PROVE Keeps(s1)
  BY <1>2 DEF Remove, RemoveCreated, RemoveExisting, Index, TypeOK
<1>3. ASSUME NEW s1 \in Sids,
             ReadSection(s1) \/ \E o \in Opts, x \in Vals \cup {None} : Set(s1, o, x)
      PROVE  Keeps(s1)
  BY <1>3 DEF ReadSection, Set, SetCreated, SetExisting, UnsetExisting, Index
<1>4. ASSUME NEW s1 \in Sids, NEW p \in Nat, MoveTo(s1, p) PROVE Keeps(s1)
  <2>1. \A s \in Visible : s \in Sids /\ Index(s)' = PlaceAfterMove(s1, p, s)
    BY <1>4 DEF MoveTo, Index, TypeOK
  <2>2. ASSUME NEW s \in Visible \ {s1}, NEW t \in Visible \ {s1}
        PROVE  Index(s) < Index(t) <=> Index(s)' < Index(t)'
    <3>1. /\ Index(s) \in Nat /\ Index(t) \in Nat
          /\ PlaceAfterMove(s1, p, s) \in Nat
          /\ PlaceAfterMove(s1, p, t) \in Nat
          /\ s # t => Index(s) # Index(t)
      BY <2>1, IndexType, PlaceType DEF IndexInv, IndexDistinct
    <3>2. /\ Index(s) < Index(t) =>
               PlaceAfterMove(s1, p, s) < PlaceAfterMove(s1, p, t)
          /\ Index(t) < Index(s) =>
               PlaceAfterMove(s1, p, t) < PlaceAfterMove(s1, p, s)
      BY PlaceOrder
    <3> QED BY <2>1, <3>1, <3>2
  <2> QED BY <2>2
<1>5. ASSUME NEW s \in Sids,
             \/ MoveLast(s)
             \/ \E t \in Sids, after \in BOOLEAN : MoveBeside(s, t, after)
      PROVE  Keeps(s)
  <2>1. s \in Visible
    BY <1>5 DEF MoveLast, MoveBeside, MoveTo
  <2>2. PICK p \in Nat : p <= Cardinality(Visible \ {s}) /\ MoveTo(s, p)
    BY <1>5, <2>1, MovePlaces
  <2> QED BY <1>4, <2>2
<1> HIDE DEF Keeps
<1> QED BY <1>1, <1>2, <1>3, <1>5 DEF Next, Edit

\* A caller of move() changes the place of the section it names only, and
\* add() and remove() that of none (uci.js move, sections).
THEOREM OneSectionMoves == Spec => OneMoves
<1>1. OrderInv /\ [Next]_vars =>
        [\E s1 \in Sids : \A s, t \in (Visible \cap Visible') \ {s1} :
           Index(s) < Index(t) <=> Index(s)' < Index(t)']_vars
  BY StepMovesOne
<1> QED BY <1>1, OrderInvariant, PTL DEF Spec, OneMoves

-----------------------------------------------------------------------------
(* The sections in the order of their indexes are a sequence that add,     *)
(* remove and move change as UciSequence says                              *)

\* q lists the set V, each element once, in the order of f
Sorted(f, V, q) ==
  /\ q \in Seq(V)
  /\ \A x \in V : \E i \in 1..Len(q) : q[i] = x
  /\ \A i, j \in 1..Len(q) : i < j => f[q[i]] < f[q[j]]

\* how many elements of V lie below x
Below(f, V, x) == Cardinality({y \in V : f[y] < f[x]})

\* The place of an element in a sorted list says how many lie below it.
LEMMA SortedRank ==
  ASSUME NEW V, NEW f, \A x \in V : f[x] \in Nat, NEW q, Sorted(f, V, q)
  PROVE  /\ Len(q) \in Nat /\ Len(q) = Cardinality(V)
         /\ \A i \in 1..Len(q) : Below(f, V, q[i]) = i - 1
<1> DEFINE n == Len(q)
           Lower(i) == {y \in V : f[y] < f[q[i]]}
<1>1. /\ n \in Nat /\ \A i \in 1..n : q[i] \in V
      /\ \A i, j \in 1..n : i < j => f[q[i]] < f[q[j]]
      /\ \A x \in V : \E i \in 1..n : q[i] = x
  BY DEF Sorted
<1>2. \A i, j \in 1..n : q[i] = q[j] => i = j
  BY <1>1
<1>3. ASSUME NEW m \in Nat, m <= n, NEW T \in SUBSET V,
             \A y \in V : y \in T <=> \E i \in 1..m : q[i] = y
      PROVE  Cardinality(T) = m
  <2> DEFINE g == [i \in 1..m |-> q[i]]
  <2>1. g \in Bijection(1..m, T)
    BY <1>1, <1>2, <1>3 DEF Bijection, Injection, Surjection, IsInjective
  <2>2. IsFiniteSet(1..m) /\ Cardinality(1..m) = m
    BY FS_Interval
  <2>3. ExistsBijection(1..m, T)
    BY <2>1 DEF ExistsBijection
  <2> QED BY <2>2, <2>3, FS_Bijection
<1>4. Cardinality(V) = n
  BY <1>1, <1>3
<1>5. ASSUME NEW i \in 1..n PROVE Cardinality(Lower(i)) = i - 1
  <2>1. i - 1 \in Nat /\ i - 1 <= n
    BY <1>1
  <2>2. ASSUME NEW y \in V
        PROVE  y \in Lower(i) <=> \E j \in 1..(i - 1) : q[j] = y
    <3>1. PICK j \in 1..n : q[j] = y
      BY <1>1
    <3>2. f[q[i]] \in Nat /\ f[y] \in Nat
      BY <1>1
    <3>3. y \in Lower(i) <=> j < i
      BY <1>1, <3>1, <3>2
    <3>4. \A k \in 1..(i - 1) : q[k] = y => k = j
      BY <1>1, <1>2, <3>1
    <3>5. j < i <=> j \in 1..(i - 1)
      BY <1>1
    <3> QED BY <3>1, <3>3, <3>4, <3>5
  <2> QED BY <1>3, <2>1, <2>2
<1> QED BY <1>1, <1>4, <1>5 DEF Below

LEMMA SortedLists ==
  ASSUME NEW V, NEW f, \A x \in V : f[x] \in Nat, NEW q, Sorted(f, V, q)
  PROVE  /\ q \in [1..Cardinality(V) -> V]
         /\ \A i, j \in 1..Cardinality(V) : i # j => q[i] # q[j]
<1>1. Len(q) \in Nat /\ Len(q) = Cardinality(V)
  BY SortedRank
<1>2. q \in Seq(V) /\ \A i, j \in 1..Len(q) : i < j => f[q[i]] < f[q[j]]
  BY DEF Sorted
<1>3. q \in [1..Len(q) -> V]
  BY <1>2
<1>4. \A i, j \in 1..Len(q) : i # j => q[i] # q[j]
  BY <1>1, <1>2, <1>3
<1> QED BY <1>1, <1>3, <1>4

\* A set has one sorted list.
LEMMA SortedSame ==
  ASSUME NEW V, NEW f, \A x \in V : f[x] \in Nat,
         NEW p, Sorted(f, V, p), NEW q, Sorted(f, V, q)
  PROVE  p = q
<1>a. /\ Len(p) = Cardinality(V) /\ Len(p) \in Nat
      /\ \A i \in 1..Len(p) : Below(f, V, p[i]) = i - 1
  BY SortedRank
<1>b. /\ Len(q) = Cardinality(V)
      /\ \A i \in 1..Len(q) : Below(f, V, q[i]) = i - 1
  BY SortedRank
<1>1. Len(p) = Len(q) /\ Len(p) \in Nat
  BY <1>a, <1>b
<1>2. ASSUME NEW i \in 1..Len(p) PROVE p[i] = q[i]
  <2>1. p[i] \in V
    BY DEF Sorted
  <2>2. PICK j \in 1..Len(q) : q[j] = p[i]
    BY <2>1 DEF Sorted
  <2>3. j - 1 = i - 1
    BY <1>1, <1>a, <1>b, <2>2
  <2> QED BY <1>1, <2>2, <2>3
<1>3. p \in Seq(V) /\ q \in Seq(V)
  BY DEF Sorted
<1> QED BY <1>1, <1>2, <1>3

IndexMap == [s \in Sids |-> Index(s)]

\* Ranks below distinct indexes are the numbers from 0, each taken once.
LEMMA RankOnto ==
  ASSUME TypeOK, IndexDistinct, NEW k \in 1..Cardinality(Visible)
  PROVE  \E s \in Visible : Rank(Visible, s) = k - 1
<1> DEFINE V == Visible
           r == [s \in V |-> Rank(V, s) + 1]
<1>1. V \in SUBSET Sids /\ IsFiniteSet(V) /\ Cardinality(V) \in Nat
  BY IdsAssumption, FS_Subset, FS_CardinalityType DEF TypeOK
<1>2. \A s \in V : Rank(V, s) \in Nat /\ Rank(V, s) < Cardinality(V)
  BY ONLY <1>1, RankType, RankBound, TypeOK
<1>3. ASSUME NEW s \in V, NEW t \in V, s # t PROVE Rank(V, s) # Rank(V, t)
  <2>1. Index(s) # Index(t) /\ Index(s) \in Nat /\ Index(t) \in Nat
    BY <1>1, <1>3, IndexType DEF IndexDistinct
  <2>2. /\ Index(s) < Index(t) => Rank(V, s) < Rank(V, t)
        /\ Index(t) < Index(s) => Rank(V, t) < Rank(V, s)
    BY ONLY <1>1, <1>3, RankOrder, TypeOK
  <2> QED BY <1>2, <2>1, <2>2
<1> HIDE DEF V
<1>4. r \in [V -> 1..Cardinality(V)]
  BY <1>1, <1>2
<1>5. r \in Injection(V, 1..Cardinality(V))
  BY <1>2, <1>3, <1>4 DEF Injection, IsInjective
<1>6. IsFiniteSet(1..Cardinality(V)) /\ Cardinality(1..Cardinality(V)) = Cardinality(V)
  BY <1>1, FS_Interval
<1>7. r \in Surjection(V, 1..Cardinality(V))
  BY <1>5, <1>6, FS_Injection
<1>8. k \in 1..Cardinality(V)
  BY DEF V
<1>9. PICK s \in V : r[s] = k
  BY <1>7, <1>8 DEF Surjection
<1>10. Rank(V, s) = k - 1
  BY <1>2, <1>8, <1>9
<1> QED BY <1>10 DEF V

LEMMA ShownSorted == OrderInv => Sorted(IndexMap, Visible, ShownOrder)
<1> SUFFICES ASSUME OrderInv PROVE Sorted(IndexMap, Visible, ShownOrder)
  OBVIOUS
<1> DEFINE V == Visible
           n == Cardinality(V)
<1>1. V \in SUBSET Sids /\ IsFiniteSet(V) /\ n \in Nat
  BY IdsAssumption, FS_Subset, FS_CardinalityType DEF OrderInv, LayersInv, TypeOK
<1>2. /\ \A s \in V : IndexMap[s] = Index(s) /\ Index(s) \in Nat
      /\ \A s \in V : Rank(V, s) \in Nat /\ Rank(V, s) < n
  BY ONLY <1>1, RankType, RankBound, IndexType, OrderInv DEF OrderInv, LayersInv, IndexMap
<1>3. \A k \in 1..n : \E s \in V : Rank(V, s) = k - 1
  BY RankOnto DEF OrderInv, LayersInv, IndexInv
<1>4. \A s, t \in V : Index(s) < Index(t) => Rank(V, s) < Rank(V, t)
  BY ONLY <1>1, RankOrder, OrderInv DEF OrderInv, LayersInv
<1>5. \A s, t \in V : s # t => Index(s) # Index(t)
  BY DEF OrderInv, IndexInv, IndexDistinct
<1>6. ShownOrder = [k \in 1..n |-> CHOOSE s \in V : Rank(V, s) = k - 1]
  BY DEF ShownOrder
<1> HIDE DEF V
<1>7. \A k \in 1..n : ShownOrder[k] \in V /\ Rank(V, ShownOrder[k]) = k - 1
  BY <1>3, <1>6
<1>8. ShownOrder \in Seq(V) /\ Len(ShownOrder) = n
  BY <1>1, <1>6, <1>7
<1>9. ASSUME NEW x \in V PROVE \E i \in 1..n : ShownOrder[i] = x
  <2>1. Rank(V, x) + 1 \in 1..n
    BY <1>1, <1>2
  <2>2. PICK i \in 1..n : i = Rank(V, x) + 1
    BY <2>1
  <2>3. ShownOrder[i] \in V /\ Rank(V, ShownOrder[i]) = Rank(V, x)
    BY <1>2, <1>7, <2>2
  <2>4. ShownOrder[i] = x
    BY <1>2, <1>4, <1>5, <2>3
  <2> QED BY <2>4
<1>10. ASSUME NEW i \in 1..n, NEW j \in 1..n, i < j
       PROVE  IndexMap[ShownOrder[i]] < IndexMap[ShownOrder[j]]
  <2> DEFINE x == ShownOrder[i]
             y == ShownOrder[j]
  <2>1. x \in V /\ y \in V /\ Rank(V, x) = i - 1 /\ Rank(V, y) = j - 1
    BY <1>7
  <2> HIDE DEF x, y
  <2>2. ~(Index(y) < Index(x)) /\ x # y
    BY <1>1, <1>4, <1>10, <2>1
  <2>3. Index(x) < Index(y)
    BY <1>2, <1>5, <2>1, <2>2
  <2> QED BY <1>2, <2>1, <2>3 DEF x, y
<1>11. Sorted(IndexMap, V, ShownOrder)
  BY <1>8, <1>9, <1>10 DEF Sorted
<1> QED BY <1>11 DEF V

LEMMA InitSequence == Init => Sequence!Init
<1> SUFFICES ASSUME Init PROVE Sequence!Init
  OBVIOUS
<1>1. OrderInv
  BY InitLayers, InitIndex DEF OrderInv
<1>2. Visible \in SUBSET Sids
  BY <1>1 DEF OrderInv, LayersInv, TypeOK
<1>3. \A s \in Visible : IndexMap[s] \in Nat
  BY <1>1, <1>2, IndexType DEF IndexMap, OrderInv, LayersInv
<1>4. Sorted(IndexMap, Visible, ShownOrder)
  BY <1>1, ShownSorted
<1>5. /\ ShownOrder \in [1..Cardinality(Visible) -> Visible]
      /\ \A i, j \in 1..Cardinality(Visible) :
           i # j => ShownOrder[i] # ShownOrder[j]
  BY <1>3, <1>4, SortedLists
<1>6. ShownOrder \in Seq(Sids)
  BY <1>2, <1>4 DEF Sorted
<1> QED BY <1>5, <1>6 DEF Sequence!Init, Sequence!IsInjective

LEMMA SortedAgain ==
  ASSUME NEW V, NEW f, NEW g, NEW q, Sorted(f, V, q),
         \A x, y \in V : f[x] < f[y] => g[x] < g[y]
  PROVE  Sorted(g, V, q)
<1>1. \A i \in 1..Len(q) : q[i] \in V
  BY DEF Sorted
<1> QED BY <1>1 DEF Sorted

LEMMA AppendSorted ==
  ASSUME NEW V, NEW f, \A x \in V : f[x] \in Nat, NEW q, Sorted(f, V, q),
         NEW s, f[s] \in Nat, \A x \in V : f[x] < f[s]
  PROVE  Sorted(f, V \cup {s}, Append(q, s))
<1> DEFINE n == Len(q)
           t == Append(q, s)
<1>1. /\ q \in Seq(V) /\ n \in Nat /\ \A i \in 1..n : q[i] \in V
      /\ \A x \in V : \E i \in 1..n : q[i] = x
      /\ \A i, j \in 1..n : i < j => f[q[i]] < f[q[j]]
  BY DEF Sorted
<1>2. q \in Seq(V \cup {s})
  BY <1>1
<1>3. /\ t \in Seq(V \cup {s}) /\ Len(t) = n + 1 /\ t[n + 1] = s
      /\ \A i \in 1..n : t[i] = q[i]
  BY <1>1, <1>2
<1> HIDE DEF t, n
<1>4. ASSUME NEW x \in V \cup {s} PROVE \E i \in 1..(n + 1) : t[i] = x
  <2>1. CASE x \in V
    <3>1. PICK i \in 1..n : q[i] = x
      BY <1>1, <2>1
    <3> QED BY <1>1, <1>3, <3>1
  <2>2. CASE x = s BY <1>1, <1>3, <2>2
  <2> QED BY <2>1, <2>2
<1>5. ASSUME NEW i \in 1..(n + 1), NEW j \in 1..(n + 1), i < j
      PROVE  f[t[i]] < f[t[j]]
  <2>1. i \in 1..n /\ t[i] = q[i] /\ q[i] \in V
    BY <1>1, <1>3, <1>5
  <2>2. CASE j = n + 1 BY <1>3, <2>1, <2>2
  <2>3. CASE j # n + 1 BY <1>1, <1>3, <1>5, <2>1, <2>3
  <2> QED BY <2>2, <2>3
<1>6. Sorted(f, V \cup {s}, t)
  BY <1>3, <1>4, <1>5 DEF Sorted
<1> QED BY <1>6 DEF t

\* t is the list q of n elements without its element k
Drops(q, n, k, t) ==
  /\ Len(t) = n - 1
  /\ \A i \in 1..(n - 1) : t[i] = IF i < k THEN q[i] ELSE q[i + 1]

\* t is the list q of n elements with s put before its element k
Inserts(q, n, k, s, t) ==
  /\ Len(t) = n + 1 /\ t[k] = s
  /\ \A i \in 1..(n + 1) : /\ i < k => t[i] = q[i]
                           /\ i > k => t[i] = q[i - 1]

LEMMA TakenOut ==
  ASSUME NEW S, NEW q \in Seq(S), NEW n \in Nat, Len(q) = n, NEW k \in 1..n
  PROVE  /\ Sequence!RemoveAt(q, k) \in Seq(S)
         /\ Drops(q, n, k, Sequence!RemoveAt(q, k))
<1> DEFINE t == Sequence!RemoveAt(q, k)
           a == SubSeq(q, 1, k - 1)
           b == SubSeq(q, k + 1, n)
<1>1. /\ a \in Seq(S) /\ Len(a) = k - 1 /\ \A i \in 1..(k - 1) : a[i] = q[i]
  <2>1. \A i \in 1..(k - 1) : q[i] \in S
    OBVIOUS
  <2> QED BY <2>1, SubSeqProperties
<1>2. /\ b \in Seq(S) /\ Len(b) = n - k
      /\ \A i \in 1..(n - k) : b[i] = q[k + i]
  <2>1. \A i \in (k + 1)..n : q[i] \in S
    OBVIOUS
  <2>2. /\ b \in Seq(S) /\ Len(b) = IF k + 1 <= n THEN n - (k + 1) + 1 ELSE 0
        /\ \A i \in 1..(n - (k + 1) + 1) : b[i] = q[k + 1 + i - 1]
    BY <2>1, SubSeqProperties
  <2> HIDE DEF b
  <2>3. \A i \in 1..(n - k) : b[i] = q[k + i]
    <3> TAKE i \in 1..(n - k)
    <3>1. i \in 1..(n - (k + 1) + 1) /\ k + 1 + i - 1 = k + i
      OBVIOUS
    <3> QED BY <2>2, <3>1
  <2> QED BY <2>2, <2>3
<1> HIDE DEF a, b
<1>3. /\ a \o b \in Seq(S) /\ Len(a \o b) = n - 1
      /\ \A i \in 1..(n - 1) :
           (a \o b)[i] = IF i <= k - 1 THEN a[i] ELSE b[i - (k - 1)]
  <2>1. /\ a \o b \in Seq(S) /\ Len(a \o b) = Len(a) + Len(b)
        /\ \A i \in 1..(Len(a) + Len(b)) :
             (a \o b)[i] = IF i <= Len(a) THEN a[i] ELSE b[i - Len(a)]
    BY <1>1, <1>2, ConcatProperties
  <2>2. Len(a) + Len(b) = n - 1 /\ Len(a) = k - 1
    BY <1>1, <1>2
  <2> QED BY <2>1, <2>2
<1>4. t = a \o b
  BY DEF a, b, Sequence!RemoveAt
<1> HIDE DEF t
<1>5. ASSUME NEW i \in 1..(n - 1) PROVE t[i] = IF i < k THEN q[i] ELSE q[i + 1]
  <2>1. CASE i < k
    <3>1. i <= k - 1 /\ i \in 1..(k - 1)
      BY <2>1
    <3> QED BY <1>1, <1>3, <1>4, <2>1, <3>1
  <2>2. CASE ~(i < k)
    <3>1. ~(i <= k - 1) /\ i - (k - 1) \in 1..(n - k) /\ k + (i - (k - 1)) = i + 1
      BY <2>2
    <3>2. b[i - (k - 1)] = q[k + (i - (k - 1))]
      BY <1>2, <3>1
    <3> QED BY <1>3, <1>4, <2>2, <3>1, <3>2
  <2> QED BY <2>1, <2>2
<1>6. Drops(q, n, k, t)
  BY <1>3, <1>4, <1>5 DEF Drops
<1> QED BY <1>3, <1>4, <1>6 DEF t

LEMMA PutIn ==
  ASSUME NEW S, NEW q \in Seq(S), NEW n \in Nat, Len(q) = n, NEW s \in S,
         NEW k \in 1..(n + 1)
  PROVE  /\ Sequence!InsertAt(q, k, s) \in Seq(S)
         /\ Inserts(q, n, k, s, Sequence!InsertAt(q, k, s))
<1> DEFINE t == Sequence!InsertAt(q, k, s)
           a == SubSeq(q, 1, k - 1)
           b == SubSeq(q, k, n)
           c == a \o <<s>>
<1>1. /\ a \in Seq(S) /\ Len(a) = k - 1 /\ \A i \in 1..(k - 1) : a[i] = q[i]
  <2>1. \A i \in 1..(k - 1) : q[i] \in S
    OBVIOUS
  <2> QED BY <2>1, SubSeqProperties
<1>2. /\ b \in Seq(S) /\ Len(b) = n + 1 - k
      /\ \A i \in 1..(n + 1 - k) : b[i] = q[k + i - 1]
  <2>1. \A i \in k..n : q[i] \in S
    OBVIOUS
  <2>2. /\ b \in Seq(S) /\ Len(b) = IF k <= n THEN n - k + 1 ELSE 0
        /\ \A i \in 1..(n - k + 1) : b[i] = q[k + i - 1]
    BY <2>1, SubSeqProperties
  <2> QED BY <2>2
<1> HIDE DEF a, b
<1>3. <<s>> \in Seq(S) /\ Len(<<s>>) = 1 /\ <<s>>[1] = s
  OBVIOUS
<1>4. /\ c \in Seq(S) /\ Len(c) = k
      /\ \A i \in 1..k : c[i] = IF i <= k - 1 THEN a[i] ELSE <<s>>[i - (k - 1)]
  BY <1>1, <1>3, ConcatProperties
<1>5. c[k] = s /\ \A i \in 1..(k - 1) : c[i] = q[i]
  <2>1. k \in 1..k /\ ~(k <= k - 1) /\ k - (k - 1) = 1
    OBVIOUS
  <2>2. c[k] = s
    BY <1>3, <1>4, <2>1
  <2>3. \A i \in 1..(k - 1) : i \in 1..k /\ i <= k - 1
    OBVIOUS
  <2> QED BY <1>1, <1>4, <2>2, <2>3
<1> HIDE DEF c
<1>6. /\ c \o b \in Seq(S) /\ Len(c \o b) = n + 1
      /\ \A i \in 1..(n + 1) :
           (c \o b)[i] = IF i <= k THEN c[i] ELSE b[i - k]
  <2>1. /\ c \o b \in Seq(S) /\ Len(c \o b) = Len(c) + Len(b)
        /\ \A i \in 1..(Len(c) + Len(b)) :
             (c \o b)[i] = IF i <= Len(c) THEN c[i] ELSE b[i - Len(c)]
    BY <1>2, <1>4, ConcatProperties
  <2>2. Len(c) + Len(b) = n + 1 /\ Len(c) = k
    BY <1>2, <1>4
  <2> QED BY <2>1, <2>2
<1>7. t = c \o b
  BY DEF a, b, c, Sequence!InsertAt
<1> HIDE DEF t
<1>8. t[k] = s
  BY <1>5, <1>6, <1>7
<1>9. ASSUME NEW i \in 1..(n + 1)
      PROVE  (i < k => t[i] = q[i]) /\ (i > k => t[i] = q[i - 1])
  <2>1. CASE i < k
    <3>1. i <= k /\ i \in 1..(k - 1) /\ ~(i > k)
      BY <2>1
    <3> QED BY <1>5, <1>6, <1>7, <3>1
  <2>2. CASE i > k
    <3>1. ~(i <= k) /\ i - k \in 1..(n + 1 - k) /\ k + (i - k) - 1 = i - 1
      BY <2>2
    <3>2. b[i - k] = q[k + (i - k) - 1]
      BY <1>2, <3>1
    <3> QED BY <1>6, <1>7, <2>2, <3>1, <3>2
  <2> QED BY <2>1, <2>2
<1>10. Inserts(q, n, k, s, t)
  BY <1>6, <1>7, <1>8, <1>9 DEF Inserts
<1> QED BY <1>6, <1>7, <1>10 DEF t

LEMMA RemoveSorted ==
  ASSUME NEW V, NEW f, \A x \in V : f[x] \in Nat, NEW q, Sorted(f, V, q),
         NEW n \in Nat, Len(q) = n, NEW k \in 1..n
  PROVE  Sorted(f, V \ {q[k]}, Sequence!RemoveAt(q, k))
<1> DEFINE W == V \ {q[k]}
           t == Sequence!RemoveAt(q, k)
<1>1. /\ q \in Seq(V)
      /\ \A i \in 1..n : q[i] \in V
      /\ \A x \in V : \E i \in 1..n : q[i] = x
      /\ \A i, j \in 1..n : i < j => f[q[i]] < f[q[j]]
  BY ONLY Sorted(f, V, q), n \in Nat, Len(q) = n DEF Sorted
<1>2. \A i, j \in 1..n : i # j => q[i] # q[j]
  BY <1>1
<1>3. /\ t \in Seq(V) /\ Len(t) = n - 1
      /\ \A i \in 1..(n - 1) : t[i] = IF i < k THEN q[i] ELSE q[i + 1]
  <2>1. q \in Seq(V)
    BY <1>1
  <2>2. t \in Seq(V) /\ Drops(q, n, k, t)
    BY ONLY <2>1, n \in Nat, Len(q) = n, k \in 1..n, TakenOut
  <2> QED BY ONLY <2>2 DEF Drops
<1> HIDE DEF t
<1>a. \A i \in 1..(n - 1) : /\ i \in 1..n /\ i + 1 \in 1..n
                            /\ i < k => i # k
                            /\ ~(i < k) => i + 1 # k
  OBVIOUS
<1>4. \A i \in 1..(n - 1) : t[i] \in W
  BY <1>1, <1>2, <1>3, <1>a
<1>5. t \in Seq(W)
  <2>1. t \in [1..Len(t) -> V] /\ Len(t) \in Nat
    BY ONLY <1>3
  <2>2. \A i \in 1..Len(t) : t[i] \in W
    BY ONLY <1>3, <1>4
  <2> QED BY ONLY <2>1, <2>2
<1>6. ASSUME NEW x \in W PROVE \E i \in 1..(n - 1) : t[i] = x
  <2>1. PICK i \in 1..n : q[i] = x /\ i # k
    BY <1>1, <1>6
  <2>2. CASE i < k
    <3>1. i \in 1..(n - 1)
      BY <2>1, <2>2
    <3>2. t[i] = x
      BY <1>3, <2>1, <2>2, <3>1
    <3> QED BY <3>1, <3>2
  <2>3. CASE i > k
    <3>1. i - 1 \in 1..(n - 1) /\ ~(i - 1 < k) /\ i - 1 + 1 = i
      BY <2>1, <2>3
    <3>2. t[i - 1] = x
      BY <1>3, <2>1, <3>1
    <3> QED BY <3>1, <3>2
  <2>4. i < k \/ i > k
    BY <2>1
  <2> QED BY <2>2, <2>3, <2>4
<1>7. ASSUME NEW i \in 1..(n - 1), NEW j \in 1..(n - 1), i < j
      PROVE  f[t[i]] < f[t[j]]
  <2> DEFINE up(m) == IF m < k THEN m ELSE m + 1
  <2>1. up(i) \in 1..n /\ up(j) \in 1..n /\ up(i) < up(j)
    BY <1>1, <1>7
  <2>2. t[i] = q[up(i)] /\ t[j] = q[up(j)]
    BY <1>3
  <2> QED BY <1>1, <2>1, <2>2
<1>8. Sorted(f, W, t)
  BY <1>3, <1>5, <1>6, <1>7 DEF Sorted
<1> QED BY <1>8 DEF t

LEMMA InsertSorted ==
  ASSUME NEW V, NEW f, \A x \in V : f[x] \in Nat, NEW q, Sorted(f, V, q),
         NEW n \in Nat, Len(q) = n,
         NEW s, f[s] \in Nat, NEW k \in 1..(n + 1),
         \A i \in 1..n : IF i < k THEN f[q[i]] < f[s] ELSE f[s] < f[q[i]]
  PROVE  Sorted(f, V \cup {s}, Sequence!InsertAt(q, k, s))
<1> DEFINE W == V \cup {s}
           t == Sequence!InsertAt(q, k, s)
<1>1. /\ q \in Seq(V)
      /\ \A i \in 1..n : q[i] \in V
      /\ \A x \in V : \E i \in 1..n : q[i] = x
      /\ \A i, j \in 1..n : i < j => f[q[i]] < f[q[j]]
  BY ONLY Sorted(f, V, q), n \in Nat, Len(q) = n DEF Sorted
<1>2. q \in Seq(W)
  BY <1>1
<1>3. /\ t \in Seq(W) /\ Len(t) = n + 1 /\ t[k] = s
      /\ \A i \in 1..(n + 1) : /\ i < k => t[i] = q[i]
                               /\ i > k => t[i] = q[i - 1]
  <2>1. s \in W
    OBVIOUS
  <2>2. t \in Seq(W) /\ Inserts(q, n, k, s, t)
    BY ONLY <1>2, <2>1, n \in Nat, Len(q) = n, k \in 1..(n + 1), PutIn
  <2> QED BY ONLY <2>2 DEF Inserts
<1> HIDE DEF t
<1>4. ASSUME NEW x \in W PROVE \E i \in 1..(n + 1) : t[i] = x
  <2>1. CASE x = s BY <1>1, <1>3, <2>1
  <2>2. CASE x # s
    <3>1. PICK i \in 1..n : q[i] = x
      BY <1>1, <1>4, <2>2
    <3>2. CASE i < k
      BY <1>1, <1>3, <3>1, <3>2
    <3>3. CASE ~(i < k)
      <4>1. PICK m \in 1..(n + 1) : m > k /\ m - 1 = i
        BY <3>1, <3>3, i + 1 \in 1..(n + 1)
      <4>2. t[m] = q[m - 1]
        BY <1>3, <4>1
      <4> QED BY <3>1, <4>1, <4>2
    <3> QED BY <3>2, <3>3
  <2> QED BY <2>1, <2>2
<1>5. ASSUME NEW i \in 1..(n + 1), NEW j \in 1..(n + 1), i < j
      PROVE  f[t[i]] < f[t[j]]
  <2>1. CASE j < k
    BY <1>1, <1>3, <1>5, <2>1
  <2>2. CASE j = k
    BY <1>1, <1>3, <1>5, <2>2
  <2>3. CASE j > k
    <3>1. j - 1 \in 1..n /\ t[j] = q[j - 1] /\ ~(j - 1 < k)
      BY <1>1, <1>3, <1>5, <2>3
    <3>2. CASE i > k
      <4>1. i - 1 \in 1..n /\ i - 1 < j - 1 /\ t[i] = q[i - 1]
        BY <1>3, <1>5, <2>3, <3>2
      <4> QED BY <1>1, <3>1, <4>1
    <3>3. CASE i = k
      <4>1. t[i] = s /\ f[s] < f[q[j - 1]]
        BY <1>1, <1>3, <3>1, <3>3
      <4> QED BY <3>1, <4>1
    <3>4. CASE i < k
      <4>1. i \in 1..n /\ i < j - 1 /\ t[i] = q[i]
        BY <1>3, <1>5, <2>3, <3>4
      <4> QED BY <1>1, <3>1, <4>1
    <3> QED BY <1>1, <1>5, <3>2, <3>3, <3>4
  <2> QED BY <1>1, <1>5, <2>1, <2>2, <2>3
<1>6. Sorted(f, W, t)
  BY <1>3, <1>4, <1>5 DEF Sorted
<1> QED BY <1>6 DEF t

\* the sections shown after a step, as far as another sorted list shows them
LEMMA ShownNext == OrderInv' => Sorted(IndexMap, Visible, ShownOrder)'
BY ShownSorted, PTL

LEMMA ShownIs ==
  ASSUME OrderInv', NEW q, Sorted(IndexMap', Visible', q)
  PROVE  ShownOrder' = q
<1>1. Sorted(IndexMap', Visible', ShownOrder')
  BY ShownNext
<1>2. \A s \in Visible' : IndexMap'[s] \in Nat
  BY DEF IndexMap, OrderInv, LayersInv, TypeOK, Index
<1> QED BY <1>1, <1>2, SortedSame

LEMMA ShownFacts ==
  ASSUME OrderInv
  PROVE  /\ Visible \in SUBSET Sids /\ IsFiniteSet(Visible)
         /\ \A s \in Sids : IndexMap[s] = Index(s) /\ IndexMap[s] \in Nat
         /\ Sorted(IndexMap, Visible, ShownOrder)
         /\ Len(ShownOrder) \in Nat
         /\ \A x \in Sids :
              x \in Visible <=> \E i \in 1..Len(ShownOrder) : ShownOrder[i] = x
         /\ Sequence!ToSet(ShownOrder) = Visible
<1>1. Visible \in SUBSET Sids /\ IsFiniteSet(Visible)
  BY IdsAssumption, FS_Subset DEF OrderInv, LayersInv, TypeOK
<1>2. \A s \in Sids : IndexMap[s] = Index(s) /\ IndexMap[s] \in Nat
  BY IndexType DEF IndexMap, OrderInv, LayersInv
<1>3. Sorted(IndexMap, Visible, ShownOrder)
  BY ShownSorted
<1>4. /\ ShownOrder \in Seq(Visible)
      /\ \A x \in Visible : \E i \in 1..Len(ShownOrder) : ShownOrder[i] = x
  BY <1>3 DEF Sorted
<1> HIDE DEF Visible
<1>5. /\ Len(ShownOrder) \in Nat /\ DOMAIN ShownOrder = 1..Len(ShownOrder)
      /\ \A i \in 1..Len(ShownOrder) : ShownOrder[i] \in Visible
  BY <1>4
<1>6. Sequence!ToSet(ShownOrder) = Visible
  BY <1>4, <1>5 DEF Sequence!ToSet
<1> QED BY <1>1, <1>2, <1>3, <1>4, <1>5, <1>6

LEMMA WithoutSorted ==
  ASSUME OrderInv, NEW s \in Visible
  PROVE  Sorted(IndexMap, Visible \ {s}, Sequence!Without(s))
<1> DEFINE n == Len(ShownOrder)
           k == CHOOSE i \in DOMAIN ShownOrder : ShownOrder[i] = s
<1>1. /\ \A x \in Visible : IndexMap[x] \in Nat
      /\ Sorted(IndexMap, Visible, ShownOrder) /\ n \in Nat
      /\ \E i \in 1..n : ShownOrder[i] = s
  BY ShownFacts
<1>2. DOMAIN ShownOrder = 1..n
  BY <1>1 DEF Sorted
<1>3. k \in 1..n /\ ShownOrder[k] = s
  BY <1>1, <1>2
<1>4. Sequence!Without(s) = Sequence!RemoveAt(ShownOrder, k)
  BY DEF Sequence!Without
<1> HIDE DEF k, Visible
<1> QED BY <1>1, <1>3, <1>4, RemoveSorted

\* a section taken out: the place of another says how many lie below it
LEMMA RestRank ==
  ASSUME OrderInv, NEW s1 \in Visible, NEW rest,
         Sorted(IndexMap, Visible \ {s1}, rest)
  PROVE  /\ Len(rest) \in Nat /\ Len(rest) = Cardinality(Visible \ {s1})
         /\ \A i \in 1..Len(rest) : /\ rest[i] \in Visible \ {s1}
                                    /\ Rank(Visible \ {s1}, rest[i]) = i - 1
<1> DEFINE V == Visible \ {s1}
<1>1. V \in SUBSET Sids /\ \A x \in V : IndexMap[x] = Index(x) /\ IndexMap[x] \in Nat
  BY ShownFacts
<1>2. ASSUME NEW x \in V PROVE Rank(V, x) = Below(IndexMap, V, x)
  <2>1. {y \in V : Index(y) < Index(x)} = {y \in V : IndexMap[y] < IndexMap[x]}
    BY <1>1
  <2> QED BY <2>1 DEF Rank, Below
<1> HIDE DEF V
<1>3. Sorted(IndexMap, V, rest)
  BY DEF V
<1>4. /\ Len(rest) \in Nat /\ Len(rest) = Cardinality(V)
      /\ \A i \in 1..Len(rest) : Below(IndexMap, V, rest[i]) = i - 1
  <2>1. \A x \in V : IndexMap[x] \in Nat
    BY <1>1
  <2> QED BY ONLY <1>3, <2>1, SortedRank
<1>5. \A i \in 1..Len(rest) : rest[i] \in V
  BY <1>3 DEF Sorted
<1>6. \A i \in 1..Len(rest) : rest[i] \in V /\ Rank(V, rest[i]) = i - 1
  BY <1>2, <1>4, <1>5
<1> QED BY <1>4, <1>6 DEF V

LEMMA StaySequence ==
  ASSUME OrderInv, OrderInv', Visible' = Visible,
         \A s \in Visible : Index(s)' = Index(s)
  PROVE  ShownOrder' = ShownOrder
<1>1. /\ Sorted(IndexMap, Visible, ShownOrder) /\ Visible \in SUBSET Sids
      /\ \A s \in Sids : IndexMap[s] = Index(s)
  BY ShownFacts
<1>2. \A x \in Visible : IndexMap'[x] = IndexMap[x]
  BY <1>1 DEF IndexMap
<1> HIDE DEF Visible
<1>3. Sorted(IndexMap', Visible, ShownOrder)
  BY <1>1, <1>2, SortedAgain
<1> QED BY <1>3, ShownIs

LEMMA AddSequence ==
  ASSUME OrderInv, OrderInv', NEW s \in Sids, Add(s)
  PROVE  Sequence!Append1(s)
<1>1. /\ Sorted(IndexMap, Visible, ShownOrder) /\ Visible \in SUBSET Sids
      /\ \A t \in Sids : IndexMap[t] = Index(t) /\ IndexMap[t] \in Nat
      /\ Sequence!ToSet(ShownOrder) = Visible
  BY ShownFacts
<1>2. s \notin Visible /\ Visible' = Visible \cup {s}
  BY DEF Add
<1>3. /\ \A t \in Visible : Index(t)' = Index(t) /\ Index(t) < NewBase + newidx
      /\ Index(s)' = NewBase + newidx
  BY BaseAssumption
     DEF Add, Index, IndexInv, OrderInv, LayersInv, TypeOK
<1>4. \A t \in Sids : IndexMap'[t] = Index(t)' /\ IndexMap'[t] \in Nat
  BY DEF IndexMap, OrderInv, LayersInv, TypeOK, Index
<1> HIDE DEF Visible
<1>5. \A t \in Visible : IndexMap'[t] = IndexMap[t] /\ IndexMap'[t] < IndexMap'[s]
  BY <1>1, <1>3, <1>4
<1>6. Sorted(IndexMap', Visible, ShownOrder)
  BY <1>1, <1>5, SortedAgain
<1>7. Sorted(IndexMap', Visible \cup {s}, Append(ShownOrder, s))
  BY <1>1, <1>4, <1>5, <1>6, AppendSorted
<1>8. ShownOrder' = Append(ShownOrder, s)
  BY <1>2, <1>7, ShownIs
<1> QED BY <1>1, <1>2, <1>8 DEF Sequence!Append1

LEMMA RemoveSequence ==
  ASSUME OrderInv, OrderInv', NEW s \in Sids, s \in Visible,
         Visible' = Visible \ {s},
         \A t \in Visible \ {s} : Index(t)' = Index(t)
  PROVE  Sequence!Delete(s)
<1>1. /\ Visible \in SUBSET Sids
      /\ \A t \in Sids : IndexMap[t] = Index(t)
      /\ Sequence!ToSet(ShownOrder) = Visible
  BY ShownFacts
<1>2. Sorted(IndexMap, Visible \ {s}, Sequence!Without(s))
  BY WithoutSorted
<1>3. \A t \in Visible \ {s} : IndexMap'[t] = IndexMap[t]
  BY <1>1 DEF IndexMap
<1> HIDE DEF Visible
<1>4. Sorted(IndexMap', Visible \ {s}, Sequence!Without(s))
  BY <1>2, <1>3, SortedAgain
<1>5. ShownOrder' = Sequence!Without(s)
  BY <1>4, ShownIs
<1> QED BY <1>1, <1>5 DEF Sequence!Delete

\* what move() leaves of the order: the others stay, s1 is at place p
Moved(s1, p, rest) ==
  /\ s1 \in Visible /\ Visible' = Visible
  /\ IndexMap'[s1] = p
  /\ \A t \in Visible : IndexMap'[t] \in Nat
  /\ Sorted(IndexMap', Visible \ {s1}, rest)
  /\ Len(rest) \in Nat /\ Len(rest) = Cardinality(Visible \ {s1})
  /\ \A i \in 1..Len(rest) :
       IndexMap'[rest[i]] = IF i - 1 < p THEN i - 1 ELSE i

LEMMA MoveFacts ==
  ASSUME OrderInv, OrderInv', NEW s1 \in Sids, NEW p \in Nat, MoveTo(s1, p),
         p <= Cardinality(Visible \ {s1})
  PROVE  Moved(s1, p, Sequence!Without(s1))
<1> DEFINE rest == Sequence!Without(s1)
           V == Visible \ {s1}
<1>1. s1 \in Visible /\ Visible' = Visible /\ created' = created
      /\ Existing' = Existing
  BY DEF MoveTo
<1>2. /\ Visible \in SUBSET Sids
      /\ \A t \in Sids : IndexMap[t] = Index(t)
  BY ShownFacts
<1>3. \A t \in Visible : Index(t)' = PlaceAfterMove(s1, p, t)
  BY <1>1 DEF MoveTo, Index, OrderInv, LayersInv, TypeOK
<1>4. \A t \in Visible : IndexMap'[t] = PlaceAfterMove(s1, p, t)
                         /\ PlaceAfterMove(s1, p, t) \in Nat
  BY <1>2, <1>3, PlaceType DEF IndexMap, OrderInv, LayersInv
<1>5. IndexMap'[s1] = p
  BY <1>1, <1>4 DEF PlaceAfterMove
<1>6. Sorted(IndexMap, V, rest)
  BY <1>1, WithoutSorted
<1>7. \A x, y \in V : IndexMap[x] < IndexMap[y] => IndexMap'[x] < IndexMap'[y]
  BY <1>2, <1>4, PlaceOrder DEF OrderInv, LayersInv
<1>8. /\ Len(rest) \in Nat /\ Len(rest) = Cardinality(V)
      /\ \A i \in 1..Len(rest) : rest[i] \in V /\ Rank(V, rest[i]) = i - 1
  BY <1>1, <1>6, RestRank
<1>9. Sorted(IndexMap', V, rest)
  BY <1>6, <1>7, SortedAgain
<1> HIDE DEF rest
<1>10. ASSUME NEW i \in 1..Len(rest)
       PROVE  IndexMap'[rest[i]] = IF i - 1 < p THEN i - 1 ELSE i
  <2>1. rest[i] # s1 /\ rest[i] \in Visible /\ Rank(V, rest[i]) = i - 1
    BY <1>8
  <2>2. IndexMap'[rest[i]] = IF Rank(V, rest[i]) < p THEN Rank(V, rest[i])
                                                     ELSE Rank(V, rest[i]) + 1
    BY <1>4, <2>1 DEF PlaceAfterMove
  <2> QED BY <2>1, <2>2
<1> HIDE DEF V
<1>11. \A t \in Visible : IndexMap'[t] \in Nat
  BY <1>4
<1>12. Moved(s1, p, rest)
  BY <1>1, <1>5, <1>8, <1>9, <1>10, <1>11 DEF Moved, V
<1> QED BY <1>12 DEF rest

LEMMA LastSequence ==
  ASSUME OrderInv, OrderInv', NEW s1 \in Sids, MoveLast(s1)
  PROVE  Sequence!MoveToEnd(s1)
<1> DEFINE rest == Sequence!Without(s1)
           V == Visible \ {s1}
           n == Cardinality(V)
<1>1. V \in SUBSET Sids /\ n \in Nat
  BY IdsAssumption, FS_Subset, FS_CardinalityType, ShownFacts
<1>2. MoveTo(s1, n)
  BY DEF MoveLast
<1>3. /\ s1 \in Visible /\ Visible' = Visible
      /\ IndexMap'[s1] = n
      /\ \A t \in Visible : IndexMap'[t] \in Nat
      /\ Sorted(IndexMap', V, rest) /\ Len(rest) = n
      /\ \A i \in 1..n : IndexMap'[rest[i]] = IF i - 1 < n THEN i - 1 ELSE i
  <2>1. n <= n
    BY <1>1
  <2> HIDE DEF n
  <2>2. n = Cardinality(Visible \ {s1})
    BY DEF n
  <2>3. Moved(s1, n, rest)
    BY <1>1, <1>2, <2>1, <2>2, MoveFacts
  <2> QED BY <2>2, <2>3 DEF Moved
<1>4. Sequence!ToSet(ShownOrder) = Visible
  BY ShownFacts
<1> HIDE DEF Visible, n, rest
<1>5. ASSUME NEW x \in V PROVE IndexMap'[x] < IndexMap'[s1]
  <2>1. PICK i \in 1..n : rest[i] = x
    BY <1>3 DEF Sorted
  <2>2. IndexMap'[x] = i - 1
    BY <1>1, <1>3, <2>1
  <2> QED BY <1>1, <1>3, <2>2
<1>6. \A x \in V : IndexMap'[x] \in Nat
  BY <1>3
<1> HIDE DEF V
<1>7. Sorted(IndexMap', V \cup {s1}, Append(rest, s1))
  BY <1>1, <1>3, <1>5, <1>6, AppendSorted
<1>8. V \cup {s1} = Visible'
  BY <1>3 DEF V
<1>9. ShownOrder' = Append(rest, s1)
  BY <1>7, <1>8, ShownIs
<1> QED BY <1>3, <1>4, <1>9 DEF Sequence!MoveToEnd, rest

LEMMA BesideSequence ==
  ASSUME OrderInv, OrderInv', NEW s1 \in Sids, NEW s2 \in Sids,
         NEW after \in BOOLEAN, MoveBeside(s1, s2, after)
  PROVE  Sequence!MoveNextTo(s1, s2, after)
<1> DEFINE rest == Sequence!Without(s1)
           V == Visible \ {s1}
           n == Cardinality(V)
           p == Rank(V, s2) + (IF after THEN 1 ELSE 0)
           i == CHOOSE k \in DOMAIN rest : rest[k] = s2
           at == IF after THEN i + 1 ELSE i
<1>1. V \in SUBSET Sids /\ n \in Nat
  BY IdsAssumption, FS_Subset, FS_CardinalityType, ShownFacts
<1>2. MoveTo(s1, p) /\ s2 \in V
  BY DEF MoveBeside
<1>3. Rank(V, s2) \in Nat /\ Rank(V, s2) < n
  BY ONLY <1>1, <1>2, RankType, RankBound, OrderInv DEF OrderInv, LayersInv
<1>4. p \in Nat /\ p <= n
  BY <1>1, <1>3
<1> HIDE DEF p
<1>5. /\ s1 \in Visible /\ Visible' = Visible
      /\ IndexMap'[s1] = p
      /\ \A t \in Visible : IndexMap'[t] \in Nat
      /\ Sorted(IndexMap', V, rest) /\ Len(rest) = n
      /\ \A k \in 1..n : IndexMap'[rest[k]] = IF k - 1 < p THEN k - 1 ELSE k
  <2>1. Moved(s1, p, rest)
    BY <1>2, <1>4, MoveFacts
  <2> QED BY <2>1 DEF Moved
<1>6. Sequence!ToSet(ShownOrder) = Visible
  BY ShownFacts
<1>7. Sorted(IndexMap, V, rest)
  BY <1>5, WithoutSorted
<1>8. \A k \in 1..n : Rank(V, rest[k]) = k - 1
  <2>1. s1 \in Visible
    BY <1>5
  <2>2. \A k \in 1..Len(rest) : rest[k] \in V /\ Rank(V, rest[k]) = k - 1
    BY ONLY OrderInv, <1>7, <2>1, RestRank
  <2> QED BY <1>5, <2>2
<1> HIDE DEF Visible, n, rest, V
<1>9. /\ DOMAIN rest = 1..n
      /\ \E k \in 1..n : rest[k] = s2
  <2>1. /\ rest \in Seq(V)
        /\ \A x \in V : \E k \in 1..Len(rest) : rest[k] = x
    BY <1>7 DEF Sorted
  <2>2. DOMAIN rest = 1..Len(rest)
    BY ONLY <2>1
  <2> QED BY <1>2, <1>5, <2>1, <2>2
<1>10. i \in 1..n /\ rest[i] = s2
  BY <1>9
<1> HIDE DEF i
<1>11. Rank(V, s2) = i - 1
  BY <1>8, <1>10
<1>12. at = p + 1 /\ at \in 1..(n + 1)
  BY <1>1, <1>4, <1>10, <1>11 DEF p
<1> HIDE DEF at
<1>13. ASSUME NEW k \in 1..n
       PROVE  IF k < at THEN IndexMap'[rest[k]] < IndexMap'[s1]
                        ELSE IndexMap'[s1] < IndexMap'[rest[k]]
  <2>1. k < at <=> k - 1 < p
    BY <1>1, <1>4, <1>12
  <2> QED BY <1>1, <1>4, <1>5, <1>12, <2>1
<1>14. \A x \in V : IndexMap'[x] \in Nat
  BY <1>5 DEF V
<1>16. Sorted(IndexMap', V \cup {s1}, Sequence!InsertAt(rest, at, s1))
  BY <1>1, <1>4, <1>5, <1>12, <1>13, <1>14, InsertSorted
<1>17. V \cup {s1} = Visible'
  BY <1>5 DEF V
<1>18. ShownOrder' = Sequence!InsertAt(rest, at, s1)
  BY <1>16, <1>17, ShownIs
<1>19. {s1, s2} \subseteq Sequence!ToSet(ShownOrder) /\ s1 # s2
  BY <1>2, <1>5, <1>6 DEF V
<1> QED BY <1>18, <1>19 DEF Sequence!MoveNextTo, rest, at, i

LEMMA NextSequence ==
  OrderInv /\ OrderInv' /\ [Next]_vars => [Sequence!Next]_ShownOrder
<1> SUFFICES ASSUME OrderInv, OrderInv', [Next]_vars
             PROVE  Sequence!Next \/ ShownOrder' = ShownOrder
  OBVIOUS
<1> USE DEF layers, places
<1>1. ASSUME NEW s \in Sids, Add(s) PROVE Sequence!Next
  BY <1>1, AddSequence DEF Sequence!Next
<1>2. ASSUME NEW s \in Sids, RemoveCreated(s) PROVE Sequence!Next
  <2>1. /\ s \in Visible /\ Visible' = Visible \ {s}
        /\ \A t \in Visible \ {s} : Index(t)' = Index(t)
    BY <1>2 DEF RemoveCreated, Index, OrderInv, LayersInv, LayersConsistent,
       TypeOK
  <2> QED BY <2>1, RemoveSequence DEF Sequence!Next
<1>3. ASSUME NEW s \in Sids, RemoveExisting(s)
      PROVE  Sequence!Next \/ ShownOrder' = ShownOrder
  <2>1. /\ Visible' = Visible \ {s}
        /\ \A t \in Visible : Index(t)' = Index(t)
    BY <1>3 DEF RemoveExisting, Index
  <2>2. CASE s \in Visible
    BY <2>1, <2>2, RemoveSequence DEF Sequence!Next
  <2>3. CASE s \notin Visible
    BY <2>1, <2>3, StaySequence
  <2> QED BY <2>2, <2>3
<1>4. ASSUME NEW s \in Sids,
             \/ ReadSection(s)
             \/ \E o \in Opts, x \in Vals \cup {None} : Set(s, o, x)
      PROVE  ShownOrder' = ShownOrder
  <2>1. Visible' = Visible /\ \A t \in Visible : Index(t)' = Index(t)
    BY <1>4 DEF ReadSection, Set, SetCreated, SetExisting, UnsetExisting, Index
  <2> QED BY <2>1, StaySequence
<1>5. ASSUME NEW s \in Sids, MoveLast(s) PROVE Sequence!Next
  BY <1>5, LastSequence DEF Sequence!Next
<1>6. ASSUME NEW s \in Sids, NEW t \in Sids, NEW after \in BOOLEAN,
             MoveBeside(s, t, after)
      PROVE  Sequence!Next
  BY <1>6, BesideSequence DEF Sequence!Next
<1>7. CASE UNCHANGED vars
  <2>1. Visible' = Visible /\ \A t \in Visible : Index(t)' = Index(t)
    BY <1>7 DEF vars, Index
  <2> QED BY <2>1, StaySequence
<1> QED BY <1>1, <1>2, <1>3, <1>4, <1>5, <1>6, <1>7 DEF Next, Edit, Remove

\* The sections as sections() returns them implement a sequence that add()
\* appends to, remove() takes out of, and in which move() puts one section
\* where its caller asked and leaves the others in order (uci.js move).
THEOREM ImplementsSequence == Spec => SequenceSpec
<1>1. OrderInv /\ OrderInv' /\ [Next]_vars => [Sequence!Next]_ShownOrder
  BY NextSequence
<1> QED BY <1>1, InitSequence, OrderInvariant, PTL
        DEF Spec, SequenceSpec, Sequence!Spec
=============================================================================
