--------------------------- MODULE UciSaveProofs ----------------------------
(***************************************************************************)
(* Proofs about UciSave: types for any number of callers; for one caller,  *)
(* that a save brings everything shown to the server, that it brings       *)
(* nothing else unless a save failed before it, and that afterwards the    *)
(* sections shown are those of the server.                                 *)
(***************************************************************************)
EXTENDS UciSave, FiniteSetTheorems, InductionLemmas

-----------------------------------------------------------------------------
(* Sequences of sections *)

LEMMA ToSetOf ==
  ASSUME NEW T, NEW q \in Seq(T)
  PROVE  /\ Len(q) \in Nat /\ DOMAIN q = 1..Len(q)
         /\ ToSet(q) = {q[i] : i \in 1..Len(q)} /\ ToSet(q) \subseteq T
         /\ \A i \in 1..Len(q) : q[i] \in T /\ q[i] \in ToSet(q)
         /\ \A x \in ToSet(q) : \E i \in 1..Len(q) : x = q[i]
         /\ Ids(q) = {e.id : e \in ToSet(q)}
<1>1. Len(q) \in Nat /\ DOMAIN q = 1..Len(q) /\ \A i \in 1..Len(q) : q[i] \in T
  OBVIOUS
<1> QED BY <1>1 DEF ToSet, Ids

LEMMA OnlyKeeps ==
  ASSUME NEW T, NEW list \in Seq(T), NEW S
  PROVE  /\ Only(list, S) \in Seq(T)
         /\ ToSet(Only(list, S)) = ToSet(list) \cap S
         /\ (\A i, j \in DOMAIN list : list[i] = list[j] /\ list[i] \in S => i = j)
              => Once(Only(list, S))
<1>1. Only(list, S) = Selection(list, S)
  BY DEF Only, Selection
<1>2. \A q : ToSet(q) = Elements(q)
  BY DEF ToSet, Elements
<1> QED BY <1>1, <1>2, SelectionKeeps

LEMMA Removing ==
  ASSUME NEW T, NEW q \in Seq(T), NEW i \in DOMAIN q
  PROVE  /\ RemoveAt(q, i) \in Seq(T)
         /\ Len(RemoveAt(q, i)) = Len(q) - 1
         /\ \A k \in 1..(Len(q) - 1) :
              RemoveAt(q, i)[k] = IF k < i THEN q[k] ELSE q[k + 1]
<1> DEFINE a == SubSeq(q, 1, i - 1)
           b == SubSeq(q, i + 1, Len(q))
<1>1. a \in Seq(T) /\ Len(a) = i - 1 /\ \A k \in 1..(i - 1) : a[k] = q[k]
  OBVIOUS
<1>2. b \in Seq(T) /\ Len(b) = Len(q) - i /\ \A k \in 1..(Len(q) - i) : b[k] = q[i + k]
  OBVIOUS
<1> HIDE DEF a, b
<1>3. RemoveAt(q, i) = a \o b
  BY DEF RemoveAt, a, b
<1>4. a \o b \in Seq(T) /\ Len(a \o b) = Len(q) - 1
  BY <1>1, <1>2
<1>5. ASSUME NEW k \in 1..(Len(q) - 1)
      PROVE  (a \o b)[k] = IF k < i THEN q[k] ELSE q[k + 1]
  <2>1. CASE k < i
    BY <1>1, <1>2, <2>1
  <2>2. CASE ~(k < i)
    <3>1. k - (i - 1) \in 1..(Len(q) - i) /\ i + (k - (i - 1)) = k + 1
      BY <2>2
    <3> QED BY <1>1, <1>2, <2>2, <3>1
  <2> QED BY <2>1, <2>2
<1> QED BY <1>3, <1>4, <1>5

LEMMA Inserting ==
  ASSUME NEW T, NEW q \in Seq(T), NEW i \in 1..(Len(q) + 1), NEW x \in T
  PROVE  /\ InsertAt(q, i, x) \in Seq(T)
         /\ Len(InsertAt(q, i, x)) = Len(q) + 1
         /\ \A k \in 1..Len(q) : k < i => InsertAt(q, i, x)[k] = q[k]
         /\ InsertAt(q, i, x)[i] = x
         /\ \A k \in 1..Len(q) : k >= i => InsertAt(q, i, x)[k + 1] = q[k]
<1> DEFINE a == SubSeq(q, 1, i - 1)
           b == SubSeq(q, i, Len(q))
           c == a \o <<x>>
<1>1. a \in Seq(T) /\ Len(a) = i - 1 /\ \A k \in 1..(i - 1) : a[k] = q[k]
  OBVIOUS
<1>2. b \in Seq(T) /\ Len(b) = Len(q) - i + 1 /\ \A k \in 1..(Len(q) - i + 1) : b[k] = q[i + k - 1]
  OBVIOUS
<1> HIDE DEF a, b
<1>3. c \in Seq(T) /\ Len(c) = i /\ \A k \in 1..i : c[k] = IF k < i THEN q[k] ELSE x
  BY <1>1
<1> HIDE DEF c
<1>4. InsertAt(q, i, x) = c \o b
  BY DEF InsertAt, a, b, c
<1>5. c \o b \in Seq(T) /\ Len(c \o b) = Len(q) + 1
  <2>1. c \in Seq(T) /\ b \in Seq(T) /\ Len(c) = i /\ Len(b) = Len(q) - i + 1
    BY <1>2, <1>3
  <2>2. c \o b \in Seq(T) /\ Len(c \o b) = Len(c) + Len(b)
    BY <2>1
  <2>3. Len(q) \in Nat
    OBVIOUS
  <2>4. i + (Len(q) - i + 1) = Len(q) + 1
    BY <2>3
  <2> QED BY <2>1, <2>2, <2>4
<1>6. ASSUME NEW k \in 1..(Len(q) + 1)
      PROVE  (c \o b)[k] = IF k < i THEN q[k] ELSE IF k = i THEN x ELSE q[k - 1]
  <2>1. CASE k <= i
    BY <1>2, <1>3, <2>1
  <2>2. CASE ~(k <= i)
    <3>1. k - i \in 1..(Len(q) - i + 1) /\ i + (k - i) - 1 = k - 1
      BY <2>2
    <3> QED BY <1>2, <1>3, <2>2, <3>1
  <2> QED BY <2>1, <2>2
<1> QED BY <1>4, <1>5, <1>6

LEMMA Joining ==
  ASSUME NEW T, NEW p \in Seq(T), NEW q \in Seq(T)
  PROVE  /\ p \o q \in Seq(T) /\ ToSet(p \o q) = ToSet(p) \cup ToSet(q)
         /\ Len(p \o q) = Len(p) + Len(q)
         /\ \A i \in 1..Len(p) : (p \o q)[i] = p[i]
         /\ \A i \in 1..Len(q) : (p \o q)[Len(p) + i] = q[i]
<1>1. Len(p) \in Nat /\ Len(q) \in Nat
  OBVIOUS
<1>2. p \o q \in Seq(T) /\ Len(p \o q) = Len(p) + Len(q)
  OBVIOUS
<1>3. \A i \in 1..Len(p) : (p \o q)[i] = p[i]
  OBVIOUS
<1>4. \A i \in 1..Len(q) : (p \o q)[Len(p) + i] = q[i]
  OBVIOUS
<1>5. \A i \in 1..(Len(p) + Len(q)) : i \in 1..Len(p) \/ \E k \in 1..Len(q) : i = Len(p) + k
  <2> SUFFICES ASSUME NEW i \in 1..(Len(p) + Len(q)), i \notin 1..Len(p)
               PROVE  \E k \in 1..Len(q) : i = Len(p) + k
    OBVIOUS
  <2>1. i - Len(p) \in 1..Len(q) /\ i = Len(p) + (i - Len(p))
    BY <1>1
  <2> QED BY <2>1
<1>6. \A k \in 1..Len(q) : Len(p) + k \in 1..(Len(p) + Len(q))
  BY <1>1
<1>7. \A i \in 1..Len(p) : i \in 1..(Len(p) + Len(q))
  BY <1>1
<1>8. /\ ToSet(p \o q) = {(p \o q)[i] : i \in 1..(Len(p) + Len(q))}
      /\ ToSet(p) = {p[i] : i \in 1..Len(p)} /\ ToSet(q) = {q[i] : i \in 1..Len(q)}
  BY <1>2, ToSetOf
<1>9. ToSet(p \o q) = ToSet(p) \cup ToSet(q)
  <2>1. ASSUME NEW x \in ToSet(p \o q) PROVE x \in ToSet(p) \cup ToSet(q)
    BY <1>3, <1>4, <1>5, <1>8
  <2>2. ASSUME NEW x \in ToSet(p) PROVE x \in ToSet(p \o q)
    BY <1>3, <1>7, <1>8
  <2>3. ASSUME NEW x \in ToSet(q) PROVE x \in ToSet(p \o q)
    <3>1. PICK k \in 1..Len(q) : x = q[k]
      BY <1>8
    <3>2. x = (p \o q)[Len(p) + k] /\ Len(p) + k \in 1..(Len(p) + Len(q))
      BY <1>4, <1>6, <3>1
    <3> QED BY <1>8, <3>2
  <2> QED BY <2>1, <2>2, <2>3
<1> QED BY <1>2, <1>3, <1>4, <1>9

LEMMA FirstAndRest ==
  ASSUME NEW T, NEW q \in Seq(T), q # <<>>
  PROVE  /\ q[1] \in T /\ Tail(q) \in Seq(T) /\ Len(q) = Len(Tail(q)) + 1
         /\ Len(Tail(q)) \in Nat /\ ToSet(q) = {q[1]} \cup ToSet(Tail(q))
<1>1. /\ Len(q) \in Nat /\ Len(q) # 0 /\ q[1] \in T /\ Tail(q) \in Seq(T)
      /\ Len(q) = Len(Tail(q)) + 1 /\ Len(Tail(q)) \in Nat
      /\ \A i \in 1..Len(Tail(q)) : Tail(q)[i] = q[i + 1]
  OBVIOUS
<1>2. ToSet(q) = {q[i] : i \in 1..Len(q)} /\ ToSet(Tail(q)) = {Tail(q)[i] : i \in 1..Len(Tail(q))}
  BY <1>1, ToSetOf
<1>3. \A i \in 1..Len(q) : i = 1 \/ (i - 1 \in 1..Len(Tail(q)) /\ (i - 1) + 1 = i)
  BY <1>1
<1>4. \A i \in 1..Len(Tail(q)) : i + 1 \in 1..Len(q)
  BY <1>1
<1>5. 1 \in 1..Len(q)
  BY <1>1
<1>6. ToSet(q) \subseteq {q[1]} \cup ToSet(Tail(q))
  <2> SUFFICES ASSUME NEW i \in 1..Len(q) PROVE q[i] \in {q[1]} \cup ToSet(Tail(q))
    BY <1>2
  <2>1. CASE i # 1
    <3>1. q[i] = Tail(q)[i - 1]
      BY <1>1, <1>3, <2>1
    <3> QED BY <1>2, <1>3, <2>1, <3>1
  <2> QED BY <2>1
<1>7. ToSet(Tail(q)) \subseteq ToSet(q)
  BY <1>1, <1>2, <1>4
<1> QED BY <1>1, <1>2, <1>5, <1>6, <1>7

LEMMA Appending ==
  ASSUME NEW T, NEW q \in Seq(T), NEW x \in T
  PROVE  /\ Append(q, x) \in Seq(T) /\ Len(Append(q, x)) = Len(q) + 1
         /\ ToSet(Append(q, x)) = ToSet(q) \cup {x}
         /\ Append(q, x)[Len(q) + 1] = x /\ \A i \in 1..Len(q) : Append(q, x)[i] = q[i]
<1>1. \A r : ToSet(r) = Elements(r)
  BY DEF ToSet, Elements
<1> QED BY <1>1, AppendedElement

\* what a load reads
Shown(q) == [i \in DOMAIN q |-> [id |-> q[i].id, val |-> q[i].val]]

\* no two sections have one id
Distinct(q) == \A i, j \in DOMAIN q : q[i].id = q[j].id => i = j

LEMMA DistinctPart ==
  ASSUME NEW T, NEW p \in Seq(T), NEW q \in Seq(T),
         Distinct(q), Once(p), ToSet(p) \subseteq ToSet(q)
  PROVE  Distinct(p)
<1> SUFFICES ASSUME NEW i \in DOMAIN p, NEW j \in DOMAIN p, p[i].id = p[j].id
             PROVE  i = j
  BY DEF Distinct
<1>1. PICK a \in DOMAIN q, b \in DOMAIN q : p[i] = q[a] /\ p[j] = q[b]
  BY DEF ToSet
<1>2. a = b
  BY <1>1 DEF Distinct
<1> QED BY <1>1, <1>2 DEF Once

LEMMA DistinctSame ==
  ASSUME NEW T, NEW q \in Seq(T), Distinct(q)
  PROVE  \A x, y \in ToSet(q) : x.id = y.id => x = y
BY DEF Distinct, ToSet

LEMMA DistinctJoin ==
  ASSUME NEW T, NEW p \in Seq(T), NEW q \in Seq(T),
         Distinct(p), Distinct(q), \A x \in ToSet(p), y \in ToSet(q) : x.id # y.id
  PROVE  Distinct(p \o q)
<1>1. /\ DOMAIN p = 1..Len(p) /\ DOMAIN q = 1..Len(q) /\ Len(p) \in Nat /\ Len(q) \in Nat
      /\ \A i \in 1..Len(p) : p[i] \in ToSet(p)
      /\ \A i \in 1..Len(q) : q[i] \in ToSet(q)
  BY ToSetOf
<1>2. /\ DOMAIN (p \o q) = 1..(Len(p) + Len(q))
      /\ \A i \in 1..Len(p) : (p \o q)[i] = p[i]
      /\ \A i \in 1..Len(q) : (p \o q)[Len(p) + i] = q[i]
  <2>1. p \o q \in Seq(T) /\ Len(p \o q) = Len(p) + Len(q)
    BY Joining
  <2>2. DOMAIN (p \o q) = 1..Len(p \o q)
    BY <2>1, ToSetOf
  <2> QED BY <2>1, <2>2, Joining
<1> SUFFICES ASSUME NEW i \in 1..(Len(p) + Len(q)), NEW j \in 1..(Len(p) + Len(q)),
                    (p \o q)[i].id = (p \o q)[j].id
             PROVE  i = j
  BY <1>2 DEF Distinct
<1> DEFINE r == p \o q
<1>3. ASSUME NEW k \in 1..(Len(p) + Len(q))
      PROVE  \/ k \in 1..Len(p) /\ r[k] = p[k]
             \/ k - Len(p) \in 1..Len(q) /\ r[k] = q[k - Len(p)]
  <2>1. CASE k \in 1..Len(p)
    BY <1>2, <2>1
  <2>2. CASE k \notin 1..Len(p)
    <3>1. k - Len(p) \in 1..Len(q) /\ k = Len(p) + (k - Len(p))
      BY <1>1, <2>2
    <3>2. r[Len(p) + (k - Len(p))] = q[k - Len(p)]
      BY <1>2, <3>1
    <3> QED BY <3>1, <3>2
  <2> QED BY <2>1, <2>2
<1>4. r[i].id = r[j].id
  OBVIOUS
<1> HIDE DEF r
<1>5. CASE i \in 1..Len(p) /\ r[i] = p[i]
  <2>1. CASE j \in 1..Len(p) /\ r[j] = p[j]
    BY <1>1, <1>4, <1>5, <2>1 DEF Distinct
  <2>2. CASE j - Len(p) \in 1..Len(q) /\ r[j] = q[j - Len(p)]
    BY <1>1, <1>4, <1>5, <2>2
  <2> QED BY <1>3, <2>1, <2>2
<1>6. CASE i - Len(p) \in 1..Len(q) /\ r[i] = q[i - Len(p)]
  <2>1. CASE j \in 1..Len(p) /\ r[j] = p[j]
    BY <1>1, <1>4, <1>6, <2>1
  <2>2. CASE j - Len(p) \in 1..Len(q) /\ r[j] = q[j - Len(p)]
    <3>1. i - Len(p) = j - Len(p)
      BY <1>1, <1>4, <1>6, <2>2 DEF Distinct
    <3> QED BY <1>1, <3>1
  <2> QED BY <1>3, <2>1, <2>2
<1> QED BY <1>3, <1>5, <1>6

-----------------------------------------------------------------------------
(* Types *)

\* every section added has a call, and so will have a reply
AddsFit(s) ==
  save[s].pc = "calls" =>
    Len(save[s].snew) <= Len(save[s].todo) + Len(save[s].resp)

TypeInv == TypeOK /\ \A s \in Savers : AddsFit(s)

NewType == (-MaxNew)..(-1)

LEMMA Numbers == Initial \in Nat /\ MaxNew \in Nat /\ MaxSaves \in Nat
BY SaveAssumption

LEMMA IdleType == Idle \in SaveType
<1>1. \A T : <<>> \in Seq(T)
  OBVIOUS
<1> QED BY <1>1 DEF Idle, SaveType

LEMMA InitTypes == Init => TypeInv
<1> SUFFICES ASSUME Init PROVE TypeInv
  OBVIOUS
<1>1. PICK v \in Vals : /\ server = [i \in 1..Initial |-> [id |-> i, of |-> i, val |-> v]]
                       /\ base = [i \in 1..Initial |-> [id |-> i, val |-> v]]
  BY DEF Init
<1>2. server \in Seq([id : Nat, of : Int, val : Vals])
  BY <1>1, Numbers
<1>3. base \in Seq(Section)
  <2>1. \A i \in 1..Initial : [id |-> i, val |-> v] \in Section
    BY Numbers DEF Section
  <2> QED BY <1>1, <2>1, Numbers
<1>4. made \in 0..MaxNew /\ saves \in 0..MaxSaves /\ next \in Nat
  BY Numbers DEF Init
<1>5. name \in [1..MaxNew -> Int]
  BY Numbers DEF Init, OwnNames
<1>6. cur = base /\ loaded \in BOOLEAN /\ reorder \in BOOLEAN
      /\ touched \in BOOLEAN /\ changed \subseteq Int /\ dirty \in BOOLEAN
  BY DEF Init
<1>7. save \in [Savers -> SaveType] /\ \A s \in Savers : AddsFit(s)
  BY IdleType DEF Init, AddsFit, Idle
<1> QED BY <1>2, <1>3, <1>4, <1>5, <1>6, <1>7 DEF TypeInv, TypeOK

\* A section found by its id.
LEMMA Found ==
  ASSUME NEW T, NEW q \in Seq(T), NEW id \in Ids(q)
  PROVE  /\ (CHOOSE e \in ToSet(q) : e.id = id) \in ToSet(q)
         /\ (CHOOSE e \in ToSet(q) : e.id = id).id = id
<1>1. \E e \in ToSet(q) : e.id = id
  BY ToSetOf
<1> QED BY <1>1

\* A caller's record changes by itself.
LEMMA Recorded ==
  ASSUME save \in [Savers -> SaveType], NEW s \in Savers, NEW r \in SaveType,
         save' = [save EXCEPT ![s] = r]
  PROVE  /\ save' \in [Savers -> SaveType] /\ save'[s] = r
         /\ \A o \in Savers \ {s} : save'[o] = save[o]
OBVIOUS

LEMMA SectionIds ==
  ASSUME NEW q \in Seq(Section)
  PROVE  /\ Ids(q) \subseteq Int
         /\ \A e \in ToSet(q) : e.id \in Int /\ -e.id <= MaxNew /\ e.val \in Vals
<1>1. ToSet(q) \subseteq Section /\ Ids(q) = {e.id : e \in ToSet(q)}
  BY ToSetOf
<1>2. \A e \in Section : e.id \in Int /\ -e.id <= MaxNew /\ e.val \in Vals
  BY DEF Section
<1> QED BY <1>1, <1>2

LEMMA EditTypes ==
  ASSUME TypeInv, NEW sections \in Seq(Section), Edited(sections)
  PROVE  /\ cur' \in Seq(Section) /\ save' \in [Savers -> SaveType]
         /\ \A s \in Savers : AddsFit(s)'
<1>1. save' = [s \in Savers |-> Idle] /\ cur' = sections
  BY DEF Edited
<1> QED BY <1>1, IdleType DEF AddsFit, Idle

LEMMA EditsKeepTypes == TypeInv /\ (Add \/ RemoveSection \/ Set \/ Move) => TypeInv'
<1> SUFFICES ASSUME TypeInv, Add \/ RemoveSection \/ Set \/ Move
             PROVE  TypeInv'
  OBVIOUS
<1>1. TypeOK /\ cur \in Seq(Section) /\ base \in Seq(Section) /\ changed \subseteq Int
      /\ made \in 0..MaxNew
  BY DEF TypeInv, TypeOK
<1>2. Ids(cur) \subseteq Int /\ Ids(base) \subseteq Int /\ DOMAIN cur = 1..Len(cur)
      /\ Len(cur) \in Nat /\ \A i \in DOMAIN cur : cur[i] \in Section
  BY <1>1, ToSetOf, SectionIds
<1>3. CASE Add
  <2>1. PICK v \in Vals : Edited(Append(cur, [id |-> -(made + 1), val |-> v]))
    BY <1>3 DEF Add
  <2>2. made + 1 \in 0..MaxNew /\ [id |-> -(made + 1), val |-> v] \in Section
    BY <1>1, <1>3, Numbers DEF Add, Section
  <2>3. Append(cur, [id |-> -(made + 1), val |-> v]) \in Seq(Section)
    BY <1>1, <2>2
  <2>4. made' \in 0..MaxNew /\ touched' \in BOOLEAN /\ UNCHANGED <<changed, reorder>>
    BY <1>3, <2>2 DEF Add
  <2> QED BY <1>1, <2>1, <2>3, <2>4, EditTypes DEF TypeInv, TypeOK, Edited
<1>4. CASE RemoveSection
  <2>1. PICK i \in DOMAIN cur : Edited(RemoveAt(cur, i)) /\ changed' = changed \ {cur[i].id}
    BY <1>4 DEF RemoveSection
  <2>2. RemoveAt(cur, i) \in Seq(Section) /\ changed' \subseteq Int
    BY <1>1, <2>1, Removing
  <2>3. touched' \in BOOLEAN /\ UNCHANGED <<reorder, made>>
    BY <1>4 DEF RemoveSection
  <2> QED BY <1>1, <2>1, <2>2, <2>3, EditTypes DEF TypeInv, TypeOK, Edited
<1>5. CASE Set
  <2>1. PICK i \in DOMAIN cur, v \in Vals :
          /\ Edited([cur EXCEPT ![i].val = v])
          /\ changed' = changed \cup ({cur[i].id} \cap Ids(base))
    BY <1>5 DEF Set
  <2>2. [cur EXCEPT ![i].val = v] \in Seq(Section)
    <3>1. [cur[i] EXCEPT !.val = v] \in Section
      BY <1>2 DEF Section
    <3> QED BY <1>1, <3>1
  <2>3. touched' \in BOOLEAN /\ UNCHANGED <<reorder, made>> /\ changed' \subseteq Int
    BY <1>1, <1>2, <1>5, <2>1 DEF Set
  <2> QED BY <1>1, <2>1, <2>2, <2>3, EditTypes DEF TypeInv, TypeOK, Edited
<1>6. CASE Move
  <2>1. PICK i \in DOMAIN cur, j \in DOMAIN cur : Edited(InsertAt(RemoveAt(cur, i), j, cur[i]))
    BY <1>6 DEF Move
  <2>2. RemoveAt(cur, i) \in Seq(Section) /\ j \in 1..(Len(RemoveAt(cur, i)) + 1)
    BY <1>1, <1>2, Removing
  <2>3. InsertAt(RemoveAt(cur, i), j, cur[i]) \in Seq(Section)
    BY <1>2, <2>2, Inserting
  <2>4. reorder' \in BOOLEAN /\ UNCHANGED <<changed, touched, made>>
    BY <1>6 DEF Move
  <2> QED BY <1>1, <2>1, <2>3, <2>4, EditTypes DEF TypeInv, TypeOK, Edited
<1> QED BY <1>3, <1>4, <1>5, <1>6

LEMMA Calling ==
  ASSUME NEW op \in {"delete", "add", "set"}, NEW q \in Seq(Section)
  PROVE  /\ Call(op, q) \in Seq(CallType) /\ Len(Call(op, q)) = Len(q)
         /\ \A c \in ToSet(Call(op, q)) : c.op = op /\ c.section \in ToSet(q)
         /\ \A e \in ToSet(q) : \E c \in ToSet(Call(op, q)) : c.op = op /\ c.section = e
<1> DEFINE call(e) == [op |-> op, section |-> e, order |-> <<>>]
<1>1. DOMAIN q = 1..Len(q) /\ Len(q) \in Nat /\ \A i \in 1..Len(q) : q[i] \in Section
  BY ToSetOf
<1>2. \A e \in Section : call(e) \in CallType
  BY DEF CallType
<1>3. Call(op, q) = [i \in 1..Len(q) |-> call(q[i])]
  BY <1>1 DEF Call
<1>4. \A e : call(e).op = op /\ call(e).section = e
  OBVIOUS
<1> HIDE DEF call
<1>5. Call(op, q) \in Seq(CallType) /\ Len(Call(op, q)) = Len(q)
  BY <1>1, <1>2, <1>3
<1>6. ToSet(Call(op, q)) = {call(q[i]) : i \in 1..Len(q)} /\ ToSet(q) = {q[i] : i \in 1..Len(q)}
  <2>1. \A i \in 1..Len(q) : Call(op, q)[i] = call(q[i])
    BY <1>3
  <2> QED BY <1>5, <2>1, ToSetOf
<1> QED BY <1>4, <1>5, <1>6

\* What save() sends.
LEMMA Batched ==
  ASSUME TypeOK
  PROVE  /\ Deletes \in Seq(Section) /\ Changes \in Seq(Section)
         /\ ToSet(Deletes) = {e \in ToSet(base) : e.id \notin Ids(cur)}
         /\ ToSet(Changes) = {e \in ToSet(cur) : e.id \in changed}
<1>1. base \in Seq(Section) /\ cur \in Seq(Section)
  BY DEF TypeOK
<1> QED BY <1>1, OnlyKeeps DEF Deletes, Changes, Missing

LEMMA BatchedNew ==
  ASSUME TypeOK
  PROVE  /\ CreatesInOrder \in Seq(Section)
         /\ \A e \in ToSet(CreatesInOrder) :
              e.id \in NewType /\ -made <= e.id /\ \E g \in ToSet(cur) : e.id = g.id /\ e.val = g.val
         /\ \A g \in ToSet(cur) : g.id < 0 /\ -made <= g.id =>
              \E e \in ToSet(CreatesInOrder) : e.id = g.id
         /\ [i \in DOMAIN CreatesInOrder |-> CreatesInOrder[i].id] \in Seq(NewType)
         /\ \A e \in ToSet(CreatesInOrder) :
               e.id \in ToSet([i \in DOMAIN CreatesInOrder |-> CreatesInOrder[i].id])
<1> DEFINE all == [i \in 1..made |-> -i]
           ids == Only(all, Ids(cur))
           of(i) == [id |-> i, val |-> ValueIn(cur, i)]
<1>1. cur \in Seq(Section) /\ made \in 0..MaxNew /\ MaxNew \in Nat /\ made \in Nat
  BY Numbers DEF TypeOK
<1>2. all \in Seq(NewType) /\ ToSet(all) = {-i : i \in 1..made}
  <2>1. \A i \in 1..made : -i \in NewType
    BY <1>1 DEF NewType
  <2>2. all \in Seq(NewType) /\ DOMAIN all = 1..made
    BY <1>1, <2>1
  <2>3. \A i \in 1..made : all[i] = -i
    OBVIOUS
  <2> HIDE DEF all
  <2> QED BY <2>2, <2>3 DEF ToSet
<1> HIDE DEF all
<1>3. ids \in Seq(NewType) /\ ToSet(ids) = ToSet(all) \cap Ids(cur)
  BY <1>2, OnlyKeeps
<1>4. CreatesInOrder = [i \in DOMAIN ids |-> of(ids[i])]
  BY DEF CreatesInOrder, all
<1> HIDE DEF ids
<1>5. \A i \in ToSet(ids) : /\ i \in NewType /\ -made <= i /\ i \in Ids(cur)
                          /\ of(i) \in Section /\ of(i).id = i
                          /\ \E g \in ToSet(cur) : of(i).id = g.id /\ of(i).val = g.val
  <2> SUFFICES ASSUME NEW i \in ToSet(ids)
               PROVE  /\ i \in NewType /\ -made <= i /\ i \in Ids(cur)
                      /\ of(i) \in Section /\ of(i).id = i
                      /\ \E g \in ToSet(cur) : of(i).id = g.id /\ of(i).val = g.val
    OBVIOUS
  <2>1. i \in Ids(cur) /\ i \in {-k : k \in 1..made}
    BY <1>2, <1>3
  <2>2. i \in NewType /\ -made <= i /\ i \in Int /\ -i <= MaxNew
    BY <1>1, <2>1 DEF NewType
  <2>3. PICK g \in ToSet(cur) : g.id = i /\ ValueIn(cur, i) = g.val
    BY <1>1, <2>1, Found DEF ValueIn
  <2>4. g.val \in Vals
    BY <1>1, SectionIds
  <2>5. of(i) \in Section
    BY <2>2, <2>3, <2>4 DEF Section
  <2> QED BY <2>1, <2>2, <2>3, <2>5
<1>6. DOMAIN ids = 1..Len(ids) /\ Len(ids) \in Nat /\ ToSet(ids) = {ids[i] : i \in 1..Len(ids)}
      /\ \A i \in 1..Len(ids) : ids[i] \in ToSet(ids)
  BY <1>3, ToSetOf
<1> HIDE DEF of
<1>7. /\ CreatesInOrder \in Seq(Section) /\ Len(CreatesInOrder) = Len(ids)
      /\ DOMAIN CreatesInOrder = 1..Len(ids)
      /\ \A i \in 1..Len(ids) : CreatesInOrder[i] = of(ids[i]) /\ CreatesInOrder[i].id = ids[i]
  BY <1>4, <1>5, <1>6
<1>8. ToSet(CreatesInOrder) = {of(i) : i \in ToSet(ids)}
  BY <1>6, <1>7 DEF ToSet
<1>9. [i \in DOMAIN CreatesInOrder |-> CreatesInOrder[i].id] = ids
  <2>1. [i \in DOMAIN CreatesInOrder |-> CreatesInOrder[i].id] = [i \in 1..Len(ids) |-> ids[i]]
    BY <1>7
  <2> QED BY <1>3, <1>6, <2>1
<1>10. \A e \in ToSet(CreatesInOrder) :
         e.id \in NewType /\ -made <= e.id /\ \E g \in ToSet(cur) : e.id = g.id /\ e.val = g.val
  BY <1>5, <1>8
<1>11. \A g \in ToSet(cur) : g.id < 0 /\ -made <= g.id => \E e \in ToSet(CreatesInOrder) : e.id = g.id
  <2> SUFFICES ASSUME NEW g \in ToSet(cur), g.id < 0, -made <= g.id
               PROVE  g.id \in ToSet(ids)
    BY <1>5, <1>8
  <2>1. g.id \in Ids(cur) /\ g.id \in Int
    BY <1>1, ToSetOf, SectionIds
  <2>2. -g.id \in 1..made /\ g.id = -(-g.id)
    BY <1>1, <2>1
  <2> QED BY <1>2, <1>3, <2>1, <2>2
<1>12. \A e \in ToSet(CreatesInOrder) : e.id \in ToSet(ids)
  BY <1>5, <1>8
<1> QED BY <1>3, <1>7, <1>9, <1>10, <1>11, <1>12

NewIds == [i \in DOMAIN CreatesInOrder |-> CreatesInOrder[i].id]

\* save() sends the calls of each kind, one for each section added.
LEMMA BatchCalls ==
  ASSUME TypeOK
  PROVE  /\ Batch \in Seq(CallType) /\ NewIds \in Seq(NewType)
         /\ Len(NewIds) \in Nat /\ Len(Batch) \in Nat /\ Len(NewIds) <= Len(Batch)
         /\ ToSet(Batch) = ToSet(Call("delete", Deletes)) \cup ToSet(Call("add", CreatesInOrder))
                             \cup ToSet(Call("set", Changes))
<1> DEFINE d == Call("delete", Deletes)
           a == Call("add", CreatesInOrder)
           c == Call("set", Changes)
           da == d \o a
<1>1. /\ d \in Seq(CallType) /\ a \in Seq(CallType) /\ c \in Seq(CallType)
      /\ Len(a) = Len(CreatesInOrder)
  BY Batched, BatchedNew, Calling
<1>2. NewIds \in Seq(NewType) /\ Len(NewIds) = Len(CreatesInOrder) /\ Len(NewIds) \in Nat
  <2>1. CreatesInOrder \in Seq(Section)
    BY BatchedNew
  <2>2. DOMAIN CreatesInOrder = 1..Len(CreatesInOrder) /\ Len(CreatesInOrder) \in Nat
    BY <2>1, ToSetOf
  <2> QED BY <2>2, BatchedNew DEF NewIds
<1> HIDE DEF d, a, c
<1>3. da \in Seq(CallType) /\ ToSet(da) = ToSet(d) \cup ToSet(a) /\ Len(da) = Len(d) + Len(a)
  BY <1>1, Joining
<1>5. Batch = da \o c
  BY DEF Batch, da, d, a, c
<1> HIDE DEF da
<1>4. /\ da \o c \in Seq(CallType) /\ ToSet(da \o c) = ToSet(da) \cup ToSet(c)
      /\ Len(da \o c) = Len(da) + Len(c)
  <2>1. da \in Seq(CallType) /\ c \in Seq(CallType)
    BY <1>1, <1>3
  <2> QED BY <2>1, Joining
<1>6. Len(d) \in Nat /\ Len(a) \in Nat /\ Len(c) \in Nat
  BY <1>1, ToSetOf
<1> QED BY <1>1, <1>2, <1>3, <1>4, <1>5, <1>6 DEF d, a, c

LEMMA Saving ==
  ASSUME NEW s \in Savers, Save(s)
  PROVE  /\ loaded /\ s \notin Busy /\ saves < MaxSaves /\ saves' = saves + 1
         /\ save' = [save EXCEPT ![s] = Started]
         /\ UNCHANGED <<server, next, loaded, base, cur, changed, touched, reorder,
                        name, made, dirty>>
BY DEF Save, client

LEMMA SaveKeepsTypes == ASSUME TypeInv, NEW s \in Savers, Save(s) PROVE TypeInv'
<1>1. TypeOK /\ cur \in Seq(Section) /\ save \in [Savers -> SaveType]
      /\ touched \in BOOLEAN /\ reorder \in BOOLEAN /\ dirty \in BOOLEAN
  BY DEF TypeInv, TypeOK
<1>2. Started \in SaveType
  <2>1. \A T : <<>> \in Seq(T)
    OBVIOUS
  <2>2. Batch \in Seq(CallType) /\ NewIds \in Seq(NewType)
    BY <1>1, BatchCalls
  <2> QED BY <1>1, <2>1, <2>2 DEF Started, SaveType, NewType, NewIds
<1>3. /\ save' \in [Savers -> SaveType] /\ save'[s] = Started
      /\ \A o \in Savers \ {s} : save'[o] = save[o]
  BY <1>1, <1>2, Saving, Recorded
<1>4. Len(Started.snew) <= Len(Started.todo) + Len(Started.resp)
  <2>1. Len(<<>>) = 0
    OBVIOUS
  <2> QED BY <1>1, <2>1, BatchCalls DEF Started, NewIds
<1>5. \A o \in Savers : AddsFit(o)'
  BY <1>3, <1>4 DEF AddsFit, TypeInv
<1>6. saves' \in 0..MaxSaves
  BY <1>1, Saving, Numbers DEF TypeOK
<1> QED BY <1>1, <1>3, <1>5, <1>6, Saving DEF TypeInv, TypeOK

\* The end of save().
LEMMA Finishing ==
  ASSUME save \in [Savers -> SaveType], NEW s \in Savers, Finish(s)
  PROVE  /\ save' \in [Savers -> SaveType]
         /\ \A o \in Savers \ {s} : save'[o] = save[o]
         /\ save'[s].goal = save[s].goal /\ save'[s].reload = save[s].reload
         /\ save'[s].clean = save[s].clean /\ save'[s].mixed = save[s].mixed
         /\ save[s].reload =>
              /\ save'[s].pc = "load" /\ ~loaded' /\ changed' = {} /\ touched' = FALSE
              /\ Len(save'[s].todo) = 1
              /\ save'[s].todo[1] = [op |-> "load", section |-> <<>>, order |-> <<>>]
         /\ ~save[s].reload =>
              /\ save'[s].pc = "saved" /\ (loaded' <=> loaded)
              /\ UNCHANGED <<changed, touched>>
<1> DEFINE load == [op |-> "load", section |-> <<>>, order |-> <<>>]
           pc == IF save[s].reload THEN "load" ELSE "saved"
           todo == IF save[s].reload THEN <<load>> ELSE <<>>
<1>1. load \in CallType
  <2>1. <<>> \in Seq(Int)
    OBVIOUS
  <2> QED BY <2>1 DEF CallType
<1>2. <<load>> \in Seq(CallType) /\ Len(<<load>>) = 1 /\ <<load>>[1] = load
      /\ <<>> \in Seq(CallType) /\ <<>> \in Seq(Int)
  BY <1>1
<1>3. save' = [save EXCEPT ![s].pc = pc, ![s].resp = <<>>, ![s].todo = todo]
      /\ loaded' = (loaded /\ ~save[s].reload)
      /\ IF save[s].reload THEN changed' = {} /\ touched' = FALSE
                           ELSE UNCHANGED <<changed, touched>>
  BY DEF Finish
<1>4. pc \in {"load", "saved"} /\ todo \in Seq(CallType)
  BY <1>2
<1>5. /\ save[s].reload => pc = "load" /\ Len(todo) = 1 /\ todo[1] = load
      /\ ~save[s].reload => pc = "saved"
  BY <1>2
<1> HIDE DEF load, pc, todo
<1> DEFINE r == [save[s] EXCEPT !.pc = pc, !.resp = <<>>, !.todo = todo]
<1>6. save' = [save EXCEPT ![s] = r]
  BY <1>3
<1>7. r \in SaveType /\ r.pc = pc /\ r.todo = todo /\ r.goal = save[s].goal
      /\ r.reload = save[s].reload /\ r.clean = save[s].clean /\ r.mixed = save[s].mixed
  <2>1. save[s] \in SaveType
    OBVIOUS
  <2>2. r \in SaveType
    BY <1>2, <1>4, <2>1 DEF SaveType
  <2>3. r.pc = pc /\ r.todo = todo /\ r.goal = save[s].goal /\ r.reload = save[s].reload
        /\ r.clean = save[s].clean /\ r.mixed = save[s].mixed
    BY <2>1 DEF SaveType
  <2> QED BY <2>2, <2>3
<1> HIDE DEF r
<1>8. /\ save' \in [Savers -> SaveType] /\ save'[s] = r
      /\ \A o \in Savers \ {s} : save'[o] = save[o]
  BY <1>6, <1>7, Recorded
<1> QED BY <1>3, <1>5, <1>7, <1>8 DEF load

\* A call is answered.
LEMMA Replying ==
  ASSUME save \in [Savers -> SaveType], NEW s \in Savers, save[s].todo # <<>>,
         NEW r \in Int, Reply(s, r)
  PROVE  /\ save' \in [Savers -> SaveType]
         /\ \A o \in Savers \ {s} : save'[o] = save[o]
         /\ save'[s].todo = Tail(save[s].todo)
         /\ save'[s].resp \in {Append(save[s].resp, r), Append(save[s].resp, Failed)}
         /\ save'[s].pc = save[s].pc /\ save'[s].snew = save[s].snew
         /\ save'[s].goal = save[s].goal /\ save'[s].snap = save[s].snap
         /\ save'[s].reload = save[s].reload /\ save'[s].clean = save[s].clean
         /\ save'[s].mixed = save[s].mixed
<1>1. PICK got \in {r, Failed} :
        save' = [save EXCEPT ![s].todo = Tail(@), ![s].resp = Append(@, got)]
  BY DEF Reply
<1> DEFINE todo == Tail(save[s].todo)
           resp == Append(save[s].resp, got)
           n == [save[s] EXCEPT !.todo = todo, !.resp = resp]
<1>2. save[s] \in SaveType /\ save[s].todo \in Seq(CallType) /\ save[s].resp \in Seq(Int)
  BY DEF SaveType
<1>3. got \in Int
  BY DEF Failed
<1>4. todo \in Seq(CallType) /\ resp \in Seq(Int)
  BY <1>2, <1>3, FirstAndRest, Appending
<1>5. save' = [save EXCEPT ![s] = n]
  BY <1>1
<1>6. resp \in {Append(save[s].resp, r), Append(save[s].resp, Failed)}
  OBVIOUS
<1> HIDE DEF todo, resp
<1>7. n \in SaveType
  BY <1>2, <1>4 DEF SaveType
<1>8. n.todo = todo /\ n.resp = resp /\ n.pc = save[s].pc /\ n.snew = save[s].snew
      /\ n.goal = save[s].goal /\ n.snap = save[s].snap /\ n.reload = save[s].reload
      /\ n.clean = save[s].clean /\ n.mixed = save[s].mixed
  BY <1>2 DEF SaveType
<1> HIDE DEF n
<1>9. /\ save' \in [Savers -> SaveType] /\ save'[s] = n
      /\ \A o \in Savers \ {s} : save'[o] = save[o]
  BY <1>5, <1>7, Recorded
<1> QED BY <1>6, <1>8, <1>9 DEF todo

\* It leaves as many replies as calls.
LEMMA AnswerFits ==
  ASSUME TypeInv, NEW s \in Savers, save[s].todo # <<>>, NEW r \in Int,
         \A o \in Savers \ {s} : save'[o] = save[o],
         save'[s].todo = Tail(save[s].todo), save'[s].resp = Append(save[s].resp, r),
         save'[s].pc = save[s].pc, save'[s].snew = save[s].snew
  PROVE  \A o \in Savers : AddsFit(o)'
<1>1. save[s].todo \in Seq(CallType) /\ save[s].resp \in Seq(Int)
  BY DEF TypeInv, TypeOK, SaveType
<1>2. Len(save[s].todo) = Len(Tail(save[s].todo)) + 1 /\ Len(Tail(save[s].todo)) \in Nat
  BY <1>1, FirstAndRest
<1>3. Len(save'[s].resp) = Len(save[s].resp) + 1 /\ Len(save[s].resp) \in Nat
  BY <1>1, Appending, ToSetOf
<1>4. Len(save'[s].todo) = Len(Tail(save[s].todo))
  OBVIOUS
<1>5. Len(save'[s].todo) + Len(save'[s].resp) = Len(save[s].todo) + Len(save[s].resp)
  <2>1. \A a, b \in Nat : a + (b + 1) = (a + 1) + b
    OBVIOUS
  <2> QED BY <1>2, <1>3, <1>4, <2>1, Zenon
<1>6. save[s].pc = "calls" => Len(save[s].snew) <= Len(save[s].todo) + Len(save[s].resp)
  BY DEF TypeInv, AddsFit
<1>7. AddsFit(s)'
  BY <1>5, <1>6 DEF AddsFit
<1>8. \A o \in Savers \ {s} : AddsFit(o)'
  BY DEF TypeInv, AddsFit
<1> QED BY <1>7, <1>8

LEMMA ReplyFits ==
  ASSUME TypeInv, NEW s \in Savers, save[s].todo # <<>>, NEW r \in Int, Reply(s, r)
  PROVE  save' \in [Savers -> SaveType] /\ \A o \in Savers : AddsFit(o)'
<1>1. save \in [Savers -> SaveType] /\ Failed \in Int
  BY DEF TypeInv, TypeOK, Failed
<1>2. /\ \A o \in Savers \ {s} : save'[o] = save[o]
      /\ save'[s].todo = Tail(save[s].todo)
      /\ save'[s].resp \in {Append(save[s].resp, r), Append(save[s].resp, Failed)}
      /\ save'[s].pc = save[s].pc /\ save'[s].snew = save[s].snew
  BY <1>1, Replying
<1>3. \A o \in Savers : AddsFit(o)'
  BY <1>1, <1>2, AnswerFits
<1> QED BY <1>1, <1>3, Replying

ServerType == [id : Nat, of : Int, val : Vals]

LEMMA PendingCall ==
  ASSUME TypeOK, NEW s \in Savers, NEW op, Pending(s, op)
  PROVE  /\ save[s] \in SaveType /\ save[s].todo # <<>> /\ s \in Busy
         /\ NextCall(s) \in CallType /\ NextCall(s).op = op
         /\ NextCall(s) \in ToSet(save[s].todo)
         /\ op \in {"delete", "add", "set"} => NextCall(s).section \in Section
         /\ op = "order" => NextCall(s).order \in Seq(Int)
<1>1. save[s] \in SaveType /\ save[s].todo \in Seq(CallType) /\ save[s].todo # <<>>
      /\ s \in Busy /\ NextCall(s).op = op
  BY DEF Pending, TypeOK, SaveType
<1>2. NextCall(s) \in CallType /\ NextCall(s) \in ToSet(save[s].todo)
  BY <1>1, FirstAndRest DEF NextCall
<1>3. ASSUME NEW c \in CallType
      PROVE  /\ c.op \in {"delete", "add", "set"} => c.section \in Section
             /\ c.op = "order" => c.order \in Seq(Int)
  BY DEF CallType
<1>4. /\ NextCall(s).op \in {"delete", "add", "set"} => NextCall(s).section \in Section
      /\ NextCall(s).op = "order" => NextCall(s).order \in Seq(Int)
  <2> DEFINE c == NextCall(s)
  <2>1. c \in CallType
    BY <1>2
  <2> HIDE DEF c
  <2>2. /\ c.op \in {"delete", "add", "set"} => c.section \in Section
        /\ c.op = "order" => c.order \in Seq(Int)
    BY <1>3, <2>1
  <2> QED BY <2>2 DEF c
<1> QED BY <1>1, <1>2, <1>4, Zenon

\* Reordering makes up no section and, if no section is named twice, loses
\* and repeats none.
LEMMA Reordering ==
  ASSUME server \in Seq(ServerType), NEW names \in Seq(Int)
  PROVE  /\ Reordered(names) \in Seq(ServerType)
         /\ Distinct(server) /\ (\A i, j \in DOMAIN names :
                                  names[i] = names[j] /\ names[i] \in Ids(server) => i = j)
              => /\ ToSet(Reordered(names)) = ToSet(server)
                 /\ Distinct(Reordered(names))
<1> DEFINE found == Only(names, Ids(server))
           first == [i \in DOMAIN found |-> CHOOSE e \in ToSet(server) : e.id = found[i]]
           rest == Only(server, {e \in ToSet(server) : e.id \notin ToSet(found)})
<1>1. /\ found \in Seq(Int) /\ ToSet(found) \subseteq Ids(server)
      /\ (\A i, j \in DOMAIN names : names[i] = names[j] /\ names[i] \in Ids(server) => i = j)
           => Once(found)
  BY OnlyKeeps
<1>2. rest \in Seq(ServerType) /\ ToSet(rest) = {e \in ToSet(server) : e.id \notin ToSet(found)}
  BY OnlyKeeps
<1>3. Reordered(names) = first \o rest
  BY DEF Reordered
<1>4. ToSet(server) \subseteq ServerType
  BY ToSetOf
<1> HIDE DEF found
<1>5. /\ DOMAIN found = 1..Len(found) /\ Len(found) \in Nat
      /\ \A i \in 1..Len(found) : found[i] \in ToSet(found)
      /\ \A x \in ToSet(found) : \E i \in 1..Len(found) : x = found[i]
  BY <1>1, ToSetOf
<1>6. \A i \in 1..Len(found) : first[i] \in ToSet(server) /\ first[i].id = found[i]
  BY <1>1, <1>5, Found
<1>7. first \in Seq(ServerType) /\ DOMAIN first = 1..Len(found) /\ Len(first) = Len(found)
  BY <1>4, <1>5, <1>6
<1> HIDE DEF first, rest
<1>8. first \o rest \in Seq(ServerType) /\ ToSet(first \o rest) = ToSet(first) \cup ToSet(rest)
  BY <1>2, <1>7, Joining
<1>9. ToSet(first) \subseteq ToSet(server)
  BY <1>6, <1>7 DEF ToSet
<1>10. ASSUME Distinct(server), Once(found)
       PROVE  ToSet(first \o rest) = ToSet(server) /\ Distinct(first \o rest)
  <2>1. ASSUME NEW e \in ToSet(server), e.id \in ToSet(found) PROVE e \in ToSet(first)
    <3>1. PICK i \in 1..Len(found) : e.id = found[i]
      BY <1>5, <2>1
    <3>2. first[i] = e
      BY <1>6, <1>10, <3>1, DistinctSame
    <3> QED BY <1>7, <3>2 DEF ToSet
  <2>2. ToSet(first \o rest) = ToSet(server)
    BY <1>2, <1>8, <1>9, <2>1
  <2>3. Distinct(first)
    BY <1>5, <1>6, <1>7, <1>10 DEF Distinct, Once
  <2>4. Distinct(rest)
    <3>1. Once(server)
      BY <1>10 DEF Once, Distinct
    <3>2. Once(rest)
      BY <3>1, OnlyKeeps DEF rest, Once
    <3> QED BY <1>2, <1>10, <3>2, DistinctPart
  <2>5. \A x \in ToSet(first), y \in ToSet(rest) : x.id # y.id
    <3>1. \A x \in ToSet(first) : x.id \in ToSet(found)
      BY <1>5, <1>6, <1>7 DEF ToSet
    <3> QED BY <1>2, <3>1
  <2>6. Distinct(first \o rest)
    BY <1>2, <1>7, <2>3, <2>4, <2>5, DistinctJoin
  <2> QED BY <2>2, <2>6
<1> QED BY <1>1, <1>3, <1>8, <1>10

LEMMA ShownType ==
  ASSUME NEW q \in Seq(ServerType)
  PROVE  /\ Shown(q) \in Seq(Section) /\ DOMAIN Shown(q) = DOMAIN q
         /\ \A i \in DOMAIN q : Shown(q)[i] = [id |-> q[i].id, val |-> q[i].val]
         /\ Ids(Shown(q)) = Ids(q)
         /\ \A g \in ToSet(Shown(q)) : \E e \in ToSet(q) : e.id = g.id /\ e.val = g.val
<1>1. DOMAIN q = 1..Len(q) /\ Len(q) \in Nat /\ \A i \in DOMAIN q : q[i] \in ServerType
  BY ToSetOf
<1>2. \A e \in ServerType : [id |-> e.id, val |-> e.val] \in Section
  BY Numbers DEF ServerType, Section
<1>3. Shown(q) \in Seq(Section)
  BY <1>1, <1>2 DEF Shown
<1>4. DOMAIN Shown(q) = DOMAIN q
      /\ \A i \in DOMAIN q : Shown(q)[i] = [id |-> q[i].id, val |-> q[i].val]
  BY DEF Shown
<1>5. \A i \in DOMAIN q : Shown(q)[i].id = q[i].id /\ Shown(q)[i].val = q[i].val
  BY <1>4
<1> QED BY <1>3, <1>4, <1>5 DEF Ids, ToSet

LEMMA ServerIds ==
  ASSUME NEW q \in Seq(ServerType)
  PROVE  \A e \in ToSet(q) : e.id \in Nat /\ e.id >= 0 /\ e.of \in Int
<1>1. ToSet(q) \subseteq ServerType
  BY ToSetOf
<1>2. \A e \in ServerType : e.id \in Nat /\ e.id >= 0 /\ e.of \in Int
  BY DEF ServerType
<1> QED BY <1>1, <1>2

\* A load is answered with the sections of the server.
LEMMA LoadReply ==
  ASSUME TypeInv, NEW s \in Savers, ServeLoad(s)
  PROVE  /\ save' \in [Savers -> SaveType] /\ \A o \in Savers \ {s} : save'[o] = save[o]
         /\ save'[s].todo = Tail(save[s].todo) /\ save'[s].snap = Shown(server)
         /\ save'[s].resp = Append(save[s].resp, NoName)
         /\ save'[s].pc = save[s].pc /\ save'[s].goal = save[s].goal
         /\ save'[s].reload = save[s].reload /\ save'[s].snew = save[s].snew
         /\ save'[s].clean = save[s].clean /\ save'[s].mixed = save[s].mixed
         /\ \A o \in Savers : AddsFit(o)'
<1> DEFINE todo == Tail(save[s].todo)
           resp == Append(save[s].resp, NoName)
           snap == Shown(server)
           n == [save[s] EXCEPT !.todo = todo, !.resp = resp, !.snap = snap]
<1>1. /\ save \in [Savers -> SaveType] /\ save[s] \in SaveType /\ save[s].todo \in Seq(CallType)
      /\ save[s].resp \in Seq(Int) /\ NoName \in Int /\ save[s].todo # <<>>
  BY DEF TypeInv, TypeOK, SaveType, ServeLoad, Pending, NoName
<1>2. todo \in Seq(CallType) /\ resp \in Seq(Int)
  BY <1>1, FirstAndRest, Appending
<1>3. snap \in Seq(Section)
  BY ShownType DEF TypeInv, TypeOK, ServerType
<1>4. save' = [save EXCEPT ![s] = n]
  BY DEF ServeLoad, Shown
<1> HIDE DEF todo, resp, snap
<1>5. n \in SaveType
  BY <1>1, <1>2, <1>3 DEF SaveType
<1>6. n.todo = todo /\ n.resp = resp /\ n.snap = snap /\ n.pc = save[s].pc
      /\ n.goal = save[s].goal /\ n.reload = save[s].reload /\ n.snew = save[s].snew
      /\ n.clean = save[s].clean /\ n.mixed = save[s].mixed
  BY <1>1 DEF SaveType
<1> HIDE DEF n
<1>7. /\ save' \in [Savers -> SaveType] /\ save'[s] = n
      /\ \A o \in Savers \ {s} : save'[o] = save[o]
  BY <1>1, <1>4, <1>5, Recorded
<1>8. \A o \in Savers : AddsFit(o)'
  BY <1>1, <1>6, <1>7, AnswerFits DEF todo, resp
<1> QED BY <1>6, <1>7, <1>8 DEF todo, resp, snap

\* The answers of the server leave the types as they are.
LEMMA ServeTypes == ASSUME TypeInv, NEW s \in Savers, Serve(s) PROVE TypeInv'
<1>1. TypeOK /\ server \in Seq(ServerType) /\ next \in Nat /\ save \in [Savers -> SaveType]
      /\ save[s] \in SaveType
  BY DEF TypeInv, TypeOK, ServerType
<1>2. SUFFICES ASSUME /\ server' \in Seq(ServerType) /\ next' \in Nat
                      /\ save' \in [Savers -> SaveType] /\ \A o \in Savers : AddsFit(o)'
                      /\ UNCHANGED <<client, saves, dirty>>
               PROVE  TypeInv'
  <2>1. /\ server' \in Seq(ServerType) /\ next' \in Nat
        /\ save' \in [Savers -> SaveType] /\ \A o \in Savers : AddsFit(o)'
        /\ UNCHANGED <<client, saves, dirty>>
    <3>1. CASE ServeDelete(s)
      <4>1. server' \in Seq(ServerType)
        BY <1>1, <3>1, OnlyKeeps DEF ServeDelete
      <4>2. save[s].todo # <<>> /\ Reply(s, NoName) /\ NoName \in Int
            /\ UNCHANGED <<next, client, saves, dirty>>
        BY <3>1 DEF ServeDelete, Pending, NoName
      <4> QED BY <1>1, <4>1, <4>2, ReplyFits
    <3>2. CASE ServeAdd(s)
      <4>1. Pending(s, "add") /\ NextCall(s).section \in Section
        BY <1>1, <3>2, PendingCall DEF ServeAdd
      <4>2. [id |-> next, of |-> NextCall(s).section.id, val |-> NextCall(s).section.val] \in ServerType
        BY <1>1, <4>1 DEF Section, ServerType
      <4>3. server' \in Seq(ServerType) /\ next' \in Nat /\ next \in Int
        BY <1>1, <3>2, <4>2, Appending DEF ServeAdd
      <4>4. save[s].todo # <<>> /\ Reply(s, next) /\ UNCHANGED <<client, saves, dirty>>
        BY <3>2 DEF ServeAdd, Pending
      <4> QED BY <1>1, <4>3, <4>4, ReplyFits
    <3>3. CASE ServeSet(s)
      <4>1. Pending(s, "set") /\ NextCall(s).section.val \in Vals
        BY <1>1, <3>3, PendingCall DEF ServeSet, Section
      <4>2. \A i \in DOMAIN server :
              (IF server[i].id = NextCall(s).section.id
               THEN [server[i] EXCEPT !.val = NextCall(s).section.val] ELSE server[i]) \in ServerType
        <5>1. \A e \in ServerType : [e EXCEPT !.val = NextCall(s).section.val] \in ServerType
          BY <4>1 DEF ServerType
        <5>2. \A i \in DOMAIN server : server[i] \in ServerType
          BY <1>1, ToSetOf
        <5> QED BY <5>1, <5>2
      <4>3. server' \in Seq(ServerType)
        BY <1>1, <3>3, <4>2 DEF ServeSet
      <4>4. save[s].todo # <<>> /\ Reply(s, NoName) /\ NoName \in Int
            /\ UNCHANGED <<next, client, saves, dirty>>
        BY <3>3 DEF ServeSet, Pending, NoName
      <4> QED BY <1>1, <4>3, <4>4, ReplyFits
    <3>4. CASE ServeOrder(s)
      <4>1. NextCall(s).order \in Seq(Int)
        BY <1>1, <3>4, PendingCall DEF ServeOrder
      <4>2. server' \in Seq(ServerType)
        BY <1>1, <3>4, <4>1, Reordering DEF ServeOrder
      <4>3. save[s].todo # <<>> /\ Reply(s, NoName) /\ NoName \in Int
            /\ UNCHANGED <<next, client, saves, dirty>>
        BY <3>4 DEF ServeOrder, Pending, NoName
      <4> QED BY <1>1, <4>2, <4>3, ReplyFits
    <3>5. CASE ServeLoad(s)
      <4>1. /\ save' \in [Savers -> SaveType] /\ \A o \in Savers : AddsFit(o)'
        BY <1>1, <3>5, LoadReply DEF TypeInv
      <4> QED BY <1>1, <3>5, <4>1 DEF ServeLoad
    <3>6. CASE ServeFailing(s)
      <4>1. save[s].todo # <<>> /\ Reply(s, Failed) /\ Failed \in Int
            /\ UNCHANGED <<server, next, client, saves, dirty>>
        BY <3>6 DEF ServeFailing, Failed
      <4> QED BY <1>1, <4>1, ReplyFits
    <3> QED BY <3>1, <3>2, <3>3, <3>4, <3>5, <3>6 DEF Serve
  <2> QED BY <1>2, <2>1
<1> QED BY <1>1, <1>2 DEF TypeInv, TypeOK, client, ServerType

\* Every section added has a reply when all calls are answered.
LEMMA RepliesThere ==
  ASSUME TypeInv, NEW s \in Savers, save[s].pc = "calls", save[s].todo = <<>>
  PROVE  /\ DOMAIN save[s].snew \subseteq DOMAIN save[s].resp
         /\ save[s].snew \in Seq(NewType) /\ save[s].resp \in Seq(Int)
         /\ Renamed(s) \in [1..MaxNew -> Int]
<1>1. save[s].snew \in Seq(NewType) /\ save[s].resp \in Seq(Int) /\ name \in [1..MaxNew -> Int]
  BY DEF TypeInv, TypeOK, SaveType, NewType
<1>2. Len(save[s].snew) <= Len(save[s].resp)
  <2>1. Len(save[s].snew) <= Len(save[s].todo) + Len(save[s].resp)
    BY DEF TypeInv, AddsFit
  <2>2. Len(save[s].todo) = 0 /\ Len(save[s].resp) \in Nat
    BY <1>1
  <2> QED BY <2>1, <2>2
<1>3. DOMAIN save[s].snew \subseteq DOMAIN save[s].resp
  BY <1>1, <1>2, ToSetOf
<1>4. \A i \in DOMAIN save[s].resp : save[s].resp[i] \in Int
  BY <1>1, ToSetOf
<1>5. ASSUME NEW k \in 1..MaxNew,
             NEW at, at = {i \in DOMAIN save[s].snew : save[s].snew[i] = -k}
      PROVE  (IF at = {} THEN name[k] ELSE save[s].resp[CHOOSE i \in at : TRUE]) \in Int
  <2>1. CASE at = {}
    BY <1>1, <2>1
  <2>2. CASE at # {}
    <3>1. (CHOOSE i \in at : TRUE) \in at
      BY <2>2
    <3> QED BY <1>3, <1>4, <1>5, <2>2, <3>1
  <2> QED BY <2>1, <2>2
<1>6. Renamed(s) \in [1..MaxNew -> Int]
  BY <1>5 DEF Renamed
<1> QED BY <1>1, <1>3, <1>6

LEMMA NamesType ==
  ASSUME cur \in Seq(Section), NEW nm \in [1..MaxNew -> Int]
  PROVE  /\ NamesSent(nm) \in Seq(Int)
         /\ loaded => /\ DOMAIN NamesSent(nm) = DOMAIN cur
                      /\ \A i \in DOMAIN cur :
                           NamesSent(nm)[i] = IF cur[i].id < 0 THEN nm[-cur[i].id] ELSE cur[i].id
<1> DEFINE known == IF loaded THEN cur ELSE <<>>
<1>1. known \in Seq(Section)
  OBVIOUS
<1>2. loaded => known = cur
  OBVIOUS
<1>3. NamesSent(nm) = [i \in DOMAIN known |-> IF known[i].id < 0 THEN nm[-known[i].id] ELSE known[i].id]
  BY DEF NamesSent
<1> HIDE DEF known
<1>4. DOMAIN known = 1..Len(known) /\ Len(known) \in Nat /\ \A i \in 1..Len(known) : known[i] \in Section
  BY <1>1, ToSetOf
<1>5. \A e \in Section : (IF e.id < 0 THEN nm[-e.id] ELSE e.id) \in Int
  BY Numbers DEF Section
<1>6. NamesSent(nm) \in Seq(Int)
  BY <1>3, <1>4, <1>5
<1> QED BY <1>2, <1>3, <1>6

\* All calls are answered and the order is sent.
LEMMA Ordering ==
  ASSUME save \in [Savers -> SaveType], NEW s \in Savers, NEW names \in Seq(Int),
         save' = [save EXCEPT ![s].pc = "order", ![s].resp = <<>>,
                    ![s].todo = <<[op |-> "order", section |-> <<>>, order |-> names]>>]
  PROVE  /\ save' \in [Savers -> SaveType]
         /\ \A o \in Savers \ {s} : save'[o] = save[o]
         /\ save'[s].pc = "order" /\ save'[s].goal = save[s].goal
         /\ save'[s].reload = save[s].reload /\ save'[s].resp = <<>>
         /\ save'[s].clean = save[s].clean /\ save'[s].mixed = save[s].mixed
         /\ save'[s].todo = <<[op |-> "order", section |-> <<>>, order |-> names]>>
<1> DEFINE call == [op |-> "order", section |-> <<>>, order |-> names]
           todo == <<call>>
           r == [save[s] EXCEPT !.pc = "order", !.resp = <<>>, !.todo = todo]
<1>1. todo \in Seq(CallType) /\ <<>> \in Seq(Int)
  BY DEF CallType
<1>2. save' = [save EXCEPT ![s] = r] /\ save[s] \in SaveType
  OBVIOUS
<1> HIDE DEF todo
<1>3. r \in SaveType
  BY <1>1, <1>2 DEF SaveType
<1>4. r.pc = "order" /\ r.goal = save[s].goal /\ r.reload = save[s].reload /\ r.resp = <<>>
      /\ r.todo = todo /\ r.clean = save[s].clean /\ r.mixed = save[s].mixed
  BY <1>2 DEF SaveType
<1> HIDE DEF r
<1>5. /\ save' \in [Savers -> SaveType] /\ save'[s] = r
      /\ \A o \in Savers \ {s} : save'[o] = save[o]
  BY <1>2, <1>3, Recorded
<1> QED BY <1>4, <1>5 DEF todo

\* The configuration is loaded.
LEMMA Loading ==
  ASSUME save \in [Savers -> SaveType], NEW s \in Savers, LoadDone(s)
  PROVE  /\ save' \in [Savers -> SaveType]
         /\ \A o \in Savers \ {s} : save'[o] = save[o]
         /\ save'[s].pc = "saved" /\ save'[s].goal = save[s].goal
         /\ save'[s].reload = save[s].reload /\ save'[s].clean = save[s].clean
         /\ save'[s].mixed = save[s].mixed
<1> DEFINE r == [save[s] EXCEPT !.pc = "saved", !.resp = <<>>, !.snap = <<>>, !.snew = <<>>]
<1>1. save[s] \in SaveType /\ save' = [save EXCEPT ![s] = r]
  BY DEF LoadDone
<1>2. \A T : <<>> \in Seq(T)
  OBVIOUS
<1>3. r \in SaveType
  BY <1>1, <1>2 DEF SaveType
<1>4. r.pc = "saved" /\ r.goal = save[s].goal /\ r.reload = save[s].reload
      /\ r.clean = save[s].clean /\ r.mixed = save[s].mixed
  BY <1>1 DEF SaveType
<1> HIDE DEF r
<1>5. /\ save' \in [Savers -> SaveType] /\ save'[s] = r
      /\ \A o \in Savers \ {s} : save'[o] = save[o]
  BY <1>1, <1>3, Recorded
<1> QED BY <1>4, <1>5

LEMMA Rejecting ==
  ASSUME save \in [Savers -> SaveType], NEW s \in Savers, Rejected(s)
  PROVE  /\ save' \in [Savers -> SaveType]
         /\ \A o \in Savers \ {s} : save'[o] = save[o]
         /\ save'[s].pc = "failed"
<1> DEFINE r == [Idle EXCEPT !.pc = "failed"]
<1>1. save' = [save EXCEPT ![s] = r]
  BY DEF Rejected
<1>2. r \in SaveType /\ r.pc = "failed"
  BY IdleType DEF SaveType
<1> HIDE DEF r
<1> QED BY <1>1, <1>2, Recorded

\* What the callbacks of save() do leaves the types as they are.
LEMMA ContinueTypes == ASSUME TypeInv, NEW s \in Savers, Continue(s) PROVE TypeInv'
<1>1. /\ TypeOK /\ save \in [Savers -> SaveType] /\ save[s] \in SaveType
      /\ cur \in Seq(Section) /\ base \in Seq(Section) /\ changed \subseteq Int
      /\ loaded \in BOOLEAN /\ touched \in BOOLEAN
  BY DEF TypeInv, TypeOK
<1>2. ASSUME \A o \in Savers \ {s} : save'[o] = save[o], save'[s].pc # "calls"
      PROVE  \A o \in Savers : AddsFit(o)'
  BY <1>2 DEF TypeInv, AddsFit
<1>3. ASSUME Finish(s)
      PROVE  /\ save' \in [Savers -> SaveType] /\ \A o \in Savers : AddsFit(o)'
             /\ loaded' \in BOOLEAN /\ touched' \in BOOLEAN /\ changed' \subseteq Int
  <2>1. save[s].reload \in BOOLEAN
    BY <1>1 DEF SaveType
  <2>2. /\ save' \in [Savers -> SaveType] /\ save'[s].pc # "calls"
        /\ \A o \in Savers \ {s} : save'[o] = save[o]
    BY <1>1, <1>3, <2>1, Finishing
  <2>3. loaded' \in BOOLEAN /\ touched' \in BOOLEAN /\ changed' \subseteq Int
    BY <1>1, <1>3 DEF Finish
  <2> QED BY <1>2, <2>2, <2>3
<1>4. CASE CallsDone(s)
  <2>1. /\ save[s].pc = "calls" /\ save[s].todo = <<>> /\ name' = Renamed(s) /\ reorder' = FALSE
        /\ UNCHANGED <<server, next, base, cur, made, saves, dirty>>
    BY <1>4 DEF CallsDone, Succeeded, Replied
  <2>2. name' \in [1..MaxNew -> Int]
    BY <2>1, RepliesThere
  <2>3. /\ save' \in [Savers -> SaveType] /\ \A o \in Savers : AddsFit(o)'
        /\ loaded' \in BOOLEAN /\ touched' \in BOOLEAN /\ changed' \subseteq Int
    <3>1. CASE reorder /\ NamesSent(name') # <<>>
      <4>1. /\ save' = [save EXCEPT ![s].pc = "order", ![s].resp = <<>>,
                ![s].todo = <<[op |-> "order", section |-> <<>>, order |-> NamesSent(name')]>>]
            /\ UNCHANGED <<loaded, changed, touched>>
        BY <1>4, <3>1 DEF CallsDone
      <4>2. NamesSent(name') \in Seq(Int)
        BY <1>1, <2>2, NamesType
      <4>3. /\ save' \in [Savers -> SaveType] /\ save'[s].pc = "order"
            /\ \A o \in Savers \ {s} : save'[o] = save[o]
        BY <1>1, <4>1, <4>2, Ordering
      <4> QED BY <1>1, <1>2, <4>1, <4>3
    <3>2. CASE ~(reorder /\ NamesSent(name') # <<>>)
      <4>1. Finish(s)
        BY <1>4, <3>2 DEF CallsDone
      <4> QED BY <1>3, <4>1
    <3> QED BY <3>1, <3>2
  <2> QED BY <1>1, <2>1, <2>2, <2>3 DEF TypeInv, TypeOK
<1>5. CASE OrderDone(s)
  <2>1. Finish(s) /\ UNCHANGED <<server, next, base, cur, reorder, name, made, saves, dirty>>
    BY <1>5 DEF OrderDone
  <2> QED BY <1>1, <1>3, <2>1 DEF TypeInv, TypeOK
<1>6. CASE LoadDone(s)
  <2>1. /\ loaded' = TRUE /\ base' = save[s].snap /\ cur' = save[s].snap /\ dirty' = FALSE
        /\ name' = OwnNames
        /\ UNCHANGED <<server, next, changed, touched, reorder, made, saves>>
    BY <1>6 DEF LoadDone
  <2>2. save[s].snap \in Seq(Section)
    BY <1>1 DEF SaveType
  <2>3. OwnNames \in [1..MaxNew -> Int]
    BY Numbers DEF OwnNames
  <2>4. save' \in [Savers -> SaveType] /\ \A o \in Savers : AddsFit(o)'
    BY <1>1, <1>2, <1>6, Loading
  <2> QED BY <1>1, <2>1, <2>2, <2>3, <2>4 DEF TypeInv, TypeOK
<1>7. CASE Rejected(s)
  <2>1. dirty' = TRUE /\ UNCHANGED <<server, next, client, saves>>
    BY <1>7 DEF Rejected
  <2>2. save' \in [Savers -> SaveType] /\ \A o \in Savers : AddsFit(o)'
    BY <1>1, <1>2, <1>7, Rejecting
  <2> QED BY <1>1, <2>1, <2>2 DEF TypeInv, TypeOK, client
<1> QED BY <1>4, <1>5, <1>6, <1>7 DEF Continue

LEMMA ReopenTypes == TypeInv /\ Reopen => TypeInv'
<1> SUFFICES ASSUME TypeInv, Reopen PROVE TypeInv'
  OBVIOUS
<1>1. TypeOK /\ server \in Seq(ServerType)
  BY DEF TypeInv, TypeOK, ServerType
<1>2. /\ base' = Shown(server) /\ cur' = base' /\ save' = [s \in Savers |-> Idle]
      /\ loaded' = TRUE /\ reorder' = FALSE /\ dirty' = FALSE /\ changed' = {}
      /\ touched' = FALSE /\ name' = OwnNames /\ UNCHANGED <<server, next, made, saves>>
  BY DEF Reopen, Shown
<1>3. Shown(server) \in Seq(Section)
  BY <1>1, ShownType
<1>4. OwnNames \in [1..MaxNew -> Int]
  BY Numbers DEF OwnNames
<1>5. save' \in [Savers -> SaveType] /\ \A s \in Savers : AddsFit(s)'
  BY <1>2, IdleType DEF AddsFit, Idle
<1> QED BY <1>1, <1>2, <1>3, <1>4, <1>5 DEF TypeInv, TypeOK

LEMMA NextTypes == TypeInv /\ [Next]_vars => TypeInv'
<1> SUFFICES ASSUME TypeInv, [Next]_vars PROVE TypeInv'
  OBVIOUS
<1>1. CASE Add \/ RemoveSection \/ Set \/ Move
  BY <1>1, EditsKeepTypes
<1>2. CASE Reopen
  BY <1>2, ReopenTypes
<1>3. ASSUME NEW s \in Savers, Save(s) \/ Serve(s) \/ Continue(s)
      PROVE  TypeInv'
  BY <1>3, SaveKeepsTypes, ServeTypes, ContinueTypes
<1>4. CASE UNCHANGED vars
  BY <1>4 DEF TypeInv, TypeOK, AddsFit, vars, client
<1> QED BY <1>1, <1>2, <1>3, <1>4 DEF Next

LEMMA TypesHold == Spec => []TypeInv
<1>1. Init => TypeInv
  BY InitTypes
<1>2. TypeInv /\ [Next]_vars => TypeInv'
  BY NextTypes
<1> QED BY <1>1, <1>2, PTL DEF Spec

\* Every variable keeps its type, however many callers save at once: each
\* section sent is one that was shown, and each name a reply or an index.
THEOREM TypeCorrect == Spec => []TypeOK
<1>1. TypeInv => TypeOK
  BY DEF TypeInv
<1> QED BY <1>1, TypesHold, PTL

-----------------------------------------------------------------------------
(* What is shown after a save *)

\* one caller of save() at a time
OneSaver == \E s : Savers = {s}

\* Without an entry of its own a configuration is shown as it was loaded.
Untouched ==
  loaded => /\ \A g \in ToSet(base) : g.id >= 0
            /\ ~touched => changed = {} /\ ToSet(cur) = ToSet(base)

\* A save that does not reload has nothing to send; what is loaded is read
\* after everything sent.
Quiet(s) ==
  /\ save[s].pc = "calls" /\ ~save[s].reload => save[s].todo = <<>> /\ ~reorder
  /\ save[s].pc = "order" => save[s].reload
  /\ save[s].pc = "load" =>
       /\ changed = {} /\ \A c \in ToSet(save[s].todo) : c.op = "load"
       /\ save[s].todo = <<>> /\ Failed \notin ToSet(save[s].resp) => save[s].snap = Shown(server)

\* is the server as it was loaded, as far as this save goes?
Settled(s) == save[s].pc \notin {"order", "load"} /\ (save[s].pc = "calls" => ~save[s].reload)

InStep == loaded /\ ~dirty /\ (\A s \in Savers : Settled(s)) => base = Shown(server)

SyncInv == TypeInv /\ Untouched /\ (\A s \in Savers : Quiet(s)) /\ InStep

LEMMA NoElements ==
  ASSUME NEW T, NEW q \in Seq(T)
  PROVE  (ToSet(q) = {} <=> q = <<>>)
<1>1. q # <<>> => ToSet(q) # {}
  BY FirstAndRest
<1>2. ToSet(<<>>) = {}
  BY DEF ToSet
<1> QED BY <1>1, <1>2

LEMMA InitSync == Init => SyncInv
<1> SUFFICES ASSUME Init PROVE SyncInv
  OBVIOUS
<1>1. PICK v \in Vals : /\ server = [i \in 1..Initial |-> [id |-> i, of |-> i, val |-> v]]
                       /\ base = [i \in 1..Initial |-> [id |-> i, val |-> v]]
  BY DEF Init
<1>2. base = Shown(server)
  BY <1>1 DEF Shown
<1>3. \A g \in ToSet(base) : g.id >= 0
  BY <1>1 DEF ToSet
<1>4. \A s \in Savers : save[s].pc = "idle"
  BY DEF Init, Idle
<1>5. cur = base /\ changed = {}
  BY DEF Init
<1> QED BY <1>2, <1>3, <1>4, <1>5, InitTypes DEF SyncInv, Untouched, Quiet, InStep

LEMMA NobodySaves == \A s \in Savers : save'[s] = Idle => Quiet(s)' /\ Settled(s)'
BY DEF Quiet, Settled, Idle

LEMMA Moving ==
  ASSUME TypeOK, NEW i \in DOMAIN cur, NEW j \in DOMAIN cur
  PROVE  LET q == InsertAt(RemoveAt(cur, i), j, cur[i])
         IN  /\ q \in Seq(Section) /\ ToSet(q) = ToSet(cur) /\ (Distinct(cur) => Distinct(q))
<1> DEFINE r == RemoveAt(cur, i)
           q == InsertAt(r, j, cur[i])
           n == Len(cur)
           rest == [k \in 1..(n - 1) |-> IF k < i THEN k ELSE k + 1]
           from == [k \in 1..n |-> IF k < j THEN rest[k] ELSE IF k = j THEN i ELSE rest[k - 1]]
           place == [k \in 1..n |-> LET p == IF k < i THEN k ELSE k - 1
                                   IN  IF k = i THEN j ELSE IF p < j THEN p ELSE p + 1]
<1>1. /\ cur \in Seq(Section) /\ DOMAIN cur = 1..n /\ n \in Nat /\ cur[i] \in Section
      /\ i \in 1..n /\ j \in 1..n
  BY ToSetOf DEF TypeOK
<1>2. /\ r \in Seq(Section) /\ Len(r) = n - 1
      /\ \A k \in 1..(n - 1) : r[k] = IF k < i THEN cur[k] ELSE cur[k + 1]
  BY <1>1, Removing
<1>3. j \in 1..(Len(r) + 1)
  BY <1>1, <1>2
<1>4. /\ q \in Seq(Section) /\ Len(q) = Len(r) + 1
      /\ \A k \in 1..Len(r) : k < j => q[k] = r[k]
      /\ q[j] = cur[i]
      /\ \A k \in 1..Len(r) : k >= j => q[k + 1] = r[k]
  <2> DEFINE x == cur[i]
             s == InsertAt(r, j, x)
  <2>1. r \in Seq(Section) /\ x \in Section
    BY <1>1, <1>2
  <2> HIDE DEF r, x
  <2>2. s \in Seq(Section) /\ Len(s) = Len(r) + 1 /\ s[j] = x
    BY <1>3, <2>1, Inserting
  <2>3. \A k \in 1..Len(r) : k < j => s[k] = r[k]
    BY <1>3, <2>1, Inserting
  <2>4. \A k \in 1..Len(r) : k >= j => s[k + 1] = r[k]
    BY <1>3, <2>1, Inserting
  <2> QED BY <2>2, <2>3, <2>4 DEF x
<1> HIDE DEF r, n
<1>5. Len(r) + 1 = n
  BY <1>1, <1>2
<1>6. DOMAIN q = 1..n
  BY <1>4, <1>5, ToSetOf
<1> HIDE DEF q
<1>7. ASSUME NEW k \in 1..n PROVE q[k] = cur[from[k]] /\ from[k] \in 1..n
  <2>1. \A m \in 1..(n - 1) : r[m] = cur[rest[m]] /\ rest[m] \in 1..n
    BY <1>1, <1>2
  <2> HIDE DEF rest
  <2>2. /\ k < j => q[k] = r[k]
        /\ k = j => q[k] = cur[i]
        /\ k > j => q[k] = r[k - 1]
    <3>1. k > j => k - 1 \in 1..Len(r) /\ k - 1 >= j /\ (k - 1) + 1 = k
      BY <1>1, <1>5
    <3> QED BY <1>1, <1>4, <1>5, <3>1
  <2>3. CASE k < j
    <3>1. k \in 1..(n - 1) /\ from[k] = rest[k] /\ q[k] = r[k]
      BY <1>1, <2>2, <2>3
    <3> QED BY <2>1, <3>1
  <2>4. CASE k = j
    BY <1>1, <2>2, <2>4
  <2>5. CASE k > j
    <3>1. k - 1 \in 1..(n - 1) /\ from[k] = rest[k - 1] /\ q[k] = r[k - 1]
      BY <1>1, <2>2, <2>5
    <3> QED BY <2>1, <3>1
  <2> QED BY <1>1, <2>3, <2>4, <2>5
<1>8. ASSUME NEW k \in 1..n PROVE place[k] \in 1..n /\ from[place[k]] = k
  BY <1>1
<1>9. ASSUME NEW k \in 1..n PROVE place[from[k]] = k
  BY <1>1
<1> HIDE DEF from, place
<1>10. ToSet(q) = ToSet(cur)
  <2>1. \A k \in 1..n : q[k] \in ToSet(cur)
    BY <1>1, <1>7 DEF ToSet
  <2>2. \A k \in 1..n : cur[k] = q[place[k]]
    BY <1>7, <1>8
  <2>3. \A k \in 1..n : cur[k] \in ToSet(q)
    BY <1>6, <1>8, <2>2 DEF ToSet
  <2>4. ToSet(cur) = {cur[k] : k \in 1..n} /\ ToSet(q) = {q[k] : k \in 1..n}
    BY <1>1, <1>6 DEF ToSet
  <2> QED BY <2>1, <2>3, <2>4
<1>11. Distinct(cur) => Distinct(q)
  <2> SUFFICES ASSUME Distinct(cur), NEW k \in 1..n, NEW m \in 1..n, q[k].id = q[m].id
               PROVE  k = m
    BY <1>6 DEF Distinct
  <2>1. from[k] = from[m]
    BY <1>1, <1>7 DEF Distinct
  <2> QED BY <1>9, <2>1
<1> QED BY <1>4, <1>10, <1>11 DEF q, r

LEMMA EditsSync == OneSaver /\ SyncInv /\ (Add \/ RemoveSection \/ Set \/ Move) => SyncInv'
<1> SUFFICES ASSUME SyncInv, Add \/ RemoveSection \/ Set \/ Move
             PROVE  SyncInv'
  OBVIOUS
<1>1. PICK sections : Edited(sections)
  BY DEF Add, RemoveSection, Set, Move
<1>2. /\ loaded /\ Busy = {} /\ save' = [s \in Savers |-> Idle]
      /\ UNCHANGED <<server, next, loaded, base, name, saves, dirty>>
  BY <1>1 DEF Edited
<1>3. \A s \in Savers : Settled(s) /\ Quiet(s)'
  BY <1>2, NobodySaves DEF Busy, Settled
<1>4. InStep'
  BY <1>2, <1>3 DEF SyncInv, InStep, Shown
<1>5. TypeInv'
  BY EditsKeepTypes DEF SyncInv
<1>6. touched' = TRUE \/ (UNCHANGED <<touched, changed>> /\ ToSet(cur') = ToSet(cur))
  <2>1. CASE Move
    <3>1. PICK i \in DOMAIN cur, j \in DOMAIN cur : Edited(InsertAt(RemoveAt(cur, i), j, cur[i]))
      BY <2>1 DEF Move
    <3>2. ToSet(cur') = ToSet(cur)
      BY <3>1, Moving DEF SyncInv, TypeInv, Edited
    <3> QED BY <2>1, <3>2 DEF Move
  <2> QED BY <2>1 DEF Add, RemoveSection, Set
<1>7. Untouched'
  BY <1>2, <1>6 DEF SyncInv, Untouched
<1> QED BY <1>3, <1>4, <1>5, <1>7 DEF SyncInv

LEMMA SaveSync == ASSUME OneSaver, SyncInv, NEW s \in Savers, Save(s) PROVE SyncInv'
<1>1. /\ loaded /\ s \notin Busy
      /\ save' = [save EXCEPT ![s] = Started]
      /\ UNCHANGED <<server, next, loaded, base, cur, changed, touched, reorder, name, made, dirty>>
  BY Saving
<1>2. Savers = {s} /\ TypeInv /\ TypeOK /\ save \in [Savers -> SaveType]
  BY DEF OneSaver, SyncInv, TypeInv, TypeOK
<1>3. save'[s] = Started /\ Settled(s)
  BY <1>1, <1>2 DEF Busy, Settled
<1>4. ASSUME ~Started.reload PROVE Started.todo = <<>> /\ ~reorder
  <2>1. ~touched /\ ~reorder
    BY <1>2, <1>4 DEF Started, TypeOK
  <2>2. changed = {} /\ ToSet(cur) = ToSet(base) /\ \A g \in ToSet(base) : g.id >= 0
    BY <1>1, <2>1 DEF SyncInv, Untouched
  <2>3. Ids(cur) = Ids(base) /\ \A e \in ToSet(base) : e.id \in Ids(base)
    <3>1. /\ Ids(cur) = {e.id : e \in ToSet(cur)} /\ Ids(base) = {e.id : e \in ToSet(base)}
      BY <1>2, ToSetOf DEF TypeOK
    <3> QED BY <2>2, <3>1
  <2>4. ToSet(Deletes) = {} /\ ToSet(Changes) = {} /\ Deletes \in Seq(Section) /\ Changes \in Seq(Section)
    BY <1>2, <2>2, <2>3, Batched
  <2>5. ToSet(CreatesInOrder) = {} /\ CreatesInOrder \in Seq(Section)
    <3>1. \A e \in ToSet(CreatesInOrder) : e.id \in NewType /\ e.id >= 0
      BY <1>2, <2>2, BatchedNew
    <3> QED BY <1>2, <3>1, BatchedNew, Numbers DEF NewType
  <2>6. /\ ToSet(Call("delete", Deletes)) = {} /\ ToSet(Call("add", CreatesInOrder)) = {}
        /\ ToSet(Call("set", Changes)) = {}
    BY <2>4, <2>5, Calling
  <2>7. Batch \in Seq(CallType) /\ ToSet(Batch) = {}
    BY <1>2, <2>6, BatchCalls
  <2> QED BY <2>1, <2>7, NoElements DEF Started
<1>5. Quiet(s)'
  BY <1>1, <1>3, <1>4 DEF Quiet, Started
<1>6. InStep'
  BY <1>1, <1>2, <1>3 DEF SyncInv, InStep, Shown
<1>7. TypeInv'
  BY <1>2, SaveKeepsTypes
<1> QED BY <1>1, <1>2, <1>5, <1>6, <1>7 DEF SyncInv, Untouched

LEMMA ServeSync == ASSUME OneSaver, SyncInv, NEW s \in Savers, Serve(s) PROVE SyncInv'
<1>1. /\ Savers = {s} /\ TypeInv /\ TypeOK /\ save \in [Savers -> SaveType]
      /\ save[s].todo \in Seq(CallType) /\ save[s].resp \in Seq(Int)
      /\ server \in Seq(ServerType)
  BY DEF OneSaver, SyncInv, TypeInv, TypeOK, SaveType, ServerType
<1>2. s \in Busy /\ save[s].todo # <<>> /\ UNCHANGED <<client, dirty>>
  BY DEF Serve, ServeDelete, ServeAdd, ServeSet, ServeOrder, ServeLoad, ServeFailing, Pending
<1>3. NextCall(s) \in ToSet(save[s].todo) /\ ToSet(Tail(save[s].todo)) \subseteq ToSet(save[s].todo)
  BY <1>1, <1>2, FirstAndRest DEF NextCall
<1>4. /\ save'[s].pc = save[s].pc /\ save'[s].reload = save[s].reload
      /\ save'[s].todo = Tail(save[s].todo)
      /\ save[s].pc = "load" => Failed \in ToSet(save'[s].resp) \/ save'[s].snap = Shown(server)'
  <2>1. ASSUME ServeLoad(s)
        PROVE  /\ save'[s].pc = save[s].pc /\ save'[s].reload = save[s].reload
               /\ save'[s].todo = Tail(save[s].todo) /\ save'[s].snap = Shown(server)'
    <3>1. server' = server
      BY <2>1 DEF ServeLoad
    <3> QED BY <1>1, <2>1, <3>1, LoadReply DEF Shown
  <2>2. ASSUME NEW r \in Int, Reply(s, r)
        PROVE  /\ save'[s].pc = save[s].pc /\ save'[s].reload = save[s].reload
               /\ save'[s].todo = Tail(save[s].todo)
               /\ r = Failed => Failed \in ToSet(save'[s].resp)
    <3>1. /\ save'[s].pc = save[s].pc /\ save'[s].reload = save[s].reload
          /\ save'[s].todo = Tail(save[s].todo)
          /\ save'[s].resp \in {Append(save[s].resp, r), Append(save[s].resp, Failed)}
      BY <1>1, <1>2, <2>2, Replying
    <3>2. ASSUME r = Failed PROVE Failed \in ToSet(save'[s].resp)
      <4>1. save'[s].resp = Append(save[s].resp, r)
        BY <3>1, <3>2
      <4>2. ToSet(Append(save[s].resp, r)) = ToSet(save[s].resp) \cup {r}
        BY <1>1, Appending
      <4> QED BY <3>2, <4>1, <4>2
    <3> QED BY <3>1, <3>2
  <2>3. NoName \in Int /\ Failed \in Int /\ next \in Int
    BY <1>1 DEF NoName, Failed, TypeOK
  <2>4. save[s].pc = "load" => NextCall(s).op = "load"
    BY <1>3 DEF SyncInv, Quiet
  <2>5. CASE ServeLoad(s)
    BY <2>1, <2>5
  <2>6. CASE ServeFailing(s)
    BY <2>2, <2>3, <2>6 DEF ServeFailing
  <2>7. CASE ServeAdd(s)
    BY <2>2, <2>3, <2>4, <2>7 DEF ServeAdd, Pending
  <2>8. CASE ServeDelete(s) \/ ServeSet(s) \/ ServeOrder(s)
    BY <2>2, <2>3, <2>4, <2>8 DEF ServeDelete, ServeSet, ServeOrder, Pending
  <2> QED BY <2>5, <2>6, <2>7, <2>8 DEF Serve
<1>5. save[s].pc = "calls" => save[s].reload
  BY <1>2 DEF SyncInv, Quiet
<1>6. Quiet(s)'
  BY <1>2, <1>3, <1>4, <1>5 DEF SyncInv, Quiet, client
<1>7. ~Settled(s)'
  BY <1>2, <1>4, <1>5 DEF Settled, Busy
<1>8. TypeInv'
  BY <1>1, ServeTypes
<1> QED BY <1>1, <1>2, <1>6, <1>7, <1>8 DEF SyncInv, Untouched, InStep, client

LEMMA FinishSync ==
  ASSUME OneSaver, SyncInv, NEW s \in Savers, Finish(s), save[s].pc \in {"calls", "order"},
         UNCHANGED <<server, base, cur, dirty>>
  PROVE  Untouched' /\ Quiet(s)' /\ InStep'
<1>1. /\ Savers = {s} /\ save \in [Savers -> SaveType] /\ save[s].reload \in BOOLEAN
  BY DEF OneSaver, SyncInv, TypeInv, TypeOK, SaveType
<1>2. CASE save[s].reload
  <2> DEFINE load == [op |-> "load", section |-> <<>>, order |-> <<>>]
  <2>1. /\ save'[s].pc = "load" /\ ~loaded' /\ changed' = {}
        /\ Len(save'[s].todo) = 1 /\ save'[s].todo[1] = load
        /\ save' \in [Savers -> SaveType]
    BY <1>1, <1>2, Finishing
  <2>2. save'[s].todo \in Seq(CallType)
    BY <2>1 DEF SaveType
  <2>3. save'[s].todo # <<>> /\ \A c \in ToSet(save'[s].todo) : c.op = "load"
    <3>1. \A i \in 1..1 : i = 1
      OBVIOUS
    <3>2. Len(<<>>) = 0
      OBVIOUS
    <3> QED BY <2>1, <2>2, <3>1, <3>2, ToSetOf
  <2> QED BY <2>1, <2>3 DEF Untouched, Quiet, InStep
<1>3. CASE ~save[s].reload
  <2>1. /\ save'[s].pc = "saved" /\ (loaded' <=> loaded) /\ UNCHANGED <<changed, touched>>
    BY <1>1, <1>3, Finishing
  <2>2. save[s].pc = "calls"
    BY <1>3 DEF SyncInv, Quiet
  <2>3. Settled(s)
    BY <1>3, <2>2 DEF Settled
  <2> QED BY <1>1, <2>1, <2>3 DEF SyncInv, Untouched, Quiet, InStep, Shown
<1> QED BY <1>1, <1>2, <1>3

LEMMA ContinueSync == ASSUME OneSaver, SyncInv, NEW s \in Savers, Continue(s) PROVE SyncInv'
<1>1. /\ Savers = {s} /\ TypeInv /\ TypeOK /\ save \in [Savers -> SaveType]
      /\ save[s] \in SaveType /\ cur \in Seq(Section) /\ server \in Seq(ServerType)
  BY DEF OneSaver, SyncInv, TypeInv, TypeOK, ServerType
<1>2. TypeInv'
  BY <1>1, ContinueTypes
<1>3. Untouched' /\ Quiet(s)' /\ InStep'
  <2>1. CASE CallsDone(s)
    <3>1. /\ save[s].pc = "calls" /\ save[s].todo = <<>> /\ name' = Renamed(s)
          /\ reorder' = FALSE /\ UNCHANGED <<server, base, cur, dirty>>
      BY <2>1 DEF CallsDone, Succeeded, Replied
    <3>2. CASE reorder /\ NamesSent(name') # <<>>
      <4>1. /\ save' = [save EXCEPT ![s].pc = "order", ![s].resp = <<>>,
                ![s].todo = <<[op |-> "order", section |-> <<>>, order |-> NamesSent(name')]>>]
            /\ UNCHANGED <<loaded, changed, touched>>
        BY <2>1, <3>2 DEF CallsDone
      <4>2. NamesSent(name') \in Seq(Int)
        BY <1>1, <3>1, RepliesThere, NamesType
      <4>3. save'[s].pc = "order" /\ save'[s].reload = save[s].reload
        BY <1>1, <4>1, <4>2, Ordering
      <4>4. save[s].reload
        BY <3>1, <3>2 DEF SyncInv, Quiet
      <4> QED BY <1>1, <3>1, <4>1, <4>3, <4>4 DEF SyncInv, Untouched, Quiet, InStep, Settled
    <3>3. CASE ~(reorder /\ NamesSent(name') # <<>>)
      <4>1. Finish(s)
        BY <2>1, <3>3 DEF CallsDone
      <4> QED BY <3>1, <4>1, FinishSync
    <3> QED BY <3>2, <3>3
  <2>2. CASE OrderDone(s)
    BY <2>2, FinishSync DEF OrderDone
  <2>3. CASE LoadDone(s)
    <3>1. /\ save[s].pc = "load" /\ save[s].todo = <<>> /\ Failed \notin ToSet(save[s].resp)
          /\ base' = save[s].snap /\ cur' = save[s].snap /\ UNCHANGED <<server, changed, touched>>
      BY <2>3 DEF LoadDone, Succeeded, Replied
    <3>2. save[s].snap = Shown(server) /\ changed = {}
      BY <3>1 DEF SyncInv, Quiet
    <3>3. \A g \in ToSet(Shown(server)) : g.id >= 0
      <4>1. \A e \in ToSet(server) : e.id >= 0
        BY <1>1, ServerIds
      <4> QED BY <1>1, <4>1, ShownType
    <3>4. save'[s].pc = "saved"
      BY <1>1, <2>3, Loading
    <3> QED BY <3>1, <3>2, <3>3, <3>4 DEF Untouched, Quiet, InStep, Shown
  <2>4. CASE Rejected(s)
    <3>1. save'[s].pc = "failed"
      BY <1>1, <2>4, Rejecting
    <3>2. dirty' = TRUE /\ UNCHANGED client
      BY <2>4 DEF Rejected
    <3> QED BY <3>1, <3>2 DEF SyncInv, Untouched, Quiet, InStep, client
  <2> QED BY <2>1, <2>2, <2>3, <2>4 DEF Continue
<1> QED BY <1>1, <1>2, <1>3 DEF SyncInv

LEMMA ReopenSync == SyncInv /\ Reopen => SyncInv'
<1> SUFFICES ASSUME SyncInv, Reopen PROVE SyncInv'
  OBVIOUS
<1>1. server \in Seq(ServerType)
  BY DEF SyncInv, TypeInv, TypeOK, ServerType
<1>2. /\ base' = Shown(server) /\ cur' = base' /\ save' = [s \in Savers |-> Idle]
      /\ changed' = {} /\ server' = server
  BY DEF Reopen, Shown
<1>3. \A g \in ToSet(Shown(server)) : g.id >= 0
  <2>1. \A e \in ToSet(server) : e.id >= 0
    BY <1>1, ServerIds
  <2> QED BY <1>1, <2>1, ShownType
<1>4. \A s \in Savers : Quiet(s)'
  BY <1>2, NobodySaves
<1>5. Untouched' /\ InStep'
  BY <1>2, <1>3 DEF Untouched, InStep, Shown
<1>6. TypeInv'
  BY ReopenTypes DEF SyncInv
<1> QED BY <1>4, <1>5, <1>6 DEF SyncInv

LEMMA NextSync == ASSUME OneSaver PROVE SyncInv /\ [Next]_vars => SyncInv'
<1> SUFFICES ASSUME SyncInv, [Next]_vars PROVE SyncInv'
  OBVIOUS
<1>1. CASE Add \/ RemoveSection \/ Set \/ Move
  BY <1>1, EditsSync
<1>2. CASE Reopen
  BY <1>2, ReopenSync
<1>3. ASSUME NEW s \in Savers, Save(s) \/ Serve(s) \/ Continue(s)
      PROVE  SyncInv'
  BY <1>3, SaveSync, ServeSync, ContinueSync
<1>4. CASE UNCHANGED vars
  <2>1. TypeInv'
    BY <1>4, NextTypes DEF SyncInv
  <2> QED BY <1>4, <2>1 DEF SyncInv, Untouched, Quiet, InStep, Settled, Shown, vars, client
<1> QED BY <1>1, <1>2, <1>3, <1>4 DEF Next

\* With one caller of save() at a time, what is shown after a save that did
\* not fail, nor one before it, is what the server has.
THEOREM ShownIsTheServer == ASSUME OneSaver PROVE Spec => []Resync
<1>1. Init => SyncInv
  BY InitSync
<1>2. SyncInv /\ [Next]_vars => SyncInv'
  BY NextSync
<1>3. SyncInv => Resync
  BY DEF SyncInv, InStep, Settled, Resync, Shown
<1> QED BY <1>1, <1>2, <1>3, PTL DEF Spec

-----------------------------------------------------------------------------
(* What is on the server after a save *)

\* The names the server gave are those of one section each; who was added
\* knows the section shown it was added for.
ServerNames ==
  /\ Distinct(server) /\ next >= 1
  /\ \A e \in ToSet(server) : /\ e.id >= 1 /\ e.id < next /\ e.of >= -made
                              /\ e.of >= 0 => e.of = e.id

\* A section shown was loaded, or added since.
ShownNames ==
  /\ Distinct(cur)
  /\ \A g \in ToSet(cur) : g.id >= -made /\ (g.id >= 0 => g.id \in Ids(base))
  /\ \A i \in Ids(base) : i >= 1 /\ i < next
  /\ changed \subseteq Ids(base)

\* A loaded section is on the server, as it is shown if it was not changed.
Kept ==
  \A g \in ToSet(cur) : g.id >= 0 =>
    \E e \in ToSet(server) : e.id = g.id /\ (g.id \notin changed => e.val = g.val)

\* What a failed save added for a section shown is not one of those loaded.
Apart ==
  \A e \in ToSet(server) : e.of < 0 /\ e.of \in Ids(cur) => e.id \notin Ids(base)

Stands(g) == \E e \in ToSet(server) : StandsFor(e, g)

\* the calls of a batch that are left: none undoes what another did
BatchFits(s) ==
  \A c \in ToSet(save[s].todo) :
    /\ c.op \in {"delete", "set", "add"}
    /\ c.op = "delete" => c.section.id \in Ids(base) /\ c.section.id \notin Ids(cur)
    /\ c.op = "set" => c.section \in ToSet(cur) /\ c.section.id \in changed
    /\ c.op = "add" => c.section \in ToSet(cur) /\ c.section.id < 0

\* A section shown is on the server or will be, unless a call failed.
Due(s, g) == \E c \in ToSet(save[s].todo) : c.op \in {"add", "set"} /\ c.section = g
Landing(s) ==
  Failed \in ToSet(save[s].resp) \/ \A g \in ToSet(cur) : Stands(g) \/ Due(s, g)

\* Names replied are new ones, and there will be one for each section added.
RepliesAreNew(s) ==
  /\ \A i \in DOMAIN save[s].resp :
       save[s].resp[i] > 0 => save[s].resp[i] < next /\ save[s].resp[i] \notin Ids(base)
  /\ \A i, j \in DOMAIN save[s].resp :
       save[s].resp[i] = save[s].resp[j] /\ save[s].resp[i] > 0 => i = j
  /\ \A g \in ToSet(cur) : g.id < 0 => g.id \in ToSet(save[s].snew)

NamesDiffer(names) == \A i, j \in DOMAIN names : names[i] = names[j] /\ names[i] > 0 => i = j

Underway(s) ==
  /\ save[s].pc \in {"calls", "order"} => loaded /\ save[s].goal = cur
  /\ save[s].pc = "calls" => BatchFits(s) /\ Landing(s) /\ RepliesAreNew(s)
  /\ save[s].pc = "order" =>
       \A c \in ToSet(save[s].todo) : c.op = "order" /\ NamesDiffer(c.order)
  /\ save[s].pc \in {"order", "load", "saved"} => \A g \in ToSet(save[s].goal) : Stands(g)

LandInv ==
  /\ SyncInv /\ ServerNames
  /\ loaded => ShownNames /\ Kept /\ Apart
  /\ \A s \in Savers : Underway(s)

LEMMA IdleIsUnderway == \A s \in Savers : save'[s] = Idle => Underway(s)'
BY DEF Underway, Idle

\* What was just loaded is on the server.
LEMMA LoadedLands ==
  ASSUME server \in Seq(ServerType), ServerNames, cur' = Shown(server), base' = Shown(server),
         changed' = {}, UNCHANGED <<server, next, made>>, made \in Nat
  PROVE  ServerNames' /\ ShownNames' /\ Kept' /\ Apart'
<1> DEFINE new == Shown(server)
<1>1. /\ new \in Seq(Section) /\ DOMAIN new = DOMAIN server
      /\ \A i \in DOMAIN server : new[i] = [id |-> server[i].id, val |-> server[i].val]
      /\ Ids(new) = Ids(server)
      /\ \A g \in ToSet(new) : \E e \in ToSet(server) : e.id = g.id /\ e.val = g.val
  BY ShownType
<1>2. Ids(server) = {e.id : e \in ToSet(server)}
  BY ToSetOf
<1>3. \A e \in ToSet(server) : e.id \in Nat /\ e.id >= 1 /\ e.id < next
  BY ServerIds DEF ServerNames
<1>4. Distinct(new)
  <2>1. \A i \in DOMAIN server : new[i].id = server[i].id
    BY <1>1
  <2> HIDE DEF new
  <2> QED BY <1>1, <2>1 DEF Distinct, ServerNames
<1> HIDE DEF new
<1>5. cur' = new /\ base' = new
  BY DEF new
<1>6. \A g \in ToSet(new) : g.id \in Nat /\ g.id >= 1 /\ g.id \in Ids(new)
  BY <1>1, <1>2, <1>3
<1>7. ShownNames'
  BY <1>1, <1>2, <1>3, <1>4, <1>5, <1>6 DEF ShownNames, Distinct, Ids, ToSet
<1>8. Kept'
  BY <1>1, <1>5 DEF Kept
<1>9. Apart'
  BY <1>1, <1>2, <1>3, <1>5 DEF Apart
<1> QED BY <1>7, <1>8, <1>9 DEF ServerNames, Distinct

LEMMA InitLands == Init => LandInv
<1> SUFFICES ASSUME Init PROVE LandInv
  OBVIOUS
<1>1. PICK v \in Vals : /\ server = [i \in 1..Initial |-> [id |-> i, of |-> i, val |-> v]]
                       /\ base = [i \in 1..Initial |-> [id |-> i, val |-> v]]
  BY DEF Init
<1>2. cur = base /\ changed = {} /\ next = Initial + 1 /\ made = 0
  BY DEF Init
<1>3. ServerNames
  BY <1>1, <1>2, Numbers DEF ServerNames, Distinct, ToSet
<1>4. ShownNames
  BY <1>1, <1>2, Numbers DEF ShownNames, Distinct, ToSet, Ids
<1>5. Kept
  BY <1>1, <1>2 DEF Kept, ToSet
<1>6. Apart
  BY <1>1 DEF Apart, ToSet
<1>7. \A s \in Savers : Underway(s)
  BY DEF Init, Underway, Idle
<1> QED BY <1>3, <1>4, <1>5, <1>6, <1>7, InitSync DEF LandInv

\* Edits: the server and what was loaded stay, nobody saves.
LEMMA EditLands ==
  ASSUME LandInv, NEW sections, Edited(sections), SyncInv', made' \in Nat, made' >= made,
         ShownNames', Kept', Apart'
  PROVE  LandInv'
<1>1. save' = [s \in Savers |-> Idle] /\ UNCHANGED <<server, next>>
  BY DEF Edited
<1>2. \A s \in Savers : Underway(s)'
  BY <1>1, IdleIsUnderway
<1>3. ServerNames'
  <2>1. TypeOK /\ ServerNames
    BY DEF LandInv, SyncInv, TypeInv
  <2>2. server \in Seq(ServerType) /\ made \in Nat
    BY <2>1, Numbers DEF TypeOK, ServerType
  <2>3. \A e \in ToSet(server) : e.of \in Int /\ e.of >= -made
    BY <2>1, <2>2, ServerIds DEF ServerNames
  <2>4. \A e \in ToSet(server) : e.of >= -made'
    BY <2>2, <2>3
  <2> QED BY <1>1, <2>1, <2>4 DEF ServerNames, Distinct
<1> QED BY <1>2, <1>3 DEF LandInv

LEMMA EditsLand == OneSaver /\ LandInv /\ (Add \/ RemoveSection \/ Set \/ Move) => LandInv'
<1> SUFFICES ASSUME OneSaver, LandInv, Add \/ RemoveSection \/ Set \/ Move
             PROVE  LandInv'
  OBVIOUS
<1>1. SyncInv /\ SyncInv' /\ TypeOK
  BY EditsSync DEF LandInv, SyncInv, TypeInv
<1>2. /\ cur \in Seq(Section) /\ base \in Seq(Section) /\ made \in Nat
      /\ server \in Seq(ServerType)
  BY <1>1, Numbers DEF TypeOK, ServerType
<1>3. loaded /\ UNCHANGED <<server, next, base>>
  BY DEF Add, RemoveSection, Set, Move, Edited
<1>4. ServerNames /\ ShownNames /\ Kept /\ Apart
  BY <1>3 DEF LandInv
<1>5. /\ DOMAIN cur = 1..Len(cur) /\ Len(cur) \in Nat /\ Ids(cur) = {g.id : g \in ToSet(cur)}
      /\ \A i \in DOMAIN cur : cur[i] \in ToSet(cur) /\ cur[i] \in Section
      /\ \A g \in ToSet(cur) : g.id \in Int
  BY <1>2, ToSetOf, SectionIds
<1>6. CASE Add
  <2>1. PICK v \in Vals : Edited(Append(cur, [id |-> -(made + 1), val |-> v]))
    BY <1>6 DEF Add
  <2> DEFINE new == [id |-> -(made + 1), val |-> v]
  <2>2. made' = made + 1 /\ changed' = changed /\ cur' = Append(cur, new) /\ made < MaxNew
    BY <1>6, <2>1 DEF Add, Edited
  <2>3. new \in Section /\ new.id = -(made + 1) /\ new.id < 0
    BY <1>2, <2>2, Numbers DEF Section
  <2> HIDE DEF new
  <2>4. /\ cur' \in Seq(Section) /\ Len(cur') = Len(cur) + 1 /\ cur'[Len(cur) + 1] = new
        /\ ToSet(cur') = ToSet(cur) \cup {new} /\ \A i \in 1..Len(cur) : cur'[i] = cur[i]
    BY <1>2, <2>2, <2>3, Appending
  <2>5. DOMAIN cur' = 1..(Len(cur) + 1) /\ Ids(cur') = {g.id : g \in ToSet(cur')}
    BY <2>4, ToSetOf
  <2>6. \A g \in ToSet(cur) : g.id # new.id /\ g.id >= -(made + 1)
    BY <1>2, <1>4, <1>5, <2>3 DEF ShownNames
  <2>7. Distinct(cur')
    <3> SUFFICES ASSUME NEW i \in 1..(Len(cur) + 1), NEW j \in 1..(Len(cur) + 1), cur'[i].id = cur'[j].id
                 PROVE  i = j
      BY <2>5 DEF Distinct
    <3>1. \A k \in 1..(Len(cur) + 1) : k = Len(cur) + 1 \/ k \in 1..Len(cur)
      BY <1>5
    <3> QED BY <1>4, <1>5, <2>4, <2>6, <3>1 DEF ShownNames, Distinct
  <2>8. ShownNames'
    BY <1>2, <1>3, <1>4, <2>2, <2>3, <2>4, <2>6, <2>7 DEF ShownNames
  <2>9. Kept'
    BY <1>3, <1>4, <2>2, <2>3, <2>4 DEF Kept
  <2>10. Apart'
    <3>1. \A e \in ToSet(server) : e.of # new.id
      <4>1. \A e \in ToSet(server) : e.of \in Int /\ e.of >= -made
        BY <1>2, <1>4, ServerIds DEF ServerNames
      <4> QED BY <1>2, <2>3, <4>1
    <3> QED BY <1>3, <1>4, <1>5, <2>4, <2>5, <3>1 DEF Apart
  <2> QED BY <1>1, <1>2, <2>1, <2>2, <2>8, <2>9, <2>10, EditLands
<1>7. CASE RemoveSection
  <2>1. PICK i \in DOMAIN cur : Edited(RemoveAt(cur, i)) /\ changed' = changed \ {cur[i].id}
    BY <1>7 DEF RemoveSection
  <2>2. /\ made' = made /\ cur' = RemoveAt(cur, i)
    BY <1>7, <2>1 DEF RemoveSection, Edited
  <2>3. /\ cur' \in Seq(Section) /\ Len(cur') = Len(cur) - 1
        /\ \A k \in 1..(Len(cur) - 1) : cur'[k] = IF k < i THEN cur[k] ELSE cur[k + 1]
    BY <1>2, <2>2, Removing
  <2>4. DOMAIN cur' = 1..(Len(cur) - 1) /\ Ids(cur') = {g.id : g \in ToSet(cur')}
    BY <2>3, ToSetOf
  <2> DEFINE from == [k \in 1..(Len(cur) - 1) |-> IF k < i THEN k ELSE k + 1]
  <2>5. \A k \in DOMAIN cur' : /\ from[k] \in DOMAIN cur /\ from[k] # i /\ cur'[k] = cur[from[k]]
    BY <1>5, <2>3, <2>4
  <2>6. \A k, m \in DOMAIN cur' : from[k] = from[m] => k = m
    BY <1>5, <2>4
  <2> HIDE DEF from
  <2>7. Distinct(cur')
    BY <1>4, <2>5, <2>6 DEF Distinct, ShownNames
  <2>8. \A g \in ToSet(cur') : g \in ToSet(cur) /\ g.id # cur[i].id
    BY <1>4, <2>5 DEF Distinct, ShownNames, ToSet
  <2>9. ShownNames'
    BY <1>3, <1>4, <2>1, <2>2, <2>7, <2>8 DEF ShownNames
  <2>10. Kept'
    BY <1>3, <1>4, <2>1, <2>8 DEF Kept
  <2>11. Apart'
    BY <1>3, <1>4, <1>5, <2>4, <2>8 DEF Apart
  <2> QED BY <1>1, <1>2, <2>1, <2>2, <2>9, <2>10, <2>11, EditLands
<1>8. CASE Set
  <2>1. PICK i \in DOMAIN cur, v \in Vals :
          /\ Edited([cur EXCEPT ![i].val = v])
          /\ changed' = changed \cup ({cur[i].id} \cap Ids(base))
    BY <1>8 DEF Set
  <2>2. /\ made' = made /\ cur' = [cur EXCEPT ![i] = [cur[i] EXCEPT !.val = v]]
    BY <1>8, <2>1 DEF Set, Edited
  <2>3. [cur[i] EXCEPT !.val = v] \in Section /\ [cur[i] EXCEPT !.val = v].id = cur[i].id
    BY <1>5 DEF Section
  <2> DEFINE x == [cur[i] EXCEPT !.val = v]
  <2> HIDE DEF x
  <2>4. /\ DOMAIN cur' = DOMAIN cur /\ cur'[i] = x /\ x.id = cur[i].id
        /\ \A k \in DOMAIN cur : k # i => cur'[k] = cur[k]
    BY <2>2, <2>3 DEF x
  <2>5. \A k \in DOMAIN cur : cur'[k].id = cur[k].id
    BY <2>4
  <2>6. Distinct(cur') /\ Ids(cur') = Ids(cur)
    BY <1>4, <2>4, <2>5 DEF Distinct, ShownNames, Ids
  <2>7. \A g \in ToSet(cur') : g \in ToSet(cur) \/ (g = x /\ g.id = cur[i].id)
    BY <2>4 DEF ToSet
  <2>8. ShownNames'
    BY <1>3, <1>4, <1>5, <2>1, <2>2, <2>6, <2>7 DEF ShownNames
  <2>9. Kept'
    <3> SUFFICES ASSUME NEW g \in ToSet(cur'), g.id >= 0
                 PROVE  \E e \in ToSet(server) : e.id = g.id /\ (g.id \notin changed' => e.val = g.val)
      BY <1>3 DEF Kept
    <3>1. CASE g \in ToSet(cur)
      BY <1>4, <2>1, <3>1 DEF Kept
    <3>2. CASE g = x /\ g.id = cur[i].id
      <4>1. g.id \in changed'
        BY <1>4, <1>5, <2>1, <3>2 DEF ShownNames
      <4>2. \E e \in ToSet(server) : e.id = cur[i].id
        BY <1>4, <1>5, <3>2 DEF Kept
      <4> QED BY <3>2, <4>1, <4>2
    <3> QED BY <2>7, <3>1, <3>2
  <2>10. Apart'
    BY <1>3, <1>4, <2>6 DEF Apart
  <2> QED BY <1>1, <1>2, <2>1, <2>2, <2>8, <2>9, <2>10, EditLands
<1>9. CASE Move
  <2>1. PICK i \in DOMAIN cur, j \in DOMAIN cur : Edited(InsertAt(RemoveAt(cur, i), j, cur[i]))
    BY <1>9 DEF Move
  <2>2. made' = made /\ changed' = changed /\ cur' = InsertAt(RemoveAt(cur, i), j, cur[i])
    BY <1>9, <2>1 DEF Move, Edited
  <2>3. cur' \in Seq(Section) /\ ToSet(cur') = ToSet(cur) /\ Distinct(cur')
    BY <1>1, <1>4, <2>2, Moving DEF ShownNames
  <2>4. Ids(cur') = Ids(cur)
    BY <1>5, <2>3, ToSetOf
  <2>5. ShownNames' /\ Kept' /\ Apart'
    BY <1>3, <1>4, <2>2, <2>3, <2>4 DEF ShownNames, Kept, Apart
  <2> QED BY <1>1, <1>2, <2>1, <2>2, <2>5, EditLands
<1> QED BY <1>6, <1>7, <1>8, <1>9

LEMMA SameSection ==
  \A x, y \in Section : x.id = y.id /\ x.val = y.val => x = y
BY DEF Section

\* save() makes a batch that puts there what is not there yet.
LEMMA SaveStands == ASSUME OneSaver, LandInv, NEW s \in Savers, Save(s) PROVE LandInv'
<1>1. /\ loaded /\ save' = [save EXCEPT ![s] = Started]
      /\ UNCHANGED <<server, next, loaded, base, cur, changed, name, made>>
  BY Saving
<1>2. /\ Savers = {s} /\ SyncInv /\ TypeOK /\ save \in [Savers -> SaveType]
      /\ cur \in Seq(Section) /\ base \in Seq(Section) /\ made \in Nat
  <2>1. SyncInv /\ TypeOK
    BY DEF LandInv, SyncInv, TypeInv
  <2> QED BY <2>1, Numbers DEF OneSaver, TypeOK
<1>3. save'[s] = Started
  BY <1>1, <1>2
<1>4. ServerNames /\ ShownNames /\ Kept /\ Apart
  BY <1>1 DEF LandInv
<1>5. /\ \A e \in ToSet(cur) : e \in Section /\ e.id \in Int
      /\ Ids(base) = {e.id : e \in ToSet(base)} /\ CreatesInOrder \in Seq(Section)
      /\ \A e \in ToSet(CreatesInOrder) : e \in Section
  BY <1>2, ToSetOf, SectionIds, BatchedNew
<1>6. \A x, y \in ToSet(cur) : x.id = y.id => x = y
  BY <1>2, <1>4, DistinctSame DEF ShownNames
<1>7. \A e \in ToSet(CreatesInOrder) : e \in ToSet(cur) /\ e.id < 0
  <2> SUFFICES ASSUME NEW e \in ToSet(CreatesInOrder) PROVE e \in ToSet(cur) /\ e.id < 0
    OBVIOUS
  <2>1. e.id \in NewType /\ \E g \in ToSet(cur) : e.id = g.id /\ e.val = g.val
    BY <1>2, BatchedNew
  <2>2. e.id < 0
    BY <2>1, Numbers DEF NewType
  <2> QED BY <1>5, <2>1, <2>2, SameSection
<1>8. \A g \in ToSet(cur) : g.id < 0 => g \in ToSet(CreatesInOrder)
  <2> SUFFICES ASSUME NEW g \in ToSet(cur), g.id < 0 PROVE g \in ToSet(CreatesInOrder)
    OBVIOUS
  <2>1. g.id >= -made /\ g.id \in Int
    BY <1>4, <1>5 DEF ShownNames
  <2>2. -made <= g.id
    BY <1>2, <2>1
  <2>3. PICK e \in ToSet(CreatesInOrder) : e.id = g.id
    BY <1>2, <2>2, BatchedNew
  <2> QED BY <1>6, <1>7, <2>3
<1> DEFINE d == Call("delete", Deletes)
           a == Call("add", CreatesInOrder)
           c == Call("set", Changes)
<1>9. /\ ToSet(Batch) = ToSet(d) \cup ToSet(a) \cup ToSet(c)
      /\ \A x \in ToSet(d) : x.op = "delete" /\ x.section \in ToSet(Deletes)
      /\ \A x \in ToSet(a) : x.op = "add" /\ x.section \in ToSet(CreatesInOrder)
      /\ \A x \in ToSet(c) : x.op = "set" /\ x.section \in ToSet(Changes)
      /\ \A e \in ToSet(CreatesInOrder) : \E x \in ToSet(a) : x.op = "add" /\ x.section = e
      /\ \A e \in ToSet(Changes) : \E x \in ToSet(c) : x.op = "set" /\ x.section = e
  BY <1>2, <1>5, Batched, BatchCalls, Calling
<1>10. /\ ToSet(Deletes) = {e \in ToSet(base) : e.id \notin Ids(cur)}
       /\ ToSet(Changes) = {e \in ToSet(cur) : e.id \in changed}
  BY <1>2, Batched
<1> HIDE DEF d, a, c
<1>11. /\ Started.todo = Batch /\ Started.resp = <<>> /\ Started.snew = NewIds
       /\ Started.pc = "calls" /\ Started.goal = cur
  BY DEF Started, NewIds
<1>12. BatchFits(s)'
  BY <1>1, <1>3, <1>5, <1>7, <1>9, <1>10, <1>11 DEF BatchFits
<1>13. Landing(s)'
  <2> SUFFICES ASSUME NEW g \in ToSet(cur)
               PROVE  Stands(g) \/ \E x \in ToSet(Batch) : x.op \in {"add", "set"} /\ x.section = g
    BY <1>1, <1>3, <1>11 DEF Landing, Due, Stands
  <2>1. CASE g.id < 0
    BY <1>8, <1>9, <2>1
  <2>2. CASE ~(g.id < 0) /\ g.id \in changed
    BY <1>9, <1>10, <2>2
  <2>3. CASE ~(g.id < 0) /\ g.id \notin changed
    <3>1. g.id >= 0
      BY <1>5, <2>3
    <3> QED BY <1>4, <2>3, <3>1 DEF Kept, Stands, StandsFor
  <2> QED BY <2>1, <2>2, <2>3
<1>14. RepliesAreNew(s)'
  <2>1. \A g \in ToSet(cur) : g.id < 0 => g.id \in ToSet(NewIds)
    BY <1>2, <1>8, BatchedNew DEF NewIds
  <2> QED BY <1>1, <1>3, <1>11, <2>1 DEF RepliesAreNew
<1>15. Underway(s)'
  BY <1>1, <1>3, <1>11, <1>12, <1>13, <1>14 DEF Underway
<1>16. ServerNames' /\ ShownNames' /\ Kept' /\ Apart'
  BY <1>1, <1>4 DEF ServerNames, ShownNames, Kept, Apart, Distinct
<1> QED BY <1>2, <1>15, <1>16, SaveSync DEF LandInv

\* The same sections, in another order perhaps.
LEMMA SameServer ==
  ASSUME ToSet(server') = ToSet(server), Distinct(server'), UNCHANGED <<client, next>>,
         ServerNames, loaded => ShownNames /\ Kept /\ Apart
  PROVE  /\ ServerNames' /\ (loaded => ShownNames /\ Kept /\ Apart)'
         /\ \A g : Stands(g) => Stands(g)'
<1>1. UNCHANGED <<loaded, base, cur, changed, made, next>>
  BY DEF client
<1>2. ServerNames'
  BY <1>1 DEF ServerNames, Distinct
<1>3. (loaded => ShownNames /\ Kept /\ Apart)'
  BY <1>1 DEF ShownNames, Kept, Apart, Distinct
<1>4. \A g : Stands(g) => Stands(g)'
  BY DEF Stands, StandsFor
<1> QED BY <1>2, <1>3, <1>4

\* A reply is an error, no name, or a name that is new.
LEMMA RepliesStayNew ==
  ASSUME save \in [Savers -> SaveType], NEW s \in Savers, RepliesAreNew(s), next \in Nat,
         \A i \in Ids(base) : i < next, UNCHANGED <<base, cur>>,
         NEW got \in Int, save'[s].resp = Append(save[s].resp, got),
         save'[s].snew = save[s].snew,
         (got <= 0 /\ next' \in {next, next + 1}) \/ (got = next /\ next' = next + 1)
  PROVE  RepliesAreNew(s)'
<1> DEFINE resp == save[s].resp
           r == Append(resp, got)
           n == Len(resp)
<1>1. resp \in Seq(Int) /\ save'[s].resp = r
  BY DEF SaveType
<1> HIDE DEF resp
<1>2. /\ DOMAIN resp = 1..n /\ n \in Nat /\ \A i \in 1..n : resp[i] \in Int
      /\ r \in Seq(Int) /\ Len(r) = n + 1 /\ r[n + 1] = got /\ \A i \in 1..n : r[i] = resp[i]
  BY <1>1, ToSetOf, Appending
<1> HIDE DEF r, n
<1>3. DOMAIN r = 1..(n + 1) /\ \A i \in 1..(n + 1) : i = n + 1 \/ i \in 1..n
  BY <1>2, ToSetOf
<1>4. /\ \A i \in 1..n : resp[i] > 0 => resp[i] < next /\ resp[i] \notin Ids(base)
      /\ \A i, j \in 1..n : resp[i] = resp[j] /\ resp[i] > 0 => i = j
      /\ \A g \in ToSet(cur) : g.id < 0 => g.id \in ToSet(save[s].snew)
  BY <1>2 DEF RepliesAreNew, resp
<1>5. got > 0 => got = next /\ next' = next + 1 /\ got \notin Ids(base)
  <2>1. next < next => FALSE
    OBVIOUS
  <2> QED BY <2>1
<1>6. \A i \in 1..(n + 1) : r[i] > 0 => r[i] < next' /\ r[i] \notin Ids(base)
  <2> SUFFICES ASSUME NEW i \in 1..(n + 1), r[i] > 0 PROVE r[i] < next' /\ r[i] \notin Ids(base)
    OBVIOUS
  <2>1. CASE i = n + 1
    BY <1>2, <1>5, <2>1
  <2>2. CASE i \in 1..n
    BY <1>2, <1>4, <2>2
  <2> QED BY <1>3, <2>1, <2>2
<1>7. ASSUME NEW i \in 1..(n + 1), NEW j \in 1..(n + 1), r[i] = r[j], r[i] > 0 PROVE i = j
  <2>1. CASE i = n + 1 /\ j = n + 1
    BY <2>1
  <2>2. CASE i \in 1..n /\ j \in 1..n
    BY <1>2, <1>4, <1>7, <2>2
  <2>3. CASE i = n + 1 /\ j \in 1..n
    BY <1>2, <1>4, <1>5, <1>7, <2>3
  <2>4. CASE i \in 1..n /\ j = n + 1
    BY <1>2, <1>4, <1>5, <1>7, <2>4
  <2> QED BY <1>3, <2>1, <2>2, <2>3, <2>4
<1> QED BY <1>1, <1>3, <1>4, <1>6, <1>7 DEF RepliesAreNew

\* A call of a batch is answered: the section it was about stands, unless the
\* answer is an error.
LEMMA AnswerLands ==
  ASSUME OneSaver, LandInv, SyncInv', NEW s \in Savers, save[s].pc = "calls",
         save[s].todo # <<>>, NEW r \in Int, Reply(s, r), UNCHANGED client,
         (r <= 0 /\ next' \in {next, next + 1}) \/ (r = next /\ next' = next + 1),
         ServerNames', Kept', Apart', \A g \in ToSet(cur) : Stands(g) => Stands(g)',
         \/ r = Failed
         \/ \A g \in ToSet(cur) :
              NextCall(s).op \in {"add", "set"} /\ NextCall(s).section = g => Stands(g)'
  PROVE  LandInv'
<1>1. /\ Savers = {s} /\ save \in [Savers -> SaveType] /\ save[s].todo \in Seq(CallType)
      /\ save[s].resp \in Seq(Int) /\ next \in Nat /\ base \in Seq(Section)
  BY DEF OneSaver, LandInv, SyncInv, TypeInv, TypeOK, SaveType
<1>2. UNCHANGED <<loaded, base, cur, changed, made>>
  BY DEF client
<1>3. Underway(s) /\ loaded /\ save[s].goal = cur /\ BatchFits(s) /\ Landing(s) /\ RepliesAreNew(s)
  BY DEF LandInv, Underway
<1>4. /\ save'[s].todo = Tail(save[s].todo) /\ save'[s].pc = "calls"
      /\ save'[s].resp \in {Append(save[s].resp, r), Append(save[s].resp, Failed)}
      /\ save'[s].snew = save[s].snew /\ save'[s].goal = save[s].goal
  BY <1>1, Replying
<1>5. ToSet(save[s].todo) = {NextCall(s)} \cup ToSet(Tail(save[s].todo))
  BY <1>1, FirstAndRest DEF NextCall
<1>6. BatchFits(s)'
  BY <1>2, <1>3, <1>4, <1>5 DEF BatchFits
<1>7. Failed \in Int /\ Failed <= 0 /\ next' \in {next, next + 1}
  BY <1>1 DEF Failed
<1>8. PICK got \in {r, Failed} : save'[s].resp = Append(save[s].resp, got)
  BY <1>4
<1>9. ToSet(save'[s].resp) = ToSet(save[s].resp) \cup {got}
  <2>1. got \in Int
    BY <1>7, <1>8
  <2>2. ToSet(Append(save[s].resp, got)) = ToSet(save[s].resp) \cup {got}
    <3>1. save[s].resp \in Seq(Int)
      BY <1>1
    <3> QED BY <2>1, <3>1, Appending
  <2> QED BY <1>8, <2>2
<1>10. Landing(s)'
  <2> SUFFICES ASSUME Failed \notin ToSet(save'[s].resp), NEW g \in ToSet(cur)
               PROVE  Stands(g)' \/ \E c \in ToSet(save'[s].todo) : c.op \in {"add", "set"} /\ c.section = g
    BY <1>2 DEF Landing, Due, Stands
  <2>1. Failed \notin ToSet(save[s].resp) /\ got # Failed /\ r # Failed
    BY <1>8, <1>9
  <2>2. Stands(g) \/ Due(s, g)
    BY <1>3, <2>1 DEF Landing
  <2>3. CASE Stands(g)
    BY <2>3
  <2>4. CASE Due(s, g)
    <3>1. PICK c \in ToSet(save[s].todo) : c.op \in {"add", "set"} /\ c.section = g
      BY <2>4 DEF Due
    <3> QED BY <1>4, <1>5, <2>1, <3>1
  <2> QED BY <2>2, <2>3, <2>4
<1>11. RepliesAreNew(s)'
  <2>1. \A i \in Ids(base) : i < next
    BY <1>3 DEF LandInv, ShownNames
  <2>2. got \in Int /\ ((got <= 0 /\ next' \in {next, next + 1}) \/ (got = next /\ next' = next + 1))
    BY <1>7, <1>8
  <2> QED BY <1>1, <1>2, <1>3, <1>4, <1>8, <2>1, <2>2, RepliesStayNew
<1>12. Underway(s)'
  BY <1>2, <1>3, <1>4, <1>6, <1>10, <1>11 DEF Underway
<1>13. ShownNames'
  <2>1. ShownNames /\ Ids(base) \subseteq Int
    BY <1>1, <1>3, SectionIds DEF LandInv
  <2>2. \A i \in Ids(base) : i < next'
    BY <1>1, <1>7, <2>1 DEF ShownNames
  <2> QED BY <1>2, <2>1, <2>2 DEF ShownNames, Distinct
<1> QED BY <1>1, <1>12, <1>13 DEF LandInv

\* Which calls are answered when.
LEMMA CallOfPhase ==
  ASSUME LandInv, NEW s \in Savers, s \in Busy, save[s].todo # <<>>
  PROVE  /\ save[s].pc = "calls" => NextCall(s).op \in {"delete", "set", "add"}
         /\ save[s].pc = "order" => NextCall(s).op = "order"
         /\ save[s].pc = "load" => NextCall(s).op = "load"
         /\ save[s].pc \in {"calls", "order", "load"}
<1>1. save[s].todo \in Seq(CallType)
  BY DEF LandInv, SyncInv, TypeInv, TypeOK, SaveType
<1>2. NextCall(s) \in ToSet(save[s].todo)
  BY <1>1, FirstAndRest DEF NextCall
<1>3. Underway(s) /\ Quiet(s)
  BY DEF LandInv, SyncInv
<1> QED BY <1>2, <1>3 DEF Underway, Quiet, BatchFits, Busy

LEMMA ServeStands == ASSUME OneSaver, LandInv, NEW s \in Savers, Serve(s) PROVE LandInv'
<1>1. /\ s \in Busy /\ save[s].todo # <<>> /\ UNCHANGED client
  BY DEF Serve, ServeDelete, ServeAdd, ServeSet, ServeOrder, ServeLoad, ServeFailing, Pending
<1>2. SyncInv /\ SyncInv' /\ TypeInv /\ TypeOK
  BY ServeSync DEF LandInv, SyncInv, TypeInv
<1>3. /\ Savers = {s} /\ save \in [Savers -> SaveType] /\ save[s].todo \in Seq(CallType)
      /\ save[s].resp \in Seq(Int) /\ server \in Seq(ServerType) /\ next \in Nat
      /\ made \in Nat /\ cur \in Seq(Section) /\ base \in Seq(Section)
  BY <1>2, Numbers DEF OneSaver, TypeOK, SaveType, ServerType
<1>4. UNCHANGED <<loaded, base, cur, changed, made>>
  BY <1>1 DEF client
<1>5. ServerNames /\ (loaded => ShownNames /\ Kept /\ Apart) /\ Underway(s)
  BY DEF LandInv
<1>6. /\ Failed \in Int /\ NoName \in Int /\ next \in Int /\ Failed <= 0 /\ NoName <= 0
  BY <1>3 DEF Failed, NoName
<1>7. ASSUME save[s].pc # "calls", ToSet(server') = ToSet(server), Distinct(server'), next' = next
      PROVE  LandInv'
  <2>1. save[s].pc \in {"order", "load"}
    BY <1>1, <1>7 DEF Busy
  <2>2. /\ save'[s].todo = Tail(save[s].todo) /\ save'[s].pc = save[s].pc
        /\ save'[s].goal = save[s].goal
    <3>1. CASE ServeLoad(s)
      BY <1>2, <3>1, LoadReply
    <3>2. ASSUME NEW r \in Int, Reply(s, r)
          PROVE  /\ save'[s].todo = Tail(save[s].todo) /\ save'[s].pc = save[s].pc
                 /\ save'[s].goal = save[s].goal
      BY <1>1, <1>3, <3>2, Replying
    <3>3. ServeLoad(s) \/ \E r \in {NoName, Failed, next} : Reply(s, r)
      BY DEF Serve, ServeDelete, ServeAdd, ServeSet, ServeOrder, ServeFailing
    <3> QED BY <1>6, <3>1, <3>2, <3>3
  <2>3. ToSet(Tail(save[s].todo)) \subseteq ToSet(save[s].todo)
    BY <1>1, <1>3, FirstAndRest
  <2>4. /\ ServerNames' /\ (loaded => ShownNames /\ Kept /\ Apart)'
        /\ \A g : Stands(g) => Stands(g)'
    BY <1>1, <1>5, <1>7, SameServer
  <2>5. Underway(s)'
    BY <1>4, <1>5, <2>1, <2>2, <2>3, <2>4 DEF Underway
  <2> QED BY <1>2, <1>3, <2>4, <2>5 DEF LandInv
<1>8. ASSUME save[s].pc = "calls", next' = next, NEW r \in {NoName, Failed}, Reply(s, r),
              ServerNames', Kept', Apart', \A g \in ToSet(cur) : Stands(g) => Stands(g)',
              \/ r = Failed
              \/ \A g \in ToSet(cur) :
                   NextCall(s).op \in {"add", "set"} /\ NextCall(s).section = g => Stands(g)'
       PROVE  LandInv'
  <2>1. r \in Int /\ r <= 0 /\ next' \in {next, next + 1}
    BY <1>6, <1>8
  <2>2. (r <= 0 /\ next' \in {next, next + 1}) \/ (r = next /\ next' = next + 1)
    BY <2>1
  <2>3. SyncInv' /\ save[s].todo # <<>> /\ UNCHANGED client
    BY <1>1, <1>2
  <2> QED BY <1>8, <2>1, <2>2, <2>3, AnswerLands, Zenon
<1>9. CASE ServeDelete(s)
  <2> DEFINE id == NextCall(s).section.id
  <2>1. save[s].pc = "calls" /\ NextCall(s).op = "delete" /\ Reply(s, NoName) /\ next' = next
        /\ server' = Only(server, {e \in ToSet(server) : e.id # id})
    BY <1>1, <1>9, CallOfPhase DEF ServeDelete, Pending
  <2>2. id \in Ids(base) /\ id \notin Ids(cur) /\ loaded
    <3>1. NextCall(s) \in ToSet(save[s].todo)
      BY <1>1, <1>3, FirstAndRest DEF NextCall
    <3> QED BY <1>5, <2>1, <3>1 DEF Underway, BatchFits
  <2> HIDE DEF id
  <2>3. ToSet(server') = {e \in ToSet(server) : e.id # id} /\ server' \in Seq(ServerType)
        /\ (Once(server) => Once(server'))
    <3> DEFINE S == {e \in ToSet(server) : e.id # id}
    <3>1. /\ Only(server, S) \in Seq(ServerType) /\ ToSet(Only(server, S)) = ToSet(server) \cap S
          /\ (Once(server) => Once(Only(server, S)))
      BY <1>3, OnlyKeeps DEF Once
    <3>2. ToSet(server) \cap S = S
      OBVIOUS
    <3> QED BY <2>1, <3>1, <3>2
  <2>4. Distinct(server')
    <3>1. Once(server) /\ Distinct(server)
      BY <1>5 DEF ServerNames, Once, Distinct
    <3> QED BY <1>3, <2>3, <3>1, DistinctPart
  <2>5. ServerNames'
    BY <1>4, <1>5, <2>1, <2>3, <2>4 DEF ServerNames, Distinct
  <2>6. Ids(cur) = {g.id : g \in ToSet(cur)}
    BY <1>3, ToSetOf
  <2>7. Kept'
    BY <1>4, <1>5, <2>2, <2>3, <2>6 DEF Kept
  <2>8. Apart'
    BY <1>4, <1>5, <2>2, <2>3 DEF Apart
  <2>9. ASSUME NEW g \in ToSet(cur), Stands(g) PROVE Stands(g)'
    <3>1. PICK e \in ToSet(server) : StandsFor(e, g)
      BY <2>9 DEF Stands
    <3>2. e.id # id
      <4>1. g.id \in Ids(cur) /\ e.of \in Int
        BY <1>3, <2>6, ServerIds
      <4>2. CASE e.of = g.id /\ e.of < 0
        BY <1>5, <2>2, <4>1, <4>2 DEF Apart
      <4>3. CASE e.of = g.id /\ e.of >= 0
        BY <1>5, <2>2, <4>1, <4>3 DEF ServerNames
      <4>4. CASE e.id = g.id
        BY <2>2, <4>1, <4>4
      <4> QED BY <3>1, <4>1, <4>2, <4>3, <4>4 DEF StandsFor
    <3> QED BY <2>3, <3>1, <3>2 DEF Stands, StandsFor
  <2> QED BY <1>8, <2>1, <2>5, <2>7, <2>8, <2>9
<1>10. CASE ServeAdd(s)
  <2> DEFINE section == NextCall(s).section
             new == [id |-> next, of |-> section.id, val |-> section.val]
  <2>1. save[s].pc = "calls" /\ NextCall(s).op = "add" /\ Reply(s, next) /\ next' = next + 1
        /\ server' = Append(server, new)
    BY <1>1, <1>10, CallOfPhase DEF ServeAdd, Pending
  <2>2. section \in ToSet(cur) /\ section.id < 0 /\ loaded
    <3>1. NextCall(s) \in ToSet(save[s].todo)
      BY <1>1, <1>3, FirstAndRest DEF NextCall
    <3> QED BY <1>5, <2>1, <3>1 DEF Underway, BatchFits
  <2>3. section.id >= -made /\ section.id \in Int /\ section.val \in Vals
    BY <1>3, <1>5, <2>2, SectionIds DEF ShownNames
  <2>4. new \in ServerType /\ new.id = next /\ new.of = section.id /\ new.val = section.val
    BY <1>3, <2>3 DEF ServerType
  <2> HIDE DEF new, section
  <2>5. /\ server' \in Seq(ServerType) /\ Len(server') = Len(server) + 1
        /\ ToSet(server') = ToSet(server) \cup {new}
        /\ server'[Len(server) + 1] = new /\ \A i \in 1..Len(server) : server'[i] = server[i]
    BY <1>3, <2>1, <2>4, Appending
  <2>6. \A e \in ToSet(server) : e.id \in Nat /\ e.id < next /\ e.id # next
    BY <1>3, <1>5, ServerIds DEF ServerNames
  <2>7. Distinct(server')
    <3>1. DOMAIN server = 1..Len(server) /\ DOMAIN server' = 1..(Len(server) + 1) /\ Len(server) \in Nat
          /\ \A i \in 1..Len(server) : server[i] \in ToSet(server)
      BY <1>3, <2>5, ToSetOf
    <3>2. \A k \in 1..(Len(server) + 1) : k = Len(server) + 1 \/ k \in 1..Len(server)
      BY <3>1
    <3> SUFFICES ASSUME NEW i \in 1..(Len(server) + 1), NEW j \in 1..(Len(server) + 1),
                        server'[i].id = server'[j].id
                 PROVE  i = j
      BY <3>1 DEF Distinct
    <3> QED BY <1>5, <2>4, <2>5, <2>6, <3>1, <3>2 DEF ServerNames, Distinct
  <2>8. ServerNames'
    <3>1. next >= 1 /\ next < next' /\ next' >= 1
      BY <1>3, <1>5, <2>1 DEF ServerNames
    <3>2. \A e \in ToSet(server) : e.id < next'
      BY <1>3, <2>1, <2>6
    <3> QED BY <1>3, <1>4, <1>5, <2>1, <2>2, <2>3, <2>4, <2>5, <2>7, <3>1, <3>2 DEF ServerNames
  <2>9. Kept'
    BY <1>4, <1>5, <2>2, <2>5 DEF Kept
  <2>10. next \notin Ids(base)
    BY <1>3, <1>5, <2>2 DEF ShownNames
  <2>11. Apart'
    BY <1>4, <1>5, <2>2, <2>4, <2>5, <2>10 DEF Apart
  <2>12. \A g \in ToSet(cur) : Stands(g) => Stands(g)'
    BY <2>5 DEF Stands, StandsFor
  <2>13. \A g \in ToSet(cur) : NextCall(s).section = g => Stands(g)'
    BY <2>4, <2>5 DEF Stands, StandsFor, section
  <2> QED BY <1>1, <1>2, <1>6, <2>1, <2>8, <2>9, <2>11, <2>12, <2>13, AnswerLands
<1>11. CASE ServeSet(s)
  <2> DEFINE id == NextCall(s).section.id
             val == NextCall(s).section.val
             set(e) == IF e.id = id THEN [e EXCEPT !.val = val] ELSE e
  <2>1. save[s].pc = "calls" /\ NextCall(s).op = "set" /\ Reply(s, NoName) /\ next' = next
        /\ server' = [i \in DOMAIN server |-> set(server[i])]
    BY <1>1, <1>11, CallOfPhase DEF ServeSet, Pending
  <2>2. NextCall(s).section \in ToSet(cur) /\ id \in changed /\ id \in Ids(base) /\ loaded
        /\ id \in Ids(server)
    <3>1. NextCall(s) \in ToSet(save[s].todo)
      BY <1>1, <1>3, FirstAndRest DEF NextCall
    <3>2. NextCall(s).section \in ToSet(cur) /\ id \in changed /\ loaded
      BY <1>5, <2>1, <3>1 DEF Underway, BatchFits
    <3> QED BY <1>5, <1>11, <3>2 DEF ShownNames, ServeSet
  <2>3. \A g \in ToSet(cur) : g.id = id => g = NextCall(s).section
    BY <1>3, <1>5, <2>2, DistinctSame DEF ShownNames
  <2>4. \A e \in ServerType : /\ set(e).id = e.id /\ set(e).of = e.of
                              /\ e.id = id => set(e).val = val
                              /\ e.id # id => set(e) = e
    BY DEF ServerType
  <2>5. /\ \A e \in ToSet(server) : e \in ServerType /\ e.id \in Int
        /\ \A i \in DOMAIN server : server[i] \in ServerType
        /\ Ids(server) = {e.id : e \in ToSet(server)}
    BY <1>3, ToSetOf, ServerIds
  <2> HIDE DEF id, val, set
  <2>6. ToSet(server') = {set(e) : e \in ToSet(server)}
    BY <2>1 DEF ToSet
  <2>7. Distinct(server')
    BY <1>5, <2>1, <2>4, <2>5 DEF ServerNames, Distinct
  <2>8. ServerNames'
    BY <1>4, <1>5, <2>1, <2>4, <2>5, <2>6, <2>7 DEF ServerNames
  <2>9. Kept'
    <3> SUFFICES ASSUME NEW g \in ToSet(cur), g.id >= 0
                 PROVE  \E e \in ToSet(server') : e.id = g.id /\ (g.id \notin changed => e.val = g.val)
      BY <1>4 DEF Kept
    <3>1. PICK e \in ToSet(server) : e.id = g.id /\ (g.id \notin changed => e.val = g.val)
      BY <1>5, <2>2 DEF Kept
    <3>2. set(e).id = g.id /\ (g.id \notin changed => set(e).val = g.val)
      BY <2>2, <2>4, <2>5, <3>1
    <3> QED BY <2>6, <3>2
  <2>10. Apart'
    BY <1>4, <1>5, <2>2, <2>4, <2>5, <2>6 DEF Apart
  <2>11. ASSUME NEW g \in ToSet(cur), Stands(g) PROVE Stands(g)'
    <3>1. PICK e \in ToSet(server) : StandsFor(e, g)
      BY <2>11 DEF Stands
    <3>2. CASE e.id # id
      BY <2>4, <2>5, <2>6, <3>1, <3>2 DEF Stands, StandsFor
    <3>3. CASE e.id = id
      <4>1. e.of = g.id => e.of = e.id
        <5>1. e.of \in Int /\ Ids(cur) = {h.id : h \in ToSet(cur)}
          BY <1>3, ServerIds, ToSetOf
        <5> QED BY <1>5, <2>2, <3>3, <5>1 DEF Apart, ServerNames
      <4>2. g.id = id
        BY <3>1, <3>3, <4>1 DEF StandsFor
      <4>3. g.val = val
        BY <2>3, <4>2 DEF val
      <4>4. StandsFor(set(e), g)
        BY <2>4, <2>5, <3>3, <4>2, <4>3 DEF StandsFor
      <4> QED BY <2>6, <4>4 DEF Stands
    <3> QED BY <3>2, <3>3
  <2>12. \A g \in ToSet(cur) : NextCall(s).section = g => Stands(g)'
    <3> SUFFICES ASSUME NEW g \in ToSet(cur), NextCall(s).section = g PROVE Stands(g)'
      OBVIOUS
    <3>1. PICK e \in ToSet(server) : e.id = id
      BY <2>2, <2>5
    <3>2. StandsFor(set(e), g)
      BY <2>4, <2>5, <3>1 DEF StandsFor, id, val
    <3> QED BY <2>6, <3>2 DEF Stands
  <2> QED BY <1>8, <2>1, <2>8, <2>9, <2>10, <2>11, <2>12
<1>12. CASE ServeOrder(s)
  <2> DEFINE names == NextCall(s).order
  <2>1. save[s].pc = "order" /\ server' = Reordered(names) /\ next' = next
    BY <1>1, <1>12, CallOfPhase DEF ServeOrder, Pending
  <2>2. names \in Seq(Int)
    BY <1>2, <1>12, PendingCall DEF ServeOrder
  <2>3. NamesDiffer(names)
    <3>1. NextCall(s) \in ToSet(save[s].todo)
      BY <1>1, <1>3, FirstAndRest DEF NextCall
    <3> QED BY <1>5, <2>1, <3>1 DEF Underway
  <2> HIDE DEF names
  <2>4. \A i \in Ids(server) : i > 0
    <3>1. Ids(server) = {e.id : e \in ToSet(server)} /\ \A e \in ToSet(server) : e.id \in Nat
      BY <1>3, ToSetOf, ServerIds
    <3> QED BY <1>5, <3>1 DEF ServerNames
  <2>5. \A i, j \in DOMAIN names : names[i] = names[j] /\ names[i] \in Ids(server) => i = j
    BY <2>3, <2>4 DEF NamesDiffer
  <2>6. ToSet(server') = ToSet(server) /\ Distinct(server')
    <3>1. Distinct(server)
      BY <1>5 DEF ServerNames
    <3>2. ToSet(Reordered(names)) = ToSet(server) /\ Distinct(Reordered(names))
      BY <1>3, <2>2, <2>5, <3>1, Reordering
    <3> QED BY <2>1, <3>2 DEF Distinct
  <2> QED BY <1>7, <2>1, <2>6
<1>13. CASE ServeLoad(s)
  <2>1. save[s].pc = "load" /\ server' = server /\ next' = next
    BY <1>1, <1>13, CallOfPhase DEF ServeLoad, Pending
  <2> QED BY <1>5, <1>7, <2>1 DEF ServerNames, Distinct
<1>14. CASE ServeFailing(s)
  <2>1. Reply(s, Failed) /\ server' = server /\ next' = next
    BY <1>14 DEF ServeFailing
  <2>2. CASE save[s].pc # "calls"
    BY <1>5, <1>7, <2>1, <2>2 DEF ServerNames, Distinct
  <2>3. CASE save[s].pc = "calls"
    <3>1. loaded
      BY <1>5, <2>3 DEF Underway
    <3>2. ServerNames' /\ Kept' /\ Apart' /\ \A g \in ToSet(cur) : Stands(g) => Stands(g)'
      BY <1>4, <1>5, <2>1, <3>1 DEF ServerNames, Kept, Apart, Distinct, Stands
    <3> QED BY <1>8, <2>1, <2>3, <3>2
  <2> QED BY <2>2, <2>3
<1> QED BY <1>9, <1>10, <1>11, <1>12, <1>13, <1>14 DEF Serve

\* The names sent are those loaded and those replied.
LEMMA NamesAre ==
  ASSUME LandInv, NEW s \in Savers, save[s].pc = "calls", save[s].todo = <<>>
  PROVE  LET names == NamesSent(Renamed(s))
         IN  /\ names \in Seq(Int) /\ DOMAIN names = DOMAIN cur
             /\ DOMAIN save[s].snew \subseteq DOMAIN save[s].resp
             /\ \A i \in DOMAIN cur : cur[i].id < 0 =>
                  \E k \in DOMAIN save[s].snew :
                    save[s].snew[k] = cur[i].id /\ names[i] = save[s].resp[k]
             /\ \A i \in DOMAIN cur : ~(cur[i].id < 0) => names[i] = cur[i].id
<1> DEFINE nm == Renamed(s)
           snew == save[s].snew
           resp == save[s].resp
<1>1. TypeInv /\ TypeOK /\ cur \in Seq(Section)
  BY DEF LandInv, SyncInv, TypeInv, TypeOK
<1>2. loaded /\ RepliesAreNew(s)
  BY DEF LandInv, Underway
<1>3. DOMAIN snew \subseteq DOMAIN resp /\ nm \in [1..MaxNew -> Int]
  BY <1>1, RepliesThere
<1>4. /\ NamesSent(nm) \in Seq(Int) /\ DOMAIN NamesSent(nm) = DOMAIN cur
      /\ \A i \in DOMAIN cur :
           NamesSent(nm)[i] = IF cur[i].id < 0 THEN nm[-cur[i].id] ELSE cur[i].id
  BY <1>1, <1>2, <1>3, NamesType
<1>5. \A i \in DOMAIN cur : cur[i] \in ToSet(cur) /\ cur[i].id \in Int /\ -cur[i].id <= MaxNew
  <2>1. \A i \in DOMAIN cur : cur[i] \in ToSet(cur)
    BY <1>1, ToSetOf
  <2> QED BY <1>1, <2>1, SectionIds
<1>6. ASSUME NEW i \in DOMAIN cur, cur[i].id < 0
      PROVE  \E k \in DOMAIN snew : snew[k] = cur[i].id /\ NamesSent(nm)[i] = resp[k]
  <2> DEFINE id == cur[i].id
             at == {k \in DOMAIN snew : snew[k] = -(-id)}
  <2>1. id \in ToSet(snew) /\ id = -(-id) /\ -id \in 1..MaxNew
    BY <1>2, <1>5, <1>6, Numbers DEF RepliesAreNew
  <2>2. at # {}
    BY <2>1 DEF ToSet
  <2>3. nm[-id] = resp[CHOOSE k \in at : TRUE]
    BY <2>1, <2>2 DEF Renamed
  <2>4. (CHOOSE k \in at : TRUE) \in at
    BY <2>2
  <2>5. NamesSent(nm)[i] = nm[-id]
    BY <1>4, <1>6
  <2> QED BY <2>1, <2>3, <2>4, <2>5
<1> HIDE DEF nm, snew, resp
<1> QED BY <1>3, <1>4, <1>6 DEF nm, snew, resp

\* They differ.
LEMMA NamesSentDiffer ==
  ASSUME LandInv, NEW s \in Savers, save[s].pc = "calls", save[s].todo = <<>>
  PROVE  NamesDiffer(NamesSent(Renamed(s)))
<1> DEFINE names == NamesSent(Renamed(s))
           snew == save[s].snew
           resp == save[s].resp
<1>1. cur \in Seq(Section) /\ RepliesAreNew(s) /\ ShownNames
  BY DEF LandInv, SyncInv, TypeInv, TypeOK, Underway
<1>2. /\ DOMAIN snew \subseteq DOMAIN resp /\ DOMAIN names = DOMAIN cur
      /\ \A i \in DOMAIN cur : cur[i].id < 0 =>
           \E k \in DOMAIN snew : snew[k] = cur[i].id /\ names[i] = resp[k]
      /\ \A i \in DOMAIN cur : ~(cur[i].id < 0) => names[i] = cur[i].id
  BY NamesAre
<1>3. \A i \in DOMAIN cur : ~(cur[i].id < 0) => cur[i].id \in Ids(base)
  <2>1. \A i \in DOMAIN cur : cur[i] \in ToSet(cur) /\ cur[i].id \in Int
    <3>1. \A i \in DOMAIN cur : cur[i] \in ToSet(cur)
      BY DEF ToSet
    <3> QED BY <1>1, <3>1, SectionIds
  <2> QED BY <1>1, <2>1 DEF ShownNames
<1>4. /\ \A k \in DOMAIN resp : resp[k] > 0 => resp[k] \notin Ids(base)
      /\ \A k, m \in DOMAIN resp : resp[k] = resp[m] /\ resp[k] > 0 => k = m
  BY <1>1 DEF RepliesAreNew
<1> HIDE DEF names, snew, resp
<1> SUFFICES ASSUME NEW i \in DOMAIN cur, NEW j \in DOMAIN cur, names[i] = names[j], names[i] > 0
             PROVE  i = j
  BY <1>2 DEF NamesDiffer, names
<1>5. cur[i].id = cur[j].id
  <2>1. CASE ~(cur[i].id < 0) /\ ~(cur[j].id < 0)
    BY <1>2, <2>1
  <2>2. CASE cur[i].id < 0 /\ ~(cur[j].id < 0)
    <3>1. PICK k \in DOMAIN snew : names[i] = resp[k]
      BY <1>2, <2>2
    <3> QED BY <1>2, <1>3, <1>4, <2>2, <3>1
  <2>3. CASE ~(cur[i].id < 0) /\ cur[j].id < 0
    <3>1. PICK k \in DOMAIN snew : names[j] = resp[k]
      BY <1>2, <2>3
    <3> QED BY <1>2, <1>3, <1>4, <2>3, <3>1
  <2>4. CASE cur[i].id < 0 /\ cur[j].id < 0
    <3>1. PICK k \in DOMAIN snew : snew[k] = cur[i].id /\ names[i] = resp[k]
      BY <1>2, <2>4
    <3>2. PICK m \in DOMAIN snew : snew[m] = cur[j].id /\ names[j] = resp[m]
      BY <1>2, <2>4
    <3>3. k = m
      BY <1>2, <1>4, <3>1, <3>2
    <3> QED BY <3>1, <3>2, <3>3
  <2> QED BY <2>1, <2>2, <2>3, <2>4
<1> QED BY <1>1, <1>5 DEF ShownNames, Distinct

LEMMA FinishLands ==
  ASSUME OneSaver, LandInv, SyncInv', NEW s \in Savers, Finish(s),
         save[s].pc \in {"calls", "order"}, \A g \in ToSet(save[s].goal) : Stands(g),
         UNCHANGED <<server, next, base, cur, made>>
  PROVE  LandInv'
<1>1. Savers = {s} /\ save \in [Savers -> SaveType] /\ save[s].reload \in BOOLEAN
  BY DEF OneSaver, LandInv, SyncInv, TypeInv, TypeOK, SaveType
<1>2. ServerNames' /\ \A g : Stands(g)' <=> Stands(g)
  BY DEF LandInv, ServerNames, Stands, Distinct
<1>3. save'[s].goal = save[s].goal /\ save'[s].pc \in {"load", "saved"}
  BY <1>1, Finishing
<1>4. Underway(s)'
  BY <1>2, <1>3 DEF Underway
<1>5. (loaded => ShownNames /\ Kept /\ Apart)'
  <2>1. CASE save[s].reload
    BY <1>1, <2>1, Finishing
  <2>2. CASE ~save[s].reload
    <3>1. (loaded' <=> loaded) /\ UNCHANGED changed
      BY <1>1, <2>2, Finishing
    <3> QED BY <3>1 DEF LandInv, ShownNames, Kept, Apart, Distinct
  <2> QED BY <1>1, <2>1, <2>2
<1> QED BY <1>1, <1>2, <1>4, <1>5 DEF LandInv

LEMMA ContinueStands == ASSUME OneSaver, LandInv, NEW s \in Savers, Continue(s) PROVE LandInv'
<1>1. SyncInv /\ SyncInv' /\ TypeInv /\ TypeOK
  BY ContinueSync DEF LandInv, SyncInv, TypeInv
<1>2. /\ Savers = {s} /\ save \in [Savers -> SaveType] /\ server \in Seq(ServerType)
      /\ made \in Nat /\ cur \in Seq(Section)
  BY <1>1, Numbers DEF OneSaver, TypeOK, ServerType
<1>3. ServerNames /\ (loaded => ShownNames /\ Kept /\ Apart) /\ Underway(s) /\ Quiet(s)
  BY <1>1 DEF LandInv, SyncInv
<1>4. CASE CallsDone(s)
  <2>1. /\ save[s].pc = "calls" /\ save[s].todo = <<>> /\ Failed \notin ToSet(save[s].resp)
        /\ name' = Renamed(s) /\ UNCHANGED <<server, next, base, cur, made>>
    BY <1>4 DEF CallsDone, Succeeded, Replied
  <2>2. \A g \in ToSet(cur) : Stands(g)
    <3>1. ToSet(<<>>) = {}
      BY DEF ToSet
    <3> QED BY <1>3, <2>1, <3>1 DEF Underway, Landing, Due
  <2>3. save[s].goal = cur /\ loaded
    BY <1>3, <2>1 DEF Underway
  <2>4. CASE reorder /\ NamesSent(name') # <<>>
    <3> DEFINE call == [op |-> "order", section |-> <<>>, order |-> NamesSent(name')]
    <3>1. /\ save' = [save EXCEPT ![s].pc = "order", ![s].resp = <<>>, ![s].todo = <<call>>]
          /\ UNCHANGED <<loaded, changed>>
      BY <1>4, <2>4 DEF CallsDone
    <3>2. NamesSent(name') \in Seq(Int)
      BY <1>1, <1>2, <2>1, RepliesThere, NamesType
    <3>3. save'[s].pc = "order" /\ save'[s].goal = save[s].goal /\ save'[s].todo = <<call>>
      BY <1>2, <3>1, <3>2, Ordering
    <3>4. NamesDiffer(call.order) /\ call.op = "order"
      BY <2>1, NamesSentDiffer
    <3> HIDE DEF call
    <3>5. ToSet(<<call>>) = {call}
      BY DEF ToSet
    <3>6. ServerNames' /\ ShownNames' /\ Kept' /\ Apart' /\ \A g : Stands(g)' <=> Stands(g)
      BY <1>3, <2>1, <2>3, <3>1 DEF ServerNames, ShownNames, Kept, Apart, Distinct, Stands
    <3>7. Underway(s)'
      BY <2>1, <2>2, <2>3, <3>1, <3>3, <3>4, <3>5, <3>6 DEF Underway
    <3> QED BY <1>1, <1>2, <3>6, <3>7 DEF LandInv
  <2>5. CASE ~(reorder /\ NamesSent(name') # <<>>)
    <3>1. Finish(s)
      BY <1>4, <2>5 DEF CallsDone
    <3> QED BY <1>1, <2>1, <2>2, <2>3, <3>1, FinishLands
  <2> QED BY <2>4, <2>5
<1>5. CASE OrderDone(s)
  <2>1. /\ save[s].pc = "order" /\ Finish(s) /\ UNCHANGED <<server, next, base, cur, made>>
    BY <1>5 DEF OrderDone
  <2>2. \A g \in ToSet(save[s].goal) : Stands(g)
    BY <1>3, <2>1 DEF Underway
  <2> QED BY <1>1, <2>1, <2>2, FinishLands
<1>6. CASE LoadDone(s)
  <2>1. /\ save[s].pc = "load" /\ save[s].todo = <<>> /\ Failed \notin ToSet(save[s].resp)
        /\ base' = save[s].snap /\ cur' = save[s].snap /\ UNCHANGED <<server, next, changed, made>>
    BY <1>6 DEF LoadDone, Succeeded, Replied
  <2>2. save[s].snap = Shown(server) /\ changed = {}
    BY <1>3, <2>1 DEF Quiet
  <2>3. ServerNames' /\ ShownNames' /\ Kept' /\ Apart'
    BY <1>2, <1>3, <2>1, <2>2, LoadedLands
  <2>4. save'[s].pc = "saved" /\ save'[s].goal = save[s].goal
    BY <1>2, <1>6, Loading
  <2>5. Underway(s)'
    BY <1>3, <2>1, <2>4 DEF Underway, Stands
  <2> QED BY <1>1, <1>2, <2>3, <2>5 DEF LandInv
<1>7. CASE Rejected(s)
  <2>1. UNCHANGED <<server, next, loaded, base, cur, changed, made>>
    BY <1>7 DEF Rejected, client
  <2>2. save'[s].pc = "failed"
    BY <1>2, <1>7, Rejecting
  <2>3. ServerNames' /\ (loaded => ShownNames /\ Kept /\ Apart)'
    BY <1>3, <2>1 DEF ServerNames, ShownNames, Kept, Apart, Distinct
  <2> QED BY <1>1, <1>2, <2>2, <2>3 DEF LandInv, Underway
<1> QED BY <1>4, <1>5, <1>6, <1>7 DEF Continue

LEMMA ReopenLands == LandInv /\ Reopen => LandInv'
<1> SUFFICES ASSUME LandInv, Reopen PROVE LandInv'
  OBVIOUS
<1>1. SyncInv /\ SyncInv' /\ TypeOK
  BY ReopenSync DEF LandInv, SyncInv, TypeInv
<1>2. server \in Seq(ServerType) /\ made \in Nat /\ ServerNames
  BY <1>1, Numbers DEF TypeOK, ServerType, LandInv
<1>3. /\ base' = Shown(server) /\ cur' = Shown(server) /\ changed' = {}
      /\ save' = [s \in Savers |-> Idle] /\ UNCHANGED <<server, next, made>>
  BY DEF Reopen, Shown
<1>4. ServerNames' /\ ShownNames' /\ Kept' /\ Apart'
  BY <1>2, <1>3, LoadedLands
<1>5. \A s \in Savers : Underway(s)'
  BY <1>3, IdleIsUnderway
<1> QED BY <1>1, <1>4, <1>5 DEF LandInv

LEMMA NextLands == ASSUME OneSaver PROVE LandInv /\ [Next]_vars => LandInv'
<1> SUFFICES ASSUME LandInv, [Next]_vars PROVE LandInv'
  OBVIOUS
<1>1. CASE Add \/ RemoveSection \/ Set \/ Move
  BY <1>1, EditsLand
<1>2. CASE Reopen
  BY <1>2, ReopenLands
<1>3. ASSUME NEW s \in Savers, Save(s) \/ Serve(s) \/ Continue(s)
      PROVE  LandInv'
  BY <1>3, SaveStands, ServeStands, ContinueStands
<1>4. CASE UNCHANGED vars
  <2>1. SyncInv'
    BY <1>4, NextSync DEF LandInv
  <2>2. UNCHANGED <<server, next, loaded, base, cur, changed, made, save>>
    BY <1>4 DEF vars, client
  <2>3. ServerNames' /\ (loaded => ShownNames /\ Kept /\ Apart)'
    BY <2>2 DEF LandInv, ServerNames, ShownNames, Kept, Apart, Distinct
  <2>4. \A s \in Savers : Underway(s)'
    BY <2>2 DEF LandInv, Underway, BatchFits, Landing, Due, RepliesAreNew, Stands, NamesDiffer
  <2> QED BY <2>1, <2>3, <2>4 DEF LandInv
<1> QED BY <1>1, <1>2, <1>3, <1>4 DEF Next

\* With one caller of save() at a time, a save that succeeds has everything
\* shown on the server, whatever saves failed before it and whatever they had
\* already added, changed or deleted.
THEOREM SaveLandsAll == ASSUME OneSaver PROVE Spec => []SaveLands
<1>1. Init => LandInv
  BY InitLands
<1>2. LandInv /\ [Next]_vars => LandInv'
  BY NextLands
<1>3. LandInv => SaveLands
  <2> SUFFICES ASSUME LandInv, NEW s \in Savers, save[s].pc = "saved",
                      NEW i \in DOMAIN save[s].goal
               PROVE  \E j \in DOMAIN server : StandsFor(server[j], save[s].goal[i])
    BY DEF SaveLands
  <2>1. save[s].goal[i] \in ToSet(save[s].goal)
    BY DEF ToSet
  <2>2. Stands(save[s].goal[i])
    BY <2>1 DEF LandInv, Underway
  <2> QED BY <2>2 DEF Stands, ToSet
<1> QED BY <1>1, <1>2, <1>3, PTL DEF Spec

-----------------------------------------------------------------------------
(* What is on the server after a save, exactly *)

\* What a section of the server stands for: the one loaded under its name, if
\* list was loaded, or the one it was added for.
Key(list, e) == IF e.id \in Ids(list) THEN e.id ELSE e.of

\* Where a section is if none is moved: those loaded in their order, then
\* those added.
Place(list, i) == IF i >= 0 THEN CHOOSE k \in DOMAIN list : list[k].id = i ELSE Len(list) - i

Rising(list, ids) == \A i, j \in DOMAIN ids : i < j => Place(list, ids[i]) < Place(list, ids[j])
NamesOf(q) == [i \in DOMAIN q |-> q[i].id]
Keys == [i \in DOMAIN server |-> Key(base, server[i])]

\* Only a move takes a section from its place.
InPlace ==
  loaded /\ ~reorder /\ ~dirty /\ (\A s \in Savers : save[s].pc # "order") =>
    Rising(base, NamesOf(cur))

\* A batch is on its way and nothing has failed: what the server has is shown
\* or will be deleted, and is in its place, before all that is to be added.
Tidy(s) ==
  /\ Rising(base, Keys)
  /\ \A e \in ToSet(server) :
       /\ \/ Key(base, e) \in Ids(cur)
          \/ \E c \in ToSet(save[s].todo) : c.op = "delete" /\ c.section.id = e.id
       /\ \A c \in ToSet(save[s].todo) : c.op = "add" => Place(base, Key(base, e)) < Place(base, c.section.id)

AddsRise(s) ==
  \A i, j \in DOMAIN save[s].todo :
    i < j /\ save[s].todo[i].op = "add" /\ save[s].todo[j].op = "add" =>
      Place(base, save[s].todo[i].section.id) < Place(base, save[s].todo[j].section.id)

\* If nothing is deleted, the replies are in the order of the sections added.
RepliesInOrder(s) ==
  Ids(base) \subseteq Ids(cur) =>
    \A k \in DOMAIN save[s].snew :
      IF k <= Len(save[s].resp)
      THEN \/ save[s].resp[k] = Failed
           \/ \E e \in ToSet(server) : e.id = save[s].resp[k] /\ e.of = save[s].snew[k]
      ELSE LET c == save[s].todo[k - Len(save[s].resp)]
           IN  c.op = "add" /\ c.section.id = save[s].snew[k]

\* The order sent names each section by what stands for it.
NamesAll(names, goal) ==
  /\ Len(names) = Len(goal)
  /\ \A i \in DOMAIN goal : \E e \in ToSet(server) : e.id = names[i] /\ StandsFor(e, goal[i])
  /\ \A e \in ToSet(server) : e.id \in ToSet(names)

Matches(s) ==
  /\ Len(server) = Len(save[s].goal)
  /\ ~save[s].mixed =>
       \A i \in DOMAIN save[s].goal : i \in DOMAIN server /\ StandsFor(server[i], save[s].goal[i])

Ordered(s) ==
  /\ Len(server) = Len(save[s].goal)
  /\ save[s].todo = <<>> => Matches(s)
  /\ ~save[s].mixed =>
       \A c \in ToSet(save[s].todo) : NamesAll(c.order, save[s].goal)

Exactly(s) ==
  /\ save[s].pc = "calls" =>
       /\ save[s].mixed = (reorder /\ Deletes # <<>> /\ Creates # <<>>)
       /\ AddsRise(s) /\ RepliesInOrder(s) /\ (save[s].clean => ~dirty)
       /\ save[s].clean /\ Failed \notin ToSet(save[s].resp) => Tidy(s)
  /\ save[s].pc = "order" /\ save[s].clean /\ Failed \notin ToSet(save[s].resp) => Ordered(s)
  /\ save[s].pc \in {"load", "saved"} /\ save[s].clean => Matches(s)

ExactInv ==
  /\ LandInv /\ (loaded => Distinct(base)) /\ InPlace
  /\ \A s \in Savers : Exactly(s)

LEMMA OnceCounts ==
  ASSUME NEW T, NEW q \in Seq(T), Once(q)
  PROVE  Cardinality(ToSet(q)) = Len(q)
<1>1. DOMAIN q = 1..Len(q) /\ Len(q) \in Nat /\ ToSet(q) = {q[i] : i \in 1..Len(q)}
  BY ToSetOf
<1> DEFINE f == [i \in 1..Len(q) |-> q[i]]
<1>2. f \in [1..Len(q) -> ToSet(q)]
  BY <1>1
<1>3. \A i, j \in 1..Len(q) : f[i] = f[j] => i = j
  BY <1>1 DEF Once
<1>4. \A x \in ToSet(q) : \E i \in 1..Len(q) : f[i] = x
  BY <1>1
<1> HIDE DEF f
<1>5. f \in Bijection(1..Len(q), ToSet(q))
  BY <1>2, <1>3, <1>4 DEF Bijection, Injection, Surjection, IsInjective
<1> QED BY <1>1, <1>5, FS_CountingElements DEF ExistsBijection

LEMMA RisingOnce ==
  ASSUME NEW list, NEW T, NEW q \in Seq(T), \A x \in ToSet(q) : Place(list, x) \in Int, Rising(list, q)
  PROVE  Once(q)
<1>1. DOMAIN q = 1..Len(q) /\ Len(q) \in Nat /\ \A i \in 1..Len(q) : q[i] \in ToSet(q)
  BY ToSetOf
<1> SUFFICES ASSUME NEW i \in 1..Len(q), NEW j \in 1..Len(q), q[i] = q[j] PROVE i = j
  BY <1>1 DEF Once
<1>2. Place(list, q[i]) = Place(list, q[j]) /\ Place(list, q[i]) \in Int
  BY <1>1
<1>3. ~(i < j) /\ ~(j < i)
  BY <1>1, <1>2 DEF Rising
<1> QED BY <1>1, <1>3

\* Of a set there is one sequence in the order of the places.
LEMMA RisingSame ==
  ASSUME NEW list, NEW T, NEW p \in Seq(T), NEW q \in Seq(T), ToSet(p) = ToSet(q),
         \A x \in ToSet(p) : Place(list, x) \in Int, Rising(list, p), Rising(list, q)
  PROVE  Len(p) = Len(q) /\ \A i \in 1..Len(p) : p[i] = q[i]
<1>1. /\ DOMAIN p = 1..Len(p) /\ Len(p) \in Nat /\ \A i \in 1..Len(p) : p[i] \in ToSet(p)
      /\ DOMAIN q = 1..Len(q) /\ Len(q) \in Nat /\ \A i \in 1..Len(q) : q[i] \in ToSet(q)
      /\ \A x \in ToSet(p) : \E i \in 1..Len(p) : x = p[i]
      /\ \A x \in ToSet(q) : \E i \in 1..Len(q) : x = q[i]
  BY ToSetOf
<1>2. Len(p) = Len(q)
  BY RisingOnce, OnceCounts
<1> DEFINE n == Len(p)
           a == [i \in 1..n |-> Place(list, p[i])]
           b == [i \in 1..n |-> Place(list, q[i])]
           Bad == {i \in 1..n : p[i] # q[i]}
<1>3. /\ \A i \in 1..n : a[i] \in Int /\ b[i] \in Int
      /\ \A i, j \in 1..n : i < j => a[i] < a[j] /\ b[i] < b[j]
      /\ \A i, j \in 1..n : p[i] = q[j] => a[i] = b[j]
  BY <1>1, <1>2 DEF Rising
<1> HIDE DEF a, b
<1>4. ASSUME Bad # {} PROVE FALSE
  <2>1. Bad \in SUBSET Nat
    OBVIOUS
  <2>2. PICK k \in Bad : \A m \in Bad : k <= m
    BY <1>4, <2>1, LeastNumber
  <2>3. k \in 1..n /\ p[k] # q[k] /\ \A m \in 1..n : m < k => p[m] = q[m]
    BY <1>1, <2>2
  <2> HIDE DEF Bad
  <2>4. PICK i \in 1..n : p[k] = q[i]
    BY <1>1, <1>2, <2>3
  <2>5. PICK j \in 1..n : q[k] = p[j]
    BY <1>1, <1>2, <2>3
  <2>6. i > k
    <3>1. CASE i < k
      <4>1. a[i] = b[i] /\ a[k] = b[i] /\ a[i] < a[k]
        BY <1>3, <2>3, <2>4, <3>1
      <4> QED BY <1>3, <4>1
    <3>2. i # k
      BY <2>3, <2>4
    <3> QED BY <1>1, <2>3, <3>1, <3>2
  <2>7. j > k
    <3>1. CASE j < k
      <4>1. a[j] = b[j] /\ a[j] = b[k] /\ b[j] < b[k]
        BY <1>3, <2>3, <2>5, <3>1
      <4> QED BY <1>3, <4>1
    <3>2. j # k
      BY <2>3, <2>5
    <3> QED BY <1>1, <2>3, <3>1, <3>2
  <2>8. a[k] = b[i] /\ b[k] = a[j] /\ a[k] < a[j] /\ b[k] < b[i]
    BY <1>3, <2>3, <2>4, <2>5, <2>6, <2>7
  <2> QED BY <1>3, <2>3, <2>8
<1> QED BY <1>2, <1>4

\* The places of the sections loaded come before those of sections added.
LEMMA Places ==
  ASSUME NEW list \in Seq(Section), Distinct(list), \A i \in Ids(list) : i >= 1
  PROVE  /\ \A k \in 1..Len(list) : Place(list, list[k].id) = k
         /\ \A i \in Ids(list) : Place(list, i) \in Int /\ Place(list, i) <= Len(list)
         /\ \A i \in Int : i < 0 => Place(list, i) = Len(list) - i /\ Place(list, i) \in Int
         /\ Len(list) \in Nat
<1>1. /\ DOMAIN list = 1..Len(list) /\ Len(list) \in Nat
      /\ \A k \in 1..Len(list) : list[k].id \in Ids(list) /\ list[k].id \in Int
      /\ \A i \in Ids(list) : \E k \in 1..Len(list) : i = list[k].id
  <2>1. DOMAIN list = 1..Len(list) /\ Len(list) \in Nat
    BY ToSetOf
  <2> QED BY <2>1, SectionIds DEF Ids
<1>2. ASSUME NEW k \in 1..Len(list) PROVE Place(list, list[k].id) = k
  <2>1. list[k].id >= 0
    BY <1>1
  <2>2. \A m \in DOMAIN list : list[m].id = list[k].id <=> m = k
    BY <1>1 DEF Distinct
  <2>3. (CHOOSE m \in DOMAIN list : list[m].id = list[k].id) = k
    BY <1>1, <2>2
  <2> QED BY <2>1, <2>3 DEF Place
<1>3. \A i \in Int : i < 0 => Place(list, i) = Len(list) - i /\ Place(list, i) \in Int
  BY <1>1 DEF Place
<1> QED BY <1>1, <1>2, <1>3

\* With what was just loaded the sections are in place.
LEMMA LoadedInPlace ==
  ASSUME server \in Seq(ServerType), ServerNames, base' = Shown(server), cur' = base'
  PROVE  Distinct(base') /\ Rising(base', NamesOf(cur'))
<1> DEFINE new == Shown(server)
<1>1. /\ new \in Seq(Section) /\ DOMAIN new = DOMAIN server /\ Ids(new) = Ids(server)
      /\ \A i \in DOMAIN server : new[i] = [id |-> server[i].id, val |-> server[i].val]
      /\ Ids(server) = {e.id : e \in ToSet(server)}
  BY ShownType, ToSetOf
<1>2. Distinct(new)
  <2>1. \A i \in DOMAIN server : new[i].id = server[i].id
    BY <1>1
  <2> HIDE DEF new
  <2> QED BY <1>1, <2>1 DEF Distinct, ServerNames
<1>3. \A i \in Ids(new) : i >= 1
  BY <1>1 DEF ServerNames
<1> HIDE DEF new
<1>4. \A k \in 1..Len(new) : Place(new, new[k].id) = k
  BY <1>1, <1>2, <1>3, Places
<1>5. DOMAIN new = 1..Len(new)
  BY <1>1, ToSetOf
<1>6. Rising(new, NamesOf(new))
  BY <1>4, <1>5 DEF Rising, NamesOf
<1> QED BY <1>2, <1>6 DEF new

LEMMA IdleIsExact == \A s \in Savers : save'[s] = Idle => Exactly(s)'
BY DEF Exactly, Idle

LEMMA InitExact == Init => ExactInv
<1> SUFFICES ASSUME Init PROVE ExactInv
  OBVIOUS
<1>1. PICK v \in Vals : /\ server = [i \in 1..Initial |-> [id |-> i, of |-> i, val |-> v]]
                       /\ base = [i \in 1..Initial |-> [id |-> i, val |-> v]]
  BY DEF Init
<1>2. cur = base
  BY DEF Init
<1>3. Distinct(base)
  BY <1>1 DEF Distinct
<1>4. Rising(base, NamesOf(cur))
  <2>1. \A i \in 1..Initial : Place(base, i) = i
    <3> SUFFICES ASSUME NEW i \in 1..Initial PROVE Place(base, i) = i
      OBVIOUS
    <3>1. i >= 0 /\ DOMAIN base = 1..Initial /\ \A k \in 1..Initial : base[k].id = k
      BY <1>1, Numbers
    <3>2. (CHOOSE k \in DOMAIN base : base[k].id = i) = i
      BY <3>1
    <3> QED BY <3>1, <3>2 DEF Place
  <2>2. DOMAIN NamesOf(cur) = 1..Initial /\ \A i \in 1..Initial : NamesOf(cur)[i] = i
    BY <1>1, <1>2 DEF NamesOf
  <2> QED BY <2>1, <2>2 DEF Rising
<1>5. \A s \in Savers : Exactly(s)
  BY DEF Init, Exactly, Idle
<1> QED BY <1>3, <1>4, <1>5, InitLands DEF ExactInv, InPlace

LEMMA ReopenExact == ExactInv /\ Reopen => ExactInv'
<1> SUFFICES ASSUME ExactInv, Reopen PROVE ExactInv'
  OBVIOUS
<1>1. LandInv' /\ server \in Seq(ServerType) /\ ServerNames
  BY ReopenLands DEF ExactInv, LandInv, SyncInv, TypeInv, TypeOK, ServerType
<1>2. base' = Shown(server) /\ cur' = base' /\ save' = [s \in Savers |-> Idle]
  BY DEF Reopen, Shown
<1>3. Distinct(base') /\ Rising(base', NamesOf(cur'))
  BY <1>1, <1>2, LoadedInPlace
<1>4. \A s \in Savers : Exactly(s)'
  BY <1>2, IdleIsExact
<1> QED BY <1>1, <1>3, <1>4 DEF ExactInv, InPlace, Distinct

\* Adding, removing and setting keep the sections in place.
LEMMA EditsExact == OneSaver /\ ExactInv /\ (Add \/ RemoveSection \/ Set \/ Move) => ExactInv'
<1> SUFFICES ASSUME OneSaver, ExactInv, Add \/ RemoveSection \/ Set \/ Move
             PROVE  ExactInv'
  OBVIOUS
<1>1. LandInv /\ LandInv' /\ TypeOK
  BY EditsLand DEF ExactInv, LandInv, SyncInv, TypeInv
<1>2. cur \in Seq(Section) /\ base \in Seq(Section) /\ made \in Nat
  BY <1>1, Numbers DEF TypeOK
<1>3. /\ loaded /\ Busy = {} /\ save' = [s \in Savers |-> Idle]
      /\ UNCHANGED <<server, next, loaded, base, name, dirty>>
  BY DEF Add, RemoveSection, Set, Move, Edited
<1>4. Distinct(base) /\ ShownNames
  BY <1>1, <1>3 DEF ExactInv, LandInv
<1>5. \A s \in Savers : Exactly(s)' /\ save[s].pc # "order"
  BY <1>3, IdleIsExact DEF Busy
<1>6. SUFFICES ASSUME ~reorder', ~dirty PROVE Rising(base', NamesOf(cur'))
  <2>1. Distinct(base')
    BY <1>3, <1>4
  <2> QED BY <1>1, <1>3, <1>5, <1>6, <2>1 DEF ExactInv, InPlace, Distinct
<1>7. ~Move /\ reorder' = reorder
  BY <1>6 DEF Add, RemoveSection, Set, Move
<1>8. \A i, j \in DOMAIN cur : i < j => Place(base, cur[i].id) < Place(base, cur[j].id)
  BY <1>3, <1>5, <1>6, <1>7 DEF ExactInv, InPlace, Rising, NamesOf
<1>9. SUFFICES \A i, j \in DOMAIN cur' : i < j => Place(base, cur'[i].id) < Place(base, cur'[j].id)
  BY <1>3 DEF Rising, NamesOf
<1>10. DOMAIN cur = 1..Len(cur) /\ Len(cur) \in Nat /\ \A i \in 1..Len(cur) : cur[i] \in ToSet(cur)
  BY <1>2, ToSetOf
<1>11. CASE Add
  <2>1. PICK v \in Vals : Edited(Append(cur, [id |-> -(made + 1), val |-> v]))
    BY <1>11 DEF Add
  <2> DEFINE new == [id |-> -(made + 1), val |-> v]
  <2>2. cur' = Append(cur, new) /\ made < MaxNew
    BY <1>11, <2>1 DEF Add, Edited
  <2>3. new \in Section /\ new.id = -(made + 1)
    BY <1>2, <2>2, Numbers DEF Section
  <2> HIDE DEF new
  <2>4. /\ cur'[Len(cur) + 1] = new /\ \A i \in 1..Len(cur) : cur'[i] = cur[i]
        /\ cur' \in Seq(Section) /\ Len(cur') = Len(cur) + 1
    BY <1>2, <2>2, <2>3, Appending
  <2>5. DOMAIN cur' = 1..(Len(cur) + 1)
    BY <2>4, ToSetOf
  <2>6. \A g \in ToSet(cur) : Place(base, g.id) \in Int /\ Place(base, g.id) < Place(base, new.id)
    <3>1. /\ \A i \in Ids(base) : i >= 1
          /\ \A g \in ToSet(cur) : g.id \in Int /\ g.id >= -made /\ (g.id >= 0 => g.id \in Ids(base))
      BY <1>2, <1>4, SectionIds DEF ShownNames
    <3>2. /\ \A i \in Ids(base) : Place(base, i) \in Int /\ Place(base, i) <= Len(base)
          /\ \A i \in Int : i < 0 => Place(base, i) = Len(base) - i /\ Place(base, i) \in Int
          /\ Len(base) \in Nat
      BY <1>2, <1>4, <3>1, Places
    <3> SUFFICES ASSUME NEW g \in ToSet(cur) PROVE Place(base, g.id) \in Int /\ Place(base, g.id) < Place(base, new.id)
      OBVIOUS
    <3>3. Place(base, new.id) = Len(base) + made + 1
      BY <1>2, <2>3, <3>2
    <3>4. CASE g.id >= 0
      BY <1>2, <3>1, <3>2, <3>3, <3>4
    <3>5. CASE g.id < 0
      BY <1>2, <3>1, <3>2, <3>3, <3>5
    <3> QED BY <3>1, <3>4, <3>5
  <2>7. \A k \in 1..(Len(cur) + 1) : k = Len(cur) + 1 \/ k \in 1..Len(cur)
    BY <1>10
  <2> SUFFICES ASSUME NEW i \in 1..(Len(cur) + 1), NEW j \in 1..(Len(cur) + 1), i < j
               PROVE  Place(base, cur'[i].id) < Place(base, cur'[j].id)
    BY <2>5
  <2>8. i \in 1..Len(cur)
    BY <1>10
  <2>9. CASE j \in 1..Len(cur)
    BY <1>8, <1>10, <2>4, <2>8, <2>9
  <2>10. CASE j = Len(cur) + 1
    BY <1>10, <2>4, <2>6, <2>8, <2>10
  <2> QED BY <2>7, <2>9, <2>10
<1>12. CASE RemoveSection
  <2>1. PICK i \in DOMAIN cur : cur' = RemoveAt(cur, i)
    BY <1>12 DEF RemoveSection, Edited
  <2>2. /\ cur' \in Seq(Section) /\ Len(cur') = Len(cur) - 1
        /\ \A k \in 1..(Len(cur) - 1) : cur'[k] = IF k < i THEN cur[k] ELSE cur[k + 1]
    BY <1>2, <2>1, Removing
  <2>3. DOMAIN cur' = 1..(Len(cur) - 1)
    BY <2>2, ToSetOf
  <2> DEFINE from == [k \in 1..(Len(cur) - 1) |-> IF k < i THEN k ELSE k + 1]
  <2>4. \A k \in DOMAIN cur' : from[k] \in DOMAIN cur /\ cur'[k] = cur[from[k]]
    BY <1>10, <2>2, <2>3
  <2>5. \A k, m \in DOMAIN cur' : k < m => from[k] < from[m]
    BY <1>10, <2>3
  <2> HIDE DEF from
  <2> QED BY <1>8, <2>4, <2>5
<1>13. CASE Set
  <2>1. PICK i \in DOMAIN cur, v \in Vals : cur' = [cur EXCEPT ![i].val = v]
    BY <1>13 DEF Set, Edited
  <2>2. \A e \in Section : [e EXCEPT !.val = v].id = e.id
    BY DEF Section
  <2>3. DOMAIN cur' = DOMAIN cur /\ \A k \in DOMAIN cur : cur'[k].id = cur[k].id
    <3>1. /\ DOMAIN cur' = DOMAIN cur /\ cur'[i] = [cur[i] EXCEPT !.val = v]
          /\ \A k \in DOMAIN cur : k # i => cur'[k] = cur[k]
      BY <2>1
    <3>2. cur[i] \in Section
      BY <1>2, <1>10, ToSetOf
    <3> QED BY <2>2, <3>1, <3>2
  <2> QED BY <1>8, <2>3
<1> QED BY <1>7, <1>11, <1>12, <1>13

LEMMA CallAt ==
  ASSUME NEW op \in {"delete", "add", "set"}, NEW q \in Seq(Section)
  PROVE  \A i \in 1..Len(q) : Call(op, q)[i].op = op /\ Call(op, q)[i].section = q[i]
<1>1. DOMAIN q = 1..Len(q)
  BY ToSetOf
<1> QED BY <1>1 DEF Call

\* The sections added are sent in the order in which they were added.
LEMMA NewIdsFall ==
  ASSUME TypeOK
  PROVE  /\ DOMAIN NewIds = 1..Len(CreatesInOrder) /\ DOMAIN CreatesInOrder = 1..Len(CreatesInOrder)
         /\ Len(NewIds) = Len(CreatesInOrder) /\ Len(CreatesInOrder) \in Nat
         /\ \A i \in 1..Len(CreatesInOrder) :
              NewIds[i] = CreatesInOrder[i].id /\ NewIds[i] \in Int /\ NewIds[i] < 0
         /\ \A i, j \in 1..Len(CreatesInOrder) : i < j => NewIds[j] < NewIds[i]
<1> DEFINE all == [i \in 1..made |-> -i]
           ids == Only(all, Ids(cur))
<1>1. made \in Nat /\ CreatesInOrder \in Seq(Section) /\ NewIds \in Seq(NewType)
  BY BatchedNew, Numbers DEF TypeOK, NewIds
<1>2. all \in Seq(Int) /\ Len(all) = made /\ \A i \in 1..made : all[i] = -i
  BY <1>1
<1> HIDE DEF all
<1>3. ids = Selection(all, Ids(cur))
  BY DEF Only, Selection
<1>4. PICK f : Embeds(f, ids, all, made, Ids(cur))
  BY <1>2, <1>3, SelectionEmbeds
<1>5. ids \in Seq(Int)
  BY <1>2, <1>3, SelectionEmbeds
<1>6. CreatesInOrder = [i \in DOMAIN ids |-> [id |-> ids[i], val |-> ValueIn(cur, ids[i])]]
  BY DEF CreatesInOrder, all
<1> HIDE DEF ids
<1>7. /\ DOMAIN ids = 1..Len(ids) /\ Len(ids) \in Nat
      /\ DOMAIN CreatesInOrder = 1..Len(CreatesInOrder) /\ Len(CreatesInOrder) \in Nat
      /\ DOMAIN NewIds = 1..Len(NewIds) /\ Len(NewIds) \in Nat
  BY <1>1, <1>5, ToSetOf
<1>8. DOMAIN CreatesInOrder = DOMAIN ids /\ DOMAIN NewIds = DOMAIN CreatesInOrder
  BY <1>6 DEF NewIds
<1>9. Len(CreatesInOrder) = Len(ids) /\ Len(NewIds) = Len(ids)
  <2>1. \A m, n \in Nat : 1..m = 1..n => m = n
    <3> SUFFICES ASSUME NEW m \in Nat, NEW n \in Nat, 1..m = 1..n PROVE m = n
      OBVIOUS
    <3>1. m > 0 => m \in 1..n
      OBVIOUS
    <3>2. n > 0 => n \in 1..m
      OBVIOUS
    <3> QED BY <3>1, <3>2
  <2> QED BY <1>7, <1>8, <2>1
<1>10. \A i \in 1..Len(ids) : CreatesInOrder[i].id = ids[i] /\ NewIds[i] = ids[i]
  BY <1>6, <1>7, <1>8 DEF NewIds
<1>11. \A i \in 1..Len(ids) : ids[i] = -f[i] /\ f[i] \in 1..made
  BY <1>2, <1>4 DEF Embeds
<1>12. \A i, j \in 1..Len(ids) : i < j => f[i] < f[j]
  BY <1>4 DEF Embeds
<1>13. \A i \in 1..Len(ids) : NewIds[i] \in Int /\ NewIds[i] < 0
  BY <1>1, <1>10, <1>11
<1>14. \A i, j \in 1..Len(ids) : i < j => NewIds[j] < NewIds[i]
  BY <1>1, <1>10, <1>11, <1>12
<1> QED BY <1>7, <1>8, <1>9, <1>10, <1>13, <1>14

\* Which call of a batch adds which section.
LEMMA BatchAdds ==
  ASSUME TypeOK
  PROVE  LET d == Len(Call("delete", Deletes))
         IN  /\ d \in Nat /\ (Deletes = <<>> => d = 0)
             /\ \A k \in 1..Len(CreatesInOrder) :
                  Batch[d + k].op = "add" /\ Batch[d + k].section = CreatesInOrder[k]
             /\ \A n \in 1..Len(Batch) : Batch[n].op = "add" =>
                  n - d \in 1..Len(CreatesInOrder)
<1> DEFINE dc == Call("delete", Deletes)
           ac == Call("add", CreatesInOrder)
           sc == Call("set", Changes)
           da == dc \o ac
           m == Len(CreatesInOrder)
<1>1. /\ dc \in Seq(CallType) /\ ac \in Seq(CallType) /\ sc \in Seq(CallType)
      /\ Len(dc) = Len(Deletes) /\ Len(ac) = m
      /\ \A c \in ToSet(dc) : c.op = "delete"
      /\ \A c \in ToSet(sc) : c.op = "set"
  BY Batched, BatchedNew, Calling
<1>2. \A k \in 1..m : ac[k].op = "add" /\ ac[k].section = CreatesInOrder[k]
  BY BatchedNew, CallAt
<1>3. Batch = da \o sc
  BY DEF Batch
<1>4. Deletes = <<>> => Len(dc) = 0
  BY <1>1
<1> HIDE DEF dc, ac, sc, m
<1>5. /\ Len(dc) \in Nat /\ Len(ac) \in Nat /\ Len(sc) \in Nat
      /\ \A k \in 1..Len(dc) : dc[k].op = "delete"
      /\ \A k \in 1..Len(sc) : sc[k].op = "set"
  BY <1>1, ToSetOf
<1>6. /\ da \in Seq(CallType) /\ Len(da) = Len(dc) + Len(ac)
      /\ \A k \in 1..Len(dc) : da[k] = dc[k]
      /\ \A k \in 1..Len(ac) : da[Len(dc) + k] = ac[k]
  <2>1. dc \in Seq(CallType) /\ ac \in Seq(CallType)
    BY <1>1
  <2>2. da \in Seq(CallType) /\ Len(da) = Len(dc) + Len(ac)
    BY <2>1, Joining
  <2>3. \A k \in 1..Len(dc) : da[k] = dc[k]
    BY <2>1, Joining
  <2>4. \A k \in 1..Len(ac) : da[Len(dc) + k] = ac[k]
    BY <2>1, Joining
  <2> QED BY <2>2, <2>3, <2>4
<1> HIDE DEF da
<1>7. /\ Len(da \o sc) = Len(da) + Len(sc)
      /\ \A k \in 1..Len(da) : (da \o sc)[k] = da[k]
      /\ \A k \in 1..Len(sc) : (da \o sc)[Len(da) + k] = sc[k]
  <2>1. da \in Seq(CallType) /\ sc \in Seq(CallType)
    BY <1>1, <1>6
  <2>2. Len(da \o sc) = Len(da) + Len(sc)
    BY <2>1, Joining
  <2>3. \A k \in 1..Len(da) : (da \o sc)[k] = da[k]
    BY <2>1, Joining
  <2>4. \A k \in 1..Len(sc) : (da \o sc)[Len(da) + k] = sc[k]
    BY <2>1, Joining
  <2> QED BY <2>2, <2>3, <2>4
<1>8. \A k \in 1..m : Batch[Len(dc) + k].op = "add" /\ Batch[Len(dc) + k].section = CreatesInOrder[k]
  <2> SUFFICES ASSUME NEW k \in 1..m
               PROVE  Batch[Len(dc) + k].op = "add" /\ Batch[Len(dc) + k].section = CreatesInOrder[k]
    OBVIOUS
  <2>1. Len(dc) + k \in 1..Len(da) /\ k \in 1..Len(ac)
    BY <1>1, <1>5, <1>6
  <2> QED BY <1>2, <1>3, <1>6, <1>7, <2>1
<1>9. ASSUME NEW n \in 1..Len(Batch), Batch[n].op = "add" PROVE n - Len(dc) \in 1..m
  <2>1. ~(n \in 1..Len(dc))
    <3> SUFFICES ASSUME n \in 1..Len(dc) PROVE FALSE
      OBVIOUS
    <3>1. n \in 1..Len(da) /\ Batch[n] = dc[n]
      BY <1>3, <1>5, <1>6, <1>7
    <3>2. "delete" # "add"
      OBVIOUS
    <3> QED BY <1>5, <1>9, <3>1, <3>2
  <2>2. ~(n - Len(da) \in 1..Len(sc))
    <3> SUFFICES ASSUME n - Len(da) \in 1..Len(sc) PROVE FALSE
      OBVIOUS
    <3>1. n = Len(da) + (n - Len(da))
      BY <1>5, <1>6
    <3>2. Batch[n] = sc[n - Len(da)]
      BY <1>3, <1>7, <3>1
    <3> QED BY <1>5, <1>9, <3>2
  <2>3. n \in 1..(Len(dc) + Len(ac) + Len(sc))
    BY <1>3, <1>6, <1>7
  <2> QED BY <1>1, <1>5, <1>6, <2>1, <2>2, <2>3
<1> QED BY <1>4, <1>5, <1>8, <1>9 DEF dc, m

\* A batch begins with everything in its place.
LEMMA SavesExact == ASSUME OneSaver, ExactInv, NEW s \in Savers, Save(s) PROVE ExactInv'
<1>1. /\ loaded /\ s \notin Busy /\ save' = [save EXCEPT ![s] = Started]
      /\ UNCHANGED <<server, loaded, base, cur, reorder, dirty>>
  BY Saving
<1>2. /\ Savers = {s} /\ LandInv /\ TypeOK /\ save \in [Savers -> SaveType]
      /\ cur \in Seq(Section) /\ base \in Seq(Section) /\ server \in Seq(ServerType)
  <2>1. LandInv /\ TypeOK
    BY DEF ExactInv, LandInv, SyncInv, TypeInv
  <2> QED BY <2>1 DEF OneSaver, TypeOK, ServerType
<1>3. save'[s] = Started
  BY <1>1, <1>2
<1>4. /\ Started.todo = Batch /\ Started.resp = <<>> /\ Started.snew = NewIds
      /\ Started.pc = "calls" /\ Started.clean = ~dirty
      /\ Started.mixed = (reorder /\ Deletes # <<>> /\ Creates # <<>>)
  BY DEF Started, NewIds
<1>5. Distinct(base) /\ ServerNames /\ ShownNames
  BY <1>1, <1>2 DEF ExactInv, LandInv
<1>6. /\ \A k \in 1..Len(base) : Place(base, base[k].id) = k
      /\ \A i \in Ids(base) : Place(base, i) \in Int /\ Place(base, i) <= Len(base)
      /\ \A i \in Int : i < 0 => Place(base, i) = Len(base) - i /\ Place(base, i) \in Int
      /\ Len(base) \in Nat
  BY <1>2, <1>5, Places DEF ShownNames
<1> DEFINE d == Len(Call("delete", Deletes))
           m == Len(CreatesInOrder)
<1>7. /\ d \in Nat /\ (Deletes = <<>> => d = 0)
      /\ \A k \in 1..m : Batch[d + k].op = "add" /\ Batch[d + k].section = CreatesInOrder[k]
      /\ \A n \in 1..Len(Batch) : Batch[n].op = "add" => n - d \in 1..m
  BY <1>2, BatchAdds
<1>8. /\ m \in Nat /\ DOMAIN NewIds = 1..m
      /\ \A i \in 1..m : NewIds[i] = CreatesInOrder[i].id /\ NewIds[i] \in Int /\ NewIds[i] < 0
      /\ \A i, j \in 1..m : i < j => NewIds[j] < NewIds[i]
  BY <1>2, NewIdsFall
<1>9. Batch \in Seq(CallType) /\ DOMAIN Batch = 1..Len(Batch) /\ Len(Batch) \in Nat
  BY <1>2, BatchCalls, ToSetOf
<1> HIDE DEF d, m
<1>10. \A n \in 1..Len(Batch) : Batch[n].op = "add" =>
         n - d \in 1..m /\ Batch[n].section.id = NewIds[n - d]
  <2> SUFFICES ASSUME NEW n \in 1..Len(Batch), Batch[n].op = "add"
               PROVE  n - d \in 1..m /\ Batch[n].section.id = NewIds[n - d]
    OBVIOUS
  <2>1. n - d \in 1..m /\ d + (n - d) = n
    BY <1>7
  <2>2. Batch[d + (n - d)].section = CreatesInOrder[n - d]
    BY <1>7, <2>1
  <2> QED BY <1>8, <2>1, <2>2
<1>11. AddsRise(s)'
  <2> SUFFICES ASSUME NEW i \in 1..Len(Batch), NEW j \in 1..Len(Batch),
                      i < j, Batch[i].op = "add", Batch[j].op = "add"
               PROVE  Place(base, Batch[i].section.id) < Place(base, Batch[j].section.id)
    BY <1>1, <1>3, <1>4, <1>9 DEF AddsRise
  <2> DEFINE x == NewIds[i - d]
             y == NewIds[j - d]
  <2>1. Batch[i].section.id = x /\ Batch[j].section.id = y
    BY <1>10
  <2>2. i - d \in 1..m /\ j - d \in 1..m /\ i - d < j - d
    BY <1>7, <1>10
  <2>3. x \in Int /\ y \in Int /\ x < 0 /\ y < 0 /\ y < x
    BY <1>8, <2>2
  <2> HIDE DEF x, y
  <2>4. Place(base, x) = Len(base) - x /\ Place(base, y) = Len(base) - y
    BY <1>6, <2>3
  <2> QED BY <1>6, <2>1, <2>3, <2>4
<1>12. Ids(base) = {e.id : e \in ToSet(base)} /\ Ids(cur) \subseteq Int
       /\ Ids(server) = {e.id : e \in ToSet(server)}
  BY <1>2, ToSetOf, SectionIds
<1>13. RepliesInOrder(s)'
  <2> SUFFICES ASSUME Ids(base) \subseteq Ids(cur), NEW k \in 1..m
               PROVE  /\ ~(k <= Len(<<>>)) /\ Batch[k - Len(<<>>)].op = "add"
                      /\ Batch[k - Len(<<>>)].section.id = NewIds[k]
    BY <1>1, <1>3, <1>4, <1>8 DEF RepliesInOrder
  <2>1. Deletes = <<>>
    <3>1. ToSet(Deletes) = {} /\ Deletes \in Seq(Section)
      BY <1>2, <1>12, Batched
    <3> QED BY <3>1, NoElements
  <2>2. Len(<<>>) = 0 /\ d + k = k /\ k - 0 = k
    BY <1>7, <2>1
  <2> QED BY <1>7, <1>8, <2>2
<1>14. ASSUME ~dirty PROVE Tidy(s)'
  <2>1. base = Shown(server)
    BY <1>1, <1>2, <1>14 DEF LandInv, SyncInv, InStep, Settled, Busy
  <2>2. /\ DOMAIN base = DOMAIN server /\ DOMAIN base = 1..Len(base)
        /\ \A i \in DOMAIN server : base[i].id = server[i].id
        /\ Ids(base) = Ids(server)
    <3> DEFINE new == Shown(server)
    <3>1. /\ DOMAIN new = DOMAIN server /\ Ids(new) = Ids(server)
          /\ \A i \in DOMAIN server : new[i] = [id |-> server[i].id, val |-> server[i].val]
      BY <1>2, ShownType
    <3>2. \A i \in DOMAIN server : new[i].id = server[i].id
      BY <3>1
    <3> HIDE DEF new
    <3>3. base = new /\ DOMAIN base = 1..Len(base)
      BY <1>2, <2>1, ToSetOf DEF new
    <3> QED BY <3>1, <3>2, <3>3
  <2>3. \A e \in ToSet(server) : e.id \in Ids(base) /\ Key(base, e) = e.id
    BY <1>12, <2>2 DEF Key
  <2>4. Rising(base, Keys)
    <3>1. \A i \in DOMAIN server : Key(base, server[i]) = base[i].id
      BY <2>2, <2>3 DEF ToSet
    <3> QED BY <1>6, <2>2, <3>1 DEF Rising, Keys
  <2>5. \A e \in ToSet(server) : e.id \in Ids(cur) \/
          \E c \in ToSet(Batch) : c.op = "delete" /\ c.section.id = e.id
    <3> SUFFICES ASSUME NEW e \in ToSet(server), e.id \notin Ids(cur)
                 PROVE  \E c \in ToSet(Batch) : c.op = "delete" /\ c.section.id = e.id
      OBVIOUS
    <3>1. PICK g \in ToSet(base) : g.id = e.id
      BY <1>12, <2>3
    <3>2. g \in ToSet(Deletes) /\ Deletes \in Seq(Section)
      BY <1>2, <3>1, Batched
    <3>3. PICK c \in ToSet(Call("delete", Deletes)) : c.op = "delete" /\ c.section = g
      BY <3>2, Calling
    <3> QED BY <1>2, <3>1, <3>3, BatchCalls
  <2>6. \A e \in ToSet(server), c \in ToSet(Batch) : c.op = "add" =>
          Place(base, e.id) < Place(base, c.section.id)
    <3> SUFFICES ASSUME NEW e \in ToSet(server), NEW c \in ToSet(Batch), c.op = "add"
                 PROVE  Place(base, e.id) < Place(base, c.section.id)
      OBVIOUS
    <3>1. PICK n \in 1..Len(Batch) : c = Batch[n]
      BY <1>9 DEF ToSet
    <3>2. c.section.id \in Int /\ c.section.id < 0
      BY <1>8, <1>10, <3>1
    <3>3. Place(base, c.section.id) = Len(base) - c.section.id
      BY <1>6, <3>2
    <3>4. Place(base, e.id) \in Int /\ Place(base, e.id) <= Len(base)
      BY <1>6, <2>3
    <3> QED BY <1>6, <3>2, <3>3, <3>4
  <2> QED BY <1>1, <1>3, <1>4, <2>3, <2>4, <2>5, <2>6 DEF Tidy, Keys
<1>15. Exactly(s)'
  <2>1. Deletes' = Deletes /\ Creates' = Creates
    BY <1>1 DEF Deletes, Creates
  <2>2. save'[s].pc = "calls" /\ (save'[s].clean <=> ~dirty) /\ dirty' = dirty
        /\ save'[s].mixed = (reorder' /\ Deletes' # <<>> /\ Creates' # <<>>)
    BY <1>1, <1>3, <1>4, <2>1
  <2> QED BY <1>11, <1>13, <1>14, <2>2 DEF Exactly
<1>16. InPlace'
  <2>1. \A o \in Savers : save[o].pc # "order"
    BY <1>1, <1>2 DEF Busy
  <2> QED BY <1>1, <1>2, <2>1 DEF ExactInv, InPlace, NamesOf
<1> QED BY <1>1, <1>2, <1>5, <1>15, <1>16, SaveStands DEF ExactInv, Distinct

\* A call of a batch is answered: the others are left as they were.
LEMMA AnswerExact ==
  ASSUME OneSaver, ExactInv, LandInv', NEW s \in Savers, save[s].pc = "calls",
         save[s].todo # <<>>, NEW r \in Int, Reply(s, r), UNCHANGED client, UNCHANGED dirty,
         Ids(base) \subseteq Ids(cur) =>
           \A e \in ToSet(server) : \E f \in ToSet(server') : f.id = e.id /\ f.of = e.of,
         r # Failed /\ NextCall(s).op = "add" =>
           \E e \in ToSet(server') : e.id = r /\ e.of = NextCall(s).section.id,
         r # Failed /\ Tidy(s) => Tidy(s)'
  PROVE  ExactInv'
<1>1. /\ Savers = {s} /\ save \in [Savers -> SaveType] /\ save[s].todo \in Seq(CallType)
      /\ save[s].resp \in Seq(Int) /\ save[s].snew \in Seq(NewType) /\ TypeInv
  BY DEF OneSaver, ExactInv, LandInv, SyncInv, TypeInv, TypeOK, SaveType, NewType
<1>2. UNCHANGED <<loaded, base, cur, reorder>>
  BY DEF client
<1>3. Exactly(s) /\ (loaded => Distinct(base)) /\ InPlace
  BY DEF ExactInv
<1>4. /\ save'[s].todo = Tail(save[s].todo) /\ save'[s].pc = "calls"
      /\ save'[s].resp \in {Append(save[s].resp, r), Append(save[s].resp, Failed)}
      /\ save'[s].snew = save[s].snew /\ save'[s].clean = save[s].clean
      /\ save'[s].mixed = save[s].mixed
  BY <1>1, Replying
<1>5. PICK got \in {r, Failed} : save'[s].resp = Append(save[s].resp, got)
  BY <1>4
<1> DEFINE q == save[s].todo
           resp == save[s].resp
           n == Len(resp)
           snew == save[s].snew
<1>6. got \in Int
  BY <1>5 DEF Failed
<1>7. /\ resp \in Seq(Int) /\ n \in Nat
      /\ Len(Append(resp, got)) = n + 1 /\ ToSet(Append(resp, got)) = ToSet(resp) \cup {got}
      /\ Append(resp, got)[n + 1] = got /\ \A i \in 1..n : Append(resp, got)[i] = resp[i]
  <2>1. resp \in Seq(Int)
    BY <1>1
  <2>2. n \in Nat
    BY <2>1, ToSetOf
  <2>3. Len(Append(resp, got)) = n + 1
    BY <1>6, <2>1, Appending
  <2>4. ToSet(Append(resp, got)) = ToSet(resp) \cup {got}
    BY <1>6, <2>1, Appending
  <2>5. Append(resp, got)[n + 1] = got
    BY <1>6, <2>1, Appending
  <2>6. \A i \in 1..n : Append(resp, got)[i] = resp[i]
    BY <1>6, <2>1, Appending
  <2> QED BY <2>1, <2>2, <2>3, <2>4, <2>5, <2>6
<1>8. /\ Len(q) = Len(Tail(q)) + 1 /\ Len(Tail(q)) \in Nat /\ Tail(q) \in Seq(CallType)
      /\ DOMAIN q = 1..Len(q) /\ DOMAIN Tail(q) = 1..Len(Tail(q))
      /\ \A i \in 1..Len(Tail(q)) : Tail(q)[i] = q[i + 1]
  <2>1. q \in Seq(CallType) /\ q # <<>>
    BY <1>1
  <2> HIDE DEF q
  <2>2. \A i \in 1..Len(Tail(q)) : Tail(q)[i] = q[i + 1]
    BY <2>1
  <2>3. Len(q) = Len(Tail(q)) + 1 /\ Len(Tail(q)) \in Nat /\ Tail(q) \in Seq(CallType)
    BY <2>1, FirstAndRest
  <2> QED BY <2>1, <2>2, <2>3, ToSetOf
<1>9. /\ save'[s].todo = Tail(q) /\ save'[s].resp = Append(resp, got) /\ save'[s].snew = snew
      /\ NextCall(s) = q[1] /\ DOMAIN snew = 1..Len(snew) /\ Len(snew) \in Nat
      /\ Len(snew) <= Len(q) + n
  <2>1. DOMAIN snew = 1..Len(snew) /\ Len(snew) \in Nat
    BY <1>1, ToSetOf
  <2>2. Len(snew) <= Len(q) + n
    BY <1>1 DEF TypeInv, AddsFit
  <2> QED BY <1>4, <1>5, <2>1, <2>2 DEF NextCall
<1>10. AddsRise(s) /\ RepliesInOrder(s)
       /\ save[s].mixed = (reorder /\ Deletes # <<>> /\ Creates # <<>>)
       /\ (save[s].clean /\ Failed \notin ToSet(resp) => Tidy(s)) /\ (save[s].clean => ~dirty)
  BY <1>3 DEF Exactly
<1>11. \A i, j \in 1..Len(q) :
         i < j /\ q[i].op = "add" /\ q[j].op = "add" => Place(base, q[i].section.id) < Place(base, q[j].section.id)
  BY <1>8, <1>10 DEF AddsRise
<1>12. Ids(base) \subseteq Ids(cur) =>
         \A k \in DOMAIN snew :
           IF k <= n
           THEN \/ resp[k] = Failed
                \/ \E e \in ToSet(server) : e.id = resp[k] /\ e.of = snew[k]
           ELSE q[k - n].op = "add" /\ q[k - n].section.id = snew[k]
  BY <1>10 DEF RepliesInOrder
<1> HIDE DEF q, resp, n, snew
<1>13. AddsRise(s)'
  <2> SUFFICES ASSUME NEW i \in 1..Len(Tail(q)), NEW j \in 1..Len(Tail(q)), i < j,
                      Tail(q)[i].op = "add", Tail(q)[j].op = "add"
               PROVE  Place(base, Tail(q)[i].section.id) < Place(base, Tail(q)[j].section.id)
    BY <1>2, <1>8, <1>9 DEF AddsRise
  <2>1. i + 1 \in 1..Len(q) /\ j + 1 \in 1..Len(q) /\ i + 1 < j + 1
    BY <1>8
  <2> QED BY <1>8, <1>11, <2>1
<1>14. RepliesInOrder(s)'
  <2> DEFINE t == Tail(q)
             r1 == Append(resp, got)
  <2>1. save'[s].todo = t /\ save'[s].resp = r1 /\ save'[s].snew = snew /\ Len(r1) = n + 1
    BY <1>7, <1>9
  <2>2. SUFFICES ASSUME Ids(base) \subseteq Ids(cur), NEW k \in DOMAIN snew
                 PROVE  /\ k <= n + 1 => \/ r1[k] = Failed
                                         \/ \E e \in ToSet(server') : e.id = r1[k] /\ e.of = snew[k]
                        /\ ~(k <= n + 1) => t[k - (n + 1)].op = "add" /\ t[k - (n + 1)].section.id = snew[k]
    <3> HIDE DEF t, r1
    <3> QED BY <1>2, <2>1, <2>2 DEF RepliesInOrder
  <2>3. k \in 1..Len(snew)
    BY <1>9
  <2>4. /\ k <= n => \/ resp[k] = Failed
                     \/ \E e \in ToSet(server) : e.id = resp[k] /\ e.of = snew[k]
        /\ ~(k <= n) => q[k - n].op = "add" /\ q[k - n].section.id = snew[k]
    BY <1>12, <2>2
  <2>5. CASE k <= n
    <3>1. k \in 1..n /\ r1[k] = resp[k] /\ k <= n + 1
      BY <1>7, <2>3, <2>5
    <3>2. CASE resp[k] = Failed
      BY <3>1, <3>2
    <3>3. CASE resp[k] # Failed
      <4>1. PICK e \in ToSet(server) : e.id = resp[k] /\ e.of = snew[k]
        BY <2>4, <2>5, <3>3
      <4>2. PICK f \in ToSet(server') : f.id = e.id /\ f.of = e.of
        BY <2>2
      <4> QED BY <3>1, <4>1, <4>2
    <3> QED BY <3>2, <3>3
  <2>6. CASE k = n + 1
    <3>1. ~(k <= n) /\ k - n = 1 /\ k <= n + 1
      BY <1>7, <2>6
    <3>2. q[1].op = "add" /\ q[1].section.id = snew[k]
      BY <2>4, <3>1
    <3>3. r1[k] = got
      BY <1>7, <2>6
    <3> QED BY <1>5, <1>9, <3>1, <3>2, <3>3
  <2>7. CASE k > n + 1
    <3>1. ~(k <= n) /\ ~(k <= n + 1) /\ k - (n + 1) \in 1..Len(Tail(q)) /\ (k - (n + 1)) + 1 = k - n
      BY <1>7, <1>8, <1>9, <2>3, <2>7
    <3>2. t[k - (n + 1)] = q[k - n]
      BY <1>8, <3>1
    <3> QED BY <2>4, <3>1, <3>2
  <2>8. k <= n \/ k = n + 1 \/ k > n + 1
    BY <1>7, <2>3
  <2> QED BY <2>5, <2>6, <2>7, <2>8
<1>15. save'[s].clean /\ Failed \notin ToSet(save'[s].resp) => Tidy(s)'
  BY <1>4, <1>5, <1>7, <1>9, <1>10
<1>16. Exactly(s)'
  <2>1. Deletes' = Deletes /\ Creates' = Creates
    BY <1>2 DEF Deletes, Creates
  <2>2. save'[s].mixed = (reorder' /\ Deletes' # <<>> /\ Creates' # <<>>)
    BY <1>2, <1>4, <1>10, <2>1
  <2> QED BY <1>4, <1>10, <1>13, <1>14, <1>15, <2>2 DEF Exactly
<1>17. InPlace'
  BY <1>1, <1>2, <1>3, <1>4 DEF InPlace, NamesOf
<1>18. (loaded => Distinct(base))'
  BY <1>2, <1>3 DEF Distinct
<1> QED BY <1>1, <1>16, <1>17, <1>18 DEF ExactInv

\* What a call of a batch is about, and which calls come after it.
LEMMA NextOfBatch ==
  ASSUME LandInv, NEW s \in Savers, save[s].pc = "calls", save[s].todo # <<>>
  PROVE  /\ loaded /\ ServerNames /\ ShownNames /\ BatchFits(s)
         /\ server \in Seq(ServerType) /\ cur \in Seq(Section) /\ base \in Seq(Section)
         /\ save \in [Savers -> SaveType] /\ next \in Nat
         /\ NextCall(s) \in ToSet(save[s].todo)
         /\ NextCall(s).op = "delete" => NextCall(s).section.id \in Ids(base) \ Ids(cur)
         /\ NextCall(s).op = "add" => NextCall(s).section \in ToSet(cur) /\ NextCall(s).section.id < 0
         /\ \A c \in ToSet(save[s].todo) : c = NextCall(s) \/ c \in ToSet(Tail(save[s].todo))
         /\ \A c \in ToSet(Tail(save[s].todo)) :
              /\ c \in ToSet(save[s].todo)
              /\ \E i \in DOMAIN save[s].todo : 1 \in DOMAIN save[s].todo /\ 1 < i /\ c = save[s].todo[i]
<1>1. /\ save[s].todo \in Seq(CallType) /\ server \in Seq(ServerType) /\ cur \in Seq(Section)
      /\ base \in Seq(Section) /\ save \in [Savers -> SaveType] /\ next \in Nat
  BY DEF LandInv, SyncInv, TypeInv, TypeOK, SaveType, ServerType
<1>2. loaded /\ ServerNames /\ ShownNames /\ BatchFits(s)
  BY DEF LandInv, Underway
<1> DEFINE q == save[s].todo
<1>3. q \in Seq(CallType) /\ q # <<>> /\ NextCall(s) = q[1]
  BY <1>1 DEF NextCall
<1> HIDE DEF q
<1>4. ToSet(q) = {NextCall(s)} \cup ToSet(Tail(q)) /\ Tail(q) \in Seq(CallType)
      /\ Len(q) = Len(Tail(q)) + 1 /\ Len(Tail(q)) \in Nat
  BY <1>3, FirstAndRest
<1>5. \A i \in 1..Len(Tail(q)) : Tail(q)[i] = q[i + 1]
  BY <1>3
<1>6. DOMAIN q = 1..Len(q) /\ \A c \in ToSet(Tail(q)) : \E i \in 1..Len(Tail(q)) : c = Tail(q)[i]
  BY <1>3, <1>4, ToSetOf
<1>7. ASSUME NEW c \in ToSet(Tail(q))
      PROVE  \E i \in DOMAIN q : 1 \in DOMAIN q /\ 1 < i /\ c = q[i]
  <2>1. PICK i \in 1..Len(Tail(q)) : c = Tail(q)[i]
    BY <1>6
  <2>2. i + 1 \in DOMAIN q /\ 1 \in DOMAIN q /\ 1 < i + 1 /\ c = q[i + 1]
    BY <1>4, <1>5, <1>6, <2>1
  <2> QED BY <2>2
<1>8. /\ NextCall(s).op = "delete" => NextCall(s).section.id \in Ids(base) \ Ids(cur)
      /\ NextCall(s).op = "add" => NextCall(s).section \in ToSet(cur) /\ NextCall(s).section.id < 0
  BY <1>2, <1>4 DEF BatchFits, q
<1> QED BY <1>1, <1>2, <1>4, <1>7, <1>8 DEF q

LEMMA DeleteTidy ==
  ASSUME ExactInv, NEW s \in Savers, save[s].pc = "calls", ServeDelete(s), Tidy(s),
         save'[s].todo = Tail(save[s].todo)
  PROVE  Tidy(s)'
<1> DEFINE id == NextCall(s).section.id
           S == {e \in ToSet(server) : e.id # id}
<1>1. /\ server' = Only(server, S) /\ save[s].todo # <<>> /\ NextCall(s).op = "delete"
      /\ UNCHANGED <<base, cur>>
  BY DEF ServeDelete, Pending, client
<1>2. /\ server \in Seq(ServerType)
      /\ \A c \in ToSet(save[s].todo) : c = NextCall(s) \/ c \in ToSet(Tail(save[s].todo))
      /\ \A c \in ToSet(Tail(save[s].todo)) : c \in ToSet(save[s].todo)
  <2>1. LandInv
    BY DEF ExactInv
  <2> QED BY <1>1, <2>1, NextOfBatch
<1>3. \A e \in S : e \in ToSet(server) /\ e.id # id
  OBVIOUS
<1> HIDE DEF S
<1>4. server' = Selection(server, S)
  BY <1>1 DEF Only, Selection
<1>5. server' \in Seq(ServerType) /\ Len(server) \in Nat
  BY <1>1, <1>2, OnlyKeeps, ToSetOf
<1>6. PICK f : Embeds(f, server', server, Len(server), S)
  BY <1>2, <1>4, SelectionEmbeds
<1>7. DOMAIN server' = 1..Len(server') /\ DOMAIN server = 1..Len(server)
  BY <1>2, <1>5, ToSetOf
<1>8. /\ \A i \in DOMAIN server' : f[i] \in DOMAIN server /\ server'[i] = server[f[i]] /\ server'[i] \in S
      /\ \A i, j \in DOMAIN server' : i < j => f[i] < f[j]
  BY <1>6, <1>7 DEF Embeds
<1>9. \A i, j \in DOMAIN server : i < j => Place(base, Key(base, server[i])) < Place(base, Key(base, server[j]))
  BY DEF Tidy, Rising, Keys
<1>10. Rising(base, Keys)'
  <2> SUFFICES ASSUME NEW i \in DOMAIN server', NEW j \in DOMAIN server', i < j
               PROVE  Place(base, Key(base, server'[i])) < Place(base, Key(base, server'[j]))
    BY <1>1 DEF Rising, Keys
  <2> QED BY <1>8, <1>9
<1>11. \A e \in ToSet(server') : e \in ToSet(server) /\ e.id # id
  BY <1>3, <1>8 DEF ToSet
<1>12. ASSUME NEW e \in ToSet(server')
       PROVE  /\ \/ Key(base, e) \in Ids(cur)
                 \/ \E c \in ToSet(Tail(save[s].todo)) : c.op = "delete" /\ c.section.id = e.id
              /\ \A c \in ToSet(Tail(save[s].todo)) :
                   c.op = "add" => Place(base, Key(base, e)) < Place(base, c.section.id)
  <2>1. /\ \/ Key(base, e) \in Ids(cur)
           \/ \E c \in ToSet(save[s].todo) : c.op = "delete" /\ c.section.id = e.id
        /\ \A c \in ToSet(save[s].todo) :
             c.op = "add" => Place(base, Key(base, e)) < Place(base, c.section.id)
    BY <1>11 DEF Tidy
  <2>2. \A c \in ToSet(save[s].todo) : c.section.id = e.id => c \in ToSet(Tail(save[s].todo))
    BY <1>2, <1>11
  <2> QED BY <1>2, <2>1, <2>2
<1> QED BY <1>1, <1>10, <1>12 DEF Tidy

LEMMA AddTidy ==
  ASSUME ExactInv, NEW s \in Savers, save[s].pc = "calls", ServeAdd(s), Tidy(s),
         save'[s].todo = Tail(save[s].todo)
  PROVE  Tidy(s)'
<1> DEFINE section == NextCall(s).section
           new == [id |-> next, of |-> section.id, val |-> section.val]
<1>1. /\ server' = Append(server, new) /\ save[s].todo # <<>> /\ NextCall(s).op = "add"
      /\ UNCHANGED <<base, cur>>
  BY DEF ServeAdd, Pending, client
<1>2. LandInv /\ AddsRise(s)
  BY DEF ExactInv, Exactly
<1>3. /\ server \in Seq(ServerType) /\ cur \in Seq(Section) /\ base \in Seq(Section)
      /\ section \in ToSet(cur) /\ ShownNames /\ next \in Nat /\ NextCall(s) \in ToSet(save[s].todo)
      /\ \A c \in ToSet(save[s].todo) : c = NextCall(s) \/ c \in ToSet(Tail(save[s].todo))
      /\ \A c \in ToSet(Tail(save[s].todo)) :
           /\ c \in ToSet(save[s].todo)
           /\ \E i \in DOMAIN save[s].todo : 1 \in DOMAIN save[s].todo /\ 1 < i /\ c = save[s].todo[i]
  BY <1>1, <1>2, NextOfBatch
<1>4. section.id \in Ids(cur) /\ section.id \in Int /\ section.val \in Vals /\ new.id = next
      /\ new.of = section.id /\ new \in ServerType
  <2>1. section.id \in Int /\ section.val \in Vals /\ section.id \in Ids(cur)
    BY <1>3, SectionIds, ToSetOf
  <2> QED BY <1>3, <2>1 DEF ServerType
<1> HIDE DEF new, section
<1>5. Key(base, new) = section.id
  <2>1. next \notin Ids(base)
    BY <1>3 DEF ShownNames
  <2> QED BY <1>4, <2>1 DEF Key
<1>6. /\ server' \in Seq(ServerType) /\ Len(server') = Len(server) + 1
      /\ ToSet(server') = ToSet(server) \cup {new} /\ server'[Len(server) + 1] = new
      /\ \A i \in 1..Len(server) : server'[i] = server[i]
  BY <1>1, <1>3, <1>4, Appending
<1>7. /\ DOMAIN server = 1..Len(server) /\ Len(server) \in Nat /\ DOMAIN server' = 1..(Len(server) + 1)
      /\ \A i \in 1..Len(server) : server[i] \in ToSet(server)
  BY <1>3, <1>6, ToSetOf
<1>8. \A i, j \in DOMAIN server : i < j => Place(base, Key(base, server[i])) < Place(base, Key(base, server[j]))
  BY DEF Tidy, Rising, Keys
<1>9. /\ \A e \in ToSet(server) :
           /\ Key(base, e) \in Ids(cur) \/ \E c \in ToSet(save[s].todo) : c.op = "delete" /\ c.section.id = e.id
           /\ \A c \in ToSet(save[s].todo) :
                c.op = "add" => Place(base, Key(base, e)) < Place(base, c.section.id)
  BY DEF Tidy
<1>10. Rising(base, Keys)'
  <2> SUFFICES ASSUME NEW i \in 1..(Len(server) + 1), NEW j \in 1..(Len(server) + 1), i < j
               PROVE  Place(base, Key(base, server'[i])) < Place(base, Key(base, server'[j]))
    BY <1>1, <1>7 DEF Rising, Keys
  <2>1. i \in 1..Len(server) /\ server'[i] = server[i] /\ server[i] \in ToSet(server)
    BY <1>6, <1>7
  <2>2. CASE j \in 1..Len(server)
    BY <1>6, <1>7, <1>8, <2>1, <2>2
  <2>3. CASE j = Len(server) + 1
    <3>1. Place(base, Key(base, server[i])) < Place(base, section.id)
      BY <1>1, <1>3, <1>9, <2>1 DEF section
    <3> QED BY <1>5, <1>6, <2>1, <2>3, <3>1
  <2> QED BY <1>7, <2>2, <2>3
<1>11. \A c \in ToSet(Tail(save[s].todo)) : c.op = "add" => Place(base, section.id) < Place(base, c.section.id)
  <2> SUFFICES ASSUME NEW c \in ToSet(Tail(save[s].todo)), c.op = "add"
               PROVE  Place(base, section.id) < Place(base, c.section.id)
    OBVIOUS
  <2>1. PICK i \in DOMAIN save[s].todo : 1 \in DOMAIN save[s].todo /\ 1 < i /\ c = save[s].todo[i]
    BY <1>3
  <2> QED BY <1>1, <1>2, <2>1 DEF AddsRise, NextCall, section
<1>12. ASSUME NEW e \in ToSet(server')
       PROVE  /\ \/ Key(base, e) \in Ids(cur)
                 \/ \E c \in ToSet(Tail(save[s].todo)) : c.op = "delete" /\ c.section.id = e.id
              /\ \A c \in ToSet(Tail(save[s].todo)) :
                   c.op = "add" => Place(base, Key(base, e)) < Place(base, c.section.id)
  <2>1. CASE e = new
    BY <1>4, <1>5, <1>11, <2>1
  <2>2. CASE e # new
    <3>1. e \in ToSet(server)
      BY <1>6, <2>2
    <3>2. \A c \in ToSet(save[s].todo) : c.op = "delete" => c \in ToSet(Tail(save[s].todo))
      <4>1. "delete" # "add"
        OBVIOUS
      <4> QED BY <1>1, <1>3, <4>1
    <3> QED BY <1>3, <1>9, <3>1, <3>2
  <2> QED BY <2>1, <2>2
<1> QED BY <1>1, <1>10, <1>12 DEF Tidy

LEMMA SetTidy ==
  ASSUME ExactInv, NEW s \in Savers, save[s].pc = "calls", ServeSet(s), Tidy(s),
         save'[s].todo = Tail(save[s].todo)
  PROVE  Tidy(s)'
<1> DEFINE id == NextCall(s).section.id
           val == NextCall(s).section.val
           set(e) == IF e.id = id THEN [e EXCEPT !.val = val] ELSE e
<1>1. /\ server' = [i \in DOMAIN server |-> set(server[i])] /\ save[s].todo # <<>>
      /\ NextCall(s).op = "set" /\ UNCHANGED <<base, cur>>
  BY DEF ServeSet, Pending, client
<1>2. /\ server \in Seq(ServerType)
      /\ \A c \in ToSet(save[s].todo) : c = NextCall(s) \/ c \in ToSet(Tail(save[s].todo))
      /\ \A c \in ToSet(Tail(save[s].todo)) : c \in ToSet(save[s].todo)
  <2>1. LandInv
    BY DEF ExactInv
  <2> QED BY <1>1, <2>1, NextOfBatch
<1>3. \A e \in ServerType : set(e).id = e.id /\ set(e).of = e.of
  BY DEF ServerType
<1> HIDE DEF set, id, val
<1>4. /\ DOMAIN server' = DOMAIN server
      /\ \A i \in DOMAIN server : server'[i].id = server[i].id /\ server'[i].of = server[i].of
  BY <1>1, <1>2, <1>3, ToSetOf
<1>5. \A i \in DOMAIN server : Key(base, server'[i]) = Key(base, server[i])
  BY <1>4 DEF Key
<1>6. Rising(base, Keys)'
  <2>1. \A i, j \in DOMAIN server : i < j => Place(base, Key(base, server[i])) < Place(base, Key(base, server[j]))
    BY DEF Tidy, Rising, Keys
  <2> QED BY <1>1, <1>4, <1>5, <2>1 DEF Rising, Keys
<1>7. ASSUME NEW e \in ToSet(server')
      PROVE  /\ \/ Key(base, e) \in Ids(cur)
                \/ \E c \in ToSet(Tail(save[s].todo)) : c.op = "delete" /\ c.section.id = e.id
             /\ \A c \in ToSet(Tail(save[s].todo)) :
                  c.op = "add" => Place(base, Key(base, e)) < Place(base, c.section.id)
  <2>1. PICK i \in DOMAIN server : e = server'[i]
    BY <1>4 DEF ToSet
  <2>2. server[i] \in ToSet(server) /\ server[i].id = e.id /\ Key(base, server[i]) = Key(base, e)
    BY <1>4, <1>5, <2>1 DEF ToSet
  <2>3. /\ \/ Key(base, e) \in Ids(cur)
           \/ \E c \in ToSet(save[s].todo) : c.op = "delete" /\ c.section.id = e.id
        /\ \A c \in ToSet(save[s].todo) :
             c.op = "add" => Place(base, Key(base, e)) < Place(base, c.section.id)
    BY <2>2 DEF Tidy
  <2>4. \A c \in ToSet(save[s].todo) : c.op = "delete" => c \in ToSet(Tail(save[s].todo))
    <3>1. "delete" # "set"
      OBVIOUS
    <3> QED BY <1>1, <1>2, <3>1
  <2> QED BY <1>2, <2>3, <2>4
<1> QED BY <1>1, <1>6, <1>7 DEF Tidy

\* What is selected is all there is, if it all belongs to the set.
LEMMA OnlyAll ==
  ASSUME NEW T, NEW list \in Seq(T), NEW S, \A i \in 1..Len(list) : list[i] \in S
  PROVE  Len(Only(list, S)) = Len(list) /\ \A i \in 1..Len(list) : Only(list, S)[i] = list[i]
<1> DEFINE sel == Only(list, S)
           n == Len(list)
           m == Len(sel)
<1>1. sel = Selection(list, S)
  BY DEF Only, Selection
<1>2. sel \in Seq(T) /\ n \in Nat
  BY OnlyKeeps, ToSetOf
<1>3. m \in Nat
  BY <1>2, ToSetOf
<1>4. PICK f : Embeds(f, sel, list, n, S)
  BY <1>1, SelectionEmbeds
<1> HIDE DEF sel, n, m
<1>5. /\ \A i \in 1..m : f[i] \in 1..n /\ sel[i] = list[f[i]]
      /\ \A i, j \in 1..m : i < j => f[i] < f[j]
      /\ \A k \in 1..n : \E i \in 1..m : f[i] = k
  BY <1>4 DEF Embeds, n, m
<1>6. \A i \in 1..m : f[i] = i
  <2> DEFINE Bad == {i \in 1..m : f[i] # i}
  <2>1. ASSUME Bad # {} PROVE FALSE
    <3>1. Bad \in SUBSET Nat
      OBVIOUS
    <3>2. PICK k \in Bad : \A i \in Bad : k <= i
      BY <2>1, <3>1, LeastNumber
    <3>3. k \in 1..m /\ f[k] # k /\ \A i \in 1..m : i < k => f[i] = i
      BY <1>3, <3>2
    <3> HIDE DEF Bad
    <3>4. f[k] > k
      <4>1. f[k] \in 1..n
        BY <1>5, <3>3
      <4>2. CASE k = 1
        BY <1>2, <3>3, <4>1, <4>2
      <4>3. CASE k # 1
        <5>1. k - 1 \in 1..m /\ k - 1 < k
          BY <1>3, <3>3, <4>3
        <5>2. f[k - 1] = k - 1 /\ f[k - 1] < f[k]
          BY <1>5, <3>3, <5>1
        <5> QED BY <1>2, <1>3, <3>3, <4>1, <5>2
      <4> QED BY <4>2, <4>3
    <3>5. k \in 1..n
      BY <1>2, <1>3, <1>5, <3>3, <3>4
    <3>6. PICK i \in 1..m : f[i] = k
      BY <1>5, <3>5
    <3>7. i # k /\ ~(i < k)
      BY <1>3, <3>3, <3>6
    <3>8. k < i
      BY <1>3, <3>3, <3>7
    <3>9. f[k] < f[i]
      BY <1>5, <3>3, <3>8
    <3> QED BY <1>2, <1>5, <3>3, <3>4, <3>6, <3>9
  <2> QED BY <2>1
<1>7. m = n
  <2>1. n > 0 => n \in 1..m
    BY <1>2, <1>5, <1>6
  <2>2. m > 0 => m \in 1..n
    BY <1>3, <1>5, <1>6
  <2> QED BY <1>2, <1>3, <2>1, <2>2
<1> QED BY <1>5, <1>6, <1>7 DEF sel, n, m

\* If all sections are named, each once, they come in the order of the names.
LEMMA ReorderingAll ==
  ASSUME server \in Seq(ServerType), NEW names \in Seq(Int),
         \A i \in DOMAIN names : names[i] \in Ids(server),
         \A e \in ToSet(server) : e.id \in ToSet(names)
  PROVE  /\ Len(Reordered(names)) = Len(names)
         /\ \A i \in 1..Len(names) :
              Reordered(names)[i] \in ToSet(server) /\ Reordered(names)[i].id = names[i]
<1> DEFINE found == Only(names, Ids(server))
           first == [i \in DOMAIN found |-> CHOOSE e \in ToSet(server) : e.id = found[i]]
           rest == Only(server, {e \in ToSet(server) : e.id \notin ToSet(found)})
           n == Len(names)
<1>1. DOMAIN names = 1..n /\ n \in Nat
  BY ToSetOf
<1>2. found \in Seq(Int) /\ Len(found) = n /\ \A i \in 1..n : found[i] = names[i]
  BY <1>1, OnlyAll, OnlyKeeps
<1>3. Reordered(names) = first \o rest
  BY DEF Reordered
<1> HIDE DEF found
<1>4. DOMAIN found = 1..n /\ ToSet(found) = ToSet(names)
  <2>1. ToSet(found) = {found[i] : i \in 1..n} /\ ToSet(names) = {names[i] : i \in 1..n}
    BY <1>2, ToSetOf
  <2> QED BY <1>2, <2>1, ToSetOf
<1>5. \A i \in 1..n : first[i] \in ToSet(server) /\ first[i].id = names[i]
  BY <1>1, <1>2, <1>4, Found
<1>6. first \in Seq(ServerType) /\ Len(first) = n
  <2>1. ToSet(server) \subseteq ServerType
    BY ToSetOf
  <2> QED BY <1>1, <1>4, <1>5, <2>1
<1>7. rest \in Seq(ServerType) /\ ToSet(rest) = {}
  <2> DEFINE S == {e \in ToSet(server) : e.id \notin ToSet(found)}
  <2>1. S = {}
    BY <1>4
  <2>2. ToSet(Only(server, S)) = ToSet(server) \cap S /\ Only(server, S) \in Seq(ServerType)
    BY OnlyKeeps
  <2> QED BY <2>1, <2>2
<1> HIDE DEF first, rest, n
<1>8. rest = <<>>
  BY <1>7, NoElements
<1>9. Reordered(names) = first
  BY <1>3, <1>6, <1>8
<1> QED BY <1>5, <1>6, <1>9 DEF n

\* The sections reordered are as many, and as shown if the order names all.
LEMMA OrderedMatches ==
  ASSUME LandInv, NEW s \in Savers, save[s].pc = "order", ServeOrder(s), Ordered(s),
         save'[s].todo = Tail(save[s].todo), save'[s].goal = save[s].goal,
         save'[s].mixed = save[s].mixed
  PROVE  Ordered(s)'
<1> DEFINE names == NextCall(s).order
           goal == save[s].goal
<1>1. /\ server' = Reordered(names) /\ save[s].todo # <<>> /\ NextCall(s).op = "order"
      /\ names \in Seq(Int)
  <2>1. TypeOK
    BY DEF LandInv, SyncInv, TypeInv
  <2> QED BY <2>1, PendingCall DEF ServeOrder, Pending
<1>2. /\ server \in Seq(ServerType) /\ save[s].todo \in Seq(CallType) /\ goal \in Seq(Section)
      /\ ServerNames /\ Distinct(server)
  BY DEF LandInv, SyncInv, TypeInv, TypeOK, SaveType, ServerType, ServerNames
<1>3. NextCall(s) \in ToSet(save[s].todo) /\ ToSet(Tail(save[s].todo)) \subseteq ToSet(save[s].todo)
  BY <1>1, <1>2, FirstAndRest DEF NextCall
<1>4. NamesDiffer(names)
  BY <1>3 DEF LandInv, Underway
<1>5. /\ Len(server) = Len(goal)
      /\ ~save[s].mixed => \A c \in ToSet(save[s].todo) : NamesAll(c.order, goal)
  BY DEF Ordered
<1> HIDE DEF names, goal
<1>6. \A i \in Ids(server) : i > 0
  <2>1. Ids(server) = {e.id : e \in ToSet(server)} /\ \A e \in ToSet(server) : e.id \in Nat
    BY <1>2, ToSetOf, ServerIds
  <2> QED BY <1>2, <2>1 DEF ServerNames
<1>7. \A i, j \in DOMAIN names : names[i] = names[j] /\ names[i] \in Ids(server) => i = j
  BY <1>4, <1>6 DEF NamesDiffer
<1>8. ToSet(server') = ToSet(server) /\ Distinct(server') /\ server' \in Seq(ServerType)
  <2>1. ToSet(Reordered(names)) = ToSet(server) /\ Distinct(Reordered(names))
    BY <1>1, <1>2, <1>7, Reordering
  <2>2. Reordered(names) \in Seq(ServerType)
    BY <1>1, <1>2, Reordering
  <2> QED BY <1>1, <2>1, <2>2 DEF Distinct
<1>9. Len(server') = Len(goal)
  <2>1. Once(server) /\ Once(server')
    BY <1>2, <1>8 DEF Once, Distinct
  <2> QED BY <1>2, <1>5, <1>8, <2>1, OnceCounts
<1>10. ASSUME ~save[s].mixed
       PROVE  /\ \A c \in ToSet(Tail(save[s].todo)) :
                   /\ Len(c.order) = Len(goal)
                   /\ \A i \in DOMAIN goal :
                        \E e \in ToSet(server') : e.id = c.order[i] /\ StandsFor(e, goal[i])
                   /\ \A e \in ToSet(server') : e.id \in ToSet(c.order)
              /\ \A i \in DOMAIN goal : i \in DOMAIN server' /\ StandsFor(server'[i], goal[i])
  <2>1. \A c \in ToSet(save[s].todo) : NamesAll(c.order, goal)
    BY <1>5, <1>10
  <2>2. \A c \in ToSet(Tail(save[s].todo)) :
          /\ Len(c.order) = Len(goal)
          /\ \A i \in DOMAIN goal : \E e \in ToSet(server') : e.id = c.order[i] /\ StandsFor(e, goal[i])
          /\ \A e \in ToSet(server') : e.id \in ToSet(c.order)
    BY <1>3, <1>8, <2>1 DEF NamesAll
  <2>3. /\ Len(names) = Len(goal)
        /\ \A i \in DOMAIN goal : \E e \in ToSet(server) : e.id = names[i] /\ StandsFor(e, goal[i])
        /\ \A e \in ToSet(server) : e.id \in ToSet(names)
    BY <1>3, <2>1 DEF NamesAll, names
  <2>4. /\ DOMAIN names = 1..Len(names) /\ DOMAIN goal = 1..Len(goal)
        /\ DOMAIN server' = 1..Len(server') /\ Ids(server) = {e.id : e \in ToSet(server)}
    BY <1>1, <1>2, <1>8, ToSetOf
  <2>5. \A i \in DOMAIN names : names[i] \in Ids(server)
    BY <2>3, <2>4
  <2>6. \A i \in 1..Len(names) : server'[i] \in ToSet(server) /\ server'[i].id = names[i]
    BY <1>1, <1>2, <2>3, <2>5, ReorderingAll
  <2>7. ASSUME NEW i \in DOMAIN goal PROVE i \in DOMAIN server' /\ StandsFor(server'[i], goal[i])
    <3>1. PICK e \in ToSet(server) : e.id = names[i] /\ StandsFor(e, goal[i])
      BY <2>3
    <3>2. server'[i] = e
      BY <1>2, <2>3, <2>4, <2>6, <3>1, DistinctSame
    <3> QED BY <1>9, <2>4, <3>1, <3>2
  <2> QED BY <2>2, <2>7
<1>11. save'[s].todo = Tail(save[s].todo) /\ save'[s].goal = goal /\ save'[s].mixed = save[s].mixed
  BY DEF goal
<1>12. Matches(s)'
  BY <1>9, <1>10, <1>11 DEF Matches, StandsFor
<1>13. (~save[s].mixed => \A c \in ToSet(save[s].todo) : NamesAll(c.order, save[s].goal))'
  BY <1>10, <1>11 DEF NamesAll, StandsFor
<1>14. (Len(server) = Len(save[s].goal))'
  BY <1>9, <1>11
<1> QED BY <1>12, <1>13, <1>14 DEF Ordered

\* The answers of the server.
LEMMA ServeExact == ASSUME OneSaver, ExactInv, NEW s \in Savers, Serve(s) PROVE ExactInv'
<1>1. /\ s \in Busy /\ save[s].todo # <<>> /\ UNCHANGED client /\ UNCHANGED dirty
  BY DEF Serve, ServeDelete, ServeAdd, ServeSet, ServeOrder, ServeLoad, ServeFailing, Pending
<1>2. LandInv /\ LandInv' /\ TypeInv /\ TypeOK
  BY ServeStands DEF ExactInv, LandInv, SyncInv, TypeInv
<1>3. /\ Savers = {s} /\ save \in [Savers -> SaveType] /\ save[s].resp \in Seq(Int)
      /\ next \in Int /\ NoName \in Int /\ Failed \in Int /\ NoName # Failed
  BY <1>2 DEF OneSaver, TypeOK, SaveType, Failed, NoName
<1>4. UNCHANGED <<loaded, base, cur, reorder>>
  BY <1>1 DEF client
<1>5. Exactly(s) /\ (loaded => Distinct(base)) /\ InPlace
  BY DEF ExactInv
<1>6. ASSUME save[s].pc \in {"order", "load"}, save'[s].pc = save[s].pc,
             save[s].pc = "order" /\ save'[s].clean /\ Failed \notin ToSet(save'[s].resp) => Ordered(s)',
             save[s].pc = "load" /\ save'[s].clean => Matches(s)'
      PROVE  ExactInv'
  <2>1. Exactly(s)'
    BY <1>6 DEF Exactly
  <2>2. InPlace'
    <3>1. (\A o \in Savers : save'[o].pc # "order") <=> (\A o \in Savers : save[o].pc # "order")
      BY <1>3, <1>6
    <3>2. NamesOf(cur)' = NamesOf(cur)
      BY <1>4 DEF NamesOf
    <3> QED BY <1>1, <1>4, <1>5, <3>1, <3>2 DEF InPlace
  <2>3. (loaded => Distinct(base))'
    BY <1>4, <1>5 DEF Distinct
  <2> QED BY <1>2, <1>3, <2>1, <2>2, <2>3 DEF ExactInv
<1>7. CASE ServeDelete(s)
  <2>1. save[s].pc = "calls" /\ NextCall(s).op = "delete" /\ Reply(s, NoName)
    BY <1>1, <1>2, <1>7, CallOfPhase DEF ServeDelete, Pending
  <2>2. save'[s].todo = Tail(save[s].todo)
    BY <1>1, <1>3, <2>1, Replying
  <2>3. Tidy(s) => Tidy(s)'
    BY <1>7, <2>1, <2>2, DeleteTidy
  <2>4. ~(Ids(base) \subseteq Ids(cur))
    BY <1>1, <1>2, <2>1, NextOfBatch
  <2>5. NextCall(s).op # "add"
    BY <2>1
  <2> QED BY <1>1, <1>2, <1>3, <2>1, <2>3, <2>4, <2>5, AnswerExact
<1>8. CASE ServeAdd(s)
  <2>1. save[s].pc = "calls" /\ NextCall(s).op = "add" /\ Reply(s, next)
    BY <1>1, <1>2, <1>8, CallOfPhase DEF ServeAdd, Pending
  <2>2. save'[s].todo = Tail(save[s].todo)
    BY <1>1, <1>3, <2>1, Replying
  <2>3. Tidy(s) => Tidy(s)'
    BY <1>8, <2>1, <2>2, AddTidy
  <2> DEFINE new == [id |-> next, of |-> NextCall(s).section.id, val |-> NextCall(s).section.val]
  <2>4. server' = Append(server, new) /\ new.id = next /\ new.of = NextCall(s).section.id
    BY <1>8 DEF ServeAdd
  <2>5. ToSet(server') = ToSet(server) \cup {new}
    <3>1. \A q : ToSet(q) = Elements(q)
      BY DEF ToSet, Elements
    <3>2. server \in Seq(ServerType \cup {new})
      <4>1. server \in Seq(ServerType)
        BY <1>2 DEF TypeOK, ServerType
      <4> HIDE DEF new
      <4> QED BY <4>1
    <3>3. new \in ServerType \cup {new}
      OBVIOUS
    <3> HIDE DEF new
    <3> QED BY <2>4, <3>2, <3>3, Appending
  <2> HIDE DEF new
  <2>6. \A e \in ToSet(server) : \E f \in ToSet(server') : f.id = e.id /\ f.of = e.of
    BY <2>5
  <2>7. \E e \in ToSet(server') : e.id = next /\ e.of = NextCall(s).section.id
    BY <2>4, <2>5
  <2> QED BY <1>1, <1>2, <1>3, <2>1, <2>3, <2>6, <2>7, AnswerExact
<1>9. CASE ServeSet(s)
  <2>1. save[s].pc = "calls" /\ NextCall(s).op = "set" /\ Reply(s, NoName)
    BY <1>1, <1>2, <1>9, CallOfPhase DEF ServeSet, Pending
  <2>2. save'[s].todo = Tail(save[s].todo)
    BY <1>1, <1>3, <2>1, Replying
  <2>3. Tidy(s) => Tidy(s)'
    BY <1>9, <2>1, <2>2, SetTidy
  <2> DEFINE set(e) == IF e.id = NextCall(s).section.id
                       THEN [e EXCEPT !.val = NextCall(s).section.val] ELSE e
  <2>4. server' = [i \in DOMAIN server |-> set(server[i])]
    BY <1>9 DEF ServeSet
  <2>5. \A e \in ToSet(server) : set(e).id = e.id /\ set(e).of = e.of
    <3>1. ToSet(server) \subseteq ServerType
      <4>1. server \in Seq(ServerType)
        BY <1>2 DEF TypeOK, ServerType
      <4> QED BY <4>1, ToSetOf
    <3>2. \A e \in ServerType : set(e).id = e.id /\ set(e).of = e.of
      BY DEF ServerType
    <3> QED BY <3>1, <3>2
  <2> HIDE DEF set
  <2>6. \A e \in ToSet(server) : \E f \in ToSet(server') : f.id = e.id /\ f.of = e.of
    BY <2>4, <2>5 DEF ToSet
  <2>7. NextCall(s).op # "add"
    BY <2>1
  <2> QED BY <1>1, <1>2, <1>3, <2>1, <2>3, <2>6, <2>7, AnswerExact
<1>10. CASE ServeOrder(s)
  <2>1. save[s].pc = "order" /\ Reply(s, NoName)
    BY <1>1, <1>2, <1>10, CallOfPhase DEF ServeOrder, Pending
  <2>2. /\ save'[s].todo = Tail(save[s].todo) /\ save'[s].pc = save[s].pc
        /\ save'[s].goal = save[s].goal /\ save'[s].clean = save[s].clean
        /\ save'[s].mixed = save[s].mixed
        /\ save'[s].resp \in {Append(save[s].resp, NoName), Append(save[s].resp, Failed)}
    BY <1>1, <1>3, <2>1, Replying
  <2>3. Failed \in ToSet(save[s].resp) => Failed \in ToSet(save'[s].resp)
    <3>1. \A r \in Int : ToSet(Append(save[s].resp, r)) = ToSet(save[s].resp) \cup {r}
      BY <1>3, Appending
    <3> QED BY <1>3, <2>2, <3>1
  <2>4. Ordered(s) => Ordered(s)'
    BY <1>2, <1>10, <2>1, <2>2, OrderedMatches
  <2> QED BY <1>5, <1>6, <2>1, <2>2, <2>3, <2>4 DEF Exactly
<1>11. CASE ServeLoad(s)
  <2>1. save[s].pc = "load" /\ server' = server
    BY <1>1, <1>2, <1>11, CallOfPhase DEF ServeLoad, Pending
  <2>2. /\ save'[s].pc = save[s].pc /\ save'[s].goal = save[s].goal
        /\ save'[s].clean = save[s].clean /\ save'[s].mixed = save[s].mixed
    BY <1>2, <1>11, LoadReply
  <2>3. save'[s].clean => Matches(s)'
    BY <1>5, <2>1, <2>2 DEF Exactly, Matches
  <2> QED BY <1>6, <2>1, <2>2, <2>3
<1>12. CASE ServeFailing(s)
  <2>1. Reply(s, Failed) /\ server' = server
    BY <1>12 DEF ServeFailing
  <2>2. /\ save'[s].todo = Tail(save[s].todo) /\ save'[s].pc = save[s].pc
        /\ save'[s].goal = save[s].goal /\ save'[s].clean = save[s].clean
        /\ save'[s].mixed = save[s].mixed /\ save'[s].resp = Append(save[s].resp, Failed)
    BY <1>1, <1>3, <2>1, Replying
  <2>3. Failed \in ToSet(save'[s].resp)
    <3>1. ToSet(Append(save[s].resp, Failed)) = ToSet(save[s].resp) \cup {Failed}
      BY <1>3, Appending
    <3> QED BY <2>2, <3>1
  <2>4. CASE save[s].pc = "calls"
    BY <1>1, <1>2, <1>3, <2>1, <2>4, AnswerExact
  <2>5. CASE save[s].pc # "calls"
    <3>1. save[s].pc \in {"order", "load"}
      BY <1>1, <2>5 DEF Busy
    <3>2. save[s].pc = "load" /\ save'[s].clean => Matches(s)'
      BY <1>5, <2>1, <2>2 DEF Exactly, Matches
    <3> QED BY <1>6, <2>2, <2>3, <3>1, <3>2
  <2> QED BY <2>4, <2>5
<1> QED BY <1>7, <1>8, <1>9, <1>10, <1>11, <1>12 DEF Serve

\* What stands for a section shown: the section loaded under its name, or what
\* was added for it.
LEMMA StandsByKey ==
  ASSUME server \in Seq(ServerType), cur \in Seq(Section), base \in Seq(Section),
         ServerNames, ShownNames, Apart,
         NEW e \in ToSet(server), NEW g \in ToSet(cur), StandsFor(e, g)
  PROVE  Key(base, e) = g.id /\ (g.id >= 0 => e.id = g.id)
<1>1. /\ e.id \in Int /\ e.of \in Int /\ e.id >= 1 /\ (e.of >= 0 => e.of = e.id)
      /\ g.id \in Int /\ g.id \in Ids(cur) /\ (g.id >= 0 => g.id \in Ids(base))
  BY ServerIds, SectionIds, ToSetOf DEF ServerNames, ShownNames
<1>2. CASE g.id >= 0
  <2>1. e.id = g.id
    BY <1>1, <1>2 DEF StandsFor
  <2> QED BY <1>1, <1>2, <2>1 DEF Key
<1>3. CASE g.id < 0
  <2>1. e.of = g.id
    BY <1>1, <1>3 DEF StandsFor
  <2>2. e.id \notin Ids(base)
    BY <1>1, <1>3, <2>1 DEF Apart
  <2> QED BY <1>1, <1>3, <2>1, <2>2 DEF Key
<1> QED BY <1>1, <1>2, <1>3

\* When all calls are served the server has what is shown, and nothing else.
LEMMA AllServed ==
  ASSUME LandInv, Distinct(base), NEW s \in Savers, save[s].pc = "calls",
         save[s].todo = <<>>, Failed \notin ToSet(save[s].resp), Tidy(s)
  PROVE  /\ Len(server) = Len(cur)
         /\ \A e \in ToSet(server) : Key(base, e) \in Ids(cur)
         /\ \A g \in ToSet(cur) : \E e \in ToSet(server) : StandsFor(e, g)
         /\ \A e, f \in ToSet(server) : Key(base, e) = Key(base, f) => e = f
         /\ Rising(base, NamesOf(cur)) =>
              \A i \in DOMAIN cur : i \in DOMAIN server /\ StandsFor(server[i], cur[i])
<1>1. /\ server \in Seq(ServerType) /\ cur \in Seq(Section) /\ base \in Seq(Section)
      /\ ServerNames /\ ShownNames /\ Apart /\ Landing(s)
  BY DEF LandInv, SyncInv, TypeInv, TypeOK, ServerType, Underway
<1>2. ToSet(<<>>) = {}
  BY DEF ToSet
<1>3. \A e \in ToSet(server) : Key(base, e) \in Ids(cur)
  BY <1>2 DEF Tidy
<1>4. \A g \in ToSet(cur) : \E e \in ToSet(server) : StandsFor(e, g)
  BY <1>1, <1>2 DEF Landing, Due, Stands
<1>5. \A e \in ToSet(server), g \in ToSet(cur) : StandsFor(e, g) => Key(base, e) = g.id
  BY <1>1, StandsByKey
<1>6. Ids(cur) = {g.id : g \in ToSet(cur)} /\ Ids(cur) \subseteq Int
  BY <1>1, ToSetOf, SectionIds
<1>7. \A i \in Ids(cur) : Place(base, i) \in Int
  <2>1. \A i \in Ids(cur) : i >= 0 => i \in Ids(base)
    BY <1>1, <1>6 DEF ShownNames
  <2>2. /\ \A i \in Ids(base) : Place(base, i) \in Int
        /\ \A i \in Int : i < 0 => Place(base, i) \in Int
    BY <1>1, Places DEF ShownNames
  <2> SUFFICES ASSUME NEW i \in Ids(cur) PROVE Place(base, i) \in Int
    OBVIOUS
  <2>3. i \in Int
    BY <1>6
  <2>4. CASE i >= 0
    BY <2>1, <2>2, <2>4
  <2>5. CASE i < 0
    BY <2>2, <2>3, <2>5
  <2> QED BY <2>3, <2>4, <2>5
<1> DEFINE keys == Keys
           names == NamesOf(cur)
<1>8. /\ DOMAIN server = 1..Len(server) /\ Len(server) \in Nat
      /\ DOMAIN cur = 1..Len(cur) /\ Len(cur) \in Nat
      /\ \A i \in DOMAIN server : server[i] \in ToSet(server)
      /\ \A i \in DOMAIN cur : cur[i] \in ToSet(cur)
      /\ \A e \in ToSet(server) : \E i \in DOMAIN server : e = server[i]
      /\ \A g \in ToSet(cur) : \E i \in DOMAIN cur : g = cur[i]
  BY <1>1, ToSetOf
<1>9. keys = [i \in 1..Len(server) |-> Key(base, server[i])]
      /\ names = [i \in 1..Len(cur) |-> cur[i].id]
  BY <1>8 DEF Keys, NamesOf
<1>10. keys \in Seq(Int) /\ Len(keys) = Len(server) /\ names \in Seq(Int) /\ Len(names) = Len(cur)
  <2>1. \A i \in 1..Len(server) : Key(base, server[i]) \in Int
    BY <1>3, <1>6, <1>8
  <2>2. \A i \in 1..Len(cur) : cur[i].id \in Int
    BY <1>6, <1>8
  <2> QED BY <1>8, <1>9, <2>1, <2>2
<1>11. ToSet(names) = Ids(cur)
  BY <1>8, <1>9 DEF ToSet, Ids
<1>12. ToSet(keys) = Ids(cur)
  <2>1. ToSet(keys) = {Key(base, e) : e \in ToSet(server)}
    BY <1>8, <1>9 DEF ToSet
  <2> QED BY <1>3, <1>4, <1>5, <1>6, <2>1
<1>13. Rising(base, keys)
  BY DEF Tidy
<1> HIDE DEF keys, names
<1>14. Once(keys)
  BY <1>7, <1>10, <1>12, <1>13, RisingOnce
<1>15. Once(names)
  BY <1>1, <1>8, <1>9 DEF ShownNames, Distinct, Once
<1>16. Len(server) = Len(cur)
  BY <1>10, <1>11, <1>12, <1>14, <1>15, OnceCounts
<1>17. ASSUME NEW e \in ToSet(server), NEW f \in ToSet(server), Key(base, e) = Key(base, f)
       PROVE  e = f
  <2>1. PICK i \in DOMAIN server, j \in DOMAIN server : e = server[i] /\ f = server[j]
    BY <1>8
  <2>2. i \in DOMAIN keys /\ j \in DOMAIN keys /\ keys[i] = keys[j]
    BY <1>8, <1>9, <1>17, <2>1
  <2> QED BY <1>14, <2>1, <2>2 DEF Once
<1>18. ASSUME Rising(base, names), NEW i \in DOMAIN cur
       PROVE  i \in DOMAIN server /\ StandsFor(server[i], cur[i])
  <2>1. \A k \in 1..Len(keys) : keys[k] = names[k]
    BY <1>7, <1>10, <1>11, <1>12, <1>13, <1>18, RisingSame
  <2>2. i \in DOMAIN server /\ Key(base, server[i]) = cur[i].id
    BY <1>8, <1>9, <1>10, <1>16, <2>1
  <2>3. PICK e \in ToSet(server) : StandsFor(e, cur[i])
    BY <1>4, <1>8
  <2>4. e = server[i]
    BY <1>5, <1>8, <1>17, <2>2, <2>3
  <2> QED BY <2>2, <2>3, <2>4
<1> QED BY <1>3, <1>4, <1>16, <1>17, <1>18 DEF names

\* Unless sections are deleted and added, the order sent names each section by
\* what stands for it.
LEMMA OrderNamesAll ==
  ASSUME LandInv, Distinct(base), NEW s \in Savers, save[s].pc = "calls",
         save[s].todo = <<>>, Failed \notin ToSet(save[s].resp), Tidy(s),
         RepliesInOrder(s), Deletes = <<>> \/ Creates = <<>>
  PROVE  NamesAll(NamesSent(Renamed(s)), cur)
<1> DEFINE names == NamesSent(Renamed(s))
           snew == save[s].snew
           resp == save[s].resp
<1>1. /\ server \in Seq(ServerType) /\ cur \in Seq(Section) /\ base \in Seq(Section)
      /\ ServerNames /\ ShownNames /\ Apart /\ resp \in Seq(Int)
  BY DEF LandInv, SyncInv, TypeInv, TypeOK, SaveType, ServerType, Underway
<1>2. /\ names \in Seq(Int) /\ DOMAIN names = DOMAIN cur /\ DOMAIN snew \subseteq DOMAIN resp
      /\ \A i \in DOMAIN cur : cur[i].id < 0 =>
           \E k \in DOMAIN snew : snew[k] = cur[i].id /\ names[i] = resp[k]
      /\ \A i \in DOMAIN cur : ~(cur[i].id < 0) => names[i] = cur[i].id
  BY NamesAre
<1>3. /\ \A e \in ToSet(server) : Key(base, e) \in Ids(cur)
      /\ \A g \in ToSet(cur) : \E e \in ToSet(server) : StandsFor(e, g)
      /\ \A e, f \in ToSet(server) : Key(base, e) = Key(base, f) => e = f
  BY AllServed
<1>4. /\ DOMAIN cur = 1..Len(cur) /\ Len(cur) \in Nat /\ DOMAIN names = 1..Len(names)
      /\ Len(names) \in Nat /\ DOMAIN resp = 1..Len(resp) /\ Len(resp) \in Nat
      /\ \A i \in DOMAIN cur : cur[i] \in ToSet(cur)
      /\ \A k \in DOMAIN resp : resp[k] \in ToSet(resp)
      /\ Ids(cur) = {g.id : g \in ToSet(cur)}
  BY <1>1, <1>2, ToSetOf
<1>5. \A g \in ToSet(cur) : g.id \in Int
  BY <1>1, SectionIds
<1>6. Len(names) = Len(cur)
  BY <1>2, <1>4
<1>7. ASSUME NEW i \in DOMAIN cur, cur[i].id < 0 PROVE Ids(base) \subseteq Ids(cur)
  <2>1. cur[i] \in {e \in ToSet(cur) : e.id \notin Ids(base)}
    BY <1>1, <1>4, <1>5, <1>7 DEF ShownNames
  <2>2. cur[i] \in ToSet(Creates) /\ Creates \in Seq(Section)
    BY <1>1, <2>1, OnlyKeeps DEF Creates, Missing
  <2>3. Deletes = <<>>
    BY <2>2, NoElements
  <2>4. TypeOK
    BY DEF LandInv, SyncInv, TypeInv
  <2>5. ToSet(Deletes) = {e \in ToSet(base) : e.id \notin Ids(cur)} /\ Deletes \in Seq(Section)
    BY <2>4, Batched
  <2>6. ToSet(Deletes) = {}
    BY <2>3, <2>5, NoElements
  <2>7. Ids(base) = {e.id : e \in ToSet(base)}
    BY <1>1, ToSetOf
  <2> QED BY <2>5, <2>6, <2>7
<1>8. Ids(base) \subseteq Ids(cur) =>
        \A k \in DOMAIN snew : k <= Len(resp) =>
          \/ resp[k] = Failed
          \/ \E e \in ToSet(server) : e.id = resp[k] /\ e.of = snew[k]
  BY DEF RepliesInOrder
<1> HIDE DEF names, snew, resp
<1>9. Failed \notin ToSet(resp)
  BY DEF resp
<1>10. ASSUME NEW i \in DOMAIN cur
       PROVE  \E e \in ToSet(server) : e.id = names[i] /\ StandsFor(e, cur[i])
  <2>1. PICK f \in ToSet(server) : StandsFor(f, cur[i])
    BY <1>3, <1>4
  <2>2. Key(base, f) = cur[i].id /\ (cur[i].id >= 0 => f.id = cur[i].id)
    BY <1>1, <1>4, <2>1, StandsByKey
  <2>3. CASE cur[i].id < 0
    <3>1. PICK k \in DOMAIN snew : snew[k] = cur[i].id /\ names[i] = resp[k]
      BY <1>2, <2>3
    <3>2. k \in DOMAIN resp /\ k <= Len(resp) /\ resp[k] # Failed
      BY <1>2, <1>4, <1>9, <3>1
    <3>3. PICK e \in ToSet(server) : e.id = resp[k] /\ e.of = snew[k]
      BY <1>7, <1>8, <2>3, <3>2
    <3>4. Key(base, e) = cur[i].id
      <4>1. e.of \in Ids(cur) /\ e.of < 0
        BY <1>4, <2>3, <3>1, <3>3
      <4>2. e.id \notin Ids(base)
        BY <1>1, <4>1 DEF Apart
      <4> QED BY <3>1, <3>3, <4>2 DEF Key
    <3>5. e = f
      BY <1>3, <2>2, <3>4
    <3> QED BY <2>1, <3>1, <3>3, <3>5
  <2>4. CASE ~(cur[i].id < 0)
    <3>1. f.id = cur[i].id
      BY <1>4, <1>5, <2>2, <2>4
    <3> QED BY <1>2, <2>1, <2>4, <3>1
  <2> QED BY <2>3, <2>4
<1>11. ASSUME NEW e \in ToSet(server) PROVE e.id \in ToSet(names)
  <2>1. PICK g \in ToSet(cur) : Key(base, e) = g.id
    BY <1>3, <1>4
  <2>2. PICK i \in DOMAIN cur : g = cur[i]
    BY DEF ToSet
  <2>3. PICK f \in ToSet(server) : f.id = names[i] /\ StandsFor(f, cur[i])
    BY <1>10
  <2>4. Key(base, f) = g.id
    BY <1>1, <2>2, <2>3, StandsByKey
  <2>5. e = f
    BY <1>3, <2>1, <2>4
  <2> QED BY <1>2, <2>3, <2>5 DEF ToSet
<1> QED BY <1>6, <1>10, <1>11 DEF NamesAll, names

\* What save() does when the replies are there.
LEMMA ContinueExact == ASSUME OneSaver, ExactInv, NEW s \in Savers, Continue(s) PROVE ExactInv'
<1>1. LandInv /\ LandInv' /\ TypeOK
  BY ContinueStands DEF ExactInv, LandInv, SyncInv, TypeInv
<1>2. /\ Savers = {s} /\ save \in [Savers -> SaveType] /\ save[s].reload \in BOOLEAN
      /\ save[s].mixed \in BOOLEAN /\ reorder \in BOOLEAN
      /\ server \in Seq(ServerType) /\ cur \in Seq(Section) /\ save[s].goal \in Seq(Section)
  BY <1>1 DEF OneSaver, TypeOK, SaveType, ServerType
<1>3. Exactly(s) /\ (loaded => Distinct(base)) /\ InPlace /\ Quiet(s) /\ Underway(s)
  BY <1>1 DEF ExactInv, LandInv, SyncInv
<1>4. ASSUME Finish(s), save[s].pc \in {"calls", "order"}, UNCHANGED <<server, base, cur, dirty>>,
             save[s].clean => Matches(s)
      PROVE  ExactInv'
  <2>1. /\ save'[s].pc \in {"load", "saved"} /\ save'[s].goal = save[s].goal
        /\ save'[s].clean = save[s].clean /\ save'[s].mixed = save[s].mixed
        /\ save[s].reload => ~loaded'
        /\ ~save[s].reload => (loaded' <=> loaded)
    BY <1>2, <1>4, Finishing
  <2>2. Exactly(s)'
    BY <1>4, <2>1 DEF Exactly, Matches
  <2>3. InPlace'
    <3>1. CASE save[s].reload
      BY <2>1, <3>1 DEF InPlace
    <3>2. CASE ~save[s].reload
      <4>1. save[s].pc = "calls" /\ ~reorder
        BY <1>3, <1>4, <3>2 DEF Quiet
      <4>2. \A o \in Savers : save[o].pc # "order"
        BY <1>2, <4>1
      <4>3. loaded /\ ~dirty => Rising(base, NamesOf(cur))
        BY <1>3, <4>1, <4>2 DEF InPlace
      <4>4. NamesOf(cur)' = NamesOf(cur)
        BY <1>4 DEF NamesOf
      <4> QED BY <1>4, <2>1, <3>2, <4>3, <4>4 DEF InPlace
    <3> QED BY <1>2, <3>1, <3>2
  <2>4. (loaded => Distinct(base))'
    BY <1>2, <1>3, <1>4, <2>1 DEF Distinct
  <2> QED BY <1>1, <1>2, <2>2, <2>3, <2>4 DEF ExactInv
<1>5. CASE CallsDone(s)
  <2>1. /\ save[s].pc = "calls" /\ save[s].todo = <<>> /\ Failed \notin ToSet(save[s].resp)
        /\ name' = Renamed(s) /\ UNCHANGED <<server, base, cur, dirty>> /\ ~reorder'
    BY <1>5 DEF CallsDone, Succeeded, Replied
  <2>2. loaded /\ save[s].goal = cur /\ Distinct(base)
    BY <1>3, <2>1 DEF Underway
  <2>3. /\ save[s].mixed = (reorder /\ Deletes # <<>> /\ Creates # <<>>) /\ RepliesInOrder(s)
        /\ save[s].clean => Tidy(s) /\ ~dirty
    BY <1>3, <2>1 DEF Exactly
  <2>4. save[s].clean =>
          /\ Len(server) = Len(cur)
          /\ Rising(base, NamesOf(cur)) =>
               \A i \in DOMAIN cur : i \in DOMAIN server /\ StandsFor(server[i], cur[i])
    BY <1>1, <2>1, <2>2, <2>3, AllServed
  <2>5. save[s].clean /\ reorder /\ ~save[s].mixed => NamesAll(NamesSent(name'), cur)
    <3> SUFFICES ASSUME save[s].clean, reorder, ~save[s].mixed PROVE NamesAll(NamesSent(Renamed(s)), cur)
      BY <2>1
    <3>1. Deletes = <<>> \/ Creates = <<>>
      BY <2>3
    <3> QED BY <1>1, <2>1, <2>2, <2>3, <3>1, OrderNamesAll
  <2>6. DOMAIN NamesSent(name') = DOMAIN cur /\ NamesSent(name') \in Seq(Int)
    BY <1>1, <2>1, NamesAre
  <2>7. CASE reorder /\ NamesSent(name') # <<>>
    <3> DEFINE names == NamesSent(name')
               call == [op |-> "order", section |-> <<>>, order |-> names]
    <3>1. /\ save' = [save EXCEPT ![s].pc = "order", ![s].resp = <<>>, ![s].todo = <<call>>]
          /\ UNCHANGED loaded
      BY <1>5, <2>7 DEF CallsDone
    <3> HIDE DEF names
    <3>2. names \in Seq(Int)
      BY <2>6 DEF names
    <3>3. /\ save'[s].pc = "order" /\ save'[s].goal = save[s].goal /\ save'[s].todo = <<call>>
          /\ save'[s].clean = save[s].clean /\ save'[s].mixed = save[s].mixed
      BY <1>2, <3>1, <3>2, Ordering
    <3>4. call.order = names
      OBVIOUS
    <3> HIDE DEF call
    <3>5. ToSet(<<call>>) = {call} /\ <<call>> # <<>>
      BY DEF ToSet
    <3>6. save'[s].clean => Ordered(s)'
      <4> SUFFICES ASSUME save[s].clean PROVE Ordered(s)'
        BY <3>3
      <4>1. (Len(server) = Len(save[s].goal))'
        BY <2>1, <2>2, <2>4, <3>3
      <4>2. ~(save[s].todo = <<>>)'
        BY <3>3, <3>5
      <4>3. (~save[s].mixed => \A c \in ToSet(save[s].todo) : NamesAll(c.order, save[s].goal))'
        <5>1. ~save[s].mixed => NamesAll(names, cur)
          BY <2>5, <2>7 DEF names
        <5> QED BY <2>1, <2>2, <3>3, <3>4, <3>5, <5>1 DEF NamesAll, StandsFor
      <4> QED BY <4>1, <4>2, <4>3 DEF Ordered
    <3>7. Exactly(s)'
      BY <3>3, <3>6 DEF Exactly
    <3>8. InPlace' /\ (loaded => Distinct(base))'
      BY <2>1, <2>2, <3>3 DEF InPlace, Distinct
    <3> QED BY <1>1, <1>2, <3>7, <3>8 DEF ExactInv
  <2>8. CASE ~(reorder /\ NamesSent(name') # <<>>)
    <3>1. Finish(s)
      BY <1>5, <2>8 DEF CallsDone
    <3>2. save[s].clean => Matches(s)
      <4> SUFFICES ASSUME save[s].clean PROVE Matches(s)
        OBVIOUS
      <4>1. CASE ~reorder
        <5>1. \A o \in Savers : save[o].pc # "order"
          BY <1>2, <2>1
        <5>2. Rising(base, NamesOf(cur))
          BY <1>3, <2>2, <2>3, <4>1, <5>1 DEF InPlace
        <5> QED BY <2>2, <2>4, <5>2 DEF Matches
      <4>2. CASE reorder
        <5>1. DOMAIN cur = {}
          BY <2>6, <2>8, <4>2
        <5> QED BY <2>2, <2>4, <5>1 DEF Matches
      <4> QED BY <1>2, <4>1, <4>2
    <3> QED BY <1>4, <2>1, <3>1, <3>2
  <2> QED BY <2>7, <2>8
<1>6. CASE OrderDone(s)
  <2>1. /\ save[s].pc = "order" /\ save[s].todo = <<>> /\ Failed \notin ToSet(save[s].resp)
        /\ Finish(s) /\ UNCHANGED <<server, base, cur, dirty, reorder>>
    BY <1>6 DEF OrderDone, Succeeded, Replied
  <2>2. save[s].clean => Matches(s)
    BY <1>3, <2>1 DEF Exactly, Ordered
  <2> QED BY <1>4, <2>1, <2>2
<1>7. CASE LoadDone(s)
  <2>1. /\ save[s].pc = "load" /\ save[s].todo = <<>> /\ Failed \notin ToSet(save[s].resp)
        /\ base' = save[s].snap /\ cur' = save[s].snap /\ UNCHANGED server
    BY <1>7 DEF LoadDone, Succeeded, Replied
  <2>2. base' = Shown(server) /\ cur' = base'
    BY <1>3, <2>1 DEF Quiet
  <2>3. Distinct(base') /\ Rising(base', NamesOf(cur'))
    BY <1>1, <1>2, <2>2, LoadedInPlace DEF LandInv
  <2>4. /\ save'[s].pc = "saved" /\ save'[s].goal = save[s].goal
        /\ save'[s].clean = save[s].clean /\ save'[s].mixed = save[s].mixed
    BY <1>2, <1>7, Loading
  <2>5. Exactly(s)'
    BY <1>3, <2>1, <2>4 DEF Exactly, Matches
  <2>6. InPlace' /\ (loaded => Distinct(base))'
    BY <2>3 DEF InPlace, Distinct
  <2> QED BY <1>1, <1>2, <2>5, <2>6 DEF ExactInv
<1>8. CASE Rejected(s)
  <2>1. UNCHANGED <<loaded, base>> /\ dirty'
    BY <1>8 DEF Rejected, client
  <2>2. save'[s].pc = "failed"
    BY <1>2, <1>8, Rejecting
  <2>3. InPlace' /\ (loaded => Distinct(base))'
    BY <1>3, <2>1 DEF InPlace, Distinct
  <2>4. Exactly(s)'
    BY <2>2 DEF Exactly
  <2> QED BY <1>1, <1>2, <2>3, <2>4 DEF ExactInv
<1> QED BY <1>5, <1>6, <1>7, <1>8 DEF Continue

LEMMA NextExact == ASSUME OneSaver PROVE ExactInv /\ [Next]_vars => ExactInv'
<1> SUFFICES ASSUME ExactInv, [Next]_vars PROVE ExactInv'
  OBVIOUS
<1>1. CASE Add \/ RemoveSection \/ Set \/ Move
  BY <1>1, EditsExact
<1>2. CASE Reopen
  BY <1>2, ReopenExact
<1>3. ASSUME NEW s \in Savers, Save(s) \/ Serve(s) \/ Continue(s)
      PROVE  ExactInv'
  BY <1>3, SavesExact, ServeExact, ContinueExact
<1>4. CASE UNCHANGED vars
  <2>1. LandInv'
    BY <1>4, NextLands DEF ExactInv
  <2>2. UNCHANGED <<server, loaded, base, cur, reorder, dirty, save>>
    BY <1>4 DEF vars, client
  <2>3. Deletes' = Deletes /\ Creates' = Creates /\ NamesOf(cur)' = NamesOf(cur) /\ Keys' = Keys
    BY <2>2 DEF Deletes, Creates, NamesOf, Keys
  <2>4. InPlace' /\ (loaded => Distinct(base))'
    BY <2>2, <2>3 DEF ExactInv, InPlace, Distinct
  <2>5. \A s \in Savers : Exactly(s)'
    <3> SUFFICES ASSUME NEW s \in Savers PROVE Exactly(s)'
      OBVIOUS
    <3>1. Matches(s)' <=> Matches(s)
      BY <2>2 DEF Matches
    <3>2. Ordered(s)' <=> Ordered(s)
      BY <2>2, <3>1 DEF Ordered, NamesAll
    <3>3. Tidy(s)' <=> Tidy(s)
      BY <2>2, <2>3 DEF Tidy
    <3>4. AddsRise(s)' <=> AddsRise(s)
      BY <2>2 DEF AddsRise
    <3>5. RepliesInOrder(s)' <=> RepliesInOrder(s)
      BY <2>2 DEF RepliesInOrder
    <3> QED BY <2>2, <2>3, <3>1, <3>2, <3>3, <3>4, <3>5 DEF ExactInv, Exactly
  <2> QED BY <2>1, <2>4, <2>5 DEF ExactInv
<1> QED BY <1>1, <1>2, <1>3, <1>4 DEF Next

\* With one caller of save() at a time, a save that succeeds, none having
\* failed since the configuration was loaded, leaves on the server exactly the
\* sections shown, each once and with its values; and in the order shown,
\* unless sections were deleted, added and moved at once.
THEOREM SaveExactly == ASSUME OneSaver PROVE Spec => []SaveExact
<1>1. Init => ExactInv
  BY InitExact
<1>2. ExactInv /\ [Next]_vars => ExactInv'
  BY NextExact
<1>3. ExactInv => SaveExact
  <2> SUFFICES ASSUME ExactInv, NEW s \in Savers, save[s].pc = "saved", save[s].clean
               PROVE  LET goal == save[s].goal
                      IN  /\ Len(server) = Len(goal)
                          /\ \A i \in DOMAIN goal : \E j \in DOMAIN server :
                               /\ StandsFor(server[j], goal[i])
                               /\ ~save[s].mixed => i = j
    BY DEF SaveExact
  <2>1. Matches(s)
    BY DEF ExactInv, Exactly
  <2>2. \A i \in DOMAIN save[s].goal : \E j \in DOMAIN server : StandsFor(server[j], save[s].goal[i])
    <3> SUFFICES ASSUME NEW i \in DOMAIN save[s].goal
                 PROVE  \E j \in DOMAIN server : StandsFor(server[j], save[s].goal[i])
      OBVIOUS
    <3>1. Stands(save[s].goal[i])
      BY DEF ExactInv, LandInv, Underway, ToSet
    <3> QED BY <3>1 DEF Stands, ToSet
  <2> QED BY <2>1, <2>2 DEF Matches
<1> QED BY <1>1, <1>2, <1>3, PTL DEF Spec

=============================================================================
