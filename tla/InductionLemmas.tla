-------------------------- MODULE InductionLemmas ---------------------------
(***************************************************************************)
(* Facts about numbers from which the proofs go by induction: what holds   *)
(* of no least number holds of none; and what selecting elements of a      *)
(* sequence one by one comes to.                                           *)
(***************************************************************************)
EXTENDS Integers, Sequences, WellFoundedInduction, TLAPS

\* A set of numbers has a least one.
LEMMA LeastNumber ==
  ASSUME NEW T \in SUBSET Nat, T # {}
  PROVE  \E n \in T : \A m \in T : n <= m
<1>1. T \subseteq Nat
  OBVIOUS
<1>2. PICK n \in T : \A m \in T : ~(<<m, n>> \in OpToRel(<, Nat))
  BY WFMin, NatLessThanWellFounded, Zenon
<1>3. \A m \in T : ~(m < n)
  BY <1>1, <1>2 DEF OpToRel
<1> QED BY <1>1, <1>3

\* The greatest of a bounded one.
LEMMA GreatestNumber ==
  ASSUME NEW N \in Nat, NEW T \in SUBSET (0..N), T # {}
  PROVE  \E n \in T : \A m \in T : m <= n
<1> DEFINE S == {N - m : m \in T}
<1>1. S \in SUBSET Nat /\ S # {}
  <2>1. PICK t : t \in T
    OBVIOUS
  <2>2. N - t \in S /\ \A m \in T : N - m \in Nat
    BY <2>1
  <2> QED BY <2>2
<1>2. PICK s \in S : \A r \in S : s <= r
  BY <1>1, LeastNumber
<1>3. PICK n \in T : s = N - n
  BY <1>2
<1>4. \A m \in T : N - n <= N - m
  BY <1>2, <1>3
<1> QED BY <1>4

\* A set that goes on from each number to the next has them all.
LEMMA StepByStep ==
  ASSUME NEW N \in Nat, NEW S, 0 \in S, \A k \in 0..(N - 1) : k \in S => k + 1 \in S
  PROVE  \A k \in 0..N : k \in S
<1> DEFINE T == {k \in 0..N : k \notin S}
<1>1. ASSUME T # {} PROVE FALSE
  <2>1. T \in SUBSET Nat
    OBVIOUS
  <2>2. PICK n \in T : \A m \in T : n <= m
    BY <1>1, <2>1, LeastNumber
  <2>3. n # 0 /\ n - 1 \in 0..(N - 1) /\ n - 1 \notin T
    BY <2>2
  <2> QED BY <2>2, <2>3
<1> QED BY <1>1

\* A definition by recursion on the numbers up to n has a solution.
Steps(n, D) == [1..n -> [D -> D]]
Solves(a, n, D, base, step) ==
    a \in [0..n -> D] /\ a[0] = base /\ \A i \in 1..n : a[i] = step[i][a[i - 1]]

LEMMA Recursion ==
  ASSUME NEW n \in Nat, NEW D, NEW base \in D, NEW step \in Steps(n, D)
  PROVE  \E a : Solves(a, n, D, base, step)
<1> DEFINE Ok(a, k) == \A i \in 0..k : a[i] = IF i = 0 THEN base ELSE step[i][a[i - 1]]
           Has == {k \in 0..n : \E a \in [0..k -> D] : Ok(a, k)}
<1>1. 0 \in Has
  <2> DEFINE a == [i \in 0..0 |-> base]
  <2>1. a \in [0..0 -> D] /\ Ok(a, 0)
    OBVIOUS
  <2>2. \E b \in [0..0 -> D] : Ok(b, 0)
    BY <2>1
  <2> HIDE DEF Ok
  <2> QED BY <2>2
<1>2. ASSUME NEW k \in 0..(n - 1), k \in Has
      PROVE  k + 1 \in Has
  <2>1. PICK g \in [0..k -> D] : Ok(g, k)
    BY <1>2
  <2>2. k \in 0..k /\ k + 1 \in 1..n /\ k + 1 \in 0..n
    OBVIOUS
  <2> DEFINE y == step[k + 1][g[k]]
             a == [i \in 0..(k + 1) |-> IF i = k + 1 THEN y ELSE g[i]]
  <2>3. y \in D
    <3>1. step[k + 1] \in [D -> D] /\ g[k] \in D
      BY <2>2 DEF Steps
    <3> QED BY <3>1
  <2>4. a \in [0..(k + 1) -> D]
    <3>1. \A i \in 0..(k + 1) : i # k + 1 => i \in 0..k
      OBVIOUS
    <3> HIDE DEF y
    <3> QED BY <2>3, <3>1
  <2>5. ASSUME NEW i \in 0..(k + 1)
        PROVE  a[i] = IF i = 0 THEN base ELSE step[i][a[i - 1]]
    <3>1. i # 0 => i - 1 \in 0..(k + 1) /\ i - 1 # k + 1 /\ a[i - 1] = g[i - 1]
      OBVIOUS
    <3>2. CASE i = k + 1
      <4>1. i # 0 /\ i - 1 = k /\ a[i] = y
        BY <3>2
      <4> QED BY <3>1, <3>2, <4>1
    <3>3. CASE i # k + 1
      <4>1. i \in 0..k /\ a[i] = g[i]
        BY <3>3
      <4>2. g[i] = IF i = 0 THEN base ELSE step[i][g[i - 1]]
        BY <2>1, <4>1
      <4> QED BY <3>1, <4>1, <4>2
    <3> QED BY <3>2, <3>3
  <2>6. Ok(a, k + 1)
    <3> HIDE DEF a
    <3> QED BY <2>5
  <2>7. \E b \in [0..(k + 1) -> D] : Ok(b, k + 1)
    <3> HIDE DEF a, Ok
    <3> QED BY <2>4, <2>6
  <2> HIDE DEF Ok
  <2> QED BY <2>2, <2>7
<1>3. \A k \in 0..n : k \in Has
  <2> HIDE DEF Has
  <2> QED BY ONLY <1>1, <1>2, StepByStep
<1>4. PICK a \in [0..n -> D] : Ok(a, n)
  <2>1. n \in 0..n
    OBVIOUS
  <2> HIDE DEF Ok
  <2> QED BY <1>3, <2>1
<1>5. a[0] = base /\ \A i \in 1..n : a[i] = step[i][a[i - 1]]
  BY <1>4
<1> QED BY <1>5 DEF Solves

-----------------------------------------------------------------------------
(* Sequences *)

Elements(s) == {s[i] : i \in DOMAIN s}
Once(s) == \A i, j \in DOMAIN s : s[i] = s[j] => i = j

\* the elements of a sequence that are in a set, in their order
Selection(list, S) ==
  LET kept[i \in 0..Len(list)] ==
        IF i = 0 THEN <<>>
        ELSE IF list[i] \in S THEN Append(kept[i - 1], list[i]) ELSE kept[i - 1]
  IN  kept[Len(list)]

\* Facts on the elements of a sequence.
LEMMA ElementsOf ==
  ASSUME NEW T, NEW s \in Seq(T)
  PROVE  /\ Len(s) \in Nat /\ DOMAIN s = 1..Len(s)
         /\ Elements(s) = {s[i] : i \in 1..Len(s)} /\ Elements(s) \subseteq T
         /\ Once(s) <=> \A i, j \in 1..Len(s) : s[i] = s[j] => i = j
<1>1. Len(s) \in Nat /\ DOMAIN s = 1..Len(s) /\ \A i \in 1..Len(s) : s[i] \in T
  OBVIOUS
<1> QED BY <1>1 DEF Elements, Once

\* What appending an element does.
LEMMA AppendedElement ==
  ASSUME NEW T, NEW s \in Seq(T), NEW x \in T
  PROVE  /\ Append(s, x) \in Seq(T)
         /\ Elements(Append(s, x)) = Elements(s) \cup {x}
         /\ Once(s) /\ x \notin Elements(s) => Once(Append(s, x))
<1> DEFINE t == Append(s, x)
<1>1. /\ t \in Seq(T) /\ Len(t) = Len(s) + 1 /\ t[Len(s) + 1] = x
      /\ \A i \in 1..Len(s) : t[i] = s[i]
  OBVIOUS
<1> HIDE DEF t
<1>2. \A i \in 1..Len(t) : i = Len(s) + 1 \/ i \in 1..Len(s)
  BY <1>1, ElementsOf
<1>3. Elements(t) = Elements(s) \cup {x}
  <2>1. ASSUME NEW y \in Elements(t) PROVE y \in Elements(s) \cup {x}
    BY <1>1, <1>2, <2>1, ElementsOf
  <2>2. ASSUME NEW y \in Elements(s) PROVE y \in Elements(t)
    <3>1. PICK i \in 1..Len(s) : y = s[i]
      BY <2>2, ElementsOf
    <3>2. i \in 1..Len(t) /\ t[i] = y
      BY <1>1, <3>1, ElementsOf
    <3> QED BY <1>1, <3>2, ElementsOf
  <2>3. x \in Elements(t)
    <3>1. Len(s) + 1 \in 1..Len(t)
      BY <1>1, ElementsOf
    <3> QED BY <1>1, <3>1, ElementsOf
  <2> QED BY <2>1, <2>2, <2>3
<1>4. ASSUME Once(s), x \notin Elements(s) PROVE Once(t)
  <2>1. ASSUME NEW i \in 1..Len(t), NEW j \in 1..Len(t), t[i] = t[j] PROVE i = j
    <3>1. \A k \in 1..Len(s) : s[k] # x
      BY <1>4, ElementsOf
    <3>2. \A k, m \in 1..Len(s) : s[k] = s[m] => k = m
      BY <1>4, ElementsOf
    <3> QED BY <1>1, <1>2, <2>1, <3>1, <3>2
  <2> QED BY <1>1, <2>1, ElementsOf
<1> QED BY <1>1, <1>3, <1>4 DEF t

\* How Selection() keeps elements.
LEMMA SelectionSteps ==
  ASSUME NEW T, NEW list \in Seq(T), NEW S
  PROVE  \E kept :
           /\ kept[0] = <<>> /\ kept[Len(list)] = Selection(list, S)
           /\ \A i \in 1..Len(list) :
                kept[i] = IF list[i] \in S THEN Append(kept[i - 1], list[i]) ELSE kept[i - 1]
<1> DEFINE N == Len(list)
           step == [i \in 1..N |-> [k \in Seq(T) |-> IF list[i] \in S THEN Append(k, list[i]) ELSE k]]
<1>0. N \in Nat /\ \A i \in 1..N : list[i] \in T
  BY ElementsOf
<1> HIDE DEF N
<1>1. <<>> \in Seq(T) /\ step \in Steps(N, Seq(T))
  BY <1>0 DEF Steps
<1> HIDE DEF step
<1>2. PICK a : Solves(a, N, Seq(T), <<>>, step)
  BY ONLY <1>0, <1>1, Recursion
<1>3. a = [i \in 0..Len(list) |->
             IF i = 0 THEN <<>>
             ELSE IF list[i] \in S THEN Append(a[i - 1], list[i]) ELSE a[i - 1]]
  <2>1. a \in [0..N -> Seq(T)] /\ a[0] = <<>> /\ \A i \in 1..N : a[i] = step[i][a[i - 1]]
    BY <1>2 DEF Solves
  <2>2. ASSUME NEW i \in 1..N
        PROVE  a[i] = IF list[i] \in S THEN Append(a[i - 1], list[i]) ELSE a[i - 1]
    <3>1. i - 1 \in 0..N /\ a[i - 1] \in Seq(T)
      BY <1>0, <2>1
    <3> QED BY <2>1, <3>1 DEF step
  <2>3. a = [i \in 0..N |-> a[i]]
    BY <2>1
  <2>4. \A i \in 0..N : i # 0 => i \in 1..N
    BY <1>0
  <2>5. \A i \in 0..N :
          a[i] = IF i = 0 THEN <<>>
                 ELSE IF list[i] \in S THEN Append(a[i - 1], list[i]) ELSE a[i - 1]
    BY <2>1, <2>2, <2>4
  <2> QED BY <2>3, <2>5 DEF N
<1> DEFINE kept == CHOOSE kept :
                      kept = [i \in 0..Len(list) |->
                                IF i = 0 THEN <<>>
                                ELSE IF list[i] \in S THEN Append(kept[i - 1], list[i]) ELSE kept[i - 1]]
<1>7. kept = [i \in 0..Len(list) |->
                IF i = 0 THEN <<>>
                ELSE IF list[i] \in S THEN Append(kept[i - 1], list[i]) ELSE kept[i - 1]]
  BY <1>3
<1>4. Selection(list, S) = kept[Len(list)]
  BY DEF Selection
<1> HIDE DEF kept
<1>5. kept[0] = <<>>
  BY <1>0, <1>7 DEF N
<1>6. ASSUME NEW i \in 1..Len(list)
      PROVE  kept[i] = IF list[i] \in S THEN Append(kept[i - 1], list[i]) ELSE kept[i - 1]
  <2>1. i \in 0..Len(list) /\ i # 0
    BY <1>0 DEF N
  <2> QED BY <1>7, <2>1
<1> QED BY <1>4, <1>5, <1>6

\* It takes elements from where f says: in their order, and all that are in S.
Embeds(f, sel, list, n, S) ==
  /\ f \in [1..Len(sel) -> 1..n]
  /\ \A i \in 1..Len(sel) : sel[i] = list[f[i]] /\ sel[i] \in S
  /\ \A i, j \in 1..Len(sel) : i < j => f[i] < f[j]
  /\ \A m \in 1..n : list[m] \in S => \E i \in 1..Len(sel) : f[i] = m

LEMMA EmbedsNext ==
  ASSUME NEW T, NEW list, NEW S, NEW n \in Nat, NEW sel \in Seq(T), NEW f,
         Embeds(f, sel, list, n, S), list[n + 1] \in S, list[n + 1] \in T
  PROVE  \E g : Embeds(g, Append(sel, list[n + 1]), list, n + 1, S)
<1> DEFINE l == Len(sel)
           x == list[n + 1]
           t == Append(sel, x)
           g == [i \in 1..(l + 1) |-> IF i = l + 1 THEN n + 1 ELSE f[i]]
<1>1. l \in Nat /\ Len(t) = l + 1 /\ t[l + 1] = x /\ \A i \in 1..l : t[i] = sel[i]
  OBVIOUS
<1>2. /\ f \in [1..l -> 1..n] /\ \A i \in 1..l : sel[i] = list[f[i]] /\ sel[i] \in S
      /\ \A i, j \in 1..l : i < j => f[i] < f[j]
      /\ \A m \in 1..n : list[m] \in S => \E i \in 1..l : f[i] = m
  BY DEF Embeds
<1>3. x \in S
  OBVIOUS
<1> HIDE DEF l, t
<1>4. \A i \in 1..(l + 1) : i \in 1..l \/ i = l + 1
  BY <1>1
<1>5. /\ \A i \in 1..l : g[i] = f[i] /\ i # l + 1 /\ i \in 1..(l + 1) /\ f[i] \in 1..n
      /\ g[l + 1] = n + 1 /\ l + 1 \in 1..(l + 1)
  BY <1>1, <1>2
<1>6. g \in [1..(l + 1) -> 1..(n + 1)]
  BY <1>2, <1>4
<1> HIDE DEF g
<1>7. ASSUME NEW i \in 1..(l + 1) PROVE t[i] = list[g[i]] /\ t[i] \in S
  BY <1>1, <1>2, <1>3, <1>4, <1>5
<1>8. ASSUME NEW i \in 1..(l + 1), NEW j \in 1..(l + 1), i < j PROVE g[i] < g[j]
  <2>1. i \in 1..l
    BY <1>1, <1>8
  <2>2. CASE j \in 1..l
    BY <1>2, <1>5, <1>8, <2>1, <2>2
  <2>3. CASE j = l + 1
    BY <1>5, <2>1, <2>3
  <2> QED BY <1>4, <2>2, <2>3
<1>9. ASSUME NEW m \in 1..(n + 1), list[m] \in S PROVE \E i \in 1..(l + 1) : g[i] = m
  <2>1. CASE m \in 1..n
    <3>1. PICK i \in 1..l : f[i] = m
      BY <1>2, <1>9, <2>1
    <3> QED BY <1>5, <3>1
  <2>2. CASE m = n + 1
    BY <1>5, <2>2
  <2> QED BY <2>1, <2>2
<1>10. Embeds(g, t, list, n + 1, S)
  BY <1>1, <1>6, <1>7, <1>8, <1>9 DEF Embeds
<1> QED BY <1>10 DEF t

LEMMA SelectionEmbeds ==
  ASSUME NEW T, NEW list \in Seq(T), NEW S
  PROVE  /\ Selection(list, S) \in Seq(T)
         /\ \E f : Embeds(f, Selection(list, S), list, Len(list), S)
<1> DEFINE N == Len(list)
<1>1. PICK kept :
        /\ kept[0] = <<>> /\ kept[N] = Selection(list, S)
        /\ \A i \in 1..N : kept[i] = IF list[i] \in S THEN Append(kept[i - 1], list[i]) ELSE kept[i - 1]
  BY SelectionSteps
<1>2. N \in Nat /\ \A i \in 1..N : list[i] \in T
  BY ElementsOf
<1> HIDE DEF N
<1> DEFINE Good == {k \in 0..N : kept[k] \in Seq(T) /\ \E f : Embeds(f, kept[k], list, k, S)}
<1>3. 0 \in Good
  <2>1. kept[0] \in Seq(T) /\ Len(kept[0]) = 0 /\ 0 \in 0..N
    BY <1>1, <1>2
  <2>2. Embeds([i \in 1..0 |-> i], kept[0], list, 0, S)
    BY <2>1 DEF Embeds
  <2> QED BY <2>1, <2>2
<1>4. ASSUME NEW k \in 0..(N - 1), k \in Good
      PROVE  k + 1 \in Good
  <2>1. k + 1 \in 1..N /\ k + 1 \in 0..N /\ (k + 1) - 1 = k /\ list[k + 1] \in T /\ k \in Nat
    BY <1>2
  <2>2. kept[k + 1] = IF list[k + 1] \in S THEN Append(kept[k], list[k + 1]) ELSE kept[k]
    BY <1>1, <2>1
  <2>3. PICK f : Embeds(f, kept[k], list, k, S)
    BY <1>4
  <2>4. kept[k] \in Seq(T)
    BY <1>4
  <2>5. CASE list[k + 1] \in S
    <3>1. kept[k + 1] \in Seq(T)
      BY <2>1, <2>2, <2>4, <2>5
    <3>2. \E g : Embeds(g, kept[k + 1], list, k + 1, S)
      BY <2>1, <2>2, <2>3, <2>4, <2>5, EmbedsNext
    <3> QED BY <2>1, <3>1, <3>2
  <2>6. CASE list[k + 1] \notin S
    <3>1. /\ f \in [1..Len(kept[k]) -> 1..k]
          /\ \A i \in 1..Len(kept[k]) : kept[k][i] = list[f[i]] /\ kept[k][i] \in S
          /\ \A i, j \in 1..Len(kept[k]) : i < j => f[i] < f[j]
          /\ \A m \in 1..k : list[m] \in S => \E i \in 1..Len(kept[k]) : f[i] = m
      BY <2>3 DEF Embeds
    <3>2. \A m \in 1..(k + 1) : m \in 1..k \/ m = k + 1
      BY <2>1
    <3>3. f \in [1..Len(kept[k]) -> 1..(k + 1)]
      BY <2>1, <3>1
    <3>4. Embeds(f, kept[k], list, k + 1, S)
      BY <2>6, <3>1, <3>2, <3>3 DEF Embeds
    <3> QED BY <2>1, <2>2, <2>4, <2>6, <3>4
  <2> QED BY <2>5, <2>6
<1>5. N \in Good
  <2>1. N \in 0..N
    BY <1>2
  <2> HIDE DEF Good
  <2>2. \A k \in 0..N : k \in Good
    BY ONLY <1>2, <1>3, <1>4, StepByStep
  <2> QED BY <2>1, <2>2
<1> QED BY <1>1, <1>5 DEF N

\* Selection() keeps the elements that are in the set, each as often as it is there.
LEMMA SelectionKeeps ==
  ASSUME NEW T, NEW list \in Seq(T), NEW S
  PROVE  /\ Selection(list, S) \in Seq(T)
         /\ Elements(Selection(list, S)) = Elements(list) \cap S
         /\ (\A i, j \in DOMAIN list : list[i] = list[j] /\ list[i] \in S => i = j)
              => Once(Selection(list, S))
         /\ Once(list) => Once(Selection(list, S))
<1> DEFINE sel == Selection(list, S)
           n == Len(list)
<1>1. sel \in Seq(T)
  BY SelectionEmbeds
<1>2. PICK f : Embeds(f, sel, list, n, S)
  BY SelectionEmbeds
<1> HIDE DEF sel
<1>3. /\ f \in [1..Len(sel) -> 1..n]
      /\ \A i \in 1..Len(sel) : sel[i] = list[f[i]] /\ sel[i] \in S
      /\ \A i, j \in 1..Len(sel) : i < j => f[i] < f[j]
      /\ \A m \in 1..n : list[m] \in S => \E i \in 1..Len(sel) : f[i] = m
  BY <1>2 DEF Embeds
<1>4. n \in Nat /\ DOMAIN list = 1..n /\ Elements(list) = {list[i] : i \in 1..n}
  BY ElementsOf
<1>5. DOMAIN sel = 1..Len(sel) /\ Len(sel) \in Nat /\ Elements(sel) = {sel[i] : i \in 1..Len(sel)}
  BY <1>1, ElementsOf
<1> HIDE DEF n
<1>6. Elements(sel) = Elements(list) \cap S
  <2>1. ASSUME NEW i \in 1..Len(sel) PROVE sel[i] \in Elements(list) \cap S
    BY <1>3, <1>4
  <2>2. ASSUME NEW m \in 1..n, list[m] \in S PROVE list[m] \in Elements(sel)
    <3>1. PICK i \in 1..Len(sel) : f[i] = m
      BY <1>3, <2>2
    <3> QED BY <1>3, <1>5, <3>1
  <2> QED BY <1>4, <1>5, <2>1, <2>2
<1>7. ASSUME \A i, j \in DOMAIN list : list[i] = list[j] /\ list[i] \in S => i = j
      PROVE  Once(sel)
  <2> SUFFICES ASSUME NEW i \in 1..Len(sel), NEW j \in 1..Len(sel), sel[i] = sel[j]
               PROVE  i = j
    BY <1>5 DEF Once
  <2>1. f[i] = f[j] /\ f[i] \in 1..n
    BY <1>3, <1>4, <1>7
  <2>2. ~(i < j) /\ ~(j < i)
    BY <1>3, <1>4, <2>1
  <2> QED BY <1>5, <2>2
<1>8. Once(list) => Once(sel)
  BY <1>7 DEF Once
<1> QED BY <1>1, <1>6, <1>7, <1>8 DEF sel
=============================================================================
