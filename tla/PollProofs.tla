----------------------------- MODULE PollProofs -----------------------------
(***************************************************************************)
(* Proofs about Poll, for all functions, intervals and moduli.             *)
(***************************************************************************)
EXTENDS Poll, SequenceTheorems, TLAPS

RunsAreOld == \A f \in Fns, n \in Nat : <<f, n>> \in inflight => n <= gen[f]

\* RunsIffWanted needs what tick says of a timer that does not run, and
\* ReadyMeansIdle that no run is of a registration still to come.
PollInv ==
  /\ TypeOK
  /\ RunsIffWanted
  /\ paused <=> tick = NoTick
  /\ ReadyMeansIdle
  /\ BusyMeansRunning
  /\ RunsAreOld

\* the runs a pass starts
LEMMA StartRuns ==
  ASSUME NEW g \in [Fns -> Nat], NEW S \in SUBSET Fns,
         NEW runs \in SUBSET (Fns \X Nat), NEW new,
         new = runs \cup {<<f, g[f]>> : f \in S}
  PROVE  /\ new \in SUBSET (Fns \X Nat)
         /\ \A f \in Fns, n \in Nat :
              <<f, n>> \in new <=> (<<f, n>> \in runs \/ (f \in S /\ n = g[f]))
OBVIOUS

\* what one pass of step() does to the busy functions, the runs and the tick
LEMMA PassLemma ==
  ASSUME NEW q \in Seq(Fns), NEW b \in SUBSET Fns, NEW iv, NEW t \in Nat,
         NEW g \in [Fns -> Nat], inflight \in SUBSET (Fns \X Nat),
         Pass(q, b, iv, g, t)
  PROVE  /\ tick' \in Nat
         /\ ran' \in SUBSET Fns
         /\ busy' \in SUBSET Fns /\ b \cup ran' \subseteq busy'
         /\ busy' \subseteq b \cup ran' \cup Throwers
         /\ inflight' \in SUBSET (Fns \X Nat)
         /\ \A f \in Fns, n \in Nat :
              <<f, n>> \in inflight' <=>
                (<<f, n>> \in inflight \/ (f \in ran' /\ n = g[f]))
<1> DEFINE dueAmong(n) == {q[k] : k \in {j \in 1..n : Due(q[j], b, iv, t)}}
           call(S, thrown) ==
             /\ busy' = b \cup S \cup thrown
             /\ inflight' = inflight \cup {<<f, g[f]>> : f \in S}
             /\ ran' = S
           result ==
             /\ ran' \in SUBSET Fns
             /\ busy' \in SUBSET Fns /\ b \cup ran' \subseteq busy'
             /\ busy' \subseteq b \cup ran' \cup Throwers
             /\ inflight' \in SUBSET (Fns \X Nat)
             /\ \A f \in Fns, n \in Nat :
                  <<f, n>> \in inflight' <=>
                    (<<f, n>> \in inflight \/ (f \in ran' /\ n = g[f]))
<1>1. (t + 1) % Modulus \in Nat
  BY PollAssumption
<1>2. \A n \in 0..Len(q) : dueAmong(n) \in SUBSET Fns
  OBVIOUS
<1>3. ASSUME NEW S \in SUBSET Fns, NEW thrown \in SUBSET (Fns \cap Throwers),
             call(S, thrown)
      PROVE  result
  <2>1. /\ inflight' \in SUBSET (Fns \X Nat)
        /\ \A f \in Fns, n \in Nat :
             <<f, n>> \in inflight' <=>
               (<<f, n>> \in inflight \/ (f \in S /\ n = g[f]))
    BY <1>3, StartRuns
  <2> QED BY <1>3, <2>1
<1>4. CASE call(dueAmong(Len(q)), {}) /\ tick' = (t + 1) % Modulus
  <2>1. dueAmong(Len(q)) \in SUBSET Fns
    BY <1>2
  <2> HIDE DEF call, dueAmong, result
  <2>2. result
    BY <1>3, <1>4, <2>1
  <2> QED BY <1>1, <1>4, <2>2 DEF result
<1>5. CASE \E n \in DOMAIN q : /\ q[n] \in Throwers
                              /\ call(dueAmong(n - 1), {q[n]}) /\ tick' = t
  <2>1. PICK n \in DOMAIN q : /\ q[n] \in Throwers
                              /\ call(dueAmong(n - 1), {q[n]}) /\ tick' = t
    BY <1>5
  <2>2. n - 1 \in 0..Len(q) /\ {q[n]} \in SUBSET (Fns \cap Throwers)
    BY <2>1
  <2>3. dueAmong(n - 1) \in SUBSET Fns
    BY <1>2, <2>2
  <2> HIDE DEF call, dueAmong, result
  <2>4. result
    BY <1>3, <2>1, <2>2, <2>3
  <2> QED BY <2>1, <2>4 DEF result
<1> QED BY <1>4, <1>5 DEF Pass

\* A pass over a queue in which idle functions have no run keeps it so.
LEMMA PassKeeps ==
  ASSUME NEW q \in Seq(Fns), NEW b \in SUBSET Fns, NEW iv, NEW t \in Nat,
         NEW g \in [Fns -> Nat], inflight \in SUBSET (Fns \X Nat),
         Pass(q, b, iv, g, t),
         NEW Q \in SUBSET Fns, \A f \in Q \ b : <<f, g[f]>> \notin inflight,
         \A f \in Fns, n \in Nat : <<f, n>> \in inflight => n <= g[f]
  PROVE  /\ inflight' \in SUBSET (Fns \X Nat)
         /\ \A f \in Q \ busy' : <<f, g[f]>> \notin inflight'
         /\ \A f \in Fns, n \in Nat : <<f, n>> \in inflight' => n <= g[f]
<1>1. /\ ran' \in SUBSET Fns /\ b \cup ran' \subseteq busy'
      /\ busy' \subseteq b \cup ran' \cup Throwers
      /\ inflight' \in SUBSET (Fns \X Nat)
  BY PassLemma
<1>2. \A f \in Fns, n \in Nat :
        <<f, n>> \in inflight' <=>
          (<<f, n>> \in inflight \/ (f \in ran' /\ n = g[f]))
  BY PassLemma
<1> QED BY <1>1, <1>2

\* the functions of Q that are busy in b and do not throw have a run
Occupied(Q, b, g, runs) ==
  \A f \in (Q \cap b) \ Throwers : <<f, g[f]>> \in runs

\* A pass over a queue that has this keeps it.
LEMMA PassOccupies ==
  ASSUME NEW q \in Seq(Fns), NEW b \in SUBSET Fns, NEW iv, NEW t \in Nat,
         NEW g \in [Fns -> Nat], inflight \in SUBSET (Fns \X Nat),
         Pass(q, b, iv, g, t),
         NEW Q \in SUBSET Fns, Occupied(Q, b, g, inflight)
  PROVE  Occupied(Q, busy', g, inflight')
<1>1. /\ ran' \in SUBSET Fns
      /\ busy' \subseteq b \cup ran' \cup Throwers
      /\ \A f \in Fns, n \in Nat :
           <<f, n>> \in inflight' <=>
             (<<f, n>> \in inflight \/ (f \in ran' /\ n = g[f]))
  BY SMTT(30), PassLemma
<1>2. ASSUME NEW f \in Q \cap busy', f \notin Throwers
      PROVE  <<f, g[f]>> \in inflight'
  BY <1>1, <1>2 DEF Occupied
<1> QED BY <1>2 DEF Occupied

LEMMA InitPoll == Init => PollInv
<1> SUFFICES ASSUME Init PROVE PollInv OBVIOUS
<1>1. TypeOK
  <2>1. queue \in Seq(Fns)
    BY DEF Init
  <2>2. tick \in Nat \cup {NoTick} /\ timer \in BOOLEAN /\ paused \in BOOLEAN
    BY DEF Init
  <2>3. /\ ival \in [Fns -> Ivals \cup {0}] /\ gen \in [Fns -> Nat]
        /\ busy = {} /\ inflight = {} /\ ran = {}
    BY DEF Init
  <2> QED BY <2>1, <2>2, <2>3 DEF TypeOK
<1>2. Queued = {}
  BY DEF Init, Queued, ToSet
<1> QED BY <1>1, <1>2 DEF Init, PollInv, RunsIffWanted, ReadyMeansIdle,
   BusyMeansRunning, RunsAreOld

LEMMA NextPoll == PollInv /\ [Next]_vars => PollInv'
<1> SUFFICES ASSUME PollInv, [Next]_vars PROVE PollInv' OBVIOUS
<1> USE DEF PollInv, entries
<1>t. timer => tick \in Nat /\ ~paused /\ queue # <<>>
  BY DEF TypeOK, RunsIffWanted
<1>q. Queued \in SUBSET Fns
  BY DEF TypeOK, Queued, ToSet
<1>p. ASSUME NEW t \in Nat, Pass(queue, busy, ival, gen, t), UNCHANGED entries,
             queue # <<>>, timer' = TRUE, paused' = FALSE
      PROVE  PollInv'
  <2>1. tick' \in Nat /\ ran' \in SUBSET Fns /\ busy' \in SUBSET Fns
    BY <1>p, PassLemma DEF TypeOK
  <2>2. /\ inflight' \in SUBSET (Fns \X Nat)
        /\ \A f \in Queued \ busy' : <<f, gen[f]>> \notin inflight'
        /\ \A f \in Fns, n \in Nat : <<f, n>> \in inflight' => n <= gen[f]
    BY <1>p, <1>q, PassKeeps DEF TypeOK, ReadyMeansIdle, RunsAreOld
  <2>0. Occupied(Queued, busy, gen, inflight)
    BY DEF Occupied, BusyMeansRunning
  <2>5. Occupied(Queued, busy', gen, inflight')
    BY <1>p, <1>q, <2>0, PassOccupies DEF TypeOK
  <2>3. TypeOK'
    BY <1>p, <2>1, <2>2 DEF TypeOK
  <2>4. ReadyMeansIdle' /\ BusyMeansRunning' /\ RunsAreOld'
    BY <1>p, <2>2, <2>5 DEF ReadyMeansIdle, BusyMeansRunning, Occupied,
                            RunsAreOld, Queued
  <2> QED BY <1>p, <2>1, <2>3, <2>4 DEF RunsIffWanted, NoTick
<1>1. CASE Step
  BY <1>1, <1>t, <1>p DEF Step, TypeOK
<1>2. CASE Start
  <2>1. CASE queue = <<>>
    <3>1. /\ paused' = FALSE /\ timer' = FALSE /\ tick' = 0
          /\ UNCHANGED <<entries, busy, inflight, ran>>
      BY <1>2, <2>1 DEF Start
    <3>2. TypeOK'
      BY <3>1 DEF TypeOK
    <3>3. ReadyMeansIdle' /\ BusyMeansRunning' /\ RunsAreOld'
      BY <3>1 DEF ReadyMeansIdle, BusyMeansRunning, RunsAreOld, Queued
    <3> QED BY <2>1, <3>1, <3>2, <3>3 DEF RunsIffWanted, NoTick
  <2>2. CASE queue # <<>>
    BY <1>2, <1>p, <2>2 DEF Start
  <2> QED BY <2>1, <2>2
<1>3. CASE Stop
  BY <1>3, <1>t DEF Stop, TypeOK, RunsIffWanted, ReadyMeansIdle, RunsAreOld,
     BusyMeansRunning, NoTick, Queued
<1>4. ASSUME NEW f \in Fns, NEW i \in Ivals, Add(f, i) PROVE PollInv'
  <2> DEFINE fresh == busy \ {f}
  <2>1. queue' = Append(queue, f) /\ queue' \in Seq(Fns) /\ queue' # <<>>
    BY <1>4 DEF Add, TypeOK
  <2>2. Queued' \in SUBSET Fns /\ Queued' \subseteq Queued \cup {f}
    BY <2>1 DEF Queued, ToSet, TypeOK
  <2>3. /\ ival' \in [Fns -> Ivals \cup {0}] /\ gen' \in [Fns -> Nat]
        /\ \A x \in Fns : gen'[x] = IF x = f THEN gen[x] + 1 ELSE gen[x]
        /\ fresh \in SUBSET Fns /\ paused' = paused
    BY <1>4 DEF Add, TypeOK
  <2>4. \A x \in Fns, n \in Nat : <<x, n>> \in inflight => n <= gen'[x]
    <3> TAKE x \in Fns, n \in Nat
    <3>1. gen[x] \in Nat /\ (<<x, n>> \in inflight => n <= gen[x])
      BY DEF TypeOK, RunsAreOld
    <3> QED BY <2>3, <3>1
  <2>5. \A x \in Queued' \ fresh : <<x, gen'[x]>> \notin inflight
    BY <2>2, <2>3, <1>q DEF TypeOK, ReadyMeansIdle, RunsAreOld
  <2>6. Occupied(Queued', fresh, gen', inflight)
    BY <2>2, <2>3, <1>q DEF TypeOK, BusyMeansRunning, Occupied
  <2>7. CASE tick # NoTick /\ ~timer
    <3>1. Pass(queue', fresh, ival', gen', 0) /\ timer' = TRUE
      BY <1>4, <2>7 DEF Add
    <3> HIDE DEF fresh
    <3>3. inflight \in SUBSET (Fns \X Nat)
      BY DEF TypeOK
    <3>2. tick' \in Nat /\ ran' \in SUBSET Fns /\ busy' \in SUBSET Fns
      BY <2>1, <2>3, <3>1, <3>3, PassLemma
    <3>4. /\ inflight' \in SUBSET (Fns \X Nat)
          /\ \A x \in Queued' \ busy' : <<x, gen'[x]>> \notin inflight'
          /\ \A x \in Fns, n \in Nat : <<x, n>> \in inflight' => n <= gen'[x]
      BY ONLY <2>1, <2>2, <2>3, <2>4, <2>5, <3>1, <3>3, PassKeeps
    <3>6. Occupied(Queued', busy', gen', inflight')
      BY ONLY <2>1, <2>2, <2>3, <2>6, <3>1, <3>3, PassOccupies
    <3>5. TypeOK'
      BY <2>1, <2>3, <3>1, <3>2, <3>4 DEF TypeOK
    <3> QED BY <2>1, <2>3, <2>7, <3>1, <3>2, <3>4, <3>5, <3>6
            DEF RunsIffWanted, NoTick, ReadyMeansIdle, BusyMeansRunning,
                Occupied, RunsAreOld
  <2>8. CASE ~(tick # NoTick /\ ~timer)
    <3>1. busy' = fresh /\ UNCHANGED <<timer, tick, inflight, ran>>
      BY <1>4, <2>8 DEF Add
    <3>2. TypeOK'
      BY <2>1, <2>3, <3>1 DEF TypeOK
    <3>3. RunsIffWanted' /\ (paused' <=> tick' = NoTick)
      BY <2>1, <2>3, <2>8, <3>1, <1>t DEF RunsIffWanted
    <3> QED BY <2>4, <2>5, <2>6, <3>1, <3>2, <3>3
            DEF ReadyMeansIdle, BusyMeansRunning, Occupied, RunsAreOld
  <2> QED BY <2>7, <2>8
<1>5. ASSUME NEW k \in 1..Cardinality(Fns), RemoveEntry(k) PROVE PollInv'
  <2> DEFINE a == SubSeq(queue, 1, k - 1)
             b == SubSeq(queue, k + 1, Len(queue))
  <2>0. queue \in Seq(Fns) /\ Len(queue) \in Nat
    BY DEF TypeOK
  <2>1. k \in 1..Len(queue) /\ queue' = a \o b
    BY <1>5, <2>0 DEF RemoveEntry, RemoveAt
  <2>2. /\ a \in Seq(Fns) /\ Len(a) = k - 1
        /\ \A j \in 1..Len(a) : a[j] = queue[j]
    BY <2>0, <2>1
  <2>3. /\ b \in Seq(Fns) /\ Len(b) = Len(queue) - k
        /\ \A j \in 1..Len(b) : b[j] = queue[k + j]
    BY <2>0, <2>1
  <2>4. queue' \in Seq(Fns) /\ Queued' \subseteq Queued
    <3> HIDE DEF a, b
    <3>1. /\ queue' \in Seq(Fns) /\ Len(queue') = Len(a) + Len(b)
          /\ \A j \in 1..Len(queue') :
               queue'[j] = IF j <= Len(a) THEN a[j] ELSE b[j - Len(a)]
      <4>1. queue' = a \o b /\ a \in Seq(Fns) /\ b \in Seq(Fns)
        BY <2>1, <2>2, <2>3
      <4>2. /\ a \o b \in Seq(Fns)
            /\ Len(a \o b) = Len(a) + Len(b)
            /\ \A i \in 1..Len(a) + Len(b) :
                 (a \o b)[i] = IF i <= Len(a) THEN a[i] ELSE b[i - Len(a)]
        BY ONLY <4>1, ConcatProperties
      <4> QED BY ONLY <4>1, <4>2
    <3>2. ASSUME NEW j \in 1..Len(queue')
          PROVE  \E m \in 1..Len(queue) : queue'[j] = queue[m]
      <4>1. CASE j <= Len(a)
        BY <2>0, <2>1, <2>2, <3>1, <4>1
      <4>2. CASE j > Len(a)
        <5>1. j - Len(a) \in 1..Len(b) /\ k + (j - Len(a)) \in 1..Len(queue)
          BY SMTT(30), <2>0, <2>1, <2>2, <2>3, <3>1, <4>2
        <5>2. queue'[j] = queue[k + (j - Len(a))]
          BY <2>2, <2>3, <3>1, <4>2, <5>1
        <5> QED BY <5>1, <5>2
      <4> QED BY <4>1, <4>2, <2>2
    <3> QED BY <2>0, <3>1, <3>2 DEF Queued, ToSet
  <2>5. queue # <<>>
    BY <2>0, <2>1
  <2>6. UNCHANGED <<ival, gen, busy, inflight, ran, paused>>
    BY <1>5 DEF RemoveEntry
  <2>7. ReadyMeansIdle' /\ BusyMeansRunning' /\ RunsAreOld'
    BY <2>4, <2>6 DEF ReadyMeansIdle, BusyMeansRunning, RunsAreOld
  <2>8. CASE queue' = <<>> /\ timer
    <3>1. timer' = FALSE /\ tick' = 0
      BY <1>5, <2>8 DEF RemoveEntry
    <3> HIDE DEF a, b
    <3>2. TypeOK'
      BY <2>4, <2>6, <3>1 DEF TypeOK
    <3>3. paused' = FALSE
      BY <1>t, <2>6, <2>8
    <3> QED BY <2>7, <2>8, <3>1, <3>2, <3>3 DEF RunsIffWanted, NoTick
  <2>9. CASE ~(queue' = <<>> /\ timer)
    <3>1. UNCHANGED <<timer, tick>>
      BY <1>5, <2>9 DEF RemoveEntry
    <3> HIDE DEF a, b
    <3> QED BY <2>4, <2>5, <2>6, <2>7, <2>9, <3>1 DEF TypeOK, RunsIffWanted
  <2> QED BY <2>8, <2>9
<1>6. ASSUME NEW f \in Fns, NEW n \in 1..MaxAdds, Settle(f, n) PROVE PollInv'
  BY <1>6 DEF Settle, TypeOK, RunsIffWanted, ReadyMeansIdle, BusyMeansRunning,
     RunsAreOld, Queued
<1>7. CASE UNCHANGED vars
  BY <1>7 DEF vars, TypeOK, RunsIffWanted, ReadyMeansIdle, BusyMeansRunning,
     RunsAreOld, Queued
<1> QED BY <1>1, <1>2, <1>3, <1>4, <1>5, <1>6, <1>7 DEF Next

LEMMA PollInvariant == Spec => []PollInv
BY InitPoll, NextPoll, PTL DEF Spec

\* The queue, the tick and the runs in flight keep their types, whatever the
\* pages register, remove, start and stop.
THEOREM TypeCorrect == Spec => []TypeOK
<1>1. PollInv => TypeOK
  BY DEF PollInv
<1> QED BY <1>1, PollInvariant, PTL

\* The timer of LuCI.poll runs exactly while a function is registered and
\* nobody has paused polling, whatever the pages register and remove.
THEOREM TimerRunsIffWanted == Spec => []RunsIffWanted
<1>1. PollInv => RunsIffWanted
  BY DEF PollInv
<1> QED BY <1>1, PollInvariant, PTL

\* No function is called again for a registration whose run has not settled.
THEOREM RunsDoNotOverlap == Spec => []ReadyMeansIdle
<1>1. PollInv => ReadyMeansIdle
  BY DEF PollInv
<1> QED BY <1>1, PollInvariant, PTL

\* No function that does not throw is locked out: its entry is not ready only
\* while a run of it is under way, whoever else throws in the same pass.
THEOREM NobodyIsLockedOut == Spec => []BusyMeansRunning
<1>1. PollInv => BusyMeansRunning
  BY DEF PollInv
<1> QED BY <1>1, PollInvariant, PTL
=============================================================================
