-------------------------------- MODULE Poll --------------------------------
(***************************************************************************)
(* LuCI.poll (luci.js): the functions a page registers, the one timer that *)
(* runs them every so many seconds, and starting and stopping it.          *)
(*                                                                         *)
(* JavaScript runs step() to its end before anything else, so one tick of  *)
(* the timer is one action; the promises the functions return settle       *)
(* later, in any order.  The registered functions do not call LuCI.poll    *)
(* themselves before they return: those of this repository do so only when *)
(* a reply arrives.                                                        *)
(***************************************************************************)
EXTENDS Integers, SequencesExt

CONSTANTS
  Fns,       \* the functions pages register
  Ivals,     \* their intervals in seconds after ">>> 0", so 0.5 is 0
  Modulus,   \* 2^32: tick counts modulo this number
  MaxAdds,   \* bound on the registrations of one function
  Throwers   \* the functions that may throw instead of returning a promise

ASSUME PollAssumption ==
  /\ Ivals \subseteq Nat
  /\ Modulus \in Nat \ {0} /\ MaxAdds \in Nat /\ Throwers \subseteq Fns

VARIABLES
  queue,     \* the registered functions in order
  ival,      \* e.i of each
  busy,      \* the functions whose entry has e.r = false
  gen,       \* which registration of the function the entry is
  inflight,  \* runs that have not settled: <<function, registration>>
  timer,     \* is the interval timer set?
  tick,      \* seconds since start, or NoTick
  ran,       \* history: the functions the last step called
  paused     \* history: not started yet, or stopped by a call of stop()

entries == <<queue, ival, gen>>
vars == <<entries, busy, inflight, timer, tick, ran, paused>>

NoTick == -1   \* tick is undefined, as before start() and after stop()

Queued == ToSet(queue)

Init ==
  /\ queue = <<>> /\ ival = [f \in Fns |-> 0] /\ gen = [f \in Fns |-> 0]
  /\ busy = {} /\ inflight = {} /\ timer = FALSE /\ tick = NoTick
  /\ ran = {} /\ paused = TRUE

\* Mutant of Due: off by one
DueLate(f, b, iv, t) == f \notin b /\ iv[f] # 0 /\ t % iv[f] = 1

\* x % 0 is NaN and never 0: an entry with interval 0 is never due
Due(f, b, iv, t) == f \notin b /\ iv[f] # 0 /\ t % iv[f] = 0

\* Mutant of Pass: the tick counts down
PassCountsDown(q, b, iv, g, t) ==
  LET due == {f \in ToSet(q) : Due(f, b, iv, t)}
  IN  /\ busy' = b \cup due
      /\ inflight' = inflight \cup {<<f, g[f]>> : f \in due}
      /\ ran' = due
      /\ tick' = IF t < -Modulus THEN t ELSE t - 1

\* One pass of step() at tick t over the queue q, with the busy functions b,
\* intervals iv and registrations g.  When the n-th entry throws, the entries
\* after it are not looked at, it stays busy and the tick does not advance.
Pass(q, b, iv, g, t) ==
  LET dueAmong(n) == {q[k] : k \in {j \in 1..n : Due(q[j], b, iv, t)}}
      call(S, thrown) ==
        /\ busy' = b \cup S \cup thrown
        /\ inflight' = inflight \cup {<<f, g[f]>> : f \in S}
        /\ ran' = S
  IN  \/ /\ call(dueAmong(Len(q)), {})
         /\ tick' = (t + 1) % Modulus
      \/ /\ \E n \in DOMAIN q :
              /\ q[n] \in Throwers /\ Due(q[n], b, iv, t)
              /\ call(dueAmong(n - 1), {q[n]})
         /\ tick' = t

\* the interval timer fires
Step == /\ timer
        /\ Pass(queue, busy, ival, gen, tick)
        /\ UNCHANGED <<entries, timer, paused>>

\* start() when it does not run yet
Start ==
  /\ ~timer
  /\ paused' = FALSE
  /\ timer' = (queue # <<>>)
  /\ IF queue # <<>> THEN Pass(queue, busy, ival, gen, 0)
     ELSE tick' = 0 /\ UNCHANGED <<busy, inflight, ran>>
  /\ UNCHANGED entries

\* stop() when it runs
Stop == /\ timer
        /\ timer' = FALSE /\ tick' = NoTick
        /\ paused' = TRUE
        /\ UNCHANGED <<entries, busy, inflight, ran>>

\* add(f, i) of a function that is not registered
Add(f, i) ==
  /\ f \notin Queued /\ gen[f] < MaxAdds
  /\ queue' = Append(queue, f)
  /\ ival' = [ival EXCEPT ![f] = i]
  /\ gen' = [gen EXCEPT ![f] = @ + 1]
  /\ LET fresh == busy \ {f}
     IN  IF tick # NoTick /\ ~timer
         THEN timer' = TRUE /\ Pass(queue', fresh, ival', gen', 0)
         ELSE busy' = fresh /\ UNCHANGED <<timer, tick, inflight, ran>>
  /\ UNCHANGED paused

\* Mutant of RemoveEntry: it stops the timer as stop() does
RemoveStops(k) ==
  /\ k \in DOMAIN queue
  /\ queue' = RemoveAt(queue, k)
  /\ IF queue' = <<>> /\ timer THEN timer' = FALSE /\ tick' = NoTick
                               ELSE UNCHANGED <<timer, tick>>
  /\ UNCHANGED <<ival, gen, busy, inflight, ran, paused>>

\* remove() of the k-th entry; without entries the timer is stopped, and tick
\* is 0 so that the next add() starts it again
RemoveEntry(k) ==
  /\ k \in DOMAIN queue
  /\ queue' = RemoveAt(queue, k)
  /\ IF queue' = <<>> /\ timer THEN timer' = FALSE /\ tick' = 0
                               ELSE UNCHANGED <<timer, tick>>
  /\ UNCHANGED <<ival, gen, busy, inflight, ran, paused>>

\* Mutant of Settle: the entry is looked up by its function
SettleByFunction(f, n) ==
  /\ <<f, n>> \in inflight
  /\ inflight' = inflight \ {<<f, n>>}
  /\ busy' = busy \ {f}
  /\ UNCHANGED <<entries, timer, tick, ran, paused>>

\* Mutant of Settle: r is set only when the promise is fulfilled
SettleRejected(f, n) ==
  /\ <<f, n>> \in inflight
  /\ inflight' = inflight \ {<<f, n>>}
  /\ \/ busy' = IF gen[f] = n THEN busy \ {f} ELSE busy
     \/ UNCHANGED busy
  /\ UNCHANGED <<entries, timer, tick, ran, paused>>

\* the promise of a run settles: finally() sets r of its own entry
Settle(f, n) ==
  /\ <<f, n>> \in inflight
  /\ inflight' = inflight \ {<<f, n>>}
  /\ busy' = IF gen[f] = n THEN busy \ {f} ELSE busy
  /\ UNCHANGED <<entries, timer, tick, ran, paused>>

Next ==
  \/ Step \/ Start \/ Stop
  \/ \E f \in Fns, i \in Ivals : Add(f, i)
  \/ \E k \in 1..Cardinality(Fns) : RemoveEntry(k)
  \/ \E f \in Fns, n \in 1..MaxAdds : Settle(f, n)

Spec == Init /\ [][Next]_vars

\* setInterval keeps firing, and every promise settles
FairSpec == /\ Spec
            /\ WF_vars(Step)
            /\ \A f \in Fns : \A n \in 1..MaxAdds : WF_vars(Settle(f, n))

-----------------------------------------------------------------------------
TypeOK ==
  /\ queue \in Seq(Fns)
  /\ ival \in [Fns -> Ivals \cup {0}]
  /\ busy \subseteq Fns /\ gen \in [Fns -> Nat]
  /\ inflight \subseteq Fns \X Nat
  /\ timer \in BOOLEAN /\ tick \in Nat \cup {NoTick}
  /\ ran \subseteq Fns /\ paused \in BOOLEAN

\* The timer runs if and only if a function is registered and polling is not
\* paused: removing the last function stops it, the next add() starts it
\* again, and after stop() only start() does (luci.js add, remove, stop).
RunsIffWanted == timer <=> ~paused /\ queue # <<>>

\* An entry that may be called again has no run in flight, also when its
\* function was removed and added again while an old run went on: that run
\* sets r of the old entry only (luci.js:1189).
ReadyMeansIdle ==
  \A f \in Queued \ busy : <<f, gen[f]>> \notin inflight

\* The entry of a function that does not throw is busy only while a run of it is
\* in flight: no such entry is locked out for good, whatever others do
\* (luci.js:1187-1189).
BusyMeansRunning ==
  \A f \in (Queued \cap busy) \ Throwers : <<f, gen[f]>> \in inflight

\* A function that does not throw, with an interval of a second or more, that
\* stays registered while polling runs is called again and again: however long
\* the runs of all take, whatever was registered, removed and stopped before,
\* and though another function throws ("The function to invoke on each poll
\* interval", luci.js:1063).
CalledAgain ==
  \A f \in Fns \ Throwers :
    (<>[](timer /\ f \in Queued /\ ival[f] # 0)) => []<>(f \in ran)
=============================================================================
