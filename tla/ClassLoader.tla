---------------------------- MODULE ClassLoader -----------------------------
(***************************************************************************)
(* LuCI.require() (luci.js): loading class files over HTTP, together with  *)
(* the classes their 'require' lines name, and instantiating each class    *)
(* once its dependencies are instantiated.                                 *)
(*                                                                         *)
(* classes[name] is undefined ("none"), a pending promise ("fetching" the  *)
(* file or "waiting" for dependencies), an instance ("ready") or a promise *)
(* that was rejected ("failed"), which it stays.                           *)
(***************************************************************************)
EXTENDS FiniteSets

CONSTANTS
  Classes,
  MayFail   \* may a file be missing or its code be broken?

VARIABLES
  deps,   \* the classes each class file requires
  phase,  \* what classes[name] is
  from,   \* the chain of classes a class was first required through
  error   \* why its promise was rejected

vars == <<deps, phase, from, error>>

Errors == {"NetworkError", "CodeError", "DependencyError"}

Init ==
  /\ deps \in [Classes -> SUBSET Classes]
  /\ phase = [c \in Classes |-> "none"]
  /\ from = [c \in Classes |-> {}]
  /\ error = [c \in Classes |-> "none"]

\* Mutant of Request: the classes of one file share the array of the chain
RequestSharesChain(D, chain, ph) ==
  /\ phase' = [d \in Classes |-> IF d \in D /\ phase[d] = "none"
                                 THEN "fetching" ELSE ph[d]]
  /\ from' = [d \in Classes |-> IF d \in D /\ phase[d] = "none"
                                THEN chain \cup D ELSE from[d]]

\* require(d, chain) for each d of D: those not seen before are fetched
Request(D, chain, ph) ==
  /\ phase' = [d \in Classes |-> IF d \in D /\ phase[d] = "none"
                                 THEN "fetching" ELSE ph[d]]
  /\ from' = [d \in Classes |-> IF d \in D /\ phase[d] = "none"
                                THEN chain \cup {d} ELSE from[d]]

\* require(c) by a page, a theme or the view loader
Require(c) == /\ phase[c] = "none"
              /\ Request({c}, {}, phase)
              /\ UNCHANGED <<deps, error>>

\* the HTTP request for the file fails
NotFound(c) == /\ MayFail
               /\ phase[c] = "fetching"
               /\ phase' = [phase EXCEPT ![c] = "failed"]
               /\ error' = [error EXCEPT ![c] = "NetworkError"]
               /\ UNCHANGED <<deps, from>>

\* the file arrives and compileClass() requires what it names
Compile(c) ==
  /\ phase[c] = "fetching"
  /\ deps[c] \cap from[c] = {}
  /\ Request(deps[c], from[c], [phase EXCEPT ![c] = "waiting"])
  /\ UNCHANGED <<deps, error>>

\* one of them is in the chain: require() raises, after it has requested the
\* ones on the lines before
CompileCircular(c) ==
  /\ phase[c] = "fetching"
  /\ deps[c] \cap from[c] # {}
  /\ \E R \in SUBSET (deps[c] \ from[c]) :
       Request(R, from[c], [phase EXCEPT ![c] = "failed"])
  /\ error' = [error EXCEPT ![c] = "DependencyError"]
  /\ UNCHANGED deps

\* Mutant of Instantiate: it suffices that the dependencies are requested
InstantiateEarly(c) ==
  /\ phase[c] = "waiting"
  /\ \A d \in deps[c] : phase[d] # "none"
  /\ phase' = [phase EXCEPT ![c] = "ready"]
  /\ UNCHANGED <<deps, from, error>>

\* Promise.all(depends) is fulfilled: run the factory
Instantiate(c) ==
  /\ phase[c] = "waiting"
  /\ \A d \in deps[c] : phase[d] = "ready"
  /\ \/ phase' = [phase EXCEPT ![c] = "ready"] /\ UNCHANGED error
     \/ /\ MayFail
        /\ phase' = [phase EXCEPT ![c] = "failed"]
        /\ error' = [error EXCEPT ![c] = "CodeError"]
  /\ UNCHANGED <<deps, from>>

\* Mutant of Reject: a factory that throws is not passed on
RejectNotCode(c) ==
  /\ phase[c] = "waiting"
  /\ \E d \in deps[c] : /\ phase[d] = "failed" /\ error[d] # "CodeError"
                        /\ error' = [error EXCEPT ![c] = error[d]]
  /\ phase' = [phase EXCEPT ![c] = "failed"]
  /\ UNCHANGED <<deps, from>>

\* Promise.all(depends) is rejected with the error of a dependency
Reject(c) ==
  /\ phase[c] = "waiting"
  /\ \E d \in deps[c] : /\ phase[d] = "failed"
                        /\ error' = [error EXCEPT ![c] = error[d]]
  /\ phase' = [phase EXCEPT ![c] = "failed"]
  /\ UNCHANGED <<deps, from>>

Load(c) == NotFound(c) \/ Compile(c) \/ CompileCircular(c)
           \/ Instantiate(c) \/ Reject(c)

Next == \E c \in Classes : Require(c) \/ Load(c)

Spec == Init /\ [][Next]_vars

\* HTTP requests end and promise callbacks run
Fairness == \A c \in Classes : WF_vars(Load(c))

FairSpec == Spec /\ Fairness

-----------------------------------------------------------------------------
TypeOK ==
  /\ deps \in [Classes -> SUBSET Classes]
  /\ phase \in [Classes -> {"none", "fetching", "waiting", "ready", "failed"}]
  /\ from \in [Classes -> SUBSET Classes]
  /\ error \in [Classes -> Errors \cup {"none"}]

\* c depends, directly or not, on a class that depends on itself
ReachesCycle(c) ==
  \E S \in SUBSET Classes : /\ c \in S
                            /\ \A s \in S : deps[s] \cap S # {}

Settled(c) == phase[c] \in {"ready", "failed"}

\* No class is instantiated before, or without, all it depends on: a class
\* that takes part in a circle, or needs one that does, never is.
NoneReadyOnCycle == \A c \in Classes : phase[c] = "ready" => ~ReachesCycle(c)

\* A DependencyError is never raised for a class without a circle among its
\* dependencies, however often classes share one (luci.js:2439).
ErrorMeansCycle ==
  \A c \in Classes : error[c] = "DependencyError" => ReachesCycle(c)

\* A class without circular dependencies is loaded or fails in the end, also
\* when others that are loaded at the same time never do.
AcyclicSettles ==
  \A c \in Classes : phase[c] # "none" /\ ~ReachesCycle(c) ~> Settled(c)

\* "Throws a DependencyError when the class to load includes circular
\* dependencies" (luci.js:2413): it does not wait for ever instead.
CycleIsReported ==
  \A c \in Classes : phase[c] # "none" /\ ReachesCycle(c) ~> phase[c] = "failed"
=============================================================================
