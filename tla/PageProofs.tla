----------------------------- MODULE PageProofs -----------------------------
(***************************************************************************)
(* Proofs about the parts of a page that MCPage puts side by side: each    *)
(* part keeps its own specification, so what holds of a part holds of the  *)
(* whole.                                                                  *)
(***************************************************************************)
EXTENDS MCPage, FiniteSetTheorems, SequenceTheorems, InductionLemmas

pageVars == <<moves, callVars, vars, formVars, dropdownVars, networkVars, packageVars>>

-----------------------------------------------------------------------------
(* The classes of the page (ClassLoader)                                   *)

\* from[c] is the chain of requests that led to c: each class of it requires
\* another one of it, c alone perhaps not.
ChainInv ==
  \A c \in Classes : phase[c] # "none" =>
    /\ c \in from[c]
    /\ \A a \in from[c] \ {c} : deps[a] \cap from[c] # {}

LoaderInv == TypeOK /\ ChainInv /\ NoneReadyOnCycle /\ ErrorMeansCycle

\* a class that requires one with a circle below it has one as well
LEMMA CycleAbove ==
  ASSUME TypeOK, NEW c \in Classes, NEW d \in deps[c], ReachesCycle(d)
  PROVE  ReachesCycle(c)
<1>1. PICK S \in SUBSET Classes : d \in S /\ \A s \in S : deps[s] \cap S # {}
  BY DEF ReachesCycle
<1> DEFINE T == S \cup {c}
<1>2. T \in SUBSET Classes /\ c \in T /\ \A s \in T : deps[s] \cap T # {}
  BY <1>1
<1> QED BY <1>2 DEF ReachesCycle

\* a chain that its last class closes is a circle
LEMMA ChainCloses ==
  ASSUME LoaderInv, NEW c \in Classes, phase[c] # "none",
         deps[c] \cap from[c] # {}
  PROVE  ReachesCycle(c)
<1>1. from[c] \in SUBSET Classes /\ c \in from[c]
  BY DEF LoaderInv, TypeOK, ChainInv
<1>2. \A a \in from[c] : deps[a] \cap from[c] # {}
  BY DEF LoaderInv, ChainInv
<1> QED BY <1>1, <1>2 DEF ReachesCycle

\* require() from class c extends the chain of c
LEMMA RequestChain ==
  ASSUME LoaderInv, NEW c \in Classes, phase[c] = "fetching", deps' = deps,
         NEW D \in SUBSET deps[c], NEW p \in {"waiting", "failed"},
         Request(D, from[c], [phase EXCEPT ![c] = p])
  PROVE  /\ phase' \in [Classes -> {"none", "fetching", "waiting", "ready",
                                    "failed"}]
         /\ from' \in [Classes -> SUBSET Classes]
         /\ ChainInv'
         /\ \A x \in Classes : phase'[x] = "ready" => phase[x] = "ready"
<1> USE DEF LoaderInv, TypeOK
<1>1. /\ phase' \in [Classes -> {"none", "fetching", "waiting", "ready",
                                 "failed"}]
      /\ from' \in [Classes -> SUBSET Classes]
      /\ \A x \in Classes : phase'[x] = "ready" => phase[x] = "ready"
  BY DEF Request
<1>2. ASSUME NEW x \in Classes, phase'[x] # "none"
      PROVE  /\ x \in from'[x]
             /\ \A a \in from'[x] \ {x} : deps[a] \cap from'[x] # {}
  <2>1. CASE x \in D /\ phase[x] = "none"
    <3>1. from'[x] = from[c] \cup {x}
      BY <2>1 DEF Request
    <3>2. \A a \in from[c] \ {c} : deps[a] \cap from[c] # {}
      BY DEF ChainInv
    <3>3. x \in deps[c]
      BY <2>1
    <3> QED BY <3>1, <3>2, <3>3
  <2>2. CASE ~(x \in D /\ phase[x] = "none")
    <3>1. from'[x] = from[x] /\ phase[x] # "none"
      BY <1>2, <2>2 DEF Request
    <3> QED BY <3>1 DEF ChainInv
  <2> QED BY <2>1, <2>2
<1> QED BY <1>1, <1>2 DEF ChainInv

LEMMA InitLoader == Init => LoaderInv
BY DEF Init, LoaderInv, TypeOK, ChainInv, NoneReadyOnCycle, ErrorMeansCycle

LEMMA NextLoader == LoaderInv /\ [Next]_vars => LoaderInv'
<1> SUFFICES ASSUME LoaderInv, [Next]_vars PROVE LoaderInv' OBVIOUS
<1>0. deps' = deps
  BY DEF Next, vars, Require, Load, NotFound, Compile, CompileCircular,
     Instantiate, Reject
<1>c. \A c \in Classes : ReachesCycle(c)' <=> ReachesCycle(c)
  BY <1>0 DEF ReachesCycle
<1>1. ASSUME NEW c \in Classes, Require(c) PROVE LoaderInv'
  <2>1. \A x \in Classes :
          /\ phase'[x] = IF x = c THEN "fetching" ELSE phase[x]
          /\ from'[x] = IF x = c THEN {c} ELSE from[x]
    BY <1>1 DEF Require, Request, LoaderInv, TypeOK
  <2>2. TypeOK'
    BY <1>1 DEF Require, Request, LoaderInv, TypeOK
  <2>3. ChainInv'
    BY <1>0, <2>1 DEF LoaderInv, ChainInv
  <2>4. NoneReadyOnCycle' /\ ErrorMeansCycle'
    BY <1>1, <1>c, <2>1
       DEF Require, LoaderInv, NoneReadyOnCycle, ErrorMeansCycle
  <2> QED BY <2>2, <2>3, <2>4 DEF LoaderInv
<1>2. ASSUME NEW c \in Classes, NotFound(c) PROVE LoaderInv'
  <2>1. TypeOK'
    BY <1>2 DEF NotFound, LoaderInv, TypeOK, Errors
  <2>2. ChainInv'
    BY <1>2 DEF NotFound, LoaderInv, TypeOK, ChainInv
  <2>3. NoneReadyOnCycle' /\ ErrorMeansCycle'
    BY <1>2, <1>c
       DEF NotFound, LoaderInv, TypeOK, NoneReadyOnCycle, ErrorMeansCycle
  <2> QED BY <2>1, <2>2, <2>3 DEF LoaderInv
<1>3. ASSUME NEW c \in Classes, Compile(c) PROVE LoaderInv'
  <2>1. Request(deps[c], from[c], [phase EXCEPT ![c] = "waiting"])
        /\ phase[c] = "fetching" /\ error' = error
    BY <1>3 DEF Compile
  <2>2. /\ phase' \in [Classes -> {"none", "fetching", "waiting", "ready",
                                   "failed"}]
        /\ from' \in [Classes -> SUBSET Classes] /\ ChainInv'
        /\ \A x \in Classes : phase'[x] = "ready" => phase[x] = "ready"
    BY <1>0, <2>1, RequestChain
  <2> QED BY <1>0, <1>c, <2>1, <2>2
          DEF LoaderInv, TypeOK, NoneReadyOnCycle, ErrorMeansCycle
<1>4. ASSUME NEW c \in Classes, CompileCircular(c) PROVE LoaderInv'
  <2>1. PICK R \in SUBSET (deps[c] \ from[c]) :
          Request(R, from[c], [phase EXCEPT ![c] = "failed"])
    BY <1>4 DEF CompileCircular
  <2>2. /\ phase[c] = "fetching" /\ R \in SUBSET deps[c]
        /\ error' = [error EXCEPT ![c] = "DependencyError"]
    BY <1>4 DEF CompileCircular
  <2>3. /\ phase' \in [Classes -> {"none", "fetching", "waiting", "ready",
                                   "failed"}]
        /\ from' \in [Classes -> SUBSET Classes] /\ ChainInv'
        /\ \A x \in Classes : phase'[x] = "ready" => phase[x] = "ready"
    BY <1>0, <2>1, <2>2, RequestChain
  <2>4. ReachesCycle(c)
    BY <1>4, ChainCloses DEF CompileCircular
  <2>5. TypeOK'
    BY <1>0, <2>2, <2>3 DEF LoaderInv, TypeOK, Errors
  <2> QED BY <1>c, <2>2, <2>3, <2>4, <2>5
          DEF LoaderInv, TypeOK, NoneReadyOnCycle, ErrorMeansCycle
<1>5. ASSUME NEW c \in Classes, Instantiate(c) PROVE LoaderInv'
  <2>1. ~ReachesCycle(c)
    <3> SUFFICES ASSUME ReachesCycle(c) PROVE FALSE OBVIOUS
    <3>1. PICK S \in SUBSET Classes : c \in S /\ \A s \in S : deps[s] \cap S # {}
      BY DEF ReachesCycle
    <3>2. PICK d \in deps[c] : d \in S
      BY <3>1
    <3>3. ReachesCycle(d)
      BY <3>1, <3>2 DEF ReachesCycle
    <3>4. phase[d] = "ready" /\ d \in Classes
      BY <1>5, <3>1, <3>2 DEF Instantiate
    <3> QED BY <3>3, <3>4 DEF LoaderInv, NoneReadyOnCycle
  <2>2. TypeOK'
    BY <1>5 DEF Instantiate, LoaderInv, TypeOK, Errors
  <2>3. ChainInv'
    BY <1>5 DEF Instantiate, LoaderInv, TypeOK, ChainInv
  <2>4. \A x \in Classes :
          /\ x # c => phase'[x] = phase[x] /\ error'[x] = error[x]
          /\ error'[c] = "DependencyError" => error[c] = "DependencyError"
    BY <1>5 DEF Instantiate, LoaderInv, TypeOK
  <2> QED BY <1>c, <2>1, <2>2, <2>3, <2>4
          DEF LoaderInv, NoneReadyOnCycle, ErrorMeansCycle
<1>6. ASSUME NEW c \in Classes, Reject(c) PROVE LoaderInv'
  <2>1. PICK d \in deps[c] : /\ phase[d] = "failed"
                             /\ error' = [error EXCEPT ![c] = error[d]]
    BY <1>6 DEF Reject
  <2>2. d \in Classes
    BY <2>1 DEF LoaderInv, TypeOK
  <2>3. TypeOK'
    BY <1>6, <2>1, <2>2 DEF Reject, LoaderInv, TypeOK
  <2>4. ChainInv'
    BY <1>6 DEF Reject, LoaderInv, TypeOK, ChainInv
  <2>5. NoneReadyOnCycle'
    BY <1>6, <1>c DEF Reject, LoaderInv, TypeOK, NoneReadyOnCycle
  <2>6. error[d] = "DependencyError" => ReachesCycle(c)
    BY <2>1, <2>2, CycleAbove DEF LoaderInv, ErrorMeansCycle
  <2>7. ErrorMeansCycle'
    BY <1>c, <2>1, <2>6 DEF LoaderInv, TypeOK, ErrorMeansCycle
  <2> QED BY <2>3, <2>4, <2>5, <2>7 DEF LoaderInv
<1>7. CASE UNCHANGED vars
  BY <1>7, <1>c DEF vars, LoaderInv, TypeOK, ChainInv, NoneReadyOnCycle,
     ErrorMeansCycle
<1> QED BY <1>1, <1>2, <1>3, <1>4, <1>5, <1>6, <1>7 DEF Next, Load

LEMMA LoaderInvariant == Spec => []LoaderInv
BY InitLoader, NextLoader, PTL DEF Spec

\* A class is instantiated only if nothing below it in the dependency graph
\* is a circle, in whatever order files and callbacks arrive.
THEOREM NoInstanceOnCycle == Spec => []NoneReadyOnCycle
<1>1. LoaderInv => NoneReadyOnCycle
  BY DEF LoaderInv
<1> QED BY <1>1, LoaderInvariant, PTL

\* require() raises a DependencyError only for real circles: two classes that
\* share a dependency, however it was requested first, never cause one.
THEOREM DependencyErrorIsSound == Spec => []ErrorMeansCycle
<1>1. LoaderInv => ErrorMeansCycle
  BY DEF LoaderInv
<1> QED BY <1>1, LoaderInvariant, PTL

-----------------------------------------------------------------------------
(* The cached state of the networks (NetworkState)                         *)

\* Nothing is newer than the router.
NotAhead ==
    /\ cached <= version
    /\ \A l \in Loads : load[l].read <= version

\* _init is the one load that others may join, as long as it reads.
OneReads ==
    /\ init # Network!NoLoad => load[init].at \in {"sent", "read"}
    /\ \A l \in Loads : load[l].at \in {"sent", "read"} => init = l

\* What it has read is not older than what is cached or may be cached first.
ReadsLast ==
    \A l \in Loads : load[l].at = "read" =>
      /\ cached <= load[l].read
      /\ \A m \in Loads : load[m].at = "extra" => load[m].read <= load[l].read

\* Who waits for a load is not ahead of it.
WaitersFollow ==
    \A c \in Callers :
      /\ caller[c].had <= version /\ caller[c].began <= version
      /\ caller[c].waits # Network!NoLoad =>
           LET l == load[caller[c].waits]
           IN  l.at # "free" /\ (l.at # "sent" => caller[c].had <= l.read /\ caller[c].began <= l.read)

StateInv == Network!TypeOK /\ NotAhead /\ OneReads /\ ReadsLast /\ WaitersFollow /\ NeverOlder

Versions == 0..MaxVersion
LoadType == [at : {"free", "sent", "read", "extra"}, read : Versions]
CallerType == [waits : Loads \cup {Network!NoLoad}, had : Versions, began : Versions, got : Versions]

LEMMA StateStart == Network!StateAssumption /\ Network!Init => StateInv
BY DEF Network!StateAssumption, Network!Init, StateInv, Network!TypeOK, NotAhead, OneReads, ReadsLast, WaitersFollow,
   NeverOlder, Network!NeverOlder, Network!Idle, Network!NoLoad

LEMMA VersionNumbers ==
  ASSUME Network!StateAssumption, StateInv
  PROVE  /\ version \in Nat /\ cached \in Nat
         /\ \A l \in Loads : load[l] \in LoadType /\ load[l].read \in Nat
         /\ \A c \in Callers : caller[c] \in CallerType /\ caller[c].had \in Nat /\ caller[c].began \in Nat
                                 /\ caller[c].got \in Nat
         /\ Network!NoLoad \notin Loads
BY DEF StateInv, Network!TypeOK, Network!StateAssumption, LoadType, CallerType, Versions

\* A caller that waits for a load that reads, or is given the cached state.
LEMMA AwaitStep ==
  ASSUME Network!StateAssumption, StateInv, NEW c \in Callers, Network!Await(c), UNCHANGED <<version, cached>>
  PROVE  StateInv'
<1>1. PICK l \in Loads, b \in Versions :
         /\ caller' = [caller EXCEPT ![c] = [waits |-> l, had |-> cached, began |-> b, got |-> 0]]
         /\ \/ init = l /\ b = 0 /\ UNCHANGED <<init, load>>
            \/ /\ init = Network!NoLoad /\ load[l].at = "free" /\ init' = l /\ b = version
               /\ load' = [load EXCEPT ![l].at = "sent"]
  BY DEF Network!Await, Network!Free, StateInv, Network!TypeOK, Network!StateAssumption, Versions
<1>2. /\ caller' \in [Callers -> CallerType] /\ load' \in [Loads -> LoadType] /\ init' \in Loads
      /\ version \in Versions /\ cached \in Versions
  BY <1>1 DEF StateInv, Network!TypeOK, CallerType, LoadType, Versions, Network!StateAssumption
<1>3. Network!TypeOK'
  BY <1>2 DEF StateInv, Network!TypeOK, CallerType, LoadType, Versions
<1>4. \A m \in Loads : /\ load'[m].read = load[m].read
                       /\ load'[m].at = load[m].at \/ (m = l /\ load[m].at = "free" /\ load'[m].at = "sent")
  BY <1>1 DEF StateInv, Network!TypeOK
<1>5. NotAhead' /\ OneReads' /\ ReadsLast'
  <2>1. NotAhead' /\ ReadsLast'
    BY <1>1, <1>4, VersionNumbers DEF StateInv, NotAhead, ReadsLast
  <2>2. OneReads'
    <3>1. CASE init = l /\ UNCHANGED <<init, load>>
      BY <3>1 DEF StateInv, OneReads
    <3>2. CASE init = Network!NoLoad /\ init' = l /\ load' = [load EXCEPT ![l].at = "sent"]
      <4>1. load'[l].at = "sent" /\ \A m \in Loads \ {l} : load'[m] = load[m]
        BY <3>2, VersionNumbers DEF StateInv, Network!TypeOK, LoadType
      <4> QED BY <3>2, <4>1, VersionNumbers DEF StateInv, OneReads
    <3> QED BY <1>1, <3>1, <3>2
  <2> QED BY <2>1, <2>2
<1>6. /\ \A d \in Callers \ {c} : caller'[d] = caller[d]
      /\ caller'[c].waits = l /\ caller'[c].had = cached /\ caller'[c].began = b /\ caller'[c].got = 0
  BY <1>1 DEF StateInv, Network!TypeOK
<1>7. load'[l].at \in {"sent", "read"}
  BY <1>1, <1>5, VersionNumbers DEF OneReads
<1>8. WaitersFollow'
  <2>1. ASSUME NEW d \in Callers \ {c}
        PROVE  /\ caller[d].had <= version /\ caller[d].began <= version
               /\ caller[d].waits # Network!NoLoad =>
                    LET k == load'[caller[d].waits]
                    IN  k.at # "free" /\ (k.at # "sent" => caller[d].had <= k.read /\ caller[d].began <= k.read)
    BY <1>4, VersionNumbers DEF StateInv, WaitersFollow, CallerType
  <2>2. cached <= version /\ b <= version /\ load'[l].at # "free"
    BY <1>1, <1>7, VersionNumbers DEF StateInv, NotAhead
  <2>3. load'[l].at # "sent" => cached <= load'[l].read /\ b <= load'[l].read
    BY <1>1, <1>4, <1>7, VersionNumbers DEF StateInv, ReadsLast
  <2> QED BY <1>1, <1>6, <2>1, <2>2, <2>3 DEF WaitersFollow
<1>9. NeverOlder'
  BY <1>6 DEF StateInv, NeverOlder, Network!NeverOlder
<1> QED BY <1>3, <1>5, <1>8, <1>9 DEF StateInv

LEMMA StateStep ==
  ASSUME Network!StateAssumption, StateInv, [Network!Next]_networkVars
  PROVE  StateInv'
<1> USE VersionNumbers
<1>1. CASE Network!Change
  <2>1. Network!TypeOK'
    BY <1>1 DEF Network!Change, StateInv, Network!TypeOK, Network!StateAssumption
  <2>2. NotAhead' /\ OneReads' /\ ReadsLast'
    BY <1>1 DEF Network!Change, StateInv, NotAhead, OneReads, ReadsLast
  <2>3. WaitersFollow'
    BY <1>1 DEF Network!Change, StateInv, WaitersFollow
  <2> QED BY <1>1, <2>1, <2>2, <2>3 DEF Network!Change, StateInv, NeverOlder, Network!NeverOlder
<1>2. ASSUME NEW c \in Callers, Network!Ask(c) \/ Network!Flush(c)
      PROVE  StateInv'
  <2>1. CASE Network!Await(c)
    BY <1>2, <2>1, AwaitStep DEF Network!Ask, Network!Flush
  <2>2. CASE caller' = [caller EXCEPT ![c] = [waits |-> Network!NoLoad, had |-> cached, began |-> 0, got |-> cached]]
             /\ UNCHANGED <<init, load, version, cached>>
    <3>1. /\ \A d \in Callers \ {c} : caller'[d] = caller[d]
          /\ caller'[c] = [waits |-> Network!NoLoad, had |-> cached, began |-> 0, got |-> cached]
          /\ caller' \in [Callers -> CallerType]
      <4>1. cached \in Versions /\ 0 \in Versions
        BY DEF StateInv, Network!TypeOK, Versions, Network!StateAssumption
      <4> QED BY <2>2, <4>1 DEF StateInv, Network!TypeOK, CallerType, Versions
    <3>2. Network!TypeOK'
      BY <2>2, <3>1 DEF StateInv, Network!TypeOK, CallerType, Versions
    <3>3. NotAhead' /\ OneReads' /\ ReadsLast'
      BY <2>2 DEF StateInv, NotAhead, OneReads, ReadsLast
    <3>4. cached <= version /\ 0 <= version /\ 0 <= cached
      BY DEF StateInv, NotAhead
    <3>5. WaitersFollow'
      <4>1. /\ caller'[c].had <= version /\ caller'[c].began <= version
            /\ caller'[c].waits = Network!NoLoad
        BY <3>1, <3>4
      <4> QED BY <2>2, <3>1, <4>1 DEF StateInv, WaitersFollow
    <3>6. NeverOlder'
      BY <3>1, <3>4 DEF StateInv, NeverOlder, Network!NeverOlder
    <3> QED BY <3>2, <3>3, <3>5, <3>6 DEF StateInv
  <2> QED BY <1>2, <2>1, <2>2 DEF Network!Ask, Network!Flush
<1>3. ASSUME NEW l \in Loads, Network!Read(l)
      PROVE  StateInv'
  BY <1>3 DEF Network!Read, StateInv, Network!TypeOK, NotAhead, OneReads, ReadsLast, WaitersFollow,
     NeverOlder, Network!NeverOlder, LoadType, CallerType, Versions
<1>4. ASSUME NEW l \in Loads, Network!Fetched(l)
      PROVE  StateInv'
  BY <1>4 DEF Network!Fetched, StateInv, Network!TypeOK, NotAhead, OneReads, ReadsLast, WaitersFollow,
     NeverOlder, Network!NeverOlder, LoadType, CallerType, Versions
<1>5. ASSUME NEW l \in Loads, Network!Done(l)
      PROVE  StateInv'
  <2>1. /\ \A m \in Loads \ {l} : load'[m] = load[m]
        /\ load'[l] = [at |-> "free", read |-> 0] /\ load' \in [Loads -> LoadType]
    <3>1. [at |-> "free", read |-> 0] \in LoadType
      BY DEF LoadType, Versions, Network!StateAssumption
    <3> QED BY <1>5, <3>1 DEF Network!Done, StateInv, Network!TypeOK, LoadType, Versions
  <2>2. cached' = load[l].read /\ load[l].at = "extra" /\ UNCHANGED <<version, init>>
    BY <1>5 DEF Network!Done
  <2>3. \A c \in Callers :
          IF caller[c].waits = l
          THEN /\ caller'[c].waits = Network!NoLoad /\ caller'[c].got = load[l].read
               /\ caller'[c].had = caller[c].had /\ caller'[c].began = caller[c].began
          ELSE caller'[c] = caller[c]
    BY <1>5 DEF Network!Done, CallerType
  <2>4. Network!TypeOK'
    <3>1. caller' \in [Callers -> CallerType]
      BY <1>5 DEF Network!Done, CallerType, LoadType
    <3> QED BY <2>1, <2>2, <3>1 DEF StateInv, Network!TypeOK, CallerType, LoadType, Versions
  <2>5. NotAhead' /\ OneReads' /\ ReadsLast'
    <3>1. \A m \in Loads : load'[m].at # "free" => m # l /\ load'[m] = load[m]
      BY <2>1
    <3>2. NotAhead'
      BY <2>1, <2>2 DEF StateInv, NotAhead
    <3>3. OneReads'
      BY <2>1, <2>2, <3>1 DEF StateInv, OneReads, Network!TypeOK
    <3>4. ReadsLast'
      BY <2>2, <3>1 DEF StateInv, ReadsLast
    <3> QED BY <3>2, <3>3, <3>4
  <2>6. WaitersFollow'
    <3> SUFFICES ASSUME NEW c \in Callers
                 PROVE  /\ caller'[c].had <= version /\ caller'[c].began <= version
                        /\ caller'[c].waits # Network!NoLoad =>
                             LET k == load'[caller'[c].waits]
                             IN  /\ k.at # "free"
                                 /\ k.at # "sent" => caller'[c].had <= k.read /\ caller'[c].began <= k.read
      BY <2>2 DEF WaitersFollow
    <3>1. CASE caller[c].waits = l
      BY <2>3, <3>1 DEF StateInv, WaitersFollow
    <3>2. CASE caller[c].waits # l
      BY <2>1, <2>3, <3>2 DEF StateInv, WaitersFollow, CallerType
    <3> QED BY <3>1, <3>2
  <2>7. NeverOlder'
    <3> SUFFICES ASSUME NEW c \in Callers, caller'[c].got # 0
                 PROVE  caller'[c].had <= caller'[c].got /\ caller'[c].began <= caller'[c].got
      BY DEF NeverOlder, Network!NeverOlder
    <3>1. CASE caller[c].waits = l
      BY <2>2, <2>3, <3>1 DEF StateInv, WaitersFollow
    <3>2. CASE caller[c].waits # l
      BY <2>3, <3>2 DEF StateInv, NeverOlder, Network!NeverOlder
    <3> QED BY <3>1, <3>2
  <2> QED BY <2>4, <2>5, <2>6, <2>7 DEF StateInv
<1>6. CASE UNCHANGED networkVars
  BY <1>6 DEF networkVars, StateInv, Network!TypeOK, NotAhead, OneReads, ReadsLast, WaitersFollow,
     NeverOlder, Network!NeverOlder
<1> QED BY <1>1, <1>2, <1>3, <1>4, <1>5, <1>6 DEF Network!Next

LEMMA PageNetwork == PageSpec => Network!Init /\ [][Network!Next]_networkVars
<1>1. PageInit => Network!Init
  BY DEF PageInit
<1>2. [PageNext]_pageVars => [Network!Next]_networkVars
  BY DEF PageNext, pageVars, networkVars
<1> QED BY <1>1, <1>2, PTL DEF PageSpec, pageVars

LEMMA StateInvariant == PageSpec => []StateInv
<1>1. Network!Init => StateInv
  BY StateStart, MCAssumption
<1>2. StateInv /\ [Network!Next]_networkVars => StateInv'
  BY StateStep, MCAssumption
<1> QED BY <1>1, <1>2, PageNetwork, PTL

\* However loads of the state of the networks overlap, and whatever the
\* pages flush, no caller is given an older state than the one cached when it
\* asked, or than the router's when it began to load (initNetworkState() of
\* network.js).
THEOREM StateIsNeverOlder == PageSpec => []NeverOlder
<1>1. StateInv => NeverOlder
  BY DEF StateInv
<1> QED BY <1>1, StateInvariant, PTL

-----------------------------------------------------------------------------
(* Sequences of sequences, in a row                                        *)

LEMMA RangeOf ==
  ASSUME NEW S, NEW s \in Seq(S)
  PROVE  /\ Packages!Range(s) \subseteq S
         /\ Packages!Range(s) = {s[i] : i \in 1..Len(s)}
<1>1. DOMAIN s = 1..Len(s) /\ \A i \in 1..Len(s) : s[i] \in S
  OBVIOUS
<1> QED BY <1>1 DEF Packages!Range

LEMMA RangeOfBoth ==
  ASSUME NEW S, NEW s \in Seq(S), NEW t \in Seq(S)
  PROVE  /\ s \o t \in Seq(S)
         /\ Packages!Range(s \o t) = Packages!Range(s) \cup Packages!Range(t)
<1>1. s \o t \in Seq(S) /\ Len(s \o t) = Len(s) + Len(t)
  OBVIOUS
<1>2. \A i \in 1..Len(s) : i \in 1..Len(s \o t) /\ (s \o t)[i] = s[i]
  OBVIOUS
<1>3. \A i \in 1..Len(t) : Len(s) + i \in 1..Len(s \o t) /\ (s \o t)[Len(s) + i] = t[i]
  OBVIOUS
<1>4. \A i \in 1..Len(s \o t) : \/ i \in 1..Len(s)
                                \/ i - Len(s) \in 1..Len(t) /\ (s \o t)[i] = t[i - Len(s)]
  OBVIOUS
<1> DEFINE st == s \o t
<1> HIDE DEF st
<1>5. /\ Packages!Range(s) = {s[i] : i \in 1..Len(s)}
      /\ Packages!Range(t) = {t[i] : i \in 1..Len(t)}
      /\ Packages!Range(st) = {st[i] : i \in 1..Len(st)}
  BY <1>1, RangeOf DEF st
<1>6. Packages!Range(s) \subseteq Packages!Range(st)
  BY <1>2, <1>5 DEF st
<1>7. Packages!Range(t) \subseteq Packages!Range(st)
  BY <1>3, <1>5 DEF st
<1>8. Packages!Range(st) \subseteq Packages!Range(s) \cup Packages!Range(t)
  <2> SUFFICES ASSUME NEW i \in 1..Len(st) PROVE st[i] \in Packages!Range(s) \cup Packages!Range(t)
    BY <1>5
  <2>1. CASE i \in 1..Len(s)
    BY <1>2, <1>5, <2>1 DEF st
  <2>2. CASE i - Len(s) \in 1..Len(t) /\ st[i] = t[i - Len(s)]
    BY <1>5, <2>2
  <2> QED BY <1>4, <2>1, <2>2 DEF st
<1> QED BY <1>1, <1>6, <1>7, <1>8 DEF st

\* FlattenSeq() joins them from the left.
LEMMA FlatSteps ==
  ASSUME NEW S, NEW ss \in Seq(Seq(S)), ss # <<>>
  PROVE  \E f : /\ \A i \in 1..Len(ss) : f[i] = IF i = 1 THEN ss[i] ELSE f[i - 1] \o ss[i]
                /\ Packages!FlattenSeq(ss) = f[Len(ss)]
<1> DEFINE N == Len(ss)
           Ok(f, k) == f = [i \in 1..k |-> IF i = 1 THEN ss[i] ELSE f[i - 1] \o ss[i]]
           Has == {k \in 0..N : \E f : Ok(f, k)}
           First == [i \in 1..0 |-> <<>>]
<1>0. N \in Nat \ {0}
  OBVIOUS
<1> HIDE DEF N
<1>1. \A k \in 0..N : k \in Has
  <2>1. 0 \in Has
    <3>1. Ok(First, 0)
      OBVIOUS
    <3>2. \E f : Ok(f, 0)
      BY <3>1
    <3> HIDE DEF Ok
    <3> QED BY <1>0, <3>2
  <2>2. ASSUME NEW k \in 0..(N - 1), k \in Has
        PROVE  k + 1 \in Has
    <3>1. PICK g : Ok(g, k)
      BY <2>2
    <3> DEFINE f == [i \in 1..(k + 1) |->
                       IF i = k + 1 THEN (IF i = 1 THEN ss[i] ELSE g[k] \o ss[i]) ELSE g[i]]
    <3>2. \A i \in 1..(k + 1) : f[i] = IF i = 1 THEN ss[i] ELSE f[i - 1] \o ss[i]
      <4> SUFFICES ASSUME NEW i \in 1..(k + 1) PROVE f[i] = IF i = 1 THEN ss[i] ELSE f[i - 1] \o ss[i]
        OBVIOUS
      <4>1. i # 1 => i - 1 \in 1..(k + 1) /\ i - 1 # k + 1 /\ f[i - 1] = g[i - 1]
        BY <1>0
      <4>2. CASE i = k + 1
        BY <4>1, <4>2
      <4>3. CASE i # k + 1
        <5>1. i \in 1..k
          BY <4>3
        <5>2. g[i] = IF i = 1 THEN ss[i] ELSE g[i - 1] \o ss[i]
          BY <3>1, <5>1
        <5> QED BY <4>1, <4>3, <5>2
      <4> QED BY <4>2, <4>3
    <3>3. f = [i \in 1..(k + 1) |-> IF i = 1 THEN ss[i] ELSE f[i - 1] \o ss[i]]
      <4>1. f = [i \in 1..(k + 1) |-> f[i]]
        OBVIOUS
      <4> HIDE DEF f
      <4> QED BY <3>2, <4>1
    <3>4. \E h : Ok(h, k + 1)
      <4> HIDE DEF f
      <4> QED BY <3>3
    <3> HIDE DEF Ok
    <3> QED BY <1>0, <3>4
  <2> HIDE DEF Has
  <2> QED BY <1>0, <2>1, <2>2, StepByStep
<1>2. \E f : Ok(f, N)
  <2>1. N \in 0..N
    BY <1>0
  <2>2. N \in Has
    BY <1>1, <2>1
  <2> HIDE DEF Ok
  <2> QED BY <2>2
<1> DEFINE fl == CHOOSE f : f = [i \in 1..Len(ss) |-> IF i = 1 THEN ss[i] ELSE f[i - 1] \o ss[i]]
<1>3. fl = [i \in 1..Len(ss) |-> IF i = 1 THEN ss[i] ELSE fl[i - 1] \o ss[i]]
  BY <1>2 DEF N
<1>4. Packages!FlattenSeq(ss) = fl[Len(ss)]
  BY <1>0 DEF Packages!FlattenSeq, N
<1> HIDE DEF fl
<1>5. \A i \in 1..Len(ss) : fl[i] = IF i = 1 THEN ss[i] ELSE fl[i - 1] \o ss[i]
  BY <1>3
<1> QED BY <1>4, <1>5

LEMMA Flattened ==
  ASSUME NEW S, NEW ss \in Seq(Seq(S))
  PROVE  /\ Packages!FlattenSeq(ss) \in Seq(S)
         /\ Packages!Range(Packages!FlattenSeq(ss)) = UNION {Packages!Range(ss[i]) : i \in 1..Len(ss)}
<1>1. CASE ss = <<>>
  <2>1. Packages!FlattenSeq(ss) = <<>>
    BY <1>1 DEF Packages!FlattenSeq
  <2>2. <<>> \in Seq(S) /\ Packages!Range(<<>>) = {}
    BY DEF Packages!Range
  <2>3. UNION {Packages!Range(ss[i]) : i \in 1..Len(ss)} = {}
    BY <1>1
  <2> QED BY <2>1, <2>2, <2>3
<1>2. CASE ss # <<>>
  <2>1. PICK f : /\ \A i \in 1..Len(ss) : f[i] = IF i = 1 THEN ss[i] ELSE f[i - 1] \o ss[i]
                 /\ Packages!FlattenSeq(ss) = f[Len(ss)]
    BY <1>2, FlatSteps
  <2> DEFINE N == Len(ss)
             All(k) == UNION {Packages!Range(ss[i]) : i \in 1..k}
             Good == {k \in 0..N : k # 0 => f[k] \in Seq(S) /\ Packages!Range(f[k]) = All(k)}
  <2>2. N \in Nat \ {0} /\ \A i \in 1..N : ss[i] \in Seq(S)
    BY <1>2
  <2> HIDE DEF N
  <2>3. ASSUME NEW k \in 0..(N - 1), k \in Good
        PROVE  k + 1 \in Good
    <3>1. k + 1 \in 1..N /\ k + 1 \in 0..N /\ ss[k + 1] \in Seq(S)
      BY <2>2
    <3>2. CASE k = 0
      <4>1. f[1] = ss[1] /\ All(1) = Packages!Range(ss[1])
        BY <2>1, <3>1, <3>2, SMTT(40) DEF N
      <4>2. f[k + 1] \in Seq(S) /\ Packages!Range(f[k + 1]) = All(k + 1)
        BY <3>1, <3>2, <4>1
      <4> QED BY <3>1, <4>2
    <3>3. CASE k # 0
      <4>1. f[k + 1] = f[k] \o ss[k + 1]
        <5>1. k + 1 # 1 /\ (k + 1) - 1 = k
          BY <2>2, <3>3
        <5> QED BY <2>1, <3>1, <5>1 DEF N
      <4>2. f[k] \in Seq(S) /\ Packages!Range(f[k]) = All(k)
        BY <2>3, <3>3
      <4>3. All(k + 1) = All(k) \cup Packages!Range(ss[k + 1])
        <5>1. 1..(k + 1) = (1..k) \cup {k + 1}
          BY <2>2
        <5> QED BY <5>1
      <4>4. f[k + 1] \in Seq(S) /\ Packages!Range(f[k + 1]) = All(k) \cup Packages!Range(ss[k + 1])
        BY <3>1, <4>1, <4>2, RangeOfBoth
      <4> HIDE DEF All
      <4> QED BY <3>1, <4>3, <4>4
    <3> QED BY <3>2, <3>3
  <2>4. 0 \in Good
    BY <2>2
  <2> HIDE DEF Good
  <2>5. \A k \in 0..N : k \in Good
    BY ONLY <2>2, <2>3, <2>4, StepByStep
  <2>6. N \in 0..N /\ N \in Good
    BY <2>2, <2>5
  <2> QED BY <2>1, <2>2, <2>6 DEF Good, N
<1> QED BY <1>1, <1>2

-----------------------------------------------------------------------------
(* The plan of an installation (PackageDeps)                               *)

\* All packages of the two lists, and those of them that provide a name.
Stock == Packages!Range(lists.installed) \cup Packages!Range(lists.available)
Providing(n) == {p \in Stock : n \in p.provides \cup {p.name}}

ListsType == lists \in [installed : Installed \cup {<<>>}, available : Available \cup {<<>>}]

\* A requirement is known or still to visit.
Covered(r) == Packages!Known(r) \/ r \in Packages!Range(todo)

\* What the wanted requirements and those seen need.
AllCovered ==
    /\ \A r \in Packages!Range(wanted) : Covered(r)
    /\ \A q \in seen : \A r \in Packages!Range(Packages!Below(q.name)) : Covered(r)

\* Nothing but that is visited.
OnlyNeeded == seen \cup Packages!Range(todo) \subseteq Packages!Closure

Met(r) ==
    \/ \E i \in DOMAIN lists.installed : lists.installed[i].ready /\ Packages!Meets(lists.installed[i], r)
    \/ \E i \in DOMAIN planned : Packages!Meets(planned[i], r)

DepsInv ==
    /\ ListsType
    /\ wanted \in Seq(Requirements) /\ todo \in Seq(Requirements)
    /\ seen \subseteq Requirements /\ errors \subseteq seen
    /\ planned \in Seq(Stock)
    /\ AllCovered /\ OnlyNeeded
    /\ \A r \in seen \ errors : Met(r)

LEMMA ListFacts ==
  ASSUME Packages!DepsAssumption, ListsType
  PROVE  /\ \A list \in {lists.installed, lists.available} : list \in Seq(Packages!Range(list))
         /\ \A p \in Stock : p.depends \in Seq(Requirements)
         /\ \A p \in Stock : p.ready => p \in Packages!Range(lists.installed)
         /\ \A p, q \in Stock : p.name \in q.provides \cup {q.name} => p.provides \subseteq q.provides
<1>1. \A list \in {lists.installed, lists.available} :
         list \in Installed \cup Available \/ list = <<>>
  BY DEF ListsType
<1>2. lists.available \in Available \/ lists.available = <<>>
  BY DEF ListsType
<1>3. ASSUME NEW list \in {lists.installed, lists.available}
      PROVE  list \in Seq(Packages!Range(list))
  <2>1. CASE list \in Installed \cup Available
    BY <2>1, Zenon DEF Packages!DepsAssumption
  <2>2. CASE list = <<>>
    BY <2>2
  <2> QED BY <1>1, <2>1, <2>2
<1>4. \A p \in Stock : \E list \in {lists.installed, lists.available} :
         list \in Installed \cup Available /\ \E i \in DOMAIN list : p = list[i]
  BY <1>1 DEF Stock, Packages!Range
<1>5. \A p \in Stock : p.depends \in Seq(Requirements)
  BY <1>4 DEF Packages!DepsAssumption
<1>6. \A p \in Stock : p.ready => p \in Packages!Range(lists.installed)
  BY <1>2 DEF Packages!DepsAssumption, Stock, Packages!Range
<1>7. ASSUME NEW p \in Stock, NEW q \in Stock, p.name \in q.provides \cup {q.name}
      PROVE  p.provides \subseteq q.provides
  <2>1. PICK one \in Installed \cup Available : \E i \in DOMAIN one : p = one[i]
    BY <1>4
  <2>2. PICK two \in Installed \cup Available : \E i \in DOMAIN two : q = two[i]
    BY <1>4
  <2> QED BY <1>7, <2>1, <2>2 DEF Packages!DepsAssumption
<1> QED BY <1>3, <1>5, <1>6, <1>7

LEMMA ProvidersProvide ==
  ASSUME Packages!DepsAssumption, ListsType,
         NEW list \in {lists.installed, lists.available}, NEW n
  PROVE  Packages!Providers(list, n) \in Seq(Packages!Range(list) \cap Providing(n))
<1> DEFINE S == Packages!Range(list) \cap Providing(n)
           ss == [i \in DOMAIN list |-> IF Packages!Provides(list, i, n) THEN <<list[i]>> ELSE <<>>]
<1>1. list \in Seq(Packages!Range(list)) /\ DOMAIN list = 1..Len(list) /\ Len(list) \in Nat
  BY ListFacts
<1>2. \A i \in DOMAIN list : ss[i] \in Seq(S)
  <2> SUFFICES ASSUME NEW i \in DOMAIN list PROVE ss[i] \in Seq(S)
    OBVIOUS
  <2>1. CASE Packages!Provides(list, i, n)
    <3>1. list[i] \in S
      BY <2>1 DEF Packages!Provides, Packages!Range, Providing, Stock
    <3> HIDE DEF S
    <3> QED BY <2>1, <3>1
  <2>2. CASE ~Packages!Provides(list, i, n)
    BY <2>2
  <2> QED BY <2>1, <2>2
<1>3. ss \in Seq(Seq(S))
  <2> HIDE DEF S
  <2> QED BY <1>1, <1>2
<1>4. Packages!FlattenSeq(ss) \in Seq(S)
  BY <1>3, Flattened
<1> QED BY <1>4 DEF Packages!Providers

LEMMA CandidatesProvide ==
  ASSUME Packages!DepsAssumption, ListsType, NEW n
  PROVE  Packages!Candidates(n) \in Seq(Providing(n))
<1> DEFINE have == Packages!Providers(lists.installed, n)
           others == Packages!Providers(lists.available, n)
           As(p) == IF p.name \in Packages!NamesOf(lists.installed)
                    THEN Packages!Package(lists.installed, p.name) ELSE p
           ss == [i \in DOMAIN others |->
                    IF others[i].name \in Packages!NamesOf(have) THEN <<>> ELSE <<As(others[i])>>]
           S == Providing(n)
<1>1. have \in Seq(S) /\ others \in Seq(S)
  <2>1. ASSUME NEW T, NEW s \in Seq(T \cap S) PROVE s \in Seq(S)
    <3> HIDE DEF S
    <3> QED OBVIOUS
  <2>2. /\ have \in Seq(Packages!Range(lists.installed) \cap S)
        /\ others \in Seq(Packages!Range(lists.available) \cap S)
    BY ProvidersProvide
  <2> HIDE DEF have, others, S
  <2> QED BY <2>1, <2>2
<1>2. ASSUME NEW p \in S PROVE As(p) \in S
  <2>1. CASE p.name \in Packages!NamesOf(lists.installed)
    <3> DEFINE i == CHOOSE i \in DOMAIN lists.installed : lists.installed[i].name = p.name
    <3>1. i \in DOMAIN lists.installed /\ lists.installed[i].name = p.name
      BY <2>1 DEF Packages!NamesOf
    <3>2. As(p) = lists.installed[i]
      BY <2>1 DEF Packages!Package
    <3>3. lists.installed[i] \in Stock
      BY <3>1 DEF Stock, Packages!Range
    <3>4. p \in Stock /\ n \in p.provides \cup {p.name}
      BY <1>2 DEF Providing
    <3> HIDE DEF i
    <3>5. p.provides \subseteq lists.installed[i].provides
      BY <3>1, <3>3, <3>4, ListFacts
    <3> QED BY <3>1, <3>2, <3>3, <3>4, <3>5 DEF Providing
  <2>2. CASE p.name \notin Packages!NamesOf(lists.installed)
    BY <1>2, <2>2
  <2> QED BY <2>1, <2>2
<1> HIDE DEF have, others, As, S
<1>3. ss \in Seq(Seq(S))
  <2>1. \A i \in 1..Len(others) : ss[i] \in Seq(S)
    BY <1>1, <1>2
  <2>2. DOMAIN ss = 1..Len(others) /\ Len(others) \in Nat
    BY <1>1
  <2> QED BY <2>1, <2>2
<1>4. Packages!FlattenSeq(ss) \in Seq(S)
  BY <1>3, Flattened
<1>5. have \o Packages!FlattenSeq(ss) \in Seq(S)
  BY <1>1, <1>4
<1> QED BY <1>5 DEF Packages!Candidates, have, others, As, S

LEMMA BelowType ==
  ASSUME Packages!DepsAssumption, ListsType, NEW n
  PROVE  Packages!Below(n) \in Seq(Requirements)
<1> DEFINE all == Packages!Candidates(n)
           ss == [i \in DOMAIN all |-> all[i].depends]
<1>1. all \in Seq(Providing(n))
  BY CandidatesProvide
<1>2. \A p \in Providing(n) : p.depends \in Seq(Requirements)
  BY ListFacts DEF Providing
<1> HIDE DEF all
<1>3. ss \in Seq(Seq(Requirements))
  <2>1. \A i \in 1..Len(all) : ss[i] \in Seq(Requirements)
    BY <1>1, <1>2
  <2>2. DOMAIN ss = 1..Len(all) /\ Len(all) \in Nat
    BY <1>1
  <2> QED BY <2>1, <2>2
<1>4. Packages!FlattenSeq(ss) \in Seq(Requirements)
  BY <1>3, Flattened
<1> QED BY <1>4 DEF Packages!Below, all

\* What pkgStatus() plans for a candidate meets the requirement.
LEMMA OffersMeet ==
  ASSUME Packages!DepsAssumption, ListsType, NEW r, NEW p \in Providing(r.name)
  PROVE  \/ Packages!Offer(p, r) = <<>>
         \/ \E q \in Stock : Packages!Offer(p, r) = <<q>> /\ Packages!Meets(q, r)
<1> DEFINE offered == IF p.ready THEN Packages!Providers(lists.available, p.name) ELSE <<p>>
           fit == {i \in DOMAIN offered : Packages!Satisfied(offered[i].version, r)}
           q == offered[Packages!Min(fit)]
<1>1. p \in Stock /\ r.name \in p.provides \cup {p.name}
  BY DEF Providing
<1>2. offered \in Seq(Providing(p.name))
  <2>1. CASE p.ready
    <3>1. Packages!Providers(lists.available, p.name)
             \in Seq(Packages!Range(lists.available) \cap Providing(p.name))
      BY ProvidersProvide
    <3> QED BY <2>1, <3>1
  <2>2. CASE ~p.ready
    <3>1. p \in Providing(p.name)
      BY <1>1 DEF Providing
    <3> QED BY <2>2, <3>1
  <2> QED BY <2>1, <2>2
<1>3. Packages!Offer(p, r) = IF fit = {} THEN <<>> ELSE <<q>>
  BY DEF Packages!Offer
<1>4. CASE fit # {}
  <2>1. fit \in SUBSET Nat
    BY <1>2
  <2>2. \E i \in fit : \A j \in fit : i <= j
    BY <1>4, <2>1, LeastNumber
  <2>3. Packages!Min(fit) \in fit
    BY <2>2 DEF Packages!Min
  <2>4. q \in Providing(p.name) /\ Packages!Satisfied(q.version, r)
    <3> HIDE DEF offered
    <3> QED BY <1>2, <2>3
  <2> HIDE DEF q, fit, offered
  <2>5. q \in Stock /\ p.name \in q.provides \cup {q.name}
    BY <2>4 DEF Providing
  <2>6. p.provides \subseteq q.provides
    BY <1>1, <2>5, ListFacts
  <2>7. Packages!Meets(q, r)
    BY <1>1, <2>4, <2>5, <2>6 DEF Packages!Meets
  <2> QED BY <1>3, <1>4, <2>5, <2>7
<1> QED BY <1>3, <1>4

LEMMA DepsStart ==
  ASSUME Packages!DepsAssumption, Packages!Init \/ PackagesRest
  PROVE  DepsInv
<1>1. /\ ListsType /\ wanted \in Seq(Requirements) /\ todo = wanted
      /\ seen = {} /\ planned = <<>> /\ errors = {}
  <2>1. CASE Packages!Init
    <3>1. lists \in [installed : Installed, available : Available]
      BY <2>1 DEF Packages!Init
    <3>2. \E i \in DOMAIN lists.available : wanted = lists.available[i].depends
      BY <2>1 DEF Packages!Init
    <3>3. ListsType /\ lists.available \in Installed \cup Available
      BY <3>1 DEF ListsType
    <3>4. wanted \in Seq(Requirements)
      BY <3>2, <3>3 DEF Packages!DepsAssumption
    <3> QED BY <2>1, <3>3, <3>4 DEF Packages!Init
  <2>2. CASE PackagesRest
    BY <2>2 DEF PackagesRest, ListsType
  <2> QED BY <2>1, <2>2
<1>2. AllCovered
  BY <1>1 DEF AllCovered, Covered
<1>3. OnlyNeeded
  <2>1. Packages!Range(wanted) \subseteq Requirements
    BY <1>1, RangeOf
  <2> QED BY <1>1, <2>1 DEF OnlyNeeded, Packages!Closure, Packages!Closed
<1> QED BY <1>1, <1>2, <1>3 DEF DepsInv

\* The rest of the requirements to visit.
LEMMA HeadAndTail ==
  ASSUME NEW S, NEW s \in Seq(S), s # <<>>
  PROVE  /\ Head(s) \in S /\ Tail(s) \in Seq(S)
         /\ Packages!Range(s) = {Head(s)} \cup Packages!Range(Tail(s))
<1>1. Head(s) \in S /\ Tail(s) \in Seq(S) /\ Len(s) \in Nat \ {0} /\ Len(Tail(s)) = Len(s) - 1 /\ Head(s) = s[1]
  OBVIOUS
<1>2. \A i \in 1..Len(Tail(s)) : Tail(s)[i] = s[i + 1]
  OBVIOUS
<1> DEFINE t == Tail(s)
<1> HIDE DEF t
<1>3. Packages!Range(s) = {s[i] : i \in 1..Len(s)} /\ Packages!Range(t) = {t[i] : i \in 1..Len(t)}
  BY <1>1, RangeOf DEF t
<1>4. \A i \in 1..Len(t) : i + 1 \in 1..Len(s) /\ t[i] = s[i + 1]
  BY <1>1, <1>2 DEF t
<1>5. \A i \in 1..Len(s) : i = 1 \/ (i - 1 \in 1..Len(t) /\ t[i - 1] = s[i])
  BY <1>1, <1>2 DEF t
<1>6. {s[i] : i \in 1..Len(s)} = {s[1]} \cup {t[i] : i \in 1..Len(t)}
  <2>1. 1 \in 1..Len(s)
    BY <1>1
  <2>2. {s[i] : i \in 1..Len(s)} \subseteq {s[1]} \cup {t[i] : i \in 1..Len(t)}
    BY <1>5
  <2>3. {s[1]} \cup {t[i] : i \in 1..Len(t)} \subseteq {s[i] : i \in 1..Len(s)}
    BY <1>4, <2>1
  <2> QED BY <2>2, <2>3
<1> QED BY <1>1, <1>3, <1>6 DEF t

\* What a requirement needs follows from the lists alone.
LEMMA BelowStays ==
  ASSUME UNCHANGED lists
  PROVE  /\ \A n : Packages!Candidates(n)' = Packages!Candidates(n)
         /\ \A n : Packages!Below(n)' = Packages!Below(n)
         /\ UNCHANGED wanted => Packages!Closure' = Packages!Closure
<1>1. \A n : Packages!Candidates(n)' = Packages!Candidates(n)
  BY DEF Packages!Candidates
<1>2. \A n : Packages!Below(n)' = Packages!Below(n)
  BY <1>1 DEF Packages!Below
<1>3. UNCHANGED wanted => Packages!Closure' = Packages!Closure
  BY <1>2 DEF Packages!Closure, Packages!Closed
<1> QED BY <1>1, <1>2, <1>3

LEMMA SkipStep ==
  ASSUME Packages!DepsAssumption, DepsInv, Packages!Skip
  PROVE  DepsInv'
<1>1. /\ todo # <<>> /\ Packages!Known(Head(todo)) /\ todo' = Tail(todo)
      /\ UNCHANGED <<lists, wanted, seen, planned, errors>> /\ todo \in Seq(Requirements)
  BY DEF Packages!Skip, DepsInv
<1>2. /\ Packages!Range(todo) = {Head(todo)} \cup Packages!Range(todo')
      /\ todo' \in Seq(Requirements)
  BY <1>1, HeadAndTail
<1>3. \A r : Covered(r) => Covered(r)'
  BY <1>1, <1>2 DEF Covered, Packages!Known
<1>4. AllCovered'
  BY <1>1, <1>3, BelowStays DEF DepsInv, AllCovered
<1>5. OnlyNeeded'
  BY <1>1, <1>2, BelowStays DEF DepsInv, OnlyNeeded
<1> QED BY <1>1, <1>2, <1>4, <1>5 DEF DepsInv, ListsType, Stock, Met

LEMMA VisitStep ==
  ASSUME Packages!DepsAssumption, DepsInv, Packages!Visit
  PROVE  DepsInv'
<1> DEFINE r == Head(todo)
           all == Packages!Candidates(r.name)
           open == {i \in DOMAIN all : ~Packages!InPlace(all[i], r)}
           offers == [i \in DOMAIN all |-> IF i \in open THEN Packages!Offer(all[i], r) ELSE <<>>]
           more == Packages!FlattenSeq(offers)
<1>1. /\ todo # <<>> /\ UNCHANGED <<lists, wanted>>
      /\ seen' = seen \cup {r} /\ planned' = planned \o more
      /\ errors' = IF all = <<>> \/ \E i \in open : Packages!Offer(all[i], r) = <<>>
                   THEN errors \cup {r} ELSE errors
      /\ todo' = Packages!Below(r.name) \o Tail(todo)
      /\ ~Packages!Known(r)
  BY DEF Packages!Visit, Packages!After
<1>2. ListsType /\ todo \in Seq(Requirements) /\ planned \in Seq(Stock)
  BY DEF DepsInv
<1>3. /\ r \in Requirements /\ Tail(todo) \in Seq(Requirements)
      /\ Packages!Range(todo) = {r} \cup Packages!Range(Tail(todo))
  BY <1>1, <1>2, HeadAndTail
<1>4. Packages!Below(r.name) \in Seq(Requirements)
  BY <1>2, BelowType
<1>5. all \in Seq(Providing(r.name))
  BY <1>2, CandidatesProvide
<1>6. \A i \in DOMAIN all :
         \/ Packages!Offer(all[i], r) = <<>>
         \/ \E q \in Stock : Packages!Offer(all[i], r) = <<q>> /\ Packages!Meets(q, r)
  BY <1>2, <1>5, OffersMeet
<1>7. \A i \in DOMAIN all : all[i] \in Stock /\ r.name \in all[i].provides \cup {all[i].name}
  BY <1>5 DEF Providing
<1> HIDE DEF r, all
<1>8. offers \in Seq(Seq(Stock)) /\ DOMAIN all = 1..Len(all) /\ Len(offers) = Len(all) /\ Len(all) \in Nat
  <2>1. DOMAIN all = 1..Len(all) /\ Len(all) \in Nat
    BY <1>5
  <2>2. \A i \in DOMAIN all : Packages!Offer(all[i], r) \in Seq(Stock)
    <3> SUFFICES ASSUME NEW i \in DOMAIN all PROVE Packages!Offer(all[i], r) \in Seq(Stock)
      OBVIOUS
    <3>1. CASE Packages!Offer(all[i], r) = <<>>
      BY <3>1
    <3>2. ASSUME NEW q \in Stock, Packages!Offer(all[i], r) = <<q>>
          PROVE  Packages!Offer(all[i], r) \in Seq(Stock)
      BY <3>2
    <3> QED BY <1>6, <3>1, <3>2
  <2>3. \A i \in 1..Len(all) : offers[i] \in Seq(Stock)
    BY <2>1, <2>2
  <2> QED BY <2>1, <2>3
<1>9. /\ more \in Seq(Stock)
      /\ Packages!Range(more) = UNION {Packages!Range(offers[i]) : i \in 1..Len(all)}
  BY <1>8, Flattened
<1> HIDE DEF more
<1>10. /\ planned' \in Seq(Stock)
       /\ Packages!Range(planned') = Packages!Range(planned) \cup Packages!Range(more)
  BY ONLY <1>1, <1>2, <1>9, RangeOfBoth, ZenonT(60)
<1>11. /\ todo' \in Seq(Requirements)
       /\ Packages!Range(todo') = Packages!Range(Packages!Below(r.name)) \cup Packages!Range(Tail(todo))
  BY ONLY <1>1, <1>3, <1>4, RangeOfBoth, ZenonT(60)
<1>12. \A n : Packages!Below(n)' = Packages!Below(n)
  BY <1>1, BelowStays
<1>13. AllCovered'
  <2>1. \A q : Covered(q) => Covered(q)'
    BY <1>1, <1>3, <1>11 DEF Covered, Packages!Known
  <2>2. \A q \in Packages!Range(Packages!Below(r.name)) : Covered(q)'
    BY <1>11 DEF Covered
  <2> QED BY <1>1, <1>12, <2>1, <2>2 DEF DepsInv, AllCovered
<1>14. OnlyNeeded'
  <2>1. Packages!Closure' = Packages!Closure
    BY <1>1, BelowStays
  <2>2. r \in Packages!Closure
    BY <1>3 DEF DepsInv, OnlyNeeded
  <2>3. Packages!Range(Packages!Below(r.name)) \subseteq Packages!Closure
    <3>1. Packages!Range(Packages!Below(r.name)) \subseteq Requirements
      BY <1>4, RangeOf
    <3> QED BY <2>2, <3>1 DEF Packages!Closure, Packages!Closed
  <2> QED BY <1>1, <1>3, <1>11, <2>1, <2>2, <2>3 DEF DepsInv, OnlyNeeded
<1>15. ASSUME NEW q \in seen' \ errors'
       PROVE  Met(q)'
  <2>1. CASE q # r
    <3>1. Met(q)
      BY <1>1, <1>15, <2>1 DEF DepsInv
    <3>2. (\E i \in DOMAIN planned : Packages!Meets(planned[i], q))
            => \E i \in DOMAIN planned' : Packages!Meets(planned'[i], q)
      BY <1>10 DEF Packages!Range
    <3> QED BY <1>1, <3>1, <3>2 DEF Met, Packages!Meets, Packages!Satisfied
  <2>2. CASE q = r
    <3>1. all # <<>> /\ \A i \in open : Packages!Offer(all[i], r) # <<>>
      BY <1>1, <1>15, <2>2
    <3>2. 1 \in DOMAIN all
      BY <1>8, <3>1, <1>5
    <3>3. CASE Packages!InPlace(all[1], r)
      <4>1. all[1] \in Packages!Range(lists.installed)
        BY <1>2, <1>7, <3>2, <3>3, ListFacts DEF Packages!InPlace
      <4>2. Packages!Meets(all[1], r) /\ all[1].ready
        BY <1>7, <3>2, <3>3 DEF Packages!InPlace, Packages!Meets
      <4>3. \E i \in DOMAIN lists.installed :
              lists.installed[i].ready /\ Packages!Meets(lists.installed[i], r)
        BY <4>1, <4>2 DEF Packages!Range
      <4> QED BY <1>1, <2>2, <4>3 DEF Met, Packages!Meets, Packages!Satisfied
    <3>4. CASE ~Packages!InPlace(all[1], r)
      <4>1. PICK p \in Stock : Packages!Offer(all[1], r) = <<p>> /\ Packages!Meets(p, r)
        BY <1>6, <3>1, <3>2, <3>4
      <4>2. offers[1] = <<p>> /\ p \in Packages!Range(offers[1])
        <5>1. offers[1] = <<p>>
          BY <3>2, <3>4, <4>1
        <5>2. p \in Packages!Range(<<p>>)
          BY DEF Packages!Range
        <5> QED BY <5>1, <5>2
      <4>3. p \in Packages!Range(planned')
        BY <1>8, <1>9, <1>10, <3>2, <4>2
      <4>4. \E i \in DOMAIN planned' : Packages!Meets(planned'[i], r)
        BY <4>1, <4>3 DEF Packages!Range
      <4> QED BY <1>1, <2>2, <4>4 DEF Met, Packages!Meets, Packages!Satisfied
    <3> QED BY <3>3, <3>4
  <2> QED BY <2>1, <2>2
<1>16. /\ ListsType' /\ Stock' = Stock /\ wanted' \in Seq(Requirements)
       /\ seen' \subseteq Requirements /\ errors' \subseteq seen'
  BY <1>1, <1>3 DEF DepsInv, ListsType, Stock
<1> QED BY <1>10, <1>11, <1>13, <1>14, <1>15, <1>16 DEF DepsInv

LEMMA DepsStep ==
  ASSUME Packages!DepsAssumption, DepsInv, [Packages!Next]_packageVars
  PROVE  DepsInv'
<1>1. CASE UNCHANGED packageVars
  <2>1. UNCHANGED <<lists, wanted, todo, seen, planned, errors>>
    BY <1>1 DEF packageVars
  <2>2. AllCovered'
    BY <2>1, BelowStays DEF DepsInv, AllCovered, Covered, Packages!Known
  <2>3. OnlyNeeded'
    BY <2>1, BelowStays DEF DepsInv, OnlyNeeded
  <2> QED BY <2>1, <2>2, <2>3 DEF DepsInv, ListsType, Stock, Met
<1> QED BY <1>1, SkipStep, VisitStep DEF Packages!Next

\* When nothing is left to visit, the names that are known are all there are.
LEMMA PlanIsComplete == DepsInv => PlanMeetsRequirements
<1> SUFFICES ASSUME DepsInv, todo = <<>>, errors = {},
                    NEW r \in Packages!Closure,
                    \A q \in Packages!Closure : q.name = r.name => q = r
             PROVE  Met(r)
  BY DEF PlanMeetsRequirements, Packages!PlanMeetsRequirements, Met
<1> DEFINE S == {q \in Requirements : Packages!Known(q)}
<1>1. \A q : Covered(q) => Packages!Known(q)
  BY DEF Covered, Packages!Range
<1>2. Packages!Closed(S)
  <2>1. Packages!Range(wanted) \subseteq S
    <3>1. Packages!Range(wanted) \subseteq Requirements
      BY RangeOf DEF DepsInv
    <3> QED BY <1>1, <3>1 DEF DepsInv, AllCovered
  <2>2. ASSUME NEW q \in S PROVE Packages!Range(Packages!Below(q.name)) \subseteq S
    <3>1. PICK p \in seen : p.name = q.name
      BY DEF Packages!Known
    <3>2. Packages!Range(Packages!Below(q.name)) \subseteq Requirements
      BY BelowType, RangeOf, MCAssumption DEF DepsInv
    <3> QED BY <1>1, <3>1, <3>2 DEF DepsInv, AllCovered
  <2> QED BY <2>1, <2>2 DEF Packages!Closed
<1>3. r \in S
  BY <1>2 DEF Packages!Closure
<1>4. PICK q \in seen : q.name = r.name
  BY <1>3 DEF Packages!Known
<1>5. q \in Packages!Closure
  BY DEF DepsInv, OnlyNeeded
<1> QED BY <1>4, <1>5 DEF DepsInv

LEMMA PagePackages == PageSpec => []DepsInv
<1>1. PageInit => DepsInv
  BY DepsStart, MCAssumption DEF PageInit
<1>2. DepsInv /\ [PageNext]_pageVars => DepsInv'
  <2>1. [PageNext]_pageVars => [Packages!Next]_packageVars
    BY DEF PageNext, pageVars, packageVars
  <2> QED BY <2>1, DepsStep, MCAssumption
<1> QED BY <1>1, <1>2, PTL DEF PageSpec, pageVars

\* A plan without errors installs what is needed: each requirement it comes
\* down to is met by a package in place or by a planned one, unless another of
\* the same name is required as well (renderDependencies() of opkg.js).
THEOREM PlansMeetRequirements == PageSpec => []PlanMeetsRequirements
BY PagePackages, PlanIsComplete, PTL

-----------------------------------------------------------------------------
(* A form (FormMap)                                                        *)

LEMMA OptionsAreNamed ==
  ASSUME Form!FormAssumption
  PROVE  /\ Len(Options) \in Nat /\ DOMAIN Options = 1..Len(Options)
         /\ \A i \in 1..Len(Options) : Options[i] \in Form!Names
         /\ \A o \in Form!Names : \E i \in 1..Len(Options) : o = Options[i]
         /\ \A i, j \in 1..Len(Options) : Options[i] = Options[j] => i = j
<1>1. Options \in Seq(Form!Names) /\ Form!IsInjective(Options)
  BY DEF Form!FormAssumption
<1>2. Len(Options) \in Nat /\ DOMAIN Options = 1..Len(Options)
  BY <1>1
<1> QED BY <1>1, <1>2 DEF Form!Names, Form!ToSet, Form!IsInjective

\* Whether an option is satisfied hangs on the options it needs.
LEMMA SatisfiedByNeeded ==
  ASSUME NEW f, NEW g, NEW o, f.shown = g.shown,
         \A p \in Form!Needed(o) : f.active[p] = g.active[p]
  PROVE  Form!Satisfied(f, o) = Form!Satisfied(g, o)
<1>1. \A alternative \in Needs[o] : \A need \in alternative : need[1] \in Form!Needed(o)
  BY DEF Form!Needed
<1> QED BY <1>1 DEF Form!Satisfied

LEMMA SatisfiedIsBoolean ==
  ASSUME NEW f, NEW o PROVE Form!Satisfied(f, o) \in BOOLEAN
BY DEF Form!Satisfied

LEMMA Updated ==
  ASSUME NEW S, NEW a \in [S -> BOOLEAN], NEW o \in S, NEW b \in BOOLEAN
  PROVE  /\ [a EXCEPT ![o] = b] \in [S -> BOOLEAN] /\ [a EXCEPT ![o] = b][o] = b
         /\ \A p \in S \ {o} : [a EXCEPT ![o] = b][p] = a[p]
OBVIOUS

\* The form in the middle of a pass.
LEMMA PassSteps ==
  ASSUME Form!FormAssumption, NEW f \in Form!Forms
  PROVE  \E after :
           /\ after[0] = f /\ after[Len(Options)] = Form!Pass(f)
           /\ \A i \in 1..Len(Options) :
                after[i] = [shown |-> after[i - 1].shown,
                            active |-> [after[i - 1].active EXCEPT
                              ![Options[i]] = Form!Satisfied(after[i - 1], Options[i])]]
<1> DEFINE N == Len(Options)
           Next1(g, o) == [shown |-> g.shown, active |-> [g.active EXCEPT ![o] = Form!Satisfied(g, o)]]
           Ok(a, k) == a = [i \in 0..k |-> IF i = 0 THEN f ELSE Next1(a[i - 1], Options[i])]
           Has == {k \in 0..N : \E a : Ok(a, k)}
           First == [i \in 0..0 |-> f]
<1>0. N \in Nat
  BY OptionsAreNamed
<1> HIDE DEF N, Next1
<1>1. \A k \in 0..N : k \in Has
  <2>1. 0 \in Has
    <3>1. Ok(First, 0)
      OBVIOUS
    <3>2. \E a : Ok(a, 0)
      BY <3>1
    <3> HIDE DEF Ok
    <3> QED BY <1>0, <3>2
  <2>2. ASSUME NEW k \in 0..(N - 1), k \in Has
        PROVE  k + 1 \in Has
    <3>1. PICK g : Ok(g, k)
      BY <2>2
    <3> DEFINE a == [i \in 0..(k + 1) |-> IF i = k + 1 THEN Next1(g[k], Options[i]) ELSE g[i]]
    <3>2. \A i \in 0..(k + 1) : a[i] = IF i = 0 THEN f ELSE Next1(a[i - 1], Options[i])
      <4> SUFFICES ASSUME NEW i \in 0..(k + 1)
                   PROVE  a[i] = IF i = 0 THEN f ELSE Next1(a[i - 1], Options[i])
        OBVIOUS
      <4>1. i # 0 => i - 1 \in 0..(k + 1) /\ i - 1 # k + 1 /\ a[i - 1] = g[i - 1]
        BY <1>0
      <4>2. CASE i = k + 1
        BY <1>0, <4>1, <4>2
      <4>3. CASE i # k + 1
        <5>1. i \in 0..k
          BY <4>3
        <5>2. g[i] = IF i = 0 THEN f ELSE Next1(g[i - 1], Options[i])
          BY <3>1, <5>1
        <5> QED BY <4>1, <4>3, <5>2
      <4> QED BY <4>2, <4>3
    <3>3. a = [i \in 0..(k + 1) |-> IF i = 0 THEN f ELSE Next1(a[i - 1], Options[i])]
      <4>1. a = [i \in 0..(k + 1) |-> a[i]]
        OBVIOUS
      <4> HIDE DEF a
      <4> QED BY <3>2, <4>1
    <3>4. \E b : Ok(b, k + 1)
      <4> HIDE DEF a
      <4> QED BY <3>3
    <3> HIDE DEF Ok
    <3> QED BY <1>0, <3>4
  <2> HIDE DEF Has
  <2> QED BY ONLY <1>0, <2>1, <2>2, StepByStep
<1>2. \E a : Ok(a, N)
  <2>1. N \in 0..N
    BY <1>0
  <2>2. N \in Has
    BY <1>1, <2>1
  <2> HIDE DEF Ok
  <2> QED BY <2>2
<1> DEFINE after == CHOOSE after :
                      after = [i \in 0..Len(Options) |->
                                 IF i = 0 THEN f
                                 ELSE [shown |-> after[i - 1].shown,
                                       active |-> [after[i - 1].active EXCEPT
                                         ![Options[i]] = Form!Satisfied(after[i - 1], Options[i])]]]
<1>3. after = [i \in 0..Len(Options) |->
                 IF i = 0 THEN f
                 ELSE [shown |-> after[i - 1].shown,
                       active |-> [after[i - 1].active EXCEPT
                         ![Options[i]] = Form!Satisfied(after[i - 1], Options[i])]]]
  BY <1>2 DEF N, Next1
<1>4. Form!Pass(f) = after[Len(Options)]
  BY DEF Form!Pass
<1> HIDE DEF after
<1>5. after[0] = f
  BY <1>0, <1>3 DEF N
<1>6. ASSUME NEW i \in 1..Len(Options)
      PROVE  after[i] = [shown |-> after[i - 1].shown,
                         active |-> [after[i - 1].active EXCEPT
                           ![Options[i]] = Form!Satisfied(after[i - 1], Options[i])]]
  <2>1. i \in 0..Len(Options) /\ i # 0
    BY <1>0 DEF N
  <2> QED BY <1>3, <2>1
<1> QED BY <1>4, <1>5, <1>6

\* A pass sets each option by those before it as it has set them, and by the
\* others as they were.
Mixed(f, g, i) ==
    [shown |-> f.shown,
     active |-> [o \in Form!Names |->
                   IF \E j \in 1..(i - 1) : o = Options[j] THEN g.active[o] ELSE f.active[o]]]

LEMMA PassMixes ==
  ASSUME Form!FormAssumption, NEW f \in Form!Forms
  PROVE  /\ Form!Pass(f) \in Form!Forms /\ Form!Pass(f).shown = f.shown
         /\ \A i \in 1..Len(Options) :
              Form!Pass(f).active[Options[i]] = Form!Satisfied(Mixed(f, Form!Pass(f), i), Options[i])
<1> DEFINE N == Len(Options)
           P == Form!Pass(f)
<1>1. PICK after :
        /\ after[0] = f /\ after[N] = P
        /\ \A i \in 1..N : after[i] = [shown |-> after[i - 1].shown,
                                       active |-> [after[i - 1].active EXCEPT
                                         ![Options[i]] = Form!Satisfied(after[i - 1], Options[i])]]
  BY PassSteps
<1> HIDE DEF P
<1>2. /\ N \in Nat
      /\ \A i \in 1..N : Options[i] \in Form!Names
      /\ \A i, j \in 1..N : Options[i] = Options[j] => i = j
  BY OptionsAreNamed
<1> HIDE DEF N
<1> DEFINE Good == {k \in 0..N :
             /\ after[k] \in Form!Forms /\ after[k].shown = f.shown
             /\ \A o \in Form!Names : (\A j \in 1..k : o # Options[j]) => after[k].active[o] = f.active[o]
             /\ \A m \in 0..k : \A j \in 1..m : after[k].active[Options[j]] = after[m].active[Options[j]]}
<1>3. \A k \in 0..N : k \in Good
  <2>1. 0 \in Good
    BY <1>1, <1>2
  <2>2. ASSUME NEW k \in 0..(N - 1), k \in Good
        PROVE  k + 1 \in Good
    <3> DEFINE o == Options[k + 1]
    <3>1. k + 1 \in 1..N /\ k \in 0..N /\ (k + 1) - 1 = k /\ o \in Form!Names
      BY <1>2
    <3>2. after[k + 1] = [shown |-> after[k].shown,
                          active |-> [after[k].active EXCEPT ![o] = Form!Satisfied(after[k], o)]]
      BY <1>1, <3>1
    <3>3. /\ after[k].shown = f.shown /\ after[k].active \in [Form!Names -> BOOLEAN]
          /\ f.shown \in [Form!Names -> Values \cup {None, Bad}]
      BY <2>2 DEF Form!Forms
    <3>4. Form!Satisfied(after[k], o) \in BOOLEAN
      BY SatisfiedIsBoolean
    <3>5. /\ after[k + 1].shown = f.shown
          /\ after[k + 1].active \in [Form!Names -> BOOLEAN]
          /\ \A p \in Form!Names \ {o} : after[k + 1].active[p] = after[k].active[p]
      <4>1. /\ after[k + 1].shown = after[k].shown
            /\ after[k + 1].active = [after[k].active EXCEPT ![o] = Form!Satisfied(after[k], o)]
        BY <3>2
      <4> QED BY ONLY <3>1, <3>3, <3>4, <4>1, Updated
    <3>6. after[k + 1] \in Form!Forms
      BY <3>2, <3>3, <3>5 DEF Form!Forms
    <3>7. ASSUME NEW p \in Form!Names, \A j \in 1..(k + 1) : p # Options[j]
          PROVE  after[k + 1].active[p] = f.active[p]
      <4>1. p # o /\ \A j \in 1..k : p # Options[j]
        BY <3>1, <3>7
      <4> QED BY <2>2, <3>5, <4>1
    <3>8. ASSUME NEW m \in 0..(k + 1), NEW j \in 1..m
          PROVE  after[k + 1].active[Options[j]] = after[m].active[Options[j]]
      <4>1. CASE m = k + 1
        BY <4>1
      <4>2. CASE m # k + 1
        <5>1. m \in 0..k /\ j \in 1..N /\ j # k + 1
          BY <1>2, <4>2
        <5>2. Options[j] \in Form!Names \ {o}
          BY <1>2, <3>1, <5>1
        <5>3. after[k].active[Options[j]] = after[m].active[Options[j]]
          BY <2>2, <5>1
        <5> QED BY <3>5, <5>2, <5>3
      <4> QED BY <4>1, <4>2
    <3>9. k + 1 \in 0..N
      BY <3>1
    <3> QED BY <3>5, <3>6, <3>7, <3>8, <3>9
  <2> HIDE DEF Good
  <2> QED BY ONLY <1>2, <2>1, <2>2, StepByStep
<1>4. P \in Form!Forms /\ P.shown = f.shown
  <2>1. N \in Good
    BY <1>2, <1>3
  <2> QED BY <1>1, <2>1
<1>5. ASSUME NEW i \in 1..N
      PROVE  P.active[Options[i]] = Form!Satisfied(Mixed(f, P, i), Options[i])
  <2>0. N \in Good /\ i \in Good /\ i - 1 \in Good /\ i - 1 \in 0..N /\ N \in 0..N /\ i \in 0..N
    BY <1>2, <1>3
  <2>1. P.active[Options[i]] = after[i].active[Options[i]]
    BY <1>1, <2>0
  <2>2. after[i].active[Options[i]] = Form!Satisfied(after[i - 1], Options[i])
    <3>0. after[i] = [shown |-> after[i - 1].shown,
                      active |-> [after[i - 1].active EXCEPT ![Options[i]] = Form!Satisfied(after[i - 1], Options[i])]]
      BY <1>1
    <3>1. after[i].active = [after[i - 1].active EXCEPT ![Options[i]] = Form!Satisfied(after[i - 1], Options[i])]
      BY ONLY <3>0
    <3>2. after[i - 1].active \in [Form!Names -> BOOLEAN]
      BY <2>0 DEF Form!Forms
    <3>3. Options[i] \in Form!Names
      BY <1>2
    <3> QED BY <3>1, <3>2, <3>3, Updated, SatisfiedIsBoolean
  <2>3. /\ after[i - 1].shown = f.shown /\ after[i - 1].active \in [Form!Names -> BOOLEAN]
        /\ \A o \in Form!Names : (\A j \in 1..(i - 1) : o # Options[j]) => after[i - 1].active[o] = f.active[o]
        /\ \A j \in 1..(i - 1) : P.active[Options[j]] = after[i - 1].active[Options[j]]
    BY <1>1, <2>0 DEF Form!Forms
  <2>4. \A o \in Form!Names : after[i - 1].active[o] = Mixed(f, P, i).active[o]
    BY <2>3 DEF Mixed
  <2>5. \A p \in Form!Needed(Options[i]) : p \in Form!Names
    BY <1>2 DEF Form!Needed, Form!FormAssumption
  <2>6. Mixed(f, P, i).shown = after[i - 1].shown
    BY <2>3 DEF Mixed
  <2> QED BY <2>1, <2>2, <2>4, <2>5, <2>6, SatisfiedByNeeded
<1> QED BY <1>4, <1>5 DEF P, N

\* What is satisfied once the options are, however they were before.
Right(f, o) == f.active[o] = Form!Satisfied(f, o)

\* Two passes are enough: the first sets all options right but those that need
\* two in a row declared later, the second those as well.
LEMMA TwoPassesSuffice ==
  ASSUME Form!FormAssumption, Form!LateAssumption, NEW f \in Form!Forms,
         \A o \in Form!Names : Needs[o] = {} => f.active[o]
  PROVE  /\ Form!CheckDepends(f) \in Form!Forms /\ Form!CheckDepends(f).shown = f.shown
         /\ \A o \in Form!Names : Right(Form!CheckDepends(f), o)
<1> DEFINE N == Len(Options)
           g == Form!Pass(f)
           h == Form!Pass(g)
<1>1. PICK late \in [Form!Names -> 0..2] :
        /\ \A o \in Form!Names : late[o] = 0 => Needs[o] = {}
        /\ \A i, j \in DOMAIN Options : Options[j] \in Form!Needed(Options[i]) =>
             IF j < i THEN late[Options[j]] <= late[Options[i]] ELSE late[Options[j]] < late[Options[i]]
  BY DEF Form!LateAssumption
<1>2. /\ N \in Nat /\ DOMAIN Options = 1..N
      /\ \A i \in 1..N : Options[i] \in Form!Names
      /\ \A o \in Form!Names : \E i \in 1..N : o = Options[i]
      /\ \A i, j \in 1..N : Options[i] = Options[j] => i = j
  BY OptionsAreNamed
<1>3. /\ g \in Form!Forms /\ g.shown = f.shown
      /\ \A i \in 1..N : g.active[Options[i]] = Form!Satisfied(Mixed(f, g, i), Options[i])
  BY PassMixes
<1>4. /\ h \in Form!Forms /\ h.shown = f.shown
      /\ \A i \in 1..N : h.active[Options[i]] = Form!Satisfied(Mixed(g, h, i), Options[i])
  BY <1>3, PassMixes
<1>5. Form!CheckDepends(f) = h
  BY DEF Form!CheckDepends
<1> HIDE DEF N, g, h
<1>6. \A i \in 1..N : \A p \in Form!Needed(Options[i]) : \E j \in 1..N : p = Options[j]
  BY <1>2 DEF Form!Needed, Form!FormAssumption
<1>7. ASSUME NEW a \in Form!Forms, NEW b \in Form!Forms, NEW i \in 1..N, NEW j \in 1..N
      PROVE  Mixed(a, b, i).active[Options[j]] = IF j < i THEN b.active[Options[j]] ELSE a.active[Options[j]]
  <2>1. (\E k \in 1..(i - 1) : Options[j] = Options[k]) <=> j < i
    BY <1>2
  <2> QED BY <1>2, <2>1 DEF Mixed
\* An option without needs is active from the start.
<1>8. \A o \in Form!Names : late[o] = 0 => f.active[o] = TRUE /\ g.active[o] = TRUE /\ h.active[o] = TRUE
  <2> SUFFICES ASSUME NEW o \in Form!Names, late[o] = 0
               PROVE  f.active[o] = TRUE /\ g.active[o] = TRUE /\ h.active[o] = TRUE
    OBVIOUS
  <2>1. Needs[o] = {} /\ \A a : Form!Satisfied(a, o) = TRUE
    BY <1>1 DEF Form!Satisfied
  <2>2. f.active[o] \in BOOLEAN /\ f.active[o]
    BY <2>1 DEF Form!Forms
  <2> QED BY <1>2, <1>3, <1>4, <2>1, <2>2
\* What an option needs is less late, or as late and declared before it.
<1>9. ASSUME NEW i \in 1..N, NEW j \in 1..N, Options[j] \in Form!Needed(Options[i])
      PROVE  IF j < i THEN late[Options[j]] <= late[Options[i]] ELSE late[Options[j]] < late[Options[i]]
  BY <1>1, <1>2, <1>9
<1>10. \A o \in Form!Names : late[o] \in 0..2
  BY <1>1
<1>11. ASSUME NEW i \in 1..N, late[Options[i]] <= 1
       PROVE  g.active[Options[i]] = Form!Satisfied(g, Options[i])
  <2>1. ASSUME NEW p \in Form!Needed(Options[i])
        PROVE  Mixed(f, g, i).active[p] = g.active[p]
    <3>1. PICK j \in 1..N : p = Options[j]
      BY <1>6
    <3>2. j < i \/ late[p] = 0
      BY <1>2, <1>9, <1>10, <1>11, <3>1
    <3>3. Mixed(f, g, i).active[p] = IF j < i THEN g.active[p] ELSE f.active[p]
      BY <1>3, <1>7, <3>1
    <3>4. p \in Form!Names
      BY <1>2, <3>1
    <3> QED BY <1>8, <3>2, <3>3, <3>4
  <2>2. Mixed(f, g, i).shown = g.shown
    BY <1>3 DEF Mixed
  <2>3. Form!Satisfied(Mixed(f, g, i), Options[i]) = Form!Satisfied(g, Options[i])
    BY <2>1, <2>2, SatisfiedByNeeded
  <2> QED BY <1>3, <2>3
<1>12. \A i \in 1..N : late[Options[i]] <= 1 => h.active[Options[i]] = g.active[Options[i]]
  <2> DEFINE Wrong == {i \in 1..N : late[Options[i]] <= 1 /\ h.active[Options[i]] # g.active[Options[i]]}
  <2>1. ASSUME Wrong # {} PROVE FALSE
    <3>1. Wrong \in SUBSET Nat
      OBVIOUS
    <3>2. PICK i \in Wrong : \A j \in Wrong : i <= j
      BY <2>1, <3>1, LeastNumber
    <3>3. i \in 1..N /\ late[Options[i]] <= 1 /\ h.active[Options[i]] # g.active[Options[i]]
      BY <3>2
    <3>4. ASSUME NEW p \in Form!Needed(Options[i])
          PROVE  Mixed(g, h, i).active[p] = g.active[p]
      <4>1. PICK j \in 1..N : p = Options[j]
        BY <1>6, <3>3
      <4>2. CASE j < i
        <5>1. late[p] <= 1 /\ j \notin Wrong
          BY <1>2, <1>9, <1>10, <3>2, <3>3, <4>1, <4>2
        <5> QED BY <1>3, <1>4, <1>7, <3>3, <4>1, <4>2, <5>1
      <4>3. CASE ~(j < i)
        BY <1>3, <1>4, <1>7, <3>3, <4>1, <4>3
      <4> QED BY <4>2, <4>3
    <3>5. Mixed(g, h, i).shown = g.shown
      BY DEF Mixed
    <3>6. Form!Satisfied(Mixed(g, h, i), Options[i]) = Form!Satisfied(g, Options[i])
      BY <3>4, <3>5, SatisfiedByNeeded
    <3> QED BY <1>4, <1>11, <3>3, <3>6
  <2> QED BY <2>1
<1>13. ASSUME NEW i \in 1..N
       PROVE  h.active[Options[i]] = Form!Satisfied(h, Options[i])
  <2>1. CASE late[Options[i]] <= 1
    <3>1. ASSUME NEW p \in Form!Needed(Options[i])
          PROVE  g.active[p] = h.active[p]
      <4>1. PICK j \in 1..N : p = Options[j]
        BY <1>6
      <4>2. late[p] <= 1
        BY <1>2, <1>9, <1>10, <2>1, <4>1
      <4> QED BY <1>12, <4>1, <4>2
    <3>2. g.shown = h.shown
      BY <1>3, <1>4
    <3>3. Form!Satisfied(g, Options[i]) = Form!Satisfied(h, Options[i])
      BY <3>1, <3>2, SatisfiedByNeeded
    <3> QED BY <1>11, <1>12, <2>1, <3>3
  <2>2. CASE ~(late[Options[i]] <= 1)
    <3>1. ASSUME NEW p \in Form!Needed(Options[i])
          PROVE  Mixed(g, h, i).active[p] = h.active[p]
      <4>1. PICK j \in 1..N : p = Options[j]
        BY <1>6
      <4>2. CASE j < i
        BY <1>3, <1>4, <1>7, <4>1, <4>2
      <4>3. CASE ~(j < i)
        <5>1. late[p] <= 1
          BY <1>2, <1>9, <1>10, <4>1, <4>3
        <5> QED BY <1>3, <1>4, <1>7, <1>12, <4>1, <4>3, <5>1
      <4> QED BY <4>2, <4>3
    <3>2. Mixed(g, h, i).shown = h.shown
      BY <1>3, <1>4 DEF Mixed
    <3>3. Form!Satisfied(Mixed(g, h, i), Options[i]) = Form!Satisfied(h, Options[i])
      BY <3>1, <3>2, SatisfiedByNeeded
    <3> QED BY <1>4, <3>3
  <2> QED BY <2>1, <2>2
<1>14. \A o \in Form!Names : Right(h, o)
  BY <1>2, <1>13 DEF Right
<1> QED BY <1>4, <1>5, <1>14

\* The inductive invariant of the form.  While no save has failed and none is
\* under way, the edit layers hold what load() cached and the page shows as many
\* sections as they do.
FormInv ==
  /\ Form!TypeOK
  /\ Form!VisibleIffSatisfied
  /\ page = "error" => failed
  /\ ~failed /\ page # "saving" => layer = cfg /\ extra.layer = extra.page

LEMMA NoneIsNoValue ==
  ASSUME Form!FormAssumption
  PROVE  None # Bad /\ None \notin Values /\ Bad \notin Values
BY DEF Form!FormAssumption

\* What renderContents() draws is complete.
LEMMA RenderIsRight ==
  ASSUME Form!FormAssumption, Form!LateAssumption, NEW values \in Form!Stored
  PROVE  /\ Form!Render(values) \in Form!Forms
         /\ \A o \in Form!Names : Form!Render(values).active[o] = Form!Satisfied(Form!Render(values), o)
<1> DEFINE f == [shown |-> [o \in Form!Names |-> IF values[o] = None THEN Default[o] ELSE values[o]],
                 active |-> [o \in Form!Names |-> Needs[o] = {}]]
<1>1. Default \in [Form!Names -> Values \cup {None}]
  BY DEF Form!FormAssumption
<1>2. f.shown \in [Form!Names -> Values \cup {None, Bad}]
  BY <1>1 DEF Form!Stored
<1>3. f.active \in [Form!Names -> BOOLEAN]
  OBVIOUS
<1>4. f \in Form!Forms
  BY <1>2, <1>3 DEF Form!Forms
<1>5. \A o \in Form!Names : Needs[o] = {} => f.active[o]
  OBVIOUS
<1>6. Form!Render(values) = Form!CheckDepends(f)
  BY DEF Form!Render
<1> HIDE DEF f
<1> QED BY <1>4, <1>5, <1>6, TwoPassesSuffice DEF Right

\* checkDepends() leaves a complete form complete, whatever was typed into it.
LEMMA CheckIsRight ==
  ASSUME Form!FormAssumption, Form!LateAssumption,
         NEW f \in Form!Forms, NEW g \in Form!Forms, g.active = f.active,
         \A o \in Form!Names : f.active[o] = Form!Satisfied(f, o)
  PROVE  /\ Form!CheckDepends(g) \in Form!Forms /\ Form!CheckDepends(g).shown = g.shown
         /\ \A o \in Form!Names : Form!CheckDepends(g).active[o] = Form!Satisfied(Form!CheckDepends(g), o)
<1>1. \A o \in Form!Names : Needs[o] = {} => g.active[o]
  BY DEF Form!Satisfied
<1> QED BY <1>1, TwoPassesSuffice DEF Right


LEMMA FormStart == ASSUME Form!FormAssumption, Form!LateAssumption PROVE Form!Init => FormInv
<1> SUFFICES ASSUME Form!Init PROVE FormInv
  OBVIOUS
<1>1. /\ form \in Form!Forms
      /\ \A o \in Form!Names : form.active[o] = Form!Satisfied(form, o)
  BY RenderIsRight DEF Form!Init, Form!Stored
<1>2. /\ extra \in [page : 0..MaxExtra, layer : 0..MaxExtra, router : 0..MaxExtra]
      /\ extra.layer = extra.page
  BY DEF Form!Init, Form!FormAssumption
<1>3. staged \in Form!Stored /\ cfg = staged /\ layer = staged
  BY DEF Form!Init
<1> QED BY <1>1, <1>2, <1>3 DEF Form!Init, FormInv, Form!TypeOK, Form!VisibleIffSatisfied

\* What Submit() writes is a value, and the one shown unless the option is
\* rejected or cfg and layer have parted.
LEMMA ParsedIsValue ==
  ASSUME Form!FormAssumption, NEW f \in Form!Forms, NEW o \in Form!Names,
         layer[o] \in Values \cup {None}
  PROVE  Form!Parsed(f, o) \in Values \cup {None}
<1>1. f.active[o] \in BOOLEAN /\ f.shown[o] \in Values \cup {None, Bad}
  BY DEF Form!Forms
<1>2. CASE Form!Rejected(f, o)
  BY <1>2 DEF Form!Parsed
<1>3. CASE ~Form!Rejected(f, o) /\ f.active[o]
  <2>1. f.shown[o] # Bad
    BY <1>3 DEF Form!Rejected
  <2>2. CASE f.shown[o] = None
    BY <1>3, <2>2 DEF Form!Parsed
  <2>3. CASE f.shown[o] # None
    BY <1>1, <1>3, <2>1, <2>3 DEF Form!Parsed
  <2> QED BY <2>2, <2>3
<1>4. CASE ~Form!Rejected(f, o) /\ ~f.active[o]
  BY <1>4 DEF Form!Parsed
<1> QED BY <1>2, <1>3, <1>4

LEMMA ParsedIsShown ==
  ASSUME NEW f, NEW o, layer[o] = cfg[o], ~Form!Rejected(f, o)
  PROVE  \/ Form!Parsed(f, o) = IF f.active[o] THEN f.shown[o] ELSE None
         \/ o \in Retain /\ ~f.active[o]
BY DEF Form!Parsed

LEMMA SubmitStep ==
  ASSUME Form!FormAssumption, Form!LateAssumption, FormInv, page = "ready",
         NEW silent \in BOOLEAN, Form!Submit(silent)
  PROVE  /\ form' \in Form!Forms /\ layer' \in Form!Stored /\ failed' \in BOOLEAN
         /\ \A o \in Form!Names : form'.active[o] = Form!Satisfied(form', o)
         /\ page' \in {"saving", "ready", "error"} /\ (page' # "saving" => failed')
         /\ page' = "saving" /\ ~failed => \A o \in Form!Names :
              layer'[o] = Form!OnScreen(o) \/ (o \in Retain /\ ~form'.active[o])
<1> DEFINE f == Form!CheckDepends(form)
<1>1. /\ form \in Form!Forms /\ layer \in [Form!Names -> Values \cup {None}] /\ failed \in BOOLEAN
      /\ \A o \in Form!Names : form.active[o] = Form!Satisfied(form, o)
      /\ page # "saving" /\ (~failed => layer = cfg)
  BY DEF FormInv, Form!TypeOK, Form!Stored, Form!VisibleIffSatisfied
<1>2. /\ f \in Form!Forms
      /\ \A o \in Form!Names : f.active[o] = Form!Satisfied(f, o)
  BY <1>1, CheckIsRight
<1>3. /\ form' = f /\ layer' = [o \in Form!Names |-> Form!Parsed(f, o)]
      /\ page' = IF ~(\E o \in Form!Names : Form!Rejected(f, o)) THEN "saving"
                 ELSE IF silent THEN "ready" ELSE "error"
      /\ failed' = (failed \/ \E o \in Form!Names : Form!Rejected(f, o))
  BY DEF Form!Submit
<1> HIDE DEF f
<1>4. layer' \in Form!Stored
  <2>1. \A o \in Form!Names : Form!Parsed(f, o) \in Values \cup {None}
    BY <1>1, <1>2, ParsedIsValue
  <2> QED BY <1>3, <2>1 DEF Form!Stored
<1>5. ASSUME page' = "saving", ~failed, NEW o \in Form!Names
      PROVE  layer'[o] = Form!OnScreen(o) \/ (o \in Retain /\ ~form'.active[o])
  <2>1. ~Form!Rejected(f, o) /\ layer[o] = cfg[o]
    BY <1>1, <1>3, <1>5
  <2>2. \/ Form!Parsed(f, o) = IF f.active[o] THEN f.shown[o] ELSE None
        \/ o \in Retain /\ ~f.active[o]
    BY <2>1, ParsedIsShown
  <2>3. layer'[o] = Form!Parsed(f, o)
    BY <1>3
  <2>4. Form!OnScreen(o) = IF f.active[o] THEN f.shown[o] ELSE None
    BY <1>3 DEF Form!OnScreen
  <2> QED BY <1>3, <2>2, <2>3, <2>4
<1>6. failed' \in BOOLEAN /\ (page' # "saving" => failed') /\ page' \in {"saving", "ready", "error"}
  BY <1>3
<1> QED BY <1>2, <1>3, <1>4, <1>5, <1>6

LEMMA FormStep ==
  ASSUME Form!FormAssumption, Form!LateAssumption
  PROVE  FormInv /\ [Form!Next]_formVars => FormInv'
<1> SUFFICES ASSUME FormInv, [Form!Next]_formVars PROVE FormInv'
  OBVIOUS
<1> DEFINE Kept == FormInv'
<1>0. /\ form \in Form!Forms /\ cfg \in Form!Stored /\ layer \in Form!Stored /\ staged \in Form!Stored
      /\ extra \in [page : 0..MaxExtra, layer : 0..MaxExtra, router : 0..MaxExtra]
      /\ page \in {"ready", "saving", "error"}
      /\ failed \in BOOLEAN /\ reverted \in BOOLEAN
      /\ \A o \in Form!Names : form.active[o] = Form!Satisfied(form, o)
      /\ page = "error" => failed
      /\ ~failed /\ page # "saving" => layer = cfg /\ extra.layer = extra.page
      /\ MaxExtra \in Nat
  BY DEF FormInv, Form!TypeOK, Form!VisibleIffSatisfied, Form!FormAssumption
<1>1. ASSUME NEW o \in Form!Names, NEW v1 \in Values \cup {None, Bad}, Form!Type(o, v1)
      PROVE  FormInv'
  <2> DEFINE g == [form EXCEPT !.shown[o] = v1]
  <2>1. g \in Form!Forms /\ g.active = form.active
    BY <1>0 DEF Form!Forms
  <2>2. form' = Form!CheckDepends(g)
    BY <1>1 DEF Form!Type
  <2> HIDE DEF g
  <2>3. form' \in Form!Forms /\ \A p \in Form!Names : form'.active[p] = Form!Satisfied(form', p)
    BY <1>0, <2>1, <2>2, CheckIsRight
  <2>4. reverted' = FALSE /\ UNCHANGED <<cfg, layer, staged, extra, page, failed>>
    BY <1>1 DEF Form!Type
  <2> QED BY <1>0, <2>3, <2>4 DEF FormInv, Form!TypeOK, Form!VisibleIffSatisfied
<1>2. ASSUME Form!Save PROVE FormInv'
  <2>1. page = "ready" /\ Form!Submit(FALSE) /\ UNCHANGED <<cfg, staged, extra, reverted>>
    BY <1>2 DEF Form!Save
  <2>2. /\ form' \in Form!Forms /\ layer' \in Form!Stored /\ failed' \in BOOLEAN
        /\ \A o \in Form!Names : form'.active[o] = Form!Satisfied(form', o)
        /\ page' \in {"saving", "ready", "error"} /\ (page' # "saving" => failed')
    BY <2>1, SubmitStep
  <2> QED BY <1>0, <2>1, <2>2 DEF FormInv, Form!TypeOK, Form!VisibleIffSatisfied
<1>3. ASSUME Form!AddSection \/ Form!RemoveSection PROVE FormInv'
  <2>1. /\ page = "ready" /\ Form!Submit(TRUE) /\ UNCHANGED <<cfg, staged, reverted>>
        /\ extra' \in [page : 0..MaxExtra, layer : 0..MaxExtra, router : 0..MaxExtra]
    <3>1. CASE Form!AddSection
      <4>1. extra' = [extra EXCEPT !.layer = @ + 1] /\ extra.layer < MaxExtra
        BY <3>1 DEF Form!AddSection
      <4>2. extra.layer + 1 \in 0..MaxExtra
        BY <1>0, <4>1
      <4> QED BY <1>0, <3>1, <4>1, <4>2 DEF Form!AddSection
    <3>2. CASE Form!RemoveSection
      <4>1. extra' = [extra EXCEPT !.layer = @ - 1] /\ extra.layer > 0
        BY <3>2 DEF Form!RemoveSection
      <4>2. extra.layer - 1 \in 0..MaxExtra
        BY <1>0, <4>1
      <4> QED BY <1>0, <3>2, <4>1, <4>2 DEF Form!RemoveSection
    <3> QED BY <1>3, <3>1, <3>2
  <2>2. /\ form' \in Form!Forms /\ layer' \in Form!Stored /\ failed' \in BOOLEAN
        /\ \A o \in Form!Names : form'.active[o] = Form!Satisfied(form', o)
        /\ page' \in {"saving", "ready", "error"} /\ (page' # "saving" => failed')
    BY <2>1, SubmitStep
  <2> QED BY <1>0, <2>1, <2>2 DEF FormInv, Form!TypeOK, Form!VisibleIffSatisfied
<1>4. ASSUME Form!SaveDone PROVE FormInv'
  <2>1. /\ staged' = layer /\ cfg' = layer /\ layer' = layer /\ form' = Form!Render(layer)
        /\ page' = "ready" /\ failed' = FALSE /\ reverted' = FALSE
        /\ extra' = [extra EXCEPT !.page = extra.layer, !.router = extra.layer]
    BY <1>4 DEF Form!SaveDone
  <2>2. form' \in Form!Forms /\ \A o \in Form!Names : form'.active[o] = Form!Satisfied(form', o)
    BY <1>0, <2>1, RenderIsRight
  <2>3. /\ extra' \in [page : 0..MaxExtra, layer : 0..MaxExtra, router : 0..MaxExtra]
        /\ extra'.layer = extra'.page
    BY <1>0, <2>1
  <2> QED BY <1>0, <2>1, <2>2, <2>3 DEF FormInv, Form!TypeOK, Form!VisibleIffSatisfied
<1>5. ASSUME Form!SaveFails \/ Form!Dismiss PROVE FormInv'
  <2>1. /\ page' \in {"error", "ready"} /\ failed' = TRUE
        /\ UNCHANGED <<form, cfg, layer, staged, extra, reverted>>
    BY <1>0, <1>5 DEF Form!SaveFails, Form!Dismiss
  <2> QED BY <1>0, <2>1 DEF FormInv, Form!TypeOK, Form!VisibleIffSatisfied
<1>6. ASSUME Form!Reset PROVE FormInv'
  <2>1. /\ form' = Form!Render(cfg) /\ reverted' = TRUE /\ UNCHANGED <<cfg, layer, staged, page, failed>>
        /\ extra' = [extra EXCEPT !.page = extra.layer]
    BY <1>6 DEF Form!Reset
  <2>2. form' \in Form!Forms /\ \A o \in Form!Names : form'.active[o] = Form!Satisfied(form', o)
    BY <1>0, <2>1, RenderIsRight
  <2>3. /\ extra' \in [page : 0..MaxExtra, layer : 0..MaxExtra, router : 0..MaxExtra]
        /\ extra'.layer = extra'.page
    BY <1>0, <2>1
  <2> QED BY <1>0, <2>1, <2>2, <2>3 DEF FormInv, Form!TypeOK, Form!VisibleIffSatisfied
<1>7. ASSUME UNCHANGED formVars PROVE FormInv'
  BY <1>0, <1>7 DEF formVars, FormInv, Form!TypeOK, Form!VisibleIffSatisfied, Form!Satisfied
<1> QED BY <1>1, <1>2, <1>3, <1>4, <1>5, <1>6, <1>7 DEF Form!Next

\* What a step of the form submits while nothing has failed.
LEMMA FormSubmits ==
  ASSUME Form!FormAssumption, Form!LateAssumption
  PROVE  FormInv /\ [Form!Next]_formVars =>
           (page = "ready" /\ page' = "saving" /\ ~failed =>
              /\ \A o \in Form!Names : layer'[o] = Form!OnScreen(o) \/ (o \in Retain /\ ~form'.active[o])
              /\ extra'.layer - extra.page \in {-1, 0, 1})
<1> SUFFICES ASSUME FormInv, [Form!Next]_formVars, page = "ready", page' = "saving", ~failed
             PROVE  /\ \A o \in Form!Names :
                         layer'[o] = Form!OnScreen(o) \/ (o \in Retain /\ ~form'.active[o])
                    /\ extra'.layer - extra.page \in {-1, 0, 1}
  OBVIOUS
<1>1. /\ extra \in [page : 0..MaxExtra, layer : 0..MaxExtra, router : 0..MaxExtra]
      /\ extra.layer = extra.page /\ MaxExtra \in Nat
  BY DEF FormInv, Form!TypeOK, Form!FormAssumption
<1>2. Form!Save \/ Form!AddSection \/ Form!RemoveSection
  BY DEF Form!Next, formVars, Form!Type, Form!SaveDone, Form!SaveFails, Form!Dismiss, Form!Reset
<1>3. \E silent \in BOOLEAN : Form!Submit(silent)
  BY <1>2 DEF Form!Save, Form!AddSection, Form!RemoveSection
<1>4. \A o \in Form!Names : layer'[o] = Form!OnScreen(o) \/ (o \in Retain /\ ~form'.active[o])
  BY <1>3, SubmitStep
<1>5. extra'.layer - extra.page \in {-1, 0, 1}
  <2>0. extra.layer \in Nat
    BY <1>1
  <2>1. extra' = extra \/ extra' = [extra EXCEPT !.layer = @ + 1] \/ extra' = [extra EXCEPT !.layer = @ - 1]
    BY <1>2 DEF Form!Save, Form!AddSection, Form!RemoveSection
  <2>2. extra'.layer \in {extra.layer, extra.layer + 1, extra.layer - 1}
    BY <1>1, <2>1
  <2> QED BY <1>1, <2>0, <2>2
<1> QED BY <1>4, <1>5

LEMMA PageForm == PageSpec => Form!Init /\ [][Form!Next]_formVars
<1>1. PageInit => Form!Init
  BY DEF PageInit
<1>2. [PageNext]_pageVars => [Form!Next]_formVars
  BY DEF PageNext, pageVars, formVars
<1> QED BY <1>1, <1>2, PTL DEF PageSpec, pageVars

LEMMA FormInvariant == PageSpec => []FormInv
<1>1. Form!Init => FormInv
  BY FormStart, MCAssumption
<1>2. FormInv /\ [Form!Next]_formVars => FormInv'
  BY FormStep, MCAssumption
<1> QED BY <1>1, <1>2, PageForm, PTL

\* On every form that needs no more than two options in a row declared later,
\* exactly the options whose dependencies are met are visible, whatever the
\* user types and whichever saves fail (checkDepends() of form.js stops after
\* two passes).
THEOREM VisibleOptionsAreSatisfied == PageSpec => []VisibleIffSatisfied
<1>1. FormInv => VisibleIffSatisfied
  BY DEF FormInv, VisibleIffSatisfied
<1> QED BY <1>1, FormInvariant, PTL

\* A save submits the values on the screen, and adds or removes one section at
\* most, unless an earlier save failed (parse() and save() of form.js).
THEOREM SavesSubmitTheScreen == PageSpec => SubmitsWhatIsShown
<1>1. FormInv /\ [Form!Next]_formVars =>
        [page = "ready" /\ page' = "saving" /\ ~failed =>
          /\ \A o \in Form!Names : layer'[o] = Form!OnScreen(o) \/ (o \in Retain /\ ~form'.active[o])
          /\ extra'.layer - extra.page \in {-1, 0, 1}]_formVars
  BY FormSubmits, MCAssumption
<1> QED BY <1>1, FormInvariant, PageForm, PTL DEF SubmitsWhatIsShown, Form!SubmitsWhatIsShown, formVars, Form!vars


-----------------------------------------------------------------------------
(* A dropdown (Dropdown)                                                   *)

LEMMA ItemsAreOne ==
  ASSUME NEW T, NEW s \in Seq(T)
  PROVE  /\ Len(s) \in Nat /\ DOMAIN s = 1..Len(s)
         /\ Choice!ToSet(s) = {s[i] : i \in 1..Len(s)} /\ Choice!ToSet(s) \subseteq T
         /\ Choice!IsInjective(s) <=> \A i, j \in 1..Len(s) : s[i] = s[j] => i = j
<1>1. Len(s) \in Nat /\ DOMAIN s = 1..Len(s) /\ \A i \in 1..Len(s) : s[i] \in T
  OBVIOUS
<1> QED BY <1>1 DEF Choice!ToSet, Choice!IsInjective

LEMMA Appended ==
  ASSUME NEW T, NEW s \in Seq(T), NEW x \in T
  PROVE  /\ Append(s, x) \in Seq(T)
         /\ Choice!ToSet(Append(s, x)) = Choice!ToSet(s) \cup {x}
         /\ Choice!IsInjective(s) /\ x \notin Choice!ToSet(s) => Choice!IsInjective(Append(s, x))
<1> DEFINE t == Append(s, x)
<1>1. /\ t \in Seq(T) /\ Len(t) = Len(s) + 1 /\ t[Len(s) + 1] = x
      /\ \A i \in 1..Len(s) : t[i] = s[i]
  OBVIOUS
<1> HIDE DEF t
<1>2. \A i \in 1..Len(t) : i = Len(s) + 1 \/ i \in 1..Len(s)
  BY <1>1, ItemsAreOne
<1>3. Choice!ToSet(t) = Choice!ToSet(s) \cup {x}
  <2>1. ASSUME NEW y \in Choice!ToSet(t) PROVE y \in Choice!ToSet(s) \cup {x}
    BY <1>1, <1>2, <2>1, ItemsAreOne
  <2>2. ASSUME NEW y \in Choice!ToSet(s) PROVE y \in Choice!ToSet(t)
    <3>1. PICK i \in 1..Len(s) : y = s[i]
      BY <2>2, ItemsAreOne
    <3>2. i \in 1..Len(t) /\ t[i] = y
      BY <1>1, <3>1, ItemsAreOne
    <3> QED BY <1>1, <3>2, ItemsAreOne
  <2>3. x \in Choice!ToSet(t)
    <3>1. Len(s) + 1 \in 1..Len(t)
      BY <1>1, ItemsAreOne
    <3> QED BY <1>1, <3>1, ItemsAreOne
  <2> QED BY <2>1, <2>2, <2>3
<1>4. ASSUME Choice!IsInjective(s), x \notin Choice!ToSet(s) PROVE Choice!IsInjective(t)
  <2>1. ASSUME NEW i \in 1..Len(t), NEW j \in 1..Len(t), t[i] = t[j] PROVE i = j
    <3>1. \A k \in 1..Len(s) : s[k] # x
      BY <1>4, ItemsAreOne
    <3>2. \A k, m \in 1..Len(s) : s[k] = s[m] => k = m
      BY <1>4, ItemsAreOne
    <3> QED BY <1>1, <1>2, <2>1, <3>1, <3>2
  <2> QED BY <1>1, <2>1, ItemsAreOne
<1> QED BY <1>1, <1>3, <1>4 DEF t

\* Only() keeps the items that are in the set, each once.
LEMMA OnlyKeeps ==
  ASSUME NEW T, NEW list \in Seq(T), NEW S
  PROVE  /\ Choice!Only(list, S) \in Seq(T)
         /\ Choice!ToSet(Choice!Only(list, S)) = Choice!ToSet(list) \cap S
         /\ Choice!IsInjective(list) => Choice!IsInjective(Choice!Only(list, S))
<1>1. Choice!Only(list, S) = Selection(list, S)
  BY DEF Choice!Only, Selection
<1>2. \A s : Choice!ToSet(s) = Elements(s) /\ (Choice!IsInjective(s) <=> Once(s))
  BY DEF Choice!ToSet, Choice!IsInjective, Elements, Once
<1> QED BY <1>1, <1>2, SelectionKeeps

LEMMA InsertedKeeps ==
  ASSUME NEW T, NEW list \in Seq(T), NEW x \in T
  PROVE  /\ Choice!Inserted(list, x) \in Seq(T)
         /\ Choice!ToSet(Choice!Inserted(list, x)) = Choice!ToSet(list) \cup {x}
         /\ Choice!IsInjective(list) /\ x \notin Choice!ToSet(list)
              => Choice!IsInjective(Choice!Inserted(list, x))
<1> DEFINE t == Choice!Inserted(list, x)
           n == Len(list)
<1>1. CASE t = Append(list, x)
  BY <1>1, Appended
<1>2. CASE t # Append(list, x)
  <2>1. t = SubSeq(list, 1, n - 1) \o <<x, list[n]>> /\ list # <<>>
    BY <1>2 DEF Choice!Inserted, Choice!Front, Choice!Last
  <2>2. n \in Nat \ {0} /\ \A i \in 1..n : list[i] \in T
    BY <2>1
  <2> HIDE DEF t, n
  <2>3. /\ SubSeq(list, 1, n - 1) \in Seq(T) /\ Len(SubSeq(list, 1, n - 1)) = n - 1
        /\ \A i \in 1..(n - 1) : SubSeq(list, 1, n - 1)[i] = list[i]
    <3>1. \A i \in 1..(n - 1) : list[i] \in T
      BY <2>2
    <3>2. 1 \in Int /\ n - 1 \in Int /\ (n - 1) - 1 + 1 = n - 1 /\ (1 <= n - 1 \/ n - 1 = 0)
          /\ \A i \in 1..(n - 1) : 1 + i - 1 = i
      BY <2>2
    <3>3. /\ SubSeq(list, 1, n - 1) \in Seq(T)
          /\ Len(SubSeq(list, 1, n - 1)) = IF 1 <= n - 1 THEN (n - 1) - 1 + 1 ELSE 0
          /\ \A i \in 1..((n - 1) - 1 + 1) : SubSeq(list, 1, n - 1)[i] = list[1 + i - 1]
      BY ONLY <3>1, <3>2, SubSeqProperties
    <3> QED BY <3>2, <3>3
  <2>4. /\ <<x, list[n]>> \in Seq(T) /\ Len(<<x, list[n]>>) = 2
        /\ <<x, list[n]>>[1] = x /\ <<x, list[n]>>[2] = list[n]
    BY <2>2
  <2>5. /\ t \in Seq(T) /\ Len(t) = n + 1
        /\ \A i \in 1..(n - 1) : t[i] = list[i]
        /\ t[n] = x /\ t[n + 1] = list[n]
    <3> DEFINE a == SubSeq(list, 1, n - 1)
               b == <<x, list[n]>>
    <3> HIDE DEF a, b
    <3>1. /\ a \in Seq(T) /\ Len(a) = n - 1 /\ \A i \in 1..(n - 1) : a[i] = list[i]
          /\ b \in Seq(T) /\ Len(b) = 2 /\ b[1] = x /\ b[2] = list[n] /\ t = a \o b
      BY <2>1, <2>3, <2>4 DEF a, b
    <3>2. /\ t \in Seq(T) /\ Len(t) = (n - 1) + 2
          /\ \A i \in 1..((n - 1) + 2) : t[i] = IF i <= n - 1 THEN a[i] ELSE b[i - (n - 1)]
      <4>1. /\ a \o b \in Seq(T) /\ Len(a \o b) = Len(a) + Len(b)
            /\ \A i \in 1..(Len(a) + Len(b)) : (a \o b)[i] = IF i <= Len(a) THEN a[i] ELSE b[i - Len(a)]
        BY ONLY <3>1, ConcatProperties
      <4> QED BY ONLY <3>1, <4>1
    <3>3. (n - 1) + 2 = n + 1
      BY <2>2
    <3>4. n \in 1..(n + 1) /\ n + 1 \in 1..(n + 1) /\ n - (n - 1) = 1 /\ (n + 1) - (n - 1) = 2
      BY <2>2
    <3> QED BY <2>2, <3>1, <3>2, <3>3, <3>4
  <2>6. \A i \in 1..(n + 1) : i \in 1..(n - 1) \/ i = n \/ i = n + 1
    BY <2>2
  <2>7. Choice!ToSet(t) = Choice!ToSet(list) \cup {x}
    <3>1. ASSUME NEW y \in Choice!ToSet(t) PROVE y \in Choice!ToSet(list) \cup {x}
      <4>1. PICK i \in 1..(n + 1) : y = t[i]
        BY <2>5, <3>1, ItemsAreOne
      <4>2. \A j \in 1..n : list[j] \in Choice!ToSet(list)
        BY ItemsAreOne DEF n
      <4> QED BY <2>2, <2>5, <2>6, <4>1, <4>2
    <3>2. ASSUME NEW y \in Choice!ToSet(list) PROVE y \in Choice!ToSet(t)
      <4>1. PICK i \in 1..n : y = list[i]
        BY <3>2, ItemsAreOne DEF n
      <4>2. \E j \in 1..(n + 1) : y = t[j]
        <5>1. CASE i = n
          BY <2>2, <2>5, <4>1, <5>1
        <5>2. CASE i # n
          BY <2>2, <2>5, <4>1, <5>2
        <5> QED BY <5>1, <5>2
      <4> QED BY <2>5, <4>2, ItemsAreOne
    <3>3. x \in Choice!ToSet(t)
      <4>1. n \in 1..(n + 1)
        BY <2>2
      <4> QED BY <2>5, <4>1, ItemsAreOne
    <3> QED BY <3>1, <3>2, <3>3
  <2>8. ASSUME Choice!IsInjective(list), x \notin Choice!ToSet(list) PROVE Choice!IsInjective(t)
    <3>1. /\ \A i \in 1..n : list[i] # x
          /\ \A i, j \in 1..n : list[i] = list[j] => i = j
      BY <2>8, ItemsAreOne DEF n
    <3>2. ASSUME NEW i \in 1..(n + 1), NEW j \in 1..(n + 1), t[i] = t[j] PROVE i = j
      <4>1. n \in 1..n /\ \A k \in 1..(n - 1) : k \in 1..n /\ k # n
        BY <2>2
      <4> QED BY <2>5, <2>6, <3>1, <3>2, <4>1
    <3> QED BY <2>5, <3>2, ItemsAreOne
  <2> QED BY <2>5, <2>7, <2>8 DEF t
<1> QED BY <1>1, <1>2

\* A dropdown whose list and selection fit.
Fits(b) ==
  /\ b \in Choice!Boxes /\ Choice!IsInjective(b.list) /\ b.sel \subseteq Choice!ToSet(b.list)
  /\ Placeholder \in Choice!ToSet(b.list) <=> kind.optional /\ ~kind.multiple

\* The hidden inputs say what is selected.
SavedIn(b) == b.value = b.sel \ {Placeholder}

\* What a toggled item leaves selected.
Toggles(b, x, force, c) ==
  /\ Fits(c) /\ SavedIn(c) /\ c.list = b.list /\ c.created = b.created
  /\ ~kind.multiple => c.sel = {x}
  /\ kind.multiple => c.sel \in {b.sel, b.sel \cup {x}, b.sel \ {x}}
  /\ kind.multiple /\ force = "on" => c.sel = b.sel \cup {x}
  /\ kind.multiple /\ force = "off" =>
       c.sel = IF kind.optional \/ b.sel # {x} THEN b.sel \ {x} ELSE b.sel
  /\ kind.multiple /\ force = "flip" =>
       c.sel = IF x \notin b.sel THEN b.sel \cup {x}
               ELSE IF kind.optional \/ b.sel # {x} THEN b.sel \ {x} ELSE b.sel

LEMMA ToggledKeeps ==
  ASSUME Choice!DropdownAssumption, kind \in Choice!Kinds, NEW b, Fits(b),
         NEW x \in Choice!ToSet(b.list), NEW force
  PROVE  Toggles(b, x, force, Choice!Toggled(b, x, force))
<1> DEFINE c == Choice!Toggled(b, x, force)
<1>1. /\ b.list \in Seq(Choice!Items) /\ b.sel \in SUBSET Choice!Items
      /\ b.value \in SUBSET Choice!Entries /\ b.created \in Choice!Entries \cup {Nobody}
      /\ x \in Choice!Items /\ b.sel \subseteq Choice!ToSet(b.list)
  BY ItemsAreOne DEF Fits, Choice!Boxes
<1>2. ASSUME NEW sel \in SUBSET Choice!ToSet(b.list),
             c = Choice!Saved([b EXCEPT !.sel = sel])
      PROVE  Fits(c) /\ SavedIn(c) /\ c.list = b.list /\ c.created = b.created /\ c.sel = sel
  <2>1. sel \in SUBSET Choice!Items /\ sel \ {Placeholder} \in SUBSET Choice!Entries
    BY <1>1, ItemsAreOne DEF Choice!Items
  <2>2. /\ c.list = b.list /\ c.created = b.created /\ c.sel = sel /\ c.value = sel \ {Placeholder}
        /\ c \in Choice!Boxes
    BY <1>1, <1>2, <2>1 DEF Choice!Saved, Choice!Boxes, Fits
  <2> QED BY <2>2 DEF Fits, SavedIn
<1>3. \/ c = Choice!Saved([b EXCEPT !.sel = {x}])
      \/ c = Choice!Saved([b EXCEPT !.sel = @ \ {x}])
      \/ c = Choice!Saved([b EXCEPT !.sel = @ \cup {x}])
      \/ c = Choice!Saved(b)
  BY DEF Choice!Toggled
<1>4. b = [b EXCEPT !.sel = b.sel]
  BY DEF Fits, Choice!Boxes
<1>5. CASE ~kind.multiple
  <2>1. c = Choice!Saved([b EXCEPT !.sel = {x}])
    BY <1>5 DEF Choice!Toggled
  <2> HIDE DEF c
  <2>2. {x} \in SUBSET Choice!ToSet(b.list)
    OBVIOUS
  <2>3. Fits(c) /\ SavedIn(c) /\ c.list = b.list /\ c.created = b.created /\ c.sel = {x}
    BY ONLY <1>2, <2>1, <2>2
  <2> QED BY <1>5, <2>3 DEF c, Toggles
<1>6. CASE kind.multiple
  <2> DEFINE sel == IF x \in b.sel /\ force # "on" /\ (kind.optional \/ b.sel # {x}) THEN b.sel \ {x}
                    ELSE IF force # "off" THEN b.sel \cup {x} ELSE b.sel
  <2>1. c = Choice!Saved([b EXCEPT !.sel = sel])
    BY <1>4, <1>6 DEF Choice!Toggled
  <2>2. sel \in SUBSET Choice!ToSet(b.list)
    BY <1>1
  <2>3. /\ sel \in {b.sel, b.sel \cup {x}, b.sel \ {x}}
        /\ force = "on" => sel = b.sel \cup {x}
        /\ force = "off" => sel = IF kind.optional \/ b.sel # {x} THEN b.sel \ {x} ELSE b.sel
        /\ force = "flip" => sel = IF x \notin b.sel THEN b.sel \cup {x}
                                   ELSE IF kind.optional \/ b.sel # {x} THEN b.sel \ {x} ELSE b.sel
    OBVIOUS
  <2> HIDE DEF c, sel
  <2>4. Fits(c) /\ SavedIn(c) /\ c.list = b.list /\ c.created = b.created /\ c.sel = sel
    BY ONLY <1>2, <2>1, <2>2
  <2> QED BY <1>6, <2>3, <2>4 DEF c, Toggles
<1> QED BY <1>5, <1>6


Creates(b, x, c) ==
  /\ Fits(c) /\ SavedIn(c) /\ x \in Choice!ToSet(c.list)
  /\ ~kind.multiple => c.sel = {x}
  /\ kind.multiple => /\ c.sel = b.sel \cup {x}
                      /\ Choice!ToSet(c.list) = Choice!ToSet(b.list) \cup {x}

LEMMA CreatedKeeps ==
  ASSUME Choice!DropdownAssumption, kind \in Choice!Kinds, NEW b, Fits(b),
         NEW x \in Choice!Entries
  PROVE  Creates(b, x, Choice!Created(b, x))
<1> DEFINE c == Choice!Created(b, x)
           old == IF kind.multiple THEN {} ELSE {b.created}
           only == Choice!Only(b.list, Choice!Items \ old)
           new == [list |-> Choice!Inserted(only, x), sel |-> b.sel \ old, value |-> b.value,
                   created |-> IF kind.multiple THEN Nobody ELSE x]
<1>1. c = Choice!Toggled(IF x \in Choice!ToSet(b.list) THEN b ELSE new, x, "on")
  BY DEF Choice!Created
<1>2. CASE x \in Choice!ToSet(b.list)
  <2>1. c = Choice!Toggled(b, x, "on")
    BY <1>1, <1>2
  <2>2. Toggles(b, x, "on", c)
    BY <1>2, <2>1, ToggledKeeps
  <2>3. {x} \subseteq Choice!ToSet(b.list)
    BY <1>2
  <2> HIDE DEF c
  <2> QED BY <1>2, <2>2, <2>3 DEF Toggles, Creates, c
<1>3. CASE x \notin Choice!ToSet(b.list)
  <2>1. /\ b.list \in Seq(Choice!Items) /\ Choice!IsInjective(b.list)
        /\ b.sel \subseteq Choice!ToSet(b.list) /\ b.sel \in SUBSET Choice!Items
        /\ b.value \in SUBSET Choice!Entries /\ b.created \in Choice!Entries \cup {Nobody}
        /\ Placeholder \in Choice!ToSet(b.list) <=> kind.optional /\ ~kind.multiple
        /\ Choice!ToSet(b.list) \subseteq Choice!Items
    BY ItemsAreOne DEF Fits, Choice!Boxes
  <2>2. /\ only \in Seq(Choice!Items) /\ Choice!IsInjective(only)
        /\ Choice!ToSet(only) = Choice!ToSet(b.list) \cap (Choice!Items \ old)
    BY <2>1, OnlyKeeps
  <2>3. x \in Choice!Items /\ x # Placeholder /\ Placeholder \in Choice!Items \ old
    BY <2>1 DEF Choice!DropdownAssumption, Choice!Items
  <2> HIDE DEF only
  <2>4. /\ new.list \in Seq(Choice!Items) /\ Choice!IsInjective(new.list)
        /\ Choice!ToSet(new.list) = Choice!ToSet(only) \cup {x}
    <3>1. x \in Choice!Items /\ only \in Seq(Choice!Items)
          /\ Choice!IsInjective(only) /\ x \notin Choice!ToSet(only)
      BY <1>3, <2>2, <2>3
    <3>2. new.list = Choice!Inserted(only, x)
      OBVIOUS
    <3> HIDE DEF new
    <3> QED BY ONLY <3>1, <3>2, InsertedKeeps
  <2>5. Fits(new) /\ x \in Choice!ToSet(new.list)
    <3>1. new \in Choice!Boxes
      BY <2>1, <2>4 DEF Choice!Boxes
    <3>2. new.sel \subseteq Choice!ToSet(new.list)
      BY <2>1, <2>2, <2>4
    <3> HIDE DEF new
    <3> QED BY <2>1, <2>2, <2>3, <2>4, <3>1, <3>2 DEF Fits
  <2>6. kind.multiple => new.sel = b.sel /\ Choice!ToSet(new.list) = Choice!ToSet(b.list) \cup {x}
    BY <2>1, <2>2, <2>4
  <2> HIDE DEF new
  <2>7. c = Choice!Toggled(new, x, "on")
    BY <1>1, <1>3
  <2> HIDE DEF c
  <2>8. /\ Fits(c) /\ SavedIn(c) /\ c.list = new.list
        /\ ~kind.multiple => c.sel = {x}
        /\ kind.multiple => c.sel = new.sel \cup {x}
    <3>1. Toggles(new, x, "on", c)
      BY <2>5, <2>7, ToggledKeeps
    <3> QED BY <3>1 DEF Toggles
  <2> QED BY <2>5, <2>6, <2>8 DEF Creates, c
<1> QED BY <1>2, <1>3

\* setValue() with "create" makes all values items of the list.
LEMMA AllCreatedKeeps ==
  ASSUME Choice!DropdownAssumption, kind \in Choice!Kinds, NEW b, Fits(b),
         NEW values \in Seq(Choice!Entries), kind.multiple \/ Len(values) <= 1
  PROVE  /\ Fits(Choice!AllCreated(b, values))
         /\ values = <<>> => Choice!AllCreated(b, values) = b
         /\ values # <<>> => SavedIn(Choice!AllCreated(b, values))
         /\ Choice!ToSet(values) \subseteq Choice!ToSet(Choice!AllCreated(b, values).list)
<1> DEFINE N == Len(values)
           D == {d \in Choice!Boxes : Fits(d)}
           step == [i \in 1..N |-> [d \in D |-> Choice!Created(d, values[i])]]
<1>0. /\ N \in Nat /\ \A i \in 1..N : values[i] \in Choice!Entries
      /\ values = <<>> <=> N = 0
      /\ Choice!ToSet(values) = {values[i] : i \in 1..N}
  BY ItemsAreOne
<1> HIDE DEF N
<1>1. \A d : Fits(d) <=> d \in D
  BY DEF Fits
<1> HIDE DEF D
<1>2. \A i \in 1..N : \A d \in D : Choice!Created(d, values[i]) \in D
  BY <1>0, <1>1, CreatedKeeps DEF Creates
<1>3. step \in Steps(N, D) /\ b \in D
  BY <1>1, <1>2 DEF Steps
<1> HIDE DEF step
<1>4. PICK a : Solves(a, N, D, b, step)
  BY ONLY <1>0, <1>3, Recursion
<1>5. a = [i \in 0..Len(values) |-> IF i = 0 THEN b ELSE Choice!Created(a[i - 1], values[i])]
  <2>1. a \in [0..N -> D] /\ a[0] = b /\ \A i \in 1..N : a[i] = step[i][a[i - 1]]
    BY <1>4 DEF Solves
  <2>2. ASSUME NEW i \in 1..N PROVE a[i] = Choice!Created(a[i - 1], values[i])
    <3>1. i - 1 \in 0..N /\ a[i - 1] \in D
      BY <1>0, <2>1
    <3> QED BY <2>1, <3>1 DEF step
  <2>3. a = [i \in 0..N |-> a[i]]
    BY <2>1
  <2>4. \A i \in 0..N : i # 0 => i \in 1..N
    BY <1>0
  <2>5. \A i \in 0..N : a[i] = IF i = 0 THEN b ELSE Choice!Created(a[i - 1], values[i])
    BY <2>1, <2>2, <2>4
  <2> QED BY <2>3, <2>5 DEF N
<1> DEFINE after == CHOOSE after :
                      after = [i \in 0..Len(values) |->
                                 IF i = 0 THEN b ELSE Choice!Created(after[i - 1], values[i])]
<1>6. after = [i \in 0..Len(values) |-> IF i = 0 THEN b ELSE Choice!Created(after[i - 1], values[i])]
  BY <1>5
<1>7. Choice!AllCreated(b, values) = after[N]
  BY DEF Choice!AllCreated, N
<1> HIDE DEF after
<1>8. /\ after[0] = b
      /\ \A i \in 0..N : i # 0 => after[i] = Choice!Created(after[i - 1], values[i])
  BY <1>0, <1>6 DEF N
<1> DEFINE Good == {k \in 0..N :
             /\ Fits(after[k])
             /\ k # 0 => SavedIn(after[k]) /\ values[k] \in Choice!ToSet(after[k].list)
             /\ kind.multiple => \A j \in 1..k : values[j] \in Choice!ToSet(after[k].list)}
<1>9. \A k \in 0..N : k \in Good
  <2>1. 0 \in Good
    BY <1>0, <1>8
  <2>2. ASSUME NEW k \in 0..(N - 1), k \in Good
        PROVE  k + 1 \in Good
    <3>1. k + 1 \in 0..N /\ k + 1 \in 1..N /\ k + 1 # 0 /\ (k + 1) - 1 = k
      BY <1>0
    <3>2. after[k + 1] = Choice!Created(after[k], values[k + 1]) /\ Fits(after[k])
      BY <1>8, <2>2, <3>1
    <3>3. values[k + 1] \in Choice!Entries
      BY <1>0, <3>1
    <3>4. /\ Fits(after[k + 1]) /\ SavedIn(after[k + 1])
          /\ values[k + 1] \in Choice!ToSet(after[k + 1].list)
          /\ kind.multiple => Choice!ToSet(after[k + 1].list) = Choice!ToSet(after[k].list) \cup {values[k + 1]}
      <4>1. Creates(after[k], values[k + 1], after[k + 1])
        BY <3>2, <3>3, CreatedKeeps
      <4> QED BY <4>1 DEF Creates
    <3>5. ASSUME kind.multiple, NEW j \in 1..(k + 1)
          PROVE  values[j] \in Choice!ToSet(after[k + 1].list)
      <4>1. j \in 1..k \/ j = k + 1
        OBVIOUS
      <4> QED BY <2>2, <3>4, <3>5, <4>1
    <3> QED BY <3>1, <3>4, <3>5
  <2> HIDE DEF Good
  <2> QED BY ONLY <1>0, <2>1, <2>2, StepByStep
<1>10. N \in Good
  <2>1. N \in 0..N
    BY <1>0
  <2> HIDE DEF Good
  <2> QED BY <1>9, <2>1
<1>11. \A j \in 1..N : values[j] \in Choice!ToSet(after[N].list)
  <2>1. CASE kind.multiple
    BY <1>10, <2>1
  <2>2. CASE ~kind.multiple
    <3>1. \A j \in 1..N : j = N /\ N # 0
      BY <1>0, <2>2 DEF N
    <3> QED BY <1>10, <3>1
  <2> QED BY <2>1, <2>2
<1> QED BY <1>0, <1>7, <1>8, <1>10, <1>11

\* While setValue() goes through the items of a multiple choice, up to those in
\* L: the values are selected, and at most one other, which alone was left then.
Chosen(sel, L, V) ==
  /\ L \cap V \subseteq sel
  /\ kind.optional => sel \cap L \subseteq V
  /\ \A x \in (sel \cap L) \ V : sel \subseteq {x} \cup (L \cap V)

LEMMA ChosenOn ==
  ASSUME NEW sel, NEW L, NEW V, NEW x \in V, Chosen(sel, L, V)
  PROVE  Chosen(sel \cup {x}, L \cup {x}, V)
BY DEF Chosen

LEMMA ChosenOff ==
  ASSUME NEW sel, NEW L, NEW V, NEW x, x \notin V, x \notin L, Chosen(sel, L, V),
         NEW rest, rest = IF kind.optional \/ sel # {x} THEN sel \ {x} ELSE sel
  PROVE  Chosen(rest, L \cup {x}, V)
<1>1. CASE kind.optional \/ sel # {x}
  BY <1>1 DEF Chosen
<1>2. CASE ~kind.optional /\ sel = {x}
  BY <1>2 DEF Chosen
<1> QED BY <1>1, <1>2

\* The values setValue() can select.
Known(b, values) ==
    Choice!ToSet(values) \cap (IF kind.create THEN Choice!Entries ELSE Choice!ToSet(b.list))

LEMMA SetToSelects ==
  ASSUME Choice!DropdownAssumption, kind \in Choice!Kinds, NEW b, Fits(b),
         NEW values \in Seq(Choice!Entries), kind.multiple \/ Len(values) <= 1
  PROVE  LET c == Choice!SetTo(b, values)
             known == Known(b, values)
         IN  /\ Fits(c) /\ (SavedIn(b) \/ known # {} => SavedIn(c))
             /\ kind.multiple => /\ known \subseteq c.sel
                                 /\ kind.optional => c.sel = known
                                 /\ \A x, y \in c.sel \ known : x = y
             /\ ~kind.multiple => IF known # {} THEN c.sel = known
                                  ELSE IF kind.optional THEN c.sel = {Placeholder} /\ SavedIn(c)
                                  ELSE c = b
<1> DEFINE V == Choice!ToSet(values)
           more == IF kind.create THEN Choice!AllCreated(b, values) ELSE b
           first == IF ~kind.multiple /\ Placeholder \in Choice!ToSet(more.list)
                    THEN Choice!Toggled(more, Placeholder, "flip") ELSE more
           N == Len(more.list)
           known == Known(b, values)
           D == {d \in Choice!Boxes : Fits(d) /\ d.list = more.list}
           step == [i \in 1..N |-> [d \in D |-> Choice!Marked(d, more.list[i], values)]]
<1>1. V \subseteq Choice!Entries /\ Placeholder \notin V /\ (values = <<>> => V = {})
  BY ItemsAreOne DEF Choice!DropdownAssumption
<1>2. /\ Fits(more) /\ known = V \cap Choice!ToSet(more.list)
      /\ more = b \/ SavedIn(more)
      /\ ~kind.multiple /\ known = {} => more = b
  <2>1. CASE kind.create
    <3>1. /\ Fits(more) /\ (values = <<>> => more = b) /\ (values # <<>> => SavedIn(more))
          /\ V \subseteq Choice!ToSet(more.list)
      BY <2>1, AllCreatedKeeps
    <3>2. values # <<>> => V # {}
      <4>1. ASSUME values # <<>> PROVE values[1] \in V
        <5>1. 1 \in 1..Len(values)
          BY <4>1
        <5> QED BY <5>1, ItemsAreOne
      <4> QED BY <4>1
    <3>3. known = V
      BY <1>1, <2>1 DEF Known
    <3> QED BY <3>1, <3>2, <3>3
  <2>2. CASE ~kind.create
    BY <2>2 DEF Known
  <2> QED BY <2>1, <2>2
<1>3. known # {} => \E x \in V : x \in Choice!ToSet(more.list)
  BY <1>2
<1> HIDE DEF V, more, known
<1>4. /\ Fits(first) /\ first.list = more.list
      /\ first # more => first.sel = {Placeholder} /\ SavedIn(first)
      /\ ~kind.multiple /\ kind.optional => first.sel = {Placeholder} /\ SavedIn(first)
      /\ kind.multiple \/ ~kind.optional => first = more
  <2>1. CASE ~kind.multiple /\ Placeholder \in Choice!ToSet(more.list)
    <3>1. first = Choice!Toggled(more, Placeholder, "flip")
      BY <2>1 DEF first
    <3>2. Toggles(more, Placeholder, "flip", first)
      BY <1>2, <2>1, <3>1, ToggledKeeps
    <3> HIDE DEF first
    <3> QED BY <1>2, <2>1, <3>2 DEF Toggles, Fits
  <2>2. CASE ~(~kind.multiple /\ Placeholder \in Choice!ToSet(more.list))
    BY <1>2, <2>2 DEF Fits
  <2> QED BY <2>1, <2>2
<1> HIDE DEF first
<1>5. /\ N \in Nat /\ Choice!ToSet(more.list) = {more.list[i] : i \in 1..N}
      /\ \A i, j \in 1..N : more.list[i] = more.list[j] => i = j
  BY <1>2, ItemsAreOne DEF Fits, Choice!Boxes
<1> HIDE DEF N
<1>6. \A d : Fits(d) /\ d.list = more.list <=> d \in D
  BY DEF Fits
<1> HIDE DEF D
<1> DEFINE Marks(d, x, c) ==
             /\ c \in D
             /\ kind.multiple => SavedIn(c)
             /\ kind.multiple /\ x \in V => c.sel = d.sel \cup {x}
             /\ kind.multiple /\ x \notin V =>
                  c.sel = IF kind.optional \/ d.sel # {x} THEN d.sel \ {x} ELSE d.sel
             /\ ~kind.multiple /\ x \notin V => c = d
             /\ ~kind.multiple /\ x \in V => c.sel = {x} /\ SavedIn(c)
<1>7. ASSUME NEW i \in 1..N, NEW d \in D
      PROVE  Marks(d, more.list[i], Choice!Marked(d, more.list[i], values))
  <2> DEFINE x == more.list[i]
             c == Choice!Marked(d, x, values)
  <2>1. Fits(d) /\ d.list = more.list /\ x \in Choice!ToSet(d.list)
    BY <1>5, <1>6
  <2>2. c = IF kind.multiple THEN Choice!Toggled(d, x, IF x \in V THEN "on" ELSE "off")
            ELSE IF x \in V THEN Choice!Toggled(d, x, "flip") ELSE d
    BY DEF Choice!Marked, V
  <2> HIDE DEF c, x
  <2>3. CASE kind.multiple /\ x \in V
    <3>1. Fits(c) /\ SavedIn(c) /\ c.list = d.list /\ c.sel = d.sel \cup {x}
      <4>1. c = Choice!Toggled(d, x, "on")
        BY <2>2, <2>3
      <4>2. Toggles(d, x, "on", c)
        BY <2>1, <4>1, ToggledKeeps
      <4> QED BY <2>3, <4>2 DEF Toggles
    <3> QED BY <1>6, <2>1, <2>3, <3>1 DEF c, x
  <2>4. CASE kind.multiple /\ x \notin V
    <3>1. /\ Fits(c) /\ SavedIn(c) /\ c.list = d.list
          /\ c.sel = IF kind.optional \/ d.sel # {x} THEN d.sel \ {x} ELSE d.sel
      <4>1. c = Choice!Toggled(d, x, "off")
        BY <2>2, <2>4
      <4>2. Toggles(d, x, "off", c)
        BY <2>1, <4>1, ToggledKeeps
      <4> QED BY <2>4, <4>2 DEF Toggles
    <3> QED BY <1>6, <2>1, <2>4, <3>1 DEF c, x
  <2>5. CASE ~kind.multiple /\ x \in V
    <3>1. Fits(c) /\ SavedIn(c) /\ c.list = d.list /\ c.sel = {x}
      <4>1. c = Choice!Toggled(d, x, "flip")
        BY <2>2, <2>5
      <4>2. Toggles(d, x, "flip", c)
        BY <2>1, <4>1, ToggledKeeps
      <4> QED BY <2>5, <4>2 DEF Toggles
    <3> QED BY <1>6, <2>1, <2>5, <3>1 DEF c, x
  <2>6. CASE ~kind.multiple /\ x \notin V
    BY <2>2, <2>6 DEF c, x
  <2> QED BY <2>3, <2>4, <2>5, <2>6
<1>8. step \in Steps(N, D) /\ first \in D
  BY <1>4, <1>6, <1>7 DEF Steps, Marks
<1> HIDE DEF step, Marks
<1>9. PICK a : Solves(a, N, D, first, step)
  BY ONLY <1>5, <1>8, Recursion
<1>10. a = [i \in 0..N |-> IF i = 0 THEN first ELSE Choice!Marked(a[i - 1], more.list[i], values)]
  <2>1. a \in [0..N -> D] /\ a[0] = first /\ \A i \in 1..N : a[i] = step[i][a[i - 1]]
    BY <1>9 DEF Solves
  <2>2. ASSUME NEW i \in 1..N PROVE a[i] = Choice!Marked(a[i - 1], more.list[i], values)
    <3>1. i - 1 \in 0..N /\ a[i - 1] \in D
      BY <1>5, <2>1
    <3> QED BY <2>1, <3>1 DEF step
  <2>3. a = [i \in 0..N |-> a[i]]
    BY <2>1
  <2>4. \A i \in 0..N : i # 0 => i \in 1..N
    BY <1>5
  <2>5. \A i \in 0..N : a[i] = IF i = 0 THEN first ELSE Choice!Marked(a[i - 1], more.list[i], values)
    BY <2>1, <2>2, <2>4
  <2> QED BY <2>3, <2>5
<1> DEFINE after == CHOOSE after :
                      after = [i \in 0..Len(more.list) |->
                                 IF i = 0 THEN first ELSE Choice!Marked(after[i - 1], more.list[i], values)]
<1>11. after = [i \in 0..N |-> IF i = 0 THEN first ELSE Choice!Marked(after[i - 1], more.list[i], values)]
  BY <1>10 DEF N
<1>12. Choice!SetTo(b, values) = after[N]
  BY DEF Choice!SetTo, N, first, more
<1> HIDE DEF after
<1>13. /\ after[0] = first
       /\ \A i \in 1..N : after[i] = Choice!Marked(after[i - 1], more.list[i], values)
  BY <1>5, <1>11
<1> DEFINE L(k) == {more.list[i] : i \in 1..k}
           Good == {k \in 0..N :
             /\ after[k] \in D /\ (SavedIn(first) => SavedIn(after[k]))
             /\ kind.multiple => (k # 0 => SavedIn(after[k])) /\ Chosen(after[k].sel, L(k), V)
             /\ ~kind.multiple /\ L(k) \cap V = {} => after[k] = first
             /\ ~kind.multiple /\ L(k) \cap V # {} => SavedIn(after[k]) /\ \E x \in L(k) \cap V : after[k].sel = {x}}
<1>14. \A k \in 0..N : k \in Good
  <2>1. 0 \in Good
    <3>1. L(0) = {}
      OBVIOUS
    <3>2. Chosen(first.sel, {}, V)
      BY DEF Chosen
    <3>3. L(0) \cap V = {} /\ after[0] = first /\ 0 \in 0..N /\ first \in D
      BY <1>5, <1>8, <1>13, <3>1
    <3>4. Chosen(after[0].sel, L(0), V)
      BY <3>1, <3>2, <3>3
    <3> HIDE DEF L
    <3> QED BY <3>3, <3>4
  <2>2. ASSUME NEW k \in 0..(N - 1), k \in Good
        PROVE  k + 1 \in Good
    <3> DEFINE x == more.list[k + 1]
               c == after[k + 1]
    <3>1. k + 1 \in 0..N /\ k + 1 \in 1..N /\ (k + 1) - 1 = k /\ k \in 0..N
      BY <1>5
    <3>2. L(k + 1) = L(k) \cup {x} /\ x \notin L(k)
      <4>1. 1..(k + 1) = (1..k) \cup {k + 1}
        OBVIOUS
      <4>2. L(k + 1) = L(k) \cup {x}
        BY <4>1
      <4>3. \A i \in 1..k : more.list[i] # x
        BY <1>5, <3>1
      <4> QED BY <4>2, <4>3
    <3>3. c = Choice!Marked(after[k], x, values) /\ after[k] \in D
      BY <1>13, <2>2, <3>1
    <3>4. /\ c \in D
          /\ kind.multiple => SavedIn(c)
          /\ kind.multiple /\ x \in V => c.sel = after[k].sel \cup {x}
          /\ kind.multiple /\ x \notin V =>
               c.sel = IF kind.optional \/ after[k].sel # {x} THEN after[k].sel \ {x} ELSE after[k].sel
          /\ ~kind.multiple /\ x \notin V => c = after[k]
          /\ ~kind.multiple /\ x \in V => c.sel = {x} /\ SavedIn(c)
      <4>1. Marks(after[k], x, c)
        BY <1>7, <3>1, <3>3
      <4> QED BY <4>1 DEF Marks
    <3>5. /\ SavedIn(first) => SavedIn(after[k])
          /\ kind.multiple => Chosen(after[k].sel, L(k), V)
          /\ ~kind.multiple /\ L(k) \cap V = {} => after[k] = first
          /\ ~kind.multiple /\ L(k) \cap V # {} => SavedIn(after[k]) /\ \E y \in L(k) \cap V : after[k].sel = {y}
      BY <2>2
    <3> HIDE DEF x, c, L
    <3>6. CASE kind.multiple /\ x \in V
      <4>1. Chosen(c.sel, L(k + 1), V)
        BY <3>2, <3>4, <3>5, <3>6, ChosenOn
      <4> QED BY <3>1, <3>4, <3>6, <4>1 DEF c
    <3>7. CASE kind.multiple /\ x \notin V
      <4>1. Chosen(c.sel, L(k + 1), V)
        <5>1. /\ Chosen(after[k].sel, L(k), V) /\ x \notin V /\ x \notin L(k) /\ L(k + 1) = L(k) \cup {x}
              /\ c.sel = IF kind.optional \/ after[k].sel # {x} THEN after[k].sel \ {x} ELSE after[k].sel
          BY <3>2, <3>4, <3>5, <3>7
        <5>2. Chosen(c.sel, L(k) \cup {x}, V)
          BY ONLY <5>1, ChosenOff
        <5> QED BY ONLY <5>1, <5>2
      <4> QED BY <3>1, <3>4, <3>7, <4>1 DEF c
    <3>8. CASE ~kind.multiple /\ x \in V
      <4>1. x \in L(k + 1) \cap V
        BY <3>2, <3>8
      <4> QED BY <3>1, <3>4, <3>8, <4>1 DEF c
    <3>9. CASE ~kind.multiple /\ x \notin V
      <4>1. L(k + 1) \cap V = L(k) \cap V
        BY <3>2, <3>9
      <4> QED BY <3>1, <3>3, <3>4, <3>5, <3>9, <4>1 DEF c
    <3> QED BY <3>6, <3>7, <3>8, <3>9
  <2> HIDE DEF Good
  <2> QED BY ONLY <1>5, <2>1, <2>2, StepByStep
<1>15. N \in Good
  <2>1. N \in 0..N
    BY <1>5
  <2> HIDE DEF Good
  <2> QED BY <1>14, <2>1
<1> DEFINE c == after[N]
<1>16. /\ c \in D /\ (SavedIn(first) => SavedIn(c))
       /\ kind.multiple => (N # 0 => SavedIn(c)) /\ Chosen(c.sel, L(N), V)
       /\ ~kind.multiple /\ L(N) \cap V = {} => c = first
       /\ ~kind.multiple /\ L(N) \cap V # {} => SavedIn(c) /\ \E x \in L(N) \cap V : c.sel = {x}
  BY <1>15
<1>17. Fits(c) /\ known = L(N) \cap V /\ c.sel \subseteq L(N)
  <2>1. Fits(c) /\ c.list = more.list
    BY <1>6, <1>16
  <2> QED BY <1>2, <1>5, <2>1 DEF Fits
<1> HIDE DEF L, c
<1>18. ASSUME kind.multiple
       PROVE  /\ SavedIn(b) \/ known # {} => SavedIn(c)
              /\ known \subseteq c.sel
              /\ kind.optional => c.sel = known
              /\ \A x, y \in c.sel \ known : x = y
  <2>1. Chosen(c.sel, L(N), V)
    BY <1>16, <1>18
  <2>2. SavedIn(b) \/ known # {} => SavedIn(c)
    <3>1. first = more /\ (SavedIn(b) => SavedIn(first))
      BY <1>2, <1>4, <1>18
    <3>2. known # {} => N # 0
      <4>1. N = 0 => L(N) = {}
        BY DEF L
      <4> QED BY <1>17, <4>1
    <3> QED BY <1>16, <1>18, <3>1, <3>2
  <2> QED BY <1>17, <2>1, <2>2 DEF Chosen
<1>19. ASSUME ~kind.multiple
       PROVE  /\ SavedIn(b) \/ known # {} => SavedIn(c)
              /\ IF known # {} THEN c.sel = known
                 ELSE IF kind.optional THEN c.sel = {Placeholder} /\ SavedIn(c) ELSE c = b
  <2>1. CASE known # {}
    <3>1. \A x, y \in V : x = y
      BY <1>19, ItemsAreOne DEF V
    <3> QED BY <1>16, <1>17, <1>19, <2>1, <3>1
  <2>2. CASE known = {}
    <3>1. c = first /\ more = b
      BY <1>2, <1>16, <1>17, <1>19, <2>2
    <3> QED BY <1>4, <1>19, <2>2, <3>1
  <2> QED BY <2>1, <2>2
<1> QED BY <1>12, <1>17, <1>18, <1>19 DEF c, known


LEMMA NothingListed ==
  ASSUME NEW s, s = <<>>
  PROVE  Choice!ToSet(s) = {} /\ Choice!IsInjective(s) /\ \A T : s \in Seq(T)
<1>1. \A T : s \in Seq(T)
  OBVIOUS
<1>2. Len(s) = 0
  OBVIOUS
<1>3. 1..Len(s) = {}
  BY <1>2
<1>4. s \in Seq({})
  BY <1>1
<1> QED BY ONLY <1>1, <1>3, <1>4, ItemsAreOne

LEMMA JoinedKeeps ==
  ASSUME NEW T, NEW s \in Seq(T), NEW t \in Seq(T)
  PROVE  /\ s \o t \in Seq(T)
         /\ Choice!ToSet(s \o t) = Choice!ToSet(s) \cup Choice!ToSet(t)
         /\ Choice!IsInjective(s) /\ Choice!IsInjective(t) /\ Choice!ToSet(s) \cap Choice!ToSet(t) = {}
              => Choice!IsInjective(s \o t)
<1> DEFINE u == s \o t
           m == Len(s)
           n == Len(t)
<1>1. /\ u \in Seq(T) /\ Len(u) = m + n
      /\ \A i \in 1..(m + n) : u[i] = IF i <= m THEN s[i] ELSE t[i - m]
  BY ConcatProperties
<1>2. m \in Nat /\ n \in Nat
  BY ItemsAreOne
<1>3. /\ Choice!ToSet(s) = {s[i] : i \in 1..m} /\ Choice!ToSet(t) = {t[i] : i \in 1..n}
      /\ Choice!ToSet(u) = {u[i] : i \in 1..(m + n)}
      /\ Choice!IsInjective(s) => \A i, j \in 1..m : s[i] = s[j] => i = j
      /\ Choice!IsInjective(t) => \A i, j \in 1..n : t[i] = t[j] => i = j
      /\ (\A i, j \in 1..(m + n) : u[i] = u[j] => i = j) => Choice!IsInjective(u)
  <2> HIDE DEF u
  <2>1. /\ Choice!ToSet(s) = {s[i] : i \in 1..m}
        /\ Choice!IsInjective(s) => \A i, j \in 1..m : s[i] = s[j] => i = j
    BY ItemsAreOne
  <2>2. /\ Choice!ToSet(t) = {t[i] : i \in 1..n}
        /\ Choice!IsInjective(t) => \A i, j \in 1..n : t[i] = t[j] => i = j
    BY ItemsAreOne
  <2>3. /\ Choice!ToSet(u) = {u[i] : i \in 1..(m + n)}
        /\ (\A i, j \in 1..(m + n) : u[i] = u[j] => i = j) => Choice!IsInjective(u)
    BY <1>1, ItemsAreOne
  <2> QED BY <2>1, <2>2, <2>3
<1> HIDE DEF u, m, n
<1>4. \A i \in 1..(m + n) : \/ i \in 1..m /\ u[i] = s[i]
                            \/ ~(i <= m) /\ i - m \in 1..n /\ u[i] = t[i - m]
  BY <1>1, <1>2
<1>5. \A i \in 1..m : i \in 1..(m + n) /\ u[i] = s[i]
  BY <1>1, <1>2
<1>6. \A i \in 1..n : i + m \in 1..(m + n) /\ u[i + m] = t[i]
  BY <1>1, <1>2
<1>7. Choice!ToSet(u) = Choice!ToSet(s) \cup Choice!ToSet(t)
  <2>1. ASSUME NEW y \in Choice!ToSet(u) PROVE y \in Choice!ToSet(s) \cup Choice!ToSet(t)
    BY <1>3, <1>4, <2>1
  <2>2. ASSUME NEW y \in Choice!ToSet(s) \cup Choice!ToSet(t) PROVE y \in Choice!ToSet(u)
    BY <1>3, <1>5, <1>6, <2>2
  <2> QED BY <2>1, <2>2
<1>8. ASSUME Choice!IsInjective(s), Choice!IsInjective(t), Choice!ToSet(s) \cap Choice!ToSet(t) = {},
             NEW i \in 1..(m + n), NEW j \in 1..(m + n), u[i] = u[j]
      PROVE  i = j
  <2>1. /\ \A k, l \in 1..m : s[k] = s[l] => k = l
        /\ \A k, l \in 1..n : t[k] = t[l] => k = l
        /\ \A k \in 1..m, l \in 1..n : s[k] # t[l]
    BY <1>3, <1>8, SMTT(40)
  <2>2. CASE i \in 1..m /\ u[i] = s[i]
    BY <1>4, <1>8, <2>1, <2>2
  <2>3. CASE ~(i <= m) /\ i - m \in 1..n /\ u[i] = t[i - m]
    <3>1. ~(j \in 1..m /\ u[j] = s[j])
      BY <1>8, <2>1, <2>3
    <3>2. ~(j <= m) /\ j - m \in 1..n /\ u[j] = t[j - m]
      BY <1>4, <3>1
    <3>3. i - m = j - m
      BY <1>8, <2>1, <2>3, <3>2
    <3> QED BY <1>2, <3>3
  <2> QED BY <1>4, <2>2, <2>3
<1> QED BY <1>1, <1>3, <1>7, <1>8 DEF u

LEMMA GivenIsSequence ==
  ASSUME NEW values \in Choice!Given
  PROVE  /\ values \in Seq(Choice!Entries) /\ (kind.multiple \/ Len(values) <= 1)
         /\ Choice!IsInjective(values)
<1>1. CASE values = <<>>
  BY <1>1 DEF Choice!IsInjective
<1>2. CASE \E x \in Choice!Entries : values = <<x>>
  <2>1. PICK x \in Choice!Entries : values = <<x>>
    BY <1>2
  <2>2. values \in Seq(Choice!Entries) /\ Len(values) = 1
    BY <2>1
  <2> QED BY <2>2, ItemsAreOne
<1>3. CASE kind.multiple /\ values \in [1..2 -> Choice!Entries] /\ values[1] # values[2]
  <2>1. values \in Seq(Choice!Entries) /\ DOMAIN values = 1..2
    <3>1. 2 \in Nat /\ values \in [1..2 -> Choice!Entries]
      BY <1>3
    <3>2. values \in UNION {[1..n -> Choice!Entries] : n \in Nat}
      BY ONLY <3>1
    <3>3. values \in Seq(Choice!Entries)
      BY ONLY <3>2, SeqDef
    <3> QED BY <3>1, <3>3
  <2>2. \A i \in 1..2 : i = 1 \/ i = 2
    OBVIOUS
  <2> QED BY <1>3, <2>1, <2>2 DEF Choice!IsInjective
<1> QED BY <1>1, <1>2, <1>3 DEF Choice!Given

\* The inductive invariant of the dropdown.  While its value can be told, the
\* hidden inputs say what is selected; when it cannot, a multiple choice has at
\* most one item selected, and none if it is optional.
AskedFits ==
  /\ asked \subseteq box.value
  /\ kind.optional \/ ~kind.multiple => box.value = asked
  /\ \A x, y \in box.value \ asked : x = y

DropInv ==
  /\ kind \in Choice!Kinds /\ Fits(box) /\ asked \subseteq Choice!Entries \cup {Nobody}
  /\ asked # {Nobody} => SavedIn(box) /\ AskedFits
  /\ asked = {Nobody} /\ kind.multiple => \A x, y \in box.sel : x = y
  /\ asked = {Nobody} /\ kind.optional => kind.multiple /\ box.sel = {}

LEMMA DropStart == ASSUME Choice!DropdownAssumption PROVE Choice!Init => DropInv
<1> SUFFICES ASSUME Choice!Init PROVE DropInv
  OBVIOUS
<1>1. PICK choices \in SUBSET Choice!Entries, values \in Choice!Given : box = Choice!Rendered(choices, values)
  BY DEF Choice!Init
<1> DEFINE more == IF kind.create THEN Choice!Only(values, Choice!Entries \ choices) ELSE <<>>
           known == Choice!Only(Order, choices)
           keys == known \o more
           list == IF kind.optional /\ ~kind.multiple THEN <<Placeholder>> \o keys ELSE keys
           marked == Choice!Only(list, Choice!ToSet(values))
           sel == IF kind.multiple THEN Choice!ToSet(marked)
                  ELSE IF marked # <<>> THEN {Head(marked)}
                  ELSE IF list # <<>> THEN {Head(list)} ELSE {}
<1>2. box = [list |-> list, sel |-> sel, value |-> sel \ {Placeholder}, created |-> Nobody]
  BY <1>1 DEF Choice!Rendered, Choice!Saved
<1>3. /\ Order \in Seq(Choice!Entries) /\ Choice!IsInjective(Order) /\ Choice!ToSet(Order) = Choice!Entries
      /\ Placeholder \notin Choice!Entries /\ Nobody \notin Choice!Entries
  BY DEF Choice!DropdownAssumption, Choice!Entries
<1>4. known \in Seq(Choice!Entries) /\ Choice!IsInjective(known) /\ Choice!ToSet(known) \subseteq choices
  BY <1>3, OnlyKeeps
<1>5. more \in Seq(Choice!Entries) /\ Choice!IsInjective(more) /\ Choice!ToSet(more) \cap choices = {}
  <2>1. CASE kind.create
    <3>1. values \in Seq(Choice!Entries) /\ Choice!IsInjective(values)
      BY GivenIsSequence
    <3>2. more = Choice!Only(values, Choice!Entries \ choices)
      BY <2>1
    <3> HIDE DEF more
    <3> QED BY <3>1, <3>2, OnlyKeeps
  <2>2. CASE ~kind.create
    <3>1. more = <<>>
      BY <2>2
    <3> QED BY <3>1, NothingListed
  <2> QED BY <2>1, <2>2
<1> HIDE DEF known, more
<1>6. keys \in Seq(Choice!Entries) /\ Choice!IsInjective(keys)
  BY <1>4, <1>5, JoinedKeeps
<1> HIDE DEF keys
<1>7. /\ list \in Seq(Choice!Items) /\ Choice!IsInjective(list)
      /\ Placeholder \in Choice!ToSet(list) <=> kind.optional /\ ~kind.multiple
  <2>1. /\ keys \in Seq(Choice!Items) /\ Choice!ToSet(keys) \subseteq Choice!Entries
    BY <1>6, ItemsAreOne DEF Choice!Items
  <2>2. CASE kind.optional /\ ~kind.multiple
    <3> DEFINE p == <<Placeholder>>
    <3>1. p \in Seq(Choice!Items) /\ Len(p) = 1 /\ p[1] = Placeholder
      BY DEF Choice!Items
    <3>2. list = p \o keys
      BY <2>2
    <3> HIDE DEF p, list
    <3>3. Choice!IsInjective(p) /\ Choice!ToSet(p) = {Placeholder}
      BY <3>1, ItemsAreOne
    <3>4. Choice!ToSet(p) \cap Choice!ToSet(keys) = {}
      BY <1>3, <2>1, <3>3
    <3> QED BY <1>6, <2>1, <2>2, <3>1, <3>2, <3>3, <3>4, JoinedKeeps
  <2>3. CASE ~(kind.optional /\ ~kind.multiple)
    BY <1>3, <1>6, <2>1, <2>3
  <2> QED BY <2>2, <2>3
<1> HIDE DEF list
<1>8. /\ marked \in Seq(Choice!Items) /\ Choice!ToSet(marked) \subseteq Choice!ToSet(list)
      /\ Choice!ToSet(list) \subseteq Choice!Items
  BY <1>7, OnlyKeeps, ItemsAreOne
<1> HIDE DEF marked
<1>9. sel \subseteq Choice!ToSet(list)
  <2>1. ASSUME NEW s \in Seq(Choice!Items), s # <<>> PROVE Head(s) \in Choice!ToSet(s)
    <3>1. Head(s) = s[1] /\ 1 \in 1..Len(s)
      BY <2>1
    <3> QED BY <3>1, ItemsAreOne
  <2> QED BY <1>7, <1>8, <2>1
<1>10. sel \ {Placeholder} \subseteq Choice!Entries /\ sel \subseteq Choice!Items
  BY <1>8, <1>9 DEF Choice!Items
<1> HIDE DEF sel
<1>11. Fits(box) /\ SavedIn(box) /\ box.value \subseteq Choice!Entries
  <2>1. box.list = list /\ box.sel = sel /\ box.value = sel \ {Placeholder} /\ box \in Choice!Boxes
    BY <1>2, <1>7, <1>10 DEF Choice!Boxes
  <2> QED BY <1>7, <1>9, <1>10, <2>1 DEF Fits, SavedIn
<1>12. kind \in Choice!Kinds /\ asked = box.value /\ asked # {Nobody}
  BY <1>3, <1>11 DEF Choice!Init
<1> QED BY <1>11, <1>12 DEF DropInv, AskedFits

LEMMA DropStep ==
  ASSUME Choice!DropdownAssumption
  PROVE  DropInv /\ [Choice!Next]_dropdownVars => DropInv'
<1> SUFFICES ASSUME DropInv, [Choice!Next]_dropdownVars PROVE DropInv'
  OBVIOUS
<1>0. /\ kind \in Choice!Kinds /\ Fits(box) /\ asked \subseteq Choice!Entries \cup {Nobody}
      /\ box.sel \subseteq Choice!ToSet(box.list) /\ Choice!ToSet(box.list) \subseteq Choice!Items
      /\ box.list \in Seq(Choice!Items) /\ box.value \subseteq Choice!Entries
      /\ box.created \in Choice!Entries \cup {Nobody} /\ box \in Choice!Boxes
      /\ Choice!IsInjective(box.list)
      /\ Placeholder \in Choice!ToSet(box.list) <=> kind.optional /\ ~kind.multiple
      /\ Placeholder \notin Choice!Entries /\ Nobody \notin Choice!Entries /\ Placeholder # Nobody
      /\ asked # {Nobody} => SavedIn(box) /\ AskedFits
      /\ asked = {Nobody} /\ kind.multiple => \A x, y \in box.sel : x = y
      /\ asked = {Nobody} /\ kind.optional => kind.multiple /\ box.sel = {}
  BY ItemsAreOne DEF DropInv, Fits, Choice!Boxes, Choice!DropdownAssumption
\* What is to be shown of a box after a step that keeps the kind.
<1> DEFINE Follows(b, a) ==
             /\ Fits(b) /\ a \subseteq Choice!Entries \cup {Nobody}
             /\ a # {Nobody} => /\ SavedIn(b) /\ a \subseteq b.value
                                /\ kind.optional \/ ~kind.multiple => b.value = a
                                /\ \A x, y \in b.value \ a : x = y
             /\ a = {Nobody} /\ kind.multiple => \A x, y \in b.sel : x = y
             /\ a = {Nobody} /\ kind.optional => kind.multiple /\ b.sel = {}
<1>1. ASSUME kind' = kind, Follows(box', asked') PROVE DropInv'
  BY <1>0, <1>1 DEF DropInv, AskedFits, Fits, SavedIn
<1>2. ASSUME NEW x \in Choice!ToSet(box.list), Choice!Click(x) PROVE DropInv'
  <2> DEFINE had == IF asked = {Nobody} THEN {} ELSE box.value
  <2>1. /\ Toggles(box, x, "flip", box') /\ kind' = kind
        /\ asked' = IF ~kind.multiple THEN {x} \ {Placeholder}
                    ELSE IF x \notin had THEN had \cup {x}
                    ELSE IF kind.optional \/ had # {x} THEN had \ {x} ELSE had
    BY <1>0, <1>2, ToggledKeeps DEF Choice!Click
  <2>2. Fits(box') /\ SavedIn(box') /\ x \in Choice!Items /\ asked' \subseteq Choice!Entries
    BY <1>0, <2>1 DEF Toggles, Choice!Items
  <2>3. CASE ~kind.multiple
    <3>1. box'.sel = {x} /\ asked' = {x} \ {Placeholder} /\ asked' # {Nobody}
      BY <1>0, <2>1, <2>2, <2>3 DEF Toggles
    <3>2. box'.value = asked'
      BY <2>2, <3>1 DEF SavedIn
    <3> QED BY <1>1, <2>1, <2>2, <2>3, <3>1, <3>2
  <2>4. CASE kind.multiple
    <3>1. /\ box'.sel = IF x \notin box.sel THEN box.sel \cup {x}
                        ELSE IF kind.optional \/ box.sel # {x} THEN box.sel \ {x} ELSE box.sel
          /\ Placeholder \notin box.sel /\ x # Placeholder /\ asked' # {Nobody}
      BY <1>0, <2>1, <2>2, <2>4 DEF Toggles
    <3>2. box'.value = box'.sel
      BY <2>2, <3>1 DEF SavedIn
    <3>3. CASE asked # {Nobody}
      <4>1. box.value = box.sel
        BY <1>0, <3>1, <3>3 DEF SavedIn
      <4>2. asked' = box'.value
        BY <2>1, <2>4, <3>1, <3>2, <3>3, <4>1
      <4> QED BY <1>1, <2>1, <2>2, <3>1, <4>2
    <3>4. CASE asked = {Nobody}
      <4>1. asked' = {x} /\ \A y, z \in box.sel : y = z
        BY <1>0, <2>1, <2>4, <3>4
      <4>2. kind.optional => box.sel = {}
        BY <1>0, <3>4
      <4>3. x \in box'.value /\ box'.value \subseteq box.sel \cup {x}
        BY <3>1, <3>2, <4>1, <4>2
      <4> QED BY <1>1, <2>1, <2>2, <2>4, <3>1, <4>1, <4>2, <4>3
    <3> QED BY <3>3, <3>4
  <2> QED BY <2>3, <2>4
<1>3. ASSUME NEW x \in Choice!Entries, Choice!Enter(x) PROVE DropInv'
  <2>1. /\ Creates(box, x, box') /\ kind' = kind
        /\ asked' = IF kind.multiple THEN (asked \cup {x}) \ {Nobody} ELSE {x}
    BY <1>0, <1>3, CreatedKeeps DEF Choice!Enter
  <2>2. Fits(box') /\ SavedIn(box') /\ asked' \subseteq Choice!Entries /\ asked' # {Nobody} /\ x # Placeholder
    BY <1>0, <2>1 DEF Creates
  <2>3. CASE ~kind.multiple
    BY <1>1, <2>1, <2>2, <2>3 DEF Creates, SavedIn
  <2>4. CASE kind.multiple
    <3>1. box'.sel = box.sel \cup {x} /\ box'.value = box.sel \cup {x} /\ Placeholder \notin box.sel
      BY <1>0, <2>1, <2>2, <2>4 DEF Creates, SavedIn
    <3>2. CASE asked # {Nobody}
      <4>1. box.value = box.sel /\ asked \subseteq box.sel /\ (\A y, z \in box.sel \ asked : y = z)
        <5>1. SavedIn(box) /\ AskedFits
          BY <1>0, <3>2
        <5>2. box.value = box.sel
          BY ONLY <3>1, <5>1 DEF SavedIn
        <5>3. asked \subseteq box.value /\ (\A y, z \in box.value \ asked : y = z)
          BY ONLY <5>1 DEF AskedFits
        <5> QED BY ONLY <5>2, <5>3
      <4>2. asked' = asked \cup {x} /\ (kind.optional => box.sel = asked)
        BY <1>0, <2>1, <2>4, <3>2, <4>1 DEF AskedFits
      <4> QED BY <1>1, <2>1, <2>2, <2>4, <3>1, <4>1, <4>2
    <3>3. CASE asked = {Nobody}
      <4>1. asked' = {x} /\ (\A y, z \in box.sel : y = z) /\ (kind.optional => box.sel = {})
        BY <1>0, <1>3, <2>1, <2>4, <3>3
      <4> QED BY <1>1, <2>1, <2>2, <2>4, <3>1, <4>1
    <3> QED BY <3>2, <3>3
  <2> QED BY <2>3, <2>4
<1>4. ASSUME NEW x \in Choice!Entries, Choice!AddChoice(x) PROVE DropInv'
  <2>1. /\ box' = [box EXCEPT !.list = Choice!Inserted(box.list, x)] /\ kind' = kind /\ asked' = asked
        /\ x \notin Choice!ToSet(box.list) /\ x \in Choice!Items
    BY <1>4 DEF Choice!AddChoice, Choice!Items
  <2>2. /\ Choice!Inserted(box.list, x) \in Seq(Choice!Items)
        /\ Choice!ToSet(Choice!Inserted(box.list, x)) = Choice!ToSet(box.list) \cup {x}
        /\ Choice!IsInjective(Choice!Inserted(box.list, x))
    BY <1>0, <2>1, InsertedKeeps
  <2>3. /\ box' \in Choice!Boxes /\ box'.list = Choice!Inserted(box.list, x)
        /\ box'.sel = box.sel /\ box'.value = box.value
    BY <1>0, <2>1, <2>2 DEF Choice!Boxes
  <2>4. Fits(box')
    BY <1>0, <2>2, <2>3 DEF Fits
  <2> QED BY <1>0, <1>1, <2>1, <2>3, <2>4 DEF SavedIn, AskedFits
<1>5. ASSUME NEW values \in Choice!Given, Choice!SetValue(values) PROVE DropInv'
  <2> DEFINE known == Known(box, values)
  <2>1. /\ box' = Choice!SetTo(box, values) /\ kind' = kind
        /\ asked' = IF known = {} /\ (~kind.optional \/ asked = {Nobody}) THEN {Nobody} ELSE known
    BY <1>5 DEF Choice!SetValue, Known
  <2>2. /\ Fits(box') /\ (SavedIn(box) \/ known # {} => SavedIn(box'))
        /\ kind.multiple => /\ known \subseteq box'.sel
                            /\ kind.optional => box'.sel = known
                            /\ \A x, y \in box'.sel \ known : x = y
        /\ ~kind.multiple => IF known # {} THEN box'.sel = known
                             ELSE IF kind.optional THEN box'.sel = {Placeholder} /\ SavedIn(box')
                             ELSE box' = box
    BY <1>0, <2>1, GivenIsSequence, SetToSelects
  <2>3. known \subseteq Choice!Entries /\ known # {Nobody} /\ Placeholder \notin known
    <3>1. Choice!ToSet(values) \subseteq Choice!Entries
      BY GivenIsSequence, ItemsAreOne
    <3> QED BY <1>0, <3>1 DEF Known
  <2> HIDE DEF known
  <2>4. CASE asked' = {Nobody}
    <3>1. known = {} /\ (~kind.optional \/ asked = {Nobody})
      BY <2>1, <2>3, <2>4
    <3> QED BY <1>0, <1>1, <2>1, <2>2, <2>4, <3>1
  <2>5. CASE asked' # {Nobody}
    <3>1. asked' = known /\ (known = {} => kind.optional /\ asked # {Nobody})
      <4>1. kind.optional \in BOOLEAN
        BY <1>0 DEF Choice!Kinds
      <4>2. ~(known = {} /\ (~kind.optional \/ asked = {Nobody}))
        BY <2>1, <2>5
      <4>3. asked' = known
        BY <2>1, <4>2
      <4>4. CASE known = {}
        <5>1. ~(~kind.optional \/ asked = {Nobody})
          BY <4>2, <4>4
        <5> QED BY <4>1, <4>3, <5>1
      <4>5. CASE known # {}
        BY <4>3, <4>5
      <4> QED BY <4>4, <4>5
    <3>2. SavedIn(box')
      BY <1>0, <2>2, <3>1
    <3>3. box'.value = box'.sel \ {Placeholder}
      BY <3>2 DEF SavedIn
    <3>4. CASE kind.multiple
      BY <1>1, <2>1, <2>2, <2>3, <2>5, <3>1, <3>2, <3>3, <3>4
    <3>5. CASE ~kind.multiple
      BY <1>1, <2>1, <2>2, <2>3, <2>5, <3>1, <3>2, <3>3, <3>5
    <3> QED BY <3>4, <3>5
  <2> QED BY <2>4, <2>5
<1>6. ASSUME Choice!Close PROVE DropInv'
  <2>1. box' = [box EXCEPT !.value = box.sel \ {Placeholder}] /\ kind' = kind /\ asked' = asked
    BY <1>6 DEF Choice!Close, Choice!Saved
  <2>2. box.sel \ {Placeholder} \subseteq Choice!Entries
    BY <1>0 DEF Choice!Items
  <2>3. /\ box' \in Choice!Boxes /\ box'.list = box.list /\ box'.sel = box.sel
        /\ box'.value = box.sel \ {Placeholder}
    BY <1>0, <2>1, <2>2 DEF Choice!Boxes
  <2>4. Fits(box')
    BY <1>0, <2>3 DEF Fits
  <2> QED BY <1>0, <1>1, <2>1, <2>3, <2>4 DEF SavedIn, AskedFits
<1>7. ASSUME Choice!ClearChoices PROVE DropInv'
  <2> DEFINE rest == box.value \cup {Placeholder}
             only == Choice!Only(box.list, rest)
  <2>1. /\ box' = [box EXCEPT !.list = only, !.sel = box.sel \cap rest,
                              !.created = IF box.created \in box.value THEN box.created ELSE Nobody]
        /\ kind' = kind /\ asked' = asked
    BY <1>7 DEF Choice!ClearChoices
  <2>2. /\ only \in Seq(Choice!Items) /\ Choice!IsInjective(only)
        /\ Choice!ToSet(only) = Choice!ToSet(box.list) \cap rest
    BY <1>0, OnlyKeeps
  <2> HIDE DEF only
  <2>3. /\ box' \in Choice!Boxes /\ box'.list = only /\ box'.sel = box.sel \cap rest
        /\ box'.value = box.value
    BY <1>0, <2>1, <2>2 DEF Choice!Boxes
  <2>4. Fits(box')
    BY <1>0, <2>2, <2>3 DEF Fits
  <2>5. SavedIn(box) => box.sel \cap rest = box.sel
    BY DEF SavedIn
  <2> QED BY <1>0, <1>1, <2>1, <2>3, <2>4, <2>5 DEF SavedIn, AskedFits
<1>8. ASSUME Choice!Reset PROVE DropInv'
  <2> DEFINE only == Choice!Only(box.list, {Placeholder})
             none == [box EXCEPT !.list = only, !.sel = box.sel \cap {Placeholder}, !.created = Nobody]
  <2>1. /\ box' = Choice!SetTo(none, <<>>) /\ kind' = kind
        /\ asked' = IF Placeholder \in Choice!ToSet(box.list) THEN {} ELSE {Nobody}
    BY <1>8 DEF Choice!Reset
  <2>2. /\ only \in Seq(Choice!Items) /\ Choice!IsInjective(only)
        /\ Choice!ToSet(only) = Choice!ToSet(box.list) \cap {Placeholder}
    BY <1>0, OnlyKeeps
  <2> HIDE DEF only
  <2>3. none \in Choice!Boxes /\ none.list = only /\ none.sel = box.sel \cap {Placeholder}
    BY <1>0, <2>2 DEF Choice!Boxes
  <2>4. Fits(none)
    <3> HIDE DEF none
    <3> QED BY <1>0, <2>2, <2>3 DEF Fits
  <2> HIDE DEF none
  <2>5. <<>> \in Seq(Choice!Entries) /\ Len(<<>>) <= 1 /\ Known(none, <<>>) = {}
    <3>1. <<>> \in Seq(Choice!Entries) /\ Len(<<>>) = 0
      OBVIOUS
    <3>2. Choice!ToSet(<<>>) = {}
      BY NothingListed
    <3> QED BY <3>1, <3>2 DEF Known
  <2>6. /\ Fits(box')
        /\ kind.multiple => /\ kind.optional => box'.sel = {}
                            /\ \A x, y \in box'.sel \ {} : x = y
        /\ ~kind.multiple => (kind.optional => box'.sel = {Placeholder} /\ SavedIn(box'))
    BY <1>0, <2>1, <2>4, <2>5, SetToSelects
  <2>7. CASE Placeholder \in Choice!ToSet(box.list)
    <3>1. box'.value = {} /\ asked' = {} /\ asked' # {Nobody}
      BY <1>0, <2>1, <2>6, <2>7 DEF SavedIn
    <3> QED BY <1>0, <1>1, <2>1, <2>6, <2>7, <3>1
  <2>8. CASE Placeholder \notin Choice!ToSet(box.list)
    <3>1. asked' = {Nobody} /\ (kind.optional => kind.multiple)
      BY <1>0, <2>1, <2>8
    <3> QED BY <1>1, <2>1, <2>6, <3>1
  <2> QED BY <2>7, <2>8
<1>9. ASSUME UNCHANGED dropdownVars PROVE DropInv'
  BY <1>9 DEF dropdownVars, DropInv, AskedFits, Fits, SavedIn
<1> QED BY <1>2, <1>3, <1>4, <1>5, <1>6, <1>7, <1>8, <1>9 DEF Choice!Next

LEMMA DropInvMeansAsked == DropInv => Choice!TypeOK /\ ValueIsAsked
<1> SUFFICES ASSUME DropInv PROVE Choice!TypeOK /\ ValueIsAsked
  OBVIOUS
<1>1. Choice!TypeOK
  BY DEF DropInv, Fits, Choice!TypeOK
<1>2. ASSUME asked # {Nobody}
      PROVE  /\ asked \subseteq box.value
             /\ Cardinality(box.value \ asked) <= IF kind.optional \/ ~kind.multiple THEN 0 ELSE 1
  <2>1. AskedFits
    BY <1>2 DEF DropInv
  <2>2. CASE box.value \ asked = {}
    <3>1. Cardinality(box.value \ asked) = 0
      BY <2>2, FS_EmptySet
    <3> QED BY <2>1, <3>1 DEF AskedFits
  <2>3. CASE box.value \ asked # {}
    <3>1. PICK x : x \in box.value \ asked
      BY <2>3
    <3>2. box.value \ asked = {x}
      BY <2>1, <3>1 DEF AskedFits
    <3>3. Cardinality(box.value \ asked) = 1
      BY <3>2, FS_Singleton
    <3> QED BY <2>1, <2>3, <3>3 DEF AskedFits
  <2> QED BY <2>2, <2>3
<1>3. \A S : Choice!Cardinality(S) = Cardinality(S)
  BY DEF Choice!Cardinality, Cardinality
<1> QED BY <1>1, <1>2, <1>3 DEF ValueIsAsked, Choice!ValueIsAsked

LEMMA DropInvariant == PageSpec => []DropInv
<1>1. PageInit => DropInv
  BY DropStart, MCAssumption DEF PageInit
<1>2. [PageNext]_pageVars => [Choice!Next]_dropdownVars
  BY DEF PageNext, pageVars, dropdownVars
<1>3. DropInv /\ [PageNext]_pageVars => DropInv'
  BY <1>2, DropStep, MCAssumption
<1> QED BY <1>1, <1>3, PTL DEF PageSpec, pageVars

\* Whatever is clicked, entered, set, added and cleared in whatever order, and
\* however many choices there are, getValue() returns what was asked for last,
\* with at most one choice more where one must stay (toggleItem(), createItems(),
\* setValue() and clearChoices() of ui.js).
THEOREM ValueIsWhatWasAsked == PageSpec => []ValueIsAsked
<1>1. DropInv => ValueIsAsked
  BY DropInvMeansAsked
<1> QED BY <1>1, DropInvariant, PTL


-----------------------------------------------------------------------------
(* The calls of the page (RequestBatch)                                    *)

CallProofs == INSTANCE RequestBatchProofs

\* RequestBatchProofs speaks of the same steps.
LEMMA SameDelivery ==
  ASSUME NEW r, NEW answer
  PROVE  Rpc!Deliver(r, answer) => CallProofs!Deliver(r, answer)
<1>1. \A m : Rpc!MatchOf(r, answer, m) = CallProofs!MatchOf(r, answer, m)
  BY DEF Rpc!MatchOf, CallProofs!MatchOf, Rpc!Matched, CallProofs!Matched, Rpc!NoReply, CallProofs!NoReply
<1>4. Rpc!Denied(r, answer) = CallProofs!Denied(r, answer)
  BY <1>1 DEF Rpc!Denied, CallProofs!Denied
<1>5. \A S : Rpc!Upwards(S) = CallProofs!Upwards(S)
  BY DEF Rpc!Upwards, CallProofs!Upwards, Rpc!Cardinality, CallProofs!Cardinality
<1> SUFFICES ASSUME Rpc!Deliver(r, answer) PROVE CallProofs!Deliver(r, answer)
  OBVIOUS
<1>6. PICK order \in CallProofs!Upwards(CallProofs!Denied(r, answer)) :
        LET checks == [i \in DOMAIN order |-> <<"check", r.msgs[order[i]][2]>>]
        IN  /\ result' = [c \in Calls |->
                 IF Rpc!Carries(r, <<"own", c>>) THEN Rpc!Settled(r, answer, c)
                 ELSE IF Rpc!Carries(r, <<"check", c>>) THEN "error"
                 ELSE result[c]]
            /\ queue' = queue \o checks
            /\ frames' = frames + Len(checks)
            /\ dialog' = (dialog \/ \E c \in Calls :
                 Rpc!Carries(r, <<"check", c>>) /\ Rpc!MatchOf(r, answer, <<"check", c>>)[1] # "ok")
            /\ sent' = sent \ {r}
            /\ UNCHANGED session
  BY <1>4, <1>5 DEF Rpc!Deliver
<1> DEFINE checks == [i \in DOMAIN order |-> <<"check", r.msgs[order[i]][2]>>]
<1>7. result' = [c \in Calls |->
        IF CallProofs!Carries(r, <<"own", c>>) THEN CallProofs!Settled(r, answer, c)
        ELSE IF CallProofs!Carries(r, <<"check", c>>) THEN "error"
        ELSE result[c]]
  BY ONLY <1>6 DEF Rpc!Settled, CallProofs!Settled, Rpc!Carries, CallProofs!Carries, Rpc!MatchOf, CallProofs!MatchOf, Rpc!Matched, CallProofs!Matched,
     Rpc!NoReply, CallProofs!NoReply
<1>8. dialog' = (dialog \/ \E c \in Calls :
        CallProofs!Carries(r, <<"check", c>>) /\ CallProofs!MatchOf(r, answer, <<"check", c>>)[1] # "ok")
  BY ONLY <1>6 DEF Rpc!Carries, CallProofs!Carries, Rpc!MatchOf, CallProofs!MatchOf, Rpc!Matched, CallProofs!Matched,
     Rpc!NoReply, CallProofs!NoReply
<1>9. /\ queue' = queue \o checks /\ frames' = frames + Len(checks)
      /\ sent' = sent \ {r} /\ UNCHANGED session
  BY <1>6
<1> QED BY <1>7, <1>8, <1>9 DEF CallProofs!Deliver

LEMMA SameCalls ==
  /\ Rpc!Init => CallProofs!Init
  /\ [Rpc!Next]_callVars => [CallProofs!Next]_(CallProofs!vars)
  /\ Rpc!CallsAssumption => CallProofs!CallsAssumption
  /\ CallProofs!TypeOK => Rpc!TypeOK
<1>1. Rpc!Init => CallProofs!Init
  BY DEF Rpc!Init, CallProofs!Init
<1>2. ASSUME NEW c PROVE Rpc!Call(c) \/ Rpc!CallAlone(c) => CallProofs!Call(c) \/ CallProofs!CallAlone(c)
  BY DEF Rpc!Call, CallProofs!Call, Rpc!CallAlone, CallProofs!CallAlone
<1>3. Rpc!Frame => CallProofs!Frame
  BY DEF Rpc!Frame, CallProofs!Frame
<1>4. Rpc!SessionEnds => CallProofs!SessionEnds
  BY DEF Rpc!SessionEnds, CallProofs!SessionEnds
<1>5. ASSUME NEW r \in sent, Rpc!Reply(r) \/ Rpc!Fail(r) \/ Rpc!LoginRequired(r)
      PROVE  CallProofs!Receive
  <2>1. Rpc!Answers(r) = CallProofs!Answers(r)
    BY DEF Rpc!Answers, CallProofs!Answers, Rpc!Codes, CallProofs!Codes
  <2>2. Rpc!Reply(r) => CallProofs!Reply(r)
    BY <2>1, SameDelivery DEF Rpc!Reply, CallProofs!Reply
  <2>3. Rpc!Fail(r) => CallProofs!Fail(r)
    BY SameDelivery DEF Rpc!Fail, CallProofs!Fail
  <2>4. Rpc!LoginRequired(r) => CallProofs!LoginRequired(r)
    BY DEF Rpc!LoginRequired, CallProofs!LoginRequired
  <2> QED BY <1>5, <2>2, <2>3, <2>4 DEF CallProofs!Receive
<1>6. [Rpc!Next]_callVars => [CallProofs!Next]_(CallProofs!vars)
  <2>1. Rpc!Next => CallProofs!Next
    BY <1>2, <1>3, <1>4, <1>5 DEF Rpc!Next, CallProofs!Next, Rpc!Receive
  <2>2. callVars = CallProofs!vars /\ callVars' = CallProofs!vars'
    BY DEF callVars, CallProofs!vars
  <2> QED BY <2>1, <2>2
<1>7. Rpc!CallsAssumption => CallProofs!CallsAssumption
  BY DEF Rpc!CallsAssumption, CallProofs!CallsAssumption
<1>8. CallProofs!TypeOK => Rpc!TypeOK
  BY DEF Rpc!TypeOK, CallProofs!TypeOK, Rpc!Outcomes, CallProofs!Outcomes,
     Rpc!Messages, CallProofs!Messages, Rpc!Requests, CallProofs!Requests
<1> QED BY <1>1, <1>6, <1>7, <1>8

LEMMA PageCalls == PageSpec => []CallProofs!CallInv /\ [][CallProofs!Next]_(CallProofs!vars)
<1>1. PageInit => CallProofs!CallInv
  BY SameCalls, MCAssumption, CallProofs!InitCalls DEF PageInit
<1>2. [PageNext]_pageVars => [CallProofs!Next]_(CallProofs!vars)
  <2>1. [PageNext]_pageVars => [Rpc!Next]_callVars
    BY DEF PageNext, pageVars, callVars
  <2> QED BY <2>1, SameCalls
<1>3. CallProofs!CallInv /\ [CallProofs!Next]_(CallProofs!vars) => CallProofs!CallInv'
  BY SameCalls, MCAssumption, CallProofs!NextCalls
<1> QED BY <1>1, <1>2, <1>3, PTL DEF PageSpec, pageVars

\* Whatever the rest of the page does: a promise is settled once, with the reply
\* to its own call or with an error (luci.js, rpc.js).
THEOREM PageRepliesAreOwn == PageSpec => OwnReplyOnce
<1>1. CallProofs!CallInv /\ [CallProofs!Next]_(CallProofs!vars) =>
        [\A c \in Calls : result'[c] # result[c] =>
            \/ result[c] = "idle" /\ result'[c] = "waiting"
            \/ result[c] = "waiting" /\ result'[c] \in {c, "error"}]_result
  BY SameCalls, MCAssumption, CallProofs!NextCalls
<1> QED BY <1>1, PageCalls, PTL DEF OwnReplyOnce, Rpc!OwnReplyOnce

-----------------------------------------------------------------------------
(* The six parts together                                                  *)

LEMMA PageClasses == PageSpec => []LoaderInv
<1>1. PageInit => LoaderInv
  BY InitLoader DEF PageInit
<1>2. [PageNext]_pageVars => [Next]_vars
  BY DEF PageNext, pageVars, vars
<1>3. LoaderInv /\ [PageNext]_pageVars => LoaderInv'
  BY <1>2, NextLoader
<1> QED BY <1>1, <1>3, PTL DEF PageSpec, pageVars

\* Every variable of the six parts keeps its type.
THEOREM PageTypeCorrect == PageSpec => []PageTypeOK
<1>1. LoaderInv => TypeOK
  BY DEF LoaderInv
<1>2. CallProofs!CallInv => Rpc!TypeOK
  BY SameCalls DEF CallProofs!CallInv
<1>3. FormInv => Form!TypeOK
  BY DEF FormInv
<1>4. DropInv => Choice!TypeOK
  BY DropInvMeansAsked
<1>5. StateInv => Network!TypeOK
  BY DEF StateInv
<1>6. DepsInv => Packages!TypeOK
  <2> SUFFICES ASSUME DepsInv PROVE Packages!TypeOK
    OBVIOUS
  <2>1. planned \in Seq(Stock)
    BY DEF DepsInv
  <2>2. \A i \in DOMAIN planned : planned[i] \in Stock
    BY <2>1
  <2>3. Packages!NamesOf(planned) \subseteq Packages!NamesOf(lists.available) \cup Packages!NamesOf(lists.installed)
    BY <2>2 DEF Stock, Packages!Range, Packages!NamesOf
  <2> QED BY <2>3 DEF DepsInv, ListsType, Packages!TypeOK
<1>7. TypeOK /\ Rpc!TypeOK /\ Form!TypeOK /\ Choice!TypeOK /\ Network!TypeOK /\ Packages!TypeOK => PageTypeOK
  BY DEF PageTypeOK
<1> QED BY <1>1, <1>2, <1>3, <1>4, <1>5, <1>6, <1>7,
           PageClasses, PageCalls, FormInvariant, DropInvariant, StateInvariant, PagePackages, PTL
=============================================================================
