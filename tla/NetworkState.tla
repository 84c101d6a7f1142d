---------------------------- MODULE NetworkState ----------------------------
(***************************************************************************)
(* The cached state of the router's networks (network.js): initNetwork-    *)
(* State(), which almost every operation of the class waits for, and       *)
(* flushCache(), which the pages call at every poll.                       *)
(*                                                                         *)
(* A load reads the router, then asks for the state of its access points.  *)
(* It is shared by those who ask during the first part only: _init is      *)
(* reset before the second, and another load may begin and end meanwhile.  *)
(* Versions stand for what the router would answer, 0 for null.            *)
(***************************************************************************)
EXTENDS Naturals, FiniteSets

CONSTANTS
    Callers,     \* callers in a page
    Loads,       \* bound: loads that are under way at once
    MaxVersion   \* bound: changes of the router

VARIABLES
    version,   \* what the router would answer now
    cached,    \* _state
    init,      \* _init: a load, or none
    load,      \* per load: where it is, and what it has read
    caller     \* per caller: whom it waits for, and what it had and got

netVars == <<version, cached, init, load, caller>>

NoLoad == "none"

StateAssumption == NoLoad \notin Loads /\ MaxVersion \in Nat \ {0}

Free == {l \in Loads : load[l].at = "free"}

(* "had" is the cached version when the caller asked, "began" the version  *)
(* of the router if it has begun a load of its own.                        *)
Idle == [waits |-> NoLoad, had |-> 0, began |-> 0, got |-> 0]

Init ==
    /\ version = 1
    /\ cached = 0
    /\ init = NoLoad
    /\ load = [l \in Loads |-> [at |-> "free", read |-> 0]]
    /\ caller = [c \in Callers |-> Idle]

Change ==
    /\ version < MaxVersion
    /\ version' = version + 1
    /\ UNCHANGED <<cached, init, load, caller>>

-----------------------------------------------------------------------------
(* Mutant of Await: a load that waits for the access points is joined too. *)
AwaitAnyLoad(c) ==
    \/ \E l \in Loads \ Free :
         /\ caller' = [caller EXCEPT ![c] = [waits |-> l, had |-> cached, began |-> 0, got |-> 0]]
         /\ UNCHANGED <<init, load>>
    \/ /\ init = NoLoad
       /\ \E l \in Free :
            /\ init' = l
            /\ load' = [load EXCEPT ![l].at = "sent"]
            /\ caller' = [caller EXCEPT ![c] = [waits |-> l, had |-> cached, began |-> version, got |-> 0]]

(* The caller waits for the load under way, or begins one.                 *)
Await(c) ==
    \/ /\ init # NoLoad
       /\ caller' = [caller EXCEPT ![c] = [waits |-> init, had |-> cached, began |-> 0, got |-> 0]]
       /\ UNCHANGED <<init, load>>
    \/ /\ init = NoLoad
       /\ \E l \in Free :
            /\ init' = l
            /\ load' = [load EXCEPT ![l].at = "sent"]
            /\ caller' = [caller EXCEPT ![c] = [waits |-> l, had |-> cached, began |-> version, got |-> 0]]

(* initNetworkState()                                                      *)
Ask(c) ==
    /\ caller[c].waits = NoLoad
    /\ \/ cached = 0 /\ Await(c)
       \/ /\ cached # 0
          /\ caller' = [caller EXCEPT ![c] = [waits |-> NoLoad, had |-> cached, began |-> 0, got |-> cached]]
          /\ UNCHANGED <<init, load>>
    /\ UNCHANGED <<version, cached>>

(* flushCache(), which does not take the cached state for an answer.       *)
Flush(c) ==
    /\ caller[c].waits = NoLoad
    /\ Await(c)
    /\ UNCHANGED <<version, cached>>

-----------------------------------------------------------------------------
(* The router executes the calls of a load.                                *)
Read(l) ==
    /\ load[l].at = "sent"
    /\ load' = [load EXCEPT ![l] = [at |-> "read", read |-> version]]
    /\ UNCHANGED <<version, cached, init, caller>>

(* Its replies have arrived; rpc.list() of the access points follows,      *)
(* whose failure does not matter.                                          *)
Fetched(l) ==
    /\ load[l].at = "read"
    /\ load' = [load EXCEPT ![l].at = "extra"]
    /\ init' = NoLoad
    /\ UNCHANGED <<version, cached, caller>>

(* _state is replaced, and those who waited for the load go on.            *)
Done(l) ==
    /\ load[l].at = "extra"
    /\ cached' = load[l].read
    /\ load' = [load EXCEPT ![l] = [at |-> "free", read |-> 0]]
    /\ caller' = [c \in Callers |->
         IF caller[c].waits = l THEN [caller[c] EXCEPT !.waits = NoLoad, !.got = load[l].read]
         ELSE caller[c]]
    /\ UNCHANGED <<version, init>>

Next ==
    \/ Change
    \/ \E c \in Callers : Ask(c) \/ Flush(c)
    \/ \E l \in Loads : Read(l) \/ Fetched(l) \/ Done(l)

Spec == Init /\ [][Next]_netVars

-----------------------------------------------------------------------------
TypeOK ==
    /\ version \in 1..MaxVersion
    /\ cached \in 0..MaxVersion
    /\ init \in Loads \cup {NoLoad}
    /\ load \in [Loads -> [at : {"free", "sent", "read", "extra"}, read : 0..MaxVersion]]
    /\ caller \in [Callers -> [waits : Loads \cup {NoLoad}, had : 0..MaxVersion,
                               began : 0..MaxVersion, got : 0..MaxVersion]]

(* However loads overlap, nobody is given an older state than the one that *)
(* was cached when he asked, and who has begun a load is given what the    *)
(* router said after that.  The cache itself may step back, when the       *)
(* access points of an older load answer last, and who joins a load may be *)
(* given what was read before he asked.                                    *)
NeverOlder ==
    \A c \in Callers : caller[c].got # 0 => caller[c].had <= caller[c].got /\ caller[c].began <= caller[c].got
=============================================================================
