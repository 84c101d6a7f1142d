------------------------------ MODULE UciSave -------------------------------
(***************************************************************************)
(* uci.save(): the local changes of a configuration travel to the server   *)
(* as a batch of RPC calls, the sections are reordered, and the            *)
(* configuration is unloaded and loaded again.  Every step is a round trip *)
(* that may fail; several saves may be under way at once.                  *)
(*                                                                         *)
(* The layers of the cache (UciCache) are represented by what they stand   *)
(* for: base is values[conf] as it was loaded, cur what the getters show   *)
(* now.  A section of base missing from cur is in deletes, a section of    *)
(* cur missing from base is in creates (UciCacheProofs,                    *)
(* SubmitsAllWithoutFold); changed is the domain of changes.               *)
(* Sections are numbers: those of the server are positive, those that      *)
(* createSID() invents are negative, in the order they were added.         *)
(***************************************************************************)
EXTENDS Integers, Sequences, SequencesExt

CONSTANTS
  Savers,    \* the callers of save()
  Vals,      \* what a section contains
  Initial,   \* the number of sections at the start
  MaxNew,    \* bound on the sections added
  MaxSaves,  \* bound on the calls of save(), after which nothing is edited
  MayFail    \* may calls fail?

ASSUME SaveAssumption ==
  Initial \in Nat /\ MaxNew \in Nat /\ MaxSaves \in Nat /\ MayFail \in BOOLEAN

VARIABLES
  server,   \* the sections of the server: id, val and the section added (of)
  next,     \* the next id the server gives
  loaded,   \* is the configuration loaded?
  base, cur, changed, reorder,
  touched,  \* has deletes, creates or changes an entry for the configuration?
  name,     \* '.name' of the sections added, in order
  made,     \* number of sections added
  save,     \* per caller: phase, calls to serve, replies, new sections, ...
  saves,    \* number of calls of save()
  dirty     \* has a save failed since the configuration was loaded?

client == <<loaded, base, cur, changed, touched, reorder, name, made>>
vars == <<server, next, client, save, saves, dirty>>

Failed == -1   \* a reply with an error
NoName == 0    \* the reply to a call that returns no name

Ids(sections) == {sections[i].id : i \in DOMAIN sections}

\* the elements of a sequence that are in a set, in their order
Only(list, S) ==
  LET kept[i \in 0..Len(list)] ==
        IF i = 0 THEN <<>>
        ELSE IF list[i] \in S THEN Append(kept[i - 1], list[i]) ELSE kept[i - 1]
  IN  kept[Len(list)]

Missing(sections, others) ==
  Only(sections, {e \in ToSet(sections) : e.id \notin Ids(others)})
ValueIn(sections, id) ==
  (CHOOSE e \in ToSet(sections) : e.id = id).val
Busy == {s \in Savers : save[s].pc \in {"calls", "order", "load"}}

Idle == [pc |-> "idle", todo |-> <<>>, resp |-> <<>>, snew |-> <<>>,
         reload |-> FALSE,
         clean |-> FALSE, mixed |-> FALSE, goal |-> <<>>, snap |-> <<>>]

OwnNames == [k \in 1..MaxNew |-> -k]

Init ==
  /\ \E v \in Vals :
       /\ server = [i \in 1..Initial |-> [id |-> i, of |-> i, val |-> v]]
       /\ base = [i \in 1..Initial |-> [id |-> i, val |-> v]]
  /\ cur = base /\ changed = {} /\ touched = FALSE
  /\ loaded = TRUE /\ reorder = FALSE
  /\ next = Initial + 1 /\ made = 0
  /\ name = OwnNames
  /\ save = [s \in Savers |-> Idle] /\ saves = 0 /\ dirty = FALSE

-----------------------------------------------------------------------------
(* Edits, while no save is under way (the outcome of the last is forgotten) *)

Edited(sections) ==
  /\ loaded /\ Busy = {} /\ saves < MaxSaves /\ cur' = sections
  /\ save' = [s \in Savers |-> Idle]
  /\ UNCHANGED <<server, next, loaded, base, name, saves, dirty>>

Add == /\ made < MaxNew /\ made' = made + 1
       /\ \E v \in Vals : Edited(Append(cur, [id |-> -(made + 1), val |-> v]))
       /\ touched' = TRUE
       /\ UNCHANGED <<changed, reorder>>

RemoveSection ==
  /\ \E i \in DOMAIN cur : /\ Edited(RemoveAt(cur, i))
                           /\ changed' = changed \ {cur[i].id}
  /\ touched' = TRUE
  /\ UNCHANGED <<reorder, made>>

Set ==
  /\ \E i \in DOMAIN cur, v \in Vals :
       /\ Edited([cur EXCEPT ![i].val = v])
       /\ changed' = changed \cup ({cur[i].id} \cap Ids(base))
  /\ touched' = TRUE
  /\ UNCHANGED <<reorder, made>>

Move == /\ \E i, j \in DOMAIN cur :
             Edited(InsertAt(RemoveAt(cur, i), j, cur[i]))
        /\ reorder' = TRUE
        /\ UNCHANGED <<changed, touched, made>>

-----------------------------------------------------------------------------
(* save() *)

Deletes == Missing(base, cur)
Creates == Missing(cur, base)
Changes == Only(cur, {e \in ToSet(cur) : e.id \in changed})

\* creates[conf] is enumerated in the order its sections were added
CreatesInOrder ==
  LET ids == Only([i \in 1..made |-> -i], Ids(cur))
  IN  [i \in DOMAIN ids |-> [id |-> ids[i], val |-> ValueIn(cur, ids[i])]]

Call(op, sections) ==
  [i \in DOMAIN sections |-> [op |-> op, section |-> sections[i], order |-> <<>>]]

Batch == Call("delete", Deletes) \o Call("add", CreatesInOrder) \o Call("set", Changes)

Started ==
  [pc |-> "calls", todo |-> Batch, resp |-> <<>>,
   snew |-> [i \in DOMAIN CreatesInOrder |-> CreatesInOrder[i].id],
   reload |-> touched \/ reorder, clean |-> ~dirty,
   mixed |-> reorder /\ Deletes # <<>> /\ Creates # <<>>,
   goal |-> cur, snap |-> <<>>]

Save(s) ==
  /\ loaded /\ s \notin Busy /\ saves < MaxSaves
  /\ saves' = saves + 1
  /\ save' = [save EXCEPT ![s] = Started]
  /\ UNCHANGED <<server, next, client, dirty>>

Replied(s) == s \in Busy /\ save[s].todo = <<>>
Succeeded(s) == Replied(s) /\ Failed \notin ToSet(save[s].resp)

\* the end of save(): unload(), then load(), of the configuration, if touched
Finish(s) ==
  /\ save' = [save EXCEPT ![s].pc = IF save[s].reload THEN "load" ELSE "saved",
                          ![s].resp = <<>>,
                          ![s].todo =
                             IF save[s].reload
                             THEN <<[op |-> "load", section |-> <<>>, order |-> <<>>]>>
                             ELSE <<>>]
  /\ loaded' = (loaded /\ ~save[s].reload)
  /\ IF save[s].reload THEN changed' = {} /\ touched' = FALSE
                       ELSE UNCHANGED <<changed, touched>>

\* all replies to the calls are there: '.name' of each new section is set from
\* the reply at its own position in snew
Renamed(s) ==
  [k \in 1..MaxNew |->
     LET at == {i \in DOMAIN save[s].snew : save[s].snew[i] = -k}
     IN  IF at = {} THEN name[k] ELSE save[s].resp[CHOOSE i \in at : TRUE]]

\* Mutant of NamesSent: the new sections under their old names
NamesSentUnchanged(nm) == IF loaded THEN [i \in DOMAIN cur |-> cur[i].id] ELSE <<>>

\* the names reorderSections() sends
NamesSent(nm) ==
  LET known == IF loaded THEN cur ELSE <<>>
  IN  [i \in DOMAIN known |-> IF known[i].id < 0 THEN nm[-known[i].id]
                                                 ELSE known[i].id]

CallsDone(s) ==
  /\ Succeeded(s) /\ save[s].pc = "calls"
  /\ name' = Renamed(s)
  /\ reorder' = FALSE
  /\ IF reorder /\ NamesSent(name') # <<>>
     THEN /\ save' = [save EXCEPT
               ![s].pc = "order", ![s].resp = <<>>,
               ![s].todo = <<[op |-> "order", section |-> <<>>,
                              order |-> NamesSent(name')]>>]
          /\ UNCHANGED <<loaded, changed, touched>>
     ELSE Finish(s)
  /\ UNCHANGED <<server, next, base, cur, made, saves, dirty>>

OrderDone(s) ==
  /\ Succeeded(s) /\ save[s].pc = "order"
  /\ Finish(s)
  /\ UNCHANGED <<server, next, base, cur, reorder, name, made, saves, dirty>>

\* Mutant of LoadDone: what was sent is kept, not what is loaded
LoadDoneAsSent(s) ==
  /\ Succeeded(s) /\ save[s].pc = "load"
  /\ loaded' = TRUE
  /\ base' = save[s].goal /\ cur' = save[s].goal
  /\ save' = [save EXCEPT ![s].pc = "saved"]
  /\ UNCHANGED <<server, next, changed, touched, reorder, name, made, saves, dirty>>

LoadDone(s) ==
  /\ Succeeded(s) /\ save[s].pc = "load"
  /\ loaded' = TRUE
  /\ base' = save[s].snap /\ cur' = save[s].snap
  /\ save' = [save EXCEPT ![s].pc = "saved", ![s].resp = <<>>, ![s].snap = <<>>,
                          ![s].snew = <<>>]
  /\ dirty' = FALSE
  /\ name' = OwnNames   \* nothing is left in creates
  /\ UNCHANGED <<server, next, changed, touched, reorder, made, saves>>

\* Mutant of Rejected: save() ends in a state of its own
RejectedUnnamed(s) ==
  /\ Replied(s) /\ Failed \in ToSet(save[s].resp)
  /\ save' = [save EXCEPT ![s].pc = "rejected"]
  /\ dirty' = TRUE
  /\ UNCHANGED <<server, next, client, saves>>

\* Mutant of Rejected: the changes are forgotten
RejectedForgets(s) ==
  /\ Replied(s) /\ Failed \in ToSet(save[s].resp)
  /\ save' = [save EXCEPT ![s] = [Idle EXCEPT !.pc = "failed"]]
  /\ dirty' = TRUE /\ changed' = {}
  /\ UNCHANGED <<server, next, loaded, base, cur, touched, reorder, name, made,
                 saves>>

\* Mutant of Rejected: only a failing load ends save()
RejectedAtLoad(s) ==
  /\ Replied(s) /\ Failed \in ToSet(save[s].resp) /\ save[s].pc = "load"
  /\ save' = [save EXCEPT ![s] = [Idle EXCEPT !.pc = "failed"]]
  /\ dirty' = TRUE
  /\ UNCHANGED <<server, next, client, saves>>

\* a call failed: the promise of save() is rejected, the edits stay
Rejected(s) ==
  /\ Replied(s) /\ Failed \in ToSet(save[s].resp)
  /\ save' = [save EXCEPT ![s] = [Idle EXCEPT !.pc = "failed"]]
  /\ dirty' = TRUE
  /\ UNCHANGED <<server, next, client, saves>>

-----------------------------------------------------------------------------
(* The server: it executes the calls of a batch in order *)

\* a call may be executed and its reply be lost
Reply(s, r) ==
  \E got \in {r} \cup (IF MayFail THEN {Failed} ELSE {}) :
    save' = [save EXCEPT ![s].todo = Tail(@), ![s].resp = Append(@, got)]
NextCall(s) == save[s].todo[1]
Pending(s, op) == s \in Busy /\ save[s].todo # <<>> /\ NextCall(s).op = op

ServeDelete(s) ==
  /\ Pending(s, "delete") /\ NextCall(s).section.id \in Ids(server)
  /\ server' = Only(server, {e \in ToSet(server) : e.id # NextCall(s).section.id})
  /\ Reply(s, NoName)
  /\ UNCHANGED <<next, client, saves, dirty>>

ServeAdd(s) ==
  /\ Pending(s, "add")
  /\ server' = Append(server, [id |-> next, of |-> NextCall(s).section.id,
                               val |-> NextCall(s).section.val])
  /\ next' = next + 1
  /\ Reply(s, next)
  /\ UNCHANGED <<client, saves, dirty>>

ServeSet(s) ==
  /\ Pending(s, "set") /\ NextCall(s).section.id \in Ids(server)
  /\ server' = [i \in DOMAIN server |->
       IF server[i].id = NextCall(s).section.id
       THEN [server[i] EXCEPT !.val = NextCall(s).section.val] ELSE server[i]]
  /\ Reply(s, NoName)
  /\ UNCHANGED <<next, client, saves, dirty>>

\* the sections named come first, a name that is none is skipped
Reordered(names) ==
  LET found == Only(names, Ids(server))
  IN  [i \in DOMAIN found |->
         CHOOSE e \in ToSet(server) : e.id = found[i]]
      \o Only(server, {e \in ToSet(server) : e.id \notin ToSet(found)})

ServeOrder(s) ==
  /\ Pending(s, "order")
  /\ server' = Reordered(NextCall(s).order)
  /\ Reply(s, NoName)
  /\ UNCHANGED <<next, client, saves, dirty>>

ServeLoad(s) ==
  /\ Pending(s, "load")
  /\ save' = [save EXCEPT
       ![s].todo = Tail(@), ![s].resp = Append(@, NoName),
       ![s].snap = [i \in DOMAIN server |->
                      [id |-> server[i].id, val |-> server[i].val]]]
  /\ UNCHANGED <<server, next, client, saves, dirty>>

\* any call may fail; one that names a section that is gone does, and in a
\* load nothing is lost but the reply
ServeFailing(s) ==
  /\ s \in Busy /\ save[s].todo # <<>>
  /\ \/ MayFail
     \/ /\ NextCall(s).op \in {"delete", "set"}
        /\ NextCall(s).section.id \notin Ids(server)
  /\ Reply(s, Failed)
  /\ UNCHANGED <<server, next, client, saves, dirty>>

Serve(s) == \/ ServeDelete(s) \/ ServeAdd(s) \/ ServeSet(s) \/ ServeOrder(s)
            \/ ServeLoad(s) \/ ServeFailing(s)
Continue(s) == CallsDone(s) \/ OrderDone(s) \/ LoadDone(s) \/ Rejected(s)

\* the page is loaded anew
Reopen ==
  /\ ~loaded /\ Busy = {}
  /\ loaded' = TRUE /\ reorder' = FALSE /\ dirty' = FALSE
  /\ changed' = {} /\ touched' = FALSE
  /\ base' = [i \in DOMAIN server |-> [id |-> server[i].id, val |-> server[i].val]]
  /\ cur' = base'
  /\ save' = [s \in Savers |-> Idle]
  /\ name' = OwnNames
  /\ UNCHANGED <<server, next, made, saves>>

Next == \/ Add \/ RemoveSection \/ Set \/ Move \/ Reopen
        \/ \E s \in Savers : Save(s) \/ Serve(s) \/ Continue(s)

Spec == Init /\ [][Next]_vars

\* the server answers or the request times out (20 s), callbacks run
FairSpec == Spec /\ \A s \in Savers : WF_vars(Serve(s)) /\ WF_vars(Continue(s))

-----------------------------------------------------------------------------
Section == [id : {i \in Int : -i <= MaxNew}, val : Vals]

\* the calls of a batch, and those that follow one
CallType ==
  [op : {"delete", "add", "set"}, section : Section, order : {<<>>}] \cup
  [op : {"order", "load"}, section : {<<>>}, order : Seq(Int)]

SaveType ==
  [pc : {"idle", "calls", "order", "load", "saved", "failed"},
   todo : Seq(CallType), resp : Seq(Int), snew : Seq((-MaxNew)..(-1)),
   reload : BOOLEAN, clean : BOOLEAN, mixed : BOOLEAN,
   goal : Seq(Section), snap : Seq(Section)]

TypeOK ==
  /\ server \in Seq([id : Nat, of : Int, val : Vals]) /\ next \in Nat
  /\ loaded \in BOOLEAN /\ reorder \in BOOLEAN /\ touched \in BOOLEAN
  /\ changed \subseteq Int /\ dirty \in BOOLEAN
  /\ base \in Seq(Section) /\ cur \in Seq(Section)
  /\ name \in [1..MaxNew -> Int] /\ made \in 0..MaxNew
  /\ saves \in 0..MaxSaves
  /\ save \in [Savers -> SaveType]

\* the section of the server that stands for a section shown
StandsFor(e, g) == e.val = g.val /\ (e.id = g.id \/ e.of = g.id)

\* A save that succeeds, no earlier one having failed since the configuration
\* was loaded, leaves on the server exactly the sections shown, each once, with
\* their values and in their order (unless sections were deleted, added and
\* moved at once, see OrderKept).
SaveExact ==
  \A s \in Savers : save[s].pc = "saved" /\ save[s].clean =>
    LET goal == save[s].goal
    IN  /\ Len(server) = Len(goal)
        /\ \A i \in DOMAIN goal : \E j \in DOMAIN server :
             /\ StandsFor(server[j], goal[i])
             /\ ~save[s].mixed => i = j

\* A save that succeeds after failed ones has everything shown on the server.
SaveLands ==
  \A s \in Savers : save[s].pc = "saved" =>
    \A i \in DOMAIN save[s].goal : \E j \in DOMAIN server :
      StandsFor(server[j], save[s].goal[i])

\* save() "reorders remote sections as needed" (uci.js:805): a save that
\* succeeds leaves the sections in the order shown.
OrderKept ==
  \A s \in Savers : save[s].pc = "saved" =>
    \A i1, i2 \in DOMAIN save[s].goal, j1, j2 \in DOMAIN server :
      i1 < i2 /\ StandsFor(server[j1], save[s].goal[i1])
              /\ StandsFor(server[j2], save[s].goal[i2]) => j1 < j2

\* "to resynchronize the local state with the remote configuration values"
\* (uci.js:806): when every save has succeeded and none failed since the
\* configuration was loaded, the sections shown are those of the server.
Resync ==
  loaded /\ ~dirty /\ cur = base /\ (\A s \in Savers : save[s].pc = "saved") =>
    base = [i \in DOMAIN server |-> [id |-> server[i].id, val |-> server[i].val]]

\* Every save succeeds or fails: the page does not wait forever.
SaveSettles ==
  \A s \in Savers : save[s].pc = "calls" ~> save[s].pc \in {"saved", "failed"}
=============================================================================
