------------------------------- MODULE RrDns -------------------------------
(***************************************************************************)
(* network.rrdns lookup of rpcd (libs/rpcd-mod-rrdns/src/rrdns.c): reverse *)
(* lookups of a list of addresses over UDP, at most "limit" at a time, in  *)
(* an event loop.  The ubus request is answered when no query is           *)
(* outstanding or when the timeout fires.                                  *)
(*                                                                         *)
(* The datagrams may be lost, duplicated, reordered or malformed.  The     *)
(* list of addresses stays in the buffer of the ubus message, which the    *)
(* next message overwrites: what is left of it is then any address or none.*)
(***************************************************************************)
EXTENDS Integers, Sequences, FiniteSets

CONSTANTS
    Addrs,      \* well-formed addresses
    Bad,        \* a string that is no address
    Ids,        \* query ids, 16 bits drawn by res_mkquery()
    MaxAddrs,   \* bound: length of the list
    MaxLimit    \* RRDNS_MAX_LIMIT

DnsAssumption ==
    /\ MaxLimit \in Nat \ {0} /\ MaxAddrs \in Nat
    /\ Bad \notin Addrs

VARIABLES
    state,    \* of the request: "called", "asking", "waiting", "answered", "timeout", "refused"
    limit,    \* as requested
    todo,     \* calls of rrdns_next_query() left in the loop of lookup()
    ctx,      \* the rrdns_context and what is on the network
    answers,  \* the names recorded: the address they are recorded for and that they answer
    reused    \* TRUE once another message has overwritten the list

vars == <<state, limit, todo, ctx, answers, reused>>

Query == [id : Ids, addr : Addrs]
Lists == UNION {[1..n -> Addrs \cup {Bad}] : n \in 0..MaxAddrs}

Init ==
    /\ state = "called"
    /\ limit \in 0..MaxLimit + 1
    /\ todo = 0
    /\ \E list \in Lists :
         ctx = [rest |-> list, asked |-> {}, ids |-> {}, net |-> {},
                skipped |-> FALSE, collided |-> FALSE]
    /\ answers = {}
    /\ reused = FALSE

-----------------------------------------------------------------------------
Pending(c, id) == \E q \in c.ids : q.id = id

(* A query for address a: request_addrs and, unless another query has the  *)
(* same id, request_ids.                                                   *)
Ask(c, a, id) ==
    [c EXCEPT !.rest = Tail(@), !.asked = @ \cup {a},
              !.net = @ \cup {[id |-> id, addr |-> a]},
              !.ids = IF Pending(c, id) THEN @ ELSE @ \cup {[id |-> id, addr |-> a]},
              !.collided = @ \/ \E q \in c.net : q.id = id]

(* rrdns_next_query() takes the next address.  One that is malformed or    *)
(* was asked before, and one whose query cannot be sent, is dropped.       *)
NextQueries(c) ==
    IF c.rest = <<>> THEN {c}
    ELSE LET a == Head(c.rest)
         IN  {[c EXCEPT !.rest = Tail(@), !.skipped = TRUE]} \cup
             (IF a = Bad \/ a \in c.asked THEN {} ELSE {Ask(c, a, id) : id \in Ids})

(* lookup() checks its arguments, finds a server and opens the socket.     *)
Lookup ==
    /\ state = "called"
    /\ \/ state' = "refused" /\ UNCHANGED todo
       \/ limit \in 1..MaxLimit /\ state' = "asking" /\ todo' = limit
    /\ UNCHANGED <<limit, ctx, answers, reused>>

FirstQuery ==
    /\ state = "asking"
    /\ todo > 0
    /\ todo' = todo - 1
    /\ ctx' \in NextQueries(ctx)
    /\ UNCHANGED <<state, limit, answers, reused>>

(* The request is deferred; the event loop goes on.                        *)
Defer ==
    /\ state = "asking"
    /\ todo = 0
    /\ state' = "waiting"
    /\ UNCHANGED <<limit, todo, ctx, answers, reused>>

(* Mutant of Handled: no query takes the place of the one answered.        *)
HandledNoNext(q, names) ==
    /\ answers' = answers \cup {<<q.addr, a>> : a \in names}
    /\ ctx' = [ctx EXCEPT !.ids = @ \ {q}]
    /\ state' = IF ctx'.ids = {} THEN "answered" ELSE "waiting"
    /\ UNCHANGED <<limit, todo, reused>>

(* rrdns_handle_response() after a response with a pending id: one more    *)
(* query, and the answer to ubus if none is left.                          *)
Handled(q, names) ==
    /\ answers' = answers \cup {<<q.addr, a>> : a \in names}
    /\ ctx' \in NextQueries([ctx EXCEPT !.ids = @ \ {q}])
    /\ state' = IF ctx'.ids = {} THEN "answered" ELSE "waiting"
    /\ UNCHANGED <<limit, todo, reused>>

(* Mutant of Response: the id is not looked at.                            *)
ResponseToAny(r) ==
    /\ state = "waiting"
    /\ \E q \in ctx.ids : \E names \in {{}, {r.addr}} : Handled(q, names)

(* The response to query r, with or without a name or malformed.  Its id   *)
(* selects the query; a response whose id is not pending is dropped.       *)
Response(r) ==
    /\ state = "waiting"
    /\ \E q \in ctx.ids : q.id = r.id /\ \E names \in {{}, {r.addr}} : Handled(q, names)

(* recv() fails: its -1 is compared with an unsigned size and counts as    *)
(* long enough, so the id is read from an uninitialized buffer: any.       *)
ReceiveError ==
    /\ state = "waiting"
    /\ \E q \in ctx.ids : Handled(q, {})

Timeout ==
    /\ state = "waiting"
    /\ state' = "timeout"
    /\ UNCHANGED <<limit, todo, ctx, answers, reused>>

(* The next ubus message is read into the buffer that holds the list.      *)
OtherMessage ==
    /\ state = "waiting"
    /\ ctx.rest # <<>>
    /\ reused' = TRUE
    /\ \E list \in {<<>>} \cup {<<a>> : a \in Addrs \cup {Bad}} :
         ctx' = [ctx EXCEPT !.rest = list]
    /\ UNCHANGED <<state, limit, todo, answers>>

Next ==
    \/ Lookup \/ FirstQuery \/ Defer
    \/ \E r \in ctx.net : Response(r)
    \/ ReceiveError \/ Timeout \/ OtherMessage

Spec == Init /\ [][Next]_vars

-----------------------------------------------------------------------------
TypeOK ==
    /\ state \in {"called", "asking", "waiting", "answered", "timeout", "refused"}
    /\ limit \in 0..MaxLimit + 1
    /\ todo \in 0..MaxLimit
    /\ ctx \in [rest : Seq(Addrs \cup {Bad}), asked : SUBSET Addrs,
                ids : SUBSET Query, net : SUBSET Query,
                skipped : BOOLEAN, collided : BOOLEAN]
    /\ answers \subseteq Addrs \X Addrs
    /\ reused \in BOOLEAN

(* A name is recorded for the address it answers, unless two queries of    *)
(* the lookup have drawn the same id: then the answer to one of them is    *)
(* taken for that to the other.                                            *)
AnswersAreOwn ==
    ~ctx.collided => \A p \in answers : p[1] = p[2]

(* At most "limit" queries are outstanding.                                *)
WithinLimit == Cardinality(ctx.ids) <= limit

(* A lookup that ends before its timeout has asked for every address,      *)
(* unless one was dropped without a query taking its place, or another     *)
(* message has overwritten the list.                                       *)
EarlyMeansAll ==
    state = "answered" => ctx.rest = <<>> \/ ctx.skipped \/ reused
=============================================================================
