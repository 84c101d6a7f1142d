------------------------------ MODULE Dispatch ------------------------------
(***************************************************************************)
(* One request at the dispatcher (ucode/dispatcher.uc): the node of the    *)
(* menu tree that its path names, the session, the rights, the answer.     *)
(*                                                                         *)
(* The aliases and rewrites that dispatch another request, the token of a  *)
(* POST, the headers for other origins and "arcombine" are left out, and   *)
(* the tree is given, whatever files it was built from.                    *)
(*                                                                         *)
(* The names of all nodes differ.  A node is its number, greater than that *)
(* of its parent; its order in the menu is its number, too.                *)
(***************************************************************************)
EXTENDS Integers, Sequences, FiniteSets, SequencesExt

CONSTANTS
    Parent,     \* node -> its parent; 0 is the root of the tree
    Pages,      \* nodes that are pages; the action of the others is "firstchild"
    Hidden,     \* nodes without a title or that are firstchild_ineligible
    Wildcards,  \* nodes that take the rest of the path as arguments
    Guarded,    \* nodes that may have auth
    Groups      \* access groups

Nodes == DOMAIN Parent

TreeAssumption ==
    /\ Parent \in Seq(Nat) /\ \A n \in Nodes : Parent[n] < n
    /\ Pages \cup Hidden \cup Wildcards \cup Guarded \subseteq Nodes

VARIABLES
    menu,      \* which nodes are satisfied, their groups and their auth
    path,      \* the nodes the request names, 0 for an unknown name
    cookie,    \* the groups of the session of the cookie, or NoSession
    alive,     \* FALSE once the session has ended
    resolved,  \* what resolve_page() has found
    answer     \* "none" until there is one

vars == <<menu, path, cookie, alive, resolved, answer>>

NoSession == {"no session"}
session == IF alive THEN cookie ELSE NoSession

Menus == [satisfied : [Nodes -> BOOLEAN], acl : [Nodes -> SUBSET Groups],
          auth : [Guarded -> {"none", "cookie", "login"}]]

AuthOf(n) == IF n \in Guarded THEN menu.auth[n] ELSE "none"
Leads(n) == n \notin Pages

Children(n) == {c \in Nodes : Parent[c] = n}
PathTo[n \in Nodes \cup {0}] == IF n = 0 THEN <<>> ELSE Append(PathTo[Parent[n]], n)
Requests == {PathTo[n] : n \in Nodes \cup {0}} \cup {Append(PathTo[n], 0) : n \in Nodes \cup {0}}

On(p) == {p[i] : i \in 1..Len(p)}

Init ==
    /\ menu \in Menus
    /\ path \in Requests
    /\ cookie \in (SUBSET Groups) \cup {NoSession}
    /\ alive = TRUE
    /\ resolved = [done |-> FALSE, path |-> <<>>, session |-> NoSession]
    /\ answer = "none"

-----------------------------------------------------------------------------
(* check_acl_depends() of a session that may be missing.                   *)
Allowed(acl, groups) == acl = {} \/ (groups # NoSession /\ acl \subseteq groups)

(* node_weight(): a login weighs more than any order.                      *)
Weight(n) == n + (IF AuthOf(n) = "login" THEN 1 + Cardinality(Nodes) ELSE 0)

Lightest(S) == CHOOSE n \in S : \A m \in S : Weight(n) <= Weight(m)

(* resolve_firstchild(): the path from node n to the page it stands for,   *)
(* or none.  The rights are not looked at below a node that offers a login.*)
FirstChild[n \in Nodes \cup {0}] == [login \in BOOLEAN |-> [known \in BOOLEAN |->
    LET seen == known \/ AuthOf(n) # "none"
        Below(c) == IF Leads(c) THEN FirstChild[c][login \/ AuthOf(c) = "login"][seen] ELSE <<>>
        candidates == {c \in Children(n) \ Hidden :
            /\ menu.satisfied[c]
            /\ \/ login \/ AuthOf(c) = "login"
               \/ Allowed(menu.acl[c], IF seen THEN session ELSE NoSession)
            /\ Leads(c) => Below(c) # <<>>}
        best == Lightest(candidates)
    IN  IF candidates = {} THEN <<>> ELSE <<best>> \o Below(best)]]

(* resolve_page() follows the request as long as the nodes exist and are   *)
(* satisfied, and up to a wildcard.                                        *)
Passes(k) ==
    \A i \in 1..k : /\ path[i] # 0 /\ menu.satisfied[path[i]]
                    /\ i < k => path[i] \notin Wildcards

Walked == CHOOSE k \in 0..Len(path) : Passes(k) /\ \A j \in k + 1..Len(path) : ~Passes(j)

(* The node at which the loop is left: none if it does not exist, but an   *)
(* unsatisfied one all the same.                                           *)
Reached ==
    IF path = <<>> THEN {0}
    ELSE IF Walked = Len(path) \/ (Walked > 0 /\ path[Walked] \in Wildcards) THEN {path[Walked]}
    ELSE {path[Walked + 1]} \ {0}

(* Mutant of Resolve: the first child is looked for without the session.   *)
ResolveUnknown ==
    LET passed == SubSeq(path, 1, Walked)
        known == \E n \in On(passed) : AuthOf(n) # "none"
        firsts == {FirstChild[n][FALSE][FALSE] : n \in Reached \ Pages}
    IN  /\ ~resolved.done
        /\ \E first \in IF firsts = {} THEN {<<>>} ELSE firsts :
             resolved' = [done |-> TRUE, path |-> passed \o first,
                          session |-> IF known THEN session ELSE NoSession]
        /\ UNCHANGED <<menu, path, cookie, alive, answer>>

(* The page is the first child of the node that is reached, unless that is *)
(* a page itself; the session is known from a node that has auth on.       *)
Resolve ==
    LET passed == SubSeq(path, 1, Walked)
        known == \E n \in On(passed) : AuthOf(n) # "none"
        login == \E n \in On(passed) : AuthOf(n) = "login"
        firsts == {FirstChild[n][login][known] : n \in Reached \ Pages}
    IN  /\ ~resolved.done
        /\ \E first \in IF firsts = {} THEN {<<>>} ELSE firsts :
             resolved' = [done |-> TRUE, path |-> passed \o first,
                          session |-> IF known THEN session ELSE NoSession]
        /\ UNCHANGED <<menu, path, cookie, alive, answer>>

-----------------------------------------------------------------------------
(* Mutant of Acls: only the groups of the page itself are checked.         *)
AclsOfPage(p) == IF p = <<>> THEN {} ELSE menu.acl[Last(p)]

(* ctx.acls: the groups that the nodes of the path require.                *)
Acls(p) == UNION {menu.acl[n] : n \in On(p)}

(* ctx.auth: that of the last node that has one.                           *)
Auth(p) ==
    LET with == {i \in 1..Len(p) : AuthOf(p[i]) # "none"}
    IN  IF with = {} THEN "none" ELSE AuthOf(p[CHOOSE i \in with : \A j \in with : j <= i])

(* The assertion of resolve_page() fails if a node of the path is not      *)
(* below the one before it.                                                *)
Broken(p) == p # <<>> /\ p # PathTo[Last(p)]

Decision(p, groups) ==
    IF ~Allowed(Acls(p), groups) THEN "forbidden"
    ELSE IF p = <<>> \/ Leads(Last(p)) THEN "notfound"
    ELSE "page"

(* dispatch() asks for the session once more, and keeps the rights that    *)
(* resolve_page() has found.  The login form, or the redirection after a   *)
(* login, is the answer to a path that offers one.                         *)
Answer ==
    LET p == resolved.path
        groups == IF resolved.session # NoSession THEN resolved.session ELSE session
    IN  /\ resolved.done /\ answer = "none"
        /\ \/ Broken(p) /\ answer' = "error500"
           \/ ~Broken(p) /\ Auth(p) = "none" /\ answer' = Decision(p, resolved.session)
           \/ ~Broken(p) /\ Auth(p) # "none" /\ session # NoSession
              /\ answer' = Decision(p, groups)
           \/ ~Broken(p) /\ Auth(p) = "cookie" /\ session = NoSession
              /\ answer' = "forbidden"
           \/ ~Broken(p) /\ Auth(p) = "login" /\ session = NoSession
              /\ answer' \in {"loginform", "redirect"}
        /\ UNCHANGED <<menu, path, cookie, alive, resolved>>

(* The session times out or is logged out while the request is handled.    *)
SessionLost ==
    /\ alive /\ cookie # NoSession /\ answer = "none"
    /\ alive' = FALSE
    /\ UNCHANGED <<menu, path, cookie, resolved, answer>>

Next == Resolve \/ Answer \/ SessionLost

Spec == Init /\ [][Next]_vars

-----------------------------------------------------------------------------
Answers == {"none", "error500", "forbidden", "notfound", "page", "loginform", "redirect"}

TypeOK ==
    /\ menu \in Menus
    /\ path \in Requests
    /\ cookie \in (SUBSET Groups) \cup {NoSession}
    /\ alive \in BOOLEAN
    /\ resolved \in [done : BOOLEAN, path : Seq(Nodes), session : (SUBSET Groups) \cup {NoSession}]
    /\ answer \in Answers

(* The page that runs is where the request points, every node on the way   *)
(* to it is satisfied, and the session had the rights all of them ask for. *)
PageIsAllowed ==
    answer = "page" =>
        LET way == PathTo[Last(resolved.path)]
        IN  /\ \A n \in On(way) : menu.satisfied[n] /\ Allowed(menu.acl[n], cookie)
            /\ \A n \in On(path) \ {0} :
                 n \in On(way) \/ \E m \in On(path) \ {0} : m < n /\ (m \in Wildcards \/ m \in Pages)

(* A page below the requested node that the session may see, and no node   *)
(* below those that are followed is hidden.  Its rights are known where a  *)
(* node above asks for the cookie.                                         *)
Visible(n) ==
    LET way == PathTo[n]
    IN  /\ n \in Pages
        /\ IsPrefix(path, way)
        /\ (On(way) \ On(SubSeq(path, 1, Walked))) \cap Hidden = {}
        /\ \A m \in On(way) : menu.satisfied[m] /\ Allowed(menu.acl[m], cookie)
        /\ \A m \in On(way) : menu.acl[m] # {} => \E a \in On(PathTo[Parent[m]]) : AuthOf(a) # "none"

(* If there is a page for the request that the session may see, then such  *)
(* a page is the answer, whatever its siblings ask for, as long as the     *)
(* session lives and no node offers a login: one that does stands for its  *)
(* first page, allowed or not.                                             *)
AllowedIsServed ==
    alive /\ answer # "none" /\ (\E n \in Nodes : Visible(n)) /\ (\A n \in Nodes : AuthOf(n) # "login") =>
        answer = "page" \/ (cookie = NoSession /\ answer = "forbidden")
=============================================================================
