------------------------------- MODULE MCPage -------------------------------
(***************************************************************************)
(* Six components of a page that share no state: the classes it loads, and *)
(* beside them its RPC calls, a form, a dropdown, the cached state of the  *)
(* networks and the plan of an installation.  Each behaviour is one of a   *)
(* single component, the others rest in an initial state, so that their    *)
(* states add up instead of multiplying.                                   *)
(***************************************************************************)
EXTENDS ClassLoader, Integers, Sequences, TLC

CONSTANTS
    Calls, Options, Values, None, Bad, Needs, Required, Retain, Default, MaxExtra,
    Callers, Loads, MaxVersion,
    Order, Placeholder, Nobody,
    Installed, Available, Requirements,
    o1, o2, o3, v,   \* the options of the form and their value
    d1, d2, d3       \* the choices of the dropdown

VARIABLES
    moves,
    result, queue, frames, sent, session, dialog,
    form, cfg, layer, staged, extra, page, failed, reverted,
    kind, box, asked,
    version, cached, init, load, caller,
    lists, wanted, todo, seen, planned, errors

callVars == <<result, queue, frames, sent, session, dialog>>
formVars == <<form, cfg, layer, staged, extra, page, failed, reverted>>
dropdownVars == <<kind, box, asked>>
networkVars == <<version, cached, init, load, caller>>
packageVars == <<lists, wanted, todo, seen, planned, errors>>

Rpc == INSTANCE RequestBatch
Form == INSTANCE FormMap
Network == INSTANCE NetworkState
Choice == INSTANCE Dropdown
Packages == INSTANCE PackageDeps

(* An option may need one declared after it, and that one yet another.     *)
MCOptions == <<o1, o2, o3>>
MCNeeds == (o1 :> {{<<o2, v>>}}) @@ (o2 :> {{<<o3, v>>}}) @@ (o3 :> {})
MCDefault == (o1 :> v) @@ (o2 :> None) @@ (o3 :> None)

MCOrder == <<d1, d2, d3>>

(* Three packages: a stands in for b, and both provide c.  They may be     *)
(* installed in other versions and with other dependencies.                *)
Pkg(n, ver, ready, depends, provides) ==
    [name |-> n, version |-> ver, ready |-> ready, depends |-> depends, provides |-> provides]

AnyA == [name |-> "a", op |-> "any", version |-> 0]
NewA == [name |-> "a", op |-> ">=", version |-> 2]
AnyB == [name |-> "b", op |-> "any", version |-> 0]
OldB == [name |-> "b", op |-> "<<", version |-> 2]
OneC == [name |-> "c", op |-> "=", version |-> 1]
MCRequirements == {AnyA, NewA, AnyB, OldB, OneC}

MCAvailable ==
    {<<Pkg("t", 1, FALSE, d, {}), Pkg("a", 2, FALSE, e, {"b", "c"})>> \o f :
       d \in {<<r, q>> : r, q \in MCRequirements},
       e \in {<<>>, <<AnyB>>, <<OneC>>},
       f \in {<<>>} \cup {<<Pkg("b", k, FALSE, g, {"c"})>> : k \in 1..2, g \in {<<>>, <<NewA>>}}}

MCInstalled ==
    {d \o e : d \in {<<>>} \cup {<<Pkg("a", 1, ready, f, {"b", "c"})>> : ready \in BOOLEAN, f \in {<<>>, <<OldB>>}},
              e \in {<<>>} \cup {<<Pkg("b", k, TRUE, <<NewA>>, {"c"})>> : k \in 1..2}}

ASSUME MCAssumption ==
    /\ Rpc!CallsAssumption
    /\ Form!FormAssumption /\ Form!LateAssumption
    /\ Network!StateAssumption
    /\ Packages!DepsAssumption
    /\ Choice!DropdownAssumption

(* No package is wanted, and there is none.                                *)
PackagesRest ==
    /\ lists = [installed |-> <<>>, available |-> <<>>]
    /\ wanted = <<>> /\ todo = <<>> /\ seen = {} /\ planned = <<>> /\ errors = {}

PageInit ==
    /\ moves \in {"calls", "classes", "form", "dropdown", "network", "packages"}
    /\ Rpc!Init
    /\ Init
    /\ moves # "classes" => deps = [c \in Classes |-> {}]
    /\ Form!Init
    /\ moves # "form" => staged = [o \in Form!Names |-> None]
    /\ Choice!Init
    /\ moves # "dropdown" => box.list = <<>> /\ kind = [k \in DOMAIN kind |-> FALSE]
    /\ Network!Init
    /\ IF moves = "packages" THEN Packages!Init ELSE PackagesRest

PageNext ==
    \/ moves = "calls" /\ Rpc!Next
       /\ UNCHANGED <<moves, vars, formVars, dropdownVars, networkVars, packageVars>>
    \/ moves = "classes" /\ Next
       /\ UNCHANGED <<moves, callVars, formVars, dropdownVars, networkVars, packageVars>>
    \/ moves = "form" /\ Form!Next
       /\ UNCHANGED <<moves, callVars, vars, dropdownVars, networkVars, packageVars>>
    \/ moves = "dropdown" /\ Choice!Next
       /\ UNCHANGED <<moves, callVars, vars, formVars, networkVars, packageVars>>
    \/ moves = "network" /\ Network!Next
       /\ UNCHANGED <<moves, callVars, vars, formVars, dropdownVars, packageVars>>
    \/ moves = "packages" /\ Packages!Next
       /\ UNCHANGED <<moves, callVars, vars, formVars, dropdownVars, networkVars>>

PageSpec ==
    /\ PageInit /\ [][PageNext]_<<moves, callVars, vars, formVars, dropdownVars, networkVars, packageVars>>
    /\ Rpc!Fairness /\ Fairness

-----------------------------------------------------------------------------
PageTypeOK == TypeOK /\ Rpc!TypeOK /\ Form!TypeOK /\ Choice!TypeOK /\ Network!TypeOK /\ Packages!TypeOK

(* Every promise of a call is settled once, with the reply to its own call *)
(* or with an error, however much of a batch's reply is missing.           *)
OwnReplyOnce == Rpc!OwnReplyOnce

(* Every call is settled, unless the page has told the user to log in.     *)
CallsSettle == Rpc!CallsSettle

(* An option is visible exactly if its dependencies are met.               *)
VisibleIffSatisfied == Form!VisibleIffSatisfied

(* A save submits what is on the screen, unless an earlier one failed.     *)
SubmitsWhatIsShown == Form!SubmitsWhatIsShown

(* A save after a reset submits what the reset has put on the screen.      *)
ResetReverts == Form!ResetReverts

(* The value of a dropdown is what was asked for last.                     *)
ValueIsAsked == Choice!ValueIsAsked

(* Nobody is given an older state of the networks than the cached one.     *)
NeverOlder == Network!NeverOlder

(* A plan without errors meets every requirement it comes down to.         *)
PlanMeetsRequirements == Packages!PlanMeetsRequirements
=============================================================================
