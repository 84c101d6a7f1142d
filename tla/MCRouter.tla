------------------------------ MODULE MCRouter ------------------------------
(***************************************************************************)
(* Four parts of the router that share no state here: the reverse lookup   *)
(* of rpcd, and beside it the configuration of the networks as the pages   *)
(* edit it, the bandwidth collector and the dispatcher of the web          *)
(* interface.  Each behaviour is one of a single part, the others rest in  *)
(* an initial state, so that their states add up instead of multiplying.   *)
(***************************************************************************)
EXTENDS RrDns, TLC

CONSTANTS
    Nets, ZoneNames, None, MaxZones, MaxRules,
    Readers, Slots, Patience, MaxTime,
    Parent, Pages, Hidden, Wildcards, Guarded, Groups

VARIABLES
    moves,
    ifaces, uses, zones, links, loaded, adding, orphans,
    pidfile, file, db, cli, printed, daemon, twoLived,
    menu, path, cookie, alive, resolved, answer

networkVars == <<ifaces, uses, zones, links, loaded, adding, orphans>>
graphVars == <<pidfile, file, db, cli, printed, daemon, twoLived>>
requestVars == <<menu, path, cookie, alive, resolved, answer>>

Network == INSTANCE NetworkConfig
Graph == INSTANCE Bandwidth
Dispatcher == INSTANCE Dispatch

ASSUME MCAssumption ==
    Network!NetworkAssumption /\ DnsAssumption /\ Graph!BandwidthAssumption /\ Dispatcher!TreeAssumption

(* A section of the menu with a page and a subsection with another page.   *)
MCParent == <<0, 1, 1, 3>>

(* The initial states in which the parts rest.                             *)
NetworkRests ==
    /\ ifaces = {} /\ uses = {} /\ zones = <<>> /\ links = {} /\ loaded = {}
    /\ adding = Network!NoDialog /\ orphans = {}

RequestRests ==
    /\ menu = [satisfied |-> [n \in DOMAIN Parent |-> TRUE], acl |-> [n \in DOMAIN Parent |-> {}],
               auth |-> [n \in Guarded |-> "none"]]
    /\ path = <<>> /\ cookie = {} /\ alive = TRUE /\ answer = "none"
    /\ resolved = [done |-> FALSE, path |-> <<>>, session |-> Dispatcher!NoSession]

RouterInit ==
    /\ moves \in {"network", "lookup", "graph", "request"}
    /\ IF moves = "network" THEN Network!Init ELSE NetworkRests
    /\ IF moves = "request" THEN Dispatcher!Init ELSE RequestRests
    /\ Init
    /\ moves # "lookup" => limit = 0 /\ ctx.rest = <<>>
    /\ Graph!Init
    /\ moves # "graph" => file = "missing"

RouterNext ==
    \/ moves = "network" /\ Network!Next /\ UNCHANGED <<moves, vars, graphVars, requestVars>>
    \/ moves = "lookup" /\ Next /\ UNCHANGED <<moves, networkVars, graphVars, requestVars>>
    \/ moves = "graph" /\ Graph!Next /\ UNCHANGED <<moves, networkVars, vars, requestVars>>
    \/ moves = "request" /\ Dispatcher!Next /\ UNCHANGED <<moves, networkVars, vars, graphVars>>

RouterSpec == RouterInit /\ [][RouterNext]_<<moves, networkVars, vars, graphVars, requestVars>>

-----------------------------------------------------------------------------
RouterTypeOK == TypeOK /\ Network!TypeOK /\ Graph!TypeOK /\ Dispatcher!TypeOK

(* Interfaces and zones that are referred to exist.                        *)
ReferencesResolve == Network!ReferencesResolve

(* A reader prints the samples in the order of their times.                *)
ReadersSeeOrder == Graph!ReadersSeeOrder

(* A page that runs was asked for and allowed.                             *)
PageIsAllowed == Dispatcher!PageIsAllowed

(* A page that was asked for and is allowed runs.                          *)
AllowedIsServed == Dispatcher!AllowedIsServed
=============================================================================
