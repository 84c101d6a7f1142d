--------------------------- MODULE NetworkConfig ---------------------------
(***************************************************************************)
(* Interfaces, firewall zones and what refers to them: network.js and      *)
(* firewall.js as the interface, wireless and zone views use them.  The    *)
(* references are names in four configurations, and nothing but these      *)
(* functions keeps them in step; what they do is one step of the edit      *)
(* layers each.                                                            *)
(*                                                                         *)
(* A new interface or zone is edited in a dialog, which removes it again   *)
(* when it is dismissed.  A failed save of the dialog has already written  *)
(* some of its options.                                                    *)
(***************************************************************************)
EXTENDS Integers, FiniteSets

CONSTANTS
    Nets,       \* names of interfaces
    ZoneNames,
    None,       \* no name
    MaxZones,   \* bound: zones ever added; sections are 1..MaxZones in order
    MaxRules    \* bound: rules and redirects; no view here adds one

NetworkAssumption == 
    None \notin ZoneNames /\ MaxZones \in Nat /\ MaxRules \in Nat

VARIABLES
    ifaces,    \* the interface sections of "network"
    uses,      \* pairs <<configuration, interface>>: routes, wireless networks, DHCP pools
    zones,     \* section -> name and networks
    links,     \* <<kind, src, dest>>: forwardings, and rules, which may lack either
    loaded,    \* which of "firewall" and "dhcp" could be loaded
    adding,    \* what is being added: <<"interface", n>>, <<"zone", z>> or NoDialog
    orphans    \* interfaces and zones, as in adding, that a dismissed dialog has removed

vars == <<ifaces, uses, zones, links, loaded, adding, orphans>>

Configs == {"network", "wireless", "dhcp"}
NoDialog == <<"none", 0>>
Zone == [name : ZoneNames \cup {None}, nets : SUBSET Nets]

ZonesNamed(zs, name) == {z \in DOMAIN zs : zs[z].name = name}
NamesOf(zs) == {zs[z].name : z \in DOMAIN zs} \ {None}
First(S) == CHOOSE z \in S : \A y \in S : z <= y
NextZone(zs) == 1 + Cardinality(DOMAIN zs)
Ways(names) == {w \in {"forwarding"} \X names \X names : w[2] # w[3]}
Without(zs, n) == [z \in DOMAIN zs |-> [zs[z] EXCEPT !.nets = @ \ {n}]]

Init ==
    /\ ifaces \in SUBSET Nets
    /\ uses = Configs \X ifaces
    /\ loaded \in SUBSET {"firewall", "dhcp"}
    /\ \E n \in 0..MaxZones : zones \in [1..n -> {z \in Zone : z.nets \subseteq ifaces}]
    /\ \A y, z \in DOMAIN zones : y # z => zones[y].nets \cap zones[z].nets = {}
    /\ \A y, z \in DOMAIN zones : y # z => zones[y].name # zones[z].name
    /\ \E fwds \in SUBSET Ways(NamesOf(zones)),
          rules \in SUBSET ({"rule"} \X (NamesOf(zones) \cup {None}) \X (NamesOf(zones) \cup {None})) :
         links = fwds \cup rules /\ Cardinality(rules) <= MaxRules
    /\ adding = NoDialog
    /\ orphans = {}

-----------------------------------------------------------------------------
(* The interface view: handleAdd() creates and saves the interface.        *)
AddInterface(n) ==
    /\ adding = NoDialog /\ n \notin ifaces
    /\ ifaces' = ifaces \cup {n}
    /\ adding' = <<"interface", n>>
    /\ orphans' = orphans \ {<<"interface", n>>}
    /\ UNCHANGED <<uses, zones, links, loaded>>

(* addZone() and Zone.addNetwork().                                        *)
Added(zs, n, name) ==
    IF ZonesNamed(zs, name) # {}
    THEN [zs EXCEPT ![First(ZonesNamed(zs, name))].nets = @ \cup {n}]
    ELSE [z \in 1..NextZone(zs) |->
            IF z \in DOMAIN zs THEN zs[z] ELSE [name |-> name, nets |-> {n}]]

Fits(zs) == Cardinality(DOMAIN zs) <= MaxZones

(* The option "_zone" takes the interface from the first zone that has it  *)
(* and adds it to another, or to a new one.  The dialog stays open if      *)
(* another of its options is rejected.                                     *)
SetZone(n, name) ==
    LET old == {z \in DOMAIN zones : n \in zones[z].nets}
        rest == IF old = {} THEN zones
                ELSE [zones EXCEPT ![First(old)].nets = @ \ {n}]
    IN  /\ adding \in {NoDialog, <<"interface", n>>}
        /\ n \in ifaces /\ "firewall" \in loaded
        /\ old # {} /\ name # None => zones[First(old)].name # name
        /\ zones' = IF name = None THEN rest ELSE Added(rest, n, name)
        /\ Fits(zones')
        /\ adding' \in {adding, NoDialog}
        /\ UNCHANGED <<ifaces, uses, links, loaded, orphans>>

(* "Set up DHCP Server" in the dialog of an interface, and the option      *)
(* "interface" of a route, which offers interfaces that exist.             *)
Use(config, n) ==
    /\ n \in ifaces
    /\ \/ config = "dhcp" /\ "dhcp" \in loaded /\ adding \in {NoDialog, <<"interface", n>>}
       \/ config = "network" /\ adding = NoDialog
    /\ uses' = uses \cup {<<config, n>>}
    /\ UNCHANGED <<ifaces, zones, links, loaded, adding, orphans>>

(* What network.deleteNetwork() leaves of the references to interface n:   *)
(* those in a configuration that could not be loaded.                      *)
Unused(n) ==
    {u \in uses : u[2] # n \/ (u[1] = "dhcp" /\ "dhcp" \notin loaded)}

(* handleRemove(): deleteNetwork() of network.js and of firewall.js.       *)
DeleteInterface(n) ==
    /\ adding = NoDialog /\ n \in ifaces
    /\ ifaces' = ifaces \ {n}
    /\ uses' = Unused(n)
    /\ zones' = IF "firewall" \in loaded THEN Without(zones, n) ELSE zones
    /\ UNCHANGED <<links, loaded, adding, orphans>>

(* The wireless view joins a network under a new interface.                *)
Join(n, replace, name) ==
    LET kept == IF replace THEN {u \in uses : u[1] # "wireless"} ELSE uses
    IN  /\ adding = NoDialog /\ n \notin ifaces
        /\ name # None => "firewall" \in loaded
        /\ uses' = kept \cup {<<"wireless", n>>}
        /\ ifaces' = ifaces \cup {n}
        /\ zones' = IF "firewall" \notin loaded THEN zones
                    ELSE IF name = None THEN Without(zones, n)
                    ELSE Added(Without(zones, n), n, name)
        /\ Fits(zones')
        /\ orphans' = orphans \ {<<"interface", n>>}
        /\ UNCHANGED <<links, loaded, adding>>

-----------------------------------------------------------------------------
(* The zone view.                                                          *)
AddZone ==
    /\ adding = NoDialog /\ "firewall" \in loaded
    /\ zones' = [z \in 1..NextZone(zones) |->
                   IF z \in DOMAIN zones THEN zones[z] ELSE [name |-> None, nets |-> {}]]
    /\ Fits(zones')
    /\ adding' = <<"zone", NextZone(zones)>>
    /\ UNCHANGED <<ifaces, uses, links, loaded, orphans>>

(* Mutant of Renamed: renameZone() only renames what comes from the zone.  *)
RenamedSource(ls, old, new) ==
    {<<l[1], IF l[2] = old THEN new ELSE l[2], l[3]>> : l \in ls}

(* renameZone() in rules, redirects and forwardings.                       *)
Renamed(ls, old, new) ==
    {<<l[1], IF l[2] = old THEN new ELSE l[2], IF l[3] = old THEN new ELSE l[3]>> : l \in ls}

(* What the options "out" and "in" of zone z offer.                        *)
Others(z) == NamesOf(zones) \ {zones[z].name}

(* The options "out" and "in" of the zone called name.                     *)
Forwarded(name, dests, sources) ==
    {l \in links : l[1] = "rule" \/ name \notin {l[2], l[3]}} \cup
    {w \in Ways(NamesOf(zones) \cup {name}) :
        (w[2] = name /\ w[3] \in dests) \/ (w[3] = name /\ w[2] \in sources)}

(* The dialog of zone z is saved.  The name of a new zone is set at once   *)
(* and may be that of another; a zone that has a name is renamed by a      *)
(* promise that runs after the forwardings are written and before the      *)
(* networks are, for which the zone is looked up by its old name: they     *)
(* stay as they are.                                                       *)
EditZone(z, name, nets, dests, sources) ==
    LET old == zones[z].name
        rename == old # None /\ name # old /\ ZonesNamed(zones, name) = {}
        current == IF old = None THEN name ELSE old
        named == [y \in DOMAIN zones |->
            IF (old = None /\ y = z) \/ (rename /\ zones[y].name = old)
            THEN [zones[y] EXCEPT !.name = name] ELSE zones[y]]
    IN  /\ adding \in {NoDialog, <<"zone", z>>}
        /\ "firewall" \in loaded
        /\ links' = IF rename THEN Renamed(Forwarded(current, dests, sources), old, name)
                    ELSE Forwarded(current, dests, sources)
        /\ ifaces' = IF nets # zones[z].nets THEN ifaces \cup nets ELSE ifaces
        /\ zones' = IF nets = zones[z].nets \/ rename THEN named
                    ELSE [named EXCEPT ![First(ZonesNamed(named, current))].nets = nets]
        /\ orphans' = orphans \ ({"interface"} \X ifaces')
        /\ adding' \in {adding, NoDialog}
        /\ UNCHANGED <<uses, loaded>>

(* The zones are numbered anew; their order is all that matters.           *)
Removed(zs, z) ==
    [y \in 1..(Cardinality(DOMAIN zs) - 1) |-> IF y < z THEN zs[y] ELSE zs[y + 1]]

(* deleteZone() deletes what names the zone.  An unnamed zone deletes what *)
(* lacks a source or a destination, as undefined equals undefined.         *)
DeleteZone(z) ==
    /\ adding = NoDialog /\ "firewall" \in loaded
    /\ zones' = Removed(zones, z)
    /\ links' = {l \in links : zones[z].name \notin {l[2], l[3]}}
    /\ UNCHANGED <<ifaces, uses, loaded, adding, orphans>>

-----------------------------------------------------------------------------
(* handleModalCancel() removes the section that was added, and no more.    *)
Dismiss ==
    /\ adding' = NoDialog
    /\ \/ adding[1] = "interface"
          /\ ifaces' = ifaces \ {adding[2]}
          /\ orphans' = orphans \cup {adding}
          /\ UNCHANGED zones
       \/ adding[1] = "zone"
          /\ zones' = Removed(zones, adding[2])
          /\ orphans' = orphans \cup {<<"zone", zones[adding[2]].name>>}
          /\ UNCHANGED ifaces
    /\ UNCHANGED <<uses, links, loaded>>

Next ==
    \/ \E n \in Nets :
          \/ AddInterface(n) \/ DeleteInterface(n) \/ Use("dhcp", n) \/ Use("network", n)
          \/ \E name \in ZoneNames \cup {None} :
                SetZone(n, name) \/ \E replace \in BOOLEAN : Join(n, replace, name)
    \/ \E z \in DOMAIN zones :
          \/ DeleteZone(z)
          \/ \E name \in ZoneNames, nets \in SUBSET Nets,
                dests \in SUBSET Others(z), sources \in SUBSET Others(z) :
                EditZone(z, name, nets, dests, sources)
    \/ AddZone
    \/ Dismiss

Spec == Init /\ [][Next]_vars

-----------------------------------------------------------------------------
TypeOK ==
    /\ ifaces \subseteq Nets
    /\ uses \subseteq Configs \X Nets
    /\ \E n \in 0..MaxZones : zones \in [1..n -> Zone]
    /\ links \subseteq {"forwarding", "rule"} \X (ZoneNames \cup {None}) \X (ZoneNames \cup {None})
    /\ loaded \subseteq {"firewall", "dhcp"}
    /\ adding \in {NoDialog} \cup ({"interface"} \X Nets) \cup ({"zone"} \X (1..MaxZones))
    /\ orphans \subseteq ({"interface"} \X Nets) \cup ({"zone"} \X (ZoneNames \cup {None}))

Orphaned(kind) == {o[2] : o \in {p \in orphans : p[1] = kind}}

(* Every interface and every zone that is referred to exists, in whatever  *)
(* order the views add, rename, edit and delete them, except what could    *)
(* not be loaded and what a dismissed dialog has left behind.              *)
ReferencesResolve ==
    LET known == ifaces \cup Orphaned("interface")
        named == NamesOf(zones) \cup Orphaned("zone")
    IN  /\ \A u \in uses : u[2] \in known \/ (u[1] = "dhcp" /\ "dhcp" \notin loaded)
        /\ "firewall" \in loaded => \A z \in DOMAIN zones : zones[z].nets \subseteq known
        /\ \A l \in links : {l[2], l[3]} \subseteq named \cup {None}
=============================================================================
