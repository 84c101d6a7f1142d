---------------------------- MODULE RouterProofs ----------------------------
(***************************************************************************)
(* Proofs about the parts of the router that MCRouter puts side by side:   *)
(* each part keeps its own specification, so what holds of a part holds of *)
(* the whole.                                                              *)
(***************************************************************************)
EXTENDS MCRouter, FiniteSetTheorems, InductionLemmas

routerVars == <<moves, networkVars, vars, graphVars, requestVars>>

-----------------------------------------------------------------------------
(* Interfaces, zones and what refers to them (NetworkConfig)               *)

\* What a reference may name.
KnownIfaces == ifaces \cup Network!Orphaned("interface")
KnownZones == Network!NamesOf(zones) \cup Network!Orphaned("zone") \cup {None}

UsesResolve == \A u \in uses : u[2] \in KnownIfaces \/ (u[1] = "dhcp" /\ "dhcp" \notin loaded)
NetsResolve ==
    "firewall" \in loaded => \A z \in DOMAIN zones : zones[z].nets \subseteq KnownIfaces
LinksResolve == \A l \in links : l[2] \in KnownZones /\ l[3] \in KnownZones

\* A zone that is being added is there.
AddingIsThere == adding[1] = "zone" => adding[2] \in DOMAIN zones

NetworkInv == Network!TypeOK /\ AddingIsThere /\ UsesResolve /\ NetsResolve /\ LinksResolve

LEMMA InvMeansResolve == NetworkInv => ReferencesResolve
BY DEF NetworkInv, UsesResolve, NetsResolve, LinksResolve, KnownIfaces, KnownZones,
   ReferencesResolve, Network!ReferencesResolve

LEMMA SameCardinality == \A S : Network!Cardinality(S) = Cardinality(S)
BY DEF Network!Cardinality, Cardinality

\* The sections of the firewall are numbered from one.
LEMMA Sections ==
  ASSUME NEW n \in Nat, NEW zs \in [1..n -> Network!Zone]
  PROVE  /\ Network!NextZone(zs) = n + 1
         /\ Network!Cardinality(DOMAIN zs) = n
BY SameCardinality, FS_Interval DEF Network!NextZone

\* A list that satisfies Fits has a number of sections within the bound.
LEMMA Fitting ==
  ASSUME NEW n \in Nat, NEW zs \in [1..n -> Network!Zone], Network!Fits(zs), MaxZones \in Nat
  PROVE  \E k \in 0..MaxZones : zs \in [1..k -> Network!Zone]
BY Sections DEF Network!Fits

\* A zone removed leaves the others, with their names and networks.
LEMMA Removing ==
  ASSUME NEW n \in Nat, NEW zs \in [1..n -> Network!Zone], NEW z \in 1..n
  PROVE  /\ Network!Removed(zs, z) \in [1..(n - 1) -> Network!Zone]
         /\ \A y \in 1..(n - 1) : \E x \in 1..n : Network!Removed(zs, z)[y] = zs[x]
         /\ \A x \in 1..n : x # z => \E y \in 1..(n - 1) : Network!Removed(zs, z)[y] = zs[x]
<1> DEFINE rs == Network!Removed(zs, z)
<1>1. rs = [y \in 1..(n - 1) |-> IF y < z THEN zs[y] ELSE zs[y + 1]]
  BY Sections DEF Network!Removed
<1>2. rs \in [1..(n - 1) -> Network!Zone]
  BY <1>1
<1>3. \A y \in 1..(n - 1) : \E x \in 1..n : rs[y] = zs[x]
  BY <1>1
<1>4. ASSUME NEW x \in 1..n, x # z PROVE \E y \in 1..(n - 1) : rs[y] = zs[x]
  <2>1. CASE x < z
    BY <1>1, <2>1
  <2>2. CASE x > z
    <3>1. x - 1 \in 1..(n - 1) /\ ~(x - 1 < z) /\ (x - 1) + 1 = x
      BY <2>2
    <3> QED BY <1>1, <3>1
  <2> QED BY <1>4, <2>1, <2>2
<1> QED BY <1>2, <1>3, <1>4

\* addZone() and addNetwork() keep the names and add the network to one zone.
LEMMA AddingNet ==
  ASSUME NEW n \in Nat, NEW zs \in [1..n -> Network!Zone],
         NEW net \in Nets, NEW name \in ZoneNames
  PROVE  LET as == Network!Added(zs, net, name)
         IN  \E k \in Nat : /\ n <= k
                            /\ as \in [1..k -> Network!Zone]
                            /\ Network!NamesOf(zs) \subseteq Network!NamesOf(as)
                            /\ \A z \in 1..k : \A m \in as[z].nets :
                                  m = net \/ \E y \in 1..n : m \in zs[y].nets
<1> DEFINE as == Network!Added(zs, net, name)
           named == Network!ZonesNamed(zs, name)
           first == Network!First(named)
<1>1. CASE named # {}
  <2>1. as = [zs EXCEPT ![first].nets = @ \cup {net}]
    BY <1>1 DEF Network!Added
  <2>2. /\ as \in [1..n -> Network!Zone]
        /\ \A z \in 1..n : as[z].name = zs[z].name /\ as[z].nets \subseteq {net} \cup zs[z].nets
    <3>1. ASSUME NEW z \in 1..n
          PROVE  /\ as[z] \in Network!Zone /\ as[z].name = zs[z].name
                 /\ as[z].nets \subseteq {net} \cup zs[z].nets
      <4>1. zs[z] \in [name : ZoneNames \cup {None}, nets : SUBSET Nets]
        BY DEF Network!Zone
      <4>2. as[z] = IF z = first THEN [zs[z] EXCEPT !.nets = @ \cup {net}] ELSE zs[z]
        BY <2>1
      <4> QED BY <4>1, <4>2 DEF Network!Zone
    <3>2. as = [z \in 1..n |-> as[z]]
      BY <2>1
    <3> QED BY <3>1, <3>2
  <2>3. Network!NamesOf(as) = Network!NamesOf(zs)
    BY <2>2 DEF Network!NamesOf
  <2>4. \A z \in 1..n : \A m \in as[z].nets : m = net \/ m \in zs[z].nets
    BY <2>2
  <2> QED BY <2>2, <2>3, <2>4
<1>2. CASE named = {}
  <2>1. as = [z \in 1..(n + 1) |-> IF z \in 1..n THEN zs[z] ELSE [name |-> name, nets |-> {net}]]
    BY <1>2, Sections DEF Network!Added
  <2>2. as \in [1..(n + 1) -> Network!Zone]
    BY <2>1 DEF Network!Zone
  <2>3. \A z \in 1..n : as[z] = zs[z]
    BY <2>1
  <2>4. Network!NamesOf(zs) \subseteq Network!NamesOf(as)
    BY <2>2, <2>3 DEF Network!NamesOf
  <2>5. \A z \in 1..(n + 1) : \A m \in as[z].nets : m = net \/ \E y \in 1..n : m \in zs[y].nets
    BY <2>1
  <2> QED BY <2>2, <2>4, <2>5
<1> QED BY <1>1, <1>2

\* What is orphaned, as long as nothing of that kind is adopted.
LEMMA Orphans ==
  ASSUME NEW kind, NEW name
  PROVE  /\ name \in Network!Orphaned(kind) <=> \E o \in orphans : o[1] = kind /\ o[2] = name
         /\ name \in Network!Orphaned(kind)' <=> \E o \in orphans' : o[1] = kind /\ o[2] = name
BY DEF Network!Orphaned

LEMMA NetworkStart == Network!Init => NetworkInv
<1> SUFFICES ASSUME Network!Init PROVE NetworkInv
  OBVIOUS
<1>1. PICK n \in 0..MaxZones : zones \in [1..n -> {z \in Network!Zone : z.nets \subseteq ifaces}]
  BY DEF Network!Init
<1>2. zones \in [1..n -> Network!Zone]
  BY <1>1
<1>3. \A z \in DOMAIN zones : zones[z].name \in ZoneNames \cup {None}
  BY <1>2 DEF Network!Zone
<1>4. Network!NamesOf(zones) \subseteq ZoneNames
  BY <1>3 DEF Network!NamesOf
<1>5. PICK fwds \in SUBSET Network!Ways(Network!NamesOf(zones)),
           rules \in SUBSET ({"rule"} \X (Network!NamesOf(zones) \cup {None})
                                     \X (Network!NamesOf(zones) \cup {None})) :
        links = fwds \cup rules
  BY DEF Network!Init
<1>6. links \subseteq {"forwarding", "rule"} \X (Network!NamesOf(zones) \cup {None})
                                            \X (Network!NamesOf(zones) \cup {None})
  BY <1>5 DEF Network!Ways
<1>7. Network!TypeOK
  BY <1>1, <1>2, <1>4, <1>6 DEF Network!Init, Network!TypeOK, Network!NoDialog
<1>8. UsesResolve /\ NetsResolve
  BY <1>1 DEF Network!Init, UsesResolve, NetsResolve, KnownIfaces
<1>9. LinksResolve
  BY <1>6 DEF LinksResolve, KnownZones
<1>10. AddingIsThere
  BY DEF Network!Init, AddingIsThere, Network!NoDialog
<1> QED BY <1>7, <1>8, <1>9, <1>10 DEF NetworkInv

\* Steps that leave the zones alone.
LEMMA InterfaceSteps ==
  ASSUME NetworkInv, NEW n \in Nets,
         Network!AddInterface(n) \/ Network!Use("dhcp", n) \/ Network!Use("network", n)
  PROVE  NetworkInv'
<1>a. Network!TypeOK /\ AddingIsThere /\ UsesResolve /\ NetsResolve /\ LinksResolve
  BY DEF NetworkInv
<1>1. Network!TypeOK'
  BY <1>a DEF Network!TypeOK, Network!AddInterface, Network!Use, Network!Configs
<1>2. KnownIfaces \subseteq KnownIfaces' /\ KnownZones' = KnownZones
  BY Orphans DEF KnownIfaces, KnownZones, Network!AddInterface, Network!Use, Network!NamesOf
<1>3. AddingIsThere' /\ zones' = zones /\ links' = links /\ loaded' = loaded
  BY <1>a DEF AddingIsThere, Network!AddInterface, Network!Use
<1>4. \A u \in uses' : u \in uses \/ u[2] \in ifaces'
  BY DEF Network!AddInterface, Network!Use
<1> QED
  BY <1>a, <1>1, <1>2, <1>3, <1>4 DEF NetworkInv, UsesResolve, NetsResolve, LinksResolve, KnownIfaces

LEMMA SetZoneStep ==
  ASSUME NetworkInv, MaxZones \in Nat, NEW n \in Nets, NEW name \in ZoneNames \cup {None},
         Network!SetZone(n, name)
  PROVE  NetworkInv'
<1>a. Network!TypeOK /\ AddingIsThere /\ UsesResolve /\ NetsResolve /\ LinksResolve
  BY DEF NetworkInv
<1> DEFINE old == {z \in DOMAIN zones : n \in zones[z].nets}
           rest == IF old = {} THEN zones ELSE [zones EXCEPT ![Network!First(old)].nets = @ \ {n}]
<1>1. /\ n \in ifaces /\ "firewall" \in loaded /\ adding \in {Network!NoDialog, <<"interface", n>>}
      /\ zones' = IF name = None THEN rest ELSE Network!Added(rest, n, name)
      /\ Network!Fits(zones') /\ adding' \in {adding, Network!NoDialog}
      /\ UNCHANGED <<ifaces, uses, links, loaded, orphans>>
  BY DEF Network!SetZone
<1>2. PICK k \in 0..MaxZones : zones \in [1..k -> Network!Zone]
  BY <1>a DEF Network!TypeOK
<1>3. /\ rest \in [1..k -> Network!Zone]
      /\ \A z \in 1..k : rest[z].name = zones[z].name /\ rest[z].nets \subseteq zones[z].nets
  <2>1. ASSUME NEW z \in 1..k
        PROVE  /\ rest[z] \in Network!Zone /\ rest[z].name = zones[z].name
               /\ rest[z].nets \subseteq zones[z].nets
    <3>1. zones[z] \in [name : ZoneNames \cup {None}, nets : SUBSET Nets]
      BY <1>2 DEF Network!Zone
    <3>2. CASE rest[z] = zones[z]
      BY <1>2, <3>2
    <3>3. CASE rest[z] = [zones[z] EXCEPT !.nets = @ \ {n}]
      <4> HIDE DEF rest
      <4> QED BY <3>1, <3>3 DEF Network!Zone
    <3> QED BY <1>2, <3>2, <3>3
  <2>2. rest = [z \in 1..k |-> rest[z]]
    BY <1>2
  <2> QED BY <2>1, <2>2
<1>b. k \in Nat
  BY <1>2
<1> HIDE DEF rest
<1>4. Network!NamesOf(rest) = Network!NamesOf(zones)
  BY <1>2, <1>3 DEF Network!NamesOf
<1>5. \E j \in Nat : /\ zones' \in [1..j -> Network!Zone]
                     /\ Network!NamesOf(zones) \subseteq Network!NamesOf(zones')
                     /\ \A z \in 1..j : \A m \in zones'[z].nets :
                           m = n \/ \E y \in 1..k : m \in zones[y].nets
  <2>1. CASE name = None
    BY <1>1, <1>3, <1>4, <1>b, <2>1
  <2>2. CASE name # None
    <3>1. name \in ZoneNames /\ zones' = Network!Added(rest, n, name)
      BY <1>1, <2>2
    <3>2. PICK j \in Nat : /\ zones' \in [1..j -> Network!Zone]
                           /\ Network!NamesOf(rest) \subseteq Network!NamesOf(zones')
                           /\ \A z \in 1..j : \A m \in zones'[z].nets :
                                 m = n \/ \E y \in 1..k : m \in rest[y].nets
      BY <1>3, <1>b, <3>1, AddingNet
    <3> QED BY <1>3, <1>4, <3>2
  <2> QED BY <2>1, <2>2
<1>6. \E j \in 0..MaxZones : zones' \in [1..j -> Network!Zone]
  <2>1. PICK j \in Nat : zones' \in [1..j -> Network!Zone]
    BY <1>5
  <2>2. Network!Fits(zones')
    BY <1>1
  <2> QED BY <2>1, <2>2, Fitting
<1>7. Network!TypeOK'
  BY <1>a, <1>1, <1>6 DEF Network!TypeOK
<1>8. AddingIsThere'
  BY <1>1 DEF AddingIsThere, Network!NoDialog
<1>9. KnownIfaces' = KnownIfaces /\ n \in KnownIfaces /\ KnownZones \subseteq KnownZones'
  BY <1>1, <1>5 DEF KnownIfaces, KnownZones, Network!Orphaned
<1>10. UsesResolve' /\ LinksResolve'
  BY <1>a, <1>1, <1>9 DEF UsesResolve, LinksResolve
<1>11. NetsResolve'
  BY <1>a, <1>1, <1>2, <1>5, <1>9 DEF NetsResolve
<1> QED BY <1>7, <1>8, <1>10, <1>11 DEF NetworkInv

\* A network taken out of all zones leaves their names.
LEMMA TakingNet ==
  ASSUME NEW k \in Nat, NEW zs \in [1..k -> Network!Zone], NEW n
  PROVE  /\ Network!Without(zs, n) \in [1..k -> Network!Zone]
         /\ Network!NamesOf(Network!Without(zs, n)) = Network!NamesOf(zs)
         /\ \A z \in 1..k : Network!Without(zs, n)[z].nets = zs[z].nets \ {n}
<1> DEFINE ws == Network!Without(zs, n)
<1>1. ws = [z \in 1..k |-> [zs[z] EXCEPT !.nets = @ \ {n}]]
  BY DEF Network!Without
<1>2. ASSUME NEW z \in 1..k
      PROVE  ws[z] \in Network!Zone /\ ws[z].name = zs[z].name /\ ws[z].nets = zs[z].nets \ {n}
  <2>1. zs[z] \in [name : ZoneNames \cup {None}, nets : SUBSET Nets]
    BY DEF Network!Zone
  <2>2. ws[z] = [zs[z] EXCEPT !.nets = @ \ {n}]
    BY <1>1
  <2> QED BY <2>1, <2>2 DEF Network!Zone
<1>3. ws = [z \in 1..k |-> ws[z]]
  BY <1>1
<1> HIDE DEF ws
<1>4. ws \in [1..k -> Network!Zone]
  BY <1>2, <1>3
<1>5. Network!NamesOf(ws) = Network!NamesOf(zs)
  BY <1>2, <1>4 DEF Network!NamesOf
<1> QED BY <1>2, <1>4, <1>5 DEF ws

LEMMA DeleteInterfaceStep ==
  ASSUME NetworkInv, MaxZones \in Nat, NEW n \in Nets, Network!DeleteInterface(n)
  PROVE  NetworkInv'
<1>a. Network!TypeOK /\ AddingIsThere /\ UsesResolve /\ NetsResolve /\ LinksResolve
  BY DEF NetworkInv
<1>1. PICK k \in 0..MaxZones : zones \in [1..k -> Network!Zone]
  BY <1>a DEF Network!TypeOK
<1>2. /\ ifaces' = ifaces \ {n} /\ uses' = Network!Unused(n)
      /\ zones' = IF "firewall" \in loaded THEN Network!Without(zones, n) ELSE zones
      /\ UNCHANGED <<links, loaded, adding, orphans>>
  BY DEF Network!DeleteInterface
<1>3. zones' \in [1..k -> Network!Zone] /\ Network!NamesOf(zones') = Network!NamesOf(zones)
  BY <1>1, <1>2, TakingNet
<1>4. "firewall" \in loaded => \A z \in 1..k : zones'[z].nets = zones[z].nets \ {n}
  BY <1>1, <1>2, TakingNet
<1>5. KnownIfaces \ {n} \subseteq KnownIfaces' /\ KnownZones' = KnownZones
  BY <1>2, <1>3 DEF KnownIfaces, KnownZones, Network!Orphaned
<1>6. Network!TypeOK'
  BY <1>a, <1>1, <1>2, <1>3 DEF Network!TypeOK, Network!Unused
<1>7. AddingIsThere'
  BY <1>a, <1>1, <1>2, <1>3 DEF AddingIsThere
<1>8. UsesResolve' /\ LinksResolve'
  BY <1>a, <1>2, <1>5 DEF UsesResolve, LinksResolve, Network!Unused
<1>9. NetsResolve'
  BY <1>a, <1>1, <1>2, <1>3, <1>4, <1>5 DEF NetsResolve
<1> QED BY <1>6, <1>7, <1>8, <1>9 DEF NetworkInv

LEMMA JoinStep ==
  ASSUME NetworkInv, MaxZones \in Nat, NEW n \in Nets, NEW name \in ZoneNames \cup {None},
         NEW replace \in BOOLEAN, Network!Join(n, replace, name)
  PROVE  NetworkInv'
<1>a. Network!TypeOK /\ AddingIsThere /\ UsesResolve /\ NetsResolve /\ LinksResolve
  BY DEF NetworkInv
<1>1. PICK k \in 0..MaxZones : zones \in [1..k -> Network!Zone]
  BY <1>a DEF Network!TypeOK
<1>b. k \in Nat
  BY <1>1
<1>2. /\ adding = Network!NoDialog /\ n \notin ifaces
      /\ name # None => "firewall" \in loaded
      /\ uses' \subseteq uses \cup {<<"wireless", n>>}
      /\ ifaces' = ifaces \cup {n}
      /\ zones' = IF "firewall" \notin loaded THEN zones
                  ELSE IF name = None THEN Network!Without(zones, n)
                  ELSE Network!Added(Network!Without(zones, n), n, name)
      /\ Network!Fits(zones')
      /\ orphans' = orphans \ {<<"interface", n>>}
      /\ UNCHANGED <<links, loaded, adding>>
  BY DEF Network!Join
<1>3. \E j \in Nat : /\ zones' \in [1..j -> Network!Zone]
                     /\ Network!NamesOf(zones) \subseteq Network!NamesOf(zones')
                     /\ \A z \in 1..j : \A m \in zones'[z].nets :
                           m = n \/ \E y \in 1..k : m \in zones[y].nets
  <2> DEFINE rest == Network!Without(zones, n)
  <2>1. /\ rest \in [1..k -> Network!Zone] /\ Network!NamesOf(rest) = Network!NamesOf(zones)
        /\ \A z \in 1..k : rest[z].nets = zones[z].nets \ {n}
    BY <1>1, <1>b, TakingNet
  <2> HIDE DEF rest
  <2>2. CASE zones' = zones
    BY <1>1, <1>b, <2>2
  <2>3. CASE zones' = rest
    BY <1>b, <2>1, <2>3
  <2>4. CASE name \in ZoneNames /\ zones' = Network!Added(rest, n, name)
    <3>1. PICK j \in Nat : /\ zones' \in [1..j -> Network!Zone]
                           /\ Network!NamesOf(rest) \subseteq Network!NamesOf(zones')
                           /\ \A z \in 1..j : \A m \in zones'[z].nets :
                                 m = n \/ \E y \in 1..k : m \in rest[y].nets
      BY <1>b, <2>1, <2>4, AddingNet
    <3> QED BY <2>1, <3>1, SMTT(40)
  <2> QED BY ONLY <1>2, <2>2, <2>3, <2>4 DEF rest
<1>4. \E j \in 0..MaxZones : zones' \in [1..j -> Network!Zone]
  <2>1. PICK j \in Nat : zones' \in [1..j -> Network!Zone]
    BY <1>3
  <2>2. Network!Fits(zones')
    BY <1>2
  <2> QED BY <2>1, <2>2, Fitting
<1>5. Network!TypeOK'
  BY <1>a, <1>2, <1>4 DEF Network!TypeOK, Network!Configs
<1>6. AddingIsThere'
  BY <1>2 DEF AddingIsThere, Network!NoDialog
<1>7. Network!Orphaned("zone")' = Network!Orphaned("zone")
      /\ \A m \in Network!Orphaned("interface") : m = n \/ m \in Network!Orphaned("interface")'
  BY <1>2 DEF Network!Orphaned
<1>8. KnownIfaces \subseteq KnownIfaces' /\ n \in KnownIfaces' /\ KnownZones \subseteq KnownZones'
  BY <1>2, <1>3, <1>7 DEF KnownIfaces, KnownZones
<1>9. UsesResolve' /\ LinksResolve'
  BY <1>a, <1>2, <1>8 DEF UsesResolve, LinksResolve
<1>10. NetsResolve'
  BY <1>a, <1>1, <1>2, <1>3, <1>8 DEF NetsResolve
<1> QED BY <1>5, <1>6, <1>9, <1>10 DEF NetworkInv

LEMMA AddZoneStep ==
  ASSUME NetworkInv, MaxZones \in Nat, Network!AddZone
  PROVE  NetworkInv'
<1>a. Network!TypeOK /\ AddingIsThere /\ UsesResolve /\ NetsResolve /\ LinksResolve
  BY DEF NetworkInv
<1>1. PICK k \in 0..MaxZones : zones \in [1..k -> Network!Zone]
  BY <1>a DEF Network!TypeOK
<1>b. k \in Nat
  BY <1>1
<1>2. /\ zones' = [z \in 1..(k + 1) |-> IF z \in 1..k THEN zones[z] ELSE [name |-> None, nets |-> {}]]
      /\ Network!Fits(zones') /\ adding' = <<"zone", k + 1>>
      /\ UNCHANGED <<ifaces, uses, links, loaded, orphans>>
  BY <1>1, <1>b, Sections DEF Network!AddZone
<1>3. zones' \in [1..(k + 1) -> Network!Zone] /\ \A z \in 1..k : zones'[z] = zones[z]
  BY <1>1, <1>2 DEF Network!Zone
<1>4. k + 1 \in 1..MaxZones
  <2>1. k + 1 \in Nat
    BY <1>b
  <2>2. Network!Cardinality(DOMAIN zones') = k + 1
    BY <1>3, <2>1, Sections
  <2> QED BY <1>b, <1>2, <2>2 DEF Network!Fits
<1>5. Network!NamesOf(zones) \subseteq Network!NamesOf(zones')
  BY <1>1, <1>3 DEF Network!NamesOf
<1>6. Network!TypeOK'
  <2>1. \E j \in 0..MaxZones : zones' \in [1..j -> Network!Zone]
    BY <1>3, <1>4
  <2>2. adding' \in {"zone"} \X (1..MaxZones)
    BY <1>2, <1>4
  <2> QED BY <1>a, <1>2, <2>1, <2>2 DEF Network!TypeOK
<1>7. AddingIsThere'
  BY <1>b, <1>2 DEF AddingIsThere
<1>8. KnownIfaces' = KnownIfaces /\ KnownZones \subseteq KnownZones'
  BY <1>2, <1>5 DEF KnownIfaces, KnownZones, Network!Orphaned
<1>9. UsesResolve' /\ LinksResolve'
  BY <1>a, <1>2, <1>8 DEF UsesResolve, LinksResolve
<1>10. NetsResolve'
  BY <1>a, <1>1, <1>2, <1>8 DEF NetsResolve
<1> QED BY <1>6, <1>7, <1>9, <1>10 DEF NetworkInv

\* A zone removed takes its name with it, unless another zone has it too.
LEMMA RemovedNames ==
  ASSUME NEW k \in Nat, NEW zs \in [1..k -> Network!Zone], NEW z \in 1..k
  PROVE  Network!NamesOf(zs) \ {zs[z].name} \subseteq Network!NamesOf(Network!Removed(zs, z))
<1> DEFINE rs == Network!Removed(zs, z)
<1>1. /\ rs \in [1..(k - 1) -> Network!Zone]
      /\ \A x \in 1..k : x # z => \E y \in 1..(k - 1) : rs[y] = zs[x]
  BY Removing
<1> HIDE DEF rs
<1>2. \A m \in Network!NamesOf(zs) \ {zs[z].name} : \E x \in 1..k : x # z /\ zs[x].name = m /\ m # None
  BY DEF Network!NamesOf
<1>3. \A m \in Network!NamesOf(zs) \ {zs[z].name} :
        \E y \in 1..(k - 1) : rs[y].name = m /\ m # None
  BY <1>1, <1>2
<1> QED BY <1>1, <1>3 DEF rs, Network!NamesOf

LEMMA DeleteZoneStep ==
  ASSUME NetworkInv, MaxZones \in Nat, NEW z \in DOMAIN zones, Network!DeleteZone(z)
  PROVE  NetworkInv'
<1>a. Network!TypeOK /\ AddingIsThere /\ UsesResolve /\ NetsResolve /\ LinksResolve
  BY DEF NetworkInv
<1>1. PICK k \in 0..MaxZones : zones \in [1..k -> Network!Zone]
  BY <1>a DEF Network!TypeOK
<1>b. k \in Nat /\ z \in 1..k
  BY <1>1
<1>2. /\ adding = Network!NoDialog /\ zones' = Network!Removed(zones, z)
      /\ links' = {l \in links : zones[z].name \notin {l[2], l[3]}}
      /\ UNCHANGED <<ifaces, uses, loaded, adding, orphans>>
  BY DEF Network!DeleteZone
<1>3. /\ zones' \in [1..(k - 1) -> Network!Zone]
      /\ \A y \in 1..(k - 1) : \E x \in 1..k : zones'[y] = zones[x]
  BY <1>1, <1>b, <1>2, Removing
<1>4. Network!NamesOf(zones) \ {zones[z].name} \subseteq Network!NamesOf(zones')
  BY <1>1, <1>b, <1>2, RemovedNames
<1>5. Network!TypeOK'
  <2>1. k - 1 \in 0..MaxZones
    BY <1>1, <1>b
  <2>2. \E j \in 0..MaxZones : zones' \in [1..j -> Network!Zone]
    BY <1>3, <2>1
  <2> QED BY <1>a, <1>2, <2>2 DEF Network!TypeOK
<1>6. AddingIsThere'
  BY <1>2 DEF AddingIsThere, Network!NoDialog
<1>7. KnownIfaces' = KnownIfaces /\ KnownZones \ {zones[z].name} \subseteq KnownZones'
  BY <1>2, <1>4 DEF KnownIfaces, KnownZones, Network!Orphaned
<1>8. UsesResolve'
  BY <1>a, <1>2, <1>7 DEF UsesResolve
<1>9. LinksResolve'
  BY <1>a, <1>2, <1>7 DEF LinksResolve
<1>10. NetsResolve'
  BY <1>a, <1>1, <1>2, <1>3, <1>7 DEF NetsResolve
<1> QED BY <1>5, <1>6, <1>8, <1>9, <1>10 DEF NetworkInv

LEMMA DismissStep ==
  ASSUME NetworkInv, MaxZones \in Nat, Network!Dismiss
  PROVE  NetworkInv'
<1>a. Network!TypeOK /\ AddingIsThere /\ UsesResolve /\ NetsResolve /\ LinksResolve
  BY DEF NetworkInv
<1>1. PICK k \in 0..MaxZones : zones \in [1..k -> Network!Zone]
  BY <1>a DEF Network!TypeOK
<1>b. k \in Nat
  BY <1>1
<1>2. AddingIsThere'
  BY DEF Network!Dismiss, AddingIsThere, Network!NoDialog
<1>3. UNCHANGED <<uses, links, loaded>> /\ adding' = Network!NoDialog
  BY DEF Network!Dismiss
<1>4. CASE adding[1] = "interface"
  <2>1. adding \in {"interface"} \X Nets /\ adding = <<"interface", adding[2]>>
    BY <1>a, <1>4 DEF Network!TypeOK, Network!NoDialog
  <2>2. /\ ifaces' = ifaces \ {adding[2]} /\ zones' = zones
        /\ orphans' = orphans \cup {adding}
    BY <1>4 DEF Network!Dismiss
  <2>3. Network!TypeOK'
    BY <1>a, <1>3, <2>1, <2>2 DEF Network!TypeOK
  <2>4. KnownIfaces \subseteq KnownIfaces' /\ KnownZones \subseteq KnownZones'
    BY <2>1, <2>2, Orphans DEF KnownIfaces, KnownZones, Network!NamesOf
  <2> QED
    BY <1>a, <1>2, <1>3, <2>2, <2>3, <2>4 DEF NetworkInv, UsesResolve, NetsResolve, LinksResolve
<1>5. CASE adding[1] = "zone"
  <2> DEFINE z == adding[2]
  <2>1. z \in 1..k
    BY <1>a, <1>1, <1>5 DEF AddingIsThere
  <2>2. /\ ifaces' = ifaces /\ zones' = Network!Removed(zones, z)
        /\ orphans' = orphans \cup {<<"zone", zones[z].name>>}
    BY <1>5 DEF Network!Dismiss
  <2>3. /\ zones' \in [1..(k - 1) -> Network!Zone]
        /\ \A y \in 1..(k - 1) : \E x \in 1..k : zones'[y] = zones[x]
    BY <1>1, <1>b, <2>1, <2>2, Removing
  <2>4. Network!NamesOf(zones) \ {zones[z].name} \subseteq Network!NamesOf(zones')
    BY <1>1, <1>b, <2>1, <2>2, RemovedNames
  <2>5. zones[z].name \in ZoneNames \cup {None}
    BY <1>1, <2>1 DEF Network!Zone
  <2>6. Network!TypeOK'
    <3>1. k - 1 \in 0..MaxZones
      BY <1>1, <2>1
    <3>2. \E j \in 0..MaxZones : zones' \in [1..j -> Network!Zone]
      BY <2>3, <3>1
    <3> QED BY <1>a, <1>3, <2>2, <2>5, <3>2 DEF Network!TypeOK
  <2>7. KnownIfaces \subseteq KnownIfaces' /\ KnownZones \subseteq KnownZones'
    <3>1. \A kind : Network!Orphaned(kind) \subseteq Network!Orphaned(kind)'
      BY <2>2, Orphans
    <3>2. zones[z].name \in Network!Orphaned("zone")'
      <4> DEFINE o == <<"zone", zones[z].name>>
      <4>1. o \in orphans' /\ o[1] = "zone" /\ o[2] = zones[z].name
        BY <2>2
      <4> HIDE DEF o
      <4> QED BY <4>1 DEF Network!Orphaned
    <3> QED BY <2>2, <2>4, <3>1, <3>2 DEF KnownIfaces, KnownZones
  <2>8. UsesResolve' /\ LinksResolve'
    BY <1>a, <1>3, <2>7 DEF UsesResolve, LinksResolve
  <2>9. NetsResolve'
    BY <1>a, <1>1, <1>3, <2>3, <2>7 DEF NetsResolve
  <2> QED BY <1>2, <2>6, <2>8, <2>9 DEF NetworkInv
<1> QED BY <1>4, <1>5 DEF Network!Dismiss

\* A dialog of a zone that is saved: a zone renamed is renamed where it is
\* referred to, and a network that is new in a zone gets its interface.
LEMMA EditZoneStep ==
  ASSUME NetworkInv, Network!NetworkAssumption, NEW z \in DOMAIN zones, NEW name \in ZoneNames,
         NEW nets \in SUBSET Nets, NEW dests, NEW sources,
         Network!EditZone(z, name, nets, dests, sources)
  PROVE  NetworkInv'
<1>a. Network!TypeOK /\ AddingIsThere /\ UsesResolve /\ NetsResolve /\ LinksResolve
  BY DEF NetworkInv
<1> DEFINE old == zones[z].name
           rename == old # None /\ name # old /\ Network!ZonesNamed(zones, name) = {}
           current == IF old = None THEN name ELSE old
           named == [y \in DOMAIN zones |->
               IF (old = None /\ y = z) \/ (rename /\ zones[y].name = old)
               THEN [zones[y] EXCEPT !.name = name] ELSE zones[y]]
           first == Network!First(Network!ZonesNamed(named, current))
           forwarded == Network!Forwarded(current, dests, sources)
<1>1. PICK k \in 0..MaxZones : zones \in [1..k -> Network!Zone]
  BY <1>a DEF Network!TypeOK
<1>b. k \in Nat /\ z \in 1..k /\ name # None /\ old \in ZoneNames \cup {None}
  BY <1>1 DEF Network!NetworkAssumption, Network!Zone
<1>2. /\ "firewall" \in loaded /\ adding' \in {adding, Network!NoDialog}
      /\ links' = IF rename THEN Network!Renamed(forwarded, old, name) ELSE forwarded
      /\ ifaces' = IF nets # zones[z].nets THEN ifaces \cup nets ELSE ifaces
      /\ zones' = IF nets = zones[z].nets \/ rename THEN named
                  ELSE [named EXCEPT ![first].nets = nets]
      /\ orphans' = orphans \ ({"interface"} \X ifaces')
      /\ UNCHANGED <<uses, loaded>>
  BY DEF Network!EditZone
<1>3. ASSUME NEW y \in 1..k
      PROVE  /\ named[y] \in Network!Zone /\ named[y].nets = zones[y].nets
             /\ named[y].name = IF (old = None /\ y = z) \/ (rename /\ zones[y].name = old)
                               THEN name ELSE zones[y].name
  <2>1. zones[y] \in [name : ZoneNames \cup {None}, nets : SUBSET Nets]
    BY <1>1 DEF Network!Zone
  <2>2. named[y] = IF (old = None /\ y = z) \/ (rename /\ zones[y].name = old)
                   THEN [zones[y] EXCEPT !.name = name] ELSE zones[y]
    BY <1>1
  <2> QED BY <2>1, <2>2 DEF Network!Zone
<1>4. named = [y \in 1..k |-> named[y]]
  BY <1>1
<1> HIDE DEF named, first, forwarded
<1>5. /\ zones' \in [1..k -> Network!Zone]
      /\ \A y \in 1..k : /\ zones'[y].name = named[y].name
                         /\ zones'[y].nets \in {zones[y].nets, nets}
      /\ nets # zones[z].nets \/ \A y \in 1..k : zones'[y].nets = zones[y].nets
  <2>1. CASE zones' = named
    BY <1>3, <1>4, <2>1
  <2>2. CASE nets # zones[z].nets /\ zones' = [named EXCEPT ![first].nets = nets]
    <3>1. ASSUME NEW y \in 1..k
          PROVE  /\ zones'[y] \in Network!Zone /\ zones'[y].name = named[y].name
                 /\ zones'[y].nets \in {zones[y].nets, nets}
      <4>1. named[y] \in [name : ZoneNames \cup {None}, nets : SUBSET Nets]
        BY <1>3 DEF Network!Zone
      <4>2. zones'[y] = IF y = first THEN [named[y] EXCEPT !.nets = nets] ELSE named[y]
        BY <1>4, <2>2
      <4> QED BY <1>3, <4>1, <4>2 DEF Network!Zone
    <3>2. zones' = [y \in 1..k |-> zones'[y]]
      BY <1>4, <2>2
    <3> QED BY <2>2, <3>1, <3>2
  <2> QED BY <1>2, <2>1, <2>2
<1>6. Network!NamesOf(zones) \ {old} \subseteq Network!NamesOf(zones')
  <2>1. \A y \in 1..k : zones[y].name # old /\ zones[y].name # None => zones'[y].name = zones[y].name
    BY <1>3, <1>5
  <2> QED BY <1>1, <1>5, <2>1 DEF Network!NamesOf
<1>7. old = None \/ rename => name \in Network!NamesOf(zones')
  <2>1. old = None \/ rename => zones'[z].name = name
    BY <1>b, <1>3, <1>5
  <2> QED BY <1>b, <1>5, <2>1 DEF Network!NamesOf
<1>8. ~rename => old \in Network!NamesOf(zones') \cup {None}
  <2>1. ~rename /\ old # None => zones'[z].name = old
    BY <1>b, <1>3, <1>5
  <2> QED BY <1>b, <1>5, <2>1 DEF Network!NamesOf
<1>9. Network!Orphaned("zone")' = Network!Orphaned("zone")
      /\ Network!Orphaned("interface") \subseteq ifaces' \cup Network!Orphaned("interface")'
  <2>1. orphans \subseteq ({"interface"} \X Nets) \cup ({"zone"} \X (ZoneNames \cup {None}))
    BY <1>a DEF Network!TypeOK
  <2>2. \A o \in orphans : o[1] = "zone" => o \in orphans'
    BY <1>2
  <2>3. \A o \in orphans : o[1] = "interface" => o[2] \in ifaces' \/ o \in orphans'
    BY <1>2, <2>1
  <2>4. orphans' \subseteq orphans
    BY <1>2
  <2>5. Network!Orphaned("zone")' = Network!Orphaned("zone")
    <3>1. {p \in orphans' : p[1] = "zone"} = {p \in orphans : p[1] = "zone"}
      BY <2>2, <2>4
    <3> QED BY <3>1 DEF Network!Orphaned
  <2>6. Network!Orphaned("interface") \subseteq ifaces' \cup Network!Orphaned("interface")'
    BY <2>3, Orphans
  <2> QED BY <2>5, <2>6
<1>10. KnownIfaces \subseteq KnownIfaces' /\ KnownZones \ {old} \subseteq KnownZones'
  BY <1>2, <1>6, <1>9 DEF KnownIfaces, KnownZones
<1>11. \A l \in forwarded : /\ l \in {"forwarding", "rule"} \X (ZoneNames \cup {None})
                                                           \X (ZoneNames \cup {None})
                           /\ l[2] \in KnownZones \cup {current}
                           /\ l[3] \in KnownZones \cup {current}
  <2>1. current \in ZoneNames
    BY <1>b
  <2>2. Network!NamesOf(zones) \subseteq ZoneNames
    BY <1>1 DEF Network!NamesOf, Network!Zone
  <2>3. \A l \in forwarded : l \in links \/ l \in Network!Ways(Network!NamesOf(zones) \cup {current})
    BY DEF forwarded, Network!Forwarded
  <2>4. \A l \in links : /\ l \in {"forwarding", "rule"} \X (ZoneNames \cup {None})
                                                         \X (ZoneNames \cup {None})
                        /\ l[2] \in KnownZones /\ l[3] \in KnownZones
    BY <1>a DEF Network!TypeOK, LinksResolve
  <2>5. \A l \in Network!Ways(Network!NamesOf(zones) \cup {current}) :
           /\ l \in {"forwarding"} \X (Network!NamesOf(zones) \cup {current})
                                  \X (Network!NamesOf(zones) \cup {current})
           /\ l[2] \in Network!NamesOf(zones) \cup {current}
           /\ l[3] \in Network!NamesOf(zones) \cup {current}
    BY DEF Network!Ways
  <2> HIDE DEF current
  <2>6. ASSUME NEW l \in forwarded
        PROVE  /\ l \in {"forwarding", "rule"} \X (ZoneNames \cup {None}) \X (ZoneNames \cup {None})
               /\ l[2] \in KnownZones \cup {current} /\ l[3] \in KnownZones \cup {current}
    <3>1. CASE l \in links
      BY <2>4, <3>1
    <3>2. CASE l \in Network!Ways(Network!NamesOf(zones) \cup {current})
      <4>1. l \in {"forwarding"} \X (Network!NamesOf(zones) \cup {current})
                                 \X (Network!NamesOf(zones) \cup {current})
        BY <2>5, <3>2
      <4>2. l \in {"forwarding", "rule"} \X (ZoneNames \cup {None}) \X (ZoneNames \cup {None})
        BY <2>1, <2>2, <4>1
      <4>3. l[2] \in KnownZones \cup {current} /\ l[3] \in KnownZones \cup {current}
        BY <4>1 DEF KnownZones
      <4> QED BY <4>2, <4>3
    <3> QED BY <2>3, <3>1, <3>2
  <2> QED BY <2>6
<1>12. \A l \in links' : /\ l \in {"forwarding", "rule"} \X (ZoneNames \cup {None})
                                                         \X (ZoneNames \cup {None})
                        /\ l[2] \in KnownZones' /\ l[3] \in KnownZones'
  <2>1. CASE ~rename
    <3>1. KnownZones \cup {current} \subseteq KnownZones'
      BY <1>7, <1>8, <1>10, <2>1 DEF KnownZones
    <3> QED BY <1>2, <1>11, <2>1, <3>1
  <2>2. CASE rename
    <3>1. /\ links' = Network!Renamed(forwarded, old, name)
          /\ current = old /\ name \in KnownZones'
      BY <1>2, <1>7, <2>2 DEF KnownZones
    <3>2. ASSUME NEW l \in forwarded, NEW e \in {2, 3}
          PROVE  (IF l[e] = old THEN name ELSE l[e]) \in KnownZones' \cap (ZoneNames \cup {None})
      BY <1>10, <1>11, <3>1
    <3>3. \A l \in links' : \E x \in forwarded :
             l = <<x[1], IF x[2] = old THEN name ELSE x[2], IF x[3] = old THEN name ELSE x[3]>>
      BY <3>1 DEF Network!Renamed
    <3> QED BY <1>11, <3>2, <3>3
  <2> QED BY <2>1, <2>2
<1>13. Network!TypeOK'
  <2>1. \E j \in 0..MaxZones : zones' \in [1..j -> Network!Zone]
    BY <1>5
  <2>2. links' \subseteq {"forwarding", "rule"} \X (ZoneNames \cup {None}) \X (ZoneNames \cup {None})
    BY <1>12
  <2> QED BY <1>a, <1>2, <2>1, <2>2 DEF Network!TypeOK
<1>14. AddingIsThere'
  BY <1>a, <1>1, <1>2, <1>5 DEF AddingIsThere, Network!NoDialog
<1>15. UsesResolve'
  BY <1>a, <1>2, <1>10 DEF UsesResolve
<1>16. LinksResolve'
  BY <1>12 DEF LinksResolve
<1>17. NetsResolve'
  BY <1>a, <1>1, <1>2, <1>5, <1>10 DEF NetsResolve, KnownIfaces
<1> QED BY <1>13, <1>14, <1>15, <1>16, <1>17 DEF NetworkInv

LEMMA NetworkStep ==
  ASSUME NetworkInv, Network!NetworkAssumption, [Network!Next]_networkVars
  PROVE  NetworkInv'
<1>a. MaxZones \in Nat
  BY DEF Network!NetworkAssumption
<1>1. CASE UNCHANGED networkVars
  BY <1>1 DEF networkVars, NetworkInv, Network!TypeOK, AddingIsThere, UsesResolve, NetsResolve,
     LinksResolve, KnownIfaces, KnownZones, Network!Orphaned, Network!NamesOf
<1>2. ASSUME NEW n \in Nets,
             \/ Network!AddInterface(n) \/ Network!Use("dhcp", n) \/ Network!Use("network", n)
             \/ Network!DeleteInterface(n)
             \/ \E name \in ZoneNames \cup {None} :
                   Network!SetZone(n, name) \/ \E replace \in BOOLEAN : Network!Join(n, replace, name)
      PROVE  NetworkInv'
  BY <1>a, <1>2, InterfaceSteps, DeleteInterfaceStep, SetZoneStep, JoinStep
<1>3. ASSUME NEW z \in DOMAIN zones,
             \/ Network!DeleteZone(z)
             \/ \E name \in ZoneNames, nets \in SUBSET Nets,
                  dests \in SUBSET Network!Others(z), sources \in SUBSET Network!Others(z) :
                  Network!EditZone(z, name, nets, dests, sources)
      PROVE  NetworkInv'
  BY <1>a, <1>3, DeleteZoneStep, EditZoneStep
<1>4. CASE Network!AddZone \/ Network!Dismiss
  BY <1>a, <1>4, AddZoneStep, DismissStep
<1> QED BY <1>1, <1>2, <1>3, <1>4 DEF Network!Next

\* What the other parts do leaves the networks alone.
LEMMA RouterNetwork == RouterSpec => Network!Init /\ [][Network!Next]_networkVars
<1>1. RouterInit => Network!Init
  <2>1. NetworkRests => Network!Init
    <3> SUFFICES ASSUME NetworkRests PROVE Network!Init
      OBVIOUS
    <3>1. MaxZones \in Nat /\ MaxRules \in Nat
      BY MCAssumption DEF Network!NetworkAssumption
    <3>2. /\ ifaces = {} /\ uses = {} /\ zones = <<>> /\ links = {} /\ loaded = {}
          /\ adding = Network!NoDialog /\ orphans = {}
      BY DEF NetworkRests
    <3>3. 0 \in 0..MaxZones /\ zones \in [1..0 -> {z \in Network!Zone : z.nets \subseteq ifaces}]
      BY <3>1, <3>2
    <3>4. DOMAIN zones = {}
      BY <3>3
    <3>5. Network!Cardinality({}) = 0
      BY SameCardinality, FS_EmptySet
    <3>6. links = {} \cup {} /\ Network!Cardinality({}) <= MaxRules
      BY <3>1, <3>2, <3>5
    <3>7. \E fwds \in SUBSET Network!Ways(Network!NamesOf(zones)),
             rules \in SUBSET ({"rule"} \X (Network!NamesOf(zones) \cup {None})
                                       \X (Network!NamesOf(zones) \cup {None})) :
            links = fwds \cup rules /\ Network!Cardinality(rules) <= MaxRules
      BY <3>6
    <3> QED BY <3>2, <3>3, <3>4, <3>7 DEF Network!Init
  <2> QED BY <2>1 DEF RouterInit
<1>2. [RouterNext]_routerVars => [Network!Next]_networkVars
  BY DEF RouterNext, routerVars, networkVars
<1> QED BY <1>1, <1>2, PTL DEF RouterSpec, routerVars

LEMMA NetworkInvariant == RouterSpec => []NetworkInv
<1>1. Network!Init => NetworkInv
  BY NetworkStart
<1>2. NetworkInv /\ [Network!Next]_networkVars => NetworkInv'
  BY NetworkStep, MCAssumption
<1> QED BY <1>1, <1>2, RouterNetwork, PTL

\* In whatever order the views add, rename, edit and delete interfaces and
\* zones, what refers to one finds it, except what could not be loaded and
\* what a dismissed dialog has left behind (network.js, firewall.js).
THEOREM ReferencesAlwaysResolve == RouterSpec => []ReferencesResolve
BY NetworkInvariant, InvMeansResolve, PTL

-----------------------------------------------------------------------------
(* The bandwidth collector (Bandwidth)                                     *)
(*                                                                         *)
(* As long as one daemon lives at a time, what a reader has printed is not *)
(* younger than any entry it has yet to print, and no step of the daemon   *)
(* makes an entry older: it overwrites one with the next, or the last with *)
(* a younger sample, and empties the file only before anything was printed.*)

InOrder == \A i, j \in 1..Slots : i < j => db[i] <= db[j]

\* one daemon lives at a time, and its file was missing when it creates it
Alone ==
    /\ \A p, q \in Readers : Graph!Alive(p) /\ Graph!Alive(q) => p = q
    /\ \A d \in Readers : daemon[d].pc = "create" => file = "missing"
    /\ \A d \in Readers : daemon[d].pc = "fill" => file = "created"
    /\ \A d \in Readers : daemon[d].pc = "shift" => db[Slots] <= daemon[d].time

\* a reader has printed nothing of a file without entries, and nothing that
\* is younger than an entry it has not reached
Behind ==
    /\ file # "full" => \A r \in Readers : printed[r] = <<>>
    /\ \A r \in Readers : \A k \in 1..Len(printed[r]) : \A j \in cli[r].slot..Slots :
         printed[r][k] <= db[j]
    /\ \A r \in Readers : Graph!Ascending(printed[r])

InRange ==
    /\ \A d \in Readers : daemon[d].pc = "shift" => daemon[d].slot \in 1..Slots
    /\ \A r \in Readers : cli[r].pc # "done" => cli[r].slot \in 1..Slots

CliType == [pc : {"start", "check", "signal", "map", "dump", "done"},
            pid : Readers \cup {"none", "truncated"}, slot : 1..Slots + 1]
DaemonType == [pc : Graph!Places, slot : 0..Slots, time : Graph!Time, countdown : 0..Patience]

GraphInv == Graph!TypeOK /\ InRange /\ (~twoLived => InOrder /\ Alone /\ Behind)

\* the entries are a sequence of Slots elements
LEMMA DbLen ==
  ASSUME Graph!BandwidthAssumption, NEW s \in [1..Slots -> Graph!Time]
  PROVE  s \in Seq(Graph!Time) /\ Len(s) = Slots
BY DEF Graph!BandwidthAssumption

LEMMA InitGraph == Graph!BandwidthAssumption /\ Graph!Init => GraphInv
<1> SUFFICES ASSUME Graph!BandwidthAssumption, Graph!Init PROVE GraphInv OBVIOUS
<1> USE DEF Graph!BandwidthAssumption, Graph!Init
<1>1. db \in [1..Slots -> Graph!Time]
  BY DEF Graph!Time
<1>2. Graph!TypeOK
  <2>1. cli \in [Readers -> CliType] /\ daemon \in [Readers -> DaemonType]
    BY DEF CliType, DaemonType, Graph!Places, Graph!Time
  <2>2. printed \in [Readers -> Seq(Graph!Time)] /\ file \in {"missing", "created", "full"}
    OBVIOUS
  <2> QED BY <1>1, <2>1, <2>2 DEF Graph!TypeOK, CliType, DaemonType
<1>3. InRange
  BY DEF InRange
<1>4. InOrder
  <2>1. CASE Graph!Ascending(db)
    BY <2>1, <1>1, DbLen DEF InOrder, Graph!Ascending
  <2>2. CASE db = [i \in 1..Slots |-> 0]
    BY <2>2 DEF InOrder
  <2> QED BY <2>1, <2>2
<1>5. Alone
  BY DEF Alone, Graph!Alive
<1>6. Behind
  BY DEF Behind, Graph!Ascending
<1> QED BY <1>2, <1>3, <1>4, <1>5, <1>6 DEF GraphInv

\* where a reader may go
LEMMA CliMoves ==
  ASSUME NEW C \in [Readers -> CliType], NEW r \in Readers,
         NEW pc \in {"start", "check", "signal", "map", "dump", "done"}
  PROVE  [C EXCEPT ![r].pc = pc] \in [Readers -> CliType]
<1>1. C[r] \in CliType
  OBVIOUS
<1>2. [C[r] EXCEPT !.pc = pc] \in CliType
  BY <1>1 DEF CliType
<1> QED BY <1>2

LEMMA CliNotes ==
  ASSUME NEW C \in [Readers -> CliType], NEW r \in Readers,
         NEW pc \in {"start", "check", "signal", "map", "dump", "done"},
         NEW pid \in Readers \cup {"none", "truncated"}
  PROVE  [C EXCEPT ![r].pc = pc, ![r].pid = pid] \in [Readers -> CliType]
<1>1. C[r] \in CliType
  OBVIOUS
<1>2. [C[r] EXCEPT !.pc = pc, !.pid = pid] \in CliType
  BY <1>1 DEF CliType
<1> QED BY <1>2

LEMMA CliSteps ==
  ASSUME NEW C \in [Readers -> CliType], NEW r \in Readers,
         NEW pc \in {"start", "check", "signal", "map", "dump", "done"},
         NEW slot \in 1..Slots + 1
  PROVE  [C EXCEPT ![r].slot = slot, ![r].pc = pc] \in [Readers -> CliType]
<1>1. C[r] \in CliType
  OBVIOUS
<1>2. [C[r] EXCEPT !.slot = slot, !.pc = pc] \in CliType
  BY <1>1 DEF CliType
<1> QED BY <1>2

\* where a daemon may go
LEMMA DaemonMoves ==
  ASSUME NEW D \in [Readers -> DaemonType], NEW d \in Readers, NEW pc \in Graph!Places
  PROVE  [D EXCEPT ![d].pc = pc] \in [Readers -> DaemonType]
<1>1. D[d] \in DaemonType
  OBVIOUS
<1>2. [D[d] EXCEPT !.pc = pc] \in DaemonType
  BY <1>1 DEF DaemonType
<1> QED BY <1>2

LEMMA DaemonTypes ==
  ASSUME NEW D \in [Readers -> DaemonType], NEW d \in Readers
  PROVE  /\ \A n \in 0..Patience : [D EXCEPT ![d].countdown = n] \in [Readers -> DaemonType]
         /\ \A pc \in Graph!Places, n \in 0..Patience :
              [D EXCEPT ![d].pc = pc, ![d].countdown = n] \in [Readers -> DaemonType]
         /\ \A pc \in Graph!Places, time \in Graph!Time :
              [D EXCEPT ![d].pc = pc, ![d].time = time] \in [Readers -> DaemonType]
         /\ \A slot \in 0..Slots : [D EXCEPT ![d].slot = slot] \in [Readers -> DaemonType]
         /\ \A pc \in Graph!Places, slot \in 0..Slots :
              [D EXCEPT ![d].pc = pc, ![d].slot = slot] \in [Readers -> DaemonType]
         /\ \A pc \in Graph!Places, slot \in 0..Slots, time \in Graph!Time :
              [D EXCEPT ![d].pc = pc, ![d].slot = slot, ![d].time = time] \in [Readers -> DaemonType]
<1>1. D[d] \in DaemonType
  OBVIOUS
<1>2. /\ \A n \in 0..Patience : [D[d] EXCEPT !.countdown = n] \in DaemonType
      /\ \A pc \in Graph!Places, n \in 0..Patience : [D[d] EXCEPT !.pc = pc, !.countdown = n] \in DaemonType
      /\ \A pc \in Graph!Places, time \in Graph!Time : [D[d] EXCEPT !.pc = pc, !.time = time] \in DaemonType
      /\ \A slot \in 0..Slots : [D[d] EXCEPT !.slot = slot] \in DaemonType
      /\ \A pc \in Graph!Places, slot \in 0..Slots : [D[d] EXCEPT !.pc = pc, !.slot = slot] \in DaemonType
      /\ \A pc \in Graph!Places, slot \in 0..Slots, time \in Graph!Time :
           [D[d] EXCEPT !.pc = pc, !.slot = slot, !.time = time] \in DaemonType
  BY <1>1 DEF DaemonType
<1> QED BY <1>2

LEMMA TypeParts ==
  Graph!TypeOK <=> /\ pidfile \in Readers \cup {"none", "truncated"}
             /\ file \in {"missing", "created", "full"}
             /\ db \in [1..Slots -> Graph!Time]
             /\ cli \in [Readers -> CliType]
             /\ printed \in [Readers -> Seq(Graph!Time)]
             /\ daemon \in [Readers -> DaemonType]
             /\ twoLived \in BOOLEAN
BY DEF Graph!TypeOK, CliType, DaemonType

\* no step of a reader but Fork and Signal touches the daemons and their file
LEMMA ReaderKeeps ==
  ASSUME Graph!BandwidthAssumption, GraphInv, NEW r \in Readers, UNCHANGED <<twoLived, Graph!daemonVars>>,
         NEW pc \in {"check", "signal", "map", "dump", "done"},
         \/ cli' = [cli EXCEPT ![r].pc = pc] 
         \/ cli' = [cli EXCEPT ![r].pc = pc, ![r].pid = pidfile],
         cli[r].pc # "done", printed' = printed
  PROVE  GraphInv'
<1> USE DEF GraphInv, Graph!daemonVars
<1>1. Graph!TypeOK'
  <2>1. cli \in [Readers -> CliType] /\ pidfile \in Readers \cup {"none", "truncated"}
    BY TypeParts
  <2>2. cli' \in [Readers -> CliType]
    <3>1. [cli EXCEPT ![r].pc = pc] \in [Readers -> CliType]
      BY <2>1, CliMoves
    <3>2. [cli EXCEPT ![r].pc = pc, ![r].pid = pidfile] \in [Readers -> CliType]
      BY <2>1, CliNotes
    <3> QED BY <3>1, <3>2
  <2> QED BY <2>2, TypeParts DEF Graph!TypeOK, CliType
<1>2. \A x \in Readers : cli'[x].slot = cli[x].slot /\ (cli[x].pc = "done" => cli'[x] = cli[x])
  BY DEF Graph!TypeOK
<1>3. InRange'
  BY <1>2 DEF InRange, Graph!TypeOK
<1>4. ~twoLived' => InOrder' /\ Alone' /\ Behind'
  BY <1>2 DEF InOrder, Alone, Graph!Alive, Behind, Graph!Ascending
<1> QED BY <1>1, <1>3, <1>4

LEMMA ReaderGraph ==
  ASSUME Graph!BandwidthAssumption, GraphInv, NEW r \in Readers, Graph!Reader(r)
  PROVE  GraphInv'
<1> USE DEF Graph!BandwidthAssumption
<1>1. CASE Graph!ReadPid(r)
  BY <1>1, ReaderKeeps DEF Graph!ReadPid
<1>2. CASE Graph!Fork(r)
  <2> USE <1>2 DEF Graph!Fork, Graph!Goto, GraphInv
  <2>1. Graph!TypeOK'
    <3>1. cli' \in [Readers -> CliType]
      BY TypeParts, CliMoves
    <3>2. daemon' \in [Readers -> DaemonType]
      <4>1. daemon \in [Readers -> DaemonType] /\ "forked" \in Graph!Places
        BY TypeParts DEF Graph!Places
      <4> QED BY <4>1, DaemonMoves
    <3>3. twoLived' \in BOOLEAN
      BY DEF Graph!TypeOK
    <3> QED BY <3>1, <3>2, <3>3 DEF Graph!TypeOK, CliType, DaemonType
  <2>2. \A x \in Readers : cli'[x].slot = cli[x].slot /\ (x # r => cli'[x] = cli[x] /\ daemon'[x] = daemon[x])
    BY DEF Graph!TypeOK
  <2>3. daemon'[r].pc = "forked"
    BY DEF Graph!TypeOK
  <2>4. InRange'
    BY <2>2, <2>3 DEF InRange, Graph!TypeOK
  <2>5. ASSUME ~twoLived' PROVE InOrder' /\ Alone' /\ Behind'
    <3>1. ~twoLived /\ \A p \in Readers : ~Graph!Alive(p)
      BY <2>5 DEF Graph!TypeOK
    <3>2. InOrder' /\ Behind'
      BY <3>1, <2>2 DEF InOrder, Behind, Graph!Ascending
    <3>3. Alone'
      BY <3>1, <2>2, <2>3 DEF Alone, Graph!Alive
    <3> QED BY <3>2, <3>3
  <2> QED BY <2>1, <2>4, <2>5
<1>3. CASE Graph!Ping(r)
  BY <1>3, ReaderKeeps DEF Graph!Ping, Graph!Goto
<1>4. CASE Graph!Signal(r)
  <2> USE <1>4 DEF Graph!Signal, Graph!Goto, GraphInv
  <2>1. Graph!TypeOK'
    <3>1. cli' \in [Readers -> CliType]
      BY TypeParts, CliMoves
    <3>2. daemon' \in [Readers -> DaemonType]
      <4>1. cli[r].pid \in Readers /\ Patience \in 0..Patience
        BY DEF Graph!Alive
      <4>2. daemon \in [Readers -> DaemonType]
        BY TypeParts
      <4> QED BY <4>1, <4>2, DaemonTypes
    <3> QED BY <3>1, <3>2 DEF Graph!TypeOK, CliType, DaemonType
  <2>2. \A x \in Readers :
          /\ cli'[x].slot = cli[x].slot /\ (x # r => cli'[x] = cli[x])
          /\ daemon'[x].pc = daemon[x].pc /\ daemon'[x].slot = daemon[x].slot
          /\ daemon'[x].time = daemon[x].time
    BY SMTT(30) DEF Graph!TypeOK, Graph!Alive
  <2>3. InRange'
    BY <2>2 DEF InRange, Graph!TypeOK
  <2>4. ~twoLived' => InOrder' /\ Alone' /\ Behind'
    BY <2>2 DEF InOrder, Alone, Graph!Alive, Behind, Graph!Ascending
  <2> QED BY <2>1, <2>3, <2>4
<1>5. CASE Graph!GiveUp(r)
  BY <1>5, ReaderKeeps DEF Graph!GiveUp, Graph!Goto
<1>6. CASE Graph!Map(r)
  BY <1>6, ReaderKeeps DEF Graph!Map, Graph!Goto
<1>7. CASE Graph!Dump(r)
  <2> USE <1>7 DEF Graph!Dump, GraphInv
  <2> DEFINE n == cli[r].slot
             e == db[n]
  <2>0. n \in 1..Slots /\ e \in Graph!Time /\ Slots \in Nat
    BY DEF InRange, Graph!TypeOK
  <2>1. /\ cli' \in [Readers -> CliType]
        /\ cli'[r].slot = n + 1 /\ (cli'[r].pc # "done" => n # Slots)
        /\ \A x \in Readers : x # r => cli'[x] = cli[x]
    <3>1. cli \in [Readers -> CliType] /\ n + 1 \in 1..Slots + 1
      BY <2>0, TypeParts
    <3>2. cli' = [cli EXCEPT ![r].slot = n + 1, ![r].pc = IF n = Slots THEN "done" ELSE "dump"]
      BY <3>1
    <3>3. cli' \in [Readers -> CliType]
      <4> DEFINE pc == IF n = Slots THEN "done" ELSE "dump"
      <4>1. pc \in {"start", "check", "signal", "map", "dump", "done"}
        OBVIOUS
      <4> HIDE DEF pc
      <4>2. [cli EXCEPT ![r].slot = n + 1, ![r].pc = pc] \in [Readers -> CliType]
        BY <3>1, <4>1, CliSteps
      <4> QED BY <3>2, <4>2 DEF pc
    <3> QED BY <3>1, <3>2, <3>3 DEF CliType
  <2>2. /\ printed[r] \in Seq(Graph!Time) /\ printed' \in [Readers -> Seq(Graph!Time)]
        /\ printed'[r] = printed[r] \/ printed'[r] = Append(printed[r], e)
        /\ \A x \in Readers : x # r => printed'[x] = printed[x]
    BY <2>0 DEF Graph!TypeOK
  <2>3. Graph!TypeOK'
    BY <2>1, <2>2 DEF Graph!TypeOK, CliType, Graph!daemonVars
  <2>4. InRange'
    BY <2>0, <2>1 DEF InRange, Graph!daemonVars
  <2>5. ASSUME ~twoLived' PROVE InOrder' /\ Alone' /\ Behind'
    <3>1. ~twoLived
      BY <2>5
    <3>2. InOrder' /\ Alone'
      BY <3>1 DEF InOrder, Alone, Graph!Alive, Graph!daemonVars
    <3>3. \A k \in 1..Len(printed[r]) : \A j \in n..Slots : printed[r][k] <= db[j]
      BY <3>1 DEF Behind
    <3>4. \A j \in n + 1..Slots : e <= db[j]
      BY <3>1, <2>0 DEF InOrder
    <3>5. \A k \in 1..Len(printed'[r]) : \A j \in n + 1..Slots : printed'[r][k] <= db[j]
      BY SMTT(30), <2>0, <2>2, <3>3, <3>4
    <3>6. Graph!Ascending(printed'[r])
      <4>1. Graph!Ascending(printed[r])
        BY <3>1 DEF Behind
      <4>2. \A k \in 1..Len(printed[r]) : printed[r][k] <= e
        BY <3>3, <2>0
      <4> QED BY <2>2, <4>1, <4>2 DEF Graph!Ascending
    <3>7. Behind'
      <4>1. file = "full" /\ db' = db /\ file' = file
        BY DEF Graph!daemonVars
      <4>2. ASSUME NEW x \in Readers
            PROVE  /\ \A k \in 1..Len(printed'[x]) : \A j \in cli'[x].slot..Slots :
                        printed'[x][k] <= db'[j]
                   /\ Graph!Ascending(printed'[x])
        <5>1. CASE x = r
          BY <5>1, <4>1, <2>1, <3>5, <3>6
        <5>2. CASE x # r
          BY <5>2, <4>1, <2>1, <2>2, <3>1 DEF Behind
        <5> QED BY <5>1, <5>2
      <4> QED BY <4>1, <4>2 DEF Behind, Graph!Ascending
    <3> QED BY <3>2, <3>7
  <2> QED BY <2>3, <2>4, <2>5
<1> QED BY <1>1, <1>2, <1>3, <1>4, <1>5, <1>6, <1>7 DEF Graph!Reader

\* steps of a daemon that leave the file alone
LEMMA DaemonKeeps ==
  ASSUME Graph!BandwidthAssumption, GraphInv, NEW d \in Readers, Graph!Alive(d),
         daemon' \in [Readers -> DaemonType],
         \A x \in Readers \ {d} : daemon'[x] = daemon[x],
         daemon'[d].pc # "fill", daemon'[d].pc = "create" => file = "missing",
         daemon'[d].pc = "shift" => daemon'[d].slot \in 1..Slots /\ db[Slots] <= daemon'[d].time,
         pidfile' \in Readers \cup {"none", "truncated"}, UNCHANGED <<file, db, Graph!readerVars>>
  PROVE  GraphInv'
<1> USE DEF Graph!readerVars, GraphInv
<1>1. Graph!TypeOK'
  BY TypeParts DEF Graph!TypeOK, CliType, DaemonType
<1>2. InRange'
  BY DEF InRange
<1>3. ASSUME ~twoLived' PROVE InOrder' /\ Alone' /\ Behind'
  <2>1. InOrder' /\ Behind'
    BY <1>3 DEF InOrder, Behind, Graph!Ascending
  <2>2. \A x \in Readers : Graph!Alive(x)' => Graph!Alive(x)
    BY DEF Graph!Alive
  <2>3. Alone'
    BY <1>3, <2>2 DEF Alone
  <2> QED BY <2>1, <2>3
<1> QED BY <1>1, <1>2, <1>3

\* steps of a daemon on the entries: none becomes older
LEMMA DaemonWrites ==
  ASSUME Graph!BandwidthAssumption, GraphInv, NEW d \in Readers, Graph!Alive(d),
         daemon' \in [Readers -> DaemonType],
         \A x \in Readers \ {d} : daemon'[x] = daemon[x],
         daemon'[d].pc \notin {"create", "fill"},
         daemon'[d].pc = "shift" => daemon'[d].slot \in 1..Slots,
         db' \in [1..Slots -> Graph!Time],
         ~twoLived => /\ daemon'[d].pc = "shift" => db'[Slots] <= daemon'[d].time
                      /\ InOrder' /\ \A j \in 1..Slots : db[j] <= db'[j],
         UNCHANGED <<pidfile, file, Graph!readerVars>>
  PROVE  GraphInv'
<1> USE DEF Graph!readerVars, GraphInv, Graph!BandwidthAssumption
<1>1. Graph!TypeOK'
  BY TypeParts DEF Graph!TypeOK, CliType, DaemonType
<1>2. InRange'
  BY DEF InRange
<1>3. ASSUME ~twoLived' PROVE InOrder' /\ Alone' /\ Behind'
  <2>1. InOrder' /\ \A j \in 1..Slots : db[j] <= db'[j]
    BY <1>3
  <2>2. \A x \in Readers : (Graph!Alive(x)' => Graph!Alive(x)) /\ (Graph!Alive(x) => x = d)
    BY <1>3 DEF Graph!Alive, Alone
  <2>3. Alone'
    BY <1>3, <2>2 DEF Alone, Graph!Alive
  <2>4. Behind'
    <3>1. Behind
      BY <1>3
    <3>2. ASSUME NEW r \in Readers, NEW k \in 1..Len(printed[r]), NEW j \in cli[r].slot..Slots
          PROVE  printed[r][k] <= db'[j]
      <4>1. cli[r].slot \in 1..Slots + 1 /\ printed[r] \in Seq(Graph!Time)
        BY TypeParts DEF CliType
      <4>2. j \in 1..Slots /\ db[j] \in Nat /\ db'[j] \in Nat
        BY SMTT(30), <4>1, TypeParts DEF Graph!Time
      <4>3. printed[r][k] \in Nat
        BY <4>1 DEF Graph!Time
      <4> QED BY <2>1, <3>1, <4>2, <4>3 DEF Behind
    <3> QED BY <3>1, <3>2 DEF Behind, Graph!Ascending
  <2> QED BY <2>1, <2>3, <2>4
<1> QED BY <1>1, <1>2, <1>3

LEMMA DaemonGraph ==
  ASSUME Graph!BandwidthAssumption, GraphInv, NEW d \in Readers, Graph!Daemon(d)
  PROVE  GraphInv'
<1> USE DEF Graph!BandwidthAssumption, Graph!At, Graph!Move
<1>0. /\ daemon \in [Readers -> DaemonType] /\ daemon[d] \in DaemonType
      /\ daemon[d].time \in Graph!Time /\ daemon[d].slot \in 0..Slots
      /\ daemon[d].countdown \in 0..Patience
      /\ db \in [1..Slots -> Graph!Time] /\ Graph!Time \subseteq Nat
      /\ pidfile \in Readers \cup {"none", "truncated"}
  BY TypeParts DEF GraphInv, DaemonType, Graph!Time
<1>1. \A pc \in Graph!Places : [daemon EXCEPT ![d].pc = pc] \in [Readers -> DaemonType]
  BY <1>0, DaemonMoves
<1>2. CASE Graph!TruncatePid(d)
  <2>1. daemon' \in [Readers -> DaemonType] /\ Graph!Alive(d)
    BY <1>2, <1>1 DEF Graph!TruncatePid, Graph!Places, Graph!Alive
  <2>2. daemon'[d].pc = "writepid" /\ \A x \in Readers \ {d} : daemon'[x] = daemon[x]
    BY <1>2, <1>0 DEF Graph!TruncatePid, DaemonType
  <2> QED BY <1>2, <1>0, <2>1, <2>2, DaemonKeeps DEF Graph!TruncatePid, Graph!readerVars
<1>3. CASE Graph!WritePid(d)
  <2>1. daemon' \in [Readers -> DaemonType] /\ Graph!Alive(d)
    <3>1. "stat" \in Graph!Places /\ Patience \in 0..Patience
      BY DEF Graph!Places
    <3> QED BY <3>1, <1>3, <1>0, DaemonTypes DEF Graph!WritePid, Graph!Alive
  <2>2. daemon'[d].pc = "stat" /\ \A x \in Readers \ {d} : daemon'[x] = daemon[x]
    BY <1>3, <1>0 DEF Graph!WritePid, DaemonType
  <2> QED BY <1>3, <1>0, <2>1, <2>2, DaemonKeeps DEF Graph!WritePid, Graph!readerVars
<1>4. CASE Graph!Stat(d)
  <2>1. daemon' \in [Readers -> DaemonType] /\ Graph!Alive(d)
    BY <1>4, <1>1 DEF Graph!Stat, Graph!Places, Graph!Alive
  <2>2. daemon'[d].pc = (IF file = "missing" THEN "create" ELSE "sample") /\ \A x \in Readers \ {d} : daemon'[x] = daemon[x]
    BY <1>4, <1>0 DEF Graph!Stat, DaemonType
  <2> QED BY <1>4, <1>0, <2>1, <2>2, DaemonKeeps DEF Graph!Stat, Graph!readerVars
<1>5. CASE Graph!Create(d)
  <2> USE DEF GraphInv, Graph!readerVars
  <2>1. daemon' \in [Readers -> DaemonType] /\ Graph!Alive(d)
    BY <1>5, <1>1 DEF Graph!Create, Graph!Places, Graph!Alive
  <2>2. daemon'[d].pc = "fill" /\ \A x \in Readers \ {d} : daemon'[x] = daemon[x]
    BY <1>5, <1>0 DEF Graph!Create, DaemonType
  <2>3. file' \in {"missing", "created", "full"} /\ UNCHANGED <<pidfile, db, Graph!readerVars>>
    BY <1>5, TypeParts DEF Graph!Create
  <2>4. Graph!TypeOK'
    BY <2>1, <2>3, TypeParts DEF Graph!TypeOK, CliType, DaemonType
  <2>5. InRange'
    BY <2>2, <2>3 DEF InRange
  <2>6. ASSUME ~twoLived' PROVE InOrder' /\ Alone' /\ Behind'
    <3>1. ~twoLived /\ \A x \in Readers : (Graph!Alive(x)' => Graph!Alive(x)) /\ (Graph!Alive(x) => x = d)
      BY <2>1, <2>2, <2>3, <2>6 DEF Graph!Alive, Alone
    <3>2. file = "missing" /\ file' = "created"
      BY <3>1, <1>5 DEF Graph!Create, Alone
    <3>3. InOrder' /\ Behind'
      BY <3>1, <3>2, <2>3 DEF InOrder, Behind, Graph!Ascending
    <3>4. Alone'
      BY <3>1, <3>2, <2>2, <2>3 DEF Alone, Graph!Alive
    <3> QED BY <3>3, <3>4
  <2> QED BY <2>4, <2>5, <2>6
<1>6. CASE Graph!Fill(d)
  <2> USE DEF GraphInv, Graph!readerVars
  <2>1. daemon' \in [Readers -> DaemonType] /\ Graph!Alive(d)
    BY <1>6, <1>1 DEF Graph!Fill, Graph!Places, Graph!Alive
  <2>2. daemon'[d].pc = "sample" /\ \A x \in Readers \ {d} : daemon'[x] = daemon[x]
    BY <1>6, <1>0 DEF Graph!Fill, DaemonType
  <2>3. file' = "full" /\ db' \in [1..Slots -> Graph!Time] /\ UNCHANGED <<pidfile, Graph!readerVars>>
    BY <1>6 DEF Graph!Fill, Graph!Time
  <2>4. Graph!TypeOK'
    BY <2>1, <2>3, TypeParts DEF Graph!TypeOK, CliType, DaemonType
  <2>5. InRange'
    BY <2>2, <2>3 DEF InRange
  <2>6. ASSUME ~twoLived' PROVE InOrder' /\ Alone' /\ Behind'
    <3>1. ~twoLived /\ \A x \in Readers : (Graph!Alive(x)' => Graph!Alive(x)) /\ (Graph!Alive(x) => x = d)
      BY <2>1, <2>2, <2>3, <2>6 DEF Graph!Alive, Alone
    <3>2. \A r \in Readers : printed[r] = <<>>
      BY <3>1, <1>6 DEF Graph!Fill, Alone, Behind, Graph!At
    <3>3. InOrder'
      BY <1>6 DEF Graph!Fill, InOrder
    <3>4. Behind'
      BY <3>2, <2>3 DEF Behind, Graph!Ascending
    <3>5. Alone'
      BY <3>1, <2>2, <2>3 DEF Alone, Graph!Alive
    <3> QED BY <3>3, <3>4, <3>5
  <2> QED BY <2>4, <2>5, <2>6
<1>7. CASE Graph!Sample(d)
  <2>1. daemon' \in [Readers -> DaemonType] /\ Graph!Alive(d)
    <3>1. "compare" \in Graph!Places /\ 1..MaxTime \subseteq Graph!Time
      BY DEF Graph!Places, Graph!Time
    <3>2. PICK s \in 1..MaxTime : daemon' = [daemon EXCEPT ![d].pc = "compare", ![d].time = s]
      BY <1>7 DEF Graph!Sample
    <3>3. [daemon EXCEPT ![d].pc = "compare", ![d].time = s] \in [Readers -> DaemonType]
      BY <3>1, <1>0, DaemonTypes
    <3> QED BY <3>2, <3>3, <1>7 DEF Graph!Sample, Graph!Alive
  <2>2. daemon'[d].pc = "compare" /\ \A x \in Readers \ {d} : daemon'[x] = daemon[x]
    BY <1>7, <1>0 DEF Graph!Sample, DaemonType
  <2> QED BY <1>7, <1>0, <2>1, <2>2, DaemonKeeps DEF Graph!Sample, Graph!readerVars
<1>8. CASE Graph!Compare(d)
  <2> DEFINE younger == daemon[d].time > db[Slots]
  <2>1. daemon' \in [Readers -> DaemonType] /\ Graph!Alive(d)
    <3>1. "shift" \in Graph!Places /\ "sleep" \in Graph!Places /\ 1 \in 0..Slots /\ 0 \in Graph!Time
      BY <1>0 DEF Graph!Places, Graph!Time
    <3>2. [daemon EXCEPT ![d].pc = "shift", ![d].slot = 1] \in [Readers -> DaemonType]
      BY <3>1, <1>0, DaemonTypes
    <3>3. [daemon EXCEPT ![d].pc = "sleep", ![d].time = 0] \in [Readers -> DaemonType]
      BY <3>1, <1>0, DaemonTypes
    <3> QED BY <3>2, <3>3, <1>8 DEF Graph!Compare, Graph!Alive
  <2>2. /\ \A x \in Readers \ {d} : daemon'[x] = daemon[x]
        /\ younger => daemon'[d].pc = "shift" /\ daemon'[d].slot = 1 /\ daemon'[d].time = daemon[d].time
        /\ ~younger => daemon'[d].pc = "sleep"
    BY <1>8, <1>0 DEF Graph!Compare, DaemonType
  <2>3. younger => db[Slots] <= daemon[d].time /\ 1 \in 1..Slots
    <3>1. Slots \in 1..Slots
      OBVIOUS
    <3>2. db[Slots] \in Nat /\ daemon[d].time \in Nat
      BY <3>1, <1>0
    <3> QED BY <3>2
  <2> HIDE DEF younger
  <2>4. UNCHANGED <<pidfile, file, db, Graph!readerVars>>
    BY <1>8 DEF Graph!Compare
  <2>5. daemon'[d].pc \in {"shift", "sleep"}
    BY <2>2
  <2>6. daemon'[d].pc = "shift" => daemon'[d].slot \in 1..Slots /\ db[Slots] <= daemon'[d].time
    BY <2>2, <2>3
  <2> QED BY <1>0, <2>1, <2>2, <2>4, <2>5, <2>6, DaemonKeeps
<1>9. CASE Graph!BusError(d)
  <2>1. daemon' \in [Readers -> DaemonType] /\ Graph!Alive(d)
    BY <1>9, <1>1 DEF Graph!BusError, Graph!Places, Graph!Alive
  <2>2. daemon'[d].pc = "ended" /\ \A x \in Readers \ {d} : daemon'[x] = daemon[x]
    BY <1>9, <1>0 DEF Graph!BusError, DaemonType
  <2> QED BY <1>9, <1>0, <2>1, <2>2, DaemonKeeps DEF Graph!BusError, Graph!readerVars
<1>10. CASE Graph!Shift(d)
  <2> DEFINE n == daemon[d].slot
  <2>1. n \in 1..Slots - 1
    BY <1>10, <1>0 DEF Graph!Shift, GraphInv, InRange
  <2>2. daemon' \in [Readers -> DaemonType] /\ Graph!Alive(d)
    <3>1. n + 1 \in 0..Slots
      BY <2>1, <1>0
    <3>2. daemon' = [daemon EXCEPT ![d].slot = n + 1]
      BY <1>10 DEF Graph!Shift
    <3>3. [daemon EXCEPT ![d].slot = n + 1] \in [Readers -> DaemonType]
      BY <3>1, <1>0, DaemonTypes
    <3> QED BY <3>2, <3>3, <1>10 DEF Graph!Shift, Graph!Alive
  <2>3. /\ \A x \in Readers \ {d} : daemon'[x] = daemon[x]
        /\ daemon'[d].pc = "shift" /\ daemon'[d].slot = n + 1 /\ daemon'[d].time = daemon[d].time
    BY <1>10, <1>0 DEF Graph!Shift, DaemonType
  <2>4. db' = [db EXCEPT ![n] = db[n + 1]] /\ UNCHANGED <<pidfile, file, Graph!readerVars>>
    BY <1>10 DEF Graph!Shift
  <2>5. db' \in [1..Slots -> Graph!Time] /\ db'[Slots] = db[Slots]
    BY <2>1, <2>4, <1>0
  <2>6. ASSUME ~twoLived
        PROVE  /\ db'[Slots] <= daemon'[d].time
               /\ InOrder' /\ \A j \in 1..Slots : db[j] <= db'[j]
    <3>1. InOrder /\ db[Slots] <= daemon[d].time
      BY <2>6, <1>10 DEF Graph!Shift, GraphInv, Alone
    <3>2. \A j \in 1..Slots : db[j] \in Nat
      BY <1>0
    <3> HIDE DEF n
    <3>5. /\ n \in 1..Slots /\ n + 1 \in 1..Slots /\ n < n + 1
          /\ db'[n] = db[n + 1] /\ \A i \in 1..Slots : i # n => db'[i] = db[i]
      BY <2>1, <2>4, <1>0
    <3>3. ASSUME NEW i \in 1..Slots, NEW j \in 1..Slots, i < j PROVE db'[i] <= db'[j]
      <4>1. CASE i = n
        <5>1. j # n /\ (j = n + 1 \/ n + 1 < j)
          BY <4>1, <3>3, <3>5
        <5> QED BY <5>1, <4>1, <3>1, <3>2, <3>5 DEF InOrder
      <4>2. CASE j = n
        <5>1. i # n /\ i < n + 1
          BY <4>2, <3>3, <3>5
        <5> QED BY <5>1, <4>2, <3>1, <3>5 DEF InOrder
      <4>3. CASE i # n /\ j # n
        BY <4>3, <3>3, <3>1, <3>5 DEF InOrder
      <4> QED BY <4>1, <4>2, <4>3
    <3>4. \A j \in 1..Slots : db[j] <= db'[j]
      BY <3>1, <3>2, <2>1, <2>4, <1>0 DEF InOrder
    <3> QED BY <3>1, <3>3, <3>4, <2>3, <2>5 DEF InOrder
  <2>7. n + 1 \in 1..Slots
    BY <2>1, <1>0
  <2> QED BY <2>2, <2>3, <2>4, <2>5, <2>6, <2>7, DaemonWrites
<1>11. CASE Graph!Store(d)
  <2>1. daemon' \in [Readers -> DaemonType] /\ Graph!Alive(d)
    <3>1. "sleep" \in Graph!Places /\ 0 \in 0..Slots /\ 0 \in Graph!Time
      BY <1>0 DEF Graph!Places, Graph!Time
    <3> QED BY <3>1, <1>11, <1>0, DaemonTypes DEF Graph!Store, Graph!Alive
  <2>2. daemon'[d].pc = "sleep" /\ \A x \in Readers \ {d} : daemon'[x] = daemon[x]
    BY <1>11, <1>0 DEF Graph!Store, DaemonType
  <2>3. db' = [db EXCEPT ![Slots] = daemon[d].time] /\ UNCHANGED <<pidfile, file, Graph!readerVars>>
    BY <1>11 DEF Graph!Store
  <2>4. db' \in [1..Slots -> Graph!Time]
    BY <2>3, <1>0
  <2>5. ASSUME ~twoLived
        PROVE  InOrder' /\ \A j \in 1..Slots : db[j] <= db'[j]
    <3>1. InOrder /\ db[Slots] <= daemon[d].time
      BY <2>5, <1>11 DEF Graph!Store, GraphInv, Alone
    <3>2. daemon[d].time \in Nat /\ \A j \in 1..Slots : db[j] \in Nat
      BY <1>0
    <3> QED BY <3>1, <3>2, <2>3, <1>0 DEF InOrder
  <2> QED BY <2>1, <2>2, <2>3, <2>4, <2>5, DaemonWrites
<1>12. CASE Graph!Sleep(d)
  <2>1. daemon' \in [Readers -> DaemonType] /\ Graph!Alive(d)
    <3> DEFINE pc == IF daemon[d].countdown > 0 THEN "stat" ELSE "unlink"
               n == IF daemon[d].countdown > 0 THEN daemon[d].countdown - 1 ELSE 0
    <3>1. pc \in Graph!Places /\ n \in 0..Patience
      BY <1>0 DEF Graph!Places
    <3>2. daemon' = [daemon EXCEPT ![d].pc = pc, ![d].countdown = n]
      BY <1>12, <1>0 DEF Graph!Sleep, DaemonType
    <3> HIDE DEF pc, n
    <3>3. [daemon EXCEPT ![d].pc = pc, ![d].countdown = n] \in [Readers -> DaemonType]
      BY <3>1, <1>0, DaemonTypes
    <3> QED BY <3>2, <3>3, <1>12 DEF Graph!Sleep, Graph!Alive
  <2>2. daemon'[d].pc \in {"stat", "unlink"} /\ \A x \in Readers \ {d} : daemon'[x] = daemon[x]
    BY <1>12, <1>0 DEF Graph!Sleep, DaemonType
  <2> QED BY <1>12, <1>0, <2>1, <2>2, DaemonKeeps DEF Graph!Sleep, Graph!readerVars
<1>13. CASE Graph!Unlink(d)
  <2>1. daemon' \in [Readers -> DaemonType] /\ Graph!Alive(d)
    BY <1>13, <1>1 DEF Graph!Unlink, Graph!Places, Graph!Alive
  <2>2. daemon'[d].pc = "ended" /\ \A x \in Readers \ {d} : daemon'[x] = daemon[x]
    BY <1>13, <1>0 DEF Graph!Unlink, DaemonType
  <2> QED BY <1>13, <1>0, <2>1, <2>2, DaemonKeeps DEF Graph!Unlink, Graph!readerVars
<1> QED BY <1>2, <1>3, <1>4, <1>5, <1>6, <1>7, <1>8, <1>9, <1>10, <1>11, <1>12, <1>13 DEF Graph!Daemon

LEMMA GraphInvariant == ASSUME Graph!BandwidthAssumption PROVE Graph!Spec => []GraphInv
<1>1. Graph!Init => GraphInv
  BY InitGraph
<1>2. GraphInv /\ [Graph!Next]_(Graph!vars) => GraphInv'
  <2> SUFFICES ASSUME GraphInv, [Graph!Next]_(Graph!vars) PROVE GraphInv'
    OBVIOUS
  <2>1. CASE Graph!Next
    BY <2>1, ReaderGraph, DaemonGraph DEF Graph!Next
  <2>2. CASE UNCHANGED Graph!vars
    BY <2>2 DEF Graph!vars, GraphInv, Graph!TypeOK, InRange, InOrder, Alone, Graph!Alive, Behind, Graph!Ascending
  <2> QED BY <2>1, <2>2
<1> QED BY <1>1, <1>2, PTL DEF Graph!Spec

(* The database is in order at every moment, in the middle of a shift and  *)
(* after the clock was set back as well, for any number of readers, slots  *)
(* and steps, unless two daemons have lived at once (update_file()).       *)
THEOREM DatabaseStaysOrdered ==
  ASSUME Graph!BandwidthAssumption PROVE Graph!Spec => []Graph!DatabaseOrdered
<1>1. ASSUME GraphInv PROVE Graph!DatabaseOrdered
  <2>1. db \in [1..Slots -> Graph!Time]
    BY <1>1 DEF GraphInv, Graph!TypeOK
  <2> QED BY <1>1, <2>1, DbLen DEF GraphInv, InOrder, Graph!DatabaseOrdered, Graph!Ascending
<1> QED BY <1>1, GraphInvariant, PTL

LEMMA RouterGraph == RouterSpec => Graph!Spec
<1>1. RouterInit => Graph!Init
  BY DEF RouterInit
<1>2. [RouterNext]_routerVars => [Graph!Next]_(Graph!vars)
  BY DEF RouterNext, routerVars, graphVars, Graph!vars
<1> QED BY <1>1, <1>2, PTL DEF RouterSpec, Graph!Spec, routerVars

(* No reader prints an older sample after a younger one, though the daemon *)
(* shifts the entries while it reads them, unless two daemons have lived   *)
(* at once (run_dump_*() against update_file()).                           *)
THEOREM ReadersPrintInOrder == RouterSpec => []ReadersSeeOrder
<1>1. GraphInv => ReadersSeeOrder
  BY DEF GraphInv, Behind, ReadersSeeOrder, Graph!ReadersSeeOrder
<1>2. Graph!Spec => []GraphInv
  BY GraphInvariant, MCAssumption
<1> QED BY <1>1, <1>2, RouterGraph, PTL

-----------------------------------------------------------------------------
(* The dispatcher (Dispatch)                                               *)

LEMMA Joining ==
  ASSUME NEW S, NEW s \in Seq(S), NEW t \in Seq(S)
  PROVE  s \o t \in Seq(S) /\ Len(s \o t) = Len(s) + Len(t)
OBVIOUS

LEMMA Tree ==
  ASSUME Dispatcher!TreeAssumption
  PROVE  /\ Len(Parent) \in Nat /\ Dispatcher!Nodes = 1..Len(Parent)
         /\ \A n \in 1..Len(Parent) : Parent[n] \in 0..Len(Parent) /\ Parent[n] < n
BY DEF Dispatcher!TreeAssumption, Dispatcher!Nodes

\* The path to a node is that to its parent and the node.
LEMMA PathStep ==
  ASSUME Dispatcher!TreeAssumption
  PROVE  Dispatcher!PathTo = [n \in 0..Len(Parent) |->
             IF n = 0 THEN <<>> ELSE Append(Dispatcher!PathTo[Parent[n]], n)]
<1> DEFINE N == Len(Parent)
           Ok(f, k) == f = [n \in 0..k |-> IF n = 0 THEN <<>> ELSE Append(f[Parent[n]], n)]
           Has(k) == \E f : Ok(f, k)
           T == {k \in 0..N : ~Has(k)}
<1>0. N \in Nat /\ \A n \in 1..N : Parent[n] \in 0..(n - 1)
  BY Tree
<1> HIDE DEF N, Has
<1>1. T = {}
  <2>1. ASSUME T # {} PROVE FALSE
    <3>0. T \in SUBSET Nat
      BY <1>0
    <3>1. PICK k \in T : \A m \in T : k <= m
      BY <2>1, <3>0, LeastNumber
    <3>2. k # 0
      <4>1. Ok([n \in 0..0 |-> <<>>], 0)
        OBVIOUS
      <4> QED BY <3>1, <4>1 DEF Has
    <3>3. k - 1 \in 0..N /\ k - 1 \notin T /\ k \in 1..N
      BY <1>0, <3>1, <3>2
    <3>4. PICK g : Ok(g, k - 1)
      BY <3>3 DEF Has
    <3> DEFINE f == [n \in 0..k |-> IF n = k THEN Append(g[Parent[k]], k) ELSE g[n]]
    <3>5. \A n \in 0..k : f[n] = IF n = 0 THEN <<>> ELSE Append(f[Parent[n]], n)
      <4> SUFFICES ASSUME NEW n \in 0..k PROVE f[n] = IF n = 0 THEN <<>> ELSE Append(f[Parent[n]], n)
        OBVIOUS
      <4>1. CASE n = 0
        BY <3>3, <3>4, <4>1
      <4>2. CASE n # 0
        <5>1. Parent[n] \in 0..(n - 1) /\ Parent[n] # k /\ Parent[n] \in 0..k
          BY <1>0, <3>3, <4>2
        <5>2. f[Parent[n]] = g[Parent[n]]
          BY <5>1
        <5>3. CASE n = k
          BY <4>2, <5>2, <5>3
        <5>4. CASE n # k
          <6>1. n \in 0..(k - 1)
            BY <3>3, <5>4
          <6>2. g[n] = Append(g[Parent[n]], n)
            BY <3>4, <4>2, <6>1
          <6> QED BY <4>2, <5>2, <5>4, <6>2
        <5> QED BY <5>3, <5>4
      <4> QED BY <4>1, <4>2
    <3>6. f = [n \in 0..k |-> IF n = 0 THEN <<>> ELSE Append(f[Parent[n]], n)]
      <4>1. f = [n \in 0..k |-> f[n]]
        OBVIOUS
      <4> HIDE DEF f
      <4> QED BY <3>5, <4>1
    <3> HIDE DEF f
    <3>7. Ok(f, k)
      BY <3>6
    <3> QED BY <3>1, <3>7 DEF Has
  <2> QED BY <2>1
<1>2. N \in 0..N /\ N \notin T
  BY <1>0, <1>1
<1>3. \E f : Ok(f, N)
  BY <1>2 DEF Has
<1>4. Dispatcher!Nodes \cup {0} = 0..N
  BY Tree, <1>0 DEF N
<1> QED
  BY <1>3, <1>4 DEF Dispatcher!PathTo, N

\* What makes a path one of the tree that ends at node n.
IsPath(p, n) ==
    /\ p \in Seq(1..Len(Parent))
    /\ n = 0 <=> p = <<>>
    /\ n # 0 => p[Len(p)] = n
    /\ \A i \in 1..Len(p) : p[i] <= n /\ Parent[p[i]] = IF i = 1 THEN 0 ELSE p[i - 1]
    /\ \A i, j \in 1..Len(p) : i < j => p[i] < p[j]

LEMMA PathsArePaths ==
  ASSUME Dispatcher!TreeAssumption
  PROVE  \A n \in 0..Len(Parent) : IsPath(Dispatcher!PathTo[n], n)
<1> DEFINE N == Len(Parent)
           P(n) == Dispatcher!PathTo[n]
           T == {n \in 0..N : ~IsPath(P(n), n)}
<1>0. N \in Nat /\ \A n \in 1..N : Parent[n] \in 0..(n - 1)
  BY Tree
<1>1. P(0) = <<>> /\ \A n \in 1..N : P(n) = Append(P(Parent[n]), n)
  BY <1>0, PathStep
<1> HIDE DEF N, P
<1>2. T \in SUBSET Nat
  BY <1>0
<1>3. ASSUME T # {} PROVE FALSE
  <2>1. PICK n \in T : \A m \in T : n <= m
    BY <1>2, <1>3, LeastNumber
  <2>2. CASE n = 0
    <3>1. P(0) = <<>> /\ <<>> \in Seq(1..Len(Parent)) /\ Len(<<>>) = 0
      BY <1>1
    <3>2. IsPath(<<>>, 0)
      BY <3>1 DEF IsPath
    <3> QED BY <2>1, <2>2, <3>1, <3>2
  <2>3. CASE n # 0
    <3> DEFINE up == Parent[n]
               q == P(up)
    <3>1. n \in 1..N /\ up \in 0..(n - 1) /\ up \in 0..N /\ P(n) = Append(q, n)
      BY <1>0, <1>1, <2>1, <2>3
    <3>2. IsPath(q, up)
      BY <2>1, <3>1
    <3> HIDE DEF up, q
    <3>3. q \in Seq(1..N) /\ Len(q) \in Nat
      BY <3>2 DEF IsPath, N
    <3>4. /\ P(n) \in Seq(1..N) /\ Len(P(n)) = Len(q) + 1 /\ P(n)[Len(q) + 1] = n
          /\ \A i \in 1..Len(q) : P(n)[i] = q[i]
      BY <3>1, <3>3
    <3>5. \A i \in 1..Len(q) : q[i] < n /\ q[i] \in 1..N
      <4>1. \A i \in 1..Len(q) : q[i] <= up
        BY <3>2 DEF IsPath
      <4>2. \A i \in 1..Len(q) : q[i] \in 1..N
        BY <1>0, <3>3
      <4> QED BY <1>0, <3>1, <4>1, <4>2
    <3>6. P(n) # <<>> /\ P(n)[Len(P(n))] = n
      BY <3>3, <3>4
    <3>7. Parent[n] = IF Len(q) + 1 = 1 THEN 0 ELSE q[Len(q)]
      <4>1. CASE up = 0
        BY <3>2, <4>1 DEF IsPath, up
      <4>2. CASE up # 0
        <5>1. q # <<>> /\ q[Len(q)] = up
          BY <3>2, <4>2 DEF IsPath
        <5>2. Len(q) # 0
          BY <3>3, <5>1
        <5> QED BY <3>3, <5>1, <5>2 DEF up
      <4> QED BY <4>1, <4>2
    <3>8. \A i \in 1..Len(P(n)) : /\ P(n)[i] <= n
                                  /\ Parent[P(n)[i]] = IF i = 1 THEN 0 ELSE P(n)[i - 1]
      <4> SUFFICES ASSUME NEW i \in 1..Len(P(n))
                   PROVE  P(n)[i] <= n /\ Parent[P(n)[i]] = IF i = 1 THEN 0 ELSE P(n)[i - 1]
        OBVIOUS
      <4>1. CASE i = Len(q) + 1
        BY <3>1, <3>3, <3>4, <3>7, <4>1
      <4>2. CASE i \in 1..Len(q)
        <5>1. Parent[q[i]] = IF i = 1 THEN 0 ELSE q[i - 1]
          BY <3>2, <4>2 DEF IsPath
        <5> QED BY <3>1, <3>3, <3>4, <3>5, <4>2, <5>1
      <4> QED BY <3>3, <3>4, <4>1, <4>2
    <3>9. \A i, j \in 1..Len(P(n)) : i < j => P(n)[i] < P(n)[j]
      <4>1. \A i, j \in 1..Len(q) : i < j => q[i] < q[j]
        BY <3>2 DEF IsPath
      <4> QED BY <3>3, <3>4, <3>5, <4>1
    <3> QED BY <2>1, <2>3, <3>4, <3>6, <3>8, <3>9 DEF IsPath, N
  <2> QED BY <2>2, <2>3
<1> QED BY <1>3 DEF N, P

\* A path that starts at the root and goes from parent to child is that to
\* its last node.
LEMMA ChainIsPath ==
  ASSUME Dispatcher!TreeAssumption, NEW p \in Seq(1..Len(Parent)),
         \A i \in 1..Len(p) : Parent[p[i]] = IF i = 1 THEN 0 ELSE p[i - 1]
  PROVE  \A i \in 1..Len(p) : Dispatcher!PathTo[p[i]] = SubSeq(p, 1, i)
<1> DEFINE P(n) == Dispatcher!PathTo[n]
           T == {i \in 1..Len(p) : P(p[i]) # SubSeq(p, 1, i)}
<1>1. P(0) = <<>> /\ \A n \in 1..Len(Parent) : P(n) = Append(P(Parent[n]), n)
  BY Tree, PathStep
<1>2. Len(p) \in Nat /\ \A i \in 1..Len(p) : p[i] \in 1..Len(Parent)
  OBVIOUS
<1> HIDE DEF P
<1>3. T \in SUBSET Nat
  BY <1>2
<1>4. ASSUME T # {} PROVE FALSE
  <2>1. PICK i \in T : \A j \in T : i <= j
    BY <1>3, <1>4, LeastNumber
  <2>2. i \in 1..Len(p)
    BY <2>1
  <2>3. CASE i = 1
    <3>1. P(p[1]) = Append(P(0), p[1])
      <4>1. p[1] \in 1..Len(Parent) /\ Parent[p[1]] = 0
        BY <1>2, <2>2, <2>3
      <4> QED BY <1>1, <4>1
    <3>2. SubSeq(p, 1, 0) = <<>>
      BY <1>2
    <3>3. SubSeq(p, 1, 1) = Append(SubSeq(p, 1, 0), p[1])
      BY <1>2, <2>2, <2>3
    <3> QED BY <1>1, <2>1, <2>3, <3>1, <3>2, <3>3
  <2>4. CASE i # 1
    <3>1. i - 1 \in 1..Len(p) /\ ~(i <= i - 1)
      BY <1>2, <2>2, <2>4
    <3>2. P(p[i - 1]) = SubSeq(p, 1, i - 1)
      BY <2>1, <3>1
    <3>3. P(p[i]) = Append(P(p[i - 1]), p[i])
      <4>1. p[i] \in 1..Len(Parent) /\ Parent[p[i]] = p[i - 1]
        BY <1>2, <2>2, <2>4
      <4> QED BY <1>1, <4>1
    <3>4. SubSeq(p, 1, i) = Append(SubSeq(p, 1, i - 1), p[i])
      BY <1>2, <2>2, <3>1
    <3> QED BY <2>1, <3>2, <3>3, <3>4
  <2> QED BY <2>3, <2>4
<1> QED BY <1>4 DEF P

\* The lightest of some nodes is one of them, and none is lighter.
LEMMA LightestIsThere ==
  ASSUME Dispatcher!TreeAssumption, NEW S \in SUBSET (1..Len(Parent)), S # {}
  PROVE  Dispatcher!Lightest(S) \in S
<1> DEFINE W(n) == Dispatcher!Weight(n)
           T == {W(n) : n \in S}
<1>1. ASSUME NEW n \in S PROVE W(n) \in Nat
  <2>1. n \in Nat /\ Dispatcher!Nodes = 1..Len(Parent) /\ Len(Parent) \in Nat
    BY Tree
  <2>2. Dispatcher!Cardinality(Dispatcher!Nodes) \in Nat
    <3>1. Dispatcher!Cardinality(1..Len(Parent)) = Cardinality(1..Len(Parent))
      BY DEF Dispatcher!Cardinality, Cardinality
    <3>2. Cardinality(1..Len(Parent)) \in Nat
      <4>1. 1 \in Int /\ Len(Parent) \in Int
        BY <2>1
      <4>2. IsFiniteSet(1..Len(Parent))
        BY ONLY <4>1, FS_Interval
      <4> QED BY ONLY <4>2, FS_CardinalityType
    <3> QED BY <2>1, <3>1, <3>2
  <2> QED BY <2>1, <2>2 DEF Dispatcher!Weight
<1> HIDE DEF W
<1>2. T \in SUBSET Nat /\ T # {}
  BY <1>1
<1>3. PICK w \in T : \A v \in T : w <= v
  BY <1>2, LeastNumber
<1>4. PICK n \in S : \A m \in S : W(n) <= W(m)
  BY <1>3
<1> QED BY <1>4 DEF Dispatcher!Lightest, W

\* The definition of FirstChild, in parts.
Seen(n, known) == known \/ Dispatcher!AuthOf(n) # "none"
Below(f, c, login, seen) ==
    IF Dispatcher!Leads(c) THEN f[c][login \/ Dispatcher!AuthOf(c) = "login"][seen] ELSE <<>>
Candidates(f, n, login, known) ==
    {c \in Dispatcher!Children(n) \ Hidden :
        /\ menu.satisfied[c]
        /\ \/ login \/ Dispatcher!AuthOf(c) = "login"
           \/ Dispatcher!Allowed(menu.acl[c],
                  IF Seen(n, known) THEN Dispatcher!session ELSE Dispatcher!NoSession)
        /\ Dispatcher!Leads(c) => Below(f, c, login, Seen(n, known)) # <<>>}
Best(f, n, login, known) == Dispatcher!Lightest(Candidates(f, n, login, known))
First(f, n, login, known) ==
    IF Candidates(f, n, login, known) = {} THEN <<>>
    ELSE <<Best(f, n, login, known)>> \o Below(f, Best(f, n, login, known), login, Seen(n, known))

Row(f, n) == [login \in BOOLEAN |-> [known \in BOOLEAN |-> First(f, n, login, known)]]

LEMMA FirstAgrees ==
  ASSUME Dispatcher!TreeAssumption, NEW f, NEW g, NEW n \in 0..Len(Parent),
         \A c \in (n + 1)..Len(Parent) : f[c] = g[c]
  PROVE  Row(f, n) = Row(g, n)
<1>1. \A c \in Dispatcher!Children(n) : c \in 1..Len(Parent) /\ c \in (n + 1)..Len(Parent)
  <2> SUFFICES ASSUME NEW c \in Dispatcher!Children(n)
               PROVE  c \in 1..Len(Parent) /\ c \in (n + 1)..Len(Parent)
    OBVIOUS
  <2>1. c \in 1..Len(Parent) /\ Parent[c] = n
    BY Tree DEF Dispatcher!Children
  <2>2. n < c /\ Len(Parent) \in Nat
    BY <2>1, Tree
  <2> QED BY <2>1, <2>2
<1>2. ASSUME NEW login \in BOOLEAN, NEW known \in BOOLEAN
      PROVE  First(f, n, login, known) = First(g, n, login, known)
  <2>1. \A c \in Dispatcher!Children(n) :
          Below(f, c, login, Seen(n, known)) = Below(g, c, login, Seen(n, known))
    BY <1>1 DEF Below
  <2>2. Candidates(f, n, login, known) = Candidates(g, n, login, known)
    BY <2>1 DEF Candidates
  <2>3. Best(f, n, login, known) = Best(g, n, login, known)
    BY <2>2 DEF Best
  <2>4. Candidates(f, n, login, known) # {} => Best(f, n, login, known) \in Dispatcher!Children(n)
    <3>1. Candidates(f, n, login, known) \subseteq Dispatcher!Children(n)
      BY DEF Candidates
    <3>2. Candidates(f, n, login, known) \in SUBSET (1..Len(Parent))
      BY <1>1, <3>1
    <3> QED BY <3>1, <3>2, LightestIsThere DEF Best
  <2> QED BY <2>1, <2>2, <2>3, <2>4 DEF First
<1> QED BY <1>2 DEF Row

\* The first child of a node depends on the first children of the nodes below.
LEMMA FirstStep ==
  ASSUME Dispatcher!TreeAssumption
  PROVE  Dispatcher!FirstChild = [n \in 0..Len(Parent) |-> Row(Dispatcher!FirstChild, n)]
<1> DEFINE N == Len(Parent)
           Ok(f, k) == f = [n \in k..N |-> Row(f, n)]
           Has(k) == \E f : Ok(f, k)
           T == {k \in 0..N : ~Has(k)}
<1>0. N \in Nat
  BY Tree
<1>1. Has(N)
  <2> DEFINE e == [x \in {} |-> 0]
             f == [n \in N..N |-> Row(e, n)]
  <2>1. \A n \in N..N : f[n] = Row(e, n)
    OBVIOUS
  <2>2. \A n \in N..N : n \in 0..N /\ (n + 1)..N = {}
    BY <1>0
  <2>3. f = [n \in N..N |-> f[n]]
    OBVIOUS
  <2> HIDE DEF f, e
  <2>4. \A n \in N..N : Row(f, n) = Row(e, n)
    BY <2>2, FirstAgrees
  <2>5. Ok(f, N)
    BY <2>1, <2>3, <2>4
  <2> QED BY <2>5
<1>2. ASSUME NEW k \in 1..N, Has(k) PROVE Has(k - 1)
  <2>1. PICK g : Ok(g, k)
    BY <1>2
  <2> DEFINE f == [n \in (k - 1)..N |-> Row(g, n)]
  <2>2. \A n \in (k - 1)..N : f[n] = Row(g, n)
    OBVIOUS
  <2>3. \A n \in k..N : g[n] = Row(g, n)
    BY <2>1
  <2>4. f = [n \in (k - 1)..N |-> f[n]]
    OBVIOUS
  <2> HIDE DEF f
  <2>5. \A n \in k..N : f[n] = g[n]
    BY <1>0, <2>2, <2>3
  <2>6. \A n \in (k - 1)..N : n \in 0..N /\ (n + 1)..N \subseteq k..N
    BY <1>0
  <2>7. \A n \in (k - 1)..N : Row(f, n) = Row(g, n)
    BY <2>5, <2>6, FirstAgrees
  <2>8. Ok(f, k - 1)
    BY <2>2, <2>4, <2>7
  <2> QED BY <2>8
<1> HIDE DEF Has
<1>3. ASSUME T # {} PROVE FALSE
  <2>1. PICK k \in T : \A m \in T : m <= k
    BY <1>0, <1>3, GreatestNumber
  <2>2. k + 1 \in 1..N /\ ~(k + 1 <= k) /\ (k + 1) - 1 = k
    BY <1>0, <1>1, <2>1
  <2>3. Has(k + 1)
    BY <2>1, <2>2
  <2>4. Has((k + 1) - 1)
    BY <1>2, <2>2, <2>3
  <2> QED BY <2>1, <2>2, <2>4
<1>4. 0 \in 0..N /\ Has(0)
  BY <1>0, <1>3
<1>5. PICK g : Ok(g, 0)
  BY <1>4 DEF Has
<1>6. Dispatcher!Nodes \cup {0} = 0..N
  BY Tree
<1>7. Dispatcher!FirstChild = CHOOSE f : f = [n \in Dispatcher!Nodes \cup {0} |-> Row(f, n)]
  BY Zenon DEF Dispatcher!FirstChild, Row, First, Best, Candidates, Below, Seen
<1>8. \E f : f = [n \in Dispatcher!Nodes \cup {0} |-> Row(f, n)]
  BY <1>5, <1>6
<1> QED BY <1>6, <1>7, <1>8

NoLogins == \A n \in Dispatcher!Nodes : Dispatcher!AuthOf(n) # "login"
HasAuth(p) == \E i \in 1..Len(p) : Dispatcher!AuthOf(p[i]) # "none"

\* What resolve_firstchild() finds below node n, if anything: satisfied nodes
\* down to a page.  Without logins all are allowed, by a session that is known.
IsFirst(p, n, login, known) ==
    /\ p \in Seq(1..Len(Parent))
    /\ p # <<>> => p[Len(p)] \in Pages
    /\ \A i \in 1..Len(p) : /\ menu.satisfied[p[i]]
                            /\ Parent[p[i]] = IF i = 1 THEN n ELSE p[i - 1]
    /\ ~login /\ NoLogins =>
         \A i \in 1..Len(p) : /\ Dispatcher!Allowed(menu.acl[p[i]], Dispatcher!session)
                              /\ menu.acl[p[i]] = {} \/ Seen(n, known) \/ HasAuth(p)

LEMMA FirstsAreFirst ==
  ASSUME Dispatcher!TreeAssumption
  PROVE  \A n \in 0..Len(Parent) : \A login, known \in BOOLEAN :
            IsFirst(Dispatcher!FirstChild[n][login][known], n, login, known)
<1> DEFINE N == Len(Parent)
           F == Dispatcher!FirstChild
           Fine(n) == \A login, known \in BOOLEAN : IsFirst(F[n][login][known], n, login, known)
           T == {n \in 0..N : ~Fine(n)}
<1>0. N \in Nat /\ Dispatcher!Nodes = 1..N /\ \A n \in 1..N : Parent[n] \in 0..N /\ Parent[n] < n
  BY Tree
<1>1. ASSUME NEW n \in 0..N, NEW login \in BOOLEAN, NEW known \in BOOLEAN
      PROVE  F[n][login][known] = First(F, n, login, known)
  BY FirstStep DEF Row
<1> HIDE DEF F, N
<1>2. ASSUME NEW n \in 0..N, \A c \in 0..N : n < c => Fine(c) PROVE Fine(n)
  <2> SUFFICES ASSUME NEW login \in BOOLEAN, NEW known \in BOOLEAN
               PROVE  IsFirst(F[n][login][known], n, login, known)
    OBVIOUS
  <2> DEFINE C == Candidates(F, n, login, known)
             p == First(F, n, login, known)
             s == Seen(n, known)
             c == Best(F, n, login, known)
             q == Below(F, c, login, s)
  <2>1. CASE C = {}
    <3>1. p = <<>> /\ <<>> \in Seq(1..Len(Parent)) /\ Len(<<>>) = 0
      BY <2>1 DEF First
    <3>2. IsFirst(<<>>, n, login, known)
      BY <3>1 DEF IsFirst
    <3> QED BY <1>1, <3>1, <3>2
  <2>2. CASE C # {}
    <3>1. C \in SUBSET (1..Len(Parent))
      BY <1>0 DEF Candidates, Dispatcher!Children, N
    <3>2. c \in C
      BY <2>2, <3>1, LightestIsThere DEF Best
    <3>3. /\ c \in 1..N /\ c \in 0..N /\ Parent[c] = n /\ n < c
          /\ menu.satisfied[c]
          /\ \/ login \/ Dispatcher!AuthOf(c) = "login"
             \/ Dispatcher!Allowed(menu.acl[c], IF s THEN Dispatcher!session ELSE Dispatcher!NoSession)
          /\ Dispatcher!Leads(c) => q # <<>>
      BY <1>0, <3>2 DEF Candidates, Dispatcher!Children
    <3>4. p = <<c>> \o q
      BY <2>2 DEF First
    <3> DEFINE into == login \/ Dispatcher!AuthOf(c) = "login"
    <3>5. s \in BOOLEAN /\ into \in BOOLEAN
      BY DEF Seen
    <3> HIDE DEF C, p, c
    <3>6. IsFirst(q, c, into, s) /\ (q = <<>> => c \in Pages)
      <4>1. CASE Dispatcher!Leads(c)
        <5>1. q = F[c][into][s]
          BY <4>1 DEF Below
        <5> QED BY <1>2, <3>3, <3>5, <4>1, <5>1
      <4>2. CASE ~Dispatcher!Leads(c)
        <5>1. q = <<>> /\ <<>> \in Seq(1..Len(Parent)) /\ Len(<<>>) = 0
          BY <4>2 DEF Below
        <5>2. IsFirst(<<>>, c, into, s)
          BY <5>1 DEF IsFirst
        <5>3. c \in Pages
          BY <4>2 DEF Dispatcher!Leads
        <5> QED BY <5>1, <5>2, <5>3
      <4> QED BY <4>1, <4>2
    <3> HIDE DEF q, s
    <3>7. q \in Seq(1..N) /\ Len(q) \in Nat
      BY <3>6 DEF IsFirst, N
    <3>8. /\ p \in Seq(1..N) /\ Len(p) = Len(q) + 1 /\ p[1] = c
          /\ \A i \in 2..Len(p) : i - 1 \in 1..Len(q) /\ p[i] = q[i - 1]
      BY <1>0, <3>3, <3>4, <3>7
    <3>9. p[Len(p)] \in Pages
      <4>1. CASE q = <<>>
        BY <3>6, <3>8, <4>1
      <4>2. CASE q # <<>>
        <5>1. Len(q) # 0 /\ q[Len(q)] \in Pages
          BY <3>6, <3>7, <4>2 DEF IsFirst
        <5> QED BY <3>7, <3>8, <5>1
      <4> QED BY <4>1, <4>2
    <3>10. \A i \in 1..Len(p) : /\ menu.satisfied[p[i]]
                                /\ Parent[p[i]] = IF i = 1 THEN n ELSE p[i - 1]
      <4> SUFFICES ASSUME NEW i \in 1..Len(p)
                   PROVE  menu.satisfied[p[i]] /\ Parent[p[i]] = IF i = 1 THEN n ELSE p[i - 1]
        OBVIOUS
      <4>1. CASE i = 1
        BY <3>3, <3>8, <4>1
      <4>2. CASE i # 1
        <5>1. i \in 2..Len(p) /\ i - 1 \in 1..Len(q) /\ p[i] = q[i - 1]
          BY <3>7, <3>8, <4>2
        <5>2. /\ menu.satisfied[q[i - 1]]
              /\ Parent[q[i - 1]] = IF i - 1 = 1 THEN c ELSE q[(i - 1) - 1]
          BY <3>6, <5>1 DEF IsFirst
        <5>3. p[i - 1] = IF i - 1 = 1 THEN c ELSE q[(i - 1) - 1]
          BY <3>7, <3>8, <5>1
        <5> QED BY <4>2, <5>1, <5>2, <5>3
      <4> QED BY <4>1, <4>2
    <3>11. ASSUME ~login, NoLogins, NEW i \in 1..Len(p)
           PROVE  /\ Dispatcher!Allowed(menu.acl[p[i]], Dispatcher!session)
                  /\ menu.acl[p[i]] = {} \/ s \/ HasAuth(p)
      <4>1. ~into
        BY <1>0, <3>3, <3>11 DEF NoLogins
      <4>2. CASE i = 1
        BY <3>3, <3>8, <4>1, <4>2 DEF Dispatcher!Allowed
      <4>3. CASE i # 1
        <5>1. i - 1 \in 1..Len(q) /\ p[i] = q[i - 1]
          BY <3>7, <3>8, <4>3
        <5>2. /\ Dispatcher!Allowed(menu.acl[q[i - 1]], Dispatcher!session)
              /\ menu.acl[q[i - 1]] = {} \/ Seen(c, s) \/ HasAuth(q)
          BY <3>6, <3>11, <4>1, <5>1 DEF IsFirst
        <5>3. Seen(c, s) => s \/ HasAuth(p)
          BY <3>7, <3>8 DEF Seen, HasAuth
        <5>4. HasAuth(q) => HasAuth(p)
          <6>1. \A j \in 1..Len(q) : j + 1 \in 1..Len(p) /\ p[j + 1] = q[j]
            BY <3>7, <3>8
          <6> QED BY <6>1 DEF HasAuth
        <5> QED BY <5>1, <5>2, <5>3, <5>4
      <4> QED BY <4>2, <4>3
    <3>12. ~login /\ NoLogins =>
             \A i \in 1..Len(p) : /\ Dispatcher!Allowed(menu.acl[p[i]], Dispatcher!session)
                                  /\ menu.acl[p[i]] = {} \/ s \/ HasAuth(p)
      BY <3>11
    <3>13. IsFirst(p, n, login, known)
      BY <3>8, <3>9, <3>10, <3>12 DEF IsFirst, s, N
    <3> QED BY <1>1, <3>13 DEF p
  <2> QED BY <2>1, <2>2
<1>3. ASSUME T # {} PROVE FALSE
  <2>1. PICK n \in T : \A m \in T : m <= n
    BY <1>0, <1>3, GreatestNumber
  <2>2. \A c \in 0..N : n < c => Fine(c)
    BY <1>0, <2>1
  <2> QED BY <1>2, <2>1, <2>2
<1> QED BY <1>3 DEF F, N

\* A request names a path of the tree, and perhaps an unknown node after it.
RequestFacts ==
    /\ path \in Seq(0..Len(Parent))
    /\ \A i \in 1..Len(path) : path[i] = 0 => i = Len(path)
    /\ \A i \in 1..Len(path) : path[i] # 0 => Parent[path[i]] = IF i = 1 THEN 0 ELSE path[i - 1]
    /\ \A i, j \in 1..Len(path) : i < j /\ path[j] # 0 => path[i] < path[j]

LEMMA RequestsAreRequests ==
  ASSUME Dispatcher!TreeAssumption, path \in Dispatcher!Requests
  PROVE  RequestFacts
<1>1. PICK n \in 0..Len(Parent) :
        path = Dispatcher!PathTo[n] \/ path = Append(Dispatcher!PathTo[n], 0)
  <2>1. Dispatcher!Nodes \cup {0} = 0..Len(Parent)
    BY Tree
  <2> QED BY <2>1 DEF Dispatcher!Requests
<1> DEFINE q == Dispatcher!PathTo[n]
<1>2. IsPath(q, n) /\ Len(Parent) \in Nat
  BY PathsArePaths, Tree
<1> HIDE DEF q
<1>3. q \in Seq(1..Len(Parent)) /\ Len(q) \in Nat
  BY <1>2 DEF IsPath
<1>4. \A i \in 1..Len(q) : q[i] \in 1..Len(Parent)
  BY <1>2, <1>3
<1>5. \A i \in 1..Len(q) : Parent[q[i]] = IF i = 1 THEN 0 ELSE q[i - 1]
  BY <1>2 DEF IsPath
<1>6. \A i, j \in 1..Len(q) : i < j => q[i] < q[j]
  BY <1>2 DEF IsPath
<1>7. CASE path = q
  BY <1>2, <1>3, <1>4, <1>5, <1>6, <1>7 DEF RequestFacts
<1>8. CASE path = Append(q, 0)
  <2>1. /\ path \in Seq(0..Len(Parent)) /\ Len(path) = Len(q) + 1 /\ path[Len(q) + 1] = 0
        /\ \A i \in 1..Len(q) : path[i] = q[i]
    BY <1>2, <1>3, <1>8
  <2>2. \A i \in 1..Len(path) : path[i] # 0 => i \in 1..Len(q)
    BY <1>3, <2>1
  <2>3. \A i \in 1..Len(path) : path[i] = 0 => i = Len(path)
    BY <1>3, <1>4, <2>1, SMTT(40)
  <2>4. \A i \in 1..Len(path) : path[i] # 0 => Parent[path[i]] = IF i = 1 THEN 0 ELSE path[i - 1]
    <3> SUFFICES ASSUME NEW i \in 1..Len(path), path[i] # 0
                 PROVE  Parent[path[i]] = IF i = 1 THEN 0 ELSE path[i - 1]
      OBVIOUS
    <3>1. i \in 1..Len(q) /\ path[i] = q[i] /\ (i # 1 => path[i - 1] = q[i - 1])
      <4>1. i \in 1..Len(q)
        BY <2>2
      <4>2. i # 1 => i - 1 \in 1..Len(q)
        BY <1>3, <4>1
      <4> QED BY <2>1, <4>1, <4>2
    <3>2. Parent[q[i]] = IF i = 1 THEN 0 ELSE q[i - 1]
      BY <1>5, <3>1
    <3> QED BY <3>1, <3>2
  <2>5. \A i, j \in 1..Len(path) : i < j /\ path[j] # 0 => path[i] < path[j]
    <3> SUFFICES ASSUME NEW i \in 1..Len(path), NEW j \in 1..Len(path), i < j, path[j] # 0
                 PROVE  path[i] < path[j]
      OBVIOUS
    <3>1. i \in 1..Len(q) /\ j \in 1..Len(q) /\ path[i] = q[i] /\ path[j] = q[j]
      BY <1>3, <2>1, <2>2, SMTT(40)
    <3> QED BY <1>6, <3>1
  <2> QED BY <2>1, <2>3, <2>4, <2>5 DEF RequestFacts
<1> QED BY <1>1, <1>7, <1>8 DEF q

\* resolve_page() follows the request as far as it can.
LEMMA Walking ==
  ASSUME path \in Seq(0..Len(Parent))
  PROVE  /\ Dispatcher!Walked \in 0..Len(path)
         /\ Dispatcher!Passes(Dispatcher!Walked)
         /\ \A j \in (Dispatcher!Walked + 1)..Len(path) : ~Dispatcher!Passes(j)
<1> DEFINE T == {k \in 0..Len(path) : Dispatcher!Passes(k)}
<1>1. Len(path) \in Nat
  OBVIOUS
<1>2. 0 \in T /\ T \in SUBSET (0..Len(path))
  BY <1>1 DEF Dispatcher!Passes
<1>3. PICK k \in T : \A m \in T : m <= k
  BY <1>1, <1>2, GreatestNumber
<1>4. \A j \in (k + 1)..Len(path) : ~Dispatcher!Passes(j)
  <2>1. \A j \in (k + 1)..Len(path) : j \in 0..Len(path) /\ ~(j <= k)
    BY <1>1, <1>3
  <2> QED BY <1>3, <2>1
<1>5. \E x \in 0..Len(path) : Dispatcher!Passes(x) /\ \A j \in (x + 1)..Len(path) : ~Dispatcher!Passes(j)
  BY <1>3, <1>4
<1> QED BY <1>5 DEF Dispatcher!Walked

\* What resolve_page() follows, and the node at which it stops.
LEMMA Following ==
  ASSUME Dispatcher!TreeAssumption, RequestFacts
  PROVE  LET w == Dispatcher!Walked
             passed == SubSeq(path, 1, w)
         IN  /\ w \in 0..Len(path)
             /\ passed \in Seq(1..Len(Parent)) /\ Len(passed) = w
             /\ \A i \in 1..w : /\ passed[i] = path[i] /\ path[i] \in 1..Len(Parent)
                                /\ menu.satisfied[path[i]]
                                /\ Parent[path[i]] = IF i = 1 THEN 0 ELSE path[i - 1]
             /\ Dispatcher!Reached \in SUBSET (0..Len(Parent))
             /\ \A n \in Dispatcher!Reached :
                  \/ n = 0 /\ path = <<>>
                  \/ w > 0 /\ n = path[w] /\ (w = Len(path) \/ n \in Wildcards)
                  \/ w < Len(path) /\ n = path[w + 1] /\ n # 0
<1> DEFINE w == Dispatcher!Walked
           passed == SubSeq(path, 1, w)
<1>1. path \in Seq(0..Len(Parent)) /\ Len(path) \in Nat /\ Len(Parent) \in Nat
  BY Tree DEF RequestFacts
<1>2. w \in 0..Len(path) /\ Dispatcher!Passes(w)
  BY <1>1, Walking
<1> HIDE DEF w
<1>3. \A i \in 1..w : path[i] \in 1..Len(Parent) /\ menu.satisfied[path[i]]
  <2>1. \A i \in 1..w : i \in 1..Len(path) /\ path[i] # 0 /\ menu.satisfied[path[i]]
    BY <1>1, <1>2 DEF Dispatcher!Passes
  <2> QED BY <1>1, <2>1
<1>4. /\ passed \in Seq(1..Len(Parent)) /\ Len(passed) = w
      /\ \A i \in 1..w : passed[i] = path[i]
  BY <1>1, <1>2, <1>3
<1>5. \A i \in 1..w : Parent[path[i]] = IF i = 1 THEN 0 ELSE path[i - 1]
  <2>1. \A i \in 1..w : i \in 1..Len(path) /\ path[i] # 0
    BY <1>1, <1>2, <1>3
  <2> QED BY <2>1 DEF RequestFacts
<1>6. ASSUME NEW n \in Dispatcher!Reached
      PROVE  /\ n \in 0..Len(Parent)
             /\ \/ n = 0 /\ path = <<>>
                \/ w > 0 /\ n = path[w] /\ (w = Len(path) \/ n \in Wildcards)
                \/ w < Len(path) /\ n = path[w + 1] /\ n # 0
  <2>1. CASE path = <<>>
    BY <1>1, <1>6, <2>1 DEF Dispatcher!Reached
  <2>2. CASE path # <<>> /\ (w = Len(path) \/ (w > 0 /\ path[w] \in Wildcards))
    <3>1. n = path[w]
      BY <1>6, <2>2 DEF Dispatcher!Reached, w
    <3>2. w > 0 /\ w \in 1..w
      BY <1>1, <1>2, <2>2
    <3> QED BY <1>1, <1>3, <2>2, <3>1, <3>2
  <2>3. CASE path # <<>> /\ ~(w = Len(path) \/ (w > 0 /\ path[w] \in Wildcards))
    <3>1. n = path[w + 1] /\ n # 0
      BY <1>6, <2>3 DEF Dispatcher!Reached, w
    <3>2. w < Len(path) /\ w + 1 \in 1..Len(path)
      BY <1>1, <1>2, <2>3
    <3> QED BY <1>1, <3>1, <3>2
  <2> QED BY <2>1, <2>2, <2>3
<1> QED BY <1>2, <1>3, <1>4, <1>5, <1>6 DEF w

\* A page that is found is at the end of a path of satisfied nodes, and what
\* the request names beyond it is below a page or a wildcard that it reached.
Followed(p) ==
    /\ p \in Seq(1..Len(Parent))
    /\ \A i \in 1..Len(p) : menu.satisfied[p[i]]
    /\ p # <<>> /\ p = Dispatcher!PathTo[p[Len(p)]] /\ p[Len(p)] \in Pages =>
         \A n \in Dispatcher!On(path) \ {0} :
            \/ n \in Dispatcher!On(p)
            \/ \E m \in Dispatcher!On(path) \ {0} : m < n /\ (m \in Wildcards \/ m \in Pages)

LEMMA ResolvedIsFollowed ==
  ASSUME Dispatcher!TreeAssumption, RequestFacts, Dispatcher!Resolve
  PROVE  /\ Followed(resolved'.path)
         /\ resolved'.session \in {Dispatcher!session, Dispatcher!NoSession}
         /\ resolved' = [done |-> TRUE, path |-> resolved'.path, session |-> resolved'.session]
         /\ UNCHANGED <<menu, path, cookie, alive, answer>>
<1> DEFINE w == Dispatcher!Walked
           passed == SubSeq(path, 1, w)
           N == Len(Parent)
<1>1. PICK first :
        /\ \/ first = <<>>
           \/ \E n \in Dispatcher!Reached \ Pages : \E login, known \in BOOLEAN :
                first = Dispatcher!FirstChild[n][login][known]
        /\ resolved'.path = passed \o first
        /\ resolved' = [done |-> TRUE, path |-> resolved'.path, session |-> resolved'.session]
        /\ resolved'.session \in {Dispatcher!session, Dispatcher!NoSession}
  <2> DEFINE isKnown == \E n \in Dispatcher!On(passed) : Dispatcher!AuthOf(n) # "none"
             isLogin == \E n \in Dispatcher!On(passed) : Dispatcher!AuthOf(n) = "login"
             firsts == {Dispatcher!FirstChild[n][isLogin][isKnown] : n \in Dispatcher!Reached \ Pages}
  <2>1. PICK first \in IF firsts = {} THEN {<<>>} ELSE firsts :
          resolved' = [done |-> TRUE, path |-> passed \o first,
                       session |-> IF isKnown THEN Dispatcher!session ELSE Dispatcher!NoSession]
    BY DEF Dispatcher!Resolve
  <2>2. isKnown \in BOOLEAN /\ isLogin \in BOOLEAN
    OBVIOUS
  <2> HIDE DEF isKnown, isLogin
  <2>3. \/ first = <<>>
        \/ \E n \in Dispatcher!Reached \ Pages : first = Dispatcher!FirstChild[n][isLogin][isKnown]
    BY <2>1
  <2> HIDE DEF firsts, passed
  <2>4. /\ resolved'.path = passed \o first
        /\ resolved' = [done |-> TRUE, path |-> resolved'.path, session |-> resolved'.session]
        /\ resolved'.session \in {Dispatcher!session, Dispatcher!NoSession}
    BY <2>1
  <2> QED BY <2>2, <2>3, <2>4
<1>2. UNCHANGED <<menu, path, cookie, alive, answer>>
  BY DEF Dispatcher!Resolve
<1>3. /\ w \in 0..Len(path) /\ passed \in Seq(1..N) /\ Len(passed) = w
      /\ \A i \in 1..w : /\ passed[i] = path[i] /\ path[i] \in 1..N /\ menu.satisfied[path[i]]
                         /\ Parent[path[i]] = IF i = 1 THEN 0 ELSE path[i - 1]
      /\ Dispatcher!Reached \in SUBSET (0..N)
      /\ \A n \in Dispatcher!Reached :
           \/ n = 0 /\ path = <<>>
           \/ w > 0 /\ n = path[w] /\ (w = Len(path) \/ n \in Wildcards)
           \/ w < Len(path) /\ n = path[w + 1] /\ n # 0
  BY Following
<1>4. path \in Seq(0..N) /\ Len(path) \in Nat /\ N \in Nat
  BY Tree DEF RequestFacts
<1> HIDE DEF w
<1> DEFINE p == passed \o first
<1>5. \/ first = <<>>
      \/ \E n \in Dispatcher!Reached \ Pages : \E login, known \in BOOLEAN :
           IsFirst(first, n, login, known)
  BY <1>1, <1>3, FirstsAreFirst DEF N
<1>6. /\ first \in Seq(1..N) /\ Len(first) \in Nat /\ \A i \in 1..Len(first) : menu.satisfied[first[i]]
      /\ first # <<>> => \E n \in Dispatcher!Reached \ Pages : Parent[first[1]] = n
  <2>1. CASE first = <<>>
    BY <2>1
  <2>2. CASE first # <<>>
    <3>1. PICK n \in Dispatcher!Reached \ Pages, login \in BOOLEAN, known \in BOOLEAN :
             IsFirst(first, n, login, known)
      BY <1>5, <2>2
    <3>2. first \in Seq(1..N) /\ \A i \in 1..Len(first) : menu.satisfied[first[i]]
      BY <3>1 DEF IsFirst, N
    <3>3. 1 \in 1..Len(first)
      BY <2>2, <3>2
    <3>4. Parent[first[1]] = n
      BY <3>1, <3>3 DEF IsFirst
    <3> QED BY <3>2, <3>4
  <2> QED BY <2>1, <2>2
<1> HIDE DEF N, passed
<1>7. /\ p \in Seq(1..N) /\ Len(p) = w + Len(first)
      /\ \A i \in 1..w : i \in 1..Len(p) /\ p[i] = path[i]
      /\ \A i \in 1..Len(first) : p[w + i] = first[i]
      /\ \A i \in 1..Len(p) : i \in 1..w \/ (i - w \in 1..Len(first) /\ p[i] = first[i - w])
  <2>1. w \in Nat /\ passed \in Seq(1..N) /\ Len(passed) = w
    BY <1>3, <1>4
  <2>2. /\ p \in Seq(1..N) /\ Len(p) = w + Len(first)
        /\ \A i \in 1..Len(p) : p[i] = IF i <= w THEN passed[i] ELSE first[i - w]
    <3>1. p \in Seq(1..N) /\ Len(p) = w + Len(first)
      BY <1>6, <2>1
    <3>2. \A i \in 1..(w + Len(first)) : p[i] = IF i <= w THEN passed[i] ELSE first[i - w]
      BY <1>6, <2>1
    <3> QED BY <3>1, <3>2
  <2> HIDE DEF p
  <2>3. \A i \in 1..w : i \in 1..Len(p) /\ p[i] = path[i]
    BY <1>3, <1>6, <2>1, <2>2
  <2>4. \A i \in 1..Len(first) : w + i \in 1..Len(p) /\ ~(w + i <= w) /\ (w + i) - w = i
    BY <1>6, <2>1, <2>2
  <2>5. \A i \in 1..Len(p) : i \in 1..w \/ (i - w \in 1..Len(first) /\ ~(i <= w))
    BY <1>6, <2>1, <2>2
  <2> QED BY <2>2, <2>3, <2>4, <2>5
<1>8. \A i \in 1..Len(p) : menu.satisfied[p[i]]
  <2> SUFFICES ASSUME NEW i \in 1..Len(p) PROVE menu.satisfied[p[i]]
    OBVIOUS
  <2>1. CASE i \in 1..w
    BY <1>3, <1>7, <2>1
  <2>2. CASE i - w \in 1..Len(first) /\ p[i] = first[i - w]
    BY <1>6, <2>2
  <2> QED BY <1>7, <2>1, <2>2
<1> HIDE DEF p
<1>9. ASSUME p # <<>>, p = Dispatcher!PathTo[p[Len(p)]], p[Len(p)] \in Pages,
             NEW i \in 1..Len(path), path[i] # 0
      PROVE  \/ path[i] \in Dispatcher!On(p)
             \/ \E m \in Dispatcher!On(path) \ {0} : m < path[i] /\ (m \in Wildcards \/ m \in Pages)
  <2>1. CASE i \in 1..w
    BY <1>7, <2>1 DEF Dispatcher!On
  <2>2. CASE i \notin 1..w
    <3>1. w < Len(path) /\ w < i
      BY <1>3, <1>4, <2>2
    <3>2. w > 0 => path[w] \in Dispatcher!On(path) \ {0} /\ path[w] < path[i]
      <4> SUFFICES ASSUME w > 0 PROVE path[w] \in Dispatcher!On(path) \ {0} /\ path[w] < path[i]
        OBVIOUS
      <4>1. w \in 1..w /\ w \in 1..Len(path)
        BY <1>3, <1>4
      <4>2. path[w] \in 1..N /\ path[w] < path[i]
        BY <1>3, <1>9, <3>1, <4>1 DEF RequestFacts
      <4> QED BY <4>1, <4>2, <1>4 DEF Dispatcher!On
    <3>3. CASE first = <<>>
      <4>1. Len(p) = w /\ w > 0
        BY <1>3, <1>4, <1>7, <1>9, <3>3
      <4>2. p[Len(p)] = path[w]
        BY <1>3, <1>4, <1>7, <4>1
      <4> QED BY <1>9, <3>2, <4>1, <4>2
    <3>4. CASE first # <<>>
      <4>1. PICK n \in Dispatcher!Reached \ Pages : Parent[first[1]] = n
        BY <1>6, <3>4
      <4>2. CASE w > 0 /\ n = path[w] /\ (w = Len(path) \/ n \in Wildcards)
        BY <3>1, <3>2, <4>2
      <4>3. CASE w < Len(path) /\ n = path[w + 1] /\ n # 0
        <5>1. 1 \in 1..Len(first) /\ w + 1 \in 1..Len(p) /\ p[w + 1] = first[1]
          <6>1. Len(first) \in Nat \ {0}
            BY <1>6, <3>4
          <6>2. 1 \in 1..Len(first)
            BY <6>1
          <6>3. w \in Nat /\ Len(p) = w + Len(first)
            BY <1>3, <1>4, <1>7
          <6>4. w + 1 \in 1..Len(p)
            BY <6>1, <6>3
          <6> QED BY <1>7, <6>2, <6>4
        <5>2. Len(p) \in 1..Len(p) /\ p[Len(p)] \in 0..N
          BY <1>4, <1>7, <1>9
        <5>3. IsPath(p, p[Len(p)])
          BY <1>9, <5>2, PathsArePaths DEF N
        <5>4. Parent[p[w + 1]] = IF w + 1 = 1 THEN 0 ELSE p[(w + 1) - 1]
          BY <5>1, <5>3 DEF IsPath
        <5>5. w > 0 => p[(w + 1) - 1] = path[w]
          BY <1>3, <1>4, <1>7
        <5>6. w > 0 => path[w] < path[w + 1]
          <6>1. w > 0 => w \in 1..Len(path) /\ w + 1 \in 1..Len(path) /\ w < w + 1
            BY <1>3, <1>4, <4>3
          <6> QED BY <4>3, <6>1 DEF RequestFacts
        <5>7. w > 0 => path[w] \in 1..N
          BY <1>3, <1>4
        <5> QED BY <1>3, <1>4, <4>1, <4>3, <5>1, <5>4, <5>5, <5>6, <5>7
      <4>4. path # <<>>
        BY <1>4
      <4> QED BY <1>3, <4>2, <4>3, <4>4
    <3> QED BY <3>3, <3>4
  <2> QED BY <2>1, <2>2
<1>10. Followed(p)
  <2>1. \A n \in Dispatcher!On(path) \ {0} : \E i \in 1..Len(path) : path[i] = n /\ path[i] # 0
    BY DEF Dispatcher!On
  <2> QED BY <1>7, <1>8, <1>9, <2>1 DEF Followed, N
<1> QED BY <1>1, <1>2, <1>10 DEF p

\* The page that runs.
PageRuns ==
    LET p == resolved.path
    IN  /\ resolved.done /\ p # <<>>
        /\ p = Dispatcher!PathTo[p[Len(p)]] /\ p[Len(p)] \in Pages
        /\ \A i \in 1..Len(p) : Dispatcher!Allowed(menu.acl[p[i]], cookie)

RequestInv ==
    /\ Dispatcher!TypeOK
    /\ resolved.session \in {cookie, Dispatcher!NoSession}
    /\ resolved.done => Followed(resolved.path)
    /\ answer = "page" => PageRuns

LEMMA ResolvedType ==
  ASSUME NEW done \in BOOLEAN, NEW p \in Seq(Dispatcher!Nodes),
         NEW known \in (SUBSET Groups) \cup {Dispatcher!NoSession}
  PROVE  [done |-> done, path |-> p, session |-> known] \in
           [done : BOOLEAN, path : Seq(Dispatcher!Nodes),
            session : (SUBSET Groups) \cup {Dispatcher!NoSession}]
OBVIOUS

LEMMA RequestStart ==
  ASSUME Dispatcher!TreeAssumption, Dispatcher!Init PROVE RequestInv
<1>1. <<>> \in Seq(Dispatcher!Nodes)
  OBVIOUS
<1>2. Dispatcher!TypeOK
  <2>1. /\ menu \in Dispatcher!Menus /\ path \in Dispatcher!Requests
        /\ cookie \in (SUBSET Groups) \cup {Dispatcher!NoSession} /\ alive \in BOOLEAN
        /\ answer \in Dispatcher!Answers
    BY DEF Dispatcher!Init, Dispatcher!Answers
  <2>2. resolved = [done |-> FALSE, path |-> <<>>, session |-> Dispatcher!NoSession]
    BY DEF Dispatcher!Init
  <2>3. Dispatcher!NoSession \in (SUBSET Groups) \cup {Dispatcher!NoSession}
    OBVIOUS
  <2> QED BY <1>1, <2>1, <2>2, <2>3, ResolvedType DEF Dispatcher!TypeOK
<1> QED BY <1>2 DEF RequestInv, Dispatcher!Init

LEMMA ResolveStep ==
  ASSUME Dispatcher!TreeAssumption, RequestInv, Dispatcher!Resolve
  PROVE  RequestInv'
<1>1. RequestFacts
  BY RequestsAreRequests DEF RequestInv, Dispatcher!TypeOK
<1>2. /\ Followed(resolved'.path)
      /\ resolved'.session \in {Dispatcher!session, Dispatcher!NoSession}
      /\ resolved' = [done |-> TRUE, path |-> resolved'.path, session |-> resolved'.session]
      /\ UNCHANGED <<menu, path, cookie, alive, answer>>
  BY <1>1, ResolvedIsFollowed
<1>3. resolved'.session \in {cookie, Dispatcher!NoSession}
  BY <1>2 DEF Dispatcher!session
<1>4. resolved'.path \in Seq(Dispatcher!Nodes)
  BY <1>2, Tree DEF Followed
<1>5. Dispatcher!TypeOK'
  <2>1. /\ menu' \in Dispatcher!Menus' /\ path' \in Dispatcher!Requests
        /\ cookie' \in (SUBSET Groups) \cup {Dispatcher!NoSession} /\ alive' \in BOOLEAN
        /\ answer' \in Dispatcher!Answers
    BY <1>2 DEF RequestInv, Dispatcher!TypeOK, Dispatcher!Menus
  <2>2. resolved'.session \in (SUBSET Groups) \cup {Dispatcher!NoSession}
    <3>1. cookie \in (SUBSET Groups) \cup {Dispatcher!NoSession}
      BY DEF RequestInv, Dispatcher!TypeOK
    <3> QED BY <1>3, <3>1
  <2>3. resolved' \in [done : BOOLEAN, path : Seq(Dispatcher!Nodes),
                       session : (SUBSET Groups) \cup {Dispatcher!NoSession}]
    BY <1>2, <1>4, <2>2, ResolvedType
  <2> QED BY <2>1, <2>3 DEF Dispatcher!TypeOK
<1>6. Followed(resolved.path)'
  BY <1>2 DEF Followed
<1>7. answer' # "page"
  BY <1>2 DEF Dispatcher!Resolve, RequestInv, PageRuns
<1> QED BY <1>2, <1>3, <1>5, <1>6, <1>7 DEF RequestInv

LEMMA AnswerStep ==
  ASSUME Dispatcher!TreeAssumption, RequestInv, Dispatcher!Answer
  PROVE  RequestInv'
<1> DEFINE p == resolved.path
<1>1. resolved.done /\ UNCHANGED <<menu, path, cookie, alive, resolved>>
  BY DEF Dispatcher!Answer
<1>2. Dispatcher!TypeOK'
  <2>1. answer' \in Dispatcher!Answers
    BY DEF Dispatcher!Answer, Dispatcher!Decision, Dispatcher!Answers
  <2> QED BY <1>1, <2>1 DEF RequestInv, Dispatcher!TypeOK, Dispatcher!Menus
<1>3. Followed(resolved.path)'
  BY <1>1 DEF RequestInv, Followed
<1>4. ASSUME answer' = "page" PROVE PageRuns
  <2>1. PICK g \in {cookie, Dispatcher!NoSession} :
          ~Dispatcher!Broken(p) /\ Dispatcher!Decision(p, g) = "page"
    BY <1>4 DEF Dispatcher!Answer, RequestInv, Dispatcher!session
  <2>2. Dispatcher!Allowed(Dispatcher!Acls(p), g) /\ p # <<>> /\ p[Len(p)] \in Pages
    BY <2>1 DEF Dispatcher!Decision, Dispatcher!Leads, Dispatcher!Last
  <2>3. p = Dispatcher!PathTo[p[Len(p)]]
    BY <2>1, <2>2 DEF Dispatcher!Broken, Dispatcher!Last
  <2>4. ASSUME NEW i \in 1..Len(p) PROVE Dispatcher!Allowed(menu.acl[p[i]], cookie)
    <3>1. menu.acl[p[i]] \subseteq Dispatcher!Acls(p)
      BY DEF Dispatcher!Acls, Dispatcher!On
    <3> QED BY <2>2, <3>1 DEF Dispatcher!Allowed
  <2> QED BY <1>1, <2>2, <2>3, <2>4 DEF PageRuns
<1>5. PageRuns => PageRuns'
  BY <1>1 DEF PageRuns, Dispatcher!Allowed
<1> QED BY <1>1, <1>2, <1>3, <1>4, <1>5 DEF RequestInv

LEMMA RequestStep ==
  ASSUME Dispatcher!TreeAssumption, RequestInv, [Dispatcher!Next]_requestVars
  PROVE  RequestInv'
<1>1. CASE Dispatcher!SessionLost \/ UNCHANGED requestVars
  <2>1. UNCHANGED <<menu, path, cookie, resolved, answer>> /\ alive' \in {alive, FALSE}
    BY <1>1 DEF Dispatcher!SessionLost, requestVars
  <2>2. Dispatcher!TypeOK'
    BY <2>1 DEF RequestInv, Dispatcher!TypeOK, Dispatcher!Menus
  <2> QED BY <2>1, <2>2 DEF RequestInv, Followed, PageRuns, Dispatcher!Allowed
<1> QED BY <1>1, ResolveStep, AnswerStep DEF Dispatcher!Next

LEMMA RunsIsAllowed == RequestInv => PageIsAllowed
<1> SUFFICES ASSUME RequestInv, answer = "page" PROVE PageIsAllowed
  BY DEF PageIsAllowed, Dispatcher!PageIsAllowed
<1> DEFINE p == resolved.path
<1>1. PageRuns /\ Followed(p)
  BY DEF RequestInv, PageRuns
<1>2. Dispatcher!PathTo[Dispatcher!Last(p)] = p
  BY <1>1 DEF PageRuns, Dispatcher!Last
<1>3. \A n \in Dispatcher!On(p) : menu.satisfied[n] /\ Dispatcher!Allowed(menu.acl[n], cookie)
  BY <1>1 DEF PageRuns, Followed, Dispatcher!On
<1> QED BY <1>1, <1>2, <1>3 DEF PageIsAllowed, Dispatcher!PageIsAllowed, PageRuns, Followed

\* The node at place j of a path, where the root comes first.
At(p, j) == IF j = 0 THEN 0 ELSE p[j]

\* Below a node on the way to a visible page that is not hidden, and without
\* logins, resolve_firstchild() finds something.
LEMMA SomethingIsFound ==
  ASSUME Dispatcher!TreeAssumption, NoLogins, alive,
         NEW n \in Dispatcher!Nodes, Dispatcher!Visible(n),
         NEW from \in 0..Len(Dispatcher!PathTo[n]),
         \A i \in (from + 1)..Len(Dispatcher!PathTo[n]) : Dispatcher!PathTo[n][i] \notin Hidden
  PROVE  \A j \in from..(Len(Dispatcher!PathTo[n]) - 1) : \A known \in BOOLEAN :
            ((\E i \in 1..j : Dispatcher!AuthOf(Dispatcher!PathTo[n][i]) # "none")
                => Seen(At(Dispatcher!PathTo[n], j), known))
            => Dispatcher!FirstChild[At(Dispatcher!PathTo[n], j)][FALSE][known] # <<>>
<1> DEFINE way == Dispatcher!PathTo[n]
           L == Len(way)
           F == Dispatcher!FirstChild
           Known(j, known) ==
             (\E i \in 1..j : Dispatcher!AuthOf(way[i]) # "none") => Seen(At(way, j), known)
           Found(j) == \A known \in BOOLEAN : Known(j, known) => F[At(way, j)][FALSE][known] # <<>>
           T == {j \in from..(L - 1) : ~Found(j)}
<1>1. n \in 1..Len(Parent) /\ Len(Parent) \in Nat /\ n # 0 /\ Dispatcher!Nodes = 1..Len(Parent)
  BY Tree
<1>2. IsPath(way, n)
  BY <1>1, PathsArePaths
<1>6. ASSUME NEW m \in 0..Len(Parent), NEW known \in BOOLEAN
      PROVE  F[m][FALSE][known] = First(F, m, FALSE, known)
  <2>1. ASSUME NEW login \in BOOLEAN PROVE F[m][login][known] = First(F, m, login, known)
    BY FirstStep DEF Row
  <2> QED BY <2>1
<1>7. from \in 0..L
  OBVIOUS
<1> HIDE DEF way, F
<1>3. /\ way \in Seq(1..Len(Parent)) /\ L \in Nat /\ L > 0 /\ way[L] = n
      /\ \A i \in 1..L : way[i] \in 1..Len(Parent)
      /\ \A i \in 1..L : Parent[way[i]] = IF i = 1 THEN 0 ELSE way[i - 1]
  <2>1. way \in Seq(1..Len(Parent)) /\ way # <<>> /\ way[L] = n
    BY <1>1, <1>2 DEF IsPath
  <2>2. \A i \in 1..L : Parent[way[i]] = IF i = 1 THEN 0 ELSE way[i - 1]
    BY <1>2 DEF IsPath
  <2> QED BY <1>1, <2>1, <2>2
<1>4. \A i \in 1..L : Dispatcher!PathTo[way[i]] = SubSeq(way, 1, i)
  BY <1>3, ChainIsPath
<1>5. \A j \in from..(L - 1) : At(way, j) \in 0..Len(Parent)
  BY <1>1, <1>3 DEF At
<1>8. ASSUME NEW j \in from..(L - 1), j + 1 <= L - 1 => Found(j + 1) PROVE Found(j)
  <2> SUFFICES ASSUME NEW known \in BOOLEAN, Known(j, known)
               PROVE  F[At(way, j)][FALSE][known] # <<>>
    OBVIOUS
  <2> DEFINE a == At(way, j)
             c == way[j + 1]
             s == Seen(a, known)
  <2>1. /\ j \in Nat /\ j + 1 \in 1..L /\ j + 1 \in (from + 1)..L
        /\ a \in 0..Len(Parent) /\ c \in 1..Len(Parent) /\ Parent[c] = a
    BY <1>1, <1>3, <1>5 DEF At
  <2>2. /\ c \in Dispatcher!Children(a) \ Hidden /\ menu.satisfied[c]
        /\ Dispatcher!Allowed(menu.acl[c], cookie)
        /\ menu.acl[c] # {} => \E b \in Dispatcher!On(Dispatcher!PathTo[a]) : Dispatcher!AuthOf(b) # "none"
    <3>1. c \in Dispatcher!On(way)
      BY <2>1 DEF Dispatcher!On
    <3>2. c \notin Hidden
      BY <2>1 DEF way
    <3> QED BY <1>1, <2>1, <3>1, <3>2 DEF Dispatcher!Visible, Dispatcher!Children, way
  <2>3. menu.acl[c] # {} => s
    <3>1. Dispatcher!PathTo[a] = SubSeq(way, 1, j)
      <4>1. CASE j = 0
        <5>1. SubSeq(way, 1, 0) = <<>>
          BY <1>3
        <5>2. Dispatcher!PathTo[0] = <<>>
          BY <1>1, PathStep
        <5> QED BY <4>1, <5>1, <5>2 DEF At
      <4>2. CASE j # 0
        BY <1>4, <2>1, <4>2 DEF At
      <4> QED BY <4>1, <4>2
    <3>2. \A b \in Dispatcher!On(SubSeq(way, 1, j)) : \E i \in 1..j : b = way[i]
      BY <1>3, <2>1 DEF Dispatcher!On
    <3> QED BY <2>2, <3>1, <3>2
  <2>4. Dispatcher!AuthOf(c) # "login"
    BY <1>1, <2>1 DEF NoLogins
  <2>5. Dispatcher!Leads(c) => F[c][FALSE][s] # <<>>
    <3> SUFFICES ASSUME Dispatcher!Leads(c) PROVE F[c][FALSE][s] # <<>>
      OBVIOUS
    <3>1. c # n
      BY DEF Dispatcher!Visible, Dispatcher!Leads
    <3>2. j + 1 <= L - 1 /\ At(way, j + 1) = c
      BY <1>3, <2>1, <3>1 DEF At
    <3>3. Known(j + 1, s)
      <4> SUFFICES ASSUME NEW i \in 1..(j + 1), Dispatcher!AuthOf(way[i]) # "none"
                   PROVE  Seen(c, s)
        BY <3>2
      <4>1. CASE i = j + 1
        BY <4>1 DEF Seen
      <4>2. CASE i # j + 1
        <5>1. i \in 1..j
          BY <2>1, <4>2
        <5> QED BY <5>1 DEF Seen
      <4> QED BY <4>1, <4>2
    <3>4. s \in BOOLEAN
      BY DEF Seen
    <3> QED BY <1>8, <3>2, <3>3, <3>4
  <2>6. c \in Candidates(F, a, FALSE, known)
    <3>1. Below(F, c, FALSE, s) = IF Dispatcher!Leads(c) THEN F[c][FALSE][s] ELSE <<>>
      BY <2>4 DEF Below
    <3>2. Dispatcher!Allowed(menu.acl[c], IF s THEN Dispatcher!session ELSE Dispatcher!NoSession)
      BY <2>2, <2>3 DEF Dispatcher!Allowed, Dispatcher!session
    <3> QED BY <2>2, <2>5, <3>1, <3>2 DEF Candidates
  <2> HIDE DEF a, c, s
  <2>7. First(F, a, FALSE, known) # <<>>
    <3>1. First(F, a, FALSE, known) = <<Best(F, a, FALSE, known)>>
             \o Below(F, Best(F, a, FALSE, known), FALSE, Seen(a, known))
      BY <2>6 DEF First
    <3> DEFINE b == Best(F, a, FALSE, known)
               q == Below(F, b, FALSE, Seen(a, known))
    <3>2. b \in 1..Len(Parent)
      <4>1. Candidates(F, a, FALSE, known) \in SUBSET (1..Len(Parent))
        BY <1>1 DEF Candidates, Dispatcher!Children
      <4> QED BY <2>6, <4>1, LightestIsThere DEF Best
    <3> HIDE DEF b
    <3>3. Seen(a, known) \in BOOLEAN /\ (FALSE \/ Dispatcher!AuthOf(b) = "login") \in BOOLEAN
      BY DEF Seen
    <3>4. q \in Seq(1..Len(Parent))
      <4>1. CASE Dispatcher!Leads(b)
        <5>1. q = F[b][FALSE \/ Dispatcher!AuthOf(b) = "login"][Seen(a, known)]
          BY <4>1 DEF Below
        <5>2. b \in 0..Len(Parent)
          BY <1>1, <3>2
        <5>3. IsFirst(q, b, FALSE \/ Dispatcher!AuthOf(b) = "login", Seen(a, known))
          BY <3>3, <5>1, <5>2, FirstsAreFirst DEF F
        <5> QED BY <5>3 DEF IsFirst
      <4>2. CASE ~Dispatcher!Leads(b)
        BY <4>2 DEF Below
      <4> QED BY <4>1, <4>2
    <3> HIDE DEF q
    <3>5. <<b>> \o q # <<>>
      BY <1>1, <3>2, <3>4
    <3> QED BY <3>1, <3>5 DEF b, q
  <2> QED BY <1>6, <2>1, <2>7 DEF a
<1> HIDE DEF Found
<1>9. ASSUME T # {} PROVE FALSE
  <2>1. T \in SUBSET (0..L)
    BY <1>3 DEF way
  <2>2. PICK j \in T : \A m \in T : m <= j
    BY <1>3, <1>9, <2>1, GreatestNumber
  <2>3. j + 1 <= L - 1 => Found(j + 1)
    <3>1. j + 1 <= L - 1 => j + 1 \in from..(L - 1) /\ ~(j + 1 <= j)
      BY <1>3, <1>7, <2>2
    <3> QED BY <2>2, <3>1
  <2> QED BY <1>8, <2>2, <2>3
<1>10. \A j \in from..(L - 1) : Found(j)
  BY <1>9
<1> QED BY <1>10 DEF Found, way, F

Wanted == NoLogins /\ \E n \in Dispatcher!Nodes : Dispatcher!Visible(n)

\* A path to a page that the session may see: its rights are known where a
\* node of the path asks for the cookie.
Served(p) ==
    /\ p # <<>> /\ p = Dispatcher!PathTo[p[Len(p)]] /\ p[Len(p)] \in Pages
    /\ \A i \in 1..Len(p) : /\ Dispatcher!Allowed(menu.acl[p[i]], cookie)
                            /\ menu.acl[p[i]] = {} \/ HasAuth(p)

ServeInv ==
    alive /\ Wanted =>
        /\ resolved.done => Served(resolved.path)
        /\ answer # "none" => answer = "page" \/ (cookie = Dispatcher!NoSession /\ answer = "forbidden")

\* On the way to a visible page, resolve_page() stops where the request ends
\* or at a wildcard.
LEMMA StopsOnTheWay ==
  ASSUME Dispatcher!TreeAssumption, RequestFacts,
         NEW n \in Dispatcher!Nodes, Dispatcher!Visible(n)
  PROVE  LET way == Dispatcher!PathTo[n]
             w == Dispatcher!Walked
         IN  /\ w \in 0..Len(way) /\ w <= Len(path)
             /\ SubSeq(path, 1, w) = SubSeq(way, 1, w)
             /\ \A i \in 1..w : path[i] = way[i]
             /\ Dispatcher!Reached = {At(way, w)}
<1> DEFINE way == Dispatcher!PathTo[n]
           w == Dispatcher!Walked
<1>1. path \in Seq(0..Len(Parent)) /\ Len(path) \in Nat /\ Len(Parent) \in Nat
  BY Tree DEF RequestFacts
<1>2. n \in 1..Len(Parent) /\ IsPath(way, n)
  BY Tree, PathsArePaths
<1>3. Len(path) <= Len(way) /\ SubSeq(path, 1, Len(path)) = SubSeq(way, 1, Len(path))
  BY DEF Dispatcher!Visible, Dispatcher!IsPrefix
<1>4. \A m \in Dispatcher!On(way) : menu.satisfied[m]
  BY DEF Dispatcher!Visible
<1>5. w \in 0..Len(path) /\ Dispatcher!Passes(w)
      /\ \A j \in (w + 1)..Len(path) : ~Dispatcher!Passes(j)
  BY <1>1, Walking
<1> HIDE DEF way, w
<1>6. way \in Seq(1..Len(Parent)) /\ Len(way) \in Nat
  BY <1>2 DEF IsPath
<1>7. \A i \in 1..Len(path) : path[i] = way[i]
  <2>1. \A i \in 1..Len(path) : SubSeq(path, 1, Len(path))[i] = path[i]
    BY <1>1
  <2>2. \A i \in 1..Len(path) : SubSeq(way, 1, Len(path))[i] = way[i]
    BY <1>1, <1>3, <1>6
  <2> QED BY <1>3, <2>1, <2>2
<1>8. \A i \in 1..Len(path) : path[i] \in 1..Len(Parent) /\ menu.satisfied[path[i]]
  <2> SUFFICES ASSUME NEW i \in 1..Len(path)
               PROVE  path[i] \in 1..Len(Parent) /\ menu.satisfied[path[i]]
    OBVIOUS
  <2>1. i \in 1..Len(way) /\ path[i] = way[i]
    BY <1>1, <1>3, <1>6, <1>7
  <2>2. way[i] \in Dispatcher!On(way)
    BY <2>1 DEF Dispatcher!On
  <2> QED BY <1>1, <1>4, <1>6, <2>1, <2>2
<1>9. w < Len(path) => w > 0 /\ path[w] \in Wildcards
  <2> SUFFICES ASSUME w < Len(path) PROVE w > 0 /\ path[w] \in Wildcards
    OBVIOUS
  <2>1. ~Dispatcher!Passes(w + 1)
    BY <1>1, <1>5
  <2>2. PICK i \in 1..(w + 1) : ~(/\ path[i] # 0 /\ menu.satisfied[path[i]]
                                  /\ i < w + 1 => path[i] \notin Wildcards)
    BY <2>1 DEF Dispatcher!Passes
  <2>3. i \in 1..Len(path) /\ path[i] # 0 /\ menu.satisfied[path[i]]
    BY <1>1, <1>5, <1>8
  <2>4. i \in 1..w /\ path[i] \in Wildcards
    BY <1>1, <1>5, <2>2, <2>3
  <2>5. ~(i < w)
    BY <1>5, <2>4 DEF Dispatcher!Passes
  <2>6. i = w
    BY <1>1, <1>5, <2>4, <2>5
  <2> QED BY <1>1, <1>5, <2>4, <2>6
<1>10. SubSeq(path, 1, w) = SubSeq(way, 1, w)
  BY <1>1, <1>3, <1>5, <1>6, <1>7
<1>11. \A i \in 1..w : path[i] = way[i]
  BY <1>1, <1>5, <1>7
<1>12. Dispatcher!Reached = {At(way, w)}
  <2>1. CASE path = <<>>
    <3>1. w = 0
      BY <1>5, <2>1
    <3> QED BY <2>1, <3>1 DEF Dispatcher!Reached, At
  <2>2. CASE path # <<>>
    <3>1. w > 0 /\ w \in 1..w /\ (w = Len(path) \/ (w > 0 /\ path[w] \in Wildcards))
      BY <1>1, <1>5, <1>9, <2>2
    <3>2. Dispatcher!Reached = {path[w]}
      BY <2>2, <3>1 DEF Dispatcher!Reached, w
    <3> QED BY <1>11, <3>1, <3>2 DEF At
  <2> QED BY <2>1, <2>2
<1>13. w \in 0..Len(way) /\ w <= Len(path)
  BY <1>1, <1>3, <1>5, <1>6
<1> QED BY <1>10, <1>11, <1>12, <1>13 DEF way, w

\* What is on the way to a visible page.
LEMMA WayOfVisible ==
  ASSUME Dispatcher!TreeAssumption, NEW n \in Dispatcher!Nodes, Dispatcher!Visible(n)
  PROVE  LET way == Dispatcher!PathTo[n]
         IN  /\ way \in Seq(1..Len(Parent)) /\ Len(way) \in Nat /\ Len(way) > 0
             /\ way[Len(way)] = n /\ n \in Pages
             /\ \A i \in 1..Len(way) : Dispatcher!PathTo[way[i]] = SubSeq(way, 1, i)
             /\ \A i, j \in 1..Len(way) : i < j => way[i] < way[j]
             /\ \A i \in 1..Len(way) : Parent[way[i]] = At(way, i - 1)
             /\ \A i \in 1..Len(way) : Dispatcher!Allowed(menu.acl[way[i]], cookie)
             /\ \A i \in 1..Len(way) : menu.acl[way[i]] # {} =>
                  \E j \in 1..(i - 1) : Dispatcher!AuthOf(way[j]) # "none"
<1> DEFINE way == Dispatcher!PathTo[n]
<1>1. n \in 1..Len(Parent) /\ IsPath(way, n) /\ n # 0
  BY Tree, PathsArePaths
<1>2. n \in Pages /\ (\A m \in Dispatcher!On(way) : Dispatcher!Allowed(menu.acl[m], cookie))
      /\ \A m \in Dispatcher!On(way) : menu.acl[m] # {} =>
           \E a \in Dispatcher!On(Dispatcher!PathTo[Parent[m]]) : Dispatcher!AuthOf(a) # "none"
  BY DEF Dispatcher!Visible
<1>0. Dispatcher!PathTo[0] = <<>>
  BY Tree, PathStep
<1> HIDE DEF way
<1>3. way \in Seq(1..Len(Parent)) /\ Len(way) \in Nat /\ Len(way) > 0 /\ way[Len(way)] = n
  BY <1>1 DEF IsPath
<1>4. \A i \in 1..Len(way) : Parent[way[i]] = IF i = 1 THEN 0 ELSE way[i - 1]
  BY <1>1 DEF IsPath
<1>5. \A i \in 1..Len(way) : Dispatcher!PathTo[way[i]] = SubSeq(way, 1, i)
  BY <1>3, <1>4, ChainIsPath
<1>6. \A i, j \in 1..Len(way) : i < j => way[i] < way[j]
  BY <1>1 DEF IsPath
<1>7. \A i \in 1..Len(way) : Parent[way[i]] = At(way, i - 1)
  BY <1>3, <1>4 DEF At
<1>8. ASSUME NEW i \in 1..Len(way)
      PROVE  /\ Dispatcher!Allowed(menu.acl[way[i]], cookie)
             /\ menu.acl[way[i]] # {} => \E j \in 1..(i - 1) : Dispatcher!AuthOf(way[j]) # "none"
  <2>1. way[i] \in Dispatcher!On(way)
    BY DEF Dispatcher!On
  <2>2. Dispatcher!PathTo[Parent[way[i]]] = SubSeq(way, 1, i - 1)
    <3>1. CASE i = 1
      <4>1. SubSeq(way, 1, 0) = <<>>
        BY <1>3
      <4>2. Parent[way[i]] = 0 /\ i - 1 = 0
        BY <1>4, <3>1
      <4> QED BY <1>0, <4>1, <4>2
    <3>2. CASE i # 1
      <4>1. i - 1 \in 1..Len(way)
        BY <1>3, <3>2
      <4> QED BY <1>4, <1>5, <3>2, <4>1
    <3> QED BY <3>1, <3>2
  <2>3. \A a \in Dispatcher!On(SubSeq(way, 1, i - 1)) : \E j \in 1..(i - 1) : a = way[j]
    BY <1>3 DEF Dispatcher!On
  <2>4. menu.acl[way[i]] # {} =>
          \E a \in Dispatcher!On(Dispatcher!PathTo[Parent[way[i]]]) : Dispatcher!AuthOf(a) # "none"
    BY <1>2, <2>1
  <2>5. Dispatcher!Allowed(menu.acl[way[i]], cookie)
    BY <1>2, <2>1
  <2> QED BY <2>2, <2>3, <2>4, <2>5
<1> QED BY <1>2, <1>3, <1>5, <1>6, <1>7, <1>8 DEF way

LEMMA ServeResolved ==
  ASSUME Dispatcher!TreeAssumption, RequestFacts, alive, Wanted, Dispatcher!Resolve
  PROVE  Served(resolved'.path)
<1>1. PICK n \in Dispatcher!Nodes : Dispatcher!Visible(n)
  BY DEF Wanted
<1> DEFINE way == Dispatcher!PathTo[n]
           w == Dispatcher!Walked
           passed == SubSeq(path, 1, w)
           known == \E m \in Dispatcher!On(passed) : Dispatcher!AuthOf(m) # "none"
           login == \E m \in Dispatcher!On(passed) : Dispatcher!AuthOf(m) = "login"
           a == At(way, w)
           found == Dispatcher!FirstChild[a][login][known]
           N == Len(Parent)
<1>2. /\ w \in 0..Len(way) /\ w <= Len(path) /\ passed = SubSeq(way, 1, w)
      /\ \A i \in 1..w : path[i] = way[i]
      /\ Dispatcher!Reached = {a}
  BY <1>1, StopsOnTheWay
<1>3. /\ way \in Seq(1..N) /\ Len(way) \in Nat /\ Len(way) > 0
      /\ way[Len(way)] = n /\ n \in Pages
      /\ \A i \in 1..Len(way) : Dispatcher!PathTo[way[i]] = SubSeq(way, 1, i)
      /\ \A i, j \in 1..Len(way) : i < j => way[i] < way[j]
      /\ \A i \in 1..Len(way) : Parent[way[i]] = At(way, i - 1)
      /\ \A i \in 1..Len(way) : Dispatcher!Allowed(menu.acl[way[i]], cookie)
      /\ \A i \in 1..Len(way) : menu.acl[way[i]] # {} =>
           \E j \in 1..(i - 1) : Dispatcher!AuthOf(way[j]) # "none"
  BY <1>1, WayOfVisible
<1>4. resolved'.path = passed \o (IF a \in Pages THEN <<>> ELSE found)
  <2> DEFINE firsts == {Dispatcher!FirstChild[m][login][known] : m \in Dispatcher!Reached \ Pages}
  <2>1. \E first \in IF firsts = {} THEN {<<>>} ELSE firsts :
          resolved' = [done |-> TRUE, path |-> passed \o first,
                       session |-> IF known THEN Dispatcher!session ELSE Dispatcher!NoSession]
    BY DEF Dispatcher!Resolve
  <2>2. firsts = IF a \in Pages THEN {} ELSE {found}
    BY <1>2
  <2> HIDE DEF firsts, passed, known, found
  <2>3. PICK first \in IF firsts = {} THEN {<<>>} ELSE firsts : resolved'.path = passed \o first
    BY <2>1
  <2>4. first = IF a \in Pages THEN <<>> ELSE found
    BY <2>2
  <2> QED BY <2>3, <2>4
<1>5. /\ passed \in Seq(1..N) /\ Len(passed) = w /\ w \in Nat /\ N \in Nat
      /\ \A i \in 1..w : passed[i] = way[i] /\ i \in 1..Len(way)
  <2>1. N \in Nat /\ w \in Nat
    BY <1>2, Tree
  <2> HIDE DEF way, w, N
  <2>2. SubSeq(way, 1, w) \in Seq(1..N) /\ Len(SubSeq(way, 1, w)) = w
        /\ \A i \in 1..w : SubSeq(way, 1, w)[i] = way[i] /\ i \in 1..Len(way)
    BY <1>2, <1>3, <2>1, SMTT(40)
  <2> QED BY <1>2, <2>1, <2>2
<1>6. known \in BOOLEAN /\ ~login
  <2>1. \A m \in Dispatcher!On(passed) : m \in Dispatcher!Nodes
    BY <1>5, Tree DEF Dispatcher!On
  <2> QED BY <2>1 DEF Wanted, NoLogins
<1>7. known <=> HasAuth(passed)
  BY <1>5 DEF HasAuth, Dispatcher!On
<1>8. ASSUME NEW i \in 1..w
      PROVE  /\ Dispatcher!Allowed(menu.acl[passed[i]], cookie)
             /\ menu.acl[passed[i]] # {} => HasAuth(passed)
  <2>1. \A j \in 1..(i - 1) : j \in 1..w
    BY <1>5
  <2> HIDE DEF way, w, passed
  <2>2. \A j \in 1..w : passed[j] = way[j] /\ j \in 1..Len(way)
    BY <1>5
  <2>3. Dispatcher!Allowed(menu.acl[way[i]], cookie)
    BY <1>3, <2>2
  <2>4. menu.acl[way[i]] # {} => \E j \in 1..w : Dispatcher!AuthOf(way[j]) # "none"
    BY <1>3, <2>1, <2>2
  <2> QED BY <1>5, <2>2, <2>3, <2>4 DEF HasAuth
<1> HIDE DEF way, w, passed, known, found
<1>9. CASE a \in Pages
  <2>1. passed = resolved'.path
    BY <1>4, <1>5, <1>9
  <2>2. w > 0
    <3>1. 0 \notin Pages
      BY Tree DEF Dispatcher!TreeAssumption
    <3> QED BY <1>5, <1>9, <3>1 DEF At
  <2>3. w \in 1..w /\ w \in 1..Len(way) /\ passed[w] = way[w] /\ a = way[w]
    BY <1>5, <2>2 DEF At
  <2>4. Dispatcher!PathTo[way[w]] = SubSeq(way, 1, w)
    BY <1>3, <2>3
  <2>5. passed # <<>> /\ passed = Dispatcher!PathTo[passed[Len(passed)]] /\ passed[Len(passed)] \in Pages
    BY <1>2, <1>5, <1>9, <2>2, <2>3, <2>4
  <2> QED BY <1>5, <1>8, <2>1, <2>5 DEF Served
<1>10. CASE a \notin Pages
  <2> DEFINE p == passed \o found
  <2>1. w < Len(way) /\ w \in w..(Len(way) - 1) /\ a \in 0..N
    <3>1. w # Len(way)
      BY <1>3, <1>10 DEF At
    <3>2. a \in 0..N
      BY <1>2, <1>3, <1>5 DEF At
    <3> QED BY <1>2, <1>3, <1>5, <3>1, <3>2
  <2>2. \A i \in (w + 1)..Len(way) : way[i] \notin Hidden
    <3> SUFFICES ASSUME NEW i \in (w + 1)..Len(way) PROVE way[i] \notin Hidden
      OBVIOUS
    <3>1. i \in 1..Len(way) /\ \A j \in 1..w : j < i /\ j \in 1..Len(way)
      BY <1>3, <1>5
    <3>2. \A j \in 1..w : way[j] < way[i] /\ way[j] \in Nat /\ way[i] \in Nat
      <4>1. \A j \in 1..Len(way) : way[j] \in Nat
        BY <1>3, <1>5
      <4> QED BY <1>3, <3>1, <4>1
    <3>3. way[i] \notin Dispatcher!On(passed)
      BY <1>5, <3>2 DEF Dispatcher!On
    <3>4. way[i] \in Dispatcher!On(way)
      BY <3>1 DEF Dispatcher!On
    <3> QED BY <1>1, <3>3, <3>4 DEF Dispatcher!Visible, way, passed, w
  <2>3. (\E i \in 1..w : Dispatcher!AuthOf(way[i]) # "none") => Seen(a, known)
    BY <1>5, <1>7 DEF HasAuth, Seen
  <2>4. found # <<>>
    <3>1. NoLogins /\ w \in 0..Len(way)
      BY <1>2 DEF Wanted
    <3>2. Dispatcher!FirstChild[a][FALSE][known] # <<>>
      BY <1>1, <1>6, <2>1, <2>2, <2>3, <3>1, SomethingIsFound DEF way
    <3> QED BY <1>6, <3>2 DEF found
  <2>5. IsFirst(found, a, FALSE, known)
    BY <1>6, <2>1, FirstsAreFirst DEF found, N
  <2>6. /\ found \in Seq(1..N) /\ Len(found) \in Nat /\ Len(found) > 0
        /\ found[Len(found)] \in Pages
        /\ \A i \in 1..Len(found) : Parent[found[i]] = IF i = 1 THEN a ELSE found[i - 1]
    <3>1. found \in Seq(1..N) /\ found[Len(found)] \in Pages
      BY <2>4, <2>5 DEF IsFirst
    <3>2. \A i \in 1..Len(found) : Parent[found[i]] = IF i = 1 THEN a ELSE found[i - 1]
      BY <2>5 DEF IsFirst
    <3> QED BY <2>4, <3>1, <3>2
  <2>7. /\ p \in Seq(1..N) /\ Len(p) = w + Len(found)
        /\ \A i \in 1..w : i \in 1..Len(p) /\ p[i] = passed[i]
        /\ \A i \in 1..Len(found) : p[w + i] = found[i]
        /\ \A i \in 1..Len(p) : i \in 1..w \/ (i - w \in 1..Len(found) /\ p[i] = found[i - w])
    <3>0. passed \in Seq(1..N) /\ Len(passed) = w /\ found \in Seq(1..N)
      BY <1>5, <2>6
    <3>1. p \in Seq(1..N) /\ Len(p) = w + Len(found)
      BY <3>0, Joining
    <3>2. \A i \in 1..(w + Len(found)) : p[i] = IF i <= w THEN passed[i] ELSE found[i - w]
      BY <1>5, <2>6
    <3> HIDE DEF p
    <3>3. \A i \in 1..w : i \in 1..Len(p) /\ p[i] = passed[i]
      BY <1>5, <2>6, <3>1, <3>2
    <3>4. \A i \in 1..Len(found) : w + i \in 1..Len(p) /\ ~(w + i <= w) /\ (w + i) - w = i
      BY <1>5, <2>6, <3>1
    <3>5. \A i \in 1..Len(p) : i \in 1..w \/ (i - w \in 1..Len(found) /\ ~(i <= w))
      BY <1>5, <2>6, <3>1
    <3> QED BY <3>1, <3>2, <3>3, <3>4, <3>5
  <2>8. HasAuth(passed) \/ HasAuth(found) => HasAuth(p)
    <3>1. \A i \in 1..w : i \in 1..Len(p) /\ p[i] = passed[i]
      BY <2>7
    <3>2. \A i \in 1..Len(found) : w + i \in 1..Len(p) /\ p[w + i] = found[i]
      BY <1>5, <2>6, <2>7
    <3> HIDE DEF p
    <3> QED BY <1>5, <3>1, <3>2 DEF HasAuth
  <2> HIDE DEF p
  <2>9. \A i \in 1..Len(p) : Parent[p[i]] = IF i = 1 THEN 0 ELSE p[i - 1]
    <3> SUFFICES ASSUME NEW i \in 1..Len(p) PROVE Parent[p[i]] = IF i = 1 THEN 0 ELSE p[i - 1]
      OBVIOUS
    <3>1. CASE i \in 1..w
      <4>1. i \in 1..Len(way) /\ p[i] = way[i] /\ (i # 1 => i - 1 \in 1..w)
        BY <1>5, <2>7, <3>1
      <4>2. i # 1 => p[i - 1] = way[i - 1]
        BY <1>5, <2>7, <4>1
      <4>3. Parent[way[i]] = At(way, i - 1)
        BY <1>3, <4>1
      <4> QED BY <4>1, <4>2, <4>3 DEF At
    <3>2. CASE i - w \in 1..Len(found) /\ p[i] = found[i - w]
      <4>1. CASE i - w = 1
        <5>1. Parent[p[i]] = a
          BY <2>6, <3>2, <4>1
        <5>2. w # 0 => w \in 1..w /\ p[w] = way[w]
          BY <1>5, <2>7
        <5>3. i - 1 = w /\ (i = 1 <=> w = 0)
          BY <1>5, <4>1
        <5> QED BY <5>1, <5>2, <5>3 DEF At
      <4>2. CASE i - w # 1
        <5>1. (i - w) - 1 \in 1..Len(found) /\ w + ((i - w) - 1) = i - 1 /\ i # 1
          BY <1>5, <2>6, <3>2, <4>2
        <5>2. p[i - 1] = found[(i - w) - 1]
          BY <2>7, <5>1
        <5> QED BY <2>6, <3>2, <4>2, <5>1, <5>2
      <4> QED BY <4>1, <4>2
    <3> QED BY <2>7, <3>1, <3>2
  <2>10. Len(p) \in 1..Len(p) /\ p # <<>> /\ p[Len(p)] = found[Len(found)]
    <3>1. Len(p) \in 1..Len(p) /\ Len(found) \in 1..Len(found)
      BY <1>5, <2>6, <2>7
    <3> QED BY <2>7, <3>1
  <2>11. p = Dispatcher!PathTo[p[Len(p)]]
    <3>1. Dispatcher!PathTo[p[Len(p)]] = SubSeq(p, 1, Len(p))
      BY <2>7, <2>9, <2>10, ChainIsPath DEF N
    <3>2. SubSeq(p, 1, Len(p)) = p
      BY <2>7
    <3> QED BY <3>1, <3>2
  <2>12. ASSUME NEW i \in 1..Len(p)
         PROVE  /\ Dispatcher!Allowed(menu.acl[p[i]], cookie)
                /\ menu.acl[p[i]] = {} \/ HasAuth(p)
    <3>1. CASE i \in 1..w
      BY <1>8, <2>7, <2>8, <3>1
    <3>2. CASE i - w \in 1..Len(found) /\ p[i] = found[i - w]
      <4>1. /\ Dispatcher!Allowed(menu.acl[p[i]], Dispatcher!session)
            /\ menu.acl[p[i]] = {} \/ Seen(a, known) \/ HasAuth(found)
        BY <2>5, <3>2 DEF IsFirst, Wanted
      <4>2. Seen(a, known) => HasAuth(passed)
        <5>1. w = 0 => Dispatcher!AuthOf(a) = "none"
          <6>1. 0 \notin Guarded
            BY Tree DEF Dispatcher!TreeAssumption
          <6> QED BY <6>1 DEF Dispatcher!AuthOf, At
        <5>2. w # 0 => w \in 1..w /\ passed[w] = a
          BY <1>5 DEF At
        <5> QED BY <1>5, <1>7, <5>1, <5>2 DEF Seen, HasAuth
      <4> QED BY <2>8, <4>1, <4>2 DEF Dispatcher!session
    <3> QED BY <2>7, <3>1, <3>2
  <2>13. Served(p)
    BY <2>6, <2>10, <2>11, <2>12 DEF Served
  <2> QED BY <1>4, <1>10, <2>13 DEF p
<1> QED BY <1>9, <1>10

\* A path to such a page is answered with it.
LEMMA ServeAnswered ==
  ASSUME RequestInv, alive, NoLogins, Dispatcher!Answer, Served(resolved.path)
  PROVE  answer' = "page" \/ (cookie = Dispatcher!NoSession /\ answer' = "forbidden")
<1> DEFINE p == resolved.path
           g == IF resolved.session # Dispatcher!NoSession THEN resolved.session ELSE Dispatcher!session
<1>1. ~Dispatcher!Broken(p) /\ p # <<>> /\ ~Dispatcher!Leads(Dispatcher!Last(p))
  BY DEF Served, Dispatcher!Broken, Dispatcher!Leads, Dispatcher!Last
<1>2. \A k : Dispatcher!Allowed(Dispatcher!Acls(p), k) => Dispatcher!Decision(p, k) = "page"
  BY <1>1 DEF Dispatcher!Decision
<1>3. p \in Seq(Dispatcher!Nodes) /\ Len(p) \in Nat
  BY DEF RequestInv, Dispatcher!TypeOK
<1>4. Dispatcher!session = cookie /\ resolved.session \in {cookie, Dispatcher!NoSession}
  BY DEF RequestInv, Dispatcher!session
<1> HIDE DEF p
<1>5. CASE ~HasAuth(p)
  <2>1. Dispatcher!Auth(p) = "none"
    BY <1>5 DEF Dispatcher!Auth, HasAuth
  <2>2. Dispatcher!Acls(p) = {}
    <3>1. \A i \in 1..Len(p) : menu.acl[p[i]] = {}
      BY <1>5 DEF Served, p
    <3> QED BY <3>1 DEF Dispatcher!Acls, Dispatcher!On
  <2>3. answer' = Dispatcher!Decision(p, resolved.session)
    BY <1>1, <2>1 DEF Dispatcher!Answer, p
  <2> QED BY <1>2, <2>2, <2>3 DEF Dispatcher!Allowed
<1>6. CASE HasAuth(p)
  <2>1. Dispatcher!Auth(p) = "cookie"
    <3> DEFINE with == {i \in 1..Len(p) : Dispatcher!AuthOf(p[i]) # "none"}
               last == CHOOSE i \in with : \A j \in with : j <= i
    <3>1. with \in SUBSET (0..Len(p)) /\ with # {}
      BY <1>3, <1>6 DEF HasAuth
    <3>2. last \in with
      BY <1>3, <3>1, GreatestNumber
    <3>3. Dispatcher!Auth(p) = Dispatcher!AuthOf(p[last])
      BY <3>1 DEF Dispatcher!Auth
    <3> HIDE DEF last
    <3>4. p[last] \in Dispatcher!Nodes /\ Dispatcher!AuthOf(p[last]) \notin {"none", "login"}
      BY <1>3, <3>2 DEF NoLogins
    <3>5. Dispatcher!AuthOf(p[last]) \in {"none", "cookie", "login"}
      BY DEF RequestInv, Dispatcher!TypeOK, Dispatcher!Menus, Dispatcher!AuthOf
    <3> QED BY <3>3, <3>4, <3>5
  <2>2. CASE Dispatcher!session = Dispatcher!NoSession
    BY <1>1, <1>4, <2>1, <2>2 DEF Dispatcher!Answer, p
  <2>3. CASE Dispatcher!session # Dispatcher!NoSession
    <3>1. answer' = Dispatcher!Decision(p, g)
      BY <1>1, <2>1, <2>3 DEF Dispatcher!Answer, p
    <3>2. g = cookie /\ cookie # Dispatcher!NoSession
      BY <1>4, <2>3
    <3>3. \A i \in 1..Len(p) : menu.acl[p[i]] \subseteq cookie
      BY DEF Served, Dispatcher!Allowed, p
    <3>4. Dispatcher!Acls(p) \subseteq cookie
      BY <3>3 DEF Dispatcher!Acls, Dispatcher!On
    <3> QED BY <1>2, <3>1, <3>2, <3>4 DEF Dispatcher!Allowed
  <2> QED BY <2>2, <2>3
<1> QED BY <1>5, <1>6

LEMMA ServeStep ==
  ASSUME Dispatcher!TreeAssumption, RequestInv, ServeInv, [Dispatcher!Next]_requestVars
  PROVE  ServeInv'
<1> SUFFICES ASSUME alive', Wanted'
             PROVE  /\ resolved'.done => Served(resolved.path)'
                    /\ answer' # "none" =>
                         answer' = "page" \/ (cookie' = Dispatcher!NoSession /\ answer' = "forbidden")
  BY DEF ServeInv, Dispatcher!NoSession
<1>1. UNCHANGED <<menu, path, cookie>> /\ (alive' => alive)
  BY DEF Dispatcher!Next, Dispatcher!Resolve, Dispatcher!Answer, Dispatcher!SessionLost, requestVars,
     RequestInv, Dispatcher!TypeOK
<1>2. alive /\ Wanted
  <2>1. NoLogins
    BY <1>1 DEF Wanted, NoLogins, Dispatcher!AuthOf
  <2>2. \A k : Dispatcher!Passes(k)' <=> Dispatcher!Passes(k)
    BY <1>1 DEF Dispatcher!Passes
  <2>3. Dispatcher!Walked' = Dispatcher!Walked
    BY <1>1 DEF Dispatcher!Walked, Dispatcher!Passes
  <2>4. \A n : Dispatcher!Visible(n)' => Dispatcher!Visible(n)
    BY <1>1, <2>3 DEF Dispatcher!Visible, Dispatcher!AuthOf, Dispatcher!Allowed
  <2> QED BY <1>1, <2>1, <2>4 DEF Wanted
<1>3. \A p : Served(p) => Served(p)'
  BY <1>1 DEF Served, Dispatcher!Allowed, HasAuth, Dispatcher!AuthOf
<1>4. CASE Dispatcher!Resolve
  <2>1. RequestFacts
    BY RequestsAreRequests DEF RequestInv, Dispatcher!TypeOK
  <2>2. Served(resolved'.path)
    BY <1>2, <1>4, <2>1, ServeResolved
  <2> QED BY <1>1, <1>2, <1>4, <2>2 DEF ServeInv, Dispatcher!Resolve, Served, Dispatcher!Allowed, HasAuth, Dispatcher!AuthOf
<1>5. CASE Dispatcher!Answer
  <2>1. resolved.done /\ UNCHANGED resolved /\ Served(resolved.path)
    BY <1>2, <1>5 DEF ServeInv, Dispatcher!Answer
  <2>2. answer' = "page" \/ (cookie = Dispatcher!NoSession /\ answer' = "forbidden")
    BY <1>2, <1>5, <2>1, ServeAnswered DEF Wanted
  <2> QED BY <1>1, <1>3, <2>1, <2>2 DEF Served, Dispatcher!Allowed, HasAuth, Dispatcher!AuthOf
<1>6. CASE Dispatcher!SessionLost \/ UNCHANGED requestVars
  <2>1. UNCHANGED <<resolved, answer>>
    BY <1>6 DEF Dispatcher!SessionLost, requestVars
  <2> QED BY <1>1, <1>2, <2>1 DEF ServeInv, Served, Dispatcher!Allowed, HasAuth, Dispatcher!AuthOf
<1> QED BY <1>4, <1>5, <1>6 DEF Dispatcher!Next

LEMMA AnswerIsServed == ServeInv => AllowedIsServed
BY DEF ServeInv, Wanted, NoLogins, AllowedIsServed, Dispatcher!AllowedIsServed

\* What the other parts do leaves the request alone.
LEMMA RouterRequest == RouterSpec => Dispatcher!Init /\ [][Dispatcher!Next]_requestVars
<1>1. RouterInit => Dispatcher!Init
  <2>1. RequestRests => Dispatcher!Init
    <3> SUFFICES ASSUME RequestRests PROVE Dispatcher!Init
      OBVIOUS
    <3>1. menu \in Dispatcher!Menus
      <4>1. menu = [satisfied |-> [n \in DOMAIN Parent |-> TRUE],
                    acl |-> [n \in DOMAIN Parent |-> {}], auth |-> [n \in Guarded |-> "none"]]
        BY DEF RequestRests
      <4>2. [n \in DOMAIN Parent |-> TRUE] \in [DOMAIN Parent -> BOOLEAN]
        OBVIOUS
      <4>3. [n \in DOMAIN Parent |-> {}] \in [DOMAIN Parent -> SUBSET Groups]
        OBVIOUS
      <4>4. [n \in Guarded |-> "none"] \in [Guarded -> {"none", "cookie", "login"}]
        OBVIOUS
      <4> QED BY <4>1, <4>2, <4>3, <4>4 DEF Dispatcher!Menus, Dispatcher!Nodes
    <3>2. path \in Dispatcher!Requests
      <4>1. Dispatcher!PathTo[0] = <<>>
        BY MCAssumption, Tree, PathStep
      <4> QED BY <4>1 DEF RequestRests, Dispatcher!Requests
    <3> QED BY <3>1, <3>2 DEF RequestRests, Dispatcher!Init
  <2> QED BY <2>1 DEF RouterInit
<1>2. [RouterNext]_routerVars => [Dispatcher!Next]_requestVars
  BY DEF RouterNext, routerVars, requestVars
<1> QED BY <1>1, <1>2, PTL DEF RouterSpec, routerVars

LEMMA RequestInvariant == RouterSpec => [](RequestInv /\ ServeInv)
<1>1. Dispatcher!Init => RequestInv /\ ServeInv
  BY RequestStart, MCAssumption DEF ServeInv, Dispatcher!Init
<1>2. RequestInv /\ ServeInv /\ [Dispatcher!Next]_requestVars => (RequestInv /\ ServeInv)'
  BY RequestStep, ServeStep, MCAssumption
<1> QED BY <1>1, <1>2, RouterRequest, PTL

\* The page that runs is the one the request points to, every node on the way
\* to it is satisfied, and the session had the rights all of them ask for, for
\* every menu tree, and though the session may end at any moment (dispatch(),
\* resolve_page() of dispatcher.uc).
THEOREM OnlyAllowedPagesRun == RouterSpec => []PageIsAllowed
BY RequestInvariant, RunsIsAllowed, PTL

\* A request below which there is a page that the session may see is answered
\* with a page, whatever the siblings ask for, unless a node offers a login
\* (resolve_firstchild() of dispatcher.uc).
THEOREM AllowedPagesRun == RouterSpec => []AllowedIsServed
BY RequestInvariant, AnswerIsServed, PTL

-----------------------------------------------------------------------------
(* The reverse lookup (RrDns)                                              *)

Context == [rest : Seq(Addrs \cup {Bad}), asked : SUBSET Addrs,
            ids : SUBSET Query, net : SUBSET Query, skipped : BOOLEAN, collided : BOOLEAN]

\* the queries that are outstanding are on the network, where an id names one
\* query as long as none was drawn twice
Known(c) ==
    /\ c.ids \subseteq c.net
    /\ ~c.collided => \A p, q \in c.net : p.id = q.id => p = q

\* at most n queries are outstanding
Outstanding(c, n) == IsFiniteSet(c.ids) /\ n \in Nat /\ Cardinality(c.ids) <= n

LookupInv ==
    /\ TypeOK
    /\ Known(ctx)
    /\ AnswersAreOwn
    /\ EarlyMeansAll
    /\ state = "called" => ctx.ids = {}
    /\ \E n \in Nat : Outstanding(ctx, n) /\ n + todo <= limit

\* the next query keeps what is known, and may be one more
LEMMA NextKeeps ==
  ASSUME NEW c \in Context, Known(c), NEW d \in NextQueries(c), NEW n \in Nat, Outstanding(c, n)
  PROVE  /\ d \in Context /\ Known(d) /\ Outstanding(d, n + 1)
         /\ ~d.collided => ~c.collided
         /\ d.ids = {} => d.rest = <<>> \/ d.skipped
<1>0. IsFiniteSet(c.ids) /\ Cardinality(c.ids) \in Nat /\ Cardinality(c.ids) <= n /\ Outstanding(c, n + 1)
  <2>1. IsFiniteSet(c.ids) /\ Cardinality(c.ids) <= n
    BY DEF Outstanding
  <2>2. Cardinality(c.ids) \in Nat
    BY <2>1, FS_CardinalityType
  <2> QED BY <2>1, <2>2 DEF Outstanding
<1>1. CASE c.rest = <<>>
  BY <1>0, <1>1 DEF NextQueries
<1>2. CASE c.rest # <<>>
  <2> DEFINE a == Head(c.rest)
  <2>1. c.rest \in Seq(Addrs \cup {Bad}) /\ Tail(c.rest) \in Seq(Addrs \cup {Bad}) /\ a \in Addrs \cup {Bad}
    BY <1>2 DEF Context
  <2>2. CASE d = [c EXCEPT !.rest = Tail(@), !.skipped = TRUE]
    <3>1. d \in Context /\ d.ids = c.ids /\ d.net = c.net /\ d.collided = c.collided /\ d.skipped
      BY <2>1, <2>2 DEF Context
    <3> QED BY <3>1, <1>0 DEF Known, Outstanding
  <2>3. ASSUME NEW id \in Ids, a # Bad, d = Ask(c, a, id)
        PROVE  d \in Context /\ Known(d) /\ Outstanding(d, n + 1) /\ d.ids # {}
               /\ (~d.collided => ~c.collided)
    <3> DEFINE q == [id |-> id, addr |-> a]
    <3>1. q \in Query
      BY <2>1, <2>3 DEF Query
    <3>2. /\ d.ids = c.ids \/ d.ids = c.ids \cup {q}
          /\ d.net = c.net \cup {q}
          /\ d.collided = (c.collided \/ \E x \in c.net : x.id = id)
          /\ d.ids # {}
      BY <2>3 DEF Ask, Context, Pending
    <3>3. d \in Context
      BY <2>1, <2>3, <3>1 DEF Ask, Context
    <3>4. Known(d)
      <4>1. d.ids \subseteq d.net
        BY <3>2 DEF Known
      <4>2. ASSUME ~d.collided, NEW x \in d.net, NEW y \in d.net, x.id = y.id PROVE x = y
        <5>1. ~c.collided /\ \A z \in c.net : z.id # id
          BY <3>2, <4>2
        <5> QED BY <3>2, <4>2, <5>1 DEF Known
      <4> QED BY <4>1, <4>2 DEF Known
    <3>5. Outstanding(d, n + 1)
      <4>1. IsFiniteSet(c.ids \cup {q})
            /\ (Cardinality(c.ids \cup {q}) = Cardinality(c.ids)
                \/ Cardinality(c.ids \cup {q}) = Cardinality(c.ids) + 1)
        BY <1>0, FS_AddElement
      <4>2. Outstanding(c, n + 1) /\ Cardinality(c.ids \cup {q}) <= n + 1
        BY <1>0, <4>1
      <4> QED BY <3>2, <4>1, <4>2 DEF Outstanding
    <3> QED BY <3>2, <3>3, <3>4, <3>5
  <2> QED BY <1>2, <2>2, <2>3 DEF NextQueries
<1> QED BY <1>1, <1>2

\* an outstanding query is answered, or given up, and the next one is sent
LEMMA HandledKeeps ==
  ASSUME LookupInv, DnsAssumption, state = "waiting", NEW q \in ctx.ids, NEW names \in SUBSET Addrs,
         ~ctx.collided => names \subseteq {q.addr}, Handled(q, names)
  PROVE  LookupInv'
<1> DEFINE c == [ctx EXCEPT !.ids = @ \ {q}]
<1> USE DEF DnsAssumption
<1>0. /\ ctx \in Context /\ q \in Query /\ limit \in Nat /\ todo \in Nat
      /\ state' \in {"answered", "waiting"} /\ answers \subseteq Addrs \X Addrs
  BY DEF LookupInv, TypeOK, Context, Handled
<1>1. PICK n \in Nat : Outstanding(ctx, n) /\ n + todo <= limit
  BY DEF LookupInv
<1>2. c \in Context /\ Known(c) /\ (~c.collided <=> ~ctx.collided)
  BY <1>0 DEF Context, Known, LookupInv
<1>3. n - 1 \in Nat /\ Outstanding(c, n - 1)
  <2>1. IsFiniteSet(ctx.ids) /\ Cardinality(ctx.ids) \in Nat /\ Cardinality(ctx.ids) <= n
    BY <1>1, FS_CardinalityType DEF Outstanding
  <2>2. IsFiniteSet(c.ids) /\ Cardinality(c.ids) = Cardinality(ctx.ids) - 1
    BY <2>1, <1>0, FS_RemoveElement DEF Context
  <2>3. Cardinality(c.ids) \in Nat
    BY <2>2, FS_CardinalityType
  <2> QED BY <2>1, <2>2, <2>3 DEF Outstanding
<1>4. ctx' \in NextQueries(c)
  BY DEF Handled
<1> HIDE DEF c
<1>5. /\ ctx' \in Context /\ Known(ctx') /\ Outstanding(ctx', n)
      /\ ~ctx'.collided => ~ctx.collided
      /\ ctx'.ids = {} => ctx'.rest = <<>> \/ ctx'.skipped
  <2>1. n - 1 + 1 = n
    OBVIOUS
  <2> QED BY <1>2, <1>3, <1>4, <2>1, NextKeeps
<1>6. answers' \subseteq Addrs \X Addrs
  BY <1>0 DEF Handled, Query
<1>7. TypeOK'
  BY <1>0, <1>5, <1>6 DEF TypeOK, Context, Handled, LookupInv
<1>8. AnswersAreOwn'
  BY <1>0, <1>5, <1>6 DEF AnswersAreOwn, Handled, LookupInv
<1>9. EarlyMeansAll'
  BY <1>5 DEF EarlyMeansAll, Handled
<1>10. Known(ctx)' /\ \E m \in Nat : Outstanding(ctx, m)' /\ m + todo' <= limit'
  BY <1>1, <1>5 DEF Handled, Known, Outstanding
<1> QED BY <1>0, <1>7, <1>8, <1>9, <1>10 DEF LookupInv

LEMMA InitLookup == DnsAssumption /\ Init => LookupInv
<1> SUFFICES ASSUME DnsAssumption, Init PROVE LookupInv
  OBVIOUS
<1>1. PICK list \in Lists :
        ctx = [rest |-> list, asked |-> {}, ids |-> {}, net |-> {}, skipped |-> FALSE, collided |-> FALSE]
  BY DEF Init
<1>2. list \in Seq(Addrs \cup {Bad})
  BY DEF Lists, DnsAssumption
<1>3. TypeOK
  <2>1. ctx \in Context
    BY <1>1, <1>2 DEF Context
  <2>2. 0 \in 0..MaxLimit
    BY DEF DnsAssumption
  <2> QED BY <2>1, <2>2 DEF TypeOK, Init, Context
<1>4. Outstanding(ctx, 0) /\ 0 + todo <= limit
  BY <1>1, FS_EmptySet DEF Outstanding, Init, DnsAssumption
<1> QED BY <1>1, <1>3, <1>4 DEF LookupInv, Known, AnswersAreOwn, EarlyMeansAll, Init

LEMMA NextLookup == DnsAssumption /\ LookupInv /\ [Next]_vars => LookupInv'
<1> SUFFICES ASSUME DnsAssumption, LookupInv, [Next]_vars PROVE LookupInv'
  OBVIOUS
<1>0. ctx \in Context /\ limit \in Nat /\ todo \in Nat /\ answers \subseteq Addrs \X Addrs
  BY DEF LookupInv, TypeOK, Context, DnsAssumption
<1>1. PICK n \in Nat : Outstanding(ctx, n) /\ n + todo <= limit
  BY DEF LookupInv
<1>2. CASE Lookup
  <2>1. /\ UNCHANGED <<limit, ctx, answers, reused>> /\ ctx.ids = {}
        /\ \/ state' = "refused" /\ todo' = todo
           \/ state' = "asking" /\ todo' = limit /\ limit \in 1..MaxLimit
    BY <1>2 DEF Lookup, LookupInv
  <2>2. TypeOK'
    BY <2>1 DEF LookupInv, TypeOK, DnsAssumption, Query
  <2>3. Outstanding(ctx, 0)
    BY <2>1, FS_EmptySet DEF Outstanding
  <2>4. \E m \in Nat : Outstanding(ctx, m)' /\ m + todo' <= limit'
    <3>1. CASE todo' = todo
      BY <1>1, <2>1, <3>1 DEF Outstanding
    <3>2. CASE todo' = limit
      <4>1. 0 + todo' <= limit' /\ Outstanding(ctx, 0)'
        BY <1>0, <2>1, <2>3, <3>2 DEF Outstanding
      <4> QED BY <4>1
    <3> QED BY <2>1, <3>1, <3>2
  <2> QED BY <2>1, <2>2, <2>4 DEF LookupInv, Known, AnswersAreOwn, EarlyMeansAll
<1>3. CASE FirstQuery
  <2>1. /\ UNCHANGED <<state, limit, answers, reused>> /\ state = "asking"
        /\ todo' = todo - 1 /\ todo > 0 /\ ctx' \in NextQueries(ctx)
    BY <1>3 DEF FirstQuery
  <2>2. ctx' \in Context /\ Known(ctx') /\ Outstanding(ctx', n + 1) /\ (~ctx'.collided => ~ctx.collided)
    BY <1>0, <1>1, <2>1, NextKeeps DEF LookupInv
  <2>3. TypeOK'
    BY <2>1, <2>2 DEF LookupInv, TypeOK, Context, DnsAssumption
  <2>4. \E m \in Nat : Outstanding(ctx, m)' /\ m + todo' <= limit'
    <3>1. n + 1 \in Nat /\ n + 1 + todo' <= limit' /\ Outstanding(ctx, n + 1)'
      BY <1>0, <1>1, <2>1, <2>2 DEF Outstanding
    <3> QED BY <3>1
  <2> QED BY <2>1, <2>2, <2>3, <2>4 DEF LookupInv, Known, AnswersAreOwn, EarlyMeansAll
<1>4. CASE Defer
  BY <1>1, <1>4 DEF Defer, LookupInv, TypeOK, Known, AnswersAreOwn, EarlyMeansAll, Outstanding
<1>5. ASSUME NEW r \in ctx.net, Response(r) PROVE LookupInv'
  <2>1. PICK q \in ctx.ids, names \in {{}, {r.addr}} : q.id = r.id /\ Handled(q, names)
    BY <1>5 DEF Response
  <2>2. ~ctx.collided => q = r
    BY <2>1 DEF LookupInv, Known
  <2>3. r.addr \in Addrs
    BY <1>0 DEF Context, Query
  <2> QED BY <1>5, <2>1, <2>2, <2>3, HandledKeeps DEF Response
<1>6. CASE ReceiveError
  BY <1>6, HandledKeeps DEF ReceiveError
<1>7. CASE Timeout
  BY <1>1, <1>7 DEF Timeout, LookupInv, TypeOK, Known, AnswersAreOwn, EarlyMeansAll, Outstanding
<1>8. CASE OtherMessage
  <2>1. PICK list \in {<<>>} \cup {<<a>> : a \in Addrs \cup {Bad}} : ctx' = [ctx EXCEPT !.rest = list]
    BY <1>8 DEF OtherMessage
  <2>2. list \in Seq(Addrs \cup {Bad})
    <3>1. CASE list = <<>>
      BY <3>1
    <3>2. ASSUME NEW a \in Addrs \cup {Bad}, list = <<a>> PROVE list \in Seq(Addrs \cup {Bad})
      BY <3>2
    <3> QED BY <2>1, <3>1, <3>2
  <2>3. /\ ctx' \in Context /\ ctx'.ids = ctx.ids /\ ctx'.net = ctx.net /\ ctx'.collided = ctx.collided
        /\ UNCHANGED <<state, limit, todo, answers>> /\ reused' = TRUE
    BY <1>0, <1>8, <2>1, <2>2 DEF OtherMessage, Context
  <2>4. TypeOK'
    BY <2>3 DEF LookupInv, TypeOK, Context
  <2>5. \E m \in Nat : Outstanding(ctx, m)' /\ m + todo' <= limit'
    BY <1>1, <2>3 DEF Outstanding
  <2> QED BY <2>3, <2>4, <2>5 DEF LookupInv, Known, AnswersAreOwn, EarlyMeansAll
<1>9. CASE UNCHANGED vars
  BY <1>1, <1>9 DEF vars, LookupInv, TypeOK, Known, AnswersAreOwn, EarlyMeansAll, Outstanding
<1> QED BY <1>2, <1>3, <1>4, <1>5, <1>6, <1>7, <1>8, <1>9 DEF Next

LEMMA LookupInvariant == ASSUME DnsAssumption PROVE Spec => []LookupInv
<1>1. Init => LookupInv
  BY InitLookup
<1>2. LookupInv /\ [Next]_vars => LookupInv'
  BY NextLookup
<1> QED BY <1>1, <1>2, PTL DEF Spec

(* However the datagrams are lost, duplicated and reordered, a name is     *)
(* recorded for the address it answers, as long as no two queries of the   *)
(* lookup have drawn the same id (rrdns_parse_response()).                 *)
THEOREM NamesAreOwn == ASSUME DnsAssumption PROVE Spec => []AnswersAreOwn
BY LookupInvariant, PTL DEF LookupInv

(* A lookup that ends before its timeout has asked for every address of    *)
(* the list: the loop ends early only after an address that was dropped or *)
(* after another message has overwritten the list (rrdns_next_query()).    *)
THEOREM EarlyEndMeansAll == ASSUME DnsAssumption PROVE Spec => []EarlyMeansAll
BY LookupInvariant, PTL DEF LookupInv

(* At most "limit" queries are outstanding, whatever is received and       *)
(* however often receiving fails.                                          *)
THEOREM LimitHolds == ASSUME DnsAssumption PROVE Spec => []WithinLimit
<1>1. DnsAssumption /\ LookupInv => WithinLimit
  <2> SUFFICES ASSUME DnsAssumption, LookupInv PROVE WithinLimit
    OBVIOUS
  <2>1. PICK n \in Nat : Outstanding(ctx, n) /\ n + todo <= limit
    BY DEF LookupInv
  <2>2. limit \in Nat /\ todo \in Nat
    BY DEF LookupInv, TypeOK, DnsAssumption
  <2>3. Cardinality(ctx.ids) \in Nat /\ Cardinality(ctx.ids) <= n
    BY <2>1, FS_CardinalityType DEF Outstanding
  <2> QED BY <2>1, <2>2, <2>3 DEF WithinLimit
<1> QED BY <1>1, LookupInvariant, PTL

-----------------------------------------------------------------------------
(* The four parts together                                                 *)

\* What the other parts do leaves a lookup alone.
LEMMA RouterLookup == RouterSpec => []LookupInv
<1>1. RouterInit => LookupInv
  BY InitLookup, MCAssumption DEF RouterInit
<1>2. LookupInv /\ [RouterNext]_routerVars => LookupInv'
  <2>1. [RouterNext]_routerVars => [Next]_vars
    BY DEF RouterNext, routerVars, vars
  <2> QED BY <2>1, NextLookup, MCAssumption
<1> QED BY <1>1, <1>2, PTL DEF RouterSpec, routerVars

\* Every variable of the four parts keeps its type.
THEOREM RouterTypeCorrect == RouterSpec => []RouterTypeOK
<1>1. NetworkInv => Network!TypeOK
  BY DEF NetworkInv
<1>2. RouterSpec => []Graph!TypeOK
  <2>1. Graph!Spec => []GraphInv
    BY GraphInvariant, MCAssumption
  <2>2. GraphInv => Graph!TypeOK
    BY DEF GraphInv
  <2> QED BY <2>1, <2>2, RouterGraph, PTL
<1>3. LookupInv => TypeOK
  BY DEF LookupInv
<1>4. RequestInv => Dispatcher!TypeOK
  BY DEF RequestInv
<1>5. TypeOK /\ Network!TypeOK /\ Graph!TypeOK /\ Dispatcher!TypeOK => RouterTypeOK
  BY DEF RouterTypeOK
<1> QED BY <1>1, <1>2, <1>3, <1>4, <1>5, NetworkInvariant, RouterLookup, RequestInvariant, PTL
=============================================================================
