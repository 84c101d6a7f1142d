---------------------------- MODULE PackageDeps ----------------------------
(***************************************************************************)
(* What the package manager's page says an installation needs (opkg.js):   *)
(* parseList() notes who provides a name, and renderDependencies() and     *)
(* renderDependencyItem() go down the dependencies, every name once, and   *)
(* collect the packages to install and the errors.                         *)
(*                                                                         *)
(* The recursion is a stack of requirements still to visit.  Versions are  *)
(* numbers in the order of compareVersion().  Sizes, translations and the  *)
(* flat list of them are left out; libc is nobody's requirement here.      *)
(***************************************************************************)
EXTENDS Naturals, Sequences, SequencesExt

CONSTANTS
    Installed,     \* the possible lists of installed packages
    Available,     \* the possible lists of packages of the repositories
    Requirements   \* [name, op, version], where the op is "any" for none

VARIABLES
    lists,     \* packages.installed and packages.available
    wanted,    \* the dependencies of the package to install
    todo,      \* requirements still to visit, the next one first
    seen,      \* info.seen
    planned,   \* info.install
    errors     \* requirements in info.errors

depsVars == <<lists, wanted, todo, seen, planned, errors>>

Nothing == [installed |-> <<>>, available |-> <<>>]

(* A list names a package once, and what is only available is not ready.   *)
(* Who provides a package's name, another version of it included, provides *)
(* all that the package provides.                                          *)
DepsAssumption ==
    /\ \A list \in Installed \cup Available :
         /\ list \in Seq(Range(list))
         /\ \A i \in DOMAIN list : list[i].depends \in Seq(Requirements)
         /\ \A i, j \in DOMAIN list : list[i].name = list[j].name => i = j
    /\ \A list \in Available : \A i \in DOMAIN list : list[i].ready = FALSE
    /\ \A one, two \in Installed \cup Available : \A i \in DOMAIN one, j \in DOMAIN two :
         one[i].name \in two[j].provides \cup {two[j].name} => one[i].provides \subseteq two[j].provides

-----------------------------------------------------------------------------
(* parseList(): the packages of a list that provide a name.  A package is  *)
(* noted under its own name only if none before it is noted there.         *)
Provides(list, i, n) ==
    \/ n \in list[i].provides
    \/ n = list[i].name /\ \A j \in 1..(i - 1) : n \notin list[j].provides

Providers(list, n) ==
    FlattenSeq([i \in DOMAIN list |-> IF Provides(list, i, n) THEN <<list[i]>> ELSE <<>>])

NamesOf(list) == {list[i].name : i \in DOMAIN list}
Package(list, n) == list[CHOOSE i \in DOMAIN list : list[i].name = n]

(* The packages looked at for a name: its providers in either list, each   *)
(* as it is installed, if it is.                                           *)
Candidates(n) ==
    LET have == Providers(lists.installed, n)
        others == Providers(lists.available, n)
        As(p) == IF p.name \in NamesOf(lists.installed) THEN Package(lists.installed, p.name) ELSE p
    IN have \o FlattenSeq([i \in DOMAIN others |->
         IF others[i].name \in NamesOf(have) THEN <<>> ELSE <<As(others[i])>>])

(* versionSatisfied(), to which "<" and ">" are "<=" and ">=".             *)
Satisfied(version, r) ==
    CASE r.op = "any" -> TRUE
      [] r.op \in {"<", "<="} -> version <= r.version
      [] r.op \in {">", ">="} -> version >= r.version
      [] r.op = "<<" -> version < r.version
      [] r.op = ">>" -> version > r.version
      [] r.op = "=" -> version = r.version

(* pkgStatus(): the packages that would have to be installed for one       *)
(* candidate, none if that is an error.                                    *)
Offer(p, r) ==
    LET offered == IF p.ready THEN Providers(lists.available, p.name) ELSE <<p>>
        fit == {i \in DOMAIN offered : Satisfied(offered[i].version, r)}
    IN IF fit = {} THEN <<>> ELSE <<offered[Min(fit)]>>

InPlace(p, r) == p.ready /\ Satisfied(p.version, r)

(* renderDependencyItem(): the requirements of all candidates.             *)
Below(n) == FlattenSeq([i \in DOMAIN Candidates(n) |-> Candidates(n)[i].depends])

(* Mutant of After: those of installed packages are taken to be met.       *)
AfterMissing(r) ==
    LET all == Candidates(r.name)
    IN FlattenSeq([i \in DOMAIN all |-> IF all[i].ready THEN <<>> ELSE all[i].depends]) \o Tail(todo)

(* They come before the requirements that are left.                        *)
After(r) == Below(r.name) \o Tail(todo)

-----------------------------------------------------------------------------
(* handleInstall() for a package that is available.                        *)
Init ==
    /\ lists \in [installed : Installed, available : Available]
    /\ wanted \in {lists.available[i].depends : i \in DOMAIN lists.available}
    /\ todo = wanted
    /\ seen = {}
    /\ planned = <<>>
    /\ errors = {}

Known(r) == \E q \in seen : q.name = r.name

(* One turn of the loop of renderDependencies(), for a name already seen.  *)
Skip ==
    /\ todo # <<>>
    /\ Known(Head(todo))
    /\ todo' = Tail(todo)
    /\ UNCHANGED <<lists, wanted, seen, planned, errors>>

(* The same for another name, whose dependencies come next.                *)
Visit ==
    /\ todo # <<>>
    /\ ~Known(Head(todo))
    /\ LET r == Head(todo)
           all == Candidates(r.name)
           open == {i \in DOMAIN all : ~InPlace(all[i], r)}
       IN /\ seen' = seen \cup {r}
          /\ planned' = planned \o
               FlattenSeq([i \in DOMAIN all |-> IF i \in open THEN Offer(all[i], r) ELSE <<>>])
          /\ errors' = IF all = <<>> \/ \E i \in open : Offer(all[i], r) = <<>>
                       THEN errors \cup {r} ELSE errors
          /\ todo' = After(r)
    /\ UNCHANGED <<lists, wanted>>

Next == Skip \/ Visit

Spec == Init /\ [][Next]_depsVars

-----------------------------------------------------------------------------
TypeOK ==
    /\ lists \in [installed : Installed \cup {<<>>}, available : Available \cup {<<>>}]
    /\ wanted \in Seq(Requirements)
    /\ todo \in Seq(Requirements)
    /\ seen \subseteq Requirements
    /\ NamesOf(planned) \subseteq NamesOf(lists.available) \cup NamesOf(lists.installed)
    /\ errors \subseteq seen

(* The requirements that the wanted ones come down to.                     *)
Closed(S) == Range(wanted) \subseteq S /\ \A r \in S : Range(Below(r.name)) \subseteq S
Closure == {r \in Requirements : \A S \in SUBSET Requirements : Closed(S) => r \in S}

Meets(p, r) == r.name \in p.provides \cup {p.name} /\ Satisfied(p.version, r)

(* A plan without errors meets every requirement it comes down to, however *)
(* the dependencies go in circles: by a package that is in place or by a   *)
(* planned one.  A name that two packages require in different versions is *)
(* left out: only the first requirement is looked at.                      *)
PlanMeetsRequirements ==
    todo = <<>> /\ errors = {} =>
      \A r \in Closure :
        (\A q \in Closure : q.name = r.name => q = r) =>
          \/ \E i \in DOMAIN lists.installed : lists.installed[i].ready /\ Meets(lists.installed[i], r)
          \/ \E i \in DOMAIN planned : Meets(planned[i], r)
=============================================================================
