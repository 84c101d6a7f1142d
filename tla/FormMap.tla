------------------------------ MODULE FormMap ------------------------------
(***************************************************************************)
(* A configuration form: Map, a section and its options (form.js), between *)
(* the widgets the user sees and the edit layers of uci.js.                *)
(*                                                                         *)
(* An option has three values besides that of its widget: the one load()   *)
(* cached for it, the one the edit layers hold, and the one on the router. *)
(* They part when a save fails half way.  Saves do not overlap here; the   *)
(* conditional defaults of options are left out.                           *)
(***************************************************************************)
EXTENDS Integers, Sequences, FiniteSets, Folds, SequencesExt

CONSTANTS
    Options,    \* the options in the order they are declared
    Values,     \* valid, non-empty values
    None,       \* no value; an empty widget
    Bad,        \* input that fails the validation
    Needs,      \* depends(): per option a set of alternatives, each a set of
                \* pairs <<option, value>>
    Required,   \* options with neither rmempty nor optional
    Retain,     \* options with retain
    Default,    \* per option, its default or None
    MaxExtra    \* bound: number of further sections

Names == ToSet(Options)

FormAssumption ==
    /\ Options \in Seq(Names) /\ IsInjective(Options) /\ MaxExtra \in Nat
    /\ {None, Bad} \cap Values = {} /\ None # Bad
    /\ Required \subseteq Names /\ Retain \subseteq Names
    /\ Default \in [Names -> Values \cup {None}]
    /\ \A o \in Names : Needs[o] \subseteq SUBSET (Names \X Values)

(* No option needs more than two in a row that are declared after it.      *)
Needed(o) == {need[1] : need \in UNION Needs[o]}

LateAssumption ==
    \E late \in [Names -> 0..2] :
        /\ \A o \in Names : late[o] = 0 => Needs[o] = {}
        /\ \A i, j \in DOMAIN Options : Options[j] \in Needed(Options[i]) =>
             IF j < i THEN late[Options[j]] <= late[Options[i]] ELSE late[Options[j]] < late[Options[i]]

VARIABLES
    form,      \* the widgets: what they show, and which options are active
    cfg,       \* cfgvalue(): the values cached by load()
    layer,     \* what data.get() returns, the edits included
    staged,    \* the values on the router
    extra,     \* the number of further sections: on the page, in the layers, on the router
    page,      \* "ready", "saving", or "error" while the dialog "Save error" is up
    failed,    \* TRUE if a save has failed since the last one that did not
    reverted   \* TRUE after a reset, until the next input

vars == <<form, cfg, layer, staged, extra, page, failed, reverted>>

Stored == [Names -> Values \cup {None}]
Forms == [shown : [Names -> Values \cup {None, Bad}], active : [Names -> BOOLEAN]]

-----------------------------------------------------------------------------
(* isDependencySatisfied(): an inactive option counts as having no value.  *)
Satisfied(f, o) ==
    Needs[o] = {} \/ \E alternative \in Needs[o] : \A need \in alternative :
                        f.active[need[1]] /\ f.shown[need[1]] = need[2]

(* One pass of the section's checkDepends(), in place.                     *)
Pass(f) ==
    LET after[i \in 0..Len(Options)] ==
          IF i = 0 THEN f
          ELSE LET g == after[i - 1]
                   o == Options[i]
               IN  [shown |-> g.shown, active |-> [g.active EXCEPT ![o] = Satisfied(g, o)]]
    IN after[Len(Options)]

(* Mutant of CheckDepends: a single pass.                                  *)
CheckDependsOnce(f) == Pass(f)

(* The map's checkDepends() calls itself after a pass that has changed     *)
(* something, with a depth that starts at 11 and is compared with 10:      *)
(* there are never more than two passes.                                   *)
CheckDepends(f) == Pass(Pass(f))

(* renderContents(): options with dependencies start hidden.               *)
Render(values) ==
    CheckDepends([shown |-> [o \in Names |-> IF values[o] = None THEN Default[o] ELSE values[o]],
                  active |-> [o \in Names |-> Needs[o] = {}]])

-----------------------------------------------------------------------------
(* parse() of an option fails.                                             *)
Rejected(f, o) ==
    /\ f.active[o]
    /\ f.shown[o] = Bad \/ (f.shown[o] = None /\ o \in Required)

(* Mutant of Parsed: options without a value are left as they are.         *)
ParsedNoRemove(f, o) ==
    IF f.active[o] /\ f.shown[o] \in Values /\ f.shown[o] # cfg[o] THEN f.shown[o]
    ELSE layer[o]

(* parse(), write() and remove() of an option: its value in the layers.    *)
Parsed(f, o) ==
    IF Rejected(f, o) THEN layer[o]
    ELSE CASE f.active[o] /\ f.shown[o] = None -> None
           [] f.active[o] /\ f.shown[o] # None /\ f.shown[o] # cfg[o] -> f.shown[o]
           [] ~f.active[o] /\ o \notin Retain -> None
           [] OTHER -> layer[o]

(* save(): the options are parsed one by one and keep what they have       *)
(* written when another is rejected.  A save that is not silent shows why. *)
Submit(silent) ==
    LET f == CheckDepends(form)
        rejected == \E o \in Names : Rejected(f, o)
    IN  /\ form' = f
        /\ layer' = [o \in Names |-> Parsed(f, o)]
        /\ page' = IF ~rejected THEN "saving" ELSE IF silent THEN "ready" ELSE "error"
        /\ failed' = (failed \/ rejected)

-----------------------------------------------------------------------------
Init ==
    /\ staged \in Stored
    /\ cfg = staged
    /\ layer = staged
    /\ form = Render(staged)
    /\ extra = [page |-> 0, layer |-> 0, router |-> 0]
    /\ page = "ready"
    /\ failed = FALSE
    /\ reverted = FALSE

(* The user changes a visible widget, also while a save is under way.      *)
Type(o, v) ==
    /\ page # "error"
    /\ form.active[o] /\ form.shown[o] # v
    /\ form' = CheckDepends([form EXCEPT !.shown[o] = v])
    /\ reverted' = FALSE
    /\ UNCHANGED <<cfg, layer, staged, extra, page, failed>>

Save ==
    /\ page = "ready"
    /\ Submit(FALSE)
    /\ UNCHANGED <<cfg, staged, extra, reverted>>

(* handleAdd() and handleRemove() of the section, which save silently.     *)
AddSection ==
    /\ page = "ready" /\ extra.layer < MaxExtra
    /\ extra' = [extra EXCEPT !.layer = @ + 1]
    /\ Submit(TRUE)
    /\ UNCHANGED <<cfg, staged, reverted>>

RemoveSection ==
    /\ page = "ready" /\ extra.page > 0 /\ extra.layer > 0
    /\ extra' = [extra EXCEPT !.layer = @ - 1]
    /\ Submit(TRUE)
    /\ UNCHANGED <<cfg, staged, reverted>>

(* data.save() submits the edits; load() and renderContents() follow.      *)
SaveDone ==
    /\ page = "saving"
    /\ staged' = layer
    /\ cfg' = layer
    /\ form' = Render(layer)
    /\ extra' = [extra EXCEPT !.page = extra.layer, !.router = extra.layer]
    /\ page' = "ready"
    /\ failed' = FALSE
    /\ reverted' = FALSE
    /\ UNCHANGED layer

(* data.save() or load() fails.                                            *)
SaveFails ==
    /\ page = "saving"
    /\ page' \in {"error", "ready"}
    /\ failed' = TRUE
    /\ UNCHANGED <<form, cfg, layer, staged, extra, reverted>>

Dismiss ==
    /\ page = "error"
    /\ page' = "ready"
    /\ UNCHANGED <<form, cfg, layer, staged, extra, failed, reverted>>

(* reset() renders the cached values and leaves the edit layers alone.     *)
Reset ==
    /\ page # "error"
    /\ form' = Render(cfg)
    /\ reverted' = TRUE
    /\ extra' = [extra EXCEPT !.page = extra.layer]
    /\ UNCHANGED <<cfg, layer, staged, page, failed>>

Next ==
    \/ \E o \in Names, v \in Values \cup {None, Bad} : Type(o, v)
    \/ Save \/ AddSection \/ RemoveSection
    \/ SaveDone \/ SaveFails
    \/ Dismiss \/ Reset

Spec == Init /\ [][Next]_vars

-----------------------------------------------------------------------------
TypeOK ==
    /\ form \in Forms
    /\ cfg \in Stored /\ layer \in Stored /\ staged \in Stored
    /\ extra \in [page : 0..MaxExtra, layer : 0..MaxExtra, router : 0..MaxExtra]
    /\ page \in {"ready", "saving", "error"}
    /\ failed \in BOOLEAN /\ reverted \in BOOLEAN

(* Exactly the options whose dependencies are met are visible, whatever    *)
(* the user has changed and however a change runs along the dependencies.  *)
(* Two passes are enough for two dependencies in a row on options that are *)
(* declared later, and not for more.                                       *)
VisibleIffSatisfied == \A o \in Names : form.active[o] = Satisfied(form, o)

(* The values a save submits are those on the screen, and none for an      *)
(* option that is hidden, and it adds or removes one section at most,      *)
(* unless an earlier save failed.                                          *)
OnScreen(o) == IF form'.active[o] THEN form'.shown[o] ELSE None

SubmitsWhatIsShown ==
    [][page = "ready" /\ page' = "saving" /\ ~failed =>
          /\ \A o \in Names : layer'[o] = OnScreen(o) \/ (o \in Retain /\ ~form'.active[o])
          /\ extra'.layer - extra.page \in {-1, 0, 1}]_vars

(* "Reset the form by re-rendering its contents. This will revert all      *)
(* unsaved user inputs to their initial form state": what is submitted     *)
(* after a reset is what the form shows.                                   *)
ResetReverts ==
    [][page = "ready" /\ page' = "saving" /\ reverted =>
          \A o \in Names : layer'[o] = OnScreen(o) \/ (o \in Retain /\ ~form'.active[o])]_vars
=============================================================================
