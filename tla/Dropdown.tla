------------------------------ MODULE Dropdown ------------------------------
(***************************************************************************)
(* The dropdown of ui.js, which is also the combobox and the list of       *)
(* choices of the forms: one choice or several, optional or not, and with  *)
(* or without a field to enter another one.                                *)
(*                                                                         *)
(* Three things hold its value: the items of its list, the marks that say  *)
(* which are selected, and the hidden inputs that getValue() reads.  What  *)
(* is shown of the selection, focus and keys are left out, and so is the   *)
(* item of the field, which stays last and is never selected.              *)
(***************************************************************************)
EXTENDS Naturals, Sequences, FiniteSets, SequencesExt

CONSTANTS
    Order,         \* the choices, sorted
    Placeholder,   \* the item that stands for no choice
    Nobody         \* none created; a value nobody can tell

Entries == ToSet(Order)

DropdownAssumption ==
    /\ Order \in Seq(Entries) /\ IsInjective(Order)
    /\ Placeholder \notin Entries /\ Nobody \notin Entries /\ Placeholder # Nobody

VARIABLES
    kind,     \* options: multiple, optional, create
    box,      \* list, sel (selected), value (hidden inputs), created
    asked     \* what getValue() should be

dropdownVars == <<kind, box, asked>>

Kinds == [multiple : BOOLEAN, optional : BOOLEAN, create : BOOLEAN]
Items == Entries \cup {Placeholder}
Boxes == [list : Seq(Items), sel : SUBSET Items, value : SUBSET Entries, created : Entries \cup {Nobody}]

(* The items of a list that are in a set, in their order.                  *)
Only(list, S) ==
    LET kept[i \in 0..Len(list)] ==
          IF i = 0 THEN <<>>
          ELSE IF list[i] \in S THEN Append(kept[i - 1], list[i]) ELSE kept[i - 1]
    IN kept[Len(list)]

-----------------------------------------------------------------------------
(* saveValues()                                                            *)
Saved(b) == [b EXCEPT !.value = b.sel \ {Placeholder}]

(* Mutant of Toggled: the last item of a mandatory choice is let go.       *)
ToggledOff(b, x, force) ==
    IF ~kind.multiple THEN Saved([b EXCEPT !.sel = {x}])
    ELSE IF x \in b.sel /\ force # "on" THEN Saved([b EXCEPT !.sel = @ \ {x}])
    ELSE IF force # "off" THEN Saved([b EXCEPT !.sel = @ \cup {x}])
    ELSE Saved(b)

(* toggleItem(), with "on", "off" or "flip" for the forced state; a single *)
(* choice does not look at it.                                             *)
Toggled(b, x, force) ==
    IF ~kind.multiple THEN Saved([b EXCEPT !.sel = {x}])
    ELSE IF x \in b.sel /\ force # "on" /\ (kind.optional \/ b.sel # {x})
         THEN Saved([b EXCEPT !.sel = @ \ {x}])
    ELSE IF force # "off" THEN Saved([b EXCEPT !.sel = @ \cup {x}])
    ELSE Saved(b)

(* New items go before the last one, which is that of the field, if any.   *)
Inserted(list, x) ==
    IF kind.create \/ list = <<>> THEN Append(list, x) ELSE Front(list) \o <<x, Last(list)>>

(* createItems() for one value: the previous creation of a single choice   *)
(* is removed.                                                             *)
Created(b, x) ==
    LET old == IF kind.multiple THEN {} ELSE {b.created}
        new == [list |-> Inserted(Only(b.list, Items \ old), x),
                sel |-> b.sel \ old, value |-> b.value,
                created |-> IF kind.multiple THEN Nobody ELSE x]
    IN Toggled(IF x \in ToSet(b.list) THEN b ELSE new, x, "on")

(* createItems() for several.                                              *)
AllCreated(b, values) ==
    LET after[i \in 0..Len(values)] == IF i = 0 THEN b ELSE Created(after[i - 1], values[i])
    IN after[Len(values)]

(* What setValue() and setValues() do to an item.                          *)
Marked(b, x, values) ==
    IF kind.multiple THEN Toggled(b, x, IF x \in ToSet(values) THEN "on" ELSE "off")
    ELSE IF x \in ToSet(values) THEN Toggled(b, x, "flip") ELSE b

(* They go through the items in their order.                               *)
SetTo(b, values) ==
    LET more == IF kind.create THEN AllCreated(b, values) ELSE b
        first == IF ~kind.multiple /\ Placeholder \in ToSet(more.list)
                 THEN Toggled(more, Placeholder, "flip") ELSE more
        after[i \in 0..Len(more.list)] ==
          IF i = 0 THEN first ELSE Marked(after[i - 1], more.list[i], values)
    IN after[Len(more.list)]

-----------------------------------------------------------------------------
Given == {<<>>} \cup {<<x>> : x \in Entries} \cup
         (IF kind.multiple THEN {s \in [1..2 -> Entries] : s[1] # s[2]} ELSE {})

(* render() and bind(), with given choices and values.                     *)
Rendered(choices, values) ==
    LET keys == Only(Order, choices) \o
                (IF kind.create THEN Only(values, Entries \ choices) ELSE <<>>)
        list == IF kind.optional /\ ~kind.multiple THEN <<Placeholder>> \o keys ELSE keys
        marked == Only(list, ToSet(values))
        sel == IF kind.multiple THEN ToSet(marked)
               ELSE IF marked # <<>> THEN {Head(marked)}
               ELSE IF list # <<>> THEN {Head(list)} ELSE {}
    IN Saved([list |-> list, sel |-> sel, value |-> {}, created |-> Nobody])

Init ==
    /\ kind \in Kinds
    /\ \E choices \in SUBSET Entries, values \in Given : box = Rendered(choices, values)
    /\ asked = box.value

(* The user clicks on an item of the open list.                            *)
Click(x) ==
    LET had == IF asked = {Nobody} THEN {} ELSE box.value
    IN /\ box' = Toggled(box, x, "flip")
       /\ asked' = IF ~kind.multiple THEN {x} \ {Placeholder}
                    ELSE IF x \notin had THEN had \cup {x}
                    ELSE IF kind.optional \/ had # {x} THEN had \ {x} ELSE had
       /\ UNCHANGED kind

(* A value is entered in the field.                                        *)
Enter(x) ==
    /\ kind.create
    /\ box' = Created(box, x)
    /\ asked' = IF kind.multiple THEN (asked \cup {x}) \ {Nobody} ELSE {x}
    /\ UNCHANGED kind

SetValue(values) ==
    LET known == ToSet(values) \cap (IF kind.create THEN Entries ELSE ToSet(box.list))
    IN /\ box' = SetTo(box, values)
       /\ asked' = IF known = {} /\ (~kind.optional \/ asked = {Nobody}) THEN {Nobody} ELSE known
       /\ UNCHANGED kind

(* closeDropdown()                                                         *)
Close ==
    /\ box' = Saved(box)
    /\ UNCHANGED <<kind, asked>>

(* clearChoices(): the value stays, and so do its items.                   *)
ClearChoices ==
    /\ box' = [box EXCEPT !.list = Only(@, box.value \cup {Placeholder}),
                          !.sel = @ \cap (box.value \cup {Placeholder}),
                          !.created = IF @ \in box.value THEN @ ELSE Nobody]
    /\ UNCHANGED <<kind, asked>>

(* clearChoices(true): all items go, but nothing saves the values unless   *)
(* there is a placeholder to select.                                       *)
Reset ==
    LET none == [box EXCEPT !.list = Only(@, {Placeholder}),
                            !.sel = @ \cap {Placeholder}, !.created = Nobody]
    IN /\ box' = SetTo(none, <<>>)
       /\ asked' = IF Placeholder \in ToSet(box.list) THEN {} ELSE {Nobody}
       /\ UNCHANGED kind

(* addChoices() for one choice.                                            *)
AddChoice(x) ==
    /\ x \notin ToSet(box.list)
    /\ box' = [box EXCEPT !.list = Inserted(@, x)]
    /\ UNCHANGED <<kind, asked>>

Next ==
    \/ \E x \in ToSet(box.list) : Click(x)
    \/ \E x \in Entries : Enter(x) \/ AddChoice(x)
    \/ \E values \in Given : SetValue(values)
    \/ Close \/ ClearChoices \/ Reset

Spec == Init /\ [][Next]_dropdownVars

-----------------------------------------------------------------------------
TypeOK ==
    /\ kind \in Kinds
    /\ box \in Boxes /\ IsInjective(box.list) /\ box.sel \subseteq ToSet(box.list)
    /\ asked \subseteq Entries \cup {Nobody}

(* Whatever is clicked, entered, set, cleared and added in whatever order, *)
(* getValue() is what was asked for last: exactly, if nothing need be      *)
(* chosen or one thing only, and with at most one more choice otherwise,   *)
(* as setValue() cannot unselect the last item before it has reached       *)
(* another.  After choices were reset nobody can tell.                     *)
ValueIsAsked ==
    asked # {Nobody} =>
        /\ asked \subseteq box.value
        /\ Cardinality(box.value \ asked) <= IF kind.optional \/ ~kind.multiple THEN 0 ELSE 1
=============================================================================
