------------------------------- MODULE Menus --------------------------------
(***************************************************************************)
(* OverflowMenu and Dropdown of bluemix-components.js.  Every one of them  *)
(* listens to the clicks on the whole document, to close itself when       *)
(* another is used; keys are seen by all overflow menus, but only by the   *)
(* dropdown that has the focus.  Enter on a link in a dropdown is a key    *)
(* press and then, because nothing prevents it, a click.                   *)
(***************************************************************************)
EXTENDS FiniteSets, Naturals

CONSTANTS
    Overflows,   \* the elements with data-overflow-menu
    Dropdowns,   \* those with data-dropdown
    Options,     \* the items of each dropdown
    NoOption     \* no item

VARIABLES
    made,      \* the elements with an object and its listeners
    open,      \* those with the class that opens them
    picked,    \* picked[d]: the items of d with classSelected
    value      \* value[d]: the item whose text and data-value d shows

vars == <<made, open, picked, value>>

Elements == Overflows \cup Dropdowns
Outside == "outside"   \* the rest of the document

TypeOK ==
    /\ made \subseteq Elements /\ open \subseteq made
    /\ picked \in [Dropdowns -> SUBSET Options]
    /\ value \in [Dropdowns -> Options \cup {NoOption}]

(* The markup may select items; the text it shows may be of none of them.  *)
Init ==
    /\ made = {} /\ open = {}
    /\ picked \in [Dropdowns -> SUBSET Options]
    /\ value = [d \in Dropdowns |-> NoOption]

-----------------------------------------------------------------------------
(* create, for each element that init finds: an element that has an object *)
(* gets no second one, whose listeners would undo what the first ones do.  *)
Create(e) ==
    /\ made' = made \cup {e}
    /\ UNCHANGED <<open, picked, value>>

(* A fault of HandleDocumentClick: only the element clicked on changes.    *)
HandleOwnClick(S, x) ==
    {e \in open : e # x \/ e \notin S} \cup {e \in S : e = x /\ e \notin open}

(* handleDocumentClick of an overflow menu and toggle of a dropdown, for   *)
(* the listeners S to something that happened at x: the one at x changes,  *)
(* the others close.                                                       *)
HandleDocumentClick(S, x) ==
    (open \ S) \cup {e \in S : e = x /\ e \notin open}

(* A click on x that is not on a dropdown's item.                          *)
Click(x) ==
    /\ open' = HandleDocumentClick(made, x)
    /\ UNCHANGED <<made, picked, value>>

(* selected, and then, as the event reaches the document, toggle.  A       *)
(* listener of eventBeforeSelected may cancel the selection, not the rest. *)
Select(d, item) ==
    /\ d \in made
    /\ picked' = [picked EXCEPT ![d] = {item}]
    /\ value' = [value EXCEPT ![d] = item]
    /\ open' = HandleDocumentClick(made, d)
    /\ UNCHANGED made

(* A key at x: a dropdown takes any of them, overflow menus only Enter.    *)
KeyPress(x, isEnter) ==
    /\ open' = HandleDocumentClick(
                   made \cap ((IF isEnter THEN Overflows ELSE {})
                              \cup ({x} \cap Dropdowns)), x)
    /\ UNCHANGED <<made, picked, value>>

Next ==
    \/ \E e \in Elements : Create(e)
    \/ \E x \in Elements \cup {Outside} :
           Click(x) \/ \E isEnter \in BOOLEAN : KeyPress(x, isEnter)
    \/ \E d \in Dropdowns, item \in Options : Select(d, item)

Spec == Init /\ [][Next]_vars
-----------------------------------------------------------------------------
(* Properties.                                                             *)

(* Whatever is clicked, pressed and chosen, at most one overflow menu is   *)
(* open, and a dropdown that shows the text of an item has that item       *)
(* selected and no other.  (Several dropdowns can be open: a key opens one *)
(* without telling the others.)                                            *)
MenusConsistent ==
    /\ Cardinality(open \cap Overflows) <= 1
    /\ \A d \in Dropdowns : value[d] # NoOption => picked[d] = {value[d]}
=============================================================================
