-------------------------------- MODULE Tabs --------------------------------
(***************************************************************************)
(* ContentSwitcher of bluemix-components.js and Tab, which extends it: one *)
(* of several buttons is the active one, and the elements of the document  *)
(* that its data-target selects are shown.  Two buttons may select the     *)
(* same element.  A tab container also follows the arrow keys, shows the   *)
(* text of the active tab, and has a drop down menu for narrow windows.    *)
(***************************************************************************)
EXTENDS Integers

CONSTANTS
    NTabs,   \* the number of buttons, at least one, in the order of the document
    Panels   \* the elements that data-target may select

VARIABLES
    kind,     \* which of the two this is
    target,   \* target[t]: the panels data-target of button t selects
    ready,    \* the constructor has run
    active,   \* the button with classActive, 0 if none
    activated,   \* the button the script has activated last, 0 if none
    panels,   \* the panels that are not hidden
    text,     \* the tab whose text the trigger shows, 0 if none
    menu,     \* the drop down menu does not have classHidden
    narrow    \* the trigger of the menu is displayed

vars == <<kind, target, ready, active, activated, panels, text, menu, narrow>>

Buttons == 1 .. NTabs

TypeOK ==
    /\ kind \in {"switcher", "tabs"}
    /\ target \in [Buttons -> SUBSET Panels]
    /\ active \in 0 .. NTabs /\ activated \in 0 .. NTabs /\ text \in 0 .. NTabs
    /\ panels \subseteq Panels
    /\ ready \in BOOLEAN /\ menu \in BOOLEAN /\ narrow \in BOOLEAN

(* The markup: it marks one button as active or none, and may show panels  *)
(* of any of them.                                                         *)
Init ==
    /\ kind \in {"switcher", "tabs"}
    /\ target \in [Buttons -> SUBSET Panels]
    /\ ready = FALSE
    /\ active \in 0 .. NTabs /\ activated = 0
    /\ panels \in SUBSET Panels
    /\ text = 0 /\ menu = FALSE
    /\ narrow \in BOOLEAN /\ (kind = "switcher" => ~narrow)

-----------------------------------------------------------------------------
UpdateTriggerText(t) == text' = IF kind = "tabs" THEN t ELSE text

OthersTargets(t) == UNION {target[u] : u \in Buttons \ {t}}

(* A fault of ShowPanels: the panels of the others are hidden last.        *)
HidePanelsLast(t) == panels' = (panels \cup target[t]) \ OthersTargets(t)

ShowPanels(t) == panels' = (panels \ OthersTargets(t)) \cup target[t]

(* _changeActive; aria-selected of the links follows classActive.          *)
ChangeActive(t) ==
    /\ active' = t /\ activated' = t
    /\ ShowPanels(t)
    /\ UpdateTriggerText(t)

(* setActive: a listener of eventBeforeSelected may cancel it.             *)
SetActive(t) == ChangeActive(t) \/ UNCHANGED <<active, activated, panels, text>>

(* The constructors.  That of a switcher activates the inputs that are     *)
(* checked, of which the last prevails; if there is none, because its      *)
(* buttons are no inputs or none of them is checked, the markup stays as it*)
(* is.  That of a tab container, in which there are no inputs, shows the   *)
(* text of the tab that is active in the markup.                           *)
Create ==
    /\ ~ready /\ ready' = TRUE
    /\ \/ kind = "switcher" /\ \E checked \in Buttons : ChangeActive(checked)
       \/ /\ (IF active # 0 THEN UpdateTriggerText(active) ELSE UNCHANGED text)
          /\ UNCHANGED <<active, activated, panels>>
    /\ UNCHANGED <<kind, target, menu, narrow>>

(* updateMenuState is called for every click on a tab, in a wide window,   *)
(* where the menu always shows, and after a cancellation too.  (handleClick*)
(* of Tab selects the tab twice, to the same effect.)                      *)
Click(t) ==
    /\ ready /\ (narrow => menu)
    /\ SetActive(t)
    /\ menu' = IF kind = "tabs" THEN ~menu ELSE menu
    /\ UNCHANGED <<kind, target, ready, narrow>>

ClickTrigger ==
    /\ ready /\ narrow
    /\ menu' = ~menu
    /\ UNCHANGED <<kind, target, ready, active, activated, panels, text, narrow>>

(* The index in buttons, which start at 0, of the tab an arrow leads to.   *)
Sign(i) == IF i > 0 THEN 1 ELSE IF i < 0 THEN -1 ELSE 0
NextIndex(direction) ==
    LET i == (active - 1) + direction
    IN  IF i < -1 THEN -1 ELSE i
NextIndexLooped(i) == IF i \in 0 .. NTabs - 1 THEN i ELSE i - Sign(i) * NTabs

(* handleKeyDown, for the left (-1) and the right (1) arrow.               *)
Arrow(direction) ==
    /\ ready /\ kind = "tabs" /\ ~narrow
    /\ SetActive(NextIndexLooped(NextIndex(direction)) + 1)
    /\ UNCHANGED <<kind, target, ready, menu, narrow>>

(* The user makes the window narrower or wider.                            *)
Resize ==
    /\ kind = "tabs" /\ narrow' = ~narrow
    /\ UNCHANGED <<kind, target, ready, active, activated, panels, text, menu>>

Next ==
    \/ Create
    \/ \E t \in Buttons : Click(t)
    \/ \E direction \in {-1, 1} : Arrow(direction)
    \/ ClickTrigger \/ Resize

Spec == Init /\ [][Next]_vars
-----------------------------------------------------------------------------
(* Properties.                                                             *)

(* Whatever the markup: once the script has activated a button, that button*)
(* is the active one, and of the panels that any button selects exactly its*)
(* own are shown, also where two buttons select the same panel and after   *)
(* choices that were canceled.  The trigger of a tab container shows the   *)
(* text of the active tab even before.                                     *)
TabsConsistent ==
    /\ activated # 0 =>
           active = activated /\ panels \cap UNION {target[t] : t \in Buttons} = target[activated]
    /\ ready /\ kind = "tabs" /\ active # 0 => text = active
=============================================================================
