------------------------------- MODULE Modal -------------------------------
(***************************************************************************)
(* The dialogs of bluemix-components.js, one for each row of the pages of  *)
(* hfrd.js.  A dialog becomes visible or hidden at once, but if its style  *)
(* has a transition, only the end of one announces the change by an event; *)
(* meanwhile the user may change it again.  All dialogs share one class of *)
(* the body, which keeps the page behind them from scrolling.              *)
(***************************************************************************)
EXTENDS Integers, Sequences, FiniteSets

CONSTANTS
    Modals,
    Stylesheets, \* what may be animated: the pages' own has {"visible"}
    MaxWaiting   \* bound: changes of a dialog that are not yet announced

VARIABLES
    animated,  \* of the styles "visible" and "hidden", those with a transition
    created,   \* the dialogs with a Modal object and its listeners
    visible,   \* the dialogs with classVisible
    noScroll,  \* classNoScroll of the body
    pending,   \* pending[m]: what its transitionend listeners will announce
    last,      \* last[m]: the last of these events that was dispatched
    balance    \* balance[m]: its modal-shown less its modal-hidden, of those dispatched

vars == <<animated, created, visible, noScroll, pending, last, balance>>

Styles == {"visible", "hidden"}
AfterEvents == {"modal-shown", "modal-hidden"}

TypeOK ==
    /\ animated \subseteq Styles
    /\ created \subseteq Modals /\ visible \subseteq created
    /\ noScroll \in BOOLEAN
    /\ pending \in [Modals -> Seq(AfterEvents)]
    /\ last \in [Modals -> AfterEvents]
    /\ balance \in [Modals -> Int]

Init ==
    /\ animated \in Stylesheets \cap SUBSET Styles
    /\ created = {} /\ visible = {}
    /\ noScroll = FALSE
    /\ pending = [m \in Modals |-> <<>>]
    /\ last = [m \in Modals |-> "modal-hidden"]
    /\ balance = [m \in Modals |-> 0]

-----------------------------------------------------------------------------
(* _changeState, for every dialog of S, which is not empty.  The duration  *)
(* of the transition is read before the class is toggled.                  *)

ToggleScroll(show) == noScroll' = show

Style(m) == IF m \in visible THEN "visible" ELSE "hidden"

Waits(m) == Style(m) \in animated

(* The events that are dispatched on the spot.                             *)
Dispatch(S, event) ==
    /\ last' = [m \in Modals |-> IF m \in S THEN event ELSE last[m]]
    /\ balance' = [m \in Modals |->
                      IF m \notin S THEN balance[m]
                      ELSE IF event = "modal-shown" THEN balance[m] + 1 ELSE balance[m] - 1]

(* A fault of Announce: no second listener while there is one.             *)
AnnounceOnce(S, event) ==
    /\ pending' = [m \in Modals |->
                      IF m \in S /\ Waits(m) /\ pending[m] = <<>> THEN <<event>>
                                                                  ELSE pending[m]]
    /\ Dispatch({m \in S : ~Waits(m)}, event)

(* Each change adds a listener of its own; without a transition the event  *)
(* is dispatched on the spot.                                              *)
Announce(S, event) ==
    /\ pending' = [m \in Modals |->
                      IF m \in S /\ Waits(m) THEN Append(pending[m], event)
                                             ELSE pending[m]]
    /\ Dispatch({m \in S : ~Waits(m)}, event)

ChangeState(S, show) ==
    /\ \A m \in S : Len(pending[m]) < MaxWaiting
    /\ visible' = (IF show THEN visible \cup S ELSE visible \ S)
    /\ ToggleScroll(show)
    /\ Announce(S, IF show THEN "modal-shown" ELSE "modal-hidden")

(* A fault of Show: the dialog is shown without a Modal object of its own, *)
(* so that nobody hears the clicks and keys that close it.                 *)
ShowWithoutObject(m) ==
    /\ m \notin visible /\ ChangeState({m}, TRUE)
    /\ UNCHANGED <<animated, created>>

(* show, from a click on the button whose data-modal-target is m; the      *)
(* Modal object is created by the first.  No script of the pages listens   *)
(* to the events before a change, which could cancel it.                   *)
Show(m) ==
    /\ created' = created \cup {m}
    /\ IF m \in visible THEN UNCHANGED <<visible, noScroll, pending, last, balance>>
                        ELSE ChangeState({m}, TRUE)
    /\ UNCHANGED animated

(* hide, from a click on the backdrop or on a [data-modal-close].          *)
Close(m) ==
    /\ m \in visible
    /\ ChangeState({m}, FALSE)
    /\ UNCHANGED <<animated, created>>

(* Each Modal object listens to the body's keydown.                        *)
Escape ==
    /\ visible # {}
    /\ ChangeState(visible, FALSE)
    /\ UNCHANGED <<animated, created>>

(* How many of its listeners will announce an event.                       *)
Owed(m, event) == Cardinality({i \in DOMAIN pending[m] : pending[m][i] = event})

(* A transitionend at the dialog, its own or one that bubbles up from what *)
(* is in it: the listeners do not tell them apart.  All of them run.       *)
TransitionEnd(m) ==
    /\ pending[m] # <<>>
    /\ last' = [last EXCEPT ![m] = pending[m][Len(pending[m])]]
    /\ balance' = [balance EXCEPT ![m] = @ + Owed(m, "modal-shown") - Owed(m, "modal-hidden")]
    /\ pending' = [pending EXCEPT ![m] = <<>>]
    /\ UNCHANGED <<animated, created, visible, noScroll>>

Next ==
    \/ \E m \in Modals : Show(m) \/ Close(m) \/ TransitionEnd(m)
    \/ Escape

Spec == Init /\ [][Next]_vars
-----------------------------------------------------------------------------
(* Properties.                                                             *)

(* When no dialog is shown, the page scrolls.  (It may also scroll while   *)
(* one is shown: hiding another takes the class off.)                      *)
ScrollLockReleased == noScroll => visible # {}

(* However quickly a dialog is shown and hidden, and whichever styles are  *)
(* animated, no change is announced twice and none is forgotten: the events*)
(* dispatched and those that listeners wait to dispatch add up to what the *)
(* dialog is.                                                              *)
ChangesAnnounced ==
    \A m \in Modals :
        balance[m] + Owed(m, "modal-shown") - Owed(m, "modal-hidden") =
            IF m \in visible THEN 1 ELSE 0

(* Nor do they come in the wrong order, with one exception: when no event  *)
(* waits, the last one tells whether the dialog is shown, unless the style *)
(* it has now is the only one that is animated.  In the pages' stylesheet  *)
(* only a visible dialog's is, so one that is hidden has said so last; one *)
(* that is shown again may have said last that it is hidden, because the   *)
(* event after hiding waited for the transition of showing.                *)
LastEventIsState ==
    \A m \in Modals :
        /\ pending[m] = <<>>
        /\ animated # {Style(m)}
        => (last[m] = "modal-shown" <=> m \in visible)

DialogsConsistent == ScrollLockReleased /\ ChangesAnnounced /\ LastEventIsState
=============================================================================
