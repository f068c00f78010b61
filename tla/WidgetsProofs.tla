--------------------------- MODULE WidgetsProofs ---------------------------
(***************************************************************************)
(* Proofs about the widgets of bluemix-components.js, for any number of    *)
(* dialogs, menus, dropdowns, buttons and <use> elements, for panels and   *)
(* buttons in any state, and for any stylesheet.                           *)
(***************************************************************************)
EXTENDS MCPages, Sequences, FiniteSetTheorems, TLAPS

(* Modal.                                                                  *)

(* The events q of which listeners will dispatch f.                        *)
Count(q, f) == Cardinality({i \in DOMAIN q : q[i] = f})

(* The last event about a dialog: the last that waits, or the last that    *)
(* was dispatched if none waits.                                           *)
Newest(m) == IF pending[m] = <<>> THEN last[m] ELSE pending[m][Len(pending[m])]

(* It tells the state of the dialog, but for the exception that            *)
(* LastEventIsState makes; where no style is animated, nothing waits.      *)
NewestOK(m) ==
    /\ animated = {} => pending[m] = <<>>
    /\ animated # {Dialogs!Style(m)} => (Newest(m) = "modal-shown" <=> m \in visible)

ModalInv ==
    /\ Dialogs!TypeOK
    /\ Dialogs!ScrollLockReleased
    /\ Dialogs!ChangesAnnounced
    /\ \A m \in Modals : NewestOK(m)

LEMMA OwedCounts == \A m : \A f : Dialogs!Owed(m, f) = Count(pending[m], f)
BY DEF Dialogs!Owed, Count, Dialogs!Cardinality, Cardinality

LEMMA CountData ==
    ASSUME NEW f
    PROVE  /\ Count(<<>>, f) = 0
           /\ \A q \in Seq(Dialogs!AfterEvents) : Count(q, f) \in Nat
<1>1. {i \in DOMAIN <<>> : <<>>[i] = f} = {}
  <2>1. <<>> \in Seq({}) /\ Len(<<>>) = 0
    OBVIOUS
  <2>2. DOMAIN <<>> = {}
    BY <2>1
  <2> QED BY <2>2
<1>2. ASSUME NEW q \in Seq(Dialogs!AfterEvents)
      PROVE  Count(q, f) \in Nat
  <2>1. DOMAIN q = 1 .. Len(q) /\ Len(q) \in Nat
    OBVIOUS
  <2>2. IsFiniteSet({i \in DOMAIN q : q[i] = f})
    <3>1. IsFiniteSet(1 .. Len(q))
      BY <2>1, FS_Interval
    <3>2. {i \in DOMAIN q : q[i] = f} \subseteq 1 .. Len(q)
      BY <2>1
    <3> QED BY <3>1, <3>2, FS_Subset
  <2> QED BY <2>2, FS_CardinalityType DEF Count
<1> QED BY <1>1, <1>2, FS_EmptySet DEF Count

(* A listener that is added counts for its own event.                      *)
LEMMA CountAppended ==
    ASSUME NEW q \in Seq(Dialogs!AfterEvents), NEW e \in Dialogs!AfterEvents, NEW f
    PROVE  /\ Append(q, e) \in Seq(Dialogs!AfterEvents)
           /\ Append(q, e) # <<>> /\ Append(q, e)[Len(Append(q, e))] = e
           /\ Count(Append(q, e), f) = Count(q, f) + (IF e = f THEN 1 ELSE 0)
<1> DEFINE n == Len(q) + 1
           these == {i \in DOMAIN q : q[i] = f}
<1>1. /\ Append(q, e) \in Seq(Dialogs!AfterEvents) /\ DOMAIN Append(q, e) = 1 .. n
      /\ DOMAIN q = 1 .. Len(q) /\ Len(q) \in Nat
      /\ \A i \in 1 .. n : Append(q, e)[i] = IF i = n THEN e ELSE q[i]
      /\ Append(q, e) # <<>> /\ Append(q, e)[Len(Append(q, e))] = e
  OBVIOUS
<1>2. {i \in DOMAIN Append(q, e) : Append(q, e)[i] = f} =
          IF e = f THEN these \cup {n} ELSE these
  <2>1. 1 .. n = (1 .. Len(q)) \cup {n} /\ n \notin 1 .. Len(q)
    BY <1>1
  <2> QED BY <1>1, <2>1
<1>3. IsFiniteSet(these) /\ n \notin these
  <2>1. IsFiniteSet(1 .. Len(q))
    BY <1>1, FS_Interval
  <2>2. these \subseteq 1 .. Len(q) /\ n \notin 1 .. Len(q)
    BY <1>1
  <2> QED BY <2>1, <2>2, FS_Subset
<1>4. Cardinality(these \cup {n}) = Cardinality(these) + 1 /\ Cardinality(these) \in Nat
  BY <1>3, FS_AddElement, FS_CardinalityType
<1>5. Count(q, f) = Cardinality(these)
  BY DEF Count
<1>6. Count(Append(q, e), f) = Cardinality(IF e = f THEN these \cup {n} ELSE these)
  BY <1>2 DEF Count
<1> HIDE DEF these, n
<1>7. CASE e = f
  BY <1>1, <1>4, <1>5, <1>6, <1>7
<1>8. CASE e # f
  BY <1>1, <1>4, <1>5, <1>6, <1>8
<1> QED BY <1>7, <1>8

LEMMA ModalInit ==
    ASSUME animated \subseteq Dialogs!Styles, created = {}, visible = {}, noScroll = FALSE,
           pending = [m \in Modals |-> <<>>], last = [m \in Modals |-> "modal-hidden"],
           balance = [m \in Modals |-> 0]
    PROVE  ModalInv
<1>1. pending \in [Modals -> Seq(Dialogs!AfterEvents)] /\ last \in [Modals -> Dialogs!AfterEvents]
  BY DEF Dialogs!AfterEvents
<1>2. \A m \in Modals : \A f : Dialogs!Owed(m, f) = 0
  BY OwedCounts, CountData
<1>3. Dialogs!TypeOK
  <2>1. balance \in [Modals -> Int]
    OBVIOUS
  <2> QED BY <1>1, <2>1 DEF Dialogs!TypeOK, Dialogs!Styles
<1>4. \A m \in Modals :
          balance[m] + Dialogs!Owed(m, "modal-shown") - Dialogs!Owed(m, "modal-hidden") = 0
  BY <1>2
<1>5. \A m \in Modals : NewestOK(m)
  BY DEF NewestOK, Newest
<1> QED
  BY <1>3, <1>4, <1>5 DEF ModalInv, Dialogs!ScrollLockReleased, Dialogs!ChangesAnnounced

(* A change of the dialogs of S, whatever S is, if it is one for all.      *)
LEMMA ChangeKeeps ==
    ASSUME ModalInv, NEW S \in SUBSET Modals, S # {}, NEW show \in BOOLEAN,
           Dialogs!ChangeState(S, show), animated' = animated,
           created' \subseteq Modals, created \subseteq created',
           IF show THEN S \subseteq created' \ visible
                   ELSE S \subseteq visible /\ (S = visible \/ \E m \in visible : S = {m})
    PROVE  ModalInv'
<1> DEFINE event == IF show THEN "modal-shown" ELSE "modal-hidden"
           late == {m \in S : Dialogs!Waits(m)}
           now == {m \in S : ~Dialogs!Waits(m)}
<1>1. event \in Dialogs!AfterEvents
  BY DEF Dialogs!AfterEvents
<1>2. /\ visible' = (IF show THEN visible \cup S ELSE visible \ S)
      /\ noScroll' = show
      /\ pending' = [m \in Modals |-> IF m \in late THEN Append(pending[m], event) ELSE pending[m]]
      /\ last' = [m \in Modals |-> IF m \in now THEN event ELSE last[m]]
      /\ balance' = [m \in Modals |->
                        IF m \notin now THEN balance[m]
                        ELSE IF event = "modal-shown" THEN balance[m] + 1 ELSE balance[m] - 1]
  BY DEF Dialogs!ChangeState, Dialogs!ToggleScroll, Dialogs!Announce, Dialogs!Dispatch
<1>3. /\ event = "modal-shown" <=> show
      /\ event = "modal-hidden" <=> ~show
      /\ now \cap late = {} /\ now \cup late = S
  OBVIOUS
<1> HIDE DEF event, late, now
<1>4. /\ pending \in [Modals -> Seq(Dialogs!AfterEvents)] /\ last \in [Modals -> Dialogs!AfterEvents]
      /\ balance \in [Modals -> Int] /\ noScroll \in BOOLEAN
      /\ animated \subseteq Dialogs!Styles /\ created \subseteq Modals /\ visible \subseteq created
  BY DEF ModalInv, Dialogs!TypeOK
<1>5. Dialogs!TypeOK'
  <2>1. pending' \in [Modals -> Seq(Dialogs!AfterEvents)]
    <3>1. \A m \in Modals : Append(pending[m], event) \in Seq(Dialogs!AfterEvents)
      BY <1>1, <1>4, CountAppended
    <3> QED BY <1>2, <1>4, <3>1
  <2>2. last' \in [Modals -> Dialogs!AfterEvents]
    BY <1>1, <1>2, <1>4
  <2>3. balance' \in [Modals -> Int]
    BY <1>2, <1>4
  <2>4. visible' \subseteq created'
    BY <1>2, <1>4
  <2> QED BY <1>2, <1>4, <2>1, <2>2, <2>3, <2>4 DEF Dialogs!TypeOK
<1>6. Dialogs!ScrollLockReleased'
  BY <1>2 DEF Dialogs!ScrollLockReleased
<1>7. ASSUME NEW m \in Modals
      PROVE  balance'[m] + Count(pending'[m], "modal-shown") - Count(pending'[m], "modal-hidden") =
                 IF m \in visible' THEN 1 ELSE 0
  <2>1. /\ balance[m] + Count(pending[m], "modal-shown") - Count(pending[m], "modal-hidden") =
               IF m \in visible THEN 1 ELSE 0
        /\ balance[m] \in Int /\ Count(pending[m], "modal-shown") \in Nat
        /\ Count(pending[m], "modal-hidden") \in Nat
    BY <1>4, OwedCounts, CountData DEF ModalInv, Dialogs!ChangesAnnounced
  <2>2. CASE m \notin S
    BY <1>2, <1>3, <2>1, <2>2
  <2>3. CASE m \in now
    <3>1. /\ pending'[m] = pending[m]
          /\ balance'[m] = IF show THEN balance[m] + 1 ELSE balance[m] - 1
      BY <1>2, <1>3, <2>3
    <3>2. m \in visible <=> ~show
      BY <1>3, <2>3
    <3>3. m \in visible' <=> show
      BY <1>2, <1>3, <2>3
    <3> QED BY <2>1, <3>1, <3>2, <3>3
  <2>4. CASE m \in late
    <3>1. pending'[m] = Append(pending[m], event) /\ balance'[m] = balance[m]
      BY <1>2, <1>3, <2>4
    <3>2. /\ Count(pending'[m], "modal-shown") =
                 Count(pending[m], "modal-shown") + (IF show THEN 1 ELSE 0)
          /\ Count(pending'[m], "modal-hidden") =
                 Count(pending[m], "modal-hidden") + (IF show THEN 0 ELSE 1)
      BY <1>1, <1>3, <1>4, <3>1, CountAppended
    <3>3. m \in visible <=> ~show
      BY <1>3, <2>4
    <3>4. m \in visible' <=> show
      BY <1>2, <1>3, <2>4
    <3> QED BY <2>1, <3>1, <3>2, <3>3, <3>4
  <2> QED BY <1>3, <2>2, <2>3, <2>4
<1>8. Dialogs!ChangesAnnounced'
  <2>1. \A m \in Modals : \A f : Dialogs!Owed(m, f)' = Count(pending'[m], f)
    BY DEF Dialogs!Owed, Count, Dialogs!Cardinality, Cardinality
  <2> QED BY <1>7, <2>1 DEF Dialogs!ChangesAnnounced
<1>9. ASSUME NEW m \in Modals
      PROVE  NewestOK(m)'
  <2>0. NewestOK(m)
    BY DEF ModalInv
  <2>1. CASE m \notin S
    <3>1. pending'[m] = pending[m] /\ last'[m] = last[m]
      BY <1>2, <1>3, <2>1
    <3>2. m \in visible' <=> m \in visible
      BY <1>2, <2>1
    <3> QED BY <2>0, <3>1, <3>2 DEF NewestOK, Newest, Dialogs!Style
  <2>2. CASE m \in now
    <3>1. pending'[m] = pending[m] /\ last'[m] = event
      BY <1>2, <1>3, <2>2
    <3>2. (m \in visible <=> ~show) /\ (m \in visible' <=> show)
      BY <1>2, <1>3, <2>2
    <3>3. Dialogs!Style(m) \notin animated
      BY <2>2 DEF now, Dialogs!Waits
    <3>4. animated \subseteq {Dialogs!Style(m)'}
      BY <1>4, <3>2, <3>3 DEF Dialogs!Style, Dialogs!Styles
    <3>5. CASE animated = {}
      BY <1>3, <2>0, <3>1, <3>2, <3>5 DEF NewestOK, Newest
    <3>6. CASE animated # {}
      BY <3>4, <3>6 DEF NewestOK
    <3> QED BY <3>5, <3>6
  <2>3. CASE m \in late
    <3>1. pending'[m] = Append(pending[m], event)
      BY <1>2, <1>3, <2>3
    <3>2. Newest(m)' = event
      <4>1. pending[m] \in Seq(Dialogs!AfterEvents)
        BY <1>4
      <4>2. /\ Append(pending[m], event) # <<>>
            /\ Append(pending[m], event)[Len(Append(pending[m], event))] = event
        BY <1>1, <4>1, CountAppended
      <4> QED BY <3>1, <4>2 DEF Newest
    <3>3. m \in visible' <=> show
      BY <1>2, <1>3, <2>3
    <3>4. animated # {}
      BY <2>3 DEF late, Dialogs!Waits
    <3> QED BY <1>3, <3>2, <3>3, <3>4 DEF NewestOK
  <2> QED BY <1>3, <2>1, <2>2, <2>3
<1> QED BY <1>5, <1>6, <1>8, <1>9 DEF ModalInv

LEMMA ModalNext == ModalInv /\ [Dialogs!Next]_modalVars => ModalInv'
<1> SUFFICES ASSUME ModalInv, [Dialogs!Next]_modalVars PROVE ModalInv'
  OBVIOUS
<1>1. /\ Dialogs!TypeOK /\ visible \subseteq created /\ created \subseteq Modals
      /\ pending \in [Modals -> Seq(Dialogs!AfterEvents)] /\ last \in [Modals -> Dialogs!AfterEvents]
      /\ balance \in [Modals -> Int]
  BY DEF ModalInv, Dialogs!TypeOK
<1>2. ASSUME UNCHANGED <<animated, visible, noScroll, pending, last, balance>>,
             created \subseteq created', created' \subseteq Modals
      PROVE  ModalInv'
  <2>1. Dialogs!TypeOK'
    BY <1>1, <1>2 DEF Dialogs!TypeOK
  <2>2. \A m \in Modals : \A f : Dialogs!Owed(m, f)' = Dialogs!Owed(m, f)
    BY <1>2 DEF Dialogs!Owed
  <2>3. \A m \in Modals : NewestOK(m)'
    BY <1>2 DEF ModalInv, NewestOK, Newest, Dialogs!Style
  <2> QED
    BY <1>2, <2>1, <2>2, <2>3 DEF ModalInv, Dialogs!ScrollLockReleased, Dialogs!ChangesAnnounced
<1>3. ASSUME NEW m \in Modals, Dialogs!Show(m)
      PROVE  ModalInv'
  <2>1. created' = created \cup {m} /\ animated' = animated
    BY <1>3 DEF Dialogs!Show
  <2>2. CASE m \in visible
    BY <1>1, <1>2, <1>3, <2>1, <2>2 DEF Dialogs!Show
  <2>3. CASE m \notin visible
    <3>1. Dialogs!ChangeState({m}, TRUE)
      BY <1>3, <2>3 DEF Dialogs!Show
    <3> QED BY <1>1, <2>1, <2>3, <3>1, ChangeKeeps
  <2> QED BY <2>2, <2>3
<1>4. ASSUME NEW m \in Modals, Dialogs!Close(m)
      PROVE  ModalInv'
  <2>1. Dialogs!ChangeState({m}, FALSE) /\ m \in visible /\ animated' = animated /\ created' = created
    BY <1>4 DEF Dialogs!Close
  <2> QED BY <1>1, <2>1, ChangeKeeps
<1>5. CASE Dialogs!Escape
  <2>1. /\ Dialogs!ChangeState(visible, FALSE) /\ visible # {}
        /\ animated' = animated /\ created' = created
    BY <1>5 DEF Dialogs!Escape
  <2>2. visible \in SUBSET Modals
    BY <1>1
  <2> QED BY <1>1, <2>1, <2>2, ChangeKeeps
<1>6. ASSUME NEW m \in Modals, Dialogs!TransitionEnd(m)
      PROVE  ModalInv'
  <2>1. /\ pending[m] # <<>> /\ pending' = [pending EXCEPT ![m] = <<>>]
        /\ last' = [last EXCEPT ![m] = pending[m][Len(pending[m])]]
        /\ balance' = [balance EXCEPT ![m] = @ + Count(pending[m], "modal-shown")
                                             - Count(pending[m], "modal-hidden")]
        /\ UNCHANGED <<animated, created, visible, noScroll>>
    BY <1>6, OwedCounts DEF Dialogs!TransitionEnd
  <2>2. /\ \A v \in Modals : /\ Count(pending[v], "modal-shown") \in Nat
                             /\ Count(pending[v], "modal-hidden") \in Nat
        /\ Count(<<>>, "modal-shown") = 0 /\ Count(<<>>, "modal-hidden") = 0
    BY <1>1, CountData
  <2>3. Dialogs!TypeOK'
    <3>1. pending[m][Len(pending[m])] \in Dialogs!AfterEvents /\ <<>> \in Seq(Dialogs!AfterEvents)
      <4>1. Len(pending[m]) \in 1 .. Len(pending[m])
        BY <1>1, <2>1
      <4> QED BY <1>1, <4>1
    <3>2. balance' \in [Modals -> Int]
      BY <1>1, <2>1, <2>2
    <3> QED BY <1>1, <2>1, <3>1, <3>2 DEF Dialogs!TypeOK
  <2>4. ASSUME NEW v \in Modals
        PROVE  balance'[v] + Count(pending'[v], "modal-shown") - Count(pending'[v], "modal-hidden") =
                   IF v \in visible' THEN 1 ELSE 0
    <3>1. balance[v] + Count(pending[v], "modal-shown") - Count(pending[v], "modal-hidden") =
              IF v \in visible THEN 1 ELSE 0
      BY OwedCounts DEF ModalInv, Dialogs!ChangesAnnounced
    <3>2. CASE v = m
      <4>1. /\ pending'[v] = <<>>
            /\ balance'[v] = balance[v] + Count(pending[v], "modal-shown")
                                        - Count(pending[v], "modal-hidden")
        BY <1>1, <2>1, <3>2
      <4> QED BY <1>1, <2>1, <2>2, <3>1, <4>1
    <3>3. CASE v # m
      <4>1. pending'[v] = pending[v] /\ balance'[v] = balance[v]
        BY <1>1, <2>1, <3>3
      <4> QED BY <2>1, <3>1, <4>1
    <3> QED BY <3>2, <3>3
  <2>5. \A v \in Modals : \A f : Dialogs!Owed(v, f)' = Count(pending'[v], f)
    BY DEF Dialogs!Owed, Count, Dialogs!Cardinality, Cardinality
  <2>6. ASSUME NEW v \in Modals
        PROVE  NewestOK(v)'
    <3>1. /\ pending'[v] = IF v = m THEN <<>> ELSE pending[v]
          /\ last'[v] = IF v = m THEN pending[m][Len(pending[m])] ELSE last[v]
      BY <1>1, <2>1
    <3>2. Newest(v)' = Newest(v) /\ Dialogs!Style(v)' = Dialogs!Style(v)
      BY <2>1, <3>1 DEF Newest, Dialogs!Style
    <3>3. NewestOK(v)
      BY DEF ModalInv
    <3> QED BY <2>1, <3>1, <3>2, <3>3 DEF NewestOK
  <2> QED
    BY <2>1, <2>3, <2>4, <2>5, <2>6
    DEF ModalInv, Dialogs!ScrollLockReleased, Dialogs!ChangesAnnounced
<1>7. CASE UNCHANGED modalVars
  BY <1>1, <1>2, <1>7 DEF modalVars
<1> QED BY <1>3, <1>4, <1>5, <1>6, <1>7 DEF Dialogs!Next

LEMMA ModalConsistent == ModalInv => Dialogs!DialogsConsistent
BY DEF ModalInv, NewestOK, Newest, Dialogs!DialogsConsistent, Dialogs!LastEventIsState

(* With any dialogs and any stylesheet, the page scrolls again once every  *)
(* dialog is hidden, and no change of a dialog is announced twice or       *)
(* forgotten, however many of them wait for a transition.                  *)
THEOREM DialogsStayConsistent == Dialogs!Spec => []Dialogs!DialogsConsistent
<1>1. Dialogs!Init => ModalInv
  BY ModalInit DEF Dialogs!Init
<1> QED BY <1>1, ModalConsistent, ModalNext, PTL DEF Dialogs!Spec, Dialogs!vars, modalVars

-----------------------------------------------------------------------------
(* Tabs.                                                                   *)

TabsInv == Switch!TypeOK /\ Switch!TabsConsistent

LEMMA TabsInit == Switch!Init => TabsInv
<1> SUFFICES ASSUME Switch!Init PROVE TabsInv
  OBVIOUS
<1>1. 0 \in 0 .. NTabs
  BY MCPagesAssumption
<1> QED BY <1>1 DEF Switch!Init, TabsInv, Switch!TypeOK, Switch!TabsConsistent

(* Of the panels that any button selects, those of the one that is         *)
(* activated are shown and no others.                                      *)
LEMMA ActivatingKeeps ==
    ASSUME TabsInv, NEW t \in Switch!Buttons, Switch!ChangeActive(t),
           UNCHANGED <<kind, target, narrow>>, menu' \in BOOLEAN, ready' \in BOOLEAN
    PROVE  TabsInv'
<1>1. /\ active' = t /\ activated' = t /\ text' = IF kind = "tabs" THEN t ELSE text
      /\ panels' = (panels \ Switch!OthersTargets(t)) \cup target[t]
      /\ target' = target /\ kind' = kind
  BY DEF Switch!ChangeActive, Switch!ShowPanels, Switch!UpdateTriggerText
<1>2. /\ t \in 0 .. NTabs /\ panels \subseteq Panels /\ target[t] \subseteq Panels
      /\ target \in [Switch!Buttons -> SUBSET Panels]
      /\ kind \in {"switcher", "tabs"} /\ text \in 0 .. NTabs /\ narrow \in BOOLEAN
  BY MCPagesAssumption DEF TabsInv, Switch!TypeOK, Switch!Buttons
<1>3. Switch!TypeOK'
  BY <1>1, <1>2 DEF Switch!TypeOK, Switch!Buttons
<1>4. panels' \cap UNION {target[u] : u \in Switch!Buttons} = target[t]
  BY <1>1 DEF Switch!OthersTargets
<1> QED BY <1>1, <1>3, <1>4 DEF TabsInv, Switch!TabsConsistent, Switch!Buttons

(* A choice that is canceled, and whatever else leaves the buttons alone.  *)
LEMMA LeavingKeeps ==
    ASSUME TabsInv, UNCHANGED <<kind, target, ready, active, activated, panels, text>>,
           menu' \in BOOLEAN, narrow' \in BOOLEAN
    PROVE  TabsInv'
BY DEF TabsInv, Switch!TypeOK, Switch!TabsConsistent, Switch!Buttons

LEMMA SettingKeeps ==
    ASSUME TabsInv, NEW t \in Switch!Buttons, Switch!SetActive(t),
           UNCHANGED <<kind, target, ready, narrow>>, menu' \in BOOLEAN
    PROVE  TabsInv'
<1>1. ready \in BOOLEAN /\ narrow \in BOOLEAN
  BY DEF TabsInv, Switch!TypeOK
<1> QED BY <1>1, ActivatingKeeps, LeavingKeeps DEF Switch!SetActive

(* An arrow key finds a button from every position, the first and the last *)
(* and none included.                                                      *)
LEMMA ArrowFindsButton ==
    ASSUME active \in 0 .. NTabs, NEW direction \in {-1, 1}
    PROVE  Switch!NextIndexLooped(Switch!NextIndex(direction)) + 1 \in Switch!Buttons
BY MCPagesAssumption
DEF Switch!NextIndexLooped, Switch!NextIndex, Switch!Sign, Switch!Buttons

LEMMA TabsNext == TabsInv /\ [Switch!Next]_tabsVars => TabsInv'
<1> SUFFICES ASSUME TabsInv, [Switch!Next]_tabsVars PROVE TabsInv'
  OBVIOUS
<1>0. /\ active \in 0 .. NTabs /\ menu \in BOOLEAN /\ narrow \in BOOLEAN
  BY DEF TabsInv, Switch!TypeOK
<1>1. CASE Switch!Create
  <2>1. ready' = TRUE /\ UNCHANGED <<kind, target, menu, narrow>>
    BY <1>1 DEF Switch!Create
  <2>2. ASSUME NEW checked \in Switch!Buttons, Switch!ChangeActive(checked)
        PROVE  TabsInv'
    BY <1>0, <2>1, <2>2, ActivatingKeeps
  <2>3. CASE /\ (IF active # 0 THEN Switch!UpdateTriggerText(active) ELSE UNCHANGED text)
             /\ UNCHANGED <<active, activated, panels>>
    BY <1>0, <2>1, <2>3
    DEF Switch!UpdateTriggerText, TabsInv, Switch!TypeOK, Switch!Buttons, Switch!TabsConsistent
  <2> QED BY <1>1, <2>2, <2>3 DEF Switch!Create
<1>2. ASSUME NEW t \in Switch!Buttons, Switch!Click(t)
      PROVE  TabsInv'
  BY <1>0, <1>2, SettingKeeps DEF Switch!Click
<1>3. ASSUME NEW direction \in {-1, 1}, Switch!Arrow(direction)
      PROVE  TabsInv'
  BY <1>0, <1>3, SettingKeeps, ArrowFindsButton DEF Switch!Arrow
<1>4. CASE Switch!ClickTrigger
  BY <1>0, <1>4, LeavingKeeps DEF Switch!ClickTrigger
<1>5. CASE Switch!Resize
  BY <1>0, <1>5, LeavingKeeps DEF Switch!Resize
<1>6. CASE UNCHANGED tabsVars
  BY <1>0, <1>6, LeavingKeeps DEF tabsVars
<1> QED BY <1>1, <1>2, <1>3, <1>4, <1>5, <1>6 DEF Switch!Next

(* Whatever panels the markup shows and whichever button it marks, once the*)
(* script has activated a button the panels shown of all that buttons      *)
(* select are those of that button, also where buttons share panels; the   *)
(* text of the trigger is that of the active tab.                          *)
THEOREM TabsStayConsistent == Switch!Spec => []Switch!TabsConsistent
<1>1. TabsInv => Switch!TabsConsistent
  BY DEF TabsInv
<1> QED BY <1>1, TabsInit, TabsNext, PTL DEF Switch!Spec, Switch!vars, tabsVars

-----------------------------------------------------------------------------
(* Menus.                                                                  *)

(* Whoever opens an overflow menu closes all others, because every one of  *)
(* them hears what it hears.                                               *)
MenusInv ==
    /\ Drop!TypeOK
    /\ \A e, f \in open \cap Overflows : e = f
    /\ \A d \in Dropdowns : value[d] # NoOption => picked[d] = {value[d]}

LEMMA MenusInit == Drop!Init => MenusInv
BY DEF Drop!Init, MenusInv, Drop!TypeOK

LEMMA HearingKeeps ==
    ASSUME MenusInv, NEW x, NEW S \in SUBSET made, open' = Drop!HandleDocumentClick(S, x),
           made \cap Overflows \subseteq S \/ x \notin Overflows
    PROVE  open' \subseteq made /\ \A e, f \in open' \cap Overflows : e = f
BY DEF Drop!HandleDocumentClick, MenusInv, Drop!TypeOK

LEMMA MenusNext == MenusInv /\ [Drop!Next]_menusVars => MenusInv'
<1> SUFFICES ASSUME MenusInv, [Drop!Next]_menusVars PROVE MenusInv'
  OBVIOUS
<1> USE DEF MenusInv, Drop!TypeOK
<1>1. ASSUME NEW e \in Drop!Elements, Drop!Create(e)
      PROVE  MenusInv'
  BY <1>1 DEF Drop!Create
<1>2. ASSUME NEW x, Drop!Click(x)
      PROVE  MenusInv'
  BY <1>2, HearingKeeps DEF Drop!Click
<1>3. ASSUME NEW x, NEW isEnter \in BOOLEAN, Drop!KeyPress(x, isEnter)
      PROVE  MenusInv'
  <2> DEFINE S == made \cap ((IF isEnter THEN Overflows ELSE {}) \cup ({x} \cap Dropdowns))
  <2>1. open' = Drop!HandleDocumentClick(S, x) /\ UNCHANGED <<made, picked, value>>
    BY <1>3 DEF Drop!KeyPress
  <2>2. open' \subseteq made /\ \A e, f \in open' \cap Overflows : e = f
    <3>1. CASE isEnter
      BY <2>1, <3>1, HearingKeeps
    <3>2. CASE ~isEnter
      <4>1. \A e \in S : e \notin Overflows
        BY <3>2, MCPagesAssumption
      <4> QED BY <2>1, <4>1 DEF Drop!HandleDocumentClick
    <3> QED BY <3>1, <3>2
  <2> QED BY <2>1, <2>2
<1>4. ASSUME NEW d \in Dropdowns, NEW item \in Options, Drop!Select(d, item)
      PROVE  MenusInv'
  <2>1. open' \subseteq made /\ \A e, f \in open' \cap Overflows : e = f
    BY <1>4, HearingKeeps DEF Drop!Select
  <2> QED BY <1>4, <2>1 DEF Drop!Select
<1>5. CASE UNCHANGED menusVars
  BY <1>5 DEF menusVars
<1> QED BY <1>1, <1>2, <1>3, <1>4, <1>5 DEF Drop!Next

LEMMA AtMostOne ==
    ASSUME NEW S, \A e, f \in S : e = f
    PROVE  Drop!Cardinality(S) <= 1
<1>1. Drop!Cardinality(S) = Cardinality(S)
  BY DEF Drop!Cardinality, Cardinality
<1>2. CASE S = {}
  BY <1>1, <1>2, FS_EmptySet
<1>3. ASSUME NEW e \in S
      PROVE  Drop!Cardinality(S) <= 1
  <2>1. S = {e}
    BY <1>3
  <2> QED BY <1>1, <2>1, FS_Singleton
<1> QED BY <1>2, <1>3

LEMMA MenusAgree == MenusInv => Drop!MenusConsistent
BY AtMostOne DEF MenusInv, Drop!MenusConsistent

(* At most one overflow menu is open, and a dropdown that shows an item    *)
(* has selected it.                                                        *)
THEOREM MenusStayConsistent == Drop!Spec => []Drop!MenusConsistent
BY MenusInit, MenusNext, MenusAgree, PTL DEF Drop!Spec, Drop!vars, menusVars

-----------------------------------------------------------------------------
(* SvgUse.                                                                 *)

(* The count of requests in progress covers all that can be answered, and  *)
(* exceeds them only if one of its own has been aborted; while nobody is   *)
(* to start the next check, there is one in progress.                      *)
Loading == {b \in SvgFiles : cache[b] = "loading"}

IconsInv ==
    /\ Icons!TypeOK
    /\ Icons!ObservedOnce
    /\ Cardinality(Loading) <= inProgress
    /\ ~abandoned => Cardinality(Loading) = inProgress
    /\ observers = 0 /\ ~timer /\ ~abandoned => inProgress > 0

LEMMA SameCount == \A S : Icons!Cardinality(S) = Cardinality(S)
BY DEF Icons!Cardinality, Cardinality

LEMMA FilesCount ==
    ASSUME NEW S \in SUBSET SvgFiles
    PROVE  /\ IsFiniteSet(S) /\ Cardinality(S) \in 0 .. Cardinality(SvgFiles)
           /\ Cardinality(S) = 0 <=> S = {}
BY MCPagesAssumption, FS_Subset, FS_CardinalityType, FS_EmptySet

LEMMA IconsInit == Icons!Init => IconsInv
<1> SUFFICES ASSUME Icons!Init PROVE IconsInv
  OBVIOUS
<1>1. Loading = {}
  BY DEF Icons!Init, Icons!Bases, Loading
<1>2. Cardinality(Loading) = 0 /\ 0 \in 0 .. Icons!Cardinality(SvgFiles)
  BY <1>1, FilesCount, SameCount
<1>3. /\ base \in [Icons!Uses -> Icons!Bases] /\ size \in [Icons!Uses -> Icons!Sizes]
      /\ cache \in [Icons!Bases -> {"undefined", "true"} \cup Icons!Requests]
      /\ inProgress = 0 /\ observers = 0 /\ timer = TRUE /\ updates = {} /\ abandoned = FALSE
  BY DEF Icons!Init
<1>4. Icons!TypeOK
  BY <1>2, <1>3 DEF Icons!TypeOK
<1> QED BY <1>2, <1>3, <1>4 DEF IconsInv, Icons!ObservedOnce

(* After a check exactly the files it has asked for are loaded, but for    *)
(* those whose request it aborts itself.                                   *)
LEMMA CheckKeeps == IconsInv /\ Icons!CheckUseElems => IconsInv'
<1> SUFFICES ASSUME IconsInv, Icons!CheckUseElems PROVE IconsInv'
  OBVIOUS
<1>1. /\ timer /\ timer' = FALSE
      /\ updates' = updates \cup {<<i, base[i]>> : i \in Icons!Empties}
      /\ cache' = [b \in Icons!Bases |->
                      IF Icons!Unneeded(b, N) THEN "true"
                      ELSE IF b \in Icons!Asked THEN "loading" ELSE cache[b]]
      /\ abandoned' = (abandoned \/ \E b \in Icons!Bases :
             Icons!Unneeded(b, N) /\ (cache[b] = "loading" \/ b \in Icons!Asked))
      /\ inProgress' = Cardinality(Icons!Asked)
      /\ observers' = (IF observers = 0 THEN 0 ELSE observers - 1)
                      + (IF Icons!Asked = {} THEN 1 ELSE 0)
      /\ base' = base /\ size' = size
  BY SameCount DEF Icons!CheckUseElems
<1>2. Icons!Asked \subseteq SvgFiles /\ SvgFiles \subseteq Icons!Bases /\ Loading \subseteq SvgFiles
  BY DEF Icons!Asked, Icons!Bases, Loading
<1>3. inProgress = 0 /\ observers \in {0, 1}
  BY <1>1 DEF IconsInv, Icons!ObservedOnce, Icons!TypeOK
<1>4. Loading = {}
  BY <1>2, <1>3, FilesCount DEF IconsInv
<1>5. Loading' \subseteq Icons!Asked
  BY <1>1, <1>2, <1>4 DEF Loading
<1>6. ~abandoned' => Loading' = Icons!Asked
  BY <1>1, <1>2, <1>5 DEF Loading
<1>7. Cardinality(Loading') <= inProgress' /\ inProgress' \in 0 .. Cardinality(SvgFiles)
  BY <1>1, <1>2, <1>5, FilesCount, FS_Subset
<1>8. Icons!TypeOK'
  <2>1. cache' \in [Icons!Bases -> {"undefined", "true"} \cup Icons!Requests]
    BY <1>1 DEF IconsInv, Icons!TypeOK, Icons!Requests
  <2>2. updates' \subseteq Icons!Uses \X Icons!Bases
    <3>1. base \in [Icons!Uses -> Icons!Bases] /\ Icons!Empties \subseteq Icons!Uses
      BY DEF IconsInv, Icons!TypeOK, Icons!Empties
    <3>2. {<<i, base[i]>> : i \in Icons!Empties} \subseteq Icons!Uses \X Icons!Bases
      BY <3>1
    <3> QED BY <1>1, <3>2 DEF IconsInv, Icons!TypeOK
  <2>3. observers' \in Nat
    BY <1>1, <1>3
  <2>4. abandoned' \in BOOLEAN /\ timer' \in BOOLEAN
    BY <1>1
  <2> QED
    BY <1>1, <1>7, <2>1, <2>2, <2>3, <2>4, SameCount DEF IconsInv, Icons!TypeOK
<1>9. Icons!Asked = {} <=> inProgress' = 0
  BY <1>1, <1>2, FilesCount
<1>10. Icons!ObservedOnce'
  BY <1>1, <1>3, <1>9 DEF Icons!ObservedOnce
<1>11. ~abandoned' => Cardinality(Loading') = inProgress'
  BY <1>1, <1>6
<1>12. observers' = 0 => inProgress' > 0
  BY <1>1, <1>3, <1>7, <1>9
<1> QED BY <1>7, <1>8, <1>10, <1>11, <1>12 DEF IconsInv

LEMMA AnswerKeeps ==
    ASSUME IconsInv, NEW b \in SvgFiles, Icons!Answer(b)
    PROVE  IconsInv'
<1>1. PICK answer \in {"loaded", "failed"} :
          /\ cache[b] = "loading" /\ cache' = [cache EXCEPT ![b] = answer]
          /\ inProgress' = inProgress - 1
          /\ observers' = observers + (IF inProgress = 1 THEN 1 ELSE 0)
          /\ base' = base /\ size' = size /\ timer' = timer
          /\ updates' = updates /\ abandoned' = abandoned
  BY DEF Icons!Answer, Icons!ObserveIfDone
<1>2. /\ cache \in [Icons!Bases -> {"undefined", "true"} \cup Icons!Requests]
      /\ inProgress \in 0 .. Cardinality(SvgFiles) /\ observers \in Nat /\ b \in Icons!Bases
  BY SameCount DEF IconsInv, Icons!TypeOK, Icons!Bases
<1>3. Loading \subseteq SvgFiles /\ b \in Loading /\ Loading' = Loading \ {b}
  BY <1>1, <1>2 DEF Loading, Icons!Bases
<1>4. Cardinality(Loading') = Cardinality(Loading) - 1 /\ Cardinality(Loading) >= 1
      /\ Cardinality(SvgFiles) \in Nat
  BY <1>3, FilesCount, FS_RemoveElement
<1>5. inProgress >= 1 /\ inProgress \in Nat
  BY <1>2, <1>3, <1>4, FilesCount DEF IconsInv
<1>6. observers = 0 /\ ~timer
  BY <1>2, <1>5 DEF IconsInv, Icons!ObservedOnce
<1>7. Icons!TypeOK'
  <2>1. cache' \in [Icons!Bases -> {"undefined", "true"} \cup Icons!Requests]
    BY <1>1, <1>2 DEF Icons!Requests
  <2>2. inProgress' \in 0 .. Icons!Cardinality(SvgFiles) /\ observers' \in Nat
    BY <1>1, <1>2, <1>4, <1>5, SameCount
  <2> QED BY <1>1, <2>1, <2>2 DEF IconsInv, Icons!TypeOK
<1>8. Icons!ObservedOnce'
  BY <1>1, <1>5, <1>6 DEF Icons!ObservedOnce
<1>9. /\ Cardinality(Loading') <= inProgress'
      /\ ~abandoned' => Cardinality(Loading') = inProgress'
  BY <1>1, <1>3, <1>4, <1>5, FilesCount DEF IconsInv
<1>10. observers' = 0 => inProgress' > 0
  BY <1>1, <1>5, <1>6
<1> QED BY <1>7, <1>8, <1>9, <1>10 DEF IconsInv

LEMMA IconsNext == IconsInv /\ [Icons!Next]_svgVars => IconsInv'
<1> SUFFICES ASSUME IconsInv, [Icons!Next]_svgVars PROVE IconsInv'
  OBVIOUS
<1> USE DEF IconsInv, Icons!TypeOK, Icons!ObservedOnce, Icons!DebouncedCheck
<1>1. ASSUME NEW i \in Icons!Uses, Icons!AttrUpdate(i)
      PROVE  IconsInv'
  <2>1. /\ UNCHANGED <<size, cache, inProgress, observers, abandoned>>
        /\ updates' \subseteq updates
        /\ timer' \in BOOLEAN /\ (timer => timer') /\ (timer' => timer \/ observers > 0)
    BY <1>1 DEF Icons!AttrUpdate
  <2>2. base' \in [Icons!Uses -> Icons!Bases]
    BY <1>1 DEF Icons!AttrUpdate, Icons!Bases
  <2>3. Loading' = Loading
    BY <2>1 DEF Loading
  <2> QED BY <2>1, <2>2, <2>3
<1>2. ASSUME NEW i \in Icons!Uses, Icons!PageChanges(i)
      PROVE  IconsInv'
  <2>1. /\ UNCHANGED <<base, cache, inProgress, observers, updates, abandoned>>
        /\ timer' = (timer \/ observers > 0)
    BY <1>2 DEF Icons!PageChanges
  <2>2. size' \in [Icons!Uses -> Icons!Sizes]
    BY <1>2 DEF Icons!PageChanges
  <2>3. Loading' = Loading
    BY <2>1 DEF Loading
  <2> QED BY <2>1, <2>2, <2>3
<1>3. CASE UNCHANGED svgVars
  <2>1. Loading' = Loading
    BY <1>3 DEF Loading, svgVars
  <2> QED BY <1>3, <2>1 DEF svgVars
<1> QED BY <1>1, <1>2, <1>3, CheckKeeps, AnswerKeeps DEF Icons!Next

LEMMA IconsWatched == IconsInv => PageIsWatched
<1> SUFFICES ASSUME IconsInv PROVE PageIsWatched
  OBVIOUS
<1>1. ASSUME observers = 0, ~timer, ~abandoned
      PROVE  \E b \in SvgFiles : cache[b] = "loading"
  <2>1. Cardinality(Loading) > 0
    BY <1>1 DEF IconsInv
  <2>2. Loading # {}
    BY <2>1, FS_EmptySet
  <2> QED BY <2>2 DEF Loading
<1> QED
  BY <1>1 DEF PageIsWatched, Icons!PageIsWatched, Icons!WatchResumes, IconsInv

(* Whatever the page shows and hides while files are loaded, it is watched *)
(* once at a time, no check counts the requests of another, and it is      *)
(* watched again after every check that has not aborted its own request.   *)
THEOREM PageStaysWatched == Icons!Spec => []PageIsWatched
BY IconsInit, IconsNext, IconsWatched, PTL DEF Icons!Spec, Icons!vars, svgVars
=============================================================================
