--------------------------- MODULE ListPageProofs ---------------------------
(***************************************************************************)
(* Proofs of ListPage's safety properties, for any sets of jobs and calls  *)
(* and any number of requests and failures.                                *)
(***************************************************************************)
EXTENDS ListPage, TLAPS

(* A request of the user in flight is one of those there have been.  A     *)
(* timer is set exactly when updateIbpListTick is its id, so that the next *)
(* call to end clears it; and the chain of calls and timers never breaks.  *)
PollInv ==
    /\ TypeOK
    /\ sent <= requests
    /\ timers \in {0, 1}
    /\ tick <=> timers = 1
    /\ timers = 0 => \E u \in Calls : call[u].at # "idle"

LEMMA PollInit == Init => PollInv
<1> SUFFICES ASSUME Init PROVE PollInv
  OBVIOUS
<1> USE ListPageAssumption
<1>1. PICK u \in Calls : call = [v \in Calls |-> IF v = u THEN FirstGet ELSE Idle]
  BY DEF Init
<1>2. FirstGet \in CallStates /\ Idle \in CallStates /\ FirstGet.at = "first"
  BY DEF FirstGet, Idle, CallStates
<1>3. call \in [Calls -> CallStates] /\ call[u].at # "idle"
  BY <1>1, <1>2
<1>4. shown \in Lists
  BY DEF Init, Lists
<1>5. /\ record \in [Jobs -> {"none", "pending", "SUCCESS", "FAIL", "removed"}]
      /\ listing \in [PostJobs -> {"never", "listed", "gone"}]
  BY DEF Init, Catalog!Init
<1>6. /\ page \in {"networks", "certs"}
      /\ timers = 0 /\ tick = FALSE
      /\ sent = 0 /\ requests = 0 /\ failures = 0
  BY DEF Init
<1>7. /\ sent \in 0 .. MaxRequests /\ requests \in 0 .. MaxRequests
      /\ failures \in 0 .. MaxFailures /\ timers \in Nat
  BY <1>6
<1>8. TypeOK
  BY <1>3, <1>4, <1>5, <1>6, <1>7 DEF TypeOK
<1> QED BY <1>3, <1>6, <1>8 DEF PollInv

(* What a call of updateIbpList is after each of its steps.                *)
LEMMA CallSteps ==
    ASSUME call \in [Calls -> CallStates], NEW u \in Calls
    PROVE  /\ Idle \in CallStates /\ FirstGet \in CallStates
           /\ Idle.at = "idle" /\ FirstGet.at = "first"
           /\ GetDone(u) =>
                /\ call' \in [Calls -> CallStates]
                /\ call'[u].at = "second" /\ call'[u].done = Done
                /\ \A v \in Calls \ {u} : call'[v] = call[v]
           /\ GetPending(u) =>
                /\ call' \in [Calls -> CallStates]
                /\ call'[u].at = "back" /\ call'[u].done = call[u].done
                /\ call'[u].pending = Pending
                /\ \A v \in Calls \ {u} : call'[v] = call[v]
           /\ call' = [call EXCEPT ![u] = Idle] =>
                /\ call' \in [Calls -> CallStates]
                /\ call'[u].at = "idle"
                /\ \A v \in Calls \ {u} : call'[v] = call[v]
           /\ Start(u) =>
                /\ call' \in [Calls -> CallStates]
                /\ call'[u].at = "first"
                /\ \A v \in Calls \ {u} : call'[v] = call[v]
<1> USE ListPageAssumption
<1>1. Done \in SUBSET Jobs /\ Pending \in SUBSET Jobs
  BY DEF Done, Pending
<1>2. /\ Idle \in CallStates /\ FirstGet \in CallStates
      /\ Idle.at = "idle" /\ FirstGet.at = "first"
  BY DEF Idle, FirstGet, CallStates
<1>3. ASSUME GetDone(u)
      PROVE  /\ call' \in [Calls -> CallStates]
             /\ call'[u].at = "second" /\ call'[u].done = Done
             /\ \A v \in Calls \ {u} : call'[v] = call[v]
  <2> DEFINE next == [Idle EXCEPT !.at = "second", !.done = Done]
  <2>1. call' = [call EXCEPT ![u] = next]
    BY <1>3 DEF GetDone
  <2>2. next \in CallStates /\ next.at = "second" /\ next.done = Done
    BY <1>1, <1>2 DEF CallStates
  <2> HIDE DEF next
  <2> QED BY <2>1, <2>2
<1>4. ASSUME GetPending(u)
      PROVE  /\ call' \in [Calls -> CallStates]
             /\ call'[u].at = "back" /\ call'[u].done = call[u].done
             /\ call'[u].pending = Pending
             /\ \A v \in Calls \ {u} : call'[v] = call[v]
  <2> DEFINE next == [call[u] EXCEPT !.at = "back", !.pending = Pending]
  <2>1. call' = [call EXCEPT ![u] = next]
    BY <1>4 DEF GetPending
  <2>2. call[u] \in CallStates
    OBVIOUS
  <2>3. /\ next \in CallStates /\ next.at = "back"
        /\ next.done = call[u].done /\ next.pending = Pending
    BY <1>1, <2>2 DEF CallStates
  <2> HIDE DEF next
  <2> QED BY <2>1, <2>3
<1>5. ASSUME call' = [call EXCEPT ![u] = Idle]
      PROVE  /\ call' \in [Calls -> CallStates]
             /\ call'[u].at = "idle"
             /\ \A v \in Calls \ {u} : call'[v] = call[v]
  BY <1>2, <1>5
<1>6. ASSUME Start(u)
      PROVE  /\ call' \in [Calls -> CallStates]
             /\ call'[u].at = "first"
             /\ \A v \in Calls \ {u} : call'[v] = call[v]
  BY <1>2, <1>6 DEF Start
<1> QED BY <1>2, <1>3, <1>4, <1>5, <1>6

(* Every step keeps the chain; one step per action of the model.           *)
LEMMA PollNext == PollInv /\ [Next]_vars => PollInv'
<1> SUFFICES ASSUME PollInv, [Next]_vars PROVE PollInv'
  OBVIOUS
<1> USE ListPageAssumption
<1>1. /\ TypeOK /\ sent <= requests
      /\ timers \in {0, 1} /\ (tick <=> timers = 1)
      /\ tick \in BOOLEAN
      /\ timers = 0 => \E u \in Calls : call[u].at # "idle"
  BY DEF PollInv, TypeOK
<1>2. /\ record \in [Jobs -> {"none", "pending", "SUCCESS", "FAIL", "removed"}]
      /\ listing \in [PostJobs -> {"never", "listed", "gone"}]
      /\ page \in {"networks", "certs"} /\ call \in [Calls -> CallStates]
      /\ sent \in 0 .. MaxRequests /\ requests \in 0 .. MaxRequests
      /\ failures \in 0 .. MaxFailures /\ shown \in Lists
  BY <1>1 DEF TypeOK
<1>3. CASE Server
  <2>1. /\ record' \in [Jobs -> {"none", "pending", "SUCCESS", "FAIL", "removed"}]
        /\ listing' \in [PostJobs -> {"never", "listed", "gone"}]
    BY <1>2, <1>3 DEF Server, Catalog!Next, Catalog!Accept, Catalog!Resolve,
       Catalog!Forget, Catalog!List, Catalog!Withdraw
  <2>2. /\ page' = page /\ call' = call /\ timers' = timers /\ tick' = tick
        /\ sent' = sent /\ requests' = requests /\ failures' = failures
        /\ shown' = shown
    BY <1>3 DEF Server, pageVars
  <2> QED BY <1>1, <1>2, <2>1, <2>2 DEF PollInv, TypeOK
<1>4. CASE Submit
  BY <1>1, <1>2, <1>4 DEF Submit, PollInv, TypeOK
<1>5. CASE DeleteService
  BY <1>1, <1>2, <1>5 DEF DeleteService, PollInv, TypeOK
<1>6. CASE Rejected
  BY <1>1, <1>2, <1>6 DEF Rejected, PollInv, TypeOK
<1>7. ASSUME NEW u \in Calls, GetDone(u) \/ GetPending(u)
      PROVE  PollInv'
  <2>1. call' \in [Calls -> CallStates] /\ call'[u].at # "idle"
    BY <1>2, <1>7, CallSteps
  <2>2. /\ record' = record /\ listing' = listing /\ page' = page
        /\ timers' = timers /\ tick' = tick /\ sent' = sent
        /\ requests' = requests /\ failures' = failures /\ shown' = shown
    BY <1>7 DEF GetDone, GetPending
  <2> QED BY <1>1, <1>2, <2>1, <2>2 DEF PollInv, TypeOK
<1>8. ASSUME NEW u \in Calls, Show(u) \/ GetFails(u)
      PROVE  PollInv'
  <2>1. call' \in [Calls -> CallStates]
    BY <1>2, <1>8, CallSteps DEF Show, GetFails
  <2>2. timers' = 1 /\ tick' = TRUE
    BY <1>1, <1>8 DEF Show, GetFails, SetTimer
  <2>3. shown' \in Lists
    <3>1. CASE Show(u)
      <4>1. call[u] \in CallStates
        BY <1>2
      <4> QED BY <3>1, <4>1 DEF Show, CallStates, Lists
    <3>2. CASE GetFails(u)
      BY <3>2, <1>2 DEF GetFails
    <3> QED BY <1>8, <3>1, <3>2
  <2>4. failures' \in 0 .. MaxFailures
    BY <1>2, <1>8 DEF Show, GetFails
  <2>5. /\ record' = record /\ listing' = listing /\ page' = page
        /\ sent' = sent /\ requests' = requests
    BY <1>8 DEF Show, GetFails
  <2> QED BY <1>1, <1>2, <2>1, <2>2, <2>3, <2>4, <2>5 DEF PollInv, TypeOK
<1>9. ASSUME NEW u \in Calls, TimerFires(u)
      PROVE  PollInv'
  <2>1. Start(u)
    BY <1>9 DEF TimerFires
  <2>2. call' \in [Calls -> CallStates] /\ call'[u].at # "idle"
    BY <1>2, <2>1, CallSteps
  <2>3. timers' = 0 /\ tick' = FALSE
    BY <1>1, <1>9 DEF TimerFires
  <2>4. /\ record' = record /\ listing' = listing /\ page' = page
        /\ sent' = sent /\ requests' = requests /\ failures' = failures
        /\ shown' = shown
    BY <1>9 DEF TimerFires
  <2>5. TypeOK'
    BY <1>2, <2>2, <2>3, <2>4 DEF TypeOK
  <2>6. /\ sent' <= requests' /\ timers' \in {0, 1} /\ (tick' <=> timers' = 1)
        /\ \E v \in Calls : call'[v].at # "idle"
    BY <1>1, <2>2, <2>3, <2>4
  <2> QED BY <2>5, <2>6 DEF PollInv
<1>10. ASSUME NEW u \in Calls, Accepted(u)
       PROVE  PollInv'
  <2>1. Start(u)
    BY <1>10 DEF Accepted
  <2>2. call' \in [Calls -> CallStates] /\ call'[u].at # "idle"
    BY <1>2, <2>1, CallSteps
  <2>3. sent' \in 0 .. MaxRequests /\ sent' <= requests
    BY <1>1, <1>2, <1>10 DEF Accepted
  <2>4. /\ record' = record /\ listing' = listing /\ page' = page
        /\ timers' = timers /\ tick' = tick /\ requests' = requests
        /\ failures' = failures /\ shown' = shown
    BY <1>10 DEF Accepted
  <2> QED BY <1>1, <1>2, <2>2, <2>3, <2>4 DEF PollInv, TypeOK
<1>11. CASE UNCHANGED vars
  BY <1>1, <1>2, <1>11 DEF vars, pageVars, PollInv, TypeOK
<1> QED
  BY <1>3, <1>4, <1>5, <1>6, <1>7, <1>8, <1>9, <1>10, <1>11 DEF Next

LEMMA PollAlways == Spec => []PollInv
<1> QED BY PollInit, PollNext, PTL DEF Spec

(* Every variable of the page and of the catalog behind it has its type.   *)
THEOREM ListPageTypes == Spec => []TypeOK
<1>1. PollInv => TypeOK
  BY DEF PollInv
<1> QED BY <1>1, PollAlways, PTL

(* However the answers of overlapping calls of updateIbpList arrive, at    *)
(* most one timer is set, and polling goes on whatever fails.              *)
THEOREM PollingStaysOneChain == Spec => []PollingIsOneChain
<1>1. PollInv => PollingIsOneChain
  BY DEF PollInv, PollingIsOneChain, Busy
<1> QED BY <1>1, PollAlways, PTL
-----------------------------------------------------------------------------
(* A job that never is pending again.                                      *)
Settled(j) == record[j] \in {"SUCCESS", "FAIL", "removed"}

(* A call asks for the completed jobs first; what it is told then is       *)
(* settled, and cannot be among the pending ones it is told afterwards.    *)
ListInv ==
    /\ PollInv
    /\ \A p \in PostJobs : listing[p] # "never" => Settled(p)
    /\ \A u \in Calls : call[u].at = "second" => \A j \in call[u].done : Settled(j)
    /\ \A u \in Calls : call[u].at = "back" => call[u].done \cap call[u].pending = {}
    /\ shown.done \cap shown.pending = {}

LEMMA ListInit == Init => ListInv
<1> SUFFICES ASSUME Init PROVE ListInv
  OBVIOUS
<1>1. PollInv
  BY PollInit
<1>2. \A p \in PostJobs : listing[p] = "never"
  BY DEF Init, Catalog!Init
<1>3. PICK u \in Calls : call = [v \in Calls |-> IF v = u THEN FirstGet ELSE Idle]
  BY DEF Init
<1>4. FirstGet.at = "first" /\ Idle.at = "idle"
  BY DEF FirstGet, Idle
<1>5. \A v \in Calls : call[v].at \in {"first", "idle"}
  BY <1>3, <1>4
<1>6. shown.done \cap shown.pending = {}
  BY DEF Init
<1> QED BY <1>1, <1>2, <1>5, <1>6 DEF ListInv

(* The catalog never makes a settled job pending, and lists only jobs that *)
(* have succeeded.                                                         *)
LEMMA CatalogSettles ==
    ASSUME TypeOK, Catalog!Next,
           \A p \in PostJobs : listing[p] # "never" => Settled(p)
    PROVE  /\ \A j \in Jobs : Settled(j) => Settled(j)'
           /\ \A p \in PostJobs : listing'[p] # "never" => Settled(p)'
<1> USE ListPageAssumption
<1>1. /\ record \in [Jobs -> {"none", "pending", "SUCCESS", "FAIL", "removed"}]
      /\ listing \in [PostJobs -> {"never", "listed", "gone"}]
  BY DEF TypeOK
<1>2. ASSUME NEW j \in Jobs, Catalog!Accept(j) \/ Catalog!Resolve(j)
      PROVE  /\ \A i \in Jobs : Settled(i) => Settled(i)'
             /\ listing' = listing
  BY <1>1, <1>2 DEF Catalog!Accept, Catalog!Resolve, Settled
<1>3. ASSUME NEW c \in CertsJobs, Catalog!Forget(c)
      PROVE  /\ \A i \in Jobs : Settled(i) => Settled(i)'
             /\ listing' = listing
  BY <1>1, <1>3 DEF Catalog!Forget, Settled
<1>4. ASSUME NEW p \in PostJobs, Catalog!List(p) \/ Catalog!Withdraw(p)
      PROVE  /\ record' = record
             /\ \A q \in PostJobs : listing'[q] # "never" => Settled(q)
  BY <1>1, <1>4 DEF Catalog!List, Catalog!Withdraw, Settled
<1>5. CASE \E j \in Jobs : Catalog!Accept(j) \/ Catalog!Resolve(j)
  BY <1>2, <1>5
<1>6. CASE \E c \in CertsJobs : Catalog!Forget(c)
  BY <1>3, <1>6
<1>7. CASE \E p \in PostJobs : Catalog!List(p) \/ Catalog!Withdraw(p)
  BY <1>4, <1>7 DEF Settled
<1> QED BY <1>5, <1>6, <1>7 DEF Catalog!Next

(* A step that leaves the tables alone and, for every call, leaves it or   *)
(* brings it where its lists are as they should be.                        *)
LEMMA ListKeep ==
    ASSUME ListInv, PollInv', NEW u \in Calls,
           record' = record, listing' = listing,
           \A v \in Calls \ {u} : call'[v] = call[v],
           call'[u].at = "second" => \A j \in call'[u].done : Settled(j),
           call'[u].at = "back" => call'[u].done \cap call'[u].pending = {},
           shown'.done \cap shown'.pending = {}
    PROVE  ListInv'
<1>1. \A v \in Calls : call'[v].at = "second" => \A j \in call'[v].done : Settled(j)'
  BY DEF ListInv, Settled
<1>2. \A v \in Calls : call'[v].at = "back" => call'[v].done \cap call'[v].pending = {}
  BY DEF ListInv
<1>3. \A p \in PostJobs : listing'[p] # "never" => Settled(p)'
  BY DEF ListInv, Settled
<1> QED BY <1>1, <1>2, <1>3 DEF ListInv

LEMMA ListNext == ListInv /\ [Next]_vars => ListInv'
<1> SUFFICES ASSUME ListInv, [Next]_vars PROVE ListInv'
  OBVIOUS
<1> USE ListPageAssumption
<1>1. PollInv /\ PollInv'
  BY PollNext DEF ListInv
<1>2. TypeOK /\ call \in [Calls -> CallStates]
  BY <1>1 DEF PollInv, TypeOK
<1>3. CASE Server
  <2>1. Catalog!Next /\ call' = call /\ shown' = shown
    BY <1>3 DEF Server, pageVars
  <2>2. /\ \A j \in Jobs : Settled(j) => Settled(j)'
        /\ \A p \in PostJobs : listing'[p] # "never" => Settled(p)'
    BY <1>2, <2>1, CatalogSettles DEF ListInv
  <2>3. \A v \in Calls : call[v].done \subseteq Jobs
    BY <1>2 DEF CallStates
  <2>4. \A v \in Calls : call'[v].at = "second" => \A j \in call'[v].done : Settled(j)'
    BY <2>1, <2>2, <2>3 DEF ListInv
  <2>5. /\ \A v \in Calls : call'[v].at = "back" => call'[v].done \cap call'[v].pending = {}
        /\ shown'.done \cap shown'.pending = {}
    BY <2>1 DEF ListInv
  <2> QED BY <1>1, <2>2, <2>4, <2>5 DEF ListInv
<1>4. ASSUME Submit \/ DeleteService \/ Rejected \/ UNCHANGED vars
      PROVE  ListInv'
  <2>1. record' = record /\ listing' = listing /\ call' = call /\ shown' = shown
    BY <1>4 DEF Submit, DeleteService, Rejected, vars, pageVars
  <2> QED BY <1>1, <2>1 DEF ListInv, Settled
<1>5. ASSUME NEW u \in Calls, GetDone(u)
      PROVE  ListInv'
  <2>1. /\ call'[u].at = "second" /\ call'[u].done = Done
        /\ \A v \in Calls \ {u} : call'[v] = call[v]
    BY <1>2, <1>5, CallSteps
  <2>2. \A j \in Done : Settled(j)
    BY DEF Done, ListInv, Settled
  <2>3. record' = record /\ listing' = listing /\ shown' = shown
    BY <1>5 DEF GetDone
  <2>4. shown'.done \cap shown'.pending = {}
    BY <2>3 DEF ListInv
  <2> QED BY <1>1, <2>1, <2>2, <2>3, <2>4, ListKeep
<1>6. ASSUME NEW u \in Calls, GetPending(u)
      PROVE  ListInv'
  <2>1. /\ call'[u].at = "back" /\ call'[u].done = call[u].done
        /\ call'[u].pending = Pending
        /\ \A v \in Calls \ {u} : call'[v] = call[v]
    BY <1>2, <1>6, CallSteps
  <2>2. \A j \in call[u].done : Settled(j)
    BY <1>6 DEF GetPending, ListInv
  <2>3. call'[u].done \cap call'[u].pending = {}
    BY <2>1, <2>2 DEF Pending, Settled
  <2>4. record' = record /\ listing' = listing /\ shown' = shown
    BY <1>6 DEF GetPending
  <2>5. shown'.done \cap shown'.pending = {}
    BY <2>4 DEF ListInv
  <2> QED BY <1>1, <2>1, <2>3, <2>4, <2>5, ListKeep
<1>7. ASSUME NEW u \in Calls, Show(u) \/ GetFails(u)
      PROVE  ListInv'
  <2>1. /\ call'[u].at = "idle"
        /\ \A v \in Calls \ {u} : call'[v] = call[v]
    BY <1>2, <1>7, CallSteps DEF Show, GetFails
  <2>2. shown'.done \cap shown'.pending = {}
    <3>1. CASE Show(u)
      <4>1. call[u].done \cap call[u].pending = {}
        BY <3>1 DEF Show, ListInv
      <4>2. shown'.done = call[u].done /\ shown'.pending = call[u].pending
        BY <3>1 DEF Show
      <4> QED BY <4>1, <4>2
    <3>2. CASE GetFails(u)
      BY <3>2 DEF GetFails, ListInv
    <3> QED BY <1>7, <3>1, <3>2
  <2>3. record' = record /\ listing' = listing
    BY <1>7 DEF Show, GetFails
  <2> QED BY <1>1, <2>1, <2>2, <2>3, ListKeep
<1>8. ASSUME NEW u \in Calls, TimerFires(u) \/ Accepted(u)
      PROVE  ListInv'
  <2>1. Start(u)
    BY <1>8 DEF TimerFires, Accepted
  <2>2. /\ call'[u].at = "first"
        /\ \A v \in Calls \ {u} : call'[v] = call[v]
    BY <1>2, <2>1, CallSteps
  <2>3. record' = record /\ listing' = listing /\ shown' = shown
    BY <1>8 DEF TimerFires, Accepted
  <2>4. shown'.done \cap shown'.pending = {}
    BY <2>3 DEF ListInv
  <2> QED BY <1>1, <2>2, <2>3, <2>4, ListKeep
<1> QED
  BY <1>3, <1>4, <1>5, <1>6, <1>7, <1>8 DEF Next

(* No job is ever shown as pending and as completed at once, because the   *)
(* completed ones are read before the pending ones and stay completed.     *)
THEOREM NeverShownTwice == Spec => []NeverInBothLists
<1>1. ListInv => NeverInBothLists
  BY DEF ListInv, NeverInBothLists
<1> QED BY <1>1, ListInit, ListNext, PTL DEF Spec
=============================================================================
