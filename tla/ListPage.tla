------------------------------ MODULE ListPage ------------------------------
(***************************************************************************)
(* The two pages that list jobs and what they made: ibp/network.js         *)
(* (networks) and ibp/existednetwork.js (certificate jobs).                *)
(*                                                                         *)
(* updateIbpList asks the server for two lists, one after the other, shows *)
(* both, and sets a timer that runs it again.  It also runs after every    *)
(* accepted request of the user, so that several of its calls may be under *)
(* way at once.  The server is ServiceCatalog, which JobTracker implements.*)
(***************************************************************************)
EXTENDS Naturals

CONSTANTS
    Jobs, PostJobs, CertsJobs,    \* as in ServiceCatalog
    Calls,                        \* identities of calls of updateIbpList
    MaxRequests, MaxFailures      \* bounds: requests of the user, failed GETs

ASSUME ListPageAssumption ==
    /\ PostJobs \subseteq Jobs /\ CertsJobs \subseteq Jobs
    /\ PostJobs \cap CertsJobs = {}
    /\ Calls # {} /\ MaxRequests \in Nat /\ MaxFailures \in Nat

VARIABLES
    record, listing,   \* the server's catalog
    page,              \* "networks" or "certs"
    call,              \* call[u]: where a call of updateIbpList is
    timers,            \* how many timers are set
    tick,              \* updateIbpListTick is the id of a timer that is set
    sent,              \* requests of the user that are in flight
    requests, failures,\* how many there have been
    shown              \* the rows of the two tables

pageVars == <<page, call, timers, tick, sent, requests, failures, shown>>
vars == <<record, listing, pageVars>>

Catalog == INSTANCE ServiceCatalog

Idle == [at |-> "idle", done |-> {}, pending |-> {}]
Lists == [done : SUBSET Jobs, pending : SUBSET Jobs]

(* "first" and "second": the GET is on its way; "back": both answers are.  *)
CallStates == [at : {"idle", "first", "second", "back"},
               done : SUBSET Jobs, pending : SUBSET Jobs]

TypeOK ==
    /\ record \in [Jobs -> {"none", "pending", "SUCCESS", "FAIL", "removed"}]
    /\ listing \in [PostJobs -> {"never", "listed", "gone"}]
    /\ page \in {"networks", "certs"}
    /\ call \in [Calls -> CallStates]
    /\ timers \in Nat /\ tick \in BOOLEAN
    /\ sent \in 0 .. MaxRequests
    /\ requests \in 0 .. MaxRequests
    /\ failures \in 0 .. MaxFailures
    /\ shown \in Lists

Busy == {u \in Calls : call[u].at # "idle"}
FirstGet == [Idle EXCEPT !.at = "first"]

(* The script in the head of the page makes the first call.                *)
Init ==
    /\ Catalog!Init
    /\ page \in {"networks", "certs"}
    /\ \E u \in Calls : call = [v \in Calls |-> IF v = u THEN FirstGet ELSE Idle]
    /\ timers = 0 /\ tick = FALSE
    /\ sent = 0 /\ requests = 0 /\ failures = 0
    /\ shown = [done |-> {}, pending |-> {}]

-----------------------------------------------------------------------------
(* What the server answers.                                                *)

(* GET services: networks that are neither deleted nor being deleted.  GET *)
(* certsService: certificate jobs with a status.                           *)
Done == IF page = "networks"
        THEN {p \in PostJobs : listing[p] = "listed"}
        ELSE {c \in CertsJobs : record[c] \in {"SUCCESS", "FAIL"}}

(* GET pending and GET certsPending read the same view: what was POSTed    *)
(* and has no status yet.                                                  *)
Pending == {j \in PostJobs \cup CertsJobs : record[j] = "pending"}

-----------------------------------------------------------------------------
(* updateIbpList.                                                          *)

Start(u) ==
    /\ call[u].at = "idle"
    /\ call' = [call EXCEPT ![u] = FirstGet]

(* The first answer; the second GET is sent when it arrives.               *)
GetDone(u) ==
    /\ call[u].at = "first"
    /\ call' = [call EXCEPT ![u] = [Idle EXCEPT !.at = "second", !.done = Done]]
    /\ UNCHANGED <<record, listing, page, timers, tick, sent, requests, failures, shown>>

GetPending(u) ==
    /\ call[u].at = "second"
    /\ call' = [call EXCEPT ![u].at = "back", ![u].pending = Pending]
    /\ UNCHANGED <<record, listing, page, timers, tick, sent, requests, failures, shown>>

(* Two faults of SetTimer: the old timer goes on; no timer is set.         *)
SetAnotherTimer == timers' = timers + 1 /\ tick' = TRUE
SetNoTimer == UNCHANGED <<timers, tick>>

(* The finally block.                                                      *)
SetTimer ==
    /\ timers' = (IF tick THEN timers - 1 ELSE timers) + 1
    /\ tick' = TRUE

(* A fault of Show: the completed jobs are those after the pending ones.   *)
ShowDoneLast(u) ==
    /\ call[u].at = "back"
    /\ shown' = [done |-> Done, pending |-> call[u].pending]
    /\ call' = [call EXCEPT ![u] = Idle]
    /\ SetTimer
    /\ UNCHANGED <<record, listing, page, sent, requests, failures>>

(* Both tables are emptied and filled.                                     *)
Show(u) ==
    /\ call[u].at = "back"
    /\ shown' = [done |-> call[u].done, pending |-> call[u].pending]
    /\ call' = [call EXCEPT ![u] = Idle]
    /\ SetTimer
    /\ UNCHANGED <<record, listing, page, sent, requests, failures>>

(* Either GET fails; the tables stay as they are.                          *)
GetFails(u) ==
    /\ call[u].at \in {"first", "second"}
    /\ failures < MaxFailures /\ failures' = failures + 1
    /\ call' = [call EXCEPT ![u] = Idle]
    /\ SetTimer
    /\ UNCHANGED <<record, listing, page, sent, requests, shown>>

(* The variable updateIbpListTick keeps the id of a timer that has fired.  *)
TimerFires(u) ==
    /\ timers > 0
    /\ timers' = timers - 1
    /\ tick' = FALSE
    /\ Start(u)
    /\ UNCHANGED <<record, listing, page, sent, requests, failures, shown>>

-----------------------------------------------------------------------------
(* The user's requests: POST service, and the Delete button of a row.      *)

Submit ==
    /\ page = "networks"
    /\ requests < MaxRequests
    /\ requests' = requests + 1 /\ sent' = sent + 1
    /\ UNCHANGED <<record, listing, page, call, timers, tick, failures, shown>>

DeleteService ==
    /\ \E j \in shown.done : TRUE
    /\ requests < MaxRequests
    /\ requests' = requests + 1 /\ sent' = sent + 1
    /\ UNCHANGED <<record, listing, page, call, timers, tick, failures, shown>>

(* done and success: an alert, then another call of updateIbpList.         *)
Accepted(u) ==
    /\ sent > 0 /\ sent' = sent - 1
    /\ Start(u)
    /\ UNCHANGED <<record, listing, page, timers, tick, requests, failures, shown>>

(* fail and error: an alert.                                               *)
Rejected ==
    /\ sent > 0 /\ sent' = sent - 1
    /\ UNCHANGED <<record, listing, page, call, timers, tick, requests, failures, shown>>

Server == Catalog!Next /\ UNCHANGED pageVars

Next ==
    \/ Server
    \/ Submit \/ DeleteService \/ Rejected
    \/ \E u \in Calls :
           \/ GetDone(u) \/ GetPending(u) \/ Show(u) \/ GetFails(u)
           \/ TimerFires(u) \/ Accepted(u)

Spec == Init /\ [][Next]_vars

(* Requests are answered and the timer fires.                              *)
Fairness ==
    /\ WF_vars(\E u \in Calls : TimerFires(u))
    /\ \A u \in Calls : WF_vars(GetDone(u)) /\ WF_vars(GetPending(u)) /\ WF_vars(Show(u))

FairSpec == Spec /\ Fairness
-----------------------------------------------------------------------------
(* Properties.                                                             *)

(* However many calls overlap, at most one timer is set: polling never     *)
(* multiplies.  And it never ends: whatever fails, a call is under way or  *)
(* a timer is set.                                                         *)
PollingIsOneChain == timers <= 1 /\ (timers = 0 => Busy # {})

(* A job is never shown as pending and as completed at once, although the  *)
(* lists are read at different times and may be shown late: the completed  *)
(* ones are read first.                                                    *)
NeverInBothLists == shown.done \cap shown.pending = {}

(* Once the catalog rests, the page shows it, and nothing older comes back *)
(* after that: late answers of overlapping calls do not last.              *)
PageCatchesUp ==
    <>[](shown = [done |-> Done, pending |-> Pending])
=============================================================================
