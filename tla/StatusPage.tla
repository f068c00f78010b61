----------------------------- MODULE StatusPage -----------------------------
(***************************************************************************)
(* The pages that show the progress of requests: updateTest and updateNet  *)
(* of hfrd.js, and updateNet of icp.js, ibpv2.js and ibp.js.               *)
(*                                                                         *)
(* The server renders one row for each request it knows when the page is   *)
(* loaded.  The script polls the list of items and fills the cells of      *)
(* those rows.  It sets the next timer when it polls, not when the answer  *)
(* comes: polls overlap, and their answers arrive in any order.            *)
(***************************************************************************)
EXTENDS Naturals

CONSTANTS
    Items,       \* requests of the user, of the kind the page shows
    Polls,       \* bound: polls under way at once
    MaxErrors    \* bound: polls that fail and answers without Jenkins

VARIABLES
    script,      \* which of the scripts the page has loaded
    truth,       \* truth[i]: how far the request is
    chart,       \* the items whose build has left a chart
    errors,      \* failures so far
    rows,        \* the items that have a row
    cell,        \* cell[i]: the texts and links of its row
    poll,        \* poll[u]: a request for the list, or its answer
    deleting     \* DELETE requests in flight

vars == <<script, truth, chart, errors, rows, cell, poll, deleting>>

-----------------------------------------------------------------------------
(* The scripts: the list each one polls and the links its rows have.       *)
HfrdTests == [list |-> "moduletest", links |-> {"log", "chart"}]
HfrdNetworks == [list |-> "network", links |-> {"log"}]
IcpNetworks == [list |-> "icpnet", links |-> {"log"}]
Ibpv2Networks == [list |-> "ibpnetv2", links |-> {"log"}]
IbpNetworks == [list |-> "ibpnet", links |-> {"log"}]

Scripts == {HfrdTests, HfrdNetworks, IcpNetworks, Ibpv2Networks, IbpNetworks}

(* The router knows no list "ibpnet".                                      *)
Routes == {"moduletest", "network", "icpnet", "ibpnetv2"}

(* What an answer says of an item, with its log and chart where it has any.*)
Statuses == {"Pending", "INPROGRESS", "ended"}
Entries == [status : Statuses, links : SUBSET {"log", "chart"}]
Absent == [status |-> "absent", links |-> {}]
Answers == [Items -> Entries \cup {Absent}]

Blank == [status |-> "Pending", links |-> {}]
Nothing == [i \in Items |-> Absent]
NoPoll == [at |-> "none", answer |-> Nothing]
PollStates == [at : {"none", "asked", "back"}, answer : Answers]

TypeOK ==
    /\ script \in Scripts
    /\ truth \in [Items -> {"none", "directory", "queued", "running", "ended", "deleted"}]
    /\ chart \subseteq Items
    /\ errors \in 0 .. MaxErrors
    /\ rows \subseteq Items
    /\ cell \in [Items -> Entries]
    /\ poll \in [Polls -> PollStates]
    /\ deleting \subseteq Items

Init ==
    /\ script \in Scripts
    /\ truth \in [Items -> {"none", "directory"}]
    /\ chart = {}
    /\ errors = 0
    /\ rows = {i \in Items : truth[i] # "none"}
    /\ cell = [i \in Items |-> Blank]
    /\ poll = [u \in Polls |-> NoPoll]
    /\ deleting = {}

-----------------------------------------------------------------------------
(* The server.                                                             *)

(* A request makes its directory, is queued by Jenkins (its queue id is    *)
(* written), runs and ends.                                                *)
After == [none |-> "directory", directory |-> "queued",
          queued |-> "running", running |-> "ended"]

Proceed(i) ==
    /\ truth[i] \in DOMAIN After
    /\ truth' = [truth EXCEPT ![i] = After[truth[i]]]
    /\ UNCHANGED <<script, chart, errors, rows, cell, poll, deleting>>

(* A build that gets that far writes the address of its chart while it     *)
(* runs.                                                                   *)
PostChart(i) ==
    /\ truth[i] = "running"
    /\ chart' = chart \cup {i}
    /\ UNCHANGED <<script, truth, errors, rows, cell, poll, deleting>>

(* GetItems.  Without a queue id, while the build is queued, and when      *)
(* Jenkins does not answer, the item is "Pending" and has no job id.  The  *)
(* address of its chart is read from its directory in any case.            *)
Entry(i, reachable) ==
    IF truth[i] \in {"none", "deleted"} THEN Absent
    ELSE LET known == reachable /\ truth[i] \in {"running", "ended"}
         IN  [status |-> IF ~known THEN "Pending"
                         ELSE IF truth[i] = "running" THEN "INPROGRESS" ELSE "ended",
              links  |-> (IF known THEN {"log"} ELSE {})
                         \cup (IF i \in chart THEN {"chart"} ELSE {})]

GetItems(u) ==
    /\ poll[u].at = "asked" /\ script.list \in Routes
    /\ \E reachable \in [Items -> BOOLEAN] :
           /\ IF \A i \in Items : reachable[i] THEN UNCHANGED errors
              ELSE errors < MaxErrors /\ errors' = errors + 1
           /\ poll' = [poll EXCEPT ![u] =
                  [at |-> "back", answer |-> [i \in Items |-> Entry(i, reachable[i])]]]
    /\ UNCHANGED <<script, truth, chart, rows, cell, deleting>>

-----------------------------------------------------------------------------
(* The page.                                                               *)

(* updateTest and updateNet: the request is sent and the timer set again.  *)
Poll(u) ==
    /\ poll[u].at = "none"
    /\ poll' = [poll EXCEPT ![u].at = "asked"]
    /\ UNCHANGED <<script, truth, chart, errors, rows, cell, deleting>>

(* A fault of Fill: links are set to whatever the answer says.             *)
FillAll(i, entry) ==
    [status |-> entry.status, links |-> entry.links \cap script.links]

(* The status is replaced; a link is set only by an entry that has one.    *)
Fill(i, entry) ==
    [status |-> entry.status,
     links  |-> cell[i].links \cup (entry.links \cap script.links)]

(* done: items without a row are looked up in vain.                        *)
Answered(u) ==
    /\ poll[u].at = "back"
    /\ cell' = [i \in Items |->
                   IF i \in rows /\ poll[u].answer[i] # Absent
                   THEN Fill(i, poll[u].answer[i]) ELSE cell[i]]
    /\ poll' = [poll EXCEPT ![u] = NoPoll]
    /\ UNCHANGED <<script, truth, chart, errors, rows, deleting>>

(* fail: only the console is told.                                         *)
Failed(u) ==
    /\ poll[u].at = "asked"
    /\ IF script.list \in Routes THEN errors < MaxErrors /\ errors' = errors + 1
                                 ELSE UNCHANGED errors
    /\ poll' = [poll EXCEPT ![u] = NoPoll]
    /\ UNCHANGED <<script, truth, chart, rows, cell, deleting>>

(* senddelete, from the button of a row; it may be clicked again later.    *)
SendDelete(i) ==
    /\ i \in rows /\ i \notin deleting
    /\ deleting' = deleting \cup {i}
    /\ UNCHANGED <<script, truth, chart, errors, rows, cell, poll>>

(* The server hands the deletion to Jenkins, whose job removes the         *)
(* directory, or the request fails, of which the user is not told.         *)
DeleteAnswered(i) ==
    /\ i \in deleting
    /\ deleting' = deleting \ {i}
    /\ truth' = [truth EXCEPT ![i] = IF @ = "ended" THEN "deleted" ELSE @]
    /\ UNCHANGED <<script, chart, errors, rows, cell, poll>>

DeleteFailed(i) ==
    /\ i \in deleting
    /\ deleting' = deleting \ {i}
    /\ UNCHANGED <<script, truth, chart, errors, rows, cell, poll>>

Next ==
    \/ \E i \in Items :
           Proceed(i) \/ PostChart(i) \/ SendDelete(i) \/ DeleteAnswered(i) \/ DeleteFailed(i)
    \/ \E u \in Polls : Poll(u) \/ GetItems(u) \/ Answered(u) \/ Failed(u)

Spec == Init /\ [][Next]_vars

(* The timer fires and requests are answered.                              *)
Fairness == \A u \in Polls :
    WF_vars(Poll(u)) /\ WF_vars(GetItems(u) \/ Failed(u)) /\ WF_vars(Answered(u))

FairSpec == Spec /\ Fairness
-----------------------------------------------------------------------------
(* Properties.                                                             *)

(* A row that shows a build at work, or its result, has the link to its    *)
(* log, although answers overtake each other and may lack the job id.      *)
LogWithStatus ==
    \A i \in rows : cell[i].status # "Pending" => "log" \in cell[i].links

(* A row never loses a link: not to an older answer, and not to an answer  *)
(* the server gives while Jenkins is away.                                 *)
LinksStay == [][\A i \in Items : cell[i].links \subseteq cell'[i].links]_vars

(* Late answers do not last: from some time on every row shows how its     *)
(* request has ended, with its log and, where pages show one and the build  *)
(* has left it, its chart, unless the request has been deleted.            *)
FinalStatusShown ==
    \A i \in Items :
        <>[](truth[i] = "ended" /\ i \in rows /\ script.list \in Routes)
            => <>[](/\ cell[i].status = "ended"
                   /\ cell[i].links =
                          ({"log"} \cup (IF i \in chart THEN {"chart"} ELSE {})) \cap script.links)

(* In short: polls that overlap, fail or are answered late mislead nobody  *)
(* for long, and cost no row a link.                                       *)
RowsFollowRequests == []LogWithStatus /\ LinksStay /\ FinalStatusShown
=============================================================================
