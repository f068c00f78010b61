---------------------------- MODULE JenkinsCrumb ----------------------------
(***************************************************************************)
(* How the API server's Jenkins client triggers a build                    *)
(* (api/utils/jenkins/jenkins.go).  All requests of the server share one   *)
(* client.  A POST that Jenkins answers with 403 makes its goroutine fetch *)
(* a new crumb, store it and the name of its header field in the client,   *)
(* and send the POST again, once.  Nothing guards these two strings.       *)
(***************************************************************************)
EXTENDS Integers

CONSTANTS
    Callers,       \* goroutines that call TriggerJob, again and again
    MaxRotations,  \* bound: how often Jenkins changes its crumb
    MaxMisses      \* bound: requests for a crumb that bring none

VARIABLES
    epoch,         \* Jenkins's field and crumb, numbered
    misses,        \* requests for a crumb that have brought none
    field, crumb,  \* the client's crumbRequestField and crumb
    call           \* call[c]: where TriggerJob is, or how it ended

crumbVars == <<epoch, misses, field, crumb, call>>

Empty == 0     \* the string ""
Torn == -1     \* one word of "" and one of another string
Epochs == 1 .. MaxRotations + 1
Strings == Epochs \cup {Empty}

NoHeader == <<Empty, Empty>>
NewCall == [at |-> "check", attempt |-> 1, header |-> NoHeader, got |-> Empty,
            builds |-> 0, outcome |-> "none"]

TypeOK ==
    /\ epoch \in Epochs /\ misses \in 0 .. MaxMisses
    /\ field \in Strings \cup {Torn} /\ crumb \in Strings \cup {Torn}
    /\ call \in [Callers ->
           [at : {"check", "add", "sent", "refresh", "field", "crumb", "returned"},
            attempt : {1, 2}, header : Strings \X Strings, got : Strings,
            builds : 0 .. 2,   \* builds Jenkins has queued for it
            outcome : {"none", "ok", "403", "error", "panic"}]]

Init ==
    /\ epoch = 1 /\ misses = 0
    /\ field = Empty /\ crumb = Empty
    /\ call = [c \in Callers |-> [NewCall EXCEPT !.at = "returned"]]

-----------------------------------------------------------------------------
TriggerJob(c) ==
    /\ call[c].at = "returned"
    /\ call' = [call EXCEPT ![c] = NewCall]
    /\ UNCHANGED <<epoch, misses, field, crumb>>

(* doPost looks at both strings first and reads them again to add them.  A *)
(* torn string is not empty.                                               *)
CheckHeader(c) ==
    /\ call[c].at = "check"
    /\ call' = [call EXCEPT
           ![c].header = NoHeader,
           ![c].at = IF field # Empty /\ crumb # Empty THEN "add" ELSE "sent"]
    /\ UNCHANGED <<epoch, misses, field, crumb>>

(* Reading a torn string crashes, and net/http does not send a header      *)
(* without a name.                                                         *)
AddHeader(c) ==
    /\ call[c].at = "add"
    /\ call' = [call EXCEPT ![c] =
           IF Torn \in {field, crumb}
           THEN [@ EXCEPT !.at = "returned", !.outcome = "panic"]
           ELSE IF field = Empty
           THEN [@ EXCEPT !.at = "returned", !.outcome = "error"]
           ELSE [@ EXCEPT !.at = "sent", !.header = <<field, crumb>>]]
    /\ UNCHANGED <<epoch, misses, field, crumb>>

(* A fault of Retries: any error is worth another try.                     *)
RetriesAll(attempt, answer) == attempt = 1 /\ answer # "ok"

(* doPostWithRetry.                                                        *)
Retries(attempt, answer) == attempt = 1 /\ answer = "403"

Return(c, answer, queued) ==
    call' = IF Retries(call[c].attempt, answer)
            THEN [call EXCEPT ![c].builds = @ + queued, ![c].at = "refresh"]
            ELSE [call EXCEPT ![c].builds = @ + queued, ![c].at = "returned",
                              ![c].outcome = answer]

(* Jenkins queues a build if the header is right; its answer may be lost.  *)
(* It may also refuse for other reasons, or not be reached.                *)
Answer(c) ==
    /\ call[c].at = "sent"
    /\ \/ /\ call[c].header = <<epoch, epoch>>
          /\ Return(c, "ok", 1) \/ Return(c, "error", 1)
       \/ call[c].header # <<epoch, epoch>> /\ Return(c, "403", 0)
       \/ Return(c, "error", 0)
    /\ UNCHANGED <<epoch, misses, field, crumb>>

-----------------------------------------------------------------------------
(* updateJenkinsCrumb.                                                     *)

(* A fault of GetJenkinsCrumb: a crumb once fetched is kept.               *)
KeepJenkinsCrumb(c) ==
    /\ call[c].at = "refresh"
    /\ call' = [call EXCEPT ![c].at = "field",
                            ![c].got = IF crumb \in Epochs THEN crumb ELSE epoch]
    /\ UNCHANGED <<epoch, misses, field, crumb>>

(* An error is dropped, and the strings that come with it are empty.  An   *)
(* answer without the two fields ends the call with a panic.               *)
GetJenkinsCrumb(c) ==
    /\ call[c].at = "refresh"
    /\ \/ /\ call' = [call EXCEPT ![c].at = "field", ![c].got = epoch]
          /\ UNCHANGED misses
       \/ /\ misses < MaxMisses /\ misses' = misses + 1
          /\ \/ call' = [call EXCEPT ![c].at = "field", ![c].got = Empty]
             \/ call' = [call EXCEPT ![c].at = "returned", ![c].outcome = "panic"]
    /\ UNCHANGED <<epoch, field, crumb>>

(* A string is an address and a length, stored one after the other.  The   *)
(* lengths of two crumbs are the same, and so are those of two names.      *)
Tears(old, new) == old # Torn /\ old # new /\ Empty \in {old, new}

StoreField(c) ==
    /\ call[c].at = "field"
    /\ \/ field' = call[c].got /\ call' = [call EXCEPT ![c].at = "crumb"]
       \/ Tears(field, call[c].got) /\ field' = Torn /\ UNCHANGED call
    /\ UNCHANGED <<epoch, misses, crumb>>

(* After the second string the POST is sent again.                         *)
StoreCrumb(c) ==
    /\ call[c].at = "crumb"
    /\ \/ /\ crumb' = call[c].got
          /\ call' = [call EXCEPT ![c].at = "check", ![c].attempt = 2]
       \/ Tears(crumb, call[c].got) /\ crumb' = Torn /\ UNCHANGED call
    /\ UNCHANGED <<epoch, misses, field>>

(* Jenkins restarts or changes its settings.                               *)
Rotate ==
    /\ epoch <= MaxRotations /\ epoch' = epoch + 1
    /\ UNCHANGED <<misses, field, crumb, call>>

Step(c) ==
    \/ CheckHeader(c) \/ AddHeader(c) \/ Answer(c)
    \/ GetJenkinsCrumb(c) \/ StoreField(c) \/ StoreCrumb(c)

Next == Rotate \/ \E c \in Callers : TriggerJob(c) \/ Step(c)

Spec == Init /\ [][Next]_crumbVars

(* Goroutines go on and Jenkins answers or the connection fails.           *)
Fairness == \A c \in Callers : WF_crumbVars(Step(c))

FairSpec == Spec /\ Fairness
-----------------------------------------------------------------------------
(* Properties.                                                             *)

(* The retry never queues a second build, and what TriggerJob returns can  *)
(* be relied on: a success has a build, a refusal none.                    *)
TriggeredOnce ==
    \A c \in Callers :
        /\ call[c].builds <= 1
        /\ call[c].outcome = "ok" => call[c].builds = 1
        /\ call[c].outcome \in {"403", "panic"} => call[c].builds = 0

(* Once Jenkins keeps its crumb and hands it out, only finitely many calls *)
(* suffer from the crumbs that others store late, or halfway.              *)
Suffers(outcome) == outcome \in {"403", "panic"}
CrumbSettles ==
    <>[][\A c \in Callers :
            Suffers(call'[c].outcome) => call'[c].outcome = call[c].outcome]_crumbVars

(* In short: the shared crumb neither doubles builds nor refuses for ever. *)
CrumbIsShared == []TriggeredOnce /\ CrumbSettles
=============================================================================
