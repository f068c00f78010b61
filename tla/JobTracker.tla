----------------------------- MODULE JobTracker -----------------------------
(***************************************************************************)
(* How the API server follows the Jenkins jobs it triggers.                *)
(*                                                                         *)
(* A handler triggers a build and starts the goroutine saveJob             *)
(* (api/resource/routine.go), which stores the job in CouchDB, marks the   *)
(* network of a delete job as deleting, and then polls Jenkins (waitJob)   *)
(* until the build ends; the outcome is written to the job document and    *)
(* the network document is created or marked as deleted.  Every write goes *)
(* through ForceSaveJob / ForceSaveNetwork: PUT, and on a conflict GET the *)
(* current revision and PUT the same document over it.  When the server    *)
(* restarts, init() starts a goroutine for every job document that is      *)
(* still pending.                                                          *)
(*                                                                         *)
(* One step of a goroutine is one request to CouchDB or Jenkins and the    *)
(* local code up to the next request, so requests of several goroutines    *)
(* interleave freely and a crash may fall between any two of them.         *)
(***************************************************************************)
EXTENDS Naturals, Couch

CONSTANTS
    PostJobs,     \* network creation jobs; job p creates the service p
    DeleteJobs,   \* jobs that delete a service
    CertsJobs,    \* ibpcerts jobs
    NoService,    \* the empty ServiceId
    MaxRestarts,  \* bound: how often the server crashes and comes back
    Faults        \* which parts of the environment may misbehave, of:
                  \*  "db"     a CouchDB request fails (not by a conflict),
                  \*           before or after CouchDB has carried it out
                  \*  "lookup" asking Jenkins for a build fails
                  \*  "queue"  Jenkins keeps a build queued when it is polled
                  \*  "tar"    the result package is missing or incomplete

Jobs == PostJobs \cup DeleteJobs \cup CertsJobs

ASSUME JobTrackerAssumption ==
    /\ PostJobs \cap DeleteJobs = {}
    /\ PostJobs \cap CertsJobs = {}
    /\ DeleteJobs \cap CertsJobs = {}
    /\ NoService \notin PostJobs
    /\ MaxRestarts \in Nat
    /\ Faults \subseteq {"db", "lookup", "queue", "tar"}

VARIABLES
    jenkins,   \* jenkins[j]: the build of job j
    target,    \* target[d]: the ServiceId field of delete job d
    jobDoc,    \* jobDoc[j]: job j's document in the job database
    netDoc,    \* netDoc[p]: the network document of service p
    pc,        \* pc[j]: where the goroutine of job j is
    op,        \* op[j]: which ForceSave call it is in
    job,       \* job[j]: its copy of the job
    net,       \* net[j]: its copy of the network
    restarts

vars == <<jenkins, target, jobDoc, netDoc, pc, op, job, net, restarts>>

(* couch.Job and couch.Network, reduced to the fields the control flow     *)
(* reads: status is "" while the job is pending; jobId and env tell        *)
(* whether the build number and the network id have been filled in.        *)
JobBodies == [status : {"", "SUCCESS", "FAIL"}, jobId : BOOLEAN, env : BOOLEAN]
NetBodies == [deleting : BOOLEAN, deleted : BOOLEAN]

NewJob    == [status |-> "", jobId |-> FALSE, env |-> FALSE]
ActiveNet == [deleting |-> FALSE, deleted |-> FALSE]

NoJob == [rev |-> 0, body |-> NewJob]
NoNet == [rev |-> 0, body |-> ActiveNet]

JobOps == {"new", "id", "status", "env"}
NetOps == {"mark", "done", "create"}

TypeOK ==
    /\ jenkins \in [Jobs -> {"none", "queued", "running", "SUCCESS", "FAIL"}]
    /\ target \in [DeleteJobs -> PostJobs \cup {NoService}]
    /\ jobDoc \in [Jobs -> Docs(JobBodies)]
    /\ netDoc \in [PostJobs -> Docs(NetBodies)]
    /\ pc \in [Jobs -> {"off", "put", "get", "reput", "findMark", "poll",
                        "serve", "findDone"}]
    /\ op \in [Jobs -> JobOps \cup NetOps \cup {"none"}]
    /\ job \in [Jobs -> [rev : Nat, body : JobBodies]]
    /\ net \in [Jobs -> [rev : Nat, body : NetBodies]]
    /\ restarts \in 0..MaxRestarts

Init ==
    /\ jenkins = [j \in Jobs |-> "none"]
    /\ target = [d \in DeleteJobs |-> NoService]
    /\ jobDoc = [j \in Jobs |-> NeverWritten(NewJob)]
    /\ netDoc = [p \in PostJobs |-> NeverWritten(ActiveNet)]
    /\ pc = [j \in Jobs |-> "off"]
    /\ op = [j \in Jobs |-> "none"]
    /\ job = [j \in Jobs |-> NoJob]
    /\ net = [j \in Jobs |-> NoNet]
    /\ restarts = 0

-----------------------------------------------------------------------------
(* Control of one goroutine.                                               *)

At(j, label) == pc[j] = label

Goto(j, label) ==
    /\ pc' = [pc EXCEPT ![j] = label]
    /\ op' = [op EXCEPT ![j] = "none"]

(* Enter ForceSaveJob or ForceSaveNetwork.                                 *)
Save(j, what) ==
    /\ pc' = [pc EXCEPT ![j] = "put"]
    /\ op' = [op EXCEPT ![j] = what]

(* The goroutine returns; its copies are garbage.                          *)
Exit(j) ==
    /\ Goto(j, "off")
    /\ job' = [job EXCEPT ![j] = NoJob]
    /\ net' = [net EXCEPT ![j] = NoNet]

(* The handler half: TriggerJob, then `go saveJob(&job)`.                  *)
Trigger(j) ==
    /\ jenkins[j] = "none"
    /\ jenkins' = [jenkins EXCEPT ![j] = "queued"]
    /\ Save(j, "new")
    /\ UNCHANGED <<jobDoc, netDoc, job, net, restarts>>

ServicePost(p) == Trigger(p) /\ UNCHANGED target

IbpCertsPost(c) == Trigger(c) /\ UNCHANGED target

(* ServiceDeleteByServiceId / ServiceDeleteByRequestId.  The first asks    *)
(* nothing about the creation, so any build that has begun may have made   *)
(* the service whose id the user names.                                    *)
DeleteService(d, p) ==
    /\ jenkins[p] \notin {"none", "queued"}
    /\ Trigger(d)
    /\ target' = [target EXCEPT ![d] = p]

(* Jenkins itself.                                                         *)
Schedule(j) ==
    /\ jenkins[j] = "queued"
    /\ jenkins' = [jenkins EXCEPT ![j] = "running"]
    /\ UNCHANGED <<target, jobDoc, netDoc, pc, op, job, net, restarts>>

Build(j) ==
    /\ jenkins[j] = "running"
    /\ \E result \in {"SUCCESS", "FAIL"} :
           jenkins' = [jenkins EXCEPT ![j] = result]
    /\ UNCHANGED <<target, jobDoc, netDoc, pc, op, job, net, restarts>>

-----------------------------------------------------------------------------
(* Two faults of NextLabel: the network is marked as deleted whatever the  *)
(* outcome; the network of a successful creation is not stored.            *)
NextLabelAnyStatus(j, saved) ==
    CASE op[j] = "new" -> IF j \in DeleteJobs THEN "findMark" ELSE "poll"
      [] op[j] \in {"id", "mark"} -> "poll"
      [] op[j] = "status" -> IF j \in DeleteJobs THEN "findDone" ELSE "serve"
      [] OTHER -> "off"

NextLabelNoNetwork(j, saved) ==
    CASE op[j] = "new" -> IF j \in DeleteJobs THEN "findMark" ELSE "poll"
      [] op[j] \in {"id", "mark"} -> "poll"
      [] op[j] = "status" /\ job[j].body.status = "SUCCESS" /\ j \in DeleteJobs -> "findDone"
      [] OTHER -> "off"

(* ForceSaveJob and ForceSaveNetwork return to their callers in saveJob    *)
(* and waitJob.  A failed first save ends the goroutine; any other failure *)
(* is logged and the goroutine goes on.                                    *)
NextLabel(j, saved) ==
    CASE op[j] = "new" -> IF ~saved THEN "off"
                          ELSE IF j \in DeleteJobs THEN "findMark" ELSE "poll"
      [] op[j] \in {"id", "mark"} -> "poll"
      [] op[j] = "status" /\ job[j].body.status = "SUCCESS" ->
                          IF j \in DeleteJobs THEN "findDone" ELSE "serve"
      [] OTHER -> "off"

(* A fault of JobAfter: the revision is not kept for the next save.        *)
JobAfterWithoutRev(j, saved) ==
    IF NextLabel(j, saved) = "off" THEN NoJob ELSE [job[j] EXCEPT !.rev = 0]

(* job.Rev is refreshed after the first save and after the job id update,  *)
(* not after the status update.                                            *)
JobAfter(j, saved) ==
    IF NextLabel(j, saved) = "off" THEN NoJob
    ELSE IF saved /\ op[j] \in {"new", "id"}
    THEN [job[j] EXCEPT !.rev = jobDoc[j].rev + 1]
    ELSE job[j]

SaveReturns(j, saved) ==
    /\ Goto(j, NextLabel(j, saved))
    /\ job' = [job EXCEPT ![j] = JobAfter(j, saved)]
    /\ net' = [net EXCEPT ![j] = NoNet]

(* The PUT is carried out; if its reply is lost, the caller gets an error. *)
JobSaved(j) ==
    /\ jobDoc' = [jobDoc EXCEPT ![j] = Written(@, job[j].body)]
    /\ SaveReturns(j, TRUE) \/ ("db" \in Faults /\ SaveReturns(j, FALSE))

JobNotSaved(j) == UNCHANGED jobDoc /\ SaveReturns(j, FALSE)

PutJob(j) ==
    /\ At(j, "put") /\ op[j] \in JobOps
    /\ \/ ~Conflicts(jobDoc[j], job[j].rev) /\ JobSaved(j)
       \/ /\ Conflicts(jobDoc[j], job[j].rev)
          /\ pc' = [pc EXCEPT ![j] = "get"]
          /\ UNCHANGED <<jobDoc, op, job, net>>
       \/ "db" \in Faults /\ JobNotSaved(j)
    /\ UNCHANGED <<jenkins, target, netDoc, restarts>>

GetJob(j) ==
    /\ At(j, "get") /\ op[j] \in JobOps
    /\ \/ /\ jobDoc[j].live
          /\ pc' = [pc EXCEPT ![j] = "reput"]
          /\ job' = [job EXCEPT ![j].rev = jobDoc[j].rev]
          /\ UNCHANGED <<jobDoc, op, net>>
       \/ (~jobDoc[j].live \/ "db" \in Faults) /\ JobNotSaved(j)
    /\ UNCHANGED <<jenkins, target, netDoc, restarts>>

ReputJob(j) ==
    /\ At(j, "reput") /\ op[j] \in JobOps
    /\ \/ ~Conflicts(jobDoc[j], job[j].rev) /\ JobSaved(j)
       \/ (Conflicts(jobDoc[j], job[j].rev) \/ "db" \in Faults) /\ JobNotSaved(j)
    /\ UNCHANGED <<jenkins, target, netDoc, restarts>>

(* The service a network save of job j is about.                           *)
ServiceOf(j) == IF j \in DeleteJobs THEN target[j] ELSE j

NetSaved(j) ==
    /\ netDoc' = [netDoc EXCEPT ![ServiceOf(j)] = Written(@, net[j].body)]
    /\ SaveReturns(j, TRUE) \/ ("db" \in Faults /\ SaveReturns(j, FALSE))

NetNotSaved(j) == UNCHANGED netDoc /\ SaveReturns(j, FALSE)

(* A fault of PutNet: a conflict is not retried.                           *)
PutNetOnce(j) ==
    /\ At(j, "put") /\ op[j] \in NetOps
    /\ \/ ~Conflicts(netDoc[ServiceOf(j)], net[j].rev) /\ NetSaved(j)
       \/ Conflicts(netDoc[ServiceOf(j)], net[j].rev) /\ NetNotSaved(j)
    /\ UNCHANGED <<jenkins, target, jobDoc, restarts>>

PutNet(j) ==
    /\ At(j, "put") /\ op[j] \in NetOps
    /\ LET doc == netDoc[ServiceOf(j)] IN
       \/ ~Conflicts(doc, net[j].rev) /\ NetSaved(j)
       \/ /\ Conflicts(doc, net[j].rev)
          /\ pc' = [pc EXCEPT ![j] = "get"]
          /\ UNCHANGED <<netDoc, op, job, net>>
       \/ "db" \in Faults /\ NetNotSaved(j)
    /\ UNCHANGED <<jenkins, target, jobDoc, restarts>>

GetNet(j) ==
    /\ At(j, "get") /\ op[j] \in NetOps
    /\ \/ /\ pc' = [pc EXCEPT ![j] = "reput"]
          /\ net' = [net EXCEPT ![j].rev = netDoc[ServiceOf(j)].rev]
          /\ UNCHANGED <<netDoc, op, job>>
       \/ "db" \in Faults /\ NetNotSaved(j)
    /\ UNCHANGED <<jenkins, target, jobDoc, restarts>>

ReputNet(j) ==
    /\ At(j, "reput") /\ op[j] \in NetOps
    /\ LET doc == netDoc[ServiceOf(j)] IN
       \/ ~Conflicts(doc, net[j].rev) /\ NetSaved(j)
       \/ (Conflicts(doc, net[j].rev) \/ "db" \in Faults) /\ NetNotSaved(j)
    /\ UNCHANGED <<jenkins, target, jobDoc, restarts>>

-----------------------------------------------------------------------------
(* A fault of FindMark: a network that is deleted already is marked too.   *)
FindMarkDeleted(j) ==
    /\ At(j, "findMark")
    /\ LET doc == netDoc[target[j]] IN
       \/ /\ doc.live
          /\ net' = [net EXCEPT ![j] =
                        [rev |-> doc.rev, body |-> [doc.body EXCEPT !.deleting = TRUE]]]
          /\ Save(j, "mark")
          /\ UNCHANGED job
       \/ ~doc.live /\ Goto(j, "poll") /\ UNCHANGED <<job, net>>
    /\ UNCHANGED <<jenkins, target, jobDoc, netDoc, restarts>>

(* saveJob of a delete job: look the network up by service id and mark it  *)
(* as deleting, unless it is already deleted or not stored (yet).          *)
FindMark(j) ==
    /\ At(j, "findMark")
    /\ LET doc == netDoc[target[j]]
           found == doc.live /\ ~doc.body.deleted IN
       \/ /\ found
          /\ net' = [net EXCEPT ![j] =
                        [rev |-> doc.rev, body |-> [doc.body EXCEPT !.deleting = TRUE]]]
          /\ Save(j, "mark")
          /\ UNCHANGED job
       \/ /\ ~found \/ "db" \in Faults
          /\ Goto(j, "poll")
          /\ UNCHANGED <<job, net>>
    /\ UNCHANGED <<jenkins, target, jobDoc, netDoc, restarts>>

(* waitJob: one round of the polling loop.                                 *)
PollInProgress(j) ==
    /\ At(j, "poll") /\ jenkins[j] = "running"
    /\ ~job[j].body.jobId
    /\ job' = [job EXCEPT ![j].body.jobId = TRUE]
    /\ Save(j, "id")
    /\ UNCHANGED <<jenkins, target, jobDoc, netDoc, net, restarts>>

(* A lookup error ends the goroutine.  A build that is still queued has no *)
(* number, and GetJobIdByQueueId reports that as an error as well.         *)
PollError(j) ==
    /\ At(j, "poll")
    /\ "lookup" \in Faults \/ ("queue" \in Faults /\ jenkins[j] = "queued")
    /\ Exit(j)
    /\ UNCHANGED <<jenkins, target, jobDoc, netDoc, restarts>>

(* A fault of PollEnded: any answer but "queued" counts as an outcome.     *)
PollAnyAnswer(j) ==
    /\ At(j, "poll") /\ jenkins[j] # "queued"
    /\ job' = [job EXCEPT ![j].body.status = jenkins[j], ![j].body.jobId = TRUE]
    /\ Save(j, "status")
    /\ UNCHANGED <<jenkins, target, jobDoc, netDoc, net, restarts>>

PollEnded(j) ==
    /\ At(j, "poll") /\ jenkins[j] \in {"SUCCESS", "FAIL"}
    /\ job' = [job EXCEPT ![j].body.status = jenkins[j], ![j].body.jobId = TRUE]
    /\ Save(j, "status")
    /\ UNCHANGED <<jenkins, target, jobDoc, netDoc, net, restarts>>

(* waitJob of a successful creation: fetch the result package.  The one of *)
(* an ibpcerts job has no service.json, so it only fills in job.Env.       *)
ServeTar(j) ==
    /\ At(j, "serve")
    /\ \/ /\ j \in PostJobs
          /\ net' = [net EXCEPT ![j] = NoNet]
          /\ Save(j, "create")
          /\ UNCHANGED job
       \/ /\ j \in CertsJobs
          /\ job' = [job EXCEPT ![j].body.env = TRUE]
          /\ Save(j, "env")
          /\ UNCHANGED net
       \/ "tar" \in Faults /\ Exit(j)
    /\ UNCHANGED <<jenkins, target, jobDoc, netDoc, restarts>>

(* waitJob of a successful deletion: mark the network as deleted.          *)
FindDone(j) ==
    /\ At(j, "findDone")
    /\ LET doc == netDoc[target[j]] IN
       \/ /\ doc.live
          /\ net' = [net EXCEPT ![j] =
                        [rev |-> doc.rev, body |-> [deleting |-> FALSE, deleted |-> TRUE]]]
          /\ Save(j, "done")
          /\ UNCHANGED job
       \/ (~doc.live \/ "db" \in Faults) /\ Exit(j)
    /\ UNCHANGED <<jenkins, target, jobDoc, netDoc, restarts>>

-----------------------------------------------------------------------------
(* The user deletes an ibpcerts job, finished or not: the handler hands    *)
(* the request on without looking at the job.                              *)
CertsJobDelete(c) ==
    /\ jobDoc[c].live
    /\ jobDoc' = [jobDoc EXCEPT ![c] = Removed(@)]
    /\ UNCHANGED <<jenkins, target, netDoc, pc, op, job, net, restarts>>

(* Two faults of the view: it has every job; it has only jobs whose build  *)
(* number is known.                                                        *)
JobsOnRecord == {j \in Jobs : jobDoc[j].live}

NumberedPendingJobs ==
    {j \in Jobs : jobDoc[j].live /\ jobDoc[j].body.status = "" /\ jobDoc[j].body.jobId}

(* The view pending_jobs.                                                  *)
PendingJobs == {j \in Jobs : jobDoc[j].live /\ jobDoc[j].body.status = ""}

(* The server dies, and init() of the next process reads the view (or      *)
(* fails to) and starts waitJob for every row.                             *)
Restart ==
    /\ restarts < MaxRestarts
    /\ restarts' = restarts + 1
    /\ \E rows \in {PendingJobs} \cup (IF "db" \in Faults THEN {{}} ELSE {}) :
           /\ pc' = [j \in Jobs |-> IF j \in rows THEN "poll" ELSE "off"]
           /\ job' = [j \in Jobs |-> IF j \in rows
                                     THEN [rev |-> jobDoc[j].rev, body |-> jobDoc[j].body]
                                     ELSE NoJob]
    /\ op' = [j \in Jobs |-> "none"]
    /\ net' = [j \in Jobs |-> NoNet]
    /\ UNCHANGED <<jenkins, target, jobDoc, netDoc>>

-----------------------------------------------------------------------------
Routine(j) ==
    \/ PutJob(j) \/ GetJob(j) \/ ReputJob(j)
    \/ PutNet(j) \/ GetNet(j) \/ ReputNet(j)
    \/ PollInProgress(j) \/ PollError(j) \/ PollEnded(j)
    \/ ServeTar(j)
    \/ j \in DeleteJobs /\ FindMark(j)
    \/ j \in DeleteJobs /\ FindDone(j)

Jenkins(j) == Schedule(j) \/ Build(j)

Next ==
    \/ \E p \in PostJobs : ServicePost(p)
    \/ \E d \in DeleteJobs, p \in PostJobs : DeleteService(d, p)
    \/ \E c \in CertsJobs : IbpCertsPost(c)
    \/ \E c \in CertsJobs : CertsJobDelete(c)
    \/ \E j \in Jobs : Routine(j)
    \/ \E j \in Jobs : Jenkins(j)
    \/ Restart

Spec == Init /\ [][Next]_vars

(* Goroutines are scheduled, and Jenkins takes and ends its builds.  Users *)
(* and crashes owe nothing.                                                *)
Fairness == \A j \in Jobs : WF_vars(Routine(j)) /\ WF_vars(Jenkins(j))

FairSpec == Spec /\ Fairness
-----------------------------------------------------------------------------
(* Properties.                                                             *)

(* A network document never says both "being deleted" and "deleted", the   *)
(* combination that the comment on couch.Network rules out, although each  *)
(* of several goroutines rewrites both flags from a copy it read earlier.  *)
NeverDeletingAndDeleted ==
    \A p \in PostJobs : ~(netDoc[p].body.deleting /\ netDoc[p].body.deleted)

(* A network is recorded as deleted only when Jenkins really deleted its   *)
(* service: some delete job for it ended in SUCCESS.                       *)
DeletedIsDeprovisioned ==
    \A p \in PostJobs : netDoc[p].body.deleted =>
        \E d \in DeleteJobs : target[d] = p /\ jenkins[d] = "SUCCESS"

(* A status in the job database is the outcome of the build, whatever      *)
(* goroutine wrote it, before or after a restart.                          *)
StatusIsOutcome ==
    \A j \in Jobs : jobDoc[j].body.status # "" => jobDoc[j].body.status = jenkins[j]

(* A job document the user deleted stays deleted: a goroutine that still   *)
(* holds a copy of the job cannot force it back into the database.         *)
RemovedStaysRemoved ==
    [][\A j \in Jobs : jobDoc[j].rev > 0 /\ ~jobDoc[j].live => ~jobDoc'[j].live]_vars

(* What the user sees of a state: see ServiceCatalog.                      *)
RecordOf(doc) ==
    IF doc.rev = 0 THEN "none"
    ELSE IF ~doc.live THEN "removed"
    ELSE IF doc.body.status = "" THEN "pending" ELSE doc.body.status

(* The view by_userid lists documents with neither flag.                   *)
ListingOf(doc) ==
    IF ~doc.live THEN "never" ELSE IF doc.body = ActiveNet THEN "listed" ELSE "gone"

Catalog == INSTANCE ServiceCatalog WITH
    record <- [j \in Jobs |-> RecordOf(jobDoc[j])],
    listing <- [p \in PostJobs |-> ListingOf(netDoc[p])]

(* The server keeps the promises of ServiceCatalog: outcomes are recorded  *)
(* once, and a service is never listed again after it left the list.       *)
ImplementsCatalog == Catalog!Spec

(* Every job on record as pending gets its outcome recorded (or its        *)
(* document deleted), across restarts, if Jenkins ends every build.        *)
PendingJobsResolve ==
    \A j \in Jobs : jobDoc[j].live /\ jobDoc[j].body.status = "" ~>
                    ~jobDoc[j].live \/ jobDoc[j].body.status # ""

(* Once the goroutine of a successful delete job has found the network,    *)
(* the network becomes recorded as deleted unless the server restarts,     *)
(* also when another delete job's write makes both of its first PUT fail.  *)
FoundNetworkBecomesDeleted ==
    \A d \in DeleteJobs, p \in PostJobs, n \in 0 .. MaxRestarts :
        op[d] = "done" /\ target[d] = p /\ restarts = n
            ~> netDoc[p].body.deleted \/ restarts > n

(* Unless the server restarts, the network of a creation that is on record *)
(* as successful gets stored: the two documents are written one after the  *)
(* other, and only init()'s pending jobs are taken up again.               *)
RecordedCreationIsStored ==
    \A p \in PostJobs :
        jobDoc[p].body.status = "SUCCESS" ~> netDoc[p].live \/ restarts > 0

(* The comment on couch.Network: "Deleting: true, Deleted: false ->        *)
(* deleting, job not completed yet".  A job counts as not completed while  *)
(* its status is open or its goroutine has work left.                      *)
DeletingMeansJobNotCompleted ==
    \A p \in PostJobs : netDoc[p].body.deleting =>
        \E d \in DeleteJobs : /\ target[d] = p
                              /\ jobDoc[d].body.status = "" \/ pc[d] # "off"

(* The comment on couch.Network: "Deleting: false, Deleted: false ->       *)
(* network is active from hfrd perspective".  A network whose deletion is  *)
(* on record as successful, with nothing left to do, is not active.        *)
ActiveIsNotDeleted ==
    \A p \in PostJobs : netDoc[p].live /\ netDoc[p].body = ActiveNet =>
        ~\E d \in DeleteJobs : /\ target[d] = p
                               /\ jobDoc[d].body.status = "SUCCESS" /\ pc[d] = "off"

=============================================================================
