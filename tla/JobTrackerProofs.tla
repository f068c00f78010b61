-------------------------- MODULE JobTrackerProofs --------------------------
(***************************************************************************)
(* Proofs about JobTracker, for every set of jobs, number of restarts and  *)
(* set of faults: its types, and its safety properties.                    *)
(***************************************************************************)
EXTENDS JobTracker, TLAPS

Saving == {"put", "get", "reput"}

(* Where a goroutine can be, given the kind of its job.                    *)
ControlOK ==
    \A j \in Jobs :
        /\ jenkins[j] = "none" => pc[j] = "off" /\ ~jobDoc[j].live
        /\ j \in DeleteJobs /\ jenkins[j] # "none" => target[j] \in PostJobs
        /\ op[j] # "none" <=> pc[j] \in Saving
        /\ op[j] \in {"mark", "done"} => j \in DeleteJobs
        /\ op[j] = "create" => j \in PostJobs
        /\ pc[j] \in {"findMark", "findDone"} => j \in DeleteJobs
        /\ pc[j] = "serve" => j \notin DeleteJobs

TypeInv == TypeOK /\ ControlOK

LEMMA TypeInvInit == Init => TypeInv
<1> SUFFICES ASSUME Init PROVE TypeInv
  OBVIOUS
<1> USE DEF Init
<1>1. NeverWritten(NewJob) \in Docs(JobBodies) /\ NeverWritten(ActiveNet) \in Docs(NetBodies)
  BY DEF NeverWritten, Docs, JobBodies, NetBodies, NewJob, ActiveNet
<1>2. NoJob \in [rev : Nat, body : JobBodies] /\ NoNet \in [rev : Nat, body : NetBodies]
  BY DEF NoJob, NoNet, JobBodies, NetBodies, NewJob, ActiveNet
<1>3. TypeOK
  BY <1>1, <1>2, JobTrackerAssumption DEF TypeOK
<1>4. ControlOK
  BY DEF ControlOK, NeverWritten, Saving
<1> QED BY <1>3, <1>4 DEF TypeInv

(* Updating one field of a stored record keeps it a record of its kind.    *)
JobCopies == [rev : Nat, body : JobBodies]
NetCopies == [rev : Nat, body : NetBodies]

LEMMA UpdatedJobCopy ==
    ASSUME NEW r \in JobCopies, NEW st \in {"", "SUCCESS", "FAIL"}
    PROVE  /\ [r EXCEPT !.body.jobId = TRUE] \in JobCopies
           /\ [r EXCEPT !.body.env = TRUE] \in JobCopies
           /\ [r EXCEPT !.body.status = st, !.body.jobId = TRUE] \in JobCopies
<1>1. /\ [r.body EXCEPT !.jobId = TRUE] \in JobBodies
      /\ [r.body EXCEPT !.env = TRUE] \in JobBodies
      /\ [r.body EXCEPT !.status = st] \in JobBodies
  BY DEF JobCopies, JobBodies
<1>2. ASSUME NEW q \in JobCopies, NEW b \in JobBodies
      PROVE  [q EXCEPT !.body = b] \in JobCopies
  BY DEF JobCopies
<1>3. ASSUME NEW q \in JobCopies
      PROVE  [q EXCEPT !.body.jobId = TRUE] \in JobCopies
  <2>1. [q.body EXCEPT !.jobId = TRUE] \in JobBodies
    BY DEF JobCopies, JobBodies
  <2>2. [q EXCEPT !.body.jobId = TRUE] = [q EXCEPT !.body = [q.body EXCEPT !.jobId = TRUE]]
    OBVIOUS
  <2> QED BY <1>2, <2>1, <2>2
<1>4. [r EXCEPT !.body.env = TRUE] = [r EXCEPT !.body = [r.body EXCEPT !.env = TRUE]]
  OBVIOUS
<1>5. [r EXCEPT !.body.status = st] \in JobCopies
  <2>1. [r EXCEPT !.body.status = st] = [r EXCEPT !.body = [r.body EXCEPT !.status = st]]
    OBVIOUS
  <2> QED BY <1>1, <1>2, <2>1
<1>6. [r EXCEPT !.body.status = st, !.body.jobId = TRUE]
          = [[r EXCEPT !.body.status = st] EXCEPT !.body.jobId = TRUE]
  OBVIOUS
<1> QED BY <1>1, <1>2, <1>3, <1>4, <1>5, <1>6

LEMMA RemovedDoc ==
    ASSUME NEW doc \in Docs(JobBodies)
    PROVE  Removed(doc) \in Docs(JobBodies)
<1>1. ASSUME NEW d \in Docs(JobBodies) PROVE [d EXCEPT !.live = FALSE] \in Docs(JobBodies)
  BY DEF Docs
<1>2. [doc EXCEPT !.rev = doc.rev + 1] \in Docs(JobBodies)
  BY DEF Docs
<1>3. Removed(doc) = [[doc EXCEPT !.rev = doc.rev + 1] EXCEPT !.live = FALSE]
  BY DEF Docs, Removed
<1> QED BY <1>1, <1>2, <1>3

(* The return of a ForceSave call keeps the copies and the control typed.  *)
LEMMA SaveReturnsType ==
    ASSUME TypeInv, NEW j \in Jobs, NEW saved \in BOOLEAN,
           pc[j] \in Saving, SaveReturns(j, saved)
    PROVE  /\ pc' \in [Jobs -> {"off", "put", "get", "reput", "findMark",
                                "poll", "serve", "findDone"}]
           /\ op' \in [Jobs -> JobOps \cup NetOps \cup {"none"}]
           /\ job' \in [Jobs -> [rev : Nat, body : JobBodies]]
           /\ net' \in [Jobs -> [rev : Nat, body : NetBodies]]
           /\ op'[j] = "none"
           /\ pc'[j] \in {"off", "poll"}
                         \cup (IF j \in DeleteJobs THEN {"findMark", "findDone"}
                                                   ELSE {"serve"})
           /\ \A i \in Jobs \ {j} : pc'[i] = pc[i] /\ op'[i] = op[i]
<1>1. op[j] \in JobOps \cup NetOps
  BY DEF TypeInv, TypeOK, ControlOK
<1>2. NextLabel(j, saved) \in {"off", "poll"}
          \cup (IF j \in DeleteJobs THEN {"findMark", "findDone"} ELSE {"serve"})
  BY <1>1 DEF NextLabel, JobOps, NetOps, TypeInv, TypeOK
<1>3. JobAfter(j, saved) \in [rev : Nat, body : JobBodies]
  <2>1. NoJob \in [rev : Nat, body : JobBodies]
    BY DEF NoJob, NewJob, JobBodies
  <2>2. job[j] \in [rev : Nat, body : JobBodies] /\ jobDoc[j].rev + 1 \in Nat
    BY DEF TypeInv, TypeOK, Docs
  <2>3. [job[j] EXCEPT !.rev = jobDoc[j].rev + 1] \in [rev : Nat, body : JobBodies]
    BY <2>2
  <2> QED BY <2>1, <2>2, <2>3 DEF JobAfter
<1>4. NoNet \in [rev : Nat, body : NetBodies]
  BY DEF NoNet, ActiveNet, NetBodies
<1>5. /\ pc' = [pc EXCEPT ![j] = NextLabel(j, saved)]
      /\ op' = [op EXCEPT ![j] = "none"]
      /\ job' = [job EXCEPT ![j] = JobAfter(j, saved)]
      /\ net' = [net EXCEPT ![j] = NoNet]
  BY DEF SaveReturns, Goto
<1> QED BY <1>2, <1>3, <1>4, <1>5 DEF TypeInv, TypeOK

(* A ForceSave call that returns without changing anything else, and one   *)
(* that wrote a document, preserve TypeInv.                                *)
LEMMA JobReturnType ==
    ASSUME TypeInv, NEW j \in Jobs, NEW saved \in BOOLEAN,
           pc[j] \in Saving, SaveReturns(j, saved),
           \/ UNCHANGED jobDoc
           \/ jobDoc' = [jobDoc EXCEPT ![j] = Written(@, job[j].body)],
           UNCHANGED <<jenkins, target, netDoc, restarts>>
    PROVE  TypeInv'
<1>1. Written(jobDoc[j], job[j].body) \in Docs(JobBodies)
  BY DEF TypeInv, TypeOK, Written, Docs
<1>2. jobDoc' \in [Jobs -> Docs(JobBodies)]
  BY <1>1 DEF TypeInv, TypeOK
<1>3. TypeOK'
  BY <1>2, SaveReturnsType DEF TypeInv, TypeOK
<1>4. jenkins[j] # "none"
  BY DEF TypeInv, ControlOK, Saving
<1>5. \A i \in Jobs : i # j => jobDoc'[i] = jobDoc[i]
  BY DEF TypeInv, TypeOK
<1>6. ControlOK'
  BY <1>4, <1>5, SaveReturnsType DEF TypeInv, ControlOK, Saving
<1> QED BY <1>3, <1>6 DEF TypeInv

LEMMA NetReturnType ==
    ASSUME TypeInv, NEW j \in Jobs, NEW saved \in BOOLEAN,
           pc[j] \in Saving, op[j] \in NetOps, SaveReturns(j, saved),
           \/ UNCHANGED netDoc
           \/ netDoc' = [netDoc EXCEPT ![ServiceOf(j)] = Written(@, net[j].body)],
           UNCHANGED <<jenkins, target, jobDoc, restarts>>
    PROVE  TypeInv'
<1>1. ServiceOf(j) \in PostJobs
  BY DEF TypeInv, ControlOK, Saving, NetOps, ServiceOf
<1>2. Written(netDoc[ServiceOf(j)], net[j].body) \in Docs(NetBodies)
  BY <1>1 DEF TypeInv, TypeOK, Written, Docs
<1>3. netDoc' \in [PostJobs -> Docs(NetBodies)]
  BY <1>2 DEF TypeInv, TypeOK
<1>4. TypeOK'
  BY <1>3, SaveReturnsType DEF TypeInv, TypeOK
<1>5. ControlOK'
  BY SaveReturnsType DEF TypeInv, ControlOK, Saving
<1> QED BY <1>4, <1>5 DEF TypeInv

LEMMA TypeInvNext == TypeInv /\ [Next]_vars => TypeInv'
<1> SUFFICES ASSUME TypeInv, [Next]_vars PROVE TypeInv'
  OBVIOUS
<1> USE DEF TypeInv
<1>1. ASSUME NEW j \in Jobs, Trigger(j),
             \/ j \notin DeleteJobs /\ UNCHANGED target
             \/ \E p \in PostJobs : target' = [target EXCEPT ![j] = p]
      PROVE  TypeInv'
  <2>1. TypeOK'
    BY <1>1 DEF Trigger, Save, TypeOK, JobOps
  <2>2. ControlOK'
    BY <1>1 DEF Trigger, Save, TypeOK, ControlOK, Saving
  <2> QED BY <2>1, <2>2
<1>2. ASSUME NEW p \in PostJobs, ServicePost(p) PROVE TypeInv'
  BY <1>1, <1>2, JobTrackerAssumption DEF ServicePost, Jobs
<1>3. ASSUME NEW d \in DeleteJobs, NEW p \in PostJobs, DeleteService(d, p)
      PROVE  TypeInv'
  BY <1>1, <1>3 DEF DeleteService, Jobs
<1>4. ASSUME NEW c \in CertsJobs, IbpCertsPost(c) PROVE TypeInv'
  BY <1>1, <1>4, JobTrackerAssumption DEF IbpCertsPost, Jobs
<1>5. ASSUME NEW c \in CertsJobs, CertsJobDelete(c) PROVE TypeInv'
  <2>1. c \in Jobs
    BY DEF Jobs
  <2>2. Removed(jobDoc[c]) \in Docs(JobBodies)
    BY <2>1, RemovedDoc DEF TypeOK
  <2>3. TypeOK'
    BY <1>5, <2>2 DEF CertsJobDelete, TypeOK
  <2>4. ControlOK'
    BY <1>5, <2>1 DEF CertsJobDelete, ControlOK, TypeOK, Removed, Docs
  <2> QED BY <2>3, <2>4
<1>6. ASSUME NEW j \in Jobs, PutJob(j) PROVE TypeInv'
  <2>1. CASE pc' = [pc EXCEPT ![j] = "get"] /\ UNCHANGED <<jobDoc, op, job, net>>
    <3>1. TypeOK'
      BY <1>6, <2>1 DEF PutJob, TypeOK
    <3>2. ControlOK'
      BY <1>6, <2>1 DEF PutJob, At, ControlOK, TypeOK, Saving
    <3> QED BY <3>1, <3>2
  <2> QED BY <1>6, <2>1, JobReturnType DEF PutJob, At, JobSaved, JobNotSaved, Saving
<1>7. ASSUME NEW j \in Jobs, GetJob(j) PROVE TypeInv'
  <2>1. CASE /\ pc' = [pc EXCEPT ![j] = "reput"]
             /\ job' = [job EXCEPT ![j].rev = jobDoc[j].rev]
             /\ UNCHANGED <<jobDoc, op, net>>
    <3>1. TypeOK'
      <4>1. [job[j] EXCEPT !.rev = jobDoc[j].rev] \in [rev : Nat, body : JobBodies]
        BY DEF TypeOK, Docs
      <4> QED BY <1>7, <2>1, <4>1 DEF GetJob, TypeOK
    <3>2. ControlOK'
      BY <1>7, <2>1 DEF GetJob, At, ControlOK, TypeOK, Saving
    <3> QED BY <3>1, <3>2
  <2> QED BY <1>7, <2>1, JobReturnType DEF GetJob, At, JobNotSaved, Saving
<1>8. ASSUME NEW j \in Jobs, ReputJob(j) PROVE TypeInv'
  BY <1>8, JobReturnType DEF ReputJob, At, JobSaved, JobNotSaved, Saving
<1>9. ASSUME NEW j \in Jobs, PutNet(j) PROVE TypeInv'
  <2>1. CASE pc' = [pc EXCEPT ![j] = "get"] /\ UNCHANGED <<netDoc, op, job, net>>
    <3>1. TypeOK'
      BY <1>9, <2>1 DEF PutNet, TypeOK
    <3>2. ControlOK'
      BY <1>9, <2>1 DEF PutNet, At, ControlOK, TypeOK, Saving
    <3> QED BY <3>1, <3>2
  <2> QED BY <1>9, <2>1, NetReturnType DEF PutNet, At, NetSaved, NetNotSaved, Saving
<1>10. ASSUME NEW j \in Jobs, GetNet(j) PROVE TypeInv'
  <2>1. CASE /\ pc' = [pc EXCEPT ![j] = "reput"]
             /\ net' = [net EXCEPT ![j].rev = netDoc[ServiceOf(j)].rev]
             /\ UNCHANGED <<netDoc, op, job>>
    <3>1. TypeOK'
      <4>1. ServiceOf(j) \in PostJobs
        BY <1>10 DEF GetNet, At, ControlOK, Saving, NetOps, ServiceOf
      <4>2. [net[j] EXCEPT !.rev = netDoc[ServiceOf(j)].rev] \in [rev : Nat, body : NetBodies]
        BY <4>1 DEF TypeOK, Docs
      <4> QED BY <1>10, <2>1, <4>2 DEF GetNet, TypeOK
    <3>2. ControlOK'
      BY <1>10, <2>1 DEF GetNet, At, ControlOK, TypeOK, Saving
    <3> QED BY <3>1, <3>2
  <2> QED BY <1>10, <2>1, NetReturnType DEF GetNet, At, NetNotSaved, Saving
<1>11. ASSUME NEW j \in Jobs, ReputNet(j) PROVE TypeInv'
  BY <1>11, NetReturnType DEF ReputNet, At, NetSaved, NetNotSaved, Saving
<1>12. ASSUME NEW j \in Jobs, PollInProgress(j) PROVE TypeInv'
  <2>1. [job[j] EXCEPT !.body.jobId = TRUE] \in JobCopies
    BY UpdatedJobCopy DEF TypeOK, JobCopies
  <2>2. TypeOK'
    BY <1>12, <2>1 DEF PollInProgress, Save, TypeOK, JobOps, JobCopies
  <2>3. ControlOK'
    BY <1>12 DEF PollInProgress, At, Save, ControlOK, TypeOK, Saving
  <2> QED BY <2>2, <2>3
<1>13. ASSUME NEW j \in Jobs, Exit(j),
              UNCHANGED <<jenkins, target, jobDoc, netDoc, restarts>>
       PROVE  TypeInv'
  <2>1. NoJob \in [rev : Nat, body : JobBodies] /\ NoNet \in [rev : Nat, body : NetBodies]
    BY DEF NoJob, NoNet, NewJob, ActiveNet, JobBodies, NetBodies
  <2>2. TypeOK'
    BY <1>13, <2>1 DEF Exit, Goto, TypeOK
  <2>3. ControlOK'
    BY <1>13 DEF Exit, Goto, ControlOK, TypeOK, Saving
  <2> QED BY <2>2, <2>3
<1>14. ASSUME NEW j \in Jobs, PollError(j) PROVE TypeInv'
  BY <1>13, <1>14 DEF PollError
<1>15. ASSUME NEW j \in Jobs, PollEnded(j) PROVE TypeInv'
  <2>1. [job[j] EXCEPT !.body.status = jenkins[j], !.body.jobId = TRUE]
            \in JobCopies
    BY <1>15, UpdatedJobCopy DEF PollEnded, TypeOK, JobCopies
  <2>2. TypeOK'
    BY <1>15, <2>1 DEF PollEnded, Save, TypeOK, JobOps, JobCopies
  <2>3. ControlOK'
    BY <1>15 DEF PollEnded, At, Save, ControlOK, TypeOK, Saving
  <2> QED BY <2>2, <2>3
<1>16. ASSUME NEW j \in Jobs, ServeTar(j) PROVE TypeInv'
  <2>1. NoNet \in [rev : Nat, body : NetBodies]
    BY DEF NoNet, ActiveNet, NetBodies
  <2>2. [job[j] EXCEPT !.body.env = TRUE] \in JobCopies
    BY UpdatedJobCopy DEF TypeOK, JobCopies
  <2>3. CASE Exit(j)
    BY <1>13, <1>16, <2>3 DEF ServeTar
  <2>4. CASE j \in PostJobs /\ net' = [net EXCEPT ![j] = NoNet] /\ Save(j, "create") /\ UNCHANGED job
    <3>1. TypeOK'
      BY <1>16, <2>1, <2>4 DEF ServeTar, Save, TypeOK, NetOps
    <3>2. ControlOK'
      BY <1>16, <2>4 DEF ServeTar, At, Save, ControlOK, TypeOK, Saving
    <3> QED BY <3>1, <3>2
  <2>5. CASE /\ j \in CertsJobs /\ Save(j, "env") /\ UNCHANGED net
             /\ job' = [job EXCEPT ![j].body.env = TRUE]
    <3>1. TypeOK'
      BY <1>16, <2>2, <2>5 DEF ServeTar, Save, TypeOK, JobOps, JobCopies
    <3>2. ControlOK'
      BY <1>16, <2>5 DEF ServeTar, At, Save, ControlOK, TypeOK, Saving
    <3> QED BY <3>1, <3>2
  <2> QED BY <1>16, <2>3, <2>4, <2>5 DEF ServeTar
<1>17. ASSUME NEW j \in DeleteJobs, FindMark(j) PROVE TypeInv'
  <2>1. j \in Jobs /\ target[j] \in PostJobs
    BY <1>17 DEF Jobs, FindMark, At, ControlOK
  <2>2. netDoc[target[j]] \in Docs(NetBodies)
    BY <2>1 DEF TypeOK
  <2>3. [netDoc[target[j]].body EXCEPT !.deleting = TRUE] \in NetBodies
    BY <2>2 DEF Docs, NetBodies
  <2>4. [rev |-> netDoc[target[j]].rev, body |-> [netDoc[target[j]].body EXCEPT !.deleting = TRUE]]
            \in NetCopies
    BY <2>2, <2>3 DEF Docs, NetCopies
  <2>5. CASE Goto(j, "poll") /\ UNCHANGED <<job, net>>
    <3>1. TypeOK'
      BY <1>17, <2>1, <2>5 DEF FindMark, Goto, TypeOK
    <3>2. ControlOK'
      BY <1>17, <2>1, <2>5 DEF FindMark, At, Goto, ControlOK, TypeOK, Saving
    <3> QED BY <3>1, <3>2
  <2>6. CASE /\ Save(j, "mark") /\ UNCHANGED job
             /\ net' = [net EXCEPT ![j] = [rev |-> netDoc[target[j]].rev,
                            body |-> [netDoc[target[j]].body EXCEPT !.deleting = TRUE]]]
    <3>1. TypeOK'
      BY <1>17, <2>1, <2>4, <2>6 DEF FindMark, Save, TypeOK, NetOps, NetCopies
    <3>2. ControlOK'
      BY <1>17, <2>1, <2>6 DEF FindMark, At, Save, ControlOK, TypeOK, Saving
    <3> QED BY <3>1, <3>2
  <2> QED BY <1>17, <2>5, <2>6 DEF FindMark
<1>18. ASSUME NEW j \in DeleteJobs, FindDone(j) PROVE TypeInv'
  <2>1. j \in Jobs /\ target[j] \in PostJobs
    BY <1>18 DEF Jobs, FindDone, At, ControlOK
  <2>2. [rev |-> netDoc[target[j]].rev, body |-> [deleting |-> FALSE, deleted |-> TRUE]]
            \in NetCopies
    BY <2>1 DEF TypeOK, Docs, NetBodies, NetCopies
  <2>3. CASE Exit(j)
    BY <1>13, <1>18, <2>1, <2>3 DEF FindDone
  <2>4. CASE /\ Save(j, "done") /\ UNCHANGED job
             /\ net' = [net EXCEPT ![j] = [rev |-> netDoc[target[j]].rev,
                            body |-> [deleting |-> FALSE, deleted |-> TRUE]]]
    <3>1. TypeOK'
      BY <1>18, <2>1, <2>2, <2>4 DEF FindDone, Save, TypeOK, NetOps, NetCopies
    <3>2. ControlOK'
      BY <1>18, <2>1, <2>4 DEF FindDone, At, Save, ControlOK, TypeOK, Saving
    <3> QED BY <3>1, <3>2
  <2> QED BY <1>18, <2>3, <2>4 DEF FindDone
<1>19. ASSUME NEW j \in Jobs, Jenkins(j) PROVE TypeInv'
  <2>1. TypeOK'
    BY <1>19 DEF Jenkins, Schedule, Build, TypeOK
  <2>2. ControlOK'
    BY <1>19 DEF Jenkins, Schedule, Build, TypeOK, ControlOK
  <2> QED BY <2>1, <2>2
<1>20. ASSUME Restart PROVE TypeInv'
  <2>1. PICK rows \in {PendingJobs} \cup {{}} :
            /\ pc' = [j \in Jobs |-> IF j \in rows THEN "poll" ELSE "off"]
            /\ job' = [j \in Jobs |-> IF j \in rows
                                      THEN [rev |-> jobDoc[j].rev, body |-> jobDoc[j].body]
                                      ELSE NoJob]
    BY <1>20 DEF Restart
  <2>2. NoJob \in [rev : Nat, body : JobBodies] /\ NoNet \in [rev : Nat, body : NetBodies]
    BY DEF NoJob, NoNet, NewJob, ActiveNet, JobBodies, NetBodies
  <2>3. \A j \in Jobs : [rev |-> jobDoc[j].rev, body |-> jobDoc[j].body] \in [rev : Nat, body : JobBodies]
    BY DEF TypeOK, Docs
  <2>4. TypeOK'
    BY <1>20, <2>1, <2>2, <2>3, JobTrackerAssumption DEF Restart, TypeOK
  <2>5. \A j \in rows : j \in Jobs /\ jobDoc[j].live
    BY <2>1 DEF PendingJobs
  <2>6. ControlOK'
    BY <1>20, <2>1, <2>5 DEF Restart, ControlOK, TypeOK, Saving
  <2> QED BY <2>4, <2>6
<1>21. ASSUME UNCHANGED vars PROVE TypeInv'
  <2>1. TypeOK'
    BY <1>21 DEF vars, TypeOK
  <2>2. ControlOK'
    BY <1>21 DEF vars, ControlOK
  <2> QED BY <2>1, <2>2
<1> QED
  BY <1>2, <1>3, <1>4, <1>5, <1>6, <1>7, <1>8, <1>9, <1>10, <1>11, <1>12, <1>14,
     <1>15, <1>16, <1>17, <1>18, <1>19, <1>20, <1>21 DEF Next, Routine

(* Every reachable state is well-typed, the copies of every goroutine and  *)
(* every revision included.                                                *)
THEOREM TypeCorrect == Spec => []TypeOK
<1>1. TypeInv => TypeOK
  BY DEF TypeInv
<1> QED BY <1>1, TypeInvInit, TypeInvNext, PTL DEF Spec

-----------------------------------------------------------------------------
(* The safety properties.  None of them is inductive: what is written to a *)
(* document is what some goroutine copied and changed several requests     *)
(* earlier.  SafetyInv says of the copies what the properties say of the   *)
(* documents, and how old a copy can be.                                   *)

(* A status that anyone has seen is the build's outcome, and a goroutine   *)
(* that holds the body of a deleted network has seen its own build succeed.*)
OutcomeOK(j) ==
    /\ jobDoc[j].body.status # "" => jobDoc[j].body.status = jenkins[j]
    /\ job[j].body.status # "" => job[j].body.status = jenkins[j]
    /\ pc[j] = "findDone" => jenkins[j] = "SUCCESS"
    /\ ~(net[j].body.deleting /\ net[j].body.deleted)
    /\ net[j].body.deleted => j \in DeleteJobs /\ jenkins[j] = "SUCCESS"

(* A goroutine that has saved its job holds a revision that existed, and   *)
(* an older one than the tombstone if the document has been deleted.       *)
RevisionOK(j) ==
    /\ jenkins[j] = "none" => jobDoc[j].rev = 0
    /\ jobDoc[j].live => jobDoc[j].rev > 0
    /\ op[j] = "new" => jobDoc[j].rev = 0
    /\ pc[j] # "off" /\ op[j] # "new" =>
           /\ 0 < job[j].rev /\ job[j].rev <= jobDoc[j].rev
           /\ ~jobDoc[j].live => job[j].rev < jobDoc[j].rev

SafetyInv ==
    /\ TypeInv
    /\ \A j \in Jobs : OutcomeOK(j) /\ RevisionOK(j)
    /\ NeverDeletingAndDeleted
    /\ DeletedIsDeprovisioned

LEMMA SafetyInvInit == Init => SafetyInv
<1> SUFFICES ASSUME Init PROVE SafetyInv
  OBVIOUS
<1> USE DEF Init
<1>1. \A j \in Jobs : OutcomeOK(j)
  BY DEF OutcomeOK, NeverWritten, NewJob, ActiveNet, NoJob, NoNet
<1>2. \A j \in Jobs : RevisionOK(j)
  BY DEF RevisionOK, NeverWritten
<1>3. NeverDeletingAndDeleted /\ DeletedIsDeprovisioned
  BY DEF NeverDeletingAndDeleted, DeletedIsDeprovisioned, NeverWritten, ActiveNet
<1> QED BY <1>1, <1>2, <1>3, TypeInvInit DEF SafetyInv

(* What the updates of a copy leave alone.                                 *)
LEMMA CopyFields ==
    ASSUME NEW r \in JobCopies, NEW st
    PROVE  /\ [r EXCEPT !.body.jobId = TRUE].rev = r.rev
           /\ [r EXCEPT !.body.jobId = TRUE].body.status = r.body.status
           /\ [r EXCEPT !.body.env = TRUE].rev = r.rev
           /\ [r EXCEPT !.body.env = TRUE].body.status = r.body.status
           /\ [r EXCEPT !.body.status = st, !.body.jobId = TRUE].rev = r.rev
           /\ [r EXCEPT !.body.status = st, !.body.jobId = TRUE].body.status = st
BY DEF JobCopies, JobBodies

LEMMA NoCopies ==
    /\ NoJob.rev = 0 /\ NoJob.body.status = ""
    /\ ~NoNet.body.deleting /\ ~NoNet.body.deleted
BY DEF NoJob, NewJob, NoNet, ActiveNet

(* The return of a ForceSave call, for the goroutine's own copies ...      *)
LEMMA SaveReturnsCopies ==
    ASSUME TypeInv, NEW j \in Jobs, NEW saved \in BOOLEAN,
           pc[j] \in Saving, SaveReturns(j, saved)
    PROVE  /\ op'[j] = "none"
           /\ net'[j] = NoNet
           /\ pc'[j] = "off" => job'[j] = NoJob
           /\ pc'[j] # "off" => job'[j].body = job[j].body
           /\ pc'[j] # "off" => IF saved /\ op[j] \in {"new", "id"}
                                THEN job'[j].rev = jobDoc[j].rev + 1
                                ELSE job'[j].rev = job[j].rev
           /\ pc'[j] # "off" => op[j] # "new" \/ saved
           /\ pc'[j] = "findDone" => job[j].body.status = "SUCCESS"
           /\ \A i \in Jobs \ {j} : /\ pc'[i] = pc[i] /\ op'[i] = op[i]
                                    /\ job'[i] = job[i] /\ net'[i] = net[i]
<1>1. /\ pc' = [pc EXCEPT ![j] = NextLabel(j, saved)]
      /\ op' = [op EXCEPT ![j] = "none"]
      /\ job' = [job EXCEPT ![j] = JobAfter(j, saved)]
      /\ net' = [net EXCEPT ![j] = NoNet]
  BY DEF SaveReturns, Goto
<1>2. /\ pc'[j] = NextLabel(j, saved) /\ job'[j] = JobAfter(j, saved)
      /\ op'[j] = "none" /\ net'[j] = NoNet
      /\ \A i \in Jobs \ {j} : /\ pc'[i] = pc[i] /\ op'[i] = op[i]
                               /\ job'[i] = job[i] /\ net'[i] = net[i]
  BY <1>1 DEF TypeInv, TypeOK
<1>3. job[j] \in [rev : Nat, body : JobBodies]
  BY DEF TypeInv, TypeOK
<1>4. op[j] = "new" /\ ~saved => NextLabel(j, saved) = "off"
  BY DEF NextLabel
<1>5. NextLabel(j, saved) = "findDone" => job[j].body.status = "SUCCESS"
  BY DEF NextLabel
<1>6. pc'[j] = "off" => job'[j] = NoJob
  BY <1>2 DEF JobAfter
<1>7. ASSUME pc'[j] # "off"
      PROVE  /\ job'[j].body = job[j].body
             /\ IF saved /\ op[j] \in {"new", "id"}
                THEN job'[j].rev = jobDoc[j].rev + 1
                ELSE job'[j].rev = job[j].rev
  BY <1>2, <1>3, <1>7 DEF JobAfter
<1> QED BY <1>2, <1>4, <1>5, <1>6, <1>7

LEMMA JobReturnSafe ==
    ASSUME SafetyInv, NEW j \in Jobs, NEW saved \in BOOLEAN,
           pc[j] \in Saving, SaveReturns(j, saved),
           \/ ~saved /\ UNCHANGED jobDoc
           \/ /\ ~Conflicts(jobDoc[j], job[j].rev)
              /\ jobDoc' = [jobDoc EXCEPT ![j] = Written(@, job[j].body)],
           UNCHANGED <<jenkins, target, netDoc, restarts>>
    PROVE  SafetyInv'
<1>1. TypeInv'
  BY JobReturnType DEF SafetyInv
<1>2. /\ jobDoc \in [Jobs -> Docs(JobBodies)]
      /\ jobDoc[j] \in Docs(JobBodies) /\ job[j] \in [rev : Nat, body : JobBodies]
      /\ TypeInv
  BY DEF SafetyInv, TypeInv, TypeOK
<1>3. ASSUME NEW i \in Jobs, i # j PROVE OutcomeOK(i)' /\ RevisionOK(i)'
  <2>1. jobDoc'[i] = jobDoc[i]
    BY <1>2, <1>3
  <2>2. pc'[i] = pc[i] /\ op'[i] = op[i] /\ job'[i] = job[i] /\ net'[i] = net[i]
    BY <1>2, <1>3, SaveReturnsCopies
  <2>3. OutcomeOK(i) /\ RevisionOK(i)
    BY DEF SafetyInv
  <2> QED BY <2>1, <2>2, <2>3 DEF OutcomeOK, RevisionOK
<1>4. \/ ~saved /\ jobDoc'[j] = jobDoc[j]
      \/ /\ ~Conflicts(jobDoc[j], job[j].rev)
         /\ jobDoc'[j] = Written(jobDoc[j], job[j].body)
  BY <1>2
<1>5. OutcomeOK(j)'
  <2>1. OutcomeOK(j)
    BY DEF SafetyInv
  <2>2. net'[j].body = ActiveNet
    BY <1>2, SaveReturnsCopies DEF NoNet
  <2>3. job'[j].body.status \in {"", job[j].body.status}
    <3>1. CASE pc'[j] = "off"
      <4>1. job'[j] = NoJob
        BY <1>2, <3>1, SaveReturnsCopies
      <4> QED BY <4>1, NoCopies
    <3>2. CASE pc'[j] # "off"
      BY <1>2, <3>2, SaveReturnsCopies
    <3> QED BY <3>1, <3>2
  <2>4. jobDoc'[j].body.status \in {jobDoc[j].body.status, job[j].body.status}
    BY <1>4 DEF Written
  <2>5. pc'[j] = "findDone" => job[j].body.status = "SUCCESS"
    BY <1>2, SaveReturnsCopies
  <2>6. jenkins'[j] = jenkins[j]
    OBVIOUS
  <2>7. ~net'[j].body.deleting /\ ~net'[j].body.deleted
    BY <2>2 DEF ActiveNet
  <2> QED BY <2>1, <2>3, <2>4, <2>5, <2>6, <2>7 DEF OutcomeOK
<1>6. RevisionOK(j)'
  <2>1. jenkins[j] # "none"
    BY <1>2 DEF TypeInv, ControlOK, Saving
  <2>2. RevisionOK(j)
    BY DEF SafetyInv
  <2>3. pc[j] # "off"
    BY DEF Saving
  <2> QED BY <1>2, <1>4, <2>1, <2>2, <2>3, SaveReturnsCopies
          DEF RevisionOK, Written, Docs, Conflicts
<1>7. NeverDeletingAndDeleted' /\ DeletedIsDeprovisioned'
  BY DEF SafetyInv, NeverDeletingAndDeleted, DeletedIsDeprovisioned
<1> QED BY <1>1, <1>3, <1>5, <1>6, <1>7 DEF SafetyInv

(* ... and for the network document it may have written.                   *)
LEMMA NetReturnSafe ==
    ASSUME SafetyInv, NEW j \in Jobs, NEW saved \in BOOLEAN,
           pc[j] \in Saving, op[j] \in NetOps, SaveReturns(j, saved),
           \/ UNCHANGED netDoc
           \/ netDoc' = [netDoc EXCEPT ![ServiceOf(j)] = Written(@, net[j].body)],
           UNCHANGED <<jenkins, target, jobDoc, restarts>>
    PROVE  SafetyInv'
<1>1. TypeInv'
  BY NetReturnType DEF SafetyInv
<1>2. TypeInv /\ OutcomeOK(j) /\ RevisionOK(j)
  BY DEF SafetyInv
<1>3. ASSUME NEW i \in Jobs, i # j PROVE OutcomeOK(i)' /\ RevisionOK(i)'
  <2>1. pc'[i] = pc[i] /\ op'[i] = op[i] /\ job'[i] = job[i] /\ net'[i] = net[i]
    BY <1>2, <1>3, SaveReturnsCopies
  <2>2. OutcomeOK(i) /\ RevisionOK(i)
    BY DEF SafetyInv
  <2> QED BY <2>1, <2>2 DEF OutcomeOK, RevisionOK
<1>4. op[j] \notin {"new", "id"} /\ op'[j] = "none" /\ net'[j] = NoNet
  BY <1>2, SaveReturnsCopies DEF NetOps
<1>5. ASSUME pc'[j] = "off" PROVE OutcomeOK(j)' /\ RevisionOK(j)'
  <2>1. job'[j] = NoJob
    BY <1>2, <1>5, SaveReturnsCopies
  <2> QED BY <1>2, <1>4, <1>5, <2>1, NoCopies DEF OutcomeOK, RevisionOK
<1>6. ASSUME pc'[j] # "off" PROVE OutcomeOK(j)' /\ RevisionOK(j)'
  <2>1. /\ job'[j].body = job[j].body /\ job'[j].rev = job[j].rev
        /\ pc'[j] = "findDone" => job[j].body.status = "SUCCESS"
    BY <1>2, <1>4, <1>6, SaveReturnsCopies
  <2>2. pc[j] # "off" /\ op[j] # "new"
    BY DEF Saving, NetOps
  <2> QED BY <1>2, <1>4, <2>1, <2>2, NoCopies DEF OutcomeOK, RevisionOK
<1>7. NeverDeletingAndDeleted' /\ DeletedIsDeprovisioned'
  <2>1. CASE UNCHANGED netDoc
    BY <2>1 DEF SafetyInv, NeverDeletingAndDeleted, DeletedIsDeprovisioned
  <2>2. CASE netDoc' = [netDoc EXCEPT ![ServiceOf(j)] = Written(@, net[j].body)]
    <3>1. \A p \in PostJobs :
              netDoc'[p].body = IF p = ServiceOf(j) THEN net[j].body ELSE netDoc[p].body
      BY <1>2, <2>2 DEF TypeInv, TypeOK, Written
    <3>2. NeverDeletingAndDeleted'
      BY <1>2, <3>1 DEF SafetyInv, OutcomeOK, NeverDeletingAndDeleted
    <3>3. net[j].body.deleted =>
              j \in DeleteJobs /\ target[j] = ServiceOf(j) /\ jenkins[j] = "SUCCESS"
      BY <1>2 DEF OutcomeOK, ServiceOf
    <3>4. DeletedIsDeprovisioned'
      BY <3>1, <3>3 DEF SafetyInv, DeletedIsDeprovisioned
    <3> QED BY <3>2, <3>4
  <2> QED BY <2>1, <2>2
<1> QED BY <1>1, <1>3, <1>5, <1>6, <1>7 DEF SafetyInv

(* A step of one goroutine, or of its build, that writes no document of a  *)
(* network.                                                                *)
LEMMA StepOfOneJob ==
    ASSUME SafetyInv, TypeInv', NEW j \in Jobs, UNCHANGED netDoc,
           \A i \in Jobs \ {j} : /\ pc'[i] = pc[i] /\ op'[i] = op[i]
                                 /\ job'[i] = job[i] /\ net'[i] = net[i]
                                 /\ jobDoc'[i] = jobDoc[i] /\ jenkins'[i] = jenkins[i],
           \A d \in DeleteJobs : jenkins[d] = "SUCCESS" =>
               jenkins'[d] = "SUCCESS" /\ target'[d] = target[d],
           OutcomeOK(j)', RevisionOK(j)'
    PROVE  SafetyInv'
<1>1. ASSUME NEW i \in Jobs, i # j PROVE OutcomeOK(i)' /\ RevisionOK(i)'
  BY <1>1 DEF SafetyInv, OutcomeOK, RevisionOK
<1>2. NeverDeletingAndDeleted' /\ DeletedIsDeprovisioned'
  BY DEF SafetyInv, NeverDeletingAndDeleted, DeletedIsDeprovisioned
<1> QED BY <1>1, <1>2 DEF SafetyInv

LEMMA TriggerSafe ==
    ASSUME SafetyInv, NEW j \in Jobs, Trigger(j), TypeInv',
           \A d \in DeleteJobs : d # j => target'[d] = target[d]
    PROVE  SafetyInv'
<1>1. TypeInv /\ OutcomeOK(j) /\ RevisionOK(j) /\ jenkins[j] = "none"
  BY DEF SafetyInv, Trigger
<1>2. /\ jenkins'[j] = "queued" /\ pc'[j] = "put" /\ op'[j] = "new"
      /\ job'[j] = job[j] /\ net'[j] = net[j] /\ jobDoc'[j] = jobDoc[j]
  BY <1>1 DEF Trigger, Save, TypeInv, TypeOK
<1>3. OutcomeOK(j)'
  <2>1. jobDoc[j].body \in JobBodies /\ job[j].body \in JobBodies
    BY <1>1 DEF TypeInv, TypeOK, Docs
  <2>2. jobDoc[j].body.status = "" /\ job[j].body.status = ""
    BY <1>1, <2>1 DEF OutcomeOK, JobBodies
  <2>3. ~net[j].body.deleted
    BY <1>1 DEF OutcomeOK
  <2> QED BY <1>2, <2>2, <2>3 DEF OutcomeOK
<1>4. jobDoc[j].rev \in Nat
  BY <1>1 DEF TypeInv, TypeOK, Docs
<1>5. RevisionOK(j)'
  BY <1>1, <1>2, <1>4 DEF RevisionOK
<1> QED BY <1>1, <1>3, <1>5, StepOfOneJob DEF Trigger, Save, TypeInv, TypeOK, Jobs

LEMMA SafetyInvNext == SafetyInv /\ [Next]_vars => SafetyInv'
<1> SUFFICES ASSUME SafetyInv, [Next]_vars PROVE SafetyInv'
  OBVIOUS
<1>1. TypeInv /\ TypeInv'
  BY TypeInvNext DEF SafetyInv
<1>2. \A j \in Jobs : OutcomeOK(j) /\ RevisionOK(j)
  BY DEF SafetyInv
<1>3. ASSUME NEW p \in PostJobs, ServicePost(p) PROVE SafetyInv'
  BY <1>1, <1>3, TriggerSafe DEF ServicePost, Jobs
<1>4. ASSUME NEW d \in DeleteJobs, NEW p \in PostJobs, DeleteService(d, p)
      PROVE  SafetyInv'
  <2>1. \A e \in DeleteJobs : e # d => target'[e] = target[e]
    BY <1>1, <1>4 DEF DeleteService, TypeInv, TypeOK
  <2> QED BY <1>1, <1>4, <2>1, TriggerSafe DEF DeleteService, Jobs
<1>5. ASSUME NEW c \in CertsJobs, IbpCertsPost(c) PROVE SafetyInv'
  BY <1>1, <1>5, TriggerSafe DEF IbpCertsPost, Jobs
<1>6. ASSUME NEW c \in CertsJobs, CertsJobDelete(c) PROVE SafetyInv'
  <2>1. c \in Jobs
    BY DEF Jobs
  <2>2. jobDoc'[c] = Removed(jobDoc[c]) /\ jobDoc[c] \in Docs(JobBodies)
    BY <1>1, <1>6, <2>1 DEF CertsJobDelete, TypeInv, TypeOK
  <2>3. /\ jobDoc'[c].rev = jobDoc[c].rev + 1 /\ ~jobDoc'[c].live
        /\ jobDoc'[c].body = jobDoc[c].body
    BY <2>2 DEF Removed, Docs
  <2>4. OutcomeOK(c)'
    BY <1>2, <1>6, <2>1, <2>3 DEF CertsJobDelete, OutcomeOK
  <2>5. jobDoc[c].rev \in Nat /\ job[c].rev \in Nat
    BY <1>1, <2>1 DEF TypeInv, TypeOK, Docs
  <2>6. RevisionOK(c)'
    <3>1. jobDoc[c].live /\ jenkins'[c] = jenkins[c] /\ pc'[c] = pc[c]
          /\ op'[c] = op[c] /\ job'[c] = job[c]
      BY <1>6 DEF CertsJobDelete
    <3>2. jenkins[c] # "none"
      BY <1>1, <2>1, <3>1 DEF TypeInv, ControlOK
    <3>3. RevisionOK(c)
      BY <1>2, <2>1
    <3> QED BY <2>3, <2>5, <3>1, <3>2, <3>3 DEF RevisionOK
  <2> QED BY <1>1, <1>6, <2>1, <2>4, <2>6, StepOfOneJob
          DEF CertsJobDelete, TypeInv, TypeOK
<1>7. ASSUME NEW j \in Jobs, PutJob(j) PROVE SafetyInv'
  <2>1. CASE pc' = [pc EXCEPT ![j] = "get"] /\ UNCHANGED <<jobDoc, op, job, net>>
    <3>1. pc'[j] = "get" /\ pc[j] # "off" /\ \A i \in Jobs \ {j} : pc'[i] = pc[i]
      BY <1>1, <1>7, <2>1 DEF PutJob, At, TypeInv, TypeOK
    <3>2. OutcomeOK(j)' /\ RevisionOK(j)'
      BY <1>2, <1>7, <2>1, <3>1 DEF PutJob, OutcomeOK, RevisionOK
    <3> QED BY <1>1, <1>7, <2>1, <3>1, <3>2, StepOfOneJob DEF PutJob
  <2> QED BY <1>7, <2>1, JobReturnSafe DEF PutJob, At, JobSaved, JobNotSaved, Saving
<1>8. ASSUME NEW j \in Jobs, GetJob(j) PROVE SafetyInv'
  <2>1. CASE /\ jobDoc[j].live
             /\ pc' = [pc EXCEPT ![j] = "reput"]
             /\ job' = [job EXCEPT ![j].rev = jobDoc[j].rev]
             /\ UNCHANGED <<jobDoc, op, net>>
    <3>1. /\ pc'[j] = "reput" /\ pc[j] # "off"
          /\ job'[j].rev = jobDoc[j].rev /\ job'[j].body = job[j].body
          /\ \A i \in Jobs \ {j} : pc'[i] = pc[i] /\ job'[i] = job[i]
      BY <1>1, <1>8, <2>1 DEF GetJob, At, TypeInv, TypeOK
    <3>2. jobDoc[j].rev \in Nat
      BY <1>1 DEF TypeInv, TypeOK, Docs
    <3>3. OutcomeOK(j)'
      BY <1>2, <1>8, <2>1, <3>1 DEF GetJob, OutcomeOK
    <3>4. RevisionOK(j)'
      <4>1. jenkins'[j] = jenkins[j] /\ jobDoc'[j] = jobDoc[j] /\ op'[j] = op[j]
        BY <1>8, <2>1 DEF GetJob
      <4>2. RevisionOK(j)
        BY <1>2
      <4> QED BY <2>1, <3>1, <3>2, <4>1, <4>2 DEF RevisionOK
    <3> QED BY <1>1, <1>8, <2>1, <3>1, <3>3, <3>4, StepOfOneJob DEF GetJob
  <2> QED BY <1>8, <2>1, JobReturnSafe DEF GetJob, At, JobNotSaved, Saving
<1>9. ASSUME NEW j \in Jobs, ReputJob(j) PROVE SafetyInv'
  BY <1>9, JobReturnSafe DEF ReputJob, At, JobSaved, JobNotSaved, Saving
<1>10. ASSUME NEW j \in Jobs, PutNet(j) PROVE SafetyInv'
  <2>1. CASE pc' = [pc EXCEPT ![j] = "get"] /\ UNCHANGED <<netDoc, op, job, net>>
    <3>1. pc'[j] = "get" /\ pc[j] # "off" /\ \A i \in Jobs \ {j} : pc'[i] = pc[i]
      BY <1>1, <1>10, <2>1 DEF PutNet, At, TypeInv, TypeOK
    <3>2. OutcomeOK(j)' /\ RevisionOK(j)'
      BY <1>2, <1>10, <2>1, <3>1 DEF PutNet, OutcomeOK, RevisionOK
    <3> QED BY <1>1, <1>10, <2>1, <3>1, <3>2, StepOfOneJob DEF PutNet
  <2> QED BY <1>10, <2>1, NetReturnSafe DEF PutNet, At, NetSaved, NetNotSaved, Saving
<1>11. ASSUME NEW j \in Jobs, GetNet(j) PROVE SafetyInv'
  <2>1. CASE /\ pc' = [pc EXCEPT ![j] = "reput"]
             /\ net' = [net EXCEPT ![j].rev = netDoc[ServiceOf(j)].rev]
             /\ UNCHANGED <<netDoc, op, job>>
    <3>1. /\ pc'[j] = "reput" /\ pc[j] # "off" /\ net'[j].body = net[j].body
          /\ \A i \in Jobs \ {j} : pc'[i] = pc[i] /\ net'[i] = net[i]
      BY <1>1, <1>11, <2>1 DEF GetNet, At, TypeInv, TypeOK
    <3>2. OutcomeOK(j)' /\ RevisionOK(j)'
      BY <1>2, <1>11, <2>1, <3>1 DEF GetNet, OutcomeOK, RevisionOK
    <3> QED BY <1>1, <1>11, <2>1, <3>1, <3>2, StepOfOneJob DEF GetNet
  <2> QED BY <1>11, <2>1, NetReturnSafe DEF GetNet, At, NetNotSaved, Saving
<1>12. ASSUME NEW j \in Jobs, ReputNet(j) PROVE SafetyInv'
  BY <1>12, NetReturnSafe DEF ReputNet, At, NetSaved, NetNotSaved, Saving
<1>13. ASSUME NEW j \in Jobs, PollInProgress(j) PROVE SafetyInv'
  <2>1. job[j] \in JobCopies
    BY <1>1 DEF TypeInv, TypeOK, JobCopies
  <2>2. /\ pc[j] = "poll" /\ pc'[j] = "put" /\ op'[j] = "id" /\ op[j] # "new"
        /\ job'[j] = [job[j] EXCEPT !.body.jobId = TRUE]
        /\ \A i \in Jobs \ {j} : pc'[i] = pc[i] /\ op'[i] = op[i] /\ job'[i] = job[i]
    <3>1. pc[j] = "poll" /\ op[j] # "new"
      BY <1>1, <1>13 DEF PollInProgress, At, TypeInv, ControlOK, Saving
    <3> QED BY <1>1, <1>13, <3>1 DEF PollInProgress, Save, TypeInv, TypeOK
  <2>3. job'[j].rev = job[j].rev /\ job'[j].body.status = job[j].body.status
    BY <2>1, <2>2, CopyFields
  <2>4. OutcomeOK(j)' /\ RevisionOK(j)'
    BY <1>2, <1>13, <2>2, <2>3 DEF PollInProgress, OutcomeOK, RevisionOK
  <2> QED BY <1>1, <1>13, <2>2, <2>4, StepOfOneJob DEF PollInProgress
<1>14. ASSUME NEW j \in Jobs, Exit(j),
              UNCHANGED <<jenkins, target, jobDoc, netDoc, restarts>>
       PROVE  SafetyInv'
  <2>1. /\ pc'[j] = "off" /\ op'[j] = "none" /\ job'[j] = NoJob /\ net'[j] = NoNet
        /\ \A i \in Jobs \ {j} : /\ pc'[i] = pc[i] /\ op'[i] = op[i]
                                 /\ job'[i] = job[i] /\ net'[i] = net[i]
    BY <1>1, <1>14 DEF Exit, Goto, TypeInv, TypeOK
  <2>2. OutcomeOK(j)' /\ RevisionOK(j)'
    BY <1>2, <1>14, <2>1, NoCopies DEF OutcomeOK, RevisionOK
  <2> QED BY <1>1, <1>14, <2>1, <2>2, StepOfOneJob
<1>15. ASSUME NEW j \in Jobs, PollError(j) PROVE SafetyInv'
  BY <1>14, <1>15 DEF PollError
<1>16. ASSUME NEW j \in Jobs, PollEnded(j) PROVE SafetyInv'
  <2>1. job[j] \in JobCopies
    BY <1>1 DEF TypeInv, TypeOK, JobCopies
  <2>2. /\ pc[j] = "poll" /\ pc'[j] = "put" /\ op'[j] = "status" /\ op[j] # "new"
        /\ job'[j] = [job[j] EXCEPT !.body.status = jenkins[j], !.body.jobId = TRUE]
        /\ \A i \in Jobs \ {j} : pc'[i] = pc[i] /\ op'[i] = op[i] /\ job'[i] = job[i]
    <3>1. pc[j] = "poll" /\ op[j] # "new"
      BY <1>1, <1>16 DEF PollEnded, At, TypeInv, ControlOK, Saving
    <3> QED BY <1>1, <1>16, <3>1 DEF PollEnded, Save, TypeInv, TypeOK
  <2>3. job'[j].rev = job[j].rev /\ job'[j].body.status = jenkins[j]
    <3> DEFINE copy(st) == [job[j] EXCEPT !.body.status = st, !.body.jobId = TRUE]
    <3>1. \A st : copy(st).rev = job[j].rev /\ copy(st).body.status = st
      BY <2>1, CopyFields
    <3>2. job'[j] = copy(jenkins[j])
      BY <2>2
    <3> HIDE DEF copy
    <3> QED BY <3>1, <3>2
  <2>4. OutcomeOK(j)' /\ RevisionOK(j)'
    BY <1>2, <1>16, <2>2, <2>3 DEF PollEnded, OutcomeOK, RevisionOK
  <2> QED BY <1>1, <1>16, <2>2, <2>4, StepOfOneJob DEF PollEnded
<1>17. ASSUME NEW j \in Jobs, ServeTar(j) PROVE SafetyInv'
  <2>1. pc[j] = "serve" /\ op[j] # "new" /\ job[j] \in JobCopies
    BY <1>1, <1>17 DEF ServeTar, At, TypeInv, TypeOK, ControlOK, Saving, JobCopies
  <2>2. CASE Exit(j)
    BY <1>14, <1>17, <2>2 DEF ServeTar
  <2>3. CASE net' = [net EXCEPT ![j] = NoNet] /\ Save(j, "create") /\ UNCHANGED job
    <3>1. /\ pc'[j] = "put" /\ op'[j] = "create" /\ net'[j] = NoNet
          /\ \A i \in Jobs \ {j} : pc'[i] = pc[i] /\ op'[i] = op[i] /\ net'[i] = net[i]
      BY <1>1, <2>3 DEF Save, TypeInv, TypeOK
    <3>2. OutcomeOK(j)' /\ RevisionOK(j)'
      BY <1>2, <1>17, <2>1, <2>3, <3>1, NoCopies DEF ServeTar, OutcomeOK, RevisionOK
    <3> QED BY <1>1, <1>17, <2>3, <3>1, <3>2, StepOfOneJob DEF ServeTar
  <2>4. CASE job' = [job EXCEPT ![j].body.env = TRUE] /\ Save(j, "env") /\ UNCHANGED net
    <3>1. /\ pc'[j] = "put" /\ op'[j] = "env"
          /\ job'[j] = [job[j] EXCEPT !.body.env = TRUE]
          /\ \A i \in Jobs \ {j} : pc'[i] = pc[i] /\ op'[i] = op[i] /\ job'[i] = job[i]
      BY <1>1, <2>4 DEF Save, TypeInv, TypeOK
    <3>2. job'[j].rev = job[j].rev /\ job'[j].body.status = job[j].body.status
      BY <2>1, <3>1, CopyFields
    <3>3. OutcomeOK(j)' /\ RevisionOK(j)'
      BY <1>2, <1>17, <2>1, <2>4, <3>1, <3>2 DEF ServeTar, OutcomeOK, RevisionOK
    <3> QED BY <1>1, <1>17, <2>4, <3>1, <3>3, StepOfOneJob DEF ServeTar
  <2> QED BY <1>17, <2>2, <2>3, <2>4 DEF ServeTar
<1>18. ASSUME NEW j \in DeleteJobs, FindMark(j) PROVE SafetyInv'
  <2>1. j \in Jobs /\ pc[j] = "findMark" /\ op[j] # "new"
    BY <1>1, <1>18 DEF FindMark, At, TypeInv, ControlOK, Saving, Jobs
  <2>2. CASE Goto(j, "poll") /\ UNCHANGED <<job, net>>
    <3>1. /\ pc'[j] = "poll" /\ op'[j] = "none"
          /\ \A i \in Jobs \ {j} : pc'[i] = pc[i] /\ op'[i] = op[i]
      BY <1>1, <2>1, <2>2 DEF Goto, TypeInv, TypeOK
    <3>2. OutcomeOK(j)' /\ RevisionOK(j)'
      BY <1>2, <1>18, <2>1, <2>2, <3>1 DEF FindMark, OutcomeOK, RevisionOK
    <3> QED BY <1>1, <1>18, <2>1, <2>2, <3>1, <3>2, StepOfOneJob DEF FindMark
  <2>3. CASE /\ ~netDoc[target[j]].body.deleted
             /\ net' = [net EXCEPT ![j] = [rev |-> netDoc[target[j]].rev,
                            body |-> [netDoc[target[j]].body EXCEPT !.deleting = TRUE]]]
             /\ Save(j, "mark") /\ UNCHANGED job
    <3>1. target[j] \in PostJobs /\ netDoc[target[j]].body \in NetBodies
      BY <1>1, <1>18, <2>1 DEF FindMark, At, TypeInv, TypeOK, ControlOK, Docs
    <3>2. /\ pc'[j] = "put" /\ op'[j] = "mark"
          /\ net'[j].body = [netDoc[target[j]].body EXCEPT !.deleting = TRUE]
          /\ \A i \in Jobs \ {j} : pc'[i] = pc[i] /\ op'[i] = op[i] /\ net'[i] = net[i]
      BY <1>1, <2>1, <2>3 DEF Save, TypeInv, TypeOK
    <3>3. ~net'[j].body.deleted
      BY <2>3, <3>1, <3>2 DEF NetBodies
    <3>4. OutcomeOK(j)' /\ RevisionOK(j)'
      BY <1>2, <1>18, <2>1, <2>3, <3>2, <3>3 DEF FindMark, OutcomeOK, RevisionOK
    <3> QED BY <1>1, <1>18, <2>1, <2>3, <3>2, <3>4, StepOfOneJob DEF FindMark
  <2> QED BY <1>18, <2>2, <2>3 DEF FindMark
<1>19. ASSUME NEW j \in DeleteJobs, FindDone(j) PROVE SafetyInv'
  <2>1. j \in Jobs /\ pc[j] = "findDone" /\ op[j] # "new"
    BY <1>1, <1>19 DEF FindDone, At, TypeInv, ControlOK, Saving, Jobs
  <2>2. CASE Exit(j)
    BY <1>14, <1>19, <2>1, <2>2 DEF FindDone
  <2>3. CASE /\ net' = [net EXCEPT ![j] = [rev |-> netDoc[target[j]].rev,
                            body |-> [deleting |-> FALSE, deleted |-> TRUE]]]
             /\ Save(j, "done") /\ UNCHANGED job
    <3>1. /\ pc'[j] = "put" /\ op'[j] = "done"
          /\ net'[j].body = [deleting |-> FALSE, deleted |-> TRUE]
          /\ \A i \in Jobs \ {j} : pc'[i] = pc[i] /\ op'[i] = op[i] /\ net'[i] = net[i]
      BY <1>1, <2>1, <2>3 DEF Save, TypeInv, TypeOK
    <3>2. ~net'[j].body.deleting
      BY <3>1
    <3>3. OutcomeOK(j)' /\ RevisionOK(j)'
      BY <1>2, <1>19, <2>1, <2>3, <3>1, <3>2 DEF FindDone, OutcomeOK, RevisionOK
    <3> QED BY <1>1, <1>19, <2>1, <2>3, <3>1, <3>3, StepOfOneJob DEF FindDone
  <2> QED BY <1>19, <2>2, <2>3 DEF FindDone
<1>20. ASSUME NEW j \in Jobs, Jenkins(j) PROVE SafetyInv'
  <2>1. /\ jenkins[j] \in {"queued", "running"} /\ jenkins'[j] # "none"
        /\ \A i \in Jobs \ {j} : jenkins'[i] = jenkins[i]
    BY <1>1, <1>20 DEF Jenkins, Schedule, Build, TypeInv, TypeOK
  <2>2. jobDoc[j].body.status = "" /\ job[j].body.status = "" /\ pc[j] # "findDone"
    <3>1. /\ jobDoc[j].body.status \in {"", "SUCCESS", "FAIL"}
          /\ job[j].body.status \in {"", "SUCCESS", "FAIL"}
      BY <1>1 DEF TypeInv, TypeOK, Docs, JobBodies
    <3>2. OutcomeOK(j)
      BY <1>2
    <3> QED BY <2>1, <3>1, <3>2 DEF OutcomeOK
  <2>3. OutcomeOK(j)' /\ RevisionOK(j)'
    BY <1>2, <1>20, <2>1, <2>2 DEF Jenkins, Schedule, Build, OutcomeOK, RevisionOK
  <2>4. UNCHANGED <<target, jobDoc, netDoc, pc, op, job, net>>
    BY <1>20 DEF Jenkins, Schedule, Build
  <2>5. \A d \in DeleteJobs : jenkins[d] = "SUCCESS" => jenkins'[d] = "SUCCESS"
    BY <2>1 DEF Jobs
  <2> QED BY <1>1, <2>1, <2>3, <2>4, <2>5, StepOfOneJob
<1>21. ASSUME Restart PROVE SafetyInv'
  <2>1. PICK rows \in {PendingJobs} \cup {{}} :
            /\ pc' = [j \in Jobs |-> IF j \in rows THEN "poll" ELSE "off"]
            /\ job' = [j \in Jobs |-> IF j \in rows
                                      THEN [rev |-> jobDoc[j].rev, body |-> jobDoc[j].body]
                                      ELSE NoJob]
    BY <1>21 DEF Restart
  <2>2. UNCHANGED <<jenkins, target, jobDoc, netDoc>>
        /\ \A j \in Jobs : op'[j] = "none" /\ net'[j] = NoNet
    BY <1>21 DEF Restart
  <2>3. ASSUME NEW j \in Jobs, j \in rows PROVE OutcomeOK(j)' /\ RevisionOK(j)'
    <3>1. jobDoc[j].live /\ jobDoc[j].rev \in Nat
      BY <1>1, <2>1, <2>3 DEF PendingJobs, TypeInv, TypeOK, Docs
    <3>2. pc'[j] = "poll" /\ job'[j].rev = jobDoc[j].rev /\ job'[j].body = jobDoc[j].body
      BY <2>1, <2>3
    <3>3. OutcomeOK(j) /\ RevisionOK(j)
      BY <1>2
    <3>4. OutcomeOK(j)'
      BY <2>2, <3>2, <3>3, NoCopies DEF OutcomeOK
    <3>5. RevisionOK(j)'
      BY <2>2, <3>1, <3>2, <3>3 DEF RevisionOK
    <3> QED BY <3>4, <3>5
  <2>4. ASSUME NEW j \in Jobs, j \notin rows PROVE OutcomeOK(j)' /\ RevisionOK(j)'
    <3>1. pc'[j] = "off" /\ job'[j] = NoJob
      BY <2>1, <2>4
    <3> QED BY <1>2, <2>2, <3>1, NoCopies DEF OutcomeOK, RevisionOK
  <2>5. NeverDeletingAndDeleted' /\ DeletedIsDeprovisioned'
    BY <2>2 DEF SafetyInv, NeverDeletingAndDeleted, DeletedIsDeprovisioned
  <2> QED BY <1>1, <2>3, <2>4, <2>5 DEF SafetyInv
<1>22. ASSUME UNCHANGED vars PROVE SafetyInv'
  BY <1>1, <1>22 DEF vars, SafetyInv, OutcomeOK, RevisionOK, NeverDeletingAndDeleted,
                     DeletedIsDeprovisioned
<1> QED
  BY <1>3, <1>4, <1>5, <1>6, <1>7, <1>8, <1>9, <1>10, <1>11, <1>12, <1>13, <1>15,
     <1>16, <1>17, <1>18, <1>19, <1>20, <1>21, <1>22 DEF Next, Routine

(* No network is ever marked as deleting and as deleted.                   *)
THEOREM NeverBothMarks == Spec => []NeverDeletingAndDeleted
<1>1. SafetyInv => NeverDeletingAndDeleted
  BY DEF SafetyInv
<1> QED BY <1>1, SafetyInvInit, SafetyInvNext, PTL DEF Spec

(* A network marked as deleted has been deleted by a successful build.     *)
THEOREM DeletedByBuild == Spec => []DeletedIsDeprovisioned
<1>1. SafetyInv => DeletedIsDeprovisioned
  BY DEF SafetyInv
<1> QED BY <1>1, SafetyInvInit, SafetyInvNext, PTL DEF Spec

(* A recorded status is the build's outcome.                               *)
THEOREM RecordedOutcome == Spec => []StatusIsOutcome
<1>1. SafetyInv => StatusIsOutcome
  BY DEF SafetyInv, OutcomeOK, StatusIsOutcome
<1> QED BY <1>1, SafetyInvInit, SafetyInvNext, PTL DEF Spec

(* No goroutine can bring back a job document that was deleted: it would   *)
(* have to hold the tombstone's revision, and it holds an older one.       *)
THEOREM NoResurrection == Spec => RemovedStaysRemoved
<1> DEFINE Removals ==
        \A j \in Jobs : jobDoc[j].rev > 0 /\ ~jobDoc[j].live => ~jobDoc'[j].live
<1>1. SafetyInv /\ [Next]_vars => [Removals]_vars
  <2> SUFFICES ASSUME SafetyInv, [Next]_vars,
                      NEW j \in Jobs, jobDoc[j].rev > 0, ~jobDoc[j].live
               PROVE  ~jobDoc'[j].live
    OBVIOUS
  <2>1. TypeInv /\ RevisionOK(j) /\ jobDoc[j].rev \in Nat /\ jobDoc[j] \in Docs(JobBodies)
    BY DEF SafetyInv, TypeInv, TypeOK, Docs
  <2>2. ASSUME NEW i \in Jobs, pc[i] \in Saving, ~Conflicts(jobDoc[i], job[i].rev), JobSaved(i)
        PROVE  ~jobDoc'[j].live
    <3>1. i # j
      <4>1. ASSUME i = j PROVE FALSE
        BY <2>1, <2>2, <4>1 DEF RevisionOK, Conflicts, Saving
      <4> QED BY <4>1
    <3> QED BY <2>1, <2>2, <3>1 DEF JobSaved, TypeInv, TypeOK
  <2>3. ASSUME NEW c \in CertsJobs, CertsJobDelete(c) PROVE ~jobDoc'[j].live
    BY <2>1, <2>3 DEF CertsJobDelete, Removed, TypeInv, TypeOK, Docs
  <2>4. ASSUME NEW i \in Jobs, Routine(i), ~UNCHANGED jobDoc
        PROVE  /\ pc[i] \in Saving /\ ~Conflicts(jobDoc[i], job[i].rev) /\ JobSaved(i)
    BY <2>4
    DEF Routine, PutJob, GetJob, ReputJob, PutNet, GetNet, ReputNet, PollInProgress,
        PollError, PollEnded, ServeTar, FindMark, FindDone, At, JobNotSaved, Saving
  <2> QED BY <2>2, <2>3, <2>4 DEF Next, vars, ServicePost, DeleteService, IbpCertsPost,
                                  Trigger, Jenkins, Schedule, Build, Restart
<1> QED BY <1>1, SafetyInvInit, SafetyInvNext, PTL DEF Spec, RemovedStaysRemoved
=============================================================================
