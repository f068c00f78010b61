---------------------- MODULE JobTrackerCatalogProofs ----------------------
(***************************************************************************)
(* JobTracker implements ServiceCatalog, for every set of jobs and number  *)
(* of restarts, as long as no CouchDB request fails.  (When the save of an *)
(* outcome fails the goroutine goes on and lists or deletes the network of *)
(* a job that is still on record as pending.)                              *)
(***************************************************************************)
EXTENDS JobTrackerProofs

(* What a goroutine knows of its job document unless a user has removed    *)
(* it: before the outcome is saved the goroutine is its only writer and    *)
(* holds its revision, and afterwards the document says SUCCESS.           *)
Following(j) == pc[j] \in {"findMark", "poll"} \/ op[j] \in {"id", "status", "mark"}

Finishing(j) == pc[j] \in {"serve", "findDone"} \/ op[j] \in {"env", "create", "done"}

RecordOK(j) ==
    /\ jobDoc[j].rev = 0 => jobDoc[j].body.status = ""
    /\ jobDoc[j].rev > 0 /\ j \notin CertsJobs => jobDoc[j].live
    /\ pc[j] = "off" \/ op[j] = "new" => job[j] = NoJob
    /\ Following(j) =>
           /\ jobDoc[j].body.status = ""
           /\ jobDoc[j].live => job[j].rev = jobDoc[j].rev
           /\ op[j] # "status" <=> job[j].body.status = ""
    /\ Finishing(j) =>
           /\ jobDoc[j].live => jobDoc[j].body.status = "SUCCESS"
           /\ job[j].body.status = "SUCCESS"

(* A network document exists only after the goroutine of its creation job  *)
(* has stored it, and only the goroutines of deletions write it again.     *)
ListingOK(j) ==
    /\ op[j] \in {"mark", "done"} =>
           netDoc[target[j]].live /\ net[j].body # ActiveNet
    /\ op[j] = "create" => net[j].body = ActiveNet
    /\ j \in PostJobs /\ (jobDoc[j].body.status = "" \/ pc[j] = "serve" \/ op[j] = "create")
           => ~netDoc[j].live

CatalogInv == SafetyInv /\ \A j \in Jobs : RecordOK(j) /\ ListingOK(j)

LEMMA CatalogInvInit == Init => CatalogInv
<1> SUFFICES ASSUME Init PROVE CatalogInv
  OBVIOUS
<1>1. \A j \in Jobs : RecordOK(j)
  <2> TAKE j \in Jobs
  <2>1. /\ pc[j] = "off" /\ op[j] = "none" /\ job[j] = NoJob
        /\ jobDoc[j] = NeverWritten(NewJob)
    BY DEF Init
  <2>2. NeverWritten(NewJob).rev = 0 /\ NeverWritten(NewJob).body.status = ""
    BY DEF NeverWritten, NewJob
  <2>3. ~Following(j) /\ ~Finishing(j)
    BY <2>1 DEF Following, Finishing
  <2>4. jobDoc[j].rev = 0 /\ jobDoc[j].body.status = ""
    BY <2>1, <2>2
  <2>5. ~(jobDoc[j].rev > 0)
    <3>1. ~(0 > 0)
      OBVIOUS
    <3> QED BY <2>4, <3>1, Zenon
  <2> QED BY <2>1, <2>3, <2>4, <2>5, Zenon DEF RecordOK
<1>2. \A j \in Jobs : ListingOK(j)
  BY DEF Init, ListingOK, NeverWritten, Jobs
<1> QED BY <1>1, <1>2, SafetyInvInit DEF CatalogInv

(* A step leaves job i and its goroutine alone.                            *)
Untouched(i) ==
    /\ pc'[i] = pc[i] /\ op'[i] = op[i] /\ job'[i] = job[i] /\ net'[i] = net[i]
    /\ jobDoc'[i] = jobDoc[i]
    /\ i \in DeleteJobs => target'[i] = target[i]

LEMMA UntouchedJob ==
    ASSUME CatalogInv, NEW i \in Jobs, Untouched(i),
           \A p \in PostJobs : netDoc[p].live => netDoc'[p].live,
           i \in PostJobs => netDoc'[i].live = netDoc[i].live
    PROVE  RecordOK(i)' /\ ListingOK(i)'
<1>1. RecordOK(i) /\ ListingOK(i)
  BY DEF CatalogInv
<1>2. RecordOK(i)'
  BY <1>1 DEF Untouched, RecordOK, Following, Finishing
<1>3. op[i] \in {"mark", "done"} => i \in DeleteJobs /\ target[i] \in PostJobs
  BY DEF CatalogInv, SafetyInv, TypeInv, ControlOK, Saving
<1>4. ListingOK(i)'
  BY <1>1, <1>3 DEF Untouched, ListingOK
<1> QED BY <1>2, <1>4

(* A step of one goroutine that writes no network document.                *)
LEMMA CatalogStepOfOneJob ==
    ASSUME CatalogInv, SafetyInv', NEW j \in Jobs, UNCHANGED netDoc,
           \A i \in Jobs \ {j} : Untouched(i),
           RecordOK(j)', ListingOK(j)'
    PROVE  CatalogInv'
<1>1. \A i \in Jobs \ {j} : RecordOK(i)' /\ ListingOK(i)'
  BY UntouchedJob
<1> QED BY <1>1 DEF CatalogInv

(* Where a ForceSave call returns to.                                      *)
LEMMA ReturnLabels ==
    ASSUME TypeInv, NEW j \in Jobs, NEW saved \in BOOLEAN,
           pc[j] \in Saving, SaveReturns(j, saved)
    PROVE  /\ pc'[j] \in {"findMark", "poll"} => op[j] \in {"new", "id", "mark"}
           /\ pc'[j] \in {"serve", "findDone"} =>
                  op[j] = "status" /\ job[j].body.status = "SUCCESS"
<1>1. pc'[j] = NextLabel(j, saved)
  BY DEF SaveReturns, Goto, TypeInv, TypeOK
<1> QED BY <1>1 DEF NextLabel

LEMMA JobReturnCatalog ==
    ASSUME CatalogInv, SafetyInv', NEW j \in Jobs, NEW saved \in BOOLEAN,
           pc[j] \in Saving, op[j] \in JobOps, SaveReturns(j, saved),
           \/ /\ ~saved /\ UNCHANGED jobDoc
              /\ ~jobDoc[j].live \/ Conflicts(jobDoc[j], job[j].rev)
           \/ /\ saved /\ ~Conflicts(jobDoc[j], job[j].rev)
              /\ jobDoc' = [jobDoc EXCEPT ![j] = Written(@, job[j].body)],
           UNCHANGED <<jenkins, target, netDoc, restarts>>
    PROVE  CatalogInv'
<1>1. TypeInv /\ RecordOK(j) /\ ListingOK(j) /\ RevisionOK(j) /\ pc[j] # "off"
  BY DEF CatalogInv, SafetyInv, Saving
<1>2. jobDoc[j].rev \in Nat /\ job[j].rev \in Nat
  BY <1>1 DEF TypeInv, TypeOK, Docs
<1>3. \/ /\ ~saved /\ jobDoc'[j] = jobDoc[j]
         /\ ~jobDoc[j].live \/ Conflicts(jobDoc[j], job[j].rev)
      \/ /\ saved /\ ~Conflicts(jobDoc[j], job[j].rev)
         /\ jobDoc'[j] = Written(jobDoc[j], job[j].body)
  BY <1>1 DEF TypeInv, TypeOK
<1>4. \A i \in Jobs \ {j} : Untouched(i)
  BY <1>1, SaveReturnsCopies DEF Untouched, TypeInv, TypeOK
<1>5. op'[j] = "none" /\ net'[j] = NoNet /\ (pc'[j] = "off" => job'[j] = NoJob)
  BY <1>1, SaveReturnsCopies
<1>6. CASE ~saved
  <2>1. op[j] \in {"new", "env"} \/ (op[j] \in {"id", "status"} /\ ~jobDoc[j].live)
    BY <1>1, <1>3, <1>6 DEF RecordOK, Following, JobOps, Conflicts
  <2>2. jobDoc'[j] = jobDoc[j]
    BY <1>3, <1>6
  <2>3. CASE op[j] \in {"new", "env"}
    <3>1. pc'[j] = "off"
      BY <1>1, <1>6, <2>3 DEF SaveReturns, Goto, NextLabel, TypeInv, TypeOK
    <3>2. RecordOK(j)' /\ ListingOK(j)'
      BY <1>1, <1>5, <2>2, <3>1 DEF RecordOK, ListingOK, Following, Finishing
    <3> QED BY <1>4, <3>2, CatalogStepOfOneJob
  <2>4. CASE op[j] \in {"id", "status"} /\ ~jobDoc[j].live
    <3>1. /\ jobDoc[j].rev > 0 /\ j \in CertsJobs /\ j \notin PostJobs
          /\ jobDoc[j].body.status = "" /\ (op[j] = "id" => job[j].body.status = "")
      <4>1. jobDoc[j].rev > 0
        BY <1>1, <1>2, <2>4 DEF RevisionOK
      <4>2. j \in CertsJobs /\ j \notin PostJobs
        BY <1>1, <2>4, <4>1, JobTrackerAssumption DEF RecordOK
      <4>3. jobDoc[j].body.status = "" /\ (op[j] = "id" => job[j].body.status = "")
        BY <1>1, <2>4 DEF RecordOK, Following
      <4> QED BY <4>1, <4>2, <4>3
    <3>2. /\ pc'[j] # "off" => job'[j].body = job[j].body
          /\ pc'[j] \in {"off", "poll", "findMark", "serve", "findDone"}
          /\ pc'[j] \in {"findMark", "poll"} => op[j] = "id"
          /\ pc'[j] \in {"serve", "findDone"} => job[j].body.status = "SUCCESS"
      BY <1>1, <2>4, SaveReturnsCopies, SaveReturnsType, ReturnLabels
    <3>3. RecordOK(j)'
      BY <1>5, <2>2, <2>4, <3>1, <3>2 DEF RecordOK, Following, Finishing
    <3>4. ListingOK(j)'
      BY <1>5, <3>1 DEF ListingOK
    <3> QED BY <1>4, <3>3, <3>4, CatalogStepOfOneJob
  <2> QED BY <2>1, <2>3, <2>4
<1>7. CASE saved
  <2>1. /\ jobDoc'[j].live /\ jobDoc'[j].rev = jobDoc[j].rev + 1
        /\ jobDoc'[j].body.status = job[j].body.status
    BY <1>3, <1>7 DEF Written
  <2>2. pc'[j] # "off" => /\ job'[j].body = job[j].body
                          /\ op[j] \in {"new", "id"} => job'[j].rev = jobDoc[j].rev + 1
    BY <1>1, <1>7, SaveReturnsCopies
  <2>3. /\ pc'[j] \in {"findMark", "poll"} => op[j] \in {"new", "id"}
        /\ pc'[j] \in {"serve", "findDone"} =>
               op[j] = "status" /\ job[j].body.status = "SUCCESS"
    BY <1>1, ReturnLabels DEF JobOps
  <2>4. op[j] \in {"new", "id"} => job[j].body.status = ""
    BY <1>1, NoCopies DEF RecordOK, Following
  <2>5. RecordOK(j)'
    <3>1. jobDoc'[j].rev > 0
      BY <1>2, <2>1
    <3>2. ASSUME Following(j)'
          PROVE  /\ jobDoc'[j].body.status = "" /\ job'[j].rev = jobDoc'[j].rev
                 /\ job'[j].body.status = "" /\ op'[j] # "status"
      <4>1. op[j] \in {"new", "id"} /\ pc'[j] # "off"
        BY <1>5, <2>3, <3>2 DEF Following
      <4> QED BY <1>5, <2>1, <2>2, <2>4, <4>1
    <3>3. ASSUME Finishing(j)'
          PROVE  jobDoc'[j].body.status = "SUCCESS" /\ job'[j].body.status = "SUCCESS"
      <4>1. pc'[j] # "off" /\ op[j] = "status" /\ job[j].body.status = "SUCCESS"
        BY <1>5, <2>3, <3>3 DEF Finishing
      <4> QED BY <2>1, <2>2, <4>1
    <3>4. jobDoc'[j].rev # 0 /\ jobDoc'[j].live
      BY <2>1, <3>1
    <3>5. pc'[j] = "off" \/ op'[j] = "new" => job'[j] = NoJob
      BY <1>5
    <3> QED BY <3>1, <3>2, <3>3, <3>4, <3>5, Zenon DEF RecordOK
  <2>6. j \in PostJobs /\ (op[j] \in {"new", "id", "status"} \/ jobDoc[j].body.status = "")
            => ~netDoc[j].live
    BY <1>1 DEF RecordOK, RevisionOK, ListingOK, Following
  <2>7. op[j] = "env" => job[j].body.status = "SUCCESS"
    BY <1>1 DEF RecordOK, Finishing
  <2>8. ListingOK(j)'
    BY <1>5, <2>1, <2>3, <2>6, <2>7 DEF ListingOK, JobOps
  <2> QED BY <1>4, <2>5, <2>8, CatalogStepOfOneJob
<1> QED BY <1>6, <1>7

LEMMA NetReturnCatalog ==
    ASSUME CatalogInv, SafetyInv', NEW j \in Jobs, NEW saved \in BOOLEAN,
           pc[j] \in Saving, op[j] \in NetOps, SaveReturns(j, saved),
           \/ UNCHANGED netDoc
           \/ netDoc' = [netDoc EXCEPT ![ServiceOf(j)] = Written(@, net[j].body)],
           UNCHANGED <<jenkins, target, jobDoc, restarts>>
    PROVE  CatalogInv'
<1>1. TypeInv /\ RecordOK(j) /\ ListingOK(j) /\ pc[j] # "off"
  BY DEF CatalogInv, SafetyInv, Saving
<1>2. /\ op'[j] = "none" /\ net'[j] = NoNet /\ (pc'[j] = "off" => job'[j] = NoJob)
      /\ pc'[j] # "off" => job'[j].body = job[j].body /\ job'[j].rev = job[j].rev
  BY <1>1, SaveReturnsCopies DEF NetOps
<1>3. pc'[j] \in {"off", "poll"} /\ (pc'[j] = "poll" => op[j] = "mark")
  BY <1>1 DEF SaveReturns, Goto, NextLabel, NetOps, TypeInv, TypeOK
<1>4. RecordOK(j)'
  BY <1>1, <1>2, <1>3 DEF RecordOK, Following, Finishing
<1>5. \A i \in Jobs \ {j} : Untouched(i)
  BY <1>1, SaveReturnsCopies DEF Untouched, TypeInv, TypeOK
<1>6. ServiceOf(j) \in PostJobs /\ (op[j] = "create" => ServiceOf(j) = j)
  BY <1>1, JobTrackerAssumption DEF TypeInv, ControlOK, Saving, NetOps, ServiceOf
<1>7. \A p \in PostJobs : /\ netDoc[p].live => netDoc'[p].live
                          /\ p # j => netDoc'[p].live = netDoc[p].live
  <2>1. CASE UNCHANGED netDoc
    BY <2>1
  <2>2. CASE netDoc' = [netDoc EXCEPT ![ServiceOf(j)] = Written(@, net[j].body)]
    <3>1. \A p \in PostJobs :
              netDoc'[p].live = IF p = ServiceOf(j) THEN TRUE ELSE netDoc[p].live
      BY <1>1, <1>6, <2>2 DEF TypeInv, TypeOK, Written
    <3>2. op[j] # "create" => netDoc[ServiceOf(j)].live
      BY <1>1 DEF ListingOK, NetOps, ServiceOf, TypeInv, ControlOK
    <3>3. netDoc[ServiceOf(j)].live \in BOOLEAN
      BY <1>1, <1>6 DEF TypeInv, TypeOK, Docs
    <3> QED BY <1>6, <3>1, <3>2, <3>3
  <2> QED BY <2>1, <2>2
<1>8. ListingOK(j)'
  <2>1. j \in PostJobs => jobDoc'[j].body.status # ""
    <3>1. j \in PostJobs => op[j] = "create" /\ j \notin CertsJobs
      BY <1>1, JobTrackerAssumption DEF TypeInv, ControlOK, NetOps
    <3>2. jobDoc[j].rev > 0
      <4>1. jobDoc[j].rev \in Nat /\ job[j].rev \in Nat /\ RevisionOK(j)
        BY DEF CatalogInv, SafetyInv, TypeInv, TypeOK, Docs
      <4> QED BY <1>1, <4>1 DEF RevisionOK, NetOps
    <3> QED BY <1>1, <3>1, <3>2 DEF RecordOK, Finishing
  <2> QED BY <1>2, <1>3, <2>1 DEF ListingOK
<1>9. ASSUME NEW i \in Jobs, i # j PROVE RecordOK(i)' /\ ListingOK(i)'
  <2>1. Untouched(i)
    BY <1>5, <1>9
  <2>2. i \in PostJobs => netDoc'[i].live = netDoc[i].live
    BY <1>7, <1>9, Zenon
  <2>3. \A p \in PostJobs : netDoc[p].live => netDoc'[p].live
    BY <1>7, Zenon
  <2> QED BY <2>1, <2>2, <2>3, UntouchedJob, Zenon
<1> QED BY <1>4, <1>8, <1>9 DEF CatalogInv

LEMMA TriggerCatalog ==
    ASSUME CatalogInv, SafetyInv', NEW j \in Jobs, Trigger(j),
           \A d \in DeleteJobs : d # j => target'[d] = target[d]
    PROVE  CatalogInv'
<1>1. TypeInv /\ RecordOK(j) /\ ListingOK(j) /\ pc[j] = "off"
  BY DEF CatalogInv, SafetyInv, Trigger, TypeInv, ControlOK
<1>2. /\ pc'[j] = "put" /\ op'[j] = "new"
      /\ UNCHANGED <<job, net, jobDoc, netDoc>>
  BY <1>1 DEF Trigger, Save, TypeInv, TypeOK
<1>3. \A i \in Jobs \ {j} : Untouched(i)
  BY <1>1, <1>2 DEF Trigger, Save, Untouched, TypeInv, TypeOK
<1>4. RecordOK(j)' /\ ListingOK(j)'
  BY <1>1, <1>2 DEF RecordOK, ListingOK, Following, Finishing
<1> QED BY <1>2, <1>3, <1>4, CatalogStepOfOneJob

LEMMA CatalogInvNext ==
    ASSUME "db" \notin Faults
    PROVE  CatalogInv /\ [Next]_vars => CatalogInv'
<1> SUFFICES ASSUME CatalogInv, [Next]_vars PROVE CatalogInv'
  OBVIOUS
<1>1. SafetyInv /\ SafetyInv' /\ TypeInv
  BY SafetyInvNext DEF CatalogInv, SafetyInv
<1>2. ASSUME NEW j \in Jobs
      PROVE  RecordOK(j) /\ ListingOK(j) /\ RevisionOK(j) /\ OutcomeOK(j)
  BY DEF CatalogInv, SafetyInv
<1>3. ASSUME NEW p \in PostJobs, ServicePost(p) PROVE CatalogInv'
  BY <1>1, <1>3, TriggerCatalog DEF ServicePost, Jobs
<1>4. ASSUME NEW d \in DeleteJobs, NEW p \in PostJobs, DeleteService(d, p)
      PROVE  CatalogInv'
  <2>1. \A e \in DeleteJobs : e # d => target'[e] = target[e]
    BY <1>1, <1>4 DEF DeleteService, TypeInv, TypeOK
  <2> QED BY <1>1, <1>4, <2>1, TriggerCatalog DEF DeleteService, Jobs
<1>5. ASSUME NEW c \in CertsJobs, IbpCertsPost(c) PROVE CatalogInv'
  BY <1>1, <1>5, TriggerCatalog DEF IbpCertsPost, Jobs
<1>6. ASSUME NEW c \in CertsJobs, CertsJobDelete(c) PROVE CatalogInv'
  <2>1. c \in Jobs /\ c \notin PostJobs
    BY JobTrackerAssumption DEF Jobs
  <2>2. jobDoc'[c] = Removed(jobDoc[c]) /\ jobDoc[c] \in Docs(JobBodies)
    BY <1>1, <1>6, <2>1 DEF CertsJobDelete, TypeInv, TypeOK
  <2>3. /\ jobDoc'[c].rev = jobDoc[c].rev + 1 /\ jobDoc'[c].body = jobDoc[c].body
        /\ ~jobDoc'[c].live /\ jobDoc[c].rev \in Nat
    BY <2>2 DEF Removed, Docs
  <2>4. jobDoc'[c].rev # 0 /\ jobDoc'[c].rev > 0
    BY <2>3
  <2>5. UNCHANGED <<netDoc, pc, op, job, net, target>>
    BY <1>6 DEF CertsJobDelete
  <2>6. RecordOK(c) /\ ListingOK(c)
    BY <1>2, <2>1
  <2>7. RecordOK(c)'
    BY <2>3, <2>4, <2>5, <2>6 DEF RecordOK, Following, Finishing
  <2>8. ListingOK(c)'
    BY <2>1, <2>5, <2>6 DEF ListingOK
  <2>9. \A i \in Jobs \ {c} : Untouched(i)
    BY <1>1, <1>6 DEF CertsJobDelete, Untouched, TypeInv, TypeOK
  <2> QED BY <1>1, <2>1, <2>5, <2>7, <2>8, <2>9, CatalogStepOfOneJob
<1>7. ASSUME NEW j \in Jobs, PutJob(j) PROVE CatalogInv'
  <2>1. CASE pc' = [pc EXCEPT ![j] = "get"] /\ UNCHANGED <<jobDoc, op, job, net>>
    <3>1. /\ pc'[j] = "get" /\ pc[j] = "put" /\ UNCHANGED <<target, netDoc>>
          /\ \A i \in Jobs \ {j} : Untouched(i)
      BY <1>1, <1>7, <2>1 DEF PutJob, At, Untouched, TypeInv, TypeOK
    <3>2. RecordOK(j)' /\ ListingOK(j)'
      BY <1>2, <2>1, <3>1 DEF RecordOK, ListingOK, Following, Finishing
    <3> QED BY <1>1, <3>1, <3>2, CatalogStepOfOneJob
  <2> QED BY <1>1, <1>7, <2>1, JobReturnCatalog DEF PutJob, At, JobSaved, JobNotSaved, Saving
<1>8. ASSUME NEW j \in Jobs, GetJob(j) PROVE CatalogInv'
  <2>1. CASE /\ jobDoc[j].live
             /\ pc' = [pc EXCEPT ![j] = "reput"]
             /\ job' = [job EXCEPT ![j].rev = jobDoc[j].rev]
             /\ UNCHANGED <<jobDoc, op, net>>
    <3>1. /\ pc'[j] = "reput" /\ pc[j] = "get" /\ UNCHANGED <<target, netDoc>>
          /\ job'[j].rev = jobDoc[j].rev /\ job'[j].body = job[j].body
          /\ \A i \in Jobs \ {j} : Untouched(i)
      BY <1>1, <1>8, <2>1 DEF GetJob, At, Untouched, TypeInv, TypeOK
    <3>2. op[j] # "new"
      BY <1>2, <2>1 DEF RevisionOK
    <3>3. (Following(j)' <=> Following(j)) /\ (Finishing(j)' <=> Finishing(j))
      BY <2>1, <3>1 DEF Following, Finishing
    <3>4. RecordOK(j)'
      BY <1>2, <2>1, <3>1, <3>2, <3>3 DEF RecordOK
    <3>5. ListingOK(j)'
      BY <1>2, <2>1, <3>1 DEF ListingOK
    <3> QED BY <1>1, <3>1, <3>4, <3>5, CatalogStepOfOneJob
  <2> QED BY <1>1, <1>8, <2>1, JobReturnCatalog DEF GetJob, At, JobNotSaved, Saving
<1>9. ASSUME NEW j \in Jobs, ReputJob(j) PROVE CatalogInv'
  BY <1>1, <1>9, JobReturnCatalog DEF ReputJob, At, JobSaved, JobNotSaved, Saving
<1>10. ASSUME NEW j \in Jobs, PutNet(j) PROVE CatalogInv'
  <2>1. CASE pc' = [pc EXCEPT ![j] = "get"] /\ UNCHANGED <<netDoc, op, job, net>>
    <3>1. /\ pc'[j] = "get" /\ pc[j] = "put" /\ UNCHANGED <<target, jobDoc>>
          /\ \A i \in Jobs \ {j} : Untouched(i)
      BY <1>1, <1>10, <2>1 DEF PutNet, At, Untouched, TypeInv, TypeOK
    <3>2. RecordOK(j)' /\ ListingOK(j)'
      BY <1>2, <2>1, <3>1 DEF RecordOK, ListingOK, Following, Finishing
    <3> QED BY <1>1, <2>1, <3>1, <3>2, CatalogStepOfOneJob
  <2> QED BY <1>1, <1>10, <2>1, NetReturnCatalog DEF PutNet, At, NetSaved, NetNotSaved, Saving
<1>11. ASSUME NEW j \in Jobs, GetNet(j) PROVE CatalogInv'
  <2>1. CASE /\ pc' = [pc EXCEPT ![j] = "reput"]
             /\ net' = [net EXCEPT ![j].rev = netDoc[ServiceOf(j)].rev]
             /\ UNCHANGED <<netDoc, op, job>>
    <3>1. /\ pc'[j] = "reput" /\ pc[j] = "get" /\ UNCHANGED <<target, jobDoc>>
          /\ net'[j].body = net[j].body
          /\ \A i \in Jobs \ {j} : Untouched(i)
      BY <1>1, <1>11, <2>1 DEF GetNet, At, Untouched, TypeInv, TypeOK
    <3>2. RecordOK(j)'
      BY <1>2, <2>1, <3>1 DEF RecordOK, Following, Finishing
    <3>3. ListingOK(j)'
      BY <1>2, <2>1, <3>1 DEF ListingOK
    <3> QED BY <1>1, <2>1, <3>1, <3>2, <3>3, CatalogStepOfOneJob
  <2> QED BY <1>1, <1>11, <2>1, NetReturnCatalog DEF GetNet, At, NetNotSaved, Saving
<1>12. ASSUME NEW j \in Jobs, ReputNet(j) PROVE CatalogInv'
  BY <1>1, <1>12, NetReturnCatalog DEF ReputNet, At, NetSaved, NetNotSaved, Saving
<1>13. ASSUME NEW j \in Jobs, PollInProgress(j) PROVE CatalogInv'
  <2>1. job[j] \in JobCopies /\ pc[j] = "poll" /\ op[j] = "none"
    BY <1>1, <1>13 DEF PollInProgress, At, TypeInv, TypeOK, ControlOK, Saving, JobCopies
  <2>2. /\ pc'[j] = "put" /\ op'[j] = "id" /\ UNCHANGED <<netDoc, jobDoc, net>>
        /\ job'[j] = [job[j] EXCEPT !.body.jobId = TRUE]
        /\ \A i \in Jobs \ {j} : Untouched(i)
    BY <1>1, <1>13 DEF PollInProgress, Save, Untouched, TypeInv, TypeOK
  <2>3. job'[j].rev = job[j].rev /\ job'[j].body.status = job[j].body.status
    BY <2>1, <2>2, CopyFields
  <2>4. RecordOK(j)' /\ ListingOK(j)'
    BY <1>2, <2>1, <2>2, <2>3 DEF RecordOK, ListingOK, Following, Finishing
  <2> QED BY <1>1, <2>2, <2>4, CatalogStepOfOneJob
<1>14. ASSUME NEW j \in Jobs, Exit(j), UNCHANGED <<target, jobDoc, netDoc>>,
              pc[j] \in {"poll", "serve", "findDone"}
       PROVE  CatalogInv'
  <2>1. /\ pc'[j] = "off" /\ op'[j] = "none" /\ job'[j] = NoJob
        /\ \A i \in Jobs \ {j} : Untouched(i)
    BY <1>1, <1>14 DEF Exit, Goto, Untouched, TypeInv, TypeOK
  <2>2. RecordOK(j)' /\ ListingOK(j)'
    BY <1>2, <1>14, <2>1 DEF RecordOK, ListingOK, Following, Finishing
  <2> QED BY <1>1, <1>14, <2>1, <2>2, CatalogStepOfOneJob
<1>15. ASSUME NEW j \in Jobs, PollError(j) PROVE CatalogInv'
  BY <1>14, <1>15 DEF PollError, At
<1>16. ASSUME NEW j \in Jobs, PollEnded(j) PROVE CatalogInv'
  <2>1. job[j] \in JobCopies /\ pc[j] = "poll" /\ op[j] = "none"
    BY <1>1, <1>16 DEF PollEnded, At, TypeInv, TypeOK, ControlOK, Saving, JobCopies
  <2>2. /\ pc'[j] = "put" /\ op'[j] = "status" /\ UNCHANGED <<netDoc, jobDoc, net>>
        /\ job'[j] = [job[j] EXCEPT !.body.status = jenkins[j], !.body.jobId = TRUE]
        /\ \A i \in Jobs \ {j} : Untouched(i)
    BY <1>1, <1>16 DEF PollEnded, Save, Untouched, TypeInv, TypeOK
  <2>3. job'[j].rev = job[j].rev /\ job'[j].body.status = jenkins[j]
    <3> DEFINE copy(st) == [job[j] EXCEPT !.body.status = st, !.body.jobId = TRUE]
    <3>1. \A st : copy(st).rev = job[j].rev /\ copy(st).body.status = st
      BY <2>1, CopyFields
    <3>2. job'[j] = copy(jenkins[j])
      BY <2>2
    <3> HIDE DEF copy
    <3> QED BY <3>1, <3>2
  <2>4. job'[j].body.status # ""
    BY <1>16, <2>3 DEF PollEnded
  <2>5. RecordOK(j)'
    BY <1>2, <2>1, <2>2, <2>3, <2>4 DEF RecordOK, Following, Finishing
  <2>6. ListingOK(j)'
    BY <1>2, <2>1, <2>2 DEF ListingOK
  <2> QED BY <1>1, <2>2, <2>5, <2>6, CatalogStepOfOneJob
<1>17. ASSUME NEW j \in Jobs, ServeTar(j) PROVE CatalogInv'
  <2>1. pc[j] = "serve" /\ op[j] = "none" /\ job[j] \in JobCopies
    BY <1>1, <1>17 DEF ServeTar, At, TypeInv, TypeOK, ControlOK, Saving, JobCopies
  <2>2. CASE Exit(j)
    BY <1>14, <1>17, <2>1, <2>2 DEF ServeTar
  <2>3. CASE net' = [net EXCEPT ![j] = NoNet] /\ Save(j, "create") /\ UNCHANGED job
    <3>1. /\ pc'[j] = "put" /\ op'[j] = "create" /\ net'[j] = NoNet
          /\ UNCHANGED <<job, jobDoc, netDoc, target>>
          /\ \A i \in Jobs \ {j} : Untouched(i)
      BY <1>1, <1>17, <2>3 DEF ServeTar, Save, Untouched, TypeInv, TypeOK
    <3>2. RecordOK(j)'
      BY <1>2, <2>1, <3>1 DEF RecordOK, Following, Finishing
    <3>3. ListingOK(j)'
      <4>1. net'[j].body = ActiveNet
        BY <3>1 DEF NoNet
      <4> QED BY <1>2, <2>1, <3>1, <4>1 DEF ListingOK
    <3> QED BY <1>1, <3>1, <3>2, <3>3, CatalogStepOfOneJob
  <2>4. CASE job' = [job EXCEPT ![j].body.env = TRUE] /\ Save(j, "env") /\ UNCHANGED net
    <3>1. /\ pc'[j] = "put" /\ op'[j] = "env" /\ UNCHANGED <<net, jobDoc, netDoc, target>>
          /\ job'[j] = [job[j] EXCEPT !.body.env = TRUE]
          /\ \A i \in Jobs \ {j} : Untouched(i)
      BY <1>1, <1>17, <2>4 DEF ServeTar, Save, Untouched, TypeInv, TypeOK
    <3>2. job'[j].rev = job[j].rev /\ job'[j].body.status = job[j].body.status
      BY <2>1, <3>1, CopyFields
    <3>3. RecordOK(j)'
      BY <1>2, <2>1, <3>1, <3>2 DEF RecordOK, Following, Finishing
    <3>4. ListingOK(j)'
      BY <1>2, <2>1, <3>1 DEF ListingOK
    <3> QED BY <1>1, <3>1, <3>3, <3>4, CatalogStepOfOneJob
  <2> QED BY <1>17, <2>2, <2>3, <2>4 DEF ServeTar
<1>18. ASSUME NEW j \in DeleteJobs, FindMark(j) PROVE CatalogInv'
  <2>1. /\ j \in Jobs /\ j \notin PostJobs
        /\ pc[j] = "findMark" /\ op[j] = "none" /\ target[j] \in PostJobs
    BY <1>1, <1>18, JobTrackerAssumption DEF FindMark, At, TypeInv, ControlOK, Saving, Jobs
  <2>2. CASE Goto(j, "poll") /\ UNCHANGED <<job, net>>
    <3>1. /\ pc'[j] = "poll" /\ op'[j] = "none" /\ UNCHANGED <<net, job, jobDoc, netDoc, target>>
          /\ \A i \in Jobs \ {j} : Untouched(i)
      BY <1>1, <1>18, <2>1, <2>2 DEF FindMark, Goto, Untouched, TypeInv, TypeOK
    <3>2. RecordOK(j)' /\ ListingOK(j)'
      BY <1>2, <2>1, <3>1 DEF RecordOK, ListingOK, Following, Finishing
    <3> QED BY <1>1, <2>1, <3>1, <3>2, CatalogStepOfOneJob
  <2>3. CASE /\ netDoc[target[j]].live
             /\ net' = [net EXCEPT ![j] = [rev |-> netDoc[target[j]].rev,
                            body |-> [netDoc[target[j]].body EXCEPT !.deleting = TRUE]]]
             /\ Save(j, "mark") /\ UNCHANGED job
    <3>1. netDoc[target[j]].body \in NetBodies
      BY <1>1, <2>1 DEF TypeInv, TypeOK, Docs
    <3>2. /\ pc'[j] = "put" /\ op'[j] = "mark" /\ UNCHANGED <<job, jobDoc, netDoc, target>>
          /\ net'[j].body = [netDoc[target[j]].body EXCEPT !.deleting = TRUE]
          /\ \A i \in Jobs \ {j} : Untouched(i)
      BY <1>1, <1>18, <2>1, <2>3 DEF FindMark, Save, Untouched, TypeInv, TypeOK
    <3>3. net'[j].body # ActiveNet
      BY <3>1, <3>2 DEF NetBodies, ActiveNet
    <3>4. RecordOK(j)'
      BY <1>2, <2>1, <3>2 DEF RecordOK, Following, Finishing
    <3>5. ListingOK(j)'
      BY <1>2, <2>1, <2>3, <3>2, <3>3 DEF ListingOK
    <3> QED BY <1>1, <2>1, <3>2, <3>4, <3>5, CatalogStepOfOneJob
  <2> QED BY <1>18, <2>2, <2>3 DEF FindMark
<1>19. ASSUME NEW j \in DeleteJobs, FindDone(j) PROVE CatalogInv'
  <2>1. /\ j \in Jobs /\ j \notin PostJobs
        /\ pc[j] = "findDone" /\ op[j] = "none" /\ target[j] \in PostJobs
    BY <1>1, <1>19, JobTrackerAssumption DEF FindDone, At, TypeInv, ControlOK, Saving, Jobs
  <2>2. CASE Exit(j)
    BY <1>14, <1>19, <2>1, <2>2 DEF FindDone
  <2>3. CASE /\ netDoc[target[j]].live
             /\ net' = [net EXCEPT ![j] = [rev |-> netDoc[target[j]].rev,
                            body |-> [deleting |-> FALSE, deleted |-> TRUE]]]
             /\ Save(j, "done") /\ UNCHANGED job
    <3>1. /\ pc'[j] = "put" /\ op'[j] = "done" /\ UNCHANGED <<job, jobDoc, netDoc, target>>
          /\ net'[j].body = [deleting |-> FALSE, deleted |-> TRUE]
          /\ \A i \in Jobs \ {j} : Untouched(i)
      BY <1>1, <1>19, <2>1, <2>3 DEF FindDone, Save, Untouched, TypeInv, TypeOK
    <3>2. net'[j].body # ActiveNet
      BY <3>1 DEF ActiveNet
    <3>3. RecordOK(j)'
      BY <1>2, <2>1, <3>1 DEF RecordOK, Following, Finishing
    <3>4. ListingOK(j)'
      BY <1>2, <2>1, <2>3, <3>1, <3>2 DEF ListingOK
    <3> QED BY <1>1, <2>1, <3>1, <3>3, <3>4, CatalogStepOfOneJob
  <2> QED BY <1>19, <2>2, <2>3 DEF FindDone
<1>20. ASSUME UNCHANGED <<target, jobDoc, netDoc, pc, op, job, net>> PROVE CatalogInv'
  BY <1>1, <1>20 DEF CatalogInv, RecordOK, ListingOK, Following, Finishing
<1>21. ASSUME Restart PROVE CatalogInv'
  <2>1. /\ pc' = [j \in Jobs |-> IF j \in PendingJobs THEN "poll" ELSE "off"]
        /\ job' = [j \in Jobs |-> IF j \in PendingJobs
                                  THEN [rev |-> jobDoc[j].rev, body |-> jobDoc[j].body]
                                  ELSE NoJob]
        /\ UNCHANGED <<target, jobDoc, netDoc>>
        /\ \A j \in Jobs : op'[j] = "none" /\ net'[j] = NoNet
    BY <1>21 DEF Restart
  <2>2. ASSUME NEW j \in Jobs PROVE RecordOK(j)' /\ ListingOK(j)'
    <3>1. /\ pc'[j] = IF j \in PendingJobs THEN "poll" ELSE "off"
          /\ j \in PendingJobs => /\ job'[j].rev = jobDoc[j].rev
                                  /\ job'[j].body = jobDoc[j].body
          /\ j \notin PendingJobs => job'[j] = NoJob
      BY <2>1
    <3>2. j \in PendingJobs => jobDoc[j].live /\ jobDoc[j].body.status = ""
      BY DEF PendingJobs
    <3>3. ~Finishing(j)' /\ (Following(j)' => j \in PendingJobs)
      BY <2>1, <2>2, <3>1 DEF Finishing, Following
    <3>4. RecordOK(j)'
      BY <1>2, <2>1, <3>1, <3>2, <3>3 DEF RecordOK
    <3>5. ListingOK(j)'
      BY <1>2, <2>1, <3>1 DEF ListingOK
    <3> QED BY <3>4, <3>5
  <2> QED BY <1>1, <2>2 DEF CatalogInv
<1> QED
  BY <1>3, <1>4, <1>5, <1>6, <1>7, <1>8, <1>9, <1>10, <1>11, <1>12, <1>13, <1>15,
     <1>16, <1>17, <1>18, <1>19, <1>20, <1>21
  DEF Next, Routine, Jenkins, Schedule, Build, vars

-----------------------------------------------------------------------------
(* The simulation: what a write does to the catalog.                       *)

Records == [j \in Jobs |-> RecordOf(jobDoc[j])]
Listings == [p \in PostJobs |-> ListingOf(netDoc[p])]

LEMMA CatalogInit == Init => Catalog!Init
<1> SUFFICES ASSUME Init PROVE Catalog!Init
  OBVIOUS
<1>1. \A j \in Jobs : RecordOf(jobDoc[j]) = "none"
  BY DEF Init, RecordOf, NeverWritten
<1>2. \A p \in PostJobs : ListingOf(netDoc[p]) = "never"
  BY DEF Init, ListingOf, NeverWritten
<1> QED BY <1>1, <1>2 DEF Catalog!Init

LEMMA LiveRecord ==
    ASSUME NEW j \in Jobs, jobDoc[j].rev \in Nat, jobDoc[j].rev > 0, jobDoc[j].live
    PROVE  /\ jobDoc[j].body.status = "" => Records[j] = "pending"
           /\ jobDoc[j].body.status # "" => Records[j] = jobDoc[j].body.status
<1>1. jobDoc[j].rev # 0
  OBVIOUS
<1> QED BY <1>1 DEF Records, RecordOf

(* A goroutine's write of its job is Accept, Resolve or no visible change. *)
LEMMA JobWriteSimulates ==
    ASSUME CatalogInv, NEW j \in Jobs, pc[j] \in Saving, op[j] \in JobOps,
           ~Conflicts(jobDoc[j], job[j].rev),
           jobDoc' = [jobDoc EXCEPT ![j] = Written(@, job[j].body)], UNCHANGED netDoc
    PROVE  Catalog!Next \/ UNCHANGED Catalog!catalog
<1>1. TypeInv /\ RecordOK(j) /\ RevisionOK(j) /\ OutcomeOK(j) /\ pc[j] # "off"
  BY DEF CatalogInv, SafetyInv, Saving
<1>2. jobDoc[j].rev \in Nat /\ job[j].rev \in Nat
  BY <1>1 DEF TypeInv, TypeOK, Docs
<1>3. job[j].body.status \in {"", "SUCCESS", "FAIL"}
  BY <1>1 DEF TypeInv, TypeOK, JobBodies
<1>4. jobDoc' = [jobDoc EXCEPT ![j] = Written(jobDoc[j], job[j].body)]
  OBVIOUS
<1>5. Records' = [Records EXCEPT ![j] = RecordOf(jobDoc'[j])] /\ Listings' = Listings
  BY <1>1, <1>4 DEF Records, Listings, TypeInv, TypeOK
<1>6. RecordOf(jobDoc'[j]) =
          IF job[j].body.status = "" THEN "pending" ELSE job[j].body.status
  <2>1. /\ jobDoc'[j].rev # 0 /\ jobDoc'[j].live
        /\ jobDoc'[j].body.status = job[j].body.status
    BY <1>1, <1>2, <1>4 DEF Written, TypeInv, TypeOK
  <2> QED BY <2>1 DEF RecordOf
<1>11. op[j] # "new" => jobDoc[j].live /\ jobDoc[j].rev > 0
  <2> SUFFICES ASSUME op[j] # "new" PROVE jobDoc[j].live /\ jobDoc[j].rev > 0
    OBVIOUS
  <2>1. /\ 0 < job[j].rev /\ job[j].rev <= jobDoc[j].rev
        /\ ~jobDoc[j].live => job[j].rev < jobDoc[j].rev
    BY <1>1 DEF RevisionOK
  <2>2. ASSUME ~jobDoc[j].live PROVE FALSE
    <3>1. job[j].rev \notin {0, jobDoc[j].rev}
      BY <1>2, <2>1, <2>2
    <3> QED BY <2>2, <3>1 DEF Conflicts
  <2> QED BY <1>2, <2>1, <2>2
<1>7. CASE op[j] = "new"
  <2>1. Records[j] = "none"
    BY <1>1, <1>7 DEF Records, RecordOf, RevisionOK
  <2>2. job[j].body.status = ""
    BY <1>1, <1>7, NoCopies DEF RecordOK
  <2>3. Catalog!Accept(j)
    BY <1>5, <1>6, <2>1, <2>2 DEF Catalog!Accept, Records, Listings
  <2> QED BY <2>3 DEF Catalog!Next
<1>8. CASE op[j] = "id"
  <2>1. jobDoc[j].live /\ jobDoc[j].body.status = "" /\ job[j].body.status = ""
    BY <1>1, <1>8, <1>11 DEF RecordOK, Following
  <2>2. Records[j] = "pending"
    <3>1. jobDoc[j].rev > 0
      BY <1>1, <2>1 DEF RevisionOK
    <3> QED BY <1>2, <2>1, <3>1, LiveRecord
  <2>3. Records' = Records
    BY <1>5, <1>6, <2>1, <2>2 DEF Records
  <2> QED BY <1>5, <2>3 DEF Catalog!catalog, Records, Listings
<1>9. CASE op[j] = "status"
  <2>1. jobDoc[j].live /\ jobDoc[j].body.status = "" /\ job[j].body.status # ""
    BY <1>1, <1>9, <1>11 DEF RecordOK, Following
  <2>2. Records[j] = "pending"
    <3>1. jobDoc[j].rev > 0
      BY <1>1, <2>1 DEF RevisionOK
    <3> QED BY <1>2, <2>1, <3>1, LiveRecord
  <2>3. Catalog!Resolve(j)
    BY <1>3, <1>5, <1>6, <2>1, <2>2 DEF Catalog!Resolve, Records, Listings
  <2> QED BY <2>3 DEF Catalog!Next
<1>10. CASE op[j] = "env"
  <2>1. jobDoc[j].live /\ jobDoc[j].rev > 0
    BY <1>10, <1>11
  <2>2. jobDoc[j].body.status = "SUCCESS" /\ job[j].body.status = "SUCCESS"
    BY <1>1, <1>10, <2>1 DEF RecordOK, Finishing
  <2>3. Records[j] = "SUCCESS"
    BY <1>2, <2>1, <2>2, LiveRecord
  <2>4. Records' = Records
    BY <1>5, <1>6, <2>2, <2>3 DEF Records
  <2> QED BY <1>5, <2>4 DEF Catalog!catalog, Records, Listings
<1> QED BY <1>7, <1>8, <1>9, <1>10 DEF JobOps

(* A goroutine's write of a network is List, Withdraw or no visible change.*)
LEMMA NetWriteSimulates ==
    ASSUME CatalogInv, NEW j \in Jobs, pc[j] \in Saving, op[j] \in NetOps,
           netDoc' = [netDoc EXCEPT ![ServiceOf(j)] = Written(@, net[j].body)],
           UNCHANGED jobDoc
    PROVE  Catalog!Next \/ UNCHANGED Catalog!catalog
<1>1. TypeInv /\ RecordOK(j) /\ ListingOK(j)
  BY DEF CatalogInv, SafetyInv
<1> DEFINE p == ServiceOf(j)
<1>2. p \in PostJobs /\ (op[j] = "create" => p = j)
  BY <1>1, JobTrackerAssumption DEF TypeInv, ControlOK, Saving, NetOps, ServiceOf
<1>3. netDoc' = [netDoc EXCEPT ![p] = Written(netDoc[p], net[j].body)]
  OBVIOUS
<1>4. Listings' = [Listings EXCEPT ![p] = ListingOf(netDoc'[p])] /\ Records' = Records
  BY <1>1, <1>2, <1>3 DEF Records, Listings, TypeInv, TypeOK
<1>5. ListingOf(netDoc'[p]) = IF net[j].body = ActiveNet THEN "listed" ELSE "gone"
  <2>1. netDoc'[p].live /\ netDoc'[p].body = net[j].body
    BY <1>1, <1>2, <1>3 DEF Written, TypeInv, TypeOK
  <2> QED BY <2>1 DEF ListingOf
<1>6. CASE op[j] = "create"
  <2>1. Listings[p] = "never"
    BY <1>1, <1>2, <1>6 DEF Listings, ListingOf, ListingOK
  <2>2. Records[p] = "SUCCESS"
    <3>1. j \notin CertsJobs /\ jobDoc[j].rev > 0 /\ jobDoc[j].rev # 0
      <4>1. jobDoc[j].rev \in Nat /\ job[j].rev \in Nat /\ RevisionOK(j)
        BY DEF CatalogInv, SafetyInv, TypeInv, TypeOK, Docs
      <4> QED BY <1>2, <1>6, <4>1, JobTrackerAssumption DEF RevisionOK, Saving
    <3>2. jobDoc[j].live /\ jobDoc[j].body.status = "SUCCESS"
      BY <1>1, <1>6, <3>1 DEF RecordOK, Finishing
    <3> QED BY <1>2, <1>6, <3>1, <3>2 DEF Records, RecordOf
  <2>3. Catalog!List(p)
    BY <1>1, <1>4, <1>5, <1>6, <2>1, <2>2 DEF Catalog!List, Records, Listings, ListingOK
  <2> QED BY <1>2, <2>3 DEF Catalog!Next
<1>7. CASE op[j] \in {"mark", "done"}
  <2>1. netDoc[p].live /\ net[j].body # ActiveNet
    BY <1>1, <1>7 DEF ListingOK, ServiceOf, TypeInv, ControlOK
  <2>2. CASE netDoc[p].body = ActiveNet
    <3>1. Listings[p] = "listed"
      BY <1>2, <2>1, <2>2 DEF Listings, ListingOf
    <3>2. Catalog!Withdraw(p)
      BY <1>4, <1>5, <2>1, <3>1 DEF Catalog!Withdraw, Records, Listings
    <3> QED BY <1>2, <3>2 DEF Catalog!Next
  <2>3. CASE netDoc[p].body # ActiveNet
    <3>1. Listings[p] = "gone"
      BY <1>2, <2>1, <2>3 DEF Listings, ListingOf
    <3>2. Listings' = Listings
      BY <1>4, <1>5, <2>1, <3>1 DEF Listings
    <3> QED BY <1>4, <3>2 DEF Catalog!catalog, Records, Listings
  <2> QED BY <2>2, <2>3
<1> QED BY <1>6, <1>7 DEF NetOps

LEMMA CatalogStep == CatalogInv /\ [Next]_vars => [Catalog!Next]_Catalog!catalog
<1> SUFFICES ASSUME CatalogInv, [Next]_vars
             PROVE  Catalog!Next \/ UNCHANGED Catalog!catalog
  OBVIOUS
<1>1. TypeInv
  BY DEF CatalogInv, SafetyInv
<1>2. CASE UNCHANGED <<jobDoc, netDoc>>
  BY <1>2 DEF Catalog!catalog
<1>3. ASSUME NEW c \in CertsJobs, CertsJobDelete(c)
      PROVE  Catalog!Next \/ UNCHANGED Catalog!catalog
  <2>1. c \in Jobs /\ jobDoc[c] \in Docs(JobBodies) /\ RevisionOK(c)
    BY <1>1 DEF Jobs, CatalogInv, SafetyInv, TypeInv, TypeOK
  <2>2. /\ jobDoc[c].live /\ jobDoc[c].body.status \in {"", "SUCCESS", "FAIL"}
        /\ jobDoc[c].rev \in Nat
    BY <1>3, <2>1 DEF CertsJobDelete, Docs, JobBodies
  <2>3. Records[c] \in {"pending", "SUCCESS", "FAIL"}
    <3>1. jobDoc[c].rev > 0
      BY <2>1, <2>2 DEF RevisionOK
    <3> QED BY <2>1, <2>2, <3>1, LiveRecord
  <2>4. jobDoc' = [jobDoc EXCEPT ![c] = Removed(jobDoc[c])] /\ UNCHANGED netDoc
    BY <1>3 DEF CertsJobDelete
  <2>5. RecordOf(jobDoc'[c]) = "removed"
    <3>1. jobDoc'[c] = Removed(jobDoc[c])
      BY <1>1, <2>1, <2>4 DEF TypeInv, TypeOK
    <3>2. jobDoc'[c].rev = jobDoc[c].rev + 1 /\ ~jobDoc'[c].live
      BY <2>1, <3>1 DEF Removed, Docs
    <3>3. jobDoc'[c].rev # 0
      <4>1. \A n \in Nat : n + 1 # 0
        OBVIOUS
      <4> QED BY <2>2, <3>2, <4>1, Zenon
    <3> QED BY <3>2, <3>3 DEF RecordOf
  <2>6. Records' = [Records EXCEPT ![c] = "removed"] /\ Listings' = Listings
    BY <1>1, <2>1, <2>4, <2>5 DEF Records, Listings, TypeInv, TypeOK
  <2>7. Catalog!Forget(c)
    BY <2>3, <2>6 DEF Catalog!Forget, Records, Listings
  <2> QED BY <2>7 DEF Catalog!Next
<1>4. ASSUME NEW j \in Jobs, Routine(j), ~UNCHANGED <<jobDoc, netDoc>>
      PROVE  \/ /\ op[j] \in JobOps /\ ~Conflicts(jobDoc[j], job[j].rev)
                /\ jobDoc' = [jobDoc EXCEPT ![j] = Written(@, job[j].body)]
                /\ UNCHANGED netDoc
             \/ /\ op[j] \in NetOps
                /\ netDoc' = [netDoc EXCEPT ![ServiceOf(j)] = Written(@, net[j].body)]
                /\ UNCHANGED jobDoc
  BY <1>4
  DEF Routine, PutJob, GetJob, ReputJob, PutNet, GetNet, ReputNet, PollInProgress,
      PollError, PollEnded, ServeTar, FindMark, FindDone, JobSaved, JobNotSaved,
      NetSaved, NetNotSaved
<1>5. ASSUME NEW j \in Jobs, Routine(j), ~UNCHANGED <<jobDoc, netDoc>>
      PROVE  Catalog!Next \/ UNCHANGED Catalog!catalog
  <2>1. pc[j] \in Saving
    <3>1. op[j] \in JobOps \cup NetOps
      BY <1>4, <1>5
    <3> QED BY <1>1, <3>1 DEF TypeInv, ControlOK, JobOps, NetOps
  <2> QED BY <1>4, <1>5, <2>1, JobWriteSimulates, NetWriteSimulates
<1> QED
  BY <1>2, <1>3, <1>5
  DEF Next, vars, ServicePost, DeleteService, IbpCertsPost, Trigger, Jenkins, Schedule,
      Build, Restart

(* The server keeps the promises of ServiceCatalog unless CouchDB fails.   *)
THEOREM TrackerImplementsCatalog ==
    ASSUME "db" \notin Faults
    PROVE  Spec => ImplementsCatalog
<1>1. CatalogInv /\ [Next]_vars => CatalogInv'
  BY CatalogInvNext
<1>2. Init => Catalog!Init
  BY CatalogInit
<1>3. CatalogInv /\ [Next]_vars => [Catalog!Next]_Catalog!catalog
  BY CatalogStep
<1> QED BY <1>1, <1>2, <1>3, CatalogInvInit, PTL DEF Spec, ImplementsCatalog, Catalog!Spec
=============================================================================
