--------------------------- MODULE ServiceCatalog ---------------------------
(***************************************************************************)
(* What the API server promises its users about jobs and services, with    *)
(* CouchDB, Jenkins, goroutines and restarts hidden.                       *)
(*                                                                         *)
(* A job that is on record is pending until its outcome is recorded, once; *)
(* a certs job may be deleted before or after that, and is gone for good.  *)
(* A service is listed for its user at most once, after its creation job   *)
(* is recorded as a success; a service that has left the list (it is being *)
(* deleted, or is deleted) never comes back.                               *)
(***************************************************************************)
CONSTANTS Jobs, PostJobs, CertsJobs

VARIABLES
    record,    \* record[j]: what the job database says of job j
    listing    \* listing[p]: whether service p is in its user's list

catalog == <<record, listing>>

Init ==
    /\ record = [j \in Jobs |-> "none"]
    /\ listing = [p \in PostJobs |-> "never"]

Accept(j) ==
    /\ record[j] = "none"
    /\ record' = [record EXCEPT ![j] = "pending"]
    /\ UNCHANGED listing

Resolve(j) ==
    /\ record[j] = "pending"
    /\ \E outcome \in {"SUCCESS", "FAIL"} : record' = [record EXCEPT ![j] = outcome]
    /\ UNCHANGED listing

Forget(c) ==
    /\ record[c] \in {"pending", "SUCCESS", "FAIL"}
    /\ record' = [record EXCEPT ![c] = "removed"]
    /\ UNCHANGED listing

List(p) ==
    /\ record[p] = "SUCCESS" /\ listing[p] = "never"
    /\ listing' = [listing EXCEPT ![p] = "listed"]
    /\ UNCHANGED record

Withdraw(p) ==
    /\ listing[p] = "listed"
    /\ listing' = [listing EXCEPT ![p] = "gone"]
    /\ UNCHANGED record

Next ==
    \/ \E j \in Jobs : Accept(j) \/ Resolve(j)
    \/ \E c \in CertsJobs : Forget(c)
    \/ \E p \in PostJobs : List(p) \/ Withdraw(p)

Spec == Init /\ [][Next]_catalog
=============================================================================
