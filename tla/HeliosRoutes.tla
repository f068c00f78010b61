---------------------------- MODULE HeliosRoutes ----------------------------
(***************************************************************************)
(* What hfrd adds to the server of an on-premises network (helios):        *)
(* the routes joinNetwork and getIBMIdDoc of manage-apis.js and            *)
(* populatePeersOrderers of grpc_lib.js.  Its database, its cache and the  *)
(* rest of that server are external.                                       *)
(*                                                                         *)
(* The server runs one callback at a time; between a request and the       *)
(* callback of its database call others run.  joinNetwork keeps the        *)
(* request's service id in a variable that all requests share.             *)
(***************************************************************************)
CONSTANTS
    Orgs,          \* organisations; each has a service id of its own
    Joins,         \* requests of joinNetwork
    DocRequests,   \* requests of getIBMIdDoc
    Fills          \* calls of populatePeersOrderers

VARIABLES
    serviceId,   \* the org whose service id was last asked for, if any
    join,        \* join[r]: the org of a request, and where it is
    added,       \* added[r]: the orgs it has had added to the system channel
    during,      \* during[r]: r, and the requests that came while it waited
    doc,         \* doc[r]: what has been done of a getIBMIdDoc
    fill         \* fill[p]: options, and what populatePeersOrderers made of them

heliosVars == <<serviceId, join, added, during, doc, fill>>

Undefined == "undefined"

TypeOK ==
    /\ serviceId \in Orgs \cup {Undefined}
    /\ join \in [Joins -> [org : Orgs, at : {"none", "fetching", "answered", "silent"}]]
    /\ added \in [Joins -> SUBSET Orgs]
    /\ during \in [Joins -> SUBSET Joins]
    /\ doc \in [DocRequests -> SUBSET {"asked", "fetched", "answered", "lost"}]
    /\ fill \in [Fills -> [skipCache : BOOLEAN, namesKnown : BOOLEAN,
                           at : {"none", "fetching", "filled", "error", "lost"}]]

Init ==
    /\ serviceId = Undefined
    /\ join \in [Joins -> [org : Orgs, at : {"none"}]]
    /\ added = [r \in Joins |-> {}]
    /\ during = [r \in Joins |-> {}]
    /\ doc = [r \in DocRequests |-> {}]
    /\ fill \in [Fills -> [skipCache : BOOLEAN, namesKnown : BOOLEAN, at : {"none"}]]

Waiting == {r \in Joins : join[r].at = "fetching"}

-----------------------------------------------------------------------------
(* POST joinNetwork.                                                       *)

(* A fault of Remember: the first service id is kept.                      *)
RememberFirst(org) == serviceId' = (IF serviceId = Undefined THEN org ELSE serviceId)

Remember(org) == serviceId' = org

JoinNetwork(r) ==
    /\ join[r].at = "none"
    /\ Remember(join[r].org)
    /\ join' = [join EXCEPT ![r].at = "fetching"]
    /\ during' = [q \in Joins |-> IF q \in Waiting \cup {r} THEN during[q] \cup {r} ELSE during[q]]
    /\ UNCHANGED <<added, doc, fill>>

(* The document is there: the org whose service id is the shared variable's*)
(* is to be added to the system channel, and the request is answered at    *)
(* once.  If the document does not have it, nothing answers.               *)
NetworkFound(r) ==
    /\ join[r].at = "fetching"
    /\ \/ /\ added' = [added EXCEPT ![r] = @ \cup {serviceId}]
          /\ join' = [join EXCEPT ![r].at = "answered"]
       \/ /\ join' = [join EXCEPT ![r].at = "silent"]
          /\ UNCHANGED added
    /\ UNCHANGED <<serviceId, during, doc, fill>>

(* It is not: the log line names a variable that is not declared, and the  *)
(* error this raises comes before the answer.  Unless the database's       *)
(* library catches it, it ends the server, and with it whatever was on its *)
(* way; the next server has no service id yet.                             *)
NetworkNotFound(r) ==
    /\ join[r].at = "fetching"
    /\ \/ /\ join' = [join EXCEPT ![r].at = "silent"]
          /\ UNCHANGED <<serviceId, doc, fill>>
       \/ /\ serviceId' = Undefined
          /\ join' = [q \in Joins |-> IF q \in Waiting THEN [join[q] EXCEPT !.at = "silent"] ELSE join[q]]
          /\ doc' = [q \in DocRequests |-> IF doc[q] = {} THEN {} ELSE doc[q] \cup {"lost"}]
          /\ fill' = [p \in Fills |-> IF fill[p].at = "fetching" THEN [fill[p] EXCEPT !.at = "lost"]
                                                             ELSE fill[p]]
    /\ UNCHANGED <<added, during>>

-----------------------------------------------------------------------------
(* POST getIBMIdDoc: two tasks in parallel.  The first fetches the network *)
(* document, of which nothing is made; the second updates the ibmid        *)
(* document and answers, with 200 or 500.                                  *)

GetIBMIdDoc(r) ==
    /\ \/ /\ doc[r] = {}
          /\ doc' = [doc EXCEPT ![r] = {"asked"}]
       \/ /\ "asked" \in doc[r] /\ "lost" \notin doc[r]
          /\ \E task \in {"fetched", "answered"} \ doc[r] :
                 doc' = [doc EXCEPT ![r] = @ \cup {task}]
    /\ UNCHANGED <<serviceId, join, added, during, fill>>

-----------------------------------------------------------------------------
(* populatePeersOrderers.                                                  *)

(* do_work: the peers and orderers of the document, as far as the names in *)
(* the options exist.  The callback gets the options or an error.          *)
DoWork(p) == fill' = [fill EXCEPT ![p].at = IF fill[p].namesKnown THEN "filled" ELSE "error"]

(* The caller may provide a document; SKIP_CACHE wins over it.             *)
PopulatePeersOrderers(p) ==
    /\ fill[p].at = "none"
    /\ \/ ~fill[p].skipCache /\ DoWork(p)
       \/ fill' = [fill EXCEPT ![p].at = "fetching"]
    /\ UNCHANGED <<serviceId, join, added, during, doc>>

(* The answer of the database or of its cache, or an error.                *)
DocumentRead(p) ==
    /\ fill[p].at = "fetching"
    /\ DoWork(p) \/ fill' = [fill EXCEPT ![p].at = "error"]
    /\ UNCHANGED <<serviceId, join, added, during, doc>>

Next ==
    \/ \E r \in Joins : JoinNetwork(r) \/ NetworkFound(r) \/ NetworkNotFound(r)
    \/ \E r \in DocRequests : GetIBMIdDoc(r)
    \/ \E p \in Fills : PopulatePeersOrderers(p) \/ DocumentRead(p)

Spec == Init /\ [][Next]_heliosVars
-----------------------------------------------------------------------------
(* Properties.                                                             *)

(* manage-apis.js answers a request with "Succeeded to join into network"  *)
(* after "Step3: Add new org into system channel": that org is the one     *)
(* whose service id the request gave.                                      *)
JoinsOwnOrganisation ==
    \A r \in Joins : join[r].at = "answered" => added[r] = {join[r].org}

(* It need not be when requests overlap.  How far the shared variable can  *)
(* lead them astray: a request that is answered has added one organisation *)
(* and no more, its own or that of a request which came while it waited    *)
(* for its document, never one of a request that came before it, be that   *)
(* answered, still waiting or lost with a server that ended; and a request *)
(* that is not answered has added none.                                    *)
OnlyOverlapsHarm ==
    \A r \in Joins :
        IF join[r].at = "answered" THEN \E q \in during[r] : added[r] = {join[q].org}
                                   ELSE added[r] = {}
=============================================================================
