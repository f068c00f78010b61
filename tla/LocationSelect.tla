--------------------------- MODULE LocationSelect ---------------------------
(***************************************************************************)
(* The form of ibp/network.js that creates an IBP network.  The enterprise *)
(* plan "ep" needs a location, and the locations to choose from depend on  *)
(* the environment: every change of plan or environment aborts the request *)
(* for them that may be under way and, for "ep", sends another.            *)
(***************************************************************************)
EXTENDS Naturals

CONSTANTS
    Environments,   \* the values select#env may have
    Served,         \* those whose network-locations service is known
    Gets            \* bound: requests for locations in flight at once

VARIABLES
    uid,        \* whether getUid finds an id in the path: it takes only \w+
    plan, env,  \* what is selected
    epShown,    \* the options of "ep" are shown
    progress,   \* and so is the image that says that locations are coming
    net,        \* the button "Create Network" is enabled
    options,    \* the locations offered, by the environment they belong to
    get,        \* get[q]: the environment a request asks for, or "none"
    locReq,     \* the request that the next change aborts, or "null"
    failed,     \* the last change brought no locations
    posted      \* the networks asked for: plan, environment, location

vars == <<uid, plan, env, epShown, progress, net, options, get, locReq, failed, posted>>

Plans == {"sp", "ep"}
NoLocation == "no location"
Networks == [plan : Plans, env : Environments, loc : Environments \cup {NoLocation}]

TypeOK ==
    /\ uid \in BOOLEAN
    /\ plan \in Plans /\ env \in Environments
    /\ epShown \in BOOLEAN /\ progress \in BOOLEAN /\ net \in BOOLEAN
    /\ options \subseteq Environments
    /\ get \in [Gets -> Environments \cup {"none"}]
    /\ locReq \in Gets \cup {"null"}
    /\ failed \in BOOLEAN
    /\ posted \subseteq Networks

Init ==
    /\ uid \in BOOLEAN
    /\ plan = "sp" /\ env \in Environments
    /\ epShown = FALSE /\ progress = FALSE /\ net = TRUE
    /\ options = {}
    /\ get = [q \in Gets |-> "none"] /\ locReq = "null"
    /\ failed = FALSE
    /\ posted = {}

-----------------------------------------------------------------------------
(* The change handler of select#plan and select#env.                       *)

(* A fault of Abort: the previous request goes on.                         *)
AbortNothing == get

(* Aborting a request that has been answered does nothing.                 *)
Abort == IF locReq = "null" THEN get ELSE [get EXCEPT ![locReq] = "none"]

(* Of an environment that is not known only the console is told: the button*)
(* stays disabled.                                                         *)
AskForLocations(e) ==
    /\ epShown' = TRUE /\ progress' = TRUE /\ net' = FALSE
    /\ options' = {}
    /\ \/ /\ e \in Served
          /\ \E q \in Gets :
                 /\ Abort[q] = "none"
                 /\ get' = [Abort EXCEPT ![q] = e]
                 /\ locReq' = q
          /\ failed' = FALSE
       \/ /\ e \notin Served
          /\ get' = Abort /\ locReq' = "null"
          /\ failed' = TRUE

NoLocationsNeeded ==
    /\ epShown' = FALSE /\ net' = TRUE
    /\ get' = Abort /\ locReq' = "null"
    /\ UNCHANGED <<progress, options, failed>>

Change ==
    /\ \E p \in Plans, e \in Environments :
           /\ <<p, e>> # <<plan, env>> /\ (p = plan \/ e = env)
           /\ plan' = p /\ env' = e
           /\ IF p = "ep" THEN AskForLocations(e) ELSE NoLocationsNeeded
    /\ UNCHANGED <<uid, posted>>

-----------------------------------------------------------------------------
(* The answer of the network-locations service of an environment.          *)

(* The locations are appended; those that are not available cannot be      *)
(* selected, and it may be that none is.                                   *)
Locations(q) ==
    /\ get[q] # "none"
    /\ options' \in {options, options \cup {get[q]}}
    /\ get' = [get EXCEPT ![q] = "none"]
    /\ progress' = FALSE /\ net' = TRUE
    /\ UNCHANGED <<uid, plan, env, epShown, locReq, failed, posted>>

(* An empty answer is ignored, and nobody handles an error: button and     *)
(* image stay as they are.                                                 *)
NoLocations(q) ==
    /\ get[q] # "none"
    /\ get' = [get EXCEPT ![q] = "none"]
    /\ failed' = TRUE
    /\ UNCHANGED <<uid, plan, env, epShown, progress, net, options, locReq, posted>>

-----------------------------------------------------------------------------
(* The submit handler.  Its POST does not disable the button.              *)
Submit ==
    /\ net /\ uid
    /\ \E loc \in IF plan = "ep" THEN options ELSE {NoLocation} :
           posted' = posted \cup {[plan |-> plan, env |-> env, loc |-> loc]}
    /\ UNCHANGED <<uid, plan, env, epShown, progress, net, options, get, locReq, failed>>

Next ==
    \/ Change \/ Submit
    \/ \E q \in Gets : Locations(q) \/ NoLocations(q)

Spec == Init /\ [][Next]_vars

(* Every request for locations is answered.                                *)
Fairness == WF_vars(\E q \in Gets : Locations(q) \/ NoLocations(q))

FairSpec == Spec /\ Fairness
-----------------------------------------------------------------------------
(* Properties.                                                             *)

(* Whatever is changed while requests for locations are under way, a       *)
(* network of the enterprise plan is created at a location of its own      *)
(* environment, and one of the starter plan at none.                       *)
PostedAtOwnLocation ==
    \A n \in posted : n.loc = IF n.plan = "ep" THEN n.env ELSE NoLocation

(* At most one request for locations is under way, and the button waits    *)
(* for it.                                                                 *)
ButtonWaits ==
    /\ \A q, r \in Gets : get[q] # "none" /\ get[r] # "none" => q = r
    /\ (\E q \in Gets : get[q] # "none") => ~net /\ plan = "ep"

(* The button comes back, unless the locations could not be had: their     *)
(* request failed, or the environment is not known.                        *)
ButtonReturns == ~net ~> (net \/ failed)

(* In short: changes that race with requests neither mix up environments   *)
(* nor lose the button.                                                    *)
LocationsFollowChoice == [](PostedAtOwnLocation /\ ButtonWaits) /\ ButtonReturns
=============================================================================
