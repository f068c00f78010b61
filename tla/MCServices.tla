----------------------------- MODULE MCServices -----------------------------
(***************************************************************************)
(* Small instances for TLC of the modules that are about one client, one   *)
(* route or one script: InvokeHandler, HeliosRoutes, JoinChannel,          *)
(* JwksManager and JenkinsCrumb.  They share nothing, so that a behavior   *)
(* is one of them at work; the variables of the others keep the values of  *)
(* a part that does nothing.                                               *)
(***************************************************************************)
EXTENDS InvokeHandler, Naturals

CONSTANTS Orgs, Joins, DocRequests, Fills, Keys, Odd, Tokens,
          Callers, MaxRotations, MaxMisses

(* The bounds of JenkinsCrumb are numbers.                                 *)
ASSUME MCServicesAssumption == MaxRotations \in Nat /\ MaxMisses \in Nat

VARIABLES part, serviceId, join, added, during, doc, fill,
          given, at, contacted, said, exit, joined,
          published, keys, leaked, writer, fetched, token,
          epoch, misses, field, crumb, call

Helios == INSTANCE HeliosRoutes
Script == INSTANCE JoinChannel
Jwks == INSTANCE JwksManager
Crumb == INSTANCE JenkinsCrumb

handlerVars == vars
heliosVars == <<serviceId, join, added, during, doc, fill>>
joinVars == <<given, at, contacted, said, exit, joined>>
jwksVars == <<published, keys, leaked, writer, fetched, token>>
crumbVars == <<epoch, misses, field, crumb, call>>
partVars == <<part, handlerVars, heliosVars, joinVars, jwksVars, crumbVars>>

Parts == {"handler", "helios", "script", "jwks", "crumb"}

(* A part that does nothing; every request of InvokeHandler has returned.  *)
HandlerOff ==
    /\ caller = [r \in Requests |-> "error"] /\ ctx = [r \in Requests |-> "done"]
    /\ handler = [r \in Requests |-> "none"] /\ err = [r \in Requests |-> "ok"]
    /\ registered = {} /\ notice = [r \in Requests |-> "none"]
    /\ txn = [r \in Requests |-> "none"]

HeliosOff ==
    /\ serviceId = Helios!Undefined
    /\ join = [r \in Joins |-> [at |-> "off"]] /\ added = [r \in Joins |-> {}]
    /\ during = [r \in Joins |-> {}] /\ doc = [r \in DocRequests |-> {}]
    /\ fill = [p \in Fills |-> [at |-> "off"]]

ScriptOff ==
    /\ given = {} /\ at = "ended" /\ contacted = {}
    /\ said = "nothing" /\ exit = "1" /\ joined = FALSE

JwksOff ==
    /\ published = {} /\ keys = [c \in Jwks!Copies |-> {}]
    /\ leaked = [c \in Jwks!Copies |-> FALSE]
    /\ writer = [c \in Jwks!Copies |-> "free"]
    /\ fetched = {} /\ token = [q \in Tokens |-> Jwks!NoToken]

PartInit ==
    /\ part \in Parts
    /\ IF part = "handler" THEN Init ELSE HandlerOff
    /\ IF part = "helios" THEN Helios!Init ELSE HeliosOff
    /\ IF part = "script" THEN Script!Init ELSE ScriptOff
    /\ IF part = "jwks" THEN Jwks!Init ELSE JwksOff
    /\ Crumb!Init   \* every call has returned, so it serves for the others too

PartNext ==
    /\ UNCHANGED part
    /\ IF part = "handler" THEN Next ELSE UNCHANGED handlerVars
    /\ IF part = "helios" THEN Helios!Next ELSE UNCHANGED heliosVars
    /\ IF part = "script" THEN Script!Next ELSE UNCHANGED joinVars
    /\ IF part = "jwks" THEN Jwks!Next ELSE UNCHANGED jwksVars
    /\ IF part = "crumb" THEN Crumb!Next ELSE UNCHANGED crumbVars

PartSpec ==
    /\ PartInit /\ [][PartNext]_partVars
    /\ Fairness /\ Jwks!Fairness /\ Crumb!Fairness

-----------------------------------------------------------------------------
(* Properties; OkMeansCommitted, NoMissedEvent, NoRegistrationLeft and     *)
(* NobodyStuck are those of InvokeHandler.                                 *)

(* The types of every part.                                                *)
PartTypeOK ==
    /\ TypeOK
    /\ part = "helios" => Helios!TypeOK
    /\ part = "script" => Script!TypeOK
    /\ Jwks!TypeOK
    /\ Crumb!TypeOK

(* HeliosRoutes: what requests of joinNetwork add though they share a      *)
(* variable.                                                               *)
OnlyOverlapsHarm == Helios!OnlyOverlapsHarm

(* JoinChannel: the log of a run does not deceive.                         *)
LogIsTrue == Script!LogIsTrue

(* JwksManager: every token gets its verdict.                              *)
VerdictReached == Jwks!VerdictReached

(* JenkinsCrumb: the crumb that all requests share neither makes Jenkins   *)
(* queue two builds for one of them nor refuses them for ever.             *)
CrumbIsShared == Crumb!CrumbIsShared
=============================================================================
