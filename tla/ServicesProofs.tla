--------------------------- MODULE ServicesProofs ---------------------------
(***************************************************************************)
(* Proofs about the modules that MCServices brings together: the safety    *)
(* properties of InvokeHandler, HeliosRoutes, JoinChannel and JenkinsCrumb *)
(* for any number of requests, goroutines and keys, and that               *)
(* every state of the whole is well-typed.                                 *)
(***************************************************************************)
EXTENDS MCServices, TLAPS

(* What the goroutine knows about its transaction at each point, and that  *)
(* an event is waiting for whoever has been registered all along.          *)
HandlerOK(r) ==
    /\ handler[r] \in {"none", "endorse", "register", "send"} => txn[r] = "none"
    /\ handler[r] \in {"none", "endorse", "register", "send", "wait"} => err[r] = "ok"
    /\ handler[r] \in {"send", "wait"} => r \in registered
    /\ r \in registered => handler[r] \in {"send", "wait"}
    /\ handler[r] = "wait" =>
           /\ txn[r] # "none"
           /\ txn[r] \in {"valid", "invalid"} => notice[r] = txn[r]
    /\ notice[r] # "none" => txn[r] = notice[r]
    /\ handler[r] \in {"complete", "gone"} =>
           /\ err[r] = "ok" => txn[r] = "valid"
           /\ err[r] = "invalid" => txn[r] = "invalid"
    /\ caller[r] = "prepare" => handler[r] = "none"
    /\ caller[r] = "ok" => txn[r] = "valid"
    /\ caller[r] = "invalid" => txn[r] = "invalid"

HandlerInv == TypeOK /\ \A r \in Requests : HandlerOK(r)

LEMMA HandlerInit == Init => HandlerInv
BY DEF Init, HandlerInv, HandlerOK, TypeOK, Results

(* A step of one request does not touch the others.                        *)
LEMMA OneRequest ==
    ASSUME HandlerInv, NEW r \in Requests,
           Caller(r) \/ TimeoutExpires(r) \/ Goroutine(r) \/ Commit(r)
    PROVE  TypeOK' /\ \A q \in Requests \ {r} : HandlerOK(q)'
<1> USE DEF HandlerInv, TypeOK, Results
<1>1. CASE Caller(r) \/ TimeoutExpires(r)
  BY <1>1 DEF Caller, Prepare, ReturnResponse, ReturnTimeout, Return, TimeoutExpires, HandlerOK
<1>2. CASE Endorse(r) \/ Complete(r)
  BY <1>2 DEF Endorse, Complete, End, HandlerOK
<1>3. CASE Register(r)
  BY <1>3 DEF Register, End, HandlerOK
<1>4. CASE Send(r)
  BY <1>4 DEF Send, End, HandlerOK
<1>5. CASE ReceiveStatus(r)
  BY <1>5 DEF ReceiveStatus, End, HandlerOK
<1>6. CASE StopWaiting(r)
  BY <1>6 DEF StopWaiting, End, HandlerOK
<1>7. CASE Commit(r)
  BY <1>7 DEF Commit, HandlerOK
<1> QED BY <1>1, <1>2, <1>3, <1>4, <1>5, <1>6, <1>7 DEF Goroutine

LEMMA OwnRequest ==
    ASSUME HandlerInv, NEW r \in Requests,
           Caller(r) \/ TimeoutExpires(r) \/ Goroutine(r) \/ Commit(r)
    PROVE  HandlerOK(r)'
<1> USE DEF HandlerInv, TypeOK, Results
<1>1. CASE Prepare(r)
  BY <1>1 DEF Prepare, Return, HandlerOK
<1>2. CASE ReturnResponse(r) \/ ReturnTimeout(r) \/ TimeoutExpires(r)
  BY <1>2 DEF ReturnResponse, ReturnTimeout, Return, TimeoutExpires, HandlerOK
<1>3. CASE Endorse(r) \/ Complete(r)
  BY <1>3 DEF Endorse, Complete, End, HandlerOK
<1>4. CASE Register(r)
  BY <1>4 DEF Register, End, HandlerOK
<1>5. CASE Send(r)
  BY <1>5 DEF Send, End, HandlerOK
<1>6. CASE ReceiveStatus(r)
  BY <1>6 DEF ReceiveStatus, End, HandlerOK
<1>7. CASE StopWaiting(r)
  BY <1>7 DEF StopWaiting, End, HandlerOK
<1>8. CASE Commit(r)
  BY <1>8 DEF Commit, HandlerOK
<1> QED BY <1>1, <1>2, <1>3, <1>4, <1>5, <1>6, <1>7, <1>8 DEF Caller, Goroutine

LEMMA HandlerNext == HandlerInv /\ [Next]_vars => HandlerInv'
<1> SUFFICES ASSUME HandlerInv, [Next]_vars PROVE HandlerInv'
  OBVIOUS
<1>1. CASE Next
  <2>1. PICK r \in Requests : Caller(r) \/ TimeoutExpires(r) \/ Goroutine(r) \/ Commit(r)
    BY <1>1 DEF Next
  <2>2. TypeOK' /\ \A q \in Requests \ {r} : HandlerOK(q)'
    BY <2>1, OneRequest
  <2>3. HandlerOK(r)'
    BY <2>1, OwnRequest
  <2> QED BY <2>2, <2>3 DEF HandlerInv
<1>2. CASE UNCHANGED vars
  BY <1>2 DEF vars, HandlerInv, HandlerOK, TypeOK
<1> QED BY <1>1, <1>2

(* What is reported as executed is a valid transaction.                    *)
THEOREM ReportedIsCommitted == Spec => []OkMeansCommitted
<1>1. HandlerInv => OkMeansCommitted
  BY DEF HandlerInv, HandlerOK, OkMeansCommitted
<1> QED BY <1>1, HandlerInit, HandlerNext, PTL DEF Spec

(* A handler that waits has not missed the status it waits for.            *)
THEOREM EventsAwaited == Spec => []NoMissedEvent
<1>1. HandlerInv => NoMissedEvent
  BY DEF HandlerInv, HandlerOK, NoMissedEvent
<1> QED BY <1>1, HandlerInit, HandlerNext, PTL DEF Spec

(* No registration outlives the goroutine that made it.                    *)
THEOREM RegistrationsEnd == Spec => []NoRegistrationLeft
<1>1. HandlerInv => NoRegistrationLeft
  BY DEF HandlerInv, HandlerOK, TypeOK, NoRegistrationLeft
<1> QED BY <1>1, HandlerInit, HandlerNext, PTL DEF Spec

-----------------------------------------------------------------------------
(* HeliosRoutes.                                                           *)

(* The shared variable holds, for whoever waits for the document, the id   *)
(* of its own organisation or of a request that came meanwhile.            *)
JoinOK(r) ==
    /\ join[r].at = "fetching" =>
           serviceId \in Orgs /\ \E q \in during[r] : serviceId = join[q].org
    /\ IF join[r].at = "answered" THEN \E q \in during[r] : added[r] = {join[q].org}
                                  ELSE added[r] = {}

HeliosInv == Helios!TypeOK /\ \A r \in Joins : JoinOK(r)

LEMMA HeliosInit == Helios!Init => HeliosInv
<1> SUFFICES ASSUME Helios!Init PROVE HeliosInv
  OBVIOUS
<1> USE DEF Helios!Init
<1>1. join \in [Joins -> [org : Orgs, at : {"none", "fetching", "answered", "silent"}]]
  OBVIOUS
<1>2. Helios!TypeOK
  BY <1>1 DEF Helios!TypeOK
<1>3. \A r \in Joins : join[r].at = "none" /\ added[r] = {}
  OBVIOUS
<1> QED BY <1>2, <1>3 DEF HeliosInv, JoinOK

(* A request for which nothing is added and that does not come to wait.    *)
LEMMA JoinStays ==
    ASSUME NEW q \in Joins, JoinOK(q), during' = during, added'[q] = added[q],
           \A k \in during[q] : join'[k].org = join[k].org,
           join'[q].at = join[q].at \/ (join[q].at = "fetching" /\ join'[q].at = "silent"),
           join'[q].at = "fetching" => serviceId' = serviceId
    PROVE  JoinOK(q)'
<1>1. CASE join[q].at = "fetching" /\ join'[q].at = "fetching"
  BY <1>1 DEF JoinOK
<1>2. CASE join[q].at = "answered"
  BY <1>2 DEF JoinOK
<1>3. CASE join[q].at # "answered" /\ join'[q].at # "fetching"
  BY <1>3 DEF JoinOK
<1> QED BY <1>1, <1>2, <1>3

(* What the three callbacks of joinNetwork leave of the invariant.         *)
LEMMA JoinKeeps ==
    ASSUME HeliosInv, NEW r \in Joins,
           Helios!JoinNetwork(r) \/ Helios!NetworkFound(r) \/ Helios!NetworkNotFound(r)
    PROVE  HeliosInv'
<1> USE DEF HeliosInv, Helios!TypeOK
<1> DEFINE Ats == {"none", "fetching", "answered", "silent"}
<1>0. join \in [Joins -> [org : Orgs, at : Ats]]
  OBVIOUS
<1>1. CASE Helios!JoinNetwork(r)
  <2>1. /\ serviceId' = join[r].org /\ join' = [join EXCEPT ![r].at = "fetching"]
        /\ join[r].at = "none" /\ UNCHANGED <<added, doc, fill>>
        /\ during' = [q \in Joins |-> IF q \in Helios!Waiting \cup {r} THEN during[q] \cup {r}
                                                                      ELSE during[q]]
    BY <1>1 DEF Helios!JoinNetwork, Helios!Remember
  <2>2. \A q \in Joins : /\ join'[q].org = join[q].org
                         /\ join'[q].at = IF q = r THEN "fetching" ELSE join[q].at
    BY <2>1
  <2>3. Helios!TypeOK'
    BY <2>1
  <2>4. \A q \in Joins : /\ q \in Helios!Waiting \cup {r} => r \in during'[q]
                         /\ during[q] \subseteq during'[q] /\ during[q] \subseteq Joins
    BY <2>1
  <2>5. ASSUME NEW q \in Joins PROVE JoinOK(q)'
    <3>1. JoinOK(q)
      OBVIOUS
    <3>2. join'[q].at = "fetching" => serviceId' \in Orgs /\ r \in during'[q] /\ serviceId' = join'[r].org
      BY <2>1, <2>2, <2>4 DEF Helios!Waiting
    <3>3. CASE join'[q].at = "answered"
      <4>1. join[q].at = "answered" /\ added'[q] = added[q]
        BY <2>1, <2>2, <3>3
      <4>2. PICK o \in during[q] : added[q] = {join[o].org}
        BY <3>1, <4>1 DEF JoinOK
      <4>3. o \in during'[q] /\ join'[o].org = join[o].org
        BY <2>2, <2>4
      <4> QED BY <3>2, <3>3, <4>1, <4>2, <4>3 DEF JoinOK
    <3>4. CASE join'[q].at # "answered"
      BY <2>1, <2>2, <3>1, <3>2, <3>4 DEF JoinOK
    <3> QED BY <3>3, <3>4
  <2> QED BY <2>3, <2>5
<1>2. CASE Helios!NetworkFound(r)
  <2>1. /\ join[r].at = "fetching" /\ UNCHANGED <<serviceId, during, doc, fill>>
        /\ JoinOK(r)
    BY <1>2 DEF Helios!NetworkFound
  <2>2. PICK o \in during[r] : serviceId = join[o].org
    BY <2>1 DEF JoinOK
  <2>3. added[r] = {} /\ serviceId \in Orgs /\ o \in Joins
    BY <2>1 DEF JoinOK
  <2>4. CASE /\ added' = [added EXCEPT ![r] = @ \cup {serviceId}]
             /\ join' = [join EXCEPT ![r].at = "answered"]
    <3>1. added'[r] = {serviceId} /\ \A q \in Joins \ {r} : added'[q] = added[q]
      BY <2>3, <2>4
    <3>2. \A q \in Joins : /\ join'[q].org = join[q].org
                           /\ join'[q].at = IF q = r THEN "answered" ELSE join[q].at
      BY <2>4
    <3>3. Helios!TypeOK'
      BY <2>1, <2>3, <2>4
    <3>4. JoinOK(r)'
      BY <2>1, <2>2, <2>3, <3>1, <3>2 DEF JoinOK
    <3>5. \A q \in Joins : \A k \in during[q] : join'[k].org = join[k].org
      BY <3>2
    <3>6. ASSUME NEW q \in Joins \ {r} PROVE JoinOK(q)'
      <4>1. JoinOK(q) /\ UNCHANGED <<during, serviceId>>
        BY <2>1
      <4>2. added'[q] = added[q] /\ join'[q].at = join[q].at
        BY <3>1, <3>2
      <4>3. \A k \in during[q] : join'[k].org = join[k].org
        BY <3>5
      <4> QED BY ONLY <4>1, <4>2, <4>3, JoinStays, Zenon DEF JoinOK
    <3> QED BY <3>3, <3>4, <3>6
  <2>5. CASE join' = [join EXCEPT ![r].at = "silent"] /\ added' = added
    <3>1. \A q \in Joins : /\ join'[q].org = join[q].org
                           /\ join'[q].at = IF q = r THEN "silent" ELSE join[q].at
      BY <2>5
    <3>2. Helios!TypeOK'
      BY <2>1, <2>5
    <3>3. \A q \in Joins : \A k \in during[q] : join'[k].org = join[k].org
      BY <3>1
    <3>4. ASSUME NEW q \in Joins PROVE JoinOK(q)'
      <4>1. JoinOK(q) /\ UNCHANGED <<during, serviceId>> /\ added'[q] = added[q]
        BY <2>1, <2>5
      <4>2. join'[q].at = join[q].at \/ (join[q].at = "fetching" /\ join'[q].at = "silent")
        BY <2>1, <3>1
      <4>3. \A k \in during[q] : join'[k].org = join[k].org
        BY <3>3
      <4> QED BY ONLY <4>1, <4>2, <4>3, JoinStays, Zenon DEF JoinOK
    <3> QED BY <3>2, <3>4
  <2> QED BY <1>2, <2>4, <2>5 DEF Helios!NetworkFound
<1>3. CASE Helios!NetworkNotFound(r)
  <2>1. join[r].at = "fetching" /\ UNCHANGED <<added, during>>
    BY <1>3 DEF Helios!NetworkNotFound
  <2>2. ASSUME NEW Q \in SUBSET Helios!Waiting,
               join' = [q \in Joins |-> IF q \in Q THEN [join[q] EXCEPT !.at = "silent"] ELSE join[q]],
               serviceId' = serviceId \/ Q = Helios!Waiting
        PROVE  (\A q \in Joins : JoinOK(q)') /\ join' \in [Joins -> [org : Orgs, at : Ats]]
    <3>1. \A q \in Joins : /\ join'[q].org = join[q].org
                           /\ join'[q].at = IF q \in Q THEN "silent" ELSE join[q].at
      BY <2>2
    <3>2. \A q \in Joins : q \in Q => join[q].at = "fetching"
      BY <2>2 DEF Helios!Waiting
    <3>3. \A q \in Joins : \A k \in during[q] : join'[k].org = join[k].org
      BY <3>1
    <3>4. \A q \in Joins : join'[q].at = "fetching" => serviceId' = serviceId
      BY <2>2, <3>1 DEF Helios!Waiting
    <3>5. ASSUME NEW q \in Joins PROVE JoinOK(q)'
      <4>1. JoinOK(q) /\ during' = during /\ added'[q] = added[q]
        BY <2>1
      <4>2. join'[q].at = join[q].at \/ (join[q].at = "fetching" /\ join'[q].at = "silent")
        BY <3>1, <3>2
      <4>3. \A k \in during[q] : join'[k].org = join[k].org
        BY <3>3
      <4>4. join'[q].at = "fetching" => serviceId' = serviceId
        BY <3>4
      <4> QED BY ONLY <4>1, <4>2, <4>3, <4>4, JoinStays, Zenon DEF JoinOK
    <3> QED BY <2>2, <3>5
  <2>3. CASE join' = [join EXCEPT ![r].at = "silent"] /\ UNCHANGED <<serviceId, doc, fill>>
    <3>1. {r} \in SUBSET Helios!Waiting
      BY <2>1 DEF Helios!Waiting
    <3>2. join' = [q \in Joins |-> IF q \in {r} THEN [join[q] EXCEPT !.at = "silent"] ELSE join[q]]
      BY <2>3
    <3>3. (\A q \in Joins : JoinOK(q)') /\ join' \in [Joins -> [org : Orgs, at : Ats]]
      BY <2>2, <2>3, <3>1, <3>2
    <3> QED BY <2>1, <2>3, <3>3
  <2>4. CASE /\ serviceId' = Helios!Undefined
             /\ join' = [q \in Joins |-> IF q \in Helios!Waiting THEN [join[q] EXCEPT !.at = "silent"]
                                                                 ELSE join[q]]
             /\ doc' = [q \in DocRequests |-> IF doc[q] = {} THEN {} ELSE doc[q] \cup {"lost"}]
             /\ fill' = [p \in Fills |-> IF fill[p].at = "fetching" THEN [fill[p] EXCEPT !.at = "lost"]
                                                                  ELSE fill[p]]
    <3>1. (\A q \in Joins : JoinOK(q)') /\ join' \in [Joins -> [org : Orgs, at : Ats]]
      BY <2>2, <2>4
    <3>2. doc' \in [DocRequests -> SUBSET {"asked", "fetched", "answered", "lost"}]
      BY <2>4
    <3>3. fill' \in [Fills -> [skipCache : BOOLEAN, namesKnown : BOOLEAN,
                              at : {"none", "fetching", "filled", "error", "lost"}]]
      BY <2>4
    <3> QED BY <2>1, <2>4, <3>1, <3>2, <3>3
  <2> QED BY <1>3, <2>3, <2>4 DEF Helios!NetworkNotFound
<1> QED BY <1>1, <1>2, <1>3

LEMMA HeliosNext == HeliosInv /\ [Helios!Next]_heliosVars => HeliosInv'
<1> SUFFICES ASSUME HeliosInv, [Helios!Next]_heliosVars PROVE HeliosInv'
  OBVIOUS
<1> USE DEF HeliosInv, JoinOK, Helios!TypeOK
<1>1. ASSUME NEW r \in DocRequests, Helios!GetIBMIdDoc(r)
      PROVE  HeliosInv'
  BY <1>1 DEF Helios!GetIBMIdDoc
<1>2. ASSUME NEW p \in Fills, Helios!PopulatePeersOrderers(p) \/ Helios!DocumentRead(p)
      PROVE  HeliosInv'
  <2>1. PICK at2 \in {"fetching", "filled", "error"} : fill' = [fill EXCEPT ![p].at = at2]
    BY <1>2 DEF Helios!PopulatePeersOrderers, Helios!DocumentRead, Helios!DoWork
  <2>2. UNCHANGED <<serviceId, join, added, during, doc>>
    BY <1>2 DEF Helios!PopulatePeersOrderers, Helios!DocumentRead
  <2> QED BY <2>1, <2>2
<1>3. CASE UNCHANGED heliosVars
  BY <1>3 DEF heliosVars
<1> QED BY <1>1, <1>2, <1>3, JoinKeeps DEF Helios!Next

(* The organisation that an answered joinNetwork has added is its own or   *)
(* that of a request which came while it waited, and there is just one.    *)
THEOREM JoinsGoAstrayOnlyInOverlaps == Helios!Spec => []OnlyOverlapsHarm
<1>1. HeliosInv => OnlyOverlapsHarm
  BY DEF HeliosInv, JoinOK, OnlyOverlapsHarm, Helios!OnlyOverlapsHarm
<1> QED BY <1>1, HeliosInit, HeliosNext, PTL DEF Helios!Spec, Helios!heliosVars, heliosVars

-----------------------------------------------------------------------------
(* JoinChannel.                                                            *)

(* Until its promises run, a run has sent nothing; until its end, it has   *)
(* said nothing and has no exit code.                                      *)
ScriptInv ==
    /\ Script!TypeOK
    /\ at \notin {"join", "ended"} => contacted = {}
    /\ at # "ended" => said = "nothing" /\ exit = "running"
    /\ Script!LogIsTrue

LEMMA ScriptInit == Script!Init => ScriptInv
BY DEF Script!Init, Script!Started, ScriptInv, Script!TypeOK, Script!Steps, Script!LogIsTrue

LEMMA ScriptNext == ScriptInv /\ [Script!Next]_joinVars => ScriptInv'
<1> SUFFICES ASSUME ScriptInv, [Script!Next]_joinVars PROVE ScriptInv'
  OBVIOUS
<1> USE DEF ScriptInv, Script!TypeOK, Script!Steps, Script!LogIsTrue
<1>1. CASE Script!ReadConfig \/ Script!ReadProfile \/ Script!MakePeer \/ Script!MakeOrderer
  BY <1>1 DEF Script!ReadConfig, Script!ReadProfile, Script!MakePeer, Script!MakeOrderer,
              Script!Goto, Script!Throw
<1>2. CASE Script!GetUser \/ Script!GetGenesisBlock
  BY <1>2 DEF Script!GetUser, Script!GetGenesisBlock, Script!Goto, Script!End
<1>3. CASE Script!SendJoin
  BY <1>3 DEF Script!SendJoin, Script!Report, Script!End
<1>4. CASE Script!Rerun
  BY <1>4 DEF Script!Rerun
<1>5. CASE UNCHANGED joinVars
  BY <1>5 DEF joinVars
<1> QED BY <1>1, <1>2, <1>3, <1>4, <1>5 DEF Script!Next

(* A run that says that the peer has joined is right, one that exits with  *)
(* an error has asked nobody, and one that ends with 0 has said something. *)
THEOREM ScriptTellsTheTruth == Script!Spec => []LogIsTrue
<1>1. ScriptInv => LogIsTrue
  BY DEF ScriptInv, LogIsTrue
<1> QED BY <1>1, ScriptInit, ScriptNext, PTL DEF Script!Spec, Script!joinVars, joinVars

-----------------------------------------------------------------------------
(* JenkinsCrumb.                                                           *)

(* A call that goes on has no build and no outcome yet: whatever queues a  *)
(* build also ends the call, because only a refusal is tried again.        *)
CallOK(c) ==
    /\ call[c].at # "returned" => call[c].builds = 0 /\ call[c].outcome = "none"
    /\ call[c].builds <= 1
    /\ call[c].outcome = "ok" => call[c].builds = 1
    /\ call[c].outcome \in {"403", "panic"} => call[c].builds = 0

CrumbInv == Crumb!TypeOK /\ \A c \in Callers : CallOK(c)

LEMMA CrumbInit == Crumb!Init => CrumbInv
<1> SUFFICES ASSUME Crumb!Init PROVE CrumbInv
  OBVIOUS
<1>1. 1 \in Crumb!Epochs /\ 0 \in 0 .. MaxMisses
  BY MCServicesAssumption DEF Crumb!Epochs
<1> QED
  BY <1>1 DEF Crumb!Init, CrumbInv, CallOK, Crumb!TypeOK, Crumb!NewCall, Crumb!NoHeader,
              Crumb!Strings, Crumb!Empty

(* The states of a call.                                                   *)
CallStates ==
    [at : {"check", "add", "sent", "refresh", "field", "crumb", "returned"},
     attempt : {1, 2}, header : Crumb!Strings \X Crumb!Strings, got : Crumb!Strings,
     builds : 0 .. 2, outcome : {"none", "ok", "403", "error", "panic"}]

(* It is enough that the call of the goroutine that makes a step ends up   *)
(* in a good state.                                                        *)
LEMMA OneCall ==
    ASSUME CrumbInv, NEW c \in Callers, call' \in [Callers -> CallStates],
           \A d \in Callers \ {c} : call'[d] = call[d], CallOK(c)',
           epoch' \in Crumb!Epochs, misses' \in 0 .. MaxMisses,
           field' \in Crumb!Strings \cup {Crumb!Torn},
           crumb' \in Crumb!Strings \cup {Crumb!Torn}
    PROVE  CrumbInv'
<1>1. Crumb!TypeOK'
  BY DEF Crumb!TypeOK, CallStates
<1>2. \A d \in Callers : CallOK(d)'
  BY DEF CallOK, CrumbInv
<1> QED BY <1>1, <1>2 DEF CrumbInv

LEMMA StepKeeps ==
    ASSUME CrumbInv, NEW c \in Callers, Crumb!TriggerJob(c) \/ Crumb!Step(c)
    PROVE  CrumbInv'
<1>1. /\ call \in [Callers -> CallStates] /\ call[c] \in CallStates
      /\ epoch \in Crumb!Epochs /\ misses \in 0 .. MaxMisses
      /\ field \in Crumb!Strings \cup {Crumb!Torn}
      /\ crumb \in Crumb!Strings \cup {Crumb!Torn}
  BY DEF CrumbInv, Crumb!TypeOK, CallStates
<1>2. CallOK(c)
  BY DEF CrumbInv
<1>3. Crumb!NewCall \in CallStates /\ Crumb!NoHeader \in Crumb!Strings \X Crumb!Strings
  BY DEF Crumb!NewCall, CallStates, Crumb!NoHeader, Crumb!Strings
<1>4. CASE Crumb!TriggerJob(c)
  <2>1. CallOK(c)'
    BY <1>1, <1>4 DEF Crumb!TriggerJob, CallOK, Crumb!NewCall
  <2> QED BY <1>1, <1>3, <1>4, <2>1, OneCall DEF Crumb!TriggerJob
<1>5. CASE Crumb!CheckHeader(c)
  <2>1. call' \in [Callers -> CallStates] /\ CallOK(c)'
    BY <1>1, <1>2, <1>3, <1>5 DEF Crumb!CheckHeader, CallStates, CallOK
  <2> QED BY <1>1, <1>5, <2>1, OneCall DEF Crumb!CheckHeader
<1>6. CASE Crumb!AddHeader(c)
  <2>1. Crumb!Torn \notin {field, crumb} => <<field, crumb>> \in Crumb!Strings \X Crumb!Strings
    BY <1>1
  <2>2. call' \in [Callers -> CallStates] /\ CallOK(c)'
    BY <1>1, <1>2, <1>6, <2>1 DEF Crumb!AddHeader, CallStates, CallOK
  <2> QED BY <1>1, <1>6, <2>2, OneCall DEF Crumb!AddHeader
<1>7. CASE Crumb!Answer(c)
  <2>1. ASSUME NEW answer \in {"ok", "error", "403"}, NEW queued \in {0, 1},
               queued = 1 => answer # "403", answer = "ok" => queued = 1,
               call[c].at = "sent", Crumb!Return(c, answer, queued)
        PROVE  call' \in [Callers -> CallStates] /\ CallOK(c)'
               /\ \A d \in Callers \ {c} : call'[d] = call[d]
    <3>1. call[c].builds = 0 /\ call[c].outcome = "none"
      BY <1>2, <2>1 DEF CallOK
    <3>2. call[c].builds + queued = queued /\ queued \in 0 .. 2
      BY <3>1
    <3>3. CASE Crumb!Retries(call[c].attempt, answer)
      <4>1. call' = [call EXCEPT ![c].builds = @ + queued, ![c].at = "refresh"]
        BY <2>1, <3>3 DEF Crumb!Return
      <4>2. queued = 0
        BY <2>1, <3>3 DEF Crumb!Retries
      <4>3. call' \in [Callers -> CallStates] /\ \A d \in Callers \ {c} : call'[d] = call[d]
        BY <1>1, <3>2, <4>1 DEF CallStates
      <4>4. call'[c].builds = queued /\ call'[c].outcome = "none"
        BY <1>1, <3>1, <3>2, <4>1 DEF CallStates
      <4> QED BY <4>2, <4>3, <4>4 DEF CallOK
    <3>4. CASE ~Crumb!Retries(call[c].attempt, answer)
      <4>1. call' = [call EXCEPT ![c].builds = @ + queued, ![c].at = "returned",
                                 ![c].outcome = answer]
        BY <2>1, <3>4 DEF Crumb!Return
      <4>2. call' \in [Callers -> CallStates] /\ \A d \in Callers \ {c} : call'[d] = call[d]
        BY <1>1, <3>2, <4>1 DEF CallStates
      <4>3. call'[c].at = "returned" /\ call'[c].builds = queued /\ call'[c].outcome = answer
        BY <1>1, <3>1, <3>2, <4>1 DEF CallStates
      <4> QED BY <2>1, <4>2, <4>3 DEF CallOK
    <3> QED BY <3>3, <3>4
  <2> QED BY <1>1, <1>7, <2>1, OneCall DEF Crumb!Answer
<1>8. CASE Crumb!GetJenkinsCrumb(c)
  <2>1. ASSUME NEW got \in Crumb!Strings, call[c].at = "refresh",
               call' = [call EXCEPT ![c].at = "field", ![c].got = got]
        PROVE  call' \in [Callers -> CallStates] /\ CallOK(c)'
               /\ \A d \in Callers \ {c} : call'[d] = call[d]
    BY <1>1, <1>2, <2>1 DEF CallStates, CallOK
  <2>2. epoch \in Crumb!Strings /\ Crumb!Empty \in Crumb!Strings
    BY <1>1 DEF Crumb!Strings
  <2>3. misses < MaxMisses => misses + 1 \in 0 .. MaxMisses
    BY <1>1, MCServicesAssumption
  <2>4. ASSUME call[c].at = "refresh", call' = [call EXCEPT ![c].at = "returned", ![c].outcome = "panic"]
        PROVE  call' \in [Callers -> CallStates] /\ CallOK(c)'
               /\ \A d \in Callers \ {c} : call'[d] = call[d]
    BY <1>1, <1>2, <2>4 DEF CallStates, CallOK
  <2> QED BY <1>1, <1>8, <2>1, <2>2, <2>3, <2>4, OneCall DEF Crumb!GetJenkinsCrumb
<1>9. CASE Crumb!StoreField(c)
  <2>1. call' \in [Callers -> CallStates] /\ CallOK(c)'
    BY <1>1, <1>2, <1>9 DEF Crumb!StoreField, CallStates, CallOK
  <2>2. field' \in Crumb!Strings \cup {Crumb!Torn} /\ \A d \in Callers \ {c} : call'[d] = call[d]
    BY <1>1, <1>9 DEF Crumb!StoreField, CallStates
  <2> QED BY <1>1, <1>9, <2>1, <2>2, OneCall DEF Crumb!StoreField
<1>10. CASE Crumb!StoreCrumb(c)
  <2>1. call' \in [Callers -> CallStates] /\ CallOK(c)'
    BY <1>1, <1>2, <1>10 DEF Crumb!StoreCrumb, CallStates, CallOK
  <2>2. crumb' \in Crumb!Strings \cup {Crumb!Torn} /\ \A d \in Callers \ {c} : call'[d] = call[d]
    BY <1>1, <1>10 DEF Crumb!StoreCrumb, CallStates
  <2> QED BY <1>1, <1>10, <2>1, <2>2, OneCall DEF Crumb!StoreCrumb
<1> QED BY <1>4, <1>5, <1>6, <1>7, <1>8, <1>9, <1>10 DEF Crumb!Step

LEMMA CrumbNext == CrumbInv /\ [Crumb!Next]_crumbVars => CrumbInv'
<1> SUFFICES ASSUME CrumbInv, [Crumb!Next]_crumbVars PROVE CrumbInv'
  OBVIOUS
<1>1. CASE Crumb!Rotate
  <2>1. epoch' \in Crumb!Epochs
    BY <1>1, MCServicesAssumption DEF Crumb!Rotate, Crumb!Epochs, CrumbInv, Crumb!TypeOK
  <2> QED BY <1>1, <2>1 DEF Crumb!Rotate, CrumbInv, Crumb!TypeOK, CallOK
<1>2. CASE UNCHANGED crumbVars
  BY <1>2 DEF crumbVars, CrumbInv, Crumb!TypeOK, CallOK
<1> QED BY <1>1, <1>2, StepKeeps DEF Crumb!Next

(* However the goroutines and Jenkins' changes of its crumb interleave, no *)
(* call of TriggerJob queues two builds, and what it returns can be relied *)
(* on: the part of CrumbIsShared that is not about what happens in the end.*)
THEOREM CallsTriggerOnce == Crumb!Spec => []Crumb!TriggeredOnce
<1>1. CrumbInv => Crumb!TriggeredOnce
  BY DEF CrumbInv, CallOK, Crumb!TriggeredOnce
<1> QED BY <1>1, CrumbInit, CrumbNext, PTL DEF Crumb!Spec, Crumb!crumbVars, crumbVars

-----------------------------------------------------------------------------
(* JwksManager, of which TLC checks that every token gets its verdict.     *)

LEMMA JwksInit == Jwks!Init => Jwks!TypeOK
BY DEF Jwks!Init, Jwks!TypeOK, Jwks!Copies

LEMMA JwksNext == Jwks!TypeOK /\ [Jwks!Next]_jwksVars => Jwks!TypeOK'
<1> SUFFICES ASSUME Jwks!TypeOK, [Jwks!Next]_jwksVars PROVE Jwks!TypeOK'
  OBVIOUS
<1> USE DEF Jwks!TypeOK, Jwks!Copies, Jwks!Updated, Jwks!Read
<1>1. CASE Jwks!Rotate \/ Jwks!Fetch
  BY <1>1 DEF Jwks!Rotate, Jwks!Fetch
<1>2. CASE Jwks!Lock \/ Jwks!Unlock
  BY <1>2 DEF Jwks!Lock, Jwks!Unlock
<1>3. ASSUME NEW q \in Tokens, Jwks!Arrive(q) \/ Jwks!RLock(q) \/ Jwks!Verify(q)
      PROVE  Jwks!TypeOK'
  <2> DEFINE Held == [kid : Keys, at : {"lock", "locked"}]
  <2>1. CASE Jwks!Arrive(q)
    <3>1. PICK k \in Keys : token' = [token EXCEPT ![q] = [kid |-> k, at |-> "lock"]]
      BY <2>1 DEF Jwks!Arrive
    <3>2. [kid |-> k, at |-> "lock"] \in Held
      OBVIOUS
    <3> HIDE DEF Held
    <3>3. token' \in [Tokens -> Held \cup {Jwks!NoToken}]
      BY <3>1, <3>2 DEF Held
    <3> QED BY <2>1, <3>3 DEF Jwks!Arrive, Held
  <2>2. CASE Jwks!RLock(q)
    <3>1. token[q] \in Held
      BY <2>2 DEF Jwks!RLock, Jwks!NoToken
    <3>2. [token[q] EXCEPT !.at = "locked"] \in Held
      BY <3>1
    <3>3. token' \in [Tokens -> Held \cup {Jwks!NoToken}]
      BY <2>2, <3>2 DEF Jwks!RLock
    <3> QED BY <2>2, <3>3 DEF Jwks!RLock
  <2>3. CASE Jwks!Verify(q)
    BY <2>3 DEF Jwks!Verify
  <2> QED BY <1>3, <2>1, <2>2, <2>3
<1>4. CASE UNCHANGED jwksVars
  BY <1>4 DEF jwksVars
<1> QED BY <1>1, <1>2, <1>3, <1>4 DEF Jwks!Next

-----------------------------------------------------------------------------
(* All of them.  A part that does nothing satisfies what is said of it, or *)
(* keeps the values it has.                                                *)
PartInv ==
    /\ HandlerInv
    /\ part = "helios" => HeliosInv
    /\ part # "helios" => \A r \in Joins : join[r].at = "off" /\ added[r] = {}
    /\ part = "script" => ScriptInv
    /\ part # "script" => said = "nothing" /\ exit = "1" /\ contacted = {}
    /\ Jwks!TypeOK
    /\ CrumbInv

LEMMA PartInvInit == PartInit => PartInv
<1> SUFFICES ASSUME PartInit PROVE PartInv
  OBVIOUS
<1>1. HandlerInv
  BY HandlerInit DEF PartInit, HandlerOff, HandlerInv, HandlerOK, TypeOK, Results
<1>2. /\ part = "helios" => HeliosInv
      /\ part # "helios" => \A r \in Joins : join[r].at = "off" /\ added[r] = {}
  BY HeliosInit DEF PartInit, HeliosOff
<1>3. /\ part = "script" => ScriptInv
      /\ part # "script" => said = "nothing" /\ exit = "1" /\ contacted = {}
  BY ScriptInit DEF PartInit, ScriptOff
<1>4. Jwks!TypeOK
  <2>1. JwksOff => Jwks!TypeOK
    BY DEF JwksOff, Jwks!TypeOK, Jwks!Copies
  <2> QED BY <2>1, JwksInit DEF PartInit
<1> QED BY <1>1, <1>2, <1>3, <1>4, CrumbInit DEF PartInit, PartInv

LEMMA PartInvNext == PartInv /\ [PartNext]_partVars => PartInv'
<1> SUFFICES ASSUME PartInv, [PartNext]_partVars PROVE PartInv'
  OBVIOUS
<1>1. part' = part
  BY DEF PartNext, partVars
<1>2. /\ [Next]_vars /\ [Jwks!Next]_jwksVars /\ [Crumb!Next]_crumbVars
      /\ [Helios!Next]_heliosVars /\ [Script!Next]_joinVars
      /\ part # "helios" => UNCHANGED heliosVars
      /\ part # "script" => UNCHANGED joinVars
  BY DEF PartNext, partVars, handlerVars
<1>3. HandlerInv' /\ Jwks!TypeOK' /\ CrumbInv'
  BY <1>2, HandlerNext, JwksNext, CrumbNext DEF PartInv
<1>4. /\ part' = "helios" => HeliosInv'
      /\ part' # "helios" => \A r \in Joins : join'[r].at = "off" /\ added'[r] = {}
  BY <1>1, <1>2, HeliosNext DEF PartInv, heliosVars
<1>5. /\ part' = "script" => ScriptInv'
      /\ part' # "script" => said' = "nothing" /\ exit' = "1" /\ contacted' = {}
  BY <1>1, <1>2, ScriptNext DEF PartInv, joinVars
<1> QED BY <1>3, <1>4, <1>5 DEF PartInv

(* Whichever part is at work, every part is well-typed.                    *)
THEOREM PartTypes == PartSpec => []PartTypeOK
<1>1. PartInv => PartTypeOK
  BY DEF PartInv, PartTypeOK, HandlerInv, HeliosInv, ScriptInv, CrumbInv
<1> QED BY <1>1, PartInvInit, PartInvNext, PTL DEF PartSpec

(* And what is proved of the parts one by one holds of the whole that TLC  *)
(* checks.                                                                 *)
THEOREM PartsKeepTheirPromises ==
    PartSpec => [](/\ OkMeansCommitted /\ NoMissedEvent /\ NoRegistrationLeft
                   /\ OnlyOverlapsHarm /\ LogIsTrue /\ Crumb!TriggeredOnce)
<1>1. PartInv => OkMeansCommitted /\ NoMissedEvent /\ NoRegistrationLeft
  BY DEF PartInv, HandlerInv, HandlerOK, TypeOK, OkMeansCommitted, NoMissedEvent,
         NoRegistrationLeft
<1>2. PartInv => OnlyOverlapsHarm
  BY DEF PartInv, HeliosInv, JoinOK, OnlyOverlapsHarm, Helios!OnlyOverlapsHarm
<1>3. PartInv => LogIsTrue
  BY DEF PartInv, ScriptInv, LogIsTrue, Script!LogIsTrue
<1>4. PartInv => Crumb!TriggeredOnce
  BY DEF PartInv, CrumbInv, CallOK, Crumb!TriggeredOnce
<1> QED BY <1>1, <1>2, <1>3, <1>4, PartInvInit, PartInvNext, PTL DEF PartSpec
=============================================================================
