---------------------------- MODULE InvokeHandler ----------------------------
(***************************************************************************)
(* Execute of the Go test module's channel client                          *)
(* (modules/gosdk/chaincode/utils): InvokeHandler hands a request to a     *)
(* goroutine that runs the chain of handlers (endorse, validate, commit)   *)
(* and waits for it or for the request's timeout.  Peers and orderers are  *)
(* external; Execute passes no retry options, so a request is tried once.  *)
(***************************************************************************)
CONSTANTS Requests    \* requests made at the same time by one client

VARIABLES
    caller,      \* caller[r]: "prepare", "select", or what InvokeHandler returned
    ctx,         \* ctx[r]: whether the request's context is "live" or "done"
    handler,     \* handler[r]: where the goroutine is
    err,         \* err[r]: requestContext.Error
    registered,  \* the requests with a registration at the event service
    notice,      \* notice[r]: the event in the statusNotifier channel
    txn          \* txn[r]: the fate of the transaction

vars == <<caller, ctx, handler, err, registered, notice, txn>>

Results == {"ok", "error", "invalid", "timeout"}

TypeOK ==
    /\ caller \in [Requests -> {"prepare", "select"} \cup Results]
    /\ ctx \in [Requests -> {"live", "done"}]
    /\ handler \in [Requests -> {"none", "endorse", "register", "send", "wait",
                                 "complete", "gone"}]
    /\ err \in [Requests -> Results]
    /\ registered \subseteq Requests
    /\ notice \in [Requests -> {"none", "valid", "invalid"}]
    /\ txn \in [Requests -> {"none", "ordered", "lost", "valid", "invalid"}]

Init ==
    /\ caller = [r \in Requests |-> "prepare"]
    /\ ctx = [r \in Requests |-> "live"]
    /\ handler = [r \in Requests |-> "none"]
    /\ err = [r \in Requests |-> "ok"]
    /\ registered = {}
    /\ notice = [r \in Requests |-> "none"]
    /\ txn = [r \in Requests |-> "none"]

-----------------------------------------------------------------------------
(* The caller.  Every return cancels the context.                          *)

Return(r, result) ==
    /\ caller' = [caller EXCEPT ![r] = result]
    /\ ctx' = [ctx EXCEPT ![r] = "done"]

(* Options and contexts are prepared before the goroutine is started.      *)
Prepare(r) ==
    /\ caller[r] = "prepare"
    /\ \/ /\ caller' = [caller EXCEPT ![r] = "select"]
          /\ handler' = [handler EXCEPT ![r] = "endorse"]
          /\ UNCHANGED ctx
       \/ Return(r, "error") /\ UNCHANGED handler
    /\ UNCHANGED <<err, registered, notice, txn>>

(* case <-complete                                                         *)
ReturnResponse(r) ==
    /\ caller[r] = "select" /\ handler[r] = "gone"
    /\ Return(r, err[r])
    /\ UNCHANGED <<handler, err, registered, notice, txn>>

(* case <-reqCtx.Done()                                                    *)
ReturnTimeout(r) ==
    /\ caller[r] = "select" /\ ctx[r] = "done"
    /\ Return(r, "timeout")
    /\ UNCHANGED <<handler, err, registered, notice, txn>>

(* The timeout of the request's context.                                   *)
TimeoutExpires(r) ==
    /\ caller[r] = "select" /\ ctx[r] = "live"
    /\ ctx' = [ctx EXCEPT ![r] = "done"]
    /\ UNCHANGED <<caller, handler, err, registered, notice, txn>>

-----------------------------------------------------------------------------
(* The goroutine.  A handler that sets the error does not call the next.   *)

End(r, e) ==
    /\ err' = [err EXCEPT ![r] = e]
    /\ handler' = [handler EXCEPT ![r] = "complete"]

(* Selecting endorsers, their endorsements and the two validations.        *)
Endorse(r) ==
    /\ handler[r] = "endorse"
    /\ \/ handler' = [handler EXCEPT ![r] = "register"] /\ UNCHANGED err
       \/ End(r, "error")
    /\ UNCHANGED <<caller, ctx, registered, notice, txn>>

(* A fault of Register: the handler does not register.                     *)
RegisterNothing(r) ==
    /\ handler[r] = "register"
    /\ handler' = [handler EXCEPT ![r] = "send"]
    /\ UNCHANGED <<caller, ctx, err, registered, notice, txn>>

Register(r) ==
    /\ handler[r] = "register"
    /\ \/ /\ registered' = registered \cup {r}
          /\ handler' = [handler EXCEPT ![r] = "send"]
          /\ UNCHANGED err
       \/ End(r, "error") /\ UNCHANGED registered
    /\ UNCHANGED <<caller, ctx, notice, txn>>

(* A fault of Send: no Unregister where sending fails.                     *)
SendKeepsRegistration(r) ==
    /\ handler[r] = "send"
    /\ \/ /\ txn' = [txn EXCEPT ![r] = "ordered"]
          /\ handler' = [handler EXCEPT ![r] = "wait"]
          /\ UNCHANGED err
       \/ End(r, "error") /\ UNCHANGED txn
    /\ UNCHANGED <<caller, ctx, registered, notice>>

(* createAndSendTransaction; an orderer may take the transaction and yet   *)
(* the answer be an error.                                                 *)
Send(r) ==
    /\ handler[r] = "send"
    /\ \/ /\ txn' = [txn EXCEPT ![r] = "ordered"]
          /\ handler' = [handler EXCEPT ![r] = "wait"]
          /\ UNCHANGED <<err, registered>>
       \/ /\ \E fate \in {"none", "ordered"} : txn' = [txn EXCEPT ![r] = fate]
          /\ End(r, "error")
          /\ registered' = registered \ {r}
    /\ UNCHANGED <<caller, ctx, notice>>

(* Two faults of ReceiveStatus: any status is a success; the status itself *)
(* becomes the error, VALID included.                                      *)
ReceiveAnyStatus(r) ==
    /\ handler[r] = "wait" /\ notice[r] # "none"
    /\ End(r, "ok")
    /\ notice' = [notice EXCEPT ![r] = "none"]
    /\ registered' = registered \ {r}
    /\ UNCHANGED <<caller, ctx, txn>>

ReceiveAsError(r) ==
    /\ handler[r] = "wait" /\ notice[r] # "none"
    /\ End(r, notice[r])
    /\ notice' = [notice EXCEPT ![r] = "none"]
    /\ registered' = registered \ {r}
    /\ UNCHANGED <<caller, ctx, txn>>

(* case txStatus := <-statusNotifier                                       *)
ReceiveStatus(r) ==
    /\ handler[r] = "wait" /\ notice[r] # "none"
    /\ End(r, IF notice[r] = "valid" THEN "ok" ELSE "invalid")
    /\ notice' = [notice EXCEPT ![r] = "none"]
    /\ registered' = registered \ {r}
    /\ UNCHANGED <<caller, ctx, txn>>

(* case <-requestContext.Ctx.Done()                                        *)
StopWaiting(r) ==
    /\ handler[r] = "wait" /\ ctx[r] = "done"
    /\ End(r, "timeout")
    /\ registered' = registered \ {r}
    /\ UNCHANGED <<caller, ctx, notice, txn>>

(* A fault of Complete: the channel has no place.                          *)
CompleteUnbuffered(r) ==
    /\ handler[r] = "complete" /\ caller[r] = "select"
    /\ handler' = [handler EXCEPT ![r] = "gone"]
    /\ UNCHANGED <<caller, ctx, err, registered, notice, txn>>

(* complete <- true, into a channel with one place.                        *)
Complete(r) ==
    /\ handler[r] = "complete"
    /\ handler' = [handler EXCEPT ![r] = "gone"]
    /\ UNCHANGED <<caller, ctx, err, registered, notice, txn>>

-----------------------------------------------------------------------------
(* External: the transaction reaches a block, or never does; the event     *)
(* service tells whoever is registered at that time.                       *)
Commit(r) ==
    /\ txn[r] = "ordered"
    /\ \E fate \in {"valid", "invalid", "lost"} :
           /\ txn' = [txn EXCEPT ![r] = fate]
           /\ notice' = IF r \in registered /\ fate # "lost"
                        THEN [notice EXCEPT ![r] = fate] ELSE notice
    /\ UNCHANGED <<caller, ctx, handler, err, registered>>

Caller(r) == Prepare(r) \/ ReturnResponse(r) \/ ReturnTimeout(r)

Goroutine(r) ==
    \/ Endorse(r) \/ Register(r) \/ Send(r)
    \/ ReceiveStatus(r) \/ StopWaiting(r) \/ Complete(r)

Next == \E r \in Requests :
    Caller(r) \/ TimeoutExpires(r) \/ Goroutine(r) \/ Commit(r)

Spec == Init /\ [][Next]_vars

(* Goroutines are scheduled and timers fire; the network owes nothing.     *)
Fairness == \A r \in Requests :
    WF_vars(Caller(r)) /\ WF_vars(TimeoutExpires(r)) /\ WF_vars(Goroutine(r))

FairSpec == Spec /\ Fairness
-----------------------------------------------------------------------------
(* Properties.                                                             *)

(* A request that is reported as executed, and counted as such by          *)
(* InvokeChaincode, is a valid transaction in the ledger, and one whose    *)
(* transaction was found invalid is reported as invalid.                   *)
OkMeansCommitted ==
    \A r \in Requests :
        /\ caller[r] = "ok" => txn[r] = "valid"
        /\ caller[r] = "invalid" => txn[r] = "invalid"

(* The status of a transaction never slips past the handler that waits for *)
(* it: registration precedes the broadcast.                                *)
NoMissedEvent ==
    \A r \in Requests :
        handler[r] = "wait" /\ txn[r] \in {"valid", "invalid"} => notice[r] = txn[r]

(* Whatever ends a request, its registration at the event service ends     *)
(* with its goroutine.                                                     *)
NoRegistrationLeft == \A r \in registered : handler[r] \in {"send", "wait"}

(* The caller returns by the timeout, and the goroutine that it may have   *)
(* left behind ends as well.                                               *)
NobodyStuck ==
    \A r \in Requests : <>(caller[r] \in Results /\ handler[r] \in {"none", "gone"})
=============================================================================
