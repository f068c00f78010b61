---------------------------- MODULE IterateFunc ----------------------------
(***************************************************************************)
(* IterateFunc of the Go test module (modules/gosdk/common/utility.go):    *)
(* run an iteration function N times, or until a timer fires, in at most   *)
(* routineLimit goroutines, count successes and failures, and return an    *)
(* error that was not to be ignored.                                       *)
(*                                                                         *)
(* The caller's loop and the goroutines share two buffered channels of     *)
(* capacity routineLimit: throttle, which bounds the goroutines, and       *)
(* errChan, which carries their errors to the loop and, after the          *)
(* WaitGroup, to the deferred function, which then closes both.            *)
(***************************************************************************)
EXTENDS Integers, Sequences, FiniteSets

CONSTANTS
    N,             \* iterationCount; when the loop is timed, a bound on it
    Flags,         \* the values of --concurrencyLimit to consider
    UpperLimit,    \* ROUTINE_UPPER_LIMIT
    DefaultLimit,  \* DEFAULT_ROUTINE_LIMIT
    NoError,       \* nil
    ParseError     \* "Error parsing iterationCount"

Iterations == 0..(N - 1)

ASSUME IterateFuncAssumption ==
    /\ N \in Nat
    /\ Flags \subseteq Int
    /\ UpperLimit \in Nat /\ DefaultLimit \in Nat
    /\ NoError # ParseError /\ NoError \notin Nat /\ ParseError \notin Nat

VARIABLES
    run,       \* the parameters of this run, which never change
    pc,        \* where the caller is
    iter,      \* base.currentIter
    timer,     \* whether timer.C has something to read
    throttle,  \* number of tokens in the channel
    errChan,   \* the errors in the channel, each named by its iteration
    wg,        \* the WaitGroup's counter
    g,         \* g[i]: the goroutine of iteration i
    outcome,   \* outcome[i]: what iterFunc(i) returned
    success, fail,
    retErr     \* the iteration whose error is returned, or NoError

vars == <<run, pc, iter, timer, throttle, errChan, wg, g, outcome, success, fail, retErr>>

Runs == [mode : {"count", "duration", "invalid"}, sequential : BOOLEAN,
         ignoreErrors : BOOLEAN, flag : Flags]

(* SetRoutineLimit keeps the default where it does not accept the flag.    *)
RoutineLimit(num) == IF num < 0 \/ num > UpperLimit THEN DefaultLimit ELSE num

limit == IF run.sequential THEN 1 ELSE RoutineLimit(run.flag)

GoroutineStates == {"idle", "running", "failed", "ending", "releasing", "gone"}

TypeOK ==
    /\ run \in Runs
    /\ pc \in {"top", "acquire", "check", "wait", "drain", "returned"}
    /\ iter \in 0..N
    /\ timer \in BOOLEAN
    /\ throttle \in Nat
    /\ errChan \in Seq(Iterations)
    /\ wg \in Nat
    /\ g \in [Iterations -> GoroutineStates]
    /\ outcome \in [Iterations -> {"none", "ok", "ignored", "error"}]
    /\ success \in Nat /\ fail \in Nat
    /\ retErr \in Iterations \cup {NoError, ParseError}

Init ==
    /\ run \in Runs
    /\ pc = "top"
    /\ iter = 0
    /\ timer = FALSE
    /\ throttle = 0
    /\ errChan = <<>>
    /\ wg = 0
    /\ g = [i \in Iterations |-> "idle"]
    /\ outcome = [i \in Iterations |-> "none"]
    /\ success = 0 /\ fail = 0
    /\ retErr = NoError

-----------------------------------------------------------------------------
(* The caller.                                                             *)

(* The head of the loop.  A timed loop that has used up the bound N waits  *)
(* for its timer.                                                          *)
Iterate ==
    /\ pc = "top" /\ run.mode # "invalid"
    /\ iter < N /\ ~timer
    /\ pc' = "acquire"
    /\ UNCHANGED <<run, iter, timer, throttle, errChan, wg, g, outcome, success, fail, retErr>>

(* A fault of LeaveLoop: the loop counts to N - 1.                         *)
LeaveLoopEarly ==
    /\ pc = "top"
    /\ \/ run.mode = "count" /\ iter + 1 >= N
       \/ run.mode = "duration" /\ timer
    /\ pc' = "wait"
    /\ UNCHANGED <<run, iter, timer, throttle, errChan, wg, g, outcome, success, fail, retErr>>

LeaveLoop ==
    /\ pc = "top"
    /\ \/ run.mode = "count" /\ iter = N
       \/ run.mode = "duration" /\ timer
    /\ pc' = "wait"
    /\ UNCHANGED <<run, iter, timer, throttle, errChan, wg, g, outcome, success, fail, retErr>>

RejectCount ==
    /\ pc = "top" /\ run.mode = "invalid"
    /\ retErr' = ParseError
    /\ pc' = "wait"
    /\ UNCHANGED <<run, iter, timer, throttle, errChan, wg, g, outcome, success, fail>>

(* Two faults of Launch: the channel has one place too many; wg.Add(1) is  *)
(* left to the goroutine, which then may come too late for the caller.     *)
LaunchOneMore ==
    /\ pc = "acquire"
    /\ throttle <= limit
    /\ throttle' = throttle + 1
    /\ wg' = wg + 1
    /\ g' = [g EXCEPT ![iter] = "running"]
    /\ pc' = "check"
    /\ UNCHANGED <<run, iter, timer, errChan, outcome, success, fail, retErr>>

LaunchUncounted ==
    /\ pc = "acquire"
    /\ throttle < limit
    /\ throttle' = throttle + 1
    /\ g' = [g EXCEPT ![iter] = "running"]
    /\ pc' = "check"
    /\ UNCHANGED <<run, iter, timer, errChan, wg, outcome, success, fail, retErr>>

(* throttle <- struct{}{}, which blocks while the channel is full, then    *)
(* wg.Add(1) and the go statement.                                         *)
Launch ==
    /\ pc = "acquire"
    /\ throttle < limit
    /\ throttle' = throttle + 1
    /\ wg' = wg + 1
    /\ g' = [g EXCEPT ![iter] = "running"]
    /\ pc' = "check"
    /\ UNCHANGED <<run, iter, timer, errChan, outcome, success, fail, retErr>>

(* A fault of SeeError: the loop goes on after an error that counts.       *)
SeeErrorGoesOn ==
    /\ pc = "check" /\ errChan # <<>>
    /\ errChan' = Tail(errChan)
    /\ iter' = iter + 1
    /\ pc' = "top"
    /\ retErr' = IF run.ignoreErrors THEN retErr ELSE Head(errChan)
    /\ UNCHANGED <<run, timer, throttle, wg, g, outcome, success, fail>>

(* After base.Wait(): the non-blocking look at errChan.                    *)
SeeError ==
    /\ pc = "check" /\ errChan # <<>>
    /\ errChan' = Tail(errChan)
    /\ \/ /\ run.ignoreErrors
          /\ iter' = iter + 1
          /\ pc' = "top"
          /\ UNCHANGED retErr
       \/ /\ ~run.ignoreErrors
          /\ retErr' = Head(errChan)
          /\ pc' = "wait"
          /\ UNCHANGED iter
    /\ UNCHANGED <<run, timer, throttle, wg, g, outcome, success, fail>>

SeeNoError ==
    /\ pc = "check" /\ errChan = <<>>
    /\ iter' = iter + 1
    /\ pc' = "top"
    /\ UNCHANGED <<run, timer, throttle, errChan, wg, g, outcome, success, fail, retErr>>

(* A fault of WaitGroupDone: nobody waits.                                 *)
NoWaitGroup ==
    /\ pc = "wait"
    /\ pc' = "drain"
    /\ UNCHANGED <<run, iter, timer, throttle, errChan, wg, g, outcome, success, fail, retErr>>

(* The deferred function: wg.Wait(), then a look at what is left in        *)
(* errChan, then close both channels.                                      *)
WaitGroupDone ==
    /\ pc = "wait" /\ wg = 0
    /\ pc' = "drain"
    /\ UNCHANGED <<run, iter, timer, throttle, errChan, wg, g, outcome, success, fail, retErr>>

(* A fault of DrainAndClose: the channels are closed at once.              *)
CloseAtOnce ==
    /\ pc = "drain"
    /\ errChan' = <<>>
    /\ pc' = "returned"
    /\ UNCHANGED <<run, iter, timer, throttle, wg, g, outcome, success, fail, retErr>>

DrainAndClose ==
    /\ pc = "drain"
    /\ \/ /\ errChan # <<>> /\ ~run.ignoreErrors
          /\ retErr' = Head(errChan)
          /\ errChan' = Tail(errChan)
       \/ /\ errChan = <<>> \/ run.ignoreErrors
          /\ errChan' = <<>>
          /\ UNCHANGED retErr
    /\ pc' = "returned"
    /\ UNCHANGED <<run, iter, timer, throttle, wg, g, outcome, success, fail>>

TimerFires ==
    /\ run.mode = "duration" /\ ~timer
    /\ timer' = TRUE
    /\ UNCHANGED <<run, pc, iter, throttle, errChan, wg, g, outcome, success, fail, retErr>>

-----------------------------------------------------------------------------
(* The goroutine of iteration i.                                           *)

(* iterFunc returns; only IGNORED_ERRORS are not sent.                     *)
Succeed(i) ==
    /\ g[i] = "running"
    /\ outcome' = [outcome EXCEPT ![i] = "ok"]
    /\ success' = success + 1
    /\ g' = [g EXCEPT ![i] = "ending"]
    /\ UNCHANGED <<run, pc, iter, timer, throttle, errChan, wg, fail, retErr>>

Fail(i) ==
    /\ g[i] = "running"
    /\ \/ /\ outcome' = [outcome EXCEPT ![i] = "ignored"]
          /\ g' = [g EXCEPT ![i] = "ending"]
       \/ /\ outcome' = [outcome EXCEPT ![i] = "error"]
          /\ g' = [g EXCEPT ![i] = "failed"]
    /\ fail' = fail + 1
    /\ UNCHANGED <<run, pc, iter, timer, throttle, errChan, wg, success, retErr>>

(* The non-blocking send: where the channel is full the error is dropped.  *)
SendError(i) ==
    /\ g[i] = "failed"
    /\ errChan' = IF Len(errChan) < limit THEN Append(errChan, i) ELSE errChan
    /\ g' = [g EXCEPT ![i] = "ending"]
    /\ UNCHANGED <<run, pc, iter, timer, throttle, wg, outcome, success, fail, retErr>>

(* A fault of Done: the token is not taken back.                           *)
DoneWithToken(i) ==
    /\ g[i] = "ending"
    /\ wg' = wg - 1
    /\ g' = [g EXCEPT ![i] = "gone"]
    /\ UNCHANGED <<run, pc, iter, timer, throttle, errChan, outcome, success, fail, retErr>>

(* The deferred wg.Done() and <-throttle.                                  *)
Done(i) ==
    /\ g[i] = "ending"
    /\ wg' = wg - 1
    /\ g' = [g EXCEPT ![i] = "releasing"]
    /\ UNCHANGED <<run, pc, iter, timer, throttle, errChan, outcome, success, fail, retErr>>

Release(i) ==
    /\ g[i] = "releasing"
    /\ throttle > 0
    /\ throttle' = throttle - 1
    /\ g' = [g EXCEPT ![i] = "gone"]
    /\ UNCHANGED <<run, pc, iter, timer, errChan, wg, outcome, success, fail, retErr>>

-----------------------------------------------------------------------------
Caller ==
    \/ Iterate \/ LeaveLoop \/ RejectCount
    \/ Launch \/ SeeError \/ SeeNoError
    \/ WaitGroupDone \/ DrainAndClose

Goroutine(i) == Succeed(i) \/ Fail(i) \/ SendError(i) \/ Done(i) \/ Release(i)

Next == Caller \/ TimerFires \/ \E i \in Iterations : Goroutine(i)

Spec == Init /\ [][Next]_vars

(* Go schedules every goroutine, iterFunc returns and the timer fires.     *)
Fairness ==
    /\ WF_vars(Caller) /\ WF_vars(TimerFires)
    /\ \A i \in Iterations : WF_vars(Goroutine(i))

FairSpec == Spec /\ Fairness
-----------------------------------------------------------------------------
(* Properties.                                                             *)

Launched == {i \in Iterations : g[i] # "idle"}
Active   == {i \in Launched : g[i] # "gone"}
Counted  == {i \in Iterations : g[i] \in {"running", "failed", "ending"}}
Errors   == {i \in Iterations : outcome[i] = "error"}

(* At most routineLimit goroutines exist at any time, so with a limit of 1 *)
(* (chaincode instantiation, command execution) iterations do not overlap. *)
AtMostLimit == Cardinality(Active) <= limit

(* Nobody sends on errChan once the deferred function has closed it, which *)
(* would panic: what is still to run then only takes its token back.       *)
NoSendAfterClose ==
    pc = "returned" => \A i \in Launched : g[i] \in {"releasing", "gone"}

(* The counts IterateFunc returns cover every iteration it launched,       *)
(* although goroutines add to them without the caller's knowledge.         *)
CountsAddUp == pc = "returned" => success + fail = Cardinality(Launched)

(* An iteration's error that is not to be ignored is never lost, although  *)
(* a full channel drops errors and a later one may overwrite the result;   *)
(* and nothing but such an error is returned.                              *)
ErrorIsReturned ==
    pc = "returned" /\ run.mode # "invalid" =>
        IF run.ignoreErrors \/ Errors = {} THEN retErr = NoError ELSE retErr \in Errors

(* A loop over a count that returns without an error has run every         *)
(* iteration.                                                              *)
AllIterationsRun ==
    pc = "returned" /\ run.mode = "count" /\ retErr = NoError =>
        \A i \in Iterations : outcome[i] # "none"

(* The contract of WorkerPool.  An iteration is at work until its goroutine *)
(* leaves the WaitGroup.                                                   *)
ErrorOfCall == IF pc = "returned" THEN retErr ELSE NoError

Pool == INSTANCE WorkerPool WITH
    Items <- Iterations,
    kind <- run.mode,
    strict <- ~run.ignoreErrors,
    started <- Launched,
    working <- Counted,
    failed <- Errors,
    returned <- pc = "returned",
    error <- ErrorOfCall

(* IterateFunc keeps the contract: iterations start in order and within    *)
(* the limit, it returns when all are done, and its error is theirs.       *)
ImplementsPool == Pool!Spec

(* IterateFunc returns and leaves no goroutine behind.                     *)
RunEnds == <>[](pc = "returned" /\ Active = {})
=============================================================================
