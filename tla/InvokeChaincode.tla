--------------------------- MODULE InvokeChaincode ---------------------------
(***************************************************************************)
(* The command "chaincode invoke" of the Go test module                    *)
(* (modules/gosdk/chaincode/invoke.go).  Each of its threads makes one     *)
(* call of IterateFunc over invokeFunc.  That call is not modelled again:  *)
(* it is the contract WorkerPool, whose actions the steps of a thread take *)
(* (run "iterate" shows that IterateFunc implements it).  All iterations   *)
(* of a thread generate their own parameters but store them in the one     *)
(* Chaincode value of their thread, from which InvokeChaincode then builds *)
(* the request.                                                            *)
(*                                                                         *)
(* Parameters are named by the iteration they were generated for.  The     *)
(* argument lists of a thread have equal lengths and a map is one pointer, *)
(* so a racing read sees one of the values that were stored.               *)
(***************************************************************************)
EXTENDS Integers, Sequences, FiniteSets

CONSTANTS
    Threads,      \* the threads of the command
    N,            \* iterationCount
    Limits,       \* the values of routineLimit to consider
    Nobody,       \* nil, for parameters
    NoError       \* nil, for errors

Iterations == 0..(N - 1)

ASSUME InvokeAssumption ==
    /\ IsFiniteSet(Threads) /\ Threads # {}
    /\ N \in Nat
    /\ Limits \subseteq Nat
    /\ Nobody \notin Nat /\ NoError \notin Threads

VARIABLES
    cfg,       \* the options of the command, which never change
    peers,     \* the package's list of target peers: "given" or "discovered"
    command,   \* where invokeChaincode is
    thread,    \* thread[t]: where the goroutine of thread t is
    cc,        \* cc[t]: the Chaincode value of thread t
    step,      \* step[t][i]: where iteration i of thread t is
    request,   \* request[t][i]: what it asks of the peers
    outcome,   \* outcome[t][i]: what invokeFunc returned
    result,    \* result[t]: the iteration whose error IterateFunc returned
    errChan,   \* one thread's result after the other
    retErr     \* the thread whose error the command returns

iterating == <<cc, step, request, outcome, peers>>
vars == <<cfg, command, thread, result, errChan, retErr, iterating>>

Configs == [limit : Limits, ignoreErrors : BOOLEAN,
            queryOnly : BOOLEAN, serviceDiscovery : BOOLEAN]

(* The arguments of a request are copied one by one, so they are a set: of *)
(* the iterations from whose lists they were taken.  The function name,    *)
(* the first element of the list, is read again later.                     *)
NoRequest == [args |-> {}, fcn |-> Nobody, transient |-> <<"none", Nobody>>, targets |-> "none"]

Steps == {"idle", "generate", "storeArgs", "storeStatic", "storeDynamic",
          "readArgs", "readRest", "called", "ended", "done"}
Transients == {<<"none", Nobody>>} \cup ({"static", "dynamic"} \X Iterations)

TypeOK ==
    /\ cfg \in Configs
    /\ peers \in {"given", "discovered"}
    /\ command \in {"waiting", "collecting", "returned"}
    /\ thread \in [Threads -> {"iterating", "reporting", "done"}]
    /\ cc \in [Threads -> [args : Iterations \cup {Nobody}, transient : Transients]]
    /\ step \in [Threads -> [Iterations -> Steps]]
    /\ request \in [Threads -> [Iterations ->
           [args : SUBSET (Iterations \cup {Nobody}), fcn : Iterations \cup {Nobody},
            transient : Transients, targets : {"none", "given", "discovered"}]]]
    /\ outcome \in [Threads -> [Iterations -> {"none", "ok", "error"}]]
    /\ result \in [Threads -> Iterations \cup {NoError}]
    /\ errChan \in Seq(Threads \X (Iterations \cup {NoError}))
    /\ retErr \in Threads \cup {NoError}

Init ==
    /\ cfg \in Configs
    /\ peers = "given"
    /\ command = "waiting"
    /\ thread = [t \in Threads |-> "iterating"]
    /\ cc = [t \in Threads |-> [args |-> Nobody, transient |-> <<"none", Nobody>>]]
    /\ step = [t \in Threads |-> [i \in Iterations |-> "idle"]]
    /\ request = [t \in Threads |-> [i \in Iterations |-> NoRequest]]
    /\ outcome = [t \in Threads |-> [i \in Iterations |-> "none"]]
    /\ result = [t \in Threads |-> NoError]
    /\ errChan = <<>>
    /\ retErr = NoError

-----------------------------------------------------------------------------
(* What IterateFunc does for thread t, by its contract.                    *)
Started(t) == {i \in Iterations : step[t][i] # "idle"}
Working(t) == {i \in Started(t) : step[t][i] # "done"}
Failed(t)  == {i \in Iterations : outcome[t][i] = "error"}

GoTo(t, i, s) == step' = [step EXCEPT ![t][i] = s]

(* The call of IterateFunc that thread t is in.                            *)
Pool(t) == INSTANCE WorkerPool WITH
    Items <- Iterations,
    ParseError <- Nobody,
    kind <- "count",
    limit <- cfg.limit,
    strict <- ~cfg.ignoreErrors,
    started <- Started(t),
    working <- Working(t),
    failed <- Failed(t),
    returned <- thread[t] # "iterating",
    error <- result[t]

StartIteration(t, i) ==
    /\ step[t][i] = "idle"
    /\ GoTo(t, i, "generate")
    /\ UNCHANGED <<cfg, command, thread, result, errChan, retErr, cc, request, outcome, peers>>
    /\ Pool(t)!Start(i)

Leave(t, i) ==
    /\ step[t][i] = "ended"
    /\ GoTo(t, i, "done")
    /\ UNCHANGED <<cfg, command, thread, result, errChan, retErr, cc, request, outcome, peers>>
    /\ Pool(t)!Finish(i)

IterateFuncReturns(t) ==
    /\ thread[t] = "iterating"
    /\ thread' = [thread EXCEPT ![t] = "reporting"]
    /\ \E e \in Pool(t)!Results : result' = [result EXCEPT ![t] = e]
    /\ UNCHANGED <<cfg, command, errChan, retErr, iterating>>
    /\ Pool(t)!Return

-----------------------------------------------------------------------------
(* invokeFunc, and the InvokeChaincode it calls, in iteration i of t.      *)

Generate(t, i) ==
    /\ step[t][i] = "generate"
    /\ \/ GoTo(t, i, "storeArgs") /\ UNCHANGED outcome
       \/ /\ outcome' = [outcome EXCEPT ![t][i] = "error"]
          /\ GoTo(t, i, "ended")
    /\ UNCHANGED <<cfg, command, thread, result, errChan, retErr, cc, request, peers>>

(* Two faults of StoreArgs: the parameters of the next iteration; one      *)
(* Chaincode value for all threads.                                        *)
StoreNextArgs(t, i) ==
    /\ step[t][i] = "storeArgs"
    /\ cc' = [cc EXCEPT ![t].args = i + 1]
    /\ GoTo(t, i, "storeStatic")
    /\ UNCHANGED <<cfg, command, thread, result, errChan, retErr, request, outcome, peers>>

StoreForAll(t, i) ==
    /\ step[t][i] = "storeArgs"
    /\ cc' = [u \in Threads |-> [cc[u] EXCEPT !.args = i]]
    /\ GoTo(t, i, "storeStatic")
    /\ UNCHANGED <<cfg, command, thread, result, errChan, retErr, request, outcome, peers>>

StoreArgs(t, i) ==
    /\ step[t][i] = "storeArgs"
    /\ cc' = [cc EXCEPT ![t].args = i]
    /\ GoTo(t, i, "storeStatic")
    /\ UNCHANGED <<cfg, command, thread, result, errChan, retErr, request, outcome, peers>>

(* GenerateChaincodeParams returns two maps that are never nil, so both    *)
(* are stored, the static one first.                                       *)
StoreStaticMap(t, i) ==
    /\ step[t][i] = "storeStatic"
    /\ cc' = [cc EXCEPT ![t].transient = <<"static", i>>]
    /\ GoTo(t, i, "storeDynamic")
    /\ UNCHANGED <<cfg, command, thread, result, errChan, retErr, request, outcome, peers>>

StoreDynamicMap(t, i) ==
    /\ step[t][i] = "storeDynamic"
    /\ cc' = [cc EXCEPT ![t].transient = <<"dynamic", i>>]
    /\ GoTo(t, i, "readArgs")
    /\ UNCHANGED <<cfg, command, thread, result, errChan, retErr, request, outcome, peers>>

(* One more argument is copied; the list has any number of them.           *)
ReadArgument(t, i) ==
    /\ step[t][i] = "readArgs"
    /\ request' = [request EXCEPT ![t][i].args = @ \cup {cc[t].args}]
    /\ GoTo(t, i, "readArgs")
    /\ UNCHANGED <<cfg, command, thread, result, errChan, retErr, cc, outcome, peers>>

(* A fault of ChooseTargets: the listed peers stay in force.               *)
KeepTargets(t, i) ==
    /\ step[t][i] = "readArgs"
    /\ GoTo(t, i, "readRest")
    /\ UNCHANGED <<cfg, command, thread, result, errChan, retErr, cc, request, outcome, peers>>

(* All are copied; service discovery then drops the targets for the rest   *)
(* of the program.                                                         *)
ChooseTargets(t, i) ==
    /\ step[t][i] = "readArgs"
    /\ peers' = IF cfg.serviceDiscovery /\ ~cfg.queryOnly THEN "discovered" ELSE peers
    /\ GoTo(t, i, "readRest")
    /\ UNCHANGED <<cfg, command, thread, result, errChan, retErr, cc, request, outcome>>

ReadRest(t, i) ==
    /\ step[t][i] = "readRest"
    /\ request' = [request EXCEPT ![t][i].fcn = cc[t].args, ![t][i].transient = cc[t].transient,
                                  ![t][i].targets = peers]
    /\ GoTo(t, i, "called")
    /\ UNCHANGED <<cfg, command, thread, result, errChan, retErr, cc, outcome, peers>>

(* Query or Execute answers, or gives up after its timeout.                *)
Answer(t, i) ==
    /\ step[t][i] = "called"
    /\ \E o \in {"ok", "error"} : outcome' = [outcome EXCEPT ![t][i] = o]
    /\ GoTo(t, i, "ended")
    /\ UNCHANGED <<cfg, command, thread, result, errChan, retErr, cc, request, peers>>

-----------------------------------------------------------------------------
(* A fault of Report: errChan has one place.                               *)
ReportOne(t) ==
    /\ thread[t] = "reporting"
    /\ Len(errChan) < 1
    /\ errChan' = Append(errChan, <<t, result[t]>>)
    /\ thread' = [thread EXCEPT ![t] = "done"]
    /\ UNCHANGED <<cfg, command, result, retErr, iterating>>

(* errChan <- err, in a channel with a place for every thread, then        *)
(* wg.Done().                                                              *)
Report(t) ==
    /\ thread[t] = "reporting"
    /\ Len(errChan) < Cardinality(Threads)
    /\ errChan' = Append(errChan, <<t, result[t]>>)
    /\ thread' = [thread EXCEPT ![t] = "done"]
    /\ UNCHANGED <<cfg, command, result, retErr, iterating>>

ThreadsDone ==
    /\ command = "waiting"
    /\ \A t \in Threads : thread[t] = "done"
    /\ command' = "collecting"
    /\ UNCHANGED <<cfg, thread, result, errChan, retErr, iterating>>

(* A fault of Collect: the loop ends at the first result.                  *)
CollectFirst ==
    /\ command = "collecting"
    /\ command' = "returned"
    /\ retErr' = IF Head(errChan)[2] = NoError THEN NoError ELSE Head(errChan)[1]
    /\ UNCHANGED <<cfg, errChan, thread, result, iterating>>

(* errChanLoop.                                                            *)
Collect ==
    /\ command = "collecting"
    /\ IF errChan = <<>>
       THEN command' = "returned" /\ UNCHANGED <<errChan, retErr>>
       ELSE /\ errChan' = Tail(errChan)
            /\ IF Head(errChan)[2] = NoError
               THEN UNCHANGED <<command, retErr>>
               ELSE command' = "returned" /\ retErr' = Head(errChan)[1]
    /\ UNCHANGED <<cfg, thread, result, iterating>>

-----------------------------------------------------------------------------
InvokeFunc(t, i) ==
    \/ Generate(t, i)
    \/ StoreArgs(t, i) \/ StoreStaticMap(t, i) \/ StoreDynamicMap(t, i)
    \/ ReadArgument(t, i) \/ ChooseTargets(t, i) \/ ReadRest(t, i)
    \/ Answer(t, i) \/ Leave(t, i)

Thread(t) ==
    \/ IterateFuncReturns(t) \/ Report(t)
    \/ \E i \in Iterations : StartIteration(t, i)

Command == ThreadsDone \/ Collect

Next ==
    \/ Command
    \/ \E t \in Threads : Thread(t) \/ \E i \in Iterations : InvokeFunc(t, i)

Spec == Init /\ [][Next]_vars

(* Goroutines are scheduled, requests end by their timeout, and            *)
(* IterateFunc returns (its own liveness is checked in IterateFunc).       *)
Fairness ==
    /\ WF_vars(Command)
    /\ \A t \in Threads :
           /\ WF_vars(Thread(t))
           /\ \A i \in Iterations : WF_vars(InvokeFunc(t, i))

FairSpec == Spec /\ Fairness
-----------------------------------------------------------------------------
(* Properties.                                                             *)

Requested(t) == {i \in Iterations : step[t][i] \in {"called", "ended", "done"} /\ request[t][i] # NoRequest}

(* docs/hfrd-operations.md on sequentialString, whose loopIndex "is the    *)
(* current iteration index": if it is 10, "hfrd will return string         *)
(* `10marbles10` for current iteration".                                   *)
OwnArguments ==
    \A t \in Threads : \A i \in Requested(t) :
        request[t][i].args \subseteq {i} /\ request[t][i].fcn = i

(* With a limit of 1 the shared Chaincode value is harmless, whatever      *)
(* other threads do: function, arguments and transient map are the         *)
(* iteration's own.                                                        *)
AloneMeansOwn ==
    cfg.limit = 1 =>
        \A t \in Threads : \A i \in Requested(t) :
            /\ request[t][i].args \subseteq {i} /\ request[t][i].fcn = i
            /\ request[t][i].transient = <<"dynamic", i>>

(* However iterations overlap, no request lacks a function and arguments   *)
(* (InvokeChaincode would index an empty list) or a transient map, and     *)
(* none goes to listed peers once endorsers are to be discovered.          *)
RequestsComplete ==
    \A t \in Threads : \A i \in Requested(t) :
        /\ request[t][i].args \subseteq Started(t) /\ request[t][i].fcn \in Started(t)
        /\ request[t][i].transient \in {"static", "dynamic"} \X Started(t)
        /\ request[t][i].targets =
               IF cfg.serviceDiscovery /\ ~cfg.queryOnly THEN "discovered" ELSE "given"

(* The command fails exactly if some thread's calls did, and then names    *)
(* such a thread, in whatever order the threads end.                       *)
ErrorReported ==
    command = "returned" =>
        LET bad == {t \in Threads : result[t] # NoError} IN
        IF bad = {} THEN retErr = NoError ELSE retErr \in bad

(* No thread waits for ever to report, and the command returns.            *)
CommandReturns == <>(command = "returned")
=============================================================================
