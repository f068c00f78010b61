------------------------ MODULE InvokeChaincodeProofs ------------------------
(***************************************************************************)
(* Proofs about InvokeChaincode, for any number of threads and iterations: *)
(* a concurrency limit of 1 makes the shared Chaincode value of a thread   *)
(* harmless; with any limit every request is complete, and the command     *)
(* reports the errors of its threads.                                      *)
(***************************************************************************)
EXTENDS InvokeChaincode, FiniteSetTheorems, TLAPS

Values == [args : Iterations \cup {Nobody}, transient : Transients]
Requests == [args : SUBSET (Iterations \cup {Nobody}), fcn : Iterations \cup {Nobody},
             transient : Transients, targets : {"none", "given", "discovered"}]

(* The part of TypeOK that the argument needs.                             *)
Shape ==
    /\ cfg \in Configs
    /\ peers \in {"given", "discovered"}
    /\ cc \in [Threads -> Values]
    /\ step \in [Threads -> [Iterations -> Steps]]
    /\ request \in [Threads -> [Iterations -> Requests]]

(* One iteration of a thread works at a time, and what it has stored and   *)
(* read so far is its own.                                                 *)
Own(t, i) ==
    /\ step[t][i] \in {"storeStatic", "storeDynamic", "readArgs", "readRest"} => cc[t].args = i
    /\ step[t][i] \in {"readArgs", "readRest"} => cc[t].transient = <<"dynamic", i>>
    /\ step[t][i] \in {"readArgs", "readRest"} => request[t][i].args \subseteq {i}
    /\ step[t][i] \notin {"readArgs", "readRest", "called", "ended", "done"} => request[t][i] = NoRequest
    /\ step[t][i] \in {"called", "ended", "done"} =>
           \/ request[t][i] = NoRequest
           \/ /\ request[t][i].args \subseteq {i} /\ request[t][i].fcn = i
              /\ request[t][i].transient = <<"dynamic", i>>

Alone == \A t \in Threads : \A i, k \in Working(t) : i = k

AloneInv == Shape /\ (cfg.limit = 1 => Alone /\ \A t \in Threads : \A i \in Iterations : Own(t, i))

-----------------------------------------------------------------------------
(* A function of functions after EXCEPT ![t][i].                           *)
LEMMA ExceptTwice ==
    ASSUME NEW T, NEW S, NEW R, NEW f \in [T -> [S -> R]], NEW t \in T, NEW i \in S, NEW r \in R,
           NEW h, h = [f EXCEPT ![t][i] = r]
    PROVE  /\ h \in [T -> [S -> R]]
           /\ h[t][i] = r
           /\ \A u \in T, k \in S : u # t \/ k # i => h[u][k] = f[u][k]
<1>1. h = [f EXCEPT ![t] = [f[t] EXCEPT ![i] = r]]
  OBVIOUS
<1>2. [f[t] EXCEPT ![i] = r] \in [S -> R]
  OBVIOUS
<1> QED BY <1>1, <1>2

(* Each instance has its own copy of Cardinality's definition.             *)
LEMMA SamePoolCardinality == \A t, S : Pool(t)!Cardinality(S) = Cardinality(S)
BY DEF Pool!Cardinality, Cardinality

(* What the contract says of the start of an iteration.                    *)
LEMMA StartMeans ==
    ASSUME NEW t \in Threads, NEW i \in Iterations, StartIteration(t, i)
    PROVE  /\ step[t][i] = "idle" /\ GoTo(t, i, "generate") /\ "generate" \in Steps \ {"idle"}
           /\ Cardinality(Working(t)) < cfg.limit
           /\ UNCHANGED <<cfg, command, thread, result, errChan, retErr, cc, request, outcome, peers>>
BY SamePoolCardinality DEF StartIteration, Pool!Start, Steps

(* And of the call's return.                                               *)
LEMMA ReturnMeans ==
    ASSUME NEW t \in Threads, IterateFuncReturns(t)
    PROVE  /\ thread[t] = "iterating" /\ thread' = [thread EXCEPT ![t] = "reporting"]
           /\ \E e \in Iterations \cup {NoError} : result' = [result EXCEPT ![t] = e]
           /\ UNCHANGED <<cfg, command, errChan, retErr, iterating>>
BY DEF IterateFuncReturns, Pool!Results, Failed

LEMMA AfterGoTo ==
    ASSUME Shape, NEW t \in Threads, NEW i \in Iterations, NEW s \in Steps, GoTo(t, i, s)
    PROVE  /\ step' \in [Threads -> [Iterations -> Steps]]
           /\ step'[t][i] = s
           /\ \A u \in Threads, k \in Iterations : u # t \/ k # i => step'[u][k] = step[u][k]
BY ExceptTwice DEF Shape, GoTo

(* An iteration that was at work goes on alone.                            *)
LEMMA AloneGoesOn ==
    ASSUME Shape, Alone, NEW t \in Threads, NEW i \in Iterations, NEW s \in Steps,
           step[t][i] \notin {"idle", "done"}, GoTo(t, i, s)
    PROVE  Alone'
<1>1. \A u \in Threads : Working(u)' \in SUBSET Working(u)
  BY AfterGoTo DEF Working, Started
<1> QED BY <1>1 DEF Alone

(* While one iteration of a thread works, the others are idle or done.     *)
LEMMA OthersRest ==
    ASSUME Alone, NEW t \in Threads, NEW i \in Iterations, NEW k \in Iterations, k # i,
           step[t][i] \notin {"idle", "done"}
    PROVE  step[t][k] \in {"idle", "done"}
BY DEF Alone, Working, Started

(* What the three assignments to cc leave of the values of the threads.    *)
LEMMA ValueReplaced ==
    ASSUME Shape, NEW t \in Threads, NEW v \in Values, cc' = [cc EXCEPT ![t] = v]
    PROVE  /\ cc' \in [Threads -> Values] /\ cc'[t] = v
           /\ \A u \in Threads : u # t => cc'[u] = cc[u]
BY DEF Shape

LEMMA ArgsStored ==
    ASSUME Shape, NEW t \in Threads, NEW i \in Iterations, cc' = [cc EXCEPT ![t].args = i]
    PROVE  /\ cc' \in [Threads -> Values] /\ cc'[t].args = i
           /\ \A u \in Threads : u # t => cc'[u] = cc[u]
<1> DEFINE v == [cc[t] EXCEPT !.args = i]
<1>1. v \in Values /\ v.args = i
  BY DEF Shape, Values
<1>2. cc' = [cc EXCEPT ![t] = v]
  OBVIOUS
<1> QED BY <1>1, <1>2, ValueReplaced

LEMMA MapStored ==
    ASSUME Shape, NEW t \in Threads, NEW i \in Iterations, NEW m \in {"static", "dynamic"},
           cc' = [cc EXCEPT ![t].transient = <<m, i>>]
    PROVE  /\ cc' \in [Threads -> Values]
           /\ cc'[t].args = cc[t].args /\ cc'[t].transient = <<m, i>>
           /\ \A u \in Threads : u # t => cc'[u] = cc[u]
<1> DEFINE v == [cc[t] EXCEPT !.transient = <<m, i>>]
<1>1. <<m, i>> \in Transients
  BY DEF Transients
<1>2. v \in Values /\ v.args = cc[t].args /\ v.transient = <<m, i>>
  BY <1>1 DEF Shape, Values
<1>3. cc' = [cc EXCEPT ![t] = v]
  OBVIOUS
<1> QED BY <1>2, <1>3, ValueReplaced

-----------------------------------------------------------------------------
LEMMA AloneInit == Init => AloneInv
<1> SUFFICES ASSUME Init PROVE AloneInv
  OBVIOUS
<1>1. NoRequest \in Requests /\ NoRequest.transient \in Transients
  BY DEF NoRequest, Requests, Transients
<1>2. cc \in [Threads -> Values]
  BY DEF Init, Values, Transients
<1>3. step \in [Threads -> [Iterations -> Steps]]
  BY DEF Init, Steps
<1>4. request \in [Threads -> [Iterations -> Requests]]
  BY <1>1 DEF Init
<1>5. Shape
  BY <1>2, <1>3, <1>4 DEF Init, Shape
<1>6. Alone
  BY DEF Init, Alone, Working, Started
<1>7. \A t \in Threads : \A i \in Iterations : Own(t, i)
  BY DEF Init, Own
<1> QED BY <1>5, <1>6, <1>7 DEF AloneInv

(* Steps that leave the iterations alone.                                  *)
LEMMA AloneStutter ==
    ASSUME AloneInv, UNCHANGED <<cfg, cc, step, request, peers>>
    PROVE  AloneInv'
<1>1. Shape'
  BY DEF AloneInv, Shape
<1>2. Alone => Alone'
  BY DEF Alone, Working, Started
<1>3. \A t \in Threads : \A i \in Iterations : Own(t, i) => Own(t, i)'
  BY DEF Own
<1> QED BY <1>1, <1>2, <1>3 DEF AloneInv

LEMMA AloneStart ==
    ASSUME AloneInv, NEW t \in Threads, NEW i \in Iterations, StartIteration(t, i)
    PROVE  AloneInv'
<1> USE DEF AloneInv
<1>1. GoTo(t, i, "generate") /\ UNCHANGED <<cfg, cc, request, peers>>
  BY StartMeans
<1>2. /\ step' \in [Threads -> [Iterations -> Steps]]
      /\ step'[t][i] = "generate"
      /\ \A u \in Threads, k \in Iterations : u # t \/ k # i => step'[u][k] = step[u][k]
  BY <1>1, AfterGoTo DEF Steps
<1>3. Shape'
  BY <1>1, <1>2 DEF Shape
<1> SUFFICES ASSUME cfg.limit = 1
             PROVE  Alone' /\ \A u \in Threads : \A k \in Iterations : Own(u, k)'
  BY <1>1, <1>3
<1>4. IsFiniteSet(Working(t)) /\ IsFiniteSet(Started(t))
  <2>1. IsFiniteSet(Iterations)
    BY FS_Interval, InvokeAssumption DEF Iterations
  <2>2. Started(t) \in SUBSET Iterations /\ Working(t) \in SUBSET Iterations
    BY DEF Started, Working
  <2> QED BY <2>1, <2>2, FS_Subset
<1>5. Working(t) = {}
  <2>1. Cardinality(Working(t)) \in Nat /\ Cardinality(Working(t)) < 1
    BY <1>4, FS_CardinalityType, StartMeans
  <2> QED BY <1>4, <2>1, FS_EmptySet
<1>6. Alone'
  <2>1. Working(t)' \in SUBSET {i}
    BY <1>2, <1>5 DEF Working, Started
  <2>2. \A u \in Threads : u # t => Working(u)' = Working(u)
    BY <1>2 DEF Working, Started
  <2> QED BY <2>1, <2>2 DEF Alone
<1>7. request[t][i] = NoRequest
  <2>1. step[t][i] = "idle"
    BY StartMeans
  <2> QED BY <2>1 DEF Own
<1>8. ASSUME NEW u \in Threads, NEW k \in Iterations PROVE Own(u, k)'
  BY <1>1, <1>2, <1>7 DEF Own
<1> QED BY <1>6, <1>8

(* A step of iteration i from one state at work to another: what it has to *)
(* show of its own, the rest follows.                                      *)
LEMMA AloneStep ==
    ASSUME AloneInv, NEW t \in Threads, NEW i \in Iterations, NEW s \in Steps,
           step[t][i] \notin {"idle", "done"}, GoTo(t, i, s),
           UNCHANGED cfg, peers' \in {"given", "discovered"},
           cc' \in [Threads -> Values],
           \A u \in Threads : u # t => cc'[u] = cc[u],
           request' \in [Threads -> [Iterations -> Requests]],
           \A u \in Threads, k \in Iterations : u # t \/ k # i => request'[u][k] = request[u][k],
           cfg.limit = 1 => Own(t, i)'
    PROVE  AloneInv'
<1> USE DEF AloneInv
<1>1. /\ step' \in [Threads -> [Iterations -> Steps]]
      /\ \A u \in Threads, k \in Iterations : u # t \/ k # i => step'[u][k] = step[u][k]
  BY AfterGoTo
<1>2. Shape'
  BY <1>1 DEF Shape
<1> SUFFICES ASSUME cfg.limit = 1
             PROVE  Alone' /\ \A u \in Threads : \A k \in Iterations : Own(u, k)'
  BY <1>2
<1>3. Alone'
  BY AloneGoesOn
<1>4. ASSUME NEW u \in Threads, NEW k \in Iterations PROVE Own(u, k)'
  <2>1. CASE u # t
    <3>1. step'[u][k] = step[u][k] /\ request'[u][k] = request[u][k] /\ cc'[u] = cc[u]
      BY <1>1, <2>1
    <3> QED BY <3>1 DEF Own
  <2>2. CASE u = t /\ k # i
    <3>1. step[t][k] \in {"idle", "done"}
      BY <2>2, OthersRest
    <3>2. step'[t][k] = step[t][k] /\ request'[t][k] = request[t][k]
      BY <1>1, <2>2
    <3> QED BY <2>2, <3>1, <3>2 DEF Own
  <2> QED BY <2>1, <2>2
<1> QED BY <1>3, <1>4

LEMMA AloneInvoke ==
    ASSUME AloneInv, NEW t \in Threads, NEW i \in Iterations, InvokeFunc(t, i)
    PROVE  AloneInv'
<1> USE DEF AloneInv
<1>1. cfg.limit = 1 => Own(t, i)
  OBVIOUS
<1>2. ASSUME NEW s \in Steps, GoTo(t, i, s) PROVE step'[t][i] = s
  BY <1>2, AfterGoTo
<1>3. Shape
  OBVIOUS
<1>4. /\ cc[t] \in Values /\ request[t][i] \in Requests
       /\ peers \in {"given", "discovered"} /\ cc \in [Threads -> Values]
  BY <1>3 DEF Shape
<1>5. CASE Generate(t, i)
  <2>1. PICK s \in {"storeArgs", "ended"} : GoTo(t, i, s)
    BY <1>5 DEF Generate
  <2>2. step[t][i] = "generate" /\ UNCHANGED <<cfg, cc, request, peers>>
    BY <1>5 DEF Generate
  <2>3. s \in Steps
    BY <2>1 DEF Steps
  <2>4. step'[t][i] = s
    BY <1>2, <2>1, <2>3
  <2>5. cfg.limit = 1 => Own(t, i)'
    BY <1>1, <2>1, <2>2, <2>4 DEF Own
  <2> QED BY <1>3, <2>1, <2>2, <2>3, <2>5, AloneStep DEF Shape
<1>6. CASE StoreArgs(t, i)
  <2>1. /\ step[t][i] = "storeArgs" /\ GoTo(t, i, "storeStatic")
        /\ cc' = [cc EXCEPT ![t].args = i] /\ UNCHANGED <<cfg, request, peers>>
    BY <1>6 DEF StoreArgs
  <2>2. "storeStatic" \in Steps
    BY DEF Steps
  <2>3. step'[t][i] = "storeStatic"
    BY <1>2, <2>1, <2>2
  <2>4. /\ cc' \in [Threads -> Values] /\ cc'[t].args = i
        /\ \A u \in Threads : u # t => cc'[u] = cc[u]
    BY <1>3, <2>1, ArgsStored
  <2>5. cfg.limit = 1 => Own(t, i)'
    BY <1>1, <2>1, <2>3, <2>4 DEF Own
  <2> QED BY <1>3, <2>1, <2>2, <2>4, <2>5, AloneStep DEF Shape
<1>7. CASE StoreStaticMap(t, i)
  <2>1. /\ step[t][i] = "storeStatic" /\ GoTo(t, i, "storeDynamic")
        /\ cc' = [cc EXCEPT ![t].transient = <<"static", i>>] /\ UNCHANGED <<cfg, request, peers>>
    BY <1>7 DEF StoreStaticMap
  <2>2. "storeDynamic" \in Steps
    BY DEF Steps
  <2>3. step'[t][i] = "storeDynamic"
    BY <1>2, <2>1, <2>2
  <2>4. /\ cc' \in [Threads -> Values] /\ cc'[t].args = cc[t].args
        /\ \A u \in Threads : u # t => cc'[u] = cc[u]
    BY <1>3, <2>1, MapStored
  <2>5. cfg.limit = 1 => Own(t, i)'
    BY <1>1, <2>1, <2>3, <2>4 DEF Own
  <2> QED BY <1>3, <2>1, <2>2, <2>4, <2>5, AloneStep DEF Shape
<1>8. CASE StoreDynamicMap(t, i)
  <2>1. /\ step[t][i] = "storeDynamic" /\ GoTo(t, i, "readArgs")
        /\ cc' = [cc EXCEPT ![t].transient = <<"dynamic", i>>] /\ UNCHANGED <<cfg, request, peers>>
    BY <1>8 DEF StoreDynamicMap
  <2>2. "readArgs" \in Steps
    BY DEF Steps
  <2>3. step'[t][i] = "readArgs"
    BY <1>2, <2>1, <2>2
  <2>4. /\ cc' \in [Threads -> Values]
        /\ cc'[t].args = cc[t].args /\ cc'[t].transient = <<"dynamic", i>>
        /\ \A u \in Threads : u # t => cc'[u] = cc[u]
    BY <1>3, <2>1, MapStored
  <2>5. cfg.limit = 1 => Own(t, i)'
    BY <1>1, <2>1, <2>3, <2>4 DEF Own, NoRequest
  <2> QED BY <1>3, <2>1, <2>2, <2>4, <2>5, AloneStep DEF Shape
<1>9. CASE ReadArgument(t, i)
  <2> DEFINE r == [request[t][i] EXCEPT !.args = @ \cup {cc[t].args}]
  <2>1. /\ step[t][i] = "readArgs" /\ GoTo(t, i, "readArgs")
        /\ request' = [request EXCEPT ![t][i].args = @ \cup {cc[t].args}] /\ UNCHANGED <<cfg, cc, peers>>
    BY <1>9 DEF ReadArgument
  <2>2. "readArgs" \in Steps
    BY DEF Steps
  <2>3. step'[t][i] = "readArgs"
    BY <1>2, <2>1, <2>2
  <2>4. r \in Requests /\ r.args = request[t][i].args \cup {cc[t].args}
    BY <1>4 DEF Values, Requests
  <2>5. request' = [request EXCEPT ![t][i] = r]
    BY <1>4, <2>1 DEF Requests
  <2>6. /\ request' \in [Threads -> [Iterations -> Requests]] /\ request'[t][i] = r
        /\ \A u \in Threads, k \in Iterations : u # t \/ k # i => request'[u][k] = request[u][k]
    BY <1>3, <2>4, <2>5, ExceptTwice DEF Shape
  <2>7. cfg.limit = 1 => Own(t, i)'
    BY <1>1, <2>1, <2>3, <2>4, <2>6 DEF Own
  <2>8. peers' \in {"given", "discovered"}
    BY <1>4, <2>1
  <2>9. cc' \in [Threads -> Values] /\ \A u \in Threads : u # t => cc'[u] = cc[u]
    BY <1>4, <2>1
  <2>10. step[t][i] \notin {"idle", "done"} /\ UNCHANGED cfg /\ GoTo(t, i, "readArgs")
    BY <2>1
  <2> HIDE DEF r
  <2>11. request' \in [Threads -> [Iterations -> Requests]]
    BY <2>6
  <2>12. \A u \in Threads, k \in Iterations : u # t \/ k # i => request'[u][k] = request[u][k]
    BY <2>6
  <2> QED BY <2>2, <2>7, <2>8, <2>9, <2>10, <2>11, <2>12, AloneStep
<1>12. CASE ChooseTargets(t, i)
  <2>1. /\ step[t][i] = "readArgs" /\ GoTo(t, i, "readRest") /\ UNCHANGED <<cfg, cc, request>>
        /\ peers' = IF cfg.serviceDiscovery /\ ~cfg.queryOnly THEN "discovered" ELSE peers
    BY <1>12 DEF ChooseTargets
  <2>2. "readRest" \in Steps
    BY DEF Steps
  <2>3. step'[t][i] = "readRest"
    BY <1>2, <2>1, <2>2
  <2>4. cfg.limit = 1 => Own(t, i)'
    BY <1>1, <2>1, <2>3 DEF Own
  <2>5. peers' \in {"given", "discovered"}
    BY <1>4, <2>1
  <2> QED BY <1>3, <2>1, <2>2, <2>4, <2>5, AloneStep DEF Shape
<1>10. CASE ReadRest(t, i)
  <2> DEFINE r == [request[t][i] EXCEPT !.fcn = cc[t].args, !.transient = cc[t].transient,
                                        !.targets = peers]
  <2>1. /\ step[t][i] = "readRest" /\ GoTo(t, i, "called")
        /\ request' = [request EXCEPT ![t][i].fcn = cc[t].args, ![t][i].transient = cc[t].transient,
                                      ![t][i].targets = peers]
        /\ UNCHANGED <<cfg, cc, peers>>
    BY <1>10 DEF ReadRest
  <2>2. "called" \in Steps
    BY DEF Steps
  <2>3. step'[t][i] = "called"
    BY <1>2, <2>1, <2>2
  <2>4. /\ r \in Requests /\ r.args = request[t][i].args /\ r.fcn = cc[t].args
        /\ r.transient = cc[t].transient
    BY <1>4 DEF Values, Requests
  <2>5. request' = [request EXCEPT ![t][i] = r]
    BY <1>4, <2>1 DEF Requests
  <2>6. /\ request' \in [Threads -> [Iterations -> Requests]] /\ request'[t][i] = r
        /\ \A u \in Threads, k \in Iterations : u # t \/ k # i => request'[u][k] = request[u][k]
    BY <1>3, <2>4, <2>5, ExceptTwice DEF Shape
  <2>7. cfg.limit = 1 => Own(t, i)'
    BY <1>1, <2>1, <2>3, <2>4, <2>6 DEF Own
  <2>8. peers' \in {"given", "discovered"}
    BY <1>4, <2>1
  <2>9. cc' \in [Threads -> Values] /\ \A u \in Threads : u # t => cc'[u] = cc[u]
    BY <1>4, <2>1
  <2>10. step[t][i] \notin {"idle", "done"} /\ UNCHANGED cfg /\ GoTo(t, i, "called")
    BY <2>1
  <2> HIDE DEF r
  <2>11. request' \in [Threads -> [Iterations -> Requests]]
    BY <2>6
  <2>12. \A u \in Threads, k \in Iterations : u # t \/ k # i => request'[u][k] = request[u][k]
    BY <2>6
  <2> QED BY <2>2, <2>7, <2>8, <2>9, <2>10, <2>11, <2>12, AloneStep
<1>11. CASE Answer(t, i) \/ Leave(t, i)
  <2>1. PICK s \in {"ended", "done"} : GoTo(t, i, s)
    BY <1>11 DEF Answer, Leave
  <2>2. step[t][i] \in {"called", "ended"} /\ UNCHANGED <<cfg, cc, request, peers>>
    BY <1>11 DEF Answer, Leave
  <2>3. s \in Steps
    BY <2>1 DEF Steps
  <2>4. step'[t][i] = s
    BY <1>2, <2>1, <2>3
  <2>5. cfg.limit = 1 => Own(t, i)'
    BY <1>1, <2>1, <2>2, <2>4 DEF Own
  <2> QED BY <1>3, <2>1, <2>2, <2>3, <2>5, AloneStep DEF Shape
<1> QED BY <1>5, <1>6, <1>7, <1>8, <1>9, <1>10, <1>11, <1>12 DEF InvokeFunc

LEMMA AloneNext == AloneInv /\ [Next]_vars => AloneInv'
<1> SUFFICES ASSUME AloneInv, [Next]_vars PROVE AloneInv'
  OBVIOUS
<1>1. CASE Command
  BY <1>1, AloneStutter DEF Command, ThreadsDone, Collect, iterating
<1>2. ASSUME NEW t \in Threads, Thread(t) PROVE AloneInv'
  <2>1. CASE IterateFuncReturns(t) \/ Report(t)
    BY <2>1, AloneStutter, ReturnMeans DEF Report, iterating
  <2>2. CASE \E i \in Iterations : StartIteration(t, i)
    BY <2>2, AloneStart
  <2> QED BY <1>2, <2>1, <2>2 DEF Thread
<1>3. ASSUME NEW t \in Threads, NEW i \in Iterations, InvokeFunc(t, i) PROVE AloneInv'
  BY <1>3, AloneInvoke
<1>4. CASE UNCHANGED vars
  BY <1>4, AloneStutter DEF vars, iterating
<1> QED BY <1>1, <1>2, <1>3, <1>4 DEF Next

(* With a limit of 1, the function, the arguments and the transient map of *)
(* every request are those generated for its own iteration.                *)
THEOREM SequentialRequestsAreOwn == Spec => []AloneMeansOwn
<1>1. AloneInv => AloneMeansOwn
  <2> SUFFICES ASSUME AloneInv, cfg.limit = 1, NEW t \in Threads, NEW i \in Requested(t)
               PROVE  /\ request[t][i].args \subseteq {i} /\ request[t][i].fcn = i
                      /\ request[t][i].transient = <<"dynamic", i>>
    BY DEF AloneMeansOwn
  <2>1. Own(t, i)
    BY DEF AloneInv, Requested
  <2> QED BY <2>1 DEF Own, Requested
<1> QED BY <1>1, AloneInit, AloneNext, PTL DEF Spec

-----------------------------------------------------------------------------
(* The command's bookkeeping: what threads have returned and reported, and *)
(* what of that has been collected.                                        *)
Results == Iterations \cup {NoError}
Reports == Threads \X Results

Books ==
    /\ command \in {"waiting", "collecting", "returned"}
    /\ thread \in [Threads -> {"iterating", "reporting", "done"}]
    /\ outcome \in [Threads -> [Iterations -> {"none", "ok", "error"}]]
    /\ result \in [Threads -> Results]
    /\ errChan \in Seq(Reports)
    /\ retErr \in Threads \cup {NoError}

(* A report in the channel is from a thread that is done, and true.        *)
ReportsTrue ==
    \A k \in 1 .. Len(errChan) :
        /\ thread[errChan[k][1]] = "done"
        /\ errChan[k][2] = result[errChan[k][1]]

(* Until the command returns, an error that was reported is in the channel.*)
ErrorsKept ==
    command # "returned" =>
        /\ retErr = NoError
        /\ \A t \in Threads : thread[t] = "done" /\ result[t] # NoError =>
               \E k \in 1 .. Len(errChan) : errChan[k][1] = t

AllDone == command # "waiting" => \A t \in Threads : thread[t] = "done"

BooksInv == Shape /\ Books /\ ReportsTrue /\ ErrorsKept /\ AllDone /\ ErrorReported

LEMMA BooksInit == Init => BooksInv
<1> SUFFICES ASSUME Init PROVE BooksInv
  OBVIOUS
<1>1. Shape
  BY AloneInit DEF AloneInv
<1>2. Books
  BY DEF Init, Books, Results, Reports
<1>3. errChan = <<>> /\ command = "waiting" /\ retErr = NoError
  BY DEF Init
<1>4. \A t \in Threads : thread[t] # "done"
  BY DEF Init
<1> QED BY <1>1, <1>2, <1>3, <1>4 DEF BooksInv, ReportsTrue, ErrorsKept, AllDone, ErrorReported

(* Steps of the iterations keep no books but outcome.                      *)
LEMMA BooksInvoke ==
    ASSUME Books, ReportsTrue, ErrorsKept, AllDone, ErrorReported,
           UNCHANGED <<command, thread, result, errChan, retErr>>,
           outcome' \in [Threads -> [Iterations -> {"none", "ok", "error"}]]
    PROVE  Books' /\ ReportsTrue' /\ ErrorsKept' /\ AllDone' /\ ErrorReported'
BY DEF Books, ReportsTrue, ErrorsKept, AllDone, ErrorReported

LEMMA OutcomeTyped ==
    ASSUME Books, NEW t \in Threads, NEW i \in Iterations, InvokeFunc(t, i)
    PROVE  /\ UNCHANGED <<command, thread, result, errChan, retErr>>
           /\ outcome' \in [Threads -> [Iterations -> {"none", "ok", "error"}]]
<1> DEFINE Out == {"none", "ok", "error"}
<1>1. ASSUME NEW o \in Out, outcome' = [outcome EXCEPT ![t][i] = o]
      PROVE  outcome' \in [Threads -> [Iterations -> Out]]
  <2>1. outcome \in [Threads -> [Iterations -> Out]]
    BY DEF Books
  <2> HIDE DEF Out
  <2> QED BY <1>1, <2>1, ExceptTwice
<1>2. CASE Generate(t, i)
  BY <1>1, <1>2 DEF Generate, Books
<1>3. CASE Answer(t, i)
  BY <1>1, <1>3 DEF Answer
<1>4. CASE StoreArgs(t, i) \/ StoreStaticMap(t, i) \/ StoreDynamicMap(t, i)
  BY <1>4 DEF StoreArgs, StoreStaticMap, StoreDynamicMap, Books
<1>5. CASE ReadArgument(t, i) \/ ChooseTargets(t, i) \/ ReadRest(t, i) \/ Leave(t, i)
  BY <1>5 DEF ReadArgument, ChooseTargets, ReadRest, Leave, Books
<1> QED BY <1>2, <1>3, <1>4, <1>5 DEF InvokeFunc

LEMMA BooksReturn ==
    ASSUME BooksInv, NEW t \in Threads, IterateFuncReturns(t)
    PROVE  Books' /\ ReportsTrue' /\ ErrorsKept' /\ AllDone' /\ ErrorReported'
<1> USE DEF BooksInv
<1>1. PICK e \in Results : result' = [result EXCEPT ![t] = e]
  BY ReturnMeans DEF Results
<1>2. /\ thread[t] = "iterating" /\ thread' = [thread EXCEPT ![t] = "reporting"]
      /\ UNCHANGED <<command, errChan, retErr, outcome>>
  BY ReturnMeans DEF iterating
<1>3. Books'
  BY <1>1, <1>2 DEF Books
<1>4. command = "waiting"
  BY <1>2 DEF AllDone, Books
<1>5. \A u \in Threads : thread'[u] = "done" => thread[u] = "done" /\ result'[u] = result[u]
  BY <1>1, <1>2 DEF Books
<1>6. ReportsTrue'
  <2> SUFFICES ASSUME NEW k \in 1 .. Len(errChan)
               PROVE  /\ thread'[errChan[k][1]] = "done"
                      /\ errChan[k][2] = result'[errChan[k][1]]
    BY <1>2 DEF ReportsTrue
  <2>1. errChan[k] \in Reports
    BY DEF Books
  <2>2. errChan[k][1] \in Threads /\ errChan[k][1] # t
    BY <1>2, <2>1 DEF Reports, ReportsTrue
  <2> QED BY <1>1, <1>2, <2>2 DEF ReportsTrue, Books
<1>7. ErrorsKept' /\ AllDone' /\ ErrorReported'
  BY <1>2, <1>4, <1>5 DEF ErrorsKept, AllDone, ErrorReported
<1> QED BY <1>3, <1>6, <1>7

LEMMA BooksReport ==
    ASSUME BooksInv, NEW t \in Threads, Report(t)
    PROVE  Books' /\ ReportsTrue' /\ ErrorsKept' /\ AllDone' /\ ErrorReported'
<1> USE DEF BooksInv
<1> DEFINE r == <<t, result[t]>>
<1>1. /\ thread[t] = "reporting" /\ thread' = [thread EXCEPT ![t] = "done"]
      /\ errChan' = Append(errChan, r)
      /\ UNCHANGED <<command, result, retErr, outcome>>
  BY DEF Report, iterating
<1>2. r \in Reports /\ r[1] = t /\ r[2] = result[t]
  BY DEF Books, Reports
<1> HIDE DEF r
<1>3. errChan \in Seq(Reports)
  BY DEF Books
<1>4. /\ errChan' \in Seq(Reports) /\ Len(errChan') = Len(errChan) + 1
      /\ errChan'[Len(errChan) + 1] = r /\ Len(errChan) \in Nat
      /\ \A k \in 1 .. Len(errChan) : errChan'[k] = errChan[k]
  BY <1>1, <1>2, <1>3
<1>5. Books'
  BY <1>1, <1>4 DEF Books
<1>6. command = "waiting"
  BY <1>1 DEF AllDone, Books
<1>7. \A u \in Threads : thread'[u] = "done" <=> thread[u] = "done" \/ u = t
  BY <1>1 DEF Books
<1>8. ReportsTrue'
  <2> SUFFICES ASSUME NEW k \in 1 .. (Len(errChan) + 1)
               PROVE  /\ thread'[errChan'[k][1]] = "done"
                      /\ errChan'[k][2] = result[errChan'[k][1]]
    BY <1>1, <1>4 DEF ReportsTrue
  <2>1. CASE k = Len(errChan) + 1
    BY <1>2, <1>4, <1>7, <2>1
  <2>2. CASE k \in 1 .. Len(errChan)
    <3>1. errChan[k][1] \in Threads
      BY <1>3, <2>2 DEF Reports
    <3> QED BY <1>4, <1>7, <2>2, <3>1 DEF ReportsTrue
  <2> QED BY <1>4, <2>1, <2>2
<1>9. ErrorsKept'
  <2> SUFFICES ASSUME NEW u \in Threads, thread'[u] = "done", result[u] # NoError
               PROVE  \E k \in 1 .. (Len(errChan) + 1) : errChan'[k][1] = u
    BY <1>1, <1>4, <1>6 DEF ErrorsKept
  <2>1. CASE u = t
    BY <1>2, <1>4, <2>1
  <2>2. CASE u # t
    BY <1>4, <1>6, <1>7, <2>2 DEF ErrorsKept
  <2> QED BY <2>1, <2>2
<1>10. AllDone' /\ ErrorReported'
  BY <1>1, <1>6 DEF AllDone, ErrorReported
<1> QED BY <1>5, <1>8, <1>9, <1>10

LEMMA BooksCommand ==
    ASSUME BooksInv, Command
    PROVE  Books' /\ ReportsTrue' /\ ErrorsKept' /\ AllDone' /\ ErrorReported'
<1> USE DEF BooksInv
<1>1. CASE ThreadsDone
  BY <1>1 DEF ThreadsDone, iterating, Books, ReportsTrue, ErrorsKept, AllDone, ErrorReported
<1>2. CASE Collect
  <2>1. command = "collecting" /\ UNCHANGED <<thread, result, outcome>>
    BY <1>2 DEF Collect, iterating
  <2>2. errChan \in Seq(Reports)
    BY DEF Books
  <2>3. \A u \in Threads : thread[u] = "done"
    BY <2>1 DEF AllDone
  <2>4. CASE errChan = <<>>
    <3>1. command' = "returned" /\ UNCHANGED <<errChan, retErr>>
      BY <1>2, <2>4 DEF Collect
    <3>2. \A u \in Threads : result[u] = NoError
      BY <2>1, <2>3, <2>4 DEF ErrorsKept
    <3> QED BY <2>1, <2>3, <3>1, <3>2
            DEF Books, ReportsTrue, ErrorsKept, AllDone, ErrorReported
  <2>5. CASE errChan # <<>>
    <3>1. /\ errChan' = Tail(errChan) /\ errChan' \in Seq(Reports)
          /\ Len(errChan') = Len(errChan) - 1 /\ Len(errChan) \in Nat \ {0}
          /\ \A k \in 1 .. Len(errChan') : errChan'[k] = errChan[k + 1]
          /\ Head(errChan) = errChan[1] /\ errChan[1] \in Reports
      BY <1>2, <2>2, <2>5 DEF Collect
    <3>2. ReportsTrue'
      <4> SUFFICES ASSUME NEW k \in 1 .. Len(errChan')
                   PROVE  /\ thread[errChan'[k][1]] = "done"
                          /\ errChan'[k][2] = result[errChan'[k][1]]
        BY <2>1 DEF ReportsTrue
      <4>1. errChan'[k] = errChan[k + 1] /\ k + 1 \in 1 .. Len(errChan)
        BY <3>1
      <4> QED BY <4>1 DEF ReportsTrue
    <3>3. 1 \in 1 .. Len(errChan)
      BY <3>1
    <3>4. errChan[1][1] \in Threads /\ errChan[1][2] = result[errChan[1][1]]
      BY <3>1, <3>3 DEF ReportsTrue, Reports
    <3>5. CASE errChan[1][2] = NoError
      <4>1. UNCHANGED <<command, retErr>>
        BY <1>2, <2>5, <3>1, <3>5 DEF Collect
      <4>2. ErrorsKept'
        <5> SUFFICES ASSUME NEW u \in Threads, result[u] # NoError
                     PROVE  \E k \in 1 .. Len(errChan') : errChan'[k][1] = u
          BY <2>1, <4>1 DEF ErrorsKept
        <5>1. PICK k \in 1 .. Len(errChan) : errChan[k][1] = u
          BY <2>1, <2>3 DEF ErrorsKept
        <5>2. k # 1
          BY <3>4, <3>5, <5>1
        <5>3. k - 1 \in 1 .. Len(errChan') /\ errChan'[k - 1] = errChan[k]
          BY <3>1, <5>2
        <5> QED BY <5>1, <5>3
      <4> QED BY <2>1, <2>3, <3>1, <3>2, <4>1, <4>2 DEF Books, AllDone, ErrorReported
    <3>6. CASE errChan[1][2] # NoError
      <4>1. command' = "returned" /\ retErr' = errChan[1][1]
        BY <1>2, <2>5, <3>1, <3>6 DEF Collect
      <4>2. result[errChan[1][1]] # NoError
        BY <3>4, <3>6
      <4>3. ErrorReported'
        BY <2>1, <3>4, <4>1, <4>2 DEF ErrorReported
      <4> QED BY <2>1, <2>3, <3>1, <3>2, <3>4, <4>1, <4>3 DEF Books, ErrorsKept, AllDone
    <3> QED BY <3>5, <3>6
  <2> QED BY <2>4, <2>5
<1> QED BY <1>1, <1>2 DEF Command

LEMMA BooksNext == AloneInv /\ BooksInv /\ [Next]_vars => BooksInv'
<1> SUFFICES ASSUME AloneInv, BooksInv, [Next]_vars PROVE BooksInv'
  OBVIOUS
<1>1. Shape'
  BY AloneNext DEF AloneInv
<1>2. CASE Command
  BY <1>1, <1>2, BooksCommand DEF BooksInv
<1>3. ASSUME NEW t \in Threads, Thread(t) PROVE BooksInv'
  <2>1. CASE IterateFuncReturns(t)
    BY <1>1, <2>1, BooksReturn DEF BooksInv
  <2>2. CASE Report(t)
    BY <1>1, <2>2, BooksReport DEF BooksInv
  <2>3. ASSUME NEW i \in Iterations, StartIteration(t, i) PROVE BooksInv'
    BY <1>1, <2>3, BooksInvoke, StartMeans DEF BooksInv, Books
  <2> QED BY <1>3, <2>1, <2>2, <2>3 DEF Thread
<1>4. ASSUME NEW t \in Threads, NEW i \in Iterations, InvokeFunc(t, i) PROVE BooksInv'
  BY <1>1, <1>4, BooksInvoke, OutcomeTyped DEF BooksInv
<1>5. CASE UNCHANGED vars
  BY <1>1, <1>5, BooksInvoke DEF BooksInv, Books, vars, iterating
<1> QED BY <1>2, <1>3, <1>4, <1>5 DEF Next

(* Every variable of the command keeps its type.                           *)
THEOREM InvokeTypes == Spec => []TypeOK
<1>1. BooksInv => TypeOK
  BY DEF BooksInv, Shape, Books, TypeOK, Values, Requests, Results, Reports
<1> QED BY <1>1, AloneInit, AloneNext, BooksInit, BooksNext, PTL DEF Spec

(* The command fails exactly if some thread's calls did, and then names    *)
(* such a thread, in whatever order the threads report.                    *)
THEOREM ErrorsReported == Spec => []ErrorReported
<1>1. BooksInv => ErrorReported
  BY DEF BooksInv
<1> QED BY <1>1, AloneInit, AloneNext, BooksInit, BooksNext, PTL DEF Spec
-----------------------------------------------------------------------------
(* What a thread's Chaincode value and the package's peers hold, however   *)
(* the iterations of the thread overlap.                                   *)
Expected == IF cfg.serviceDiscovery /\ ~cfg.queryOnly THEN "discovered" ELSE "given"

Storing == {"storeStatic", "storeDynamic", "readArgs", "readRest"}
Reading == {"readArgs", "readRest"}
Sent == {"called", "ended", "done"}

(* Parameters are those of iterations that have started, and whoever is    *)
(* past a store finds that something is stored.                            *)
Stored(t) ==
    /\ cc[t].args # Nobody => cc[t].args \in Started(t)
    /\ cc[t].transient # <<"none", Nobody>> =>
           cc[t].transient \in {"static", "dynamic"} \X Started(t)

Complete(t, i) ==
    /\ request[t][i].args \subseteq Started(t) /\ request[t][i].fcn \in Started(t)
    /\ request[t][i].transient \in {"static", "dynamic"} \X Started(t)
    /\ request[t][i].targets = Expected

Filled(t, i) ==
    /\ step[t][i] \in Storing => cc[t].args # Nobody
    /\ step[t][i] \in Storing \ {"storeStatic"} => cc[t].transient # <<"none", Nobody>>
    /\ step[t][i] \in Reading => request[t][i].args \subseteq Started(t)
    /\ step[t][i] = "readRest" => peers = Expected
    /\ step[t][i] \notin Sent \cup Reading => request[t][i] = NoRequest
    /\ step[t][i] \in Sent => request[t][i] = NoRequest \/ Complete(t, i)

FilledInv ==
    /\ Shape
    /\ peers \in {"given", Expected}
    /\ \A t \in Threads : Stored(t) /\ \A i \in Iterations : Filled(t, i)

LEMMA FilledInit == Init => FilledInv
<1> SUFFICES ASSUME Init PROVE FilledInv
  OBVIOUS
<1>1. Shape
  BY AloneInit DEF AloneInv
<1>2. ASSUME NEW t \in Threads PROVE Stored(t)
  BY DEF Init, Stored
<1>3. ASSUME NEW t \in Threads, NEW i \in Iterations PROVE Filled(t, i)
  BY DEF Init, Filled, Storing, Reading, Sent
<1> QED BY <1>1, <1>2, <1>3 DEF FilledInv, Init

(* A step of one iteration: what it has to show of its own thread's value  *)
(* and of its own request, the rest follows.                               *)
LEMMA FilledStep ==
    ASSUME FilledInv, NEW t \in Threads, NEW i \in Iterations, NEW s \in Steps \ {"idle"},
           Shape', GoTo(t, i, s), UNCHANGED cfg,
           peers' \in {peers, Expected},
           \A u \in Threads : u # t => cc'[u] = cc[u],
           \A u \in Threads, k \in Iterations : u # t \/ k # i => request'[u][k] = request[u][k],
           cc[t].args # Nobody => cc'[t].args # Nobody,
           cc[t].transient # <<"none", Nobody>> => cc'[t].transient # <<"none", Nobody>>,
           cc'[t].args \in {cc[t].args, i},
           cc'[t].transient \in {cc[t].transient, <<"static", i>>, <<"dynamic", i>>},
           Started(t)' = Started(t) \cup {i} => Filled(t, i)'
    PROVE  FilledInv'
<1> USE DEF FilledInv
<1>1. /\ step' \in [Threads -> [Iterations -> Steps]] /\ step'[t][i] = s
      /\ \A u \in Threads, k \in Iterations : u # t \/ k # i => step'[u][k] = step[u][k]
  BY AfterGoTo
<1>2. Started(t)' = Started(t) \cup {i}
  BY <1>1 DEF Started
<1>3. \A u \in Threads : u # t => Started(u)' = Started(u)
  BY <1>1 DEF Started
<1>4. Expected' = Expected /\ peers' \in {"given", Expected} /\ (peers = Expected => peers' = Expected)
  BY DEF Expected
<1>5. Stored(t)'
  <2>1. Stored(t)
    OBVIOUS
  <2>2. cc'[t].args # Nobody => cc'[t].args \in Started(t)'
    BY <1>2, <2>1 DEF Stored
  <2>3. cc'[t].transient # <<"none", Nobody>> =>
            cc'[t].transient \in {"static", "dynamic"} \X Started(t)'
    BY <1>2, <2>1 DEF Stored
  <2> QED BY <2>2, <2>3 DEF Stored
<1>6. ASSUME NEW u \in Threads, u # t PROVE Stored(u)'
  BY <1>3, <1>6 DEF Stored
<1>7. ASSUME NEW u \in Threads, NEW k \in Iterations, u # t PROVE Filled(u, k)'
  <2>1. step'[u][k] = step[u][k] /\ request'[u][k] = request[u][k] /\ cc'[u] = cc[u]
    BY <1>1, <1>7
  <2> QED BY <1>3, <1>4, <1>7, <2>1 DEF Filled, Complete
<1>8. ASSUME NEW k \in Iterations, k # i PROVE Filled(t, k)'
  <2>1. step'[t][k] = step[t][k] /\ request'[t][k] = request[t][k]
    BY <1>1, <1>8
  <2>2. Filled(t, k)
    OBVIOUS
  <2>3. Complete(t, k) => Complete(t, k)'
    BY <1>2, <1>4, <2>1 DEF Complete
  <2> QED BY <1>2, <1>4, <2>1, <2>2, <2>3 DEF Filled
<1>9. Filled(t, i)'
  BY <1>2
<1> QED BY <1>4, <1>5, <1>6, <1>7, <1>8, <1>9

LEMMA FilledInvoke ==
    ASSUME FilledInv, Shape', NEW t \in Threads, NEW i \in Iterations, InvokeFunc(t, i)
    PROVE  FilledInv'
<1>1. Shape /\ Stored(t) /\ Filled(t, i) /\ peers \in {"given", Expected}
  BY DEF FilledInv
<1>2. ASSUME NEW s \in Steps, GoTo(t, i, s) PROVE step'[t][i] = s
  BY <1>1, <1>2, AfterGoTo
<1>3. /\ cc[t] \in Values /\ request[t][i] \in Requests
      /\ peers \in {"given", "discovered"} /\ cc \in [Threads -> Values]
  BY <1>1 DEF Shape
<1>4. i # Nobody
  BY InvokeAssumption DEF Iterations
<1>5. CASE Generate(t, i) \/ Answer(t, i) \/ Leave(t, i)
  <2>1. PICK s \in {"storeArgs", "ended", "done"} :
            /\ GoTo(t, i, s)
            /\ IF step[t][i] = "generate" THEN s # "done" ELSE step[t][i] \in Sent /\ s \in Sent
    BY <1>5 DEF Generate, Answer, Leave, Sent
  <2>2. step[t][i] \in {"generate", "called", "ended"} /\ UNCHANGED <<cfg, cc, request, peers>>
    BY <1>5 DEF Generate, Answer, Leave
  <2>3. s \in Steps \ {"idle"} /\ step'[t][i] = s
    BY <1>2, <2>1 DEF Steps
  <2>4. ASSUME Started(t)' = Started(t) \cup {i} PROVE Filled(t, i)'
    <3>1. Complete(t, i) => Complete(t, i)'
      BY <2>2, <2>4 DEF Complete, Expected
    <3> QED BY <1>1, <2>1, <2>2, <2>3, <3>1 DEF Filled, Storing, Reading, Sent
  <2> QED BY <2>1, <2>2, <2>3, <2>4, FilledStep
<1>6. CASE StoreArgs(t, i)
  <2>1. /\ step[t][i] = "storeArgs" /\ GoTo(t, i, "storeStatic")
        /\ cc' = [cc EXCEPT ![t].args = i] /\ UNCHANGED <<cfg, request, peers>>
    BY <1>6 DEF StoreArgs
  <2>2. "storeStatic" \in Steps \ {"idle"}
    BY DEF Steps
  <2>3. step'[t][i] = "storeStatic"
    BY <1>2, <2>1, <2>2
  <2>4. /\ cc'[t].args = i /\ cc'[t].transient = cc[t].transient
        /\ \A u \in Threads : u # t => cc'[u] = cc[u]
    BY <1>3, <2>1 DEF Values
  <2>5. Filled(t, i)'
    BY <1>1, <1>4, <2>1, <2>3, <2>4 DEF Filled, Storing, Reading, Sent
  <2> QED BY <1>4, <2>1, <2>2, <2>4, <2>5, FilledStep
<1>7. CASE StoreStaticMap(t, i) \/ StoreDynamicMap(t, i)
  <2>1. PICK m \in {"static", "dynamic"}, s \in {"storeDynamic", "readArgs"} :
            /\ step[t][i] \in Storing /\ GoTo(t, i, s)
            /\ cc' = [cc EXCEPT ![t].transient = <<m, i>>] /\ UNCHANGED <<cfg, request, peers>>
            /\ step[t][i] \notin Sent \cup Reading
    BY <1>7 DEF StoreStaticMap, StoreDynamicMap, Storing, Reading, Sent
  <2>2. s \in Steps \ {"idle"}
    BY DEF Steps
  <2>3. step'[t][i] = s
    BY <1>2, <2>1, <2>2
  <2>4. /\ cc'[t].args = cc[t].args /\ cc'[t].transient = <<m, i>>
        /\ \A u \in Threads : u # t => cc'[u] = cc[u]
    BY <1>1, <2>1, MapStored
  <2>5. <<m, i>> # <<"none", Nobody>>
    BY <1>4
  <2>6. Filled(t, i)'
    BY <1>1, <2>1, <2>3, <2>4, <2>5 DEF Filled, Storing, Reading, Sent, NoRequest
  <2> QED BY <2>1, <2>2, <2>4, <2>5, <2>6, FilledStep
<1>8. CASE ReadArgument(t, i)
  <2> DEFINE r == [request[t][i] EXCEPT !.args = @ \cup {cc[t].args}]
  <2>1. /\ step[t][i] = "readArgs" /\ GoTo(t, i, "readArgs")
        /\ request' = [request EXCEPT ![t][i].args = @ \cup {cc[t].args}] /\ UNCHANGED <<cfg, cc, peers>>
    BY <1>8 DEF ReadArgument
  <2>2. "readArgs" \in Steps \ {"idle"}
    BY DEF Steps
  <2>3. step'[t][i] = "readArgs"
    BY <1>2, <2>1, <2>2
  <2>4. r \in Requests /\ r.args = request[t][i].args \cup {cc[t].args}
    BY <1>3 DEF Values, Requests
  <2>5. request' = [request EXCEPT ![t][i] = r]
    BY <1>3, <2>1 DEF Requests
  <2>6. /\ request'[t][i] = r
        /\ \A u \in Threads, k \in Iterations : u # t \/ k # i => request'[u][k] = request[u][k]
    BY <1>1, <2>4, <2>5, ExceptTwice DEF Shape
  <2>7. cc[t].args \in Started(t) /\ request[t][i].args \subseteq Started(t)
    BY <1>1, <2>1 DEF Filled, Stored, Storing, Reading
  <2>8. /\ cc[t].args # Nobody /\ cc[t].transient # <<"none", Nobody>>
    BY <1>1, <2>1 DEF Filled, Storing
  <2> HIDE DEF r
  <2>9. ASSUME Started(t)' = Started(t) \cup {i} PROVE Filled(t, i)'
    BY <2>1, <2>3, <2>4, <2>6, <2>7, <2>8, <2>9 DEF Filled, Storing, Reading, Sent
  <2>10. /\ GoTo(t, i, "readArgs") /\ UNCHANGED <<cfg, cc, peers>>
         /\ \A u \in Threads, k \in Iterations : u # t \/ k # i => request'[u][k] = request[u][k]
    BY <2>1, <2>6
  <2> QED BY <2>2, <2>9, <2>10, FilledStep
<1>10. CASE ChooseTargets(t, i)
  <2>1. /\ step[t][i] = "readArgs" /\ GoTo(t, i, "readRest") /\ UNCHANGED <<cfg, cc, request>>
        /\ peers' = IF cfg.serviceDiscovery /\ ~cfg.queryOnly THEN "discovered" ELSE peers
    BY <1>10 DEF ChooseTargets
  <2>2. "readRest" \in Steps \ {"idle"}
    BY DEF Steps
  <2>3. step'[t][i] = "readRest"
    BY <1>2, <2>1, <2>2
  <2>4. peers' = Expected /\ Expected' = Expected
    BY <1>1, <2>1 DEF Expected
  <2>5. ASSUME Started(t)' = Started(t) \cup {i} PROVE Filled(t, i)'
    BY <1>1, <2>1, <2>3, <2>4, <2>5 DEF Filled, Storing, Reading, Sent
  <2> QED BY <2>1, <2>2, <2>4, <2>5, FilledStep
<1>9. CASE ReadRest(t, i)
  <2> DEFINE r == [request[t][i] EXCEPT !.fcn = cc[t].args, !.transient = cc[t].transient,
                                        !.targets = peers]
  <2>1. /\ step[t][i] = "readRest" /\ GoTo(t, i, "called")
        /\ request' = [request EXCEPT ![t][i].fcn = cc[t].args, ![t][i].transient = cc[t].transient,
                                      ![t][i].targets = peers]
        /\ UNCHANGED <<cfg, cc, peers>>
    BY <1>9 DEF ReadRest
  <2>2. "called" \in Steps \ {"idle"}
    BY DEF Steps
  <2>3. step'[t][i] = "called"
    BY <1>2, <2>1, <2>2
  <2>4. /\ r \in Requests /\ r.args = request[t][i].args /\ r.fcn = cc[t].args
        /\ r.transient = cc[t].transient /\ r.targets = peers
    BY <1>3 DEF Values, Requests
  <2>5. request' = [request EXCEPT ![t][i] = r]
    BY <1>3, <2>1 DEF Requests
  <2>6. /\ request'[t][i] = r
        /\ \A u \in Threads, k \in Iterations : u # t \/ k # i => request'[u][k] = request[u][k]
    BY <1>1, <2>4, <2>5, ExceptTwice DEF Shape
  <2> HIDE DEF r
  <2>7. /\ cc[t].transient \in {"static", "dynamic"} \X Started(t)
        /\ cc[t].args \in Started(t) /\ request[t][i].args \subseteq Started(t) /\ peers = Expected
    BY <1>1, <2>1 DEF Filled, Stored, Storing, Reading
  <2>8. ASSUME Started(t)' = Started(t) \cup {i} PROVE Filled(t, i)'
    <3>1. Expected' = Expected
      BY <2>1 DEF Expected
    <3>2. Complete(t, i)'
      BY <2>4, <2>6, <2>7, <2>8, <3>1 DEF Complete
    <3> QED BY <2>3, <3>2 DEF Filled, Storing, Reading, Sent
  <2>9. /\ GoTo(t, i, "called") /\ UNCHANGED <<cfg, cc, peers>>
        /\ \A u \in Threads, k \in Iterations : u # t \/ k # i => request'[u][k] = request[u][k]
    BY <2>1, <2>6
  <2> QED BY <2>2, <2>8, <2>9, FilledStep
<1> QED BY <1>5, <1>6, <1>7, <1>8, <1>9, <1>10 DEF InvokeFunc

LEMMA FilledNext == AloneInv /\ FilledInv /\ [Next]_vars => FilledInv'
<1> SUFFICES ASSUME AloneInv, FilledInv, [Next]_vars PROVE FilledInv'
  OBVIOUS
<1>1. Shape'
  BY AloneNext DEF AloneInv
<1>2. ASSUME UNCHANGED <<cfg, iterating>> PROVE FilledInv'
  BY <1>1, <1>2 DEF FilledInv, Stored, Filled, Complete, Expected, Started, iterating
<1>3. CASE Command
  BY <1>2, <1>3 DEF Command, ThreadsDone, Collect
<1>4. ASSUME NEW t \in Threads, Thread(t) PROVE FilledInv'
  <2>1. CASE IterateFuncReturns(t) \/ Report(t)
    BY <1>2, <2>1, ReturnMeans DEF Report
  <2>2. ASSUME NEW i \in Iterations, StartIteration(t, i) PROVE FilledInv'
    <3>1. /\ step[t][i] = "idle" /\ GoTo(t, i, "generate") /\ "generate" \in Steps \ {"idle"}
          /\ UNCHANGED <<cfg, cc, request, peers>>
      BY <2>2, StartMeans
    <3>2. step'[t][i] = "generate"
      BY <3>1, AfterGoTo DEF FilledInv
    <3>3. Filled(t, i)'
      BY <3>1, <3>2 DEF FilledInv, Filled, Storing, Reading, Sent
    <3> QED BY <1>1, <3>1, <3>3, FilledStep
  <2> QED BY <1>4, <2>1, <2>2 DEF Thread
<1>5. ASSUME NEW t \in Threads, NEW i \in Iterations, InvokeFunc(t, i) PROVE FilledInv'
  BY <1>1, <1>5, FilledInvoke
<1>6. CASE UNCHANGED vars
  BY <1>2, <1>6 DEF vars
<1> QED BY <1>3, <1>4, <1>5, <1>6 DEF Next

(* However the iterations of a thread overlap, no request lacks arguments  *)
(* or a transient map, both are of iterations that have started, and none  *)
(* goes to the listed peers once endorsers are to be discovered.           *)
THEOREM RequestsAreComplete == Spec => []RequestsComplete
<1>1. FilledInv => RequestsComplete
  <2> SUFFICES ASSUME FilledInv, NEW t \in Threads, NEW i \in Requested(t)
               PROVE  Complete(t, i)
    BY DEF RequestsComplete, Complete, Expected
  <2>1. i \in Iterations /\ Filled(t, i)
    BY DEF FilledInv, Requested
  <2> QED BY <2>1 DEF Filled, Requested, Sent
<1> QED BY <1>1, AloneInit, AloneNext, FilledInit, FilledNext, PTL DEF Spec

=============================================================================
