-------------------------- MODULE IterateFuncProofs --------------------------
(***************************************************************************)
(* Proofs of IterateFunc's safety properties, for every count, limit and   *)
(* combination of parameters.                                              *)
(***************************************************************************)
EXTENDS MCIterateFunc, FiniteSetTheorems, TLAPS

Finished == {i \in Iterations : outcome[i] # "none"}

(* The counters count what they stand for.                                 *)
CountersOK ==
    /\ throttle = Cardinality(Active) /\ throttle <= limit
    /\ wg = Cardinality(Counted)
    /\ success + fail = Cardinality(Finished)

(* Which goroutines have been started, given where the caller is.          *)
ProgressOK ==
    /\ \A i \in Iterations : i < iter => g[i] # "idle"
    /\ pc \in {"top", "acquire"} => \A i \in Iterations : i >= iter => g[i] = "idle"
    /\ pc = "acquire" => iter < N
    /\ pc = "check" =>
           /\ iter < N /\ g[iter] # "idle"
           /\ \A i \in Iterations : i > iter => g[i] = "idle"
    /\ pc \in {"top", "acquire", "check"} => retErr = NoError
    /\ pc \in {"wait", "drain", "returned"} /\ run.mode = "count" /\ retErr = NoError
           => iter = N
    /\ pc \in {"drain", "returned"} => Counted = {}
    /\ \A i \in Iterations : outcome[i] = "none" <=> g[i] \in {"idle", "running"}

(* An error that must be returned is still with its goroutine, in the      *)
(* channel, or the result.                                                 *)
ErrorsOK ==
    /\ \A i \in Iterations : g[i] = "failed" => outcome[i] = "error"
    /\ \A k \in 1..Len(errChan) : outcome[errChan[k]] = "error"
    /\ retErr \in Iterations => outcome[retErr] = "error" /\ ~run.ignoreErrors
    /\ retErr = ParseError => run.mode = "invalid"
    /\ \A i \in Iterations :
           outcome[i] = "error" /\ g[i] # "failed" /\ ~run.ignoreErrors =>
               retErr # NoError \/ (pc # "returned" /\ errChan # <<>>)

Inv == TypeOK /\ CountersOK /\ ProgressOK /\ ErrorsOK

LEMMA IterationsFinite ==
    ASSUME NEW S \in SUBSET Iterations, NEW i \in Iterations
    PROVE  /\ IsFiniteSet(S) /\ Cardinality(S) \in Nat
           /\ i \notin S => Cardinality(S \cup {i}) = Cardinality(S) + 1
           /\ i \in S => /\ Cardinality(S \ {i}) = Cardinality(S) - 1
                         /\ Cardinality(S) > 0
<1>1. IsFiniteSet(Iterations)
  BY FS_Interval, IterateFuncAssumption DEF Iterations
<1>2. IsFiniteSet(S)
  BY <1>1, FS_Subset
<1>3. Cardinality(S) \in Nat
  BY <1>2, FS_CardinalityType
<1>4. i \in S => Cardinality(S \ {i}) = Cardinality(S) - 1
  BY <1>2, FS_RemoveElement
<1>5. i \in S => Cardinality(S \ {i}) \in Nat
  BY <1>2, FS_RemoveElement, FS_CardinalityType
<1>6. i \in S => Cardinality(S) > 0
  BY <1>3, <1>4, <1>5
<1>7. i \notin S => Cardinality(S \cup {i}) = Cardinality(S) + 1
  BY <1>2, FS_AddElement
<1> QED BY <1>2, <1>3, <1>4, <1>6, <1>7

LEMMA LimitType == TypeOK => limit \in Nat
<1> SUFFICES ASSUME TypeOK PROVE limit \in Nat
  OBVIOUS
<1>1. run.flag \in Int
  BY IterateFuncAssumption DEF TypeOK, Runs
<1>2. RoutineLimit(run.flag) \in Nat
  BY <1>1, IterateFuncAssumption DEF RoutineLimit
<1> QED BY <1>2 DEF limit

LEMMA InvInit == Init => Inv
<1> SUFFICES ASSUME Init PROVE Inv
  OBVIOUS
<1>1. TypeOK
  <2>1. 0 \in 0..N
    BY IterateFuncAssumption
  <2>2. errChan \in Seq(Iterations)
    BY DEF Init
  <2>3. /\ g \in [Iterations -> GoroutineStates]
        /\ outcome \in [Iterations -> {"none", "ok", "ignored", "error"}]
    BY DEF Init, GoroutineStates
  <2> QED BY <2>1, <2>2, <2>3 DEF Init, TypeOK
<1>2. Active = {} /\ Counted = {} /\ Finished = {}
  BY DEF Init, Active, Launched, Counted, Finished
<1>3. CountersOK
  BY <1>1, <1>2, FS_EmptySet, LimitType DEF Init, CountersOK
<1>4. ProgressOK
  BY <1>2, IterateFuncAssumption DEF Init, ProgressOK, Iterations
<1>5. ErrorsOK
  BY IterateFuncAssumption DEF Init, ErrorsOK, Iterations
<1> QED BY <1>1, <1>3, <1>4, <1>5 DEF Inv

(* What a step of goroutine i does to the counted sets.                    *)
LEMMA StepOfGoroutine ==
    ASSUME Inv, NEW i \in Iterations, NEW s \in GoroutineStates \ {"idle"},
           g[i] # "idle", g' = [g EXCEPT ![i] = s], UNCHANGED run
    PROVE  /\ g'[i] = s /\ \A k \in Iterations : k # i => g'[k] = g[k]
           /\ Active' = IF s = "gone" THEN Active \ {i} ELSE Active \cup {i}
           /\ Counted' = IF s \in {"running", "failed", "ending"}
                         THEN Counted \cup {i} ELSE Counted \ {i}
BY DEF Inv, TypeOK, Active, Launched, Counted, GoroutineStates

(* The counters after a step of goroutine i, from what happened to the sets.*)
LEMMA CountersOfGoroutine ==
    ASSUME Inv, NEW i \in Iterations, NEW s \in GoroutineStates \ {"idle"},
           g[i] # "idle", g' = [g EXCEPT ![i] = s], UNCHANGED run,
           g[i] # "gone",
           throttle' = IF s = "gone" THEN throttle - 1 ELSE throttle,
           wg' = IF i \in Counted /\ s \in {"releasing", "gone"} THEN wg - 1 ELSE wg,
           i \in Counted \/ s \in {"releasing", "gone"},
           success' + fail' = Cardinality(Finished')
    PROVE  CountersOK' /\ throttle' \in Nat /\ wg' \in Nat
<1>1. throttle = Cardinality(Active) /\ throttle <= limit /\ wg = Cardinality(Counted)
  BY DEF Inv, CountersOK
<1>2. i \in Active /\ Active \in SUBSET Iterations /\ Counted \in SUBSET Iterations
  BY DEF Active, Launched, Counted
<1>3. throttle' = Cardinality(Active')
  <2>1. CASE s = "gone"
    BY <1>1, <1>2, <2>1, StepOfGoroutine, IterationsFinite
  <2>2. CASE s # "gone"
    <3>1. Active' = Active \cup {i}
      BY <2>2, StepOfGoroutine
    <3> QED BY <1>1, <1>2, <2>2, <3>1
  <2> QED BY <2>1, <2>2
<1>4. wg' = Cardinality(Counted')
  <2>1. CASE i \in Counted /\ s \in {"releasing", "gone"}
    <3>1. Counted' = Counted \ {i}
      BY <2>1, StepOfGoroutine
    <3> QED BY <1>1, <1>2, <2>1, <3>1, IterationsFinite
  <2>2. CASE ~(i \in Counted /\ s \in {"releasing", "gone"})
    <3>1. CASE i \in Counted
      <4>1. s \in {"running", "failed", "ending"}
        BY <2>2, <3>1 DEF GoroutineStates
      <4>2. Counted' = Counted \cup {i}
        BY <4>1, StepOfGoroutine
      <4> QED BY <1>1, <2>2, <3>1, <4>2
    <3>2. CASE i \notin Counted
      <4>1. Counted' = Counted \ {i}
        BY <3>2, StepOfGoroutine
      <4>2. Counted' = Counted
        BY <3>2, <4>1
      <4> QED BY <1>1, <2>2, <4>2
    <3> QED BY <3>1, <3>2
  <2> QED BY <2>1, <2>2
<1>5. Active' \in SUBSET Iterations /\ Counted' \in SUBSET Iterations
  BY DEF Active, Launched, Counted
<1>6. throttle' \in Nat /\ wg' \in Nat
  BY <1>3, <1>4, <1>5, IterationsFinite
<1>7. limit' = limit /\ limit \in Nat
  BY LimitType DEF limit, Inv
<1>8. throttle' <= limit'
  BY <1>1, <1>6, <1>7 DEF Inv, TypeOK
<1> QED BY <1>3, <1>4, <1>6, <1>8 DEF CountersOK

LEMMA InvNext == Inv /\ [Next]_vars => Inv'
<1> SUFFICES ASSUME Inv, [Next]_vars PROVE Inv'
  OBVIOUS
<1> USE DEF Inv
<1>1. limit \in Nat
  BY LimitType
<1>2. ASSUME UNCHANGED <<run, throttle, wg, g, outcome, success, fail>> PROVE CountersOK'
  BY <1>2 DEF CountersOK, Active, Launched, Counted, Finished, limit
<1>3. CASE Iterate
  <2>1. TypeOK'
    BY <1>3 DEF Iterate, TypeOK
  <2>2. ProgressOK'
    BY <1>3 DEF Iterate, ProgressOK
  <2>3. ErrorsOK'
    BY <1>3 DEF Iterate, ErrorsOK
  <2> QED BY <1>2, <1>3, <2>1, <2>2, <2>3 DEF Iterate
<1>4. CASE LeaveLoop
  <2>1. TypeOK'
    BY <1>4 DEF LeaveLoop, TypeOK
  <2>2. ProgressOK'
    BY <1>4 DEF LeaveLoop, ProgressOK
  <2>3. ErrorsOK'
    BY <1>4 DEF LeaveLoop, ErrorsOK
  <2> QED BY <1>2, <1>4, <2>1, <2>2, <2>3 DEF LeaveLoop
<1>5. CASE RejectCount
  <2>1. TypeOK'
    BY <1>5 DEF RejectCount, TypeOK
  <2>2. ProgressOK'
    BY <1>5 DEF RejectCount, ProgressOK
  <2>3. ErrorsOK'
    BY <1>5, IterateFuncAssumption DEF RejectCount, ErrorsOK, Iterations
  <2> QED BY <1>2, <1>5, <2>1, <2>2, <2>3 DEF RejectCount
<1>6. CASE Launch
  <2>1. iter \in Iterations /\ g[iter] = "idle"
    BY <1>6, IterateFuncAssumption DEF Launch, ProgressOK, TypeOK, Iterations
  <2>2. /\ g'[iter] = "running"
        /\ \A k \in Iterations : k # iter => g'[k] = g[k]
    BY <1>6, <2>1 DEF Launch, TypeOK
  <2>3. TypeOK'
    BY <1>6, <2>1 DEF Launch, TypeOK, GoroutineStates
  <2>4. /\ Active' = Active \cup {iter} /\ iter \notin Active
        /\ Counted' = Counted \cup {iter} /\ iter \notin Counted
        /\ Finished' = Finished
    BY <1>6, <2>1, <2>2 DEF Launch, Active, Launched, Counted, Finished
  <2>5. Active \in SUBSET Iterations /\ Counted \in SUBSET Iterations
    BY DEF Active, Launched, Counted
  <2>6. CountersOK'
    BY <1>1, <1>6, <2>1, <2>4, <2>5, IterationsFinite
    DEF Launch, CountersOK, limit, TypeOK
  <2>7. ProgressOK'
    BY <1>6, <2>1, <2>2, IterateFuncAssumption DEF Launch, ProgressOK, TypeOK, Iterations
  <2>8. ErrorsOK'
    BY <1>6, <2>1, <2>2 DEF Launch, ErrorsOK, ProgressOK
  <2> QED BY <2>3, <2>6, <2>7, <2>8
<1>7. ASSUME NEW e \in Iterations, errChan # <<>>, e = Head(errChan) PROVE outcome[e] = "error"
  BY <1>7 DEF ErrorsOK, TypeOK
<1>8. errChan # <<>> =>
          /\ Head(errChan) \in Iterations /\ Tail(errChan) \in Seq(Iterations)
          /\ \A k \in 1..Len(Tail(errChan)) : outcome[Tail(errChan)[k]] = "error"
  BY DEF ErrorsOK, TypeOK
<1>9. CASE SeeError
  <2>1. iter + 1 \in 0..N /\ iter \in Iterations
    BY <1>9, IterateFuncAssumption DEF SeeError, ProgressOK, TypeOK, Iterations
  <2>2. TypeOK'
    BY <1>8, <1>9, <2>1 DEF SeeError, TypeOK
  <2>3. ProgressOK'
    BY <1>8, <1>9, <2>1, IterateFuncAssumption
    DEF SeeError, ProgressOK, Counted, TypeOK, Iterations
  <2>4. ErrorsOK'
    BY <1>7, <1>8, <1>9, IterateFuncAssumption DEF SeeError, ErrorsOK, Iterations
  <2> QED BY <1>2, <1>9, <2>2, <2>3, <2>4 DEF SeeError
<1>10. CASE SeeNoError
  <2>1. iter + 1 \in 0..N /\ iter \in Iterations
    BY <1>10, IterateFuncAssumption DEF SeeNoError, ProgressOK, TypeOK, Iterations
  <2>2. TypeOK'
    BY <1>10, <2>1 DEF SeeNoError, TypeOK
  <2>3. ProgressOK'
    BY <1>10, <2>1, IterateFuncAssumption
    DEF SeeNoError, ProgressOK, Counted, TypeOK, Iterations
  <2>4. ErrorsOK'
    BY <1>10 DEF SeeNoError, ErrorsOK
  <2> QED BY <1>2, <1>10, <2>2, <2>3, <2>4 DEF SeeNoError
<1>11. CASE WaitGroupDone
  <2>1. TypeOK'
    BY <1>11 DEF WaitGroupDone, TypeOK
  <2>2. Counted = {}
    <3>1. IsFiniteSet(Counted)
      <4>1. Counted \in SUBSET Iterations
        BY DEF Counted
      <4>2. IsFiniteSet(Iterations)
        BY FS_Interval, IterateFuncAssumption DEF Iterations
      <4> QED BY <4>1, <4>2, FS_Subset
    <3> QED BY <1>11, <3>1, FS_EmptySet DEF WaitGroupDone, CountersOK
  <2>3. Counted' = {}
    BY <1>11, <2>2 DEF WaitGroupDone, Counted
  <2>4. ProgressOK'
    BY <1>11, <2>3 DEF WaitGroupDone, ProgressOK
  <2>5. ErrorsOK'
    BY <1>11 DEF WaitGroupDone, ErrorsOK
  <2> QED BY <1>2, <1>11, <2>1, <2>4, <2>5 DEF WaitGroupDone
<1>12. CASE DrainAndClose
  <2>1. TypeOK'
    <3>1. errChan' \in Seq(Iterations)
      <4>1. CASE errChan # <<>> /\ errChan' = Tail(errChan)
        BY <1>8, <4>1
      <4>2. CASE errChan' = <<>>
        BY <4>2
      <4> QED BY <1>12, <4>1, <4>2 DEF DrainAndClose
    <3>2. retErr' \in Iterations \cup {NoError, ParseError}
      BY <1>8, <1>12 DEF DrainAndClose, TypeOK
    <3> QED BY <1>12, <3>1, <3>2 DEF DrainAndClose, TypeOK
  <2>2. Counted' = Counted
    BY <1>12 DEF DrainAndClose, Counted
  <2>3. ProgressOK'
    BY <1>8, <1>12, <2>2, IterateFuncAssumption DEF DrainAndClose, ProgressOK, Iterations
  <2>4. ErrorsOK'
    <3>1. \A i \in Iterations : g'[i] = "failed" => outcome'[i] = "error"
      BY <1>12 DEF DrainAndClose, ErrorsOK
    <3>2. CASE errChan # <<>> /\ ~run.ignoreErrors
      <4>1. /\ retErr' = Head(errChan) /\ errChan' = Tail(errChan)
            /\ UNCHANGED <<run, g, outcome>>
        BY <1>12, <3>2 DEF DrainAndClose
      <4>2. retErr' \notin {NoError, ParseError}
        BY <1>8, <3>2, <4>1, IterateFuncAssumption DEF Iterations
      <4> QED BY <1>7, <1>8, <3>1, <3>2, <4>1, <4>2 DEF ErrorsOK
    <3>3. CASE errChan = <<>> \/ run.ignoreErrors
      <4>1. errChan' = <<>> /\ UNCHANGED <<run, g, outcome, retErr>>
        BY <1>12, <3>3 DEF DrainAndClose
      <4>2. Len(errChan') = 0
        BY <4>1
      <4> QED BY <3>1, <3>3, <4>1, <4>2 DEF ErrorsOK
    <3> QED BY <3>2, <3>3
  <2> QED BY <1>2, <1>12, <2>1, <2>3, <2>4 DEF DrainAndClose
<1>13. CASE TimerFires
  BY <1>2, <1>13 DEF TimerFires, TypeOK, ProgressOK, Counted, ErrorsOK
<1>14. CASE UNCHANGED vars
  BY <1>2, <1>14 DEF vars, TypeOK, ProgressOK, Counted, ErrorsOK
<1>15. ASSUME NEW i \in Iterations, Goroutine(i) PROVE Inv'
  <2>1. g[i] \notin {"idle", "gone"}
    BY <1>15 DEF Goroutine, Succeed, Fail, SendError, Done, Release
  <2>2. PICK s \in GoroutineStates \ {"idle"} : g' = [g EXCEPT ![i] = s]
    BY <1>15 DEF Goroutine, Succeed, Fail, SendError, Done, Release, GoroutineStates
  <2>3. /\ g'[i] = s /\ \A k \in Iterations : k # i => g'[k] = g[k]
        /\ UNCHANGED <<run, pc, iter, timer, retErr>>
    BY <1>15, <2>2 DEF TypeOK, Goroutine, Succeed, Fail, SendError, Done, Release
  <2>4. /\ Finished \in SUBSET Iterations
        /\ success \in Nat /\ fail \in Nat /\ success + fail = Cardinality(Finished)
    BY DEF Finished, TypeOK, CountersOK
  <2>5. CASE Succeed(i) \/ Fail(i)
    <3>1. /\ g[i] = "running" /\ s \in {"failed", "ending"} /\ outcome[i] = "none"
          /\ outcome'[i] \in {"ok", "ignored", "error"}
          /\ s = "failed" <=> outcome'[i] = "error"
          /\ \A k \in Iterations : k # i => outcome'[k] = outcome[k]
          /\ outcome' \in [Iterations -> {"none", "ok", "ignored", "error"}]
          /\ UNCHANGED <<errChan, throttle, wg>>
      BY <2>3, <2>5 DEF Succeed, Fail, TypeOK, ProgressOK
    <3>2. Finished' = Finished \cup {i} /\ i \notin Finished
      BY <3>1 DEF Finished
    <3>3. success' \in Nat /\ fail' \in Nat /\ success' + fail' = success + fail + 1
      BY <2>4, <2>5 DEF Succeed, Fail
    <3>4. success' + fail' = Cardinality(Finished')
      BY <2>4, <3>2, <3>3, IterationsFinite
    <3>5. i \in Counted
      BY <3>1 DEF Counted
    <3>6. CountersOK'
      BY <2>1, <2>2, <2>3, <3>1, <3>4, <3>5, CountersOfGoroutine
    <3>7. TypeOK'
      BY <2>2, <2>3, <3>1, <3>3 DEF TypeOK
    <3>8. Counted # {} /\ \A k \in Iterations : g'[k] = "idle" <=> g[k] = "idle"
      BY <2>1, <2>3, <3>1, <3>5
    <3>9. ProgressOK'
      BY <2>3, <3>1, <3>8, IterateFuncAssumption DEF ProgressOK, TypeOK, Iterations
    <3>10. ErrorsOK'
      BY <2>3, <3>1 DEF ErrorsOK, TypeOK
    <3> QED BY <3>6, <3>7, <3>9, <3>10
  <2>6. CASE SendError(i)
    <3>1. /\ g[i] = "failed" /\ s = "ending"
          /\ errChan' = IF Len(errChan) < limit THEN Append(errChan, i) ELSE errChan
          /\ UNCHANGED <<throttle, wg, outcome, success, fail>>
      <4>1. s = "ending"
        BY <2>3, <2>6 DEF SendError, TypeOK
      <4> QED BY <2>6, <4>1 DEF SendError
    <3>2. Finished' = Finished /\ i \in Counted
      BY <3>1 DEF Finished, Counted
    <3>3. CountersOK'
      BY <2>1, <2>2, <2>3, <2>4, <3>1, <3>2, CountersOfGoroutine
    <3>4. errChan' \in Seq(Iterations)
      BY <3>1 DEF TypeOK
    <3>5. TypeOK'
      BY <2>2, <2>3, <3>1, <3>4 DEF TypeOK
    <3>6. \A k \in Iterations : g'[k] = "idle" <=> g[k] = "idle"
      BY <2>1, <2>3, <3>1
    <3>7. ProgressOK'
      BY <2>3, <3>1, <3>2, <3>6, IterateFuncAssumption DEF ProgressOK, TypeOK, Iterations
    <3>8. limit > 0
      <4>1. i \in Active /\ Active \in SUBSET Iterations
        BY <3>1 DEF Active, Launched
      <4>2. Cardinality(Active) > 0
        BY <4>1, IterationsFinite
      <4> QED BY <1>1, <4>2 DEF CountersOK, TypeOK
    <3>9. errChan' # <<>> /\ \A k \in 1..Len(errChan') : outcome'[errChan'[k]] = "error"
      <4>1. CASE Len(errChan) < limit
        BY <3>1, <4>1 DEF ErrorsOK, TypeOK
      <4>2. CASE ~(Len(errChan) < limit)
        BY <1>1, <3>1, <3>8, <4>2 DEF ErrorsOK, TypeOK
      <4> QED BY <4>1, <4>2
    <3>10. pc # "returned"
      BY <3>2 DEF ProgressOK
    <3>11. ErrorsOK'
      BY <2>3, <3>1, <3>9, <3>10 DEF ErrorsOK
    <3> QED BY <3>3, <3>5, <3>7, <3>11
  <2>7. CASE Done(i) \/ Release(i)
    <3>1. /\ g[i] \in {"ending", "releasing"} /\ s \in {"releasing", "gone"}
          /\ s = "releasing" <=> g[i] = "ending"
          /\ throttle' = IF s = "gone" THEN throttle - 1 ELSE throttle
          /\ wg' = IF g[i] = "ending" THEN wg - 1 ELSE wg
          /\ UNCHANGED <<errChan, outcome, success, fail>>
      <4>1. \/ /\ g[i] = "ending" /\ s = "releasing"
               /\ wg' = wg - 1 /\ UNCHANGED <<throttle, errChan, outcome, success, fail>>
            \/ /\ g[i] = "releasing" /\ s = "gone" /\ throttle' = throttle - 1
               /\ UNCHANGED <<wg, errChan, outcome, success, fail>>
        BY <2>3, <2>7 DEF Done, Release, TypeOK
      <4> QED BY <4>1
    <3>2. Finished' = Finished /\ (i \in Counted <=> g[i] = "ending")
      BY <3>1 DEF Finished, Counted
    <3>3. CountersOK' /\ throttle' \in Nat /\ wg' \in Nat
      BY <2>1, <2>2, <2>3, <2>4, <3>1, <3>2, CountersOfGoroutine
    <3>4. TypeOK'
      BY <2>2, <2>3, <3>1, <3>3 DEF TypeOK
    <3>5. \A k \in Iterations : g'[k] = "idle" <=> g[k] = "idle"
      BY <2>1, <2>3, <3>1
    <3>6. Counted' \in SUBSET Counted
      BY <2>3, <3>1 DEF Counted
    <3>7. ProgressOK'
      BY <2>3, <3>1, <3>5, <3>6, IterateFuncAssumption DEF ProgressOK, TypeOK, Iterations
    <3>8. ErrorsOK'
      BY <2>3, <3>1 DEF ErrorsOK
    <3> QED BY <3>3, <3>4, <3>7, <3>8
  <2> QED BY <1>15, <2>5, <2>6, <2>7 DEF Goroutine
<1> QED
  BY <1>3, <1>4, <1>5, <1>6, <1>9, <1>10, <1>11, <1>12, <1>13, <1>14, <1>15
  DEF Next, Caller

(* Every variable of the pool keeps its type.                              *)
THEOREM IterateFuncTypes == Spec => []TypeOK
<1>1. Inv => TypeOK
  BY DEF Inv
<1> QED BY <1>1, InvInit, InvNext, PTL DEF Spec

(* The goroutines never outnumber the limit.                               *)
THEOREM LimitKept == Spec => []AtMostLimit
<1>1. Inv => AtMostLimit
  BY DEF Inv, CountersOK, AtMostLimit
<1> QED BY <1>1, InvInit, InvNext, PTL DEF Spec

(* No goroutine sends on the closed channel.                               *)
THEOREM ClosedChannelUnused == Spec => []NoSendAfterClose
<1>1. Inv => NoSendAfterClose
  BY DEF Inv, TypeOK, ProgressOK, Counted, Launched, NoSendAfterClose, GoroutineStates
<1> QED BY <1>1, InvInit, InvNext, PTL DEF Spec

(* The counts that are returned cover every iteration that was launched.   *)
THEOREM CountsComplete == Spec => []CountsAddUp
<1>1. Inv => CountsAddUp
  <2> SUFFICES ASSUME Inv, pc = "returned" PROVE success + fail = Cardinality(Launched)
    BY DEF CountsAddUp
  <2>1. Launched = Finished
    BY DEF Inv, TypeOK, ProgressOK, Counted, Launched, Finished
  <2> QED BY <2>1 DEF Inv, CountersOK
<1> QED BY <1>1, InvInit, InvNext, PTL DEF Spec

(* An error that must be returned is returned.                             *)
THEOREM ErrorNotLost == Spec => []ErrorIsReturned
<1>1. Inv => ErrorIsReturned
  <2> SUFFICES ASSUME Inv, pc = "returned", run.mode # "invalid"
               PROVE  IF run.ignoreErrors \/ Errors = {} THEN retErr = NoError
                      ELSE retErr \in Errors
    BY DEF ErrorIsReturned
  <2>1. retErr = NoError \/ (retErr \in Iterations /\ outcome[retErr] = "error" /\ ~run.ignoreErrors)
    BY DEF Inv, TypeOK, ErrorsOK
  <2>2. ASSUME NEW i \in Iterations, outcome[i] = "error", ~run.ignoreErrors
        PROVE  retErr # NoError
    BY <2>2 DEF Inv, ErrorsOK, ProgressOK, Counted
  <2> QED BY <2>1, <2>2 DEF Errors
<1> QED BY <1>1, InvInit, InvNext, PTL DEF Spec

(* A loop over a count that returns no error has run all its iterations.   *)
THEOREM NothingSkipped == Spec => []AllIterationsRun
<1>1. Inv => AllIterationsRun
  <2> SUFFICES ASSUME Inv, pc = "returned", run.mode = "count", retErr = NoError,
                      NEW i \in Iterations
               PROVE  outcome[i] # "none"
    BY DEF AllIterationsRun
  <2>1. iter = N
    BY DEF Inv, ProgressOK
  <2>2. i < iter
    BY <2>1, IterateFuncAssumption DEF Iterations
  <2>3. g[i] \notin {"idle", "running"}
    BY <2>2 DEF Inv, ProgressOK, Counted
  <2> QED BY <2>3 DEF Inv, ProgressOK
<1> QED BY <1>1, InvInit, InvNext, PTL DEF Spec

-----------------------------------------------------------------------------
(* Launching after an error, which the history variable late counts.       *)

(* Only the caller takes errors out of the channel, so the launch that is  *)
(* counted is followed by a look that finds one and ends the loop.         *)
LateOK ==
    ~run.ignoreErrors =>
        /\ late \in {0, 1}
        /\ late = 1 => pc \notin {"top", "acquire"} /\ (pc = "check" => errChan # <<>>)

LEMMA LateNext == Inv /\ LateOK /\ [MCNext]_<<vars, late>> => LateOK'
<1> SUFFICES ASSUME Inv, LateOK, [MCNext]_<<vars, late>>, ~run.ignoreErrors, UNCHANGED run
             PROVE  LateOK'
  BY DEF LateOK, MCNext, Next, Caller, TimerFires, Goroutine, Iterate, LeaveLoop, RejectCount,
         Launch, SeeError, SeeNoError, WaitGroupDone, DrainAndClose, Succeed, Fail, SendError,
         Done, Release, vars
<1> USE DEF Inv
<1>1. wg \in Nat /\ errChan \in Seq(Iterations) /\ late \in {0, 1}
  BY DEF TypeOK, LateOK
<1>2. ASSUME wg' \in {wg, wg - 1}, [MCNext]_<<vars, late>> PROVE late' = late
  BY <1>1, <1>2 DEF MCNext, vars
<1>3. CASE Launch /\ MCNext
  <2>1. pc = "acquire" /\ pc' = "check" /\ UNCHANGED errChan
    BY <1>3 DEF Launch
  <2>2. late = 0
    BY <2>1, <1>1 DEF LateOK
  <2> QED BY <1>3, <2>1, <2>2 DEF MCNext, LateOK
<1>4. CASE Iterate \/ LeaveLoop \/ RejectCount
  BY <1>2, <1>4 DEF Iterate, LeaveLoop, RejectCount, LateOK
<1>5. CASE SeeError \/ SeeNoError
  BY <1>2, <1>5 DEF SeeError, SeeNoError, LateOK
<1>6. CASE WaitGroupDone \/ DrainAndClose
  BY <1>2, <1>6 DEF WaitGroupDone, DrainAndClose, LateOK
<1>7. CASE TimerFires
  BY <1>2, <1>7 DEF TimerFires, LateOK
<1>8. ASSUME NEW i \in Iterations, Goroutine(i) PROVE LateOK'
  <2>1. wg' \in {wg, wg - 1} /\ UNCHANGED pc
    BY <1>8 DEF Goroutine, Succeed, Fail, SendError, Done, Release
  <2>2. errChan # <<>> => errChan' # <<>>
    <3>1. CASE SendError(i)
      <4>1. errChan' \in {errChan, Append(errChan, i)}
        BY <3>1 DEF SendError
      <4> QED BY <1>1, <4>1
    <3>2. CASE ~SendError(i)
      BY <1>8, <3>2 DEF Goroutine, Succeed, Fail, Done, Release
    <3> QED BY <3>1, <3>2
  <2> QED BY <1>2, <2>1, <2>2 DEF LateOK
<1>9. CASE UNCHANGED <<vars, late>>
  BY <1>9 DEF vars, LateOK
<1> QED BY <1>3, <1>4, <1>5, <1>6, <1>7, <1>8, <1>9 DEF MCNext, Next, Caller

(* Unless errors are ignored, at most one more iteration is launched once  *)
(* an error is in the channel.                                             *)
THEOREM LaunchingStops == MCSpec => []ErrorStopsLaunching
<1>1. MCInit => Inv /\ LateOK
  BY InvInit DEF MCInit, LateOK
<1>2. Inv /\ [MCNext]_<<vars, late>> => Inv'
  BY InvNext DEF MCNext, vars
<1>3. LateOK => ErrorStopsLaunching
  BY DEF LateOK, ErrorStopsLaunching
<1> QED BY <1>1, <1>2, <1>3, LateNext, PTL DEF MCSpec

-----------------------------------------------------------------------------
(* IterateFunc implements WorkerPool.                                      *)

(* A count that does not parse starts nothing.                             *)
InvalidOK ==
    run.mode = "invalid" =>
        /\ pc \in {"top", "wait", "drain", "returned"}
        /\ \A i \in Iterations : g[i] = "idle"
        /\ pc # "top" => retErr = ParseError

PoolInv == Inv /\ InvalidOK

LEMMA NothingFailedYet ==
    ASSUME Inv, \A i \in Iterations : g[i] = "idle"
    PROVE  errChan = <<>>
<1> SUFFICES ASSUME errChan # <<>> PROVE FALSE
  OBVIOUS
<1>1. errChan[1] \in Iterations /\ 1 \in 1..Len(errChan)
  BY DEF Inv, TypeOK
<1>2. outcome[errChan[1]] = "error"
  BY <1>1 DEF Inv, ErrorsOK
<1> QED BY <1>1, <1>2 DEF Inv, ProgressOK

LEMMA PoolInvInit == Init => PoolInv
BY InvInit DEF Init, PoolInv, InvalidOK

LEMMA PoolInvNext == PoolInv /\ [Next]_vars => PoolInv'
<1> SUFFICES ASSUME PoolInv, [Next]_vars PROVE InvalidOK'
  BY InvNext DEF PoolInv
<1> USE DEF PoolInv
<1>1. CASE Caller
  <2>1. CASE Iterate \/ LeaveLoop \/ RejectCount
    BY <2>1 DEF Iterate, LeaveLoop, RejectCount, InvalidOK
  <2>2. CASE Launch \/ SeeError \/ SeeNoError
    BY <2>2 DEF Launch, SeeError, SeeNoError, InvalidOK
  <2>3. CASE WaitGroupDone
    BY <2>3 DEF WaitGroupDone, InvalidOK
  <2>4. CASE DrainAndClose
    BY <2>4, NothingFailedYet DEF DrainAndClose, InvalidOK
  <2> QED BY <1>1, <2>1, <2>2, <2>3, <2>4 DEF Caller
<1>2. CASE TimerFires
  BY <1>2 DEF TimerFires, InvalidOK
<1>3. ASSUME NEW i \in Iterations, Goroutine(i) PROVE InvalidOK'
  BY <1>3 DEF Goroutine, Succeed, Fail, SendError, Done, Release, InvalidOK
<1>4. CASE UNCHANGED vars
  BY <1>4 DEF vars, InvalidOK
<1> QED BY <1>1, <1>2, <1>3, <1>4 DEF Next

LEMMA PoolInitStep == Init => Pool!Init
<1> SUFFICES ASSUME Init PROVE Pool!Init
  OBVIOUS
<1>1. limit \in Nat
  BY InvInit, LimitType DEF Inv
<1>2. Launched = {} /\ Counted = {} /\ Errors = {}
  BY DEF Init, Launched, Counted, Errors
<1>3. run.mode \in {"count", "duration", "invalid"} /\ (~run.ignoreErrors) \in BOOLEAN
  BY DEF Init, Runs
<1> QED BY <1>1, <1>2, <1>3 DEF Init, Pool!Init, ErrorOfCall

(* A step that touches neither a goroutine's counted state nor the result  *)
(* is invisible.                                                           *)
LEMMA HiddenStep ==
    ASSUME UNCHANGED <<run, g, outcome>>,
           pc # "returned", pc' # "returned"
    PROVE  UNCHANGED Pool!pool
BY DEF Pool!pool, Launched, Counted, Errors, ErrorOfCall, limit

(* The instance has its own copy of Cardinality's definition.              *)
LEMMA SameCardinality == \A S : Pool!Cardinality(S) = Cardinality(S)
BY DEF Pool!Cardinality, Cardinality

LEMMA PoolStep == PoolInv /\ [Next]_vars => [Pool!Next]_(Pool!pool)
<1> SUFFICES ASSUME PoolInv, [Next]_vars PROVE [Pool!Next]_(Pool!pool)
  OBVIOUS
<1> USE DEF PoolInv, Inv
<1>1. CASE Iterate \/ LeaveLoop \/ RejectCount \/ SeeError \/ SeeNoError \/ WaitGroupDone
  <2>1. UNCHANGED <<run, g, outcome>> /\ pc # "returned" /\ pc' # "returned"
    BY <1>1 DEF Iterate, LeaveLoop, RejectCount, SeeError, SeeNoError, WaitGroupDone
  <2> QED BY <2>1, HiddenStep
<1>2. CASE Launch
  <2>1. iter \in Iterations /\ g[iter] = "idle"
    BY <1>2, IterateFuncAssumption DEF Launch, ProgressOK, TypeOK, Iterations
  <2>2. /\ g'[iter] = "running" /\ \A k \in Iterations : k # iter => g'[k] = g[k]
        /\ UNCHANGED <<run, outcome>> /\ pc = "acquire" /\ pc' = "check"
    BY <1>2, <2>1 DEF Launch, TypeOK
  <2>3. Launched' = Launched \cup {iter} /\ Counted' = Counted \cup {iter}
    BY <2>1, <2>2 DEF Launched, Counted
  <2>4. iter \notin Launched /\ \A k \in Iterations : k < iter => k \in Launched
    BY <2>1 DEF Launched, ProgressOK
  <2>5. run.mode # "invalid"
    BY <2>2 DEF InvalidOK
  <2>6. Cardinality(Counted) < limit
    <3>1. Counted \in SUBSET Active /\ Active \in SUBSET Iterations
      BY DEF Counted, Active, Launched
    <3>2. IsFiniteSet(Active) /\ Cardinality(Active) \in Nat
      BY <2>1, <3>1, IterationsFinite
    <3>3. Cardinality(Counted) <= Cardinality(Active) /\ Cardinality(Counted) \in Nat
      BY <3>1, <3>2, FS_Subset, FS_CardinalityType
    <3>4. limit \in Nat
      BY LimitType
    <3> QED BY <1>2, <3>2, <3>3, <3>4 DEF Launch, CountersOK
  <2>7. UNCHANGED <<limit, Errors, ErrorOfCall>>
    BY <2>2 DEF limit, Errors, ErrorOfCall
  <2>8. Pool!Start(iter)
    BY <2>2, <2>3, <2>4, <2>5, <2>6, <2>7, SameCardinality DEF Pool!Start
  <2> QED BY <2>1, <2>8 DEF Pool!Next
<1>3. CASE DrainAndClose
  <2>1. /\ pc = "drain" /\ pc' = "returned" /\ UNCHANGED <<run, g, outcome>>
        /\ Counted = {}
    BY <1>3 DEF DrainAndClose, ProgressOK
  <2>2. UNCHANGED <<limit, Launched, Counted, Errors>>
    BY <2>1 DEF limit, Launched, Counted, Errors
  <2>3. Inv' /\ InvalidOK'
    BY PoolInvNext
  <2>4. ErrorOfCall' = retErr'
    BY <2>1 DEF ErrorOfCall
  <2>5. ErrorOfCall' \in Pool!Results
    <3>1. CASE run.mode = "invalid"
      BY <2>1, <2>3, <2>4, <3>1 DEF InvalidOK, Pool!Results
    <3>2. CASE run.mode # "invalid"
      <4>1. retErr' = NoError \/ (retErr' \in Errors /\ ~run.ignoreErrors)
        BY <2>1, <2>3, <3>2 DEF TypeOK, ErrorsOK, Errors
      <4>2. ASSUME NEW i \in Errors, ~run.ignoreErrors PROVE retErr' # NoError
        <5>1. g'[i] # "failed" /\ outcome'[i] = "error" /\ i \in Iterations
          BY <2>1 DEF Counted, Errors
        <5> QED BY <2>1, <2>3, <4>2, <5>1 DEF ErrorsOK
      <4> QED BY <2>4, <3>2, <4>1, <4>2 DEF Pool!Results
    <3> QED BY <3>1, <3>2
  <2>6. run.mode = "count" /\ retErr' = NoError => Launched = Iterations
    <3> SUFFICES ASSUME run.mode = "count", retErr' = NoError, NEW i \in Iterations
                 PROVE  g[i] # "idle"
      BY DEF Launched
    <3>1. iter' = N
      BY <2>1, <2>3 DEF ProgressOK
    <3>2. i < iter'
      BY <3>1, IterateFuncAssumption DEF Iterations
    <3> QED BY <2>1, <2>3, <3>2 DEF ProgressOK
  <2>7. Pool!Return
    BY <2>1, <2>2, <2>4, <2>5, <2>6 DEF Pool!Return
  <2> QED BY <2>7 DEF Pool!Next
<1>4. CASE TimerFires \/ UNCHANGED vars
  BY <1>4 DEF TimerFires, vars, Pool!pool, Launched, Counted, Errors, ErrorOfCall, limit
<1>5. ASSUME NEW i \in Iterations, Goroutine(i) PROVE [Pool!Next]_(Pool!pool)
  <2>1. UNCHANGED <<run, pc, retErr, limit, ErrorOfCall>>
    BY <1>5 DEF Goroutine, Succeed, Fail, SendError, Done, Release, limit, ErrorOfCall
  <2>2. CASE Succeed(i)
    <3>1. /\ g[i] = "running" /\ g'[i] = "ending" /\ outcome[i] = "none" /\ outcome'[i] = "ok"
          /\ \A k \in Iterations : k # i => g'[k] = g[k] /\ outcome'[k] = outcome[k]
      BY <2>2 DEF Succeed, TypeOK, ProgressOK
    <3>2. UNCHANGED <<Launched, Counted, Errors>>
      BY <3>1 DEF Launched, Counted, Errors
    <3> QED BY <2>1, <3>2 DEF Pool!pool
  <2>3. CASE Fail(i)
    <3>1. /\ g[i] = "running" /\ g'[i] \in {"failed", "ending"}
          /\ outcome[i] = "none" /\ outcome'[i] \in {"ignored", "error"}
          /\ \A k \in Iterations : k # i => g'[k] = g[k] /\ outcome'[k] = outcome[k]
      BY <2>3 DEF Fail, TypeOK, ProgressOK
    <3>2. UNCHANGED <<Launched, Counted>> /\ i \in Counted /\ i \notin Errors
      BY <3>1 DEF Launched, Counted, Errors
    <3>3. CASE outcome'[i] = "error"
      <4>1. Errors' = Errors \cup {i}
        BY <3>1, <3>3 DEF Errors
      <4>2. Pool!Break(i)
        BY <2>1, <3>2, <4>1 DEF Pool!Break
      <4> QED BY <4>2 DEF Pool!Next
    <3>4. CASE outcome'[i] = "ignored"
      <4>1. Errors' = Errors
        BY <3>1, <3>4 DEF Errors
      <4> QED BY <2>1, <3>2, <4>1 DEF Pool!pool
    <3> QED BY <3>1, <3>3, <3>4
  <2>4. CASE SendError(i)
    <3>1. /\ g[i] = "failed" /\ g'[i] = "ending" /\ UNCHANGED outcome
          /\ \A k \in Iterations : k # i => g'[k] = g[k]
      BY <2>4 DEF SendError, TypeOK
    <3>2. UNCHANGED <<Launched, Counted, Errors>>
      BY <3>1 DEF Launched, Counted, Errors
    <3> QED BY <2>1, <3>2 DEF Pool!pool
  <2>5. CASE Done(i)
    <3>1. /\ g[i] = "ending" /\ g'[i] = "releasing" /\ UNCHANGED outcome
          /\ \A k \in Iterations : k # i => g'[k] = g[k]
      BY <2>5 DEF Done, TypeOK
    <3>2. UNCHANGED <<Launched, Errors>> /\ i \in Counted /\ Counted' = Counted \ {i}
      BY <3>1 DEF Launched, Counted, Errors
    <3>3. Pool!Finish(i)
      BY <2>1, <3>2 DEF Pool!Finish
    <3> QED BY <3>3 DEF Pool!Next
  <2>6. CASE Release(i)
    <3>1. /\ g[i] = "releasing" /\ g'[i] = "gone" /\ UNCHANGED outcome
          /\ \A k \in Iterations : k # i => g'[k] = g[k]
      BY <2>6 DEF Release, TypeOK
    <3>2. UNCHANGED <<Launched, Counted, Errors>>
      BY <3>1 DEF Launched, Counted, Errors
    <3> QED BY <2>1, <3>2 DEF Pool!pool
  <2> QED BY <1>5, <2>2, <2>3, <2>4, <2>5, <2>6 DEF Goroutine
<1> QED BY <1>1, <1>2, <1>3, <1>4, <1>5 DEF Next, Caller

(* IterateFunc keeps the contract of WorkerPool.                           *)
THEOREM IterateFuncImplementsPool == Spec => ImplementsPool
<1>1. Spec => []PoolInv
  BY PoolInvInit, PoolInvNext, PTL DEF Spec
<1> QED BY <1>1, PoolInitStep, PoolStep, PTL DEF Spec, ImplementsPool, Pool!Spec
=============================================================================
