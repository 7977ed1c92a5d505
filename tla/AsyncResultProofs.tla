-------------------------- MODULE AsyncResultProofs -------------------------
(***************************************************************************)
(* Proofs about AsyncResult, for any number of racing calls and readers.   *)
(***************************************************************************)
EXTENDS AsyncResult, TLAPS

\* No callback is called before the promise is satisfied.
QuietAtFirst == promise = NoResult => notified = <<>>

\* OneWinner makes the winner's callback the only one; QuietAtFirst makes it
\* the first one.
ResultInv == TypeOK /\ OneWinner /\ EveryoneAgrees /\ CalledBackOnce /\ QuietAtFirst

\* The results of two calls differ, and none is the absence of a result.
LEMMA ResultsDiffer ==
    ASSUME TypeOK, NEW s \in Setters
    PROVE  /\ ResultOf(s) \in Result
           /\ ResultOf(s) # NoResult
           /\ \A t \in Setters : t # s => ResultOf(t) # ResultOf(s)
<1>1. index[s] \in {0, 1}
    BY DEF TypeOK
<1>2. ResultOf(s) \in Result
    BY <1>1 DEF ResultOf, Result
<1>3. \A t \in Setters : t # s => ResultOf(t) # ResultOf(s)
    BY DEF ResultOf
<1> QED
    BY <1>2, <1>3, NoResultAssumption DEF Result

\* Nothing has happened to a fresh setter.
LEMMA ResultInit == Init => ResultInv
<1> SUFFICES ASSUME Init PROVE ResultInv
    OBVIOUS
<1>1. TypeOK
    BY DEF Init, TypeOK, Steps
<1>2. \A s \in Setters : promise # ResultOf(s)
    BY <1>1, ResultsDiffer DEF Init
<1>3. OneWinner /\ CalledBackOnce
    BY <1>2 DEF Init, OneWinner, CalledBackOnce
<1>4. EveryoneAgrees /\ QuietAtFirst
    BY DEF Init, EveryoneAgrees, QuietAtFirst
<1> QED
    BY <1>1, <1>3, <1>4 DEF ResultInv

\* Reading dirty() settles nothing.
LEMMA checkDirtyStep ==
    ASSUME ResultInv, NEW s \in Setters, checkDirty(s)
    PROVE  ResultInv'
<1> USE DEF ResultInv
<1>1. /\ pc[s] = "idle" /\ pc'[s] \in {"logic_error", "unset"}
      /\ pc' \in [Setters -> Steps]
      /\ \A t \in Setters \ {s} : pc'[t] = pc[t]
      /\ UNCHANGED <<hasOnReady, hasOnError, index, promise, notified, seen>>
    BY DEF checkDirty, TypeOK, Steps
<1>2. TypeOK'
    BY <1>1 DEF TypeOK, Result
<1>3. OneWinner'
    BY <1>1 DEF OneWinner, ResultOf
<1>4. EveryoneAgrees' /\ QuietAtFirst'
    BY <1>1 DEF EveryoneAgrees, QuietAtFirst
<1>5. CalledBackOnce'
    BY <1>1 DEF OneWinner, CalledBackOnce, ResultOf, HasCallback, Callback
<1> QED
    BY <1>2, <1>3, <1>4, <1>5

\* The promise decides the race.
LEMMA setPromiseStep ==
    ASSUME ResultInv, NEW s \in Setters, setPromise(s)
    PROVE  ResultInv'
<1> USE DEF ResultInv
<1>1. pc[s] = "unset" /\ UNCHANGED <<hasOnReady, hasOnError, index, notified, seen>>
    BY DEF setPromise
<1>2. \A t \in Setters : ResultOf(t)' = ResultOf(t)
    BY <1>1 DEF ResultOf
<1>3. CASE dirty
    <2>1. /\ pc' = [pc EXCEPT ![s] = "future_error"] /\ UNCHANGED promise
        BY <1>3 DEF setPromise
    <2>2. TypeOK'
        BY <1>1, <2>1 DEF TypeOK, Steps, Result
    <2>3. OneWinner'
        BY <1>1, <1>2, <2>1 DEF OneWinner, TypeOK
    <2>4. EveryoneAgrees' /\ QuietAtFirst'
        BY <1>1, <2>1 DEF EveryoneAgrees, QuietAtFirst
    <2>5. CalledBackOnce'
        BY <1>1, <1>2, <2>1 DEF OneWinner, CalledBackOnce, HasCallback, Callback, TypeOK
    <2> QED
        BY <2>2, <2>3, <2>4, <2>5
<1>4. CASE ~dirty
    <2>1. /\ promise = NoResult /\ promise' = ResultOf(s)
          /\ pc' = [pc EXCEPT ![s] = "set"]
        BY <1>4 DEF setPromise, dirty
    <2>2. \A t \in Setters : pc[t] \notin {"set", "returned"}
        BY <2>1, ResultsDiffer DEF OneWinner
    <2>3. notified = <<>> /\ \A r \in Readers : seen[r] = NoResult
        BY <2>1 DEF QuietAtFirst, EveryoneAgrees
    <2>4. TypeOK'
        BY <1>1, <2>1, ResultsDiffer DEF TypeOK, Steps, Result
    <2>5. OneWinner'
        BY <1>2, <2>1, <2>2, ResultsDiffer DEF OneWinner, TypeOK
    <2>6. EveryoneAgrees' /\ QuietAtFirst'
        BY <1>1, <2>1, <2>3 DEF EveryoneAgrees, QuietAtFirst
    <2>7. CalledBackOnce'
        BY <1>1, <1>2, <2>1, <2>2, <2>3 DEF CalledBackOnce, TypeOK
    <2> QED
        BY <2>4, <2>5, <2>6, <2>7
<1> QED
    BY <1>3, <1>4

\* Only the winner comes this far, and only once.
LEMMA callBackStep ==
    ASSUME ResultInv, NEW s \in Setters, callBack(s)
    PROVE  ResultInv'
<1> USE DEF ResultInv
<1> DEFINE call == [cb |-> Callback(index[s]), arg |-> promise]
<1>1. /\ pc[s] = "set" /\ pc' = [pc EXCEPT ![s] = "returned"]
      /\ UNCHANGED <<hasOnReady, hasOnError, index, promise, seen>>
    BY DEF callBack
<1>2. promise = ResultOf(s) /\ promise \in Result /\ promise # NoResult
    BY <1>1, ResultsDiffer DEF OneWinner
<1>3. notified = <<>>
    BY <1>1, <1>2 DEF CalledBackOnce
<1>4. notified' = IF HasCallback(index[s]) THEN <<call>> ELSE <<>>
    BY <1>3 DEF callBack
<1>5. \A t \in Setters : ResultOf(t)' = ResultOf(t)
    BY <1>1 DEF ResultOf
<1>6. TypeOK'
    <2> DEFINE Calls == [cb : {"onReady", "onError"}, arg : Result]
    <2>1. call \in Calls
        BY <1>2 DEF Callback
    <2> HIDE DEF Calls, call
    <2>2. notified' \in Seq(Calls)
        BY <1>4, <2>1
    <2> USE DEF Calls
    <2> QED
        BY <1>1, <2>2 DEF TypeOK, Steps, Result
<1>7. OneWinner'
    BY <1>1, <1>2, <1>5 DEF OneWinner, TypeOK
<1>8. EveryoneAgrees' /\ QuietAtFirst'
    BY <1>1, <1>2, <1>4 DEF EveryoneAgrees, QuietAtFirst
<1>9. CalledBackOnce'
    <2>1. \A t \in Setters : promise = ResultOf(t) => t = s
        BY <1>2, ResultsDiffer
    <2> QED
        BY <1>1, <1>4, <1>5, <2>1 DEF CalledBackOnce, HasCallback, Callback, TypeOK
<1> QED
    BY <1>6, <1>7, <1>8, <1>9

\* A reader gets what the promise holds.
LEMMA getStep ==
    ASSUME ResultInv, NEW r \in Readers, get(r)
    PROVE  ResultInv'
<1> USE DEF ResultInv
<1>1. /\ promise # NoResult /\ seen' = [seen EXCEPT ![r] = promise]
      /\ UNCHANGED <<hasOnReady, hasOnError, index, pc, promise, notified>>
    BY DEF get, dirty
<1>2. TypeOK'
    BY <1>1 DEF TypeOK, Result
<1>3. OneWinner' /\ CalledBackOnce'
    BY <1>1 DEF OneWinner, CalledBackOnce, ResultOf, HasCallback, Callback
<1>4. EveryoneAgrees' /\ QuietAtFirst'
    BY <1>1 DEF EveryoneAgrees, QuietAtFirst, TypeOK
<1> QED
    BY <1>2, <1>3, <1>4

\* The invariant is inductive.
LEMMA ResultStep == ResultInv /\ [Next]_vars => ResultInv'
<1> SUFFICES ASSUME ResultInv, [Next]_vars PROVE ResultInv'
    OBVIOUS
<1>1. CASE UNCHANGED vars
    BY <1>1 DEF vars, ResultInv, TypeOK, OneWinner, EveryoneAgrees, CalledBackOnce, QuietAtFirst,
                ResultOf, Result, HasCallback, Callback
<1>2. ASSUME NEW s \in Setters, Set(s) PROVE ResultInv'
    BY <1>2, checkDirtyStep, setPromiseStep, callBackStep DEF Set
<1>3. ASSUME NEW r \in Readers, get(r) PROVE ResultInv'
    BY <1>3, getStep
<1> QED
    BY <1>1, <1>2, <1>3 DEF Next

\* The parts of ResultInv hold together in every reachable state.
LEMMA ResultInvariant == Spec => []ResultInv
    BY ResultInit, ResultStep, PTL DEF Spec

\* AsyncResultSetter and its callers keep their types: in particular what a
\* callback is called with is always a result.
THEOREM ResultTypeCorrect == Spec => []TypeOK
<1>1. ResultInv => TypeOK
    BY DEF ResultInv
<1> QED
    BY ResultInvariant, <1>1, PTL

\* However many calls of setValue() and setError() race, one of them wins.
THEOREM ResultIsConsistent == Spec => []OneWinner
<1>1. ResultInv => OneWinner
    BY DEF ResultInv
<1> QED
    BY ResultInvariant, <1>1, PTL

\* However many callers wait for the future and whichever callback is called,
\* they see the winner's result.
THEOREM ReadersAgree == Spec => []EveryoneAgrees
<1>1. ResultInv => EveryoneAgrees
    BY DEF ResultInv
<1> QED
    BY ResultInvariant, <1>1, PTL

\* However many calls race, the winner's callback is called, once, and no other.
THEOREM CallbackIsCalledOnce == Spec => []CalledBackOnce
<1>1. ResultInv => CalledBackOnce
    BY DEF ResultInv
<1> QED
    BY ResultInvariant, <1>1, PTL
=============================================================================
