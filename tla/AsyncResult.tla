----------------------------- MODULE AsyncResult ----------------------------
(***************************************************************************)
(* jar::AsyncResultSetter<T> and jar::AsyncResult<T> (network/include/     *)
(* jarvisto/network/AsyncResult.hpp): a promise with optional callbacks,   *)
(* and the futures handed out for it.                                      *)
(*                                                                         *)
(* Several threads may call setValue(), emplaceValue() or setError() on    *)
(* one setter.  Each call checks dirty(), sets the promise, and then calls *)
(* onReady or onError; nothing makes the three one step.  Readers block    *)
(* in wait() or in the get() of value() and error().                       *)
(***************************************************************************)
EXTENDS Naturals, Sequences

CONSTANTS
    Setters,   \* the calls of setValue, emplaceValue and setError
    Readers,   \* the AsyncResults waiting for the result
    NoResult   \* the promise is not satisfied

ASSUME NoResultAssumption == NoResult \notin [index : {0, 1}, by : Setters]

VARIABLES
    hasOnReady,   \* whether an onReady callback was given
    hasOnError,   \* whether an onError callback was given
    index,        \* index[s]: the alternative s sets, 0 an error, 1 a value
    pc,           \* pc[s]: how far the call s has come
    promise,      \* the shared state of _result and _future
    notified,     \* the callbacks called so far, in order
    seen          \* seen[r]: what reader r got, NoResult while it waits

vars == <<hasOnReady, hasOnError, index, pc, promise, notified, seen>>

\* std::variant<std::error_code, T>: the index, and who provided the contents.
Result == [index : {0, 1}, by : Setters]
ResultOf(s) == [index |-> index[s], by |-> s]

Steps == {"idle", "unset", "set", "returned", "logic_error", "future_error"}
Callback(i) == IF i = 1 THEN "onReady" ELSE "onError"
HasCallback(i) == IF i = 1 THEN hasOnReady ELSE hasOnError

dirty == promise # NoResult

-----------------------------------------------------------------------------
(* setValue(), emplaceValue() and setError() of thread s.                  *)

\* The call is made and dirty() is read.
checkDirty(s) ==
    /\ pc[s] = "idle"
    /\ pc' = [pc EXCEPT ![s] = IF dirty THEN "logic_error" ELSE "unset"]
    /\ UNCHANGED <<hasOnReady, hasOnError, index, promise, notified, seen>>

setPromiseAgain(s) ==  \* mutant: a satisfied promise takes the new result
    /\ pc[s] = "unset"
    /\ promise' = ResultOf(s)
    /\ pc' = [pc EXCEPT ![s] = "set"]
    /\ UNCHANGED <<hasOnReady, hasOnError, index, notified, seen>>

setPromiseNever(s) ==  \* mutant: the promise stays empty
    /\ pc[s] = "unset"
    /\ pc' = [pc EXCEPT ![s] = "set"]
    /\ UNCHANGED <<hasOnReady, hasOnError, index, promise, notified, seen>>

setPromiseQuietly(s) ==  \* mutant: the loser of the race goes on to the callback
    /\ pc[s] = "unset"
    /\ promise' = IF dirty THEN promise ELSE ResultOf(s)
    /\ pc' = [pc EXCEPT ![s] = "set"]
    /\ UNCHANGED <<hasOnReady, hasOnError, index, notified, seen>>

\* _result.set_value(): the promise itself refuses a second value.
setPromise(s) ==
    /\ pc[s] = "unset"
    /\ IF dirty
       THEN /\ pc' = [pc EXCEPT ![s] = "future_error"]
            /\ UNCHANGED promise
       ELSE /\ pc' = [pc EXCEPT ![s] = "set"]
            /\ promise' = ResultOf(s)
    /\ UNCHANGED <<hasOnReady, hasOnError, index, notified, seen>>

callBackNever(s) ==  \* mutant: the test of the callback is inverted
    /\ pc[s] = "set"
    /\ notified' = IF HasCallback(index[s]) THEN notified
                   ELSE Append(notified, [cb |-> Callback(index[s]), arg |-> promise])
    /\ pc' = [pc EXCEPT ![s] = "returned"]
    /\ UNCHANGED <<hasOnReady, hasOnError, index, promise, seen>>

\* The callback, if there is one, is called with what the future holds.
callBack(s) ==
    /\ pc[s] = "set"
    /\ notified' = IF HasCallback(index[s])
                   THEN Append(notified, [cb |-> Callback(index[s]), arg |-> promise])
                   ELSE notified
    /\ pc' = [pc EXCEPT ![s] = "returned"]
    /\ UNCHANGED <<hasOnReady, hasOnError, index, promise, seen>>

-----------------------------------------------------------------------------
\* AsyncResult::wait(), and the get() in value(), error(), hasValue() and
\* hasError(), return once the result is there.
get(r) ==
    /\ seen[r] = NoResult
    /\ dirty
    /\ seen' = [seen EXCEPT ![r] = promise]
    /\ UNCHANGED <<hasOnReady, hasOnError, index, pc, promise, notified>>

Init ==
    /\ hasOnReady \in BOOLEAN
    /\ hasOnError \in BOOLEAN
    /\ index \in [Setters -> {0, 1}]
    /\ pc = [s \in Setters |-> "idle"]
    /\ promise = NoResult
    /\ notified = <<>>
    /\ seen = [r \in Readers |-> NoResult]

Set(s) == checkDirty(s) \/ setPromise(s) \/ callBack(s)

Next ==
    \/ \E s \in Setters : Set(s)
    \/ \E r \in Readers : get(r)

Spec == Init /\ [][Next]_vars

\* A call that has begun goes on, and a reader that can wake up does.
\* Nothing makes a thread begin a call.
Fairness ==
    /\ \A s \in Setters : WF_vars(setPromise(s) \/ callBack(s))
    /\ \A r \in Readers : WF_vars(get(r))

FairSpec == Spec /\ Fairness

-----------------------------------------------------------------------------
(* Properties.                                                             *)

\* Every variable keeps its type.
TypeOK ==
    /\ hasOnReady \in BOOLEAN
    /\ hasOnError \in BOOLEAN
    /\ index \in [Setters -> {0, 1}]
    /\ pc \in [Setters -> Steps]
    /\ promise \in Result \cup {NoResult}
    /\ notified \in Seq([cb : {"onReady", "onError"}, arg : Result])
    /\ seen \in [Readers -> Result \cup {NoResult}]

\* However the calls race, one of them wins: the result is the winner's, the
\* winner is the only call that does not throw, and every other call that
\* went as far as the promise is told that it lost.
OneWinner ==
    \A s \in Setters : pc[s] \in {"set", "returned"} <=> promise = ResultOf(s)

\* Every reader gets the one result, and so does the callback: no reader and
\* no callback ever holds a result that another setter's call replaced.
EveryoneAgrees ==
    /\ \A r \in Readers : seen[r] # NoResult => seen[r] = promise
    /\ \A i \in DOMAIN notified : notified[i].arg = promise

\* The callback is called once: by the time the winning call returns, exactly
\* the callback that goes with the result has been called if it was given,
\* and none was called before.
CalledBackOnce ==
    \A s \in Setters :
        promise = ResultOf(s) =>
            notified = IF pc[s] = "returned" /\ HasCallback(index[s])
                       THEN <<[cb |-> Callback(index[s]), arg |-> promise]>>
                       ELSE <<>>

\* A call that passed the dirty() check wakes every reader, even when it
\* loses the race and throws.
ReadersWake ==
    \A s \in Setters, r \in Readers : pc[s] = "unset" ~> seen[r] # NoResult
=============================================================================
