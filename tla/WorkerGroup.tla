----------------------------- MODULE WorkerGroup ----------------------------
(***************************************************************************)
(* jar::WorkerGroup (network/src/WorkerGroup.cpp): several Workers that    *)
(* are started and stopped one after the other and taken in turn by        *)
(* next().  While one worker is started or joined the threads of the       *)
(* others run, so the calls are modelled worker by worker.                 *)
(*                                                                         *)
(* The group is used by one thread, its owner; stop() is also called by    *)
(* tasks of the group.  next() uses _index modulo the number of workers;   *)
(* active(), executor() and current() use it as it is.  Reading past the   *)
(* end of _workers is undefined: the model records it and stops there.     *)
(***************************************************************************)
EXTENDS Worker

CONSTANTS
    Width,        \* the width of std::size_t in bits
    MaxNext,      \* bound: how often next() is called
    MaxStarts     \* bound: how often start() is called

ASSUME GroupAssumption == Width \in Nat /\ MaxNext \in Nat /\ MaxStarts \in Nat
\* True of every Width in Nat, and stated because the proof system has no facts
\* about powers.
ASSUME PowerAssumption == 2^Width \in Nat \ {0}

VARIABLES
    index,    \* _index
    uses,     \* uses[w]: how often next() returned worker w
    calls,    \* how often next() was called
    call,     \* the call of start() or stop() under way
    starts,   \* how often start() was called
    state     \* what the last call that returned has made of the group

turnVars == <<index, uses, calls>>
callVars == <<call, starts, state>>
vars == <<workerVars, turnVars, callVars>>

\* A call has come to worker w; by is the thread that makes it, the slot of a
\* thread of the group or Owner.
Owner == <<>>
Idle == [name |-> "none", w |-> 0, by |-> Owner]
Joining == call.name = "join"

\* The loop over the workers goes on, or the call returns.
Advance(name, result) ==
    IF call.w + 1 \in Workers
    THEN call' = [call EXCEPT !.name = name, !.w = @ + 1] /\ UNCHANGED state
    ELSE call' = Idle /\ state' = result

-----------------------------------------------------------------------------
(* start()                                                                 *)

callStart ==
    /\ call = Idle
    /\ \A w \in Workers : ~active(w)
    /\ starts < MaxStarts
    /\ starts' = starts + 1
    /\ call' = [Idle EXCEPT !.name = "start"]
    /\ UNCHANGED <<workerVars, turnVars, state>>

\* An exception of Worker::start() leaves the group half started.
startWorker(n) ==
    /\ call.name = "start"
    /\ start(call.w, n)
    /\ IF n = ThreadsNum
       THEN Advance("start", "started")
       ELSE call' = Idle /\ state' = "failed"
    /\ UNCHANGED <<turnVars, starts>>

-----------------------------------------------------------------------------
(* stop()                                                                  *)

callStop(by) ==
    /\ call = Idle
    /\ by # Owner => running[by] # NoTask
    /\ call' = [name |-> "stop", w |-> 0, by |-> by]
    /\ UNCHANGED <<workerVars, turnVars, starts, state>>

stopWorker ==
    /\ call.name = "stop"
    /\ \/ /\ stop(call.w)
          /\ call' = [call EXCEPT !.name = "join"]
          /\ UNCHANGED state
       \/ /\ ~active(call.w)
          /\ Advance("stop", "stopped")
          /\ UNCHANGED workerVars
    /\ UNCHANGED <<turnVars, starts>>

joinThread(s) ==
    /\ Joining
    /\ s \in Of(call.w)
    /\ \/ /\ s # call.by
          /\ join(s)
          /\ IF \A r \in Of(call.w) \ {s} : thread[r] = "none"
             THEN Advance("stop", "stopped")
             ELSE UNCHANGED <<call, state>>
       \/ /\ s = call.by
          /\ joinSelf(s)
          /\ UNCHANGED <<call, state>>
    /\ UNCHANGED <<turnVars, starts>>

-----------------------------------------------------------------------------
(* next() and the reads of _workers[_index].                               *)

TakeSkewed(w) ==  \* mutant: the last worker is left out
    /\ calls < MaxNext
    /\ w = IF index % WorkersNum = WorkersNum - 1 THEN 0 ELSE index % WorkersNum
    /\ uses' = [uses EXCEPT ![w] = @ + 1]
    /\ index' = (index + 1) % 2^Width
    /\ calls' = calls + 1

\* next() returns worker w.
Take(w) ==
    /\ calls < MaxNext
    /\ w = index % WorkersNum
    /\ uses' = [uses EXCEPT ![w] = @ + 1]
    /\ index' = (index + 1) % 2^Width
    /\ calls' = calls + 1

\* next() by a user that posts nothing.
next ==
    /\ call = Idle
    /\ \E w \in Workers : Take(w)
    /\ UNCHANGED <<workerVars, callVars>>

\* A task is posted to the next worker's executor.
postNext(t) ==
    /\ call = Idle
    /\ \E w \in Workers : Take(w) /\ post(t, w)
    /\ UNCHANGED callVars

\* A task is posted to executor().
postCurrent(t) ==
    /\ call = Idle
    /\ index \in Workers
    /\ post(t, index)
    /\ UNCHANGED <<turnVars, callVars>>

\* active(), executor() and current() with no such worker.
readPastEnd ==
    /\ call = Idle
    /\ index \notin Workers
    /\ process' = "undefined"
    /\ UNCHANGED <<contextVars, thread, turnVars, callVars>>

-----------------------------------------------------------------------------
Init ==
    /\ WorkerInit
    /\ index = 0
    /\ uses = [w \in Workers |-> 0]
    /\ calls = 0
    /\ call = Idle
    /\ starts = 0
    /\ state = "stopped"

\* The call under way goes on, for which thread creation may fail.
Proceed ==
    \/ \E n \in 0..ThreadsNum : startWorker(n)
    \/ stopWorker
    \/ \E s \in Slots : joinThread(s)

User ==
    \/ callStart
    \/ callStop(Owner)
    \/ \E s \in Slots : callStop(s)
    \/ \E t \in Tasks : postNext(t) \/ postCurrent(t)
    \/ next
    \/ readPastEnd

\* A task that has called stop() is waiting in it.
Task(s) == s # call.by /\ (finishTask(s) \/ throwTask(s))

Threads(s) == (Thread(s) \/ Task(s)) /\ UNCHANGED <<turnVars, callVars>>

Next == process = "ok" /\ (User \/ Proceed \/ \E s \in Slots : Threads(s))

Spec == Init /\ [][Next]_vars

\* Threads run, tasks end, a join returns once its thread has exited, and the
\* thread that is in start() or stop() goes on.
Fairness ==
    /\ WF_vars(process = "ok" /\ Proceed)
    /\ \A s \in Slots : WF_vars(process = "ok" /\ Threads(s))

FairSpec == Spec /\ Fairness

-----------------------------------------------------------------------------
(* Properties.                                                             *)

\* stop() is a barrier: when it has returned, no worker of the group has a
\* thread and no task is running, so what tasks use may be destroyed, however
\* late the threads entered run(), whatever was still queued, and even if the
\* start() before it failed half way.
StopIsABarrier ==
    call = Idle /\ state = "stopped" =>
        /\ \A w \in Workers : ~active(w)
        /\ \A t \in Tasks : task[t] # "running"

\* start() leaves a group that serves: once it has returned and until somebody
\* calls stop(), every worker has all of its threads and none of them leaves
\* run(), whether there is anything to do or not, in the first round and after
\* every restart.
StartedIsWhole ==
    call = Idle /\ state = "started" =>
        \A s \in Slots : thread[s] \in {"spawned", "polling"}

\* next() takes the workers in turn: no worker is ever more than one task
\* ahead of another, but for the overflow of _index, after which the turn
\* starts again at worker 0, wherever it was.  Each overflow costs at most one
\* more task of imbalance.
TakenInTurn ==
    \A v, w \in Workers : uses[v] <= uses[w] + 1 + calls \div 2^Width

\* A task that is queued at an active worker gets done, unless somebody stops
\* the group or the process ends; tasks left over from before a restart and
\* tasks of a group that was only half started are no exception.
TaskGetsDone ==
    \A t \in Tasks :
        task[t] = "queued" /\ active(home[t])
        ~> task[t] = "done" \/ call.name \in {"stop", "join"} \/ process # "ok"

\* stop() returns, or ends the process when a task of the group has called it.
StopReturns ==
    call.name \in {"stop", "join"} ~> call = Idle \/ process # "ok"

\* active(), executor() and current() refer to a worker of the group,
\* whatever next() was called before.
CurrentExists == process # "undefined"
=============================================================================
