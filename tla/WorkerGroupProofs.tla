-------------------------- MODULE WorkerGroupProofs -------------------------
(***************************************************************************)
(* Proofs about WorkerGroup, for any number of workers, threads and tasks  *)
(* and any width of std::size_t.                                           *)
(***************************************************************************)
EXTENDS WorkerGroup, TLAPS

Names == {"none", "start", "stop", "join"}

GroupTypeOK ==
    /\ stopped \in [Workers -> BOOLEAN]
    /\ thread \in [Slots -> {"none", "spawned", "polling", "exited"}]
    /\ running \in [Slots -> Tasks \cup {NoTask}]
    /\ task \in [Tasks -> {"new", "queued", "running", "done"}]
    /\ home \in [Tasks -> Workers]
    /\ call \in [name : Names, w : Workers, by : Slots \cup {Owner}]
    /\ state \in {"stopped", "started", "failed"}

\* A task runs in a thread that is in run().
RunningIsPolling ==
    \A s \in Slots : running[s] # NoTask => thread[s] = "polling" /\ task[running[s]] = "running"

\* No two threads run the same task, and a running task has its thread.
OneThreadPerTask ==
    /\ \A r, s \in Slots : running[r] = running[s] /\ running[s] # NoTask => r = s
    /\ \A t \in Tasks : task[t] = "running" => \E s \in Slots : running[s] = t

TaskInv == RunningIsPolling /\ OneThreadPerTask

\* stop() has left no thread at the workers it has come past, and none
\* anywhere when it has returned.
StoppedBehind ==
    /\ call.name \in {"stop", "join"} => \A w \in Workers : w < call.w => ~active(w)
    /\ call = Idle /\ state = "stopped" => \A w \in Workers : ~active(w)

\* A worker has all of its threads, and a context that keeps them in run().
Serves(w) == ~stopped[w] /\ \A s \in Of(w) : thread[s] # "none"

\* start() has left such workers behind it, and nothing else when it has
\* returned; only a stopped context lets a thread out of run().
WholeBehind ==
    /\ \A s \in Slots : thread[s] = "exited" => stopped[s[1]]
    /\ call.name = "start" => \A w \in Workers : w < call.w => Serves(w)
    /\ call = Idle /\ state = "started" => \A w \in Workers : Serves(w)

\* What next() has made of the turn.  The workers before the next one are a
\* task ahead in this round; every overflow of _index may have cut a round
\* short, which put the first ones another task ahead.
Ahead(v, w) == IF v < index % WorkersNum /\ index % WorkersNum <= w THEN 1 ELSE 0

TurnInv ==
    /\ index \in Nat /\ calls \in Nat /\ uses \in [Workers -> Nat]
    /\ index = calls % 2^Width
    /\ \A v, w \in Workers : v < w =>
          /\ uses[w] + Ahead(v, w) <= uses[v]
          /\ uses[v] <= uses[w] + Ahead(v, w) + calls \div 2^Width

-----------------------------------------------------------------------------
(* Slots.                                                                  *)

\* The slots of a worker are those with its number.
LEMMA SlotFacts ==
    /\ \A s \in Slots : s[1] \in Workers /\ s \in Of(s[1])
    /\ \A w \in Workers : \A s \in Of(w) : s \in Slots /\ s[1] = w
    /\ \A w \in Workers : w \in Nat
    BY DEF Slots, Of, Workers

\* A thread makes its worker active.
LEMMA ActiveFact == \A s \in Slots : ~active(s[1]) => thread[s] = "none"
    BY SlotFacts DEF active

\* The loop over the workers comes to the next one, or was at the last.
LEMMA AdvanceFacts ==
    ASSUME GroupTypeOK, NEW name \in Names, NEW result \in {"stopped", "started", "failed"},
           Advance(name, result)
    PROVE  /\ call' \in [name : Names, w : Workers, by : Slots \cup {Owner}]
           /\ state' \in {"stopped", "started", "failed"}
           /\ \/ /\ call'.name = name /\ call'.w = call.w + 1 /\ state' = state
              \/ /\ call' = Idle /\ state' = result
                 /\ \A w \in Workers : w < call.w \/ w = call.w
<1> DEFINE Calls == [name : Names, w : Workers, by : Slots \cup {Owner}]
<1>1. call \in Calls /\ state \in {"stopped", "started", "failed"}
    BY DEF GroupTypeOK
<1>2. CASE call.w + 1 \in Workers
    <2>1. call' = [call EXCEPT !.name = name, !.w = @ + 1] /\ state' = state
        BY <1>2 DEF Advance
    <2>2. call' = [name |-> name, w |-> call.w + 1, by |-> call.by]
        BY <1>1, <2>1
    <2> QED
        BY <1>1, <1>2, <2>1, <2>2
<1>3. CASE call.w + 1 \notin Workers
    <2>1. call' = Idle /\ state' = result
        BY <1>3 DEF Advance
    <2>2. 0 \in Workers /\ \A w \in Workers : w < call.w \/ w = call.w
        BY <1>1, <1>3, WorkersNumAssumption DEF Workers
    <2>3. Idle \in Calls
        BY <2>2 DEF Idle, Names
    <2> QED
        BY <1>1, <2>1, <2>2, <2>3
<1> QED
    BY <1>2, <1>3

-----------------------------------------------------------------------------
(* Types.                                                                  *)

\* The group starts with types as they should be.
LEMMA TypeInit == Init => GroupTypeOK
<1> SUFFICES ASSUME Init PROVE GroupTypeOK
    OBVIOUS
<1>1. 0 \in Workers
    BY WorkersNumAssumption DEF Workers
<1>2. Idle \in [name : Names, w : Workers, by : Slots \cup {Owner}]
    BY <1>1 DEF Idle, Names
<1> QED
    BY <1>1, <1>2 DEF Init, WorkerInit, GroupTypeOK

\* What the calls of the group's users preserve.
LEMMA TypeUser ==
    ASSUME GroupTypeOK, User
    PROVE  GroupTypeOK'
<1> USE DEF GroupTypeOK
<1> DEFINE Calls == [name : Names, w : Workers, by : Slots \cup {Owner}]
<1>1. 0 \in Workers
    BY WorkersNumAssumption DEF Workers
<1>2. CASE callStart
    <2>1. call' = [name |-> "start", w |-> 0, by |-> Owner]
        BY <1>2 DEF callStart, Idle
    <2>2. call' \in Calls
        BY <1>1, <2>1 DEF Names
    <2> QED
        BY <1>2, <2>2 DEF callStart, workerVars, contextVars
<1>3. ASSUME NEW by \in Slots \cup {Owner}, callStop(by) PROVE GroupTypeOK'
    <2>1. call' \in Calls
        BY <1>1, <1>3 DEF callStop, Names
    <2> QED
        BY <1>3, <2>1 DEF callStop, workerVars, contextVars
<1>4. ASSUME NEW t \in Tasks, NEW w \in Workers, post(t, w), UNCHANGED callVars PROVE GroupTypeOK'
    BY <1>4 DEF post, callVars
<1>5. CASE next
    BY <1>5 DEF next, callVars, workerVars, contextVars
<1>6. CASE readPastEnd
    BY <1>6 DEF readPastEnd, callVars, contextVars
<1> QED
    BY <1>2, <1>3, <1>4, <1>5, <1>6 DEF User, postNext, postCurrent

\* What start() and stop() preserve as they go on.
LEMMA TypeProceed ==
    ASSUME GroupTypeOK, Proceed
    PROVE  GroupTypeOK'
<1> USE DEF GroupTypeOK
<1> DEFINE Calls == [name : Names, w : Workers, by : Slots \cup {Owner}]
<1>1. call \in Calls /\ Idle \in Calls /\ call.w \in Workers
    <2>1. 0 \in Workers
        BY WorkersNumAssumption DEF Workers
    <2> QED
        BY <2>1 DEF Idle, Names
<1>2. ASSUME NEW n \in 0..ThreadsNum, startWorker(n) PROVE GroupTypeOK'
    <2>1. call' \in Calls /\ state' \in {"stopped", "started", "failed"}
        BY <1>1, <1>2, AdvanceFacts DEF startWorker, Names
    <2> QED
        BY <1>1, <1>2, <2>1 DEF startWorker, start
<1>3. CASE stopWorker
    <2>1. CASE stop(call.w) /\ call' = [call EXCEPT !.name = "join"] /\ UNCHANGED state
        <3>1. call' \in Calls
            BY <1>1, <2>1 DEF Names
        <3> QED
            BY <1>1, <2>1, <3>1 DEF stop
    <2>2. CASE Advance("stop", "stopped") /\ UNCHANGED workerVars
        <3>1. call' \in Calls /\ state' \in {"stopped", "started", "failed"}
            BY <2>2, AdvanceFacts DEF Names
        <3> QED
            BY <2>2, <3>1 DEF workerVars, contextVars
    <2> QED
        BY <1>3, <2>1, <2>2 DEF stopWorker
<1>4. ASSUME NEW s \in Slots, joinThread(s) PROVE GroupTypeOK'
    <2>1. call' \in Calls /\ state' \in {"stopped", "started", "failed"}
        BY <1>4, AdvanceFacts DEF joinThread, Names
    <2> QED
        BY <1>4, <2>1 DEF joinThread, join, joinSelf, contextVars
<1> QED
    BY <1>2, <1>3, <1>4 DEF Proceed

\* What threads and tasks preserve.
LEMMA TypeThreads ==
    ASSUME GroupTypeOK, NEW s \in Slots, Threads(s)
    PROVE  GroupTypeOK'
<1> USE DEF GroupTypeOK
<1>1. UNCHANGED <<call, state>>
    BY DEF Threads, callVars
<1>2. CASE enter(s) \/ exit(s) \/ throwTask(s)
    BY <1>1, <1>2 DEF enter, exit, throwTask, contextVars
<1>3. ASSUME NEW t \in Tasks, runTask(s, t) PROVE GroupTypeOK'
    BY <1>1, <1>3 DEF runTask
<1>4. CASE finishTask(s)
    BY <1>1, <1>4 DEF finishTask
<1> QED
    BY <1>2, <1>3, <1>4 DEF Threads, Thread, Task

\* Every step preserves the types.
LEMMA TypeStep == GroupTypeOK /\ [Next]_vars => GroupTypeOK'
<1>1. GroupTypeOK /\ UNCHANGED vars => GroupTypeOK'
    BY DEF GroupTypeOK, vars, workerVars, contextVars, callVars
<1> QED
    BY <1>1, TypeUser, TypeProceed, TypeThreads DEF Next

-----------------------------------------------------------------------------
(* Tasks.                                                                  *)

\* At first there are no running tasks.
LEMMA TaskInit == Init => TaskInv
    BY DEF Init, WorkerInit, TaskInv, RunningIsPolling, OneThreadPerTask

\* A thread that runs a task stays where it is; then tasks do as well.
LEMMA TaskKept ==
    ASSUME TaskInv, UNCHANGED <<running, task>>,
           \A s \in Slots : running[s] # NoTask => thread'[s] = thread[s]
    PROVE  TaskInv'
    BY DEF TaskInv, RunningIsPolling, OneThreadPerTask

\* A task that is posted is new.
LEMMA TaskPosted ==
    ASSUME GroupTypeOK, TaskInv, NEW t \in Tasks, NEW w \in Workers, post(t, w)
    PROVE  TaskInv'
<1>1. /\ task[t] = "new" /\ UNCHANGED <<running, thread>>
      /\ task'[t] = "queued" /\ \A u \in Tasks \ {t} : task'[u] = task[u]
    BY DEF post, GroupTypeOK
<1>2. \A s \in Slots : running[s] # t /\ (running[s] # NoTask => running[s] \in Tasks)
    <2>1. \A s \in Slots : running[s] = t => t # NoTask /\ task[t] = "running"
        BY NoTaskAssumption DEF TaskInv, RunningIsPolling
    <2> QED
        BY <1>1, <2>1 DEF GroupTypeOK
<1>3. RunningIsPolling'
    BY <1>1, <1>2 DEF TaskInv, RunningIsPolling
<1>4. OneThreadPerTask'
    BY <1>1 DEF TaskInv, OneThreadPerTask
<1> QED
    BY <1>3, <1>4 DEF TaskInv

\* A task that is taken from the queue is run by nobody else.
LEMMA TaskTaken ==
    ASSUME GroupTypeOK, TaskInv, NEW s \in Slots, NEW t \in Tasks, runTask(s, t)
    PROVE  TaskInv'
<1>1. /\ thread[s] = "polling" /\ task[t] = "queued" /\ t # NoTask
      /\ running' = [running EXCEPT ![s] = t]
      /\ task' = [task EXCEPT ![t] = "running"]
      /\ UNCHANGED thread
    BY NoTaskAssumption DEF runTask
<1>2. \A r \in Slots : running[r] # t /\ (running[r] # NoTask => running[r] \in Tasks)
    BY <1>1 DEF TaskInv, RunningIsPolling, GroupTypeOK
<1>3. /\ running'[s] = t /\ \A r \in Slots \ {s} : running'[r] = running[r]
      /\ task'[t] = "running" /\ \A u \in Tasks \ {t} : task'[u] = task[u]
      /\ running[s] = NoTask
    BY <1>1 DEF GroupTypeOK, runTask
<1>4. RunningIsPolling'
    BY <1>1, <1>2, <1>3 DEF TaskInv, RunningIsPolling
<1>5. OneThreadPerTask'
    <2>1. \A q, r \in Slots : running'[q] = running'[r] /\ running'[r] # NoTask => q = r
        BY <1>2, <1>3 DEF TaskInv, OneThreadPerTask
    <2>2. \A u \in Tasks : task'[u] = "running" => \E r \in Slots : running'[r] = u
        BY <1>3, NoTaskAssumption DEF TaskInv, OneThreadPerTask
    <2> QED
        BY <2>1, <2>2 DEF OneThreadPerTask
<1> QED
    BY <1>4, <1>5 DEF TaskInv

\* A task that returns was run by this thread only.
LEMMA TaskFinished ==
    ASSUME GroupTypeOK, TaskInv, NEW s \in Slots, finishTask(s)
    PROVE  TaskInv'
<1> DEFINE t == running[s]
<1>1. /\ t # NoTask /\ t \in Tasks
      /\ running' = [running EXCEPT ![s] = NoTask]
      /\ task' = [task EXCEPT ![t] = "done"]
      /\ UNCHANGED thread
    BY DEF finishTask, GroupTypeOK
<1> HIDE DEF t
<1>2. \A r \in Slots \ {s} : running[r] # t /\ (running[r] # NoTask => running[r] \in Tasks)
    BY <1>1 DEF TaskInv, OneThreadPerTask, GroupTypeOK, t
<1>3. /\ running'[s] = NoTask /\ \A r \in Slots \ {s} : running'[r] = running[r]
      /\ task'[t] = "done" /\ \A u \in Tasks \ {t} : task'[u] = task[u]
    BY <1>1 DEF GroupTypeOK
<1>4. RunningIsPolling'
    BY <1>1, <1>2, <1>3 DEF TaskInv, RunningIsPolling
<1>5. OneThreadPerTask'
    BY <1>1, <1>2, <1>3 DEF TaskInv, OneThreadPerTask, t
<1> QED
    BY <1>4, <1>5 DEF TaskInv

\* Every step preserves what is said about tasks.
LEMMA TaskStep == GroupTypeOK /\ TaskInv /\ [Next]_vars => TaskInv'
<1> SUFFICES ASSUME GroupTypeOK, TaskInv, [Next]_vars PROVE TaskInv'
    OBVIOUS
<1>1. CASE UNCHANGED vars
    BY <1>1, TaskKept DEF vars, workerVars, contextVars
<1>2. CASE User
    <2>1. CASE callStart \/ callStop(Owner) \/ (\E s \in Slots : callStop(s)) \/ next \/ readPastEnd
        BY <2>1, TaskKept DEF callStart, callStop, next, readPastEnd, workerVars, contextVars
    <2>2. ASSUME NEW t \in Tasks, postNext(t) \/ postCurrent(t) PROVE TaskInv'
        BY <2>2, TaskPosted DEF postNext, postCurrent
    <2> QED
        BY <1>2, <2>1, <2>2 DEF User
<1>3. CASE Proceed
    <2>1. call.w \in Workers
        BY DEF GroupTypeOK
    <2>2. ASSUME NEW n \in 0..ThreadsNum, startWorker(n) PROVE TaskInv'
        <3>1. /\ UNCHANGED <<running, task>>
              /\ \A s \in Of(call.w) : thread[s] = "none"
              /\ \A s \in Slots : s \notin Of(call.w) => thread'[s] = thread[s]
            BY <2>2, <2>1 DEF startWorker, start, active
        <3> QED
            BY <3>1, TaskKept DEF TaskInv, RunningIsPolling
    <2>3. CASE stopWorker
        BY <2>3, TaskKept DEF stopWorker, stop, workerVars, contextVars
    <2>4. ASSUME NEW s \in Slots, joinThread(s) PROVE TaskInv'
        <3>1. UNCHANGED <<running, task>>
            BY <2>4 DEF joinThread, join, joinSelf, contextVars
        <3>2. \A r \in Slots : thread[r] = "polling" => thread'[r] = thread[r]
            BY <2>4 DEF joinThread, join, joinSelf, GroupTypeOK
        <3> QED
            BY <3>1, <3>2, TaskKept DEF TaskInv, RunningIsPolling
    <2> QED
        BY <1>3, <2>2, <2>3, <2>4 DEF Proceed
<1>4. ASSUME NEW s \in Slots, Threads(s) PROVE TaskInv'
    <2>1. CASE enter(s) \/ exit(s) \/ throwTask(s)
        <3>1. UNCHANGED <<running, task>>
            BY <2>1 DEF enter, exit, throwTask, contextVars
        <3>2. \A r \in Slots : running[r] # NoTask => thread'[r] = thread[r]
            BY <2>1 DEF enter, exit, throwTask, GroupTypeOK, TaskInv, RunningIsPolling
        <3> QED
            BY <3>1, <3>2, TaskKept
    <2> QED
        BY <1>4, <2>1, TaskTaken, TaskFinished DEF Threads, Thread, Task
<1> QED
    BY <1>1, <1>2, <1>3, <1>4 DEF Next

-----------------------------------------------------------------------------
(* The barrier.                                                            *)

\* At first there are no threads.
LEMMA StoppedInit == Init => StoppedBehind
    BY SlotFacts DEF Init, WorkerInit, Idle, StoppedBehind, active

\* A step that spawns no thread and does not move the call changes nothing.
LEMMA StoppedKept ==
    ASSUME StoppedBehind, UNCHANGED <<call, state>>,
           \A s \in Slots : thread[s] = "none" => thread'[s] = "none"
    PROVE  StoppedBehind'
<1>1. \A w \in Workers : ~active(w) => ~active(w)'
    BY SlotFacts DEF active
<1> QED
    BY <1>1 DEF StoppedBehind

\* The call comes past a worker that has no threads left.
LEMMA StoppedAdvance ==
    ASSUME GroupTypeOK, StoppedBehind, call.name \in {"stop", "join"}, Advance("stop", "stopped"),
           \A s \in Slots : thread[s] = "none" => thread'[s] = "none",
           \A s \in Of(call.w) : thread'[s] = "none"
    PROVE  StoppedBehind'
<1>1. call.w \in Workers /\ call.w \in Nat
    BY SlotFacts DEF GroupTypeOK
<1>2. \A w \in Workers : w < call.w \/ w = call.w => ~active(w)'
    <2>1. \A w \in Workers : w < call.w => \A s \in Of(w) : thread'[s] = "none"
        BY SlotFacts DEF StoppedBehind, active
    <2>2. \A w \in Workers : w = call.w => \A s \in Of(w) : thread'[s] = "none"
        OBVIOUS
    <2> QED
        BY <2>1, <2>2 DEF active
<1>3. \/ /\ call'.name = "stop" /\ call'.w = call.w + 1
      \/ /\ call' = Idle /\ \A w \in Workers : w < call.w \/ w = call.w
    BY AdvanceFacts DEF Names
<1>4. CASE call'.name = "stop" /\ call'.w = call.w + 1
    <2>1. \A w \in Workers : w < call'.w => w < call.w \/ w = call.w
        BY <1>1, <1>4, SlotFacts
    <2>2. call' # Idle
        BY <1>4 DEF Idle
    <2> QED
        BY <1>2, <2>1, <2>2 DEF StoppedBehind
<1>5. CASE call' = Idle /\ \A w \in Workers : w < call.w \/ w = call.w
    BY <1>2, <1>5 DEF StoppedBehind, Idle
<1> QED
    BY <1>3, <1>4, <1>5

\* Every step preserves what stop() has done so far.
LEMMA StoppedStep == GroupTypeOK /\ StoppedBehind /\ [Next]_vars => StoppedBehind'
<1> SUFFICES ASSUME GroupTypeOK, StoppedBehind, [Next]_vars PROVE StoppedBehind'
    OBVIOUS
<1>1. CASE UNCHANGED vars
    BY <1>1, StoppedKept DEF vars, workerVars, callVars
<1>2. CASE User
    <2>1. ASSUME UNCHANGED <<thread, call, state>> PROVE StoppedBehind'
        BY <2>1, StoppedKept
    <2>2. CASE next \/ readPastEnd
        BY <2>1, <2>2 DEF next, readPastEnd, workerVars, callVars
    <2>3. ASSUME NEW t \in Tasks, postNext(t) \/ postCurrent(t) PROVE StoppedBehind'
        BY <2>1, <2>3 DEF postNext, postCurrent, post, callVars
    <2>4. CASE callStart
        <3>1. call'.name = "start"
            BY <2>4 DEF callStart, Idle
        <3> QED
            BY <3>1 DEF StoppedBehind, Idle
    <2>5. ASSUME NEW by, callStop(by) PROVE StoppedBehind'
        <3>1. call'.name = "stop" /\ call'.w = 0
            BY <2>5 DEF callStop
        <3>2. \A w \in Workers : ~(w < call'.w)
            BY <3>1, SlotFacts
        <3> QED
            BY <3>1, <3>2 DEF StoppedBehind, Idle
    <2> QED
        BY <1>2, <2>2, <2>3, <2>4, <2>5 DEF User
<1>3. CASE Proceed
    <2>1. ASSUME NEW n \in 0..ThreadsNum, startWorker(n) PROVE StoppedBehind'
        <3>1. CASE Advance("start", "started")
            <4>1. call'.name = "start" \/ (call' = Idle /\ state' = "started")
                BY <3>1, AdvanceFacts DEF Names
            <4> QED
                BY <4>1 DEF StoppedBehind, Idle
        <3>2. CASE call' = Idle /\ state' = "failed"
            BY <3>2 DEF StoppedBehind, Idle
        <3> QED
            BY <2>1, <3>1, <3>2 DEF startWorker
    <2>2. CASE stopWorker
        <3>1. UNCHANGED thread /\ call.name = "stop"
            BY <2>2 DEF stopWorker, stop, workerVars
        <3>2. CASE call' = [call EXCEPT !.name = "join"]
            <4>1. call'.name = "join" /\ call'.w = call.w
                BY <3>2 DEF GroupTypeOK
            <4> QED
                BY <3>1, <4>1 DEF StoppedBehind, Idle, active
        <3>3. CASE ~active(call.w) /\ Advance("stop", "stopped")
            BY <3>1, <3>3, StoppedAdvance DEF active
        <3> QED
            BY <2>2, <3>2, <3>3 DEF stopWorker
    <2>3. ASSUME NEW s \in Slots, joinThread(s) PROVE StoppedBehind'
        <3>1. call.name = "join" /\ \A r \in Slots : thread[r] = "none" => thread'[r] = "none"
            BY <2>3 DEF joinThread, Joining, join, joinSelf, GroupTypeOK
        <3>2. CASE UNCHANGED <<call, state>>
            BY <3>1, <3>2, StoppedKept
        <3>3. CASE /\ join(s) /\ Advance("stop", "stopped")
                   /\ \A r \in Of(call.w) \ {s} : thread[r] = "none"
            <4>1. \A r \in Of(call.w) : r \in Slots
                BY SlotFacts DEF GroupTypeOK
            <4>2. \A r \in Of(call.w) : thread'[r] = "none"
                BY <3>3, <4>1 DEF join, GroupTypeOK
            <4> QED
                BY <3>1, <3>3, <4>2, StoppedAdvance
        <3> QED
            BY <2>3, <3>2, <3>3 DEF joinThread
    <2> QED
        BY <1>3, <2>1, <2>2, <2>3 DEF Proceed
<1>4. ASSUME NEW s \in Slots, Threads(s) PROVE StoppedBehind'
    <2>1. UNCHANGED <<call, state>>
        BY <1>4 DEF Threads, callVars
    <2>2. \A r \in Slots : thread[r] = "none" => thread'[r] = "none"
        BY <1>4 DEF Threads, Thread, Task, enter, exit, runTask, finishTask, throwTask, GroupTypeOK
    <2> QED
        BY <2>1, <2>2, StoppedKept
<1> QED
    BY <1>1, <1>2, <1>3, <1>4 DEF Next

\* stop() is a barrier for any number of workers, threads and tasks, whatever
\* start() failed before and whichever thread calls it.
THEOREM StopLeavesNothing == Spec => []StopIsABarrier
<1> DEFINE Inv == GroupTypeOK /\ TaskInv /\ StoppedBehind
<1>1. Init => Inv
    BY TypeInit, TaskInit, StoppedInit
<1>2. Inv /\ [Next]_vars => Inv'
    BY TypeStep, TaskStep, StoppedStep
<1>3. Inv => StopIsABarrier
    <2> SUFFICES ASSUME Inv, call = Idle, state = "stopped"
                 PROVE  /\ \A w \in Workers : ~active(w)
                        /\ \A t \in Tasks : task[t] # "running"
        BY DEF StopIsABarrier
    <2>1. \A w \in Workers : ~active(w)
        BY DEF StoppedBehind
    <2>2. \A s \in Slots : thread[s] = "none"
        BY <2>1, SlotFacts, ActiveFact
    <2>3. \A s \in Slots : running[s] = NoTask
        BY <2>2 DEF TaskInv, RunningIsPolling
    <2>4. \A t \in Tasks : task[t] # "running"
        BY <2>3, NoTaskAssumption DEF TaskInv, OneThreadPerTask
    <2> QED
        BY <2>1, <2>4
<1> QED
    BY <1>1, <1>2, <1>3, PTL DEF Spec

-----------------------------------------------------------------------------
(* A started group.                                                        *)

\* At first nothing was started.
LEMMA WholeInit == Init => WholeBehind
    BY SlotFacts DEF Init, WorkerInit, Idle, WholeBehind

\* A step that takes no worker's threads and stops no context changes nothing.
LEMMA WholeKept ==
    ASSUME WholeBehind, UNCHANGED <<call, state, stopped>>,
           \A s \in Slots : thread[s] # "none" => thread'[s] # "none",
           \A s \in Slots : thread'[s] = "exited" => thread[s] = "exited" \/ stopped[s[1]]
    PROVE  WholeBehind'
<1>1. \A w \in Workers : Serves(w) => Serves(w)'
    BY SlotFacts DEF Serves
<1> QED
    BY <1>1 DEF WholeBehind

\* Every step preserves what start() has done so far.
LEMMA WholeStep == GroupTypeOK /\ WholeBehind /\ [Next]_vars => WholeBehind'
<1> SUFFICES ASSUME GroupTypeOK, WholeBehind, [Next]_vars PROVE WholeBehind'
    OBVIOUS
<1>1. CASE UNCHANGED vars
    BY <1>1, WholeKept DEF vars, workerVars, contextVars, callVars
<1>2. CASE User
    <2>1. ASSUME UNCHANGED <<thread, stopped, call, state>> PROVE WholeBehind'
        BY <2>1, WholeKept
    <2>2. CASE next \/ readPastEnd
        BY <2>1, <2>2 DEF next, readPastEnd, workerVars, contextVars, callVars
    <2>3. ASSUME NEW t \in Tasks, postNext(t) \/ postCurrent(t) PROVE WholeBehind'
        BY <2>1, <2>3 DEF postNext, postCurrent, post, callVars
    <2>4. CASE callStart
        <3>1. /\ call'.name = "start" /\ call'.w = 0 /\ call' # Idle
              /\ UNCHANGED <<thread, stopped>>
            BY <2>4 DEF callStart, Idle, workerVars, contextVars
        <3>2. \A w \in Workers : ~(w < call'.w)
            BY <3>1, SlotFacts
        <3> QED
            BY <3>1, <3>2 DEF WholeBehind
    <2>5. ASSUME NEW by, callStop(by) PROVE WholeBehind'
        <3>1. call'.name = "stop" /\ call' # Idle /\ UNCHANGED <<thread, stopped>>
            BY <2>5 DEF callStop, Idle, workerVars, contextVars
        <3> QED
            BY <3>1 DEF WholeBehind
    <2> QED
        BY <1>2, <2>2, <2>3, <2>4, <2>5 DEF User
<1>3. CASE Proceed
    <2>1. call.w \in Workers /\ call.w \in Nat
        BY SlotFacts DEF GroupTypeOK
    <2>2. ASSUME NEW n \in 0..ThreadsNum, startWorker(n) PROVE WholeBehind'
        <3>1. /\ call.name = "start"
              /\ stopped' = [stopped EXCEPT ![call.w] = FALSE]
              /\ \A s \in Of(call.w) : thread[s] = "none"
              /\ thread' = [s \in Slots |-> IF s \in Of(call.w) /\ s[2] <= n THEN "spawned" ELSE thread[s]]
            BY <2>2 DEF startWorker, start, active
        <3>2. \A s \in Slots : thread'[s] = "exited" => stopped'[s[1]]
            <4>1. \A s \in Slots : thread'[s] = "exited" => thread[s] = "exited" /\ s \notin Of(call.w)
                BY <2>1, <3>1
            <4>2. \A s \in Slots : s \notin Of(call.w) => s[1] # call.w /\ s[1] \in Workers
                BY SlotFacts
            <4> QED
                BY <3>1, <4>1, <4>2 DEF WholeBehind, GroupTypeOK
        <3>3. \A w \in Workers : w < call.w => Serves(w)'
            <4>1. \A w \in Workers : w < call.w => \A s \in Of(w) : s \in Slots /\ s \notin Of(call.w)
                BY <2>1, SlotFacts
            <4>2. \A w \in Workers : w < call.w => w # call.w
                BY <2>1, SlotFacts
            <4> QED
                BY <3>1, <4>1, <4>2 DEF WholeBehind, Serves, GroupTypeOK
        <3>4. CASE n # ThreadsNum
            <4>1. call' = Idle /\ state' = "failed"
                BY <2>2, <3>4 DEF startWorker
            <4> QED
                BY <3>2, <4>1 DEF WholeBehind, Idle
        <3>5. CASE n = ThreadsNum
            <4>1. \A w \in Workers : w = call.w => Serves(w)'
                <5>1. \A s \in Of(call.w) : s \in Slots /\ s[2] <= n
                    BY <2>1, <3>5, ThreadsNumAssumption DEF Of, Slots
                <5> QED
                    BY <2>1, <3>1, <5>1 DEF Serves, GroupTypeOK
            <4>2. Advance("start", "started")
                BY <2>2, <3>5 DEF startWorker
            <4>3. \/ call'.name = "start" /\ call'.w = call.w + 1
                  \/ call' = Idle /\ \A w \in Workers : w < call.w \/ w = call.w
                BY <4>2, AdvanceFacts DEF Names
            <4>4. CASE call'.name = "start" /\ call'.w = call.w + 1
                <5>1. \A w \in Workers : w < call'.w => w < call.w \/ w = call.w
                    BY <2>1, <4>4, SlotFacts
                <5>2. call' # Idle
                    BY <4>4 DEF Idle
                <5> QED
                    BY <3>2, <3>3, <4>1, <4>4, <5>1, <5>2 DEF WholeBehind
            <4>5. CASE call' = Idle /\ \A w \in Workers : w < call.w \/ w = call.w
                BY <3>2, <3>3, <4>1, <4>5 DEF WholeBehind, Idle
            <4> QED
                BY <4>3, <4>4, <4>5
        <3> QED
            BY <3>4, <3>5
    <2>3. CASE stopWorker
        <3>1. CASE stop(call.w) /\ call' = [call EXCEPT !.name = "join"]
            <4>1. call'.name = "join" /\ call' # Idle
                BY <3>1 DEF GroupTypeOK, Idle
            <4>2. \A s \in Slots : thread'[s] = "exited" => stopped'[s[1]]
                BY <2>1, <3>1, SlotFacts DEF stop, WholeBehind, GroupTypeOK
            <4> QED
                BY <4>1, <4>2 DEF WholeBehind
        <3>2. CASE Advance("stop", "stopped") /\ UNCHANGED workerVars
            <4>1. call'.name = "stop" \/ (call' = Idle /\ state' = "stopped")
                BY <3>2, AdvanceFacts DEF Names
            <4> QED
                BY <3>2, <4>1 DEF WholeBehind, Idle, workerVars, contextVars
        <3> QED
            BY <2>3, <3>1, <3>2 DEF stopWorker
    <2>4. ASSUME NEW s \in Slots, joinThread(s) PROVE WholeBehind'
        <3>1. /\ call.name = "join" /\ UNCHANGED stopped
              /\ \A r \in Slots : thread'[r] = "exited" => thread[r] = "exited"
            BY <2>4 DEF joinThread, Joining, join, joinSelf, contextVars, GroupTypeOK
        <3>2. \A r \in Slots : thread'[r] = "exited" => stopped'[r[1]]
            BY <3>1 DEF WholeBehind
        <3>3. CASE UNCHANGED <<call, state>>
            BY <3>1, <3>2, <3>3 DEF WholeBehind, Idle
        <3>4. CASE Advance("stop", "stopped")
            <4>1. call'.name = "stop" \/ (call' = Idle /\ state' = "stopped")
                BY <3>4, AdvanceFacts DEF Names
            <4> QED
                BY <3>2, <4>1 DEF WholeBehind, Idle
        <3> QED
            BY <2>4, <3>3, <3>4 DEF joinThread
    <2> QED
        BY <1>3, <2>2, <2>3, <2>4 DEF Proceed
<1>4. ASSUME NEW s \in Slots, Threads(s) PROVE WholeBehind'
    <2>1. UNCHANGED <<call, state, stopped>>
        BY <1>4 DEF Threads, Thread, Task, enter, exit, runTask, finishTask, throwTask, contextVars, callVars
    <2>2. /\ \A r \in Slots : thread[r] # "none" => thread'[r] # "none"
          /\ \A r \in Slots : thread'[r] = "exited" => thread[r] = "exited" \/ stopped[r[1]]
        BY <1>4 DEF Threads, Thread, Task, enter, exit, runTask, finishTask, throwTask, GroupTypeOK
    <2> QED
        BY <2>1, <2>2, WholeKept
<1> QED
    BY <1>1, <1>2, <1>3, <1>4 DEF Next

\* A group that was started has all of its threads, for any number of workers,
\* threads, tasks and restarts.
THEOREM StartedGroupIsWhole == Spec => []StartedIsWhole
<1> DEFINE Inv == GroupTypeOK /\ WholeBehind
<1>1. Init => Inv
    BY TypeInit, WholeInit
<1>2. Inv /\ [Next]_vars => Inv'
    BY TypeStep, WholeStep
<1>3. Inv => StartedIsWhole
    <2> SUFFICES ASSUME Inv, call = Idle, state = "started", NEW s \in Slots
                 PROVE  thread[s] \in {"spawned", "polling"}
        BY DEF StartedIsWhole
    <2>1. thread[s] # "none" /\ ~stopped[s[1]]
        BY SlotFacts DEF WholeBehind, Serves
    <2>2. thread[s] # "exited"
        BY <2>1 DEF WholeBehind
    <2> QED
        BY <2>1, <2>2 DEF GroupTypeOK
<1> QED
    BY <1>1, <1>2, <1>3, PTL DEF Spec

-----------------------------------------------------------------------------
(* Taking turns.                                                           *)

\* What division by n is.
LEMMA Division ==
    ASSUME NEW n \in Nat \ {0}, NEW i \in Nat
    PROVE  i = n * (i \div n) + (i % n) /\ i % n \in 0..(n - 1) /\ i \div n \in Nat
    OBVIOUS

\* Quotient and remainder are unique.
LEMMA DivisionIsUnique ==
    ASSUME NEW n \in Nat \ {0}, NEW a \in Nat, NEW b \in 0..(n - 1), NEW c \in Nat, NEW d \in 0..(n - 1),
           n * a + b = n * c + d
    PROVE  a = c /\ b = d
<1>1. a = c
    OBVIOUS
<1> QED
    BY <1>1

\* Counting modulo n: the next number has the next remainder, or begins a
\* round.
LEMMA Count ==
    ASSUME NEW n \in Nat \ {0}, NEW i \in Nat
    PROVE  IF i % n = n - 1
           THEN (i + 1) % n = 0 /\ (i + 1) \div n = (i \div n) + 1
           ELSE (i + 1) % n = (i % n) + 1 /\ (i + 1) \div n = i \div n
<1> DEFINE j == i + 1
           q == i \div n
           r == i % n
           p == j \div n
           s == j % n
<1>1. i = n * q + r /\ r \in 0..(n - 1) /\ q \in Nat
    BY Division
<1>2. j \in Nat
    OBVIOUS
<1>3. j = n * p + s /\ s \in 0..(n - 1) /\ p \in Nat
    <2> HIDE DEF j
    <2> QED
        BY <1>2, Division
<1> HIDE DEF p, q, r, s
<1>4. CASE r = n - 1
    <2>1. n * p + s = n * (q + 1) + 0
        BY <1>1, <1>3, <1>4
    <2>2. q + 1 \in Nat /\ 0 \in 0..(n - 1)
        BY <1>1
    <2>3. p = q + 1 /\ s = 0
        BY <1>3, <2>1, <2>2, DivisionIsUnique
    <2> QED
        BY <1>4, <2>3 DEF p, q, r, s
<1>5. CASE r # n - 1
    <2>1. n * p + s = n * q + (r + 1)
        BY <1>1, <1>3
    <2>2. r + 1 \in 0..(n - 1)
        BY <1>1, <1>5
    <2>3. p = q /\ s = r + 1
        BY <1>1, <1>3, <2>1, <2>2, DivisionIsUnique
    <2> QED
        BY <1>5, <2>3 DEF p, q, r, s
<1> QED
    BY <1>4, <1>5

\* Before the first call no worker has been used.
LEMMA TurnInit == Init => TurnInv
<1> SUFFICES ASSUME Init PROVE TurnInv
    OBVIOUS
<1>1. 0 % 2^Width = 0 /\ 0 \div 2^Width = 0 /\ 0 % WorkersNum = 0
    <2>1. \A n \in Nat \ {0} : 0 % n = 0 /\ 0 \div n = 0
        <3> SUFFICES ASSUME NEW n \in Nat \ {0} PROVE 0 % n = 0 /\ 0 \div n = 0
            OBVIOUS
        <3>1. /\ n * (0 \div n) + (0 % n) = n * 0 + 0
              /\ 0 % n \in 0..(n - 1) /\ 0 \div n \in Nat /\ 0 \in 0..(n - 1)
            BY Division
        <3> QED
            BY <3>1, DivisionIsUnique
    <2> QED
        BY <2>1, PowerAssumption, WorkersNumAssumption
<1>2. \A v, w \in Workers : Ahead(v, w) = 0
    BY <1>1, SlotFacts DEF Init, Ahead
<1> QED
    BY <1>1, <1>2 DEF Init, TurnInv

\* next() returns the worker whose turn it is.
LEMMA TakeStep ==
    ASSUME TurnInv, NEW x \in Workers, Take(x)
    PROVE  TurnInv'
<1> DEFINE P == 2^Width
           r == index % WorkersNum
           q == calls \div P
<1>1. P \in Nat \ {0} /\ WorkersNum \in Nat \ {0}
    BY PowerAssumption, WorkersNumAssumption
<1>2. /\ index \in Nat /\ calls \in Nat /\ uses \in [Workers -> Nat] /\ index = calls % P
      /\ \A v, w \in Workers : v < w =>
            uses[w] + Ahead(v, w) <= uses[v] /\ uses[v] <= uses[w] + Ahead(v, w) + q
    BY DEF TurnInv
<1>3. /\ x = r /\ uses' = [uses EXCEPT ![x] = @ + 1]
      /\ index' = (index + 1) % P /\ calls' = calls + 1
    BY DEF Take
<1>4. /\ \A w \in Workers : w \in Nat /\ w <= WorkersNum - 1
      /\ q \in Nat /\ r \in Nat
    <2>1. q \in Nat
        BY <1>1, <1>2, Division
    <2>2. \A w \in Workers : w \in Nat /\ w <= WorkersNum - 1
        BY WorkersNumAssumption DEF Workers
    <2> QED
        BY <1>3, <2>1, <2>2
<1>5. IF index = P - 1
      THEN (index + 1) % P = 0 /\ calls' % P = 0 /\ calls' \div P = q + 1
      ELSE (index + 1) % P = index + 1 /\ calls' % P = index + 1 /\ calls' \div P = q
    <2>1. IF index = P - 1
          THEN calls' % P = 0 /\ calls' \div P = q + 1
          ELSE calls' % P = index + 1 /\ calls' \div P = q
        <3> HIDE DEF P
        <3> QED
            BY <1>1, <1>2, <1>3, Count
    <2>2. index \in 0..(P - 1)
        <3> HIDE DEF P
        <3> QED
            BY <1>1, <1>2, Division
    <2>3. index % P = index
        <3> HIDE DEF P
        <3>1. index = P * (index \div P) + (index % P) /\ index % P \in 0..(P - 1) /\ index \div P \in Nat
            BY <1>1, <1>2, Division
        <3>2. P * (index \div P) + (index % P) = P * 0 + index
            BY <1>1, <1>2, <3>1
        <3> QED
            BY <1>1, <2>2, <3>1, <3>2, DivisionIsUnique
    <2>4. IF index = P - 1 THEN (index + 1) % P = 0 ELSE (index + 1) % P = index + 1
        <3> HIDE DEF P
        <3> QED
            BY <1>1, <1>2, <2>3, Count
    <2> QED
        BY <2>1, <2>4
<1>6. IF r = WorkersNum - 1 THEN (index + 1) % WorkersNum = 0 ELSE (index + 1) % WorkersNum = r + 1
    BY <1>1, <1>2, Count
<1>7. 0 % WorkersNum = 0
    <2>1. WorkersNum * (0 \div WorkersNum) + (0 % WorkersNum) = WorkersNum * 0 + 0
        BY <1>1, Division
    <2> QED
        BY <1>1, <2>1, Division, DivisionIsUnique
<1> DEFINE m == (index + 1) % WorkersNum
           B(k, v, w) == IF v < k /\ k <= w THEN 1 ELSE 0
<1>8. \A v, w \in Workers : v < w =>
          /\ uses'[w] + B(m, v, w) <= uses'[v]
          /\ uses'[v] <= uses'[w] + B(m, v, w) + q
    <2> SUFFICES ASSUME NEW v \in Workers, NEW w \in Workers, v < w
                 PROVE  /\ uses'[w] + B(m, v, w) <= uses'[v]
                        /\ uses'[v] <= uses'[w] + B(m, v, w) + q
        OBVIOUS
    <2>1. uses[w] + B(r, v, w) <= uses[v] /\ uses[v] <= uses[w] + B(r, v, w) + q
        BY <1>2 DEF Ahead
    <2>2. /\ uses'[v] = IF v = r THEN uses[v] + 1 ELSE uses[v]
          /\ uses'[w] = IF w = r THEN uses[w] + 1 ELSE uses[w]
        BY <1>2, <1>3
    <2>3. /\ v \in Nat /\ w \in Nat /\ w <= WorkersNum - 1 /\ r \in Nat /\ q \in Nat
          /\ uses[v] \in Nat /\ uses[w] \in Nat
          /\ m = IF r = WorkersNum - 1 THEN 0 ELSE r + 1
        BY <1>2, <1>4, <1>6
    <2> HIDE DEF m, r, q
    <2> QED
        BY <1>1, <2>1, <2>2, <2>3
<1>9. calls' \in Nat /\ uses' \in [Workers -> Nat]
    BY <1>2, <1>3
<1>10. \A v, w \in Workers : Ahead(v, w)' = B(index' % WorkersNum, v, w)
    BY DEF Ahead
<1>11. CASE index = P - 1
    <2>1. index' = 0 /\ index' = calls' % P /\ calls' \div P = q + 1
        BY <1>3, <1>5, <1>11
    <2>2. \A v, w \in Workers : Ahead(v, w)' = 0
        BY <1>4, <1>7, <1>10, <2>1
    <2>3. \A v, w \in Workers : v < w =>
              uses'[w] <= uses'[v] /\ uses'[v] <= uses'[w] + (q + 1)
        <3>1. \A v, w \in Workers : B(m, v, w) \in {0, 1}
            OBVIOUS
        <3> HIDE DEF B, q
        <3> QED
            BY <1>4, <1>8, <1>9, <3>1
    <2> QED
        BY <1>9, <2>1, <2>2, <2>3 DEF TurnInv
<1>12. CASE index # P - 1
    <2>1. index' = index + 1 /\ index' = calls' % P /\ calls' \div P = q
        BY <1>3, <1>5, <1>12
    <2>2. \A v, w \in Workers : Ahead(v, w)' = B(m, v, w)
        BY <1>10, <2>1
    <2> QED
        BY <1>2, <1>8, <1>9, <2>1, <2>2 DEF TurnInv
<1> QED
    BY <1>11, <1>12

\* Only next() changes whose turn it is.
LEMMA TurnStep == TurnInv /\ [Next]_vars => TurnInv'
<1> SUFFICES ASSUME TurnInv, [Next]_vars PROVE TurnInv'
    OBVIOUS
<1>1. CASE UNCHANGED turnVars
    BY <1>1 DEF TurnInv, Ahead, turnVars
<1>2. CASE \E x \in Workers : Take(x)
    BY <1>2, TakeStep
<1>3. CASE UNCHANGED vars \/ Proceed \/ \E s \in Slots : Threads(s)
    BY <1>1, <1>3 DEF vars, Proceed, startWorker, stopWorker, joinThread, Threads
<1>4. CASE User
    BY <1>1, <1>2, <1>4 DEF User, callStart, callStop, postNext, postCurrent, next, readPastEnd
<1> QED
    BY <1>3, <1>4 DEF Next

\* next() takes the workers in turn, for any number of workers and whatever
\* the overflow of _index does to the turn.
THEOREM WorkersTakeTurns == Spec => []TakenInTurn
<1>1. TurnInv => TakenInTurn
    <2> SUFFICES ASSUME TurnInv, NEW v \in Workers, NEW w \in Workers
                 PROVE  uses[v] <= uses[w] + 1 + calls \div 2^Width
        BY DEF TakenInTurn
    <2> DEFINE q == calls \div 2^Width
    <2>1. /\ q \in Nat /\ uses[v] \in Nat /\ uses[w] \in Nat /\ v \in Nat /\ w \in Nat
          /\ v < w => uses[v] <= uses[w] + Ahead(v, w) + q
          /\ w < v => uses[v] + Ahead(w, v) <= uses[w]
        BY PowerAssumption, Division, SlotFacts DEF TurnInv
    <2>2. Ahead(v, w) \in {0, 1} /\ Ahead(w, v) \in {0, 1}
        BY DEF Ahead
    <2> HIDE DEF q
    <2>3. uses[v] <= uses[w] + 1 + q
        BY <2>1, <2>2
    <2> QED
        BY <2>3 DEF q
<1> QED
    BY TurnInit, TurnStep, <1>1, PTL DEF Spec
=============================================================================
