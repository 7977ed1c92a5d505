------------------------------- MODULE Worker -------------------------------
(***************************************************************************)
(* jar::Worker (network/src/Worker.cpp): a pool of threads that run one    *)
(* io_context.  There are WorkersNum of them, as in a WorkerGroup; a       *)
(* worker on its own is a group of one.                                    *)
(*                                                                         *)
(* start() spawns the threads, each of which enters io_context::run() some *)
(* time later; stop() stops the context and then joins the threads one by  *)
(* one (the vector's clear() destroys std::jthreads).  The io_context is   *)
(* external: it keeps the posted tasks across stop() and restart(), and a  *)
(* thread in run() takes tasks until it sees the context stopped.          *)
(***************************************************************************)
EXTENDS Naturals

CONSTANTS
    WorkersNum,   \* the number of workers
    ThreadsNum,   \* Worker::_threadsNum
    Tasks,        \* the functions posted to executor(), one element each
    NoTask        \* a thread that runs no task

ASSUME WorkersNumAssumption == WorkersNum \in Nat \ {0}
ASSUME ThreadsNumAssumption == ThreadsNum \in Nat \ {0}
ASSUME NoTaskAssumption == NoTask \notin Tasks

VARIABLES
    stopped,      \* stopped[w]: io_context::stopped() of worker w
    thread,       \* thread[s]: the thread in slot s, if there is one
    running,      \* running[s]: the task the thread in slot s runs
    task,         \* task[t]: what has become of task t
    home,         \* home[t]: the worker task t was posted to
    process       \* "ok", or how the process ended

contextVars == <<stopped, running, task, home>>
workerVars == <<contextVars, thread, process>>

Workers == 0..(WorkersNum - 1)

\* <<w, i>> is the i-th element of worker w's _threads.
Slots == Workers \X (1..ThreadsNum)
Of(w) == {w} \X (1..ThreadsNum)

active(w) == \E s \in Of(w) : thread[s] # "none"

-----------------------------------------------------------------------------
(* What the owner of a worker does to it.                                  *)

startStopped(w, n) ==  \* mutant: the context is not restarted
    /\ ~active(w)
    /\ thread' = [s \in Slots |-> IF s \in Of(w) /\ s[2] <= n THEN "spawned" ELSE thread[s]]
    /\ UNCHANGED <<contextVars, process>>

\* start(), of which the n-th thread is the last that can be created: if that
\* is not the last wanted, the call throws and leaves n threads running.  The
\* assertion makes ~active() the caller's duty.
start(w, n) ==
    /\ ~active(w)
    /\ stopped' = [stopped EXCEPT ![w] = FALSE]
    /\ thread' = [s \in Slots |-> IF s \in Of(w) /\ s[2] <= n THEN "spawned" ELSE thread[s]]
    /\ UNCHANGED <<running, task, home, process>>

stopUnheard(w) ==  \* mutant: the threads are joined without stopping the context
    /\ active(w)
    /\ UNCHANGED workerVars

\* stop() up to the joins.
stop(w) ==
    /\ active(w)
    /\ stopped' = [stopped EXCEPT ![w] = TRUE]
    /\ UNCHANGED <<running, task, home, thread, process>>

joinDetached(s) ==  \* mutant: a thread is let go instead of joined
    /\ thread[s] # "none"
    /\ thread' = [thread EXCEPT ![s] = "none"]
    /\ UNCHANGED <<contextVars, process>>

\* One std::jthread of the vector is destroyed: it is joined first.
join(s) ==
    /\ thread[s] = "exited"
    /\ thread' = [thread EXCEPT ![s] = "none"]
    /\ UNCHANGED <<contextVars, process>>

\* The destructor of a jthread that runs the calling task cannot join itself:
\* std::system_error leaves a destructor, and the process terminates.
joinSelf(s) ==
    /\ thread[s] # "none"
    /\ process' = "terminated"
    /\ UNCHANGED <<contextVars, thread>>

\* A task is posted to the executor of worker w.
post(t, w) ==
    /\ task[t] = "new"
    /\ task' = [task EXCEPT ![t] = "queued"]
    /\ home' = [home EXCEPT ![t] = w]
    /\ UNCHANGED <<stopped, running, thread, process>>

-----------------------------------------------------------------------------
(* The threads and the contexts.                                           *)

\* The thread function: take a work guard, enter run().
enter(s) ==
    /\ thread[s] = "spawned"
    /\ thread' = [thread EXCEPT ![s] = "polling"]
    /\ UNCHANGED <<contextVars, process>>

runTask(s, t) ==
    /\ thread[s] = "polling"
    /\ running[s] = NoTask
    /\ ~stopped[s[1]]
    /\ task[t] = "queued"
    /\ home[t] = s[1]
    /\ running' = [running EXCEPT ![s] = t]
    /\ task' = [task EXCEPT ![t] = "running"]
    /\ UNCHANGED <<stopped, home, thread, process>>

finishTask(s) ==
    /\ running[s] # NoTask
    /\ task' = [task EXCEPT ![running[s]] = "done"]
    /\ running' = [running EXCEPT ![s] = NoTask]
    /\ UNCHANGED <<stopped, home, thread, process>>

\* A task's exception leaves run() and the thread function.
throwTask(s) ==
    /\ running[s] # NoTask
    /\ process' = "terminated"
    /\ UNCHANGED <<contextVars, thread>>

exitOutOfWork(s) ==  \* mutant: no work guard, run() returns when nothing is queued
    /\ thread[s] = "polling" /\ running[s] = NoTask
    /\ stopped[s[1]] \/ \A t \in Tasks : home[t] = s[1] => task[t] \in {"new", "done"}
    /\ thread' = [thread EXCEPT ![s] = "exited"]
    /\ UNCHANGED <<contextVars, process>>

\* run() returns only when the context is stopped: the guard keeps it there.
exit(s) ==
    /\ thread[s] = "polling"
    /\ running[s] = NoTask
    /\ stopped[s[1]]
    /\ thread' = [thread EXCEPT ![s] = "exited"]
    /\ UNCHANGED <<contextVars, process>>

Thread(s) == enter(s) \/ exit(s) \/ \E t \in Tasks : runTask(s, t)

WorkerInit ==
    /\ stopped = [w \in Workers |-> FALSE]
    /\ thread = [s \in Slots |-> "none"]
    /\ running = [s \in Slots |-> NoTask]
    /\ task = [t \in Tasks |-> "new"]
    /\ home = [t \in Tasks |-> 0]
    /\ process = "ok"
=============================================================================
