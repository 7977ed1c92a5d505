--------------------------- MODULE SignalHandler ----------------------------
(***************************************************************************)
(* jar::SignalHandler (core/src/SignalHandler.cpp): blocks a set of        *)
(* signals for the thread that constructs it, waits for one of them, and   *)
(* unblocks them when it is destroyed.                                     *)
(*                                                                         *)
(* Signals and threads are the kernel's (external).  A mask belongs to a   *)
(* thread and is inherited by the threads it creates later.  A signal sent *)
(* to the process goes to a thread that does not block it, which ends the  *)
(* process, or to one that waits for it; when all block it and none waits  *)
(* it is pending, and a second one of its kind is not counted.             *)
(***************************************************************************)
EXTENDS Naturals

CONSTANTS
    Threads,     \* the threads there can be
    Main,        \* the one there is from the beginning
    Signals,     \* the signals others send, all of which end a process
    Set,         \* _set: the signals the handler is for
    Accepts,     \* those of them for which waitFor()'s predicate is true
    NoSignal,    \* wait() has not returned
    MaxRaises    \* bound: how many signals are sent

ASSUME SignalAssumption ==
    /\ Main \in Threads
    /\ Set \subseteq Signals /\ Accepts \subseteq Set /\ NoSignal \notin Signals
    /\ MaxRaises \in Nat

VARIABLES
    handler,   \* the SignalHandler: "none", "alive" or "destroyed"
    alive,     \* the threads that run
    mask,      \* mask[t]: the signals that thread t blocks
    pending,   \* the signals that wait for somebody to take them
    waiting,   \* the threads in sigwait()
    signum,    \* what wait() has returned to waitFor()
    raised,    \* the signals that were sent at some time
    raises,    \* how many were sent
    process    \* "running", "exited" or "killed"

signalVars == <<handler, alive, mask, pending, waiting, signum, raised, raises, process>>
kernelVars == <<pending, waiting, signum, raised, raises>>

constructLast(t) ==  \* mutant: the set is emptied again for every signal
    /\ handler = "none"
    /\ handler' = "alive"
    /\ \E sig \in Set : mask' = [mask EXCEPT ![t] = @ \cup {sig}]
    /\ UNCHANGED <<alive, kernelVars, process>>

\* The constructor.  When it throws it has changed nothing.
construct(t) ==
    /\ handler = "none"
    /\ handler' = "alive"
    /\ mask' = [mask EXCEPT ![t] = @ \cup Set]
    /\ UNCHANGED <<alive, kernelVars, process>>

\* The destructor: what is pending is delivered at once.
destroy(t) ==
    /\ handler = "alive"
    /\ handler' = "destroyed"
    /\ mask' = [mask EXCEPT ![t] = @ \ Set]
    /\ process' = IF pending \cap Set # {} THEN "killed" ELSE process
    /\ UNCHANGED <<alive, kernelVars>>

\* wait(), up to the call of sigwait().
wait(t) ==
    /\ handler = "alive"
    /\ waiting' = waiting \cup {t}
    /\ signum' = NoSignal
    /\ UNCHANGED <<handler, alive, mask, pending, raised, raises, process>>

wakePeek(t, sig) ==  \* mutant: the signal stays pending
    /\ t \in waiting
    /\ sig \in pending \cap Set
    /\ waiting' = waiting \ {t}
    /\ signum' = sig
    /\ UNCHANGED <<handler, alive, mask, pending, raised, raises, process>>

\* sigwait() returns sig and wait() returns it.
wake(t, sig) ==
    /\ t \in waiting
    /\ sig \in pending \cap Set
    /\ pending' = pending \ {sig}
    /\ waiting' = waiting \ {t}
    /\ signum' = sig
    /\ UNCHANGED <<handler, alive, mask, raised, raises, process>>

ReturnedInverted == signum \in Set \ Accepts  \* mutant: the predicate is negated

\* waitFor() returns, or waits again.
Returned == signum \in Accepts
Again == signum \in Set \ Accepts

\* asyncWaitFor(): std::async creates a thread, which calls wait().
asyncWaitFor(t, new) ==
    /\ handler = "alive"
    /\ new \notin alive
    /\ alive' = alive \cup {new}
    /\ mask' = [mask EXCEPT ![new] = mask[t]]
    /\ waiting' = waiting \cup {new}
    /\ UNCHANGED <<handler, pending, signum, raised, raises, process>>

-----------------------------------------------------------------------------
(* Others.                                                                 *)

\* A signal is sent to the process.  A thread that does not block it takes
\* it, though another waits for it, or leaves it to that one.
raise(sig) ==
    /\ raises < MaxRaises
    /\ raises' = raises + 1
    /\ raised' = raised \cup {sig}
    /\ LET open == {t \in alive : sig \notin mask[t]} IN
       \/ /\ open # {}
          /\ process' = "killed"
          /\ UNCHANGED pending
       \/ /\ open = {} \/ (sig \in Set /\ waiting # {})
          /\ pending' = pending \cup {sig}
          /\ UNCHANGED process
    /\ UNCHANGED <<handler, alive, mask, waiting, signum>>

\* Thread t creates a thread, and a thread ends.
spawn(t, new) ==
    /\ alive' = alive \cup {new}
    /\ mask' = [mask EXCEPT ![new] = mask[t]]
    /\ UNCHANGED <<handler, kernelVars, process>>

finish(t) ==
    /\ alive' = alive \ {t}
    /\ UNCHANGED <<handler, mask, kernelVars, process>>

SignalInit ==
    /\ handler = "none"
    /\ alive = {Main}
    /\ mask = [t \in Threads |-> {}]
    /\ pending = {}
    /\ waiting = {}
    /\ signum = NoSignal
    /\ raised = {}
    /\ raises = 0
    /\ process = "running"
=============================================================================
