------------------------------ MODULE Service -------------------------------
(***************************************************************************)
(* A service made of the parts of core: an Application whose subsystems    *)
(* have a thread each, from setUp() to tearDown() or, if that is not       *)
(* called, to their destructor (as a Worker has), a Config loaded in       *)
(* initialize() and again for every signal that is not a reason to stop, a *)
(* LoggerFactory, and a SignalHandler for which proceed() waits.           *)
(*                                                                         *)
(* The derived classes are not part of the library: they use it in any of  *)
(* the ways it allows.  The handler is a member or a local variable of     *)
(* proceed(), the wait is synchronous or not, and every function of theirs  *)
(* may throw.  The logger is made in initialize(), once the configuration  *)
(* is there.                                                               *)
(***************************************************************************)
EXTENDS Application, SignalHandler, Config, LoggerFactory

CONSTANT Term   \* the signal that ends a service

ASSUME ServiceAssumption ==
    /\ Main = 0 /\ Threads = 0..(SubsystemsNum + 1)
    /\ Term \in Accepts

VARIABLES
    early,        \* the handler is a member, constructed before all threads
    async,        \* proceed() uses asyncWaitFor()
    job,          \* what Main does inside of initialize(), setUp() or proceed()
    loaded        \* load() has returned once

serviceVars == <<early, async, job, loaded>>
choices == <<early, async>>
vars == <<appVars, signalVars, configVars, logVars, serviceVars>>

Waiter == SubsystemsNum + 1   \* the thread of asyncWaitFor()

Quiet == UNCHANGED <<configVars, logVars>>

\* An exception of what Main is doing leaves the phase.
Throws == (\E std \in BOOLEAN : throw(std)) /\ job' = "none" /\ UNCHANGED <<choices, loaded>>

-----------------------------------------------------------------------------
(* Construction, initialize() and setUp().                                 *)

constructService == constructApplication /\ UNCHANGED <<signalVars, serviceVars>> /\ Quiet

\* The member is constructed, or its constructor throws.
constructMember ==
    /\ phase = "parseArgs"
    /\ early /\ handler = "none"
    /\ \/ construct(Main) /\ UNCHANGED <<appVars, serviceVars>>
       \/ Throws /\ UNCHANGED signalVars
    /\ Quiet

options ==
    /\ early => handler = "alive"
    /\ phase = "parseArgs"
    /\ Throws \/ (UNCHANGED serviceVars /\ \E accepted \in BOOLEAN : parseArgs(accepted))
    /\ UNCHANGED signalVars /\ Quiet

\* initialize() loads the configuration before it calls the subsystems.
beginLoad ==
    /\ phase = "initialize" /\ job = "none" /\ ~loaded
    /\ \/ loadBegin /\ job' = "load" /\ UNCHANGED <<appVars, choices, loaded>>
       \/ loadThrows /\ Throws
    /\ UNCHANGED <<signalVars, logVars>>

loadNext ==
    /\ job = "load"
    /\ \E f \in Files :
          \/ loadConfigFile(f) /\ UNCHANGED <<appVars, serviceVars>>
          \/ loadFails(f) /\ phase = "initialize" /\ Throws
          \/ loadFails(f) /\ phase = "proceed" /\ job' = "unwind" /\ UNCHANGED <<appVars, choices, loaded>>
    /\ UNCHANGED <<signalVars, logVars>>

\* load() returns, in proceed() to waitFor(), which waits again.
endLoad ==
    /\ job = "load" /\ todo = {}
    /\ loaded' = TRUE
    /\ IF phase = "initialize"
       THEN job' = "none" /\ UNCHANGED signalVars
       ELSE job' = "wait" /\ wait(Main)
    /\ UNCHANGED <<appVars, choices>> /\ Quiet

HasLogger == logger # "initial" \/ mine # "none"
LoggerIsDue == ~HasLogger /\ phase = "initialize" /\ loaded

makeLogger ==
    /\ job = "none" /\ LoggerIsDue
    /\ \E setDefault \in BOOLEAN : createLogger(setDefault)
    /\ job' = "sinks"
    /\ UNCHANGED <<appVars, signalVars, configVars, choices, loaded>>

makeSinks ==
    /\ job = "sinks"
    /\ \/ addSinks /\ job' = "none" /\ UNCHANGED <<appVars, choices, loaded>>
       \/ addSinksThrows /\ Throws
    /\ UNCHANGED <<signalVars, configVars>>

Ready == job = "none" /\ loaded /\ ~LoggerIsDue

\* What the function of subsystem s does with its thread.
Effect(s) ==
    CASE phase = "setUp" -> spawn(Main, s)
      [] phase = "tearDown" -> finish(s)
      [] OTHER -> UNCHANGED signalVars

hook(s) == Ready /\ callHook(s) /\ Effect(s) /\ UNCHANGED serviceVars /\ Quiet

\* The function throws, with its thread created or joined or not.
hookThrows(s) ==
    /\ Ready
    /\ phase \in DOMAIN Hook /\ at = s
    /\ Effect(s) \/ UNCHANGED signalVars
    /\ Throws /\ Quiet

phaseEnds ==
    /\ Ready /\ phase # "proceed"
    /\ endPhase \/ return
    /\ UNCHANGED <<signalVars, serviceVars>> /\ Quiet

-----------------------------------------------------------------------------
(* proceed()                                                               *)

constructLocal ==
    /\ phase = "proceed" /\ job = "none" /\ handler = "none"
    /\ \/ construct(Main) /\ UNCHANGED <<appVars, serviceVars>>
       \/ Throws /\ UNCHANGED signalVars
    /\ Quiet

beginWait ==
    /\ phase = "proceed" /\ job = "none"
    /\ IF async THEN asyncWaitFor(Main, Waiter) /\ job' = "join"
                ELSE wait(Main) /\ job' = "wait"
    /\ UNCHANGED <<appVars, choices, loaded>> /\ Quiet

waitReturns(t) ==
    /\ \E sig \in Set : wake(t, sig)
    /\ UNCHANGED <<appVars, serviceVars>> /\ Quiet

\* waitFor() calls its predicate, which reloads the configuration for a
\* signal that it does not accept.
afterWait ==
    /\ job = "wait" /\ Main \notin waiting
    /\ \/ Returned /\ job' = "leave" /\ UNCHANGED configVars
       \/ Again /\ job' = "load" /\ loadBegin
    /\ UNCHANGED <<appVars, signalVars, logVars, choices, loaded>>

\* The predicate of asyncWaitFor() runs on the waiting thread.  It may throw
\* (see joinWaiter); that it reloads there, while Main reads, is not modelled.
waiterWaitsAgain ==
    /\ Waiter \in alive \ waiting /\ Again
    /\ wait(Waiter)
    /\ UNCHANGED <<appVars, serviceVars>> /\ Quiet

\* The future of asyncWaitFor() is ready: its thread is joined, by get() or,
\* after an exception, by the destructor, which waits for it too.  What the
\* predicate has thrown is in the future, and get() throws it again.
joinWaiter ==
    /\ job \in {"join", "unwind"}
    /\ Waiter \in alive \ waiting
    /\ \/ Returned /\ job' = IF job = "join" THEN "leave" ELSE job
       \/ Again /\ job' = "unwind"
    /\ finish(Waiter)
    /\ UNCHANGED <<appVars, choices, loaded>> /\ Quiet

\* What else proceed() does throws.
proceedThrows ==
    /\ phase = "proceed" /\ job \in {"none", "join"} /\ handler = "alive"
    /\ job' = "unwind"
    /\ UNCHANGED <<appVars, signalVars, choices, loaded>> /\ Quiet

\* The local handler is destroyed on the way out.
DestroyLocal == IF early THEN UNCHANGED signalVars ELSE destroy(Main)

leave ==
    /\ job = "leave"
    /\ DestroyLocal /\ endPhase
    /\ job' = "none"
    /\ UNCHANGED <<choices, loaded>> /\ Quiet

unwind ==
    /\ job = "unwind" /\ Waiter \notin alive
    /\ DestroyLocal /\ Throws /\ Quiet

-----------------------------------------------------------------------------
(* Destruction.                                                            *)

destroyMember ==
    /\ phase = "destroy"
    /\ destroy(Main)
    /\ UNCHANGED <<appVars, serviceVars>> /\ Quiet

destroyBase ==
    /\ handler # "alive"
    /\ destroyApplication
    /\ UNCHANGED <<signalVars, serviceVars>> /\ Quiet

destroyThread(s) == destroySubsystem(s) /\ finish(s) /\ UNCHANGED serviceVars /\ Quiet

exitProcess ==
    /\ endMain
    /\ process' = "exited"
    /\ UNCHANGED <<handler, alive, mask, kernelVars, serviceVars>> /\ Quiet

-----------------------------------------------------------------------------
Init ==
    /\ AppInit /\ SignalInit /\ ConfigInit /\ LogInit
    /\ early \in BOOLEAN /\ async \in BOOLEAN
    /\ job = "none"
    /\ loaded = FALSE

MainThread ==
    \/ constructService \/ constructMember \/ options
    \/ beginLoad \/ loadNext \/ endLoad \/ makeLogger \/ makeSinks
    \/ \E s \in Subsystems : hook(s) \/ hookThrows(s) \/ destroyThread(s)
    \/ phaseEnds
    \/ constructLocal \/ beginWait \/ waitReturns(Main) \/ afterWait \/ joinWaiter
    \/ proceedThrows \/ leave \/ unwind
    \/ destroyMember \/ destroyBase \/ exitProcess

WaiterThread == waitReturns(Waiter) \/ waiterWaitsAgain

\* Other processes, and the operator.
Others ==
    \/ \E sig \in Signals : raise(sig) /\ UNCHANGED <<appVars, serviceVars>> /\ Quiet
    \/ \E f \in {g \in Files : g.json}, content \in Contents \cup {Absent, Malformed} :
          edit(f, content) /\ UNCHANGED <<appVars, signalVars, logVars, serviceVars>>

Next == process = "running" /\ (MainThread \/ WaiterThread \/ Others)

Spec == Init /\ [][Next]_vars

\* Main goes on, and so does the waiting thread: the functions of the derived
\* classes return or throw, threads that are told to stop do so.  Nobody need
\* ever send a signal.
Fairness ==
    /\ WF_vars(process = "running" /\ MainThread)
    /\ WF_vars(process = "running" /\ WaiterThread)

FairSpec == Spec /\ Fairness

-----------------------------------------------------------------------------
(* Properties.                                                             *)

\* A handler that is constructed before the service has threads protects it:
\* while it is alive its signals end the process neither through Main nor
\* through a thread that a subsystem, or asyncWaitFor(), has created, since all
\* of them have inherited the mask.  Signals that it is not for still do, and
\* it is not so for a local handler.
HandlerProtects ==
    process = "killed" /\ early /\ raised \subseteq Set => handler # "alive"

\* One signal ends a service in an orderly way: if run() has come to
\* EXIT_SUCCESS and yet the process is killed (the destructor of the handler
\* unblocks the signals), then by a second signal, never by the one that the
\* service had waited for.
OneSignalIsGraceful == process = "killed" /\ exit = "success" => raises > 1

\* A thread of a subsystem finds Application::instance() as long as it runs,
\* since tearDown() has ended it before ~Application().  Only when the run has
\* failed does ~Application() come first: then the subsystems' destructors end
\* the threads, after s_instance is gone.
InstanceIsThere == ~instance /\ alive # {Main} => exit = "failure"

\* A service gets beyond initialize() only with everything its files hold: if
\* nobody has edited the directory, every JSON file in it has been read, and
\* none was passed over because of another.
ServiceIsConfigured ==
    phase \in {"setUp", "proceed", "tearDown", "finalize"} /\ edits = 0 /\ job # "load" /\ dir = "found"
    => \A f \in Files : f.json => read[f] = IF disk[f] = Absent THEN Unset ELSE disk[f]

\* A service that is sent the signal it ends for does end, in whatever phase
\* it is, whichever other signals come, whether it waits for them itself or
\* has an exception waiting for asyncWaitFor() to return.
TermEndsTheService == Term \in raised ~> process # "running"
=============================================================================
