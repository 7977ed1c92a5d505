---------------------------- MODULE ServiceProofs ---------------------------
(***************************************************************************)
(* Proofs about Service, for any number of subsystems, any signals, any    *)
(* files with any contents, and any number of signals sent and edits made. *)
(***************************************************************************)
EXTENDS Service, TLAPS

Phases ==
    {"construct", "parseArgs", "initialize", "setUp", "proceed", "tearDown", "finalize",
     "destroy", "destroySubsystems", "ended"}
Before == {"construct", "parseArgs"}
Destruction == {"destroy", "destroySubsystems", "ended"}
Jobs == {"none", "load", "sinks", "wait", "join", "leave", "unwind"}

-----------------------------------------------------------------------------
(* The invariants.                                                         *)

\* How far the phase under way has come with the subsystems.
HooksAreInStep ==
    /\ phase \in Before => \A s \in Subsystems : hooks[s] = 0
    /\ phase = "proceed" => \A s \in Subsystems : hooks[s] = 2
    /\ phase \in DOMAIN Hook =>
          \A s \in Subsystems : hooks[s] = IF s < at THEN Hook[phase] ELSE Hook[phase] - 1

\* main() knows what it will return once it destroys, and not before.
ExitIsLate ==
    /\ exit = "none" <=> phase \notin Destruction
    /\ phase \notin Destruction => caught = "none"

AppInv ==
    /\ phase \in Phases /\ at \in 1..(SubsystemsNum + 1)
    /\ hooks \in [Subsystems -> Nat]
    /\ exit \in {"none", "success", "failure"}
    /\ HooksAreInStep /\ ExitIsLate /\ PhasesAreComplete

\* Where Main can be with what it does.
JobsHavePlaces ==
    /\ job = "load" => phase \in {"initialize", "proceed"}
    /\ job = "sinks" => phase = "initialize"
    /\ job \in {"wait", "join", "leave", "unwind"} => phase = "proceed"
    /\ phase \in {"setUp", "proceed", "tearDown", "finalize"} => loaded

\* Which threads there are, in which phase.
ThreadsHavePlaces ==
    /\ Main \in alive /\ alive \subseteq Threads
    /\ Waiter \in alive => phase = "proceed" /\ job \in {"join", "unwind"}
    /\ phase \in Before \cup {"initialize"} => alive = {Main}
    /\ phase = "tearDown" => \A s \in alive : s = Main \/ s >= at
    /\ phase = "finalize" \/ exit = "success" => alive = {Main}
    /\ ~instance => phase \in {"construct", "destroySubsystems", "ended"}

ControlInv == job \in Jobs /\ JobsHavePlaces /\ ThreadsHavePlaces

\* An early handler is there before the phases begin, and then every thread
\* blocks its signals.
MaskIsInherited ==
    /\ mask \in [Threads -> SUBSET Signals]
    /\ phase = "construct" => handler = "none"
    /\ early /\ handler = "none" => phase \in Before \cup Destruction
    /\ early /\ handler = "alive" => \A t \in alive : Set \subseteq mask[t]

\* Main is past the wait of proceed(), and has not failed.
Past == job = "leave" \/ phase \in {"tearDown", "finalize"} \/ exit = "success"

\* Every signal that is pending or was returned has been sent; a service that
\* is past proceed() has been returned one.
SignalsAreCounted ==
    /\ raises \in Nat
    /\ pending # {} => raises >= 1
    /\ \A a, b \in pending : a # b => raises >= 2
    /\ signum # NoSignal => raises >= 1
    /\ signum # NoSignal /\ pending # {} => raises >= 2
    /\ Past => signum # NoSignal

SignalInv == MaskIsInherited /\ SignalsAreCounted /\ HandlerProtects /\ OneSignalIsGraceful

\* Files are read in the order in which they override each other, and what a
\* file has given to a key stays with the key.
FilesAreInOrder ==
    /\ todo \subseteq Files
    /\ \A f \in todo : read[f] = Unset
    /\ \A f \in todo, g \in Files : read[g] # Unset => ~comparator(f, g)
    /\ \A g \in Files : read[g] # Unset => g.json

ValuesAreNormalized ==
    \A k \in Keys : values[k] # Unset =>
        /\ values[k].from \in Files
        /\ Defines(read[values[k].from], k) => values[k].v = normalizeConfigValue(read[values[k].from][k])

ConfigInv ==
    /\ disk \in [Files -> Contents \cup {Absent, Malformed}]
    /\ DOMAIN read = Files
    /\ edits \in Nat
    /\ FilesAreInOrder /\ ValuesAreNormalized /\ LastFileWins

\* What the load under way, and the last one, have read of files nobody edits.
HasRead(f) == read[f] = IF disk[f] = Absent THEN Unset ELSE disk[f]

LoadsAreComplete ==
    edits = 0 /\ dir = "found" =>
        /\ job = "load" => \A f \in Files :
              /\ f \in todo => disk[f] # Absent
              /\ f \notin todo => ~Fails(f) /\ (f.json => HasRead(f))
        /\ loaded => \A f \in Files : ~Fails(f)
        /\ loaded /\ job # "load" /\ phase \notin Destruction =>
              \A f \in Files : f.json => HasRead(f)

-----------------------------------------------------------------------------
(* Phases and subsystems.                                                  *)

\* The tables of phases, spelled out.
LEMMA PhaseFacts ==
    /\ DOMAIN Hook = {"initialize", "setUp", "tearDown", "finalize"}
    /\ Hook["initialize"] = 1 /\ Hook["setUp"] = 2 /\ Hook["tearDown"] = 3 /\ Hook["finalize"] = 4
    /\ DOMAIN NextPhase = {"parseArgs", "initialize", "setUp", "proceed", "tearDown"}
    /\ NextPhase["initialize"] = "setUp" /\ NextPhase["setUp"] = "proceed"
    /\ NextPhase["proceed"] = "tearDown" /\ NextPhase["tearDown"] = "finalize"
    BY DEF Hook, NextPhase

\* What Main does to the application.
AppStep ==
    \/ constructApplication
    \/ \E accepted \in BOOLEAN : parseArgs(accepted)
    \/ \E s \in Subsystems : callHook(s) \/ destroySubsystem(s)
    \/ endPhase \/ return
    \/ \E std \in BOOLEAN : throw(std)
    \/ destroyApplication \/ endMain

\* A step of the service is at most one of the application.
LEMMA AppSteps == [Next]_vars => AppStep \/ UNCHANGED appVars
<1> SUFFICES ASSUME Next PROVE AppStep \/ UNCHANGED appVars
    BY DEF vars
<1> USE DEF AppStep
<1>1. CASE constructService \/ constructMember \/ options
    BY <1>1 DEF constructService, constructMember, options, Throws
<1>2. CASE beginLoad \/ loadNext \/ endLoad \/ makeLogger \/ makeSinks
    BY <1>2 DEF beginLoad, loadNext, endLoad, makeLogger, makeSinks, Throws
<1>3. CASE \E s \in Subsystems : hook(s) \/ hookThrows(s) \/ destroyThread(s)
    BY <1>3 DEF hook, hookThrows, destroyThread, Throws
<1>4. CASE phaseEnds
    BY <1>4 DEF phaseEnds
<1>5. CASE \/ constructLocal \/ beginWait \/ waitReturns(Main) \/ afterWait \/ joinWaiter
           \/ proceedThrows \/ leave \/ unwind
    BY <1>5 DEF constructLocal, beginWait, waitReturns, afterWait, joinWaiter, proceedThrows, leave,
                unwind, Throws
<1>6. CASE destroyMember \/ destroyBase \/ exitProcess
    BY <1>6 DEF destroyMember, destroyBase, exitProcess
<1>7. CASE WaiterThread \/ Others
    BY <1>7 DEF WaiterThread, Others, waitReturns, waiterWaitsAgain
<1> QED
    BY <1>1, <1>2, <1>3, <1>4, <1>5, <1>6, <1>7 DEF Next, MainThread

\* Before main() has begun.
LEMMA AppInitially == Init => AppInv
    BY SubsystemsNumAssumption, PhaseFacts
    DEF Init, AppInit, AppInv, Phases, Before, Destruction, HooksAreInStep, ExitIsLate, PhasesAreComplete

\* Every step of the application goes on from where the phase was.
LEMMA AppInvStep ==
    ASSUME AppInv, AppStep
    PROVE  AppInv'
<1> USE PhaseFacts, SubsystemsNumAssumption DEF AppInv
<1>1. SubsystemsNum \in Nat /\ \A s \in Subsystems : s \in Nat /\ s >= 1 /\ s <= SubsystemsNum
    BY DEF Subsystems
<1>2. ASSUME UNCHANGED <<hooks, caught>>, phase \in Before, phase' \in Before \cup {"initialize"},
             at' = 1, UNCHANGED exit
      PROVE  AppInv'
    BY <1>1, <1>2 DEF Phases, Before, Destruction, HooksAreInStep, ExitIsLate, PhasesAreComplete
<1>3. ASSUME UNCHANGED <<hooks>>, phase \notin Destruction, phase' = "destroy", at' = 1,
             exit' = "failure"
      PROVE  AppInv'
    BY <1>1, <1>3 DEF Phases, Destruction, Before, HooksAreInStep, ExitIsLate, PhasesAreComplete
<1>4. CASE constructApplication
    BY <1>2, <1>4 DEF constructApplication, enter, Before
<1>5. ASSUME NEW accepted \in BOOLEAN, parseArgs(accepted) PROVE AppInv'
    BY <1>2, <1>3, <1>5 DEF parseArgs, enter, Before, Destruction
<1>6. ASSUME NEW s \in Subsystems, callHook(s) PROVE AppInv'
    <2>1. /\ phase \in DOMAIN Hook /\ s = at /\ hooks[s] = Hook[phase] - 1
          /\ hooks'[s] = hooks[s] + 1 /\ \A r \in Subsystems \ {s} : hooks'[r] = hooks[r]
          /\ hooks' \in [Subsystems -> Nat] /\ at' = at + 1 /\ UNCHANGED <<phase, exit, caught>>
        BY <1>1, <1>6 DEF callHook, HooksAreInStep
    <2>2. \A r \in Subsystems : hooks'[r] = IF r < at' THEN Hook[phase] ELSE Hook[phase] - 1
        BY <1>1, <2>1 DEF HooksAreInStep
    <2>3. HooksAreInStep'
        BY <2>1, <2>2 DEF HooksAreInStep, Before
    <2>4. exit = "none" /\ caught = "none"
        BY <2>1 DEF ExitIsLate, Destruction
    <2>5. \A r, q \in Subsystems : hooks'[r] < hooks'[q] => hooks'[q] = hooks'[r] + 1 /\ q < r
        <3>1. Hook[phase] \in Nat
            BY <2>1
        <3> QED
            BY <1>1, <2>1, <2>2, <3>1
    <2>6. PhasesAreComplete'
        BY <2>1, <2>4, <2>5 DEF PhasesAreComplete
    <2>7. at' \in 1..(SubsystemsNum + 1)
        BY <1>1, <2>1
    <2> QED
        BY <2>1, <2>3, <2>6, <2>7 DEF ExitIsLate
<1>7. CASE endPhase
    <2>1. /\ phase \in {"initialize", "setUp", "proceed", "tearDown"}
          /\ phase \in DOMAIN Hook => at > SubsystemsNum
          /\ phase' = NextPhase[phase] /\ at' = 1 /\ UNCHANGED <<hooks, exit, caught>>
        BY <1>7 DEF endPhase, enter
    <2>2. \A s \in Subsystems : hooks[s] = IF phase = "proceed" THEN 2 ELSE Hook[phase]
        BY <1>1, <2>1 DEF HooksAreInStep
    <2>3. HooksAreInStep'
        BY <1>1, <2>1, <2>2 DEF HooksAreInStep, Before
    <2> QED
        BY <1>1, <2>1, <2>3 DEF Phases, Destruction, ExitIsLate, PhasesAreComplete
<1>8. CASE return
    <2>1. /\ phase = "finalize" /\ at > SubsystemsNum
          /\ phase' = "destroy" /\ at' = 1 /\ exit' = "success" /\ UNCHANGED <<hooks, caught>>
        BY <1>8 DEF return, enter
    <2>2. \A s \in Subsystems : hooks[s] = 4
        BY <1>1, <2>1 DEF HooksAreInStep
    <2>3. caught = "none"
        BY <2>1 DEF ExitIsLate, Destruction
    <2> QED
        BY <1>1, <2>1, <2>2, <2>3 DEF Phases, Destruction, Before, HooksAreInStep, ExitIsLate, PhasesAreComplete
<1>9. ASSUME NEW std \in BOOLEAN, throw(std) PROVE AppInv'
    BY <1>3, <1>9 DEF throw, enter, Destruction
<1>10. ASSUME UNCHANGED <<hooks, exit, caught>>, phase \in Destruction, phase' \in Destruction,
              at' \in 1..(SubsystemsNum + 1)
       PROVE  AppInv'
    BY <1>10 DEF Phases, Destruction, Before, HooksAreInStep, ExitIsLate, PhasesAreComplete
<1>11. CASE destroyApplication \/ endMain
    BY <1>1, <1>10, <1>11 DEF destroyApplication, endMain, enter, Destruction
<1>12. ASSUME NEW s \in Subsystems, destroySubsystem(s) PROVE AppInv'
    BY <1>1, <1>10, <1>12 DEF destroySubsystem, Destruction
<1> QED
    BY <1>4, <1>5, <1>6, <1>7, <1>8, <1>9, <1>11, <1>12 DEF AppStep

\* Every step preserves it.
LEMMA AppInvNext == AppInv /\ [Next]_vars => AppInv'
<1>1. AppInv /\ UNCHANGED appVars => AppInv'
    BY DEF appVars, AppInv, HooksAreInStep, ExitIsLate, PhasesAreComplete
<1> QED
    BY <1>1, AppSteps, AppInvStep

\* For any number of subsystems: they go through the phases in step,
\* EXIT_SUCCESS means all of them through all, and exceptions fail the run.
THEOREM PhasesComplete == Spec => []PhasesAreComplete
<1>1. AppInv => PhasesAreComplete
    BY DEF AppInv
<1> QED
    BY AppInitially, AppInvNext, <1>1, PTL DEF Spec

-----------------------------------------------------------------------------
(* Jobs and threads.                                                       *)

\* Who is who among the threads.
LEMMA ThreadFacts ==
    /\ Main = 0 /\ SubsystemsNum \in Nat
    /\ Waiter = SubsystemsNum + 1 /\ Main \in Threads /\ Waiter \in Threads
    /\ \A s \in Subsystems : s \in Nat /\ s >= 1 /\ s <= SubsystemsNum /\ s \in Threads
    /\ \A t \in Threads : t \in Nat /\ (t = Main \/ t \in Subsystems \/ t = Waiter)
    BY ServiceAssumption, SubsystemsNumAssumption DEF Waiter, Subsystems

\* At first Main is alone and has nothing to do.
LEMMA ControlInit == Init => ControlInv
    BY ThreadFacts
    DEF Init, AppInit, SignalInit, ControlInv, Jobs, JobsHavePlaces, ThreadsHavePlaces, Before

\* What the invariant is about.
controlVars == <<phase, at, exit, instance, alive, job, loaded>>

\* A step that leaves that alone preserves it.
LEMMA ControlKept == ControlInv /\ UNCHANGED controlVars => ControlInv'
    BY DEF controlVars, ControlInv, JobsHavePlaces, ThreadsHavePlaces

\* An exception leaves no waiting thread behind.
LEMMA ControlThrows ==
    ASSUME AppInv, ControlInv, Throws, Main \in alive', alive' \subseteq Threads \ {Waiter}
    PROVE  ControlInv'
<1>1. /\ phase \in DOMAIN NextPhase \cup {"finalize"}
      /\ phase' = "destroy" /\ exit' = "failure" /\ job' = "none"
      /\ UNCHANGED <<instance, loaded>>
    BY DEF Throws, throw, enter, choices
<1>2. instance
    BY <1>1, PhaseFacts DEF ControlInv, ThreadsHavePlaces
<1> QED
    BY <1>1, <1>2 DEF ControlInv, Jobs, JobsHavePlaces, ThreadsHavePlaces, Before

\* Main does not throw with the waiting thread there.
LEMMA ControlThrowsQuietly ==
    ASSUME AppInv, ControlInv, Throws, job \notin {"join", "unwind"}, UNCHANGED alive
    PROVE  ControlInv'
<1>1. Main \in alive' /\ alive' \subseteq Threads \ {Waiter}
    BY DEF ControlInv, ThreadsHavePlaces
<1> QED
    BY <1>1, ControlThrows

\* Construction, initialize() and setUp().
LEMMA ControlSetUp ==
    ASSUME AppInv, ControlInv,
           \/ constructService \/ constructMember \/ options
           \/ beginLoad \/ loadNext \/ endLoad \/ makeLogger \/ makeSinks
    PROVE  ControlInv'
<1>1. CASE constructService
    BY <1>1 DEF constructService, constructApplication, enter, signalVars, serviceVars,
                ControlInv, JobsHavePlaces, ThreadsHavePlaces, Before
<1>2. CASE constructMember
    <2>1. CASE construct(Main) /\ UNCHANGED <<appVars, serviceVars>>
        BY <1>2, <2>1, ControlKept DEF constructMember, construct, appVars, serviceVars, controlVars
    <2>2. CASE Throws /\ UNCHANGED signalVars
        BY <1>2, <2>2, ControlThrowsQuietly
        DEF constructMember, signalVars, ControlInv, JobsHavePlaces
    <2> QED
        BY <1>2, <2>1, <2>2 DEF constructMember
<1>3. CASE options
    <2>1. phase = "parseArgs" /\ job = "none" /\ UNCHANGED alive
        BY <1>3 DEF options, signalVars, ControlInv, Jobs, JobsHavePlaces
    <2>2. CASE Throws
        BY <2>1, <2>2, ControlThrowsQuietly
    <2>3. ASSUME NEW accepted \in BOOLEAN, parseArgs(accepted), UNCHANGED serviceVars
          PROVE  ControlInv'
        BY <2>1, <2>3 DEF parseArgs, enter, serviceVars, AppInv, ExitIsLate, Destruction,
                      ControlInv, JobsHavePlaces, ThreadsHavePlaces, Before
    <2> QED
        BY <1>3, <2>2, <2>3 DEF options
<1>4. CASE beginLoad
    <2>1. phase = "initialize" /\ job = "none" /\ UNCHANGED alive
        BY <1>4 DEF beginLoad, signalVars
    <2>2. CASE Throws
        BY <2>1, <2>2, ControlThrowsQuietly
    <2>3. CASE job' = "load" /\ UNCHANGED <<appVars, choices, loaded>>
        BY <2>1, <2>3 DEF appVars, choices, ControlInv, Jobs, JobsHavePlaces, ThreadsHavePlaces
    <2> QED
        BY <1>4, <2>2, <2>3 DEF beginLoad
<1>5. CASE loadNext
    <2>1. job = "load" /\ UNCHANGED alive
        BY <1>5 DEF loadNext, signalVars
    <2>2. CASE UNCHANGED <<appVars, serviceVars>>
        BY <2>1, <2>2, ControlKept DEF appVars, serviceVars, controlVars
    <2>3. CASE Throws
        BY <2>1, <2>3, ControlThrowsQuietly
    <2>4. CASE phase = "proceed" /\ job' = "unwind" /\ UNCHANGED <<appVars, choices, loaded>>
        BY <2>1, <2>4 DEF appVars, choices, ControlInv, Jobs, JobsHavePlaces, ThreadsHavePlaces
    <2> QED
        BY <1>5, <2>2, <2>3, <2>4 DEF loadNext
<1>6. CASE endLoad
    <2>1. /\ job = "load" /\ loaded' = TRUE /\ UNCHANGED alive
          /\ UNCHANGED <<appVars, choices>>
          /\ job' = IF phase = "initialize" THEN "none" ELSE "wait"
        BY <1>6 DEF endLoad, wait, signalVars
    <2> QED
        BY <2>1 DEF appVars, choices, ControlInv, Jobs, JobsHavePlaces, ThreadsHavePlaces
<1>7. CASE makeLogger
    <2>1. /\ job = "none" /\ phase = "initialize"
          /\ job' = "sinks" /\ UNCHANGED <<appVars, alive, choices, loaded>>
        BY <1>7 DEF makeLogger, LoggerIsDue, createLogger, signalVars
    <2> QED
        BY <2>1 DEF appVars, choices, ControlInv, Jobs, JobsHavePlaces, ThreadsHavePlaces
<1>8. CASE makeSinks
    <2>1. job = "sinks" /\ UNCHANGED alive
        BY <1>8 DEF makeSinks, addSinks, addSinksThrows, signalVars
    <2>2. CASE Throws
        <3>1. Main \in alive' /\ alive' \subseteq Threads \ {Waiter}
            BY <2>1 DEF ControlInv, ThreadsHavePlaces
        <3> QED
            BY <2>1, <2>2, <3>1, ControlThrows
    <2>3. CASE job' = "none" /\ UNCHANGED <<appVars, choices, loaded>>
        BY <2>1, <2>3 DEF appVars, choices, ControlInv, Jobs, JobsHavePlaces, ThreadsHavePlaces
    <2> QED
        BY <1>8, <2>2, <2>3 DEF makeSinks
<1> QED
    BY <1>1, <1>2, <1>3, <1>4, <1>5, <1>6, <1>7, <1>8

\* What a subsystem's function does with its thread.
LEMMA EffectFacts ==
    ASSUME ControlInv, NEW s \in Subsystems, Effect(s) \/ UNCHANGED signalVars
    PROVE  /\ Main \in alive' /\ alive' \subseteq alive \cup {s}
           /\ phase # "setUp" => alive' \subseteq alive
           /\ phase = "tearDown" /\ Effect(s) => s \notin alive'
           /\ phase \notin {"setUp", "tearDown"} => alive' = alive
    BY ThreadFacts DEF Effect, spawn, finish, signalVars, ControlInv, ThreadsHavePlaces

\* The functions of the subsystems, and the end of a phase.
LEMMA ControlHooks ==
    ASSUME AppInv, ControlInv,
           phaseEnds \/ \E s \in Subsystems : hook(s) \/ hookThrows(s)
    PROVE  ControlInv'
<1>1. ASSUME NEW s \in Subsystems, hook(s) PROVE ControlInv'
    <2>1. /\ job = "none" /\ loaded /\ phase \in DOMAIN Hook /\ s = at /\ at' = at + 1 /\ Effect(s)
          /\ UNCHANGED <<phase, exit, instance, job, loaded>>
        BY <1>1 DEF hook, Ready, callHook, serviceVars
    <2>2. Waiter \notin alive /\ exit = "none"
        BY <2>1, PhaseFacts DEF ControlInv, ThreadsHavePlaces, AppInv, ExitIsLate, Destruction
    <2>3. ThreadsHavePlaces'
        <3>1. Main \in alive' /\ alive' \subseteq Threads /\ Waiter \notin alive'
            <4>1. Main \in alive' /\ alive' \subseteq alive \cup {s}
                BY <2>1, EffectFacts
            <4>2. s \in Threads /\ s # Waiter
                BY ThreadFacts
            <4> QED
                BY <2>2, <4>1, <4>2 DEF ControlInv, ThreadsHavePlaces
        <3>2. phase \in Before \cup {"initialize", "finalize"} => alive' = {Main}
            BY <2>1, EffectFacts DEF ControlInv, ThreadsHavePlaces, Before
        <3>3. phase = "tearDown" => \A t \in alive' : t = Main \/ t >= at'
            <4>1. phase = "tearDown" => \A t \in alive' : t \in Nat /\ t # s /\ (t = Main \/ t >= s)
                BY <2>1, <3>1, EffectFacts, ThreadFacts DEF ControlInv, ThreadsHavePlaces
            <4> QED
                BY <2>1, <4>1, ThreadFacts
        <3> QED
            BY <2>1, <2>2, <3>1, <3>2, <3>3 DEF ControlInv, ThreadsHavePlaces
    <2> QED
        BY <2>1, <2>3 DEF ControlInv, JobsHavePlaces
<1>2. ASSUME NEW s \in Subsystems, hookThrows(s) PROVE ControlInv'
    <2>1. /\ job = "none" /\ Throws
          /\ Effect(s) \/ UNCHANGED signalVars
        BY <1>2 DEF hookThrows, Ready
    <2>2. Main \in alive' /\ alive' \subseteq Threads \ {Waiter}
        <3>1. Main \in alive' /\ alive' \subseteq alive \cup {s}
            BY <2>1, EffectFacts
        <3>2. s \in Threads /\ s # Waiter
            BY ThreadFacts
        <3> QED
            BY <2>1, <3>1, <3>2 DEF ControlInv, ThreadsHavePlaces
    <2> QED
        BY <2>1, <2>2, ControlThrows
<1>3. CASE phaseEnds
    <2>1. /\ job = "none" /\ loaded /\ phase # "proceed" /\ Waiter \notin alive
          /\ UNCHANGED <<instance, alive, job, loaded>>
        BY <1>3 DEF phaseEnds, Ready, endPhase, return, signalVars, serviceVars,
                    ControlInv, ThreadsHavePlaces
    <2>2. CASE endPhase
        <3>1. /\ phase \in {"initialize", "setUp", "tearDown"} /\ at > SubsystemsNum
              /\ phase' = NextPhase[phase] /\ at' = 1 /\ exit' = exit /\ exit = "none"
            BY <2>1, <2>2, PhaseFacts DEF endPhase, enter, AppInv, ExitIsLate, Destruction
        <3>2. phase = "tearDown" => alive = {Main}
            <4>1. \A t \in Subsystems : t # Main /\ ~(t >= at)
                BY <3>1, ThreadFacts DEF AppInv
            <4>2. \A t \in alive : t = Main \/ t \in Subsystems
                BY <2>1, ThreadFacts DEF ControlInv, ThreadsHavePlaces
            <4> QED
                BY <4>1, <4>2 DEF ControlInv, ThreadsHavePlaces
        <3> QED
            BY <2>1, <3>1, <3>2, PhaseFacts DEF ControlInv, JobsHavePlaces, ThreadsHavePlaces, Before
    <2>3. CASE return
        <3>1. phase = "finalize" /\ phase' = "destroy"
            BY <2>3 DEF return, enter
        <3> QED
            BY <2>1, <3>1 DEF ControlInv, JobsHavePlaces, ThreadsHavePlaces, Before
    <2> QED
        BY <1>3, <2>2, <2>3 DEF phaseEnds
<1> QED
    BY <1>1, <1>2, <1>3

\* proceed().
LEMMA ControlProceed ==
    ASSUME AppInv, ControlInv,
           \/ constructLocal \/ beginWait \/ afterWait \/ joinWaiter \/ proceedThrows \/ leave \/ unwind
    PROVE  ControlInv'
<1> USE DEF ControlInv
<1>1. CASE constructLocal
    <2>1. CASE construct(Main) /\ UNCHANGED <<appVars, serviceVars>>
        BY <1>1, <2>1, ControlKept DEF constructLocal, construct, appVars, serviceVars, controlVars
    <2>2. CASE Throws /\ UNCHANGED signalVars
        BY <1>1, <2>2, ControlThrowsQuietly DEF constructLocal, signalVars
    <2> QED
        BY <1>1, <2>1, <2>2 DEF constructLocal
<1>2. CASE beginWait
    <2>1. /\ phase = "proceed" /\ job = "none"
          /\ \/ job' = "join" /\ alive' = alive \cup {Waiter}
             \/ job' = "wait" /\ alive' = alive
          /\ UNCHANGED <<appVars, choices, loaded>>
        BY <1>2 DEF beginWait, asyncWaitFor, wait
    <2>2. exit = "none"
        BY <2>1 DEF AppInv, ExitIsLate, Destruction
    <2> QED
        BY <2>1, <2>2, ThreadFacts DEF appVars, choices, Jobs, JobsHavePlaces, ThreadsHavePlaces, Before
<1>3. CASE afterWait
    <2>1. /\ job = "wait" /\ job' \in {"leave", "load"}
          /\ UNCHANGED <<appVars, alive, choices, loaded>>
        BY <1>3 DEF afterWait, signalVars
    <2> QED
        BY <2>1 DEF appVars, choices, Jobs, JobsHavePlaces, ThreadsHavePlaces
<1>4. CASE joinWaiter
    <2>1. /\ job \in {"join", "unwind"} /\ job' \in {"leave", "unwind"} /\ alive' = alive \ {Waiter}
          /\ UNCHANGED <<appVars, choices, loaded>>
        BY <1>4 DEF joinWaiter, finish
    <2> QED
        BY <2>1, ThreadFacts DEF appVars, choices, Jobs, JobsHavePlaces, ThreadsHavePlaces
<1>5. CASE proceedThrows
    <2>1. /\ phase = "proceed" /\ job \in {"none", "join"} /\ job' = "unwind"
          /\ UNCHANGED <<appVars, alive, choices, loaded>>
        BY <1>5 DEF proceedThrows, signalVars
    <2> QED
        BY <2>1 DEF appVars, choices, Jobs, JobsHavePlaces, ThreadsHavePlaces
<1>6. CASE leave
    <2>1. /\ job = "leave" /\ job' = "none" /\ phase = "proceed" /\ phase' = "tearDown" /\ at' = 1
          /\ UNCHANGED <<instance, exit, alive, choices, loaded>>
        BY <1>6, PhaseFacts DEF leave, DestroyLocal, destroy, signalVars, endPhase, enter, JobsHavePlaces
    <2>2. exit = "none"
        BY <2>1 DEF AppInv, ExitIsLate, Destruction
    <2>3. \A t \in alive : t = Main \/ t >= 1
        BY ThreadFacts DEF ThreadsHavePlaces
    <2> QED
        BY <2>1, <2>2, <2>3 DEF choices, Jobs, JobsHavePlaces, ThreadsHavePlaces, Before
<1>7. CASE unwind
    <2>1. job = "unwind" /\ Waiter \notin alive /\ Throws /\ UNCHANGED alive
        BY <1>7 DEF unwind, DestroyLocal, destroy, signalVars
    <2>2. Main \in alive' /\ alive' \subseteq Threads \ {Waiter}
        BY <2>1 DEF ThreadsHavePlaces
    <2> QED
        BY <2>1, <2>2, ControlThrows
<1> QED
    BY <1>1, <1>2, <1>3, <1>4, <1>5, <1>6, <1>7

\* Destruction.
LEMMA ControlDestroy ==
    ASSUME AppInv, ControlInv,
           destroyMember \/ destroyBase \/ exitProcess \/ \E s \in Subsystems : destroyThread(s)
    PROVE  ControlInv'
<1> USE DEF ControlInv
<1>1. CASE destroyMember
    BY <1>1, ControlKept DEF destroyMember, destroy, appVars, serviceVars, controlVars
<1>2. CASE destroyBase
    BY <1>2 DEF destroyBase, destroyApplication, enter, signalVars, serviceVars,
                JobsHavePlaces, ThreadsHavePlaces, Before
<1>3. CASE exitProcess
    BY <1>3 DEF exitProcess, endMain, enter, serviceVars,
                JobsHavePlaces, ThreadsHavePlaces, Before
<1>4. ASSUME NEW s \in Subsystems, destroyThread(s) PROVE ControlInv'
    <2>1. /\ phase = "destroySubsystems" /\ alive' = alive \ {s} /\ s # Main
          /\ UNCHANGED <<phase, exit, instance, serviceVars>>
        BY <1>4, ThreadFacts DEF destroyThread, destroySubsystem, finish
    <2> QED
        BY <2>1 DEF serviceVars, JobsHavePlaces, ThreadsHavePlaces,
                    Before
<1> QED
    BY <1>1, <1>2, <1>3, <1>4

\* The threads other than Main, and others.
LEMMA ControlOthers ==
    ASSUME ControlInv, waitReturns(Main) \/ WaiterThread \/ Others
    PROVE  ControlInv'
<1>1. CASE waitReturns(Main) \/ WaiterThread
    BY <1>1, ControlKept DEF WaiterThread, waitReturns, wake, waiterWaitsAgain, wait, appVars, serviceVars, controlVars
<1>2. ASSUME NEW sig \in Signals, raise(sig), UNCHANGED <<appVars, serviceVars>> PROVE ControlInv'
    BY <1>2, ControlKept DEF raise, appVars, serviceVars, controlVars
<1>3. ASSUME UNCHANGED <<appVars, signalVars, serviceVars>> PROVE ControlInv'
    BY <1>3, ControlKept DEF appVars, signalVars, serviceVars, controlVars
<1> QED
    BY <1>1, <1>2, <1>3 DEF Others

\* Every step preserves it.
LEMMA ControlNext == AppInv /\ ControlInv /\ [Next]_vars => ControlInv'
<1> SUFFICES ASSUME AppInv, ControlInv, [Next]_vars PROVE ControlInv'
    OBVIOUS
<1>1. CASE UNCHANGED vars
    BY <1>1, ControlKept DEF vars, appVars, signalVars, serviceVars, controlVars
<1>2. CASE Next
    BY <1>2, ControlSetUp, ControlHooks, ControlProceed, ControlDestroy, ControlOthers DEF Next, MainThread
<1> QED
    BY <1>1, <1>2

\* For any number of subsystems: a thread of theirs outlives s_instance only
\* in a run that failed.
THEOREM InstanceOutlivesThreads == Spec => []InstanceIsThere
<1> DEFINE Inv == AppInv /\ ControlInv
<1>1. Init => Inv
    BY AppInitially, ControlInit
<1>2. Inv /\ [Next]_vars => Inv'
    BY AppInvNext, ControlNext
<1>3. Inv => InstanceIsThere
    BY DEF AppInv, ExitIsLate, ControlInv, ThreadsHavePlaces, InstanceIsThere, Before, Destruction
<1> QED
    BY <1>1, <1>2, <1>3, PTL DEF Spec

-----------------------------------------------------------------------------
(* Signals.                                                                *)

\* What a step of the service is for the signals, and where Main then is.
SignalStep ==
    \/ UNCHANGED signalVars
    \/ construct(Main) /\ UNCHANGED phase /\ phase \in {"parseArgs", "proceed"}
    \/ destroy(Main) /\ (exit' = "success" => exit = "success")
    \/ \E t \in {Main, Waiter} : wait(t) /\ phase = "proceed" /\ UNCHANGED <<phase, exit>> /\ job' # "leave"
    \/ \E t \in {Main, Waiter}, sig \in Set : wake(t, sig)
    \/ asyncWaitFor(Main, Waiter)
    \/ \E sig \in Signals : raise(sig) /\ UNCHANGED exit
    \/ \E t \in Threads \ {Main} : spawn(Main, t) \/ finish(t)
    \/ process' = "exited" /\ UNCHANGED <<handler, alive, mask, kernelVars>>

\* Every step of the service is one of these, and does not change its mind
\* about the handler.
LEMMA SignalSteps ==
    ASSUME AppInv, ControlInv, [Next]_vars
    PROVE  SignalStep /\ UNCHANGED early
<1>1. CASE UNCHANGED vars
    BY <1>1 DEF vars, serviceVars, SignalStep
<1>2. ASSUME Throws PROVE UNCHANGED early /\ exit' = "failure"
    BY <1>2 DEF Throws, throw, choices
<1>3. CASE \/ constructService \/ options \/ beginLoad \/ loadNext \/ makeLogger \/ makeSinks \/ phaseEnds
           \/ afterWait \/ proceedThrows \/ destroyBase
    BY <1>2, <1>3 DEF constructService, options, beginLoad, loadNext, makeLogger, makeSinks, phaseEnds, afterWait,
        proceedThrows, destroyBase, serviceVars, choices, SignalStep
<1>4. CASE constructMember \/ constructLocal
    <2>1. phase \in {"parseArgs", "proceed"}
        BY <1>4 DEF constructMember, constructLocal
    <2>2. CASE construct(Main) /\ UNCHANGED <<appVars, serviceVars>>
        BY <2>1, <2>2 DEF appVars, serviceVars, SignalStep
    <2>3. CASE Throws /\ UNCHANGED signalVars
        BY <1>2, <2>3 DEF SignalStep
    <2> QED
        BY <1>4, <2>2, <2>3 DEF constructMember, constructLocal
<1>5. CASE endLoad
    <2>1. phase \in {"initialize", "proceed"} /\ UNCHANGED <<phase, exit, early>>
        BY <1>5 DEF endLoad, ControlInv, JobsHavePlaces, appVars, choices
    <2> QED
        BY <1>5, <2>1 DEF endLoad, SignalStep
<1>6. ASSUME NEW s \in Subsystems, hook(s) \/ hookThrows(s) \/ destroyThread(s)
      PROVE  SignalStep /\ UNCHANGED early
    <2>1. s \in Threads \ {Main}
        BY ThreadFacts
    <2>2. UNCHANGED early
        BY <1>2, <1>6 DEF hook, hookThrows, destroyThread, serviceVars
    <2>3. UNCHANGED signalVars \/ spawn(Main, s) \/ finish(s)
        BY <1>6 DEF hook, hookThrows, destroyThread, Effect
    <2> QED
        BY <2>1, <2>2, <2>3 DEF SignalStep
<1>7. CASE beginWait
    BY <1>7 DEF beginWait, appVars, choices, SignalStep
<1>8. CASE waitReturns(Main) \/ waitReturns(Waiter)
    BY <1>8 DEF waitReturns, serviceVars, SignalStep
<1>9. CASE waiterWaitsAgain
    <2>1. wait(Waiter) /\ phase = "proceed" /\ job # "leave" /\ UNCHANGED <<phase, exit, job, early>>
        BY <1>9 DEF waiterWaitsAgain, ControlInv, ThreadsHavePlaces, appVars, serviceVars
    <2> QED
        BY <2>1 DEF SignalStep
<1>10. CASE joinWaiter
    <2>1. Waiter \in Threads \ {Main}
        BY ThreadFacts
    <2> QED
        BY <1>10, <2>1 DEF joinWaiter, choices, SignalStep
<1>11. CASE leave
    <2>1. UNCHANGED <<exit, early>>
        BY <1>11 DEF leave, endPhase, choices
    <2> QED
        BY <1>11, <2>1 DEF leave, DestroyLocal, SignalStep
<1>12. CASE unwind
    BY <1>2, <1>12 DEF unwind, DestroyLocal, SignalStep
<1>13. CASE destroyMember
    BY <1>13 DEF destroyMember, appVars, serviceVars, SignalStep
<1>14. CASE exitProcess
    BY <1>14 DEF exitProcess, serviceVars, SignalStep
<1>15. CASE Others
    BY <1>15 DEF Others, appVars, serviceVars, SignalStep
<1> QED
    BY <1>1, <1>3, <1>4, <1>5, <1>6, <1>7, <1>8, <1>9, <1>10, <1>11, <1>12, <1>13, <1>14, <1>15
    DEF Next, MainThread, WaiterThread

\* A step with which the phase changes, after which the early handler is there
\* if the phases have begun.
PhaseStep ==
    \/ phase' \in Destruction
    \/ phase = "construct" /\ phase' = "parseArgs"
    \/ phase = "parseArgs" /\ phase' = "initialize" /\ (early => handler = "alive")
    \/ phase \in {"initialize", "setUp", "proceed", "tearDown"} /\ phase' = NextPhase[phase]

\* The phase changes as the table says, and Main gets past the wait only when
\* that has returned a signal.
LEMMA PhaseSteps ==
    ASSUME AppInv, ControlInv, [Next]_vars
    PROVE  /\ phase' = phase \/ PhaseStep
           /\ Past' => Past \/ signum \in Accepts
<1> DEFINE Goal == (phase' = phase \/ PhaseStep) /\ (Past' => Past \/ signum \in Accepts)
<1> SUFFICES Goal
    OBVIOUS
<1>1. ASSUME UNCHANGED <<phase, exit>>, job' = "leave" => job = "leave" PROVE Goal
    BY <1>1 DEF Past
<1>2. ASSUME Throws PROVE Goal
    <2>1. phase' = "destroy" /\ exit' = "failure" /\ job' = "none"
        BY <1>2 DEF Throws, throw, enter
    <2> QED
        BY <2>1 DEF PhaseStep, Past, Destruction
<1>3. CASE UNCHANGED vars
    BY <1>1, <1>3 DEF vars, appVars, serviceVars
<1>4. CASE constructService \/ destroyBase \/ exitProcess
    BY <1>4 DEF constructService, constructApplication, destroyBase, destroyApplication, exitProcess, endMain,
                enter, serviceVars, PhaseStep, Past, Destruction
<1>5. CASE options
    <2>1. CASE UNCHANGED serviceVars /\ \E accepted \in BOOLEAN : parseArgs(accepted)
        BY <1>5, <2>1 DEF options, parseArgs, enter, serviceVars, PhaseStep, Past, Destruction
    <2> QED
        BY <1>2, <1>5, <2>1 DEF options
<1>6. CASE constructMember \/ constructLocal
    BY <1>1, <1>2, <1>6 DEF constructMember, constructLocal, appVars, serviceVars
<1>7. CASE beginLoad \/ loadNext \/ endLoad \/ makeLogger \/ makeSinks \/ beginWait \/ proceedThrows
    BY <1>1, <1>2, <1>7 DEF beginLoad, loadNext, endLoad, makeLogger, makeSinks, beginWait, proceedThrows,
                            appVars, serviceVars
<1>8. ASSUME NEW s \in Subsystems, hook(s) \/ hookThrows(s) \/ destroyThread(s) PROVE Goal
    BY <1>1, <1>2, <1>8 DEF hook, callHook, hookThrows, destroyThread, destroySubsystem, serviceVars
<1>9. CASE phaseEnds
    <2>1. phase # "proceed" /\ UNCHANGED job /\ (endPhase \/ return)
        BY <1>9 DEF phaseEnds, serviceVars
    <2>2. CASE endPhase
        BY <2>1, <2>2, PhaseFacts DEF endPhase, enter, PhaseStep, Past
    <2>3. CASE return
        BY <2>1, <2>3 DEF return, enter, PhaseStep, Past, Destruction
    <2> QED
        BY <2>1, <2>2, <2>3
<1>10. CASE afterWait \/ joinWaiter
    BY <1>10 DEF afterWait, joinWaiter, appVars, Returned, Past
<1>11. CASE leave
    BY <1>11, PhaseFacts DEF leave, endPhase, enter, PhaseStep, Past
<1>12. CASE unwind
    BY <1>2, <1>12 DEF unwind
<1>13. CASE waitReturns(Main) \/ destroyMember \/ WaiterThread
    BY <1>1, <1>13 DEF waitReturns, destroyMember, WaiterThread, waiterWaitsAgain, appVars, serviceVars
<1>14. CASE Others
    BY <1>1, <1>14 DEF Others, appVars, serviceVars
<1> QED
    BY <1>3, <1>4, <1>5, <1>6, <1>7, <1>8, <1>9, <1>10, <1>11, <1>12, <1>13, <1>14 DEF Next, MainThread

\* At first no signal has been sent, and none is blocked.
LEMMA SignalInitially == Init => SignalInv
    BY ThreadFacts
    DEF Init, AppInit, SignalInit, SignalInv, MaskIsInherited, SignalsAreCounted, HandlerProtects,
        OneSignalIsGraceful, Past, Before

\* A thread blocks what the thread that created it does.
LEMMA MaskStep ==
    ASSUME AppInv, ControlInv, MaskIsInherited, SignalStep, UNCHANGED early, phase' = phase \/ PhaseStep
    PROVE  MaskIsInherited'
<1> USE SignalAssumption, ThreadFacts
<1>1. mask' \in [Threads -> SUBSET Signals]
    BY DEF MaskIsInherited, SignalStep, signalVars, construct, destroy, wait, wake, asyncWaitFor, raise, spawn,
           finish
<1>2. handler' = "none" => handler = "none"
    BY DEF SignalStep, signalVars, construct, destroy, wait, wake, asyncWaitFor, raise, spawn, finish
<1>3. phase' = "construct" => handler' = "none"
    <2>1. phase' = "construct" => phase = "construct"
        BY PhaseFacts DEF PhaseStep, Destruction
    <2> QED
        BY <2>1 DEF MaskIsInherited, SignalStep, signalVars, construct, destroy, wait, wake, asyncWaitFor, raise,
                    spawn, finish
<1>4. early' /\ handler' = "none" => phase' \in Before \cup Destruction
    BY <1>2 DEF MaskIsInherited, PhaseStep, Before, Destruction
<1>5. ASSUME early', handler' = "alive", NEW t \in alive' PROVE Set \subseteq mask'[t]
    <2>1. CASE construct(Main) /\ phase \in {"parseArgs", "proceed"}
        <3>1. alive' = {Main}
            BY <1>5, <2>1 DEF construct, MaskIsInherited, ControlInv, ThreadsHavePlaces, Before, Destruction
        <3> QED
            BY <2>1, <3>1 DEF construct, MaskIsInherited
    <2>2. ASSUME NEW new \in Threads, alive' = alive \cup {new}, mask' = [mask EXCEPT ![new] = mask[Main]],
                 UNCHANGED handler
          PROVE  Set \subseteq mask'[t]
        <3>1. Main \in alive /\ alive \subseteq Threads
            BY DEF ControlInv, ThreadsHavePlaces
        <3>2. \A r \in alive : Set \subseteq mask[r]
            BY <1>5, <2>2 DEF MaskIsInherited
        <3> QED
            BY <1>5, <2>2, <3>1, <3>2 DEF MaskIsInherited
    <2>3. CASE asyncWaitFor(Main, Waiter)
        BY <2>2, <2>3 DEF asyncWaitFor
    <2>4. ASSUME NEW new \in Threads, spawn(Main, new) PROVE Set \subseteq mask'[t]
        BY <2>2, <2>4 DEF spawn
    <2>5. ASSUME UNCHANGED <<handler, mask>>, alive' \subseteq alive PROVE Set \subseteq mask'[t]
        BY <1>5, <2>5 DEF MaskIsInherited
    <2>6. ~destroy(Main)
        BY <1>5 DEF destroy
    <2> QED
        BY <2>1, <2>3, <2>4, <2>5, <2>6 DEF SignalStep, signalVars, wait, wake, raise, finish
<1> QED
    BY <1>1, <1>3, <1>4, <1>5 DEF MaskIsInherited

\* Signals are counted when they are sent, and leave pending one by one.
LEMMA CountStep ==
    ASSUME AppInv, SignalsAreCounted, SignalStep, Past' => Past \/ signum \in Accepts
    PROVE  SignalsAreCounted'
<1> USE SignalAssumption
<1>1. /\ Past' => signum # NoSignal
      /\ raises \in Nat
    BY DEF SignalsAreCounted
<1>2. ASSUME UNCHANGED <<pending, signum, raises>> PROVE SignalsAreCounted'
    BY <1>1, <1>2 DEF SignalsAreCounted
<1>3. ASSUME NEW t \in {Main, Waiter}, wait(t), phase = "proceed", UNCHANGED <<phase, exit>>, job' # "leave"
      PROVE  SignalsAreCounted'
    <2>1. ~Past'
        BY <1>3 DEF Past, AppInv, ExitIsLate, Destruction
    <2> QED
        BY <1>3, <2>1 DEF wait, SignalsAreCounted
<1>4. ASSUME NEW t \in {Main, Waiter}, NEW sig \in Set, wake(t, sig) PROVE SignalsAreCounted'
    <2>1. sig \in pending /\ pending' = pending \ {sig} /\ signum' = sig /\ signum' # NoSignal /\ raises' = raises
        BY <1>4 DEF wake
    <2>2. raises >= 1 /\ (pending' # {} => raises >= 2)
        BY <2>1 DEF SignalsAreCounted
    <2> QED
        BY <1>1, <2>1, <2>2 DEF SignalsAreCounted
<1>5. ASSUME NEW sig \in Signals, raise(sig) PROVE SignalsAreCounted'
    <2>1. raises' = raises + 1 /\ pending' \subseteq pending \cup {sig} /\ signum' = signum
        BY <1>5 DEF raise
    <2>2. \A a, b \in pending' : a # b => raises' >= 2
        BY <1>1, <2>1 DEF SignalsAreCounted
    <2> QED
        BY <1>1, <2>1, <2>2 DEF SignalsAreCounted
<1> QED
    BY <1>2, <1>3, <1>4, <1>5 DEF SignalStep, signalVars, kernelVars, construct, destroy, asyncWaitFor, spawn, finish

\* Every step preserves it.
LEMMA SignalNext == AppInv /\ ControlInv /\ SignalInv /\ [Next]_vars => SignalInv'
<1> SUFFICES ASSUME AppInv, ControlInv, SignalInv, [Next]_vars PROVE SignalInv'
    OBVIOUS
<1>1. MaskIsInherited' /\ SignalsAreCounted'
    BY SignalSteps, PhaseSteps, MaskStep, CountStep DEF SignalInv
<1>2. CASE UNCHANGED vars
    BY <1>1, <1>2 DEF vars, appVars, signalVars, serviceVars, SignalInv, HandlerProtects, OneSignalIsGraceful
<1>3. CASE Next /\ process' = "killed"
    <2>1. process = "running" /\ early' = early
        BY <1>3, SignalSteps DEF Next
    <2>2. \/ destroy(Main) /\ (exit' = "success" => exit = "success")
          \/ \E sig \in Signals : raise(sig) /\ UNCHANGED exit
        BY <1>3, <2>1, SignalSteps
        DEF SignalStep, signalVars, construct, wait, wake, asyncWaitFor, spawn, finish
    <2>3. CASE destroy(Main) /\ (exit' = "success" => exit = "success")
        <3>1. handler' = "destroyed" /\ pending # {} /\ raises' = raises
            BY <1>3, <2>1, <2>3 DEF destroy, kernelVars
        <3>2. exit' = "success" => raises' >= 2
            BY <2>3, <3>1 DEF SignalInv, SignalsAreCounted, Past
        <3>3. raises' \in Nat
            BY <1>1 DEF SignalsAreCounted
        <3> QED
            BY <1>1, <3>1, <3>2, <3>3 DEF SignalInv, HandlerProtects, OneSignalIsGraceful
    <2>4. ASSUME NEW sig \in Signals, raise(sig), UNCHANGED exit PROVE SignalInv'
        <3>1. /\ raises' = raises + 1 /\ sig \in raised' /\ handler' = handler
              /\ \E t \in alive : sig \notin mask[t]
            BY <1>3, <2>1, <2>4 DEF raise
        <3>2. HandlerProtects'
            BY <2>1, <3>1 DEF SignalInv, MaskIsInherited, HandlerProtects
        <3>3. exit' = "success" => raises >= 1
            BY <2>4 DEF SignalInv, SignalsAreCounted, Past
        <3>4. OneSignalIsGraceful'
            BY <3>1, <3>3 DEF SignalInv, SignalsAreCounted, OneSignalIsGraceful
        <3> QED
            BY <1>1, <3>2, <3>4 DEF SignalInv
    <2> QED
        BY <2>2, <2>3, <2>4
<1>4. CASE process' # "killed"
    BY <1>1, <1>4 DEF SignalInv, HandlerProtects, OneSignalIsGraceful
<1> QED
    BY <1>2, <1>3, <1>4

\* For any number of subsystems and any signals: those of a handler that is
\* constructed before all threads do not kill the process while it is alive,
\* because the threads inherit the mask.
THEOREM HandlerIsProtection == Spec => []HandlerProtects
<1> DEFINE Inv == AppInv /\ ControlInv /\ SignalInv
<1>1. Init => Inv
    BY AppInitially, ControlInit, SignalInitially
<1>2. Inv /\ [Next]_vars => Inv'
    BY AppInvNext, ControlNext, SignalNext
<1>3. Inv => HandlerProtects
    BY DEF SignalInv
<1> QED
    BY <1>1, <1>2, <1>3, PTL DEF Spec

\* For any number of signals: the one that ends proceed() does not kill the
\* process that has come to EXIT_SUCCESS, when the handler's destructor
\* unblocks it.
THEOREM OneSignalEndsGracefully == Spec => []OneSignalIsGraceful
<1> DEFINE Inv == AppInv /\ ControlInv /\ SignalInv
<1>1. Init => Inv
    BY AppInitially, ControlInit, SignalInitially
<1>2. Inv /\ [Next]_vars => Inv'
    BY AppInvNext, ControlNext, SignalNext
<1>3. Inv => OneSignalIsGraceful
    BY DEF SignalInv
<1> QED
    BY <1>1, <1>2, <1>3, PTL DEF Spec

-----------------------------------------------------------------------------
(* The configuration.                                                      *)

\* What Main, and who edits the files, do to the configuration.
ConfigStep ==
    \/ loadBegin
    \/ \E f \in Files : loadConfigFile(f) \/ loadFails(f)
    \/ \E f \in Files, content \in Contents \cup {Absent, Malformed} : edit(f, content)
    \/ UNCHANGED configVars

\* A step of the service is at most one of the configuration.
LEMMA ConfigSteps == [Next]_vars => ConfigStep
<1> SUFFICES ASSUME Next PROVE ConfigStep
    BY DEF vars, ConfigStep
<1> USE DEF ConfigStep
<1>1. CASE constructService \/ constructMember \/ options
    BY <1>1 DEF constructService, constructMember, options, Quiet
<1>2. CASE beginLoad \/ loadNext \/ endLoad \/ makeLogger \/ makeSinks
    BY <1>2 DEF beginLoad, loadNext, loadThrows, endLoad, makeLogger, makeSinks, Quiet
<1>3. CASE \E s \in Subsystems : hook(s) \/ hookThrows(s) \/ destroyThread(s)
    BY <1>3 DEF hook, hookThrows, destroyThread, Quiet
<1>4. CASE phaseEnds
    BY <1>4 DEF phaseEnds, Quiet
<1>5. CASE \/ constructLocal \/ beginWait \/ waitReturns(Main) \/ afterWait \/ joinWaiter
           \/ proceedThrows \/ leave \/ unwind
    BY <1>5 DEF constructLocal, beginWait, waitReturns, afterWait, joinWaiter, proceedThrows, leave, unwind, Quiet
<1>6. CASE destroyMember \/ destroyBase \/ exitProcess
    BY <1>6 DEF destroyMember, destroyBase, exitProcess, Quiet
<1>7. CASE WaiterThread \/ Others
    BY <1>7 DEF WaiterThread, Others, waitReturns, waiterWaitsAgain, Quiet
<1> QED
    BY <1>1, <1>2, <1>3, <1>4, <1>5, <1>6, <1>7 DEF Next, MainThread

\* What std::ranges::find returns.
LEMMA PositionFacts ==
    ASSUME NEW f
    PROVE  Position(f) \in 1..5 /\ (Position(f) # 5 => order[Position(f)] = f.stem)
<1>1. CASE \E i \in 1..4 : order[i] = f.stem
    <2> DEFINE First(i) == order[i] = f.stem /\ \A j \in 1..(i - 1) : order[j] # f.stem
    <2>1. \E i \in 1..4 : First(i)
        <3>1. CASE order[1] = f.stem
            BY <3>1
        <3>2. CASE order[1] # f.stem /\ order[2] = f.stem
            BY <3>2
        <3>3. CASE order[1] # f.stem /\ order[2] # f.stem /\ order[3] = f.stem
            BY <3>3
        <3>4. CASE order[1] # f.stem /\ order[2] # f.stem /\ order[3] # f.stem
            BY <1>1, <3>4
        <3> QED
            BY <3>1, <3>2, <3>3, <3>4
    <2>2. Position(f) = CHOOSE i \in 1..4 : First(i)
        BY <1>1 DEF Position
    <2>3. Position(f) \in 1..4 /\ First(Position(f))
        BY <2>1, <2>2
    <2> QED
        BY <2>3
<1>2. CASE ~\E i \in 1..4 : order[i] = f.stem
    BY <1>2 DEF Position
<1> QED
    BY <1>1, <1>2

\* The comparator is the order in which files override each other, and tells
\* all JSON files of a directory apart.
LEMMA ComparatorFacts ==
    ASSUME NEW f \in Files, NEW g \in Files
    PROVE  /\ comparator(f, g) <=> Overrides(g, f)
           /\ f.json /\ g.json => f = g \/ comparator(f, g) \/ comparator(g, f)
<1>1. /\ Position(f) \in 1..5 /\ Position(g) \in 1..5
      /\ f.path \in Nat /\ g.path \in Nat /\ (f.path = g.path => f = g)
    BY PositionFacts, FilesAssumption
<1>2. f.json /\ g.json /\ Position(f) = Position(g) /\ Position(f) # 5 => f = g
    BY PositionFacts, FilesAssumption
<1> QED
    BY <1>1, <1>2 DEF comparator, Overrides

\* Nothing is read or set at first.
LEMMA ConfigInitially == Init => ConfigInv
    BY DisksAssumption
    DEF Init, ConfigInit, ConfigInv, FilesAreInOrder, ValuesAreNormalized, LastFileWins, Defines

\* The list of files, which nothing has been read of.
LEMMA ConfigBegin ==
    ASSUME ConfigInv, loadBegin
    PROVE  ConfigInv'
<1>1. /\ read' = [f \in Files |-> Unset] /\ todo' \subseteq Files
      /\ UNCHANGED <<values, dir, disk, edits>>
    BY DEF loadBegin, getAllFiles
<1>2. \A f \in Files, k \in Keys : ~Defines(read'[f], k)
    BY <1>1 DEF Defines
<1> QED
    BY <1>1, <1>2 DEF ConfigInv, FilesAreInOrder, ValuesAreNormalized, LastFileWins

\* A file that is read overrides the files before it, and no file after it.
LEMMA ConfigRead ==
    ASSUME ConfigInv, NEW f \in Files, loadConfigFile(f), f.json
    PROVE  ConfigInv'
<1>1. /\ f \in todo /\ todo' = todo \ {f} /\ \A g \in todo : ~comparator(g, f)
      /\ values' = [k \in Keys |-> IF Defines(disk[f], k)
            THEN [from |-> f, v |-> normalizeConfigValue(disk[f][k])] ELSE values[k]]
      /\ read' = [read EXCEPT ![f] = disk[f]]
      /\ UNCHANGED <<dir, disk, edits>>
    BY DEF loadConfigFile, Turn
<1>2. /\ read[f] = Unset /\ read'[f] = disk[f] /\ DOMAIN read' = Files
      /\ \A g \in Files \ {f} : read'[g] = read[g]
    BY <1>1 DEF ConfigInv, FilesAreInOrder
<1>3. FilesAreInOrder'
    BY <1>1, <1>2 DEF ConfigInv, FilesAreInOrder
<1>4. ValuesAreNormalized'
    <2> SUFFICES ASSUME NEW k \in Keys, values'[k] # Unset
                 PROVE  /\ values'[k].from \in Files
                        /\ Defines(read'[values'[k].from], k) =>
                              values'[k].v = normalizeConfigValue(read'[values'[k].from][k])
        BY DEF ValuesAreNormalized
    <2>1. CASE Defines(disk[f], k)
        BY <1>1, <1>2, <2>1
    <2>2. CASE ~Defines(disk[f], k)
        <3>1. values'[k] = values[k]
            BY <1>1, <2>2
        <3> QED
            BY <1>2, <2>2, <3>1 DEF ConfigInv, ValuesAreNormalized
    <2> QED
        BY <2>1, <2>2
<1>5. LastFileWins'
    <2> SUFFICES ASSUME NEW k \in Keys, NEW h \in Files, Defines(read'[h], k),
                        \A g \in Files : Defines(read'[g], k) => ~Overrides(g, h)
                 PROVE  values'[k] # Unset /\ values'[k].from = h
        BY DEF LastFileWins
    <2>1. CASE Defines(disk[f], k)
        <3>1. h = f
            <4> SUFFICES ASSUME h # f PROVE FALSE
                OBVIOUS
            <4>1. read[h] # Unset
                BY <1>2 DEF Defines
            <4>2. ~comparator(f, h) /\ h.json
                BY <1>1, <4>1 DEF ConfigInv, FilesAreInOrder
            <4>3. ~comparator(h, f)
                BY <1>2, <2>1, ComparatorFacts
            <4> QED
                BY <4>2, <4>3, ComparatorFacts
        <3>2. disk[f] \in Contents /\ disk[f][k] # Unset
            BY <2>1 DEF ConfigInv, Defines
        <3>3. values'[k] = [from |-> f, v |-> normalizeConfigValue(disk[f][k])]
            BY <1>1, <2>1
        <3> QED
            BY <3>1, <3>2, <3>3, UnsetAssumption
    <2>2. CASE ~Defines(disk[f], k)
        <3>1. values'[k] = values[k] /\ h # f
            BY <1>1, <1>2, <2>2
        <3>2. Defines(read[h], k)
            BY <1>2, <3>1
        <3>3. \A g \in Files : Defines(read[g], k) => ~Overrides(g, h)
            BY <1>2 DEF Defines
        <3> QED
            BY <3>1, <3>2, <3>3 DEF ConfigInv, LastFileWins
    <2> QED
        BY <2>1, <2>2
<1> QED
    BY <1>1, <1>2, <1>3, <1>4, <1>5 DEF ConfigInv

\* Every step preserves it.
LEMMA ConfigNext == ConfigInv /\ [Next]_vars => ConfigInv'
<1> SUFFICES ASSUME ConfigInv, ConfigStep PROVE ConfigInv'
    BY ConfigSteps
<1>1. ASSUME todo' \subseteq todo, UNCHANGED <<values, read>>, edits' \in Nat,
             disk' \in [Files -> Contents \cup {Absent, Malformed}]
      PROVE  ConfigInv'
    BY <1>1 DEF ConfigInv, FilesAreInOrder, ValuesAreNormalized, LastFileWins
<1>2. ASSUME NEW f \in Files, loadConfigFile(f), ~f.json PROVE ConfigInv'
    BY <1>1, <1>2 DEF loadConfigFile, ConfigInv
<1>3. ASSUME NEW f \in Files, loadFails(f) PROVE ConfigInv'
    BY <1>1, <1>3 DEF loadFails, ConfigInv
<1>4. ASSUME NEW f \in Files, NEW content \in Contents \cup {Absent, Malformed}, edit(f, content)
      PROVE  ConfigInv'
    BY <1>1, <1>4 DEF edit, ConfigInv
<1>5. CASE UNCHANGED configVars
    BY <1>1, <1>5 DEF configVars, ConfigInv
<1> QED
    BY <1>2, <1>3, <1>4, <1>5, ConfigBegin, ConfigRead DEF ConfigStep

\* For any files, contents and edits: a key has the value of the last file in
\* the order that has been read and defines it.
THEOREM LaterFilesOverride == Spec => []LastFileWins
<1>1. ConfigInv => LastFileWins
    BY DEF ConfigInv
<1> QED
    BY ConfigInitially, ConfigNext, <1>1, PTL DEF Spec

\* For any files and contents: a number that fits is what pick() returns.
THEOREM NumbersComeThrough == Spec => []NumbersAreKept
<1>1. ASSUME ConfigInv PROVE NumbersAreKept
    <2> SUFFICES ASSUME NEW k \in Keys, has(k), Defines(read[values[k].from], k),
                        read[values[k].from][k].type \in {"integer", "unsigned"},
                        read[values[k].from][k].n < 2^(Width - 1)
                 PROVE  pick("int64", k) = read[values[k].from][k].n
        BY DEF NumbersAreKept
    <2>1. values[k].v = normalizeConfigValue(read[values[k].from][k])
        BY <1>1 DEF ConfigInv, ValuesAreNormalized, has
    <2>2. values[k].v = [type |-> "int64", n |-> read[values[k].from][k].n]
        BY <2>1 DEF normalizeConfigValue, Int64
    <2> QED
        BY <2>2 DEF pick
<1> QED
    BY ConfigInitially, ConfigNext, <1>1, PTL DEF Spec

\* A load begins with nothing read and every file that is there to do.
LEMMA LoadBegins ==
    ASSUME LoadsAreComplete, loadBegin, job' = "load", UNCHANGED loaded
    PROVE  LoadsAreComplete'
<1> SUFFICES ASSUME edits = 0, dir = "found" PROVE LoadsAreComplete'
    BY DEF loadBegin, LoadsAreComplete
<1>1. /\ todo' = {f \in Files : disk[f] # Absent} /\ read' = [f \in Files |-> Unset]
      /\ UNCHANGED <<dir, disk, edits>>
    BY DEF loadBegin, getAllFiles
<1>2. \A f \in Files :
        /\ f \in todo' => disk'[f] # Absent
        /\ f \notin todo' => ~Fails(f)' /\ (f.json => HasRead(f)')
    BY <1>1 DEF Fails, HasRead
<1>3. loaded' => \A f \in Files : ~Fails(f)'
    BY <1>1 DEF LoadsAreComplete, Fails
<1> QED
    BY <1>2, <1>3 DEF LoadsAreComplete

\* A file that is done has been read.
LEMMA LoadReads ==
    ASSUME ConfigInv, LoadsAreComplete, job = "load", NEW f \in Files, loadConfigFile(f), UNCHANGED <<job, loaded>>
    PROVE  LoadsAreComplete'
<1> SUFFICES ASSUME edits = 0, dir = "found" PROVE LoadsAreComplete'
    BY DEF loadConfigFile, LoadsAreComplete
<1>1. /\ f \in todo /\ ~Fails(f) /\ todo' = todo \ {f}
      /\ IF f.json THEN read' = [read EXCEPT ![f] = disk[f]] ELSE read' = read
      /\ UNCHANGED <<dir, disk, edits>>
    BY DEF loadConfigFile, Turn
<1>2. \A g \in Files : Fails(g)' <=> Fails(g)
    BY <1>1 DEF Fails
<1>3. \A g \in Files :
        /\ g \in todo => disk[g] # Absent
        /\ g \notin todo => ~Fails(g) /\ (g.json => HasRead(g))
    BY DEF LoadsAreComplete
<1>4. f.json => HasRead(f)'
    BY <1>1, <1>3 DEF HasRead, ConfigInv
<1>5. \A g \in Files \ {f} : HasRead(g) => HasRead(g)'
    BY <1>1 DEF HasRead, ConfigInv
<1>6. \A g \in Files :
        /\ g \in todo' => disk'[g] # Absent
        /\ g \notin todo' => ~Fails(g)' /\ (g.json => HasRead(g)')
    BY <1>1, <1>2, <1>3, <1>4, <1>5
<1>7. loaded' => \A g \in Files : ~Fails(g)'
    BY <1>2 DEF LoadsAreComplete
<1> QED
    BY <1>6, <1>7 DEF LoadsAreComplete

\* What was complete stays so while no load ends and none begins.
LEMMA LoadKept ==
    ASSUME LoadsAreComplete, UNCHANGED <<dir, disk, edits, loaded>>,
           \/ phase' \in Destruction /\ job' # "load"
           \/ UNCHANGED <<todo, read>> /\ job' = "load" /\ job = "load"
           \/ UNCHANGED <<todo, read>> /\ job' # "load" /\ job # "load" /\ phase \notin Destruction
    PROVE  LoadsAreComplete'
<1>1. \A g \in Files : Fails(g)' <=> Fails(g)
    BY DEF Fails
<1>2. read' = read => \A g \in Files : HasRead(g)' <=> HasRead(g)
    BY DEF HasRead
<1> QED
    BY <1>1, <1>2 DEF LoadsAreComplete

\* A load that gets to the end of the list has read all of it.
LEMMA LoadEnds ==
    ASSUME LoadsAreComplete, endLoad
    PROVE  LoadsAreComplete'
<1>1. /\ job = "load" /\ todo = {} /\ job' # "load"
      /\ UNCHANGED <<dir, disk, edits, read>>
    BY DEF endLoad, Quiet, configVars
<1>2. \A g \in Files : (Fails(g)' <=> Fails(g)) /\ (HasRead(g)' <=> HasRead(g))
    BY <1>1 DEF Fails, HasRead
<1> QED
    BY <1>1, <1>2 DEF LoadsAreComplete

\* What Main does to the configuration, with what it does.
LEMMA LoadSteps ==
    ASSUME AppInv, ControlInv, ConfigInv, LoadsAreComplete, [Next]_vars
    PROVE  LoadsAreComplete'
<1> DEFINE Done == LoadsAreComplete'
<1> SUFFICES Done
    OBVIOUS
<1>1. ASSUME Throws, UNCHANGED <<dir, disk, edits>> PROVE Done
    <2>1. phase' \in Destruction /\ job' = "none" /\ UNCHANGED loaded
        BY <1>1 DEF Throws, throw, enter, Destruction
    <2> QED
        BY <1>1, <2>1, LoadKept
<1>2. ASSUME UNCHANGED <<configVars, loaded>>, job' = "load" <=> job = "load",
             phase' \in Destruction \/ phase \notin Destruction
      PROVE  Done
    BY <1>2, LoadKept DEF configVars
<1>3. CASE beginLoad
    BY <1>1, <1>3, LoadBegins DEF beginLoad, loadThrows, configVars
<1>4. CASE loadNext
    <2>1. PICK f \in Files :
            \/ loadConfigFile(f) /\ UNCHANGED <<appVars, serviceVars>>
            \/ loadFails(f) /\ phase = "initialize" /\ Throws
            \/ loadFails(f) /\ phase = "proceed" /\ job' = "unwind" /\ UNCHANGED <<appVars, choices, loaded>>
        BY <1>4 DEF loadNext
    <2>2. job = "load"
        BY <1>4 DEF loadNext
    <2>3. CASE loadConfigFile(f) /\ UNCHANGED <<appVars, serviceVars>>
        BY <2>2, <2>3, LoadReads DEF serviceVars
    <2>4. CASE loadFails(f) /\ Throws
        BY <1>1, <2>4 DEF loadFails
    <2>5. CASE loadFails(f) /\ phase = "proceed"
        <3>1. loaded /\ Fails(f) /\ UNCHANGED <<dir, edits>>
            BY <2>5 DEF loadFails, ControlInv, JobsHavePlaces
        <3>2. ~(edits = 0 /\ dir = "found")
            BY <3>1 DEF LoadsAreComplete
        <3> QED
            BY <3>1, <3>2 DEF LoadsAreComplete
    <2> QED
        BY <2>1, <2>3, <2>4, <2>5
<1>5. CASE afterWait
    <2>1. job = "wait" /\ UNCHANGED <<appVars, loaded>> /\ phase = "proceed"
        BY <1>5 DEF afterWait, ControlInv, JobsHavePlaces
    <2>2. CASE job' = "leave" /\ UNCHANGED configVars
        BY <1>2, <2>1, <2>2 DEF Destruction
    <2>3. CASE job' = "load" /\ loadBegin
        BY <2>1, <2>3, LoadBegins
    <2> QED
        BY <1>5, <2>2, <2>3 DEF afterWait
<1>6. CASE makeSinks
    <2>1. CASE job' = "none" /\ UNCHANGED <<appVars, choices, loaded>>
        BY <1>2, <1>6, <2>1 DEF makeSinks, ControlInv, JobsHavePlaces, Destruction
    <2>2. CASE Throws
        BY <1>1, <1>6, <2>2 DEF makeSinks, configVars
    <2> QED
        BY <1>6, <2>1, <2>2 DEF makeSinks
<1>7. CASE constructService \/ destroyBase \/ exitProcess
    BY <1>2, <1>7 DEF constructService, constructApplication, destroyBase, destroyApplication, exitProcess, endMain,
                      enter, serviceVars, Quiet, Destruction
<1>8. CASE constructMember \/ options
    <2>1. phase = "parseArgs" /\ UNCHANGED configVars
        BY <1>8 DEF constructMember, options, Quiet
    <2>2. ASSUME UNCHANGED serviceVars PROVE Done
        BY <1>2, <2>1, <2>2 DEF serviceVars, Destruction
    <2>3. ASSUME Throws PROVE Done
        BY <1>1, <2>1, <2>3 DEF configVars
    <2> QED
        BY <1>8, <2>2, <2>3 DEF constructMember, options
<1>9. CASE makeLogger
    BY <1>2, <1>9 DEF makeLogger, LoggerIsDue, Destruction
<1>10. ASSUME NEW s \in Subsystems, hook(s) \/ hookThrows(s) \/ destroyThread(s) PROVE Done
    <2>1. CASE hook(s)
        BY <1>2, <2>1 DEF hook, callHook, serviceVars, Quiet, Destruction, Hook
    <2>2. CASE hookThrows(s)
        BY <1>1, <2>2 DEF hookThrows, Quiet, configVars
    <2>3. CASE destroyThread(s)
        BY <1>2, <2>3 DEF destroyThread, destroySubsystem, serviceVars, Quiet, Destruction
    <2> QED
        BY <1>10, <2>1, <2>2, <2>3
<1>11. CASE phaseEnds
    <2>1. phase \notin Destruction /\ UNCHANGED <<configVars, serviceVars>>
        BY <1>11, PhaseFacts DEF phaseEnds, endPhase, return, Quiet, Destruction
    <2> QED
        BY <1>2, <2>1 DEF serviceVars
<1>12. CASE beginWait \/ proceedThrows
    BY <1>2, <1>12 DEF beginWait, proceedThrows, Quiet, Destruction
<1>13. CASE constructLocal
    BY <1>1, <1>2, <1>13 DEF constructLocal, appVars, serviceVars, Quiet, configVars, Destruction
<1>14. CASE joinWaiter
    BY <1>2, <1>14 DEF joinWaiter, Quiet, ControlInv, JobsHavePlaces, Destruction
<1>15. CASE leave
    BY <1>2, <1>15 DEF leave, Quiet, ControlInv, JobsHavePlaces, Destruction
<1>16. CASE unwind
    BY <1>1, <1>16 DEF unwind, Quiet, configVars
<1>17. ASSUME UNCHANGED <<appVars, serviceVars, configVars>> PROVE Done
    BY <1>2, <1>17 DEF appVars, serviceVars
<1>18. CASE waitReturns(Main) \/ destroyMember \/ WaiterThread \/ UNCHANGED vars
    BY <1>17, <1>18 DEF waitReturns, destroyMember, WaiterThread, waiterWaitsAgain, Quiet, vars
<1>19. CASE Others
    <2>1. ASSUME NEW f \in Files, NEW content, edit(f, content) PROVE Done
        <3>1. edits' # 0
            BY <2>1 DEF edit, ConfigInv
        <3> QED
            BY <3>1 DEF LoadsAreComplete
    <2> QED
        BY <1>17, <1>19, <2>1 DEF Others, Quiet
<1> QED
    BY <1>3, <1>4, <1>5, <1>6, <1>7, <1>8, <1>9, <1>10, <1>11, <1>12, <1>13, <1>14, <1>15, <1>16, <1>18, <1>19,
       LoadEnds DEF Next, MainThread

\* For any files and contents: a service that is past initialize() has read
\* every JSON file of a directory that nobody edits, and none of them failed.
THEOREM ServiceHasItsConfiguration == Spec => []ServiceIsConfigured
<1> DEFINE Inv == AppInv /\ ControlInv /\ ConfigInv /\ LoadsAreComplete
<1>1. Init => LoadsAreComplete
    BY DEF Init, LoadsAreComplete
<1>2. Init => Inv
    BY <1>1, AppInitially, ControlInit, ConfigInitially
<1>3. Inv /\ [Next]_vars => Inv'
    BY AppInvNext, ControlNext, ConfigNext, LoadSteps
<1>4. Inv => ServiceIsConfigured
    BY DEF ControlInv, JobsHavePlaces, LoadsAreComplete, HasRead, ServiceIsConfigured, Destruction
<1> QED
    BY <1>2, <1>3, <1>4, PTL DEF Spec
=============================================================================
