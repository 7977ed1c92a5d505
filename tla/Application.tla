---------------------------- MODULE Application -----------------------------
(***************************************************************************)
(* jar::Application and jar::Subsystem (core/src/Application.cpp,          *)
(* Subsystem.cpp) under the main() of APP_MAIN: the phases of a service,   *)
(* each of which calls one function of every subsystem in turn, and what   *)
(* becomes of an exception.                                                *)
(*                                                                         *)
(* run() returns EXIT_FAILURE for a std::exception of the first four       *)
(* phases; any other exception, and every exception of finalize(), goes    *)
(* on to main().  Either way the phases that are left out stay out, and    *)
(* only destructors run: the members of the derived class, ~Application(), *)
(* the subsystems.  handleHelp() is never called, so _helpRequested, which *)
(* would make run() return at once, is left out.                           *)
(***************************************************************************)
EXTENDS Naturals

CONSTANT SubsystemsNum   \* the number of subsystems that were added

ASSUME SubsystemsNumAssumption == SubsystemsNum \in Nat

VARIABLES
    phase,      \* what main() is at
    at,         \* the subsystem the phase has come to
    hooks,      \* hooks[s]: how many functions of subsystem s have returned
    instance,   \* s_instance is set
    exit,       \* what main() will return: "none", "success" or "failure"
    caught      \* who has caught an exception: "none", "run" or "main"

appVars == <<phase, at, hooks, instance, exit, caught>>

Subsystems == 1..SubsystemsNum

\* The phases that call each subsystem, and the number of the call.
Hook == [initialize |-> 1, setUp |-> 2, tearDown |-> 3, finalize |-> 4]
NextPhaseNoTearDown ==  \* mutant: run() does not call tearDown()
    [parseArgs |-> "initialize", initialize |-> "setUp", setUp |-> "proceed", proceed |-> "finalize", tearDown |-> "finalize"]

NextPhase ==
    [parseArgs |-> "initialize", initialize |-> "setUp", setUp |-> "proceed", proceed |-> "tearDown", tearDown |-> "finalize"]

enter(p) == phase' = p /\ at' = 1

\* The constructor of the base class, and addSubsystem().
constructApplication ==
    /\ phase = "construct"
    /\ enter("parseArgs")
    /\ instance' = TRUE
    /\ UNCHANGED <<hooks, exit, caught>>

parseArgs(accepted) ==
    /\ phase = "parseArgs"
    /\ IF accepted THEN enter("initialize") /\ UNCHANGED exit
                   ELSE enter("destroy") /\ exit' = "failure"
    /\ UNCHANGED <<hooks, instance, caught>>

callHookTwice(s) ==  \* mutant: two subsystems for one turn of the loop
    /\ phase \in DOMAIN Hook
    /\ s = at /\ s \in Subsystems
    /\ hooks' = [hooks EXCEPT ![s] = @ + 1]
    /\ at' = at + 2
    /\ UNCHANGED <<phase, instance, exit, caught>>

\* The phase calls its function of subsystem s, which returns.
callHook(s) ==
    /\ phase \in DOMAIN Hook
    /\ s = at
    /\ s \in Subsystems
    /\ hooks' = [hooks EXCEPT ![s] = @ + 1]
    /\ at' = at + 1
    /\ UNCHANGED <<phase, instance, exit, caught>>

\* The loop over the subsystems is through, or proceed() returns.
endPhase ==
    /\ phase \in DOMAIN NextPhase \ {"parseArgs"}
    /\ phase \in DOMAIN Hook => at > SubsystemsNum
    /\ enter(NextPhase[phase])
    /\ UNCHANGED <<hooks, instance, exit, caught>>

return ==
    /\ phase = "finalize"
    /\ at > SubsystemsNum
    /\ enter("destroy")
    /\ exit' = "success"
    /\ UNCHANGED <<hooks, instance, caught>>

\* An exception leaves the phase.  std: it is a std::exception.
throw(std) ==
    /\ phase \in DOMAIN NextPhase \cup {"finalize"}
    /\ enter("destroy")
    /\ exit' = "failure"
    /\ caught' = IF std /\ phase \notin {"parseArgs", "finalize"} THEN "run" ELSE "main"
    /\ UNCHANGED <<hooks, instance>>

\* ~Application(), after the members of the derived class and before the
\* subsystems.
destroyApplication ==
    /\ phase = "destroy"
    /\ enter("destroySubsystems")
    /\ instance' = FALSE
    /\ UNCHANGED <<hooks, exit, caught>>

destroySubsystem(s) ==
    /\ phase = "destroySubsystems"
    /\ s = at
    /\ s \in Subsystems
    /\ at' = at + 1
    /\ UNCHANGED <<phase, hooks, instance, exit, caught>>

endMain ==
    /\ phase = "destroySubsystems"
    /\ at > SubsystemsNum
    /\ enter("ended")
    /\ UNCHANGED <<hooks, instance, exit, caught>>

AppInit ==
    /\ phase = "construct"
    /\ at = 1
    /\ hooks = [s \in Subsystems |-> 0]
    /\ instance = FALSE
    /\ exit = "none"
    /\ caught = "none"

-----------------------------------------------------------------------------
(* Properties.                                                             *)

\* No subsystem is more than one phase ahead of another, and only those added
\* earlier are ahead: setUp() finds all subsystems initialized, tearDown()
\* finds none finalized.  EXIT_SUCCESS means that every subsystem went through
\* all four phases, and whatever throws, EXIT_FAILURE is returned.
PhasesAreComplete ==
    /\ \A s, r \in Subsystems : hooks[r] < hooks[s] => hooks[s] = hooks[r] + 1 /\ s < r
    /\ exit = "success" => \A s \in Subsystems : hooks[s] = 4
    /\ caught # "none" => exit = "failure"
=============================================================================
