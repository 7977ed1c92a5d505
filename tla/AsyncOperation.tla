--------------------------- MODULE AsyncOperation ---------------------------
(***************************************************************************)
(* What an asynchronous operation promises its caller, whoever implements  *)
(* it: once initiated it is completed at most once, with a result that is  *)
(* decided by then and never changes, or it is abandoned and its handler   *)
(* is destroyed without being called.  Abandoning is a promise to stay     *)
(* silent: an abandoned operation is never completed later.                *)
(***************************************************************************)
CONSTANTS
    Ops,       \* the operations
    Results,   \* what a completion handler may be called with
    NoResult   \* no completion yet

VARIABLES
    phase,    \* phase[o]
    outcome   \* outcome[o]: what the handler of o was called with

Init ==
    /\ phase = [o \in Ops |-> "idle"]
    /\ outcome = [o \in Ops |-> NoResult]

Initiate(o) ==
    /\ phase[o] = "idle"
    /\ phase' = [phase EXCEPT ![o] = "pending"]
    /\ UNCHANGED outcome

Complete(o) ==
    /\ phase[o] = "pending"
    /\ phase' = [phase EXCEPT ![o] = "completed"]
    /\ outcome' = [outcome EXCEPT ![o] = outcome'[o]]
    /\ outcome'[o] \in Results

\* Several operations may be abandoned at once, by the destruction of the
\* object that holds their handlers.
Abandon ==
    /\ phase' = [o \in Ops |-> phase'[o]]
    /\ \A o \in Ops :
          phase'[o] # phase[o] => phase[o] = "pending" /\ phase'[o] = "abandoned"
    /\ UNCHANGED outcome

Next == (\E o \in Ops : Initiate(o) \/ Complete(o)) \/ Abandon

Spec == Init /\ [][Next]_<<phase, outcome>>
=============================================================================
