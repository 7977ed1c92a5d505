------------------------ MODULE AvailabilityObserver ------------------------
(***************************************************************************)
(* jar::AvailabilitySubject and jar::AvailabilityObserver                  *)
(* (network/src/AvailabilitySubject.cpp, AvailabilityObserver.cpp): an     *)
(* observer is itself a subject, online when all the subjects it was given *)
(* are.                                                                    *)
(*                                                                         *)
(* add() copies the subject's state into _states and connects a slot that  *)
(* keeps an iterator to that entry; remove() erases the entry and leaves   *)
(* the slot connected.  A slot whose entry was erased writes through a     *)
(* dangling iterator: the model lets the write do no harm, or records the  *)
(* damage in corrupted and stops.                                          *)
(***************************************************************************)
EXTENDS Naturals

CONSTANTS
    Subjects,   \* the subjects, each with a name of its own
    MaxAdds     \* bound: how often add() is called

ASSUME MaxAddsAssumption == MaxAdds \in Nat

VARIABLES
    state,       \* state[s]: AvailabilitySubject::_state of subject s
    own,         \* AvailabilitySubject::_state of the observer
    states,      \* _states: the entry of each subject, "absent" without one
    slots,       \* slots[s]: slots connected to s whose entry is in the map
    dangling,    \* dangling[s]: slots connected to s whose entry was erased
    adds,        \* how often add() was called
    corrupted,   \* memory that is no longer an entry was overwritten
    stray        \* history: a subject changed when only erased entries listened

vars == <<state, own, states, slots, dangling, adds, corrupted, stray>>

State == {"Online", "Offline"}
Members == {s \in Subjects : states[s] # "absent"}

-----------------------------------------------------------------------------
updateAvailabilityUnset(m) ==  \* mutant: without subjects the observer takes no state
    IF \A s \in Subjects : m[s] = "absent" THEN "absent"
    ELSE IF \A s \in Subjects : m[s] \in {"Online", "absent"} THEN "Online" ELSE "Offline"

\* What updateAvailability() makes of the entries m.
updateAvailability(m) ==
    IF /\ \E s \in Subjects : m[s] # "absent"
       /\ \A s \in Subjects : m[s] \in {"Online", "absent"}
    THEN "Online" ELSE "Offline"

addDetached(s) ==  \* mutant: no slot is connected for the subject
    /\ ~corrupted /\ adds < MaxAdds
    /\ adds' = adds + 1
    /\ states' = IF states[s] = "absent" THEN [states EXCEPT ![s] = state[s]] ELSE states
    /\ own' = updateAvailability(states')
    /\ UNCHANGED <<state, slots, dangling, corrupted, stray>>

\* An entry that is already there keeps its state.
add(s) ==
    /\ ~corrupted
    /\ adds < MaxAdds
    /\ adds' = adds + 1
    /\ states' = IF states[s] = "absent" THEN [states EXCEPT ![s] = state[s]] ELSE states
    /\ slots' = [slots EXCEPT ![s] = @ + 1]
    /\ own' = updateAvailability(states')
    /\ UNCHANGED <<state, dangling, corrupted, stray>>

removeOnly(s) ==  \* mutant: the observer's state is not brought up to date
    /\ ~corrupted /\ states[s] # "absent"
    /\ states' = [states EXCEPT ![s] = "absent"]
    /\ dangling' = [dangling EXCEPT ![s] = @ + slots[s]]
    /\ slots' = [slots EXCEPT ![s] = 0]
    /\ UNCHANGED <<state, own, adds, corrupted, stray>>

\* Without an entry of that name nothing is erased and nothing done.
remove(s) ==
    /\ ~corrupted
    /\ states[s] # "absent"
    /\ states' = [states EXCEPT ![s] = "absent"]
    /\ dangling' = [dangling EXCEPT ![s] = @ + slots[s]]
    /\ slots' = [slots EXCEPT ![s] = 0]
    /\ own' = updateAvailability(states')
    /\ UNCHANGED <<state, adds, corrupted, stray>>

\* The slots that add() connected to s run: each stores the state in its entry
\* and updates the observer.  A slot with an erased entry does so too.
runSlots(s, v) ==
    /\ states' = IF slots[s] > 0 THEN [states EXCEPT ![s] = v] ELSE states
    /\ own' = IF slots[s] + dangling[s] = 0 THEN own
              ELSE IF v = "Online" THEN updateAvailability(states') ELSE "Offline"
    /\ corrupted' \in IF dangling[s] > 0 THEN BOOLEAN ELSE {FALSE}
    /\ stray' = (stray \/ (slots[s] = 0 /\ dangling[s] > 0))

\* AvailabilitySubject::availability() of subject s: on a change the signal is
\* emitted.
availability(s, v) ==
    /\ ~corrupted
    /\ state[s] # v
    /\ state' = [state EXCEPT ![s] = v]
    /\ runSlots(s, v)
    /\ UNCHANGED <<slots, dangling, adds>>

Init ==
    /\ state \in [Subjects -> State]
    /\ own = "Offline"
    /\ states = [s \in Subjects |-> "absent"]
    /\ slots = [s \in Subjects |-> 0]
    /\ dangling = [s \in Subjects |-> 0]
    /\ adds = 0
    /\ corrupted = FALSE
    /\ stray = FALSE

Next ==
    \E s \in Subjects :
        \/ add(s)
        \/ remove(s)
        \/ \E v \in State : availability(s, v)

Spec == Init /\ [][Next]_vars

-----------------------------------------------------------------------------
(* Properties.                                                             *)

\* Every variable keeps its type.
TypeOK ==
    /\ state \in [Subjects -> State]
    /\ own \in State
    /\ states \in [Subjects -> State \cup {"absent"}]
    /\ slots \in [Subjects -> Nat]
    /\ dangling \in [Subjects -> Nat]
    /\ adds \in Nat
    /\ corrupted \in BOOLEAN
    /\ stray \in BOOLEAN

\* The copies in _states never fall behind the subjects, however subjects are
\* added twice, removed, changed meanwhile and added again.
EntriesAreCurrent ==
    ~corrupted => \A s \in Members : states[s] = state[s] /\ slots[s] > 0

Expected ==
    IF Members # {} /\ \A s \in Members : state[s] = "Online" THEN "Online" ELSE "Offline"

\* The observer is online exactly when it has subjects and all of them are,
\* as long as no subject changed after its removal.
ObserverAgrees == ~corrupted /\ ~stray => own = Expected

\* The same with nothing said about removed subjects: remove() ends their
\* influence on the observer.
RemovedIsIgnored == ~corrupted => own = Expected
=============================================================================
