--------------------- MODULE AvailabilityObserverProofs ---------------------
(***************************************************************************)
(* Proofs about AvailabilityObserver, for any set of subjects, finite or   *)
(* not, and any number of calls of add().                                  *)
(***************************************************************************)
EXTENDS AvailabilityObserver, TLAPS

\* A slot that keeps an iterator to an entry has that entry: what keeps the
\* signal of a removed subject from bringing its entry back.
SlotsHaveEntries == \A s \in Subjects : states[s] = "absent" => slots[s] = 0

\* EntriesAreCurrent is about members, ObserverAgrees about what they add up
\* to; a signal respects both because slots and entries go together.
ObserverInv == TypeOK /\ EntriesAreCurrent /\ SlotsHaveEntries /\ ObserverAgrees

\* updateAvailability() computes what the observer ought to be from entries
\* that are current.
LEMMA UpdateIsExpected ==
    ASSUME TypeOK, \A s \in Members : states[s] = state[s]
    PROVE  updateAvailability(states) = Expected
    BY DEF updateAvailability, Expected, Members, TypeOK, State

\* The same one step later.
LEMMA UpdateIsExpectedNext ==
    ASSUME TypeOK', \A s \in Members' : states'[s] = state'[s]
    PROVE  updateAvailability(states') = Expected'
    BY DEF updateAvailability, Expected, Members, TypeOK, State

\* What updateAvailability() returns is a state.
LEMMA UpdateIsState == \A m : updateAvailability(m) \in State
    BY DEF updateAvailability, State

\* An observer without subjects is offline.
LEMMA ObserverInit == Init => ObserverInv
<1> SUFFICES ASSUME Init PROVE ObserverInv
    OBVIOUS
<1>1. TypeOK /\ Members = {}
    BY DEF Init, TypeOK, State, Members
<1>2. EntriesAreCurrent /\ ObserverAgrees /\ SlotsHaveEntries
    BY <1>1 DEF Init, EntriesAreCurrent, ObserverAgrees, SlotsHaveEntries, Expected
<1> QED
    BY <1>1, <1>2 DEF ObserverInv

\* An added subject has an entry with its state, whether or not it had one.
LEMMA addStep ==
    ASSUME ObserverInv, NEW s \in Subjects, add(s)
    PROVE  ObserverInv'
<1> USE DEF ObserverInv
<1>1. TypeOK'
    BY UpdateIsState DEF add, TypeOK, State
<1>2. \A r \in Subjects : /\ states'[r] = IF r = s THEN state[s] ELSE states[r]
                          /\ slots'[r] = IF r = s THEN slots[s] + 1 ELSE slots[r]
    BY DEF add, TypeOK, EntriesAreCurrent, Members
<1>3. EntriesAreCurrent' /\ SlotsHaveEntries'
    BY <1>2 DEF add, TypeOK, State, EntriesAreCurrent, SlotsHaveEntries, Members
<1>4. ~corrupted'
    BY DEF add
<1>5. own' = Expected'
    BY <1>1, <1>3, <1>4, UpdateIsExpectedNext DEF add, EntriesAreCurrent
<1> QED
    BY <1>1, <1>3, <1>5 DEF ObserverAgrees

\* A removed subject's entry goes with the slots that use it.
LEMMA removeStep ==
    ASSUME ObserverInv, NEW s \in Subjects, remove(s)
    PROVE  ObserverInv'
<1> USE DEF ObserverInv
<1>1. TypeOK'
    BY UpdateIsState DEF remove, TypeOK, State
<1>2. EntriesAreCurrent' /\ SlotsHaveEntries'
    BY DEF remove, TypeOK, State, EntriesAreCurrent, SlotsHaveEntries, Members
<1>3. ~corrupted'
    BY DEF remove
<1>4. own' = Expected'
    BY <1>1, <1>2, <1>3, UpdateIsExpectedNext DEF remove, EntriesAreCurrent
<1> QED
    BY <1>1, <1>2, <1>4 DEF ObserverAgrees

\* A subject that changes tells every entry it has.
LEMMA availabilityStep ==
    ASSUME ObserverInv, NEW s \in Subjects, NEW v \in State, availability(s, v)
    PROVE  ObserverInv'
<1> USE DEF ObserverInv
<1>1. TypeOK'
    BY UpdateIsState DEF availability, runSlots, TypeOK, State
<1>2. s \in Members <=> slots[s] > 0
    BY DEF availability, runSlots, EntriesAreCurrent, SlotsHaveEntries, TypeOK, Members
<1>3. /\ Members' = Members
      /\ \A r \in Members : states'[r] = state'[r] /\ slots'[r] > 0
    BY <1>2 DEF availability, runSlots, TypeOK, State, EntriesAreCurrent, Members
<1>4. EntriesAreCurrent' /\ SlotsHaveEntries'
    BY <1>3 DEF availability, runSlots, TypeOK, State, EntriesAreCurrent, SlotsHaveEntries, Members
<1>5. ASSUME ~stray' PROVE own' = Expected'
    <2>1. CASE s \in Members
        <3>1. CASE v = "Online"
            BY <1>1, <1>2, <1>3, <2>1, <3>1, UpdateIsExpectedNext DEF availability, runSlots, TypeOK
        <3>2. CASE v = "Offline"
            BY <1>2, <1>3, <2>1, <3>2 DEF availability, runSlots, TypeOK, Expected
        <3> QED
            BY <3>1, <3>2 DEF State
    <2>2. CASE s \notin Members
        <3>1. ~stray /\ ~(slots[s] = 0 /\ dangling[s] > 0)
            BY <1>5, Zenon DEF availability, runSlots
        <3>2. slots[s] = 0 /\ dangling[s] = 0
            BY <1>2, <2>2, <3>1 DEF TypeOK
        <3>3. own' = own /\ Expected' = Expected
            BY <1>3, <2>2, <3>2 DEF availability, runSlots, TypeOK, Expected, Members
        <3> QED
            BY <3>1, <3>3 DEF availability, runSlots, ObserverAgrees
    <2> QED
        BY <2>1, <2>2
<1> QED
    BY <1>1, <1>4, <1>5 DEF ObserverAgrees

\* Every step preserves the invariant.
LEMMA ObserverStep == ObserverInv /\ [Next]_vars => ObserverInv'
<1> SUFFICES ASSUME ObserverInv, [Next]_vars PROVE ObserverInv'
    OBVIOUS
<1>1. CASE UNCHANGED vars
    BY <1>1 DEF vars, ObserverInv, TypeOK, EntriesAreCurrent, SlotsHaveEntries, ObserverAgrees,
                Expected, Members
<1>2. CASE Next
    BY <1>2, addStep, removeStep, availabilityStep DEF Next
<1> QED
    BY <1>1, <1>2

\* The parts of ObserverInv hold together in every reachable state.
LEMMA ObserverInvariant == Spec => []ObserverInv
    BY ObserverInit, ObserverStep, PTL DEF Spec

\* Subjects, observer and connections keep their types.
THEOREM ObserverTypeCorrect == Spec => []TypeOK
<1>1. ObserverInv => TypeOK
    BY DEF ObserverInv
<1> QED
    BY ObserverInvariant, <1>1, PTL

\* For any subjects and any order of add(), remove() and availability(), no
\* copy in _states falls behind its subject.
THEOREM EntriesStayCurrent == Spec => []EntriesAreCurrent
<1>1. ObserverInv => EntriesAreCurrent
    BY DEF ObserverInv
<1> QED
    BY ObserverInvariant, <1>1, PTL

\* As long as no removed subject changes, the observer is online exactly when
\* it has subjects and all of them are, for any number of them.
THEOREM ObserverIsRight == Spec => []ObserverAgrees
<1>1. ObserverInv => ObserverAgrees
    BY DEF ObserverInv
<1> QED
    BY ObserverInvariant, <1>1, PTL
=============================================================================
