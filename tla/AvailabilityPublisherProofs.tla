-------------------- MODULE AvailabilityPublisherProofs ---------------------
(***************************************************************************)
(* Proof that AvailabilityPublisher forgets no state, for any number of    *)
(* requests and any failures.                                              *)
(***************************************************************************)
EXTENDS AvailabilityPublisher, MqttClientProofs

\* Each step of the publisher is a step of the client or a stutter.
LEMMA PublisherClientStep == [PublisherNext]_allVars => [Next]_vars
<1> SUFFICES ASSUME [PublisherNext]_allVars PROVE [Next]_vars
    OBVIOUS
<1>1. CASE UNCHANGED allVars
    BY <1>1 DEF allVars
<1>2. CASE Owner
    BY <1>2 DEF Owner, construct, onStateUpdate, checkConnection
<1>3. CASE Slots
    BY <1>3 DEF Slots, onPublisherConnect, slotReturns, otherSignal, Next, Loop
<1>4. ASSUME NEW t \in Threads, readState(t) PROVE [Next]_vars
    BY <1>4 DEF readState
<1>5. ASSUME NEW t \in Threads, NEW o \in Ops, NEW rc \in ReturnValues, publish(t, o, rc)
      PROVE [Next]_vars
    BY <1>5 DEF publish, Next, User
<1>6. CASE Client
    BY <1>6 DEF Client, Next, Loop
<1> QED
    BY <1>1, <1>2, <1>3, <1>4, <1>5, <1>6 DEF PublisherNext, Publication

-----------------------------------------------------------------------------
(* The inductive invariant.                                                *)

PublisherTypes ==
    /\ subject \in State /\ state \in State
    /\ at \in [Threads -> Places]
    /\ text \in [Threads -> State]

\* The loop thread is in the publisher's code only while it tells of a new
\* connection, and nobody is before the slots are connected.
InTheSlot ==
    /\ at["loop"] # "outside" => ToldOfConnection
    /\ ~listening => \A t \in Threads : at[t] = "outside"

\* What a thread is about to publish is the subject's state: always on the
\* owner's thread, which is the one that changes it, and on the loop thread
\* if the two have not raced.
TextIsCurrent ==
    /\ listening => state = subject
    /\ at["owner"] = "call" => text["owner"] = subject
    /\ at["loop"] = "call" /\ ~raced => text["loop"] = subject

\* A state that was not published yet is going to be: the owner is on its way
\* to publish it, or the loop thread is, or there is no connection and the
\* loop thread will be told when there is.
WillBePublished ==
    listening /\ ~raced /\ ~failed /\ last # subject =>
        \/ at["owner"] \in {"check", "read", "call"}
        \/ at["loop"] \in {"read", "call"}
        \/ ToldOfConnection /\ at["loop"] = "outside"
        \/ ~hasConnection

PublisherInv == PublisherTypes /\ InTheSlot /\ TextIsCurrent /\ WillBePublished

\* At first there is no publisher and no connection.
LEMMA PublisherInvInit == PublisherInit => PublisherInv
<1> SUFFICES ASSUME PublisherInit PROVE PublisherInv
    OBVIOUS
<1>1. PublisherTypes
    BY DEF PublisherInit, PublisherTypes, State, Places, Threads
<1>2. InTheSlot /\ TextIsCurrent /\ WillBePublished
    BY DEF PublisherInit, InTheSlot, TextIsCurrent, WillBePublished, Threads
<1> QED
    BY <1>1, <1>2 DEF PublisherInv

\* A thread moves in the publisher's code and the other stays.
LEMMA GotoFacts ==
    ASSUME PublisherTypes, NEW t \in Threads, NEW place \in Places, Goto(t, place)
    PROVE  /\ at' \in [Threads -> Places]
           /\ at'[t] = place
           /\ \A u \in Threads \ {t} : at'[u] = at[u]
BY DEF PublisherTypes, Goto

\* A step of the client as others see it.
LEMMA PublisherClientKeeps ==
    ASSUME TypeInv, PublisherInv, Client
    PROVE  PublisherInv'
<1> USE DEF PublisherInv, publisherVars
<1>1. UNCHANGED publisherVars
    BY DEF Client
<1>2. PublisherTypes' /\ TextIsCurrent'
    BY <1>1 DEF PublisherTypes, TextIsCurrent
<1>3. CASE UNCHANGED <<callback, hasConnection>>
    BY <1>1, <1>2, <1>3 DEF InTheSlot, WillBePublished, ToldOfConnection
<1>4. CASE Network
    <2>1. callback = Idle /\ UNCHANGED hasConnection
        BY <1>4 DEF Network, ConnackArrives, SocketCloses, AckArrives, MessageArrives, Start
    <2>2. ~ToldOfConnection
        BY <2>1 DEF ToldOfConnection, Idle
    <2> QED
        BY <1>1, <1>2, <2>1, <2>2 DEF InTheSlot, WillBePublished
<1>5. CASE handleConnect
    <2>1. callback.step = "handle" /\ callback.cb = "connect" /\ callback \in Callbacks
        BY <1>5 DEF handleConnect, TypeInv, TypeOK, Idle
    <2>2. callback' = [step |-> "notify", cb |-> "connect", rc |-> callback.rc, mid |-> callback.mid]
        BY <1>5, <2>1 DEF handleConnect, Callbacks
    <2>3. at["loop"] = "outside"
        BY <2>1 DEF InTheSlot, ToldOfConnection
    <2>4. hasConnection' => hasConnection \/ callback.rc = "Accepted"
        BY <1>5 DEF handleConnect
    <2>5. ~ToldOfConnection
        BY <2>1 DEF ToldOfConnection
    <2> QED
        BY <1>1, <1>2, <2>2, <2>3, <2>4, <2>5 DEF InTheSlot, WillBePublished, ToldOfConnection
<1>6. CASE handleDisconnect
    <2>1. callback.step = "handle" /\ ~hasConnection'
        BY <1>6 DEF handleDisconnect
    <2>2. at["loop"] = "outside"
        BY <2>1 DEF InTheSlot, ToldOfConnection
    <2> QED
        BY <1>1, <1>2, <2>1, <2>2 DEF InTheSlot, WillBePublished
<1>7. CASE User
    <2>1. UNCHANGED <<callback, hasConnection>>
        BY <1>7 DEF User, doConnect, doConnectAsync, doReconnect, doReconnectAsync, doDisconnect,
                    doSubscribe, doUnsubscribe, doPublish, Failed, vars
    <2> QED
        BY <1>3, <2>1
<1> QED
    BY <1>4, <1>5, <1>6, <1>7 DEF Client

\* The owner's steps.
LEMMA OwnerKeeps ==
    ASSUME TypeInv, PublisherInv, Owner
    PROVE  PublisherInv'
<1> USE DEF PublisherInv, Threads
<1>1. UNCHANGED <<callback, hasConnection, text, last, failed>>
    BY DEF Owner, construct, onStateUpdate, checkConnection, vars
<1>2. UNCHANGED ToldOfConnection
    BY <1>1 DEF ToldOfConnection
<1>3. CASE construct
    <2>1. at'["owner"] = "check" /\ at'["loop"] = at["loop"] /\ at' \in [Threads -> Places]
        BY <1>3, GotoFacts DEF construct, Places
    <2> QED
        BY <1>1, <1>2, <1>3, <2>1
        DEF construct, PublisherTypes, InTheSlot, TextIsCurrent, WillBePublished
<1>4. ASSUME NEW v \in State, onStateUpdate(v) PROVE PublisherInv'
    <2>1. CASE listening
        <3>1. at'["owner"] = "check" /\ at'["loop"] = at["loop"] /\ at' \in [Threads -> Places]
            BY <1>4, <2>1, GotoFacts DEF onStateUpdate, Places
        <3> QED
            BY <1>1, <1>2, <1>4, <2>1, <3>1
            DEF onStateUpdate, PublisherTypes, InTheSlot, TextIsCurrent, WillBePublished
    <2>2. CASE ~listening
        BY <1>1, <1>2, <1>4, <2>2
        DEF onStateUpdate, PublisherTypes, InTheSlot, TextIsCurrent, WillBePublished
    <2> QED
        BY <2>1, <2>2
<1>5. CASE checkConnection
    <2>1. /\ at'["owner"] = IF hasConnection THEN "read" ELSE "outside"
          /\ at'["loop"] = at["loop"] /\ at' \in [Threads -> Places]
        BY <1>5, GotoFacts DEF checkConnection, Places
    <2> QED
        BY <1>1, <1>2, <1>5, <2>1
        DEF checkConnection, PublisherTypes, InTheSlot, TextIsCurrent, WillBePublished
<1> QED
    BY <1>3, <1>4, <1>5 DEF Owner

\* The loop thread enters and leaves the slot.
LEMMA SlotsKeep ==
    ASSUME TypeInv, PublisherInv, Slots
    PROVE  PublisherInv'
<1> USE DEF PublisherInv, Threads
<1>1. UNCHANGED <<hasConnection, subject, state, listening, text, last, raced, failed>>
    BY DEF Slots, onPublisherConnect, slotReturns, otherSignal, notify, vars, publisherVars
<1>2. CASE onPublisherConnect
    <2>1. at'["loop"] = "read" /\ at'["owner"] = at["owner"] /\ at' \in [Threads -> Places]
        BY <1>2, GotoFacts DEF onPublisherConnect, Places
    <2>2. UNCHANGED callback /\ ToldOfConnection /\ listening
        BY <1>2 DEF onPublisherConnect, vars
    <2> QED
        BY <1>1, <2>1, <2>2
        DEF PublisherTypes, InTheSlot, TextIsCurrent, WillBePublished, ToldOfConnection
<1>3. CASE slotReturns
    <2>1. at'["loop"] = "outside" /\ at'["owner"] = at["owner"] /\ at' \in [Threads -> Places]
        BY <1>3, GotoFacts DEF slotReturns, Places
    <2>2. at["loop"] = "return"
        BY <1>3 DEF slotReturns
    <2> QED
        BY <1>1, <2>1, <2>2 DEF PublisherTypes, InTheSlot, TextIsCurrent, WillBePublished
<1>4. CASE otherSignal
    <2>1. UNCHANGED at /\ ~(ToldOfConnection /\ listening)
        BY <1>4 DEF otherSignal, publisherVars
    <2>2. at["loop"] = "outside"
        BY <2>1 DEF InTheSlot
    <2> QED
        BY <1>1, <2>1, <2>2 DEF PublisherTypes, InTheSlot, TextIsCurrent, WillBePublished
<1> QED
    BY <1>2, <1>3, <1>4 DEF Slots

\* Reading _state, with or without a race.
LEMMA readStateKeeps ==
    ASSUME TypeInv, PublisherInv, NEW t \in Threads, readState(t)
    PROVE  PublisherInv'
<1> USE DEF PublisherInv, Threads
<1>1. /\ UNCHANGED <<callback, hasConnection, subject, state, listening, last, failed>>
      /\ at[t] = "read" /\ listening /\ state = subject
    BY DEF readState, vars, InTheSlot, TextIsCurrent
<1>2. UNCHANGED ToldOfConnection
    BY <1>1 DEF ToldOfConnection
<1>3. at'[t] = "call" /\ at' \in [Threads -> Places] /\ \A u \in Threads \ {t} : at'[u] = at[u]
    BY GotoFacts DEF readState, Places
<1>4. text' \in [Threads -> State] /\ \A u \in Threads \ {t} : text'[u] = text[u]
    BY DEF readState, PublisherTypes
<1>5. PublisherTypes' /\ InTheSlot'
    BY <1>1, <1>2, <1>3, <1>4 DEF PublisherTypes, InTheSlot
<1>6. CASE t = "owner"
    <2>1. text'["owner"] = subject
        BY <1>1, <1>6 DEF readState, PublisherTypes
    <2>2. raced => raced'
        BY <1>6 DEF readState
    <2> QED
        BY <1>1, <1>2, <1>3, <1>4, <1>5, <1>6, <2>1, <2>2 DEF TextIsCurrent, WillBePublished
<1>7. CASE t = "loop"
    <2>1. raced' \/ text'["loop"] = subject
        BY <1>1, <1>7 DEF readState, PublisherTypes
    <2> QED
        BY <1>1, <1>2, <1>3, <1>4, <1>5, <1>7, <2>1 DEF TextIsCurrent, WillBePublished
<1> QED
    BY <1>6, <1>7

\* The call of the client publishes the current state, unless it fails or the
\* threads have raced.
LEMMA publishKeeps ==
    ASSUME TypeInv, PublisherInv, NEW t \in Threads, NEW o \in Ops, NEW rc \in ReturnValues,
           publish(t, o, rc)
    PROVE  PublisherInv'
<1> USE DEF PublisherInv, Threads
<1>1. UNCHANGED <<callback, hasConnection>>
    BY DEF publish, doPublish, Failed, vars
<1>2. UNCHANGED ToldOfConnection
    BY <1>1 DEF ToldOfConnection
<1>3. /\ at[t] = "call" /\ UNCHANGED <<subject, state, listening, text, raced>>
      /\ failed' \/ last' = text[t]
    BY DEF publish
<1>4. /\ at'[t] = IF t = "loop" THEN "return" ELSE "outside"
      /\ at' \in [Threads -> Places] /\ \A u \in Threads \ {t} : at'[u] = at[u]
    BY GotoFacts DEF publish, Places
<1>5. PublisherTypes' /\ InTheSlot' /\ TextIsCurrent'
    BY <1>2, <1>3, <1>4 DEF PublisherTypes, InTheSlot, TextIsCurrent
<1>6. WillBePublished'
    BY <1>3 DEF TextIsCurrent, WillBePublished
<1> QED
    BY <1>5, <1>6

\* The invariant is inductive relative to the client's types.
LEMMA PublisherInvStep == TypeInv /\ PublisherInv /\ [PublisherNext]_allVars => PublisherInv'
<1> SUFFICES ASSUME TypeInv, PublisherInv, [PublisherNext]_allVars PROVE PublisherInv'
    OBVIOUS
<1>1. CASE UNCHANGED allVars
    BY <1>1 DEF allVars, vars, publisherVars, PublisherInv, PublisherTypes, InTheSlot,
                TextIsCurrent, WillBePublished, ToldOfConnection
<1> QED
    BY <1>1, PublisherClientKeeps, OwnerKeeps, SlotsKeep, readStateKeeps, publishKeeps
    DEF PublisherNext, Publication

\* AvailabilityPublisher forgets no state: with the connection up and both
\* threads done, the last state published is the subject's, unless the client
\* refused the call or the threads raced.
THEOREM PublisherIsCurrent == PublisherSpec => []PublishedIsCurrent
<1>1. PublisherInit => TypeInv /\ FlagInv /\ PublisherInv
    BY TypeInit, FlagInit, PublisherInvInit DEF PublisherInit
<1>2. TypeInv /\ FlagInv /\ PublisherInv /\ [PublisherNext]_allVars
        => TypeInv' /\ FlagInv' /\ PublisherInv'
    BY PublisherClientStep, TypeStep, FlagStep, PublisherInvStep
<1>3. FlagInv /\ PublisherInv => PublishedIsCurrent
    <2> SUFFICES ASSUME FlagInv, PublisherInv, listening, \A t \in Threads : at[t] = "outside",
                        link = "up", callback = Idle, ~raced, ~failed
                 PROVE  last = subject
        BY DEF PublishedIsCurrent
    <2>1. hasConnection /\ ~ToldOfConnection
        BY DEF FlagInv, FlagFollowsLink, ToldOfConnection, Idle
    <2> QED
        BY <2>1 DEF PublisherInv, WillBePublished, Threads
<1> QED
    BY <1>1, <1>2, <1>3, PTL DEF PublisherSpec
=============================================================================
