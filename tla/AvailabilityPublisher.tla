----------------------- MODULE AvailabilityPublisher ------------------------
(***************************************************************************)
(* jar::AvailabilityPublisher (network/src/AvailabilityPublisher.cpp):     *)
(* publishes the state of a subject through an MqttClient, on every change *)
(* while there is a connection and whenever one comes up.                  *)
(*                                                                         *)
(* The owner's thread constructs the publisher and changes the subject;    *)
(* the client's loop thread runs the slot of onConnect().  Both run        *)
(* publish(), which reads _state and then calls the client, and nothing    *)
(* orders the two threads: _state is a plain variable.  A read of it by    *)
(* the loop thread while the owner is inside onStateUpdate() is a data     *)
(* race and may return the old or the new state.                           *)
(*                                                                         *)
(* The module extends MqttClient; other users of the client go on as       *)
(* before.                                                                 *)
(***************************************************************************)
EXTENDS MqttClient

VARIABLES
    subject,     \* the subject's state
    state,       \* AvailabilityPublisher::_state
    listening,   \* the slots are connected
    at,          \* at[t]: where thread t is in the publisher's code
    text,        \* text[t]: the state thread t is about to publish
    last,        \* history: the last state the client accepted
    raced,       \* history: the threads overlapped since that state was read
    failed       \* history: the last call of the client failed

publisherVars == <<subject, state, listening, at, text, last, raced, failed>>
allVars == <<vars, publisherVars>>

Threads == {"owner", "loop"}
State == {"Online", "Offline"}
Places == {"outside", "check", "read", "call", "return"}
Goto(t, place) == at' = [at EXCEPT ![t] = place]

-----------------------------------------------------------------------------
(* The owner's thread.                                                     *)

\* The constructor up to its test of the connection.
construct ==
    /\ ~listening
    /\ state' = subject
    /\ listening' = TRUE
    /\ Goto("owner", "check")
    /\ UNCHANGED <<vars, subject, text, last, raced, failed>>

\* The subject changes; the slot stores the state.
onStateUpdate(v) ==
    /\ at["owner"] = "outside"
    /\ subject # v
    /\ subject' = v
    /\ IF listening THEN state' = v /\ Goto("owner", "check")
                    ELSE UNCHANGED <<state, at>>
    /\ raced' = (at["loop"] = "call")
    /\ UNCHANGED <<vars, listening, text, last, failed>>

\* if (_client.hasConnection()) publish();
checkConnection ==
    /\ at["owner"] = "check"
    /\ Goto("owner", IF hasConnection THEN "read" ELSE "outside")
    /\ UNCHANGED <<vars, subject, state, listening, text, last, raced, failed>>

-----------------------------------------------------------------------------
(* The loop thread in notifyConnect().                                     *)

ToldOfConnection ==
    /\ callback.step = "notify"
    /\ callback.cb = "connect"
    /\ callback.rc = "Accepted"

onPublisherConnectIdle ==  \* mutant: nothing is published on a new connection
    /\ ToldOfConnection /\ listening /\ at["loop"] = "outside"
    /\ Goto("loop", "return")
    /\ UNCHANGED <<vars, subject, state, listening, text, last, raced, failed>>

onPublisherConnect ==
    /\ ToldOfConnection
    /\ listening
    /\ at["loop"] = "outside"
    /\ Goto("loop", "read")
    /\ UNCHANGED <<vars, subject, state, listening, text, last, raced, failed>>

slotReturns ==
    /\ at["loop"] = "return"
    /\ notify
    /\ Goto("loop", "outside")
    /\ UNCHANGED <<subject, state, listening, text, last, raced, failed>>

\* Signals the publisher does not act on.
otherSignal ==
    /\ ~(ToldOfConnection /\ listening)
    /\ notify
    /\ UNCHANGED publisherVars

-----------------------------------------------------------------------------
(* publish(), on either thread.                                            *)

\* fmt::to_string(_state)
readState(t) ==
    /\ at[t] = "read"
    /\ IF t = "loop" /\ at["owner"] # "outside"
       THEN text' \in {[text EXCEPT ![t] = v] : v \in State} /\ raced' = TRUE
       ELSE /\ text' = [text EXCEPT ![t] = state]
            /\ raced' = (raced /\ t = "owner")
    /\ Goto(t, "call")
    /\ UNCHANGED <<vars, subject, state, listening, last, failed>>

\* _client.publish(); a failure is only logged.
publish(t, o, rc) ==
    /\ at[t] = "call"
    /\ doPublish(o, "publish", rc)
    /\ failed' = (rc \in Failures)
    /\ last' = IF failed' THEN last ELSE text[t]
    /\ Goto(t, IF t = "loop" THEN "return" ELSE "outside")
    /\ UNCHANGED <<subject, state, listening, text, raced>>

-----------------------------------------------------------------------------
PublisherInit ==
    /\ Init
    /\ subject \in State
    /\ state = "Offline"
    /\ listening = FALSE
    /\ at = [t \in Threads |-> "outside"]
    /\ text = [t \in Threads |-> "Offline"]
    /\ last = "none"
    /\ raced = FALSE
    /\ failed = FALSE

Owner ==
    \/ construct
    \/ \E v \in State : onStateUpdate(v)
    \/ checkConnection

Slots == onPublisherConnect \/ slotReturns \/ otherSignal

Publication ==
    \E t \in Threads :
        \/ readState(t)
        \/ \E o \in Ops, rc \in ReturnValues : publish(t, o, rc)

\* The client as others see it.
Client == (User \/ Network \/ handleConnect \/ handleDisconnect) /\ UNCHANGED publisherVars

PublisherNext == Owner \/ Slots \/ Publication \/ Client

PublisherSpec == PublisherInit /\ [][PublisherNext]_allVars

-----------------------------------------------------------------------------
(* Properties.                                                             *)

\* Whenever the connection is up and both threads are done, the state last
\* published is the subject's: no change is forgotten, whether it comes while
\* a connection is being made, lost, refused or replaced, or before the
\* publisher is constructed.  Excepted are a call the client refused, which
\* is not retried, and an overlap of the two threads in publish(), which may
\* publish the older state last.
PublishedIsCurrent ==
    /\ listening
    /\ \A t \in Threads : at[t] = "outside"
    /\ link = "up"
    /\ callback = Idle
    /\ ~raced
    /\ ~failed
    => last = subject
=============================================================================
