----------------------------- MODULE MqttClient -----------------------------
(***************************************************************************)
(* jar::MqttClient (network/src/MqttClient.cpp): the synchronous wrapper   *)
(* around one libmosquitto instance and its network loop thread.           *)
(*                                                                         *)
(* Two kinds of actors interleave.  User threads call doConnect,           *)
(* doSubscribe, ...; the loop thread, started once by the constructor,     *)
(* runs one mosquitto callback at a time.  A callback first updates the    *)
(* client (handleConnect, handleDisconnect) and then emits a signal        *)
(* (notifyConnect, ...); the two are separate steps because any user       *)
(* thread may run between them.                                            *)
(*                                                                         *)
(* libmosquitto and the broker are external.  They are modelled by what    *)
(* this code relies on: the state of the link, the 16-bit counter that     *)
(* numbers requests, and for every request whether it is on the wire,      *)
(* acknowledged, or lost with its connection.                              *)
(***************************************************************************)
EXTENDS Integers

CONSTANTS
    Ops,       \* the asynchronous requests users issue, one element each
    MaxMid,    \* the largest message id (65535 in libmosquitto)
    Failures   \* the MOSQ_ERR_ codes other than MOSQ_ERR_SUCCESS a call returns

ASSUME MidAssumption == MaxMid \in Nat \ {0}
ASSUME FailuresAssumption == "MOSQ_ERR_SUCCESS" \notin Failures

VARIABLES
    link,           \* libmosquitto: the state of the connection to the broker
    lastMid,        \* libmosquitto: the last message id handed out, 0 at first
    wrapped,        \* history: the id counter has gone round
    kind,           \* kind[o]: what request o asks for
    wire,           \* wire[o]: what has become of request o
    pid,            \* pid[o]: the message id of request o, 0 when it has none
    callback,       \* the callback the loop thread is running
    hasConnection   \* MqttClient::_hasConnection

library == <<link, lastMid, wrapped, kind, wire, pid>>
vars == <<library, callback, hasConnection>>

Links == {"new", "none", "connecting", "up", "refused", "closing"}
Kinds == {"none", "subscribe", "unsubscribe", "publish0", "publish"}
Wires == {"none", "sent", "acked", "lost"}
\* MqttReturnCode, every value but Accepted taken together.
ReturnCodes == {"Accepted", "Refused"}
ReturnValues == {"MOSQ_ERR_SUCCESS"} \cup Failures

Idle == [step |-> "idle", cb |-> "none", rc |-> "none", mid |-> 0]
Events == {"connect", "disconnect", "subscribe", "unsubscribe", "publish", "message"}
Callbacks == [step : {"handle", "notify"}, cb : Events,
              rc : ReturnCodes \cup {"none"}, mid : 0..MaxMid]

-----------------------------------------------------------------------------
(* Return codes.                                                           *)

ErrorOf ==
    [MOSQ_ERR_SUCCESS           |-> "Success",
     MOSQ_ERR_NO_CONN           |-> "NoConnection",
     MOSQ_ERR_NOMEM             |-> "NoMemory",
     MOSQ_ERR_MALFORMED_UTF8    |-> "TopicInvalid",
     MOSQ_ERR_OVERSIZE_PACKET   |-> "PacketOversize",
     MOSQ_ERR_PAYLOAD_SIZE      |-> "PayloadOversize",
     MOSQ_ERR_INVAL             |-> "InvalidArguments",
     MOSQ_ERR_PROTOCOL          |-> "ProtocolError",
     MOSQ_ERR_ERRNO             |-> "SystemError",
     MOSQ_ERR_QOS_NOT_SUPPORTED |-> "QosNotSupported"]

MqttErrorCodes == {ErrorOf[rc] : rc \in DOMAIN ErrorOf} \cup {"Unknown"}

toError(rc) == IF rc \in DOMAIN ErrorOf THEN ErrorOf[rc] ELSE "Unknown"

-----------------------------------------------------------------------------
(* What libmosquitto does (external).                                      *)

NextMidUnwrapped(m) == m + 1  \* mutant: ids grow beyond 16 bits

\* The id counter skips 0 and starts again after MaxMid, whether or not an
\* older request still uses the id.
NextMid(m) == IF m = MaxMid THEN 1 ELSE m + 1

\* Requests that do not survive the loss of the connection; a publish of QoS
\* 1 or 2 is kept and sent again on the next one.
WireAfterLoss ==
    [o \in Ops |-> IF wire[o] = "sent" /\ kind[o] # "publish" THEN "lost" ELSE wire[o]]

\* A connection attempt replaces the present connection, if there is one,
\* without running the disconnect callback.
Open ==
    /\ link' = "connecting"
    /\ wire' = WireAfterLoss
    /\ UNCHANGED <<lastMid, wrapped, kind, pid>>

\* A request gets an id and is put on the wire.  Everything but a publish of
\* QoS 1 or 2 needs an open socket.
Send(o, k) ==
    /\ wire[o] = "none"
    /\ k = "publish" \/ link \in {"connecting", "up"}
    /\ kind' = [kind EXCEPT ![o] = k]
    /\ wire' = [wire EXCEPT ![o] = "sent"]
    /\ pid' = [pid EXCEPT ![o] = NextMid(lastMid)]
    /\ lastMid' = NextMid(lastMid)
    /\ wrapped' = (wrapped \/ lastMid = MaxMid)
    /\ UNCHANGED link

-----------------------------------------------------------------------------
(* The calls of user threads.                                              *)

\* A call that fails changes nothing: of this client, that is.  The library may
\* queue a publish of QoS 1 or 2 that it answers with MOSQ_ERR_NO_CONN and send
\* it later; this is left out, since the caller, told of the failure, has no
\* handler for it and the client keeps no record of it.
Failed(rc) == rc \in Failures /\ UNCHANGED vars

doConnect(rc) ==
    \/ Failed(rc)
    \/ rc \notin Failures /\ Open /\ UNCHANGED <<callback, hasConnection>>

doConnectAsync(rc) ==
    \/ Failed(rc)
    \/ rc \notin Failures /\ Open /\ UNCHANGED <<callback, hasConnection>>

\* Reconnecting needs the address of an earlier connect.
doReconnect(rc) ==
    \/ Failed(rc)
    \/ rc \notin Failures /\ link # "new" /\ Open /\ UNCHANGED <<callback, hasConnection>>

doReconnectAsync(rc) ==
    \/ Failed(rc)
    \/ rc \notin Failures /\ link # "new" /\ Open /\ UNCHANGED <<callback, hasConnection>>

doDisconnect(rc) ==
    \/ Failed(rc)
    \/ /\ rc \notin Failures
       /\ link \in {"connecting", "up", "refused"}
       /\ link' = "closing"
       /\ UNCHANGED <<lastMid, wrapped, kind, wire, pid, callback, hasConnection>>

doSubscribe(o, rc) ==
    \/ Failed(rc)
    \/ rc \notin Failures /\ Send(o, "subscribe") /\ UNCHANGED <<callback, hasConnection>>

doUnsubscribe(o, rc) ==
    \/ Failed(rc)
    \/ rc \notin Failures /\ Send(o, "unsubscribe") /\ UNCHANGED <<callback, hasConnection>>

\* k tells QoS 0 ("publish0") from QoS 1 and 2 ("publish").
doPublish(o, k, rc) ==
    \/ Failed(rc)
    \/ rc \notin Failures /\ Send(o, k) /\ UNCHANGED <<callback, hasConnection>>

-----------------------------------------------------------------------------
(* The loop thread.  libmosquitto starts a callback ...                    *)

Start(step, cb, rc, mid) ==
    /\ callback = Idle
    /\ callback' = [step |-> step, cb |-> cb, rc |-> rc, mid |-> mid]
    /\ UNCHANGED hasConnection

\* The broker answered the connection attempt.
ConnackArrives(rc) ==
    /\ link = "connecting"
    /\ link' = IF rc = "Accepted" THEN "up" ELSE "refused"
    /\ UNCHANGED <<lastMid, wrapped, kind, wire, pid>>
    /\ Start("handle", "connect", rc, 0)

\* The socket was closed.  Unless the user asked for it, the loop thread
\* tries to connect again.
SocketCloses(rc) ==
    /\ link \in {"connecting", "up", "refused", "closing"}
    /\ link' = IF link = "closing" THEN "none" ELSE "connecting"
    /\ wire' = WireAfterLoss
    /\ UNCHANGED <<lastMid, wrapped, kind, pid>>
    /\ Start("handle", "disconnect", rc, 0)

EventOf(k) == IF k = "publish0" THEN "publish" ELSE k

\* Request o is acknowledged (a publish of QoS 0: written to the socket).
AckArrives(o) ==
    /\ link = "up"
    /\ wire[o] = "sent"
    /\ wire' = [wire EXCEPT ![o] = "acked"]
    /\ UNCHANGED <<link, lastMid, wrapped, kind, pid>>
    /\ Start("notify", EventOf(kind[o]), "none", pid[o])

MessageArrives ==
    /\ link = "up"
    /\ UNCHANGED library
    /\ Start("notify", "message", "none", 0)

-----------------------------------------------------------------------------
(* ... and the client's callback runs: the handler, then the signal.       *)

handleConnectForgotten ==  \* mutant: the flag is left for later
    /\ callback.step = "handle" /\ callback.cb = "connect"
    /\ callback' = [callback EXCEPT !.step = "notify"]
    /\ UNCHANGED <<library, hasConnection>>

handleConnect ==
    /\ callback.step = "handle"
    /\ callback.cb = "connect"
    /\ hasConnection' = (hasConnection \/ callback.rc = "Accepted")
    /\ callback' = [callback EXCEPT !.step = "notify"]
    /\ UNCHANGED library

handleDisconnectOnError ==  \* mutant: an orderly disconnect does not reset the flag
    /\ callback.step = "handle" /\ callback.cb = "disconnect"
    /\ hasConnection' = (hasConnection /\ callback.rc = "Accepted")
    /\ callback' = [callback EXCEPT !.step = "notify"]
    /\ UNCHANGED library

handleDisconnect ==
    /\ callback.step = "handle"
    /\ callback.cb = "disconnect"
    /\ hasConnection' = FALSE
    /\ callback' = [callback EXCEPT !.step = "notify"]
    /\ UNCHANGED library

\* The signal has been emitted and the callback returns to libmosquitto.
notify ==
    /\ callback.step = "notify"
    /\ callback' = Idle
    /\ UNCHANGED <<library, hasConnection>>

-----------------------------------------------------------------------------
Init ==
    /\ link = "new"
    /\ lastMid = 0
    /\ wrapped = FALSE
    /\ kind = [o \in Ops |-> "none"]
    /\ wire = [o \in Ops |-> "none"]
    /\ pid = [o \in Ops |-> 0]
    /\ callback = Idle
    /\ hasConnection = FALSE

User ==
    \E rc \in ReturnValues :
        \/ doConnect(rc)
        \/ doConnectAsync(rc)
        \/ doReconnect(rc)
        \/ doReconnectAsync(rc)
        \/ doDisconnect(rc)
        \/ \E o \in Ops :
              \/ doSubscribe(o, rc)
              \/ doUnsubscribe(o, rc)
              \/ \E k \in {"publish0", "publish"} : doPublish(o, k, rc)

Network ==
    \/ \E rc \in ReturnCodes : ConnackArrives(rc) \/ SocketCloses(rc)
    \/ \E o \in Ops : AckArrives(o)
    \/ MessageArrives

Loop == handleConnect \/ handleDisconnect \/ notify

Next == User \/ Network \/ Loop

Spec == Init /\ [][Next]_vars

-----------------------------------------------------------------------------
(* Properties.                                                             *)

\* Every variable keeps its type: message ids stay in the 16-bit range, the
\* flag stays a Boolean, and the loop thread runs one callback at a time.
TypeOK ==
    /\ link \in Links
    /\ lastMid \in 0..MaxMid
    /\ wrapped \in BOOLEAN
    /\ kind \in [Ops -> Kinds]
    /\ wire \in [Ops -> Wires]
    /\ pid \in [Ops -> 0..MaxMid]
    /\ callback \in Callbacks \cup {Idle}
    /\ hasConnection \in BOOLEAN

\* hasConnection() follows the link: outside the window between an event and
\* its handler, the flag is set while the link is up and clear when there is
\* no link, whatever connects, refusals and disconnects came before.  (While
\* an attempt is under way or was refused it may have either value: connect()
\* on a live connection replaces it without a disconnect callback.)
FlagFollowsLink ==
    callback.step # "handle" =>
        /\ link = "up" => hasConnection
        /\ link \in {"new", "none"} => ~hasConnection

\* A slot of onConnect() that is told Accepted finds hasConnection() true,
\* and a slot of onDisconnect() finds it false: the constructor's lambdas run
\* the handler before the signal.
ObserversSeeTheFlag ==
    callback.step = "notify" =>
        /\ callback.cb = "connect" /\ callback.rc = "Accepted" => hasConnection
        /\ callback.cb = "disconnect" => ~hasConnection
=============================================================================
