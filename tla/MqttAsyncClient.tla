-------------------------- MODULE MqttAsyncClient ---------------------------
(***************************************************************************)
(* jar::MqttAsyncClient (network/include/jarvisto/network/                 *)
(* MqttAsyncClient.hpp): asynchronous operations on top of MqttClient.     *)
(*                                                                         *)
(* An operation calls the MqttClient first and, when the call is accepted, *)
(* registers its completion handler under an id in _handlers, guarded by   *)
(* the mutex _guard.  The loop thread's signals look the handler up by id, *)
(* move it out of the map and post it to its executor.  The call and the   *)
(* registration are two steps of the initiating thread, and the removal    *)
(* and the post two steps of the loop thread.                              *)
(*                                                                         *)
(* The module extends MqttClient with the handlers; every step of the      *)
(* client and its library is a step here too.                              *)
(***************************************************************************)
EXTENDS MqttClient

CONSTANTS
    NoOp,    \* no operation
    NDEBUG   \* whether assert() is compiled out

ASSUME NoOpAssumption == NoOp \notin Ops
ASSUME NDEBUGAssumption == NDEBUG \in BOOLEAN

VARIABLES
    method,     \* method[o]: the member function that initiated o
    stage,      \* stage[o]: where the completion handler of o is
    handlers,   \* _handlers: the operation registered under each id, or NoOp
    held,       \* the handler callHandler() has moved out of the map, or NoOp
    result,     \* result[o]: the arguments bound to the handler of o
    calls,      \* calls[o]: how often the handler of o was called
    life,       \* the life of the client object
    late        \* history: operations too late for the running callback

handlerVars == <<method, stage, handlers, held, result, calls, life>>
implVars == <<vars, handlerVars>>
asyncVars == <<implVars, late>>

Methods == {"connect", "disconnect", "subscribe", "unsubscribe", "publish"}
Stages == {"idle", "accepted", "registered", "taken", "posted", "done", "dropped"}
\* "aborted": an assertion failed.  "corrupted": the loop thread used members
\* whose destructors had run (undefined behaviour).
Lives == {"alive", "destroying", "gone", "aborted", "corrupted"}

kConnHandlerId == -2147483647
kDiscHandlerIdSame == kConnHandlerId  \* mutant: both ids are min() + 1
kDiscHandlerId == -2147483646
HandlerIds == {kConnHandlerId, kDiscHandlerId} \cup 1..MaxMid

NoResult == [ec |-> "none", rc |-> "none"]
\* What the two handler classes are called with: (ec, rc), or ec alone.
Results == [ec : MqttErrorCodes, rc : ReturnCodes \cup {"none", "Unknown"}]

\* The handler's class: MqttConnDiscHandler or MqttCompletionHandler.
HandlerT(m) == IF m \in {"connect", "disconnect"} THEN "ConnDisc" ELSE "Completion"

HandlerIdLatest(o) ==  \* mutant: the id of the last request, not of this one
    CASE method[o] = "connect" -> kConnHandlerId
      [] method[o] = "disconnect" -> kDiscHandlerId
      [] OTHER -> lastMid

\* The id an operation registers under, and the id an event looks up.
HandlerId(o) == CASE method[o] = "connect" -> kConnHandlerId
                  [] method[o] = "disconnect" -> kDiscHandlerId
                  [] OTHER -> pid[o]
EventId == CASE callback.cb = "connect" -> kConnHandlerId
             [] callback.cb = "disconnect" -> kDiscHandlerId
             [] OTHER -> callback.mid

-----------------------------------------------------------------------------
(* The initiating functions.                                               *)

\* What an initiating function does once the client has answered rc: on an
\* error it posts the handler with the error code, otherwise it goes on to
\* pushHandler().
Initiated(o, m, rc) ==
    /\ life = "alive"
    /\ stage[o] = "idle"
    /\ method' = [method EXCEPT ![o] = m]
    /\ IF toError(rc) = "Success"
       THEN /\ stage' = [stage EXCEPT ![o] = "accepted"]
            /\ UNCHANGED result
       ELSE /\ stage' = [stage EXCEPT ![o] = "posted"]
            /\ result' = [result EXCEPT ![o] =
                    [ec |-> toError(rc),
                     rc |-> IF HandlerT(m) = "ConnDisc" THEN "Unknown" ELSE "none"]]
    /\ UNCHANGED <<handlers, held, calls, life>>

connect(o, rc) == doConnectAsync(rc) /\ Initiated(o, "connect", rc)
disconnect(o, rc) == doDisconnect(rc) /\ Initiated(o, "disconnect", rc)
subscribe(o, rc) == doSubscribe(o, rc) /\ Initiated(o, "subscribe", rc)
unsubscribe(o, rc) == doUnsubscribe(o, rc) /\ Initiated(o, "unsubscribe", rc)
publish(o, k, rc) == doPublish(o, k, rc) /\ Initiated(o, "publish", rc)

pushHandlerOver(o) ==  \* mutant: a handler already there is replaced
    /\ life = "alive" /\ stage[o] = "accepted"
    /\ handlers' = [handlers EXCEPT ![HandlerId(o)] = o]
    /\ stage' = [stage EXCEPT ![o] = "registered"]
    /\ UNCHANGED <<vars, method, held, result, calls, life>>

\* Under the lock: the assertion that the id is free, then the insertion,
\* which leaves an occupied id alone and destroys the new handler.
pushHandler(o) ==
    /\ life = "alive"
    /\ stage[o] = "accepted"
    /\ \/ /\ handlers[HandlerId(o)] = NoOp
          /\ handlers' = [handlers EXCEPT ![HandlerId(o)] = o]
          /\ stage' = [stage EXCEPT ![o] = "registered"]
          /\ UNCHANGED life
       \/ /\ handlers[HandlerId(o)] # NoOp
          /\ NDEBUG
          /\ stage' = [stage EXCEPT ![o] = "dropped"]
          /\ UNCHANGED <<handlers, life>>
       \/ /\ handlers[HandlerId(o)] # NoOp
          /\ ~NDEBUG
          /\ life' = "aborted"
          /\ UNCHANGED <<stage, handlers>>
    /\ UNCHANGED <<vars, method, held, result, calls>>

-----------------------------------------------------------------------------
(* The loop thread: onConnect ... onPublish run callHandler().             *)

Looking == callback.step = "notify" /\ callback.cb # "message" /\ held = NoOp

callHandlerKeep ==  \* mutant: the entry is not erased
    /\ life = "alive" /\ Looking
    /\ \/ /\ handlers[EventId] = NoOp
          /\ notify
          /\ UNCHANGED handlerVars
       \/ /\ handlers[EventId] # NoOp
          /\ held' = handlers[EventId]
          /\ stage' = [stage EXCEPT ![handlers[EventId]] = "taken"]
          /\ UNCHANGED <<vars, handlers, method, result, calls, life>>

\* Under the lock: find, move the handler out, erase.
callHandler ==
    /\ life = "alive"
    /\ Looking
    /\ \/ /\ handlers[EventId] = NoOp
          /\ notify
          /\ UNCHANGED handlerVars
       \/ /\ handlers[EventId] # NoOp
          /\ held' = handlers[EventId]
          /\ handlers' = [handlers EXCEPT ![EventId] = NoOp]
          /\ stage' = [stage EXCEPT ![handlers[EventId]] = "taken"]
          /\ UNCHANGED <<vars, method, result, calls, life>>

callWithoutPost ==  \* mutant: the handler is destroyed instead of posted
    /\ held # NoOp
    /\ notify
    /\ stage' = [stage EXCEPT ![held] = "dropped"]
    /\ held' = NoOp
    /\ UNCHANGED <<method, handlers, result, calls, life>>

\* After the unlock: MqttHandler::call() casts the handler to the class that
\* goes with the event and, if it is of that class, posts it.
call ==
    /\ held # NoOp
    /\ notify
    /\ IF HandlerT(callback.cb) = HandlerT(method[held])
       THEN /\ stage' = [stage EXCEPT ![held] = "posted"]
            /\ result' = [result EXCEPT ![held] = [ec |-> "Success", rc |-> callback.rc]]
       ELSE /\ stage' = [stage EXCEPT ![held] = "dropped"]
            /\ UNCHANGED result
    /\ held' = NoOp
    /\ UNCHANGED <<method, handlers, calls, life>>

\* No slot of this class listens to onMessage().
ignoreMessage ==
    /\ callback.cb = "message"
    /\ notify
    /\ UNCHANGED handlerVars

-----------------------------------------------------------------------------
\* The executor calls a posted handler.
runCompletion(o) ==
    /\ life \notin {"aborted", "corrupted"}
    /\ stage[o] = "posted"
    /\ stage' = [stage EXCEPT ![o] = "done"]
    /\ calls' = [calls EXCEPT ![o] = @ + 1]
    /\ UNCHANGED <<vars, method, handlers, held, result, life>>

(* The destructor.  Members go in reverse order of declaration: _handlers   *)
(* and _guard first, with the handlers still registered; then _client,      *)
(* whose destructor stops and joins the loop thread.                        *)
destroyHandlers ==
    /\ life = "alive"
    /\ \A o \in Ops : stage[o] # "accepted"
    /\ handlers' = [id \in HandlerIds |-> NoOp]
    /\ stage' = [o \in Ops |-> IF stage[o] = "registered" THEN "dropped" ELSE stage[o]]
    /\ life' = "destroying"
    /\ UNCHANGED <<vars, method, held, result, calls>>

\* mosquitto_loop_stop() is told to force: it cancels the loop thread where
\* it is.  A callback it was in never goes on, and a handler callHandler() had
\* in its hands is never called.
destroyClient ==
    /\ life = "destroying"
    /\ stage' = [o \in Ops |-> IF o = held THEN "dropped" ELSE stage[o]]
    /\ held' = NoOp
    /\ life' = "gone"
    /\ UNCHANGED <<vars, method, handlers, result, calls>>

\* Between the two the loop thread may still run callHandler() on the
\* destroyed map and mutex: it may find nothing or do anything.
callHandlerDestroyed ==
    /\ life = "destroying"
    /\ Looking
    /\ \/ notify /\ UNCHANGED handlerVars
       \/ life' = "corrupted" /\ UNCHANGED <<vars, method, stage, handlers, held, result, calls>>

-----------------------------------------------------------------------------
AsyncInit ==
    /\ Init
    /\ method = [o \in Ops |-> "none"]
    /\ stage = [o \in Ops |-> "idle"]
    /\ handlers = [id \in HandlerIds |-> NoOp]
    /\ held = NoOp
    /\ result = [o \in Ops |-> NoResult]
    /\ calls = [o \in Ops |-> 0]
    /\ life = "alive"
    /\ late = {}

Caller(o) ==
    \/ \E rc \in ReturnValues :
          \/ connect(o, rc)
          \/ disconnect(o, rc)
          \/ subscribe(o, rc)
          \/ unsubscribe(o, rc)
          \/ \E k \in {"publish0", "publish"} : publish(o, k, rc)
    \/ pushHandler(o)

Running == life \in {"alive", "destroying"}

Broker == Running /\ Network /\ UNCHANGED handlerVars

LoopThread ==
    \/ Running /\ (handleConnect \/ handleDisconnect) /\ UNCHANGED handlerVars
    \/ callHandler
    \/ Running /\ call
    \/ Running /\ ignoreMessage
    \/ callHandlerDestroyed

Destructor == destroyHandlers \/ destroyClient

\* Whether no event from before the call can be one that m waits for:
\* requests have ids of their own, a client without a connection has no answer
\* to an earlier connect() under way, and one whose attempt was answered has
\* no earlier loss to report.
NothingUnderWay(m) == CASE m = "connect" -> link \in {"new", "none"}
                        [] m = "disconnect" -> link \in {"up", "refused"}
                        [] OTHER -> TRUE

\* The history: which of these operations were initiated after the event that
\* the running callback is about.
History ==
    late' = IF callback' = Idle THEN {}
            ELSE late \cup {o \in Ops : /\ stage[o] = "idle" /\ stage'[o] = "accepted"
                                       /\ NothingUnderWay(method'[o])}

AsyncStep ==
    \/ \E o \in Ops : Caller(o) \/ runCompletion(o)
    \/ Broker
    \/ LoopThread
    \/ Destructor

AsyncNext == AsyncStep /\ History

AsyncSpec == AsyncInit /\ [][AsyncNext]_asyncVars

\* Threads that have work go on: an initiating function that got its answer
\* reaches pushHandler(), the loop thread finishes its callback, and the
\* executor runs what is posted.  Nothing is assumed of users or the broker.
Fairness ==
    /\ \A o \in Ops : WF_implVars(pushHandler(o)) /\ WF_implVars(runCompletion(o))
    /\ WF_implVars(LoopThread)

FairAsyncSpec == AsyncSpec /\ Fairness

-----------------------------------------------------------------------------
(* Properties.                                                             *)

\* Every variable keeps its type; no handler is ever called twice.
AsyncTypeOK ==
    /\ TypeOK
    /\ method \in [Ops -> Methods \cup {"none"}]
    /\ stage \in [Ops -> Stages]
    /\ handlers \in [HandlerIds -> Ops \cup {NoOp}]
    /\ held \in Ops \cup {NoOp}
    /\ result \in [Ops -> Results \cup {NoResult}]
    /\ calls \in [Ops -> {0, 1}]
    /\ life \in Lives
    /\ late \subseteq Ops

\* The single-ownership discipline of _handlers: an entry holds the handler
\* of the operation that registered under its id and of no other; a handler
\* is in the map, in the hands of callHandler(), or posted, never in two of
\* these places; and the map forgets none it was given.
HandlersAreOwned ==
    /\ \A id \in HandlerIds : handlers[id] # NoOp =>
          stage[handlers[id]] = "registered" /\ HandlerId(handlers[id]) = id
    /\ \A o \in Ops : stage[o] = "registered" => handlers[HandlerId(o)] = o
    /\ \A o \in Ops : stage[o] = "taken" <=> held = o

\* An operation is completed by an event that happened after it was called:
\* for requests as long as message ids have not been reused, for connect() if
\* it was called without a connection or an attempt, and for disconnect() if
\* the last attempt had been answered.  (Nothing ties a connection event to a
\* call but the constant id of its kind: outside these states a connect() made
\* while the answer to an earlier one is being handled takes that answer.)
EventFollowsItsCall == held # NoOp /\ ~wrapped => held \notin late

\* subscribe(), unsubscribe() and publish() report Success only for a request
\* that was itself acknowledged, across lost connections, failed calls and
\* other operations in flight, as long as message ids have not been reused.
SuccessMeansAcknowledged ==
    ~wrapped => \A o \in Ops :
        /\ HandlerT(method[o]) = "Completion"
        /\ result[o].ec = "Success"
        => wire[o] = "acked"

\* pushHandler() finds its id taken (its assertion fails, or in a release
\* build the new handler is lost) only for connect() and disconnect(), whose
\* ids are constants, as long as message ids have not been reused.
CollisionOnlyOnConnection ==
    ~wrapped => \A o \in Ops :
        stage[o] = "accepted" /\ handlers[HandlerId(o)] # NoOp => HandlerT(method[o]) = "ConnDisc"

\* The operations are asynchronous operations in the sense of AsyncOperation:
\* completed at most once, with a result that does not change, or abandoned
\* for good.
PhaseOf(s) == CASE s = "idle" -> "idle"
                [] s \in {"accepted", "registered", "taken", "posted"} -> "pending"
                [] s = "done" -> "completed"
                [] s = "dropped" -> "abandoned"

Abstract == INSTANCE AsyncOperation WITH
    phase <- [o \in Ops |-> PhaseOf(stage[o])],
    outcome <- [o \in Ops |-> IF stage[o] = "done" THEN result[o] ELSE NoResult]

ImplementsAsyncOperation == Abstract!Spec

\* An event whose handler is registered when callHandler() looks it up
\* completes the operation, whatever other operations do meanwhile, unless
\* the client is destroyed or the process dies first.
AnswerCompletes ==
    \A o \in Ops :
        Looking /\ stage[o] = "registered" /\ EventId = HandlerId(o)
        ~> stage[o] = "done" \/ life # "alive"

\* What the tests take for granted: awaiting an operation whose request the
\* broker acknowledged ends.
AcknowledgedCompletes ==
    \A o \in Ops : wire[o] = "acked" ~> stage[o] = "done" \/ life # "alive"
=============================================================================
