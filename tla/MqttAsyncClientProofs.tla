----------------------- MODULE MqttAsyncClientProofs ------------------------
(***************************************************************************)
(* Proofs about MqttAsyncClient, for any operations, any range of message  *)
(* ids, any failure codes, and both kinds of build.                        *)
(*                                                                         *)
(* Every step of the asynchronous client is a step of the client below it  *)
(* or leaves that alone, so the invariants of MqttClientProofs hold here   *)
(* too; the ones below are about the handlers.                             *)
(***************************************************************************)
EXTENDS MqttAsyncClient, MqttClientProofs

ClientInv == TypeInv /\ FlagInv /\ MidInv

\* Each step of the asynchronous client is a step of the client or a stutter.
LEMMA ClientStep == [AsyncNext]_asyncVars => [Next]_vars
<1> SUFFICES ASSUME [AsyncNext]_asyncVars PROVE [Next]_vars
    OBVIOUS
<1>1. CASE UNCHANGED asyncVars
    BY <1>1 DEF asyncVars, implVars
<1>2. ASSUME NEW o \in Ops, Caller(o) PROVE [Next]_vars
    <2>1. CASE pushHandler(o)
        BY <2>1 DEF pushHandler
    <2>2. CASE ~pushHandler(o)
        BY <1>2, <2>2 DEF Caller, connect, disconnect, subscribe, unsubscribe, publish, Next, User
    <2> QED
        BY <2>1, <2>2
<1>3. ASSUME NEW o \in Ops, runCompletion(o) PROVE [Next]_vars
    BY <1>3 DEF runCompletion
<1>4. CASE Broker
    BY <1>4 DEF Broker, Next
<1>5. CASE LoopThread
    BY <1>5 DEF LoopThread, callHandler, call, ignoreMessage, callHandlerDestroyed, Next, Loop
<1>6. CASE Destructor
    BY <1>6 DEF Destructor, destroyHandlers, destroyClient
<1> QED
    BY <1>1, <1>2, <1>3, <1>4, <1>5, <1>6 DEF AsyncNext, AsyncStep

\* The client's invariants hold under the asynchronous client.
LEMMA ClientInvStep == ClientInv /\ [AsyncNext]_asyncVars => ClientInv'
BY ClientStep, TypeStep, FlagStep, MidStep DEF ClientInv

\* They hold when the client has been constructed.
LEMMA ClientInvInit == AsyncInit => ClientInv
BY TypeInit, FlagInit, MidInit DEF AsyncInit, ClientInv

-----------------------------------------------------------------------------
(* The inductive invariant.                                                *)

InFlight == {"accepted", "registered", "taken"}

\* What the stage of an operation says about the rest of its state: one in
\* flight has an id, and its request asks for what the operation does; one
\* that was posted has its arguments; one that is done was called once.
OperationsAreInOrder ==
    \A o \in Ops :
        /\ stage[o] = "idle" => result[o] = NoResult
        /\ stage[o] \in InFlight =>
              /\ method[o] \in Methods
              /\ HandlerT(method[o]) = "Completion" =>
                    pid[o] # 0 /\ method[o] = EventOf(kind[o])
        /\ stage[o] \in {"posted", "done"} => result[o] \in Results
        /\ calls[o] = IF stage[o] = "done" THEN 1 ELSE 0

\* The handler in the loop thread's hands was found under the id of the event
\* the thread is still working on.
HeldForThisEvent ==
    held # NoOp =>
        /\ callback.step = "notify"
        /\ callback.cb # "message"
        /\ EventId = HandlerId(held)

\* SuccessMeansAcknowledged needs the parts before it: that the handler the
\* loop thread posts belongs to the request that was acknowledged.
AsyncInv ==
    /\ AsyncTypeOK
    /\ OperationsAreInOrder
    /\ HandlersAreOwned
    /\ HeldForThisEvent
    /\ SuccessMeansAcknowledged

-----------------------------------------------------------------------------
(* Lemmas about the operators.                                             *)

\* The call succeeded exactly if no error code is reported.
LEMMA ToErrorType ==
    ASSUME NEW rc \in ReturnValues
    PROVE  /\ toError(rc) \in MqttErrorCodes
           /\ toError(rc) = "Success" <=> rc = "MOSQ_ERR_SUCCESS"
BY FailuresAssumption DEF toError, ErrorOf, MqttErrorCodes, ReturnValues

\* The id of an operation in flight is a key of the map.
LEMMA HandlerIdType ==
    ASSUME AsyncTypeOK, OperationsAreInOrder, NEW o \in Ops, stage[o] \in InFlight
    PROVE  HandlerId(o) \in HandlerIds
<1>1. pid[o] \in 0..MaxMid
    BY DEF AsyncTypeOK, TypeOK
<1> QED
    BY <1>1, MidAssumption
    DEF OperationsAreInOrder, HandlerId, HandlerIds, HandlerT, Methods

\* The id of an event is a key of the map.
LEMMA EventIdType ==
    ASSUME ClientInv, callback.step = "notify", callback.cb # "message"
    PROVE  EventId \in HandlerIds
<1>1. callback \in Callbacks
    BY DEF ClientInv, TypeInv, TypeOK, Idle
<1>2. CASE callback.cb \in {"connect", "disconnect"}
    BY <1>2 DEF EventId, HandlerIds
<1>3. CASE callback.cb \notin {"connect", "disconnect"}
    <2>1. callback.cb \in Acks
        BY <1>1, <1>3 DEF Callbacks, Events, Acks
    <2>2. PICK o \in Ops : wire[o] = "acked" /\ pid[o] = callback.mid
        BY <2>1 DEF ClientInv, MidInv, AckIsForSome
    <2>3. callback.mid # 0
        BY <2>2 DEF ClientInv, MidInv, SentHasMid
    <2>4. callback.mid \in 0..MaxMid
        BY <1>1 DEF Callbacks
    <2> QED
        BY <1>3, <2>3, <2>4, MidAssumption DEF EventId, HandlerIds
<1> QED
    BY <1>2, <1>3

\* An operation whose method and message id do not change keeps its id.
LEMMA HandlerIdFrame ==
    ASSUME NEW o \in Ops, method'[o] = method[o], pid'[o] = pid[o]
    PROVE  HandlerId(o)' = HandlerId(o)
BY DEF HandlerId

\* The event the loop thread is working on is the one of the handler it holds,
\* and a request's acknowledgement reaches that request's own handler.
LEMMA HeldIsAcknowledged ==
    ASSUME ClientInv, AsyncInv, held # NoOp, ~wrapped
    PROVE  /\ callback.cb = method[held]
           /\ HandlerT(callback.cb) = "Completion" =>
                 callback.mid = pid[held] /\ wire[held] = "acked"
<1>1. held \in Ops /\ stage[held] = "taken" /\ EventId = HandlerId(held)
    BY DEF AsyncInv, AsyncTypeOK, HandlersAreOwned, HeldForThisEvent
<1>2. callback \in Callbacks /\ callback.cb \in Events \ {"message"}
    BY DEF AsyncInv, HeldForThisEvent, ClientInv, TypeInv, TypeOK, Callbacks, Idle
<1>3. method[held] \in Methods
    BY <1>1 DEF AsyncInv, OperationsAreInOrder, InFlight
<1>4. pid[held] \in 0..MaxMid /\ callback.mid \in 0..MaxMid
    BY <1>1, <1>2 DEF ClientInv, TypeInv, TypeOK, Callbacks
<1>5. CASE callback.cb \in {"connect", "disconnect"}
    BY <1>1, <1>2, <1>3, <1>4, <1>5, MidAssumption
    DEF EventId, HandlerId, HandlerT, kConnHandlerId, kDiscHandlerId, Methods
<1>6. CASE callback.cb \in Acks
    <2>1. PICK o \in Ops : /\ wire[o] = "acked"
                           /\ pid[o] = callback.mid
                           /\ EventOf(kind[o]) = callback.cb
        BY <1>6 DEF ClientInv, MidInv, AckIsForSome
    <2>2. HandlerT(method[held]) = "Completion" /\ pid[held] = callback.mid
        BY <1>1, <1>3, <1>4, <1>6, MidAssumption
        DEF EventId, HandlerId, HandlerT, kConnHandlerId, kDiscHandlerId, Methods, Acks
    <2>3. pid[held] # 0 /\ method[held] = EventOf(kind[held])
        BY <1>1, <2>2 DEF AsyncInv, OperationsAreInOrder, InFlight
    <2>4. o = held
        BY <1>1, <2>1, <2>2, <2>3 DEF ClientInv, MidInv, MidsAreUnique
    <2> QED
        BY <2>1, <2>2, <2>3, <2>4
<1> QED
    BY <1>2, <1>5, <1>6 DEF Events, Acks

-----------------------------------------------------------------------------
(* The steps.                                                              *)

\* A step of the client that initiates nothing: the network's, a handler of
\* the loop thread.  It keeps the ids of all requests, forgets no
\* acknowledgement, and does not touch the callback of a held handler.
LEMMA QuietStep ==
    ASSUME ClientInv, AsyncInv, ClientInv', late' \subseteq Ops,
           UNCHANGED <<kind, pid, wrapped, handlerVars>>,
           \A o \in Ops : wire[o] = "acked" => wire'[o] = "acked",
           held = NoOp \/ UNCHANGED callback
    PROVE  AsyncInv'
<1> USE DEF AsyncInv, handlerVars
<1>1. AsyncTypeOK'
    BY DEF AsyncTypeOK, ClientInv, TypeInv
<1>2. OperationsAreInOrder'
    BY DEF OperationsAreInOrder, EventOf, HandlerT
<1>3. HandlersAreOwned'
    BY DEF HandlersAreOwned, HandlerId
<1>4. HeldForThisEvent'
    BY DEF HeldForThisEvent, HandlerId, EventId
<1>5. SuccessMeansAcknowledged'
    BY DEF SuccessMeansAcknowledged, HandlerT
<1> QED
    BY <1>1, <1>2, <1>3, <1>4, <1>5

\* The client call made by the member function m on behalf of o.
ClientCall(o, m, rc) ==
    \/ m = "connect" /\ doConnectAsync(rc)
    \/ m = "disconnect" /\ doDisconnect(rc)
    \/ m = "subscribe" /\ doSubscribe(o, rc)
    \/ m = "unsubscribe" /\ doUnsubscribe(o, rc)
    \/ m = "publish" /\ \E k \in {"publish0", "publish"} : doPublish(o, k, rc)

\* What the client call does to requests: nothing to other ones, and the
\* initiator's own gets an id if the call succeeds.
LEMMA ClientCallFacts ==
    ASSUME ClientInv, NEW o \in Ops, NEW m \in Methods, NEW rc \in ReturnValues,
           ClientCall(o, m, rc)
    PROVE  /\ \A p \in Ops \ {o} : pid'[p] = pid[p] /\ kind'[p] = kind[p]
           /\ \A p \in Ops : wire[p] = "acked" => wire'[p] = "acked"
           /\ wrapped => wrapped'
           /\ UNCHANGED callback
           /\ toError(rc) = "Success" /\ HandlerT(m) = "Completion" =>
                 pid'[o] # 0 /\ EventOf(kind'[o]) = m /\ wire'[o] = "sent"
<1> USE DEF ClientInv, TypeInv, TypeOK
<1>1. CASE rc \in Failures /\ UNCHANGED vars
    BY <1>1, ToErrorType, FailuresAssumption DEF vars, library
<1>2. CASE m = "connect" /\ Open /\ UNCHANGED callback
    BY <1>2 DEF Open, WireAfterLoss, HandlerT
<1>3. CASE m = "disconnect" /\ UNCHANGED <<lastMid, wrapped, kind, wire, pid, callback>>
    BY <1>3 DEF HandlerT
<1>4. ASSUME NEW k \in Kinds, EventOf(k) = m, Send(o, k), UNCHANGED callback
      PROVE  /\ \A p \in Ops \ {o} : pid'[p] = pid[p] /\ kind'[p] = kind[p]
             /\ \A p \in Ops : wire[p] = "acked" => wire'[p] = "acked"
             /\ wrapped => wrapped'
             /\ UNCHANGED callback
             /\ pid'[o] # 0 /\ EventOf(kind'[o]) = m /\ wire'[o] = "sent"
    <2>1. NextMid(lastMid) \in 1..MaxMid
        BY NextMidType
    <2>2. NextMid(lastMid) # 0
        BY <2>1, MidAssumption
    <2>3. pid'[o] = NextMid(lastMid) /\ kind'[o] = k
        BY <1>4 DEF Send
    <2>4. wrapped => wrapped'
        BY <1>4 DEF Send
    <2>5. \A p \in Ops \ {o} : pid'[p] = pid[p] /\ kind'[p] = kind[p] /\ wire'[p] = wire[p]
        BY <1>4 DEF Send
    <2> QED
        BY <1>4, <2>2, <2>3, <2>4, <2>5 DEF Send
<1>5. EventOf("subscribe") = "subscribe" /\ EventOf("unsubscribe") = "unsubscribe"
      /\ EventOf("publish") = "publish" /\ EventOf("publish0") = "publish"
    BY DEF EventOf
<1>6. CASE m = "connect" /\ doConnectAsync(rc)
    BY <1>6, <1>1, <1>2 DEF doConnectAsync, Failed
<1>7. CASE m = "disconnect" /\ doDisconnect(rc)
    BY <1>7, <1>1, <1>3 DEF doDisconnect, Failed
<1>8. CASE m = "subscribe" /\ doSubscribe(o, rc)
    BY <1>8, <1>1, <1>4, <1>5 DEF doSubscribe, Failed, Kinds
<1>9. CASE m = "unsubscribe" /\ doUnsubscribe(o, rc)
    BY <1>9, <1>1, <1>4, <1>5 DEF doUnsubscribe, Failed, Kinds
<1>10. CASE m = "publish" /\ \E k \in {"publish0", "publish"} : doPublish(o, k, rc)
    BY <1>10, <1>1, <1>4, <1>5 DEF doPublish, Failed, Kinds
<1> QED
    BY <1>6, <1>7, <1>8, <1>9, <1>10 DEF ClientCall

\* connect() ... publish() up to the answer of the client.
LEMMA InitiatedStep ==
    ASSUME ClientInv, AsyncInv, ClientInv', late' \subseteq Ops, NEW o \in Ops, NEW m \in Methods,
           NEW rc \in ReturnValues, ClientCall(o, m, rc), Initiated(o, m, rc)
    PROVE  AsyncInv'
<1> USE DEF AsyncInv
<1>1. /\ \A p \in Ops \ {o} : pid'[p] = pid[p] /\ kind'[p] = kind[p]
      /\ \A p \in Ops : wire[p] = "acked" => wire'[p] = "acked"
      /\ wrapped => wrapped'
      /\ UNCHANGED callback
      /\ toError(rc) = "Success" /\ HandlerT(m) = "Completion" =>
            pid'[o] # 0 /\ EventOf(kind'[o]) = m
    BY ClientCallFacts
<1>2. /\ stage[o] = "idle"
      /\ method' = [method EXCEPT ![o] = m]
      /\ UNCHANGED <<handlers, held, calls, life>>
    BY DEF Initiated
<1>3. \A p \in Ops \ {o} : method'[p] = method[p] /\ stage'[p] = stage[p] /\ result'[p] = result[p]
    BY DEF Initiated, AsyncTypeOK
<1>4. \/ toError(rc) = "Success" /\ stage'[o] = "accepted" /\ result'[o] = result[o]
      \/ /\ toError(rc) # "Success" /\ stage'[o] = "posted"
         /\ result'[o] = [ec |-> toError(rc),
                          rc |-> IF HandlerT(m) = "ConnDisc" THEN "Unknown" ELSE "none"]
    BY DEF Initiated, AsyncTypeOK
<1>5. method'[o] = m /\ result[o] = NoResult
    BY <1>2 DEF AsyncTypeOK, OperationsAreInOrder
<1>6. toError(rc) # "Success" => result'[o] \in Results
    BY <1>4, ToErrorType DEF Results, ReturnCodes
<1>7. AsyncTypeOK'
    <2>1. TypeOK'
        BY DEF ClientInv, TypeInv
    <2>2. method' \in [Ops -> Methods \cup {"none"}] /\ stage' \in [Ops -> Stages]
        BY DEF AsyncTypeOK, Initiated, Stages
    <2>3. result' \in [Ops -> Results \cup {NoResult}]
        <3>1. [ec |-> toError(rc),
               rc |-> IF HandlerT(m) = "ConnDisc" THEN "Unknown" ELSE "none"] \in Results
            BY ToErrorType DEF Results, ReturnCodes
        <3> QED
            BY <3>1 DEF AsyncTypeOK, Initiated
    <2> QED
        BY <1>2, <2>1, <2>2, <2>3 DEF AsyncTypeOK
<1>8. OperationsAreInOrder'
    <2> SUFFICES ASSUME NEW p \in Ops
        PROVE  /\ stage'[p] = "idle" => result'[p] = NoResult
               /\ stage'[p] \in InFlight =>
                     /\ method'[p] \in Methods
                     /\ HandlerT(method'[p]) = "Completion" =>
                           pid'[p] # 0 /\ method'[p] = EventOf(kind'[p])
               /\ stage'[p] \in {"posted", "done"} => result'[p] \in Results
               /\ calls'[p] = IF stage'[p] = "done" THEN 1 ELSE 0
        BY DEF OperationsAreInOrder, HandlerT, EventOf
    <2>1. CASE p = o
        BY <1>1, <1>2, <1>4, <1>5, <1>6, <2>1 DEF OperationsAreInOrder, InFlight
    <2>2. CASE p # o
        BY <1>1, <1>2, <1>3, <2>2 DEF OperationsAreInOrder, InFlight
    <2> QED
        BY <2>1, <2>2
<1>9. \A p \in Ops \ {o} : HandlerId(p)' = HandlerId(p)
    BY <1>1, <1>3, HandlerIdFrame
<1>10. HandlersAreOwned'
    BY <1>2, <1>3, <1>4, <1>9 DEF HandlersAreOwned, AsyncTypeOK
<1>11. HeldForThisEvent'
    <2>1. held # NoOp => held \in Ops \ {o}
        BY <1>2 DEF AsyncTypeOK, HandlersAreOwned
    <2> QED
        BY <1>1, <1>2, <1>9, <2>1 DEF HeldForThisEvent, EventId
<1>12. SuccessMeansAcknowledged'
    BY <1>1, <1>3, <1>4, <1>5 DEF SuccessMeansAcknowledged, NoResult, HandlerT
<1> QED
    BY <1>7, <1>8, <1>10, <1>11, <1>12

\* Steps that leave the client below alone: the ids and the event stay.
LEMMA SameClient ==
    ASSUME UNCHANGED <<vars, method>>
    PROVE  /\ \A o \in Ops : HandlerId(o)' = HandlerId(o)
           /\ EventId' = EventId
           /\ UNCHANGED <<kind, pid, wire, wrapped, callback>>
BY DEF vars, library, HandlerId, EventId

\* The handler enters the map under a free id, or is dropped.
LEMMA pushHandlerStep ==
    ASSUME ClientInv, AsyncInv, ClientInv', late' \subseteq Ops, NEW o \in Ops, pushHandler(o)
    PROVE  AsyncInv'
<1> USE DEF AsyncInv
<1>1. UNCHANGED <<vars, method, held, result, calls>> /\ stage[o] = "accepted"
    BY DEF pushHandler
<1>2. /\ \A p \in Ops : HandlerId(p)' = HandlerId(p)
      /\ EventId' = EventId
      /\ UNCHANGED <<kind, pid, wire, wrapped, callback>>
    BY <1>1, SameClient
<1>3. HandlerId(o) \in HandlerIds
    BY <1>1, HandlerIdType DEF InFlight
<1>4. \/ /\ handlers[HandlerId(o)] = NoOp
         /\ handlers' = [handlers EXCEPT ![HandlerId(o)] = o]
         /\ stage' = [stage EXCEPT ![o] = "registered"]
      \/ handlers' = handlers /\ stage' = [stage EXCEPT ![o] = "dropped"]
      \/ UNCHANGED <<stage, handlers>>
    BY DEF pushHandler
<1>5. AsyncTypeOK'
    BY <1>1, <1>3 DEF pushHandler, AsyncTypeOK, Stages, Lives, ClientInv, TypeInv
<1>6. OperationsAreInOrder'
    BY <1>1, <1>2, <1>4 DEF OperationsAreInOrder, AsyncTypeOK, InFlight, HandlerT, EventOf
<1>7. HandlersAreOwned'
    <2>1. CASE /\ handlers[HandlerId(o)] = NoOp
               /\ handlers' = [handlers EXCEPT ![HandlerId(o)] = o]
               /\ stage' = [stage EXCEPT ![o] = "registered"]
        <3>1. \A p \in Ops : stage[p] = "registered" => HandlerId(p) # HandlerId(o) /\ p # o
            BY <1>1, <2>1, NoOpAssumption DEF HandlersAreOwned
        <3>2. \A id \in HandlerIds : handlers[id] # NoOp => handlers[id] \in Ops \ {o}
            BY <1>1 DEF HandlersAreOwned, AsyncTypeOK
        <3>3. \A p \in Ops : stage'[p] = "taken" <=> held' = p
            BY <1>1, <2>1 DEF HandlersAreOwned, AsyncTypeOK
        <3> QED
            BY <1>2, <1>3, <2>1, <3>1, <3>2, <3>3 DEF HandlersAreOwned, AsyncTypeOK
    <2>2. CASE handlers' = handlers /\ stage' = [stage EXCEPT ![o] = "dropped"]
        BY <1>1, <1>2, <2>2 DEF HandlersAreOwned, AsyncTypeOK
    <2>3. CASE UNCHANGED <<stage, handlers>>
        BY <1>1, <1>2, <2>3 DEF HandlersAreOwned, AsyncTypeOK
    <2> QED
        BY <1>4, <2>1, <2>2, <2>3
<1>8. HeldForThisEvent'
    BY <1>1, <1>2 DEF HeldForThisEvent, AsyncTypeOK
<1>9. SuccessMeansAcknowledged'
    BY <1>1, <1>2 DEF SuccessMeansAcknowledged, HandlerT
<1> QED
    BY <1>5, <1>6, <1>7, <1>8, <1>9

\* The handler leaves the map for the hands of the loop thread.
LEMMA callHandlerStep ==
    ASSUME ClientInv, AsyncInv, ClientInv', late' \subseteq Ops, callHandler
    PROVE  AsyncInv'
<1> USE DEF AsyncInv
<1>1. Looking /\ EventId \in HandlerIds
    BY EventIdType DEF callHandler, Looking
<1>2. CASE handlers[EventId] = NoOp
    <2>1. UNCHANGED <<kind, pid, wire, wrapped, handlerVars>> /\ held = NoOp
        BY <1>1, <1>2 DEF callHandler, Looking, notify, library
    <2> QED
        BY <2>1, QuietStep
<1>3. CASE handlers[EventId] # NoOp
    <2> DEFINE h == handlers[EventId]
    <2>1. /\ held' = h
          /\ handlers' = [handlers EXCEPT ![EventId] = NoOp]
          /\ stage' = [stage EXCEPT ![h] = "taken"]
          /\ UNCHANGED <<vars, method, result, calls, life>>
        BY <1>3 DEF callHandler
    <2>2. h \in Ops /\ stage[h] = "registered" /\ HandlerId(h) = EventId
        BY <1>1, <1>3 DEF HandlersAreOwned, AsyncTypeOK
    <2>3. /\ \A p \in Ops : HandlerId(p)' = HandlerId(p)
          /\ EventId' = EventId
          /\ UNCHANGED <<kind, pid, wire, wrapped, callback>>
        BY <2>1, SameClient
    <2> HIDE DEF h
    <2>4. AsyncTypeOK'
        BY <1>1, <2>1, <2>2 DEF AsyncTypeOK, Stages, ClientInv, TypeInv
    <2>5. OperationsAreInOrder'
        BY <2>1, <2>2, <2>3 DEF OperationsAreInOrder, AsyncTypeOK, InFlight, HandlerT, EventOf
    <2>6. HandlersAreOwned'
        <3>1. \A p \in Ops : stage[p] # "taken"
            BY <1>1, NoOpAssumption DEF HandlersAreOwned, Looking
        <3>2. \A p \in Ops \ {h} : stage[p] = "registered" => HandlerId(p) # EventId
            BY <2>2 DEF HandlersAreOwned, h
        <3>3. \A id \in HandlerIds \ {EventId} : handlers[id] # h
            BY <2>2, NoOpAssumption DEF HandlersAreOwned, AsyncTypeOK
        <3> QED
            BY <1>1, <2>1, <2>2, <2>3, <3>1, <3>2, <3>3 DEF HandlersAreOwned, AsyncTypeOK
    <2>7. HeldForThisEvent'
        BY <1>1, <2>1, <2>2, <2>3 DEF HeldForThisEvent, Looking
    <2>8. SuccessMeansAcknowledged'
        BY <2>1, <2>3 DEF SuccessMeansAcknowledged, HandlerT
    <2> QED
        BY <2>4, <2>5, <2>6, <2>7, <2>8
<1> QED
    BY <1>2, <1>3

\* The loop thread posts the handler with the event's outcome.
LEMMA callStep ==
    ASSUME ClientInv, AsyncInv, ClientInv', late' \subseteq Ops, call
    PROVE  AsyncInv'
<1> USE DEF AsyncInv
<1>1. /\ held # NoOp /\ held' = NoOp
      /\ UNCHANGED <<library, method, handlers, calls, life>>
    BY DEF call, notify
<1>2. held \in Ops /\ stage[held] = "taken" /\ callback.cb # "message" /\ callback.step = "notify"
    BY <1>1 DEF AsyncTypeOK, HandlersAreOwned, HeldForThisEvent
<1>3. \A p \in Ops : HandlerId(p)' = HandlerId(p)
    BY <1>1 DEF library, HandlerId
<1>4. [ec |-> "Success", rc |-> callback.rc] \in Results
    <2>1. callback.rc \in ReturnCodes \cup {"none"}
        BY <1>2 DEF ClientInv, TypeInv, TypeOK, Callbacks, Idle
    <2>2. "Success" \in MqttErrorCodes
        BY DEF MqttErrorCodes, ErrorOf
    <2> QED
        BY <2>1, <2>2 DEF Results
<1>5. \/ /\ HandlerT(callback.cb) = HandlerT(method[held])
         /\ stage' = [stage EXCEPT ![held] = "posted"]
         /\ result' = [result EXCEPT ![held] = [ec |-> "Success", rc |-> callback.rc]]
      \/ stage' = [stage EXCEPT ![held] = "dropped"] /\ UNCHANGED result
    BY DEF call
<1>6. AsyncTypeOK'
    BY <1>1, <1>2, <1>4, <1>5 DEF AsyncTypeOK, Stages, ClientInv, TypeInv
<1>7. OperationsAreInOrder'
    BY <1>1, <1>2, <1>4, <1>5
    DEF OperationsAreInOrder, AsyncTypeOK, InFlight, HandlerT, EventOf, library
<1>8. HandlersAreOwned'
    BY <1>1, <1>2, <1>3, <1>5, NoOpAssumption DEF HandlersAreOwned, AsyncTypeOK
<1>9. HeldForThisEvent'
    BY <1>1 DEF HeldForThisEvent
<1>10. SuccessMeansAcknowledged'
    <2> SUFFICES ASSUME ~wrapped, NEW p \in Ops, HandlerT(method[p]) = "Completion",
                        result'[p].ec = "Success"
                 PROVE  wire[p] = "acked"
        BY <1>1 DEF SuccessMeansAcknowledged, library, HandlerT
    <2>1. CASE result'[p] = result[p]
        BY <2>1 DEF SuccessMeansAcknowledged
    <2>2. CASE result'[p] # result[p]
        <3>1. p = held /\ HandlerT(callback.cb) = "Completion"
            BY <1>2, <1>5, <2>2 DEF AsyncTypeOK
        <3> QED
            BY <1>1, <3>1, HeldIsAcknowledged
    <2> QED
        BY <2>1, <2>2
<1> QED
    BY <1>6, <1>7, <1>8, <1>9, <1>10

\* A posted handler is called for the first and only time.
LEMMA runCompletionStep ==
    ASSUME ClientInv, AsyncInv, ClientInv', late' \subseteq Ops, NEW o \in Ops, runCompletion(o)
    PROVE  AsyncInv'
<1> USE DEF AsyncInv
<1>1. /\ UNCHANGED <<vars, method, handlers, held, result, life>>
      /\ stage[o] = "posted"
      /\ stage' = [stage EXCEPT ![o] = "done"]
      /\ calls' = [calls EXCEPT ![o] = calls[o] + 1]
    BY DEF runCompletion
<1>2. /\ \A p \in Ops : HandlerId(p)' = HandlerId(p)
      /\ EventId' = EventId
      /\ UNCHANGED <<kind, pid, wire, wrapped, callback>>
    BY <1>1, SameClient
<1>3. calls[o] = 0
    BY <1>1 DEF OperationsAreInOrder
<1>4. AsyncTypeOK'
    BY <1>1, <1>3 DEF AsyncTypeOK, Stages, ClientInv, TypeInv
<1>5. OperationsAreInOrder'
    BY <1>1, <1>2, <1>3 DEF OperationsAreInOrder, AsyncTypeOK, InFlight, HandlerT, EventOf
<1>6. HandlersAreOwned'
    BY <1>1, <1>2 DEF HandlersAreOwned, AsyncTypeOK
<1>7. HeldForThisEvent' /\ SuccessMeansAcknowledged'
    BY <1>1, <1>2 DEF HeldForThisEvent, SuccessMeansAcknowledged, HandlerT, AsyncTypeOK
<1> QED
    BY <1>4, <1>5, <1>6, <1>7

\* The destructor drops what is still registered.
LEMMA DestructorStep ==
    ASSUME ClientInv, AsyncInv, ClientInv', late' \subseteq Ops, Destructor
    PROVE  AsyncInv'
<1> USE DEF AsyncInv
<1>1. UNCHANGED <<vars, method, result, calls>>
    BY DEF Destructor, destroyHandlers, destroyClient
<1>2. /\ \A p \in Ops : HandlerId(p)' = HandlerId(p)
      /\ EventId' = EventId
      /\ UNCHANGED <<kind, pid, wire, wrapped, callback>>
    BY <1>1, SameClient
<1>3. \/ /\ handlers' = [id \in HandlerIds |-> NoOp]
         /\ stage' = [o \in Ops |-> IF stage[o] = "registered" THEN "dropped" ELSE stage[o]]
         /\ held' = held
      \/ /\ handlers' = handlers
         /\ stage' = [o \in Ops |-> IF o = held THEN "dropped" ELSE stage[o]]
         /\ held' = NoOp
    BY DEF Destructor, destroyHandlers, destroyClient
<1>4. AsyncTypeOK'
    <2>1. life' \in Lives
        BY DEF Destructor, destroyHandlers, destroyClient, Lives
    <2> QED
        BY <1>1, <1>3, <2>1 DEF AsyncTypeOK, Stages, ClientInv, TypeInv
<1>5. OperationsAreInOrder'
    <2>1. \A p \in Ops : stage'[p] = stage[p]
                        \/ (stage[p] \in {"registered", "taken"} /\ stage'[p] = "dropped")
        BY <1>3 DEF HandlersAreOwned, AsyncTypeOK
    <2> QED
        BY <1>1, <1>2, <2>1 DEF OperationsAreInOrder, AsyncTypeOK, InFlight, HandlerT, EventOf
<1>6. HandlersAreOwned'
    BY <1>1, <1>2, <1>3, NoOpAssumption DEF HandlersAreOwned, AsyncTypeOK
<1>7. HeldForThisEvent' /\ SuccessMeansAcknowledged'
    BY <1>1, <1>2, <1>3 DEF HeldForThisEvent, SuccessMeansAcknowledged, HandlerT, AsyncTypeOK
<1> QED
    BY <1>4, <1>5, <1>6, <1>7

-----------------------------------------------------------------------------
(* The theorems.                                                           *)

\* At first the map is empty and no operation has begun.
LEMMA AsyncInvInit == AsyncInit => AsyncInv
<1> SUFFICES ASSUME AsyncInit PROVE AsyncInv
    OBVIOUS
<1>1. TypeOK
    BY TypeInit DEF AsyncInit, TypeInv
<1>2. AsyncTypeOK
    BY <1>1 DEF AsyncInit, AsyncTypeOK, Stages, Lives
<1>3. OperationsAreInOrder /\ SuccessMeansAcknowledged
    BY DEF AsyncInit, OperationsAreInOrder, SuccessMeansAcknowledged, InFlight, NoResult
<1>4. HandlersAreOwned /\ HeldForThisEvent
    BY NoOpAssumption DEF AsyncInit, HandlersAreOwned, HeldForThisEvent
<1> QED
    BY <1>2, <1>3, <1>4 DEF AsyncInv

\* The invariant of the handlers is inductive relative to the client's.
LEMMA AsyncInvStep == ClientInv /\ AsyncInv /\ [AsyncNext]_asyncVars => AsyncInv'
<1> SUFFICES ASSUME ClientInv, AsyncInv, [AsyncNext]_asyncVars PROVE AsyncInv'
    OBVIOUS
<1>1. ClientInv' /\ late' \subseteq Ops
    BY ClientInvStep DEF AsyncNext, History, asyncVars, AsyncInv, AsyncTypeOK
<1>2. CASE UNCHANGED asyncVars
    BY <1>1, <1>2, QuietStep DEF asyncVars, implVars, vars, library
<1>3. ASSUME NEW o \in Ops, Caller(o) PROVE AsyncInv'
    <2>1. CASE pushHandler(o)
        BY <1>1, <2>1, pushHandlerStep
    <2>2. CASE ~pushHandler(o)
        <3>1. PICK m \in Methods, rc \in ReturnValues : ClientCall(o, m, rc) /\ Initiated(o, m, rc)
            BY <1>3, <2>2
            DEF Caller, connect, disconnect, subscribe, unsubscribe, publish, ClientCall, Methods
        <3> QED
            BY <1>1, <3>1, InitiatedStep
    <2> QED
        BY <2>1, <2>2
<1>4. ASSUME NEW o \in Ops, runCompletion(o) PROVE AsyncInv'
    BY <1>1, <1>4, runCompletionStep
<1>5. CASE Broker
    <2>1. callback = Idle /\ UNCHANGED <<kind, pid, wrapped, handlerVars>>
        BY <1>5 DEF Broker, Network, ConnackArrives, SocketCloses, AckArrives, MessageArrives,
                    Start, library
    <2>2. held = NoOp
        BY <2>1 DEF AsyncInv, HeldForThisEvent, Idle
    <2>3. \A p \in Ops : wire[p] = "acked" => wire'[p] = "acked"
        <3>1. \/ wire' = wire \/ wire' = WireAfterLoss
              \/ \E o \in Ops : wire' = [wire EXCEPT ![o] = "acked"]
            BY <1>5 DEF Broker, Network, ConnackArrives, SocketCloses, AckArrives,
                        MessageArrives, library
        <3> QED
            BY <3>1 DEF WireAfterLoss, ClientInv, TypeInv, TypeOK
    <2> QED
        BY <1>1, <2>1, <2>2, <2>3, QuietStep
<1>6. CASE LoopThread
    <2>1. ASSUME UNCHANGED <<library, handlerVars>>, held = NoOp PROVE AsyncInv'
        BY <1>1, <2>1, QuietStep DEF library
    <2>2. ASSUME (handleConnect \/ handleDisconnect) /\ UNCHANGED handlerVars PROVE AsyncInv'
        <3>1. held = NoOp
            BY <2>2 DEF handleConnect, handleDisconnect, AsyncInv, HeldForThisEvent
        <3> QED
            BY <2>1, <2>2, <3>1 DEF handleConnect, handleDisconnect
    <2>3. CASE callHandler
        BY <1>1, <2>3, callHandlerStep
    <2>4. CASE call
        BY <1>1, <2>4, callStep
    <2>5. CASE ignoreMessage
        <3>1. held = NoOp
            BY <2>5 DEF ignoreMessage, AsyncInv, HeldForThisEvent
        <3> QED
            BY <2>1, <2>5, <3>1 DEF ignoreMessage, notify
    <2>6. CASE callHandlerDestroyed
        <3>1. CASE notify /\ UNCHANGED handlerVars
            BY <2>1, <2>6, <3>1 DEF callHandlerDestroyed, Looking, notify
        <3>2. CASE life' = "corrupted" /\ UNCHANGED <<vars, method, stage, handlers, held, result, calls>>
            <4>1. /\ \A p \in Ops : HandlerId(p)' = HandlerId(p)
                  /\ EventId' = EventId
                  /\ UNCHANGED <<kind, pid, wire, wrapped, callback>>
                BY <3>2, SameClient
            <4>2. AsyncTypeOK'
                BY <1>1, <3>2 DEF AsyncInv, AsyncTypeOK, Lives, ClientInv, TypeInv
            <4>3. OperationsAreInOrder'
                BY <3>2, <4>1 DEF AsyncInv, OperationsAreInOrder, HandlerT, EventOf
            <4>4. HandlersAreOwned'
                BY <3>2, <4>1 DEF AsyncInv, HandlersAreOwned, AsyncTypeOK
            <4>5. HeldForThisEvent' /\ SuccessMeansAcknowledged'
                BY <3>2, <4>1
                DEF AsyncInv, HeldForThisEvent, SuccessMeansAcknowledged, HandlerT, AsyncTypeOK
            <4> QED
                BY <4>2, <4>3, <4>4, <4>5 DEF AsyncInv
        <3> QED
            BY <2>6, <3>1, <3>2 DEF callHandlerDestroyed
    <2> QED
        BY <1>6, <2>2, <2>3, <2>4, <2>5, <2>6 DEF LoopThread
<1>7. CASE Destructor
    BY <1>1, <1>7, DestructorStep
<1> QED
    BY <1>2, <1>3, <1>4, <1>5, <1>6, <1>7 DEF AsyncNext, AsyncStep

\* The invariants hold in every state of the asynchronous client.
THEOREM AsyncInvariant == AsyncSpec => [](ClientInv /\ AsyncInv)
<1>1. AsyncInit => ClientInv /\ AsyncInv
    BY ClientInvInit, AsyncInvInit
<1>2. ClientInv /\ AsyncInv /\ [AsyncNext]_asyncVars => ClientInv' /\ AsyncInv'
    BY ClientInvStep, AsyncInvStep
<1> QED
    BY <1>1, <1>2, PTL DEF AsyncSpec

\* Type correctness; in particular no handler is ever called twice.
THEOREM AsyncTypeCorrect == AsyncSpec => []AsyncTypeOK
<1>1. AsyncInv => AsyncTypeOK
    BY DEF AsyncInv
<1> QED
    BY AsyncInvariant, <1>1, PTL

\* Completion handlers have one owner at every moment.
THEOREM AsyncOwnership == AsyncSpec => []HandlersAreOwned
<1>1. AsyncInv => HandlersAreOwned
    BY DEF AsyncInv
<1> QED
    BY AsyncInvariant, <1>1, PTL

\* Success is reported only for acknowledged requests.
THEOREM AsyncSuccess == AsyncSpec => []SuccessMeansAcknowledged
<1>1. AsyncInv => SuccessMeansAcknowledged
    BY DEF AsyncInv
<1> QED
    BY AsyncInvariant, <1>1, PTL

\* pushHandler() finds its id taken for connect() and disconnect() only.
THEOREM AsyncCollisions == AsyncSpec => []CollisionOnlyOnConnection
<1>1. ASSUME ClientInv, AsyncInv PROVE CollisionOnlyOnConnection
    <2> SUFFICES ASSUME ~wrapped, NEW o \in Ops, stage[o] = "accepted",
                        handlers[HandlerId(o)] # NoOp, HandlerT(method[o]) # "ConnDisc"
                 PROVE  FALSE
        BY DEF CollisionOnlyOnConnection
    <2> DEFINE p == handlers[HandlerId(o)]
    <2>1. HandlerId(o) \in HandlerIds
        BY <1>1, HandlerIdType DEF AsyncInv, InFlight
    <2>2. p \in Ops /\ stage[p] = "registered" /\ HandlerId(p) = HandlerId(o)
        BY <1>1, <2>1 DEF AsyncInv, AsyncTypeOK, HandlersAreOwned
    <2> HIDE DEF p
    <2>3. method[o] \in Methods /\ pid[o] # 0 /\ HandlerId(o) = pid[o]
        BY <1>1 DEF AsyncInv, OperationsAreInOrder, InFlight, HandlerT, HandlerId
    <2>4. pid[o] \in 0..MaxMid /\ method[p] \in Methods
        BY <1>1, <2>2 DEF AsyncInv, AsyncTypeOK, TypeOK, OperationsAreInOrder, InFlight
    <2>5. pid[p] = pid[o]
        BY <2>2, <2>3, <2>4, MidAssumption DEF HandlerId, kConnHandlerId, kDiscHandlerId
    <2>6. p = o
        BY <1>1, <2>2, <2>3, <2>5 DEF ClientInv, MidInv, MidsAreUnique
    <2> QED
        BY <2>2, <2>6
<1> QED
    BY AsyncInvariant, <1>1, PTL

-----------------------------------------------------------------------------
(* Events and the calls made after them.                                   *)

\* While there is no connection or attempt no answer is being handled, and
\* while an attempt stands answered no loss is.
LinkInv ==
    /\ link \in {"new", "none"} => callback.cb # "connect"
    /\ link \in {"up", "refused"} => callback.cb # "disconnect"

\* The running callback is of no interest to an operation that came after its
\* event: it is of another kind, or about the id of another request.
LateInv ==
    /\ callback = Idle => late = {}
    /\ \A o \in late :
          /\ stage[o] # "idle"
          /\ method[o] \in {"connect", "disconnect"} => callback.cb # method[o]
          /\ ~wrapped /\ HandlerT(method[o]) = "Completion" /\ callback.cb \in Acks
                => callback.mid # pid[o]

\* The client and its library keep the first of the two.
LEMMA LinkStep == ClientInv /\ LinkInv /\ [Next]_vars => LinkInv'
<1> SUFFICES ASSUME ClientInv, LinkInv, [Next]_vars PROVE LinkInv'
    OBVIOUS
<1> USE DEF LinkInv
<1>1. CASE UNCHANGED <<link, callback>>
    BY <1>1
<1>2. CASE link' \in {"connecting", "closing"}
    BY <1>2
<1>3. CASE User
    BY <1>1, <1>2, <1>3
    DEF User, doConnect, doConnectAsync, doReconnect, doReconnectAsync, doDisconnect,
        doSubscribe, doUnsubscribe, doPublish, Failed, Open, Send, vars, library
<1>4. CASE Network
    <2>1. \A o \in Ops : EventOf(kind[o]) \notin {"connect", "disconnect"}
        BY DEF ClientInv, TypeInv, TypeOK, Kinds, EventOf
    <2> QED
        BY <1>4, <2>1
        DEF Network, ConnackArrives, SocketCloses, AckArrives, MessageArrives, Start, library
<1>5. CASE Loop
    <2>1. callback.step = "handle" => callback \in Callbacks
        BY DEF ClientInv, TypeInv, TypeOK, Idle
    <2>2. link' = link /\ (callback' = Idle \/ callback'.cb = callback.cb)
        BY <1>5, <2>1 DEF Loop, handleConnect, handleDisconnect, notify, library, Callbacks
    <2> QED
        BY <2>2 DEF Idle
<1> QED
    BY <1>1, <1>3, <1>4, <1>5 DEF Next, vars, library

\* An operation that has begun keeps its method and its request's id, and no
\* id counter goes back; a callback ends, begins while no operation does, or
\* stays about the same event.
LEMMA LateFrame ==
    ASSUME ClientInv, AsyncInv, AsyncStep
    PROVE  /\ \A o \in Ops : stage[o] # "idle" =>
                 stage'[o] # "idle" /\ method'[o] = method[o] /\ pid'[o] = pid[o]
           /\ wrapped => wrapped'
           /\ \/ callback' = Idle
              \/ callback = Idle /\ stage' = stage
              \/ callback'.cb = callback.cb /\ callback'.mid = callback.mid
<1> DEFINE Kept == \A o \in Ops : stage[o] # "idle" =>
                     stage'[o] # "idle" /\ method'[o] = method[o] /\ pid'[o] = pid[o]
           Event == \/ callback' = Idle
                    \/ callback = Idle /\ stage' = stage
                    \/ callback'.cb = callback.cb /\ callback'.mid = callback.mid
<1>1. stage \in [Ops -> Stages] /\ held \in Ops \cup {NoOp}
    BY DEF AsyncInv, AsyncTypeOK
<1>2. ASSUME NEW o \in Ops, Caller(o) PROVE Kept /\ (wrapped => wrapped') /\ Event
    <2>1. CASE pushHandler(o)
        BY <1>1, <2>1 DEF pushHandler, vars, library
    <2>2. CASE ~pushHandler(o)
        <3>1. PICK m \in Methods, rc \in ReturnValues : ClientCall(o, m, rc) /\ Initiated(o, m, rc)
            BY <1>2, <2>2
            DEF Caller, connect, disconnect, subscribe, unsubscribe, publish, ClientCall, Methods
        <3>2. /\ \A p \in Ops \ {o} : pid'[p] = pid[p]
              /\ wrapped => wrapped'
              /\ UNCHANGED callback
            BY <3>1, ClientCallFacts
        <3>3. \A p \in Ops : stage[p] # "idle" =>
                 p # o /\ stage'[p] = stage[p] /\ method'[p] = method[p]
            BY <1>1, <3>1 DEF Initiated, AsyncInv, AsyncTypeOK
        <3> QED
            BY <3>2, <3>3
    <2> QED
        BY <2>1, <2>2
<1>3. ASSUME NEW o \in Ops, runCompletion(o) PROVE Kept /\ (wrapped => wrapped') /\ Event
    BY <1>1, <1>3 DEF runCompletion, vars, library
<1>4. CASE Broker
    BY <1>4 DEF Broker, Network, ConnackArrives, SocketCloses, AckArrives, MessageArrives, Start,
                handlerVars, library
<1>5. CASE LoopThread
    <2>1. UNCHANGED <<method, pid, wrapped>>
        BY <1>5 DEF LoopThread, handleConnect, handleDisconnect, callHandler, call, ignoreMessage,
                    callHandlerDestroyed, notify, handlerVars, vars, library
    <2>2. Event
        <3>1. callback.step = "handle" => callback \in Callbacks
            BY DEF ClientInv, TypeInv, TypeOK, Idle
        <3> QED
            BY <1>5, <3>1
            DEF LoopThread, handleConnect, handleDisconnect, callHandler, call, ignoreMessage,
                callHandlerDestroyed, notify, vars, Callbacks
    <2>3. \A o \in Ops : stage[o] # "idle" => stage'[o] # "idle"
        BY <1>1, <1>5
        DEF LoopThread, callHandler, call, ignoreMessage, callHandlerDestroyed, handlerVars
    <2> QED
        BY <2>1, <2>2, <2>3
<1>6. CASE Destructor
    BY <1>1, <1>6 DEF Destructor, destroyHandlers, destroyClient, vars, library
<1> QED
    BY <1>2, <1>3, <1>4, <1>5, <1>6 DEF AsyncStep

\* An operation that comes in while a callback runs is late for it.
LEMMA LateCall ==
    ASSUME ClientInv, ClientInv', AsyncInv, LinkInv, AsyncStep, callback' # Idle,
           NEW o \in Ops, stage[o] = "idle", stage'[o] = "accepted", NothingUnderWay(method'[o])
    PROVE  /\ method'[o] \in {"connect", "disconnect"} => callback'.cb # method'[o]
           /\ ~wrapped' /\ HandlerT(method'[o]) = "Completion" /\ callback'.cb \in Acks
                 => callback'.mid # pid'[o]
<1>1. stage \in [Ops -> Stages] /\ held \in Ops \cup {NoOp} /\ stage' # stage
    BY DEF AsyncInv, AsyncTypeOK
<1>2. PICK m \in Methods, rc \in ReturnValues : ClientCall(o, m, rc) /\ Initiated(o, m, rc)
    <2>1. PICK p \in Ops : Caller(p) /\ ~pushHandler(p)
        <3>1. ~Broker
            BY <1>1 DEF Broker, handlerVars
        <3>2. ~Destructor
            BY <1>1 DEF Destructor, destroyHandlers, destroyClient
        <3>3. ~LoopThread
            BY <1>1 DEF LoopThread, callHandler, call, ignoreMessage, callHandlerDestroyed, handlerVars
        <3>4. \A p \in Ops : ~pushHandler(p) /\ ~runCompletion(p)
            BY <1>1 DEF pushHandler, runCompletion
        <3> QED
            BY <3>1, <3>2, <3>3, <3>4 DEF AsyncStep
    <2>2. PICK m \in Methods, rc \in ReturnValues : ClientCall(p, m, rc) /\ Initiated(p, m, rc)
        BY <2>1
        DEF Caller, connect, disconnect, subscribe, unsubscribe, publish, ClientCall, Methods
    <2>3. p = o
        BY <1>1, <2>2 DEF Initiated
    <2> QED
        BY <2>2, <2>3
<1>3. method'[o] = m /\ toError(rc) = "Success"
    BY <1>1, <1>2 DEF Initiated, AsyncInv, AsyncTypeOK
<1>4. /\ \A p \in Ops \ {o} : pid'[p] = pid[p]
      /\ \A p \in Ops : wire[p] = "acked" => wire'[p] = "acked"
      /\ UNCHANGED callback
      /\ HandlerT(m) = "Completion" => wire'[o] = "sent"
    BY <1>2, <1>3, ClientCallFacts
<1>5. CASE m \in {"connect", "disconnect"}
    BY <1>3, <1>4, <1>5 DEF NothingUnderWay, LinkInv, HandlerT
<1>6. CASE HandlerT(m) = "Completion"
    <2> SUFFICES ASSUME ~wrapped', callback.cb \in Acks, callback.mid = pid'[o] PROVE FALSE
        BY <1>3, <1>4, <1>6 DEF HandlerT
    <2>1. PICK p \in Ops : wire[p] = "acked" /\ pid[p] = callback.mid
        BY DEF ClientInv, MidInv, AckIsForSome
    <2>2. p # o /\ wire'[p] = "acked" /\ pid'[p] = pid'[o]
        BY <1>4, <1>6, <2>1
    <2> QED
        BY <1>4, <1>6, <2>2 DEF ClientInv, MidInv, MidsAreUnique, SentHasMid
<1> QED
    BY <1>5, <1>6 DEF HandlerT

\* Each step keeps LateInv.
LEMMA LateStep ==
    ClientInv /\ AsyncInv /\ LinkInv /\ LateInv /\ [AsyncNext]_asyncVars => LateInv'
<1> SUFFICES ASSUME ClientInv, AsyncInv, LinkInv, LateInv, [AsyncNext]_asyncVars PROVE LateInv'
    OBVIOUS
<1>1. CASE UNCHANGED asyncVars
    BY <1>1 DEF LateInv, HandlerT, asyncVars, implVars, handlerVars, vars, library
<1>2. CASE AsyncNext
    <2>1. ClientInv' /\ AsyncStep /\ History
        BY <1>2, ClientInvStep DEF AsyncNext
    <2>2. CASE callback' = Idle
        BY <2>1, <2>2 DEF History, LateInv
    <2>3. CASE callback' # Idle
        <3> SUFFICES ASSUME NEW o \in late'
            PROVE  /\ stage'[o] # "idle"
                   /\ method'[o] \in {"connect", "disconnect"} => callback'.cb # method'[o]
                   /\ ~wrapped' /\ HandlerT(method'[o]) = "Completion" /\ callback'.cb \in Acks
                         => callback'.mid # pid'[o]
            BY <2>3 DEF LateInv, HandlerT
        <3>1. \/ o \in late
              \/ /\ o \in Ops /\ stage[o] = "idle" /\ stage'[o] = "accepted"
                 /\ NothingUnderWay(method'[o])
            BY <2>1, <2>3 DEF History
        <3>2. CASE o \in late
            <4>1. o \in Ops /\ stage[o] # "idle" /\ callback # Idle
                BY <3>2 DEF LateInv, AsyncInv, AsyncTypeOK
            <4>2. /\ stage'[o] # "idle" /\ method'[o] = method[o] /\ pid'[o] = pid[o]
                  /\ wrapped => wrapped'
                  /\ callback'.cb = callback.cb /\ callback'.mid = callback.mid
                BY <2>1, <2>3, <4>1, LateFrame
            <4> QED
                BY <3>2, <4>2 DEF LateInv, HandlerT
        <3>3. CASE /\ o \in Ops /\ stage[o] = "idle" /\ stage'[o] = "accepted"
                   /\ NothingUnderWay(method'[o])
            BY <2>1, <2>3, <3>3, LateCall
        <3> QED
            BY <3>1, <3>2, <3>3
    <2> QED
        BY <2>2, <2>3
<1> QED
    BY <1>1, <1>2

\* No operation is completed by an event from before its call, as long as its
\* kind of event can be told from earlier ones.
THEOREM AsyncEventsFollow == AsyncSpec => []EventFollowsItsCall
<1>1. AsyncInit => LinkInv /\ LateInv
    BY DEF AsyncInit, Init, LinkInv, LateInv, Idle
<1>2. ClientInv /\ AsyncInv /\ LinkInv /\ LateInv /\ [AsyncNext]_asyncVars => LinkInv' /\ LateInv'
    BY ClientStep, LinkStep, LateStep
<1>3. ClientInv /\ AsyncInv /\ LateInv => EventFollowsItsCall
    <2> SUFFICES ASSUME ClientInv, AsyncInv, LateInv, held # NoOp, ~wrapped, held \in late
                 PROVE  FALSE
        BY DEF EventFollowsItsCall
    <2>1. /\ callback.cb = method[held]
          /\ HandlerT(callback.cb) = "Completion" => callback.mid = pid[held]
        BY HeldIsAcknowledged
    <2>2. held \in Ops /\ stage[held] = "taken"
        BY DEF AsyncInv, AsyncTypeOK, HandlersAreOwned
    <2>3. method[held] \in Methods
        BY <2>2 DEF AsyncInv, OperationsAreInOrder, InFlight
    <2> QED
        BY <2>1, <2>3 DEF LateInv, HandlerT, Methods, Acks
<1> QED
    BY <1>1, <1>2, <1>3, AsyncInvariant, PTL DEF AsyncSpec

-----------------------------------------------------------------------------
(* Refinement of AsyncOperation.                                           *)

\* The refinement mapping.
phase == [o \in Ops |-> PhaseOf(stage[o])]
outcome == [o \in Ops |-> IF stage[o] = "done" THEN result[o] ELSE NoResult]

\* The phase of each stage.
LEMMA PhaseOfFacts ==
    /\ PhaseOf("idle") = "idle"
    /\ \A s \in {"accepted", "registered", "taken", "posted"} : PhaseOf(s) = "pending"
    /\ PhaseOf("done") = "completed"
    /\ PhaseOf("dropped") = "abandoned"
BY DEF PhaseOf

\* Only a handler that is not done gets its arguments, and only a step of
\* runCompletion() makes one done.
LEMMA SameOutcome ==
    ASSUME \A o \in Ops : stage'[o] = "done" <=> stage[o] = "done",
           \A o \in Ops : stage[o] = "done" => result'[o] = result[o]
    PROVE  outcome' = outcome
BY DEF outcome

\* A step that moves no operation to another phase is a stutter.
LEMMA SamePhase ==
    ASSUME \A o \in Ops : PhaseOf(stage'[o]) = PhaseOf(stage[o])
    PROVE  phase' = phase
BY DEF phase

\* Dropping handlers that have not been called abandons their operations.
LEMMA AbandonStep ==
    ASSUME \A o \in Ops : \/ stage'[o] = stage[o]
                          \/ stage[o] \in InFlight /\ stage'[o] = "dropped",
           UNCHANGED result
    PROVE  Abstract!Abandon
<1>1. outcome' = outcome
    BY SameOutcome DEF InFlight
<1>2. \A o \in Ops : phase'[o] # phase[o] => phase[o] = "pending" /\ phase'[o] = "abandoned"
    BY PhaseOfFacts DEF phase, InFlight
<1>3. phase' = [o \in Ops |-> phase'[o]]
    BY DEF phase
<1> QED
    BY <1>1, <1>2, <1>3 DEF Abstract!Abandon, phase, outcome

\* At first every operation is idle.
LEMMA RefinementInit == AsyncInit => Abstract!Init
BY DEF AsyncInit, Abstract!Init, PhaseOf

\* Every step of the asynchronous client is a step of AsyncOperation or a
\* stutter.
LEMMA RefinementStep ==
    ASSUME ClientInv, AsyncInv, AsyncInv', [AsyncNext]_asyncVars
    PROVE  [Abstract!Next]_<<phase, outcome>>
<1>1. stage \in [Ops -> Stages] /\ result \in [Ops -> Results \cup {NoResult}]
    BY DEF AsyncInv, AsyncTypeOK
<1>2. ASSUME UNCHANGED <<stage, result>> PROVE UNCHANGED <<phase, outcome>>
    BY <1>2 DEF phase, outcome
<1>3. ASSUME Abstract!Abandon PROVE [Abstract!Next]_<<phase, outcome>>
    BY <1>3 DEF Abstract!Next
<1>4. CASE UNCHANGED asyncVars
    BY <1>2, <1>4 DEF asyncVars, implVars, handlerVars
<1>5. ASSUME NEW o \in Ops, NEW m, NEW rc, Initiated(o, m, rc)
      PROVE [Abstract!Next]_<<phase, outcome>>
    <2>1. stage[o] = "idle" /\ stage'[o] \in {"accepted", "posted"}
          /\ \A p \in Ops \ {o} : stage'[p] = stage[p] /\ result'[p] = result[p]
        BY <1>1, <1>5 DEF Initiated
    <2>2. outcome' = outcome
        BY <2>1, SameOutcome
    <2>3. phase[o] = "idle" /\ phase' = [phase EXCEPT ![o] = "pending"]
        BY <2>1, PhaseOfFacts DEF phase
    <2>4. Abstract!Initiate(o)
        BY <2>2, <2>3 DEF Abstract!Initiate, phase, outcome
    <2> QED
        BY <2>4 DEF Abstract!Next
<1>6. ASSUME NEW o \in Ops, pushHandler(o) PROVE [Abstract!Next]_<<phase, outcome>>
    <2>1. CASE stage' = [stage EXCEPT ![o] = "registered"]
        <3>1. phase' = phase
            BY <1>1, <1>6, <2>1, SamePhase, PhaseOfFacts DEF pushHandler
        <3>2. outcome' = outcome
            BY <1>1, <1>6, <2>1, SameOutcome DEF pushHandler
        <3> QED
            BY <3>1, <3>2
    <2>2. CASE stage' = [stage EXCEPT ![o] = "dropped"] \/ stage' = stage
        BY <1>1, <1>3, <1>6, <2>2, AbandonStep DEF pushHandler, InFlight
    <2> QED
        BY <1>6, <2>1, <2>2 DEF pushHandler
<1>7. ASSUME NEW o \in Ops, runCompletion(o) PROVE [Abstract!Next]_<<phase, outcome>>
    <2>1. stage[o] = "posted" /\ stage' = [stage EXCEPT ![o] = "done"] /\ UNCHANGED result
        BY <1>7 DEF runCompletion
    <2>2. result[o] \in Results
        BY <2>1 DEF AsyncInv, OperationsAreInOrder
    <2>3. phase[o] = "pending" /\ phase' = [phase EXCEPT ![o] = "completed"]
        BY <1>1, <2>1, PhaseOfFacts DEF phase
    <2>4. outcome'[o] = result[o] /\ outcome' = [outcome EXCEPT ![o] = outcome'[o]]
        BY <1>1, <2>1 DEF outcome
    <2>5. Abstract!Complete(o)
        BY <2>2, <2>3, <2>4 DEF Abstract!Complete, phase, outcome
    <2> QED
        BY <2>5 DEF Abstract!Next
<1>8. CASE callHandler
    <2>1. CASE UNCHANGED handlerVars
        BY <1>2, <2>1 DEF handlerVars
    <2>2. CASE /\ handlers[EventId] # NoOp
               /\ stage' = [stage EXCEPT ![handlers[EventId]] = "taken"]
               /\ UNCHANGED result
        <3>1. EventId \in HandlerIds
            BY <1>8, EventIdType DEF callHandler, Looking
        <3>2. handlers[EventId] \in Ops /\ stage[handlers[EventId]] = "registered"
            BY <2>2, <3>1 DEF AsyncInv, AsyncTypeOK, HandlersAreOwned
        <3>3. phase' = phase
            BY <1>1, <2>2, <3>2, SamePhase, PhaseOfFacts
        <3>4. outcome' = outcome
            BY <1>1, <2>2, <3>2, SameOutcome
        <3> QED
            BY <3>3, <3>4
    <2> QED
        BY <1>8, <2>1, <2>2 DEF callHandler
<1>9. CASE call
    <2>1. held \in Ops /\ stage[held] = "taken"
        BY <1>9 DEF call, AsyncInv, AsyncTypeOK, HandlersAreOwned
    <2>2. CASE stage' = [stage EXCEPT ![held] = "posted"]
        <3>1. phase' = phase
            BY <1>1, <2>1, <2>2, SamePhase, PhaseOfFacts
        <3>2. \A p \in Ops \ {held} : result'[p] = result[p]
            BY <1>1, <1>9, <2>1 DEF call
        <3>3. outcome' = outcome
            BY <1>1, <2>1, <2>2, <3>2, SameOutcome
        <3> QED
            BY <3>1, <3>3
    <2>3. CASE stage' = [stage EXCEPT ![held] = "dropped"] /\ UNCHANGED result
        BY <1>1, <1>3, <2>1, <2>3, AbandonStep DEF InFlight
    <2> QED
        BY <1>9, <2>2, <2>3 DEF call
<1>10. CASE Destructor
    <2>1. UNCHANGED result /\ \A o \in Ops :
             stage'[o] = stage[o] \/ (stage[o] \in InFlight /\ stage'[o] = "dropped")
        BY <1>10
        DEF Destructor, destroyHandlers, destroyClient, AsyncInv, HandlersAreOwned, InFlight
    <2> QED
        BY <1>3, <2>1, AbandonStep
<1>11. CASE Broker
    BY <1>2, <1>11 DEF Broker, handlerVars
<1>12. CASE LoopThread
    <2>1. callHandler \/ call \/ UNCHANGED <<stage, result>>
        BY <1>12 DEF LoopThread, ignoreMessage, callHandlerDestroyed, handlerVars
    <2> QED
        BY <1>2, <1>8, <1>9, <2>1
<1>13. ASSUME NEW o \in Ops, Caller(o) PROVE [Abstract!Next]_<<phase, outcome>>
    BY <1>5, <1>6, <1>13 DEF Caller, connect, disconnect, subscribe, unsubscribe, publish
<1> QED
    BY <1>4, <1>7, <1>10, <1>11, <1>12, <1>13 DEF AsyncNext, AsyncStep

\* MqttAsyncClient implements AsyncOperation: whatever the threads, the
\* broker and the destructor do, an operation completes at most once with a
\* result that does not change, or is abandoned for good.
THEOREM AsyncRefinement == AsyncSpec => ImplementsAsyncOperation
<1>1. ClientInv /\ AsyncInv /\ (ClientInv /\ AsyncInv)' /\ [AsyncNext]_asyncVars
        => [Abstract!Next]_<<phase, outcome>>
    BY RefinementStep
<1>2. AsyncInit => Abstract!Init
    BY RefinementInit
<1> QED
    BY <1>1, <1>2, AsyncInvariant, PTL
    DEF AsyncSpec, ImplementsAsyncOperation, Abstract!Spec, phase, outcome
=============================================================================
