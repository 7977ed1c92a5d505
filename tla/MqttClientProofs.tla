-------------------------- MODULE MqttClientProofs --------------------------
(***************************************************************************)
(* Proofs about MqttClient, for any set of requests, any range of message  *)
(* ids and any failure codes.                                              *)
(***************************************************************************)
EXTENDS MqttClient, TLAPS

-----------------------------------------------------------------------------
(* Types.                                                                  *)

\* An id taken from the counter is in the range of ids, and not 0.
LEMMA NextMidType ==
    ASSUME NEW i \in 0..MaxMid
    PROVE  NextMid(i) \in 1..MaxMid
BY MidAssumption DEF NextMid

\* A request that was sent says what it asks for.
SentHasKind == \A o \in Ops : wire[o] # "none" => kind[o] # "none"

TypeInv == TypeOK /\ SentHasKind

\* A new client has the right types.
LEMMA TypeInit == Init => TypeInv
<1> SUFFICES ASSUME Init PROVE TypeInv
    OBVIOUS
<1>1. link \in Links /\ kind \in [Ops -> Kinds] /\ wire \in [Ops -> Wires] /\ SentHasKind
    BY DEF Init, Links, Kinds, Wires, SentHasKind
<1>2. lastMid \in 0..MaxMid /\ pid \in [Ops -> 0..MaxMid]
    BY MidAssumption DEF Init
<1>3. wrapped \in BOOLEAN /\ hasConnection \in BOOLEAN /\ callback \in Callbacks \cup {Idle}
    BY DEF Init
<1> QED
    BY <1>1, <1>2, <1>3 DEF TypeInv, TypeOK

\* Losing a connection only turns "sent" into "lost".
LEMMA WireAfterLossType ==
    ASSUME TypeOK
    PROVE  WireAfterLoss \in [Ops -> Wires]
BY DEF TypeOK, WireAfterLoss, Wires

\* Each step of the client and its library keeps the types.
LEMMA TypeStep == TypeInv /\ [Next]_vars => TypeInv'
<1> SUFFICES ASSUME TypeInv, [Next]_vars PROVE TypeInv'
    OBVIOUS
<1> USE DEF TypeInv, TypeOK, SentHasKind
<1>1. CASE UNCHANGED vars
    BY <1>1 DEF vars, library
<1>2. ASSUME Open, UNCHANGED <<callback, hasConnection>> PROVE TypeInv'
    BY <1>2, WireAfterLossType DEF Open, Links, WireAfterLoss
<1>3. ASSUME NEW o \in Ops, NEW k \in Kinds \ {"none"}, Send(o, k),
             UNCHANGED <<callback, hasConnection>>
      PROVE TypeInv'
    <2>1. NextMid(lastMid) \in 0..MaxMid
        BY NextMidType, MidAssumption
    <2>2. wrapped' \in BOOLEAN
        BY <1>3 DEF Send
    <2> QED
        BY <1>3, <2>1, <2>2 DEF Send, Wires
<1>4. ASSUME NEW rc \in ReturnValues, doDisconnect(rc) PROVE TypeInv'
    BY <1>4, <1>1 DEF doDisconnect, Failed, Links
<1>5. CASE User
    <2>1. ASSUME NEW rc \in ReturnValues,
                 \/ doConnect(rc) \/ doConnectAsync(rc)
                 \/ doReconnect(rc) \/ doReconnectAsync(rc)
          PROVE TypeInv'
        BY <2>1, <1>1, <1>2 DEF doConnect, doConnectAsync, doReconnect, doReconnectAsync, Failed
    <2>2. ASSUME NEW rc \in ReturnValues, NEW o \in Ops,
                 \/ doSubscribe(o, rc) \/ doUnsubscribe(o, rc)
                 \/ \E k \in {"publish0", "publish"} : doPublish(o, k, rc)
          PROVE TypeInv'
        BY <2>2, <1>1, <1>3 DEF doSubscribe, doUnsubscribe, doPublish, Failed, Kinds
    <2> QED
        BY <1>5, <2>1, <2>2, <1>4 DEF User
<1>6. CASE Network
    <2>1. ASSUME NEW step \in {"handle", "notify"}, NEW cb \in Events,
                 NEW rc \in ReturnCodes \cup {"none"}, NEW mid \in 0..MaxMid,
                 Start(step, cb, rc, mid)
          PROVE callback' \in Callbacks \cup {Idle} /\ hasConnection' \in BOOLEAN
        <3>1. callback' \in Callbacks
            BY <2>1 DEF Start, Callbacks
        <3>2. hasConnection' \in BOOLEAN
            BY <2>1 DEF Start
        <3> QED
            BY <3>1, <3>2
    <2>2. ASSUME NEW rc \in ReturnCodes, ConnackArrives(rc) PROVE TypeInv'
        BY <2>1, <2>2, MidAssumption DEF ConnackArrives, Links, Events
    <2>3. ASSUME NEW rc \in ReturnCodes, SocketCloses(rc) PROVE TypeInv'
        BY <2>1, <2>3, MidAssumption, WireAfterLossType DEF SocketCloses, Links, Events, WireAfterLoss
    <2>4. ASSUME NEW o \in Ops, AckArrives(o) PROVE TypeInv'
        <3>1. EventOf(kind[o]) \in Events
            BY <2>4 DEF AckArrives, EventOf, Events, Kinds
        <3> QED
            BY <2>1, <2>4, <3>1 DEF AckArrives, Wires
    <2>5. CASE MessageArrives
        BY <2>1, <2>5, MidAssumption DEF MessageArrives, Events, library
    <2> QED
        BY <1>6, <2>2, <2>3, <2>4, <2>5 DEF Network
<1>7. CASE Loop
    <2>1. ASSUME callback' = [callback EXCEPT !.step = "notify"], callback # Idle
          PROVE callback' \in Callbacks
        BY <2>1 DEF Callbacks
    <2>2. CASE handleConnect
        BY <2>1, <2>2 DEF handleConnect, library, Idle
    <2>3. CASE handleDisconnect
        <3>1. callback' \in Callbacks
            BY <2>1, <2>3 DEF handleDisconnect, Idle
        <3>2. hasConnection' \in BOOLEAN
            BY <2>3 DEF handleDisconnect
        <3> QED
            BY <2>3, <3>1, <3>2 DEF handleDisconnect, library
    <2>4. CASE notify
        BY <2>4 DEF notify, library
    <2> QED
        BY <1>7, <2>2, <2>3, <2>4 DEF Loop
<1> QED
    BY <1>1, <1>5, <1>6, <1>7 DEF Next

\* MqttClient is type correct.
THEOREM ClientTypeCorrect == Spec => []TypeOK
<1>1. TypeInv => TypeOK
    BY DEF TypeInv
<1> QED
    BY TypeInit, TypeStep, <1>1, PTL DEF Spec

-----------------------------------------------------------------------------
(* The connection flag.                                                    *)

\* What is true of the link while a handler is about to run.  An accepted
\* attempt is the only way to a link that is up, and as no other callback
\* runs meanwhile, no other answer can come before the handler has set the
\* flag.
HandlerPending ==
    callback.step = "handle" =>
        \/ /\ callback.cb = "connect"
           /\ link \notin {"new", "none"}
           /\ link = "up" => callback.rc = "Accepted"
        \/ /\ callback.cb = "disconnect"
           /\ link # "up"

FlagInv == HandlerPending /\ FlagFollowsLink /\ ObserversSeeTheFlag

\* A new client has no connection and no callback.
LEMMA FlagInit == Init => FlagInv
BY DEF Init, Idle, FlagInv, HandlerPending, FlagFollowsLink, ObserversSeeTheFlag

\* The flag invariant is inductive relative to the types.
LEMMA FlagStep == TypeInv /\ FlagInv /\ [Next]_vars => FlagInv'
<1> SUFFICES ASSUME TypeInv, FlagInv, [Next]_vars PROVE FlagInv'
    OBVIOUS
<1> USE DEF FlagInv, HandlerPending, FlagFollowsLink, ObserversSeeTheFlag
<1>1. CASE UNCHANGED vars
    BY <1>1 DEF vars, library
<1>2. CASE User
    <2>1. ASSUME link' \notin {"new", "none", "up"}, UNCHANGED <<callback, hasConnection>>
          PROVE  FlagInv'
        BY <2>1
    <2>2. ASSUME UNCHANGED <<link, callback, hasConnection>> PROVE FlagInv'
        BY <2>2
    <2>3. ASSUME NEW rc \in ReturnValues,
                 \/ doConnect(rc) \/ doConnectAsync(rc)
                 \/ doReconnect(rc) \/ doReconnectAsync(rc) \/ doDisconnect(rc)
          PROVE FlagInv'
        BY <2>1, <2>3, <1>1
           DEF doConnect, doConnectAsync, doReconnect, doReconnectAsync, doDisconnect, Failed, Open
    <2>4. ASSUME NEW rc \in ReturnValues, NEW o \in Ops,
                 \/ doSubscribe(o, rc) \/ doUnsubscribe(o, rc)
                 \/ \E k \in {"publish0", "publish"} : doPublish(o, k, rc)
          PROVE FlagInv'
        BY <2>2, <2>4, <1>1 DEF doSubscribe, doUnsubscribe, doPublish, Failed, Send
    <2> QED
        BY <1>2, <2>3, <2>4 DEF User
<1>3. CASE Network
    <2>1. ASSUME NEW rc \in ReturnCodes, ConnackArrives(rc) PROVE FlagInv'
        BY <2>1 DEF ConnackArrives, Start
    <2>2. ASSUME NEW rc \in ReturnCodes, SocketCloses(rc) PROVE FlagInv'
        BY <2>2 DEF SocketCloses, Start
    <2>3. ASSUME NEW o \in Ops, AckArrives(o) PROVE FlagInv'
        <3>1. EventOf(kind[o]) \notin {"connect", "disconnect"}
            BY DEF TypeInv, TypeOK, Kinds, EventOf
        <3> QED
            BY <2>3, <3>1 DEF AckArrives, Start, Idle
    <2>4. CASE MessageArrives
        BY <2>4 DEF MessageArrives, Start, Idle, library
    <2> QED
        BY <1>3, <2>1, <2>2, <2>3, <2>4 DEF Network
<1>4. CASE Loop
    <2>1. callback.step # "idle" =>
             [callback EXCEPT !.step = "notify"] =
                [step |-> "notify", cb |-> callback.cb, rc |-> callback.rc, mid |-> callback.mid]
        BY DEF TypeInv, TypeOK, Callbacks, Idle
    <2>2. CASE handleConnect
        BY <2>1, <2>2 DEF handleConnect, library
    <2>3. CASE handleDisconnect
        BY <2>1, <2>3 DEF handleDisconnect, library
    <2>4. CASE notify
        BY <2>4 DEF notify, library, Idle
    <2> QED
        BY <1>4, <2>2, <2>3, <2>4 DEF Loop
<1> QED
    BY <1>1, <1>2, <1>3, <1>4 DEF Next

\* Nobody is left with a stale flag: what both theorems below rest on.
LEMMA FlagInvariant == Spec => [](TypeInv /\ FlagInv)
<1>1. Init => TypeInv /\ FlagInv
    BY TypeInit, FlagInit
<1>2. TypeInv /\ FlagInv /\ [Next]_vars => (TypeInv /\ FlagInv)'
    BY TypeStep, FlagStep
<1> QED
    BY <1>1, <1>2, PTL DEF Spec

\* hasConnection() follows the link, for any requests and ids.
THEOREM FlagIsCorrect == Spec => []FlagFollowsLink
<1>1. FlagInv => FlagFollowsLink
    BY DEF FlagInv
<1> QED
    BY FlagInvariant, <1>1, PTL

\* Slots of onConnect() and onDisconnect() find hasConnection() up to date,
\* for any requests and ids.
THEOREM ObserversAreUpToDate == Spec => []ObserversSeeTheFlag
<1>1. FlagInv => ObserversSeeTheFlag
    BY DEF FlagInv
<1> QED
    BY FlagInvariant, <1>1, PTL

-----------------------------------------------------------------------------
(* Message ids.                                                            *)

Acks == {"subscribe", "unsubscribe", "publish"}

\* A request has an id from the moment it is sent, and none before.
SentHasMid == \A o \in Ops : wire[o] = "none" <=> pid[o] = 0

\* Until it goes round, the counter is at or above every id in use.
CounterIsAhead == ~wrapped => \A o \in Ops : pid[o] <= lastMid

\* Until then no two requests have the same id: the id of a signal tells its
\* receiver which request it is about.
MidsAreUnique ==
    ~wrapped => \A o, p \in Ops : pid[o] = pid[p] /\ pid[o] # 0 => o = p

\* A callback for an acknowledgement is about a request that was acknowledged.
AckIsForSome ==
    callback.cb \in Acks =>
        \E o \in Ops : /\ wire[o] = "acked"
                       /\ pid[o] = callback.mid
                       /\ EventOf(kind[o]) = callback.cb

MidInv == SentHasMid /\ CounterIsAhead /\ MidsAreUnique /\ AckIsForSome

\* At first no request has an id.
LEMMA MidInit == Init => MidInv
BY DEF Init, Idle, MidInv, SentHasMid, CounterIsAhead, MidsAreUnique, AckIsForSome, Acks

\* The ids a step of the loop thread or of the network leaves alone.
LEMMA MidFrame ==
    ASSUME TypeInv, MidInv, UNCHANGED <<kind, pid, lastMid, wrapped>>,
           \A o \in Ops : wire[o] = "none" <=> wire'[o] = "none",
           \A o \in Ops : wire[o] = "acked" => wire'[o] = "acked",
           \/ callback'.cb \notin Acks
           \/ callback'.cb = callback.cb /\ callback'.mid = callback.mid
           \/ \E o \in Ops : /\ wire'[o] = "acked"
                             /\ pid[o] = callback'.mid
                             /\ EventOf(kind[o]) = callback'.cb
    PROVE  MidInv'
<1>1. SentHasMid'
    BY DEF MidInv, SentHasMid
<1>2. CounterIsAhead' /\ MidsAreUnique'
    BY DEF MidInv, CounterIsAhead, MidsAreUnique
<1>3. AckIsForSome'
    BY DEF MidInv, AckIsForSome, EventOf
<1> QED
    BY <1>1, <1>2, <1>3 DEF MidInv

\* A new request gets an id above every other one, or the counter goes round.
LEMMA MidSend ==
    ASSUME TypeInv, MidInv, NEW o \in Ops, NEW k, Send(o, k), UNCHANGED callback
    PROVE  MidInv'
<1> USE DEF TypeInv, TypeOK
<1>1. NextMid(lastMid) \in 1..MaxMid
    BY NextMidType
<1>2. /\ pid' = [pid EXCEPT ![o] = NextMid(lastMid)]
      /\ wire' = [wire EXCEPT ![o] = "sent"]
      /\ kind' = [kind EXCEPT ![o] = k]
      /\ lastMid' = NextMid(lastMid)
      /\ wire[o] = "none"
    BY DEF Send
<1>3. SentHasMid'
    BY <1>1, <1>2 DEF MidInv, SentHasMid
<1>4. AckIsForSome'
    <2> SUFFICES ASSUME callback.cb \in Acks
                 PROVE  \E p \in Ops : /\ wire'[p] = "acked"
                                       /\ pid'[p] = callback.mid
                                       /\ EventOf(kind'[p]) = callback.cb
        BY DEF AckIsForSome, EventOf
    <2>1. PICK p \in Ops : wire[p] = "acked" /\ pid[p] = callback.mid
                           /\ EventOf(kind[p]) = callback.cb
        BY DEF MidInv, AckIsForSome
    <2>2. p # o
        BY <1>2, <2>1
    <2> QED
        BY <1>2, <2>1, <2>2
<1>5. CASE wrapped'
    BY <1>3, <1>4, <1>5 DEF MidInv, CounterIsAhead, MidsAreUnique
<1>6. CASE ~wrapped'
    <2>1. ~wrapped /\ lastMid # MaxMid
        BY <1>6 DEF Send
    <2>2. NextMid(lastMid) = lastMid + 1
        BY <2>1 DEF NextMid
    <2>3. \A p \in Ops : pid[p] <= lastMid /\ pid[p] \in 0..MaxMid /\ pid[p] < lastMid + 1
        BY <2>1, MidAssumption DEF MidInv, CounterIsAhead
    <2>4. CounterIsAhead'
        BY <1>2, <2>2, <2>3, MidAssumption DEF CounterIsAhead
    <2>5. MidsAreUnique'
        BY <1>2, <2>1, <2>2, <2>3 DEF MidInv, MidsAreUnique
    <2> QED
        BY <1>3, <1>4, <2>4, <2>5 DEF MidInv
<1> QED
    BY <1>5, <1>6

\* The id invariant is inductive relative to the types.
LEMMA MidStep == TypeInv /\ MidInv /\ [Next]_vars => MidInv'
<1> SUFFICES ASSUME TypeInv, MidInv, [Next]_vars PROVE MidInv'
    OBVIOUS
<1>1. CASE UNCHANGED vars
    BY <1>1, MidFrame DEF vars, library
<1>2. ASSUME wire' = WireAfterLoss, UNCHANGED <<kind, pid, lastMid, wrapped>>,
             callback'.cb \notin Acks \/ UNCHANGED callback
      PROVE MidInv'
    BY <1>2, MidFrame DEF WireAfterLoss, TypeInv, TypeOK
<1>3. CASE User
    <2>1. ASSUME NEW rc \in ReturnValues,
                 \/ doConnect(rc) \/ doConnectAsync(rc)
                 \/ doReconnect(rc) \/ doReconnectAsync(rc)
          PROVE MidInv'
        BY <2>1, <1>1, <1>2
           DEF doConnect, doConnectAsync, doReconnect, doReconnectAsync, Failed, Open
    <2>2. ASSUME NEW rc \in ReturnValues, doDisconnect(rc) PROVE MidInv'
        BY <2>2, <1>1, MidFrame DEF doDisconnect, Failed
    <2>3. ASSUME NEW rc \in ReturnValues, NEW o \in Ops,
                 \/ doSubscribe(o, rc) \/ doUnsubscribe(o, rc)
                 \/ \E k \in {"publish0", "publish"} : doPublish(o, k, rc)
          PROVE MidInv'
        BY <2>3, <1>1, MidSend DEF doSubscribe, doUnsubscribe, doPublish, Failed
    <2> QED
        BY <1>3, <2>1, <2>2, <2>3 DEF User
<1>4. CASE Network
    <2>1. ASSUME NEW rc \in ReturnCodes, ConnackArrives(rc) PROVE MidInv'
        BY <2>1, MidFrame DEF ConnackArrives, Start, Acks
    <2>2. ASSUME NEW rc \in ReturnCodes, SocketCloses(rc) PROVE MidInv'
        BY <2>2, <1>2 DEF SocketCloses, Start, Acks
    <2>3. ASSUME NEW o \in Ops, AckArrives(o) PROVE MidInv'
        <3>1. wire' = [wire EXCEPT ![o] = "acked"] /\ wire[o] = "sent" /\ wire'[o] = "acked"
            BY <2>3 DEF AckArrives, TypeInv, TypeOK
        <3>2. callback'.cb = EventOf(kind[o]) /\ callback'.mid = pid[o]
            BY <2>3 DEF AckArrives, Start
        <3>3. UNCHANGED <<kind, pid, lastMid, wrapped>>
            BY <2>3 DEF AckArrives
        <3> QED
            BY <3>1, <3>2, <3>3, MidFrame DEF TypeInv, TypeOK
    <2>4. CASE MessageArrives
        BY <2>4, MidFrame DEF MessageArrives, Start, library, Acks
    <2> QED
        BY <1>4, <2>1, <2>2, <2>3, <2>4 DEF Network
<1>5. CASE Loop
    <2>1. callback.step # "idle" =>
             /\ [callback EXCEPT !.step = "notify"].cb = callback.cb
             /\ [callback EXCEPT !.step = "notify"].mid = callback.mid
        BY DEF TypeInv, TypeOK, Callbacks, Idle
    <2>2. CASE handleConnect \/ handleDisconnect
        BY <2>1, <2>2, MidFrame DEF handleConnect, handleDisconnect, library
    <2>3. CASE notify
        BY <2>3, MidFrame DEF notify, library, Idle, Acks
    <2> QED
        BY <1>5, <2>2, <2>3 DEF Loop
<1> QED
    BY <1>1, <1>3, <1>4, <1>5 DEF Next
=============================================================================
