----------------------------- MODULE HttpRequest ----------------------------
(***************************************************************************)
(* jar::HttpRequest (network/src/HttpRequest.cpp) with its base class      *)
(* jar::Cancellable (network/src/Cancellable.cpp) and its AsyncResult      *)
(* setter: an HTTPS GET as a chain of asynchronous operations on one       *)
(* stream.                                                                 *)
(*                                                                         *)
(* The members _setter, _req and _stream belong to the object, not to the  *)
(* GET: a second GET shares them with whatever is left of the first one's  *)
(* chain.  Users call GET() and cancel() on their own threads; completion  *)
(* handlers run on the executor.  cancel() sets the flag and then emits on *)
(* the slot; a handler tests the flag and then starts the next operation.  *)
(*                                                                         *)
(* Asio, Beast, DNS and the peer are external: an operation on the stream  *)
(* completes with or without an error, at the latest when the timeout set  *)
(* by resetTimeout() expires; resolving ends by itself and cannot be       *)
(* cancelled through a slot.                                               *)
(***************************************************************************)
EXTENDS Naturals

CONSTANTS
    MaxGets,     \* bound: how often GET() is called
    MaxCancels   \* bound: how often cancel() is called

ASSUME BoundsAssumption == MaxGets \in Nat /\ MaxCancels \in Nat

VARIABLES
    setter,       \* _setter: the GET whose promise it holds, 0 before the first
    result,       \* result[g]: what the future returned by GET g holds
    chain,        \* chain[g]: the operation of GET g and how far it has come
    req,          \* _req: the GETs whose fields the request object holds
    armed,        \* the stream's timeout is set
    slot,         \* the chain whose operation listens on the cancellation slot
    cancelled,    \* Cancellable::_cancelled
    cancels,      \* how many times cancel() was called
    emitting,     \* cancel() has set the flag and not yet emitted
    terminated,   \* an exception left a completion handler
    written,      \* history: written[g], the contents of _req that GET g sent
    late,         \* history: late[g], operations GET g started once cancelled
    afterwards,   \* history: the GETs made after cancel()
    overlapped,   \* history: GET() was called before the last chain had ended
    hurried       \* history: GET() was called while the last one was pending

cancelVars == <<cancelled, cancels, emitting>>
callVars == <<afterwards, overlapped, hurried>>
vars == <<setter, result, chain, req, armed, slot, cancelVars, terminated, written, late, callVars>>

Gets == 1..MaxGets
NoResult == [kind |-> "none", from |-> 0]
Operations == {"resolve", "connect", "handshake", "write", "read", "shutdown"}
\* "preparing": the GET has only replaced the setter.  "starting": about to be
\* initiated.  "waiting": initiated.  "aborted": told
\* to stop.  "answered": onReadDone() has set the value.
States == {"preparing", "starting", "waiting", "aborted", "answered"}
Unused == [op |-> "none", st |-> "unused"]
Ended == [op |-> "none", st |-> "ended"]

At(g, op, st) == chain[g] = [op |-> op, st |-> st]
Outstanding(g, op) == At(g, op, "waiting") \/ At(g, op, "aborted")
Goto(g, op, st) == chain' = [chain EXCEPT ![g] = [op |-> op, st |-> st]]
End(g) == chain' = [chain EXCEPT ![g] = Ended]

-----------------------------------------------------------------------------
(* Calls of the user.                                                      *)

\* pending() asks the setter: it is over before the chain is, and it is true
\* before the first GET, too.
pending == setter = 0 \/ result[setter] = NoResult
Unanswered == setter # 0 /\ pending

\* doGET() on a thread of its own: the old setter goes, and with it a promise
\* nobody kept ...
GET(g) ==
    /\ ~terminated
    /\ g = setter + 1
    /\ setter' = g
    /\ result' = [h \in Gets |-> IF h = setter /\ Unanswered
                                 THEN [kind |-> "broken", from |-> g] ELSE result[h]]
    /\ Goto(g, "resolve", "preparing")
    /\ afterwards' = IF cancelled THEN afterwards \cup {g} ELSE afterwards
    /\ overlapped' = (overlapped \/ \E h \in Gets : h <= setter /\ chain[h] # Ended)
    /\ hurried' = (hurried \/ Unanswered)
    /\ UNCHANGED <<req, armed, slot, cancelVars, terminated, written, late>>

setFieldsOnce(g) ==  \* mutant: a request object left over from before is not filled
    /\ ~terminated /\ At(g, "resolve", "preparing")
    /\ req' = IF req = {} THEN {g} ELSE req
    /\ Goto(g, "resolve", "starting")
    /\ UNCHANGED <<setter, result, armed, slot, cancelVars, terminated, written, late, callVars>>

\* ... and the fields of this GET are added to those _req holds.  (The URL is
\* the caller's duty: one that does not parse fails an assertion.)
setFields(g) ==
    /\ ~terminated
    /\ At(g, "resolve", "preparing")
    /\ req' = req \cup {g}
    /\ Goto(g, "resolve", "starting")
    /\ UNCHANGED <<setter, result, armed, slot, cancelVars, terminated, written, late, callVars>>

cancelFlagLocal ==  \* mutant: the flag is set only if a GET is pending
    /\ ~terminated /\ ~emitting /\ cancels < MaxCancels
    /\ cancels' = cancels + 1
    /\ cancelled' = pending
    /\ emitting' = TRUE
    /\ UNCHANGED <<setter, result, chain, req, armed, slot, terminated, written, late, callVars>>

cancelFlag ==
    /\ ~terminated
    /\ ~emitting
    /\ cancels < MaxCancels
    /\ cancels' = cancels + 1
    /\ cancelled' = TRUE
    /\ emitting' = TRUE
    /\ UNCHANGED <<setter, result, chain, req, armed, slot, terminated, written, late, callVars>>

cancelEmit ==
    /\ ~terminated
    /\ emitting
    /\ emitting' = FALSE
    /\ chain' = [g \in Gets |-> IF g = slot /\ chain[g].st = "waiting"
                                THEN [chain[g] EXCEPT !.st = "aborted"] ELSE chain[g]]
    /\ UNCHANGED <<setter, result, req, armed, slot, cancelled, cancels, terminated, written, late,
                   callVars>>

-----------------------------------------------------------------------------
(* Starting an operation.                                                  *)

Start(g, op) ==
    /\ ~terminated
    /\ At(g, op, "starting")
    /\ Goto(g, op, "waiting")
    /\ late' = IF cancelled THEN [late EXCEPT ![g] = @ + 1] ELSE late
    /\ UNCHANGED <<setter, result, req, cancelVars, terminated, callVars>>

\* resetTimeout(), then the operation takes over the slot.
StartOnStream(g, op) == Start(g, op) /\ armed' = TRUE /\ slot' = g

resolve(g) == Start(g, "resolve") /\ UNCHANGED <<armed, slot, written>>

connectUnarmed(g) ==  \* mutant: no timeout while connecting
    Start(g, "connect") /\ slot' = g /\ UNCHANGED <<armed, written>>

connect(g) == StartOnStream(g, "connect") /\ UNCHANGED written
handshake(g) == StartOnStream(g, "handshake") /\ UNCHANGED written
write(g) == StartOnStream(g, "write") /\ written' = [written EXCEPT ![g] = req]
read(g) == StartOnStream(g, "read") /\ UNCHANGED written
shutdown(g) == StartOnStream(g, "shutdown") /\ UNCHANGED written

-----------------------------------------------------------------------------
(* Completion handlers.                                                    *)

\* Whoever calls it, the setter sets the future it holds at that moment; a
\* second time it throws, and nobody catches that.
Set(g, kind) ==
    IF result[setter] = NoResult
    THEN /\ result' = [result EXCEPT ![setter] = [kind |-> kind, from |-> g]]
         /\ UNCHANGED terminated
    ELSE terminated' = TRUE /\ UNCHANGED result

Completes(g, op) ==
    /\ ~terminated
    /\ Outstanding(g, op)
    /\ slot' = IF slot = g THEN 0 ELSE slot
    /\ UNCHANGED <<setter, armed, cancelVars, written, late, callVars>>

OnDoneUnchecked(g, op, next, error) ==  \* mutant: cancelled() is not tested
    /\ Completes(g, op)
    /\ IF error THEN Set(g, "error") /\ End(g)
       ELSE Goto(g, next, "starting") /\ UNCHANGED <<result, terminated>>
    /\ UNCHANGED req

\* The handler of resolve, connect, handshake and write, which next follows.
OnDone(g, op, next, error) ==
    /\ Completes(g, op)
    /\ IF error THEN Set(g, "error") /\ End(g)
       ELSE IF cancelled THEN Set(g, "canceled") /\ End(g)
       ELSE Goto(g, next, "starting") /\ UNCHANGED <<result, terminated>>
    /\ UNCHANGED req

onResolveDone(g, error) == OnDone(g, "resolve", "connect", error)
onConnectDone(g, error) == OnDone(g, "connect", "handshake", error)
onHandshakeDone(g, error) == OnDone(g, "handshake", "write", error)
onWriteDone(g, error) == OnDone(g, "write", "read", error)

\* The value is set first ...
onReadDone(g, error) ==
    /\ Completes(g, "read")
    /\ IF error THEN Set(g, "error") /\ End(g)
                ELSE Set(g, "value") /\ Goto(g, "read", "answered")
    /\ UNCHANGED req

\* ... and the flag is tested after it.
onReadDoneAfter(g) ==
    /\ ~terminated
    /\ At(g, "read", "answered")
    /\ IF cancelled THEN Set(g, "canceled") /\ End(g)
       ELSE Goto(g, "shutdown", "starting") /\ UNCHANGED <<result, terminated>>
    /\ UNCHANGED <<setter, req, armed, slot, cancelVars, written, late, callVars>>

onShutdownDoneReports(g) ==  \* mutant: a failed shutdown is reported like other errors
    /\ Completes(g, "shutdown")
    /\ req' = {}
    /\ Set(g, "error") /\ End(g)

onShutdownDone(g) ==
    /\ Completes(g, "shutdown")
    /\ req' = {}
    /\ End(g)
    /\ UNCHANGED <<result, terminated>>

-----------------------------------------------------------------------------
Init ==
    /\ setter = 0
    /\ result = [g \in Gets |-> NoResult]
    /\ chain = [g \in Gets |-> Unused]
    /\ req = {}
    /\ armed = FALSE
    /\ slot = 0
    /\ cancelled = FALSE
    /\ cancels = 0
    /\ emitting = FALSE
    /\ terminated = FALSE
    /\ written = [g \in Gets |-> {}]
    /\ late = [g \in Gets |-> 0]
    /\ afterwards = {}
    /\ overlapped = FALSE
    /\ hurried = FALSE

Starts(g) ==
    setFields(g) \/ resolve(g) \/ connect(g) \/ handshake(g) \/ write(g) \/ read(g) \/ shutdown(g)

Handler(g) ==
    \/ \E error \in BOOLEAN :
          \/ onResolveDone(g, error)
          \/ onConnectDone(g, error)
          \/ onHandshakeDone(g, error)
          \/ onWriteDone(g, error)
          \/ onReadDone(g, error)
    \/ onShutdownDone(g)

Next ==
    \/ \E g \in Gets : GET(g) \/ Starts(g) \/ Handler(g) \/ onReadDoneAfter(g)
    \/ cancelFlag
    \/ cancelEmit

Spec == Init /\ [][Next]_vars

\* What is bound to end: a resolution, an operation under the stream's
\* timeout, and one that was told to stop.  A peer need not ever answer.
Expires(g) ==
    /\ chain[g].op = "resolve" \/ armed \/ chain[g].st = "aborted"
    /\ Handler(g)

Fairness == \A g \in Gets : WF_vars(Starts(g) \/ onReadDoneAfter(g)) /\ WF_vars(Expires(g))

FairSpec == Spec /\ Fairness

-----------------------------------------------------------------------------
(* Properties.                                                             *)

\* Every variable keeps its type.
TypeOK ==
    /\ setter \in 0..MaxGets
    /\ result \in [Gets -> [kind : {"none", "value", "error", "canceled", "broken"}, from : 0..MaxGets]]
    /\ chain \in [Gets -> [op : Operations, st : States] \cup {Unused, Ended}]
    /\ req \subseteq Gets
    /\ armed \in BOOLEAN
    /\ slot \in 0..MaxGets
    /\ cancelled \in BOOLEAN /\ emitting \in BOOLEAN /\ terminated \in BOOLEAN
    /\ cancels \in 0..MaxCancels
    /\ written \in [Gets -> SUBSET Gets]
    /\ late \in [Gets -> Nat]
    /\ afterwards \subseteq Gets
    /\ overlapped \in BOOLEAN /\ hurried \in BOOLEAN

\* As long as a caller makes a GET only when pending() says that the last one,
\* if there was one, is over, though its chain may still be shutting the connection down, the
\* future a GET returned is set by that GET's own chain: it is not answered by
\* an older GET on the same object, nor left without an answer and broken by a
\* later one.  (Unless that shutdown is cancelled: onReadDone() then sets an
\* error on whatever setter is there.)
AnsweredByOwnChain ==
    ~hurried /\ ~(overlapped /\ cancelled) =>
        \A g \in Gets : result[g] # NoResult => result[g].from = g

\* As long as a caller waits for the last chain to end, what goes out on the
\* wire for a GET contains its request line and fields, which no earlier GET's
\* clean-up has removed, and of earlier GETs only those that did not get a
\* response: theirs is the clean-up that never ran, since only
\* onShutdownDone() clears the request.
OwnRequestIsSent ==
    ~overlapped => \A g \in Gets : written[g] # {} =>
        g \in written[g] /\ \A h \in written[g] \ {g} : h < g /\ result[h].kind # "value"

\* Cancelling takes effect at the next handler: once the flag is set a GET
\* starts at most one more operation, the one whose handler had already
\* passed the test, wherever in the chain cancel() interrupts it and however
\* GETs overlap.
CancelStopsTheChain ==
    \A g \in Gets : late[g] <= 1

\* Every GET is answered, though the peer may never respond and whether or
\* not it is cancelled (unless the process terminates).
GetIsAnswered ==
    \A g \in Gets : chain[g] # Unused ~> result[g] # NoResult \/ terminated

\* A request object that was cancelled stays cancelled, since nothing resets
\* the flag: a GET made after cancel(), be it the first or one after others were
\* answered, and however it overlaps with them, resolves the host and gives up.
\* It never writes to the peer, and its chain answers with an error.
CancelOutlivesItsGet ==
    \A g \in afterwards :
        /\ written[g] = {}
        /\ result[g].from = g => result[g].kind \in {"error", "canceled"}

\* No handler sets a result that is already set: what the guard of
\* AsyncResultSetter treats as a logic error in the caller.
ResultIsSetOnce == ~terminated
=============================================================================
