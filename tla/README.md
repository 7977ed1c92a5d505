# TLA+ models of jarvisto

jarvisto is a C++ library of building blocks: a `core` part (application
skeleton, configuration, logging, signals, dates) and a `network` part (MQTT and
HTTP clients, worker threads, availability tracking).  This directory holds TLA+
models of its stateful parts, TLC configurations that check them on small
instances, and TLAPS proofs of the most important properties for every instance.

`PROJECT.json` records, for each definition, the source lines it stands for, the
runs and their properties, a plausible bug ("mutant") that each property
detects, the findings, and the hazards the properties were chosen for.

    tlc -workers 2 -config MCMqttAsyncClient.cfg MCMqttAsyncClient
    tlapm MqttAsyncClientProofs.tla

## 1. Inventory

| Component | State it keeps | Operations | Interacts with | Hard behaviour |
|---|---|---|---|---|
| `MqttClient` | the libmosquitto instance, `_hasConnection`, six signals | connect, reconnect (both also async), disconnect, subscribe, unsubscribe, publish; callbacks for connect, disconnect, acknowledgements, messages | libmosquitto and its loop thread; slots of `MqttAsyncClient`, `AvailabilityPublisher` | user threads against the loop thread; refused, lost and replaced connections |
| `MqttAsyncClient` | `_handlers` (id to completion handler), `_guard`, a `MqttClient` | connect, disconnect, subscribe, unsubscribe, publish with a completion token; the slots | `MqttClient`'s signals; Asio executors | registration after the request; reused ids; destruction while the loop thread runs |
| `AsyncResult`, `AsyncResultSetter` | a promise, its shared future, two optional callbacks | setValue, emplaceValue, setError; wait, value, error | `HttpRequest` and its users | racing setters; blocked readers |
| `HttpRequest`, `Cancellable` | setter, request, response, stream, cancellation flag and slot | GET, cancel, the chain resolve, connect, handshake, write, read, shutdown | Asio, Beast, OpenSSL; `AsyncResult` | cancel at any point; timeouts; several GETs sharing the members |
| `Worker` | `io_context`, vector of threads | start, stop, executor | tasks of users | stop against starting threads and running tasks; restart |
| `WorkerGroup` | vector of workers, `_index` | start, stop, active, executor, current, next | `Worker` | the index beyond the vector, and its overflow |
| `AvailabilitySubject` | name, state, signal | availability | observers, publishers | |
| `AvailabilityObserver` | `_states`: a copy of each subject's state | add, remove, the slot | subjects' signals | repeated additions; slots that outlive their entry |
| `AvailabilityPublisher` | last state, topic | publishes on state changes and when the connection comes up | `MqttClient`, a subject | two threads publishing; the order in which states arrive |
| `Application`, `Subsystem` | list of subsystems, the instance pointer | parseArgs, run: initialize, setUp, proceed, tearDown, finalize | every other part of a service; `main()` | a subsystem that throws in any phase; destruction order |
| `SignalHandler` | signal set; the masks of threads are the kernel's | construct, wait, waitFor, asyncWaitFor, destroy | kernel, threads | which thread receives a signal; what is pending at destruction |
| `Config` | map of keys to values | load, get, getMany, pick, has | files | which file overrides which; a load that fails half way; files that change meanwhile |
| `LoggerFactory` | spdlog's default logger | create | spdlog, every thread that logs | the default logger is visible before it has sinks |
| `DateTime`, `Timestamp` | a point in time and an offset | conversions | date library | offsets, uninitialised offset |
| `Environment`, `SecureContext`, formatters, error category | none | | | |

What makes them correct, in short:

* `MqttClient`: `hasConnection()` tells the truth about the link, also to the
  slots that are being told of a change.
* `MqttAsyncClient`: each completion handler is called at most once, by an event
  that came after its call, with Success only if its own request was
  acknowledged; an event that finds its handler completes the operation.
* `AsyncResult`: one result, the same for everyone; one callback; readers wake.
* `HttpRequest`: each GET is answered, by its own chain if the caller asks
  `pending()` first; cancelling stops it, and the object, for good.
* `Worker`: nothing runs after `stop()`; between `start()` and `stop()` all threads
  serve, and no task is forgotten.
* `WorkerGroup`: the work is balanced and the index always refers to a worker.
* `AvailabilityObserver`: online exactly when all its present subjects are.
* `AvailabilityPublisher`: while there is a connection, what was published last is
  the subject's state; no change is forgotten around a new connection.
* `Application`: the phases are barriers, and the exit code is true.
* `SignalHandler`: the service's signals end it in an orderly way, and nothing else
  takes them, as long as the handler lives.
* `Config`: the last file in the order wins for every key.
* `LoggerFactory`: a sink that cannot be made fails the service like any other
  exception in `initialize()` (part of `PhasesAreComplete`).

## 2. Modules

    AsyncOperation            abstract: an asynchronous operation
        ^ implemented by
    MqttAsyncClient  extends  MqttClient
    AvailabilityPublisher  extends  MqttClient
    MqttClientProofs, MqttAsyncClientProofs, AvailabilityPublisherProofs  (theorems)
    AsyncResult               AsyncResultProofs             (theorems)
    HttpRequest               (with Cancellable and its use of AsyncResultSetter)
                              HttpRequestProofs             (theorems)
    WorkerGroup  extends  Worker
                              WorkerGroupProofs             (theorems)
    Service  extends  Application, SignalHandler, Config, LoggerFactory
                              ServiceProofs                 (theorems)
    AvailabilityObserver      AvailabilityObserverProofs    (theorems)
    MC*                       instances for TLC

### MqttClient

Models `network/src/MqttClient.cpp`.  State of the client: `hasConnection` and
`callback`, what the loop thread is doing.  State of libmosquitto and the broker
(external, as far as this code depends on it): `link`, the id counter `lastMid`,
and for each request `o` its `kind`, `pid` and what became of it, `wire[o]`.

Each `do...` function is an action with its return code `rc` as a parameter; a
call that fails changes nothing.  (This simplifies the library, which may keep a
publish of QoS 1 or 2 that it answers with `MOSQ_ERR_NO_CONN`, and send it after the
next connect.  Nobody in this code waits for such a message: its caller was told of
the failure, and its acknowledgement finds no handler.)  The two `connect` functions differ only in who
opens the socket and share their effect.  A callback is two steps, the handler
(`handleConnect`, `handleDisconnect`) and the signal (`notify`), because users run
in between.  Facts taken from libmosquitto: ids count from 1 to 65535 and start
again; a subscribe or unsubscribe does not survive its connection, a publish of
QoS 1 or 2 does; a new connection attempt replaces the present connection without
a disconnect callback; the loop thread reconnects unless the user disconnected.
The history variable `wrapped` says that the counter has gone round.

### MqttAsyncClient and AsyncOperation

Extends `MqttClient` with `handlers` (`_handlers`), `stage[o]` (where the
completion handler of `o` is), `held` (the handler in the hands of the loop
thread), `result`, `calls` and `life` (the object's).  An initiating function is
two steps: the client call with its answer (`connect`, ..., `publish`), and
`pushHandler` under the lock.  `callHandler` (find, move out, erase, under the
lock) and `call` (cast and post, after the unlock) are the loop thread's.
`NDEBUG` decides what the assertion in `pushHandler()` does.  The destructor runs
in member order: `destroyHandlers`, then `destroyClient`, and in between
`callHandlerDestroyed` may find nothing or corrupt the process, since the map and
the mutex are gone.  `destroyClient` forces the loop thread to stop where it is,
with whatever handler it holds.  Users do not destroy the client inside their own
call.

The id of a connect or disconnect handler is a constant, so nothing ties a
connection event to the call that caused it.  The history variable `late` collects
the operations initiated after the event that the loop thread is handling, and
`EventFollowsItsCall` says that none of them is completed by it, but for a `connect()`
made when there is a connection or an attempt and a `disconnect()` made during an
attempt (`NothingUnderWay`): there an earlier event really is taken for the later
call's.  No comment or test says otherwise, so it is described here and not a
finding.

`AsyncOperation` states what an asynchronous operation promises: initiated, then
completed at most once with a final result, or abandoned for good.
`ImplementsAsyncOperation` is its specification under a refinement mapping that
keeps only the phase and, of completed operations, the result.

### AvailabilityPublisher

Extends `MqttClient` with a `subject`, the publisher's copy `state`, and two
threads in the publisher's code, `at[t]`: the owner's, which constructs the
publisher and changes the subject, and the loop thread inside the slot of
`onConnect()`.  The test of `hasConnection()`, the read of the state (`readState`)
and the call of the client (`publish`) are separate steps, since the other thread,
other users of the client and the network run in between.  `_state` is a plain
variable: a read of it by the loop thread while the owner is in the publisher's
code may return either state, and `raced` records the overlap.  The library's
publish gets an id and is acknowledged as in `MqttClient`; `last` is the state in
the last call that the client accepted.

When the two threads overlap, the older state may be the one published last, and
nothing corrects it before the next change or connection.  No comment or test of the
code says otherwise, so this is described here and excepted from
`PublishedIsCurrent` rather than reported as a finding.

### AsyncResult

`setValue`, `emplaceValue` and `setError` have the same control and differ in the
alternative (`index`) and the callback.  The three steps are `checkDirty`,
`setPromise` (where `std::promise` itself refuses the loser) and `callBack`.

### HttpRequest

A GET `g` is a chain of operations; `chain[g]` is the present one.  Starting an
operation (`resolve` ... `shutdown`) and its completion handler (`onResolveDone`
...) are separate steps, so that `cancel()`, itself two steps (flag, then
emission), can come between the test of the flag and the next operation.
`onReadDone` is two steps for the same reason, and `doGET()` is too: `GET` replaces
the setter, `setFields` fills the request, and the handlers of an earlier chain may
run in between.  A URL that does not parse fails an assertion; it is the caller's
duty and not modelled.  `setter`, `req`, `slot` and `armed` belong to the object and
are shared by GETs.  A request is abstracted to the set of GETs whose fields it
holds.

Callers may overlap GETs at will.  Three histories say how they did: `hurried`, a
GET was made while `pending()` said that the last one had no answer; `overlapped`, a
GET was made before the last chain had ended, which is later than its answer;
`afterwards`, the GETs made after a `cancel()`.

### Worker and WorkerGroup

`Worker` has the state of all workers of a group: `thread[<<w, i>>]` is the i-th
thread of worker `w`.  It separates the spawning of a thread, its entry into
`run()`, tasks, the exit, and the joins of `stop()`; `start(w, n)` is a start of
which the n-th thread is the last that can be created.  The `io_context` is
external: it keeps its queue across `stop()` and `restart()`, and lets a thread out
of `run()` only when it is stopped, because `start()` gives every thread a work guard.

`WorkerGroup` extends it: `call` is the `start()` or `stop()` under way and the
worker it has come to, so that the threads of other workers run in between;
`stop()` may be called by the owner or by a task of the group, which then joins
itself.  The index has `Width` bits; a read past the end of the vector is
recorded in `process`.  A worker on its own is a group of one.  Calls by several
threads at once are not modelled: nothing in the classes synchronises them.
`~WorkerGroup()` and `~Worker()` are a `stop()`.

### AvailabilityObserver

A slot whose entry was erased still runs; its write through the dangling
iterator does no harm or sets `corrupted`.

### Service: Application, SignalHandler, Config, LoggerFactory

Each of the four modules has the state and the operations of one class, as
actions over its own variables; `Service` puts them together the way the library
allows.  It stands for the classes a user derives: the handler is a member or a
local variable of `proceed()` (`early`), the wait is synchronous or not
(`async`), its predicate may throw into the future, the logger is made in
`initialize()`, each subsystem has a thread from `setUp()` to `tearDown()` or else to its
destructor, and everything of theirs may throw, a `std::exception` or something
else.

* `Application`: `phase` and `at` are where `main()` is, `hooks[s]` counts the
  functions of subsystem `s` that have returned.  `throw` says who catches, and
  what is left out; the destructors follow as `destroyMember`, `destroyBase`,
  `destroyThread`.
* `SignalHandler`: masks per thread, pending signals and `sigwait()` are external.
  `raise` delivers to a thread that does not block the signal, which kills the
  process, or leaves it to a waiting thread, or makes it pending.  `wake` and
  `Returned`/`Again` are the loop of `waitFor()`.
* `Config`: `load()` takes the files it has listed one by one (`Turn`), in any
  order that the comparator allows, and reads each as it is then on `disk`.  A
  file is abstracted to the keys it defines after flattening; a stem is the
  sequence of its words, so that "local-test" is two.  A value keeps the file it
  is from.  Numbers have `Width` bits.  `getConfigDir()` is its three outcomes
  (found, not found, named and missing).
* `LoggerFactory`: making the default logger and adding its sinks are two steps; a
  sink that throws leaves the default logger with those added before it.  A thread
  that logs in between would read the vector of sinks while it is extended; a service
  excludes this by making its logger before its threads, and no property is stated.

The predicate of `asyncWaitFor()` runs on a thread of its own; that it reloads the
configuration there is not modelled.  While a service reloads its configuration, its
threads may read it; `Config` has no lock, so this is the user's to exclude, and no
property speaks of it.

## 3. Runs

| Run | Instance | What it shows |
|---|---|---|
| `availability_publisher` | 3 requests, one id, 1 error code | `FlagFollowsLink`, `ObserversSeeTheFlag` and `PublishedIsCurrent` with users, refusals, losses, reconnects in any order; deadlock is checked |
| `mqtt_async` | 3 operations, ids 1..2, release build | `HandlersAreOwned`, `EventFollowsItsCall`, `SuccessMeansAcknowledged`, `CollisionOnlyOnConnection`, `ImplementsAsyncOperation` |
| `mqtt_async_live` | 3 operations, one id, debug build | `HandlersAreOwned` when every id is reused at once; `AnswerCompletes` |
| `mqtt_async_early_ack` | 2 operations | **violated** `AcknowledgedCompletes`, finding 1 |
| `async_result` | 3 calls, 2 readers, any callbacks | `OneWinner`, `EveryoneAgrees`, `CalledBackOnce`, `ReadersWake` |
| `http_request` | 2 GETs, 2 cancels | `AnsweredByOwnChain`, `OwnRequestIsSent`, `CancelStopsTheChain`, `CancelOutlivesItsGet`, `GetIsAnswered` |
| `http_request_cancel` | 1 GET, 1 cancel | **violated** `ResultIsSetOnce`, finding 2 |
| `worker_group` | 3 workers of 2 threads, 2 starts, 2-bit index, 5 calls of `next()` | `StopIsABarrier`, `StartedIsWhole`, `TakenInTurn` across an overflow, `TaskGetsDone`, `StopReturns` |
| `worker_group_current` | 2 workers | **violated** `CurrentExists`, finding 3 |
| `availability_observer` | 3 subjects, 5 additions | `EntriesAreCurrent`, `ObserverAgrees` |
| `availability_removed` | 2 subjects | **violated** `RemovedIsIgnored`, finding 4 |
| `service` | 2 subsystems, 4 files, 2 of 3 signals sent, 1 edit | `PhasesAreComplete`, `HandlerProtects`, `OneSignalIsGraceful`, `InstanceIsThere`, `ServiceIsConfigured`, `LastFileWins`, `NumbersAreKept`, `TermEndsTheService` |

### Bounds

* Operations (`Ops`): three are one more than any property relates: two requests
  that could be confused, and a connect or disconnect that changes the link
  between them.
* For the publisher three requests are enough: two publications, one on each thread
  or before and after a change, and a third that follows them or is another user's.
  Whatever the error code, a call that fails changes nothing, so one code will do.
* `MaxMid` = 2 with three requests reaches both sides of the reuse of ids; 1
  makes every request reuse one.  65535 differs only in how long it takes.
* `MaxGets` = 2: sharing is between a GET and the one before it.  `MaxCancels`
  = 2: the flag is never reset, so a third call does nothing a second does not.
* `MaxStarts` = 2: a task can be left over from the first round and run in the
  second.  Tasks do not interact, so one is enough; two threads compete for it.
* `Width` = 2 with three workers: 4 is not a multiple of 3, as 2^64 is not, and
  five calls of `next()` go beyond the overflow, where `TakenInTurn` is tight.
* `MaxRaises` = 2: the signal that ends the service and one before, during or after
  its work; of the three `Signals` one ends the service, one makes it reload, and
  one the handler is not for.  `MaxEdits` = 1: a file changes before, during or between loads.
* Files: two of the order list, one outside of it that the alphabet would put
  first, and one that is not JSON in between; four initial directories, one of
  them empty or missing.  Contents are small and large numbers, and nothing.
* `MaxAdds` = 5 over three subjects: a subject can be added twice, removed, and
  added again while others are present.

Requests, operations and subjects are interchangeable, so safety runs use
symmetry; runs with liveness do not.

### Where deadlock checking is off

The asynchronous client may be destroyed, operations and GETs run out, a worker
may terminate the process, the group and the observer stop where behaviour is
undefined, and a service ends, or waits for a signal that nobody sends: in these
modules the system really stops.

### Fairness

* `MqttAsyncClient`: an initiating thread that has its answer reaches
  `pushHandler`; the loop thread finishes its callback; an executor runs what is
  posted.  Nothing is assumed of users, of the broker, or of the destructor.
* `AsyncResult`: a call that has begun goes on; a reader that can wake does.
* `HttpRequest`: handlers run, and an operation completes if it is a resolution
  (which ends by the resolver's own timeout), is under the stream's timeout, or
  was told to stop.  A peer need never answer.
* `WorkerGroup`: threads run, tasks end, a join returns once its thread exited, and
  the thread in `start()` or `stop()` goes on.  Nobody need call anything.
* `Service`: `main()` goes on and so does the thread of `asyncWaitFor()`; the
  functions of the derived classes return or throw.  Nobody need send a signal.

## 4. Findings

1. An acknowledgement that arrives between the client call and `pushHandler()`
   finds no handler and is dropped; the operation never completes
   (`MqttAsyncClient.hpp:196`).
2. `onReadDone()` sets the value and then, if `cancel()` came meanwhile or before,
   also an error; the setter throws out of the handler (`HttpRequest.cpp:249`).
3. `WorkerGroup::executor()`, `active()` and `current()` index the vector with a
   counter that `next()` moves past its end (`WorkerGroup.cpp:59`).
4. `AvailabilityObserver::remove()` leaves the slot connected: a removed subject
   still takes the observer offline (`AvailabilityObserver.cpp:48`).

## 5. Proofs

Every safety property that a passing run checks is also proved, for every value of
the constants: any set of operations, requests, setters, readers and subjects, any
`MaxMid` >= 1, any failure codes without `MOSQ_ERR_SUCCESS`, both values of
`NDEBUG`, any number of GETs, cancellations, workers, threads, tasks, restarts,
subsystems, signals, files and edits, and any width of integers.  The assumptions
are the named `ASSUME`s of the component modules, which TLC evaluates on every
run.  Those that are more than a bound or a type:

* `PowerAssumption` (`WorkerGroup`): 2^Width is a positive number.  It is true of
  every `Width`; the proof system has no facts about powers.
* `FilesAssumption` (`Config`): a path names one file, and in one directory (it is
  not searched recursively) so do a stem and an extension.  Without it
  `LastFileWins` fails: two JSON files of the same name would be told apart by
  nothing, and either could be read last.
* `UnsetAssumption` (`Config`), `NoResultAssumption` (`AsyncResult`): what stands
  for "nothing there" is none of the values.

Each component has an inductive invariant, checked by TLC on the run's instance
before it was proved, and one lemma for each action or group of actions.

* **`MqttClientProofs`**.  `ClientTypeCorrect` needs `SentHasKind`, so that an
  acknowledgement is for an existing event.  `FlagIsCorrect` proves
  `FlagFollowsLink` and `ObserversAreUpToDate` proves `ObserversSeeTheFlag`.
  Neither property is inductive: while a handler is pending they say nothing.  `HandlerPending` says what the link can be
  then: a pending connect handler whose link is up was told Accepted, because the
  loop thread runs one callback at a time and no other answer can have come in
  between.  `MidInv` is a lemma for the next module: ids are unique until the
  counter goes round (the counter is ahead of every id in use), and a callback
  for an acknowledgement is about a request that was acknowledged.
* **`MqttAsyncClientProofs`**.  Every asynchronous step is a client step or a
  stutter (`ClientStep`), so the client's invariants carry over.  `AsyncInv` adds
  to types and ownership: `OperationsAreInOrder` (an operation in flight has an
  id, and its request is of its kind; one that is done was called once) and
  `HeldForThisEvent` (the handler the loop thread holds was found under the id of
  the event it is still working on).  From these and `MidInv`, `HeldIsAcknowledged`
  concludes that the held handler belongs to the acknowledged request, which is
  what `SuccessMeansAcknowledged` needs in the step `call`.  The theorems:
  `AsyncTypeCorrect`, `AsyncOwnership`, `AsyncSuccess`, `AsyncCollisions`,
  `AsyncEventsFollow` (`EventFollowsItsCall`), and `AsyncRefinement`, which shows step by step that
  `AsyncSpec` implements `AsyncOperation`.  `AsyncEventsFollow` needs two more facts:
  `LinkInv`, what the loop thread can be handling while there is no connection or an
  answered attempt, and `LateInv`, that the running callback is of another kind, or
  about another id, than any operation that came after its event.
* **`AvailabilityPublisherProofs`**.  `PublisherIsCurrent`: `PublishedIsCurrent`
  speaks only of states in which both threads are done.  `WillBePublished` says why
  it becomes true: a state not yet published is on its way on one of the threads, or
  the loop thread is about to be told of a connection, or `hasConnection()` is false
  and it will be.  `TextIsCurrent` says that what is on its way is the subject's
  state, `InTheSlot` that the loop thread is in the slot only while it tells of a
  connection.  The last step uses `FlagFollowsLink`, proved of the client.
* **`AsyncResultProofs`**.  `ResultTypeCorrect`, `ResultIsConsistent` (`OneWinner`),
  `ReadersAgree` (`EveryoneAgrees`) and `CallbackIsCalledOnce` (`CalledBackOnce`):
  the four properties are inductive together with `QuietAtFirst`, no callback
  before the promise is satisfied, without which the winner's callback need not be
  the first.
* **`HttpRequestProofs`**.  `RequestTypeCorrect`, `OwnChainAnswers`
  (`AnsweredByOwnChain`), `OwnRequestGoesOut` (`OwnRequestIsSent`), `CancelIsHeard`
  (`CancelStopsTheChain`) and `CancelIsForGood` (`CancelOutlivesItsGet`).  Of GETs not
  yet made there is no trace (`Begun`).  `OwnChainAnswers` needs `BehindIsFinished` and
  `AnsweredIsFinished`: for a caller that asks `pending()` first, a chain before the
  last one has at most its shutdown left, so a handler that sets "the" setter sets its
  own.  `OwnRequestGoesOut` is about callers that wait longer: `OneAtATime` (only the
  last GET has a chain), `EndedIsAnswered`, `RequestIsKept` (the fields of a GET stay
  in the request until it is sent) and `ValueIsCleared` (fields left behind by a chain
  that is over belong to a GET without a response).  `LateIsLast` makes
  `CancelStopsTheChain` inductive: after the operation that was started late, the
  handler finds the flag.  `AfterwardsIsShort` does so for `CancelOutlivesItsGet`: the
  chain of a GET made after `cancel()` does not get beyond resolving.  These last two
  hold however GETs overlap.
* **`WorkerGroupProofs`**.  `StopLeavesNothing` (`StopIsABarrier`) is proved from
  `StoppedBehind`: the loop of `stop()` has left no thread at the workers it has come
  past, though the threads of the others still run, and `start()` cannot come in
  between; with `RunningIsPolling` and `OneThreadPerTask`, no thread means no running
  task.  `StartedGroupIsWhole` (`StartedIsWhole`) is its counterpart for `start()`:
  `WholeBehind` says that the loop has left workers that serve (`Serves`: a context
  that is not stopped, and all the threads), also when the round before was stopped,
  and that only a stopped context lets a thread out.  `WorkersTakeTurns`
  (`TakenInTurn`) needs to know where in its round the index is: `Ahead(v, w)` says
  which workers are a task ahead in this round, and `TurnInv` bounds the difference
  of any two from both sides by it and by the number of overflows so far.  The
  lemmas `Division`, `DivisionIsUnique` and `Count` are the arithmetic of `%` and
  `\div` this takes.
* **`AvailabilityObserverProofs`**.  `ObserverTypeCorrect`, `EntriesStayCurrent`
  (`EntriesAreCurrent`) and `ObserverIsRight` (`ObserverAgrees`), inductive together
  with `SlotsHaveEntries`: a slot that refers to an entry has it, so that no signal
  brings back the entry of a removed subject.
* **`ServiceProofs`**.  Four invariants, each a layer on the ones before it.
  - `AppInv`: `PhasesComplete` (`PhasesAreComplete`) needs `HooksAreInStep`, how
    far the loop of the phase under way has come, and `ExitIsLate`, that `main()`
    knows its result when it begins to destroy and not before.
  - `ControlInv`: what Main can be doing in which phase (`JobsHavePlaces`), and
    which threads there are then (`ThreadsHavePlaces`): before `setUp()` only Main,
    in `tearDown()` those of the subsystems not yet come to, the one of
    `asyncWaitFor()` in `proceed()` only.  From it `InstanceOutlivesThreads`
    (`InstanceIsThere`).
  - `SignalInv`: `MaskIsInherited` says that an early handler is there before the
    phases begin and that from then on every thread blocks its signals, whichever
    thread created it; `HandlerIsProtection` (`HandlerProtects`) follows.
    `SignalsAreCounted` says how many signals must have been sent for what is
    pending and what `wait()` has returned, and that Main is past `proceed()` only
    when it has returned one; so the signal that the destructor of the handler
    unblocks is a second one (`OneSignalEndsGracefully`, `OneSignalIsGraceful`).
  - `ConfigInv`: `FilesAreInOrder` says that no file still to do comes before one
    that was read.  The comparator is total on the JSON files of a directory and
    is the order in which they override each other (`ComparatorFacts`), so the file
    read last may set its keys (`LaterFilesOverride`, `LastFileWins`).
    `ValuesAreNormalized` gives `NumbersComeThrough` (`NumbersAreKept`).
    `LoadsAreComplete` says what a load under way has read so far, and that a
    service that was once configured meets no file that fails unless somebody
    edits; `ServiceHasItsConfiguration` (`ServiceIsConfigured`) follows.

The proof of `HandlerProtects` corrected the property: it used to say that a process
with an early handler is never killed while the handler is alive, which holds only
if nobody sends a signal that the handler is not for.  The run did not show this,
since its signals were the handler's; it now has one that is not.

Only model-checked: the liveness properties `AnswerCompletes`, `ReadersWake`,
`GetIsAnswered`, `TaskGetsDone`, `StopReturns` and `TermEndsTheService`, since
fairness and `ENABLED` are beyond the prover; and the four properties that are
violated.

## 6. Not modelled, and the plan

* `tools/ada-url`, the vendored URL parser: third-party code, amalgamated into two
  files that are far larger than jarvisto itself and consist mostly of Unicode
  tables and of functions this library never calls.  `HttpRequest` makes one call
  of it, whose result is data to the model.  Of jarvisto's own sources, comments and
  licence headers included, the map names about 43% of the lines.
* `DateTime`, `Timestamp`: four functions without state around the date library.
* `Environment`, `SecureContext`, the formatters, the error category's texts:
  wording, or one call of a library each.
* Of modelled parts: `credentials()` and the log callback of `MqttClient`; the
  topic and the destruction of `AvailabilityPublisher`; the target, host name and
  response bytes of `HttpRequest`; levels and formats of loggers;
  `Config::getMany()`, which only reads; the search of `getConfigDir()` through
  parent directories.

Seen while reading, and outside of what the models can say: `get_host()` of the
URL includes the port, so the resolver, the certificate check and SNI get
"host:port" (`HttpRequest.cpp:87`); a read that fails leaves its bytes in `_buf`
for the next GET (`HttpRequest.cpp:227`); `load()` never clears the values, so a
reload keeps keys that no file defines any more and the tail of an array that
became shorter (`Config.cpp:209`); a refused publication is not retried
(`AvailabilityPublisher.cpp:49`); libmosquitto ends the loop thread, which is
started once, after an orderly disconnect (`MqttClient.cpp:131`).

What is left: theorems that say more than the runs' properties do, first of all
about how components use each other (that `HttpRequest` keeps to what `AsyncResult`
asks of its callers except in finding 2, that a group of one worker is a worker),
and the steps that the liveness properties rest on, as safety properties: that a
`stop()` under way has somebody to join, and that a signal that is pending finds
its thread waiting or on its way to wait.
