# kant-ros: a TLA+ project

kant-ros is a C++ RPC framework (KantFramework, a descendant of Tars) with its
utility library, its servers (AdminRegistry, KantNode) and code generators.
This directory holds TLA+ models of its core logic, TLC configurations that
check them on small instances, and TLAPS proofs of what matters most for every
value of the parameters. Paths below are relative to
`src/KantFramework/kantcpp/`.

## 1. The system

| component | code | state | operations |
|---|---|---|---|
| client proxy | `servant/libservant/ServantProxy.cpp`, `Message.cpp` | per thread: a queue to each net thread; per call: a `ReqMessage`, for a synchronous one a `ReqMonitor` | `invoke`, `kant_invoke_async`, `ReqMonitor::wait/notify` |
| net thread | `CommunicatorEpoll.cpp` | notify events, object proxies, timers | `handleNotify`, `handleInputImp`, `handleOutputImp`, `handleCloseImp`, `doTimeout`, `doReconnect` |
| remote object | `ObjectProxy.cpp` | `_reqTimeoutQueue`: calls that wait for endpoints or a connection | `invoke`, `prepareConnection`, `doInvoke`, `doInvokeException`, `doTimeout` |
| endpoint | `AdapterProxy.cpp` | request table `_timeoutQueue`, circuit-breaker counters, a transceiver | `invoke`, `doInvoke`, `finishInvoke` (three overloads), `doTimeout`, `checkActive`, `setInactive`, `addConnExc` |
| endpoint selection | `EndpointManager.cpp` | `_valid`, `_activeProxys`, hash tables, weights, refresh times | `refreshReg`, `doEndpoints`, `doEndpointsExp`, `updateEndpoints`, `selectAdapterProxy` |
| transport | `util/src/kt_transceiver.cpp` | connection status, one send buffer, receive buffer | `connect`, `sendRequest`, `doRequest`, `doResponse`, `close` |
| callbacks | `AsyncProcThread.cpp` | a bounded queue | `push_back`, `run` |
| request table | `util/include/util/kt_timeout_queue_new.h` | id map, timer index, send list, id counter | `generateId`, `push`, `getSend`, `popSend`, `get`, `erase`, `timeout` |
| thread ring | `util/include/util/kt_loop_queue.h` | slots and two indices, no lock | `push_back`, `pop_front` |
| event loop | `util/src/kt_epoller.cpp`, `kt_timer.h` | file descriptors, timers | `loop`, `mod`, `postDelayed` |
| coroutines | `util/src/kt_coroutine.cpp` | five lists of coroutines, wake-up queues | `go`, `yield`, `sleep`, `put`, `run` |
| server | `util/src/kt_epoll_server.cpp` | connections by id, receive queue, answers to send | accept, receive, handle, `send`, `close`, overload |
| servant dispatch | `ServantHandle.cpp`, `Current.cpp`, `Application.cpp` | servants by name | `handle`, `heartbeat` |
| lifecycle | `Communicator.cpp` | net and async threads | `initialize`, `terminate` |
| thread queues, pool | `kt_thread_queue.h`, `kt_thread_pool.h` | deque, condition variable | `push`, `pop`, `swap`, `notifyT`, `waitForAllDone` |
| promises | `servant/promise/` | future state, callbacks | `setValue`, `then`, `whenAll` |
| deployment | `../AdminRegistryServer/ExecuteTask.cpp` | task lists and their items | `addTaskReq`, `cancelTask`, `doTask` |

How they interact: a user thread creates a `ReqMessage`, pushes its pointer
into its own ring to the net thread and arms an epoll event. The net thread
takes it out, `ObjectProxy` asks `EndpointManager` for an adapter, and the
message waits in the object (no registry answer, no connection yet), or goes
into the adapter's table, either sent or in line to be sent. It ends with an
answer, a timeout or an error; then the waiting thread is woken, or the
message passes to the async thread for its callback, or it is deleted. The
registry's answers are themselves asynchronous calls.

What is hard: user, net and async threads share messages by pointer without
locks; handlers loop, re-enter each other through callbacks and may leave by an
exception; answers race timeouts; connections fail between two sends; an
endpoint is blocked and unblocked from many places; ids and indices wrap.
`PROJECT.json` lists these hazards with their lines.

For each component, what makes it correct:

* call path: every call completes exactly once, with its own answer or a
  failure; a message has one owner at any time; nothing is sent twice.
* hand-over: no request is lost between the threads, no wakeup is missed.
* table: the three containers describe one set of requests.
* breaker: a failing endpoint stops being used and comes back; a blocked one
  has no open connection; the counters stay consistent.
* selection: a call goes to an endpoint of the current list, a hashed call to
  the endpoint of its hash.
* server: an answer reaches the connection of its request; overload sheds load;
  a close loses no answer already accepted.
* coroutines: a coroutine that waits is woken once, by what it waits for and by
  nothing else; the thread does not sleep while there is work.
* pool and deployment: a task list ends, not before its items; a cancelled item
  does not run; no more servers are out of service than the batches allow.

## 2. Modules and plan

| module | models | composed of |
|---|---|---|
| `TimeoutQueueOps` | the methods of `KT_TimeoutQueueNew` as operators on a queue value | |
| `TimeoutQueue` | the table with the thread that owns it | `TimeoutQueueOps` |
| `BoundedFifo` | abstract: a bounded FIFO queue | |
| `LoopQueue` | `KT_LoopQueue`, one shared access per step | refines `BoundedFifo` |
| `RpcCall` | abstract: what the client promises about calls | |
| `ClientInvoke` | the call path through all three threads | `TimeoutQueueOps` per endpoint; refines `RpcCall` |
| `CircuitBreaker` | blocking and recovery of an endpoint | |
| `ServerConnections` | connections of the server, their ids, the requests they bring in and the answers' way back | |
| `CoroutineScheduler` | `KT_CoroutineScheduler` and the wait in `KT_Epoller::done` | |
| `CoroutineHandle` | a handle thread in coroutine mode: data, requests' coroutines, their calls | `CoroutineScheduler` |
| `ThreadPool` | `KT_ThreadPool` | |
| `TaskList` | a deployment task of AdminRegistry | `ThreadPool` |
| `TimeoutQueueOpsProofs` | lemmas about the table's operators | used by the next two |
| `TimeoutQueueProofs`, `ClientProofs` | theorems about `TimeoutQueue`, `ClientInvoke` | |
| `LoopQueueProofs`, `CircuitBreakerProofs`, `ServerProofs`, `CoroutineProofs`, `TaskListProofs` | theorems about `LoopQueue`, `CircuitBreaker`, `ServerConnections`, `CoroutineHandle`, `TaskList` | |
| `MC...` | instances for TLC | |

What would come next, in this order:

1. The rest of the server, in `ServerConnections`: `closeConnections`, shutdown,
   the merged mode (handlers on the net thread) and UDP; abstract: what a
   client sees of one connection.
2. `ReqMonitor` with `Communicator::terminate`; the blocking thread queue.
3. `EndpointManager`: refresh timing, lists handed from one net thread to
   another, endpoints that join and leave for good.
4. Several task lists at once (`addTaskReq`, the reaper); promises.

Every invariant and every action property of a passing run, and both
refinements, are proved (section 5). Theorems that would come next: an answer
of the server reaches the connection of its request unless its slot has been
handed out again (from `SlotsReusedLast`), and the numbering of an adapter's
requests across more calls than there are ids.

## 3. How the models correspond to the code

### TimeoutQueueOps, TimeoutQueue

A queue value has four fields: `uniqId`, `data` (a function on the ids in use),
`time` (a set of deadline-id pairs for the multimap) and `send` (a sequence;
the C++ list pushes at the front and sends from the back). C++ iterators from
one container into another are represented by the id they lead to, so a
dangling iterator is a link to an id that is not in `data`; `WellFormed` says
there is none. `IdSpace` stands for 2^32, small enough for the counter to wrap
onto ids in use. `TimeoutQueue` adds the clock and `held`, what the owner
concludes from the return values alone. The entries of one deadline expire in
any order (the code: insertion order), which no property tells apart.

### LoopQueue

The producer reads `_iEnd`, decides, then for each element stores the slot and
moves `_iBegin`; the consumer copies a slot, then moves `_iEnd`. Each is a step
of its own and the other thread runs in between. A refused push and a pop of an
empty queue change nothing and are not steps. Stores become visible in program
order, as on x86-64; the fields are not atomic, so on a weaker memory model the
class promises nothing (a listed hazard). `push_back(t)` is the batch push with
one element: its test is that of the batch with n = 1.

### ClientInvoke

| state | code |
|---|---|
| `pc`, `cur` | where a user thread is in `ServantProxy::invoke` |
| `loopq`, `armed` | its `ReqInfoQueue` and the pending epoll event |
| `net` | the handler on the net thread's stack; a loop in a handler takes a step per round, and no other event is served until it leaves |
| `valid`, `proxys` | `EndpointManager::_valid`, `_activeProxys` |
| `reqq` | `ObjectProxy::_reqTimeoutQueue` |
| `serial`, `req[a]` | `kant_connection_serial() > 0`; an adapter's `_requestMsg` |
| `tq[a]`, `conn[a]`, `buf[a]`, `up[a]` | an adapter's table, connection, rest in the send buffer, `_activeStatus` |
| `peer[a]` | requests written to the connection whose answer may still come |
| `status`, `adapter`, `begin` | fields of `ReqMessage` |
| `woken`, `asyncq`, `deleted` | monitors notified, async queue, number of deletions |
| `fate`, `sent` | history: how a call left the queues (its callback ran, it was thrown away, it was only logged), what has been written |

Each action is one handler, or one round of a loop, with everything it calls:
`NotifyPop` includes choosing an adapter, starting connections, sending or
queueing, and completion on failure. An exception of the transceiver closes the
connection and abandons the handler (`AdapterInvoke`, last disjunct). What the
network, the peer and the registry do is unconstrained. `TimeoutAdapter` and
`Respond` leave open whether an outcome reaches the breaker's thresholds;
`CircuitBreaker` models those.

A proxy is serial from the start or not at all (`Init` leaves it open). Serial
calls are those of HTTP (`http_call`, `http_call_async`), whose id is generated
by `invoke_connection_serial`; a call of a generated stub would take two ids,
of which the first is written and the second is in the table, which makes no
difference since a serial answer is not matched by its id. A response that
announces the end of its connection (`PACKET_FULL_CLOSE`) is `RespondSerial`
followed by `LinkDown`: the next request, if `onCompletePackage` has just
written it, is lost with the connection, in the code as in the model.

`RegistryUpdates` replaces the active endpoints while calls are under way.
The others stay known as inactive ones, so the vector that the hash indexes,
`_vRegProxys`, and with it `Home`, does not change.

Left out here: coroutine callers, UDP, SSL, proxies,
authentication, push messages (id 0), `terminate`, the reconnect timer, the
calls `rpc_call` makes to servers of another protocol (`bFromRpc`, for which
`AdapterProxy::invoke` generates no id: the caller chooses it, and if it reuses
one that is in the table the push is refused as it is for a wrapped id;
`AnswerMatchesRequest` promises such a caller nothing), a
`connect` that completes at once (it always takes an event), weights and
consistent hashing, endpoints that the registry adds or forgets. A `connect`
that throws is `StartConnect` followed by `LinkDown`.

### CircuitBreaker

One adapter with the counters of `finishInvoke(bool)`, the connection-exception
flags and its connection. Absolute times are replaced by the time left, so time
is unbounded. Calls, answers and connection events come in any order. `streak`
is history, to state what `Message.h` says about consecutive timeouts.
`ErrorEvent` is the error event of a connection, a refused handshake included:
`handleCloseImp` closes the connection, up or still connecting, and counts
nothing. `SocketError` is an error that a read or a write throws, which
is counted. `OwnStep` is everything but another proxy's blocking of the
endpoint (`OnSetInactive`); a `ForceRetry` whose connect throws is an `OwnStep`.

### ServerConnections

| state | code |
|---|---|
| `acc` | where the accept thread is in `accept`, `addTcpConnection` |
| `stage`, `bye` | the life of a `Connection` and its transceiver; whether the end of stream was read |
| `slot`, `vConn`, `free` | `_uid`, `ConnectionList::_vConn`, `_free` |
| `stale` | connections whose entry in `_tl` is in the past; `_tl` itself is `vConn` in order of time |
| `cur` | `_iCurConns` |
| `net` | where the net thread is in `delConnection` or `checkTimeout` |
| `recvq`, `busy` | the data queue, what each handle has taken from it |
| `sbuffer` | `NetThread::_sbuffer`: send and close commands |
| `sendbuf`, `messages`, `closing` | the transceiver's send buffer, `_messages`, `_bClose` |
| `came`, `out`, `ahead`, `told` | history: requests read, answers written, slots to be reused before that of a dead connection, calls of `handleClose` |

A request and its answer carry `of`, the connection they belong to, beside the
`uid` the code carries; only properties compare them. Deleting a connection is
three steps for an event (report and close, take off the list, count off) and
the last two change places for a timeout, which holds the list's mutex
(`Locked`) meanwhile; accepting is three steps as well. A partly written answer
is in `sendbuf` and, when `Connection::send` put it there, in `messages` too,
because the code queues the buffer that the transceiver shares; `Left` is what
remains when the shared bytes are gone. Reading in rounds, and a read followed
by the end of stream, are several actions in sequence. `LinkDown` covers every
way a connection ends by an event, with "ended" for both `EM_CLIENT_CLOSE` and
`EM_SERVER_CLOSE`.

The mode is `NET_THREAD_QUEUE_HANDLES_THREAD`, with one net thread and one
adapter (a connection belongs to one net thread for life, and net threads share
only the counter). Listing, counting and registering a new connection are one
step: the shortest timeout is a second. A full queue is scaled down
(`QueueCap`, `OverloadAt`); `Verdict` has the code's comparisons, strict on both
sides. Left out: UDP, SSL, authentication, the header filter, sizes in bytes
(`checkFlow` may close at any time), the empty-connection check, closing an
adapter and shutdown, the merged modes (the coroutine mode is `CoroutineHandle`),
connections over the limit or from a forbidden address (closed without a trace).

### CoroutineScheduler, CoroutineHandle

| state | code |
|---|---|
| `status`, `active`, `avail` | `_eStatus`, the lists `_active` and `_avail`; `_inactive`, `_timeout` and `_free` are never walked and follow from the status |
| `used`, `current` | `_usedSize`, `_currentSize` |
| `puts`, `yields`, `asleep` and `due` | how often a coroutine is in `_activeCoroQueue`, `_needActiveCoroId`, `_timeoutCoroId` |
| `at`, `round`, `cur` | where `run()` and `done()` are, the active coroutines run in this round, `_currentCoro` |
| `notified`, `ringing` | the epoller's notify event, a timer that has come up since `fireEvents` |
| `queue`, `pushed` | the handle's data queue; net threads between `insertRecvQueue`'s push and its notify |
| `calling`, `sending`, `count` | coroutines in a synchronous call, coroutines that have sent a batch and not yet called `coroWhenAll`, calls of the batch that are open |

A coroutine runs from one switch to the next without interruption, so a step is
one call into the scheduler. `go()` grows the pool when no coroutine is free;
`YieldSelf` is `yield(true)`, `Sleep` is `sleep`, `Leave` with a source that
somebody else will supply is `yield(false)`. `Put` is `put()` followed by the
notify, and does nothing after `terminate`. The answers of the calls a
coroutine makes are handled by a net loop of the same thread, inside `done()`:
completions are steps of "fire" (timers) and "io" (sockets). A call may complete
while it is being made (no endpoint, a queue at its limit): then `put` comes
before the yield. A failing `assert` sets `aborted`; the release flags of the
build do not define `NDEBUG`.

Assumed of the program that runs in a coroutine: between the calls it sends in
parallel and `coroWhenAll` it does nothing else with the scheduler, and it sends
as many calls as it announced, as the examples do. Without the first, the last
answer of the batch wakes it in the middle of something else.

Seen while modelling, and in the model: `fireEvents` drops the timer of a
sleeper whose time comes between `wakeupbytimeout` and `fireEvents`, so the
sleeper may oversleep until the next event or the end of the wait in `done()`,
about a second. Seen and not in the model: two coroutines that poll with
`yield(true)` for ever keep `_avail` filled, so `done()` is never called and no
answer is ever handled (the model bounds the steps by `Ops`); `put` writes a plain `std::deque`, while the comment beside it
in `kt_coroutine.h` and `test_kt_coroutine.cpp:60` use it from other threads;
in the mode where handles share a queue the notified handle is chosen by
`rand()`, and the others find the data at their next wakeup.

### ThreadPool, TaskList

| state | code |
|---|---|
| `tasks`, `busy`, `stopped` | `_tasks`, `_atomic`, `_bTerminate` |
| `thread`, `job` | where a worker is in `run()`, the task `get()` gave it |
| `asleep` | who sleeps on `_condition`: workers and the caller of `waitForAllDone` |
| `item`, `cancelled`, `finished` | the status of each item, `_taskRsp.status`, `_finished` |
| `prep`, `pi` | the thread of `execute()`, the item it prepares |
| `main`, `base`, `batch` | the serial or elegant loop, `baseIndex`, the items of the batch not yet given to the pool |
| `marked`, `begun` | history: items `cancelTask` found not started, items whose command was run |

What a method does under the pool's mutex is one step; `_atomic` is raised and
lowered outside it. `exec`'s `notify_one` wakes any sleeper, the caller of
`waitForAllDone` included; sleepers may also wake for no reason. What an item's
command does is left open: it succeeds or fails. `TaskListParallel::onExecute`
fills the pool while it holds the list's mutex, so that workers and `cancelTask`
wait (`Unlocked`). The patches' preparation is one item at a time, may fail at
any of them, and then fails all items.

Seen and not in the model, because one list is modelled: an item in preparation
is not cancelled, so a cancelled elegant task still executes its patches, beside
the newer task that cancelled it (the comment at `ExecuteTask.cpp:849` says
that the running task is cancelled); the older task's restart of a server opens
its traffic while the newer task has it closed; the reaper may delete a list
whose preparation runs, and `addTaskReq` and `cancelTask` use a pointer to a
list after they have unlocked the map; the traffic of a batch is stopped with
the application and server name of the first item. `eachNum` 0 would repeat the
first batch for ever and is excluded by assumption. `KT_ThreadPool::stop` does
not end `waitForAllDone`, which `kt_thread_pool.h:38` says it does; the loops of
`TaskList` call both from one thread and do not meet it.

## 4. Runs

| run | checks | instance |
|---|---|---|
| `timeout_queue` | containers agree, nothing lost or doubled, send order kept | 3 pointers, 4 ids (3 usable: as many as pointers, so push meets taken ids), deadlines within a clock of 2 |
| `loop_queue` | ring refines the FIFO; exact refusal; no overwriting | 3 elements, batches of 1 to 3: every wrap position, full and empty |
| `client_calls` | one owner, own answer, written once, refinement of `RpcCall` | 2 threads, 1 endpoint, 3 calls (synchronous, asynchronous or one-way, chosen as they are made), multiplexed or serial, sends may fail hard, a ring of 1, an async queue of 1, at most 1 unsent request, so every limit is met |
| `client_liveness` | no lost wakeup, every call completes | 1 thread, 2 endpoints of which the registry may take the hashed call's from the list and put it back, a plain and a hashed call, multiplexed or serial, ids that always collide |
| `breaker` | counters, flags, recovery | small thresholds, each reached before `MaxCount` |
| `server` | slots, list and counter agree, every end reported once, answers in order, late commands find no stranger before the slots run out | 3 connections on 2 slots, so slots are reused; 2 requests on one of them; 1 handle; a queue of 2 that is overloaded from 1 |
| `coroutines` | nobody is woken too early, twice or never; counters; no idling with work; everything served | 3 coroutines created 2 at a time (`Batch`), so that the pool grows; 1 active coroutine in a round (`ActiveRound`), so that a round ends early; 2 net threads, 3 data (`MaxData`), 2 steps for each request (`Ops`), 2 parallel calls |
| `deployment` | a list ends, not before its items; cancelled items stay so; bounded outage | 4 items, batches of 1 and of 2, a pool of 2, so that there are several batches and a batch can fill the pool |
| `v_thrown`, `v_hash`, `v_breaker`, `v_closetype` | what comments say and the code does not do (section 6) | |

`MaxNow` bounds the clock of the client: a call is made only when its timeout
lies within it, so every timeout fires. `client_calls` and the other client runs
do not check deadlock: when all calls have ended the system rests.
`AnswerMatchesRequest` is checked with more ids than calls: the code has no
defence against an id reused while an old answer is outstanding, other than the
2^32 range. `client_liveness` has the opposite: every second push meets a taken
id. `client_calls` has one endpoint to stay small; in `client_liveness`, with
two, a call that is lost on the way from one to the other would never end.
`Completion` says that time and again every call made so far has ended: calls
are finitely many and ends are final, so each of them does. An asynchronous
call has ended when its callback has run; that run always has room for the
callback, and the one way out without it is `OnlyLogged`: the call failed
before it had an adapter. Where a full queue drops the callback, `OneOwner`, in
`client_calls`, requires that the message is deleted, once. `OneOwner` excepts two
kinds of call by name, which no queue holds and nobody deletes: `Thrown`, where
the run lets a send fail hard, and `OnlyLogged`. Any other call in no place, and
any call in two, violates it.

`server` has no bound beyond its constants: a connection is made once and sends
at most `Asks` requests, so the queues are finite, and the run ends in states
where nothing is left to do (deadlock is not checked). With `QueueCap` 2, two
requests and two reports make the queue pass through every verdict. A single
handle is enough for the order of answers, which is the order of `sbuffer`; with
two handles the same properties hold on 3.0 million states, in three minutes.

`coroutines` bounds the data that arrives and the steps of a request, nothing
else: 243 thousand states, most of the two minutes going into `Served`. Three
coroutines are the handle's and two for requests, which is enough for one to be
woken while another runs and for a request to find none free; with 3 data a
coroutine is used again. `deployment` is finite as it stands (253 thousand
states); with batches of 2 on 4 items the second batch meets items of the first.
`Ends` asks for a lasting end: that a cancel has marked every item is none while
a loop, the preparation or a worker goes on.

Every property of a passing run is paired in `PROJECT.json` with a mutant: an
operator `Mut...` that changes one definition the way a bug would (a reset
dropped, an off-by-one, a missing re-arm), which makes TLC refute it.

### Fairness

Assumed: a user thread that has pushed goes on to notify, and to wake when its
monitor is notified; the net thread serves a pending event and finishes the
handler it is in (the loop of `kt_epoller.cpp` serves all ready descriptors);
its timer fires; the async thread runs; time passes. Nothing is assumed of the
network, the peer or the registry, nor that a call is ever made. For the
coroutines: the loop and the coroutine that runs go on, a net thread that has
pushed notifies, time passes, and the wait in `done()` has a bound of its own
(`EpollTimesOut`); a call completes if completions are possible again and again
(strong fairness), since each has a timer that one of the next calls of `done()`
fires. For the task list: its threads run and each command ends. For the
breaker, `BlockedComesBack` assumes that calls keep looking at the adapter, that
attempts to connect, in their turn or forced, neither throw nor fail forever
(strong fairness: they come and go). That other proxies block it again and again
is an explicit alternative in the property, and only steps that are no
`OwnStep` count for it: a retry whose connect throws is no excuse.

## 5. Proofs

Checked by `tlapm` for every value of the constants:

* `TimeoutQueueOpsProofs`: what each operation of the table (`Push`, `Remove`,
  `PopSend`, `GenerateId`) keeps and what it changes, and what deleting does to
  a list without repetitions.
* `TimeoutQueueProofs`: `TypeCorrectness`, `Consistency` and `Conservation`. The
  invariant is the type invariant with `WellFormed` and the agreement of
  `held`; `WellFormed` is needed because `Remove` trusts the `hasSend` flag to
  decide whether there is a link in the send list to erase. `SendOrder` needs
  it too: after a step the send list picks elements of the old one in their
  order, or has a new id behind them, and an id that is new is in no list.
  Assumptions: `IdSpace > 1`, deadlines are numbers.
* `LoopQueueProofs`: `IInv` adds to the types that what a push has still to
  store fits (`RoomForTodo`), that a copied element is the oldest
  (`CopyIsOldest`) and that a stored element is the next to publish. The
  consumer only makes room, hence the first; the producer's slot therefore
  holds no element, hence the second. Then `RingIsFifo`: publishing is `Put`,
  releasing is `Get`, the other steps stutter. Assumption: `Size > 0`.
* `CircuitBreakerProofs`: the invariant joins the type invariant with
  `BlockedHasNoLink`, `FailuresAmongCalls` and `ExcOnlyWhileBlocked`; every
  action preserves each. Assumption: the thresholds are numbers, at least 1
  where 0 would disable the breaker.
* `TaskListProofs`: `TypeOK`, `FinishedIsFinal`, `OutageBounded` and
  `CancelHolds`, for every number of items, threads and batch size. The
  invariant says where the loops can be while the pool has something to do
  (`PlaceOK`), that whatever is at work is held by the pool's queue, the batch
  being handed over, a worker or the serial loop (`WorksOK`), and what cancelling
  has excluded (`CancelOK`). The bound on the outage is a count: the items of
  the current batch that wait, and one for each thread of the pool.
* `CoroutineProofs`: `TypeOK`, `NeverAborts`, `OneWakeup`, `PoolAccounted` and
  `NoIdleWithWork`, for every pool size, batch, number of net threads and of
  parallel calls. `ListsOK` says that a list holds exactly the coroutines whose
  status names it, without repetition, and `WakeOK` that who waits has one
  source of wakeup: together, whoever is woken is in no list, so the asserts of
  `moveToActive` and `moveToAvail` hold. `PoolOK` is the count behind `go()`.
  `IdleOK` follows the handle's coroutine round the loop: it yields only after
  it has found nothing to take, and what comes later is notified.
* `ClientProofs`: the seven properties of `ClientInvoke`, for every number of
  threads, endpoints and calls, all limits and timeouts.
  - `ClientTypes`, `OneOwnerAlways`, `SyncMsgLives`. A `Place` is a queue, a
    table or an end of a call; the invariant (`OwnerOK`) says that a call that
    has been made is in exactly one, and one that has not in none. To be lost
    is a place in the proof only: the property's `Holders` are empty then, and
    `FateOK` shows that no calls are lost but those it excepts. The
    property itself is not inductive: it must be known that no queue holds a
    call twice, that a thread's queue holds its own calls, that a call is in
    one adapter's table under one id (`TableOK`), and that the request under way
    on a serial connection is still in its table (`ReqOK`). Each action takes
    one call from one place to another, and in the handlers that choose between
    several ends (`FinishInvoke`) the lemmas about it say which.
  - `WrittenOnceAlways`. Of all that a step does, three forms matter (`Effect`):
    it keeps the requests or takes some off, passes one to an adapter, or sends
    one that was in line. `SentOK` ties the flag in the table to what has been
    written, so what is sent was not sent before.
  - `AnswersMatch`. The counter of an adapter moves once for each call that
    reaches it, so it is at most the number of calls that have passed the
    waiting queues, and does not wrap; an answer to come carries an id that was
    given out, never one that will be. Hypothesis `IdsSuffice`: fewer calls than
    ids. It cannot be left out: against an id reused while an old answer is
    outstanding the code has nothing but its 2^32 range.
  - `NothingStranded`. Hypothesis `~SendMayThrow`: with it the property is false,
    which is what `v_thrown` shows. Otherwise a queue is filled by the step that
    leaves its thread about to arm the event, and emptied by the handler, which
    is interrupted only after it has armed the event again.
  - `ClientImplementsCalls`: each step is a step of `RpcCall` or none, because
    where a call is determines its status (`PhaseOK`). It rests on
    `AnswersMatch` (a call is answered only by its own answer) and `IdsSuffice`.
* `ServerProofs`: the seven properties of `ServerConnections`, for every number
  of connections, slots, handles and requests. The invariant says where the
  accept thread and the net thread are with a connection and what its stage is
  meanwhile (`ThreadsOK`); that the free slots, the listed connections and the
  one being accepted make up all slots, and how far the counter may be from the
  list (`CountOK`), hence the assertion of `getUniqId`; that the report of a
  close is in the queue, at a handle or told (`ReportsOK`); and, for a command
  that comes late, how many free slots are before the one it names (`LateOK`).
  `AnswersKeepOrder` needs a second invariant, `OrderInv`: a request or its
  answer is in one place (queue, handle, pipe, or at a connection, waiting or
  written), and of the messages of an open connection only the first can have
  been written, when it is the one that the send buffer still holds. So a step
  writes the first of what is due. Assumption: the limit of connections is at
  most the number of slots, which `createEpoll` sees to.

The assumptions on constants are those of the modules; that `None` is none of
the values it stands beside is the only one that is not about the program.
`IdsSuffice` and `~SendMayThrow` are hypotheses of the theorems that need them and
hold in the configurations that check those properties: 3 calls and 4 ids in
`client_calls`, no hard send error in `client_liveness`.

Model-checked only: liveness (`BlockedComesBack`, `Completion`, `Served`, `Ends`)
and the fairness it rests on, which the prover does not handle. What a recursive
definition or a fold computes is out of its reach too; `AnswersInOrder` therefore
speaks of positions in the line of answers instead of a filtered sequence.

## 6. Where the code and its comments differ

1. `kt_transceiver.h:41` promises that requests not yet sent survive a broken
   connection, and `AdapterProxy::invoke` has a branch that completes a request
   whose sending failed. A hard error of `send` is thrown, though, past that
   branch and out of the notify handler: the request is in no queue, a
   synchronous caller waits forever, and the requests behind it wait for the
   thread's next call (`v_thrown`).
2. `AdapterProxy.cpp:638` says that the first hash is not wrong. Requests that
   wait for their endpoint to connect wait in the object, and the endpoint that
   connects first takes them all (`v_hash`).
3. `Message.h:30` says that an endpoint whose calls keep timing out is
   disabled. A synchronous call that times out keeps result code 0 and is
   counted as a success (`v_breaker`).
4. `kt_epoll_server.h:127` says that a close by the client is reported as
   `EM_CLIENT_CLOSE`, and `Servant.h:158` that `doClose` handles it. An orderly
   close is a return value of `doResponse` that `handleInputImp` does not look
   at: the connection keeps its slot and its place in the count until the idle
   timeout, which reports a timeout (`v_closetype`). Without a timeout it stays
   until an answer is sent to it, or for good.

Seen while modelling, without a run of their own:

* An asynchronous call that fails before it has an adapter is only logged
  (`ObjectProxy.cpp:217`): no callback, and the message is never freed.
* When the async queue is full the callback never runs (`AsyncProcThread.cpp:58`).
* A refused connection arrives as an error event, which `handleCloseImp` answers
  by closing, without `addConnExc`: it does not count as a connection exception.
* Nothing resets `_requestMsg` when a serial connection ends. Until the lost
  request times out nothing is sent over the next connection, which that
  timeout then closes (`DoInvokeSerial`, `TimeoutAdapter`). Calls still end.
* `invoke_connection_serial` asserts that a call is not one-way, and
  `AdapterProxy::doKeepAlive` makes one-way calls in either mode.
* A comment in `getHashProxyForNormal` says that `_vRegProxys` keeps an endpoint
  that went offline until the client starts again; `updateEndpoints` rebuilds it
  from the latest answer, so an endpoint the registry forgets moves the hash.

## 7. Not modelled, and why

Not yet: the rest of the server, the timing of the endpoint refresh,
lifecycle, the blocking thread queues, several task lists at once, promises
(section 2). In particular these hazards have no property, for the reason
`PROJECT.json` gives with each: stores reordered by the processor in the ring,
the read of a message after its push, the monitor's unlocked read, the
communicator's termination, a connection closed while it is being listed, and
the traffic that a failed item leaves stopped. Most lines of the tree are generated protocol code,
vendored libraries and the code generators, which hold no behaviour of this
kind, so the share of all lines that the models cover stays low.

Left out for good: code generators, generated protocol code, string, file, HTTP,
database and hash utilities, logging and statistics (I/O or formatting, little
ordering to check), authentication (a handshake over strings), shared-memory
containers (not used by the RPC core).
