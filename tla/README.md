# Verification of the cmake-template libraries

TLA+ models of the concurrency library of this repository (`lib_shared`, namespace
`jar::concurrency`) and of its sockets (`lib_static`, namespaces `jar::com` and
`jar::system::posix`, on the handle of `lib_header`), the TLC configurations that check them on
small instances, and TLAPS proofs of what matters most for every size. Paths below are relative to `src/`.

## 1. Inventory

| Component | State | Operations | Interacts with | Hard behaviour |
|---|---|---|---|---|
| `queue` (`lib_shared/inc/jar/concurrency/queue.hpp`) | deque, cancelled flag, mutex, condition variable | `pop`, `try_pop`, `push`, `try_push`, `clear` | owned by `rr_scheduler` | notification after the unlock, overtaken wake-ups, cancellation while threads sleep |
| `latch` (`latch.hpp`, `latch.cpp`) | atomic counter, mutex, condition variable | `count_down`, `wait`, `try_wait`, `arrive_and_wait` | used directly | counter changed and notified without the mutex, unsigned wrap |
| `future`, `promise`, `shared_state` (`future.hpp`) | atomic state, variant with the data, mutex, condition variable | `set_value`, `set_exception`, `cancel`, `broken`, `wait`, `get` | behind `value_receiver` | state published before the data, setters that race, unlocked notification |
| `rr_scheduler` (`rr_scheduler.hpp`, `.cpp`) | one queue per thread, push and pop index | `schedule`, `scheduled`, `clear` | queues; called by clients, by tasks and by the pool | stale scans, failed attempts, clearing queue by queue |
| `thread_pool` (`thread_pool.hpp`) | threads, scheduler | constructor, `run`, `join`, destructor | `rr_scheduler` | constructor that fails half way, shutdown with busy, sleeping or scheduling workers |
| senders, `value_receiver` (`schedule.hpp`, `then.hpp`, `wait.hpp`, `start.hpp`, `details/`) | closures, shared promise | `connect`, `start`, `complete`, `fail`, `cancel` | promise/future, the pool | cancel racing the task, last owner breaks the promise, tasks dropped by the pool |
| `callback_receiver` (`details/callback_receiver.hpp`) | atomic state, three handlers | `complete`, `fail`, `cancel`, `is_canceled` | senders | one handler, once; `is_canceled` |
| `basic_handle` (`lib_header/inc/jar/system/basic_handle.hpp`) | a native handle | move, destruction | sockets | the descriptor is closed exactly once |
| `contract`, `enum`, `type_traits` (`lib_header`) | none | checks, bit operations | everywhere | early ends of the operations that call them |
| posix sockets and their facade (`lib_static`) | descriptors; the system's descriptor table, sockets and names | construction, bind, listen, accept, connect, send, receive, shutdown, mode and timeouts | operating system | unlink/bind is not atomic, descriptors are used again, calls that block, timeouts, stale remote address |
| addresses (`basic_address.hpp`, `ipc/basic_ipc_address.hpp`, `posix/ipc_address.hpp`) | the array `sun_path` | construction, length, comparison, `unlink` | sockets | a view that outlives its copy, residue of a longer name |
| `exe_service` | a counter nobody reads | `run` | none | none |
| build files, scripts, benchmarks | none | none | none | not part of the program |

What makes each modelled component correct:

* queue: a linearizable FIFO; a blocked `pop` is woken whenever there is something for it;
  nothing is moved out of an empty deque; `clear` releases everybody.
* latch: `wait` returns exactly when the counter is zero; an open latch stays open.
* promise/future: one final outcome, the same for everybody; a wait ends when it is there; a
  promise never ends silently.
* pool: each task given to `schedule` is run once, or thrown away by the destruction; `join`
  returns and nothing outlives it.
* senders: the future becomes ready in every case and tells what really happened; a callback
  receiver calls one of its handlers, once.
* sockets: a descriptor has one owner and is closed once; `bind` frees its name and takes it;
  `receive_from` tells who sent; a call with a limit ends, and `shutdown` releases the others.

`PROJECT.json` lists, under `hazards`, the places where each of these can go wrong, and the
properties that would notice.

## 2. Modules

Threads are processes with a program counter. A mutex is its holder or `NoThread`, a condition
variable is the set of threads asleep on it. `condition_variable::wait` is three steps: testing
the predicate under the lock, going to sleep (which releases the mutex in the same step), taking
the mutex again after a notification or spuriously. Notifications are steps of their own,
because the code makes them without the mutex. Memory is sequentially consistent: what relaxed
loads may additionally see is not modelled.

| Module | Models | Notes |
|---|---|---|
| `QueueState` | the data of a queue and what a critical section does to it | shared by `AbstractQueue` and `ThreadPool` |
| `AbstractQueue` | what a queue promises: a FIFO on which every call takes effect in one step | `try_push` and `try_pop` may give up only while another call is in progress |
| `Queue` | `queue.hpp` | one step per lock, test, sleep, wake-up and notification; implements `AbstractQueue` |
| `Latch` | `latch.cpp` | counter modulo `Modulus`; `late` remembers who fell asleep after zero |
| `Future` | `future.hpp` | compare-exchange, store of `m_data` and notification are three steps; `decided` remembers the elected outcome |
| `ThreadPool` | `rr_scheduler.cpp`, `thread_pool.hpp` | composes N queues (one step per call, justified by `Queue` implementing `AbstractQueue`), N workers, clients and the owner |
| `SenderChain` | `schedule.hpp`, `then.hpp`, `wait.hpp`, `start.hpp`, `value_receiver.hpp`, `callback_receiver.hpp`, `sender_adapter.hpp` | composes the promise (one-step outcome, justified by `Future`) and the pool (runs or drops, justified by `ThreadPool`); the chains in `Callbacks` have a callback receiver and some other scheduler |
| `IpcAddress` | `posix/ipc_address.hpp`, `basic_address.hpp`, `ipc/basic_ipc_address.hpp` | pure operators on the array `sun_path` |
| `PosixSocket` | `posix/socket.cpp` | one operator per function, over an external model of the system: descriptor table, sockets, names |
| `IpcSocket` | `basic_handle.hpp`, `lib_static/inc/jar/com/*.hpp` | objects with their `m_value`; composes `IpcAddress` and `PosixSocket` |
| `SocketCalls` | `basic_socket.hpp`, `basic_stream_socket.hpp` over `posix/socket.cpp` | one connected socket: mode, timeouts, shutdown, calls that wait, and the peer |
| `QueueProofs`, `LatchProofs`, `FutureProofs`, `ThreadPoolProofs`, `SenderChainProofs`, `IpcSocketProofs`, `SocketCallsProofs` | theorems about the module each is named after | section 4 |
| `MC*` | instances for TLC | |

Operators introduced by a comment "A mutant: ..." are the code with a plausible mistake. They are
used by no specification; substituting one for the definition that follows it makes the property
named in `PROJECT.json` fail, which shows that the property depends on the code being right.

### Modelling decisions

* `try_pop` evaluates `m_container.empty()` before it looks at its lock (queue.hpp:55). Without
  the lock that is a data race; both outcomes of the read give `nullopt`, so `TryPopFailed` has
  one result. That `try_lock` may fail although nobody holds the mutex is left out; it gives `nullopt`
  as well, and the pool's attempts may fail in any state in which another thread is in the queue.
* Lines 39-43 of `queue.hpp` skip the wait only when the deque is not empty and the queue is
  cancelled. The wait's predicate is true then, so both paths into the rest of `pop` start from a
  true predicate: `PopCheck`.
* `count_down`'s subtraction is the first thing the call does, so the call and the subtraction
  are one step (`Subtract`).
* The calls to a latch keep its contract: together they count down at most `Expected`
  (`Budget <= Expected`). The code does not check this; the standard's latch asks it of callers.
* `shared_state::get` loads `m_state` and then `m_data`; after `wait` the state does not change
  (`StateFinal`), so both loads are one step. The store of `m_data` is one step too; a reader that
  comes before it finds `std::monostate` and `std::get` throws.
* Values are assumed to move without throwing (one that did would leave `state::value` without data and
  without a notification, future.hpp:120), tasks not to throw (`thread_pool::run` is
  `noexcept`, and the closures of `schedule` catch), memory not to run out.
* Clients do not use a pool that is being destroyed. Tasks running on the workers do: they may
  call `schedule` during `join`.
* `IpcSocket` has one step per system call, so `bind` is two steps (`BindUnlinks`, `BindBinds`) and
  `accept` ends when its handler does (`HandlerEnds`). Every other call is one step: it takes
  effect, or it throws and changes nothing (`no_effect`). Sockets are blocking: a call that would
  block is not enabled. What the system does is modelled from how the code uses it and from local
  (`AF_LOCAL`) sockets of Linux; it may hand out any closed descriptor again.
* An address is the array `sun_path`, and a name is what comes before its first null character. A
  datagram carries the name its sender has when it sends. `receive_from` writes that name and a null
  character into the caller's address, which may hold any name before (`Init` of `IpcSocket`); of a
  sender without a name the system writes nothing, and the caller's address stays as it was.
* In `SocketCalls` the owner makes its settings one after the other while callers send and receive.
  The system reads the mode and the timeout when a call begins; a setting made later does not touch
  it. A message is one unit of a buffer; a partial send is not modelled. Time is not counted: a call
  with a timeout may end, by its timeout, at any moment at which it cannot go on. Durations are
  clock ticks, cut to microseconds (`microseconds`); all of them go to `tv_usec`, and the system
  refuses what does not fit there (`Accepted`). `asked` keeps the argument of each setting that has
  returned, before the cast; `Promised` says what a call may rely on because of it: the mode, or a
  timeout of a microsecond or more. A shorter one is cut to zero, so the code gives no such promise.
* `callback_receiver` cannot be copied, and `rr_scheduler` stores tasks in `std::function`, which
  copies them: a callback chain is run by some other scheduler, once, or thrown away. The chains in
  `Direct` are those of a sender that completes its receiver without asking `is_canceled`, as the one
  of the unit tests does. Its owner can cancel such a receiver only before it moves it into `connect`.
* An object is used by its owner only, one call at a time; different objects run concurrently. The
  argument of an accept handler can be moved from, in the handler.
* The move assignment of `basic_handle` (basic_handle.hpp:122-128) compares a pointer with an object
  and returns nothing: it does not compile when instantiated, so no program reaches it.
* `basic_ipc_address::unlink` hands `::unlink` a `string_view` into a by-value parameter of
  `to_string_view` (ipc_address.hpp:58-61) that no longer exists. What is there then depends on the
  build: with optimisation the name is usually intact, without it (or under the thread sanitizer)
  it has usually been overwritten. `Unlinks` therefore removes the name, that of another socket, or
  none; an error other than `ENOENT` ends `bind` (`UnlinkFails`).
* A worker keeps its `std::function` until `scheduled` returns the next one (thread_pool.hpp:74), so the
  closure of a chain may be destroyed later than `TaskEnds` under fairness says. No property
  depends on it: a promise has its outcome before its task ends.

## 3. Runs

| Run | Instance | Question and answer |
|---|---|---|
| `queue` | 3 threads, 2 items, 1 call each | Is the deque only touched under the mutex, is `pop` never at an empty deque, is no wake-up lost, is every behaviour one of the abstract FIFO, does no popper stay asleep beside an item or after `clear`, do other calls return? Yes. |
| `latch_counted` | 3 threads, count 2, 2 calls each | No wrap, no early return, stays open; is whoever slept at the last count announced and released? Yes. |
| `latch_wakeup` | 2 threads, count 1, 1 call each | Is every waiter released? **No**, see the findings. |
| `future` | 2 producers, 1 future, 2 values, 1 error, 2 calls each | One final outcome, one writer, agreement, no silent end; is a consumer asleep at the election notified, and does it return? Yes. |
| `future_wakeup` | 1 producer, 1 future, 1 call each | Does every waiter return once there is an outcome? **No**. |
| `future_get` | 1 producer, 1 future, 1 call each | Does `get` give the outcome and never an error of the variant? **No**. |
| `pool` | 2 workers, 1 client, 4 tasks, one spawned by another; thread creation may fail | Is every task in exactly one place, does every worker have its own queue, does nothing outlive the pool, is every task run unless the pool goes, does `join` return? Yes. |
| `sender_chain` | 3 chains of 2 steps: one with a future, one callback chain behind `schedule`, one behind a direct sender; the first step and the complete handler may throw | Does every future become ready and tell what happened, does no receiver call two handlers? Yes. |
| `callback` | the same | Has a callback chain whose task was run called a handler? **No**. |
| `ipc_socket` | 1 server, 2 streams, 1 datagram object, 3 descriptors, 3 sockets, 2 names to bind, one short and one of full length, queue sizes 0 and 1 cut to 0 | Does every open descriptor have exactly one owner and never change under it, is a name that leads to an open socket only taken by the `unlink` of a `bind`, one name at a time, does `receive_from` fill in an address equal to the sender's? Yes. |
| `ipc_bind` | 1 server, 1 stream, 1 datagram object, 2 descriptors, 1 name | Does `bind` only fail on a name somebody else has just bound? **No**. |
| `socket_calls` | 1 owner, 2 callers, buffers of 1, durations of none, half a microsecond, a microsecond, a second and a negative one; a second has 2 microseconds | Do calls end that begin after a setting asked for non-blocking mode or a microsecond or more, do `shutdown` and a closing peer release the callers, is it so for both directions of `set_timeout`? Yes. |

Why the bounds are enough: the interesting cases of the queue need a sleeper, a second popper
that overtakes it, and a push or a clear, which three threads with one call each give (two pushes
and a pop, two pops and a push, a pop, a push and a clear). The latch needs two
counters and two sleepers. The future needs two setters that race and a reader that asks
twice.
The pool needs a queue whose worker is busy, another worker that scans, and a task scheduled
while the queues are being cleared. The sockets need a connection waiting to be accepted when the
descriptors run out, a descriptor that is closed and used again, a move in a handler, an address
that held a longer name, and a second name that an `unlink` can hit by mistake. The calls need two callers that compete for one message, and a setting
between the beginning and the end of a call.
`IndexModulus` is small, so that `index + n` wraps at a number
that is not a multiple of the number of queues. For the queue, the latch and the future's safety
the proofs remove the bounds.

Deadlock checking is off except in `socket_calls`: bounded callers stop calling, and a `pop`, a latch
or a future may wait for ever for a call nobody makes, as may a socket whose peer does not act. The
liveness properties say who must not.

### Fairness

Each thread inside a call takes its next step if it stays enabled (weak fairness of `Step(t)`):
the operating system runs every thread. Nothing is assumed of callers: nobody has to call, cancel
or destroy. The mutex is not assumed fair; as calls are bounded, contention ends. Spurious wake-ups may
happen at any time but not for ever (`<>[][~SpuriousWakeup]`): otherwise one sleeper could take
the mutex again and again. In `SenderChain`, that the pool runs or drops a task is what `TasksServed`
and `JoinReturns` of `ThreadPool` show. In `SocketCalls` a call that can end ends and a setting that
has begun goes on; the peer and the owner may stop doing anything.

### Findings

1. `latch_wakeup`: `count_down` neither changes the counter nor notifies under the mutex
   (latch.cpp:28-30). A waiter tests the counter, the last count and the notification come, the
   waiter goes to sleep for ever. `latch_test.cpp:59` expects `wait` to return in this situation.
   `SleepersAnnounced` shows that this window, between test and sleep, is the only one.
2. `future_wakeup`: the same window in `shared_state` (future.hpp:119-121 against 91-93).
   `future_test.cpp:61` expects `wait` to return.
3. `future_get`: `m_state` is published before `m_data` is stored (future.hpp:119-120). A `get`
   in between throws `std::bad_variant_access`. `future_test.cpp:62` expects the value.
4. `ipc_bind`: the name is left behind by a closed socket; `bind` unlinks another name or none, ignores
   `ENOENT` and fails with `EADDRINUSE` (ipc_address.hpp:60 and 82). `basic_ipc_address.hpp:47`
   promises to "free the address for usage". The view should look into the address itself.
5. `callback`: `callback_receiver::is_canceled` is true unless the receiver has failed
   (callback_receiver.hpp:90). Behind `schedule`, whose task asks it (schedule.hpp:44), nothing runs and
   no handler is called. `callback_receiver_test.cpp:60` expects the complete handler to be called; its
   mock sender does not ask.

Limits of the code that no run is about, because nothing in the repository promises otherwise: after a
datagram from a sender without a name, `remote_address` still names the sender before
(socket.cpp:129-132 drops the length that `recvfrom` stores); a timeout of a second or more is refused
by the system, as all of it goes into `tv_usec` (socket.cpp:138 and 147); a timeout of less than a
microsecond is cut to zero, which means none (basic_socket.hpp:87), so a call after it may wait for
ever, and `BoundedCallsEnd` leaves it out; two servers that bind one name take it from each other, and
a `bind` may take the name of an unrelated socket (`NameTakenByBind` says only that nothing else does).

## 4. Proofs

Checked by TLAPS with SMT, Zenon and LS4, for every value of the constants that satisfies the
named assumption of the module:

* `QueueAssumption`: finitely many threads; `LatchAssumption`: the contract of the latch;
  `FutureAssumption`: distinct tokens; `ChainAssumption`: a chain has a step, and its kinds are nested;
* `PoolAssumption`: finitely many clients and tasks, a task is spawned by at most one other, and an index
  counts to at least twice the number of threads (`unsigned` does);
* `SocketAssumption`: objects by class, tokens that are no descriptors, and paths that are sequences;
* `CallsAssumption`: durations are integers, a buffer holds something.

Every invariant and every action property that a run checks is also a theorem. What a theorem adds is
the number: threads, queues, tasks, chains, objects, descriptors, names of any length. Along which argument:

* `QueueProofs`. The inductive invariant `QueueInv` joins the type invariant, mutual exclusion,
  the state of the predicate where the mutex is held, the accounting of wake-ups and the fact that
  a push holds an item. None is inductive alone: `NoPopOnEmpty` needs that nobody else changes the
  deque while its thread holds the mutex (`DataOfHolder`), and the type of the deque needs
  `NoPopOnEmpty`. The heart is `WakeStep`: while somebody sleeps, the queued items are at most as
  many as the threads in `Serving` (pushes yet to notify, poppers awake). A push adds one to both
  sides, a take removes one from both, a notification exchanges a push for a popper, and a popper
  leaves `Serving` without taking only when the deque is empty. Theorems: `TypeCorrect`,
  `MutualExclusion`, `PopSafe`, `WakeupsKept`, and `QueueRefinesFifo`, the refinement of
  `AbstractQueue`, step by step under the invariant.
* `LatchProofs`. `LatchInv` adds `Accounted` (counter = expected - counted), from which it follows that
  the subtraction never wraps, that zero means all counts were made, and that zero is stable.
  Theorems: `TypeCorrect`, `WaitIsExact`, `SleepersKept`, `OpenForGood` (an action property).
* `FutureProofs`. `FutureInv` ties `m_state`, `m_data`, the elected outcome and the pending writer
  together, and strengthens `PromiseKept` by the destructor that has not yet exchanged the state.
  Theorems: `TypeCorrect`, `OneWriter`, `DataIsElected`, `FuturesAgree`, `NeverSilent`,
  `OutcomeIsFinal`. `SleeperIsAnnounced` assumes one future, as the run does: then a notification
  empties the condition variable, and whoever falls asleep after the election is `late`. With a second
  future it is false: `notify_one` may wake the other one.
* `ThreadPoolProofs`. `ExactlyOnce` counts copies of a task, which says nothing of where they are;
  `PoolInv` says it: a task is at most once with the callers, in the queues, with the workers
  (`NoTwins`), in one of these places only (`Apart`), and in one of them, executed or dropped once it was
  submitted (`Accounted`). The count is recovered from them with cardinalities of singletons.
  `IndicesTaken` (`m_pop_index` is the number of workers that have taken an index) makes homes distinct;
  `LifeCycle` follows the constructor and `join`. Theorems: `TypeCorrect`, `TaskExactlyOnce`,
  `EveryQueueAttended`, `NothingIsLeft`, and `SpawnNeverRefused`: the guard that gives each task away
  once, a bound of the model, never keeps a running task from calling `schedule`.
* `SenderChainProofs`. `ChainInv` adds to the four properties who holds the receiver (`Holding`), what
  the task has run (`Progress`), that no handler is entered before the outcome is elected (`Decided`) and
  that an early cancellation is the outcome (`EarlyIsCanceled`). `NoOrphan` needs `Decided`: the frame can be
  the last holder of an open promise only when the task was thrown away, and then it breaks the promise.
  Theorems: `TypeCorrect`, `CanceledEarlyStops`, `ToldWhatHappened`, `NeverOrphaned`, `OneHandler`.
* `IpcSocketProofs`. `OwnedOnce` is not inductive: a connection that waits for `accept` is a socket
  without a descriptor, and closing a listener closes those too. `IpcInv` therefore says that every
  open descriptor has one owner (`Owners`), that no two descriptors lead to one socket and none to a
  closed one (`Table`), that what waits for `accept` is open, has no descriptor and waits in one place
  (`Queued`), and that a handler's temporary exists while it runs (`Handlers`). For `destroy` it follows
  that close never fails, so the program is never terminated (`TypeOK`). The lemmas on addresses
  (`ViewEnds`, `NameSurvives`, `PathNames`) show that a name the system took from an address survives the
  constructor of another and what `recvfrom` writes over any other. Theorems: `TypeCorrect`,
  `DescriptorOwnedOnce`, and the action properties `SocketNeverSwapped`, `NameGoesToBind` (whichever
  name `unlink` reads, it takes one at most: `UnlinkTypes`), `SenderIsKnown`.
* `SocketCallsProofs`. `CallsInv` says that the system has the durations that were asked for, cut to
  microseconds (`Settled`), which are not zero from a microsecond up (`MicrosKept`), with the exception of the send timeout between the two system calls of `set_timeout`, and says what `shutdown`
  and the peer have ended (`Ending`). Theorems: `TypeCorrect`, `PromiseIsKept`, and `AlwaysAWayOut`, the
  safety part of the two liveness properties: a call that must end can end in every state.

Only model-checked: the liveness properties (`PoppersServed`, `OthersReturn`, `SleepersReleased`,
`SleeperReleased`, `TasksServed`, `JoinReturns`, `FutureReady`, `BoundedCallsEnd`, `CallsReleased`), as
fairness is out of the prover's reach. `GetAfterReady` is a part of the proved `FutureInv` and has no
run of its own. TLC has checked each inductive invariant on the instance of its run before it was proved.

## 5. Not modelled, and the plan

Not modelled: compile-time type traits (no state), the contract helpers nothing calls, formatting
operators of the enumerations, `get_send_buffer_size` (a query), `connection` (an empty class),
`exe_service` (a placeholder), build files, scripts, benchmarks; relaxed-memory effects; lifetime of
references captured by the scheduler's adapter; non-blocking `accept` and `connect`.

Order of work:

1. (done) queue with its abstract specification and proofs; latch and future with proofs; the pool
   composed of queues; the sender chain composed of promise and pool, with both receivers; handles,
   addresses and blocking sockets; mode, timeouts and shutdown of a connected socket.
2. (done) proofs of every invariant and action property that a run checks.
3. Theorems that no run states yet: `HandlerCalled` of chains whose sender does not ask `is_canceled`,
   what a call to the queue takes from another in progress, and an abstract specification of
   promise and future, which `SenderChain` uses in one step.
