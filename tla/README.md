# Verification of iocpframework

TLA+ modules, TLC runs and TLAPS proofs about iocpframework: a C++ library around
Windows I/O completion ports. All paths are relative to the repository;
`PROJECT.json` maps every definition to the lines it models.

## 1. Inventory

| Component | Source (`include/`) | State | Operations | What makes it correct |
|---|---|---|---|---|
| I/O dispatcher | `async_io/service/dispatcher.{hpp,cpp}`, `iocp.hpp`, `async_result.hpp`, `call_stack.hpp` | completion port, worker threads, heap-allocated callback objects | `post`, `bind`, worker loop, `stop`, destructor | a callback object has one owner, is called and freed once, is not lost, and nothing runs after `stop()` |
| Thread pool | `multi_thread/thread_pool/**` | task queue, workers, `active_num_` | `call`, `clear`, `resize`, `shutdown`, worker loop; fifo, lifo and prio schedulers | each task runs once, no lost wakeup, shutdown drains |
| Synchronisation primitives | `multi_thread/lock.hpp`, `condition.hpp`, `auto_lock.hpp` | mutexes, semaphores, events, `waitCount_` | `lock`, `wait`, `signal`, `broadcast`, `reset` | no waiter is forgotten, a lock that is released can be taken |
| Thread objects | `multi_thread/thread.hpp`, `thread.cpp` | thread handle, stop flag, suspend flag | `start`, `suspend`, `stop`, `release`, `attach`, `detach` | a running thread has an owner or was given up on purpose |
| Windows thread pool wrappers | `multi_thread/system_thread_pool.hpp` | timer and wait handles, one callback object | `call`, `cancel`, destructor | nothing calls a destroyed object |
| Timer service | `async_io/timer/**` | map of timers, update event, service thread with a private copy of handles | `add_timer`, `async_wait`, `erase_timer`, service loop, destructor | no timer forgotten, no tick dropped without reason, erase is (almost) final |
| Server and sessions | `async_io/network.{hpp,cpp}` | socket pool, accept thread, sessions held alive by `shared_ptr` | `start`, accept handler, `disconnect`, `stop`, `async_read/write` | one owner per pooled socket, session outlives its operations |
| Client | `async_io/network.{hpp,cpp}` | one socket, used by the application and by every worker without a lock | `start`, `stop`, `disconnect`, sends and receives | no socket forgotten, no disconnect silent |
| Sockets and files | `async_io/network/*.hpp`, `socket.cpp`, `async_io/file/file.*`, `basic_file.hpp` | handle value, callbacks in flight | open, close, copy, cancel; asynchronous calls that end at once or later | a callback is called and deleted once on each path, a handle names what its object opened |
| Composed read and write | `async_io/service/read.hpp`, `write.hpp`, `condition.hpp` | bytes transferred so far, buffer, offset in a file, handler | loops over `*_some` until a condition holds | handler called once, byte counts add up, each byte in its place |
| Directory monitor | `async_io/file/file_monitor*`, `file/detail/**` | directory handle, requests with their buffers | `monitor`, hook, `close` | a change is reported once, or there is a reason |
| Memory pools | `memory_pool/**` | free lists, chunk | allocate, deallocate, refill | blocks do not overlap, no block is lost |
| Containers | `extend_stl/container/**` | queues, maps and sorted vectors, some behind a lock | put, get, insert, erase, find-and-apply | compound operations are atomic, nobody sleeps beside work, the sorted vector is a map |
| Serialisation | `serialize/**` | cursors into a byte buffer or file | `<<`, `>>` | round trip, cursor never leaves the buffer |
| Utilities | `utility/**` | object pool, circular buffer, singletons | alloc/free, read/write | indices wrap correctly |
| Exceptions, strings, Unicode, Win32 helpers | `exception/**`, `unicode/**`, `win32/**` | none | formatting, conversion | stateless |

### How the components interact

* Everything asynchronous (sockets, files, timers, `io_dispatcher_t::post`) makes a
  callback object with `make_async_callback`, releases it from its `unique_ptr` when
  the kernel has accepted the operation, and gets it back as an `OVERLAPPED*` in a
  worker of the dispatcher. `async_callback_base_t::call` takes ownership again and
  frees the object after its handler.
* A handle is bound to the port when it is opened. Sockets also ask for no completion
  packet when a call succeeds at once; the asynchronous calls of sockets and files differ
  in whether they then call the callback themselves.
* Composed transfers, the server's sessions, the client and the directory monitor all
  sit on those asynchronous calls.
* The timer service posts handlers from its own thread into the dispatcher.
* The server pops pre-created sockets from a pool in one accept thread; a session
  gives its socket back in its destructor, in whichever worker drops the last
  `shared_ptr`.
* The thread pool is independent of the dispatcher; its scheduler waits on
  `condition_t<semaphore>` of `lock.hpp`.
* The wrappers of the Windows thread pool, the containers, memory pools and streams
  stand alone and share no state with the rest.

### Hard behaviours

Concurrency: a packet can be consumed before the issuing thread reaches `release()`;
`condition_t::signal()` runs outside the mutex and in three steps; the timer thread
works on a stale copy of the handles, and on handle values the system reuses; every
worker of a client may be in `disconnect()`; two batches of one directory are handled
side by side. Failure: `PostQueuedCompletionStatus` fails after the object exists; a
handler throws in the middle of a batch; `open()` throws after `bind`; one write of
several does not fit a stream. Ordering: the stop APC arrives anywhere in a loop; empty
tasks of `shutdown()` interleave with other pushes; a late completion of an earlier
connection meets the next one. Limits: `MAXIMUM_WAIT_OBJECTS`, a full queue, the
system's change buffer, a `size_t` counter that is decremented first. `PROJECT.json`
lists each hazard at its line with the properties that would catch it.

## 2. Modules

```
CallbackDelivery  (promise of post())          KeyedMap  (promise of a map)
   ^ implemented by                               ^ implemented by
IoDispatcher  <- MCIoDispatcher                AssocVector
TaskPool      <- MCTaskPool
TimerService  <- MCTimerService
SessionServer <- MCSessionServer
ComposedTransfer, FileTransfer, Client, FileMonitor, ThreadObject     <- MCAsyncIo
Conditions, SystemPool, OverlappedIo                                  <- MCPrimitives
MemoryPool, Serialize, AssocVector, SyncContainers, BlockingQueues    <- MCLibrary

IoDispatcherProofs, TaskPoolProofs, TimerServiceProofs, SessionServerProofs
AsyncIoProofs     (ComposedTransfer, OverlappedIo, Client, FileMonitor)
PrimitivesProofs  (Conditions, ThreadObject, SystemPool)
LibraryProofs     (the components of MCLibrary but Serialize)      SerializeProofs
```

The proof modules extend the components' modules, not the MC modules. `MCAsyncIo`,
`MCPrimitives` and `MCLibrary` check several components that share no state: the
variable `focus`, chosen initially, says which one a behaviour is about, and the others
stay as they were constructed (a transfer the behaviour is not about could not be started, so
that it is over). Each component's behaviours are exactly those of its own
specification; the runs only spare one start of TLC per component. They extend the
components' modules, so that TLC evaluates the assumptions the proofs use.

### IoDispatcher and CallbackDelivery

`poster[c]` is the position in `post()` of the call that made callback `c`
(`made` = object exists and `async` owns it, `posted` = packet in the port, `async`
still set, `released` = `async.release()` done). `port` is the packet queue, `batch[t]`
what is left of `entrys[0 .. ret_number)` of worker `t`, `pc[t]` its place in
`_thread_io()`, `apc[t]` the queued user APC; `stopPc`/`stopAt` walk the two
`for_each` loops of `stop()`. `CallBegin` and `CallEnd`/`CallThrow` split one call so
that other threads run while a handler is inside. `CallThrow` reproduces the position
of the catch clauses outside the loop over the entries: the rest of the batch is lost,
and recorded in `lost`.

`CallbackDelivery` is what a caller may rely on: a callback is new, then accepted or
refused; an accepted one is called or lost, once; after `stopped` nothing is called.
The refinement mapping (`StatusOf`) reads `invokes` and `lost` before the poster's own
position, because a worker may have called the object while `post()` is still in
`release()`.

### TaskPool

`static_fifo_pool` (fifo scheduler, fixed size). `queue`, `mutex`, and the two halves of
`condition_t`: `waitCount` and `sem`. A `push()` is four steps, `PushBack` (under the
mutex), `SignalCheck`, `SignalRelease`, `SignalDecrement` (all outside it). A worker's
`pop()` is `PopLock`, then `PopTake`, or `PopWait`, `PopSleep`, `PopWake` and again
`PopLock`. A critical section in which nothing but one assignment happens is one step
guarded by a free mutex; the mutex is explicit only where a worker holds it across
steps. `shutdown()` pushes `NumWorkers` empty tasks through the same `push()` and then
destroys the workers one after the other. `active_num_` wraps modulo `Word`.

### TimerService

`registered`/`handleOf` are the map, keyed by the handle value; `handles` is the private copy
of the service thread and `watched` the kernel objects it waits on (a wait holds the objects,
not the handle values). `Index` is the position of an id in the handle array: the array is
filled from a `std::map`, so it is ascending. `CheckSize` is the comparison with
`timers_.size()` made without the lock. Timers fire nondeterministically up to `MaxTicks`
times; `restarted` counts the ticks that setting a timer again wiped out, so that `TickPosted`
can ask for an answer to every tick and not only to the first. `Fits` says that the timers and
the update event are no more than one wait takes, which `add_timer` does not ensure
(timer_service.hpp:217 compares with `>`, before it inserts and without counting the event):
when they are more every wait fails at once and delivers no APC, no tick is posted and the
destructor waits for ever unless timers are erased meanwhile. The liveness properties name
that case as the way out, and run `timer_limit` reaches it. `timer_service_t::set_timer` is a
template that no code instantiates and that would not compile; it is left out.

### SessionServer

The server, its sessions and the socket pool, over any number of connections that reuse
the same socket objects. `net[s]` is what the kernel knows of a socket (`none` = not
created, `idle`, `accepting`, `connected`, `leaving` = DisconnectEx pending, `closed`);
`parted` the sessions whose DisconnectEx is pending or succeeded. It may also complete with
an error (`DisconnectFailed`), for example because `shutdown()` cancelled it: the lambda of
`disconnect()` ignores the error code (network.cpp:197), and the socket goes to the pool
connected, which `ReuseReady` names as an exception. `mute` are the workers in that lambda.
`pool` is the list in `socket_pool_`; `accPc`, `accSck`, `accI` are the accept thread, with
`raw_aciquire()` split at its three critical sections (`PoolNotEmpty`, `PoolTop`,
`PoolPop`). `pend[x][k]` counts the operations of session `x` that are pending. `HeldBy`
is the reference count of a `session_ptr` seen as a predicate: a running handler
(`ctx[t]`), a closure, the application, or a closure nobody will call. `Drop` is the
destruction of one `session_ptr` and, if it was the last, `~session`, which pushes the
socket. A kind of its own, `send`, is the variadic `async_write`: its closure holds no
`session_ptr`. `due` are the workers whose handler has yet to call `disconnect()`
(`_handle_read`, `_run_impl`). An operation that completes at once calls its handler inside
the call that started it, which for a read or write is the handler already running; for
accept and disconnect the code releases the callback, and as the socket is bound with
`FILE_SKIP_COMPLETION_PORT_ON_SUCCESS` nothing ever calls it: `AcceptAtOnce` strands the
socket, `DisconnectAtOnce` leaks the session.

### Client

`sock` is `socket_`, numbered by the sockets opened; `where[t]` is where the application
or a worker stands in `start()`, `stop()` or `disconnect()`, each split at its reads and
writes of `socket_`, because nothing is locked. `started` is what the application can
know: `start()` did not return false, and neither was `stop()` called nor
`disconnect_handle_` since. `start()` builds an error from `GetLastError()` after a connect
that succeeded (network.cpp:297), so `OnConnect` may disconnect; it returns true all the
same. A completion of an earlier connection disconnects whichever socket is there when
its worker runs. `overlapped` records a `start()` during a `stop()`; the properties say
nothing afterwards, since the two then write `socket_` over each other. The variadic
`async_send` calls `make_param`, which does not exist.

### OverlappedIo

`handle[x]` is the value in a socket or file object, `table` the kernel object a value
names, which the system gives out again after a close; `mode` says what binding did to a
kernel object. Copies and assignments of socket objects share a value, and both close it.
`close()` is two statements that no lock joins (socket.cpp:79-80, file.cpp:82-83): `Close`
or `Destroy` gives the value back to the system, `Forget` makes the member invalid. Between
the two (`closing` counts the threads there) the object names whatever gets the value next;
`crossed` is history: another `close()` or an `open()` of the object fell into that gap.
An asynchronous call is `Issued` (the callback exists and the call was made) and then
`Throw`, `InvokeInPlace` or `Release`; `IssueInline`, `IssuePosted` and `IssueFile` are
the three shapes the code has: calls that invoke the callback when they succeed at once,
calls that always release it, and file calls on a handle without skip-on-success. A worker may
call and delete the object between `Issued` and `Release`. `copied`, `dropped` and
`halfOpen` are history: an object was copied; a kernel object's last handle was
overwritten; `open()` threw after it had made one. `async_connect`, `async_disconnect` and
`get_option` of the stream socket do not compile when instantiated; the calls of
`socket_handle_t` below them do. The sources under `async_io/file` include headers from a
directory `iocp` that is not in the repository; the model takes the headers of `service`,
which have the same names and classes, in their place.

### FileMonitor

`kept` are the changes the system holds for the handle, `overflowed` that it ran out of room,
`req[r]` where each request stands, `batch[r]` the changes it brought. The hook first asks for
the next request, with a new callback object and buffer, and then reports its own changes one
by one, so the callbacks of two requests run side by side. An overflow completes a request
with no bytes; the hook then asks for nothing and monitoring has silently ended (`ended`). A
handler of the user that throws leaves the loop (`ReportThrows`): the rest of its batch is
neither reported nor read again (`skipped`), while the next request goes on waiting, and the
callback, which is deleted only after the hook has returned, leaks, as it does when asking
again throws (`HookThrows`). The walk over the records of a buffer is a sequence of changes.
The re-armed request ignores `sub_dir`, and the hook refers to a monitor that may be gone by
then; neither is visible in the model.

### ComposedTransfer

One call of `async_read` or `async_write` with a condition, or of the blocking `read` or
`write`, on a stream socket. `pc` is where the call stands; `piece` is the part of the
buffer the kernel was given, with `transfers_` as its callback carries it; `frames` is the
stack of `operator()` calls that nest when pieces complete at once, each inside the `try`
block of the one before; `wire` lists the buffer index of every byte of the stream, so
that order can be stated. `least` is what the condition returns (`transfer_all` = more than
any buffer). `hollow` is the state after `operator()` has called a handler it has already
moved away, which has no defined outcome. A read may transfer 0 bytes (end of the stream),
a send of a non-empty piece transfers at least one.

### FileTransfer

The loops and handlers that take an offset, for several threads that share one file object.
`moved` lists for each byte of a buffer its place in the file. A blocking call is two system
calls, `Seek` (SetFilePointerEx) and `ReadWrite` (file.cpp:118 and 135); `crossed` is history:
another call moved the pointer in between. A file at its end transfers nothing, which closes
it for every thread. The asynchronous calls carry their offset with them; they need a handle
opened for overlapped access, on which the blocking calls fail, so `forOverlapped` decides which
kind a behaviour has. Every piece is at the offset of the whole transfer, as in the code
(read.hpp:67, 200, write.hpp:66, 197): a file shorter than the buffer is read over and over
until the buffer is full. `InItsPart` says what holds nevertheless. `pieces` counts the calls of
a transfer, up to 2. `read_offset_handler_t` assigns to a `const` reference in its catch
clause (read.hpp:207), which does not compile when instantiated; it is modelled as it is meant
(`write_offset_handler_t` casts the `const` away).

### Conditions

`class` is the implementation under `condition_t` (semaphore, `multiple_event_t`,
`ms_condition`), `lock` the lock the threads use. Every Win32 or interlocked call is a step,
in `wait()` too: a thread is counted (`Wait`) before it unlocks (`WaitUnlock`), and a signal
may fall in between. Callers signal, broadcast and reset with or without the lock, and waits
may time out. `multiple_event_t::wait` signals the very event it then waits for, and returns
at once. `event_t` (lock.hpp 336-442) is not modelled.

### ThreadObject

One thread object, its owner, and the system threads its `start()` calls make. `threadKind`
distinguishes the plain, extended and message threads, `handle`, `suspended` and `stopped` are
its members, `abandoned` the threads given up by `release()`, `detach()`, a destructor without
`auto_cleanup_` or a timed-out `stop()`, and those whose handle a second `start()` or an
`attach()` stored over, which only an assertion of the debug build forbids (:51). As in the
code, `stop(time)` terminates the thread only when the wait *succeeded* (thread.hpp:462),
`release()` leaves `suspended_` as it is (:81), `attach()` does not set `thread_id_`, and
`_endthreadex` never returns, so that `auto_delete_` deletes nothing. A message thread's
`stop()` waits for ever unless somebody posts WM_QUIT (:586), which `StopReturns` has as a
premise. `stop_APC`, priorities and affinity are left out.

### SystemPool

`armed[r]` is what the system holds of a registration, `queued` and `running` count the
callbacks under way, `overwritten` are the registrations whose handle a second `call()`
stored over (`newTimer_`, :288). A `DeleteTimerQueueTimer` without waiting reports failure
while callbacks are outstanding, so `cancel()` keeps the handle and the destructor deletes
again (:308); `cancel()` of a wait never clears the handle, and may be called again (:455).
`~wait_object_pool` unregisters nothing (:427) and a work item keeps a bare pointer (:194).
`late` records a registration that falls due after the destruction or after its `cancel()`
(`cancelled`), `pending` how many callbacks were queued or running when the object went,
which no destructor waits for, `again` a registration deleted twice. `LateNeedsHandleLost`
says what of this can happen: nothing that was cancelled falls due again; after the
destruction only an uncancelled wait or a timer whose handle was stored over does; and the
callbacks on the deleted object are otherwise no more than those in `pending`.

### Serialize

Types are records and may be nested. `push` and `pop` call themselves for the parts of a
value; `calls` is the stack of the calls an operator has yet to make, and a step (`PushOne`,
`PopOne`) makes the one on top: it writes or reads at most once, checked against the end of
the buffer (`Fits`), and leaves the calls for the parts (`Parts`, `PopParts`). What `pop` does
next depends on the type and on the length it has read, never on the value pushed. A push
that throws leaves the writes before it in the buffer (`broken` is the first such value); the
caller may go on pushing, and may pop the torn value and what is behind it (`torn`). Bytes
that are no length are read as one of `Garbage`. A byte carries the value it is part of, so that
what is popped can be told from what was pushed. The histories `log` and `got` hold the calls
of push and of pop in order; `at` is the place of a part in its value, which stands for
putting it there (`emplace_back`, `insert`, `std::get<I>`).

`char[N]` announces `N` and writes `strlen`, so `RoundTrip` speaks of what is read before the
first of them; containers are read with `size_type` where a `uint32` was written, equal in
the 32-bit build that is modelled (`SizeT = LenSize` in `StreamAssumption`); `text_in_t`
checks `sizeof(T)` and writes digits. The text stream's overload for `char`, wide streams, the
empty streams and text input are left out; the `assert` before each `throw` is that of a
release build.

Lengths, positions and the sums of the checks are `uint32_t`, modulo `Word`. A length that was
not written as one (after a `char[N]`, or in a torn value) may be so near 2^32 that
`len + out_pos_` wraps and passes the check. `string` and `vector` of plain values resize to
the length first, which fails for such a length (`ResizeThrows`); the characters of `char[N]` and
`char *` are read at once, and `memmove` leaves the buffer (`PopWild`). `StaysInside` says that
this is the only way to leave it. Assumed: buffer and value share the 32-bit address space, an
allocation that has room there succeeds, a file is kept below 4 GB (`Addressable`). Whether the
characters fit the destination of a `char[N]` or `char *` is checked by nobody and not part
of the model. The unordered containers are not among the types: they count as containers, have
no `container_traits_t` of their own, and the primary template calls itself for ever
(container_dispatch.hpp:113-117).

### AssocVector and KeyedMap

`assoc_vector_t` as a sorted sequence of pairs with the comparison of its object (one
ascending, one descending in the run, so that a swap has to move the comparison too). Every
insert, erase, lookup, range call and swap is one action; `ret` is what it returned.
`KeyedMap` is what `std::map` promises; `ImplementsMap` is the refinement.

### SyncContainers and BlockingQueues

In `SyncContainers` a call that runs no caller's code is one step; `for_each`, `op_if` and
`not_if_op` are split where they call the operation, which may call the container again
because the mutex is recursive. Elements are numbers never used again, so that a stale
reference can be told from its successor. Move construction and assignment
(sync_container.hpp 275-287) take no lock and are left out. `op_if` and `erase(op)` of the
sequence call a `find_if` that the class does not have (sync_container.hpp:162, 186, 205) and
do not compile when instantiated; they are modelled as they are meant, a search with the
predicate under the lock. `op2` of the three-argument `op_if`, called without an element, is
left out. The map and the sequence have a mutex each (:60, :268) and no state in common; one
variable stands for both. In `BlockingQueues` a call is
one step up to its wait or its end, the notification after the unlock is another. A `put`
with a time limit starts over when the time is up. The waits of the bounded queue pass the
`std::mutex` to a `std::condition_variable`, and `INFINITE` as a duration
(bounded_block_queue.hpp:46, 51, 67), which does not compile when instantiated; they are
modelled as a wait with the lock that is held.

### MemoryPool

`sgi_memory_pool_t` and `fixed_memory_pool_t`; `kind` says which. Memory is a range of
addresses, `lists` are the free lists in order, `live` the blocks the callers have with the
size they asked for, `start`/`end` the rest of the current chunk. `allocate` is one of
`AllocateFromList`, `AllocateFromChunk` (the two branches of `chunk_alloc` with room),
`AllocateFromSystem` and `AllocateFails`, each a single step because the mutex is held
throughout; the recursion of `chunk_alloc` after a new chunk always takes its first branch.
Moving `reallocate` is an `allocate` and a `deallocate` under separate locks, which the
model has as separate steps; the copy of the contents is left out.

## 3. Runs

| Run | Checks | Instance | Why it is enough |
|---|---|---|---|
| `dispatcher` | `Ownership`, `ImplementsDelivery`, `Delivered`, `StopReturns` | 3 callbacks, one may throw, 2 workers, batches of 2 | an entry can stand behind the throwing one in a batch while another packet waits in the port; two workers race for packets and for the stop |
| `pool` | `NoStrandedTask`, `ShutdownDrains`, `TaskExecuted`, `ShutdownReturns` | 1 task and the stopping thread, 3 workers, `Word` = 8 | two `signal()` calls overlap, so `waitCount_` gets negative, with workers at every step of `wait()`; the task is pushed before, between or after the empty tasks |
| `timer` | `NoTimerForgotten`, `PostsJustified`, `TickPosted`, `DestructorReturns` | 2 timers, one periodic, 2 handle values, limit 3, 2 ticks | a handle value is reused while its old owner's tick is being processed; a periodic timer fires again meanwhile |
| `timer_limit` | `WaitsWhenFits`, `DestructorReturns` | 3 timers, limit 1 | the wait fails, `add_timer` refuses, erasing makes the wait possible again, and the destructor is called before and after that |
| `server_safety` | `OneOwner`, `PopStable`, `ReuseReady` | 3 sockets, 2 connections, 2 accepts per event, 2 workers, 1 pending operation of each kind (sockets and workers symmetric) | a socket is pooled and accepted again; two workers end handlers of one session while the accept thread is inside `pop()` |
| `server_live` | `SocketReturned`, `StopReturns` | 1 socket, 2 connections, 2 workers | the second connection reuses the socket of the first |
| `async_io` | transfer: `InPlace`, `Outcome`, `Ends` | buffers of 0 to 5 bytes, pieces of at most 2, every condition | up to five pieces in every mixture of pending, immediate, failed and empty |
| | files: `InItsPart`, `TransfersEnd` | 2 threads, offsets 0 and 1, buffers of 1 and 2 bytes, a file of 0 to 2 bytes, every condition | the calls of two transfers interleave with each other, reach the end of the file and close it under each other |
| | monitor: `Watches` | 4 changes, 4 requests, a system buffer of 2 | two batches overlap and the buffer overflows |
| | client: `KeptOrClosed`, `ToldOrOpen` | the application and 2 workers, 2 operations, 2 sockets opened, 3 transfers started | both workers disconnect while the application stops or restarts; a completion of the first connection meets the second |
| | thread: `NoOrphan`, `StopReturns` | 2 starts, 1 message | a thread is started again after each way of ending or giving up the first |
| `primitives` | condition: `NoDeafWaiter` | 3 threads, 3 classes of condition, 5 locks, 2 events, 3 calls | two waiters and a signaller, one waiter timing out |
| | system: `LateNeedsHandleLost` | 2 registrations that fall due twice | a handle is stored over, a callback is outstanding when its timer is deleted |
| | handles: `NoUseAfterDelete`, `LostNeedsAtOnce`, `HandlesSound` | 2 sockets, 1 file, 2 handle values, 1 operation, 2 kernel objects, up to 2 threads in `close()` of one object (sockets and values symmetric) | a value is freed and given to another object while an operation on its old kernel object, a copy of the old value or a thread half way through `close()` is around |
| `library` | pools: `MemoryDivided` | alignment 2, three lists, 2 blocks per refill, 3 blocks in use, 56 bytes | a remainder is filed in a smaller list, a chunk has an odd share of `heap_size_ >> 4` to round, the system refuses at any time |
| | streams: `RoundTrip`, `StaysInside` | buffers of 6, 13 and 40 bytes, up to 3 values of 13 types, nested ones included; `Word` = 64, lengths from garbage 1 and 63 | each value meets the end of the buffer in each of its writes; a torn value is popped, and a length wraps the sum of its check |
| | sorted vector: `ImplementsMap` | 3 keys, 2 values, 2 objects of opposite order, 3 pairs | insertion before, between, after and at an existing key, with right and wrong hints, and swaps |
| | synchronised containers: `ElementStays` | 2 threads, 2 keys, 3 elements | an element is removed and inserted again while an operation has it |
| | queues: `NoIdleWaiter` | 4 threads, limits 1, 2 and none, 4 puts | two sleepers and two notifiers |
| `transfer_failure` | violates `FailureReported` | as the transfer of `async_io` | finding 1 |
| `rw_unlock` | violates `Released` | 2 threads, the exclusive lock | finding 2 |
| `not_if_op` | violates `StillAbsent` | 2 threads, 2 keys | finding 3 |

Deadlock checking is off: every instance has finitely many calls, and a system that was
stopped, or that nobody calls any more, rests. That a call under way ends is stated by the
liveness properties instead. Type correctness is proved (section 4) where a module has
proofs.

Each passing property has a mutant in `PROJECT.json`: an operator beside the definition
it alters (marked "Mutant" in the modules) that changes it as a plausible error in the
code would, and breaks the property under the same configuration.

### Findings

1. `service/read.hpp:145` and `service/write.hpp:145`: `operator()` moves its handler into
   the next piece before it starts it. If that throws, the catch clause prepares the error
   code and falls through to the call of the handler, which is now the moved-from object:
   the user's handler, destroyed with the callback, is never told.
2. `multi_thread/lock.hpp:271`: `w_unlock()` calls `ReleaseSRWLockShared` on a lock that
   `w_lock()` acquired exclusively. Nobody holds the lock afterwards, and nobody may be able
   to take it.
3. `extend_stl/container/sync_container.hpp:386`: `not_if_op()`, documented to run `op` if
   the key is not in the container, unlocks before it runs `op`; another thread can insert
   the key in between.

Also met while modelling, without a run of their own: `active_num_` is decremented before a
task and incremented after it, so `active_size()` is the negative of what its comment says
modulo 2^w (`thread_pool/detail/impl.hpp:145`); `add_timer` compares with `>` and before it
inserts, so the map can exceed the limit its exception states and every wait then fails until
timers are erased (`timer/impl/timer_service.hpp:217`, the case of run `timer_limit`), and the
destructor waits for ever; the loops and handlers that transfer a file from an offset on start
every piece at that offset (`service/read.hpp:67`); a socket whose DisconnectEx failed is
pooled connected (`network.cpp:197`); a garbage length near 2^32 passes the check of `pop`
(`serialize_out.hpp:109`); `async_recv_from` passes the size of a pointer and the address of a
parameter on the stack.

### Fairness

* Dispatcher: weak fairness of each worker (threads are scheduled, handlers return or
  throw) and of `stop()` once it has been entered. No caller is obliged to post or stop.
* Pool: weak fairness of each worker and of a `push()` that has begun; strong fairness
  of `PopLock` and of the stopping thread's `PushBack`. A critical section is held for a
  few instructions only and every holder leaves it, so a thread that keeps trying gets
  in; this is the usual reading of a Win32 critical section, which is not strictly fair.
* Timer: weak fairness of the service thread, of `join`, and of `set_event` in a call
  that is under way. Timers need not fire.
* Server: weak fairness of the accept thread inside its loop, of a `disconnect()` a handler
  owes and of the steps of `stop()`; strong fairness of the end of a handler (it may be
  blocked for a while by a `disconnect()` it owes), of the completion of an operation that
  keeps its session (it needs an idle worker; the kernel completes every accepted
  operation), and of the alertable waits of workers and accept thread that must see a
  pending APC although packets or connections keep coming. Nobody has to connect, to stop
  the server or to drop a session.
* Transfer: weak fairness of the whole next-state relation: the thread runs and the kernel
  completes what it has accepted. The stream need not deliver anything: each read may
  return 0 bytes or fail.
* File transfer: weak fairness of each caller, its pending piece included. The file need not
  have a byte to read.
* Thread object: weak fairness of the steps of a thread that runs (a handler polls
  `is_aborted()`, as the sample loop does) and of the owner's `start()` and `stop()` once
  entered. Nobody has to send WM_QUIT.
* The other components have no liveness property and no fairness.

### What the models assume of Windows and of callers

* With an APC and a packet (or a signalled object) both ready, an alertable wait may do
  either. A thread's constructor returns only when the thread runs, so an APC queued
  later is not consumed at thread start.
* `stop()` of the dispatcher is not called from a worker (it would join itself) and nobody
  is inside `post()` when the dispatcher is destroyed; `clear()` is not called during
  `shutdown()`.
* The server's application acts on a session from the handlers it is given and may keep
  copies of `session_ptr`, which it drops before the server is destroyed. A new socket can
  be created (`raw_aciquire()` is outside the `try`, a failure ends the process); an accept
  event arrives only while the instance has sockets left for a full turn of the loop. A
  failed AcceptEx leaves the socket unconnected. `stop()` is called once.
* Closing a handle ends the operations pending on its kernel object with a completion, and
  a closed handle value may be given out again at once. In `TimerService` handle values
  are reused only by timers of the service. A socket or file object is destroyed when no
  thread is in a call of it.
* One thread at a time calls the methods of a thread object.
* The directory is opened and monitored once per monitor object.
* A piece of a file transfer moves at least one byte, unless a read is at the end of the file.
* A send of a non-empty buffer transfers at least one byte. Requests to the memory pools
  are between 1 and the limit ("n必须大于0"), and the limit is a multiple of the
  alignment, as in every instance of `sgi_memory_pool_t`; a block is given back with its size;
  `buffers_.push_back` does not throw.
* Tasks of the pool do not throw.

## 4. Proofs

All theorems hold for every value of the constants that satisfies the named
assumptions of each module.

**IoDispatcherProofs** (assumes `DispatcherAssumption`). `Invariance` proves the inductive
invariant `IndInv`. One owner per callback is not inductive: that a packet is freed once
follows from there being one packet, so `PortOnce` and `BatchOnce` say an entry occurs once
in the port or one batch, `BatchOffPort` that it is never in both, `PortPending`,
`BatchPending` and `NotPending` tie these places to `invokes`, `frees` and the poster's
position, `LoopInv` ties a worker's position to its batch, and `StopInv` says which threads
are known to have exited at each position of `stop()`. From it follow `OwnershipKept`,
`StopIsFinal` and `Refinement` (every step is a step of `CallbackDelivery` or a stutter).
`ExceptionsCostBounded` needs `LossInv`, which counts what the batches hold and what they
lost (a batch is at most `Batch` long), with a lemma on the size of a sequence's range.

**TaskPoolProofs** (assumes `PoolAssumption`). `WakeInv` = `WakeAccounting` and
`NoStrandedTask`: these two are inductive together with typing; the proof is counting,
through lemmas on how each step changes the cardinality of `Sleepers`, `Seekers`, `Owing` and
`Releasing`. `DrainInv` supports `ShutdownComplete`: an early task is somewhere
(`TaskSomewhere`), empty tasks are behind every early task in the queue
(`EmptyBehindEarly`), and the stopping thread has seen the threads exit that it has
passed (`Joined`). `TaskRunsOnce` rests on `OnceInv`: a task is in one place of the queue or
in one worker, or is done.

**TimerServiceProofs** (assumes `ServiceAssumption`). The invariant adds to
`NoTimerForgotten` that registered timers have distinct ids (`RegisteredIds`), that a
watched set contains what the copy named when the wait began (`WatchedCopied`), and
that a timer that is gone has at most one post outstanding, counted with the copy in the
service thread's hand (`LateOnce`, `HasCallback`). `PostsAreJustified` uses `GhostInv`: every
post is paid for by a tick of its timer, or by a spare tick of an erased timer whose handle
value it has; the tick in the service thread's hand is counted apart.

**SessionServerProofs** (assumes `ServerAssumption`; the number of threads is arbitrary). One
owner per socket is not inductive: that `~session` pushes a socket nobody else has
follows from `LiveHeld` (a session is alive exactly while somebody holds it), the pairwise
exclusions `PoolExcludes`, `HandExcludes`, `SessionExcludes` and `StrandedOpen`, `OpenOwned`
(no open socket without an owner), and `LiveLast` (of the sessions that had a socket only the
last can be alive), with `BornInv` for the order of sessions. `PartedInv` says that a
disconnected live session has an idle socket or a pending DisconnectEx that keeps it; it
carries `ReuseReady` through `~session`. A disconnect that fails takes its session out of
`parted` (`DisconnectFailedInv`). `Dropped` is the common argument for a handler that
ends and an application that lets go. From `Invariance` follow `SocketOwnedOnce`,
`PoolPopSafe`, `ReuseIsReady` and `StopOrder`.

**AsyncIoProofs**, four components that share no variable.

*The composed transfer* (assumes `TransferAssumption`). That no piece leaves the buffer and
that bytes keep their order is inductive only with `PendingInv` and `TransferHandleInv`: the
count a callback carries is the number of bytes on the wire and the place of its piece, and
the top of the stack of nested calls holds it. `UntoldInv` (nobody was told while the
operation is under way) and the fact that only an empty buffer has an empty piece give
`OutcomeTold`.

*Handles and operations* (assumes `HandlesAssumption`). The properties are about values,
kernel objects and callbacks at once; the invariant `HandlesInv` separates them. A value names
a kernel object that was made, and no two values name the same (`TableMade`, `TableOnce`);
without copies, and without calls that overlapped a `close()`, an open object that no thread
is closing alone has its value and that names what it opened (`SoleNames`, `SoleHandle`); a
value that names a kernel object is held by an object that is not about to forget it, or the
kernel object is lost already (`Held`); the mode of a kernel object follows from how it was
opened (`ModeInv`, `SocketsMade`); one without a value was closed, overwritten or half open
(`LeakNeedsOverwrite`). `OpInv` says for each stage of an operation what its kernel object
will post and how often its callback was called and deleted (`OpKern`, `OpFresh`, `OpEnded`,
`OpDone`), and `PortOps` that the port holds operations only. The proof showed that a
constructor that throws after `bind` belongs to `halfOpen` too.

*The client* (assumes `ClientAssumption`). While no `start()` overlaps a `stop()`,
`ClientInv` says that every socket but the one in `socket_` is closed (`OnlyKept`), that a thread
about to store `INVALID_SOCKET` finds closed what `socket_` names (`StoresClosed`), that no
`stop()` is under way while the application believes the client started (`NobodyStops`), and
that then the socket is connected, or `start()` has yet to connect it, or a `disconnect()` is
on its way that will tell (`WillTell`). `SocketKeptOrClosed` and `DisconnectIsTold` follow.

*The directory monitor* (assumes `MonitorAssumption`). `Watches` counts where each change is.
The count is kept by a step only if no change is twice in the system's buffer, in one
request or in two of the requests on their way (`BatchesApart`), and requests are made in
order, empty until they are answered (`RequestsInOrder`). `Placed` is the count split into
its four cases, so that a step moves a change from one to another; `MissedForCause` says
that a change is missed only behind one whose handler threw (`skipped`), after the end of
monitoring, an overflow or with an empty completion on its way. `MonitorWatches` follows.

**PrimitivesProofs**, three components.

*The conditions* (assume `ConditionAssumption`). `WaitersCounted` is `NoDeafWaiter`. A
semaphore's permits are released before `waitCount_` is reduced, so between the two steps a
permit and a waiter are counted twice; `Promised` is the set of those permits, one pair for
each, and `SemaphoreOK` says that the threads in a wait, counted or asleep, and the promised
permits together are no more than permits, counted waiters and lost waiters. Sums over threads
become the cardinality of that set, which grows and shrinks by a row of pairs (`RowCount`).
`VariableOK` is the same for `CONDITION_VARIABLE` when every call is made under the lock,
which needs `LockHeld` (one holder of an exclusive lock) and `CountRead` (a broadcast under
the lock has read no less than is counted).

*The thread object* (assumes `ThreadAssumption`). `ThreadsOwned` is `NoOrphan`; it needs
`OwnerKnows`: a step of `stop()`, `start()` or the destructor that is under way finds the
handle it began with, and threads not yet started do not run.

*The wrappers of the Windows pool* (assume `SystemAssumption`). `LateOnlyIfHandleLost` is
`LateNeedsHandleLost`; it needs `ArmedKnown` (what is armed is behind the handle or was stored
over), `FiredFirst` (a callback is outstanding only of a registration that fell due) and
`CancelledOff` (what was cancelled is off, and nothing is late while the object exists).

**LibraryProofs**, four components.

*The blocking queues* (assume `QueueAssumption`). `NoWakeupLost` is `NoIdleWaiter`. It is
inductive as a count (`Used`): while somebody sleeps in `get()`, the elements are no more
than the threads awake in `get()` and those about to notify, and likewise for the room and
`put()`. Each step moves one thread between the counted sets (`Moved`, `OneMore`).

*The containers with a lock* (assume `SyncAssumption`). `OperationKeepsElement` is
`ElementStays`, inductive with `Locked`: an operation that was given an element runs with
the mutex, which only its own thread can pass again.

*The memory pools* (assume `PoolAssumption`). `PoolMemoryDivided` is `MemoryDivided`. The
property speaks of sets of bytes; the invariant `PoolInv` speaks of blocks, each an address
and the index of its list: `UsedBlocks` and `FreeBlocks` have none in common, no list has an
address twice, and together they are a `Division` of the memory. A division says that blocks
and the rest of the chunk are pairwise apart, that each lies in one chunk at a multiple of the
alignment (`Multiple`: without it the rest would not be a whole number of units, and could not
be filed in the list of its size), and that a chunk has no other byte, or, once it is not the
current chunk, at most `Gap` consecutive ones (none in the sgi pool, less than a block in the
fixed pool). Three lemmas about divisions carry the proof: the rest is filed or given up
(`RestFiled`), a chunk is added (`ChunkAdded`), blocks are cut from the front of the rest
(`BlocksCut`). Lemmas on the lists (`FreePopped`, `FreePushed`, `FreeFilled`) translate what
the calls do to sequences into what happens to the blocks, and lemmas on `ROUNDUP` and on
multiples (`Rounded`, `MultipleSum`, `BlockOf`) hold the arithmetic.

*The sorted vector* (assumes `VectorAssumption`). `VectorImplementsMap` is the refinement:
every call of `AssocVector` is a call of `KeyedMap` under the mapping `AsMap`, with the
same answer. It needs `VectorsSorted`: each vector is strictly sorted by the comparison its
object has at the time, which a swap or an assignment has to move along. `LowerBoundIs` shows
that the position `lower_bound` is defined to find exists, by the well-foundedness of the
natural numbers, and `FoundIs` what it says about a sorted vector; `PairAdded` and
`PairsRemoved` are the two changes a vector undergoes, and what they do to the map.

**SerializeProofs** (assumes `StreamAssumption`: every value is of its type and its parts are
values too; nothing bounds how deep types are nested, how long values are, or the buffer).
`StreamsStayInside` is `StaysInside`; the length an array announces and the bytes its call
writes are the same number (`WrittenType`), so the check covers the write; for a read it
needs `OnTop` and `Announced`: the array on top of the stack has the length that was read just
before, and if `resize` accepted that, the sum of the check cannot wrap (`NoWrap`).
`ReadBackAsWritten`
is `RoundTrip`. No induction over types is needed, because the proof goes over the calls in
the order of time: the invariant `StreamInv` keeps, for every call of push, the bytes where it
wrote them (`LogBytes`) and its stack, which is what the call before left or the first call
of the next value (`LogOrder`); `LogEnd` ties the last of them to the writer's own stack. The
reader follows (`Follows`): with r calls of pop made it is at the place of call r + 1 of the
log, and its stack is that call's with types for values (`TypesOf`). A call of pop keeps this
because it reads as many bytes as that call wrote (`PopSizes`), gets the same cells back from
them (`UnpackPacked`, by division with remainder), and asks for the parts that the writer
pushed (`PopMatches`, `TypesFollow`), a condition on each type alone. That fails for `char[N]`
only, whose announced length is not that of its characters. A pop cannot throw
(`NoPopThrows`, `NoResizeThrows`), since what the writer wrote is inside the buffer and had
room in memory. The histories are what
makes it inductive: the positions and the present bytes do not say which call wrote them.

**Only proved.** `LossBounded`, `RunOnce` and `DropNeedsErase` are properties of no run; they
are stated by `ExceptionsCostBounded`, `TaskRunsOnce` and `DropsOnlyAfterErase`.

**Only model-checked.** Every safety property of the passing runs but `InItsPart` (the module
`FileTransfer` has no proofs yet) is stated by a theorem. Liveness and `ENABLED` are out of
the prover's reach and stay with TLC: `Delivered`, the three `StopReturns`, `TaskExecuted`,
`ShutdownReturns`, `TickPosted`, `DestructorReturns`, `WaitsWhenFits`, `SocketReturned`,
`Ends` and `TransfersEnd`.

## 5. Not modelled, and the plan

Next, in this order:

1. Composition of `TimerService` with `IoDispatcher`, for the lifetime of the pool that
   timer callbacks are allocated from (`timer_service.hpp:272`, on the service thread's
   stack).
2. Composed transfers over multiple buffers; a proof of `InItsPart`.
3. The lifo and prio schedulers and the dynamic size controller of the thread pool.
4. The circular buffer and `get()` of the object pool; release of the memory pools' chunks.

Left out:

* Some code that does not compile when it is instantiated: the service's `set_timer`, the
  variadic `async_send` of the client, the `call()` overloads of the Windows thread pool
  wrappers that take a handler, `async_connect` and `async_disconnect` of the stream
  socket's wrapper; `io_completion_pool`, which is marked as to do. Where the intention is
  plain such code is modelled by it: the waits of the bounded queue, `op_if` and `erase(op)` of
  the sequence container, `read_offset_handler_t`, and the files, whose headers are missing.
* File sizes and `flush`, socket options and addresses: they change no state of the library.
* `event_t`, `stop_APC`, priorities and affinity of threads; wide and empty streams, text
  input; iterators and move operations of the containers.
* Exceptions, strings, Unicode and Win32 helpers (stateless); tests, demos and vendored
  code.
