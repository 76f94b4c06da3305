---------------------------- MODULE OverlappedIo ----------------------------
(***************************************************************************)
(* Socket and file objects, their handles and their overlapped operations  *)
(* (async_io/network/socket.hpp and .cpp, async_io/file/file.cpp).         *)
(*                                                                         *)
(* An object holds a handle value; the system's table says which kernel    *)
(* object a value names, and gives a freed value out again.  open() binds  *)
(* the handle to the completion port and, for sockets, asks the system to  *)
(* post no completion for a call that succeeds at once.  An operation      *)
(* makes a callback object, issues the call and then deletes the callback  *)
(* and throws, calls it in place, or releases it to the port: two steps,   *)
(* between which a worker may already have called and deleted it.          *)
(***************************************************************************)
EXTENDS Naturals, FiniteSets

CONSTANTS
  Sockets, Files,  \* socket_handle_t and file_handle objects
  Values,          \* handle values the system gives out
  Ops,             \* operations, each with its callback object
  MaxKernel,       \* bound: kernel objects made
  MaxCloses        \* bound: threads in close() of one object

Objects == Sockets \cup Files
Kernel == 1..MaxKernel
Invalid == 0       \* INVALID_SOCKET, INVALID_HANDLE_VALUE
Nothing == 0       \* the value names no kernel object

\* No handle value is the invalid one, and an object is a socket or a file.
ASSUME HandlesAssumption ==
  MaxKernel \in Nat /\ MaxCloses \in Nat /\ Invalid \notin Values /\ Sockets \cap Files = {}

VARIABLES
  life,            \* life of each C++ object
  handle,          \* socket_ and file_
  closing,         \* threads between the two statements of close()
  crossed,         \* close() or open() of an object overlapped its close() (history)
  table,           \* kernel object each value names
  created,         \* kernel objects made so far
  sockets,         \* those that are sockets
  mode,            \* "unbound", "port" (bound) or "skip" (bound, no
                   \*   completion for a call that succeeds at once)
  mine,            \* kernel object each object last obtained (history)
  copied,          \* a socket object was copied or assigned (history)
  dropped,         \* kernel objects whose last handle was overwritten (history)
  halfOpen,        \* kernel objects whose open() threw after making them (history)
  op,              \* state of each operation
  port,            \* operations with a completion in the port
  called, frees    \* times a callback was called, deleted

objVars == <<life, handle, closing, crossed, table, created, sockets, mode, mine, copied, dropped, halfOpen>>
closeVars == <<closing, crossed>>
handleVars == <<life, handle, closing, crossed, table, created, sockets, mode, mine, copied,
                dropped, halfOpen, op, port, called, frees>>

NotIssued == [at |-> "none", class |-> "none", kern |-> Nothing, result |-> "none"]

HandlesInit ==
  /\ life = [x \in Objects |-> "none"]
  /\ handle = [x \in Objects |-> Invalid]
  /\ closing = [x \in Objects |-> 0] /\ crossed = FALSE
  /\ table = [v \in Values |-> Nothing]
  /\ created = 0 /\ sockets = {}
  /\ mode = [k \in Kernel |-> "unbound"]
  /\ mine = [x \in Objects |-> Nothing]
  /\ copied = FALSE /\ dropped = {} /\ halfOpen = {}
  /\ op = [o \in Ops |-> NotIssued]
  /\ port = {}
  /\ called = [o \in Ops |-> 0] /\ frees = [o \in Ops |-> 0]

-----------------------------------------------------------------------------
(* Objects and handles *)

Live(x) == life[x] = "live"
IsOpen(x) == handle[x] # Invalid
Named(x) == IF IsOpen(x) THEN table[handle[x]] ELSE Nothing

\* The value names a kernel object the object's calls are for: the socket
\* functions refuse the handle of a file.
Usable(x) == Named(x) # Nothing /\ (x \in Sockets => Named(x) \in sockets)

\* The kernel object that is lost when the handle of x is stored over: no other
\* object, but for one about to forget its handle, will close it.
Overwritten(x) ==
  {k \in {Named(x)} \ {Nothing} :
     \A y \in Objects \ {x} : ~(Live(y) /\ Usable(y) /\ Named(y) = k /\ closing[y] = 0)}

Construct(x) ==
  /\ life[x] = "none"
  /\ life' = [life EXCEPT ![x] = "live"]
  /\ UNCHANGED <<handle, closeVars, table, created, sockets, mode, mine, copied, dropped,
                 halfOpen, op, port, called, frees>>

\* The system makes a kernel object and gives out a value that names nothing.
Create(x, v, m) ==
  /\ created < MaxKernel /\ table[v] = Nothing
  /\ created' = created + 1
  /\ sockets' = IF x \in Sockets THEN sockets \cup {created + 1} ELSE sockets
  /\ table' = [table EXCEPT ![v] = created + 1]
  /\ mode' = [mode EXCEPT ![created + 1] = m]

\* Mutants: SetFileCompletionNotificationModes() is not called for a socket,
\* or is called for a file too.
SocketPosts == {"port"}
FileSkips == {"skip", "unbound"}

\* What an open() makes: a socket is bound and then told to skip; a file is
\* bound when opened for overlapped or unbuffered access.
SocketMode == {"skip"}
FileMode == {"port", "unbound"}
\* bind(), or SetFileCompletionNotificationModes() after it, throws.
ThrowMode(x) == IF x \in Sockets THEN {"unbound", "port"} ELSE {"unbound"}

\* A call that goes wrong if another thread is in close() of the object.
Overlap(x) == crossed' = (crossed \/ closing[x] > 0)

\* The object gets the handle, whether open() goes on or throws.
Obtain(x, ok) ==
  \E v \in Values, m \in IF ~ok THEN ThrowMode(x)
                         ELSE IF x \in Sockets THEN SocketMode ELSE FileMode :
    /\ Create(x, v, m)
    /\ handle' = [handle EXCEPT ![x] = v]
    /\ mine' = [mine EXCEPT ![x] = created + 1]
    /\ halfOpen' = IF ok THEN halfOpen ELSE halfOpen \cup {created + 1}
    /\ Overlap(x)

\* socket_handle_t::open(): refused while open.
OpenSocket(x) ==
  /\ x \in Sockets /\ Live(x) /\ ~IsOpen(x)
  /\ \E ok \in BOOLEAN : Obtain(x, ok)
  /\ UNCHANGED <<life, closing, copied, dropped, op, port, called, frees>>

\* file_handle::open() stores the new handle over the old one.
OpenFile(x) ==
  /\ x \in Files /\ Live(x)
  /\ dropped' = dropped \cup Overwritten(x)
  /\ \E ok \in BOOLEAN : Obtain(x, ok)
  /\ UNCHANGED <<life, closing, copied, op, port, called, frees>>

\* CreateFile() fails: the result is stored before it is tested.
OpenFileFails(x) ==
  /\ x \in Files /\ Live(x)
  /\ dropped' = dropped \cup Overwritten(x)
  /\ handle' = [handle EXCEPT ![x] = Invalid]
  /\ UNCHANGED <<life, closeVars, table, created, sockets, mode, mine, copied, halfOpen, op, port,
                 called, frees>>

\* open() throws in a constructor after the handle was made: the destructor
\* of an object that was not constructed does not run.
ConstructThrows(x) ==
  /\ life[x] = "none"
  /\ life' = [life EXCEPT ![x] = "gone"]
  /\ \E v \in Values, m \in ThrowMode(x) : Create(x, v, m)
  /\ dropped' = dropped \cup {created + 1} /\ halfOpen' = halfOpen \cup {created + 1}
  /\ UNCHANGED <<handle, closeVars, mine, copied, op, port, called, frees>>

\* socket_handle_t(io, sock): a handle the object neither made nor bound.
Adopt(x) ==
  /\ x \in Sockets /\ life[x] = "none"
  /\ life' = [life EXCEPT ![x] = "live"]
  /\ \E v \in Values :
       /\ Create(x, v, "unbound")
       /\ handle' = [handle EXCEPT ![x] = v]
       /\ mine' = [mine EXCEPT ![x] = created + 1]
  /\ UNCHANGED <<closeVars, copied, dropped, halfOpen, op, port, called, frees>>

\* The copy constructor, also what std::move of a socket selects.
Copy(x, y) ==
  /\ x \in Sockets /\ y \in Sockets /\ Live(x) /\ IsOpen(x) /\ life[y] = "none"
  /\ life' = [life EXCEPT ![y] = "live"]
  /\ handle' = [handle EXCEPT ![y] = handle[x]]
  /\ mine' = [mine EXCEPT ![y] = mine[x]]
  /\ copied' = TRUE
  /\ UNCHANGED <<closeVars, table, created, sockets, mode, dropped, halfOpen, op, port, called,
                 frees>>

\* operator= : the handle of the left side is forgotten, not closed.
Assign(x, y) ==
  /\ x \in Sockets /\ y \in Sockets /\ x # y /\ Live(x) /\ Live(y)
  /\ dropped' = dropped \cup Overwritten(y)
  /\ handle' = [handle EXCEPT ![y] = handle[x]]
  /\ mine' = [mine EXCEPT ![y] = mine[x]]
  /\ copied' = TRUE
  /\ UNCHANGED <<life, closeVars, table, created, sockets, mode, halfOpen, op, port, called, frees>>

\* Operations of kernel object k still under way.
PendingOn(k) == {o \in Ops : op[o].kern = k /\ op[o].result = "pending"}

\* The system ends the operations of S: those of a bound handle are posted.
Ended(S) ==
  /\ op' = [o \in Ops |-> IF o \in S THEN [op[o] EXCEPT !.result = "ended"] ELSE op[o]]
  /\ port' = port \cup {o \in S : mode[op[o].kern] # "unbound"}

\* closesocket() or CloseHandle() ends what the kernel object has under way.
\* The object still has the value, which the system may give out again.
CloseHandle(x) ==
  /\ closing' = [closing EXCEPT ![x] = @ + 1]
  /\ IF Usable(x) THEN table' = [table EXCEPT ![handle[x]] = Nothing] /\ Ended(PendingOn(Named(x)))
                  ELSE UNCHANGED <<table, op, port>>

\* close(), and dis_connect() without reuse, when is_open().
Close(x) ==
  /\ Live(x) /\ IsOpen(x) /\ closing[x] < MaxCloses
  /\ CloseHandle(x)
  /\ Overlap(x)
  /\ UNCHANGED <<life, handle, created, sockets, mode, mine, copied, dropped, halfOpen, called, frees>>

\* Mutant: the closed value stays in the object.
ForgetNothing(x) ==
  /\ closing[x] > 0
  /\ closing' = [closing EXCEPT ![x] = @ - 1]
  /\ UNCHANGED <<life, handle, crossed, table, created, sockets, mode, mine, copied, dropped,
                 halfOpen, op, port, called, frees>>

\* The second statement of close(): the member becomes the invalid value.
Forget(x) ==
  /\ closing[x] > 0
  /\ closing' = [closing EXCEPT ![x] = @ - 1]
  /\ handle' = [handle EXCEPT ![x] = Invalid]
  /\ UNCHANGED <<life, crossed, table, created, sockets, mode, mine, copied, dropped,
                 halfOpen, op, port, called, frees>>

\* The destructor closes; no other thread is in a call of the object.
Destroy(x) ==
  /\ Live(x) /\ closing[x] = 0
  /\ life' = [life EXCEPT ![x] = "gone"]
  /\ IF IsOpen(x) THEN CloseHandle(x) ELSE UNCHANGED <<closing, table, op, port>>
  /\ UNCHANGED <<handle, crossed, created, sockets, mode, mine, copied, dropped, halfOpen, called, frees>>

\* cancel(): CancelIoEx() ends every operation of a socket, CancelIo() those
\* the calling thread issued on a file.
Cancel(x) ==
  /\ Live(x) /\ Usable(x)
  /\ \E S \in SUBSET PendingOn(Named(x)) :
       /\ S # {} /\ (x \in Sockets => S = PendingOn(Named(x)))
       /\ Ended(S)
  /\ UNCHANGED <<objVars, called, frees>>

-----------------------------------------------------------------------------
(* Operations *)

\* The call on the handle: refused, under way, or done at once, and then
\* posted unless the handle skips that or is not bound.
Issued(o, x, c) ==
  /\ op[o].at = "none" /\ Live(x)
  /\ \E r \in {"failed", "pending", "done"} :
       /\ ~Usable(x) => r = "failed"
       /\ op' = [op EXCEPT ![o] = [at |-> "issued", class |-> c, kern |-> Named(x), result |-> r]]
       /\ port' = IF r = "done" /\ mode[Named(x)] = "port" THEN port \cup {o} ELSE port
  /\ UNCHANGED <<objVars, called, frees>>

\* async_read, async_write, async_send_to, async_recv_from
IssueInline(o, x) == x \in Sockets /\ Issued(o, x, "inline")

\* async_accept and async_connect, which want an open socket, and
\* async_disconnect, which does not ask.
IssuePosted(o, x) == x \in Sockets /\ Issued(o, x, "posted")

\* async_read and async_write of a file
IssueFile(o, x) == x \in Files /\ IsOpen(x) /\ Issued(o, x, "file")

\* The call failed: win32_exception_t, and the callback is deleted.
Throw(o) ==
  /\ op[o].at = "issued" /\ op[o].result = "failed"
  /\ op' = [op EXCEPT ![o].at = "settled"]
  /\ frees' = [frees EXCEPT ![o] = @ + 1]
  /\ UNCHANGED <<objVars, port, called>>

\* ret == 0: asynResult->invoke() in the caller, then the pointer deletes it.
InvokeInPlace(o) ==
  /\ op[o].at = "issued" /\ op[o].class = "inline" /\ op[o].result = "done"
  /\ op' = [op EXCEPT ![o].at = "settled"]
  /\ called' = [called EXCEPT ![o] = @ + 1]
  /\ frees' = [frees EXCEPT ![o] = @ + 1]
  /\ UNCHANGED <<objVars, port>>

\* asynResult.release()
Release(o) ==
  /\ op[o].at = "issued" /\ op[o].result # "failed"
  /\ op[o].class = "inline" => op[o].result # "done"
  /\ op' = [op EXCEPT ![o].at = "settled"]
  /\ UNCHANGED <<objVars, port, called, frees>>

\* The system ends an operation that was under way.
CompleteOp(o) ==
  /\ op[o].result = "pending"
  /\ Ended({o})
  /\ UNCHANGED <<objVars, called, frees>>

\* A worker takes the completion: call() invokes and deletes the callback.
WorkerCall(o) ==
  /\ o \in port
  /\ port' = port \ {o}
  /\ called' = [called EXCEPT ![o] = @ + 1]
  /\ frees' = [frees EXCEPT ![o] = @ + 1]
  /\ UNCHANGED <<objVars, op>>

\* What the classes built on a socket object offer of this, and basic_file.
Offered(x) == OpenSocket(x) \/ Close(x) \/ Cancel(x)
OfferedFile(x) == OpenFile(x) \/ OpenFileFails(x) \/ Close(x) \/ Cancel(x)

\* basic_stream_socket_t
StreamSocket(x) == Offered(x) \/ \E o \in Ops : IssueInline(o, x) \/ IssuePosted(o, x)

\* basic_datagram_socket_t: async_send_to and async_recv_from, async_connect
DatagramSocket(x) == Offered(x) \/ \E o \in Ops : IssueInline(o, x) \/ IssuePosted(o, x)

\* basic_acceptor_t: async_accept
Acceptor(x) == Offered(x) \/ \E o \in Ops : IssuePosted(o, x)

\* basic_file
BasicFile(x) == OfferedFile(x) \/ \E o \in Ops : IssueFile(o, x)

HandlesNext ==
  \/ \E x \in Sockets : StreamSocket(x) \/ DatagramSocket(x) \/ Acceptor(x)
  \/ \E x \in Files : BasicFile(x)
  \/ \E x \in Objects :
       Construct(x) \/ ConstructThrows(x) \/ Adopt(x) \/ Forget(x) \/ Destroy(x)
  \/ \E x, y \in Objects : Copy(x, y) \/ Assign(x, y)
  \/ \E o \in Ops : Throw(o) \/ InvokeInPlace(o) \/ Release(o) \/ CompleteOp(o) \/ WorkerCall(o)

HandlesSpec == HandlesInit /\ [][HandlesNext]_handleVars

-----------------------------------------------------------------------------
(* Properties *)

\* A socket whose open() was completed.
SkipsSuccess(o) == op[o].kern # Nothing /\ mode[op[o].kern] = "skip"

\* No callback object is touched after it was deleted, although the thread
\* that issued the call and the worker that takes its completion both hold a
\* pointer to it: as long as one of them still needs it, it exists.  It rests
\* on open() asking for no completion of calls that succeed at once; a socket
\* whose open() threw after bind() is the one exception.
NoUseAfterDelete ==
  \A o \in Ops :
    (/\ \/ o \in port
        \/ op[o].at = "issued" /\ op[o].result \in {"failed", "done"} /\ op[o].class = "inline"
     /\ frees[o] > 0)
    => op[o].kern \in halfOpen

\* A callback that nobody will ever call was released for an operation that
\* succeeded at once on a socket, which posts nothing for that (async_accept,
\* async_connect, async_disconnect, or a call of a file object whose handle
\* value a socket got while it was being closed), or for one on a handle that
\* was never bound to the port.
LostNeedsAtOnce ==
  \A o \in Ops :
    (op[o].at = "settled" /\ op[o].result # "pending" /\ o \notin port /\ called[o] = 0)
    => \/ op[o].result = "failed"
       \/ /\ op[o].class # "inline" /\ op[o].result = "done"
          /\ SkipsSuccess(o) /\ op[o].kern \in sockets
       \/ mode[op[o].kern] = "unbound"

\* An object's handle names the kernel object that the object opened, not one
\* that got the value later: close(), cancel() and the operations of one
\* object never reach another's handle, unless a thread is between the two
\* statements of the object's close(), or a close() or open() of some object
\* fell into that gap, or a socket object was copied (a file's never do then).
StaleNeedsCopy ==
  \A x \in Objects :
    (Live(x) /\ IsOpen(x) /\ Named(x) # mine[x])
    => closing[x] > 0 \/ crossed \/ (copied /\ x \in Sockets)

\* A kernel object outlives the objects that name it only if file_handle::
\* open() or operator= stored over its last handle, a constructor threw, or
\* close() cleared the handle of an open() that overlapped it.
LeakNeedsOverwrite ==
  \A v \in Values :
    (table[v] # Nothing /\ ~\E x \in Objects : Live(x) /\ Usable(x) /\ handle[x] = v)
    => table[v] \in dropped \/ crossed

\* Objects and kernel objects belong together: no handle of another object is
\* reached and none leaks, but for the copies and overwrites of the code and
\* for calls of one object that overlap its close().
HandlesSound == StaleNeedsCopy /\ LeakNeedsOverwrite
=============================================================================
