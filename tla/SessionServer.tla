---------------------------- MODULE SessionServer ----------------------------
(***************************************************************************)
(* network::server with its sessions and socket pool                       *)
(* (async_io/network.{hpp,cpp}, utility/object_pool.hpp) and the socket    *)
(* operations they start (network/socket.{hpp,cpp}, accept.hpp).           *)
(*                                                                         *)
(* A socket object travels: created or taken from the pool by the accept   *)
(* thread, given to AcceptEx, owned by the session its completion makes,   *)
(* and back to the pool in ~session, in whichever thread drops the last    *)
(* session_ptr.  A session_ptr is held by every handler that runs for the  *)
(* session, by the closures of its pending operations and perhaps by the   *)
(* application; only the variadic async_write makes a closure without one. *)
(*                                                                         *)
(* Handlers are user code: while one runs it may start any operation.  An  *)
(* operation that completes at once calls its handler in the same thread,  *)
(* which the running handler stands for.                                   *)
(***************************************************************************)
EXTENDS Naturals, Sequences, FiniteSets, Functions

CONSTANTS
  Sockets,       \* the socket objects that can be created
  NumSessions,   \* bound: accepted connections
  MaxPending,    \* bound: pending operations of one kind on one session
  MaxAccept,     \* MAX_ACCEPT_NUM
  Threads        \* workers of io_

ASSUME ServerAssumption ==
  /\ IsFiniteSet(Sockets)
  /\ NumSessions \in Nat /\ MaxPending \in Nat
  /\ MaxAccept \in Nat \ {0}

Sessions == 1..NumSessions
NoSession == 0

\* "send" is the async_write whose closure holds no session_ptr.
Kinds == {"read", "write", "send", "disc"}
Keeping == Kinds \ {"send"}

VARIABLES
  net,           \* what the kernel knows of each socket
  pool,          \* socket_pool_
  accPc,         \* the accept thread in _thread_impl()
  accSck,        \* its local `sck`
  accI,          \* its loop index
  born,          \* number of sessions made so far
  life,          \* "unborn", "live" or "dead"
  sckOf,         \* sck_ of each session
  pend,          \* pending operations per session and kind
  ctx,           \* the session whose handler each worker runs, or NoSession
  due,           \* workers whose handler still has to call disconnect()
  mute,          \* workers in the empty handler of a disconnect
  app,           \* sessions the application keeps a session_ptr of
  leaked,        \* sessions held by a closure nobody will ever call or free
  stranded,      \* sockets whose accept callback nobody will ever call
  parted,        \* sessions whose DisconnectEx is pending or succeeded (history)
  left,          \* workers that have returned from _thread_io()
  stopPc         \* where stop() stands

acceptVars == <<accPc, accSck, accI>>
sessVars == <<born, life, sckOf>>
ioVars == <<mute, left, stopPc>>
vars == <<net, pool, accPc, accSck, accI, born, life, sckOf, pend, ctx, due,
          mute, app, leaked, stranded, parted, left, stopPc>>

Init ==
  /\ net = [s \in Sockets |-> "none"]
  /\ pool = <<>>
  /\ accPc = "off" /\ accSck \in Sockets /\ accI = 0
  /\ born = 0
  /\ life = [x \in Sessions |-> "unborn"]
  /\ sckOf \in [Sessions -> {accSck}]
  /\ pend = [x \in Sessions |-> [k \in Kinds |-> 0]]
  /\ ctx = [t \in Threads |-> NoSession]
  /\ due = {}
  /\ mute = {}
  /\ app = {}
  /\ leaked = {}
  /\ stranded = {}
  /\ parted = {}
  /\ left = {}
  /\ stopPc = "running"

-----------------------------------------------------------------------------
(* The accept thread                                                       *)

Start ==
  /\ accPc = "off" /\ stopPc = "running"
  /\ accPc' = "wait"
  /\ UNCHANGED <<net, pool, accSck, accI, sessVars, pend, ctx, due, app,
                 leaked, stranded, parted, ioVars>>

\* FD_ACCEPT is signalled: post MAX_ACCEPT_NUM accepts.  Bound: only if the
\* sockets for them are in the pool or can be created.
Fresh == {s \in Sockets : net[s] = "none"}
AcceptEvent ==
  /\ accPc = "wait"
  /\ Len(pool) + Cardinality(Fresh) >= MaxAccept
  /\ accPc' = "empty" /\ accI' = 0
  /\ UNCHANGED <<net, pool, accSck, sessVars, pend, ctx, due, app,
                 leaked, stranded, parted, ioVars>>

\* raw_aciquire: pop() asks empty() under the lock of the list ...
PoolNotEmpty ==
  /\ accPc = "empty"
  /\ pool # <<>>
  /\ accPc' = "top"
  /\ UNCHANGED <<net, pool, accSck, accI, sessVars, pend, ctx, due, app,
                 leaked, stranded, parted, ioVars>>

\* ... or create_handler_() makes a socket ...
CreateSocket(s) ==
  /\ accPc = "empty"
  /\ pool = <<>>
  /\ net[s] = "none"
  /\ net' = [net EXCEPT ![s] = "idle"]
  /\ accSck' = s /\ accPc' = "accept"
  /\ UNCHANGED <<pool, accI, sessVars, pend, ctx, due, app,
                 leaked, stranded, parted, ioVars>>

\* ... then top() copies the front under the lock, taken again ...
PoolTop ==
  /\ accPc = "top"
  /\ accSck' = Head(pool) /\ accPc' = "pop"
  /\ UNCHANGED <<net, pool, accI, sessVars, pend, ctx, due, app,
                 leaked, stranded, parted, ioVars>>

\* ... and pop_top() removes the front under the lock, taken a third time.
PoolPop ==
  /\ accPc = "pop"
  /\ pool' = Tail(pool) /\ accPc' = "accept"
  /\ UNCHANGED <<net, accSck, accI, sessVars, pend, ctx, due, app,
                 leaked, stranded, parted, ioVars>>

\* The for loop over MAX_ACCEPT_NUM.
NextTurn ==
  /\ accI' = accI + 1
  /\ accPc' = IF accI + 1 = MaxAccept THEN "wait" ELSE "empty"

\* AcceptEx is pending: the callback owns the socket.
AcceptPends ==
  /\ accPc = "accept"
  /\ net[accSck] = "idle"
  /\ net' = [net EXCEPT ![accSck] = "accepting"]
  /\ NextTurn
  /\ UNCHANGED <<pool, accSck, sessVars, pend, ctx, due, app,
                 leaked, stranded, parted, ioVars>>

\* AcceptEx succeeds at once.  async_accept releases the callback as if it were
\* pending, but the port is told to skip such completions.
AcceptAtOnce ==
  /\ accPc = "accept"
  /\ net[accSck] = "idle"
  /\ net' = [net EXCEPT ![accSck] = "connected"]
  /\ stranded' = stranded \cup {accSck}
  /\ NextTurn
  /\ UNCHANGED <<pool, accSck, sessVars, pend, ctx, due, app,
                 leaked, parted, ioVars>>

\* AcceptEx fails, as it must on a socket that is still connected: unwinding
\* destroys the callback with the last pointer to the socket, which is closed.
AcceptThrows ==
  /\ accPc = "accept"
  /\ net' = [net EXCEPT ![accSck] = "closed"]
  /\ NextTurn
  /\ UNCHANGED <<pool, accSck, sessVars, pend, ctx, due, app,
                 leaked, stranded, parted, ioVars>>

\* Mutant: the interrupted wait is simply repeated.
AcceptExitIgnored ==
  /\ accPc = "wait" /\ stopPc = "accept"
  /\ UNCHANGED vars

\* The alertable wait is interrupted by the APC of stop().
AcceptExit ==
  /\ accPc = "wait" /\ stopPc = "accept"
  /\ accPc' = "exited"
  /\ UNCHANGED <<net, pool, accSck, accI, sessVars, pend, ctx, due, app,
                 leaked, stranded, parted, ioVars>>

Acceptor ==
  \/ PoolNotEmpty \/ (\E s \in Sockets : CreateSocket(s))
  \/ PoolTop \/ PoolPop
  \/ AcceptPends \/ AcceptAtOnce \/ AcceptThrows \/ AcceptExit

-----------------------------------------------------------------------------
(* Workers: completions and the handlers they run                          *)

\* Worker t enters a handler that holds session x.
Enter(t, x) ==
  /\ ctx[t] = NoSession /\ t \notin left
  /\ ctx' = [ctx EXCEPT ![t] = x]

\* _handle_accept: the session takes the socket over, accepted or not; the
\* accept handler or the error handler gets the first session_ptr.
AcceptDone(t, s, ok) ==
  /\ net[s] = "accepting"
  /\ born < NumSessions
  /\ Enter(t, born + 1)
  /\ born' = born + 1
  /\ life' = [life EXCEPT ![born + 1] = "live"]
  /\ sckOf' = [sckOf EXCEPT ![born + 1] = s]
  /\ net' = [net EXCEPT ![s] = IF ok THEN "connected" ELSE "idle"]
  /\ UNCHANGED <<pool, acceptVars, pend, due, app, leaked, stranded, parted, ioVars>>

\* A pending operation completes: its closure's session_ptr is the handler's.
Complete(t, x, k) ==
  /\ pend[x][k] > 0
  /\ Enter(t, x)
  /\ pend' = [pend EXCEPT ![x][k] = @ - 1]
  /\ UNCHANGED <<pool, acceptVars, sessVars, app, leaked, stranded, left, stopPc>>

ReadDone(t, x) == Complete(t, x, "read") /\ UNCHANGED <<net, due, mute, parted>>

\* _handle_read has to call disconnect() on an error and at the end of data.
ReadFailed(t, x) ==
  /\ Complete(t, x, "read")
  /\ due' = due \cup {t}
  /\ UNCHANGED <<net, mute, parted>>

WriteDone(t, x) == Complete(t, x, "write") /\ UNCHANGED <<net, due, mute, parted>>

\* The handler of a disconnect is an empty lambda that holds the session.
DisconnectDone(t, x) ==
  /\ Complete(t, x, "disc")
  /\ net' = [net EXCEPT ![sckOf[x]] = IF @ = "leaving" THEN "idle" ELSE @]
  /\ mute' = mute \cup {t}
  /\ UNCHANGED <<due, parted>>

\* DisconnectEx completes with an error, for example because of shutdown(),
\* which cancels what is pending on the socket.  The lambda does not look at
\* the error code; the socket is still connected.
DisconnectFailed(t, x) ==
  LET still == net[sckOf[x]] = "leaving" /\ pend[x]["disc"] = 1
  IN  /\ Complete(t, x, "disc")
      /\ net' = IF still THEN [net EXCEPT ![sckOf[x]] = "connected"] ELSE net
      /\ parted' = IF still THEN parted \ {x} ELSE parted
      /\ mute' = mute \cup {t}
      /\ UNCHANGED due

\* The handler of a send knows nothing of the session, which may be gone.
SendDone(t, x) ==
  /\ pend[x]["send"] > 0
  /\ ctx[t] = NoSession /\ t \notin left
  /\ pend' = [pend EXCEPT ![x]["send"] = @ - 1]
  /\ UNCHANGED <<net, pool, acceptVars, sessVars, ctx, due, app, leaked,
                 stranded, parted, ioVars>>

\* A handler starts an operation that stays pending.
StartOp(t, x, k) ==
  /\ ctx[t] = x /\ t \notin mute
  /\ k # "disc"
  /\ net[sckOf[x]] = "connected"
  /\ pend[x][k] < MaxPending
  /\ pend' = [pend EXCEPT ![x][k] = @ + 1]
  /\ UNCHANGED <<net, pool, acceptVars, sessVars, ctx, due, app, leaked,
                 stranded, parted, ioVars>>

\* A read that cannot be started, or that ends at once with an error or no
\* data: _run_impl or _handle_read has to call disconnect().
StartReadFails(t, x) ==
  /\ ctx[t] = x /\ t \notin due \cup mute
  /\ due' = due \cup {t}
  /\ UNCHANGED <<net, pool, acceptVars, sessVars, pend, ctx, app, leaked,
                 stranded, parted, ioVars>>

\* disconnect(), called by the user or because a handler has to.
Disconnecting(t, x) ==
  /\ ctx[t] = x /\ t \notin mute
  /\ due' = due \ {t}
  /\ UNCHANGED <<pool, acceptVars, sessVars, ctx, app, stranded, ioVars>>

\* Mutant: the closure holds a plain pointer instead of this_val.
DisconnectPendsRaw(t, x) ==
  /\ Disconnecting(t, x)
  /\ net[sckOf[x]] \in {"connected", "leaving"}
  /\ pend[x]["send"] < MaxPending
  /\ net' = [net EXCEPT ![sckOf[x]] = "leaving"]
  /\ pend' = [pend EXCEPT ![x]["send"] = @ + 1]
  /\ parted' = parted \cup {x}
  /\ UNCHANGED leaked

\* DisconnectEx is pending, its closure keeps the session.
DisconnectPends(t, x) ==
  /\ Disconnecting(t, x)
  /\ net[sckOf[x]] \in {"connected", "leaving"}
  /\ pend[x]["disc"] < MaxPending
  /\ net' = [net EXCEPT ![sckOf[x]] = "leaving"]
  /\ pend' = [pend EXCEPT ![x]["disc"] = @ + 1]
  /\ parted' = parted \cup {x}
  /\ UNCHANGED leaked

\* DisconnectEx succeeds at once: the closure is released and never called.
DisconnectAtOnce(t, x) ==
  /\ Disconnecting(t, x)
  /\ net[sckOf[x]] = "connected"
  /\ net' = [net EXCEPT ![sckOf[x]] = "idle"]
  /\ leaked' = leaked \cup {x}
  /\ parted' = parted \cup {x}
  /\ UNCHANGED pend

\* DisconnectEx fails and the error handler is called, nothing else; or a handler
\* throws before disconnect() is called.
DisconnectThrows(t, x) ==
  /\ Disconnecting(t, x)
  /\ UNCHANGED <<net, pend, leaked, parted>>

\* The application copies the session_ptr.
Keep(t, x) ==
  /\ ctx[t] = x /\ t \notin mute
  /\ app' = app \cup {x}
  /\ UNCHANGED <<net, pool, acceptVars, sessVars, pend, ctx, due, leaked,
                 stranded, parted, ioVars>>

-----------------------------------------------------------------------------
(* The last session_ptr                                                    *)

\* Mutant: closures of pending operations hold no session_ptr.
HeldByNoClosure(x, ts, kept) ==
  (\E t \in ts : ctx[t] = x) \/ x \in kept \/ x \in leaked

\* There is a session_ptr of x in a handler of one of these workers, with the
\* application (it keeps these sessions), or in a closure.
HeldBy(x, ts, kept) ==
  \/ \E t \in ts : ctx[t] = x
  \/ x \in kept
  \/ x \in leaked
  \/ \E k \in Keeping : pend[x][k] > 0

\* Mutants: raw_release puts the socket at the front; ~session keeps it.
DropFront(x, held) ==
  IF held THEN UNCHANGED <<life, pool>>
  ELSE /\ life' = [life EXCEPT ![x] = "dead"]
       /\ pool' = <<sckOf[x]>> \o pool
DropNothing(x, held) == UNCHANGED <<life, pool>>

\* A session_ptr is dropped; if it was the last one ~session gives the socket
\* back to the pool.
Drop(x, held) ==
  IF held THEN UNCHANGED <<life, pool>>
  ELSE /\ life' = [life EXCEPT ![x] = "dead"]
       /\ pool' = Append(pool, sckOf[x])

\* A handler returns (or throws, which the worker catches).
Finish(t, x) ==
  /\ ctx[t] = x /\ t \notin due
  /\ Drop(x, HeldBy(x, Threads \ {t}, app))
  /\ ctx' = [ctx EXCEPT ![t] = NoSession]
  /\ mute' = mute \ {t}
  /\ UNCHANGED <<net, acceptVars, born, sckOf, pend, due, app, leaked,
                 stranded, parted, left, stopPc>>

\* The application drops its copy, in any thread.
AppDrop(x) ==
  /\ x \in app
  /\ Drop(x, HeldBy(x, Threads, app \ {x}))
  /\ app' = app \ {x}
  /\ UNCHANGED <<net, acceptVars, born, sckOf, pend, ctx, due, leaked,
                 stranded, parted, ioVars>>

-----------------------------------------------------------------------------
(* stop(), called once                                                     *)

\* The APC to the accept thread, if start() was called.
StopBegin ==
  /\ stopPc = "running"
  /\ stopPc' = IF accPc = "off" THEN "io" ELSE "accept"
  /\ UNCHANGED <<net, pool, acceptVars, sessVars, pend, ctx, due, app,
                 leaked, stranded, parted, mute, left>>

\* join() of the accept thread, then io_.stop().
StopJoin ==
  /\ stopPc = "accept" /\ accPc = "exited"
  /\ stopPc' = "io"
  /\ UNCHANGED <<net, pool, acceptVars, sessVars, pend, ctx, due, app,
                 leaked, stranded, parted, mute, left>>

\* io_.stop(): a worker that is in no handler leaves.
WorkerLeaves(t) ==
  /\ stopPc = "io" /\ ctx[t] = NoSession
  /\ left' = left \cup {t}
  /\ UNCHANGED <<net, pool, acceptVars, sessVars, pend, ctx, due, app,
                 leaked, stranded, parted, mute, stopPc>>

\* Every worker was joined; acceptor_.close().
StopReturn ==
  /\ stopPc = "io" /\ left = Threads
  /\ stopPc' = "down"
  /\ UNCHANGED <<net, pool, acceptVars, sessVars, pend, ctx, due, app,
                 leaked, stranded, parted, mute, left>>

Disconnect(t, x) ==
  DisconnectPends(t, x) \/ DisconnectAtOnce(t, x) \/ DisconnectThrows(t, x)

Handler(t, x) ==
  \/ \E k \in Kinds : StartOp(t, x, k)
  \/ StartReadFails(t, x) \/ Disconnect(t, x) \/ Keep(t, x) \/ Finish(t, x)

Completion(t, x) ==
  \/ ReadDone(t, x) \/ ReadFailed(t, x) \/ WriteDone(t, x)
  \/ DisconnectDone(t, x) \/ DisconnectFailed(t, x) \/ SendDone(t, x)

Next ==
  \/ Start \/ AcceptEvent \/ Acceptor
  \/ \E t \in Threads, s \in Sockets, ok \in BOOLEAN : AcceptDone(t, s, ok)
  \/ \E t \in Threads, x \in Sessions : Completion(t, x) \/ Handler(t, x)
  \/ \E x \in Sessions : AppDrop(x)
  \/ StopBegin \/ StopJoin \/ StopReturn
  \/ \E t \in Threads : WorkerLeaves(t)

Spec == Init /\ [][Next]_vars

\* Threads are scheduled, handlers return, accepted operations complete, and
\* a worker with an APC pending sees it at one of its waits even if packets
\* keep coming.  Nobody has to connect, to call start() or stop(), or to drop
\* a session_ptr the application keeps.
KeptDone(t, x) ==
  \/ ReadDone(t, x) \/ ReadFailed(t, x) \/ WriteDone(t, x)
  \/ DisconnectDone(t, x) \/ DisconnectFailed(t, x)
DisconnectDue(t) == t \in due /\ \E x \in Sessions : Disconnect(t, x)

Fairness ==
  /\ WF_vars(Acceptor) /\ SF_vars(AcceptExit)
  /\ \A t \in Threads :
       /\ SF_vars(\E x \in Sessions : Finish(t, x))
       /\ WF_vars(DisconnectDue(t))
       /\ SF_vars(WorkerLeaves(t))
  /\ \A x \in Sessions : SF_vars(\E t \in Threads : KeptDone(t, x))
  /\ WF_vars(StopJoin) /\ WF_vars(StopReturn)

FairSpec == Spec /\ Fairness

-----------------------------------------------------------------------------
(* Properties                                                              *)

\* The value domains of the variables.
TypeOK ==
  /\ net \in [Sockets -> {"none", "idle", "accepting", "connected", "leaving", "closed"}]
  /\ pool \in Seq(Sockets)
  /\ accPc \in {"off", "wait", "empty", "top", "pop", "accept", "exited"}
  /\ accSck \in Sockets
  /\ accI \in 0..MaxAccept
  /\ born \in 0..NumSessions
  /\ life \in [Sessions -> {"unborn", "live", "dead"}]
  /\ sckOf \in [Sessions -> Sockets]
  /\ pend \in [Sessions -> [Kinds -> Nat]]
  /\ ctx \in [Threads -> Sessions \cup {NoSession}]
  /\ due \subseteq Threads /\ mute \subseteq Threads
  /\ app \subseteq Sessions
  /\ leaked \subseteq Sessions
  /\ stranded \subseteq Sockets
  /\ parted \subseteq Sessions
  /\ left \subseteq Threads
  /\ stopPc \in {"running", "accept", "io", "down"}

InPool(s) == \E i \in 1..Len(pool) : pool[i] = s
InHand(s) == accPc = "accept" /\ accSck = s
InSession(s) == \E x \in Sessions : life[x] = "live" /\ sckOf[x] = s

\* Who can have a socket object.
Owners == {"nobody", "pool", "acceptor", "callback", "session", "stranded"}
Owns(o, s) ==
  CASE o = "nobody"   -> net[s] \in {"none", "closed"}
    [] o = "pool"     -> InPool(s)
    [] o = "acceptor" -> InHand(s)
    [] o = "callback" -> net[s] = "accepting"
    [] o = "session"  -> InSession(s)
    [] o = "stranded" -> s \in stranded

\* A socket object has exactly one owner, however many threads pass it on:
\* the pool (in one place), the accept thread, a pending accept, one session,
\* or the callback of an accept that succeeded at once and that nobody owns.
OneOwner ==
  /\ \A s \in Sockets : \E o \in Owners : \A q \in Owners : Owns(q, s) <=> q = o
  /\ \A i, j \in 1..Len(pool) : pool[i] = pool[j] => i = j
  /\ \A x, y \in Sessions :
       life[x] = "live" /\ life[y] = "live" /\ sckOf[x] = sckOf[y] => x = y

\* pop() of the socket pool is three critical sections.  Sessions push in
\* between, but what empty() and top() saw is still so in the next one.
PopStable ==
  /\ accPc = "top" => pool # <<>>
  /\ accPc = "pop" => pool # <<>> /\ Head(pool) = accSck

\* Nothing is pending on a socket that waits in the pool, save a send: the
\* closures of all other operations keep the session and so the socket.
PooledQuiet ==
  \A x \in Sessions, k \in Keeping :
    pend[x][k] > 0 => ~InPool(sckOf[x]) /\ ~InHand(sckOf[x])

\* A socket whose session was disconnected is idle again when the accept
\* thread gets it: AcceptEx refuses a pooled socket only if its last session
\* was dropped without a disconnect that was accepted, or if the disconnect
\* completed with an error, which disconnect() ignores.
LastOn(x) == \A y \in Sessions : y > x /\ life[y] # "unborn" => sckOf[y] # sckOf[x]
CleanReuse ==
  \A x \in parted :
    LastOn(x) /\ (InPool(sckOf[x]) \/ InHand(sckOf[x])) => net[sckOf[x]] = "idle"

\* Nothing of the last connection is under way on a socket that the accept
\* thread takes from the pool (~session, disconnect()), and it is ready for a
\* new one unless nobody disconnected it or the disconnect failed.
ReuseReady == PooledQuiet /\ CleanReuse

\* While io_ is being stopped and afterwards the accept thread is gone, and
\* once stop() has returned no handler runs or starts.
StopIsOrdered ==
  /\ stopPc \in {"io", "down"} => accPc \in {"off", "exited"}
  /\ stopPc = "down" => \A t \in Threads : ctx[t] = NoSession

\* A session that is disconnected is destroyed and its socket goes to the pool,
\* unless the application keeps the session, stop() is called, DisconnectEx
\* succeeded at once, or it failed: then handlers may go on using the session.
SocketReturned ==
  \A x \in Sessions :
    life[x] = "live" /\ x \in parted
      ~> \/ life[x] = "dead" \/ x \notin parted
         \/ x \in app \/ x \in leaked \/ stopPc # "running"

\* stop() returns.
StopReturns == stopPc = "accept" ~> stopPc = "down"
=============================================================================
