------------------------------- MODULE Client -------------------------------
(***************************************************************************)
(* The client of network.hpp: start(), stop(), disconnect() and the        *)
(* asynchronous and blocking transfers on its one socket.  Nothing in it   *)
(* is locked: the application and the workers of the dispatcher that run   *)
(* the completions all read and write socket_.                             *)
(***************************************************************************)
EXTENDS Naturals

CONSTANTS
  Workers,       \* the workers that run the completions
  App,           \* the application's thread, which calls start()
  ClientOps,     \* asynchronous operations
  MaxOpens,      \* bound: sockets opened
  MaxIssues      \* bound: operations started

ASSUME ClientAssumption == MaxOpens \in Nat \ {0}

VARIABLES
  sock,          \* socket_: the number of a kernel socket, 0 for INVALID_SOCKET
  opens,         \* sockets opened
  kern,          \* state of each kernel socket
  clientOp,      \* state of each operation
  issues,        \* operations started
  where,         \* where each thread is in the client
  started,       \* what the application knows: start() was called, did not
                 \*   return false, and neither was stop() called since nor
                 \*   disconnect_handle_
  overlapped     \* start() was called while a thread was in stop() (history)

clientVars == <<sock, opens, kern, clientOp, issues, where, started, overlapped>>

Threads == Workers \cup {App}
Kernels == 1..MaxOpens
NoTransfer == [at |-> "none", on |-> 0, res |-> "none"]

ClientInit ==
  /\ sock = 1 /\ opens = 1                   \* socket_(io_, tcp::v4())
  /\ kern = [k \in Kernels |-> IF k = 1 THEN "open" ELSE "none"]
  /\ clientOp = [o \in ClientOps |-> NoTransfer] /\ issues = 0
  /\ where = [t \in Threads |-> "idle"]
  /\ started = FALSE /\ overlapped = FALSE

Goes(t, from, to) == where[t] = from /\ where' = [where EXCEPT ![t] = to]

\* In stop(), called by the application or by disconnect().
Stopping(t) == where[t] \in {"stop", "stop_close", "stop_store",
                             "disc", "disc_close", "disc_store"}

-----------------------------------------------------------------------------
(* start() *)

\* Mutant: the socket is opened without asking whether it is open.
StartOpenAlways ==
  /\ Goes(App, "idle", "connect")
  /\ opens < MaxOpens
  /\ opens' = opens + 1 /\ sock' = opens + 1
  /\ kern' = [kern EXCEPT ![opens + 1] = "open"]
  /\ started' = TRUE
  /\ overlapped' = (overlapped \/ \E t \in Threads : Stopping(t))
  /\ UNCHANGED <<clientOp, issues>>

\* A closed socket is opened; a call of open() that gets no socket throws and
\* changes nothing.
StartOpen ==
  /\ Goes(App, "idle", "connect")
  /\ IF sock # 0
       THEN UNCHANGED <<sock, opens, kern>>
       ELSE /\ opens < MaxOpens
            /\ opens' = opens + 1 /\ sock' = opens + 1
            /\ kern' = [kern EXCEPT ![opens + 1] = "open"]
  /\ started' = TRUE
  /\ overlapped' = (overlapped \/ \E t \in Threads : Stopping(t))
  /\ UNCHANGED <<clientOp, issues>>

\* socket_.connect() succeeds on a socket that is open and not connected.
Connect ==
  /\ Goes(App, "connect", "on_connect")
  /\ sock # 0 /\ kern[sock] = "open"
  /\ kern' = [kern EXCEPT ![sock] = "connected"]
  /\ UNCHANGED <<sock, opens, clientOp, issues, started, overlapped>>

\* open() or connect() throws: start() returns false and leaves the socket
\* as it is.
StartFails ==
  /\ Goes(App, "connect", "idle")
  /\ started' = FALSE
  /\ UNCHANGED <<sock, opens, kern, clientOp, issues, overlapped>>

\* _on_connect(): GetLastError() after the successful call is whatever the
\* thread left there; if it is not zero the client disconnects, and start()
\* returns true all the same.
OnConnect(error) ==
  /\ Goes(App, "on_connect", IF error THEN "disc" ELSE "idle")
  /\ UNCHANGED <<sock, opens, kern, clientOp, issues, started, overlapped>>

-----------------------------------------------------------------------------
(* stop() and disconnect() *)

Stop(t) ==
  /\ Goes(t, "idle", "stop")
  /\ started' = FALSE
  /\ UNCHANGED <<sock, opens, kern, clientOp, issues, overlapped>>

\* if( socket_.is_open() )
CheckOpen(t) ==
  /\ \/ Goes(t, "stop", IF sock # 0 THEN "stop_close" ELSE "idle")
     \/ Goes(t, "disc", IF sock # 0 THEN "disc_close" ELSE "tell")
  /\ UNCHANGED <<sock, opens, kern, clientOp, issues, started, overlapped>>

\* closesocket() ends the operations of the socket.
CloseKernel(k) ==
  /\ kern' = [kern EXCEPT ![k] = "closed"]
  /\ clientOp' = [o \in ClientOps |->
                    IF clientOp[o].on = k /\ clientOp[o].at = "pending"
                      THEN [clientOp[o] EXCEPT !.at = "queued", !.res = "error"]
                      ELSE clientOp[o]]

\* close(): what socket_ names by now is closed.
CloseSocket(t) ==
  /\ \/ Goes(t, "stop_close", "stop_store")
     \/ Goes(t, "disc_close", "disc_store")
  /\ IF sock # 0 THEN CloseKernel(sock) ELSE UNCHANGED <<kern, clientOp>>
  /\ UNCHANGED <<sock, opens, issues, started, overlapped>>

\* socket_ = INVALID_SOCKET
StoreInvalid(t) ==
  /\ \/ Goes(t, "stop_store", "idle")
     \/ Goes(t, "disc_store", "tell")
  /\ sock' = 0
  /\ UNCHANGED <<opens, kern, clientOp, issues, started, overlapped>>

\* Mutant: a disconnect nobody hears of.
TellNobody(t) ==
  /\ Goes(t, "tell", "idle")
  /\ UNCHANGED <<sock, opens, kern, clientOp, issues, started, overlapped>>

\* disconnect_handle_()
TellDisconnect(t) ==
  /\ Goes(t, "tell", "idle")
  /\ started' = FALSE
  /\ UNCHANGED <<sock, opens, kern, clientOp, issues, overlapped>>

-----------------------------------------------------------------------------
(* Transfers *)

\* cli_handler_wrapper_t: an error, or nothing received, disconnects.
After(res) == IF res = "data" THEN "idle" ELSE "disc"

\* async_send, async_recv, async_read_some: under way, or ended at once in the
\* calling thread, or refused, which _run_impl() answers with disconnect().
Issue(t, o) ==
  /\ clientOp[o].at = "none" /\ issues < MaxIssues
  /\ issues' = issues + 1
  /\ \/ /\ Goes(t, "idle", "idle")
        /\ sock # 0 /\ kern[sock] = "connected"
        /\ clientOp' = [clientOp EXCEPT ![o] = [at |-> "pending", on |-> sock, res |-> "none"]]
     \/ /\ UNCHANGED clientOp
        /\ \E res \in {"data", "eof", "error"} :
             /\ res # "error" => sock # 0 /\ kern[sock] = "connected"
             /\ Goes(t, "idle", After(res))
  /\ UNCHANGED <<sock, opens, kern, started, overlapped>>

\* send() and recv() block; their exceptions disconnect too.
Transfer(t) ==
  /\ issues < MaxIssues /\ issues' = issues + 1
  /\ \E res \in {"data", "error"} :
       /\ res = "data" => sock # 0 /\ kern[sock] = "connected"
       /\ Goes(t, "idle", After(res))
  /\ UNCHANGED <<sock, opens, kern, clientOp, started, overlapped>>

\* The peer sends, closes or resets: an operation ends.
CompleteTransfer(o) ==
  /\ clientOp[o].at = "pending"
  /\ \E res \in {"data", "eof", "error"} :
       clientOp' = [clientOp EXCEPT ![o].at = "queued", ![o].res = res]
  /\ UNCHANGED <<sock, opens, kern, issues, where, started, overlapped>>

\* A worker runs the completion.
Handle(t, o) ==
  /\ t \in Workers /\ clientOp[o].at = "queued"
  /\ Goes(t, "idle", After(clientOp[o].res))
  /\ clientOp' = [clientOp EXCEPT ![o] = NoTransfer]
  /\ UNCHANGED <<sock, opens, kern, issues, started, overlapped>>

ClientNext ==
  \/ StartOpen \/ Connect \/ StartFails \/ (\E e \in BOOLEAN : OnConnect(e))
  \/ \E t \in Threads : \/ Stop(t) \/ CheckOpen(t) \/ CloseSocket(t) \/ StoreInvalid(t)
                        \/ TellDisconnect(t) \/ Transfer(t)
  \/ \E t \in Threads, o \in ClientOps : Issue(t, o) \/ Handle(t, o)
  \/ \E o \in ClientOps : CompleteTransfer(o)

ClientSpec == ClientInit /\ [][ClientNext]_clientVars

-----------------------------------------------------------------------------
(* Properties *)

Quiet == \A t \in Threads : where[t] = "idle"

\* A socket the client opened is the one in socket_ or is closed, however the
\* disconnect() calls of failing operations in several workers interleave with
\* each other and with stop(): none is left open with nobody to close it.  A
\* start() that overlaps a stop() loses this.
KeptOrClosed ==
  overlapped \/ \A k \in Kernels : kern[k] \in {"open", "connected"} => sock = k

\* When every call has returned, an application that was told the client is
\* started, and was not told since of a disconnect, has an open, connected
\* socket: late completions of an earlier connection may close the new one,
\* but never silently.
ToldOrOpen == overlapped \/ (Quiet /\ started => sock # 0 /\ kern[sock] = "connected")
=============================================================================
