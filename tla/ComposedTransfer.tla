-------------------------- MODULE ComposedTransfer --------------------------
(***************************************************************************)
(* service::async_read and async_write on a stream socket: the loop of     *)
(* read_handler_t and write_handler_t (service/read.hpp, write.hpp) that   *)
(* starts the next piece from the completion of the last one, until the    *)
(* transfer condition (condition.hpp) holds; and the blocking read() and   *)
(* write() that do the same in a while loop.                               *)
(*                                                                         *)
(* A piece is pending, completes at once or cannot be started.  One that   *)
(* completes at once calls the next operator() inside the try block of     *)
(* the one that started it, so the calls nest: `frames` is that stack.     *)
(* The handler is moved from object to object; an operator() whose handler *)
(* was moved on and that calls it nevertheless calls an empty one, which   *)
(* has no defined outcome: the model stops there ("hollow").               *)
(***************************************************************************)
EXTENDS Naturals, Sequences

CONSTANTS
  MaxTotal,      \* bound: size of the buffer
  MaxPiece       \* MAX_BUFFER_LEN

ASSUME TransferAssumption == MaxTotal \in Nat /\ MaxPiece \in Nat \ {0}

VARIABLES
  kind,          \* "read" or "write"
  total,         \* size of the buffer
  least,         \* what the condition returns; more than MaxTotal: transfer_all
  pc,            \* where the operation stands
  piece,         \* the piece under way: its place in the buffer, its length and
                 \* transfers_ in its callback
  frames,        \* transfers_ of the operator() calls on the stack
  size, error,   \* arguments of the innermost operator()
  wire,          \* buffer index of each byte of the stream so far
  told,          \* calls of the user's handler
  report,        \* the count it was given last
  open           \* the socket is open (blocking calls)

conf == <<kind, total, least>>
vars == <<conf, pc, piece, frames, size, error, wire, told, report, open>>

Over == {"done", "refused", "hollow", "returned", "thrown"}

\* What transfer_at_least() wants; transfer_all() wants more than any buffer has.
Wanted == 0..(MaxTotal + 1)

Fresh ==
  /\ kind \in {"read", "write"}
  /\ total \in 0..MaxTotal
  /\ least \in Wanted
  /\ piece = [at |-> 0, len |-> total, before |-> 0]
  /\ frames = <<>>
  /\ size = 0 /\ error = FALSE
  /\ wire = <<>>
  /\ told = 0 /\ report = 0
  /\ open = TRUE

\* The asynchronous call and the blocking one.
Init == Fresh /\ pc \in {"start", "loop"}

\* The next n bytes of the stream are buffer[at], buffer[at + 1], ...
Moved(at, n) ==
  wire' = [k \in 1..(Len(wire) + n) |->
             IF k <= Len(wire) THEN wire[k] ELSE at + (k - Len(wire)) - 1]

\* What a piece of len bytes can transfer.  A send transfers something.
Sizes(len) == IF kind = "read" \/ len = 0 THEN 0..len ELSE 1..len

-----------------------------------------------------------------------------
(* Asynchronous transfers                                                  *)

Transfers == frames[Len(frames)]

\* The piece cannot be completed yet: the calls on the stack all return.
PiecePends(p) ==
  /\ piece' = p
  /\ pc' = "pending"
  /\ frames' = <<>>
  /\ UNCHANGED <<conf, size, error, wire, told, report, open>>

\* The piece completes at once, in the same thread.
PieceAtOnce(p) ==
  \E n \in Sizes(p.len) :
    /\ piece' = p
    /\ Moved(p.at, n)
    /\ frames' = Append(frames, p.before + n)
    /\ size' = n /\ error' = FALSE
    /\ pc' = "handle"
    /\ UNCHANGED <<conf, told, report, open>>

\* service::async_read, async_write: the first piece is the whole buffer.
Whole == [at |-> 0, len |-> total, before |-> 0]
StartPends == pc = "start" /\ PiecePends(Whole)
StartAtOnce == pc = "start" /\ PieceAtOnce(Whole)

\* The exception goes to the caller, which still knows what it wanted to do.
StartThrows ==
  /\ pc = "start"
  /\ pc' = "refused"
  /\ UNCHANGED <<conf, piece, frames, size, error, wire, told, report, open>>

\* A worker calls operator() of the pending piece, which may have failed.
Complete ==
  /\ pc = "pending"
  /\ \E n \in 0..piece.len, e \in BOOLEAN :
       /\ e \/ n \in Sizes(piece.len)
       /\ Moved(piece.at, n)
       /\ frames' = <<piece.before + n>>
       /\ size' = n /\ error' = e
  /\ pc' = "handle"
  /\ UNCHANGED <<conf, piece, told, report, open>>

\* Mutant: the end of the stream is not noticed.
WantsMoreAtEnd == Transfers < total /\ ~error /\ Transfers < least

\* operator() goes on with the next piece ...
WantsMore == Transfers < total /\ size # 0 /\ ~error /\ Transfers < least

Left == total - Transfers

\* Mutant: the next piece starts after the length of the last one.
NextPieceBySize ==
  [at |-> size, len |-> IF Left > MaxPiece THEN MaxPiece ELSE Left, before |-> Transfers]

\* ... of at most MAX_BUFFER_LEN bytes ...
NextPiece ==
  [at |-> Transfers, len |-> IF Left > MaxPiece THEN MaxPiece ELSE Left, before |-> Transfers]

NextPends == pc = "handle" /\ WantsMore /\ PiecePends(NextPiece)
NextAtOnce == pc = "handle" /\ WantsMore /\ PieceAtOnce(NextPiece)

\* ... but if it cannot be started, the handler has been moved into the callback
\* that was destroyed, and the catch clause goes on to call what is left of it.
NextThrows ==
  /\ pc = "handle" /\ WantsMore
  /\ pc' = "hollow"
  /\ error' = TRUE
  /\ UNCHANGED <<conf, piece, frames, size, wire, told, report, open>>

\* Mutant: the count of the last piece is reported.
ReportedSize == size

\* At the end of the stream a read reports nothing, whatever came before.
Reported == IF kind = "read" /\ size = 0 THEN 0 ELSE Transfers

\* ... or it calls the handler, which returns: so do all calls on the stack.
Tell ==
  /\ pc = "handle" /\ ~WantsMore
  /\ told' = told + 1 /\ report' = Reported
  /\ pc' = "done"
  /\ frames' = <<>>
  /\ UNCHANGED <<conf, piece, size, error, wire, open>>

\* The handler throws an exception_base: the operator() that started the last
\* piece, if it is on the stack, catches it and calls the handler it gave away.
TellThrows ==
  /\ pc = "handle" /\ ~WantsMore
  /\ told' = told + 1 /\ report' = Reported
  /\ pc' = IF Len(frames) > 1 THEN "hollow" ELSE "done"
  /\ frames' = <<>>
  /\ UNCHANGED <<conf, piece, size, error, wire, open>>

-----------------------------------------------------------------------------
(* Blocking transfers                                                      *)

\* The while loop: a read asks with <=, a write with <.
Loops ==
  /\ IF kind = "read" THEN Len(wire) <= least ELSE Len(wire) < least
  /\ Len(wire) < total

\* buffer + transfers
Rest == [at |-> Len(wire), len |-> total - Len(wire)]

\* One call of s.read() or s.write(); the socket is closed if nothing came, and
\* the callback gets the count so far.
LoopMoves ==
  /\ pc = "loop" /\ Loops /\ open
  /\ \E n \in Sizes(Rest.len) :
       /\ Moved(Rest.at, n)
       /\ open' = (n # 0)
       /\ told' = told + 1 /\ report' = Len(wire) + n
  /\ UNCHANGED <<conf, pc, piece, frames, size, error>>

\* s.read() throws: on an error, and always on the socket it has closed itself.
LoopThrows ==
  /\ pc = "loop" /\ Loops
  /\ pc' = "thrown"
  /\ UNCHANGED <<conf, piece, frames, size, error, wire, told, report, open>>

LoopReturns ==
  /\ pc = "loop" /\ ~Loops
  /\ pc' = "returned"
  /\ report' = Len(wire)
  /\ UNCHANGED <<conf, piece, frames, size, error, wire, told, open>>

Next ==
  \/ StartPends \/ StartAtOnce \/ StartThrows
  \/ Complete
  \/ NextPends \/ NextAtOnce \/ NextThrows
  \/ Tell \/ TellThrows
  \/ LoopMoves \/ LoopThrows \/ LoopReturns

Spec == Init /\ [][Next]_vars

\* Threads run and the kernel completes what it has accepted.
FairSpec == Spec /\ WF_vars(Next)

-----------------------------------------------------------------------------
(* Properties                                                              *)

Pieces == [at : 0..MaxTotal, len : 0..MaxTotal, before : 0..MaxTotal]

\* The value domains of the variables.
TypeOK ==
  /\ kind \in {"read", "write"}
  /\ total \in 0..MaxTotal
  /\ least \in 0..(MaxTotal + 1)
  /\ pc \in {"start", "loop", "pending", "handle"} \cup Over
  /\ piece \in Pieces
  /\ frames \in Seq(0..MaxTotal)
  /\ size \in 0..MaxTotal /\ error \in BOOLEAN
  /\ wire \in Seq(0..MaxTotal)
  /\ told \in Nat
  /\ report \in 0..MaxTotal
  /\ open \in BOOLEAN

\* The kernel is never given memory outside the buffer: the unsigned
\* total_ - transfers_ does not wrap and the clipped piece fits in what is left.
\* However the stream is cut into pieces and wherever they complete, its k-th
\* byte is the k-th of the buffer: none is skipped, repeated or overwritten.
InBounds == piece.at + piece.len <= total
InOrder == \A k \in 1..Len(wire) : wire[k] = k - 1
InPlace == InBounds /\ InOrder

\* The handler of an asynchronous transfer is called once, with the number of
\* bytes transferred, or with 0 by a read that found the end of the stream.
ToldOnce ==
  pc \notin {"loop", "returned", "thrown"} =>
    /\ told <= 1
    /\ pc = "done" => told = 1
    /\ told = 1 => report = Len(wire) \/ (kind = "read" /\ size = 0 /\ report = 0)

\* Success with a count means that the condition holds or the buffer is full; a
\* blocking call returns only then (at the end of the stream it throws).
Enough == Len(wire) >= total \/ Len(wire) >= least
Satisfied ==
  /\ pc = "done" /\ ~error /\ report > 0 => Enough
  /\ pc = "returned" => Enough

\* The handler of read_handler_t or write_handler_t, or the blocking caller, is
\* told once, rightly, and of success only when the condition is met.
Outcome == ToldOnce /\ Satisfied

\* Every transfer ends.
Ends == <>(pc \in Over)

\* A follow-up piece that cannot be started is reported to the handler.
FailureReported == pc = "hollow" => told = 1
=============================================================================
