---------------------------- MODULE AsyncIoProofs ----------------------------
(***************************************************************************)
(* Proofs about the asynchronous operations: composed transfers for every  *)
(* buffer size and every limit on the length of a piece; handles and       *)
(* overlapped operations for any sockets, files, handle values and         *)
(* operations; the client for any number of workers, operations and        *)
(* connections; the directory monitor for any number of changes and        *)
(* requests and any length of the system's buffer.                         *)
(***************************************************************************)
EXTENDS ComposedTransfer, OverlappedIo, Client, FileMonitor, SequenceTheorems,
        FiniteSetTheorems, TLAPS

-----------------------------------------------------------------------------
(* Composed transfers                                                      *)

\* What the next operator() will be given: the count so far is the place in the
\* buffer, and only an empty buffer has an empty piece.
PieceReady(p) ==
  /\ p \in Pieces
  /\ p.at = Len(wire) /\ p.before = Len(wire)
  /\ p.at + p.len <= total
  /\ p.len = 0 => total = 0

\* Every position of an asynchronous transfer that is under way.
TransferStartInv == pc = "start" => wire = <<>>
PendingInv == pc = "pending" => PieceReady(piece)
TransferHandleInv ==
  pc = "handle" =>
    /\ frames # <<>>
    /\ Transfers = Len(wire)
    /\ kind = "write" /\ size = 0 /\ ~error => Len(wire) = total
LengthInv == Len(wire) <= total
UntoldInv == pc \in {"start", "pending", "handle"} => told = 0

TransferIndInv ==
  /\ TypeOK /\ InBounds /\ InOrder /\ ToldOnce /\ Satisfied
  /\ TransferStartInv /\ PendingInv /\ TransferHandleInv /\ LengthInv /\ UntoldInv

\* A transfer that continues at the end of the stream keeps the order of the bytes.
LEMMA MovedInOrder ==
  ASSUME TypeOK, InOrder,
         NEW n \in Nat, Len(wire) + n <= total, Moved(Len(wire), n), total' = total
  PROVE  /\ wire' \in Seq(0..MaxTotal)
         /\ Len(wire') = Len(wire) + n
         /\ Len(wire') <= total'
         /\ InOrder'
<1> DEFINE L == Len(wire) + n
<1> DEFINE w == [k \in 1..L |-> IF k <= Len(wire) THEN wire[k] ELSE Len(wire) + (k - Len(wire)) - 1]
<1>1. Len(wire) \in Nat /\ L \in Nat /\ L <= total /\ total \in Nat /\ total <= MaxTotal /\ MaxTotal \in Nat
  BY TransferAssumption DEF TypeOK
<1>2. wire' = w
  BY DEF Moved
<1>3. \A k \in 1..L : w[k] = k - 1
  <2> SUFFICES ASSUME NEW k \in 1..L PROVE w[k] = k - 1
    OBVIOUS
  <2>1. CASE k <= Len(wire)
    BY <2>1, <1>1 DEF InOrder
  <2>2. CASE ~(k <= Len(wire))
    BY <2>2, <1>1
  <2> QED  BY <2>1, <2>2
<1>4. \A k \in 1..L : w[k] \in 0..MaxTotal
  BY <1>1, <1>3
<1>5. w \in [1..L -> 0..MaxTotal]
  BY <1>4
<1> HIDE DEF w
<1>6. w \in Seq(0..MaxTotal) /\ Len(w) = L
  BY <1>1, <1>5
<1> QED  BY <1>1, <1>2, <1>3, <1>6 DEF InOrder

\* The whole buffer, and the piece operator() goes on with, are ready to be given
\* to the kernel.
LEMMA WholeReady == TransferIndInv /\ pc = "start" => PieceReady(Whole)
BY TransferAssumption DEF TransferIndInv, TypeOK, TransferStartInv, PieceReady, Whole, Pieces

LEMMA NextReady == TransferIndInv /\ pc = "handle" /\ WantsMore => PieceReady(NextPiece)
<1> SUFFICES ASSUME TransferIndInv, pc = "handle", WantsMore PROVE PieceReady(NextPiece)
  OBVIOUS
<1>1. Transfers = Len(wire) /\ Transfers < total /\ Transfers \in Nat
  BY DEF TransferIndInv, TransferHandleInv, WantsMore, TypeOK
<1>2. total \in Nat /\ total <= MaxTotal /\ MaxTotal \in Nat /\ MaxPiece \in Nat \ {0}
  BY TransferAssumption DEF TransferIndInv, TypeOK
<1> DEFINE l == IF Left > MaxPiece THEN MaxPiece ELSE Left
<1>3. l \in Nat /\ l # 0 /\ Transfers + l <= total
  BY <1>1, <1>2 DEF Left
<1>4. NextPiece = [at |-> Transfers, len |-> l, before |-> Transfers]
  BY DEF NextPiece
<1> HIDE DEF l
<1> QED  BY <1>1, <1>2, <1>3, <1>4 DEF PieceReady, Pieces

LEMMA SizesInPiece == ASSUME NEW l \in Nat, NEW n \in Sizes(l) PROVE n \in Nat /\ n <= l /\ (kind = "write" /\ n = 0 => l = 0)
BY DEF Sizes

\* A piece that is ready may pend ...
LEMMA PendsKeeps ==
  ASSUME TransferIndInv, NEW p, PieceReady(p), pc \in {"start", "handle"}, PiecePends(p)
  PROVE  TransferIndInv'
<1>1. TypeOK'
  BY DEF TransferIndInv, TypeOK, PiecePends, PieceReady, conf
<1>2. InBounds' /\ InOrder' /\ LengthInv'
  BY DEF TransferIndInv, InBounds, InOrder, LengthInv, PiecePends, PieceReady, conf
<1>3. ToldOnce' /\ Satisfied' /\ UntoldInv'
  BY DEF TransferIndInv, UntoldInv, ToldOnce, Satisfied, Enough, PiecePends, conf, TypeOK
<1>4. TransferStartInv' /\ PendingInv' /\ TransferHandleInv'
  BY DEF TransferStartInv, PendingInv, TransferHandleInv, PieceReady, PiecePends, conf
<1> QED  BY <1>1, <1>2, <1>3, <1>4 DEF TransferIndInv

\* ... or complete at once.
LEMMA AtOnceKeeps ==
  ASSUME TransferIndInv, NEW p, PieceReady(p), pc \in {"start", "handle"}, PieceAtOnce(p)
  PROVE  TransferIndInv'
<1>1. p.len \in Nat /\ p.before \in Nat /\ p.at = Len(wire) /\ p.before = Len(wire)
      /\ Len(wire) + p.len <= total /\ total \in Nat /\ total <= MaxTotal /\ MaxTotal \in Nat
  BY TransferAssumption DEF PieceReady, Pieces, TransferIndInv, TypeOK
<1>2. PICK n \in Sizes(p.len) :
        /\ piece' = p
        /\ Moved(p.at, n)
        /\ frames' = Append(frames, p.before + n)
        /\ size' = n /\ error' = FALSE
        /\ pc' = "handle"
        /\ UNCHANGED <<conf, told, report, open>>
  BY DEF PieceAtOnce
<1>3. n \in Nat /\ n <= p.len /\ (kind = "write" /\ n = 0 => p.len = 0)
  BY <1>1, SizesInPiece
<1>4. wire' \in Seq(0..MaxTotal) /\ Len(wire') = Len(wire) + n /\ Len(wire') <= total' /\ InOrder'
  BY <1>1, <1>2, <1>3, MovedInOrder DEF TransferIndInv, conf
<1>5. frames' \in Seq(0..MaxTotal) /\ frames' # <<>> /\ frames'[Len(frames')] = Len(wire) + n
  <2>1. frames \in Seq(0..MaxTotal) /\ p.before + n \in 0..MaxTotal
    BY <1>1, <1>3 DEF TransferIndInv, TypeOK
  <2>2. Append(frames, p.before + n)[Len(frames) + 1] = p.before + n
        /\ Append(frames, p.before + n) \in Seq(0..MaxTotal)
        /\ Len(Append(frames, p.before + n)) = Len(frames) + 1
    BY <2>1, AppendProperties
  <2>3. frames' = Append(frames, p.before + n) /\ p.before = Len(wire)
    BY <1>1, <1>2
  <2>4. Len(frames') = Len(frames) + 1 /\ frames'[Len(frames) + 1] = Len(wire) + n
        /\ frames' \in Seq(0..MaxTotal)
    BY <2>2, <2>3
  <2>5. Len(frames) \in Nat
    BY <2>1
  <2> QED  BY <2>4, <2>5
<1>6. TypeOK'
  <2>1. size' \in 0..MaxTotal
    BY <1>1, <1>2, <1>3
  <2>2. piece' \in Pieces /\ pc' = "handle" /\ error' \in BOOLEAN
    BY <1>2 DEF PieceReady
  <2>3. UNCHANGED <<kind, total, least, told, report, open>>
    BY <1>2 DEF conf
  <2> QED  BY <1>4, <1>5, <2>1, <2>2, <2>3 DEF TransferIndInv, TypeOK
<1>7. InBounds'
  BY <1>2 DEF InBounds, PieceReady, conf
<1>8. ToldOnce' /\ Satisfied' /\ UntoldInv' /\ TransferStartInv' /\ PendingInv'
  BY <1>2 DEF TransferIndInv, UntoldInv, ToldOnce, Satisfied, Enough, TransferStartInv, PendingInv, conf, TypeOK
<1>9. TransferHandleInv'
  BY <1>1, <1>2, <1>3, <1>4, <1>5 DEF TransferHandleInv, Transfers, PieceReady, conf
<1> QED  BY <1>4, <1>6, <1>7, <1>8, <1>9 DEF TransferIndInv, LengthInv

\* A pending piece completes: operator() is called with what arrived.
LEMMA CompleteKeeps == TransferIndInv /\ Complete => TransferIndInv'
<1> SUFFICES ASSUME TransferIndInv, Complete PROVE TransferIndInv'
  OBVIOUS
<1>1. PieceReady(piece) /\ pc = "pending"
  BY DEF TransferIndInv, PendingInv, Complete
<1>2. piece.len \in Nat /\ piece.at = Len(wire) /\ piece.before = Len(wire)
      /\ Len(wire) \in Nat /\ Len(wire) + piece.len <= total
      /\ total \in Nat /\ total <= MaxTotal /\ MaxTotal \in Nat
  BY <1>1, TransferAssumption DEF PieceReady, Pieces, TransferIndInv, TypeOK
<1>3. PICK n \in 0..piece.len, e \in BOOLEAN :
        /\ e \/ n \in Sizes(piece.len)
        /\ Moved(piece.at, n)
        /\ frames' = <<piece.before + n>>
        /\ size' = n /\ error' = e
  BY DEF Complete
<1>4. pc' = "handle" /\ UNCHANGED <<kind, total, least, piece, told, report, open>>
  BY DEF Complete, conf
<1>5. n \in Nat /\ n <= piece.len /\ Len(wire) + n \in 0..MaxTotal
  BY <1>2
<1>6. wire' \in Seq(0..MaxTotal) /\ Len(wire') = Len(wire) + n /\ Len(wire') <= total' /\ InOrder'
  BY <1>2, <1>3, <1>4, <1>5, MovedInOrder DEF TransferIndInv
<1>7. frames' \in Seq(0..MaxTotal) /\ frames' # <<>> /\ frames'[Len(frames')] = Len(wire) + n
  BY <1>2, <1>3, <1>5
<1>8. TypeOK'
  <2>1. size' \in 0..MaxTotal
    BY <1>2, <1>3, <1>5
  <2>2. error' \in BOOLEAN
    BY <1>3
  <2> QED  BY <1>4, <1>6, <1>7, <2>1, <2>2 DEF TransferIndInv, TypeOK
<1>9. InBounds' /\ ToldOnce' /\ Satisfied' /\ UntoldInv' /\ TransferStartInv' /\ PendingInv'
  BY <1>1, <1>4 DEF TransferIndInv, InBounds, UntoldInv, ToldOnce, Satisfied, Enough, TransferStartInv, PendingInv, TypeOK
<1>10. TransferHandleInv'
  <2>1. ASSUME kind' = "write", size' = 0, ~error' PROVE Len(wire') = total'
    <3>1. n \in Sizes(piece.len) /\ n = 0 /\ kind = "write"
      BY <1>3, <1>4, <2>1
    <3>2. piece.len = 0
      BY <1>2, <3>1, SizesInPiece
    <3> QED  BY <1>1, <1>2, <1>4, <1>6, <3>1, <3>2 DEF PieceReady
  <2> QED  BY <1>6, <1>7, <2>1 DEF TransferHandleInv, Transfers
<1> QED  BY <1>6, <1>8, <1>9, <1>10 DEF TransferIndInv, LengthInv

\* The handler is called with the count, for the first time.
LEMMA TellKeeps == TransferIndInv /\ (Tell \/ TellThrows) => TransferIndInv'
<1> SUFFICES ASSUME TransferIndInv, Tell \/ TellThrows PROVE TransferIndInv'
  OBVIOUS
<1>1. /\ pc = "handle" /\ ~WantsMore
      /\ told' = told + 1 /\ report' = Reported
      /\ pc' \in {"done", "hollow"} /\ frames' = <<>>
      /\ UNCHANGED <<kind, total, least, piece, size, error, wire, open>>
  BY DEF Tell, TellThrows, conf
<1>2. told = 0 /\ Transfers = Len(wire) /\ Len(wire) <= total /\ Len(wire) \in Nat
      /\ total \in 0..MaxTotal /\ MaxTotal \in Nat /\ least \in Nat
  BY <1>1, TransferAssumption DEF TransferIndInv, UntoldInv, TransferHandleInv, LengthInv, TypeOK
<1>3. told' = 1 /\ report' \in 0..MaxTotal
      /\ (report' = Len(wire) \/ (kind = "read" /\ size = 0 /\ report' = 0))
  BY <1>1, <1>2 DEF Reported
<1>4. TypeOK'
  BY <1>1, <1>3 DEF TransferIndInv, TypeOK, Over
<1>5. InBounds' /\ InOrder' /\ LengthInv'
  BY <1>1 DEF TransferIndInv, InBounds, InOrder, LengthInv
<1>6. ToldOnce'
  BY <1>1, <1>3 DEF ToldOnce
<1>7. ASSUME ~error, report' > 0 PROVE Enough
  <2>1. CASE size = 0
    <3>1. kind = "write"
      BY <1>1, <1>2, <1>7, <2>1 DEF Reported, TransferIndInv, TypeOK
    <3> QED  BY <1>1, <1>2, <1>7, <2>1, <3>1 DEF TransferIndInv, TransferHandleInv, Enough
  <2>2. CASE size # 0
    BY <1>1, <1>2, <1>7, <2>2 DEF WantsMore, Enough
  <2> QED  BY <2>1, <2>2
<1>8. Satisfied'
  BY <1>1, <1>7 DEF Satisfied, Enough
<1>9. TransferStartInv' /\ PendingInv' /\ TransferHandleInv' /\ UntoldInv'
  BY <1>1 DEF TransferStartInv, PendingInv, TransferHandleInv, UntoldInv
<1> QED  BY <1>4, <1>5, <1>6, <1>8, <1>9 DEF TransferIndInv

\* The steps that transfer nothing and end the transfer.
LEMMA EndKeeps == TransferIndInv /\ (StartThrows \/ NextThrows \/ LoopThrows \/ LoopReturns) => TransferIndInv'
<1> SUFFICES ASSUME TransferIndInv, StartThrows \/ NextThrows \/ LoopThrows \/ LoopReturns PROVE TransferIndInv'
  OBVIOUS
<1>1. /\ UNCHANGED <<kind, total, least, piece, frames, size, wire, told, open>>
      /\ error' = error \/ error' = TRUE
      /\ report' = report \/ report' = Len(wire)
  BY DEF StartThrows, NextThrows, LoopThrows, LoopReturns, conf
<1>2. pc' \in {"refused", "hollow", "thrown", "returned"}
  BY DEF StartThrows, NextThrows, LoopThrows, LoopReturns
<1>3. TypeOK'
  <2>1. report' \in 0..MaxTotal
    BY <1>1, TransferAssumption DEF TransferIndInv, TypeOK, LengthInv
  <2>2. error' \in BOOLEAN
    BY <1>1 DEF TransferIndInv, TypeOK
  <2> QED  BY <1>1, <1>2, <2>1, <2>2 DEF TransferIndInv, TypeOK, Over
<1>4. InBounds' /\ InOrder' /\ LengthInv'
  BY <1>1 DEF TransferIndInv, InBounds, InOrder, LengthInv
<1>5. ToldOnce'
  <2>1. CASE StartThrows \/ NextThrows
    BY <1>1, <1>2, <2>1 DEF TransferIndInv, UntoldInv, ToldOnce, StartThrows, NextThrows
  <2>2. CASE LoopThrows \/ LoopReturns
    BY <2>2 DEF ToldOnce, LoopThrows, LoopReturns
  <2> QED  BY <2>1, <2>2
<1>6. Satisfied'
  <2>1. CASE LoopReturns
    <3>1. ~Loops /\ total' = total /\ least' = least /\ wire' = wire /\ pc' = "returned"
      BY <2>1, <1>1 DEF LoopReturns
    <3>2. Len(wire) \in Nat /\ total \in Nat /\ least \in Nat
      BY TransferAssumption DEF TransferIndInv, TypeOK
    <3>3. Enough
      BY <3>1, <3>2 DEF Loops, Enough
    <3> QED  BY <3>1, <3>3 DEF Satisfied, Enough
  <2>2. CASE StartThrows \/ NextThrows \/ LoopThrows
    BY <2>2 DEF Satisfied, StartThrows, NextThrows, LoopThrows
  <2> QED  BY <2>1, <2>2
<1>7. TransferStartInv' /\ PendingInv' /\ TransferHandleInv' /\ UntoldInv'
  BY <1>2 DEF TransferStartInv, PendingInv, TransferHandleInv, UntoldInv
<1> QED  BY <1>3, <1>4, <1>5, <1>6, <1>7 DEF TransferIndInv

\* One turn of the blocking loop.
LEMMA LoopKeeps == TransferIndInv /\ LoopMoves => TransferIndInv'
<1> SUFFICES ASSUME TransferIndInv, LoopMoves PROVE TransferIndInv'
  OBVIOUS
<1>1. Len(wire) \in Nat /\ total \in Nat /\ total <= MaxTotal /\ Len(wire) <= total /\ MaxTotal \in Nat
  BY TransferAssumption DEF TransferIndInv, TypeOK, LengthInv
<1>2. PICK n \in Sizes(total - Len(wire)) :
        /\ Moved(Len(wire), n)
        /\ open' = (n # 0)
        /\ told' = told + 1 /\ report' = Len(wire) + n
  BY DEF LoopMoves, Rest
<1>3. pc = "loop" /\ pc' = "loop" /\ UNCHANGED <<kind, total, least, piece, frames, size, error>>
  BY DEF LoopMoves, conf
<1>4. n \in Nat /\ Len(wire) + n <= total
  <2>1. total - Len(wire) \in Nat
    BY <1>1
  <2>2. n \in Nat /\ n <= total - Len(wire)
    BY <2>1, SizesInPiece
  <2> QED  BY <1>1, <2>2
<1>5. wire' \in Seq(0..MaxTotal) /\ Len(wire') = Len(wire) + n /\ Len(wire') <= total' /\ InOrder'
  BY <1>2, <1>3, <1>4, MovedInOrder DEF TransferIndInv
<1>6. TypeOK'
  <2>1. report' \in 0..MaxTotal /\ told' \in Nat
    BY <1>1, <1>2, <1>4 DEF TransferIndInv, TypeOK
  <2>2. open' \in BOOLEAN
    BY <1>2
  <2> QED  BY <1>3, <1>5, <2>1, <2>2 DEF TransferIndInv, TypeOK
<1>7. InBounds' /\ ToldOnce' /\ Satisfied' /\ TransferStartInv' /\ PendingInv' /\ TransferHandleInv' /\ UntoldInv'
  BY <1>3 DEF TransferIndInv, InBounds, ToldOnce, Satisfied, TransferStartInv, PendingInv, TransferHandleInv, UntoldInv
<1> QED  BY <1>5, <1>6, <1>7 DEF TransferIndInv, LengthInv

\* The inductive invariant of a transfer: at every position of the operation the
\* count it carries is the number of bytes moved, and nobody has been told yet.
THEOREM TransferInvariance == Spec => []TransferIndInv
<1>1. Init => TransferIndInv
  <2> SUFFICES ASSUME Init PROVE TransferIndInv
    OBVIOUS
  <2>1. TypeOK
    <3>1. piece \in Pieces
      BY TransferAssumption DEF Init, Fresh, Pieces
    <3>2. frames \in Seq(0..MaxTotal) /\ wire \in Seq(0..MaxTotal)
      BY DEF Init, Fresh
    <3>3. size \in 0..MaxTotal /\ report \in 0..MaxTotal /\ told \in Nat
      BY TransferAssumption DEF Init, Fresh
    <3>4. error \in BOOLEAN /\ open \in BOOLEAN /\ pc \in {"start", "loop"}
      BY DEF Init, Fresh
    <3> QED  BY <3>1, <3>2, <3>3, <3>4 DEF Init, Fresh, Wanted, TypeOK
  <2>2. InBounds /\ InOrder /\ ToldOnce /\ Satisfied
    BY TransferAssumption DEF Init, Fresh, Wanted, InBounds, InOrder, ToldOnce, Satisfied
  <2>3. TransferStartInv /\ PendingInv /\ TransferHandleInv /\ LengthInv /\ UntoldInv
    BY TransferAssumption DEF Init, Fresh, Wanted, TransferStartInv, PendingInv, TransferHandleInv, LengthInv, UntoldInv
  <2> QED  BY <2>1, <2>2, <2>3 DEF TransferIndInv
<1>2. TransferIndInv /\ [Next]_vars => TransferIndInv'
  <2> SUFFICES ASSUME TransferIndInv, [Next]_vars PROVE TransferIndInv'
    OBVIOUS
  <2>1. CASE StartPends
    BY <2>1, WholeReady, PendsKeeps DEF StartPends
  <2>2. CASE StartAtOnce
    BY <2>2, WholeReady, AtOnceKeeps DEF StartAtOnce
  <2>3. CASE Complete
    BY <2>3, CompleteKeeps
  <2>4. CASE NextPends
    BY <2>4, NextReady, PendsKeeps DEF NextPends
  <2>5. CASE NextAtOnce
    BY <2>5, NextReady, AtOnceKeeps DEF NextAtOnce
  <2>6. CASE Tell \/ TellThrows
    BY <2>6, TellKeeps
  <2>7. CASE StartThrows \/ NextThrows \/ LoopThrows \/ LoopReturns
    BY <2>7, EndKeeps
  <2>8. CASE LoopMoves
    BY <2>8, LoopKeeps
  <2>9. CASE UNCHANGED vars
    BY <2>9 DEF TransferIndInv, TypeOK, InBounds, InOrder, ToldOnce, Satisfied, Enough, TransferStartInv, PendingInv,
       TransferHandleInv, LengthInv, UntoldInv, PieceReady, Transfers, vars, conf
  <2> QED
    BY <2>1, <2>2, <2>3, <2>4, <2>5, <2>6, <2>7, <2>8, <2>9 DEF Next
<1> QED  BY <1>1, <1>2, PTL DEF Spec

\* Every reachable state is well typed.
THEOREM TransferTypeCorrect == Spec => []TypeOK
<1>1. TransferIndInv => TypeOK
  BY DEF TransferIndInv
<1> QED  BY <1>1, TransferInvariance, PTL

\* No piece leaves the buffer, whatever its size and MAX_BUFFER_LEN are, and the
\* stream and the buffer hold the same bytes in the same order.
THEOREM BytesInPlace == Spec => []InPlace
<1>1. TransferIndInv => InPlace
  BY DEF TransferIndInv, InPlace
<1> QED  BY <1>1, TransferInvariance, PTL

\* The handler is called at most once and with the right count, on the pending, the
\* immediate and the failing paths.
THEOREM HandlerToldOnce == Spec => []ToldOnce
<1>1. TransferIndInv => ToldOnce
  BY DEF TransferIndInv
<1> QED  BY <1>1, TransferInvariance, PTL

\* A transfer that succeeds has transferred what its condition asks for.
THEOREM ConditionSatisfied == Spec => []Satisfied
<1>1. TransferIndInv => Satisfied
  BY DEF TransferIndInv
<1> QED  BY <1>1, TransferInvariance, PTL

\* The handler, or the blocking caller, is told once, rightly, and of success only
\* when the condition is met.
THEOREM OutcomeTold == Spec => []Outcome
BY HandlerToldOnce, ConditionSatisfied, PTL DEF Outcome

-----------------------------------------------------------------------------
(* Handles and overlapped operations                                       *)

USE HandlesAssumption

OpRecord ==
  [at : {"none", "issued", "settled"}, class : {"none", "inline", "posted", "file"},
   kern : 0..MaxKernel, result : {"none", "failed", "pending", "done", "ended"}]

\* The value domains.
HandlesTypeOK ==
  /\ life \in [Objects -> {"none", "live", "gone"}]
  /\ handle \in [Objects -> Values \cup {Invalid}]
  /\ closing \in [Objects -> Nat] /\ crossed \in BOOLEAN
  /\ table \in [Values -> 0..MaxKernel]
  /\ created \in 0..MaxKernel
  /\ mode \in [Kernel -> {"unbound", "port", "skip"}]
  /\ mine \in [Objects -> 0..MaxKernel]
  /\ copied \in BOOLEAN
  /\ op \in [Ops -> OpRecord]
  /\ called \in [Ops -> Nat]
  /\ frees \in [Ops -> Nat]

\* Handles come from open(), and a value names one kernel object that was made.
NoneYet == \A x \in Objects : life[x] = "none" => handle[x] = Invalid /\ closing[x] = 0
TableMade == \A v \in Values : table[v] <= created
TableOnce == \A v, w \in Values : table[v] = table[w] /\ table[v] # Nothing => v = w

\* An open file, or an open socket while no socket object was copied, names the
\* kernel object it made, and no other such object has its handle, unless it is
\* being closed or calls overlapped a close().
Sole(x) == Live(x) /\ IsOpen(x) /\ closing[x] = 0 /\ ~crossed /\ (x \in Files \/ ~copied)
SoleNames ==
  \A x \in Objects : Sole(x) =>
    Named(x) = mine[x] /\ mine[x] # Nothing /\ (x \in Sockets <=> mine[x] \in sockets)
SoleHandle == \A x, y \in Objects : Sole(x) /\ Sole(y) /\ handle[x] = handle[y] => x = y

\* A bound socket skips completions unless its open() threw; a file never does.
ModeInv ==
  \A k \in 1..created :
    /\ k \in sockets /\ mode[k] = "port" => k \in halfOpen
    /\ k \notin sockets => mode[k] # "skip"

SocketsMade == \A k \in sockets : k \in 1..created

\* A value that names a kernel object is held by an object that is not about to
\* forget it.
Holds(x, v) == Live(x) /\ Usable(x) /\ handle[x] = v /\ closing[x] = 0
Held ==
  \A v \in Values :
    table[v] # Nothing /\ table[v] \notin dropped /\ ~crossed => \E x \in Objects : Holds(x, v)

HandleInv ==
  /\ NoneYet /\ TableMade /\ TableOnce /\ SoleNames /\ SoleHandle
  /\ ModeInv /\ SocketsMade /\ Held

\* Where the callback of an operation is, by how the call ended.
OpKern(o) ==
  op[o].result \in {"pending", "done", "ended"} =>
    /\ op[o].kern \in 1..created
    /\ op[o].class \in {"inline", "posted"} => op[o].kern \in sockets
    /\ op[o].class # "none"
OpFresh(o) ==
  /\ op[o].at = "none" <=> op[o].result = "none"
  /\ op[o].result \in {"none", "failed", "pending"} => o \notin port /\ called[o] = 0
  /\ op[o].result \in {"none", "pending"} => frees[o] = 0
  /\ op[o].result = "failed" /\ op[o].at = "issued" => frees[o] = 0
OpEnded(o) ==
  op[o].result = "ended" =>
    IF o \in port THEN frees[o] = 0
                  ELSE mode[op[o].kern] # "unbound" => called[o] > 0
OpDone(o) ==
  op[o].result = "done" =>
    /\ mode[op[o].kern] = "port" => o \in port \/ called[o] > 0
    /\ mode[op[o].kern] # "port" => o \notin port
    /\ mode[op[o].kern] # "port" /\ op[o].at = "issued" => frees[o] = 0
    /\ o \in port /\ op[o].class # "inline" => frees[o] = 0
    /\ op[o].at = "settled" /\ op[o].class = "inline" => called[o] > 0

OpInv == \A o \in Ops : OpKern(o) /\ OpFresh(o) /\ OpEnded(o) /\ OpDone(o)

PortOps == \A o \in port : o \in Ops

HandlesInv == HandlesTypeOK /\ HandleInv /\ OpInv /\ PortOps

-----------------------------------------------------------------------------
(* The invariant implies the properties                                    *)

\* What the callbacks' invariant says of a callback that is still needed.
LEMMA InvSafe ==
  ASSUME HandlesInv
  PROVE  NoUseAfterDelete /\ LostNeedsAtOnce /\ HandlesSound
<1>1. NoUseAfterDelete
  <2> SUFFICES ASSUME NEW o \in Ops, frees[o] > 0,
                      \/ o \in port
                      \/ /\ op[o].at = "issued" /\ op[o].result \in {"failed", "done"}
                         /\ op[o].class = "inline"
               PROVE  op[o].kern \in halfOpen
    BY DEF NoUseAfterDelete
  <2>1. op[o] \in OpRecord
    BY DEF HandlesInv, HandlesTypeOK
  <2>2. OpKern(o) /\ OpFresh(o) /\ OpEnded(o) /\ OpDone(o)
    BY DEF HandlesInv, OpInv
  <2>3. op[o].result = "done" /\ op[o].class = "inline" /\ mode[op[o].kern] = "port"
    BY <2>1, <2>2 DEF OpRecord, OpFresh, OpEnded, OpDone
  <2> QED
    BY <2>2, <2>3 DEF OpKern, HandlesInv, HandleInv, ModeInv
<1>2. LostNeedsAtOnce
  <2> SUFFICES ASSUME NEW o \in Ops, op[o].at = "settled", op[o].result # "pending",
                      o \notin port, called[o] = 0
               PROVE  \/ op[o].result = "failed"
                      \/ /\ op[o].class # "inline" /\ op[o].result = "done"
                         /\ SkipsSuccess(o) /\ op[o].kern \in sockets
                      \/ mode[op[o].kern] = "unbound"
    BY DEF LostNeedsAtOnce
  <2>1. op[o] \in OpRecord
    BY DEF HandlesInv, HandlesTypeOK
  <2>2. OpKern(o) /\ OpFresh(o) /\ OpEnded(o) /\ OpDone(o)
    BY DEF HandlesInv, OpInv
  <2>3. CASE op[o].result = "done"
    <3>1. op[o].class # "inline" /\ mode[op[o].kern] # "port" /\ op[o].kern \in 1..created
      BY <2>2, <2>3 DEF OpDone, OpKern
    <3>2. mode[op[o].kern] \in {"unbound", "port", "skip"}
      BY <3>1 DEF HandlesInv, HandlesTypeOK, Kernel
    <3>3. op[o].kern \notin sockets => mode[op[o].kern] # "skip"
      BY <3>1 DEF HandlesInv, HandleInv, ModeInv
    <3> QED
      BY <2>1, <2>2, <2>3, <3>1, <3>2, <3>3 DEF OpRecord, OpKern, SkipsSuccess, Nothing
  <2>4. CASE op[o].result # "done"
    BY <2>1, <2>2, <2>4 DEF OpRecord, OpFresh, OpEnded
  <2> QED
    BY <2>3, <2>4
<1>3. HandlesSound
  <2>1. StaleNeedsCopy
    BY DEF HandlesInv, HandleInv, SoleNames, Sole, StaleNeedsCopy, Objects, HandlesTypeOK
  <2>2. LeakNeedsOverwrite
    BY DEF HandlesInv, HandleInv, Held, Holds, LeakNeedsOverwrite
  <2> QED
    BY <2>1, <2>2 DEF HandlesSound
<1> QED
  BY <1>1, <1>2, <1>3

-----------------------------------------------------------------------------
(* Operations                                                              *)

opVars == <<op, port, called, frees>>

\* Kernel objects that exist keep what they are.
KernelsKept ==
  /\ created' \in 0..MaxKernel /\ created <= created'
  /\ \A k \in 1..created : mode'[k] = mode[k] /\ (k \in sockets' <=> k \in sockets)

\* Steps on objects leave the operations alone.
LEMMA OpsKept ==
  ASSUME HandlesInv, UNCHANGED opVars, KernelsKept
  PROVE  OpInv' /\ PortOps'
<1>1. ASSUME NEW o \in Ops PROVE (OpKern(o) /\ OpFresh(o) /\ OpEnded(o) /\ OpDone(o))'
  <2>1. OpKern(o) /\ OpFresh(o) /\ OpEnded(o) /\ OpDone(o)
    BY DEF HandlesInv, OpInv
  <2>2. created \in Nat /\ created' \in Nat /\ op'[o] = op[o] /\ called'[o] = called[o]
        /\ frees'[o] = frees[o] /\ port' = port
    BY DEF KernelsKept, HandlesInv, HandlesTypeOK, opVars
  <2>3. OpKern(o)'
    BY <2>1, <2>2 DEF OpKern, KernelsKept
  <2>4. OpFresh(o)'
    BY <2>1, <2>2 DEF OpFresh
  <2>5. op[o].result \in {"done", "ended"} => mode'[op[o].kern] = mode[op[o].kern]
    BY <2>1 DEF OpKern, KernelsKept
  <2>6. OpEnded(o)' /\ OpDone(o)'
    BY <2>1, <2>2, <2>5 DEF OpEnded, OpDone
  <2> QED
    BY <2>3, <2>4, <2>6
<1> QED
  BY <1>1 DEF OpInv, PortOps, HandlesInv, opVars

\* The system ends operations that were under way.
LEMMA EndedInv ==
  ASSUME HandlesInv, NEW S \in SUBSET Ops, Ended(S),
         \A o \in S : op[o].result = "pending",
         UNCHANGED <<created, sockets, mode, called, frees>>
  PROVE  OpInv' /\ PortOps' /\ op' \in [Ops -> OpRecord]
<1>1. ASSUME NEW o \in Ops
      PROVE  /\ op'[o] \in OpRecord
             /\ op'[o].at = op[o].at /\ op'[o].class = op[o].class /\ op'[o].kern = op[o].kern
             /\ op'[o].result = IF o \in S THEN "ended" ELSE op[o].result
             /\ o \in port' <=> o \in port \/ (o \in S /\ mode[op[o].kern] # "unbound")
  <2>1. op[o] \in OpRecord
    BY DEF HandlesInv, HandlesTypeOK
  <2> QED
    BY <2>1 DEF Ended, OpRecord
<1>2. ASSUME NEW o \in Ops PROVE (OpKern(o) /\ OpFresh(o) /\ OpEnded(o) /\ OpDone(o))'
  <2>1. OpKern(o) /\ OpFresh(o) /\ OpEnded(o) /\ OpDone(o)
    BY DEF HandlesInv, OpInv
  <2>2. called'[o] = called[o] /\ frees'[o] = frees[o] /\ created' = created /\ mode' = mode /\ sockets' = sockets
    OBVIOUS
  <2>3. OpKern(o)' /\ OpFresh(o)' /\ OpEnded(o)' /\ OpDone(o)'
    BY <1>1, <2>1, <2>2 DEF OpKern, OpFresh, OpEnded, OpDone
  <2> QED
    BY <2>3
<1>3. PortOps'
  BY DEF PortOps, HandlesInv, Ended
<1>4. op' \in [Ops -> OpRecord]
  BY <1>1 DEF Ended
<1> QED
  BY <1>2, <1>3, <1>4 DEF OpInv

\* The objects' part of the invariant depends on the objects only.
LEMMA ObjectsKept ==
  ASSUME HandlesInv, UNCHANGED objVars
  PROVE  HandleInv'
<1> USE DEF objVars
<1>1. NoneYet' /\ TableMade' /\ TableOnce' /\ ModeInv' /\ SocketsMade'
  BY DEF HandlesInv, HandleInv, NoneYet, TableMade, TableOnce, ModeInv, SocketsMade
<1>2. SoleNames' /\ SoleHandle'
  BY DEF HandlesInv, HandleInv, SoleNames, SoleHandle, Sole, Live, IsOpen, Named
<1>3. Held'
  BY DEF HandlesInv, HandleInv, Held, Holds, Live, IsOpen, Named, Usable
<1> QED
  BY <1>1, <1>2, <1>3 DEF HandleInv

\* One operation goes on and the others stay.
LEMMA OneOp ==
  ASSUME HandlesInv, UNCHANGED objVars, HandlesTypeOK', NEW o \in Ops,
         \A p \in Ops \ {o} : /\ op'[p] = op[p] /\ called'[p] = called[p] /\ frees'[p] = frees[p]
                              /\ p \in port' <=> p \in port,
         PortOps',
         (OpKern(o) /\ OpFresh(o) /\ OpEnded(o) /\ OpDone(o))'
  PROVE  HandlesInv'
<1>1. ASSUME NEW p \in Ops \ {o} PROVE (OpKern(p) /\ OpFresh(p) /\ OpEnded(p) /\ OpDone(p))'
  <2>1. OpKern(p) /\ OpFresh(p) /\ OpEnded(p) /\ OpDone(p)
    BY DEF HandlesInv, OpInv
  <2> QED
    BY <2>1 DEF OpKern, OpFresh, OpEnded, OpDone, objVars
<1> QED
  BY <1>1, ObjectsKept DEF HandlesInv, OpInv

\* The call is issued.
LEMMA IssuedInv ==
  ASSUME HandlesInv, NEW o \in Ops, NEW x \in Objects,
         NEW c \in {"inline", "posted", "file"}, Issued(o, x, c),
         c = "file" <=> x \in Files
  PROVE  HandlesInv'
<1>1. PICK r \in {"failed", "pending", "done"} :
        /\ ~Usable(x) => r = "failed"
        /\ op' = [op EXCEPT ![o] = [at |-> "issued", class |-> c, kern |-> Named(x), result |-> r]]
        /\ port' = IF r = "done" /\ mode[Named(x)] = "port" THEN port \cup {o} ELSE port
  BY DEF Issued
<1>2. /\ UNCHANGED objVars /\ UNCHANGED <<called, frees>> /\ op[o].at = "none" /\ Live(x)
  BY DEF Issued
<1>3. Named(x) \in 0..MaxKernel
  BY DEF Named, IsOpen, Nothing, Invalid, HandlesInv, HandlesTypeOK
<1>4. op'[o] = [at |-> "issued", class |-> c, kern |-> Named(x), result |-> r]
  BY <1>1 DEF HandlesInv, HandlesTypeOK
<1>5. HandlesTypeOK'
  <2>1. op' \in [Ops -> OpRecord]
    BY <1>1, <1>3 DEF HandlesInv, HandlesTypeOK, OpRecord
  <2> QED
    BY <1>2, <2>1 DEF HandlesInv, HandlesTypeOK, objVars
<1>6. o \notin port /\ called[o] = 0 /\ frees[o] = 0
  BY <1>2 DEF HandlesInv, OpInv, OpFresh
<1>7. ASSUME r # "failed"
      PROVE  /\ Named(x) \in 1..created
             /\ x \in Sockets => Named(x) \in sockets
  <2>1. Usable(x) /\ Named(x) # Nothing /\ IsOpen(x)
    BY <1>1, <1>7 DEF Usable, Named
  <2>2. Named(x) <= created
    BY <2>1 DEF Named, IsOpen, HandlesInv, HandleInv, TableMade, HandlesTypeOK
  <2> QED
    BY <1>3, <2>1, <2>2 DEF Usable, Nothing, HandlesInv, HandlesTypeOK
<1>8. OpKern(o)'
  BY <1>2, <1>4, <1>7 DEF OpKern, objVars, Objects
<1>9. OpFresh(o)' /\ OpEnded(o)' /\ OpDone(o)'
  BY <1>1, <1>2, <1>4, <1>6 DEF OpFresh, OpEnded, OpDone, objVars
<1>10. PortOps'
  BY <1>1 DEF PortOps, HandlesInv
<1>11. \A p \in Ops \ {o} : /\ op'[p] = op[p] /\ called'[p] = called[p] /\ frees'[p] = frees[p]
                            /\ p \in port' <=> p \in port
  BY <1>1, <1>2 DEF HandlesInv, HandlesTypeOK
<1> QED
  BY <1>2, <1>5, <1>8, <1>9, <1>10, <1>11, OneOp

\* What becomes of the callback: thrown away, called in place, released, called
\* by a worker.
LEMMA SettleInv ==
  ASSUME HandlesInv, NEW o \in Ops,
         Throw(o) \/ InvokeInPlace(o) \/ Release(o) \/ WorkerCall(o)
  PROVE  HandlesInv'
<1>0. /\ OpKern(o) /\ OpFresh(o) /\ OpEnded(o) /\ OpDone(o)
      /\ op[o] \in OpRecord /\ called[o] \in Nat /\ frees[o] \in Nat
  BY DEF HandlesInv, OpInv, HandlesTypeOK
<1>1. UNCHANGED objVars
  BY DEF Throw, InvokeInPlace, Release, WorkerCall
<1>2. /\ op' \in [Ops -> OpRecord]
      /\ op'[o].class = op[o].class /\ op'[o].kern = op[o].kern /\ op'[o].result = op[o].result
      /\ op'[o].at = IF WorkerCall(o) THEN op[o].at ELSE "settled"
      /\ \A p \in Ops \ {o} : op'[p] = op[p]
  <2>1. CASE WorkerCall(o)
    BY <2>1 DEF WorkerCall, HandlesInv, HandlesTypeOK
  <2>2. CASE ~WorkerCall(o)
    <3>1. op' = [op EXCEPT ![o].at = "settled"]
      BY <2>2 DEF Throw, InvokeInPlace, Release
    <3> QED
      BY <1>0, <2>2, <3>1 DEF HandlesInv, HandlesTypeOK, OpRecord
  <2> QED
    BY <2>1, <2>2
<1>3. /\ called' \in [Ops -> Nat] /\ frees' \in [Ops -> Nat]
      /\ \A p \in Ops \ {o} : /\ called'[p] = called[p] /\ frees'[p] = frees[p]
                              /\ p \in port' <=> p \in port
      /\ PortOps'
  BY DEF Throw, InvokeInPlace, Release, WorkerCall, HandlesInv, HandlesTypeOK, PortOps
<1>4. HandlesTypeOK'
  BY <1>1, <1>2, <1>3 DEF HandlesInv, HandlesTypeOK, objVars
<1>5. OpKern(o)'
  BY <1>0, <1>1, <1>2 DEF OpKern, objVars
<1>6. CASE Throw(o)
  <2>1. /\ op[o].result = "failed" /\ op'[o].at = "settled"
        /\ called' = called /\ port' = port
    BY <1>0, <1>2, <1>6 DEF Throw, WorkerCall, OpFresh
  <2>2. OpFresh(o)' /\ OpEnded(o)' /\ OpDone(o)'
    BY <1>0, <1>2, <2>1 DEF OpFresh, OpEnded, OpDone
  <2> QED
    BY <1>1, <1>2, <1>3, <1>4, <1>5, <2>2, OneOp
<1>7. CASE InvokeInPlace(o)
  <2>1. /\ op[o].result = "done" /\ op[o].class = "inline"
        /\ called'[o] = called[o] + 1 /\ port' = port /\ op[o].at = "issued"
        /\ op'[o].at \in {"settled", "issued"}
    BY <1>0, <1>2, <1>7 DEF InvokeInPlace, HandlesInv, HandlesTypeOK
  <2>2. op'[o].at = "settled"
    BY <1>7, <1>0 DEF InvokeInPlace, HandlesInv, HandlesTypeOK, OpRecord
  <2>3. OpFresh(o)' /\ OpEnded(o)' /\ OpDone(o)'
    BY <1>0, <1>1, <1>2, <2>1, <2>2 DEF OpFresh, OpEnded, OpDone, objVars
  <2> QED
    BY <1>1, <1>2, <1>3, <1>4, <1>5, <2>3, OneOp
<1>8. CASE Release(o)
  <2>1. /\ op[o].result # "failed" /\ (op[o].class = "inline" => op[o].result # "done")
        /\ called' = called /\ frees' = frees /\ port' = port /\ op[o].at = "issued"
    BY <1>8 DEF Release
  <2>2. op'[o].at = "settled"
    BY <1>8, <1>0 DEF Release, HandlesInv, HandlesTypeOK, OpRecord
  <2>3. OpFresh(o)' /\ OpEnded(o)' /\ OpDone(o)'
    BY <1>0, <1>1, <1>2, <2>1, <2>2 DEF OpFresh, OpEnded, OpDone, objVars
  <2> QED
    BY <1>1, <1>2, <1>3, <1>4, <1>5, <2>3, OneOp
<1>9. CASE WorkerCall(o)
  <2>1. /\ o \in port /\ port' = port \ {o} /\ called'[o] = called[o] + 1
        /\ op' = op
    BY <1>9 DEF WorkerCall, HandlesInv, HandlesTypeOK
  <2>2. op[o].result \in {"done", "ended"} /\ (op[o].result = "done" => mode[op[o].kern] = "port")
    BY <1>0, <2>1 DEF OpFresh, OpDone, OpRecord
  <2>3. OpFresh(o)' /\ OpEnded(o)' /\ OpDone(o)'
    BY <1>0, <1>1, <2>1, <2>2 DEF OpFresh, OpEnded, OpDone, objVars
  <2> QED
    BY <1>1, <1>2, <1>3, <1>4, <1>5, <2>3, OneOp
<1> QED
  BY <1>6, <1>7, <1>8, <1>9

\* Operations end by themselves or by cancel().
LEMMA EndingInv ==
  ASSUME HandlesInv,
         (\E o \in Ops : CompleteOp(o)) \/ (\E x \in Objects : Cancel(x))
  PROVE  HandlesInv'
<1>1. \E S \in SUBSET Ops : Ended(S) /\ \A o \in S : op[o].result = "pending"
  <2>1. CASE \E o \in Ops : CompleteOp(o)
    <3>1. PICK o \in Ops : op[o].result = "pending" /\ Ended({o})
      BY <2>1 DEF CompleteOp
    <3>2. {o} \in SUBSET Ops
      OBVIOUS
    <3> QED
      BY <3>1, <3>2
  <2>2. CASE \E x \in Objects : Cancel(x)
    <3>1. PICK x \in Objects : \E S \in SUBSET PendingOn(Named(x)) : Ended(S)
      BY <2>2 DEF Cancel
    <3>2. PICK S \in SUBSET PendingOn(Named(x)) : Ended(S)
      BY <3>1
    <3>3. S \in SUBSET Ops /\ \A o \in S : op[o].result = "pending"
      BY <3>2 DEF PendingOn
    <3> QED
      BY <3>2, <3>3
  <2> QED
    BY <2>1, <2>2
<1>2. UNCHANGED objVars /\ UNCHANGED <<called, frees>>
  BY DEF CompleteOp, Cancel
<1>3. OpInv' /\ PortOps' /\ op' \in [Ops -> OpRecord]
  <2>1. UNCHANGED <<created, sockets, mode, called, frees>>
    BY <1>2 DEF objVars
  <2> QED
    BY <1>1, <2>1, EndedInv
<1>4. HandlesTypeOK'
  BY <1>2, <1>3 DEF HandlesInv, HandlesTypeOK, objVars
<1> QED
  BY <1>2, <1>3, <1>4, ObjectsKept DEF HandlesInv

-----------------------------------------------------------------------------
(* Objects                                                                 *)

\* The system makes a kernel object.
LEMMA CreateKept ==
  ASSUME HandlesInv, NEW x \in Objects, NEW v \in Values,
         NEW m \in {"unbound", "port", "skip"}, Create(x, v, m),
         halfOpen \subseteq halfOpen',
         x \in Sockets /\ m = "port" => created + 1 \in halfOpen',
         x \notin Sockets => m # "skip"
  PROVE  /\ created' \in 0..MaxKernel /\ created' = created + 1
         /\ table' \in [Values -> 0..MaxKernel]
         /\ mode' \in [Kernel -> {"unbound", "port", "skip"}]
         /\ (TableMade /\ TableOnce /\ ModeInv /\ SocketsMade)' /\ KernelsKept
<1>1. created \in Nat /\ created + 1 \in Kernel /\ created' = created + 1 /\ created' \in 0..MaxKernel
  BY DEF Create, HandlesInv, HandlesTypeOK, Kernel
<1>2. /\ table' \in [Values -> 0..MaxKernel] /\ table'[v] = created + 1
      /\ \A w \in Values \ {v} : table'[w] = table[w]
  BY <1>1 DEF Create, HandlesInv, HandlesTypeOK
<1>3. /\ mode' \in [Kernel -> {"unbound", "port", "skip"}] /\ mode'[created + 1] = m
      /\ \A k \in Kernel \ {created + 1} : mode'[k] = mode[k]
  BY <1>1 DEF Create, HandlesInv, HandlesTypeOK
<1>4. sockets' = IF x \in Sockets THEN sockets \cup {created + 1} ELSE sockets
  BY DEF Create
<1>5. \A k \in sockets : k \in 1..created
  BY DEF HandlesInv, HandleInv, SocketsMade
<1>6. \A w \in Values : table[w] \in 0..created
  BY <1>1 DEF HandlesInv, HandleInv, TableMade, HandlesTypeOK
<1>7. TableMade' /\ TableOnce'
  BY <1>1, <1>2, <1>6 DEF TableMade, TableOnce, Nothing, HandlesInv, HandleInv
<1>8. \A k \in 1..created' : k = created + 1 \/ (k \in 1..created /\ k \in Kernel \ {created + 1})
  BY <1>1 DEF Kernel
<1>9. KernelsKept
  BY <1>1, <1>3, <1>4, <1>8 DEF KernelsKept, Kernel
<1>10. ModeInv'
  <2> SUFFICES ASSUME NEW k \in 1..created'
               PROVE  /\ k \in sockets' /\ mode'[k] = "port" => k \in halfOpen'
                      /\ k \notin sockets' => mode'[k] # "skip"
    BY DEF ModeInv
  <2>1. CASE k = created + 1
    BY <1>1, <1>3, <1>4, <1>5, <2>1
  <2>2. CASE k \in 1..created
    BY <1>9, <2>2 DEF KernelsKept, HandlesInv, HandleInv, ModeInv
  <2> QED
    BY <1>8, <2>1, <2>2
<1>11. SocketsMade'
  BY <1>1, <1>4, <1>5 DEF SocketsMade
<1> QED
  BY <1>1, <1>2, <1>3, <1>7, <1>9, <1>10, <1>11

\* A kernel object whose handle nobody names is lost already.
LEMMA Overwrites ==
  ASSUME HandlesInv, NEW x \in Objects, NEW w \in Values, ~crossed,
         table[w] # Nothing, table[w] \notin dropped, table[w] \notin Overwritten(x)
  PROVE  \E z \in Objects \ {x} : Holds(z, w)
<1>1. PICK y \in Objects : Holds(y, w)
  BY DEF HandlesInv, HandleInv, Held
<1>2. CASE y # x
  BY <1>1, <1>2
<1>3. CASE y = x
  <2>1. Named(x) = table[w]
    BY <1>1, <1>3 DEF Holds, Named, Usable
  <2>2. PICK z \in Objects \ {x} : Live(z) /\ Usable(z) /\ Named(z) = table[w] /\ closing[z] = 0
    BY <2>1 DEF Overwritten
  <2>3. handle[z] \in Values /\ table[handle[z]] = table[w]
    BY <2>2 DEF Usable, Named, IsOpen, HandlesInv, HandlesTypeOK
  <2>4. handle[z] = w
    BY <2>3 DEF HandlesInv, HandleInv, TableOnce
  <2> QED
    BY <2>2, <2>4 DEF Holds
<1> QED
  BY <1>2, <1>3

\* An object gets a new kernel object's handle.
LEMMA ObtainInv ==
  ASSUME HandlesInv, NEW x \in Objects, NEW v \in Values,
         NEW m \in {"unbound", "port", "skip"}, Create(x, v, m),
         halfOpen \subseteq halfOpen',
         x \in Sockets /\ m = "port" => created + 1 \in halfOpen',
         x \notin Sockets => m # "skip",
         handle' = [handle EXCEPT ![x] = v], mine' = [mine EXCEPT ![x] = created + 1],
         life' \in [Objects -> {"none", "live", "gone"}], life'[x] = "live",
         \A y \in Objects \ {x} : life'[y] = life[y],
         dropped \subseteq dropped', Live(x) => Overwritten(x) \subseteq dropped',
         life[x] = "live" \/ life[x] = "none",
         closing' = closing, crossed' = (crossed \/ closing[x] > 0),
         copied' = copied, UNCHANGED opVars
  PROVE  HandlesInv'
<1>1. /\ created' \in 0..MaxKernel /\ created' = created + 1
      /\ table' \in [Values -> 0..MaxKernel]
      /\ mode' \in [Kernel -> {"unbound", "port", "skip"}]
      /\ (TableMade /\ TableOnce /\ ModeInv /\ SocketsMade)' /\ KernelsKept
  BY CreateKept
<1>2. created \in Nat /\ created + 1 \in 1..MaxKernel
  BY <1>1 DEF HandlesInv, HandlesTypeOK
<1>3. HandlesTypeOK'
  BY <1>1, <1>2 DEF HandlesInv, HandlesTypeOK, opVars
<1>4. OpInv' /\ PortOps'
  BY <1>1, OpsKept
<1>5. /\ table'[v] = created + 1 /\ table[v] = Nothing
      /\ \A w \in Values \ {v} : table'[w] = table[w]
      /\ handle'[x] = v /\ mine'[x] = created + 1
      /\ \A y \in Objects \ {x} : handle'[y] = handle[y] /\ mine'[y] = mine[y]
      /\ sockets' = IF x \in Sockets THEN sockets \cup {created + 1} ELSE sockets
  BY DEF Create, HandlesInv, HandlesTypeOK
<1>6. created + 1 \notin sockets
  BY <1>2 DEF HandlesInv, HandleInv, SocketsMade
<1>7. v # Invalid /\ created + 1 # Nothing
  BY <1>2 DEF Nothing
<1>8. NoneYet'
  BY <1>5 DEF NoneYet, HandlesInv, HandleInv
<1>9. ASSUME NEW y \in Objects \ {x}, Sole(y)'
      PROVE  /\ Sole(y) /\ handle[y] \in Values \ {v}
             /\ Named(y)' = Named(y) /\ Named(y) = mine[y] /\ mine[y] # Nothing
             /\ (y \in Sockets <=> mine[y] \in sockets) /\ mine[y] # created + 1
  <2>1. Sole(y)
    BY <1>5, <1>9 DEF Sole, Live, IsOpen
  <2>2. /\ Named(y) = mine[y] /\ mine[y] # Nothing
        /\ (y \in Sockets <=> mine[y] \in sockets)
    BY <2>1 DEF HandlesInv, HandleInv, SoleNames
  <2>3. handle[y] \in Values /\ Named(y) = table[handle[y]]
    BY <2>1 DEF Sole, IsOpen, Named, HandlesInv, HandlesTypeOK
  <2>4. handle[y] # v
    BY <1>5, <2>2, <2>3
  <2>5. Named(y)' = Named(y)
    BY <1>5, <2>1, <2>3, <2>4 DEF Named, IsOpen, Sole
  <2>6. mine[y] # created + 1
    BY <1>2, <2>2, <2>3 DEF HandlesInv, HandleInv, TableMade, HandlesTypeOK
  <2> QED
    BY <2>1, <2>2, <2>3, <2>4, <2>5, <2>6
<1>q. closing[x] \in Nat /\ (~crossed' => ~crossed /\ closing[x] = 0)
  <2>1. closing[x] \in Nat /\ (~(closing[x] > 0) => closing[x] = 0)
    BY DEF HandlesInv, HandlesTypeOK
  <2> QED
    BY <2>1, Zenon
<1>10. SoleNames'
  <2> SUFFICES ASSUME NEW y \in Objects, Sole(y)'
               PROVE  (Named(y) = mine[y] /\ mine[y] # Nothing
                       /\ (y \in Sockets <=> mine[y] \in sockets))'
    BY DEF SoleNames
  <2>1. CASE y = x
    BY <1>5, <1>6, <1>7, <2>1 DEF Named, IsOpen
  <2>2. CASE y # x
    BY <1>5, <1>9, <2>2
  <2> QED
    BY <2>1, <2>2
<1>11. SoleHandle'
  <2> SUFFICES ASSUME NEW y \in Objects, NEW z \in Objects, Sole(y)', Sole(z)',
                      handle'[y] = handle'[z], y # z
               PROVE  FALSE
    BY DEF SoleHandle
  <2>1. CASE y # x /\ z # x
    BY <1>5, <1>9, <2>1 DEF HandlesInv, HandleInv, SoleHandle
  <2>2. CASE y = x \/ z = x
    BY <1>5, <1>9, <2>2
  <2> QED
    BY <2>1, <2>2
<1>12. Held'
  <2> SUFFICES ASSUME NEW w \in Values, table'[w] # Nothing, table'[w] \notin dropped', ~crossed'
               PROVE  \E y \in Objects : Holds(y, w)'
    BY DEF Held
  <2>1. CASE w = v
    <3>1. Holds(x, w)'
      BY <1>5, <1>7, <1>q, <2>1 DEF Holds, Live, Usable, Named, IsOpen
    <3> QED
      BY <3>1
  <2>2. CASE w # v
    <3>1. table[w] = table'[w] /\ table[w] # Nothing /\ table[w] \notin dropped
      BY <1>5, <2>2
    <3>2. \E z \in Objects \ {x} : Holds(z, w)
      <4>1. CASE Live(x)
        BY <1>q, <3>1, <4>1, Overwrites
      <4>2. CASE ~Live(x)
        BY <1>q, <3>1, <4>2 DEF HandlesInv, HandleInv, Held, Holds
      <4> QED
        BY <4>1, <4>2
    <3>3. PICK z \in Objects \ {x} : Holds(z, w)
      BY <3>2
    <3>4. handle'[z] = w /\ Live(z)' /\ closing'[z] = 0
      BY <1>5, <3>3 DEF Holds, Live
    <3>5. Usable(z)'
      BY <1>5, <3>1, <3>3, <3>4 DEF Holds, Usable, Named, IsOpen
    <3> QED
      BY <3>3, <3>4, <3>5 DEF Holds
  <2> QED
    BY <2>1, <2>2
<1> QED
  BY <1>1, <1>3, <1>4, <1>8, <1>10, <1>11, <1>12 DEF HandlesInv, HandleInv

\* An object gets no handle, or loses it without closing it; the kernel objects
\* stay.
LEMMA LoseInv ==
  ASSUME HandlesInv, NEW x \in Objects,
         UNCHANGED <<table, created, sockets, mode, mine, copied, halfOpen>>, UNCHANGED opVars,
         UNCHANGED closeVars,
         life' \in [Objects -> {"none", "live", "gone"}],
         \A y \in Objects \ {x} : life'[y] = life[y],
         life'[x] = "none" => life[x] = "none",
         handle' = [handle EXCEPT ![x] = Invalid],
         dropped' = dropped \cup Overwritten(x)
  PROVE  HandlesInv'
<1>1. /\ handle'[x] = Invalid /\ handle' \in [Objects -> Values \cup {Invalid}]
      /\ \A y \in Objects \ {x} : handle'[y] = handle[y]
  BY DEF HandlesInv, HandlesTypeOK
<1>2. HandlesTypeOK'
  BY <1>1 DEF HandlesInv, HandlesTypeOK, opVars, closeVars
<1>3. KernelsKept
  BY DEF KernelsKept, HandlesInv, HandlesTypeOK
<1>4. OpInv' /\ PortOps'
  BY <1>3, OpsKept
<1>5. (NoneYet /\ TableMade /\ TableOnce /\ ModeInv /\ SocketsMade)'
  BY <1>1 DEF closeVars, NoneYet, TableMade, TableOnce, ModeInv, SocketsMade, HandlesInv, HandleInv
<1>6. ASSUME NEW y \in Objects, Sole(y)' PROVE y # x /\ Sole(y) /\ Named(y)' = Named(y)
  BY <1>1, <1>6 DEF closeVars, Sole, Live, IsOpen, Named
<1>7. SoleNames' /\ SoleHandle'
  BY <1>1, <1>6 DEF SoleNames, SoleHandle, HandlesInv, HandleInv
<1>8. Held'
  <2> SUFFICES ASSUME NEW w \in Values, table[w] # Nothing, table[w] \notin dropped', ~crossed
               PROVE  \E y \in Objects : Holds(y, w)'
    BY DEF Held, closeVars
  <2>1. PICK z \in Objects \ {x} : Holds(z, w)
    BY Overwrites
  <2>2. Holds(z, w)'
    BY <1>1, <2>1 DEF Holds, Live, Usable, Named, IsOpen, closeVars
  <2> QED
    BY <2>2
<1> QED
  BY <1>2, <1>4, <1>5, <1>7, <1>8 DEF HandlesInv, HandleInv

\* open() throws in a constructor.
LEMMA ThrowsInv ==
  ASSUME HandlesInv, NEW x \in Objects, ConstructThrows(x)
  PROVE  HandlesInv'
<1>1. PICK v \in Values, m \in ThrowMode(x) : Create(x, v, m)
  BY DEF ConstructThrows
<1>2. /\ life' = [life EXCEPT ![x] = "gone"] /\ handle' = handle /\ mine' = mine
      /\ copied' = copied /\ dropped' = dropped \cup {created + 1}
      /\ halfOpen' = halfOpen \cup {created + 1} /\ UNCHANGED opVars /\ life[x] = "none"
      /\ closing' = closing /\ crossed' = crossed
  BY DEF ConstructThrows, opVars, closeVars
<1>3. m \in {"unbound", "port", "skip"} /\ m # "skip"
  BY DEF ThrowMode
<1>4. /\ created' \in 0..MaxKernel /\ created' = created + 1
      /\ table' \in [Values -> 0..MaxKernel]
      /\ mode' \in [Kernel -> {"unbound", "port", "skip"}]
      /\ (TableMade /\ TableOnce /\ ModeInv /\ SocketsMade)' /\ KernelsKept
  BY <1>1, <1>2, <1>3, CreateKept
<1>5. /\ table'[v] = created + 1 /\ table[v] = Nothing
      /\ \A w \in Values \ {v} : table'[w] = table[w]
      /\ sockets' = IF x \in Sockets THEN sockets \cup {created + 1} ELSE sockets
      /\ life'[x] = "gone" /\ \A y \in Objects \ {x} : life'[y] = life[y]
  BY <1>1, <1>2 DEF Create, HandlesInv, HandlesTypeOK
<1>6. HandlesTypeOK'
  BY <1>2, <1>4 DEF HandlesInv, HandlesTypeOK, opVars
<1>7. OpInv' /\ PortOps'
  BY <1>2, <1>4, OpsKept
<1>8. NoneYet'
  BY <1>2, <1>5 DEF NoneYet, HandlesInv, HandleInv
<1>9. ASSUME NEW y \in Objects, Sole(y)'
      PROVE  /\ Sole(y) /\ Named(y)' = Named(y)
             /\ (mine[y] \in sockets' <=> mine[y] \in sockets)
  <2>1. y # x /\ Sole(y)
    BY <1>2, <1>5, <1>9 DEF Sole, Live, IsOpen
  <2>2. Named(y) = mine[y] /\ mine[y] # Nothing
    BY <2>1 DEF HandlesInv, HandleInv, SoleNames
  <2>3. handle[y] \in Values /\ Named(y) = table[handle[y]]
    BY <2>1 DEF Sole, IsOpen, Named, HandlesInv, HandlesTypeOK
  <2>4. mine[y] <= created /\ mine[y] # created + 1
    BY <2>2, <2>3 DEF HandlesInv, HandleInv, TableMade, HandlesTypeOK
  <2> QED
    BY <1>2, <1>5, <2>1, <2>2, <2>3, <2>4 DEF Named, IsOpen
<1>10. SoleNames' /\ SoleHandle'
  BY <1>2, <1>9 DEF SoleNames, SoleHandle, HandlesInv, HandleInv
<1>11. Held'
  <2> SUFFICES ASSUME NEW w \in Values, table'[w] # Nothing, table'[w] \notin dropped', ~crossed'
               PROVE  \E y \in Objects : Holds(y, w)'
    BY DEF Held
  <2>1. w # v /\ table[w] = table'[w] /\ table[w] \notin dropped
    BY <1>2, <1>5
  <2>2. PICK y \in Objects : Holds(y, w)
    BY <1>2, <2>1 DEF HandlesInv, HandleInv, Held
  <2>3. Holds(y, w)'
    BY <1>2, <1>5, <2>1, <2>2 DEF Holds, Live, Usable, Named, IsOpen
  <2> QED
    BY <2>3
<1> QED
  BY <1>4, <1>6, <1>7, <1>8, <1>10, <1>11 DEF HandlesInv, HandleInv

\* A socket object is copied or assigned: from then on only files are sole owners.
LEMMA CopyInv ==
  ASSUME HandlesInv, NEW x \in Sockets, NEW y \in Sockets, Copy(x, y) \/ Assign(x, y)
  PROVE  HandlesInv'
<1>1. /\ UNCHANGED <<table, created, sockets, mode, halfOpen>> /\ UNCHANGED opVars
      /\ handle' = [handle EXCEPT ![y] = handle[x]] /\ mine' = [mine EXCEPT ![y] = mine[x]]
      /\ copied' = TRUE /\ x # y /\ Live(x)
      /\ life' = [life EXCEPT ![y] = "live"] /\ closing' = closing /\ crossed' = crossed
  BY DEF Copy, Assign, opVars, closeVars, Live, HandlesInv, HandlesTypeOK, Objects
<1>2. dropped \subseteq dropped' /\ (life[y] # "none" => Overwritten(y) \subseteq dropped')
  BY DEF Copy, Assign, Live
<1>3. x \in Objects /\ y \in Objects /\ y \notin Files
  BY DEF Objects
<1>4. /\ handle'[y] = handle[x] /\ life'[y] = "live"
      /\ \A z \in Objects \ {y} : handle'[z] = handle[z] /\ mine'[z] = mine[z] /\ life'[z] = life[z]
  BY <1>1, <1>3 DEF HandlesInv, HandlesTypeOK
<1>5. HandlesTypeOK'
  BY <1>1, <1>3 DEF HandlesInv, HandlesTypeOK, opVars
<1>6. OpInv' /\ PortOps'
  <2>1. KernelsKept
    BY <1>1 DEF KernelsKept, HandlesInv, HandlesTypeOK
  <2> QED
    BY <1>1, <2>1, OpsKept
<1>7. (NoneYet /\ TableMade /\ TableOnce /\ ModeInv /\ SocketsMade)'
  BY <1>1, <1>4 DEF NoneYet, TableMade, TableOnce, ModeInv, SocketsMade, HandlesInv, HandleInv
<1>8. ASSUME NEW z \in Objects, Sole(z)' PROVE z # y /\ Sole(z) /\ Named(z)' = Named(z)
  BY <1>1, <1>3, <1>4, <1>8 DEF Sole, Live, IsOpen, Named
<1>9. SoleNames' /\ SoleHandle'
  BY <1>1, <1>4, <1>8 DEF SoleNames, SoleHandle, HandlesInv, HandleInv
<1>10. Held'
  <2> SUFFICES ASSUME NEW w \in Values, table[w] # Nothing, table[w] \notin dropped', ~crossed
               PROVE  \E z \in Objects : Holds(z, w)'
    BY <1>1 DEF Held
  <2>1. \E z \in Objects \ {y} : Holds(z, w)
    <3>1. CASE life[y] = "none"
      <4>1. PICK z \in Objects : Holds(z, w)
        BY <1>2 DEF HandlesInv, HandleInv, Held
      <4>2. z # y
        BY <3>1, <4>1 DEF Holds, Live
      <4> QED
        BY <4>1, <4>2
    <3>2. CASE life[y] # "none"
      BY <1>2, <1>3, <3>2, Overwrites
    <3> QED
      BY <3>1, <3>2
  <2>2. PICK z \in Objects \ {y} : Holds(z, w)
    BY <2>1
  <2>3. Holds(z, w)'
    BY <1>1, <1>4, <2>2 DEF Holds, Live, Usable, Named, IsOpen
  <2> QED
    BY <2>3
<1> QED
  BY <1>5, <1>6, <1>7, <1>9, <1>10 DEF HandlesInv, HandleInv

\* The first statement of close(), which the destructor calls.
LEMMA CloseInv ==
  ASSUME HandlesInv, NEW x \in Objects, Close(x) \/ Destroy(x), IsOpen(x)
  PROVE  HandlesInv'
<1>1. /\ UNCHANGED <<handle, created, sockets, mode, mine, copied, dropped, halfOpen, called, frees>>
      /\ CloseHandle(x) /\ Live(x)
      /\ life' \in [Objects -> {"none", "live", "gone"}]
      /\ life'[x] \in {"live", "gone"}
      /\ \A y \in Objects \ {x} : life'[y] = life[y]
  BY DEF Close, Destroy, Live, HandlesInv, HandlesTypeOK
<1>2. /\ closing'[x] = closing[x] + 1 /\ closing[x] \in Nat /\ closing' \in [Objects -> Nat]
      /\ \A y \in Objects \ {x} : closing'[y] = closing[y]
  BY <1>1 DEF CloseHandle, HandlesInv, HandlesTypeOK
<1>q. crossed' \in BOOLEAN /\ (~crossed' => ~crossed /\ closing[x] = 0)
  <2>1. ~(closing[x] > 0) => closing[x] = 0
    BY <1>2
  <2>2. crossed \in BOOLEAN
    BY DEF HandlesInv, HandlesTypeOK
  <2>3. CASE Close(x)
    BY <2>1, <2>3, Zenon DEF Close, Overlap
  <2>4. CASE Destroy(x)
    BY <2>2, <2>4, Zenon DEF Destroy
  <2> QED
    BY <2>3, <2>4
<1>3. CASE Usable(x)
  <2>1. handle[x] \in Values /\ Named(x) = table[handle[x]] /\ Named(x) # Nothing
    BY <1>3 DEF Usable, Named, IsOpen, HandlesInv, HandlesTypeOK
  <2>2. /\ table' = [table EXCEPT ![handle[x]] = Nothing]
        /\ Ended(PendingOn(Named(x)))
    BY <1>1, <1>3 DEF CloseHandle
  <2>3. OpInv' /\ PortOps' /\ op' \in [Ops -> OpRecord]
    <3>1. PendingOn(Named(x)) \in SUBSET Ops
          /\ \A o \in PendingOn(Named(x)) : op[o].result = "pending"
      BY DEF PendingOn
    <3> QED
      BY <1>1, <2>2, <3>1, EndedInv
  <2>4. /\ table' \in [Values -> 0..MaxKernel] /\ table'[handle[x]] = Nothing
        /\ \A w \in Values \ {handle[x]} : table'[w] = table[w]
    BY <2>1, <2>2 DEF HandlesInv, HandlesTypeOK, Nothing
  <2>5. HandlesTypeOK'
    BY <1>1, <1>2, <1>q, <2>3, <2>4 DEF HandlesInv, HandlesTypeOK
  <2>6. NoneYet' /\ ModeInv' /\ SocketsMade'
    BY <1>1, <1>2 DEF NoneYet, ModeInv, SocketsMade, HandlesInv, HandleInv
  <2>7. TableMade' /\ TableOnce'
    BY <1>1, <2>1, <2>4 DEF TableMade, TableOnce, Nothing, HandlesInv, HandleInv, HandlesTypeOK
  <2>8. ASSUME NEW y \in Objects, Sole(y)' PROVE y # x /\ Sole(y) /\ Named(y)' = Named(y)
    <3>1. y # x /\ Sole(y)
      BY <1>1, <1>2, <1>q, <2>8 DEF Sole, Live, IsOpen
    <3>2. handle[y] # handle[x]
      <4>1. SUFFICES ASSUME handle[y] = handle[x] PROVE FALSE
        OBVIOUS
      <4>2. ~Sole(x)
        BY <3>1, <4>1 DEF HandlesInv, HandleInv, SoleHandle
      <4>3. x \notin Files /\ copied
        BY <1>1, <1>q, <2>1, <2>8, <4>2 DEF Sole, IsOpen
      <4>4. y \in Files /\ y \notin Sockets
        BY <3>1, <4>3 DEF Sole
      <4>5. Named(y) \notin sockets
        BY <3>1, <4>4 DEF HandlesInv, HandleInv, SoleNames
      <4>6. Named(x) \in sockets
        BY <1>3, <4>3 DEF Usable, Objects
      <4>7. Named(y) = Named(x)
        BY <3>1, <4>1 DEF Sole, IsOpen, Named
      <4> QED
        BY <4>5, <4>6, <4>7
    <3>3. handle[y] \in Values
      BY <3>1 DEF Sole, IsOpen, HandlesInv, HandlesTypeOK
    <3> QED
      BY <1>1, <2>4, <3>1, <3>2, <3>3 DEF Named, IsOpen
  <2>9. SoleNames' /\ SoleHandle'
    BY <1>1, <1>2, <2>8 DEF SoleNames, SoleHandle, HandlesInv, HandleInv
  <2>10. Held'
    <3> SUFFICES ASSUME NEW w \in Values, table'[w] # Nothing, table'[w] \notin dropped, ~crossed'
                 PROVE  \E y \in Objects : Holds(y, w)'
      BY <1>1 DEF Held
    <3>1. w # handle[x] /\ table[w] = table'[w]
      BY <2>4
    <3>2. PICK y \in Objects : Holds(y, w)
      BY <1>q, <3>1 DEF HandlesInv, HandleInv, Held
    <3>3. y # x
      BY <3>1, <3>2 DEF Holds
    <3>4. Holds(y, w)'
      BY <1>1, <1>2, <3>1, <3>2, <3>3 DEF Holds, Live, Usable, Named, IsOpen
    <3> QED
      BY <3>4
  <2> QED
    BY <2>3, <2>5, <2>6, <2>7, <2>9, <2>10 DEF HandlesInv, HandleInv
<1>4. CASE ~Usable(x)
  <2>1. UNCHANGED <<table, op, port>>
    BY <1>1, <1>4 DEF CloseHandle
  <2>2. HandlesTypeOK'
    BY <1>1, <1>2, <1>q, <2>1 DEF HandlesInv, HandlesTypeOK
  <2>3. OpInv' /\ PortOps'
    <3>1. KernelsKept /\ UNCHANGED opVars
      BY <1>1, <2>1 DEF KernelsKept, HandlesInv, HandlesTypeOK, opVars
    <3> QED
      BY <3>1, OpsKept
  <2>4. (NoneYet /\ TableMade /\ TableOnce /\ ModeInv /\ SocketsMade)'
    BY <1>1, <1>2, <2>1 DEF NoneYet, TableMade, TableOnce, ModeInv, SocketsMade, HandlesInv, HandleInv
  <2>5. ASSUME NEW y \in Objects, Sole(y)' PROVE y # x /\ Sole(y) /\ Named(y)' = Named(y)
    BY <1>1, <1>2, <1>q, <2>1, <2>5 DEF Sole, Live, IsOpen, Named
  <2>6. SoleNames' /\ SoleHandle'
    BY <1>1, <1>2, <2>5 DEF SoleNames, SoleHandle, HandlesInv, HandleInv
  <2>7. Held'
    <3> SUFFICES ASSUME NEW w \in Values, table[w] # Nothing, table[w] \notin dropped, ~crossed'
                 PROVE  \E y \in Objects : Holds(y, w)'
      BY <1>1, <2>1 DEF Held
    <3>1. PICK y \in Objects : Holds(y, w)
      BY <1>q DEF HandlesInv, HandleInv, Held
    <3>2. y # x
      BY <1>4, <3>1 DEF Holds
    <3>3. Holds(y, w)'
      BY <1>1, <1>2, <2>1, <3>1, <3>2 DEF Holds, Live, Usable, Named, IsOpen
    <3> QED
      BY <3>3
  <2> QED
    BY <2>2, <2>3, <2>4, <2>6, <2>7 DEF HandlesInv, HandleInv
<1> QED
  BY <1>3, <1>4

\* The second statement of close(), and the destructor of an object that has no
\* handle.
LEMMA ForgetInv ==
  ASSUME HandlesInv, NEW x \in Objects, Forget(x) \/ (Destroy(x) /\ ~IsOpen(x))
  PROVE  HandlesInv'
<1>1. /\ UNCHANGED <<crossed, table, created, sockets, mode, mine, copied, dropped, halfOpen>>
      /\ UNCHANGED opVars
      /\ life' \in [Objects -> {"none", "live", "gone"}]
      /\ life'[x] = "none" => life[x] = "none"
      /\ \A y \in Objects \ {x} : life'[y] = life[y]
  BY DEF Forget, Destroy, opVars, HandlesInv, HandlesTypeOK
<1>2. /\ handle'[x] = Invalid /\ handle' \in [Objects -> Values \cup {Invalid}]
      /\ \A y \in Objects \ {x} : handle'[y] = handle[y]
  BY DEF Forget, Destroy, IsOpen, HandlesInv, HandlesTypeOK
<1>3. /\ closing' \in [Objects -> Nat] /\ closing[x] \in Nat /\ closing'[x] <= closing[x]
      /\ \A y \in Objects \ {x} : closing'[y] = closing[y]
  BY DEF Forget, Destroy, HandlesInv, HandlesTypeOK
<1>4. HandlesTypeOK'
  BY <1>1, <1>2, <1>3 DEF HandlesInv, HandlesTypeOK, opVars
<1>5. OpInv' /\ PortOps'
  <2>1. KernelsKept
    BY <1>1 DEF KernelsKept, HandlesInv, HandlesTypeOK
  <2> QED
    BY <1>1, <2>1, OpsKept
<1>6. NoneYet'
  <2>1. closing'[x] \in Nat
    BY <1>3
  <2> QED
    BY <1>1, <1>2, <1>3, <2>1 DEF NoneYet, HandlesInv, HandleInv
<1>7. (TableMade /\ TableOnce /\ ModeInv /\ SocketsMade)'
  BY <1>1 DEF TableMade, TableOnce, ModeInv, SocketsMade, HandlesInv, HandleInv
<1>8. ASSUME NEW y \in Objects, Sole(y)' PROVE y # x /\ Sole(y) /\ Named(y)' = Named(y)
  BY <1>1, <1>2, <1>3, <1>8 DEF Sole, Live, IsOpen, Named
<1>9. SoleNames' /\ SoleHandle'
  BY <1>1, <1>2, <1>8 DEF SoleNames, SoleHandle, HandlesInv, HandleInv
<1>10. Held'
  <2> SUFFICES ASSUME NEW w \in Values, table[w] # Nothing, table[w] \notin dropped, ~crossed
               PROVE  \E y \in Objects : Holds(y, w)'
    BY <1>1 DEF Held
  <2>1. PICK y \in Objects : Holds(y, w)
    BY DEF HandlesInv, HandleInv, Held
  <2>2. y # x
    BY <2>1 DEF Holds, Usable, Named, Forget
  <2>3. Holds(y, w)'
    BY <1>1, <1>2, <1>3, <2>1, <2>2 DEF Holds, Live, Usable, Named, IsOpen
  <2> QED
    BY <2>3
<1> QED
  BY <1>4, <1>5, <1>6, <1>7, <1>9, <1>10 DEF HandlesInv, HandleInv

\* open() of either kind, and the constructor that adopts a handle.
LEMMA OpenInv ==
  ASSUME HandlesInv, NEW x \in Objects, OpenSocket(x) \/ OpenFile(x) \/ Adopt(x)
  PROVE  HandlesInv'
<1>1. /\ life' = [life EXCEPT ![x] = "live"] /\ (Live(x) \/ life[x] = "none")
      /\ copied' = copied /\ UNCHANGED opVars /\ dropped \subseteq dropped'
      /\ closing' = closing
  BY DEF OpenSocket, OpenFile, Adopt, Live, opVars, closeVars, HandlesInv, HandlesTypeOK
<1>c. crossed' = (crossed \/ closing[x] > 0)
  <2>1. CASE OpenSocket(x) \/ OpenFile(x)
    BY <2>1 DEF OpenSocket, OpenFile, Obtain, Overlap
  <2>2. CASE Adopt(x)
    <3>1. closing[x] = 0 /\ crossed' = crossed /\ crossed \in BOOLEAN
      BY <2>2 DEF Adopt, closeVars, HandlesInv, HandleInv, NoneYet, HandlesTypeOK
    <3> QED
      BY <3>1
  <2> QED
    BY <2>1, <2>2
<1>2. Overwritten(x) \subseteq dropped'
  <2>1. CASE OpenFile(x)
    BY <2>1 DEF OpenFile
  <2>2. CASE ~OpenFile(x)
    <3>1. ~IsOpen(x)
      BY <2>2 DEF OpenSocket, Adopt, IsOpen, HandlesInv, HandleInv, NoneYet
    <3> QED
      BY <3>1 DEF Overwritten, Named
  <2> QED
    BY <2>1, <2>2
<1>3. /\ life' \in [Objects -> {"none", "live", "gone"}] /\ life'[x] = "live"
      /\ \A y \in Objects \ {x} : life'[y] = life[y]
      /\ life[x] = "live" \/ life[x] = "none"
  BY <1>1 DEF HandlesInv, HandlesTypeOK, Live
<1>4. \E v \in Values, m \in {"unbound", "port", "skip"} :
        /\ Create(x, v, m) /\ halfOpen \subseteq halfOpen'
        /\ x \in Sockets /\ m = "port" => created + 1 \in halfOpen'
        /\ x \notin Sockets => m # "skip"
        /\ handle' = [handle EXCEPT ![x] = v] /\ mine' = [mine EXCEPT ![x] = created + 1]
  <2>1. CASE OpenSocket(x) \/ OpenFile(x)
    <3>1. PICK ok \in BOOLEAN : Obtain(x, ok)
      BY <2>1 DEF OpenSocket, OpenFile
    <3>2. PICK v \in Values, m \in IF ~ok THEN ThrowMode(x)
                                     ELSE IF x \in Sockets THEN SocketMode ELSE FileMode :
            /\ Create(x, v, m)
            /\ handle' = [handle EXCEPT ![x] = v]
            /\ mine' = [mine EXCEPT ![x] = created + 1]
            /\ halfOpen' = IF ok THEN halfOpen ELSE halfOpen \cup {created + 1}
      BY <3>1 DEF Obtain
    <3>3. /\ m \in {"unbound", "port", "skip"}
          /\ x \in Sockets /\ m = "port" => ~ok
          /\ x \notin Sockets => m # "skip"
      BY DEF ThrowMode, SocketMode, FileMode
    <3>4. /\ halfOpen \subseteq halfOpen'
          /\ x \in Sockets /\ m = "port" => created + 1 \in halfOpen'
      BY <3>2, <3>3
    <3> QED
      BY <3>2, <3>3, <3>4
  <2>2. CASE Adopt(x)
    <3>1. PICK v \in Values :
            /\ Create(x, v, "unbound")
            /\ handle' = [handle EXCEPT ![x] = v]
            /\ mine' = [mine EXCEPT ![x] = created + 1]
      BY <2>2 DEF Adopt
    <3>2. halfOpen' = halfOpen
      BY <2>2 DEF Adopt
    <3> QED
      BY <3>1, <3>2
  <2> QED
    BY <2>1, <2>2
<1>5. PICK v \in Values, m \in {"unbound", "port", "skip"} :
        /\ Create(x, v, m) /\ halfOpen \subseteq halfOpen'
        /\ x \in Sockets /\ m = "port" => created + 1 \in halfOpen'
        /\ x \notin Sockets => m # "skip"
        /\ handle' = [handle EXCEPT ![x] = v] /\ mine' = [mine EXCEPT ![x] = created + 1]
  BY <1>4
<1> QED
  BY <1>1, <1>c, <1>2, <1>3, <1>5, ObtainInv

\* A constructor that opens nothing, and CreateFile() failing.
LEMMA NoHandleInv ==
  ASSUME HandlesInv, NEW x \in Objects, Construct(x) \/ OpenFileFails(x)
  PROVE  HandlesInv'
<1>1. CASE Construct(x)
  <2>1. /\ life[x] = "none" /\ life' = [life EXCEPT ![x] = "live"] /\ dropped' = dropped
        /\ handle' = handle /\ UNCHANGED opVars /\ UNCHANGED closeVars
        /\ UNCHANGED <<table, created, sockets, mode, mine, copied, halfOpen>>
    BY <1>1 DEF Construct, opVars
  <2>2. handle[x] = Invalid
    BY <2>1 DEF HandlesInv, HandleInv, NoneYet
  <2>3. handle' = [handle EXCEPT ![x] = Invalid]
    BY <2>1, <2>2 DEF HandlesInv, HandlesTypeOK
  <2>4. dropped' = dropped \cup Overwritten(x)
    BY <2>1, <2>2 DEF Overwritten, Named, IsOpen
  <2>5. /\ life' \in [Objects -> {"none", "live", "gone"}] /\ life'[x] = "live"
        /\ \A y \in Objects \ {x} : life'[y] = life[y]
    BY <2>1 DEF HandlesInv, HandlesTypeOK
  <2> QED
    BY <2>1, <2>3, <2>4, <2>5, LoseInv
<1>2. CASE OpenFileFails(x)
  <2>1. /\ life' = life /\ dropped' = dropped \cup Overwritten(x)
        /\ handle' = [handle EXCEPT ![x] = Invalid] /\ UNCHANGED opVars
        /\ UNCHANGED closeVars /\ UNCHANGED <<table, created, sockets, mode, mine, copied, halfOpen>>
    BY <1>2 DEF OpenFileFails, opVars
  <2>2. life' \in [Objects -> {"none", "live", "gone"}]
    BY <2>1 DEF HandlesInv, HandlesTypeOK
  <2> QED
    BY <2>1, <2>2, LoseInv
<1> QED
  BY <1>1, <1>2

-----------------------------------------------------------------------------
(* The theorems                                                            *)

LEMMA HandlesInitInv ==
  ASSUME HandlesInit
  PROVE  HandlesInv
<1>1. HandlesTypeOK
  <2>1. NotIssued \in OpRecord
    BY DEF NotIssued, OpRecord, Nothing
  <2>2. copied \in BOOLEAN /\ crossed \in BOOLEAN
    BY DEF HandlesInit
  <2>3. op \in [Ops -> OpRecord]
    BY <2>1 DEF HandlesInit
  <2>4. /\ created \in 0..MaxKernel /\ table \in [Values -> 0..MaxKernel]
        /\ mine \in [Objects -> 0..MaxKernel]
    BY DEF HandlesInit, Nothing
  <2>5. /\ life \in [Objects -> {"none", "live", "gone"}]
        /\ handle \in [Objects -> Values \cup {Invalid}]
        /\ mode \in [Kernel -> {"unbound", "port", "skip"}]
        /\ called \in [Ops -> Nat] /\ frees \in [Ops -> Nat]
        /\ closing \in [Objects -> Nat]
    BY DEF HandlesInit
  <2> QED
    BY <2>2, <2>3, <2>4, <2>5 DEF HandlesTypeOK
<1>2. HandleInv
  BY DEF HandlesInit, HandleInv, NoneYet, TableMade, TableOnce, SoleNames, SoleHandle, Sole, Live, IsOpen,
         ModeInv, SocketsMade, Held, Nothing
<1>3. OpInv /\ PortOps
  BY DEF HandlesInit, OpInv, OpKern, OpFresh, OpEnded, OpDone, PortOps, NotIssued
<1> QED
  BY <1>1, <1>2, <1>3 DEF HandlesInv

LEMMA HandlesNextInv ==
  ASSUME HandlesInv, HandlesNext
  PROVE  HandlesInv'
<1>0. Sockets \subseteq Objects /\ Files \subseteq Objects
  BY DEF Objects
<1>1. ASSUME NEW x \in Objects, Offered(x) \/ OfferedFile(x) PROVE HandlesInv'
  BY <1>1, OpenInv, NoHandleInv, CloseInv, EndingInv DEF Offered, OfferedFile, Close
<1>2. ASSUME NEW x \in Sockets, NEW o \in Ops, IssueInline(o, x) \/ IssuePosted(o, x) PROVE HandlesInv'
  <2>1. x \in Objects /\ x \notin Files
    BY <1>0
  <2>2. CASE IssueInline(o, x)
    BY <2>1, <2>2, IssuedInv DEF IssueInline
  <2>3. CASE IssuePosted(o, x)
    BY <2>1, <2>3, IssuedInv DEF IssuePosted
  <2> QED
    BY <1>2, <2>2, <2>3
<1>3. ASSUME NEW x \in Files, NEW o \in Ops, IssueFile(o, x) PROVE HandlesInv'
  BY <1>0, <1>3, IssuedInv DEF IssueFile
<1>4. CASE \E x \in Sockets : StreamSocket(x) \/ DatagramSocket(x) \/ Acceptor(x)
  BY <1>0, <1>1, <1>2, <1>4 DEF StreamSocket, DatagramSocket, Acceptor
<1>5. CASE \E x \in Files : BasicFile(x)
  BY <1>0, <1>1, <1>3, <1>5 DEF BasicFile
<1>6. CASE \E x \in Objects :
             Construct(x) \/ ConstructThrows(x) \/ Adopt(x) \/ Forget(x) \/ Destroy(x)
  BY <1>6, NoHandleInv, ThrowsInv, OpenInv, CloseInv, ForgetInv
<1>7. CASE \E x, y \in Objects : Copy(x, y) \/ Assign(x, y)
  <2>1. PICK x \in Objects, y \in Objects : Copy(x, y) \/ Assign(x, y)
    BY <1>7
  <2>2. x \in Sockets /\ y \in Sockets
    BY <2>1 DEF Copy, Assign
  <2> QED
    BY <2>1, <2>2, CopyInv
<1>8. CASE \E o \in Ops : Throw(o) \/ InvokeInPlace(o) \/ Release(o) \/ CompleteOp(o) \/ WorkerCall(o)
  BY <1>8, SettleInv, EndingInv
<1> QED
  BY <1>4, <1>5, <1>6, <1>7, <1>8 DEF HandlesNext

LEMMA StutterInv ==
  ASSUME HandlesInv, UNCHANGED handleVars
  PROVE  HandlesInv'
<1>1. UNCHANGED objVars
  BY DEF handleVars, objVars
<1>2. HandlesTypeOK'
  BY DEF handleVars, HandlesInv, HandlesTypeOK
<1>3. OpInv' /\ PortOps'
  BY DEF handleVars, HandlesInv, OpInv, OpKern, OpFresh, OpEnded, OpDone, PortOps
<1> QED
  BY <1>1, <1>2, <1>3, ObjectsKept DEF HandlesInv

\* The invariant of handles and callbacks holds in every reachable state.
THEOREM HandlesInvariance == HandlesSpec => []HandlesInv
<1>1. HandlesInit => HandlesInv
  BY HandlesInitInv
<1>2. HandlesInv /\ [HandlesNext]_handleVars => HandlesInv'
  BY HandlesNextInv, StutterInv
<1> QED
  BY <1>1, <1>2, PTL DEF HandlesSpec

\* The issuing thread and the worker that takes the completion never touch a
\* callback object the other has deleted, except on a socket whose open() threw
\* after bind().
THEOREM CallbacksNotTouchedAfterDelete == HandlesSpec => []NoUseAfterDelete
<1>1. HandlesInv => NoUseAfterDelete
  BY InvSafe
<1> QED
  BY <1>1, HandlesInvariance, PTL

\* A callback is lost only to a success at once that posts nothing, or to a
\* handle that was never bound.
THEOREM CallbacksLostOnlyAtOnce == HandlesSpec => []LostNeedsAtOnce
<1>1. HandlesInv => LostNeedsAtOnce
  BY InvSafe
<1> QED
  BY <1>1, HandlesInvariance, PTL

\* Handles reach the wrong kernel object only between the two statements of
\* close(), after a call that overlapped them, or after a socket object was
\* copied; kernel objects leak only by an overwrite, a constructor that threw or
\* such an overlap.
THEOREM HandlesAreSound == HandlesSpec => []HandlesSound
<1>1. HandlesInv => HandlesSound
  BY InvSafe
<1> QED
  BY <1>1, HandlesInvariance, PTL

HIDE HandlesAssumption

-----------------------------------------------------------------------------
(* The client: no socket is forgotten and no disconnect is silent, as long *)
(* as start() is not called while a stop() is under way.                   *)

USE ClientAssumption DEF Kernels

Stops == {"stop", "stop_close", "stop_store"}
Discs == {"disc", "disc_close", "disc_store", "tell"}

\* The value domains: socket_ names a socket that was opened.
ClientTypeOK ==
  /\ opens \in Kernels /\ sock \in 0..opens
  /\ kern \in [Kernels -> {"none", "open", "connected", "closed"}]
  /\ where \in [Threads -> {"idle", "connect", "on_connect"} \cup Stops \cup Discs]
  /\ started \in BOOLEAN /\ overlapped \in BOOLEAN

NoneAhead == \A k \in Kernels : k > opens => kern[k] = "none"

\* Every socket but the one in socket_ is closed.
OnlyKept == \A k \in Kernels : kern[k] \in {"open", "connected"} => sock = k

\* A thread that is about to store INVALID_SOCKET finds closed what socket_ names.
StoresClosed ==
  \A t \in Threads : where[t] \in {"stop_store", "disc_store"} => sock = 0 \/ kern[sock] = "closed"

\* While the application believes the client started, no stop() is under way ...
NobodyStops == started => \A t \in Threads : where[t] \notin Stops

\* ... and the socket is connected, or start() has yet to connect it, or a
\* disconnect() is on its way that will tell.
WillTell ==
  started => \/ sock # 0 /\ kern[sock] = "connected"
             \/ where[App] = "connect"
             \/ \E t \in Threads : where[t] \in Discs

ClientInv ==
  /\ ClientTypeOK /\ NoneAhead
  /\ overlapped \/ (OnlyKept /\ StoresClosed /\ NobodyStops /\ WillTell)

\* The constructor opens the first socket.
LEMMA ClientInitInv == ClientInit => ClientInv
<1> SUFFICES ASSUME ClientInit PROVE ClientInv
  OBVIOUS
<1>0. /\ kern \in [Kernels -> {"none", "open", "connected", "closed"}]
      /\ where \in [Threads -> {"idle", "connect", "on_connect"} \cup Stops \cup Discs]
  BY DEF ClientInit
<1>4. opens \in Kernels /\ sock \in 0..opens
  BY DEF ClientInit
<1>5. started \in BOOLEAN /\ overlapped \in BOOLEAN
  BY DEF ClientInit
<1>1. ClientTypeOK
  BY <1>0, <1>4, <1>5 DEF ClientTypeOK
<1>2. NoneAhead /\ OnlyKept
  BY DEF ClientInit, NoneAhead, OnlyKept
<1>3. StoresClosed /\ NobodyStops /\ WillTell
  BY DEF ClientInit, StoresClosed, NobodyStops, WillTell
<1> QED
  BY <1>1, <1>2, <1>3 DEF ClientInv

\* Steps that leave the socket and what the application knows alone.
LEMMA Moves ==
  ASSUME ClientInv, NEW t \in Threads, NEW from, NEW to, Goes(t, from, to),
         UNCHANGED <<sock, opens, kern, started, overlapped>>,
         to \in {"idle", "connect", "on_connect"} \cup Stops \cup Discs,
         to \notin {"stop_store", "disc_store"},
         to \in Stops => from \in Stops,
         from \in Discs => to \in Discs,
         from # "connect"
  PROVE  ClientInv'
<1>1. \A u \in Threads : where'[u] = IF u = t THEN to ELSE where[u]
  BY DEF ClientInv, ClientTypeOK, Goes
<1>2. where[t] = from /\ App \in Threads
  BY DEF Goes, Threads
<1>3. ClientTypeOK' /\ NoneAhead'
  BY DEF ClientInv, ClientTypeOK, NoneAhead, Goes
<1>4. OnlyKept => OnlyKept'
  BY DEF OnlyKept
<1>5. StoresClosed => StoresClosed'
  BY <1>1 DEF StoresClosed
<1>6. NobodyStops => NobodyStops'
  BY <1>1, <1>2 DEF NobodyStops
<1>7. WillTell => WillTell'
  BY <1>1, <1>2 DEF WillTell
<1> QED
  BY <1>3, <1>4, <1>5, <1>6, <1>7 DEF ClientInv

\* start().
LEMMA ClientStartInv ==
  ASSUME ClientInv,
         StartOpen \/ Connect \/ StartFails \/ \E e \in BOOLEAN : OnConnect(e)
  PROVE  ClientInv'
<1>0. App \in Threads
  BY DEF Threads
<1>1. CASE StartOpen
  <2>1. ClientTypeOK' /\ NoneAhead'
    BY <1>0, <1>1 DEF StartOpen, Goes, ClientInv, ClientTypeOK, NoneAhead, Stops, Discs
  <2>2. \A u \in Threads : where'[u] = IF u = App THEN "connect" ELSE where[u]
    BY <1>0, <1>1 DEF StartOpen, Goes, ClientInv, ClientTypeOK
  <2>3. ASSUME ~overlapped' PROVE OnlyKept' /\ StoresClosed' /\ NobodyStops' /\ WillTell'
    <3>1. ~overlapped /\ \A t \in Threads : ~Stopping(t)
      BY <1>1, <2>3 DEF StartOpen
    <3>2. \A t \in Threads : where'[t] \notin Stops /\ where'[t] # "disc_store"
      BY <2>2, <3>1 DEF Stopping, Stops
    <3>3. OnlyKept'
      BY <1>1, <3>1 DEF StartOpen, ClientInv, ClientTypeOK, NoneAhead, OnlyKept
    <3>4. StoresClosed' /\ NobodyStops'
      BY <3>2 DEF StoresClosed, NobodyStops, Stops
    <3>5. WillTell'
      BY <1>0, <2>2 DEF WillTell
    <3> QED
      BY <3>3, <3>4, <3>5
  <2> QED
    BY <2>1, <2>3 DEF ClientInv
<1>2. CASE Connect
  <2>1. ClientTypeOK' /\ NoneAhead'
    BY <1>0, <1>2 DEF Connect, Goes, ClientInv, ClientTypeOK, NoneAhead, Stops, Discs
  <2>2. /\ \A u \in Threads : where'[u] = IF u = App THEN "on_connect" ELSE where[u]
        /\ sock # 0 /\ kern[sock] = "open" /\ sock \in Kernels
        /\ UNCHANGED <<sock, started, overlapped>>
        /\ \A k \in Kernels : kern'[k] = IF k = sock THEN "connected" ELSE kern[k]
    BY <1>0, <1>2 DEF Connect, Goes, ClientInv, ClientTypeOK
  <2>3. OnlyKept => OnlyKept'
    BY <2>2 DEF OnlyKept
  <2>4. StoresClosed => StoresClosed'
    BY <2>2 DEF StoresClosed
  <2>5. NobodyStops => NobodyStops'
    BY <2>2 DEF NobodyStops, Stops
  <2>6. WillTell'
    BY <2>2 DEF WillTell
  <2> QED
    BY <2>1, <2>2, <2>3, <2>4, <2>5, <2>6 DEF ClientInv
<1>3. CASE StartFails
  <2>1. ClientTypeOK' /\ NoneAhead'
    BY <1>0, <1>3 DEF StartFails, Goes, ClientInv, ClientTypeOK, NoneAhead, Stops, Discs
  <2>2. /\ \A u \in Threads : where'[u] = IF u = App THEN "idle" ELSE where[u]
        /\ UNCHANGED <<sock, kern, overlapped>> /\ ~started'
    BY <1>0, <1>3 DEF StartFails, Goes, ClientInv, ClientTypeOK
  <2>3. (OnlyKept => OnlyKept') /\ (StoresClosed => StoresClosed') /\ NobodyStops' /\ WillTell'
    BY <2>2 DEF OnlyKept, StoresClosed, NobodyStops, WillTell
  <2> QED
    BY <2>1, <2>2, <2>3 DEF ClientInv
<1>4. ASSUME NEW e \in BOOLEAN, OnConnect(e) PROVE ClientInv'
  BY <1>0, <1>4, Moves DEF OnConnect, Stops, Discs
<1> QED
  BY <1>1, <1>2, <1>3, <1>4

\* stop() and disconnect(), in the application's thread or in a worker.
LEMMA ClientStopInv ==
  ASSUME ClientInv, NEW t \in Threads,
         Stop(t) \/ CheckOpen(t) \/ CloseSocket(t) \/ StoreInvalid(t) \/ TellDisconnect(t)
  PROVE  ClientInv'
<1>0. App \in Threads
  BY DEF Threads
<1>1. CASE Stop(t) \/ TellDisconnect(t)
  <2>1. ClientTypeOK' /\ NoneAhead'
    BY <1>1 DEF Stop, TellDisconnect, Goes, ClientInv, ClientTypeOK, NoneAhead, Stops, Discs
  <2>2. /\ \A u \in Threads : where'[u] \in {"stop_store", "disc_store"} => where[u] = where'[u]
        /\ UNCHANGED <<sock, kern, overlapped>> /\ ~started'
    BY <1>1 DEF Stop, TellDisconnect, Goes, ClientInv, ClientTypeOK
  <2>3. (OnlyKept => OnlyKept') /\ (StoresClosed => StoresClosed') /\ NobodyStops' /\ WillTell'
    BY <2>2 DEF OnlyKept, StoresClosed, NobodyStops, WillTell
  <2> QED
    BY <2>1, <2>2, <2>3 DEF ClientInv
<1>2. CASE CheckOpen(t)
  <2>1. PICK from \in {"stop", "disc"}, to \in {"stop_close", "idle", "disc_close", "tell"} :
          /\ Goes(t, from, to)
          /\ to \in Stops => from \in Stops
          /\ from \in Discs => to \in Discs
    BY <1>2 DEF CheckOpen, Stops, Discs
  <2> QED
    BY <1>2, <2>1, Moves DEF CheckOpen, Stops, Discs
<1>3. CASE CloseSocket(t)
  <2>1. ClientTypeOK'
    BY <1>3 DEF CloseSocket, CloseKernel, Goes, ClientInv, ClientTypeOK, Stops, Discs
  <2>2. /\ \/ where[t] = "stop_close" /\ where'[t] = "stop_store"
           \/ where[t] = "disc_close" /\ where'[t] = "disc_store"
        /\ \A u \in Threads : u # t => where'[u] = where[u]
        /\ UNCHANGED <<sock, started, overlapped>>
        /\ sock = 0 \/ kern'[sock] = "closed"
        /\ \A k \in Kernels : kern'[k] = kern[k] \/ (k = sock /\ kern'[k] = "closed")
    <3>1. kern' = IF sock # 0 THEN [kern EXCEPT ![sock] = "closed"] ELSE kern
      BY <1>3, Zenon DEF CloseSocket, CloseKernel
    <3>2. /\ Goes(t, "stop_close", "stop_store") \/ Goes(t, "disc_close", "disc_store")
          /\ UNCHANGED <<sock, started, overlapped>>
      BY <1>3 DEF CloseSocket
    <3> QED
      BY <3>1, <3>2 DEF Goes, ClientInv, ClientTypeOK
  <2>6. NoneAhead'
    BY <1>3, <2>2 DEF CloseSocket, ClientInv, ClientTypeOK, NoneAhead
  <2>3. OnlyKept => OnlyKept'
    BY <2>2 DEF OnlyKept
  <2>4. StoresClosed'
    BY <2>2 DEF StoresClosed
  <2>5. NobodyStops => NobodyStops' /\ WillTell'
    BY <2>2 DEF NobodyStops, WillTell, Stops, Discs
  <2> QED
    BY <2>1, <2>2, <2>3, <2>4, <2>5, <2>6 DEF ClientInv
<1>4. CASE StoreInvalid(t)
  <2>1. ClientTypeOK' /\ NoneAhead'
    BY <1>4 DEF StoreInvalid, Goes, ClientInv, ClientTypeOK, NoneAhead, Stops, Discs
  <2>2. /\ \/ where[t] = "stop_store" /\ where'[t] = "idle"
           \/ where[t] = "disc_store" /\ where'[t] = "tell"
        /\ \A u \in Threads : u # t => where'[u] = where[u]
        /\ UNCHANGED <<kern, started, overlapped>> /\ sock' = 0
    BY <1>4 DEF StoreInvalid, Goes, ClientInv, ClientTypeOK
  <2>3. OnlyKept /\ StoresClosed => OnlyKept'
    BY <2>2 DEF OnlyKept, StoresClosed, ClientInv, ClientTypeOK
  <2>4. StoresClosed'
    BY <2>2 DEF StoresClosed
  <2>5. NobodyStops => NobodyStops' /\ WillTell'
    BY <2>2 DEF NobodyStops, WillTell, Stops, Discs
  <2> QED
    BY <2>1, <2>2, <2>3, <2>4, <2>5 DEF ClientInv
<1> QED
  BY <1>1, <1>2, <1>3, <1>4

\* Transfers and their completions.
LEMMA ClientTransferInv ==
  ASSUME ClientInv, NEW t \in Threads,
         \/ Transfer(t)
         \/ \E o \in ClientOps : Issue(t, o) \/ Handle(t, o)
  PROVE  ClientInv'
<1>1. PICK to \in {"idle", "disc"} :
        Goes(t, "idle", to) /\ UNCHANGED <<sock, opens, kern, started, overlapped>>
  BY DEF Transfer, Issue, Handle, After
<1> QED
  BY <1>1, Moves DEF Stops, Discs

\* Every step preserves the invariant.
LEMMA ClientNextInv ==
  ASSUME ClientInv, [ClientNext]_clientVars
  PROVE  ClientInv'
<1>1. ASSUME UNCHANGED <<sock, opens, kern, where, started, overlapped>> PROVE ClientInv'
  BY <1>1 DEF ClientInv, ClientTypeOK, NoneAhead, OnlyKept, StoresClosed, NobodyStops, WillTell
<1>2. CASE UNCHANGED clientVars
  BY <1>1, <1>2 DEF clientVars
<1>3. ASSUME NEW o \in ClientOps, CompleteTransfer(o) PROVE ClientInv'
  BY <1>1, <1>3 DEF CompleteTransfer
<1> QED
  BY <1>2, <1>3, ClientStartInv, ClientStopInv, ClientTransferInv DEF ClientNext

\* The invariant holds of the client.
THEOREM ClientInvariance == ClientSpec => []ClientInv
  BY ClientInitInv, ClientNextInv, PTL DEF ClientSpec

\* No socket the client opened is left open with nobody to close it, however
\* stop() and the disconnect() calls of several workers interleave.
THEOREM SocketKeptOrClosed == ClientSpec => []KeptOrClosed
<1>1. ClientInv => KeptOrClosed
  BY DEF ClientInv, OnlyKept, KeptOrClosed
<1> QED
  BY <1>1, ClientInvariance, PTL

\* When every call has returned, a client that is started and was not told of a
\* disconnect is connected.
THEOREM DisconnectIsTold == ClientSpec => []ToldOrOpen
<1>1. ClientInv => ToldOrOpen
  BY DEF ClientInv, WillTell, ToldOrOpen, Quiet, Threads, Discs
<1> QED
  BY <1>1, ClientInvariance, PTL

HIDE ClientAssumption DEF Kernels

-----------------------------------------------------------------------------
(* The directory monitor                                                   *)

Changes == 1..changes
Flying == {r \in Requests : req[r] \in {"queued", "reporting"}}

MonitorTypeOK ==
  /\ isOpen \in BOOLEAN /\ overflowed \in BOOLEAN
  /\ changes \in Nat /\ asked \in 0..MaxRequests
  /\ kept \in Seq(Changes) /\ reported \in Seq(Changes) /\ missed \subseteq Changes
  /\ req \in [Requests -> {"none", "waiting", "queued", "reporting", "freed", "leaked"}]
  /\ DOMAIN batch = Requests
  /\ \A r \in Requests : batch[r] \in Seq(Changes)

\* The requests made are the first ones; one that has no answer yet has no changes;
\* the system drops what it kept when it overflows.
RequestsInOrder ==
  /\ \A r \in Requests : req[r] = "none" <=> r > asked
  /\ \A r \in Requests : req[r] \in {"none", "waiting"} => batch[r] = <<>>
  /\ overflowed => kept = <<>>

\* No change is twice in the system's buffer, in one request or in two of them.
Distinct(s) == \A i, j \in 1..Len(s) : s[i] = s[j] => i = j
BatchesApart ==
  /\ Distinct(kept)
  /\ \A r \in Flying : Distinct(batch[r])
  /\ \A r, q \in Flying : r # q => ToSet(batch[r]) \cap ToSet(batch[q]) = {}

\* How often a change was reported, whether the system keeps it, and whether a
\* request carries it.
Reports(c) == Cardinality({i \in DOMAIN reported : reported[i] = c})
IsKept(c) == c \in ToSet(kept)
Carried(c) == \E r \in Flying : c \in ToSet(batch[r])

\* Each change is in exactly one place.
Placed(c) ==
  \/ c \in missed /\ Reports(c) = 0 /\ ~IsKept(c) /\ ~Carried(c)
  \/ c \notin missed /\ Reports(c) = 1 /\ ~IsKept(c) /\ ~Carried(c)
  \/ c \notin missed /\ Reports(c) = 0 /\ IsKept(c) /\ ~Carried(c)
  \/ c \notin missed /\ Reports(c) = 0 /\ ~IsKept(c) /\ Carried(c)

MissedForCause ==
  missed \ skipped # {} => ended # "no" \/ overflowed \/ \E r \in Requests : req[r] = "queued" /\ batch[r] = <<>>

\* The inductive invariant of the monitor.
MonitorInv ==
  /\ MonitorTypeOK /\ RequestsInOrder /\ BatchesApart
  /\ \A c \in Changes : Placed(c)
  /\ MissedForCause /\ StillWatching


-----------------------------------------------------------------------------

\* The members of a sequence with one more item, and without its first.
LEMMA MembersAppended ==
  ASSUME NEW S, NEW s \in Seq(S), NEW e
  PROVE  /\ \A x : x \in ToSet(Append(s, e)) <=> x \in ToSet(s) \/ x = e
         /\ Distinct(s) /\ e \notin ToSet(s) => Distinct(Append(s, e))
<1>1. /\ Len(Append(s, e)) = Len(s) + 1 /\ DOMAIN Append(s, e) = 1..(Len(s) + 1) /\ DOMAIN s = 1..Len(s)
      /\ \A i \in 1..Len(s) : Append(s, e)[i] = s[i]
      /\ Append(s, e)[Len(s) + 1] = e /\ Len(s) \in Nat
  OBVIOUS
<1>2. \A x : x \in ToSet(Append(s, e)) <=> x \in ToSet(s) \/ x = e
  BY <1>1 DEF ToSet
<1>3. Distinct(s) /\ e \notin ToSet(s) => Distinct(Append(s, e))
  BY <1>1 DEF ToSet, Distinct
<1> QED
  BY <1>2, <1>3

LEMMA MembersOfTail ==
  ASSUME NEW S, NEW s \in Seq(S), s # <<>>, Distinct(s)
  PROVE  /\ Head(s) \in ToSet(s) /\ Head(s) \in S /\ Tail(s) \in Seq(S)
         /\ \A x : x \in ToSet(Tail(s)) <=> x \in ToSet(s) /\ x # Head(s)
         /\ Distinct(Tail(s))
<1>1. /\ Len(s) > 0 /\ Len(s) \in Nat /\ DOMAIN s = 1..Len(s)
  OBVIOUS
<1>2. /\ Head(s) = s[1] /\ s[1] \in S /\ Tail(s) \in Seq(S) /\ Len(Tail(s)) = Len(s) - 1
      /\ \A i \in 1..(Len(s) - 1) : Tail(s)[i] = s[i + 1]
  BY <1>1, HeadTailProperties
<1>3. DOMAIN Tail(s) = 1..(Len(s) - 1)
  BY <1>2
<1>4. Head(s) \in ToSet(s)
  BY <1>1, <1>2 DEF ToSet
<1>5. ASSUME NEW x \in ToSet(Tail(s)) PROVE x \in ToSet(s) /\ x # Head(s)
  <2>1. PICK i \in 1..(Len(s) - 1) : x = s[i + 1]
    BY <1>2, <1>3 DEF ToSet
  <2>2. i + 1 \in 1..Len(s) /\ i + 1 # 1 /\ 1 \in 1..Len(s)
    BY <1>1
  <2> QED
    BY <1>1, <1>2, <2>1, <2>2 DEF ToSet, Distinct
<1>6. ASSUME NEW x \in ToSet(s), x # Head(s) PROVE x \in ToSet(Tail(s))
  <2>1. PICK i \in 1..Len(s) : x = s[i] /\ i # 1
    BY <1>1, <1>2, <1>6 DEF ToSet
  <2>2. i - 1 \in 1..(Len(s) - 1) /\ (i - 1) + 1 = i
    BY <1>1, <2>1
  <2>3. Tail(s)[i - 1] = x
    BY <1>2, <2>1, <2>2
  <2> QED
    BY <1>3, <2>2, <2>3 DEF ToSet
<1>7. Distinct(Tail(s))
  <2> SUFFICES ASSUME NEW i \in 1..(Len(s) - 1), NEW j \in 1..(Len(s) - 1), Tail(s)[i] = Tail(s)[j]
               PROVE  i = j
    BY <1>2 DEF Distinct
  <2>1. s[i + 1] = s[j + 1] /\ i + 1 \in 1..Len(s) /\ j + 1 \in 1..Len(s)
    BY <1>1, <1>2
  <2>2. i + 1 = j + 1
    BY <2>1 DEF Distinct
  <2> QED
    BY <2>2
<1> QED
  BY <1>2, <1>4, <1>5, <1>6, <1>7

LEMMA NoMembers == ToSet(<<>>) = {} /\ Distinct(<<>>)
BY DEF ToSet, Distinct

\* How often a change was reported after one more report; never before it was made.
LEMMA ReportsCount ==
  ASSUME MonitorTypeOK, NEW c
  PROVE  /\ Reports(c) \in Nat
         /\ c \notin Changes => Reports(c) = 0
         /\ \A x : reported' = Append(reported, x) => Reports(c)' = Reports(c) + IF x = c THEN 1 ELSE 0
<1> DEFINE I == {i \in DOMAIN reported : reported[i] = c}
<1>1. reported \in Seq(Changes) /\ Len(reported) \in Nat /\ DOMAIN reported = 1..Len(reported)
  BY DEF MonitorTypeOK
<1>2. IsFiniteSet(1..Len(reported))
  BY <1>1, FS_Interval
<1>3. IsFiniteSet(I)
  BY <1>1, <1>2, FS_Subset
<1>4. Cardinality(I) \in Nat
  BY <1>3, FS_CardinalityType
<1>5. c \notin Changes => I = {}
  BY <1>1
<1>6. Reports(c) = Cardinality(I)
  BY DEF Reports
<1>7. ASSUME NEW x, reported' = Append(reported, x)
      PROVE  Reports(c)' = Reports(c) + IF x = c THEN 1 ELSE 0
  <2> DEFINE J == {i \in DOMAIN reported' : reported'[i] = c}
  <2>1. /\ DOMAIN reported' = 1..(Len(reported) + 1)
        /\ \A i \in 1..Len(reported) : reported'[i] = reported[i]
        /\ reported'[Len(reported) + 1] = x
    BY <1>1, <1>7
  <2>2. CASE x = c
    <3>1. J = I \cup {Len(reported) + 1} /\ Len(reported) + 1 \notin I
      BY <1>1, <2>1, <2>2
    <3>2. Cardinality(J) = Cardinality(I) + 1
      BY <1>3, <3>1, FS_AddElement
    <3> QED
      BY <1>6, <2>2, <3>2 DEF Reports
  <2>3. CASE x # c
    <3>1. J = I
      BY <1>1, <2>1, <2>3
    <3> QED
      BY <1>4, <1>6, <2>3, <3>1 DEF Reports
  <2> QED
    BY <2>2, <2>3
<1>8. Cardinality({}) = 0
  BY FS_EmptySet
<1> QED
  BY <1>4, <1>5, <1>6, <1>7, <1>8

\* A step that neither makes nor reports a change leaves it where it is, unless
\* it says otherwise.
LEMMA StaysPlaced ==
  ASSUME NEW c, Placed(c), Reports(c)' = Reports(c), c \in missed' <=> c \in missed,
         IsKept(c)' <=> IsKept(c), Carried(c)' <=> Carried(c)
  PROVE  Placed(c)'
BY DEF Placed


\* Every step keeps the invariant.
LEMMA MonitorStep ==
  ASSUME MonitorInv, [MonitorNext]_monitorVars
  PROVE  MonitorInv'
<1> USE DEF MonitorInv
<1>0. /\ isOpen \in BOOLEAN /\ overflowed \in BOOLEAN /\ changes \in Nat /\ asked \in 0..MaxRequests
      /\ kept \in Seq(Changes) /\ reported \in Seq(Changes) /\ missed \subseteq Changes
      /\ req \in [Requests -> {"none", "waiting", "queued", "reporting", "freed", "leaked"}]
      /\ DOMAIN batch = Requests /\ \A r \in Requests : batch[r] \in Seq(Changes)
  BY DEF MonitorTypeOK
<1>1. CASE Open
  <2>1. Changes' = Changes /\ Flying' = Flying
    BY <1>1 DEF Open, Changes, Flying
  <2>2. \A c \in Changes : Placed(c)'
    BY <1>1, <2>1, StaysPlaced DEF Open, Reports, IsKept, Carried
  <2>3. MonitorTypeOK'
    BY <1>1, <2>1 DEF Open, MonitorTypeOK
  <2>4. RequestsInOrder' /\ MissedForCause' /\ StillWatching'
    BY <1>1 DEF Open, RequestsInOrder, MissedForCause, StillWatching
  <2>5. BatchesApart'
    BY <1>1, <2>1 DEF Open, BatchesApart
  <2> QED
    BY <2>1, <2>2, <2>3, <2>4, <2>5
<1>2. CASE Monitor
  <2>1. /\ asked = 0 /\ asked' = 1 /\ 1 \in Requests /\ req' = [req EXCEPT ![1] = "waiting"] /\ req[1] = "none"
        /\ UNCHANGED <<isOpen, destroyed, changes, kept, overflowed, batch, missed, skipped, reported, ended>>
    BY <1>2, <1>0, MonitorAssumption DEF Monitor, Ask, Requests, RequestsInOrder, MonitorAssumption
  <2>2. Changes' = Changes /\ Flying' = Flying
    BY <1>0, <2>1 DEF Changes, Flying
  <2>3. \A c \in Changes : Placed(c)'
    BY <2>1, <2>2, StaysPlaced DEF Reports, IsKept, Carried
  <2>4. MonitorTypeOK'
    BY <1>0, <2>1, <2>2 DEF MonitorTypeOK, Requests
  <2>5. RequestsInOrder'
    <3>1. ASSUME NEW r \in Requests PROVE req'[r] = "none" <=> r > asked'
      <4>1. r \in Nat /\ r >= 1 /\ (req[r] = "none" <=> r > 0)
        BY <2>1, MonitorAssumption DEF RequestsInOrder, Requests, MonitorAssumption
      <4>2. CASE r = 1
        BY <1>0, <2>1, <4>2
      <4>3. CASE r # 1
        BY <1>0, <2>1, <4>1, <4>3
      <4> QED
        BY <4>2, <4>3
    <3> QED
      BY <1>0, <2>1, <3>1 DEF RequestsInOrder
  <2>6. MissedForCause'
    BY <1>0, <2>1 DEF MissedForCause
  <2>7. StillWatching'
    BY <1>0, <2>1 DEF StillWatching
  <2>8. BatchesApart'
    BY <2>1, <2>2 DEF BatchesApart
  <2> QED
    BY <2>2, <2>3, <2>4, <2>5, <2>6, <2>7, <2>8
<1>3. CASE Change
  <2>0. PICK n \in Nat : n = changes + 1
    BY <1>0
  <2>1. /\ changes' = n /\ Flying' = Flying /\ Changes' = Changes \cup {n}
        /\ n \notin Changes
        /\ UNCHANGED <<isOpen, destroyed, asked, req, batch, skipped, reported, ended>>
    BY <1>3, <1>0, <2>0 DEF Change, Changes, Flying
  <2>2. Seq(Changes) \subseteq Seq(Changes')
    BY <2>1, SeqMonotonic
  <2>3. Reports(n)' = 0 /\ ~Carried(n)' /\ ~IsKept(n) /\ n \notin missed
    <3>1. Reports(n)' = Reports(n) /\ Reports(n) = 0
      BY <2>1, ReportsCount DEF Reports
    <3>2. \A q \in Seq(Changes) : n \notin ToSet(q)
      BY <2>1 DEF ToSet
    <3> QED
      BY <1>0, <2>1, <3>1, <3>2 DEF Carried, IsKept, Flying
  <2>4. \A c \in Changes : Reports(c)' = Reports(c) /\ (Carried(c)' <=> Carried(c))
    BY <2>1 DEF Reports, Carried
  <2>5. CASE Len(kept) < BufferLen /\ ~overflowed
    <3>1. kept' = Append(kept, n) /\ UNCHANGED <<overflowed, missed>>
      BY <1>3, <2>0, <2>5 DEF Change
    <3>2. /\ \A x : x \in ToSet(kept') <=> x \in ToSet(kept) \/ x = n
          /\ Distinct(kept')
      BY <1>0, <2>3, <3>1, MembersAppended DEF BatchesApart, IsKept
    <3>3. kept' \in Seq(Changes')
      BY <1>0, <2>1, <2>2, <3>1
    <3>4. \A c \in Changes : Placed(c)'
      BY <2>1, <2>4, <3>1, <3>2, StaysPlaced DEF IsKept
    <3>5. Placed(n)'
      BY <2>3, <3>1, <3>2 DEF Placed, IsKept
    <3>6. MonitorTypeOK'
      BY <1>0, <2>1, <2>2, <3>1, <3>3 DEF MonitorTypeOK
    <3>7. RequestsInOrder' /\ MissedForCause' /\ StillWatching'
      BY <2>1, <2>5, <3>1 DEF RequestsInOrder, MissedForCause, StillWatching
    <3>8. BatchesApart'
      BY <2>1, <3>2 DEF BatchesApart
    <3> QED
      BY <2>1, <3>4, <3>5, <3>6, <3>7, <3>8
  <2>6. CASE ~(Len(kept) < BufferLen /\ ~overflowed)
    <3>1. overflowed' = TRUE /\ kept' = <<>> /\ missed' = missed \cup ToSet(kept) \cup {n}
      BY <1>3, <2>0, <2>6 DEF Change
    <3>2. ASSUME NEW c \in Changes PROVE Placed(c)'
      <4>1. Placed(c) /\ ~IsKept(c)' /\ c # n
        BY <2>1, <3>1, NoMembers DEF IsKept
      <4> QED
        BY <2>4, <3>1, <4>1 DEF Placed, IsKept
    <3>3. Placed(n)'
      BY <2>3, <3>1, NoMembers DEF Placed, IsKept
    <3>4. ToSet(kept) \subseteq Changes
      BY <1>0 DEF ToSet
    <3>5. MonitorTypeOK'
      BY <1>0, <2>1, <2>2, <3>1, <3>4 DEF MonitorTypeOK
    <3>6. RequestsInOrder' /\ MissedForCause' /\ StillWatching'
      BY <2>1, <3>1 DEF RequestsInOrder, MissedForCause, StillWatching
    <3>7. BatchesApart'
      BY <2>1, <3>1, NoMembers DEF BatchesApart
    <3> QED
      BY <2>1, <3>2, <3>3, <3>5, <3>6, <3>7
  <2> QED
    BY <2>5, <2>6
<1>4. ASSUME NEW r \in Requests, CompleteRequest(r) PROVE MonitorInv'
  <2>1. /\ req[r] = "waiting" /\ req' = [req EXCEPT ![r] = "queued"] /\ batch' = [batch EXCEPT ![r] = kept]
        /\ kept' = <<>> /\ overflowed' = FALSE
        /\ UNCHANGED <<isOpen, destroyed, changes, asked, missed, skipped, reported, ended>>
    BY <1>4 DEF CompleteRequest, Waiting
  <2>2. Changes' = Changes /\ Flying' = Flying \cup {r} /\ r \notin Flying
    BY <1>0, <2>1 DEF Changes, Flying
  <2>3. batch'[r] = kept /\ \A q \in Flying : batch'[q] = batch[q]
    BY <1>0, <2>1, <2>2 DEF Flying
  <2>4. ASSUME NEW c \in Changes PROVE Placed(c)'
    <3>1. Placed(c) /\ Reports(c)' = Reports(c) /\ ~IsKept(c)' /\ (c \in missed' <=> c \in missed)
      BY <2>1, NoMembers DEF IsKept, Reports
    <3>2. Carried(c)' <=> Carried(c) \/ IsKept(c)
      BY <2>2, <2>3 DEF Carried, IsKept
    <3> QED
      BY <3>1, <3>2 DEF Placed
  <2>5. MonitorTypeOK'
    <3>1. isOpen' \in BOOLEAN /\ overflowed' \in BOOLEAN
      BY <1>0, <2>1
    <3>2. kept' \in Seq(Changes') /\ \A q \in Requests : batch'[q] \in Seq(Changes')
      BY <1>0, <2>1, <2>2
    <3>3. DOMAIN batch' = Requests /\ req' \in [Requests -> {"none", "waiting", "queued", "reporting", "freed", "leaked"}]
      BY <1>0, <2>1
    <3> QED
      BY <1>0, <2>1, <2>2, <3>1, <3>2, <3>3 DEF MonitorTypeOK
  <2>6. RequestsInOrder'
    BY <1>0, <2>1 DEF RequestsInOrder
  <2>7. MissedForCause'
    BY <1>0, <2>1 DEF MissedForCause, RequestsInOrder
  <2>8. StillWatching'
    BY <1>0, <2>1 DEF StillWatching
  <2>9. BatchesApart'
    <3>1. \A q \in Flying : ToSet(kept) \cap ToSet(batch[q]) = {}
      <4> SUFFICES ASSUME NEW q \in Flying, NEW c \in ToSet(kept), c \in ToSet(batch[q]) PROVE FALSE
        OBVIOUS
      <4>1. c \in Changes
        BY <1>0 DEF ToSet
      <4> QED
        BY <4>1 DEF Placed, IsKept, Carried
    <3> QED
      BY <2>1, <2>2, <2>3, <3>1, NoMembers DEF BatchesApart
  <2> QED
    BY <2>2, <2>4, <2>5, <2>6, <2>7, <2>8, <2>9
<1>5. CASE CloseMonitor
  <2>1. /\ isOpen' = FALSE /\ missed' = missed \cup ToSet(kept) /\ kept' = <<>> /\ overflowed' = FALSE
        /\ req' = [q \in Requests |-> IF q \in Waiting THEN "queued" ELSE req[q]]
        /\ ended' = (IF ended = "no" THEN "closed" ELSE ended)
        /\ UNCHANGED <<changes, asked, batch, skipped, reported>>
    BY <1>5 DEF CloseMonitor
  <2>2. /\ Changes' = Changes /\ Flying' = Flying \cup Waiting /\ Flying \cap Waiting = {} /\ Waiting \subseteq Requests
        /\ \A q \in Waiting : batch[q] = <<>>
    BY <1>0, <2>1 DEF Changes, Flying, Waiting, RequestsInOrder
  <2>3. ASSUME NEW c \in Changes PROVE Placed(c)'
    <3>1. Placed(c) /\ Reports(c)' = Reports(c) /\ ~IsKept(c)' /\ (c \in missed' <=> c \in missed \/ IsKept(c))
      BY <2>1, NoMembers DEF IsKept, Reports
    <3>2. Carried(c)' <=> Carried(c)
      BY <2>1, <2>2, NoMembers DEF Carried
    <3> QED
      BY <3>1, <3>2 DEF Placed
  <2>4. ToSet(kept) \subseteq Changes
    BY <1>0 DEF ToSet
  <2>5. MonitorTypeOK'
    <3>1. isOpen' \in BOOLEAN /\ overflowed' \in BOOLEAN
      BY <2>1
    <3>2. kept' \in Seq(Changes') /\ missed' \subseteq Changes'
      BY <1>0, <2>1, <2>2, <2>4
    <3>3. req' \in [Requests -> {"none", "waiting", "queued", "reporting", "freed", "leaked"}]
      BY <1>0, <2>1
    <3> QED
      BY <1>0, <2>1, <2>2, <3>1, <3>2, <3>3 DEF MonitorTypeOK
  <2>6. RequestsInOrder'
    BY <1>0, <2>1 DEF RequestsInOrder, Waiting
  <2>7. MissedForCause' /\ StillWatching'
    BY <2>1 DEF MissedForCause, StillWatching
  <2>8. BatchesApart'
    BY <2>1, <2>2, NoMembers DEF BatchesApart
  <2> QED
    BY <2>2, <2>3, <2>5, <2>6, <2>7, <2>8
<1>6. ASSUME NEW r \in Requests, HookEmpty(r) PROVE MonitorInv'
  <2>1. /\ req[r] = "queued" /\ batch[r] = <<>> /\ req' = [req EXCEPT ![r] = "freed"] /\ ended' # "no"
        /\ UNCHANGED <<isOpen, destroyed, changes, kept, overflowed, asked, batch, missed, skipped, reported>>
    BY <1>6 DEF HookEmpty
  <2>2. Changes' = Changes /\ Flying' = Flying \ {r}
    BY <1>0, <2>1 DEF Changes, Flying
  <2>3. ASSUME NEW c \in Changes PROVE Placed(c)'
    <3>1. Carried(c)' <=> Carried(c)
      BY <2>1, <2>2, NoMembers DEF Carried
    <3> QED
      BY <2>1, <3>1, StaysPlaced DEF Reports, IsKept
  <2>4. MonitorTypeOK'
    BY <1>0, <2>1, <2>2 DEF MonitorTypeOK
  <2>5. RequestsInOrder' /\ MissedForCause' /\ StillWatching'
    BY <1>0, <2>1 DEF RequestsInOrder, MissedForCause, StillWatching
  <2>6. BatchesApart'
    BY <2>1, <2>2 DEF BatchesApart
  <2> QED
    BY <2>2, <2>3, <2>4, <2>5, <2>6
<1>7. ASSUME NEW r \in Requests, HookAsk(r) PROVE MonitorInv'
  <2>1. /\ req[r] = "queued" /\ batch[r] # <<>> /\ asked + 1 \in Requests /\ asked' = asked + 1
        /\ req[asked + 1] = "none" /\ asked + 1 # r
        /\ req' = [req EXCEPT ![asked + 1] = "waiting", ![r] = "reporting"]
        /\ UNCHANGED <<isOpen, destroyed, changes, kept, overflowed, batch, missed, skipped, reported, ended>>
    BY <1>7, <1>0, MonitorAssumption DEF HookAsk, Requests, RequestsInOrder, MonitorAssumption
  <2>2. Changes' = Changes /\ Flying' = Flying
    BY <1>0, <2>1 DEF Changes, Flying
  <2>3. \A c \in Changes : Placed(c)'
    BY <2>1, <2>2, StaysPlaced DEF Reports, IsKept, Carried
  <2>4. MonitorTypeOK'
    BY <1>0, <2>1, <2>2 DEF MonitorTypeOK, Requests
  <2>5. RequestsInOrder'
    <3>1. ASSUME NEW q \in Requests PROVE req'[q] = "none" <=> q > asked'
      <4>1. q \in Nat /\ asked \in Nat /\ (req[q] = "none" <=> q > asked)
        BY <1>0, MonitorAssumption DEF RequestsInOrder, Requests, MonitorAssumption
      <4>2. CASE q = asked + 1
        BY <1>0, <2>1, <4>1, <4>2
      <4>3. CASE q = r
        BY <1>0, <2>1, <4>1, <4>3
      <4>4. CASE q # asked + 1 /\ q # r
        BY <1>0, <2>1, <4>1, <4>4
      <4> QED
        BY <4>2, <4>3, <4>4
    <3>2. ASSUME NEW q \in Requests, req'[q] \in {"none", "waiting"} PROVE batch'[q] = <<>>
      BY <1>0, <2>1, <3>2 DEF RequestsInOrder
    <3> QED
      BY <2>1, <3>1, <3>2 DEF RequestsInOrder
  <2>6. MissedForCause'
    BY <1>0, <2>1 DEF MissedForCause
  <2>7. StillWatching'
    BY <1>0, <2>1 DEF StillWatching
  <2>8. BatchesApart'
    BY <2>1, <2>2 DEF BatchesApart
  <2> QED
    BY <2>2, <2>3, <2>4, <2>5, <2>6, <2>7, <2>8
<1>8. ASSUME NEW r \in Requests, HookThrows(r) PROVE MonitorInv'
  <2>1. /\ req[r] = "queued" /\ req' = [req EXCEPT ![r] = "leaked"] /\ ended' # "no"
        /\ missed' = missed \cup ToSet(batch[r])
        /\ UNCHANGED <<isOpen, destroyed, changes, kept, overflowed, asked, batch, skipped, reported>>
    BY <1>8 DEF HookThrows
  <2>2. Changes' = Changes /\ Flying' = Flying \ {r} /\ r \in Flying
    BY <1>0, <2>1 DEF Changes, Flying
  <2>3. ASSUME NEW c \in Changes PROVE Placed(c)'
    <3>1. Placed(c) /\ Reports(c)' = Reports(c) /\ (IsKept(c)' <=> IsKept(c))
      BY <2>1 DEF IsKept, Reports
    <3>2. CASE c \in ToSet(batch[r])
      <4>1. Carried(c) /\ ~Carried(c)' /\ c \in missed'
        BY <2>1, <2>2, <3>2 DEF Carried, BatchesApart
      <4> QED
        BY <3>1, <4>1 DEF Placed
    <3>3. CASE c \notin ToSet(batch[r])
      <4>1. (Carried(c)' <=> Carried(c)) /\ (c \in missed' <=> c \in missed)
        BY <2>1, <2>2, <3>3 DEF Carried
      <4> QED
        BY <3>1, <4>1, StaysPlaced
    <3> QED
      BY <3>2, <3>3
  <2>4. ToSet(batch[r]) \subseteq Changes
    BY <1>0 DEF ToSet
  <2>5. MonitorTypeOK'
    BY <1>0, <2>1, <2>2, <2>4 DEF MonitorTypeOK
  <2>6. RequestsInOrder' /\ MissedForCause' /\ StillWatching'
    BY <1>0, <2>1 DEF RequestsInOrder, MissedForCause, StillWatching
  <2>7. BatchesApart'
    BY <2>1, <2>2 DEF BatchesApart
  <2> QED
    BY <2>2, <2>3, <2>5, <2>6, <2>7
<1>9. ASSUME NEW r \in Requests, Report(r) PROVE MonitorInv'
  <2>1. /\ req[r] = "reporting" /\ batch[r] # <<>>
        /\ reported' = Append(reported, Head(batch[r])) /\ batch' = [batch EXCEPT ![r] = Tail(batch[r])]
        /\ UNCHANGED <<isOpen, destroyed, changes, kept, overflowed, asked, req, missed, skipped, ended>>
    BY <1>9 DEF Report
  <2>2. Changes' = Changes /\ Flying' = Flying /\ r \in Flying
    BY <1>0, <2>1 DEF Changes, Flying
  <2>3. /\ Head(batch[r]) \in ToSet(batch[r]) /\ Head(batch[r]) \in Changes /\ Tail(batch[r]) \in Seq(Changes)
        /\ \A x : x \in ToSet(Tail(batch[r])) <=> x \in ToSet(batch[r]) /\ x # Head(batch[r])
        /\ Distinct(Tail(batch[r]))
    BY <1>0, <2>1, <2>2, MembersOfTail DEF BatchesApart
  <2>4. batch'[r] = Tail(batch[r]) /\ \A q \in Flying : q # r => batch'[q] = batch[q]
    BY <1>0, <2>1 DEF Flying
  <2>5. ASSUME NEW c \in Changes PROVE Placed(c)'
    <3>1. /\ Placed(c) /\ (IsKept(c)' <=> IsKept(c)) /\ (c \in missed' <=> c \in missed)
          /\ Reports(c)' = Reports(c) + IF Head(batch[r]) = c THEN 1 ELSE 0
          /\ Reports(c) \in Nat
      BY <2>1, ReportsCount DEF IsKept
    <3>2. CASE c = Head(batch[r])
      <4>1. Carried(c) /\ ~Carried(c)'
        BY <2>2, <2>3, <2>4, <3>2 DEF Carried, BatchesApart
      <4> QED
        BY <3>1, <3>2, <4>1 DEF Placed
    <3>3. CASE c # Head(batch[r])
      <4>1. Carried(c)' <=> Carried(c)
        BY <2>2, <2>3, <2>4, <3>3 DEF Carried
      <4>2. Reports(c)' = Reports(c)
        BY <3>1, <3>3
      <4> QED
        BY <3>1, <4>1, <4>2, StaysPlaced
    <3> QED
      BY <3>2, <3>3
  <2>6. MonitorTypeOK'
    BY <1>0, <2>1, <2>2, <2>3 DEF MonitorTypeOK
  <2>7. RequestsInOrder' /\ MissedForCause' /\ StillWatching'
    BY <1>0, <2>1 DEF RequestsInOrder, MissedForCause, StillWatching
  <2>8. BatchesApart'
    BY <2>1, <2>2, <2>3, <2>4 DEF BatchesApart
  <2> QED
    BY <2>2, <2>5, <2>6, <2>7, <2>8
<1>12. ASSUME NEW r \in Requests, ReportThrows(r) PROVE MonitorInv'
  <2>1. /\ req[r] = "reporting" /\ batch[r] # <<>>
        /\ reported' = Append(reported, Head(batch[r])) /\ req' = [req EXCEPT ![r] = "leaked"]
        /\ missed' = missed \cup ToSet(Tail(batch[r])) /\ skipped' = skipped \cup ToSet(Tail(batch[r]))
        /\ UNCHANGED <<isOpen, destroyed, changes, kept, overflowed, asked, batch, ended>>
    BY <1>12 DEF ReportThrows
  <2>2. Changes' = Changes /\ Flying' = Flying \ {r} /\ r \in Flying
    BY <1>0, <2>1 DEF Changes, Flying
  <2>3. /\ Head(batch[r]) \in ToSet(batch[r]) /\ Head(batch[r]) \in Changes
        /\ \A x : x \in ToSet(Tail(batch[r])) <=> x \in ToSet(batch[r]) /\ x # Head(batch[r])
    BY <1>0, <2>1, <2>2, MembersOfTail DEF BatchesApart
  <2>4. ASSUME NEW c \in Changes PROVE Placed(c)'
    <3>1. /\ Placed(c) /\ (IsKept(c)' <=> IsKept(c)) /\ Reports(c) \in Nat
          /\ Reports(c)' = Reports(c) + IF Head(batch[r]) = c THEN 1 ELSE 0
      BY <2>1, ReportsCount DEF IsKept
    <3>2. CASE c = Head(batch[r])
      <4>1. Carried(c) /\ ~Carried(c)' /\ (c \in missed' <=> c \in missed)
        BY <2>1, <2>2, <2>3, <3>2 DEF Carried, BatchesApart
      <4> QED
        BY <3>1, <3>2, <4>1 DEF Placed
    <3>3. CASE c # Head(batch[r]) /\ c \in ToSet(batch[r])
      <4>1. Carried(c) /\ ~Carried(c)' /\ c \in missed'
        BY <2>1, <2>2, <2>3, <3>3 DEF Carried, BatchesApart
      <4>2. Reports(c)' = Reports(c)
        BY <3>1, <3>3
      <4> QED
        BY <3>1, <4>1, <4>2 DEF Placed
    <3>4. CASE c \notin ToSet(batch[r])
      <4>1. (Carried(c)' <=> Carried(c)) /\ (c \in missed' <=> c \in missed)
        BY <2>1, <2>2, <2>3, <3>4 DEF Carried
      <4>2. Reports(c)' = Reports(c)
        BY <2>3, <3>1, <3>4
      <4> QED
        BY <3>1, <4>1, <4>2, StaysPlaced
    <3> QED
      BY <3>2, <3>3, <3>4
  <2>5. ToSet(Tail(batch[r])) \subseteq Changes
    <3>1. ToSet(batch[r]) \subseteq Changes
      BY <1>0 DEF ToSet
    <3> QED
      BY <2>3, <3>1
  <2>6. MonitorTypeOK'
    BY <1>0, <2>1, <2>2, <2>3, <2>5 DEF MonitorTypeOK
  <2>7. RequestsInOrder' /\ MissedForCause' /\ StillWatching'
    BY <1>0, <2>1 DEF RequestsInOrder, MissedForCause, StillWatching
  <2>8. BatchesApart'
    BY <2>1, <2>2 DEF BatchesApart
  <2> QED
    BY <2>2, <2>4, <2>6, <2>7, <2>8
<1>10. ASSUME NEW r \in Requests, HookReturns(r) PROVE MonitorInv'
  <2>1. /\ req[r] = "reporting" /\ batch[r] = <<>> /\ req' = [req EXCEPT ![r] = "freed"]
        /\ UNCHANGED <<isOpen, destroyed, changes, kept, overflowed, asked, batch, missed, skipped, reported, ended>>
    BY <1>10 DEF HookReturns
  <2>2. Changes' = Changes /\ Flying' = Flying \ {r}
    BY <1>0, <2>1 DEF Changes, Flying
  <2>3. ASSUME NEW c \in Changes PROVE Placed(c)'
    <3>1. Carried(c)' <=> Carried(c)
      BY <2>1, <2>2, NoMembers DEF Carried
    <3> QED
      BY <2>1, <3>1, StaysPlaced DEF Reports, IsKept
  <2>4. MonitorTypeOK'
    BY <1>0, <2>1, <2>2 DEF MonitorTypeOK
  <2>5. RequestsInOrder' /\ MissedForCause' /\ StillWatching'
    BY <1>0, <2>1 DEF RequestsInOrder, MissedForCause, StillWatching
  <2>6. BatchesApart'
    BY <2>1, <2>2 DEF BatchesApart
  <2> QED
    BY <2>2, <2>3, <2>4, <2>5, <2>6
<1>11. CASE UNCHANGED monitorVars
  <2>1. /\ UNCHANGED <<isOpen, destroyed, changes, kept, overflowed, asked, req, batch, missed, skipped, reported, ended>>
        /\ Changes' = Changes /\ Flying' = Flying
    BY <1>11 DEF monitorVars, Changes, Flying
  <2>2. \A c \in Changes : Placed(c)'
    BY <2>1, StaysPlaced DEF Reports, IsKept, Carried
  <2>3. MonitorTypeOK' /\ RequestsInOrder' /\ BatchesApart' /\ MissedForCause' /\ StillWatching'
    BY <2>1 DEF MonitorTypeOK, RequestsInOrder, BatchesApart, MissedForCause, StillWatching
  <2> QED
    BY <2>1, <2>2, <2>3
<1> QED
  BY <1>1, <1>2, <1>3, <1>4, <1>5, <1>6, <1>7, <1>8, <1>9, <1>10, <1>11, <1>12 DEF MonitorNext, Hook

\* The invariant of the monitor holds at the start and survives every step.
THEOREM MonitorInvariance == MonitorSpec => []MonitorInv
<1>1. MonitorInit => MonitorInv
  <2> SUFFICES ASSUME MonitorInit PROVE MonitorInv
    OBVIOUS
  <2>1. MonitorTypeOK
    <3>1. isOpen \in BOOLEAN /\ overflowed \in BOOLEAN
      BY DEF MonitorInit
    <3>2. kept \in Seq(Changes) /\ reported \in Seq(Changes) /\ missed \subseteq Changes
      BY DEF MonitorInit
    <3>3. changes \in Nat /\ asked \in 0..MaxRequests
      BY MonitorAssumption DEF MonitorInit, MonitorAssumption
    <3>4. /\ req \in [Requests -> {"none", "waiting", "queued", "reporting", "freed", "leaked"}]
          /\ DOMAIN batch = Requests /\ \A r \in Requests : batch[r] \in Seq(Changes)
      BY DEF MonitorInit
    <3> QED
      BY <3>1, <3>2, <3>3, <3>4 DEF MonitorTypeOK
  <2>2. RequestsInOrder /\ MissedForCause /\ StillWatching
    BY DEF MonitorInit, RequestsInOrder, MissedForCause, StillWatching, Requests
  <2>3. BatchesApart /\ \A c \in Changes : Placed(c)
    BY NoMembers DEF MonitorInit, BatchesApart, Flying, Changes
  <2> QED
    BY <2>1, <2>2, <2>3 DEF MonitorInv
<1> QED
  BY <1>1, MonitorStep, PTL DEF MonitorSpec

\* The monitor watches until it ends and loses no change without ending, unless
\* it lies behind one whose handler threw, for any number of changes and requests.
THEOREM MonitorWatches == MonitorSpec => []Watches
<1>1. MonitorInv => Watches
  <2> SUFFICES ASSUME MonitorInv PROVE Watches
    OBVIOUS
  <2>1. ASSUME NEW c \in 1..changes
        PROVE  Reports(c) + (IF IsKept(c) THEN 1 ELSE 0) + (IF Carried(c) THEN 1 ELSE 0)
                 = IF c \in missed THEN 0 ELSE 1
    BY DEF MonitorInv, Placed, Changes
  <2>2. \A c : Carried(c) <=> \E r \in Requests : req[r] \in {"queued", "reporting"} /\ c \in ToSet(batch[r])
    BY DEF Carried, Flying
  <2>3. EachChangeOnce
    BY <2>1, <2>2 DEF EachChangeOnce, Reports, IsKept, MonitorInv, MissedForCause
  <2> QED
    BY <2>3 DEF Watches, MonitorInv
<1> QED
  BY <1>1, MonitorInvariance, PTL
=============================================================================
