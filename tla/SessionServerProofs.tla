------------------------- MODULE SessionServerProofs -------------------------
(***************************************************************************)
(* Proofs about SessionServer, for any number of sockets, sessions,        *)
(* pending operations and workers.                                         *)
(***************************************************************************)
EXTENDS SessionServer, SequenceTheorems, TLAPS

-----------------------------------------------------------------------------
(* The inductive invariant                                                 *)

\* The accept thread is inside its loop over MAX_ACCEPT_NUM.
TurnInv == accPc \in {"empty", "top", "pop", "accept"} => accI < MaxAccept

\* Sessions are numbered in the order they are made.
BornInv == \A x \in Sessions : life[x] = "unborn" <=> x > born

\* A session lives exactly as long as somebody holds a session_ptr of it.
LiveHeld == \A x \in Sessions : life[x] = "live" <=> HeldBy(x, Threads, app)

PoolOnce == \A i, j \in 1..Len(pool) : pool[i] = pool[j] => i = j

\* Of the sessions that had a socket only the last one can be alive.
LiveLast == \A x \in Sessions : life[x] = "live" => LastOn(x)

\* A socket that exists and is not being accepted is in one place ...
Open(s) == net[s] \in {"idle", "connected", "leaving"}

PoolExcludes ==
  \A i \in 1..Len(pool) :
    Open(pool[i]) /\ ~InHand(pool[i]) /\ pool[i] \notin stranded
HandExcludes == accPc = "accept" => Open(accSck) /\ accSck \notin stranded
SessionExcludes ==
  \A x \in Sessions : life[x] = "live" =>
    /\ Open(sckOf[x]) /\ ~InHand(sckOf[x]) /\ sckOf[x] \notin stranded
    /\ \A i \in 1..Len(pool) : pool[i] # sckOf[x]
StrandedOpen == \A s \in stranded : Open(s)

\* ... and never without an owner.
OpenOwned ==
  \A s \in Sockets :
    Open(s) => InPool(s) \/ InHand(s) \/ InSession(s) \/ s \in stranded

\* A live session that was disconnected has an idle socket, or its DisconnectEx
\* is pending and keeps it alive.
PartedInv ==
  \A x \in parted :
    /\ life[x] # "unborn"
    /\ life[x] = "live" =>
         \/ net[sckOf[x]] = "idle"
         \/ net[sckOf[x]] = "leaving" /\ pend[x]["disc"] > 0

\* A worker that has left runs no handler; stop() returns after all of them.
StopInv ==
  /\ stopPc \in {"io", "down"} => accPc \in {"off", "exited"}
  /\ \A t \in left : ctx[t] = NoSession
  /\ stopPc = "down" => left = Threads

IndInv ==
  /\ TypeOK /\ TurnInv /\ PopStable
  /\ BornInv /\ LiveHeld
  /\ PoolOnce /\ LiveLast
  /\ PoolExcludes /\ HandExcludes /\ SessionExcludes /\ StrandedOpen /\ OpenOwned
  /\ PartedInv /\ CleanReuse
  /\ StopInv

-----------------------------------------------------------------------------
(* Counters of pending operations                                          *)

\* One operation less, everything else as it was.
LEMMA Decrement ==
  ASSUME NEW p \in [Sessions -> [Kinds -> Nat]], NEW x \in Sessions, NEW k \in Kinds,
         p[x][k] > 0, NEW q, q = [p EXCEPT ![x][k] = @ - 1]
  PROVE  /\ q \in [Sessions -> [Kinds -> Nat]]
         /\ q[x][k] = p[x][k] - 1
         /\ \A y \in Sessions, j \in Kinds : y # x \/ j # k => q[y][j] = p[y][j]
<1>1. p[x][k] \in Nat /\ p[x][k] - 1 \in Nat
  OBVIOUS
<1>2. q = [p EXCEPT ![x] = [p[x] EXCEPT ![k] = p[x][k] - 1]]
  OBVIOUS
<1>3. [p[x] EXCEPT ![k] = p[x][k] - 1] \in [Kinds -> Nat]
  BY <1>1
<1>4. q \in [Sessions -> [Kinds -> Nat]]
  BY <1>2, <1>3
<1>5. q[x] = [p[x] EXCEPT ![k] = p[x][k] - 1] /\ \A y \in Sessions : y # x => q[y] = p[y]
  BY <1>2
<1> QED
  BY <1>4, <1>5

\* One operation more, everything else as it was.
LEMMA Increment ==
  ASSUME NEW p \in [Sessions -> [Kinds -> Nat]], NEW x \in Sessions, NEW k \in Kinds,
         NEW q, q = [p EXCEPT ![x][k] = @ + 1]
  PROVE  /\ q \in [Sessions -> [Kinds -> Nat]]
         /\ q[x][k] = p[x][k] + 1
         /\ \A y \in Sessions, j \in Kinds : y # x \/ j # k => q[y][j] = p[y][j]
<1>1. p[x][k] \in Nat /\ p[x][k] + 1 \in Nat
  OBVIOUS
<1>2. q = [p EXCEPT ![x] = [p[x] EXCEPT ![k] = p[x][k] + 1]]
  OBVIOUS
<1>3. [p[x] EXCEPT ![k] = p[x][k] + 1] \in [Kinds -> Nat]
  BY <1>1
<1>4. q \in [Sessions -> [Kinds -> Nat]]
  BY <1>2, <1>3
<1>5. q[x] = [p[x] EXCEPT ![k] = p[x][k] + 1] /\ \A y \in Sessions : y # x => q[y] = p[y]
  BY <1>2
<1> QED
  BY <1>4, <1>5

\* A session somebody holds has its socket for itself.
LEMMA HeldAlone ==
  ASSUME IndInv, NEW x \in Sessions, HeldBy(x, Threads, app)
  PROVE  /\ life[x] = "live"
         /\ Open(sckOf[x]) /\ ~InHand(sckOf[x]) /\ ~InPool(sckOf[x])
         /\ sckOf[x] \notin stranded
         /\ \A y \in Sessions : life[y] = "live" /\ sckOf[y] = sckOf[x] => y = x
<1> USE DEF IndInv
<1>1. life[x] = "live"
  BY DEF LiveHeld
<1>2. /\ Open(sckOf[x]) /\ ~InHand(sckOf[x]) /\ sckOf[x] \notin stranded
      /\ ~InPool(sckOf[x])
  BY <1>1 DEF SessionExcludes, InPool
<1>3. ASSUME NEW y \in Sessions, life[y] = "live", sckOf[y] = sckOf[x]
      PROVE  y = x
  <2>1. ~(y > x) /\ ~(x > y)
    BY <1>1, <1>3 DEF LiveLast, LastOn
  <2> QED
    BY <2>1, ServerAssumption DEF Sessions
<1> QED
  BY <1>1, <1>2, <1>3

\* A completed operation hands its session_ptr to the handler it runs.
LEMMA Completed ==
  ASSUME IndInv, NEW t \in Threads, NEW x \in Sessions, NEW k \in Keeping,
         Complete(t, x, k)
  PROVE  /\ pend' \in [Sessions -> [Kinds -> Nat]]
         /\ \A y \in Sessions, j \in Kinds : y # x \/ j # k => pend'[y][j] = pend[y][j]
         /\ HeldBy(x, Threads, app)
         /\ LiveHeld'
<1> USE DEF IndInv, Complete, sessVars
<1>1. k \in Kinds
  BY DEF Keeping
<1>2. /\ pend' \in [Sessions -> [Kinds -> Nat]]
      /\ \A y \in Sessions, j \in Kinds : y # x \/ j # k => pend'[y][j] = pend[y][j]
  BY <1>1, Decrement DEF TypeOK
<1>3. life[x] = "live"
  BY DEF LiveHeld, HeldBy
<1>4. /\ ctx'[t] = x /\ ctx[t] = NoSession
      /\ \A u \in Threads : u # t => ctx'[u] = ctx[u]
  BY DEF TypeOK, Enter
<1>5. LiveHeld'
  <2>1. SUFFICES ASSUME NEW y \in Sessions
                 PROVE  (life[y] = "live" <=> HeldBy(y, Threads, app))'
    BY DEF LiveHeld
  <2>2. CASE y = x
    BY <1>3, <1>4, <2>2 DEF HeldBy
  <2>3. CASE y # x
    <3>1. y # NoSession
      BY ServerAssumption DEF Sessions, NoSession
    <3>2. (\E u \in Threads : ctx'[u] = y) <=> \E u \in Threads : ctx[u] = y
      BY <1>4, <2>3, <3>1
    <3>3. \A j \in Keeping : pend'[y][j] = pend[y][j]
      BY <1>2, <2>3 DEF Keeping
    <3> QED
      BY <3>2, <3>3 DEF LiveHeld, HeldBy
  <2> QED
    BY <2>2, <2>3
<1> QED
  BY <1>2, <1>5 DEF HeldBy

-----------------------------------------------------------------------------
(* One lemma per action                                                    *)

\* A step that moves no socket, no session and no operation, and neither takes
\* a socket into the accept thread's hand nor out of it.
LEMMA Quiet ==
  ASSUME IndInv,
         UNCHANGED <<net, pool, accSck, born, life, sckOf, pend, stranded, parted>>,
         accPc = "accept" <=> accPc' = "accept"
  PROVE  /\ BornInv' /\ PoolOnce' /\ LiveLast'
         /\ PoolExcludes' /\ HandExcludes' /\ SessionExcludes' /\ StrandedOpen'
         /\ OpenOwned' /\ PartedInv' /\ CleanReuse'
<1> USE DEF IndInv
<1>1. BornInv' /\ PoolOnce' /\ LiveLast' /\ PartedInv'
  BY DEF BornInv, PoolOnce, LiveLast, LastOn, PartedInv
<1>2. PoolExcludes' /\ HandExcludes' /\ SessionExcludes' /\ StrandedOpen'
  BY DEF PoolExcludes, HandExcludes, SessionExcludes, StrandedOpen, Open, InHand
<1>3. OpenOwned'
  BY DEF OpenOwned, Open, InPool, InHand, InSession
<1>4. CleanReuse'
  BY DEF CleanReuse, LastOn, InPool, InHand
<1> QED
  BY <1>1, <1>2, <1>3, <1>4

\* start() only moves the accept thread.
LEMMA StartInv ==
  ASSUME IndInv, Start
  PROVE  IndInv'
<1> USE DEF IndInv, Start, acceptVars, sessVars, ioVars
<1>1. /\ BornInv' /\ PoolOnce' /\ LiveLast'
      /\ PoolExcludes' /\ HandExcludes' /\ SessionExcludes' /\ StrandedOpen'
      /\ OpenOwned' /\ PartedInv' /\ CleanReuse'
  BY Quiet
<1>2. TypeOK'
  BY DEF TypeOK
<1>3. TurnInv' /\ PopStable'
  BY DEF TypeOK, TurnInv, PopStable
<1>4. LiveHeld'
  BY DEF TypeOK, LiveHeld, HeldBy
<1>5. StopInv'
  BY DEF TypeOK, StopInv
<1> QED
  BY <1>1, <1>2, <1>3, <1>4, <1>5

\* So does the event.
LEMMA AcceptEventInv ==
  ASSUME IndInv, AcceptEvent
  PROVE  IndInv'
<1> USE DEF IndInv, AcceptEvent, acceptVars, sessVars, ioVars
<1>1. /\ BornInv' /\ PoolOnce' /\ LiveLast'
      /\ PoolExcludes' /\ HandExcludes' /\ SessionExcludes' /\ StrandedOpen'
      /\ OpenOwned' /\ PartedInv' /\ CleanReuse'
  BY Quiet
<1>2. TypeOK'
  BY ServerAssumption DEF TypeOK
<1>3. TurnInv' /\ PopStable'
  BY ServerAssumption DEF TypeOK, TurnInv, PopStable
<1>4. LiveHeld'
  BY DEF TypeOK, LiveHeld, HeldBy
<1>5. StopInv'
  BY DEF TypeOK, StopInv
<1> QED
  BY <1>1, <1>2, <1>3, <1>4, <1>5

\* empty() answers that there is a socket.
LEMMA PoolNotEmptyInv ==
  ASSUME IndInv, PoolNotEmpty
  PROVE  IndInv'
<1> USE DEF IndInv, PoolNotEmpty, acceptVars, sessVars, ioVars
<1>1. /\ BornInv' /\ PoolOnce' /\ LiveLast'
      /\ PoolExcludes' /\ HandExcludes' /\ SessionExcludes' /\ StrandedOpen'
      /\ OpenOwned' /\ PartedInv' /\ CleanReuse'
  BY Quiet
<1>2. TypeOK'
  BY DEF TypeOK
<1>3. TurnInv' /\ PopStable'
  BY DEF TypeOK, TurnInv, PopStable
<1>4. LiveHeld'
  BY DEF TypeOK, LiveHeld, HeldBy
<1>5. StopInv'
  BY DEF TypeOK, StopInv
<1> QED
  BY <1>1, <1>2, <1>3, <1>4, <1>5

\* A new socket is in the accept thread's hand.
LEMMA CreateSocketInv ==
  ASSUME IndInv, NEW s \in Sockets, CreateSocket(s)
  PROVE  IndInv'
<1> USE DEF IndInv, CreateSocket, acceptVars, sessVars, ioVars
<1>1. TypeOK'
  BY DEF TypeOK
<1>2. (TurnInv /\ PopStable)'
  BY DEF TypeOK, TurnInv, PopStable
<1>3. BornInv'
  BY DEF TypeOK, BornInv
<1>4. LiveHeld'
  BY DEF TypeOK, LiveHeld, HeldBy, Keeping, Kinds
<1>5. PoolOnce'
  BY DEF TypeOK, PoolOnce
<1>6. LiveLast'
  BY DEF TypeOK, LiveLast, LastOn
<1>7. PoolExcludes'
  BY DEF TypeOK, PoolExcludes, Open, InHand
<1>8. HandExcludes'
  BY DEF TypeOK, HandExcludes, Open, PoolExcludes, StrandedOpen
<1>9. SessionExcludes'
  BY DEF TypeOK, SessionExcludes, Open, InHand
<1>10. StrandedOpen'
  BY DEF TypeOK, StrandedOpen, Open
<1>11. OpenOwned'
  BY DEF TypeOK, OpenOwned, Open, InPool, InHand, InSession, PoolExcludes
<1>12. PartedInv'
  BY DEF TypeOK, PartedInv, SessionExcludes, Open
<1>13. CleanReuse'
  BY DEF TypeOK, CleanReuse, LastOn, InPool, InHand
<1>14. StopInv'
  BY DEF TypeOK, StopInv
<1> QED
  BY <1>1, <1>2, <1>3, <1>4, <1>5, <1>6, <1>7, <1>8, <1>9, <1>10, <1>11, <1>12, <1>13, <1>14

\* top() copies the front.
LEMMA PoolTopInv ==
  ASSUME IndInv, PoolTop
  PROVE  IndInv'
<1> USE DEF IndInv, PoolTop, acceptVars, sessVars, ioVars
<1>p. Len(pool) > 0
  BY DEF TypeOK, PopStable
<1>q. Head(pool) = pool[1] /\ pool[1] \in Sockets
  BY <1>p, HeadTailProperties DEF TypeOK
<1>1. TypeOK'
  BY <1>p, <1>q DEF TypeOK
<1>2. (TurnInv /\ PopStable)'
  BY <1>p, <1>q DEF TypeOK, TurnInv, PopStable
<1>3. BornInv'
  BY <1>p, <1>q DEF TypeOK, BornInv
<1>4. LiveHeld'
  BY <1>p, <1>q DEF TypeOK, LiveHeld, HeldBy, Keeping, Kinds
<1>5. PoolOnce'
  BY <1>p, <1>q DEF TypeOK, PoolOnce
<1>6. LiveLast'
  BY <1>p, <1>q DEF TypeOK, LiveLast, LastOn
<1>7. PoolExcludes'
  BY <1>p, <1>q DEF TypeOK, PoolExcludes, Open, InHand
<1>8. HandExcludes'
  BY <1>p, <1>q DEF TypeOK, HandExcludes, Open, PoolExcludes
<1>9. SessionExcludes'
  BY <1>p, <1>q DEF TypeOK, SessionExcludes, Open, InHand
<1>10. StrandedOpen'
  BY <1>p, <1>q DEF TypeOK, StrandedOpen, Open
<1>11. OpenOwned'
  BY <1>p, <1>q DEF TypeOK, OpenOwned, Open, InPool, InHand, InSession
<1>12. PartedInv'
  BY <1>p, <1>q DEF TypeOK, PartedInv
<1>13. CleanReuse'
  BY <1>p, <1>q DEF TypeOK, CleanReuse, LastOn, InPool, InHand
<1>14. StopInv'
  BY <1>p, <1>q DEF TypeOK, StopInv
<1> QED
  BY <1>1, <1>2, <1>3, <1>4, <1>5, <1>6, <1>7, <1>8, <1>9, <1>10, <1>11, <1>12, <1>13, <1>14

\* pop_top() removes it.
LEMMA PoolPopInv ==
  ASSUME IndInv, PoolPop
  PROVE  IndInv'
<1> USE DEF IndInv, PoolPop, acceptVars, sessVars, ioVars
<1>p. Len(pool) > 0 /\ accSck = Head(pool)
  BY DEF TypeOK, PopStable
<1>q. /\ accSck = pool[1]
      /\ pool' \in Seq(Sockets) /\ Len(pool') = Len(pool) - 1
      /\ \A i \in 1..Len(pool') : pool'[i] = pool[i + 1]
  BY <1>p, HeadTailProperties DEF TypeOK
<1>r. \A i \in 1..Len(pool') : i + 1 \in 1..Len(pool) /\ i + 1 # 1
  BY <1>p, <1>q DEF TypeOK
<1>s. \A i \in 1..Len(pool) : i # 1 => i - 1 \in 1..Len(pool') /\ pool'[i - 1] = pool[i]
  BY <1>q DEF TypeOK
<1>t. 1 \in 1..Len(pool)
  BY <1>p DEF TypeOK
<1>u. \A i \in 1..Len(pool') : pool'[i] # accSck
  BY <1>q, <1>r, <1>t DEF PoolOnce
<1>1. TypeOK'
  BY <1>q, <1>r, <1>t DEF TypeOK
<1>2. (TurnInv /\ PopStable)'
  BY <1>q, <1>r, <1>t DEF TypeOK, TurnInv, PopStable
<1>3. BornInv'
  BY <1>q, <1>r, <1>t DEF TypeOK, BornInv
<1>4. LiveHeld'
  BY <1>q, <1>r, <1>t DEF TypeOK, LiveHeld, HeldBy, Keeping, Kinds
<1>5. PoolOnce'
  BY <1>q, <1>r, <1>t DEF TypeOK, PoolOnce
<1>6. LiveLast'
  BY <1>q, <1>r, <1>t DEF TypeOK, LiveLast, LastOn
<1>7. PoolExcludes'
  BY <1>q, <1>r, <1>t, <1>u DEF TypeOK, PoolExcludes, Open, InHand
<1>8. HandExcludes'
  BY <1>q, <1>r, <1>t DEF TypeOK, HandExcludes, Open, PoolExcludes, PoolExcludes
<1>9. SessionExcludes'
  BY <1>q, <1>r, <1>t DEF TypeOK, SessionExcludes, Open, InHand
<1>10. StrandedOpen'
  BY <1>q, <1>r, <1>t DEF TypeOK, StrandedOpen, Open
<1>11. OpenOwned'
  <2>1. \A z : InPool(z) => (InPool(z) \/ InHand(z))'
    BY <1>q, <1>s DEF InPool, InHand
  <2> QED
    BY <2>1 DEF OpenOwned, Open, InHand, InSession
<1>12. PartedInv'
  BY <1>q, <1>r, <1>t DEF TypeOK, PartedInv
<1>13. CleanReuse'
  <2>1. \A z : (InPool(z) \/ InHand(z))' => InPool(z)
    BY <1>q, <1>r, <1>t DEF InPool, InHand
  <2>2. \A x \in parted : LastOn(x)' <=> LastOn(x)
    BY DEF LastOn
  <2> QED
    BY <2>1, <2>2 DEF CleanReuse, InPool, InHand
<1>14. StopInv'
  BY <1>q, <1>r, <1>t DEF TypeOK, StopInv
<1> QED
  BY <1>1, <1>2, <1>3, <1>4, <1>5, <1>6, <1>7, <1>8, <1>9, <1>10, <1>11, <1>12, <1>13, <1>14

\* The callback of a pending accept owns the socket.
LEMMA AcceptPendsInv ==
  ASSUME IndInv, AcceptPends
  PROVE  IndInv'
<1> USE DEF IndInv, AcceptPends, NextTurn, acceptVars, sessVars, ioVars
<1>1. TypeOK'
  BY ServerAssumption DEF TypeOK, TurnInv
<1>2. (TurnInv /\ PopStable)'
  BY ServerAssumption DEF TypeOK, TurnInv, PopStable
<1>3. BornInv'
  BY DEF TypeOK, BornInv
<1>4. LiveHeld'
  BY DEF TypeOK, LiveHeld, HeldBy, Keeping, Kinds
<1>5. PoolOnce'
  BY DEF TypeOK, PoolOnce
<1>6. LiveLast'
  BY DEF TypeOK, LiveLast, LastOn
<1>7. PoolExcludes'
  BY DEF TypeOK, PoolExcludes, Open, InHand, PoolOnce
<1>8. HandExcludes'
  BY DEF TypeOK, HandExcludes, Open, PoolExcludes
<1>9. SessionExcludes'
  BY DEF TypeOK, SessionExcludes, Open, InHand, PoolExcludes
<1>10. StrandedOpen'
  BY DEF TypeOK, StrandedOpen, Open, HandExcludes
<1>11. OpenOwned'
  BY DEF TypeOK, OpenOwned, Open, InPool, InHand, InSession, SessionExcludes
<1>12. PartedInv'
  BY DEF TypeOK, PartedInv, SessionExcludes, InHand
<1>13. CleanReuse'
  <2>1. SUFFICES ASSUME NEW y \in parted, LastOn(y)', InPool(sckOf[y])'
                 PROVE  net'[sckOf[y]] = "idle"
    BY DEF CleanReuse, InHand
  <2>2. y \in Sessions /\ LastOn(y) /\ InPool(sckOf[y]) /\ sckOf[y] \in Sockets
    BY <2>1 DEF LastOn, InPool, TypeOK
  <2>3. sckOf[y] # accSck
    BY <2>2 DEF InPool, PoolExcludes, InHand
  <2> QED
    BY <2>2, <2>3 DEF CleanReuse, TypeOK
<1>14. StopInv'
  BY DEF TypeOK, StopInv
<1> QED
  BY <1>1, <1>2, <1>3, <1>4, <1>5, <1>6, <1>7, <1>8, <1>9, <1>10, <1>11, <1>12, <1>13, <1>14

\* The socket of an accept that succeeded at once is stranded.
LEMMA AcceptAtOnceInv ==
  ASSUME IndInv, AcceptAtOnce
  PROVE  IndInv'
<1> USE DEF IndInv, AcceptAtOnce, NextTurn, acceptVars, sessVars, ioVars
<1>1. TypeOK'
  BY ServerAssumption DEF TypeOK, TurnInv
<1>2. (TurnInv /\ PopStable)'
  BY ServerAssumption DEF TypeOK, TurnInv, PopStable
<1>3. BornInv'
  BY DEF TypeOK, BornInv
<1>4. LiveHeld'
  BY DEF TypeOK, LiveHeld, HeldBy, Keeping, Kinds
<1>5. PoolOnce'
  BY DEF TypeOK, PoolOnce
<1>6. LiveLast'
  BY DEF TypeOK, LiveLast, LastOn
<1>7. PoolExcludes'
  BY DEF TypeOK, PoolExcludes, Open, InHand, PoolOnce
<1>8. HandExcludes'
  BY DEF TypeOK, HandExcludes, Open, PoolExcludes
<1>9. SessionExcludes'
  BY DEF TypeOK, SessionExcludes, Open, InHand, PoolExcludes
<1>10. StrandedOpen'
  BY DEF TypeOK, StrandedOpen, Open, HandExcludes
<1>11. OpenOwned'
  BY DEF TypeOK, OpenOwned, Open, InPool, InHand, InSession, SessionExcludes
<1>12. PartedInv'
  BY DEF TypeOK, PartedInv, SessionExcludes, InHand
<1>13. CleanReuse'
  <2>1. SUFFICES ASSUME NEW y \in parted, LastOn(y)', InPool(sckOf[y])'
                 PROVE  net'[sckOf[y]] = "idle"
    BY DEF CleanReuse, InHand
  <2>2. y \in Sessions /\ LastOn(y) /\ InPool(sckOf[y]) /\ sckOf[y] \in Sockets
    BY <2>1 DEF LastOn, InPool, TypeOK
  <2>3. sckOf[y] # accSck
    BY <2>2 DEF InPool, PoolExcludes, InHand
  <2> QED
    BY <2>2, <2>3 DEF CleanReuse, TypeOK
<1>14. StopInv'
  BY DEF TypeOK, StopInv
<1> QED
  BY <1>1, <1>2, <1>3, <1>4, <1>5, <1>6, <1>7, <1>8, <1>9, <1>10, <1>11, <1>12, <1>13, <1>14

\* The socket of a failed accept is closed.
LEMMA AcceptThrowsInv ==
  ASSUME IndInv, AcceptThrows
  PROVE  IndInv'
<1> USE DEF IndInv, AcceptThrows, NextTurn, acceptVars, sessVars, ioVars
<1>1. TypeOK'
  BY ServerAssumption DEF TypeOK, TurnInv
<1>2. (TurnInv /\ PopStable)'
  BY ServerAssumption DEF TypeOK, TurnInv, PopStable
<1>3. BornInv'
  BY DEF TypeOK, BornInv
<1>4. LiveHeld'
  BY DEF TypeOK, LiveHeld, HeldBy, Keeping, Kinds
<1>5. PoolOnce'
  BY DEF TypeOK, PoolOnce
<1>6. LiveLast'
  BY DEF TypeOK, LiveLast, LastOn
<1>7. PoolExcludes'
  BY DEF TypeOK, PoolExcludes, Open, InHand, PoolOnce
<1>8. HandExcludes'
  BY DEF TypeOK, HandExcludes, Open, PoolExcludes
<1>9. SessionExcludes'
  BY DEF TypeOK, SessionExcludes, Open, InHand, PoolExcludes
<1>10. StrandedOpen'
  BY DEF TypeOK, StrandedOpen, Open, HandExcludes
<1>11. OpenOwned'
  BY DEF TypeOK, OpenOwned, Open, InPool, InHand, InSession, SessionExcludes
<1>12. PartedInv'
  BY DEF TypeOK, PartedInv, SessionExcludes, InHand
<1>13. CleanReuse'
  <2>1. SUFFICES ASSUME NEW y \in parted, LastOn(y)', InPool(sckOf[y])'
                 PROVE  net'[sckOf[y]] = "idle"
    BY DEF CleanReuse, InHand
  <2>2. y \in Sessions /\ LastOn(y) /\ InPool(sckOf[y]) /\ sckOf[y] \in Sockets
    BY <2>1 DEF LastOn, InPool, TypeOK
  <2>3. sckOf[y] # accSck
    BY <2>2 DEF InPool, PoolExcludes, InHand
  <2> QED
    BY <2>2, <2>3 DEF CleanReuse, TypeOK
<1>14. StopInv'
  BY DEF TypeOK, StopInv
<1> QED
  BY <1>1, <1>2, <1>3, <1>4, <1>5, <1>6, <1>7, <1>8, <1>9, <1>10, <1>11, <1>12, <1>13, <1>14

\* The accept thread ends.
LEMMA AcceptExitInv ==
  ASSUME IndInv, AcceptExit
  PROVE  IndInv'
<1> USE DEF IndInv, AcceptExit, acceptVars, sessVars, ioVars
<1>1. /\ BornInv' /\ PoolOnce' /\ LiveLast'
      /\ PoolExcludes' /\ HandExcludes' /\ SessionExcludes' /\ StrandedOpen'
      /\ OpenOwned' /\ PartedInv' /\ CleanReuse'
  BY Quiet
<1>2. TypeOK'
  BY DEF TypeOK
<1>3. TurnInv' /\ PopStable'
  BY DEF TypeOK, TurnInv, PopStable
<1>4. LiveHeld'
  BY DEF TypeOK, LiveHeld, HeldBy
<1>5. StopInv'
  BY DEF TypeOK, StopInv
<1> QED
  BY <1>1, <1>2, <1>3, <1>4, <1>5

\* A session takes the accepted socket over.
LEMMA AcceptDoneInv ==
  ASSUME IndInv, NEW t \in Threads, NEW s \in Sockets, NEW ok \in BOOLEAN, AcceptDone(t, s, ok)
  PROVE  IndInv'
<1> USE DEF IndInv, AcceptDone, acceptVars, sessVars, ioVars
<1> DEFINE n == born + 1
<1>n. n \in Sessions /\ n # NoSession /\ life[n] = "unborn"
  BY ServerAssumption DEF TypeOK, Sessions, NoSession, BornInv
<1>l. life'[n] = "live" /\ \A x \in Sessions : x # n => life'[x] = life[x]
  BY <1>n DEF TypeOK
<1>s. sckOf'[n] = s /\ \A x \in Sessions : x # n => sckOf'[x] = sckOf[x]
  BY <1>n DEF TypeOK
<1>c. /\ ctx' \in [Threads -> Sessions \cup {NoSession}]
      /\ ctx[t] = NoSession /\ t \notin left /\ ctx'[t] = n
      /\ \A u \in Threads : u # t => ctx'[u] = ctx[u]
  BY <1>n DEF TypeOK, Enter
<1>o. /\ net'[s] \in {"connected", "idle"} /\ net[s] = "accepting"
      /\ \A z \in Sockets : z # s => net'[z] = net[z]
  BY DEF TypeOK
<1>e. ~InPool(s) /\ ~InHand(s) /\ s \notin stranded
  BY <1>o DEF PoolExcludes, HandExcludes, StrandedOpen, InPool, InHand, Open
<1>f. \A x \in Sessions : life[x] = "live" => sckOf[x] # s
  BY <1>o DEF SessionExcludes, Open
<1> HIDE DEF n
<1>1. TypeOK'
  <2>1. born' \in 0..NumSessions
    BY ServerAssumption DEF TypeOK
  <2> QED
    BY <1>n, <1>c, <2>1 DEF TypeOK, n
<1>2. (TurnInv /\ PopStable)'
  BY <1>n, <1>l, <1>s, <1>c, <1>o, <1>e, <1>f DEF TypeOK, TurnInv, PopStable
<1>3. BornInv'
  <2>1. born' = n /\ n = born + 1 /\ \A x \in Sessions : x = n \/ (x > n <=> x > born)
    BY ServerAssumption DEF TypeOK, Sessions, n
  <2> QED
    BY <1>n, <1>l, <2>1 DEF BornInv, TypeOK, Sessions
<1>4. LiveHeld'
  <2>1. SUFFICES ASSUME NEW y \in Sessions
                 PROVE  (life[y] = "live" <=> HeldBy(y, Threads, app))'
    BY DEF LiveHeld
  <2>2. CASE y = n
    BY <1>l, <1>c, <2>2 DEF HeldBy
  <2>3. CASE y # n
    <3>1. y # NoSession
      BY ServerAssumption DEF Sessions, NoSession
    <3>2. (\E u \in Threads : ctx'[u] = y) <=> \E u \in Threads : ctx[u] = y
      BY <1>c, <2>3, <3>1
    <3> QED
      BY <1>l, <2>3, <3>2 DEF LiveHeld, HeldBy
  <2> QED
    BY <2>2, <2>3
<1>5. PoolOnce'
  BY <1>n, <1>l, <1>s, <1>c, <1>o, <1>e, <1>f DEF TypeOK, PoolOnce
<1>6. LiveLast'
  <2>1. SUFFICES ASSUME NEW x \in Sessions, life'[x] = "live",
                        NEW y \in Sessions, y > x, life'[y] # "unborn"
                 PROVE  sckOf'[y] # sckOf'[x]
    BY DEF LiveLast, LastOn
  <2>2. CASE x = n
    <3>1. y # n /\ y > born
      BY <2>1, <2>2 DEF n, TypeOK, Sessions
    <3> QED
      BY <1>l, <2>1, <3>1 DEF BornInv
  <2>3. CASE x # n /\ y = n
    BY <1>l, <1>s, <1>f, <2>1, <2>3
  <2>4. CASE x # n /\ y # n
    BY <1>l, <1>s, <2>1, <2>4 DEF LiveLast, LastOn
  <2> QED
    BY <2>2, <2>3, <2>4
<1>7. PoolExcludes'
  BY <1>n, <1>l, <1>s, <1>c, <1>o, <1>e, <1>f DEF TypeOK, PoolExcludes, Open, InHand
<1>8. HandExcludes'
  BY <1>n, <1>l, <1>s, <1>c, <1>o, <1>e, <1>f DEF TypeOK, HandExcludes, Open, PoolExcludes
<1>9. SessionExcludes'
  <2>1. SUFFICES ASSUME NEW x \in Sessions, life'[x] = "live"
                 PROVE  /\ Open(sckOf[x])' /\ ~InHand(sckOf[x])' /\ sckOf'[x] \notin stranded'
                        /\ \A i \in 1..Len(pool) : pool[i] # sckOf'[x]
    BY DEF SessionExcludes
  <2>2. CASE x = n
    BY <1>s, <1>o, <1>e, <2>2 DEF Open, InHand, InPool
  <2>3. CASE x # n
    <3>1. life[x] = "live" /\ sckOf'[x] = sckOf[x] /\ sckOf[x] # s /\ sckOf[x] \in Sockets
      BY <1>l, <1>s, <1>f, <2>1, <2>3 DEF TypeOK
    <3> QED
      BY <1>o, <3>1 DEF SessionExcludes, Open, InHand
  <2> QED
    BY <2>2, <2>3
<1>10. StrandedOpen'
  BY <1>n, <1>l, <1>s, <1>c, <1>o, <1>e, <1>f DEF TypeOK, StrandedOpen, Open
<1>11. OpenOwned'
  <2>1. SUFFICES ASSUME NEW z \in Sockets, Open(z)'
                 PROVE  (InPool(z) \/ InHand(z) \/ InSession(z) \/ z \in stranded)'
    BY DEF OpenOwned
  <2>2. CASE z = s
    BY <1>n, <1>l, <1>s, <2>2 DEF InSession
  <2>3. CASE z # s
    <3>1. InPool(z) \/ InHand(z) \/ InSession(z) \/ z \in stranded
      BY <1>o, <2>1, <2>3 DEF OpenOwned, Open
    <3>2. InSession(z) => InSession(z)'
      BY <1>n, <1>l, <1>s DEF InSession
    <3> QED
      BY <3>1, <3>2 DEF InPool, InHand
  <2> QED
    BY <2>2, <2>3
<1>12. PartedInv'
  BY <1>n, <1>l, <1>s, <1>c, <1>o, <1>e, <1>f DEF TypeOK, PartedInv
<1>13. CleanReuse'
  <2>1. SUFFICES ASSUME NEW x \in parted, LastOn(x)',
                        InPool(sckOf[x])' \/ InHand(sckOf[x])'
                 PROVE  net'[sckOf'[x]] = "idle"
    BY DEF CleanReuse
  <2>2. x \in Sessions /\ x # n
    BY <1>n DEF PartedInv, TypeOK
  <2>3. /\ sckOf'[x] = sckOf[x] /\ sckOf[x] \in Sockets
        /\ InPool(sckOf[x]) \/ InHand(sckOf[x])
    BY <1>s, <2>1, <2>2 DEF InPool, InHand, TypeOK
  <2>4. sckOf[x] # s
    BY <1>e, <2>3
  <2>5. LastOn(x)
    BY <1>n, <1>l, <1>s, <2>1, <2>2 DEF LastOn
  <2> QED
    BY <1>o, <2>3, <2>4, <2>5 DEF CleanReuse
<1>14. StopInv'
  BY <1>n, <1>l, <1>s, <1>c, <1>o, <1>e, <1>f DEF TypeOK, StopInv
<1> QED
  BY <1>1, <1>2, <1>3, <1>4, <1>5, <1>6, <1>7, <1>8, <1>9, <1>10, <1>11, <1>12, <1>13, <1>14

\* The closure's session_ptr becomes the handler's.
LEMMA ReadDoneInv ==
  ASSUME IndInv, NEW t \in Threads, NEW x \in Sessions, ReadDone(t, x)
  PROVE  IndInv'
<1> USE DEF IndInv, ReadDone, Complete, acceptVars, sessVars, ioVars
<1>k. "read" \in Keeping
  BY DEF Keeping, Kinds
<1>h. /\ pend' \in [Sessions -> [Kinds -> Nat]]
      /\ \A y \in Sessions, j \in Kinds : y # x \/ j # "read" => pend'[y][j] = pend[y][j]
      /\ HeldBy(x, Threads, app)
      /\ LiveHeld'
  BY <1>k, Completed
<1>a. /\ life[x] = "live" /\ ~InHand(sckOf[x]) /\ ~InPool(sckOf[x])
      /\ \A y \in Sessions : life[y] = "live" /\ sckOf[y] = sckOf[x] => y = x
  BY <1>h, HeldAlone
<1>1. TypeOK'
  BY <1>h, <1>a DEF TypeOK, Enter
<1>2. (TurnInv /\ PopStable)'
  BY <1>h, <1>a DEF TypeOK, TurnInv, PopStable
<1>3. BornInv'
  BY <1>h, <1>a DEF TypeOK, BornInv
<1>4. LiveHeld'
  BY <1>h
<1>5. PoolOnce'
  BY <1>h, <1>a DEF TypeOK, PoolOnce
<1>6. LiveLast'
  BY <1>h, <1>a DEF TypeOK, LiveLast, LastOn
<1>7. PoolExcludes'
  BY <1>h, <1>a DEF TypeOK, PoolExcludes, Open, InHand
<1>8. HandExcludes'
  BY <1>h, <1>a DEF TypeOK, HandExcludes, Open, PoolExcludes
<1>9. SessionExcludes'
  BY <1>h, <1>a DEF TypeOK, SessionExcludes, Open, InHand
<1>10. StrandedOpen'
  BY <1>h, <1>a DEF TypeOK, StrandedOpen, Open
<1>11. OpenOwned'
  BY <1>h, <1>a DEF TypeOK, OpenOwned, Open, InPool, InHand, InSession
<1>12. PartedInv'
  BY <1>h, <1>a DEF TypeOK, PartedInv, Kinds
<1>13. CleanReuse'
  BY <1>h, <1>a DEF TypeOK, CleanReuse, LastOn, InPool, InHand
<1>14. StopInv'
  BY <1>h, <1>a DEF TypeOK, StopInv, Enter
<1> QED
  BY <1>1, <1>2, <1>3, <1>4, <1>5, <1>6, <1>7, <1>8, <1>9, <1>10, <1>11, <1>12, <1>13, <1>14

\* The same, and disconnect() is due.
LEMMA ReadFailedInv ==
  ASSUME IndInv, NEW t \in Threads, NEW x \in Sessions, ReadFailed(t, x)
  PROVE  IndInv'
<1> USE DEF IndInv, ReadFailed, Complete, acceptVars, sessVars, ioVars
<1>k. "read" \in Keeping
  BY DEF Keeping, Kinds
<1>h. /\ pend' \in [Sessions -> [Kinds -> Nat]]
      /\ \A y \in Sessions, j \in Kinds : y # x \/ j # "read" => pend'[y][j] = pend[y][j]
      /\ HeldBy(x, Threads, app)
      /\ LiveHeld'
  BY <1>k, Completed
<1>a. /\ life[x] = "live" /\ ~InHand(sckOf[x]) /\ ~InPool(sckOf[x])
      /\ \A y \in Sessions : life[y] = "live" /\ sckOf[y] = sckOf[x] => y = x
  BY <1>h, HeldAlone
<1>1. TypeOK'
  BY <1>h, <1>a DEF TypeOK, Enter
<1>2. (TurnInv /\ PopStable)'
  BY <1>h, <1>a DEF TypeOK, TurnInv, PopStable
<1>3. BornInv'
  BY <1>h, <1>a DEF TypeOK, BornInv
<1>4. LiveHeld'
  BY <1>h
<1>5. PoolOnce'
  BY <1>h, <1>a DEF TypeOK, PoolOnce
<1>6. LiveLast'
  BY <1>h, <1>a DEF TypeOK, LiveLast, LastOn
<1>7. PoolExcludes'
  BY <1>h, <1>a DEF TypeOK, PoolExcludes, Open, InHand
<1>8. HandExcludes'
  BY <1>h, <1>a DEF TypeOK, HandExcludes, Open, PoolExcludes
<1>9. SessionExcludes'
  BY <1>h, <1>a DEF TypeOK, SessionExcludes, Open, InHand
<1>10. StrandedOpen'
  BY <1>h, <1>a DEF TypeOK, StrandedOpen, Open
<1>11. OpenOwned'
  BY <1>h, <1>a DEF TypeOK, OpenOwned, Open, InPool, InHand, InSession
<1>12. PartedInv'
  BY <1>h, <1>a DEF TypeOK, PartedInv, Kinds
<1>13. CleanReuse'
  BY <1>h, <1>a DEF TypeOK, CleanReuse, LastOn, InPool, InHand
<1>14. StopInv'
  BY <1>h, <1>a DEF TypeOK, StopInv, Enter
<1> QED
  BY <1>1, <1>2, <1>3, <1>4, <1>5, <1>6, <1>7, <1>8, <1>9, <1>10, <1>11, <1>12, <1>13, <1>14

\* The same for a write.
LEMMA WriteDoneInv ==
  ASSUME IndInv, NEW t \in Threads, NEW x \in Sessions, WriteDone(t, x)
  PROVE  IndInv'
<1> USE DEF IndInv, WriteDone, Complete, acceptVars, sessVars, ioVars
<1>k. "write" \in Keeping
  BY DEF Keeping, Kinds
<1>h. /\ pend' \in [Sessions -> [Kinds -> Nat]]
      /\ \A y \in Sessions, j \in Kinds : y # x \/ j # "write" => pend'[y][j] = pend[y][j]
      /\ HeldBy(x, Threads, app)
      /\ LiveHeld'
  BY <1>k, Completed
<1>a. /\ life[x] = "live" /\ ~InHand(sckOf[x]) /\ ~InPool(sckOf[x])
      /\ \A y \in Sessions : life[y] = "live" /\ sckOf[y] = sckOf[x] => y = x
  BY <1>h, HeldAlone
<1>1. TypeOK'
  BY <1>h, <1>a DEF TypeOK, Enter
<1>2. (TurnInv /\ PopStable)'
  BY <1>h, <1>a DEF TypeOK, TurnInv, PopStable
<1>3. BornInv'
  BY <1>h, <1>a DEF TypeOK, BornInv
<1>4. LiveHeld'
  BY <1>h
<1>5. PoolOnce'
  BY <1>h, <1>a DEF TypeOK, PoolOnce
<1>6. LiveLast'
  BY <1>h, <1>a DEF TypeOK, LiveLast, LastOn
<1>7. PoolExcludes'
  BY <1>h, <1>a DEF TypeOK, PoolExcludes, Open, InHand
<1>8. HandExcludes'
  BY <1>h, <1>a DEF TypeOK, HandExcludes, Open, PoolExcludes
<1>9. SessionExcludes'
  BY <1>h, <1>a DEF TypeOK, SessionExcludes, Open, InHand
<1>10. StrandedOpen'
  BY <1>h, <1>a DEF TypeOK, StrandedOpen, Open
<1>11. OpenOwned'
  BY <1>h, <1>a DEF TypeOK, OpenOwned, Open, InPool, InHand, InSession
<1>12. PartedInv'
  BY <1>h, <1>a DEF TypeOK, PartedInv, Kinds
<1>13. CleanReuse'
  BY <1>h, <1>a DEF TypeOK, CleanReuse, LastOn, InPool, InHand
<1>14. StopInv'
  BY <1>h, <1>a DEF TypeOK, StopInv, Enter
<1> QED
  BY <1>1, <1>2, <1>3, <1>4, <1>5, <1>6, <1>7, <1>8, <1>9, <1>10, <1>11, <1>12, <1>13, <1>14

\* The same for a disconnect; the socket is idle again.
LEMMA DisconnectDoneInv ==
  ASSUME IndInv, NEW t \in Threads, NEW x \in Sessions, DisconnectDone(t, x)
  PROVE  IndInv'
<1> USE DEF IndInv, DisconnectDone, Complete, acceptVars, sessVars, ioVars
<1>k. "disc" \in Keeping
  BY DEF Keeping, Kinds
<1>h. /\ pend' \in [Sessions -> [Kinds -> Nat]]
      /\ \A y \in Sessions, j \in Kinds : y # x \/ j # "disc" => pend'[y][j] = pend[y][j]
      /\ HeldBy(x, Threads, app)
      /\ LiveHeld'
  BY <1>k, Completed
<1>a. /\ life[x] = "live" /\ ~InHand(sckOf[x]) /\ ~InPool(sckOf[x])
      /\ \A y \in Sessions : life[y] = "live" /\ sckOf[y] = sckOf[x] => y = x
  BY <1>h, HeldAlone
<1>1. TypeOK'
  BY <1>h, <1>a DEF TypeOK, Enter
<1>2. (TurnInv /\ PopStable)'
  BY <1>h, <1>a DEF TypeOK, TurnInv, PopStable
<1>3. BornInv'
  BY <1>h, <1>a DEF TypeOK, BornInv
<1>4. LiveHeld'
  BY <1>h
<1>5. PoolOnce'
  BY <1>h, <1>a DEF TypeOK, PoolOnce
<1>6. LiveLast'
  BY <1>h, <1>a DEF TypeOK, LiveLast, LastOn
<1>7. PoolExcludes'
  BY <1>h, <1>a DEF TypeOK, PoolExcludes, Open, InHand
<1>8. HandExcludes'
  BY <1>h, <1>a DEF TypeOK, HandExcludes, Open, PoolExcludes
<1>9. SessionExcludes'
  BY <1>h, <1>a DEF TypeOK, SessionExcludes, Open, InHand
<1>10. StrandedOpen'
  BY <1>h, <1>a DEF TypeOK, StrandedOpen, Open
<1>11. OpenOwned'
  BY <1>h, <1>a DEF TypeOK, OpenOwned, Open, InPool, InHand, InSession
<1>12. PartedInv'
  BY <1>h, <1>a DEF TypeOK, PartedInv, Kinds
<1>13. CleanReuse'
  <2>1. SUFFICES ASSUME NEW y \in parted', LastOn(y)',
                        InPool(sckOf[y])' \/ InHand(sckOf[y])'
                 PROVE  net'[sckOf'[y]] = "idle"
    BY DEF CleanReuse
  <2>2. /\ y \in Sessions /\ LastOn(y) /\ sckOf'[y] = sckOf[y] /\ sckOf[y] \in Sockets
        /\ InPool(sckOf[y]) \/ InHand(sckOf[y])
    BY <2>1 DEF LastOn, InPool, InHand, TypeOK
  <2>3. sckOf[y] # sckOf[x] /\ y \in parted
    BY <1>a, <2>1, <2>2
  <2> QED
    BY <2>2, <2>3 DEF CleanReuse, TypeOK
<1>14. StopInv'
  BY <1>h, <1>a DEF TypeOK, StopInv, Enter
<1> QED
  BY <1>1, <1>2, <1>3, <1>4, <1>5, <1>6, <1>7, <1>8, <1>9, <1>10, <1>11, <1>12, <1>13, <1>14

\* A disconnect that fails: the socket is connected again, and its session no
\* longer counts as parted, unless another disconnect is pending.
LEMMA DisconnectFailedInv ==
  ASSUME IndInv, NEW t \in Threads, NEW x \in Sessions, DisconnectFailed(t, x)
  PROVE  IndInv'
<1> USE DEF IndInv, DisconnectFailed, Complete, acceptVars, sessVars, ioVars
<1>k. "disc" \in Keeping
  BY DEF Keeping, Kinds
<1>h. /\ pend' \in [Sessions -> [Kinds -> Nat]]
      /\ \A y \in Sessions, j \in Kinds : y # x \/ j # "disc" => pend'[y][j] = pend[y][j]
      /\ HeldBy(x, Threads, app)
      /\ LiveHeld'
  BY <1>k, Completed
<1>a. /\ life[x] = "live" /\ ~InHand(sckOf[x]) /\ ~InPool(sckOf[x])
      /\ \A y \in Sessions : life[y] = "live" /\ sckOf[y] = sckOf[x] => y = x
  BY <1>h, HeldAlone
<1>1. TypeOK'
  BY <1>h, <1>a DEF TypeOK, Enter
<1>2. (TurnInv /\ PopStable)'
  BY <1>h, <1>a DEF TypeOK, TurnInv, PopStable
<1>3. BornInv'
  BY <1>h, <1>a DEF TypeOK, BornInv
<1>4. LiveHeld'
  BY <1>h
<1>5. PoolOnce'
  BY <1>h, <1>a DEF TypeOK, PoolOnce
<1>6. LiveLast'
  BY <1>h, <1>a DEF TypeOK, LiveLast, LastOn
<1>7. PoolExcludes'
  BY <1>h, <1>a DEF TypeOK, PoolExcludes, Open, InHand
<1>8. HandExcludes'
  BY <1>h, <1>a DEF TypeOK, HandExcludes, Open, PoolExcludes
<1>9. SessionExcludes'
  BY <1>h, <1>a DEF TypeOK, SessionExcludes, Open, InHand
<1>10. StrandedOpen'
  BY <1>h, <1>a DEF TypeOK, StrandedOpen, Open
<1>11. OpenOwned'
  BY <1>h, <1>a DEF TypeOK, OpenOwned, Open, InPool, InHand, InSession
<1>12. PartedInv'
  BY <1>h, <1>a DEF TypeOK, PartedInv, Kinds
<1>13. CleanReuse'
  <2>1. SUFFICES ASSUME NEW y \in parted', LastOn(y)',
                        InPool(sckOf[y])' \/ InHand(sckOf[y])'
                 PROVE  net'[sckOf'[y]] = "idle"
    BY DEF CleanReuse
  <2>2. /\ y \in Sessions /\ LastOn(y) /\ sckOf'[y] = sckOf[y] /\ sckOf[y] \in Sockets
        /\ InPool(sckOf[y]) \/ InHand(sckOf[y])
    BY <2>1 DEF LastOn, InPool, InHand, TypeOK
  <2>3. sckOf[y] # sckOf[x] /\ y \in parted
    BY <1>a, <2>1, <2>2
  <2> QED
    BY <2>2, <2>3 DEF CleanReuse, TypeOK
<1>14. StopInv'
  BY <1>h, <1>a DEF TypeOK, StopInv, Enter
<1> QED
  BY <1>1, <1>2, <1>3, <1>4, <1>5, <1>6, <1>7, <1>8, <1>9, <1>10, <1>11, <1>12, <1>13, <1>14

\* A send holds nothing.
LEMMA SendDoneInv ==
  ASSUME IndInv, NEW t \in Threads, NEW x \in Sessions, SendDone(t, x)
  PROVE  IndInv'
<1> USE DEF IndInv, SendDone, acceptVars, sessVars, ioVars
<1>i. /\ pend' \in [Sessions -> [Kinds -> Nat]]
      /\ \A y \in Sessions, j \in Kinds : y # x \/ j # "send" => pend'[y][j] = pend[y][j]
  BY Decrement DEF TypeOK, Kinds
<1>h. \A y \in Sessions, j \in Keeping : pend'[y][j] = pend[y][j]
  BY <1>i DEF Keeping, Kinds
<1>d. "disc" \in Keeping
  BY DEF Keeping, Kinds
<1>1. TypeOK'
  BY <1>i DEF TypeOK
<1>2. (TurnInv /\ PopStable)'
  BY <1>i DEF TypeOK, TurnInv, PopStable
<1>3. BornInv'
  BY <1>i DEF TypeOK, BornInv
<1>4. LiveHeld'
  BY <1>h DEF LiveHeld, HeldBy
<1>5. PoolOnce'
  BY <1>i DEF TypeOK, PoolOnce
<1>6. LiveLast'
  BY <1>i DEF TypeOK, LiveLast, LastOn
<1>7. PoolExcludes'
  BY <1>i DEF TypeOK, PoolExcludes, Open, InHand
<1>8. HandExcludes'
  BY <1>i DEF TypeOK, HandExcludes, Open, PoolExcludes
<1>9. SessionExcludes'
  BY <1>i DEF TypeOK, SessionExcludes, Open, InHand
<1>10. StrandedOpen'
  BY <1>i DEF TypeOK, StrandedOpen, Open
<1>11. OpenOwned'
  BY <1>i DEF TypeOK, OpenOwned, Open, InPool, InHand, InSession
<1>12. PartedInv'
  BY <1>h, <1>d DEF PartedInv, TypeOK
<1>13. CleanReuse'
  BY <1>i DEF TypeOK, CleanReuse, LastOn, InPool, InHand
<1>14. StopInv'
  BY <1>i DEF TypeOK, StopInv
<1> QED
  BY <1>1, <1>2, <1>3, <1>4, <1>5, <1>6, <1>7, <1>8, <1>9, <1>10, <1>11, <1>12, <1>13, <1>14

\* A new closure; the handler holds the session anyway.
LEMMA StartOpInv ==
  ASSUME IndInv, NEW t \in Threads, NEW x \in Sessions, NEW k \in Kinds, StartOp(t, x, k)
  PROVE  IndInv'
<1> USE DEF IndInv, StartOp, acceptVars, sessVars, ioVars
<1>h. HeldBy(x, Threads, app)
  BY DEF HeldBy
<1>a. /\ life[x] = "live" /\ ~InHand(sckOf[x]) /\ ~InPool(sckOf[x])
      /\ sckOf[x] \notin stranded /\ Open(sckOf[x])
      /\ \A y \in Sessions : life[y] = "live" /\ sckOf[y] = sckOf[x] => y = x
  BY <1>h, HeldAlone
<1>i. /\ pend' \in [Sessions -> [Kinds -> Nat]]
      /\ pend'[x][k] = pend[x][k] + 1
      /\ \A y \in Sessions, j \in Kinds : y # x \/ j # k => pend'[y][j] = pend[y][j]
  BY Increment DEF TypeOK
<1>1. TypeOK'
  BY <1>i DEF TypeOK
<1>2. (TurnInv /\ PopStable)'
  BY <1>i DEF TypeOK, TurnInv, PopStable
<1>3. BornInv'
  BY <1>i DEF TypeOK, BornInv
<1>4. LiveHeld'
  <2>1. \A y \in Sessions, j \in Keeping : y # x => pend'[y][j] = pend[y][j]
    BY <1>i DEF Keeping
  <2> QED
    BY <1>a, <2>1 DEF LiveHeld, HeldBy
<1>5. PoolOnce'
  BY <1>i DEF TypeOK, PoolOnce
<1>6. LiveLast'
  BY <1>i DEF TypeOK, LiveLast, LastOn
<1>7. PoolExcludes'
  BY <1>i DEF TypeOK, PoolExcludes, Open, InHand
<1>8. HandExcludes'
  BY <1>i DEF TypeOK, HandExcludes, Open, PoolExcludes
<1>9. SessionExcludes'
  BY <1>i DEF TypeOK, SessionExcludes, Open, InHand
<1>10. StrandedOpen'
  BY <1>i DEF TypeOK, StrandedOpen, Open
<1>11. OpenOwned'
  BY <1>i DEF TypeOK, OpenOwned, Open, InPool, InHand, InSession
<1>12. PartedInv'
  BY <1>i DEF TypeOK, PartedInv, Kinds
<1>13. CleanReuse'
  BY <1>i DEF TypeOK, CleanReuse, LastOn, InPool, InHand
<1>14. StopInv'
  BY <1>i DEF TypeOK, StopInv
<1> QED
  BY <1>1, <1>2, <1>3, <1>4, <1>5, <1>6, <1>7, <1>8, <1>9, <1>10, <1>11, <1>12, <1>13, <1>14

\* disconnect() becomes due.
LEMMA StartReadFailsInv ==
  ASSUME IndInv, NEW t \in Threads, NEW x \in Sessions, StartReadFails(t, x)
  PROVE  IndInv'
<1> USE DEF IndInv, StartReadFails, acceptVars, sessVars, ioVars
<1>1. /\ BornInv' /\ PoolOnce' /\ LiveLast'
      /\ PoolExcludes' /\ HandExcludes' /\ SessionExcludes' /\ StrandedOpen'
      /\ OpenOwned' /\ PartedInv' /\ CleanReuse'
  BY Quiet
<1>2. TypeOK'
  BY DEF TypeOK
<1>3. TurnInv' /\ PopStable'
  BY DEF TypeOK, TurnInv, PopStable
<1>4. LiveHeld'
  BY DEF TypeOK, LiveHeld, HeldBy
<1>5. StopInv'
  BY DEF TypeOK, StopInv
<1> QED
  BY <1>1, <1>2, <1>3, <1>4, <1>5

\* DisconnectEx keeps the session while it is pending.
LEMMA DisconnectPendsInv ==
  ASSUME IndInv, NEW t \in Threads, NEW x \in Sessions, DisconnectPends(t, x)
  PROVE  IndInv'
<1> USE DEF IndInv, DisconnectPends, Disconnecting, acceptVars, sessVars, ioVars
<1>h. HeldBy(x, Threads, app)
  BY DEF HeldBy
<1>a. /\ life[x] = "live" /\ ~InHand(sckOf[x]) /\ ~InPool(sckOf[x])
      /\ sckOf[x] \notin stranded /\ Open(sckOf[x])
      /\ \A y \in Sessions : life[y] = "live" /\ sckOf[y] = sckOf[x] => y = x
  BY <1>h, HeldAlone
<1>i. /\ pend' \in [Sessions -> [Kinds -> Nat]]
      /\ pend'[x]["disc"] = pend[x]["disc"] + 1
      /\ \A y \in Sessions, j \in Kinds : y # x \/ j # "disc" => pend'[y][j] = pend[y][j]
  BY Increment DEF TypeOK, Kinds
<1>1. TypeOK'
  BY <1>i, <1>a DEF TypeOK
<1>2. (TurnInv /\ PopStable)'
  BY <1>i, <1>a DEF TypeOK, TurnInv, PopStable
<1>3. BornInv'
  BY <1>i, <1>a DEF TypeOK, BornInv
<1>4. LiveHeld'
  <2>1. \A y \in Sessions, j \in Keeping : y # x => pend'[y][j] = pend[y][j]
    BY <1>i DEF Keeping
  <2> QED
    BY <1>a, <2>1 DEF LiveHeld, HeldBy
<1>5. PoolOnce'
  BY <1>i, <1>a DEF TypeOK, PoolOnce
<1>6. LiveLast'
  BY <1>i, <1>a DEF TypeOK, LiveLast, LastOn
<1>7. PoolExcludes'
  BY <1>i, <1>a DEF TypeOK, PoolExcludes, Open, InHand
<1>8. HandExcludes'
  BY <1>i, <1>a DEF TypeOK, HandExcludes, Open, PoolExcludes
<1>9. SessionExcludes'
  BY <1>i, <1>a DEF TypeOK, SessionExcludes, Open, InHand
<1>10. StrandedOpen'
  BY <1>i, <1>a DEF TypeOK, StrandedOpen, Open
<1>11. OpenOwned'
  BY <1>i, <1>a DEF TypeOK, OpenOwned, Open, InPool, InHand, InSession
<1>12. PartedInv'
  BY <1>i, <1>a DEF TypeOK, PartedInv, Kinds
<1>13. CleanReuse'
  <2>1. SUFFICES ASSUME NEW y \in parted', LastOn(y)',
                        InPool(sckOf[y])' \/ InHand(sckOf[y])'
                 PROVE  net'[sckOf'[y]] = "idle"
    BY DEF CleanReuse
  <2>2. /\ y \in Sessions /\ LastOn(y) /\ sckOf'[y] = sckOf[y] /\ sckOf[y] \in Sockets
        /\ InPool(sckOf[y]) \/ InHand(sckOf[y])
    BY <2>1 DEF LastOn, InPool, InHand, TypeOK
  <2>3. sckOf[y] # sckOf[x] /\ y \in parted
    BY <1>a, <2>1, <2>2
  <2> QED
    BY <2>2, <2>3 DEF CleanReuse, TypeOK
<1>14. StopInv'
  BY <1>i, <1>a DEF TypeOK, StopInv
<1> QED
  BY <1>1, <1>2, <1>3, <1>4, <1>5, <1>6, <1>7, <1>8, <1>9, <1>10, <1>11, <1>12, <1>13, <1>14

\* DisconnectEx at once leaves a closure that holds the session for ever.
LEMMA DisconnectAtOnceInv ==
  ASSUME IndInv, NEW t \in Threads, NEW x \in Sessions, DisconnectAtOnce(t, x)
  PROVE  IndInv'
<1> USE DEF IndInv, DisconnectAtOnce, Disconnecting, acceptVars, sessVars, ioVars
<1>h. HeldBy(x, Threads, app)
  BY DEF HeldBy
<1>a. /\ life[x] = "live" /\ ~InHand(sckOf[x]) /\ ~InPool(sckOf[x])
      /\ sckOf[x] \notin stranded /\ Open(sckOf[x])
      /\ \A y \in Sessions : life[y] = "live" /\ sckOf[y] = sckOf[x] => y = x
  BY <1>h, HeldAlone
<1>1. TypeOK'
  BY <1>a DEF TypeOK
<1>2. (TurnInv /\ PopStable)'
  BY <1>a DEF TypeOK, TurnInv, PopStable
<1>3. BornInv'
  BY <1>a DEF TypeOK, BornInv
<1>4. LiveHeld'
  BY <1>a DEF TypeOK, LiveHeld, HeldBy, Keeping, Kinds
<1>5. PoolOnce'
  BY <1>a DEF TypeOK, PoolOnce
<1>6. LiveLast'
  BY <1>a DEF TypeOK, LiveLast, LastOn
<1>7. PoolExcludes'
  BY <1>a DEF TypeOK, PoolExcludes, Open, InHand
<1>8. HandExcludes'
  BY <1>a DEF TypeOK, HandExcludes, Open, PoolExcludes
<1>9. SessionExcludes'
  BY <1>a DEF TypeOK, SessionExcludes, Open, InHand
<1>10. StrandedOpen'
  BY <1>a DEF TypeOK, StrandedOpen, Open
<1>11. OpenOwned'
  BY <1>a DEF TypeOK, OpenOwned, Open, InPool, InHand, InSession
<1>12. PartedInv'
  BY <1>a DEF TypeOK, PartedInv
<1>13. CleanReuse'
  <2>1. SUFFICES ASSUME NEW y \in parted', LastOn(y)',
                        InPool(sckOf[y])' \/ InHand(sckOf[y])'
                 PROVE  net'[sckOf'[y]] = "idle"
    BY DEF CleanReuse
  <2>2. /\ y \in Sessions /\ LastOn(y) /\ sckOf'[y] = sckOf[y] /\ sckOf[y] \in Sockets
        /\ InPool(sckOf[y]) \/ InHand(sckOf[y])
    BY <2>1 DEF LastOn, InPool, InHand, TypeOK
  <2>3. sckOf[y] # sckOf[x] /\ y \in parted
    BY <1>a, <2>1, <2>2
  <2> QED
    BY <2>2, <2>3 DEF CleanReuse, TypeOK
<1>14. StopInv'
  BY <1>a DEF TypeOK, StopInv
<1> QED
  BY <1>1, <1>2, <1>3, <1>4, <1>5, <1>6, <1>7, <1>8, <1>9, <1>10, <1>11, <1>12, <1>13, <1>14

\* A failed DisconnectEx changes nothing else.
LEMMA DisconnectThrowsInv ==
  ASSUME IndInv, NEW t \in Threads, NEW x \in Sessions, DisconnectThrows(t, x)
  PROVE  IndInv'
<1> USE DEF IndInv, DisconnectThrows, Disconnecting, acceptVars, sessVars, ioVars
<1>1. /\ BornInv' /\ PoolOnce' /\ LiveLast'
      /\ PoolExcludes' /\ HandExcludes' /\ SessionExcludes' /\ StrandedOpen'
      /\ OpenOwned' /\ PartedInv' /\ CleanReuse'
  BY Quiet
<1>2. TypeOK'
  BY DEF TypeOK
<1>3. TurnInv' /\ PopStable'
  BY DEF TypeOK, TurnInv, PopStable
<1>4. LiveHeld'
  BY DEF TypeOK, LiveHeld, HeldBy
<1>5. StopInv'
  BY DEF TypeOK, StopInv
<1> QED
  BY <1>1, <1>2, <1>3, <1>4, <1>5

\* One more session_ptr.
LEMMA KeepInv ==
  ASSUME IndInv, NEW t \in Threads, NEW x \in Sessions, Keep(t, x)
  PROVE  IndInv'
<1> USE DEF IndInv, Keep, acceptVars, sessVars, ioVars
<1>1. /\ BornInv' /\ PoolOnce' /\ LiveLast'
      /\ PoolExcludes' /\ HandExcludes' /\ SessionExcludes' /\ StrandedOpen'
      /\ OpenOwned' /\ PartedInv' /\ CleanReuse'
  BY Quiet
<1>2. TypeOK'
  BY DEF TypeOK
<1>3. TurnInv' /\ PopStable'
  BY DEF TypeOK, TurnInv, PopStable
<1>4. LiveHeld'
  BY DEF TypeOK, LiveHeld, HeldBy
<1>5. StopInv'
  BY DEF TypeOK, StopInv
<1> QED
  BY <1>1, <1>2, <1>3, <1>4, <1>5

\* A session_ptr is dropped, perhaps the last one: the socket goes to the pool.
LEMMA Dropped ==
  ASSUME IndInv, NEW x \in Sessions, NEW held \in BOOLEAN, HeldBy(x, Threads, app),
         Drop(x, held), ~held => pend[x]["disc"] = 0,
         UNCHANGED <<net, acceptVars, born, sckOf, pend, stranded, parted>>
  PROVE  /\ life' \in [Sessions -> {"unborn", "live", "dead"}]
         /\ \A y \in Sessions : y # x => life'[y] = life[y]
         /\ life'[x] = "live" <=> held
         /\ pool' \in Seq(Sockets)
         /\ PopStable' /\ BornInv' /\ PoolOnce' /\ LiveLast'
         /\ PoolExcludes' /\ HandExcludes' /\ SessionExcludes' /\ OpenOwned'
         /\ PartedInv' /\ CleanReuse'
<1> USE DEF IndInv, acceptVars
<1>1. CASE held
  <2>1. life[x] = "live" /\ UNCHANGED <<life, pool, net, accPc, accSck, accI, born, sckOf, pend,
                    stranded, parted>>
    BY <1>1, HeldAlone DEF Drop
  <2> QED
    <3>1. PopStable' /\ BornInv' /\ PoolOnce' /\ LiveLast' /\ PartedInv'
      BY <2>1 DEF PopStable, BornInv, PoolOnce, LiveLast, LastOn, PartedInv
    <3>2. PoolExcludes' /\ HandExcludes' /\ SessionExcludes'
      BY <2>1 DEF PoolExcludes, HandExcludes, SessionExcludes, Open, InHand
    <3>3. OpenOwned'
      BY <2>1 DEF OpenOwned, Open, InPool, InHand, InSession
    <3>4. CleanReuse'
      BY <2>1 DEF CleanReuse, LastOn, InPool, InHand
    <3> QED
      BY <1>1, <2>1, <3>1, <3>2, <3>3, <3>4 DEF TypeOK
<1>2. CASE ~held
  <2>a. /\ life[x] = "live"
        /\ Open(sckOf[x]) /\ ~InHand(sckOf[x]) /\ ~InPool(sckOf[x])
        /\ sckOf[x] \notin stranded /\ sckOf[x] \in Sockets
        /\ \A y \in Sessions : life[y] = "live" /\ sckOf[y] = sckOf[x] => y = x
    BY HeldAlone DEF TypeOK
  <2>l. /\ life' \in [Sessions -> {"unborn", "live", "dead"}]
        /\ life'[x] = "dead" /\ \A y \in Sessions : y # x => life'[y] = life[y]
    BY <1>2 DEF Drop, TypeOK
  <2>o. pool' = Append(pool, sckOf[x]) /\ pool \in Seq(Sockets)
    BY <1>2 DEF Drop, TypeOK
  <2>p. /\ pool' \in Seq(Sockets) /\ Len(pool') = Len(pool) + 1
        /\ \A i \in 1..Len(pool) : pool'[i] = pool[i]
        /\ pool'[Len(pool) + 1] = sckOf[x]
    BY <2>a, <2>o, AppendProperties
  <2>q. \A i \in 1..Len(pool') : i \in 1..Len(pool) \/ i = Len(pool) + 1
    BY <2>p DEF TypeOK
  <2>r. /\ \A i \in 1..Len(pool) : i \in 1..Len(pool')
        /\ Len(pool) + 1 \in 1..Len(pool')
    BY <2>p DEF TypeOK
  <2>s. \A i \in 1..Len(pool') : pool'[i] = sckOf[x] => i = Len(pool) + 1
    BY <2>a, <2>p, <2>q DEF InPool
  <2>1. PopStable'
    <3>1. SUFFICES ASSUME accPc \in {"top", "pop"}
                   PROVE  pool' # <<>> /\ (accPc = "pop" => Head(pool') = accSck)
      BY DEF PopStable
    <3>2. Len(pool) > 0 /\ (accPc = "pop" => Head(pool) = accSck)
      BY <3>1 DEF PopStable, TypeOK
    <3>3. Head(pool) = pool[1] /\ 1 \in 1..Len(pool)
      BY <3>2, HeadTailProperties DEF TypeOK
    <3>4. Len(pool') > 0
      BY <2>p, <3>2 DEF TypeOK
    <3>5. Head(pool') = pool'[1]
      BY <3>4, <2>p, HeadTailProperties
    <3> QED
      BY <2>p, <3>2, <3>3, <3>4, <3>5
  <2>2. BornInv'
    BY <2>a, <2>l DEF BornInv
  <2>3. PoolOnce'
    BY <2>p, <2>q, <2>s DEF PoolOnce
  <2>4. LiveLast'
    BY <2>a, <2>l DEF LiveLast, LastOn
  <2>5. PoolExcludes'
    BY <2>a, <2>p, <2>q DEF PoolExcludes, Open, InHand
  <2>6. HandExcludes'
    BY DEF HandExcludes, Open
  <2>7. SessionExcludes'
    <3>1. SUFFICES ASSUME NEW y \in Sessions, life'[y] = "live"
                   PROVE  /\ Open(sckOf[y]) /\ ~InHand(sckOf[y])
                          /\ sckOf[y] \notin stranded
                          /\ \A i \in 1..Len(pool') : pool'[i] # sckOf[y]
      BY DEF SessionExcludes, Open, InHand
    <3>2. y # x /\ life[y] = "live" /\ sckOf[y] # sckOf[x]
      BY <2>a, <2>l, <3>1
    <3> QED
      BY <2>p, <2>q, <3>2 DEF SessionExcludes
  <2>8. OpenOwned'
    <3>1. SUFFICES ASSUME NEW z \in Sockets, Open(z)
                   PROVE  (InPool(z) \/ InHand(z) \/ InSession(z) \/ z \in stranded)'
      BY DEF OpenOwned, Open
    <3>2. CASE z = sckOf[x]
      BY <2>p, <2>r, <3>2 DEF InPool
    <3>3. CASE z # sckOf[x]
      <4>1. InPool(z) => InPool(z)'
        BY <2>p, <2>r DEF InPool
      <4>2. InSession(z) => InSession(z)'
        BY <2>l, <3>3 DEF InSession
      <4> QED
        BY <3>1, <4>1, <4>2 DEF OpenOwned, InHand
    <3> QED
      BY <3>2, <3>3
  <2>9. PartedInv'
    BY <2>a, <2>l DEF PartedInv, TypeOK
  <2>10. CleanReuse'
    <3>1. SUFFICES ASSUME NEW y \in parted, LastOn(y)',
                          InPool(sckOf[y])' \/ InHand(sckOf[y])'
                   PROVE  net[sckOf[y]] = "idle"
      BY DEF CleanReuse
    <3>2. y \in Sessions /\ LastOn(y)
      BY <2>a, <2>l, <3>1 DEF LastOn, TypeOK
    <3>3. CASE sckOf[y] = sckOf[x]
      <4>1. ~(y > x)
        BY <2>a, <3>1, <3>2, <3>3 DEF LiveLast, LastOn, PartedInv
      <4>2. ~(x > y)
        BY <2>a, <3>2, <3>3 DEF LastOn
      <4>3. y = x
        BY <3>2, <4>1, <4>2, ServerAssumption DEF Sessions
      <4> QED
        BY <1>2, <2>a, <3>1, <4>3 DEF PartedInv
    <3>4. CASE sckOf[y] # sckOf[x]
      <4>1. InPool(sckOf[y]) \/ InHand(sckOf[y])
        BY <2>p, <2>q, <3>1, <3>4 DEF InPool, InHand
      <4> QED
        BY <3>1, <3>2, <4>1 DEF CleanReuse
    <3> QED
      BY <3>3, <3>4
  <2> QED
    BY <1>2, <2>l, <2>p, <2>1, <2>2, <2>3, <2>4, <2>5, <2>6, <2>7, <2>8, <2>9, <2>10
<1> QED
  BY <1>1, <1>2

\* A handler returns.
LEMMA FinishInv ==
  ASSUME IndInv, NEW t \in Threads, NEW x \in Sessions, Finish(t, x)
  PROVE  IndInv'
<1> USE DEF IndInv, acceptVars, ioVars
<1> DEFINE held == HeldBy(x, Threads \ {t}, app)
<1>h. HeldBy(x, Threads, app)
  BY DEF Finish, HeldBy
<1>b. held \in BOOLEAN
  BY DEF HeldBy
<1>g. Drop(x, held)
  BY DEF Finish
<1>k. ~held => pend[x]["disc"] = 0
  <2>1. "disc" \in Keeping /\ pend[x]["disc"] \in Nat
    BY DEF Keeping, Kinds, TypeOK
  <2> QED
    BY <2>1 DEF HeldBy
<1>u. UNCHANGED <<net, acceptVars, born, sckOf, pend, due, app, leaked, stranded, parted,
                  left, stopPc>> /\ mute' = mute \ {t}
  BY DEF Finish
<1>c. /\ ctx' \in [Threads -> Sessions \cup {NoSession}]
      /\ ctx[t] = x /\ ctx'[t] = NoSession
      /\ \A u \in Threads : u # t => ctx'[u] = ctx[u]
  BY DEF Finish, TypeOK
<1> HIDE DEF held
<1>d. /\ life' \in [Sessions -> {"unborn", "live", "dead"}]
      /\ \A y \in Sessions : y # x => life'[y] = life[y]
      /\ life'[x] = "live" <=> held
      /\ pool' \in Seq(Sockets)
      /\ PopStable' /\ BornInv' /\ PoolOnce' /\ LiveLast'
      /\ PoolExcludes' /\ HandExcludes' /\ SessionExcludes' /\ OpenOwned'
      /\ PartedInv' /\ CleanReuse'
  BY <1>h, <1>b, <1>g, <1>k, <1>u, Dropped
<1>1. TypeOK'
  BY <1>c, <1>d, <1>u DEF TypeOK
<1>2. TurnInv' /\ StrandedOpen'
  BY <1>u DEF TurnInv, StrandedOpen, Open
<1>3. LiveHeld'
  <2>1. SUFFICES ASSUME NEW y \in Sessions
                 PROVE  (life[y] = "live" <=> HeldBy(y, Threads, app))'
    BY DEF LiveHeld
  <2>2. y # NoSession
    BY ServerAssumption DEF Sessions, NoSession
  <2>3. (\E u \in Threads : ctx'[u] = y) <=> \E u \in Threads \ {t} : ctx[u] = y
    BY <1>c, <2>2
  <2>4. HeldBy(y, Threads, app)' <=> HeldBy(y, Threads \ {t}, app)
    BY <1>u, <2>3 DEF HeldBy
  <2>5. CASE y = x
    BY <1>d, <2>4, <2>5 DEF held
  <2>6. CASE y # x
    <3>1. HeldBy(y, Threads \ {t}, app) <=> HeldBy(y, Threads, app)
      BY <1>c, <2>6 DEF HeldBy
    <3> QED
      BY <1>d, <2>4, <2>6, <3>1 DEF LiveHeld
  <2> QED
    BY <2>5, <2>6
<1>4. StopInv'
  BY <1>u, <1>c DEF StopInv, TypeOK
<1> QED
  BY <1>d, <1>1, <1>2, <1>3, <1>4

\* The application drops its session_ptr.
LEMMA AppDropInv ==
  ASSUME IndInv, NEW x \in Sessions, AppDrop(x)
  PROVE  IndInv'
<1> USE DEF IndInv, acceptVars, ioVars
<1> DEFINE held == HeldBy(x, Threads, app \ {x})
<1>h. HeldBy(x, Threads, app)
  BY DEF AppDrop, HeldBy
<1>b. held \in BOOLEAN
  BY DEF HeldBy
<1>g. Drop(x, held)
  BY DEF AppDrop
<1>k. ~held => pend[x]["disc"] = 0
  <2>1. "disc" \in Keeping /\ pend[x]["disc"] \in Nat
    BY DEF Keeping, Kinds, TypeOK
  <2> QED
    BY <2>1 DEF HeldBy
<1>u. /\ UNCHANGED <<net, acceptVars, born, sckOf, pend, ctx, due, leaked, stranded,
                     parted, mute, left, stopPc>>
      /\ app' = app \ {x}
  BY DEF AppDrop
<1> HIDE DEF held
<1>d. /\ life' \in [Sessions -> {"unborn", "live", "dead"}]
      /\ \A y \in Sessions : y # x => life'[y] = life[y]
      /\ life'[x] = "live" <=> held
      /\ pool' \in Seq(Sockets)
      /\ PopStable' /\ BornInv' /\ PoolOnce' /\ LiveLast'
      /\ PoolExcludes' /\ HandExcludes' /\ SessionExcludes' /\ OpenOwned'
      /\ PartedInv' /\ CleanReuse'
  BY <1>h, <1>b, <1>g, <1>k, <1>u, Dropped
<1>1. TypeOK'
  BY <1>d, <1>u DEF TypeOK
<1>2. TurnInv' /\ StrandedOpen'
  BY <1>u DEF TurnInv, StrandedOpen, Open
<1>3. LiveHeld'
  <2>1. SUFFICES ASSUME NEW y \in Sessions
                 PROVE  (life[y] = "live" <=> HeldBy(y, Threads, app))'
    BY DEF LiveHeld
  <2>4. HeldBy(y, Threads, app)' <=> HeldBy(y, Threads, app \ {x})
    BY <1>u DEF HeldBy
  <2>5. CASE y = x
    BY <1>d, <2>4, <2>5 DEF held
  <2>6. CASE y # x
    <3>1. HeldBy(y, Threads, app \ {x}) <=> HeldBy(y, Threads, app)
      BY <2>6 DEF HeldBy
    <3> QED
      BY <1>d, <2>4, <2>6, <3>1 DEF LiveHeld
  <2> QED
    BY <2>5, <2>6
<1>4. StopInv'
  BY <1>u DEF StopInv, TypeOK
<1> QED
  BY <1>d, <1>1, <1>2, <1>3, <1>4

\* stop() is entered.
LEMMA StopBeginInv ==
  ASSUME IndInv, StopBegin
  PROVE  IndInv'
<1> USE DEF IndInv, StopBegin, acceptVars, sessVars, ioVars
<1>1. /\ BornInv' /\ PoolOnce' /\ LiveLast'
      /\ PoolExcludes' /\ HandExcludes' /\ SessionExcludes' /\ StrandedOpen'
      /\ OpenOwned' /\ PartedInv' /\ CleanReuse'
  BY Quiet
<1>2. TypeOK'
  BY DEF TypeOK
<1>3. TurnInv' /\ PopStable'
  BY DEF TypeOK, TurnInv, PopStable
<1>4. LiveHeld'
  BY DEF TypeOK, LiveHeld, HeldBy
<1>5. StopInv'
  BY DEF TypeOK, StopInv
<1> QED
  BY <1>1, <1>2, <1>3, <1>4, <1>5

\* The accept thread has ended.
LEMMA StopJoinInv ==
  ASSUME IndInv, StopJoin
  PROVE  IndInv'
<1> USE DEF IndInv, StopJoin, acceptVars, sessVars, ioVars
<1>1. /\ BornInv' /\ PoolOnce' /\ LiveLast'
      /\ PoolExcludes' /\ HandExcludes' /\ SessionExcludes' /\ StrandedOpen'
      /\ OpenOwned' /\ PartedInv' /\ CleanReuse'
  BY Quiet
<1>2. TypeOK'
  BY DEF TypeOK
<1>3. TurnInv' /\ PopStable'
  BY DEF TypeOK, TurnInv, PopStable
<1>4. LiveHeld'
  BY DEF TypeOK, LiveHeld, HeldBy
<1>5. StopInv'
  BY DEF TypeOK, StopInv
<1> QED
  BY <1>1, <1>2, <1>3, <1>4, <1>5

\* All workers have left.
LEMMA StopReturnInv ==
  ASSUME IndInv, StopReturn
  PROVE  IndInv'
<1> USE DEF IndInv, StopReturn, acceptVars, sessVars, ioVars
<1>1. /\ BornInv' /\ PoolOnce' /\ LiveLast'
      /\ PoolExcludes' /\ HandExcludes' /\ SessionExcludes' /\ StrandedOpen'
      /\ OpenOwned' /\ PartedInv' /\ CleanReuse'
  BY Quiet
<1>2. TypeOK'
  BY DEF TypeOK
<1>3. TurnInv' /\ PopStable'
  BY DEF TypeOK, TurnInv, PopStable
<1>4. LiveHeld'
  BY DEF TypeOK, LiveHeld, HeldBy
<1>5. StopInv'
  BY DEF TypeOK, StopInv
<1> QED
  BY <1>1, <1>2, <1>3, <1>4, <1>5

\* A worker leaves between handlers.
LEMMA WorkerLeavesInv ==
  ASSUME IndInv, NEW t \in Threads, WorkerLeaves(t)
  PROVE  IndInv'
<1> USE DEF IndInv, WorkerLeaves, acceptVars, sessVars, ioVars
<1>1. /\ BornInv' /\ PoolOnce' /\ LiveLast'
      /\ PoolExcludes' /\ HandExcludes' /\ SessionExcludes' /\ StrandedOpen'
      /\ OpenOwned' /\ PartedInv' /\ CleanReuse'
  BY Quiet
<1>2. TypeOK'
  BY DEF TypeOK
<1>3. TurnInv' /\ PopStable'
  BY DEF TypeOK, TurnInv, PopStable
<1>4. LiveHeld'
  BY DEF TypeOK, LiveHeld, HeldBy
<1>5. StopInv'
  BY DEF TypeOK, StopInv
<1> QED
  BY <1>1, <1>2, <1>3, <1>4, <1>5

-----------------------------------------------------------------------------
(* The theorems                                                            *)

\* The inductive invariant holds initially.
LEMMA InitInv == Init => IndInv
<1> SUFFICES ASSUME Init PROVE IndInv
  OBVIOUS
<1> USE DEF Init
<1>1. TypeOK
  BY ServerAssumption DEF TypeOK
<1>2. TurnInv /\ PopStable /\ PoolOnce /\ PoolExcludes /\ HandExcludes /\ StopInv
  BY DEF TurnInv, PopStable, PoolOnce, PoolExcludes, HandExcludes, StopInv
<1>3. BornInv
  BY ServerAssumption DEF BornInv, Sessions
<1>4. LiveHeld
  BY ServerAssumption DEF LiveHeld, HeldBy, Keeping, Sessions, NoSession
<1>5. LiveLast /\ SessionExcludes /\ StrandedOpen /\ PartedInv /\ CleanReuse
  BY DEF LiveLast, SessionExcludes, StrandedOpen, PartedInv, CleanReuse
<1>6. OpenOwned
  BY DEF OpenOwned, Open
<1> QED
  BY <1>1, <1>2, <1>3, <1>4, <1>5, <1>6 DEF IndInv

\* Every step keeps it.
LEMMA StepInv == IndInv /\ [Next]_vars => IndInv'
<1> SUFFICES ASSUME IndInv, [Next]_vars
             PROVE  IndInv'
  OBVIOUS
<1>1. CASE Start \/ AcceptEvent
  BY <1>1, StartInv, AcceptEventInv
<1>2. CASE Acceptor
  BY <1>2, PoolNotEmptyInv, CreateSocketInv, PoolTopInv, PoolPopInv, AcceptPendsInv,
     AcceptAtOnceInv, AcceptThrowsInv, AcceptExitInv DEF Acceptor
<1>3. CASE \E t \in Threads, s \in Sockets, ok \in BOOLEAN : AcceptDone(t, s, ok)
  BY <1>3, AcceptDoneInv
<1>4. ASSUME NEW t \in Threads, NEW x \in Sessions, Completion(t, x)
      PROVE  IndInv'
  BY <1>4, ReadDoneInv, ReadFailedInv, WriteDoneInv, DisconnectDoneInv,
     DisconnectFailedInv, SendDoneInv DEF Completion
<1>5. ASSUME NEW t \in Threads, NEW x \in Sessions, Handler(t, x)
      PROVE  IndInv'
  BY <1>5, StartOpInv, StartReadFailsInv, DisconnectPendsInv, DisconnectAtOnceInv,
     DisconnectThrowsInv, KeepInv, FinishInv DEF Handler, Disconnect
<1>6. CASE \E x \in Sessions : AppDrop(x)
  BY <1>6, AppDropInv
<1>7. CASE StopBegin \/ StopJoin \/ StopReturn
  BY <1>7, StopBeginInv, StopJoinInv, StopReturnInv
<1>8. CASE \E t \in Threads : WorkerLeaves(t)
  BY <1>8, WorkerLeavesInv
<1>9. CASE UNCHANGED vars
  BY <1>9 DEF vars, IndInv, TypeOK, TurnInv, PopStable, BornInv, LiveHeld, HeldBy, PoolOnce,
    LiveLast, LastOn, PoolExcludes, HandExcludes, SessionExcludes, StrandedOpen,
    OpenOwned, PartedInv, CleanReuse, StopInv, Open, InPool, InHand, InSession
<1> QED
  BY <1>1, <1>2, <1>3, <1>4, <1>5, <1>6, <1>7, <1>8, <1>9 DEF Next

LEMMA Invariance == Spec => []IndInv
  BY InitInv, StepInv, PTL DEF Spec

\* The value domains, for any number of sockets, sessions and workers.
THEOREM TypeCorrect == Spec => []TypeOK
<1>1. IndInv => TypeOK
  BY DEF IndInv
<1> QED
  BY <1>1, Invariance, PTL

\* Each socket object has exactly one owner: what the pool's unlocked pop(), the
\* callbacks and ~session() pass between threads is neither shared nor lost.
THEOREM SocketOwnedOnce == Spec => []OneOwner
<1>1. ASSUME IndInv PROVE OneOwner
  <2> USE <1>1 DEF IndInv
  <2>1. ASSUME NEW s \in Sockets
        PROVE  \E o \in Owners : \A q \in Owners : Owns(q, s) <=> q = o
    <3>1. InPool(s) => Open(s) /\ ~InHand(s) /\ ~InSession(s) /\ s \notin stranded
      BY DEF PoolExcludes, SessionExcludes, InPool, InSession
    <3>2. InHand(s) => Open(s) /\ ~InSession(s) /\ s \notin stranded
      BY DEF HandExcludes, SessionExcludes, InHand, InSession
    <3>3. InSession(s) => Open(s) /\ s \notin stranded
      BY DEF SessionExcludes, InSession
    <3>4. s \in stranded => Open(s)
      BY DEF StrandedOpen
    <3>5. Open(s) => InPool(s) \/ InHand(s) \/ InSession(s) \/ s \in stranded
      BY <2>1 DEF OpenOwned
    <3>6. net[s] \in {"none", "closed"} \/ net[s] = "accepting" \/ Open(s)
      BY <2>1 DEF TypeOK, Open
    <3>7. /\ Open(s) => net[s] \notin {"none", "closed"} /\ net[s] # "accepting"
          /\ net[s] = "accepting" => net[s] \notin {"none", "closed"}
      BY DEF Open
    <3>8. CASE net[s] \in {"none", "closed"}
      BY <3>1, <3>2, <3>3, <3>4, <3>7, <3>8 DEF Owners, Owns
    <3>9. CASE net[s] = "accepting"
      BY <3>1, <3>2, <3>3, <3>4, <3>7, <3>9 DEF Owners, Owns
    <3>10. CASE InPool(s)
      BY <3>1, <3>2, <3>3, <3>4, <3>7, <3>10 DEF Owners, Owns
    <3>11. CASE InHand(s)
      BY <3>1, <3>2, <3>3, <3>4, <3>7, <3>11 DEF Owners, Owns
    <3>12. CASE InSession(s)
      BY <3>1, <3>2, <3>3, <3>4, <3>7, <3>12 DEF Owners, Owns
    <3>13. CASE s \in stranded
      BY <3>1, <3>2, <3>3, <3>4, <3>7, <3>13 DEF Owners, Owns
    <3> QED
      BY <3>5, <3>6, <3>8, <3>9, <3>10, <3>11, <3>12, <3>13
  <2>2. ASSUME NEW x \in Sessions, NEW y \in Sessions,
               life[x] = "live", life[y] = "live", sckOf[x] = sckOf[y]
        PROVE  x = y
    <3>1. ~(y > x) /\ ~(x > y)
      BY <2>2 DEF LiveLast, LastOn
    <3> QED
      BY <3>1, ServerAssumption DEF Sessions
  <2> QED
    BY <2>1, <2>2 DEF OneOwner, PoolOnce
<1> QED
  BY <1>1, Invariance, PTL

\* The three critical sections of the pool's pop() act on the same front.
THEOREM PoolPopSafe == Spec => []PopStable
<1>1. IndInv => PopStable
  BY DEF IndInv
<1> QED
  BY <1>1, Invariance, PTL

\* No read, write or disconnect is pending on a socket that waits for reuse.
THEOREM PoolQuiet == Spec => []PooledQuiet
<1>1. ASSUME IndInv, NEW x \in Sessions, NEW k \in Keeping, pend[x][k] > 0
      PROVE  ~InPool(sckOf[x]) /\ ~InHand(sckOf[x])
  <2>1. HeldBy(x, Threads, app)
    BY <1>1 DEF HeldBy
  <2> QED
    BY <1>1, <2>1, HeldAlone
<1>2. IndInv => PooledQuiet
  BY <1>1 DEF PooledQuiet
<1> QED
  BY <1>2, Invariance, PTL

\* The accept thread gets the socket of a disconnected session only when the
\* disconnect has completed.
THEOREM ReuseIsClean == Spec => []CleanReuse
<1>1. IndInv => CleanReuse
  BY DEF IndInv
<1> QED
  BY <1>1, Invariance, PTL

\* stop() ends the accept thread before io_, and no handler outlives it.
THEOREM StopOrder == Spec => []StopIsOrdered
<1>1. IndInv => StopIsOrdered
  BY DEF IndInv, StopInv, StopIsOrdered
<1> QED
  BY <1>1, Invariance, PTL

\* What the accept thread takes from the pool is ready for a new connection.
THEOREM ReuseIsReady == Spec => []ReuseReady
BY PoolQuiet, ReuseIsClean, PTL DEF ReuseReady
=============================================================================
