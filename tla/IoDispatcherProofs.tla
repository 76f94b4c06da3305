------------------------- MODULE IoDispatcherProofs -------------------------
(***************************************************************************)
(* Proofs about IoDispatcher for any set of callbacks, any number of       *)
(* workers and any batch size.                                             *)
(***************************************************************************)
EXTENDS IoDispatcher, SequenceTheorems, FiniteSetTheorems, TLAPS

USE DEF Threads

\* A packet stands once in the port.
PortOnce == \A i, j \in 1..Len(port) : port[i] = port[j] => i = j

\* An accepted callback that was neither freed nor discarded.
Pending(c) ==
  /\ poster[c] \in {"posted", "released"}
  /\ frees[c] = 0
  /\ c \notin lost

\* A packet in the port is of a pending callback that was never called.
PortPending ==
  \A i \in 1..Len(port) : Pending(port[i]) /\ invokes[port[i]] = 0

\* An entry stands once in one batch, and no longer in the port.
BatchOnce ==
  \A t, u \in Threads : \A i \in 1..Len(batch[t]), j \in 1..Len(batch[u]) :
    batch[t][i] = batch[u][j] => t = u /\ i = j

BatchOffPort ==
  \A t \in Threads : \A i \in 1..Len(batch[t]), j \in 1..Len(port) :
    batch[t][i] # port[j]

\* Only the entry at the head of a batch, and only while its handler runs,
\* has been called.
CalledOf(t, i) == IF i = 1 /\ pc[t] = "inside" THEN 1 ELSE 0

BatchPending ==
  \A t \in Threads : \A i \in 1..Len(batch[t]) :
    /\ Pending(batch[t][i])
    /\ invokes[batch[t][i]] = CalledOf(t, i)

\* What the counters say of the callbacks that are not pending.
NotPending ==
  \A c \in Callbacks :
    /\ poster[c] \in {"none", "made"} =>
         invokes[c] = 0 /\ frees[c] = 0 /\ c \notin lost
    /\ poster[c] = "failed" => invokes[c] = 0 /\ frees[c] = 1 /\ c \notin lost
    /\ c \in lost => invokes[c] = 0 /\ frees[c] = 0

\* Every accepted callback is somewhere.
Somewhere(c) ==
  \/ \E i \in 1..Len(port) : port[i] = c
  \/ \E t \in Threads : \E i \in 1..Len(batch[t]) : batch[t][i] = c
  \/ c \in lost
  \/ invokes[c] = 1 /\ frees[c] = 1

NoneVanished ==
  \A c \in Callbacks : poster[c] \in {"posted", "released"} => Somewhere(c)

\* A worker is in its loop over the entries exactly while entries are left.
LoopInv ==
  \A t \in Threads : pc[t] \in {"call", "inside"} <=> Len(batch[t]) > 0

\* stop() has joined the threads it has passed, and returns after the last.
StopInv ==
  /\ stopPc = "join" => \A t \in Threads : t < stopAt => pc[t] = "exited"
  /\ stopPc \in {"stopped", "destroyed"} => \A t \in Threads : pc[t] = "exited"
  /\ ~portOpen => stopPc = "destroyed"

IndInv ==
  /\ TypeOK
  /\ PortOnce /\ PortPending
  /\ BatchOnce /\ BatchOffPort /\ BatchPending
  /\ NotPending /\ NoneVanished
  /\ LoopInv /\ StopInv

-----------------------------------------------------------------------------
(* What taking entries off the port and stepping through a batch yields.   *)

\* The first n entries of a queue.
LEMMA TakeFirst ==
  ASSUME NEW S, NEW s \in Seq(S), NEW n \in 1..Len(s)
  PROVE  /\ SubSeq(s, 1, n) \in Seq(S)
         /\ Len(SubSeq(s, 1, n)) = n
         /\ \A i \in 1..n : SubSeq(s, 1, n)[i] = s[i]
OBVIOUS

\* What is left behind them.
LEMMA DropFirst ==
  ASSUME NEW S, NEW s \in Seq(S), NEW n \in 1..Len(s)
  PROVE  /\ SubSeq(s, n + 1, Len(s)) \in Seq(S)
         /\ Len(SubSeq(s, n + 1, Len(s))) = Len(s) - n
         /\ \A i \in 1..(Len(s) - n) :
              SubSeq(s, n + 1, Len(s))[i] = s[n + i]
OBVIOUS

-----------------------------------------------------------------------------
(* The inductive invariant                                                 *)

\* The state impl::impl leaves behind satisfies the invariant.
LEMMA InitInv == Init => IndInv
<1> SUFFICES ASSUME Init PROVE IndInv
  OBVIOUS
<1> USE DispatcherAssumption DEF Init
<1>1. TypeOK
  BY DEF TypeOK
<1>2. PortOnce /\ PortPending /\ LoopInv /\ StopInv
  BY DEF PortOnce, PortPending, LoopInv, StopInv
<1>3. BatchOnce /\ BatchOffPort /\ BatchPending
  BY DEF BatchOnce, BatchOffPort, BatchPending
<1>4. NotPending /\ NoneVanished
  BY DEF NotPending, NoneVanished
<1> QED
  BY <1>1, <1>2, <1>3, <1>4 DEF IndInv

\* Packets and entries point at callback objects.
LEMMA EntryType ==
  ASSUME TypeOK
  PROVE  /\ Len(port) \in Nat
         /\ \A i \in 1..Len(port) : port[i] \in Callbacks
         /\ \A t \in Threads : Len(batch[t]) \in Nat
         /\ \A t \in Threads : \A i \in 1..Len(batch[t]) : batch[t][i] \in Callbacks
<1>1. port \in Seq(Callbacks) /\ \A t \in Threads : batch[t] \in Seq(Callbacks)
  BY DEF TypeOK
<1> QED
  BY <1>1, LenProperties, ElementOfSeq

-----------------------------------------------------------------------------
(* post()                                                                  *)

\* make_async_callback concerns an object nothing else points at.
LEMMA MakeCallbackInv ==
  ASSUME IndInv, NEW c \in Callbacks, MakeCallback(c)
  PROVE  IndInv'
<1> USE DEF IndInv, MakeCallback, workVars, stopVars, histVars
<1>1. TypeOK'
  BY DEF TypeOK
<1>2. PortOnce' /\ PortPending'
  BY DEF TypeOK, PortOnce, PortPending, Pending
<1>3. BatchOnce' /\ BatchOffPort'
  BY DEF TypeOK, BatchOnce, BatchOffPort
<1>4. BatchPending'
  BY DEF TypeOK, BatchPending, Pending, CalledOf
<1>5. NotPending'
  BY DEF TypeOK, NotPending
<1>6. NoneVanished'
  BY DEF TypeOK, NoneVanished, Somewhere, NotPending
<1>7. LoopInv' /\ StopInv'
  BY DEF TypeOK, LoopInv, StopInv
<1> QED
  BY <1>1, <1>2, <1>3, <1>4, <1>5, <1>6, <1>7

\* The object that could not be posted is freed once, by unwinding.
LEMMA PostStatusFailsInv ==
  ASSUME IndInv, NEW c \in Callbacks, PostStatusFails(c)
  PROVE  IndInv'
<1> USE DEF IndInv, PostStatusFails, workVars, stopVars, histVars
<1>1. TypeOK'
  BY DEF TypeOK
<1>2. PortOnce' /\ PortPending'
  BY DEF TypeOK, PortOnce, PortPending, Pending
<1>3. BatchOnce' /\ BatchOffPort'
  BY DEF TypeOK, BatchOnce, BatchOffPort
<1>4. BatchPending'
  <2>1. ASSUME NEW t \in Threads, NEW i \in 1..Len(batch[t])
        PROVE  batch[t][i] \in Callbacks \ {c}
    BY EntryType DEF BatchPending, Pending
  <2> QED
    BY <2>1 DEF TypeOK, BatchPending, Pending, CalledOf
<1>5. NotPending'
  BY DEF TypeOK, NotPending
<1>6. NoneVanished'
  BY DEF TypeOK, NoneVanished, Somewhere, NotPending
<1>7. LoopInv' /\ StopInv'
  BY DEF TypeOK, LoopInv, StopInv
<1> QED
  BY <1>1, <1>2, <1>3, <1>4, <1>5, <1>6, <1>7

\* release() changes nothing but the pointer of post().
LEMMA ReleaseInv ==
  ASSUME IndInv, NEW c \in Callbacks, Release(c)
  PROVE  IndInv'
<1> USE DEF IndInv, Release, workVars, stopVars, histVars
<1>1. TypeOK'
  BY DEF TypeOK
<1>2. PortOnce' /\ PortPending'
  BY DEF TypeOK, PortOnce, PortPending, Pending
<1>3. BatchOnce' /\ BatchOffPort'
  BY DEF TypeOK, BatchOnce, BatchOffPort
<1>4. BatchPending'
  BY DEF TypeOK, BatchPending, Pending, CalledOf
<1>5. NotPending'
  BY DEF TypeOK, NotPending
<1>6. NoneVanished'
  BY DEF TypeOK, NoneVanished, Somewhere, NotPending
<1>7. LoopInv' /\ StopInv'
  BY DEF TypeOK, LoopInv, StopInv
<1> QED
  BY <1>1, <1>2, <1>3, <1>4, <1>5, <1>6, <1>7

\* The hand-over: a packet for an object nobody else points at is appended.
LEMMA PostStatusInv ==
  ASSUME IndInv, NEW c \in Callbacks, PostStatus(c)
  PROVE  IndInv'
<1> USE DEF IndInv, PostStatus, workVars, stopVars, histVars
<1>0. /\ port' \in Seq(Callbacks)
      /\ Len(port') = Len(port) + 1
      /\ \A i \in 1..Len(port) : port'[i] = port[i]
      /\ port'[Len(port) + 1] = c
  BY AppendProperties DEF TypeOK
<1>1. TypeOK'
  BY <1>0 DEF TypeOK
<1>2. /\ \A i \in 1..Len(port) : port[i] # c
      /\ \A t \in Threads : \A i \in 1..Len(batch[t]) : batch[t][i] # c
  BY DEF PortPending, BatchPending, Pending
<1>3. Len(port) \in Nat /\ \A i \in 1..Len(port') : i \in 1..Len(port) \/ i = Len(port) + 1
  BY <1>0 DEF TypeOK
<1>4. PortOnce'
  BY <1>0, <1>2, <1>3 DEF PortOnce
<1>5. PortPending'
  BY <1>0, <1>3 DEF TypeOK, PortPending, Pending, NotPending
<1>6. BatchOnce' /\ LoopInv' /\ StopInv'
  BY DEF BatchOnce, LoopInv, StopInv
<1>7. BatchOffPort'
  BY <1>0, <1>2, <1>3 DEF BatchOffPort
<1>8. BatchPending'
  BY DEF TypeOK, BatchPending, Pending, CalledOf
<1>9. NotPending'
  BY DEF TypeOK, NotPending
<1>10. NoneVanished'
  <2>1. \E i \in 1..Len(port') : port'[i] = c
    BY <1>0, <1>3
  <2>2. ASSUME NEW d \in Callbacks, NEW i \in 1..Len(port), port[i] = d
        PROVE  i \in 1..Len(port') /\ port'[i] = d
    BY <1>0, <1>3, <2>2
  <2>3. ASSUME NEW d \in Callbacks, d # c, Somewhere(d)
        PROVE  Somewhere(d)'
    BY <2>2, <2>3 DEF Somewhere
  <2>4. Somewhere(c)'
    BY <2>1 DEF Somewhere
  <2> QED
    BY <2>3, <2>4 DEF TypeOK, NoneVanished
<1> QED
  BY <1>1, <1>4, <1>5, <1>6, <1>7, <1>8, <1>9, <1>10

-----------------------------------------------------------------------------
(* The workers                                                             *)

\* Entering the loop touches neither entries nor counters.
LEMMA StartThreadInv ==
  ASSUME IndInv, NEW t \in Threads, StartThread(t)
  PROVE  IndInv'
<1> USE DEF IndInv, StartThread, postVars, stopVars, histVars
<1>1. TypeOK'
  BY DEF TypeOK
<1>2. PortOnce' /\ PortPending'
  BY DEF TypeOK, PortOnce, PortPending, Pending
<1>3. BatchOnce' /\ BatchOffPort'
  <2>1. batch' = batch /\ port' = port
    OBVIOUS
  <2>2. BatchOnce /\ BatchOffPort
    OBVIOUS
  <2> QED
    BY ONLY <2>1, <2>2 DEF BatchOnce, BatchOffPort
<1>4. BatchPending'
  BY DEF TypeOK, BatchPending, Pending, CalledOf
<1>5. NotPending'
  BY DEF TypeOK, NotPending
<1>6. NoneVanished'
  BY DEF TypeOK, NoneVanished, Somewhere, NotPending
<1>7. LoopInv' /\ StopInv'
  BY DEF TypeOK, LoopInv, StopInv
<1> QED
  BY <1>1, <1>2, <1>3, <1>4, <1>5, <1>6, <1>7

\* A worker whose wait is interrupted has no entries left.
LEMMA WaitInterruptedInv ==
  ASSUME IndInv, NEW t \in Threads, WaitInterrupted(t)
  PROVE  IndInv'
<1> USE DEF IndInv, WaitInterrupted, postVars, stopVars, histVars
<1>1. TypeOK'
  BY DEF TypeOK
<1>2. PortOnce' /\ PortPending'
  BY DEF TypeOK, PortOnce, PortPending, Pending
<1>3. BatchOnce' /\ BatchOffPort'
  <2>1. batch' = batch /\ port' = port
    OBVIOUS
  <2>2. BatchOnce /\ BatchOffPort
    OBVIOUS
  <2> QED
    BY ONLY <2>1, <2>2 DEF BatchOnce, BatchOffPort
<1>4. BatchPending'
  BY DEF TypeOK, BatchPending, Pending, CalledOf
<1>5. NotPending'
  BY DEF TypeOK, NotPending
<1>6. NoneVanished'
  BY DEF TypeOK, NoneVanished, Somewhere, NotPending
<1>7. LoopInv' /\ StopInv'
  BY DEF TypeOK, LoopInv, StopInv
<1> QED
  BY <1>1, <1>2, <1>3, <1>4, <1>5, <1>6, <1>7

\* So has one that exits.
LEMMA ExitThreadInv ==
  ASSUME IndInv, NEW t \in Threads, ExitThread(t)
  PROVE  IndInv'
<1> USE DEF IndInv, ExitThread, postVars, stopVars, histVars
<1>1. TypeOK'
  BY DEF TypeOK
<1>2. PortOnce' /\ PortPending'
  BY DEF TypeOK, PortOnce, PortPending, Pending
<1>3. BatchOnce' /\ BatchOffPort'
  <2>1. batch' = batch /\ port' = port
    OBVIOUS
  <2>2. BatchOnce /\ BatchOffPort
    OBVIOUS
  <2> QED
    BY ONLY <2>1, <2>2 DEF BatchOnce, BatchOffPort
<1>4. BatchPending'
  BY DEF TypeOK, BatchPending, Pending, CalledOf
<1>5. NotPending'
  BY DEF TypeOK, NotPending
<1>6. NoneVanished'
  BY DEF TypeOK, NoneVanished, Somewhere, NotPending
<1>7. LoopInv' /\ StopInv'
  BY DEF TypeOK, LoopInv, StopInv
<1> QED
  BY <1>1, <1>2, <1>3, <1>4, <1>5, <1>6, <1>7

\* get_status_ex moves the oldest packets to an empty batch.
LEMMA TakeEntriesInv ==
  ASSUME IndInv, NEW t \in Threads, NEW n \in 1..Batch, TakeEntries(t, n)
  PROVE  IndInv'
<1> USE DEF IndInv, TakeEntries, stopVars, histVars
<1>0. n \in 1..Len(port) /\ n \in Nat /\ Len(port) \in Nat
  BY DispatcherAssumption, EntryType
<1>1. batch' = [batch EXCEPT ![t] = SubSeq(port, 1, n)] /\ t \in DOMAIN batch
  BY DEF TypeOK
<1>2. /\ batch'[t] \in Seq(Callbacks)
      /\ Len(batch'[t]) = n
      /\ \A i \in 1..n : batch'[t][i] = port[i]
  BY <1>0, <1>1, TakeFirst DEF TypeOK
<1>3. /\ port' \in Seq(Callbacks)
      /\ Len(port') = Len(port) - n
      /\ \A i \in 1..(Len(port) - n) : port'[i] = port[n + i]
  BY <1>0, DropFirst DEF TypeOK
<1>4. \A u \in Threads \ {t} : batch'[u] = batch[u] /\ pc'[u] = pc[u]
  BY DEF TypeOK
<1>5. pc'[t] = "call" /\ pc[t] = "wait" /\ Len(batch[t]) = 0
  BY EntryType DEF TypeOK, LoopInv
<1>6. \A i \in 1..(Len(port) - n) : n + i \in 1..Len(port) /\ n + i > n
  BY <1>0
<1>7. TypeOK'
  BY <1>1, <1>2, <1>3 DEF TypeOK
<1>8. PortOnce'
  <2>1. SUFFICES ASSUME NEW i \in 1..(Len(port) - n), NEW j \in 1..(Len(port) - n),
                        port[n + i] = port[n + j]
                 PROVE  i = j
    BY <1>3 DEF PortOnce
  <2>2. n + i \in 1..Len(port) /\ n + j \in 1..Len(port)
    BY ONLY <1>6, <2>1
  <2>3. n + i = n + j
    BY ONLY <2>1, <2>2, IndInv DEF IndInv, PortOnce
  <2> QED
    BY ONLY <1>0, <2>3
<1>9. PortPending'
  BY <1>0, <1>3, <1>6 DEF PortPending, Pending
<1>10. LoopInv' /\ StopInv'
  BY <1>0, <1>2, <1>4, <1>5 DEF TypeOK, LoopInv, StopInv
<1>11. BatchOnce'
  <2> SUFFICES ASSUME NEW u \in Threads, NEW v \in Threads,
                      NEW i \in 1..Len(batch'[u]), NEW j \in 1..Len(batch'[v]),
                      batch'[u][i] = batch'[v][j]
               PROVE  u = v /\ i = j
    BY DEF BatchOnce
  <2>1. CASE u = t /\ v = t
    <3>1. /\ i \in 1..Len(port) /\ batch'[u][i] = port[i]
          /\ j \in 1..Len(port) /\ batch'[v][j] = port[j]
      BY <1>0, <1>2, <2>1
    <3> QED
      BY <2>1, <3>1 DEF PortOnce
  <2>2. CASE u = t /\ v # t
    BY <1>0, <1>2, <1>4, <2>2 DEF BatchOffPort
  <2>3. CASE u # t /\ v = t
    BY <1>0, <1>2, <1>4, <2>3 DEF BatchOffPort
  <2>4. CASE u # t /\ v # t
    BY <1>4, <2>4 DEF BatchOnce
  <2> QED
    BY <2>1, <2>2, <2>3, <2>4
<1>12. BatchOffPort'
  <2> SUFFICES ASSUME NEW u \in Threads, NEW i \in 1..Len(batch'[u]),
                      NEW j \in 1..Len(port')
               PROVE  batch'[u][i] # port'[j]
    BY DEF BatchOffPort
  <2>1. port'[j] = port[n + j] /\ n + j \in 1..Len(port) /\ n + j > n
    BY <1>0, <1>3, <1>6
  <2>2. CASE u = t
    BY <1>0, <1>2, <2>1, <2>2 DEF PortOnce
  <2>3. CASE u # t
    <3>1. batch'[u] = batch[u]
      BY <1>4, <2>3
    <3>2. BatchOffPort
      OBVIOUS
    <3> QED
      BY ONLY <2>1, <3>1, <3>2, u \in Threads, i \in 1..Len(batch'[u]) DEF BatchOffPort
  <2> QED
    BY <2>2, <2>3
<1>13. BatchPending'
  <2> SUFFICES ASSUME NEW u \in Threads, NEW i \in 1..Len(batch'[u])
               PROVE  /\ Pending(batch[u][i])'
                      /\ (invokes[batch[u][i]] = CalledOf(u, i))'
    BY DEF BatchPending
  <2>1. CASE u = t
    <3>1. batch'[u][i] = port[i] /\ i \in 1..Len(port) /\ CalledOf(u, i)' = 0
      BY <1>0, <1>2, <1>5, <2>1 DEF CalledOf
    <3> QED
      BY <3>1 DEF PortPending, Pending
  <2>2. CASE u # t
    BY <1>4, <2>2 DEF BatchPending, Pending, CalledOf
  <2> QED
    BY <2>1, <2>2
<1>14. NotPending'
  BY DEF NotPending
<1>15. NoneVanished'
  <2>1. ASSUME NEW c \in Callbacks, NEW i \in 1..Len(port), port[i] = c
        PROVE  Somewhere(c)'
    <3>1. CASE i <= n
      BY <1>0, <1>2, <2>1, <3>1 DEF Somewhere
    <3>2. CASE i > n
      <4>1. i - n \in 1..Len(port') /\ n + (i - n) = i
        BY <1>0, <1>3, <3>2
      <4>2. port'[i - n] = c
        BY <1>3, <2>1, <4>1
      <4> QED
        BY <4>1, <4>2 DEF Somewhere
    <3> QED
      BY <1>0, <3>1, <3>2
  <2>2. ASSUME NEW c \in Callbacks, NEW u \in Threads,
               NEW i \in 1..Len(batch[u]), batch[u][i] = c
        PROVE  Somewhere(c)'
    <3>1. u # t
      BY <1>5
    <3> QED
      BY <1>4, <2>2, <3>1 DEF Somewhere
  <2>3. ASSUME NEW c \in Callbacks, Somewhere(c)
        PROVE  Somewhere(c)'
    BY <2>1, <2>2, <2>3 DEF Somewhere
  <2> QED
    BY <2>3 DEF NoneVanished
<1> QED
  BY <1>7, <1>8, <1>9, <1>10, <1>11, <1>12, <1>13, <1>14, <1>15

\* The batch of a worker inside its loop: the entry being handled, the rest.
LEMMA BusyBatch ==
  ASSUME TypeOK, LoopInv, NEW t \in Threads, pc[t] \in {"call", "inside"}
  PROVE  /\ Len(batch[t]) \in Nat /\ Len(batch[t]) > 0
         /\ 1 \in 1..Len(batch[t])
         /\ Head(batch[t]) = batch[t][1]
         /\ batch[t][1] \in Callbacks
         /\ Tail(batch[t]) \in Seq(Callbacks)
         /\ Len(Tail(batch[t])) = Len(batch[t]) - 1
         /\ \A i \in 1..(Len(batch[t]) - 1) : Tail(batch[t])[i] = batch[t][i + 1]
<1>1. batch[t] \in Seq(Callbacks)
  BY DEF TypeOK
<1>2. Len(batch[t]) \in Nat /\ Len(batch[t]) > 0
  BY EntryType DEF LoopInv
<1>3. 1 \in 1..Len(batch[t])
  BY <1>2
<1> HIDE DEF Threads
<1> QED
  BY <1>1, <1>2, <1>3, HeadTailProperties

\* Entering a handler: it is the handler of the head entry, called just now.
LEMMA CallBeginInv ==
  ASSUME IndInv, NEW t \in Threads, CallBegin(t)
  PROVE  IndInv'
<1> USE DEF IndInv, CallBegin, postVars, stopVars
<1>a. Len(batch[t]) \in Nat /\ Len(batch[t]) > 0 /\ 1 \in 1..Len(batch[t])
  BY BusyBatch
<1>0. PICK h \in Callbacks : h = batch[t][1] /\ h = Head(batch[t])
  BY BusyBatch
<1>1. /\ Pending(h) /\ invokes[h] = 0 /\ invokes'[h] = 1
      /\ \A c \in Callbacks \ {h} : invokes'[c] = invokes[c]
  BY <1>a, <1>0 DEF TypeOK, BatchPending, CalledOf
<1>2. TypeOK'
  BY <1>a, <1>0 DEF TypeOK
<1>3. PortOnce' /\ BatchOnce' /\ BatchOffPort'
  BY DEF PortOnce, BatchOnce, BatchOffPort
<1>4. PortPending'
  <2>1. \A i \in 1..Len(port) : port[i] \in Callbacks \ {h}
    BY <1>a, <1>0, EntryType DEF BatchOffPort
  <2> QED
    BY <1>1, <2>1 DEF PortPending, Pending
<1>5. BatchPending'
  <2> SUFFICES ASSUME NEW u \in Threads, NEW i \in 1..Len(batch[u])
               PROVE  /\ Pending(batch[u][i])'
                      /\ (invokes[batch[u][i]] = CalledOf(u, i))'
    BY DEF BatchPending
  <2>1. Pending(batch[u][i])'
    BY DEF BatchPending, Pending
  <2>2. CASE u = t /\ i = 1
    BY <1>0, <1>1, <2>1, <2>2 DEF TypeOK, CalledOf
  <2>3. CASE ~(u = t /\ i = 1)
    <3>1. batch[u][i] \in Callbacks \ {h}
      BY <1>a, <1>0, <2>3, EntryType DEF BatchOnce
    <3>2. CalledOf(u, i)' = CalledOf(u, i)
      BY <2>3 DEF TypeOK, CalledOf
    <3> QED
      BY <1>1, <2>1, <3>1, <3>2 DEF BatchPending
  <2> QED
    BY <2>1, <2>2, <2>3
<1>6. NotPending'
  BY <1>a, <1>0, <1>1 DEF NotPending, Pending
<1>7. NoneVanished'
  <2>1. Somewhere(h)'
    BY <1>a, <1>0 DEF Somewhere
  <2>2. \A c \in Callbacks \ {h} : Somewhere(c) => Somewhere(c)'
    BY <1>1 DEF Somewhere
  <2> QED
    BY <2>1, <2>2 DEF NoneVanished
<1>8. LoopInv' /\ StopInv'
  BY DEF TypeOK, LoopInv, StopInv
<1> QED
  BY <1>2, <1>3, <1>4, <1>5, <1>6, <1>7, <1>8

\* The handler returns: its object is freed, the entries behind it move up.
LEMMA CallEndInv ==
  ASSUME IndInv, NEW t \in Threads, CallEnd(t)
  PROVE  IndInv'
<1> USE DEF IndInv, CallEnd, postVars, stopVars
<1>a. Len(batch[t]) \in Nat /\ Len(batch[t]) > 0 /\ 1 \in 1..Len(batch[t])
  BY BusyBatch
<1>0. PICK h \in Callbacks : h = batch[t][1] /\ h = Head(batch[t])
  BY BusyBatch
<1>1. /\ Pending(h) /\ invokes[h] = 1 /\ frees'[h] = 1
      /\ \A c \in Callbacks \ {h} : frees'[c] = frees[c]
  BY <1>a, <1>0 DEF TypeOK, BatchPending, CalledOf, Pending
<1>b. batch'[t] = Tail(batch[t])
  BY DEF TypeOK
<1>2. /\ batch'[t] \in Seq(Callbacks)
      /\ Len(batch'[t]) = Len(batch[t]) - 1
      /\ \A i \in 1..(Len(batch[t]) - 1) : batch'[t][i] = batch[t][i + 1]
  BY <1>b, BusyBatch
<1>3. \A i \in 1..Len(batch'[t]) : i + 1 \in 1..Len(batch[t]) /\ i + 1 # 1
  BY <1>a, <1>0, <1>2
<1>4. \A u \in Threads \ {t} : batch'[u] = batch[u] /\ pc'[u] = pc[u]
  BY DEF TypeOK
<1>5. pc'[t] = IF Len(batch[t]) = 1 THEN "wait" ELSE "call"
  BY DEF TypeOK
<1>6. TypeOK'
  BY <1>a, <1>0, <1>2 DEF TypeOK
<1>7. PortOnce'
  BY DEF PortOnce
<1>8. PortPending'
  <2>1. \A i \in 1..Len(port) : port[i] \in Callbacks \ {h}
    BY <1>a, <1>0, EntryType DEF BatchOffPort
  <2> QED
    BY <1>1, <2>1 DEF PortPending, Pending
<1>9. BatchOnce'
  <2> SUFFICES ASSUME NEW u \in Threads, NEW v \in Threads,
                      NEW i \in 1..Len(batch'[u]), NEW j \in 1..Len(batch'[v]),
                      batch'[u][i] = batch'[v][j]
               PROVE  u = v /\ i = j
    BY DEF BatchOnce
  <2>1. CASE u = t /\ v = t
    BY <1>a, <1>0, <1>2, <1>3, <2>1 DEF BatchOnce
  <2>2. CASE u = t /\ v # t
    BY <1>a, <1>0, <1>2, <1>3, <1>4, <2>2 DEF BatchOnce
  <2>3. CASE u # t /\ v = t
    BY <1>a, <1>0, <1>2, <1>3, <1>4, <2>3 DEF BatchOnce
  <2>4. CASE u # t /\ v # t
    BY <1>4, <2>4 DEF BatchOnce
  <2> QED
    BY <2>1, <2>2, <2>3, <2>4
<1>10. BatchOffPort'
  BY <1>a, <1>0, <1>2, <1>3, <1>4 DEF BatchOffPort
<1>11. BatchPending'
  <2> SUFFICES ASSUME NEW u \in Threads, NEW i \in 1..Len(batch'[u])
               PROVE  /\ Pending(batch[u][i])'
                      /\ (invokes[batch[u][i]] = CalledOf(u, i))'
    BY DEF BatchPending
  <2>1. CASE u = t
    <3>1. batch'[u][i] = batch[t][i + 1] /\ i + 1 \in 1..Len(batch[t]) /\ i + 1 # 1
      BY <1>a, <1>0, <1>2, <1>3, <2>1
    <3>2. batch[t][i + 1] \in Callbacks \ {h}
      BY <1>a, <1>0, <3>1, EntryType DEF BatchOnce
    <3>3. CalledOf(u, i)' = 0 /\ CalledOf(t, i + 1) = 0
      BY <1>5, <2>1, <3>1 DEF CalledOf
    <3> QED
      BY <1>1, <3>1, <3>2, <3>3 DEF BatchPending, Pending
  <2>2. CASE u # t
    <3>1. batch'[u][i] = batch[u][i] /\ i \in 1..Len(batch[u])
      BY <1>4, <2>2
    <3>2. batch[u][i] \in Callbacks \ {h}
      BY <1>a, <1>0, <2>2, <3>1, EntryType DEF BatchOnce
    <3>3. CalledOf(u, i)' = CalledOf(u, i)
      BY <1>4, <2>2 DEF CalledOf
    <3> QED
      BY <1>1, <3>1, <3>2, <3>3 DEF BatchPending, Pending
  <2> QED
    BY <2>1, <2>2
<1>12. NotPending'
  BY <1>a, <1>0, <1>1 DEF NotPending, Pending
<1>13. NoneVanished'
  <2>1. Somewhere(h)'
    BY <1>1 DEF Somewhere
  <2>2. ASSUME NEW c \in Callbacks \ {h}, NEW u \in Threads,
               NEW i \in 1..Len(batch[u]), batch[u][i] = c
        PROVE  Somewhere(c)'
    <3>1. CASE u = t
      <4>1. i # 1
        BY <1>0, <2>2, <3>1
      <4>2. i - 1 \in 1..Len(batch'[t]) /\ (i - 1) + 1 = i
        BY <1>a, <1>0, <1>2, <3>1, <4>1
      <4>3. batch'[t][i - 1] = c
        BY <1>2, <2>2, <3>1, <4>2
      <4> QED
        BY <4>2, <4>3 DEF Somewhere
    <3>2. CASE u # t
      BY <1>4, <2>2, <3>2 DEF Somewhere
    <3> QED
      BY <3>1, <3>2
  <2>3. \A c \in Callbacks \ {h} : Somewhere(c) => Somewhere(c)'
    BY <1>1, <2>2 DEF Somewhere
  <2> QED
    BY <2>1, <2>3 DEF NoneVanished
<1>14. LoopInv'
  <2>1. pc'[t] \in {"call", "inside"} <=> Len(batch'[t]) > 0
    <3>1. CASE Len(batch[t]) = 1
      BY <1>2, <1>5, <3>1
    <3>2. CASE Len(batch[t]) # 1
      <4> DEFINE n == Len(batch[t])
      <4>0. n \in Nat /\ n > 0 /\ n # 1
        BY <1>a, <3>2
      <4> HIDE DEF n
      <4>a. n - 1 > 0
        BY <4>0
      <4>1. Len(batch[t]) - 1 > 0
        BY <4>a DEF n
      <4>2. Len(batch'[t]) > 0
        BY <1>2, <4>1
      <4> QED
        BY <1>5, <3>2, <4>2
    <3> QED
      BY <3>1, <3>2
  <2> QED
    BY <1>4, <2>1 DEF LoopInv
<1>15. StopInv'
  BY DEF TypeOK, StopInv
<1> QED
  BY <1>6, <1>7, <1>8, <1>9, <1>10, <1>11, <1>12, <1>13, <1>14, <1>15

\* The entries behind the one being handled, as a set.
LEMMA RestOfBatch ==
  ASSUME TypeOK, LoopInv, NEW t \in Threads, pc[t] \in {"call", "inside"}
  PROVE  /\ Range(Tail(batch[t])) \subseteq Callbacks
         /\ \A c \in Range(Tail(batch[t])) :
              \E i \in 1..Len(batch[t]) : i # 1 /\ batch[t][i] = c
         /\ \A i \in 1..Len(batch[t]) : i # 1 => batch[t][i] \in Range(Tail(batch[t]))
<1> DEFINE s == Tail(batch[t])
<1>1. /\ s \in Seq(Callbacks)
      /\ Len(batch[t]) \in Nat
      /\ Len(s) = Len(batch[t]) - 1
      /\ \A i \in 1..(Len(batch[t]) - 1) : s[i] = batch[t][i + 1]
  BY BusyBatch
<1> HIDE DEF s
<1>2. Range(s) = {s[i] : i \in 1..Len(s)}
  BY <1>1 DEF Range
<1>3. \A c \in Range(s) : \E i \in 1..Len(batch[t]) : i # 1 /\ batch[t][i] = c
  <2> SUFFICES ASSUME NEW i \in 1..Len(s)
               PROVE  /\ i + 1 \in 1..Len(batch[t]) /\ i + 1 # 1
                      /\ batch[t][i + 1] = s[i]
    BY <1>2
  <2> QED
    BY <1>1
<1>4. ASSUME NEW i \in 1..Len(batch[t]), i # 1
      PROVE  batch[t][i] \in Range(s)
  <2>1. i - 1 \in 1..Len(s) /\ (i - 1) + 1 = i
    BY <1>1, <1>4
  <2>2. s[i - 1] = batch[t][i]
    BY <1>1, <2>1
  <2> QED
    BY <1>2, <2>1, <2>2
<1>5. Range(s) \subseteq Callbacks
  BY <1>1, <1>2, ElementOfSeq
<1> QED
  BY <1>3, <1>4, <1>5 DEF s

\* The handler throws: its object is freed, the entries behind it are lost.
LEMMA CallThrowInv ==
  ASSUME IndInv, NEW t \in Threads, CallThrow(t)
  PROVE  IndInv'
<1> USE DEF IndInv, CallThrow, postVars, stopVars
<1>a. Len(batch[t]) \in Nat /\ Len(batch[t]) > 0 /\ 1 \in 1..Len(batch[t])
  BY BusyBatch
<1>0. PICK h \in Callbacks : h = batch[t][1] /\ h = Head(batch[t])
  BY BusyBatch
<1>1. /\ Pending(h) /\ invokes[h] = 1 /\ frees'[h] = 1
      /\ \A c \in Callbacks \ {h} : frees'[c] = frees[c]
  BY <1>a, <1>0 DEF TypeOK, BatchPending, CalledOf, Pending
<1>2. PICK dropped \in SUBSET Callbacks :
        /\ dropped = Range(Tail(batch[t]))
        /\ \A c \in dropped : \E i \in 1..Len(batch[t]) : i # 1 /\ batch[t][i] = c
        /\ \A i \in 1..Len(batch[t]) : i # 1 => batch[t][i] \in dropped
  BY RestOfBatch
<1>3. lost' = lost \cup dropped
  BY <1>2
<1>4. h \notin dropped
  BY <1>a, <1>0, <1>2 DEF BatchOnce
<1>5. \A c \in dropped : Pending(c) /\ invokes[c] = 0
  BY <1>2 DEF BatchPending, CalledOf
<1>6. /\ Len(batch'[t]) = 0 /\ batch'[t] \in Seq(Callbacks)
      /\ pc'[t] = "wait"
  BY EmptySeq DEF TypeOK
<1>7. \A u \in Threads \ {t} : batch'[u] = batch[u] /\ pc'[u] = pc[u]
  BY DEF TypeOK
<1>8. TypeOK'
  <2>1. batch' \in [Threads -> Seq(Callbacks)]
    BY EmptySeq DEF TypeOK
  <2>2. lost' \subseteq Callbacks
    BY <1>3 DEF TypeOK
  <2>3. frees' \in [Callbacks -> Nat] /\ throws' \in Nat
    BY <1>0 DEF TypeOK
  <2>4. pc' \in [Threads -> {"start", "wait", "call", "inside", "leaving", "exited"}]
    BY DEF TypeOK
  <2> QED
    BY <2>1, <2>2, <2>3, <2>4 DEF TypeOK
<1>9. PortOnce'
  BY DEF PortOnce
<1>10. PortPending'
  <2>1. \A i \in 1..Len(port) : port[i] \in Callbacks \ {h} /\ port[i] \notin dropped
    BY <1>a, <1>0, <1>2, EntryType DEF BatchOffPort
  <2> QED
    BY <1>1, <1>3, <2>1 DEF PortPending, Pending
<1>11. \A u \in Threads : \A i \in 1..Len(batch'[u]) :
         u # t /\ batch'[u][i] = batch[u][i] /\ i \in 1..Len(batch[u])
  BY <1>6, <1>7
<1>12. BatchOnce' /\ BatchOffPort'
  BY <1>11 DEF BatchOnce, BatchOffPort
<1>13. BatchPending'
  <2> SUFFICES ASSUME NEW u \in Threads, NEW i \in 1..Len(batch'[u])
               PROVE  /\ Pending(batch[u][i])'
                      /\ (invokes[batch[u][i]] = CalledOf(u, i))'
    BY DEF BatchPending
  <2>1. u # t /\ batch'[u][i] = batch[u][i] /\ i \in 1..Len(batch[u])
    BY <1>11
  <2>2. batch[u][i] \in Callbacks \ {h} /\ batch[u][i] \notin dropped
    <3>1. \A j \in 1..Len(batch[t]) : batch[u][i] # batch[t][j]
      BY <2>1 DEF BatchOnce
    <3> QED
      BY <1>a, <1>0, <1>2, <2>1, <3>1, EntryType
  <2>3. CalledOf(u, i)' = CalledOf(u, i)
    BY <1>7, <2>1 DEF CalledOf
  <2> QED
    BY <1>1, <1>3, <2>1, <2>2, <2>3 DEF BatchPending, Pending
<1>14. NotPending'
  BY <1>1, <1>3, <1>4, <1>5 DEF NotPending, Pending
<1>15. NoneVanished'
  <2>1. Somewhere(h)'
    BY <1>1 DEF Somewhere
  <2>2. \A c \in dropped : Somewhere(c)'
    BY <1>3 DEF Somewhere
  <2>3. ASSUME NEW c \in Callbacks \ {h}, c \notin dropped, NEW u \in Threads,
               NEW i \in 1..Len(batch[u]), batch[u][i] = c
        PROVE  Somewhere(c)'
    <3>1. u # t
      BY <1>0, <1>2, <2>3
    <3> QED
      BY <1>7, <2>3, <3>1 DEF Somewhere
  <2>4. \A c \in Callbacks : c # h /\ c \notin dropped /\ Somewhere(c) => Somewhere(c)'
    BY <1>1, <1>3, <2>3 DEF Somewhere
  <2> QED
    BY <2>1, <2>2, <2>4 DEF NoneVanished
<1>16. LoopInv'
  BY <1>6, <1>7 DEF LoopInv
<1>17. StopInv'
  BY DEF TypeOK, StopInv
<1> QED
  BY <1>8, <1>9, <1>10, <1>12, <1>13, <1>14, <1>15, <1>16, <1>17

\* stop() and the destructor touch no callback; join() passes exited threads.
LEMMA StopperInv ==
  ASSUME IndInv, Stopper
  PROVE  IndInv'
<1> USE DispatcherAssumption
        DEF IndInv, Stopper, StopBegin, QueueApc, ApcsQueued, Join, StopReturn,
            Destroy, postVars, workVars, histVars
<1>1. UNCHANGED <<poster, port, batch, pc, invokes, frees, lost, throws>>
  OBVIOUS
<1>2. TypeOK'
  <2>1. stopAt' \in 1..(NumThreads + 1)
    BY DEF TypeOK, stopVars
  <2>2. apc' \in [Threads -> BOOLEAN]
    BY DEF TypeOK
  <2>3. portOpen' \in BOOLEAN /\ stopPc' \in {"idle", "apc", "join", "stopped", "destroyed"}
    BY DEF TypeOK
  <2> QED
    BY <1>1, <2>1, <2>2, <2>3 DEF TypeOK
<1>3. PortOnce' /\ PortPending' /\ NotPending' /\ LoopInv'
  BY <1>1 DEF PortOnce, PortPending, Pending, NotPending, LoopInv
<1>4. BatchOnce' /\ BatchOffPort' /\ BatchPending'
  BY <1>1 DEF BatchOnce, BatchOffPort, BatchPending, Pending, CalledOf
<1>5. NoneVanished'
  BY <1>1 DEF NoneVanished, Somewhere
<1>6. StopInv'
  BY DEF TypeOK, StopInv
<1> QED
  BY <1>2, <1>3, <1>4, <1>5, <1>6

-----------------------------------------------------------------------------
(* Theorems                                                                *)

\* Every step of a poster, a worker or stop() preserves the invariant.
LEMMA NextInv == IndInv /\ [Next]_vars => IndInv'
<1> SUFFICES ASSUME IndInv, [Next]_vars PROVE IndInv'
  OBVIOUS
<1>1. ASSUME NEW c \in Callbacks,
             MakeCallback(c) \/ PostStatus(c) \/ PostStatusFails(c) \/ Release(c)
      PROVE  IndInv'
  BY <1>1, MakeCallbackInv, PostStatusInv, PostStatusFailsInv, ReleaseInv
<1>2. ASSUME NEW t \in Threads, Worker(t)
      PROVE  IndInv'
  <2>1. CASE GetStatusEx(t)
    BY <2>1, TakeEntriesInv DEF GetStatusEx
  <2> QED
    BY <1>2, <2>1, StartThreadInv, CallBeginInv, CallEndInv, CallThrowInv,
       WaitInterruptedInv, ExitThreadInv DEF Worker
<1>3. CASE UNCHANGED vars
  <2> USE <1>3 DEF vars, IndInv
  <2>1. TypeOK' /\ PortOnce' /\ PortPending' /\ NotPending' /\ LoopInv' /\ StopInv'
    BY DEF TypeOK, PortOnce, PortPending, Pending, NotPending, LoopInv, StopInv
  <2>2. BatchOnce' /\ BatchOffPort' /\ BatchPending'
    BY DEF BatchOnce, BatchOffPort, BatchPending, Pending, CalledOf
  <2>3. NoneVanished'
    BY DEF NoneVanished, Somewhere
  <2> QED
    BY <2>1, <2>2, <2>3
<1> QED
  BY <1>1, <1>2, <1>3, StopperInv DEF Next

\* The invariant holds in every reachable state.
THEOREM Invariance == Spec => []IndInv
<1> QED
  BY InitInv, NextInv, PTL DEF Spec

\* All variables keep their types: in particular packets and entries always
\* point at callback objects and stop()'s index never runs past the threads.
THEOREM TypeCorrect == Spec => []TypeOK
<1>1. IndInv => TypeOK
  BY DEF IndInv
<1> QED
  BY <1>1, Invariance, PTL

\* However many workers race for the packets, and however late the poster's
\* release() comes, a callback object is freed at most once, its handler is
\* entered at most once, and nothing points at a freed object.
THEOREM OwnershipSafe == Spec => []OwnedOnce
<1>1. IndInv => OwnedOnce
  <2> SUFFICES ASSUME IndInv, NEW c \in Callbacks
               PROVE  /\ frees[c] <= 1 /\ invokes[c] <= 1
                      /\ InPort(c) \/ InBatch(c) => frees[c] = 0
    BY DEF OwnedOnce
  <2> USE DEF IndInv
  <2>1. InPort(c) => \E i \in 1..Len(port) : port[i] = c
    BY LenProperties DEF InPort, Range, TypeOK
  <2>2. InBatch(c) => \E t \in Threads : \E i \in 1..Len(batch[t]) : batch[t][i] = c
    BY LenProperties DEF InBatch, Range, TypeOK
  <2>3. (\E i \in 1..Len(port) : port[i] = c) => Pending(c) /\ invokes[c] = 0
    BY DEF PortPending
  <2>4. (\E t \in Threads : \E i \in 1..Len(batch[t]) : batch[t][i] = c)
          => Pending(c) /\ invokes[c] \in {0, 1}
    BY DEF BatchPending, CalledOf
  <2>5. frees[c] \in {0, 1} /\ invokes[c] \in {0, 1}
    <3>1. CASE poster[c] \in {"posted", "released"}
      BY <2>3, <2>4, <3>1 DEF NoneVanished, Somewhere, Pending, NotPending
    <3>2. CASE poster[c] \in {"none", "made", "failed"}
      BY <3>2 DEF NotPending
    <3> QED
      BY <3>1, <3>2 DEF TypeOK
  <2> QED
    BY <2>1, <2>2, <2>3, <2>4, <2>5 DEF Pending
<1> QED
  BY <1>1, Invariance, PTL

\* No accepted callback vanishes between the port, the batches and the calls.
THEOREM NothingVanishes == Spec => []Accounted
<1>1. IndInv => Accounted
  <2> SUFFICES ASSUME IndInv, NEW c \in Callbacks,
                      poster[c] \in {"posted", "released"}
               PROVE  \/ InPort(c) \/ InBatch(c) \/ c \in lost
                      \/ invokes[c] = 1 /\ frees[c] = 1
    BY DEF Accounted
  <2> USE DEF IndInv
  <2>1. (\E i \in 1..Len(port) : port[i] = c) => InPort(c)
    BY LenProperties DEF InPort, Range, TypeOK
  <2>2. (\E t \in Threads : \E i \in 1..Len(batch[t]) : batch[t][i] = c) => InBatch(c)
    BY LenProperties DEF InBatch, Range, TypeOK
  <2> QED
    BY <2>1, <2>2 DEF NoneVanished, Somewhere
<1> QED
  BY <1>1, Invariance, PTL

\* Every callback object has one owner and none disappears: what post(), call()
\* and the exception paths promise together.
THEOREM OwnershipKept == Spec => []Ownership
BY OwnershipSafe, NothingVanishes, PTL DEF Ownership

-----------------------------------------------------------------------------
(* What an exception costs                                                 *)

\* A queue has at most as many different items as it is long.
LEMMA RangeSize ==
  ASSUME NEW S, NEW s \in Seq(S)
  PROVE  IsFiniteSet(Range(s)) /\ Cardinality(Range(s)) \in Nat /\ Cardinality(Range(s)) <= Len(s)
<1>1. Len(s) \in Nat /\ s \in [1..Len(s) -> S]
  BY LenProperties
<1>2. s \in Surjection(1..Len(s), Range(s))
  BY <1>1 DEF Surjection, Range
<1>3. IsFiniteSet(1..Len(s)) /\ Cardinality(1..Len(s)) = Len(s)
  BY <1>1, FS_Interval
<1>4. IsFiniteSet(Range(s)) /\ Cardinality(Range(s)) <= Len(s)
  BY <1>2, <1>3, FS_Surjection
<1> QED
  BY <1>4, FS_CardinalityType

\* A worker takes at most Batch entries, and each exception discards what is
\* left behind the entry whose handler threw.
LossInv ==
  /\ \A t \in Threads : Len(batch[t]) <= Batch
  /\ IsFiniteSet(lost)
  /\ LossBounded

\* The exception: the batch without its head is discarded.
LEMMA CallThrowLoss ==
  ASSUME IndInv, LossInv, NEW t \in Threads, CallThrow(t)
  PROVE  LossInv'
<1>1. batch[t] \in Seq(Callbacks) /\ Len(batch[t]) \in Nat /\ Len(batch[t]) > 0
  BY EntryType DEF IndInv, TypeOK, LoopInv, CallThrow
<1>2. Tail(batch[t]) \in Seq(Callbacks) /\ Len(Tail(batch[t])) = Len(batch[t]) - 1
  BY <1>1, HeadTailProperties
<1> DEFINE R == Range(Tail(batch[t]))
<1>3. IsFiniteSet(R) /\ Cardinality(R) \in Nat /\ Cardinality(R) <= Len(batch[t]) - 1
  BY <1>2, RangeSize
<1>4. /\ IsFiniteSet(lost \cup R)
      /\ Cardinality(lost \cup R) = Cardinality(lost) + Cardinality(R) - Cardinality(lost \cap R)
  BY <1>3, FS_Union DEF LossInv
<1>5. IsFiniteSet(lost \cap R)
  BY <1>3, FS_Subset
<1>6. Cardinality(lost \cap R) \in Nat /\ Cardinality(lost) \in Nat
  BY <1>5, FS_CardinalityType DEF LossInv
<1>7. Cardinality(lost \cup R) <= Cardinality(lost) + (Batch - 1)
  <2> HIDE DEF R
  <2>1. Len(batch[t]) <= Batch /\ Batch \in Nat
    BY DispatcherAssumption DEF LossInv
  <2> QED
    BY <1>1, <1>3, <1>4, <1>6, <2>1
<1>8. lost' = lost \cup R /\ throws' = throws + 1 /\ batch' = [batch EXCEPT ![t] = <<>>]
  BY DEF CallThrow
<1>9. (Batch - 1) * (throws + 1) = (Batch - 1) * throws + (Batch - 1) /\ (Batch - 1) * throws \in Int
  BY DispatcherAssumption DEF IndInv, TypeOK
<1>10. Cardinality(lost \cup R) <= (Batch - 1) * (throws + 1)
  <2> HIDE DEF R
  <2>0. Cardinality(lost) <= (Batch - 1) * throws
    BY DEF LossInv, LossBounded
  <2>1. Cardinality(lost \cup R) \in Int
    BY <1>3, <1>4, <1>6
  <2> DEFINE P == (Batch - 1) * throws
  <2> HIDE DEF P
  <2>2. P \in Int /\ Cardinality(lost) <= P /\ (Batch - 1) * (throws + 1) = P + (Batch - 1)
    BY <1>9, <2>0 DEF P
  <2> QED
    BY <1>6, <1>7, <2>1, <2>2, DispatcherAssumption
<1>11. \A u \in Threads : Len(batch'[u]) <= Batch
  BY <1>8, DispatcherAssumption DEF IndInv, TypeOK, LossInv
<1> QED
  BY <1>4, <1>8, <1>10, <1>11 DEF LossInv, LossBounded

\* No other step discards an entry or lengthens a batch beyond the array.
LEMMA LossStep == IndInv /\ LossInv /\ [Next]_vars => LossInv'
<1> SUFFICES ASSUME IndInv, LossInv, [Next]_vars PROVE LossInv'
  OBVIOUS
<1>0. ASSUME lost' = lost, throws' = throws,
             \A t \in Threads : Len(batch'[t]) <= Batch
      PROVE  LossInv'
  BY <1>0 DEF LossInv, LossBounded
<1>1. ASSUME lost' = lost, throws' = throws, batch' = batch PROVE LossInv'
  BY <1>0, <1>1 DEF LossInv
<1>2. ASSUME NEW t \in Threads, GetStatusEx(t) PROVE LossInv'
  <2>1. PICK n \in 1..Batch : TakeEntries(t, n)
    BY <1>2 DEF GetStatusEx
  <2>2. Len(SubSeq(port, 1, n)) = n
    BY <2>1, TakeFirst, LenProperties, DispatcherAssumption DEF TakeEntries, IndInv, TypeOK
  <2>3. \A u \in Threads : Len(batch'[u]) <= Batch
    BY <2>1, <2>2, DispatcherAssumption DEF TakeEntries, IndInv, TypeOK, LossInv
  <2> QED
    BY <1>0, <2>1, <2>3 DEF TakeEntries, histVars
<1>3. ASSUME NEW t \in Threads, CallEnd(t) PROVE LossInv'
  <2>1. batch[t] \in Seq(Callbacks) /\ Len(batch[t]) \in Nat /\ Len(batch[t]) > 0
    BY <1>3, EntryType DEF IndInv, TypeOK, LoopInv, CallEnd
  <2>2. Len(Tail(batch[t])) = Len(batch[t]) - 1
    BY <2>1, HeadTailProperties
  <2>3. \A u \in Threads : Len(batch'[u]) <= Batch
    BY <1>3, <2>1, <2>2, DispatcherAssumption DEF CallEnd, IndInv, TypeOK, LossInv
  <2> QED
    BY <1>0, <1>3, <2>3 DEF CallEnd
<1>4. ASSUME NEW t \in Threads,
             StartThread(t) \/ CallBegin(t) \/ WaitInterrupted(t) \/ ExitThread(t)
      PROVE  LossInv'
  BY <1>1, <1>4 DEF StartThread, CallBegin, WaitInterrupted, ExitThread, histVars
<1>5. ASSUME NEW c \in Callbacks,
             MakeCallback(c) \/ PostStatus(c) \/ PostStatusFails(c) \/ Release(c)
      PROVE  LossInv'
  BY <1>1, <1>5 DEF MakeCallback, PostStatus, PostStatusFails, Release, workVars, histVars
<1>6. ASSUME Stopper PROVE LossInv'
  BY <1>1, <1>6 DEF Stopper, StopBegin, QueueApc, ApcsQueued, Join, StopReturn, Destroy,
       workVars, histVars
<1>7. CASE UNCHANGED vars
  BY <1>1, <1>7 DEF vars
<1> QED
  BY <1>2, <1>3, <1>4, <1>5, <1>6, <1>7, CallThrowLoss DEF Next, Worker

\* An exception of a handler costs at most the rest of its own batch, whatever
\* the size of the batches and however many workers run.
THEOREM ExceptionsCostBounded == Spec => []LossBounded
<1>1. Init => LossInv
  <2> SUFFICES ASSUME Init PROVE LossInv
    OBVIOUS
  <2>1. \A t \in Threads : batch[t] = <<>>
    BY DEF Init
  <2>2. (Batch - 1) * throws = 0
    BY DispatcherAssumption DEF Init
  <2> QED
    BY <2>1, <2>2, FS_EmptySet, DispatcherAssumption DEF Init, LossInv, LossBounded
<1>2. LossInv => LossBounded
  BY DEF LossInv
<1> QED
  BY <1>1, <1>2, LossStep, Invariance, PTL DEF Spec

-----------------------------------------------------------------------------
(* Shutdown                                                                *)

\* Workers leave their loop only between batches, and the port is closed only
\* after the last of them has exited.
THEOREM ShutdownOrderly == Spec => []OrderlyShutdown
<1>1. IndInv => \A t \in Threads : pc[t] \in {"leaving", "exited"} => batch[t] = <<>>
  <2> SUFFICES ASSUME IndInv, NEW t \in Threads, pc[t] \in {"leaving", "exited"}
               PROVE  batch[t] = <<>>
    OBVIOUS
  <2>0. Len(batch[t]) \in Nat /\ ~(Len(batch[t]) > 0)
    BY EntryType DEF IndInv, LoopInv
  <2>1. batch[t] \in Seq(Callbacks)
    BY DEF IndInv, TypeOK
  <2>2. batch[t] # <<>> => Len(batch[t]) \in Nat \ {0}
    BY <2>1, EmptySeq
  <2> QED
    BY <2>0, <2>2
<1>2. IndInv /\ ~portOpen => \A t \in Threads : pc[t] = "exited"
  BY DEF IndInv, StopInv
<1>3. IndInv => OrderlyShutdown
  BY <1>1, <1>2 DEF OrderlyShutdown
<1> QED
  BY <1>3, Invariance, PTL

\* Once stop() has returned, no handler runs and none is entered.
THEOREM StopIsFinal == Spec => QuietAfterStop
<1>1. IndInv /\ [Next]_vars =>
        [(stopPc \in {"stopped", "destroyed"}) =>
           (/\ invokes' = invokes
            /\ \A t \in Threads : pc[t] # "inside")]_vars
  <2> SUFFICES ASSUME IndInv, Next, stopPc \in {"stopped", "destroyed"}
               PROVE  invokes' = invokes /\ \A t \in Threads : pc[t] # "inside"
    OBVIOUS
  <2>1. \A t \in Threads : pc[t] = "exited"
    BY DEF IndInv, StopInv
  <2>2. \A t \in Threads : ~CallBegin(t)
    BY <2>1 DEF CallBegin
  <2>3. invokes' = invokes
    BY <2>2 DEF Next, Worker, Stopper, MakeCallback, PostStatus, PostStatusFails,
         Release, StartThread, GetStatusEx, TakeEntries, CallEnd, CallThrow,
         WaitInterrupted, ExitThread, StopBegin, QueueApc, ApcsQueued, Join,
         StopReturn, Destroy, histVars
  <2> QED
    BY <2>1, <2>3
<1> QED
  BY <1>1, Invariance, PTL DEF Spec, QuietAfterStop

-----------------------------------------------------------------------------
(* Refinement                                                              *)

\* What the steps of the dispatcher do to the status the caller sees.
LEMMA StepRefines ==
  IndInv /\ [Next]_vars => [Delivery!AbsNext]_(Delivery!absVars)
<1> SUFFICES ASSUME IndInv, [Next]_vars
             PROVE  Delivery!AbsNext \/ UNCHANGED Delivery!absVars
  BY DEF Delivery!absVars
<1> USE DEF Delivery!AbsNext, Delivery!absVars
<1>0. ASSUME UNCHANGED <<poster, invokes, lost>>,
             (stopPc \in {"stopped", "destroyed"})' = (stopPc \in {"stopped", "destroyed"})
      PROVE  UNCHANGED Delivery!absVars
  BY <1>0 DEF StatusOf
<1>1. ASSUME NEW c \in Callbacks, MakeCallback(c) \/ Release(c)
      PROVE  UNCHANGED Delivery!absVars
  <2>1. \A d \in Callbacks : StatusOf(d)' = StatusOf(d)
    BY <1>1 DEF MakeCallback, Release, IndInv, TypeOK, StatusOf, histVars
  <2> QED
    BY <1>1, <2>1 DEF MakeCallback, Release, stopVars
<1>2. ASSUME NEW c \in Callbacks, PostStatus(c)
      PROVE  Delivery!Accept(c)
  <2>1. /\ StatusOf(c) = "new" /\ StatusOf(c)' = "accepted"
        /\ \A d \in Callbacks \ {c} : StatusOf(d)' = StatusOf(d)
    BY <1>2 DEF PostStatus, IndInv, TypeOK, NotPending, StatusOf, histVars
  <2> QED
    BY <1>2, <2>1 DEF PostStatus, stopVars, Delivery!Accept
<1>3. ASSUME NEW c \in Callbacks, PostStatusFails(c)
      PROVE  Delivery!Refuse(c)
  <2>1. /\ StatusOf(c) = "new" /\ StatusOf(c)' = "refused"
        /\ \A d \in Callbacks \ {c} : StatusOf(d)' = StatusOf(d)
    BY <1>3 DEF PostStatusFails, IndInv, TypeOK, StatusOf
  <2> QED
    BY <1>3, <2>1 DEF PostStatusFails, stopVars, Delivery!Refuse
<1>4. ASSUME NEW t \in Threads, CallBegin(t)
      PROVE  \E c \in Callbacks : Delivery!Deliver(c)
  <2>1. PICK c \in Callbacks : c = batch[t][1] /\ c = Head(batch[t])
    BY <1>4, BusyBatch DEF CallBegin, IndInv
  <2>2. Pending(c) /\ invokes[c] = 0
    BY <1>4, <2>1, BusyBatch DEF CallBegin, IndInv, BatchPending, CalledOf
  <2>3. /\ StatusOf(c) = "accepted" /\ StatusOf(c)' = "called"
        /\ \A d \in Callbacks \ {c} : StatusOf(d)' = StatusOf(d)
    BY <1>4, <2>1, <2>2
       DEF CallBegin, IndInv, TypeOK, StatusOf, Pending, postVars
  <2>4. stopPc \notin {"stopped", "destroyed"} /\ stopPc' = stopPc
    BY <1>4 DEF CallBegin, IndInv, StopInv, stopVars
  <2>5. Delivery!Deliver(c)
    BY <2>3, <2>4 DEF Delivery!Deliver
  <2> QED
    BY <2>5
<1>5. ASSUME NEW t \in Threads, CallThrow(t)
      PROVE  \E S \in SUBSET Callbacks : Delivery!Lose(S)
  <2>1. PICK S \in SUBSET Callbacks :
          /\ S = Range(Tail(batch[t]))
          /\ \A c \in S : \E i \in 1..Len(batch[t]) : i # 1 /\ batch[t][i] = c
    BY <1>5, RestOfBatch DEF CallThrow, IndInv
  <2>2. \A c \in S : Pending(c) /\ invokes[c] = 0
    BY <2>1 DEF IndInv, BatchPending, CalledOf
  <2>3. \A d \in Callbacks :
          /\ d \in S => StatusOf(d) = "accepted"
          /\ StatusOf(d)' = IF d \in S THEN "lost" ELSE StatusOf(d)
    BY <1>5, <2>1, <2>2 DEF CallThrow, StatusOf, Pending, postVars
  <2>4. stopPc \notin {"stopped", "destroyed"} /\ stopPc' = stopPc
    BY <1>5 DEF CallThrow, IndInv, StopInv, stopVars
  <2>5. Delivery!Lose(S)
    BY <2>3, <2>4 DEF Delivery!Lose
  <2> QED
    BY <2>5
<1>6. ASSUME NEW t \in Threads,
             \/ StartThread(t) \/ GetStatusEx(t) \/ CallEnd(t)
             \/ WaitInterrupted(t) \/ ExitThread(t)
      PROVE  UNCHANGED Delivery!absVars
  BY <1>0, <1>6 DEF StartThread, GetStatusEx, TakeEntries, CallEnd, WaitInterrupted,
       ExitThread, postVars, stopVars, histVars
<1>7. ASSUME StopBegin \/ QueueApc \/ ApcsQueued \/ Join \/ Destroy
      PROVE  UNCHANGED Delivery!absVars
  BY <1>0, <1>7 DEF StopBegin, QueueApc, ApcsQueued, Join, Destroy,
       postVars, workVars, histVars
<1>8. ASSUME StopReturn
      PROVE  Delivery!Stop
  BY <1>8 DEF StopReturn, Delivery!Stop, StatusOf, postVars, histVars
<1>9. CASE UNCHANGED vars
  BY <1>0, <1>9 DEF vars
<1> QED
  BY <1>1, <1>2, <1>3, <1>4, <1>5, <1>6, <1>7, <1>8, <1>9 DEF Next, Worker, Stopper

\* The dispatcher implements the abstract delivery service: at most one call
\* per callback, only of accepted ones, none after stop() has returned, and a
\* callback is lost only while the workers are still running.
THEOREM Refinement == Spec => ImplementsDelivery
<1>1. Init => Delivery!AbsInit
  BY DEF Init, Delivery!AbsInit, StatusOf
<1> QED
  BY <1>1, StepRefines, Invariance, PTL DEF Spec, ImplementsDelivery, Delivery!AbsSpec
=============================================================================
