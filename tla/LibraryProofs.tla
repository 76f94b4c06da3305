---------------------------- MODULE LibraryProofs ----------------------------
(***************************************************************************)
(* Proofs about the library: the blocking queues for any number of threads *)
(* and any limit, the containers with a lock for any threads and keys, the *)
(* memory pools for any alignment, sizes and number of blocks cut at once, *)
(* the sorted vector, as a map, for any keys, values and objects.          *)
(***************************************************************************)
EXTENDS MemoryPool, SyncContainers, BlockingQueues, AssocVector,
        FiniteSetTheorems, SequenceTheorems, WellFoundedInduction, TLAPS

-----------------------------------------------------------------------------
(* The blocking queues                                                     *)

Places == {"out", "put", "get", "tellNotEmpty", "tellNotFull"}

\* The state of a blocking queue: a sleeper is inside the call it sleeps in, a
\* bounded queue holds no more than its limit, and nobody sleeps on, or
\* notifies, the second condition of an unbounded one.
QueueTypeOK ==
  /\ limit \in Nat /\ size \in Nat /\ puts \in Nat
  /\ doing \in [QueueThreads -> Places]
  /\ notEmpty \subseteq At("get") /\ notFull \subseteq At("put")
  /\ limit = Unbounded => notFull = {} /\ At("tellNotFull") = {}
  /\ limit # Unbounded => size <= limit

\* The threads NoIdleWaiter counts: awake in get() and put(), about to notify.
Getters == Cardinality(At("get") \ notEmpty)
Putters == Cardinality(At("put") \ notFull)
Fillers == Cardinality(At("tellNotEmpty"))
Drainers == Cardinality(At("tellNotFull"))

\* Enough are awake to use up what is in the queue, and the room in it.
Used ==
  /\ notEmpty # {} => size <= Getters + Fillers
  /\ notFull # {} => limit - size <= Putters + Drainers

QueueInv == QueueTypeOK /\ Used

\* Where the threads are after one of them moved.
LEMMA Moved ==
  ASSUME NEW t \in QueueThreads, NEW from \in Places, NEW to \in Places, from # to,
         doing \in [QueueThreads -> Places], doing[t] = from, Goes(t, to)
  PROVE  /\ doing' \in [QueueThreads -> Places]
         /\ \A w \in Places \ {from, to} : At(w)' = At(w)
         /\ At(from)' = At(from) \ {t} /\ t \in At(from)
         /\ At(to)' = At(to) \cup {t} /\ t \notin At(to)
BY DEF Goes, At

\* The sets of threads the invariant counts are finite.
LEMMA Counted ==
  ASSUME NEW S \in SUBSET QueueThreads
  PROVE  IsFiniteSet(S) /\ Cardinality(S) \in Nat
BY QueueAssumption, FS_Subset, FS_CardinalityType DEF QueueAssumption

\* A thread enters or leaves a set that the invariant counts.
LEMMA OneMore ==
  ASSUME NEW S \in SUBSET QueueThreads, NEW t \in QueueThreads
  PROVE  /\ Cardinality(S \cup {t}) = IF t \in S THEN Cardinality(S) ELSE Cardinality(S) + 1
         /\ Cardinality(S \ {t}) = IF t \in S THEN Cardinality(S) - 1 ELSE Cardinality(S)
<1>1. IsFiniteSet(S)
  BY Counted
<1> QED
  BY <1>1, FS_AddElement, FS_RemoveElement

\* The invariant holds of a new queue and survives every step.
THEOREM QueueInvariance == QueueSpec => []QueueInv
<1>1. QueueInit => QueueInv
  <2> SUFFICES ASSUME QueueInit PROVE QueueInv
    OBVIOUS
  <2>1. QueueTypeOK
    BY QueueAssumption DEF QueueInit, QueueTypeOK, QueueAssumption, At, Places
  <2> QED
    BY <2>1 DEF QueueInit, QueueInv, Used
<1>2. QueueInv /\ [QueueNext]_queueVars => QueueInv'
  <2> SUFFICES ASSUME QueueInv, [QueueNext]_queueVars PROVE QueueInv'
    OBVIOUS
  <2> USE DEF QueueInv
  <2>s. /\ At("get") \in SUBSET QueueThreads /\ At("put") \in SUBSET QueueThreads
        /\ At("tellNotEmpty") \in SUBSET QueueThreads /\ At("tellNotFull") \in SUBSET QueueThreads
        /\ At("get") \ notEmpty \in SUBSET QueueThreads /\ At("put") \ notFull \in SUBSET QueueThreads
    BY DEF At
  <2>n. limit \in Nat /\ size \in Nat
    BY DEF QueueTypeOK
  <2>c. Getters \in Nat /\ Putters \in Nat /\ Fillers \in Nat /\ Drainers \in Nat
    BY <2>s, Counted DEF Getters, Putters, Fillers, Drainers

  <2>1. ASSUME NEW t \in QueueThreads, CallPut(t) PROVE QueueInv'
    <3>1. /\ doing' \in [QueueThreads -> Places]
          /\ At("get")' = At("get")
          /\ At("tellNotEmpty")' = At("tellNotEmpty")
          /\ At("tellNotFull")' = At("tellNotFull")
          /\ At("put")' = At("put") \cup {t} /\ t \notin At("put")
      BY <2>1, Moved DEF CallPut, QueueTypeOK, Places
    <3>2. (At("put") \ notFull)' = (At("put") \ notFull) \cup {t} /\ t \notin At("put") \ notFull
      BY <2>1, <3>1 DEF CallPut, QueueTypeOK
    <3>3. Getters' = Getters /\ Putters' = Putters + 1 /\ Fillers' = Fillers /\ Drainers' = Drainers
      <4>1. Getters' = Getters /\ Fillers' = Fillers /\ Drainers' = Drainers
        BY <2>1, <3>1, <3>2 DEF CallPut, Getters, Fillers, Drainers
      <4>2. Putters' = Putters + 1
        BY <2>1, <3>1, <3>2, <2>s, OneMore DEF CallPut, Putters
      <4> QED
        BY <4>1, <4>2
    <3>4. QueueTypeOK'
      BY <2>1, <3>1 DEF CallPut, QueueTypeOK
    <3> QED
      BY <2>1, <3>3, <3>4, <2>c DEF CallPut, QueueTypeOK, Used
  <2>2. ASSUME NEW t \in QueueThreads, CallGet(t) PROVE QueueInv'
    <3>1. /\ doing' \in [QueueThreads -> Places]
          /\ At("put")' = At("put")
          /\ At("tellNotEmpty")' = At("tellNotEmpty")
          /\ At("tellNotFull")' = At("tellNotFull")
          /\ At("get")' = At("get") \cup {t} /\ t \notin At("get")
      BY <2>2, Moved DEF CallGet, QueueTypeOK, Places
    <3>2. (At("get") \ notEmpty)' = (At("get") \ notEmpty) \cup {t} /\ t \notin At("get") \ notEmpty
      BY <2>2, <3>1 DEF CallGet, QueueTypeOK
    <3>3. Getters' = Getters + 1 /\ Putters' = Putters /\ Fillers' = Fillers /\ Drainers' = Drainers
      <4>1. Putters' = Putters /\ Fillers' = Fillers /\ Drainers' = Drainers
        BY <2>2, <3>1, <3>2 DEF CallGet, Putters, Fillers, Drainers
      <4>2. Getters' = Getters + 1
        BY <2>2, <3>1, <3>2, <2>s, OneMore DEF CallGet, Getters
      <4> QED
        BY <4>1, <4>2
    <3>4. QueueTypeOK'
      BY <2>2, <3>1 DEF CallGet, QueueTypeOK
    <3> QED
      BY <2>2, <3>3, <3>4, <2>c DEF CallGet, QueueTypeOK, Used
  <2>3. ASSUME NEW t \in QueueThreads, PutWaits(t) PROVE QueueInv'
    <3>1. notEmpty' = notEmpty /\ size' = size /\ limit' = limit /\ size = limit
      BY <2>3 DEF Full, PutWaits
    <3>2. \A w \in Places : At(w)' = At(w)
      BY <2>3 DEF PutWaits, At
    <3>3. QueueTypeOK'
      BY <2>3, <3>2 DEF PutWaits, QueueTypeOK, Full, At, Places
    <3>4. Getters' = Getters /\ Fillers' = Fillers /\ Drainers' = Drainers
      BY <3>1, <3>2 DEF Getters, Fillers, Drainers, Places
    <3>5. Putters' \in Nat
      <4>1. (At("put") \ notFull)' \in SUBSET QueueThreads
        BY DEF At
      <4> QED
        BY <4>1, Counted DEF Putters
    <3>6. limit' - size' <= Putters' + Drainers'
      <4>1. limit' - size' = 0
        BY <3>1, <2>n
      <4>2. Drainers' \in Nat
        BY <3>4, <2>c
      <4>3. \A p, r \in Nat : 0 <= p + r
        OBVIOUS
      <4>4. 0 <= Putters' + Drainers'
        BY <4>2, <4>3, <3>5
      <4> QED
        BY <4>1, <4>4
    <3>7. notEmpty' # {} => size' <= Getters' + Fillers'
      BY <3>1, <3>4 DEF Used
    <3> QED
      BY <3>3, <3>6, <3>7 DEF Used
  <2>5. ASSUME NEW t \in QueueThreads, GetWaits(t) PROVE QueueInv'
    <3>1. notFull' = notFull /\ size' = size /\ limit' = limit /\ size = 0
      BY <2>5 DEF GetWaits
    <3>2. \A w \in Places : At(w)' = At(w)
      BY <2>5 DEF GetWaits, At
    <3>3. QueueTypeOK'
      BY <2>5, <3>2 DEF GetWaits, QueueTypeOK, At, Places
    <3>4. Putters' = Putters /\ Fillers' = Fillers /\ Drainers' = Drainers
      BY <3>1, <3>2 DEF Putters, Fillers, Drainers, Places
    <3>5. Getters' \in Nat
      <4>1. (At("get") \ notEmpty)' \in SUBSET QueueThreads
        BY DEF At
      <4> QED
        BY <4>1, Counted DEF Getters
    <3>6. size' <= Getters' + Fillers'
      <4>1. size' = 0
        BY <3>1
      <4>2. Fillers' \in Nat
        BY <3>4, <2>c
      <4>3. \A g, f \in Nat : 0 <= g + f
        OBVIOUS
      <4>4. 0 <= Getters' + Fillers'
        BY <4>2, <4>3, <3>5
      <4> QED
        BY <4>1, <4>4
    <3>7. notFull' # {} => limit' - size' <= Putters' + Drainers'
      BY <3>1, <3>4 DEF Used
    <3> QED
      BY <3>3, <3>6, <3>7 DEF Used
  <2>4. ASSUME NEW t \in QueueThreads, Puts(t) PROVE QueueInv'
    <3>1. /\ doing' \in [QueueThreads -> Places]
          /\ At("get")' = At("get")
          /\ At("tellNotFull")' = At("tellNotFull")
          /\ At("put")' = At("put") \ {t} /\ t \in At("put")
          /\ At("tellNotEmpty")' = At("tellNotEmpty") \cup {t} /\ t \notin At("tellNotEmpty")
      BY <2>4, Moved DEF Puts, QueueTypeOK, Places
    <3>2. (At("put") \ notFull)' = (At("put") \ notFull) \ {t} /\ t \in At("put") \ notFull
      BY <2>4, <3>1 DEF Puts, Asleep
    <3>3. Getters' = Getters /\ Putters' = Putters - 1 /\ Fillers' = Fillers + 1 /\ Drainers' = Drainers
      <4>1. Getters' = Getters /\ Drainers' = Drainers
        BY <2>4, <3>1, <3>2 DEF Puts, Getters, Drainers
      <4>2. Putters' = Putters - 1
        BY <2>4, <3>1, <3>2, <2>s, OneMore DEF Puts, Putters
      <4>3. Fillers' = Fillers + 1
        BY <2>4, <3>1, <3>2, <2>s, OneMore DEF Puts, Fillers
      <4> QED
        BY <4>1, <4>2, <4>3
    <3>4. QueueTypeOK'
      BY <2>4, <3>1 DEF Puts, QueueTypeOK, Full, Asleep
    <3>5. size' = size + 1 /\ limit' = limit /\ notEmpty' = notEmpty /\ notFull' = notFull
      BY <2>4 DEF Puts
    <3> QED
      BY <3>3, <3>4, <3>5, <2>c, <2>n DEF Used
  <2>6. ASSUME NEW t \in QueueThreads, Gets(t) PROVE QueueInv'
    <3>1. /\ size' = size - 1 /\ size > 0 /\ doing[t] = "get" /\ t \notin notEmpty
          /\ limit' = limit /\ notEmpty' = notEmpty /\ notFull' = notFull /\ puts' = puts
      BY <2>6 DEF Gets, Asleep
    <3>2. /\ doing' \in [QueueThreads -> Places]
          /\ At("put")' = At("put") /\ At("tellNotEmpty")' = At("tellNotEmpty")
          /\ At("get")' = At("get") \ {t} /\ t \in At("get")
      BY <2>6, Moved DEF Gets, QueueTypeOK, Places
    <3>3. (At("get") \ notEmpty)' = (At("get") \ notEmpty) \ {t} /\ t \in At("get") \ notEmpty
      BY <3>1, <3>2
    <3>4. Getters' = Getters - 1 /\ Putters' = Putters /\ Fillers' = Fillers
      <4>1. Putters' = Putters /\ Fillers' = Fillers
        BY <3>1, <3>2, <3>3 DEF Putters, Fillers
      <4>2. Getters' = Getters - 1
        BY <3>1, <3>2, <3>3, <2>s, OneMore DEF Getters
      <4> QED
        BY <4>1, <4>2
    <3>5. CASE limit = Unbounded
      <4>1. At("tellNotFull")' = At("tellNotFull")
        BY <2>6, <3>5, Moved DEF Gets, QueueTypeOK, Places
      <4>2. QueueTypeOK'
        BY <3>1, <3>2, <3>5, <4>1 DEF QueueTypeOK
      <4> QED
        BY <3>1, <3>4, <3>5, <4>2, <2>c, <2>n DEF Used, QueueTypeOK
    <3>6. CASE limit # Unbounded
      <4>1. At("tellNotFull")' = At("tellNotFull") \cup {t} /\ t \notin At("tellNotFull")
        BY <2>6, <3>6, Moved DEF Gets, QueueTypeOK, Places
      <4>2. Drainers' = Drainers + 1
        BY <4>1, <2>s, OneMore DEF Drainers
      <4>3. QueueTypeOK'
        BY <3>1, <3>2, <3>6, <4>1 DEF QueueTypeOK
      <4> QED
        BY <3>1, <3>4, <4>2, <4>3, <2>c, <2>n DEF Used
    <3> QED
      BY <3>5, <3>6
  <2>7. ASSUME NEW t \in QueueThreads, NotifyNotEmpty(t) PROVE QueueInv'
    <3>1. /\ doing' \in [QueueThreads -> Places]
          /\ At("get")' = At("get")
          /\ At("put")' = At("put")
          /\ At("tellNotFull")' = At("tellNotFull")
          /\ At("tellNotEmpty")' = At("tellNotEmpty") \ {t} /\ t \in At("tellNotEmpty")
      BY <2>7, Moved DEF NotifyNotEmpty, QueueTypeOK, Places
    <3>2. /\ limit' = limit /\ size' = size /\ puts' = puts /\ notFull' = notFull
          /\ notEmpty' \subseteq notEmpty
      BY <2>7 DEF NotifyNotEmpty
    <3>3. Fillers' = Fillers - 1 /\ Putters' = Putters /\ Drainers' = Drainers
      <4>1. Putters' = Putters /\ Drainers' = Drainers
        BY <3>1, <3>2 DEF Putters, Drainers
      <4>2. Fillers' = Fillers - 1
        BY <3>1, <3>2, <2>s, OneMore DEF Fillers
      <4> QED
        BY <4>1, <4>2
    <3>4. QueueTypeOK'
      BY <3>1, <3>2 DEF QueueTypeOK
    <3>5. CASE notEmpty = {}
      BY <3>2, <3>3, <3>4, <3>5, <2>c, <2>n DEF Used
    <3>6. CASE notEmpty # {}
      <4>1. PICK u \in notEmpty : notEmpty' = notEmpty \ {u}
        BY <2>7, <3>6 DEF NotifyNotEmpty
      <4>2. (At("get") \ notEmpty)' = (At("get") \ notEmpty) \cup {u} /\ u \notin At("get") \ notEmpty
        BY <3>1, <4>1 DEF QueueTypeOK
      <4>3. u \in QueueThreads
        BY <2>s DEF QueueTypeOK
      <4>4. Getters' = Getters + 1
        BY <4>2, <4>3, <2>s, OneMore DEF Getters
      <4> QED
        BY <3>2, <3>3, <3>4, <3>6, <4>4, <2>c, <2>n DEF Used
    <3> QED
      BY <3>5, <3>6
  <2>8. ASSUME NEW t \in QueueThreads, NotifyNotFull(t) PROVE QueueInv'
    <3>1. /\ doing' \in [QueueThreads -> Places]
          /\ At("get")' = At("get")
          /\ At("put")' = At("put")
          /\ At("tellNotEmpty")' = At("tellNotEmpty")
          /\ At("tellNotFull")' = At("tellNotFull") \ {t} /\ t \in At("tellNotFull")
      BY <2>8, Moved DEF NotifyNotFull, QueueTypeOK, Places
    <3>2. /\ limit' = limit /\ size' = size /\ puts' = puts /\ notEmpty' = notEmpty
          /\ notFull' \subseteq notFull
      BY <2>8 DEF NotifyNotFull
    <3>3. Drainers' = Drainers - 1 /\ Getters' = Getters /\ Fillers' = Fillers
      <4>1. Getters' = Getters /\ Fillers' = Fillers
        BY <3>1, <3>2 DEF Getters, Fillers
      <4>2. Drainers' = Drainers - 1
        BY <3>1, <3>2, <2>s, OneMore DEF Drainers
      <4> QED
        BY <4>1, <4>2
    <3>4. QueueTypeOK'
      BY <3>1, <3>2 DEF QueueTypeOK
    <3>5. CASE notFull = {}
      BY <3>2, <3>3, <3>4, <3>5, <2>c, <2>n DEF Used
    <3>6. CASE notFull # {}
      <4>1. PICK u \in notFull : notFull' = notFull \ {u}
        BY <2>8, <3>6 DEF NotifyNotFull
      <4>2. (At("put") \ notFull)' = (At("put") \ notFull) \cup {u} /\ u \notin At("put") \ notFull
        BY <3>1, <4>1 DEF QueueTypeOK
      <4>3. u \in QueueThreads
        BY <2>s DEF QueueTypeOK
      <4>4. Putters' = Putters + 1
        BY <4>2, <4>3, <2>s, OneMore DEF Putters
      <4> QED
        BY <3>2, <3>3, <3>4, <3>6, <4>4, <2>c, <2>n DEF Used
    <3> QED
      BY <3>5, <3>6
  <2>9. ASSUME NEW t \in QueueThreads, Wakes(t) PROVE QueueInv'
    <3>1. \A w \in Places : At(w)' = At(w)
      BY <2>9 DEF Wakes, At
    <3>2. /\ limit' = limit /\ size' = size /\ puts' = puts /\ doing' = doing
          /\ notEmpty' = notEmpty \ {t} /\ notFull' = notFull \ {t}
      BY <2>9 DEF Wakes
    <3>3. QueueTypeOK'
      BY <3>1, <3>2 DEF QueueTypeOK, Places
    <3>4. Getters' \in {Getters, Getters + 1}
      <4>1. (At("get") \ notEmpty)' \in {At("get") \ notEmpty, (At("get") \ notEmpty) \cup {t}}
        BY <3>1, <3>2 DEF Places
      <4>2. CASE (At("get") \ notEmpty)' = At("get") \ notEmpty
        BY <4>2 DEF Getters
      <4>3. CASE (At("get") \ notEmpty)' = (At("get") \ notEmpty) \cup {t}
        <5>1. Cardinality((At("get") \ notEmpty) \cup {t}) \in {Getters, Getters + 1}
          BY <2>s, OneMore DEF Getters
        <5> QED
          BY <4>3, <5>1 DEF Getters
      <4> QED
        BY <4>1, <4>2, <4>3
    <3>5. Putters' \in {Putters, Putters + 1}
      <4>1. (At("put") \ notFull)' \in {At("put") \ notFull, (At("put") \ notFull) \cup {t}}
        BY <3>1, <3>2 DEF Places
      <4>2. CASE (At("put") \ notFull)' = At("put") \ notFull
        BY <4>2 DEF Putters
      <4>3. CASE (At("put") \ notFull)' = (At("put") \ notFull) \cup {t}
        <5>1. Cardinality((At("put") \ notFull) \cup {t}) \in {Putters, Putters + 1}
          BY <2>s, OneMore DEF Putters
        <5> QED
          BY <4>3, <5>1 DEF Putters
      <4> QED
        BY <4>1, <4>2, <4>3
    <3>6. Fillers' = Fillers /\ Drainers' = Drainers
      BY <3>1 DEF Fillers, Drainers, Places
    <3>7. notEmpty' # {} => size' <= Getters' + Fillers'
      <4>1. CASE Getters' = Getters
        BY <4>1, <3>2, <3>6, <2>c, <2>n DEF Used
      <4>2. CASE Getters' = Getters + 1
        BY <4>2, <3>2, <3>6, <2>c, <2>n DEF Used
      <4> QED
        BY <3>4, <4>1, <4>2
    <3>8. notFull' # {} => limit' - size' <= Putters' + Drainers'
      <4>1. CASE Putters' = Putters
        BY <4>1, <3>2, <3>6, <2>c, <2>n DEF Used
      <4>2. CASE Putters' = Putters + 1
        BY <4>2, <3>2, <3>6, <2>c, <2>n DEF Used
      <4> QED
        BY <3>5, <4>1, <4>2
    <3> QED
      BY <3>3, <3>7, <3>8 DEF Used
  <2>10. CASE Clear
    <3>1. \A w \in Places : At(w)' = At(w)
      BY <2>10 DEF Clear, At
    <3>2. /\ limit = Unbounded /\ limit' = limit /\ size' = 0
          /\ notEmpty' = notEmpty /\ notFull' = notFull
      BY <2>10 DEF Clear
    <3>3. QueueTypeOK'
      BY <2>10, <3>1 DEF Clear, QueueTypeOK, Places
    <3>4. Getters' = Getters /\ Fillers' = Fillers
      BY <3>1, <3>2 DEF Getters, Fillers, Places
    <3> QED
      BY <3>2, <3>3, <3>4, <2>c, <2>n DEF Used, QueueTypeOK
  <2>11. CASE UNCHANGED queueVars
    BY <2>11 DEF queueVars, QueueTypeOK, Used, At, Getters, Putters, Fillers, Drainers
  <2> QED
    BY <2>1, <2>2, <2>3, <2>4, <2>5, <2>6, <2>7, <2>8, <2>9, <2>10, <2>11 DEF QueueNext
<1> QED
  BY <1>1, <1>2, PTL DEF QueueSpec

\* No thread sleeps in get() beside elements, or in put() beside room, that
\* nobody awake will use up: the notifications outside the mutex lose no wakeup.
THEOREM NoWakeupLost == QueueSpec => []NoIdleWaiter
<1>1. QueueInv => NoIdleWaiter
  BY DEF QueueInv, Used, NoIdleWaiter, Getters, Putters, Fillers, Drainers
<1> QED
  BY <1>1, QueueInvariance, PTL

-----------------------------------------------------------------------------
(* The containers with a lock                                              *)

\* A sequence without the item at one position, and with one put in before it.
LEMMA Removed ==
  ASSUME NEW S, NEW s \in Seq(S), NEW i \in 1..Len(s)
  PROVE  /\ RemoveAt(s, i) \in Seq(S)
         /\ Len(RemoveAt(s, i)) = Len(s) - 1
         /\ \A j \in 1..(Len(s) - 1) : RemoveAt(s, i)[j] = IF j < i THEN s[j] ELSE s[j + 1]
<1> DEFINE a == SubSeq(s, 1, i - 1)
           b == SubSeq(s, i + 1, Len(s))
<1>1. /\ a \in Seq(S) /\ Len(a) = i - 1
      /\ \A j \in 1..(i - 1) : a[j] = s[j]
  BY SubSeqProperties
<1>2. /\ b \in Seq(S) /\ Len(b) = Len(s) - i
      /\ \A j \in 1..(Len(s) - i) : b[j] = s[i + j]
  BY SubSeqProperties
<1>3. /\ a \o b \in Seq(S) /\ Len(a \o b) = Len(a) + Len(b)
      /\ \A j \in 1..(Len(a) + Len(b)) : (a \o b)[j] = IF j <= Len(a) THEN a[j] ELSE b[j - Len(a)]
  BY <1>1, <1>2, ConcatProperties
<1>4. RemoveAt(s, i) = a \o b
  BY DEF RemoveAt
<1> HIDE DEF a, b
<1>5. ASSUME NEW j \in 1..(Len(s) - 1)
      PROVE  (a \o b)[j] = IF j < i THEN s[j] ELSE s[j + 1]
  <2>1. CASE j < i
    BY <2>1, <1>1, <1>2, <1>3
  <2>2. CASE ~(j < i)
    <3>1. (a \o b)[j] = b[j - (i - 1)] /\ j - (i - 1) \in 1..(Len(s) - i)
      BY <2>2, <1>1, <1>2, <1>3
    <3>2. b[j - (i - 1)] = s[i + (j - (i - 1))]
      BY <3>1, <1>2
    <3>3. i + (j - (i - 1)) = j + 1
      OBVIOUS
    <3> QED
      BY <2>2, <3>1, <3>2, <3>3
  <2> QED
    BY <2>1, <2>2
<1>6. Len(a \o b) = Len(s) - 1
  BY <1>1, <1>2, <1>3
<1> QED
  BY <1>3, <1>4, <1>5, <1>6

\* The containers hold elements that were made, and the thread whose operation
\* runs under the lock has the lock.
SyncTypeOK ==
  /\ made \in Nat
  /\ map \in [SyncKeys -> Nat]
  /\ seq \in Seq(Nat \ {NoElement})
  /\ mutex \in SyncThreads \cup {Nobody}
  /\ pc \in [SyncThreads -> {"out", "op", "absent"}]
  /\ at \in [SyncThreads -> Nat]
  /\ self \in [SyncThreads -> BOOLEAN]

\* An operation of op_if() or for_each() runs with the lock.
Locked == \A t \in SyncThreads : pc[t] = "op" => mutex = t

SyncInv == SyncTypeOK /\ Locked /\ ElementStays

\* A call that replaces the contents keeps the invariant: with another thread's
\* operation running it could not have had the lock, and its own operation's
\* element is noted when it goes.
LEMMA BecomesInv ==
  ASSUME NEW t \in SyncThreads, NEW f \in [SyncKeys -> Nat], NEW s \in Seq(Nat \ {NoElement}),
         SyncInv, Locks(t), Becomes(t, f, s), made' \in Nat
  PROVE  SyncInv'
<1>1. /\ map' = f /\ seq' = s /\ mutex' = mutex /\ pc' = pc /\ at' = at
      /\ self' = [self EXCEPT ![t] = self[t] \/ at[t] \notin Elements(f, s)]
  BY DEF Becomes, callVars
<1>2. SyncTypeOK'
  BY <1>1 DEF SyncInv, SyncTypeOK
<1>3. Locked'
  BY <1>1 DEF SyncInv, Locked
<1>4. ElementStays'
  <2> SUFFICES ASSUME NEW u \in SyncThreads, pc'[u] = "op", ~self'[u]
               PROVE  at'[u] \in Elements(map', seq')
    BY DEF ElementStays, Elements
  <2>1. mutex = u
    BY <1>1 DEF SyncInv, Locked
  <2>2. u = t
    BY <2>1, SyncAssumption DEF Locks, SyncAssumption
  <2>3. self'[t] = (self[t] \/ at[t] \notin Elements(f, s))
    BY <1>1 DEF SyncInv, SyncTypeOK
  <2>4. at[t] \in Elements(f, s)
    BY <2>2, <2>3
  <2> QED
    BY <1>1, <2>2, <2>4
<1> QED
  BY <1>2, <1>3, <1>4 DEF SyncInv

\* A call that starts an operation of the caller keeps it, provided the operation
\* gets an element of the container under the lock, or none.
LEMMA EntersInv ==
  ASSUME NEW t \in SyncThreads, NEW how \in {"op", "absent"}, NEW k, NEW e \in Nat,
         NEW locked \in BOOLEAN, SyncInv, mutex = Nobody, Enters(t, how, k, e, locked),
         how = "op" => locked /\ e \in Elements(map, seq)
  PROVE  SyncInv'
<1>1. /\ map' = map /\ seq' = seq /\ made' = made
      /\ pc' = [pc EXCEPT ![t] = how] /\ at' = [at EXCEPT ![t] = e]
      /\ self' = [self EXCEPT ![t] = FALSE]
      /\ mutex' = IF locked THEN t ELSE mutex
  BY DEF Enters
<1>2. \A u \in SyncThreads : pc[u] # "op"
  BY SyncAssumption DEF SyncInv, Locked, SyncAssumption
<1>3. SyncTypeOK'
  BY <1>1 DEF SyncInv, SyncTypeOK
<1>4. \A u \in SyncThreads : pc'[u] = "op" => u = t /\ how = "op"
  BY <1>1, <1>2 DEF SyncInv, SyncTypeOK
<1>5. Locked'
  BY <1>1, <1>4 DEF Locked
<1>6. at'[t] = e
  BY <1>1 DEF SyncInv, SyncTypeOK
<1>7. ElementStays'
  BY <1>1, <1>4, <1>6 DEF ElementStays, Elements
<1> QED
  BY <1>3, <1>5, <1>7 DEF SyncInv

\* The invariant holds of new containers and survives every step.
THEOREM SyncInvariance == SyncSpec => []SyncInv
<1>1. SyncInit => SyncInv
  BY DEF SyncInit, SyncInv, SyncTypeOK, Locked, ElementStays, NoElement, Nobody
<1>2. SyncInv /\ [SyncNext]_syncVars => SyncInv'
  <2> SUFFICES ASSUME SyncInv, [SyncNext]_syncVars PROVE SyncInv'
    OBVIOUS
  <2>0. made \in Nat /\ map \in [SyncKeys -> Nat] /\ seq \in Seq(Nat \ {NoElement})
    BY DEF SyncInv, SyncTypeOK
  <2>1. ASSUME NEW t \in SyncThreads, PushBack(t) PROVE SyncInv'
    <3>1. Append(seq, made + 1) \in Seq(Nat \ {NoElement})
      BY <2>0 DEF NoElement
    <3>2. made' \in Nat /\ Locks(t) /\ Becomes(t, map, Append(seq, made + 1))
      BY <2>0, <2>1 DEF PushBack
    <3> QED
      BY <2>0, <3>1, <3>2, BecomesInv
  <2>2. ASSUME NEW t \in SyncThreads, PushFront(t) PROVE SyncInv'
    <3>1. <<made + 1>> \o seq \in Seq(Nat \ {NoElement})
      <4>1. <<made + 1>> \in Seq(Nat \ {NoElement})
        BY <2>0 DEF NoElement
      <4> QED
        BY <4>1, <2>0, ConcatProperties
    <3>2. made' \in Nat /\ Locks(t) /\ Becomes(t, map, <<made + 1>> \o seq)
      BY <2>0, <2>2 DEF PushFront
    <3> QED
      BY <2>0, <3>1, <3>2, BecomesInv
  <2>3. ASSUME NEW t \in SyncThreads, ClearMap(t) PROVE SyncInv'
    <3>1. [k \in SyncKeys |-> NoElement] \in [SyncKeys -> Nat]
      BY DEF NoElement
    <3> QED
      BY <2>0, <2>3, <3>1, BecomesInv DEF ClearMap
  <2>4. ASSUME NEW t \in SyncThreads, ClearSeq(t) PROVE SyncInv'
    <3>1. <<>> \in Seq(Nat \ {NoElement})
      OBVIOUS
    <3> QED
      BY <2>0, <2>4, <3>1, BecomesInv DEF ClearSeq
  <2>5. ASSUME NEW t \in SyncThreads, Sort(t) PROVE SyncInv'
    <3>1. PICK i, j \in DOMAIN seq : Becomes(t, map, [seq EXCEPT ![i] = seq[j], ![j] = seq[i]])
      BY <2>5 DEF Sort
    <3>2. [seq EXCEPT ![i] = seq[j], ![j] = seq[i]] \in Seq(Nat \ {NoElement})
      <4>1. [seq EXCEPT ![i] = seq[j]] \in Seq(Nat \ {NoElement})
        BY <2>0, ExceptSeq
      <4> QED
        BY <4>1, <2>0, ExceptSeq
    <3> QED
      BY <2>0, <2>5, <3>1, <3>2, BecomesInv DEF Sort
  <2>6. ASSUME NEW t \in SyncThreads, Leaves(t) PROVE SyncInv'
    <3>1. SyncTypeOK'
      BY <2>6 DEF Leaves, SyncInv, SyncTypeOK, NoElement
    <3>2. \A u \in SyncThreads : pc'[u] = "op" => u # t /\ pc[u] = "op" /\ at'[u] = at[u] /\ self'[u] = self[u]
      BY <2>6 DEF Leaves, SyncInv, SyncTypeOK
    <3>3. Locked'
      BY <2>6, <3>2 DEF Leaves, SyncInv, Locked
    <3>4. ElementStays'
      BY <2>6, <3>2 DEF Leaves, SyncInv, ElementStays, Elements
    <3> QED
      BY <3>1, <3>3, <3>4 DEF SyncInv
  <2>7. ASSUME NEW t \in SyncThreads, NEW k \in SyncKeys, SyncInsert(t, k) PROVE SyncInv'
    <3>1. [map EXCEPT ![k] = made + 1] \in [SyncKeys -> Nat]
      BY <2>0
    <3> QED
      BY <2>0, <2>7, <3>1, BecomesInv DEF SyncInsert
  <2>8. ASSUME NEW t \in SyncThreads, NEW k \in SyncKeys, Erase(t, k) PROVE SyncInv'
    <3>1. [map EXCEPT ![k] = NoElement] \in [SyncKeys -> Nat]
      BY <2>0 DEF NoElement
    <3> QED
      BY <2>0, <2>8, <3>1, BecomesInv DEF Erase
  <2>9. ASSUME NEW t \in SyncThreads, NEW k \in SyncKeys, OpIf(t, k) PROVE SyncInv'
    <3>1. map[k] \in Elements(map, seq) /\ map[k] \in Nat
      BY <2>0, <2>9 DEF OpIf, Elements
    <3> QED
      BY <2>9, <3>1, EntersInv DEF OpIf
  <2>10. ASSUME NEW t \in SyncThreads, NEW k \in SyncKeys, NotIfOp(t, k) PROVE SyncInv'
    <3>1. mutex = Nobody /\ Enters(t, "absent", k, NoElement, FALSE) /\ NoElement \in Nat
      BY <2>10 DEF NotIfOp, NoElement
    <3> QED
      BY <3>1, EntersInv
  <2>11. ASSUME NEW t \in SyncThreads, NEW i \in DOMAIN seq, EraseFirst(t, i) PROVE SyncInv'
    <3>1. RemoveAt(seq, i) \in Seq(Nat \ {NoElement})
      BY <2>0, Removed
    <3> QED
      BY <2>0, <2>11, <3>1, BecomesInv DEF EraseFirst
  <2>12. ASSUME NEW t \in SyncThreads, NEW i \in DOMAIN seq, OpIfSeq(t, i) PROVE SyncInv'
    <3>1. seq[i] \in Nat \ {NoElement}
      BY <2>0
    <3>2. seq[i] \in Elements(map, seq)
      BY <3>1 DEF Elements, ToSet
    <3> QED
      BY <2>12, <3>1, <3>2, EntersInv DEF OpIfSeq
  <2>13. CASE UNCHANGED syncVars
    BY <2>13 DEF syncVars, SyncInv, SyncTypeOK, Locked, ElementStays, Elements
  <2> QED
    BY <2>1, <2>2, <2>3, <2>4, <2>5, <2>6, <2>7, <2>8, <2>9, <2>10, <2>11, <2>12, <2>13
    DEF SyncNext
<1> QED
  BY <1>1, <1>2, PTL DEF SyncSpec

\* The element an operation of op_if() or for_each() was given stays in the
\* container while the operation runs, for any threads, keys and calls.
THEOREM OperationKeepsElement == SyncSpec => []ElementStays
BY SyncInvariance, PTL DEF SyncInv

-----------------------------------------------------------------------------
(* The memory pools                                                        *)

Multiple(x) == x % Align = 0

\* Division with a remainder, and products.
LEMMA DivMod ==
  ASSUME NEW d \in Nat, NEW m \in Nat \ {0}
  PROVE  /\ d \div m \in Nat /\ d % m \in 0..(m - 1)
         /\ d = m * (d \div m) + (d % m)
OBVIOUS

LEMMA Products ==
  ASSUME NEW a \in Nat, NEW b \in Nat, NEW m \in Nat
  PROVE  /\ a * m \in Nat /\ a * m = m * a
         /\ (a + b) * m = a * m + b * m
         /\ a <= b => a * m <= b * m
OBVIOUS

\* A multiple of the alignment is one by a number.
LEMMA MultipleIs ==
  ASSUME NEW x \in Nat
  PROVE  Multiple(x) <=> \E k \in Nat : x = k * Align
<1>0. Align \in Nat \ {0}
  BY PoolAssumption DEF PoolAssumption
<1>1. ASSUME Multiple(x) PROVE \E k \in Nat : x = k * Align
  <2>1. x \div Align \in Nat /\ x = Align * (x \div Align) + (x % Align)
    BY <1>0, DivMod
  <2>2. x = Align * (x \div Align)
    BY <1>0, <1>1, <2>1 DEF Multiple
  <2>3. x = (x \div Align) * Align
    BY <1>0, <2>1, <2>2, Products
  <2> QED
    BY <2>1, <2>3
<1>2. ASSUME NEW k \in Nat, x = k * Align PROVE Multiple(x)
  BY <1>0, <1>2 DEF Multiple
<1> QED
  BY <1>1, <1>2

\* Sums, differences and multiples of multiples of the alignment.
LEMMA MultipleSum ==
  ASSUME NEW x \in Nat, NEW y \in Nat, Multiple(x), Multiple(y)
  PROVE  /\ Multiple(x + y)
         /\ y <= x => Multiple(x - y)
         /\ \A k \in Nat : Multiple(k * x)
<1>1. PICK j \in Nat : x = j * Align
  BY MultipleIs
<1>2. PICK k \in Nat : y = k * Align
  BY MultipleIs
<1>3. x + y = (j + k) * Align
  BY <1>1, <1>2, PoolAssumption DEF PoolAssumption
<1>4. y <= x => k <= j \/ x - y = 0 * Align
  BY <1>1, <1>2, PoolAssumption DEF PoolAssumption
<1>5. k <= j => x - y = (j - k) * Align
  BY <1>1, <1>2, PoolAssumption DEF PoolAssumption
<1>6. \A l \in Nat : l * x = (l * j) * Align
  BY <1>1, PoolAssumption DEF PoolAssumption
<1>7. \A l \in Nat : l * x \in Nat /\ l * j \in Nat
  BY PoolAssumption DEF PoolAssumption
<1>8. j + k \in Nat /\ (k <= j => j - k \in Nat)
  OBVIOUS
<1>9. Multiple(x + y)
  BY <1>3, <1>8, MultipleIs
<1>10. y <= x => Multiple(x - y)
  BY <1>4, <1>5, <1>8, MultipleIs
<1>11. \A l \in Nat : Multiple(l * x)
  BY <1>6, <1>7, MultipleIs
<1> QED
  BY <1>9, <1>10, <1>11

\* What ROUNDUP yields.
LEMMA Rounded ==
  ASSUME NEW n \in Nat
  PROVE  /\ RoundUp(n) \in Nat /\ Multiple(RoundUp(n))
         /\ n <= RoundUp(n) /\ RoundUp(n) < n + Align
         /\ (n + Align - 1) \div Align \in Nat
         /\ \A m \in Nat : n <= m /\ Multiple(m) => RoundUp(n) <= m
         /\ Multiple(n) => RoundUp(n) = n
<1> DEFINE q == (n + Align - 1) \div Align
           r == (n + Align - 1) % Align
<1>0. Align \in Nat \ {0} /\ n + Align - 1 \in Nat
  BY PoolAssumption DEF PoolAssumption
<1>1. q \in Nat /\ r \in 0..(Align - 1) /\ n + Align - 1 = Align * q + r
  BY <1>0, DivMod
<1> HIDE DEF q, r
<1>2. q * Align \in Nat /\ q * Align = Align * q
  BY <1>0, <1>1, Products
<1>3. RoundUp(n) = q * Align
  BY DEF RoundUp, q
<1>4. Multiple(q * Align)
  BY <1>1, <1>2, MultipleIs
<1>5. n <= q * Align /\ q * Align < n + Align
  BY <1>0, <1>1, <1>2
<1>6. ASSUME NEW m \in Nat, n <= m, Multiple(m) PROVE q * Align <= m
  <2>1. PICK k \in Nat : m = k * Align
    BY <1>6, MultipleIs
  <2>2. CASE q <= k
    BY <1>0, <1>1, <2>1, <2>2, Products
  <2>3. CASE k + 1 <= q
    <3>1. (k + 1) * Align <= q * Align
      BY <1>0, <1>1, <2>3, Products
    <3>2. (k + 1) * Align = k * Align + Align
      BY <1>0
    <3> QED
      BY <1>0, <1>2, <1>5, <1>6, <2>1, <3>1, <3>2
  <2> QED
    BY <1>1, <2>2, <2>3
<1>7. ASSUME Multiple(n) PROVE q * Align = n
  BY <1>2, <1>5, <1>6, <1>7
<1>8. q = (n + Align - 1) \div Align
  BY DEF q
<1> QED
  BY <1>1, <1>2, <1>3, <1>4, <1>5, <1>6, <1>7, <1>8

\* The index of the block an offset falls into.
LEMMA BlockOf ==
  ASSUME NEW d \in Nat, NEW m \in Nat \ {0}, NEW n \in Nat, d < n * m
  PROVE  \E k \in 0..(n - 1) : k * m <= d /\ d < k * m + m
<1>1. d \div m \in Nat /\ d % m \in 0..(m - 1) /\ d = m * (d \div m) + (d % m)
  BY DivMod
<1> DEFINE k == d \div m
<1>2. k * m = m * k /\ k * m \in Nat
  BY <1>1, Products
<1>3. k * m <= d /\ d < k * m + m
  BY <1>1, <1>2
<1>4. k < n
  <2> SUFFICES ASSUME n <= k PROVE FALSE
    BY <1>1
  <2>1. n * m <= k * m
    BY <1>1, Products
  <2> QED
    BY <1>2, <1>3, <2>1
<1>5. k \in 0..(n - 1)
  BY <1>1, <1>4
<1> QED
  BY <1>3, <1>5
-----------------------------------------------------------------------------

\* A division of memory: blocks U, each an address and a list, of the sizes sz; the
\* rest s..e - 1 of the current chunk; chunks C below w.  Blocks and the rest are
\* apart, each lies in one chunk at a multiple of the alignment, and a chunk has no
\* byte outside of them, or is not the one with the rest and has at most g of them,
\* which are consecutive.
Apart(a, m, b, n) == a + m <= b \/ b + n <= a
Holds(sz, U, a) == \E p \in U : p[1] <= a /\ a < p[1] + sz[p[2]]

BlocksApart(sz, U, s, e) ==
  /\ \A p, q \in U : p # q => Apart(p[1], sz[p[2]], q[1], sz[q[2]])
  /\ \A p \in U : Apart(p[1], sz[p[2]], s, e - s)

BlocksInside(sz, U, s, e, C) ==
  /\ \A p \in U : \E c \in C :
       c.at <= p[1] /\ p[1] + sz[p[2]] <= c.at + c.size /\ Multiple(p[1] - c.at)
  /\ s < e => \E c \in C :
       c.at <= s /\ e <= c.at + c.size /\ Multiple(s - c.at) /\ Multiple(e - s)

ChunkCovered(sz, U, s, e, c) ==
  \A a \in c.at..(c.at + c.size - 1) : Holds(sz, U, a) \/ (s <= a /\ a < e)
ChunkGap(sz, U, s, e, c, w, g) ==
  /\ \A a \in c.at..(c.at + c.size - 1) : a < s \/ e <= a
  /\ \E v \in 0..w : \A a \in c.at..(c.at + c.size - 1) : Holds(sz, U, a) \/ (v <= a /\ a < v + g)
ChunksUsed(sz, U, s, e, C, w, g) ==
  \A c \in C : ChunkCovered(sz, U, s, e, c) \/ ChunkGap(sz, U, s, e, c, w, g)

Division(sz, U, s, e, C, w, g) ==
  /\ U \subseteq Nat \X Indices /\ s \in Nat /\ e \in Nat /\ s <= e /\ e <= w /\ w \in Nat /\ g \in Nat
  /\ \A c \in C : c.at \in Nat /\ c.size \in Nat /\ c.at + c.size <= w
  /\ BlocksApart(sz, U, s, e)
  /\ BlocksInside(sz, U, s, e, C)
  /\ ChunksUsed(sz, U, s, e, C, w, g)

\* Every list has blocks of some multiple of the alignment.
SizesOK(sz) == \A i \in Indices : sz[i] \in Nat \ {0} /\ Multiple(sz[i])

\* Filing the rest of a chunk as a block, or giving it up when it is no more than
\* the loss allowed, leaves a division with nothing to cut from.
LEMMA RestFiled ==
  ASSUME NEW sz, NEW U, NEW s, NEW e, NEW C, NEW w, NEW g, SizesOK(sz),
         Division(sz, U, s, e, C, w, g),
         NEW V, \/ V = U /\ e - s <= g
                \/ s < e /\ \E i \in Indices : sz[i] = e - s /\ V = U \cup {<<s, i>>}
  PROVE  Division(sz, V, 0, 0, C, w, g)
<1>0. /\ U \subseteq Nat \X Indices /\ s \in Nat /\ e \in Nat /\ s <= e /\ e <= w /\ w \in Nat /\ g \in Nat
      /\ \A c \in C : c.at \in Nat /\ c.size \in Nat /\ c.at + c.size <= w
      /\ \A p \in U : p[1] \in Nat /\ p[2] \in Indices /\ sz[p[2]] \in Nat
  BY DEF Division, SizesOK
<1>a. /\ \A p, q \in U : p # q => Apart(p[1], sz[p[2]], q[1], sz[q[2]])
      /\ \A p \in U : Apart(p[1], sz[p[2]], s, e - s)
  BY DEF Division, BlocksApart
<1>b. /\ \A p \in U : \E c \in C :
           c.at <= p[1] /\ p[1] + sz[p[2]] <= c.at + c.size /\ Multiple(p[1] - c.at)
      /\ s < e => \E c \in C :
           c.at <= s /\ e <= c.at + c.size /\ Multiple(s - c.at) /\ Multiple(e - s)
  BY DEF Division, BlocksInside
<1>c. \A c \in C : ChunkCovered(sz, U, s, e, c) \/ ChunkGap(sz, U, s, e, c, w, g)
  BY DEF Division, ChunksUsed
<1>1. CASE V = U /\ e - s <= g
  <2>1. BlocksApart(sz, V, 0, 0)
    BY <1>0, <1>a, <1>1 DEF BlocksApart, Apart
  <2>2. BlocksInside(sz, V, 0, 0, C)
    BY <1>b, <1>1 DEF BlocksInside
  <2>3. ASSUME NEW c \in C PROVE ChunkCovered(sz, V, 0, 0, c) \/ ChunkGap(sz, V, 0, 0, c, w, g)
    <3>1. \A a \in c.at..(c.at + c.size - 1) : a < 0 \/ 0 <= a
      BY <1>0
    <3>2. CASE ChunkCovered(sz, U, s, e, c)
      <4>1. \A a \in c.at..(c.at + c.size - 1) : Holds(sz, V, a) \/ (s <= a /\ a < s + g)
        BY <1>0, <1>1, <3>2 DEF ChunkCovered
      <4>2. s \in 0..w
        BY <1>0
      <4> QED
        BY <3>1, <4>1, <4>2 DEF ChunkGap
    <3>3. CASE ChunkGap(sz, U, s, e, c, w, g)
      BY <1>1, <3>1, <3>3 DEF ChunkGap
    <3> QED
      BY <1>c, <3>2, <3>3
  <2> QED
    BY <1>0, <1>1, <2>1, <2>2, <2>3 DEF Division, ChunksUsed
<1>2. ASSUME s < e, NEW i \in Indices, sz[i] = e - s, V = U \cup {<<s, i>>}
      PROVE  Division(sz, V, 0, 0, C, w, g)
  <2> DEFINE n == <<s, i>>
  <2>1. n[1] = s /\ n[2] = i /\ V = U \cup {n}
    BY <1>2
  <2> HIDE DEF n
  <2>2. BlocksApart(sz, V, 0, 0)
    <3>1. ASSUME NEW p \in V, NEW q \in V, p # q PROVE Apart(p[1], sz[p[2]], q[1], sz[q[2]])
      <4>1. CASE p \in U /\ q \in U
        BY <1>a, <3>1, <4>1
      <4>2. CASE p \in U /\ q = n
        BY <1>a, <1>2, <2>1, <4>2
      <4>3. CASE p = n /\ q \in U
        BY <1>0, <1>a, <1>2, <2>1, <4>3 DEF Apart
      <4> QED
        BY <2>1, <3>1, <4>1, <4>2, <4>3
    <3>2. ASSUME NEW p \in V PROVE Apart(p[1], sz[p[2]], 0, 0 - 0)
      BY <1>0, <1>2, <2>1 DEF Apart
    <3> QED
      BY <3>1, <3>2 DEF BlocksApart
  <2>3. BlocksInside(sz, V, 0, 0, C)
    <3>1. ASSUME NEW p \in V
          PROVE  \E c \in C : c.at <= p[1] /\ p[1] + sz[p[2]] <= c.at + c.size /\ Multiple(p[1] - c.at)
      <4>1. CASE p \in U
        BY <1>b, <4>1
      <4>2. CASE p = n
        BY <1>0, <1>b, <1>2, <2>1, <4>2
      <4> QED
        BY <2>1, <4>1, <4>2
    <3> QED
      BY <3>1 DEF BlocksInside
  <2>4. \A a \in Int : Holds(sz, U, a) \/ (s <= a /\ a < e) => Holds(sz, V, a)
    BY <1>0, <1>2, <2>1 DEF Holds
  <2>5. ASSUME NEW c \in C PROVE ChunkCovered(sz, V, 0, 0, c) \/ ChunkGap(sz, V, 0, 0, c, w, g)
    <3>0. c.at \in Nat /\ c.size \in Nat /\ c.at..(c.at + c.size - 1) \subseteq Int
      BY <1>0
    <3>1. CASE ChunkCovered(sz, U, s, e, c)
      BY <2>4, <3>0, <3>1 DEF ChunkCovered
    <3>2. CASE ChunkGap(sz, U, s, e, c, w, g)
      <4>1. \A a \in c.at..(c.at + c.size - 1) : a < 0 \/ 0 <= a
        BY <3>0
      <4>2. PICK v \in 0..w : \A a \in c.at..(c.at + c.size - 1) : Holds(sz, U, a) \/ (v <= a /\ a < v + g)
        BY <3>2 DEF ChunkGap
      <4>3. \A a \in c.at..(c.at + c.size - 1) : Holds(sz, V, a) \/ (v <= a /\ a < v + g)
        BY <2>4, <3>0, <4>2
      <4> QED
        BY <4>1, <4>3 DEF ChunkGap
    <3> QED
      BY <1>c, <3>1, <3>2
  <2>6. V \subseteq Nat \X Indices
    BY <1>0, <1>2
  <2> QED
    BY <1>0, <2>2, <2>3, <2>5, <2>6 DEF Division, ChunksUsed
<1> QED
  BY <1>1, <1>2

\* A new chunk behind everything the system has given is all rest.
LEMMA ChunkAdded ==
  ASSUME NEW sz, NEW U, NEW C, NEW w, NEW g, SizesOK(sz),
         Division(sz, U, 0, 0, C, w, g),
         NEW get \in Nat, Multiple(get)
  PROVE  Division(sz, U, w, w + get, C \cup {[at |-> w, size |-> get]}, w + get + Align, g)
<1> DEFINE n == [at |-> w, size |-> get]
           D == C \cup {n}
           x == w + get + Align
<1>0. /\ U \subseteq Nat \X Indices /\ w \in Nat /\ g \in Nat
      /\ \A c \in C : c.at \in Nat /\ c.size \in Nat /\ c.at + c.size <= w
      /\ \A p \in U : p[1] \in Nat /\ p[2] \in Indices /\ sz[p[2]] \in Nat
  BY DEF Division, SizesOK
<1>a. \A p, q \in U : p # q => Apart(p[1], sz[p[2]], q[1], sz[q[2]])
  BY DEF Division, BlocksApart
<1>b. \A p \in U : \E c \in C :
           c.at <= p[1] /\ p[1] + sz[p[2]] <= c.at + c.size /\ Multiple(p[1] - c.at)
  BY DEF Division, BlocksInside
<1>c. \A c \in C : ChunkCovered(sz, U, 0, 0, c) \/ ChunkGap(sz, U, 0, 0, c, w, g)
  BY DEF Division, ChunksUsed
<1>1. n.at = w /\ n.size = get /\ n \in D /\ C \subseteq D /\ \A c \in D : c \in C \/ c = n
  OBVIOUS
<1>2. x \in Nat /\ w <= x /\ w + get <= x /\ w + get \in Nat
  BY <1>0, PoolAssumption DEF PoolAssumption
<1> HIDE DEF n, D, x
<1>3. BlocksApart(sz, U, w, w + get)
  <2>1. ASSUME NEW p \in U PROVE Apart(p[1], sz[p[2]], w, (w + get) - w)
    BY <1>0, <1>b DEF Apart
  <2> QED
    BY <1>a, <2>1 DEF BlocksApart
<1>4. BlocksInside(sz, U, w, w + get, D)
  <2>1. \A p \in U : \E c \in D :
           c.at <= p[1] /\ p[1] + sz[p[2]] <= c.at + c.size /\ Multiple(p[1] - c.at)
    BY <1>b, <1>1
  <2>2. Multiple(0) /\ w - w = 0 /\ (w + get) - w = get
    BY <1>0, PoolAssumption DEF Multiple, PoolAssumption
  <2>3. n.at <= w /\ w + get <= n.at + n.size /\ Multiple(w - n.at) /\ Multiple((w + get) - w)
    BY <1>0, <1>1, <2>2
  <2> QED
    BY <1>1, <2>1, <2>3 DEF BlocksInside
<1>5. ASSUME NEW c \in D PROVE ChunkCovered(sz, U, w, w + get, c) \/ ChunkGap(sz, U, w, w + get, c, x, g)
  <2>1. CASE c = n
    BY <1>0, <1>1, <2>1 DEF ChunkCovered
  <2>2. CASE c \in C /\ ChunkCovered(sz, U, 0, 0, c)
    BY <1>0, <2>2 DEF ChunkCovered
  <2>3. CASE c \in C /\ ChunkGap(sz, U, 0, 0, c, w, g)
    <3>1. \A a \in c.at..(c.at + c.size - 1) : a < w \/ w + get <= a
      BY <1>0, <2>3
    <3>2. 0..w \subseteq 0..x
      BY <1>0, <1>2
    <3> QED
      BY <2>3, <3>1, <3>2 DEF ChunkGap
  <2> QED
    BY <1>c, <1>1, <2>1, <2>2, <2>3
<1>6. \A c \in D : c.at \in Nat /\ c.size \in Nat /\ c.at + c.size <= x
  <2>1. ASSUME NEW c \in C PROVE c.at \in Nat /\ c.size \in Nat /\ c.at + c.size <= x
    BY <1>0, <1>2
  <2> QED
    BY <1>0, <1>1, <1>2, <2>1
<1>7. Division(sz, U, w, w + get, D, x, g)
  BY <1>0, <1>2, <1>3, <1>4, <1>5, <1>6 DEF Division, ChunksUsed
<1> QED
  BY <1>7 DEF D, n, x

\* Cutting blocks of one size from the front of the rest.
LEMMA BlocksCut ==
  ASSUME NEW sz, NEW U, NEW s, NEW e, NEW C, NEW w, NEW g, SizesOK(sz),
         Division(sz, U, s, e, C, w, g),
         NEW i \in Indices, NEW count \in Nat, count * sz[i] <= e - s
  PROVE  Division(sz, U \cup {<<s + k * sz[i], i>> : k \in 0..(count - 1)}, s + count * sz[i], e, C, w, g)
<1>0. /\ U \subseteq Nat \X Indices /\ s \in Nat /\ e \in Nat /\ s <= e /\ e <= w /\ w \in Nat /\ g \in Nat
      /\ \A c \in C : c.at \in Nat /\ c.size \in Nat /\ c.at + c.size <= w
      /\ \A p \in U : p[1] \in Nat /\ p[2] \in Indices /\ sz[p[2]] \in Nat
  BY DEF Division, SizesOK
<1>a. /\ \A p, q \in U : p # q => Apart(p[1], sz[p[2]], q[1], sz[q[2]])
      /\ \A p \in U : Apart(p[1], sz[p[2]], s, e - s)
  BY DEF Division, BlocksApart
<1>b. /\ \A p \in U : \E c \in C :
           c.at <= p[1] /\ p[1] + sz[p[2]] <= c.at + c.size /\ Multiple(p[1] - c.at)
      /\ s < e => \E c \in C :
           c.at <= s /\ e <= c.at + c.size /\ Multiple(s - c.at) /\ Multiple(e - s)
  BY DEF Division, BlocksInside
<1>c. \A c \in C : ChunkCovered(sz, U, s, e, c) \/ ChunkGap(sz, U, s, e, c, w, g)
  BY DEF Division, ChunksUsed
<1> DEFINE m == sz[i]
           N == {<<s + k * m, i>> : k \in 0..(count - 1)}
           V == U \cup N
           t == s + count * m
<1>m. m \in Nat \ {0} /\ Multiple(m)
  BY DEF SizesOK
<1> HIDE DEF m
<1>o. ASSUME NEW k \in Nat, NEW l \in Nat, k + 1 <= l PROVE k * m + m <= l * m
  <2>1. k + 1 \in Nat /\ (k + 1) * m <= l * m
    BY <1>m, <1>o, Products
  <2>2. (k + 1) * m = k * m + m
    BY <1>m
  <2> QED
    BY <2>1, <2>2
<1>k. ASSUME NEW k \in 0..(count - 1)
      PROVE  k \in Nat /\ k * m \in Nat /\ s + k * m \in Nat /\ s + k * m + m <= t
  <2>1. k \in Nat /\ k + 1 \in Nat /\ k + 1 <= count
    OBVIOUS
  <2>2. k * m \in Nat /\ (k + 1) * m <= count * m
    BY <1>m, <2>1, Products
  <2>3. (k + 1) * m = k * m + m
    BY <1>m, <2>1
  <2>4. count * m \in Nat
    BY <1>m, Products
  <2> QED
    BY <1>0, <1>m, <2>1, <2>2, <2>3, <2>4
<1>t. t \in Nat /\ s <= t /\ t <= e
  <2>1. count * m \in Nat
    BY <1>m, Products
  <2>2. count * m <= e - s
    BY DEF m
  <2> QED
    BY <1>0, <2>1, <2>2
<1>n. ASSUME NEW p \in N
      PROVE  \E k \in 0..(count - 1) : p = <<s + k * m, i>> /\ p[1] = s + k * m /\ p[2] = i /\ sz[p[2]] = m
  BY DEF m
<1>s. ASSUME NEW p \in N
      PROVE  p[1] \in Nat /\ sz[p[2]] = m /\ s <= p[1] /\ p[1] + m <= t /\ p \in Nat \X Indices
  <2>1. PICK k \in 0..(count - 1) : p = <<s + k * m, i>> /\ p[1] = s + k * m /\ sz[p[2]] = m
    BY <1>n
  <2>2. k * m \in Nat /\ s + k * m \in Nat /\ s + k * m + m <= t
    BY <1>k
  <2> HIDE DEF t
  <2> QED
    BY <1>0, <2>1, <2>2
<1> HIDE DEF t
<1>1. BlocksApart(sz, V, t, e)
  <2>1. ASSUME NEW p \in V, NEW q \in V, p # q PROVE Apart(p[1], sz[p[2]], q[1], sz[q[2]])
    <3>1. CASE p \in U /\ q \in U
      BY <1>a, <2>1, <3>1
    <3>2. CASE p \in U /\ q \in N
      BY <1>0, <1>a, <1>m, <1>s, <1>t, <3>2 DEF Apart
    <3>3. CASE p \in N /\ q \in U
      <4>1. p[1] \in Nat /\ sz[p[2]] = m /\ s <= p[1] /\ p[1] + m <= t
        BY <1>s, <3>3
      <4>2. q[1] \in Nat /\ sz[q[2]] \in Nat /\ (q[1] + sz[q[2]] <= s \/ s + (e - s) <= q[1])
        BY <1>0, <1>a, <3>3 DEF Apart
      <4> QED
        BY <1>0, <1>m, <1>t, <4>1, <4>2 DEF Apart
    <3>4. CASE p \in N /\ q \in N
      <4>1. PICK k \in 0..(count - 1) : p = <<s + k * m, i>> /\ p[1] = s + k * m /\ sz[p[2]] = m
        BY <1>n, <3>4
      <4>2. PICK l \in 0..(count - 1) : q = <<s + l * m, i>> /\ q[1] = s + l * m /\ sz[q[2]] = m
        BY <1>n, <3>4
      <4>3. k # l
        BY <2>1, <4>1, <4>2
      <4>4. k \in Nat /\ l \in Nat /\ k * m \in Nat /\ l * m \in Nat
        BY <1>k
      <4>5. CASE k + 1 <= l
        <5>1. k * m + m <= l * m
          BY <1>o, <4>4, <4>5
        <5> QED
          BY <1>0, <1>m, <4>1, <4>2, <4>4, <5>1 DEF Apart
      <4>6. CASE l + 1 <= k
        <5>1. l * m + m <= k * m
          BY <1>o, <4>4, <4>6
        <5> QED
          BY <1>0, <1>m, <4>1, <4>2, <4>4, <5>1 DEF Apart
      <4> QED
        BY <4>3, <4>4, <4>5, <4>6
    <3> QED
      BY <3>1, <3>2, <3>3, <3>4
  <2>2. ASSUME NEW p \in V PROVE Apart(p[1], sz[p[2]], t, e - t)
    <3>1. CASE p \in U
      BY <1>0, <1>a, <1>t, <3>1 DEF Apart
    <3>2. CASE p \in N
      BY <1>m, <1>s, <3>2 DEF Apart
    <3> QED
      BY <3>1, <3>2
  <2> QED
    BY <2>1, <2>2 DEF BlocksApart
<1>2. BlocksInside(sz, V, t, e, C)
  <2>1. ASSUME NEW p \in V
        PROVE  \E c \in C : c.at <= p[1] /\ p[1] + sz[p[2]] <= c.at + c.size /\ Multiple(p[1] - c.at)
    <3>1. CASE p \in U
      BY <1>b, <3>1
    <3>2. CASE p \in N
      <4>1. PICK k \in 0..(count - 1) : p[1] = s + k * m /\ sz[p[2]] = m
        BY <1>n, <3>2
      <4>2. k \in Nat /\ k * m \in Nat /\ p[1] \in Nat /\ s <= p[1] /\ p[1] + m <= t
        BY <1>k, <1>s, <3>2
      <4>3. PICK c \in C : c.at <= s /\ e <= c.at + c.size /\ Multiple(s - c.at)
        BY <1>0, <1>b, <1>m, <1>t, <4>2
      <4>4. Multiple(k * m)
        BY <1>m, <4>2, MultipleSum
      <4>5. s - c.at \in Nat
        BY <1>0, <4>3
      <4>6. Multiple((s - c.at) + k * m)
        BY <4>2, <4>3, <4>4, <4>5, MultipleSum
      <4>7. p[1] - c.at = (s - c.at) + k * m
        BY <1>0, <4>1, <4>2
      <4>8. c.at <= p[1] /\ p[1] + sz[p[2]] <= c.at + c.size
        BY <1>0, <1>m, <1>t, <4>1, <4>2, <4>3
      <4> QED
        BY <4>6, <4>7, <4>8
    <3> QED
      BY <3>1, <3>2
  <2>2. ASSUME t < e
        PROVE  \E c \in C : c.at <= t /\ e <= c.at + c.size /\ Multiple(t - c.at) /\ Multiple(e - t)
    <3>1. PICK c \in C : c.at <= s /\ e <= c.at + c.size /\ Multiple(s - c.at) /\ Multiple(e - s)
      BY <1>0, <1>b, <1>t, <2>2
    <3>2. count * m \in Nat /\ t = s + count * m
      BY <1>m, Products DEF t
    <3>3. Multiple(count * m)
      BY <1>m, MultipleSum
    <3>4. s - c.at \in Nat /\ e - s \in Nat /\ count * m <= e - s
      BY <1>0, <1>t, <3>1, <3>2
    <3>5. Multiple((s - c.at) + count * m)
      BY <3>1, <3>2, <3>3, <3>4, MultipleSum
    <3>6. Multiple((e - s) - count * m)
      BY <3>1, <3>2, <3>3, <3>4, MultipleSum
    <3>7. t - c.at = (s - c.at) + count * m /\ e - t = (e - s) - count * m
      BY <1>0, <3>2
    <3>8. c.at <= t
      BY <1>0, <1>t, <3>1
    <3> QED
      BY <3>1, <3>5, <3>6, <3>7, <3>8
  <2> QED
    BY <2>1, <2>2 DEF BlocksInside
<1>3. \A a \in Int : Holds(sz, U, a) \/ (s <= a /\ a < t) => Holds(sz, V, a)
  <2> SUFFICES ASSUME NEW a \in Int, s <= a, a < t PROVE Holds(sz, V, a)
    BY DEF Holds
  <2>1. a - s \in Nat /\ a - s < count * m /\ count * m \in Nat
    BY <1>0, <1>m, Products DEF t
  <2>2. PICK k \in 0..(count - 1) : k * m <= a - s /\ a - s < k * m + m
    BY <1>m, <2>1, BlockOf
  <2>3. k * m \in Nat
    BY <1>k
  <2>4. s + k * m <= a /\ a < s + k * m + m
    BY <1>0, <1>m, <2>2, <2>3
  <2> DEFINE p == <<s + k * m, i>>
  <2>5. p \in V /\ p[1] = s + k * m /\ sz[p[2]] = m
    BY DEF m
  <2> QED
    BY <2>4, <2>5 DEF Holds
<1>4. ASSUME NEW c \in C PROVE ChunkCovered(sz, V, t, e, c) \/ ChunkGap(sz, V, t, e, c, w, g)
  <2>0. c.at \in Nat /\ c.size \in Nat /\ c.at..(c.at + c.size - 1) \subseteq Int
    BY <1>0
  <2>1. CASE ChunkCovered(sz, U, s, e, c)
    <3> SUFFICES ASSUME NEW a \in c.at..(c.at + c.size - 1) PROVE Holds(sz, V, a) \/ (t <= a /\ a < e)
      BY DEF ChunkCovered
    <3>1. Holds(sz, U, a) \/ (s <= a /\ a < e)
      BY <2>1 DEF ChunkCovered
    <3> QED
      BY <1>3, <1>t, <2>0, <3>1
  <2>2. CASE ChunkGap(sz, U, s, e, c, w, g)
    <3>1. \A a \in c.at..(c.at + c.size - 1) : a < t \/ e <= a
      BY <1>0, <1>t, <2>0, <2>2 DEF ChunkGap
    <3>2. PICK v \in 0..w : \A a \in c.at..(c.at + c.size - 1) : Holds(sz, U, a) \/ (v <= a /\ a < v + g)
      BY <2>2 DEF ChunkGap
    <3>3. \A a \in c.at..(c.at + c.size - 1) : Holds(sz, V, a) \/ (v <= a /\ a < v + g)
      BY <1>3, <2>0, <3>2
    <3> QED
      BY <3>1, <3>3 DEF ChunkGap
  <2> QED
    BY <1>c, <2>1, <2>2
<1>5. V \subseteq Nat \X Indices
  BY <1>0, <1>s
<1>6. Division(sz, V, t, e, C, w, g)
  <2> HIDE DEF V
  <2> QED
    BY <1>0, <1>t, <1>1, <1>2, <1>4, <1>5 DEF Division, ChunksUsed
<1> QED
  BY <1>6 DEF m, t

\* The same with the results named.
LEMMA BlocksCutTo ==
  ASSUME NEW sz, NEW U, NEW s, NEW e, NEW C, NEW w, NEW g, SizesOK(sz),
         Division(sz, U, s, e, C, w, g),
         NEW i \in Indices, NEW count \in Nat, count * sz[i] <= e - s,
         NEW V, V = U \cup {<<s + k * sz[i], i>> : k \in 0..(count - 1)},
         NEW t, t = s + count * sz[i]
  PROVE  Division(sz, V, t, e, C, w, g)
BY BlocksCut

-----------------------------------------------------------------------------

\* The blocks of the pool: the size of a block in each list, the blocks callers
\* have and those in the free lists, each with its address and its list, and how
\* many bytes of a chunk may be in neither.
BlockSizes == [i \in Indices |-> ListSize(i)]
UsedBlocks == {<<b.at, ListIndex(b.n)>> : b \in live}
FreeOf(ls) == UNION {{<<x, i>> : x \in ToSet(ls[i])} : i \in Indices}
FreeBlocks == FreeOf(lists)
Gap == IF kind = "fixed" THEN RoundUp(MaxBytes) - 1 ELSE 0

\* No list has an address twice.
ListsOK(ls) ==
  /\ ls \in [Indices -> Seq(Nat)]
  /\ \A i \in Indices : \A j, k \in 1..Len(ls[i]) : ls[i][j] = ls[i][k] => j = k

PoolTypeOK ==
  /\ kind \in {"sgi", "fixed"} /\ heapSize \in Nat
  /\ live \subseteq [at : Nat, n : Requests]

\* The inductive invariant of the pools.
PoolInv ==
  /\ PoolTypeOK /\ ListsOK(lists)
  /\ Division(BlockSizes, UsedBlocks \cup FreeBlocks, start, end, chunks, brk, Gap)
  /\ UsedBlocks \cap FreeBlocks = {}
  /\ \A b, c \in live : b.at = c.at => b = c

\* A request's list has blocks of the request's size, rounded.
LEMMA SizeFacts ==
  ASSUME PoolTypeOK
  PROVE  /\ SizesOK(BlockSizes) /\ Gap \in Nat
         /\ \A n \in 1..MaxBytes :
              /\ ListIndex(n) \in Indices /\ BlockSizes[ListIndex(n)] = BlockSize(n)
              /\ BlockSize(n) \in Nat \ {0} /\ Multiple(BlockSize(n)) /\ BlockSize(n) <= MaxBytes
              /\ kind = "sgi" => BlockSize(n) = RoundUp(n)
         /\ Requests \subseteq 1..MaxBytes /\ RoundUp(MaxBytes) = MaxBytes
         /\ kind = "fixed" => \A n \in 1..MaxBytes : Gap = BlockSize(n) - 1
<1>0. /\ Align \in Nat \ {0} /\ MaxBytes \in Nat \ {0} /\ Multiple(MaxBytes) /\ Requests \subseteq 1..MaxBytes
      /\ kind \in {"sgi", "fixed"}
  BY PoolAssumption DEF PoolAssumption, Multiple, PoolTypeOK
<1>1. RoundUp(MaxBytes) = MaxBytes
  BY <1>0, Rounded
<1> DEFINE top == MaxBytes \div Align
<1>2. top \in Nat /\ MaxBytes = Align * top
  <2>1. top \in Nat /\ MaxBytes = Align * top + (MaxBytes % Align)
    BY <1>0, DivMod
  <2> HIDE DEF top
  <2>2. Align * top \in Nat
    BY <1>0, <2>1, Products
  <2> QED
    BY <1>0, <2>1, <2>2 DEF Multiple
<1>3. Indices = 0..(top - 1)
  BY DEF Indices
<1> HIDE DEF top
<1>4. top > 0
  BY <1>0, <1>2
<1>5. 0 \in Indices
  BY <1>2, <1>3, <1>4
<1>6. Multiple(Align)
  BY <1>0 DEF Multiple
<1>7. ASSUME NEW i \in Indices
      PROVE  BlockSizes[i] = ListSize(i) /\ BlockSizes[i] \in Nat \ {0} /\ Multiple(BlockSizes[i])
  <2>1. BlockSizes[i] = ListSize(i)
    BY DEF BlockSizes
  <2>2. CASE kind = "fixed"
    BY <1>0, <1>1, <2>1, <2>2 DEF ListSize
  <2>3. CASE kind = "sgi"
    <3>1. i + 1 \in Nat /\ i + 1 > 0
      BY <1>2, <1>3
    <3>2. (i + 1) * Align \in Nat \ {0}
      BY <1>0, <3>1
    <3>3. Multiple((i + 1) * Align)
      BY <1>0, <1>6, <3>1, MultipleSum
    <3> QED
      BY <2>1, <2>3, <3>2, <3>3 DEF ListSize
  <2> QED
    BY <1>0, <2>1, <2>2, <2>3
<1>8. ASSUME NEW n \in 1..MaxBytes
      PROVE  /\ ListIndex(n) \in Indices /\ BlockSizes[ListIndex(n)] = BlockSize(n)
             /\ BlockSize(n) \in Nat \ {0} /\ Multiple(BlockSize(n)) /\ BlockSize(n) <= MaxBytes
             /\ kind = "sgi" => BlockSize(n) = RoundUp(n)
             /\ kind = "fixed" => BlockSize(n) = MaxBytes
  <2>1. CASE kind = "fixed"
    <3>1. ListIndex(n) = 0 /\ BlockSize(n) = MaxBytes
      BY <1>1, <2>1 DEF ListIndex, BlockSize
    <3>2. BlockSizes[0] = MaxBytes
      BY <1>1, <1>5, <2>1 DEF BlockSizes, ListSize
    <3> QED
      BY <1>0, <1>5, <2>1, <3>1, <3>2
  <2>2. CASE kind = "sgi"
    <3> DEFINE q == (n + Align - 1) \div Align
    <3>1. q \in Nat /\ RoundUp(n) \in Nat /\ Multiple(RoundUp(n)) /\ n <= RoundUp(n) /\ RoundUp(n) <= MaxBytes
      BY <1>0, Rounded
    <3>2. RoundUp(n) = q * Align /\ BlockSize(n) = RoundUp(n) /\ ListIndex(n) = q - 1
      BY <2>2 DEF RoundUp, BlockSize, ListIndex
    <3> HIDE DEF q
    <3>3. q > 0
      BY <1>0, <3>1, <3>2
    <3>4. q <= top
      <4> SUFFICES ASSUME top + 1 <= q PROVE FALSE
        BY <1>2, <3>1
      <4>1. (top + 1) * Align <= q * Align
        BY <1>0, <1>2, <3>1, Products
      <4>2. (top + 1) * Align = Align * top + Align
        BY <1>0, <1>2
      <4> QED
        BY <1>0, <1>2, <3>1, <3>2, <4>1, <4>2
    <3>5. q - 1 \in Indices /\ (q - 1) + 1 = q
      BY <1>2, <1>3, <3>1, <3>3, <3>4
    <3>6. BlockSizes[q - 1] = q * Align
      BY <2>2, <3>5 DEF BlockSizes, ListSize
    <3> QED
      BY <1>0, <2>2, <3>1, <3>2, <3>5, <3>6
  <2> QED
    BY <1>0, <2>1, <2>2
<1>9. Gap \in Nat /\ (kind = "fixed" => Gap = MaxBytes - 1)
  BY <1>0, <1>1 DEF Gap
<1> QED
  BY <1>0, <1>1, <1>7, <1>8, <1>9 DEF SizesOK

\* Two blocks of a division do not begin at one address, and none begins in the rest.
LEMMA OneAtAddress ==
  ASSUME NEW sz, NEW U, NEW s, NEW e, NEW C, NEW w, NEW g, SizesOK(sz), Division(sz, U, s, e, C, w, g)
  PROVE  /\ \A p, q \in U : p[1] = q[1] => p = q
         /\ \A p \in U : ~(s <= p[1] /\ p[1] < e)
         /\ \A p \in U : p[1] < w
<1>0. /\ \A p \in U : p[1] \in Nat /\ p[2] \in Indices /\ sz[p[2]] \in Nat \ {0}
      /\ s \in Nat /\ e \in Nat /\ w \in Nat
      /\ \A c \in C : c.at \in Nat /\ c.size \in Nat /\ c.at + c.size <= w
  BY DEF Division, SizesOK
<1>1. \A p, q \in U : p[1] = q[1] => p = q
  BY <1>0 DEF Division, BlocksApart, Apart
<1>2. \A p \in U : ~(s <= p[1] /\ p[1] < e)
  BY <1>0 DEF Division, BlocksApart, Apart
<1>3. \A p \in U : p[1] < w
  BY <1>0 DEF Division, BlocksInside
<1> QED
  BY <1>1, <1>2, <1>3

\* A block is in the free lists when its address is in its list.
LEMMA FreeIs ==
  ASSUME NEW ls
  PROVE  /\ \A x, i : <<x, i>> \in FreeOf(ls) <=> i \in Indices /\ x \in ToSet(ls[i])
         /\ \A p \in FreeOf(ls) : p = <<p[1], p[2]>>
BY DEF FreeOf

\* What the changes of a free list do to the blocks in it.
LEMMA FreePopped ==
  ASSUME NEW ls, ListsOK(ls), NEW i \in Indices, ls[i] # <<>>
  PROVE  LET l == [ls EXCEPT ![i] = Tail(@)] IN
         /\ ListsOK(l) /\ <<Head(ls[i]), i>> \in FreeOf(ls) /\ Head(ls[i]) \in Nat
         /\ FreeOf(l) = FreeOf(ls) \ {<<Head(ls[i]), i>>}
<1> DEFINE l == [ls EXCEPT ![i] = Tail(@)]
           h == Head(ls[i])
<1>0. ls \in [Indices -> Seq(Nat)] /\ ls[i] \in Seq(Nat) /\ Len(ls[i]) > 0
  BY DEF ListsOK
<1>1. /\ h = ls[i][1] /\ h \in Nat /\ Tail(ls[i]) \in Seq(Nat) /\ Len(Tail(ls[i])) = Len(ls[i]) - 1
      /\ \A j \in 1..(Len(ls[i]) - 1) : Tail(ls[i])[j] = ls[i][j + 1]
  BY <1>0, HeadTailProperties
<1>2. l \in [Indices -> Seq(Nat)] /\ l[i] = Tail(ls[i]) /\ \A j \in Indices : j # i => l[j] = ls[j]
  BY <1>0, <1>1
<1> HIDE DEF l, h
<1>3. Len(ls[i]) \in Nat /\ DOMAIN ls[i] = 1..Len(ls[i]) /\ DOMAIN l[i] = 1..(Len(ls[i]) - 1)
  BY <1>0, <1>1, <1>2
<1>4. \A j, k \in 1..Len(ls[i]) : ls[i][j] = ls[i][k] => j = k
  BY DEF ListsOK
<1>5. \A j, k \in 1..Len(l[i]) : l[i][j] = l[i][k] => j = k
  <2> SUFFICES ASSUME NEW j \in 1..(Len(ls[i]) - 1), NEW k \in 1..(Len(ls[i]) - 1), l[i][j] = l[i][k] PROVE j = k
    BY <1>1, <1>2
  <2>1. ls[i][j + 1] = ls[i][k + 1] /\ j + 1 \in 1..Len(ls[i]) /\ k + 1 \in 1..Len(ls[i])
    BY <1>1, <1>2, <1>3
  <2>2. j + 1 = k + 1
    BY <1>4, <2>1
  <2> QED
    BY <2>2
<1>6. ListsOK(l)
  BY <1>2, <1>5 DEF ListsOK
<1>7. h \in ToSet(ls[i])
  <2>1. 1 \in DOMAIN ls[i]
    BY <1>0, <1>3
  <2> QED
    BY <1>1, <2>1 DEF ToSet
<1>8. ASSUME NEW x \in ToSet(l[i]) PROVE x \in ToSet(ls[i]) /\ x # h
  <2>1. PICK j \in 1..(Len(ls[i]) - 1) : x = ls[i][j + 1]
    BY <1>1, <1>2, <1>3 DEF ToSet
  <2>2. j + 1 \in 1..Len(ls[i]) /\ j + 1 # 1 /\ 1 \in 1..Len(ls[i])
    BY <1>0, <1>3
  <2> QED
    BY <1>1, <1>3, <1>4, <2>1, <2>2 DEF ToSet
<1>9. ASSUME NEW x \in ToSet(ls[i]), x # h PROVE x \in ToSet(l[i])
  <2>1. PICK j \in 1..Len(ls[i]) : x = ls[i][j] /\ j # 1
    BY <1>1, <1>3, <1>9 DEF ToSet
  <2>2. j - 1 \in 1..(Len(ls[i]) - 1) /\ (j - 1) + 1 = j
    BY <1>3, <2>1
  <2>3. l[i][j - 1] = x
    BY <1>1, <1>2, <2>1, <2>2
  <2> QED
    BY <1>3, <2>2, <2>3 DEF ToSet
<1>10. \A j \in Indices : \A x : x \in ToSet(l[j]) <=> x \in ToSet(ls[j]) /\ <<x, j>> # <<h, i>>
  BY <1>2, <1>8, <1>9
<1>11. FreeOf(l) = FreeOf(ls) \ {<<h, i>>}
  BY <1>10 DEF FreeOf
<1>12. <<h, i>> \in FreeOf(ls)
  BY <1>7, FreeIs
<1> QED
  BY <1>1, <1>6, <1>11, <1>12 DEF l, h

\* deallocate puts one block in front of its list.
LEMMA FreePushed ==
  ASSUME NEW ls, ListsOK(ls), NEW i \in Indices, NEW h \in Nat, <<h, i>> \notin FreeOf(ls)
  PROVE  LET l == [ls EXCEPT ![i] = <<h>> \o @] IN
         /\ ListsOK(l) /\ FreeOf(l) = FreeOf(ls) \cup {<<h, i>>}
<1> DEFINE l == [ls EXCEPT ![i] = <<h>> \o @]
           s == ls[i]
           t == <<h>> \o ls[i]
<1>0. ls \in [Indices -> Seq(Nat)] /\ s \in Seq(Nat) /\ Len(s) \in Nat
  BY DEF ListsOK
<1>1. /\ t \in Seq(Nat) /\ Len(t) = Len(s) + 1 /\ t[1] = h
      /\ \A j \in 2..(Len(s) + 1) : t[j] = s[j - 1]
  BY <1>0
<1>2. l \in [Indices -> Seq(Nat)] /\ l[i] = t /\ \A j \in Indices : j # i => l[j] = ls[j]
  BY <1>0, <1>1
<1>3. \A j, k \in 1..Len(s) : s[j] = s[k] => j = k
  BY DEF ListsOK
<1>4. h \notin ToSet(s)
  BY FreeIs
<1> HIDE DEF l, s, t
<1>5. DOMAIN s = 1..Len(s) /\ DOMAIN t = 1..(Len(s) + 1)
  BY <1>0, <1>1
<1>6. \A j \in 1..Len(s) : s[j] # h
  BY <1>4, <1>5 DEF ToSet
<1>7. \A j, k \in 1..Len(t) : t[j] = t[k] => j = k
  <2> SUFFICES ASSUME NEW j \in 1..(Len(s) + 1), NEW k \in 1..(Len(s) + 1), t[j] = t[k] PROVE j = k
    BY <1>1
  <2>0. \A x \in 1..(Len(s) + 1) : x # 1 => t[x] # h
    <3> SUFFICES ASSUME NEW x \in 1..(Len(s) + 1), x # 1 PROVE t[x] # h
      OBVIOUS
    <3>1. x \in 2..(Len(s) + 1) /\ x - 1 \in 1..Len(s)
      BY <1>0
    <3> QED
      BY <1>1, <1>6, <3>1
  <2>1. CASE j = 1 \/ k = 1
    BY <1>1, <2>0, <2>1
  <2>2. CASE j # 1 /\ k # 1
    <3>1. j - 1 \in 1..Len(s) /\ k - 1 \in 1..Len(s) /\ s[j - 1] = s[k - 1]
      BY <1>0, <1>1, <2>2
    <3>2. j - 1 = k - 1
      BY <1>3, <3>1
    <3> QED
      BY <3>2
  <2> QED
    BY <2>1, <2>2
<1>8. ListsOK(l)
  BY <1>2, <1>7 DEF ListsOK, s
<1>9. \A x : x \in ToSet(t) <=> x \in ToSet(s) \/ x = h
  <2>1. ASSUME NEW x \in ToSet(t) PROVE x \in ToSet(s) \/ x = h
    <3>1. PICK j \in 1..(Len(s) + 1) : x = t[j]
      BY <1>5 DEF ToSet
    <3>2. j = 1 \/ (j - 1 \in 1..Len(s) /\ t[j] = s[j - 1])
      BY <1>0, <1>1
    <3> QED
      BY <1>1, <1>5, <3>1, <3>2 DEF ToSet
  <2>2. ASSUME NEW x \in ToSet(s) PROVE x \in ToSet(t)
    <3>1. PICK j \in 1..Len(s) : x = s[j]
      BY <1>5 DEF ToSet
    <3>2. j + 1 \in 1..(Len(s) + 1) /\ j + 1 \in 2..(Len(s) + 1) /\ (j + 1) - 1 = j
      BY <1>0
    <3>3. t[j + 1] = s[j]
      BY <1>1, <3>2
    <3> QED
      BY <1>5, <3>1, <3>2, <3>3 DEF ToSet
  <2>3. h \in ToSet(t)
    <3>1. 1 \in DOMAIN t
      BY <1>0, <1>5
    <3> QED
      BY <1>1, <3>1 DEF ToSet
  <2> QED
    BY <2>1, <2>2, <2>3
<1>10. \A j \in Indices : \A x : x \in ToSet(l[j]) <=> x \in ToSet(ls[j]) \/ <<x, j>> = <<h, i>>
  BY <1>2, <1>9 DEF s
<1>11. FreeOf(l) = FreeOf(ls) \cup {<<h, i>>}
  BY <1>10 DEF FreeOf
<1> QED
  BY <1>8, <1>11 DEF l

\* The lists after re_fill put count - 1 blocks of m bytes, from addr on, in list i,
\* and those blocks.
Filled(ls, i, addr, m, count) == [ls EXCEPT ![i] = [k \in 1..(count - 1) |-> addr + k * m]]
BlocksAt(i, addr, m, count) == {<<addr + k * m, i>> : k \in 1..(count - 1)}

\* re_fill fills an empty list.
LEMMA FreeFilled ==
  ASSUME NEW ls, ListsOK(ls), NEW i \in Indices, ls[i] = <<>>,
         NEW addr \in Nat, NEW m \in Nat \ {0}, NEW count \in Nat \ {0}
  PROVE  /\ ListsOK(Filled(ls, i, addr, m, count))
         /\ FreeOf(Filled(ls, i, addr, m, count)) = FreeOf(ls) \cup BlocksAt(i, addr, m, count)
<1> DEFINE t == [k \in 1..(count - 1) |-> addr + k * m]
           l == [ls EXCEPT ![i] = t]
<1>0. ls \in [Indices -> Seq(Nat)] /\ count - 1 \in Nat
  BY DEF ListsOK
<1>k. \A k \in 1..(count - 1) : k \in Nat /\ k * m \in Nat /\ addr + k * m \in Nat
  BY Products
<1>1. t \in [1..(count - 1) -> Nat]
  BY <1>k
<1>2. t \in Seq(Nat) /\ Len(t) = count - 1 /\ DOMAIN t = 1..(count - 1)
  BY <1>0, <1>1
<1>3. l \in [Indices -> Seq(Nat)] /\ l[i] = t /\ \A j \in Indices : j # i => l[j] = ls[j]
  BY <1>0, <1>2
<1>4. \A j, k \in 1..Len(t) : t[j] = t[k] => j = k
  <2> SUFFICES ASSUME NEW j \in 1..(count - 1), NEW k \in 1..(count - 1), addr + j * m = addr + k * m PROVE j = k
    BY <1>2
  <2>1. j * m = k * m /\ j \in Nat /\ k \in Nat
    BY <1>k
  <2> QED
    BY <2>1
<1>5. ToSet(t) = {addr + k * m : k \in 1..(count - 1)}
  BY <1>2 DEF ToSet
<1>6. ToSet(ls[i]) = {}
  BY DEF ToSet
<1> HIDE DEF t, l
<1>7. ListsOK(l)
  BY <1>3, <1>4 DEF ListsOK
<1>8. \A j \in Indices : \A x : x \in ToSet(l[j]) <=> x \in ToSet(ls[j]) \/ (j = i /\ \E k \in 1..(count - 1) : x = addr + k * m)
  BY <1>3, <1>5, <1>6
<1>9. FreeOf(l) = FreeOf(ls) \cup {<<addr + k * m, i>> : k \in 1..(count - 1)}
  <2>1. ASSUME NEW p \in FreeOf(l) PROVE p \in FreeOf(ls) \cup {<<addr + k * m, i>> : k \in 1..(count - 1)}
    <3>0. PICK j \in Indices : p \in {<<y, j>> : y \in ToSet(l[j])}
      BY DEF FreeOf
    <3>1. PICK x \in ToSet(l[j]) : p = <<x, j>>
      BY <3>0
    <3>2. x \in ToSet(ls[j]) \/ (j = i /\ \E k \in 1..(count - 1) : x = addr + k * m)
      BY <1>8
    <3>3. CASE x \in ToSet(ls[j])
      <4>1. <<x, j>> \in FreeOf(ls)
        BY <3>3, FreeIs
      <4> QED
        BY <3>1, <4>1
    <3>4. ASSUME j = i, NEW k \in 1..(count - 1), x = addr + k * m
          PROVE  p \in {<<addr + n * m, i>> : n \in 1..(count - 1)}
      BY <3>1, <3>4
    <3> QED
      BY <3>2, <3>3, <3>4
  <2>2. ASSUME NEW p \in FreeOf(ls) PROVE p \in FreeOf(l)
    BY <1>8, FreeIs
  <2>3. ASSUME NEW k \in 1..(count - 1) PROVE <<addr + k * m, i>> \in FreeOf(l)
    <3>1. addr + k * m \in ToSet(l[i])
      BY <1>8
    <3> QED
      BY <3>1, FreeIs
  <2> QED
    BY <2>1, <2>2, <2>3
<1> QED
  BY <1>7, <1>9 DEF l, t, Filled, BlocksAt

\* The lists after Refill.
LEMMA RefillLists ==
  ASSUME PoolTypeOK, NEW ls, ListsOK(ls), NEW s \in Nat, NEW n \in Requests, NEW count \in Nat \ {0},
         ls[ListIndex(n)] = <<>>, Refill(ls, n, s, count)
  PROVE  ListsOK(lists') /\ FreeOf(lists') = FreeOf(ls) \cup BlocksAt(ListIndex(n), s, BlockSize(n), count)
<1>1. ListIndex(n) \in Indices /\ BlockSize(n) \in Nat \ {0}
  BY SizeFacts
<1>2. lists' = Filled(ls, ListIndex(n), s, BlockSize(n), count)
  BY DEF Refill, Filled
<1> QED
  BY <1>1, <1>2, FreeFilled

\* Refill takes the blocks of a new list, and the caller's, from the front of a rest.
LEMMA Refilled ==
  ASSUME PoolTypeOK, \A b, c \in live : b.at = c.at => b = c,
         NEW ls, ListsOK(ls), NEW s, NEW e, NEW C, NEW w,
         Division(BlockSizes, UsedBlocks \cup FreeOf(ls), s, e, C, w, Gap),
         UsedBlocks \cap FreeOf(ls) = {},
         NEW n \in Requests, NEW count \in Nat \ {0}, count * BlockSize(n) <= e - s,
         ls[ListIndex(n)] = <<>>,
         Refill(ls, n, s, count), start' = s + count * BlockSize(n), end' = e, chunks' = C, brk' = w,
         kind' = kind, heapSize' \in Nat
  PROVE  PoolInv'
<1> DEFINE i == ListIndex(n)
           m == BlockSize(n)
           U == UsedBlocks \cup FreeOf(ls)
           N == {<<s + k * m, i>> : k \in 0..(count - 1)}
           M == {<<s + k * m, i>> : k \in 1..(count - 1)}
           b0 == [at |-> s, n |-> n]
<1>0. /\ i \in Indices /\ BlockSizes[i] = m /\ m \in Nat \ {0} /\ SizesOK(BlockSizes)
      /\ kind \in {"sgi", "fixed"} /\ live \subseteq [at : Nat, n : Requests]
  BY SizeFacts DEF PoolTypeOK
<1>1. s \in Nat /\ e \in Nat /\ s <= e /\ U \subseteq Nat \X Indices
  BY DEF Division
<1>a. ls[i] = <<>> /\ count * m <= e - s
  OBVIOUS
<1>2. /\ lists' = [ls EXCEPT ![i] = [k \in 1..(count - 1) |-> s + k * m]]
      /\ live' = live \cup {b0}
  BY DEF Refill
<1>3. /\ BlockSizes' = BlockSizes /\ Gap' = Gap
      /\ UsedBlocks' = UsedBlocks \cup {<<s, i>>}
  <2>1. BlockSizes' = BlockSizes /\ Gap' = Gap
    BY DEF BlockSizes, ListSize, Gap
  <2>2. \A b : ListIndex(b.n)' = ListIndex(b.n)
    BY DEF ListIndex
  <2>3. UsedBlocks' = {<<b.at, ListIndex(b.n)>> : b \in live'}
    BY <2>2 DEF UsedBlocks
  <2>4. b0.at = s /\ ListIndex(b0.n) = i
    OBVIOUS
  <2> HIDE DEF b0, i
  <2>5. UsedBlocks' = UsedBlocks \cup {<<s, i>>}
    BY <1>2, <2>3, <2>4 DEF UsedBlocks
  <2> QED
    BY <2>1, <2>5
<1> HIDE DEF i, m
<1>4. ListsOK(lists') /\ FreeOf(lists') = FreeOf(ls) \cup M
  <2>1. /\ ListsOK(lists')
        /\ FreeOf(lists') = FreeOf(ls) \cup BlocksAt(ListIndex(n), s, BlockSize(n), count)
    BY <1>1, RefillLists
  <2>2. BlocksAt(ListIndex(n), s, BlockSize(n), count) = M
    BY DEF i, m, BlocksAt
  <2> HIDE DEF M
  <2> QED
    BY <2>1, <2>2
<1>k. \A k \in 1..(count - 1) : k * m \in Nat /\ k * m > 0 /\ s + k * m # s
  BY <1>0, <1>1
<1>5. N = M \cup {<<s, i>>} /\ <<s, i>> \notin M
  <2>1. 0..(count - 1) = (1..(count - 1)) \cup {0}
    OBVIOUS
  <2>2. s + 0 * m = s
    BY <1>0, <1>1
  <2>3. N = M \cup {<<s + 0 * m, i>>}
    BY <2>1
  <2>4. <<s, i>> \notin M
    BY <1>k
  <2> QED
    BY <2>2, <2>3, <2>4
<1>6. Division(BlockSizes, U \cup N, s + count * m, e, C, w, Gap)
  <2>1. count * BlockSizes[i] <= e - s /\ count \in Nat
    BY <1>0, <1>a
  <2>2. Division(BlockSizes, U, s, e, C, w, Gap)
    OBVIOUS
  <2> HIDE DEF U
  <2>3. PICK V : V = U \cup {<<s + k * BlockSizes[i], i>> : k \in 0..(count - 1)}
    OBVIOUS
  <2>4. Division(BlockSizes, V, s + count * BlockSizes[i], e, C, w, Gap)
    BY <1>0, <2>1, <2>2, <2>3, BlocksCutTo
  <2>5. V = U \cup N
    BY <1>0, <2>3
  <2> QED
    BY <1>0, <2>4, <2>5
<1>7. UsedBlocks' \cup FreeBlocks' = U \cup N
  BY <1>3, <1>4, <1>5 DEF FreeBlocks
<1>8. Division(BlockSizes, UsedBlocks \cup FreeBlocks, start, end, chunks, brk, Gap)'
  BY <1>3, <1>6, <1>7 DEF m
<1>9. /\ \A p \in U : ~(s <= p[1] /\ p[1] < e)
      /\ \A p \in N : s <= p[1] /\ p[1] < e /\ p[2] = i
  <2>1. \A p \in U : ~(s <= p[1] /\ p[1] < e)
    BY <1>0, OneAtAddress
  <2>2. ASSUME NEW k \in 0..(count - 1) PROVE s <= s + k * m /\ s + k * m < e
    <3>1. k \in Nat /\ k + 1 \in Nat /\ k + 1 <= count /\ k * m \in Nat
      BY <1>0, Products
    <3>2. (k + 1) * m <= count * m /\ count * m \in Nat
      BY <1>0, <3>1, Products
    <3>3. (k + 1) * m = k * m + m
      BY <1>0, <3>1
    <3>4. count * m <= e - s
      BY DEF m
    <3> QED
      BY <1>0, <1>1, <3>1, <3>2, <3>3, <3>4
  <2> QED
    BY <2>1, <2>2
<1>10. (UsedBlocks \cap FreeBlocks)' = {}
  <2>1. U \cap N = {}
    BY <1>9
  <2> HIDE DEF N, M
  <2> QED
    BY <1>3, <1>4, <1>5, <2>1 DEF FreeBlocks
<1>11. ASSUME NEW b \in live', NEW c \in live', b.at = c.at PROVE b = c
  <2>1. \A d \in live : d.at # s
    <3> SUFFICES ASSUME NEW d \in live, d.at = s PROVE FALSE
      OBVIOUS
    <3>1. <<d.at, ListIndex(d.n)>> \in U
      BY DEF UsedBlocks
    <3>2. s < e
      BY <1>5, <1>9, <1>1
    <3> QED
      BY <1>1, <1>9, <3>1, <3>2
  <2>2. b0.at = s
    OBVIOUS
  <2> HIDE DEF b0
  <2> QED
    BY <1>2, <1>11, <2>1, <2>2
<1>12. PoolTypeOK'
  <2>1. b0 \in [at : Nat, n : Requests]
    BY <1>1
  <2>2. live' \subseteq [at : Nat, n : Requests]
    BY <1>0, <1>2, <2>1
  <2> QED
    BY <1>0, <2>2 DEF PoolTypeOK
<1> QED
  BY <1>4, <1>8, <1>10, <1>11, <1>12 DEF PoolInv

\* Filing the rest of the chunk.
LEMMA LeftoverFiled ==
  ASSUME PoolInv, NEW n \in Requests, Left < BlockSize(n)
  PROVE  /\ ListsOK(Leftover) /\ UsedBlocks \cap FreeOf(Leftover) = {}
         /\ Division(BlockSizes, UsedBlocks \cup FreeOf(Leftover), 0, 0, chunks, brk, Gap)
         /\ lists[ListIndex(n)] = <<>> => Leftover[ListIndex(n)] = <<>>
<1> DEFINE U == UsedBlocks \cup FreeBlocks
<1>0. /\ PoolTypeOK /\ ListsOK(lists) /\ Division(BlockSizes, U, start, end, chunks, brk, Gap)
      /\ UsedBlocks \cap FreeBlocks = {} /\ FreeBlocks = FreeOf(lists) /\ kind \in {"sgi", "fixed"}
  BY DEF PoolInv, FreeBlocks, PoolTypeOK
<1>1. start \in Nat /\ end \in Nat /\ start <= end /\ Left = end - start
  BY <1>0 DEF Division, Left
<1>2. /\ SizesOK(BlockSizes) /\ Gap \in Nat /\ n \in 1..MaxBytes
      /\ BlockSize(n) \in Nat /\ BlockSize(n) <= MaxBytes /\ ListIndex(n) \in Indices
      /\ BlockSizes[ListIndex(n)] = BlockSize(n)
      /\ kind = "fixed" => Gap = BlockSize(n) - 1
  BY <1>0, SizeFacts
<1>3. CASE kind = "sgi" /\ Left > 0
  <2> DEFINE i == ListIndex(Left)
  <2>1. Leftover = [lists EXCEPT ![i] = <<start>> \o @]
    BY <1>3 DEF Leftover
  <2>2. Left \in 1..MaxBytes
    BY <1>1, <1>2, <1>3, PoolAssumption DEF PoolAssumption
  <2>3. Multiple(Left)
    BY <1>0, <1>1, <1>3 DEF Division, BlocksInside
  <2>4. RoundUp(Left) = Left
    BY <2>2, <2>3, Rounded
  <2>5. i \in Indices /\ BlockSizes[i] = end - start
    BY <1>0, <1>1, <1>3, <2>2, <2>4, SizeFacts
  <2> HIDE DEF i
  <2>6. \A p \in U : p[1] # start
    BY <1>0, <1>1, <1>2, <1>3, OneAtAddress
  <2>7. <<start, i>> \notin U
    BY <2>6
  <2>8. ListsOK(Leftover) /\ FreeOf(Leftover) = FreeBlocks \cup {<<start, i>>}
    BY <1>0, <1>1, <2>1, <2>5, <2>7, FreePushed
  <2>9. UsedBlocks \cup FreeOf(Leftover) = U \cup {<<start, i>>}
    BY <2>8
  <2>10. Division(BlockSizes, UsedBlocks \cup FreeOf(Leftover), 0, 0, chunks, brk, Gap)
    BY <1>0, <1>1, <1>2, <1>3, <2>5, <2>9, RestFiled
  <2>11. i # ListIndex(n)
    BY <1>1, <1>2, <2>5
  <2>12. Leftover[ListIndex(n)] = lists[ListIndex(n)]
    BY <1>0, <1>2, <2>1, <2>11 DEF ListsOK
  <2> QED
    BY <1>0, <2>7, <2>8, <2>10, <2>12
<1>4. CASE ~(kind = "sgi" /\ Left > 0)
  <2>1. Leftover = lists
    BY <1>4 DEF Leftover
  <2>2. end - start <= Gap
    BY <1>0, <1>1, <1>2, <1>4
  <2>3. Division(BlockSizes, U, 0, 0, chunks, brk, Gap)
    BY <1>0, <1>2, <2>2, RestFiled
  <2> QED
    BY <1>0, <2>1, <2>3
<1> QED
  BY <1>3, <1>4

\* A step that only passes blocks between the callers and the lists.
LEMMA Relabelled ==
  ASSUME PoolInv, UNCHANGED <<kind, start, end, heapSize, chunks, brk>>,
         live' \subseteq [at : Nat, n : Requests], ListsOK(lists'),
         \A b, c \in live' : b.at = c.at => b = c,
         UsedBlocks' \cup FreeBlocks' = UsedBlocks \cup FreeBlocks,
         UsedBlocks' \cap FreeBlocks' = {}
  PROVE  PoolInv'
<1>1. BlockSizes' = BlockSizes /\ Gap' = Gap
  BY DEF BlockSizes, ListSize, Gap
<1>2. Division(BlockSizes, UsedBlocks \cup FreeBlocks, start, end, chunks, brk, Gap)'
  BY <1>1 DEF PoolInv
<1>3. PoolTypeOK'
  BY DEF PoolInv, PoolTypeOK
<1> QED
  BY <1>2, <1>3 DEF PoolInv

\* How the callers' blocks change.
LEMMA UsedChanges ==
  ASSUME kind' = kind
  PROVE  /\ \A b : live' = live \cup {b} => UsedBlocks' = UsedBlocks \cup {<<b.at, ListIndex(b.n)>>}
         /\ \A b \in live : live' = live \ {b} /\ (\A c, d \in live : c.at = d.at => c = d)
              => UsedBlocks' = UsedBlocks \ {<<b.at, ListIndex(b.n)>>}
         /\ \A b \in live : \A c : live' = (live \ {b}) \cup {c} /\ c.at = b.at /\ ListIndex(c.n) = ListIndex(b.n)
              => UsedBlocks' = UsedBlocks
<1>1. \A b : ListIndex(b.n)' = ListIndex(b.n)
  BY DEF ListIndex
<1>2. UsedBlocks' = {<<b.at, ListIndex(b.n)>> : b \in live'}
  BY <1>1 DEF UsedBlocks
<1>3. \A b : live' = live \cup {b} => UsedBlocks' = UsedBlocks \cup {<<b.at, ListIndex(b.n)>>}
  BY <1>2 DEF UsedBlocks
<1>4. ASSUME NEW b \in live, live' = live \ {b}, \A c, d \in live : c.at = d.at => c = d
      PROVE  UsedBlocks' = UsedBlocks \ {<<b.at, ListIndex(b.n)>>}
  BY <1>2, <1>4 DEF UsedBlocks
<1>5. ASSUME NEW b \in live, NEW c, live' = (live \ {b}) \cup {c}, c.at = b.at, ListIndex(c.n) = ListIndex(b.n)
      PROVE  UsedBlocks' = UsedBlocks
  BY <1>2, <1>5 DEF UsedBlocks
<1> QED
  BY <1>3, <1>4, <1>5

\* Every step keeps the invariant of the pools.
LEMMA PoolStep ==
  ASSUME PoolInv, [Next]_vars
  PROVE  PoolInv'
<1> DEFINE U == UsedBlocks \cup FreeBlocks
<1>0. /\ PoolTypeOK /\ ListsOK(lists) /\ Division(BlockSizes, U, start, end, chunks, brk, Gap)
      /\ UsedBlocks \cap FreeBlocks = {} /\ FreeBlocks = FreeOf(lists)
      /\ kind \in {"sgi", "fixed"} /\ heapSize \in Nat /\ live \subseteq [at : Nat, n : Requests]
      /\ \A b, c \in live : b.at = c.at => b = c
  BY DEF PoolInv, FreeBlocks, PoolTypeOK
<1>1. /\ start \in Nat /\ end \in Nat /\ start <= end /\ Left = end - start /\ brk \in Nat /\ Left \in Nat
      /\ U \subseteq Nat \X Indices
  BY <1>0 DEF Division, Left
<1>2. /\ SizesOK(BlockSizes) /\ Requests \subseteq 1..MaxBytes
      /\ \A n \in Requests :
           /\ ListIndex(n) \in Indices /\ BlockSizes[ListIndex(n)] = BlockSize(n)
           /\ BlockSize(n) \in Nat \ {0} /\ Multiple(BlockSize(n))
  BY <1>0, SizeFacts
<1>3. \A p, q \in U : p[1] = q[1] => p = q
  BY <1>0, <1>2, OneAtAddress
<1>n. NumNode \in Nat \ {0} /\ Align \in Nat \ {0}
  BY PoolAssumption DEF PoolAssumption
<1>4. CASE AllocateFromList
  <2>1. PICK n \in Requests :
          /\ lists[ListIndex(n)] # <<>>
          /\ live' = live \cup {[at |-> Head(lists[ListIndex(n)]), n |-> n]}
          /\ lists' = [lists EXCEPT ![ListIndex(n)] = Tail(@)]
          /\ UNCHANGED <<kind, start, end, heapSize, chunks, brk>>
    BY <1>4 DEF AllocateFromList
  <2> DEFINE i == ListIndex(n)
             x == Head(lists[i])
             b0 == [at |-> x, n |-> n]
  <2>2. i \in Indices
    BY <1>2
  <2>3. b0.at = x /\ b0.n = n
    OBVIOUS
  <2>4. ListsOK(lists') /\ <<x, i>> \in FreeBlocks /\ x \in Nat /\ FreeBlocks' = FreeBlocks \ {<<x, i>>}
    BY <1>0, <2>1, <2>2, FreePopped DEF FreeBlocks
  <2>5. b0 \in [at : Nat, n : Requests]
    BY <2>4
  <2> HIDE DEF x, b0
  <2>6. UsedBlocks' = UsedBlocks \cup {<<x, i>>}
    BY <2>1, <2>3, UsedChanges DEF b0, x
  <2>7. live' = live \cup {b0}
    BY <2>1 DEF b0, x
  <2>8. \A b \in live : b.at # x
    <3> SUFFICES ASSUME NEW b \in live, b.at = x PROVE FALSE
      OBVIOUS
    <3>1. <<b.at, ListIndex(b.n)>> \in UsedBlocks
      BY DEF UsedBlocks
    <3> QED
      BY <1>0, <1>3, <2>4, <3>1
  <2>9. \A b, c \in live' : b.at = c.at => b = c
    BY <1>0, <2>3, <2>7, <2>8
  <2>10. live' \subseteq [at : Nat, n : Requests]
    BY <1>0, <2>5, <2>7
  <2>11. UsedBlocks' \cup FreeBlocks' = UsedBlocks \cup FreeBlocks /\ UsedBlocks' \cap FreeBlocks' = {}
    BY <1>0, <2>4, <2>6
  <2> QED
    BY <2>1, <2>4, <2>9, <2>10, <2>11, Relabelled
<1>5. CASE AllocateFromChunk
  <2>1. PICK n \in Requests :
          /\ lists[ListIndex(n)] = <<>> /\ Left >= BlockSize(n)
          /\ Refill(lists, n, start, Cut(n))
          /\ start' = start + Cut(n) * BlockSize(n)
          /\ UNCHANGED <<kind, end, heapSize, chunks, brk>>
    BY <1>5 DEF AllocateFromChunk
  <2> DEFINE m == BlockSize(n)
  <2>2. m \in Nat \ {0}
    BY <1>2
  <2>3. Cut(n) \in Nat \ {0} /\ Cut(n) * m <= Left
    <3>1. CASE Left >= m * NumNode
      <4>1. Cut(n) = NumNode
        BY <3>1 DEF Cut
      <4>2. NumNode * m = m * NumNode
        BY <1>n, <2>2
      <4> QED
        BY <1>n, <3>1, <4>1, <4>2
    <3>2. CASE ~(Left >= m * NumNode)
      <4>1. Cut(n) = Left \div m
        BY <3>2 DEF Cut
      <4> HIDE DEF m
      <4> DEFINE d == Left \div m
      <4>2. d \in Nat /\ Left % m \in 0..(m - 1) /\ Left = m * d + (Left % m)
        BY <1>1, <2>2, DivMod
      <4> HIDE DEF d
      <4>3. d * m = m * d /\ d * m \in Nat
        BY <2>2, <4>2, Products
      <4>4. d # 0
        <5>1. Left >= m
          BY <2>1 DEF m
        <5> QED
          BY <1>1, <2>2, <4>2, <5>1
      <4> QED
        BY <1>1, <2>2, <4>1, <4>2, <4>3, <4>4 DEF d
    <3> QED
      BY <3>1, <3>2
  <2> QED
    BY <1>0, <1>1, <2>1, <2>3, Refilled
<1>6. CASE AllocateFromSystem
  <2>1. PICK n \in Requests :
          /\ lists[ListIndex(n)] = <<>> /\ Left < BlockSize(n)
          /\ Refill(Leftover, n, brk, NumNode)
          /\ chunks' = chunks \cup {[at |-> brk, size |-> ChunkSize(n)]}
          /\ heapSize' = heapSize + ChunkSize(n)
          /\ start' = brk + NumNode * BlockSize(n)
          /\ end' = brk + ChunkSize(n)
          /\ brk' = brk + ChunkSize(n) + Align
          /\ kind' = kind
    BY <1>6 DEF AllocateFromSystem
  <2> DEFINE m == BlockSize(n)
             get == ChunkSize(n)
             h == heapSize \div 16
             C == chunks \cup {[at |-> brk, size |-> get]}
  <2>2. m \in Nat \ {0} /\ Multiple(m)
    BY <1>2
  <2>3. get \in Nat /\ Multiple(get) /\ NumNode * m <= get
    <3>1. h \in Nat
      BY <1>0
    <3>2. RoundUp(h) \in Nat /\ Multiple(RoundUp(h))
      BY <3>1, Rounded
    <3>3. get = 2 * m * NumNode + RoundUp(h)
      BY DEF ChunkSize
    <3> HIDE DEF m, get, h
    <3>4. NumNode * m \in Nat /\ Multiple(NumNode * m)
      BY <1>n, <2>2, Products, MultipleSum
    <3>5. 2 * m * NumNode = NumNode * m + NumNode * m
      BY <1>n, <2>2
    <3>6. Multiple(NumNode * m + NumNode * m)
      BY <3>4, MultipleSum
    <3>7. Multiple((NumNode * m + NumNode * m) + RoundUp(h))
      BY <3>2, <3>4, <3>6, MultipleSum
    <3> QED
      BY <3>2, <3>3, <3>4, <3>5, <3>7
  <2>4. /\ ListsOK(Leftover) /\ UsedBlocks \cap FreeOf(Leftover) = {}
        /\ Division(BlockSizes, UsedBlocks \cup FreeOf(Leftover), 0, 0, chunks, brk, Gap)
        /\ Leftover[ListIndex(n)] = <<>>
    BY <2>1, LeftoverFiled
  <2>5. Division(BlockSizes, UsedBlocks \cup FreeOf(Leftover), brk, brk + get, C, brk + get + Align, Gap)
    BY <1>2, <2>3, <2>4, ChunkAdded
  <2>6. NumNode * m <= (brk + get) - brk
    BY <1>1, <2>3
  <2>7. heapSize' \in Nat
    BY <1>0, <2>1, <2>3
  <2> HIDE DEF C, get
  <2>8. chunks' = C /\ end' = brk + get /\ brk' = brk + get + Align
    BY <2>1 DEF C, get
  <2> QED
    BY <1>0, <1>n, <2>1, <2>4, <2>5, <2>6, <2>7, <2>8, Refilled
<1>7. CASE AllocateFails
  <2>1. PICK n \in Requests : lists[ListIndex(n)] = <<>> /\ Left < BlockSize(n)
    BY <1>7 DEF AllocateFails
  <2>2. lists' = Leftover /\ start' = 0 /\ end' = 0 /\ UNCHANGED <<kind, heapSize, chunks, live, brk>>
    BY <1>7 DEF AllocateFails
  <2>3. /\ ListsOK(Leftover) /\ UsedBlocks \cap FreeOf(Leftover) = {}
        /\ Division(BlockSizes, UsedBlocks \cup FreeOf(Leftover), 0, 0, chunks, brk, Gap)
    BY <2>1, LeftoverFiled
  <2>4. BlockSizes' = BlockSizes /\ Gap' = Gap /\ UsedBlocks' = UsedBlocks
    BY <2>2 DEF BlockSizes, ListSize, Gap, UsedBlocks, ListIndex
  <2>5. FreeBlocks' = FreeOf(Leftover)
    BY <2>2 DEF FreeBlocks
  <2>6. Division(BlockSizes, UsedBlocks \cup FreeBlocks, start, end, chunks, brk, Gap)'
    BY <2>2, <2>3, <2>4, <2>5
  <2>7. PoolTypeOK' /\ ListsOK(lists') /\ (UsedBlocks \cap FreeBlocks)' = {}
    BY <1>0, <2>2, <2>3, <2>4, <2>5 DEF PoolTypeOK
  <2> QED
    BY <1>0, <2>2, <2>6, <2>7 DEF PoolInv
<1>8. CASE Deallocate
  <2>1. PICK b \in live :
          /\ lists' = [lists EXCEPT ![ListIndex(b.n)] = <<b.at>> \o @]
          /\ live' = live \ {b}
          /\ UNCHANGED <<kind, start, end, heapSize, chunks, brk>>
    BY <1>8 DEF Deallocate
  <2> DEFINE i == ListIndex(b.n)
  <2>2. b.at \in Nat /\ b.n \in Requests /\ i \in Indices
    BY <1>0, <1>2
  <2>3. <<b.at, i>> \in UsedBlocks
    BY DEF UsedBlocks
  <2>4. <<b.at, i>> \notin FreeOf(lists)
    BY <1>0, <2>3
  <2>5. ListsOK(lists') /\ FreeBlocks' = FreeBlocks \cup {<<b.at, i>>}
    BY <1>0, <2>1, <2>2, <2>4, FreePushed DEF FreeBlocks
  <2>6. UsedBlocks' = UsedBlocks \ {<<b.at, i>>}
    BY <1>0, <2>1, UsedChanges
  <2>7. UsedBlocks' \cup FreeBlocks' = UsedBlocks \cup FreeBlocks /\ UsedBlocks' \cap FreeBlocks' = {}
    BY <1>0, <2>3, <2>5, <2>6
  <2>8. live' \subseteq [at : Nat, n : Requests] /\ \A c, d \in live' : c.at = d.at => c = d
    BY <1>0, <2>1
  <2> QED
    BY <2>1, <2>5, <2>7, <2>8, Relabelled
<1>9. CASE ReallocateInPlace
  <2>1. PICK b \in live, m \in Requests :
          Stays(b.n, m) /\ live' = (live \ {b}) \cup {[b EXCEPT !.n = m]}
    BY <1>9 DEF ReallocateInPlace
  <2>2. kind = "sgi" /\ UNCHANGED <<kind, start, end, heapSize, chunks, lists, brk>>
    BY <1>9 DEF ReallocateInPlace
  <2> DEFINE c == [b EXCEPT !.n = m]
  <2>3. b \in [at : Nat, n : Requests]
    BY <1>0
  <2>4. c \in [at : Nat, n : Requests] /\ c.at = b.at /\ c.n = m
    BY <2>3
  <2>5. ListIndex(m) = ListIndex(b.n)
    <3> DEFINE q == (b.n + Align - 1) \div Align
               r == (m + Align - 1) \div Align
    <3>1. b.n \in Nat /\ m \in Nat
      <4>1. b.n \in 1..MaxBytes /\ m \in 1..MaxBytes
        BY <1>2, <2>3
      <4> QED
        BY <4>1
    <3>2. q \in Nat /\ r \in Nat
      BY <3>1, Rounded
    <3>3. q * Align = r * Align
      BY <2>1 DEF Stays, RoundUp
    <3>4. ListIndex(m) = r - 1 /\ ListIndex(b.n) = q - 1
      BY <2>2 DEF ListIndex
    <3> HIDE DEF q, r
    <3>5. q = r
      BY <1>n, <3>2, <3>3
    <3> QED
      BY <3>4, <3>5
  <2> HIDE DEF c
  <2>6. live' = (live \ {b}) \cup {c}
    BY <2>1 DEF c
  <2>7. UsedBlocks' = UsedBlocks
    BY <2>2, <2>4, <2>5, <2>6, UsedChanges
  <2>8. FreeBlocks' = FreeBlocks
    BY <2>2 DEF FreeBlocks
  <2>9. live' \subseteq [at : Nat, n : Requests] /\ \A x, y \in live' : x.at = y.at => x = y
    BY <1>0, <2>4, <2>6
  <2> QED
    BY <1>0, <2>2, <2>7, <2>8, <2>9, Relabelled
<1>10. CASE UNCHANGED vars
  <2>1. UsedBlocks' = UsedBlocks /\ FreeBlocks' = FreeBlocks
    BY <1>10 DEF vars, UsedBlocks, FreeBlocks, ListIndex
  <2> QED
    BY <1>0, <1>10, <2>1, Relabelled DEF vars
<1> QED
  BY <1>4, <1>5, <1>6, <1>7, <1>8, <1>9, <1>10 DEF Next

\* The division of the pools' memory holds at the start and survives every step.
THEOREM PoolInvariance == Spec => []PoolInv
<1>1. Init => PoolInv
  <2> SUFFICES ASSUME Init PROVE PoolInv
    OBVIOUS
  <2>1. PoolTypeOK /\ UsedBlocks = {} /\ \A b, c \in live : b.at = c.at => b = c
    BY DEF Init, PoolTypeOK, UsedBlocks
  <2>2. ListsOK(lists)
    BY DEF Init, ListsOK
  <2>3. FreeBlocks = {}
    <3>1. \A i \in Indices : ToSet(lists[i]) = {}
      BY DEF Init, ToSet
    <3> QED
      BY <3>1 DEF FreeBlocks, FreeOf
  <2>4. start = 0 /\ end = 0 /\ chunks = {} /\ brk \in Nat /\ Gap \in Nat
    BY <2>1, PoolAssumption, SizeFacts DEF Init, PoolAssumption
  <2>5. Division(BlockSizes, {}, 0, 0, {}, brk, Gap)
    BY <2>4 DEF Division, BlocksApart, BlocksInside, ChunksUsed
  <2> QED
    BY <2>1, <2>2, <2>3, <2>4, <2>5 DEF PoolInv
<1> QED
  BY <1>1, PoolStep, PTL DEF Spec

\* The bytes of a block of m bytes at a.
Bytes(a, m) == a..(a + m - 1)

\* Blocks that are apart have no byte in common.
LEMMA ApartBytes ==
  \A a, m, b, n \in Nat : Apart(a, m, b, n) => Bytes(a, m) \cap Bytes(b, n) = {}
BY DEF Apart, Bytes

\* A block that lies in a chunk has its bytes there.
LEMMA BytesInside ==
  \A a, m, b, n \in Nat : b <= a /\ a + m <= b + n => Bytes(a, m) \subseteq Bytes(b, n)
BY DEF Bytes

\* The bytes of the blocks as the property names them.
LEMMA BlocksAre ==
  ASSUME PoolInv
  PROVE  /\ \A b \in live :
              /\ <<b.at, ListIndex(b.n)>> \in UsedBlocks /\ b.at \in Nat /\ ListIndex(b.n) \in Indices
              /\ BlockSizes[ListIndex(b.n)] \in Nat
              /\ LiveBytes(b) = b.at..(b.at + BlockSizes[ListIndex(b.n)] - 1)
         /\ \A p \in FreeSlots :
              /\ p[1] \in Indices /\ p[2] \in 1..Len(lists[p[1]]) /\ p = <<p[1], p[2]>>
              /\ <<lists[p[1]][p[2]], p[1]>> \in FreeBlocks /\ lists[p[1]][p[2]] \in Nat
              /\ BlockSizes[p[1]] \in Nat
              /\ FreeBytes(p[1], p[2]) = lists[p[1]][p[2]]..(lists[p[1]][p[2]] + BlockSizes[p[1]] - 1)
         /\ \A i \in Indices : \A k \in 1..Len(lists[i]) : <<i, k>> \in FreeSlots
         /\ RestBytes = start..(end - 1) /\ start \in Nat /\ end \in Nat /\ start <= end
<1>0. /\ PoolTypeOK /\ ListsOK(lists) /\ live \subseteq [at : Nat, n : Requests]
      /\ SizesOK(BlockSizes) /\ start \in Nat /\ end \in Nat /\ start <= end
      /\ \A n \in Requests : ListIndex(n) \in Indices /\ BlockSizes[ListIndex(n)] = BlockSize(n)
  BY SizeFacts DEF PoolInv, PoolTypeOK, Division
<1>1. ASSUME NEW b \in live
      PROVE  /\ <<b.at, ListIndex(b.n)>> \in UsedBlocks /\ b.at \in Nat /\ ListIndex(b.n) \in Indices
             /\ BlockSizes[ListIndex(b.n)] \in Nat
             /\ LiveBytes(b) = b.at..(b.at + BlockSizes[ListIndex(b.n)] - 1)
  <2>1. b.at \in Nat /\ b.n \in Requests
    BY <1>0
  <2> QED
    BY <1>0, <2>1 DEF UsedBlocks, LiveBytes, SizesOK
<1>2. \A i \in Indices : lists[i] \in Seq(Nat) /\ DOMAIN lists[i] = 1..Len(lists[i])
  BY <1>0 DEF ListsOK
<1>3. ASSUME NEW p \in FreeSlots
      PROVE  p[1] \in Indices /\ p[2] \in 1..Len(lists[p[1]]) /\ p = <<p[1], p[2]>>
  BY <1>2 DEF FreeSlots
<1>4. ASSUME NEW p \in FreeSlots
      PROVE  /\ <<lists[p[1]][p[2]], p[1]>> \in FreeBlocks /\ lists[p[1]][p[2]] \in Nat
             /\ BlockSizes[p[1]] \in Nat
             /\ FreeBytes(p[1], p[2]) = lists[p[1]][p[2]]..(lists[p[1]][p[2]] + BlockSizes[p[1]] - 1)
  <2>1. lists[p[1]][p[2]] \in ToSet(lists[p[1]]) /\ lists[p[1]][p[2]] \in Nat
    BY <1>2, <1>3 DEF ToSet
  <2>2. <<lists[p[1]][p[2]], p[1]>> \in FreeBlocks
    BY <1>3, <2>1, FreeIs DEF FreeBlocks
  <2>3. BlockSizes[p[1]] \in Nat /\ BlockSizes[p[1]] = ListSize(p[1])
    BY <1>0, <1>3 DEF SizesOK, BlockSizes
  <2> QED
    BY <2>1, <2>2, <2>3 DEF FreeBytes
<1>5. \A i \in Indices : \A k \in 1..Len(lists[i]) : <<i, k>> \in FreeSlots
  BY <1>2 DEF FreeSlots
<1>6. RestBytes = start..(end - 1)
  BY <1>0 DEF RestBytes
<1> QED
  BY <1>0, <1>1, <1>3, <1>4, <1>5, <1>6

\* What BlocksAre says of one block.
LEMMA LiveIs ==
  ASSUME PoolInv, NEW b \in live
  PROVE  /\ <<b.at, ListIndex(b.n)>> \in UsedBlocks /\ b.at \in Nat
         /\ BlockSizes[ListIndex(b.n)] \in Nat
         /\ LiveBytes(b) = Bytes(b.at, BlockSizes[ListIndex(b.n)])
BY BlocksAre DEF Bytes

LEMMA SlotIs ==
  ASSUME PoolInv, NEW p \in FreeSlots
  PROVE  /\ <<lists[p[1]][p[2]], p[1]>> \in FreeBlocks /\ lists[p[1]][p[2]] \in Nat
         /\ BlockSizes[p[1]] \in Nat
         /\ FreeBytes(p[1], p[2]) = Bytes(lists[p[1]][p[2]], BlockSizes[p[1]])
BY BlocksAre DEF Bytes

\* The three parts of the property follow from the inductive invariant.
LEMMA PoolNoOverlap == PoolInv => NoOverlap
<1> SUFFICES ASSUME PoolInv PROVE NoOverlap
  OBVIOUS
<1> DEFINE U == UsedBlocks \cup FreeBlocks
           Slot(p) == lists[p[1]][p[2]]
<1>0. /\ \A p, q \in U : p # q => Apart(p[1], BlockSizes[p[2]], q[1], BlockSizes[q[2]])
      /\ \A p \in U : Apart(p[1], BlockSizes[p[2]], start, end - start)
      /\ UsedBlocks \cap FreeBlocks = {} /\ \A b, c \in live : b.at = c.at => b = c
      /\ \A i \in Indices : \A j, k \in 1..Len(lists[i]) : lists[i][j] = lists[i][k] => j = k
  BY DEF PoolInv, Division, BlocksApart, ListsOK
<1>1. /\ \A a, i, b, j : <<a, i>> \in U /\ <<b, j>> \in U /\ <<a, i>> # <<b, j>>
                           => Apart(a, BlockSizes[i], b, BlockSizes[j])
      /\ \A a, i : <<a, i>> \in U => Apart(a, BlockSizes[i], start, end - start)
  BY <1>0
<1> HIDE DEF U
<1>2. ASSUME NEW b \in live, NEW c \in live, b # c PROVE LiveBytes(b) \cap LiveBytes(c) = {}
  <2>1. /\ <<b.at, ListIndex(b.n)>> \in U /\ <<c.at, ListIndex(c.n)>> \in U
        /\ b.at # c.at
    BY <1>0, <1>2, BlocksAre DEF U
  <2>2. Apart(b.at, BlockSizes[ListIndex(b.n)], c.at, BlockSizes[ListIndex(c.n)])
    BY <1>1, <2>1
  <2>3. /\ b.at \in Nat /\ BlockSizes[ListIndex(b.n)] \in Nat /\ LiveBytes(b) = Bytes(b.at, BlockSizes[ListIndex(b.n)])
        /\ c.at \in Nat /\ BlockSizes[ListIndex(c.n)] \in Nat /\ LiveBytes(c) = Bytes(c.at, BlockSizes[ListIndex(c.n)])
    BY LiveIs
  <2> QED
    BY <2>2, <2>3, ApartBytes
<1>3. ASSUME NEW p \in FreeSlots, NEW q \in FreeSlots, p # q
      PROVE  FreeBytes(p[1], p[2]) \cap FreeBytes(q[1], q[2]) = {}
  <2>1. /\ <<Slot(p), p[1]>> \in U /\ <<Slot(q), q[1]>> \in U
        /\ p[1] \in Indices /\ q[1] \in Indices
        /\ p[2] \in 1..Len(lists[p[1]]) /\ q[2] \in 1..Len(lists[q[1]])
        /\ p = <<p[1], p[2]>> /\ q = <<q[1], q[2]>>
    BY BlocksAre DEF U
  <2>2. <<Slot(p), p[1]>> # <<Slot(q), q[1]>>
    BY <1>0, <1>3, <2>1
  <2>3. Apart(Slot(p), BlockSizes[p[1]], Slot(q), BlockSizes[q[1]])
    BY <1>1, <2>1, <2>2
  <2>4. /\ Slot(p) \in Nat /\ BlockSizes[p[1]] \in Nat /\ FreeBytes(p[1], p[2]) = Bytes(Slot(p), BlockSizes[p[1]])
        /\ Slot(q) \in Nat /\ BlockSizes[q[1]] \in Nat /\ FreeBytes(q[1], q[2]) = Bytes(Slot(q), BlockSizes[q[1]])
    BY SlotIs
  <2> QED
    BY <2>3, <2>4, ApartBytes
<1>4. ASSUME NEW b \in live, NEW p \in FreeSlots PROVE LiveBytes(b) \cap FreeBytes(p[1], p[2]) = {}
  <2>1. /\ <<b.at, ListIndex(b.n)>> \in UsedBlocks /\ <<Slot(p), p[1]>> \in FreeBlocks
    BY BlocksAre
  <2>2. <<b.at, ListIndex(b.n)>> # <<Slot(p), p[1]>>
    BY <1>0, <2>1
  <2>3. Apart(b.at, BlockSizes[ListIndex(b.n)], Slot(p), BlockSizes[p[1]])
    BY <1>1, <2>1, <2>2 DEF U
  <2>4. /\ b.at \in Nat /\ BlockSizes[ListIndex(b.n)] \in Nat /\ LiveBytes(b) = Bytes(b.at, BlockSizes[ListIndex(b.n)])
        /\ Slot(p) \in Nat /\ BlockSizes[p[1]] \in Nat /\ FreeBytes(p[1], p[2]) = Bytes(Slot(p), BlockSizes[p[1]])
    BY LiveIs, SlotIs
  <2> QED
    BY <2>3, <2>4, ApartBytes
<1>5. RestBytes = Bytes(start, end - start) /\ start \in Nat /\ end - start \in Nat
  BY BlocksAre DEF Bytes
<1>6. ASSUME NEW b \in live PROVE LiveBytes(b) \cap RestBytes = {}
  <2>1. Apart(b.at, BlockSizes[ListIndex(b.n)], start, end - start)
    BY <1>1, BlocksAre DEF U
  <2>2. b.at \in Nat /\ BlockSizes[ListIndex(b.n)] \in Nat /\ LiveBytes(b) = Bytes(b.at, BlockSizes[ListIndex(b.n)])
    BY LiveIs
  <2> QED
    BY <1>5, <2>1, <2>2, ApartBytes
<1>7. ASSUME NEW p \in FreeSlots PROVE FreeBytes(p[1], p[2]) \cap RestBytes = {}
  <2>1. Apart(Slot(p), BlockSizes[p[1]], start, end - start)
    BY <1>1, BlocksAre DEF U
  <2>2. Slot(p) \in Nat /\ BlockSizes[p[1]] \in Nat /\ FreeBytes(p[1], p[2]) = Bytes(Slot(p), BlockSizes[p[1]])
    BY SlotIs
  <2> QED
    BY <1>5, <2>1, <2>2, ApartBytes
<1> QED
  BY <1>2, <1>3, <1>4, <1>6, <1>7 DEF NoOverlap

LEMMA PoolInChunks == PoolInv => InChunks
<1> SUFFICES ASSUME PoolInv PROVE InChunks
  OBVIOUS
<1> DEFINE U == UsedBlocks \cup FreeBlocks
<1>0. /\ \A p \in U : \E c \in chunks :
           c.at <= p[1] /\ p[1] + BlockSizes[p[2]] <= c.at + c.size /\ Multiple(p[1] - c.at)
      /\ start < end => \E c \in chunks :
           c.at <= start /\ end <= c.at + c.size /\ Multiple(start - c.at) /\ Multiple(end - start)
      /\ \A c \in chunks : c.at \in Nat /\ c.size \in Nat
  BY DEF PoolInv, Division, BlocksInside
<1>1. \A a, i : <<a, i>> \in U => \E c \in chunks :
           c.at <= a /\ a + BlockSizes[i] <= c.at + c.size /\ Multiple(a - c.at)
  BY <1>0
<1> HIDE DEF U
<1>2. ASSUME NEW b \in live
      PROVE  \E c \in chunks : LiveBytes(b) \subseteq ChunkBytes(c) /\ (b.at - c.at) % Align = 0
  <2>1. PICK c \in chunks : /\ c.at <= b.at /\ b.at + BlockSizes[ListIndex(b.n)] <= c.at + c.size
                            /\ Multiple(b.at - c.at)
    BY <1>1, BlocksAre DEF U
  <2>2. LiveBytes(b) \subseteq ChunkBytes(c)
    <3>1. /\ b.at \in Nat /\ BlockSizes[ListIndex(b.n)] \in Nat /\ LiveBytes(b) = Bytes(b.at, BlockSizes[ListIndex(b.n)])
          /\ c.at \in Nat /\ c.size \in Nat /\ ChunkBytes(c) = Bytes(c.at, c.size)
      BY <1>0, LiveIs DEF ChunkBytes, Bytes
    <3> QED
      BY <2>1, <3>1, BytesInside
  <2> QED
    BY <2>1, <2>2 DEF Multiple
<1>3. ASSUME NEW p \in FreeSlots
      PROVE  \E c \in chunks : /\ FreeBytes(p[1], p[2]) \subseteq ChunkBytes(c)
                               /\ (lists[p[1]][p[2]] - c.at) % Align = 0
  <2>1. PICK c \in chunks : /\ c.at <= lists[p[1]][p[2]]
                            /\ lists[p[1]][p[2]] + BlockSizes[p[1]] <= c.at + c.size
                            /\ Multiple(lists[p[1]][p[2]] - c.at)
    BY <1>1, BlocksAre DEF U
  <2>2. FreeBytes(p[1], p[2]) \subseteq ChunkBytes(c)
    <3>1. /\ lists[p[1]][p[2]] \in Nat /\ BlockSizes[p[1]] \in Nat /\ FreeBytes(p[1], p[2]) = Bytes(lists[p[1]][p[2]], BlockSizes[p[1]])
          /\ c.at \in Nat /\ c.size \in Nat /\ ChunkBytes(c) = Bytes(c.at, c.size)
      BY <1>0, SlotIs DEF ChunkBytes, Bytes
    <3> DEFINE adr == lists[p[1]][p[2]]
               n == BlockSizes[p[1]]
    <3>2. adr \in Nat /\ n \in Nat /\ c.at <= adr /\ adr + n <= c.at + c.size
      BY <2>1, <3>1
    <3> HIDE DEF adr, n
    <3>3. Bytes(adr, n) \subseteq Bytes(c.at, c.size)
      BY <3>1, <3>2, BytesInside
    <3> QED
      BY <3>1, <3>3 DEF adr, n
  <2> QED
    BY <2>1, <2>2 DEF Multiple
<1>4. Left > 0 => \E c \in chunks : RestBytes \subseteq ChunkBytes(c)
  BY <1>0, BlocksAre DEF Left, ChunkBytes
<1> QED
  BY <1>2, <1>3, <1>4 DEF InChunks

LEMMA PoolNothingLost == PoolInv => NothingLost
<1> SUFFICES ASSUME PoolInv, NEW c \in chunks
             PROVE  IF kind = "sgi" THEN ChunkBytes(c) \ Accounted = {}
                                    ELSE Cardinality(ChunkBytes(c) \ Accounted) < RoundUp(MaxBytes)
  BY DEF NothingLost
<1> DEFINE U == UsedBlocks \cup FreeBlocks
           lost == ChunkBytes(c) \ Accounted
<1>r. RestBytes \subseteq Accounted
  BY DEF Accounted
<1>f. \A p \in FreeSlots : FreeBytes(p[1], p[2]) \subseteq Accounted
  BY DEF Accounted
<1>u. \A b \in live : LiveBytes(b) \subseteq Accounted
  BY DEF Accounted
<1>0. /\ ChunkCovered(BlockSizes, U, start, end, c) \/ ChunkGap(BlockSizes, U, start, end, c, brk, Gap)
      /\ PoolTypeOK /\ kind \in {"sgi", "fixed"} /\ brk \in Nat /\ Gap \in Nat
      /\ RoundUp(MaxBytes) = MaxBytes /\ MaxBytes \in Nat \ {0}
      /\ c.at \in Nat /\ c.size \in Nat
  BY PoolAssumption, SizeFacts DEF PoolInv, PoolTypeOK, Division, ChunksUsed, PoolAssumption
<1>1. ASSUME NEW a \in Int, Holds(BlockSizes, U, a) PROVE a \in Accounted
  <2>1. PICK p \in U : p[1] <= a /\ a < p[1] + BlockSizes[p[2]]
    BY <1>1 DEF Holds
  <2>2. CASE p \in UsedBlocks
    <3>1. PICK b \in live : p = <<b.at, ListIndex(b.n)>>
      BY <2>2 DEF UsedBlocks
    <3>2. a \in LiveBytes(b)
      BY <1>1, <2>1, <3>1, BlocksAre
    <3> QED
      BY <3>2, <1>u
  <2>3. CASE p \in FreeBlocks
    <3>1. PICK i \in Indices : p \in {<<x, i>> : x \in ToSet(lists[i])}
      BY <2>3 DEF FreeBlocks, FreeOf
    <3>2. PICK x \in ToSet(lists[i]) : p = <<x, i>>
      BY <3>1
    <3>3. PICK k \in DOMAIN lists[i] : x = lists[i][k]
      BY DEF ToSet
    <3>4. k \in 1..Len(lists[i])
      BY <3>3 DEF PoolInv, ListsOK
    <3> DEFINE q == <<i, k>>
    <3>5. q \in FreeSlots /\ q[1] = i /\ q[2] = k
      BY <3>4, BlocksAre
    <3>6. a \in FreeBytes(q[1], q[2])
      BY <1>1, <2>1, <3>2, <3>3, <3>5, BlocksAre
    <3> HIDE DEF q
    <3> QED
      BY <3>5, <3>6, <1>f
  <2> QED
    BY <2>2, <2>3
<1>2. ChunkBytes(c) = c.at..(c.at + c.size - 1) /\ ChunkBytes(c) \subseteq Int
  BY <1>0 DEF ChunkBytes
<1>3. CASE ChunkCovered(BlockSizes, U, start, end, c)
  <2>1. ASSUME NEW a \in ChunkBytes(c) PROVE a \in Accounted
    <3>1. a \in Int /\ (Holds(BlockSizes, U, a) \/ (start <= a /\ a < end))
      BY <1>2, <1>3 DEF ChunkCovered
    <3>2. start <= a /\ a < end => a \in RestBytes
      BY <3>1, BlocksAre
    <3>3. CASE Holds(BlockSizes, U, a)
      BY <1>1, <3>1, <3>3
    <3>4. CASE start <= a /\ a < end
      BY <3>2, <3>4, <1>r
    <3> QED
      BY <3>1, <3>3, <3>4
  <2>2. lost = {}
    BY <2>1
  <2>3. Cardinality({}) = 0
    BY FS_EmptySet
  <2> QED
    BY <1>0, <2>2, <2>3
<1>4. CASE ChunkGap(BlockSizes, U, start, end, c, brk, Gap)
  <2>1. PICK v \in 0..brk : \A a \in c.at..(c.at + c.size - 1) : Holds(BlockSizes, U, a) \/ (v <= a /\ a < v + Gap)
    BY <1>4 DEF ChunkGap
  <2>2. lost \subseteq v..(v + Gap - 1)
    <3> SUFFICES ASSUME NEW a \in ChunkBytes(c), a \notin Accounted PROVE v <= a /\ a <= v + Gap - 1
      BY <1>0, <1>2
    <3>1. a \in Int /\ ~Holds(BlockSizes, U, a)
      BY <1>1, <1>2
    <3>2. a \in c.at..(c.at + c.size - 1)
      BY <1>2
    <3>3. v <= a /\ a < v + Gap
      BY <2>1, <3>1, <3>2
    <3>4. v \in Int /\ Gap \in Int
      BY <1>0
    <3> HIDE DEF lost
    <3> QED
      BY <3>1, <3>3, <3>4
  <2>3. CASE kind = "sgi"
    <3>1. Gap = 0
      BY <2>3 DEF Gap
    <3>2. v..(v + Gap - 1) = {}
      BY <1>0, <3>1
    <3> QED
      BY <2>2, <2>3, <3>2
  <2>4. CASE kind = "fixed"
    <3>1. Gap = MaxBytes - 1
      BY <1>0, <2>4 DEF Gap
    <3>2. v \in Int /\ v + Gap - 1 \in Int
      BY <1>0
    <3>3. IsFiniteSet(v..(v + Gap - 1)) /\ Cardinality(v..(v + Gap - 1)) = IF v > v + Gap - 1 THEN 0 ELSE (v + Gap - 1) - v + 1
      BY <3>2, FS_Interval
    <3>4. Cardinality(lost) <= Cardinality(v..(v + Gap - 1)) /\ IsFiniteSet(lost)
      BY <2>2, <3>3, FS_Subset
    <3>5. Cardinality(lost) \in Nat
      BY <3>4, FS_CardinalityType
    <3>6. Cardinality(v..(v + Gap - 1)) = Gap
      BY <1>0, <3>2, <3>3
    <3> QED
      BY <1>0, <2>4, <3>1, <3>4, <3>5, <3>6
  <2> QED
    BY <1>0, <2>3, <2>4
<1> QED
  BY <1>0, <1>3, <1>4

\* All the memory the pools of memory_pool/ take is divided into blocks in use,
\* free blocks and the rest of the chunk, each byte in one of them and each block
\* in one chunk, for any alignment, sizes of blocks and requests and any number of
\* blocks cut at a time, running out of memory included.
THEOREM PoolMemoryDivided == Spec => []MemoryDivided
<1>1. PoolInv => MemoryDivided
  BY PoolNoOverlap, PoolInChunks, PoolNothingLost DEF MemoryDivided
<1> QED
  BY <1>1, PoolInvariance, PTL

-----------------------------------------------------------------------------
(* The sorted vector                                                       *)

\* std::less and std::greater.
Before(o, j, k) == IF o = 1 THEN j < k ELSE k < j

\* The keys in a vector.
Keyed(s) == {s[i][1] : i \in DOMAIN s}

\* A vector of pairs with strictly ascending keys, in the order o.
SortedBy(o, s) ==
  /\ s \in Seq(Pairs)
  /\ \A i, j \in 1..Len(s) : i < j => Before(o, s[i][1], s[j][1])

\* The inductive invariant of the vectors.
VectorInv ==
  /\ vec \in [Objects -> Seq(Pairs)] /\ order \in [Objects -> {1, -1}]
  /\ \A x \in Objects : SortedBy(order[x], vec[x])

\* The comparison of an object is one of the two.
LEMMA LessIs ==
  ASSUME NEW x, order[x] \in {1, -1}
  PROVE  \A j, k \in Int : Less(x, j, k) <=> Before(order[x], j, k)
BY DEF Less, Before

\* The elements of a vector, as the provers use them.
LEMMA PairsOf ==
  ASSUME NEW s \in Seq(Pairs)
  PROVE  /\ Len(s) \in Nat /\ DOMAIN s = 1..Len(s)
         /\ \A i \in 1..Len(s) : s[i] \in Pairs /\ s[i][1] \in Keys /\ s[i][1] \in Int /\ s[i][2] \in Vals
         /\ \A k : k \in Keyed(s) <=> \E i \in 1..Len(s) : s[i][1] = k
<1>1. \A i \in 1..Len(s) : s[i] \in Pairs
  OBVIOUS
<1>2. \A i \in 1..Len(s) : s[i][1] \in Keys /\ s[i][1] \in Int /\ s[i][2] \in Vals
  BY <1>1, VectorAssumption DEF VectorAssumption, Pairs
<1> QED
  BY <1>1, <1>2 DEF Keyed

\* A set of naturals has a least member.
LEMMA LeastMember ==
  ASSUME NEW T, T \subseteq Nat, T # {}
  PROVE  \E m \in T : \A n \in T : m <= n
<1>1. \E m \in T : \A n \in T : ~(<<n, m>> \in OpToRel(<, Nat))
  BY NatLessThanWellFounded, WFMin, Zenon
<1>2. PICK m \in T : \A n \in T : ~(<<n, m>> \in OpToRel(<, Nat))
  BY <1>1
<1>3. \A n \in T : ~(n < m)
  BY <1>2 DEF OpToRel
<1>4. \A n \in T : m <= n
  BY <1>3
<1> QED
  BY <1>4

\* lower_bound finds the first key that is not before the one asked for.
LEMMA LowerBoundIs ==
  ASSUME NEW x, order[x] \in {1, -1}, NEW s \in Seq(Pairs), NEW k \in Int
  PROVE  /\ LowerBound(x, s, k) \in 1..(Len(s) + 1)
         /\ \A j \in 1..(LowerBound(x, s, k) - 1) : Before(order[x], s[j][1], k)
         /\ LowerBound(x, s, k) <= Len(s) => ~Before(order[x], s[LowerBound(x, s, k)][1], k)
<1>0. /\ Len(s) \in Nat /\ \A i \in 1..Len(s) : s[i][1] \in Int
      /\ \A j \in Int : Less(x, j, k) <=> Before(order[x], j, k)
  BY PairsOf, LessIs
<1> DEFINE P(i) == /\ \A j \in 1..(i - 1) : Less(x, s[j][1], k)
                   /\ i = End(s) \/ ~Less(x, s[i][1], k)
           T == {i \in 1..(Len(s) + 1) : i = Len(s) + 1 \/ ~Less(x, s[i][1], k)}
<1>1. T \subseteq Nat /\ Len(s) + 1 \in T
  BY <1>0
<1>2. PICK m \in T : \A n \in T : m <= n
  BY <1>1, LeastMember
<1>3. \A j \in 1..(m - 1) : j \in 1..(Len(s) + 1) /\ j # Len(s) + 1 /\ ~(m <= j)
  BY <1>0, <1>2
<1>4. m \in 1..End(s) /\ P(m)
  BY <1>0, <1>2, <1>3 DEF End
<1>5. LowerBound(x, s, k) \in 1..End(s) /\ P(LowerBound(x, s, k))
  <2> HIDE DEF P
  <2>1. \E i \in 1..End(s) : P(i)
    BY <1>4
  <2>2. LowerBound(x, s, k) = CHOOSE i \in 1..End(s) : P(i)
    BY DEF LowerBound, P
  <2> QED
    BY <2>1, <2>2
<1> QED
  BY <1>0, <1>5 DEF End

\* In a sorted vector the position lower_bound finds tells whether the key is there.
LEMMA FoundIs ==
  ASSUME NEW o \in {1, -1}, NEW s, SortedBy(o, s), NEW k \in Int, NEW i \in 1..(Len(s) + 1),
         \A j \in 1..(i - 1) : Before(o, s[j][1], k), i <= Len(s) => ~Before(o, s[i][1], k)
  PROVE  /\ i <= Len(s) /\ ~Before(o, k, s[i][1]) => s[i][1] = k
         /\ k \in Keyed(s) <=> i <= Len(s) /\ ~Before(o, k, s[i][1])
         /\ k \notin Keyed(s) => \A j \in i..Len(s) : Before(o, k, s[j][1])
<1>0. /\ s \in Seq(Pairs) /\ Len(s) \in Nat /\ \A j \in 1..Len(s) : s[j][1] \in Int
      /\ \A n, j \in 1..Len(s) : n < j => Before(o, s[n][1], s[j][1])
      /\ k \in Keyed(s) <=> \E j \in 1..Len(s) : s[j][1] = k
  BY PairsOf DEF SortedBy
<1>1. i <= Len(s) /\ ~Before(o, k, s[i][1]) => s[i][1] = k
  BY <1>0 DEF Before
<1>2. ASSUME i <= Len(s), s[i][1] # k PROVE \A j \in i..Len(s) : Before(o, k, s[j][1])
  <2> SUFFICES ASSUME NEW j \in i..Len(s) PROVE Before(o, k, s[j][1])
    OBVIOUS
  <2>1. Before(o, k, s[i][1])
    BY <1>0, <1>1, <1>2
  <2>2. j \in 1..Len(s) /\ i \in 1..Len(s) /\ (i = j \/ i < j)
    BY <1>0, <1>2
  <2>3. CASE i = j
    BY <2>1, <2>3
  <2>4. CASE i < j
    <3>1. Before(o, s[i][1], s[j][1])
      BY <1>0, <2>2, <2>4
    <3> QED
      BY <1>0, <2>1, <2>2, <3>1 DEF Before
  <2> QED
    BY <2>2, <2>3, <2>4
<1>3. ASSUME k \in Keyed(s) PROVE i <= Len(s) /\ s[i][1] = k
  <2>1. PICK j \in 1..Len(s) : s[j][1] = k
    BY <1>0, <1>3
  <2>2. ~(j \in 1..(i - 1))
    BY <1>0, <2>1 DEF Before
  <2>3. i <= j /\ i <= Len(s) /\ j \in i..Len(s)
    BY <1>0, <2>2
  <2>4. s[i][1] # k => Before(o, k, s[j][1])
    BY <1>2, <2>3
  <2> QED
    BY <1>0, <2>1, <2>3, <2>4 DEF Before
<1>4. ASSUME i <= Len(s), s[i][1] = k PROVE k \in Keyed(s) /\ ~Before(o, k, s[i][1])
  BY <1>0, <1>4 DEF Before
<1>5. ASSUME k \notin Keyed(s) PROVE \A j \in i..Len(s) : Before(o, k, s[j][1])
  <2>1. CASE i <= Len(s)
    BY <1>2, <1>4, <1>5, <2>1
  <2>2. CASE ~(i <= Len(s))
    BY <1>0, <2>2
  <2> QED
    BY <2>1, <2>2
<1> QED
  BY <1>1, <1>3, <1>4, <1>5

\* The function a sorted vector stands for.
LEMMA AsMapIs ==
  ASSUME NEW o \in {1, -1}, NEW s, SortedBy(o, s)
  PROVE  /\ DOMAIN AsMap(s) = Keyed(s) /\ AsMap(s) = [k \in Keyed(s) |-> AsMap(s)[k]]
         /\ \A i \in 1..Len(s) : s[i][1] \in Keyed(s) /\ AsMap(s)[s[i][1]] = s[i][2]
<1>0. /\ s \in Seq(Pairs) /\ DOMAIN s = 1..Len(s) /\ Len(s) \in Nat
      /\ \A j \in 1..Len(s) : s[j][1] \in Int
      /\ \A n, j \in 1..Len(s) : n < j => Before(o, s[n][1], s[j][1])
  BY PairsOf DEF SortedBy
<1>1. \A i, j \in 1..Len(s) : s[i][1] = s[j][1] => i = j
  <2> SUFFICES ASSUME NEW i \in 1..Len(s), NEW j \in 1..Len(s), s[i][1] = s[j][1], i < j PROVE FALSE
    BY <1>0
  <2> QED
    BY <1>0 DEF Before
<1>2. DOMAIN AsMap(s) = Keyed(s) /\ AsMap(s) = [k \in Keyed(s) |-> AsMap(s)[k]]
  BY DEF AsMap, Keyed
<1>3. ASSUME NEW i \in 1..Len(s) PROVE s[i][1] \in Keyed(s) /\ AsMap(s)[s[i][1]] = s[i][2]
  <2>1. s[i][1] \in Keyed(s)
    BY <1>0 DEF Keyed
  <2> DEFINE n == CHOOSE j \in DOMAIN s : s[j][1] = s[i][1]
  <2>2. AsMap(s)[s[i][1]] = s[n][2]
    BY <2>1 DEF AsMap, Keyed
  <2>3. n = i
    BY <1>0, <1>1
  <2> HIDE DEF n
  <2> QED
    BY <2>1, <2>2, <2>3
<1> QED
  BY <1>2, <1>3

\* Two functions with one domain and the same values are equal.
LEMMA SameMap ==
  ASSUME NEW D, NEW f, NEW g, f = [k \in D |-> f[k]], g = [k \in D |-> g[k]],
         \A k \in D : f[k] = g[k]
  PROVE  f = g
<1>1. [k \in D |-> f[k]] = [k \in D |-> g[k]]
  OBVIOUS
<1> QED
  BY <1>1

\* A pair put where it fits strictly between its neighbours.
LEMMA InsertedAt ==
  ASSUME NEW s \in Seq(Pairs), NEW p \in Pairs, NEW i \in 1..(Len(s) + 1)
  PROVE  /\ InsertAt(s, i, p) \in Seq(Pairs) /\ Len(InsertAt(s, i, p)) = Len(s) + 1
         /\ \A j \in 1..(i - 1) : InsertAt(s, i, p)[j] = s[j]
         /\ InsertAt(s, i, p)[i] = p
         /\ \A j \in (i + 1)..(Len(s) + 1) : InsertAt(s, i, p)[j] = s[j - 1]
<1> DEFINE a == SubSeq(s, 1, i - 1)
           b == SubSeq(s, i, Len(s))
<1>0. Len(s) \in Nat /\ \A j \in 1..Len(s) : s[j] \in Pairs
  OBVIOUS
<1>1. /\ a \in Seq(Pairs) /\ Len(a) = i - 1 /\ \A j \in 1..(i - 1) : a[j] = s[j]
  <2>1. \A j \in 1..(i - 1) : s[j] \in Pairs
    BY <1>0
  <2>2. 1 \in Int /\ i - 1 \in Int
    OBVIOUS
  <2>3. /\ a \in Seq(Pairs) /\ Len(a) = IF 1 <= i - 1 THEN (i - 1) - 1 + 1 ELSE 0
        /\ \A j \in 1..((i - 1) - 1 + 1) : a[j] = s[1 + j - 1]
    BY <2>1, <2>2, SubSeqProperties
  <2> HIDE DEF a
  <2>4. \A j \in 1..(i - 1) : 1 + j - 1 = j /\ j \in 1..((i - 1) - 1 + 1)
    OBVIOUS
  <2> QED
    BY <2>3, <2>4
<1>2. /\ b \in Seq(Pairs) /\ Len(b) = Len(s) - i + 1 /\ \A j \in 1..(Len(s) - i + 1) : b[j] = s[i + j - 1]
  <2>1. \A j \in i..Len(s) : s[j] \in Pairs
    BY <1>0
  <2>2. i \in Int /\ Len(s) \in Int
    BY <1>0
  <2>3. /\ b \in Seq(Pairs) /\ Len(b) = IF i <= Len(s) THEN Len(s) - i + 1 ELSE 0
        /\ \A j \in 1..(Len(s) - i + 1) : b[j] = s[i + j - 1]
    BY <2>1, <2>2, SubSeqProperties
  <2> HIDE DEF b
  <2> QED
    BY <1>0, <2>3
<1> HIDE DEF a, b
<1> DEFINE c == a \o <<p>>
           d == c \o b
<1>3. c \in Seq(Pairs) /\ Len(c) = i /\ (\A j \in 1..(i - 1) : c[j] = s[j]) /\ c[i] = p
  BY <1>1
<1> HIDE DEF c
<1>4. /\ d \in Seq(Pairs) /\ Len(d) = Len(s) + 1 
      /\ \A j \in 1..i : d[j] = c[j]
      /\ \A j \in (i + 1)..(Len(s) + 1) : d[j] = b[j - i]
  <2>1. /\ d \in Seq(Pairs) /\ Len(d) = Len(c) + Len(b)
        /\ \A j \in 1..(Len(c) + Len(b)) : d[j] = IF j <= Len(c) THEN c[j] ELSE b[j - Len(c)]
    BY <1>2, <1>3, ConcatProperties
  <2> HIDE DEF d
  <2> QED
    BY <1>0, <1>2, <1>3, <2>1
<1>5. d = InsertAt(s, i, p)
  BY DEF InsertAt, a, b, c
<1> HIDE DEF d
<1>6. \A j \in (i + 1)..(Len(s) + 1) : d[j] = s[j - 1]
  <2> SUFFICES ASSUME NEW j \in (i + 1)..(Len(s) + 1) PROVE d[j] = s[j - 1]
    OBVIOUS
  <2>1. j - i \in 1..(Len(s) - i + 1) /\ i + (j - i) - 1 = j - 1
    BY <1>0
  <2> QED
    BY <1>2, <1>4, <2>1
<1>7. i \in 1..i /\ \A j \in 1..(i - 1) : j \in 1..i
  OBVIOUS
<1> QED
  BY <1>3, <1>4, <1>5, <1>6, <1>7

\* Taking the positions i..j - 1 out.
Without(s, i, j) == SubSeq(s, 1, i - 1) \o SubSeq(s, j, Len(s))

LEMMA CutOut ==
  ASSUME NEW s \in Seq(Pairs), NEW i \in 1..(Len(s) + 1), NEW j \in i..(Len(s) + 1)
  PROVE  /\ Without(s, i, j) \in Seq(Pairs) /\ Len(Without(s, i, j)) = Len(s) - (j - i)
         /\ \A n \in 1..(i - 1) : Without(s, i, j)[n] = s[n]
         /\ \A n \in i..(Len(s) - (j - i)) : Without(s, i, j)[n] = s[n + (j - i)]
<1> DEFINE a == SubSeq(s, 1, i - 1)
           b == SubSeq(s, j, Len(s))
<1>0. Len(s) \in Nat /\ \A n \in 1..Len(s) : s[n] \in Pairs
  OBVIOUS
<1>1. /\ a \in Seq(Pairs) /\ Len(a) = i - 1 /\ \A n \in 1..(i - 1) : a[n] = s[n]
  <2>1. \A n \in 1..(i - 1) : s[n] \in Pairs
    BY <1>0
  <2>2. 1 \in Int /\ i - 1 \in Int
    OBVIOUS
  <2>3. /\ a \in Seq(Pairs) /\ Len(a) = IF 1 <= i - 1 THEN (i - 1) - 1 + 1 ELSE 0
        /\ \A n \in 1..((i - 1) - 1 + 1) : a[n] = s[1 + n - 1]
    BY <2>1, <2>2, SubSeqProperties
  <2> HIDE DEF a
  <2>4. \A n \in 1..(i - 1) : 1 + n - 1 = n /\ n \in 1..((i - 1) - 1 + 1)
    OBVIOUS
  <2> QED
    BY <2>3, <2>4
<1>2. /\ b \in Seq(Pairs) /\ Len(b) = Len(s) - j + 1 /\ \A n \in 1..(Len(s) - j + 1) : b[n] = s[j + n - 1]
  <2>1. \A n \in j..Len(s) : s[n] \in Pairs
    BY <1>0
  <2>2. j \in Int /\ Len(s) \in Int
    BY <1>0
  <2>3. /\ b \in Seq(Pairs) /\ Len(b) = IF j <= Len(s) THEN Len(s) - j + 1 ELSE 0
        /\ \A n \in 1..(Len(s) - j + 1) : b[n] = s[j + n - 1]
    BY <2>1, <2>2, SubSeqProperties
  <2> HIDE DEF b
  <2> QED
    BY <1>0, <2>3
<1> DEFINE t == a \o b
<1>3. t = Without(s, i, j)
  BY DEF Without
<1> HIDE DEF a, b
<1>4. /\ t \in Seq(Pairs) /\ Len(t) = Len(a) + Len(b)
      /\ \A n \in 1..(Len(a) + Len(b)) : t[n] = IF n <= Len(a) THEN a[n] ELSE b[n - Len(a)]
  BY <1>1, <1>2, ConcatProperties
<1> HIDE DEF t
<1>5. Len(t) = Len(s) - (j - i)
  BY <1>0, <1>1, <1>2, <1>4
<1>6. \A n \in 1..(i - 1) : t[n] = s[n]
  BY <1>0, <1>1, <1>2, <1>4
<1>7. ASSUME NEW n \in i..(Len(s) - (j - i)) PROVE t[n] = s[n + (j - i)]
  <2>1. /\ n \in 1..(Len(a) + Len(b)) /\ ~(n <= Len(a)) /\ n - Len(a) \in 1..(Len(s) - j + 1)
        /\ j + (n - Len(a)) - 1 = n + (j - i)
    BY <1>0, <1>1, <1>2, <1>4
  <2>2. t[n] = b[n - Len(a)]
    BY <1>4, <2>1
  <2> QED
    BY <1>2, <2>1, <2>2
<1> QED
  BY <1>3, <1>4, <1>5, <1>6, <1>7

\* A pair with a new key, put between the smaller and the greater keys, leaves a
\* sorted vector that stands for the function with the pair added.
LEMMA PairAdded ==
  ASSUME NEW o \in {1, -1}, NEW s, SortedBy(o, s), NEW p \in Pairs, NEW i \in 1..(Len(s) + 1),
         \A j \in 1..(i - 1) : Before(o, s[j][1], p[1]), \A j \in i..Len(s) : Before(o, p[1], s[j][1])
  PROVE  /\ SortedBy(o, InsertAt(s, i, p)) /\ p[1] \notin Keyed(s)
         /\ AsMap(InsertAt(s, i, p)) = Map!With(AsMap(s), p[1], p[2])
         /\ i \in 1..Len(InsertAt(s, i, p)) /\ InsertAt(s, i, p)[i] = p
<1> DEFINE t == InsertAt(s, i, p)
<1>0. /\ s \in Seq(Pairs) /\ DOMAIN s = 1..Len(s) /\ Len(s) \in Nat
      /\ \A j \in 1..Len(s) : s[j][1] \in Int /\ s[j][1] \in Keys
      /\ \A n, j \in 1..Len(s) : n < j => Before(o, s[n][1], s[j][1])
      /\ p[1] \in Keys /\ p[1] \in Int
      /\ \A k : k \in Keyed(s) <=> \E j \in 1..Len(s) : s[j][1] = k
  BY PairsOf, VectorAssumption DEF SortedBy, VectorAssumption, Pairs
<1>1. /\ t \in Seq(Pairs) /\ Len(t) = Len(s) + 1
      /\ \A j \in 1..(i - 1) : t[j] = s[j]
      /\ t[i] = p
      /\ \A j \in (i + 1)..(Len(s) + 1) : t[j] = s[j - 1]
  <2>1. s \in Seq(Pairs)
    BY <1>0
  <2> QED
    BY <2>1, InsertedAt, Zenon
<1> HIDE DEF t
<1>2. ASSUME NEW m \in 1..Len(t), NEW n \in 1..Len(t), m < n PROVE Before(o, t[m][1], t[n][1])
  <2>1. CASE n < i
    <3>1. m \in 1..(i - 1) /\ n \in 1..(i - 1) /\ m \in 1..Len(s) /\ n \in 1..Len(s)
      BY <1>0, <1>1, <1>2, <2>1
    <3> QED
      BY <1>0, <1>1, <1>2, <3>1
  <2>2. CASE n = i
    <3>1. m \in 1..(i - 1)
      BY <1>0, <1>1, <1>2, <2>2
    <3> QED
      BY <1>1, <2>2, <3>1
  <2>3. CASE n > i
    <3>1. n \in (i + 1)..(Len(s) + 1) /\ n - 1 \in i..Len(s) /\ n - 1 \in 1..Len(s) /\ t[n] = s[n - 1]
      BY <1>0, <1>1, <2>3
    <3>2. CASE m < i
      <4>1. m \in 1..(i - 1) /\ m \in 1..Len(s) /\ m < n - 1
        BY <1>0, <1>1, <2>3, <3>2
      <4> QED
        BY <1>0, <1>1, <3>1, <4>1
    <3>3. CASE m = i
      BY <1>1, <3>1, <3>3
    <3>4. CASE m > i
      <4>1. m \in (i + 1)..(Len(s) + 1) /\ m - 1 \in 1..Len(s) /\ m - 1 < n - 1
        BY <1>0, <1>1, <1>2, <3>1, <3>4
      <4>2. t[m] = s[m - 1]
        BY <1>1, <4>1
      <4> QED
        BY <1>0, <3>1, <4>1, <4>2
    <3> QED
      BY <3>2, <3>3, <3>4
  <2> QED
    BY <2>1, <2>2, <2>3
<1>3. SortedBy(o, t)
  BY <1>1, <1>2 DEF SortedBy
<1>4. p[1] \notin Keyed(s)
  <2> SUFFICES ASSUME NEW j \in 1..Len(s), s[j][1] = p[1] PROVE FALSE
    BY <1>0
  <2>1. j \in 1..(i - 1) \/ j \in i..Len(s)
    BY <1>0
  <2> QED
    BY <1>0, <2>1 DEF Before
<1>5. /\ DOMAIN AsMap(t) = Keyed(t) /\ AsMap(t) = [k \in Keyed(t) |-> AsMap(t)[k]]
      /\ \A j \in 1..Len(t) : t[j][1] \in Keyed(t) /\ AsMap(t)[t[j][1]] = t[j][2]
      /\ \A k : k \in Keyed(t) <=> \E j \in 1..Len(t) : t[j][1] = k
  BY <1>1, <1>3, AsMapIs, PairsOf
<1>6. /\ DOMAIN AsMap(s) = Keyed(s)
      /\ \A j \in 1..Len(s) : AsMap(s)[s[j][1]] = s[j][2]
  BY AsMapIs
<1>7. ASSUME NEW j \in 1..Len(t)
      PROVE  t[j] = p \/ \E n \in 1..Len(s) : t[j] = s[n]
  <2>1. CASE j < i
    BY <1>0, <1>1, <2>1
  <2>2. CASE j = i
    BY <1>1, <2>2
  <2>3. CASE j > i
    <3>1. j \in (i + 1)..(Len(s) + 1) /\ j - 1 \in 1..Len(s)
      BY <1>0, <1>1, <2>3
    <3> QED
      BY <1>1, <3>1
  <2> QED
    BY <2>1, <2>2, <2>3
<1>8. ASSUME NEW n \in 1..Len(s) PROVE \E j \in 1..Len(t) : t[j] = s[n]
  <2>1. CASE n < i
    BY <1>0, <1>1, <2>1
  <2>2. CASE ~(n < i)
    <3>1. n + 1 \in (i + 1)..(Len(s) + 1) /\ n + 1 \in 1..Len(t) /\ (n + 1) - 1 = n
      BY <1>0, <1>1, <2>2
    <3> QED
      BY <1>1, <3>1
  <2> QED
    BY <2>1, <2>2
<1>9. i \in 1..Len(t)
  BY <1>0, <1>1
<1>10. Keyed(t) = Keyed(s) \cup {p[1]}
  <2>1. \A k \in Keyed(t) : k \in Keyed(s) \cup {p[1]}
    BY <1>0, <1>5, <1>7
  <2>2. \A k \in Keyed(s) : k \in Keyed(t)
    BY <1>0, <1>5, <1>8
  <2>3. p[1] \in Keyed(t)
    BY <1>1, <1>5, <1>9
  <2> QED
    BY <2>1, <2>2, <2>3
<1> DEFINE W == Map!With(AsMap(s), p[1], p[2])
<1>11. /\ W = [k \in Keyed(t) |-> IF k = p[1] THEN p[2] ELSE AsMap(s)[k]]
  BY <1>4, <1>6, <1>10 DEF Map!With
<1> HIDE DEF W
<1>12. ASSUME NEW k \in Keyed(t) PROVE AsMap(t)[k] = W[k]
  <2>1. PICK j \in 1..Len(t) : t[j][1] = k
    BY <1>5
  <2>2. CASE t[j] = p
    BY <1>5, <1>11, <2>1, <2>2
  <2>3. ASSUME NEW n \in 1..Len(s), t[j] = s[n] PROVE AsMap(t)[k] = W[k]
    <3>1. AsMap(t)[k] = s[n][2] /\ k = s[n][1] /\ AsMap(s)[k] = s[n][2]
      BY <1>5, <1>6, <2>1, <2>3
    <3>2. k # p[1]
      BY <1>0, <1>4, <3>1
    <3> QED
      BY <1>11, <3>1, <3>2
  <2> QED
    BY <1>7, <2>2, <2>3
<1>13. AsMap(t) = W
  <2>1. W = [k \in Keyed(t) |-> W[k]]
    BY <1>11
  <2> QED
    BY <1>5, <1>12, <2>1, SameMap
<1> QED
  BY <1>1, <1>3, <1>4, <1>9, <1>13 DEF t, W

\* insert(val) adds the pair unless the vector has the key.
LEMMA InsertedInto ==
  ASSUME NEW x, order[x] \in {1, -1}, NEW s, SortedBy(order[x], s), NEW p \in Pairs
  PROVE  /\ SortedBy(order[x], InsertInto(x, s, p).s)
         /\ AsMap(InsertInto(x, s, p).s) = Map!With(AsMap(s), p[1], p[2])
         /\ InsertInto(x, s, p).new <=> p[1] \notin Keyed(s)
         /\ InsertInto(x, s, p).at \in 1..Len(InsertInto(x, s, p).s)
         /\ InsertInto(x, s, p).s[InsertInto(x, s, p).at][1] = p[1]
<1> DEFINE i == LowerBound(x, s, p[1])
           o == order[x]
<1>0. s \in Seq(Pairs) /\ Len(s) \in Nat /\ p[1] \in Int /\ \A j \in 1..Len(s) : s[j][1] \in Int
  BY PairsOf, VectorAssumption DEF SortedBy, VectorAssumption, Pairs
<1>1. /\ i \in 1..(Len(s) + 1) /\ \A j \in 1..(i - 1) : Before(o, s[j][1], p[1])
      /\ i <= Len(s) => ~Before(o, s[i][1], p[1])
  <2>1. PICK k \in Int : k = p[1]
    BY <1>0
  <2>2. /\ LowerBound(x, s, k) \in 1..(Len(s) + 1)
        /\ \A j \in 1..(LowerBound(x, s, k) - 1) : Before(order[x], s[j][1], k)
        /\ LowerBound(x, s, k) <= Len(s) => ~Before(order[x], s[LowerBound(x, s, k)][1], k)
    BY <1>0, LowerBoundIs
  <2> QED
    BY <2>1, <2>2
<1> HIDE DEF i
<1>2. /\ i <= Len(s) /\ ~Before(o, p[1], s[i][1]) => s[i][1] = p[1]
      /\ p[1] \in Keyed(s) <=> i <= Len(s) /\ ~Before(o, p[1], s[i][1])
      /\ p[1] \notin Keyed(s) => \A j \in i..Len(s) : Before(o, p[1], s[j][1])
  BY <1>0, <1>1, FoundIs
<1>3. i = End(s) \/ Less(x, p[1], s[i][1]) <=> p[1] \notin Keyed(s)
  <2>1. i = End(s) <=> ~(i <= Len(s))
    BY <1>0, <1>1 DEF End
  <2>2. i <= Len(s) => (Less(x, p[1], s[i][1]) <=> Before(o, p[1], s[i][1]))
    BY <1>0, <1>1, LessIs
  <2> QED
    BY <1>2, <2>1, <2>2
<1>4. CASE p[1] \notin Keyed(s)
  <2>1. InsertInto(x, s, p) = [s |-> InsertAt(s, i, p), new |-> TRUE, at |-> i]
    BY <1>3, <1>4 DEF InsertInto, i
  <2>2. /\ SortedBy(o, InsertAt(s, i, p))
        /\ AsMap(InsertAt(s, i, p)) = Map!With(AsMap(s), p[1], p[2])
        /\ i \in 1..Len(InsertAt(s, i, p)) /\ InsertAt(s, i, p)[i] = p
    BY <1>1, <1>2, <1>4, PairAdded
  <2> QED
    BY <1>4, <2>1, <2>2
<1>5. CASE p[1] \in Keyed(s)
  <2>1. InsertInto(x, s, p) = [s |-> s, new |-> FALSE, at |-> i]
    BY <1>3, <1>5 DEF InsertInto, i
  <2>2. AsMap(s) = Map!With(AsMap(s), p[1], p[2])
    BY <1>5, AsMapIs DEF Map!With
  <2>3. i \in 1..Len(s) /\ s[i][1] = p[1]
    BY <1>0, <1>1, <1>2, <1>5
  <2> QED
    BY <1>5, <2>1, <2>2, <2>3
<1> QED
  BY <1>4, <1>5

\* Taking positions out of a sorted vector leaves the function without their keys.
KeysAt(s, i, j) == {s[n][1] : n \in i..(j - 1)}

LEMMA PairsRemoved ==
  ASSUME NEW o \in {1, -1}, NEW s, SortedBy(o, s), NEW i \in 1..(Len(s) + 1), NEW j \in i..(Len(s) + 1)
  PROVE  /\ SortedBy(o, Without(s, i, j)) /\ KeysAt(s, i, j) \subseteq Keyed(s)
         /\ AsMap(Without(s, i, j)) = Map!Restrict(AsMap(s), Keyed(s) \ KeysAt(s, i, j))
<1>s. PICK S : S = KeysAt(s, i, j) /\ S = {s[n][1] : n \in i..(j - 1)}
  BY DEF KeysAt
<1> DEFINE t == Without(s, i, j)
           d == j - i
<1>0. /\ s \in Seq(Pairs) /\ DOMAIN s = 1..Len(s) /\ Len(s) \in Nat
      /\ \A n \in 1..Len(s) : s[n][1] \in Int
      /\ \A m, n \in 1..Len(s) : m < n => Before(o, s[m][1], s[n][1])
      /\ \A k : k \in Keyed(s) <=> \E n \in 1..Len(s) : s[n][1] = k
  BY PairsOf DEF SortedBy
<1>1. /\ t \in Seq(Pairs) /\ Len(t) = Len(s) - d /\ d \in Nat /\ j = i + d
      /\ \A n \in 1..(i - 1) : t[n] = s[n]
      /\ \A n \in i..Len(t) : t[n] = s[n + d]
  BY <1>0, CutOut
<1> HIDE DEF t, d
<1>2. \A m, n \in 1..Len(s) : s[m][1] = s[n][1] => m = n
  <2> SUFFICES ASSUME NEW m \in 1..Len(s), NEW n \in 1..Len(s), s[m][1] = s[n][1], m < n PROVE FALSE
    BY <1>0
  <2> QED
    BY <1>0 DEF Before
\* Where a position of the new vector was in the old one.
<1> DEFINE was(n) == IF n < i THEN n ELSE n + d
<1>3. \A n \in 1..Len(t) : was(n) \in 1..Len(s) /\ (was(n) < i \/ j <= was(n)) /\ t[n] = s[was(n)]
  <2> SUFFICES ASSUME NEW n \in 1..Len(t)
               PROVE  was(n) \in 1..Len(s) /\ (was(n) < i \/ j <= was(n)) /\ t[n] = s[was(n)]
    OBVIOUS
  <2>1. CASE n < i
    BY <1>0, <1>1, <2>1
  <2>2. CASE ~(n < i)
    <3>1. n \in i..Len(t) /\ n + d \in 1..Len(s) /\ j <= n + d
      BY <1>0, <1>1, <2>2
    <3> QED
      BY <1>1, <2>2, <3>1
  <2> QED
    BY <2>1, <2>2
<1>4. \A m, n \in 1..Len(t) : m < n => was(m) < was(n)
  BY <1>0, <1>1
<1>5. ASSUME NEW m \in 1..Len(s), m < i \/ j <= m PROVE \E n \in 1..Len(t) : was(n) = m
  <2>1. CASE m < i
    BY <1>0, <1>1, <2>1
  <2>2. CASE j <= m
    <3>1. m - d \in 1..Len(t) /\ ~(m - d < i) /\ (m - d) + d = m
      BY <1>0, <1>1, <2>2
    <3> QED
      BY <3>1
  <2> QED
    BY <1>5, <2>1, <2>2
<1> HIDE DEF was
<1>6. SortedBy(o, t)
  BY <1>0, <1>1, <1>3, <1>4 DEF SortedBy
<1>7. S \subseteq Keyed(s)
  BY <1>0, <1>s
<1>8. /\ AsMap(t) = [k \in Keyed(t) |-> AsMap(t)[k]]
      /\ \A n \in 1..Len(t) : t[n][1] \in Keyed(t) /\ AsMap(t)[t[n][1]] = t[n][2]
      /\ \A k : k \in Keyed(t) <=> \E n \in 1..Len(t) : t[n][1] = k
  BY <1>1, <1>6, AsMapIs, PairsOf
<1>9. \A n \in 1..Len(s) : AsMap(s)[s[n][1]] = s[n][2]
  BY AsMapIs
<1>10. \A m \in 1..Len(s) : s[m][1] \in S <=> ~(m < i \/ j <= m)
  <2>1. \A m \in 1..Len(s) : ~(m < i \/ j <= m) <=> m \in i..(j - 1)
    BY <1>0
  <2>2. i..(j - 1) \subseteq 1..Len(s)
    BY <1>0
  <2> QED
    BY <1>2, <1>s, <2>1, <2>2
<1>11. Keyed(t) = Keyed(s) \ S
  <2>1. ASSUME NEW k \in Keyed(t) PROVE k \in Keyed(s) \ S
    <3>1. PICK n \in 1..Len(t) : t[n][1] = k
      BY <1>8
    <3>2. was(n) \in 1..Len(s) /\ (was(n) < i \/ j <= was(n)) /\ s[was(n)][1] = k
      BY <1>3, <3>1
    <3> QED
      BY <1>0, <1>10, <3>2
  <2>2. ASSUME NEW k \in Keyed(s), k \notin S PROVE k \in Keyed(t)
    <3>1. PICK m \in 1..Len(s) : s[m][1] = k
      BY <1>0
    <3>2. m < i \/ j <= m
      BY <1>10, <2>2, <3>1
    <3>3. PICK n \in 1..Len(t) : was(n) = m
      BY <1>5, <3>2
    <3> QED
      BY <1>3, <1>8, <3>1, <3>3
  <2> QED
    BY <2>1, <2>2
<1> DEFINE R == Map!Restrict(AsMap(s), Keyed(s) \ S)
<1>12. R = [k \in Keyed(t) |-> AsMap(s)[k]]
  BY <1>11 DEF Map!Restrict
<1> HIDE DEF R
<1>13. ASSUME NEW k \in Keyed(t) PROVE AsMap(t)[k] = R[k]
  <2>1. PICK n \in 1..Len(t) : t[n][1] = k
    BY <1>8
  <2>2. AsMap(t)[k] = t[n][2] /\ AsMap(s)[k] = t[n][2]
    BY <1>3, <1>8, <1>9, <2>1
  <2> QED
    BY <1>12, <2>2
<1>14. AsMap(t) = R
  <2>1. R = [k \in Keyed(t) |-> R[k]]
    BY <1>12
  <2> QED
    BY <1>8, <1>13, <2>1, SameMap
<1> QED
  BY <1>6, <1>7, <1>14, <1>s DEF t, R

\* find() yields the position of the key, or end().
LEMMA FindPosIs ==
  ASSUME VectorInv, NEW x \in Objects, NEW k \in Keys
  PROVE  /\ FindPos(x, k) \in 1..(Len(vec[x]) + 1) /\ Len(vec[x]) \in Nat
         /\ FindPos(x, k) = End(vec[x]) <=> k \notin Keyed(vec[x])
         /\ k \in Keyed(vec[x]) => FindPos(x, k) \in 1..Len(vec[x]) /\ vec[x][FindPos(x, k)][1] = k
<1> DEFINE s == vec[x]
           o == order[x]
           i == LowerBound(x, s, k)
<1>0. /\ o \in {1, -1} /\ SortedBy(o, s) /\ s \in Seq(Pairs) /\ Len(s) \in Nat /\ k \in Int
      /\ \A j \in 1..Len(s) : s[j][1] \in Int
  BY PairsOf, VectorAssumption DEF SortedBy, VectorAssumption, VectorInv
<1> HIDE DEF s
<1>1. /\ i \in 1..(Len(s) + 1) /\ \A j \in 1..(i - 1) : Before(o, s[j][1], k)
      /\ i <= Len(s) => ~Before(o, s[i][1], k)
  BY <1>0, LowerBoundIs
<1>2. FindPos(x, k) = IF i # End(s) /\ Less(x, k, s[i][1]) THEN End(s) ELSE i
  BY DEF FindPos, s
<1>l. i <= Len(s) => (Less(x, k, s[i][1]) <=> Before(o, k, s[i][1]))
  BY <1>0, <1>1, LessIs
<1> HIDE DEF i, o
<1>3. /\ i <= Len(s) /\ ~Before(o, k, s[i][1]) => s[i][1] = k
      /\ k \in Keyed(s) <=> i <= Len(s) /\ ~Before(o, k, s[i][1])
  BY <1>0, <1>1, FoundIs
<1>4. End(s) = Len(s) + 1 /\ (i = End(s) <=> ~(i <= Len(s)))
  BY <1>0, <1>1 DEF End
<1>5. CASE k \in Keyed(s)
  <2>1. FindPos(x, k) = i /\ i <= Len(s) /\ s[i][1] = k
    BY <1>2, <1>3, <1>4, <1>5, <1>l
  <2> QED
    BY <1>0, <1>1, <1>4, <1>5, <2>1 DEF s
<1>6. CASE k \notin Keyed(s)
  <2>1. FindPos(x, k) = End(s)
    BY <1>2, <1>3, <1>4, <1>6, <1>l
  <2> QED
    BY <1>0, <1>4, <1>6, <2>1 DEF s
<1> QED
  BY <1>5, <1>6

\* The functions the vectors stand for.
AbsMap == [x \in Objects |-> AsMap(vec[x])]

\* A change of one object's vector keeps the invariant and changes the function of
\* that object.
LEMMA OneChanged ==
  ASSUME VectorInv, NEW x \in Objects, NEW t, SortedBy(order[x], t),
         vec' = [vec EXCEPT ![x] = t], order' = order
  PROVE  /\ VectorInv' /\ AbsMap' = [AbsMap EXCEPT ![x] = AsMap(t)]
         /\ vec'[x] = t /\ AbsMap[x] = AsMap(vec[x]) /\ AbsMap'[x] = AsMap(t)
<1>0. vec \in [Objects -> Seq(Pairs)] /\ t \in Seq(Pairs)
  BY DEF VectorInv, SortedBy
<1>1. vec' \in [Objects -> Seq(Pairs)] /\ vec'[x] = t /\ \A y \in Objects : y # x => vec'[y] = vec[y]
  BY <1>0
<1>2. VectorInv'
  BY <1>1 DEF VectorInv
<1>3. AbsMap' = [y \in Objects |-> AsMap(vec'[y])]
  BY DEF AbsMap, AsMap
<1>4. AbsMap' = [AbsMap EXCEPT ![x] = AsMap(t)]
  BY <1>1, <1>3 DEF AbsMap
<1> QED
  BY <1>1, <1>2, <1>3, <1>4 DEF AbsMap

\* What the calls of the abstract map are in terms of the function each vector
\* stands for.
LEMMA AbstractCalls ==
  ASSUME NEW x \in Objects, AbsMap[x] = AsMap(vec[x])
  PROVE  /\ \A k, v : /\ AbsMap' = [AbsMap EXCEPT ![x] = Map!With(AbsMap[x], k, v)]
                      /\ ret' = (IF k \in DOMAIN AbsMap[x] THEN "old" ELSE "new")
                      => Map!Insert(x, k, v)
         /\ \A k, v : /\ AbsMap' = [AbsMap EXCEPT ![x] = Map!With(AbsMap[x], k, v)]
                      /\ ret' = AbsMap'[x][k]
                      => Map!Place(x, k, v)
         /\ \A kv : /\ AbsMap' = [AbsMap EXCEPT ![x] = Map!With(Map!With(AbsMap[x], kv[1][1], kv[1][2]), kv[2][1], kv[2][2])]
                    /\ ret' = "none"
                    => Map!Fill(x, kv)
         /\ \A kv : /\ AbsMap' = [AbsMap EXCEPT ![x] = Map!With(Map!With(AsMap(<<>>), kv[1][1], kv[1][2]), kv[2][1], kv[2][2])]
                    /\ ret' = "none"
                    => Map!Refill(x, kv)
         /\ \A k : /\ AbsMap' = [AbsMap EXCEPT ![x] = Map!Restrict(AbsMap[x], (DOMAIN AbsMap[x]) \ {k})]
                   /\ ret' = (IF k \in DOMAIN AbsMap[x] THEN "erased" ELSE "absent")
                   => Map!Erase(x, k)
         /\ \A S : /\ AbsMap' = [AbsMap EXCEPT ![x] = Map!Restrict(AbsMap[x], (DOMAIN AbsMap[x]) \ S)]
                   /\ ret' = "none"
                   => Map!Remove(x, S)
         /\ \A k : /\ AbsMap' = AbsMap
                   /\ ret' = (IF k \in DOMAIN AbsMap[x] THEN AbsMap[x][k] ELSE "none")
                   => Map!Find(x, k)
         /\ \A y : AbsMap' = [AbsMap EXCEPT ![x] = AbsMap[y], ![y] = AbsMap[x]] /\ ret' = "none" => Map!Swap(x, y)
         /\ \A y : AbsMap' = [AbsMap EXCEPT ![x] = AbsMap[y]] /\ ret' = "none" => Map!Copy(x, y)
<1>1. AsMap(<<>>) = Map!Empty
  BY DEF AsMap, Map!Empty
<1>2. \A k, v : /\ AbsMap' = [AbsMap EXCEPT ![x] = Map!With(AbsMap[x], k, v)]
                      /\ ret' = (IF k \in DOMAIN AbsMap[x] THEN "old" ELSE "new")
                      => Map!Insert(x, k, v)
  BY DEF AbsMap, Map!Insert, Map!Held
<1>3. \A k, v : /\ AbsMap' = [AbsMap EXCEPT ![x] = Map!With(AbsMap[x], k, v)]
                      /\ ret' = AbsMap'[x][k]
                      => Map!Place(x, k, v)
  BY DEF AbsMap, Map!Place
<1>4. \A kv : /\ AbsMap' = [AbsMap EXCEPT ![x] = Map!With(Map!With(AbsMap[x], kv[1][1], kv[1][2]), kv[2][1], kv[2][2])]
                    /\ ret' = "none"
                    => Map!Fill(x, kv)
  BY DEF AbsMap, Map!Fill, Map!None
<1>5. \A kv : /\ AbsMap' = [AbsMap EXCEPT ![x] = Map!With(Map!With(AsMap(<<>>), kv[1][1], kv[1][2]), kv[2][1], kv[2][2])]
                    /\ ret' = "none"
                    => Map!Refill(x, kv)
  BY <1>1 DEF AbsMap, Map!Refill, Map!None
<1>6. \A k : /\ AbsMap' = [AbsMap EXCEPT ![x] = Map!Restrict(AbsMap[x], (DOMAIN AbsMap[x]) \ {k})]
                   /\ ret' = (IF k \in DOMAIN AbsMap[x] THEN "erased" ELSE "absent")
                   => Map!Erase(x, k)
  BY DEF AbsMap, Map!Erase, Map!Held
<1>7. \A S : /\ AbsMap' = [AbsMap EXCEPT ![x] = Map!Restrict(AbsMap[x], (DOMAIN AbsMap[x]) \ S)]
                   /\ ret' = "none"
                   => Map!Remove(x, S)
  BY DEF AbsMap, Map!Remove, Map!Held, Map!None
<1>8. \A k : /\ AbsMap' = AbsMap
                   /\ ret' = (IF k \in DOMAIN AbsMap[x] THEN AbsMap[x][k] ELSE "none")
                   => Map!Find(x, k)
  BY DEF AbsMap, Map!Find, Map!Held, Map!None
<1>9. \A y : AbsMap' = [AbsMap EXCEPT ![x] = AbsMap[y], ![y] = AbsMap[x]] /\ ret' = "none" => Map!Swap(x, y)
  BY DEF AbsMap, Map!Swap, Map!None
<1>10. \A y : AbsMap' = [AbsMap EXCEPT ![x] = AbsMap[y]] /\ ret' = "none" => Map!Copy(x, y)
  BY DEF AbsMap, Map!Copy, Map!None
<1> QED
  BY <1>2, <1>3, <1>4, <1>5, <1>6, <1>7, <1>8, <1>9, <1>10

\* insert(val) on an object's own vector.
LEMMA InsertedHere ==
  ASSUME VectorInv, NEW x \in Objects
  PROVE  \A p \in Pairs :
           /\ SortedBy(order[x], InsertInto(x, vec[x], p).s)
           /\ AsMap(InsertInto(x, vec[x], p).s) = Map!With(AsMap(vec[x]), p[1], p[2])
           /\ InsertInto(x, vec[x], p).new <=> p[1] \notin Keyed(vec[x])
           /\ InsertInto(x, vec[x], p).at \in 1..Len(InsertInto(x, vec[x], p).s)
           /\ InsertInto(x, vec[x], p).s[InsertInto(x, vec[x], p).at][1] = p[1]
<1>1. order[x] \in {1, -1} /\ SortedBy(order[x], vec[x])
  BY DEF VectorInv
<1>2. PICK s : s = vec[x]
  OBVIOUS
<1> SUFFICES ASSUME NEW p \in Pairs
             PROVE  /\ SortedBy(order[x], InsertInto(x, s, p).s)
                    /\ AsMap(InsertInto(x, s, p).s) = Map!With(AsMap(s), p[1], p[2])
                    /\ InsertInto(x, s, p).new <=> p[1] \notin Keyed(s)
                    /\ InsertInto(x, s, p).at \in 1..Len(InsertInto(x, s, p).s)
                    /\ InsertInto(x, s, p).s[InsertInto(x, s, p).at][1] = p[1]
  BY <1>2
<1>3. SortedBy(order[x], s)
  BY <1>1, <1>2
<1> QED
  BY <1>1, <1>3, InsertedInto

\* Every call keeps the vectors sorted and is a call of the abstract map, or changes
\* nothing there.
LEMMA VectorStep ==
  ASSUME VectorInv, [VectorNext]_vectorVars
  PROVE  VectorInv' /\ [Map!Next]_(Map!mapVars)
<1>0. /\ vec \in [Objects -> Seq(Pairs)] /\ order \in [Objects -> {1, -1}]
      /\ \A x \in Objects : /\ order[x] \in {1, -1} /\ SortedBy(order[x], vec[x]) /\ vec[x] \in Seq(Pairs)
                            /\ AbsMap[x] = AsMap(vec[x]) /\ DOMAIN AbsMap[x] = Keyed(vec[x])
  BY AsMapIs DEF VectorInv, AbsMap
<1>p. Default \in Vals /\ \A p \in Pairs : p[1] \in Keys /\ p[2] \in Vals /\ p = <<p[1], p[2]>>
  BY VectorAssumption DEF VectorAssumption, Pairs
<1>r. \A pp \in Ranges : pp[1] \in Pairs /\ pp[2] \in Pairs
  BY VectorAssumption DEF VectorAssumption
<1>1. ASSUME NEW x \in Objects, NEW k \in Keys, Index(x, k)
      PROVE  VectorInv' /\ Map!Place(x, k, Default)
  <2> DEFINE p == <<k, Default>>
             r == InsertInto(x, vec[x], p)
  <2>1. p \in Pairs /\ p[1] = k /\ p[2] = Default
    BY <1>p DEF Pairs
  <2>2. vec' = [vec EXCEPT ![x] = r.s] /\ ret' = r.s[r.at][2] /\ order' = order
    BY <1>1 DEF Index
  <2> HIDE DEF p
  <2>3. /\ SortedBy(order[x], r.s) /\ AsMap(r.s) = Map!With(AsMap(vec[x]), k, Default)
        /\ r.at \in 1..Len(r.s) /\ r.s[r.at][1] = k
    <3>1. /\ SortedBy(order[x], r.s) /\ AsMap(r.s) = Map!With(AsMap(vec[x]), p[1], p[2])
          /\ r.at \in 1..Len(r.s) /\ r.s[r.at][1] = p[1]
      BY <2>1, InsertedHere
    <3> QED
      BY <2>1, <3>1
  <2> HIDE DEF r
  <2>4. VectorInv' /\ AbsMap' = [AbsMap EXCEPT ![x] = AsMap(r.s)] /\ AbsMap'[x] = AsMap(r.s)
    BY <2>3, <2>2, OneChanged
  <2>5. AsMap(r.s)[k] = r.s[r.at][2]
    BY <1>0, <2>3, AsMapIs
  <2> QED
    BY <1>0, <2>3, <2>2, <2>4, <2>5, AbstractCalls
<1>2. ASSUME NEW x \in Objects, NEW p \in Pairs, InsertPair(x, p)
      PROVE  VectorInv' /\ Map!Insert(x, p[1], p[2])
  <2> DEFINE r == InsertInto(x, vec[x], p)
  <2>1. /\ SortedBy(order[x], r.s) /\ AsMap(r.s) = Map!With(AsMap(vec[x]), p[1], p[2])
        /\ r.new <=> p[1] \notin Keyed(vec[x])
    BY InsertedHere
  <2>2. vec' = [vec EXCEPT ![x] = r.s] /\ ret' = (IF r.new THEN "new" ELSE "old") /\ order' = order
    BY <1>2 DEF InsertPair
  <2> HIDE DEF r
  <2>3. VectorInv' /\ AbsMap' = [AbsMap EXCEPT ![x] = AsMap(r.s)]
    BY <2>1, <2>2, OneChanged
  <2>4. ret' = (IF p[1] \in DOMAIN AbsMap[x] THEN "old" ELSE "new")
    BY <1>0, <2>1, <2>2
  <2> QED
    BY <1>0, <2>1, <2>3, <2>4, AbstractCalls
<1>3. ASSUME NEW x \in Objects, NEW p \in Pairs, NEW pos \in 1..End(vec[x]), InsertHint(x, pos, p)
      PROVE  VectorInv' /\ Map!Place(x, p[1], p[2])
  <2> DEFINE r == InsertInto(x, vec[x], p)
  <2>i. /\ SortedBy(order[x], r.s) /\ AsMap(r.s) = Map!With(AsMap(vec[x]), p[1], p[2])
        /\ r.at \in 1..Len(r.s) /\ r.s[r.at][1] = p[1]
    BY InsertedHere
  <2> HIDE DEF r
  <2> DEFINE s == vec[x]
             o == order[x]
  <2>0. /\ s \in Seq(Pairs) /\ Len(s) \in Nat /\ pos \in 1..(Len(s) + 1) /\ p[1] \in Int
        /\ \A j \in 1..Len(s) : s[j][1] \in Int
        /\ o \in {1, -1} /\ SortedBy(o, s) /\ order' = order
        /\ \A m, n \in 1..Len(s) : m < n => Before(o, s[m][1], s[n][1])
    BY <1>0, <1>3, <1>p, PairsOf, VectorAssumption DEF VectorAssumption, SortedBy, End, InsertHint
  <2>1. PICK t, i : /\ SortedBy(o, t) /\ AsMap(t) = Map!With(AsMap(s), p[1], p[2])
                    /\ i \in 1..Len(t) /\ t[i][1] = p[1]
                    /\ vec' = [vec EXCEPT ![x] = t] /\ ret' = t[i][2]
    <3>1. CASE HintFits(x, pos, p)
      <4>1. pos = 1 \/ Before(o, s[pos - 1][1], p[1])
        BY <2>0, <3>1, LessIs DEF HintFits
      <4>2. pos = Len(s) + 1 \/ Before(o, p[1], s[pos][1])
        BY <2>0, <3>1, LessIs DEF HintFits, End
      <4>3. ASSUME NEW j \in 1..(pos - 1) PROVE Before(o, s[j][1], p[1])
        <5>1. j \in 1..Len(s) /\ pos - 1 \in 1..Len(s) /\ pos # 1 /\ (j = pos - 1 \/ j < pos - 1)
          BY <2>0
        <5>2. j < pos - 1 => Before(o, s[j][1], s[pos - 1][1])
          BY <2>0, <5>1
        <5> QED
          BY <2>0, <4>1, <5>1, <5>2 DEF Before
      <4>4. ASSUME NEW j \in pos..Len(s) PROVE Before(o, p[1], s[j][1])
        <5>1. j \in 1..Len(s) /\ pos \in 1..Len(s) /\ pos # Len(s) + 1 /\ (j = pos \/ pos < j)
          BY <2>0
        <5>2. pos < j => Before(o, s[pos][1], s[j][1])
          BY <2>0, <5>1
        <5> QED
          BY <2>0, <4>2, <5>1, <5>2 DEF Before
      <4>5. /\ SortedBy(o, InsertAt(s, pos, p)) /\ AsMap(InsertAt(s, pos, p)) = Map!With(AsMap(s), p[1], p[2])
            /\ pos \in 1..Len(InsertAt(s, pos, p)) /\ InsertAt(s, pos, p)[pos] = p
        <5>1. o \in {1, -1} /\ SortedBy(o, s) /\ pos \in 1..(Len(s) + 1)
          BY <2>0
        <5> HIDE DEF o, s
        <5> QED
          BY <4>3, <4>4, <5>1, PairAdded
      <4>6. vec' = [vec EXCEPT ![x] = InsertAt(s, pos, p)] /\ ret' = InsertAt(s, pos, p)[pos][2]
        BY <1>3, <3>1 DEF InsertHint
      <4> QED
        BY <4>5, <4>6
    <3>2. CASE ~HintFits(x, pos, p)
      <4>1. vec' = [vec EXCEPT ![x] = r.s] /\ ret' = r.s[r.at][2]
        BY <1>3, <3>2 DEF InsertHint, r
      <4> QED
        BY <2>i, <4>1
    <3> QED
      BY <3>1, <3>2
  <2>2. VectorInv' /\ AbsMap' = [AbsMap EXCEPT ![x] = AsMap(t)] /\ AbsMap'[x] = AsMap(t)
    BY <2>0, <2>1, OneChanged
  <2>3. AsMap(t)[p[1]] = t[i][2]
    BY <2>0, <2>1, AsMapIs
  <2> QED
    BY <1>0, <2>1, <2>2, <2>3, AbstractCalls
<1>4. ASSUME NEW x \in Objects, NEW pp \in Ranges, NEW s, SortedBy(order[x], s),
             vec' = [vec EXCEPT ![x] = InsertInto(x, InsertInto(x, s, pp[1]).s, pp[2]).s],
             order' = order
      PROVE  /\ VectorInv'
             /\ AbsMap' = [AbsMap EXCEPT ![x] = Map!With(Map!With(AsMap(s), pp[1][1], pp[1][2]), pp[2][1], pp[2][2])]
  <2>0. PICK p \in Pairs, q \in Pairs : p = pp[1] /\ q = pp[2]
    BY <1>r
  <2> DEFINE r == InsertInto(x, s, p)
             t == InsertInto(x, r.s, q)
  <2>o. order[x] \in {1, -1}
    BY <1>0
  <2>1. SortedBy(order[x], r.s) /\ AsMap(r.s) = Map!With(AsMap(s), p[1], p[2])
    BY <1>4, <2>o, InsertedInto
  <2>2. vec' = [vec EXCEPT ![x] = t.s]
    BY <1>4, <2>0
  <2> HIDE DEF r
  <2>3. SortedBy(order[x], t.s) /\ AsMap(t.s) = Map!With(AsMap(r.s), q[1], q[2])
    BY <2>1, <2>o, InsertedInto
  <2> HIDE DEF t
  <2>4. VectorInv' /\ AbsMap' = [AbsMap EXCEPT ![x] = AsMap(t.s)]
    BY <1>4, <2>3, <2>2, OneChanged
  <2> QED
    BY <2>0, <2>1, <2>3, <2>4
<1>5. ASSUME NEW x \in Objects, NEW pp \in Ranges, InsertRange(x, pp)
      PROVE  VectorInv' /\ Map!Fill(x, pp)
  <2>1. /\ vec' = [vec EXCEPT ![x] = InsertInto(x, InsertInto(x, vec[x], pp[1]).s, pp[2]).s]
        /\ ret' = "none" /\ order' = order
    BY <1>0, <1>5 DEF InsertRange, NoValue
  <2>2. /\ VectorInv'
        /\ AbsMap' = [AbsMap EXCEPT ![x] = Map!With(Map!With(AsMap(vec[x]), pp[1][1], pp[1][2]), pp[2][1], pp[2][2])]
    BY <1>0, <1>4, <2>1
  <2> QED
    BY <1>0, <2>1, <2>2, AbstractCalls
<1>6. ASSUME NEW x \in Objects, NEW pp \in Ranges, FromRange(x, pp)
      PROVE  VectorInv' /\ Map!Refill(x, pp)
  <2>1. /\ vec' = [vec EXCEPT ![x] = InsertInto(x, InsertInto(x, <<>>, pp[1]).s, pp[2]).s]
        /\ ret' = "none" /\ order' = order
    BY <1>6 DEF FromRange, NoValue
  <2>2. SortedBy(order[x], <<>>)
    BY DEF SortedBy
  <2>3. /\ VectorInv'
        /\ AbsMap' = [AbsMap EXCEPT ![x] = Map!With(Map!With(AsMap(<<>>), pp[1][1], pp[1][2]), pp[2][1], pp[2][2])]
    BY <1>4, <2>1, <2>2
  <2> QED
    BY <1>0, <2>1, <2>3, AbstractCalls
<1>7. ASSUME NEW x \in Objects, NEW k \in Keys, EraseKey(x, k)
      PROVE  VectorInv' /\ Map!Erase(x, k)
  <2> DEFINE i == FindPos(x, k)
  <2>0. order' = order
    BY <1>7 DEF EraseKey
  <2>1. CASE k \in Keyed(vec[x])
    <3>1. /\ i \in 1..Len(vec[x]) /\ Len(vec[x]) \in Nat /\ vec[x][i][1] = k /\ i # End(vec[x])
      BY <2>1, FindPosIs
    <3>2. vec' = [vec EXCEPT ![x] = RemoveAt(vec[x], i)] /\ ret' = "erased"
      BY <1>0, <1>7, <3>1 DEF EraseKey
    <3>3. RemoveAt(vec[x], i) = Without(vec[x], i, i + 1)
      BY DEF RemoveAt, Without
    <3>4. KeysAt(vec[x], i, i + 1) = {k}
      <4>1. i..((i + 1) - 1) = {i}
        BY <3>1
      <4> QED
        BY <3>1, <4>1 DEF KeysAt
    <3> HIDE DEF i
    <3>5. i \in 1..(Len(vec[x]) + 1) /\ i + 1 \in i..(Len(vec[x]) + 1)
      BY <3>1
    <3>6. i \in 1..(Len(vec[x]) + 1) /\ order[x] \in {1, -1} /\ SortedBy(order[x], vec[x])
      BY <1>0, <3>5
    <3>7. /\ SortedBy(order[x], Without(vec[x], i, i + 1))
          /\ AsMap(Without(vec[x], i, i + 1)) = Map!Restrict(AsMap(vec[x]), Keyed(vec[x]) \ KeysAt(vec[x], i, i + 1))
      BY <3>5, <3>6, PairsRemoved
    <3>8. VectorInv' /\ AbsMap' = [AbsMap EXCEPT ![x] = AsMap(Without(vec[x], i, i + 1))]
      BY <2>0, <3>2, <3>3, <3>7, OneChanged
    <3>9. AbsMap' = [AbsMap EXCEPT ![x] = Map!Restrict(AbsMap[x], (DOMAIN AbsMap[x]) \ {k})]
      BY <1>0, <3>4, <3>7, <3>8
    <3> QED
      BY <1>0, <2>1, <3>2, <3>8, <3>9, AbstractCalls
  <2>2. CASE k \notin Keyed(vec[x])
    <3>1. i = End(vec[x])
      BY <2>2, FindPosIs
    <3>2. vec' = vec /\ ret' = "absent"
      BY <1>7, <3>1 DEF EraseKey
    <3>3. vec' = [vec EXCEPT ![x] = vec[x]]
      BY <1>0, <3>2
    <3>4. VectorInv' /\ AbsMap' = [AbsMap EXCEPT ![x] = AsMap(vec[x])]
      BY <1>0, <2>0, <3>3, OneChanged
    <3>5. Map!Restrict(AsMap(vec[x]), Keyed(vec[x]) \ {k}) = AsMap(vec[x])
      <4>1. Keyed(vec[x]) \ {k} = Keyed(vec[x])
        BY <2>2
      <4>2. AsMap(vec[x]) = [j \in Keyed(vec[x]) |-> AsMap(vec[x])[j]]
        BY <1>0, AsMapIs
      <4>3. Map!Restrict(AsMap(vec[x]), Keyed(vec[x])) = [j \in Keyed(vec[x]) |-> AsMap(vec[x])[j]]
        BY DEF Map!Restrict
      <4> QED
        BY <4>1, <4>2, <4>3
    <3>6. AbsMap' = [AbsMap EXCEPT ![x] = Map!Restrict(AbsMap[x], (DOMAIN AbsMap[x]) \ {k})]
      BY <1>0, <3>4, <3>5
    <3> QED
      BY <1>0, <2>2, <3>2, <3>4, <3>6, AbstractCalls
  <2> QED
    BY <2>1, <2>2
<1>8. ASSUME NEW x \in Objects, NEW i \in 1..End(vec[x]), NEW j \in 1..End(vec[x]), EraseRange(x, i, j)
      PROVE  VectorInv' /\ \E S \in SUBSET Map!Held(x) : Map!Remove(x, S)
  <2>1. /\ vec' = [vec EXCEPT ![x] = Without(vec[x], i, j)]
        /\ ret' = "none" /\ order' = order /\ i < j
    BY <1>0, <1>8 DEF EraseRange, NoValue, Without
  <2>2. i \in 1..(Len(vec[x]) + 1) /\ j \in i..(Len(vec[x]) + 1)
    BY <1>0, <2>1, PairsOf DEF End
  <2>3. PICK S : S = KeysAt(vec[x], i, j)
    OBVIOUS
  <2>4. /\ SortedBy(order[x], Without(vec[x], i, j)) /\ S \subseteq Keyed(vec[x])
        /\ AsMap(Without(vec[x], i, j)) = Map!Restrict(AsMap(vec[x]), Keyed(vec[x]) \ S)
    <3>1. order[x] \in {1, -1} /\ SortedBy(order[x], vec[x])
      BY <1>0
    <3> QED
      BY <2>2, <2>3, <3>1, PairsRemoved
  <2>5. VectorInv' /\ AbsMap' = [AbsMap EXCEPT ![x] = AsMap(Without(vec[x], i, j))]
    BY <2>1, <2>4, OneChanged
  <2>6. AbsMap' = [AbsMap EXCEPT ![x] = Map!Restrict(AbsMap[x], (DOMAIN AbsMap[x]) \ S)]
    BY <1>0, <2>4, <2>5
  <2>7. Map!Remove(x, S)
    BY <1>0, <2>1, <2>6, AbstractCalls
  <2>8. Map!Held(x) = Keyed(vec[x])
    BY <1>0 DEF Map!Held
  <2> QED
    BY <2>4, <2>5, <2>7, <2>8
<1>9. ASSUME NEW x \in Objects, NEW y \in Objects, Swap(x, y)
      PROVE  VectorInv' /\ Map!Swap(x, y)
  <2>1. /\ vec' = [vec EXCEPT ![x] = vec[y], ![y] = vec[x]] /\ x # y /\ ret' = "none"
        /\ order' = [order EXCEPT ![x] = order[y], ![y] = order[x]]
    BY <1>9 DEF Swap, NoValue
  <2>2. /\ vec' \in [Objects -> Seq(Pairs)] /\ order' \in [Objects -> {1, -1}]
        /\ vec'[x] = vec[y] /\ vec'[y] = vec[x] /\ order'[x] = order[y] /\ order'[y] = order[x]
        /\ \A z \in Objects : z # x /\ z # y => vec'[z] = vec[z] /\ order'[z] = order[z]
    BY <1>0, <2>1
  <2>3. VectorInv'
    BY <1>0, <2>2 DEF VectorInv
  <2>4. AbsMap' = [z \in Objects |-> AsMap(vec'[z])]
    BY DEF AbsMap, AsMap
  <2>5. AbsMap' = [AbsMap EXCEPT ![x] = AbsMap[y], ![y] = AbsMap[x]]
    BY <2>2, <2>4 DEF AbsMap
  <2> QED
    BY <1>0, <2>1, <2>3, <2>5, AbstractCalls
<1>10. ASSUME NEW x \in Objects, NEW y \in Objects, CopyFrom(x, y)
      PROVE  VectorInv' /\ Map!Copy(x, y)
  <2>1. /\ vec' = [vec EXCEPT ![x] = vec[y]] /\ ret' = "none"
        /\ order' = [order EXCEPT ![x] = order[y]]
    BY <1>10 DEF CopyFrom, NoValue
  <2>2. /\ vec' \in [Objects -> Seq(Pairs)] /\ order' \in [Objects -> {1, -1}]
        /\ vec'[x] = vec[y] /\ order'[x] = order[y]
        /\ \A z \in Objects : z # x => vec'[z] = vec[z] /\ order'[z] = order[z]
    BY <1>0, <2>1
  <2>3. VectorInv'
    BY <1>0, <2>2 DEF VectorInv
  <2>4. AbsMap' = [z \in Objects |-> AsMap(vec'[z])]
    BY DEF AbsMap, AsMap
  <2>5. AbsMap' = [AbsMap EXCEPT ![x] = AbsMap[y]]
    BY <2>2, <2>4 DEF AbsMap
  <2> QED
    BY <1>0, <2>1, <2>3, <2>5, AbstractCalls
<1>11. ASSUME NEW x \in Objects, NEW k \in Keys, Find(x, k)
      PROVE  VectorInv' /\ Map!Find(x, k)
  <2> DEFINE i == FindPos(x, k)
  <2>1. /\ vec' = vec /\ order' = order
        /\ ret' = IF i = End(vec[x]) THEN "none" ELSE vec[x][i][2]
    BY <1>11 DEF Find, NoValue
  <2>2. VectorInv' /\ AbsMap' = AbsMap
    BY <2>1 DEF VectorInv, AbsMap, AsMap
  <2>3. /\ i = End(vec[x]) <=> k \notin Keyed(vec[x])
        /\ k \in Keyed(vec[x]) => i \in 1..Len(vec[x]) /\ vec[x][i][1] = k
    BY FindPosIs
  <2> HIDE DEF i
  <2>4. k \in Keyed(vec[x]) => AsMap(vec[x])[k] = vec[x][i][2]
    BY <1>0, <2>3, AsMapIs
  <2>5. ret' = (IF k \in DOMAIN AbsMap[x] THEN AbsMap[x][k] ELSE "none")
    BY <1>0, <2>1, <2>3, <2>4
  <2> QED
    BY <1>0, <2>2, <2>5, AbstractCalls
<1>12. CASE UNCHANGED vectorVars
  <2>1. VectorInv'
    BY <1>12 DEF vectorVars, VectorInv
  <2>2. UNCHANGED Map!mapVars
    BY <1>12 DEF vectorVars, Map!mapVars, AsMap
  <2> QED
    BY <2>1, <2>2
<1>13. CASE VectorNext
  <2>1. PICK x \in Objects :
          \/ \E k \in Keys : Index(x, k) \/ EraseKey(x, k) \/ Find(x, k)
          \/ \E p \in Pairs : InsertPair(x, p) \/ \E pos \in 1..End(vec[x]) : InsertHint(x, pos, p)
          \/ \E pp \in Ranges : InsertRange(x, pp) \/ FromRange(x, pp)
          \/ \E i, j \in 1..End(vec[x]) : EraseRange(x, i, j)
          \/ \E y \in Objects : Swap(x, y) \/ CopyFrom(x, y)
    BY <1>13 DEF VectorNext
  <2>2. CASE \E k \in Keys : Index(x, k) \/ EraseKey(x, k) \/ Find(x, k)
    BY <1>1, <1>7, <1>11, <1>p, <2>2 DEF Map!Next
  <2>3. CASE \E p \in Pairs : InsertPair(x, p) \/ \E pos \in 1..End(vec[x]) : InsertHint(x, pos, p)
    BY <1>2, <1>3, <1>p, <2>3 DEF Map!Next
  <2>4. CASE \E pp \in Ranges : InsertRange(x, pp) \/ FromRange(x, pp)
    BY <1>5, <1>6, <2>4 DEF Map!Next
  <2>5. CASE \E i, j \in 1..End(vec[x]) : EraseRange(x, i, j)
    BY <1>8, <2>5 DEF Map!Next
  <2>6. CASE \E y \in Objects : Swap(x, y) \/ CopyFrom(x, y)
    BY <1>9, <1>10, <2>6 DEF Map!Next
  <2> QED
    BY <2>1, <2>2, <2>3, <2>4, <2>5, <2>6
<1> QED
  BY <1>12, <1>13

\* New vectors are empty maps.
LEMMA VectorBegins == VectorInit => VectorInv /\ Map!Init
<1> SUFFICES ASSUME VectorInit PROVE VectorInv /\ Map!Init
  OBVIOUS
<1>0. /\ vec = [x \in Objects |-> <<>>] /\ order \in [Objects -> {1, -1}] /\ ret = "none"
  BY VectorAssumption DEF VectorInit, VectorAssumption, NoValue
<1>1. VectorInv
  BY <1>0 DEF VectorInv, SortedBy
<1>2. AsMap(<<>>) = Map!Empty
  BY DEF AsMap, Map!Empty
<1>3. Map!Init
  BY <1>0, <1>2 DEF Map!Init, Map!None
<1> QED
  BY <1>1, <1>3

\* The vectors stay sorted through every call, each by its own object's comparison, and hold no key twice.
THEOREM VectorsSorted == VectorSpec => []VectorInv
<1>1. VectorInv /\ [VectorNext]_vectorVars => VectorInv'
  BY VectorStep
<1> QED
  BY <1>1, VectorBegins, PTL DEF VectorSpec

\* assoc_vector_t changes and answers as a map does through any sequence of calls,
\* hints right or wrong, swaps between objects with opposite comparisons included,
\* for any keys, values, objects and number of pairs.
THEOREM VectorImplementsMap == VectorSpec => ImplementsMap
<1>1. VectorInv /\ [VectorNext]_vectorVars => [Map!Next]_(Map!mapVars)
  BY VectorStep
<1> QED
  BY <1>1, VectorBegins, VectorsSorted, PTL DEF VectorSpec, ImplementsMap, Map!Spec
=============================================================================
