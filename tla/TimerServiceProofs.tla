------------------------- MODULE TimerServiceProofs -------------------------
(***************************************************************************)
(* Proofs about TimerService for any timers, handle values and limit.      *)
(***************************************************************************)
EXTENDS TimerService, FiniteSetTheorems, TLAPS

USE DEF mapVars, kernelVars, stopVars, loopVars, histVars

-----------------------------------------------------------------------------
(* Type correctness                                                        *)

\* A service without timers is well typed.
LEMMA TypeInit == Init => TypeOK
<1> SUFFICES ASSUME Init PROVE TypeOK
  OBVIOUS
<1>1. ticks \in [Timers -> 0..MaxTicks] /\ posts \in [Timers -> Nat] /\ late \in [Timers -> Nat]
  BY ServiceAssumption DEF Init
<1>2. handleOf \in [Timers -> Handles \cup {0}]
  BY DEF Init
<1> QED
  BY <1>1, <1>2 DEF Init, TypeOK

\* Every step of a client, the kernel or the destructor preserves the types.
LEMMA TypeClient ==
  ASSUME TypeOK,
         \/ \E t \in Timers :
              \/ \E h \in Handles : AddTimer(t, h)
              \/ AddThrows(t) \/ AsyncWait(t) \/ EraseTimer(t) \/ SetEvent(t) \/ Tick(t)
         \/ Stop \/ Join
  PROVE  TypeOK'
<1>1. ASSUME NEW t \in Timers, NEW h \in Handles, AddTimer(t, h) PROVE TypeOK'
  BY <1>1 DEF AddTimer, TypeOK
<1>2. ASSUME NEW t \in Timers, AddThrows(t) PROVE TypeOK'
  BY <1>2 DEF AddThrows, TypeOK
<1>3. ASSUME NEW t \in Timers, AsyncWait(t) PROVE TypeOK'
  BY <1>3 DEF AsyncWait, TypeOK
<1>4. ASSUME NEW t \in Timers, EraseTimer(t) PROVE TypeOK'
  BY <1>4 DEF EraseTimer, TypeOK
<1>5. ASSUME NEW t \in Timers, SetEvent(t) PROVE TypeOK'
  BY <1>5 DEF SetEvent, TypeOK
<1>6. ASSUME NEW t \in Timers, Tick(t) PROVE TypeOK'
  <2>1. ticks' \in [Timers -> 0..MaxTicks]
    BY <1>6, ServiceAssumption DEF Tick, TypeOK
  <2> QED
    BY <1>6, <2>1 DEF Tick, TypeOK
<1>7. CASE Stop
  BY <1>7 DEF Stop, TypeOK
<1>8. CASE Join
  BY <1>8 DEF Join, TypeOK
<1> QED
  BY <1>1, <1>2, <1>3, <1>4, <1>5, <1>6, <1>7, <1>8

\* A timer whose handler has been copied is one.
HasCallback == pc = "post" => callback \in Timers

\* The ids of the map are handle values: a registered timer has been given one.
RegisteredIds ==
  /\ Ids \subseteq Handles
  /\ \A t \in registered : client[t] \in {"adding", "added"}

\* Every step of the service thread preserves the types.
LEMMA TypeService ==
  ASSUME TypeOK, HasCallback, RegisteredIds, Service
  PROVE  TypeOK'
<1>1. CASE WaitFails \/ WaitBegins \/ WaitUpdate \/ WaitApc
  BY <1>1 DEF WaitFails, WaitBegins, WaitUpdate, WaitApc, TypeOK
<1>2. ASSUME NEW t \in Timers, WaitTimer(t) PROVE TypeOK'
  BY <1>2 DEF WaitTimer, TypeOK
<1>3. CASE Copy
  BY <1>3 DEF Copy, TypeOK, RegisteredIds
<1>4. CASE CheckSize
  BY <1>4 DEF CheckSize, TypeOK
<1>5. CASE Find
  BY <1>5 DEF Find, TimerAt, TypeOK
<1>6. CASE Post
  BY <1>6 DEF Post, HasCallback, TypeOK
<1> QED
  BY <1>1, <1>2, <1>3, <1>4, <1>5, <1>6 DEF Service

-----------------------------------------------------------------------------
(* The inductive invariant                                                 *)

\* What the service thread waits on is in its copy of the ids.
WatchedCopied ==
  /\ \A t \in watched : handleOf[t] \in handles /\ client[t] # "new"
  /\ pc # "waiting" => watched = {}

\* A callback is posted late only when its timer is gone, and then there is
\* no other copy of it.
LateOnce ==
  \A t \in Timers :
    /\ late[t] \in {0, 1}
    /\ late[t] = 1 => client[t] = "gone" /\ ~(pc = "post" /\ callback = t)

IndInv ==
  /\ TypeOK /\ HasCallback /\ RegisteredIds
  /\ WatchedCopied /\ NoTimerForgotten /\ LateOnce

\* The invariant holds of a service without timers.
LEMMA InvInit == Init => IndInv
<1> SUFFICES ASSUME Init PROVE IndInv
  OBVIOUS
<1>1. TypeOK
  BY TypeInit
<1>2. HasCallback /\ RegisteredIds /\ WatchedCopied /\ NoTimerForgotten /\ LateOnce
  BY DEF Init, HasCallback, RegisteredIds, Ids, WatchedCopied, NoTimerForgotten, LateOnce
<1> QED
  BY <1>1, <1>2 DEF IndInv

\* Clients, the kernel and the destructor preserve the invariant.
LEMMA InvClient ==
  ASSUME IndInv,
         \/ \E t \in Timers :
              \/ \E h \in Handles : AddTimer(t, h)
              \/ AddThrows(t) \/ AsyncWait(t) \/ EraseTimer(t) \/ SetEvent(t) \/ Tick(t)
         \/ Stop \/ Join
  PROVE  IndInv'
<1>0. TypeOK'
  BY TypeClient DEF IndInv
<1> USE DEF HasCallback, RegisteredIds, Ids, WatchedCopied, NoTimerForgotten, LateOnce
<1>1. ASSUME NEW t \in Timers, NEW h \in Handles, AddTimer(t, h) PROVE IndInv'
  <2>1. /\ registered' = registered \cup {t}
        /\ \A u \in Timers : /\ handleOf'[u] = IF u = t THEN h ELSE handleOf[u]
                             /\ client'[u] = IF u = t THEN "adding" ELSE client[u]
        /\ client[t] = "new"
        /\ UNCHANGED <<update, pc, handles, watched, callback, late>>
    BY <1>1 DEF AddTimer, IndInv, TypeOK
  <2>2. registered \subseteq Timers /\ watched \subseteq Timers
    BY DEF IndInv, TypeOK
  <2>3. HasCallback' /\ RegisteredIds'
    BY <2>1, <2>2 DEF IndInv
  <2>4. WatchedCopied'
    BY <2>1, <2>2 DEF IndInv
  <2>5. NoTimerForgotten'
    BY <2>1, <2>2 DEF IndInv
  <2>6. LateOnce'
    BY <2>1 DEF IndInv
  <2> QED
    BY <1>0, <2>3, <2>4, <2>5, <2>6 DEF IndInv
<1>2. ASSUME NEW t \in Timers, AddThrows(t) PROVE IndInv'
  <2>1. /\ \A u \in Timers : client'[u] = IF u = t THEN "refused" ELSE client[u]
        /\ client[t] = "new"
        /\ UNCHANGED <<registered, handleOf, update, pc, handles, watched, callback, late>>
        /\ registered \subseteq Timers /\ watched \subseteq Timers
    BY <1>2 DEF AddThrows, IndInv, TypeOK
  <2>2. HasCallback' /\ RegisteredIds' /\ WatchedCopied'
    BY <2>1 DEF IndInv
  <2>3. NoTimerForgotten' /\ LateOnce'
    BY <2>1 DEF IndInv
  <2> QED
    BY <1>0, <2>2, <2>3 DEF IndInv
<1>3. ASSUME NEW t \in Timers, AsyncWait(t) \/ Tick(t) PROVE IndInv'
  <2>1. UNCHANGED <<registered, handleOf, client, update, pc, handles, watched, callback, late>>
    BY <1>3 DEF AsyncWait, Tick
  <2> QED
    BY <1>0, <2>1 DEF IndInv
<1>4. ASSUME NEW t \in Timers, EraseTimer(t) PROVE IndInv'
  <2>1. /\ \A u \in Timers : client'[u] = IF u = t THEN "erasing" ELSE client[u]
        /\ client[t] = "added" /\ registered' = registered \ {t}
        /\ UNCHANGED <<handleOf, update, pc, handles, watched, callback, late>>
        /\ registered \subseteq Timers /\ watched \subseteq Timers
    BY <1>4 DEF EraseTimer, IndInv, TypeOK
  <2>2. HasCallback' /\ RegisteredIds' /\ WatchedCopied'
    BY <2>1 DEF IndInv
  <2>3. NoTimerForgotten' /\ LateOnce'
    BY <2>1 DEF IndInv
  <2> QED
    BY <1>0, <2>2, <2>3 DEF IndInv
<1>5. ASSUME NEW t \in Timers, SetEvent(t) PROVE IndInv'
  <2>1. /\ \A u \in Timers \ {t} : client'[u] = client[u]
        /\ client[t] = "adding" => client'[t] = "added"
        /\ client[t] = "erasing" => client'[t] = "gone"
        /\ client[t] \in {"adding", "erasing"} /\ update'
        /\ UNCHANGED <<registered, handleOf, pc, handles, watched, callback, late>>
        /\ registered \subseteq Timers /\ watched \subseteq Timers
    BY <1>5 DEF SetEvent, IndInv, TypeOK
  <2>2. HasCallback' /\ RegisteredIds' /\ WatchedCopied'
    BY <2>1 DEF IndInv
  <2>3. NoTimerForgotten' /\ LateOnce'
    BY <2>1 DEF IndInv
  <2> QED
    BY <1>0, <2>2, <2>3 DEF IndInv
<1>6. CASE Stop \/ Join
  <2>1. UNCHANGED <<registered, handleOf, client, update, pc, handles, watched, callback, late>>
    BY <1>6 DEF Stop, Join
  <2> QED
    BY <1>0, <2>1 DEF IndInv
<1> QED
  BY <1>1, <1>2, <1>3, <1>4, <1>5, <1>6

\* The service thread preserves the invariant.
LEMMA InvService ==
  ASSUME IndInv, Service
  PROVE  IndInv'
<1>0. TypeOK'
  BY TypeService DEF IndInv
<1>1. UNCHANGED <<registered, handleOf, client>>
  BY DEF Service, WaitFails, WaitBegins, WaitUpdate, WaitApc, WaitTimer, Copy,
         CheckSize, Find, Post
<1>2. RegisteredIds'
  BY <1>1 DEF IndInv, RegisteredIds, Ids
<1> USE DEF HasCallback, WatchedCopied, NoTimerForgotten, LateOnce
<1>3. CASE WaitFails \/ WaitUpdate \/ WaitApc \/ CheckSize
  <2>1. /\ watched' = {} \/ (pc # "waiting" /\ watched' = watched)
        /\ UNCHANGED <<handles, callback, late>>
        /\ pc' # "post" /\ (WaitUpdate \/ update' = update)
        /\ \/ pc' \in {"copy", "exited"}
           \/ pc = "check" /\ pc' \in {"loop", "find"}
    BY <1>3 DEF WaitFails, WaitUpdate, WaitApc, CheckSize
  <2>2. HasCallback' /\ WatchedCopied' /\ LateOnce'
    BY <1>1, <2>1 DEF IndInv
  <2>3. NoTimerForgotten'
    BY <1>1, <1>3, <2>1 DEF IndInv, WaitUpdate
  <2> QED
    BY <1>0, <1>2, <2>2, <2>3 DEF IndInv
<1>4. CASE WaitBegins
  <2>1. HasCallback' /\ LateOnce'
    BY <1>1, <1>4 DEF WaitBegins, IndInv
  <2>2. WatchedCopied'
    BY <1>1, <1>4 DEF WaitBegins, IndInv, RegisteredIds
  <2>3. NoTimerForgotten'
    BY <1>1, <1>4 DEF WaitBegins, IndInv
  <2> QED
    BY <1>0, <1>2, <2>1, <2>2, <2>3 DEF IndInv
<1>5. ASSUME NEW t \in Timers, WaitTimer(t) PROVE IndInv'
  <2>1. HasCallback' /\ LateOnce' /\ WatchedCopied'
    BY <1>1, <1>5 DEF WaitTimer, IndInv
  <2>2. NoTimerForgotten'
    BY <1>1, <1>5 DEF WaitTimer, IndInv
  <2> QED
    BY <1>0, <1>2, <2>1, <2>2 DEF IndInv
<1>6. CASE Copy
  <2>0. TypeOK
    BY DEF IndInv
  <2>1. /\ HasCallback' /\ LateOnce' /\ NoTimerForgotten'
    BY <1>1, <1>6 DEF Copy, IndInv, Ids
  <2>2. WatchedCopied'
    BY <1>1, <1>6 DEF Copy, IndInv
  <2> QED
    BY <1>0, <1>2, <2>1, <2>2 DEF IndInv
<1>7. CASE Find
  <2>1. /\ UNCHANGED <<update, handles, watched, late>>
        /\ pc = "find" /\ pc' \in {"loop", "post"}
        /\ pc' = "post" => callback' \in registered
    BY <1>7 DEF Find, TimerAt
  <2>2. HasCallback' /\ WatchedCopied' /\ NoTimerForgotten'
    BY <1>1, <2>1 DEF IndInv, TypeOK
  <2>3. LateOnce'
    BY <1>1, <2>1 DEF IndInv, RegisteredIds
  <2> QED
    BY <1>0, <1>2, <2>2, <2>3 DEF IndInv
<1>8. CASE Post
  <2>1. /\ UNCHANGED <<update, handles, watched>>
        /\ pc = "post" /\ pc' = "loop" /\ callback \in Timers
        /\ \A u \in Timers : late'[u] = IF u = callback /\ client[u] = "gone"
                                          THEN late[u] + 1 ELSE late[u]
    BY <1>8 DEF Post, IndInv, TypeOK
  <2>2. HasCallback' /\ WatchedCopied' /\ NoTimerForgotten'
    BY <1>1, <2>1 DEF IndInv
  <2>3. LateOnce'
    BY <1>1, <2>1 DEF IndInv
  <2> QED
    BY <1>0, <1>2, <2>2, <2>3 DEF IndInv
<1> QED
  BY <1>3, <1>4, <1>5, <1>6, <1>7, <1>8 DEF Service

\* Every step preserves the invariant.
LEMMA InvNext == IndInv /\ [Next]_vars => IndInv'
<1>1. ASSUME IndInv, UNCHANGED vars PROVE IndInv'
  BY <1>1 DEF vars, IndInv, TypeOK, HasCallback, RegisteredIds, Ids, WatchedCopied,
              NoTimerForgotten, LateOnce
<1> QED
  BY <1>1, InvClient, InvService DEF Next

\* The invariant holds in every reachable state.
THEOREM Invariance == Spec => []IndInv
  BY InvInit, InvNext, PTL DEF Spec

\* Every reachable state of the service is well typed.
THEOREM TypeCorrect == Spec => []TypeOK
<1>1. IndInv => TypeOK
  BY DEF IndInv
<1> QED
  BY Invariance, <1>1, PTL

\* Every registered timer is waited on, or the service thread is about to
\* refresh its copy of the handles: add_timer() and _ThreadCallback, which share
\* the map and the update event, never forget one, handle reuse included.
THEOREM TimersWatched == Spec => []NoTimerForgotten
<1>1. IndInv => NoTimerForgotten
  BY DEF IndInv
<1> QED
  BY Invariance, <1>1, PTL

\* After erase_timer() has returned the service posts at most one callback of
\* that timer.
THEOREM AtMostOneLatePost == Spec => []OneLatePost
<1>1. IndInv => OneLatePost
  BY DEF IndInv, LateOnce, OneLatePost
<1> QED
  BY Invariance, <1>1, PTL

-----------------------------------------------------------------------------
(* Ticks that are thrown away                                              *)

\* A copy without stale ids is no larger than the map.
LEMMA CopyFits ==
  ASSUME TypeOK, handles \subseteq Ids, NEW h
  PROVE  Index(h) <= Cardinality(registered)
<1>1. IsFiniteSet(registered) /\ Cardinality(registered) \in Nat
  BY ServiceAssumption, FS_Subset, FS_CardinalityType DEF TypeOK
<1>2. IsFiniteSet(Ids) /\ Cardinality(Ids) <= Cardinality(registered)
  <2> DEFINE f == [t \in registered |-> handleOf[t]]
  <2>1. f \in [registered -> Ids]
    BY DEF Ids
  <2>2. \A i \in Ids : \E t \in registered : f[t] = i
    BY DEF Ids
  <2>3. f \in Surjection(registered, Ids)
    BY <2>1, <2>2 DEF Surjection
  <2> QED
    BY <1>1, <2>3, FS_Surjection
<1>3. IsFiniteSet(handles) /\ Cardinality(handles) <= Cardinality(Ids)
  BY <1>2, FS_Subset
<1>4. Index(h) <= Cardinality(handles)
  BY <1>3, FS_Subset DEF Index
<1>5. IsFiniteSet({x \in handles : x <= h})
  BY <1>3, FS_Subset
<1>6. Index(h) \in Nat /\ Cardinality(handles) \in Nat /\ Cardinality(Ids) \in Nat
  BY <1>2, <1>3, <1>5, FS_CardinalityType DEF Index
<1> QED
  BY <1>1, <1>2, <1>3, <1>4, <1>6

\* The unlocked comparison with timers_.size() drops a tick only when a timer
\* has been erased since the handles were copied.
THEOREM DropsOnlyAfterErase == Spec => DropNeedsErase
<1>1. ASSUME IndInv, [Next]_vars
      PROVE  [TickDropped => ~(handles \subseteq Ids)]_vars
  <2> SUFFICES ASSUME Next, pc = "check", pc' = "loop", handles \subseteq Ids
               PROVE  FALSE
    BY <1>1 DEF TickDropped
  <2>1. CheckSize
    BY DEF Next, AddTimer, AddThrows, AsyncWait, EraseTimer, SetEvent, Tick, Stop, Join,
           Service, WaitFails, WaitBegins, WaitUpdate, WaitApc, WaitTimer, Copy, Find, Post
  <2>2. Index(res) <= Cardinality(registered)
    BY <1>1, CopyFits DEF IndInv
  <2>3. IsFiniteSet({x \in handles : x <= res}) /\ IsFiniteSet(registered)
    BY <1>1, ServiceAssumption, FS_Subset DEF IndInv, TypeOK
  <2>4. Index(res) \in Nat /\ Cardinality(registered) \in Nat
    BY <2>3, FS_CardinalityType DEF Index
  <2> QED
    BY <2>1, <2>2, <2>4 DEF CheckSize
<1> QED
  BY Invariance, <1>1, PTL DEF Spec, DropNeedsErase

-----------------------------------------------------------------------------
(* Posts without a tick                                                    *)

Erased(u) == client[u] \in {"erasing", "gone"}

\* Ticks not yet turned into posts: the signalled state and the copied handler.
Held(u) == (IF u \in signalled THEN 1 ELSE 0) + (IF pc = "post" /\ callback = u THEN 1 ELSE 0)

\* A tick of u that nobody has posted and nobody will.
Spare(u) == ticks[u] > posts[u] + Held(u)

\* An erased timer with the id of t has a tick to spare.
Owed(t) == \E u \in Timers \ {t} : Erased(u) /\ handleOf[u] = handleOf[t] /\ Spare(u)

Balanced == \A t \in Timers : posts[t] + Held(t) <= ticks[t] \/ Owed(t)

\* The service thread looks an id up because of a tick of a timer with that id.
TickInHand ==
  pc \in {"check", "find"} =>
    \E u \in Timers : handleOf[u] = res /\ client[u] \notin {"new", "refused"} /\ Spare(u)

Started ==
  \A t \in Timers :
    /\ client[t] \in {"adding", "added"} <=> t \in registered
    /\ client[t] \in {"new", "refused"} =>
         /\ t \notin armed /\ t \notin signalled /\ posts[t] = 0
         /\ ~(pc = "post" /\ callback = t)
    /\ t \in armed => t \in registered

DistinctIds == \A t, u \in registered : handleOf[t] = handleOf[u] => t = u

GhostInv == Balanced /\ TickInHand /\ Started /\ DistinctIds

\* A step that leaves what is held and posted of each timer within its ticks
\* keeps the balance.
LEMMA BalanceKept ==
  ASSUME GhostInv,
         \A u \in Timers :
           /\ client[u] # "new" => handleOf'[u] = handleOf[u]
           /\ Erased(u) => Erased(u)'
           /\ Spare(u) => Spare(u)'
           /\ posts[u] + Held(u) <= ticks[u] => (posts[u] + Held(u) <= ticks[u])'
           /\ client[u] = "new" => (posts[u] + Held(u) <= ticks[u])'
  PROVE  Balanced'
<1> SUFFICES ASSUME NEW t \in Timers, ~(posts[t] + Held(t) <= ticks[t])' PROVE Owed(t)'
  BY DEF Balanced
<1>1. client[t] # "new" /\ Owed(t)
  BY DEF GhostInv, Balanced
<1>2. PICK u \in Timers \ {t} : Erased(u) /\ handleOf[u] = handleOf[t] /\ Spare(u)
  BY <1>1 DEF Owed
<1>3. client[u] # "new"
  BY <1>2 DEF Erased
<1>4. Erased(u)' /\ handleOf'[u] = handleOf'[t] /\ Spare(u)'
  BY <1>1, <1>2, <1>3
<1> QED
  BY <1>4 DEF Owed

\* Clients, the kernel and the destructor.
LEMMA GhostClient ==
  ASSUME IndInv, GhostInv,
         \/ \E t \in Timers :
              \/ \E h \in Handles : AddTimer(t, h)
              \/ AddThrows(t) \/ AsyncWait(t) \/ EraseTimer(t) \/ SetEvent(t) \/ Tick(t)
         \/ Stop \/ Join
  PROVE  GhostInv'
<1>0. /\ \A u \in Timers : posts[u] \in Nat /\ ticks[u] \in Nat
      /\ UNCHANGED <<pc, callback, res, posts>>
      /\ registered \subseteq Timers /\ signalled \subseteq Timers
  BY DEF IndInv, TypeOK, AddTimer, AddThrows, AsyncWait, EraseTimer, SetEvent, Tick, Stop, Join
<1>1. \A u \in Timers :
        /\ client[u] # "new" => handleOf'[u] = handleOf[u]
        /\ client[u] \notin {"new", "refused"} => client'[u] \notin {"new", "refused"}
        /\ Erased(u) => Erased(u)'
        /\ client[u] = "new" => client'[u] \in {"new", "refused", "adding"}
  BY DEF IndInv, TypeOK, Erased, AddTimer, AddThrows, AsyncWait, EraseTimer, SetEvent, Tick, Stop, Join
<1>2. \A u \in Timers :
        /\ ticks'[u] \in Nat
        /\ \/ ticks'[u] = ticks[u] /\ (u \in signalled' => u \in signalled)
           \/ ticks'[u] = ticks[u] + 1 /\ u \in armed /\ u \in signalled'
  BY DEF IndInv, TypeOK, AddTimer, AddThrows, AsyncWait, EraseTimer, SetEvent, Tick, Stop, Join
<1>3. \A u \in Timers :
        /\ Spare(u) => Spare(u)'
        /\ posts[u] + Held(u) <= ticks[u] => (posts[u] + Held(u) <= ticks[u])'
  BY <1>0, <1>2 DEF Spare, Held
<1>4. \A u \in Timers : client[u] = "new" => (posts[u] + Held(u) <= ticks[u])'
  <2> SUFFICES ASSUME NEW u \in Timers, client[u] = "new" PROVE (posts[u] + Held(u) <= ticks[u])'
    OBVIOUS
  <2>1. u \notin signalled /\ u \notin armed /\ posts[u] = 0 /\ ~(pc = "post" /\ callback = u)
    BY DEF GhostInv, Started
  <2> QED
    BY <1>0, <1>2, <2>1 DEF Held
<1>5. Balanced'
  BY <1>1, <1>3, <1>4, BalanceKept
<1>6. TickInHand'
  <2> SUFFICES ASSUME pc \in {"check", "find"}
               PROVE  (\E u \in Timers : handleOf[u] = res /\ client[u] \notin {"new", "refused"} /\ Spare(u))'
    BY <1>0 DEF TickInHand
  <2>1. PICK u \in Timers : handleOf[u] = res /\ client[u] \notin {"new", "refused"} /\ Spare(u)
    BY DEF GhostInv, TickInHand
  <2> QED
    BY <1>0, <1>1, <1>3, <2>1
<1>7. Started' /\ DistinctIds'
  <2>1. ASSUME NEW t \in Timers, NEW h \in Handles, AddTimer(t, h) PROVE Started' /\ DistinctIds'
    BY <1>0, <2>1 DEF AddTimer, GhostInv, Started, DistinctIds, Ids, IndInv, TypeOK
  <2>2. ASSUME NEW t \in Timers, AddThrows(t) PROVE Started' /\ DistinctIds'
    BY <1>0, <2>2 DEF AddThrows, GhostInv, Started, DistinctIds, IndInv, TypeOK
  <2>3. ASSUME NEW t \in Timers, AsyncWait(t) PROVE Started' /\ DistinctIds'
    BY <1>0, <2>3 DEF AsyncWait, GhostInv, Started, DistinctIds, IndInv, TypeOK
  <2>4. ASSUME NEW t \in Timers, EraseTimer(t) PROVE Started' /\ DistinctIds'
    BY <1>0, <2>4 DEF EraseTimer, GhostInv, Started, DistinctIds, IndInv, TypeOK
  <2>5. ASSUME NEW t \in Timers, SetEvent(t) PROVE Started' /\ DistinctIds'
    BY <1>0, <2>5 DEF SetEvent, GhostInv, Started, DistinctIds, IndInv, TypeOK
  <2>6. ASSUME NEW t \in Timers, Tick(t) PROVE Started' /\ DistinctIds'
    BY <1>0, <2>6 DEF Tick, GhostInv, Started, DistinctIds, IndInv, TypeOK
  <2>7. CASE Stop \/ Join
    BY <1>0, <2>7 DEF Stop, Join, GhostInv, Started, DistinctIds
  <2> QED
    BY <2>1, <2>2, <2>3, <2>4, <2>5, <2>6, <2>7
<1> QED
  BY <1>5, <1>6, <1>7 DEF GhostInv

\* The service thread.
LEMMA GhostService ==
  ASSUME IndInv, GhostInv, Service
  PROVE  GhostInv'
<1>0. /\ \A u \in Timers : posts[u] \in Nat /\ ticks[u] \in Nat
      /\ UNCHANGED <<registered, handleOf, client, armed, ticks>>
      /\ registered \subseteq Timers /\ signalled \subseteq Timers
  BY DEF IndInv, TypeOK, Service, WaitFails, WaitBegins, WaitUpdate, WaitApc, WaitTimer, Copy,
         CheckSize, Find, Post
<1>1. DistinctIds' /\ \A u \in Timers : Erased(u)' <=> Erased(u)
  BY <1>0 DEF GhostInv, DistinctIds, Erased
<1>2. CASE WaitFails \/ WaitBegins \/ WaitUpdate \/ WaitApc \/ Copy \/ CheckSize
  <2>1. /\ UNCHANGED <<signalled, posts, callback, res>> /\ pc # "post" /\ pc' # "post"
        /\ pc' \in {"check", "find"} => pc = "check"
    BY <1>2 DEF WaitFails, WaitBegins, WaitUpdate, WaitApc, Copy, CheckSize
  <2>2. \A u \in Timers : Held(u)' = Held(u) /\ (Spare(u)' <=> Spare(u))
    BY <1>0, <2>1 DEF Held, Spare
  <2>3. Balanced'
    BY <1>0, <1>1, <2>1, <2>2 DEF GhostInv, Balanced, Owed
  <2>4. TickInHand' /\ Started'
    BY <1>0, <2>1, <2>2 DEF GhostInv, TickInHand, Started
  <2> QED
    BY <1>1, <2>3, <2>4 DEF GhostInv
<1>3. ASSUME NEW t \in Timers, WaitTimer(t) PROVE GhostInv'
  <2>1. /\ UNCHANGED <<posts, callback>> /\ pc = "waiting" /\ pc' = "check"
        /\ t \in signalled /\ signalled' = signalled \ {t} /\ res' = handleOf[t]
    BY <1>3 DEF WaitTimer
  <2>2. \A u \in Timers : /\ Held(u)' = IF u = t THEN 0 ELSE Held(u)
                          /\ Held(u) \in {0, 1} /\ Held(t) = 1
    BY <2>1 DEF Held
  <2>3. \A u \in Timers : Spare(u) => Spare(u)'
    BY <1>0, <2>1, <2>2 DEF Spare
  <2>4. \A u \in Timers : posts[u] + Held(u) <= ticks[u] => (posts[u] + Held(u) <= ticks[u])'
    BY <1>0, <2>1, <2>2
  <2>5. Started'
    BY <1>0, <2>1 DEF GhostInv, Started
  <2>6. \A u \in Timers : client[u] = "new" => (posts[u] + Held(u) <= ticks[u])'
    BY <1>0, <2>1, <2>2, <2>5 DEF Started, Held
  <2>7. Balanced'
    BY <1>0, <1>1, <2>3, <2>4, <2>6, BalanceKept
  <2>8. client[t] \notin {"new", "refused"}
    BY <2>1 DEF GhostInv, Started
  <2>9. TickInHand'
    <3>1. CASE posts[t] + Held(t) <= ticks[t]
      <4>1. Spare(t)'
        BY <1>0, <2>1, <2>2, <3>1 DEF Spare
      <4> QED
        BY <1>0, <2>1, <2>8, <4>1 DEF TickInHand
    <3>2. CASE Owed(t)
      <4>1. PICK u \in Timers \ {t} : Erased(u) /\ handleOf[u] = handleOf[t] /\ Spare(u)
        BY <3>2 DEF Owed
      <4> QED
        BY <1>0, <2>1, <2>3, <4>1 DEF TickInHand, Erased
    <3> QED
      BY <3>1, <3>2 DEF GhostInv, Balanced
  <2> QED
    BY <1>1, <2>5, <2>7, <2>9 DEF GhostInv
<1>4. CASE Find
  <2>1. UNCHANGED <<signalled, posts, res>> /\ pc = "find" /\ pc' \in {"loop", "post"}
    BY <1>4 DEF Find
  <2>2. CASE pc' = "loop"
    <3>1. \A u \in Timers : Held(u)' = Held(u) /\ (Spare(u)' <=> Spare(u))
      BY <1>0, <2>1, <2>2 DEF Held, Spare
    <3>2. Balanced' /\ TickInHand' /\ Started'
      BY <1>0, <1>1, <2>1, <2>2, <3>1 DEF GhostInv, Balanced, Owed, TickInHand, Started
    <3> QED
      BY <1>1, <3>2 DEF GhostInv
  <2>3. CASE pc' = "post"
    <3>1. callback' \in registered /\ handleOf[callback'] = res
      BY <1>4, <2>3 DEF Find, TimerAt
    <3>2. PICK t \in Timers : t = callback' /\ t \in registered /\ handleOf[t] = res
      BY <1>0, <3>1
    <3>3. client[t] \in {"adding", "added"}
      BY <3>2 DEF GhostInv, Started
    <3>4. \A u \in Timers : Held(u) \in Nat /\ Held(u)' = IF u = t THEN Held(u) + 1 ELSE Held(u)
      BY <2>1, <2>3, <3>2 DEF Held
    <3>5. \A u \in Timers \ {t} : Spare(u)' <=> Spare(u)
      BY <1>0, <2>1, <3>4 DEF Spare
    <3>6. PICK u \in Timers : handleOf[u] = res /\ client[u] \notin {"new", "refused"} /\ Spare(u)
      BY <2>1 DEF GhostInv, TickInHand
    <3>7. (posts[t] + Held(t) <= ticks[t])' \/ Owed(t)'
      <4>1. CASE u = t
        BY <1>0, <2>1, <3>4, <3>6, <4>1 DEF Spare
      <4>2. CASE u # t
        <5>1. u \notin registered
          BY <3>2, <3>6, <4>2 DEF GhostInv, DistinctIds
        <5>2. Erased(u)
          BY <3>6, <5>1 DEF GhostInv, Started, Erased, IndInv, TypeOK
        <5> QED
          BY <1>0, <1>1, <3>2, <3>5, <3>6, <4>2, <5>2 DEF Owed
      <4> QED
        BY <4>1, <4>2
    <3>8. ASSUME NEW w \in Timers \ {t} PROVE (posts[w] + Held(w) <= ticks[w])' \/ Owed(w)'
      <4>1. CASE posts[w] + Held(w) <= ticks[w]
        BY <1>0, <2>1, <3>4, <4>1
      <4>2. CASE Owed(w)
        <5>1. PICK v \in Timers \ {w} : Erased(v) /\ handleOf[v] = handleOf[w] /\ Spare(v)
          BY <4>2 DEF Owed
        <5>2. v # t
          BY <3>3, <5>1 DEF Erased
        <5> QED
          BY <1>0, <1>1, <3>5, <5>1, <5>2 DEF Owed
      <4> QED
        BY <4>1, <4>2 DEF GhostInv, Balanced
    <3>9. Balanced'
      BY <3>7, <3>8 DEF Balanced
    <3>10. TickInHand' /\ Started'
      BY <1>0, <2>1, <2>3, <3>2, <3>3 DEF GhostInv, TickInHand, Started
    <3> QED
      BY <1>1, <3>9, <3>10 DEF GhostInv
  <2> QED
    BY <2>1, <2>2, <2>3
<1>5. CASE Post
  <2>1. /\ UNCHANGED <<signalled, res>> /\ pc = "post" /\ pc' = "loop" /\ callback \in Timers
        /\ posts' = [posts EXCEPT ![callback] = @ + 1]
    BY <1>5 DEF Post, IndInv, HasCallback
  <2>2. PICK t \in Timers : t = callback
    BY <2>1
  <2>3. \A u \in Timers : posts'[u] = IF u = t THEN posts[u] + 1 ELSE posts[u]
    BY <2>1, <2>2 DEF IndInv, TypeOK
  <2>4. \A u \in Timers : /\ Held(u) \in Nat /\ Held(t) >= 1
                          /\ Held(u)' = IF u = t THEN Held(u) - 1 ELSE Held(u)
    BY <2>1, <2>2 DEF Held
  <2>5. \A u \in Timers : posts'[u] + Held(u)' = posts[u] + Held(u)
    BY <1>0, <2>3, <2>4
  <2>6. \A u \in Timers : Spare(u)' <=> Spare(u)
    BY <1>0, <2>5 DEF Spare
  <2>7. Balanced'
    BY <1>0, <1>1, <2>5, <2>6 DEF GhostInv, Balanced, Owed
  <2>8. client[t] \notin {"new", "refused"}
    BY <2>1, <2>2 DEF GhostInv, Started
  <2>9. TickInHand' /\ Started'
    BY <1>0, <2>1, <2>2, <2>3, <2>8 DEF GhostInv, TickInHand, Started
  <2> QED
    BY <1>1, <2>7, <2>9 DEF GhostInv
<1> QED
  BY <1>2, <1>3, <1>4, <1>5 DEF Service

\* Every post answers a tick of its timer, or one of an erased timer whose
\* handle value it was given; and after erase_timer() there is at most one.
THEOREM PostsAreJustified == Spec => []PostsJustified
<1>1. Init => GhostInv
  <2> SUFFICES ASSUME Init PROVE GhostInv
    OBVIOUS
  <2>1. Balanced /\ TickInHand
    BY DEF Init, Balanced, TickInHand, Held
  <2>2. Started /\ DistinctIds
    BY DEF Init, Started, DistinctIds
  <2> QED
    BY <2>1, <2>2 DEF GhostInv
<1>2. IndInv /\ GhostInv /\ [Next]_vars => GhostInv'
  <2>1. ASSUME GhostInv, UNCHANGED vars PROVE GhostInv'
    BY <2>1 DEF vars, GhostInv, Balanced, Owed, Erased, Spare, Held, TickInHand, Started, DistinctIds
  <2> QED
    BY <2>1, GhostClient, GhostService DEF Next
<1>3. IndInv /\ GhostInv => PostsJustified
  <2> SUFFICES ASSUME IndInv, GhostInv PROVE OneLatePost /\ GhostNeedsReuse
    BY DEF PostsJustified
  <2>1. OneLatePost
    BY DEF IndInv, LateOnce, OneLatePost
  <2>2. \A u \in Timers : Held(u) \in Nat /\ posts[u] \in Nat /\ ticks[u] \in Nat
    BY DEF Held, IndInv, TypeOK
  <2>3. \A u \in Timers : Spare(u) => ticks[u] > posts[u]
    BY <2>2 DEF Spare
  <2>4. \A t \in Timers : posts[t] > ticks[t] => Owed(t)
    BY <2>2 DEF GhostInv, Balanced
  <2> QED
    BY <2>1, <2>3, <2>4 DEF Owed, Erased, GhostNeedsReuse
<1> QED
  BY Invariance, <1>1, <1>2, <1>3, PTL DEF Spec
=============================================================================
