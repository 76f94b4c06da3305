--------------------------- MODULE SyncContainers ---------------------------
(***************************************************************************)
(* sync_assoc_container_t and sync_sequence_container_t (extend_stl/       *)
(* container/sync_container.hpp): an STL container under a recursive       *)
(* mutex.  A call that runs no code of its caller is one step.  The ones   *)
(* that call an operation of the caller (for_each, op_if, not_if_op) are   *)
(* split, and the operation may call the container again.                  *)
(*                                                                         *)
(* An element is a number that is never used again, so that a position or  *)
(* a reference that outlives its element can be told from its successor.   *)
(***************************************************************************)
EXTENDS Naturals, Sequences, SequencesExt

CONSTANTS
  SyncThreads,
  SyncKeys,      \* keys of the associative container
  MaxElems       \* bound: elements made

NoElement == 0
Nobody == 0

\* Any threads; 0 stands for none of them.
ASSUME SyncAssumption == Nobody \notin SyncThreads /\ MaxElems \in Nat

VARIABLES
  map,           \* the element under each key, or NoElement
  seq,           \* the sequence container
  mutex,         \* the thread inside a split call, or Nobody: its depth is one,
                 \*   a nested call enters and leaves in one step
  pc,            \* the split call a thread is in
  key,           \* its key
  at,            \* the element its operation was given
  self,          \* its operation removed that element itself (history)
  put,           \* its operation inserted the key itself (history)
  made           \* elements made so far

callVars == <<mutex, pc, key, at>>
syncVars == <<map, seq, mutex, pc, key, at, self, put, made>>

SyncInit ==
  /\ map = [k \in SyncKeys |-> NoElement] /\ seq = <<>>
  /\ mutex = Nobody
  /\ pc = [t \in SyncThreads |-> "out"]
  /\ key = [t \in SyncThreads |-> CHOOSE k \in SyncKeys : TRUE]
  /\ at = [t \in SyncThreads |-> NoElement]
  /\ self = [t \in SyncThreads |-> FALSE] /\ put = [t \in SyncThreads |-> FALSE]
  /\ made = 0

\* AutoLock lock(mutex_): nobody else holds the recursive mutex.
Locks(t) == mutex \in {Nobody, t}

Elements(f, s) == ({f[k] : k \in SyncKeys} \cup ToSet(s)) \ {NoElement}

\* What a call of t leaves in the containers.
Becomes(t, f, s) ==
  /\ map' = f /\ seq' = s
  /\ self' = [self EXCEPT ![t] = @ \/ at[t] \notin Elements(f, s)]
  /\ UNCHANGED <<callVars>>

\* insert(): keeps what is there; operator[]: the same with a default value.
SyncInsert(t, k) ==
  /\ Locks(t) /\ made < MaxElems /\ map[k] = NoElement
  /\ made' = made + 1
  /\ Becomes(t, [map EXCEPT ![k] = made + 1], seq)
  /\ put' = [put EXCEPT ![t] = @ \/ k = key[t]]

PushBack(t) ==
  /\ Locks(t) /\ made < MaxElems
  /\ made' = made + 1
  /\ Becomes(t, map, Append(seq, made + 1))
  /\ UNCHANGED put

PushFront(t) ==
  /\ Locks(t) /\ made < MaxElems
  /\ made' = made + 1
  /\ Becomes(t, map, <<made + 1>> \o seq)
  /\ UNCHANGED put

\* erase(key)
Erase(t, k) ==
  /\ Locks(t) /\ map[k] # NoElement
  /\ Becomes(t, [map EXCEPT ![k] = NoElement], seq)
  /\ UNCHANGED <<put, made>>

\* erase(op): the first element that op accepts; pop_top() the first of all.
EraseFirst(t, i) ==
  /\ Locks(t) /\ i \in DOMAIN seq
  /\ Becomes(t, map, RemoveAt(seq, i))
  /\ UNCHANGED <<put, made>>

ClearMap(t) ==
  /\ Locks(t) /\ \E k \in SyncKeys : map[k] # NoElement
  /\ Becomes(t, [k \in SyncKeys |-> NoElement], seq)
  /\ UNCHANGED <<put, made>>

ClearSeq(t) ==
  /\ Locks(t) /\ seq # <<>>
  /\ Becomes(t, map, <<>>)
  /\ UNCHANGED <<put, made>>

\* sort(): any order the comparison of the caller gives.
Sort(t) ==
  /\ Locks(t)
  /\ \E i, j \in DOMAIN seq : i < j /\ Becomes(t, map, [seq EXCEPT ![i] = seq[j], ![j] = seq[i]])
  /\ UNCHANGED <<put, made>>

\* Thread t starts the caller's operation with element e, locked or not.
Enters(t, how, k, e, locked) ==
  /\ pc[t] = "out"
  /\ pc' = [pc EXCEPT ![t] = how]
  /\ key' = [key EXCEPT ![t] = k]
  /\ at' = [at EXCEPT ![t] = e]
  /\ self' = [self EXCEPT ![t] = FALSE] /\ put' = [put EXCEPT ![t] = FALSE]
  /\ mutex' = IF locked THEN t ELSE mutex
  /\ UNCHANGED <<map, seq, made>>

\* Mutant: op_if() unlocks before the operation, as not_if_op() does.
OpIfUnlocks(t, k) ==
  /\ mutex = Nobody /\ map[k] # NoElement
  /\ Enters(t, "op", k, map[k], FALSE)

\* op_if(key, op): the operation runs under the lock.
OpIf(t, k) ==
  /\ mutex = Nobody /\ map[k] # NoElement
  /\ Enters(t, "op", k, map[k], TRUE)

\* op_if(func, op) of the sequence, and the loop of for_each().
OpIfSeq(t, i) ==
  /\ mutex = Nobody /\ i \in DOMAIN seq
  /\ Enters(t, "op", key[t], seq[i], TRUE)

\* not_if_op(key, op): the lock is released before the operation.
NotIfOp(t, k) ==
  /\ mutex = Nobody /\ map[k] = NoElement
  /\ Enters(t, "absent", k, NoElement, FALSE)

\* The operation returns, and the lock with it.
Leaves(t) ==
  /\ pc[t] # "out"
  /\ pc' = [pc EXCEPT ![t] = "out"]
  /\ at' = [at EXCEPT ![t] = NoElement]
  /\ mutex' = IF mutex = t THEN Nobody ELSE mutex
  /\ UNCHANGED <<map, seq, key, self, put, made>>

SyncNext ==
  \E t \in SyncThreads :
    \/ PushBack(t) \/ PushFront(t) \/ ClearMap(t) \/ ClearSeq(t) \/ Sort(t) \/ Leaves(t)
    \/ \E k \in SyncKeys : SyncInsert(t, k) \/ Erase(t, k) \/ OpIf(t, k) \/ NotIfOp(t, k)
    \/ \E i \in DOMAIN seq : EraseFirst(t, i) \/ OpIfSeq(t, i)

SyncSpec == SyncInit /\ [][SyncNext]_syncVars

-----------------------------------------------------------------------------
(* Properties *)

\* The element an operation of op_if() or for_each() was given stays in the
\* container until the operation returns, whatever other threads call, unless
\* the operation, which may call the container again, removes it itself.
ElementStays ==
  \A t \in SyncThreads :
    (pc[t] = "op" /\ ~self[t]) => at[t] \in Elements(map, seq)

\* "If the key is not found in the container, op is executed": while the
\* operation of not_if_op() runs, the key is absent unless it was put there
\* by the operation.
StillAbsent ==
  \A t \in SyncThreads : (pc[t] = "absent" /\ ~put[t]) => map[key[t]] = NoElement
=============================================================================
