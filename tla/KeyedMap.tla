------------------------------ MODULE KeyedMap ------------------------------
(***************************************************************************)
(* What std::map promises and assoc_vector_t stands in for: each object is *)
(* a function from the keys it holds to values, and a call returns what    *)
(* the function says.  Only the first value inserted for a key counts.     *)
(***************************************************************************)
EXTENDS Naturals, Functions

CONSTANTS Objects, Keys, Vals, Default, Ranges

VARIABLES
  map,           \* the function each object holds
  ret            \* what the last call returned

mapVars == <<map, ret>>

None == "none"
Empty == [k \in {} |-> Default]
Held(x) == DOMAIN map[x]
With(f, k, v) == IF k \in DOMAIN f THEN f ELSE [j \in (DOMAIN f) \cup {k} |-> IF j = k THEN v ELSE f[j]]

Init == map = [x \in Objects |-> Empty] /\ ret = None

Insert(x, k, v) ==
  /\ map' = [map EXCEPT ![x] = With(@, k, v)]
  /\ ret' = IF k \in Held(x) THEN "old" ELSE "new"
\* The insertion with a hint, and operator[], return the value at the key.
Place(x, k, v) ==
  /\ map' = [map EXCEPT ![x] = With(@, k, v)]
  /\ ret' = map'[x][k]
Fill(x, kv) ==
  /\ map' = [map EXCEPT ![x] = With(With(@, kv[1][1], kv[1][2]), kv[2][1], kv[2][2])]
  /\ ret' = None
Refill(x, kv) ==
  /\ map' = [map EXCEPT ![x] = With(With(Empty, kv[1][1], kv[1][2]), kv[2][1], kv[2][2])]
  /\ ret' = None
Erase(x, k) ==
  /\ map' = [map EXCEPT ![x] = Restrict(@, Held(x) \ {k})]
  /\ ret' = IF k \in Held(x) THEN "erased" ELSE "absent"
Remove(x, S) ==
  /\ map' = [map EXCEPT ![x] = Restrict(@, Held(x) \ S)]
  /\ ret' = None
Swap(x, y) == map' = [map EXCEPT ![x] = map[y], ![y] = map[x]] /\ ret' = None
Copy(x, y) == map' = [map EXCEPT ![x] = map[y]] /\ ret' = None
Find(x, k) ==
  /\ ret' = IF k \in Held(x) THEN map[x][k] ELSE None
  /\ UNCHANGED map

Next ==
  \E x \in Objects :
    \/ \E k \in Keys : Erase(x, k) \/ Find(x, k) \/ \E v \in Vals : Insert(x, k, v) \/ Place(x, k, v)
    \/ \E kv \in Ranges : Fill(x, kv) \/ Refill(x, kv)
    \/ \E S \in SUBSET Held(x) : Remove(x, S)
    \/ \E y \in Objects : Swap(x, y) \/ Copy(x, y)

Spec == Init /\ [][Next]_mapVars
=============================================================================
