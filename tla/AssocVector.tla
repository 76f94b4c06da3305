---------------------------- MODULE AssocVector ----------------------------
(***************************************************************************)
(* assoc_vector_t (extend_stl/container/assio_vector.hpp): a vector of     *)
(* pairs, sorted by its object's own comparison, that stands in for a map. *)
(* An iterator is a position; end() is the one after the last.             *)
(***************************************************************************)
EXTENDS Integers, Sequences, SequencesExt

CONSTANTS
  Objects,       \* assoc_vector_t objects
  Keys, Vals,    \* key_type (integers) and mapped_type
  Default,       \* mapped_type()
  Ranges,        \* sequences of two pairs given to a range call
  Orders,        \* comparisons the objects are constructed with
  MaxPairs       \* bound: pairs in all the objects together

VARIABLES
  vec,           \* the vector each object derives from
  order,         \* its comparison: 1 ascending, -1 descending
  ret            \* what the last call returned

vectorVars == <<vec, order, ret>>

NoValue == "none"
Pairs == Keys \X Vals

\* The comparisons are std::less and std::greater on integers.
ASSUME VectorAssumption ==
  /\ Keys \subseteq Int /\ Default \in Vals /\ MaxPairs \in Nat
  /\ Ranges \subseteq Pairs \X Pairs
  /\ Orders \subseteq [Objects -> {1, -1}]

\* The constructor takes the comparison.
VectorInit ==
  /\ vec = [x \in Objects |-> <<>>]
  /\ order \in Orders
  /\ ret = NoValue

Less(x, j, k) == order[x] * j < order[x] * k
End(s) == Len(s) + 1

\* std::lower_bound on a vector that is partitioned by the key.
LowerBound(x, s, k) ==
  CHOOSE i \in 1..End(s) :
    /\ \A j \in 1..(i - 1) : Less(x, s[j][1], k)
    /\ i = End(s) \/ ~Less(x, s[i][1], k)

\* find(): lower_bound, and end() when that is a greater key.
FindPos(x, k) ==
  LET i == LowerBound(x, vec[x], k)
  IN  IF i # End(vec[x]) /\ Less(x, k, vec[x][i][1]) THEN End(vec[x]) ELSE i

\* insert(val) on the vector s: the vector, and whether the key was new.
InsertInto(x, s, p) ==
  LET i == LowerBound(x, s, p[1])
  IN  IF i = End(s) \/ Less(x, p[1], s[i][1])
      THEN [s |-> InsertAt(s, i, p), new |-> TRUE, at |-> i]
      ELSE [s |-> s, new |-> FALSE, at |-> i]

InsertPair(x, p) ==
  LET r == InsertInto(x, vec[x], p)
  IN  vec' = [vec EXCEPT ![x] = r.s] /\ ret' = (IF r.new THEN "new" ELSE "old") /\ UNCHANGED order

\* operator[]: what insert() found or made at the key.
Index(x, k) ==
  LET r == InsertInto(x, vec[x], <<k, Default>>)
  IN  vec' = [vec EXCEPT ![x] = r.s] /\ ret' = r.s[r.at][2] /\ UNCHANGED order

\* Mutant: the left neighbour is not looked at.
HintFitsRight(x, pos, p) == pos = End(vec[x]) \/ Less(x, p[1], vec[x][pos][1])

\* The hint is right: the pair fits strictly between its neighbours.
HintFits(x, pos, p) ==
  /\ pos = 1 \/ Less(x, vec[x][pos - 1][1], p[1])
  /\ pos = End(vec[x]) \/ Less(x, p[1], vec[x][pos][1])

\* insert(pos, val): at the hint when it is right, else where it belongs.
InsertHint(x, pos, p) ==
  LET r == IF HintFits(x, pos, p) THEN [s |-> InsertAt(vec[x], pos, p), at |-> pos]
                                  ELSE InsertInto(x, vec[x], p)
  IN  vec' = [vec EXCEPT ![x] = r.s] /\ ret' = r.s[r.at][2] /\ UNCHANGED order

\* insert(first, last) of two elements.
InsertRange(x, pp) ==
  /\ vec' = [vec EXCEPT ![x] = InsertInto(x, InsertInto(x, @, pp[1]).s, pp[2]).s]
  /\ ret' = NoValue /\ UNCHANGED order

\* The constructor from a range, by way of a std::map with the comparison.
FromRange(x, pp) ==
  /\ vec' = [vec EXCEPT ![x] = InsertInto(x, InsertInto(x, <<>>, pp[1]).s, pp[2]).s]
  /\ ret' = NoValue /\ UNCHANGED order

\* erase(key)
EraseKey(x, k) ==
  LET i == FindPos(x, k)
  IN  /\ vec' = IF i = End(vec[x]) THEN vec ELSE [vec EXCEPT ![x] = RemoveAt(@, i)]
      /\ ret' = IF i = End(vec[x]) THEN "absent" ELSE "erased"
      /\ UNCHANGED order

\* erase(first, last), of which erase(pos) and clear() are cases.
EraseRange(x, i, j) ==
  /\ i < j
  /\ vec' = [vec EXCEPT ![x] = SubSeq(@, 1, i - 1) \o SubSeq(@, j, Len(@))]
  /\ ret' = NoValue /\ UNCHANGED order

\* swap(): the vectors and the comparisons.
Swap(x, y) ==
  /\ x # y
  /\ vec' = [vec EXCEPT ![x] = vec[y], ![y] = vec[x]]
  /\ order' = [order EXCEPT ![x] = order[y], ![y] = order[x]]
  /\ ret' = NoValue

\* operator=: a copy, swapped.
CopyFrom(x, y) ==
  /\ vec' = [vec EXCEPT ![x] = vec[y]]
  /\ order' = [order EXCEPT ![x] = order[y]]
  /\ ret' = NoValue

\* find(), and count() and equal_range() with it.
Find(x, k) ==
  LET i == FindPos(x, k)
  IN  /\ ret' = IF i = End(vec[x]) THEN NoValue ELSE vec[x][i][2]
      /\ UNCHANGED <<vec, order>>

Bounded == FoldSet(LAMBDA x, n : n + Len(vec'[x]), 0, Objects) <= MaxPairs

VectorNext ==
  /\ \E x \in Objects :
       \/ \E k \in Keys : Index(x, k) \/ EraseKey(x, k) \/ Find(x, k)
       \/ \E p \in Pairs : InsertPair(x, p) \/ \E pos \in 1..End(vec[x]) : InsertHint(x, pos, p)
       \/ \E pp \in Ranges : InsertRange(x, pp) \/ FromRange(x, pp)
       \/ \E i, j \in 1..End(vec[x]) : EraseRange(x, i, j)
       \/ \E y \in Objects : Swap(x, y) \/ CopyFrom(x, y)
  /\ Bounded

VectorSpec == VectorInit /\ [][VectorNext]_vectorVars

-----------------------------------------------------------------------------
(* Properties *)

\* The function a vector of pairs stands for.
AsMap(s) == [k \in {s[i][1] : i \in DOMAIN s} |-> s[CHOOSE i \in DOMAIN s : s[i][1] = k][2]]

Map == INSTANCE KeyedMap WITH map <- [x \in Objects |-> AsMap(vec[x])]

\* Through every sequence of calls, hints right or wrong, swaps between objects
\* with opposite comparisons included, the vector changes and answers as a
\* std::map with the same calls would: the class "replaces map".
ImplementsMap == Map!Spec
=============================================================================
