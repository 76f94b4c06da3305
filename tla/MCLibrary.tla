----------------------------- MODULE MCLibrary -----------------------------
(***************************************************************************)
(* The library classes for TLC: a run is about one of the memory pools, a  *)
(* stream, a pair of sorted vectors, the synchronised containers or a      *)
(* blocking queue; the others stay as they were constructed.               *)
(***************************************************************************)
EXTENDS MemoryPool, Serialize, SyncContainers, BlockingQueues, AssocVector

CONSTANTS
  a, b,          \* two sorted vectors
  u, d           \* two mapped values, d the default

VARIABLE focus   \* "pool", "stream", "vector", "sync" or "queue"

-----------------------------------------------------------------------------
(* Values to push: every kind of type the streams dispatch on, nested ones *)
(* included.                                                               *)

Int8 == [t |-> "pod", n |-> 1]
Int16 == [t |-> "pod", n |-> 2]
Str == [t |-> "string", n |-> 1]
WStr == [t |-> "string", n |-> 2]
WCStr == [t |-> "cstring", n |-> 2]
StrList == [t |-> "sequence", of |-> Str]

MCItems ==
  {[type |-> Int8, val |-> 3], [type |-> Int16, val |-> 2],
   [type |-> Str, val |-> <<1, 0>>], [type |-> WCStr, val |-> <<2, 1>>],
   [type |-> [t |-> "chars", n |-> 1, max |-> 3], val |-> <<1>>],
   [type |-> [t |-> "array", n |-> 2, max |-> 2], val |-> <<1, 2>>],
   [type |-> [t |-> "objects", of |-> Str, max |-> 2], val |-> <<<<1>>, <<>>>>],
   [type |-> [t |-> "vector", n |-> 2], val |-> <<0, 3>>],
   [type |-> StrList, val |-> <<<<1>>, <<2, 3>>>>],
   [type |-> [t |-> "set", of |-> Int8], val |-> <<1, 2>>],
   [type |-> [t |-> "assoc", key |-> Int8, of |-> StrList],
    val |-> <<<<1, <<>>>>, <<2, <<<<3>>>>>>>>],
   [type |-> [t |-> "tuple", of |-> <<Int8, Str, Int16>>], val |-> <<1, <<2>>, 3>>],
   [type |-> [t |-> "pointer", of |-> WStr], val |-> <<1>>]}

\* text_in_t has no push_array and takes characters of one byte.
Textual(T) == T \notin {WCStr, [t |-> "array", n |-> 2, max |-> 2], [t |-> "vector", n |-> 2],
                        [t |-> "pointer", of |-> WStr]}
MCTextItems == {x \in MCItems : Textual(x.type)}

\* With the parts of the values, three deep, and the types of empty ones.
PartsOf(S) ==
  UNION {{Parts(x)[i] : i \in DOMAIN Parts(x)} :
           x \in {y \in S : Container(y.type) \/ Compound(y.type)}}
Inner == PartsOf(MCItems)
MCValues == MCItems \cup Inner \cup PartsOf(Inner) \cup PartsOf(PartsOf(Inner))
MCTypes == {x.type : x \in MCValues}

MCRanges == {<<<<j, u>>, <<k, d>>>> : j \in Keys, k \in Keys}
\* One vector ascending, one descending.
MCOrders == {[x \in Objects |-> IF x = a THEN 1 ELSE -1]}

MCInit ==
  /\ focus \in {"pool", "stream", "vector", "sync", "queue"}
  /\ Init /\ StreamInit /\ VectorInit /\ SyncInit /\ QueueInit
  /\ focus # "pool" => kind = "sgi"
  /\ focus # "stream" => target = "file" /\ mode = "binary"
  /\ focus # "queue" => limit = Unbounded

MCNext ==
  \/ focus = "pool" /\ Next /\ UNCHANGED <<focus, streamVars, vectorVars, syncVars, queueVars>>
  \/ focus = "stream" /\ StreamNext /\ UNCHANGED <<focus, vars, vectorVars, syncVars, queueVars>>
  \/ focus = "vector" /\ VectorNext /\ UNCHANGED <<focus, vars, streamVars, syncVars, queueVars>>
  \/ focus = "sync" /\ SyncNext /\ UNCHANGED <<focus, vars, streamVars, vectorVars, queueVars>>
  \/ focus = "queue" /\ QueueNext /\ UNCHANGED <<focus, vars, streamVars, vectorVars, syncVars>>

MCSpec == MCInit /\ [][MCNext]_<<focus, vars, streamVars, vectorVars, syncVars, queueVars>>
=============================================================================
