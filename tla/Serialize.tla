------------------------------ MODULE Serialize ------------------------------
(***************************************************************************)
(* The streams of serialize/: serialize_t over a memory buffer or a file,  *)
(* binary_in_t and text_in_t to push values, binary_out_t to pop them.     *)
(*                                                                         *)
(* A type is a record whose field `t' names the C++ type; a value of a     *)
(* plain type is a number, any other value a sequence.  The calls of push  *)
(* and pop for the parts of a value are a stack: each step makes the call  *)
(* on top, which writes or reads at most once, checked against the end of  *)
(* the buffer, and leaves the calls for the parts of its value.            *)
(*                                                                         *)
(* Lengths and positions are std::uint32_t, and so is the arithmetic of    *)
(* the checks.                                                             *)
(***************************************************************************)
EXTENDS Integers, Sequences

CONSTANTS
  LenSize,       \* sizeof(std::uint32_t)
  SizeT,         \* sizeof(size_type) of the containers
  Lengths,       \* lengths of the memory buffer
  Word,          \* 2^32, which is the size of the address space as well
  Garbage,       \* what bytes that are no length may come out as
  Types,         \* the types pushed and popped, with those of their parts
  Values,        \* their values, records [type, val], with those of their parts
  Items,         \* the values given to operator<<
  TextItems,     \* those text_in_t compiles for
  MaxItems       \* bound: calls of operator<<

VARIABLES
  target,        \* "memory" or "file"
  mode,          \* "binary" or "text"
  bufLen,        \* buffer_length()
  buf,           \* the bytes written
  inPos, outPos, \* in_pos_, out_pos_
  good,          \* state of the file
  op,            \* the operator that runs: "push" or "pop"; "idle"; "wild" after
                 \* a read outside the memory buffer, which ends the program
  calls,         \* its calls of push or pop that are to be made
  pushed,        \* values given to operator<< (history)
  broken,        \* the first value whose push threw, or 0 (history)
  popped,        \* whether each operator>> returned (history)
  torn,          \* a value was popped that was not pushed whole (history)
  log,           \* calls of push made until one threw: the stack, position and
                 \* value (history)
  got            \* calls of pop made: what they read (history)

streamVars == <<target, mode, bufLen, buf, inPos, outPos, good, op, calls,
                pushed, broken, popped, torn, log, got>>

StreamInit ==
  /\ target \in {"memory", "file"}
  /\ mode \in IF target = "file" THEN {"binary"} ELSE {"binary", "text"}
  /\ bufLen \in IF target = "file" THEN {Word - 1} ELSE Lengths
  /\ buf = <<>> /\ inPos = 0 /\ outPos = 0 /\ good = TRUE
  /\ op = "idle" /\ calls = <<>>
  /\ pushed = <<>> /\ broken = 0 /\ popped = <<>> /\ torn = FALSE
  /\ log = <<>> /\ got = <<>>

-----------------------------------------------------------------------------
(* Types                                                                   *)

Plain(T) == T.t \in {"pod", "array"}

\* A length, then all the plain elements in one write.
Text(T) == T.t \in {"string", "cstring", "chars", "vector"}

\* Of those, the ones whose pop resizes the object to the length it has read.
Resized(T) == T.t \in {"string", "vector"}

\* A length, then the elements one by one: the containers with a
\* container_traits_t of their own, which the unordered ones have not.
Container(T) == T.t \in {"sequence", "set", "assoc"}

\* No bytes but those of the parts: std::pair, std::tuple, T[N], T *.
Compound(T) == T.t \in {"tuple", "objects", "pointer"}

Array(n, max) == [t |-> "array", n |-> n, max |-> max]
Pair(T) == [t |-> "tuple", of |-> <<T.key, T.of>>]

-----------------------------------------------------------------------------
(* Bytes: <<v, j, n>> is byte j of n of the plain value v.                 *)

\* Plain values of n bytes side by side, as in an array.
Packed(s, n) ==
  [p \in 1..(Len(s) * n) |-> <<s[((p - 1) \div n) + 1], ((p - 1) % n) + 1, n>>]

\* The digits of std::to_string: as many as the value has.
Digits(v) == Packed(<<v>>, v + 1)

\* What k values of n bytes are to a reader: bytes that are not one whole value
\* of this size come out as `g'.
Unpacked(bytes, k, n, g) ==
  [i \in 1..k |->
     LET v == bytes[(i - 1) * n + 1][1] IN
     IF \A j \in 1..n : bytes[(i - 1) * n + j] = <<v, j, n>> THEN v ELSE g]

\* memory_t::read, file_t::read: bytes never written are not of any value.
Stored(pos, n) ==
  [j \in 1..n |-> IF pos + j <= Len(buf) THEN buf[pos + j] ELSE <<0, 0, 0>>]

\* Mutant: only the position is compared with the end, not the length.
FitsStart(pos, n) == pos <= bufLen /\ good

\* The checks of push and pop, of the buffer's end and of the file; the sum is
\* one of std::uint32_t.
Fits(pos, n) == (pos + n) % Word <= bufLen /\ good

-----------------------------------------------------------------------------
(* push                                                                    *)

\* Text streams have no lengths.
Pushes(T) == Plain(T) \/ (~Compound(T) /\ mode = "binary")

\* Mutant: the length of a string counts bytes.
LengthInBytes(x) == IF Text(x.type) THEN Len(x.val) * x.type.n ELSE Len(x.val)

\* The length announced: of char[N] that of the array.
PushLength(x) == IF x.type.t = "chars" THEN x.type.max ELSE Len(x.val)

\* The plain values a call of push writes itself, and their size.
Cells(x) ==
  CASE ~Pushes(x.type)      -> <<>>
    [] x.type.t = "pod"     -> <<x.val>>
    [] x.type.t = "array"   -> x.val
    [] OTHER                -> <<PushLength(x)>>
CellSize(T) == IF Plain(T) THEN T.n ELSE LenSize

\* Text streams check for the size of the value and write its digits.
Written(x) ==
  IF mode = "text" /\ x.type.t = "pod" THEN Digits(x.val) ELSE Packed(Cells(x), CellSize(x.type))
Needed(x) == Len(Cells(x)) * CellSize(x.type)

\* The characters of std::basic_string, char * ("cstring"), char[N], and std::vector of plain values
PushText(x) == <<[type |-> Array(x.type.n, Len(x.val)), val |-> x.val]>>

\* std::list, std::deque, std::vector of other values, T[N] of other values
PushEach(x) == [i \in 1..Len(x.val) |-> [type |-> x.type.of, val |-> x.val[i]]]

\* std::set and std::multiset, in the order of the keys
PushSet(x) == [i \in 1..Len(x.val) |-> [type |-> x.type.of, val |-> x.val[i]]]

\* std::map and std::multimap: key, value, key, value ...
PushAssoc(x) == [i \in 1..Len(x.val) |-> [type |-> Pair(x.type), val |-> x.val[i]]]

\* std::pair and std::tuple
PushTuple(x) == [i \in 1..Len(x.val) |-> [type |-> x.type.of[i], val |-> x.val[i]]]

\* T * and std::shared_ptr: what it points to
PushPointee(x) == <<[type |-> x.type.of, val |-> x.val]>>

\* select_traits_t, container_traits_t: the parts pushed after that.
Parts(x) ==
  CASE Plain(x.type)                          -> <<>>
    [] Text(x.type)                           -> PushText(x)
    [] x.type.t \in {"sequence", "objects"}   -> PushEach(x)
    [] x.type.t = "set"                       -> PushSet(x)
    [] x.type.t = "assoc"                     -> PushAssoc(x)
    [] x.type.t = "tuple"                     -> PushTuple(x)
    [] x.type.t = "pointer"                   -> PushPointee(x)

-----------------------------------------------------------------------------
(* pop                                                                     *)

\* The number and the size of the plain values a call of pop reads itself.
Reads(T) ==
  CASE Compound(T)       -> 0
    [] T.t = "array"     -> T.max
    [] OTHER             -> 1
ReadSize(T) ==
  CASE Plain(T)                      -> T.n
    [] Text(T) /\ T.t # "vector"     -> LenSize
    [] OTHER                         -> SizeT

\* The bytes of the read, a std::uint32_t; a memory buffer it would leave.
Size(T) == (Reads(T) * ReadSize(T)) % Word
Outside(T) == target = "memory" /\ outPos + Size(T) > bufLen

\* What bytes that are no value come out as; a plain value steers nothing, and
\* one is enough.
Junk(T) == IF Plain(T) \/ Compound(T) THEN {0} ELSE Garbage

\* What is read, where bytes that are no value come out as `g'.
Read(T, g) ==
  Unpacked(Stored(outPos, Size(T)), Size(T) \div ReadSize(T), ReadSize(T), g)

\* resize and reserve fail when the elements and a memory buffer do not have
\* room in the address space together.
Asked(T, k) == IF Text(T) THEN k * T.n ELSE k
NoRoom(T, k) == Asked(T, k) + (IF target = "memory" THEN bufLen ELSE 0) >= Word

\* The types of the parts popped after that, when `s' was read.
PopParts(T, s) ==
  CASE Plain(T)                      -> <<>>
    [] Text(T)                       -> <<Array(T.n, s[1])>>
    [] T.t \in {"sequence", "set"}   -> [i \in 1..s[1] |-> T.of]
    [] T.t = "assoc"                 -> [i \in 1..s[1] |-> Pair(T)]
    [] T.t = "objects"               -> [i \in 1..T.max |-> T.of]
    [] T.t = "tuple"                 -> T.of
    [] T.t = "pointer"               -> <<T.of>>

-----------------------------------------------------------------------------
(* The streams                                                             *)

\* Calls for the parts of an object; `at' is the place of the part in the
\* value, `what' what is pushed or popped there.
Nested(at, parts) == [i \in 1..Len(parts) |-> [at |-> Append(at, i), what |-> parts[i]]]

\* The values pushed without an exception.
Whole ==
  IF broken # 0 THEN broken - 1
  ELSE IF op = "push" THEN Len(pushed) - 1 ELSE Len(pushed)

\* operator<<, also after one that threw
OperatorIn(x) ==
  /\ op = "idle" /\ Len(pushed) < MaxItems
  /\ op' = "push"
  /\ pushed' = Append(pushed, x)
  /\ calls' = <<[at |-> <<Len(pushed) + 1>>, what |-> x]>>
  /\ UNCHANGED <<target, mode, bufLen, buf, inPos, outPos, good, broken, popped, torn, log,
                 got>>

\* Bound: the buffer and the value are in one address space, and a file is kept
\* below 4 GB.
Addressable(x) == inPos + Needed(x) < Word /\ inPos + Len(Written(x)) < Word

\* A call of push returns after its write; the operator when there is none left.
PushOne ==
  LET x == Head(calls).what
      rest == Nested(Head(calls).at, Parts(x)) \o Tail(calls)
  IN /\ op = "push" /\ Addressable(x)
     /\ Pushes(x.type) => Fits(inPos, Needed(x))
     /\ buf' = buf \o Written(x)
     /\ inPos' = inPos + Len(Written(x))
     /\ calls' = rest
     /\ op' = IF rest = <<>> THEN "idle" ELSE "push"
     /\ log' = IF broken # 0 THEN log
               ELSE Append(log, [calls |-> calls, pos |-> inPos, item |-> Len(pushed)])
     /\ UNCHANGED <<target, mode, bufLen, outPos, good, pushed, broken, popped, torn, got>>

\* A write that does not fit throws; what was written before it stays.
PushThrows ==
  LET x == Head(calls).what
  IN /\ op = "push" /\ Addressable(x)
     /\ Pushes(x.type) /\ ~Fits(inPos, Needed(x))
     /\ op' = "idle" /\ calls' = <<>>
     /\ broken' = IF broken = 0 THEN Len(pushed) ELSE broken
     /\ UNCHANGED <<target, mode, bufLen, buf, inPos, outPos, good, pushed, popped, torn, log,
                    got>>

\* operator>> with the type of the next value, be it whole or not
OperatorOut ==
  /\ op = "idle" /\ mode = "binary" /\ Len(popped) < Len(pushed)
  /\ op' = "pop"
  /\ torn' = (torn \/ Len(popped) >= Whole)
  /\ calls' = <<[at |-> <<Len(popped) + 1>>, what |-> pushed[Len(popped) + 1].type]>>
  /\ UNCHANGED <<target, mode, bufLen, buf, inPos, outPos, good, pushed, broken, popped, log, got>>

\* The call of pop on top reads inside the buffer; a file that ends before is
\* not good.
Pops(T, s) ==
  /\ op = "pop" /\ T = Head(calls).what
  /\ Compound(T) \/ Fits(outPos, Size(T))
  /\ ~Outside(T)
  /\ outPos' = (outPos + Size(T)) % Word
  /\ good' = (good /\ (target = "memory" \/ outPos + Size(T) <= Len(buf)))
  /\ got' = Append(got, [at |-> Head(calls).at, type |-> T, cells |-> s])
  /\ UNCHANGED <<target, mode, bufLen, buf, inPos, pushed, broken, torn, log>>

\* It leaves the calls for the parts; the operator returns when there is none.
PopOne(g) ==
  LET T == Head(calls).what
      s == Read(T, g)
      rest == Nested(Head(calls).at, PopParts(T, s)) \o Tail(calls)
  IN /\ Pops(T, s)
     /\ ~(Resized(T) /\ NoRoom(T, s[1]))
     /\ calls' = rest
     /\ IF rest = <<>> THEN op' = "idle" /\ popped' = Append(popped, TRUE)
                       ELSE UNCHANGED <<op, popped>>

\* The object cannot be made as long as was read: basic_string and vector of
\* plain values resize, vector of others reserves, list and deque do neither.
ResizeThrows(g) ==
  LET T == Head(calls).what
      s == Read(T, g)
  IN /\ Pops(T, s)
     /\ Resized(T) \/ T.t = "sequence"
     /\ NoRoom(T, s[1])
     /\ op' = "idle" /\ calls' = <<>> /\ popped' = Append(popped, FALSE)

\* A read that does not fit throws.
PopThrows ==
  LET T == Head(calls).what
  IN /\ op = "pop"
     /\ ~Compound(T) /\ ~Fits(outPos, Size(T))
     /\ op' = "idle" /\ calls' = <<>> /\ popped' = Append(popped, FALSE)
     /\ UNCHANGED <<target, mode, bufLen, buf, inPos, outPos, good, pushed, broken, torn, log,
                    got>>

\* A read that passes its check for the sum has wrapped: memmove runs through
\* the address space until a page is missing.
PopWild ==
  LET T == Head(calls).what
  IN /\ op = "pop"
     /\ ~Compound(T) /\ Fits(outPos, Size(T)) /\ Outside(T)
     /\ op' = "wild" /\ calls' = <<>>
     /\ UNCHANGED <<target, mode, bufLen, buf, inPos, outPos, good, pushed, broken, popped, torn,
                    log, got>>

Pushable == IF mode = "text" THEN TextItems ELSE Items

StreamNext ==
  \/ \E x \in Pushable : OperatorIn(x)
  \/ PushOne \/ PushThrows
  \/ OperatorOut \/ PopThrows \/ PopWild
  \/ op = "pop" /\ \E g \in Junk(Head(calls).what) : PopOne(g) \/ ResizeThrows(g)

StreamSpec == StreamInit /\ [][StreamNext]_streamVars

-----------------------------------------------------------------------------
(* Assumptions                                                             *)

PartTypes(T) ==
  /\ T.t \in {"sequence", "set", "objects", "pointer"} => T.of \in Types
  /\ T.t = "assoc" => Pair(T) \in Types
  /\ T.t = "tuple" => T.of \in Seq(Types)

WellFormed(T) ==
  /\ Plain(T) \/ Text(T) \/ Container(T) \/ Compound(T)
  /\ Plain(T) \/ Text(T) => T.n \in Nat \ {0}
  /\ T.t \in {"array", "chars", "objects"} => T.max \in Nat
  /\ PartTypes(T)

\* A value is of its type.
Typed(x) ==
  /\ x.type.t = "pod" => x.val \in Nat
  /\ Text(x.type) \/ x.type.t = "array" => x.val \in Seq(Nat)
  /\ Container(x.type) \/ x.type.t \in {"tuple", "objects"} => Len(x.val) \in Nat
  /\ x.type.t \in {"array", "objects"} => Len(x.val) = x.type.max
  /\ x.type.t = "tuple" => Len(x.val) = Len(x.type.of)

\* C++ values of any types, with their parts, which have room in the address
\* space beside the buffer; the projects that use the streams are built for
\* Win32, where size_type has the size of std::uint32_t.
ASSUME StreamAssumption ==
  /\ LenSize \in Nat \ {0} /\ SizeT = LenSize
  /\ Word \in Nat /\ LenSize < Word /\ Garbage \subseteq 0..(Word - 1)
  /\ Lengths \subseteq Nat /\ MaxItems \in Nat
  /\ Items \subseteq Values /\ TextItems \subseteq Items
  /\ \A L \in Lengths : LenSize + L < Word
  /\ \A T \in Types :
       /\ WellFormed(T)
       /\ Plain(T) => \A L \in Lengths : Reads(T) * T.n + L < Word
  /\ \A x \in Values :
       /\ x.type \in Types /\ Typed(x)
       /\ Container(x.type) \/ Compound(x.type) => Parts(x) \in Seq(Values)
       /\ Text(x.type) \/ Container(x.type) =>
            \A L \in Lengths \cup {0} : Asked(x.type, Len(x.val)) + L < Word

-----------------------------------------------------------------------------
(* Properties                                                              *)

\* What a call of push wrote, as a call of pop should read it.
Pushed(c) == [at |-> c.at, type |-> c.what.type, cells |-> Cells(c.what)]

\* What is popped is what was pushed: every call of pop is for the part of the
\* value and of the type the call of push at its place was for, and reads what
\* that wrote, no operator>> throws or leaves the buffer, and the reader ends
\* where the writer did.  It holds for every mix of the types that have a
\* traits class, until a char[N] is read, which is written with fewer characters
\* than the length it announces, or a value whose push threw half way; values
\* pushed after such a one change nothing of those before it.
RoundTrip ==
  ~torn /\ (\A k \in DOMAIN got : got[k].type.t # "chars") =>
    /\ op # "wild"
    /\ \A i \in DOMAIN popped : popped[i]
    /\ Len(got) <= Len(log)
    /\ \A k \in DOMAIN got : got[k] = Pushed(Head(log[k].calls))
    /\ op = "idle" /\ Len(popped) = Whole /\ broken = 0 =>
         Len(got) = Len(log) /\ outPos = inPos

\* A binary stream stays inside its buffer, also when a value of several
\* writes runs into the end of it, and whatever bytes are popped as whatever
\* type afterwards, with one exception: the read of the characters of a char[N]
\* or a char * whose length, as it was read just before, is so near 2^32 that
\* the sum of the check can wrap.
StaysInside ==
  mode = "binary" =>
    /\ inPos <= bufLen /\ outPos <= bufLen
    /\ op = "wild" =>
         /\ got # <<>>
         /\ LET g == got[Len(got)] IN
             /\ g.type.t \in {"chars", "cstring"}
             /\ NoRoom(g.type, g.cells[1])
==============================================================================
