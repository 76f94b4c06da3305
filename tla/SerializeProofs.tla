---------------------------- MODULE SerializeProofs ----------------------------
(***************************************************************************)
(* Proofs about the streams of serialize/, for any types and values, any   *)
(* buffer, and any mix of pushes and pops: what is popped is what was      *)
(* pushed, and a binary stream stays inside its buffer.                    *)
(*                                                                         *)
(* The log of the calls of push says where each of them wrote and with     *)
(* which stack of calls; the reader is shown to follow it with the same    *)
(* stack, call by call.                                                    *)
(***************************************************************************)
EXTENDS Serialize, SequenceTheorems, TLAPS

-----------------------------------------------------------------------------
(* The invariant                                                           *)

\* What can be on the stack of a push or a pop: the values and types given,
\* and the characters of a string, which are an array of any length.
PushValues == Values \cup {[type |-> Array(n, Len(s)), val |-> s] : n \in Nat \ {0}, s \in Seq(Nat)}
PopTypes == Types \cup {Array(n, k) : n \in Nat \ {0}, k \in Nat}

CallOn(S) == [at : Seq(Nat), what : S]
CallsOn(S) == Seq(CallOn(S))

Bytes == Nat \X Nat \X Nat
LogEntry == [calls : CallsOn(PushValues) \ {<<>>}, pos : Nat, item : Nat]
GotEntry == [at : Seq(Nat), type : PopTypes, cells : Seq(Nat)]

\* The state of a stream.
StreamTypeOK ==
  /\ mode \in {"binary", "text"} /\ bufLen \in Nat /\ bufLen < Word
  /\ target = "memory" => bufLen \in Lengths
  /\ target = "file" \/ target = "memory"
  /\ buf \in Seq(Bytes) /\ inPos = Len(buf) /\ inPos < Word /\ outPos \in Nat
  /\ good \in BOOLEAN /\ torn \in BOOLEAN /\ op \in {"push", "pop", "idle", "wild"}
  /\ op = "push" => calls \in CallsOn(PushValues) /\ calls # <<>> /\ pushed # <<>>
  /\ op = "pop" => calls \in CallsOn(PopTypes) /\ calls # <<>> /\ mode = "binary"
  /\ broken \in Nat /\ broken <= Len(pushed)
  /\ pushed \in Seq(Items) /\ popped \in Seq(BOOLEAN)
  /\ log \in Seq(LogEntry)
  /\ got \in Seq(GotEntry)

\* The call with which operator<< of value i begins.
Root(i) == <<[at |-> <<i>>, what |-> pushed[i]]>>

\* What a call of push was for, and the stack it left.
Made(e) == Head(e.calls).what
After(e) == Nested(Head(e.calls).at, Parts(Made(e))) \o Tail(e.calls)

\* The calls of pop for the calls of push on a stack.
TypesOf(cs) == [i \in 1..Len(cs) |-> [at |-> cs[i].at, what |-> cs[i].what.type]]

\* The bytes of every call are where it wrote them, one call's after another's.
LogBytes ==
  \A k \in 1..Len(log) :
    /\ k < Len(log) => log[k].pos + Len(Written(Made(log[k]))) = log[k + 1].pos
    /\ k = Len(log) /\ broken = 0 => log[k].pos + Len(Written(Made(log[k]))) = inPos
    /\ log[k].pos + Len(Written(Made(log[k]))) <= inPos
    /\ \A j \in 1..Len(Written(Made(log[k]))) : buf[log[k].pos + j] = Written(Made(log[k]))[j]

\* The stack of every call is what the call before left, or the first of the
\* next value.
LogOrder ==
  /\ log # <<>> => log[1].calls = Root(1) /\ log[1].item = 1 /\ log[1].pos = 0
  /\ \A k \in 1..Len(log) : log[k].item \in 1..Len(pushed)
  /\ \A k \in 1..(Len(log) - 1) :
       IF After(log[k]) = <<>>
       THEN log[k + 1].item = log[k].item + 1 /\ log[k + 1].calls = Root(log[k].item + 1)
       ELSE log[k + 1].item = log[k].item /\ log[k + 1].calls = After(log[k])

\* How the stack of the writer follows from its last call.
LogEnd ==
  IF log = <<>>
  THEN Whole = 0 /\ (broken = 0 => inPos = 0 /\ (op = "push" => calls = Root(1)))
  ELSE IF After(log[Len(log)]) = <<>>
  THEN log[Len(log)].item = Whole /\ (op = "push" /\ broken = 0 => calls = Root(Len(pushed)))
  ELSE /\ log[Len(log)].item = Whole + 1 /\ (op = "push" \/ broken # 0)
       /\ op = "push" /\ broken = 0 => calls = After(log[Len(log)])

\* Bytes announced by the length that was read last, which has been resized to.
Announced(T) ==
  /\ got # <<>>
  /\ LET g == got[Len(got)] IN
      /\ Text(g.type) /\ T = Array(g.type.n, g.cells[1])
      /\ ~(Resized(g.type) /\ NoRoom(g.type, g.cells[1]))

\* The reader's calls are for types given, but for the characters on top.
OnTop ==
  op = "pop" =>
    /\ Tail(calls) \in CallsOn(Types)
    /\ Head(calls).what \in Types \/ Announced(Head(calls).what)

NoChars == \A k \in 1..Len(got) : got[k].type.t # "chars"

\* The reader is at the place of the call of push after those it has read, with
\* the same stack.
Follows ==
  /\ Len(got) <= Len(log) /\ Len(popped) <= Whole /\ good /\ op # "wild"
  /\ \A i \in 1..Len(popped) : popped[i]
  /\ \A k \in 1..Len(got) : got[k] = Pushed(Head(log[k].calls))
  /\ IF op = "pop"
     THEN /\ Len(got) < Len(log) /\ Len(popped) < Whole
          /\ log[Len(got) + 1].item = Len(popped) + 1
          /\ log[Len(got) + 1].pos = outPos
          /\ calls = TypesOf(log[Len(got) + 1].calls)
     ELSE /\ got # <<>> => After(log[Len(got)]) = <<>> /\ log[Len(got)].item = Len(popped)
          /\ got = <<>> => Len(popped) = 0
          /\ IF Len(got) < Len(log)
             THEN /\ log[Len(got) + 1].item = Len(popped) + 1
                  /\ log[Len(got) + 1].pos = outPos
                  /\ log[Len(got) + 1].calls = Root(Len(popped) + 1)
             ELSE Len(popped) = Whole /\ (broken = 0 => outPos = inPos)

StreamInv ==
  /\ StreamTypeOK /\ OnTop /\ StaysInside
  /\ LogBytes /\ LogOrder /\ LogEnd
  /\ NoChars /\ ~torn => Follows

-----------------------------------------------------------------------------
(* Bytes                                                                   *)

\* A byte of a packed sequence belongs to the value whose place it is in.
LEMMA CellPlace ==
  ASSUME NEW n \in Nat \ {0}, NEW i \in Nat \ {0}, NEW j \in 1..n
  PROVE  /\ (((i - 1) * n + j) - 1) \div n = i - 1
         /\ (((i - 1) * n + j) - 1) % n = j - 1
<1> DEFINE m == i - 1
           q == (m * n + (j - 1)) \div n
           r == (m * n + (j - 1)) % n
<1>1. m \in Nat /\ m * n \in Nat /\ j - 1 \in Nat
  BY SMT
<1>2. m * n + (j - 1) = n * q + r /\ q \in Int /\ r \in 0..(n - 1)
  BY <1>1, SMT
<1>3. ~(q > m)
  <2>1. SUFFICES ASSUME q >= m + 1
                 PROVE  FALSE
    BY <1>1, <1>2
  <2>2. n * q >= n * (m + 1)
    BY <1>1, <1>2, <2>1, SMT
  <2>3. n * (m + 1) = m * n + n
    BY <1>1, SMT
  <2> QED
    BY <1>1, <1>2, <2>2, <2>3, SMT
<1>4. ~(q < m)
  <2>1. SUFFICES ASSUME q + 1 <= m
                 PROVE  FALSE
    BY <1>1, <1>2
  <2>2. n * (q + 1) <= n * m
    BY <1>1, <1>2, <2>1, SMT
  <2>3. n * (q + 1) = n * q + n /\ n * m = m * n
    BY <1>1, <1>2, SMT
  <2> QED
    BY <1>1, <1>2, <2>2, <2>3, SMT
<1>5. q = m
  BY <1>1, <1>2, <1>3, <1>4
<1>6. r = j - 1
  <2>1. n * q = m * n
    BY <1>1, <1>5, SMT
  <2> HIDE DEF q, r
  <2> QED
    BY <1>1, <1>2, <2>1
<1>7. ((i - 1) * n + j) - 1 = m * n + (j - 1)
  BY <1>1
<1> QED
  BY <1>5, <1>6, <1>7

\* Remainders and quotients of numbers.
LEMMA Modulo ==
  ASSUME NEW a \in Nat, NEW w \in Nat \ {0}
  PROVE  /\ a % w \in Nat /\ a % w < w
         /\ a \div w \in Nat /\ (a \div w) * w <= a
         /\ a < w => a % w = a
<1> DEFINE q == a \div w
           m == a % w
<1>1. a = w * q + m /\ q \in Int /\ m \in 0..(w - 1)
  BY SMT
<1> HIDE DEF q, m
<1>2. q >= 0
  <2>1. SUFFICES ASSUME q <= -1
                 PROVE  FALSE
    BY <1>1
  <2>2. w * q <= w * (-1)
    BY <1>1, <2>1, SMT
  <2>3. w * (-1) = -w
    BY SMT
  <2>4. w * q \in Int
    BY <1>1, SMT
  <2> QED
    BY <1>1, <2>2, <2>3, <2>4, SMT
<1>3. ASSUME a < w
      PROVE  m = a
  <2>1. q < 1
    <3>1. SUFFICES ASSUME q >= 1
                   PROVE  FALSE
      BY <1>1
    <3>2. w * q >= w * 1
      BY <1>1, <3>1, SMT
    <3>3. w * q \in Int /\ w * 1 = w
      BY <1>1, SMT
    <3> QED
      BY <1>1, <1>3, <3>2, <3>3
  <2>2. q = 0
    BY <1>1, <1>2, <2>1
  <2>3. w * q = 0
    BY <2>2
  <2> QED
    BY <1>1, <2>3
<1>4. q * w = w * q /\ w * q \in Int
  BY <1>1, SMT
<1> QED
  BY <1>1, <1>2, <1>3, <1>4 DEF q, m

\* Whole values are as many as were asked for.
LEMMA Quotient ==
  ASSUME NEW k \in Nat, NEW m \in Nat \ {0}
  PROVE  (k * m) \div m = k
<1>1. k + 1 \in Nat \ {0} /\ 1 \in 1..m
  OBVIOUS
<1>2. ((((k + 1) - 1) * m + 1) - 1) \div m = (k + 1) - 1
  BY <1>1, CellPlace
<1>3. (((k + 1) - 1) * m + 1) - 1 = k * m
  <2>1. k * m \in Nat /\ (k + 1) - 1 = k
    BY SMT
  <2> QED
    BY <2>1
<1>4. (k + 1) - 1 = k
  OBVIOUS
<1> QED
  BY <1>2, <1>3, <1>4

\* Packed values are bytes, as many as the values have.
LEMMA PackedType ==
  ASSUME NEW s \in Seq(Nat), NEW n \in Nat \ {0}
  PROVE  Packed(s, n) \in Seq(Bytes) /\ Len(Packed(s, n)) = Len(s) * n
<1>1. Len(s) * n \in Nat
  BY SMT
<1>2. ASSUME NEW p \in 1..(Len(s) * n)
      PROVE  <<s[((p - 1) \div n) + 1], ((p - 1) % n) + 1, n>> \in Bytes
  <2> DEFINE q == (p - 1) \div n
  <2>1. q \in Nat /\ (p - 1) % n \in Nat /\ n * q <= p - 1
    BY <1>1, SMT
  <2>2. q < Len(s)
    <3>1. SUFFICES ASSUME q >= Len(s)
                   PROVE  FALSE
      BY <2>1
    <3> HIDE DEF q
    <3>2. n * q >= n * Len(s)
      BY <2>1, <3>1, SMT
    <3>3. n * Len(s) = Len(s) * n
      BY SMT
    <3> QED
      BY <1>1, <2>1, <3>2, <3>3
  <2>3. s[q + 1] \in Nat
    BY <2>1, <2>2
  <2> QED
    BY <2>1, <2>3 DEF Bytes
<1> QED
  BY <1>1, <1>2 DEF Packed

\* Reading packed values as what they are gives them back.
LEMMA UnpackPacked ==
  ASSUME NEW s \in Seq(Nat), NEW n \in Nat \ {0}, NEW b, NEW g,
         \A p \in 1..(Len(s) * n) : b[p] = Packed(s, n)[p]
  PROVE  Unpacked(b, Len(s), n, g) = s
<1>1. ASSUME NEW i \in 1..Len(s), NEW j \in 1..n
      PROVE  b[(i - 1) * n + j] = <<s[i], j, n>>
  <2> DEFINE p == (i - 1) * n + j
  <2>1. p \in 1..(Len(s) * n)
    <3>1. (i - 1) * n \in Nat /\ Len(s) * n \in Nat
      BY SMT
    <3>2. (i - 1) * n + n = i * n
      BY SMT
    <3>3. i * n <= Len(s) * n
      BY SMT
    <3>4. i * n \in Nat
      BY SMT
    <3> QED
      BY <3>1, <3>2, <3>3, <3>4
  <2>2. (p - 1) \div n = i - 1 /\ (p - 1) % n = j - 1
    <3>1. i \in Nat \ {0}
      OBVIOUS
    <3> QED
      BY <3>1, CellPlace, Zenon
  <2>3. b[p] = <<s[((p - 1) \div n) + 1], ((p - 1) % n) + 1, n>>
    BY <2>1 DEF Packed
  <2> HIDE DEF p
  <2>4. ((p - 1) \div n) + 1 = i /\ ((p - 1) % n) + 1 = j
    BY <2>2
  <2> QED
    BY <2>3, <2>4 DEF p
<1>2. ASSUME NEW i \in 1..Len(s)
      PROVE  Unpacked(b, Len(s), n, g)[i] = s[i]
  <2>1. b[(i - 1) * n + 1] = <<s[i], 1, n>>
    BY <1>1
  <2>2. b[(i - 1) * n + 1][1] = s[i]
    BY <2>1
  <2>3. \A j \in 1..n : b[(i - 1) * n + j] = <<b[(i - 1) * n + 1][1], j, n>>
    BY <1>1, <2>2, Zenon
  <2> QED
    BY <2>2, <2>3, Zenon DEF Unpacked
<1>3. Unpacked(b, Len(s), n, g) = [i \in 1..Len(s) |-> Unpacked(b, Len(s), n, g)[i]]
  BY Zenon DEF Unpacked
<1>4. s = [i \in 1..Len(s) |-> s[i]]
  OBVIOUS
<1> QED
  BY <1>2, <1>3, <1>4, Zenon

-----------------------------------------------------------------------------
(* Types and values                                                        *)

\* What may be on the stack of a pop: its type says what is read and what is
\* popped after it, whatever the length read.
LEMMA PopType ==
  ASSUME NEW T \in PopTypes
  PROVE  /\ WellFormed(T)
         /\ Reads(T) \in Nat /\ ReadSize(T) \in Nat \ {0}
         /\ Reads(T) * ReadSize(T) \in Nat
         /\ ~Plain(T) /\ ~Compound(T) => Reads(T) = 1 /\ ReadSize(T) = LenSize
<1>1. WellFormed(T)
  <2>1. CASE T \in Types
    BY <2>1, StreamAssumption DEF StreamAssumption
  <2>2. CASE \E n \in Nat \ {0}, k \in Nat : T = Array(n, k)
    BY <2>2 DEF WellFormed, PartTypes, Array, Plain, Text, Container, Compound
  <2> QED
    BY <2>1, <2>2 DEF PopTypes
<1>2. Reads(T) \in Nat /\ (~Plain(T) /\ ~Compound(T) => Reads(T) = 1)
  BY <1>1 DEF WellFormed, Reads, Plain, Compound
<1>3. ReadSize(T) \in Nat \ {0}
  BY <1>1, StreamAssumption DEF StreamAssumption, WellFormed, ReadSize, Plain, Text
<1>4. Reads(T) * ReadSize(T) \in Nat
  <2> DEFINE k == Reads(T)
             n == ReadSize(T)
  <2>1. k \in Nat /\ n \in Nat
    BY <1>2, <1>3
  <2> HIDE DEF k, n
  <2>2. k * n \in Nat
    BY <2>1, SMT
  <2> QED
    BY <2>2 DEF k, n
<1>5. ~Plain(T) /\ ~Compound(T) => ReadSize(T) = LenSize
  BY StreamAssumption DEF StreamAssumption, ReadSize
<1> QED
  BY <1>1, <1>2, <1>3, <1>4, <1>5

\* The bytes of a read: a length is read whole, and so is what is no longer than
\* a word.
LEMMA SizeType ==
  ASSUME NEW T \in PopTypes
  PROVE  /\ Size(T) \in Nat /\ Size(T) < Word
         /\ Size(T) \div ReadSize(T) \in Nat
         /\ (Size(T) \div ReadSize(T)) * ReadSize(T) <= Size(T)
         /\ Reads(T) * ReadSize(T) < Word =>
              Size(T) = Reads(T) * ReadSize(T) /\ Size(T) \div ReadSize(T) = Reads(T)
         /\ ~Plain(T) /\ ~Compound(T) => Size(T) = LenSize /\ Size(T) \div ReadSize(T) = 1
         /\ Compound(T) => Size(T) = 0
<1> DEFINE k == Reads(T)
           m == ReadSize(T)
           n == k * m
<1>1. k \in Nat /\ m \in Nat \ {0} /\ n \in Nat
  BY PopType
<1>2. Word \in Nat \ {0} /\ LenSize \in Nat /\ LenSize < Word
  BY StreamAssumption DEF StreamAssumption
<1>3. ~Plain(T) /\ ~Compound(T) => k = 1 /\ m = LenSize
  BY PopType
<1>4. Compound(T) => k = 0
  BY DEF Reads, Compound
<1>5. Size(T) = n % Word
  BY DEF Size
<1> HIDE DEF k, m
<1>6. n \div m = k
  BY <1>1, Quotient
<1> HIDE DEF n
<1>7. n % Word \in Nat /\ n % Word < Word /\ (n < Word => n % Word = n)
  BY <1>1, <1>2, Modulo
<1>8. (n % Word) \div m \in Nat /\ ((n % Word) \div m) * m <= n % Word
  BY <1>1, <1>7, Modulo
<1>9. k = 1 => n = m
  BY <1>1 DEF n
<1>10. k = 0 => n = 0
  BY <1>1 DEF n
<1>11. ~Plain(T) /\ ~Compound(T) => n = LenSize /\ n % Word = n /\ n \div m = 1
  BY <1>2, <1>3, <1>6, <1>7, <1>9
<1>12. Compound(T) => n % Word = 0
  BY <1>2, <1>4, <1>7, <1>10
<1> QED
  BY <1>5, <1>6, <1>7, <1>8, <1>11, <1>12 DEF n, k, m

\* A type that is not plain is popped part by part.
LEMMA PopPartsType ==
  ASSUME NEW T \in PopTypes, NEW s \in Seq(Nat), ~Plain(T) /\ ~Compound(T) => Len(s) = 1
  PROVE  PopParts(T, s) \in Seq(PopTypes)
<1>1. WellFormed(T)
  BY PopType
<1>2. CASE Plain(T)
  <2>1. PopParts(T, s) = <<>>
    BY <1>2 DEF PopParts, Plain, Text
  <2> QED
    BY <2>1
<1>3. CASE Text(T)
  <2>1. s[1] \in Nat
    BY <1>3 DEF Text, Plain, Compound
  <2>2. Array(T.n, s[1]) \in PopTypes
    BY <1>1, <1>3, <2>1 DEF PopTypes, WellFormed
  <2>3. PopParts(T, s) = <<Array(T.n, s[1])>>
    BY <1>3 DEF PopParts, Text, Plain
  <2> QED
    BY <2>2, <2>3
<1>4. CASE Container(T)
  <2>1. s[1] \in Nat
    BY <1>4 DEF Container, Plain, Compound
  <2>2. T.t = "assoc" => Pair(T) \in PopTypes
    BY <1>1 DEF WellFormed, PartTypes, PopTypes
  <2>3. T.t \in {"sequence", "set"} => T.of \in PopTypes
    BY <1>1 DEF WellFormed, PartTypes, PopTypes
  <2>4. PopParts(T, s) = IF T.t = "assoc" THEN [i \in 1..s[1] |-> Pair(T)]
                                          ELSE [i \in 1..s[1] |-> T.of]
    BY <1>4 DEF PopParts, Plain, Text, Container
  <2>5. CASE T.t = "assoc"
    BY <2>1, <2>2, <2>4, <2>5
  <2>6. CASE T.t \in {"sequence", "set"}
    <3>1. PopParts(T, s) = [i \in 1..s[1] |-> T.of] /\ T.of \in PopTypes
      BY <2>3, <2>4, <2>6
    <3> QED
      BY <2>1, <3>1
  <2> QED
    BY <1>4, <2>5, <2>6 DEF Container
<1>5. CASE Compound(T)
  <2>1. CASE T.t = "tuple"
    <3>1. T.of \in Seq(PopTypes)
      BY <1>1, <2>1 DEF WellFormed, PartTypes, PopTypes
    <3> QED
      BY <2>1, <3>1 DEF PopParts, Plain, Text
  <2>2. CASE T.t = "objects"
    <3>1. T.of \in PopTypes /\ T.max \in Nat
      BY <1>1, <2>2 DEF WellFormed, PartTypes, PopTypes
    <3> QED
      BY <2>2, <3>1 DEF PopParts, Plain, Text
  <2>3. CASE T.t = "pointer"
    <3>1. T.of \in PopTypes
      BY <1>1, <2>3 DEF WellFormed, PartTypes, PopTypes
    <3> QED
      BY <2>3, <3>1 DEF PopParts, Plain, Text
  <2> QED
    BY <1>5, <2>1, <2>2, <2>3 DEF Compound
<1> QED
  BY <1>1, <1>2, <1>3, <1>4, <1>5 DEF WellFormed

\* But for the characters of a text, the parts are of types that are given.
LEMMA GivenParts ==
  ASSUME NEW T \in PopTypes, NEW s \in Seq(Nat), ~Plain(T) /\ ~Compound(T) => Len(s) = 1,
         ~Text(T)
  PROVE  PopParts(T, s) \in Seq(Types)
<1>1. WellFormed(T)
  BY PopType
<1>2. CASE Plain(T)
  <2>1. PopParts(T, s) = <<>>
    BY <1>2 DEF PopParts, Plain, Text
  <2> QED
    BY <2>1
<1>3. CASE Container(T)
  <2>1. s[1] \in Nat
    BY <1>3 DEF Container, Plain, Compound
  <2>2. CASE T.t = "assoc"
    <3>1. Pair(T) \in Types /\ PopParts(T, s) = [i \in 1..s[1] |-> Pair(T)]
      BY <1>1, <2>2 DEF WellFormed, PartTypes, PopParts, Plain, Text
    <3> HIDE DEF Pair
    <3> QED
      BY <2>1, <3>1
  <2>3. CASE T.t \in {"sequence", "set"}
    <3>1. T.of \in Types /\ PopParts(T, s) = [i \in 1..s[1] |-> T.of]
      BY <1>1, <2>3 DEF WellFormed, PartTypes, PopParts, Plain, Text
    <3> QED
      BY <2>1, <3>1
  <2> QED
    BY <1>3, <2>2, <2>3 DEF Container
<1>4. CASE Compound(T)
  <2>1. CASE T.t = "tuple"
    BY <1>1, <2>1 DEF WellFormed, PartTypes, PopParts, Plain, Text
  <2>2. CASE T.t = "objects"
    <3>1. T.of \in Types /\ T.max \in Nat /\ PopParts(T, s) = [i \in 1..T.max |-> T.of]
      BY <1>1, <2>2 DEF WellFormed, PartTypes, PopParts, Plain, Text
    <3> QED
      BY <3>1
  <2>3. CASE T.t = "pointer"
    <3>1. T.of \in Types /\ PopParts(T, s) = <<T.of>>
      BY <1>1, <2>3 DEF WellFormed, PartTypes, PopParts, Plain, Text
    <3> QED
      BY <3>1
  <2> QED
    BY <1>4, <2>1, <2>2, <2>3 DEF Compound
<1> QED
  BY <1>1, <1>2, <1>3, <1>4 DEF WellFormed

\* What may be on the stack of a push is of its type, and so are its parts.
LEMMA PushValue ==
  ASSUME NEW x \in PushValues
  PROVE  /\ x.type \in PopTypes /\ Typed(x)
         /\ Parts(x) \in Seq(PushValues)
<1>1. x.type \in PopTypes /\ Typed(x)
  <2>1. CASE x \in Values
    BY <2>1, StreamAssumption DEF StreamAssumption, PopTypes
  <2>2. CASE \E n \in Nat \ {0}, s \in Seq(Nat) : x = [type |-> Array(n, Len(s)), val |-> s]
    BY <2>2 DEF PopTypes, Typed, Array, Text, Container
  <2> QED
    BY <2>1, <2>2 DEF PushValues
<1>2. WellFormed(x.type)
  BY <1>1, PopType
<1>3. CASE Plain(x.type)
  <2>1. Parts(x) = <<>>
    BY <1>3 DEF Parts, Plain, Text
  <2> QED
    BY <1>1, <2>1
<1>4. CASE Text(x.type)
  <2>1. x.val \in Seq(Nat) /\ x.type.n \in Nat \ {0}
    BY <1>1, <1>2, <1>4 DEF Typed, WellFormed
  <2> DEFINE y == [type |-> Array(x.type.n, Len(x.val)), val |-> x.val]
  <2>2. y \in PushValues
    <3>1. \E n \in Nat \ {0}, s \in Seq(Nat) : y = [type |-> Array(n, Len(s)), val |-> s]
      BY <2>1, Zenon
    <3> HIDE DEF y
    <3> QED
      BY <3>1 DEF PushValues
  <2>3. Parts(x) = <<y>>
    BY <1>4 DEF Parts, PushText, Text, Plain
  <2> HIDE DEF y
  <2> QED
    BY <1>1, <2>2, <2>3
<1>5. CASE Container(x.type) \/ Compound(x.type)
  <2>1. x \in Values
    BY <1>5 DEF PushValues, Array, Container, Compound
  <2>2. Parts(x) \in Seq(Values)
    BY <1>5, <2>1, StreamAssumption DEF StreamAssumption
  <2>3. Values \subseteq PushValues
    BY DEF PushValues
  <2>4. Parts(x) \in Seq(PushValues)
    <3> DEFINE ps == Parts(x)
    <3>1. ps \in Seq(Values)
      BY <2>2
    <3> HIDE DEF ps
    <3>2. ps \in Seq(PushValues)
      BY <2>3, <3>1
    <3> QED
      BY <3>2 DEF ps
  <2> QED
    BY <1>1, <2>4
<1> QED
  BY <1>2, <1>3, <1>4, <1>5 DEF WellFormed

\* What a call of push writes; a binary stream checks for as much as it writes.
LEMMA WrittenType ==
  ASSUME NEW x \in PushValues, mode \in {"binary", "text"}
  PROVE  /\ Cells(x) \in Seq(Nat) /\ CellSize(x.type) \in Nat \ {0}
         /\ Written(x) \in Seq(Bytes)
         /\ mode = "binary" =>
              /\ Written(x) = Packed(Cells(x), CellSize(x.type))
              /\ Len(Written(x)) = Needed(x)
              /\ ~Pushes(x.type) => Len(Written(x)) = 0
<1>1. x.type \in PopTypes /\ Typed(x) /\ WellFormed(x.type)
  BY PushValue, PopType
<1>2. Cells(x) \in Seq(Nat)
  <2>1. CASE ~Pushes(x.type)
    <3>1. Cells(x) = <<>>
      BY <2>1 DEF Cells, Pushes, Plain
    <3> QED
      BY <3>1
  <2>2. CASE x.type.t = "pod"
    <3>1. Cells(x) = <<x.val>> /\ x.val \in Nat
      BY <1>1, <2>2 DEF Cells, Pushes, Plain, Typed
    <3> QED
      BY <3>1
  <2>3. CASE x.type.t = "array"
    BY <1>1, <2>3 DEF Cells, Pushes, Plain, Typed
  <2>4. CASE Pushes(x.type) /\ ~Plain(x.type)
    <3>1. Text(x.type) \/ Container(x.type)
      BY <1>1, <2>4 DEF WellFormed, Pushes
    <3>2. PushLength(x) \in Nat
      BY <1>1, <3>1 DEF PushLength, Typed, WellFormed
    <3>3. Cells(x) = <<PushLength(x)>>
      BY <2>4 DEF Cells, Plain
    <3> QED
      BY <3>2, <3>3
  <2> QED
    BY <2>1, <2>2, <2>3, <2>4 DEF Plain
<1>3. CellSize(x.type) \in Nat \ {0}
  BY <1>1, StreamAssumption DEF StreamAssumption, CellSize, WellFormed
<1>4. Written(x) \in Seq(Bytes)
  <2>1. CASE mode = "text" /\ x.type.t = "pod"
    <3>1. x.val \in Nat
      BY <1>1, <2>1 DEF Typed
    <3>2. <<x.val>> \in Seq(Nat) /\ x.val + 1 \in Nat \ {0}
      BY <3>1
    <3>3. Packed(<<x.val>>, x.val + 1) \in Seq(Bytes)
      BY <3>2, PackedType
    <3> QED
      BY <2>1, <3>3 DEF Written, Digits
  <2>2. CASE ~(mode = "text" /\ x.type.t = "pod")
    <3>1. Packed(Cells(x), CellSize(x.type)) \in Seq(Bytes)
      BY <1>2, <1>3, PackedType
    <3> QED
      BY <2>2, <3>1 DEF Written
  <2> QED
    BY <2>1, <2>2
<1>5. ASSUME mode = "binary"
      PROVE  /\ Written(x) = Packed(Cells(x), CellSize(x.type))
             /\ Len(Written(x)) = Needed(x)
             /\ ~Pushes(x.type) => Len(Written(x)) = 0
  <2>1. Written(x) = Packed(Cells(x), CellSize(x.type))
    BY <1>5 DEF Written
  <2>2. Len(Written(x)) = Len(Cells(x)) * CellSize(x.type)
    BY <1>2, <1>3, <2>1, PackedType
  <2>3. ASSUME ~Pushes(x.type)
        PROVE  Len(Written(x)) = 0
    <3>1. Len(Cells(x)) = 0
      BY <2>3 DEF Cells, Pushes, Plain
    <3> QED
      BY <1>3, <2>2, <3>1
  <2> QED
    BY <2>1, <2>2, <2>3 DEF Needed
<1> QED
  BY <1>2, <1>3, <1>4, <1>5

\* A call of pop reads as much as the call of push for its part wrote.
LEMMA PopSizes ==
  ASSUME NEW x \in PushValues, mode = "binary"
  PROVE  Reads(x.type) = Len(Cells(x)) /\ ReadSize(x.type) = CellSize(x.type)
<1> DEFINE T == x.type
<1>1. Typed(x)
  BY PushValue
<1>2. ReadSize(T) = CellSize(T)
  <2>1. SizeT = LenSize
    BY StreamAssumption DEF StreamAssumption
  <2> QED
    BY <2>1 DEF ReadSize, CellSize, Plain, Text
<1>3. CASE T.t = "pod"
  BY <1>2, <1>3 DEF Reads, Cells, Pushes, Plain, Compound
<1>4. CASE T.t = "array"
  BY <1>1, <1>2, <1>4 DEF Reads, Cells, Pushes, Plain, Compound, Typed
<1>5. CASE Compound(T)
  BY <1>2, <1>5 DEF Reads, Cells, Pushes, Plain, Compound
<1>6. CASE ~Plain(T) /\ ~Compound(T)
  <2>1. Cells(x) = <<PushLength(x)>> /\ Reads(T) = 1
    BY <1>6 DEF Reads, Cells, Pushes, Plain
  <2> QED
    BY <1>2, <2>1
<1> QED
  BY <1>3, <1>4, <1>5, <1>6 DEF Plain

\* Given what the call of push for its part wrote, a call of pop leaves calls
\* for the parts that that left.
LEMMA PopMatches ==
  ASSUME NEW x \in PushValues, mode = "binary", x.type.t # "chars"
  PROVE  PopParts(x.type, Cells(x)) = [i \in 1..Len(Parts(x)) |-> Parts(x)[i].type]
<1> DEFINE T == x.type
<1>1. T \in PopTypes /\ Typed(x) /\ WellFormed(T) /\ Parts(x) \in Seq(PushValues)
  BY PushValue, PopType
<1>3. CASE Plain(T)
  <2>1. PopParts(T, Cells(x)) = <<>> /\ Parts(x) = <<>>
    BY <1>3 DEF PopParts, Parts, Plain, Text
  <2> QED
    BY <2>1
<1>4. ASSUME ~Plain(T), ~Compound(T)
      PROVE  Cells(x) = <<Len(x.val)>>
  BY <1>4 DEF Cells, Pushes, PushLength, Plain
<1>5. CASE Text(T)
  <2>1. ~Plain(T) /\ ~Compound(T)
    BY <1>5 DEF Plain, Text, Compound
  <2>2. Cells(x) = <<Len(x.val)>>
    BY <1>4, <2>1
  <2>3. PopParts(T, Cells(x)) = <<Array(T.n, Len(x.val))>>
    BY <1>5, <2>2 DEF PopParts, Plain, Text
  <2>4. Parts(x) = <<[type |-> Array(T.n, Len(x.val)), val |-> x.val]>>
    BY <1>5 DEF Parts, PushText, Plain, Text
  <2> QED
    BY <2>3, <2>4
<1>6. CASE Container(T)
  <2>1. ~Plain(T) /\ ~Compound(T) /\ ~Text(T)
    BY <1>6 DEF Plain, Text, Container, Compound
  <2>2. Cells(x) = <<Len(x.val)>> /\ Len(x.val) \in Nat
    BY <1>1, <1>4, <1>6, <2>1 DEF Typed
  <2>3. CASE T.t = "assoc"
    <3>1. PopParts(T, Cells(x)) = [i \in 1..Len(x.val) |-> Pair(T)]
      BY <2>2, <2>3 DEF PopParts, Plain, Text
    <3>2. Parts(x) = [i \in 1..Len(x.val) |-> [type |-> Pair(T), val |-> x.val[i]]]
      BY <2>3 DEF Parts, PushAssoc, Plain, Text
    <3>3. Len(Parts(x)) = Len(x.val)
      BY <2>2, <3>2
    <3>4. \A i \in 1..Len(x.val) : Parts(x)[i].type = Pair(T)
      BY <3>2
    <3>5. PopParts(T, Cells(x)) = [i \in 1..Len(Parts(x)) |-> Parts(x)[i].type]
      BY <2>2, <3>1, <3>3, <3>4
    <3> QED
      BY <3>5
  <2>4. CASE T.t \in {"sequence", "set"}
    <3>1. PopParts(T, Cells(x)) = [i \in 1..Len(x.val) |-> T.of]
      BY <2>2, <2>4 DEF PopParts, Plain, Text
    <3>2. Parts(x) = [i \in 1..Len(x.val) |-> [type |-> T.of, val |-> x.val[i]]]
      BY <2>4 DEF Parts, PushEach, PushSet, Plain, Text
    <3>3. Len(Parts(x)) = Len(x.val)
      BY <2>2, <3>2
    <3>4. \A i \in 1..Len(x.val) : Parts(x)[i].type = T.of
      BY <3>2
    <3>5. PopParts(T, Cells(x)) = [i \in 1..Len(Parts(x)) |-> Parts(x)[i].type]
      BY <2>2, <3>1, <3>3, <3>4
    <3> QED
      BY <3>5
  <2> QED
    BY <1>6, <2>3, <2>4 DEF Container
<1>7. CASE Compound(T)
  <2>2. CASE T.t = "tuple"
    <3>1. T.of \in Seq(Types) /\ Len(x.val) = Len(T.of)
      BY <1>1, <2>2 DEF WellFormed, PartTypes, Typed
    <3>2. PopParts(T, Cells(x)) = T.of
      BY <2>2 DEF PopParts, Plain, Text
    <3>3. Parts(x) = [i \in 1..Len(x.val) |-> [type |-> T.of[i], val |-> x.val[i]]]
      BY <2>2 DEF Parts, PushTuple, Plain, Text
    <3>4. Len(Parts(x)) = Len(x.val)
      BY <3>1, <3>3
    <3>5. \A i \in 1..Len(x.val) : Parts(x)[i].type = T.of[i]
      BY <3>3
    <3>6. PopParts(T, Cells(x)) = [i \in 1..Len(Parts(x)) |-> Parts(x)[i].type]
      BY <3>1, <3>2, <3>4, <3>5
    <3> QED
      BY <3>6
  <2>3. CASE T.t = "objects"
    <3>1. T.max \in Nat /\ Len(x.val) = T.max
      BY <1>1, <2>3 DEF WellFormed, Typed
    <3>2. PopParts(T, Cells(x)) = [i \in 1..T.max |-> T.of]
      BY <2>3 DEF PopParts, Plain, Text
    <3>3. Parts(x) = [i \in 1..Len(x.val) |-> [type |-> T.of, val |-> x.val[i]]]
      BY <2>3 DEF Parts, PushEach, Plain, Text
    <3>4. Len(Parts(x)) = Len(x.val)
      BY <3>1, <3>3
    <3>5. \A i \in 1..Len(x.val) : Parts(x)[i].type = T.of
      BY <3>3
    <3>6. PopParts(T, Cells(x)) = [i \in 1..Len(Parts(x)) |-> Parts(x)[i].type]
      BY <3>1, <3>2, <3>4, <3>5
    <3> QED
      BY <3>6
  <2>4. CASE T.t = "pointer"
    <3>1. PopParts(T, Cells(x)) = <<T.of>>
      BY <2>4 DEF PopParts, Plain, Text
    <3>2. Parts(x) = <<[type |-> T.of, val |-> x.val]>>
      BY <2>4 DEF Parts, PushPointee, Plain, Text
    <3> QED
      BY <3>1, <3>2
  <2> QED
    BY <1>7, <2>2, <2>3, <2>4 DEF Compound
<1> QED
  BY <1>1, <1>3, <1>5, <1>6, <1>7 DEF WellFormed

-----------------------------------------------------------------------------
(* The stacks of calls                                                     *)

\* One queue behind another.
LEMMA Concatenated ==
  ASSUME NEW S, NEW s \in Seq(S), NEW t \in Seq(S)
  PROVE  /\ s \o t \in Seq(S) /\ Len(s \o t) = Len(s) + Len(t)
         /\ \A i \in 1..Len(s) : (s \o t)[i] = s[i]
         /\ \A i \in 1..Len(t) : (s \o t)[Len(s) + i] = t[i]
OBVIOUS

\* Calls for parts are calls.
LEMMA NestedType ==
  ASSUME NEW S, NEW at \in Seq(Nat), NEW ps \in Seq(S)
  PROVE  /\ Nested(at, ps) \in CallsOn(S) /\ Len(Nested(at, ps)) = Len(ps)
         /\ \A i \in 1..Len(ps) : Nested(at, ps)[i] = [at |-> Append(at, i), what |-> ps[i]]
<1>1. \A i \in 1..Len(ps) : Append(at, i) \in Seq(Nat) /\ ps[i] \in S
  OBVIOUS
<1>2. \A i \in 1..Len(ps) : [at |-> Append(at, i), what |-> ps[i]] \in CallOn(S)
  BY <1>1 DEF CallOn
<1> QED
  BY <1>2 DEF Nested, CallsOn

\* The call on top of a stack.
LEMMA TopCall ==
  ASSUME NEW S, NEW c \in CallsOn(S), c # <<>>
  PROVE  /\ Len(c) \in Nat \ {0} /\ Head(c) = c[1] /\ Tail(c) \in CallsOn(S)
         /\ Head(c).at \in Seq(Nat) /\ Head(c).what \in S
         /\ Len(Tail(c)) = Len(c) - 1
         /\ \A i \in 1..(Len(c) - 1) : Tail(c)[i] = c[i + 1]
<1>1. c \in Seq(CallOn(S))
  BY DEF CallsOn
<1>2. Len(c) \in Nat \ {0}
  BY <1>1
<1>3. /\ Head(c) = c[1] /\ c[1] \in CallOn(S) /\ Tail(c) \in Seq(CallOn(S))
      /\ Len(Tail(c)) = Len(c) - 1
      /\ \A i \in 1..(Len(c) - 1) : Tail(c)[i] = c[i + 1]
  BY <1>1, <1>2, HeadTailProperties
<1>4. Head(c).at \in Seq(Nat) /\ Head(c).what \in S
  BY <1>3 DEF CallOn
<1> QED
  BY <1>2, <1>3, <1>4 DEF CallsOn

\* The stack a call leaves.
LEMMA RestType ==
  ASSUME NEW S, NEW c \in CallsOn(S), c # <<>>, NEW ps \in Seq(S)
  PROVE  Nested(Head(c).at, ps) \o Tail(c) \in CallsOn(S)
<1>1. Nested(Head(c).at, ps) \in Seq(CallOn(S)) /\ Tail(c) \in Seq(CallOn(S))
  BY TopCall, NestedType DEF CallsOn
<1> QED
  BY <1>1, Concatenated DEF CallsOn

\* The calls of pop for a stack of calls of push.
LEMMA TypesTop ==
  ASSUME NEW c \in CallsOn(PushValues), c # <<>>
  PROVE  /\ TypesOf(c) \in CallsOn(PopTypes) /\ Len(TypesOf(c)) = Len(c) /\ TypesOf(c) # <<>>
         /\ \A i \in 1..Len(c) : TypesOf(c)[i] = [at |-> c[i].at, what |-> c[i].what.type]
         /\ Head(TypesOf(c)) = [at |-> Head(c).at, what |-> Head(c).what.type]
<1> DEFINE x == Head(c).what
           at == Head(c).at
           U == TypesOf(c)
<1>1. at \in Seq(Nat) /\ x \in PushValues /\ Head(c) = c[1] /\ Len(c) \in Nat \ {0}
  BY TopCall
<1>2. TypesOf(c) = [i \in 1..Len(c) |-> [at |-> c[i].at, what |-> c[i].what.type]]
  BY DEF TypesOf
<1>3. /\ U \in CallsOn(PopTypes) /\ Len(U) = Len(c)
       /\ \A i \in 1..Len(c) : U[i] = [at |-> c[i].at, what |-> c[i].what.type]
  <2>1. \A i \in 1..Len(c) : c[i].at \in Seq(Nat) /\ c[i].what \in PushValues
    <3>1. \A i \in 1..Len(c) : c[i] \in CallOn(PushValues)
      BY DEF CallsOn
    <3> QED
      BY <3>1 DEF CallOn
  <2>2. \A i \in 1..Len(c) : c[i].what.type \in PopTypes
    BY <2>1, PushValue
  <2>3. \A i \in 1..Len(c) : [at |-> c[i].at, what |-> c[i].what.type] \in CallOn(PopTypes)
    BY <2>1, <2>2 DEF CallOn
  <2> QED
    BY <1>1, <1>2, <2>3 DEF CallsOn
<1>4. U # <<>> /\ Head(U) = [at |-> at, what |-> x.type]
  <2>1. Len(U) = Len(c) /\ U \in Seq(CallOn(PopTypes)) /\ U[1] = [at |-> c[1].at, what |-> c[1].what.type]
    BY <1>1, <1>3 DEF CallsOn
  <2>2. U # <<>> /\ Head(U) = U[1]
    BY <1>1, <2>1, HeadTailProperties
  <2> QED
    BY <1>1, <2>1, <2>2
<1> QED
  BY <1>3, <1>4

\* The calls of pop for a stack of calls of push, after one of each.
LEMMA TypesFollow ==
  ASSUME NEW c \in CallsOn(PushValues), c # <<>>, mode = "binary",
         Head(c).what.type.t # "chars"
  PROVE  LET x == Head(c).what
             rest == Nested(Head(c).at, Parts(x)) \o Tail(c)
             popRest == Nested(Head(c).at, PopParts(x.type, Cells(x))) \o Tail(TypesOf(c))
         IN /\ popRest = TypesOf(rest)
            /\ popRest = <<>> <=> rest = <<>>
<1> DEFINE x == Head(c).what
           at == Head(c).at
           ps == Parts(x)
           ts == PopParts(x.type, Cells(x))
           N == Nested(at, ps)
           M == Nested(at, ts)
<1>1. at \in Seq(Nat) /\ x \in PushValues /\ Head(c) = c[1] /\ Len(c) \in Nat \ {0}
  BY TopCall
<1>2. ps \in Seq(PushValues)
  BY <1>1, PushValue
<1>3. ts = [i \in 1..Len(ps) |-> ps[i].type]
  BY <1>1, PopMatches
<1>4. ts \in Seq(PopTypes)
  <2>1. \A i \in 1..Len(ps) : ps[i].type \in PopTypes
    BY <1>2, PushValue
  <2> HIDE DEF ps, ts
  <2> QED
    BY <1>2, <1>3, <2>1
<1>5. /\ N \in CallsOn(PushValues) /\ Len(N) = Len(ps)
      /\ \A i \in 1..Len(ps) : N[i] = [at |-> Append(at, i), what |-> ps[i]]
  BY <1>1, <1>2, NestedType
<1>6. Len(ts) = Len(ps)
  BY <1>2, <1>3
<1>7. /\ M \in CallsOn(PopTypes) /\ Len(M) = Len(ps)
      /\ \A i \in 1..Len(ps) : M[i] = [at |-> Append(at, i), what |-> ts[i]]
  BY <1>1, <1>4, <1>6, NestedType
<1>8. \A i \in 1..Len(ps) : M[i] = [at |-> N[i].at, what |-> N[i].what.type]
  <2>1. TAKE i \in 1..Len(ps)
  <2>2. N[i] = [at |-> Append(at, i), what |-> ps[i]] /\ M[i] = [at |-> Append(at, i), what |-> ts[i]]
    BY <1>5, <1>7
  <2>3. ts[i] = ps[i].type
    BY <1>3
  <2> HIDE DEF N, M, ps, ts, at
  <2> QED
    BY <2>2, <2>3
<1> DEFINE U == TypesOf(c)
<1>10. /\ U \in CallsOn(PopTypes) /\ Len(U) = Len(c) /\ U # <<>>
       /\ \A i \in 1..Len(c) : U[i] = [at |-> c[i].at, what |-> c[i].what.type]
  BY TypesTop
<1> HIDE DEF N, M, U, ps, ts, x, at
<1> DEFINE rest == N \o Tail(c)
           popRest == M \o Tail(U)
<1>12. /\ rest \in CallsOn(PushValues) /\ Len(rest) = Len(ps) + (Len(c) - 1)
       /\ \A i \in 1..Len(ps) : rest[i] = N[i]
       /\ \A i \in 1..(Len(c) - 1) : rest[Len(ps) + i] = c[i + 1]
  <2>1. /\ Tail(c) \in Seq(CallOn(PushValues)) /\ Len(Tail(c)) = Len(c) - 1
        /\ \A i \in 1..(Len(c) - 1) : Tail(c)[i] = c[i + 1]
    BY TopCall DEF CallsOn
  <2>2. N \in Seq(CallOn(PushValues)) /\ Len(N) = Len(ps)
    BY <1>5 DEF CallsOn
  <2> DEFINE R == CallOn(PushValues)
             t == Tail(c)
  <2>3. N \in Seq(R) /\ t \in Seq(R)
    BY <2>1, <2>2
  <2> HIDE DEF R, t
  <2>4. /\ N \o t \in Seq(R) /\ Len(N \o t) = Len(N) + Len(t)
        /\ \A i \in 1..Len(N) : (N \o t)[i] = N[i]
        /\ \A i \in 1..Len(t) : (N \o t)[Len(N) + i] = t[i]
    BY <2>3, Concatenated
  <2>5. Len(t) = Len(c) - 1 /\ Len(N) = Len(ps) /\ \A i \in 1..(Len(c) - 1) : t[i] = c[i + 1]
    BY <2>1, <2>2 DEF t
  <2> QED
    BY <2>4, <2>5, Zenon DEF CallsOn, R, t
<1>13. /\ popRest \in CallsOn(PopTypes) /\ Len(popRest) = Len(ps) + (Len(c) - 1)
       /\ \A i \in 1..Len(ps) : popRest[i] = M[i]
       /\ \A i \in 1..(Len(c) - 1) : popRest[Len(ps) + i] = U[i + 1]
  <2>1. /\ Tail(U) \in Seq(CallOn(PopTypes)) /\ Len(Tail(U)) = Len(c) - 1
        /\ \A i \in 1..(Len(c) - 1) : Tail(U)[i] = U[i + 1]
    BY <1>10, TopCall DEF CallsOn
  <2>2. M \in Seq(CallOn(PopTypes)) /\ Len(M) = Len(ps)
    BY <1>7 DEF CallsOn
  <2> DEFINE R == CallOn(PopTypes)
             t == Tail(U)
  <2>3. M \in Seq(R) /\ t \in Seq(R)
    BY <2>1, <2>2
  <2> HIDE DEF R, t
  <2>4. /\ M \o t \in Seq(R) /\ Len(M \o t) = Len(M) + Len(t)
        /\ \A i \in 1..Len(M) : (M \o t)[i] = M[i]
        /\ \A i \in 1..Len(t) : (M \o t)[Len(M) + i] = t[i]
    BY <2>3, Concatenated
  <2>5. Len(t) = Len(c) - 1 /\ Len(M) = Len(ps) /\ \A i \in 1..(Len(c) - 1) : t[i] = U[i + 1]
    BY <2>1, <2>2 DEF t
  <2> QED
    BY <2>4, <2>5, Zenon DEF CallsOn, R, t
<1> HIDE DEF rest, popRest
<1>14. Len(popRest) = Len(rest)
  BY <1>12, <1>13
<1>15. ASSUME NEW i \in 1..Len(rest)
       PROVE  popRest[i] = [at |-> rest[i].at, what |-> rest[i].what.type]
  <2>1. CASE i <= Len(ps)
    <3>1. i \in 1..Len(ps) /\ rest[i] = N[i] /\ popRest[i] = M[i]
      BY <1>2, <1>12, <1>13, <1>14, <2>1
    <3> QED
      BY <1>8, <3>1
  <2>2. CASE i > Len(ps)
    <3> DEFINE j == i - Len(ps)
    <3>1. j \in 1..(Len(c) - 1) /\ i = Len(ps) + j
      BY <1>1, <1>2, <1>12, <2>2
    <3> HIDE DEF j
    <3>2. rest[i] = c[j + 1] /\ popRest[i] = U[j + 1]
      BY <1>12, <1>13, <3>1, Zenon
    <3>3. j + 1 \in 1..Len(c)
      BY <1>1, <3>1
    <3> QED
      BY <1>10, <3>2, <3>3
  <2> QED
    BY <1>2, <2>1, <2>2
<1>16. popRest = TypesOf(rest)
  <2>1. popRest = [i \in 1..Len(popRest) |-> popRest[i]]
    BY <1>13 DEF CallsOn
  <2> QED
    BY <1>14, <1>15, <2>1, Zenon DEF TypesOf
<1>17. popRest = <<>> <=> rest = <<>>
  BY <1>12, <1>13, <1>14 DEF CallsOn
<1> QED
  BY <1>16, <1>17 DEF rest, popRest, N, M, U, ps, ts, x, at

-----------------------------------------------------------------------------
(* The state of a stream                                                   *)

\* What a call writes depends on the value and the kind of stream.
LEMMA WrittenKept ==
  ASSUME mode' = mode, NEW x
  PROVE  Written(x)' = Written(x) /\ Cells(x)' = Cells(x)
BY DEF Written, Cells, Pushes

\* What a call of pop reads.
LEMMA ReadType ==
  ASSUME NEW T \in PopTypes, NEW g \in Junk(T), buf \in Seq(Bytes), outPos \in Nat
  PROVE  /\ Read(T, g) \in Seq(Nat)
         /\ ~Plain(T) /\ ~Compound(T) => Len(Read(T, g)) = 1
<1> DEFINE n == Size(T)
           m == ReadSize(T)
           k == n \div m
           b == Stored(outPos, n)
<1>1. k \in Nat /\ m \in Nat \ {0} /\ n \in Nat /\ k * m <= n
  BY PopType, SizeType
<1>2. \A p \in 1..n : b[p] \in Bytes
  BY <1>1 DEF Stored, Bytes
<1>3. g \in Nat
  BY StreamAssumption DEF StreamAssumption, Junk
<1>4. Read(T, g) = Unpacked(b, k, m, g)
  BY DEF Read
<1>5. ~Plain(T) /\ ~Compound(T) => k = 1
  BY SizeType
<1> HIDE DEF k, m, b, n
<1>6. ASSUME NEW i \in 1..k
      PROVE  b[(i - 1) * m + 1][1] \in Nat
  <2>1. (i - 1) * m + 1 \in 1..n
    <3>1. (i - 1) * m \in Nat
      BY <1>1, SMT
    <3>2. (i - 1) * m + m = i * m
      BY <1>1, SMT
    <3>3. i * m <= k * m
      BY <1>1, SMT
    <3>4. i * m \in Nat /\ k * m \in Nat
      BY <1>1, SMT
    <3> QED
      BY <1>1, <3>1, <3>2, <3>3, <3>4
  <2> QED
    BY <1>2, <2>1 DEF Bytes
<1>7. Unpacked(b, k, m, g) \in Seq(Nat) /\ Len(Unpacked(b, k, m, g)) = k
  <2>1. Unpacked(b, k, m, g) \in [1..k -> Nat]
    BY <1>1, <1>3, <1>6 DEF Unpacked
  <2> QED
    BY <1>1, <2>1
<1> QED
  BY <1>4, <1>5, <1>7

\* The number of values pushed is a number.
LEMMA WholeType ==
  ASSUME StreamTypeOK
  PROVE  Whole \in Nat /\ Whole <= Len(pushed) /\ Len(pushed) \in Nat
<1>1. pushed \in Seq(Items) /\ broken \in Nat /\ broken <= Len(pushed)
  BY DEF StreamTypeOK
<1>2. op = "push" => Len(pushed) > 0
  BY <1>1 DEF StreamTypeOK
<1> QED
  BY <1>1, <1>2 DEF Whole

\* Facts on the call on top of the writer's stack.
LEMMA PushTop ==
  ASSUME StreamTypeOK, op = "push"
  PROVE  /\ calls \in CallsOn(PushValues) /\ calls # <<>>
         /\ Head(calls).what \in PushValues
         /\ Nested(Head(calls).at, Parts(Head(calls).what)) \o Tail(calls) \in CallsOn(PushValues)
         /\ Written(Head(calls).what) \in Seq(Bytes)
         /\ [calls |-> calls, pos |-> inPos, item |-> Len(pushed)] \in LogEntry
<1>1. calls \in CallsOn(PushValues) /\ calls # <<>> /\ Head(calls).what \in PushValues
  BY TopCall DEF StreamTypeOK
<1>2. Parts(Head(calls).what) \in Seq(PushValues)
  BY <1>1, PushValue
<1>3. Nested(Head(calls).at, Parts(Head(calls).what)) \o Tail(calls) \in CallsOn(PushValues)
  BY <1>1, <1>2, RestType
<1>4. Written(Head(calls).what) \in Seq(Bytes)
  BY <1>1, WrittenType DEF StreamTypeOK
<1>5. inPos \in Nat /\ Len(pushed) \in Nat
  BY DEF StreamTypeOK
<1> QED
  BY <1>1, <1>3, <1>4, <1>5 DEF LogEntry

\* What a call of pop that reads leaves.
LEMMA PopsType ==
  ASSUME StreamTypeOK, op = "pop", NEW g \in Junk(Head(calls).what),
         Pops(Head(calls).what, Read(Head(calls).what, g))
  PROVE  LET T == Head(calls).what
             s == Read(T, g)
         IN /\ calls \in CallsOn(PopTypes) /\ calls # <<>> /\ mode = "binary"
            /\ T \in PopTypes /\ s \in Seq(Nat)
            /\ ~Plain(T) /\ ~Compound(T) => Len(s) = 1
            /\ Nested(Head(calls).at, PopParts(T, s)) \o Tail(calls) \in CallsOn(PopTypes)
            /\ outPos' \in Nat /\ good' \in BOOLEAN
            /\ got' \in Seq(GotEntry) /\ Len(got') = Len(got) + 1
            /\ got'[Len(got) + 1] = [at |-> Head(calls).at, type |-> T, cells |-> s]
            /\ \A k \in 1..Len(got) : got'[k] = got[k]
            /\ UNCHANGED <<target, mode, bufLen, buf, inPos, pushed, broken, torn, log>>
<1> DEFINE T == Head(calls).what
           s == Read(T, g)
           e == [at |-> Head(calls).at, type |-> T, cells |-> s]
<1>1. calls \in CallsOn(PopTypes) /\ calls # <<>> /\ mode = "binary"
  BY DEF StreamTypeOK
<1>2. Head(calls).at \in Seq(Nat) /\ T \in PopTypes
  BY <1>1, TopCall
<1>3. s \in Seq(Nat) /\ (~Plain(T) /\ ~Compound(T) => Len(s) = 1)
  BY <1>2, ReadType DEF StreamTypeOK
<1>4. PopParts(T, s) \in Seq(PopTypes)
  BY <1>2, <1>3, PopPartsType
<1>5. Nested(Head(calls).at, PopParts(T, s)) \o Tail(calls) \in CallsOn(PopTypes)
  BY <1>1, <1>4, RestType
<1>6. e \in GotEntry
  BY <1>2, <1>3 DEF GotEntry
<1>7. /\ outPos' = (outPos + Size(T)) % Word /\ got' = Append(got, e)
      /\ good' = (good /\ (target = "memory" \/ outPos + Size(T) <= Len(buf)))
      /\ UNCHANGED <<target, mode, bufLen, buf, inPos, pushed, broken, torn, log>>
  BY DEF Pops
<1>8. outPos' \in Nat
  <2>1. outPos + Size(T) \in Nat /\ Word \in Nat \ {0}
    BY <1>2, SizeType, StreamAssumption DEF StreamTypeOK, StreamAssumption
  <2> QED
    BY <1>7, <2>1, Modulo
<1>9. good' \in BOOLEAN
  BY <1>7
<1> HIDE DEF e
<1>10. /\ got' \in Seq(GotEntry) /\ Len(got') = Len(got) + 1
       /\ got'[Len(got) + 1] = e /\ \A k \in 1..Len(got) : got'[k] = got[k]
  <2>1. got \in Seq(GotEntry)
    BY DEF StreamTypeOK
  <2> QED
    BY <1>6, <1>7, <2>1, AppendProperties
<1> QED
  BY <1>1, <1>2, <1>3, <1>5, <1>7, <1>8, <1>9, <1>10 DEF e

\* The state stays well typed.
LEMMA StreamTyped ==
  ASSUME StreamTypeOK, StreamNext
  PROVE  StreamTypeOK'
<1>1. ASSUME NEW x \in Pushable, OperatorIn(x)
      PROVE  StreamTypeOK'
  <2>1. x \in Items /\ x \in PushValues
    BY StreamAssumption DEF StreamAssumption, Pushable, PushValues
  <2>2. pushed' \in Seq(Items) /\ pushed' # <<>> /\ Len(pushed') = Len(pushed) + 1
    <3>1. pushed \in Seq(Items) /\ pushed' = Append(pushed, x)
      BY <1>1 DEF OperatorIn, StreamTypeOK
    <3> QED
      BY <2>1, <3>1, AppendProperties
  <2>3. calls' \in CallsOn(PushValues) /\ calls' # <<>>
    <3>1. <<Len(pushed) + 1>> \in Seq(Nat)
      BY DEF StreamTypeOK
    <3> DEFINE c == [at |-> <<Len(pushed) + 1>>, what |-> x]
    <3>2. c \in CallOn(PushValues)
      BY <2>1, <3>1 DEF CallOn
    <3>3. calls' = <<c>>
      BY <1>1 DEF OperatorIn
    <3> HIDE DEF c
    <3> QED
      BY <3>2, <3>3 DEF CallsOn
  <2>4. broken' = broken /\ broken \in Nat /\ broken <= Len(pushed')
    BY <1>1, <2>2 DEF OperatorIn, StreamTypeOK
  <2>5. /\ op' = "push"
        /\ UNCHANGED <<target, mode, bufLen, buf, inPos, outPos, good, popped, torn, log, got>>
    BY <1>1 DEF OperatorIn
  <2> QED
    BY <2>2, <2>3, <2>4, <2>5 DEF StreamTypeOK
<1>2. CASE PushOne
  <2> DEFINE x == Head(calls).what
             rest == Nested(Head(calls).at, Parts(x)) \o Tail(calls)
             w == Written(x)
             e == [calls |-> calls, pos |-> inPos, item |-> Len(pushed)]
  <2>1. op = "push" /\ rest \in CallsOn(PushValues) /\ w \in Seq(Bytes) /\ e \in LogEntry
    BY <1>2, PushTop DEF PushOne
  <2>2. /\ buf' = buf \o w /\ inPos' = inPos + Len(w) /\ calls' = rest
        /\ op' = (IF rest = <<>> THEN "idle" ELSE "push")
        /\ log' = (IF broken # 0 THEN log ELSE Append(log, e))
        /\ inPos + Len(w) < Word
        /\ UNCHANGED <<target, mode, bufLen, outPos, good, pushed, broken, popped, torn, got>>
    BY <1>2 DEF PushOne, Addressable
  <2> HIDE DEF x, rest, w, e
  <2>3. buf' \in Seq(Bytes) /\ inPos' = Len(buf') /\ inPos' < Word
    BY <2>1, <2>2 DEF StreamTypeOK
  <2>4. log' \in Seq(LogEntry)
    BY <2>1, <2>2 DEF StreamTypeOK
  <2> QED
    BY <2>1, <2>2, <2>3, <2>4 DEF StreamTypeOK
<1>3. CASE PushThrows
  <2>1. /\ op' = "idle" /\ broken' = (IF broken = 0 THEN Len(pushed) ELSE broken)
        /\ UNCHANGED <<target, mode, bufLen, buf, inPos, outPos, good, pushed, popped, torn,
                       log, got>>
    BY <1>3 DEF PushThrows
  <2>2. broken' \in Nat /\ broken' <= Len(pushed)
    BY <2>1 DEF StreamTypeOK
  <2> QED
    BY <2>1, <2>2 DEF StreamTypeOK
<1>4. CASE OperatorOut
  <2>1. op = "idle" /\ mode = "binary" /\ Len(popped) < Len(pushed)
    BY <1>4 DEF OperatorOut
  <2> DEFINE i == Len(popped) + 1
  <2>2. i \in Nat /\ i \in 1..Len(pushed)
    BY <2>1 DEF StreamTypeOK
  <2>3. pushed[i] \in Values
    BY <2>2, StreamAssumption DEF StreamTypeOK, StreamAssumption
  <2>4. pushed[i].type \in PopTypes
    BY <2>3, StreamAssumption DEF StreamAssumption, PopTypes
  <2> DEFINE c == [at |-> <<i>>, what |-> pushed[i].type]
  <2>5. c \in CallOn(PopTypes)
    BY <2>2, <2>4 DEF CallOn
  <2>6. calls' = <<c>>
    BY <1>4 DEF OperatorOut
  <2>7. torn' \in BOOLEAN
    BY <1>4 DEF OperatorOut
  <2> HIDE DEF c, i
  <2>8. calls' \in CallsOn(PopTypes) /\ calls' # <<>>
    BY <2>5, <2>6 DEF CallsOn
  <2>9. /\ op' = "pop"
        /\ UNCHANGED <<target, mode, bufLen, buf, inPos, outPos, good, pushed, broken, popped,
                       log, got>>
    BY <1>4 DEF OperatorOut
  <2> QED
    BY <2>1, <2>7, <2>8, <2>9 DEF StreamTypeOK
<1>5. ASSUME NEW g \in Junk(Head(calls).what), op = "pop", PopOne(g) \/ ResizeThrows(g)
      PROVE  StreamTypeOK'
  <2> DEFINE T == Head(calls).what
             s == Read(T, g)
             rest == Nested(Head(calls).at, PopParts(T, s)) \o Tail(calls)
  <2>1. Pops(T, s)
    BY <1>5 DEF PopOne, ResizeThrows
  <2>2. /\ mode = "binary" /\ rest \in CallsOn(PopTypes)
        /\ outPos' \in Nat /\ good' \in BOOLEAN /\ got' \in Seq(GotEntry)
        /\ UNCHANGED <<target, mode, bufLen, buf, inPos, pushed, broken, torn, log>>
    BY <1>5, <2>1, PopsType
  <2>3. \/ op' = "pop" /\ calls' = rest /\ rest # <<>> /\ popped' = popped
        \/ op' = "idle" /\ popped' = Append(popped, TRUE)
        \/ op' = "idle" /\ popped' = Append(popped, FALSE)
    BY <1>5 DEF PopOne, ResizeThrows
  <2> HIDE DEF T, s, rest
  <2>4. popped' \in Seq(BOOLEAN)
    <3>1. popped \in Seq(BOOLEAN)
      BY DEF StreamTypeOK
    <3> QED
      BY <2>3, <3>1, AppendProperties
  <2>5. op' = "idle" \/ (op' = "pop" /\ calls' \in CallsOn(PopTypes) /\ calls' # <<>>)
    BY <2>2, <2>3
  <2> QED
    BY <2>2, <2>4, <2>5 DEF StreamTypeOK
<1>6. CASE PopThrows
  <2>1. popped' \in Seq(BOOLEAN)
    <3>1. popped \in Seq(BOOLEAN) /\ popped' = Append(popped, FALSE)
      BY <1>6 DEF PopThrows, StreamTypeOK
    <3> QED
      BY <3>1, AppendProperties
  <2>2. /\ op' = "idle"
        /\ UNCHANGED <<target, mode, bufLen, buf, inPos, outPos, good, pushed, broken, torn,
                       log, got>>
    BY <1>6 DEF PopThrows
  <2> QED
    BY <2>1, <2>2 DEF StreamTypeOK
<1>7. CASE PopWild
  BY <1>7 DEF PopWild, StreamTypeOK
<1> QED
  BY <1>1, <1>2, <1>3, <1>4, <1>5, <1>6, <1>7 DEF StreamNext

\* The reader's stack: what comes from a length that was read is on top.
LEMMA StackStep ==
  ASSUME StreamTypeOK, OnTop, StreamNext
  PROVE  OnTop'
<1>1. CASE OperatorOut
  <2> DEFINE i == Len(popped) + 1
             c == [at |-> <<i>>, what |-> pushed[i].type]
  <2>1. i \in 1..Len(pushed) /\ calls' = <<c>>
    BY <1>1 DEF OperatorOut, StreamTypeOK
  <2>2. pushed[i] \in Values
    BY <2>1, StreamAssumption DEF StreamTypeOK, StreamAssumption
  <2>3. c.what \in Types
    BY <2>2, StreamAssumption DEF StreamAssumption
  <2> HIDE DEF c, i
  <2>4. Head(calls') = c /\ Tail(calls') = <<>>
    BY <2>1
  <2>5. <<>> \in CallsOn(Types)
    BY DEF CallsOn
  <2> QED
    BY <2>3, <2>4, <2>5 DEF OnTop
<1>2. ASSUME NEW g \in Junk(Head(calls).what), op = "pop", PopOne(g), op' = "pop"
      PROVE  OnTop'
  <2> DEFINE T == Head(calls).what
             s == Read(T, g)
             ps == PopParts(T, s)
             N == Nested(Head(calls).at, ps)
             t == Tail(calls)
             e == [at |-> Head(calls).at, type |-> T, cells |-> s]
  <2>1. Pops(T, s) /\ calls' = N \o t /\ N \o t # <<>> /\ ~(Resized(T) /\ NoRoom(T, s[1]))
    BY <1>2 DEF PopOne
  <2>2. /\ calls \in CallsOn(PopTypes) /\ calls # <<>> /\ T \in PopTypes /\ s \in Seq(Nat)
        /\ ~Plain(T) /\ ~Compound(T) => Len(s) = 1
        /\ got' \in Seq(GotEntry) /\ Len(got') = Len(got) + 1 /\ got'[Len(got) + 1] = e
        /\ target' = target /\ bufLen' = bufLen
    BY <1>2, <2>1, PopsType
  <2>3. t \in CallsOn(Types)
    BY <1>2 DEF OnTop
  <2>4. Head(calls).at \in Seq(Nat)
    BY <2>2, TopCall
  <2>5. ASSUME NEW u \in CallsOn(Types), u # <<>>
        PROVE  Head(u).what \in Types /\ Tail(u) \in CallsOn(Types)
    BY <2>5, TopCall
  <2>6. CASE ~Text(T)
    <3>1. ps \in Seq(Types)
      BY <2>2, <2>6, GivenParts
    <3> HIDE DEF ps
    <3>2. N \in Seq(CallOn(Types))
      BY <2>4, <3>1, NestedType DEF CallsOn
    <3>3. t \in Seq(CallOn(Types))
      BY <2>3 DEF CallsOn
    <3> HIDE DEF N, t
    <3>4. N \o t \in CallsOn(Types)
      BY <3>2, <3>3, Concatenated DEF CallsOn
    <3>5. Head(calls').what \in Types /\ Tail(calls') \in CallsOn(Types)
      BY <2>1, <2>5, <3>4
    <3> QED
      BY <3>5 DEF OnTop
  <2>7. CASE Text(T)
    <3> DEFINE A == Array(T.n, s[1])
               c == [at |-> Append(Head(calls).at, 1), what |-> A]
    <3>1. ps = <<A>>
      BY <2>7 DEF PopParts, Text, Plain
    <3>2. N = <<c>>
      <4>1. A \in PopTypes
        BY <2>2, <2>7, <3>1, PopPartsType DEF Text, Plain, Compound
      <4> HIDE DEF A
      <4>2. <<A>> \in Seq(PopTypes) /\ Len(<<A>>) = 1 /\ <<A>>[1] = A
        BY <4>1
      <4> HIDE DEF ps
      <4>3. /\ N \in CallsOn(PopTypes) /\ Len(N) = Len(ps)
            /\ \A i \in 1..Len(ps) : N[i] = [at |-> Append(Head(calls).at, i), what |-> ps[i]]
        BY <2>4, <3>1, <4>2, NestedType
      <4> HIDE DEF N
      <4>4. Len(N) = 1 /\ N[1] = c
        BY <3>1, <4>2, <4>3
      <4> HIDE DEF c
      <4> QED
        BY <4>3, <4>4 DEF CallsOn
    <3>3. t \in Seq(CallOn(Types))
      BY <2>3 DEF CallsOn
    <3>4. c.what = A
      OBVIOUS
    <3> HIDE DEF N, c, ps, t, A
    <3>5. Head(N \o t) = c /\ Tail(N \o t) = t
      BY <3>2, <3>3
    <3> DEFINE f == got'[Len(got')]
    <3>6. got' # <<>> /\ f.type = T /\ f.cells = s
      <4>1. got' # <<>> /\ f = e
        BY <2>2 DEF StreamTypeOK
      <4> QED
        BY <4>1
    <3>7. ~(Resized(f.type) /\ Asked(f.type, f.cells[1])
              + (IF target' = "memory" THEN bufLen' ELSE 0) >= Word)
      BY <2>1, <2>2, <3>6 DEF NoRoom
    <3>8. Head(calls').what = Array(f.type.n, f.cells[1]) /\ Text(f.type)
      BY <2>1, <2>7, <3>4, <3>5, <3>6 DEF A
    <3>9. Tail(calls') \in CallsOn(Types)
      BY <2>1, <2>3, <3>5 DEF t
    <3> QED
      BY <3>6, <3>7, <3>8, <3>9 DEF OnTop, Announced, NoRoom
  <2> QED
    BY <2>6, <2>7
<1>3. OperatorOut \/ op' # "pop" \/ (op = "pop" /\ \E g \in Junk(Head(calls).what) : PopOne(g))
  BY DEF StreamNext, OperatorIn, PushOne, PushThrows, PopThrows, PopWild, ResizeThrows
<1> QED
  BY <1>1, <1>2, <1>3 DEF OnTop

\* A read that passes its check inside a memory buffer stays there, if it and
\* the buffer have room in the address space together.
LEMMA NoWrap ==
  ASSUME StreamTypeOK, outPos <= bufLen, NEW T \in PopTypes, Fits(outPos, Size(T)),
         Reads(T) * ReadSize(T) + bufLen < Word
  PROVE  ~Outside(T)
<1> DEFINE n == Reads(T) * ReadSize(T)
<1>1. n \in Nat /\ bufLen \in Nat /\ outPos \in Nat /\ Word \in Nat \ {0}
  BY PopType, StreamAssumption DEF StreamTypeOK, StreamAssumption
<1>2. n + bufLen < Word /\ (n < Word => Size(T) = n)
  BY SizeType
<1> HIDE DEF n
<1>3. Size(T) = n /\ outPos + n \in Nat /\ outPos + n < Word
  BY <1>1, <1>2
<1>4. (outPos + n) % Word = outPos + n
  BY <1>1, <1>3, Modulo
<1> QED
  BY <1>1, <1>3, <1>4 DEF Fits, Outside

\* No step takes a position past the end of a binary stream's buffer, but for
\* one.
LEMMA StreamInside ==
  ASSUME StreamTypeOK, OnTop, StaysInside, StreamNext
  PROVE  StaysInside'
<1>1. ASSUME mode = "binary", PushOne
      PROVE  inPos' <= bufLen' /\ outPos' = outPos /\ op' # "wild"
  <2> DEFINE x == Head(calls).what
  <2>1. op = "push" /\ x \in PushValues /\ inPos \in Nat /\ bufLen \in Nat
    BY <1>1, PushTop DEF PushOne, StreamTypeOK
  <2>2. Len(Written(x)) = Needed(x) /\ (~Pushes(x.type) => Len(Written(x)) = 0)
    BY <1>1, <2>1, WrittenType
  <2>3. Len(Written(x)) \in Nat
    BY <1>1, <2>1, WrittenType
  <2>4. /\ Pushes(x.type) => Fits(inPos, Needed(x))
        /\ inPos + Needed(x) < Word
        /\ inPos' = inPos + Len(Written(x)) /\ bufLen' = bufLen /\ outPos' = outPos
        /\ op' # "wild"
    BY <1>1 DEF PushOne, Addressable
  <2> HIDE DEF x
  <2>5. inPos + Needed(x) \in Nat /\ Word \in Nat \ {0}
    BY <2>1, <2>2, <2>3, StreamAssumption DEF StreamAssumption
  <2>6. (inPos + Needed(x)) % Word = inPos + Needed(x)
    BY <2>4, <2>5, Modulo
  <2> QED
    BY <1>1, <2>1, <2>2, <2>3, <2>4, <2>6 DEF StaysInside, Fits
<1>2. ASSUME mode = "binary", op = "pop", NEW g \in Junk(Head(calls).what),
             PopOne(g) \/ ResizeThrows(g)
      PROVE  inPos' = inPos /\ outPos' <= bufLen' /\ op' # "wild"
  <2> DEFINE T == Head(calls).what
  <2>1. Pops(T, Read(T, g)) /\ op' # "wild"
    BY <1>2 DEF PopOne, ResizeThrows
  <2>2. T \in PopTypes /\ inPos' = inPos /\ bufLen' = bufLen
    BY <1>2, <2>1, PopsType
  <2>3. Size(T) \in Nat /\ (Compound(T) => Size(T) = 0)
    BY <2>2, SizeType
  <2>4. (Compound(T) \/ Fits(outPos, Size(T))) /\ outPos' = (outPos + Size(T)) % Word
    BY <2>1 DEF Pops
  <2> HIDE DEF T
  <2>5. outPos \in Nat /\ outPos <= bufLen /\ bufLen \in Nat /\ bufLen < Word /\ Word \in Nat \ {0}
    BY <1>2, StreamAssumption DEF StreamTypeOK, StaysInside, StreamAssumption
  <2>6. CASE Compound(T)
    <3>1. outPos + Size(T) = outPos /\ outPos < Word
      BY <2>3, <2>5, <2>6
    <3>2. outPos' = outPos
      BY <2>4, <2>5, <3>1, Modulo
    <3> QED
      BY <2>1, <2>2, <2>5, <3>2
  <2>7. CASE Fits(outPos, Size(T))
    BY <2>1, <2>2, <2>4, <2>7 DEF Fits
  <2> QED
    BY <2>4, <2>6, <2>7
<1>3. ASSUME mode = "binary", PopWild
      PROVE  StaysInside'
  <2> DEFINE T == Head(calls).what
             e == got[Len(got)]
  <2>1. /\ op = "pop" /\ ~Compound(T) /\ Fits(outPos, Size(T)) /\ Outside(T)
        /\ UNCHANGED <<target, mode, bufLen, inPos, outPos, got>>
    BY <1>3 DEF PopWild
  <2>2. T \in PopTypes /\ target = "memory" /\ bufLen \in Lengths
    BY <2>1, TopCall DEF StreamTypeOK, Outside
  <2>3. inPos <= bufLen /\ outPos <= bufLen
    BY <1>3 DEF StaysInside
  <2>4. ~(Reads(T) * ReadSize(T) + bufLen < Word)
    BY <2>1, <2>2, <2>3, NoWrap
  <2>5. T \notin Types
    <3>1. SUFFICES ASSUME T \in Types
                   PROVE  FALSE
      OBVIOUS
    <3>2. CASE Plain(T)
      <4>1. Reads(T) * T.n + bufLen < Word /\ ReadSize(T) = T.n
        <5>1. Reads(T) * T.n + bufLen < Word
          BY <2>2, <3>1, <3>2, StreamAssumption DEF StreamAssumption
        <5>2. ReadSize(T) = T.n
          BY <3>2 DEF ReadSize, Plain, Text
        <5> QED
          BY <5>1, <5>2
      <4> QED
        BY <2>4, <4>1
    <3>3. CASE ~Plain(T)
      <4>1. Reads(T) = 1 /\ ReadSize(T) = LenSize
        BY <2>1, <2>2, <3>3, PopType
      <4>2. LenSize + bufLen < Word /\ 1 * LenSize = LenSize
        BY <2>2, StreamAssumption DEF StreamAssumption
      <4> HIDE DEF T
      <4> QED
        BY <2>4, <4>1, <4>2
    <3> QED
      BY <3>2, <3>3
  <2>6. Announced(T)
    BY <2>1, <2>5 DEF OnTop
  <2>7. /\ got # <<>> /\ Text(e.type) /\ T = Array(e.type.n, e.cells[1])
        /\ ~(Resized(e.type) /\ NoRoom(e.type, e.cells[1]))
    BY <2>6 DEF Announced
  <2>8. Reads(T) = e.cells[1] /\ ReadSize(T) = e.type.n
    <3>1. T.t = "array" /\ T.max = e.cells[1] /\ T.n = e.type.n
      BY <2>7 DEF Array
    <3> HIDE DEF T, e
    <3> QED
      BY <3>1 DEF Reads, ReadSize, Plain, Text, Compound
  <2> HIDE DEF T, e
  <2>9. NoRoom(e.type, e.cells[1])
    <3>1. /\ e.cells[1] * e.type.n \in Nat /\ bufLen \in Nat /\ Word \in Nat
          /\ ~(e.cells[1] * e.type.n + bufLen < Word)
      BY <2>2, <2>4, <2>8, PopType, StreamAssumption DEF StreamTypeOK, StreamAssumption
    <3> QED
      BY <2>2, <2>7, <3>1 DEF NoRoom, Asked
  <2>10. e.type.t \in {"chars", "cstring"}
    BY <2>7, <2>9 DEF Text, Resized
  <2> DEFINE f == got'[Len(got')]
  <2>11. got' # <<>> /\ f = e
    BY <2>1, <2>7 DEF e
  <2>12. Asked(f.type, f.cells[1]) + (IF target' = "memory" THEN bufLen' ELSE 0) >= Word
    BY <2>1, <2>9, <2>11 DEF NoRoom
  <2>13. f.type.t \in {"chars", "cstring"}
    BY <2>10, <2>11
  <2> HIDE DEF f
  <2> QED
    BY <2>1, <2>3, <2>11, <2>12, <2>13 DEF StaysInside, NoRoom, f
<1>4. mode' = mode /\ bufLen' = bufLen
  BY DEF StreamNext, OperatorIn, PushOne, PushThrows, OperatorOut, PopOne, ResizeThrows, Pops,
         PopThrows, PopWild
<1>5. \/ PushOne \/ PopWild
      \/ op = "pop" /\ \E g \in Junk(Head(calls).what) : PopOne(g) \/ ResizeThrows(g)
      \/ inPos' = inPos /\ outPos' = outPos /\ op' # "wild"
  BY DEF StreamNext, OperatorIn, PushThrows, OperatorOut, PopThrows
<1>6. ASSUME mode = "binary", inPos' <= bufLen', outPos' <= bufLen', op' # "wild"
      PROVE  StaysInside'
  BY <1>6 DEF StaysInside
<1>7. CASE mode = "binary"
  <2>1. inPos <= bufLen /\ outPos <= bufLen
    BY <1>7 DEF StaysInside
  <2> QED
    BY <1>1, <1>2, <1>3, <1>4, <1>5, <1>6, <1>7, <2>1
<1>8. CASE mode # "binary"
  BY <1>4, <1>8 DEF StaysInside
<1> QED
  BY <1>7, <1>8

-----------------------------------------------------------------------------
(* The writer                                                              *)

\* The log of a stream whose writer makes no call.
LEMMA LogKept ==
  ASSUME StreamTypeOK, LogBytes, LogOrder, LogEnd,
         UNCHANGED <<mode, buf, inPos, pushed, log>>, op' # "push",
         Whole' = Whole, op = "push" \/ broken # 0 => broken' # 0
  PROVE  LogBytes' /\ LogOrder' /\ LogEnd'
<1>1. LogBytes'
  <2>1. \A x : Written(x)' = Written(x)
    BY WrittenKept
  <2> QED
    BY <2>1 DEF LogBytes
<1>2. LogOrder'
  BY DEF LogOrder, Root
<1>3. LogEnd'
  BY DEF LogEnd
<1> QED
  BY <1>1, <1>2, <1>3

\* The log when the writer begins with a value.
LEMMA LogBegins ==
  ASSUME StreamTypeOK, LogBytes, LogOrder, LogEnd, NEW x \in Pushable, OperatorIn(x)
  PROVE  /\ LogBytes' /\ LogOrder' /\ LogEnd'
         /\ Whole' = Whole /\ \A i \in 1..Len(pushed) : Root(i)' = Root(i)
<1>1. /\ op = "idle" /\ op' = "push"
      /\ pushed' = Append(pushed, x) /\ calls' = <<[at |-> <<Len(pushed) + 1>>, what |-> x]>>
      /\ UNCHANGED <<mode, buf, inPos, log, broken>>
  BY DEF OperatorIn
<1>2. /\ pushed \in Seq(Items) /\ Len(pushed) \in Nat /\ Len(pushed') = Len(pushed) + 1
      /\ pushed'[Len(pushed) + 1] = x /\ \A i \in 1..Len(pushed) : pushed'[i] = pushed[i]
  <2>1. pushed \in Seq(Items) /\ x \in Items
    BY StreamAssumption DEF StreamTypeOK, Pushable, StreamAssumption
  <2> QED
    BY <1>1, <2>1, AppendProperties
<1>3. (broken = 0 => Whole = Len(pushed)) /\ Whole' = Whole
  BY <1>1, <1>2 DEF Whole, StreamTypeOK
<1>4. \A i \in 1..Len(pushed) : Root(i)' = Root(i)
  BY <1>2 DEF Root
<1>5. calls' = Root(Len(pushed))'
  BY <1>1, <1>2 DEF Root
<1>6. LogBytes'
  <2>1. \A y : Written(y)' = Written(y)
    BY <1>1, WrittenKept
  <2> QED
    BY <1>1, <2>1 DEF LogBytes
<1>7. LogOrder'
  <2>1. log # <<>> => Len(log) \in Nat \ {0}
    BY DEF StreamTypeOK
  <2>2. log # <<>> => 1 \in 1..Len(pushed)
    BY <1>2, <2>1 DEF LogOrder
  <2>3. \A k \in 1..Len(log) : log[k].item \in 1..Len(pushed')
    BY <1>2 DEF LogOrder
  <2>4. ASSUME NEW k \in 1..(Len(log) - 1), After(log[k]) = <<>>
        PROVE  log[k + 1].item = log[k].item + 1 /\ log[k + 1].calls = Root(log[k].item + 1)'
    <3>1. log[k + 1].item = log[k].item + 1 /\ log[k + 1].calls = Root(log[k].item + 1)
      BY <2>4 DEF LogOrder
    <3>2. k + 1 \in 1..Len(log)
      BY DEF StreamTypeOK
    <3>3. log[k].item + 1 \in 1..Len(pushed)
      BY <3>1, <3>2 DEF LogOrder
    <3> QED
      BY <1>1, <1>4, <3>1, <3>3
  <2> QED
    BY <1>1, <1>4, <2>2, <2>3, <2>4 DEF LogOrder
<1>8. LogEnd'
  BY <1>1, <1>2, <1>3, <1>5 DEF LogEnd
<1> QED
  BY <1>3, <1>4, <1>6, <1>7, <1>8

\* The log when the writer makes a call.
LEMMA LogGrows ==
  ASSUME StreamTypeOK, LogBytes, LogOrder, LogEnd, PushOne, broken = 0
  PROVE  /\ LogBytes' /\ LogOrder' /\ LogEnd'
         /\ Len(log') = Len(log) + 1 /\ \A k \in 1..Len(log) : log'[k] = log[k]
         /\ log'[Len(log) + 1] = [calls |-> calls, pos |-> inPos, item |-> Len(pushed)]
         /\ Whole + 1 = Len(pushed) /\ Whole <= Whole' /\ Whole' \in Nat
<1> DEFINE x == Head(calls).what
           rest == Nested(Head(calls).at, Parts(x)) \o Tail(calls)
           w == Written(x)
           e == [calls |-> calls, pos |-> inPos, item |-> Len(pushed)]
<1>1. op = "push" /\ w \in Seq(Bytes) /\ e \in LogEntry
  BY PushTop DEF PushOne
<1>2. /\ buf' = buf \o w /\ inPos' = inPos + Len(w) /\ calls' = rest
      /\ op' = (IF rest = <<>> THEN "idle" ELSE "push") /\ log' = Append(log, e)
      /\ UNCHANGED <<mode, pushed, broken>>
  BY DEF PushOne
<1>3. /\ e.calls = calls /\ e.pos = inPos /\ e.item = Len(pushed)
      /\ Made(e) = x /\ After(e) = rest
  BY DEF Made, After
<1>4. /\ log \in Seq(LogEntry) /\ buf \in Seq(Bytes) /\ inPos = Len(buf) /\ Len(pushed) \in Nat
      /\ Len(log) \in Nat /\ Len(pushed) > 0
  BY <1>1 DEF StreamTypeOK
<1> HIDE DEF x, rest, w, e
<1>5. /\ Len(log') = Len(log) + 1 /\ log'[Len(log) + 1] = e
      /\ \A k \in 1..Len(log) : log'[k] = log[k]
  BY <1>1, <1>2, <1>4, AppendProperties
<1>6. /\ Whole + 1 = Len(pushed) /\ Whole' = IF rest = <<>> THEN Len(pushed) ELSE Whole
  BY <1>1, <1>2, <1>4 DEF Whole
<1>7. /\ Len(buf') = inPos + Len(w) /\ Len(w) \in Nat
      /\ \A i \in 1..inPos : buf'[i] = buf[i]
      /\ \A i \in 1..Len(w) : buf'[inPos + i] = w[i]
  BY <1>1, <1>2, <1>4, Concatenated
<1>8. LogBytes'
  <2>1. \A y : Written(y)' = Written(y)
    BY <1>2, WrittenKept
  <2>2. ASSUME NEW k \in 1..Len(log')
        PROVE  /\ k < Len(log') => log'[k].pos + Len(Written(Made(log'[k]))) = log'[k + 1].pos
               /\ k = Len(log') => log'[k].pos + Len(Written(Made(log'[k]))) = inPos'
               /\ log'[k].pos + Len(Written(Made(log'[k]))) <= inPos'
               /\ \A j \in 1..Len(Written(Made(log'[k]))) :
                    buf'[log'[k].pos + j] = Written(Made(log'[k]))[j]
    <3>1. CASE k = Len(log) + 1
      <4>1. log'[k] = e /\ Written(Made(log'[k])) = w
        BY <1>3, <1>5, <3>1 DEF w
      <4>2. log'[k].pos = inPos /\ ~(k < Len(log'))
        BY <1>3, <1>4, <1>5, <3>1, <4>1
      <4>3. inPos + Len(w) = inPos' /\ inPos + Len(w) <= inPos'
        BY <1>2, <1>4, <1>7
      <4>4. \A j \in 1..Len(w) : buf'[inPos + j] = w[j]
        BY <1>7
      <4> QED
        BY <4>1, <4>2, <4>3, <4>4
    <3>2. CASE k \in 1..Len(log)
      <4> DEFINE v == Written(Made(log[k]))
                 p == log[k].pos
      <4>1. log'[k] = log[k] /\ k < Len(log') /\ k # Len(log')
        BY <1>4, <1>5, <3>2
      <4>2. /\ k < Len(log) => p + Len(v) = log[k + 1].pos
            /\ k = Len(log) => p + Len(v) = inPos
            /\ p + Len(v) <= inPos
            /\ \A j \in 1..Len(v) : buf[p + j] = v[j]
        BY <3>2 DEF LogBytes
      <4>3. p \in Nat /\ v \in Seq(Bytes)
        <5>1. log[k] \in LogEntry
          BY <1>4, <3>2
        <5>2. p \in Nat /\ log[k].calls \in CallsOn(PushValues) /\ log[k].calls # <<>>
          BY <5>1 DEF LogEntry
        <5>3. Made(log[k]) \in PushValues
          BY <5>2, TopCall DEF Made
        <5> QED
          BY <5>2, <5>3, WrittenType DEF StreamTypeOK
      <4>4. log'[k + 1].pos = IF k < Len(log) THEN log[k + 1].pos ELSE inPos
        <5>1. CASE k < Len(log)
          BY <1>4, <1>5, <3>2, <5>1
        <5>2. CASE k = Len(log)
          BY <1>3, <1>5, <5>2
        <5> QED
          BY <1>4, <3>2, <5>1, <5>2
      <4> HIDE DEF v, p
      <4>5. Len(v) \in Nat
        BY <4>3
      <4>6. p + Len(v) <= inPos'
        BY <1>2, <1>4, <1>7, <4>2, <4>3, <4>5
      <4>7. \A j \in 1..Len(v) : buf'[p + j] = v[j]
        <5>1. \A j \in 1..Len(v) : p + j \in 1..inPos
          BY <1>4, <4>2, <4>3, <4>5
        <5> QED
          BY <1>7, <4>2, <5>1
      <4>8. p + Len(v) = log'[k + 1].pos
        BY <1>4, <3>2, <4>2, <4>4
      <4> QED
        BY <4>1, <4>2, <4>6, <4>7, <4>8 DEF v, p
    <3> QED
      BY <1>4, <1>5, <3>1, <3>2
  <2> QED
    BY <2>1, <2>2 DEF LogBytes
<1>9. \A i : Root(i)' = Root(i)
  BY <1>2 DEF Root
<1>10. LogOrder'
  <2>1. log'[1].calls = Root(1) /\ log'[1].item = 1 /\ log'[1].pos = 0
    <3>1. CASE log = <<>>
      <4>1. log'[1] = e
        BY <1>4, <1>5, <3>1
      <4>2. Whole = 0 /\ inPos = 0 /\ calls = Root(1)
        BY <1>1, <3>1 DEF LogEnd
      <4> QED
        BY <1>3, <1>6, <4>1, <4>2
    <3>2. CASE log # <<>>
      <4>1. 1 \in 1..Len(log)
        BY <1>4, <3>2
      <4> QED
        BY <1>5, <3>2, <4>1 DEF LogOrder
    <3> QED
      BY <3>1, <3>2
  <2>2. \A k \in 1..Len(log') : log'[k].item \in 1..Len(pushed)
    <3>1. e.item \in 1..Len(pushed)
      BY <1>3, <1>4
    <3> QED
      BY <1>4, <1>5, <3>1 DEF LogOrder
  <2>3. ASSUME NEW k \in 1..(Len(log') - 1)
        PROVE  IF After(log'[k]) = <<>>
               THEN log'[k + 1].item = log'[k].item + 1 /\ log'[k + 1].calls = Root(log'[k].item + 1)
               ELSE log'[k + 1].item = log'[k].item /\ log'[k + 1].calls = After(log'[k])
    <3>1. CASE k < Len(log)
      <4>1. k \in 1..(Len(log) - 1) /\ log'[k] = log[k] /\ log'[k + 1] = log[k + 1]
        BY <1>4, <1>5, <3>1
      <4> QED
        BY <4>1 DEF LogOrder
    <3>2. CASE k = Len(log)
      <4>1. log'[k] = log[k] /\ log'[k + 1] = e /\ log # <<>>
        BY <1>4, <1>5, <3>2
      <4>2. IF After(log[k]) = <<>>
            THEN log[k].item = Whole /\ calls = Root(Len(pushed))
            ELSE log[k].item = Whole + 1 /\ calls = After(log[k])
        BY <1>1, <3>2, <4>1 DEF LogEnd
      <4> QED
        BY <1>3, <1>6, <4>1, <4>2
    <3> QED
      BY <1>4, <1>5, <3>1, <3>2
  <2> QED
    BY <1>2, <1>9, <2>1, <2>2, <2>3 DEF LogOrder
<1>11. LogEnd'
  <2>1. log' # <<>> /\ log'[Len(log')] = e
    BY <1>4, <1>5
  <2> QED
    BY <1>2, <1>3, <1>6, <2>1 DEF LogEnd
<1>12. Whole <= Whole' /\ Whole' \in Nat
  BY <1>4, <1>6, WholeType
<1> QED
  BY <1>5, <1>6, <1>8, <1>10, <1>11, <1>12 DEF e

\* The log when the writer makes a call after a push that threw.
LEMMA LogFrozen ==
  ASSUME StreamTypeOK, LogBytes, LogOrder, LogEnd, PushOne, broken # 0
  PROVE  LogBytes' /\ LogOrder' /\ LogEnd' /\ log' = log /\ Whole' = Whole
<1> DEFINE w == Written(Head(calls).what)
<1>1. op = "push" /\ w \in Seq(Bytes)
  BY PushTop DEF PushOne
<1>2. /\ buf' = buf \o w /\ inPos' = inPos + Len(w)
      /\ log' = log /\ UNCHANGED <<mode, pushed, broken>>
  BY DEF PushOne
<1>3. buf \in Seq(Bytes) /\ inPos = Len(buf) /\ Len(buf) \in Nat
  BY DEF StreamTypeOK
<1> HIDE DEF w
<1>4. Len(w) \in Nat /\ \A i \in 1..inPos : buf'[i] = buf[i]
  BY <1>1, <1>2, <1>3, Concatenated
<1>5. Whole' = Whole
  BY <1>2 DEF Whole
<1>6. LogBytes'
  <2>1. \A y : Written(y)' = Written(y)
    BY <1>2, WrittenKept
  <2>2. ASSUME NEW k \in 1..Len(log)
        PROVE  /\ k < Len(log) => log[k].pos + Len(Written(Made(log[k]))) = log[k + 1].pos
               /\ log[k].pos + Len(Written(Made(log[k]))) <= inPos'
               /\ \A j \in 1..Len(Written(Made(log[k]))) :
                    buf'[log[k].pos + j] = Written(Made(log[k]))[j]
    <3> DEFINE v == Written(Made(log[k]))
               p == log[k].pos
    <3>1. /\ k < Len(log) => p + Len(v) = log[k + 1].pos
          /\ p + Len(v) <= inPos
          /\ \A j \in 1..Len(v) : buf[p + j] = v[j]
      BY DEF LogBytes
    <3>2. p \in Nat /\ v \in Seq(Bytes)
      <4>1. log[k] \in LogEntry
        BY DEF StreamTypeOK
      <4>2. p \in Nat /\ log[k].calls \in CallsOn(PushValues) /\ log[k].calls # <<>>
        BY <4>1 DEF LogEntry
      <4>3. Made(log[k]) \in PushValues
        BY <4>2, TopCall DEF Made
      <4> QED
        BY <4>2, <4>3, WrittenType DEF StreamTypeOK
    <3> HIDE DEF v, p
    <3>3. Len(v) \in Nat
      BY <3>2
    <3>4. p + Len(v) <= inPos'
      BY <1>2, <1>3, <1>4, <3>1, <3>2, <3>3
    <3>5. \A j \in 1..Len(v) : p + j \in 1..inPos
      BY <1>3, <3>1, <3>2, <3>3
    <3>6. \A j \in 1..Len(v) : buf'[p + j] = v[j]
      BY <1>4, <3>1, <3>5
    <3> QED
      BY <3>1, <3>4, <3>6 DEF v, p
  <2> QED
    BY <1>2, <2>1, <2>2 DEF LogBytes
<1>7. LogOrder'
  BY <1>2 DEF LogOrder, Root
<1>8. LogEnd'
  BY <1>2, <1>5 DEF LogEnd
<1> QED
  BY <1>2, <1>5, <1>6, <1>7, <1>8

-----------------------------------------------------------------------------
(* The reader                                                              *)

\* The reader, while the writer begins with a value.
LEMMA FollowsIn ==
  ASSUME StreamTypeOK, LogBytes, LogOrder, LogEnd, Follows, NEW x \in Pushable, OperatorIn(x)
  PROVE  Follows'
<1>1. /\ op = "idle" /\ op' = "push"
      /\ UNCHANGED <<mode, inPos, outPos, good, popped, log, got, broken>>
  BY DEF OperatorIn
<1>2. Whole' = Whole /\ \A i \in 1..Len(pushed) : Root(i)' = Root(i)
  BY LogBegins
<1>3. \A y : Cells(y)' = Cells(y)
  BY <1>1, WrittenKept
<1>4. \A k \in 1..Len(got) : got[k] = Pushed(Head(log[k].calls))'
  BY <1>1, <1>3 DEF Follows, Pushed
<1>5. ASSUME Len(got) < Len(log)
      PROVE  Root(Len(popped) + 1)' = Root(Len(popped) + 1)
  <2>1. Len(got) + 1 \in 1..Len(log)
    BY <1>5 DEF StreamTypeOK
  <2>2. Len(popped) + 1 \in 1..Len(pushed)
    BY <1>1, <1>5, <2>1 DEF Follows, LogOrder
  <2> QED
    BY <1>1, <1>2, <2>2
<1> QED
  BY <1>1, <1>2, <1>4, <1>5 DEF Follows

\* The reader, while the writer makes a call.
LEMMA FollowsPush ==
  ASSUME StreamTypeOK, LogBytes, LogOrder, LogEnd, Follows, PushOne, broken = 0
  PROVE  Follows'
<1> DEFINE e == [calls |-> calls, pos |-> inPos, item |-> Len(pushed)]
<1>1. /\ op = "push" /\ op' # "pop" /\ op' # "wild"
      /\ UNCHANGED <<mode, outPos, good, popped, got, pushed, broken>>
  BY DEF PushOne
<1>2. /\ Len(log') = Len(log) + 1 /\ \A k \in 1..Len(log) : log'[k] = log[k]
      /\ log'[Len(log) + 1] = e /\ Whole + 1 = Len(pushed) /\ Whole <= Whole'
  BY LogGrows
<1>3. e.calls = calls /\ e.pos = inPos /\ e.item = Len(pushed)
  OBVIOUS
<1> HIDE DEF e
<1>4. /\ Len(log) \in Nat /\ Len(got) \in Nat /\ Len(popped) \in Nat /\ Whole \in Nat /\ Whole' \in Nat
      /\ got # <<>> => Len(got) > 0
  <2>1. Whole \in Nat /\ Whole' \in Nat
    BY LogGrows, WholeType
  <2> QED
    BY <2>1 DEF StreamTypeOK
<1>5. \A y : Cells(y)' = Cells(y)
  BY <1>1, WrittenKept
<1>6. /\ Len(got) <= Len(log') /\ Len(popped) <= Whole' /\ good
      /\ \A i \in 1..Len(popped) : popped[i]
  BY <1>2, <1>4 DEF Follows
<1>7. \A k \in 1..Len(got) : k \in 1..Len(log) /\ log'[k] = log[k]
  BY <1>2, <1>4 DEF Follows
<1>8. \A k \in 1..Len(got) : got[k] = Pushed(Head(log'[k].calls))
  BY <1>7 DEF Follows
<1>9. \A k \in 1..Len(got) : got'[k] = Pushed(Head(log[k].calls))'
  BY <1>1, <1>5, <1>8 DEF Pushed
<1>10. got # <<>> => After(log'[Len(got)]) = <<>> /\ log'[Len(got)].item = Len(popped)
  BY <1>1, <1>4, <1>7 DEF Follows
<1>11. got = <<>> => Len(popped) = 0
  BY <1>1 DEF Follows
<1>12. /\ log'[Len(got) + 1].item = Len(popped) + 1
       /\ log'[Len(got) + 1].pos = outPos
       /\ log'[Len(got) + 1].calls = Root(Len(popped) + 1)
  <2>1. CASE Len(got) < Len(log)
    <3>1. log'[Len(got) + 1] = log[Len(got) + 1]
      BY <1>2, <1>4, <2>1
    <3> QED
      BY <1>1, <2>1, <3>1 DEF Follows
  <2>2. CASE ~(Len(got) < Len(log))
    <3>1. Len(got) = Len(log) /\ Len(popped) = Whole /\ outPos = inPos
      BY <1>1, <1>4, <2>2 DEF Follows
    <3>2. log'[Len(got) + 1] = e /\ Len(popped) + 1 = Len(pushed)
      BY <1>2, <3>1
    <3>3. calls = Root(Len(pushed))
      <4>1. CASE log = <<>>
        <5>1. Whole = 0 /\ calls = Root(1)
          BY <1>1, <4>1 DEF LogEnd
        <5>2. Len(pushed) = 1
          BY <1>2, <5>1
        <5> QED
          BY <5>1, <5>2
      <4>2. CASE log # <<>>
        <5>1. got # <<>>
          BY <3>1, <4>2 DEF StreamTypeOK
        <5>2. After(log[Len(log)]) = <<>>
          BY <1>1, <3>1, <5>1 DEF Follows
        <5> QED
          BY <1>1, <4>2, <5>2 DEF LogEnd
      <4> QED
        BY <4>1, <4>2
    <3> QED
      BY <1>3, <3>1, <3>2, <3>3
  <2> QED
    BY <2>1, <2>2
<1>13. Root(Len(popped) + 1)' = Root(Len(popped) + 1)
  BY <1>1 DEF Root
<1>14. Len(got) < Len(log')
  BY <1>2, <1>4 DEF Follows
<1> QED
  BY <1>1, <1>6, <1>9, <1>10, <1>11, <1>12, <1>13, <1>14 DEF Follows

\* The reader, while the writer makes a call after a push that threw.
LEMMA FollowsFrozen ==
  ASSUME StreamTypeOK, LogBytes, LogOrder, LogEnd, Follows, PushOne, broken # 0
  PROVE  Follows'
<1>1. /\ op = "push" /\ op' # "pop" /\ op' # "wild"
      /\ UNCHANGED <<mode, outPos, good, popped, got, pushed, broken>>
  BY DEF PushOne
<1>2. log' = log /\ Whole' = Whole
  BY LogFrozen
<1>3. \A y : Cells(y)' = Cells(y)
  BY <1>1, WrittenKept
<1>4. \A k \in 1..Len(got) : got'[k] = Pushed(Head(log[k].calls))'
  BY <1>1, <1>2, <1>3 DEF Follows, Pushed
<1>5. Root(Len(popped) + 1)' = Root(Len(popped) + 1)
  BY <1>1 DEF Root
<1> QED
  BY <1>1, <1>2, <1>4, <1>5 DEF Follows

\* The reader, while a push throws.
LEMMA FollowsThrow ==
  ASSUME StreamTypeOK, Follows, PushThrows
  PROVE  Follows'
<1>1. /\ op = "push" /\ op' = "idle" /\ broken' = (IF broken = 0 THEN Len(pushed) ELSE broken)
      /\ UNCHANGED <<mode, inPos, outPos, good, popped, log, got, pushed>>
  BY DEF PushThrows
<1>2. Whole' = Whole /\ broken' # 0
  <2>1. Len(pushed) \in Nat /\ Len(pushed) > 0
    BY <1>1 DEF StreamTypeOK
  <2> QED
    BY <1>1, <2>1 DEF Whole
<1>3. \A y : Cells(y)' = Cells(y)
  BY <1>1, WrittenKept
<1>4. \A k \in 1..Len(got) : got'[k] = Pushed(Head(log[k].calls))'
  BY <1>1, <1>3 DEF Follows, Pushed
<1>5. Root(Len(popped) + 1)' = Root(Len(popped) + 1)
  BY <1>1 DEF Root
<1> QED
  BY <1>1, <1>2, <1>4, <1>5 DEF Follows

\* The reader begins with a value.
LEMMA FollowsOut ==
  ASSUME StreamTypeOK, Follows, OperatorOut, ~torn'
  PROVE  Follows'
<1>0. Len(popped) < Whole
  <2>1. ~(Len(popped) >= Whole)
    BY Zenon DEF OperatorOut
  <2>2. Len(popped) \in Nat /\ Whole \in Nat
    BY WholeType DEF StreamTypeOK
  <2> QED
    BY <2>1, <2>2
<1>1. /\ op = "idle" /\ op' = "pop" /\ Len(popped) < Whole
      /\ calls' = <<[at |-> <<Len(popped) + 1>>, what |-> pushed[Len(popped) + 1].type]>>
      /\ UNCHANGED <<mode, inPos, outPos, good, popped, log, got, pushed, broken>>
  BY <1>0 DEF OperatorOut
<1>2. Whole' = Whole
  BY <1>1 DEF Whole
<1>3. \A y : Cells(y)' = Cells(y)
  BY <1>1, WrittenKept
<1>4. \A k \in 1..Len(got) : got'[k] = Pushed(Head(log[k].calls))'
  BY <1>1, <1>3 DEF Follows, Pushed
<1>5. /\ Len(got) < Len(log)
      /\ log[Len(got) + 1].item = Len(popped) + 1
      /\ log[Len(got) + 1].pos = outPos
      /\ log[Len(got) + 1].calls = Root(Len(popped) + 1)
  <2>1. Len(popped) \in Nat /\ Whole \in Nat
    BY WholeType DEF StreamTypeOK
  <2> QED
    BY <1>1, <2>1 DEF Follows
<1>6. calls' = TypesOf(Root(Len(popped) + 1))
  BY <1>1 DEF TypesOf, Root
<1> QED
  BY <1>1, <1>2, <1>4, <1>5, <1>6 DEF Follows

\* What a call of pop reads where the call of push at its place wrote.
LEMMA ReadBack ==
  ASSUME StreamTypeOK, mode = "binary", LogBytes, NEW k \in 1..Len(log), outPos = log[k].pos
  PROVE  LET x == Made(log[k])
             n == Size(x.type)
         IN /\ x \in PushValues /\ n = Len(Written(x)) /\ outPos + n <= inPos
            /\ \A g : Read(x.type, g) = Cells(x)
<1> DEFINE x == Made(log[k])
           s == Cells(x)
           m == CellSize(x.type)
           n == Len(s) * m
           b == Stored(outPos, n)
<1>1. log[k].calls \in CallsOn(PushValues) /\ log[k].calls # <<>> /\ log[k].pos \in Nat
  <2>1. log[k] \in LogEntry
    BY DEF StreamTypeOK
  <2> QED
    BY <2>1 DEF LogEntry
<1>2. x \in PushValues
  BY <1>1, TopCall DEF Made
<1>3. Reads(x.type) = Len(s) /\ ReadSize(x.type) = m
  BY <1>2, PopSizes
<1>4. s \in Seq(Nat) /\ m \in Nat \ {0} /\ Written(x) = Packed(s, m)
  BY <1>2, WrittenType DEF StreamTypeOK
<1>5. /\ log[k].pos + Len(Written(x)) <= inPos
      /\ \A j \in 1..Len(Written(x)) : buf[log[k].pos + j] = Written(x)[j]
  BY DEF LogBytes
<1>6. Len(Written(x)) = n
  BY <1>4, PackedType
<1>7. inPos = Len(buf) /\ Len(buf) \in Nat /\ outPos \in Nat
  BY DEF StreamTypeOK
<1>8. \A p \in 1..n : b[p] = buf[outPos + p]
  <2>1. n \in Nat
    BY <1>4, <1>6, PackedType
  <2>2. outPos + n <= Len(buf)
    BY <1>5, <1>6, <1>7
  <2>3. \A p \in 1..n : b[p] = IF outPos + p <= Len(buf) THEN buf[outPos + p] ELSE <<0, 0, 0>>
    BY DEF Stored
  <2> HIDE DEF n, b
  <2> QED
    BY <1>7, <2>1, <2>2, <2>3
<1>9. \A p \in 1..(Len(s) * m) : b[p] = Packed(s, m)[p]
  BY <1>4, <1>5, <1>6, <1>8
<1>10. \A g : Unpacked(b, Len(s), m, g) = s
  <2> HIDE DEF s, m, b
  <2> QED
    BY <1>4, <1>9, UnpackPacked
<1>11. n < Word /\ outPos + n <= inPos
  <2>1. n \in Nat
    BY <1>4, <1>6, PackedType
  <2>2. inPos < Word /\ Word \in Nat
    BY StreamAssumption DEF StreamTypeOK, StreamAssumption
  <2> HIDE DEF n
  <2> QED
    BY <1>5, <1>6, <1>7, <2>1, <2>2
<1>12. x.type \in PopTypes
  BY <1>2, PushValue
<1>13. Size(x.type) = n /\ Size(x.type) \div ReadSize(x.type) = Len(s)
  BY <1>3, <1>11, <1>12, SizeType
<1>14. \A g : Read(x.type, g) = s
  BY <1>3, <1>10, <1>13, Zenon DEF Read
<1> QED
  BY <1>2, <1>6, <1>11, <1>13, <1>14

\* The call of pop on top of the reader's stack is for the call of push at its
\* place.
LEMMA PopTop ==
  ASSUME StreamTypeOK, LogBytes, Follows, op = "pop"
  PROVE  LET E == log[Len(got) + 1]
             T == Head(calls).what
             n == Size(T)
         IN /\ mode = "binary" /\ Len(got) + 1 \in 1..Len(log)
            /\ Head(calls).at = Head(E.calls).at /\ T = Made(E).type /\ Made(E) \in PushValues
            /\ outPos = E.pos /\ n = Len(Written(Made(E))) /\ outPos + n <= inPos
            /\ \A g : Read(T, g) = Cells(Made(E))
            /\ E.calls \in CallsOn(PushValues) /\ E.calls # <<>> /\ calls = TypesOf(E.calls)
<1> DEFINE E == log[Len(got) + 1]
<1>1. /\ mode = "binary" /\ Len(got) + 1 \in 1..Len(log)
      /\ outPos = E.pos /\ calls = TypesOf(E.calls)
  BY DEF Follows, StreamTypeOK
<1>2. E.calls \in CallsOn(PushValues) /\ E.calls # <<>>
  <2>1. E \in LogEntry
    BY <1>1 DEF StreamTypeOK
  <2> QED
    BY <2>1 DEF LogEntry
<1>3. Head(calls) = [at |-> Head(E.calls).at, what |-> Made(E).type]
  BY <1>1, <1>2, TypesTop DEF Made
<1>4. Head(calls).at = Head(E.calls).at /\ Head(calls).what = Made(E).type
  BY <1>3
<1> HIDE DEF E
<1> QED
  BY <1>1, <1>2, <1>4, ReadBack DEF E

\* The bytes of the call of push are inside the buffer, and the sum of the
\* check does not wrap.
LEMMA PopInside ==
  ASSUME StreamTypeOK, StaysInside, LogBytes, Follows, op = "pop"
  PROVE  Fits(outPos, Size(Head(calls).what)) /\ ~Outside(Head(calls).what)
<1> DEFINE n == Size(Head(calls).what)
<1>1. mode = "binary" /\ outPos + n <= inPos
  BY PopTop
<1>2. Head(calls).what \in PopTypes
  BY TopCall DEF StreamTypeOK
<1>3. n \in Nat
  BY <1>2, SizeType
<1>4. /\ inPos <= bufLen /\ good /\ inPos \in Nat /\ bufLen \in Nat /\ outPos \in Nat
      /\ inPos < Word /\ Word \in Nat \ {0}
  BY <1>1, StreamAssumption DEF StaysInside, Follows, StreamTypeOK, StreamAssumption
<1> HIDE DEF n
<1>5. outPos + n \in Nat /\ outPos + n < Word /\ outPos + n <= bufLen
  BY <1>1, <1>3, <1>4
<1>6. (outPos + n) % Word = outPos + n
  BY <1>4, <1>5, Modulo
<1>7. (outPos + n) % Word <= bufLen /\ ~(outPos + n > bufLen)
  BY <1>4, <1>5, <1>6
<1> QED
  BY <1>4, <1>7 DEF Fits, Outside, n

\* No read fails.
LEMMA NoPopThrows ==
  ASSUME StreamTypeOK, StaysInside, LogBytes, Follows, PopThrows \/ PopWild
  PROVE  FALSE
BY PopInside DEF PopThrows, PopWild

\* What was written has room when it is read.
LEMMA NoResizeThrows ==
  ASSUME StreamTypeOK, LogBytes, Follows, NEW g \in Junk(Head(calls).what), ResizeThrows(g)
  PROVE  FALSE
<1> DEFINE X == Made(log[Len(got) + 1])
           T == Head(calls).what
           s == Read(T, g)
<1>1. op = "pop" /\ (Resized(T) \/ T.t = "sequence") /\ NoRoom(T, s[1])
  BY DEF ResizeThrows, Pops
<1>2. T = X.type /\ X \in PushValues /\ s = Cells(X) /\ mode = "binary"
  BY <1>1, PopTop
<1> HIDE DEF T, s, X
<1>3. X \in Values
  BY <1>1, <1>2 DEF PushValues, Resized, Array
<1>4. Cells(X) = <<Len(X.val)>>
  BY <1>1, <1>2 DEF Cells, Pushes, PushLength, Resized, Plain, Compound
<1>5. s[1] = Len(X.val) /\ (Text(T) \/ Container(T))
  BY <1>1, <1>2, <1>4 DEF Resized, Text, Container
<1>6. \A L \in Lengths \cup {0} : Asked(T, Len(X.val)) + L < Word
  BY <1>2, <1>3, <1>5, StreamAssumption DEF StreamAssumption
<1>7. (IF target = "memory" THEN bufLen ELSE 0) \in Lengths \cup {0}
  BY DEF StreamTypeOK
<1>8. Asked(T, Len(X.val)) \in Nat /\ Word \in Nat
  <2>1. Len(X.val) \in Nat
    BY <1>2, <1>5, PushValue DEF Typed
  <2>2. Text(T) => T.n \in Nat
    BY <1>2, PushValue, PopType DEF WellFormed
  <2>3. Text(T) => Len(X.val) * T.n \in Nat
    BY <2>1, <2>2, SMT
  <2> QED
    BY <2>1, <2>3, StreamAssumption DEF Asked, StreamAssumption
<1>9. Lengths \cup {0} \subseteq Nat
  BY StreamAssumption DEF StreamAssumption
<1> DEFINE L == IF target = "memory" THEN bufLen ELSE 0
           a == Asked(T, Len(X.val))
<1>10. L \in Nat /\ a + L < Word /\ a + L >= Word /\ a \in Nat
  BY <1>1, <1>5, <1>6, <1>7, <1>8, <1>9, Zenon DEF NoRoom
<1> HIDE DEF L, a
<1> QED
  BY <1>8, <1>10

\* The reader, while it makes a call.
LEMMA FollowsPop ==
  ASSUME StreamTypeOK, LogBytes, LogOrder, LogEnd, Follows, op = "pop",
         NEW v \in Junk(Head(calls).what), PopOne(v), NoChars'
  PROVE  Follows'
<1> DEFINE r == Len(got)
           E == log[Len(got) + 1]
           X == Made(E)
           T == Head(calls).what
           n == Size(T)
           s == Read(T, v)
           g == [at |-> Head(calls).at, type |-> T, cells |-> s]
           rest == Nested(Head(calls).at, PopParts(T, s)) \o Tail(calls)
<1>0. Pops(T, s)
  BY DEF PopOne
<1>1. /\ op = "pop" /\ outPos' = (outPos + n) % Word
      /\ good' = (good /\ (target = "memory" \/ outPos + n <= Len(buf)))
      /\ calls' = rest
      /\ IF rest = <<>> THEN op' = "idle" /\ popped' = Append(popped, TRUE)
                        ELSE UNCHANGED <<op, popped>>
      /\ UNCHANGED <<target, mode, bufLen, buf, inPos, pushed, broken, log>>
  BY DEF PopOne, Pops
<1>2. /\ mode = "binary" /\ r + 1 \in 1..Len(log)
      /\ Head(calls).at = Head(E.calls).at /\ T = X.type
      /\ outPos = E.pos /\ n = Len(Written(X)) /\ outPos + n <= inPos /\ s = Cells(X)
      /\ E.calls \in CallsOn(PushValues) /\ E.calls # <<>> /\ calls = TypesOf(E.calls)
  BY <1>1, PopTop
<1>3. /\ Len(log) \in Nat /\ Len(got) \in Nat /\ Len(popped) \in Nat /\ Whole \in Nat
      /\ inPos = Len(buf) /\ got \in Seq(GotEntry) /\ popped \in Seq(BOOLEAN)
  BY WholeType DEF StreamTypeOK
<1>5. g = Pushed(Head(E.calls))
  BY <1>2 DEF Pushed, Made
<1>6. /\ Len(got') = r + 1 /\ got'[r + 1] = g
      /\ \A k \in 1..r : got'[k] = got[k]
  BY <1>0, PopsType
<1>7. T.t # "chars"
  <2>1. g.type.t # "chars"
    BY <1>3, <1>6 DEF NoChars
  <2> QED
    BY <2>1
<1>8. rest = TypesOf(After(E)) /\ (rest = <<>> <=> After(E) = <<>>)
  <2>1. /\ Nested(Head(E.calls).at, PopParts(X.type, Cells(X))) \o Tail(TypesOf(E.calls)) = TypesOf(After(E))
        /\ Nested(Head(E.calls).at, PopParts(X.type, Cells(X))) \o Tail(TypesOf(E.calls)) = <<>>
             <=> After(E) = <<>>
    BY <1>2, <1>7, TypesFollow DEF Made, After
  <2> QED
    BY <1>2, <2>1
<1>9. \A y : Cells(y)' = Cells(y)
  BY <1>1, WrittenKept
<1>10. \A k \in 1..(r + 1) : got'[k] = Pushed(Head(log[k].calls))
  <2>1. ASSUME NEW k \in 1..(r + 1)
        PROVE  got'[k] = Pushed(Head(log[k].calls))
    <3>1. CASE k = r + 1
      BY <1>5, <1>6, <3>1
    <3>2. CASE k \in 1..r
      BY <1>6, <3>2 DEF Follows
    <3> QED
      BY <1>3, <3>1, <3>2
  <2> QED
    BY <2>1
<1>11. \A k \in 1..(r + 1) : got'[k] = Pushed(Head(log[k].calls))'
  BY <1>1, <1>9, <1>10 DEF Pushed
<1>12. /\ E.item = Len(popped) + 1 /\ Len(popped) < Whole
       /\ good /\ \A i \in 1..Len(popped) : popped[i]
  BY <1>1 DEF Follows
<1>13. outPos' = E.pos + Len(Written(X)) /\ good'
  <2>1. T \in PopTypes
    BY <1>0, PopsType
  <2>2. n \in Nat
    BY <2>1, SizeType
  <2>3. outPos \in Nat /\ inPos \in Nat /\ inPos < Word /\ Word \in Nat \ {0}
    BY <1>3, StreamAssumption DEF StreamTypeOK, StreamAssumption
  <2>4. outPos + n <= inPos /\ outPos = E.pos /\ n = Len(Written(X))
    BY <1>2
  <2> HIDE DEF n, E, X, T
  <2>5. outPos + n \in Nat /\ outPos + n < Word
    BY <2>2, <2>3, <2>4
  <2>6. (outPos + n) % Word = outPos + n
    BY <2>3, <2>5, Modulo
  <2>7. outPos + n <= Len(buf)
    BY <1>3, <2>4
  <2>8. good'
    BY <1>1, <1>12, <2>7
  <2> QED
    BY <1>1, <2>4, <2>6, <2>8
<1>14. /\ r + 1 < Len(log) => outPos' = log[r + 2].pos
       /\ ~(r + 1 < Len(log)) /\ broken = 0 => outPos' = inPos
  <2>1. /\ r + 1 < Len(log) => E.pos + Len(Written(X)) = log[(r + 1) + 1].pos
        /\ r + 1 = Len(log) /\ broken = 0 => E.pos + Len(Written(X)) = inPos
    BY <1>2 DEF LogBytes
  <2>2. (r + 1) + 1 = r + 2 /\ (~(r + 1 < Len(log)) => r + 1 = Len(log))
    BY <1>2, <1>3
  <2> QED
    BY <1>13, <2>1, <2>2
<1>15. op # "push" /\ op' # "push" /\ Whole' = Whole
  <2>1. op' # "push"
    BY <1>1
  <2> QED
    BY <1>1, <2>1 DEF Whole
<1>16. \A i : Root(i)' = Root(i)
  BY <1>1 DEF Root
<1> HIDE DEF r, E, X, T, n, s, g, rest
<1>17. r \in Nat /\ E = log[r + 1] /\ r = Len(got)
  BY <1>3 DEF r, E
<1>18. CASE After(E) = <<>>
  <2>1. op' = "idle" /\ popped' = Append(popped, TRUE)
    BY <1>1, <1>8, <1>18
  <2>2. /\ Len(popped') = Len(popped) + 1 /\ popped'[Len(popped) + 1] = TRUE
        /\ \A i \in 1..Len(popped) : popped'[i] = popped[i]
    BY <1>3, <2>1
  <2>3. \A i \in 1..Len(popped') : popped'[i]
    BY <1>3, <1>12, <2>2
  <2>4. ASSUME r + 1 < Len(log)
        PROVE  log[r + 2].item = Len(popped) + 2 /\ log[r + 2].calls = Root(Len(popped) + 2)
    <3>1. /\ r + 1 \in 1..(Len(log) - 1) /\ (r + 1) + 1 = r + 2
      BY <1>3, <1>17, <2>4
    <3>2. /\ log[r + 2].item = E.item + 1 /\ log[r + 2].calls = Root(E.item + 1)
      BY <1>17, <1>18, <3>1 DEF LogOrder
    <3>3. E.item + 1 = Len(popped) + 2
      BY <1>3, <1>12
    <3> QED
      BY <3>2, <3>3
  <2>5. ASSUME ~(r + 1 < Len(log))
        PROVE  Len(popped) + 1 = Whole
    <3>1. Len(log) = r + 1 /\ log # <<>>
      BY <1>2, <1>3, <1>17, <2>5
    <3> QED
      BY <1>12, <1>17, <1>18, <3>1 DEF LogEnd
  <2>6. /\ Len(got') <= Len(log) /\ Len(popped') <= Whole
        /\ got' # <<>> /\ Len(got') = r + 1 /\ log'[Len(got')] = E /\ E.item = Len(popped')
    BY <1>1, <1>2, <1>3, <1>6, <1>12, <1>17, <2>2
  <2>7. IF Len(got') < Len(log')
        THEN /\ log'[Len(got') + 1].item = Len(popped') + 1
             /\ log'[Len(got') + 1].pos = outPos'
             /\ log'[Len(got') + 1].calls = Root(Len(popped') + 1)
        ELSE Len(popped') = Whole /\ (broken = 0 => outPos' = inPos)
    <3>1. Len(got') + 1 = r + 2 /\ Len(popped') + 1 = Len(popped) + 2
      BY <1>3, <1>6, <1>17, <2>2
    <3> QED
      BY <1>1, <1>6, <1>14, <2>2, <2>4, <2>5, <3>1
  <2>8. After(log[Len(got)])' = <<>>
    BY <1>18, <2>6 DEF After, Made
  <2> QED
    BY <1>1, <1>6, <1>11, <1>13, <1>15, <1>16, <2>1, <2>3, <2>6, <2>7, <2>8 DEF Follows
<1>19. CASE After(E) # <<>>
  <2>1. op' = "pop" /\ popped' = popped /\ calls' = TypesOf(After(E))
    BY <1>1, <1>8, <1>19
  <2>2. r + 1 < Len(log)
    <3>1. SUFFICES ASSUME Len(log) = r + 1
                   PROVE  FALSE
      BY <1>2, <1>3, <1>17
    <3>2. log # <<>>
      BY <1>17, <3>1
    <3>3. E.item = Whole + 1
      BY <1>17, <1>19, <3>1, <3>2 DEF LogEnd
    <3> QED
      BY <1>3, <1>12, <3>3
  <2>3. log[r + 2].item = Len(popped) + 1 /\ log[r + 2].calls = After(E)
    <3>1. /\ r + 1 \in 1..(Len(log) - 1) /\ (r + 1) + 1 = r + 2
      BY <1>3, <1>17, <2>2
    <3> QED
      BY <1>12, <1>17, <1>19, <3>1 DEF LogOrder
  <2>4. Len(got') + 1 = r + 2 /\ Len(got') < Len(log)
    BY <1>6, <1>17, <2>2
  <2>5. calls' = TypesOf(log[r + 2].calls) /\ log[r + 2].pos = outPos'
    BY <1>14, <2>1, <2>2, <2>3
  <2>6. Len(got') <= Len(log')
    BY <1>1, <1>3, <1>6, <1>17, <2>4
  <2>7. calls' = TypesOf(log[Len(got) + 1].calls)'
    BY <1>1, <2>4, <2>5 DEF TypesOf
  <2> QED
    BY <1>1, <1>6, <1>11, <1>12, <1>13, <1>15, <2>1, <2>3, <2>4, <2>5, <2>6, <2>7 DEF Follows
<1> QED
  BY <1>18, <1>19

\* What is read is kept, so that a step that ends without char[N] began so.
LEMMA CharsStay ==
  ASSUME StreamTypeOK, StreamNext, NoChars'
  PROVE  NoChars
<1>1. ASSUME op = "pop", NEW g \in Junk(Head(calls).what), PopOne(g) \/ ResizeThrows(g)
      PROVE  NoChars
  <2>1. Pops(Head(calls).what, Read(Head(calls).what, g))
    BY <1>1 DEF PopOne, ResizeThrows
  <2>2. Len(got') = Len(got) + 1 /\ \A k \in 1..Len(got) : got'[k] = got[k]
    BY <1>1, <2>1, PopsType
  <2>3. Len(got) \in Nat
    BY DEF StreamTypeOK
  <2> QED
    BY <2>2, <2>3 DEF NoChars
<1>2. CASE got' = got
  BY <1>2 DEF NoChars
<1> QED
  BY <1>1, <1>2 DEF StreamNext, OperatorIn, PushThrows, PushOne, OperatorOut, PopThrows, PopWild

\* A value that was not pushed whole stays popped.
LEMMA TornStays ==
  ASSUME StreamNext, ~torn'
  PROVE  ~torn
BY Zenon DEF StreamNext, OperatorIn, PushThrows, PushOne, OperatorOut, PopOne, ResizeThrows, Pops,
             PopThrows, PopWild

\* The log in every step.
LEMMA LogStep ==
  ASSUME StreamTypeOK, LogBytes, LogOrder, LogEnd, StreamNext
  PROVE  LogBytes' /\ LogOrder' /\ LogEnd'
<1>1. ASSUME NEW x \in Pushable, OperatorIn(x)
      PROVE  LogBytes' /\ LogOrder' /\ LogEnd'
  BY <1>1, LogBegins
<1>2. CASE PushOne
  BY <1>2, LogGrows, LogFrozen
<1>3. CASE PushThrows
  <2>1. /\ UNCHANGED <<mode, buf, inPos, pushed, log>> /\ op' # "push"
        /\ op = "push" /\ broken' = (IF broken = 0 THEN Len(pushed) ELSE broken)
    BY <1>3 DEF PushThrows
  <2>2. Whole' = Whole /\ broken' # 0
    <3>1. Len(pushed) \in Nat /\ Len(pushed) > 0
      BY <2>1 DEF StreamTypeOK
    <3> QED
      BY <2>1, <3>1 DEF Whole
  <2> QED
    BY <2>1, <2>2, LogKept
<1>4. CASE \/ OperatorOut \/ PopThrows \/ PopWild
           \/ \E g \in Junk(Head(calls).what) : PopOne(g) \/ ResizeThrows(g)
  <2>1. /\ UNCHANGED <<mode, buf, inPos, pushed, log, broken>> /\ op' # "push" /\ op # "push"
    BY <1>4 DEF OperatorOut, PopOne, ResizeThrows, Pops, PopThrows, PopWild
  <2>2. Whole' = Whole
    BY <2>1 DEF Whole
  <2> QED
    BY <2>1, <2>2, LogKept
<1> QED
  BY <1>1, <1>2, <1>3, <1>4 DEF StreamNext

\* The reader in every step.
LEMMA FollowsStep ==
  ASSUME StreamTypeOK, StaysInside, LogBytes, LogOrder, LogEnd, Follows, NoChars', ~torn', StreamNext
  PROVE  Follows'
<1>1. ASSUME NEW x \in Pushable, OperatorIn(x)
      PROVE  Follows'
  BY <1>1, FollowsIn
<1>2. CASE PushOne
  BY <1>2, FollowsPush, FollowsFrozen
<1>3. CASE PushThrows
  BY <1>3, FollowsThrow
<1>4. CASE OperatorOut
  BY <1>4, FollowsOut
<1>5. ASSUME op = "pop", NEW g \in Junk(Head(calls).what), PopOne(g) \/ ResizeThrows(g)
      PROVE  Follows'
  BY <1>5, FollowsPop, NoResizeThrows
<1>6. CASE PopThrows \/ PopWild
  BY <1>6, NoPopThrows
<1> QED
  BY <1>1, <1>2, <1>3, <1>4, <1>5, <1>6 DEF StreamNext

-----------------------------------------------------------------------------
(* The invariant holds                                                     *)

\* The invariant holds of an empty stream.
LEMMA StreamBegins ==
  ASSUME StreamInit
  PROVE  StreamInv
<1>1. /\ mode \in {"binary", "text"} /\ bufLen \in Nat
      /\ buf = <<>> /\ inPos = 0 /\ outPos = 0 /\ good = TRUE
      /\ op = "idle" /\ pushed = <<>> /\ broken = 0 /\ popped = <<>> /\ torn = FALSE
      /\ log = <<>> /\ got = <<>>
      /\ bufLen < Word /\ 0 < Word /\ (target = "memory" => bufLen \in Lengths)
      /\ target = "file" \/ target = "memory"
  <2>1. /\ Word \in Nat /\ LenSize \in Nat /\ LenSize < Word /\ Lengths \subseteq Nat
        /\ \A L \in Lengths : LenSize + L < Word
    BY StreamAssumption DEF StreamAssumption
  <2> QED
    BY <2>1 DEF StreamInit
<1>2. StreamTypeOK
  <2>1. <<>> \in Seq(Bytes) /\ <<>> \in Seq(Items) /\ <<>> \in Seq(BOOLEAN) /\ Len(<<>>) = 0
    OBVIOUS
  <2>2. <<>> \in Seq(LogEntry) /\ <<>> \in Seq(GotEntry)
    OBVIOUS
  <2>3. 0 \in Nat /\ 0 <= Len(<<>>)
    OBVIOUS
  <2> QED
    BY <1>1, <2>1, <2>2, <2>3, Zenon DEF StreamTypeOK
<1>3. Whole = 0
  BY <1>1 DEF Whole
<1>4. LogBytes /\ LogOrder /\ LogEnd
  BY <1>1, <1>3 DEF LogBytes, LogOrder, LogEnd
<1>5. OnTop /\ StaysInside /\ Follows
  BY <1>1, <1>3 DEF OnTop, StaysInside, Follows
<1> QED
  BY <1>2, <1>4, <1>5 DEF StreamInv

\* Every step of the streams keeps it.
LEMMA StreamStep ==
  ASSUME StreamInv, StreamNext
  PROVE  StreamInv'
<1>1. /\ StreamTypeOK /\ OnTop /\ StaysInside /\ LogBytes /\ LogOrder /\ LogEnd
      /\ NoChars /\ ~torn => Follows
  BY DEF StreamInv
<1>2. StreamTypeOK'
  BY <1>1, StreamTyped
<1>3. OnTop' /\ StaysInside'
  BY <1>1, StackStep, StreamInside
<1>4. LogBytes' /\ LogOrder' /\ LogEnd'
  BY <1>1, LogStep
<1>5. ASSUME NoChars', ~torn'
      PROVE  Follows'
  <2>1. Follows
    BY <1>1, <1>5, CharsStay, TornStays
  <2> QED
    BY <1>1, <1>5, <2>1, FollowsStep
<1> QED
  BY <1>2, <1>3, <1>4, <1>5 DEF StreamInv

\* What was written so far is where the reader will look for it, in every
\* reachable state of serialize_t.
THEOREM StreamInvariance == StreamSpec => []StreamInv
<1>1. StreamInit => StreamInv
  BY StreamBegins
<1>2. StreamInv /\ [StreamNext]_streamVars => StreamInv'
  <2>1. ASSUME StreamInv, UNCHANGED streamVars
        PROVE  StreamInv'
    <3>1. UNCHANGED <<target, mode, bufLen, buf, inPos, outPos, good, op, calls,
                      pushed, broken, popped, torn, log, got>>
      BY <2>1 DEF streamVars
    <3>2. Whole' = Whole
      BY <3>1 DEF Whole
    <3>3. StreamTypeOK' /\ StaysInside' /\ LogOrder' /\ LogEnd'
      BY <2>1, <3>1, <3>2 DEF StreamInv, StreamTypeOK, StaysInside, NoRoom, LogOrder, LogEnd, Root
    <3>4. LogBytes'
      <4>1. \A x : Written(x)' = Written(x)
        BY <3>1, WrittenKept
      <4> QED
        BY <2>1, <3>1, <4>1 DEF StreamInv, LogBytes
    <3>5. (NoChars /\ ~torn => Follows)'
      <4>1. \A x : Cells(x)' = Cells(x)
        BY <3>1, WrittenKept
      <4> QED
        BY <2>1, <3>1, <3>2, <4>1 DEF StreamInv, NoChars, Follows, Pushed, Root
    <3>6. OnTop'
      BY <2>1, <3>1 DEF StreamInv, OnTop, Announced, NoRoom
    <3> QED
      BY <3>3, <3>4, <3>5, <3>6 DEF StreamInv
  <2> QED
    BY <2>1, StreamStep
<1> QED
  BY <1>1, <1>2, PTL DEF StreamSpec

\* binary_in_t never writes past buffer_length(), and binary_out_t never reads
\* past it, whatever was pushed and whatever the bytes say, but for a char[N] or
\* a char * whose length came out so near 2^32 that the check's sum wraps: the
\* other reads are no longer than an object that exists beside the buffer.
THEOREM StreamsStayInside == StreamSpec => []StaysInside
<1>1. StreamInv => StaysInside
  BY DEF StreamInv
<1> QED
  BY <1>1, StreamInvariance, PTL

\* For values of any types, whatever the buffer, wherever a push threw and
\* whatever was pushed after it: each pop of binary_out_t is for the part of the
\* value the push at its place was for, and reads what that wrote; none throws
\* or leaves the buffer, and the two end together.
THEOREM ReadBackAsWritten == StreamSpec => []RoundTrip
<1>1. ASSUME StreamInv
      PROVE  RoundTrip
  <2>1. /\ StreamTypeOK /\ LogOrder /\ LogEnd /\ (NoChars /\ ~torn => Follows)
        /\ got \in Seq(GotEntry) /\ popped \in Seq(BOOLEAN) /\ log \in Seq(LogEntry)
    BY <1>1 DEF StreamInv, StreamTypeOK
  <2>2. SUFFICES ASSUME NoChars, ~torn
                 PROVE  /\ op # "wild"
                        /\ \A i \in DOMAIN popped : popped[i]
                        /\ Len(got) <= Len(log)
                        /\ \A k \in DOMAIN got : got[k] = Pushed(Head(log[k].calls))
                        /\ op = "idle" /\ Len(popped) = Whole /\ broken = 0
                             => Len(got) = Len(log) /\ outPos = inPos
    <3>1. DOMAIN got = 1..Len(got)
      BY <2>1
    <3> QED
      BY <3>1 DEF RoundTrip, NoChars
  <2>3. Follows
    BY <2>1, <2>2
  <2>4. /\ op # "wild"
        /\ \A i \in DOMAIN popped : popped[i]
        /\ Len(got) <= Len(log)
        /\ \A k \in DOMAIN got : got[k] = Pushed(Head(log[k].calls))
    <3>1. DOMAIN got = 1..Len(got) /\ DOMAIN popped = 1..Len(popped)
      BY <2>1
    <3> QED
      BY <2>3, <3>1 DEF Follows
  <2>5. ASSUME op = "idle", Len(popped) = Whole, broken = 0
        PROVE  Len(got) = Len(log) /\ outPos = inPos
    <3>1. Whole = Len(pushed) /\ Len(pushed) \in Nat /\ Len(got) \in Nat /\ Len(log) \in Nat
      BY <2>1, <2>5 DEF Whole, StreamTypeOK
    <3>2. ~(Len(got) < Len(log))
      <4>1. SUFFICES ASSUME Len(got) < Len(log)
                     PROVE  FALSE
        OBVIOUS
      <4>2. log[Len(got) + 1].item = Len(pushed) + 1
        BY <2>3, <2>5, <3>1, <4>1 DEF Follows
      <4>3. log[Len(got) + 1].item \in 1..Len(pushed)
        BY <2>1, <3>1, <4>1 DEF LogOrder
      <4> QED
        BY <3>1, <4>2, <4>3
    <3>3. outPos = inPos
      BY <2>3, <2>5, <3>2 DEF Follows
    <3> QED
      BY <2>4, <3>1, <3>2, <3>3
  <2> QED
    BY <2>4, <2>5
<1> QED
  BY <1>1, StreamInvariance, PTL
==============================================================================
