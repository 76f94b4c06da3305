---------------------------- MODULE FileTransfer ----------------------------
(***************************************************************************)
(* Composed transfers of a file from an offset on: read() and write() of   *)
(* service/read.hpp and write.hpp that take an offset, which loop over the *)
(* blocking calls of a file object (async_io/file/file.cpp), and           *)
(* read_offset_handler_t and write_offset_handler_t, which start the next  *)
(* piece from the completion of the last one.                              *)
(*                                                                         *)
(* Several threads share one file object.  A blocking call sets the file   *)
(* pointer and then reads or writes there: two steps.  An asynchronous one *)
(* carries its offset, and wants a handle opened for overlapped access, on *)
(* which the blocking calls fail.                                          *)
(***************************************************************************)
EXTENDS Naturals, Sequences

CONSTANTS
  Callers,       \* threads that share the file object, one transfer each
  MaxAt,         \* bound: offset of a transfer
  MaxBuffer      \* bound: size of a buffer, and of the file at the start

VARIABLES
  forOverlapped, \* how the file was opened
  access,        \* "read" or "write"
  at, length,    \* offset and size of the buffer
  wanted,        \* what the condition returns; MaxBuffer: as much or more, as transfer_all
  stage,         \* where the transfer stands
  moved,         \* place in the file of each byte of the buffer so far
  pieces,        \* calls so far, 2 for more than one (history)
  crossed,       \* another call moved the file pointer after Seek (history)
  pointer,       \* the file pointer
  len,           \* size of the file
  opened         \* is_open()

fileConf == <<forOverlapped, access, at, length, wanted>>
fileVars == <<fileConf, stage, moved, pieces, crossed, pointer, len, opened>>

FileOver == {"returned", "thrown", "told", "hollow"}

FileFresh ==
  /\ forOverlapped \in BOOLEAN
  /\ access \in [Callers -> {"read", "write"}]
  /\ at \in [Callers -> 0..MaxAt]
  /\ length \in [Callers -> 1..MaxBuffer]
  /\ wanted \in [Callers -> 0..MaxBuffer]
  /\ moved = [c \in Callers |-> <<>>]
  /\ pieces = [c \in Callers |-> 0]
  /\ crossed = [c \in Callers |-> FALSE]
  /\ pointer = 0
  /\ len \in 0..MaxBuffer
  /\ opened = TRUE

FileInit == FileFresh /\ stage = [c \in Callers |-> "loop"]

Passes(c, from, to) == stage[c] = from /\ stage' = [stage EXCEPT ![c] = to]

\* transfers
Transferred(c) == Len(moved[c])

\* The lengths a call at the place can transfer to or from buffer + transfers:
\* some bytes, but none at the end of the file.
Room(c, place) ==
  {n \in 0..(length[c] - Transferred(c)) : access[c] = "write" \/ n = 0 \/ place + n <= len}
Lengths(c, place) == IF Room(c, place) = {0} THEN {0} ELSE Room(c, place) \ {0}

\* The system transfers n bytes at the place; a write may extend the file.
Move(c, place, n) ==
  /\ moved' = [moved EXCEPT ![c] = @ \o [k \in 1..n |-> place + k - 1]]
  /\ len' = IF access[c] = "write" /\ place + n > len THEN place + n ELSE len
  /\ pieces' = [pieces EXCEPT ![c] = IF @ < 2 THEN @ + 1 ELSE @]

-----------------------------------------------------------------------------
(* read() and write()                                                      *)

\* The while loop; both ask with <=.
LoopsOn(c) == Transferred(c) <= wanted[c] /\ Transferred(c) < length[c]

\* Those that have set the pointer and not used it yet.
Cross(c) == crossed' = [d \in Callers |-> crossed[d] \/ (d # c /\ stage[d] = "seeked")]

\* Mutant: the pointer is left where the last call moved it.
SeekNothing(c) ==
  /\ ~forOverlapped /\ opened /\ LoopsOn(c)
  /\ Passes(c, "loop", "seeked")
  /\ UNCHANGED <<fileConf, moved, pieces, crossed, pointer, len, opened>>

\* s.read(buffer + transfers, offset): SetFilePointerEx() to the offset the whole
\* transfer was given.
Seek(c) ==
  /\ ~forOverlapped /\ opened /\ LoopsOn(c)
  /\ Passes(c, "loop", "seeked")
  /\ pointer' = at[c]
  /\ Cross(c)
  /\ UNCHANGED <<fileConf, moved, pieces, len, opened>>

\* Mutant: the end of the file does not close it.
ReadWriteOn(c) ==
  /\ opened
  /\ Passes(c, "seeked", "loop")
  /\ \E n \in Lengths(c, pointer) : Move(c, pointer, n) /\ pointer' = pointer + n
  /\ Cross(c)
  /\ UNCHANGED <<fileConf, opened>>

\* ReadFile() or WriteFile() at the pointer; the file is closed, for everyone,
\* when nothing came.
ReadWrite(c) ==
  /\ opened
  /\ Passes(c, "seeked", "loop")
  /\ \E n \in Lengths(c, pointer) :
       Move(c, pointer, n) /\ pointer' = pointer + n /\ opened' = (n # 0)
  /\ Cross(c)
  /\ UNCHANGED fileConf

\* Either system call fails, as both do once the file is closed, or the first
\* asynchronous piece cannot be started.
Throws(c) ==
  /\ LoopsOn(c)
  /\ Passes(c, "loop", "thrown") \/ Passes(c, "seeked", "thrown")
  /\ UNCHANGED <<fileConf, moved, pieces, crossed, pointer, len, opened>>

LoopEnds(c) ==
  /\ ~forOverlapped /\ ~LoopsOn(c)
  /\ Passes(c, "loop", "returned")
  /\ UNCHANGED <<fileConf, moved, pieces, crossed, pointer, len, opened>>

-----------------------------------------------------------------------------
(* async_read() and async_write()                                          *)

\* The first piece, and every later one: the rest of the buffer, at the offset
\* the whole transfer was given.
StartPiece(c) ==
  /\ forOverlapped
  /\ Passes(c, "loop", "pending") \/ Passes(c, "next", "pending")
  /\ UNCHANGED <<fileConf, moved, pieces, crossed, pointer, len, opened>>

\* operator(): the count is added; it goes on or calls the handler.
PieceDone(c) ==
  /\ \E n \in Lengths(c, at[c]) \cup {0} :
       /\ Move(c, at[c], n)
       /\ IF n # 0 /\ Transferred(c) + n < length[c] /\ Transferred(c) + n < wanted[c]
            THEN Passes(c, "pending", "next")
            ELSE Passes(c, "pending", "told")
  /\ UNCHANGED <<fileConf, crossed, pointer, opened>>

\* The next piece cannot be started: the handler called then was moved from.
PieceThrows(c) ==
  /\ Passes(c, "next", "hollow")
  /\ UNCHANGED <<fileConf, moved, pieces, crossed, pointer, len, opened>>

Caller(c) ==
  \/ Seek(c) \/ ReadWrite(c) \/ Throws(c) \/ LoopEnds(c)
  \/ StartPiece(c) \/ PieceDone(c) \/ PieceThrows(c)

FileNext == \E c \in Callers : Caller(c)

FileSpec == FileInit /\ [][FileNext]_fileVars

\* Threads run, and the system completes what it has accepted.
FileFairness == \A c \in Callers : WF_fileVars(Caller(c))

-----------------------------------------------------------------------------
(* Properties                                                              *)

\* A transfer never leaves its part of the file or its buffer, however it is cut
\* into pieces and whatever other threads do to the file: byte k is one of the k
\* bytes from the offset on, and the k-th of them while one call is enough.  Only
\* a blocking call that fell between the two system calls of another may have
\* sent that one elsewhere.
InItsPart ==
  \A c \in Callers : crossed[c] \/
    \A k \in 1..Transferred(c) :
      /\ k <= length[c]
      /\ moved[c][k] \in at[c]..(at[c] + k - 1)
      /\ pieces[c] = 1 => moved[c][k] = at[c] + k - 1

\* Every transfer ends: the loop does not turn for ever at the end of the file,
\* nor after another thread's loop closed the file.
TransfersEnd == \A c \in Callers : <>(stage[c] \in FileOver)
=============================================================================
