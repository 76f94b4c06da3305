---------------------------- MODULE FileMonitor ----------------------------
(***************************************************************************)
(* The directory monitor (async_io/file/file_monitor.hpp and .cpp and the  *)
(* hooks in async_io/file/detail).                                         *)
(*                                                                         *)
(* monitor() hands the system one request with a buffer.  Between requests *)
(* the system keeps the changes of an open handle in a buffer of its own   *)
(* and, when that overflows, completes the next request with no bytes.     *)
(* The callback of a request asks for the next one and then reports its    *)
(* own changes, so that the callbacks of two requests run side by side.    *)
(***************************************************************************)
EXTENDS Naturals, Sequences, FiniteSets, SequencesExt

CONSTANTS
  MaxChanges,    \* bound: changes in the directory
  MaxRequests,   \* bound: calls of ReadDirectoryChangesW
  BufferLen      \* changes the system's buffer takes

ASSUME MonitorAssumption == MaxChanges \in Nat /\ MaxRequests \in Nat /\ BufferLen \in Nat

Requests == 1..MaxRequests

VARIABLES
  isOpen,        \* is_open()
  destroyed,     \* the monitor object is gone
  changes,       \* changes made so far, numbered
  kept,          \* changes the system keeps for the handle
  overflowed,    \* more changes than it can keep
  asked,         \* requests made so far
  req,           \* where each request stands
  batch,         \* changes each request brought
  missed,        \* changes nobody will report (history)
  skipped,       \* those a throwing handler left in its batch (history)
  reported,      \* changes in the order they were reported
  ended          \* why monitoring ended: "no", "closed", "overflow", "throw"

monitorVars == <<isOpen, destroyed, changes, kept, overflowed, asked, req, batch,
          missed, skipped, reported, ended>>

MonitorInit ==
  /\ isOpen \in BOOLEAN   \* the constructors with and without a path
  /\ destroyed = FALSE
  /\ changes = 0 /\ kept = <<>> /\ overflowed = FALSE
  /\ asked = 0
  /\ req = [r \in Requests |-> "none"]
  /\ batch = [r \in Requests |-> <<>>]
  /\ missed = {} /\ skipped = {} /\ reported = <<>>
  /\ ended = "no"

\* open(); the application opens and starts to monitor once.
Open ==
  /\ ~isOpen /\ ~destroyed /\ asked = 0
  /\ isOpen' = TRUE
  /\ UNCHANGED <<destroyed, changes, kept, overflowed, asked, req, batch,
                 missed, skipped, reported, ended>>

Waiting == {r \in Requests : req[r] = "waiting"}

\* ReadDirectoryChangesW(): the request waits in the system.
Ask ==
  /\ asked < MaxRequests
  /\ asked' = asked + 1
  /\ req' = [req EXCEPT ![asked + 1] = "waiting"]

\* monitor(), called by the application.
Monitor ==
  /\ isOpen /\ ~destroyed /\ asked = 0
  /\ Ask
  /\ UNCHANGED <<isOpen, destroyed, changes, kept, overflowed, batch, missed,
                 skipped, reported, ended>>

\* Something changes; the system keeps it from the first request on.
Change ==
  /\ changes < MaxChanges /\ isOpen /\ asked > 0
  /\ changes' = changes + 1
  /\ IF Len(kept) < BufferLen /\ ~overflowed
     THEN kept' = Append(kept, changes + 1) /\ UNCHANGED <<overflowed, missed>>
     ELSE /\ overflowed' = TRUE /\ kept' = <<>>
          /\ missed' = missed \cup ToSet(kept) \cup {changes + 1}
  /\ UNCHANGED <<isOpen, destroyed, asked, req, batch, skipped, reported, ended>>

\* The system completes a request: with what it keeps, or with no bytes.
CompleteRequest(r) ==
  /\ r \in Waiting /\ (kept # <<>> \/ overflowed)
  /\ req' = [req EXCEPT ![r] = "queued"]
  /\ batch' = [batch EXCEPT ![r] = kept]
  /\ kept' = <<>> /\ overflowed' = FALSE
  /\ UNCHANGED <<isOpen, destroyed, changes, asked, missed, skipped, reported, ended>>

\* close(), and the destructor: the handle is closed, waiting requests
\* complete with no bytes and what the system kept is gone.
CloseMonitor ==
  /\ isOpen
  /\ isOpen' = FALSE
  /\ destroyed' \in {destroyed, TRUE}
  /\ req' = [r \in Requests |-> IF r \in Waiting THEN "queued" ELSE req[r]]
  /\ missed' = missed \cup ToSet(kept)
  /\ kept' = <<>> /\ overflowed' = FALSE
  /\ ended' = IF ended = "no" THEN "closed" ELSE ended
  /\ UNCHANGED <<changes, asked, batch, skipped, reported>>

\* The hook is called with no bytes: it returns and asks for nothing.
HookEmpty(r) ==
  /\ req[r] = "queued" /\ batch[r] = <<>>
  /\ req' = [req EXCEPT ![r] = "freed"]
  /\ ended' = IF ended = "no" THEN "overflow" ELSE ended
  /\ UNCHANGED <<isOpen, destroyed, changes, kept, overflowed, asked, batch,
                 missed, skipped, reported>>

\* Mutant: the hook asks with its own buffer again before it has read it.
HookAskSameBuffer(r) ==
  /\ req[r] = "queued" /\ batch[r] # <<>> /\ isOpen
  /\ req' = [req EXCEPT ![r] = "waiting"]
  /\ batch' = [batch EXCEPT ![r] = <<>>]
  /\ UNCHANGED <<isOpen, destroyed, changes, kept, overflowed, asked, missed,
                 skipped, reported, ended>>

\* The hook is called with changes: it asks for the next ones first.
HookAsk(r) ==
  /\ req[r] = "queued" /\ batch[r] # <<>>
  /\ isOpen
  /\ asked < MaxRequests
  /\ asked' = asked + 1
  /\ req' = [req EXCEPT ![asked + 1] = "waiting", ![r] = "reporting"]
  /\ UNCHANGED <<isOpen, destroyed, changes, kept, overflowed, batch, missed,
                 skipped, reported, ended>>

\* monitor() throws, because the handle is closed or the call fails: the
\* changes the hook was called with are not reported and the callback, which
\* is deleted only after the hook has returned, leaks.
HookThrows(r) ==
  /\ req[r] = "queued" /\ batch[r] # <<>>
  /\ req' = [req EXCEPT ![r] = "leaked"]
  /\ missed' = missed \cup ToSet(batch[r])
  /\ ended' = IF ended = "no" THEN "throw" ELSE ended
  /\ UNCHANGED <<isOpen, destroyed, changes, kept, overflowed, asked, batch,
                 skipped, reported>>

\* The loop over the entries: the handler is called for the next one.
Report(r) ==
  /\ req[r] = "reporting" /\ batch[r] # <<>>
  /\ reported' = Append(reported, Head(batch[r]))
  /\ batch' = [batch EXCEPT ![r] = Tail(@)]
  /\ UNCHANGED <<isOpen, destroyed, changes, kept, overflowed, asked, req,
                 missed, skipped, ended>>

\* The handler throws for the next entry: the loop is left, the entries behind
\* it are not reported and the callback leaks; the next request goes on waiting.
ReportThrows(r) ==
  /\ req[r] = "reporting" /\ batch[r] # <<>>
  /\ reported' = Append(reported, Head(batch[r]))
  /\ req' = [req EXCEPT ![r] = "leaked"]
  /\ missed' = missed \cup ToSet(Tail(batch[r]))
  /\ skipped' = skipped \cup ToSet(Tail(batch[r]))
  /\ UNCHANGED <<isOpen, destroyed, changes, kept, overflowed, asked, batch, ended>>

\* NextEntryOffset == 0: the hook returns and the request is deleted.
HookReturns(r) ==
  /\ req[r] = "reporting" /\ batch[r] = <<>>
  /\ req' = [req EXCEPT ![r] = "freed"]
  /\ UNCHANGED <<isOpen, destroyed, changes, kept, overflowed, asked, batch,
                 missed, skipped, reported, ended>>

Hook(r) == \/ HookEmpty(r) \/ HookAsk(r) \/ HookThrows(r)
           \/ Report(r) \/ ReportThrows(r) \/ HookReturns(r)

MonitorNext == Open \/ Monitor \/ Change \/ CloseMonitor \/ \E r \in Requests : CompleteRequest(r) \/ Hook(r)

MonitorSpec == MonitorInit /\ [][MonitorNext]_monitorVars

-----------------------------------------------------------------------------
(* Properties *)

\* Until monitoring ends (the handle is closed, the system's buffer overflowed,
\* asking again failed) a request waits or a callback that will ask for one is
\* on its way, although the callbacks of several requests run side by side.
StillWatching ==
  (isOpen /\ asked > 0 /\ ended = "no") =>
     \E r \in Requests : req[r] \in {"waiting", "queued"}

\* Every change is reported once, or is on its way in one place, or is missed.
\* One is missed while monitoring goes on only behind an entry of the same batch
\* for which the user's handler threw; otherwise the system's buffer overflowed,
\* the handle was closed or asking again failed, which ends monitoring.
EachChangeOnce ==
  /\ missed \ skipped # {} => ended # "no" \/ overflowed \/ \E r \in Requests : req[r] = "queued" /\ batch[r] = <<>>
  /\ \A c \in 1..changes :
       LET times == Cardinality({i \in DOMAIN reported : reported[i] = c})
                   + (IF c \in ToSet(kept) THEN 1 ELSE 0)
                   + (IF \E r \in Requests : req[r] \in {"queued", "reporting"} /\ c \in ToSet(batch[r])
                      THEN 1 ELSE 0)
       IN  times = IF c \in missed THEN 0 ELSE 1

\* The monitor watches until it ends, and unless a handler throws it loses no
\* change without ending: what the hooks of file_change_callback promise together.
Watches == StillWatching /\ EachChangeOnce
=============================================================================
