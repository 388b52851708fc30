--------------------------- MODULE BlockingHandle ----------------------------
(***************************************************************************)
(* The reading or writing of a Windows handle that only has blocking I/O   *)
(* (lib/rstream/core/windows/blocking_handle.cpp, with cancel_and_join of  *)
(* detail/cancel_io.hpp): one worker thread does the system calls; close   *)
(* and the cancellation of an operation stop it from other threads.  A     *)
(* section under m_mutex is one step, with the notification that follows   *)
(* it: the predicate that is waited for is true from then on.              *)
(***************************************************************************)
EXTENDS Naturals, FiniteSets

CONSTANTS
  IoOps,      \* operations, each submitted at most once
  Closers,    \* the threads that close or cancel
  MaxOpens,
  NoIo

VARIABLES
  bh,       \* the object: [running, handle, access, pending, active, opens]
  worker,   \* the thread: [at, op, handle, left, outcome]
  native,   \* the duplicated handles that are open: each named by its open, from 1
  io,       \* the operations: [type, state, result]
  closer    \* per closing thread: [at, handle, pending]

bhVars == <<bh, worker, native, io, closer>>

Types == {"read", "write"}
Size  == 2    \* of the buffer of a write, so that it can be written in parts

Init ==
  /\ bh = [running |-> FALSE, handle |-> 0, access |-> "read", pending |-> NoIo, active |-> NoIo, opens |-> 0]
  /\ worker = [at |-> "none", op |-> NoIo, handle |-> 0, left |-> 0, outcome |-> "none"]
  /\ native = {}
  /\ io = [o \in IoOps |-> [type |-> "read", state |-> "new", result |-> "none"]]
  /\ closer = [c \in Closers |-> [at |-> "idle", handle |-> 0, pending |-> NoIo]]

Alive == worker.at # "terminated"   \* the process
Joinable == worker.at # "none"
CloseMutexFree == \A c \in Closers : closer[c].at \in {"idle", "called"}

Completed(ops, o, result) ==
  IF o = NoIo THEN ops ELSE [ops EXCEPT ![o].state = IF @ = "submitted" THEN "done" ELSE "twice", ![o].result = result]

Notified(w) == IF w.at = "asleep" THEN [w EXCEPT !.at = "check"] ELSE w

(* open: it does not take m_close_mutex.  While a close has yet to join the worker,
   the new thread is assigned to a joinable one: std::terminate ends the process. *)
Open(access) ==
  /\ Alive /\ bh.opens < MaxOpens
  /\ ~bh.running /\ bh.handle = 0
  /\ bh' = [bh EXCEPT !.running = TRUE, !.handle = bh.opens + 1, !.access = access, !.opens = @ + 1]
  /\ native' = native \cup {bh.opens + 1}
  /\ worker' = [worker EXCEPT !.at = IF Joinable THEN "terminated" ELSE "check"]
  /\ closer' = IF Joinable THEN [c \in Closers |-> [closer[c] EXCEPT !.at = "terminated"]] ELSE closer
  /\ UNCHANGED io

(* async_read_some and async_write: submit *)
Submit(o, type) ==
  /\ Alive /\ io[o].state = "new"
  /\ LET ops == [io EXCEPT ![o].state = "submitted", ![o].type = type] IN
     IF ~bh.running \/ bh.handle = 0 THEN io' = Completed(ops, o, "bad_descriptor") /\ UNCHANGED <<bh, worker>>
     ELSE IF bh.access # type THEN io' = Completed(ops, o, "not_supported") /\ UNCHANGED <<bh, worker>>
     ELSE IF bh.pending # NoIo \/ bh.active # NoIo THEN io' = Completed(ops, o, "already_started") /\ UNCHANGED <<bh, worker>>
     ELSE io' = ops /\ bh' = [bh EXCEPT !.pending = o] /\ worker' = Notified(worker)
  /\ UNCHANGED <<native, closer>>

-----------------------------------------------------------------------------
(* The worker thread: run *)

WorkerTakes ==
  /\ worker.at = "check"
  /\ IF ~bh.running THEN worker' = [worker EXCEPT !.at = "exited"] /\ UNCHANGED bh
     ELSE IF bh.pending = NoIo THEN worker' = [worker EXCEPT !.at = "asleep"] /\ UNCHANGED bh
     ELSE /\ worker' = [at |-> "enter", op |-> bh.pending, handle |-> bh.handle, outcome |-> "none", left |-> Size]
          /\ bh' = [bh EXCEPT !.active = bh.pending, !.pending = NoIo]
  /\ UNCHANGED <<native, io, closer>>

(* the system call is entered *)
WorkerEnters ==
  /\ worker.at = "enter"
  /\ worker' = [worker EXCEPT !.at = "blocked"]
  /\ UNCHANGED <<bh, native, io, closer>>

(* the system call returns; a write goes on until everything is written *)
WorkerReturns ==
  /\ worker.at = "blocked"
  /\ \/ \E e \in {"error", "end"} : worker' = [worker EXCEPT !.at = "returned", !.outcome = e]
     \/ io[worker.op].type = "read" /\ worker' = [worker EXCEPT !.at = "returned", !.outcome = "ok"]
     \/ /\ io[worker.op].type = "write"
        /\ \E n \in 1..worker.left :
             worker' = [worker EXCEPT !.left = @ - n, !.at = IF n = worker.left THEN "returned" ELSE "enter", !.outcome = "ok"]
  /\ UNCHANGED <<bh, native, io, closer>>

WorkerFinishes ==
  /\ worker.at = "returned"
  /\ bh' = [bh EXCEPT !.active = NoIo]
  /\ worker' = [worker EXCEPT !.at = "complete", !.outcome = IF bh.running THEN @ ELSE "aborted"]
  /\ UNCHANGED <<native, io, closer>>

WorkerCompletes ==
  /\ worker.at = "complete"
  /\ io' = Completed(io, worker.op, worker.outcome)
  /\ worker' = [worker EXCEPT !.at = "check"]
  /\ UNCHANGED <<bh, native, closer>>

-----------------------------------------------------------------------------
(* close, from any thread *)

Close(c) ==
  /\ closer[c].at = "idle" /\ bh.opens > 0
  /\ closer' = [closer EXCEPT ![c].at = "called"]
  /\ UNCHANGED <<bh, worker, native, io>>

(* the cancellation slot of an operation: closes if it is pending or active *)
CancelOp(c, o) ==
  /\ closer[c].at = "idle" /\ o # NoIo /\ (bh.pending = o \/ bh.active = o)
  /\ closer' = [closer EXCEPT ![c].at = "called"]
  /\ UNCHANGED <<bh, worker, native, io>>

CloseLocks(c) ==
  /\ closer[c].at = "called" /\ CloseMutexFree
  /\ IF ~bh.running /\ bh.handle = 0 /\ ~Joinable
     THEN closer' = [closer EXCEPT ![c].at = "idle"] /\ UNCHANGED <<bh, worker>>
     ELSE /\ closer' = [closer EXCEPT ![c] = [at |-> "cancel", handle |-> bh.handle, pending |-> bh.pending]]
          /\ bh' = [bh EXCEPT !.running = FALSE, !.handle = 0, !.pending = NoIo]
          /\ worker' = Notified(worker)
  /\ UNCHANGED <<native, io>>

(* cancel_and_join: the cancellation misses a worker that is not in its call yet *)
CloseCancels(c) ==
  /\ closer[c].at = "cancel"
  /\ worker' = IF worker.at = "blocked" THEN [worker EXCEPT !.at = "returned", !.outcome = "aborted"] ELSE worker
  /\ closer' = [closer EXCEPT ![c].at = "wait"]
  /\ UNCHANGED <<bh, native, io>>

CloseWaits(c) ==
  /\ closer[c].at = "wait"
  /\ IF worker.at = "exited"
     THEN worker' = [worker EXCEPT !.at = "none"] /\ closer' = [closer EXCEPT ![c].at = "release"]
     ELSE UNCHANGED worker /\ closer' = [closer EXCEPT ![c].at = "cancel"]
  /\ UNCHANGED <<bh, native, io>>

(* the handle is closed and the operation that was still pending completed; the object
   may have been opened again since the join *)
CloseReleases(c) ==
  /\ closer[c].at = "release"
  /\ native' = native \ {closer[c].handle}
  /\ io' = Completed(io, closer[c].pending, "aborted")
  /\ closer' = [closer EXCEPT ![c] = [at |-> "idle", handle |-> 0, pending |-> NoIo]]
  /\ UNCHANGED <<bh, worker>>

WorkerSteps == WorkerTakes \/ WorkerEnters \/ WorkerFinishes \/ WorkerCompletes
CloseSteps(c) == CloseLocks(c) \/ CloseCancels(c) \/ CloseWaits(c) \/ CloseReleases(c)

Next ==
  \/ \E access \in Types : Open(access)
  \/ \E o \in IoOps, type \in Types : Submit(o, type)
  \/ WorkerTakes \/ WorkerEnters \/ WorkerReturns \/ WorkerFinishes \/ WorkerCompletes
  \/ \E c \in Closers : Close(c) \/ CloseSteps(c)
  \/ \E c \in Closers, o \in IoOps : CancelOp(c, o)

(* Threads are scheduled; a system call need not return by itself.  A cancellation
   that is repeated every 10 ms does not miss a blocked worker for ever. *)
Interrupts == worker.at = "blocked" /\ \E c \in Closers : CloseCancels(c)

Spec ==
  /\ Init /\ [][Next]_bhVars
  /\ WF_bhVars(WorkerSteps)
  /\ \A c \in Closers : WF_bhVars(CloseSteps(c))
  /\ SF_bhVars(Interrupts)

-----------------------------------------------------------------------------
(* Every operation completes once, the worker is never in a call on a handle that
   was closed, and once close has returned neither the worker nor an operation is left:
   also if the object is opened again before a close has returned. *)
WorkerSafe ==
  /\ \A o \in IoOps : io[o].state # "twice"
  /\ worker.at \in {"enter", "blocked"} => worker.handle \in native
  /\ (~bh.running /\ \A c \in Closers : closer[c].at = "idle") => (~Joinable /\ native = {} /\ \A o \in IoOps : io[o].state # "submitted")

(* The calls of close of a thread that have not returned: none stays here, whether or
   not the worker's system call ever would have returned, unless the process ended. *)
Unended(c) == IF closer[c].at \in {"idle", "terminated"} THEN {} ELSE {c}
=============================================================================
