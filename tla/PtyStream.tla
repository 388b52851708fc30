------------------------------ MODULE PtyStream ------------------------------
(***************************************************************************)
(* The pseudo console of a WebTTY session on Windows (pty_windows of       *)
(* bin/webtty/lib/rstream/webtty/stream.cpp and stream.hpp): a thread per  *)
(* direction does the blocking calls, and stop ends both.  The calls of    *)
(* the session come from its strand; stop joins the threads and blocks it. *)
(* A section under m_mutex is one step, with the notification after it.    *)
(***************************************************************************)
EXTENDS Naturals

CONSTANTS
  PtyOps,       \* the transfers, each started at most once
  MaxStarts,
  NoPtyOp

VARIABLES
  pty,       \* the members: [running, console, pipes], and [open, starts]: whether the
             \* handles of the pipes are open, and the number of allocations
  slot,      \* per direction: m_read_op / m_write_op and its active flag
  thread,    \* per direction: [at, op, outcome]
  ptyOps,    \* per transfer: its state
  strand     \* what the session's strand is doing: "free" or a step of stop

ptyVars == <<pty, slot, thread, ptyOps, strand>>

Directions == {"read", "write"}

Init ==
  /\ pty = [running |-> FALSE, console |-> FALSE, pipes |-> FALSE, open |-> FALSE, starts |-> 0]
  /\ slot = [d \in Directions |-> [op |-> NoPtyOp, active |-> FALSE]]
  /\ thread = [d \in Directions |-> [at |-> "none", op |-> NoPtyOp, outcome |-> "none"]]
  /\ ptyOps = [o \in PtyOps |-> "new"]
  /\ strand = "free"

Completed(ops, o, result) == [ops EXCEPT ![o] = IF @ = "started" THEN result ELSE "twice"]

Notified(t) == IF t.at = "asleep" THEN [t EXCEPT !.at = "check"] ELSE t

(* allocate: refused unless everything is closed; if one of its steps fails, what it
   has made is closed again and nothing changes *)
Allocate ==
  /\ strand = "free" /\ pty.starts < MaxStarts
  /\ ~pty.console /\ ~pty.pipes /\ ~pty.running
  /\ pty' = [pty EXCEPT !.console = TRUE, !.pipes = TRUE, !.open = TRUE, !.starts = @ + 1]
  /\ UNCHANGED <<slot, thread, ptyOps, strand>>

(* start, called when the process has been launched.  If the second thread cannot
   be created the first one is joined and the exception passed on: nothing changes. *)
Start ==
  /\ strand = "free" /\ pty.pipes /\ ~pty.running
  /\ pty' = [pty EXCEPT !.running = TRUE]
  /\ thread' = [d \in Directions |-> [thread[d] EXCEPT !.at = "check"]]
  /\ UNCHANGED <<slot, ptyOps, strand>>

(* async_read_some and async_write_some *)
Transfer(d, o) ==
  /\ strand = "free" /\ ptyOps[o] = "new"
  /\ IF ~pty.running \/ slot[d].op # NoPtyOp \/ slot[d].active
     THEN ptyOps' = [ptyOps EXCEPT ![o] = "rejected"] /\ UNCHANGED <<slot, thread>>
     ELSE /\ ptyOps' = [ptyOps EXCEPT ![o] = "started"]
          /\ slot' = [slot EXCEPT ![d].op = o]
          /\ thread' = [thread EXCEPT ![d] = Notified(@)]
  /\ UNCHANGED <<pty, strand>>

(* cancel: the console is closed, which ends what reads from it *)
Cancel ==
  /\ strand = "free" /\ pty.console
  /\ pty' = [pty EXCEPT !.console = FALSE]
  /\ UNCHANGED <<slot, thread, ptyOps, strand>>

-----------------------------------------------------------------------------
(* reading_thread and writing_thread *)

(* Mutant: a transfer that is still waiting is dropped when the thread ends. *)
MutThreadTakes(d) ==
  /\ thread[d].at = "check"
  /\ IF ~pty.running
     THEN /\ thread' = [thread EXCEPT ![d].at = "exited"]
          /\ slot' = [slot EXCEPT ![d].op = NoPtyOp]
          /\ UNCHANGED ptyOps
     ELSE IF slot[d].op = NoPtyOp THEN thread' = [thread EXCEPT ![d].at = "asleep"] /\ UNCHANGED <<slot, ptyOps>>
     ELSE /\ thread' = [thread EXCEPT ![d] = [at |-> "enter", op |-> slot[d].op, outcome |-> "none"]]
          /\ slot' = [slot EXCEPT ![d] = [op |-> NoPtyOp, active |-> TRUE]]
          /\ UNCHANGED ptyOps
  /\ UNCHANGED <<pty, strand>>

(* the wait: a thread that is to end completes the transfer that is still waiting *)
ThreadTakes(d) ==
  /\ thread[d].at = "check"
  /\ IF ~pty.running
     THEN /\ thread' = [thread EXCEPT ![d].at = "exited"]
          /\ slot' = [slot EXCEPT ![d].op = NoPtyOp]
          /\ ptyOps' = IF slot[d].op = NoPtyOp THEN ptyOps ELSE Completed(ptyOps, slot[d].op, "aborted")
     ELSE IF slot[d].op = NoPtyOp THEN thread' = [thread EXCEPT ![d].at = "asleep"] /\ UNCHANGED <<slot, ptyOps>>
     ELSE /\ thread' = [thread EXCEPT ![d] = [at |-> "enter", op |-> slot[d].op, outcome |-> "none"]]
          /\ slot' = [slot EXCEPT ![d] = [op |-> NoPtyOp, active |-> TRUE]]
          /\ UNCHANGED ptyOps
  /\ UNCHANGED <<pty, strand>>

ThreadEnters(d) ==
  /\ thread[d].at = "enter"
  /\ thread' = [thread EXCEPT ![d].at = "blocked"]
  /\ UNCHANGED <<pty, slot, ptyOps, strand>>

(* ReadFile or WriteFile returns, on its own *)
ThreadReturns(d) ==
  /\ thread[d].at = "blocked"
  /\ \E e \in {"ok", "error"} : thread' = [thread EXCEPT ![d] = [@ EXCEPT !.at = "returned", !.outcome = e]]
  /\ UNCHANGED <<pty, slot, ptyOps, strand>>

ThreadFinishes(d) ==
  /\ thread[d].at = "returned"
  /\ slot' = [slot EXCEPT ![d].active = FALSE]
  /\ thread' = [thread EXCEPT ![d] = [@ EXCEPT !.at = "complete", !.outcome = IF pty.running THEN @ ELSE "aborted"]]
  /\ UNCHANGED <<pty, ptyOps, strand>>

ThreadCompletes(d) ==
  /\ thread[d].at = "complete"
  /\ ptyOps' = Completed(ptyOps, thread[d].op, thread[d].outcome)
  /\ thread' = [thread EXCEPT ![d].at = "check"]
  /\ UNCHANGED <<pty, slot, strand>>

-----------------------------------------------------------------------------
(* stop: the flag and the members, then the threads one after the other, then the
   handles *)
Stop ==
  /\ strand = "free" /\ pty.starts > 0
  /\ pty' = [pty EXCEPT !.running = FALSE, !.console = FALSE, !.pipes = FALSE]
  /\ thread' = [d \in Directions |-> Notified(thread[d])]
  /\ strand' = "join_read"
  /\ UNCHANGED <<slot, ptyOps>>

(* cancel_and_join of one thread, repeated until the thread has ended *)
Join(d, at, next) ==
  /\ strand = at
  /\ \/ /\ thread[d].at = "blocked"
        /\ thread' = [thread EXCEPT ![d] = [@ EXCEPT !.at = "returned", !.outcome = "error"]]
        /\ UNCHANGED strand
     \/ /\ thread[d].at \in {"exited", "none"}
        /\ thread' = [thread EXCEPT ![d].at = "none"]
        /\ strand' = next
  /\ UNCHANGED <<pty, slot, ptyOps>>

JoinRead  == Join("read", "join_read", "join_write")

JoinWrite == Join("write", "join_write", "release")

Release ==
  /\ strand = "release"
  /\ pty' = [pty EXCEPT !.open = FALSE]
  /\ strand' = "free"
  /\ UNCHANGED <<slot, thread, ptyOps>>

ThreadSteps(d) == ThreadTakes(d) \/ ThreadEnters(d) \/ ThreadFinishes(d) \/ ThreadCompletes(d)

Next ==
  \/ Allocate \/ Start \/ Cancel \/ Stop \/ JoinRead \/ JoinWrite \/ Release
  \/ \E d \in Directions : ThreadTakes(d) \/ ThreadEnters(d) \/ ThreadReturns(d) \/ ThreadFinishes(d) \/ ThreadCompletes(d)
  \/ \E d \in Directions, o \in PtyOps : Transfer(d, o)

(* Threads are scheduled and the cancellation is repeated; a read or a write on the
   console need not return by itself. *)
Progress == JoinRead \/ JoinWrite \/ Release \/ \E d \in Directions : ThreadSteps(d)

Spec == Init /\ [][Next]_ptyVars /\ WF_ptyVars(Progress)

-----------------------------------------------------------------------------
(* A transfer completes once; a thread is in a call only while its pipe is open; when
   stop has returned no thread and no unfinished transfer is left. *)
ThreadsSafe ==
  /\ \A o \in PtyOps : ptyOps[o] # "twice"
  /\ \A d \in Directions : thread[d].at \in {"enter", "blocked"} => pty.open
  /\ (strand = "free" /\ ~pty.running) =>
       (\A d \in Directions : thread[d].at = "none") /\ (\A o \in PtyOps : ptyOps[o] # "started")

(* The call of stop that has not returned: it does, although the console neither
   delivers nor takes anything. *)
Unended == IF strand = "free" THEN {} ELSE {"stop"}
=============================================================================
