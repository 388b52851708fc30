----------------------------- MODULE FifoReader ------------------------------
(***************************************************************************)
(* The reader of a standard input that is a FIFO, on Darwin                *)
(* (bin/webtty/lib/rstream/webtty/detail/fifo_reader.hpp): a worker thread *)
(* reads without blocking and waits in select for data, for the wake-up    *)
(* pipe or for one second.  select may miss that the writer has gone.      *)
(***************************************************************************)
EXTENDS Naturals

CONSTANTS MaxReads, MaxChunks

VARIABLES
  reader,   \* the members and the worker: [pending, active, stopped, worker, outcome,
            \* wakeup, closing, joined]
  reads,    \* per read: "new", "started" or its result
  fifo      \* the other end: [data, sent, open]

fifoVars == <<reader, reads, fifo>>

NoRead == 0

Init ==
  /\ reader = [pending |-> NoRead, active |-> NoRead, stopped |-> FALSE, worker |-> "check", outcome |-> "none",
               wakeup |-> FALSE, closing |-> FALSE, joined |-> FALSE]
  /\ reads = [i \in 1..MaxReads |-> "new"]
  /\ fifo = [data |-> 0, sent |-> 0, open |-> TRUE]

Completed(i, result) == [reads EXCEPT ![i] = IF @ = "started" THEN result ELSE "twice"]

Notified(r) == IF r.worker = "asleep" THEN [r EXCEPT !.worker = "check"] ELSE r

AsyncReadSome(i) ==
  /\ reads[i] = "new" /\ (i > 1 => reads[i - 1] # "new") /\ ~reader.closing
  /\ IF reader.stopped \/ reader.pending # NoRead \/ reader.active # NoRead
     THEN reads' = [reads EXCEPT ![i] = IF reader.stopped THEN "aborted" ELSE "already_started"] /\ UNCHANGED reader
     ELSE reads' = [reads EXCEPT ![i] = "started"] /\ reader' = Notified([reader EXCEPT !.pending = i])
  /\ UNCHANGED fifo

(* close: the flag and the notification, then the byte in the wake-up pipe *)
Close ==
  /\ ~reader.joined /\ ~reader.closing
  /\ reader' = Notified([reader EXCEPT !.stopped = TRUE, !.closing = TRUE])
  /\ UNCHANGED <<reads, fifo>>

(* Mutant: only the condition variable is signalled. *)
MutWakeUp ==
  /\ reader.closing /\ ~reader.wakeup
  /\ UNCHANGED fifoVars

WakeUp ==
  /\ reader.closing /\ ~reader.wakeup
  /\ reader' = [reader EXCEPT !.wakeup = TRUE]
  /\ UNCHANGED <<reads, fifo>>

Join ==
  /\ reader.closing /\ reader.wakeup /\ reader.worker = "exited"
  /\ reader' = [reader EXCEPT !.closing = FALSE, !.joined = TRUE]
  /\ UNCHANGED <<reads, fifo>>

-----------------------------------------------------------------------------
(* run: the operation is taken, or aborted when the reader was stopped *)
Take ==
  /\ reader.worker = "check"
  /\ reader' =
       IF ~reader.stopped /\ reader.pending = NoRead THEN [reader EXCEPT !.worker = "asleep"]
       ELSE IF reader.pending = NoRead THEN [reader EXCEPT !.worker = "exited"]
       ELSE [reader EXCEPT !.pending = NoRead, !.active = reader.pending,
                           !.worker = IF reader.stopped THEN "finish" ELSE "read", !.outcome = "aborted"]
  /\ UNCHANGED <<reads, fifo>>

(* read: data, the end, an error or nothing yet *)
Read ==
  /\ reader.worker = "read"
  /\ \/ /\ fifo.data > 0
        /\ fifo' = [fifo EXCEPT !.data = @ - 1]
        /\ reader' = [reader EXCEPT !.worker = "finish", !.outcome = "ok"]
     \/ /\ fifo.data = 0
        /\ reader' = IF fifo.open THEN [reader EXCEPT !.worker = "select"] ELSE [reader EXCEPT !.worker = "finish", !.outcome = "eof"]
        /\ UNCHANGED fifo
     \/ /\ reader' = [reader EXCEPT !.worker = "finish", !.outcome = "error"]
        /\ UNCHANGED fifo
  /\ UNCHANGED reads

(* select returns: the wake-up, data, or the timeout, up to which the end of the FIFO
   may go unnoticed; an error of select ends the read like one of read *)
Selected ==
  /\ reader.worker = "select"
  /\ reader' = IF reader.wakeup THEN [reader EXCEPT !.worker = "finish", !.outcome = "aborted"] ELSE [reader EXCEPT !.worker = "read"]
  /\ UNCHANGED <<reads, fifo>>

Finish ==
  /\ reader.worker = "finish"
  /\ reader' = [reader EXCEPT !.active = NoRead, !.worker = "check"]
  /\ reads' = Completed(reader.active, IF reader.stopped THEN "aborted" ELSE reader.outcome)
  /\ UNCHANGED fifo

-----------------------------------------------------------------------------
WriterWrites ==
  /\ fifo.open /\ fifo.sent < MaxChunks
  /\ fifo' = [fifo EXCEPT !.data = @ + 1, !.sent = @ + 1]
  /\ UNCHANGED <<reader, reads>>

WriterCloses ==
  /\ fifo.open
  /\ fifo' = [fifo EXCEPT !.open = FALSE]
  /\ UNCHANGED <<reader, reads>>

WorkerSteps == Take \/ Read \/ Selected \/ Finish

Next ==
  \/ \E i \in 1..MaxReads : AsyncReadSome(i)
  \/ Close \/ WakeUp \/ Join
  \/ Take \/ Read \/ Selected \/ Finish
  \/ WriterWrites \/ WriterCloses

(* The worker is scheduled and its select times out; close runs to its end. *)
CloseSteps == WakeUp \/ Join

Spec == Init /\ [][Next]_fifoVars /\ WF_fifoVars(WorkerSteps) /\ WF_fifoVars(CloseSteps)

-----------------------------------------------------------------------------
(* A read completes once, and none is left when close has returned. *)
ReadsOnce ==
  /\ \A i \in 1..MaxReads : reads[i] # "twice"
  /\ reader.joined => \A i \in 1..MaxReads : reads[i] # "started"

(* The reads that have not ended although the writer is gone, and the call of close
   that has not returned: none stays here, although select may miss the end. *)
Unended ==
  {i \in 1..MaxReads : reads[i] = "started" /\ ~fifo.open} \cup (IF reader.closing THEN {NoRead} ELSE {})
=============================================================================
