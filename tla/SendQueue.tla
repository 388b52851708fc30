------------------------------ MODULE SendQueue ------------------------------
(***************************************************************************)
(* The send queue of lib/rstream/io/queue.hpp: async_send() calls are      *)
(* serialised onto one transport, one write at a time; every send may be   *)
(* cancelled through its cancellation slot, cancel() flushes the queue,    *)
(* and async_cancel() also reports when the active write has stopped.      *)
(*                                                                         *)
(* The queue's state is owned by a strand.  A call made on the strand runs *)
(* at once (asio::dispatch), a call from any other thread appends a work   *)
(* item to `strand'.  A cancellation slot sets the task's m_cancelled flag *)
(* in the emitting thread, BEFORE its on_task_cancel reaches the strand,   *)
(* and possibly between process()'s look at the flag and the start of the  *)
(* write: those are two steps.                                             *)
(* invoke_completion_handler is modelled by counting the invocations of    *)
(* each handler; the transport is external.                                *)
(***************************************************************************)
EXTENDS Naturals, Sequences, TLC

CONSTANTS
  Tasks,         \* the async_send() calls a run may make, each one made once
  AsyncCancels,  \* the async_cancel() calls
  Cancels,       \* the cancel() calls, which have no completion handler
  NoTask         \* m_current == nullptr

ASSUME CallsDistinct ==
  /\ NoTask \notin Tasks
  /\ Tasks \cap AsyncCancels = {}
  /\ Tasks \cap Cancels = {}
  /\ AsyncCancels \cap Cancels = {}

VARIABLES
  issued,          \* API calls made so far
  signalled,       \* tasks whose cancellation slot was emitted
  strand,          \* work items waiting for the strand, in posting order
  current,         \* m_current
  queue,           \* m_queue
  cancelHandlers,  \* m_cancel_handlers
  cancelled,       \* tasks with m_cancelled # 0
  completed,       \* tasks with m_completed
  wire,            \* the transport: "idle", "starting" (process() is between
                   \* its checks and async_send_func), "writing", "aborting"
                   \* or "done"
  calls,           \* how often each completion handler was invoked
  outcome,         \* what each send handler was last invoked with
  entered,         \* history: tasks the queue accepted, in order
  started,         \* history: tasks handed to the transport, in order
  barrier          \* history: the tasks each async_cancel() found accepted

vars == <<issued, signalled, strand, current, queue, cancelHandlers, cancelled,
          completed, wire, calls, outcome, entered, started, barrier>>

Results == {"ok", "failed", "cancelled"}
Handlers == Tasks \cup AsyncCancels

Items ==
       [op : {"send", "on_task_cancel"}, arg : Tasks]
  \cup [op : {"async_cancel"}, arg : AsyncCancels]
  \cup [op : {"cancel"}, arg : Cancels]
  \cup [op : {"on_send"}, arg : Results]

Item(op, arg) == [op |-> op, arg |-> arg]

Elements(s) == {s[i] : i \in DOMAIN s}

Live(t) == t \notin completed \cup cancelled

-----------------------------------------------------------------------------
(* Completion *)

(* Faulty: completes a task without looking at m_completed. *)
Complete_NoExchange(res, acks) ==
  /\ completed' = completed \cup DOMAIN res
  /\ calls' = [h \in Handlers |->
                 IF h \in DOMAIN res \cup acks THEN calls[h] + 1 ELSE calls[h]]
  /\ outcome' = [t \in Tasks |-> IF t \in DOMAIN res THEN res[t] ELSE outcome[t]]

(* task::complete() for every task of DOMAIN res: m_completed.exchange(true) *)
(* lets the first completion through.  The handlers in acks are the          *)
(* async_cancel() handlers completed in the same step.                       *)
Complete(res, acks) ==
  LET first == DOMAIN res \ completed
  IN /\ completed' = completed \cup DOMAIN res
     /\ calls' = [h \in Handlers |->
                    IF h \in first \cup acks THEN calls[h] + 1 ELSE calls[h]]
     /\ outcome' = [t \in Tasks |-> IF t \in first THEN res[t] ELSE outcome[t]]

AllCancelled(S) == [t \in S |-> "cancelled"]

-----------------------------------------------------------------------------
(* Steps on the strand *)

(* process(), for a task that passed the checks: it becomes m_current.     *)
(* StartWrite is the rest of the call; the strand is taken until then.     *)
process(t) ==
  /\ current' = t
  /\ wire' = "starting"

StrandFree == wire # "starting"

(* Faulty: a new task goes to the front of the queue. *)
send_Front(t) ==
  /\ Live(t)
  /\ IF current = NoTask
     THEN process(t) /\ UNCHANGED queue
     ELSE queue' = <<t>> \o queue /\ UNCHANGED <<current, wire>>
  /\ entered' = Append(entered, t)
  /\ UNCHANGED <<completed, calls, outcome, cancelHandlers, cancelled, started, barrier>>

send(t) ==
  /\ \/ /\ t \in completed
        /\ UNCHANGED <<current, queue, completed, wire, calls, outcome, entered>>
     \/ /\ t \in cancelled \ completed
        /\ Complete(AllCancelled({t}), {})
        /\ UNCHANGED <<current, queue, wire, entered>>
     \/ /\ Live(t)
        /\ current = NoTask
        /\ process(t)
        /\ entered' = Append(entered, t)
        /\ UNCHANGED <<queue, completed, calls, outcome>>
     \/ /\ Live(t)
        /\ current # NoTask
        /\ queue' = Append(queue, t)
        /\ entered' = Append(entered, t)
        /\ UNCHANGED <<current, completed, wire, calls, outcome>>
  /\ UNCHANGED <<cancelHandlers, cancelled, started, barrier>>

(* The cancellation signal of the active write only acts on a write the    *)
(* transport has not finished.                                             *)
emit_cancellation == wire' = IF wire = "writing" THEN "aborting" ELSE wire

(* Faulty: the active task is marked cancelled but its write is left alone. *)
on_task_cancel_NoEmit(t) ==
  /\ IF t \in completed \cup {current}
     THEN UNCHANGED <<completed, calls, outcome>>
     ELSE Complete(AllCancelled({t}), {})
  /\ UNCHANGED <<current, queue, cancelHandlers, wire, entered, started, barrier>>

on_task_cancel(t) ==
  /\ \/ /\ t \in completed
        /\ UNCHANGED <<completed, wire, calls, outcome>>
     \/ /\ t \notin completed
        /\ t = current
        /\ emit_cancellation
        /\ UNCHANGED <<completed, calls, outcome>>
     \/ /\ t \notin completed
        /\ t # current
        /\ Complete(AllCancelled({t}), {})
        /\ UNCHANGED wire
  /\ UNCHANGED <<current, queue, cancelHandlers, entered, started, barrier>>

(* Faulty: flushes the queue without aborting the active write. *)
cancel_pending_NoEmit(acks) ==
  /\ cancelled' = cancelled \cup Elements(queue)
  /\ queue' = <<>>
  /\ Complete(AllCancelled(Elements(queue)), acks)
  /\ UNCHANGED <<current, wire, entered, started>>

(* cancel_pending(): abort the active write, complete every queued task;   *)
(* acks are the async_cancel() handlers the caller completes afterwards.   *)
cancel_pending(acks) ==
  /\ cancelled' = cancelled \cup Elements(queue)
                            \cup (IF current = NoTask THEN {} ELSE {current})
  /\ IF current = NoTask THEN UNCHANGED wire ELSE emit_cancellation
  /\ queue' = <<>>
  /\ Complete(AllCancelled(Elements(queue)), acks)
  /\ UNCHANGED <<current, entered, started>>

cancel_internal ==
  /\ cancel_pending({})
  /\ UNCHANGED <<cancelHandlers, barrier>>

(* Faulty: reports the cancellation while the active write is running. *)
async_cancel_internal_Early(c) ==
  /\ barrier' = [barrier EXCEPT ![c] = Elements(entered)]
  /\ cancel_pending(cancelHandlers \cup {c})
  /\ cancelHandlers' = {}

async_cancel_internal(c) ==
  /\ barrier' = [barrier EXCEPT ![c] = Elements(entered)]
  /\ IF current = NoTask
     THEN /\ cancel_pending(cancelHandlers \cup {c})
          /\ cancelHandlers' = {}
     ELSE /\ cancel_pending({})
          /\ cancelHandlers' = cancelHandlers \cup {c}

(* Positions of the queue that process_next() would take.  The flags are   *)
(* only ever set and the task taken is read last, so reading them one by   *)
(* one is reading them all at that moment.                                 *)
Startable == {i \in DOMAIN queue : Live(queue[i])}

(* Faulty: completes the active task but does not call process_next(). *)
on_send_NoNext(r) ==
  /\ Complete([t \in {current} |-> r], cancelHandlers)
  /\ current' = NoTask
  /\ wire' = "idle"
  /\ cancelHandlers' = {}
  /\ UNCHANGED <<queue, cancelled, entered, started, barrier>>

(* on_send(): complete the active task with the transport's result, wake   *)
(* the async_cancel() handlers, then process_next() drops what was         *)
(* cancelled in the meantime and takes the first task left.                *)
on_send(r) ==
  /\ IF Startable = {}
     THEN /\ Complete([t \in {current} \cup Elements(queue) |->
                         IF t = current THEN r ELSE "cancelled"], cancelHandlers)
          /\ queue' = <<>>
          /\ current' = NoTask
          /\ wire' = "idle"
     ELSE \E k \in Startable :
          /\ \A i \in Startable : k <= i
          /\ Complete([t \in {current} \cup {queue[i] : i \in 1..(k - 1)} |->
                         IF t = current THEN r ELSE "cancelled"], cancelHandlers)
          /\ queue' = SubSeq(queue, k + 1, Len(queue))
          /\ process(queue[k])
  /\ cancelHandlers' = {}
  /\ UNCHANGED <<cancelled, entered, started, barrier>>

(* What the strand does for a work item. *)
Run(item) ==
  /\ StrandFree
  /\ \/ item.op = "send" /\ send(item.arg)
     \/ item.op = "on_task_cancel" /\ on_task_cancel(item.arg) /\ UNCHANGED cancelled
     \/ item.op = "async_cancel" /\ async_cancel_internal(item.arg)
     \/ item.op = "cancel" /\ cancel_internal
     \/ item.op = "on_send" /\ on_send(item.arg)

-----------------------------------------------------------------------------
(* Calls and events *)

Post(item) ==
  /\ strand' = Append(strand, item)
  /\ UNCHANGED <<current, queue, cancelHandlers, completed, wire, calls,
                 outcome, entered, started, barrier>>

(* asio::dispatch: at once for a caller on the strand, posted otherwise. *)
Dispatch(item) ==
  \/ Post(item) /\ UNCHANGED cancelled
  \/ Run(item) /\ UNCHANGED strand

async_send(t) ==
  /\ t \notin issued
  /\ issued' = issued \cup {t}
  /\ Dispatch(Item("send", t))
  /\ UNCHANGED signalled

async_cancel(c) ==
  /\ c \notin issued
  /\ issued' = issued \cup {c}
  /\ Dispatch(Item("async_cancel", c))
  /\ UNCHANGED signalled

cancel(c) ==
  /\ c \notin issued
  /\ issued' = issued \cup {c}
  /\ Dispatch(Item("cancel", c))
  /\ UNCHANGED signalled

(* Faulty: only sets the flag, and leaves the rest to process(). *)
EmitSlot_FlagOnly(t) ==
  /\ t \in issued \ signalled
  /\ signalled' = signalled \cup {t}
  /\ cancelled' = cancelled \cup {t}
  /\ UNCHANGED <<issued, strand, current, queue, cancelHandlers, completed, wire,
                 calls, outcome, entered, started, barrier>>

(* The slot task::arm() installs: request_cancel() in the emitting thread, *)
(* on_task_cancel() dispatched to the strand.                              *)
EmitSlot(t) ==
  /\ t \in issued \ signalled
  /\ signalled' = signalled \cup {t}
  /\ cancelled' = cancelled \cup {t}
  /\ \/ Post(Item("on_task_cancel", t))
     \/ StrandFree /\ on_task_cancel(t) /\ UNCHANGED strand
  /\ UNCHANGED issued

StrandStep ==
  /\ strand # <<>>
  /\ Run(Head(strand))
  /\ strand' = Tail(strand)
  /\ UNCHANGED <<issued, signalled>>

(* process() goes on: async_send_func() hands m_current to the transport,  *)
(* whatever became of its flag since the check.                            *)
StartWrite ==
  /\ wire = "starting"
  /\ wire' = "writing"
  /\ started' = Append(started, current)
  /\ UNCHANGED <<issued, signalled, strand, current, queue, cancelHandlers,
                 cancelled, completed, calls, outcome, entered, barrier>>

(* The transport finishes the active write: with its own result, or with   *)
(* the cancellation once that was emitted.                                 *)
TransportDone ==
  /\ \/ wire \in {"writing", "aborting"} /\ \E r \in {"ok", "failed"} :
          strand' = Append(strand, Item("on_send", r))
     \/ wire = "aborting" /\ strand' = Append(strand, Item("on_send", "cancelled"))
  /\ wire' = "done"
  /\ UNCHANGED <<issued, signalled, current, queue, cancelHandlers, cancelled,
                 completed, calls, outcome, entered, started, barrier>>

Init ==
  /\ issued = {}
  /\ signalled = {}
  /\ strand = <<>>
  /\ current = NoTask
  /\ queue = <<>>
  /\ cancelHandlers = {}
  /\ cancelled = {}
  /\ completed = {}
  /\ wire = "idle"
  /\ calls = [h \in Handlers |-> 0]
  /\ outcome = [t \in Tasks |-> "none"]
  /\ entered = <<>>
  /\ started = <<>>
  /\ barrier = [c \in AsyncCancels |-> {}]

Next ==
  \/ \E t \in Tasks : async_send(t) \/ EmitSlot(t)
  \/ \E c \in AsyncCancels : async_cancel(c)
  \/ \E c \in Cancels : cancel(c)
  \/ StrandStep
  \/ StartWrite
  \/ TransportDone

Spec == Init /\ [][Next]_vars

(* An aborted write finishes: asio completes a cancelled operation.  A     *)
(* write nobody cancelled may hang for ever, so it gets no fairness.       *)
AbortDone == wire = "aborting" /\ TransportDone

(* The executor keeps running the strand's work items, and to their end. *)
FairSpec == Spec /\ WF_vars(StrandStep) /\ WF_vars(StartWrite) /\ WF_vars(AbortDone)

-----------------------------------------------------------------------------
(* Properties *)

TypeOK ==
  /\ issued \subseteq Tasks \cup AsyncCancels \cup Cancels
  /\ signalled \subseteq Tasks
  /\ strand \in Seq(Items)
  /\ current \in Tasks \cup {NoTask}
  /\ queue \in Seq(Tasks)
  /\ cancelHandlers \subseteq AsyncCancels
  /\ cancelled \subseteq Tasks
  /\ completed \subseteq Tasks
  /\ wire \in {"idle", "starting", "writing", "aborting", "done"}
  /\ calls \in [Handlers -> Nat]
  /\ outcome \in [Tasks -> Results \cup {"none"}]
  /\ entered \in Seq(Tasks)
  /\ started \in Seq(Tasks)
  /\ barrier \in [AsyncCancels -> SUBSET Tasks]

(* No completion handler of a send or of an async_cancel() is invoked      *)
(* twice, however the write's result, the task's own cancellation, cancel()*)
(* and the queue's skipping of cancelled tasks race; m_completed says      *)
(* exactly which send handlers have been invoked.                          *)
CompletedOnce ==
  /\ \A h \in Handlers : calls[h] <= 1
  /\ \A t \in Tasks : t \in completed <=> calls[t] = 1

(* Writes reach the transport in the order the queue accepted them, each   *)
(* at most once, although tasks leave the middle of the queue.             *)
OrderedWrites ==
  \A i, j \in DOMAIN started : \A m, n \in DOMAIN entered :
    (i < j /\ entered[m] = started[i] /\ entered[n] = started[j]) => m < n

(* When an async_cancel() handler is invoked, every send accepted before   *)
(* the call has completed: none is on the transport or in the queue.       *)
CancelBarrier ==
  \A c \in AsyncCancels : calls[c] > 0 => barrier[c] \subseteq completed

(* No lost wakeup: with no active write nothing is left waiting, neither a *)
(* queued task nor an async_cancel() handler.                              *)
NothingWaitsForIdle ==
  current = NoTask => queue = <<>> /\ cancelHandlers = {} /\ wire = "idle"

(* A cancellation that arrives after process() looked at m_cancelled is    *)
(* not lost: as long as the write of a cancelled task is not being aborted,*)
(* the task's on_task_cancel() is waiting for the strand.                  *)
CancelReachesWrite ==
  (current \in cancelled /\ wire \in {"starting", "writing"})
    => \E i \in DOMAIN strand : strand[i] = Item("on_task_cancel", current)

(* Shutdown is prompt: async_cancel() completes although the transport may *)
(* never finish a write that is not aborted.                               *)
CancelCompletes ==
  \A c \in AsyncCancels : c \in issued ~> calls[c] = 1

(* A send whose slot was emitted completes, queued or active, under the    *)
(* same assumptions.                                                       *)
SignalledCompletes ==
  \A t \in Tasks : t \in signalled ~> t \in completed

-----------------------------------------------------------------------------
(* For TLC: calls of one kind may be exchanged. *)
Symmetry == Permutations(Tasks) \cup Permutations(AsyncCancels)
=============================================================================
