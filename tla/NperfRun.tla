------------------------------- MODULE NperfRun -------------------------------
(***************************************************************************)
(* The loop of rstream-nperf-client over its measurements (client::impl    *)
(* and its task, bin/nperf/lib/cpp/rstream/nperf/client.cpp): each         *)
(* execution runs the selected measurements one after the other, and the   *)
(* executions are repeated, spaced and retried as the settings ask.  A     *)
(* measurement (module NperfClient) is seen through its contract.          *)
(***************************************************************************)
EXTENDS Naturals

CONSTANTS
  TaskSetups,   \* [options : SUBSET 1..3, count : Nat (0: for ever), period, retry : BOOLEAN]
  MaxRuns       \* bound on the measurements started

VARIABLES
  task,       \* the task of async_run_internal
  taskSetup,  \* the options and the settings
  done        \* the measurements that succeeded in the execution under way

taskVars == <<task, taskSetup, done>>

Init ==
  /\ taskSetup \in TaskSetups
  /\ task = [handler |-> "idle", asked |-> FALSE, i |-> 1, left |-> taskSetup.options, timer |-> FALSE,
             executions |-> 0, base |-> FALSE, result |-> "none", errors |-> 0, runs |-> 0]
  /\ done = {}

(* on_complete *)
Completed(t, result) ==
  [t EXCEPT !.handler = "done", !.result = result, !.base = FALSE, !.timer = FALSE]

(* reset, and the search of the next selected measurement (run calls on_run for
   the others, in the same step); 4 is past the last *)
Start(t) ==
  LET rest == {j \in t.left : j >= t.i} IN
  [t EXCEPT !.i = CHOOSE j \in rest : \A k \in rest : j <= k, !.base = TRUE, !.runs = @ + 1]

(* Mutant: an execution that failed counts. *)
MutNextRun(t, failed) ==
  IF t.left # {} THEN Start(t)
  ELSE LET n == IF t.timer THEN t.executions ELSE t.executions + 1
           u == [t EXCEPT !.executions = n] IN
       IF taskSetup.count # 0 /\ n >= taskSetup.count THEN Completed(u, "none")
       ELSE IF taskSetup.period /\ ~t.timer THEN [u EXCEPT !.timer = TRUE]
       ELSE Start([u EXCEPT !.timer = FALSE, !.left = taskSetup.options, !.i = 1])

(* run: when no measurement is left the execution is over; it counts unless it failed *)
NextRun(t, failed) ==
  IF t.left # {} THEN Start(t)
  ELSE LET n == IF t.timer \/ failed THEN t.executions ELSE t.executions + 1
           u == [t EXCEPT !.executions = n] IN
       IF taskSetup.count # 0 /\ n >= taskSetup.count THEN Completed(u, "none")
       ELSE IF taskSetup.period /\ ~t.timer THEN [u EXCEPT !.timer = TRUE]
       ELSE Start([u EXCEPT !.timer = FALSE, !.left = taskSetup.options, !.i = 1])

(* on_run after a measurement *)
OnRun(t, error) ==
  IF t.asked THEN Completed(t, "aborted")
  ELSE IF error /\ ~taskSetup.retry THEN Completed(t, "error")
  ELSE IF error THEN NextRun([t EXCEPT !.base = FALSE, !.left = {}, !.errors = @ + 1], TRUE)
  ELSE NextRun([t EXCEPT !.base = FALSE, !.left = @ \ {t.i}, !.i = @ + 1], FALSE)

---------------------------------------------------------------------------
(* async_run_internal *)
AsyncRun ==
  /\ task.handler = "idle"
  /\ task' = IF taskSetup.options = {} THEN Completed(task, "invalid_argument")
             ELSE Start([task EXCEPT !.handler = "running"])
  /\ UNCHANGED <<taskSetup, done>>

(* cancel_internal, task::cancel: the measurement and the timer are cancelled *)
Cancel ==
  /\ task.handler = "running" /\ ~task.asked
  /\ task' = [task EXCEPT !.asked = TRUE]
  /\ UNCHANGED <<taskSetup, done>>

(* The measurement completes: by itself, or because it was cancelled. *)
OnBase ==
  /\ task.base /\ (task.runs < MaxRuns \/ task.asked)
  /\ \E error \in BOOLEAN :
       /\ task' = OnRun(task, error)
       /\ done' = IF error \/ task.asked THEN {}
                  ELSE IF task'.executions # task.executions THEN {} ELSE done \cup {task.i}
  /\ UNCHANGED taskSetup

(* on_run after the timer: it expires, or it was cancelled *)
OnTimer ==
  /\ task.timer
  /\ task' = IF task.asked THEN Completed(task, "aborted") ELSE NextRun(task, FALSE)
  /\ done' = {}
  /\ UNCHANGED taskSetup

Next == AsyncRun \/ Cancel \/ OnBase \/ OnTimer

(* A measurement ends (NperfClient) and timers expire. *)
Progress == OnBase \/ OnTimer

Spec == Init /\ [][Next]_taskVars /\ WF_taskVars(Progress)

---------------------------------------------------------------------------
(* The client succeeds only after as many whole executions as --count asks for,
   it fails only when it may not retry, and it never ends by itself otherwise. *)
CountIsHonoured ==
  task.handler = "done" =>
    \/ task.result = "none" /\ task.executions = taskSetup.count /\ taskSetup.count # 0
    \/ task.result = "error" /\ ~taskSetup.retry
    \/ task.result = "aborted" /\ task.asked
    \/ task.result = "invalid_argument" /\ taskSetup.options = {}

(* An execution counts only when every selected measurement of it succeeded. *)
ExecutionsWhole ==
  task'.executions # task.executions =>
    /\ task'.executions = task.executions + 1
    /\ done \cup {task.i} = taskSetup.options
=============================================================================
