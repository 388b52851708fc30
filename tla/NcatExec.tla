------------------------------ MODULE NcatExec ------------------------------
(***************************************************************************)
(* A session of the ncat server that runs a command (bin/ncat/lib/rstream/ *)
(* ncat/server.cpp, session_exec): what the connection sends is written to *)
(* the child's standard input, its two outputs are sent back.  All         *)
(* handlers run on the session's strand.                                   *)
(***************************************************************************)
EXTENDS Naturals

CONSTANTS MaxOutput   \* bound on the chunks each output of the child produces

VARIABLES
  exec,       \* the session
  cmd,        \* the child: its state, what its outputs still hold, stdin
  halfClose   \* m_downstream_half_close: the connection is plain TCP

execVars == <<exec, cmd, halfClose>>

Outputs == {"std_out", "std_err"}

Init ==
  /\ halfClose \in BOOLEAN
  /\ exec = [state |-> "null", handler |-> "idle", asked |-> FALSE, cause |-> "none",
             error |-> "none", down |-> "none", stop |-> FALSE, eos |-> {},
             reads |-> {}, writes |-> {}, exitPosted |-> FALSE]
  /\ cmd \in [state : {"absent"}, holds : [Outputs -> 0 .. MaxOutput], stdin : {"open"}]

(* on_close: the sockets and pipes are closed, a child that runs is killed *)
OnClose(cause) ==
  /\ exec' = [exec EXCEPT !.state = "closed", !.handler = "done",
                          !.cause = IF exec.error # "none" THEN exec.error ELSE cause]
  /\ cmd' = [cmd EXCEPT !.stdin = "closed", !.state = IF @ = "running" THEN "killed" ELSE @]

(* on_error, do_close: the first error is the one reported *)
OnError(cause) ==
  /\ exec' = [exec EXCEPT !.state = "closed", !.handler = "done",
                          !.error = IF @ = "none" THEN cause ELSE @,
                          !.cause = IF exec.error # "none" THEN exec.error ELSE cause]
  /\ cmd' = [cmd EXCEPT !.stdin = "closed", !.state = IF @ = "running" THEN "killed" ELSE @]

---------------------------------------------------------------------------
(* async_run_internal, start_child, run_loop *)
AsyncRun ==
  /\ exec.state = "null"
  /\ \/ OnError("error")
     \/ /\ exec' = [exec EXCEPT !.state = "running", !.handler = "running", !.down = "read",
                                !.reads = Outputs]
        /\ cmd' = [cmd EXCEPT !.state = "running"]
  /\ UNCHANGED halfClose

Cancel ==
  /\ exec.handler = "running"
  /\ exec' = [exec EXCEPT !.state = "closed", !.handler = "done", !.asked = TRUE,
                          !.cause = IF exec.error # "none" THEN exec.error ELSE "aborted"]
  /\ cmd' = [cmd EXCEPT !.stdin = "closed", !.state = IF @ = "running" THEN "killed" ELSE @]
  /\ UNCHANGED halfClose

(* The child ends by itself; its exit is posted to the strand. *)
ChildExits ==
  /\ cmd.state = "running"
  /\ cmd' = [cmd EXCEPT !.state = "exited"]
  /\ exec' = [exec EXCEPT !.exitPosted = TRUE]
  /\ UNCHANGED halfClose

(* on_child_exit: the connection is no longer read, stdin is closed.  The
   outputs are still drained. *)
OnChildExit ==
  /\ exec.exitPosted
  /\ LET e == [exec EXCEPT !.exitPosted = FALSE] IN
     IF e.state # "running" THEN exec' = e /\ UNCHANGED cmd
     ELSE /\ \E failed \in BOOLEAN :
               exec' = [e EXCEPT !.stop = TRUE, !.error = IF failed /\ @ = "none" THEN "error" ELSE @]
          /\ cmd' = [cmd EXCEPT !.stdin = "closed"]
  /\ UNCHANGED halfClose

---------------------------------------------------------------------------
(* From the connection to the child. *)

OnReadDownstream ==
  /\ exec.down = "read"
  /\ LET e == [exec EXCEPT !.down = "none"] IN
     \/ e.state # "running" /\ exec' = e /\ UNCHANGED cmd
     \/ e.state = "running" /\ OnError("error")
     \/ /\ e.state = "running"                            \* end of stream
        /\ IF ~halfClose \/ exec.eos = Outputs THEN OnClose("none")
           ELSE exec' = e /\ cmd' = [cmd EXCEPT !.stdin = "closed"]
     \/ /\ e.state = "running"                            \* data
        /\ exec' = IF e.stop THEN e ELSE [e EXCEPT !.down = "write"]
        /\ UNCHANGED cmd
  /\ UNCHANGED halfClose

(* on_write_child.  A pipe closed under a write, or whose reader is gone, fails
   it with an error that is not the end of a stream. *)
OnWriteChild ==
  /\ exec.down = "write"
  /\ LET e == [exec EXCEPT !.down = "none"] IN
     \/ e.state # "running" /\ exec' = e /\ UNCHANGED cmd
     \/ e.state = "running" /\ OnError("error")
     \/ e.state = "running" /\ exec' = [e EXCEPT !.stop = TRUE] /\ UNCHANGED cmd
     \/ /\ e.state = "running" /\ cmd.state = "running" /\ cmd.stdin = "open"
        /\ exec' = IF e.stop THEN e ELSE [e EXCEPT !.down = "read"]
        /\ UNCHANGED cmd
  /\ UNCHANGED halfClose

---------------------------------------------------------------------------
(* From the child to the connection. *)

(* Mutant: the end of one output ends the session. *)
MutOnReadChild(s) ==
  /\ s \in exec.reads
  /\ LET e == [exec EXCEPT !.reads = @ \ {s}] IN
     \/ e.state # "running" /\ exec' = e /\ UNCHANGED cmd
     \/ e.state = "running" /\ OnError("error")
     \/ e.state = "running" /\ cmd.holds[s] = 0 /\ OnClose("none")
     \/ /\ e.state = "running" /\ cmd.holds[s] > 0
        /\ exec' = [e EXCEPT !.writes = @ \cup {s}]
        /\ cmd' = [cmd EXCEPT !.holds[s] = @ - 1]
  /\ UNCHANGED halfClose

(* on_read_child: the end of both outputs is the end of the session; an output
   ends when the child has closed it *)
OnReadChild(s) ==
  /\ s \in exec.reads
  /\ LET e == [exec EXCEPT !.reads = @ \ {s}] IN
     \/ e.state # "running" /\ exec' = e /\ UNCHANGED cmd
     \/ e.state = "running" /\ OnError("error")
     \/ /\ e.state = "running" /\ cmd.holds[s] = 0
        /\ IF exec.eos \cup {s} = Outputs THEN OnClose("none")
           ELSE exec' = [e EXCEPT !.eos = @ \cup {s}] /\ UNCHANGED cmd
     \/ /\ e.state = "running" /\ cmd.holds[s] > 0
        /\ exec' = [e EXCEPT !.writes = @ \cup {s}]
        /\ cmd' = [cmd EXCEPT !.holds[s] = @ - 1]
  /\ UNCHANGED halfClose

OnWriteDownstream(s) ==
  /\ s \in exec.writes
  /\ LET e == [exec EXCEPT !.writes = @ \ {s}] IN
     \/ e.state # "running" /\ exec' = e /\ UNCHANGED cmd
     \/ e.state = "running" /\ OnError("error")
     \/ e.state = "running" /\ exec' = [e EXCEPT !.reads = @ \cup {s}] /\ UNCHANGED cmd
  /\ UNCHANGED halfClose

Next ==
  \/ AsyncRun \/ Cancel \/ ChildExits \/ OnChildExit
  \/ OnReadDownstream \/ OnWriteChild
  \/ \E s \in Outputs : OnReadChild(s) \/ OnWriteDownstream(s)

Spec == Init /\ [][Next]_execVars

---------------------------------------------------------------------------
(* A session over a connection that half-closes and that reports no error has
   sent all the output of its child, whichever of the child, its outputs and
   the connection ended first. *)
OutputDelivered ==
  exec.handler = "done" /\ exec.cause = "none" /\ halfClose =>
    exec.writes = {} /\ \A s \in Outputs : cmd.holds[s] = 0

(* No child outlives its session. *)
NoChildLeft == exec.handler = "done" => cmd.state # "running"
=============================================================================
