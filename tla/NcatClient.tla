----------------------------- MODULE NcatClient -----------------------------
(***************************************************************************)
(* The ncat client (bin/ncat/lib/rstream/ncat/client.cpp): the standard    *)
(* input goes to the connection, what the connection sends goes to the     *)
(* standard output.  All handlers run on the client's strand.              *)
(***************************************************************************)
EXTENDS Naturals

CONSTANTS MaxInput, MaxReply   \* bounds on the chunks of the two directions

VARIABLES
  nc,           \* client::impl
  link,         \* the connection: what it carried, and its half-closes
  interactive   \* m_interactive

ncVars == <<nc, link, interactive>>

Init ==
  /\ interactive \in BOOLEAN
  /\ nc = [state |-> "null", handler |-> "idle", asked |-> FALSE, cause |-> "none",
           io |-> "none", stdin |-> "none", socket |-> "none", eos |-> FALSE]
  /\ link = [typed |-> 0, sent |-> 0, shutdown |-> FALSE, came |-> 0, shown |-> 0, ended |-> FALSE]

(* on_error, do_close, on_close: the first error is reported *)
OnClose(n, cause) ==
  IF n.state = "disconnected" THEN n
  ELSE [n EXCEPT !.state = "disconnected", !.handler = "done", !.cause = cause]

Becomes(n) == nc' = n /\ UNCHANGED <<link, interactive>>

AsyncRun ==
  /\ nc.state = "null"
  /\ Becomes([nc EXCEPT !.state = "connecting", !.handler = "running", !.io = "resolve"])

(* Mutant: a cancel ends only the loops of a connected client. *)
MutCancel ==
  /\ nc.handler = "running"
  /\ Becomes([IF nc.state = "connected" THEN OnClose(nc, "aborted") ELSE nc EXCEPT !.asked = TRUE])

Cancel == nc.handler = "running" /\ Becomes([OnClose(nc, "aborted") EXCEPT !.asked = TRUE])

OnResolve ==
  /\ nc.io = "resolve"
  /\ LET n == [nc EXCEPT !.io = "none"] IN
     IF n.state # "connecting" THEN Becomes(n)
     ELSE Becomes(OnClose(n, "error")) \/ Becomes([n EXCEPT !.io = "connect"])

(* on_connect, on_connected, run_loop *)
OnConnect ==
  /\ nc.io = "connect"
  /\ LET n == [nc EXCEPT !.io = "none"] IN
     IF n.state # "connecting" THEN Becomes(n)
     ELSE \/ Becomes(OnClose(n, "error"))
          \/ Becomes([n EXCEPT !.state = "connected", !.socket = "read",
                               !.stdin = IF interactive THEN "read" ELSE @])

(* on_read_socket: the end of the stream is the normal end of the client *)
OnReadSocket ==
  /\ nc.socket = "read"
  /\ LET n == [nc EXCEPT !.socket = "none"] IN
     \/ nc.state # "connected" /\ Becomes(n)
     \/ nc.state = "connected" /\ Becomes(OnClose(n, "error"))
     \/ /\ nc.state = "connected"
        /\ nc' = OnClose(n, "none") /\ link' = [link EXCEPT !.ended = TRUE]
        /\ UNCHANGED interactive
     \/ /\ nc.state = "connected" /\ link.came < MaxReply
        /\ nc' = [n EXCEPT !.socket = "write"] /\ link' = [link EXCEPT !.came = @ + 1]
        /\ UNCHANGED interactive

OnWriteStdout ==
  /\ nc.socket = "write"
  /\ LET n == [nc EXCEPT !.socket = "none"] IN
     \/ nc.state # "connected" /\ Becomes(n)
     \/ nc.state = "connected" /\ Becomes(OnClose(n, "error"))
     \/ /\ nc.state = "connected"
        /\ nc' = [n EXCEPT !.socket = "read"] /\ link' = [link EXCEPT !.shown = @ + 1]
        /\ UNCHANGED interactive

(* on_read_std_in: the end of the input closes the sending direction only *)
OnReadStdIn ==
  /\ nc.stdin = "read"
  /\ LET n == [nc EXCEPT !.stdin = "none"] IN
     \/ nc.state # "connected" /\ Becomes(n)
     \/ nc.state = "connected" /\ Becomes(OnClose(n, "error"))
     \/ /\ nc.state = "connected"
        /\ nc' = [n EXCEPT !.eos = TRUE] /\ link' = [link EXCEPT !.shutdown = TRUE]
        /\ UNCHANGED interactive
     \/ /\ nc.state = "connected" /\ link.typed < MaxInput
        /\ nc' = [n EXCEPT !.stdin = "write"] /\ link' = [link EXCEPT !.typed = @ + 1]
        /\ UNCHANGED interactive

OnWriteSocket ==
  /\ nc.stdin = "write"
  /\ LET n == [nc EXCEPT !.stdin = "none"] IN
     \/ nc.state # "connected" /\ Becomes(n)
     \/ nc.state = "connected" /\ Becomes(OnClose(n, "error"))
     \/ /\ nc.state = "connected"
        /\ nc' = [n EXCEPT !.stdin = "read"] /\ link' = [link EXCEPT !.sent = @ + 1]
        /\ UNCHANGED interactive

Next ==
  \/ AsyncRun \/ Cancel \/ OnResolve \/ OnConnect
  \/ OnReadSocket \/ OnWriteStdout \/ OnReadStdIn \/ OnWriteSocket

Spec == Init /\ [][Next]_ncVars

---------------------------------------------------------------------------
(* A client that reports success has shown everything the connection carried
   to its end; and the sending direction is closed only behind all the input. *)
NothingDropped ==
  /\ nc.handler = "done" /\ nc.cause = "none" => link.ended /\ link.shown = link.came
  /\ link.shutdown => link.sent = link.typed
=============================================================================
