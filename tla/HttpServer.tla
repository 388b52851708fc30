----------------------------- MODULE HttpServer -----------------------------
(***************************************************************************)
(* The skeleton that the metrics exposer and the file server share: a      *)
(* server that accepts connections and a session per connection that reads *)
(* a request, answers it and reads again.  The server and each session run *)
(* on strands of their own; what the server asks of a session waits in its *)
(* mailbox.  h is the record of a server with its sessions; the modules of *)
(* the two programs name the handlers.                                     *)
(***************************************************************************)
EXTENDS Naturals, Sequences

NewServer(connections) ==
  [state |-> "null", handler |-> "idle", asked |-> FALSE, timer |-> FALSE, resolving |-> FALSE,
   accepting |-> FALSE, cause |-> "none", known |-> {},
   session |-> [i \in connections |->
     [state |-> "absent", mail |-> <<>>, io |-> "none", posted |-> FALSE, keepAlive |-> TRUE, read |-> 0, written |-> 0]]]

Mailed(h, ids, call) ==
  [h EXCEPT !.session = [i \in DOMAIN @ |-> IF i \in ids THEN [@[i] EXCEPT !.mail = Append(@, call)] ELSE @[i]]]

(* on_close: the sessions are cancelled and forgotten *)
Stopped(h, cause) ==
  IF h.state \in {"null", "stopped"} THEN h
  ELSE [Mailed(h, h.known, "cancel") EXCEPT
          !.state = "stopped", !.handler = "done", !.cause = cause, !.known = {}, !.timer = FALSE]

Running(h) == [h EXCEPT !.state = "starting", !.handler = "running", !.timer = TRUE, !.resolving = TRUE]

(* the completion of the resolver is looked at in the state it was asked for *)
Resolved(h, ok) ==
  LET r == [h EXCEPT !.resolving = FALSE] IN
  IF r.state # "starting" THEN r
  ELSE IF ok THEN [r EXCEPT !.state = "started", !.timer = FALSE, !.accepting = TRUE]
  ELSE Stopped(r, "error")

(* the connection i arrives, or the accept fails; a server that is stopping makes no
   session of it and leaves it open in m_socket *)
Accepted(h, i, ok) ==
  IF h.state # "started" THEN [h EXCEPT !.accepting = FALSE]
  ELSE IF ok THEN [h EXCEPT !.known = @ \union {i}, !.session[i].state = "null", !.session[i].mail = <<"run">>]
  ELSE Stopped([h EXCEPT !.accepting = FALSE], "error")

(* a server without sessions stops at once, another when the last of them is closed *)
Cancelled(h) ==
  LET c == [h EXCEPT !.asked = TRUE] IN
  CASE h.state = "starting"                  -> Stopped(c, "none")
    [] h.state = "started" /\ h.known = {}   -> Stopped(c, "none")
    [] h.state = "started" /\ h.known # {}   -> [Mailed(c, h.known, "cancel") EXCEPT !.state = "stopping"]
    [] OTHER                                 -> h

SessionForgotten(h, i) ==
  LET f == [h EXCEPT !.known = @ \ {i}, !.session[i].posted = FALSE] IN
  IF f.state = "stopping" /\ f.known = {} THEN Stopped(f, "none") ELSE f

-----------------------------------------------------------------------------
(* A session; what it had in progress ends after its socket was closed. *)

Closed(p) == IF p.state \in {"null", "disconnected"} THEN p ELSE [p EXCEPT !.state = "disconnected", !.posted = TRUE]

AfterMail(p) ==
  LET q == [p EXCEPT !.mail = Tail(@)] IN
  IF Head(p.mail) = "run" THEN [q EXCEPT !.state = "connected", !.io = "read"] ELSE Closed(q)

Failed(p) == Closed([p EXCEPT !.io = "none"])

(* the answer was written: the session ends with a response that only the end of
   the connection delimits *)
Written(p) ==
  LET q == [p EXCEPT !.written = @ + 1] IN
  IF p.keepAlive THEN [q EXCEPT !.io = "read"] ELSE Closed([q EXCEPT !.io = "none"])

-----------------------------------------------------------------------------
StopComplete(h) ==
  h.handler = "done" /\ h.cause = "none" => \A i \in DOMAIN h.session : h.session[i].state \in {"absent", "disconnected"}

(* a connected session waits for one operation, and every request it read has an
   answer or is being answered *)
Driven(h) ==
  \A i \in DOMAIN h.session :
    LET p == h.session[i] IN
    /\ p.state = "connected" => p.io # "none"
    /\ p.state = "connected" => p.read = p.written + (IF p.io = "read" THEN 0 ELSE 1)
=============================================================================
