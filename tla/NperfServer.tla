----------------------------- MODULE NperfServer -----------------------------
(***************************************************************************)
(* rstream-nperf-server (bin/nperf/lib/cpp/rstream/nperf/server.cpp): the  *)
(* server accepts sessions, each of which opens (a WebSocket upgrade or an *)
(* Open message), measures, and closes.  The server and every session have *)
(* a strand each.  The peer is seen through the outcomes of the operations.*)
(***************************************************************************)
EXTENDS Naturals, Sequences

CONSTANTS
  Clients,          \* the connections that may arrive
  ServerProtocols   \* subset of {"websocket", "plain"}

VARIABLES
  srv,        \* server::impl
  sess,       \* its sessions
  protocol    \* m_settings.m_common.m_protocol

nperfServerVars == <<srv, sess, protocol>>

Init ==
  /\ srv = [state |-> "null", handler |-> "idle", asked |-> FALSE, accepting |-> FALSE,
            timer |-> FALSE, resolving |-> FALSE, cause |-> "none", sessions |-> {}]
  /\ sess = [i \in Clients |->
               [state |-> "absent", mail |-> <<>>, io |-> {}, timer |-> FALSE, posted |-> FALSE,
                kind |-> "none"]]
  /\ protocol \in ServerProtocols

Mailed(t, ids, call) == [i \in Clients |-> IF i \in ids THEN [t[i] EXCEPT !.mail = Append(@, call)] ELSE t[i]]

---------------------------------------------------------------------------
(* The sessions.  p is the record of one. *)

(* on_close, on_error of the session *)
SessionOnClose(p) ==
  IF p.state \in {"null", "disconnected"} THEN p
  ELSE [p EXCEPT !.state = "disconnected", !.timer = FALSE, !.io = {}, !.posted = TRUE]

(* do_close of the session *)
SessionDoClose(p) ==
  IF protocol = "websocket" THEN [p EXCEPT !.state = "disconnecting", !.timer = TRUE, !.io = @ \cup {"close"}]
  ELSE SessionOnClose(p)

(* cancel_internal of the session *)
SessionCancel(p) == IF p.state = "connected" THEN SessionDoClose(p) ELSE SessionOnClose(p)

(* on_accept of the session, run_loop, ping_loop, download_loop, upload_loop *)
RunLoop(p) ==
  [p EXCEPT !.state = "connected", !.timer = TRUE,
            !.io = CASE p.kind = "ping" -> IF protocol = "websocket" THEN {"read"} ELSE {"recv"}
                     [] p.kind = "download" -> {"write", "read"}
                     [] p.kind = "upload" -> {"read"}]

Done(i, op) == [sess[i] EXCEPT !.io = @ \ {op}]

Step(i, outcomes) == \E p \in outcomes : sess' = [sess EXCEPT ![i] = p] /\ UNCHANGED <<srv, protocol>>

(* async_run_internal of the session, and a cancel from the server *)
SessionMail(i) ==
  LET p == [sess[i] EXCEPT !.mail = Tail(@)] IN
  /\ sess[i].mail # <<>>
  /\ Step(i, {IF Head(sess[i].mail) = "cancel" THEN SessionCancel(p)
              ELSE [p EXCEPT !.state = "connecting", !.timer = TRUE,
                             !.io = IF protocol = "websocket" THEN {"request"} ELSE {"recv"}]})

(* arm_state_timer of the session *)
SessionTimer(i) == sess[i].timer /\ Step(i, {SessionCancel(sess[i])})

(* on_read_http_request, do_process_http_request: an upgrade to a known target is
   accepted, anything else is answered *)
OnRequest(i) ==
  LET p == Done(i, "request") IN
  /\ "request" \in sess[i].io
  /\ Step(i, {SessionOnClose(p), [p EXCEPT !.io = {"response"}]}
             \cup {[p EXCEPT !.kind = k, !.io = {"accept"}] : k \in {"ping", "download", "upload"}})

(* on_write_http_response *)
OnResponse(i) == "response" \in sess[i].io /\ Step(i, {SessionOnClose(Done(i, "response"))})

(* on_accept, from the WebSocket handshake or from on_send_protobuf_message *)
OnSessionAccept(i) ==
  \E op \in sess[i].io \cap {"accept", "ack"} :
     Step(i, {SessionOnClose(Done(i, op)), RunLoop(Done(i, op))})

(* on_read_incoming_protobuf_message while connecting, on_open: Open is answered
   by an Ack; anything else is a protocol error *)
OnOpen(i) ==
  LET p == Done(i, "recv") IN
  /\ "recv" \in sess[i].io /\ sess[i].state = "connecting"
  /\ Step(i, {SessionOnClose(p)} \cup {[p EXCEPT !.kind = k, !.io = {"ack"}] : k \in {"ping", "download", "upload"}})

(* on_read_incoming_protobuf_message of a ping, on_ping; and
   on_send_protobuf_message of its answer *)
OnPing(i) ==
  \/ /\ "recv" \in sess[i].io /\ sess[i].state = "connected"
     /\ Step(i, {SessionOnClose(Done(i, "recv")), [Done(i, "recv") EXCEPT !.io = @ \cup {"pong"}]})
  \/ /\ "pong" \in sess[i].io
     /\ Step(i, {SessionOnClose(Done(i, "pong")), [Done(i, "pong") EXCEPT !.io = @ \cup {"recv"}]})

(* on_read_write: the loop goes on (a step that changes nothing) or the session ends *)
OnReadWrite(i, op) ==
  /\ op \in sess[i].io
  /\ Step(i, {IF sess[i].state = "connected" THEN SessionOnClose(Done(i, op)) ELSE Done(i, op)})

(* The WebSocket close ends. *)
OnCloseDone(i) == "close" \in sess[i].io /\ Step(i, {SessionOnClose(Done(i, "close"))})

---------------------------------------------------------------------------
(* The server. *)

(* on_close *)
OnClose(cause) ==
  /\ srv' = [srv EXCEPT !.state = "stopped", !.handler = "done", !.cause = cause, !.sessions = {},
                        !.timer = FALSE, !.resolving = FALSE, !.asked = @ \/ cause = "none"]
  /\ sess' = Mailed(sess, srv.sessions, "cancel")
  /\ UNCHANGED protocol

(* async_run_internal, do_resolve_host *)
AsyncRun ==
  /\ srv.state = "null"
  /\ srv' = [srv EXCEPT !.state = "starting", !.handler = "running", !.timer = TRUE, !.resolving = TRUE]
  /\ UNCHANGED <<sess, protocol>>

(* arm_state_timer *)
OnStartTimer == srv.timer /\ OnClose("timeout")

(* on_do_resolve_host, on_started, do_accept *)
OnResolve ==
  /\ srv.resolving
  /\ \/ OnClose("error")
     \/ /\ srv' = [srv EXCEPT !.state = "started", !.resolving = FALSE, !.timer = FALSE, !.accepting = TRUE]
        /\ UNCHANGED <<sess, protocol>>

(* on_accept: a connection that arrives while the server stops becomes no session;
   it stays open in m_socket *)
OnAccept(i) ==
  /\ srv.accepting /\ sess[i].state = "absent"
  /\ \/ /\ srv.state # "started"
        /\ srv' = [srv EXCEPT !.accepting = FALSE] /\ UNCHANGED <<sess, protocol>>
     \/ srv.state = "started" /\ OnClose("error")
     \/ /\ srv.state = "started"
        /\ srv' = [srv EXCEPT !.sessions = @ \cup {i}]
        /\ sess' = [sess EXCEPT ![i].state = "null", ![i].mail = <<"run">>]
        /\ UNCHANGED protocol

(* cancel_internal, do_close *)
Cancel ==
  /\ srv.handler = "running" /\ ~srv.asked
  /\ IF srv.state = "starting" \/ srv.sessions = {} THEN OnClose("none")
     ELSE /\ srv' = [srv EXCEPT !.state = "stopping", !.asked = TRUE]
          /\ sess' = Mailed(sess, srv.sessions, "cancel")
          /\ UNCHANGED protocol

(* on_session_closed *)
OnSessionClosed(i) ==
  /\ sess[i].posted
  /\ LET rest == srv.sessions \ {i} IN
     srv' = IF srv.state = "stopping" /\ rest = {}
            THEN [srv EXCEPT !.state = "stopped", !.handler = "done", !.sessions = {}]
            ELSE [srv EXCEPT !.sessions = rest]
  /\ sess' = [sess EXCEPT ![i].posted = FALSE]
  /\ UNCHANGED protocol

SessionSteps(i) ==
  \/ SessionMail(i) \/ SessionTimer(i) \/ OnRequest(i) \/ OnResponse(i) \/ OnSessionAccept(i)
  \/ OnOpen(i) \/ OnPing(i) \/ OnCloseDone(i) \/ \E op \in {"read", "write"} : OnReadWrite(i, op)

Next ==
  \/ AsyncRun \/ OnStartTimer \/ OnResolve \/ Cancel
  \/ \E i \in Clients : OnAccept(i) \/ OnSessionClosed(i) \/ SessionSteps(i)

(* Timers expire and strands run what waits for them; nothing is assumed of the
   peers. *)
Progress == OnStartTimer \/ \E i \in Clients : SessionMail(i) \/ OnSessionClosed(i) \/ SessionTimer(i)

Spec == Init /\ [][Next]_nperfServerVars /\ WF_nperfServerVars(Progress)

---------------------------------------------------------------------------
(* A server that was asked to stop and completes has no session left. *)
StopIsComplete ==
  srv.handler = "done" /\ srv.cause = "none" =>
    \A i \in Clients : sess[i].state \in {"absent", "disconnected"}

(* Every session the server accepts ends, whatever its peer does: each of its
   states has a timer. *)
Unended == {i \in Clients : sess[i].state \notin {"absent", "disconnected"}}
=============================================================================
