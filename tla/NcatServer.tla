----------------------------- MODULE NcatServer -----------------------------
(***************************************************************************)
(* The ncat server with its forwarding sessions (bin/ncat/lib/rstream/     *)
(* ncat/server.cpp, server::impl and session_proxy).  The server and every *)
(* session run on strands of their own: what one asks of the other goes    *)
(* through the other's mailbox, in order.                                  *)
(***************************************************************************)
EXTENDS Relay

CONSTANTS Peers   \* the connections that may arrive

VARIABLES
  ncat,      \* server::impl
  proxy      \* the session of each connection

ncatVars == <<ncat, proxy>>

Init ==
  /\ ncat = [state |-> "null", handler |-> "idle", asked |-> FALSE, cause |-> "none",
             timer |-> FALSE, resolving |-> FALSE, accepting |-> FALSE, sessions |-> {}]
  /\ proxy = [i \in Peers |-> Absent]

---------------------------------------------------------------------------
(* The server. *)

(* on_close: the sessions that remain are cancelled and forgotten *)
OnClose(cause) ==
  /\ ncat' = [ncat EXCEPT !.state = "stopped", !.handler = "done", !.cause = cause, !.timer = FALSE,
                          !.sessions = {}, !.asked = @ \/ cause = "none"]
  /\ proxy' = Mailed(proxy, ncat.sessions, "cancel")

AsyncRun ==
  /\ ncat.state = "null"
  /\ ncat' = [ncat EXCEPT !.state = "starting", !.handler = "running", !.timer = TRUE, !.resolving = TRUE]
  /\ UNCHANGED proxy

(* cancel, do_close: a server with sessions waits for them *)
Cancel ==
  /\ ncat.handler = "running" /\ ~ncat.asked
  /\ IF ncat.state = "starting" \/ ncat.sessions = {}
     THEN OnClose("none")
     ELSE /\ ncat' = [ncat EXCEPT !.state = "stopping", !.asked = TRUE, !.timer = FALSE]
          /\ proxy' = Mailed(proxy, ncat.sessions, "cancel")

OnStartTimer == ncat.timer /\ OnClose("error")

(* on_do_resolve_host, on_started, do_accept *)
OnResolve ==
  /\ ncat.resolving
  /\ \/ ncat.state # "starting" /\ ncat' = [ncat EXCEPT !.resolving = FALSE] /\ UNCHANGED proxy
     \/ ncat.state = "starting" /\ OnClose("error")
     \/ /\ ncat.state = "starting"
        /\ ncat' = [ncat EXCEPT !.state = "started", !.timer = FALSE, !.resolving = FALSE,
                                !.accepting = TRUE]
        /\ UNCHANGED proxy

(* on_accept: a server that is stopping makes no session of a connection; it stays
   open in m_socket, unused, as long as the server object does *)
OnAccept(i) ==
  /\ ncat.accepting /\ proxy[i].state = "absent"
  /\ IF ncat.state # "started"
     THEN ncat' = [ncat EXCEPT !.accepting = FALSE] /\ UNCHANGED proxy
     ELSE \/ OnClose("error")
          \/ /\ ncat' = [ncat EXCEPT !.sessions = @ \cup {i}]
             /\ proxy' = [proxy EXCEPT ![i] = Created]

OnSessionClosed(i) ==
  /\ proxy[i].posted
  /\ LET rest == ncat.sessions \ {i} IN
     IF ncat.state = "stopping" /\ rest = {}
     THEN /\ ncat' = [ncat EXCEPT !.state = "stopped", !.handler = "done", !.sessions = {}]
          /\ proxy' = [proxy EXCEPT ![i].posted = FALSE]
     ELSE /\ ncat' = [ncat EXCEPT !.sessions = rest]
          /\ proxy' = [proxy EXCEPT ![i].posted = FALSE]

---------------------------------------------------------------------------
(* A forwarding session. *)

Proxy(i, outcomes) == \E p \in outcomes : proxy' = [proxy EXCEPT ![i] = p] /\ UNCHANGED ncat

(* async_run_internal and cancel_internal, on the strand of the session *)
ProxyMail(i) == proxy[i].mail # <<>> /\ Proxy(i, {AfterMail(proxy[i])})

(* the open timer: cancel_internal, on_close *)
ProxyTimer(i) == proxy[i].timer /\ Proxy(i, {Closed(proxy[i])})

(* on_do_resolve_host, do_open *)
ProxyOnResolve(i) == proxy[i].io = "resolve" /\ Proxy(i, AfterResolve(proxy[i]))

(* on_open, on_connected, run_loop *)
ProxyOnOpen(i) == proxy[i].io = "connect" /\ Proxy(i, AfterOpen(proxy[i]))

(* on_read, do_write *)
ProxyOnRead(i, side) == side \in proxy[i].reads /\ Proxy(i, AfterRead(proxy[i], side))

(* on_write, do_read *)
ProxyOnWrite(i, side) == side \in proxy[i].writes /\ Proxy(i, AfterWrite(proxy[i], side))

ProxySteps(i) ==
  \/ ProxyMail(i) \/ ProxyTimer(i) \/ ProxyOnResolve(i) \/ ProxyOnOpen(i)
  \/ \E side \in Sides : ProxyOnRead(i, side) \/ ProxyOnWrite(i, side)

Next ==
  \/ AsyncRun \/ Cancel \/ OnStartTimer \/ OnResolve
  \/ \E i \in Peers : OnAccept(i) \/ OnSessionClosed(i) \/ ProxySteps(i)

(* Posted handlers run; timers expire; nothing is owed by the connections. *)
Progress == \E i \in Peers : OnSessionClosed(i) \/ ProxyMail(i) \/ ProxyTimer(i)

Spec == Init /\ [][Next]_ncatVars /\ WF_ncatVars(Progress)

---------------------------------------------------------------------------
(* A server that stopped because it was asked to has no session left: each has
   closed its sockets before the completion of async_run is reported.  It says
   nothing of the accept target, which on_accept leaves open. *)
StopIsComplete ==
  ncat.handler = "done" /\ ncat.cause = "none" =>
    \A i \in Peers : proxy[i].state \in {"absent", "disconnected"}

(* No session outlives its server for good, also when an error stopped it. *)
Unended == {i \in Peers : ncat.handler = "done" /\ proxy[i].state \notin {"absent", "disconnected"}}
=============================================================================
