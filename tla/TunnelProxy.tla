----------------------------- MODULE TunnelProxy -----------------------------
(***************************************************************************)
(* The proxy of rstream-tunnel (bin/tunnel/lib/rstream/tunnel/proxy.cpp):  *)
(* it accepts the streams of a tunnel and relays each to a local target    *)
(* (Relay), and passes the status of the tunnel to the user.  The proxy,   *)
(* its acceptor and every session run on strands of their own.  The        *)
(* acceptor (module Acceptor) is seen through its callbacks: it reports    *)
(* the properties of a tunnel, then a status that names it, and a status   *)
(* without a tunnel when the tunnel is lost.                               *)
(***************************************************************************)
EXTENDS Naturals, Relay

CONSTANTS
  Streams,      \* the streams that may arrive
  MaxTunnels,   \* bound on the tunnels the acceptor creates, one after the other
  MaxNews       \* bound on the callbacks that wait for the proxy's strand

VARIABLES
  px,        \* proxy::impl
  relay,     \* its sessions
  tun,       \* the acceptor: the current tunnel (0: none) and how many there were
  news       \* the callbacks dispatched to the proxy's strand, in order

pxVars == <<px, relay, tun, news>>

Init ==
  /\ px = [state |-> "null", handler |-> "idle", asked |-> FALSE, cause |-> "none",
           accepting |-> FALSE, sessions |-> {}, properties |-> 0,
           shown |-> [tunnel |-> 0, forwarded |-> 0]]
  /\ relay = [i \in Streams |-> Absent]
  /\ tun = [current |-> 0, created |-> 0, open |-> FALSE]
  /\ news = <<>>

(* on_close: sessions are cancelled and forgotten, the acceptor is closed, the
   callbacks of the user are released *)
OnClose(cause) ==
  /\ px' = [px EXCEPT !.state = "stopped", !.handler = "done", !.cause = cause, !.sessions = {},
                      !.properties = 0, !.asked = @ \/ cause = "none"]
  /\ relay' = Mailed(relay, px.sessions, "cancel")
  /\ tun' = [tun EXCEPT !.open = FALSE]

---------------------------------------------------------------------------
(* async_run_internal, do_configure, on_started: the acceptor's settings, open,
   bind and listen may each fail *)
AsyncRun ==
  /\ px.state = "null"
  /\ \/ /\ px' = [px EXCEPT !.handler = "done", !.cause = "error", !.state = "stopped"]
        /\ UNCHANGED tun
     \/ /\ px' = [px EXCEPT !.state = "started", !.handler = "running", !.accepting = TRUE]
        /\ tun' = [tun EXCEPT !.open = TRUE]
  /\ UNCHANGED <<relay, news>>

(* cancel_internal, do_close *)
Cancel ==
  /\ px.handler = "running" /\ ~px.asked
  /\ IF px.sessions = {} THEN OnClose("none")
     ELSE /\ px' = [px EXCEPT !.state = "stopping", !.asked = TRUE]
          /\ relay' = Mailed(relay, px.sessions, "cancel")
          /\ UNCHANGED tun
  /\ UNCHANGED news

(* on_accept: a proxy that is stopping makes no session of a stream; it stays open in
   m_socket *)
OnAccept(i) ==
  /\ px.accepting /\ relay[i].state = "absent"
  /\ \/ px.state # "started" /\ px' = [px EXCEPT !.accepting = FALSE] /\ UNCHANGED <<relay, tun>>
     \/ px.state = "started" /\ OnClose("error")
     \/ /\ px.state = "started" /\ tun.current # 0
        /\ px' = [px EXCEPT !.sessions = @ \cup {i}]
        /\ relay' = [relay EXCEPT ![i] = Created]
        /\ UNCHANGED tun
  /\ UNCHANGED news

OnSessionClosed(i) ==
  /\ relay[i].posted
  /\ LET rest == px.sessions \ {i}
         stop == px.state = "stopping" /\ rest = {} IN
     /\ px' = IF stop THEN [px EXCEPT !.state = "stopped", !.handler = "done", !.sessions = {},
                                      !.properties = 0]
              ELSE [px EXCEPT !.sessions = rest]
     /\ tun' = IF stop THEN [tun EXCEPT !.open = FALSE] ELSE tun
  /\ relay' = [relay EXCEPT ![i].posted = FALSE]
  /\ UNCHANGED news

---------------------------------------------------------------------------
(* The acceptor's callbacks. *)

Dispatched(calls) == Len(news) + Len(calls) <= MaxNews /\ news' = news \o calls

TunnelCreated ==
  /\ tun.open /\ tun.current = 0 /\ tun.created < MaxTunnels
  /\ LET t == tun.created + 1 IN
     /\ tun' = [tun EXCEPT !.current = t, !.created = t]
     /\ Dispatched(<<[kind |-> "properties", tunnel |-> t], [kind |-> "status", tunnel |-> t]>>)
  /\ UNCHANGED <<px, relay>>

TunnelLost ==
  /\ tun.open /\ tun.current # 0
  /\ tun' = [tun EXCEPT !.current = 0]
  /\ Dispatched(<<[kind |-> "status", tunnel |-> 0]>>)
  /\ UNCHANGED <<px, relay>>

(* A status of the server repeats the current tunnel. *)
ServerStatus ==
  /\ tun.open
  /\ Dispatched(<<[kind |-> "status", tunnel |-> tun.current]>>)
  /\ UNCHANGED <<px, relay, tun>>

(* on_tunnel_properties, on_acceptor_status: the forwarded address is made from the properties *)
OnNews ==
  /\ news # <<>>
  /\ LET n == Head(news) IN
     px' = IF px.state \in {"null", "stopped"} THEN px
           ELSE IF n.kind = "properties" THEN [px EXCEPT !.properties = n.tunnel]
           ELSE IF n.tunnel # 0
                THEN [px EXCEPT !.shown = [tunnel |-> n.tunnel, forwarded |-> px.properties]]
                ELSE [px EXCEPT !.properties = 0, !.shown = [tunnel |-> 0, forwarded |-> 0]]
  /\ news' = Tail(news)
  /\ UNCHANGED <<relay, tun>>

---------------------------------------------------------------------------
(* The sessions: Relay, on the lines of this program. *)

Session(i, outcomes) ==
  \E p \in outcomes : relay' = [relay EXCEPT ![i] = p] /\ UNCHANGED <<px, tun, news>>

SessionMail(i) == relay[i].mail # <<>> /\ Session(i, {AfterMail(relay[i])})

SessionTimer(i) == relay[i].timer /\ Session(i, {Closed(relay[i])})

SessionOnResolve(i) == relay[i].io = "resolve" /\ Session(i, AfterResolve(relay[i]))

SessionOnOpen(i) == relay[i].io = "connect" /\ Session(i, AfterOpen(relay[i]))

SessionOnRead(i, side) == side \in relay[i].reads /\ Session(i, AfterRead(relay[i], side))

SessionOnWrite(i, side) == side \in relay[i].writes /\ Session(i, AfterWrite(relay[i], side))

SessionSteps(i) ==
  \/ SessionMail(i) \/ SessionTimer(i) \/ SessionOnResolve(i) \/ SessionOnOpen(i)
  \/ \E side \in Sides : SessionOnRead(i, side) \/ SessionOnWrite(i, side)

Next ==
  \/ AsyncRun \/ Cancel \/ TunnelCreated \/ TunnelLost \/ ServerStatus \/ OnNews
  \/ \E i \in Streams : OnAccept(i) \/ OnSessionClosed(i) \/ SessionSteps(i)

(* The handlers of the sessions run and their timers expire. *)
Progress == \E i \in Streams : OnSessionClosed(i) \/ SessionMail(i) \/ SessionTimer(i)

Spec == Init /\ [][Next]_pxVars /\ WF_pxVars(Progress)

---------------------------------------------------------------------------
(* The address shown for a tunnel is made from the properties of that tunnel,
   over reconnections and however the callbacks are delayed; and a proxy that
   was asked to stop has no session left. *)
ForwardedCurrent ==
  /\ px.shown.tunnel = px.shown.forwarded
  /\ px.handler = "done" /\ px.cause = "none" =>
       \A i \in Streams : relay[i].state \in {"absent", "disconnected"}

(* No session outlives its proxy for good, also when an error stopped it. *)
Unended == {i \in Streams : px.handler = "done" /\ relay[i].state \notin {"absent", "disconnected"}}
=============================================================================
