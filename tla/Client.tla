------------------------------- MODULE Client -------------------------------
(***************************************************************************)
(* The control channel client of lib/rstream/io-rstrm/client.cpp: one      *)
(* session at a time with an engine, tunnels created over it, and the      *)
(* streams the engine asks the client to dial for them.                    *)
(*                                                                         *)
(* Everything but m_is_state_non_null, m_server_address and                *)
(* m_control_callbacks (guarded by m_mutex) is owned by m_strand, so each  *)
(* handler is one action.  What is between two handlers is explicit: an    *)
(* API call whose internal handler has not reached the strand yet, a       *)
(* cancellation whose dispatch has not, and every asynchronous operation   *)
(* in flight, tagged with the m_generation it was started in.  The engine, *)
(* the network and the sockets of the streams are external: any message    *)
(* may arrive, any operation may fail, completions come in any order.      *)
(***************************************************************************)
EXTENDS Naturals, FiniteSets, TLC

CONSTANTS
  ConnectOps,      \* async_connect() calls, each made once
  CreateOps,       \* async_create_tunnel() calls
  AcceptOps,       \* tunnel::async_accept() calls
  TunnelIds,       \* identifiers the engine gives to tunnels
  StreamIds,       \* identifiers the engine gives to streams
  Configs,         \* configurations a client may be given
  MaxRequests,     \* bound: proxy requests per stream identifier
  NoOp,            \* a null operation pointer
  NoClose          \* m_close_pending is false

Ops == ConnectOps \cup CreateOps \cup AcceptOps

States == {"null", "connecting", "connected", "closing"}
Causes == {"none", "error", "aborted"}
Kinds == {"resolve", "connect", "read", "send", "timer", "heartbeat",
          "beat", "queue_cancelled"}

(* A stream connection in flight: the m_generation it was started in, and  *)
(* the accept operation whose socket it uses, if any.                      *)
Dials ==
  [gen : Nat, tunnel : TunnelIds, stream : StreamIds, via : AcceptOps \cup {NoOp}]

ASSUME ClientAssumption ==
  /\ ConnectOps \cap CreateOps = {}
  /\ ConnectOps \cap AcceptOps = {}
  /\ CreateOps \cap AcceptOps = {}
  /\ NoOp \notin Ops \cup Dials
  /\ NoClose \notin [prev : States, cause : Causes, notify : BOOLEAN]
  /\ Configs \subseteq [async : BOOLEAN, maxOngoing : Nat, heartbeat : BOOLEAN]
  /\ MaxRequests \in Nat

VARIABLES
  config,     \* m_config: m_async_stream_operation, m_max_ongoing_streams (0 for
              \* no limit) and m_hearbeat with a non-zero interval
  \* operations
  called,     \* API calls made
  ran,        \* calls whose ..._internal handler has run
  cancelled,  \* m_cancelled
  cancelling, \* cancellations whose cancel_... handler has not run yet
  completed,  \* m_completed
  calls,      \* how often each completion handler was invoked
  result,     \* what it was invoked with
  \* guarded by m_mutex
  nonNull,    \* m_is_state_non_null
  address,    \* m_server_address, as the call that set it
  reserved,   \* m_reserved of the connect operations
  callbacks,  \* m_control_callbacks are set
  \* the session
  state,      \* m_state
  generation, \* m_generation
  closing,    \* NoClose, or what on_close() captured for on_queue_cancelled()
  connectOp,  \* m_connect_op
  asyncOps,   \* operations in flight
  \* tunnels and streams
  createOps,  \* m_create_tunnel_ops
  tunnels,    \* m_tunnels
  shutting,   \* tunnels with m_closing
  acceptOp,   \* m_accept_tunnel_op of each tunnel
  busy,       \* accept operations with m_busy
  inUse,      \* accept operations whose peer socket is connecting or connected
  streams,    \* m_streams of each tunnel
  ready,      \* streams with m_connected
  dials,      \* stream connections in flight
  target,     \* the tunnel of each accept call
  \* history
  owner,      \* the connect operation that started the session
  creator,    \* the create operation each tunnel answers
  opened,     \* sessions that reached connected
  dropped,    \* disconnection callbacks: "clean" and "error"
  userClose,  \* close() was called in this session
  asked,      \* proxy requests per stream, in this session
  replies,    \* proxy responses per stream, in this session
  given       \* the dial each accept operation was completed with

opVars == <<called, ran, cancelled, cancelling>>
doneVars == <<completed, calls, result>>
mutexVars == <<nonNull, address, reserved, callbacks>>
sessionVars == <<state, generation, closing, asyncOps>>
tunnelVars == <<createOps, tunnels, shutting, acceptOp, creator>>
streamVars == <<busy, inUse, streams, ready, dials, target, asked, replies, given>>
historyVars == <<owner, opened, dropped, userClose>>

stateVars == <<opVars, doneVars, mutexVars, sessionVars, connectOp, tunnelVars,
               streamVars, historyVars>>

vars == <<config, stateVars>>

(* What a handler that only moves the session on leaves alone. *)
OnlySession ==
  UNCHANGED <<opVars, doneVars, mutexVars, connectOp, tunnelVars, streamVars, historyVars>>

Op(kind, gen) == [kind |-> kind, gen |-> gen]

-----------------------------------------------------------------------------
(* Mutant: the m_completed test is missing. *)
Complete_NoFlag(res) ==
  /\ completed' = completed \cup DOMAIN res
  /\ calls' = [o \in Ops |-> IF o \in DOMAIN res THEN calls[o] + 1 ELSE calls[o]]
  /\ result' = [o \in Ops |-> IF o \in DOMAIN res THEN res[o] ELSE result[o]]

(* Completion of operations: complete_connect(), complete_create_tunnel()  *)
(* and complete_accept_tunnel(), for every operation of DOMAIN res.        *)
Complete(res) ==
  LET first == DOMAIN res \ completed
  IN /\ completed' = completed \cup DOMAIN res
     /\ calls' = [o \in Ops |-> IF o \in first THEN calls[o] + 1 ELSE calls[o]]
     /\ result' = [o \in Ops |-> IF o \in first THEN res[o] ELSE result[o]]

All(S, r) == [o \in S |-> r]

-----------------------------------------------------------------------------
(* The session *)

(* set_state() emits m_state_changed_signal, which cleans the state timer  *)
(* and the heartbeat timer of the state that is left.                      *)
Untimed(pending) == {o \in pending : o.kind \notin {"timer", "heartbeat"}}

(* on_close(), with what the caller leaves in flight.  on_error() is       *)
(* on_close() with an error.                                               *)
on_close(cause, pending) ==
  IF state = "null" \/ closing # NoClose
  THEN asyncOps' = pending /\ UNCHANGED <<state, generation, closing>>
  ELSE /\ closing' = [prev |-> state, cause |-> cause, notify |-> callbacks]
       /\ generation' = generation + 1
       /\ LET after == pending \cup {Op("queue_cancelled", generation + 1)}
          IN IF state = "closing"
             THEN asyncOps' = after /\ UNCHANGED state
             ELSE asyncOps' = Untimed(after) /\ state' = "closing"

(* do_send_message() and do_read_incoming_message() *)
Sending(pending) == pending \cup {Op("send", generation)}
Reading(pending) == pending \cup {Op("read", generation)}

(* Mutant: any cancelled connect call releases the reservation. *)
release_connect_reservation_Any(op) ==
  IF state = "null" /\ nonNull
  THEN nonNull' = FALSE /\ address' = NoOp /\ reserved' = reserved \ {op}
  ELSE UNCHANGED <<nonNull, address, reserved>>

(* release_connect_reservation() *)
release_connect_reservation(op) ==
  IF op \in reserved /\ state = "null" /\ nonNull
  THEN /\ nonNull' = FALSE
       /\ address' = NoOp
       /\ reserved' = reserved \ {op}
  ELSE UNCHANGED <<nonNull, address, reserved>>

(* async_connect(): the reservation is taken in the caller's thread. *)
async_connect(op) ==
  /\ op \notin called
  /\ called' = called \cup {op}
  /\ IF nonNull
     THEN UNCHANGED <<nonNull, address, reserved>>
     ELSE /\ nonNull' = TRUE
          /\ address' = op
          /\ reserved' = reserved \cup {op}
  /\ UNCHANGED <<ran, cancelled, cancelling, doneVars, callbacks, sessionVars,
                 connectOp, tunnelVars, streamVars, historyVars>>

async_connect_internal(op) ==
  /\ op \in called \ ran
  /\ ran' = ran \cup {op}
  /\ \/ /\ op \in completed
        /\ UNCHANGED <<doneVars, mutexVars, sessionVars, connectOp, owner, userClose, asked, replies>>
     \/ /\ op \in cancelled \ completed
        /\ release_connect_reservation(op)
        /\ Complete(All({op}, "aborted"))
        /\ UNCHANGED <<callbacks, sessionVars, connectOp, owner, userClose, asked, replies>>
     \/ /\ op \notin cancelled \cup completed
        /\ op \notin reserved \/ state # "null"
        /\ Complete(All({op}, "error"))
        /\ UNCHANGED <<mutexVars, sessionVars, connectOp, owner, userClose, asked, replies>>
     \/ /\ op \notin cancelled \cup completed
        /\ op \in reserved /\ state = "null"
        /\ generation' = generation + 1
        /\ connectOp' = op
        /\ owner' = op
        /\ userClose' = FALSE
        /\ asked' = [s \in StreamIds |-> 0]
        /\ replies' = [s \in StreamIds |-> 0]
        /\ state' = "connecting"
        /\ asyncOps' = Untimed(asyncOps)
                       \cup {Op("timer", generation + 1), Op("resolve", generation + 1)}
        /\ UNCHANGED <<doneVars, mutexVars, closing>>
  /\ UNCHANGED <<called, cancelled, cancelling, tunnelVars, busy, inUse, streams, ready,
                 dials, target, given, opened, dropped>>

(* set_control_callbacks() *)
set_control_callbacks ==
  /\ ~ nonNull
  /\ callbacks' = TRUE
  /\ UNCHANGED <<opVars, doneVars, nonNull, address, reserved, sessionVars,
                 connectOp, tunnelVars, streamVars, historyVars>>

(* on_do_resolve_host() *)
on_do_resolve_host(o) ==
  /\ o \in asyncOps /\ o.kind = "resolve"
  /\ LET rest == asyncOps \ {o}
     IN IF o.gen # generation \/ state # "connecting"
        THEN asyncOps' = rest /\ UNCHANGED <<state, generation, closing>>
        ELSE \/ on_close("error", rest)
             \/ /\ asyncOps' = rest \cup {Op("connect", generation)}
                /\ UNCHANGED <<state, generation, closing>>
  /\ OnlySession

(* on_connect(): do_open() may fail (no usable token), and do_read() is    *)
(* called all the same, with the generation do_open() left.                *)
on_connect(o) ==
  /\ o \in asyncOps /\ o.kind = "connect"
  /\ LET rest == asyncOps \ {o}
     IN IF o.gen # generation \/ state # "connecting"
        THEN asyncOps' = rest /\ UNCHANGED <<state, generation, closing>>
        ELSE \/ on_close("error", rest)
             \/ on_close("error", rest \cup {Op("read", generation + 1)})
             \/ /\ asyncOps' = Reading(Sending(rest))
                /\ UNCHANGED <<state, generation, closing>>
  /\ OnlySession

(* close_internal(); close() captures nothing, so its dispatch needs no    *)
(* step of its own.                                                        *)
close ==
  /\ userClose' = (userClose \/ state # "null")
  /\ \/ state \in {"null", "closing"} /\ UNCHANGED sessionVars
     \/ state = "connecting" /\ on_close("none", asyncOps)
     \/ /\ state = "connected"
        /\ state' = "closing"
        /\ asyncOps' = Sending(Untimed(asyncOps))
                       \cup {Op("timer", generation)}
        /\ UNCHANGED <<generation, closing>>
  /\ UNCHANGED <<opVars, doneVars, mutexVars, connectOp, tunnelVars, streamVars,
                 owner, opened, dropped>>

(* Mutant: an expired timer is only cleaned. *)
on_timer_NoError(o) ==
  /\ o \in asyncOps /\ o.kind = "timer"
  /\ asyncOps' = asyncOps \ {o}
  /\ UNCHANGED <<state, generation, closing>>
  /\ OnlySession

(* The state timer of arm_state_timer(). *)
on_timer(o) ==
  /\ o \in asyncOps /\ o.kind = "timer"
  /\ IF o.gen = generation
     THEN on_close("error", asyncOps \ {o})
     ELSE asyncOps' = asyncOps \ {o} /\ UNCHANGED <<state, generation, closing>>
  /\ OnlySession

(* on_send_message(); the completion of a heartbeat ("beat") arms the next *)
(* heartbeat timer, which sends one when it fires.                         *)
on_send_message(o) ==
  /\ o \in asyncOps /\ o.kind \in {"send", "beat"}
  /\ LET rest == asyncOps \ {o}
     IN IF o.gen # generation \/ state = "null"
        THEN asyncOps' = rest /\ UNCHANGED <<state, generation, closing>>
        ELSE \/ on_close("error", rest)
             \/ /\ asyncOps' = IF o.kind = "beat" /\ state = "connected"
                               THEN rest \cup {Op("heartbeat", generation)}
                               ELSE rest
                /\ UNCHANGED <<state, generation, closing>>
  /\ OnlySession

on_heartbeat_timer(o) ==
  /\ o \in asyncOps /\ o.kind = "heartbeat"
  /\ asyncOps' = (asyncOps \ {o}) \cup
                 (IF o.gen = generation /\ state # "null" THEN {Op("beat", generation)} ELSE {})
  /\ UNCHANGED <<opVars, doneVars, mutexVars, state, generation, closing,
                 connectOp, tunnelVars, streamVars, historyVars>>

-----------------------------------------------------------------------------
(* Tunnels *)

(* async_create_tunnel() and tunnel::async_accept() dispatch their          *)
(* internal handler; a cancellation may reach the operation before it.     *)
async_create_tunnel(op) ==
  /\ op \in CreateOps \ called
  /\ called' = called \cup {op}
  /\ UNCHANGED <<ran, cancelled, cancelling, doneVars, mutexVars, sessionVars,
                 connectOp, tunnelVars, streamVars, historyVars>>

async_accept_tunnel(op, t) ==
  /\ op \in AcceptOps \ called
  /\ creator[t] # NoOp /\ result[creator[t]] = "ok"   \* the caller has the tunnel
  /\ called' = called \cup {op}
  /\ target' = [target EXCEPT ![op] = t]
  /\ UNCHANGED <<ran, cancelled, cancelling, doneVars, mutexVars, sessionVars,
                 connectOp, tunnelVars, busy, inUse, streams, ready, dials, asked,
                 replies, given, historyVars>>

async_create_tunnel_internal(op) ==
  /\ op \in (CreateOps \cap called) \ ran
  /\ ran' = ran \cup {op}
  /\ \/ /\ op \in completed
        /\ UNCHANGED <<doneVars, createOps, asyncOps>>
     \/ /\ op \in cancelled \ completed
        /\ Complete(All({op}, "aborted"))
        /\ UNCHANGED <<createOps, asyncOps>>
     \/ /\ op \notin cancelled \cup completed   \* not connected, or a configuration error
        /\ Complete(All({op}, "error"))
        /\ UNCHANGED <<createOps, asyncOps>>
     \/ /\ op \notin cancelled \cup completed
        /\ state = "connected"
        /\ createOps' = createOps \cup {op}
        /\ asyncOps' = Sending(asyncOps)
        /\ UNCHANGED doneVars
  /\ UNCHANGED <<called, cancelled, cancelling, mutexVars, state, generation, closing,
                 connectOp, tunnels, shutting, acceptOp, creator, streamVars, historyVars>>

(* close_tunnel_internal() *)
close_tunnel(t) ==
  /\ state = "connected" /\ t \in tunnels \ shutting
  /\ shutting' = shutting \cup {t}
  /\ asyncOps' = Sending(asyncOps)
  /\ UNCHANGED <<opVars, doneVars, mutexVars, state, generation, closing, connectOp,
                 createOps, tunnels, acceptOp, creator, streamVars, historyVars>>

(* do_send_proxy_response() for each stream of S *)
do_send_proxy_response(S) ==
  replies' = [s \in StreamIds |->
                IF s \in S /\ state = "connected" THEN replies[s] + 1 ELSE replies[s]]

(* Erasing a stream of m_streams. *)
EraseStream(t, s) ==
  /\ streams' = [streams EXCEPT ![t] = @ \ {s}]
  /\ ready' = [ready EXCEPT ![t] = @ \ {s}]

(* Mutant: connected streams are not looked for. *)
Takeable_None(t) == {}

(* the streams an accept operation can complete with at once *)
Takeable(t) == IF config.async THEN ready[t] ELSE {}

(* do_connect_stream() without a socket of the stream's own: the socket of *)
(* the pending accept operation is taken, if there is one and it is free.  *)
(* settings() refuses a socket that is still in use, and the dial fails    *)
(* before it starts.                                                       *)
CanDial(op) == op # NoOp /\ op \notin busy
Dial(t, s, via) == [gen |-> generation, tunnel |-> t, stream |-> s, via |-> via]

async_accept_tunnel_internal(op, t) ==
  /\ op \in (AcceptOps \cap called) \ ran
  /\ t = target[op]
  /\ ran' = ran \cup {op}
  /\ \/ /\ op \in completed
        /\ UNCHANGED <<doneVars, acceptOp, streamVars>>
     \/ /\ op \in cancelled \ completed
        /\ Complete(All({op}, "aborted"))
        /\ UNCHANGED <<acceptOp, streamVars>>
     \/ /\ op \notin cancelled \cup completed
        /\ state # "connected" \/ t \notin tunnels \/ acceptOp[t] # NoOp
        /\ Complete(All({op}, "error"))
        /\ UNCHANGED <<acceptOp, streamVars>>
     \/ /\ op \notin cancelled \cup completed
        /\ state = "connected" /\ t \in tunnels /\ acceptOp[t] = NoOp
        /\ IF Takeable(t) # {}
           THEN \E s \in Takeable(t) :
                  /\ Complete(All({op}, "ok"))
                  /\ given' = [given EXCEPT ![op] = Dial(t, s, NoOp)]
                  /\ EraseStream(t, s)
                  /\ UNCHANGED <<acceptOp, busy, inUse, dials, target, asked, replies>>
           ELSE /\ acceptOp' = [acceptOp EXCEPT ![t] = op]
                /\ IF ~ config.async /\ streams[t] # {}
                   THEN \E s \in streams[t] :
                          /\ busy' = busy \cup {op}
                          /\ inUse' = inUse \cup {op}
                          /\ dials' = dials \cup {Dial(t, s, op)}
                   ELSE UNCHANGED <<busy, inUse, dials>>
                /\ UNCHANGED <<doneVars, streams, ready, target, asked, replies, given>>
  /\ UNCHANGED <<called, cancelled, cancelling, mutexVars, sessionVars, connectOp,
                 createOps, tunnels, shutting, creator, historyVars>>

(* Mutant: the flag is set and no handler dispatched. *)
EmitSlot_NoDispatch(op) ==
  /\ op \in called \ cancelled
  /\ cancelled' = cancelled \cup {op}
  /\ UNCHANGED <<called, ran, cancelling, doneVars, mutexVars, sessionVars, connectOp,
                 tunnelVars, streamVars, historyVars>>

(* A cancellation signal: m_cancelled is set in the emitting thread and    *)
(* the cancel_... handler is dispatched to the strand.                     *)
EmitSlot(op) ==
  /\ op \in called \ cancelled
  /\ cancelled' = cancelled \cup {op}
  /\ cancelling' = cancelling \cup {op}
  /\ UNCHANGED <<called, ran, doneVars, mutexVars, sessionVars, connectOp,
                 tunnelVars, streamVars, historyVars>>

cancel_connect(op) ==
  /\ op \in ConnectOps \cap cancelling
  /\ cancelling' = cancelling \ {op}
  /\ \/ op \in completed /\ UNCHANGED <<doneVars, mutexVars, sessionVars>>
     \/ /\ op \notin completed /\ connectOp = op
        /\ on_close("aborted", asyncOps)
        /\ UNCHANGED <<doneVars, mutexVars>>
     \/ /\ op \notin completed /\ connectOp # op
        /\ release_connect_reservation(op)
        /\ Complete(All({op}, "aborted"))
        /\ UNCHANGED <<callbacks, sessionVars>>
  /\ UNCHANGED <<called, ran, cancelled, connectOp, tunnelVars, streamVars, historyVars>>

cancel_create_tunnel(op) ==
  /\ op \in CreateOps \cap cancelling
  /\ cancelling' = cancelling \ {op}
  /\ Complete(All({op}, "aborted"))
  /\ UNCHANGED <<called, ran, cancelled, mutexVars, sessionVars, connectOp,
                 tunnelVars, streamVars, historyVars>>

cancel_accept_tunnel(op) ==
  /\ op \in AcceptOps \cap cancelling
  /\ cancelling' = cancelling \ {op}
  /\ IF \E t \in tunnels : acceptOp[t] = op
     THEN /\ inUse' = IF op \in busy THEN inUse \ {op} ELSE inUse
          /\ acceptOp' = [t \in TunnelIds |-> IF acceptOp[t] = op THEN NoOp ELSE acceptOp[t]]
          /\ Complete(All({op}, "aborted"))
     ELSE UNCHANGED <<inUse, acceptOp, doneVars>>
  /\ UNCHANGED <<called, ran, cancelled, mutexVars, sessionVars, connectOp, createOps,
                 tunnels, shutting, creator, busy, streams, ready, dials, target, asked,
                 replies, given, historyVars>>

-----------------------------------------------------------------------------
(* Messages of the engine.  on_read_incoming_data() hands each to one of   *)
(* the handlers below and reads again: the read stays in flight unless the *)
(* handler closes the session.  Heartbeats and server messages only read   *)
(* again, which changes nothing.                                           *)

Expected(m) ==
  \/ state = "connecting" /\ m = "open"
  \/ state \in {"connected", "closing"} /\ m # "open"

(* Mutant: the generation is not compared. *)
Read_AnyGeneration(o) == o \in asyncOps /\ o.kind = "read" /\ state # "null"

(* on_read_incoming_data(): an outstanding read of the current generation. *)
Read(o) == o \in asyncOps /\ o.kind = "read" /\ o.gen = generation /\ state # "null"

on_read_stale(o) ==
  /\ o \in asyncOps /\ o.kind = "read"
  /\ ~ Read(o)
  /\ asyncOps' = asyncOps \ {o}
  /\ UNCHANGED <<opVars, doneVars, mutexVars, state, generation, closing, connectOp,
                 tunnelVars, streamVars, historyVars>>

(* The read fails, the message does not parse, is not expected in this     *)
(* state, refuses the session, or names an unknown request or tunnel.      *)
on_read_error(o) ==
  /\ Read(o)
  /\ on_close("error", asyncOps \ {o})
  /\ OnlySession

on_open(o) ==
  /\ Read(o) /\ Expected("open")
  /\ state' = "connected"
  /\ Complete(All({connectOp}, "ok"))
  /\ connectOp' = NoOp
  /\ opened' = IF callbacks THEN opened + 1 ELSE opened
  /\ asyncOps' = Untimed(asyncOps)
                 \cup (IF config.heartbeat THEN {Op("heartbeat", generation)} ELSE {})
  /\ UNCHANGED <<opVars, mutexVars, generation, closing, tunnelVars, streamVars,
                 owner, dropped, userClose>>

(* Mutant: the tunnel of a cancelled operation is kept. *)
on_tunnel_response_Keep(o, op, t) ==
  /\ Read(o) /\ Expected("tunnel")
  /\ op \in createOps /\ creator[t] = NoOp
  /\ createOps' = createOps \ {op}
  /\ creator' = [creator EXCEPT ![t] = op]
  /\ tunnels' = tunnels \cup {t}
  /\ Complete(All({op}, IF op \in cancelled THEN "aborted" ELSE "ok"))
  /\ UNCHANGED <<opVars, mutexVars, sessionVars, connectOp, shutting, acceptOp,
                 streamVars, historyVars>>

(* on_tunnel_response() with a tunnel.  Its identifier is fresh: a         *)
(* duplicate of an active one is a protocol error.                         *)
on_tunnel_response(o, op, t) ==
  /\ Read(o) /\ Expected("tunnel")
  /\ op \in createOps
  /\ creator[t] = NoOp
  /\ createOps' = createOps \ {op}
  /\ creator' = [creator EXCEPT ![t] = op]
  /\ tunnels' = tunnels \cup {t}
  /\ IF op \in cancelled
     THEN /\ Complete(All({op}, "aborted"))
          /\ IF state = "connected"
             THEN shutting' = shutting \cup {t} /\ asyncOps' = Sending(asyncOps)
             ELSE UNCHANGED <<shutting, asyncOps>>
     ELSE Complete(All({op}, "ok")) /\ UNCHANGED <<shutting, asyncOps>>
  /\ UNCHANGED <<opVars, mutexVars, state, generation, closing, connectOp, acceptOp,
                 streamVars, historyVars>>

on_tunnel_refused(o, op) ==
  /\ Read(o) /\ Expected("tunnel")
  /\ op \in createOps
  /\ createOps' = createOps \ {op}
  /\ Complete(All({op}, IF op \in cancelled THEN "aborted" ELSE "error"))
  /\ UNCHANGED <<opVars, mutexVars, sessionVars, connectOp, tunnels, shutting, acceptOp,
                 creator, streamVars, historyVars>>

(* Mutant: closing a tunnel forgets the accept operation on it. *)
Accepting_None(T) == {}

(* on_tunnel_close() of the tunnels of T, with the accept operations       *)
(* pending on them, which it completes.                                    *)
Accepting(T) == {acceptOp[t] : t \in T} \ {NoOp}

on_tunnel_close(T) ==
  /\ tunnels' = tunnels \ T
  /\ shutting' = shutting \ T
  /\ acceptOp' = [t \in TunnelIds |-> IF t \in T THEN NoOp ELSE acceptOp[t]]
  /\ streams' = [t \in TunnelIds |-> IF t \in T THEN {} ELSE streams[t]]
  /\ ready' = [t \in TunnelIds |-> IF t \in T THEN {} ELSE ready[t]]
  /\ inUse' = inUse \ (Accepting(T) \cap busy)

on_tunnel_closed(o, t) ==
  /\ Read(o) /\ Expected("tunnel_close")
  /\ t \in tunnels
  /\ on_tunnel_close({t})
  /\ Complete(All(Accepting({t}), "error"))
  /\ UNCHANGED <<opVars, mutexVars, sessionVars, connectOp, createOps, creator, busy,
                 dials, target, asked, replies, given, historyVars>>

HasRoom(t) == config.maxOngoing = 0 \/ Cardinality(streams[t]) < config.maxOngoing

(* on_proxy_request(), and the refusal of a request with a bad endpoint. *)
on_proxy_request(o, t, s) ==
  /\ Read(o) /\ Expected("proxy")
  /\ t \in tunnels /\ asked[s] < MaxRequests
  /\ asked' = [asked EXCEPT ![s] = @ + 1]
  /\ \/ state # "connected" /\ UNCHANGED <<busy, inUse, streams, dials, replies, asyncOps>>
     \/ /\ state = "connected"   \* refused, too many streams or already known
        /\ do_send_proxy_response({s})
        /\ asyncOps' = Sending(asyncOps)
        /\ UNCHANGED <<busy, inUse, streams, dials>>
     \/ /\ state = "connected"
        /\ s \notin streams[t]
        /\ HasRoom(t)
        /\ LET op == acceptOp[t]
           IN \/ /\ config.async
                 /\ streams' = [streams EXCEPT ![t] = @ \cup {s}]
                 /\ dials' = dials \cup {Dial(t, s, NoOp)}
                 /\ UNCHANGED <<busy, inUse, replies, asyncOps>>
              \/ /\ ~ config.async /\ CanDial(op) /\ op \notin inUse
                 /\ streams' = [streams EXCEPT ![t] = @ \cup {s}]
                 /\ busy' = busy \cup {op}
                 /\ inUse' = inUse \cup {op}
                 /\ dials' = dials \cup {Dial(t, s, op)}
                 /\ UNCHANGED <<replies, asyncOps>>
              \/ /\ ~ config.async /\ CanDial(op) /\ op \in inUse   \* settings() fails
                 /\ do_send_proxy_response({s})
                 /\ asyncOps' = Sending(asyncOps)
                 /\ UNCHANGED <<busy, inUse, streams, dials>>
              \/ /\ ~ config.async /\ ~ CanDial(op)   \* delayed
                 /\ streams' = [streams EXCEPT ![t] = @ \cup {s}]
                 /\ UNCHANGED <<busy, inUse, dials, replies, asyncOps>>
  /\ UNCHANGED <<opVars, doneVars, mutexVars, state, generation, closing, connectOp,
                 tunnelVars, ready, target, given, historyVars>>

(* Mutant: the engine closing on its own is not an error. *)
on_close_response_Clean(o) ==
  /\ Read(o) /\ Expected("close")
  /\ closing = NoClose
  /\ on_close("none", asyncOps \ {o})
  /\ OnlySession

(* A CloseControlChannelRsp: the end of a close() of ours, or the engine's *)
(* own decision.                                                           *)
on_close_response(o) ==
  /\ Read(o) /\ Expected("close")
  /\ closing = NoClose
  /\ on_close(IF state = "closing" THEN "none" ELSE "error", asyncOps \ {o})
  /\ OnlySession

-----------------------------------------------------------------------------
(* Mutant: a dial of an earlier session is handled. *)
StaleDial_AnyGeneration(d) == state # "connected"

(* on_connect_stream() *)
Freed(op) == busy \ {op}
StaleDial(d) == d.gen # generation \/ state # "connected"

on_connect_stream(d, ok) ==
  /\ d \in dials
  /\ dials' = dials \ {d}
  /\ inUse' = IF ok THEN inUse ELSE inUse \ {d.via}   \* a failed socket is null again
  /\ LET t == d.tunnel
         s == d.stream
         op == acceptOp[t]
     IN IF StaleDial(d)
        THEN UNCHANGED <<doneVars, acceptOp, busy, streams, ready, replies, given, asyncOps>>
        ELSE /\ do_send_proxy_response({s})
             /\ asyncOps' = Sending(asyncOps)
             /\ \/ /\ t \notin tunnels \/ s \notin streams[t]
                   /\ UNCHANGED <<doneVars, acceptOp, busy, streams, ready, given>>
                \/ /\ t \in tunnels /\ s \in streams[t]
                   /\ busy' = Freed(op)
                   /\ \/ /\ ~ ok
                         /\ EraseStream(t, s)
                         /\ UNCHANGED <<doneVars, acceptOp, given>>
                      \/ /\ ok /\ op # NoOp
                         /\ EraseStream(t, s)
                         /\ Complete(All({op}, "ok"))
                         /\ given' = [given EXCEPT ![op] = d]
                         /\ acceptOp' = [acceptOp EXCEPT ![t] = NoOp]
                      \/ /\ ok /\ op = NoOp
                         /\ ready' = IF config.async
                                     THEN [ready EXCEPT ![t] = @ \cup {s}]
                                     ELSE ready
                         /\ UNCHANGED <<doneVars, acceptOp, streams, given>>
  /\ UNCHANGED <<opVars, mutexVars, state, generation, closing, connectOp, createOps,
                 tunnels, shutting, creator, target, asked, historyVars>>

(* Mutant: the previous state is not looked at. *)
Notifies_Always(c) == c.notify

(* The disconnection callback is for sessions that opened. *)
Notifies(c) == c.notify /\ c.prev # "connecting"

(* on_queue_cancelled(): the end of every session. *)
on_queue_cancelled(o) ==
  /\ o \in asyncOps /\ o.kind = "queue_cancelled"
  /\ closing # NoClose
  /\ state' = "null"
  /\ asyncOps' = Untimed(asyncOps \ {o})
  /\ closing' = NoClose
  /\ nonNull' = FALSE
  /\ address' = NoOp
  /\ callbacks' = FALSE
  /\ createOps' = {}
  /\ on_tunnel_close(tunnels)
  /\ LET connect == IF closing.prev = "connecting" THEN {connectOp} \ {NoOp} ELSE {}
         ended == createOps \cup Accepting(tunnels) \cup connect
     IN Complete([p \in ended |->
                    IF p \in Accepting(tunnels) THEN "error"   \* tunnel_not_found
                    ELSE IF p \in createOps \cap cancelled THEN "aborted"
                    ELSE IF closing.cause = "error" THEN "error" ELSE "aborted"])
  /\ connectOp' = NoOp
  /\ dropped' = IF Notifies(closing)
                THEN [dropped EXCEPT ![closing.cause] = @ + 1]
                ELSE dropped
  /\ UNCHANGED <<opVars, reserved, generation, creator, busy, dials, target, asked,
                 replies, given, owner, opened, userClose>>

-----------------------------------------------------------------------------
Init ==
  /\ config \in Configs
  /\ called = {} /\ ran = {} /\ cancelled = {} /\ cancelling = {}
  /\ completed = {}
  /\ calls = [o \in Ops |-> 0]
  /\ result = [o \in Ops |-> "none"]
  /\ nonNull = FALSE /\ address = NoOp /\ reserved = {} /\ callbacks = FALSE
  /\ state = "null" /\ generation = 0 /\ closing = NoClose /\ connectOp = NoOp
  /\ asyncOps = {}
  /\ createOps = {} /\ tunnels = {} /\ shutting = {}
  /\ acceptOp = [t \in TunnelIds |-> NoOp]
  /\ creator = [t \in TunnelIds |-> NoOp]
  /\ busy = {} /\ inUse = {} /\ dials = {}
  /\ streams = [t \in TunnelIds |-> {}]
  /\ ready = [t \in TunnelIds |-> {}]
  /\ target = [o \in AcceptOps |-> NoOp]
  /\ asked = [s \in StreamIds |-> 0]
  /\ replies = [s \in StreamIds |-> 0]
  /\ given = [o \in AcceptOps |-> NoOp]
  /\ owner = NoOp /\ opened = 0 /\ userClose = FALSE
  /\ dropped = [c \in Causes |-> 0]

(* Calls of the application, from any thread. *)
UserNext ==
  \/ set_control_callbacks
  \/ close
  \/ \E op \in ConnectOps : async_connect(op)
  \/ \E op \in CreateOps : async_create_tunnel(op)
  \/ \E op \in AcceptOps, t \in TunnelIds : async_accept_tunnel(op, t)
  \/ \E t \in TunnelIds : close_tunnel(t)
  \/ \E op \in Ops : EmitSlot(op)

(* Dispatched handlers reaching the strand. *)
DispatchNext ==
  \/ \E op \in ConnectOps : async_connect_internal(op) \/ cancel_connect(op)
  \/ \E op \in CreateOps : async_create_tunnel_internal(op) \/ cancel_create_tunnel(op)
  \/ \E op \in AcceptOps : cancel_accept_tunnel(op)
  \/ \E op \in AcceptOps, t \in TunnelIds : async_accept_tunnel_internal(op, t)

(* Completions of the asynchronous operations of the session. *)
SessionNext ==
  \E o \in asyncOps :
    \/ on_do_resolve_host(o)
    \/ on_connect(o)
    \/ on_timer(o)
    \/ on_send_message(o)
    \/ on_heartbeat_timer(o)
    \/ on_queue_cancelled(o)
    \/ on_read_stale(o)
    \/ on_read_error(o)
    \/ on_open(o)
    \/ on_close_response(o)
    \/ \E op \in createOps : on_tunnel_refused(o, op)
    \/ \E op \in createOps, t \in TunnelIds : on_tunnel_response(o, op, t)
    \/ \E t \in tunnels : on_tunnel_closed(o, t)
    \/ \E t \in tunnels, s \in StreamIds : on_proxy_request(o, t, s)

StreamNext == \E d \in dials, ok \in BOOLEAN : on_connect_stream(d, ok)

Next == (UserNext \/ DispatchNext \/ SessionNext \/ StreamNext) /\ UNCHANGED config

Spec == Init /\ [][Next]_vars

(* Handlers dispatched to the strand run, an armed timer expires, and the  *)
(* cancellation of the send queue completes (SendQueue!CancelCompletes).   *)
(* Nothing is assumed of the engine, the network or the application.       *)
Fairness ==
  /\ \A op \in ConnectOps : WF_stateVars(async_connect_internal(op)) /\ WF_stateVars(cancel_connect(op))
  /\ \A op \in CreateOps : WF_stateVars(async_create_tunnel_internal(op)) /\ WF_stateVars(cancel_create_tunnel(op))
  /\ \A op \in AcceptOps :
       WF_stateVars(cancel_accept_tunnel(op)) /\ WF_stateVars(\E t \in TunnelIds : async_accept_tunnel_internal(op, t))
  /\ WF_stateVars(\E o \in asyncOps : on_timer(o))
  /\ WF_stateVars(\E o \in asyncOps : on_queue_cancelled(o))

-----------------------------------------------------------------------------
(* Properties *)

(* Each connect, create and accept handler is invoked exactly once, when   *)
(* its operation is marked completed, whatever mix of answers, errors,     *)
(* cancellations, timeouts and closes reaches it.                          *)
CompletedOnce ==
  \A op \in Ops : calls[op] = IF op \in completed THEN 1 ELSE 0

(* m_is_state_non_null, which callers on any thread test under m_mutex,    *)
(* tells exactly whether the strand has a session or will start one: at    *)
(* most one reservation is outstanding, it never coexists with a session,  *)
(* and a live session keeps the address its own connect call set.          *)
Outstanding == reserved \ (ran \cup completed)
ReservationSound ==
  /\ \A p, q \in Outstanding : p = q
  /\ state # "null" => Outstanding = {} /\ address = owner
  /\ nonNull <=> (state # "null" \/ Outstanding # {})

(* An operation whose handler has run and that is not completed is where   *)
(* the end of the session finds it; with no session there is none.  So no  *)
(* handler is ever lost.                                                   *)
NoOrphan ==
  \A op \in ran \ completed :
    /\ state # "null"
    /\ \/ op = connectOp /\ (state = "connecting" \/ (closing # NoClose /\ closing.prev = "connecting"))
       \/ op \in createOps
       \/ op \in AcceptOps /\ target[op] \in tunnels /\ acceptOp[target[op]] = op

(* Something is always in flight that moves the session on: the timer of   *)
(* this state while connecting or closing, a read while connected (a       *)
(* session without one is deaf), the cancellation of the queue once        *)
(* on_close() has run.                                                     *)
SessionDriven ==
  IF closing # NoClose
  THEN \E o \in asyncOps : o.kind = "queue_cancelled"
  ELSE /\ state = "connecting" => Op("timer", generation) \in asyncOps
       /\ state = "connected" => Op("read", generation) \in asyncOps
       /\ state = "closing" => {Op("timer", generation), Op("read", generation)} \subseteq asyncOps

(* With control callbacks installed, every session that opened is reported *)
(* disconnected exactly once, and a connection that never opened is not.   *)
InSession ==
  \/ state = "connected"
  \/ state = "closing" /\ (closing = NoClose \/ closing.prev # "connecting")
DisconnectOnce ==
  opened = dropped["none"] + dropped["error"] + dropped["aborted"]
           + (IF callbacks /\ InSession THEN 1 ELSE 0)

(* A disconnection is reported as clean only after the application called  *)
(* close() in that same session.                                           *)
CleanOnlyIfClosed ==
  [][dropped'["none"] # dropped["none"] => userClose]_vars

(* The tunnel of a create operation that was aborted is closed again: its  *)
(* CloseTunnelReq has been sent by the time the engine's answer has been   *)
(* handled, unless the session is closing.                                 *)
AbandonedTunnelClosed ==
  \A t \in tunnels :
    state = "connected" /\ result[creator[t]] = "aborted" => t \in shutting

(* No lost wakeup: an accept operation never waits on a tunnel that has a  *)
(* connected stream, and every other stream is being dialled in this       *)
(* session (m_async_stream_operation).                                     *)
NoLostStream ==
  config.async /\ state = "connected" =>
    \A t \in tunnels :
      /\ acceptOp[t] # NoOp => ready[t] = {}
      /\ \A s \in streams[t] \ ready[t] : Dial(t, s, NoOp) \in dials

(* An accept operation is never left busy with no dial in flight that      *)
(* would free it.                                                          *)
NoStuckBusy ==
  state = "connected" =>
    \A t \in tunnels : acceptOp[t] \in busy =>
      \E d \in dials : d.via = acceptOp[t] /\ d.gen = generation /\ d.stream \in streams[t]

(* No stream waits for nothing: one that is ready is taken by a waiting    *)
(* accept call, and an accept call is busy only as long as its dial is on  *)
(* its way.                                                                *)
NoStreamStuck == NoLostStream /\ NoStuckBusy

(* m_max_ongoing_streams bounds the streams a tunnel holds. *)
StreamLimit ==
  config.maxOngoing # 0 =>
    \A t \in TunnelIds : Cardinality(streams[t]) <= config.maxOngoing

(* The engine never gets more responses for a stream than it made requests *)
(* in the same session.                                                    *)
RepliesBounded == \A s \in StreamIds : replies[s] <= asked[s]

(* An accept operation that succeeds gets a stream of its own tunnel, and  *)
(* of this session's streams no two operations get the same one, unless    *)
(* the engine asked for it twice.                                          *)
GivenOnce ==
  \A op \in AcceptOps :
    result[op] = "ok" =>
      /\ given[op] # NoOp /\ given[op].tunnel = target[op]
      /\ \A other \in AcceptOps \ {op} :
           (/\ given[other] # NoOp
            /\ given[other].stream = given[op].stream
            /\ {given[op].gen, given[other].gen} = {generation})
           => asked[given[op].stream] > 1

(* Streams are accounted for: they stay within the limit, and those dialled *)
(* ahead of the accept calls are answered once per request and given once.  *)
StreamsAccounted ==
  /\ StreamLimit
  /\ config.async => RepliesBounded /\ GivenOnce

(* A delayed stream is dialled once an accept operation is available       *)
(* (without m_async_stream_operation).                                     *)
DelayedUntilAccept ==
  ~ config.async /\ state = "connected" =>
    \A t \in tunnels :
      CanDial(acceptOp[t]) => \A s \in streams[t] : \E d \in dials : d.stream = s

(* A session that is closing ends, even if the engine never answers. *)
CloseEnds == (state = "closing") ~> (state = "null")

(* Every connect call completes, even if nobody answers. *)
ConnectCompletes == \A op \in ConnectOps : (op \in called) ~> (op \in completed)

(* Every operation that is cancelled completes. *)
CancelCompletes == \A op \in Ops : (op \in cancelled) ~> (op \in completed)

-----------------------------------------------------------------------------
(* Instances for TLC. *)

Config(async, max, heartbeat) == [async |-> async, maxOngoing |-> max, heartbeat |-> heartbeat]
SessionConfigs == {Config(TRUE, 0, FALSE), Config(TRUE, 0, TRUE)}
StreamConfigs == {Config(TRUE, 0, FALSE), Config(FALSE, 0, FALSE), Config(TRUE, 1, FALSE)}
SyncConfigs == {Config(FALSE, 0, FALSE)}

Symmetry ==
  Permutations(ConnectOps) \cup Permutations(AcceptOps) \cup Permutations(StreamIds)

(* Bounds on the calls of a behaviour, and on its calls and streams together. *)
AtMostOne(Kind) == Cardinality(called' \cap Kind) <= 1

AcceptsAndStreams(n) ==
  Cardinality(called' \cap AcceptOps) + Cardinality({s \in StreamIds : asked'[s] > 0}) <= n

First(Kind) == {CHOOSE op \in Kind : TRUE}

(* Two sessions in turn and no tunnel, or one session: with heartbeats, or    *)
(* with a tunnel and an accept call.                                          *)
SessionsNext ==
  /\ Next
  /\ IF config.heartbeat
     THEN called' \subseteq First(ConnectOps)
     ELSE \/ called' \subseteq ConnectOps
          \/ called' \cap ConnectOps \subseteq First(ConnectOps)

SessionSpec == Init /\ [][SessionsNext]_vars /\ Fairness

(* The session ends and its connect call completes, whoever keeps silent. *)
SessionEnds == CloseEnds /\ ConnectCompletes

(* One session whose streams are dialled ahead of the accept calls, one whose *)
(* streams are dialled for an accept call, and two sessions in turn with at   *)
(* most one stream and no cancellation.                                       *)
StreamsNext ==
  /\ Next
  /\ \/ /\ config.async /\ config.maxOngoing = 0
        /\ AtMostOne(ConnectOps) /\ AcceptsAndStreams(3)
     \/ ~ config.async /\ AtMostOne(ConnectOps) /\ AtMostOne(AcceptOps)
     \/ config.maxOngoing = 1 /\ called' \cap AcceptOps = {} /\ cancelled' = {}

StreamsSpec == Init /\ [][StreamsNext]_vars
=============================================================================
