---------------------------- MODULE ClientProofs ----------------------------
(***************************************************************************)
(* Proofs about Client, for any sets of operations, tunnels and streams,   *)
(* either stream mode and any limit.                                       *)
(***************************************************************************)
EXTENDS Client, TLAPS

(* The inductive invariant behind ReservationSound and NoOrphan: the       *)
(* connect calls, with where each of them is ...                           *)
ConnectInv ==
  /\ state \in States
  /\ callbacks \in BOOLEAN
  /\ closing # NoClose => state = "closing"
  /\ ran \subseteq called \cap Ops
  /\ cancelling \subseteq called
  /\ reserved \subseteq called \cap ConnectOps
  /\ completed \cap ConnectOps \subseteq called
  /\ connectOp \in (ran \cap ConnectOps) \cup {NoOp}
  /\ connectOp # NoOp =>
       state = "connecting" \/ (closing # NoClose /\ closing.prev = "connecting")
  /\ \A op \in (ran \cap ConnectOps) \ completed : op = connectOp
  /\ \A op \in Outstanding : address = op
  /\ ReservationSound

(* ... and the create and accept calls: one that has run and is not        *)
(* completed is registered with the session or with its tunnel.            *)
TunnelInv ==
  /\ createOps \subseteq CreateOps
  /\ acceptOp \in [TunnelIds -> AcceptOps \cup {NoOp}]
  /\ target \in [AcceptOps -> TunnelIds \cup {NoOp}]
  /\ state = "null" => createOps = {} /\ tunnels = {}
  /\ tunnels \subseteq TunnelIds
  /\ \A t \in TunnelIds :
       acceptOp[t] # NoOp => t \in tunnels /\ target[acceptOp[t]] = t /\ acceptOp[t] \in ran
  /\ \A op \in (ran \cap CreateOps) \ completed : op \in createOps
  /\ \A op \in (ran \cap AcceptOps) \ completed :
       target[op] \in tunnels /\ acceptOp[target[op]] = op

-----------------------------------------------------------------------------
(* What on_close() and the handlers built on it do to the session: nothing,*)
(* or they move a live session to closing and remember where it was.       *)
MovesOn ==
  \/ UNCHANGED <<state, closing>>
  \/ /\ state # "null" /\ closing = NoClose
     /\ state' = "closing"
     /\ closing' # NoClose /\ closing'.prev = state
     /\ closing'.cause \in Causes /\ closing'.notify = callbacks

LEMMA CloseMovesOn ==
  ASSUME NEW cause \in Causes, NEW pending,
         state \in States, callbacks \in BOOLEAN,
         on_close(cause, pending)
  PROVE  MovesOn
<1>1. CASE state = "null" \/ closing # NoClose
  BY <1>1 DEF on_close, MovesOn
<1>2. CASE ~ (state = "null" \/ closing # NoClose)
  <2>1. closing' = [prev |-> state, cause |-> cause, notify |-> callbacks]
    BY <1>2 DEF on_close
  <2>2. closing' # NoClose /\ closing'.prev = state
        /\ closing'.cause \in Causes /\ closing'.notify = callbacks
    BY <2>1, ClientAssumption
  <2>3. state' = "closing"
    BY <1>2 DEF on_close
  <2> QED
    BY <1>2, <2>2, <2>3 DEF MovesOn
<1> QED
  BY <1>1, <1>2

(* Handlers that only move the session on preserve the invariant. *)
LEMMA MovesOnConnect ==
  ASSUME ConnectInv, MovesOn,
         cancelling' \subseteq called',
         UNCHANGED <<called, ran, completed, nonNull, address, reserved, callbacks,
                     connectOp, owner>>
  PROVE  ConnectInv'
<1>1. Outstanding' = Outstanding
  BY DEF Outstanding
<1>2. CASE UNCHANGED <<state, closing>>
  BY <1>1, <1>2 DEF ConnectInv, ReservationSound
<1>3. CASE state # "null" /\ closing = NoClose /\ state' = "closing"
           /\ closing' # NoClose /\ closing'.prev = state
  BY <1>1, <1>3 DEF ConnectInv, ReservationSound, States
<1> QED
  BY <1>2, <1>3 DEF MovesOn

LEMMA MovesOnTunnel ==
  ASSUME TunnelInv, MovesOn,
         UNCHANGED <<ran, completed, createOps, tunnels, acceptOp, target>>
  PROVE  TunnelInv'
  BY DEF TunnelInv, MovesOn

LEMMA SessionHandlers ==
  ASSUME state \in States, callbacks \in BOOLEAN, NEW o \in asyncOps,
         \/ on_do_resolve_host(o) \/ on_connect(o) \/ on_timer(o)
         \/ on_send_message(o) \/ on_heartbeat_timer(o) \/ on_read_stale(o)
         \/ on_read_error(o) \/ on_close_response(o)
  PROVE  MovesOn /\ OnlySession
<1> USE DEF Causes
<1>1. CASE on_do_resolve_host(o)
  BY <1>1, CloseMovesOn DEF on_do_resolve_host, MovesOn
<1>2. CASE on_connect(o)
  BY <1>2, CloseMovesOn DEF on_connect, MovesOn
<1>3. CASE on_timer(o)
  BY <1>3, CloseMovesOn DEF on_timer, MovesOn
<1>4. CASE on_send_message(o)
  BY <1>4, CloseMovesOn DEF on_send_message, MovesOn
<1>5. CASE on_heartbeat_timer(o)
  BY <1>5 DEF on_heartbeat_timer, MovesOn, OnlySession
<1>6. CASE on_read_stale(o)
  BY <1>6 DEF on_read_stale, MovesOn, OnlySession
<1>7. CASE on_read_error(o)
  BY <1>7, CloseMovesOn DEF on_read_error, MovesOn
<1>8. CASE on_close_response(o)
  BY <1>8, CloseMovesOn DEF on_close_response, MovesOn
<1> QED
  BY <1>1, <1>2, <1>3, <1>4, <1>5, <1>6, <1>7, <1>8

(* close() *)
LEMMA CloseStep ==
  ASSUME state \in States, callbacks \in BOOLEAN, closing # NoClose => state = "closing", close
  PROVE  MovesOn \/ (state = "connected" /\ state' = "closing" /\ closing' = closing)
<1>1. CASE state \in {"null", "closing"} /\ UNCHANGED sessionVars
  BY <1>1 DEF MovesOn, sessionVars
<1>2. CASE state = "connecting" /\ on_close("none", asyncOps)
  BY <1>2, CloseMovesOn DEF Causes
<1>3. CASE state = "connected" /\ state' = "closing" /\ UNCHANGED <<generation, closing>>
  BY <1>3
<1> QED
  BY <1>1, <1>2, <1>3 DEF close

LEMMA CompleteAll ==
  ASSUME NEW S, NEW r, Complete(All(S, r))
  PROVE  completed' = completed \cup S
  BY DEF Complete, All

-----------------------------------------------------------------------------
(* The actions on the connect calls. *)
LEMMA ConnectInit == Init => ConnectInv
  BY Zenon DEF Init, ConnectInv, ReservationSound, Outstanding, States

LEMMA ConnectCall ==
  ASSUME ConnectInv, NEW op \in ConnectOps, async_connect(op)
  PROVE  ConnectInv'
<1>0. op \notin called /\ called' = called \cup {op}
      /\ UNCHANGED <<ran, cancelling, completed, state, closing, callbacks, connectOp, owner>>
  BY DEF async_connect, doneVars, sessionVars, historyVars
<1>1. CASE nonNull
  <2>1. UNCHANGED <<nonNull, address, reserved>>
    BY <1>1 DEF async_connect
  <2>2. Outstanding' = Outstanding
    BY <1>0, <2>1 DEF Outstanding
  <2> QED
    BY <1>0, <2>1, <2>2 DEF ConnectInv, ReservationSound
<1>2. CASE ~ nonNull
  <2>1. nonNull' = TRUE /\ address' = op /\ reserved' = reserved \cup {op}
    BY <1>2 DEF async_connect
  <2>2. state = "null" /\ Outstanding = {}
    BY <1>2 DEF ConnectInv, ReservationSound
  <2>3. Outstanding' = {op}
    BY <1>0, <2>1, <2>2 DEF Outstanding, ConnectInv
  <2> QED
    BY <1>0, <2>1, <2>2, <2>3 DEF ConnectInv, ReservationSound
<1> QED
  BY <1>1, <1>2

LEMMA ReleaseEffect ==
  ASSUME ConnectInv, NEW op \in ConnectOps, op \notin ran \cup completed,
         release_connect_reservation(op)
  PROVE  IF op \in reserved
         THEN state = "null" /\ nonNull' = FALSE /\ reserved' = reserved \ {op} /\ Outstanding = {op}
         ELSE UNCHANGED <<nonNull, address, reserved>>
<1>1. op \in reserved => op \in Outstanding
  BY DEF Outstanding
<1> QED
  BY <1>1 DEF release_connect_reservation, ConnectInv, ReservationSound

LEMMA ConnectAborted ==
  ASSUME ConnectInv, NEW op \in ConnectOps, op \notin ran \cup completed, op \in called,
         release_connect_reservation(op), completed' = completed \cup {op},
         ran' = ran \/ ran' = ran \cup {op}, cancelling' \subseteq cancelling,
         UNCHANGED <<called, callbacks, state, closing, connectOp, owner>>
  PROVE  ConnectInv'
<1>1. CASE op \in reserved
  <2>1. state = "null" /\ nonNull' = FALSE /\ reserved' = reserved \ {op} /\ Outstanding = {op}
    BY <1>1, ReleaseEffect, Zenon
  <2>2. Outstanding' = {}
    BY <2>1 DEF Outstanding
  <2> QED
    BY <2>1, <2>2 DEF ConnectInv, ReservationSound, Ops
<1>2. CASE op \notin reserved
  <2>1. UNCHANGED <<nonNull, address, reserved>>
    BY <1>2, ReleaseEffect, Zenon
  <2>2. Outstanding' = Outstanding
    BY <1>2, <2>1 DEF Outstanding
  <2> QED
    BY <2>1, <2>2 DEF ConnectInv, ReservationSound, Ops
<1> QED
  BY <1>1, <1>2

LEMMA ConnectRun ==
  ASSUME ConnectInv, NEW op \in ConnectOps, async_connect_internal(op)
  PROVE  ConnectInv'
<1>0. op \in called \ ran /\ ran' = ran \cup {op} /\ UNCHANGED <<called, cancelling>>
  BY DEF async_connect_internal
<1>1. CASE op \in completed /\ UNCHANGED <<doneVars, mutexVars, sessionVars, connectOp, owner>>
  <2>1. UNCHANGED <<completed, nonNull, address, reserved, callbacks, state, closing, connectOp, owner>>
    BY <1>1 DEF doneVars, mutexVars, sessionVars
  <2>2. Outstanding' = Outstanding
    BY <1>0, <1>1, <2>1 DEF Outstanding
  <2> QED
    BY <1>0, <1>1, <2>1, <2>2 DEF ConnectInv, ReservationSound, Ops
<1>2. CASE /\ op \in cancelled \ completed
           /\ release_connect_reservation(op)
           /\ Complete(All({op}, "aborted"))
           /\ UNCHANGED <<callbacks, sessionVars, connectOp, owner>>
  <2>1. UNCHANGED <<callbacks, state, closing, connectOp, owner>>
    BY <1>2 DEF sessionVars
  <2> QED
    BY <1>0, <1>2, <2>1, CompleteAll, ConnectAborted
<1>3. CASE /\ op \notin cancelled \cup completed
           /\ op \notin reserved \/ state # "null"
           /\ Complete(All({op}, "error"))
           /\ UNCHANGED <<mutexVars, sessionVars, connectOp, owner>>
  <2>1. UNCHANGED <<nonNull, address, reserved, callbacks, state, closing, connectOp, owner>>
    BY <1>3 DEF mutexVars, sessionVars
  <2>2. op \notin reserved
    BY <1>0, <1>3 DEF ConnectInv, ReservationSound, Outstanding
  <2>3. completed' = completed \cup {op}
    BY <1>3, CompleteAll
  <2>4. Outstanding' = Outstanding
    BY <1>0, <2>1, <2>2, <2>3 DEF Outstanding
  <2> QED
    BY <1>0, <2>1, <2>2, <2>3, <2>4 DEF ConnectInv, ReservationSound, Ops
<1>4. CASE /\ op \notin cancelled \cup completed
           /\ op \in reserved /\ state = "null"
           /\ connectOp' = op /\ owner' = op /\ state' = "connecting"
           /\ UNCHANGED <<doneVars, mutexVars, closing>>
  <2>1. UNCHANGED <<completed, nonNull, address, reserved, callbacks, closing>>
    BY <1>4 DEF mutexVars, doneVars
  <2>2. op \in Outstanding
    BY <1>0, <1>4 DEF Outstanding
  <2>3. Outstanding = {op} /\ address = op /\ nonNull
    BY <2>2 DEF ConnectInv, ReservationSound
  <2>4. Outstanding' = {}
    BY <1>0, <2>1, <2>3 DEF Outstanding
  <2>5. closing = NoClose
    BY <1>4 DEF ConnectInv
  <2>6. connectOp = NoOp
    BY <1>4, <2>5 DEF ConnectInv
  <2>7. (ran \cap ConnectOps) \ completed = {}
    BY <2>6, ClientAssumption DEF ConnectInv, Ops
  <2>8. ReservationSound'
    BY <1>4, <2>1, <2>3, <2>4, Zenon DEF ReservationSound, ConnectInv
  <2> QED
    BY <1>0, <1>4, <2>1, <2>4, <2>5, <2>7, <2>8 DEF ConnectInv, Ops, States
<1> QED
  BY <1>1, <1>2, <1>3, <1>4 DEF async_connect_internal

LEMMA ConnectCancel ==
  ASSUME ConnectInv, NEW op \in ConnectOps, cancel_connect(op)
  PROVE  ConnectInv'
<1>0. op \in cancelling /\ cancelling' = cancelling \ {op} /\ UNCHANGED <<called, ran, connectOp, owner>>
  BY DEF cancel_connect, historyVars
<1>1. CASE op \in completed /\ UNCHANGED <<doneVars, mutexVars, sessionVars>>
  <2>1. UNCHANGED <<completed, nonNull, address, reserved, callbacks, state, closing>>
    BY <1>1 DEF doneVars, mutexVars, sessionVars
  <2>2. Outstanding' = Outstanding
    BY <1>0, <2>1 DEF Outstanding
  <2> QED
    BY <1>0, <2>1, <2>2 DEF ConnectInv, ReservationSound
<1>2. CASE op \notin completed /\ on_close("aborted", asyncOps) /\ UNCHANGED <<doneVars, mutexVars>>
  <2>1. UNCHANGED <<completed, nonNull, address, reserved, callbacks>>
    BY <1>2 DEF doneVars, mutexVars
  <2>2. MovesOn
    BY <1>2, CloseMovesOn DEF Causes, ConnectInv
  <2>3. cancelling' \subseteq called'
    BY <1>0 DEF ConnectInv
  <2> QED
    BY <1>0, <2>1, <2>2, <2>3, MovesOnConnect
<1>3. CASE /\ op \notin completed /\ connectOp # op
           /\ release_connect_reservation(op)
           /\ Complete(All({op}, "aborted"))
           /\ UNCHANGED <<callbacks, sessionVars>>
  <2>1. UNCHANGED <<callbacks, state, closing>>
    BY <1>3 DEF sessionVars
  <2>2. op \notin ran /\ op \in called
    BY <1>0, <1>3 DEF ConnectInv
  <2> QED
    BY <1>0, <1>3, <2>1, <2>2, CompleteAll, ConnectAborted
<1> QED
  BY <1>1, <1>2, <1>3 DEF cancel_connect

LEMMA ConnectOpen ==
  ASSUME ConnectInv, NEW o \in asyncOps, on_open(o)
  PROVE  ConnectInv'
<1>1. /\ state = "connecting" /\ state' = "connected" /\ connectOp' = NoOp
      /\ completed' = completed \cup {connectOp}
  BY CompleteAll DEF on_open, Expected
<1>2. UNCHANGED <<called, ran, cancelling, nonNull, address, reserved, callbacks, closing, owner>>
  BY DEF on_open, opVars, mutexVars
<1>3. Outstanding = {} /\ closing = NoClose
  BY <1>1 DEF ConnectInv, ReservationSound
<1>4. Outstanding' = {}
  BY <1>1, <1>2, <1>3 DEF Outstanding
<1>5. completed' \cap ConnectOps \subseteq called'
  BY <1>1, <1>2, ClientAssumption DEF ConnectInv, Ops
<1>6. \A op \in (ran \cap ConnectOps)' \ completed' : op = connectOp'
  BY <1>1, <1>2 DEF ConnectInv
<1> QED
  BY <1>1, <1>2, <1>3, <1>4, <1>5, <1>6 DEF ConnectInv, ReservationSound, States

(* What on_queue_cancelled() completes, as far as this invariant needs. *)
LEMMA QueueCancelled ==
  ASSUME ConnectInv, NEW o \in asyncOps, on_queue_cancelled(o)
  PROVE  /\ closing # NoClose /\ state = "closing" /\ state' = "null" /\ closing' = NoClose
         /\ completed' = completed \cup createOps \cup Accepting(tunnels)
                           \cup ({connectOp} \ {NoOp})
<1>1. closing # NoClose /\ state = "closing" /\ state' = "null" /\ closing' = NoClose
  BY DEF on_queue_cancelled, ConnectInv
<1> DEFINE connect == IF closing.prev = "connecting" THEN {connectOp} \ {NoOp} ELSE {}
           ended == createOps \cup Accepting(tunnels) \cup connect
           res == [p \in ended |->
                    IF p \in Accepting(tunnels) THEN "error"
                    ELSE IF p \in createOps \cap cancelled THEN "aborted"
                    ELSE IF closing.cause = "error" THEN "error" ELSE "aborted"]
<1>2. Complete(res)
  BY DEF on_queue_cancelled
<1>3. DOMAIN res = ended
  BY Zenon
<1>4. completed' = completed \cup ended
  BY <1>2, <1>3 DEF Complete
<1>5. connect = {connectOp} \ {NoOp}
  BY <1>1 DEF ConnectInv
<1> QED
  BY <1>1, <1>4, <1>5

LEMMA AcceptingOps ==
  ASSUME acceptOp \in [TunnelIds -> AcceptOps \cup {NoOp}], NEW T \in SUBSET TunnelIds
  PROVE  Accepting(T) \subseteq AcceptOps
  BY DEF Accepting

LEMMA ConnectClosed ==
  ASSUME ConnectInv, TunnelInv, NEW o \in asyncOps, on_queue_cancelled(o)
  PROVE  ConnectInv'
<1>1. /\ closing # NoClose /\ state = "closing" /\ state' = "null" /\ closing' = NoClose
      /\ completed' = completed \cup createOps \cup Accepting(tunnels) \cup ({connectOp} \ {NoOp})
  BY QueueCancelled
<1>2. nonNull' = FALSE /\ callbacks' = FALSE /\ connectOp' = NoOp
      /\ UNCHANGED <<called, ran, cancelling, reserved>>
  BY DEF on_queue_cancelled, opVars
<1>3. Outstanding = {}
  BY <1>1 DEF ConnectInv, ReservationSound
<1>4. Outstanding' = {}
  BY <1>1, <1>2, <1>3 DEF Outstanding
<1>5. createOps \cap ConnectOps = {} /\ Accepting(tunnels) \cap ConnectOps = {}
  BY AcceptingOps, ClientAssumption DEF TunnelInv
<1>6. completed' \cap ConnectOps \subseteq called'
  BY <1>1, <1>2, <1>5, Zenon DEF ConnectInv
<1>7. \A op \in (ran \cap ConnectOps)' \ completed' : op = connectOp'
  BY <1>1, <1>2, ClientAssumption, Zenon DEF ConnectInv, Ops
<1> QED
  BY <1>1, <1>2, <1>3, <1>4, <1>6, <1>7, Zenon DEF ConnectInv, ReservationSound, States

-----------------------------------------------------------------------------
(* The actions on tunnels and streams leave the connect calls alone. *)
NotConnect ==
  /\ UNCHANGED <<state, closing, nonNull, address, reserved, callbacks, connectOp, owner>>
  /\ cancelling' \subseteq cancelling \cup called'
  /\ called \subseteq called' /\ called' \cap ConnectOps = called \cap ConnectOps
  /\ ran \subseteq ran' /\ ran' \subseteq called' \cup ran
  /\ ran' \subseteq ran \cup (Ops \ ConnectOps)
  /\ completed \subseteq completed' /\ completed' \cap ConnectOps = completed \cap ConnectOps

LEMMA NotConnectInv ==
  ASSUME ConnectInv, NotConnect
  PROVE  ConnectInv'
<1>1. Outstanding' = Outstanding
  BY Zenon DEF Outstanding, ConnectInv, NotConnect
<1> QED
  BY <1>1 DEF ConnectInv, ReservationSound, NotConnect

LEMMA TunnelCallsNotConnect ==
  ASSUME ConnectInv, TunnelInv,
         \/ \E op \in CreateOps : async_create_tunnel(op) \/ async_create_tunnel_internal(op)
                                  \/ cancel_create_tunnel(op)
         \/ \E op \in AcceptOps, t \in TunnelIds :
              async_accept_tunnel(op, t) \/ async_accept_tunnel_internal(op, t)
         \/ \E op \in AcceptOps : cancel_accept_tunnel(op)
         \/ \E op \in Ops : EmitSlot(op)
         \/ \E t \in TunnelIds : close_tunnel(t)
  PROVE  NotConnect
<1> USE ClientAssumption DEF NotConnect, Ops, opVars, doneVars, mutexVars, sessionVars, historyVars
<1>1. ASSUME NEW op \in CreateOps, async_create_tunnel(op) PROVE NotConnect
  BY <1>1, Zenon DEF async_create_tunnel
<1>2. ASSUME NEW op \in CreateOps, async_create_tunnel_internal(op) PROVE NotConnect
  <2>1. UNCHANGED completed \/ completed' = completed \cup {op}
    BY <1>2, CompleteAll, Zenon DEF async_create_tunnel_internal
  <2> QED
    BY <1>2, <2>1, Zenon DEF async_create_tunnel_internal
<1>3. ASSUME NEW op \in CreateOps, cancel_create_tunnel(op) PROVE NotConnect
  <2>1. completed' = completed \cup {op}
    BY <1>3, CompleteAll, Zenon DEF cancel_create_tunnel
  <2> QED
    BY <1>3, <2>1, Zenon DEF cancel_create_tunnel
<1>4. ASSUME NEW op \in AcceptOps, NEW t \in TunnelIds, async_accept_tunnel(op, t) PROVE NotConnect
  BY <1>4, ZenonT(60) DEF async_accept_tunnel
<1>5. ASSUME NEW op \in AcceptOps, NEW t \in TunnelIds, async_accept_tunnel_internal(op, t)
      PROVE NotConnect
  <2>1. UNCHANGED completed \/ completed' = completed \cup {op}
    BY <1>5, CompleteAll, Zenon DEF async_accept_tunnel_internal
  <2> QED
    BY <1>5, <2>1, ZenonT(60) DEF async_accept_tunnel_internal
<1>6. ASSUME NEW op \in AcceptOps, cancel_accept_tunnel(op) PROVE NotConnect
  <2>1. UNCHANGED completed \/ completed' = completed \cup {op}
    BY <1>6, CompleteAll, Zenon DEF cancel_accept_tunnel
  <2> QED
    BY <1>6, <2>1, Zenon DEF cancel_accept_tunnel
<1>7. ASSUME NEW op \in Ops, EmitSlot(op) PROVE NotConnect
  BY <1>7, Zenon DEF EmitSlot
<1>8. ASSUME NEW t \in TunnelIds, close_tunnel(t) PROVE NotConnect
  BY <1>8, Zenon DEF close_tunnel
<1> QED
  BY <1>1, <1>2, <1>3, <1>4, <1>5, <1>6, <1>7, <1>8, Zenon

LEMMA TunnelMessagesNotConnect ==
  ASSUME ConnectInv, TunnelInv,
         \/ \E o \in asyncOps, op \in createOps : on_tunnel_refused(o, op)
         \/ \E o \in asyncOps, op \in createOps, t \in TunnelIds : on_tunnel_response(o, op, t)
         \/ \E o \in asyncOps, t \in tunnels : on_tunnel_closed(o, t)
         \/ \E o \in asyncOps, t \in tunnels, s \in StreamIds : on_proxy_request(o, t, s)
         \/ \E d \in dials, ok \in BOOLEAN : on_connect_stream(d, ok)
  PROVE  NotConnect
<1> USE ClientAssumption DEF NotConnect, Ops, opVars, doneVars, mutexVars, sessionVars, historyVars
<1>1. ASSUME NEW o \in asyncOps, NEW op \in createOps, on_tunnel_refused(o, op) PROVE NotConnect
  <2>1. completed' = completed \cup {op}
    BY <1>1, CompleteAll, ZenonT(60) DEF on_tunnel_refused
  <2> QED
    BY <1>1, <2>1 DEF on_tunnel_refused, TunnelInv
<1>2. ASSUME NEW o \in asyncOps, NEW op \in createOps, NEW t \in TunnelIds,
             on_tunnel_response(o, op, t)
      PROVE NotConnect
  <2>1. completed' = completed \cup {op}
    BY <1>2, CompleteAll, Zenon DEF on_tunnel_response
  <2> QED
    BY <1>2, <2>1 DEF on_tunnel_response, TunnelInv
<1>3. ASSUME NEW o \in asyncOps, NEW t \in tunnels, on_tunnel_closed(o, t) PROVE NotConnect
  <2>1. completed' = completed \cup Accepting({t})
    BY <1>3, CompleteAll DEF on_tunnel_closed
  <2>2. Accepting({t}) \subseteq AcceptOps
    BY AcceptingOps DEF TunnelInv
  <2> QED
    BY <1>3, <2>1, <2>2, Zenon DEF on_tunnel_closed
<1>4. ASSUME NEW o \in asyncOps, NEW t \in tunnels, NEW s \in StreamIds, on_proxy_request(o, t, s)
      PROVE NotConnect
  BY <1>4, Zenon DEF on_proxy_request
<1>5. ASSUME NEW d \in dials, NEW ok \in BOOLEAN, on_connect_stream(d, ok) PROVE NotConnect
  <2>1. UNCHANGED completed \/ (completed' = completed \cup {acceptOp[d.tunnel]}
                                /\ d.tunnel \in tunnels)
    BY <1>5, CompleteAll, Zenon DEF on_connect_stream
  <2>2. d.tunnel \in tunnels => acceptOp[d.tunnel] \notin ConnectOps
    BY Zenon DEF TunnelInv
  <2>3. UNCHANGED <<opVars, mutexVars, state, closing, connectOp, owner>>
    BY <1>5, Zenon DEF on_connect_stream
  <2> QED
    BY <2>1, <2>2, <2>3, Zenon
<1> QED
  BY <1>1, <1>2, <1>3, <1>4, <1>5, ZenonT(60)

-----------------------------------------------------------------------------
(* The create and accept calls. *)
LEMMA TunnelInit == Init => TunnelInv
  BY DEF Init, TunnelInv

(* Steps that register nothing: operations run only to be completed, and   *)
(* new calls are not run yet.                                              *)
LEMMA NotRegistered ==
  ASSUME TunnelInv, UNCHANGED <<createOps, tunnels, acceptOp, target>>,
         state' = "null" => state = "null",
         ran \subseteq ran', completed \subseteq completed',
         ran' \subseteq ran \cup completed' \cup ConnectOps
  PROVE  TunnelInv'
  BY ClientAssumption, Zenon DEF TunnelInv

LEMMA TunnelAcceptCall ==
  ASSUME ConnectInv, TunnelInv, NEW op \in AcceptOps, NEW t \in TunnelIds, async_accept_tunnel(op, t)
  PROVE  TunnelInv'
<1>1. op \notin ran /\ target' = [target EXCEPT ![op] = t]
  BY Zenon DEF async_accept_tunnel, ConnectInv
<1>2. UNCHANGED <<ran, completed, state, createOps, tunnels, acceptOp>>
  BY Zenon DEF async_accept_tunnel, doneVars, sessionVars, tunnelVars
<1> QED
  BY <1>1, <1>2 DEF TunnelInv

LEMMA TunnelCreateRun ==
  ASSUME TunnelInv, NEW op \in CreateOps, async_create_tunnel_internal(op)
  PROVE  TunnelInv'
<1>1. ran' = ran \cup {op} /\ UNCHANGED <<state, tunnels, acceptOp, target>>
  BY DEF async_create_tunnel_internal, streamVars
<1>2. CASE op \in completed /\ UNCHANGED <<doneVars, createOps, asyncOps>>
  BY <1>1, <1>2, NotRegistered, Zenon DEF doneVars
<1>3. CASE UNCHANGED createOps /\ \E r : Complete(All({op}, r))
  BY <1>1, <1>3, CompleteAll, NotRegistered
<1>4. CASE state = "connected" /\ createOps' = createOps \cup {op} /\ UNCHANGED doneVars
  <2>1. UNCHANGED completed
    BY <1>4, Zenon DEF doneVars
  <2> QED
    BY <1>1, <1>4, <2>1, ClientAssumption DEF TunnelInv
<1> QED
  BY <1>2, <1>3, <1>4, Zenon DEF async_create_tunnel_internal

LEMMA TunnelAcceptRun ==
  ASSUME TunnelInv, NEW op \in AcceptOps, NEW t \in TunnelIds, async_accept_tunnel_internal(op, t)
  PROVE  TunnelInv'
<1>1. /\ op \notin ran /\ ran' = ran \cup {op} /\ t = target[op]
      /\ UNCHANGED <<state, createOps, tunnels>>
  BY Zenon DEF async_accept_tunnel_internal, sessionVars
<1>2. UNCHANGED target
  BY Zenon DEF async_accept_tunnel_internal, streamVars
<1>3. CASE op \in completed /\ UNCHANGED <<doneVars, acceptOp>>
  BY <1>1, <1>2, <1>3, NotRegistered, Zenon DEF doneVars
<1>4. CASE UNCHANGED acceptOp /\ \E r : Complete(All({op}, r))
  BY <1>1, <1>2, <1>4, CompleteAll, NotRegistered
<1>5. CASE state = "connected" /\ t \in tunnels /\ acceptOp[t] = NoOp
           /\ acceptOp' = [acceptOp EXCEPT ![t] = op] /\ UNCHANGED doneVars
  <2>1. UNCHANGED completed
    BY <1>5, Zenon DEF doneVars
  <2>2. \A u \in TunnelIds : acceptOp'[u] = IF u = t THEN op ELSE acceptOp[u]
    BY <1>5, Zenon DEF TunnelInv
  <2>3. \A u \in TunnelIds : acceptOp'[u] # NoOp =>
          u \in tunnels' /\ target'[acceptOp'[u]] = u /\ acceptOp'[u] \in ran'
    BY <1>1, <1>2, <1>5, <2>2 DEF TunnelInv
  <2>4. \A p \in (ran' \cap AcceptOps) \ completed' :
          target'[p] \in tunnels' /\ acceptOp'[target'[p]] = p
    BY <1>1, <1>2, <1>5, <2>1, <2>2, ClientAssumption DEF TunnelInv, Ops
  <2>5. \A p \in (ran' \cap CreateOps) \ completed' : p \in createOps'
    BY <1>1, <2>1, ClientAssumption, Zenon DEF TunnelInv
  <2>6. acceptOp' \in [TunnelIds -> AcceptOps \cup {NoOp}]
    BY <1>5, Zenon DEF TunnelInv
  <2> QED
    BY <1>1, <1>2, <2>3, <2>4, <2>5, <2>6, Zenon DEF TunnelInv
<1>6. \/ op \in completed /\ UNCHANGED <<doneVars, acceptOp>>
      \/ UNCHANGED acceptOp /\ \E r : Complete(All({op}, r))
      \/ state = "connected" /\ t \in tunnels /\ acceptOp[t] = NoOp
         /\ acceptOp' = [acceptOp EXCEPT ![t] = op] /\ UNCHANGED doneVars
  BY Zenon DEF async_accept_tunnel_internal
<1> QED
  BY <1>3, <1>4, <1>5, <1>6, Zenon

(* An accept operation leaves the tunnel it waits on and is completed. *)
LEMMA AcceptLeaves ==
  ASSUME TunnelInv, NEW T \in SUBSET TunnelIds,
         UNCHANGED <<state, createOps, target, ran>>,
         acceptOp' = [t \in TunnelIds |-> IF t \in T THEN NoOp ELSE acceptOp[t]],
         completed \cup Accepting(T) \subseteq completed',
         tunnels' = tunnels \/ tunnels' = tunnels \ T
  PROVE  TunnelInv'
<1>1. acceptOp' \in [TunnelIds -> AcceptOps \cup {NoOp}]
  BY Zenon DEF TunnelInv
<1>2. \A u \in TunnelIds : acceptOp'[u] # NoOp =>
        u \in tunnels' /\ target'[acceptOp'[u]] = u /\ acceptOp'[u] \in ran'
  BY Zenon DEF TunnelInv
<1>3. ASSUME NEW p \in (ran' \cap AcceptOps) \ completed'
      PROVE target'[p] \in tunnels' /\ acceptOp'[target'[p]] = p
  <2>1. p \in (ran \cap AcceptOps) \ completed
    BY <1>3, Zenon
  <2>2. target[p] \in tunnels /\ acceptOp[target[p]] = p /\ target[p] \in TunnelIds
    BY <2>1 DEF TunnelInv
  <2>3. p # NoOp
    BY <2>1, ClientAssumption, Zenon DEF Ops
  <2>4. target[p] \notin T
    BY <1>3, <2>2, <2>3, Zenon DEF Accepting
  <2> QED
    BY <2>2, <2>4
<1>4. \A p \in (ran' \cap CreateOps) \ completed' : p \in createOps'
  BY Zenon DEF TunnelInv
<1> QED
  BY <1>1, <1>2, <1>3, <1>4, Zenon DEF TunnelInv

LEMMA TunnelCancelAccept ==
  ASSUME TunnelInv, NEW op \in AcceptOps, cancel_accept_tunnel(op)
  PROVE  TunnelInv'
<1>1. UNCHANGED <<state, createOps, tunnels, target, ran>>
  BY DEF cancel_accept_tunnel, sessionVars
<1>2. CASE UNCHANGED <<acceptOp, doneVars>>
  BY <1>1, <1>2, NotRegistered, Zenon DEF doneVars
<1>3. CASE /\ acceptOp' = [t \in TunnelIds |-> IF acceptOp[t] = op THEN NoOp ELSE acceptOp[t]]
           /\ Complete(All({op}, "aborted"))
  <2> DEFINE T == {t \in TunnelIds : acceptOp[t] = op}
  <2>1. acceptOp' = [t \in TunnelIds |-> IF t \in T THEN NoOp ELSE acceptOp[t]]
    BY <1>3
  <2>2. completed' = completed \cup {op}
    BY <1>3, CompleteAll, Zenon
  <2>3. Accepting(T) \subseteq {op}
    BY DEF Accepting
  <2> HIDE DEF T
  <2>4. T \in SUBSET TunnelIds
    BY DEF T
  <2> QED
    BY <1>1, <2>1, <2>2, <2>3, <2>4, AcceptLeaves
<1> QED
  BY <1>2, <1>3, Zenon DEF cancel_accept_tunnel

LEMMA TunnelMessages ==
  ASSUME TunnelInv, NEW o \in asyncOps,
         \/ \E op \in createOps : on_tunnel_refused(o, op)
         \/ \E op \in createOps, t \in TunnelIds : on_tunnel_response(o, op, t)
         \/ \E t \in tunnels : on_tunnel_closed(o, t)
         \/ \E t \in tunnels, s \in StreamIds : on_proxy_request(o, t, s)
  PROVE  TunnelInv'
<1>1. ASSUME NEW op \in createOps, on_tunnel_refused(o, op) PROVE TunnelInv'
  <2>1. completed' = completed \cup {op} /\ createOps' = createOps \ {op}
    BY <1>1, CompleteAll, Zenon DEF on_tunnel_refused
  <2>2. UNCHANGED <<state, tunnels, acceptOp, target, ran>>
    BY <1>1, Zenon DEF on_tunnel_refused, sessionVars, streamVars, opVars
  <2> QED
    BY <2>1, <2>2, Zenon DEF TunnelInv
<1>2. ASSUME NEW op \in createOps, NEW t \in TunnelIds, on_tunnel_response(o, op, t) PROVE TunnelInv'
  <2>1. completed' = completed \cup {op} /\ createOps' = createOps \ {op} /\ tunnels' = tunnels \cup {t}
    BY <1>2, CompleteAll, Zenon DEF on_tunnel_response
  <2>2. UNCHANGED <<state, acceptOp, target, ran>> /\ state # "null"
    BY <1>2, Zenon DEF on_tunnel_response, streamVars, opVars, Read
  <2> QED
    BY <2>1, <2>2, Zenon DEF TunnelInv
<1>3. ASSUME NEW t \in tunnels, on_tunnel_closed(o, t) PROVE TunnelInv'
  <2>1. completed' = completed \cup Accepting({t}) /\ tunnels' = tunnels \ {t}
        /\ acceptOp' = [u \in TunnelIds |-> IF u \in {t} THEN NoOp ELSE acceptOp[u]]
    BY <1>3, CompleteAll, Zenon DEF on_tunnel_closed, on_tunnel_close
  <2>2. UNCHANGED <<state, createOps, target, ran>>
    BY <1>3, Zenon DEF on_tunnel_closed, sessionVars, opVars
  <2>3. {t} \in SUBSET TunnelIds
    BY Zenon DEF TunnelInv
  <2> QED
    BY <2>1, <2>2, <2>3, AcceptLeaves, Zenon
<1>4. ASSUME NEW t \in tunnels, NEW s \in StreamIds, on_proxy_request(o, t, s) PROVE TunnelInv'
  <2>1. UNCHANGED <<state, createOps, tunnels, acceptOp, target, ran, completed>>
    BY <1>4, Zenon DEF on_proxy_request, opVars, doneVars, tunnelVars
  <2> QED
    BY <2>1, NotRegistered, Zenon
<1> QED
  BY <1>1, <1>2, <1>3, <1>4, Zenon

LEMMA TunnelConnectStream ==
  ASSUME TunnelInv, NEW d \in dials, NEW ok \in BOOLEAN, on_connect_stream(d, ok)
  PROVE  TunnelInv'
<1>1. UNCHANGED <<state, createOps, tunnels, target, ran>>
  BY Zenon DEF on_connect_stream, opVars
<1>2. CASE UNCHANGED <<doneVars, acceptOp>>
  BY <1>1, <1>2, NotRegistered, Zenon DEF doneVars
<1>3. CASE /\ d.tunnel \in tunnels
           /\ Complete(All({acceptOp[d.tunnel]}, "ok"))
           /\ acceptOp' = [acceptOp EXCEPT ![d.tunnel] = NoOp]
  <2>1. d.tunnel \in TunnelIds
    BY <1>3, Zenon DEF TunnelInv
  <2>2. acceptOp' = [u \in TunnelIds |-> IF u \in {d.tunnel} THEN NoOp ELSE acceptOp[u]]
    BY <1>3, <2>1, Zenon DEF TunnelInv
  <2>3. completed' = completed \cup {acceptOp[d.tunnel]}
    BY <1>3, CompleteAll
  <2>4. Accepting({d.tunnel}) \subseteq {acceptOp[d.tunnel]}
    BY DEF Accepting
  <2> QED
    BY <1>1, <2>1, <2>2, <2>3, <2>4, AcceptLeaves, Zenon
<1>4. \/ UNCHANGED <<doneVars, acceptOp>>
      \/ /\ d.tunnel \in tunnels
         /\ Complete(All({acceptOp[d.tunnel]}, "ok"))
         /\ acceptOp' = [acceptOp EXCEPT ![d.tunnel] = NoOp]
  BY Zenon DEF on_connect_stream
<1> QED
  BY <1>2, <1>3, <1>4, Zenon

LEMMA TunnelClosed ==
  ASSUME ConnectInv, TunnelInv, NEW o \in asyncOps, on_queue_cancelled(o)
  PROVE  TunnelInv'
<1>1. completed' = completed \cup createOps \cup Accepting(tunnels) \cup ({connectOp} \ {NoOp})
  BY QueueCancelled, Zenon
<1>2. createOps' = {} /\ tunnels' = {} /\ UNCHANGED <<ran, target>>
      /\ acceptOp' = [t \in TunnelIds |-> IF t \in tunnels THEN NoOp ELSE acceptOp[t]]
  BY Zenon DEF on_queue_cancelled, on_tunnel_close, opVars
<1>3. \A t \in TunnelIds : acceptOp'[t] = NoOp
  BY <1>2, Zenon DEF TunnelInv
<1>4. (ran \cap CreateOps) \ completed \subseteq createOps
  BY ZenonT(60) DEF TunnelInv
<1>5. (ran \cap AcceptOps) \ completed \subseteq Accepting(tunnels)
  BY ClientAssumption DEF TunnelInv, Accepting, Ops
<1>6. acceptOp' \in [TunnelIds -> AcceptOps \cup {NoOp}]
  BY <1>2, Zenon DEF TunnelInv
<1> QED
  BY <1>1, <1>2, <1>3, <1>4, <1>5, <1>6 DEF TunnelInv

-----------------------------------------------------------------------------
OwnInv == ConnectInv /\ TunnelInv

LEMMA OwnUser ==
  ASSUME OwnInv, UserNext
  PROVE  OwnInv'
<1>0. ConnectInv /\ TunnelInv
  BY Zenon DEF OwnInv
<1>1. CASE set_control_callbacks
  <2>1. callbacks' = TRUE /\ UNCHANGED <<called, ran, cancelling, completed, nonNull, address,
          reserved, state, closing, connectOp, owner, createOps, tunnels, acceptOp, target>>
    BY <1>1 DEF set_control_callbacks, opVars, doneVars, sessionVars, historyVars, tunnelVars, streamVars
  <2>2. Outstanding' = Outstanding
    BY <2>1, Zenon DEF Outstanding
  <2>3. ConnectInv'
    BY <1>0, <2>1, <2>2, Zenon DEF ConnectInv, ReservationSound
  <2> QED
    BY <1>0, <2>1, <2>3, NotRegistered, Zenon DEF OwnInv
<1>2. CASE close
  <2>1. UNCHANGED <<called, ran, cancelling, completed, nonNull, address, reserved, callbacks,
                    connectOp, owner, createOps, tunnels, acceptOp, target>>
    BY <1>2, Zenon DEF close, opVars, doneVars, mutexVars, tunnelVars, streamVars
  <2>2. MovesOn \/ (state = "connected" /\ state' = "closing" /\ closing' = closing)
    BY <1>0, <1>2, CloseStep, Zenon DEF ConnectInv
  <2>3. CASE MovesOn
    <3>1. cancelling' \subseteq called'
      BY <1>0, <2>1, Zenon DEF ConnectInv
    <3> QED
      BY <1>0, <2>1, <2>3, <3>1, MovesOnConnect, MovesOnTunnel, Zenon DEF OwnInv
  <2>4. CASE state = "connected" /\ state' = "closing" /\ closing' = closing
    <3>1. Outstanding' = Outstanding
      BY <2>1, Zenon DEF Outstanding
    <3>2. ConnectInv'
      BY <1>0, <2>1, <2>4, <3>1, Zenon DEF ConnectInv, ReservationSound, States
    <3> QED
      BY <1>0, <2>1, <2>4, <3>2, NotRegistered, Zenon DEF OwnInv
  <2> QED
    BY <2>2, <2>3, <2>4, Zenon
<1>3. ASSUME NEW op \in ConnectOps, async_connect(op) PROVE OwnInv'
  <2>1. UNCHANGED <<state, createOps, tunnels, acceptOp, target, ran, completed>>
    BY <1>3, Zenon DEF async_connect, doneVars, sessionVars, tunnelVars, streamVars
  <2> QED
    BY <1>0, <1>3, <2>1, ConnectCall, NotRegistered, Zenon DEF OwnInv
<1>4. ASSUME NEW op \in CreateOps, async_create_tunnel(op) PROVE OwnInv'
  <2>1. UNCHANGED <<state, createOps, tunnels, acceptOp, target, ran, completed>>
    BY <1>4 DEF async_create_tunnel, doneVars, sessionVars, tunnelVars, streamVars
  <2>2. NotConnect
    BY <1>0, <1>4, TunnelCallsNotConnect
  <2> QED
    BY <1>0, <2>1, <2>2, NotConnectInv, NotRegistered, Zenon DEF OwnInv
<1>5. ASSUME NEW op \in AcceptOps, NEW t \in TunnelIds, async_accept_tunnel(op, t) PROVE OwnInv'
  <2>1. NotConnect
    BY <1>0, <1>5, TunnelCallsNotConnect, Zenon
  <2> QED
    BY <1>0, <1>5, <2>1, NotConnectInv, TunnelAcceptCall, Zenon DEF OwnInv
<1>6. ASSUME NEW t \in TunnelIds, close_tunnel(t) PROVE OwnInv'
  <2>1. UNCHANGED <<state, createOps, tunnels, acceptOp, target, ran, completed>>
    BY <1>6 DEF close_tunnel, opVars, doneVars, streamVars
  <2>2. NotConnect
    BY <1>0, <1>6, TunnelCallsNotConnect, Zenon
  <2> QED
    BY <1>0, <2>1, <2>2, NotConnectInv, NotRegistered DEF OwnInv
<1>7. ASSUME NEW op \in Ops, EmitSlot(op) PROVE OwnInv'
  <2>1. UNCHANGED <<state, createOps, tunnels, acceptOp, target, ran, completed>>
    BY <1>7 DEF EmitSlot, doneVars, sessionVars, tunnelVars, streamVars
  <2>2. NotConnect
    BY <1>0, <1>7, TunnelCallsNotConnect, Zenon
  <2> QED
    BY <1>0, <2>1, <2>2, NotConnectInv, NotRegistered, Zenon DEF OwnInv
<1> QED
  BY <1>1, <1>2, <1>3, <1>4, <1>5, <1>6, <1>7 DEF UserNext

LEMMA OwnDispatch ==
  ASSUME OwnInv, DispatchNext
  PROVE  OwnInv'
<1>0. ConnectInv /\ TunnelInv
  BY DEF OwnInv
<1>1. ASSUME NEW op \in ConnectOps, async_connect_internal(op) PROVE OwnInv'
  <2>1. UNCHANGED <<createOps, tunnels, acceptOp, target>> /\ ran' = ran \cup {op}
    BY <1>1, Zenon DEF async_connect_internal, tunnelVars
  <2>2. UNCHANGED completed \/ completed' = completed \cup {op}
    BY <1>1, CompleteAll, Zenon DEF async_connect_internal, doneVars
  <2>3. state' = "null" => state = "null"
    BY <1>1, Zenon DEF async_connect_internal, sessionVars
  <2> QED
    BY <1>0, <1>1, <2>1, <2>2, <2>3, ConnectRun, NotRegistered, Zenon DEF OwnInv
<1>2. ASSUME NEW op \in ConnectOps, cancel_connect(op) PROVE OwnInv'
  <2>1. UNCHANGED <<createOps, tunnels, acceptOp, target, ran>>
    BY <1>2, Zenon DEF cancel_connect, tunnelVars, streamVars
  <2>2. UNCHANGED completed \/ completed' = completed \cup {op}
    BY <1>2, CompleteAll, Zenon DEF cancel_connect, doneVars
  <2>3. state' = "null" => state = "null"
    BY <1>2, <1>0, CloseMovesOn, Zenon DEF cancel_connect, sessionVars, MovesOn, ConnectInv, Causes
  <2> QED
    BY <1>0, <1>2, <2>1, <2>2, <2>3, ConnectCancel, NotRegistered, Zenon DEF OwnInv
<1>3. ASSUME NEW op \in CreateOps, async_create_tunnel_internal(op) PROVE OwnInv'
  <2>1. NotConnect
    BY <1>0, <1>3, TunnelCallsNotConnect, Zenon
  <2> QED
    BY <1>0, <1>3, <2>1, NotConnectInv, TunnelCreateRun, Zenon DEF OwnInv
<1>4. ASSUME NEW op \in CreateOps, cancel_create_tunnel(op) PROVE OwnInv'
  <2>1. UNCHANGED <<state, createOps, tunnels, acceptOp, target, ran>> /\ completed' = completed \cup {op}
    BY <1>4, CompleteAll, Zenon DEF cancel_create_tunnel, sessionVars, tunnelVars, streamVars
  <2>2. NotConnect
    BY <1>0, <1>4, TunnelCallsNotConnect, Zenon
  <2> QED
    BY <1>0, <2>1, <2>2, NotConnectInv, NotRegistered, Zenon DEF OwnInv
<1>5. ASSUME NEW op \in AcceptOps, cancel_accept_tunnel(op) PROVE OwnInv'
  <2>1. NotConnect
    BY <1>0, <1>5, TunnelCallsNotConnect
  <2> QED
    BY <1>0, <1>5, <2>1, NotConnectInv, TunnelCancelAccept DEF OwnInv
<1>6. ASSUME NEW op \in AcceptOps, NEW t \in TunnelIds, async_accept_tunnel_internal(op, t)
      PROVE OwnInv'
  <2>1. NotConnect
    BY <1>0, <1>6, TunnelCallsNotConnect
  <2> QED
    BY <1>0, <1>6, <2>1, NotConnectInv, TunnelAcceptRun, Zenon DEF OwnInv
<1> QED
  BY <1>1, <1>2, <1>3, <1>4, <1>5, <1>6, Zenon DEF DispatchNext

LEMMA OwnSession ==
  ASSUME OwnInv, SessionNext
  PROVE  OwnInv'
<1>0. ConnectInv /\ TunnelInv
  BY DEF OwnInv
<1> PICK o \in asyncOps :
      \/ \/ on_do_resolve_host(o) \/ on_connect(o) \/ on_timer(o)
         \/ on_send_message(o) \/ on_heartbeat_timer(o) \/ on_read_stale(o)
         \/ on_read_error(o) \/ on_close_response(o)
      \/ on_queue_cancelled(o)
      \/ on_open(o)
      \/ \/ \E op \in createOps : on_tunnel_refused(o, op)
         \/ \E op \in createOps, t \in TunnelIds : on_tunnel_response(o, op, t)
         \/ \E t \in tunnels : on_tunnel_closed(o, t)
         \/ \E t \in tunnels, s \in StreamIds : on_proxy_request(o, t, s)
  BY Zenon DEF SessionNext
<1>1. CASE \/ on_do_resolve_host(o) \/ on_connect(o) \/ on_timer(o)
           \/ on_send_message(o) \/ on_heartbeat_timer(o) \/ on_read_stale(o)
           \/ on_read_error(o) \/ on_close_response(o)
  <2>1. MovesOn /\ OnlySession
    BY <1>0, <1>1, SessionHandlers, Zenon DEF ConnectInv
  <2>2. UNCHANGED <<called, ran, cancelling, completed, nonNull, address, reserved, callbacks,
                    connectOp, owner, createOps, tunnels, acceptOp, target>>
    BY <2>1, Zenon DEF OnlySession, opVars, doneVars, mutexVars, tunnelVars, streamVars, historyVars
  <2>3. cancelling' \subseteq called'
    BY <1>0, <2>2, Zenon DEF ConnectInv
  <2> QED
    BY <1>0, <2>1, <2>2, <2>3, MovesOnConnect, MovesOnTunnel, Zenon DEF OwnInv
<1>2. CASE on_queue_cancelled(o)
  BY <1>0, <1>2, ConnectClosed, TunnelClosed, Zenon DEF OwnInv
<1>3. CASE on_open(o)
  <2>1. UNCHANGED <<createOps, tunnels, acceptOp, target, ran>>
        /\ completed' = completed \cup {connectOp} /\ state' = "connected"
    BY <1>3, CompleteAll, Zenon DEF on_open, opVars, tunnelVars, streamVars
  <2> QED
    BY <1>0, <1>3, <2>1, ConnectOpen, NotRegistered, Zenon DEF OwnInv
<1>4. CASE \/ \E op \in createOps : on_tunnel_refused(o, op)
           \/ \E op \in createOps, t \in TunnelIds : on_tunnel_response(o, op, t)
           \/ \E t \in tunnels : on_tunnel_closed(o, t)
           \/ \E t \in tunnels, s \in StreamIds : on_proxy_request(o, t, s)
  <2>1. NotConnect
    BY <1>0, <1>4, TunnelMessagesNotConnect, Zenon
  <2> QED
    BY <1>0, <1>4, <2>1, NotConnectInv, TunnelMessages, Zenon DEF OwnInv
<1> QED
  BY <1>1, <1>2, <1>3, <1>4, Zenon

LEMMA OwnNext == OwnInv /\ [Next]_vars => OwnInv'
<1> SUFFICES ASSUME OwnInv, [Next]_vars PROVE OwnInv'
  OBVIOUS
<1>0. ConnectInv /\ TunnelInv
  BY DEF OwnInv
<1>1. CASE UserNext
  BY <1>1, OwnUser
<1>2. CASE DispatchNext
  BY <1>2, OwnDispatch, Zenon
<1>3. CASE SessionNext
  BY <1>3, OwnSession
<1>4. CASE StreamNext
  <2> PICK d \in dials, ok \in BOOLEAN : on_connect_stream(d, ok)
    BY <1>4, Zenon DEF StreamNext
  <2>1. NotConnect
    BY <1>0, TunnelMessagesNotConnect, Zenon
  <2> QED
    BY <1>0, <2>1, NotConnectInv, TunnelConnectStream, Zenon DEF OwnInv
<1>5. CASE UNCHANGED vars
  <2>1. UNCHANGED <<called, ran, cancelling, completed, nonNull, address, reserved, callbacks, state,
                    closing, connectOp, owner, createOps, tunnels, acceptOp, target>>
    BY <1>5, Zenon DEF vars, stateVars, opVars, doneVars, mutexVars, sessionVars, tunnelVars, streamVars, historyVars
  <2>2. cancelling' \subseteq called'
    BY <1>0, <2>1 DEF ConnectInv
  <2> QED
    BY <1>0, <2>1, <2>2, MovesOnConnect, MovesOnTunnel, Zenon DEF OwnInv, MovesOn
<1> QED
  BY <1>1, <1>2, <1>3, <1>4, <1>5, Zenon DEF Next

LEMMA OwnInvariant == Spec => []OwnInv
<1>1. Init => OwnInv
  BY ConnectInit, TunnelInit DEF OwnInv
<1> QED
  BY <1>1, OwnNext, PTL DEF Spec

(* For every number of calls, from any threads: the flag that callers test *)
(* under m_mutex and the session on the strand agree, one reservation is   *)
(* outstanding at a time, and a session keeps its own address.             *)
THEOREM ReservationIsSound == Spec => []ReservationSound
<1>1. OwnInv => ReservationSound
  BY Zenon DEF OwnInv, ConnectInv
<1> QED
  BY <1>1, OwnInvariant, PTL

(* No operation is ever lost: until it completes it is registered where    *)
(* on_queue_cancelled() completes it.                                      *)
THEOREM NoOperationLost == Spec => []NoOrphan
<1>1. OwnInv => NoOrphan
  <2> SUFFICES ASSUME OwnInv, NEW op \in ran \ completed
               PROVE  /\ state # "null"
                      /\ \/ op = connectOp /\ (state = "connecting" \/ (closing # NoClose /\ closing.prev = "connecting"))
                         \/ op \in createOps
                         \/ op \in AcceptOps /\ target[op] \in tunnels /\ acceptOp[target[op]] = op
    BY Zenon DEF NoOrphan
  <2>0. ConnectInv /\ TunnelInv /\ op \in Ops
    BY Zenon DEF OwnInv, ConnectInv
  <2>1. CASE op \in ConnectOps
    BY <2>0, <2>1, ClientAssumption, Zenon DEF ConnectInv, Ops
  <2>2. CASE op \in CreateOps
    BY <2>0, <2>2, Zenon DEF TunnelInv
  <2>3. CASE op \in AcceptOps
    BY <2>0, <2>3 DEF TunnelInv
  <2> QED
    BY <2>0, <2>1, <2>2, <2>3, Zenon DEF Ops
<1> QED
  BY <1>1, OwnInvariant, PTL

-----------------------------------------------------------------------------
(* Every step leaves the completions alone or is a Complete(). *)
LEMMA StepCompletes ==
  ASSUME [Next]_vars
  PROVE  UNCHANGED doneVars \/ \E res : Complete(res)
<1>1. CASE UserNext
  BY <1>1, ZenonT(60) DEF UserNext, set_control_callbacks, close, async_connect, async_create_tunnel,
              async_accept_tunnel, close_tunnel, EmitSlot
<1>2. CASE DispatchNext
  BY <1>2, ZenonT(60) DEF DispatchNext, async_connect_internal, cancel_connect, async_create_tunnel_internal,
              cancel_create_tunnel, cancel_accept_tunnel, async_accept_tunnel_internal
<1>3. CASE SessionNext
  <2>1. PICK o \in asyncOps :
          \/ on_do_resolve_host(o) \/ on_connect(o) \/ on_timer(o) \/ on_send_message(o)
          \/ on_heartbeat_timer(o) \/ on_queue_cancelled(o) \/ on_read_stale(o)
          \/ on_read_error(o) \/ on_open(o) \/ on_close_response(o)
          \/ \E op \in createOps : on_tunnel_refused(o, op)
          \/ \E op \in createOps, t \in TunnelIds : on_tunnel_response(o, op, t)
          \/ \E t \in tunnels : on_tunnel_closed(o, t)
          \/ \E t \in tunnels, s \in StreamIds : on_proxy_request(o, t, s)
    BY <1>3, Zenon DEF SessionNext
  <2>2. CASE \/ on_do_resolve_host(o) \/ on_connect(o) \/ on_timer(o) \/ on_send_message(o)
             \/ on_heartbeat_timer(o) \/ on_read_stale(o) \/ on_read_error(o) \/ on_close_response(o)
    BY <2>2, Zenon DEF on_do_resolve_host, on_connect, on_timer, on_send_message, on_heartbeat_timer,
                on_read_stale, on_read_error, on_close_response, OnlySession
  <2>3. CASE on_queue_cancelled(o)
    BY <2>3, Zenon DEF on_queue_cancelled
  <2>4. CASE on_open(o)
    BY <2>4, Zenon DEF on_open
  <2>5. CASE \/ \E op \in createOps : on_tunnel_refused(o, op)
             \/ \E op \in createOps, t \in TunnelIds : on_tunnel_response(o, op, t)
    BY <2>5, Zenon DEF on_tunnel_refused, on_tunnel_response
  <2>6. CASE \/ \E t \in tunnels : on_tunnel_closed(o, t)
             \/ \E t \in tunnels, s \in StreamIds : on_proxy_request(o, t, s)
    BY <2>6, Zenon DEF on_tunnel_closed, on_proxy_request
  <2> QED
    BY <2>1, <2>2, <2>3, <2>4, <2>5, <2>6
<1>4. CASE StreamNext
  BY <1>4, ZenonT(60) DEF StreamNext, on_connect_stream
<1>5. CASE UNCHANGED vars
  BY <1>5 DEF vars, stateVars
<1> QED
  BY <1>1, <1>2, <1>3, <1>4, <1>5, Zenon DEF Next

(* Every completion handler of a connect, create or accept call is invoked *)
(* at most once, and exactly once by the time its operation is completed.  *)
THEOREM ClientCompletesOnce == Spec => []CompletedOnce
<1>1. Init => CompletedOnce
  BY DEF Init, CompletedOnce
<1>2. CompletedOnce /\ [Next]_vars => CompletedOnce'
  <2> SUFFICES ASSUME CompletedOnce, [Next]_vars PROVE CompletedOnce'
    OBVIOUS
  <2>1. CASE UNCHANGED doneVars
    BY <2>1, Zenon DEF CompletedOnce, doneVars
  <2>2. ASSUME NEW res, Complete(res) PROVE CompletedOnce'
    <3>1. ASSUME NEW op \in Ops PROVE calls'[op] = IF op \in completed' THEN 1 ELSE 0
      <4>1. calls[op] = IF op \in completed THEN 1 ELSE 0
        BY Zenon DEF CompletedOnce
      <4>2. calls'[op] = IF op \in DOMAIN res \ completed THEN calls[op] + 1 ELSE calls[op]
        BY <2>2, Zenon DEF Complete
      <4>3. completed' = completed \cup DOMAIN res
        BY <2>2, Zenon DEF Complete
      <4> QED
        BY <4>1, <4>2, <4>3
    <3> QED
      BY <3>1, Zenon DEF CompletedOnce
  <2> QED
    BY <2>1, <2>2, StepCompletes, Zenon
<1> QED
  BY <1>1, <1>2, PTL DEF Spec

-----------------------------------------------------------------------------
(* Disconnection reports. *)
ReportInv ==
  /\ opened \in Nat /\ dropped \in [Causes -> Nat]
  /\ closing # NoClose => closing.cause \in Causes /\ closing.notify = callbacks
  /\ DisconnectOnce

(* A step that reports nothing keeps a session a session. *)
LEMMA ReportQuiet ==
  ASSUME ReportInv, ConnectInv, UNCHANGED <<opened, dropped, callbacks>>,
         \/ MovesOn
         \/ state = "connected" /\ state' = "closing" /\ closing' = closing
         \/ state = "null" /\ state' = "connecting" /\ closing' = closing
  PROVE  ReportInv'
<1>1. InSession' <=> InSession
  BY Zenon DEF InSession, MovesOn, ConnectInv, States
<1>2. closing' # NoClose => closing'.cause \in Causes /\ closing'.notify = callbacks'
  BY Zenon DEF ReportInv, MovesOn
<1> QED
  BY <1>1, <1>2, Zenon DEF ReportInv, DisconnectOnce

LEMMA ReportSet ==
  ASSUME ReportInv, ConnectInv, set_control_callbacks
  PROVE  ReportInv'
<1>1. state = "null" /\ UNCHANGED <<opened, dropped, state, closing>>
  BY Zenon DEF set_control_callbacks, ConnectInv, ReservationSound, sessionVars, historyVars
<1>2. ~ InSession /\ ~ InSession' /\ closing = NoClose
  BY <1>1, Zenon DEF InSession, ConnectInv
<1> QED
  BY <1>1, <1>2, Zenon DEF ReportInv, DisconnectOnce

LEMMA ReportOpen ==
  ASSUME ReportInv, ConnectInv, NEW o \in asyncOps, on_open(o)
  PROVE  ReportInv'
<1>1. /\ state = "connecting" /\ state' = "connected" /\ UNCHANGED <<closing, callbacks, dropped>>
      /\ opened' = IF callbacks THEN opened + 1 ELSE opened
  BY Zenon DEF on_open, Expected, mutexVars
<1>2. ~ InSession /\ InSession' /\ closing = NoClose
  BY <1>1 DEF InSession, ConnectInv
<1>3. dropped["none"] \in Nat /\ dropped["error"] \in Nat /\ dropped["aborted"] \in Nat
  BY DEF ReportInv, Causes
<1>4. opened = dropped["none"] + dropped["error"] + dropped["aborted"]
  BY <1>2, <1>3 DEF ReportInv, DisconnectOnce
<1>5. DisconnectOnce'
  BY <1>1, <1>2, <1>3, <1>4 DEF DisconnectOnce
<1> QED
  BY <1>1, <1>2, <1>5 DEF ReportInv

LEMMA ReportClosed ==
  ASSUME ReportInv, ConnectInv, NEW o \in asyncOps, on_queue_cancelled(o)
  PROVE  ReportInv'
<1>1. /\ closing # NoClose /\ state = "closing" /\ state' = "null" /\ closing' = NoClose
      /\ callbacks' = FALSE /\ UNCHANGED opened
      /\ dropped' = IF Notifies(closing) THEN [dropped EXCEPT ![closing.cause] = @ + 1] ELSE dropped
  BY DEF on_queue_cancelled, ConnectInv
<1>2. ~ InSession'
  BY <1>1, Zenon DEF InSession
<1>3. Notifies(closing) <=> callbacks /\ InSession
  BY <1>1, Zenon DEF Notifies, InSession, ReportInv
<1>4. closing.cause \in Causes /\ dropped \in [Causes -> Nat]
  BY <1>1, Zenon DEF ReportInv
<1>5. dropped' \in [Causes -> Nat]
  BY <1>1, <1>4
<1>6. dropped["none"] \in Nat /\ dropped["error"] \in Nat /\ dropped["aborted"] \in Nat
  BY <1>4 DEF Causes
<1>7. DisconnectOnce'
  <2>1. CASE ~ Notifies(closing)
    BY <1>1, <1>2, <1>3, <1>6, <2>1, Zenon DEF ReportInv, DisconnectOnce
  <2>2. CASE Notifies(closing)
    <3>1. opened = dropped["none"] + dropped["error"] + dropped["aborted"] + 1
      BY <1>3, <2>2 DEF ReportInv, DisconnectOnce
    <3>2. dropped' = [dropped EXCEPT ![closing.cause] = @ + 1]
      BY <1>1, <2>2
    <3>3. dropped'["none"] + dropped'["error"] + dropped'["aborted"]
            = dropped["none"] + dropped["error"] + dropped["aborted"] + 1
      BY <1>4, <1>6, <3>2 DEF Causes
    <3>4. dropped'["none"] \in Nat /\ dropped'["error"] \in Nat /\ dropped'["aborted"] \in Nat
      BY <1>5 DEF Causes
    <3> QED
      BY <1>1, <1>2, <3>1, <3>3, <3>4 DEF DisconnectOnce
  <2> QED
    BY <2>1, <2>2, Zenon
<1> QED
  BY <1>1, <1>5, <1>7, Zenon DEF ReportInv

LEMMA ReportNext == ReportInv /\ OwnInv /\ [Next]_vars => ReportInv'
<1> SUFFICES ASSUME ReportInv, ConnectInv, TunnelInv, [Next]_vars PROVE ReportInv'
  BY Zenon DEF OwnInv
<1>1. CASE UserNext
  <2>1. CASE set_control_callbacks
    BY <2>1, ReportSet, Zenon
  <2>2. CASE close
    <3>1. UNCHANGED <<opened, dropped, callbacks>>
      BY <2>2, Zenon DEF close, mutexVars
    <3> QED
      BY <2>2, <3>1, CloseStep, ReportQuiet, Zenon DEF ConnectInv
  <2>3. ASSUME NEW op \in ConnectOps, async_connect(op) PROVE ReportInv'
    BY <2>3, ReportQuiet, Zenon DEF async_connect, sessionVars, historyVars, MovesOn
  <2>4. CASE \/ \E op \in CreateOps : async_create_tunnel(op)
             \/ \E op \in AcceptOps, t \in TunnelIds : async_accept_tunnel(op, t)
             \/ \E t \in TunnelIds : close_tunnel(t)
             \/ \E op \in Ops : EmitSlot(op)
    <3>1. UNCHANGED <<opened, dropped, callbacks, state, closing>>
      BY <2>4, Zenon DEF async_create_tunnel, async_accept_tunnel, close_tunnel, EmitSlot,
                  mutexVars, sessionVars, historyVars
    <3> QED
      BY <3>1, ReportQuiet, Zenon DEF MovesOn
  <2> QED
    BY <1>1, <2>1, <2>2, <2>3, <2>4 DEF UserNext
<1>2. CASE DispatchNext
  <2>1. ASSUME NEW op \in ConnectOps, async_connect_internal(op) PROVE ReportInv'
    <3>1. UNCHANGED <<opened, dropped, callbacks>>
      BY <2>1, ZenonT(60) DEF async_connect_internal, mutexVars
    <3>2. \/ UNCHANGED <<state, closing>>
          \/ state = "null" /\ state' = "connecting" /\ closing' = closing
      BY <2>1 DEF async_connect_internal, sessionVars
    <3> QED
      BY <3>1, <3>2, ReportQuiet, Zenon DEF MovesOn
  <2>2. ASSUME NEW op \in ConnectOps, cancel_connect(op) PROVE ReportInv'
    <3>1. UNCHANGED <<opened, dropped, callbacks>>
      BY <2>2, Zenon DEF cancel_connect, mutexVars, historyVars
    <3>2. MovesOn
      BY <2>2, CloseMovesOn, Zenon DEF cancel_connect, sessionVars, MovesOn, ConnectInv, Causes
    <3> QED
      BY <3>1, <3>2, ReportQuiet, Zenon
  <2>3. CASE \/ \E op \in CreateOps : async_create_tunnel_internal(op) \/ cancel_create_tunnel(op)
             \/ \E op \in AcceptOps : cancel_accept_tunnel(op)
             \/ \E op \in AcceptOps, t \in TunnelIds : async_accept_tunnel_internal(op, t)
    <3>1. UNCHANGED <<opened, dropped, callbacks, state, closing>>
      BY <2>3, Zenon DEF async_create_tunnel_internal, cancel_create_tunnel, cancel_accept_tunnel,
                  async_accept_tunnel_internal, mutexVars, sessionVars, historyVars
    <3> QED
      BY <3>1, ReportQuiet DEF MovesOn
  <2> QED
    BY <1>2, <2>1, <2>2, <2>3, Zenon DEF DispatchNext
<1>3. CASE SessionNext
  <2>1. PICK o \in asyncOps :
          \/ \/ on_do_resolve_host(o) \/ on_connect(o) \/ on_timer(o)
             \/ on_send_message(o) \/ on_heartbeat_timer(o) \/ on_read_stale(o)
             \/ on_read_error(o) \/ on_close_response(o)
          \/ on_queue_cancelled(o)
          \/ on_open(o)
          \/ \/ \E op \in createOps : on_tunnel_refused(o, op)
             \/ \E op \in createOps, t \in TunnelIds : on_tunnel_response(o, op, t)
             \/ \E t \in tunnels : on_tunnel_closed(o, t)
             \/ \E t \in tunnels, s \in StreamIds : on_proxy_request(o, t, s)
    BY <1>3, Zenon DEF SessionNext
  <2>2. CASE \/ on_do_resolve_host(o) \/ on_connect(o) \/ on_timer(o)
             \/ on_send_message(o) \/ on_heartbeat_timer(o) \/ on_read_stale(o)
             \/ on_read_error(o) \/ on_close_response(o)
    <3>1. MovesOn /\ OnlySession
      BY <2>2, SessionHandlers, Zenon DEF ConnectInv
    <3>2. UNCHANGED <<opened, dropped, callbacks>>
      BY <3>1, Zenon DEF OnlySession, mutexVars, historyVars
    <3> QED
      BY <3>1, <3>2, ReportQuiet, Zenon
  <2>3. CASE \/ \E op \in createOps : on_tunnel_refused(o, op)
             \/ \E op \in createOps, t \in TunnelIds : on_tunnel_response(o, op, t)
             \/ \E t \in tunnels : on_tunnel_closed(o, t)
             \/ \E t \in tunnels, s \in StreamIds : on_proxy_request(o, t, s)
    <3>1. UNCHANGED <<opened, dropped, callbacks, state, closing>>
      BY <2>3, Zenon DEF on_tunnel_refused, on_tunnel_response, on_tunnel_closed, on_proxy_request,
                  mutexVars, sessionVars, historyVars
    <3> QED
      BY <3>1, ReportQuiet, Zenon DEF MovesOn
  <2> QED
    BY <2>1, <2>2, <2>3, ReportClosed, ReportOpen, Zenon
<1>4. CASE StreamNext
  <2>1. UNCHANGED <<opened, dropped, callbacks, state, closing>>
    BY <1>4, ZenonT(60) DEF StreamNext, on_connect_stream, mutexVars, historyVars
  <2> QED
    BY <2>1, ReportQuiet DEF MovesOn
<1>5. CASE UNCHANGED vars
  <2>1. UNCHANGED <<opened, dropped, callbacks, state, closing>>
    BY <1>5 DEF vars, stateVars, mutexVars, sessionVars, historyVars
  <2> QED
    BY <2>1, ReportQuiet DEF MovesOn
<1> QED
  BY <1>1, <1>2, <1>3, <1>4, <1>5 DEF Next

(* With control callbacks, every session that opened is reported exactly   *)
(* once when it ends, and a connection attempt that failed never is.       *)
THEOREM SessionsReportedOnce == Spec => []DisconnectOnce
<1>1. Init => ReportInv
  BY DEF Init, ReportInv, DisconnectOnce, InSession, Causes
<1>2. ReportInv => DisconnectOnce
  BY Zenon DEF ReportInv
<1> QED
  BY <1>1, <1>2, ReportNext, OwnInvariant, PTL DEF Spec

-----------------------------------------------------------------------------
(***************************************************************************)
(* What keeps a session moving.  SessionDriven is inductive once it is     *)
(* known that on_close() has run only in state closing (ConnectInv): every *)
(* handler either leaves the operation that drives the session in flight,  *)
(* or has just taken it out of flight and calls on_close(), which starts   *)
(* the cancellation of the queue.                                          *)
(***************************************************************************)
(* Operations that do not drive a session of this generation. *)
Idle(o) ==
  \/ o.kind \in {"resolve", "connect", "send", "heartbeat", "beat"}
  \/ o.kind \in {"timer", "read"} /\ (o.gen # generation \/ state = "null")

LEMMA KeepsDriven ==
  ASSUME ConnectInv, SessionDriven, UNCHANGED <<state, generation, closing>>,
         \A o \in asyncOps : o \in asyncOps' \/ Idle(o)
  PROVE  SessionDriven'
<1>1. CASE closing # NoClose
  <2>1. PICK o \in asyncOps : o.kind = "queue_cancelled"
    BY <1>1 DEF SessionDriven
  <2>2. o \in asyncOps'
    BY <2>1, Zenon DEF Idle
  <2> QED
    BY <1>1, <2>1, <2>2, Zenon DEF SessionDriven
<1>2. CASE closing = NoClose /\ state = "null"
  BY <1>2, Zenon DEF SessionDriven
<1>3. CASE closing = NoClose /\ state # "null"
  <2>1. ~ Idle(Op("timer", generation)) /\ ~ Idle(Op("read", generation))
    BY <1>3 DEF Idle, Op
  <2> QED
    BY <1>3, <2>1, Zenon DEF SessionDriven, Op
<1> QED
  BY <1>1, <1>2, <1>3, Zenon

LEMMA CloseDrives ==
  ASSUME ConnectInv, SessionDriven, NEW cause \in Causes, NEW pending, on_close(cause, pending),
         \A o \in asyncOps : o.kind = "queue_cancelled" => o \in pending
  PROVE  SessionDriven'
<1>1. CASE closing # NoClose
  <2>1. PICK o \in asyncOps : o.kind = "queue_cancelled"
    BY <1>1, Zenon DEF SessionDriven
  <2>2. o \in asyncOps' /\ closing' = closing
    BY <1>1, <2>1, Zenon DEF on_close
  <2> QED
    BY <1>1, <2>1, <2>2, Zenon DEF SessionDriven
<1>2. CASE closing = NoClose /\ state = "null"
  BY <1>2, Zenon DEF on_close, SessionDriven
<1>3. CASE closing = NoClose /\ state # "null"
  <2> DEFINE q == Op("queue_cancelled", generation + 1)
  <2>1. q.kind = "queue_cancelled"
    BY Zenon DEF Op
  <2>2. q \in asyncOps'
    BY <1>3, <2>1, Zenon DEF on_close, Untimed
  <2>3. closing' = [prev |-> state, cause |-> cause, notify |-> callbacks]
    BY <1>3, Zenon DEF on_close
  <2>4. closing' # NoClose
    BY <2>3, ClientAssumption DEF ConnectInv
  <2> QED
    BY <2>1, <2>2, <2>4, Zenon DEF SessionDriven
<1> QED
  BY <1>1, <1>2, <1>3, Zenon

LEMMA SessionHandlersDriven ==
  ASSUME ConnectInv, SessionDriven, NEW o \in asyncOps,
         \/ on_do_resolve_host(o) \/ on_connect(o) \/ on_timer(o)
         \/ on_send_message(o) \/ on_heartbeat_timer(o) \/ on_read_stale(o)
         \/ on_read_error(o) \/ on_close_response(o)
  PROVE  SessionDriven'
<1> USE DEF Causes
<1>0. ASSUME NEW cause \in Causes, NEW pending, on_close(cause, pending),
             asyncOps \ {o} \subseteq pending, o.kind # "queue_cancelled"
      PROVE  SessionDriven'
  BY <1>0, CloseDrives, Zenon
<1>1. ASSUME UNCHANGED <<state, generation, closing>>, Idle(o), asyncOps \ {o} \subseteq asyncOps'
      PROVE  SessionDriven'
  BY <1>1, KeepsDriven, Zenon
<1>2. CASE on_do_resolve_host(o)
  <2>1. o.kind = "resolve" /\ Idle(o) /\ asyncOps \ {o} \subseteq asyncOps \ {o}
    BY <1>2, Zenon DEF on_do_resolve_host, Idle
  <2>2. \/ on_close("error", asyncOps \ {o})
        \/ asyncOps \ {o} \subseteq asyncOps' /\ UNCHANGED <<state, generation, closing>>
    BY <1>2, Zenon DEF on_do_resolve_host
  <2> QED
    BY <1>0, <1>1, <2>1, <2>2, Zenon
<1>3. CASE on_connect(o)
  <2>1. o.kind = "connect" /\ Idle(o)
    BY <1>3, Zenon DEF on_connect, Idle
  <2>2. \/ \E pending : on_close("error", pending) /\ asyncOps \ {o} \subseteq pending
        \/ asyncOps \ {o} \subseteq asyncOps' /\ UNCHANGED <<state, generation, closing>>
    BY <1>3, Zenon DEF on_connect, Reading, Sending
  <2> QED
    BY <1>0, <1>1, <2>1, <2>2, Zenon
<1>4. CASE on_timer(o)
  <2>1. o.kind = "timer"
    BY <1>4, Zenon DEF on_timer
  <2>2. \/ on_close("error", asyncOps \ {o})
        \/ /\ asyncOps \ {o} \subseteq asyncOps' /\ UNCHANGED <<state, generation, closing>>
           /\ Idle(o)
    BY <1>4, Zenon DEF on_timer, Idle
  <2> QED
    BY <1>0, <1>1, <2>1, <2>2, Zenon
<1>5. CASE on_send_message(o)
  <2>1. o.kind # "queue_cancelled" /\ Idle(o)
    BY <1>5, Zenon DEF on_send_message, Idle
  <2>2. \/ on_close("error", asyncOps \ {o})
        \/ asyncOps \ {o} \subseteq asyncOps' /\ UNCHANGED <<state, generation, closing>>
    BY <1>5, Zenon DEF on_send_message
  <2> QED
    BY <1>0, <1>1, <2>1, <2>2, Zenon
<1>6. CASE on_heartbeat_timer(o)
  <2>1. /\ Idle(o) /\ asyncOps \ {o} \subseteq asyncOps'
        /\ UNCHANGED <<state, generation, closing>>
    BY <1>6, Zenon DEF on_heartbeat_timer, Idle
  <2> QED
    BY <1>1, <2>1, Zenon
<1>7. CASE on_read_stale(o)
  <2>1. /\ Idle(o) /\ asyncOps \ {o} \subseteq asyncOps'
        /\ UNCHANGED <<state, generation, closing>>
    BY <1>7, Zenon DEF on_read_stale, Idle, Read
  <2> QED
    BY <1>1, <2>1
<1>8. CASE on_read_error(o) \/ on_close_response(o)
  <2>1. o.kind = "read" /\ \E cause \in Causes : on_close(cause, asyncOps \ {o})
    BY <1>8, Zenon DEF on_read_error, on_close_response, Read
  <2> QED
    BY <1>0, <2>1, Zenon
<1> QED
  BY <1>2, <1>3, <1>4, <1>5, <1>6, <1>7, <1>8, Zenon

(* The operations in flight, tagged with a generation. *)
Flights == [kind : Kinds, gen : Nat]
FlightInv == generation \in Nat /\ asyncOps \subseteq Flights

LEMMA FlightOps ==
  ASSUME FlightInv
  PROVE  /\ generation + 1 \in Nat
         /\ \A k \in Kinds : Op(k, generation) \in Flights /\ Op(k, generation + 1) \in Flights
  BY DEF FlightInv, Flights, Op

LEMMA CloseFlights ==
  ASSUME FlightInv, NEW cause, NEW pending \in SUBSET Flights, on_close(cause, pending)
  PROVE  FlightInv'
<1>1. Op("queue_cancelled", generation + 1) \in Flights /\ generation + 1 \in Nat
  BY FlightOps, Zenon DEF Kinds
<1> QED
  BY <1>1, Zenon DEF on_close, FlightInv, Untimed

LEMMA FlightNext == FlightInv /\ [Next]_vars => FlightInv'
<1> SUFFICES ASSUME FlightInv, [Next]_vars PROVE FlightInv'
  OBVIOUS
<1>0. /\ generation + 1 \in Nat /\ generation \in Nat /\ asyncOps \subseteq Flights
      /\ \A k \in Kinds : Op(k, generation) \in Flights /\ Op(k, generation + 1) \in Flights
  BY FlightOps DEF FlightInv
<1>1. CASE UNCHANGED <<generation, asyncOps>>
  BY <1>1, Zenon DEF FlightInv
<1>2. ASSUME generation' \in {generation, generation + 1},
             NEW new \in SUBSET Flights, asyncOps' \subseteq asyncOps \cup new
      PROVE  FlightInv'
  BY <1>0, <1>2, Zenon DEF FlightInv
<1>3. Sending(asyncOps) \subseteq asyncOps \cup {Op("send", generation)}
      /\ {Op("send", generation)} \in SUBSET Flights
  BY <1>0, Zenon DEF Sending, Kinds
<1>4. CASE UserNext
  <2>1. CASE close
    <3>1. CASE state = "connecting" /\ on_close("none", asyncOps)
      BY <1>0, <3>1, CloseFlights, Zenon
    <3>2. CASE /\ asyncOps' = Sending(Untimed(asyncOps)) \cup {Op("timer", generation)}
               /\ generation' = generation
      <4>1. /\ asyncOps' \subseteq asyncOps \cup {Op("send", generation), Op("timer", generation)}
            /\ {Op("send", generation), Op("timer", generation)} \in SUBSET Flights
        BY <1>0, <3>2, Zenon DEF Sending, Untimed, Kinds
      <4> QED
        BY <1>2, <3>2, <4>1, Zenon
    <3> QED
      BY <1>1, <2>1, <3>1, <3>2, Zenon DEF close, sessionVars
  <2>2. ASSUME NEW t \in TunnelIds, close_tunnel(t) PROVE FlightInv'
    BY <1>2, <1>3, <2>2, Zenon DEF close_tunnel
  <2>3. CASE \/ set_control_callbacks
             \/ \E op \in ConnectOps : async_connect(op)
             \/ \E op \in CreateOps : async_create_tunnel(op)
             \/ \E op \in AcceptOps, t \in TunnelIds : async_accept_tunnel(op, t)
             \/ \E op \in Ops : EmitSlot(op)
    BY <1>1, <2>3, Zenon DEF set_control_callbacks, async_connect, async_create_tunnel,
                      async_accept_tunnel, EmitSlot, sessionVars
  <2> QED
    BY <1>4, <2>1, <2>2, <2>3, Zenon DEF UserNext
<1>5. CASE DispatchNext
  <2>1. ASSUME NEW op \in ConnectOps, async_connect_internal(op) PROVE FlightInv'
    <3> DEFINE new == {Op("timer", generation + 1), Op("resolve", generation + 1)}
    <3>1. new \in SUBSET Flights
      BY <1>0, Zenon DEF Kinds
    <3>2. \/ UNCHANGED <<generation, asyncOps>>
          \/ generation' = generation + 1 /\ asyncOps' \subseteq asyncOps \cup new
      BY <2>1, Zenon DEF async_connect_internal, sessionVars, Untimed
    <3> HIDE DEF new
    <3> QED
      BY <1>1, <1>2, <3>1, <3>2, Zenon
  <2>2. ASSUME NEW op \in ConnectOps, cancel_connect(op) PROVE FlightInv'
    BY <1>0, <1>1, <2>2, CloseFlights, ZenonT(60) DEF cancel_connect, sessionVars
  <2>3. ASSUME NEW op \in CreateOps, async_create_tunnel_internal(op) PROVE FlightInv'
    BY <1>1, <1>2, <1>3, <2>3 DEF async_create_tunnel_internal
  <2>4. CASE \/ \E op \in CreateOps : cancel_create_tunnel(op)
             \/ \E op \in AcceptOps : cancel_accept_tunnel(op)
             \/ \E op \in AcceptOps, t \in TunnelIds : async_accept_tunnel_internal(op, t)
    BY <1>1, <2>4, ZenonT(60) DEF cancel_create_tunnel, cancel_accept_tunnel, async_accept_tunnel_internal,
                      sessionVars
  <2> QED
    BY <1>5, <2>1, <2>2, <2>3, <2>4, Zenon DEF DispatchNext
<1>6. CASE SessionNext
  <2>1. PICK o \in asyncOps :
          \/ on_do_resolve_host(o) \/ on_connect(o) \/ on_timer(o) \/ on_send_message(o)
          \/ on_heartbeat_timer(o) \/ on_queue_cancelled(o) \/ on_read_stale(o)
          \/ on_read_error(o) \/ on_open(o) \/ on_close_response(o)
          \/ \E op \in createOps : on_tunnel_refused(o, op)
          \/ \E op \in createOps, t \in TunnelIds : on_tunnel_response(o, op, t)
          \/ \E t \in tunnels : on_tunnel_closed(o, t)
          \/ \E t \in tunnels, s \in StreamIds : on_proxy_request(o, t, s)
    BY <1>6, Zenon DEF SessionNext
  <2>2. asyncOps \ {o} \in SUBSET Flights
    BY <1>0, Zenon
  <2>3. CASE on_do_resolve_host(o)
    <3>1. /\ (asyncOps \ {o}) \cup {Op("connect", generation)} \subseteq asyncOps \cup {Op("connect", generation)}
          /\ {Op("connect", generation)} \in SUBSET Flights
      BY <1>0, Zenon DEF Kinds
    <3>2. \/ on_close("error", asyncOps \ {o})
          \/ /\ asyncOps' \subseteq asyncOps \cup {Op("connect", generation)}
             /\ generation' = generation
      BY <2>3, <3>1, Zenon DEF on_do_resolve_host
    <3> QED
      BY <1>2, <2>2, <3>1, <3>2, CloseFlights, Zenon
  <2>4. CASE on_connect(o)
    <3> DEFINE new == {Op("send", generation), Op("read", generation), Op("read", generation + 1)}
    <3>1. new \in SUBSET Flights /\ (asyncOps \ {o}) \cup {Op("read", generation + 1)} \in SUBSET Flights
      BY <1>0, Zenon DEF Kinds
    <3>2. \/ on_close("error", asyncOps \ {o})
          \/ on_close("error", (asyncOps \ {o}) \cup {Op("read", generation + 1)})
          \/ asyncOps' \subseteq asyncOps \cup new /\ generation' = generation
      BY <2>4, Zenon DEF on_connect, Reading, Sending
    <3> HIDE DEF new
    <3> QED
      BY <1>2, <2>2, <3>1, <3>2, CloseFlights
  <2>5. CASE on_timer(o)
    BY <1>2, <2>2, <2>5, CloseFlights, Zenon DEF on_timer
  <2>6. CASE on_send_message(o)
    <3>1. {Op("heartbeat", generation)} \in SUBSET Flights
      BY <1>0, Zenon DEF Kinds
    <3>2. \/ on_close("error", asyncOps \ {o})
          \/ /\ asyncOps' \subseteq asyncOps \cup {Op("heartbeat", generation)}
             /\ generation' = generation
      BY <2>6, Zenon DEF on_send_message
    <3> QED
      BY <1>2, <2>2, <3>1, <3>2, CloseFlights, Zenon
  <2>7. CASE on_heartbeat_timer(o)
    <3>1. {Op("beat", generation)} \in SUBSET Flights
      BY <1>0, Zenon DEF Kinds
    <3> QED
      BY <1>2, <2>7, <3>1, Zenon DEF on_heartbeat_timer
  <2>8. CASE on_queue_cancelled(o)
    BY <1>2, <2>8, Zenon DEF on_queue_cancelled, Untimed
  <2>9. CASE on_read_stale(o)
    BY <1>2, <2>9, Zenon DEF on_read_stale
  <2>10. CASE on_read_error(o) \/ on_close_response(o)
    BY <2>2, <2>10, CloseFlights, Zenon DEF on_read_error, on_close_response
  <2>11. CASE on_open(o)
    <3>1. {Op("heartbeat", generation)} \in SUBSET Flights
      BY <1>0 DEF Kinds
    <3>2. /\ generation' = generation
          /\ asyncOps' \subseteq asyncOps \cup {Op("heartbeat", generation)}
      BY <2>11 DEF on_open, Untimed
    <3> QED
      BY <1>2, <3>1, <3>2, Zenon
  <2>12. CASE \/ \E op \in createOps : on_tunnel_refused(o, op)
              \/ \E t \in tunnels : on_tunnel_closed(o, t)
    BY <1>1, <2>12, Zenon DEF on_tunnel_refused, on_tunnel_closed, sessionVars
  <2>13. CASE \/ \E op \in createOps, t \in TunnelIds : on_tunnel_response(o, op, t)
              \/ \E t \in tunnels, s \in StreamIds : on_proxy_request(o, t, s)
    <3>1. generation' = generation /\ (asyncOps' = asyncOps \/ asyncOps' = Sending(asyncOps))
      BY <2>13, ZenonT(60) DEF on_tunnel_response, on_proxy_request
    <3> QED
      BY <1>1, <1>2, <1>3, <3>1
  <2> QED
    BY <2>1, <2>3, <2>4, <2>5, <2>6, <2>7, <2>8, <2>9, <2>10, <2>11, <2>12, <2>13, Zenon
<1>7. CASE StreamNext
  <2>1. generation' = generation /\ (asyncOps' = asyncOps \/ asyncOps' = Sending(asyncOps))
    BY <1>7, ZenonT(60) DEF StreamNext, on_connect_stream
  <2> QED
    BY <1>1, <1>2, <1>3, <2>1
<1>8. CASE UNCHANGED vars
  BY <1>1, <1>8 DEF vars, stateVars, sessionVars
<1> QED
  BY <1>4, <1>5, <1>6, <1>7, <1>8 DEF Next

(* on_open(): the read that brought the answer stays in flight. *)
LEMMA OpenDriven ==
  ASSUME ConnectInv, FlightInv, NEW o \in asyncOps, on_open(o)
  PROVE  SessionDriven'
<1>1. /\ o.kind = "read" /\ o.gen = generation /\ state = "connecting"
      /\ state' = "connected" /\ UNCHANGED <<generation, closing>>
      /\ Untimed(asyncOps) \subseteq asyncOps'
  BY Zenon DEF on_open, Read, Expected
<1>2. closing' = NoClose
  BY <1>1 DEF ConnectInv
<1>3. o \in asyncOps'
  BY <1>1, Zenon DEF Untimed
<1>4. o = Op("read", generation)
  BY <1>1 DEF FlightInv, Flights, Op
<1> QED
  BY <1>1, <1>2, <1>3, <1>4, Zenon DEF SessionDriven

LEMMA DrivenNext == ConnectInv /\ FlightInv /\ SessionDriven /\ [Next]_vars => SessionDriven'
<1> SUFFICES ASSUME ConnectInv, FlightInv, SessionDriven, [Next]_vars PROVE SessionDriven'
  OBVIOUS
<1>1. ASSUME UNCHANGED <<state, generation, closing>>, asyncOps \subseteq asyncOps'
      PROVE  SessionDriven'
  BY <1>1, KeepsDriven
<1>2. asyncOps \subseteq Sending(asyncOps)
  BY Zenon DEF Sending
<1>3. CASE UserNext
  <2>1. CASE close
    <3>1. CASE state = "connecting" /\ on_close("none", asyncOps)
      BY <3>1, CloseDrives, Zenon DEF Causes
    <3>2. CASE /\ state = "connected" /\ state' = "closing"
               /\ asyncOps' = Sending(Untimed(asyncOps)) \cup {Op("timer", generation)}
               /\ UNCHANGED <<generation, closing>>
      <4>1. closing = NoClose
        BY <3>2, Zenon DEF ConnectInv
      <4>2. Op("read", generation) \in Untimed(asyncOps)
        BY <3>2, <4>1, Zenon DEF SessionDriven, Op, Untimed
      <4>3. {Op("timer", generation), Op("read", generation)} \subseteq asyncOps'
        BY <3>2, <4>2, Zenon DEF Sending
      <4> QED
        BY <3>2, <4>1, <4>3, Zenon DEF SessionDriven
    <3>3. CASE UNCHANGED sessionVars
      BY <1>1, <3>3, Zenon DEF sessionVars
    <3> QED
      BY <2>1, <3>1, <3>2, <3>3, Zenon DEF close
  <2>2. ASSUME NEW t \in TunnelIds, close_tunnel(t) PROVE SessionDriven'
    BY <1>1, <1>2, <2>2, Zenon DEF close_tunnel
  <2>3. CASE \/ set_control_callbacks
             \/ \E op \in ConnectOps : async_connect(op)
             \/ \E op \in CreateOps : async_create_tunnel(op)
             \/ \E op \in AcceptOps, t \in TunnelIds : async_accept_tunnel(op, t)
             \/ \E op \in Ops : EmitSlot(op)
    BY <1>1, <2>3, Zenon DEF set_control_callbacks, async_connect, async_create_tunnel,
                      async_accept_tunnel, EmitSlot, sessionVars
  <2> QED
    BY <1>3, <2>1, <2>2, <2>3, Zenon DEF UserNext
<1>4. CASE DispatchNext
  <2>1. ASSUME NEW op \in ConnectOps, async_connect_internal(op) PROVE SessionDriven'
    <3>1. CASE UNCHANGED sessionVars
      BY <1>1, <3>1, Zenon DEF sessionVars
    <3>2. CASE /\ state = "null" /\ state' = "connecting" /\ closing' = closing
               /\ generation' = generation + 1
               /\ Op("timer", generation + 1) \in asyncOps'
      <4>1. closing' = NoClose
        BY <3>2, Zenon DEF ConnectInv
      <4>2. Op("timer", generation') \in asyncOps'
        BY <3>2, Zenon
      <4> QED
        BY <3>2, <4>1, <4>2, Zenon DEF SessionDriven, Op
    <3> QED
      BY <2>1, <3>1, <3>2, Zenon DEF async_connect_internal
  <2>2. ASSUME NEW op \in ConnectOps, cancel_connect(op) PROVE SessionDriven'
    BY <1>1, <2>2, CloseDrives, Zenon DEF cancel_connect, sessionVars, Causes
  <2>3. ASSUME NEW op \in CreateOps, async_create_tunnel_internal(op) PROVE SessionDriven'
    BY <1>1, <1>2, <2>3 DEF async_create_tunnel_internal
  <2>4. CASE \/ \E op \in CreateOps : cancel_create_tunnel(op)
             \/ \E op \in AcceptOps : cancel_accept_tunnel(op)
             \/ \E op \in AcceptOps, t \in TunnelIds : async_accept_tunnel_internal(op, t)
    BY <1>1, <2>4, ZenonT(60) DEF cancel_create_tunnel, cancel_accept_tunnel, async_accept_tunnel_internal,
                      sessionVars
  <2> QED
    BY <1>4, <2>1, <2>2, <2>3, <2>4, Zenon DEF DispatchNext
<1>5. CASE SessionNext
  <2>1. PICK o \in asyncOps :
          \/ on_do_resolve_host(o) \/ on_connect(o) \/ on_timer(o) \/ on_send_message(o)
          \/ on_heartbeat_timer(o) \/ on_queue_cancelled(o) \/ on_read_stale(o)
          \/ on_read_error(o) \/ on_open(o) \/ on_close_response(o)
          \/ \E op \in createOps : on_tunnel_refused(o, op)
          \/ \E op \in createOps, t \in TunnelIds : on_tunnel_response(o, op, t)
          \/ \E t \in tunnels : on_tunnel_closed(o, t)
          \/ \E t \in tunnels, s \in StreamIds : on_proxy_request(o, t, s)
    BY <1>5, Zenon DEF SessionNext
  <2>2. CASE on_queue_cancelled(o)
    BY <2>2, Zenon DEF on_queue_cancelled, SessionDriven
  <2>3. CASE \/ \E op \in createOps : on_tunnel_refused(o, op)
             \/ \E t \in tunnels : on_tunnel_closed(o, t)
    BY <1>1, <2>3, Zenon DEF on_tunnel_refused, on_tunnel_closed, sessionVars
  <2>4. CASE \/ \E op \in createOps, t \in TunnelIds : on_tunnel_response(o, op, t)
             \/ \E t \in tunnels, s \in StreamIds : on_proxy_request(o, t, s)
    <3>1. /\ UNCHANGED <<state, generation, closing>>
          /\ asyncOps' = asyncOps \/ asyncOps' = Sending(asyncOps)
      BY <2>4, ZenonT(60) DEF on_tunnel_response, on_proxy_request
    <3> QED
      BY <1>1, <1>2, <3>1
  <2> QED
    BY <2>1, <2>2, <2>3, <2>4, SessionHandlersDriven, OpenDriven
<1>6. CASE StreamNext
  <2>1. /\ UNCHANGED <<state, generation, closing>>
        /\ asyncOps' = asyncOps \/ asyncOps' = Sending(asyncOps)
    BY <1>6, ZenonT(60) DEF StreamNext, on_connect_stream
  <2> QED
    BY <1>1, <1>2, <2>1
<1>7. CASE UNCHANGED vars
  BY <1>1, <1>7 DEF vars, stateVars, sessionVars
<1> QED
  BY <1>3, <1>4, <1>5, <1>6, <1>7 DEF Next

(* A session is never left with nothing in flight to move it on, whatever  *)
(* completions of earlier sessions and cancellations arrive: the timer     *)
(* armed by set_state() while connecting or closing, do_read() while       *)
(* connected, the queue's async_cancel() once on_close() has run.          *)
THEOREM SessionIsDriven == Spec => []SessionDriven
<1>1. Init => FlightInv /\ SessionDriven
  BY DEF Init, FlightInv, SessionDriven
<1>2. OwnInv => ConnectInv
  BY Zenon DEF OwnInv
<1> QED
  BY <1>1, <1>2, FlightNext, DrivenNext, OwnInvariant, PTL DEF Spec

-----------------------------------------------------------------------------
(***************************************************************************)
(* Tunnels of cancelled create calls.  A create call that is still waiting *)
(* for the engine's answer has completed only if it was cancelled, so      *)
(* on_tunnel_response() sees m_cancelled whenever the caller was told that *)
(* the call was aborted; a tunnel's call has completed, so its result is   *)
(* final; and a session that connects has no tunnel yet.                   *)
(***************************************************************************)
WaitingInv ==
  /\ cancelling \subseteq cancelled
  /\ createOps \subseteq ran
  /\ createOps \cap completed \subseteq cancelled

AbandonInv ==
  /\ state = "connecting" => tunnels = {}
  /\ creator \in [TunnelIds -> CreateOps \cup {NoOp}]
  /\ \A t \in tunnels : creator[t] \in CreateOps \cap completed
  /\ AbandonedTunnelClosed

(* The result of a completed operation is final. *)
LEMMA ResultIsFinal ==
  ASSUME [Next]_vars
  PROVE  \A op \in Ops \cap completed : op \in completed' /\ result'[op] = result[op]
<1>1. CASE UNCHANGED doneVars
  BY <1>1, Zenon DEF doneVars
<1>2. ASSUME NEW res, Complete(res)
      PROVE  \A op \in Ops \cap completed : op \in completed' /\ result'[op] = result[op]
  BY <1>2, Zenon DEF Complete
<1> QED
  BY <1>1, <1>2, StepCompletes, Zenon

LEMMA WaitingNext == OwnInv /\ WaitingInv /\ [Next]_vars => WaitingInv'
<1> SUFFICES ASSUME ConnectInv, TunnelInv, WaitingInv, [Next]_vars PROVE WaitingInv'
  BY Zenon DEF OwnInv
<1>0. /\ createOps \subseteq CreateOps /\ cancelling \subseteq cancelled /\ createOps \subseteq ran
      /\ CreateOps \cap ConnectOps = {} /\ CreateOps \cap AcceptOps = {} /\ NoOp \notin CreateOps
  BY ClientAssumption, Zenon DEF TunnelInv, WaitingInv, Ops
<1>1. ASSUME UNCHANGED <<completed, createOps, cancelled, cancelling>>, ran \subseteq ran'
      PROVE  WaitingInv'
  BY <1>1, Zenon DEF WaitingInv
<1>2. ASSUME NEW S, completed' = completed \cup S, S \cap CreateOps = {},
             UNCHANGED <<createOps, cancelled>>, ran \subseteq ran', cancelling' \subseteq cancelling
      PROVE  WaitingInv'
  BY <1>0, <1>2, Zenon DEF WaitingInv
<1>3. CASE UserNext
  <2>1. ASSUME NEW op \in Ops, EmitSlot(op) PROVE WaitingInv'
    BY <2>1, Zenon DEF EmitSlot, WaitingInv, doneVars, tunnelVars
  <2>2. CASE \/ set_control_callbacks \/ close
             \/ \E op \in ConnectOps : async_connect(op)
             \/ \E op \in CreateOps : async_create_tunnel(op)
             \/ \E op \in AcceptOps, t \in TunnelIds : async_accept_tunnel(op, t)
             \/ \E t \in TunnelIds : close_tunnel(t)
    <3>1. UNCHANGED <<completed, createOps, cancelled, cancelling, ran>>
      BY <2>2, Zenon DEF set_control_callbacks, close, async_connect, async_create_tunnel,
                  async_accept_tunnel, close_tunnel, doneVars, tunnelVars, opVars
    <3> QED
      BY <1>1, <3>1, Zenon
  <2> QED
    BY <1>3, <2>1, <2>2, Zenon DEF UserNext
<1>4. CASE DispatchNext
  <2>1. ASSUME NEW op \in ConnectOps, async_connect_internal(op) PROVE WaitingInv'
    <3>1. /\ completed' = completed \cup {op} \/ completed' = completed \cup {}
          /\ UNCHANGED <<createOps, cancelled, cancelling>> /\ ran \subseteq ran'
      BY <2>1, CompleteAll, Zenon DEF async_connect_internal, doneVars, tunnelVars
    <3>2. {op} \cap CreateOps = {} /\ {} \cap CreateOps = {}
      BY <1>0
    <3> QED
      BY <1>2, <3>1, <3>2, Zenon
  <2>2. ASSUME NEW op \in ConnectOps, cancel_connect(op) PROVE WaitingInv'
    <3>1. /\ completed' = completed \cup {op} \/ completed' = completed \cup {}
          /\ UNCHANGED <<createOps, cancelled, ran>> /\ cancelling' \subseteq cancelling
      BY <2>2, CompleteAll, Zenon DEF cancel_connect, doneVars, tunnelVars
    <3>2. {op} \cap CreateOps = {} /\ {} \cap CreateOps = {}
      BY <1>0
    <3> QED
      BY <1>2, <3>1, <3>2, Zenon
  <2>3. ASSUME NEW op \in CreateOps, async_create_tunnel_internal(op) PROVE WaitingInv'
    <3>1. op \notin ran /\ ran' = ran \cup {op} /\ UNCHANGED <<cancelled, cancelling>>
      BY <2>3, Zenon DEF async_create_tunnel_internal
    <3>2. CASE createOps' = createOps
      <4>1. completed' = completed \cup {op} \/ completed' = completed \cup {}
        BY <2>3, CompleteAll, Zenon DEF async_create_tunnel_internal, doneVars
      <4>2. op \notin createOps
        BY <1>0, <3>1, Zenon
      <4> QED
        BY <3>1, <3>2, <4>1, <4>2, Zenon DEF WaitingInv
    <3>3. CASE op \notin completed /\ createOps' = createOps \cup {op} /\ completed' = completed
      BY <3>1, <3>3, Zenon DEF WaitingInv
    <3> QED
      BY <2>3, <3>2, <3>3, Zenon DEF async_create_tunnel_internal, doneVars
  <2>4. ASSUME NEW op \in CreateOps, cancel_create_tunnel(op) PROVE WaitingInv'
    <3>1. /\ op \in cancelling /\ cancelling' \subseteq cancelling
          /\ completed' = completed \cup {op} /\ UNCHANGED <<createOps, cancelled, ran>>
      BY <2>4, CompleteAll, Zenon DEF cancel_create_tunnel, tunnelVars
    <3> QED
      BY <3>1, Zenon DEF WaitingInv
  <2>5. ASSUME NEW op \in AcceptOps, cancel_accept_tunnel(op) PROVE WaitingInv'
    <3>1. /\ completed' = completed \cup {op} \/ completed' = completed \cup {}
          /\ UNCHANGED <<createOps, cancelled, ran>> /\ cancelling' \subseteq cancelling
      BY <2>5, CompleteAll, Zenon DEF cancel_accept_tunnel, doneVars
    <3>2. {op} \cap CreateOps = {} /\ {} \cap CreateOps = {}
      BY <1>0
    <3> QED
      BY <1>2, <3>1, <3>2, Zenon
  <2>6. ASSUME NEW op \in AcceptOps, NEW t \in TunnelIds, async_accept_tunnel_internal(op, t)
        PROVE  WaitingInv'
    <3>1. /\ completed' = completed \cup {op} \/ completed' = completed \cup {}
          /\ UNCHANGED <<createOps, cancelled, cancelling>> /\ ran \subseteq ran'
      BY <2>6, CompleteAll, Zenon DEF async_accept_tunnel_internal, doneVars
    <3>2. {op} \cap CreateOps = {} /\ {} \cap CreateOps = {}
      BY <1>0, Zenon
    <3> QED
      BY <1>2, <3>1, <3>2, Zenon
  <2> QED
    BY <1>4, <2>1, <2>2, <2>3, <2>4, <2>5, <2>6 DEF DispatchNext
<1>5. CASE SessionNext
  <2>1. PICK o \in asyncOps :
          \/ on_do_resolve_host(o) \/ on_connect(o) \/ on_timer(o) \/ on_send_message(o)
          \/ on_heartbeat_timer(o) \/ on_queue_cancelled(o) \/ on_read_stale(o)
          \/ on_read_error(o) \/ on_open(o) \/ on_close_response(o)
          \/ \E op \in createOps : on_tunnel_refused(o, op)
          \/ \E op \in createOps, t \in TunnelIds : on_tunnel_response(o, op, t)
          \/ \E t \in tunnels : on_tunnel_closed(o, t)
          \/ \E t \in tunnels, s \in StreamIds : on_proxy_request(o, t, s)
    BY <1>5, Zenon DEF SessionNext
  <2>2. CASE on_queue_cancelled(o)
    BY <2>2 DEF on_queue_cancelled, WaitingInv, opVars
  <2>3. CASE on_open(o)
    <3>1. /\ completed' = completed \cup {connectOp}
          /\ UNCHANGED <<createOps, cancelled, cancelling, ran>>
      BY <2>3, CompleteAll, Zenon DEF on_open, tunnelVars, opVars
    <3>2. {connectOp} \cap CreateOps = {}
      BY <1>0, Zenon DEF ConnectInv
    <3> QED
      BY <1>2, <3>1, <3>2, ZenonT(60)
  <2>4. ASSUME NEW op \in createOps,
               \/ on_tunnel_refused(o, op)
               \/ \E t \in TunnelIds : on_tunnel_response(o, op, t)
        PROVE  WaitingInv'
    <3>1. /\ completed' = completed \cup {op} /\ createOps' = createOps \ {op}
          /\ UNCHANGED <<cancelled, cancelling, ran>>
      BY <2>4, CompleteAll, Zenon DEF on_tunnel_refused, on_tunnel_response, opVars
    <3> QED
      BY <3>1, Zenon DEF WaitingInv
  <2>5. ASSUME NEW t \in tunnels, on_tunnel_closed(o, t) PROVE WaitingInv'
    <3>1. /\ completed' = completed \cup Accepting({t})
          /\ UNCHANGED <<createOps, cancelled, cancelling, ran>>
      BY <2>5, CompleteAll, Zenon DEF on_tunnel_closed, opVars
    <3>2. Accepting({t}) \cap CreateOps = {}
      BY <1>0, AcceptingOps DEF TunnelInv
    <3> QED
      BY <1>2, <3>1, <3>2, Zenon
  <2>6. ASSUME NEW t \in tunnels, NEW s \in StreamIds, on_proxy_request(o, t, s) PROVE WaitingInv'
    BY <1>1, <2>6, Zenon DEF on_proxy_request, doneVars, opVars, tunnelVars
  <2>7. CASE \/ on_do_resolve_host(o) \/ on_connect(o) \/ on_timer(o)
             \/ on_send_message(o) \/ on_heartbeat_timer(o) \/ on_read_stale(o)
             \/ on_read_error(o) \/ on_close_response(o)
    <3>1. OnlySession
      BY <2>7, SessionHandlers DEF ConnectInv
    <3> QED
      BY <1>1, <3>1, ZenonT(60) DEF OnlySession, doneVars, opVars, tunnelVars
  <2> QED
    BY <2>1, <2>2, <2>3, <2>4, <2>5, <2>6, <2>7, Zenon
<1>6. ASSUME NEW d \in dials, NEW ok \in BOOLEAN, on_connect_stream(d, ok) PROVE WaitingInv'
  <2>1. /\ UNCHANGED <<createOps, cancelled, cancelling, ran>>
        /\ \/ completed' = completed \cup {}
           \/ d.tunnel \in tunnels /\ completed' = completed \cup {acceptOp[d.tunnel]}
    BY <1>6, CompleteAll, ZenonT(60) DEF on_connect_stream, doneVars, opVars
  <2>2. d.tunnel \in tunnels => {acceptOp[d.tunnel]} \cap CreateOps = {}
    BY <1>0 DEF TunnelInv
  <2>3. {} \cap CreateOps = {}
    BY Zenon
  <2> QED
    BY <1>2, <2>1, <2>2, <2>3, Zenon
<1>7. CASE UNCHANGED vars
  BY <1>1, <1>7, Zenon DEF vars, stateVars, doneVars, opVars, tunnelVars
<1> QED
  BY <1>3, <1>4, <1>5, <1>6, <1>7 DEF Next, StreamNext

(* Steps that add no tunnel and take none out of m_closing. *)
LEMMA AbandonKept ==
  ASSUME AbandonInv, [Next]_vars, tunnels' \subseteq tunnels, creator' = creator,
         shutting \cap tunnels' \subseteq shutting',
         state' = "connecting" => tunnels' = {},
         state' = "connected" => state = "connected" \/ tunnels' = {}
  PROVE  AbandonInv'
<1>1. \A op \in Ops \cap completed : op \in completed' /\ result'[op] = result[op]
  BY ResultIsFinal, Zenon
<1>2. \A t \in tunnels' : /\ creator'[t] = creator[t] /\ creator[t] \in Ops \cap completed
                          /\ creator[t] \in CreateOps
  BY Zenon DEF AbandonInv, Ops
<1>3. \A t \in tunnels' : creator'[t] \in CreateOps \cap completed'
  BY <1>1, <1>2, Zenon
<1>4. ASSUME NEW t \in tunnels', state' = "connected", result'[creator'[t]] = "aborted"
      PROVE  t \in shutting'
  <2>1. t \in tunnels /\ state = "connected" /\ result[creator[t]] = "aborted"
    BY <1>1, <1>2, <1>4, Zenon
  <2> QED
    BY <2>1, Zenon DEF AbandonInv, AbandonedTunnelClosed
<1>5. AbandonedTunnelClosed'
  BY <1>4, Zenon DEF AbandonedTunnelClosed
<1> QED
  BY <1>3, <1>5, Zenon DEF AbandonInv

(* on_tunnel_response(): the call was aborted exactly if it is cancelled,  *)
(* and then the tunnel is closed at once.                                  *)
LEMMA AbandonResponse ==
  ASSUME ConnectInv, TunnelInv, WaitingInv, AbandonInv, [Next]_vars,
         NEW o \in asyncOps, NEW op \in createOps, NEW t \in TunnelIds, on_tunnel_response(o, op, t)
  PROVE  AbandonInv'
<1>0. /\ op \in CreateOps /\ op \in Ops /\ creator[t] = NoOp /\ NoOp \notin CreateOps
      /\ state \in {"connected", "closing"}
  BY ClientAssumption, Zenon DEF TunnelInv, Ops, on_tunnel_response, Expected
<1>1. /\ creator' = [creator EXCEPT ![t] = op] /\ tunnels' = tunnels \cup {t}
      /\ shutting \subseteq shutting' /\ state' = state
      /\ completed' = completed \cup {op}
  BY CompleteAll, Zenon DEF on_tunnel_response
<1>2. \A p \in Ops \cap completed : p \in completed' /\ result'[p] = result[p]
  BY ResultIsFinal, Zenon
<1>3. t \notin tunnels /\ creator \in [TunnelIds -> CreateOps \cup {NoOp}] /\ tunnels \subseteq TunnelIds
  BY <1>0, Zenon DEF AbandonInv, TunnelInv
<1>4. \A u \in tunnels : /\ creator'[u] = creator[u] /\ creator[u] \in Ops \cap completed
                         /\ creator[u] \in CreateOps
  BY <1>1, <1>3, Zenon DEF AbandonInv, Ops
<1>5. creator' \in [TunnelIds -> CreateOps \cup {NoOp}] /\ creator'[t] = op
  BY <1>0, <1>1, <1>3, Zenon
<1>6. \A u \in tunnels' : creator'[u] \in CreateOps \cap completed'
  BY <1>0, <1>1, <1>2, <1>4, <1>5, ZenonT(60)
<1>7. state = "connected" /\ result'[op] = "aborted" => t \in shutting'
  <2>1. CASE op \in cancelled
    BY <2>1, Zenon DEF on_tunnel_response
  <2>2. CASE op \notin cancelled
    <3>1. op \notin completed
      BY <2>2, Zenon DEF WaitingInv
    <3>2. Complete(All({op}, "ok"))
      BY <2>2, Zenon DEF on_tunnel_response
    <3>3. result'[op] = "ok"
      BY <1>0, <3>1, <3>2, Zenon DEF Complete, All
    <3> QED
      BY <3>3, Zenon
  <2> QED
    BY <2>1, <2>2
<1>8. \A u \in tunnels : state = "connected" /\ result'[creator'[u]] = "aborted" => u \in shutting'
  BY <1>1, <1>2, <1>4, Zenon DEF AbandonInv, AbandonedTunnelClosed
<1>9. AbandonedTunnelClosed'
  BY <1>1, <1>5, <1>7, <1>8, Zenon DEF AbandonedTunnelClosed
<1> QED
  BY <1>0, <1>1, <1>5, <1>6, <1>9, Zenon DEF AbandonInv

LEMMA AbandonNext == OwnInv /\ WaitingInv /\ AbandonInv /\ [Next]_vars => AbandonInv'
<1> SUFFICES ASSUME ConnectInv, TunnelInv, WaitingInv, AbandonInv, [Next]_vars PROVE AbandonInv'
  BY Zenon DEF OwnInv
<1>1. ASSUME UNCHANGED <<tunnels, creator>>, shutting \subseteq shutting',
             state' = state \/ state' = "closing"
      PROVE  AbandonInv'
  BY <1>1, AbandonKept, Zenon DEF AbandonInv
<1>2. CASE UserNext
  <2>1. CASE close
    <3>1. UNCHANGED <<tunnels, creator, shutting>>
      BY <2>1, Zenon DEF close, tunnelVars
    <3>2. state' = state \/ state' = "closing"
      BY <2>1, CloseStep, Zenon DEF MovesOn, ConnectInv
    <3> QED
      BY <1>1, <3>1, <3>2, Zenon
  <2>2. CASE \/ set_control_callbacks
             \/ \E op \in ConnectOps : async_connect(op)
             \/ \E op \in CreateOps : async_create_tunnel(op)
             \/ \E op \in AcceptOps, t \in TunnelIds : async_accept_tunnel(op, t)
             \/ \E t \in TunnelIds : close_tunnel(t)
             \/ \E op \in Ops : EmitSlot(op)
    <3>1. UNCHANGED <<tunnels, creator, state>> /\ shutting \subseteq shutting'
      BY <2>2, Zenon DEF set_control_callbacks, async_connect, async_create_tunnel,
                  async_accept_tunnel, close_tunnel, EmitSlot, tunnelVars, sessionVars
    <3> QED
      BY <1>1, <3>1, Zenon
  <2> QED
    BY <1>2, <2>1, <2>2, Zenon DEF UserNext
<1>3. CASE DispatchNext
  <2>1. ASSUME NEW op \in ConnectOps, async_connect_internal(op) PROVE AbandonInv'
    <3>1. /\ UNCHANGED <<tunnels, creator, shutting>>
          /\ state' = state \/ (state = "null" /\ state' = "connecting")
      BY <2>1, Zenon DEF async_connect_internal, tunnelVars, sessionVars
    <3>2. state = "null" => tunnels = {}
      BY DEF TunnelInv
    <3> QED
      BY <1>1, <3>1, <3>2, AbandonKept, Zenon
  <2>2. ASSUME NEW op \in ConnectOps, cancel_connect(op) PROVE AbandonInv'
    <3>1. UNCHANGED <<tunnels, creator, shutting>>
      BY <2>2, Zenon DEF cancel_connect, tunnelVars
    <3>2. state' = state \/ state' = "closing"
      BY <2>2, Zenon DEF cancel_connect, sessionVars, on_close
    <3> QED
      BY <1>1, <3>1, <3>2, Zenon
  <2>3. CASE \/ \E op \in CreateOps : async_create_tunnel_internal(op) \/ cancel_create_tunnel(op)
             \/ \E op \in AcceptOps : cancel_accept_tunnel(op)
             \/ \E op \in AcceptOps, t \in TunnelIds : async_accept_tunnel_internal(op, t)
    <3>1. UNCHANGED <<tunnels, creator, shutting, state>>
      BY <2>3, Zenon DEF async_create_tunnel_internal, cancel_create_tunnel, cancel_accept_tunnel,
                  async_accept_tunnel_internal, tunnelVars, sessionVars
    <3> QED
      BY <1>1, <3>1
  <2> QED
    BY <1>3, <2>1, <2>2, <2>3, Zenon DEF DispatchNext
<1>4. CASE SessionNext
  <2>1. PICK o \in asyncOps :
          \/ on_do_resolve_host(o) \/ on_connect(o) \/ on_timer(o) \/ on_send_message(o)
          \/ on_heartbeat_timer(o) \/ on_queue_cancelled(o) \/ on_read_stale(o)
          \/ on_read_error(o) \/ on_open(o) \/ on_close_response(o)
          \/ \E op \in createOps : on_tunnel_refused(o, op)
          \/ \E op \in createOps, t \in TunnelIds : on_tunnel_response(o, op, t)
          \/ \E t \in tunnels : on_tunnel_closed(o, t)
          \/ \E t \in tunnels, s \in StreamIds : on_proxy_request(o, t, s)
    BY <1>4, Zenon DEF SessionNext
  <2>2. CASE on_queue_cancelled(o)
    <3>1. tunnels' = {} /\ creator' = creator /\ state' = "null"
      BY <2>2, Zenon DEF on_queue_cancelled, on_tunnel_close
    <3> QED
      BY <3>1, AbandonKept
  <2>3. CASE on_open(o)
    <3>1. UNCHANGED <<tunnels, creator, shutting>> /\ state = "connecting" /\ state' = "connected"
      BY <2>3, Zenon DEF on_open, Expected, tunnelVars
    <3>2. tunnels = {}
      BY <3>1, Zenon DEF AbandonInv
    <3> QED
      BY <3>1, <3>2, AbandonKept, Zenon
  <2>4. ASSUME NEW op \in createOps, on_tunnel_refused(o, op) PROVE AbandonInv'
    BY <1>1, <2>4, Zenon DEF on_tunnel_refused, sessionVars
  <2>5. ASSUME NEW t \in tunnels, on_tunnel_closed(o, t) PROVE AbandonInv'
    <3>1. /\ tunnels' = tunnels \ {t} /\ shutting' = shutting \ {t} /\ creator' = creator
          /\ state' = state
      BY <2>5, Zenon DEF on_tunnel_closed, on_tunnel_close, sessionVars
    <3>2. state = "connecting" => tunnels = {}
      BY Zenon DEF AbandonInv
    <3> QED
      BY <3>1, <3>2, AbandonKept, Zenon
  <2>6. ASSUME NEW t \in tunnels, NEW s \in StreamIds, on_proxy_request(o, t, s) PROVE AbandonInv'
    BY <1>1, <2>6, Zenon DEF on_proxy_request, tunnelVars
  <2>7. CASE \/ on_do_resolve_host(o) \/ on_connect(o) \/ on_timer(o)
             \/ on_send_message(o) \/ on_heartbeat_timer(o) \/ on_read_stale(o)
             \/ on_read_error(o) \/ on_close_response(o)
    <3>1. OnlySession /\ MovesOn
      BY <2>7, SessionHandlers, Zenon DEF ConnectInv
    <3> QED
      BY <1>1, <3>1, Zenon DEF OnlySession, MovesOn, tunnelVars
  <2> QED
    BY <2>1, <2>2, <2>3, <2>4, <2>5, <2>6, <2>7, AbandonResponse, Zenon
<1>5. CASE StreamNext
  <2>1. UNCHANGED <<tunnels, creator, shutting, state>>
    BY <1>5, Zenon DEF StreamNext, on_connect_stream
  <2> QED
    BY <1>1, <2>1
<1>6. CASE UNCHANGED vars
  BY <1>1, <1>6 DEF vars, stateVars, tunnelVars, sessionVars
<1> QED
  BY <1>2, <1>3, <1>4, <1>5, <1>6 DEF Next

(* A tunnel whose async_create_tunnel() call was reported aborted is never *)
(* left open in a connected session: on_tunnel_response() has sent its     *)
(* CloseTunnelReq, whether the cancellation came before the request, while *)
(* it was on its way or just before the answer.                            *)
THEOREM AbandonedIsClosed == Spec => []AbandonedTunnelClosed
<1>1. Init => WaitingInv /\ AbandonInv
  BY Zenon DEF Init, WaitingInv, AbandonInv, AbandonedTunnelClosed
<1>2. AbandonInv => AbandonedTunnelClosed
  BY Zenon DEF AbandonInv
<1> QED
  BY <1>1, <1>2, WaitingNext, AbandonNext, OwnInvariant, PTL DEF Spec

-----------------------------------------------------------------------------
(***************************************************************************)
(* Clean disconnections.  on_close() is called without an error only by    *)
(* close() and for the engine's answer to it, so the cause it captures is  *)
(* clean only in a session in which the application called close().        *)
(***************************************************************************)
CleanInv ==
  /\ closing # NoClose /\ closing.cause = "none" => userClose
  /\ closing = NoClose /\ state = "closing" => userClose

LEMMA CleanClose ==
  ASSUME CleanInv, NEW cause \in Causes, NEW pending, on_close(cause, pending),
         state \in States, callbacks \in BOOLEAN, userClose => userClose',
         cause = "none" => userClose'
  PROVE  CleanInv'
<1>1. CASE UNCHANGED <<state, closing>>
  BY <1>1, Zenon DEF CleanInv
<1>2. CASE closing' = [prev |-> state, cause |-> cause, notify |-> callbacks]
  <2>1. closing' # NoClose /\ closing'.cause = cause
    BY <1>2, ClientAssumption
  <2> QED
    BY <2>1, Zenon DEF CleanInv
<1> QED
  BY <1>1, <1>2, Zenon DEF on_close

LEMMA CleanSession ==
  ASSUME ConnectInv, CleanInv, NEW o \in asyncOps,
         \/ on_do_resolve_host(o) \/ on_connect(o) \/ on_timer(o)
         \/ on_send_message(o) \/ on_heartbeat_timer(o) \/ on_read_stale(o)
         \/ on_read_error(o) \/ on_close_response(o)
  PROVE  CleanInv' /\ dropped' = dropped
<1>0. OnlySession /\ state \in States /\ callbacks \in BOOLEAN
  BY SessionHandlers, Zenon DEF ConnectInv
<1>1. userClose' = userClose /\ dropped' = dropped
  BY <1>0, Zenon DEF OnlySession, historyVars
<1>2. \/ UNCHANGED <<state, closing>>
      \/ \E pending : on_close("error", pending)
      \/ state = "closing" /\ closing = NoClose /\ \E pending : on_close("none", pending)
  BY Zenon DEF on_do_resolve_host, on_connect, on_timer, on_send_message, on_heartbeat_timer,
         on_read_stale, on_read_error, on_close_response
<1>3. CASE UNCHANGED <<state, closing>>
  BY <1>1, <1>3, Zenon DEF CleanInv
<1>4. CASE \E pending : on_close("error", pending)
  BY <1>0, <1>1, <1>4, CleanClose, Zenon DEF Causes
<1>5. CASE state = "closing" /\ closing = NoClose /\ \E pending : on_close("none", pending)
  <2>1. userClose'
    BY <1>1, <1>5, Zenon DEF CleanInv
  <2> QED
    BY <1>0, <1>1, <1>5, <2>1, CleanClose, Zenon DEF Causes
<1> QED
  BY <1>1, <1>2, <1>3, <1>4, <1>5, Zenon

(* A clean disconnection is reported only in a session that was closed. *)
LEMMA CleanNext ==
  ASSUME ConnectInv, ReportInv, CleanInv, [Next]_vars
  PROVE  CleanInv' /\ (dropped'["none"] # dropped["none"] => userClose)
<1>1. ASSUME UNCHANGED <<state, closing, userClose, dropped>>
      PROVE  CleanInv' /\ (dropped'["none"] # dropped["none"] => userClose)
  BY <1>1, Zenon DEF CleanInv
<1>2. CASE UserNext
  <2>1. CASE close
    <3>1. dropped' = dropped /\ userClose' = (userClose \/ state # "null")
      BY <2>1 DEF close
    <3>2. CASE state \in {"null", "closing"} /\ UNCHANGED sessionVars
      BY <3>1, <3>2, Zenon DEF CleanInv, sessionVars
    <3>3. CASE state = "connecting" /\ on_close("none", asyncOps)
      BY <3>1, <3>3, CleanClose, Zenon DEF Causes, ConnectInv
    <3>4. CASE state = "connected" /\ UNCHANGED closing
      <4>1. userClose' = TRUE /\ closing' = NoClose
        BY <3>1, <3>4, ZenonT(60) DEF ConnectInv
      <4> QED
        BY <3>1, <4>1 DEF CleanInv
    <3> QED
      BY <2>1, <3>2, <3>3, <3>4, Zenon DEF close
  <2>2. CASE \/ set_control_callbacks
             \/ \E op \in ConnectOps : async_connect(op)
             \/ \E op \in CreateOps : async_create_tunnel(op)
             \/ \E op \in AcceptOps, t \in TunnelIds : async_accept_tunnel(op, t)
             \/ \E t \in TunnelIds : close_tunnel(t)
             \/ \E op \in Ops : EmitSlot(op)
    BY <1>1, <2>2, Zenon DEF set_control_callbacks, async_connect, async_create_tunnel,
                      async_accept_tunnel, close_tunnel, EmitSlot, sessionVars, historyVars
  <2> QED
    BY <1>2, <2>1, <2>2, Zenon DEF UserNext
<1>3. CASE DispatchNext
  <2>1. ASSUME NEW op \in ConnectOps, async_connect_internal(op)
        PROVE  CleanInv' /\ (dropped'["none"] # dropped["none"] => userClose)
    <3>1. /\ dropped' = dropped
          /\ \/ UNCHANGED <<state, closing, userClose>>
             \/ state = "null" /\ state' = "connecting" /\ closing' = closing
      BY <2>1, Zenon DEF async_connect_internal, sessionVars
    <3>2. state = "null" => closing = NoClose
      BY Zenon DEF ConnectInv
    <3> QED
      BY <3>1, <3>2, Zenon DEF CleanInv
  <2>2. ASSUME NEW op \in ConnectOps, cancel_connect(op)
        PROVE  CleanInv' /\ (dropped'["none"] # dropped["none"] => userClose)
    <3>1. /\ UNCHANGED <<dropped, userClose>>
          /\ UNCHANGED <<state, closing>> \/ on_close("aborted", asyncOps)
      BY <2>2 DEF cancel_connect, sessionVars, historyVars
    <3> QED
      BY <1>1, <3>1, CleanClose, ZenonT(60) DEF Causes, ConnectInv
  <2>3. CASE \/ \E op \in CreateOps : async_create_tunnel_internal(op) \/ cancel_create_tunnel(op)
             \/ \E op \in AcceptOps : cancel_accept_tunnel(op)
             \/ \E op \in AcceptOps, t \in TunnelIds : async_accept_tunnel_internal(op, t)
    <3>1. UNCHANGED <<state, closing, userClose, dropped>>
      BY <2>3, ZenonT(60) DEF async_create_tunnel_internal, cancel_create_tunnel, cancel_accept_tunnel,
                  async_accept_tunnel_internal, historyVars, sessionVars
    <3> QED
      BY <1>1, <3>1
  <2> QED
    BY <1>3, <2>1, <2>2, <2>3, Zenon DEF DispatchNext
<1>4. CASE SessionNext
  <2>1. PICK o \in asyncOps :
          \/ on_do_resolve_host(o) \/ on_connect(o) \/ on_timer(o) \/ on_send_message(o)
          \/ on_heartbeat_timer(o) \/ on_queue_cancelled(o) \/ on_read_stale(o)
          \/ on_read_error(o) \/ on_open(o) \/ on_close_response(o)
          \/ \E op \in createOps : on_tunnel_refused(o, op)
          \/ \E op \in createOps, t \in TunnelIds : on_tunnel_response(o, op, t)
          \/ \E t \in tunnels : on_tunnel_closed(o, t)
          \/ \E t \in tunnels, s \in StreamIds : on_proxy_request(o, t, s)
    BY <1>4 DEF SessionNext
  <2>2. CASE on_queue_cancelled(o)
    <3>1. /\ closing # NoClose /\ closing' = NoClose /\ state' = "null" /\ userClose' = userClose
          /\ dropped' = dropped \/ dropped' = [dropped EXCEPT ![closing.cause] = @ + 1]
      BY <2>2, Zenon DEF on_queue_cancelled
    <3>2. dropped \in [Causes -> Nat] /\ closing.cause \in Causes /\ "none" \in Causes
      BY <3>1, Zenon DEF ReportInv, Causes
    <3>3. dropped'["none"] # dropped["none"] => closing.cause = "none"
      BY <3>1, <3>2, Zenon
    <3> QED
      BY <3>1, <3>3, Zenon DEF CleanInv
  <2>3. CASE on_open(o)
    <3>1. UNCHANGED <<closing, userClose, dropped>> /\ state = "connecting" /\ state' = "connected"
      BY <2>3 DEF on_open, Expected
    <3> QED
      BY <3>1, Zenon DEF CleanInv
  <2>4. CASE \/ \E op \in createOps : on_tunnel_refused(o, op)
             \/ \E op \in createOps, t \in TunnelIds : on_tunnel_response(o, op, t)
             \/ \E t \in tunnels : on_tunnel_closed(o, t)
             \/ \E t \in tunnels, s \in StreamIds : on_proxy_request(o, t, s)
    <3>1. UNCHANGED <<state, closing, userClose, dropped>>
      BY <2>4, ZenonT(60) DEF on_tunnel_refused, on_tunnel_response, on_tunnel_closed, on_proxy_request,
                  historyVars, sessionVars
    <3> QED
      BY <1>1, <3>1
  <2> QED
    BY <2>1, <2>2, <2>3, <2>4, CleanSession, Zenon
<1>5. CASE StreamNext
  <2>1. UNCHANGED <<state, closing, userClose, dropped>>
    BY <1>5, Zenon DEF StreamNext, on_connect_stream, historyVars
  <2> QED
    BY <1>1, <2>1
<1>6. CASE UNCHANGED vars
  BY <1>1, <1>6 DEF vars, stateVars, historyVars, sessionVars
<1> QED
  BY <1>2, <1>3, <1>4, <1>5, <1>6, Zenon DEF Next

(* on_queue_cancelled() reports a disconnection without an error only in a *)
(* session in which the application called close(): a failure, a timeout   *)
(* or an engine that closes on its own is never reported as clean.         *)
THEOREM CleanIfClosed == Spec => CleanOnlyIfClosed
<1>1. Init => CleanInv /\ ReportInv
  BY DEF Init, CleanInv, ReportInv, DisconnectOnce, InSession, Causes
<1>2. OwnInv /\ ReportInv /\ CleanInv /\ [Next]_vars => CleanInv'
  BY CleanNext, Zenon DEF OwnInv
<1>3. OwnInv /\ ReportInv /\ CleanInv /\ [Next]_vars
        => [dropped'["none"] # dropped["none"] => userClose]_vars
  BY CleanNext DEF OwnInv
<1> QED
  BY <1>1, <1>2, <1>3, ReportNext, OwnInvariant, PTL DEF Spec, CleanOnlyIfClosed
=============================================================================
