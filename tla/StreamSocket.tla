---------------------------- MODULE StreamSocket ----------------------------
(***************************************************************************)
(* The socket of a tunnel stream (lib/rstream/io-rstrm/socket.cpp) with    *)
(* the handshake it runs on the transport (detail/handshake.hpp): connect, *)
(* read and write, close, per-operation cancellation.  The calls come from *)
(* any thread, the handlers run one at a time on the strand.               *)
(***************************************************************************)
EXTENDS Naturals, Sequences

CONSTANTS
  ConnectOps,     \* the async_connect calls
  TransferOps,    \* the async_read_some and async_write_some calls
  Configs,        \* the settings a caller may install
  Endpoints,      \* what the endpoint given to async_connect lacks, or "ok"
  MaxClose,       \* bound on the calls of close
  NoOp

SocketOps == ConnectOps \cup TransferOps

VARIABLES
  state,      \* m_state
  nonNull,    \* m_is_state_non_null, the reservation, under m_mutex
  remote,     \* m_remote_endpoint is set
  config,     \* m_settings
  connectOp,  \* m_connect_op
  ops,        \* the connect_op and transfer_op records
  pending,    \* the asynchronous step each operation has on the transport
  strand,     \* the handlers queued on m_strand
  closes      \* calls of close made

socketVars == <<state, nonNull, remote, config, connectOp, ops, pending, strand, closes>>

NewOp == [entered |-> FALSE, dispatched |-> FALSE, cancelled |-> FALSE, started |-> FALSE, reserved |-> FALSE,
          init |-> "none", terminal |-> "none", result |-> "none"]

Idle == [step |-> "none", aborted |-> FALSE]
Step(s) == [step |-> s, aborted |-> FALSE]

Init ==
  /\ state = "null" /\ nonNull = FALSE /\ remote = FALSE
  /\ config \in Configs
  /\ connectOp = NoOp
  /\ ops = [o \in SocketOps |-> NewOp]
  /\ pending = [o \in SocketOps |-> Idle]
  /\ strand = <<>>
  /\ closes = 0

Handler(h, o, e) == [h |-> h, op |-> o, err |-> e]
Run(h) == strand # <<>> /\ Head(strand).h = h /\ strand' = Tail(strand)

---------------------------------------------------------------------------
(* The calls. *)

(* settings(): refused while the socket is reserved or used *)
SetSettings(c) ==
  /\ ~nonNull /\ config' = c
  /\ UNCHANGED <<state, nonNull, remote, connectOp, ops, pending, strand, closes>>

Close ==
  /\ closes < MaxClose
  /\ closes' = closes + 1
  /\ strand' = Append(strand, Handler("close", NoOp, "none"))
  /\ UNCHANGED <<state, nonNull, remote, config, connectOp, ops, pending>>

AsyncConnect(o, ep) ==
  /\ ~ops[o].entered
  /\ LET init == IF nonNull THEN "invalid_state"
                 ELSE IF ep = "bad_config" THEN "invalid_configuration"
                 ELSE IF ep = "bad_endpoint" THEN "invalid_endpoint" ELSE "none"
     IN /\ nonNull' = (nonNull \/ init = "none")
        /\ ops' = [ops EXCEPT ![o] = [@ EXCEPT !.entered = TRUE, !.init = init,
                                               !.reserved = (init = "none")]]
  /\ UNCHANGED <<state, remote, config, connectOp, pending, strand, closes>>

AsyncTransfer(o) ==
  /\ ~ops[o].entered
  /\ ops' = [ops EXCEPT ![o].entered = TRUE]
  /\ UNCHANGED <<state, nonNull, remote, config, connectOp, pending, strand, closes>>

(* The last statement of a call, after the cancellation slot is connected: a
   cancellation may have been queued before it. *)
Dispatch(o) ==
  /\ ops[o].entered /\ ~ops[o].dispatched
  /\ ops' = [ops EXCEPT ![o].dispatched = TRUE]
  /\ strand' = Append(strand,
                 Handler(IF o \in ConnectOps THEN "connect" ELSE "transfer", o, "none"))
  /\ UNCHANGED <<state, nonNull, remote, config, connectOp, pending, closes>>

(* The cancellation slot of an operation: the flag is stored at once, on the
   caller's thread, the rest is queued on the strand. *)
Cancel(o) ==
  /\ ops[o].entered /\ ~ops[o].cancelled
  /\ ops' = [ops EXCEPT ![o].cancelled = TRUE]
  /\ strand' = Append(strand,
                 Handler(IF o \in ConnectOps THEN "cancel_connect" ELSE "cancel_transfer", o, "none"))
  /\ UNCHANGED <<state, nonNull, remote, config, connectOp, pending, closes>>

---------------------------------------------------------------------------
(* Completion and the end of a connection.  os is the value of ops when the
   function is called. *)

(* complete_connect and complete_transfer: once *)
Complete(os, o, e) ==
  IF o = NoOp \/ os[o].result # "none" THEN os ELSE [os EXCEPT ![o].result = e]

AfterConnect(o) == IF connectOp = o THEN NoOp ELSE connectOp

(* Mutant: the connection is given up at once, its step still running. *)
MutEagerOnClose(os, e) ==
  LET cause == IF e = "none" /\ connectOp # NoOp THEN "aborted" ELSE e
  IN /\ state' = "null" /\ ops' = Complete(os, connectOp, cause) /\ connectOp' = NoOp
     /\ nonNull' = FALSE /\ remote' = FALSE
     /\ pending' = [o \in SocketOps |-> [pending[o] EXCEPT !.aborted = (@ \/ pending[o].step # "none")]]

(* on_close: a connect whose step is running keeps the state and completes
   when the step does; the reservation is dropped and the transport closed in
   either case *)
OnClose(os, e) ==
  LET cause == IF e = "none" /\ connectOp # NoOp THEN "aborted" ELSE e
      defer == connectOp # NoOp /\ os[connectOp].started
  IN /\ IF defer
        THEN /\ ops' = [os EXCEPT ![connectOp].terminal = cause]
             /\ UNCHANGED <<state, connectOp>>
        ELSE /\ state' = "null"
             /\ ops' = Complete(os, connectOp, cause)
             /\ connectOp' = NoOp
     /\ nonNull' = FALSE /\ remote' = FALSE
     /\ pending' = [o \in SocketOps |-> [pending[o] EXCEPT !.aborted = (@ \/ pending[o].step # "none")]]

(* release_connect_reservation, called before the completion of o *)
Released(o) == ops[o].reserved /\ state = "null" /\ nonNull

(* a connect that is not in progress completes as aborted *)
AbortConnect(o) ==
  /\ nonNull' = (nonNull /\ ~Released(o))
  /\ ops' = Complete([ops EXCEPT ![o].reserved = (@ /\ ~Released(o))], o, "aborted")
  /\ connectOp' = AfterConnect(o)
  /\ UNCHANGED <<state, remote, pending>>

---------------------------------------------------------------------------
(* The handlers. *)

ConnectInternal ==
  /\ Run("connect")
  /\ LET o == Head(strand).op IN
     \/ ops[o].cancelled /\ AbortConnect(o)
     \/ /\ ~ops[o].cancelled
        /\ ops[o].init # "none" \/ ~ops[o].reserved \/ state # "null"
        /\ ops' = Complete(ops, o, IF ops[o].init # "none" THEN ops[o].init ELSE "invalid_state")
        /\ connectOp' = AfterConnect(o)
        /\ UNCHANGED <<state, nonNull, remote, pending>>
     \/ /\ ~ops[o].cancelled /\ ops[o].init = "none" /\ ops[o].reserved /\ state = "null"
        /\ connectOp' = o /\ state' = "connecting"
        /\ ops' = [ops EXCEPT ![o].started = TRUE]
        /\ pending' = [pending EXCEPT ![o] = Step("resolve")]
        /\ UNCHANGED <<nonNull, remote>>
  /\ UNCHANGED <<config, closes>>

CancelConnect ==
  /\ Run("cancel_connect")
  /\ LET o == Head(strand).op IN
     IF ops[o].result # "none"
     THEN UNCHANGED <<state, nonNull, remote, connectOp, ops, pending>>
     ELSE IF connectOp = o THEN OnClose(ops, "aborted") ELSE AbortConnect(o)
  /\ UNCHANGED <<config, closes>>

CloseInternal ==
  /\ Run("close")
  /\ IF state # "null" THEN OnClose(ops, "none")
     ELSE UNCHANGED <<state, nonNull, remote, connectOp, ops, pending>>
  /\ UNCHANGED <<config, closes>>

(* What the handshake does with its request: refused before it is sent when
   the token cannot be obtained or the transport is not secure. *)
RequestRefused ==
  \/ config.details = "none"
  \/ config.details = "token" /\ ~config.secure

(* on_do_resolve_host, on_connect and on_handshake: what the end of a step of
   the connect of o brings; next is what a success starts *)
OnStep(o, e, next) ==
  LET os == [ops EXCEPT ![o].started = FALSE] IN
  \/ os[o].terminal # "none" /\ OnClose(os, os[o].terminal)
  \/ /\ os[o].terminal = "none"
     /\ state # "connecting" \/ connectOp # o
     /\ ops' = Complete(os, o, "aborted") /\ connectOp' = AfterConnect(o)
     /\ UNCHANGED <<state, nonNull, remote, pending>>
  \/ /\ os[o].terminal = "none" /\ state = "connecting" /\ connectOp = o
     /\ IF e # "ok" THEN OnClose(os, e)
        ELSE IF next = "connected"
        THEN /\ state' = "connected" /\ remote' = TRUE
             /\ ops' = Complete(os, o, "ok") /\ connectOp' = NoOp
             /\ UNCHANGED <<nonNull, pending>>
        ELSE /\ ops' = [os EXCEPT ![o].started = TRUE]
             /\ pending' = [pending EXCEPT ![o] = Step(next)]
             /\ UNCHANGED <<state, nonNull, remote, connectOp>>

OnResolve ==
  /\ Run("on_resolve") /\ OnStep(Head(strand).op, Head(strand).err, "connect")
  /\ UNCHANGED <<config, closes>>

OnConnect ==
  /\ Run("on_connect")
  /\ OnStep(Head(strand).op, Head(strand).err, IF RequestRefused THEN "refused" ELSE "request")
  /\ UNCHANGED <<config, closes>>

OnHandshake ==
  /\ Run("on_handshake") /\ OnStep(Head(strand).op, Head(strand).err, "connected")
  /\ UNCHANGED <<config, closes>>

TransferInternal ==
  /\ Run("transfer")
  /\ LET o == Head(strand).op IN
     IF ~ops[o].cancelled /\ state = "connected"
     THEN /\ ops' = [ops EXCEPT ![o].started = TRUE]
          /\ pending' = [pending EXCEPT ![o] = Step("transfer")]
     ELSE /\ ops' = Complete(ops, o, IF ops[o].cancelled THEN "aborted" ELSE "invalid_state")
          /\ UNCHANGED pending
  /\ UNCHANGED <<state, nonNull, remote, config, connectOp, closes>>

(* cancel_transfer: the transport operation is cancelled, or the transfer
   completes if it has none *)
CancelTransfer ==
  /\ Run("cancel_transfer")
  /\ LET o == Head(strand).op IN
     IF ops[o].result = "none" /\ ops[o].started
     THEN /\ pending' = [pending EXCEPT ![o].aborted = (pending[o].step # "none")]
          /\ UNCHANGED ops
     ELSE ops' = Complete(ops, o, "aborted") /\ UNCHANGED pending
  /\ UNCHANGED <<state, nonNull, remote, config, connectOp, closes>>

OnTransfer ==
  /\ Run("on_transfer")
  /\ LET o == Head(strand).op IN
     ops' = Complete([ops EXCEPT ![o].started = FALSE], o,
                     IF ops[o].cancelled THEN "aborted" ELSE Head(strand).err)
  /\ UNCHANGED <<state, nonNull, remote, config, connectOp, pending, closes>>

---------------------------------------------------------------------------
(* The transport. *)

(* What a step may end with: a step that was cancelled, or whose socket was
   closed, fails, save that connecting may go on with the next endpoint. *)
Outcomes(p) ==
  CASE p.step = "refused" -> {"error"}
    [] p.step = "connect" -> {"ok", "error"}
    [] OTHER -> IF p.aborted THEN {"error"} ELSE {"ok", "error"}

HandlerOf(s) ==
  CASE s = "resolve" -> "on_resolve" [] s = "connect" -> "on_connect"
    [] s = "transfer" -> "on_transfer" [] OTHER -> "on_handshake"

(* The peer's answer to the request: the response of the kind asked for, one
   that carries an error, or anything else. *)
Answers == {"response", "error", "other"}

(* A step on the transport ends.  on_write_request: with zero-RTT the
   handshake ends with the request, else it reads the response. *)
TransportStep(o) ==
  /\ pending[o].step # "none"
  /\ \E e \in Outcomes(pending[o]), a \in Answers :
       /\ pending[o].step # "response" => a = "response"
       /\ LET err == IF e = "ok" /\ a # "response" THEN "error" ELSE e IN
          IF pending[o].step = "request" /\ e = "ok" /\ ~config.zeroRtt
          THEN /\ pending' = [pending EXCEPT ![o].step = "response"]
               /\ UNCHANGED strand
          ELSE /\ pending' = [pending EXCEPT ![o] = Idle]
               /\ strand' = Append(strand, Handler(HandlerOf(pending[o].step), o, err))
  /\ UNCHANGED <<state, nonNull, remote, config, connectOp, ops, closes>>

StrandStep ==
  \/ ConnectInternal \/ CancelConnect \/ CloseInternal
  \/ OnResolve \/ OnConnect \/ OnHandshake
  \/ TransferInternal \/ CancelTransfer \/ OnTransfer

Next ==
  \/ \E c \in Configs : SetSettings(c)
  \/ Close
  \/ \E o \in ConnectOps, ep \in Endpoints : AsyncConnect(o, ep)
  \/ \E o \in TransferOps : AsyncTransfer(o)
  \/ \E o \in SocketOps : Dispatch(o) \/ Cancel(o)
  \/ StrandStep
  \/ \E o \in SocketOps : TransportStep(o)

(* The executor runs what is queued; a step that was cancelled ends.  Nothing
   else is promised: a peer may never answer. *)
Progress ==
  \/ StrandStep
  \/ \E o \in SocketOps : Dispatch(o) \/ (pending[o].aborted /\ TransportStep(o))

Spec == Init /\ [][Next]_socketVars /\ WF_socketVars(Progress)

---------------------------------------------------------------------------
(* One connect at a time uses the resolver and the transport socket: a step
   in progress, or its queued result, belongs to m_connect_op.  Were a closed
   connect given up before its step ends, the step would end in the middle of
   the next one. *)
SocketOwned ==
  \A o \in ConnectOps : ops[o].started => connectOp = o /\ state = "connecting"

(* The reservation is never left behind: with no connection and no accepted
   connect on its way, m_is_state_non_null is clear and the next async_connect
   is not refused. *)
NoStuckReservation ==
  (state = "null" /\ \A o \in ConnectOps : ops[o].entered => ops[o].result # "none") => ~nonNull

(* The cancelled operations that have not completed: whatever the peer does,
   none stays here. *)
Unended == {o \in SocketOps : ops[o].cancelled /\ ops[o].result = "none"}
=============================================================================
