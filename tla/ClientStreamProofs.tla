------------------------- MODULE ClientStreamProofs -------------------------
(***************************************************************************)
(* Proofs about the streams of Client, for any sets of operations, tunnels *)
(* and streams, either stream mode and any limit.                          *)
(***************************************************************************)
EXTENDS ClientProofs, FiniteSetTheorems

(* The stream state is typed and tied to the session: streams belong to    *)
(* open tunnels, a connected stream is still held, a busy accept call has  *)
(* run, and a dial is of this session or an earlier one and uses the       *)
(* socket of an accept call of its own tunnel, if of any.                  *)
DialInv ==
  /\ config \in Configs
  /\ dials \subseteq Dials
  /\ streams \in [TunnelIds -> SUBSET StreamIds]
  /\ ready \in [TunnelIds -> SUBSET StreamIds]
  /\ asked \in [StreamIds -> Nat] /\ replies \in [StreamIds -> Nat]
  /\ given \in [AcceptOps -> Dials \cup {NoOp}]
  /\ busy \subseteq ran \cap AcceptOps
  /\ \A t \in TunnelIds : ready[t] \subseteq streams[t]
  /\ \A t \in TunnelIds \ tunnels : streams[t] = {}
  /\ \A d \in dials :
       /\ d.gen <= generation
       /\ config.async => d.via = NoOp
       /\ d.via # NoOp => d.via \in called /\ target[d.via] = d.tunnel

(* What every proof below starts from. *)
BaseInv == ConnectInv /\ TunnelInv /\ FlightInv /\ AbandonInv /\ DialInv

-----------------------------------------------------------------------------
(* The steps, as far as the streams are concerned.  Most handlers leave    *)
(* them alone: they may end the session, register tunnels, let an accept   *)
(* call go, or name the tunnel of a new one.                               *)
Quiet ==
  /\ UNCHANGED <<config, busy, streams, ready, dials, asked, replies, given>>
  /\ called \subseteq called' /\ ran \subseteq ran'
  /\ generation' \in {generation, generation + 1}
  /\ state' = "connected" =>
       generation' = generation /\ (state = "connected" \/ tunnels' = {})
  /\ tunnels \subseteq tunnels'
  /\ \A t \in TunnelIds : acceptOp'[t] \in {acceptOp[t], NoOp}
  /\ \A op \in AcceptOps \cap called : target'[op] = target[op]
  /\ \A op \in AcceptOps : result'[op] = "ok" => result[op] = "ok"

(* async_connect_internal() starts a session. *)
NewSession ==
  /\ tunnels = {} /\ generation' = generation + 1 /\ state' = "connecting"
  /\ asked' = [s \in StreamIds |-> 0] /\ replies' = [s \in StreamIds |-> 0]
  /\ ran \subseteq ran'
  /\ UNCHANGED <<config, called, tunnels, acceptOp, busy, streams, ready, dials, target,
                 result, given>>

(* Tunnels are closed, by the engine or with the session. *)
Closes(T) ==
  /\ T \subseteq tunnels
  /\ tunnels' = tunnels \ T
  /\ acceptOp' = [t \in TunnelIds |-> IF t \in T THEN NoOp ELSE acceptOp[t]]
  /\ streams' = [t \in TunnelIds |-> IF t \in T THEN {} ELSE streams[t]]
  /\ ready' = [t \in TunnelIds |-> IF t \in T THEN {} ELSE ready[t]]
  /\ state' = state \/ state' = "null"
  /\ \A op \in AcceptOps : result'[op] = "ok" => result[op] = "ok"
  /\ UNCHANGED <<config, called, ran, generation, busy, dials, target, asked, replies, given>>

(* async_accept_tunnel_internal() finds a connected stream ... *)
Accepts(op, t) ==
  /\ op \in (AcceptOps \cap called) \ (ran \cup completed)
  /\ t = target[op] /\ t \in tunnels
  /\ state = "connected" /\ acceptOp[t] = NoOp
  /\ ran' = ran \cup {op}
  /\ UNCHANGED <<config, called, state, generation, tunnels, target, asked, replies>>

Takes(op, t, s) ==
  /\ Accepts(op, t)
  /\ config.async /\ s \in ready[t]
  /\ \A p \in AcceptOps \ {op} : result'[p] = result[p]
  /\ given' = [given EXCEPT ![op] = Dial(t, s, NoOp)]
  /\ EraseStream(t, s)
  /\ UNCHANGED <<acceptOp, busy, dials>>

(* ... or waits, dialling a stream that was delayed if there is one. *)
Waits(op, t) ==
  /\ Accepts(op, t)
  /\ config.async => ready[t] = {}
  /\ acceptOp' = [acceptOp EXCEPT ![t] = op]
  /\ \/ ~ config.async /\ \E s \in streams[t] :
          busy' = busy \cup {op} /\ dials' = dials \cup {Dial(t, s, op)}
     \/ UNCHANGED <<busy, dials>>
  /\ UNCHANGED <<streams, ready, given, result>>

(* on_proxy_request(): refused or ignored, or the stream is taken in and   *)
(* dialled or delayed.                                                     *)
Requests(t, s) ==
  /\ t \in tunnels /\ s \in StreamIds
  /\ asked' = [asked EXCEPT ![s] = @ + 1]
  /\ UNCHANGED <<config, called, ran, state, generation, tunnels, acceptOp, ready, target,
                 result, given>>

Refuses(t, s) ==
  /\ Requests(t, s)
  /\ replies' = replies \/ replies' = [replies EXCEPT ![s] = @ + 1]
  /\ UNCHANGED <<busy, streams, dials>>

Admits(t, s) ==
  /\ Requests(t, s)
  /\ HasRoom(t)
  /\ streams' = [streams EXCEPT ![t] = @ \cup {s}]
  /\ \/ config.async /\ dials' = dials \cup {Dial(t, s, NoOp)} /\ UNCHANGED busy
     \/ /\ ~ config.async /\ acceptOp[t] # NoOp
        /\ busy' = busy \cup {acceptOp[t]}
        /\ dials' = dials \cup {Dial(t, s, acceptOp[t])}
     \/ ~ config.async /\ UNCHANGED <<busy, dials>>
  /\ UNCHANGED replies

(* on_connect_stream(): the dial is stale, its stream is gone, or it ends  *)
(* in a failure, in the accept call that waits, or as a connected stream.  *)
Dialled(d) ==
  /\ d \in dials
  /\ dials' = dials \ {d}
  /\ UNCHANGED <<config, called, ran, state, generation, tunnels, target, asked>>

Answers(d) ==
  /\ Dialled(d)
  /\ ~ StaleDial(d)
  /\ replies' = [replies EXCEPT ![d.stream] = @ + 1]

Misses(d) ==
  /\ \/ Dialled(d) /\ StaleDial(d) /\ UNCHANGED replies
     \/ Answers(d) /\ (d.tunnel \notin tunnels \/ d.stream \notin streams[d.tunnel])
  /\ UNCHANGED <<acceptOp, busy, streams, ready, result, given>>

Held(d) ==
  /\ Answers(d)
  /\ d.tunnel \in tunnels /\ d.stream \in streams[d.tunnel]
  /\ busy' = busy \ {acceptOp[d.tunnel]}

Fails(d) ==
  /\ Held(d)
  /\ EraseStream(d.tunnel, d.stream)
  /\ UNCHANGED <<acceptOp, result, given>>

Hands(d, op) ==
  /\ Held(d)
  /\ op = acceptOp[d.tunnel] /\ op # NoOp
  /\ EraseStream(d.tunnel, d.stream)
  /\ \A p \in AcceptOps \ {op} : result'[p] = result[p]
  /\ given' = [given EXCEPT ![op] = d]
  /\ acceptOp' = [acceptOp EXCEPT ![d.tunnel] = NoOp]

Readies(d) ==
  /\ Held(d)
  /\ acceptOp[d.tunnel] = NoOp
  /\ ready' = IF config.async
              THEN [ready EXCEPT ![d.tunnel] = @ \cup {d.stream}]
              ELSE ready
  /\ UNCHANGED <<acceptOp, streams, result, given>>

StreamStep ==
  \/ Quiet
  \/ NewSession
  \/ \E T \in SUBSET TunnelIds : Closes(T)
  \/ \E op \in AcceptOps, t \in TunnelIds, s \in StreamIds : Takes(op, t, s)
  \/ \E op \in AcceptOps, t \in TunnelIds : Waits(op, t)
  \/ \E t \in TunnelIds, s \in StreamIds : Refuses(t, s) \/ Admits(t, s)
  \/ \E d \in dials : Misses(d) \/ Fails(d) \/ Readies(d)
  \/ \E d \in dials, op \in AcceptOps : Hands(d, op)

(* on_close() *)
LEMMA CloseKeeps ==
  ASSUME NEW cause, NEW pending, on_close(cause, pending)
  PROVE  UNCHANGED <<state, generation>> \/ (state' = "closing" /\ generation' = generation + 1)
  BY DEF on_close

(* What the handlers that leave the stream variables alone have in common. *)
LEMMA QuietStep ==
  ASSUME UNCHANGED <<config, busy, streams, ready, dials, asked, replies, given, target>>,
         called \subseteq called', ran \subseteq ran',
         \/ UNCHANGED <<state, generation>>
         \/ state' \in {"closing", "null"} /\ generation' \in {generation, generation + 1},
         tunnels \subseteq tunnels',
         \A t \in TunnelIds : acceptOp'[t] \in {acceptOp[t], NoOp},
         \A op \in AcceptOps : result'[op] = "ok" => result[op] = "ok"
  PROVE  Quiet
  BY DEF Quiet

LEMMA QuietSession ==
  ASSUME config' = config, OnlySession,
         \/ UNCHANGED <<state, generation>>
         \/ state' \in {"closing", "null"} /\ generation' \in {generation, generation + 1}
  PROVE  Quiet
<1>1. UNCHANGED <<config, busy, streams, ready, dials, asked, replies, given, target,
                  called, ran, tunnels, acceptOp, result>>
  BY DEF OnlySession, opVars, doneVars, tunnelVars, streamVars
<1> QED
  BY <1>1, QuietStep

(* A completion other than with success. *)
LEMMA NotOk ==
  ASSUME NEW S, NEW r, r # "ok", S \cap AcceptOps \subseteq Ops, Complete(All(S, r))
  PROVE  \A op \in AcceptOps : result'[op] = "ok" => result[op] = "ok"
  BY DEF Complete, All, Ops

LEMMA UserQuiet ==
  ASSUME TunnelInv, UserNext, config' = config PROVE Quiet
<1>1. CASE close
  <2>1. UNCHANGED <<busy, streams, ready, dials, asked, replies, given, target,
                    called, ran, tunnels, acceptOp, result>>
    BY <1>1, Zenon DEF close, opVars, doneVars, tunnelVars, streamVars
  <2>2. UNCHANGED <<state, generation>> \/ (state' = "closing" /\ generation' \in {generation, generation + 1})
    BY <1>1, CloseKeeps DEF close, sessionVars
  <2> QED
    BY <2>1, <2>2, QuietStep, Zenon
<1>2. CASE \/ set_control_callbacks
           \/ \E op \in ConnectOps : async_connect(op)
           \/ \E op \in CreateOps : async_create_tunnel(op)
           \/ \E t \in TunnelIds : close_tunnel(t)
           \/ \E op \in Ops : EmitSlot(op)
  <2>1. UNCHANGED <<busy, streams, ready, dials, asked, replies, given, target,
                    ran, tunnels, acceptOp, result, state, generation>>
        /\ called \subseteq called'
    BY <1>2, Zenon DEF set_control_callbacks, async_connect, async_create_tunnel, close_tunnel, EmitSlot,
                opVars, doneVars, tunnelVars, streamVars, sessionVars
  <2> QED
    BY <2>1, QuietStep, Zenon
<1>3. ASSUME NEW op \in AcceptOps, NEW t \in TunnelIds, async_accept_tunnel(op, t)
      PROVE  Quiet
  <2>1. UNCHANGED <<busy, streams, ready, dials, asked, replies, given,
                    ran, tunnels, acceptOp, result, state, generation>>
        /\ called \subseteq called'
    BY <1>3, Zenon DEF async_accept_tunnel, doneVars, tunnelVars, sessionVars
  <2>2. \A p \in AcceptOps \cap called : target'[p] = target[p]
    BY <1>3 DEF async_accept_tunnel, TunnelInv
  <2> QED
    BY <2>1, <2>2, Zenon DEF Quiet
<1> QED
  BY <1>1, <1>2, <1>3, Zenon DEF UserNext

(* Handlers dispatched to the strand, other than the accept calls. *)
LEMMA ConnectQuiet ==
  ASSUME TunnelInv, config' = config, NEW op \in ConnectOps,
         async_connect_internal(op) \/ cancel_connect(op)
  PROVE  Quiet \/ NewSession
<1>0. op \notin AcceptOps
  BY ClientAssumption
<1>1. ASSUME NEW r, r # "ok", Complete(All({op}, r)) \/ UNCHANGED doneVars
      PROVE  \A p \in AcceptOps : result'[p] = "ok" => result[p] = "ok"
  BY <1>1, NotOk, Zenon DEF doneVars, Ops
<1>2. CASE cancel_connect(op)
  <2>1. UNCHANGED <<busy, streams, ready, dials, asked, replies, given, target,
                    called, ran, tunnels, acceptOp>>
    BY <1>2, Zenon DEF cancel_connect, tunnelVars, streamVars
  <2>2. UNCHANGED <<state, generation>> \/ (state' = "closing" /\ generation' = generation + 1)
    BY <1>2, CloseKeeps DEF cancel_connect, sessionVars
  <2>3. Complete(All({op}, "aborted")) \/ UNCHANGED doneVars
    BY <1>2, Zenon DEF cancel_connect
  <2> QED
    BY <1>1, <2>1, <2>2, <2>3, QuietStep, Zenon
<1>3. CASE async_connect_internal(op)
  <2>1. /\ UNCHANGED <<busy, streams, ready, dials, given, target, called, tunnels, acceptOp>>
        /\ ran \subseteq ran'
    BY <1>3, Zenon DEF async_connect_internal, tunnelVars
  <2>2. CASE /\ UNCHANGED <<state, generation, asked, replies>>
             /\ \/ Complete(All({op}, "aborted")) \/ Complete(All({op}, "error"))
                \/ UNCHANGED doneVars
    BY <1>1, <2>1, <2>2, QuietStep, Zenon
  <2>3. CASE /\ state = "null" /\ state' = "connecting" /\ generation' = generation + 1
             /\ asked' = [s \in StreamIds |-> 0] /\ replies' = [s \in StreamIds |-> 0]
             /\ UNCHANGED doneVars
    BY <2>1, <2>3, Zenon DEF NewSession, TunnelInv, doneVars
  <2> QED
    BY <1>3, <2>2, <2>3, Zenon DEF async_connect_internal, sessionVars
<1> QED
  BY <1>2, <1>3, Zenon

LEMMA CancelQuiet ==
  ASSUME TunnelInv, config' = config,
         \/ \E op \in CreateOps : async_create_tunnel_internal(op) \/ cancel_create_tunnel(op)
         \/ \E op \in AcceptOps : cancel_accept_tunnel(op)
  PROVE  Quiet
<1>1. ASSUME NEW op \in Ops,
             \/ Complete(All({op}, "aborted")) \/ Complete(All({op}, "error"))
             \/ UNCHANGED doneVars
      PROVE  \A p \in AcceptOps : result'[p] = "ok" => result[p] = "ok"
  <2>1. CASE Complete(All({op}, "aborted"))
    BY <2>1, NotOk, Zenon DEF Ops
  <2>2. CASE Complete(All({op}, "error"))
    BY <2>2, NotOk, Zenon DEF Ops
  <2> QED
    BY <1>1, <2>1, <2>2, Zenon DEF doneVars
<1>2. ASSUME NEW op \in CreateOps, async_create_tunnel_internal(op) \/ cancel_create_tunnel(op)
      PROVE  Quiet
  <2>1. /\ UNCHANGED <<busy, streams, ready, dials, asked, replies, given, target,
                       called, tunnels, acceptOp, state, generation>>
        /\ ran \subseteq ran'
    BY <1>2, Zenon DEF async_create_tunnel_internal, cancel_create_tunnel, tunnelVars, streamVars, sessionVars
  <2>2. Complete(All({op}, "aborted")) \/ Complete(All({op}, "error")) \/ UNCHANGED doneVars
    BY <1>2, Zenon DEF async_create_tunnel_internal, cancel_create_tunnel
  <2>3. op \in Ops
    BY Zenon DEF Ops
  <2>4. \A p \in AcceptOps : result'[p] = "ok" => result[p] = "ok"
    BY <1>1, <2>2, <2>3, Zenon
  <2> QED
    BY <2>1, <2>4, QuietStep, Zenon
<1>3. ASSUME NEW op \in AcceptOps, cancel_accept_tunnel(op)
      PROVE  Quiet
  <2>1. /\ UNCHANGED <<busy, streams, ready, dials, asked, replies, given, target,
                       called, ran, tunnels, state, generation>>
    BY <1>3, Zenon DEF cancel_accept_tunnel, sessionVars
  <2>2. Complete(All({op}, "aborted")) \/ UNCHANGED doneVars
    BY <1>3 DEF cancel_accept_tunnel
  <2>3. op \in Ops
    BY Zenon DEF Ops
  <2>4. \A t \in TunnelIds : acceptOp'[t] \in {acceptOp[t], NoOp}
    BY <1>3, Zenon DEF cancel_accept_tunnel
  <2>5. \A p \in AcceptOps : result'[p] = "ok" => result[p] = "ok"
    BY <1>1, <2>2, <2>3, Zenon
  <2> QED
    BY <2>1, <2>4, <2>5, QuietStep, Zenon
<1> QED
  BY <1>2, <1>3, Zenon

(* The accept calls. *)
LEMMA AcceptShape ==
  ASSUME TunnelInv, DialInv, config' = config, NEW op \in AcceptOps, NEW t \in TunnelIds,
         async_accept_tunnel_internal(op, t)
  PROVE  Quiet \/ (\E s \in StreamIds : Takes(op, t, s)) \/ Waits(op, t)
<1>1. /\ UNCHANGED <<called, tunnels, state, generation>>
      /\ ran' = ran \cup {op} /\ op \in (AcceptOps \cap called) \ ran /\ t = target[op]
  BY Zenon DEF async_accept_tunnel_internal, sessionVars
<1>2. CASE /\ UNCHANGED <<acceptOp, streamVars>>
           /\ \/ Complete(All({op}, "aborted")) \/ Complete(All({op}, "error"))
              \/ UNCHANGED doneVars
  <2>1. \A p \in AcceptOps : result'[p] = "ok" => result[p] = "ok"
    <3>1. CASE Complete(All({op}, "aborted"))
      BY <3>1, NotOk, Zenon DEF Ops
    <3>2. CASE Complete(All({op}, "error"))
      BY <3>2, NotOk DEF Ops
    <3> QED
      BY <1>2, <3>1, <3>2, Zenon DEF doneVars
  <2>2. UNCHANGED <<busy, streams, ready, dials, asked, replies, given, target>>
    BY <1>2 DEF streamVars
  <2> QED
    BY <1>1, <1>2, <2>1, <2>2, QuietStep, Zenon
<1>3. ASSUME op \notin completed,
             state = "connected", t \in tunnels, acceptOp[t] = NoOp,
             NEW s \in Takeable(t),
             Complete(All({op}, "ok")),
             given' = [given EXCEPT ![op] = Dial(t, s, NoOp)],
             EraseStream(t, s),
             UNCHANGED <<acceptOp, busy, inUse, dials, target, asked, replies>>
      PROVE  \E x \in StreamIds : Takes(op, t, x)
  <2>1. config.async /\ s \in ready[t]
    BY Zenon DEF Takeable
  <2>2. \A p \in AcceptOps \ {op} : result'[p] = result[p]
    BY <1>3, Zenon DEF Complete, All, Ops
  <2>3. s \in StreamIds
    BY <2>1, Zenon DEF DialInv
  <2>4. Takes(op, t, s)
    BY <1>1, <1>3, <2>1, <2>2, Zenon DEF Takes, Accepts
  <2> QED
    BY <2>3, <2>4
<1>4. ASSUME op \notin completed,
             state = "connected", t \in tunnels, acceptOp[t] = NoOp,
             Takeable(t) = {},
             acceptOp' = [acceptOp EXCEPT ![t] = op],
             IF ~ config.async /\ streams[t] # {}
             THEN \E s \in streams[t] :
                    /\ busy' = busy \cup {op}
                    /\ inUse' = inUse \cup {op}
                    /\ dials' = dials \cup {Dial(t, s, op)}
             ELSE UNCHANGED <<busy, inUse, dials>>,
             UNCHANGED <<doneVars, streams, ready, target, asked, replies, given>>
      PROVE  Waits(op, t)
  <2>1. config.async => ready[t] = {}
    BY <1>4, Zenon DEF Takeable
  <2>2. result' = result
    BY <1>4 DEF doneVars
  <2> QED
    BY <1>1, <1>4, <2>1, <2>2, Zenon DEF Waits, Accepts
<1> QED
  BY <1>2, <1>3, <1>4, Zenon DEF async_accept_tunnel_internal

(* The end of tunnels. *)
LEMMA ClosedShape ==
  ASSUME TunnelInv, config' = config, NEW o \in asyncOps,
         (\E t \in tunnels : on_tunnel_closed(o, t)) \/ on_queue_cancelled(o)
  PROVE  \E T \in SUBSET TunnelIds : Closes(T)
<1>0. tunnels \subseteq TunnelIds
  BY Zenon DEF TunnelInv
<1>1. ASSUME NEW t \in tunnels, on_tunnel_closed(o, t)
      PROVE  Closes({t})
  <2>1. on_tunnel_close({t}) /\ Complete(All(Accepting({t}), "error"))
        /\ UNCHANGED <<called, ran, state, generation, busy, dials, target, asked, replies, given>>
    BY <1>1, Zenon DEF on_tunnel_closed, opVars, sessionVars
  <2>2. \A p \in AcceptOps : result'[p] = "ok" => result[p] = "ok"
    BY <2>1, Zenon DEF Complete, All, Ops
  <2> QED
    BY <2>1, <2>2, Zenon DEF on_tunnel_close, Closes
<1>2. CASE on_queue_cancelled(o)
  <2>1. on_tunnel_close(tunnels) /\ state' = "null"
        /\ UNCHANGED <<called, ran, generation, busy, dials, target, asked, replies, given>>
    BY <1>2, Zenon DEF on_queue_cancelled, opVars
  <2>2. \A p \in AcceptOps : result'[p] = "ok" => result[p] = "ok"
    BY <1>2, Zenon DEF on_queue_cancelled, Complete, Ops
  <2>3. Closes(tunnels)
    BY <2>1, <2>2, Zenon DEF on_tunnel_close, Closes
  <2> QED
    BY <1>0, <2>3, Zenon
<1> QED
  BY <1>0, <1>1, <1>2, ZenonT(60)

(* The engine's messages. *)
LEMMA RequestShape ==
  ASSUME TunnelInv, DialInv, config' = config, NEW o \in asyncOps,
         NEW t \in tunnels, NEW s \in StreamIds, on_proxy_request(o, t, s)
  PROVE  Refuses(t, s) \/ Admits(t, s)
<1>1. Requests(t, s)
  BY Zenon DEF on_proxy_request, Requests, opVars, doneVars, tunnelVars
<1>2. ASSUME state = "connected", do_send_proxy_response({s})
      PROVE  replies' = [replies EXCEPT ![s] = @ + 1]
  BY <1>2, Zenon DEF do_send_proxy_response, DialInv
<1>3. CASE state # "connected" /\ UNCHANGED <<busy, streams, dials, replies>>
  BY <1>1, <1>3, Zenon DEF Refuses
<1>4. CASE state = "connected" /\ do_send_proxy_response({s}) /\ UNCHANGED <<busy, streams, dials>>
  BY <1>1, <1>2, <1>4, Zenon DEF Refuses
<1>5. CASE /\ HasRoom(t) /\ streams' = [streams EXCEPT ![t] = @ \cup {s}] /\ UNCHANGED replies
           /\ \/ config.async /\ dials' = dials \cup {Dial(t, s, NoOp)} /\ UNCHANGED busy
              \/ /\ ~ config.async /\ CanDial(acceptOp[t])
                 /\ busy' = busy \cup {acceptOp[t]}
                 /\ dials' = dials \cup {Dial(t, s, acceptOp[t])}
              \/ ~ config.async /\ UNCHANGED <<busy, dials>>
  BY <1>1, <1>5, Zenon DEF Admits, CanDial
<1> QED
  BY <1>3, <1>4, <1>5, Zenon DEF on_proxy_request

LEMMA DialShape ==
  ASSUME TunnelInv, DialInv, config' = config, NEW d \in dials, NEW ok \in BOOLEAN,
         on_connect_stream(d, ok)
  PROVE  Misses(d) \/ Fails(d) \/ Readies(d) \/ (\E op \in AcceptOps : Hands(d, op))
<1>0. d.tunnel \in TunnelIds /\ d.stream \in StreamIds
  BY Zenon DEF DialInv, Dials
<1>1. Dialled(d)
  BY Zenon DEF on_connect_stream, Dialled, opVars
<1>2. CASE StaleDial(d)
  BY <1>1, <1>2, Zenon DEF on_connect_stream, Misses, doneVars
<1>3. CASE ~ StaleDial(d)
  <2>1. replies' = [replies EXCEPT ![d.stream] = @ + 1]
    BY <1>0, <1>3, Zenon DEF on_connect_stream, do_send_proxy_response, DialInv, StaleDial
  <2>2. Answers(d)
    BY <1>1, <1>3, <2>1, Zenon DEF Answers
  <2>3. CASE d.tunnel \notin tunnels \/ d.stream \notin streams[d.tunnel]
    <3>1. UNCHANGED <<acceptOp, busy, streams, ready, result, given>>
      BY <1>3, <2>3, Zenon DEF on_connect_stream, doneVars
    <3> QED
      BY <2>2, <2>3, <3>1, Zenon DEF Misses
  <2>4. CASE d.tunnel \in tunnels /\ d.stream \in streams[d.tunnel]
    <3> DEFINE op == acceptOp[d.tunnel]
    <3>1. Held(d)
      BY <1>3, <2>2, <2>4, Zenon DEF on_connect_stream, Held, Freed
    <3>2. CASE /\ EraseStream(d.tunnel, d.stream)
               /\ UNCHANGED <<doneVars, acceptOp, given>>
      BY <3>1, <3>2, Zenon DEF Fails, doneVars
    <3>3. CASE /\ op # NoOp
               /\ EraseStream(d.tunnel, d.stream)
               /\ Complete(All({op}, "ok"))
               /\ given' = [given EXCEPT ![op] = d]
               /\ acceptOp' = [acceptOp EXCEPT ![d.tunnel] = NoOp]
      <4>1. \A p \in AcceptOps \ {op} : result'[p] = result[p]
        BY <3>3, Zenon DEF Complete, All, Ops
      <4>2. op \in AcceptOps
        BY <1>0, <3>3, Zenon DEF TunnelInv
      <4>3. Hands(d, op)
        BY <3>1, <3>3, <4>1, Zenon DEF Hands
      <4> QED
        BY <4>2, <4>3, Zenon
    <3>4. CASE /\ op = NoOp
               /\ ready' = IF config.async
                           THEN [ready EXCEPT ![d.tunnel] = @ \cup {d.stream}]
                           ELSE ready
               /\ UNCHANGED <<doneVars, acceptOp, streams, given>>
      BY <3>1, <3>4, Zenon DEF Readies, doneVars
    <3> QED
      BY <1>3, <2>4, <3>2, <3>3, <3>4, Zenon DEF on_connect_stream
  <2> QED
    BY <2>3, <2>4, Zenon
<1> QED
  BY <1>2, <1>3, Zenon

LEMMA SessionShape ==
  ASSUME ConnectInv, TunnelInv, AbandonInv, DialInv, config' = config, SessionNext
  PROVE  StreamStep
<1> PICK o \in asyncOps :
      \/ on_do_resolve_host(o) \/ on_connect(o) \/ on_timer(o)
      \/ on_send_message(o) \/ on_heartbeat_timer(o) \/ on_queue_cancelled(o)
      \/ on_read_stale(o) \/ on_read_error(o) \/ on_open(o) \/ on_close_response(o)
      \/ \E op \in createOps : on_tunnel_refused(o, op)
      \/ \E op \in createOps, t \in TunnelIds : on_tunnel_response(o, op, t)
      \/ \E t \in tunnels : on_tunnel_closed(o, t)
      \/ \E t \in tunnels, s \in StreamIds : on_proxy_request(o, t, s)
  BY Zenon DEF SessionNext
<1>0. tunnels \subseteq TunnelIds
  BY Zenon DEF TunnelInv
<1>1. CASE \/ on_do_resolve_host(o) \/ on_connect(o) \/ on_timer(o)
           \/ on_send_message(o) \/ on_heartbeat_timer(o)
           \/ on_read_stale(o) \/ on_read_error(o) \/ on_close_response(o)
  <2>1. OnlySession
    BY <1>1, SessionHandlers, Zenon DEF ConnectInv
  <2>2. UNCHANGED <<state, generation>> \/ (state' = "closing" /\ generation' = generation + 1)
    BY <1>1, CloseKeeps, Zenon DEF on_do_resolve_host, on_connect, on_timer, on_send_message,
       on_heartbeat_timer, on_read_stale, on_read_error, on_close_response
  <2> QED
    BY <2>1, <2>2, QuietSession, Zenon DEF StreamStep
<1>2. CASE on_open(o)
  <2>1. UNCHANGED <<busy, streams, ready, dials, asked, replies, given, target,
                    called, ran, tunnels, acceptOp, generation>>
    BY <1>2, Zenon DEF on_open, opVars, tunnelVars, streamVars
  <2>2. tunnels = {}
    BY <1>2, Zenon DEF on_open, Expected, AbandonInv
  <2>3. connectOp \notin AcceptOps
    BY ClientAssumption, Zenon DEF ConnectInv, Ops
  <2>4. \A p \in AcceptOps : result'[p] = result[p]
    BY <1>2, <2>3, Zenon DEF on_open, Complete, All, Ops
  <2> QED
    BY <2>1, <2>2, <2>4, ZenonT(60) DEF Quiet, StreamStep
<1>3. ASSUME NEW op \in createOps,
             on_tunnel_refused(o, op) \/ \E t \in TunnelIds : on_tunnel_response(o, op, t)
      PROVE  StreamStep
  <2>1. /\ UNCHANGED <<busy, streams, ready, dials, asked, replies, given, target,
                       called, ran, acceptOp, state, generation>>
        /\ tunnels \subseteq tunnels'
    BY <1>3, Zenon DEF on_tunnel_refused, on_tunnel_response, opVars, streamVars, sessionVars
  <2>2. op \notin AcceptOps
    BY ClientAssumption, Zenon DEF TunnelInv
  <2>3. \A p \in AcceptOps : result'[p] = result[p]
    BY <1>3, <2>2, ZenonT(60) DEF on_tunnel_refused, on_tunnel_response, Complete, All, Ops
  <2> QED
    BY <2>1, <2>3, QuietStep, ZenonT(60) DEF StreamStep
<1>4. CASE on_queue_cancelled(o) \/ \E t \in tunnels : on_tunnel_closed(o, t)
  BY <1>4, ClosedShape, Zenon DEF StreamStep
<1>5. CASE \E t \in tunnels, s \in StreamIds : on_proxy_request(o, t, s)
  BY <1>0, <1>5, RequestShape, Zenon DEF StreamStep
<1> QED
  BY <1>1, <1>2, <1>3, <1>4, <1>5, ZenonT(60)

(* Every step of the client is one of those. *)
LEMMA StreamSteps ==
  ASSUME BaseInv, [Next]_vars
  PROVE  StreamStep
<1> USE DEF BaseInv
<1>1. CASE UNCHANGED vars
  <2>1. UNCHANGED <<config, busy, streams, ready, dials, asked, replies, given, target,
                    called, ran, tunnels, acceptOp, result, state, generation>>
    BY <1>1, Zenon DEF vars, stateVars, opVars, doneVars, sessionVars, tunnelVars, streamVars
  <2> QED
    BY <2>1, QuietStep, Zenon DEF StreamStep
<1>2. CASE UserNext /\ config' = config
  BY <1>2, UserQuiet, Zenon DEF StreamStep
<1>3. CASE DispatchNext /\ config' = config
  <2>1. CASE \E op \in ConnectOps : async_connect_internal(op) \/ cancel_connect(op)
    BY <1>3, <2>1, ConnectQuiet, Zenon DEF StreamStep
  <2>2. CASE \/ \E op \in CreateOps : async_create_tunnel_internal(op) \/ cancel_create_tunnel(op)
             \/ \E op \in AcceptOps : cancel_accept_tunnel(op)
    BY <1>3, <2>2, CancelQuiet, Zenon DEF StreamStep
  <2>3. CASE \E op \in AcceptOps, t \in TunnelIds : async_accept_tunnel_internal(op, t)
    BY <1>3, <2>3, AcceptShape, Zenon DEF StreamStep
  <2> QED
    BY <1>3, <2>1, <2>2, <2>3, Zenon DEF DispatchNext
<1>4. CASE SessionNext /\ config' = config
  BY <1>4, SessionShape, Zenon
<1>5. CASE StreamNext /\ config' = config
  BY <1>5, DialShape, Zenon DEF StreamStep, StreamNext
<1> QED
  BY <1>1, <1>2, <1>3, <1>4, <1>5, Zenon DEF Next

-----------------------------------------------------------------------------
LEMMA DialInit == Init => DialInv
  BY DEF Init, DialInv

LEMMA DialTyped ==
  ASSUME FlightInv, NEW t \in TunnelIds, NEW s \in StreamIds, NEW via \in AcceptOps \cup {NoOp}
  PROVE  /\ Dial(t, s, via) \in Dials
         /\ Dial(t, s, via).gen = generation /\ Dial(t, s, via).via = via
         /\ Dial(t, s, via).tunnel = t /\ Dial(t, s, via).stream = s
  BY Zenon DEF Dial, Dials, FlightInv

LEMMA DialNext == BaseInv /\ [Next]_vars => DialInv'
<1> SUFFICES ASSUME ConnectInv, TunnelInv, FlightInv, AbandonInv, DialInv, StreamStep
             PROVE  DialInv'
  BY StreamSteps, Zenon DEF BaseInv
<1>0. /\ generation \in Nat /\ ran \subseteq called /\ tunnels \subseteq TunnelIds
      /\ \A d \in dials : d.gen \in Nat /\ d.tunnel \in TunnelIds /\ d.stream \in StreamIds
                         /\ d.via \in AcceptOps \cup {NoOp}
      /\ config.async \in BOOLEAN
  BY ClientAssumption DEF FlightInv, ConnectInv, TunnelInv, DialInv, Dials
<1>1. CASE Quiet
  BY <1>0, <1>1 DEF Quiet, DialInv
<1>2. CASE NewSession
  BY <1>0, <1>2 DEF NewSession, DialInv
<1>3. ASSUME NEW T \in SUBSET TunnelIds, Closes(T) PROVE DialInv'
  BY <1>0, <1>3, ZenonT(60) DEF Closes, DialInv
<1>4. ASSUME NEW op \in AcceptOps, NEW t \in TunnelIds, NEW s \in StreamIds, Takes(op, t, s)
      PROVE  DialInv'
  <2>1. Dial(t, s, NoOp) \in Dials
    BY DialTyped
  <2> QED
    BY <1>0, <1>4, <2>1 DEF Takes, Accepts, EraseStream, DialInv
<1>5. ASSUME NEW op \in AcceptOps, NEW t \in TunnelIds, Waits(op, t)
      PROVE  DialInv'
  <2>1. CASE UNCHANGED <<busy, dials>>
    BY <1>0, <1>5, <2>1, ZenonT(60) DEF Waits, Accepts, DialInv
  <2>2. ASSUME ~ config.async, NEW s \in streams[t],
               busy' = busy \cup {op}, dials' = dials \cup {Dial(t, s, op)}
        PROVE  DialInv'
    <3>1. s \in StreamIds
      BY Zenon DEF DialInv
    <3>2. /\ Dial(t, s, op) \in Dials /\ Dial(t, s, op).gen = generation
          /\ Dial(t, s, op).via = op /\ Dial(t, s, op).tunnel = t
      BY <3>1, DialTyped
    <3> QED
      BY <1>0, <1>5, <2>2, <3>2 DEF Waits, Accepts, DialInv
  <2> QED
    BY <1>5, <2>1, <2>2 DEF Waits
<1>6. ASSUME NEW t \in TunnelIds, NEW s \in StreamIds, Refuses(t, s) PROVE DialInv'
  BY <1>0, <1>6 DEF Refuses, Requests, DialInv
<1>7. ASSUME NEW t \in TunnelIds, NEW s \in StreamIds, Admits(t, s) PROVE DialInv'
  <2>1. CASE UNCHANGED <<busy, dials>>
    BY <1>0, <1>7, <2>1 DEF Admits, Requests, DialInv
  <2>2. CASE UNCHANGED busy /\ dials' = dials \cup {Dial(t, s, NoOp)}
    <3>1. /\ Dial(t, s, NoOp) \in Dials /\ Dial(t, s, NoOp).gen = generation
          /\ Dial(t, s, NoOp).via = NoOp
      BY DialTyped
    <3> QED
      BY <1>0, <1>7, <2>2, <3>1 DEF Admits, Requests, DialInv
  <2>3. CASE /\ ~ config.async /\ acceptOp[t] # NoOp
             /\ busy' = busy \cup {acceptOp[t]}
             /\ dials' = dials \cup {Dial(t, s, acceptOp[t])}
    <3>1. acceptOp[t] \in AcceptOps \cap ran /\ target[acceptOp[t]] = t
      BY <2>3 DEF TunnelInv
    <3>2. /\ Dial(t, s, acceptOp[t]) \in Dials /\ Dial(t, s, acceptOp[t]).gen = generation
          /\ Dial(t, s, acceptOp[t]).via = acceptOp[t] /\ Dial(t, s, acceptOp[t]).tunnel = t
      BY <3>1, DialTyped
    <3> QED
      BY <1>0, <1>7, <2>3, <3>1, <3>2 DEF Admits, Requests, DialInv
  <2> QED
    BY <1>7, <2>1, <2>2, <2>3 DEF Admits
<1>8. ASSUME NEW d \in dials, Misses(d) \/ Fails(d) \/ Readies(d) PROVE DialInv'
  <2>1. /\ d.tunnel \in TunnelIds /\ d.stream \in StreamIds
    BY <1>0, Zenon
  <2>2. dials' \subseteq dials /\ busy' \subseteq busy
        /\ UNCHANGED <<config, called, ran, generation, tunnels, target, asked>>
    BY <1>8, ZenonT(60) DEF Misses, Fails, Readies, Held, Answers, Dialled
  <2>3. replies' \in [StreamIds -> Nat]
    BY <1>8, <2>1 DEF Misses, Fails, Readies, Held, Answers, DialInv
  <2>4. given' = given
    BY <1>8 DEF Misses, Fails, Readies
  <2>5. /\ streams' \in [TunnelIds -> SUBSET StreamIds]
        /\ ready' \in [TunnelIds -> SUBSET StreamIds]
        /\ \A t \in TunnelIds : ready'[t] \subseteq streams'[t]
        /\ \A t \in TunnelIds \ tunnels : streams'[t] = {}
    BY <1>8, <2>1 DEF Misses, Fails, Readies, Held, EraseStream, DialInv
  <2> QED
    BY <2>2, <2>3, <2>4, <2>5, ZenonT(60) DEF DialInv
<1>9. ASSUME NEW d \in dials, NEW op \in AcceptOps, Hands(d, op) PROVE DialInv'
  <2>1. d \in Dials /\ d.tunnel \in TunnelIds /\ d.stream \in StreamIds
    BY <1>0, Zenon DEF DialInv
  <2>2. dials' \subseteq dials /\ busy' \subseteq busy
        /\ UNCHANGED <<config, called, ran, generation, tunnels, target, asked>>
    BY <1>9, ZenonT(60) DEF Hands, Held, Answers, Dialled
  <2>3. replies' \in [StreamIds -> Nat] /\ given' \in [AcceptOps -> Dials \cup {NoOp}]
    BY <1>9, <2>1 DEF Hands, Held, Answers, DialInv
  <2>5. /\ streams' \in [TunnelIds -> SUBSET StreamIds]
        /\ ready' \in [TunnelIds -> SUBSET StreamIds]
        /\ \A t \in TunnelIds : ready'[t] \subseteq streams'[t]
        /\ \A t \in TunnelIds \ tunnels : streams'[t] = {}
    BY <1>9, <2>1, Zenon DEF Hands, EraseStream, DialInv
  <2> QED
    BY <2>2, <2>3, <2>5, ZenonT(60) DEF DialInv
<1> QED
  BY <1>1, <1>2, <1>3, <1>4, <1>5, <1>6, <1>7, <1>8, <1>9, ZenonT(60) DEF StreamStep

-----------------------------------------------------------------------------
(* No stream is stuck.                                                     *)
LEMMA StuckInit == Init => NoStreamStuck
  BY Zenon DEF Init, NoStreamStuck, NoLostStream, NoStuckBusy

LEMMA LostNext == BaseInv /\ NoLostStream /\ [Next]_vars => NoLostStream'
<1> SUFFICES ASSUME TunnelInv, TunnelInv', FlightInv, DialInv, NoLostStream, StreamStep,
                    config'.async, state' = "connected", NEW u \in tunnels'
             PROVE  /\ acceptOp'[u] # NoOp => ready'[u] = {}
                    /\ \A x \in streams'[u] \ ready'[u] : Dial(u, x, NoOp)' \in dials'
  BY StreamSteps, OwnNext, ZenonT(60) DEF BaseInv, OwnInv, NoLostStream
<1>0. /\ tunnels \subseteq TunnelIds
      /\ \A d \in dials : d.tunnel \in TunnelIds /\ d.stream \in StreamIds
  BY ZenonT(60) DEF TunnelInv, DialInv, Dials
<1>a. ASSUME UNCHANGED <<config, generation>>, state = "connected", u \in tunnels,
             acceptOp'[u] # NoOp => ready'[u] = {},
             streams'[u] \ ready'[u] \subseteq streams[u] \ ready[u],
             \A x \in streams'[u] \ ready'[u] : Dial(u, x, NoOp) \in dials => Dial(u, x, NoOp) \in dials'
      PROVE  /\ acceptOp'[u] # NoOp => ready'[u] = {}
             /\ \A x \in streams'[u] \ ready'[u] : Dial(u, x, NoOp)' \in dials'
  BY <1>a, Zenon DEF NoLostStream, Dial
<1>1. CASE Quiet
  <2>1. CASE u \in tunnels
    BY <1>0, <1>1, <1>a, <2>1, ZenonT(60) DEF Quiet, NoLostStream
  <2>2. CASE u \notin tunnels
    <3>1. u \in TunnelIds => streams'[u] = {} /\ ready'[u] = {}
      BY <1>1, <2>2, Zenon DEF Quiet, DialInv
    <3>2. u \in TunnelIds
      BY Zenon DEF TunnelInv
    <3> QED
      BY <3>1, <3>2, Zenon
  <2> QED
    BY <2>1, <2>2, Zenon
<1>2. CASE NewSession
  BY <1>2, Zenon DEF NewSession
<1>3. ASSUME NEW T \in SUBSET TunnelIds, Closes(T)
      PROVE  /\ acceptOp'[u] # NoOp => ready'[u] = {}
             /\ \A x \in streams'[u] \ ready'[u] : Dial(u, x, NoOp)' \in dials'
  <2>1. u \in tunnels /\ u \in TunnelIds /\ u \notin T /\ state = "connected"
        /\ UNCHANGED <<config, generation, dials>>
    BY <1>0, <1>3, Zenon DEF Closes
  <2>2. acceptOp'[u] = acceptOp[u] /\ streams'[u] = streams[u] /\ ready'[u] = ready[u]
    BY <1>3, <2>1, Zenon DEF Closes
  <2> QED
    BY <1>a, <2>1, <2>2, ZenonT(60) DEF NoLostStream
<1>4. ASSUME NEW op \in AcceptOps, NEW t \in TunnelIds, NEW s \in StreamIds, Takes(op, t, s)
      PROVE  /\ acceptOp'[u] # NoOp => ready'[u] = {}
             /\ \A x \in streams'[u] \ ready'[u] : Dial(u, x, NoOp)' \in dials'
  <2>1. u \in tunnels /\ state = "connected" /\ UNCHANGED <<config, generation, dials, acceptOp>>
    BY <1>4, Zenon DEF Takes, Accepts
  <2>2. ready'[u] \subseteq ready[u] /\ streams'[u] \ ready'[u] \subseteq streams[u] \ ready[u]
    BY <1>0, <1>4, <2>1, Zenon DEF Takes, EraseStream, DialInv
  <2> QED
    BY <1>a, <2>1, <2>2, ZenonT(60) DEF NoLostStream
<1>5. ASSUME NEW op \in AcceptOps, NEW t \in TunnelIds, Waits(op, t)
      PROVE  /\ acceptOp'[u] # NoOp => ready'[u] = {}
             /\ \A x \in streams'[u] \ ready'[u] : Dial(u, x, NoOp)' \in dials'
  <2>1. u \in tunnels /\ state = "connected"
        /\ UNCHANGED <<config, generation, dials, ready, streams>>
    BY <1>5, Zenon DEF Waits, Accepts
  <2>2. acceptOp'[u] # NoOp => ready'[u] = {}
    BY <1>0, <1>5, <2>1, ZenonT(60) DEF Waits, TunnelInv, NoLostStream
  <2> QED
    BY <1>a, <2>1, <2>2, ZenonT(60)
<1>6. ASSUME NEW t \in TunnelIds, NEW s \in StreamIds, Refuses(t, s)
      PROVE  /\ acceptOp'[u] # NoOp => ready'[u] = {}
             /\ \A x \in streams'[u] \ ready'[u] : Dial(u, x, NoOp)' \in dials'
  BY <1>6, <1>a, Zenon DEF Refuses, Requests, NoLostStream
<1>7. ASSUME NEW t \in TunnelIds, NEW s \in StreamIds, Admits(t, s)
      PROVE  /\ acceptOp'[u] # NoOp => ready'[u] = {}
             /\ \A x \in streams'[u] \ ready'[u] : Dial(u, x, NoOp)' \in dials'
  <2>1. u \in tunnels /\ state = "connected" /\ UNCHANGED <<config, generation, acceptOp, ready>>
        /\ dials' = dials \cup {Dial(t, s, NoOp)} /\ config.async
    BY <1>7, Zenon DEF Admits, Requests
  <2>2. streams'[u] \subseteq streams[u] \cup (IF u = t THEN {s} ELSE {})
    BY <1>0, <1>7, <2>1, ZenonT(60) DEF Admits, DialInv
  <2>3. \A x : Dial(u, x, NoOp)' = Dial(u, x, NoOp)
    BY <2>1, Zenon DEF Dial
  <2> QED
    BY <2>1, <2>2, <2>3, ZenonT(60) DEF NoLostStream
<1>8. ASSUME NEW d \in dials,
             Misses(d) \/ Fails(d) \/ Readies(d) \/ \E op \in AcceptOps : Hands(d, op)
      PROVE  /\ acceptOp'[u] # NoOp => ready'[u] = {}
             /\ \A x \in streams'[u] \ ready'[u] : Dial(u, x, NoOp)' \in dials'
  <2>1. u \in tunnels /\ state = "connected" /\ UNCHANGED <<config, generation>> /\ config.async
        /\ dials' = dials \ {d}
    BY <1>8, Zenon DEF Misses, Fails, Readies, Hands, Held, Answers, Dialled
  <2>2. ASSUME NEW x, Dial(u, x, NoOp) = d
        PROVE  d.gen = generation /\ d.tunnel = u /\ d.stream = x
    BY <2>2, Zenon DEF Dial
  <2>3. CASE Misses(d)
    <3>1. UNCHANGED <<acceptOp, streams, ready>>
      BY <2>3, Zenon DEF Misses
    <3>2. ASSUME NEW x \in streams[u] PROVE Dial(u, x, NoOp) # d
      BY <2>1, <2>2, <2>3, ZenonT(60) DEF Misses, StaleDial
    <3> QED
      BY <1>a, <2>1, <3>1, <3>2, ZenonT(60) DEF NoLostStream
  <2>4. CASE Fails(d) \/ \E op \in AcceptOps : Hands(d, op)
    <3>1. EraseStream(d.tunnel, d.stream) /\ d.tunnel \in TunnelIds /\ u \in TunnelIds
      BY <1>0, <2>1, <2>4, ZenonT(60) DEF Fails, Hands
    <3>2. /\ ready'[u] \subseteq ready[u] /\ streams'[u] \ ready'[u] \subseteq streams[u] \ ready[u]
          /\ u = d.tunnel => d.stream \notin streams'[u]
      BY <3>1, ZenonT(60) DEF EraseStream, DialInv
    <3>3. acceptOp'[u] \in {acceptOp[u], NoOp}
      BY <2>4, <3>1 DEF Fails, Hands, TunnelInv
    <3> QED
      BY <1>a, <2>1, <2>2, <3>2, <3>3, ZenonT(60) DEF NoLostStream
  <2>5. CASE Readies(d)
    <3>1. /\ ready' = [ready EXCEPT ![d.tunnel] = @ \cup {d.stream}] /\ acceptOp[d.tunnel] = NoOp
          /\ UNCHANGED <<acceptOp, streams>> /\ d.tunnel \in TunnelIds /\ u \in TunnelIds
      BY <1>0, <2>1, <2>5, ZenonT(60) DEF Readies
    <3>2. /\ u = d.tunnel => ready'[u] = ready[u] \cup {d.stream}
          /\ u # d.tunnel => ready'[u] = ready[u]
      BY <3>1, Zenon DEF DialInv
    <3> QED
      BY <1>a, <2>1, <2>2, <3>1, <3>2, ZenonT(60) DEF NoLostStream
  <2> QED
    BY <1>8, <2>3, <2>4, <2>5, ZenonT(60)
<1> QED
  BY <1>1, <1>2, <1>3, <1>4, <1>5, <1>6, <1>7, <1>8, ZenonT(60) DEF StreamStep

LEMMA BusyNext == BaseInv /\ NoStuckBusy /\ [Next]_vars => NoStuckBusy'
<1> DEFINE HasDial(u) == \E d \in dials' : /\ d.via = acceptOp'[u] /\ d.gen = generation'
                                           /\ d.stream \in streams'[u]
<1> SUFFICES ASSUME TunnelInv, TunnelInv', FlightInv, DialInv, NoStuckBusy, StreamStep,
                    state' = "connected", NEW u \in tunnels', acceptOp'[u] \in busy'
             PROVE  HasDial(u)
  BY StreamSteps, OwnNext, ZenonT(60) DEF BaseInv, OwnInv, NoStuckBusy
<1>0. /\ tunnels \subseteq TunnelIds /\ u \in TunnelIds
      /\ \A d \in dials : d.tunnel \in TunnelIds /\ d.stream \in StreamIds
      /\ acceptOp[u] # NoOp => u \in tunnels /\ target[acceptOp[u]] = u /\ acceptOp[u] \in ran
      /\ NoOp \notin busy /\ NoOp \notin AcceptOps
      /\ busy \subseteq ran
  BY ClientAssumption DEF TunnelInv, DialInv, Dials, Ops
<1>1. CASE Quiet
  BY <1>0, <1>1 DEF Quiet, NoStuckBusy
<1>2. CASE NewSession
  BY <1>2, Zenon DEF NewSession
<1>3. ASSUME NEW T \in SUBSET TunnelIds, Closes(T) PROVE HasDial(u)
  <2>1. u \notin T /\ u \in tunnels /\ state = "connected" /\ UNCHANGED <<generation, dials, busy>>
    BY <1>3, Zenon DEF Closes
  <2>2. acceptOp'[u] = acceptOp[u] /\ streams'[u] = streams[u]
    BY <1>0, <1>3, <2>1, ZenonT(60) DEF Closes
  <2> QED
    BY <2>1, <2>2, Zenon DEF NoStuckBusy
<1>4. ASSUME NEW op \in AcceptOps, NEW t \in TunnelIds, NEW s \in StreamIds, Takes(op, t, s)
      PROVE  HasDial(u)
  <2>1. /\ u \in tunnels /\ state = "connected" /\ UNCHANGED <<generation, dials, busy, acceptOp>>
        /\ acceptOp[t] = NoOp /\ EraseStream(t, s)
    BY <1>4, Zenon DEF Takes, Accepts
  <2>2. u # t
    BY <1>0, <2>1, Zenon
  <2>3. streams'[u] = streams[u]
    BY <1>0, <2>1, <2>2, Zenon DEF EraseStream, DialInv
  <2> QED
    BY <2>1, <2>3, Zenon DEF NoStuckBusy
<1>5. ASSUME NEW op \in AcceptOps, NEW t \in TunnelIds, Waits(op, t) PROVE HasDial(u)
  <2>1. /\ u \in tunnels /\ state = "connected" /\ UNCHANGED <<generation, streams>>
        /\ op \notin ran /\ acceptOp' = [acceptOp EXCEPT ![t] = op]
    BY <1>5, Zenon DEF Waits, Accepts
  <2>2. CASE u = t
    <3>1. acceptOp'[u] = op
      BY <2>1, <2>2, Zenon DEF TunnelInv
    <3>2. PICK s \in streams[t] : dials' = dials \cup {Dial(t, s, op)}
      BY <1>0, <1>5, <2>1, <3>1, ZenonT(60) DEF Waits
    <3>3. Dial(t, s, op).via = op /\ Dial(t, s, op).gen = generation /\ Dial(t, s, op).stream = s
      BY Zenon DEF Dial
    <3> QED
      BY <2>1, <2>2, <3>1, <3>2, <3>3, ZenonT(60)
  <2>3. CASE u # t
    <3>1. acceptOp'[u] = acceptOp[u]
      BY <1>0, <2>1, <2>3 DEF TunnelInv
    <3>2. acceptOp[u] # NoOp
      BY <1>0, <1>5, <3>1, ZenonT(60) DEF Waits
    <3>3. acceptOp[u] \in busy /\ dials \subseteq dials'
      BY <1>0, <1>5, <2>1, <3>1, <3>2, ZenonT(60) DEF Waits
    <3> QED
      BY <2>1, <3>1, <3>3, ZenonT(60) DEF NoStuckBusy
  <2> QED
    BY <2>2, <2>3, Zenon
<1>6. ASSUME NEW t \in TunnelIds, NEW s \in StreamIds, Refuses(t, s) PROVE HasDial(u)
  BY <1>6, Zenon DEF Refuses, Requests, NoStuckBusy
<1>7. ASSUME NEW t \in TunnelIds, NEW s \in StreamIds, Admits(t, s) PROVE HasDial(u)
  <2>1. /\ u \in tunnels /\ state = "connected" /\ UNCHANGED <<generation, acceptOp>>
        /\ dials \subseteq dials' /\ streams' = [streams EXCEPT ![t] = @ \cup {s}]
    BY <1>7, Zenon DEF Admits, Requests
  <2>2. streams[u] \subseteq streams'[u] /\ s \in streams'[t]
    BY <1>0, <2>1, Zenon DEF DialInv
  <2>3. CASE acceptOp[u] \in busy
    BY <2>1, <2>2, <2>3, ZenonT(60) DEF NoStuckBusy
  <2>4. CASE acceptOp[u] \notin busy
    <3>1. /\ acceptOp[t] # NoOp /\ acceptOp[u] = acceptOp[t]
          /\ dials' = dials \cup {Dial(t, s, acceptOp[t])}
      BY <1>7, <2>1, <2>4, ZenonT(60) DEF Admits
    <3>2. u = t
      BY <1>0, <3>1 DEF TunnelInv
    <3>3. /\ Dial(t, s, acceptOp[t]).via = acceptOp[t]
          /\ Dial(t, s, acceptOp[t]).gen = generation /\ Dial(t, s, acceptOp[t]).stream = s
      BY Zenon DEF Dial
    <3> QED
      BY <2>1, <2>2, <3>1, <3>2, <3>3
  <2> QED
    BY <2>3, <2>4, Zenon
<1>8. ASSUME NEW d \in dials,
             Misses(d) \/ Fails(d) \/ Readies(d) \/ \E op \in AcceptOps : Hands(d, op)
      PROVE  HasDial(u)
  <2>1. u \in tunnels /\ state = "connected" /\ UNCHANGED <<generation>> /\ dials' = dials \ {d}
    BY <1>8, ZenonT(60) DEF Misses, Fails, Readies, Hands, Held, Answers, Dialled
  <2>2. CASE Misses(d)
    <3>1. UNCHANGED <<acceptOp, streams, busy>>
      BY <2>2, Zenon DEF Misses
    <3>2. PICK c \in dials : c.via = acceptOp[u] /\ c.gen = generation /\ c.stream \in streams[u]
      BY <2>1, <3>1, Zenon DEF NoStuckBusy
    <3>3. c.tunnel = u
      BY <1>0, <3>1, <3>2, ZenonT(60) DEF DialInv
    <3>4. c # d
      BY <2>1, <2>2, <3>2, <3>3, ZenonT(60) DEF Misses, StaleDial
    <3> QED
      BY <2>1, <3>1, <3>2, <3>4, ZenonT(60)
  <2>3. CASE Fails(d) \/ Readies(d) \/ \E op \in AcceptOps : Hands(d, op)
    <3>1. /\ busy' = busy \ {acceptOp[d.tunnel]} /\ d.tunnel \in TunnelIds
          /\ \/ acceptOp' = acceptOp \/ acceptOp' = [acceptOp EXCEPT ![d.tunnel] = NoOp]
          /\ streams' = streams \/ EraseStream(d.tunnel, d.stream)
      BY <1>0, <2>3, ZenonT(60) DEF Fails, Readies, Hands, Held
    <3>2. u # d.tunnel /\ acceptOp'[u] = acceptOp[u]
      BY <1>0, <3>1 DEF TunnelInv
    <3>3. streams'[u] = streams[u]
      BY <1>0, <3>1, <3>2, ZenonT(60) DEF EraseStream, DialInv
    <3>4. PICK c \in dials : c.via = acceptOp[u] /\ c.gen = generation /\ c.stream \in streams[u]
      BY <2>1, <3>1, <3>2, ZenonT(60) DEF NoStuckBusy
    <3>5. c.tunnel = u
      BY <1>0, <3>1, <3>2, <3>4 DEF DialInv
    <3> QED
      BY <2>1, <3>2, <3>3, <3>4, <3>5
  <2> QED
    BY <1>8, <2>2, <2>3, ZenonT(60)
<1> QED
  BY <1>1, <1>2, <1>3, <1>4, <1>5, <1>6, <1>7, <1>8, ZenonT(60) DEF StreamStep

-----------------------------------------------------------------------------
(* The accounts.  A request of this session is answered, being dialled, or *)
(* will never be answered; so the responses and the dials in flight are    *)
(* never more than the requests.                                           *)
Pending(s) == {d \in dials : d.stream = s /\ d.gen = generation}

CountInv ==
  /\ IsFiniteSet(dials)
  /\ \A t \in TunnelIds : IsFiniteSet(streams[t])
  /\ StreamLimit
  /\ config.async => \A s \in StreamIds : replies[s] + Cardinality(Pending(s)) <= asked[s]

LEMMA PendingCount ==
  ASSUME IsFiniteSet(dials), NEW s
  PROVE  IsFiniteSet(Pending(s)) /\ Cardinality(Pending(s)) \in Nat
<1>1. Pending(s) \subseteq dials
  BY DEF Pending
<1>2. IsFiniteSet(Pending(s))
  BY <1>1, FS_Subset, Zenon
<1> QED
  BY <1>2, FS_CardinalityType, Zenon

LEMMA CountInit == Init => CountInv
<1> SUFFICES ASSUME Init PROVE CountInv
  BY Zenon
<1>1. /\ dials = {} /\ \A t \in TunnelIds : streams[t] = {}
      /\ \A s \in StreamIds : replies[s] = 0 /\ asked[s] = 0 /\ Pending(s) = {}
      /\ config \in Configs
  BY Zenon DEF Init, Pending
<1>2. config.maxOngoing \in Nat
  BY <1>1, ClientAssumption
<1>3. IsFiniteSet({}) /\ Cardinality({}) = 0
  BY FS_EmptySet
<1>4. /\ IsFiniteSet(dials) /\ \A t \in TunnelIds : IsFiniteSet(streams[t]) /\ Cardinality(streams[t]) = 0
      /\ \A s \in StreamIds : Cardinality(Pending(s)) = 0
  BY <1>1, <1>3, Zenon
<1>5. StreamLimit
  BY <1>2, <1>4 DEF StreamLimit
<1>6. \A s \in StreamIds : replies[s] + Cardinality(Pending(s)) <= asked[s]
  BY <1>1, <1>4
<1> QED
  BY <1>4, <1>5, <1>6, ZenonT(60) DEF CountInv

(* Streams that only go away stay within the limit. *)
LEMMA FewerStreams ==
  ASSUME CountInv, config' = config, config.maxOngoing \in Nat,
         \A t \in TunnelIds : streams'[t] \subseteq streams[t]
  PROVE  (\A t \in TunnelIds : IsFiniteSet(streams'[t])) /\ StreamLimit'
<1>1. ASSUME NEW t \in TunnelIds
      PROVE  /\ IsFiniteSet(streams'[t])
             /\ config.maxOngoing # 0 => Cardinality(streams'[t]) <= config.maxOngoing
  <2>1. /\ IsFiniteSet(streams[t]) /\ Cardinality(streams[t]) \in Nat
        /\ config.maxOngoing # 0 => Cardinality(streams[t]) <= config.maxOngoing
    BY FS_CardinalityType, Zenon DEF CountInv, StreamLimit
  <2>2. streams'[t] \subseteq streams[t]
    BY Zenon
  <2>3. /\ IsFiniteSet(streams'[t]) /\ Cardinality(streams'[t]) \in Nat
        /\ Cardinality(streams'[t]) <= Cardinality(streams[t])
    BY <2>1, <2>2, FS_Subset, FS_CardinalityType, ZenonT(60)
  <2> QED
    BY <2>1, <2>3
<1> QED
  BY <1>1, Zenon DEF StreamLimit

(* Fewer dials, no response and no fewer requests. *)
LEMMA FewerDials ==
  ASSUME CountInv, DialInv, config' = config, dials' \subseteq dials,
         \A s \in StreamIds : Pending(s)' \subseteq Pending(s),
         replies' = replies, asked' \in [StreamIds -> Nat],
         \A s \in StreamIds : asked[s] <= asked'[s]
  PROVE  /\ IsFiniteSet(dials')
         /\ config'.async => \A s \in StreamIds : replies'[s] + Cardinality(Pending(s)') <= asked'[s]
<1>1. IsFiniteSet(dials')
  BY FS_Subset, ZenonT(60) DEF CountInv
<1>2. ASSUME NEW s \in StreamIds, config.async
      PROVE  replies'[s] + Cardinality(Pending(s)') <= asked'[s]
  <2>1. /\ IsFiniteSet(Pending(s)) /\ Cardinality(Pending(s)) \in Nat
    BY PendingCount, Zenon DEF CountInv
  <2>2. Pending(s)' \subseteq Pending(s)
    BY Zenon
  <2>3. /\ IsFiniteSet(Pending(s)') /\ Cardinality(Pending(s)') \in Nat
        /\ Cardinality(Pending(s)') <= Cardinality(Pending(s))
    BY <2>1, <2>2, FS_Subset, FS_CardinalityType, ZenonT(60)
  <2>4. replies[s] + Cardinality(Pending(s)) <= asked[s]
    BY <1>2, Zenon DEF CountInv
  <2>5. asked[s] <= asked'[s] /\ asked[s] \in Nat /\ asked'[s] \in Nat /\ replies[s] \in Nat
    BY Zenon DEF DialInv
  <2>6. replies'[s] = replies[s]
    BY Zenon
  <2> QED
    BY <2>1, <2>3, <2>4, <2>5, <2>6
<1> QED
  BY <1>1, <1>2, Zenon

LEMMA CountNext == BaseInv /\ CountInv /\ [Next]_vars => CountInv'
<1> SUFFICES ASSUME BaseInv, TunnelInv, FlightInv, DialInv, DialInv', CountInv, StreamStep
             PROVE  CountInv'
  BY StreamSteps, DialNext, ZenonT(60) DEF BaseInv
<1>0. /\ tunnels \subseteq TunnelIds /\ generation \in Nat
      /\ config.maxOngoing \in Nat /\ config.async \in BOOLEAN
      /\ \A d \in dials : d.tunnel \in TunnelIds /\ d.stream \in StreamIds /\ d.gen \in Nat
      /\ \A d \in dials : d.gen <= generation
      /\ asked \in [StreamIds -> Nat] /\ replies \in [StreamIds -> Nat]
      /\ asked' \in [StreamIds -> Nat] /\ replies' \in [StreamIds -> Nat]
  BY ClientAssumption DEF TunnelInv, FlightInv, DialInv, Dials
<1>a. ASSUME config' = config, dials' \subseteq dials,
             \A s \in StreamIds : Pending(s)' \subseteq Pending(s),
             replies' = replies, \A s \in StreamIds : asked[s] <= asked'[s],
             \A t \in TunnelIds : streams'[t] \subseteq streams[t]
      PROVE  CountInv'
  BY <1>0, <1>a, FewerStreams, FewerDials, ZenonT(60) DEF CountInv
<1>b. ASSUME dials' \subseteq dials, generation' = generation
      PROVE  \A s \in StreamIds : Pending(s)' \subseteq Pending(s)
  BY <1>b, ZenonT(60) DEF Pending
<1>c. ASSUME dials' = dials, generation' = generation + 1
      PROVE  \A s \in StreamIds : Pending(s)' = {}
  BY <1>0, <1>c DEF Pending
<1>1. CASE Quiet
  <2>1. \A s \in StreamIds : Pending(s)' \subseteq Pending(s)
    BY <1>1, <1>b, <1>c, ZenonT(60) DEF Quiet
  <2>2. \A s \in StreamIds : asked[s] <= asked'[s]
    BY <1>0, <1>1 DEF Quiet
  <2> QED
    BY <1>1, <1>a, <2>1, <2>2, ZenonT(60) DEF Quiet
<1>2. CASE NewSession
  <2>1. /\ \A s \in StreamIds : Pending(s)' = {}
        /\ \A s \in StreamIds : asked'[s] = 0 /\ replies'[s] = 0
        /\ UNCHANGED <<config, dials, streams>>
    BY <1>2, <1>c, ZenonT(60) DEF NewSession
  <2>2. Cardinality({}) = 0
    BY FS_EmptySet, Zenon
  <2>3. \A s \in StreamIds : Cardinality(Pending(s)') = 0
    BY <2>1, <2>2, ZenonT(60)
  <2>4. \A s \in StreamIds : replies'[s] + Cardinality(Pending(s)') <= asked'[s]
    BY <2>1, <2>3
  <2> QED
    BY <2>1, <2>4, ZenonT(60) DEF CountInv, StreamLimit
<1>3. ASSUME NEW T \in SUBSET TunnelIds, Closes(T) PROVE CountInv'
  <2>1. \A t \in TunnelIds : streams'[t] \subseteq streams[t]
    BY <1>3, ZenonT(60) DEF Closes
  <2>2. \A s \in StreamIds : asked[s] <= asked'[s]
    BY <1>0, <1>3 DEF Closes
  <2> QED
    BY <1>3, <1>a, <1>b, <2>1, <2>2, ZenonT(60) DEF Closes
<1>4. ASSUME NEW op \in AcceptOps, NEW t \in TunnelIds, NEW s \in StreamIds, Takes(op, t, s)
      PROVE  CountInv'
  <2>1. \A u \in TunnelIds : streams'[u] \subseteq streams[u]
    BY <1>4 DEF Takes, EraseStream, DialInv
  <2>2. \A x \in StreamIds : asked[x] <= asked'[x]
    BY <1>0, <1>4 DEF Takes, Accepts
  <2> QED
    BY <1>4, <1>a, <1>b, <2>1, <2>2, ZenonT(60) DEF Takes, Accepts
<1>5. ASSUME NEW op \in AcceptOps, NEW t \in TunnelIds, Waits(op, t) PROVE CountInv'
  <2>1. UNCHANGED <<config, generation, streams, asked, replies>>
    BY <1>5, ZenonT(60) DEF Waits, Accepts
  <2>2. CASE UNCHANGED dials
    <3>1. \A x \in StreamIds : asked[x] <= asked'[x]
      BY <1>0, <2>1
    <3>2. config' = config /\ replies' = replies /\ generation' = generation /\ dials' \subseteq dials
      BY <2>1, <2>2, Zenon
    <3>3. \A u \in TunnelIds : streams'[u] \subseteq streams[u]
      BY <2>1, Zenon
    <3>4. \A x \in StreamIds : Pending(x)' \subseteq Pending(x)
      BY <1>b, <3>2, Zenon
    <3> QED
      BY <1>a, <3>1, <3>2, <3>3, <3>4, Zenon
  <2>3. ASSUME ~ config.async, NEW s \in streams[t], dials' = dials \cup {Dial(t, s, op)}
        PROVE  CountInv'
    <3>1. IsFiniteSet(dials')
      BY <2>3, FS_AddElement, ZenonT(60) DEF CountInv
    <3> QED
      BY <2>1, <2>3, <3>1, ZenonT(60) DEF CountInv, StreamLimit
  <2> QED
    BY <1>5, <2>2, <2>3, ZenonT(60) DEF Waits
<1>6. ASSUME NEW t \in TunnelIds, NEW s \in StreamIds, Refuses(t, s) PROVE CountInv'
  <2>1. /\ UNCHANGED <<config, generation, streams, dials>>
        /\ \A x \in StreamIds : asked'[x] = IF x = s THEN asked[x] + 1 ELSE asked[x]
        /\ \A x \in StreamIds : replies'[x] \in {replies[x], IF x = s THEN replies[x] + 1 ELSE replies[x]}
    BY <1>0, <1>6, ZenonT(60) DEF Refuses, Requests
  <2>2. \A x \in StreamIds : Pending(x)' = Pending(x)
    BY <2>1, ZenonT(60) DEF Pending
  <2>3. ASSUME NEW x \in StreamIds, config.async
        PROVE  replies'[x] + Cardinality(Pending(x)') <= asked'[x]
    <3>1. /\ replies[x] + Cardinality(Pending(x)) <= asked[x] /\ Cardinality(Pending(x)) \in Nat
          /\ replies[x] \in Nat /\ asked[x] \in Nat
      BY <1>0, <2>3, PendingCount, ZenonT(60) DEF CountInv
    <3>2. Cardinality(Pending(x)') = Cardinality(Pending(x))
      BY <2>2, Zenon
    <3> QED
      BY <2>1, <3>1, <3>2
  <2> QED
    BY <2>1, <2>3, ZenonT(60) DEF CountInv, StreamLimit
<1>7. ASSUME NEW t \in TunnelIds, NEW s \in StreamIds, Admits(t, s) PROVE CountInv'
  <2>1. /\ UNCHANGED <<config, generation, replies>>
        /\ HasRoom(t) /\ streams' = [streams EXCEPT ![t] = @ \cup {s}]
        /\ \A x \in StreamIds : asked'[x] = IF x = s THEN asked[x] + 1 ELSE asked[x]
        /\ config.async => dials' = dials \cup {Dial(t, s, NoOp)}
    BY <1>0, <1>7, ZenonT(60) DEF Admits, Requests
  <2>2. \A u \in TunnelIds : IsFiniteSet(streams'[u])
                            /\ (config.maxOngoing # 0 => Cardinality(streams'[u]) <= config.maxOngoing)
    <3>1. \A u \in TunnelIds : /\ IsFiniteSet(streams[u])
                              /\ (config.maxOngoing # 0 => Cardinality(streams[u]) <= config.maxOngoing)
      BY DEF CountInv, StreamLimit
    <3>2. /\ Cardinality(streams[t]) \in Nat /\ IsFiniteSet(streams[t] \cup {s})
          /\ Cardinality(streams[t] \cup {s}) \in {Cardinality(streams[t]), Cardinality(streams[t]) + 1}
      BY <3>1, FS_AddElement, FS_CardinalityType, ZenonT(60)
    <3>3. config.maxOngoing # 0 => Cardinality(streams[t] \cup {s}) <= config.maxOngoing
      BY <1>0, <2>1, <3>1, <3>2 DEF HasRoom
    <3>4. \A u \in TunnelIds : streams'[u] = IF u = t THEN streams[t] \cup {s} ELSE streams[u]
      BY <2>1, ZenonT(60) DEF DialInv
    <3> QED
      BY <3>1, <3>2, <3>3, <3>4, ZenonT(60)
  <2>3. IsFiniteSet(dials')
    <3>1. \/ dials' = dials \/ dials' = dials \cup {Dial(t, s, NoOp)}
          \/ dials' = dials \cup {Dial(t, s, acceptOp[t])}
      BY <1>7, ZenonT(60) DEF Admits
    <3> QED
      BY <3>1, FS_AddElement, ZenonT(60) DEF CountInv
  <2>4. ASSUME NEW x \in StreamIds, config.async
        PROVE  replies'[x] + Cardinality(Pending(x)') <= asked'[x]
    <3> DEFINE d == Dial(t, s, NoOp)
    <3>1. /\ replies[x] + Cardinality(Pending(x)) <= asked[x] /\ Cardinality(Pending(x)) \in Nat
          /\ replies[x] \in Nat /\ asked[x] \in Nat /\ IsFiniteSet(Pending(x))
      BY <1>0, <2>4, PendingCount DEF CountInv
    <3>2. d.stream = s /\ d.gen = generation
      BY Zenon DEF Dial
    <3>3. Pending(x)' = IF x = s THEN Pending(x) \cup {d} ELSE Pending(x)
      <4> HIDE DEF d
      <4> QED
        BY <2>1, <2>4, <3>2, ZenonT(60) DEF Pending, d
    <3>4. Cardinality(Pending(x) \cup {d}) \in {Cardinality(Pending(x)), Cardinality(Pending(x)) + 1}
      BY <3>1, FS_AddElement, ZenonT(60)
    <3> HIDE DEF d
    <3>5. Cardinality(Pending(x)') <= Cardinality(Pending(x)) + (IF x = s THEN 1 ELSE 0)
          /\ Cardinality(Pending(x)') \in Nat
      BY <3>1, <3>3, <3>4
    <3>6. replies'[x] = replies[x] /\ asked'[x] = asked[x] + (IF x = s THEN 1 ELSE 0)
      <4>1. replies' = replies /\ asked'[x] = IF x = s THEN asked[x] + 1 ELSE asked[x]
        BY <2>1, Zenon
      <4> QED
        BY <3>1, <4>1
    <3> QED
      BY <3>1, <3>5, <3>6
  <2> QED
    BY <2>1, <2>2, <2>3, <2>4, ZenonT(60) DEF CountInv, StreamLimit
<1>8. ASSUME NEW d \in dials,
             Misses(d) \/ Fails(d) \/ Readies(d) \/ \E op \in AcceptOps : Hands(d, op)
      PROVE  CountInv'
  <2>1. UNCHANGED <<config, generation, asked>> /\ dials' = dials \ {d}
    BY <1>8, ZenonT(60) DEF Misses, Fails, Readies, Hands, Held, Answers, Dialled
  <2>2. \A u \in TunnelIds : streams'[u] \subseteq streams[u]
    <3>1. streams' = streams \/ EraseStream(d.tunnel, d.stream)
      BY <1>8, Zenon DEF Misses, Fails, Readies, Hands
    <3> QED
      BY <3>1 DEF EraseStream, DialInv
  <2>3. CASE replies' = replies
    <3>1. \A x \in StreamIds : asked[x] <= asked'[x]
      BY <1>0, <2>1
    <3> QED
      BY <1>a, <1>b, <2>1, <2>2, <2>3, <3>1
  <2>4. CASE Answers(d)
    <3>1. ASSUME NEW x \in StreamIds, config.async
          PROVE  replies'[x] + Cardinality(Pending(x)') <= asked'[x]
      <4>1. /\ replies[x] + Cardinality(Pending(x)) <= asked[x] /\ Cardinality(Pending(x)) \in Nat
            /\ replies[x] \in Nat /\ asked[x] \in Nat /\ IsFiniteSet(Pending(x))
        BY <1>0, <3>1, PendingCount, ZenonT(60) DEF CountInv
      <4>2. CASE x = d.stream
        <5>1. d \in Pending(x) /\ Pending(x)' = Pending(x) \ {d}
          BY <2>1, <2>4, <4>2 DEF Pending, Answers, StaleDial
        <5>2. Cardinality(Pending(x) \ {d}) = Cardinality(Pending(x)) - 1
          BY <4>1, <5>1, FS_RemoveElement, ZenonT(60)
        <5>3. replies'[x] = replies[x] + 1
          BY <1>0, <2>4, <4>2, ZenonT(60) DEF Answers
        <5> QED
          BY <2>1, <4>1, <5>1, <5>2, <5>3
      <4>3. CASE x # d.stream
        <5>1. Pending(x)' = Pending(x) /\ replies'[x] = replies[x]
          BY <1>0, <2>1, <2>4, <4>3, ZenonT(60) DEF Pending, Answers
        <5> QED
          BY <2>1, <4>1, <5>1, ZenonT(60)
      <4> QED
        BY <4>2, <4>3, ZenonT(60)
    <3>2. IsFiniteSet(dials')
      BY <2>1, FS_RemoveElement, Zenon DEF CountInv
    <3> QED
      BY <1>0, <2>1, <2>2, <3>1, <3>2, FewerStreams, ZenonT(60) DEF CountInv
  <2> QED
    BY <1>8, <2>3, <2>4, ZenonT(60) DEF Misses, Fails, Readies, Hands, Held
<1> QED
  BY <1>1, <1>2, <1>3, <1>4, <1>5, <1>6, <1>7, <1>8 DEF StreamStep

-----------------------------------------------------------------------------
(* Where a stream of this session is: being dialled, connected and waiting *)
(* for an accept call, or given to one.  A stream that was asked for once  *)
(* is in one place only, so it is never given twice.                       *)
Givens(s) ==
  {op \in AcceptOps : given[op] # NoOp /\ given[op].stream = s /\ given[op].gen = generation}
ReadyAt(s) == {t \in TunnelIds : s \in ready[t]}
Places(s) ==
       {<<"dialled", d>> : d \in Pending(s)}
  \cup {<<"ready", t>> : t \in ReadyAt(s)}
  \cup {<<"given", op>> : op \in Givens(s)}
OnePlace(s) ==
  /\ asked[s] = 0 => Places(s) = {}
  /\ asked[s] <= 1 => \A x, y \in Places(s) : x = y

GivenInv ==
  /\ \A op \in AcceptOps :
       /\ result[op] = "ok" => given[op] # NoOp
       /\ given[op] # NoOp =>
            op \in called /\ given[op].tunnel = target[op] /\ given[op].gen <= generation
  /\ config.async => \A s \in StreamIds : OnePlace(s)

LEMMA GivenInit == Init => GivenInv
<1> SUFFICES ASSUME Init PROVE GivenInv
  OBVIOUS
<1>1. \A op \in AcceptOps : result[op] = "none" /\ given[op] = NoOp
  BY Zenon DEF Init, Ops
<1>2. \A s \in StreamIds : Pending(s) = {} /\ ReadyAt(s) = {} /\ Givens(s) = {}
  BY <1>1, Zenon DEF Init, Pending, ReadyAt, Givens
<1>3. \A s \in StreamIds : Places(s) = {}
  BY <1>2, ZenonT(60) DEF Places
<1> QED
  BY <1>1, <1>3, Zenon DEF GivenInv, OnePlace

LEMMA NoNewPlace ==
  ASSUME NEW s \in StreamIds, OnePlace(s), Places(s)' \subseteq Places(s),
         asked[s] \in Nat, asked'[s] \in Nat, asked[s] <= asked'[s]
  PROVE  OnePlace(s)'
  BY DEF OnePlace

LEMMA FewerPlaces ==
  ASSUME NEW s, Pending(s)' \subseteq Pending(s), ReadyAt(s)' \subseteq ReadyAt(s),
         Givens(s)' \subseteq Givens(s)
  PROVE  Places(s)' \subseteq Places(s)
  BY Zenon DEF Places

(* A stream moves from one place to another. *)
LEMMA PlaceMoves ==
  ASSUME NEW s \in StreamIds, OnePlace(s), NEW a \in Places(s), NEW b,
         Places(s)' \subseteq (Places(s) \ {a}) \cup {b},
         asked[s] \in Nat, asked'[s] = asked[s]
  PROVE  OnePlace(s)'
  BY Zenon DEF OnePlace

LEMMA GivenQuiet ==
  ASSUME GivenInv, DialInv, FlightInv, Quiet
  PROVE  GivenInv'
<1>1. ASSUME NEW s \in StreamIds
      PROVE  Places(s)' \subseteq Places(s)
  <2>1. ReadyAt(s)' = ReadyAt(s)
    BY ZenonT(60) DEF ReadyAt, Quiet
  <2>2. Pending(s)' \subseteq Pending(s)
    BY DEF Pending, Quiet, FlightInv, DialInv, Dials
  <2>3. Givens(s)' \subseteq Givens(s)
    <3>1. CASE generation' = generation
      BY <3>1, ZenonT(60) DEF Quiet, Givens
    <3>2. CASE generation' = generation + 1
      <4>1. \A op \in AcceptOps : given[op] # NoOp => given[op].gen \in Nat /\ given[op].gen <= generation
        BY ZenonT(60) DEF GivenInv, DialInv, Dials
      <4> QED
        BY <3>2, <4>1 DEF Quiet, Givens, FlightInv
    <3> QED
      BY <3>1, <3>2, Zenon DEF Quiet
  <2> QED
    BY <2>1, <2>2, <2>3, FewerPlaces, ZenonT(60)
<1>2. \A s \in StreamIds : OnePlace(s) => OnePlace(s)'
  BY <1>1, NoNewPlace DEF Quiet, DialInv
<1>3. \A op \in AcceptOps : given[op] # NoOp => given[op].gen \in Nat
  BY Zenon DEF DialInv, Dials
<1>4. \A op \in AcceptOps :
        /\ result'[op] = "ok" => given'[op] # NoOp
        /\ given'[op] # NoOp =>
             op \in called' /\ given'[op].tunnel = target'[op] /\ given'[op].gen <= generation'
  BY <1>3 DEF GivenInv, Quiet, FlightInv
<1> QED
  BY <1>2, <1>4, Zenon DEF GivenInv, Quiet

(* What a step that stays in the session must show. *)
LEMMA GivenStays ==
  ASSUME GivenInv, UNCHANGED <<config, called, target, generation>>,
         \A op \in AcceptOps :
           \/ given'[op] = given[op] /\ (result'[op] = "ok" => result[op] = "ok")
           \/ /\ given'[op] # NoOp /\ op \in called
              /\ given'[op].tunnel = target[op] /\ given'[op].gen <= generation,
         config.async => \A s \in StreamIds : OnePlace(s) => OnePlace(s)'
  PROVE  GivenInv'
  BY Zenon DEF GivenInv

LEMMA GivenAccepts ==
  ASSUME GivenInv, DialInv, FlightInv, NEW op \in AcceptOps, NEW t \in TunnelIds,
         (\E s \in StreamIds : Takes(op, t, s)) \/ Waits(op, t)
  PROVE  GivenInv'
<1>0. UNCHANGED <<config, called, target, generation, asked>> /\ op \in called /\ t = target[op]
      /\ asked \in [StreamIds -> Nat]
  BY Zenon DEF Takes, Waits, Accepts, DialInv
<1>1. ASSUME NEW s \in StreamIds, Takes(op, t, s) PROVE GivenInv'
  <2> DEFINE d == Dial(t, s, NoOp)
  <2>1. /\ d \in Dials /\ d # NoOp
        /\ d.gen = generation /\ d.tunnel = t /\ d.stream = s
    BY ClientAssumption, DialTyped
  <2> HIDE DEF d
  <2>2. given' = [given EXCEPT ![op] = d] /\ UNCHANGED dials /\ EraseStream(t, s) /\ s \in ready[t]
    BY <1>1, Zenon DEF Takes, d
  <2>3. ASSUME NEW x \in StreamIds
        PROVE  /\ Pending(x)' = Pending(x)
               /\ ReadyAt(x)' = IF x = s THEN ReadyAt(x) \ {t} ELSE ReadyAt(x)
               /\ Givens(x)' \subseteq Givens(x) \cup (IF x = s THEN {op} ELSE {})
    <3>1. Pending(x)' = Pending(x)
      BY <1>0, <2>2, Zenon DEF Pending
    <3>2. ReadyAt(x)' = IF x = s THEN ReadyAt(x) \ {t} ELSE ReadyAt(x)
      BY <2>2, Zenon DEF ReadyAt, EraseStream, DialInv
    <3>3. Givens(x)' \subseteq Givens(x) \cup (IF x = s THEN {op} ELSE {})
      BY <1>0, <2>1, <2>2, ZenonT(60) DEF Givens, DialInv
    <3> QED
      BY <3>1, <3>2, <3>3, ZenonT(60)
  <2>4. <<"ready", t>> \in Places(s)
    BY <2>2, ZenonT(60) DEF Places, ReadyAt
  <2>5. Places(s)' \subseteq (Places(s) \ {<<"ready", t>>}) \cup {<<"given", op>>}
    BY <2>3 DEF Places
  <2>6. OnePlace(s) => OnePlace(s)'
    <3>1. asked[s] \in Nat /\ asked'[s] = asked[s]
      BY <1>0, Zenon
    <3>2. PICK a, b : a = <<"ready", t>> /\ b = <<"given", op>>
      BY Zenon
    <3>3. a \in Places(s) /\ Places(s)' \subseteq (Places(s) \ {a}) \cup {b}
      BY <2>4, <2>5, <3>2, Zenon
    <3> QED
      BY <3>1, <3>3, PlaceMoves, ZenonT(60)
  <2>7. ASSUME NEW x \in StreamIds, x # s PROVE OnePlace(x) => OnePlace(x)'
    BY <1>0, <2>3, <2>7, FewerPlaces, NoNewPlace
  <2>8. \A p \in AcceptOps :
          \/ given'[p] = given[p] /\ (result'[p] = "ok" => result[p] = "ok")
          \/ /\ given'[p] # NoOp /\ p \in called
             /\ given'[p].tunnel = target[p] /\ given'[p].gen <= generation
    <3>1. \A p \in AcceptOps \ {op} : given'[p] = given[p] /\ result'[p] = result[p]
      BY <1>1, <2>2, Zenon DEF Takes, DialInv
    <3>2. given'[op] = d
      BY <2>2, Zenon DEF DialInv
    <3>3. d.gen <= generation
      BY <2>1 DEF FlightInv
    <3> QED
      BY <1>0, <2>1, <3>1, <3>2, <3>3, Zenon
  <2> QED
    BY <1>0, <2>6, <2>7, <2>8, GivenStays, ZenonT(60)
<1>2. CASE Waits(op, t)
  <2>1. UNCHANGED <<given, ready, result>> /\ (config.async => UNCHANGED dials)
    BY <1>2, Zenon DEF Waits
  <2>2. ASSUME config.async, NEW x \in StreamIds PROVE OnePlace(x) => OnePlace(x)'
    <3>1. Pending(x)' = Pending(x) /\ ReadyAt(x)' = ReadyAt(x) /\ Givens(x)' = Givens(x)
      BY <1>0, <2>1, <2>2, ZenonT(60) DEF Pending, ReadyAt, Givens
    <3> QED
      BY <1>0, <3>1, FewerPlaces, NoNewPlace
  <2> QED
    BY <1>0, <2>1, <2>2, GivenStays, Zenon
<1> QED
  BY <1>1, <1>2, Zenon

LEMMA GivenRequests ==
  ASSUME GivenInv, DialInv, FlightInv, NEW t \in TunnelIds, NEW s \in StreamIds,
         Refuses(t, s) \/ Admits(t, s)
  PROVE  GivenInv'
<1>0. /\ UNCHANGED <<config, called, target, generation, given, ready, result>>
      /\ asked \in [StreamIds -> Nat] /\ asked' = [asked EXCEPT ![s] = @ + 1]
  BY Zenon DEF Refuses, Admits, Requests, DialInv
<1>1. ASSUME config.async, NEW x \in StreamIds PROVE OnePlace(x) => OnePlace(x)'
  <2>1. asked[x] \in Nat /\ asked'[x] \in Nat /\ asked[x] <= asked'[x]
        /\ (x = s => asked'[x] = asked[x] + 1)
    BY <1>0
  <2>2. ReadyAt(x)' = ReadyAt(x) /\ Givens(x)' = Givens(x)
    BY <1>0, Zenon DEF ReadyAt, Givens
  <2>3. CASE Pending(x)' = Pending(x)
    BY <2>1, <2>2, <2>3, FewerPlaces, NoNewPlace, ZenonT(60)
  <2>4. CASE x = s /\ dials' = dials \cup {Dial(t, s, NoOp)}
    <3>1. Pending(x)' \subseteq Pending(x) \cup {Dial(t, s, NoOp)}
      BY <1>0, <2>4, ZenonT(60) DEF Pending
    <3>2. Places(x)' \subseteq Places(x) \cup {<<"dialled", Dial(t, s, NoOp)>>}
      BY <2>2, <3>1, ZenonT(60) DEF Places
    <3> QED
      BY <2>1, <2>4, <3>2 DEF OnePlace
  <2>5. CASE x # s /\ dials' = dials \cup {Dial(t, s, NoOp)}
    <3>1. Dial(t, s, NoOp).stream = s
      BY Zenon DEF Dial
    <3>2. Pending(x)' = Pending(x)
      BY <1>0, <2>5, <3>1, ZenonT(60) DEF Pending
    <3> QED
      BY <2>3, <3>2, ZenonT(60)
  <2>6. CASE dials' = dials
    BY <1>0, <2>3, <2>6, ZenonT(60) DEF Pending
  <2> QED
    BY <1>1, <2>4, <2>5, <2>6, ZenonT(60) DEF Refuses, Admits
<1> QED
  BY <1>0, <1>1, GivenStays, ZenonT(60)

LEMMA GivenDialled ==
  ASSUME GivenInv, TunnelInv, DialInv, FlightInv, ran \subseteq called, NEW d \in dials,
         Misses(d) \/ Fails(d) \/ Readies(d) \/ \E op \in AcceptOps : Hands(d, op)
  PROVE  GivenInv'
<1>0. /\ UNCHANGED <<config, called, target, generation, asked>> /\ dials' = dials \ {d}
      /\ asked \in [StreamIds -> Nat]
  BY ZenonT(60) DEF Misses, Fails, Readies, Hands, Held, Answers, Dialled, DialInv
<1>1. /\ d \in Dials /\ d.tunnel \in TunnelIds /\ d.stream \in StreamIds
      /\ d.gen \in Nat /\ d.gen <= generation /\ d # NoOp
  BY ClientAssumption, Zenon DEF DialInv, Dials
<1>2. \A x \in StreamIds : Pending(x)' = Pending(x) \ {d}
  BY <1>0, Zenon DEF Pending
<1>3. CASE Misses(d) \/ Fails(d)
  <2>1. UNCHANGED <<given, result>>
    BY <1>3, Zenon DEF Misses, Fails
  <2>2. UNCHANGED ready \/ EraseStream(d.tunnel, d.stream)
    BY <1>3, ZenonT(60) DEF Misses, Fails
  <2>3. ASSUME NEW x \in StreamIds PROVE OnePlace(x) => OnePlace(x)'
    <3>1. ReadyAt(x)' \subseteq ReadyAt(x)
      BY <1>1, <2>2 DEF ReadyAt, EraseStream, DialInv
    <3>2. Givens(x)' = Givens(x)
      BY <1>0, <2>1 DEF Givens
    <3>3. asked[x] \in Nat /\ asked'[x] = asked[x]
      BY <1>0, Zenon
    <3> QED
      BY <1>2, <3>1, <3>2, <3>3, FewerPlaces, NoNewPlace
  <2> QED
    BY <1>0, <2>1, <2>3, GivenStays, ZenonT(60)
<1>4. ASSUME ~ StaleDial(d), NEW b,
             \A x \in StreamIds :
               Places(x)' \subseteq (Places(x) \ {<<"dialled", d>>}) \cup (IF x = d.stream THEN {b} ELSE {})
      PROVE  \A x \in StreamIds : OnePlace(x) => OnePlace(x)'
  <2>1. <<"dialled", d>> \in Places(d.stream)
    BY <1>4, Zenon DEF Places, Pending, StaleDial
  <2>2. OnePlace(d.stream) => OnePlace(d.stream)'
    BY <1>0, <1>1, <1>4, <2>1, PlaceMoves, ZenonT(60)
  <2>3. ASSUME NEW x \in StreamIds, x # d.stream PROVE OnePlace(x) => OnePlace(x)'
    BY <1>0, <1>4, <2>3, NoNewPlace
  <2> QED
    BY <2>2, <2>3, ZenonT(60)
<1>5. ASSUME NEW op \in AcceptOps, Hands(d, op) PROVE GivenInv'
  <2>1. /\ op = acceptOp[d.tunnel] /\ op # NoOp /\ EraseStream(d.tunnel, d.stream)
        /\ given' = [given EXCEPT ![op] = d] /\ ~ StaleDial(d)
        /\ \A p \in AcceptOps \ {op} : result'[p] = result[p]
    BY <1>5, Zenon DEF Hands, Held, Answers
  <2>2. op \in called /\ target[op] = d.tunnel
    BY <1>1, <2>1, ZenonT(60) DEF TunnelInv
  <2>3. ASSUME NEW x \in StreamIds
        PROVE  Places(x)' \subseteq (Places(x) \ {<<"dialled", d>>})
                                  \cup (IF x = d.stream THEN {<<"given", op>>} ELSE {})
    <3>1. ReadyAt(x)' \subseteq ReadyAt(x)
      BY <1>1, <2>1, ZenonT(60) DEF ReadyAt, EraseStream, DialInv
    <3>2. Givens(x)' \subseteq Givens(x) \cup (IF x = d.stream THEN {op} ELSE {})
      BY <1>0, <2>1, Zenon DEF Givens, DialInv
    <3> QED
      BY <1>2, <3>1, <3>2 DEF Places
  <2>4. \A x \in StreamIds : OnePlace(x) => OnePlace(x)'
    BY <1>4, <2>1, <2>3, ZenonT(60)
  <2>5. \A p \in AcceptOps :
          \/ given'[p] = given[p] /\ (result'[p] = "ok" => result[p] = "ok")
          \/ /\ given'[p] # NoOp /\ p \in called
             /\ given'[p].tunnel = target[p] /\ given'[p].gen <= generation
    BY <1>1, <2>1, <2>2, ZenonT(60) DEF DialInv
  <2> QED
    BY <1>0, <2>4, <2>5, GivenStays, ZenonT(60)
<1>6. CASE Readies(d)
  <2>1. /\ UNCHANGED <<given, result>> /\ ~ StaleDial(d)
        /\ ready' = IF config.async THEN [ready EXCEPT ![d.tunnel] = @ \cup {d.stream}] ELSE ready
    BY <1>6, ZenonT(60) DEF Readies, Held, Answers
  <2>2. ASSUME NEW x \in StreamIds
        PROVE  Places(x)' \subseteq (Places(x) \ {<<"dialled", d>>})
                                  \cup (IF x = d.stream THEN {<<"ready", d.tunnel>>} ELSE {})
    <3>1. ReadyAt(x)' \subseteq ReadyAt(x) \cup (IF x = d.stream THEN {d.tunnel} ELSE {})
      BY <1>1, <2>1, ZenonT(60) DEF ReadyAt, DialInv
    <3>2. Givens(x)' = Givens(x)
      BY <1>0, <2>1, ZenonT(60) DEF Givens
    <3> QED
      BY <1>2, <3>1, <3>2 DEF Places
  <2>3. \A x \in StreamIds : OnePlace(x) => OnePlace(x)'
    BY <1>4, <2>1, <2>2, ZenonT(60)
  <2> QED
    BY <1>0, <2>1, <2>3, GivenStays, ZenonT(60)
<1> QED
  BY <1>3, <1>5, <1>6, ZenonT(60)

LEMMA GivenNext == BaseInv /\ GivenInv /\ [Next]_vars => GivenInv'
<1> SUFFICES ASSUME BaseInv, ConnectInv, TunnelInv, FlightInv, DialInv, DialInv', GivenInv, StreamStep
             PROVE  GivenInv'
  BY StreamSteps, DialNext, ZenonT(60) DEF BaseInv
<1>0. ran \subseteq called /\ asked \in [StreamIds -> Nat]
  BY ZenonT(60) DEF ConnectInv, DialInv
<1>1. CASE NewSession
  <2>1. /\ UNCHANGED <<config, called, target, given, result, ready, dials>>
        /\ generation' = generation + 1 /\ tunnels = {}
        /\ \A s \in StreamIds : asked'[s] = 0
    BY <1>1, Zenon DEF NewSession
  <2>2. \A op \in AcceptOps : given[op] # NoOp => given[op].gen \in Nat /\ given[op].gen <= generation
    BY Zenon DEF DialInv, Dials, GivenInv
  <2>3. ASSUME NEW s \in StreamIds PROVE Places(s)' = {}
    <3>1. Pending(s)' = {}
      BY <2>1 DEF Pending, DialInv, Dials, FlightInv
    <3>2. Givens(s)' = {}
      BY <2>1, <2>2 DEF Givens, FlightInv
    <3>3. ReadyAt(s)' = {}
      BY <2>1, Zenon DEF ReadyAt, DialInv
    <3> QED
      BY <3>1, <3>2, <3>3, ZenonT(60) DEF Places
  <2> QED
    BY <2>1, <2>2, <2>3 DEF GivenInv, OnePlace, FlightInv
<1>2. ASSUME NEW T \in SUBSET TunnelIds, Closes(T) PROVE GivenInv'
  <2>1. /\ UNCHANGED <<config, called, target, generation, asked, given, dials>>
        /\ \A op \in AcceptOps : result'[op] = "ok" => result[op] = "ok"
        /\ ready' = [t \in TunnelIds |-> IF t \in T THEN {} ELSE ready[t]]
    BY <1>2, ZenonT(60) DEF Closes
  <2>2. ASSUME NEW s \in StreamIds PROVE OnePlace(s) => OnePlace(s)'
    <3>1. ReadyAt(s)' \subseteq ReadyAt(s)
      BY <2>1, Zenon DEF ReadyAt
    <3>2. Pending(s)' = Pending(s) /\ Givens(s)' = Givens(s)
      BY <2>1, Zenon DEF Pending, Givens
    <3>3. asked[s] \in Nat /\ asked'[s] = asked[s]
      BY <1>0, <2>1, ZenonT(60)
    <3>4. Places(s)' \subseteq Places(s)
      BY <3>1, <3>2, FewerPlaces, Zenon
    <3> QED
      BY <3>3, <3>4, NoNewPlace
  <2> QED
    BY <2>1, <2>2, GivenStays, ZenonT(60)
<1> QED
  BY <1>0, <1>1, <1>2, GivenQuiet, GivenAccepts, GivenRequests, GivenDialled, ZenonT(60) DEF StreamStep

-----------------------------------------------------------------------------
LEMMA BaseInvariant == Spec => [](BaseInv /\ OwnInv /\ WaitingInv)
<1>1. Init => BaseInv /\ OwnInv /\ WaitingInv
  <2> SUFFICES ASSUME Init PROVE BaseInv /\ OwnInv /\ WaitingInv
    OBVIOUS
  <2>1. ConnectInv /\ TunnelInv /\ DialInv
    BY ConnectInit, TunnelInit, DialInit, ZenonT(60)
  <2>2. FlightInv
    BY Zenon DEF Init, FlightInv
  <2>3. WaitingInv /\ AbandonInv
    BY Zenon DEF Init, WaitingInv, AbandonInv, AbandonedTunnelClosed
  <2> QED
    BY <2>1, <2>2, <2>3, ZenonT(60) DEF BaseInv, OwnInv
<1>2. BaseInv /\ OwnInv /\ WaitingInv /\ [Next]_vars => (BaseInv /\ OwnInv /\ WaitingInv)'
  <2> SUFFICES ASSUME BaseInv, OwnInv, WaitingInv, [Next]_vars
               PROVE  (BaseInv /\ OwnInv /\ WaitingInv)'
    BY Zenon
  <2>1. OwnInv' /\ WaitingInv' /\ FlightInv' /\ AbandonInv' /\ DialInv'
    BY OwnNext, WaitingNext, FlightNext, AbandonNext, DialNext DEF BaseInv
  <2> QED
    BY <2>1 DEF BaseInv, OwnInv
<1> QED
  BY <1>1, <1>2, PTL DEF Spec

(* No stream waits for nothing (on_connect_stream() and                    *)
(* async_accept_tunnel_internal()): an accept call never waits beside a    *)
(* connected stream, every other stream is being dialled in this session,  *)
(* and an accept call that is busy has a dial in flight that frees it.     *)
THEOREM NoStreamIsStuck == Spec => []NoStreamStuck
<1>1. BaseInv /\ NoStreamStuck /\ [Next]_vars => NoStreamStuck'
  BY LostNext, BusyNext, Zenon DEF NoStreamStuck
<1> QED
  BY <1>1, StuckInit, BaseInvariant, PTL DEF Spec

(* Streams are accounted for (on_proxy_request(), on_connect_stream()):    *)
(* m_max_ongoing_streams is respected, and with streams dialled ahead of   *)
(* the accept calls the engine gets at most one response per request, and  *)
(* no two accept calls of a session are given one stream unless the engine *)
(* asked for it twice.                                                     *)
THEOREM StreamsAreAccounted == Spec => []StreamsAccounted
<1>1. BaseInv /\ CountInv /\ GivenInv => StreamsAccounted
  <2> SUFFICES ASSUME DialInv, CountInv, GivenInv, config.async
               PROVE  RepliesBounded /\ GivenOnce
    BY Zenon DEF BaseInv, CountInv, StreamsAccounted
  <2>1. ASSUME NEW s \in StreamIds PROVE replies[s] <= asked[s]
    <3>1. /\ replies[s] + Cardinality(Pending(s)) <= asked[s] /\ Cardinality(Pending(s)) \in Nat
      BY PendingCount, Zenon DEF CountInv
    <3>2. replies[s] \in Nat /\ asked[s] \in Nat
      BY ZenonT(60) DEF DialInv
    <3> QED
      BY <3>1, <3>2
  <2>2. ASSUME NEW op \in AcceptOps, NEW other \in AcceptOps \ {op},
               given[op] # NoOp, given[other] # NoOp,
               given[other].stream = given[op].stream,
               given[op].gen = generation, given[other].gen = generation
        PROVE  asked[given[op].stream] > 1
    <3> DEFINE s == given[op].stream
    <3>1. s \in StreamIds /\ asked[s] \in Nat
      BY <2>2, Zenon DEF DialInv, Dials
    <3>2. op \in Givens(s) /\ other \in Givens(s)
      BY <2>2, ZenonT(60) DEF Givens
    <3>3. <<"given", op>> \in Places(s) /\ <<"given", other>> \in Places(s)
      BY <3>2 DEF Places
    <3>4. <<"given", op>> # <<"given", other>>
      BY Zenon
    <3>5. OnePlace(s)
      BY <3>1, ZenonT(60) DEF GivenInv
    <3> QED
      BY <3>1, <3>3, <3>4, <3>5 DEF OnePlace
  <2>3. GivenOnce
    BY <2>2 DEF GivenOnce, GivenInv
  <2> QED
    BY <2>1, <2>3, ZenonT(60) DEF RepliesBounded
<1> QED
  BY <1>1, CountInit, CountNext, GivenInit, GivenNext, BaseInvariant, PTL DEF Spec
=============================================================================
