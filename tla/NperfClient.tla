----------------------------- MODULE NperfClient -----------------------------
(***************************************************************************)
(* One measurement of rstream-nperf-client (client::impl::base of          *)
(* bin/nperf/lib/cpp/rstream/nperf/client.cpp) and its sessions.  The base *)
(* and every session have a strand each: calls to a session wait in its    *)
(* mail, its callbacks and completions wait in out.  The server is seen    *)
(* through the outcomes of the operations.                                 *)
(***************************************************************************)
EXTENDS Integers, Sequences, FiniteSets

CONSTANTS
  Sessions,      \* 1..n, the ids of the sessions (m_sessions of the settings)
  NperfSetups,   \* the settings: [websocket : BOOLEAN, kind : {"ping", "download", "upload"}]
  MaxSamples,    \* m_max_ping / m_max_data_bytes, in samples
  MaxRounds,     \* bound on the samples one session takes
  UndefinedLoop  \* what the loop of do_close does after its map was cleared: {"ends", "dies"} or less

VARIABLES
  base,       \* client::impl::base
  peer,       \* its sessions
  setup       \* the settings of the run

nperfVars == <<base, peer, setup>>

NewSession ==
  [state |-> "null", mail |-> <<>>, out |-> <<>>, io |-> {}, open |-> FALSE, run |-> FALSE,
   active |-> FALSE, busy |-> FALSE, error |-> "none", rounds |-> 0]

Init ==
  /\ base = [state |-> "null", handler |-> "idle", asked |-> FALSE, resolving |-> FALSE,
             timer |-> "off", error |-> "none", result |-> "none", crashed |-> FALSE,
             view |-> [i \in {} |-> "null"], opened |-> 0, samples |-> 0, finals |-> 0]
  /\ peer = [i \in Sessions |-> NewSession]
  /\ setup \in NperfSetups

First(e, f) == IF e # "none" THEN e ELSE f

---------------------------------------------------------------------------
(* The session (client.cpp, class session).  p is its record. *)

(* on_close, on_error: the socket is closed, the handlers held are completed *)
SessionOnClose(p, error) ==
  IF p.state \in {"null", "closed"} THEN p
  ELSE LET own == IF p.error = "none" /\ error = "none" /\ p.state # "closing"
                  THEN "unexpected_close" ELSE p.error
           done(kind, held) == IF held THEN <<[kind |-> kind, error |-> First(own, error)]>> ELSE <<>> IN
       [p EXCEPT !.state = "closed", !.error = own, !.io = {}, !.open = FALSE, !.run = FALSE,
                 !.out = @ \o done("open", p.open) \o done("run", p.run)]

(* do_close: a plain session with a ping under way waits for its answer *)
SessionDoClose(p, error) ==
  LET q == [p EXCEPT !.state = "closing", !.error = First(@, error)] IN
  IF setup.websocket THEN [q EXCEPT !.io = @ \cup {"close"}]
  ELSE IF setup.kind = "ping" /\ p.active THEN q
  ELSE SessionOnClose(q, "none")

(* cancel_internal *)
SessionCancel(p, error) ==
  IF p.state \in {"opened", "running"} THEN SessionDoClose(p, error) ELSE SessionOnClose(p, error)

(* do_read_write(send_ping) *)
SendPing(p) ==
  IF p.active \/ p.busy \/ p.state # "running" THEN p
  ELSE [p EXCEPT !.active = TRUE, !.busy = TRUE, !.io = @ \cup {"ping"}]

(* async_run_internal, run_loop, ping_loop, download_loop, upload_loop *)
SessionRun(p) ==
  IF p.state # "opened" THEN [p EXCEPT !.out = Append(@, [kind |-> "run", error |-> "invalid_state"])]
  ELSE LET q == [p EXCEPT !.state = "running", !.run = TRUE] IN
       CASE setup.kind = "ping" -> LET r == SendPing(q) IN
                                   IF setup.websocket THEN [r EXCEPT !.io = @ \cup {"read"}] ELSE r
         [] setup.kind = "download" -> [q EXCEPT !.io = {"read"}]
         [] setup.kind = "upload" -> [q EXCEPT !.io = {"write", "read"}]

(* on_open of the session *)
SessionOnOpen(p) ==
  [p EXCEPT !.state = "opened", !.open = FALSE,
            !.out = @ \o <<[kind |-> "handshake", error |-> "none"], [kind |-> "open", error |-> "none"]>>]

(* The calls of the base: async_open, async_run, cancel. *)
SessionMail(i) ==
  LET p == [peer[i] EXCEPT !.mail = Tail(@)]
      m == Head(peer[i].mail) IN
  /\ peer[i].mail # <<>>
  /\ peer' = [peer EXCEPT ![i] =
       CASE m.kind = "open" -> [p EXCEPT !.state = "opening", !.open = TRUE, !.io = {"connect"}]
         [] m.kind = "run" -> SessionRun(p)
         [] m.kind = "cancel" -> SessionCancel(p, m.error)]
  /\ UNCHANGED <<base, setup>>

Done(i, op) == [peer[i] EXCEPT !.io = @ \ {op}]

SessionStep(i, outcomes) ==
  \E p \in outcomes : peer' = [peer EXCEPT ![i] = p] /\ UNCHANGED <<base, setup>>

(* on_connect, do_handshake_websocket, do_handshake_protobuf *)
SessionOnConnect(i) ==
  LET p == Done(i, "connect") IN
  /\ "connect" \in peer[i].io
  /\ SessionStep(i, {SessionOnClose(p, "error"),
                     [p EXCEPT !.io = IF setup.websocket THEN {"handshake"} ELSE {"send", "recv"}]})

(* on_handshake, and on_read_incoming_protobuf_message while opening *)
SessionOnHandshake(i) ==
  \E op \in peer[i].io \cap {"handshake", "recv"} :
     /\ peer[i].state = "opening"
     /\ SessionStep(i, {SessionOnClose(Done(i, op), "error"), SessionOnOpen(Done(i, op))})

(* on_send_protobuf_message of the Open message *)
SessionOnSend(i) ==
  /\ "send" \in peer[i].io
  /\ SessionStep(i, {SessionOnClose(Done(i, "send"), "error"), Done(i, "send")})

(* on_read_write after a ping, on_send_protobuf_message of a ping: a plain session
   reads the answer now *)
SessionOnPing(i) ==
  LET p == [Done(i, "ping") EXCEPT !.busy = FALSE] IN
  /\ "ping" \in peer[i].io
  /\ SessionStep(i,
       IF setup.websocket /\ peer[i].state # "running" THEN {Done(i, "ping")}
       ELSE {SessionOnClose(p, "error"),
             IF setup.websocket THEN (IF p.active THEN p ELSE SendPing(p))
             ELSE [p EXCEPT !.io = @ \cup {"recv"}]})

(* on_pong, called from the control callback or from
   on_read_incoming_protobuf_message: the answer to the ping under way *)
OnPong(p) ==
  LET q == [p EXCEPT !.active = FALSE, !.rounds = @ + 1,
                     !.out = Append(@, [kind |-> "sample", error |-> "none"])] IN
  IF p.state = "closing" THEN SessionOnClose(q, "none")
  ELSE IF ~q.busy THEN SendPing(q) ELSE q

SessionOnPong(i) ==
  LET p == peer[i] IN
  /\ p.active /\ p.rounds < MaxRounds /\ setup.kind = "ping"
  /\ \/ setup.websocket /\ "read" \in p.io /\ p.state = "running" /\ SessionStep(i, {OnPong(p)})
     \/ ~setup.websocket /\ "recv" \in p.io
        /\ SessionStep(i, {OnPong(Done(i, "recv")), SessionOnClose(Done(i, "recv"), "error")})

(* on_read_write after a read or a write; read_dummy carries no sample *)
SessionOnTransfer(i, op) ==
  LET p == peer[i]
      data == op = (IF setup.kind = "download" THEN "read" ELSE "write") IN
  /\ op \in p.io
  /\ \/ p.state # "running" /\ SessionStep(i, {Done(i, op)})
     \/ p.state = "running" /\ SessionStep(i, {SessionOnClose(Done(i, op), e) : e \in {"none", "error"}})
     \/ /\ p.state = "running" /\ data /\ setup.kind # "ping" /\ p.rounds < MaxRounds
        /\ SessionStep(i, {[p EXCEPT !.rounds = @ + 1,
                                     !.out = Append(@, [kind |-> "sample", error |-> "none"])]})

(* The WebSocket close handshake ends. *)
SessionOnCloseDone(i) ==
  /\ "close" \in peer[i].io
  /\ SessionStep(i, {SessionOnClose(Done(i, "close"), e) : e \in {"none", "error"}})

---------------------------------------------------------------------------
(* The base.  An operator takes the pair [b |-> base, p |-> peer]. *)

Cancelled(p, ids, error) ==
  [i \in Sessions |-> IF i \in ids THEN [p[i] EXCEPT !.mail = Append(@, [kind |-> "cancel", error |-> error])]
                      ELSE p[i]]

(* on_close: the final metrics go out only with a success *)
BaseOnClose(s, error) ==
  IF s.b.state \in {"null", "disconnected"} THEN s
  ELSE LET cause == First(s.b.error, error) IN
       [b |-> [s.b EXCEPT !.state = "disconnected", !.handler = "done", !.result = cause,
                          !.timer = "off", !.resolving = FALSE, !.view = [i \in {} |-> "null"],
                          !.finals = IF cause = "none" THEN @ + 1 ELSE @],
        p |-> Cancelled(s.p, {i \in DOMAIN s.b.view : s.b.view[i] # "closed"}, "none")]

(* do_close: the sessions are cancelled; those that opened and do not run yet are
   closed in the table at once.  When that closes the last one, on_close clears
   the table under the loop that walks it: what the loop does next is undefined,
   and it ends or the program dies. *)
BaseDoClose(s, error) ==
  IF DOMAIN s.b.view = {} THEN {BaseOnClose(s, error)}
  ELSE LET ids == DOMAIN s.b.view
           v == [i \in ids |-> IF s.b.view[i] = "opened" THEN "closed" ELSE s.b.view[i]]
           t == [b |-> [s.b EXCEPT !.state = "disconnecting", !.error = First(@, error),
                                   !.timer = "close", !.view = v],
                 p |-> Cancelled(s.p, ids, error)] IN
       IF v # s.b.view /\ \A i \in ids : v[i] = "closed"
       THEN {[BaseOnClose(t, "none") EXCEPT !.b.crashed = u = "dies",
                                            !.b.handler = IF u = "dies" THEN "running" ELSE @] :
                u \in UndefinedLoop}
       ELSE {t}

(* cancel_internal *)
BaseCancel(s, error) ==
  IF s.b.state \in {"connecting", "connected"} THEN BaseDoClose(s, error)
  ELSE {BaseOnClose(s, error)}

(* Mutant: the connection ends up connected when any session has opened. *)
MutSetSessionState(s, i, state, error) ==
  IF s.b.state \in {"null", "disconnected"} THEN {s}
  ELSE LET t == [s EXCEPT !.b.view[i] = state]
           all(x) == \A j \in DOMAIN t.b.view : t.b.view[j] = x IN
       IF all("closed") THEN {BaseOnClose(t, error)}
       ELSE IF t.b.state \in {"connecting", "connected"} /\ state = "closed" THEN BaseCancel(t, error)
       ELSE IF t.b.state = "connecting" /\ state = "opened"
       THEN {[b |-> [t.b EXCEPT !.state = "connected", !.timer = "max_time",
                                !.view = [j \in DOMAIN @ |-> "running"]],
              p |-> [j \in Sessions |-> [t.p[j] EXCEPT !.mail = Append(@, [kind |-> "run", error |-> "none"])]]]}
       ELSE {t}

(* set_session_state, with on_open and do_run when the last session has opened *)
SetSessionState(s, i, state, error) ==
  IF s.b.state \in {"null", "disconnected"} THEN {s}
  ELSE LET t == [s EXCEPT !.b.view[i] = state]
           all(x) == \A j \in DOMAIN t.b.view : t.b.view[j] = x IN
       IF all("closed") THEN {BaseOnClose(t, error)}
       ELSE IF t.b.state \in {"connecting", "connected"} /\ state = "closed" THEN BaseCancel(t, error)
       ELSE IF t.b.state = "connecting" /\ all("opened")
       THEN {[b |-> [t.b EXCEPT !.state = "connected", !.timer = "max_time",
                                !.view = [j \in DOMAIN @ |-> "running"]],
              p |-> [j \in Sessions |-> [t.p[j] EXCEPT !.mail = Append(@, [kind |-> "run", error |-> "none"])]]]}
       ELSE {t}

Alive == ~base.crashed

BaseStep(outcomes) ==
  Alive /\ \E s \in outcomes : base' = s.b /\ peer' = s.p /\ UNCHANGED setup

Now == [b |-> base, p |-> peer]

(* async_run_internal, do_resolve_host *)
AsyncRun ==
  /\ base.state = "null"
  /\ BaseStep({[Now EXCEPT !.b.state = "connecting", !.b.handler = "running", !.b.timer = "open",
                           !.b.resolving = TRUE]})

(* cancel *)
Cancel ==
  /\ base.handler = "running" /\ ~base.asked
  /\ BaseStep(BaseCancel([Now EXCEPT !.b.asked = TRUE], "aborted"))

(* arm_state_timer: the measurement time is up without an error *)
OnTimer ==
  /\ base.timer # "off"
  /\ BaseStep(BaseCancel(Now, IF base.timer = "open" THEN "timeout" ELSE "none"))

(* on_do_resolve_host, do_open *)
OnResolve ==
  /\ base.resolving /\ base.state = "connecting"
  /\ BaseStep({BaseOnClose(Now, "error"),
               [b |-> [base EXCEPT !.resolving = FALSE, !.view = [i \in Sessions |-> "opening"]],
                p |-> [i \in Sessions |-> [peer[i] EXCEPT !.mail = <<[kind |-> "open", error |-> "none"]>>]]]})

(* on_open, on_run, on_connection_handshake_us_cb, on_ping_us, on_bytes_transferred *)
OnSession(i) ==
  LET m == Head(peer[i].out)
      s == [Now EXCEPT !.p[i].out = Tail(@)] IN
  /\ peer[i].out # <<>>
  /\ BaseStep(
       CASE m.kind = "open" ->
              IF base.state \notin {"connecting", "disconnecting"} THEN {s}
              ELSE SetSessionState(s, i, IF m.error # "none" \/ base.state = "disconnecting"
                                         THEN "closed" ELSE "opened", m.error)
         [] m.kind = "run" ->
              IF base.state \notin {"connected", "disconnecting"} THEN {s}
              ELSE SetSessionState(s, i, "closed", m.error)
         [] m.kind = "handshake" ->
              {IF base.state # "connecting" THEN s ELSE [s EXCEPT !.b.opened = @ + 1]}
         [] m.kind = "sample" ->
              IF base.state # "connected" THEN {s}
              ELSE LET t == [s EXCEPT !.b.samples = @ + 1] IN
                   IF t.b.samples >= MaxSamples THEN BaseCancel(t, "none") ELSE {t})

SessionSteps(i) ==
  /\ Alive
  /\ \/ SessionMail(i) \/ SessionOnConnect(i) \/ SessionOnHandshake(i) \/ SessionOnSend(i)
     \/ SessionOnPing(i) \/ SessionOnPong(i) \/ SessionOnCloseDone(i)
     \/ \E op \in {"read", "write"} : SessionOnTransfer(i, op)

Next ==
  \/ AsyncRun \/ Cancel \/ OnTimer \/ OnResolve
  \/ \E i \in Sessions : OnSession(i) \/ SessionSteps(i)

(* The timers expire, the strands run what is posted to them, and a WebSocket
   close ends (Beast bounds it). *)
Progress ==
  \/ OnTimer
  \/ \E i \in Sessions : OnSession(i) \/ (Alive /\ (SessionMail(i) \/ SessionOnCloseDone(i)))

Spec == Init /\ [][Next]_nperfVars /\ WF_nperfVars(Progress)

---------------------------------------------------------------------------
(* A measurement that reports success took a handshake sample from every session
   and printed its final metrics once; one that failed or was cancelled printed
   none. *)
ResultSound ==
  /\ base.finals <= 1
  /\ base.handler = "done" => (base.result = "none" <=> base.finals = 1)
  /\ base.state \in {"connected"} \/ base.finals = 1 => base.opened = Cardinality(Sessions)
  /\ base.handler = "done" /\ base.asked => base.result # "none"

(* Once the measurement is over, every session closes its socket. *)
Unended == {i \in Sessions : base.handler = "done" /\ peer[i].state \notin {"null", "closed"}}

(* A measurement of several sessions of which one cannot connect fails with an
   error, and the client goes on to retry it. *)
FailureIsReported == ~base.crashed
=============================================================================
