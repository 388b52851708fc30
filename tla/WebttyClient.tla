---------------------------- MODULE WebttyClient ----------------------------
(***************************************************************************)
(* The WebTTY client (bin/webtty/lib/rstream/webtty/client.cpp): it        *)
(* resolves, connects, opens a session, relays the terminal, reports the   *)
(* return code of the remote command, and can be asked to terminate it.    *)
(* All handlers run on the client's strand.  As in WebttySession a method  *)
(* of the code is an operator on the client's state.  The other side is    *)
(* the server of the same repository: it acknowledges an Open it received, *)
(* then sends data and at last Close or an error, or it disappears.        *)
(***************************************************************************)
EXTENDS Naturals, Sequences

CONSTANTS
  CliSetups,     \* records [websocket, tty, interactive, crypto, expected, endpoint, hello]
  TermOps,       \* the calls of request_termination
  MaxCancels,    \* bound on the calls of cancel
  MaxInput,      \* bound on the reads of the terminal and on its size changes
  MaxFrames,     \* bound on the data and heartbeat frames of the server
  NoOp           \* no termination

VARIABLES
  cli,       \* the client
  ops,       \* the termination operations
  cliSetup,  \* the configuration
  server     \* the other side: [phase, frames]

clientVars == <<cli, ops, cliSetup, server>>

Init ==
  /\ cliSetup \in CliSetups
  /\ server = [phase |-> "new", frames |-> 0, input |-> 0]
  /\ ops = [o \in TermOps |-> [phase |-> "idle", cancelled |-> FALSE, signalled |-> FALSE,
                               cause |-> "none", timer |-> FALSE, result |-> "none"]]
  /\ cli = [state |-> "null", handler |-> "idle", asked |-> 0, cause |-> "none",
            error |-> "none",       \* m_error_code
            code |-> FALSE,         \* m_remote_return_code is set
            timer |-> FALSE, heartbeat |-> FALSE,
            io |-> "none",          \* the connection step in progress
            reading |-> FALSE, stdin |-> FALSE, size |-> "off", output |-> FALSE,
            queue |-> <<>>, pending |-> 0, draining |-> FALSE,
            hello |-> FALSE, opened |-> FALSE, closes |-> 0,
            canTerminate |-> FALSE, terminationSent |-> FALSE, termination |-> NoOp,
            raw |-> FALSE, resources |-> "open"]

Over(c) == c.state \in {"null", "disconnected"}

---------------------------------------------------------------------------
(* The methods.  One that can complete a termination maps a pair of the
   client's state and the operations to such a pair. *)

SetState(c, state) == [c EXCEPT !.state = state, !.timer = FALSE, !.heartbeat = FALSE]

(* complete_termination *)
CompleteTermination(p, o, result) ==
  IF p.ops[o].phase = "done" THEN p
  ELSE [cli |-> [p.cli EXCEPT !.termination = IF @ = o THEN NoOp ELSE @],
        ops |-> [p.ops EXCEPT ![o].phase = "done", ![o].timer = FALSE,
                           ![o].cancelled = FALSE, ![o].signalled = FALSE, ![o].result = result]]

OnClose(p, cause) ==
  IF Over(p.cli) THEN p
  ELSE LET c == [SetState(p.cli, "disconnected") EXCEPT
                   !.raw = IF p.cli.state \in {"connected", "disconnecting"} THEN FALSE ELSE @,
                   !.cause = IF cause # "none" /\ p.cli.error # "none" THEN p.cli.error ELSE cause,
                   !.draining = TRUE]
           o == c.termination
       IN IF o # NoOp /\ p.ops[o].phase # "writing"
          THEN CompleteTermination([p EXCEPT !.cli = c], o,
                                   IF c.cause # "none" THEN c.cause ELSE "aborted")
          ELSE [p EXCEPT !.cli = c]

(* do_send_message *)
SendMessage(c, kind, loop) ==
  IF Over(c) THEN c
  ELSE [c EXCEPT !.pending = @ + 1, !.queue = Append(@, [kind |-> kind, loop |-> loop, op |-> NoOp])]

DoRead(c) == IF Over(c) THEN c ELSE [c EXCEPT !.reading = TRUE]

DoReadStdIn(c) == IF c.state = "connected" THEN [c EXCEPT !.stdin = TRUE] ELSE c

DoWaitForTerminalSize(c) == IF c.state = "connected" THEN [c EXCEPT !.size = "wait"] ELSE c

DoSendHeartbeat(c) == IF c.state = "connected" THEN [c EXCEPT !.heartbeat = TRUE] ELSE c

(* do_open, do_send_open: the configuration is checked, the server's hello is
   awaited when it must prove itself, then Open is sent *)
DoOpen(p, ok) ==
  IF p.cli.state # "connecting" THEN p
  ELSE IF cliSetup.crypto /\ ~(cliSetup.expected /\ cliSetup.endpoint) THEN OnClose(p, "error")
  ELSE IF cliSetup.expected /\ ~p.cli.hello THEN [p EXCEPT !.cli = DoRead(@)]
  ELSE IF ~ok THEN OnClose(p, "error")     \* no session key or no proof of the client
  ELSE [p EXCEPT !.cli = SendMessage(DoRead([@ EXCEPT !.opened = TRUE]), "open", "null")]

SendTermination(p, o) ==
  IF p.ops[o].cancelled THEN CompleteTermination(p, o, "aborted")
  ELSE IF ~p.cli.canTerminate THEN CompleteTermination(p, o, "unsupported")
  ELSE [cli |-> [p.cli EXCEPT !.pending = @ + 1,
                   !.queue = Append(@, [kind |-> "terminate", loop |-> "null", op |-> o])],
        ops |-> [p.ops EXCEPT ![o].phase = "writing"]]

(* run_loop, after set_raw *)
RunLoop(p, raw, size) ==
  LET input == IF ~cliSetup.interactive THEN p
               ELSE IF cliSetup.tty /\ ~raw THEN OnClose(p, "error")
               ELSE [p EXCEPT !.cli = DoReadStdIn([@ EXCEPT !.raw = cliSetup.tty])]
      term == IF ~cliSetup.tty \/ input.cli.state # "connected" THEN input
              ELSE IF ~size THEN OnClose(input, "error")
              ELSE [input EXCEPT !.cli = SendMessage(@, "size", "size")]
  IN [term EXCEPT !.cli = DoSendHeartbeat(DoRead(@))]

OnOpen(p, raw, size) ==
  IF p.cli.state # "connecting" THEN p
  ELSE LET c == [p EXCEPT !.cli = SetState(@, "connected")]
           o == c.cli.termination
       IN RunLoop(IF o = NoOp THEN c ELSE SendTermination(c, o), raw, size)

(* do_close: an error frame announces the end, the close timer bounds it *)
DoClose(p, cause) ==
  IF p.cli.state # "connected" THEN p
  ELSE [p EXCEPT !.cli = SendMessage([SetState(@, "disconnecting") EXCEPT
                                        !.error = cause, !.timer = TRUE], "error", "null")]

CancelInternal(p) ==
  CASE Over(p.cli) -> p
    [] p.cli.state = "connected" -> DoClose(p, "aborted")
    [] p.cli.state \in {"connecting", "disconnecting"} -> OnClose(p, "aborted")

FinishCmdIfIdle(p) ==
  IF p.cli.state # "disconnecting" \/ ~p.cli.code \/ p.cli.pending # 0 THEN p
  ELSE IF cliSetup.websocket
       THEN [p EXCEPT !.cli.io = "ws_close", !.cli.closes = @ + 1]
       ELSE OnClose(p, "none")

OnCmdComplete(p) ==
  IF p.cli.state \notin {"connected", "disconnecting"} \/ p.cli.code THEN p
  ELSE LET c == IF p.cli.state = "connected"
                THEN [SetState(p.cli, "disconnecting") EXCEPT !.timer = TRUE] ELSE p.cli
       IN FinishCmdIfIdle([p EXCEPT !.cli = [c EXCEPT !.code = TRUE]])

BeginTermination(p, o) ==
  LET started == [p EXCEPT !.ops[o].phase = "started"] IN
  CASE p.ops[o].phase = "done" -> p
    [] p.ops[o].cancelled -> CompleteTermination(started, o, "aborted")
    [] p.cli.terminationSent \/ p.cli.code -> CompleteTermination(started, o, "ok")
    [] p.cli.state \notin {"connecting", "connected"} ->
         CompleteTermination(started, o, "invalid_state")
    [] p.cli.termination # NoOp -> CompleteTermination(started, o, "in_progress")
    [] OTHER -> LET q == [started EXCEPT !.cli.termination = o, !.ops[o].timer = TRUE]
                IN IF p.cli.state = "connected" THEN SendTermination(q, o) ELSE q

(* cancel_termination: a Terminate that is being written takes the session
   with it, since the stream is left in the middle of a frame *)
CancelTermination(p, o, cause) ==
  CASE p.ops[o].phase \in {"idle", "posted", "done"} -> p
    [] p.ops[o].phase = "started" -> CompleteTermination(p, o, cause)
    [] p.ops[o].phase = "writing" ->
         IF p.ops[o].cause # "none" THEN p
         ELSE OnClose([p EXCEPT !.ops[o].cause = cause], cause)

Here == [cli |-> cli, ops |-> ops]

Becomes(p) == cli' = p.cli /\ ops' = p.ops

---------------------------------------------------------------------------
(* The calls of the application. *)

AsyncRun ==
  /\ cli.state = "null"
  /\ cli' = [SetState(cli, "connecting") EXCEPT !.handler = "running", !.timer = TRUE, !.io = "resolve"]
  /\ UNCHANGED <<ops, cliSetup, server>>

(* A second cancel forces what the first one asked for. *)
Cancel ==
  /\ cli.handler = "running" /\ cli.asked < MaxCancels
  /\ Becomes(CancelInternal([Here EXCEPT !.cli.asked = @ + 1]))
  /\ UNCHANGED <<cliSetup, server>>

RequestTermination(o) ==
  /\ ops[o].phase = "idle"
  /\ ops' = [ops EXCEPT ![o].phase = "posted"]
  /\ UNCHANGED <<cli, cliSetup, server>>

Begin(o) ==
  /\ ops[o].phase = "posted"
  /\ Becomes(BeginTermination(Here, o))
  /\ UNCHANGED <<cliSetup, server>>

(* The caller emits its cancellation slot: m_cancelled is set where it is
   called, cancel_termination runs on the strand. *)
SignalTermination(o) ==
  /\ ops[o].phase \notin {"idle", "done"} /\ ~ops[o].cancelled
  /\ ops' = [ops EXCEPT ![o].cancelled = TRUE, ![o].signalled = TRUE]
  /\ UNCHANGED <<cli, cliSetup, server>>

OnSignalTermination(o) ==
  /\ ops[o].signalled
  /\ Becomes(CancelTermination([Here EXCEPT !.ops[o].signalled = FALSE], o, "aborted"))
  /\ UNCHANGED <<cliSetup, server>>

OnTerminationTimer(o) ==
  /\ ops[o].timer
  /\ Becomes(CancelTermination([Here EXCEPT !.ops[o].timer = FALSE], o, "timeout"))
  /\ UNCHANGED <<cliSetup, server>>

---------------------------------------------------------------------------
(* The connection. *)

(* on_do_resolve_host, on_connect, on_handshake_websocket *)
OnConnectStep ==
  /\ cli.io \in {"resolve", "connect", "ws_handshake"}
  /\ LET p == [Here EXCEPT !.cli.io = "none"]
         to(step) == [p EXCEPT !.cli.io = step] IN
     IF cli.state # "connecting" THEN Becomes(p)
     ELSE \/ Becomes(OnClose(p, "error"))
          \/ cli.io = "resolve" /\ Becomes(to("connect"))
          \/ cli.io = "connect" /\ cliSetup.websocket /\ Becomes(to("ws_handshake"))
          \/ /\ (cli.io = "connect" /\ ~cliSetup.websocket) \/ cli.io = "ws_handshake"
             /\ \E ok \in BOOLEAN : Becomes(DoOpen(p, ok))
  /\ UNCHANGED <<cliSetup, server>>

OnCloseWebsocket ==
  /\ cli.io = "ws_close"
  /\ Becomes(OnClose([Here EXCEPT !.cli.io = "none"], "none"))
  /\ UNCHANGED <<cliSetup, server>>

(* on_send_message; for Terminate the handler of send_termination before it.
   The frames of a cancelled queue fail. *)
OnSendMessage ==
  /\ cli.queue # <<>>
  /\ \E failed \in BOOLEAN :
     /\ cli.draining => failed
     /\ LET frame == Head(cli.queue)
            o == frame.op
            cause == IF o # NoOp /\ ops[o].cause # "none" THEN ops[o].cause
                     ELSE IF failed THEN "error" ELSE "none"
            popped == [Here EXCEPT !.cli.queue = Tail(@), !.cli.pending = @ - 1]
            p == IF o = NoOp THEN popped
                 ELSE CompleteTermination([popped EXCEPT !.cli.terminationSent = (cause = "none")], o,
                                          IF cause = "none" THEN "ok" ELSE cause)
        IN /\ CASE Over(p.cli) -> Becomes(p)
                [] cause # "none" -> Becomes(OnClose(p, cause))
                [] p.cli.code -> Becomes(FinishCmdIfIdle(p))
                [] frame.loop = "stdin" -> Becomes([p EXCEPT !.cli = DoReadStdIn(@)])
                [] frame.loop = "size" -> Becomes([p EXCEPT !.cli = DoWaitForTerminalSize(@)])
                [] frame.loop = "heartbeat" -> Becomes([p EXCEPT !.cli = DoSendHeartbeat(@)])
                [] OTHER -> Becomes(p)
           /\ server' = IF frame.kind = "open" /\ ~failed /\ server.phase # "gone"
                        THEN [server EXCEPT !.phase = "asked"] ELSE server
  /\ UNCHANGED cliSetup

(* on_read_incoming_message, for the frames the server sends in its phase *)
Process(p, frame, ok, raw, size) ==
  CASE frame = "hello" ->
         IF ~cliSetup.expected \/ ~ok THEN OnClose(p, "error")
         ELSE DoOpen([p EXCEPT !.cli.hello = TRUE], raw)
    [] frame = "ack" -> OnOpen([p EXCEPT !.cli.canTerminate = ok], raw, size)
    [] frame = "error" -> OnClose(p, "error")
    [] frame = "close" -> OnCmdComplete(p)
    [] frame = "eos" -> [p EXCEPT !.cli = DoRead(@)]
    [] frame = "data" -> IF ok THEN [p EXCEPT !.cli.output = TRUE] ELSE OnClose(p, "error")
    [] frame = "heartbeat" -> [p EXCEPT !.cli = DoRead(@)]

(* The frames of the server, with the phase that follows. *)
Frames ==
  CASE server.phase = "new" -> {<<"error", "gone">>} \cup
                               (IF cliSetup.hello THEN {<<"hello", "greeted">>} ELSE {})
    [] server.phase = "greeted" -> {<<"error", "gone">>}
    [] server.phase = "asked" -> {<<"ack", "open">>, <<"error", "gone">>}
    [] server.phase = "open" -> {<<"close", "gone">>, <<"error", "gone">>} \cup
                                (IF server.frames < MaxFrames
                                 THEN {"data", "eos", "heartbeat"} \X {"open"} ELSE {})
    [] server.phase = "gone" -> {}

OnReadIncomingData ==
  /\ cli.reading
  /\ LET p == [Here EXCEPT !.cli.reading = FALSE] IN
     \/ Becomes(OnClose(p, "error")) /\ server' = [server EXCEPT !.phase = "gone"]
     \/ /\ ~Over(cli)
        /\ \E f \in Frames, ok, raw, size \in BOOLEAN :
             /\ Becomes(Process(p, f[1], ok, raw, size))
             /\ server' = [server EXCEPT !.phase = f[2], !.frames = @ + (IF f[2] = "open" THEN 1 ELSE 0)]
  /\ UNCHANGED cliSetup

---------------------------------------------------------------------------
(* The terminal. *)

OnReadStdIn ==
  /\ cli.stdin
  /\ LET p == [Here EXCEPT !.cli.stdin = FALSE] IN
     IF cli.state # "connected" THEN Becomes(p) /\ UNCHANGED server
     ELSE \/ Becomes(OnClose(p, "error")) /\ UNCHANGED server
          \/ Becomes([p EXCEPT !.cli = SendMessage(@, "eos", "null")]) /\ UNCHANGED server
          \/ /\ server.input < MaxInput
             /\ server' = [server EXCEPT !.input = @ + 1]
             /\ Becomes([p EXCEPT !.cli = SendMessage(@, "data", "stdin")])
  /\ UNCHANGED cliSetup

(* on_terminal_size_signal: only a size that changed is sent *)
OnTerminalSize ==
  /\ cli.size = "wait"
  /\ LET p == [Here EXCEPT !.cli.size = "off"] IN
     IF cli.state # "connected" THEN Becomes(p) /\ UNCHANGED server
     ELSE \/ Becomes(OnClose(p, "error")) /\ UNCHANGED server
          \/ /\ server.input < MaxInput
             /\ server' = [server EXCEPT !.input = @ + 1]
             /\ Becomes([p EXCEPT !.cli = SendMessage(@, "size", "size")])
  /\ UNCHANGED cliSetup

OnProcessData ==
  /\ cli.output
  /\ LET p == [Here EXCEPT !.cli.output = FALSE] IN
     \/ Becomes([p EXCEPT !.cli = DoRead(@)])
     \/ Becomes(OnClose(p, "error"))
  /\ UNCHANGED <<cliSetup, server>>

---------------------------------------------------------------------------
(* The timers and the teardown. *)

OnStateTimer ==
  /\ cli.timer
  /\ Becomes(OnClose(Here, "timeout"))
  /\ UNCHANGED <<cliSetup, server>>

OnHeartbeat ==
  /\ cli.heartbeat
  /\ cli' = SendMessage([cli EXCEPT !.heartbeat = FALSE], "heartbeat", "heartbeat")
  /\ UNCHANGED <<ops, cliSetup, server>>

(* on_queue_cancelled: the queue confirms once every frame has its answer
   (SendQueue, CancelBarrier); the resources are closed and the run ends *)
OnQueueCancelled ==
  /\ cli.draining /\ cli.queue = <<>>
  /\ cli' = [cli EXCEPT !.draining = FALSE, !.resources = "closed", !.handler = "done"]
  /\ UNCHANGED <<ops, cliSetup, server>>

Terminations ==
  \E o \in TermOps : \/ RequestTermination(o) \/ Begin(o) \/ SignalTermination(o)
                     \/ OnSignalTermination(o) \/ OnTerminationTimer(o)

Next ==
  \/ AsyncRun \/ Cancel \/ Terminations
  \/ OnConnectStep \/ OnCloseWebsocket \/ OnSendMessage \/ OnReadIncomingData
  \/ OnReadStdIn \/ OnTerminalSize \/ OnProcessData
  \/ OnStateTimer \/ OnHeartbeat \/ OnQueueCancelled

(* Timers expire, posted handlers run, and the frames of a cancelled queue get
   their answer; the server and the terminal owe nothing. *)
Progress ==
  \/ OnStateTimer \/ OnQueueCancelled \/ (cli.draining /\ OnSendMessage)
  \/ \E o \in TermOps : Begin(o) \/ OnTerminationTimer(o)

Spec == Init /\ [][Next]_clientVars /\ WF_clientVars(Progress)

---------------------------------------------------------------------------
(* A client that completed leaves nothing behind: the terminal is out of raw
   mode, and no termination that had begun is without its answer. *)
NothingLeft ==
  cli.handler = "done" =>
    ~cli.raw /\ \A o \in TermOps : ops[o].phase \notin {"started", "writing"}

(* A termination reported as a success was written while the session was up,
   or the remote command had already returned; and the counter of queued
   frames on which the end of the client depends counts them (client.cpp:1427). *)
TerminationSound ==
  /\ \A o \in TermOps : ops[o].result = "ok" => cli.terminationSent \/ cli.code
  /\ cli.pending = Len(cli.queue)

(* The closing handshake of the WebSocket starts once, after every frame was
   written. *)
ClosesOnce == cli.closes <= 1 /\ (cli.io = "ws_close" /\ ~cli.draining => cli.queue = <<>>)

(* Every termination that was requested is answered. *)
Unended == {o \in TermOps : ops[o].phase \notin {"idle", "done"}}
=============================================================================
