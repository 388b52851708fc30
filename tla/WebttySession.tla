---------------------------- MODULE WebttySession ----------------------------
(***************************************************************************)
(* A session of the WebTTY server (bin/webtty/lib/rstream/webtty/          *)
(* server.cpp, class server::impl::session; detail/process.cpp): one       *)
(* connection, one child process, the frames between them.  All handlers   *)
(* run on the session's strand.  A method of the code is an operator from  *)
(* the session's state to its state, so that a handler is the composition  *)
(* of the methods it calls; an action picks what the peer, the child or a  *)
(* timer did.                                                              *)
(***************************************************************************)
EXTENDS Naturals, Sequences

CONSTANTS
  Setups,        \* the configurations: records [websocket, tty, crypto, identity, proof]
  MaxMessages,   \* bound on the messages of the peer
  MaxChunks,     \* bound on the output of the child, in chunks
  OpenTimeout, CloseTimeout, Heartbeats   \* which of m_timeouts_ms are not 0

VARIABLES
  ses,       \* the session
  setup,     \* its configuration
  peer       \* the other side: [gone, sent, chunks]

sessionVars == <<ses, setup, peer>>

Init ==
  /\ setup \in Setups
  /\ peer = [gone |-> FALSE, sent |-> 0, chunks |-> 0]
  /\ ses = [state |-> "null", handler |-> "idle", cause |-> "none", error |-> "none",
            cancelled |-> FALSE, timer |-> FALSE, heartbeat |-> "off",
            io |-> "none",            \* the HTTP or WebSocket operation in progress
            reading |-> FALSE,        \* m_read_in_progress
            queue |-> <<>>,           \* the frames not yet written: [kind, loop]
            draining |-> FALSE,       \* the queue's async_cancel is in progress
            active |-> {}, reads |-> {}, writing |-> FALSE,   \* the streams of the child
            child |-> "none", released |-> FALSE, done |-> FALSE, code |-> FALSE,
            signal |-> "none", exitTimer |-> "off", term |-> "off", termAsked |-> FALSE,
            encrypted |-> FALSE, final |-> "none", resources |-> "open"]

Over(s) == s.state \in {"null", "disconnected"}

---------------------------------------------------------------------------
(* The methods. *)

(* Every state change cancels the state timer and the heartbeat. *)
SetState(s, state) == [s EXCEPT !.state = state, !.timer = FALSE,
                                !.heartbeat = IF @ = "armed" THEN "off" ELSE @]

OnClose(s, cause) ==
  IF Over(s) THEN s
  ELSE [SetState(s, "disconnected") EXCEPT
          !.cause = IF s.error # "none" THEN s.error ELSE cause, !.draining = TRUE]

SendMessage(s, kind, loop) ==
  IF Over(s) THEN s ELSE [s EXCEPT !.queue = Append(@, [kind |-> kind, loop |-> loop])]

DoSendError(s) ==
  IF s.state \notin {"connecting", "connected"} THEN s
  ELSE SendMessage([SetState(s, "disconnecting") EXCEPT
                      !.term = "off", !.timer = CloseTimeout, !.final = "error",
                      !.error = IF @ = "none" THEN "error" ELSE @], "error", "exit")

DoSendClose(s) ==
  IF s.state # "connected" THEN s
  ELSE IF s.active = {}
       THEN SendMessage([SetState(s, "disconnecting") EXCEPT
                           !.term = "off", !.timer = CloseTimeout, !.final = "close"],
                        "close", "exit")
       ELSE [s EXCEPT !.code = TRUE]

DoRead(s) == IF Over(s) \/ s.reading THEN s ELSE [s EXCEPT !.reading = TRUE]

DoReadStdfd(s, stream) == IF Over(s) THEN s ELSE [s EXCEPT !.reads = @ \cup {stream}]

DoSendHeartbeat(s) ==
  IF Heartbeats /\ s.state = "connected" THEN [s EXCEPT !.heartbeat = "armed"] ELSE s

(* request_termination: a signal to the process group; none once the group is
   released *)
Signal(s, force) ==
  IF s.released THEN s
  ELSE [s EXCEPT !.signal = IF s.child = "reaped" THEN "stray"
                            ELSE IF force THEN "kill" ELSE IF @ = "none" THEN "soft" ELSE @]

(* recover_exit: waitid, the end of the group, the reaping.  "lost" is a child
   that was reaped elsewhere, "stuck" a group that cannot be signalled. *)
RecoverOutcomes == [none |-> {"running"}, running |-> {"running"},
                    zombie |-> {"exited", "lost", "stuck"}, reaped |-> {"lost"}]

Recovered(s, outcome) ==
  CASE outcome = "exited" -> [Signal(s, TRUE) EXCEPT !.child = "reaped", !.released = TRUE]
    [] outcome = "lost" -> [s EXCEPT !.child = "reaped", !.released = TRUE]
    [] OTHER -> s

ArmChildExitTimer(s) ==
  IF s.state # "connected" \/ s.done \/ s.child = "none" THEN s
  ELSE [s EXCEPT !.exitTimer = "watch"]

OnChildExit(s, failed) ==
  IF Over(s) \/ s.done THEN s
  ELSE IF failed THEN DoSendError([s EXCEPT !.exitTimer = "off"])
       ELSE DoSendClose([s EXCEPT !.exitTimer = "off", !.done = TRUE])

RecoverChildExit(s, outcome) ==
  IF s.state # "connected" \/ s.done \/ s.child = "none" THEN s
  ELSE LET t == Recovered(s, outcome) IN
       CASE outcome = "exited" -> OnChildExit(t, FALSE)
         [] outcome = "running" -> ArmChildExitTimer(t)
         [] OTHER -> OnChildExit(t, TRUE)

(* do_close: the child is asked to end; the close timer bounds the wait *)
DoClose(s, signalled) ==
  IF s.state # "connected" THEN s
  ELSE LET t == [s EXCEPT !.timer = @ \/ CloseTimeout] IN
       IF s.done THEN t ELSE IF signalled THEN Signal(t, FALSE) ELSE OnClose(t, "error")

CancelInternal(s, cause, signalled) ==
  IF Over(s) THEN s
  ELSE LET t == [s EXCEPT !.cancelled = TRUE, !.error = IF @ = "none" THEN cause ELSE @] IN
       IF s.state = "connected" THEN DoClose(t, signalled) ELSE OnClose(t, cause)

RequestTermination(s, signalled) ==
  IF s.state # "connected" \/ s.done \/ s.termAsked THEN s
  ELSE LET t == [s EXCEPT !.termAsked = TRUE] IN
       IF signalled THEN [Signal(t, FALSE) EXCEPT !.term = "soft"] ELSE DoSendError(t)

(* do_open: a server that decrypts must prove itself and ask for a proof *)
DoOpen(s) ==
  IF s.state # "connecting" THEN s
  ELSE IF setup.crypto /\ (~setup.identity \/ ~setup.proof) THEN OnClose(s, "error")
  ELSE DoRead(IF setup.identity THEN SendMessage(s, "hello", "null") ELSE s)

Streams == IF setup.tty THEN {"out"} ELSE {"out", "err"}

(* on_open: the child starts, or an error frame is sent *)
OnOpen(s, started) ==
  IF s.state # "connecting" THEN s
  ELSE IF ~started THEN DoSendError(s)
  ELSE LET t == SendMessage([SetState(s, "connected") EXCEPT !.child = "running"], "ack", "null")
       IN ArmChildExitTimer(DoSendHeartbeat(DoRead([t EXCEPT !.active = Streams, !.reads = Streams])))

---------------------------------------------------------------------------
(* The server. *)

AsyncRun ==
  /\ ses.state = "null"
  /\ LET s == [SetState(ses, "connecting") EXCEPT !.handler = "running", !.timer = OpenTimeout]
     IN ses' = IF setup.websocket THEN [s EXCEPT !.io = "http_read"] ELSE DoOpen(s)
  /\ UNCHANGED <<setup, peer>>

Cancel ==
  /\ ses.handler = "running" /\ ~ses.cancelled
  /\ \E signalled \in BOOLEAN : ses' = CancelInternal(ses, "aborted", signalled)
  /\ UNCHANGED <<setup, peer>>

---------------------------------------------------------------------------
(* The connection. *)

(* on_read_http_request, do_process_http_request: a WebSocket upgrade with the
   right token is accepted, anything else is answered and the session ends *)
OnReadHttpRequest ==
  /\ ses.io = "http_read"
  /\ LET s == [ses EXCEPT !.io = "none"] IN
     ses' \in {OnClose(s, "none"), OnClose(s, "error"), [s EXCEPT !.io = "http_write"],
               IF s.state = "connecting" THEN [s EXCEPT !.io = "ws_accept"] ELSE s}
  /\ UNCHANGED <<setup, peer>>

OnWriteHttpResponse ==
  /\ ses.io = "http_write"
  /\ \E cause \in {"none", "error"} : ses' = OnClose([ses EXCEPT !.io = "none"], cause)
  /\ UNCHANGED <<setup, peer>>

OnAcceptWebsocket ==
  /\ ses.io = "ws_accept"
  /\ LET s == [ses EXCEPT !.io = "none"] IN
     ses' \in IF s.state = "connecting" THEN {DoOpen(s), OnClose(s, "error")} ELSE {s}
  /\ UNCHANGED <<setup, peer>>

(* on_send_message, and what follows the frame *)
OnSendMessage ==
  /\ ses.queue # <<>> /\ ~Over(ses)
  /\ LET loop == Head(ses.queue).loop
         s == [ses EXCEPT !.queue = Tail(@)]
         sent == CASE loop = "out" -> DoReadStdfd(s, "out")
                   [] loop = "err" -> DoReadStdfd(s, "err")
                   [] loop = "heartbeat" -> DoSendHeartbeat(s)
                   [] loop = "exit" ->
                        (IF s.cancelled THEN OnClose([s EXCEPT !.final = "sent_" \o @], s.error)
                         ELSE IF setup.websocket
                         THEN [s EXCEPT !.io = "ws_close", !.final = "sent_" \o @]
                         ELSE DoRead([s EXCEPT !.final = "sent_" \o @]))
                   [] OTHER -> (IF s.state = "connected" /\ s.active = {} /\ s.code
                                THEN DoSendClose(s) ELSE s)
     IN \/ ses' = OnClose(s, "error")
        \/ ~peer.gone /\ ses' = sent
  /\ UNCHANGED <<setup, peer>>

OnCloseWebsocket ==
  /\ ses.io = "ws_close"
  /\ ses' = OnClose([ses EXCEPT !.io = "none"], "none")
  /\ UNCHANGED <<setup, peer>>

(* on_read_incoming_message, by the kind of the message *)
Process(s, message, ok) ==
  CASE message = "attach" -> DoSendError(s)
    [] message = "open" ->
         IF s.state # "connecting" THEN DoSendError(s)
         ELSE OnOpen([s EXCEPT !.encrypted = setup.crypto], ok)
    [] s.state # "connected" -> DoSendError(s)
    [] message = "error" -> CancelInternal(s, "error", ok)
    [] message = "terminate" -> DoRead(RequestTermination(s, ok))
    [] message = "stdin" -> IF ok THEN [s EXCEPT !.writing = TRUE] ELSE DoSendError(s)
    [] message = "eos" -> DoRead(s)
    [] message = "plain" -> IF s.encrypted THEN DoSendError(s) ELSE [s EXCEPT !.writing = TRUE]
    [] message = "size" -> IF setup.tty /\ ~ok THEN DoSendError(s) ELSE DoRead(s)
    [] message = "heartbeat" -> DoRead(s)

Messages == {"attach", "open", "error", "terminate", "stdin", "eos", "plain", "size", "heartbeat"}

(* on_read_incoming_data: while disconnecting, what arrives is ignored *)
OnReadIncomingData ==
  /\ ses.reading
  /\ LET s == [ses EXCEPT !.reading = FALSE] IN
     \/ /\ peer.gone \/ Over(s)       \* the end of the stream, or a closed socket
        /\ ses' = OnClose(s, IF s.state = "disconnecting" /\ s.final \in {"sent_close", "sent_error"}
                             THEN "none" ELSE "error")
        /\ UNCHANGED peer
     \/ /\ ~Over(s) /\ peer.sent < MaxMessages
        /\ peer' = [peer EXCEPT !.sent = @ + 1]
        /\ \/ s.state = "disconnecting" /\ ses' = DoRead(s)
           \/ s.state # "disconnecting" /\ ses' = OnClose(s, "error")   \* not a frame
           \/ /\ s.state # "disconnecting"
              /\ \E message \in Messages, ok \in BOOLEAN : ses' = Process(s, message, ok)
  /\ UNCHANGED setup

PeerGone ==
  /\ ~peer.gone /\ ses.handler = "running"
  /\ peer' = [peer EXCEPT !.gone = TRUE]
  /\ UNCHANGED <<ses, setup>>

---------------------------------------------------------------------------
(* The child and its streams. *)

(* on_read_stdfd: a chunk is sent before the next read; an end of stream is
   sent, and the last one looks for the exit of the child *)
OnReadStdfd ==
  /\ \E stream \in ses.reads :
     LET s == [ses EXCEPT !.reads = @ \ {stream}]
         end == [s EXCEPT !.active = @ \ {stream}] IN
     \/ Over(s) /\ ses' = s /\ UNCHANGED peer
     \/ /\ ~Over(s) /\ peer.chunks < MaxChunks
        /\ peer' = [peer EXCEPT !.chunks = @ + 1]
        /\ ses' = SendMessage(s, "data", stream)
     \/ ~Over(s) /\ ses' = OnClose(end, "error") /\ UNCHANGED peer
     \/ /\ ~Over(s) /\ UNCHANGED peer
        /\ LET t == SendMessage(end, "eos", "null") IN
           IF t.active # {} THEN ses' = t
           ELSE \E o \in RecoverOutcomes[t.child] : ses' = RecoverChildExit(t, o)
  /\ UNCHANGED setup

(* on_process_data: a write to the child ended *)
OnProcessData ==
  /\ ses.writing
  /\ LET s == [ses EXCEPT !.writing = FALSE] IN
     ses' \in IF Over(s) THEN {s} ELSE {DoRead(s), OnClose(s, "error")}
  /\ UNCHANGED <<setup, peer>>

ChildExits ==
  /\ ses.child = "running"
  /\ ses' = [ses EXCEPT !.child = "zombie"]
  /\ UNCHANGED <<setup, peer>>

---------------------------------------------------------------------------
(* The timers. *)

OnStateTimer ==
  /\ ses.timer
  /\ ses' = OnClose([ses EXCEPT !.timer = FALSE], "error")
  /\ UNCHANGED <<setup, peer>>

OnHeartbeat ==
  /\ ses.heartbeat = "armed"
  /\ ses' = SendMessage([ses EXCEPT !.heartbeat = "off"], "heartbeat", "heartbeat")
  /\ UNCHANGED <<setup, peer>>

OnRecoverChildExit ==
  /\ ses.exitTimer = "watch" /\ ~Over(ses)
  /\ \E o \in RecoverOutcomes[ses.child] :
       ses' = RecoverChildExit([ses EXCEPT !.exitTimer = "off"], o)
  /\ UNCHANGED <<setup, peer>>

OnTerminationTimeout ==
  /\ ses.term # "off"
  /\ LET s == [ses EXCEPT !.term = "off"] IN
     ses' \in IF s.state # "connected" THEN {s}
              ELSE IF ses.term = "forced" THEN {DoSendError(s)}
              ELSE IF s.done THEN {[s EXCEPT !.term = "forced"]}
              ELSE {[Signal(s, TRUE) EXCEPT !.term = "forced"], DoSendError(s)}
  /\ UNCHANGED <<setup, peer>>

---------------------------------------------------------------------------
(* The teardown. *)

(* Mutant: the session does not wait for the exit of its child. *)
MutCloseResources(s, outcome) ==
  [s EXCEPT !.resources = "closed", !.handler = "done"]

(* cancel_resources once, then close_resources until the child has ended *)
CloseResources(s, outcome) ==
  IF s.child = "none" \/ s.done
  THEN [s EXCEPT !.resources = "closed", !.handler = "done"]
  ELSE IF outcome = "running" THEN [s EXCEPT !.resources = "cancelled", !.exitTimer = "drain"]
  ELSE [Recovered(s, outcome) EXCEPT
          !.resources = "closed", !.handler = "done", !.done = (outcome = "exited"),
          !.cause = IF outcome # "exited" /\ @ = "none" THEN "error" ELSE @]

(* The kill that the system refuses is logged, and the polling goes on. *)
Refused(s) == IF s.released \/ s.signal = "kill" THEN s ELSE [s EXCEPT !.signal = "refused"]

CancelResources(s, killed) ==
  IF s.resources # "open" THEN s
  ELSE LET t == [s EXCEPT !.resources = "cancelled", !.exitTimer = "off", !.term = "off"] IN
       IF s.child = "none" \/ s.done THEN t ELSE IF killed THEN Signal(t, TRUE) ELSE Refused(t)

OnQueueCancelled ==
  /\ ses.draining \/ (ses.exitTimer = "drain" /\ ses.state = "disconnected")
  /\ \E killed \in BOOLEAN :
       LET s == CancelResources([ses EXCEPT !.draining = FALSE, !.queue = <<>>, !.exitTimer = "off"], killed)
       IN \E o \in RecoverOutcomes[s.child] : ses' = CloseResources(s, o)
  /\ UNCHANGED <<setup, peer>>

Timers == OnStateTimer \/ OnHeartbeat \/ OnRecoverChildExit \/ OnTerminationTimeout

Connection ==
  \/ OnReadHttpRequest \/ OnWriteHttpResponse \/ OnAcceptWebsocket
  \/ OnSendMessage \/ OnCloseWebsocket \/ OnReadIncomingData \/ PeerGone

Next ==
  \/ AsyncRun \/ Cancel
  \/ Connection
  \/ OnReadStdfd \/ OnProcessData \/ ChildExits
  \/ Timers \/ OnQueueCancelled

(* Timers expire, the queue's cancel completes (SendQueue), a killed child
   ends, and a frame to a peer that is gone fails.  Nothing else is owed: a
   peer may be silent, and a child may ignore the first signal and outlive a
   kill that was refused. *)
Progress ==
  \/ OnStateTimer \/ OnQueueCancelled
  \/ ChildExits /\ ses.signal = "kill"
  \/ OnSendMessage /\ peer.gone

Spec == Init /\ [][Next]_sessionVars /\ WF_sessionVars(Progress) /\ WF_sessionVars(OnHeartbeat)

---------------------------------------------------------------------------
(* A signal is never sent to a process group whose leader was reaped: its
   number may by then belong to others (detail/process.cpp). *)
SignalSafe == ses.signal # "stray"

(* A session completes only when its child has ended: no process outlives its
   session, however the session ended and whatever signals the child ignored. *)
NoProcessLeft == ses.handler = "done" => ses.child # "running"

(* A session that reports success has written its close frame, or never had a
   child; and the close frame follows all the output. *)
CleanMeansDelivered ==
  /\ (ses.handler = "done" /\ ses.cause = "none" /\ ses.child # "none") => ses.final = "sent_close"
  /\ ses.final \in {"close", "sent_close"} => ses.active = {} /\ ses.reads = {}

(* Nothing is queued behind the close frame. *)
CloseIsLast == ses.final \in {"close", "sent_close"} => Len(ses'.queue) <= Len(ses.queue)

(* The session was refused the kill of a child that runs: it ends with the child. *)
Held == ses.signal = "refused" /\ ses.child = "running"

(* A peer that is gone ends the session, even while the child reads nothing:
   the heartbeats are refused. *)
Unended == {s \in {"session"} : peer.gone /\ ses.state = "connected"}
=============================================================================
