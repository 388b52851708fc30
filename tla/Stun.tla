-------------------------------- MODULE Stun --------------------------------
(***************************************************************************)
(* The STUN demo: the server (demo/stun/lib/rstream/stun/server.cpp), the  *)
(* request task (client.cpp) and the client program that runs it under a   *)
(* timeout (bin/client/client.cpp), over a network that loses, repeats and *)
(* reorders datagrams.  A datagram that is sent stays in the network and   *)
(* may be received any number of times, or never.                          *)
(***************************************************************************)
EXTENDS Naturals, FiniteSets

CONSTANTS
  TimeoutSet,   \* m_config.m_timeout_ms # 0
  Source,       \* how the server sees the client: [v6 |-> v4-mapped or not, host |-> its address]
  Strays        \* what else may reach the two sockets; stun is FALSE for what does not parse

VARIABLES server, client, net

stunDemoVars == <<server, client, net>>

(* the transaction id of the client's request; strays have others *)
RequestId == 1

Init ==
  /\ server = [state |-> "null", pending |-> "none", socket |-> "closed", reply |-> [id |-> 0]]
  /\ client = [pending |-> "none", code |-> "ok", complete |-> FALSE, timer |-> "off", open |-> FALSE,
               fatal |-> FALSE, task |-> [error |-> FALSE], completions |-> 0, result |-> [ok |-> FALSE]]
  /\ net = Strays

-----------------------------------------------------------------------------
(* The server *)

(* do_close: the resolver and the socket are closed, what is pending ends later *)
DoClose(s) == IF s.state # "running" THEN s ELSE [s EXCEPT !.state = "stopped", !.socket = "closed"]

ServerRun ==
  /\ server.state = "null"
  /\ server' = [server EXCEPT !.state = "running", !.pending = "resolve"]
  /\ UNCHANGED <<client, net>>

ServerCancel ==
  /\ server.state = "running"
  /\ server' = DoClose(server)
  /\ UNCHANGED <<client, net>>

(* on_do_resolve_host and do_configure_socket: no valid endpoint, or a socket that
   cannot be opened or bound, is an error *)
ServerOnResolve ==
  /\ server.pending = "resolve"
  /\ \E ok \in BOOLEAN :
       server' = IF server.state # "running" THEN [server EXCEPT !.pending = "none"]
                 ELSE IF ok THEN [server EXCEPT !.socket = "bound", !.pending = "receive"]
                 ELSE DoClose([server EXCEPT !.pending = "none"])
  /\ UNCHANGED <<client, net>>

(* The address that a request came from, a v4-mapped address as the v4 address it holds. *)
Mapped(src) == IF src.v6 THEN [src EXCEPT !.v6 = FALSE] ELSE src

(* on_stun_message, process_stun_message and process_stun_binding_request: a binding
   request is answered, anything else is dropped and the next message is read *)
Process(s, d) ==
  IF d.stun /\ d.class = "request"
  THEN [s EXCEPT !.pending = "send",
                 !.reply = [to |-> "client", stun |-> TRUE, class |-> "success", id |-> d.id, address |-> Mapped(d.from)]]
  ELSE s

ServerOnMessage ==
  /\ server.pending = "receive"
  /\ \/ /\ server.state = "running"
        /\ \E d \in net : d.to = "server" /\ server' = Process(server, d)
     \/ server' = DoClose([server EXCEPT !.pending = "none"])
  /\ UNCHANGED <<client, net>>

(* on_send_stun_message looks at the error only: after a close it reads once more,
   from a socket that refuses *)
ServerOnSend ==
  /\ server.pending = "send"
  /\ \/ /\ net' = net \union {server.reply}
        /\ server' = [server EXCEPT !.pending = "receive"]
     \/ /\ server' = DoClose([server EXCEPT !.pending = "none"])
        /\ UNCHANGED net
  /\ UNCHANGED client

-----------------------------------------------------------------------------
(* The client *)

NoAddress == [host |-> "none"]   \* a message without XOR-MAPPED-ADDRESS

(* An exception that a handler lets out leaves io_context.run, and main reports it:
   the program ends without an answer to the request. *)
Fatal(c) == [c EXCEPT !.fatal = TRUE, !.pending = "none", !.open = FALSE, !.timer = "off"]

ClientComplete(c, result) == [c EXCEPT !.complete = TRUE, !.completions = @ + 1, !.result = result]

Clean(c) == [c EXCEPT !.open = FALSE, !.timer = IF @ = "armed" THEN "off" ELSE @]

ClientCancelled(c) == Clean([c EXCEPT !.code = IF @ = "ok" THEN "operation_cancelled" ELSE @])

ClientRun ==
  /\ client.pending = "none" /\ ~client.complete /\ ~client.fatal /\ client.completions = 0
  /\ client' = [client EXCEPT !.pending = "resolve", !.timer = IF TimeoutSet THEN "armed" ELSE "off"]
  /\ UNCHANGED <<server, net>>

(* a signal: the program cancels its client *)
ClientCancel ==
  /\ client.pending # "none"
  /\ client.code = "ok"
  /\ client' = ClientCancelled(client)
  /\ UNCHANGED <<server, net>>

OnTimer ==
  /\ client.timer = "armed"
  /\ client' = IF client.complete THEN [client EXCEPT !.timer = "off"]
               ELSE ClientCancelled([client EXCEPT !.timer = "off", !.code = IF @ = "ok" THEN "operation_timeout" ELSE @])
  /\ UNCHANGED <<server, net>>

(* on_do_resolve_host and do_send_stun_request: open and bind throw *)
ClientOnResolve ==
  /\ client.pending = "resolve"
  /\ LET c == [client EXCEPT !.pending = "none"] IN
     \/ client.code # "ok" /\ client' = ClientComplete(c, [ok |-> FALSE, code |-> c.code])
     \/ client.code = "ok" /\ client' = ClientComplete(c, [ok |-> FALSE, code |-> "resolve"])
     \/ client.code = "ok" /\ client' = [c EXCEPT !.open = TRUE, !.pending = "send"]
     \/ client.code = "ok" /\ client' = Fatal(c)
  /\ UNCHANGED <<server, net>>

(* the handler of the task is posted *)
TaskEnds(c, task) == [c EXCEPT !.pending = "response", !.task = task]

OnSendRequest ==
  /\ client.pending = "send"
  /\ \/ /\ net' = net \union {[to |-> "server", stun |-> TRUE, class |-> "request", id |-> RequestId, from |-> Source]}
        /\ client' = [client EXCEPT !.pending = "receive"]
     \/ /\ client' = TaskEnds(client, [error |-> TRUE])
        /\ UNCHANGED net
  /\ UNCHANGED server

(* a response of another transaction is dropped and the next one is read *)
OnResponse(c, d) == IF d.id = RequestId THEN TaskEnds(c, [error |-> FALSE, message |-> d]) ELSE c

(* on_read_response: every datagram is parsed; parse throws on what is not a message *)
OnReadResponse ==
  /\ client.pending = "receive"
  /\ \/ client.open /\ \E d \in net : d.to = "client" /\ client' = IF d.stun THEN OnResponse(client, d) ELSE Fatal(client)
     \/ client' = TaskEnds(client, [error |-> TRUE])
  /\ UNCHANGED <<server, net>>

(* Mutant: what the task reports is taken before the timeout or the cancellation that
   preceded it, and a request that failed because of it is left unanswered. *)
MutOnStunResponse(c) ==
  CASE ~c.task.error                    -> ClientComplete(c, [ok |-> TRUE, address |-> c.task.message.address])
    [] c.task.error /\ c.code = "ok"    -> ClientComplete(c, [ok |-> FALSE, code |-> "network"])
    [] c.task.error /\ c.code # "ok"    -> c

(* on_stun_response, on_error and on_result: get_attribute throws, and is caught, when
   the response has no address *)
OnStunResponse(c) ==
  IF c.code # "ok" THEN ClientComplete(c, [ok |-> FALSE, code |-> c.code])
  ELSE IF c.task.error THEN ClientComplete(c, [ok |-> FALSE, code |-> "network"])
  ELSE IF c.task.message.address = NoAddress THEN ClientComplete(c, [ok |-> FALSE, code |-> "attribute"])
  ELSE ClientComplete(c, [ok |-> TRUE, address |-> c.task.message.address])

ClientOnResponse ==
  /\ client.pending = "response"
  /\ client' = OnStunResponse([client EXCEPT !.pending = "none"])
  /\ UNCHANGED <<server, net>>

Next ==
  \/ ServerRun \/ ServerCancel \/ ServerOnResolve \/ ServerOnMessage \/ ServerOnSend
  \/ ClientRun \/ ClientCancel \/ OnTimer \/ ClientOnResolve \/ OnSendRequest \/ OnReadResponse \/ ClientOnResponse

(* Timers expire and the executor runs what is posted; an operation on a socket
   that was closed, or whose datagram can be sent, ends.  Nothing makes a response
   arrive. *)
Progress ==
  OnTimer \/ ClientOnResolve \/ OnSendRequest \/ (~client.open /\ OnReadResponse) \/ ClientOnResponse

Spec == Init /\ [][Next]_stunDemoVars /\ WF_stunDemoVars(Progress)

-----------------------------------------------------------------------------
(* While it runs, the server has exactly one operation that will call it back,
   whatever it received: no message makes it deaf. *)
ServerListens == server.state = "running" => server.pending # "none"

(* A request that succeeds tells the client its own address, as a v4 address when
   it is one, even though the server sees it v4-mapped and strays reach both. *)
LearnsItsAddress == client.result.ok => client.result.address = Mapped(Source)

(* A request ends once: it is answered, or an exception ends the program. *)
RequestOnce == client.completions + (IF client.fatal THEN 1 ELSE 0) <= 1

(* With a timeout the request ends, even when every datagram is lost: answered, unless
   an exception ended the program. *)
Unended ==
  {r \in {"request"} :
     TimeoutSet /\ (client.pending # "none" \/ client.code # "ok") /\ ~client.complete /\ ~client.fatal}
=============================================================================
