------------------------------ MODULE Acceptor ------------------------------
(***************************************************************************)
(* The acceptor of lib/rstream/io-rstrm/acceptor.cpp: it keeps a client    *)
(* connected to the engine and a tunnel open over it, reconnecting and     *)
(* recreating as needed, and serves one async_accept() at a time.          *)
(*                                                                         *)
(* The acceptor's state is owned by m_strand.  What it is told reaches it  *)
(* in two ways.  API calls, cancellations and the client's disconnection   *)
(* callback are dispatched straight to the strand, which runs them in      *)
(* order (`strand').  Completions of the client's operations and the timer *)
(* first cross the executor (invoke_completion_handler() posts), and the   *)
(* threads that run it may overtake one another (`inbox').                 *)
(*                                                                         *)
(* The clients and the engine behind them are external here, and follow    *)
(* what module Client promises: every operation completes once, the end of *)
(* a session fails what is pending and then reports the disconnection.     *)
(***************************************************************************)
EXTENDS Naturals, Sequences, FiniteSets, TLC

CONSTANTS
  Ops,            \* async_accept() calls, each made once
  Clients,        \* client objects, one for each start of the acceptor
  Tunnels,        \* tunnels that exist or are being created at one time
  Settings,       \* values of m_settings: m_auto_reconnect, m_auto_recreate_tunnel
  Executors,      \* whether one thread runs the executor, or several
  MaxInbox,       \* bound: completions on their way when a session opens
  NoOp, NoClient, NoTunnel

ASSUME AcceptorAssumption ==
  /\ NoOp \notin Ops /\ NoClient \notin Clients /\ NoTunnel \notin Tunnels
  /\ Settings \subseteq [reconnect : BOOLEAN, recreate : BOOLEAN]
  /\ Executors \subseteq BOOLEAN
  /\ MaxInbox \in Nat
  /\ \A S \in SUBSET Tunnels : Cardinality(S) \in Nat

VARIABLES
  settings,     \* m_settings
  oneThread,    \* one thread runs the executor
  \* accept operations
  called,       \* async_accept() has run up to its dispatch
  dispatched,   \* and its handler is, or was, on the strand
  cancelled,    \* m_cancelled
  completed,    \* m_completed
  calls,        \* how often each handler was invoked
  result,       \* what with
  initError,    \* operations with an m_initiation_error
  reserved,     \* m_reserved
  accepting,    \* m_accepting
  \* guarded by m_mutex
  nonNull,      \* m_is_state_non_null
  startPending, \* m_start_pending
  bound,        \* m_local_endpoint is set
  \* owned by the strand
  state,        \* m_state
  closing,      \* m_closing, an atomic that close() sets
  client,       \* m_client
  tunnel,       \* m_tunnel
  acceptOp,     \* m_accept_op
  timer,        \* m_timer is armed
  strand,       \* handlers on the strand
  inbox,        \* completions on their way to it
  \* the clients
  cstate,       \* their sessions
  tstate,       \* the tunnels of those sessions
  tclient,      \* the client of each tunnel
  taccept       \* the accept operation pending on each tunnel

fixedVars == <<settings, oneThread>>
callVars == <<fixedVars, called, dispatched, cancelled, initError>>
doneVars == <<completed, calls, result>>
startVars == <<nonNull, startPending, bound, reserved>>
coreVars == <<state, closing, client, tunnel, acceptOp, timer>>
tunnelVars == <<tstate, tclient, taccept>>

vars == <<callVars, doneVars, accepting, startVars, coreVars, strand, inbox, cstate, tunnelVars>>

Handler(h, op) == [h |-> h, op |-> op]
Disconnected(c, clean) == [h |-> "disconnected", client |-> c, clean |-> clean]
Event(h, c, ok, arg) == [h |-> h, client |-> c, ok |-> ok, arg |-> arg]

Without(i) == SubSeq(inbox, 1, i - 1) \o SubSeq(inbox, i + 1, Len(inbox))

-----------------------------------------------------------------------------
(* What the acceptor asks of a client.  `rest' is what is left in inbox.   *)

(* client::close() *)
ClientClose(c, rest) ==
  /\ cstate' = [cstate EXCEPT ![c] = CASE @ = "connecting" -> "null"
                                       [] @ = "connected" -> "closing"
                                       [] OTHER -> @]
  /\ inbox' = IF cstate[c] = "connecting"
              THEN Append(rest, Event("connected", c, FALSE, NoTunnel))
              ELSE rest

(* Tunnels nothing refers to any more. *)
Free ==
  {t \in Tunnels : /\ tstate[t] \in {"free", "closed", "stale"}
                   /\ t # tunnel
                   /\ \A i \in DOMAIN inbox : inbox[i].arg # t}

(* client::async_create_tunnel(): refused unless the client is connected. *)
ClientCreate(rest) ==
  IF cstate[client] = "connected" /\ Free # {}
  THEN /\ \E t \in Free : /\ tstate' = [tstate EXCEPT ![t] = "creating"]
                          /\ tclient' = [tclient EXCEPT ![t] = client]
       /\ inbox' = rest
  ELSE inbox' = Append(rest, Event("created", client, FALSE, NoTunnel))
       /\ UNCHANGED <<tstate, tclient>>

(* tunnel::async_accept() *)
ClientAccept(op, t, rest) ==
  IF tstate[t] = "open" /\ cstate[tclient[t]] = "connected" /\ taccept[t] = NoOp
  THEN taccept' = [taccept EXCEPT ![t] = op] /\ inbox' = rest
  ELSE inbox' = Append(rest, Event("accepted", tclient[t], FALSE, op)) /\ UNCHANGED taccept

-----------------------------------------------------------------------------
(* Mutant: m_completed is not set. *)
complete_accept_NoSet(S, r) ==
  LET first == S \ completed
  IN /\ UNCHANGED completed
     /\ calls' = [o \in Ops |-> IF o \in first THEN calls[o] + 1 ELSE calls[o]]
     /\ result' = [o \in Ops |-> IF o \in first THEN r ELSE result[o]]

(* complete_accept() for each operation of S *)
complete_accept(S, r) ==
  LET first == S \ completed
  IN /\ completed' = completed \cup first
     /\ calls' = [o \in Ops |-> IF o \in first THEN calls[o] + 1 ELSE calls[o]]
     /\ result' = [o \in Ops |-> IF o \in first THEN r ELSE result[o]]

(* Mutant: m_accept_op is only cleared. *)
on_close_Clear(r, c, op, rest) ==
  /\ state' = "null" /\ closing' = FALSE
  /\ tunnel' = NoTunnel /\ timer' = FALSE
  /\ ClientClose(c, rest)
  /\ client' = NoClient
  /\ bound' = FALSE /\ nonNull' = FALSE /\ startPending' = FALSE
  /\ complete_accept({}, r)
  /\ acceptOp' = NoOp
  /\ UNCHANGED <<reserved, tunnelVars>>

(* on_close() in a state other than null, with m_client c and m_accept_op op *)
on_close(r, c, op, rest) ==
  /\ state' = "null" /\ closing' = FALSE
  /\ tunnel' = NoTunnel /\ timer' = FALSE
  /\ ClientClose(c, rest)
  /\ client' = NoClient
  /\ bound' = FALSE /\ nonNull' = FALSE /\ startPending' = FALSE
  /\ complete_accept({op} \ {NoOp}, r)
  /\ acceptOp' = NoOp
  /\ UNCHANGED <<reserved, tunnelVars>>

(* bind(): refused once started; a second endpoint replaces the first. *)
bind ==
  /\ ~ nonNull /\ ~ bound
  /\ bound' = TRUE
  /\ UNCHANGED <<callVars, doneVars, accepting, nonNull, startPending, reserved, coreVars,
                 strand, inbox, cstate, tunnelVars>>

(* async_accept(): the start is reserved in the caller's thread. *)
async_accept(op) ==
  /\ op \notin called
  /\ called' = called \cup {op}
  /\ \/ /\ startPending \/ ~ nonNull   \* no endpoint, or one the configuration refuses
        /\ initError' = initError \cup {op}
        /\ UNCHANGED <<nonNull, startPending, reserved>>
     \/ /\ ~ startPending /\ nonNull
        /\ UNCHANGED <<initError, nonNull, startPending, reserved>>
     \/ /\ ~ startPending /\ ~ nonNull /\ bound
        /\ \E c \in Clients : cstate[c] = "new"   \* bound: one start for each client
        /\ nonNull' = TRUE /\ startPending' = TRUE
        /\ reserved' = reserved \cup {op}
        /\ UNCHANGED initError
  /\ UNCHANGED <<fixedVars, dispatched, cancelled, doneVars, accepting, bound, coreVars, strand, inbox,
                 cstate, tunnelVars>>

(* The end of async_accept(): a cancellation may have come before. *)
dispatch_accept(op) ==
  /\ op \in called \ dispatched
  /\ dispatched' = dispatched \cup {op}
  /\ strand' = Append(strand, Handler("accept", op))
  /\ UNCHANGED <<fixedVars, called, cancelled, initError, doneVars, accepting, startVars, coreVars, inbox,
                 cstate, tunnelVars>>

(* The cancellation slot of an accept operation. *)
EmitSlot(op) ==
  /\ op \in called \ cancelled
  /\ cancelled' = cancelled \cup {op}
  /\ strand' = Append(strand, Handler("cancel", op))
  /\ UNCHANGED <<fixedVars, called, dispatched, initError, doneVars, accepting, startVars, coreVars, inbox,
                 cstate, tunnelVars>>

close ==
  /\ ~ closing
  /\ closing' = TRUE
  /\ strand' = Append(strand, Handler("close", NoOp))
  /\ UNCHANGED <<callVars, doneVars, accepting, startVars, state, client, tunnel, acceptOp, timer,
                 inbox, cstate, tunnelVars>>

-----------------------------------------------------------------------------
(* Handlers on the strand *)

Run(h) == strand # <<>> /\ Head(strand).h = h /\ strand' = Tail(strand)

(* Mutant: m_start_pending stays. *)
release_accept_reservation_Half(op) ==
  IF op \in reserved /\ state = "null" /\ startPending
  THEN nonNull' = FALSE /\ reserved' = reserved \ {op} /\ UNCHANGED <<bound, startPending>>
  ELSE UNCHANGED startVars

release_accept_reservation(op) ==
  IF op \in reserved /\ state = "null" /\ startPending
  THEN /\ startPending' = FALSE /\ nonNull' = FALSE
       /\ reserved' = reserved \ {op}
       /\ UNCHANGED bound
  ELSE UNCHANGED startVars

(* do_connect() in state idle, with m_client c and m_accept_op op;         *)
(* set_control_callbacks() refuses a client that has a session.            *)
do_connect(c, op, pending, rest) ==
  IF cstate[c] \notin {"new", "null"}
  THEN on_close("error", c, op, rest)
  ELSE /\ state' = "connecting" /\ client' = c /\ acceptOp' = op
       /\ cstate' = [cstate EXCEPT ![c] = "connecting"]
       /\ startPending' = pending
       /\ inbox' = rest
       /\ UNCHANGED <<closing, tunnel, timer, nonNull, bound, reserved, doneVars, tunnelVars>>

(* Mutants: the timer is not armed; m_tunnel survives its session. *)
do_reconnect_Never == timer' = FALSE
Detach_Never == UNCHANGED tunnel

(* do_reconnect() and do_recreate_tunnel(): expires_after() cancels a wait *)
(* that is pending, not one that has expired.                              *)
do_reconnect == timer' = TRUE
do_recreate_tunnel == timer' = TRUE
Detach == tunnel' = NoTunnel

(* do_accept() in state connected, not closing, on tunnel t *)
do_accept(op, t, rest) ==
  IF op = NoOp \/ op \in accepting
  THEN inbox' = rest /\ UNCHANGED <<accepting, taccept>>
  ELSE accepting' = accepting \cup {op} /\ ClientAccept(op, t, rest)

(* do_create_tunnel() in state connected, not closing *)
do_create_tunnel(rest) == ClientCreate(rest)

async_accept_internal ==
  /\ Run("accept")
  /\ LET op == Head(strand).op
         refused == op \in initError \/ acceptOp # NoOp \/ (state = "null" /\ op \notin reserved)
     IN \/ /\ op \in cancelled
           /\ release_accept_reservation(op)
           /\ complete_accept({op}, "aborted")
           /\ UNCHANGED <<accepting, coreVars, inbox, cstate, tunnelVars>>
        \/ /\ op \notin cancelled /\ refused
           /\ complete_accept({op}, "error")
           /\ UNCHANGED <<accepting, startVars, coreVars, inbox, cstate, tunnelVars>>
        \/ /\ op \notin cancelled /\ ~ refused /\ state = "null"
           /\ \E c \in Clients : cstate[c] = "new" /\ do_connect(c, op, FALSE, inbox)
           /\ UNCHANGED accepting
        \/ /\ op \notin cancelled /\ ~ refused /\ state = "idle"
           /\ do_connect(client, op, startPending, inbox)
           /\ UNCHANGED accepting
        \/ /\ op \notin cancelled /\ ~ refused /\ state \in {"connecting", "connected"}
           /\ acceptOp' = op
           /\ IF tunnel # NoTunnel /\ state = "connected" /\ ~ closing
              THEN do_accept(op, tunnel, inbox)
              ELSE UNCHANGED <<accepting, taccept, inbox>>
           /\ UNCHANGED <<doneVars, startVars, state, closing, client, tunnel, timer, cstate,
                          tstate, tclient>>
  /\ UNCHANGED callVars

(* Mutant: the client's operation is not cancelled. *)
EmitCancellation_Never(op) == UNCHANGED <<inbox, taccept>>

(* m_cancellation.emit(): reaches the client's operation, if it is pending *)
EmitCancellation(op) ==
  LET on == {t \in Tunnels : taccept[t] = op}
  IN IF on = {}
     THEN UNCHANGED <<inbox, taccept>>
     ELSE \E t \in on : /\ taccept' = [taccept EXCEPT ![t] = NoOp]
                        /\ inbox' = Append(inbox, Event("accepted", tclient[t], FALSE, op))

cancel_accept ==
  /\ Run("cancel")
  /\ LET op == Head(strand).op
     IN \/ /\ op \in completed
           /\ UNCHANGED <<doneVars, startVars, acceptOp, inbox, taccept>>
        \/ /\ op \notin completed /\ acceptOp # op
           /\ release_accept_reservation(op)
           /\ complete_accept({op}, "aborted")
           /\ UNCHANGED <<acceptOp, inbox, taccept>>
        \/ /\ op \notin completed /\ acceptOp = op /\ op \in accepting
           /\ EmitCancellation(op)
           /\ UNCHANGED <<doneVars, startVars, acceptOp>>
        \/ /\ op \notin completed /\ acceptOp = op /\ op \notin accepting
           /\ acceptOp' = NoOp
           /\ complete_accept({op}, "aborted")
           /\ UNCHANGED <<startVars, inbox, taccept>>
  /\ UNCHANGED <<callVars, accepting, state, closing, client, tunnel, timer, cstate, tstate, tclient>>

(* Mutant: the client is closed in every state. *)
close_internal_ClientOnly ==
  /\ Run("close")
  /\ \/ /\ state = "null"
        /\ closing' = FALSE
        /\ UNCHANGED <<inbox, cstate>>
     \/ /\ state # "null"
        /\ ClientClose(client, inbox)
        /\ UNCHANGED closing
  /\ UNCHANGED <<callVars, accepting, doneVars, startVars, state, client, tunnel, acceptOp, timer,
                 tunnelVars>>

close_internal ==
  /\ Run("close")
  /\ \/ /\ state = "null"
        /\ closing' = FALSE
        /\ UNCHANGED <<doneVars, startVars, state, client, tunnel, acceptOp, timer, inbox, cstate,
                       tunnelVars>>
     \/ /\ state = "idle"
        /\ on_close("aborted", client, acceptOp, inbox)
     \/ /\ state \in {"connecting", "connected"}
        /\ ClientClose(client, inbox)
        /\ UNCHANGED <<doneVars, startVars, coreVars, tunnelVars>>
  /\ UNCHANGED <<callVars, accepting>>

(* With one thread, what a session completed with success before it ended  *)
(* has been handled by the time its end is reported.                       *)
on_client_disconnection ==
  /\ Run("disconnected")
  /\ LET e == Head(strand)
     IN /\ oneThread => \A i \in DOMAIN inbox : ~ (inbox[i].client = e.client /\ inbox[i].ok)
        /\ \/ /\ state # "connected"
              /\ UNCHANGED <<doneVars, startVars, coreVars, inbox, cstate, tunnelVars>>
           \/ /\ state = "connected" /\ (closing \/ e.clean)
              /\ on_close(IF e.clean THEN "aborted" ELSE "error", client, acceptOp, inbox)
           \/ /\ state = "connected" /\ ~ closing /\ ~ e.clean /\ settings.reconnect
              /\ state' = "idle"
              /\ Detach
              /\ do_reconnect
              /\ UNCHANGED <<doneVars, startVars, closing, client, acceptOp, inbox, cstate, tunnelVars>>
           \/ /\ state = "connected" /\ ~ closing /\ ~ e.clean /\ ~ settings.reconnect
              /\ on_close("error", client, acceptOp, inbox)
  /\ UNCHANGED <<callVars, accepting>>

-----------------------------------------------------------------------------
(* Completions.  One thread delivers them in the order they were posted.   *)

Deliver(i, h) == i \in DOMAIN inbox /\ (oneThread => i = 1) /\ inbox[i].h = h

on_connect(i) ==
  /\ Deliver(i, "connected")
  /\ LET ok == inbox[i].ok
         rest == Without(i)
     IN \/ /\ state # "connecting"
           /\ inbox' = rest
           /\ UNCHANGED <<doneVars, startVars, coreVars, cstate, tunnelVars>>
        \/ /\ state = "connecting" /\ closing
           /\ on_close("aborted", client, acceptOp, rest)
        \/ /\ state = "connecting" /\ ~ closing /\ ~ ok /\ settings.reconnect
           /\ state' = "idle"
           /\ do_reconnect
           /\ inbox' = rest
           /\ UNCHANGED <<doneVars, startVars, closing, client, tunnel, acceptOp, cstate, tunnelVars>>
        \/ /\ state = "connecting" /\ ~ closing /\ ~ ok /\ ~ settings.reconnect
           /\ on_close("error", client, acceptOp, rest)
        \/ /\ state = "connecting" /\ ~ closing /\ ok
           /\ state' = "connected"
           /\ do_create_tunnel(rest)
           /\ UNCHANGED <<doneVars, startVars, closing, client, tunnel, acceptOp, timer, cstate, taccept>>
  /\ UNCHANGED <<callVars, accepting, strand>>

on_create_tunnel(i) ==
  /\ Deliver(i, "created")
  /\ LET e == inbox[i]
         rest == Without(i)
     IN \/ /\ state # "connected" \/ (~ e.ok /\ closing)
           /\ inbox' = rest
           /\ UNCHANGED <<accepting, doneVars, startVars, coreVars, cstate, tunnelVars>>
        \/ /\ state = "connected" /\ ~ closing /\ ~ e.ok /\ settings.recreate
           /\ do_recreate_tunnel
           /\ inbox' = rest
           /\ UNCHANGED <<accepting, doneVars, startVars, state, closing, client, tunnel, acceptOp,
                          cstate, tunnelVars>>
        \/ /\ state = "connected" /\ ~ closing /\ ~ e.ok /\ ~ settings.recreate
           /\ on_close("error", client, acceptOp, rest)
           /\ UNCHANGED accepting
        \/ /\ state = "connected" /\ e.ok
           /\ tunnel' = e.arg
           /\ IF closing
              THEN inbox' = rest /\ UNCHANGED <<accepting, taccept>>
              ELSE do_accept(acceptOp, e.arg, rest)
           /\ UNCHANGED <<doneVars, startVars, state, closing, client, acceptOp, timer, cstate,
                          tstate, tclient>>
  /\ UNCHANGED <<callVars, strand>>

on_accept(i) ==
  /\ Deliver(i, "accepted")
  /\ LET op == inbox[i].arg
         ok == inbox[i].ok
         rest == Without(i)
         cleared == IF acceptOp = op THEN NoOp ELSE acceptOp
         serving == op \notin cancelled /\ state = "connected" /\ ~ closing
     IN /\ accepting' = accepting \ {op}
        /\ \/ /\ op \in cancelled
              /\ acceptOp' = cleared
              /\ complete_accept({op}, "aborted")
              /\ inbox' = rest
              /\ UNCHANGED <<startVars, state, closing, client, tunnel, timer, cstate, tunnelVars>>
           \/ /\ op \notin cancelled /\ ~ serving
              /\ inbox' = rest
              /\ UNCHANGED <<doneVars, startVars, coreVars, cstate, tunnelVars>>
           \/ /\ serving /\ ~ ok /\ settings.recreate
              /\ Detach
              /\ do_recreate_tunnel
              /\ inbox' = rest
              /\ UNCHANGED <<doneVars, startVars, state, closing, client, acceptOp, cstate, tunnelVars>>
           \/ /\ serving /\ ~ ok /\ ~ settings.recreate
              /\ on_close("error", client, acceptOp, rest)
           \/ /\ serving /\ ok
              /\ acceptOp' = cleared
              /\ complete_accept({op}, "ok")
              /\ inbox' = rest
              /\ UNCHANGED <<startVars, state, closing, client, tunnel, timer, cstate, tunnelVars>>
  /\ UNCHANGED <<callVars, strand>>

(* on_timer_cb() of a timer that expired before it was cancelled *)
on_timer_cb(i) ==
  /\ Deliver(i, "timer")
  /\ LET rest == Without(i)
     IN \/ /\ closing \/ state \in {"null", "connecting"}
           /\ inbox' = rest
           /\ UNCHANGED <<doneVars, startVars, coreVars, cstate, tunnelVars>>
        \/ /\ ~ closing /\ state = "idle"
           /\ do_connect(client, acceptOp, startPending, rest)
        \/ /\ ~ closing /\ state = "connected"
           /\ do_create_tunnel(rest)
           /\ UNCHANGED <<doneVars, startVars, coreVars, cstate, taccept>>
  /\ UNCHANGED <<callVars, accepting, strand>>

-----------------------------------------------------------------------------
(* The clients, the engine and the timer *)

acceptorVars == <<callVars, doneVars, accepting, startVars, state, closing, client, tunnel, acceptOp>>

TimerExpires ==
  /\ timer
  /\ timer' = FALSE
  /\ inbox' = Append(inbox, Event("timer", NoClient, TRUE, NoTunnel))
  /\ UNCHANGED <<acceptorVars, strand, cstate, tunnelVars>>

ConnectDone(c, ok) ==
  /\ cstate[c] = "connecting"
  /\ ok => Len(inbox) < MaxInbox
  /\ cstate' = [cstate EXCEPT ![c] = IF ok THEN "connected" ELSE "null"]
  /\ inbox' = Append(inbox, Event("connected", c, ok, NoTunnel))
  /\ UNCHANGED <<acceptorVars, timer, strand, tunnelVars>>

CreateDone(t, ok) ==
  /\ tstate[t] = "creating"
  /\ tstate' = [tstate EXCEPT ![t] = IF ok THEN "open" ELSE "free"]
  /\ inbox' = Append(inbox, Event("created", tclient[t], ok, IF ok THEN t ELSE NoTunnel))
  /\ UNCHANGED <<acceptorVars, timer, strand, cstate, tclient, taccept>>

AcceptDone(t) ==
  /\ taccept[t] # NoOp
  /\ taccept' = [taccept EXCEPT ![t] = NoOp]
  /\ inbox' = Append(inbox, Event("accepted", tclient[t], TRUE, taccept[t]))
  /\ UNCHANGED <<acceptorVars, timer, strand, cstate, tstate, tclient>>

TunnelClosed(t) ==
  /\ tstate[t] = "open"
  /\ tstate' = [tstate EXCEPT ![t] = "closed"]
  /\ taccept' = [taccept EXCEPT ![t] = NoOp]
  /\ inbox' = IF taccept[t] = NoOp THEN inbox
              ELSE Append(inbox, Event("accepted", tclient[t], FALSE, taccept[t]))
  /\ UNCHANGED <<acceptorVars, timer, strand, cstate, tclient>>

(* The end of a session: pending operations fail, then the disconnection   *)
(* callback is dispatched.                                                 *)
SessionEnd(c, clean) ==
  /\ cstate[c] = "closing" \/ (cstate[c] = "connected" /\ ~ clean)
  /\ cstate' = [cstate EXCEPT ![c] = "null"]
  /\ LET mine == {t \in Tunnels : tclient[t] = c}
         creates == {t \in mine : tstate[t] = "creating"}
         accepts == {t \in mine : taccept[t] # NoOp}
     IN /\ tstate' = [t \in Tunnels |-> IF t \in creates THEN "free"
                                        ELSE IF t \in mine THEN "stale" ELSE tstate[t]]
        /\ taccept' = [t \in Tunnels |-> IF t \in mine THEN NoOp ELSE taccept[t]]
        /\ \E order \in [1 .. Cardinality(accepts) -> accepts] :
             /\ \A t \in accepts : \E i \in DOMAIN order : order[i] = t
             /\ inbox' = inbox
                  \o [i \in 1 .. Cardinality(creates) |-> Event("created", c, FALSE, NoTunnel)]
                  \o [i \in DOMAIN order |-> Event("accepted", c, FALSE, taccept[order[i]])]
  /\ strand' = Append(strand, Disconnected(c, clean))
  /\ UNCHANGED <<acceptorVars, timer, tclient>>

-----------------------------------------------------------------------------
Init ==
  /\ settings \in Settings /\ oneThread \in Executors
  /\ called = {} /\ dispatched = {} /\ cancelled = {} /\ completed = {}
  /\ calls = [o \in Ops |-> 0]
  /\ result = [o \in Ops |-> "none"]
  /\ initError = {} /\ reserved = {} /\ accepting = {}
  /\ nonNull = FALSE /\ startPending = FALSE /\ bound = FALSE
  /\ state = "null" /\ closing = FALSE /\ client = NoClient /\ tunnel = NoTunnel
  /\ acceptOp = NoOp /\ timer = FALSE
  /\ strand = <<>> /\ inbox = <<>>
  /\ cstate = [c \in Clients |-> "new"]
  /\ tstate = [t \in Tunnels |-> "free"]
  /\ tclient = [t \in Tunnels |-> NoClient]
  /\ taccept = [t \in Tunnels |-> NoOp]

UserNext ==
  \/ bind
  \/ close
  \/ \E op \in Ops : async_accept(op) \/ dispatch_accept(op) \/ EmitSlot(op)

StrandNext ==
  async_accept_internal \/ cancel_accept \/ close_internal \/ on_client_disconnection

InboxStep(i) == on_connect(i) \/ on_create_tunnel(i) \/ on_accept(i) \/ on_timer_cb(i)
InboxNext == \E i \in DOMAIN inbox : InboxStep(i)

ClientNext ==
  \/ TimerExpires
  \/ \E c \in Clients, ok \in BOOLEAN : ConnectDone(c, ok) \/ SessionEnd(c, ok)
  \/ \E t \in Tunnels : AcceptDone(t) \/ TunnelClosed(t)
  \/ \E t \in Tunnels, ok \in BOOLEAN : CreateDone(t, ok)

Next == UserNext \/ StrandNext \/ InboxNext \/ ClientNext

Spec == Init /\ [][Next]_vars

(* Handlers run, an armed timer expires, and a client that is connecting   *)
(* or closing is done with it (Client!ConnectCompletes, Client!CloseEnds). *)
(* Nothing is assumed of a session that is open.                           *)
FairSpec ==
  /\ Spec
  /\ \A op \in Ops : WF_vars(dispatch_accept(op))
  /\ WF_vars(StrandNext)
  /\ WF_vars(inbox # <<>> /\ InboxStep(1))
  /\ WF_vars(TimerExpires)
  /\ \A c \in Clients : /\ WF_vars(\E ok \in BOOLEAN : ConnectDone(c, ok))
                        /\ WF_vars(cstate[c] = "closing" /\ \E ok \in BOOLEAN : SessionEnd(c, ok))

-----------------------------------------------------------------------------
(* Properties *)

(* Each accept handler is invoked once, when its operation is marked       *)
(* completed, whatever the client, close() and a cancellation do to it.    *)
CompletedOnce ==
  \A op \in Ops : calls[op] = IF op \in completed THEN 1 ELSE 0

OnStrand(h, op) == \E i \in DOMAIN strand : strand[i] = Handler(h, op)
Starting == {op \in reserved \ completed : op \notin dispatched \/ OnStrand("accept", op)}

(* m_is_state_non_null and m_start_pending, which callers on any thread    *)
(* test under m_mutex, agree with the strand: at most one reserved start   *)
(* is on its way, it never coexists with a started acceptor, and bind()    *)
(* cannot change the endpoint of either.                                   *)
StartSound ==
  /\ startPending <=> Starting # {}
  /\ \A p, q \in Starting : p = q
  /\ nonNull <=> (state # "null" \/ startPending)
  /\ startPending => state = "null"
  /\ nonNull => bound
  /\ (state = "null") <=> (client = NoClient)

(* An accept operation the strand has taken and not completed is           *)
(* m_accept_op of a started acceptor, where on_close() finds it: across    *)
(* reconnections, tunnel losses and late completions no handler is lost.   *)
NoLostAccept ==
  \A op \in dispatched \ completed : OnStrand("accept", op) \/ (op = acceptOp /\ state # "null")

InboxHas(h) == \E i \in DOMAIN inbox : inbox[i].h = h

(* No lost wakeup: as long as nobody closes the acceptor, something is in  *)
(* flight that moves a waiting accept operation on: the reconnection timer *)
(* when idle, the connect operation, and when connected this very accept   *)
(* or a creation pending at the client, a completion of one, the           *)
(* recreation timer, or the end of the session.                            *)
AcceptDriven ==
  acceptOp # NoOp /\ ~ closing =>
    CASE state = "idle" -> timer \/ InboxHas("timer")
      [] state = "connecting" -> cstate[client] = "connecting" \/ InboxHas("connected")
      [] state = "connected" ->
           \/ timer \/ InboxHas("timer") \/ InboxHas("created")
           \/ \E t \in Tunnels : taccept[t] = acceptOp \/ tstate[t] = "creating"
           \/ \E i \in DOMAIN inbox : inbox[i].h = "accepted" /\ inbox[i].arg = acceptOp
           \/ \E j \in DOMAIN strand : strand[j].h = "disconnected"
      [] OTHER -> FALSE

(* While its client is connected, the tunnel of that client the acceptor   *)
(* holds is one of this session and not of an earlier one: reconnecting    *)
(* leaves nothing of the old session behind, provided one thread runs the  *)
(* executor.  A tunnel of another client is left out: on_create_tunnel()   *)
(* does not look at the client of a creation, so one that an earlier,      *)
(* closing client completes late is adopted, and goes with that client.    *)
TunnelCurrent ==
  oneThread /\ state = "connected" /\ tunnel # NoTunnel
    /\ tclient[tunnel] = client /\ cstate[client] = "connected" =>
  tstate[tunnel] # "stale"

(* close() completes the accept operation that is pending, in whatever     *)
(* state it finds the acceptor ...                                         *)
CloseAborts ==
  \A op \in Ops : (closing /\ acceptOp = op) ~> (op \in completed)

(* ... at least when one thread runs the executor, so that the end of a    *)
(* session is never reported before its beginning.                         *)
CloseAbortsInOrder ==
  \A op \in Ops : (oneThread /\ closing /\ acceptOp = op) ~> (op \in completed)

(* An accept operation that is cancelled completes, in whatever order the  *)
(* completions arrive.                                                     *)
CancelCompletes == \A op \in Ops : (op \in cancelled) ~> (op \in completed)

-----------------------------------------------------------------------------
(* Instances for TLC. *)

Symmetry == Permutations(Ops) \cup Permutations(Clients) \cup Permutations(Tunnels)

AllSettings == [reconnect : BOOLEAN, recreate : BOOLEAN]

AllOrNothing == {[reconnect |-> b, recreate |-> b] : b \in BOOLEAN}

(* Bound: an acceptor that recreates its tunnels is started once, another  *)
(* one is closed and started again, with another client.                   *)
StartBound == settings.recreate => Cardinality(reserved') <= 1

BoundedSpec == Init /\ [][Next /\ StartBound]_vars
=============================================================================
