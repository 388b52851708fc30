------------------------- MODULE AcceptorDriveProofs -------------------------
(***************************************************************************)
(* An acceptor with an accept call is always driven. What it waits for     *)
(* depends on its state: a connection, a tunnel, an accept of that tunnel, *)
(* or the reconnection timer. The inductive invariant also relates the     *)
(* operations it has passed to tunnels to those that the tunnels, or their *)
(* completions, still hold.                                                *)
(***************************************************************************)
EXTENDS AcceptorProofs

USE DEF fixedVars, callVars, doneVars, startVars, coreVars, tunnelVars, acceptorVars, vars

-----------------------------------------------------------------------------
(* Operations that a tunnel accepts for, or whose completion is in the *)
(* inbox s.                                                            *)
WaitingIn(s) == {taccept[t] : t \in Tunnels} \cup {e.arg : e \in {x \in Elements(s) : x.h = "accepted"}}
Waiting == WaitingIn(inbox)
(* The reconnection timer runs, or its expiry is on its way. *)
TimerDue == timer \/ InboxHas("timer")
(* Something will lead the acceptor to a tunnel: the timer, a creation, *)
(* its completion, or the end of the session.                           *)
TunnelDue ==
  \/ TimerDue \/ InboxHas("created")
  \/ \E t \in Tunnels : tstate[t] = "creating"
  \/ \E e \in Elements(strand) : e.h = "disconnected"

(* What drives an acceptor that is not connecting. *)
Driven ==
  /\ state = "idle" => TimerDue
  /\ state = "connected" => IF tunnel = NoTunnel THEN TunnelDue ELSE acceptOp \in accepting \cup {NoOp}

(* An acceptor that is not closing always waits for something that will *)
(* come, and knows of every accept that it has started.                 *)
DriveInv ==
  /\ accepting \subseteq Waiting
  /\ state # "connected" => tunnel = NoTunnel
  /\ state = "connecting" => cstate[client] = "connecting" \/ InboxHas("connected")
  /\ closing \/ Driven

(* Waiting in terms of Told. *)
LEMMA WaitingTold ==
  /\ Waiting = {taccept[t] : t \in Tunnels} \cup Told
  /\ Waiting' = {taccept'[t] : t \in Tunnels} \cup Told'
  BY DEF Waiting, WaitingIn, Told

(* InboxHas() in terms of the elements of the inbox. *)
LEMMA HasElements ==
  /\ \A h : InboxHas(h) <=> \E e \in Elements(inbox) : e.h = h
  /\ \A h : InboxHas(h)' <=> \E e \in Elements(inbox') : e.h = h
  BY DEF InboxHas, Elements

(* What a step that takes event e out of the inbox leaves there. *)
LEMMA LoseOne ==
  ASSUME NEW e, Elements(inbox) \subseteq Elements(inbox') \cup {e}
  PROVE  /\ \A h : h # e.h => (InboxHas(h) => InboxHas(h)')
         /\ Told \subseteq Told' \cup {e.arg}
         /\ e.h # "accepted" => Told \subseteq Told'
  BY HasElements DEF Told

(* What a step that takes no event out of the inbox leaves there. *)
LEMMA LoseNone ==
  ASSUME Elements(inbox) \subseteq Elements(inbox')
  PROVE  (\A h : InboxHas(h) => InboxHas(h)') /\ Told \subseteq Told'
  BY HasElements DEF Told

(* The callback of a disconnected client is on the strand. *)
EndDue == \E e \in Elements(strand) : e.h = "disconnected"

(* Only on_client_disconnection() takes it from there. *)
LEMMA EndKept ==
  ASSUME TypeInv,
         \/ UserNext \/ async_accept_internal \/ cancel_accept \/ close_internal
         \/ InboxNext \/ ClientNext \/ UNCHANGED vars
  PROVE  EndDue => EndDue'
<1>0. strand \in Seq(StrandItems)
  BY DEF TypeInv
<1>1. CASE strand' = strand
  BY <1>1 DEF EndDue
<1>2. CASE \E e \in StrandItems : strand' = Append(strand, e)
  BY <1>0, <1>2, StrandGrows DEF EndDue
<1>3. ASSUME NEW h \in {"accept", "cancel", "close"}, Run(h) PROVE EndDue => EndDue'
  <2>1. strand # <<>> /\ Head(strand).h = h /\ strand' = Tail(strand)
    BY <1>3 DEF Run
  <2>2. Elements(strand) = Elements(strand') \cup {Head(strand)}
    BY <1>0, <2>1, TailElements
  <2>3. QED BY <2>1, <2>2 DEF EndDue
<1>4. CASE UserNext
  BY <1>1, <1>2, <1>4, StrandMade, Zenon DEF UserNext, bind, close, async_accept, dispatch_accept, EmitSlot
<1>5. CASE async_accept_internal \/ cancel_accept \/ close_internal
  BY <1>3, <1>5, ZenonT(60) DEF async_accept_internal, cancel_accept, close_internal
<1>6. CASE InboxNext
  BY <1>1, <1>6, ZenonT(60) DEF InboxNext, InboxStep, on_connect, on_create_tunnel, on_accept, on_timer_cb
<1>7. CASE ClientNext
  BY <1>1, <1>2, <1>7, StrandMade, ZenonT(60)
     DEF ClientNext, TimerExpires, ConnectDone, SessionEnd, AcceptDone, TunnelClosed, CreateDone
<1>8. QED BY <1>1, <1>4, <1>5, <1>6, <1>7

(* API calls keep DriveInv. *)
LEMMA UserDrive ==
  ASSUME TypeInv, DriveInv, UserNext \/ UNCHANGED vars
  PROVE  DriveInv'
<1>1. /\ UNCHANGED <<accepting, taccept, inbox, state, tunnel, client, cstate, timer, tstate, acceptOp>>
      /\ closing => closing'
  BY DEF UserNext, bind, close, async_accept, dispatch_accept, EmitSlot
<1>2. EndDue => EndDue'
  BY EndKept, Zenon
<1>3. Waiting' = Waiting /\ \A h : InboxHas(h)' <=> InboxHas(h)
  BY <1>1, HasElements DEF Waiting, WaitingIn, Told
<1>4. TimerDue' <=> TimerDue
  BY <1>1, <1>3 DEF TimerDue
<1>5. TunnelDue => TunnelDue'
  BY <1>1, <1>2, <1>3, <1>4 DEF TunnelDue, EndDue
<1>6. QED BY <1>1, <1>3, <1>4, <1>5 DEF DriveInv, Driven

(* do_accept() leaves the operation pending, or its refusal on its way. *)
LEMMA AcceptWaits ==
  ASSUME TypeInv, NEW op \in Ops \cup {NoOp}, NEW t \in Tunnels, NEW rest \in Seq(Events),
         do_accept(op, t, rest), accepting \subseteq WaitingIn(rest)
  PROVE  accepting' \subseteq Waiting' /\ op \in accepting' \cup {NoOp}
<1>1. CASE (op = NoOp \/ op \in accepting) /\ inbox' = rest /\ UNCHANGED <<accepting, taccept>>
  BY <1>1 DEF Waiting, WaitingIn
<1>2. CASE /\ accepting' = accepting \cup {op} /\ taccept[t] = NoOp
           /\ inbox' = rest /\ taccept' = [taccept EXCEPT ![t] = op]
  <2>1. taccept'[t] = op /\ \A u \in Tunnels : u # t => taccept'[u] = taccept[u]
    BY <1>2 DEF TypeInv
  <2>2. NoOp \notin accepting
    BY NoneIsNone DEF TypeInv
  <2>3. QED BY <1>2, <2>1, <2>2 DEF Waiting, WaitingIn
<1>3. CASE /\ accepting' = accepting \cup {op} /\ UNCHANGED taccept
           /\ Elements(inbox') = Elements(rest) \cup {Event("accepted", tclient[t], FALSE, op)}
  <2> DEFINE e == Event("accepted", tclient[t], FALSE, op)
  <2>1. e.h = "accepted" /\ e.arg = op
    BY DEF Event
  <2>2. Elements(inbox') = Elements(rest) \cup {e}
    BY <1>3, Zenon
  <2> HIDE DEF e
  <2>3. op \in Waiting' /\ WaitingIn(rest) \subseteq Waiting'
    BY <1>3, <2>1, <2>2, ZenonT(60) DEF Waiting, WaitingIn
  <2>4. QED BY <1>3, <2>3
<1>4. QED BY <1>1, <1>2, <1>3, AcceptInbox, Zenon

(* on_close() ends what is driven, and loses no completion on the way. *)
LEMMA ClosedDrive ==
  ASSUME TypeInv, NEW r, NEW c \in SomeClient, NEW op, NEW rest \in Seq(Events),
         on_close(r, c, op, rest),
         accepting' \subseteq WaitingIn(rest)
  PROVE  DriveInv'
<1>1. state' = "null" /\ tunnel' = NoTunnel /\ taccept' = taccept
  BY DEF on_close
<1>2. Elements(rest) \subseteq Elements(inbox')
  <2>1. \/ inbox' = rest
        \/ Elements(inbox') = Elements(rest) \cup {Event("connected", c, FALSE, NoTunnel)}
    BY CloseInbox, Zenon
  <2>2. QED BY <2>1, Zenon
<1>3. accepting' \subseteq Waiting'
  BY <1>1, <1>2 DEF Waiting, WaitingIn
<1>4. QED BY <1>1, <1>3 DEF DriveInv, Driven

(* do_connect() leaves the acceptor connecting, or stopped. *)
LEMMA ConnectDrive ==
  ASSUME TypeInv, DriveInv, NEW c \in Clients, NEW op, NEW b, NEW rest \in Seq(Events),
         state # "connected", do_connect(c, op, b, rest),
         accepting' \subseteq WaitingIn(rest)
  PROVE  DriveInv'
<1>1. CASE on_close("error", c, op, rest)
  BY <1>1, ClosedDrive, Zenon DEF SomeClient
<1>2. CASE cstate[c] \in {"new", "null"}
  <2>1. /\ state' = "connecting" /\ tunnel' = tunnel /\ taccept' = taccept /\ inbox' = rest
        /\ client' = c /\ cstate' = [cstate EXCEPT ![c] = "connecting"]
    BY <1>2 DEF do_connect
  <2>2. cstate'[client'] = "connecting"
    BY <2>1, Zenon DEF TypeInv
  <2>3. accepting' \subseteq Waiting'
    BY <2>1 DEF Waiting, WaitingIn, Told
  <2>4. QED BY <2>1, <2>2, <2>3 DEF DriveInv, Driven
<1>3. QED BY <1>1, <1>2 DEF do_connect

(* async_accept_internal() keeps DriveInv. *)
LEMMA AcceptDrive ==
  ASSUME TypeInv, AcceptInv, DriveInv, async_accept_internal
  PROVE  DriveInv'
<1> DEFINE op == Head(strand).op
<1>0. op \in Ops /\ inbox \in Seq(Events) /\ client \in SomeClient
  BY HeadRead, Zenon DEF async_accept_internal, TypeInv
<1>1. EndDue => EndDue'
  BY EndKept
<1>2. accepting \subseteq WaitingIn(inbox)
  BY DEF DriveInv, Waiting, WaitingIn, Told
<1>3. CASE UNCHANGED <<accepting, coreVars, inbox, cstate, tunnelVars>>
  <2>1. Waiting' = Waiting /\ \A h : InboxHas(h)' <=> InboxHas(h)
    BY <1>3, HasElements DEF Waiting, WaitingIn, Told
  <2>2. TimerDue' <=> TimerDue
    BY <1>3, <2>1 DEF TimerDue
  <2>3. TunnelDue => TunnelDue'
    BY <1>1, <1>3, <2>1, <2>2 DEF TunnelDue, EndDue
  <2>4. QED BY <1>3, <2>1, <2>2, <2>3, Zenon DEF DriveInv, Driven
<1>4. CASE /\ state = "null" /\ UNCHANGED accepting
           /\ \E c \in Clients : do_connect(c, op, FALSE, inbox)
  BY <1>0, <1>2, <1>4, ConnectDrive, ZenonT(60)
<1>5. CASE state = "idle" /\ UNCHANGED accepting /\ do_connect(client, op, startPending, inbox)
  <2>1. client \in Clients
    BY <1>0, <1>5 DEF AcceptInv, StartInv, StartSound, SomeClient
  <2>2. QED BY <1>0, <1>2, <1>5, <2>1, ConnectDrive, Zenon
<1>6. CASE /\ state \in {"connecting", "connected"} /\ acceptOp' = op
           /\ IF tunnel # NoTunnel /\ state = "connected" /\ ~ closing
              THEN do_accept(op, tunnel, inbox)
              ELSE UNCHANGED <<accepting, taccept, inbox>>
           /\ UNCHANGED <<state, closing, client, tunnel, timer, cstate, tstate, tclient>>
  <2> HIDE DEF op
  <2>1. CASE tunnel # NoTunnel /\ state = "connected" /\ ~ closing /\ do_accept(op, tunnel, inbox)
    <3>1. op \in accepting' /\ accepting' \subseteq Waiting'
      <4>1. /\ tunnel \in Tunnels /\ op \in Ops \cup {NoOp} /\ op # NoOp
        BY <1>0, <2>1, NoneIsNone, Zenon DEF TypeInv
      <4>2. QED BY <1>0, <1>2, <2>1, <4>1, AcceptWaits, Zenon
    <3>2. Driven'
      BY <1>6, <2>1, <3>1 DEF Driven
    <3>3. QED BY <1>6, <2>1, <3>1, <3>2 DEF DriveInv
  <2>2. CASE /\ ~ (tunnel # NoTunnel /\ state = "connected" /\ ~ closing)
             /\ UNCHANGED <<accepting, taccept, inbox>>
    <3>1. Waiting' = Waiting /\ \A h : InboxHas(h)' <=> InboxHas(h)
      BY <2>2, HasElements DEF Waiting, WaitingIn, Told
    <3>2. TimerDue' <=> TimerDue
      BY <1>6, <3>1 DEF TimerDue
    <3>3. TunnelDue => TunnelDue'
      BY <1>1, <1>6, <2>2, <3>1, <3>2 DEF TunnelDue, EndDue
    <3>4. QED BY <1>6, <2>2, <3>1, <3>2, <3>3, Zenon DEF DriveInv, Driven
  <2>3. QED BY <1>6, <2>1, <2>2
<1>7. QED BY <1>3, <1>4, <1>5, <1>6, ZenonT(60) DEF async_accept_internal

(* The other strand handlers keep DriveInv. *)
LEMMA StrandDrive ==
  ASSUME TypeInv, AcceptInv, DriveInv, cancel_accept \/ close_internal \/ on_client_disconnection
  PROVE  DriveInv'
<1>0. inbox \in Seq(Events) /\ client \in SomeClient
  BY DEF TypeInv
<1>1. accepting \subseteq WaitingIn(inbox)
  BY DEF DriveInv, Waiting, WaitingIn, Told
<1>2. ASSUME NEW r, on_close(r, client, acceptOp, inbox), UNCHANGED accepting PROVE DriveInv'
  BY <1>0, <1>1, <1>2, ClosedDrive, ZenonT(60)
<1>3. ASSUME Elements(inbox) \subseteq Elements(inbox'), accepting' \subseteq Waiting',
             EndDue => EndDue',
             UNCHANGED <<accepting, state, closing, client, tunnel, timer, tstate>>,
             acceptOp' \in {acceptOp, NoOp},
             state = "connecting" => cstate'[client] = cstate[client] \/ InboxHas("connected")'
      PROVE  DriveInv'
  <2>1. \A h : InboxHas(h) => InboxHas(h)'
    BY <1>3, LoseNone
  <2>2. TimerDue => TimerDue'
    BY <1>3, <2>1 DEF TimerDue
  <2>3. TunnelDue => TunnelDue'
    BY <1>3, <2>1, <2>2, Zenon DEF TunnelDue, EndDue
  <2>4. Driven => Driven'
    BY <1>3, <2>2, <2>3, ZenonT(60) DEF Driven
  <2>5. QED BY <1>3, <2>1, <2>4, Zenon DEF DriveInv
<1>4. CASE cancel_accept
  <2> DEFINE op == Head(strand).op
  <2>1. EndDue => EndDue'
    BY <1>4, EndKept, ZenonT(60)
  <2>2. UNCHANGED <<accepting, state, closing, client, tunnel, timer, tstate, cstate>>
    BY <1>4 DEF cancel_accept
  <2>3. CASE UNCHANGED <<inbox, taccept>> /\ acceptOp' \in {acceptOp, NoOp}
    <3>1. accepting' \subseteq Waiting'
      BY <2>2, <2>3 DEF DriveInv, Waiting, WaitingIn, Told
    <3>2. QED BY <1>3, <2>1, <2>2, <2>3, <3>1, ZenonT(60)
  <2>4. CASE EmitCancellation(op) /\ UNCHANGED acceptOp /\ ~ UNCHANGED <<inbox, taccept>>
    <3>0. op \in Ops
      BY <1>4, HeadRead DEF cancel_accept
    <3> HIDE DEF op
    <3>1. PICK t \in Tunnels : /\ taccept[t] = op /\ taccept' = [taccept EXCEPT ![t] = NoOp]
                               /\ inbox' = Append(inbox, Event("accepted", tclient[t], FALSE, op))
      BY <2>4, Zenon DEF EmitCancellation
    <3> DEFINE e == Event("accepted", tclient[t], FALSE, op)
    <3>2. e.h = "accepted" /\ e.arg = op
      BY DEF Event
    <3>3. e \in Events
      BY <3>0, EventsMade, Zenon DEF TypeInv
    <3>4. inbox' = Append(inbox, e)
      BY <3>1, Zenon
    <3> HIDE DEF e
    <3>5. Elements(inbox') = Elements(inbox) \cup {e}
      BY <1>0, <3>3, <3>4, InboxGrows, Zenon
    <3>6. Told \subseteq Told' /\ op \in Told'
      BY <3>2, <3>5, LoseNone, Zenon DEF Told
    <3>7. \A u \in Tunnels : u # t => taccept'[u] = taccept[u]
      BY <3>1 DEF TypeInv
    <3>8. accepting' \subseteq Waiting'
      BY <2>2, <3>1, <3>6, <3>7, WaitingTold, Zenon DEF DriveInv
    <3>9. QED BY <1>3, <2>1, <2>2, <2>4, <3>5, <3>8, ZenonT(60)
  <2>5. QED BY <1>4, <2>3, <2>4 DEF cancel_accept
<1>5. CASE close_internal
  <2>1. EndDue => EndDue'
    BY <1>5, EndKept, Zenon
  <2>2. UNCHANGED accepting
    BY <1>5, Zenon DEF close_internal
  <2>3. CASE state = "null" /\ UNCHANGED <<state, tunnel, inbox, taccept>>
    BY <2>2, <2>3 DEF DriveInv, Driven, Waiting, WaitingIn, Told
  <2>4. CASE state = "idle" /\ on_close("aborted", client, acceptOp, inbox)
    BY <1>2, <2>2, <2>4, Zenon
  <2>5. CASE /\ state \in {"connecting", "connected"} /\ ClientClose(client, inbox)
             /\ UNCHANGED <<coreVars, tunnelVars>>
    <3>1. client \in Clients
      BY <1>0, <2>5 DEF AcceptInv, StartInv, StartSound, SomeClient
    <3> DEFINE e == Event("connected", client, FALSE, NoTunnel)
    <3>2. e.h = "connected"
      BY DEF Event
    <3>3. e \in Events
      BY <1>0, EventsMade, Zenon
    <3>4. \/ cstate[client] = "connecting" /\ inbox' = Append(inbox, e)
          \/ cstate[client] # "connecting" /\ inbox' = inbox
      BY <2>5, Zenon DEF ClientClose
    <3> HIDE DEF e
    <3>5. \/ cstate[client] = "connecting" /\ Elements(inbox') = Elements(inbox) \cup {e}
          \/ cstate[client] # "connecting" /\ inbox' = inbox
      BY <1>0, <3>3, <3>4, InboxGrows, ZenonT(60)
    <3>6. cstate[client] = "connecting" => InboxHas("connected")'
      BY <3>2, <3>5, HasElements
    <3>7. Elements(inbox) \subseteq Elements(inbox')
      BY <3>5
    <3>8. /\ accepting' \subseteq Waiting' /\ \A h : InboxHas(h) => InboxHas(h)'
      BY <2>2, <2>5, <3>7, LoseNone, Zenon DEF DriveInv, Waiting, WaitingIn, Told
    <3>9. state = "connecting" => InboxHas("connected")'
      BY <3>6, <3>8, Zenon DEF DriveInv
    <3>10. QED BY <1>3, <2>1, <2>2, <2>5, <3>7, <3>8, <3>9, ZenonT(60)
  <2>6. QED BY <1>5, <2>3, <2>4, <2>5, Zenon DEF close_internal
<1>6. CASE on_client_disconnection
  <2>1. UNCHANGED accepting
    BY <1>6, Zenon DEF on_client_disconnection
  <2>2. CASE state # "connected" /\ UNCHANGED <<coreVars, inbox, cstate, tunnelVars>>
    <3>1. Waiting' = Waiting /\ \A h : InboxHas(h)' <=> InboxHas(h)
      BY <2>2, HasElements DEF Waiting, WaitingIn, Told
    <3>2. QED BY <2>1, <2>2, <3>1, Zenon DEF DriveInv, Driven, TimerDue
  <2>3. CASE state = "connected" /\ \E r : on_close(r, client, acceptOp, inbox)
    BY <1>2, <2>1, <2>3, Zenon
  <2>4. CASE state' = "idle" /\ Detach /\ do_reconnect /\ UNCHANGED <<inbox, taccept>>
    BY <2>1, <2>4, Zenon DEF DriveInv, Driven, TimerDue, Waiting, WaitingIn, Told, Detach, do_reconnect
  <2>5. QED BY <1>6, <2>2, <2>3, <2>4, ZenonT(60) DEF on_client_disconnection
<1>7. QED BY <1>4, <1>5, <1>6

(* Handling an event that completes no accept leaves every accept *)
(* waiting.                                                       *)
LEMMA RestWaits ==
  ASSUME TypeInv, DriveInv, NEW i \in DOMAIN inbox
  PROVE  /\ Without(i) \in Seq(Events) /\ Elements(inbox) = Elements(Without(i)) \cup {inbox[i]}
         /\ inbox[i].h # "accepted" => accepting \subseteq WaitingIn(Without(i))
         /\ accepting \ {inbox[i].arg} \subseteq WaitingIn(Without(i))
<1>1. Without(i) \in Seq(Events) /\ Elements(inbox) = Elements(Without(i)) \cup {inbox[i]}
  BY WithoutElements DEF TypeInv
<1>2. QED BY <1>1, Zenon DEF DriveInv, Waiting, WaitingIn

(* do_create_tunnel() leaves a creation pending, or its refusal on its way. *)
LEMMA CreateDrive ==
  ASSUME TypeInv, DriveInv, NEW rest \in Seq(Events), do_create_tunnel(rest),
         accepting \subseteq WaitingIn(rest), state' = "connected",
         UNCHANGED <<accepting, taccept, tunnel, acceptOp>>,
         tunnel # NoTunnel => acceptOp \in accepting \cup {NoOp}
  PROVE  DriveInv'
<1>1. ClientCreate(rest)
  BY DEF do_create_tunnel
<1>2. CASE inbox' = rest /\ \E t \in Tunnels : tstate'[t] = "creating"
  <2>1. TunnelDue'
    BY <1>2 DEF TunnelDue
  <2>2. accepting' \subseteq Waiting'
    BY <1>2, Zenon DEF Waiting, WaitingIn
  <2>3. QED BY <2>1, <2>2 DEF DriveInv, Driven
<1>3. CASE Elements(inbox') = Elements(rest) \cup {Event("created", client, FALSE, NoTunnel)}
  <2> DEFINE e == Event("created", client, FALSE, NoTunnel)
  <2>1. e.h = "created"
    BY DEF Event
  <2>2. Elements(inbox') = Elements(rest) \cup {e}
    BY <1>3, Zenon
  <2> HIDE DEF e
  <2>3. TunnelDue'
    BY <2>1, <2>2, HasElements, Zenon DEF TunnelDue
  <2>4. accepting' \subseteq Waiting'
    BY <2>2 DEF Waiting, WaitingIn
  <2>5. QED BY <2>3, <2>4 DEF DriveInv, Driven
<1>4. QED BY <1>1, <1>2, <1>3, CreateInbox, Zenon

(* The completion handlers keep DriveInv. *)
LEMMA InboxDrive ==
  ASSUME TypeInv, AcceptInv, DriveInv, NEW i \in DOMAIN inbox, InboxStep(i)
  PROVE  DriveInv'
<1> DEFINE e == inbox[i]
           rest == Without(i)
<1>1. /\ rest \in Seq(Events) /\ Elements(inbox) = Elements(rest) \cup {e}
      /\ e.h # "accepted" => accepting \subseteq WaitingIn(rest)
      /\ accepting \ {e.arg} \subseteq WaitingIn(rest)
  BY RestWaits
<1>2. client \in SomeClient /\ UNCHANGED strand
  BY ZenonT(60) DEF TypeInv, InboxStep, on_connect, on_create_tunnel, on_accept, on_timer_cb
<1> HIDE DEF rest
<1>3. ASSUME NEW r, NEW op, on_close(r, client, op, rest), accepting' \subseteq WaitingIn(rest) PROVE DriveInv'
  BY <1>1, <1>2, <1>3, ClosedDrive, ZenonT(60)
<1>4. ASSUME inbox' = rest, accepting' \subseteq WaitingIn(rest), UNCHANGED taccept
      PROVE  accepting' \subseteq Waiting' /\ \A h : h # e.h => (InboxHas(h) => InboxHas(h)')
  BY <1>1, <1>4, LoseOne DEF Waiting, WaitingIn
<1>5. CASE on_connect(i)
  <2>1. e.h = "connected" /\ accepting' = accepting /\ accepting' \subseteq WaitingIn(rest)
    BY <1>1, <1>5, ZenonT(60) DEF on_connect, Deliver
  <2>2. CASE state # "connecting" /\ inbox' = rest /\ UNCHANGED <<coreVars, cstate, tunnelVars>>
    <3>1. accepting' \subseteq Waiting' /\ \A h : h # "connected" => (InboxHas(h) => InboxHas(h)')
      BY <1>4, <2>1, <2>2, Zenon
    <3>2. (TimerDue => TimerDue') /\ (TunnelDue => TunnelDue')
      BY <1>2, <2>2, <3>1, Zenon DEF TimerDue, TunnelDue
    <3>3. QED BY <2>1, <2>2, <3>1, <3>2, ZenonT(60) DEF DriveInv, Driven
  <2>3. CASE \E r : on_close(r, client, acceptOp, rest)
    BY <1>3, <2>1, <2>3, Zenon
  <2>4. CASE /\ state = "connecting" /\ state' = "idle" /\ do_reconnect /\ inbox' = rest
             /\ UNCHANGED <<tunnel, taccept>>
    <3>1. accepting' \subseteq Waiting'
      BY <1>4, <2>1, <2>4, Zenon
    <3>2. QED BY <2>4, <3>1 DEF DriveInv, Driven, TimerDue, do_reconnect
  <2>5. CASE /\ state = "connecting" /\ state' = "connected" /\ do_create_tunnel(rest)
             /\ UNCHANGED <<tunnel, acceptOp, taccept>>
    <3>1. tunnel = NoTunnel
      BY <2>5, Zenon DEF DriveInv
    <3>2. QED BY <1>1, <2>1, <2>5, <3>1, CreateDrive, Zenon
  <2>6. QED BY <1>5, <2>2, <2>3, <2>4, <2>5, Zenon DEF on_connect, rest
<1>6. CASE on_create_tunnel(i)
  <2>1. e.h = "created" /\ accepting \subseteq WaitingIn(rest) /\ (e.ok => e.arg \in Tunnels)
    BY <1>1, <1>6, DeliverRead, ZenonT(60) DEF on_create_tunnel, Deliver
  <2>2. CASE /\ state # "connected" \/ closing
             /\ inbox' = rest /\ UNCHANGED <<accepting, coreVars, cstate, tunnelVars>>
    <3>1. accepting' \subseteq Waiting' /\ \A h : h # "created" => (InboxHas(h) => InboxHas(h)')
      BY <1>4, <2>1, <2>2, Zenon
    <3>2. TimerDue => TimerDue'
      BY <2>2, <3>1, Zenon DEF TimerDue
    <3>3. QED BY <2>1, <2>2, <3>1, <3>2, ZenonT(60) DEF DriveInv, Driven
  <2>3. CASE on_close("error", client, acceptOp, rest) /\ UNCHANGED accepting
    BY <1>3, <2>1, <2>3, Zenon
  <2>4. CASE /\ state = "connected" /\ do_recreate_tunnel /\ inbox' = rest
             /\ UNCHANGED <<accepting, state, closing, tunnel, acceptOp, taccept>>
    <3>1. accepting' \subseteq Waiting'
      BY <1>4, <2>1, <2>4
    <3>2. QED BY <2>4, <3>1, Zenon DEF DriveInv, Driven, TimerDue, TunnelDue, do_recreate_tunnel
  <2>5. CASE /\ state = "connected" /\ e.ok /\ tunnel' = e.arg
             /\ IF closing THEN inbox' = rest /\ UNCHANGED <<accepting, taccept>>
                ELSE do_accept(acceptOp, e.arg, rest)
             /\ UNCHANGED <<state, closing, acceptOp>>
    <3>1. CASE closing
      BY <1>4, <2>1, <2>5, <3>1, Zenon DEF DriveInv
    <3>2. CASE ~ closing
      <4>1. acceptOp \in Ops \cup {NoOp} /\ e.arg \in Tunnels /\ e.arg # NoTunnel
        BY <2>1, <2>5, NoneIsNone, Zenon DEF TypeInv
      <4>2. accepting' \subseteq Waiting' /\ acceptOp \in accepting' \cup {NoOp}
        BY <1>1, <2>1, <2>5, <3>2, <4>1, AcceptWaits, ZenonT(60)
      <4>3. QED BY <2>5, <4>1, <4>2, ZenonT(60) DEF DriveInv, Driven
    <3>3. QED BY <3>1, <3>2, Zenon
  <2>6. QED BY <1>6, <2>2, <2>3, <2>4, <2>5, Zenon DEF on_create_tunnel, rest
<1>7. CASE on_accept(i)
  <2> DEFINE op == e.arg
             cleared == IF acceptOp = op THEN NoOp ELSE acceptOp
             serving == op \notin cancelled /\ state = "connected" /\ ~ closing
  <2>1. e.h = "accepted" /\ accepting' = accepting \ {op} /\ accepting' \subseteq WaitingIn(rest)
    BY <1>1, <1>7, ZenonT(60) DEF on_accept, Deliver
  <2>2. ASSUME inbox' = rest, UNCHANGED <<state, closing, client, tunnel, timer, cstate, tunnelVars>>,
               serving \/ op \in cancelled => acceptOp' = cleared,
               ~ serving /\ op \notin cancelled => acceptOp' = acceptOp
        PROVE  DriveInv'
    <3>1. accepting' \subseteq Waiting' /\ \A h : h # "accepted" => (InboxHas(h) => InboxHas(h)')
      BY <1>4, <2>1, <2>2, ZenonT(60)
    <3>2. (TimerDue => TimerDue') /\ (TunnelDue => TunnelDue')
      BY <1>2, <2>2, <3>1, Zenon DEF TimerDue, TunnelDue
    <3>3. QED BY <2>1, <2>2, <3>1, <3>2, ZenonT(60) DEF DriveInv, Driven
  <2>3. CASE \E r : on_close(r, client, acceptOp, rest)
    BY <1>3, <2>1, <2>3, Zenon
  <2>4. CASE /\ serving /\ Detach /\ do_recreate_tunnel /\ inbox' = rest
             /\ UNCHANGED <<state, closing, acceptOp, taccept>>
    <3>1. accepting' \subseteq Waiting'
      BY <1>4, <2>1, <2>4, Zenon
    <3>2. QED BY <2>4, <3>1, Zenon DEF DriveInv, Driven, TimerDue, TunnelDue, do_recreate_tunnel, Detach
  <2>5. QED BY <1>7, <2>2, <2>3, <2>4 DEF on_accept, rest
<1>8. CASE on_timer_cb(i)
  <2>1. e.h = "timer" /\ accepting' = accepting /\ accepting' \subseteq WaitingIn(rest)
    BY <1>1, <1>8, ZenonT(60) DEF on_timer_cb, Deliver
  <2>2. CASE /\ closing \/ state \in {"null", "connecting"}
             /\ inbox' = rest /\ UNCHANGED <<coreVars, cstate, tunnelVars>>
    <3>1. accepting' \subseteq Waiting' /\ \A h : h # "timer" => (InboxHas(h) => InboxHas(h)')
      BY <1>4, <2>1, <2>2, Zenon
    <3>2. QED BY <2>1, <2>2, <3>1, ZenonT(60) DEF DriveInv, Driven
  <2>3. CASE ~ closing /\ state = "idle" /\ do_connect(client, acceptOp, startPending, rest)
    <3>1. client \in Clients
      BY <1>2, <2>3, Zenon DEF AcceptInv, StartInv, StartSound, SomeClient
    <3>2. QED BY <1>1, <2>1, <2>3, <3>1, ConnectDrive, Zenon
  <2>4. CASE /\ ~ closing /\ state = "connected" /\ do_create_tunnel(rest)
             /\ UNCHANGED <<coreVars, taccept>>
    <3>1. tunnel # NoTunnel => acceptOp \in accepting \cup {NoOp}
      BY <2>4 DEF DriveInv, Driven
    <3>2. QED BY <1>1, <2>1, <2>4, <3>1, CreateDrive, Zenon
  <2>5. QED BY <1>8, <2>2, <2>3, <2>4 DEF on_timer_cb, rest
<1>9. QED BY <1>5, <1>6, <1>7, <1>8, Zenon DEF InboxStep

(* The steps of the clients, the tunnels and the timer keep DriveInv. *)
LEMMA ClientDrive ==
  ASSUME TypeInv, TypeInv', DriveInv, ClientNext
  PROVE  DriveInv'
<1>0. inbox \in Seq(Events) /\ UNCHANGED <<accepting, state, closing, client, tunnel, acceptOp>>
  BY ZenonT(60) DEF TypeInv, ClientNext, TimerExpires, ConnectDone, SessionEnd, AcceptDone, TunnelClosed, CreateDone
<1>1. EndDue => EndDue'
  BY EndKept
<1>2. ASSUME Elements(inbox) \subseteq Elements(inbox'), accepting \subseteq Waiting',
             timer => TimerDue', (\E t \in Tunnels : tstate[t] = "creating") => TunnelDue',
             state = "connecting" => cstate'[client] = cstate[client] \/ InboxHas("connected")'
      PROVE  DriveInv'
  <2>1. \A h : InboxHas(h) => InboxHas(h)'
    BY <1>2, LoseNone
  <2>2. TimerDue => TimerDue'
    BY <1>2, <2>1, Zenon DEF TimerDue
  <2>3. TunnelDue => TunnelDue'
    BY <1>1, <1>2, <2>1, <2>2 DEF TunnelDue, EndDue
  <2>4. Driven => Driven'
    BY <1>0, <2>2, <2>3, ZenonT(60) DEF Driven
  <2>5. QED BY <1>0, <1>2, <2>1, <2>4, Zenon DEF DriveInv
<1>3. ASSUME NEW e \in Events, inbox' = Append(inbox, e)
      PROVE  /\ Elements(inbox') = Elements(inbox) \cup {e} /\ InboxHas(e.h)' /\ Told \subseteq Told'
             /\ e.h = "accepted" => e.arg \in Told'
  <2>1. Elements(inbox') = Elements(inbox) \cup {e}
    BY <1>0, <1>3, InboxGrows
  <2>2. QED BY <2>1, HasElements, LoseNone DEF Told
<1>4. CASE TimerExpires
  <2> DEFINE e == Event("timer", NoClient, TRUE, NoTunnel)
  <2>1. e.h = "timer"
    BY DEF Event
  <2>2. e \in Events /\ inbox' = Append(inbox, e) /\ UNCHANGED <<cstate, tunnelVars>>
    BY <1>4, EventsMade, Zenon DEF TimerExpires
  <2> HIDE DEF e
  <2>3. InboxHas("timer")' /\ Elements(inbox) \subseteq Elements(inbox') /\ Told \subseteq Told'
    BY <1>3, <2>1, <2>2
  <2>4. TimerDue' /\ TunnelDue'
    BY <2>3, Zenon DEF TimerDue, TunnelDue
  <2>5. accepting \subseteq Waiting'
    BY <2>2, <2>3, WaitingTold, Zenon DEF DriveInv
  <2>6. QED BY <1>2, <2>2, <2>3, <2>4, <2>5, Zenon
<1>5. ASSUME NEW c \in Clients, NEW ok \in BOOLEAN, ConnectDone(c, ok) PROVE DriveInv'
  <2> DEFINE e == Event("connected", c, ok, NoTunnel)
  <2>1. e.h = "connected"
    BY DEF Event
  <2>2. e \in Events /\ inbox' = Append(inbox, e) /\ UNCHANGED <<timer, tunnelVars>>
    BY <1>5, EventsMade, Zenon DEF ConnectDone, SomeClient
  <2> HIDE DEF e
  <2>3. InboxHas("connected")' /\ Elements(inbox) \subseteq Elements(inbox') /\ Told \subseteq Told'
    BY <1>3, <2>1, <2>2, Zenon
  <2>4. accepting \subseteq Waiting'
    BY <2>2, <2>3, WaitingTold, Zenon DEF DriveInv
  <2>5. QED BY <1>2, <2>2, <2>3, <2>4, Zenon DEF TimerDue, TunnelDue
<1>6. ASSUME NEW t \in Tunnels, NEW ok \in BOOLEAN, CreateDone(t, ok) PROVE DriveInv'
  <2> DEFINE e == Event("created", tclient[t], ok, IF ok THEN t ELSE NoTunnel)
  <2>1. e.h = "created"
    BY DEF Event
  <2>2. e \in Events
    BY EventsMade, Zenon DEF TypeInv
  <2>3. inbox' = Append(inbox, e) /\ UNCHANGED <<timer, cstate, taccept>>
    BY <1>6, Zenon DEF CreateDone
  <2> HIDE DEF e
  <2>4. InboxHas("created")' /\ Elements(inbox) \subseteq Elements(inbox') /\ Told \subseteq Told'
    BY <1>3, <2>1, <2>2, <2>3, Zenon
  <2>5. accepting \subseteq Waiting'
    BY <2>3, <2>4, WaitingTold, Zenon DEF DriveInv
  <2>6. QED BY <1>2, <2>3, <2>4, <2>5, Zenon DEF TimerDue, TunnelDue
<1>7. ASSUME NEW t \in Tunnels, NEW b \in BOOLEAN, taccept[t] # NoOp,
             inbox' = Append(inbox, Event("accepted", tclient[t], b, taccept[t]))
      PROVE  Elements(inbox) \subseteq Elements(inbox') /\ Told \subseteq Told' /\ taccept[t] \in Told'
  <2> DEFINE e == Event("accepted", tclient[t], b, taccept[t])
  <2>1. e.h = "accepted" /\ e.arg = taccept[t]
    BY DEF Event
  <2>2. e \in Events
    BY <1>7, EventsMade, Zenon DEF TypeInv
  <2>3. inbox' = Append(inbox, e)
    BY <1>7, Zenon
  <2> HIDE DEF e
  <2>4. QED BY <1>3, <2>1, <2>2, <2>3, Zenon
<1>8. ASSUME NEW t \in Tunnels, AcceptDone(t) \/ TunnelClosed(t) PROVE DriveInv'
  <2>1. /\ taccept' = [taccept EXCEPT ![t] = NoOp] /\ UNCHANGED <<timer, cstate>>
        /\ \A u \in Tunnels : tstate[u] = "creating" => tstate'[u] = "creating"
    BY <1>8, ZenonT(60) DEF AcceptDone, TunnelClosed, TypeInv
  <2>2. \A u \in Tunnels : u # t => taccept'[u] = taccept[u]
    BY <2>1 DEF TypeInv
  <2>3. /\ Elements(inbox) \subseteq Elements(inbox') /\ Told \subseteq Told'
        /\ taccept[t] \in Told' \cup {NoOp}
    <3>1. CASE inbox' = inbox /\ taccept[t] = NoOp
      BY <3>1 DEF Told
    <3>2. CASE \E b \in BOOLEAN : taccept[t] # NoOp
                 /\ inbox' = Append(inbox, Event("accepted", tclient[t], b, taccept[t]))
      BY <1>7, <3>2, Zenon
    <3>3. QED BY <1>8, <3>1, <3>2, Zenon DEF AcceptDone, TunnelClosed
  <2>4. NoOp \notin accepting
    BY NoneIsNone, Zenon DEF TypeInv
  <2>5. accepting \subseteq Waiting'
    BY <2>2, <2>3, <2>4, WaitingTold, Zenon DEF DriveInv
  <2>6. QED BY <1>2, <2>1, <2>3, <2>5, Zenon DEF TimerDue, TunnelDue
<1>9. ASSUME NEW c \in Clients, NEW clean \in BOOLEAN, SessionEnd(c, clean) PROVE DriveInv'
  <2>1. PICK A, B \in Seq(Events) :
          /\ inbox' = inbox \o A \o B
          /\ \A t \in Tunnels : tclient[t] = c /\ taccept[t] # NoOp =>
                \E k \in DOMAIN B : B[k] = Event("accepted", c, FALSE, taccept[t])
    BY <1>9, SessionEndInbox, ZenonT(60)
  <2>2. Elements(inbox') = Elements(inbox) \cup Elements(A) \cup Elements(B)
    BY <1>0, <2>1, InboxJoins
  <2>3. Told \subseteq Told' /\ Elements(inbox) \subseteq Elements(inbox')
    BY <2>2, LoseNone, Zenon
  <2>4. \A t \in Tunnels : tclient[t] = c /\ taccept[t] # NoOp => taccept[t] \in Told'
    <3> SUFFICES ASSUME NEW t \in Tunnels, tclient[t] = c, taccept[t] # NoOp PROVE taccept[t] \in Told'
      BY Zenon
    <3> DEFINE e == Event("accepted", c, FALSE, taccept[t])
    <3>1. e.h = "accepted" /\ e.arg = taccept[t]
      BY DEF Event
    <3>2. e \in Elements(B)
      BY <2>1, Zenon DEF Elements
    <3> HIDE DEF e
    <3>3. QED BY <2>2, <3>1, <3>2, ZenonT(60) DEF Told
  <2>5. /\ taccept' = [t \in Tunnels |-> IF tclient[t] = c THEN NoOp ELSE taccept[t]]
        /\ timer' = timer /\ strand' = Append(strand, Disconnected(c, clean))
        /\ cstate' = [cstate EXCEPT ![c] = "null"] /\ cstate[c] \in {"closing", "connected"}
    BY <1>9, Zenon DEF SessionEnd
  <2>6. EndDue'
    <3> DEFINE e == Disconnected(c, clean)
    <3>1. e.h = "disconnected"
      BY DEF Disconnected
    <3>2. e \in StrandItems /\ strand \in Seq(StrandItems) /\ strand' = Append(strand, e)
      BY <2>5, StrandMade, ZenonT(60) DEF TypeInv
    <3> HIDE DEF e
    <3>3. QED BY <3>1, <3>2, StrandGrows, Zenon DEF EndDue
  <2>7. NoOp \notin accepting
    BY NoneIsNone DEF TypeInv
  <2>8. accepting \subseteq Waiting'
    BY <2>3, <2>4, <2>5, <2>7, WaitingTold, ZenonT(60) DEF DriveInv
  <2>9. TunnelDue' /\ (timer => TimerDue')
    BY <2>5, <2>6, Zenon DEF TunnelDue, TimerDue, EndDue
  <2>10. state = "connecting" => cstate'[client] = cstate[client] \/ InboxHas("connected")'
    <3>1. CASE client = c /\ state = "connecting"
      BY <2>3, <2>5, <3>1, LoseNone, Zenon DEF DriveInv
    <3>2. CASE client # c
      <4>1. cstate \in [Clients -> ClientStates]
        BY Zenon DEF TypeInv
      <4>2. cstate'[client] = cstate[client]
        BY <2>5, <3>2, <4>1
      <4>3. QED BY <4>2, Zenon
    <3>3. QED BY <3>1, <3>2, Zenon
  <2>11. QED BY <1>2, <2>3, <2>8, <2>9, <2>10, Zenon
<1>10. QED BY <1>4, <1>5, <1>6, <1>8, <1>9, ZenonT(60) DEF ClientNext

(* The inductive invariant. *)
DrivenInv == AcceptInv /\ DriveInv

(* DriveInv holds initially. *)
LEMMA InitDrive == Init => DriveInv
  BY DEF Init, DriveInv, Driven, Waiting

(* Every step keeps the inductive invariant. *)
LEMMA StepDrive == DrivenInv /\ [Next]_vars => DrivenInv'
<1> SUFFICES ASSUME AcceptInv, DriveInv, [Next]_vars PROVE AcceptInv' /\ DriveInv'
  BY DEF DrivenInv
<1>1. AcceptInv'
  BY StepAccept
<1>2. TypeInv /\ TypeInv'
  BY <1>1 DEF AcceptInv
<1>3. DriveInv'
  BY <1>2, UserDrive, AcceptDrive, StrandDrive, InboxDrive, ClientDrive, Zenon DEF Next, StrandNext, InboxNext
<1>4. QED BY <1>1, <1>3

(* on_connect(), on_create_tunnel(), on_accept(), on_timer_cb() and     *)
(* on_client_disconnection(): an acceptor that holds an accept call and *)
(* is not closing always has something pending that will call it back.  *)
THEOREM NoLostWakeup == Spec => []AcceptDriven
<1>1. DrivenInv => AcceptDriven
  <2> SUFFICES ASSUME AcceptInv, DriveInv, acceptOp # NoOp, ~ closing PROVE AcceptDriven
    BY Zenon DEF DrivenInv, AcceptDriven
  <2>1. state \in States \ {"null"} /\ acceptOp \in Ops
    BY DEF AcceptInv, DoneInv, TypeInv
  <2>2. CASE state = "idle"
    BY <2>2 DEF DriveInv, Driven, TimerDue, AcceptDriven
  <2>3. CASE state = "connecting"
    BY <2>3 DEF DriveInv, AcceptDriven
  <2>4. CASE state = "connected" /\ tunnel = NoTunnel
    BY <2>4 DEF DriveInv, Driven, TimerDue, TunnelDue, Elements, AcceptDriven
  <2>5. CASE state = "connected" /\ tunnel # NoTunnel
    <3>1. acceptOp \in Waiting
      BY <2>5 DEF DriveInv, Driven
    <3>2. \/ \E t \in Tunnels : taccept[t] = acceptOp
          \/ \E i \in DOMAIN inbox : inbox[i].h = "accepted" /\ inbox[i].arg = acceptOp
      BY <3>1, Zenon DEF Waiting, WaitingIn, Elements
    <3>3. QED BY <2>5, <3>2, Zenon DEF AcceptDriven
  <2>6. QED BY <2>1, <2>2, <2>3, <2>4, <2>5, Zenon DEF States
<1>2. Init => DrivenInv
  BY InitAccept, InitDrive DEF DrivenInv
<1>3. QED BY <1>1, <1>2, StepDrive, PTL DEF Spec

-----------------------------------------------------------------------------
(***************************************************************************)
(* The tunnel of a connected acceptor is current, for any number of        *)
(* clients and tunnels, when one thread runs the executor. The completions *)
(* of an earlier session are handled before the next connection is         *)
(* reported; the inductive invariant is about the tunnels that the events  *)
(* behind that report will bring.                                          *)
(***************************************************************************)

-----------------------------------------------------------------------------
(* One connection is under way at a time, of the current client, and is *)
(* reported once, to an acceptor that is connecting.                    *)
ConnectInv ==
  /\ \A c \in Clients : cstate[c] = "connecting" =>
       state = "connecting" /\ c = client /\ ~ InboxHas("connected")
  /\ InboxHas("connected") => state = "connecting"
  /\ \A i, j \in DOMAIN inbox : inbox[i].h = "connected" /\ inbox[j].h = "connected" => i = j

(* Tunnel t is no leftover of an earlier session of the connected *)
(* client.                                                        *)
Current(t) ==
  client \in Clients /\ tclient[t] = client /\ cstate[client] = "connected" => tstate[t] # "stale"

(* Positions of the created tunnels that an acceptor in state st adopts *)
AdoptedIn(rest, st) ==
  {k \in DOMAIN rest :
     /\ rest[k].h = "created" /\ rest[k].ok
     /\ \/ st = "connected"
        \/ st = "connecting" /\ \E j \in DOMAIN rest : j < k /\ rest[j].h = "connected"}
Adopted == AdoptedIn(inbox, state)

(* The tunnel of a connected acceptor is current, and so is every tunnel *)
(* that it will adopt.                                                   *)
CurrentInv ==
  /\ state = "connected" /\ tunnel # NoTunnel => Current(tunnel)
  /\ \A k \in Adopted : Current(inbox[k].arg)

(* The inductive invariant: with one thread, events are handled in the *)
(* order they were posted in.                                          *)
CurrentTunnel == ConnectInv /\ (oneThread => CurrentInv)

(* inbox' is `rest' with something added at its end, which is no report of *)
(* a connection and no tunnel but, perhaps, the open tunnel t.             *)
Extends(rest, t) ==
  /\ \A k \in DOMAIN rest : k \in DOMAIN inbox' /\ inbox'[k] = rest[k]
  /\ \A k \in DOMAIN inbox' : k \in DOMAIN rest
       \/ /\ inbox'[k].h # "connected"
          /\ inbox'[k].h = "created" /\ inbox'[k].ok => inbox'[k].arg = t

(* An inbox that stays. *)
LEMMA ExtendsSame ==
  ASSUME NEW rest, inbox' = rest, NEW t
  PROVE  Extends(rest, t)
  BY DEF Extends

(* An inbox with one more event. *)
LEMMA ExtendsOne ==
  ASSUME NEW rest \in Seq(Events), NEW e \in Events, inbox' = Append(rest, e), NEW t,
         e.h # "connected", e.h = "created" /\ e.ok => e.arg = t
  PROVE  Extends(rest, t)
<1>1. /\ DOMAIN rest = 1 .. Len(rest) /\ DOMAIN inbox' = 1 .. Len(rest) + 1 /\ Len(rest) \in Nat
      /\ \A k \in 1 .. Len(rest) : inbox'[k] = rest[k]
      /\ inbox'[Len(rest) + 1] = e
  OBVIOUS
<1>2. QED BY <1>1 DEF Extends

(* An inbox with two more batches of events. *)
LEMMA ExtendsTwo ==
  ASSUME NEW rest \in Seq(Events), NEW a \in Seq(Events), NEW b \in Seq(Events),
         inbox' = rest \o a \o b, NEW t,
         \A e \in Elements(a) \cup Elements(b) : e.h # "connected" /\ ~ (e.h = "created" /\ e.ok)
  PROVE  Extends(rest, t)
<1> DEFINE ra == rest \o a
<1>1. /\ ra \in Seq(Events) /\ Len(ra) = Len(rest) + Len(a)
      /\ DOMAIN rest = 1 .. Len(rest) /\ Len(rest) \in Nat /\ Len(a) \in Nat /\ Len(b) \in Nat
      /\ \A k \in 1 .. Len(rest) : ra[k] = rest[k]
      /\ \A k \in 1 .. Len(a) : ra[Len(rest) + k] = a[k]
  BY ConcatFacts
<1> HIDE DEF ra
<1>2. /\ DOMAIN (ra \o b) = 1 .. Len(ra) + Len(b)
      /\ \A k \in 1 .. Len(ra) : (ra \o b)[k] = ra[k]
      /\ \A k \in 1 .. Len(b) : (ra \o b)[Len(ra) + k] = b[k]
  <2>1. ra \in Seq(Events)
    BY <1>1
  <2>2. /\ ra \o b \in Seq(Events) /\ Len(ra \o b) = Len(ra) + Len(b)
        /\ \A k \in 1 .. Len(ra) + Len(b) :
             (ra \o b)[k] = IF k <= Len(ra) THEN ra[k] ELSE b[k - Len(ra)]
    BY <2>1, ConcatFacts
  <2>3. Len(ra) \in Nat /\ Len(b) \in Nat
    BY <2>1
  <2>4. QED BY <2>2, <2>3
<1>3. inbox' = ra \o b
  BY DEF ra
<1>4. /\ \A k \in 1 .. Len(a) : a[k] \in Elements(a)
      /\ \A k \in 1 .. Len(b) : b[k] \in Elements(b)
  BY DEF Elements
<1>5. \A k \in DOMAIN rest : k \in DOMAIN inbox' /\ inbox'[k] = rest[k]
  BY <1>1, <1>2, <1>3
<1>6. ASSUME NEW k \in DOMAIN inbox', k \notin DOMAIN rest
      PROVE  inbox'[k] \in Elements(a) \cup Elements(b)
  <2>1. k \in 1 .. Len(rest) + Len(a) + Len(b) /\ k > Len(rest)
    BY <1>1, <1>2, <1>3, <1>6
  <2>2. CASE k <= Len(rest) + Len(a)
    <3>1. k - Len(rest) \in 1 .. Len(a) /\ k \in 1 .. Len(ra) /\ k = Len(rest) + (k - Len(rest))
      BY <1>1, <2>1, <2>2
    <3>2. inbox'[k] = a[k - Len(rest)]
      BY <1>1, <1>2, <1>3, <3>1, Zenon
    <3>3. QED BY <1>4, <3>1, <3>2, Zenon
  <2>3. CASE k > Len(rest) + Len(a)
    <3>1. k - Len(ra) \in 1 .. Len(b) /\ k = Len(ra) + (k - Len(ra))
      BY <1>1, <2>1, <2>3
    <3>2. inbox'[k] = b[k - Len(ra)]
      BY <1>2, <1>3, <3>1
    <3>3. QED BY <1>4, <3>1, <3>2, Zenon
  <2>4. k <= Len(rest) + Len(a) \/ k > Len(rest) + Len(a)
    <3>1. k \in Nat /\ Len(rest) + Len(a) \in Nat
      BY <1>1, <2>1
    <3>2. QED BY <3>1
  <2>5. QED BY <2>2, <2>3, <2>4, Zenon
<1>7. QED BY <1>5, <1>6, Zenon DEF Extends

(* The inbox holds the report of a connection, and one at most. *)
Reported(rest) == \E k \in DOMAIN rest : rest[k].h = "connected"
ReportedOnce(rest) ==
  \A k, l \in DOMAIN rest : rest[k].h = "connected" /\ rest[l].h = "connected" => k = l

(* Handling an event leaves no more reports than there were. *)
LEMMA RestReported ==
  ASSUME TypeInv, ConnectInv, NEW i \in DOMAIN inbox
  PROVE  /\ ReportedOnce(Without(i))
         /\ Reported(Without(i)) => Reported(inbox) /\ inbox[i].h # "connected"
<1> DEFINE rest == Without(i)
<1>0. inbox \in Seq(Events)
  BY Zenon DEF TypeInv
<1>1. /\ rest \in Seq(Events) /\ Len(rest) = Len(inbox) - 1
      /\ \A j \in DOMAIN rest : rest[j] = IF j < i THEN inbox[j] ELSE inbox[j + 1]
  BY <1>0, WithoutElements, Zenon
<1> HIDE DEF rest
<1>2. /\ DOMAIN rest = 1 .. Len(inbox) - 1 /\ DOMAIN inbox = 1 .. Len(inbox) /\ Len(inbox) \in Nat
      /\ i \in 1 .. Len(inbox)
  BY <1>0, <1>1
<1>3. \A k, l \in DOMAIN inbox : inbox[k].h = "connected" /\ inbox[l].h = "connected" => k = l
  BY Zenon DEF ConnectInv
<1>4. ASSUME NEW k \in DOMAIN rest
      PROVE  \E p \in DOMAIN inbox : rest[k] = inbox[p] /\ p # i /\ p = IF k < i THEN k ELSE k + 1
  BY <1>1, <1>2
<1>5. ReportedOnce(rest)
  <2> SUFFICES ASSUME NEW k \in DOMAIN rest, NEW l \in DOMAIN rest,
                      rest[k].h = "connected", rest[l].h = "connected"
               PROVE  k = l
    BY DEF ReportedOnce
  <2>1. PICK p \in DOMAIN inbox : rest[k] = inbox[p] /\ p = IF k < i THEN k ELSE k + 1
    BY <1>4
  <2>2. PICK q \in DOMAIN inbox : rest[l] = inbox[q] /\ q = IF l < i THEN l ELSE l + 1
    BY <1>4
  <2>3. p = q
    BY <1>3, <2>1, <2>2, Zenon
  <2>4. k \in Nat /\ l \in Nat /\ i \in Nat
    BY <1>2
  <2>5. (IF k < i THEN k ELSE k + 1) = (IF l < i THEN l ELSE l + 1)
    BY <2>1, <2>2, <2>3, Zenon
  <2>6. QED BY <2>4, <2>5
<1>6. ASSUME Reported(rest) PROVE Reported(inbox) /\ inbox[i].h # "connected"
  <2>1. PICK k \in DOMAIN rest : rest[k].h = "connected"
    BY <1>6 DEF Reported
  <2>2. PICK p \in DOMAIN inbox : rest[k] = inbox[p] /\ p # i
    BY <1>4, Zenon
  <2>3. QED BY <1>3, <2>1, <2>2, Zenon DEF Reported
<1>7. QED BY <1>5, <1>6, Zenon DEF rest

(* Steps that leave connections and their reports alone. *)
LEMMA ConnectKept ==
  ASSUME TypeInv, NEW rest, NEW t, Extends(rest, t), ReportedOnce(rest),
         Reported(rest) => state' = "connecting",
         \A c \in Clients : cstate'[c] = "connecting" =>
           state' = "connecting" /\ c = client' /\ ~ Reported(rest)
  PROVE  ConnectInv'
<1>1. \A k \in DOMAIN inbox' : inbox'[k].h = "connected" => k \in DOMAIN rest /\ rest[k].h = "connected"
  BY DEF Extends
<1>2. InboxHas("connected")' => Reported(rest)
  BY <1>1 DEF InboxHas, Reported
<1>3. \A k, l \in DOMAIN inbox' : inbox'[k].h = "connected" /\ inbox'[l].h = "connected" => k = l
  BY <1>1 DEF ReportedOnce
<1>4. QED BY <1>2, <1>3 DEF ConnectInv

(* The end of a connection attempt is its one report. *)
LEMMA ReportsOne ==
  ASSUME TypeInv, ConnectInv, NEW c \in Clients, NEW b \in BOOLEAN, cstate[c] = "connecting",
         inbox' = Append(inbox, Event("connected", c, b, NoTunnel)),
         NEW s \in ClientStates \ {"connecting"}, cstate' = [cstate EXCEPT ![c] = s],
         UNCHANGED <<state, client>>
  PROVE  /\ state = "connecting" /\ c = client /\ ConnectInv' /\ Adopted' = {}
<1>1. state = "connecting" /\ c = client /\ ~ InboxHas("connected")
  BY DEF ConnectInv
<1> DEFINE e == Event("connected", c, b, NoTunnel)
<1>2. e \in Events
  BY EventsMade, Zenon DEF SomeClient
<1>3. inbox' = Append(inbox, e) /\ inbox \in Seq(Events)
  BY Zenon DEF TypeInv
<1> HIDE DEF e
<1>4. /\ DOMAIN inbox = 1 .. Len(inbox) /\ DOMAIN inbox' = 1 .. Len(inbox) + 1 /\ Len(inbox) \in Nat
      /\ \A k \in 1 .. Len(inbox) : inbox'[k] = inbox[k]
  BY <1>2, <1>3
<1>5. \A k \in DOMAIN inbox' : inbox'[k].h = "connected" => k = Len(inbox) + 1
  <2>1. \A k \in DOMAIN inbox : inbox[k].h # "connected"
    BY <1>1, Zenon DEF InboxHas
  <2>2. \A k \in 1 .. Len(inbox) + 1 : k \in 1 .. Len(inbox) \/ k = Len(inbox) + 1
    BY <1>4
  <2>3. QED BY <1>4, <2>1, <2>2, Zenon
<1>6. \A d \in Clients : cstate'[d] # "connecting"
  BY <1>1 DEF TypeInv, ConnectInv
<1>7. ConnectInv'
  <2>1. \A k, l \in DOMAIN inbox' : inbox'[k].h = "connected" /\ inbox'[l].h = "connected" => k = l
    BY <1>5, Zenon
  <2>2. QED BY <1>1, <1>6, <2>1, Zenon DEF ConnectInv
<1>8. Adopted' = {}
  <2> SUFFICES ASSUME NEW k \in Adopted' PROVE FALSE
    BY Zenon
  <2>1. k \in DOMAIN inbox' /\ \E j \in DOMAIN inbox' : j < k /\ inbox'[j].h = "connected"
    BY <1>1, ZenonT(60) DEF Adopted, AdoptedIn
  <2>2. Len(inbox) + 1 < k
    BY <1>5, <2>1, Zenon
  <2>3. QED BY <1>4, <2>1, <2>2
<1>9. QED BY <1>1, <1>7, <1>8, Zenon

(* on_close() does not meet a client that is connecting: nothing is        *)
(* reported to an acceptor that has stopped.                               *)
LEMMA CloseReports ==
  ASSUME TypeInv, ConnectInv, NEW r, NEW op, NEW rest, client \in Clients,
         on_close(r, client, op, rest), cstate[client] # "connecting", ReportedOnce(rest), ~ Reported(rest)
  PROVE  ConnectInv' /\ CurrentInv'
<1>1. inbox' = rest /\ state' = "null" /\ \A c \in Clients : cstate'[c] = "connecting" => cstate[c] = "connecting"
  BY DEF on_close, ClientClose, TypeInv
<1>2. \A c \in Clients : cstate'[c] # "connecting"
  BY <1>1, Zenon DEF ConnectInv
<1>3. ConnectInv'
  BY <1>1, <1>2, ExtendsSame, ConnectKept, Zenon
<1>4. QED BY <1>1, <1>3, Zenon DEF CurrentInv, Adopted, AdoptedIn

(* Current() in the next state, of a tunnel named in this one *)
StillCurrent(t) ==
  client' \in Clients /\ tclient'[t] = client' /\ cstate'[client'] = "connected" => tstate'[t] # "stale"

(* Steps that leave the session alone keep the tunnels that will be *)
(* adopted current.                                                 *)
LEMMA CurrentKept ==
  ASSUME TypeInv', NEW rest, NEW t, Extends(rest, t), t \in Tunnels => StillCurrent(t),
         state' = "connected" /\ tunnel' # NoTunnel => StillCurrent(tunnel'),
         \A k \in AdoptedIn(rest, state') : StillCurrent(rest[k].arg)
  PROVE  CurrentInv'
<1> SUFFICES ASSUME NEW k \in Adopted' PROVE StillCurrent(inbox'[k].arg)
  BY DEF CurrentInv, Current, StillCurrent
<1>1. /\ k \in DOMAIN inbox' /\ inbox'[k].h = "created" /\ inbox'[k].ok
      /\ \/ state' = "connected"
         \/ state' = "connecting" /\ \E j \in DOMAIN inbox' : j < k /\ inbox'[j].h = "connected"
  BY ZenonT(60) DEF Adopted, AdoptedIn
<1>2. inbox'[k].arg \in Tunnels
  <2>1. inbox' \in Seq(Events)
    BY Zenon DEF TypeInv
  <2>2. inbox'[k] \in Events
    BY <1>1, <2>1
  <2>3. QED BY <1>1, <2>2, EventsRead, Zenon
<1>3. CASE k \notin DOMAIN rest
  BY <1>1, <1>2, <1>3, Zenon DEF Extends
<1>4. CASE k \in DOMAIN rest
  <2>1. inbox'[k] = rest[k]
    BY <1>4 DEF Extends
  <2>2. \A j \in DOMAIN inbox' : inbox'[j].h = "connected" => j \in DOMAIN rest /\ rest[j].h = "connected"
    BY DEF Extends
  <2>3. k \in AdoptedIn(rest, state')
    BY <1>1, <1>4, <2>1, <2>2, Zenon DEF AdoptedIn
  <2>4. QED BY <2>1, <2>3, Zenon
<1>5. QED BY <1>3, <1>4, Zenon

(* What is adopted once the first event is handled was to be adopted before. *)
LEMMA RestAdopted ==
  ASSUME TypeInv, 1 \in DOMAIN inbox, NEW st,
         \/ st = state /\ (inbox[1].h # "connected" \/ state # "connecting")
         \/ st = "connected" /\ inbox[1].h = "connected" /\ state = "connecting"
  PROVE  \A k \in AdoptedIn(Without(1), st) : \E p \in Adopted : Without(1)[k] = inbox[p]
<1> DEFINE rest == Without(1)
<1>0. inbox \in Seq(Events)
  BY Zenon DEF TypeInv
<1>1. /\ rest \in Seq(Events) /\ Len(rest) = Len(inbox) - 1 /\ Len(inbox) \in Nat
      /\ \A j \in DOMAIN rest : rest[j] = IF j < 1 THEN inbox[j] ELSE inbox[j + 1]
  BY <1>0, WithoutElements
<1>2. \A j \in DOMAIN rest : j \in Nat /\ j + 1 \in DOMAIN inbox /\ rest[j] = inbox[j + 1] /\ 1 < j + 1
  BY <1>0, <1>1
<1> HIDE DEF rest
<1>3. ASSUME NEW k \in AdoptedIn(rest, st) PROVE k + 1 \in Adopted /\ rest[k] = inbox[k + 1]
  <2>1. k \in DOMAIN rest /\ rest[k] = inbox[k + 1] /\ k + 1 \in DOMAIN inbox
    BY <1>2 DEF AdoptedIn
  <2>2. CASE st = "connecting"
    <3>1. PICK j \in DOMAIN rest : j < k /\ rest[j].h = "connected"
      BY <2>2, Zenon DEF AdoptedIn
    <3>2. j + 1 \in DOMAIN inbox /\ j + 1 < k + 1 /\ inbox[j + 1].h = "connected"
      BY <1>2, <2>1, <3>1
    <3>3. QED BY <2>1, <2>2, <3>2, Zenon DEF AdoptedIn, Adopted
  <2>3. CASE st # "connecting"
    BY <1>2, <2>1, <2>3, Zenon DEF AdoptedIn, Adopted
  <2>4. QED BY <2>2, <2>3, Zenon
<1>4. QED BY <1>3, Zenon DEF rest

(* A new tunnel is none that the acceptor holds or is going to hold. *)
LEMMA CreateCurrent ==
  ASSUME TypeInv, NEW rest, ClientCreate(rest), UNCHANGED <<cstate, client>>
  PROVE  /\ tunnel \in Tunnels => (Current(tunnel) => StillCurrent(tunnel))
         /\ \A k \in DOMAIN inbox : inbox[k].arg \in Tunnels =>
              (Current(inbox[k].arg) => StillCurrent(inbox[k].arg))
<1>1. ASSUME NEW t \in Tunnels \ Free PROVE tstate'[t] = tstate[t] /\ tclient'[t] = tclient[t]
  BY <1>1, Zenon DEF ClientCreate, TypeInv
<1>2. tunnel \notin Free /\ \A k \in DOMAIN inbox : inbox[k].arg \notin Free
  BY DEF Free
<1>3. QED BY <1>1, <1>2, Zenon DEF Current, StillCurrent

(* InboxHas("connected") in terms of Reported(). *)
LEMMA InboxReported ==
  ASSUME ConnectInv
  PROVE  ReportedOnce(inbox) /\ (Reported(inbox) <=> InboxHas("connected"))
  BY DEF ConnectInv, ReportedOnce, Reported, InboxHas

(* Steps that take nothing out of the inbox and leave the session alone. *)
LEMMA SameSession ==
  ASSUME TypeInv, TypeInv', CurrentTunnel, UNCHANGED <<oneThread, state, client, tunnel>>,
         NEW t, Extends(inbox, t), t \in Tunnels => StillCurrent(t),
         \A u \in Tunnels : Current(u) => StillCurrent(u),
         \A c \in Clients : cstate'[c] = "connecting" => cstate[c] = "connecting"
  PROVE  CurrentTunnel'
<1>1. ConnectInv'
  <2>1. ReportedOnce(inbox) /\ (Reported(inbox) <=> InboxHas("connected"))
    BY InboxReported, Zenon DEF CurrentTunnel
  <2>2. QED BY <2>1, ConnectKept, Zenon DEF CurrentTunnel, ConnectInv
<1>2. ASSUME oneThread PROVE CurrentInv'
  <2>1. CurrentInv
    BY <1>2, Zenon DEF CurrentTunnel
  <2>2. tunnel' # NoTunnel /\ state' = "connected" => StillCurrent(tunnel')
    BY <2>1, Zenon DEF CurrentInv, TypeInv
  <2>3. \A k \in AdoptedIn(inbox, state') : StillCurrent(inbox[k].arg)
    <3> SUFFICES ASSUME NEW k \in Adopted PROVE StillCurrent(inbox[k].arg)
      BY DEF Adopted
    <3>1. k \in DOMAIN inbox /\ inbox[k].h = "created" /\ inbox[k].ok
      BY ZenonT(60) DEF Adopted, AdoptedIn
    <3>2. inbox[k].arg \in Tunnels
      <4>1. inbox \in Seq(Events)
        BY Zenon DEF TypeInv
      <4>2. inbox[k] \in Events
        BY <3>1, <4>1
      <4>3. QED BY <3>1, <4>2, EventsRead, Zenon
    <3>3. QED BY <2>1, <3>2, Zenon DEF CurrentInv
  <2>4. QED BY <2>2, <2>3, CurrentKept, Zenon
<1>3. QED BY <1>1, <1>2, Zenon DEF CurrentTunnel

(* do_connect() finds no report of an earlier connection. *)
LEMMA ConnectCurrent ==
  ASSUME TypeInv, TypeInv', CurrentTunnel, NEW c \in Clients, NEW op, NEW b, NEW rest,
         state \in {"null", "idle"}, do_connect(c, op, b, rest), ReportedOnce(rest), ~ Reported(rest)
  PROVE  CurrentTunnel'
<1>0. ConnectInv /\ \A d \in Clients : cstate[d] # "connecting"
  BY DEF CurrentTunnel, ConnectInv
<1>1. CASE on_close("error", c, op, rest)
  <2>1. inbox' = rest /\ state' = "null" /\ \A d \in Clients : cstate'[d] = "connecting" => cstate[d] = "connecting"
    BY <1>0, <1>1, ZenonT(60) DEF on_close, ClientClose, TypeInv
  <2>2. ConnectInv'
    BY <1>0, <2>1, ExtendsSame, ConnectKept, Zenon
  <2>3. QED BY <2>1, <2>2, Zenon DEF CurrentTunnel, CurrentInv, Adopted, AdoptedIn
<1>2. CASE cstate[c] \in {"new", "null"}
  <2>1. /\ state' = "connecting" /\ client' = c /\ inbox' = rest
        /\ \A d \in Clients : cstate'[d] = "connecting" => d = c
    BY <1>0, <1>2, Zenon DEF do_connect, TypeInv
  <2>2. ConnectInv'
    BY <2>1, ExtendsSame, ConnectKept, ZenonT(60)
  <2>3. Adopted' = {}
    BY <2>1 DEF Adopted, AdoptedIn, Reported
  <2>4. QED BY <2>1, <2>2, <2>3, Zenon DEF CurrentTunnel, CurrentInv
<1>3. QED BY <1>1, <1>2, Zenon DEF do_connect

(* The strand handlers keep the invariant. *)
LEMMA StrandCurrent ==
  ASSUME TypeInv, TypeInv', AcceptInv, CurrentTunnel, StrandNext
  PROVE  CurrentTunnel'
<1>0. /\ inbox \in Seq(Events) /\ UNCHANGED oneThread /\ client \in SomeClient
      /\ ReportedOnce(inbox) /\ (Reported(inbox) <=> InboxHas("connected"))
      /\ (state # "null" => client \in Clients) /\ (state = "null" => client = NoClient)
  <2>1. UNCHANGED oneThread
    BY ZenonT(60) DEF StrandNext, async_accept_internal, cancel_accept, close_internal, on_client_disconnection
  <2>2. (state # "null" => client \in Clients) /\ (state = "null" => client = NoClient)
    BY DEF AcceptInv, StartInv, StartSound, TypeInv, SomeClient
  <2>3. QED BY <2>1, <2>2, InboxReported, Zenon DEF TypeInv, CurrentTunnel
<1>1. ASSUME UNCHANGED <<state, client, tunnel, inbox, cstate, tstate, tclient>> PROVE CurrentTunnel'
  <2>1. Extends(inbox, NoTunnel)
    BY <1>1, ExtendsSame
  <2>2. \A u \in Tunnels : Current(u) => StillCurrent(u)
    BY <1>1 DEF Current, StillCurrent
  <2>3. QED BY <1>0, <1>1, <2>1, <2>2, SameSession, NoneIsNone, Zenon
<1>2. ASSUME UNCHANGED <<state, client, tunnel, cstate, tstate, tclient>>,
             NEW c \in SomeClient, NEW op \in Ops, inbox' = Append(inbox, Event("accepted", c, FALSE, op))
      PROVE  CurrentTunnel'
  <2> DEFINE e == Event("accepted", c, FALSE, op)
  <2>1. e.h = "accepted"
    BY DEF Event
  <2>2. e \in Events
    BY EventsMade, Zenon
  <2>3. inbox' = Append(inbox, e)
    BY <1>2, Zenon
  <2> HIDE DEF e
  <2>4. Extends(inbox, NoTunnel)
    BY <1>0, <2>1, <2>2, <2>3, ExtendsOne, Zenon
  <2>5. \A u \in Tunnels : Current(u) => StillCurrent(u)
    BY <1>2, Zenon DEF Current, StillCurrent
  <2>6. QED BY <1>0, <1>2, <2>4, <2>5, SameSession, NoneIsNone, ZenonT(60)
<1>3. ASSUME NEW r, state \in {"idle", "connected"}, on_close(r, client, acceptOp, inbox) PROVE CurrentTunnel'
  <2>1. ~ Reported(inbox) /\ cstate[client] # "connecting" /\ client \in Clients
    BY <1>0, <1>3, Zenon DEF CurrentTunnel, ConnectInv
  <2>2. QED BY <1>0, <1>3, <2>1, CloseReports, ZenonT(60) DEF CurrentTunnel
<1>4. CASE async_accept_internal
  <2> DEFINE op == Head(strand).op
  <2>0. op \in Ops
    BY <1>4, HeadRead, Zenon DEF async_accept_internal
  <2>1. CASE UNCHANGED <<coreVars, inbox, cstate, tunnelVars>>
    BY <1>1, <2>1, Zenon
  <2>2. CASE state = "null" /\ \E c \in Clients : do_connect(c, op, FALSE, inbox)
    <3>1. ~ Reported(inbox) /\ state \in {"null", "idle"}
      BY <1>0, <2>2 DEF CurrentTunnel, ConnectInv
    <3>2. PICK c \in Clients, b \in BOOLEAN : do_connect(c, op, b, inbox)
      BY <2>2, Zenon
    <3> HIDE DEF op
    <3>3. PICK o, rest : o = op /\ rest = inbox
      BY Zenon
    <3>4. state \in {"null", "idle"} /\ do_connect(c, o, b, rest) /\ ReportedOnce(rest) /\ ~ Reported(rest)
      BY <1>0, <3>1, <3>2, <3>3, Zenon
    <3>5. QED BY <3>4, ConnectCurrent
  <2>3. CASE state = "idle" /\ do_connect(client, op, startPending, inbox)
    <3>1. ~ Reported(inbox) /\ client \in Clients
      BY <1>0, <2>3 DEF CurrentTunnel, ConnectInv
    <3>2. ReportedOnce(inbox) /\ state \in {"null", "idle"}
      BY <1>0, <2>3, Zenon
    <3>3. PICK c, o, b, rest : c = client /\ o = op /\ b = startPending /\ rest = inbox
      BY Zenon
    <3> HIDE DEF op
    <3>4. /\ c \in Clients /\ state \in {"null", "idle"} /\ do_connect(c, o, b, rest)
          /\ ReportedOnce(rest) /\ ~ Reported(rest)
      BY <2>3, <3>1, <3>2, <3>3, Zenon
    <3>5. QED BY <3>4, ConnectCurrent
  <2>4. CASE /\ state \in {"connecting", "connected"}
             /\ IF tunnel # NoTunnel /\ state = "connected" /\ ~ closing
                THEN do_accept(op, tunnel, inbox)
                ELSE UNCHANGED <<accepting, taccept, inbox>>
             /\ UNCHANGED <<state, client, tunnel, cstate, tstate, tclient>>
    <3>1. CASE inbox' = inbox
      BY <1>1, <2>4, <3>1
    <3>2. CASE tunnel \in Tunnels /\ inbox' = Append(inbox, Event("accepted", tclient[tunnel], FALSE, op))
      <4>1. tclient[tunnel] \in SomeClient
        BY <3>2, ZenonT(60) DEF TypeInv
      <4>2. QED BY <1>2, <2>0, <2>4, <3>2, <4>1, ZenonT(60)
    <3>3. tunnel # NoTunnel => tunnel \in Tunnels
      BY DEF TypeInv
    <3>4. QED BY <2>4, <3>1, <3>2, <3>3, ZenonT(60) DEF do_accept, ClientAccept
  <2>5. QED BY <1>4, <2>1, <2>2, <2>3, <2>4, ZenonT(60) DEF async_accept_internal
<1>5. CASE cancel_accept
  <2>0. Head(strand).op \in Ops
    BY <1>5, HeadRead, ZenonT(60) DEF cancel_accept
  <2>1. UNCHANGED <<state, client, tunnel, cstate, tstate, tclient>>
    BY <1>5, Zenon DEF cancel_accept
  <2>2. CASE inbox' = inbox
    BY <1>1, <2>1, <2>2
  <2>3. CASE \E t \in Tunnels : inbox' = Append(inbox, Event("accepted", tclient[t], FALSE, Head(strand).op))
    <3>1. \A t \in Tunnels : tclient[t] \in SomeClient
      BY Zenon DEF TypeInv
    <3>2. QED BY <1>2, <2>0, <2>1, <2>3, <3>1, ZenonT(60)
  <2>4. QED BY <1>5, <2>2, <2>3, ZenonT(60) DEF cancel_accept, EmitCancellation
<1>6. CASE close_internal
  <2>1. CASE UNCHANGED <<state, client, tunnel, inbox, cstate, tunnelVars>>
    BY <1>1, <2>1, Zenon
  <2>2. CASE state = "idle" /\ on_close("aborted", client, acceptOp, inbox)
    BY <1>3, <2>2
  <2>3. CASE /\ state \in {"connecting", "connected"} /\ ClientClose(client, inbox)
             /\ UNCHANGED <<coreVars, tunnelVars>>
    <3>0. client \in Clients
      BY <1>0, <2>3, ZenonT(60)
    <3>1. CASE cstate[client] = "connecting"
      <4>1. /\ inbox' = Append(inbox, Event("connected", client, FALSE, NoTunnel))
            /\ cstate' = [cstate EXCEPT ![client] = "null"] /\ "null" \in ClientStates \ {"connecting"}
        BY <2>3, <3>1 DEF ClientClose, ClientStates
      <4>2. ConnectInv' /\ Adopted' = {} /\ state = "connecting"
        BY <2>3, <3>0, <3>1, <4>1, ReportsOne, ZenonT(60) DEF CurrentTunnel
      <4>3. QED BY <2>3, <4>2 DEF CurrentTunnel, CurrentInv
    <3>2. CASE cstate[client] # "connecting"
      <4>1. /\ inbox' = inbox /\ \A d \in Clients : cstate'[d] = "connecting" => cstate[d] = "connecting"
            /\ cstate'[client] = "connected" => cstate[client] = "connected"
        BY <2>3, <3>0, <3>2, Zenon DEF ClientClose, TypeInv
      <4>2. Extends(inbox, NoTunnel)
        BY <4>1, ExtendsSame, Zenon
      <4>3. \A u \in Tunnels : Current(u) => StillCurrent(u)
        BY <2>3, <4>1, Zenon DEF Current, StillCurrent
      <4>4. QED BY <1>0, <2>3, <4>1, <4>2, <4>3, SameSession, NoneIsNone, ZenonT(60)
    <3>3. QED BY <3>1, <3>2, Zenon
  <2>4. QED BY <1>6, <2>1, <2>2, <2>3, Zenon DEF close_internal
<1>7. CASE on_client_disconnection
  <2>1. CASE UNCHANGED <<coreVars, inbox, cstate, tunnelVars>>
    BY <1>1, <2>1
  <2>2. CASE state = "connected" /\ \E r : on_close(r, client, acceptOp, inbox)
    <3>1. state \in {"idle", "connected"}
      BY <2>2, Zenon
    <3>2. PICK r : on_close(r, client, acceptOp, inbox)
      BY <2>2, Zenon
    <3>3. QED BY <1>3, <3>1, <3>2
  <2>3. CASE state = "connected" /\ state' = "idle" /\ UNCHANGED <<client, inbox, cstate, tunnelVars>>
    <3>1. ~ Reported(inbox) /\ \A c \in Clients : cstate'[c] # "connecting"
      BY <1>0, <2>3, Zenon DEF CurrentTunnel, ConnectInv
    <3>2. ConnectInv'
      BY <1>0, <2>3, <3>1, ExtendsSame, ConnectKept, Zenon
    <3>3. QED BY <2>3, <3>2, Zenon DEF CurrentTunnel, CurrentInv, Adopted, AdoptedIn
  <2>4. QED BY <1>7, <2>1, <2>2, <2>3, Zenon DEF on_client_disconnection
<1>8. QED BY <1>4, <1>5, <1>6, <1>7, Zenon DEF StrandNext

(* The completion handlers keep the invariant. *)
LEMMA InboxCurrent ==
  ASSUME TypeInv, TypeInv', AcceptInv, DriveInv, CurrentTunnel, NEW i \in DOMAIN inbox, InboxStep(i)
  PROVE  CurrentTunnel'
<1> DEFINE rest == Without(i)
           e == inbox[i]
<1>0. /\ rest \in Seq(Events) /\ UNCHANGED oneThread /\ client \in SomeClient
      /\ ReportedOnce(rest) /\ (Reported(rest) => Reported(inbox) /\ e.h # "connected")
      /\ Reported(inbox) <=> InboxHas("connected")
      /\ state # "null" => client \in Clients
      /\ oneThread => i = 1
  <2>1. UNCHANGED oneThread /\ (oneThread => i = 1)
    BY ZenonT(60) DEF InboxStep, on_connect, on_create_tunnel, on_accept, on_timer_cb, Deliver
  <2>2. rest \in Seq(Events)
    BY WithoutElements, Zenon DEF TypeInv
  <2>3. ReportedOnce(rest) /\ (Reported(rest) => Reported(inbox) /\ e.h # "connected")
    BY RestReported, Zenon DEF CurrentTunnel
  <2>4. state # "null" => client \in Clients
    BY Zenon DEF AcceptInv, StartInv, StartSound, TypeInv, SomeClient
  <2>5. QED BY <2>1, <2>2, <2>3, <2>4, InboxReported, ZenonT(60) DEF TypeInv, CurrentTunnel
<1>1. ASSUME oneThread, NEW st,
             \/ st = state /\ (e.h # "connected" \/ state # "connecting")
             \/ st = "connected" /\ e.h = "connected" /\ state = "connecting"
      PROVE  /\ \A k \in AdoptedIn(rest, st) : \E p \in Adopted : rest[k] = inbox[p]
             /\ \A p \in Adopted : /\ p \in DOMAIN inbox /\ inbox[p].arg \in Tunnels
                                   /\ Current(inbox[p].arg)
  <2>1. \A k \in AdoptedIn(rest, st) : \E p \in Adopted : rest[k] = inbox[p]
    BY <1>0, <1>1, RestAdopted, Zenon
  <2>2. ASSUME NEW p \in Adopted
        PROVE  p \in DOMAIN inbox /\ inbox[p].arg \in Tunnels /\ Current(inbox[p].arg)
    <3>1. p \in DOMAIN inbox /\ inbox[p].h = "created" /\ inbox[p].ok
      BY Zenon DEF Adopted, AdoptedIn
    <3>2. inbox[p].arg \in Tunnels
      <4>1. inbox \in Seq(Events)
        BY Zenon DEF TypeInv
      <4>2. inbox[p] \in Events
        BY <3>1, <4>1
      <4>3. QED BY <3>1, <4>2, EventsRead, ZenonT(60)
    <3>3. QED BY <1>1, <3>1, <3>2, Zenon DEF CurrentTunnel, CurrentInv
  <2>3. QED BY <2>1, <2>2, Zenon
<1> HIDE DEF rest
<1>2. ASSUME e.h # "connected" \/ state # "connecting", UNCHANGED <<state, client, cstate>>,
             NEW t, Extends(rest, t), t \notin Tunnels,
             \A p \in DOMAIN inbox : inbox[p].arg \in Tunnels =>
                (Current(inbox[p].arg) => StillCurrent(inbox[p].arg)),
             oneThread /\ state = "connected" /\ tunnel' # NoTunnel => StillCurrent(tunnel')
      PROVE  CurrentTunnel'
  <2>1. ConnectInv'
    BY <1>0, <1>2, ConnectKept, Zenon DEF CurrentTunnel, ConnectInv
  <2>2. ASSUME oneThread PROVE CurrentInv'
    <3>1. \A k \in AdoptedIn(rest, state) : StillCurrent(rest[k].arg)
      BY <1>1, <1>2, <2>2, Zenon
    <3>2. QED BY <1>2, <2>2, <3>1, CurrentKept, Zenon
  <2>3. QED BY <1>0, <2>1, <2>2, Zenon DEF CurrentTunnel
<1>3. ASSUME NEW r, on_close(r, client, acceptOp, rest), state # "null",
             state = "connecting" => e.h = "connected"
      PROVE  CurrentTunnel'
  <2>1. client \in Clients /\ ~ Reported(rest)
    BY <1>0, <1>3, Zenon DEF CurrentTunnel, ConnectInv
  <2>2. cstate[client] # "connecting"
    BY <1>3, <2>1, Zenon DEF CurrentTunnel, ConnectInv, InboxHas
  <2>3. QED BY <1>0, <1>3, <2>1, <2>2, CloseReports, Zenon DEF CurrentTunnel
<1>4. ASSUME UNCHANGED <<client, cstate, tstate, tclient>>
      PROVE  \A u : Current(u) => StillCurrent(u)
  BY <1>4, Zenon DEF Current, StillCurrent
<1>5. ASSUME e.h # "connected" \/ state # "connecting",
             inbox' = rest, UNCHANGED <<state, client, cstate, tstate, tclient>>, tunnel' \in {tunnel, NoTunnel}
      PROVE  CurrentTunnel'
  <2>1. Extends(rest, NoTunnel)
    BY <1>5, ExtendsSame, Zenon
  <2>2. oneThread /\ state = "connected" /\ tunnel' # NoTunnel => StillCurrent(tunnel')
    BY <1>4, <1>5, Zenon DEF CurrentTunnel, CurrentInv
  <2>3. QED BY <1>2, <1>4, <1>5, <2>1, <2>2, NoneIsNone, Zenon
<1>6. ASSUME do_create_tunnel(rest), UNCHANGED <<client, cstate>>
      PROVE  /\ Extends(rest, NoTunnel)
             /\ tunnel \in Tunnels => (Current(tunnel) => StillCurrent(tunnel))
             /\ \A p \in DOMAIN inbox : inbox[p].arg \in Tunnels =>
                  (Current(inbox[p].arg) => StillCurrent(inbox[p].arg))
  <2>1. ClientCreate(rest)
    BY <1>6, Zenon DEF do_create_tunnel
  <2>2. Extends(rest, NoTunnel)
    <3> DEFINE f == Event("created", client, FALSE, NoTunnel)
    <3>1. f.h = "created" /\ f.ok = FALSE
      BY DEF Event
    <3>2. f \in Events
      BY <1>0, EventsMade, Zenon
    <3>3. inbox' = rest \/ inbox' = Append(rest, f)
      BY <2>1, Zenon DEF ClientCreate
    <3> HIDE DEF f
    <3>4. QED BY <1>0, <3>1, <3>2, <3>3, ExtendsSame, ExtendsOne, ZenonT(60)
  <2>3. QED BY <1>6, <2>1, <2>2, CreateCurrent, Zenon
<1>7. CASE on_connect(i)
  <2>1. e.h = "connected"
    BY <1>7, ZenonT(60) DEF on_connect, Deliver
  <2>2. CASE state # "connecting" /\ inbox' = rest /\ UNCHANGED <<coreVars, cstate, tunnelVars>>
    BY <1>5, <2>2, ZenonT(60)
  <2>3. CASE state = "connecting" /\ \E r : on_close(r, client, acceptOp, rest)
    BY <1>3, <2>1, <2>3, ZenonT(60)
  <2>4. ~ Reported(rest) /\ (state = "connecting" => \A c \in Clients : cstate[c] # "connecting")
    BY <1>0, <2>1, Zenon DEF CurrentTunnel, ConnectInv, InboxHas
  <2>5. CASE state = "connecting" /\ state' = "idle" /\ inbox' = rest /\ UNCHANGED cstate
    <3>1. ConnectInv'
      BY <1>0, <2>4, <2>5, ExtendsSame, ConnectKept, ZenonT(60)
    <3>2. QED BY <2>5, <3>1, Zenon DEF CurrentTunnel, CurrentInv, Adopted, AdoptedIn
  <2>6. CASE /\ state = "connecting" /\ state' = "connected" /\ do_create_tunnel(rest)
             /\ UNCHANGED <<client, tunnel, cstate>>
    <3>1. Extends(rest, NoTunnel) /\ tunnel' = NoTunnel
      BY <1>6, <2>6, Zenon DEF DriveInv
    <3>2. ConnectInv'
      BY <1>0, <2>4, <2>6, <3>1, ConnectKept, ZenonT(60)
    <3>3. ASSUME oneThread PROVE CurrentInv'
      <4>1. \A k \in AdoptedIn(rest, "connected") : StillCurrent(rest[k].arg)
        BY <1>1, <1>6, <2>1, <2>6, <3>3, ZenonT(60)
      <4>2. QED BY <2>6, <3>1, <4>1, CurrentKept, NoneIsNone, ZenonT(60)
    <3>4. QED BY <1>0, <3>2, <3>3, Zenon DEF CurrentTunnel
  <2>7. QED BY <1>7, <2>2, <2>3, <2>5, <2>6, Zenon DEF on_connect, rest
<1>8. CASE on_create_tunnel(i)
  <2>1. e.h = "created" /\ (e.ok => e.arg \in Tunnels)
    BY <1>8, DeliverRead, ZenonT(60) DEF on_create_tunnel, Deliver
  <2>2. CASE inbox' = rest /\ UNCHANGED <<state, client, tunnel, cstate, tunnelVars>>
    BY <1>5, <2>1, <2>2, Zenon
  <2>3. CASE state = "connected" /\ on_close("error", client, acceptOp, rest)
    BY <1>3, <2>1, <2>3, Zenon
  <2>4. CASE /\ state = "connected" /\ e.ok /\ tunnel' = e.arg
             /\ \/ inbox' = rest
                \/ /\ acceptOp # NoOp
                   /\ inbox' = Append(rest, Event("accepted", tclient[e.arg], FALSE, acceptOp))
             /\ UNCHANGED <<state, client, cstate, tstate, tclient>>
    <3>1. Extends(rest, NoTunnel)
      <4> DEFINE f == Event("accepted", tclient[e.arg], FALSE, acceptOp)
      <4>1. f.h = "accepted"
        BY DEF Event
      <4>2. acceptOp # NoOp => f \in Events
        <5>1. tclient[e.arg] \in SomeClient /\ (acceptOp # NoOp => acceptOp \in Ops)
          BY <2>1, <2>4, ZenonT(60) DEF TypeInv
        <5>2. QED BY <5>1, EventsMade, ZenonT(60)
      <4>3. inbox' = rest \/ (acceptOp # NoOp /\ inbox' = Append(rest, f))
        BY <2>4, Zenon
      <4> HIDE DEF f
      <4>4. QED BY <1>0, <4>1, <4>2, <4>3, ExtendsSame, ExtendsOne, ZenonT(60)
    <3>2. ASSUME oneThread PROVE StillCurrent(tunnel')
      <4>1. i \in Adopted
        BY <2>1, <2>4, Zenon DEF Adopted, AdoptedIn
      <4>2. Current(e.arg)
        BY <3>2, <4>1 DEF CurrentTunnel, CurrentInv
      <4>3. QED BY <1>4, <2>4, <4>2, Zenon
    <3>3. QED BY <1>2, <1>4, <2>1, <2>4, <3>1, <3>2, NoneIsNone, ZenonT(60)
  <2>5. CASE /\ state = "connected" /\ e.ok /\ tunnel' = e.arg
             /\ IF closing THEN inbox' = rest /\ UNCHANGED <<accepting, taccept>>
                ELSE do_accept(acceptOp, e.arg, rest)
             /\ UNCHANGED <<state, client, cstate, tstate, tclient>>
    <3>1. \/ inbox' = rest
          \/ /\ acceptOp # NoOp
             /\ inbox' = Append(rest, Event("accepted", tclient[e.arg], FALSE, acceptOp))
      <4>1. CASE closing
        BY <2>5, <4>1, Zenon
      <4>2. CASE do_accept(acceptOp, e.arg, rest)
        BY <4>2, ZenonT(60) DEF do_accept, ClientAccept
      <4>3. QED BY <2>5, <4>1, <4>2, ZenonT(60)
    <3>2. QED BY <2>4, <2>5, <3>1, Zenon
  <2>6. QED BY <1>8, <2>2, <2>3, <2>5, ZenonT(60) DEF on_create_tunnel, rest
<1>9. CASE on_accept(i)
  <2>1. e.h = "accepted"
    BY <1>9, ZenonT(60) DEF on_accept, Deliver
  <2>2. CASE inbox' = rest /\ UNCHANGED <<state, client, cstate, tunnelVars>> /\ tunnel' \in {tunnel, NoTunnel}
    BY <1>5, <2>1, <2>2, ZenonT(60)
  <2>3. CASE state = "connected" /\ on_close("error", client, acceptOp, rest)
    BY <1>3, <2>1, <2>3, Zenon
  <2>4. QED BY <1>9, <2>2, <2>3, Zenon DEF on_accept, rest, Detach
<1>10. CASE on_timer_cb(i)
  <2>1. e.h = "timer"
    BY <1>10, Zenon DEF on_timer_cb, Deliver
  <2>2. CASE inbox' = rest /\ UNCHANGED <<coreVars, cstate, tunnelVars>>
    BY <1>5, <2>1, <2>2, ZenonT(60)
  <2>3. CASE state = "idle" /\ do_connect(client, acceptOp, startPending, rest)
    <3>1. client \in Clients /\ ~ Reported(rest) /\ state \in {"null", "idle"}
      BY <1>0, <2>3, Zenon DEF CurrentTunnel, ConnectInv
    <3>2. ReportedOnce(rest) /\ do_connect(client, acceptOp, startPending, rest)
      BY <1>0, <2>3, Zenon
    <3> HIDE DEF rest
    <3>3. QED BY <3>1, <3>2, ConnectCurrent
  <2>4. CASE state = "connected" /\ do_create_tunnel(rest) /\ UNCHANGED <<coreVars, cstate>>
    <3>1. oneThread /\ tunnel' # NoTunnel => StillCurrent(tunnel')
      BY <1>6, <2>4, ZenonT(60) DEF CurrentTunnel, CurrentInv, TypeInv
    <3>2. QED BY <1>2, <1>6, <2>1, <2>4, <3>1, NoneIsNone, ZenonT(60)
  <2>5. QED BY <1>10, <2>2, <2>3, <2>4, ZenonT(60) DEF on_timer_cb, rest
<1>11. QED BY <1>7, <1>8, <1>9, <1>10, Zenon DEF InboxStep

(* The steps of the clients, the tunnels and the timer keep the *)
(* invariant.                                                   *)
LEMMA ClientCurrent ==
  ASSUME TypeInv, TypeInv', CurrentTunnel, ClientNext
  PROVE  CurrentTunnel'
<1>0. inbox \in Seq(Events) /\ UNCHANGED <<oneThread, state, client, tunnel>>
  BY ZenonT(60) DEF TypeInv, ClientNext, TimerExpires, ConnectDone, SessionEnd, AcceptDone, TunnelClosed, CreateDone
<1>1. ASSUME NEW t, Extends(inbox, t), t \in Tunnels => StillCurrent(t),
             UNCHANGED <<cstate, tclient>>, \A u \in Tunnels : tstate'[u] = "stale" => tstate[u] = "stale"
      PROVE  CurrentTunnel'
  <2>1. \A u \in Tunnels : Current(u) => StillCurrent(u)
    BY <1>0, <1>1, Zenon DEF Current, StillCurrent
  <2>2. QED BY <1>0, <1>1, <2>1, SameSession, Zenon
<1>2. CASE TimerExpires
  <2> DEFINE e == Event("timer", NoClient, TRUE, NoTunnel)
  <2>1. e.h = "timer"
    BY DEF Event
  <2>2. e \in Events /\ inbox' = Append(inbox, e) /\ UNCHANGED <<cstate, tunnelVars>>
    BY <1>2, EventsMade, Zenon DEF TimerExpires
  <2> HIDE DEF e
  <2>3. Extends(inbox, NoTunnel)
    BY <1>0, <2>1, <2>2, ExtendsOne, ZenonT(60)
  <2>4. QED BY <1>1, <2>2, <2>3, NoneIsNone, ZenonT(60)
<1>3. ASSUME NEW c \in Clients, NEW ok \in BOOLEAN, ConnectDone(c, ok) PROVE CurrentTunnel'
  <2>1. PICK s \in ClientStates \ {"connecting"} : cstate' = [cstate EXCEPT ![c] = s]
    BY <1>3, ZenonT(60) DEF ConnectDone, ClientStates
  <2>2. cstate[c] = "connecting" /\ inbox' = Append(inbox, Event("connected", c, ok, NoTunnel))
    BY <1>3 DEF ConnectDone
  <2>3. state = "connecting" /\ ConnectInv' /\ Adopted' = {}
    BY <1>0, <2>1, <2>2, ReportsOne, ZenonT(60) DEF CurrentTunnel
  <2>4. QED BY <1>0, <2>3 DEF CurrentTunnel, CurrentInv
<1>4. ASSUME NEW t \in Tunnels, NEW ok \in BOOLEAN, CreateDone(t, ok) PROVE CurrentTunnel'
  <2> DEFINE e == Event("created", tclient[t], ok, IF ok THEN t ELSE NoTunnel)
  <2>1. e.h = "created" /\ (e.ok => e.arg = t)
    BY DEF Event
  <2>2. e \in Events
    BY EventsMade, Zenon DEF TypeInv
  <2>3. inbox' = Append(inbox, e) /\ UNCHANGED <<cstate, tclient>>
    BY <1>4, Zenon DEF CreateDone
  <2> HIDE DEF e
  <2>4. Extends(inbox, t)
    BY <1>0, <2>1, <2>2, <2>3, ExtendsOne, ZenonT(60)
  <2>5. tstate'[t] # "stale" /\ \A u \in Tunnels : tstate'[u] = "stale" => tstate[u] = "stale"
    BY <1>4, Zenon DEF CreateDone, TypeInv
  <2>6. QED BY <1>1, <2>3, <2>4, <2>5, ZenonT(60) DEF StillCurrent
<1>5. ASSUME NEW t \in Tunnels, AcceptDone(t) \/ TunnelClosed(t) PROVE CurrentTunnel'
  <2>1. UNCHANGED <<cstate, tclient>> /\ \A u \in Tunnels : tstate'[u] = "stale" => tstate[u] = "stale"
    BY <1>5, ZenonT(60) DEF AcceptDone, TunnelClosed, TypeInv
  <2>2. PICK b \in BOOLEAN :
          \/ inbox' = inbox
          \/ taccept[t] # NoOp /\ inbox' = Append(inbox, Event("accepted", tclient[t], b, taccept[t]))
    <3>1. ASSUME AcceptDone(t)
          PROVE  taccept[t] # NoOp /\ inbox' = Append(inbox, Event("accepted", tclient[t], TRUE, taccept[t]))
      BY <3>1, Zenon DEF AcceptDone
    <3>2. ASSUME TunnelClosed(t)
          PROVE  \/ inbox' = inbox
                 \/ taccept[t] # NoOp /\ inbox' = Append(inbox, Event("accepted", tclient[t], FALSE, taccept[t]))
      BY <3>2, Zenon DEF TunnelClosed
    <3>3. TRUE \in BOOLEAN /\ FALSE \in BOOLEAN
      BY Zenon
    <3>4. QED BY <1>5, <3>1, <3>2, <3>3, ZenonT(60)
  <2> DEFINE e == Event("accepted", tclient[t], b, taccept[t])
  <2>3. e.h = "accepted"
    BY Zenon DEF Event
  <2>4. taccept[t] # NoOp => e \in Events
    BY EventsMade, Zenon DEF TypeInv
  <2>5. inbox' = inbox \/ (taccept[t] # NoOp /\ inbox' = Append(inbox, e))
    BY <2>2, Zenon
  <2> HIDE DEF e
  <2>6. Extends(inbox, NoTunnel)
    BY <1>0, <2>3, <2>4, <2>5, ExtendsSame, ExtendsOne, ZenonT(60)
  <2>7. QED BY <1>1, <2>1, <2>6, NoneIsNone, ZenonT(60)
<1>6. ASSUME NEW c \in Clients, NEW clean \in BOOLEAN, SessionEnd(c, clean) PROVE CurrentTunnel'
  <2>1. PICK A, B \in Seq(Events) :
          /\ inbox' = inbox \o A \o B
          /\ \A k \in DOMAIN A : A[k] = Event("created", c, FALSE, NoTunnel)
          /\ \A k \in DOMAIN B : \E t \in Tunnels :
                taccept[t] # NoOp /\ B[k] = Event("accepted", c, FALSE, taccept[t])
    BY <1>6, SessionEndInbox, ZenonT(60)
  <2>2. \A e \in Elements(A) \cup Elements(B) : e.h # "connected" /\ ~ (e.h = "created" /\ e.ok)
    BY <2>1 DEF Elements, Event
  <2>3. Extends(inbox, NoTunnel)
    BY <1>0, <2>1, <2>2, ExtendsTwo, ZenonT(60)
  <2>4. /\ cstate' = [cstate EXCEPT ![c] = "null"] /\ tclient' = tclient
        /\ \A t \in Tunnels : tclient[t] # c => tstate'[t] = tstate[t]
    BY <1>6, Zenon DEF SessionEnd
  <2>5. \A u \in Tunnels : Current(u) => StillCurrent(u)
    <3>1. cstate \in [Clients -> ClientStates] /\ tclient \in [Tunnels -> SomeClient]
      BY <1>0, ZenonT(60) DEF TypeInv
    <3>2. cstate'[c] # "connected" /\ \A d \in Clients : d # c => cstate'[d] = cstate[d]
      BY <2>4, <3>1, Zenon
    <3>3. QED BY <1>0, <2>4, <3>2, ZenonT(60) DEF Current, StillCurrent
  <2>6. \A d \in Clients : cstate'[d] = "connecting" => cstate[d] = "connecting"
    BY <2>4, Zenon DEF TypeInv
  <2>7. QED BY <1>0, <2>3, <2>5, <2>6, SameSession, NoneIsNone, ZenonT(60)
<1>7. QED BY <1>2, <1>3, <1>4, <1>5, <1>6, Zenon DEF ClientNext

(* API calls keep the invariant. *)
LEMMA UserCurrent ==
  ASSUME TypeInv, TypeInv', CurrentTunnel, UserNext \/ UNCHANGED vars
  PROVE  CurrentTunnel'
<1>1. UNCHANGED <<oneThread, state, client, tunnel, inbox, cstate, tstate, tclient>>
  BY DEF UserNext, bind, close, async_accept, dispatch_accept, EmitSlot
<1>2. Extends(inbox, NoTunnel)
  BY <1>1, ExtendsSame, Zenon
<1>3. \A u \in Tunnels : Current(u) => StillCurrent(u)
  BY <1>1, ZenonT(60) DEF Current, StillCurrent
<1>4. QED BY <1>1, <1>2, <1>3, SameSession, NoneIsNone, ZenonT(60)

(* It holds initially. *)
LEMMA InitCurrent == Init => CurrentTunnel
  BY DEF Init, CurrentTunnel, ConnectInv, CurrentInv, Adopted, AdoptedIn, InboxHas

(* Every step keeps it. *)
LEMMA StepCurrent == DrivenInv /\ CurrentTunnel /\ [Next]_vars => CurrentTunnel'
<1> SUFFICES ASSUME AcceptInv, DriveInv, CurrentTunnel, [Next]_vars PROVE CurrentTunnel'
  BY Zenon DEF DrivenInv
<1>1. TypeInv /\ TypeInv'
  BY StepType DEF AcceptInv
<1>2. QED BY <1>1, UserCurrent, StrandCurrent, InboxCurrent, ClientCurrent, ZenonT(60) DEF Next, InboxNext

(* on_create_tunnel() and the end of a session: with one thread, an *)
(* acceptor that is connected never accepts from a tunnel that its  *)
(* client has lost with an earlier session.                         *)
THEOREM TunnelIsCurrent == Spec => []TunnelCurrent
<1>1. DrivenInv /\ CurrentTunnel => TunnelCurrent
  <2>1. DrivenInv /\ state = "connected" => client \in Clients
    BY Zenon DEF DrivenInv, AcceptInv, StartInv, StartSound, TypeInv, SomeClient
  <2>2. QED BY <2>1, Zenon DEF CurrentTunnel, CurrentInv, Current, TunnelCurrent
<1>2. Init => DrivenInv /\ CurrentTunnel
  BY InitAccept, InitDrive, InitCurrent, Zenon DEF DrivenInv
<1>3. QED BY <1>1, <1>2, StepDrive, StepCurrent, PTL DEF Spec
=============================================================================
