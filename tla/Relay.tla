-------------------------------- MODULE Relay --------------------------------
(***************************************************************************)
(* A session that relays a connection to a target, as the ncat server and  *)
(* the tunnel proxy run it.  A session is a record and runs on a strand of *)
(* its own: what its owner asks of it waits in its mailbox, in order.  The *)
(* operators give the states that a handler may leave the session in; the  *)
(* modules of the two programs name the handlers.                          *)
(***************************************************************************)
EXTENDS Sequences

Sides == {"downstream", "upstream"}

Other(side) == IF side = "downstream" THEN "upstream" ELSE "downstream"

Absent == [state |-> "absent", mail |-> <<>>, io |-> "none", timer |-> FALSE,
           reads |-> {}, writes |-> {}, posted |-> FALSE]

Created == [Absent EXCEPT !.state = "null", !.mail = <<"run">>]

(* the sessions of a set are sent a message *)
Mailed(sessions, set, what) ==
  [i \in DOMAIN sessions |->
     IF i \in set THEN [sessions[i] EXCEPT !.mail = Append(@, what)] ELSE sessions[i]]

(* both sockets are closed, so that every operation in progress ends; the
   completion is posted to the owner *)
Closed(p) ==
  IF p.state \in {"null", "disconnected"} THEN p
  ELSE [p EXCEPT !.state = "disconnected", !.timer = FALSE, !.posted = TRUE]

Started(p) == [p EXCEPT !.state = "connecting", !.timer = TRUE, !.io = "resolve"]

AfterMail(p) ==
  LET q == [p EXCEPT !.mail = Tail(@)]
  IN IF Head(p.mail) = "run" THEN Started(q) ELSE Closed(q)

(* a handler that finds the session in the state it expects goes on or closes
   the session; otherwise it does nothing *)
Outcomes(p, expected, ok) == IF p.state # expected THEN {p} ELSE {Closed(p), ok}

AfterResolve(p) ==
  LET q == [p EXCEPT !.io = "none"] IN Outcomes(q, "connecting", [q EXCEPT !.io = "connect"])

AfterOpen(p) ==
  LET q == [p EXCEPT !.io = "none"]
  IN Outcomes(q, "connecting", [q EXCEPT !.state = "connected", !.timer = FALSE, !.reads = Sides])

(* what one side sent is written to the other, and then read again *)
AfterRead(p, side) ==
  LET q == [p EXCEPT !.reads = @ \ {side}]
  IN Outcomes(q, "connected", [q EXCEPT !.writes = @ \cup {Other(side)}])

AfterWrite(p, side) ==
  LET q == [p EXCEPT !.writes = @ \ {side}]
  IN Outcomes(q, "connected", [q EXCEPT !.reads = @ \cup {Other(side)}])
=============================================================================
