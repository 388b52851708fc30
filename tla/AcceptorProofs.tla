--------------------------- MODULE AcceptorProofs ---------------------------
(***************************************************************************)
(* The accept calls of the acceptor, proved for any number of calls,       *)
(* clients and tunnels. The inductive invariant follows an accept          *)
(* operation from the strand (Queued) to the acceptor, its tunnels and the *)
(* inbox (Held): the strand takes it once, and from then on it is complete *)
(* or held in m_accept_op.                                                 *)
(***************************************************************************)
EXTENDS Acceptor, TLAPS

USE DEF fixedVars, callVars, doneVars, startVars, coreVars, tunnelVars, acceptorVars, vars

(* The constants that stand for "none" are none of the things they replace. *)
LEMMA NoneIsNone == NoOp \notin Ops /\ NoClient \notin Clients /\ NoTunnel \notin Tunnels
  BY AcceptorAssumption

Elements(s) == {s[k] : k \in DOMAIN s}

(* Length and elements of a concatenation. *)
LEMMA ConcatFacts ==
  ASSUME NEW S, NEW s \in Seq(S), NEW t \in Seq(S)
  PROVE  /\ s \o t \in Seq(S) /\ Len(s \o t) = Len(s) + Len(t)
         /\ \A i \in 1 .. Len(s) + Len(t) :
              (s \o t)[i] = IF i <= Len(s) THEN s[i] ELSE t[i - Len(s)]
  OBVIOUS

(* The elements of a sequence with one more at its end. *)
LEMMA AppendElements ==
  ASSUME NEW S, NEW s \in Seq(S), NEW e \in S
  PROVE  /\ Append(s, e) \in Seq(S)
         /\ Elements(Append(s, e)) = Elements(s) \cup {e}
<1>1. Append(s, e) \in Seq(S)
  OBVIOUS
<1>2. ASSUME NEW x \in Elements(Append(s, e)) PROVE x \in Elements(s) \cup {e}
  BY <1>2 DEF Elements
<1>3. ASSUME NEW x \in Elements(s) PROVE x \in Elements(Append(s, e))
  <2>1. PICK k \in DOMAIN s : x = s[k]
    BY DEF Elements
  <2>2. k \in DOMAIN Append(s, e) /\ Append(s, e)[k] = x
    BY <2>1
  <2>3. QED BY <2>2 DEF Elements
<1>4. e \in Elements(Append(s, e))
  <2>1. Len(s) + 1 \in DOMAIN Append(s, e) /\ Append(s, e)[Len(s) + 1] = e
    OBVIOUS
  <2>2. QED BY <2>1 DEF Elements
<1>5. QED BY <1>1, <1>2, <1>3, <1>4

(* The elements of a sequence without its head. *)
LEMMA TailElements ==
  ASSUME NEW S, NEW s \in Seq(S), s # <<>>
  PROVE  /\ Head(s) \in S /\ Head(s) \in Elements(s)
         /\ Tail(s) \in Seq(S)
         /\ Elements(s) = Elements(Tail(s)) \cup {Head(s)}
<1>1. Head(s) \in S /\ Tail(s) \in Seq(S) /\ 1 \in DOMAIN s /\ Head(s) = s[1]
  OBVIOUS
<1>2. ASSUME NEW x \in Elements(Tail(s)) PROVE x \in Elements(s)
  <2>1. PICK k \in DOMAIN Tail(s) : x = Tail(s)[k]
    BY DEF Elements
  <2>2. k + 1 \in DOMAIN s /\ s[k + 1] = x
    BY <2>1
  <2>3. QED BY <2>2 DEF Elements
<1>3. ASSUME NEW x \in Elements(s), x # Head(s) PROVE x \in Elements(Tail(s))
  <2>1. PICK k \in DOMAIN s : x = s[k]
    BY DEF Elements
  <2>2. k - 1 \in DOMAIN Tail(s) /\ Tail(s)[k - 1] = x
    BY <2>1, <1>3, <1>1
  <2>3. QED BY <2>2 DEF Elements
<1>4. Head(s) \in Elements(s)
  BY <1>1 DEF Elements
<1>5. QED BY <1>1, <1>2, <1>3, <1>4

(* The elements of two sequences in a row. *)
LEMMA ConcatElements ==
  ASSUME NEW S, NEW s \in Seq(S), NEW t \in Seq(S)
  PROVE  /\ s \o t \in Seq(S)
         /\ Elements(s \o t) = Elements(s) \cup Elements(t)
<1>1. s \o t \in Seq(S)
  OBVIOUS
<1>2. ASSUME NEW x \in Elements(s \o t) PROVE x \in Elements(s) \cup Elements(t)
  <2>1. PICK k \in DOMAIN (s \o t) : x = (s \o t)[k]
    BY DEF Elements
  <2>2. \/ k \in DOMAIN s /\ x = s[k]
        \/ k - Len(s) \in DOMAIN t /\ x = t[k - Len(s)]
    BY <2>1
  <2>3. QED BY <2>2 DEF Elements
<1>3. ASSUME NEW x \in Elements(s) PROVE x \in Elements(s \o t)
  <2>1. PICK k \in DOMAIN s : x = s[k]
    BY DEF Elements
  <2>2. k \in DOMAIN (s \o t) /\ (s \o t)[k] = x
    BY <2>1
  <2>3. QED BY <2>2 DEF Elements
<1>4. ASSUME NEW x \in Elements(t) PROVE x \in Elements(s \o t)
  <2>1. PICK k \in DOMAIN t : x = t[k]
    BY DEF Elements
  <2>2. Len(s) + k \in DOMAIN (s \o t) /\ (s \o t)[Len(s) + k] = x
    BY <2>1
  <2>3. QED BY <2>2 DEF Elements
<1>5. QED BY <1>1, <1>2, <1>3, <1>4

RemoveAt(s, i) == SubSeq(s, 1, i - 1) \o SubSeq(s, i + 1, Len(s))

(* Taking one element out of a sequence leaves the others, in order. *)
LEMMA RemoveElements ==
  ASSUME NEW S, NEW s \in Seq(S), NEW i \in DOMAIN s
  PROVE  /\ RemoveAt(s, i) \in Seq(S) /\ Len(RemoveAt(s, i)) = Len(s) - 1
         /\ \A j \in DOMAIN RemoveAt(s, i) : RemoveAt(s, i)[j] = IF j < i THEN s[j] ELSE s[j + 1]
         /\ Elements(s) = Elements(RemoveAt(s, i)) \cup {s[i]}
<1> DEFINE a == SubSeq(s, 1, i - 1)
           b == SubSeq(s, i + 1, Len(s))
           r == a \o b
<1>1. /\ a \in Seq(S) /\ Len(a) = i - 1
      /\ \A j \in 1 .. i - 1 : a[j] = s[j]
  OBVIOUS
<1>2. /\ b \in Seq(S) /\ Len(b) = Len(s) - i
      /\ \A j \in 1 .. Len(s) - i : b[j] = s[i + j]
  OBVIOUS
<1>3. i \in 1 .. Len(s) /\ Len(s) \in Nat
  OBVIOUS
<1> HIDE DEF a, b
<1>4. /\ r \in Seq(S) /\ Len(r) = Len(s) - 1
      /\ \A j \in DOMAIN r : r[j] = IF j < i THEN s[j] ELSE s[j + 1]
  <2>1. r \in Seq(S) /\ Len(r) = Len(a) + Len(b)
    BY <1>1, <1>2, ConcatFacts, ZenonT(60)
  <2>2. r \in Seq(S) /\ Len(r) = Len(s) - 1 /\ DOMAIN r = 1 .. Len(s) - 1
    <3> HIDE DEF r
    <3> QED BY <1>1, <1>2, <1>3, <2>1
  <2>3. ASSUME NEW j \in DOMAIN r, j < i
        PROVE  r[j] = s[j]
    <3>1. j \in 1 .. i - 1 /\ j \in 1 .. Len(a)
      BY <1>1, <1>3, <2>2, <2>3
    <3>2. r[j] = a[j]
      BY <1>1, <1>2, <3>1
    <3>3. QED BY <1>1, <3>1, <3>2, Zenon
  <2>4. ASSUME NEW j \in DOMAIN r, ~ (j < i)
        PROVE  r[j] = s[j + 1]
    <3>1. j - (i - 1) \in 1 .. Len(s) - i /\ i + (j - (i - 1)) = j + 1
      BY <1>3, <2>2, <2>4
    <3>2. j \in Len(a) + 1 .. Len(a) + Len(b) /\ j - Len(a) = j - (i - 1)
      BY <1>1, <1>2, <1>3, <2>2, <2>4
    <3>3. r[j] = b[j - (i - 1)]
      BY <1>1, <1>2, <3>2
    <3>4. QED BY <1>2, <3>1, <3>3, Zenon
  <2>5. QED BY <2>2, <2>3, <2>4, Zenon
<1> HIDE DEF r
<1>5. DOMAIN r = 1 .. Len(s) - 1
  <2>1. r \in Seq(S) /\ Len(r) = Len(s) - 1
    BY <1>4
  <2>2. QED BY <2>1
<1>6. ASSUME NEW x \in Elements(r) PROVE x \in Elements(s)
  <2>1. PICK j \in DOMAIN r : x = r[j]
    BY DEF Elements
  <2>2. j \in 1 .. Len(s) /\ j + 1 \in 1 .. Len(s)
    BY <1>3, <1>5
  <2>3. x = s[j] \/ x = s[j + 1]
    BY <2>1, <1>4
  <2>4. QED BY <2>2, <2>3 DEF Elements
<1>7. ASSUME NEW x \in Elements(s), x # s[i] PROVE x \in Elements(r)
  <2>1. PICK k \in DOMAIN s : x = s[k]
    BY DEF Elements
  <2>2. k \in 1 .. Len(s) /\ k # i
    BY <2>1, <1>7
  <2>3. CASE k < i
    <3>1. k \in DOMAIN r
      BY <2>2, <2>3, <1>5, <1>3
    <3>2. QED BY <3>1, <1>4, <2>1, <2>3 DEF Elements
  <2>4. CASE ~ (k < i)
    <3>1. k - 1 \in DOMAIN r /\ ~ (k - 1 < i) /\ (k - 1) + 1 = k
      BY <2>2, <2>4, <1>5, <1>3
    <3>2. r[k - 1] = s[(k - 1) + 1]
      BY <3>1, <1>4
    <3>3. r[k - 1] = x
      BY <3>2, <3>1, <2>1
    <3>4. QED BY <3>1, <3>3 DEF Elements
  <2>5. QED BY <2>3, <2>4
<1>8. s[i] \in Elements(s)
  BY DEF Elements
<1>9. Elements(s) = Elements(r) \cup {s[i]}
  BY <1>6, <1>7, <1>8
<1>10. RemoveAt(s, i) = r
  BY DEF RemoveAt, a, b, r
<1>11. QED BY <1>4, <1>9, <1>10

-----------------------------------------------------------------------------
(* What may be queued on the strand: API calls, cancellations and the *)
(* callback of a client.                                              *)
StrandItems ==
  [h : {"accept", "cancel"}, op : Ops]
    \cup [h : {"close"}, op : {NoOp}]
    \cup [h : {"disconnected"}, client : Clients, clean : BOOLEAN]

SomeClient == Clients \cup {NoClient}

(* What may be on its way to the acceptor: completions of the client and *)
(* of its tunnels, and the timer.                                        *)
Events ==
  [h : {"connected"}, client : SomeClient, ok : BOOLEAN, arg : {NoTunnel}]
    \cup [h : {"created"}, client : SomeClient, ok : {TRUE}, arg : Tunnels]
    \cup [h : {"created"}, client : SomeClient, ok : {FALSE}, arg : {NoTunnel}]
    \cup [h : {"accepted"}, client : SomeClient, ok : BOOLEAN, arg : Ops]
    \cup [h : {"timer"}, client : {NoClient}, ok : {TRUE}, arg : {NoTunnel}]

States == {"null", "idle", "connecting", "connected"}
ClientStates == {"new", "null", "connecting", "connected", "closing"}
TunnelStates == {"free", "creating", "open", "closed", "stale"}
Results == {"none", "ok", "error", "aborted"}

(* The type invariant: the values the members of the acceptor may have. *)
TypeInv ==
  /\ settings \in [reconnect : BOOLEAN, recreate : BOOLEAN] /\ oneThread \in BOOLEAN
  /\ called \subseteq Ops /\ dispatched \subseteq Ops /\ cancelled \subseteq Ops
  /\ completed \subseteq Ops /\ initError \subseteq Ops /\ reserved \subseteq Ops
  /\ accepting \subseteq Ops
  /\ calls \in [Ops -> Nat] /\ result \in [Ops -> Results]
  /\ nonNull \in BOOLEAN /\ startPending \in BOOLEAN /\ bound \in BOOLEAN
  /\ closing \in BOOLEAN /\ timer \in BOOLEAN
  /\ state \in States /\ client \in SomeClient
  /\ tunnel \in Tunnels \cup {NoTunnel} /\ acceptOp \in Ops \cup {NoOp}
  /\ strand \in Seq(StrandItems) /\ inbox \in Seq(Events)
  /\ cstate \in [Clients -> ClientStates] /\ tstate \in [Tunnels -> TunnelStates]
  /\ tclient \in [Tunnels -> SomeClient]
  /\ taccept \in [Tunnels -> Ops \cup {NoOp}]

(* The events that the handlers make are events. *)
LEMMA EventsMade ==
  /\ \A c \in SomeClient, b \in BOOLEAN : Event("connected", c, b, NoTunnel) \in Events
  /\ \A c \in SomeClient, t \in Tunnels : Event("created", c, TRUE, t) \in Events
  /\ \A c \in SomeClient : Event("created", c, FALSE, NoTunnel) \in Events
  /\ \A c \in SomeClient, b \in BOOLEAN, op \in Ops : Event("accepted", c, b, op) \in Events
  /\ Event("timer", NoClient, TRUE, NoTunnel) \in Events
  BY DEF Events, Event

(* What the fields of an event may be. *)
LEMMA EventsRead ==
  ASSUME NEW e \in Events
  PROVE  /\ e.h \in {"connected", "created", "accepted", "timer"}
         /\ e.ok \in BOOLEAN /\ e.client \in SomeClient
         /\ e.h = "accepted" => e.arg \in Ops
         /\ e.h = "created" /\ e.ok => e.arg \in Tunnels
  BY Zenon DEF Events, SomeClient

(* The handlers that the calls queue are strand items. *)
LEMMA StrandMade ==
  /\ \A op \in Ops : Handler("accept", op) \in StrandItems /\ Handler("cancel", op) \in StrandItems
  /\ Handler("close", NoOp) \in StrandItems
  /\ \A c \in Clients, b \in BOOLEAN : Disconnected(c, b) \in StrandItems
  BY DEF StrandItems, Handler, Disconnected

(* What the fields of a strand item may be. *)
LEMMA StrandRead ==
  ASSUME NEW e \in StrandItems
  PROVE  /\ e.h \in {"accept", "cancel", "close", "disconnected"}
         /\ e.h \in {"accept", "cancel"} => e.op \in Ops /\ e = Handler(e.h, e.op)
         /\ e.h = "disconnected" => e.client \in Clients /\ e.clean \in BOOLEAN
  BY DEF StrandItems, Handler

(* An event added to the inbox. *)
LEMMA InboxGrows ==
  \A rest \in Seq(Events), e \in Events :
    /\ Append(rest, e) \in Seq(Events)
    /\ Elements(Append(rest, e)) = Elements(rest) \cup {e}
  BY AppendElements

(* Two batches of events added to the inbox, as at the end of a session. *)
LEMMA InboxJoins ==
  \A a, b, c \in Seq(Events) : Elements(a \o b \o c) = Elements(a) \cup Elements(b) \cup Elements(c)
<1> SUFFICES ASSUME NEW a \in Seq(Events), NEW b \in Seq(Events), NEW c \in Seq(Events)
             PROVE  Elements(a \o b \o c) = Elements(a) \cup Elements(b) \cup Elements(c)
  OBVIOUS
<1> DEFINE ab == a \o b
<1>1. ab \in Seq(Events) /\ Elements(ab) = Elements(a) \cup Elements(b)
  BY ConcatElements
<1> HIDE DEF ab
<1>2. Elements(ab \o c) = Elements(ab) \cup Elements(c)
  BY <1>1, ConcatElements
<1>3. QED BY <1>1, <1>2 DEF ab

(* A handler added to the strand. *)
LEMMA StrandGrows ==
  \A e \in StrandItems : strand \in Seq(StrandItems) =>
    /\ Append(strand, e) \in Seq(StrandItems)
    /\ Elements(Append(strand, e)) = Elements(strand) \cup {e}
  BY AppendElements

(* The inbox without the event that is handled. *)
LEMMA WithoutElements ==
  ASSUME inbox \in Seq(Events), NEW i \in DOMAIN inbox
  PROVE  /\ Without(i) \in Seq(Events)
         /\ Len(Without(i)) = Len(inbox) - 1
         /\ \A j \in DOMAIN Without(i) : Without(i)[j] = IF j < i THEN inbox[j] ELSE inbox[j + 1]
         /\ Elements(inbox) = Elements(Without(i)) \cup {inbox[i]}
         /\ inbox[i] \in Events
<1>1. Without(i) = RemoveAt(inbox, i)
  BY DEF Without, RemoveAt
<1>2. inbox[i] \in Events
  OBVIOUS
<1>3. QED BY <1>1, <1>2, RemoveElements

LEMMA InitType == Init => TypeInv
<1> SUFFICES ASSUME Init PROVE TypeInv
  OBVIOUS
<1>1. strand \in Seq(StrandItems) /\ inbox \in Seq(Events)
  BY DEF Init
<1>2. calls \in [Ops -> Nat] /\ result \in [Ops -> Results]
  BY DEF Init, Results
<1>3. /\ cstate \in [Clients -> ClientStates] /\ tstate \in [Tunnels -> TunnelStates]
      /\ tclient \in [Tunnels -> SomeClient]
      /\ taccept \in [Tunnels -> Ops \cup {NoOp}]
  BY DEF Init, SomeClient, ClientStates, TunnelStates
<1>4. settings \in [reconnect : BOOLEAN, recreate : BOOLEAN] /\ oneThread \in BOOLEAN
  BY AcceptorAssumption DEF Init
<1>5. QED BY <1>1, <1>2, <1>3, <1>4, Zenon DEF Init, TypeInv, SomeClient, States

(* Type correctness of complete_accept(). *)
LEMMA CompleteType ==
  ASSUME TypeInv, NEW S \in SUBSET Ops, NEW r \in Results, complete_accept(S, r)
  PROVE  completed' \subseteq Ops /\ calls' \in [Ops -> Nat] /\ result' \in [Ops -> Results]
  BY DEF TypeInv, complete_accept

(* Type correctness of on_close(). *)
LEMMA CloseType ==
  ASSUME TypeInv, NEW r \in Results, NEW c \in SomeClient, NEW op \in Ops \cup {NoOp},
         NEW rest \in Seq(Events), on_close(r, c, op, rest)
  PROVE  /\ completed' \subseteq Ops /\ calls' \in [Ops -> Nat] /\ result' \in [Ops -> Results]
         /\ cstate' \in [Clients -> ClientStates] /\ inbox' \in Seq(Events)
         /\ state' = "null" /\ client' = NoClient /\ tunnel' = NoTunnel /\ acceptOp' = NoOp
         /\ closing' = FALSE /\ timer' = FALSE
         /\ bound' = FALSE /\ nonNull' = FALSE /\ startPending' = FALSE
         /\ UNCHANGED <<reserved, tunnelVars>>
<1>1. {op} \ {NoOp} \in SUBSET Ops /\ complete_accept({op} \ {NoOp}, r)
  BY DEF on_close
<1>2. cstate' \in [Clients -> ClientStates]
  BY Zenon DEF on_close, ClientClose, TypeInv, ClientStates
<1>3. inbox' \in Seq(Events)
  <2>1. Event("connected", c, FALSE, NoTunnel) \in Events
    BY EventsMade, Zenon
  <2>2. inbox' = rest \/ inbox' = Append(rest, Event("connected", c, FALSE, NoTunnel))
    BY Zenon DEF on_close, ClientClose
  <2>3. QED BY <2>1, <2>2, InboxGrows, Zenon
<1>4. QED BY <1>1, <1>2, <1>3, CompleteType, Zenon DEF on_close

(* Type correctness of do_connect(). *)
LEMMA ConnectType ==
  ASSUME TypeInv, NEW c \in SomeClient, NEW op \in Ops \cup {NoOp}, NEW b \in BOOLEAN,
         NEW rest \in Seq(Events), do_connect(c, op, b, rest)
  PROVE  /\ completed' \subseteq Ops /\ calls' \in [Ops -> Nat] /\ result' \in [Ops -> Results]
         /\ cstate' \in [Clients -> ClientStates] /\ inbox' \in Seq(Events)
         /\ state' \in States /\ client' \in SomeClient
         /\ tunnel' \in Tunnels \cup {NoTunnel} /\ acceptOp' \in Ops \cup {NoOp}
         /\ closing' \in BOOLEAN /\ timer' \in BOOLEAN
         /\ bound' \in BOOLEAN /\ nonNull' \in BOOLEAN /\ startPending' \in BOOLEAN
         /\ UNCHANGED <<reserved, tunnelVars>>
<1>1. CASE cstate[c] \notin {"new", "null"}
  <2>1. "error" \in Results /\ on_close("error", c, op, rest)
    BY <1>1 DEF do_connect, Results
  <2>2. QED BY <2>1, CloseType, Zenon DEF States, SomeClient
<1>2. CASE cstate[c] \in {"new", "null"}
  <2>1. cstate' \in [Clients -> ClientStates]
    BY <1>2, Zenon DEF do_connect, TypeInv, ClientStates
  <2>2. QED BY <1>2, <2>1 DEF do_connect, TypeInv, States, SomeClient
<1>3. QED BY <1>1, <1>2

(* Type correctness of do_create_tunnel(). *)
LEMMA CreateType ==
  ASSUME TypeInv, NEW rest \in Seq(Events), ClientCreate(rest)
  PROVE  /\ tstate' \in [Tunnels -> TunnelStates] /\ tclient' \in [Tunnels -> SomeClient]
         /\ inbox' \in Seq(Events)
<1>1. Event("created", client, FALSE, NoTunnel) \in Events
  BY EventsMade, Zenon DEF TypeInv
<1>2. inbox' = rest \/ inbox' = Append(rest, Event("created", client, FALSE, NoTunnel))
  BY Zenon DEF ClientCreate
<1>3. inbox' \in Seq(Events)
  BY <1>1, <1>2, InboxGrows, Zenon
<1>4. tstate' \in [Tunnels -> TunnelStates] /\ tclient' \in [Tunnels -> SomeClient]
  BY Zenon DEF ClientCreate, TypeInv, TunnelStates
<1>5. QED BY <1>3, <1>4

(* Type correctness of do_accept(). *)
LEMMA AcceptType ==
  ASSUME TypeInv, NEW op \in Ops \cup {NoOp}, NEW t \in Tunnels, NEW rest \in Seq(Events),
         do_accept(op, t, rest)
  PROVE  /\ accepting' \subseteq Ops /\ taccept' \in [Tunnels -> Ops \cup {NoOp}]
         /\ inbox' \in Seq(Events)
<1>1. CASE op = NoOp \/ op \in accepting
  BY <1>1 DEF do_accept, TypeInv
<1>2. CASE op \in Ops /\ op \notin accepting /\ op # NoOp
  <2>1. Event("accepted", tclient[t], FALSE, op) \in Events
    BY <1>2, EventsMade, Zenon DEF TypeInv
  <2>2. \/ taccept' = [taccept EXCEPT ![t] = op] /\ inbox' = rest
        \/ inbox' = Append(rest, Event("accepted", tclient[t], FALSE, op)) /\ UNCHANGED taccept
    BY <1>2, Zenon DEF do_accept, ClientAccept
  <2>3. inbox' \in Seq(Events)
    BY <2>1, <2>2, InboxGrows, Zenon
  <2>4. taccept' \in [Tunnels -> Ops \cup {NoOp}]
    BY <2>2, Zenon DEF TypeInv
  <2>5. QED BY <1>2, <2>3, <2>4 DEF do_accept, TypeInv
<1>3. QED BY <1>1, <1>2

(* The end of a session fails the creations and the accepts that were *)
(* pending, and reports nothing else.                                 *)
LEMMA SessionEndInbox ==
  ASSUME TypeInv, NEW c \in Clients, NEW clean \in BOOLEAN, SessionEnd(c, clean)
  PROVE  \E A, B \in Seq(Events) :
           /\ inbox' = inbox \o A \o B
           /\ \A k \in DOMAIN A : A[k] = Event("created", c, FALSE, NoTunnel)
           /\ \A k \in DOMAIN B : \E t \in Tunnels :
                 taccept[t] # NoOp /\ B[k] = Event("accepted", c, FALSE, taccept[t])
           /\ \A t \in Tunnels : tclient[t] = c /\ taccept[t] # NoOp =>
                 \E k \in DOMAIN B : B[k] = Event("accepted", c, FALSE, taccept[t])
<1> DEFINE mine == {t \in Tunnels : tclient[t] = c}
           creates == {t \in mine : tstate[t] = "creating"}
           accepts == {t \in mine : taccept[t] # NoOp}
<1>1. PICK order \in [1 .. Cardinality(accepts) -> accepts] :
        /\ \A t \in accepts : \E i \in DOMAIN order : order[i] = t
        /\ inbox' = inbox
             \o [i \in 1 .. Cardinality(creates) |-> Event("created", c, FALSE, NoTunnel)]
             \o [i \in DOMAIN order |-> Event("accepted", c, FALSE, taccept[order[i]])]
  BY Zenon DEF SessionEnd
<1>2. Cardinality(accepts) \in Nat /\ Cardinality(creates) \in Nat
  <2>1. accepts \in SUBSET Tunnels /\ creates \in SUBSET Tunnels
    OBVIOUS
  <2> HIDE DEF accepts, creates
  <2>2. QED BY <2>1, AcceptorAssumption
<1> DEFINE A == [i \in 1 .. Cardinality(creates) |-> Event("created", c, FALSE, NoTunnel)]
           B == [i \in DOMAIN order |-> Event("accepted", c, FALSE, taccept[order[i]])]
<1>3. Event("created", c, FALSE, NoTunnel) \in Events
  BY EventsMade, Zenon DEF SomeClient
<1>4. \A t \in accepts : t \in Tunnels /\ Event("accepted", c, FALSE, taccept[t]) \in Events
  BY EventsMade, Zenon DEF SomeClient, TypeInv
<1>5. DOMAIN order = 1 .. Cardinality(accepts) /\ \A i \in DOMAIN order : order[i] \in accepts
  OBVIOUS
<1> HIDE DEF accepts, creates
<1>6. A \in Seq(Events)
  <2>1. A \in [1 .. Cardinality(creates) -> Events]
    BY <1>3, Zenon
  <2> HIDE DEF A
  <2>2. QED BY <2>1, <1>2
<1>7. B \in Seq(Events)
  <2>1. B \in [1 .. Cardinality(accepts) -> Events]
    BY <1>4, <1>5, Zenon
  <2> HIDE DEF B
  <2>2. QED BY <2>1, <1>2
<1>8. \A k \in DOMAIN A : A[k] = Event("created", c, FALSE, NoTunnel)
  OBVIOUS
<1>9. \A k \in DOMAIN B : \E t \in Tunnels :
        taccept[t] # NoOp /\ B[k] = Event("accepted", c, FALSE, taccept[t])
  BY <1>5, Zenon DEF accepts
<1>10. \A t \in Tunnels : tclient[t] = c /\ taccept[t] # NoOp =>
         \E k \in DOMAIN B : B[k] = Event("accepted", c, FALSE, taccept[t])
  <2> SUFFICES ASSUME NEW t \in Tunnels, tclient[t] = c, taccept[t] # NoOp
               PROVE  \E k \in DOMAIN B : B[k] = Event("accepted", c, FALSE, taccept[t])
    BY Zenon
  <2>1. t \in accepts
    BY DEF accepts
  <2>2. PICK i \in DOMAIN order : order[i] = t
    BY <2>1, <1>1
  <2>3. i \in DOMAIN B /\ B[i] = Event("accepted", c, FALSE, taccept[t])
    BY <2>2
  <2>4. QED BY <2>3, Zenon
<1>11. inbox' = inbox \o A \o B
  BY <1>1
<1> HIDE DEF A, B
<1>12. QED BY <1>6, <1>7, <1>8, <1>9, <1>10, <1>11, Zenon

(* The handler that the strand runs next. *)
LEMMA HeadRead ==
  ASSUME TypeInv, NEW h, Run(h)
  PROVE  /\ Head(strand) \in StrandItems /\ Head(strand).h = h
         /\ strand' \in Seq(StrandItems)
         /\ h \in {"accept", "cancel"} => Head(strand).op \in Ops
         /\ h = "disconnected" => Head(strand).client \in Clients /\ Head(strand).clean \in BOOLEAN
  BY StrandRead DEF TypeInv, Run

(* The event that is delivered. *)
LEMMA DeliverRead ==
  ASSUME TypeInv, NEW h, NEW i \in DOMAIN inbox, Deliver(i, h)
  PROVE  /\ inbox[i] \in Events /\ inbox[i].h = h
         /\ Without(i) \in Seq(Events)
         /\ inbox[i].ok \in BOOLEAN
         /\ h = "accepted" => inbox[i].arg \in Ops
         /\ h = "created" /\ inbox[i].ok => inbox[i].arg \in Tunnels
  BY WithoutElements, EventsRead DEF TypeInv, Deliver

(* Type correctness of the API calls. *)
LEMMA UserType == TypeInv /\ UserNext => TypeInv'
<1> SUFFICES ASSUME TypeInv, UserNext PROVE TypeInv'
  OBVIOUS
<1>1. CASE bind
  BY <1>1 DEF TypeInv, bind
<1>2. CASE close
  BY <1>2, StrandMade, StrandGrows DEF TypeInv, close
<1>3. ASSUME NEW op \in Ops, async_accept(op) PROVE TypeInv'
  BY <1>3, ZenonT(60) DEF TypeInv, async_accept
<1>4. ASSUME NEW op \in Ops, dispatch_accept(op) PROVE TypeInv'
  BY <1>4, StrandMade, StrandGrows DEF TypeInv, dispatch_accept
<1>5. ASSUME NEW op \in Ops, EmitSlot(op) PROVE TypeInv'
  BY <1>5, StrandMade, StrandGrows DEF TypeInv, EmitSlot
<1>6. QED BY <1>1, <1>2, <1>3, <1>4, <1>5 DEF UserNext

(* Type correctness of the handlers on the strand. *)
LEMMA StrandType == TypeInv /\ StrandNext => TypeInv'
<1> SUFFICES ASSUME TypeInv, StrandNext PROVE TypeInv'
  OBVIOUS
<1>0. "aborted" \in Results /\ "error" \in Results
  BY DEF Results
<1>1. CASE async_accept_internal
  <2> DEFINE op == Head(strand).op
             refused == op \in initError \/ acceptOp # NoOp \/ (state = "null" /\ op \notin reserved)
  <2>1. op \in Ops /\ {op} \in SUBSET Ops /\ strand' \in Seq(StrandItems) /\ UNCHANGED callVars
    BY <1>1, HeadRead, Zenon DEF async_accept_internal
  <2>2. CASE /\ release_accept_reservation(op)
             /\ complete_accept({op}, "aborted")
             /\ UNCHANGED <<accepting, coreVars, inbox, cstate, tunnelVars>>
    <3>1. completed' \subseteq Ops /\ calls' \in [Ops -> Nat] /\ result' \in [Ops -> Results]
      BY <2>1, <2>2, <1>0, CompleteType, Zenon
    <3>2. /\ nonNull' \in BOOLEAN /\ startPending' \in BOOLEAN /\ bound' \in BOOLEAN
          /\ reserved' \subseteq Ops
      BY <2>2, Zenon DEF release_accept_reservation, TypeInv
    <3>3. QED BY <2>1, <2>2, <3>1, <3>2, Zenon DEF TypeInv
  <2>3. CASE /\ complete_accept({op}, "error")
             /\ UNCHANGED <<accepting, startVars, coreVars, inbox, cstate, tunnelVars>>
    BY <2>1, <2>3, <1>0, CompleteType, ZenonT(60) DEF TypeInv
  <2>4. CASE /\ \E c \in Clients : do_connect(c, op, FALSE, inbox)
             /\ UNCHANGED accepting
    BY <2>1, <2>4, ConnectType, Zenon DEF TypeInv, SomeClient
  <2>5. CASE /\ do_connect(client, op, startPending, inbox)
             /\ UNCHANGED accepting
    <3>1. PICK c \in SomeClient, b \in BOOLEAN, q \in Seq(Events) : do_connect(c, op, b, q)
      BY <2>5, Zenon DEF TypeInv
    <3>2. accepting' = accepting
      BY <2>5, Zenon
    <3> HIDE DEF op
    <3>3. QED BY <2>1, <3>1, <3>2, ConnectType DEF TypeInv
  <2>6. CASE /\ acceptOp' = op
             /\ IF tunnel # NoTunnel /\ state = "connected" /\ ~ closing
                THEN do_accept(op, tunnel, inbox)
                ELSE UNCHANGED <<accepting, taccept, inbox>>
             /\ UNCHANGED <<doneVars, startVars, state, closing, client, tunnel, timer, cstate,
                            tstate, tclient>>
    <3>1. /\ accepting' \subseteq Ops /\ taccept' \in [Tunnels -> Ops \cup {NoOp}]
          /\ inbox' \in Seq(Events)
      <4>1. inbox \in Seq(Events) /\ op \in Ops \cup {NoOp} /\ (tunnel # NoTunnel => tunnel \in Tunnels)
        BY <2>1, Zenon DEF TypeInv
      <4>2. CASE do_accept(op, tunnel, inbox) /\ tunnel # NoTunnel
        <5> HIDE DEF op
        <5>1. QED BY <4>1, <4>2, AcceptType
      <4>3. CASE UNCHANGED <<accepting, taccept, inbox>>
        BY <4>3, Zenon DEF TypeInv
      <4>4. QED BY <2>6, <4>2, <4>3, Zenon
    <3>2. QED BY <2>1, <2>6, <3>1, Zenon DEF TypeInv
  <2>7. QED BY <1>1, <2>2, <2>3, <2>4, <2>5, <2>6, ZenonT(60) DEF async_accept_internal
<1>2. CASE cancel_accept
  <2> DEFINE op == Head(strand).op
  <2>1. /\ op \in Ops /\ {op} \in SUBSET Ops /\ strand' \in Seq(StrandItems)
        /\ UNCHANGED <<callVars, accepting, state, closing, client, tunnel, timer, cstate, tstate, tclient>>
    BY <1>2, HeadRead, ZenonT(60) DEF cancel_accept
  <2>2. CASE UNCHANGED <<doneVars, startVars, acceptOp, inbox, taccept>>
    BY <2>1, <2>2 DEF TypeInv
  <2>3. CASE /\ release_accept_reservation(op)
             /\ complete_accept({op}, "aborted")
             /\ UNCHANGED <<acceptOp, inbox, taccept>>
    <3>1. completed' \subseteq Ops /\ calls' \in [Ops -> Nat] /\ result' \in [Ops -> Results]
      BY <2>1, <2>3, <1>0, CompleteType, Zenon
    <3>2. /\ nonNull' \in BOOLEAN /\ startPending' \in BOOLEAN /\ bound' \in BOOLEAN
          /\ reserved' \subseteq Ops
      BY <2>3, Zenon DEF release_accept_reservation, TypeInv
    <3>3. QED BY <2>1, <2>3, <3>1, <3>2, ZenonT(60) DEF TypeInv
  <2>4. CASE /\ EmitCancellation(op)
             /\ UNCHANGED <<doneVars, startVars, acceptOp>>
    <3>1. \A t \in Tunnels : Event("accepted", tclient[t], FALSE, op) \in Events
      BY <2>1, EventsMade, Zenon DEF TypeInv
    <3>2. \/ UNCHANGED <<inbox, taccept>>
          \/ \E t \in Tunnels : /\ taccept' = [taccept EXCEPT ![t] = NoOp]
                                /\ inbox' = Append(inbox, Event("accepted", tclient[t], FALSE, op))
      BY <2>4, Zenon DEF EmitCancellation
    <3>3. inbox' \in Seq(Events)
      <4>1. CASE inbox' = inbox
        BY <4>1 DEF TypeInv
      <4>2. ASSUME NEW t \in Tunnels,
                   inbox' = Append(inbox, Event("accepted", tclient[t], FALSE, op))
            PROVE  inbox' \in Seq(Events)
        BY <4>2, <3>1, InboxGrows, Zenon DEF TypeInv
      <4>3. QED BY <3>2, <4>1, <4>2, Zenon
    <3>4. taccept' \in [Tunnels -> Ops \cup {NoOp}]
      BY <3>2, Zenon DEF TypeInv
    <3>5. QED BY <2>1, <2>4, <3>3, <3>4, ZenonT(60) DEF TypeInv
  <2>5. CASE /\ acceptOp' = NoOp
             /\ complete_accept({op}, "aborted")
             /\ UNCHANGED <<startVars, inbox, taccept>>
    BY <2>1, <2>5, <1>0, CompleteType, ZenonT(60) DEF TypeInv
  <2>6. QED BY <1>2, <2>2, <2>3, <2>4, <2>5, ZenonT(60) DEF cancel_accept
<1>3. CASE close_internal
  <2>1. strand' \in Seq(StrandItems) /\ UNCHANGED <<callVars, accepting>>
    BY <1>3, HeadRead DEF close_internal
  <2>2. CASE /\ closing' = FALSE
             /\ UNCHANGED <<doneVars, startVars, state, client, tunnel, acceptOp, timer, inbox, cstate,
                            tunnelVars>>
    BY <2>1, <2>2, ZenonT(60) DEF TypeInv
  <2>3. CASE on_close("aborted", client, acceptOp, inbox)
    BY <2>1, <2>3, <1>0, CloseType, ZenonT(60) DEF TypeInv, States, SomeClient
  <2>4. CASE /\ ClientClose(client, inbox)
             /\ UNCHANGED <<doneVars, startVars, coreVars, tunnelVars>>
    <3>1. Event("connected", client, FALSE, NoTunnel) \in Events
      BY EventsMade, Zenon DEF TypeInv
    <3>2. inbox' \in Seq(Events)
      BY <2>4, <3>1, InboxGrows, Zenon DEF TypeInv, ClientClose
    <3>3. cstate' \in [Clients -> ClientStates]
      BY <2>4, ZenonT(60) DEF TypeInv, ClientClose, ClientStates
    <3>4. QED BY <2>1, <2>4, <3>2, <3>3 DEF TypeInv
  <2>5. QED BY <1>3, <2>2, <2>3, <2>4, Zenon DEF close_internal
<1>4. CASE on_client_disconnection
  <2>1. strand' \in Seq(StrandItems) /\ UNCHANGED <<callVars, accepting>>
    BY <1>4, HeadRead, Zenon DEF on_client_disconnection
  <2>2. CASE UNCHANGED <<doneVars, startVars, coreVars, inbox, cstate, tunnelVars>>
    BY <2>1, <2>2 DEF TypeInv
  <2>3. CASE \E r \in {"aborted", "error"} : on_close(r, client, acceptOp, inbox)
    BY <2>1, <2>3, <1>0, CloseType, ZenonT(60) DEF TypeInv, States, SomeClient
  <2>4. CASE /\ state' = "idle"
             /\ Detach
             /\ do_reconnect
             /\ UNCHANGED <<doneVars, startVars, closing, client, acceptOp, inbox, cstate, tunnelVars>>
    BY <2>1, <2>4 DEF TypeInv, States, Detach, do_reconnect
  <2>5. QED BY <1>4, <2>2, <2>3, <2>4, Zenon DEF on_client_disconnection
<1>5. QED BY <1>1, <1>2, <1>3, <1>4 DEF StrandNext

(* Type correctness of the completion handlers. *)
LEMMA InboxType == TypeInv /\ InboxNext => TypeInv'
<1> SUFFICES ASSUME TypeInv, NEW i \in DOMAIN inbox, InboxStep(i) PROVE TypeInv'
  BY DEF InboxNext
<1>0. "aborted" \in Results /\ "error" \in Results /\ "ok" \in Results
  BY Zenon DEF Results
<1>1. CASE on_connect(i)
  <2> DEFINE rest == Without(i)
  <2>1. rest \in Seq(Events) /\ UNCHANGED <<callVars, accepting, strand>>
    BY <1>1, DeliverRead, ZenonT(60) DEF on_connect
  <2> HIDE DEF rest
  <2>2. CASE inbox' = rest /\ UNCHANGED <<doneVars, startVars, coreVars, cstate, tunnelVars>>
    BY <2>1, <2>2 DEF TypeInv
  <2>3. CASE \E r \in {"aborted", "error"} : on_close(r, client, acceptOp, rest)
    BY <2>1, <2>3, <1>0, CloseType, ZenonT(60) DEF TypeInv, States, SomeClient
  <2>4. CASE /\ state' = "idle"
             /\ do_reconnect
             /\ inbox' = rest
             /\ UNCHANGED <<doneVars, startVars, closing, client, tunnel, acceptOp, cstate, tunnelVars>>
    BY <2>1, <2>4 DEF TypeInv, States, do_reconnect
  <2>5. CASE /\ state' = "connected"
             /\ do_create_tunnel(rest)
             /\ UNCHANGED <<doneVars, startVars, closing, client, tunnel, acceptOp, timer, cstate, taccept>>
    BY <2>1, <2>5, CreateType DEF TypeInv, States, do_create_tunnel
  <2>6. QED BY <1>1, <2>2, <2>3, <2>4, <2>5 DEF on_connect, rest
<1>2. CASE on_create_tunnel(i)
  <2> DEFINE rest == Without(i)
             e == inbox[i]
  <2>1. /\ rest \in Seq(Events) /\ UNCHANGED <<callVars, strand>>
        /\ e.ok => e.arg \in Tunnels
    BY <1>2, DeliverRead, ZenonT(60) DEF on_create_tunnel
  <2> HIDE DEF rest
  <2>2. CASE /\ inbox' = rest
             /\ UNCHANGED <<accepting, doneVars, startVars, coreVars, cstate, tunnelVars>>
    BY <2>1, <2>2 DEF TypeInv
  <2>3. CASE /\ do_recreate_tunnel
             /\ inbox' = rest
             /\ UNCHANGED <<accepting, doneVars, startVars, state, closing, client, tunnel, acceptOp,
                            cstate, tunnelVars>>
    BY <2>1, <2>3 DEF TypeInv, do_recreate_tunnel
  <2>4. CASE /\ on_close("error", client, acceptOp, rest)
             /\ UNCHANGED accepting
    BY <2>1, <2>4, <1>0, CloseType, ZenonT(60) DEF TypeInv, States, SomeClient
  <2>5. CASE /\ e.ok
             /\ tunnel' = e.arg
             /\ IF closing
                THEN inbox' = rest /\ UNCHANGED <<accepting, taccept>>
                ELSE do_accept(acceptOp, e.arg, rest)
             /\ UNCHANGED <<doneVars, startVars, state, closing, client, acceptOp, timer, cstate,
                            tstate, tclient>>
    BY <2>1, <2>5, AcceptType DEF TypeInv
  <2>6. QED BY <1>2, <2>2, <2>3, <2>4, <2>5 DEF on_create_tunnel, rest
<1>3. CASE on_accept(i)
  <2> DEFINE rest == Without(i)
             op == inbox[i].arg
             cleared == IF acceptOp = op THEN NoOp ELSE acceptOp
  <2>1. /\ rest \in Seq(Events) /\ UNCHANGED <<callVars, strand>>
        /\ op \in Ops /\ {op} \in SUBSET Ops
        /\ accepting' = accepting \ {op}
    BY <1>3, DeliverRead, ZenonT(60) DEF on_accept
  <2> HIDE DEF rest
  <2>2. CASE /\ acceptOp' = cleared
             /\ \E r \in {"aborted", "ok"} : complete_accept({op}, r)
             /\ inbox' = rest
             /\ UNCHANGED <<startVars, state, closing, client, tunnel, timer, cstate, tunnelVars>>
    <3>1. completed' \subseteq Ops /\ calls' \in [Ops -> Nat] /\ result' \in [Ops -> Results]
      BY <2>1, <2>2, <1>0, CompleteType, Zenon
    <3>2. acceptOp' \in Ops \cup {NoOp}
      BY <2>2, Zenon DEF TypeInv
    <3>3. QED BY <2>1, <2>2, <3>1, <3>2, Zenon DEF TypeInv
  <2>3. CASE /\ inbox' = rest
             /\ UNCHANGED <<doneVars, startVars, coreVars, cstate, tunnelVars>>
    BY <2>1, <2>3 DEF TypeInv
  <2>4. CASE /\ Detach
             /\ do_recreate_tunnel
             /\ inbox' = rest
             /\ UNCHANGED <<doneVars, startVars, state, closing, client, acceptOp, cstate, tunnelVars>>
    BY <2>1, <2>4 DEF TypeInv, Detach, do_recreate_tunnel
  <2>5. CASE on_close("error", client, acceptOp, rest)
    BY <2>1, <2>5, <1>0, CloseType, ZenonT(60) DEF TypeInv, States, SomeClient
  <2>6. QED BY <1>3, <2>2, <2>3, <2>4, <2>5 DEF on_accept, rest
<1>4. CASE on_timer_cb(i)
  <2> DEFINE rest == Without(i)
  <2>1. rest \in Seq(Events) /\ UNCHANGED <<callVars, accepting, strand>>
    BY <1>4, DeliverRead, Zenon DEF on_timer_cb
  <2> HIDE DEF rest
  <2>2. CASE inbox' = rest /\ UNCHANGED <<doneVars, startVars, coreVars, cstate, tunnelVars>>
    BY <2>1, <2>2 DEF TypeInv
  <2>3. CASE do_connect(client, acceptOp, startPending, rest)
    BY <2>1, <2>3, ConnectType DEF TypeInv
  <2>4. CASE /\ do_create_tunnel(rest)
             /\ UNCHANGED <<doneVars, startVars, coreVars, cstate, taccept>>
    BY <2>1, <2>4, CreateType DEF TypeInv, do_create_tunnel
  <2>5. QED BY <1>4, <2>2, <2>3, <2>4 DEF on_timer_cb, rest
<1>5. QED BY <1>1, <1>2, <1>3, <1>4 DEF InboxStep

(* Type correctness of the steps of the clients, the tunnels and the *)
(* timer.                                                            *)
LEMMA ClientType == TypeInv /\ ClientNext => TypeInv'
<1> SUFFICES ASSUME TypeInv, ClientNext PROVE TypeInv'
  OBVIOUS
<1>1. CASE TimerExpires
  BY <1>1, EventsMade, InboxGrows, ZenonT(60) DEF TypeInv, TimerExpires
<1>2. ASSUME NEW c \in Clients, NEW ok \in BOOLEAN, ConnectDone(c, ok) PROVE TypeInv'
  <2>1. Event("connected", c, ok, NoTunnel) \in Events
    BY EventsMade DEF SomeClient
  <2>2. cstate' \in [Clients -> ClientStates]
    BY <1>2 DEF ConnectDone, TypeInv, ClientStates
  <2>3. QED BY <1>2, <2>1, <2>2, InboxGrows, ZenonT(60) DEF TypeInv, ConnectDone
<1>3. ASSUME NEW c \in Clients, NEW clean \in BOOLEAN, SessionEnd(c, clean) PROVE TypeInv'
  <2>1. PICK A, B \in Seq(Events) : inbox' = inbox \o A \o B
    BY <1>3, SessionEndInbox, Zenon
  <2>2. inbox' \in Seq(Events)
    <3>1. inbox \in Seq(Events)
      BY Zenon DEF TypeInv
    <3>2. QED BY <2>1, <3>1
  <2>3. strand' \in Seq(StrandItems)
    BY <1>3, StrandMade, StrandGrows, Zenon DEF SessionEnd, TypeInv
  <2>4. cstate' \in [Clients -> ClientStates]
    BY <1>3, Zenon DEF SessionEnd, TypeInv, ClientStates
  <2>5. tstate' \in [Tunnels -> TunnelStates] /\ taccept' \in [Tunnels -> Ops \cup {NoOp}]
    BY <1>3, Zenon DEF SessionEnd, TypeInv, TunnelStates
  <2>6. UNCHANGED <<acceptorVars, timer, tclient>>
    BY <1>3 DEF SessionEnd
  <2>7. QED BY <2>2, <2>3, <2>4, <2>5, <2>6 DEF TypeInv
<1>4. ASSUME NEW t \in Tunnels, AcceptDone(t) PROVE TypeInv'
  <2>1. Event("accepted", tclient[t], TRUE, taccept[t]) \in Events
    BY <1>4, EventsMade, Zenon DEF TypeInv, AcceptDone
  <2>2. taccept' \in [Tunnels -> Ops \cup {NoOp}]
    BY <1>4 DEF AcceptDone, TypeInv
  <2>3. QED BY <1>4, <2>1, <2>2, InboxGrows, ZenonT(60) DEF TypeInv, AcceptDone
<1>5. ASSUME NEW t \in Tunnels, TunnelClosed(t) PROVE TypeInv'
  <2>1. taccept[t] # NoOp => Event("accepted", tclient[t], FALSE, taccept[t]) \in Events
    BY <1>5, EventsMade, Zenon DEF TypeInv
  <2>2. taccept' \in [Tunnels -> Ops \cup {NoOp}] /\ tstate' \in [Tunnels -> TunnelStates]
    <3>1. taccept \in [Tunnels -> Ops \cup {NoOp}] /\ tstate \in [Tunnels -> TunnelStates]
      BY DEF TypeInv
    <3>2. taccept' = [taccept EXCEPT ![t] = NoOp] /\ tstate' = [tstate EXCEPT ![t] = "closed"]
      BY <1>5 DEF TunnelClosed
    <3>3. "closed" \in TunnelStates
      BY DEF TunnelStates
    <3>4. QED BY <3>1, <3>2, <3>3
  <2>3. inbox' \in Seq(Events)
    <3>1. inbox \in Seq(Events)
      BY DEF TypeInv
    <3>2. inbox' = IF taccept[t] = NoOp THEN inbox
                   ELSE Append(inbox, Event("accepted", tclient[t], FALSE, taccept[t]))
      BY <1>5, ZenonT(60) DEF TunnelClosed
    <3>3. QED BY <2>1, <3>1, <3>2, InboxGrows, Zenon
  <2>4. QED BY <1>5, <2>2, <2>3, ZenonT(60) DEF TypeInv, TunnelClosed
<1>6. ASSUME NEW t \in Tunnels, NEW ok \in BOOLEAN, CreateDone(t, ok) PROVE TypeInv'
  <2>1. Event("created", tclient[t], ok, IF ok THEN t ELSE NoTunnel) \in Events
    BY EventsMade, Zenon DEF TypeInv
  <2>2. tstate' \in [Tunnels -> TunnelStates]
    BY <1>6 DEF CreateDone, TypeInv, TunnelStates
  <2>3. inbox' \in Seq(Events)
    <3>1. inbox \in Seq(Events) /\ inbox' = Append(inbox, Event("created", tclient[t], ok, IF ok THEN t ELSE NoTunnel))
      BY <1>6, Zenon DEF TypeInv, CreateDone
    <3>2. QED BY <2>1, <3>1, InboxGrows, Zenon
  <2>4. QED BY <1>6, <2>2, <2>3, ZenonT(60) DEF TypeInv, CreateDone, acceptorVars
<1>7. QED BY <1>1, <1>2, <1>3, <1>4, <1>5, <1>6 DEF ClientNext

(* Every step keeps the type invariant. *)
LEMMA StepType == TypeInv /\ [Next]_vars => TypeInv'
<1>1. TypeInv /\ UNCHANGED vars => TypeInv'
  BY DEF TypeInv
<1>2. QED BY <1>1, UserType, StrandType, InboxType, ClientType DEF Next

-----------------------------------------------------------------------------
(* Operations whose internal handler is on the strand, and those whose *)
(* internal handler has run.                                           *)
Queued == {op \in Ops : OnStrand("accept", op)}
Taken == dispatched \ Queued

(* The internal handler of an operation is on the strand once at most. *)
AcceptsOnce ==
  \A i, j \in DOMAIN strand : strand[i].h = "accept" /\ strand[i] = strand[j] => i = j

(* The strand holds dispatched operations, once each, and cancellations *)
(* that were asked for.                                                 *)
StrandInv ==
  /\ AcceptsOnce
  /\ Queued \subseteq dispatched /\ dispatched \subseteq called /\ cancelled \subseteq called
  /\ \A op \in Ops : OnStrand("cancel", op) => op \in cancelled

(* OnStrand() in terms of the elements of the strand. *)
LEMMA OnStrandElements ==
  \A h, op : OnStrand(h, op) <=> Handler(h, op) \in Elements(strand)
  BY DEF OnStrand, Elements

(* Queueing a handler keeps AcceptsOnce when it is not there yet. *)
LEMMA PushOnce ==
  ASSUME strand \in Seq(StrandItems), AcceptsOnce, NEW e \in StrandItems, strand' = Append(strand, e),
         e.h = "accept" => e \notin Elements(strand)
  PROVE  AcceptsOnce'
<1> SUFFICES ASSUME NEW i \in DOMAIN strand', NEW j \in DOMAIN strand',
                    strand'[i].h = "accept", strand'[i] = strand'[j]
             PROVE  i = j
  BY DEF AcceptsOnce
<1>1. DOMAIN strand = 1 .. Len(strand) /\ DOMAIN strand' = 1 .. Len(strand) + 1 /\ Len(strand) \in Nat
  OBVIOUS
<1>2. /\ \A k \in DOMAIN strand : strand'[k] = strand[k] /\ strand[k] \in Elements(strand)
      /\ strand'[Len(strand) + 1] = e
  BY DEF Elements
<1>3. \A k \in DOMAIN strand' : k \in DOMAIN strand \/ k = Len(strand) + 1
  BY <1>1
<1>4. CASE i \in DOMAIN strand /\ j \in DOMAIN strand
  BY <1>2, <1>4 DEF AcceptsOnce
<1>5. CASE i = Len(strand) + 1 /\ j = Len(strand) + 1
  BY <1>5
<1>6. CASE i \in DOMAIN strand /\ j = Len(strand) + 1
  BY <1>2, <1>6
<1>7. CASE i = Len(strand) + 1 /\ j \in DOMAIN strand
  BY <1>2, <1>7
<1>8. QED BY <1>3, <1>4, <1>5, <1>6, <1>7

(* Running a handler keeps AcceptsOnce, and an accept handler is then *)
(* gone.                                                              *)
LEMMA PopOnce ==
  ASSUME strand \in Seq(StrandItems), AcceptsOnce, strand # <<>>, strand' = Tail(strand)
  PROVE  /\ AcceptsOnce'
         /\ Elements(strand) = Elements(strand') \cup {Head(strand)}
         /\ Head(strand).h = "accept" => Head(strand) \notin Elements(strand')
<1>1. /\ DOMAIN strand = 1 .. Len(strand) /\ DOMAIN strand' = 1 .. Len(strand) - 1
      /\ Len(strand) \in Nat /\ Len(strand) > 0 /\ Head(strand) = strand[1]
  OBVIOUS
<1>2. \A k \in DOMAIN strand' : k + 1 \in DOMAIN strand /\ strand'[k] = strand[k + 1]
  OBVIOUS
<1>3. AcceptsOnce'
  <2> SUFFICES ASSUME NEW i \in DOMAIN strand', NEW j \in DOMAIN strand',
                      strand'[i].h = "accept", strand'[i] = strand'[j]
               PROVE  i = j
    BY DEF AcceptsOnce
  <2>1. i + 1 = j + 1
    BY <1>2 DEF AcceptsOnce
  <2>2. QED BY <2>1, <1>1
<1>4. Elements(strand) = Elements(strand') \cup {Head(strand)}
  BY TailElements
<1>5. ASSUME Head(strand).h = "accept", Head(strand) \in Elements(strand') PROVE FALSE
  <2>1. PICK k \in DOMAIN strand' : strand'[k] = Head(strand)
    BY <1>5 DEF Elements
  <2>2. k + 1 \in DOMAIN strand /\ 1 \in DOMAIN strand /\ strand[k + 1] = strand[1]
    BY <2>1, <1>1, <1>2
  <2>3. k + 1 = 1
    BY <2>2, <1>1, <1>5 DEF AcceptsOnce
  <2>4. QED BY <2>3, <1>1
<1>6. QED BY <1>3, <1>4, <1>5

(* Handlers differ when their fields do. *)
LEMMA HandlerFields ==
  \A h, op : Handler(h, op).h = h /\ Handler(h, op).op = op
  BY DEF Handler

(* What the steps do to the strand, seen as a set of operations. *)
LEMMA PushOther ==
  ASSUME TypeInv, StrandInv, NEW e \in StrandItems, e.h # "accept", strand' = Append(strand, e)
  PROVE  /\ Queued' = Queued /\ AcceptsOnce'
         /\ \A op \in Ops : OnStrand("cancel", op)' => OnStrand("cancel", op) \/ e = Handler("cancel", op)
<1>1. Elements(strand') = Elements(strand) \cup {e}
  BY StrandGrows DEF TypeInv
<1>2. \A op : Handler("accept", op) # e
  BY HandlerFields
<1>3. \A h, op : OnStrand(h, op)' <=> Handler(h, op) \in Elements(strand')
  BY DEF OnStrand, Elements
<1>4. AcceptsOnce'
  BY PushOnce DEF TypeInv, StrandInv
<1>5. QED BY <1>1, <1>2, <1>3, <1>4, OnStrandElements, Zenon DEF Queued

LEMMA PushAccept ==
  ASSUME TypeInv, StrandInv, NEW op \in Ops, op \notin Queued, strand' = Append(strand, Handler("accept", op))
  PROVE  /\ Queued' = Queued \cup {op} /\ AcceptsOnce'
         /\ \A o \in Ops : OnStrand("cancel", o)' => OnStrand("cancel", o)
<1> DEFINE e == Handler("accept", op)
<1>1. e \in StrandItems /\ e.h = "accept"
  BY StrandMade, HandlerFields
<1>2. e \notin Elements(strand)
  BY OnStrandElements DEF Queued
<1>3. strand' = Append(strand, e)
  OBVIOUS
<1> HIDE DEF e
<1>4. Elements(strand') = Elements(strand) \cup {e}
  BY <1>1, <1>3, StrandGrows DEF TypeInv
<1>5. \A h, o : OnStrand(h, o)' <=> Handler(h, o) \in Elements(strand')
  BY Zenon DEF OnStrand, Elements
<1>6. \A h, o : Handler(h, o) = e => h = "accept" /\ o = op
  BY HandlerFields DEF e
<1>7. AcceptsOnce'
  BY <1>1, <1>2, <1>3, PushOnce DEF TypeInv, StrandInv
<1>8. \A o \in Ops : o \in Queued' <=> o \in Queued \/ o = op
  BY <1>4, <1>5, <1>6, OnStrandElements DEF Queued, e
<1>9. \A o \in Ops : OnStrand("cancel", o)' => OnStrand("cancel", o)
  BY <1>4, <1>5, <1>6, OnStrandElements
<1>10. Queued \subseteq Ops /\ Queued' \subseteq Ops
  BY DEF Queued
<1>11. QED BY <1>7, <1>8, <1>9, <1>10

LEMMA PopOther ==
  ASSUME TypeInv, StrandInv, NEW h, h # "accept", Run(h)
  PROVE  /\ Queued' = Queued /\ AcceptsOnce'
         /\ \A op \in Ops : OnStrand("cancel", op)' => OnStrand("cancel", op)
         /\ h = "cancel" => Head(strand).op \in cancelled
<1>1. strand # <<>> /\ strand' = Tail(strand) /\ Head(strand).h = h /\ strand \in Seq(StrandItems)
  BY DEF Run, TypeInv
<1>2. Elements(strand) = Elements(strand') \cup {Head(strand)} /\ AcceptsOnce'
  BY <1>1, PopOnce DEF StrandInv
<1>3. \A g, o : OnStrand(g, o)' <=> Handler(g, o) \in Elements(strand')
  BY DEF OnStrand, Elements
<1>4. \A o : Handler("accept", o) # Head(strand)
  BY <1>1, HandlerFields
<1>5. ASSUME h = "cancel" PROVE Head(strand).op \in cancelled
  <2>1. Head(strand).op \in Ops /\ Head(strand) = Handler("cancel", Head(strand).op)
    BY <1>5, <1>1, StrandRead, HeadRead
  <2>2. OnStrand("cancel", Head(strand).op)
    BY <2>1, <1>2, OnStrandElements, Zenon
  <2>3. QED BY <2>1, <2>2, Zenon DEF StrandInv
<1>6. QED BY <1>2, <1>3, <1>4, <1>5, OnStrandElements DEF Queued

LEMMA PopAccept ==
  ASSUME TypeInv, StrandInv, Run("accept")
  PROVE  /\ Head(strand).op \in Queued
         /\ Queued' = Queued \ {Head(strand).op} /\ AcceptsOnce'
         /\ \A op \in Ops : OnStrand("cancel", op)' => OnStrand("cancel", op)
<1> DEFINE op == Head(strand).op
<1>1. strand # <<>> /\ strand' = Tail(strand) /\ Head(strand).h = "accept" /\ strand \in Seq(StrandItems)
  BY DEF Run, TypeInv
<1>2. /\ Elements(strand) = Elements(strand') \cup {Head(strand)} /\ AcceptsOnce'
      /\ Head(strand) \notin Elements(strand')
  BY <1>1, PopOnce DEF StrandInv
<1>3. \A g, o : OnStrand(g, o)' <=> Handler(g, o) \in Elements(strand')
  BY Zenon DEF OnStrand, Elements
<1>4. op \in Ops /\ Head(strand) = Handler("accept", op)
  BY <1>1, StrandRead, HeadRead
<1>5. \A g, o : Handler(g, o) = Head(strand) => g = "accept" /\ o = op
  BY <1>4, HandlerFields
<1>6. op \in Queued
  BY <1>2, <1>4, OnStrandElements, Zenon DEF Queued
<1>7. \A o \in Ops : o \in Queued' <=> o \in Queued /\ o # op
  BY <1>2, <1>3, <1>4, <1>5, OnStrandElements DEF Queued
<1>8. \A o \in Ops : OnStrand("cancel", o)' => OnStrand("cancel", o)
  BY <1>2, <1>3, OnStrandElements
<1>9. Queued \subseteq Ops /\ Queued' \subseteq Ops
  BY DEF Queued
<1> HIDE DEF op
<1>10. Queued' = Queued \ {op}
  BY <1>7, <1>9
<1>11. QED BY <1>2, <1>6, <1>8, <1>10 DEF op

(* Steps that neither dispatch an operation nor run its internal *)
(* handler.                                                      *)
Quiet ==
  \/ bind \/ close
  \/ \E op \in Ops : async_accept(op) \/ EmitSlot(op)
  \/ cancel_accept \/ close_internal \/ on_client_disconnection
  \/ InboxNext \/ ClientNext \/ UNCHANGED vars

(* Quiet steps leave the queued operations alone. *)
LEMMA QuietStrand ==
  ASSUME TypeInv, StrandInv, Quiet
  PROVE  StrandInv' /\ Queued' = Queued /\ dispatched' = dispatched /\ called \subseteq called'
         /\ cancelled \subseteq cancelled'
<1>0. ASSUME strand' = strand
      PROVE  Queued' = Queued /\ AcceptsOnce' /\ \A op : OnStrand("cancel", op)' <=> OnStrand("cancel", op)
  BY <1>0, Zenon DEF Queued, OnStrand, StrandInv, AcceptsOnce
<1>1. CASE bind \/ UNCHANGED vars
  BY <1>0, <1>1 DEF bind, StrandInv
<1>2. CASE close
  <2>1. Handler("close", NoOp) \in StrandItems /\ Handler("close", NoOp).h = "close"
    BY StrandMade, HandlerFields
  <2>2. strand' = Append(strand, Handler("close", NoOp)) /\ UNCHANGED callVars
    BY <1>2 DEF close
  <2>3. \A op : Handler("close", NoOp) # Handler("cancel", op)
    BY HandlerFields
  <2>4. QED BY <2>1, <2>2, <2>3, PushOther DEF StrandInv
<1>3. ASSUME NEW op \in Ops, async_accept(op)
      PROVE  StrandInv' /\ Queued' = Queued /\ dispatched' = dispatched /\ called \subseteq called'
             /\ cancelled \subseteq cancelled'
  BY <1>0, <1>3, Zenon DEF async_accept, StrandInv
<1>4. ASSUME NEW op \in Ops, EmitSlot(op)
      PROVE  StrandInv' /\ Queued' = Queued /\ dispatched' = dispatched /\ called \subseteq called'
             /\ cancelled \subseteq cancelled'
  <2>1. Handler("cancel", op) \in StrandItems /\ Handler("cancel", op).h = "cancel"
    BY StrandMade, HandlerFields
  <2>2. /\ strand' = Append(strand, Handler("cancel", op)) /\ op \in called
        /\ cancelled' = cancelled \cup {op} /\ UNCHANGED <<called, dispatched>>
    BY <1>4 DEF EmitSlot
  <2>3. \A o : Handler("cancel", op) = Handler("cancel", o) => o = op
    BY HandlerFields
  <2>4. QED BY <2>1, <2>2, <2>3, PushOther DEF StrandInv
<1>5. CASE cancel_accept
  <2>1. Run("cancel") /\ UNCHANGED callVars
    BY <1>5, Zenon DEF cancel_accept
  <2>2. QED BY <2>1, PopOther, Zenon DEF StrandInv
<1>6. CASE close_internal
  <2>1. Run("close") /\ UNCHANGED callVars
    BY <1>6 DEF close_internal
  <2>2. QED BY <2>1, PopOther, Zenon DEF StrandInv
<1>7. CASE on_client_disconnection
  <2>1. Run("disconnected") /\ UNCHANGED callVars
    BY <1>7 DEF on_client_disconnection
  <2>2. QED BY <2>1, PopOther, Zenon DEF StrandInv
<1>8. CASE InboxNext
  <2>1. strand' = strand /\ UNCHANGED callVars
    BY <1>8, Zenon DEF InboxNext, InboxStep, on_connect, on_create_tunnel, on_accept, on_timer_cb
  <2>2. QED BY <1>0, <2>1 DEF StrandInv
<1>9. CASE TimerExpires
  BY <1>0, <1>9 DEF TimerExpires, StrandInv
<1>10. ASSUME NEW c \in Clients, NEW clean \in BOOLEAN, SessionEnd(c, clean)
       PROVE  StrandInv' /\ Queued' = Queued /\ dispatched' = dispatched /\ called \subseteq called'
              /\ cancelled \subseteq cancelled'
  <2>1. Disconnected(c, clean) \in StrandItems /\ Disconnected(c, clean).h = "disconnected"
    BY StrandMade DEF Disconnected
  <2>2. strand' = Append(strand, Disconnected(c, clean)) /\ UNCHANGED callVars
    BY <1>10, Zenon DEF SessionEnd
  <2>3. \A op : Disconnected(c, clean) # Handler("cancel", op)
    BY <2>1, HandlerFields
  <2>4. QED BY <2>1, <2>2, <2>3, PushOther DEF StrandInv
<1>11. ASSUME \/ \E c \in Clients, ok \in BOOLEAN : ConnectDone(c, ok)
              \/ \E t \in Tunnels : AcceptDone(t) \/ TunnelClosed(t)
              \/ \E t \in Tunnels, ok \in BOOLEAN : CreateDone(t, ok)
       PROVE  StrandInv' /\ Queued' = Queued /\ dispatched' = dispatched /\ called \subseteq called'
              /\ cancelled \subseteq cancelled'
  <2>1. strand' = strand /\ UNCHANGED callVars
    BY <1>11, ZenonT(60) DEF ConnectDone, AcceptDone, TunnelClosed, CreateDone
  <2>2. QED BY <1>0, <2>1 DEF StrandInv
<1>12. QED BY <1>1, <1>2, <1>3, <1>4, <1>5, <1>6, <1>7, <1>8, <1>9, <1>10, <1>11, ZenonT(60)
       DEF Quiet, ClientNext

(* dispatch_accept() queues its operation. *)
LEMMA DispatchStrand ==
  ASSUME TypeInv, StrandInv, NEW op \in Ops, dispatch_accept(op)
  PROVE  /\ StrandInv' /\ Queued' = Queued \cup {op} /\ dispatched' = dispatched \cup {op}
         /\ op \in called /\ op \notin dispatched
<1>1. /\ op \in called /\ op \notin dispatched /\ dispatched' = dispatched \cup {op}
      /\ strand' = Append(strand, Handler("accept", op)) /\ UNCHANGED <<called, cancelled>>
  BY DEF dispatch_accept
<1>2. op \notin Queued
  BY <1>1, Zenon DEF StrandInv
<1>3. QED BY <1>1, <1>2, PushAccept DEF StrandInv

(* async_accept_internal() takes its operation off the strand. *)
LEMMA AcceptStrand ==
  ASSUME TypeInv, StrandInv, async_accept_internal
  PROVE  /\ StrandInv' /\ Head(strand).op \in Ops /\ Head(strand).op \in Queued
         /\ Queued' = Queued \ {Head(strand).op} /\ UNCHANGED callVars
<1>1. Run("accept") /\ UNCHANGED callVars
  BY ZenonT(60) DEF async_accept_internal
<1>2. QED BY <1>1, PopAccept, HeadRead DEF StrandInv

(* A step is quiet, or dispatches an operation, or runs its internal *)
(* handler.                                                          *)
LEMMA NextCases ==
  ASSUME [Next]_vars
  PROVE  Quiet \/ (\E op \in Ops : dispatch_accept(op)) \/ async_accept_internal
  BY DEF Next, UserNext, StrandNext, Quiet

-----------------------------------------------------------------------------
(* on_close() adds the failure of a pending connection, and nothing *)
(* else.                                                            *)
LEMMA CloseInbox ==
  ASSUME NEW r, NEW c \in SomeClient, NEW op, NEW rest \in Seq(Events), on_close(r, c, op, rest)
  PROVE  /\ inbox' \in Seq(Events)
         /\ \/ inbox' = rest /\ cstate[c] # "connecting"
            \/ /\ inbox' = Append(rest, Event("connected", c, FALSE, NoTunnel))
               /\ Elements(inbox') = Elements(rest) \cup {Event("connected", c, FALSE, NoTunnel)}
               /\ cstate[c] = "connecting"
<1>1. Event("connected", c, FALSE, NoTunnel) \in Events
  BY EventsMade, Zenon
<1>2. QED BY <1>1, InboxGrows, Zenon DEF on_close, ClientClose

(* do_create_tunnel() starts a creation, or adds its refusal. *)
LEMMA CreateInbox ==
  ASSUME TypeInv, NEW rest \in Seq(Events), ClientCreate(rest)
  PROVE  /\ inbox' \in Seq(Events)
         /\ \/ inbox' = rest /\ \E t \in Tunnels : tstate'[t] = "creating"
            \/ /\ inbox' = Append(rest, Event("created", client, FALSE, NoTunnel))
               /\ Elements(inbox') = Elements(rest) \cup {Event("created", client, FALSE, NoTunnel)}
               /\ UNCHANGED <<tstate, tclient>>
<1>1. Event("created", client, FALSE, NoTunnel) \in Events
  BY EventsMade, Zenon DEF TypeInv
<1>2. CASE cstate[client] = "connected" /\ Free # {}
  <2>1. PICK t \in Free : tstate' = [tstate EXCEPT ![t] = "creating"]
    BY <1>2, Zenon DEF ClientCreate
  <2>2. t \in Tunnels /\ tstate'[t] = "creating"
    BY <2>1 DEF Free, TypeInv
  <2>3. QED BY <1>2, <2>2, Zenon DEF ClientCreate
<1>3. CASE ~ (cstate[client] = "connected" /\ Free # {})
  BY <1>1, <1>3, InboxGrows, Zenon DEF ClientCreate
<1>4. QED BY <1>2, <1>3, Zenon

(* do_accept() starts an accept, or adds its refusal. *)
LEMMA AcceptInbox ==
  ASSUME TypeInv, NEW op \in Ops \cup {NoOp}, NEW t \in Tunnels, NEW rest \in Seq(Events),
         do_accept(op, t, rest)
  PROVE  /\ inbox' \in Seq(Events)
         /\ \/ (op = NoOp \/ op \in accepting) /\ inbox' = rest /\ UNCHANGED <<accepting, taccept>>
            \/ /\ op \in Ops /\ accepting' = accepting \cup {op}
               /\ inbox' = rest /\ taccept' = [taccept EXCEPT ![t] = op]
               /\ taccept[t] = NoOp
            \/ /\ op \in Ops /\ accepting' = accepting \cup {op}
               /\ inbox' = Append(rest, Event("accepted", tclient[t], FALSE, op))
               /\ Elements(inbox') = Elements(rest) \cup {Event("accepted", tclient[t], FALSE, op)}
               /\ UNCHANGED taccept
<1>1. op \in Ops => Event("accepted", tclient[t], FALSE, op) \in Events
  BY EventsMade, Zenon DEF TypeInv
<1>2. CASE op = NoOp \/ op \in accepting
  BY <1>2, Zenon DEF do_accept
<1>3. CASE op \in Ops /\ op \notin accepting /\ op # NoOp
  BY <1>1, <1>3, InboxGrows, ZenonT(60) DEF do_accept, ClientAccept
<1>4. QED BY <1>2, <1>3, Zenon

(* Operations whose completion is on its way, and every place that an *)
(* operation may be in.                                               *)
Told == {e.arg : e \in {x \in Elements(inbox) : x.h = "accepted"}}
Held == {acceptOp} \cup accepting \cup {taccept[t] : t \in Tunnels} \cup Told

(* The acceptor and its tunnels only hold operations that the strand has *)
(* taken.                                                                *)
TakenInv == Held \subseteq Taken \cup {NoOp}

(* Without a new event no other completion is on its way. *)
LEMMA ToldSame ==
  ASSUME Elements(inbox') \subseteq Elements(inbox) PROVE Told' \subseteq Told
  BY Zenon DEF Told

(* An event that is no accept completion adds nothing to Told. *)
LEMMA ToldOther ==
  ASSUME NEW e, e.h # "accepted", Elements(inbox') \subseteq Elements(inbox) \cup {e}
  PROVE  Told' \subseteq Told
  BY Zenon DEF Told

(* An event adds its operation at most. *)
LEMMA ToldMore ==
  ASSUME NEW e, Elements(inbox') \subseteq Elements(inbox) \cup {e}
  PROVE  Told' \subseteq Told \cup {e.arg}
  BY Zenon DEF Told

(* The event that is handled is one of the inbox, which keeps the others. *)
LEMMA WithoutTold ==
  ASSUME TypeInv, NEW h, NEW i \in DOMAIN inbox, Deliver(i, h)
  PROVE  /\ Without(i) \in Seq(Events) /\ Elements(Without(i)) \subseteq Elements(inbox)
         /\ Elements(inbox) = Elements(Without(i)) \cup {inbox[i]}
         /\ inbox[i] \in Elements(inbox)
         /\ h = "accepted" => inbox[i].arg \in Told
  BY WithoutElements, ZenonT(60) DEF TypeInv, Deliver, Told

(* The handlers of the acceptor hand around the operations they hold. *)
LEMMA CloseHeld ==
  ASSUME TypeInv, NEW r, NEW c \in SomeClient, NEW op, NEW rest \in Seq(Events),
         Elements(rest) \subseteq Elements(inbox), on_close(r, c, op, rest), accepting' \subseteq accepting
  PROVE  Held' \subseteq Held \cup {NoOp}
<1>1. acceptOp' = NoOp /\ taccept' = taccept
  BY DEF on_close
<1>2. Told' \subseteq Told
  <2>1. CASE inbox' = rest
    BY <2>1, ToldSame
  <2>2. CASE Elements(inbox') = Elements(rest) \cup {Event("connected", c, FALSE, NoTunnel)}
    <3>1. Event("connected", c, FALSE, NoTunnel).h # "accepted"
      BY DEF Event
    <3>2. QED BY <2>2, <3>1, ToldOther, Zenon
  <2>3. QED BY <2>1, <2>2, CloseInbox, Zenon
<1>3. QED BY <1>1, <1>2 DEF Held

LEMMA ConnectHeld ==
  ASSUME TypeInv, NEW c \in SomeClient, NEW op, NEW b, NEW rest \in Seq(Events),
         Elements(rest) \subseteq Elements(inbox), do_connect(c, op, b, rest), accepting' = accepting
  PROVE  Held' \subseteq Held \cup {NoOp, op}
<1>1. CASE cstate[c] \notin {"new", "null"}
  BY <1>1, CloseHeld, Zenon DEF do_connect
<1>2. CASE cstate[c] \in {"new", "null"}
  <2>1. acceptOp' = op /\ taccept' = taccept /\ inbox' = rest
    BY <1>2 DEF do_connect
  <2>2. QED BY <2>1, ToldSame, Zenon DEF Held
<1>3. QED BY <1>1, <1>2, Zenon

LEMMA CreateHeld ==
  ASSUME TypeInv, NEW rest \in Seq(Events), Elements(rest) \subseteq Elements(inbox), ClientCreate(rest),
         UNCHANGED <<acceptOp, accepting, taccept>>
  PROVE  Held' \subseteq Held
<1>1. Told' \subseteq Told
  <2>1. CASE inbox' = rest
    BY <2>1, ToldSame
  <2>2. CASE Elements(inbox') = Elements(rest) \cup {Event("created", client, FALSE, NoTunnel)}
    <3>1. Event("created", client, FALSE, NoTunnel).h # "accepted"
      BY DEF Event
    <3>2. QED BY <2>2, <3>1, ToldOther, Zenon
  <2>3. QED BY <2>1, <2>2, CreateInbox, Zenon
<1>2. QED BY <1>1 DEF Held

LEMMA AcceptHeld ==
  ASSUME TypeInv, NEW op \in Ops \cup {NoOp}, NEW t \in Tunnels, NEW rest \in Seq(Events),
         Elements(rest) \subseteq Elements(inbox), do_accept(op, t, rest), acceptOp' \in {acceptOp, op}
  PROVE  Held' \subseteq Held \cup {NoOp, op}
<1>1. CASE inbox' = rest /\ UNCHANGED <<accepting, taccept>>
  BY <1>1, ToldSame, Zenon DEF Held
<1>2. CASE accepting' = accepting \cup {op} /\ inbox' = rest /\ taccept' = [taccept EXCEPT ![t] = op]
  <2>1. \A u \in Tunnels : taccept'[u] \in {taccept[u], op}
    BY <1>2 DEF TypeInv
  <2>2. QED BY <1>2, <2>1, ToldSame, Zenon DEF Held
<1>3. CASE /\ accepting' = accepting \cup {op}
           /\ Elements(inbox') = Elements(rest) \cup {Event("accepted", tclient[t], FALSE, op)}
           /\ UNCHANGED taccept
  <2>1. Event("accepted", tclient[t], FALSE, op).arg = op
    BY DEF Event
  <2>2. Told' \subseteq Told \cup {op}
    BY <1>3, <2>1, ToldMore, Zenon
  <2>3. QED BY <1>3, <2>2, ZenonT(60) DEF Held
<1>4. QED BY <1>1, <1>2, <1>3, AcceptInbox, Zenon

(* The strand handlers only take up the operation they are for. *)
LEMMA StrandHeld ==
  ASSUME TypeInv, StrandNext
  PROVE  Held' \subseteq Held \cup {NoOp}
           \cup (IF async_accept_internal THEN {Head(strand).op} ELSE {})
<1>0. Elements(inbox) \subseteq Elements(inbox) /\ inbox \in Seq(Events) /\ client \in SomeClient
  BY DEF TypeInv
<1>1. ASSUME async_accept_internal
      PROVE  Held' \subseteq Held \cup {NoOp, Head(strand).op}
  <2> DEFINE op == Head(strand).op
  <2>1. op \in Ops
    BY <1>1, HeadRead, ZenonT(60) DEF async_accept_internal
  <2>2. CASE UNCHANGED <<accepting, coreVars, inbox, cstate, tunnelVars>>
    BY <2>2, Zenon DEF Held, Told
  <2>3. CASE (\E c \in Clients : do_connect(c, op, FALSE, inbox)) /\ UNCHANGED accepting
    BY <2>3, <1>0, ConnectHeld, Zenon DEF SomeClient
  <2>4. CASE do_connect(client, op, startPending, inbox) /\ UNCHANGED accepting
    BY <2>4, <1>0, ConnectHeld, Zenon
  <2>5. CASE /\ acceptOp' = op
             /\ IF tunnel # NoTunnel /\ state = "connected" /\ ~ closing
                THEN do_accept(op, tunnel, inbox)
                ELSE UNCHANGED <<accepting, taccept, inbox>>
    <3>1. CASE tunnel # NoTunnel /\ do_accept(op, tunnel, inbox)
      <4>1. tunnel \in Tunnels
        BY <3>1 DEF TypeInv
      <4>2. QED BY <2>1, <2>5, <3>1, <4>1, <1>0, AcceptHeld, Zenon
    <3>2. CASE UNCHANGED <<accepting, taccept, inbox>>
      BY <2>5, <3>2, ZenonT(60) DEF Held, Told
    <3>3. QED BY <2>5, <3>1, <3>2, Zenon
  <2>6. QED BY <1>1, <2>2, <2>3, <2>4, <2>5, Zenon DEF async_accept_internal
<1>2. ASSUME cancel_accept PROVE Held' \subseteq Held \cup {NoOp}
  <2> DEFINE op == Head(strand).op
  <2>1. CASE inbox' = inbox /\ taccept' = taccept /\ acceptOp' \in {acceptOp, NoOp} /\ accepting' = accepting
    BY <2>1, Zenon DEF Held, Told
  <2>2. CASE EmitCancellation(op) /\ acceptOp' = acceptOp /\ accepting' = accepting /\ acceptOp = op
    <3>1. CASE UNCHANGED <<inbox, taccept>>
      BY <3>1, <2>2, Zenon DEF Held, Told
    <3>2. ASSUME NEW t \in Tunnels, taccept' = [taccept EXCEPT ![t] = NoOp],
                 inbox' = Append(inbox, Event("accepted", tclient[t], FALSE, op))
          PROVE  Held' \subseteq Held \cup {NoOp}
      <4>1. op \in Ops
        BY <1>2, HeadRead, Zenon DEF cancel_accept
      <4>2. Event("accepted", tclient[t], FALSE, op) \in Events
        BY <4>1, EventsMade, Zenon DEF TypeInv
      <4>3. Elements(inbox') = Elements(inbox) \cup {Event("accepted", tclient[t], FALSE, op)}
        BY <1>0, <3>2, <4>2, InboxGrows, Zenon
      <4>4. Event("accepted", tclient[t], FALSE, op).arg = op
        BY Zenon DEF Event
      <4>5. Told' \subseteq Told \cup {op}
        BY <4>3, <4>4, ToldMore, Zenon
      <4>6. \A u \in Tunnels : taccept'[u] \in {taccept[u], NoOp}
        BY <3>2, Zenon DEF TypeInv
      <4>7. QED BY <2>2, <4>5, <4>6, Zenon DEF Held
    <3>3. QED BY <2>2, <3>1, <3>2, Zenon DEF EmitCancellation
  <2>3. QED BY <1>2, <2>1, <2>2, ZenonT(60) DEF cancel_accept
<1>3. ASSUME close_internal PROVE Held' \subseteq Held \cup {NoOp}
  <2>1. CASE inbox' = inbox /\ UNCHANGED <<accepting, acceptOp, taccept>>
    BY <2>1 DEF Held, Told
  <2>2. CASE on_close("aborted", client, acceptOp, inbox) /\ UNCHANGED accepting
    BY <2>2, <1>0, CloseHeld
  <2>3. CASE ClientClose(client, inbox) /\ UNCHANGED <<accepting, acceptOp, taccept>>
    <3>1. Event("connected", client, FALSE, NoTunnel) \in Events
          /\ Event("connected", client, FALSE, NoTunnel).h # "accepted"
      <4>1. Event("connected", client, FALSE, NoTunnel) \in Events
        BY EventsMade, Zenon DEF TypeInv
      <4>2. QED BY <4>1 DEF Event
    <3>2. Elements(inbox') \subseteq Elements(inbox) \cup {Event("connected", client, FALSE, NoTunnel)}
      BY <2>3, <3>1, <1>0, InboxGrows, Zenon DEF ClientClose
    <3>3. Told' \subseteq Told
      BY <3>1, <3>2, ToldOther, Zenon
    <3>4. QED BY <2>3, <3>3, ZenonT(60) DEF Held
  <2>4. QED BY <1>3, <2>1, <2>2, <2>3, Zenon DEF close_internal
<1>4. ASSUME on_client_disconnection PROVE Held' \subseteq Held \cup {NoOp}
  <2>1. CASE UNCHANGED <<inbox, acceptOp, taccept, accepting>>
    BY <2>1 DEF Held, Told
  <2>2. CASE (\E r \in {"aborted", "error"} : on_close(r, client, acceptOp, inbox)) /\ UNCHANGED accepting
    BY <2>2, <1>0, CloseHeld
  <2>3. QED BY <1>4, <2>1, <2>2, ZenonT(60) DEF on_client_disconnection
<1>5. QED BY <1>1, <1>2, <1>3, <1>4, Zenon DEF StrandNext

(* The completion handlers take up no operation. *)
LEMMA InboxHeld ==
  ASSUME TypeInv, NEW i \in DOMAIN inbox, InboxStep(i)
  PROVE  Held' \subseteq Held \cup {NoOp}
<1> DEFINE rest == Without(i)
<1>0. client \in SomeClient
  BY DEF TypeInv
<1>1. CASE on_connect(i)
  <2>1. rest \in Seq(Events) /\ Elements(rest) \subseteq Elements(inbox) /\ accepting' = accepting
    BY <1>1, WithoutTold, ZenonT(60) DEF on_connect
  <2> HIDE DEF rest
  <2>2. CASE inbox' = rest /\ UNCHANGED <<acceptOp, taccept>>
    BY <2>1, <2>2, ToldSame, Zenon DEF Held
  <2>3. CASE \E r \in {"aborted", "error"} : on_close(r, client, acceptOp, rest)
    BY <2>1, <2>3, <1>0, CloseHeld
  <2>4. CASE do_create_tunnel(rest) /\ UNCHANGED <<acceptOp, taccept>>
    BY <2>1, <2>4, CreateHeld DEF do_create_tunnel
  <2>5. QED BY <1>1, <2>2, <2>3, <2>4, ZenonT(60) DEF on_connect, rest
<1>2. CASE on_create_tunnel(i)
  <2> DEFINE e == inbox[i]
  <2>1. /\ rest \in Seq(Events) /\ Elements(rest) \subseteq Elements(inbox)
        /\ e.ok => e.arg \in Tunnels
    BY <1>2, WithoutTold, DeliverRead, ZenonT(60) DEF on_create_tunnel
  <2> HIDE DEF rest
  <2>2. CASE inbox' = rest /\ UNCHANGED <<acceptOp, accepting, taccept>>
    BY <2>1, <2>2, ToldSame, ZenonT(60) DEF Held
  <2>3. CASE on_close("error", client, acceptOp, rest) /\ UNCHANGED accepting
    BY <2>1, <2>3, <1>0, CloseHeld, Zenon
  <2>4. CASE e.ok /\ do_accept(acceptOp, e.arg, rest) /\ UNCHANGED acceptOp
    <3>1. acceptOp \in Ops \cup {NoOp} /\ e.arg \in Tunnels
      BY <2>1, <2>4, Zenon DEF TypeInv
    <3>2. Held' \subseteq Held \cup {NoOp, acceptOp}
      BY <2>1, <2>4, <3>1, AcceptHeld, Zenon
    <3>3. QED BY <3>2, Zenon DEF Held
  <2>5. QED BY <1>2, <2>2, <2>3, <2>4, ZenonT(60) DEF on_create_tunnel, rest
<1>3. CASE on_accept(i)
  <2> DEFINE op == inbox[i].arg
             cleared == IF acceptOp = op THEN NoOp ELSE acceptOp
  <2>1. /\ rest \in Seq(Events) /\ Elements(rest) \subseteq Elements(inbox)
        /\ accepting' = accepting \ {op}
    BY <1>3, WithoutTold, ZenonT(60) DEF on_accept
  <2> HIDE DEF rest
  <2>2. CASE inbox' = rest /\ acceptOp' \in {acceptOp, NoOp} /\ UNCHANGED taccept
    BY <2>1, <2>2, ToldSame, ZenonT(60) DEF Held
  <2>3. CASE on_close("error", client, acceptOp, rest)
    BY <2>1, <2>3, <1>0, CloseHeld, Zenon
  <2>4. QED BY <1>3, <2>2, <2>3, ZenonT(60) DEF on_accept, rest
<1>4. CASE on_timer_cb(i)
  <2>1. rest \in Seq(Events) /\ Elements(rest) \subseteq Elements(inbox) /\ accepting' = accepting
    BY <1>4, WithoutTold, ZenonT(60) DEF on_timer_cb
  <2> HIDE DEF rest
  <2>2. CASE inbox' = rest /\ UNCHANGED <<acceptOp, taccept>>
    BY <2>1, <2>2, ToldSame, Zenon DEF Held
  <2>3. CASE do_connect(client, acceptOp, startPending, rest)
    <3>1. Held' \subseteq Held \cup {NoOp, acceptOp}
      BY <2>1, <2>3, <1>0, ConnectHeld, Zenon
    <3>2. QED BY <3>1 DEF Held
  <2>4. CASE do_create_tunnel(rest) /\ UNCHANGED <<acceptOp, taccept>>
    BY <2>1, <2>4, CreateHeld DEF do_create_tunnel
  <2>5. QED BY <1>4, <2>2, <2>3, <2>4, Zenon DEF on_timer_cb, rest
<1>5. QED BY <1>1, <1>2, <1>3, <1>4, Zenon DEF InboxStep

(* Neither do the clients, the tunnels and the timer. *)
LEMMA ClientHeld ==
  ASSUME TypeInv, ClientNext
  PROVE  Held' \subseteq Held \cup {NoOp}
<1>0. inbox \in Seq(Events)
  BY DEF TypeInv
<1>1. CASE TimerExpires
  <2>1. /\ Event("timer", NoClient, TRUE, NoTunnel) \in Events
        /\ inbox' = Append(inbox, Event("timer", NoClient, TRUE, NoTunnel))
    BY <1>1, EventsMade, Zenon DEF TimerExpires
  <2>2. Elements(inbox') = Elements(inbox) \cup {Event("timer", NoClient, TRUE, NoTunnel)}
    BY <1>0, <2>1, InboxGrows, Zenon
  <2>3. Event("timer", NoClient, TRUE, NoTunnel).h # "accepted"
    BY DEF Event
  <2>4. Told' \subseteq Told
    BY <2>2, <2>3, ToldOther, Zenon
  <2>5. QED BY <1>1, <2>4, Zenon DEF Held, TimerExpires
<1>2. ASSUME NEW c \in Clients, NEW ok \in BOOLEAN, ConnectDone(c, ok) PROVE Held' \subseteq Held \cup {NoOp}
  <2>1. /\ Event("connected", c, ok, NoTunnel) \in Events
        /\ inbox' = Append(inbox, Event("connected", c, ok, NoTunnel))
    BY <1>2, EventsMade, Zenon DEF ConnectDone, SomeClient
  <2>2. Elements(inbox') = Elements(inbox) \cup {Event("connected", c, ok, NoTunnel)}
    BY <1>0, <2>1, InboxGrows, Zenon
  <2>3. Event("connected", c, ok, NoTunnel).h # "accepted"
    BY DEF Event
  <2>4. Told' \subseteq Told
    BY <2>2, <2>3, ToldOther, Zenon
  <2>5. QED BY <1>2, <2>4, Zenon DEF Held, ConnectDone
<1>3. ASSUME NEW t \in Tunnels, NEW ok \in BOOLEAN, CreateDone(t, ok) PROVE Held' \subseteq Held \cup {NoOp}
  <2> DEFINE e == Event("created", tclient[t], ok, IF ok THEN t ELSE NoTunnel)
  <2>1. e.h # "accepted"
    BY DEF Event
  <2>2. e \in Events
    BY EventsMade, ZenonT(60) DEF TypeInv
  <2>3. inbox' = Append(inbox, e) /\ UNCHANGED <<acceptOp, accepting, taccept>>
    BY <1>3, Zenon DEF CreateDone
  <2> HIDE DEF e
  <2>4. Elements(inbox') = Elements(inbox) \cup {e}
    BY <1>0, <2>2, <2>3, InboxGrows
  <2>5. Told' \subseteq Told
    BY <2>1, <2>4, ToldOther
  <2>6. QED BY <2>3, <2>5 DEF Held
<1>4. ASSUME NEW t \in Tunnels, NEW b \in BOOLEAN, taccept[t] # NoOp,
             inbox' = Append(inbox, Event("accepted", tclient[t], b, taccept[t]))
      PROVE  Told' \subseteq Told \cup {taccept[t]}
  <2> DEFINE e == Event("accepted", tclient[t], b, taccept[t])
  <2>1. e.arg = taccept[t]
    BY Zenon DEF Event
  <2>2. e \in Events
    BY <1>4, EventsMade DEF TypeInv
  <2>3. inbox' = Append(inbox, e)
    BY <1>4, Zenon
  <2> HIDE DEF e
  <2>4. Elements(inbox') = Elements(inbox) \cup {e}
    BY <1>0, <2>2, <2>3, InboxGrows, Zenon
  <2>5. QED BY <2>1, <2>4, ToldMore, Zenon
<1>5. ASSUME NEW t \in Tunnels, AcceptDone(t) PROVE Held' \subseteq Held \cup {NoOp}
  <2>1. Told' \subseteq Told \cup {taccept[t]}
    BY <1>4, <1>5, ZenonT(60) DEF AcceptDone
  <2>2. (\A u \in Tunnels : taccept'[u] \in {taccept[u], NoOp}) /\ UNCHANGED <<acceptOp, accepting>>
    BY <1>5 DEF AcceptDone, TypeInv
  <2>3. QED BY <2>1, <2>2 DEF Held
<1>6. ASSUME NEW t \in Tunnels, TunnelClosed(t) PROVE Held' \subseteq Held \cup {NoOp}
  <2>1. Told' \subseteq Told \cup {taccept[t]}
    <3>1. CASE taccept[t] = NoOp
      BY <1>6, <3>1, Zenon DEF TunnelClosed, Told
    <3>2. CASE taccept[t] # NoOp
      BY <1>4, <1>6, <3>2, ZenonT(60) DEF TunnelClosed
    <3>3. QED BY <3>1, <3>2
  <2>2. (\A u \in Tunnels : taccept'[u] \in {taccept[u], NoOp}) /\ UNCHANGED <<acceptOp, accepting>>
    BY <1>6, Zenon DEF TunnelClosed, TypeInv
  <2>3. QED BY <2>1, <2>2 DEF Held
<1>7. ASSUME NEW c \in Clients, NEW clean \in BOOLEAN, SessionEnd(c, clean) PROVE Held' \subseteq Held \cup {NoOp}
  <2>1. PICK A, B \in Seq(Events) :
          /\ inbox' = inbox \o A \o B
          /\ \A k \in DOMAIN A : A[k] = Event("created", c, FALSE, NoTunnel)
          /\ \A k \in DOMAIN B : \E t \in Tunnels :
                taccept[t] # NoOp /\ B[k] = Event("accepted", c, FALSE, taccept[t])
    BY <1>7, SessionEndInbox, Zenon
  <2>2. Elements(inbox') = Elements(inbox) \cup Elements(A) \cup Elements(B)
    BY <1>0, <2>1, InboxJoins
  <2>3. \A e \in Elements(A) : e.h # "accepted"
    BY <2>1 DEF Elements, Event
  <2>4. \A e \in Elements(B) : \E t \in Tunnels : e.arg = taccept[t]
    BY <2>1 DEF Elements, Event
  <2>5. Told' \subseteq Told \cup {taccept[t] : t \in Tunnels}
    BY <2>2, <2>3, <2>4, ZenonT(60) DEF Told
  <2>6. (\A u \in Tunnels : taccept'[u] \in {taccept[u], NoOp}) /\ UNCHANGED <<acceptOp, accepting>>
    BY <1>7, ZenonT(60) DEF SessionEnd
  <2>7. QED BY <2>5, <2>6 DEF Held
<1>8. QED BY <1>1, <1>2, <1>3, <1>5, <1>6, <1>7, ZenonT(60) DEF ClientNext

(* Every step keeps TakenInv and StrandInv. *)
LEMMA TakenStep ==
  ASSUME TypeInv, StrandInv, TakenInv, [Next]_vars
  PROVE  TakenInv' /\ StrandInv'
<1>1. CASE UserNext \/ UNCHANGED vars
  <2>1. Held' = Held
    BY <1>1, ZenonT(60) DEF UserNext, bind, close, async_accept, dispatch_accept, EmitSlot, Held, Told
  <2>2. CASE Quiet
    BY <2>1, <2>2, QuietStrand, ZenonT(60) DEF TakenInv, Taken
  <2>3. ASSUME NEW op \in Ops, dispatch_accept(op) PROVE TakenInv' /\ StrandInv'
    BY <2>1, <2>3, DispatchStrand DEF TakenInv, Taken, StrandInv
  <2>4. QED BY <1>1, <2>2, <2>3, ZenonT(60) DEF UserNext, Quiet
<1>2. CASE async_accept_internal
  <2>1. Held' \subseteq Held \cup {NoOp} \cup {Head(strand).op}
    BY <1>2, StrandHeld DEF StrandNext
  <2>2. QED BY <1>2, <2>1, AcceptStrand, ZenonT(60) DEF TakenInv, Taken, StrandInv
<1>3. CASE StrandNext /\ ~ async_accept_internal
  <2>1. Held' \subseteq Held \cup {NoOp}
    BY <1>3, StrandHeld, Zenon
  <2>2. Quiet
    BY <1>3, Zenon DEF StrandNext, Quiet
  <2>3. QED BY <2>1, <2>2, QuietStrand, Zenon DEF TakenInv, Taken
<1>4. CASE InboxNext
  <2>1. Held' \subseteq Held \cup {NoOp}
    BY <1>4, InboxHeld, Zenon DEF InboxNext
  <2>2. Quiet
    BY <1>4 DEF Quiet
  <2>3. QED BY <2>1, <2>2, QuietStrand DEF TakenInv, Taken
<1>5. CASE ClientNext
  <2>1. Quiet
    BY <1>5 DEF Quiet
  <2>2. QED BY <1>5, <2>1, ClientHeld, QuietStrand, ZenonT(60) DEF TakenInv, Taken
<1>6. QED BY <1>1, <1>2, <1>3, <1>4, <1>5 DEF Next

-----------------------------------------------------------------------------
(* The core of the argument: an operation that the strand has taken is  *)
(* either completed or the one that the acceptor holds, and one that    *)
(* completes before it is taken was cancelled and holds no reservation. *)
DoneInv ==
  /\ CompletedOnce
  /\ completed \subseteq called
  /\ acceptOp # NoOp => acceptOp \notin completed /\ state # "null"
  /\ Taken \subseteq completed \cup {acceptOp}
  /\ completed \subseteq Taken \cup (cancelled \ reserved)

(* The reservation of a start, by calls that were made; a call is *)
(* refused or reserved, never both.                               *)
StartInv ==
  /\ reserved \subseteq called /\ initError \subseteq called /\ reserved \cap initError = {}
  /\ StartSound

(* Starting in terms of Taken. *)
LEMMA StartingTaken ==
  /\ TypeInv => Starting = (reserved \ completed) \ Taken
  /\ TypeInv' => Starting' = (reserved' \ completed') \ Taken'
<1>1. ASSUME TypeInv PROVE Starting = (reserved \ completed) \ Taken
  BY <1>1 DEF TypeInv, Starting, Taken, Queued
<1>2. ASSUME TypeInv' PROVE Starting' = (reserved' \ completed') \ Taken'
  BY <1>2, ZenonT(60) DEF TypeInv, Starting, Taken, Queued
<1>3. QED BY <1>1, <1>2

(* complete_accept() completes once what was not complete. *)
LEMMA Completion ==
  ASSUME TypeInv, CompletedOnce, NEW S \in SUBSET Ops, NEW r, complete_accept(S, r)
  PROVE  CompletedOnce' /\ completed' = completed \cup S
  BY DEF TypeInv, CompletedOnce, complete_accept

(* An operation that is taken and that the acceptor then holds. *)
LEMMA Holds ==
  ASSUME DoneInv, NEW op, op \notin completed, acceptOp \in {op, NoOp}, NoOp \notin Taken,
         Taken \subseteq Taken', Taken' \subseteq Taken \cup {op},
         acceptOp' = op, state' # "null", UNCHANGED <<doneVars, called, cancelled, reserved>>
  PROVE  DoneInv'
<1>1. CompletedOnce'
  BY Zenon DEF DoneInv, CompletedOnce, doneVars
<1>2. completed' = completed /\ called' = called /\ cancelled' = cancelled /\ reserved' = reserved
  BY Zenon DEF doneVars
<1>3. Taken' \subseteq completed \cup {op}
  BY Zenon DEF DoneInv
<1>4. QED BY <1>1, <1>2, <1>3, Zenon DEF DoneInv

(* An operation that is taken is one of Ops. *)
LEMMA NoneTaken == TypeInv => NoOp \notin Taken
  BY NoneIsNone, Zenon DEF TypeInv, Taken

(* Steps that neither complete an operation nor take one. *)
LEMMA Keeps ==
  ASSUME TypeInv, TypeInv', DoneInv, StartInv, Taken' = Taken,
         called \subseteq called', cancelled \subseteq cancelled',
         UNCHANGED <<doneVars, acceptOp, startVars, initError, client>>,
         (state' = "null") <=> (state = "null")
  PROVE  DoneInv' /\ StartInv'
<1>1. DoneInv'
  BY DEF DoneInv, CompletedOnce
<1>2. Starting' = Starting
  BY StartingTaken, Zenon
<1>3. QED BY <1>1, <1>2 DEF StartInv, StartSound

(* on_close() completes the operation that is held, or the one just taken. *)
LEMMA Closes ==
  ASSUME TypeInv, TypeInv', DoneInv, StartInv, NEW r, NEW c, NEW op \in Ops \cup {NoOp}, NEW rest,
         state # "null", on_close(r, c, op, rest), acceptOp \in {op, NoOp},
         Taken \subseteq Taken', Taken' \subseteq Taken \cup {op}, op \in Taken' \cup {NoOp},
         Taken' \subseteq called, UNCHANGED callVars
  PROVE  DoneInv' /\ StartInv'
<1>1. /\ state' = "null" /\ client' = NoClient /\ acceptOp' = NoOp /\ reserved' = reserved
      /\ nonNull' = FALSE /\ startPending' = FALSE /\ bound' = FALSE
      /\ complete_accept({op} \ {NoOp}, r)
  BY Zenon DEF on_close
<1>2. CompletedOnce' /\ completed' = completed \cup ({op} \ {NoOp})
  BY <1>1, Completion, ZenonT(60) DEF DoneInv
<1>3. DoneInv'
  BY <1>1, <1>2, NoneIsNone DEF DoneInv, TypeInv
<1>4. Starting = {}
  BY DEF StartInv, StartSound
<1>5. Starting' = {}
  BY <1>1, <1>2, <1>4, StartingTaken, Zenon
<1>6. StartSound'
  BY <1>1, <1>5, Zenon DEF StartSound
<1>7. QED BY <1>1, <1>3, <1>6, Zenon DEF StartInv

(* do_connect() from idle *)
LEMMA Reconnects ==
  ASSUME TypeInv, TypeInv', DoneInv, StartInv, NEW op \in Ops \cup {NoOp}, NEW rest,
         state = "idle", do_connect(client, op, startPending, rest), acceptOp \in {op, NoOp},
         Taken \subseteq Taken', Taken' \subseteq Taken \cup {op}, op \in Taken' \cup {NoOp},
         Taken' \subseteq called, op \notin completed, UNCHANGED callVars
  PROVE  DoneInv' /\ StartInv'
<1>1. CASE on_close("error", client, op, rest)
  BY <1>1, Closes, Zenon
<1>2. CASE ~ (cstate[client] \notin {"new", "null"})
  <2>1. /\ state' = "connecting" /\ client' = client /\ acceptOp' = op /\ startPending' = startPending
        /\ UNCHANGED <<nonNull, bound, reserved, doneVars>>
    BY <1>2, Zenon DEF do_connect
  <2>2. DoneInv'
    BY <2>1, Holds, NoneTaken, ZenonT(60) DEF callVars
  <2>3. Starting = {}
    BY DEF StartInv, StartSound
  <2>4. Starting' = {}
    BY <2>1, <2>3, StartingTaken, ZenonT(60)
  <2>5. StartSound'
    BY <2>1, <2>3, <2>4 DEF StartInv, StartSound
  <2>6. QED BY <2>1, <2>2, <2>5, Zenon DEF StartInv
<1>3. QED BY <1>1, <1>2, Zenon DEF do_connect

(* An operation the strand has taken is completed. *)
LEMMA Completes ==
  ASSUME TypeInv, TypeInv', DoneInv, StartInv, NEW op \in Ops, NEW r, op \in Taken,
         complete_accept({op}, r), Taken' = Taken, Taken \subseteq called,
         acceptOp' = IF acceptOp = op THEN NoOp ELSE acceptOp,
         UNCHANGED <<callVars, startVars, state, client>>
  PROVE  DoneInv' /\ StartInv'
<1>1. CompletedOnce' /\ completed' = completed \cup {op}
  BY Completion, ZenonT(60) DEF DoneInv
<1>2. DoneInv'
  BY <1>1, NoneIsNone DEF DoneInv, TypeInv
<1>3. Starting' = Starting
  BY <1>1, StartingTaken
<1>4. QED BY <1>2, <1>3 DEF StartInv, StartSound

(* release_accept_reservation() finds the start that is on its way. *)
LEMMA Releases ==
  ASSUME TypeInv, DoneInv, StartInv, NEW op \in Ops \ Taken, release_accept_reservation(op)
  PROVE  /\ reserved' = reserved \ {op}
         /\ op \in reserved => Starting = {op} /\ startPending' = FALSE /\ nonNull' = FALSE
                               /\ state = "null" /\ bound' = bound
         /\ op \notin reserved => UNCHANGED startVars
<1>1. CASE op \in reserved
  <2>1. op \in Starting
    BY <1>1, StartingTaken DEF DoneInv
  <2>2. Starting = {op} /\ startPending /\ state = "null"
    BY <2>1, Zenon DEF StartInv, StartSound
  <2>3. QED BY <1>1, <2>2, ZenonT(60) DEF release_accept_reservation
<1>2. CASE op \notin reserved
  BY <1>2, ZenonT(60) DEF release_accept_reservation, TypeInv
<1>3. QED BY <1>1, <1>2, Zenon

(* An operation not yet taken is cancelled. *)
LEMMA Cancels ==
  ASSUME TypeInv, TypeInv', DoneInv, StartInv, NEW op \in Ops \ Taken, NEW r, op \in cancelled,
         release_accept_reservation(op), complete_accept({op}, r),
         Taken \subseteq Taken', Taken' \subseteq Taken \cup {op}, cancelled \subseteq called,
         UNCHANGED <<callVars, state, client, acceptOp>>, acceptOp \in Taken \cup {NoOp}
  PROVE  DoneInv' /\ StartInv'
<1>1. CompletedOnce' /\ completed' = completed \cup {op}
  BY Completion DEF DoneInv
<1>2. /\ reserved' = reserved \ {op}
      /\ op \in reserved => Starting = {op} /\ startPending' = FALSE /\ nonNull' = FALSE
                            /\ state = "null" /\ bound' = bound
      /\ op \notin reserved => UNCHANGED startVars
  BY Releases, ZenonT(60)
<1>3. DoneInv'
  <2>1. acceptOp' = acceptOp /\ state' = state /\ called' = called /\ cancelled' = cancelled
    BY Zenon DEF callVars
  <2>2. op \notin Taken /\ NoOp \notin Ops /\ op \in Ops
    BY NoneIsNone, Zenon
  <2>3. QED BY <1>1, <1>2, <2>1, <2>2 DEF DoneInv
<1>4. Starting' = Starting \ {op}
  BY <1>1, <1>2, StartingTaken
<1>5. CASE op \in reserved
  <2>1. Starting' = {}
    BY <1>2, <1>4, <1>5, Zenon
  <2>2. StartSound'
    BY <1>2, <1>5, <2>1, ZenonT(60) DEF StartInv, StartSound
  <2>3. QED BY <1>2, <1>3, <2>2 DEF StartInv
<1>6. CASE op \notin reserved
  <2>1. Starting' = Starting
    BY <1>4, <1>6, StartingTaken, Zenon
  <2>2. QED BY <1>2, <1>3, <1>6, <2>1 DEF StartInv, StartSound
<1>7. QED BY <1>5, <1>6, Zenon

(* API calls keep DoneInv and StartInv. *)
LEMMA UserDone ==
  ASSUME TypeInv, TypeInv', StrandInv, DoneInv, StartInv, UserNext \/ UNCHANGED vars
  PROVE  DoneInv' /\ StartInv'
<1>1. CASE close \/ (\E op \in Ops : EmitSlot(op)) \/ UNCHANGED vars
  <2>1. Quiet
    BY <1>1, Zenon DEF Quiet
  <2>2. Taken' = Taken /\ called \subseteq called' /\ cancelled \subseteq cancelled'
    BY <2>1, QuietStrand DEF Taken
  <2>3. UNCHANGED <<doneVars, acceptOp, startVars, initError, client, state>>
    BY <1>1, ZenonT(60) DEF close, EmitSlot
  <2>4. QED BY <2>2, <2>3, Keeps, Zenon
<1>2. ASSUME NEW op \in Ops, dispatch_accept(op) PROVE DoneInv' /\ StartInv'
  <2>1. Taken' = Taken
    BY <1>2, DispatchStrand, Zenon DEF Taken
  <2>2. UNCHANGED <<called, cancelled, doneVars, acceptOp, startVars, initError, client, state>>
    BY <1>2, Zenon DEF dispatch_accept
  <2>3. QED BY <2>1, <2>2, Keeps, Zenon
<1>3. CASE bind
  <2>1. Taken' = Taken
    BY <1>3, QuietStrand, Zenon DEF Taken, Quiet
  <2>2. /\ ~ nonNull /\ bound' = TRUE
        /\ UNCHANGED <<callVars, doneVars, acceptOp, nonNull, startPending, reserved, client, state>>
    BY <1>3, Zenon DEF bind
  <2>3. DoneInv'
    BY <2>1, <2>2, ZenonT(60) DEF DoneInv, CompletedOnce
  <2>4. Starting' = Starting
    BY <2>1, <2>2, StartingTaken
  <2>5. QED BY <2>2, <2>3, <2>4, Zenon DEF StartInv, StartSound
<1>4. ASSUME NEW op \in Ops, async_accept(op) PROVE DoneInv' /\ StartInv'
  <2>1. Taken' = Taken /\ Taken \subseteq called
    BY <1>4, QuietStrand, Zenon DEF Taken, Quiet, StrandInv
  <2>2. /\ op \notin called /\ called' = called \cup {op}
        /\ UNCHANGED <<cancelled, doneVars, acceptOp, client, state, bound>>
    BY <1>4, Zenon DEF async_accept
  <2>3. CASE UNCHANGED <<nonNull, startPending, reserved>> /\ initError' \in {initError, initError \cup {op}}
    <3>1. DoneInv'
      BY <2>1, <2>2, <2>3, Zenon DEF DoneInv, CompletedOnce
    <3>2. Starting' = Starting
      BY <2>1, <2>2, <2>3, StartingTaken, Zenon
    <3>3. StartSound'
      BY <2>2, <2>3, <3>2, Zenon DEF StartInv, StartSound
    <3>4. QED BY <2>2, <2>3, <3>1, <3>3, Zenon DEF StartInv
  <2>4. CASE /\ ~ startPending /\ ~ nonNull /\ bound /\ nonNull' = TRUE /\ startPending' = TRUE
             /\ reserved' = reserved \cup {op} /\ UNCHANGED initError
    <3>1. op \notin completed /\ op \notin Taken
      BY <2>1, <2>2, Zenon DEF DoneInv
    <3>2. DoneInv'
      BY <2>1, <2>2, <2>4, <3>1, Zenon DEF DoneInv, CompletedOnce
    <3>3. Starting = {}
      BY <2>4, Zenon DEF StartInv, StartSound
    <3>4. Starting' = {op}
      BY <2>1, <2>2, <2>4, <3>1, <3>3, StartingTaken, ZenonT(60)
    <3>5. StartSound'
      BY <2>2, <2>4, <3>4 DEF StartInv, StartSound
    <3>6. QED BY <2>2, <2>4, <3>2, <3>5, Zenon DEF StartInv
  <2>5. QED BY <1>4, <2>3, <2>4, ZenonT(60) DEF async_accept
<1>5. QED BY <1>1, <1>2, <1>3, <1>4, Zenon DEF UserNext

(* async_accept_internal() keeps DoneInv and StartInv: it completes the *)
(* operation it takes, or holds it.                                     *)
LEMMA AcceptDoneInv ==
  ASSUME TypeInv, TypeInv', StrandInv, TakenInv, DoneInv, StartInv, async_accept_internal
  PROVE  DoneInv' /\ StartInv'
<1> DEFINE op == Head(strand).op
<1>1. /\ op \in Ops /\ op \in Queued /\ op \notin Taken /\ op \in called /\ Taken' = Taken \cup {op}
      /\ Taken' \subseteq called /\ UNCHANGED callVars /\ cancelled \subseteq called
  BY AcceptStrand, ZenonT(60) DEF Taken, StrandInv
<1>2. acceptOp \in Taken \cup {NoOp}
  BY ZenonT(60) DEF TakenInv, Held
<1> DEFINE refused == op \in initError \/ acceptOp # NoOp \/ (state = "null" /\ op \notin reserved)
<1>3. CASE op \in cancelled /\ release_accept_reservation(op) /\ complete_accept({op}, "aborted")
           /\ UNCHANGED coreVars
  <2> HIDE DEF op
  <2>1. op \in Ops \ Taken /\ Taken \subseteq Taken' /\ Taken' \subseteq Taken \cup {op}
    BY <1>1, Zenon
  <2>2. UNCHANGED <<callVars, state, client, acceptOp>>
    BY <1>1, <1>3, Zenon
  <2>3. QED BY <1>1, <1>2, <1>3, <2>1, <2>2, Cancels, Zenon
<1>4. CASE op \notin cancelled /\ refused /\ complete_accept({op}, "error")
           /\ UNCHANGED <<startVars, coreVars>>
  <2> HIDE DEF op
  <2>1. CompletedOnce' /\ completed' = completed \cup {op}
    BY <1>1, <1>4, Completion DEF DoneInv
  <2>2. DoneInv'
    BY <1>1, <1>2, <1>4, <2>1, NoneIsNone, ZenonT(60) DEF DoneInv, TypeInv
  <2>3. op \notin Starting
    BY <1>4, StartingTaken, ZenonT(60) DEF StartInv, StartSound, DoneInv
  <2>4. Starting' = Starting
    BY <1>1, <1>4, <2>1, <2>3, StartingTaken
  <2>5. QED BY <1>1, <1>4, <2>2, <2>4, ZenonT(60) DEF StartInv, StartSound
<1>5. op \notin cancelled => op \notin completed
  BY <1>1, ZenonT(60) DEF DoneInv
<1>6. CASE op \notin cancelled /\ ~ refused /\ state = "null"
           /\ \E c \in Clients : cstate[c] = "new" /\ do_connect(c, op, FALSE, inbox)
  <2> HIDE DEF op
  <2>1. PICK c \in Clients : cstate[c] = "new" /\ do_connect(c, op, FALSE, inbox)
    BY <1>6, ZenonT(60)
  <2>2. /\ state' = "connecting" /\ client' = c /\ acceptOp' = op /\ startPending' = FALSE
        /\ UNCHANGED <<nonNull, bound, reserved, doneVars>>
    BY <2>1, Zenon DEF do_connect
  <2>3. DoneInv'
    <3>1. op \notin completed
      BY <1>5, <1>6, Zenon
    <3>2. acceptOp = NoOp
      BY <1>6, Zenon
    <3>3. QED BY <1>1, <2>2, <3>1, <3>2, Holds, NoneTaken, Zenon DEF callVars
  <2>4. op \in Starting
    BY <1>1, <1>5, <1>6, StartingTaken
  <2>5. Starting = {op} /\ nonNull
    BY <2>4 DEF StartInv, StartSound
  <2>6. Starting' = {}
    BY <1>1, <2>2, <2>5, StartingTaken
  <2>7. StartSound'
    BY <2>2, <2>5, <2>6, NoneIsNone DEF StartInv, StartSound
  <2>8. QED BY <1>1, <2>2, <2>3, <2>7 DEF StartInv
<1>7. CASE op \notin cancelled /\ ~ refused /\ state = "idle"
           /\ do_connect(client, op, startPending, inbox)
  <2> HIDE DEF op
  <2>1. Taken \subseteq Taken' /\ Taken' \subseteq Taken \cup {op} /\ op \in Taken' \cup {NoOp}
    BY <1>1
  <2>2. acceptOp \in {op, NoOp} /\ op \in Ops \cup {NoOp} /\ op \notin completed
    BY <1>1, <1>5, <1>7
  <2>3. QED BY <1>1, <1>7, <2>1, <2>2, Reconnects
<1>8. CASE op \notin cancelled /\ ~ refused /\ state \in {"connecting", "connected"}
           /\ acceptOp' = op /\ UNCHANGED <<doneVars, startVars, state, client>>
  <2> HIDE DEF op
  <2>1. DoneInv'
    <3>1. op \notin completed /\ acceptOp = NoOp /\ acceptOp' = op /\ state' # "null"
          /\ UNCHANGED <<doneVars, reserved>>
      BY <1>5, <1>8, ZenonT(60) DEF startVars
    <3>2. QED BY <1>1, <3>1, Holds, NoneTaken, Zenon DEF callVars
  <2>2. Starting = {}
    BY <1>8 DEF StartInv, StartSound
  <2>3. Starting' = {}
    BY <1>1, <1>8, <2>2, StartingTaken, ZenonT(60)
  <2>4. StartSound'
    BY <1>8, <2>2, <2>3 DEF StartInv, StartSound
  <2>5. QED BY <1>1, <1>8, <2>1, <2>4, Zenon DEF StartInv
<1>9. QED BY <1>3, <1>4, <1>6, <1>7, <1>8, Zenon DEF async_accept_internal

(* The other strand handlers keep DoneInv and StartInv. *)
LEMMA StrandDone ==
  ASSUME TypeInv, TypeInv', StrandInv, TakenInv, DoneInv, StartInv,
         cancel_accept \/ close_internal \/ on_client_disconnection
  PROVE  DoneInv' /\ StartInv'
<1>1. /\ Taken' = Taken /\ called \subseteq called' /\ cancelled \subseteq cancelled'
      /\ Taken \subseteq called /\ cancelled \subseteq called
  BY QuietStrand, ZenonT(60) DEF Quiet, Taken, StrandInv
<1>2. acceptOp \in Taken \cup {NoOp} /\ acceptOp \in Ops \cup {NoOp}
  BY DEF TakenInv, Held, TypeInv
<1>3. CASE cancel_accept
  <2> DEFINE op == Head(strand).op
  <2>1. op \in Ops /\ op \in cancelled /\ Run("cancel")
    BY <1>3, PopOther, HeadRead, ZenonT(60) DEF cancel_accept
  <2>2. UNCHANGED <<callVars, state, client>>
    BY <1>3, ZenonT(60) DEF cancel_accept
  <2>3. CASE UNCHANGED <<doneVars, startVars, acceptOp>>
    BY <1>1, <2>2, <2>3, Keeps, Zenon
  <2>4. CASE op \notin completed /\ acceptOp # op /\ release_accept_reservation(op)
             /\ complete_accept({op}, "aborted") /\ UNCHANGED acceptOp
    <3> HIDE DEF op
    <3>1. op \in Ops \ Taken
      BY <2>1, <2>4, Zenon DEF DoneInv
    <3>2. UNCHANGED <<callVars, state, client, acceptOp>>
      BY <2>2, <2>4
    <3>3. Taken \subseteq Taken' /\ Taken' \subseteq Taken \cup {op}
      BY <1>1, Zenon
    <3>4. QED BY <1>1, <1>2, <2>1, <2>4, <3>1, <3>2, <3>3, Cancels, ZenonT(60)
  <2>5. CASE op \notin completed /\ acceptOp = op /\ acceptOp' = NoOp
             /\ complete_accept({op}, "aborted") /\ UNCHANGED startVars
    <3> HIDE DEF op
    <3>1. op \in Taken
      BY <1>2, <2>1, <2>5, NoneIsNone, Zenon
    <3>2. acceptOp' = IF acceptOp = op THEN NoOp ELSE acceptOp
      BY <2>5, Zenon
    <3>3. UNCHANGED <<callVars, startVars, state, client>>
      BY <2>2, <2>5, Zenon
    <3>4. QED BY <1>1, <2>1, <2>5, <3>1, <3>2, <3>3, Completes, Zenon
  <2>6. QED BY <1>3, <2>3, <2>4, <2>5, ZenonT(60) DEF cancel_accept
<1>4. ASSUME NEW r, state # "null", on_close(r, client, acceptOp, inbox), UNCHANGED callVars
      PROVE  DoneInv' /\ StartInv'
  <2>1. Taken \subseteq Taken' /\ Taken' \subseteq Taken \cup {acceptOp} /\ acceptOp \in Taken' \cup {NoOp}
        /\ Taken' \subseteq called /\ acceptOp \in {acceptOp, NoOp}
    BY <1>1, <1>2
  <2>2. QED BY <1>2, <1>4, <2>1, Closes, Zenon
<1>5. CASE close_internal
  <2>1. CASE UNCHANGED <<doneVars, startVars, state, client, acceptOp>>
    BY <1>1, <1>5, <2>1, Keeps, ZenonT(60) DEF close_internal
  <2>2. CASE state = "idle" /\ on_close("aborted", client, acceptOp, inbox)
    BY <1>4, <1>5, <2>2, ZenonT(60) DEF close_internal
  <2>3. QED BY <1>5, <2>1, <2>2, ZenonT(60) DEF close_internal
<1>6. CASE on_client_disconnection
  <2>1. CASE UNCHANGED <<doneVars, startVars, acceptOp, client>> /\ (state' = "null" <=> state = "null")
    BY <1>1, <1>6, <2>1, Keeps, ZenonT(60) DEF on_client_disconnection
  <2>2. CASE state = "connected" /\ \E r : on_close(r, client, acceptOp, inbox)
    BY <1>4, <1>6, <2>2, Zenon DEF on_client_disconnection
  <2>3. QED BY <1>6, <2>1, <2>2, ZenonT(60) DEF on_client_disconnection
<1>7. QED BY <1>3, <1>5, <1>6, Zenon

(* The completion handlers keep DoneInv and StartInv. *)
LEMMA InboxDone ==
  ASSUME TypeInv, TypeInv', StrandInv, TakenInv, DoneInv, StartInv, InboxNext
  PROVE  DoneInv' /\ StartInv'
<1>1. Taken' = Taken /\ Taken \subseteq called
  BY QuietStrand, Zenon DEF Quiet, Taken, StrandInv
<1>2. acceptOp \in Taken \cup {NoOp} /\ acceptOp \in Ops \cup {NoOp}
  BY Zenon DEF TakenInv, Held, TypeInv
<1>3. ASSUME NEW r, NEW rest, state # "null", on_close(r, client, acceptOp, rest), UNCHANGED callVars
      PROVE  DoneInv' /\ StartInv'
  <2>1. Taken \subseteq Taken' /\ Taken' \subseteq Taken \cup {acceptOp} /\ acceptOp \in Taken' \cup {NoOp}
        /\ Taken' \subseteq called /\ acceptOp \in {acceptOp, NoOp}
    BY <1>1, <1>2
  <2>2. QED BY <1>2, <1>3, <2>1, Closes, Zenon
<1>4. PICK i \in DOMAIN inbox : InboxStep(i)
  BY DEF InboxNext
<1>5. UNCHANGED callVars
  BY <1>4, ZenonT(60) DEF InboxStep, on_connect, on_create_tunnel, on_accept, on_timer_cb
<1>6. CASE UNCHANGED <<doneVars, startVars, acceptOp, client>> /\ (state' = "null" <=> state = "null")
  BY <1>1, <1>5, <1>6, Keeps, Zenon
<1>7. CASE on_connect(i)
  BY <1>3, <1>5, <1>6, <1>7, ZenonT(60) DEF on_connect
<1>8. CASE on_create_tunnel(i)
  BY <1>3, <1>5, <1>6, <1>8, Zenon DEF on_create_tunnel
<1>9. CASE on_accept(i)
  <2> DEFINE op == inbox[i].arg
             cleared == IF acceptOp = op THEN NoOp ELSE acceptOp
  <2>1. op \in Ops /\ op \in Taken
    <3>1. op \in Ops /\ op \in Told
      <4>1. Deliver(i, "accepted")
        BY <1>9, Zenon DEF on_accept
      <4>2. QED BY <4>1, DeliverRead, Zenon DEF Deliver, Told, Elements
    <3>2. QED BY <3>1, NoneIsNone, Zenon DEF TakenInv, Held
  <2>2. CASE \E r : acceptOp' = cleared /\ complete_accept({op}, r) /\ UNCHANGED <<startVars, state, client>>
    <3>1. PICK r : acceptOp' = cleared /\ complete_accept({op}, r) /\ UNCHANGED <<startVars, state, client>>
      BY <2>2, Zenon
    <3> HIDE DEF op
    <3>2. QED BY <1>1, <1>5, <2>1, <3>1, Completes, Zenon
  <2>3. QED BY <1>3, <1>5, <1>6, <1>9, <2>2, ZenonT(60) DEF on_accept
<1>10. CASE on_timer_cb(i)
  <2>1. CASE ~ closing /\ state = "idle" /\ do_connect(client, acceptOp, startPending, Without(i))
    <3>1. Taken \subseteq Taken' /\ Taken' \subseteq Taken \cup {acceptOp} /\ acceptOp \in Taken' \cup {NoOp}
          /\ Taken' \subseteq called /\ acceptOp \in {acceptOp, NoOp} /\ acceptOp \notin completed
      BY <1>1, <1>2, NoneIsNone, Zenon DEF DoneInv, TypeInv
    <3>2. QED BY <1>2, <1>5, <2>1, <3>1, Reconnects, Zenon
  <2>2. QED BY <1>6, <1>10, <2>1, Zenon DEF on_timer_cb
<1>11. QED BY <1>4, <1>7, <1>8, <1>9, <1>10, Zenon DEF InboxStep

(* The inductive invariant. *)
AcceptInv == TypeInv /\ StrandInv /\ TakenInv /\ DoneInv /\ StartInv

(* It holds initially. *)
LEMMA InitAccept == Init => AcceptInv
<1> SUFFICES ASSUME Init PROVE AcceptInv
  OBVIOUS
<1>1. TypeInv
  BY InitType, ZenonT(60)
<1>2. Queued = {} /\ Taken = {} /\ StrandInv
  BY DEF Init, Queued, OnStrand, Taken, StrandInv, AcceptsOnce
<1>3. TakenInv
  BY DEF Init, TakenInv, Held, Told, Elements
<1>4. DoneInv
  BY <1>2, Zenon DEF Init, DoneInv, CompletedOnce
<1>5. StartInv
  BY <1>1, StartingTaken DEF Init, StartInv, StartSound
<1>6. QED BY <1>1, <1>2, <1>3, <1>4, <1>5 DEF AcceptInv

(* Every step keeps it. *)
LEMMA StepAccept == AcceptInv /\ [Next]_vars => AcceptInv'
<1> SUFFICES ASSUME AcceptInv, [Next]_vars PROVE AcceptInv'
  BY Zenon
<1> USE DEF AcceptInv
<1>1. TypeInv'
  BY StepType, Zenon
<1>2. TakenInv' /\ StrandInv'
  BY TakenStep, Zenon
<1>3. CASE UserNext \/ UNCHANGED vars
  BY <1>1, <1>2, <1>3, UserDone, Zenon
<1>4. CASE StrandNext
  BY <1>1, <1>2, <1>4, AcceptDoneInv, StrandDone, Zenon DEF StrandNext
<1>5. CASE InboxNext
  BY <1>1, <1>2, <1>5, InboxDone, Zenon
<1>6. CASE ClientNext
  <2>1. Taken' = Taken
    BY <1>6, QuietStrand DEF Quiet, Taken
  <2>2. UNCHANGED <<callVars, doneVars, acceptOp, startVars, client, state>>
    BY <1>6, ZenonT(60) DEF ClientNext, TimerExpires, ConnectDone, SessionEnd, AcceptDone, TunnelClosed, CreateDone
  <2>3. QED BY <1>1, <1>2, <2>1, <2>2, Keeps, ZenonT(60)
<1>7. QED BY <1>3, <1>4, <1>5, <1>6, ZenonT(60) DEF Next

(* The inductive invariant holds of the acceptor of lib/rstream/io-  *)
(* rstrm/acceptor.cpp, for any number of calls, clients and tunnels. *)
THEOREM AcceptInvariant == Spec => []AcceptInv
<1>1. QED BY InitAccept, StepAccept, PTL DEF Spec

(* complete_accept(): the handler of an accept call is called once,    *)
(* however the completion of the tunnel, the cancellation of the call, *)
(* the end of the session and close() interleave.                      *)
THEOREM AcceptCompletesOnce == Spec => []CompletedOnce
<1>1. AcceptInv => CompletedOnce
  BY ZenonT(60) DEF AcceptInv, DoneInv
<1>2. QED BY <1>1, AcceptInvariant, PTL

(* async_accept_internal() and its completions: an accept call that the *)
(* strand has taken is complete or held in m_accept_op, so that no      *)
(* interleaving drops its handler.                                      *)
THEOREM NoAcceptLost == Spec => []NoLostAccept
<1>1. AcceptInv => NoLostAccept
  BY NoneIsNone DEF AcceptInv, DoneInv, NoLostAccept, Taken, Queued, TypeInv
<1>2. QED BY <1>1, AcceptInvariant, PTL

(* m_start_pending and the reservation of a start: they stand for the   *)
(* accept call that starts the acceptor and are given back when it ends *)
(* before the strand has taken it.                                      *)
THEOREM StartIsSound == Spec => []StartSound
<1>1. AcceptInv => StartSound
  BY DEF AcceptInv, StartInv
<1>2. QED BY <1>1, AcceptInvariant, PTL

=============================================================================
