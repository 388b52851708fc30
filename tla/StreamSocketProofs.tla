------------------------- MODULE StreamSocketProofs -------------------------
(***************************************************************************)
(* Proofs about the socket of a tunnel stream, for any sets of calls.      *)
(***************************************************************************)
EXTENDS StreamSocket, TLAPS

(* The calls are told apart, and the null operation is none of them. *)
OpsDistinct == ConnectOps \cap TransferOps = {} /\ NoOp \notin SocketOps

Causes == {"none", "ok", "error", "aborted", "invalid_state", "invalid_configuration", "invalid_endpoint"}

Steps == {"none", "resolve", "connect", "refused", "request", "response", "transfer"}

ConnectResults == {"on_resolve", "on_connect", "on_handshake"}

Handlers ==
  [h : {"close"}, op : {NoOp}, err : Causes]
  \cup [h : {"connect", "cancel_connect"} \cup ConnectResults, op : ConnectOps, err : Causes]
  \cup [h : {"transfer", "cancel_transfer", "on_transfer"}, op : TransferOps, err : Causes]

OpRecords ==
  [entered : BOOLEAN, dispatched : BOOLEAN, cancelled : BOOLEAN, started : BOOLEAN,
   reserved : BOOLEAN, init : Causes, terminal : Causes, result : Causes]

TypeInv ==
  /\ state \in {"null", "connecting", "connected"} /\ nonNull \in BOOLEAN
  /\ connectOp \in ConnectOps \cup {NoOp}
  /\ ops \in [SocketOps -> OpRecords]
  /\ pending \in [SocketOps -> [step : Steps, aborted : BOOLEAN]]
  /\ \A o \in ConnectOps : pending[o].step # "transfer"
  /\ \A o \in TransferOps : pending[o].step \in {"none", "transfer"}
  /\ strand \in Seq(Handlers)

(* Where a connect call is: not entered, on its way to the strand, on the
   strand (once), or past it; only a call that is past it is m_connect_op. *)
CallInv ==
  /\ connectOp # NoOp => state = "connecting" /\ ops[connectOp].dispatched
  /\ \A o \in ConnectOps : ops[o].dispatched => ops[o].entered
  /\ \A i \in 1..Len(strand) :
       strand[i].h = "connect" => ops[strand[i].op].dispatched /\ connectOp # strand[i].op
  /\ \A i, j \in 1..Len(strand) :
       strand[i].h = "connect" /\ strand[j].h = "connect" /\ strand[i].op = strand[j].op => i = j

(* A connect step is running on the transport or its result is queued (once),
   never both, and only while the call is marked as started. *)
StepInv ==
  /\ \A o \in ConnectOps : pending[o].step # "none" => ops[o].started
  /\ \A i \in 1..Len(strand) :
       strand[i].h \in ConnectResults
         => ops[strand[i].op].started /\ pending[strand[i].op].step = "none"
  /\ \A i, j \in 1..Len(strand) :
       strand[i].h \in ConnectResults /\ strand[j].h \in ConnectResults /\ strand[i].op = strand[j].op
         => i = j

(* The reservation of a socket that is not in use is held by an accepted
   connect that has not completed. *)
HeldInv ==
  /\ \A o \in ConnectOps : ops[o].reserved => ops[o].init = "none"
  /\ \A o \in ConnectOps : ~ops[o].entered => ops[o].result = "none"
  /\ \A i \in 1..Len(strand) : strand[i].h = "cancel_connect" => ops[strand[i].op].entered
  /\ state = "null" /\ nonNull
       => \E o \in ConnectOps : ops[o].entered /\ ops[o].reserved /\ ops[o].result = "none"

SocketInv == TypeInv /\ CallInv /\ SocketOwned /\ StepInv /\ HeldInv

-----------------------------------------------------------------------------

LEMMA InitSocketInv == OpsDistinct /\ Init => SocketInv
  <1> SUFFICES ASSUME OpsDistinct, Init PROVE SocketInv
    OBVIOUS
  <1>1. NewOp \in OpRecords /\ Idle \in [step : Steps, aborted : BOOLEAN]
    BY DEF NewOp, OpRecords, Idle, Causes, Steps
  <1>2. \A o \in SocketOps : ops[o] = NewOp /\ pending[o] = Idle
    BY DEF Init
  <1>3. ConnectOps \subseteq SocketOps /\ TransferOps \subseteq SocketOps
    BY DEF SocketOps
  <1>4. Len(strand) = 0 /\ strand \in Seq(Handlers)
    BY DEF Init
  <1>5. TypeInv
    BY <1>1, <1>2, <1>3, <1>4, Zenon DEF Init, TypeInv, Idle
  <1>6. CallInv /\ SocketOwned /\ StepInv /\ HeldInv
    BY <1>2, <1>3, <1>4 DEF Init, CallInv, SocketOwned, StepInv, HeldInv, NewOp, Idle
  <1> QED BY <1>5, <1>6 DEF SocketInv

(* A handler is queued behind the others. *)
LEMMA Pushed ==
  ASSUME TypeInv, NEW x \in Handlers, strand' = Append(strand, x)
  PROVE  /\ strand' \in Seq(Handlers)
         /\ Len(strand) \in Nat /\ Len(strand') = Len(strand) + 1
         /\ \A i \in 1..Len(strand') :
              (i \in 1..Len(strand) /\ strand'[i] = strand[i]) \/ (i = Len(strand) + 1 /\ strand'[i] = x)
  BY DEF TypeInv

(* The first handler is taken. *)
LEMMA Popped ==
  ASSUME TypeInv, NEW h, Run(h)
  PROVE  /\ strand' \in Seq(Handlers) /\ Head(strand) = strand[1] /\ Head(strand) \in Handlers
         /\ Head(strand).h = h /\ Len(strand) \in Nat /\ 1 \in 1..Len(strand)
         /\ \A i \in 1..Len(strand') :
              i + 1 \in 2..Len(strand) /\ strand'[i] = strand[i + 1] /\ strand'[i] \in Handlers
         /\ \A i \in 1..Len(strand') : i \in Nat
  BY DEF TypeInv, Run

-----------------------------------------------------------------------------

(* What a handler leaves alone in the connect calls. *)
KeepsCalls ==
  \A p \in ConnectOps :
    /\ ops'[p].entered = ops[p].entered /\ ops'[p].dispatched = ops[p].dispatched
    /\ ops'[p].init = ops[p].init /\ (ops'[p].reserved => ops[p].reserved)

LEMMA OnCloseEffect ==
  ASSUME OpsDistinct, TypeInv, SocketOwned, NEW os \in [SocketOps -> OpRecords], NEW e \in Causes,
         \A p \in ConnectOps :
           /\ os[p].entered = ops[p].entered /\ os[p].dispatched = ops[p].dispatched
           /\ os[p].reserved = ops[p].reserved /\ os[p].init = ops[p].init
           /\ os[p].result = ops[p].result /\ (os[p].started => ops[p].started),
         OnClose(os, e)
  PROVE  /\ ops' \in [SocketOps -> OpRecords] /\ KeepsCalls /\ nonNull' = FALSE
         /\ \A p \in ConnectOps : ops'[p].started = os[p].started
         /\ \A p \in ConnectOps : p # connectOp => ops'[p].result = ops[p].result
         /\ pending' \in [SocketOps -> [step : Steps, aborted : BOOLEAN]]
         /\ \A p \in SocketOps : pending'[p].step = pending[p].step
         /\ \/ connectOp' = connectOp /\ state' = state
            \/ connectOp' = NoOp /\ state' = "null" /\ \A p \in ConnectOps : ~os[p].started
  <1> DEFINE cause == IF e = "none" /\ connectOp # NoOp THEN "aborted" ELSE e
  <1>1. ConnectOps \subseteq SocketOps /\ connectOp \in SocketOps \cup {NoOp} /\ cause \in Causes
    BY DEF SocketOps, TypeInv, Causes
  <1>2. /\ pending' \in [SocketOps -> [step : Steps, aborted : BOOLEAN]]
        /\ \A p \in SocketOps : pending'[p].step = pending[p].step
        /\ nonNull' = FALSE
    <2>1. /\ pending' = [p \in SocketOps |->
                          [pending[p] EXCEPT !.aborted = (@ \/ pending[p].step # "none")]]
          /\ nonNull' = FALSE /\ pending \in [SocketOps -> [step : Steps, aborted : BOOLEAN]]
      BY DEF OnClose, TypeInv
    <2>2. ASSUME NEW p \in SocketOps
          PROVE  pending'[p] \in [step : Steps, aborted : BOOLEAN] /\ pending'[p].step = pending[p].step
      <3> DEFINE b == pending[p].aborted \/ pending[p].step # "none"
      <3>1. b \in BOOLEAN /\ pending'[p] = [pending[p] EXCEPT !.aborted = b]
        BY <2>1, <2>2
      <3> HIDE DEF b
      <3> QED BY <2>1, <3>1
    <2> QED BY <2>1, <2>2, Zenon
  <1>3. CASE connectOp # NoOp /\ os[connectOp].started
    <2>1. ops' = [os EXCEPT ![connectOp].terminal = cause] /\ connectOp' = connectOp /\ state' = state
      BY <1>3 DEF OnClose
    <2>2. ops' \in [SocketOps -> OpRecords]
      BY <2>1, <1>1, <1>3 DEF OpRecords
    <2>3. \A p \in ConnectOps :
            /\ ops'[p].entered = os[p].entered /\ ops'[p].dispatched = os[p].dispatched
            /\ ops'[p].started = os[p].started /\ ops'[p].reserved = os[p].reserved
            /\ ops'[p].init = os[p].init /\ ops'[p].result = os[p].result
      BY <2>1, <1>1 DEF OpRecords
    <2> QED BY <1>2, <2>1, <2>2, <2>3 DEF KeepsCalls
  <1>4. CASE ~(connectOp # NoOp /\ os[connectOp].started)
    <2>1. ops' = Complete(os, connectOp, cause) /\ connectOp' = NoOp /\ state' = "null"
      BY <1>4 DEF OnClose
    <2>2. \A p \in ConnectOps : ~os[p].started
      BY <1>4, <1>1, Zenon DEF SocketOwned, OpsDistinct
    <2> HIDE DEF cause
    <2>3. /\ ops' \in [SocketOps -> OpRecords]
          /\ \A p \in SocketOps :
              /\ ops'[p].entered = os[p].entered /\ ops'[p].dispatched = os[p].dispatched
              /\ ops'[p].started = os[p].started /\ ops'[p].reserved = os[p].reserved
              /\ ops'[p].init = os[p].init /\ (p # connectOp => ops'[p].result = os[p].result)
      BY <2>1, <1>1 DEF Complete, OpRecords, OpsDistinct
    <2> QED BY <1>1, <1>2, <2>1, <2>2, <2>3 DEF KeepsCalls
  <1> QED BY <1>3, <1>4, Zenon

-----------------------------------------------------------------------------
(* What taking a handler preserves. *)

LEMMA PopCall ==
  ASSUME OpsDistinct, SocketInv, NEW h, Run(h), KeepsCalls,
         connectOp' \in {connectOp, NoOp}, connectOp' # NoOp => state' = state
  PROVE  CallInv'
  <1> USE DEF SocketInv
  <1>1. /\ strand' \in Seq(Handlers)
        /\ \A i \in 1..Len(strand') :
             i + 1 \in 1..Len(strand) /\ i \in Nat /\ strand'[i] = strand[i + 1] /\ strand'[i] \in Handlers
    BY Popped
  <1>2. \A i \in 1..Len(strand') : strand'[i].h = "connect" => strand'[i].op \in ConnectOps
    BY <1>1, Zenon DEF Handlers, ConnectResults
  <1>3. connectOp' # NoOp => state' = "connecting" /\ ops'[connectOp'].dispatched
    BY DEF CallInv, KeepsCalls, TypeInv
  <1>4. \A o \in ConnectOps : ops'[o].dispatched => ops'[o].entered
    BY DEF CallInv, KeepsCalls
  <1>5. \A i \in 1..Len(strand') :
          strand'[i].h = "connect" => ops'[strand'[i].op].dispatched /\ connectOp' # strand'[i].op
    <2> SUFFICES ASSUME NEW i \in 1..Len(strand'), strand'[i].h = "connect"
                 PROVE  ops'[strand'[i].op].dispatched /\ connectOp' # strand'[i].op
      BY Zenon
    <2>1. /\ strand'[i].op \in ConnectOps
          /\ ops[strand'[i].op].dispatched /\ connectOp # strand'[i].op
      BY <1>1, <1>2, Zenon DEF CallInv
    <2>2. NoOp \notin ConnectOps
      BY Zenon DEF OpsDistinct, SocketOps
    <2> QED BY <2>1, <2>2, Zenon DEF KeepsCalls
  <1>6. \A i, j \in 1..Len(strand') :
          strand'[i].h = "connect" /\ strand'[j].h = "connect" /\ strand'[i].op = strand'[j].op => i = j
    <2> SUFFICES ASSUME NEW i \in 1..Len(strand'), NEW j \in 1..Len(strand'),
                        strand'[i].h = "connect", strand'[j].h = "connect",
                        strand'[i].op = strand'[j].op
                 PROVE  i = j
      OBVIOUS
    <2>1. i + 1 = j + 1 BY <1>1, ZenonT(60) DEF CallInv
    <2> QED BY <2>1, <1>1
  <1> QED BY <1>3, <1>4, <1>5, <1>6 DEF CallInv

LEMMA PopStep ==
  ASSUME OpsDistinct, SocketInv, NEW h, Run(h),
         \A p \in ConnectOps :
           \/ pending'[p].step = pending[p].step /\ ops'[p].started = ops[p].started
           \/ /\ \A i \in 2..Len(strand) : strand[i].h \in ConnectResults => strand[i].op # p
              /\ pending'[p].step # "none" => ops'[p].started
  PROVE  StepInv'
  <1> USE DEF SocketInv
  <1>1. /\ strand' \in Seq(Handlers)
        /\ \A i \in 1..Len(strand') :
             /\ i + 1 \in 1..Len(strand) /\ i + 1 \in 2..Len(strand) /\ i \in Nat
             /\ strand'[i] = strand[i + 1] /\ strand'[i] \in Handlers
    BY Popped
  <1>2. \A i \in 1..Len(strand') : strand'[i].h \in ConnectResults => strand'[i].op \in ConnectOps
    BY <1>1, Zenon DEF Handlers, ConnectResults
  <1>3. \A o \in ConnectOps : pending'[o].step # "none" => ops'[o].started
    BY DEF StepInv
  <1>4. \A i \in 1..Len(strand') :
          strand'[i].h \in ConnectResults
            => ops'[strand'[i].op].started /\ pending'[strand'[i].op].step = "none"
    BY <1>1, <1>2, ZenonT(60) DEF StepInv
  <1>5. \A i, j \in 1..Len(strand') :
          strand'[i].h \in ConnectResults /\ strand'[j].h \in ConnectResults
          /\ strand'[i].op = strand'[j].op => i = j
    BY <1>1, SMTT(30) DEF StepInv
  <1> QED BY <1>3, <1>4, <1>5 DEF StepInv

LEMMA PopHeld ==
  ASSUME OpsDistinct, SocketInv, NEW h, Run(h), KeepsCalls,
         \A p \in ConnectOps : ~ops[p].entered => ops'[p].result = ops[p].result,
         \/ state' # "null" \/ ~nonNull'
         \/ /\ state = "null" /\ nonNull
            /\ \A p \in ConnectOps :
                 ops[p].entered /\ ops[p].reserved /\ ops[p].result = "none"
                   => ops'[p].reserved /\ ops'[p].result = "none"
  PROVE  HeldInv'
  <1> USE DEF SocketInv
  <1>1. \A i \in 1..Len(strand') :
          i + 1 \in 1..Len(strand) /\ strand'[i] = strand[i + 1] /\ strand'[i] \in Handlers
    BY Popped
  <1>2. \A i \in 1..Len(strand') : strand'[i].h = "cancel_connect" => strand'[i].op \in ConnectOps
    BY <1>1 DEF Handlers, ConnectResults
  <1>3. \A i \in 1..Len(strand') : strand'[i].h = "cancel_connect" => ops'[strand'[i].op].entered
    BY <1>1, <1>2 DEF HeldInv, KeepsCalls
  <1>4. \A o \in ConnectOps : (ops'[o].reserved => ops'[o].init = "none")
                               /\ (~ops'[o].entered => ops'[o].result = "none")
    BY DEF HeldInv, KeepsCalls
  <1>5. state' = "null" /\ nonNull'
          => \E o \in ConnectOps : ops'[o].entered /\ ops'[o].reserved /\ ops'[o].result = "none"
    BY DEF HeldInv, KeepsCalls
  <1> QED BY <1>3, <1>4, <1>5 DEF HeldInv

-----------------------------------------------------------------------------
(* The handlers. *)

(* A connect that is not m_connect_op is aborted. *)
LEMMA AbortKeeps ==
  ASSUME OpsDistinct, SocketInv, NEW h, Run(h), h \notin ConnectResults,
         NEW o \in ConnectOps, connectOp # o, ops[o].entered, AbortConnect(o)
  PROVE  SocketInv'
  <1> DEFINE r == ops[o].reserved /\ ~Released(o)
             os == [ops EXCEPT ![o].reserved = r]
  <1>1. ConnectOps \subseteq SocketOps /\ TransferOps \subseteq SocketOps
    BY DEF SocketOps
  <1>2. r \in BOOLEAN /\ (r => ops[o].reserved)
    OBVIOUS
  <1>4. /\ nonNull' = (nonNull /\ ~Released(o)) /\ ops' = Complete(os, o, "aborted")
        /\ connectOp' = connectOp /\ UNCHANGED <<state, remote, pending>>
    BY DEF AbortConnect, AfterConnect
  <1>a. nonNull' \in BOOLEAN /\ (nonNull' => nonNull /\ ~(ops[o].reserved /\ state = "null"))
    BY <1>4, Zenon DEF Released
  <1> HIDE DEF r
  <1>3. /\ os \in [SocketOps -> OpRecords]
        /\ \A p \in SocketOps :
             /\ os[p].entered = ops[p].entered /\ os[p].dispatched = ops[p].dispatched
             /\ os[p].started = ops[p].started /\ os[p].init = ops[p].init
             /\ os[p].result = ops[p].result /\ (os[p].reserved => ops[p].reserved)
             /\ p # o => os[p].reserved = ops[p].reserved
    BY <1>1, <1>2 DEF SocketInv, TypeInv, OpRecords
  <1> HIDE DEF os
  <1>5. /\ ops' \in [SocketOps -> OpRecords]
        /\ \A p \in SocketOps :
             /\ ops'[p].entered = os[p].entered /\ ops'[p].dispatched = os[p].dispatched
             /\ ops'[p].started = os[p].started /\ ops'[p].reserved = os[p].reserved
             /\ ops'[p].init = os[p].init /\ (p # o => ops'[p].result = os[p].result)
    BY <1>1, <1>3, <1>4 DEF Complete, OpRecords, OpsDistinct, Causes
  <1>6. KeepsCalls
    BY <1>1, <1>3, <1>5 DEF KeepsCalls
  <1>7. CallInv'
    BY <1>4, <1>6, PopCall
  <1>8. StepInv'
    BY <1>1, <1>3, <1>4, <1>5, PopStep
  <1>9. SocketOwned'
    BY <1>1, <1>3, <1>4, <1>5 DEF SocketOwned, SocketInv
  <1>10. HeldInv'
    <2>1. \A p \in ConnectOps : ~ops[p].entered => ops'[p].result = ops[p].result
      BY <1>1, <1>3, <1>5
    <2>2. \/ state' # "null" \/ ~nonNull'
          \/ /\ state = "null" /\ nonNull
             /\ \A p \in ConnectOps :
                  ops[p].entered /\ ops[p].reserved /\ ops[p].result = "none"
                    => ops'[p].reserved /\ ops'[p].result = "none"
      <3>1. CASE ops[o].reserved
        BY <3>1, <1>4, <1>a
      <3>2. CASE ~ops[o].reserved
        BY <3>2, <1>1, <1>3, <1>4, <1>5, <1>a
      <3> QED BY <3>1, <3>2
    <2> QED BY <1>6, <2>1, <2>2, PopHeld
  <1>11. TypeInv'
    <2>1. strand' \in Seq(Handlers) BY Popped DEF SocketInv
    <2> QED BY <1>4, <1>5, <1>a, <2>1 DEF SocketInv, TypeInv
  <1> QED BY <1>7, <1>8, <1>9, <1>10, <1>11 DEF SocketInv

(* The connection ends. *)
LEMMA CloseKeeps ==
  ASSUME OpsDistinct, SocketInv, NEW h, Run(h), NEW os \in [SocketOps -> OpRecords], NEW e \in Causes,
         \A p \in ConnectOps :
           /\ os[p].entered = ops[p].entered /\ os[p].dispatched = ops[p].dispatched
           /\ os[p].reserved = ops[p].reserved /\ os[p].init = ops[p].init
           /\ os[p].result = ops[p].result
           /\ \/ os[p].started = ops[p].started
              \/ /\ ~os[p].started /\ pending[p].step = "none"
                 /\ \A i \in 2..Len(strand) : strand[i].h \in ConnectResults => strand[i].op # p,
         OnClose(os, e)
  PROVE  SocketInv'
  <1>0. TypeInv /\ SocketOwned /\ CallInv
    BY DEF SocketInv
  <1>1. ConnectOps \subseteq SocketOps /\ TransferOps \subseteq SocketOps
    BY DEF SocketOps
  <1>a. \A p \in ConnectOps :
           /\ os[p].entered = ops[p].entered /\ os[p].dispatched = ops[p].dispatched
           /\ os[p].reserved = ops[p].reserved /\ os[p].init = ops[p].init
           /\ os[p].result = ops[p].result /\ (os[p].started => ops[p].started)
    BY Zenon
  <1>2. /\ ops' \in [SocketOps -> OpRecords] /\ KeepsCalls /\ nonNull' = FALSE
        /\ \A p \in ConnectOps : ops'[p].started = os[p].started
        /\ \A p \in ConnectOps : p # connectOp => ops'[p].result = ops[p].result
        /\ pending' \in [SocketOps -> [step : Steps, aborted : BOOLEAN]]
        /\ \A p \in SocketOps : pending'[p].step = pending[p].step
        /\ \/ connectOp' = connectOp /\ state' = state
           \/ connectOp' = NoOp /\ state' = "null" /\ \A p \in ConnectOps : ~os[p].started
    BY <1>0, <1>a, OnCloseEffect, Zenon
  <1>3. CallInv'
    BY <1>2, PopCall
  <1>4. StepInv'
    BY <1>1, <1>2, PopStep
  <1>5. SocketOwned'
    BY <1>0, <1>a, <1>2 DEF SocketOwned
  <1>6. HeldInv'
    <2>1. \A p \in ConnectOps : ~ops[p].entered => ops'[p].result = ops[p].result
      BY <1>0, <1>2 DEF CallInv, TypeInv, OpsDistinct, SocketOps
    <2> QED BY <1>2, <2>1, PopHeld
  <1>7. TypeInv'
    <2>1. strand' \in Seq(Handlers) BY <1>0, Popped
    <2>2. state' \in {"null", "connecting", "connected"} /\ connectOp' \in ConnectOps \cup {NoOp}
      BY <1>0, <1>2 DEF TypeInv
    <2>3. /\ \A o \in ConnectOps : pending'[o].step # "transfer"
          /\ \A o \in TransferOps : pending'[o].step \in {"none", "transfer"}
      BY <1>0, <1>1, <1>2 DEF TypeInv
    <2>4. nonNull' \in BOOLEAN BY <1>2, Zenon
    <2> QED BY <1>2, <2>1, <2>2, <2>3, <2>4 DEF TypeInv
  <1> QED BY <1>3, <1>4, <1>5, <1>6, <1>7 DEF SocketInv

(* A handler that concerns a transfer leaves the connect calls alone. *)
LEMMA TransferKeeps ==
  ASSUME OpsDistinct, SocketInv, NEW h, Run(h), h \notin ConnectResults,
         ops' \in [SocketOps -> OpRecords], pending' \in [SocketOps -> [step : Steps, aborted : BOOLEAN]],
         \A p \in ConnectOps : ops'[p] = ops[p] /\ pending'[p] = pending[p],
         \A p \in TransferOps : pending'[p].step \in {"none", "transfer"},
         UNCHANGED <<state, nonNull, connectOp>>
  PROVE  SocketInv'
  <1>1. KeepsCalls
    BY DEF KeepsCalls
  <1>2. CallInv'
    BY <1>1, PopCall
  <1>3. StepInv'
    BY PopStep
  <1>4. HeldInv'
    <2>1. nonNull \in BOOLEAN /\ nonNull' = nonNull /\ state' = state
      BY DEF SocketInv, TypeInv
    <2>2. \A p \in ConnectOps : ~ops[p].entered => ops'[p].result = ops[p].result
      OBVIOUS
    <2>3. \/ state' # "null" \/ ~nonNull'
          \/ /\ state = "null" /\ nonNull
             /\ \A p \in ConnectOps :
                  ops[p].entered /\ ops[p].reserved /\ ops[p].result = "none"
                    => ops'[p].reserved /\ ops'[p].result = "none"
      BY <2>1
    <2> QED BY <1>1, <2>2, <2>3, PopHeld
  <1>5. SocketOwned'
    BY DEF SocketOwned, SocketInv
  <1>6. TypeInv'
    <2>1. strand' \in Seq(Handlers) BY Popped DEF SocketInv
    <2>2. \A p \in ConnectOps : pending'[p].step # "transfer"
      BY DEF SocketInv, TypeInv
    <2> QED BY <2>1, <2>2 DEF SocketInv, TypeInv
  <1> QED BY <1>2, <1>3, <1>4, <1>5, <1>6 DEF SocketInv

LEMMA TransferHandlers ==
  ASSUME OpsDistinct, SocketInv, TransferInternal \/ CancelTransfer \/ OnTransfer
  PROVE  SocketInv'
  <1> DEFINE o == Head(strand).op
  <1>1. PICK h \in {"transfer", "cancel_transfer", "on_transfer"} : Run(h)
    BY DEF TransferInternal, CancelTransfer, OnTransfer
  <1>2. Head(strand) \in Handlers /\ Head(strand).h = h
    BY <1>1, Popped DEF SocketInv
  <1>3. o \in TransferOps /\ Head(strand).err \in Causes
    BY <1>2 DEF Handlers, ConnectResults
  <1>4. o \in SocketOps /\ o \notin ConnectOps /\ ConnectOps \subseteq SocketOps /\ o # NoOp
    BY <1>3 DEF SocketOps, OpsDistinct
  <1>5. TypeInv
    BY DEF SocketInv
  <1>6. /\ ops' \in [SocketOps -> OpRecords]
        /\ \A p \in ConnectOps : ops'[p] = ops[p]
    <2> DEFINE os == [ops EXCEPT ![o].started = FALSE]
    <2> HIDE DEF o
    <2>1. os \in [SocketOps -> OpRecords] /\ \A p \in ConnectOps : os[p] = ops[p]
      BY <1>4, <1>5, ZenonT(60) DEF TypeInv, OpRecords
    <2>2. ASSUME NEW f \in [SocketOps -> OpRecords], NEW e \in Causes
          PROVE  /\ Complete(f, o, e) \in [SocketOps -> OpRecords]
                 /\ \A p \in ConnectOps : Complete(f, o, e)[p] = f[p]
      BY <1>4 DEF Complete, OpRecords
    <2>3. [ops EXCEPT ![o].started = TRUE] \in [SocketOps -> OpRecords]
      BY <1>4, <1>5, ZenonT(60) DEF TypeInv, OpRecords
    <2>4. \A p \in ConnectOps : [ops EXCEPT ![o].started = TRUE][p] = ops[p]
      BY <1>4, <1>5 DEF TypeInv
    <2>5. \/ ops' = ops \/ ops' = [ops EXCEPT ![o].started = TRUE]
          \/ \E e \in Causes : ops' = Complete(ops, o, e) \/ ops' = Complete(os, o, e)
      BY <1>3 DEF o, TransferInternal, CancelTransfer, OnTransfer, Causes
    <2> HIDE DEF os
    <2>6. CASE ops' = ops
      BY <1>5, <2>6 DEF TypeInv
    <2>7. CASE ops' = [ops EXCEPT ![o].started = TRUE]
      BY <2>3, <2>4, <2>7, Zenon
    <2>8. ASSUME NEW e \in Causes, ops' = Complete(ops, o, e)
          PROVE  /\ ops' \in [SocketOps -> OpRecords]
                 /\ \A p \in ConnectOps : ops'[p] = ops[p]
      <3>1. ops \in [SocketOps -> OpRecords] BY <1>5 DEF TypeInv
      <3> QED BY <2>2, <2>8, <3>1
    <2>9. ASSUME NEW e \in Causes, ops' = Complete(os, o, e)
          PROVE  /\ ops' \in [SocketOps -> OpRecords]
                 /\ \A p \in ConnectOps : ops'[p] = ops[p]
      BY <2>1, <2>2, <2>9
    <2> QED BY <2>5, <2>6, <2>7, <2>8, <2>9
  <1>7. /\ pending' \in [SocketOps -> [step : Steps, aborted : BOOLEAN]]
        /\ \A p \in ConnectOps : pending'[p] = pending[p]
        /\ \A p \in TransferOps : pending'[p].step \in {"none", "transfer"}
    <2>1. \/ pending' = pending
          \/ pending' = [pending EXCEPT ![o] = Step("transfer")]
          \/ pending' = [pending EXCEPT ![o].aborted = (pending[o].step # "none")]
      BY DEF TransferInternal, CancelTransfer, OnTransfer
    <2> HIDE DEF o
    <2>2. TransferOps \subseteq SocketOps BY DEF SocketOps
    <2>3. CASE pending' = pending
      BY <1>5, <2>3 DEF TypeInv
    <2>4. CASE pending' = [pending EXCEPT ![o] = Step("transfer")]
      BY <1>3, <1>4, <1>5, <2>2, <2>4 DEF TypeInv, Step, Steps
    <2>5. CASE pending' = [pending EXCEPT ![o].aborted = (pending[o].step # "none")]
      <3> DEFINE b == pending[o].step # "none"
      <3>1. b \in BOOLEAN /\ pending' = [pending EXCEPT ![o].aborted = b]
        BY <2>5, SMTT(30)
      <3> HIDE DEF b
      <3> QED BY <1>3, <1>4, <1>5, <2>2, <3>1 DEF TypeInv
    <2> QED BY <2>1, <2>3, <2>4, <2>5
  <1>8. UNCHANGED <<state, nonNull, connectOp>>
    BY DEF TransferInternal, CancelTransfer, OnTransfer
  <1>9. h \notin ConnectResults
    BY DEF ConnectResults
  <1> QED BY <1>1, <1>6, <1>7, <1>8, <1>9, TransferKeeps

LEMMA ConnectHandler ==
  ASSUME OpsDistinct, SocketInv, ConnectInternal
  PROVE  SocketInv'
  <1> DEFINE o == Head(strand).op
  <1>0. TypeInv /\ CallInv /\ SocketOwned /\ StepInv /\ HeldInv
    BY DEF SocketInv
  <1>1. Run("connect")
    BY DEF ConnectInternal
  <1>2. /\ Head(strand) = strand[1] /\ Head(strand) \in Handlers /\ Head(strand).h = "connect"
        /\ 1 \in 1..Len(strand) /\ strand' \in Seq(Handlers)
    BY <1>0, <1>1, Popped
  <1>3. o \in ConnectOps
    BY <1>2 DEF Handlers, ConnectResults
  <1>4. connectOp # o /\ ops[o].dispatched /\ ops[o].entered /\ ~ops[o].started
    BY <1>0, <1>2, <1>3 DEF CallInv, SocketOwned
  <1>5. ConnectOps \subseteq SocketOps /\ "connect" \notin ConnectResults /\ o # NoOp
    BY <1>3 DEF SocketOps, ConnectResults, OpsDistinct
  <1>6. CASE AbortConnect(o)
    <2> HIDE DEF o
    <2> QED BY <1>1, <1>3, <1>4, <1>5, <1>6, AbortKeeps
  <1>7. CASE /\ ops[o].init # "none" \/ ~ops[o].reserved \/ state # "null"
             /\ ops' = Complete(ops, o, IF ops[o].init # "none" THEN ops[o].init ELSE "invalid_state")
             /\ connectOp' = AfterConnect(o)
             /\ UNCHANGED <<state, nonNull, remote, pending>>
    <2> DEFINE e == IF ops[o].init # "none" THEN ops[o].init ELSE "invalid_state"
    <2>1. ops' = Complete(ops, o, e) /\ connectOp' = connectOp
      BY <1>4, <1>7 DEF AfterConnect
    <2> HIDE DEF o
    <2>2. e \in Causes /\ ops \in [SocketOps -> OpRecords]
      BY <1>0, <1>3, <1>5 DEF TypeInv, OpRecords, Causes
    <2> HIDE DEF e
    <2>3. /\ ops' \in [SocketOps -> OpRecords]
          /\ \A p \in SocketOps :
               /\ ops'[p].entered = ops[p].entered /\ ops'[p].dispatched = ops[p].dispatched
               /\ ops'[p].started = ops[p].started /\ ops'[p].reserved = ops[p].reserved
               /\ ops'[p].init = ops[p].init /\ (p # o => ops'[p].result = ops[p].result)
      BY <1>3, <1>5, <2>1, <2>2 DEF Complete, OpRecords
    <2>4. KeepsCalls
      BY <1>5, <2>3 DEF KeepsCalls
    <2>5. CallInv'
      BY <1>1, <1>7, <2>1, <2>4, PopCall, Zenon
    <2>6. StepInv'
      BY <1>1, <1>5, <1>7, <2>3, PopStep, SMTT(30)
    <2>7. SocketOwned'
      BY <1>0, <1>5, <1>7, <2>1, <2>3 DEF SocketOwned
    <2>8. HeldInv'
      <3>1. nonNull \in BOOLEAN /\ nonNull' = nonNull /\ state' = state
        BY <1>0, <1>7 DEF TypeInv
      <3>2. state # "null" \/ ~ops[o].reserved
        BY <1>0, <1>3, <1>7 DEF HeldInv
      <3>3. \A p \in ConnectOps : ~ops[p].entered => ops'[p].result = ops[p].result
        BY <1>4, <1>5, <2>3
      <3>4. \/ state' # "null" \/ ~nonNull'
            \/ /\ state = "null" /\ nonNull
               /\ \A p \in ConnectOps :
                    ops[p].entered /\ ops[p].reserved /\ ops[p].result = "none"
                      => ops'[p].reserved /\ ops'[p].result = "none"
        BY <1>5, <2>3, <3>1, <3>2, SMTT(30)
      <3> QED BY <1>1, <2>4, <3>3, <3>4, PopHeld
    <2>9. TypeInv'
      BY <1>0, <1>2, <1>7, <2>1, <2>3 DEF TypeInv
    <2> QED BY <2>5, <2>6, <2>7, <2>8, <2>9 DEF SocketInv
  <1>8. CASE /\ ops[o].init = "none" /\ ops[o].reserved /\ state = "null"
             /\ connectOp' = o /\ state' = "connecting"
             /\ ops' = [ops EXCEPT ![o].started = TRUE]
             /\ pending' = [pending EXCEPT ![o] = Step("resolve")]
             /\ UNCHANGED <<nonNull, remote>>
    <2>a. \A i \in 1..Len(strand') :
            /\ i + 1 \in 1..Len(strand) /\ i + 1 # 1 /\ i \in Nat
            /\ strand'[i] = strand[i + 1] /\ strand'[i] \in Handlers
      BY <1>0, <1>1, Popped
    <2>b. \A i \in 1..Len(strand') : strand'[i].h = "connect" => strand'[i].op # o
      BY <1>2, <2>a, <1>0 DEF CallInv
    <2> HIDE DEF o
    <2>1. /\ ops' \in [SocketOps -> OpRecords]
          /\ \A p \in SocketOps :
               /\ ops'[p].entered = ops[p].entered /\ ops'[p].dispatched = ops[p].dispatched
               /\ ops'[p].reserved = ops[p].reserved /\ ops'[p].init = ops[p].init
               /\ ops'[p].result = ops[p].result
               /\ p # o => ops'[p].started = ops[p].started
          /\ ops'[o].started
      <3>1. ops \in [SocketOps -> OpRecords] /\ o \in SocketOps /\ ops' = [ops EXCEPT ![o].started = TRUE]
        BY <1>0, <1>3, <1>5, <1>8 DEF TypeInv
      <3>2. ops' \in [SocketOps -> OpRecords]
        BY <3>1, ZenonT(60) DEF OpRecords
      <3>3. ASSUME NEW p \in SocketOps
            PROVE  /\ ops'[p].entered = ops[p].entered /\ ops'[p].dispatched = ops[p].dispatched
                   /\ ops'[p].reserved = ops[p].reserved /\ ops'[p].init = ops[p].init
                   /\ ops'[p].result = ops[p].result
                   /\ p # o => ops'[p].started = ops[p].started
        BY <3>1, <3>3, Zenon DEF OpRecords
      <3>4. ops'[o].started
        BY <3>1 DEF OpRecords
      <3> QED BY <3>2, <3>3, <3>4
    <2>2. /\ pending' \in [SocketOps -> [step : Steps, aborted : BOOLEAN]]
          /\ \A p \in SocketOps : p # o => pending'[p] = pending[p]
          /\ pending'[o].step = "resolve"
      BY <1>0, <1>3, <1>5, <1>8 DEF TypeInv, Step, Steps
    <2>3. KeepsCalls
      BY <1>5, <2>1 DEF KeepsCalls
    <2>4. CallInv'
      <3>1. \A i \in 1..Len(strand') : strand'[i].h = "connect" => strand'[i].op \in ConnectOps
        BY <2>a DEF Handlers, ConnectResults
      <3>2. \A i \in 1..Len(strand') :
              strand'[i].h = "connect" => ops'[strand'[i].op].dispatched /\ connectOp' # strand'[i].op
        BY <1>0, <1>5, <1>8, <2>1, <2>a, <2>b, <3>1 DEF CallInv
      <3>3. \A i, j \in 1..Len(strand') :
              strand'[i].h = "connect" /\ strand'[j].h = "connect" /\ strand'[i].op = strand'[j].op => i = j
        <4> SUFFICES ASSUME NEW i \in 1..Len(strand'), NEW j \in 1..Len(strand'),
                            strand'[i].h = "connect", strand'[j].h = "connect",
                            strand'[i].op = strand'[j].op
                     PROVE  i = j
          OBVIOUS
        <4>1. i + 1 = j + 1 BY <1>0, <2>a, ZenonT(60) DEF CallInv
        <4> QED BY <4>1, <2>a
      <3>4. \A p \in ConnectOps : ops'[p].dispatched => ops'[p].entered
        BY <1>0, <1>5, <2>1 DEF CallInv
      <3>5. state' = "connecting" /\ ops'[connectOp'].dispatched
        BY <1>3, <1>4, <1>5, <1>8, <2>1
      <3> QED BY <3>2, <3>3, <3>4, <3>5 DEF CallInv
    <2>5. StepInv'
      <3>1. \A i \in 2..Len(strand) : i \in 1..Len(strand)
        OBVIOUS
      <3>2. \A i \in 2..Len(strand) : strand[i].h \in ConnectResults => strand[i].op # o
        BY <1>0, <1>4, <3>1 DEF StepInv
      <3>3. \A p \in ConnectOps :
              \/ pending'[p].step = pending[p].step /\ ops'[p].started = ops[p].started
              \/ /\ \A i \in 2..Len(strand) : strand[i].h \in ConnectResults => strand[i].op # p
                 /\ pending'[p].step # "none" => ops'[p].started
        BY <1>5, <2>1, <2>2, <3>2
      <3> QED BY <1>1, <3>3, PopStep
    <2>6. SocketOwned'
      <3>1. \A p \in ConnectOps : ~ops[p].started
        BY <1>0, <1>8 DEF SocketOwned
      <3> QED BY <1>5, <1>8, <2>1, <3>1 DEF SocketOwned
    <2>7. HeldInv'
      <3>1. \A p \in ConnectOps : ~ops[p].entered => ops'[p].result = ops[p].result
        BY <1>5, <2>1
      <3> QED BY <1>1, <1>8, <2>3, <3>1, PopHeld
    <2>8. TypeInv'
      <3>1. \A p \in ConnectOps : pending'[p].step # "transfer"
        BY <1>0, <1>5, <2>2, Zenon DEF TypeInv
      <3>2. \A p \in TransferOps : pending'[p].step \in {"none", "transfer"}
        BY <1>0, <1>3, <2>2 DEF TypeInv, OpsDistinct, SocketOps
      <3> QED BY <1>0, <1>2, <1>3, <1>8, <2>1, <2>2, <3>1, <3>2 DEF TypeInv
    <2> QED BY <2>4, <2>5, <2>6, <2>7, <2>8 DEF SocketInv
  <1> QED BY <1>6, <1>7, <1>8 DEF ConnectInternal

LEMMA CancelHandler ==
  ASSUME OpsDistinct, SocketInv, CancelConnect \/ CloseInternal
  PROVE  SocketInv'
  <1> DEFINE o == Head(strand).op
  <1>0. TypeInv /\ HeldInv /\ ops \in [SocketOps -> OpRecords]
    BY DEF SocketInv, TypeInv
  <1>1. PICK h \in {"cancel_connect", "close"} : Run(h)
    BY DEF CancelConnect, CloseInternal
  <1>2. /\ Head(strand) = strand[1] /\ Head(strand) \in Handlers /\ Head(strand).h = h
        /\ 1 \in 1..Len(strand) /\ strand' \in Seq(Handlers)
    BY <1>0, <1>1, Popped
  <1>3. h \notin ConnectResults
    BY DEF ConnectResults
  <1>4. ASSUME NEW e \in Causes, OnClose(ops, e) PROVE SocketInv'
    BY <1>0, <1>1, <1>4, CloseKeeps
  <1>5. CASE UNCHANGED <<state, nonNull, remote, connectOp, ops, pending>>
    <2>1. \A p \in TransferOps : pending[p].step \in {"none", "transfer"}
      BY <1>0 DEF TypeInv
    <2>2. pending \in [SocketOps -> [step : Steps, aborted : BOOLEAN]]
      BY <1>0 DEF TypeInv
    <2> QED BY <1>0, <1>1, <1>3, <1>5, <2>1, <2>2, TransferKeeps
  <1>6. CASE h = "cancel_connect" /\ connectOp # o /\ AbortConnect(o)
    <2>1. o \in ConnectOps
      BY <1>2, <1>6 DEF Handlers, ConnectResults
    <2>2. ops[o].entered
      BY <1>0, <1>2, <1>6 DEF HeldInv
    <2> HIDE DEF o
    <2> QED BY <1>1, <1>3, <1>6, <2>1, <2>2, AbortKeeps
  <1>7. \/ \E e \in Causes : OnClose(ops, e)
        \/ UNCHANGED <<state, nonNull, remote, connectOp, ops, pending>>
        \/ h = "cancel_connect" /\ connectOp # o /\ AbortConnect(o)
    <2>1. "aborted" \in Causes /\ "none" \in Causes BY DEF Causes
    <2>2. CASE CancelConnect
      <3>1. h = "cancel_connect" BY <1>1, <2>2 DEF CancelConnect, Run
      <3> QED BY <2>1, <2>2, <3>1 DEF CancelConnect
    <2>3. CASE CloseInternal
      BY <2>1, <2>3 DEF CloseInternal
    <2> QED BY <2>2, <2>3
  <1> QED BY <1>4, <1>5, <1>6, <1>7

(* A step of the connect of o has ended: o is m_connect_op, and it is closed,
   it is connected, or its next step starts. *)
LEMMA StepHandler ==
  ASSUME OpsDistinct, SocketInv, NEW h \in ConnectResults, Run(h),
         NEW next \in {"connect", "refused", "request", "connected"},
         OnStep(Head(strand).op, Head(strand).err, next)
  PROVE  SocketInv'
  <1> DEFINE o == Head(strand).op
             os == [ops EXCEPT ![o].started = FALSE]
  <1>0. TypeInv /\ CallInv /\ SocketOwned /\ StepInv /\ HeldInv
    BY DEF SocketInv
  <1>2. /\ Head(strand) = strand[1] /\ Head(strand) \in Handlers /\ Head(strand).h = h
        /\ 1 \in 1..Len(strand) /\ strand' \in Seq(Handlers)
    BY <1>0, Popped
  <1>3. o \in ConnectOps /\ Head(strand).err \in Causes
    BY <1>2 DEF Handlers, ConnectResults
  <1>4. connectOp = o /\ state = "connecting" /\ pending[o].step = "none"
    BY <1>0, <1>2, <1>3 DEF StepInv, SocketOwned
  <1>5. ConnectOps \subseteq SocketOps /\ o # NoOp
    BY <1>3 DEF SocketOps, OpsDistinct
  <1>6. \A i \in 2..Len(strand) : strand[i].h \in ConnectResults => strand[i].op # o
    <2>1. \A i \in 2..Len(strand) : i \in 1..Len(strand) /\ i # 1
      OBVIOUS
    <2> QED BY <1>0, <1>2, <2>1 DEF StepInv
  <1> DEFINE err == Head(strand).err
  <1>7. \/ os[o].terminal # "none" /\ OnClose(os, os[o].terminal)
        \/ OnClose(os, err)
        \/ /\ state' = "connected" /\ ops' = Complete(os, o, "ok") /\ connectOp' = NoOp
           /\ UNCHANGED <<nonNull, pending>>
        \/ /\ ops' = [os EXCEPT ![o].started = TRUE] /\ next # "connected"
           /\ pending' = [pending EXCEPT ![o] = Step(next)]
           /\ UNCHANGED <<state, nonNull, remote, connectOp>>
    BY <1>4 DEF OnStep
  <1>8. err \in Causes BY <1>3
  <1> HIDE DEF o, err
  <1>9. ops \in [SocketOps -> OpRecords] /\ o \in SocketOps
    BY <1>0, <1>3, <1>5 DEF TypeInv
  <1>10. os \in [SocketOps -> OpRecords]
    BY <1>9, ZenonT(60) DEF OpRecords
  <1>11. ASSUME NEW p \in SocketOps
         PROVE  /\ os[p].entered = ops[p].entered /\ os[p].dispatched = ops[p].dispatched
                /\ os[p].reserved = ops[p].reserved /\ os[p].init = ops[p].init
                /\ os[p].result = ops[p].result
                /\ p # o => os[p].started = ops[p].started
    BY <1>9, <1>11, Zenon DEF OpRecords
  <1>12. ~os[o].started /\ os[o].terminal \in Causes
    BY <1>9 DEF OpRecords
  <1> HIDE DEF os
  <1>13. ASSUME NEW e \in Causes, OnClose(os, e) PROVE SocketInv'
    <2>1. \A p \in ConnectOps :
           /\ os[p].entered = ops[p].entered /\ os[p].dispatched = ops[p].dispatched
           /\ os[p].reserved = ops[p].reserved /\ os[p].init = ops[p].init
           /\ os[p].result = ops[p].result
           /\ \/ os[p].started = ops[p].started
              \/ /\ ~os[p].started /\ pending[p].step = "none"
                 /\ \A i \in 2..Len(strand) : strand[i].h \in ConnectResults => strand[i].op # p
      BY <1>4, <1>5, <1>6, <1>11, <1>12
    <2> QED BY <1>10, <1>13, <2>1, CloseKeeps, Zenon
  <1>14. CASE /\ state' = "connected" /\ ops' = Complete(os, o, "ok") /\ connectOp' = NoOp
              /\ UNCHANGED <<nonNull, pending>>
    <2>1. /\ ops' \in [SocketOps -> OpRecords]
          /\ \A p \in SocketOps :
               /\ ops'[p].entered = os[p].entered /\ ops'[p].dispatched = os[p].dispatched
               /\ ops'[p].started = os[p].started /\ ops'[p].reserved = os[p].reserved
               /\ ops'[p].init = os[p].init /\ (p # o => ops'[p].result = os[p].result)
      BY <1>5, <1>9, <1>10, <1>14 DEF Complete, OpRecords, Causes
    <2>2. KeepsCalls
      BY <1>5, <1>11, <2>1 DEF KeepsCalls
    <2>3. CallInv'
      BY <1>14, <2>2, PopCall
    <2>4. StepInv'
      <3>1. \A p \in ConnectOps :
              \/ pending'[p].step = pending[p].step /\ ops'[p].started = ops[p].started
              \/ /\ \A i \in 2..Len(strand) : strand[i].h \in ConnectResults => strand[i].op # p
                 /\ pending'[p].step # "none" => ops'[p].started
        BY <1>4, <1>5, <1>6, <1>11, <1>14, <2>1
      <3> QED BY <3>1, PopStep
    <2>5. SocketOwned'
      BY <1>0, <1>4, <1>5, <1>11, <1>12, <2>1 DEF SocketOwned
    <2>6. HeldInv'
      <3>1. ops[o].entered
        BY <1>0, <1>3, <1>4, <1>5 DEF CallInv
      <3>2. \A p \in ConnectOps : ~ops[p].entered => ops'[p].result = ops[p].result
        BY <1>5, <1>11, <2>1, <3>1
      <3> QED BY <1>14, <2>2, <3>2, PopHeld
    <2>7. TypeInv'
      BY <1>0, <1>2, <1>14, <2>1 DEF TypeInv
    <2> QED BY <2>3, <2>4, <2>5, <2>6, <2>7 DEF SocketInv
  <1>15. CASE /\ ops' = [os EXCEPT ![o].started = TRUE] /\ next # "connected"
              /\ pending' = [pending EXCEPT ![o] = Step(next)]
              /\ UNCHANGED <<state, nonNull, remote, connectOp>>
    <2>1. ops' \in [SocketOps -> OpRecords] /\ ops'[o].started
      BY <1>9, <1>10, <1>15, ZenonT(60) DEF OpRecords
    <2>2. ASSUME NEW p \in SocketOps
          PROVE  /\ ops'[p].entered = os[p].entered /\ ops'[p].dispatched = os[p].dispatched
                 /\ ops'[p].reserved = os[p].reserved /\ ops'[p].init = os[p].init
                 /\ ops'[p].result = os[p].result
                 /\ p # o => ops'[p].started = os[p].started
      BY <1>9, <1>10, <1>15, <2>2, Zenon DEF OpRecords
    <2>3. /\ pending' \in [SocketOps -> [step : Steps, aborted : BOOLEAN]]
          /\ \A p \in SocketOps : p # o => pending'[p] = pending[p]
          /\ pending'[o].step = next
      BY <1>0, <1>9, <1>15 DEF TypeInv, Step, Steps
    <2>4. KeepsCalls
      BY <1>5, <1>11, <2>2 DEF KeepsCalls
    <2>5. CallInv'
      BY <1>15, <2>4, PopCall
    <2>6. StepInv'
      <3>1. \A p \in ConnectOps :
              \/ pending'[p].step = pending[p].step /\ ops'[p].started = ops[p].started
              \/ /\ \A i \in 2..Len(strand) : strand[i].h \in ConnectResults => strand[i].op # p
                 /\ pending'[p].step # "none" => ops'[p].started
        BY <1>5, <1>6, <1>11, <2>1, <2>2, <2>3
      <3> QED BY <3>1, PopStep
    <2>7. SocketOwned'
      BY <1>0, <1>4, <1>5, <1>11, <1>15, <2>2 DEF SocketOwned
    <2>8. HeldInv'
      <3>1. \A p \in ConnectOps : ~ops[p].entered => ops'[p].result = ops[p].result
        BY <1>5, <1>11, <2>2
      <3>2. state' # "null" BY <1>4, <1>15
      <3> QED BY <2>4, <3>1, <3>2, PopHeld
    <2>9. TypeInv'
      <3>1. \A p \in ConnectOps : pending'[p].step # "transfer"
        BY <1>0, <1>5, <2>3 DEF TypeInv
      <3>2. \A p \in TransferOps : pending'[p].step \in {"none", "transfer"}
        BY <1>0, <1>3, <2>3 DEF TypeInv, OpsDistinct, SocketOps
      <3> QED BY <1>0, <1>2, <1>15, <2>1, <2>3, <3>1, <3>2 DEF TypeInv
    <2> QED BY <2>5, <2>6, <2>7, <2>8, <2>9 DEF SocketInv
  <1> QED BY <1>7, <1>8, <1>12, <1>13, <1>14, <1>15

-----------------------------------------------------------------------------
(* The calls and the transport. *)

(* A handler is queued that is neither a connect nor the result of a step, and
   of a call that has been entered. *)
LEMMA PushKeeps ==
  ASSUME OpsDistinct, SocketInv, NEW x \in Handlers, strand' = Append(strand, x),
         x.h \notin ConnectResults \cup {"connect"},
         x.h = "cancel_connect" => ops[x.op].entered,
         ops' \in [SocketOps -> OpRecords], KeepsCalls,
         \A p \in ConnectOps :
           /\ ops'[p].started = ops[p].started /\ ops'[p].reserved = ops[p].reserved
           /\ ops'[p].result = ops[p].result,
         pending' \in [SocketOps -> [step : Steps, aborted : BOOLEAN]],
         \A p \in ConnectOps : pending'[p] = pending[p],
         \A p \in TransferOps : pending'[p].step \in {"none", "transfer"},
         UNCHANGED <<state, nonNull, connectOp>>
  PROVE  SocketInv'
  <1>0. TypeInv /\ CallInv /\ SocketOwned /\ StepInv /\ HeldInv
    BY DEF SocketInv
  <1>1. /\ strand' \in Seq(Handlers)
        /\ \A i \in 1..Len(strand') : \/ i \in 1..Len(strand) /\ strand'[i] = strand[i]
                                      \/ i = Len(strand) + 1 /\ strand'[i] = x
    BY <1>0, Pushed
  <1>2. \A i \in 1..Len(strand) :
          strand[i].h \in ConnectResults \cup {"connect", "cancel_connect"} => strand[i].op \in ConnectOps
    <2>1. \A i \in 1..Len(strand) : strand[i] \in Handlers
      <3>1. strand \in Seq(Handlers)
        BY <1>0, Zenon DEF TypeInv
      <3> QED BY <3>1
    <2>2. \A y \in Handlers : y.h \in ConnectResults \cup {"connect", "cancel_connect"} => y.op \in ConnectOps
      BY Zenon DEF Handlers, ConnectResults
    <2> QED BY <2>1, <2>2, Zenon
  <1>3. x.h = "cancel_connect" => x.op \in ConnectOps
    BY DEF Handlers, ConnectResults
  <1>4. CallInv'
    <2>1. \A i \in 1..Len(strand') :
            strand'[i].h = "connect" => i \in 1..Len(strand) /\ strand'[i] = strand[i] /\ strand'[i].op \in ConnectOps
      BY <1>1, <1>2, Zenon
    <2>2. connectOp \in ConnectOps \cup {NoOp}
      BY <1>0, Zenon DEF TypeInv
    <2>3. connectOp' # NoOp => state' = "connecting" /\ ops'[connectOp'].dispatched
      BY <1>0, <2>2, Zenon DEF CallInv, KeepsCalls
    <2>4. \A p \in ConnectOps : ops'[p].dispatched => ops'[p].entered
      BY <1>0, Zenon DEF CallInv, KeepsCalls
    <2>5. \A i \in 1..Len(strand') :
            strand'[i].h = "connect" => ops'[strand'[i].op].dispatched /\ connectOp' # strand'[i].op
      <3> SUFFICES ASSUME NEW i \in 1..Len(strand'), strand'[i].h = "connect"
                   PROVE  ops'[strand'[i].op].dispatched /\ connectOp' # strand'[i].op
        BY Zenon
      <3>1. i \in 1..Len(strand) /\ strand'[i] = strand[i] /\ strand'[i].op \in ConnectOps
        BY <2>1, Zenon
      <3>2. ops[strand[i].op].dispatched /\ connectOp # strand[i].op
        BY <1>0, <3>1 DEF CallInv
      <3> QED BY <3>1, <3>2 DEF KeepsCalls
    <2>6. \A i, j \in 1..Len(strand') :
            strand'[i].h = "connect" /\ strand'[j].h = "connect" /\ strand'[i].op = strand'[j].op => i = j
      BY <1>0, <2>1 DEF CallInv
    <2> QED BY <2>3, <2>4, <2>5, <2>6, Zenon DEF CallInv
  <1>5. StepInv'
    <2>1. \A p \in ConnectOps : pending'[p].step # "none" => ops'[p].started
      BY <1>0 DEF StepInv
    <2>2. \A i \in 1..Len(strand') :
            strand'[i].h \in ConnectResults => i \in 1..Len(strand) /\ strand'[i] = strand[i]
      BY <1>1
    <2>3. \A i \in 1..Len(strand') :
            strand'[i].h \in ConnectResults
              => ops'[strand'[i].op].started /\ pending'[strand'[i].op].step = "none"
      BY <1>0, <1>2, <2>2 DEF StepInv
    <2>4. \A i, j \in 1..Len(strand') :
            strand'[i].h \in ConnectResults /\ strand'[j].h \in ConnectResults
            /\ strand'[i].op = strand'[j].op => i = j
      BY <1>0, <2>2 DEF StepInv
    <2> QED BY <2>1, <2>3, <2>4 DEF StepInv
  <1>6. SocketOwned'
    BY <1>0 DEF SocketOwned
  <1>7. HeldInv'
    <2>1. \A p \in ConnectOps : /\ ops'[p].reserved => ops'[p].init = "none"
                                /\ ~ops'[p].entered => ops'[p].result = "none"
      BY <1>0 DEF HeldInv, KeepsCalls
    <2>2. \A i \in 1..Len(strand') : strand'[i].h = "cancel_connect" => ops'[strand'[i].op].entered
      BY <1>0, <1>1, <1>2, <1>3 DEF HeldInv, KeepsCalls
    <2>3. state' = "null" /\ nonNull'
            => \E p \in ConnectOps : ops'[p].entered /\ ops'[p].reserved /\ ops'[p].result = "none"
      BY <1>0 DEF HeldInv, KeepsCalls
    <2> QED BY <2>1, <2>2, <2>3 DEF HeldInv
  <1>8. TypeInv'
    BY <1>0, <1>1 DEF TypeInv
  <1> QED BY <1>4, <1>5, <1>6, <1>7, <1>8 DEF SocketInv

LEMMA CallsKeep ==
  ASSUME OpsDistinct, SocketInv, Close \/ \E o \in SocketOps : Cancel(o)
  PROVE  SocketInv'
  <1>0. TypeInv
    BY DEF SocketInv
  <1>1. CASE Close
    <2>1. Handler("close", NoOp, "none") \in Handlers
      BY DEF Handler, Handlers, Causes
    <2>2. Handler("close", NoOp, "none").h = "close"
      BY DEF Handler
    <2>3. KeepsCalls
      BY <1>1 DEF Close, KeepsCalls
    <2> QED BY <1>0, <1>1, <2>1, <2>2, <2>3, PushKeeps DEF Close, TypeInv, ConnectResults
  <1>2. ASSUME NEW o \in SocketOps, Cancel(o) PROVE SocketInv'
    <2> DEFINE h == IF o \in ConnectOps THEN "cancel_connect" ELSE "cancel_transfer"
               x == Handler(h, o, "none")
    <2>1. x \in Handlers /\ x.op = o /\ x.h \in {"cancel_connect", "cancel_transfer"}
      BY DEF Handler, Handlers, Causes, SocketOps
    <2>2. strand' = Append(strand, x) /\ ops[o].entered
      BY <1>2 DEF Cancel
    <2> HIDE DEF x
    <2>a. ops \in [SocketOps -> OpRecords] /\ ops' = [ops EXCEPT ![o].cancelled = TRUE]
      BY <1>0, <1>2 DEF Cancel, TypeInv
    <2>3. ops' \in [SocketOps -> OpRecords]
      BY <2>a, Zenon DEF OpRecords
    <2>4. ASSUME NEW p \in ConnectOps
          PROVE  /\ ops'[p].entered = ops[p].entered /\ ops'[p].dispatched = ops[p].dispatched
                 /\ ops'[p].init = ops[p].init /\ ops'[p].reserved = ops[p].reserved
                 /\ ops'[p].started = ops[p].started /\ ops'[p].result = ops[p].result
      BY <2>a, <2>4 DEF OpRecords, SocketOps
    <2>5. KeepsCalls
      BY <2>4 DEF KeepsCalls
    <2>6. UNCHANGED <<state, nonNull, connectOp, pending>>
      BY <1>2 DEF Cancel
    <2>7. x.h \notin ConnectResults \cup {"connect"}
      BY <2>1 DEF ConnectResults
    <2>8. /\ pending' \in [SocketOps -> [step : Steps, aborted : BOOLEAN]]
          /\ \A p \in ConnectOps : pending'[p] = pending[p]
          /\ \A p \in TransferOps : pending'[p].step \in {"none", "transfer"}
      BY <1>0, <2>6 DEF TypeInv
    <2> QED BY <2>1, <2>2, <2>3, <2>4, <2>5, <2>6, <2>7, <2>8, PushKeeps
  <1> QED BY <1>1, <1>2

(* The calls that only mark their record. *)
LEMMA EntryKeeps ==
  ASSUME OpsDistinct, SocketInv,
         \/ \E o \in ConnectOps, ep \in Endpoints : AsyncConnect(o, ep)
         \/ \E o \in TransferOps : AsyncTransfer(o)
  PROVE  SocketInv'
  <1>0. TypeInv /\ CallInv /\ SocketOwned /\ StepInv /\ HeldInv
    BY DEF SocketInv
  <1>1. ConnectOps \subseteq SocketOps /\ TransferOps \subseteq SocketOps
    BY DEF SocketOps
  <1>2. \A i \in 1..Len(strand) :
          strand[i].h \in ConnectResults \cup {"connect", "cancel_connect"} => strand[i].op \in ConnectOps
    BY <1>0 DEF TypeInv, Handlers, ConnectResults
  <1>3. ASSUME NEW o \in ConnectOps, NEW ep \in Endpoints, AsyncConnect(o, ep) PROVE SocketInv'
    <2> DEFINE init == IF nonNull THEN "invalid_state"
                       ELSE IF ep = "bad_config" THEN "invalid_configuration"
                       ELSE IF ep = "bad_endpoint" THEN "invalid_endpoint" ELSE "none"
               r == init = "none"
    <2>1. /\ init \in Causes /\ r \in BOOLEAN /\ (r <=> init = "none")
      BY SMTT(30) DEF Causes
    <2>2. /\ ~ops[o].entered /\ nonNull' = (nonNull \/ r)
          /\ ops' = [ops EXCEPT ![o] = [@ EXCEPT !.entered = TRUE, !.init = init, !.reserved = r]]
          /\ UNCHANGED <<state, connectOp, pending, strand>>
      BY <1>3, Zenon DEF AsyncConnect
    <2>3. nonNull' \in BOOLEAN /\ (nonNull' => nonNull \/ r)
      BY <2>2, Zenon
    <2> HIDE DEF init, r
    <2> DEFINE rec == [ops[o] EXCEPT !.entered = TRUE, !.init = init, !.reserved = r]
    <2>a. ops \in [SocketOps -> OpRecords] /\ ops[o] \in OpRecords /\ ops' = [ops EXCEPT ![o] = rec]
      BY <1>0, <1>1, <2>2 DEF TypeInv
    <2>b. /\ rec \in OpRecords /\ rec.entered /\ rec.init = init /\ rec.reserved = r
          /\ rec.dispatched = ops[o].dispatched /\ rec.started = ops[o].started
          /\ rec.result = ops[o].result
      BY <2>a, <2>1, Zenon DEF OpRecords
    <2> HIDE DEF rec
    <2>4. ops' \in [SocketOps -> OpRecords]
      BY <2>a, <2>b, Zenon
    <2>5. ASSUME NEW p \in ConnectOps
          PROVE  /\ ops'[p].dispatched = ops[p].dispatched /\ ops'[p].started = ops[p].started
                 /\ ops'[p].result = ops[p].result
                 /\ ops[p].entered => ops'[p].entered
                 /\ p # o => ops'[p] = ops[p]
      BY <1>1, <2>a, <2>b, <2>5
    <2>6. ops'[o].entered /\ ops'[o].init = init /\ ops'[o].reserved = r
      BY <1>1, <2>a, <2>b
    <2>7. CallInv'
      BY <1>0, <1>2, <2>2, <2>5 DEF CallInv, TypeInv
    <2>8. StepInv' /\ SocketOwned'
      BY <1>0, <1>2, <2>2, <2>5 DEF StepInv, SocketOwned
    <2>9. HeldInv'
      <3>1. \A p \in ConnectOps : ops'[p].reserved => ops'[p].init = "none"
        BY <1>0, <2>1, <2>5, <2>6 DEF HeldInv
      <3>2. \A p \in ConnectOps : ~ops'[p].entered => ops'[p].result = "none"
        BY <1>0, <2>5 DEF HeldInv
      <3>3. \A i \in 1..Len(strand') : strand'[i].h = "cancel_connect" => ops'[strand'[i].op].entered
        BY <1>0, <1>2, <2>2, <2>5 DEF HeldInv
      <3>4. ASSUME state' = "null", nonNull'
            PROVE  \E p \in ConnectOps : ops'[p].entered /\ ops'[p].reserved /\ ops'[p].result = "none"
        <4>1. CASE r
          BY <1>0, <2>2, <2>5, <2>6, <4>1 DEF HeldInv
        <4>2. CASE nonNull
          <5>1. PICK p \in ConnectOps : ops[p].entered /\ ops[p].reserved /\ ops[p].result = "none"
            BY <1>0, <2>2, <3>4, <4>2 DEF HeldInv
          <5> QED BY <2>2, <2>5, <5>1
        <4> QED BY <2>3, <3>4, <4>1, <4>2
      <3> QED BY <3>1, <3>2, <3>3, <3>4 DEF HeldInv
    <2>10. TypeInv'
      BY <1>0, <2>2, <2>3, <2>4 DEF TypeInv
    <2> QED BY <2>7, <2>8, <2>9, <2>10 DEF SocketInv
  <1>4. ASSUME NEW o \in TransferOps, AsyncTransfer(o) PROVE SocketInv'
    <2>1. /\ ops' = [ops EXCEPT ![o].entered = TRUE]
          /\ UNCHANGED <<state, nonNull, connectOp, pending, strand>>
      BY <1>4 DEF AsyncTransfer
    <2>a. ops \in [SocketOps -> OpRecords] /\ o \in SocketOps
      BY <1>0, <1>1 DEF TypeInv
    <2>2. ops' \in [SocketOps -> OpRecords]
      BY <2>a, <2>1, Zenon DEF OpRecords
    <2>3. \A p \in ConnectOps : ops'[p] = ops[p]
      BY <1>0, <1>1, <2>1 DEF TypeInv, OpsDistinct
    <2>4. CallInv' /\ HeldInv'
      BY <1>0, <1>2, <2>1, <2>3 DEF CallInv, HeldInv, TypeInv
    <2>5. StepInv' /\ SocketOwned'
      BY <1>0, <1>2, <2>1, <2>3 DEF StepInv, SocketOwned
    <2>6. TypeInv'
      BY <1>0, <2>1, <2>2 DEF TypeInv
    <2> QED BY <2>4, <2>5, <2>6 DEF SocketInv
  <1> QED BY <1>3, <1>4

LEMMA DispatchKeeps ==
  ASSUME OpsDistinct, SocketInv, NEW o \in SocketOps, Dispatch(o)
  PROVE  SocketInv'
  <1> DEFINE h == IF o \in ConnectOps THEN "connect" ELSE "transfer"
             x == Handler(h, o, "none")
  <1>0. TypeInv /\ CallInv /\ SocketOwned /\ StepInv /\ HeldInv
    BY DEF SocketInv
  <1>1. x \in Handlers /\ x.op = o /\ x.h = h
    BY DEF Handler, Handlers, Causes, SocketOps
  <1>2. /\ strand' = Append(strand, x) /\ ops' = [ops EXCEPT ![o].dispatched = TRUE]
        /\ ops[o].entered /\ ~ops[o].dispatched /\ UNCHANGED <<state, nonNull, connectOp, pending>>
    BY DEF Dispatch
  <1> HIDE DEF x
  <1>3. ops \in [SocketOps -> OpRecords]
    BY <1>0 DEF TypeInv
  <1>4. ops' \in [SocketOps -> OpRecords] /\ ops'[o].dispatched
    BY <1>2, <1>3, Zenon DEF OpRecords
  <1>5. ASSUME NEW p \in SocketOps
        PROVE  /\ ops'[p].entered = ops[p].entered /\ ops'[p].init = ops[p].init
               /\ ops'[p].reserved = ops[p].reserved /\ ops'[p].started = ops[p].started
               /\ ops'[p].result = ops[p].result
               /\ p # o => ops'[p].dispatched = ops[p].dispatched
    BY <1>2, <1>3, <1>5, Zenon DEF OpRecords
  <1>6. ConnectOps \subseteq SocketOps
    BY DEF SocketOps
  <1>7. CASE o \notin ConnectOps
    <2>1. KeepsCalls
      BY <1>5, <1>6, <1>7 DEF KeepsCalls
    <2>2. x.h \notin ConnectResults \cup {"connect", "cancel_connect"}
      BY <1>1, <1>7 DEF ConnectResults
    <2>3. /\ pending' \in [SocketOps -> [step : Steps, aborted : BOOLEAN]]
          /\ \A p \in ConnectOps : pending'[p] = pending[p]
          /\ \A p \in TransferOps : pending'[p].step \in {"none", "transfer"}
      BY <1>0, <1>2 DEF TypeInv
    <2>4. \A p \in ConnectOps :
            /\ ops'[p].started = ops[p].started /\ ops'[p].reserved = ops[p].reserved
            /\ ops'[p].result = ops[p].result
      BY <1>5, <1>6
    <2>5. x.h = "cancel_connect" => ops[x.op].entered
      BY <2>2
    <2> QED BY <1>1, <1>2, <1>4, <2>1, <2>2, <2>3, <2>4, <2>5, PushKeeps, Zenon
  <1>8. CASE o \in ConnectOps
    <2>0. x.h = "connect" BY <1>1, <1>8
    <2>1. /\ strand' \in Seq(Handlers) /\ Len(strand) \in Nat
          /\ \A i \in 1..Len(strand') : \/ i \in 1..Len(strand) /\ strand'[i] = strand[i]
                                        \/ i = Len(strand) + 1 /\ strand'[i] = x
      BY <1>0, <1>1, <1>2, Pushed
    <2>2. \A i \in 1..Len(strand) :
            strand[i].h \in ConnectResults \cup {"connect", "cancel_connect"} => strand[i].op \in ConnectOps
      BY <1>0 DEF TypeInv, Handlers, ConnectResults
    <2>3. connectOp # o
      BY <1>0, <1>2, <1>8 DEF CallInv, OpsDistinct, SocketOps
    <2>4. \A i \in 1..Len(strand) : strand[i].h = "connect" => strand[i].op # o
      BY <1>0, <1>2 DEF CallInv
    <2>5. CallInv'
      <3>1. connectOp' # NoOp => state' = "connecting" /\ ops'[connectOp'].dispatched
        BY <1>0, <1>2, <1>5, <1>6, <2>3 DEF CallInv, TypeInv
      <3>2. \A p \in ConnectOps : ops'[p].dispatched => ops'[p].entered
        BY <1>0, <1>2, <1>5, <1>6 DEF CallInv
      <3>3. \A i \in 1..Len(strand') :
              strand'[i].h = "connect" => ops'[strand'[i].op].dispatched /\ connectOp' # strand'[i].op
        <4> SUFFICES ASSUME NEW i \in 1..Len(strand'), strand'[i].h = "connect"
                     PROVE  ops'[strand'[i].op].dispatched /\ connectOp' # strand'[i].op
          BY Zenon
        <4>1. CASE i \in 1..Len(strand) /\ strand'[i] = strand[i]
          <5>1. strand[i].op \in ConnectOps /\ strand[i].op # o
            BY <2>2, <2>4, <4>1, Zenon
          <5>2. ops[strand[i].op].dispatched /\ connectOp # strand[i].op
            BY <1>0, <4>1, Zenon DEF CallInv
          <5> QED BY <1>2, <1>5, <1>6, <4>1, <5>1, <5>2
        <4>2. CASE strand'[i] = x
          BY <1>1, <1>2, <1>4, <1>5, <1>6, <1>8, <2>3, <4>2
        <4> QED BY <2>1, <4>1, <4>2, Zenon
      <3>4. \A i, j \in 1..Len(strand') :
              strand'[i].h = "connect" /\ strand'[j].h = "connect" /\ strand'[i].op = strand'[j].op => i = j
        BY <1>0, <1>1, <2>1, <2>4, ZenonT(60) DEF CallInv
      <3> QED BY <3>1, <3>2, <3>3, <3>4 DEF CallInv
    <2>6. StepInv'
      <3>1. x.h \notin ConnectResults BY <2>0 DEF ConnectResults
      <3> QED BY <1>0, <1>2, <1>5, <1>6, <2>1, <2>2, <3>1 DEF StepInv
    <2>7. SocketOwned'
      BY <1>0, <1>2, <1>5, <1>6 DEF SocketOwned
    <2>8. HeldInv'
      <3>1. \A p \in ConnectOps : /\ ops'[p].reserved => ops'[p].init = "none"
                                  /\ ~ops'[p].entered => ops'[p].result = "none"
        BY <1>0, <1>5, <1>6 DEF HeldInv
      <3>2. \A i \in 1..Len(strand') : strand'[i].h = "cancel_connect" => ops'[strand'[i].op].entered
        BY <1>0, <1>5, <1>6, <2>0, <2>1, <2>2 DEF HeldInv
      <3>3. state' = "null" /\ nonNull'
              => \E p \in ConnectOps : ops'[p].entered /\ ops'[p].reserved /\ ops'[p].result = "none"
        BY <1>0, <1>2, <1>5, <1>6 DEF HeldInv
      <3> QED BY <3>1, <3>2, <3>3 DEF HeldInv
    <2>9. TypeInv'
      BY <1>0, <1>2, <1>4, <2>1 DEF TypeInv
    <2> QED BY <2>5, <2>6, <2>7, <2>8, <2>9 DEF SocketInv
  <1> QED BY <1>7, <1>8

LEMMA TransportKeeps ==
  ASSUME OpsDistinct, SocketInv, NEW o \in SocketOps, TransportStep(o)
  PROVE  SocketInv'
  <1>0. TypeInv /\ CallInv /\ SocketOwned /\ StepInv /\ HeldInv
    BY DEF SocketInv
  <1>1. pending[o].step # "none" /\ UNCHANGED <<state, nonNull, connectOp, ops>>
    BY DEF TransportStep
  <1>2. pending \in [SocketOps -> [step : Steps, aborted : BOOLEAN]]
    BY <1>0 DEF TypeInv
  <1>3. \/ /\ pending[o].step = "request" /\ UNCHANGED strand
           /\ pending' = [pending EXCEPT ![o].step = "response"]
        \/ \E err \in Causes :
             /\ pending' = [pending EXCEPT ![o] = Idle]
             /\ strand' = Append(strand, Handler(HandlerOf(pending[o].step), o, err))
    BY <1>1, <1>2 DEF TransportStep, Outcomes, Answers, Causes
  <1>4. ConnectOps \subseteq SocketOps /\ TransferOps \subseteq SocketOps
    BY DEF SocketOps
  <1>5. KeepsCalls
    BY <1>1 DEF KeepsCalls
  <1>6. CASE /\ pending[o].step = "request" /\ UNCHANGED strand
             /\ pending' = [pending EXCEPT ![o].step = "response"]
    <2>1. /\ pending' \in [SocketOps -> [step : Steps, aborted : BOOLEAN]]
          /\ pending'[o].step = "response"
          /\ \A p \in SocketOps : p # o => pending'[p] = pending[p]
      BY <1>2, <1>6 DEF Steps
    <2>2. o \in ConnectOps
      BY <1>0, <1>6, Zenon DEF TypeInv, SocketOps
    <2>3. \A i \in 1..Len(strand) : strand[i].h \in ConnectResults => strand[i].op # o /\ strand[i].op \in SocketOps
      BY <1>0, <1>1, <1>4 DEF StepInv, TypeInv, Handlers, ConnectResults
    <2>4. StepInv'
      BY <1>0, <1>1, <1>4, <1>6, <2>1, <2>3 DEF StepInv
    <2>5. CallInv' /\ SocketOwned' /\ HeldInv'
      BY <1>0, <1>1, <1>6 DEF CallInv, SocketOwned, HeldInv
    <2>6. TypeInv'
      <3>1. \A p \in ConnectOps : pending'[p].step # "transfer"
        BY <1>0, <1>4, <2>1 DEF TypeInv
      <3>2. \A p \in TransferOps : pending'[p].step \in {"none", "transfer"}
        BY <1>0, <1>4, <2>1, <2>2 DEF TypeInv, OpsDistinct
      <3> QED BY <1>0, <1>1, <1>6, <2>1, <3>1, <3>2 DEF TypeInv
    <2> QED BY <2>4, <2>5, <2>6 DEF SocketInv
  <1>7. ASSUME NEW err \in Causes, pending' = [pending EXCEPT ![o] = Idle],
               strand' = Append(strand, Handler(HandlerOf(pending[o].step), o, err))
        PROVE  SocketInv'
    <2> DEFINE x == Handler(HandlerOf(pending[o].step), o, err)
    <2>0. strand' = Append(strand, x) BY <1>7
    <2>1. /\ pending' \in [SocketOps -> [step : Steps, aborted : BOOLEAN]]
          /\ pending'[o].step = "none"
          /\ \A p \in SocketOps : p # o => pending'[p] = pending[p]
      BY <1>2, <1>7 DEF Steps, Idle
    <2>2. CASE o \in TransferOps
      <3>1. o \notin ConnectOps /\ pending[o].step = "transfer"
        BY <1>0, <1>1, <2>2 DEF TypeInv, OpsDistinct
      <3>2. x \in Handlers /\ x.h = "on_transfer"
        BY <2>2, <3>1 DEF Handler, HandlerOf, Handlers
      <3> HIDE DEF x
      <3>3. x.h \notin ConnectResults \cup {"connect"} /\ x.h # "cancel_connect"
        BY <3>2 DEF ConnectResults
      <3>4. /\ \A p \in ConnectOps : pending'[p] = pending[p]
            /\ \A p \in TransferOps : pending'[p].step \in {"none", "transfer"}
        BY <1>0, <1>4, <2>1, <3>1 DEF TypeInv
      <3>5. ops' \in [SocketOps -> OpRecords] /\ ops' = ops
        BY <1>0, <1>1 DEF TypeInv
      <3> QED BY <1>1, <1>5, <2>0, <2>1, <3>2, <3>3, <3>4, <3>5, PushKeeps
    <2>3. CASE o \in ConnectOps
      <3>1. x \in Handlers /\ x.h \in ConnectResults /\ x.op = o
        <4>1. pending[o].step # "transfer" BY <1>0, <2>3 DEF TypeInv
        <4>2. HandlerOf(pending[o].step) \in ConnectResults BY <4>1, Zenon DEF HandlerOf, ConnectResults
        <4> QED BY <2>3, <4>2 DEF Handler, Handlers
      <3>2. x.h \notin {"connect", "cancel_connect"}
        BY <3>1, Zenon DEF ConnectResults
      <3> HIDE DEF x
      <3>3. /\ strand' \in Seq(Handlers) /\ Len(strand) \in Nat
            /\ \A i \in 1..Len(strand') : \/ i \in 1..Len(strand) /\ strand'[i] = strand[i]
                                          \/ i = Len(strand) + 1 /\ strand'[i] = x
        BY <1>0, <2>0, <3>1, Pushed, Zenon
      <3>4. \A i \in 1..Len(strand) : strand[i].h \in ConnectResults => strand[i].op # o /\ strand[i].op \in SocketOps
        BY <1>0, <1>1, <1>4 DEF StepInv, TypeInv, Handlers, ConnectResults
      <3>5. ops[o].started
        BY <1>0, <1>1, <2>3 DEF StepInv
      <3>6. StepInv'
        <4>1. \A p \in ConnectOps : pending'[p].step # "none" => ops'[p].started
          BY <1>0, <1>1, <1>4, <2>1, Zenon DEF StepInv
        <4>2. \A i \in 1..Len(strand') :
                strand'[i].h \in ConnectResults
                  => ops'[strand'[i].op].started /\ pending'[strand'[i].op].step = "none"
          BY <1>0, <1>1, <2>1, <3>1, <3>3, <3>4, <3>5, SMTT(30) DEF StepInv
        <4>3. \A i, j \in 1..Len(strand') :
                strand'[i].h \in ConnectResults /\ strand'[j].h \in ConnectResults
                /\ strand'[i].op = strand'[j].op => i = j
          <5>1. \A i \in 1..Len(strand') :
                  strand'[i].h \in ConnectResults =>
                    \/ i = Len(strand) + 1 /\ strand'[i].op = o
                    \/ i \in 1..Len(strand) /\ strand'[i] = strand[i] /\ strand'[i].op # o
            BY <3>1, <3>3, <3>4, ZenonT(60)
          <5> QED BY <1>0, <5>1, ZenonT(60) DEF StepInv
        <4> QED BY <4>1, <4>2, <4>3 DEF StepInv
      <3>7. CallInv'
        BY <1>0, <1>1, <3>2, <3>3, ZenonT(60) DEF CallInv
      <3>8. SocketOwned' /\ HeldInv'
        BY <1>0, <1>1, <3>2, <3>3, Zenon DEF SocketOwned, HeldInv
      <3>9. TypeInv'
        <4>1. \A p \in ConnectOps : pending'[p].step # "transfer"
          BY <1>0, <1>4, <2>1 DEF TypeInv
        <4>2. \A p \in TransferOps : pending'[p].step \in {"none", "transfer"}
          BY <1>0, <1>4, <2>1, <2>3 DEF TypeInv, OpsDistinct
        <4> QED BY <1>0, <1>1, <2>1, <3>3, <4>1, <4>2 DEF TypeInv
      <3> QED BY <3>6, <3>7, <3>8, <3>9, Zenon DEF SocketInv
    <2> QED BY <2>2, <2>3 DEF SocketOps
  <1> QED BY <1>3, <1>6, <1>7

-----------------------------------------------------------------------------

LEMMA StepSocketInv == OpsDistinct /\ SocketInv /\ [Next]_socketVars => SocketInv'
  <1> SUFFICES ASSUME OpsDistinct, SocketInv, [Next]_socketVars PROVE SocketInv'
    OBVIOUS
  <1>1. ASSUME NEW next \in {"connect", "refused", "request", "connected"}, NEW h \in ConnectResults,
               Run(h), OnStep(Head(strand).op, Head(strand).err, next)
        PROVE  SocketInv'
    BY <1>1, StepHandler
  <1>2. CASE OnResolve \/ OnConnect \/ OnHandshake
    <2>1. {"on_resolve", "on_connect", "on_handshake"} \subseteq ConnectResults
      BY DEF ConnectResults
    <2>2. CASE OnResolve
      BY <1>1, <2>1, <2>2 DEF OnResolve
    <2>3. CASE OnConnect
      <3> DEFINE next == IF RequestRefused THEN "refused" ELSE "request"
      <3>1. next \in {"connect", "refused", "request", "connected"}
        OBVIOUS
      <3>2. Run("on_connect") /\ OnStep(Head(strand).op, Head(strand).err, next)
        BY <2>3 DEF OnConnect
      <3> HIDE DEF next
      <3> QED BY <1>1, <2>1, <3>1, <3>2
    <2>4. CASE OnHandshake
      BY <1>1, <2>1, <2>4 DEF OnHandshake
    <2> QED BY <1>2, <2>2, <2>3, <2>4
  <1>3. CASE StrandStep
    BY <1>2, <1>3, ConnectHandler, CancelHandler, TransferHandlers, Zenon DEF StrandStep
  <1>4. CASE UNCHANGED <<state, nonNull, connectOp, ops, pending, strand>>
    BY <1>4, Zenon DEF SocketInv, TypeInv, CallInv, SocketOwned, StepInv, HeldInv
  <1>5. ASSUME NEW c \in Configs, SetSettings(c) PROVE SocketInv'
    BY <1>4, <1>5 DEF SetSettings
  <1>6. CASE UNCHANGED socketVars
    BY <1>4, <1>6 DEF socketVars
  <1> QED BY <1>3, <1>5, <1>6, CallsKeep, EntryKeeps, DispatchKeeps, TransportKeeps DEF Next

LEMMA AlwaysSocketInv == OpsDistinct => (Spec => []SocketInv)
  <1> SUFFICES ASSUME OpsDistinct PROVE Spec => []SocketInv
    OBVIOUS
  <1>1. Init => SocketInv
    BY InitSocketInv
  <1>2. SocketInv /\ [Next]_socketVars => SocketInv'
    BY StepSocketInv
  <1> QED BY <1>1, <1>2, PTL DEF Spec

(* One connect at a time uses the resolver and the transport socket, however
   many calls there are and whenever they are cancelled or the socket is closed:
   a step in progress, or its queued result, belongs to m_connect_op (on_close
   of socket.cpp keeps the operation until its step has ended). *)
THEOREM OneConnectOwnsTheSocket == OpsDistinct => (Spec => []SocketOwned)
  <1> SUFFICES ASSUME OpsDistinct PROVE Spec => []SocketOwned
    OBVIOUS
  <1>1. SocketInv => SocketOwned
    BY Zenon DEF SocketInv
  <1> QED BY <1>1, AlwaysSocketInv, PTL

(* The reservation m_is_state_non_null is never left behind by a connect that
   was refused, cancelled or closed: with no connection and no accepted connect
   on its way, the next async_connect is not refused. *)
THEOREM ReservationIsReturned == OpsDistinct => (Spec => []NoStuckReservation)
  <1> SUFFICES ASSUME OpsDistinct PROVE Spec => []NoStuckReservation
    OBVIOUS
  <1>1. SocketInv => NoStuckReservation
    BY DEF SocketInv, HeldInv, NoStuckReservation
  <1> QED BY <1>1, AlwaysSocketInv, PTL
=============================================================================
