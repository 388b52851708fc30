---------------------------- MODULE MCTransport ----------------------------
(* The parts of the transport, one at a time: part names the one that runs, the *)
(* others stay in their initial state.                                          *)
EXTENDS Naturals, Sequences, FiniteSets

CONSTANTS
  ConnectOps, TransferOps, MaxClose, MaxSocketOps,   \* StreamSocket
  MaxEndpoints,                                      \* TransportStream
  Calls, Peers, MaxOngoing,                          \* TlsAcceptor
  IoOps, Closers, MaxOpens,                          \* BlockingHandle
  PtyOps, MaxStarts,                                 \* PtyStream
  MaxReads, MaxChunks,                               \* FifoReader
  MaxSize, Capacity, HeaderSize, Controls,           \* Payloader
  MaxData,                                           \* HttpUpgrade
  NoOp

VARIABLES
  part,
  state, nonNull, remote, config, connectOp, ops, pending, strand, closes,
  endpoints, tls, handle, native, tries, loop, attempt, closing, shutdown,
  accOngoing, accClosed, waiting, upstream, accPending, accStrand, accResult,
  bh, worker, duplicate, io, closer,
  pty, slot, thread, ptyOps, ptyStrand,
  reader, reads, fifo,
  sender, receiver, bytes, control, cut,
  upgrader, accepter, lines, decorators

socket == <<state, nonNull, remote, config, connectOp, ops, pending, strand, closes>>
stream == <<endpoints, tls, handle, native, tries, loop, attempt, closing, shutdown>>
acceptor == <<accOngoing, accClosed, waiting, upstream, accPending, accStrand, accResult>>
blocking == <<bh, worker, duplicate, io, closer>>
console == <<pty, slot, thread, ptyOps, ptyStrand>>
pipe == <<reader, reads, fifo>>
framing == <<sender, receiver, bytes, control, cut>>
upgrade == <<upgrader, accepter, lines, decorators>>
transportVars == <<part, socket, stream, acceptor, blocking, console, pipe, framing, upgrade>>

Configs ==
  {[zeroRtt |-> TRUE, details |-> "anonymous", secure |-> FALSE],
   [zeroRtt |-> FALSE, details |-> "token", secure |-> TRUE],
   [zeroRtt |-> FALSE, details |-> "token", secure |-> FALSE]}

Endpoints == {"ok", "bad_endpoint"}

(* Messages that fit, that exceed the buffer of the receiver, and that exceed the *)
(* size of the header.                                                            *)
FrameLists == {<<2, 0, 3, 4, 1>>, <<1, 6, 1>>}

(* What a decorator of the upgrade does: nothing, fail, or change a field. *)
Decorate(fields) == [throws |-> FALSE, fields |-> fields]
Throw(fields) == [throws |-> TRUE, fields |-> fields]
RequestDecorators ==
  {Decorate([kind |-> "request"]), Throw([kind |-> "request"]),
   Decorate([version |-> 10]), Decorate([connection |-> "close"])}
ResponseDecorators ==
  {Decorate([kind |-> "response"]), Throw([kind |-> "response"]),
   Decorate([result |-> 101]), Decorate([result |-> 200]), Decorate([upgrade |-> "other"])}

SS == INSTANCE StreamSocket
TS == INSTANCE TransportStream WITH ShutdownTimer <- TRUE
TA == INSTANCE TlsAcceptor WITH NoCall <- NoOp
BH == INSTANCE BlockingHandle WITH native <- duplicate, NoIo <- 0
PT == INSTANCE PtyStream WITH strand <- ptyStrand, NoPtyOp <- 0
FR == INSTANCE FifoReader
PL == INSTANCE Payloader
HU == INSTANCE HttpUpgrade

Init ==
  /\ part \in {"socket", "stream", "acceptor", "blocking", "console", "pipe", "framing", "upgrade"}
  /\ SS!Init /\ TS!Init /\ TA!Init /\ BH!Init /\ PT!Init /\ FR!Init /\ PL!Init /\ HU!Init
  /\ part # "socket" => config.zeroRtt
  /\ part # "stream" => endpoints = 0 /\ tls
  /\ part # "framing" => control = "none" /\ Len(sender.frames) = 3
  /\ part # "upgrade" => decorators.request.throws /\ decorators.response.throws

(* Bound: the calls a behaviour makes on its socket. *)
SocketBound == Cardinality({o \in ConnectOps \cup TransferOps : ops'[o].entered}) <= MaxSocketOps

(* A step of one part. *)
InSocket(A) == part = "socket" /\ A /\ UNCHANGED <<part, stream, acceptor, blocking, console, pipe, framing, upgrade>>
InStream(A) == part = "stream" /\ A /\ UNCHANGED <<part, socket, acceptor, blocking, console, pipe, framing, upgrade>>
InAcceptor(A) == part = "acceptor" /\ A /\ UNCHANGED <<part, socket, stream, blocking, console, pipe, framing, upgrade>>
InBlocking(A) == part = "blocking" /\ A /\ UNCHANGED <<part, socket, stream, acceptor, console, pipe, framing, upgrade>>
InConsole(A) == part = "console" /\ A /\ UNCHANGED <<part, socket, stream, acceptor, blocking, pipe, framing, upgrade>>
InPipe(A) == part = "pipe" /\ A /\ UNCHANGED <<part, socket, stream, acceptor, blocking, console, framing, upgrade>>
InFraming(A) == part = "framing" /\ A /\ UNCHANGED <<part, socket, stream, acceptor, blocking, console, pipe, upgrade>>
InUpgrade(A) == part = "upgrade" /\ A /\ UNCHANGED <<part, socket, stream, acceptor, blocking, console, pipe, framing>>

Next ==
  \/ InSocket(SS!Next /\ SocketBound)
  \/ InStream(TS!Next)
  \/ InAcceptor(TA!Next)
  \/ InBlocking(BH!Next)
  \/ InConsole(PT!Next)
  \/ InPipe(FR!Next)
  \/ InFraming(PL!Next)
  \/ InUpgrade(HU!Next)

(* The fairness of each part, as its module states it: part is fixed, so one     *)
(* condition serves several parts.                                               *)
Progress ==
  \/ InSocket(SS!Progress) \/ InStream(TS!Progress) \/ InAcceptor(TA!Progress)
  \/ InConsole(PT!Progress) \/ InFraming(PL!Progress)
  \/ InBlocking(BH!WorkerSteps) \/ InPipe(FR!WorkerSteps)

ClosersProgress(c) == InBlocking(BH!CloseSteps(c)) \/ InPipe(FR!CloseSteps)

Spec ==
  /\ Init /\ [][Next]_transportVars
  /\ WF_transportVars(Progress)
  /\ \A c \in Closers : WF_transportVars(ClosersProgress(c))
  /\ SF_transportVars(InBlocking(BH!Interrupts))

-----------------------------------------------------------------------------
(* A socket has one connect at a time and a reservation that is not left behind *)
(* (socket.cpp), async_connect tries each endpoint on a native socket of its own *)
(* and leaves no connection it does not report, and the TLS acceptor serves the *)
(* call that waits, within its limit of upstream operations.                    *)
ConnectionsSound ==
  /\ SS!SocketOwned /\ SS!NoStuckReservation
  /\ TS!AttemptFresh /\ TS!NoConnectionLeft
  /\ TA!AcceptServed /\ TA!EntriesBounded

(* The threads that block for the others (the worker of a handle, the two of a  *)
(* console, the one of a FIFO) complete each operation once, never use a handle *)
(* that is closed, and are gone when close returns.                             *)
ThreadsSafe == BH!WorkerSafe /\ PT!ThreadsSafe /\ FR!ReadsOnce

(* Messages arrive whole and in order whatever the pieces, and the two sides of *)
(* an upgrade agree on whether it happened and lose no byte of the client.      *)
MessagesIntact == PL!FramesIntact /\ HU!UpgradeAgreed

(* What has been asked to end in the part that runs and has not ended. *)
Unended ==
  CASE part = "socket" -> SS!Unended
    [] part = "stream" -> TS!Unended
    [] part = "acceptor" -> TA!Unended
    [] part = "blocking" -> BH!Unended(CHOOSE c \in Closers : TRUE)   \* the closers are alike
    [] part = "console" -> PT!Unended
    [] part = "pipe" -> FR!Unended
    [] part = "framing" -> PL!Unended
    [] OTHER -> {}

(* Nothing that was asked to end waits for the peer: a cancelled socket          *)
(* operation, a TLS shutdown, the accepts of a closed acceptor, the close of a   *)
(* handle, a console or a FIFO; and a message that is not cut off arrives.       *)
CloseCompletes == []<>(Unended = {})
=============================================================================
