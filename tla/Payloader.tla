------------------------------ MODULE Payloader ------------------------------
(***************************************************************************)
(* The framing of the control channel and of the stream handshake          *)
(* (lib/rstream/io/payloader.hpp): a length in network order and the       *)
(* payload.  The stream delivers bytes in pieces.  The queue starts one    *)
(* send at a time (SendQueue), the client one receive at a time, and both  *)
(* stop at the first error.                                                *)
(* A message is [id, size]; a byte on the wire is [msg, part, at].         *)
(***************************************************************************)
EXTENDS Naturals, Sequences, SequencesExt

CONSTANTS
  FrameLists,   \* what may be sent: the sizes of the messages, in their order
  MaxSize,      \* the largest std::uint32_t, the size that a header can carry
  Capacity,     \* m_max_buffer_size: the memory of the receiver's buffer
  HeaderSize,   \* sizeof(std::uint32_t)
  Controls      \* the control callback: "none", "grows" (handshake), "throws"

VARIABLES
  sender,     \* [frames, next, left, error]: the message being sent, its bytes still to write
  receiver,   \* [at, need, got, capacity, received, error]
  bytes,      \* the bytes under way
  control,
  cut         \* the connection was lost

payloaderVars == <<sender, receiver, bytes, control, cut>>

Init ==
  /\ sender \in [frames : FrameLists, next : {1}, left : {<< >>}, error : {"none"}]
  /\ receiver = [at |-> "idle", need |-> 0, got |-> << >>, capacity |-> 0, received |-> << >>, error |-> "none"]
  /\ bytes = << >> /\ cut = FALSE
  /\ control \in Controls

Header(m)  == [i \in 1..HeaderSize |-> [msg |-> m, part |-> "header", at |-> i]]

Payload(m) == [i \in 1..sender.frames[m] |-> [msg |-> m, part |-> "payload", at |-> i]]

(* async_send: a payload whose size does not fit in the header is refused *)
AsyncSend ==
  /\ sender.left = << >> /\ sender.next <= Len(sender.frames) /\ sender.error = "none"
  /\ sender' = IF sender.frames[sender.next] > MaxSize
               THEN [sender EXCEPT !.error = "invalid_buffer_size"]
               ELSE [sender EXCEPT !.left = Header(sender.next) \o Payload(sender.next), !.next = @ + 1]
  /\ UNCHANGED <<receiver, bytes, control, cut>>

(* one write_some of async_write; the handler is posted when nothing is left *)
WriteSome ==
  /\ sender.left # << >> /\ sender.error = "none"
  /\ IF cut THEN sender' = [sender EXCEPT !.error = "eof"] /\ UNCHANGED bytes
     ELSE \E n \in 1..Len(sender.left) :
            /\ bytes' = bytes \o SubSeq(sender.left, 1, n)
            /\ sender' = [sender EXCEPT !.left = SubSeq(@, n + 1, Len(@))]
  /\ UNCHANGED <<receiver, control, cut>>

-----------------------------------------------------------------------------
(* async_recv into the buffer of the client, whose size was reset; the buffer of the
   handshake is empty at first *)
AsyncRecv ==
  /\ receiver.at = "idle" /\ receiver.error = "none"
  /\ receiver' = [receiver EXCEPT !.at = "header", !.need = HeaderSize, !.got = << >>,
                                  !.capacity = IF control = "grows" THEN 0 ELSE Capacity]
  /\ UNCHANGED <<sender, bytes, control, cut>>

Failed(e) == [receiver EXCEPT !.at = "idle", !.error = e]

(* the size a receiver takes from the header bytes: 32 bits of it *)
Length(header) == sender.frames[header[1].msg] % (MaxSize + 1)

(* payloader_control_cb of the handshake: the room is extended, by at most the limit *)
payloader_control_cb(size, capacity) ==
  IF size <= capacity THEN capacity
  ELSE capacity + IF size - capacity < Capacity THEN size - capacity ELSE Capacity

(* Mutant: a payload that does not fit is cut to the buffer. *)
MutDoReadPayload(header) ==
  LET size     == Length(header)
      capacity == IF control = "grows" THEN payloader_control_cb(size, receiver.capacity) ELSE receiver.capacity
  IN IF control = "throws" THEN Failed("callback")
     ELSE [receiver EXCEPT !.at = "payload", !.need = IF size > capacity THEN capacity ELSE size, !.got = << >>, !.capacity = capacity]

(* do_read_payload: the callback, then the limit *)
do_read_payload(header) ==
  LET size     == Length(header)
      capacity == IF control = "grows" THEN payloader_control_cb(size, receiver.capacity) ELSE receiver.capacity
  IN IF control = "throws" THEN Failed("callback")
     ELSE IF size > capacity THEN Failed("invalid_buffer_size")
     ELSE [receiver EXCEPT !.at = "payload", !.need = size, !.got = << >>, !.capacity = capacity]

(* one read_some of async_read *)
ReadSome ==
  /\ receiver.at \in {"header", "payload"} /\ Len(receiver.got) < receiver.need
  /\ IF bytes = << >>
     THEN cut /\ receiver' = Failed("eof") /\ UNCHANGED bytes
     ELSE \E n \in 1..Len(bytes) :
            /\ n <= receiver.need - Len(receiver.got)
            /\ receiver' = [receiver EXCEPT !.got = @ \o SubSeq(bytes, 1, n)]
            /\ bytes' = SubSeq(bytes, n + 1, Len(bytes))
  /\ UNCHANGED <<sender, control, cut>>

OnReadHeader ==
  /\ receiver.at = "header" /\ Len(receiver.got) = receiver.need
  /\ receiver' = do_read_payload(receiver.got)
  /\ UNCHANGED <<sender, bytes, control, cut>>

OnReadPayload ==
  /\ receiver.at = "payload" /\ Len(receiver.got) = receiver.need
  /\ receiver' = [receiver EXCEPT !.at = "idle", !.received = Append(@, receiver.got)]
  /\ UNCHANGED <<sender, bytes, control, cut>>

Cut ==
  /\ ~cut
  /\ cut' = TRUE
  /\ UNCHANGED <<sender, receiver, bytes, control>>

Next == AsyncSend \/ WriteSome \/ AsyncRecv \/ ReadSome \/ OnReadHeader \/ OnReadPayload \/ Cut

(* Both sides go on as long as they can. *)
Progress == AsyncSend \/ WriteSome \/ AsyncRecv \/ ReadSome \/ OnReadHeader \/ OnReadPayload

Spec == Init /\ [][Next]_payloaderVars /\ WF_payloaderVars(Progress)

-----------------------------------------------------------------------------
(* What was received is the messages that were sent, whole and in order, whatever the
   pieces; and a message is refused only if it does not fit. *)
FramesIntact ==
  /\ \A i \in DOMAIN receiver.received : receiver.received[i] = Payload(i)
  /\ receiver.error = "invalid_buffer_size" =>
       sender.frames[Len(receiver.received) + 1] > Capacity

(* The messages that have not arrived: without a loss of the connection, and unless
   the receiver fails, none stays here but those from the one async_send refused. *)
Unended ==
  IF cut \/ receiver.error # "none" THEN {}
  ELSE {i \in DOMAIN sender.frames : i > Len(receiver.received) /\ (sender.error = "none" \/ i < sender.next)}
=============================================================================
