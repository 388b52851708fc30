----------------------------- MODULE TlsAcceptor -----------------------------
(***************************************************************************)
(* The TLS acceptor (lib/rstream/io/detail/stream/acceptor_ssl.cpp): it    *)
(* accepts connections of the next layer ahead of the calls, runs their    *)
(* handshakes side by side, and hands a connection that finished its       *)
(* handshake to the one async_accept that waits.                           *)
(***************************************************************************)
EXTENDS Naturals, Sequences, FiniteSets

CONSTANTS
  Calls,      \* the async_accept calls
  Peers,      \* the upstream entries, one per generate_id(): bounds the accepts
  MaxOngoing, \* m_max_ongoing_upstream_ops, 0 for no limit
  NoCall

VARIABLES
  accOngoing,   \* m_ongoing_accept_op
  accClosed,    \* m_closed
  waiting,      \* m_async_accept_downstream_op
  upstream,     \* m_async_accept_upstream_ops: where each entry stands
  accPending,   \* the entries with an accept or a handshake in progress below
  accStrand,    \* the handlers queued on m_strand
  accResult     \* what each call completed with

accVars == <<accOngoing, accClosed, waiting, upstream, accPending, accStrand, accResult>>

Held == {"accepting", "handshaking", "connected"}
Entries(up) == {p \in Peers : up[p] \in Held}

Init ==
  /\ accOngoing = FALSE /\ accClosed = FALSE /\ waiting = NoCall
  /\ upstream = [p \in Peers |-> "new"]
  /\ accPending = {}
  /\ accStrand = <<>>
  /\ accResult = [c \in Calls |-> "none"]

Take(h) == accStrand # <<>> /\ Head(accStrand).h = h /\ accStrand' = Tail(accStrand)
Queue(h, x, e) == Append(accStrand, [h |-> h, of |-> x, err |-> e])

---------------------------------------------------------------------------
AsyncAccept(c) ==
  /\ accResult[c] = "none"
  /\ accResult' = [accResult EXCEPT ![c] = "called"]
  /\ accStrand' = Queue("accept", c, "none")
  /\ UNCHANGED <<accOngoing, accClosed, waiting, upstream, accPending>>

Close ==
  /\ ~accClosed /\ \A i \in 1..Len(accStrand) : accStrand[i].h # "close"
  /\ accStrand' = Queue("close", NoCall, "none")
  /\ UNCHANGED <<accOngoing, accClosed, waiting, upstream, accPending, accResult>>

(* do_accept, called with the map up, the flag on and the operations pend: one
   accept at a time, and no more entries than the limit.  Past the bound Peers
   the accept that starts is one that no connection ever ends. *)
DoAccept(up, on, pend) ==
  LET fresh == {p \in Peers : up[p] = "new"}
      p == CHOOSE q \in fresh : TRUE
      full == MaxOngoing # 0 /\ Cardinality(Entries(up)) >= MaxOngoing
  IN /\ accOngoing' = (on \/ ~full)
     /\ IF on \/ full \/ fresh = {}
        THEN upstream' = up /\ accPending' = pend
        ELSE upstream' = [up EXCEPT ![p] = "accepting"] /\ accPending' = pend \cup {p}

AcceptInternal ==
  /\ Take("accept")
  /\ LET c == Head(accStrand).of
         ready == {p \in Peers : upstream[p] = "connected"} IN
     \/ /\ accClosed \/ waiting # NoCall
        /\ accResult' = [accResult EXCEPT ![c] =
                           IF waiting # NoCall THEN "in_progress" ELSE "aborted"]
        /\ UNCHANGED <<waiting, upstream, accOngoing, accPending>>
     \/ /\ ~accClosed /\ waiting = NoCall
        /\ \E p \in ready : upstream' = [upstream EXCEPT ![p] = "given"]
        /\ accResult' = [accResult EXCEPT ![c] = "ok"]
        /\ UNCHANGED <<waiting, accOngoing, accPending>>
     \/ /\ ~accClosed /\ waiting = NoCall /\ ready = {}
        /\ waiting' = c
        /\ DoAccept(upstream, accOngoing, accPending)
        /\ UNCHANGED accResult
  /\ UNCHANGED accClosed

(* on_error, also the body of close_internal: the next layer and the
   connections of the entries are closed, the entries dropped, and the waiting
   call completed *)
OnError(e) ==
  /\ accOngoing' = FALSE /\ accClosed' = TRUE
  /\ upstream' = [p \in Peers |-> IF upstream[p] \in Held THEN "dropped" ELSE upstream[p]]
  /\ accResult' = IF waiting = NoCall THEN accResult ELSE [accResult EXCEPT ![waiting] = e]
  /\ waiting' = NoCall
  /\ UNCHANGED accPending

Ignored == UNCHANGED <<accOngoing, accClosed, waiting, upstream, accPending, accResult>>

CloseInternal ==
  /\ Take("close")
  /\ IF accClosed THEN Ignored ELSE OnError("aborted")

(* on_accept, with do_handshake: the connection is wrapped in a server stream
   (the TLS configuration may be refused: the entry goes as after a failed
   handshake), and the next accept starts beside the handshake *)
OnAccept ==
  /\ Take("on_accept")
  /\ LET p == Head(accStrand).of IN
     \/ accClosed /\ Ignored
     \/ ~accClosed /\ Head(accStrand).err # "ok" /\ OnError("error")
     \/ /\ ~accClosed /\ Head(accStrand).err = "ok"
        /\ \/ DoAccept([upstream EXCEPT ![p] = "handshaking"], FALSE, accPending \cup {p})
           \/ DoAccept([upstream EXCEPT ![p] = "dropped"], FALSE, accPending)
        /\ UNCHANGED <<accClosed, waiting, accResult>>

(* on_handshake: the connection goes to the waiting call, or is kept for the
   next one; a failed one is dropped *)
OnHandshake ==
  /\ Take("on_handshake")
  /\ LET p == Head(accStrand).of IN
     \/ (accClosed \/ upstream[p] \notin Held) /\ Ignored
     \/ /\ ~accClosed /\ upstream[p] \in Held /\ Head(accStrand).err = "ok"
        /\ DoAccept([upstream EXCEPT ![p] = IF waiting # NoCall THEN "given" ELSE "connected"],
                    accOngoing, accPending)
        /\ accResult' = IF waiting = NoCall THEN accResult ELSE [accResult EXCEPT ![waiting] = "ok"]
        /\ waiting' = NoCall
        /\ UNCHANGED accClosed
     \/ /\ ~accClosed /\ upstream[p] \in Held /\ Head(accStrand).err # "ok"
        /\ DoAccept([upstream EXCEPT ![p] = "dropped"], accOngoing, accPending)
        /\ UNCHANGED <<accClosed, waiting, accResult>>

(* The next layer: an accept or a handshake ends; with an error once the
   acceptor has closed the socket. *)
BelowEnds(p) ==
  /\ p \in accPending
  /\ accPending' = accPending \ {p}
  /\ \E e \in {"ok", "error"} :
       /\ upstream[p] = "dropped" => e = "error"
       /\ \E h \in {"on_accept", "on_handshake"} :
            /\ upstream[p] = "accepting" => h = "on_accept"
            /\ upstream[p] = "handshaking" => h = "on_handshake"
            /\ accStrand' = Queue(h, p, e)
  /\ UNCHANGED <<accOngoing, accClosed, waiting, upstream, accResult>>

StrandStep == AcceptInternal \/ CloseInternal \/ OnAccept \/ OnHandshake

Next ==
  \/ \E c \in Calls : AsyncAccept(c)
  \/ Close
  \/ StrandStep
  \/ \E p \in Peers : BelowEnds(p)

(* The executor runs the strand; a peer need not connect or shake hands. *)
Progress == StrandStep

Spec == Init /\ [][Next]_accVars /\ WF_accVars(Progress)

---------------------------------------------------------------------------
(* A call that waits is served: no connection is kept back from it, and either
   an accept is in progress or a handshake is, so that something will complete
   it; when the limit stops do_accept, a handshake is what must restart it. *)
AcceptServed ==
  waiting # NoCall =>
    /\ ~accClosed
    /\ \A p \in Peers : upstream[p] # "connected"
    /\ accOngoing \/ \E p \in Peers : upstream[p] = "handshaking"

(* The acceptor never holds more connections than m_max_ongoing_upstream_ops,
   the ones that wait for a call included. *)
EntriesBounded == MaxOngoing # 0 => Cardinality(Entries(upstream)) <= MaxOngoing

(* The accepts that a closed acceptor has not completed: none stays here. *)
Unended == {c \in Calls : accClosed /\ accResult[c] = "called"}
=============================================================================
