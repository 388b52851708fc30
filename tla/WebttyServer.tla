---------------------------- MODULE WebttyServer ----------------------------
(***************************************************************************)
(* The WebTTY server (bin/webtty/lib/rstream/webtty/server.cpp, class      *)
(* server::impl): it resolves and listens, accepts connections into        *)
(* sessions, and stops them all before it completes.  A session is known   *)
(* by what WebttySession promises of it (RunContract): it may end by       *)
(* itself, and it ends once cancelled, unless it is held by its child.     *)
(***************************************************************************)
EXTENDS Naturals, TLAPS

CONSTANTS SessionIds, StartTimeout

VARIABLES
  srvState,     \* m_state
  srvHandler,   \* the handler of async_run: "idle", "running", "done"
  srvAsked,     \* a cancel took effect
  srvTimer,     \* the start timer
  resolving,    \* the resolver's answer is outstanding
  accepting,    \* the accept: "off", "wait", "accepted" (by the kernel, a thread of the
                \* io_context has yet to assign m_socket), "ready" (the handler is queued)
  target,       \* m_socket, the accept target, is open
  sessions,     \* "free", "running", "asked", "held" (asked, and its child cannot be
                \* killed), "closed" (its handler is queued), "gone"
  cancelCalls   \* the cancel calls not yet run on the strand

srvVars == <<srvState, srvHandler, srvAsked, srvTimer, resolving, accepting, target, sessions,
             cancelCalls>>

Init ==
  /\ srvState = "null" /\ srvHandler = "idle" /\ srvAsked = FALSE /\ srvTimer = FALSE
  /\ resolving = FALSE /\ accepting = "off" /\ target = FALSE
  /\ sessions = [i \in SessionIds |-> "free"]
  /\ cancelCalls = 0

Owned == {i \in SessionIds : sessions[i] \in {"running", "asked", "held", "closed"}}   \* m_sessions

Cancelled == [i \in SessionIds |-> IF sessions[i] = "running" THEN "asked" ELSE sessions[i]]

---------------------------------------------------------------------------
(* on_close: the sessions are asked to stop, or the server stops *)
OnClose(owned, then) ==
  IF owned # {}
  THEN /\ srvState' = "stopping" /\ sessions' = then
       /\ UNCHANGED <<srvHandler, accepting, target>>
  ELSE /\ srvState' = "stopped" /\ srvHandler' = "done" /\ sessions' = then
       /\ accepting' = IF accepting = "wait" THEN "off" ELSE accepting
       /\ target' = FALSE

(* do_close: no more admission, then the sessions *)
DoClose ==
  /\ srvState' = IF Owned = {} THEN "stopped" ELSE "stopping"
  /\ srvHandler' = IF Owned = {} THEN "done" ELSE srvHandler
  /\ accepting' = IF accepting = "wait" THEN "off" ELSE accepting
  /\ target' = FALSE /\ sessions' = Cancelled

---------------------------------------------------------------------------
(* The user. *)

AsyncRun ==
  /\ srvHandler = "idle" /\ srvHandler' = "running"
  /\ UNCHANGED <<srvState, srvAsked, srvTimer, resolving, accepting, target, sessions, cancelCalls>>

Cancel ==
  /\ cancelCalls < 1 /\ srvHandler # "idle" /\ cancelCalls' = cancelCalls + 1
  /\ UNCHANGED <<srvState, srvHandler, srvAsked, srvTimer, resolving, accepting, target, sessions>>

---------------------------------------------------------------------------
(* The strand. *)

(* async_run_internal: a login server without a usable user does not start *)
AsyncRunInternal ==
  /\ srvHandler = "running" /\ srvState = "null"
  /\ \/ /\ srvHandler' = "done"
        /\ UNCHANGED <<srvState, srvTimer, resolving>>
     \/ /\ srvState' = "starting" /\ srvTimer' = StartTimeout /\ resolving' = TRUE
        /\ UNCHANGED srvHandler
  /\ UNCHANGED <<srvAsked, accepting, target, sessions, cancelCalls>>

CancelInternal ==
  /\ cancelCalls = 1 /\ cancelCalls' = 2
  /\ IF srvState = "started" THEN srvAsked' = TRUE /\ DoClose /\ UNCHANGED srvTimer
     ELSE IF srvState = "starting" THEN srvAsked' = TRUE /\ srvTimer' = FALSE /\ OnClose(Owned, sessions)
     ELSE UNCHANGED <<srvState, srvHandler, srvAsked, srvTimer, accepting, target, sessions>>
  /\ UNCHANGED resolving

(* on_do_resolve_host, on_started and the first do_accept *)
OnResolve ==
  /\ resolving /\ resolving' = FALSE
  /\ IF srvState # "starting"
     THEN UNCHANGED <<srvState, srvHandler, srvTimer, accepting, target, sessions>>
     ELSE /\ srvTimer' = FALSE
          /\ \/ OnClose(Owned, sessions)      \* no address, or it cannot be listened to
             \/ /\ srvState' = "started" /\ accepting' = "wait"
                /\ UNCHANGED <<srvHandler, target, sessions>>
  /\ UNCHANGED <<srvAsked, cancelCalls>>

OnStartTimer ==
  /\ srvTimer /\ srvTimer' = FALSE
  /\ OnClose(Owned, sessions)
  /\ UNCHANGED <<srvAsked, resolving, cancelCalls>>

(* The kernel accepts.  A close of the acceptor no longer cancels the accept. *)
KernelAccepts ==
  /\ accepting = "wait" /\ accepting' = "accepted"
  /\ UNCHANGED <<srvState, srvHandler, srvAsked, srvTimer, resolving, target, sessions, cancelCalls>>

(* A thread of the io_context assigns the connection to m_socket, on no strand, and
   queues the handler behind whatever the strand runs: the server may have closed
   m_socket before, and have stopped. *)
AssignSocket ==
  /\ accepting = "accepted" /\ accepting' = "ready" /\ target' = TRUE
  /\ UNCHANGED <<srvState, srvHandler, srvAsked, srvTimer, resolving, sessions, cancelCalls>>

(* Mutant: a connection accepted during the stop becomes a session. *)
MutOnAccept ==
  /\ accepting \in {"ready", "wait"}
  /\ \E i \in SessionIds :
        /\ accepting = "ready" /\ sessions[i] = "free"
        /\ sessions' = [sessions EXCEPT ![i] = "running"]
        /\ target' = FALSE
        /\ accepting' = IF srvState = "started" THEN "wait" ELSE "off"
  /\ UNCHANGED <<srvState, srvHandler, srvAsked, srvTimer, resolving, cancelCalls>>

(* on_accept: a connection accepted after the stop began is closed *)
OnAccept ==
  /\ accepting \in {"ready", "wait"}
  /\ \/ /\ accepting = "ready" /\ srvState # "started"
        /\ accepting' = "off" /\ target' = FALSE
        /\ UNCHANGED <<srvState, srvHandler, sessions>>
     \/ /\ accepting = "wait" /\ srvState = "started"      \* the accept failed
        /\ DoClose
     \/ \E i \in SessionIds :
        /\ accepting = "ready" /\ srvState = "started" /\ sessions[i] = "free"
        /\ sessions' = [sessions EXCEPT ![i] = "running"]
        /\ target' = FALSE /\ accepting' = "wait"
        /\ UNCHANGED <<srvState, srvHandler>>
  /\ UNCHANGED <<srvAsked, srvTimer, resolving, cancelCalls>>

(* The session's child could not be killed (CancelResources of WebttySession). *)
SessionHeld(i) ==
  /\ sessions[i] = "asked"
  /\ sessions' = [sessions EXCEPT ![i] = "held"]
  /\ UNCHANGED <<srvState, srvHandler, srvAsked, srvTimer, resolving, accepting, target, cancelCalls>>

SessionEnds(i) ==
  /\ sessions[i] \in {"running", "asked", "held"}
  /\ sessions' = [sessions EXCEPT ![i] = "closed"]
  /\ UNCHANGED <<srvState, srvHandler, srvAsked, srvTimer, resolving, accepting, target, cancelCalls>>

OnSessionClosed(i) ==
  /\ sessions[i] = "closed"
  /\ LET then == [sessions EXCEPT ![i] = "gone"] IN
     IF srvState = "stopping" /\ Owned = {i} THEN OnClose({}, then)
     ELSE sessions' = then /\ UNCHANGED <<srvState, srvHandler, accepting, target>>
  /\ UNCHANGED <<srvAsked, srvTimer, resolving, cancelCalls>>

Next ==
  \/ AsyncRun \/ Cancel \/ AsyncRunInternal \/ CancelInternal
  \/ OnResolve \/ OnStartTimer \/ KernelAccepts \/ AssignSocket \/ OnAccept
  \/ \E i \in SessionIds : SessionHeld(i) \/ SessionEnds(i) \/ OnSessionClosed(i)

(* Handlers that are queued run, and a session that was cancelled ends or is held. *)
Progress ==
  \/ CancelInternal \/ AssignSocket \/ (accepting = "ready" /\ OnAccept)
  \/ \E i \in SessionIds : (sessions[i] = "asked" /\ SessionEnds(i)) \/ OnSessionClosed(i)

Spec == Init /\ [][Next]_srvVars /\ WF_srvVars(Progress)

---------------------------------------------------------------------------
(* The server completes only when every session it admitted has completed, and
   holds no accepted connection then: one accepted while it stopped, and assigned
   even after it stopped, is closed when the handler of the accept runs. *)
StopIsComplete ==
  srvHandler = "done" => Owned = {} /\ (accepting = "off" => ~target)

---------------------------------------------------------------------------
(* Proofs, for any set of sessions *)

(* What the server keeps true: sessions and the accept exist only from the
   start to the stop, the handler is held exactly from one to the other, and the
   accept target is open only while the handler of its accept is queued. *)
SrvInv ==
  /\ sessions \in [SessionIds -> {"free", "running", "asked", "held", "closed", "gone"}]
  /\ srvHandler \in {"idle", "running", "done"} /\ srvAsked \in BOOLEAN
  /\ srvHandler = "idle" => srvState = "null"
  /\ srvHandler = "running" => srvState # "stopped"
  /\ srvHandler = "done" => srvState \in {"null", "stopped"}
  /\ srvTimer => srvState = "starting"
  /\ accepting = "wait" => srvState = "started"
  /\ target => accepting = "ready"
  /\ srvState \in {"null", "starting"} => accepting = "off"
  /\ srvState \notin {"started", "stopping"} => Owned = {}

LEMMA InitSrvInv == Init => SrvInv
BY Zenon DEF Init, SrvInv, Owned

LEMMA StepSrvInv == SrvInv /\ [Next]_srvVars => SrvInv'
<1> SUFFICES ASSUME SrvInv, [Next]_srvVars PROVE SrvInv'
  OBVIOUS
<1> USE DEF SrvInv, Owned
<1>1. CASE AsyncRun
  BY <1>1 DEF AsyncRun
<1>2. CASE Cancel
  BY <1>2 DEF Cancel
<1>3. CASE AsyncRunInternal
  BY <1>3 DEF AsyncRunInternal
<1>4. CASE CancelInternal
  <2>1. CASE srvState = "started"
    BY <1>4, <2>1 DEF CancelInternal, DoClose, Cancelled
  <2>2. CASE srvState = "starting"
    BY <1>4, <2>2 DEF CancelInternal, OnClose
  <2>3. CASE srvState \notin {"started", "starting"}
    BY <1>4, <2>3 DEF CancelInternal
  <2> QED BY <2>1, <2>2, <2>3
<1>5. CASE OnResolve
  BY <1>5 DEF OnResolve, OnClose
<1>6. CASE OnStartTimer
  BY <1>6 DEF OnStartTimer, OnClose
<1>7. CASE KernelAccepts \/ AssignSocket
  BY <1>7 DEF KernelAccepts, AssignSocket
<1>8. CASE OnAccept
  BY <1>8 DEF OnAccept, DoClose, Cancelled
<1>9. ASSUME NEW i \in SessionIds, SessionHeld(i) \/ SessionEnds(i) PROVE SrvInv'
  BY <1>9 DEF SessionHeld, SessionEnds
<1>10. ASSUME NEW i \in SessionIds, OnSessionClosed(i) PROVE SrvInv'
  BY <1>10 DEF OnSessionClosed, OnClose
<1>11. CASE UNCHANGED srvVars
  BY <1>11 DEF srvVars
<1> QED BY <1>1, <1>2, <1>3, <1>4, <1>5, <1>6, <1>7, <1>8, <1>9, <1>10, <1>11 DEF Next

LEMMA AlwaysSrvInv == Spec => []SrvInv
BY InitSrvInv, StepSrvInv, PTL DEF Spec

(* However many sessions there are, the server reports its end (the handler of
   async_run, on_close of server.cpp) only when all of them are gone and no
   accepted connection is left open. *)
THEOREM ServerStopsComplete == Spec => []StopIsComplete
<1>1. SrvInv => StopIsComplete
  BY DEF SrvInv, StopIsComplete, Owned
<1> QED BY <1>1, AlwaysSrvInv, PTL

Contract == INSTANCE RunContract WITH phase <- srvHandler, asked <- srvAsked,
                                      held <- \E i \in SessionIds : sessions[i] = "held"

(* The server implements the safety part of RunContract for any set of sessions:
   every step of it starts the run, asks it to stop, ends it, or changes nothing
   that the user of async_run and cancel sees. *)
THEOREM ServerKeepsContract == Spec => Contract!Init /\ [][Contract!Next]_(Contract!contractVars)
<1> USE DEF Contract!contractVars, Contract!Next, Contract!Run, Contract!Ask, Contract!Finish
<1>1. Init => Contract!Init
  BY DEF Init, Contract!Init
<1>2. SrvInv /\ [Next]_srvVars => [Contract!Next]_(Contract!contractVars)
  <2> SUFFICES ASSUME SrvInv, [Next]_srvVars PROVE [Contract!Next]_(Contract!contractVars)
    BY Zenon
  <2> USE DEF SrvInv
  <2>1. CASE AsyncRun
    BY <2>1 DEF AsyncRun
  <2>2. CASE AsyncRunInternal
    BY <2>2 DEF AsyncRunInternal
  <2>3. CASE CancelInternal
    BY <2>3, Zenon DEF CancelInternal, DoClose, OnClose
  <2>4. CASE OnResolve
    BY <2>4 DEF OnResolve, OnClose
  <2>5. CASE OnStartTimer
    BY <2>5 DEF OnStartTimer, OnClose
  <2>6. CASE OnAccept
    BY <2>6 DEF OnAccept, DoClose
  <2>7. ASSUME NEW i \in SessionIds, OnSessionClosed(i) PROVE [Contract!Next]_(Contract!contractVars)
    BY <2>7 DEF OnSessionClosed, OnClose
  <2>8. CASE Cancel \/ KernelAccepts \/ AssignSocket \/ UNCHANGED srvVars
    BY <2>8, Zenon DEF Cancel, KernelAccepts, AssignSocket, srvVars
  <2>9. CASE \E i \in SessionIds : SessionHeld(i) \/ SessionEnds(i)
    BY <2>9, Zenon DEF SessionHeld, SessionEnds
  <2> QED BY <2>1, <2>2, <2>3, <2>4, <2>5, <2>6, <2>7, <2>8, <2>9, Zenon DEF Next
<1> QED BY <1>1, <1>2, AlwaysSrvInv, PTL DEF Spec
=============================================================================
