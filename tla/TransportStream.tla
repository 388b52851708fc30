--------------------------- MODULE TransportStream ---------------------------
(***************************************************************************)
(* A transport stream (lib/rstream/io/detail/stream): the stream_socket    *)
(* that holds a native handle (stream_socket.cpp), the connection to the   *)
(* first of several endpoints that answers (async_connect.hpp), the plain  *)
(* socket (stream_socket_impl.hpp) and the TLS stream over it, its connect *)
(* and its timed shutdown (stream_socket_ssl.cpp).                         *)
(***************************************************************************)
EXTENDS Naturals

CONSTANTS
  MaxEndpoints,   \* bound on the resolved endpoints
  ShutdownTimer   \* m_async_shutdown_timeout_ms is not 0

Handles == 1..MaxEndpoints + 1
NoHandle == 0

VARIABLES
  endpoints,   \* how many endpoints there are to try
  tls,         \* the endpoints ask for TLS
  handle,      \* m_native_handle
  native,      \* the native sockets, by the handle that owns them
  tries,       \* the connects started on each handle
  loop,        \* the connecting coroutine: [at, index, error]
  attempt,     \* the connect in progress: [handle, phase]
  closing,     \* the close calls of the user
  shutdown     \* the shutdown operation: [phase, timer, result]

streamVars == <<endpoints, tls, handle, native, tries, loop, attempt, closing, shutdown>>

Init ==
  /\ endpoints \in 0..MaxEndpoints /\ tls \in BOOLEAN
  /\ handle = NoHandle
  /\ native = [h \in Handles |-> "new"]
  /\ tries = [h \in Handles |-> 0]
  /\ loop = [at |-> "idle", index |-> 0, error |-> "none"]
  /\ attempt = [of |-> NoHandle, phase |-> "none"]
  /\ closing = 0
  /\ shutdown = [phase |-> "idle", timer |-> "off", result |-> "none"]

CloseNative(h) == [native EXCEPT ![h] = "closed"]

(* close of the stream_socket: the handle is closed and forgotten *)
Dropped == IF handle = NoHandle THEN native ELSE CloseNative(handle)

---------------------------------------------------------------------------
(* The user. *)

AsyncConnect ==
  /\ loop.at = "idle"
  /\ loop' = IF endpoints = 0 THEN [at |-> "done", index |-> 0, error |-> "not_found"]
             ELSE [at |-> "try", index |-> 1, error |-> "none"]
  /\ UNCHANGED <<endpoints, tls, handle, native, tries, attempt, closing, shutdown>>

(* open(): creates the handle ahead of the connect *)
Open ==
  /\ loop.at = "idle" /\ handle = NoHandle /\ endpoints > 0
  /\ handle' = 1
  /\ UNCHANGED <<endpoints, tls, native, tries, loop, attempt, closing, shutdown>>

Close ==
  /\ closing = 0 /\ closing' = 1
  /\ native' = Dropped /\ handle' = NoHandle
  /\ UNCHANGED <<endpoints, tls, tries, loop, attempt, shutdown>>

---------------------------------------------------------------------------
(* The attempt on one endpoint. *)

Ends(error) ==
  /\ attempt' = [of |-> NoHandle, phase |-> "none"]
  /\ loop' = [loop EXCEPT !.at = "resume", !.error = error]

Fresh == CHOOSE h \in Handles : tries[h] = 0 /\ native[h] = "new" /\ h # handle

(* stream_socket::async_connect: without a handle, init makes one; the factory,
   the TLS options or the TLS context may refuse *)
Try ==
  /\ loop.at = "try"
  /\ \/ /\ handle = NoHandle
        /\ loop' = [loop EXCEPT !.at = "resume", !.error = "error"]
        /\ UNCHANGED <<handle, attempt, tries>>
     \/ LET h == IF handle = NoHandle THEN Fresh ELSE handle IN
        /\ handle' = h
        /\ tries' = [tries EXCEPT ![h] = @ + 1]
        /\ attempt' = [of |-> h, phase |-> IF tls THEN "prepare" ELSE "configure"]
        /\ loop' = [loop EXCEPT !.at = "wait"]
  /\ UNCHANGED <<endpoints, tls, native, closing, shutdown>>

(* async_connect_operation::do_connect: the SNI, the expected identity and the
   ALPN protocols are set before the transport connects *)
Prepare ==
  /\ attempt.phase = "prepare"
  /\ \/ Ends("error")
     \/ attempt' = [attempt EXCEPT !.phase = "configure"] /\ UNCHANGED loop
  /\ UNCHANGED <<endpoints, tls, handle, native, tries, closing, shutdown>>

(* stream_socket_impl::async_connect_internal, before the system call; a
   native socket that was closed is opened again *)
Configure ==
  /\ attempt.phase = "configure"
  /\ \/ Ends("error") /\ UNCHANGED native
     \/ /\ attempt' = [attempt EXCEPT !.phase = "connecting"]
        /\ native' = [native EXCEPT ![attempt.of] = "connecting"]
        /\ UNCHANGED loop
  /\ UNCHANGED <<endpoints, tls, handle, tries, closing, shutdown>>

(* The native connect ends: aborted if the socket was closed meanwhile.  A
   connected socket that cannot be configured is closed. *)
Connected ==
  /\ attempt.phase = "connecting"
  /\ LET h == attempt.of IN
     \/ native[h] = "closed" /\ Ends("aborted") /\ UNCHANGED native
     \/ native[h] = "connecting" /\ Ends("error") /\ UNCHANGED native
     \/ native[h] = "connecting" /\ Ends("error") /\ native' = CloseNative(h)
     \/ /\ native[h] = "connecting"
        /\ native' = [native EXCEPT ![h] = "connected"]
        /\ IF tls THEN attempt' = [attempt EXCEPT !.phase = "handshaking"] /\ UNCHANGED loop
           ELSE Ends("none")
  /\ UNCHANGED <<endpoints, tls, handle, tries, closing, shutdown>>

(* on_handshake: a failure closes the transport.  A handshake on a closed
   socket fails, with aborted or with the error of its next read or write. *)
Handshake ==
  /\ attempt.phase = "handshaking"
  /\ LET h == attempt.of IN
     \/ /\ \E e \in {"error", "aborted"} : Ends(e) /\ (e = "aborted" => native[h] = "closed")
        /\ native' = CloseNative(h)
     \/ native[h] = "connected" /\ Ends("none") /\ native' = [native EXCEPT ![h] = "secured"]
  /\ UNCHANGED <<endpoints, tls, handle, tries, closing, shutdown>>

(* The coroutine goes on: it stops at a success or an abort, else closes the
   socket and takes the next endpoint. *)
Resume ==
  /\ loop.at = "resume"
  /\ IF loop.error \in {"none", "aborted"}
     THEN loop' = [loop EXCEPT !.at = "done"] /\ UNCHANGED <<handle, native>>
     ELSE /\ native' = Dropped /\ handle' = NoHandle
          /\ loop' = IF loop.index = endpoints THEN [loop EXCEPT !.at = "done"]
                     ELSE [at |-> "try", index |-> loop.index + 1, error |-> "none"]
  /\ UNCHANGED <<endpoints, tls, tries, attempt, closing, shutdown>>

---------------------------------------------------------------------------
(* The shutdown of a TLS stream: async_shutdown_operation. *)

AsyncShutdown ==
  /\ shutdown.phase = "idle" /\ handle # NoHandle /\ native[handle] = "secured"
  /\ shutdown' = [phase |-> "running", timer |-> IF ShutdownTimer THEN "armed" ELSE "off",
                  result |-> "none"]
  /\ UNCHANGED <<endpoints, tls, handle, native, tries, loop, attempt, closing>>

(* on_timer_cb: ignored once complete, else the transport is closed *)
OnTimer ==
  /\ shutdown.timer = "armed"
  /\ IF shutdown.phase = "done"
     THEN shutdown' = [shutdown EXCEPT !.timer = "fired"] /\ UNCHANGED native
     ELSE /\ shutdown' = [phase |-> "done", timer |-> "fired", result |-> "aborted"]
          /\ native' = Dropped
  /\ UNCHANGED <<endpoints, tls, handle, tries, loop, attempt, closing>>

(* on_shutdown: the peer answered, or the transport failed *)
OnShutdown ==
  /\ shutdown.phase = "running"
  /\ \E r \in {"ok", "error"} :
       shutdown' = [phase |-> "done", timer |-> "cancelled", result |-> r]
  /\ UNCHANGED <<endpoints, tls, handle, native, tries, loop, attempt, closing>>

AttemptStep == Try \/ Prepare \/ Configure \/ Connected \/ Handshake \/ Resume

Next ==
  \/ AsyncConnect \/ Open \/ Close
  \/ AttemptStep
  \/ AsyncShutdown \/ OnTimer \/ OnShutdown

(* Timers expire; the peer's part of a connect or a shutdown need not happen. *)
Progress == OnTimer

Spec == Init /\ [][Next]_streamVars /\ WF_streamVars(Progress)

---------------------------------------------------------------------------
(* Every endpoint is tried on a native socket of its own: neither a half-open
   socket nor the TLS state of a failed handshake is used again. *)
AttemptFresh == \A h \in Handles : tries[h] <= 1

(* A connect leaves no connection it does not report: a socket that is
   connected is the one of the stream or of the attempt in progress, and a
   connect that failed leaves none.  Only a close in the middle of an attempt
   lets the attempt's socket go on without the stream. *)
NoConnectionLeft ==
  (loop.at = "done" /\ loop.error # "none") =>
    \A h \in Handles : native[h] \notin {"connected", "secured"}

(* The shutdown that is running, if it has a timer: it completes although the
   peer never answers. *)
Unended == IF ShutdownTimer /\ shutdown.phase = "running" THEN {"shutdown"} ELSE {}
=============================================================================
