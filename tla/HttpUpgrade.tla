----------------------------- MODULE HttpUpgrade -----------------------------
(***************************************************************************)
(* The HTTP upgrade to the rstrm protocol                                  *)
(* (lib/rstream/io/detail/http/upgrade.hpp): async_handshake_operation on  *)
(* one end, async_accept_operation on the other, with the decorators that  *)
(* may alter a message or throw.  After the switch the client speaks first *)
(* (the test, the example).  A read takes what has arrived, which may be   *)
(* more than the message: the rest goes into m_buffer and is dropped with  *)
(* the operation.                                                          *)
(***************************************************************************)
EXTENDS Naturals, Sequences, FiniteSets

CONSTANTS
  RequestDecorators,    \* each a partial change of the request, or "throws"
  ResponseDecorators,
  MaxData               \* bound: pieces of application data of the client

VARIABLES
  upgrader,    \* the client: [at, outcome, sent, dropped]
  accepter,    \* the server: [at, outcome, response, got, dropped]
  lines,       \* the two directions: [up, down]
  decorators   \* [request, response]

upgradeVars == <<upgrader, accepter, lines, decorators>>

NoMessage == [kind |-> "none", result |-> 0]

Data == [kind |-> "data"]

Init ==
  /\ upgrader = [at |-> "new", outcome |-> "none", sent |-> 0, dropped |-> 0]
  /\ accepter = [at |-> "new", outcome |-> "none", response |-> NoMessage, got |-> 0, dropped |-> 0]
  /\ lines = [up |-> << >>, down |-> << >>, cut |-> FALSE]
  /\ decorators \in [request : RequestDecorators, response : ResponseDecorators]

(* a decorator replaces fields of the message *)
Decorated(message, d) == [f \in DOMAIN message |-> IF f \in DOMAIN d.fields THEN d.fields[f] ELSE message[f]]

is_upgrade_request(r) == r.version >= 11 /\ r.method = "get" /\ r.connection = "upgrade" /\ r.upgrade = "rstrm"

is_upgrade_response(r) == r.version >= 11 /\ r.result = 101 /\ r.connection = "upgrade" /\ r.upgrade = "rstrm"

(* what a read takes: the first message and any part of what follows it *)
Taken(line, n) == Cardinality({i \in 2..n : line[i].kind = "data"})

-----------------------------------------------------------------------------
Request == [kind |-> "request", version |-> 11, method |-> "get", connection |-> "upgrade", upgrade |-> "rstrm"]

(* async_handshake: do_write_request *)
DoWriteRequest ==
  /\ upgrader.at = "new"
  /\ upgrader' = IF decorators.request.throws THEN [upgrader EXCEPT !.at = "done", !.outcome = "error"]
                 ELSE [upgrader EXCEPT !.at = "writing"]
  /\ UNCHANGED <<accepter, lines, decorators>>

OnWriteRequest ==
  /\ upgrader.at = "writing"
  /\ IF lines.cut
     THEN upgrader' = [upgrader EXCEPT !.at = "done", !.outcome = "error"] /\ UNCHANGED lines
     ELSE upgrader' = [upgrader EXCEPT !.at = "reading"] /\ lines' = [lines EXCEPT !.up = Append(@, Decorated(Request, decorators.request))]
  /\ UNCHANGED <<accepter, decorators>>

OnReadResponse ==
  /\ upgrader.at = "reading"
  /\ IF lines.down = << >>
     THEN lines.cut /\ upgrader' = [upgrader EXCEPT !.at = "done", !.outcome = "error"] /\ UNCHANGED lines
     ELSE \E n \in 1..Len(lines.down) :
            /\ upgrader' = [upgrader EXCEPT !.at = "done", !.dropped = Taken(lines.down, n),
                                            !.outcome = IF is_upgrade_response(lines.down[1]) THEN "ok" ELSE "bad_status"]
            /\ lines' = [lines EXCEPT !.down = SubSeq(@, n + 1, Len(@))]
  /\ UNCHANGED <<accepter, decorators>>

-----------------------------------------------------------------------------
(* async_accept: do_read_request, on_read_request and do_write_response *)
DoWriteResponse(request) ==
  LET response ==
        IF is_upgrade_request(request)
        THEN [kind |-> "response", version |-> request.version, result |-> 101, connection |-> "upgrade", upgrade |-> "rstrm"]
        ELSE [kind |-> "response", version |-> request.version, result |-> 502, connection |-> "none", upgrade |-> "none"]
  IN IF decorators.response.throws THEN [accepter EXCEPT !.at = "done", !.outcome = "error"]
     ELSE [accepter EXCEPT !.at = "writing", !.response = Decorated(response, decorators.response)]

OnReadRequest ==
  /\ accepter.at = "new"
  /\ IF lines.up = << >>
     THEN lines.cut /\ accepter' = [accepter EXCEPT !.at = "done", !.outcome = "error"] /\ UNCHANGED lines
     ELSE \E n \in 1..Len(lines.up) :
            /\ accepter' = [DoWriteResponse(lines.up[1]) EXCEPT !.dropped = Taken(lines.up, n)]
            /\ lines' = [lines EXCEPT !.up = SubSeq(@, n + 1, Len(@))]
  /\ UNCHANGED <<upgrader, decorators>>

OnWriteResponse ==
  /\ accepter.at = "writing"
  /\ IF lines.cut
     THEN accepter' = [accepter EXCEPT !.at = "done", !.outcome = "error"] /\ UNCHANGED lines
     ELSE /\ lines' = [lines EXCEPT !.down = Append(@, accepter.response)]
          /\ accepter' = [accepter EXCEPT !.at = "done", !.outcome = IF accepter.response.result = 101 THEN "ok" ELSE "bad_status"]
  /\ UNCHANGED <<upgrader, decorators>>

-----------------------------------------------------------------------------
(* the application: the client sends, the server reads *)
ClientSends ==
  /\ upgrader.outcome = "ok" /\ upgrader.sent < MaxData
  /\ lines' = [lines EXCEPT !.up = Append(@, Data)]
  /\ upgrader' = [upgrader EXCEPT !.sent = @ + 1]
  /\ UNCHANGED <<accepter, decorators>>

ServerReads ==
  /\ accepter.outcome = "ok" /\ lines.up # << >>
  /\ accepter' = [accepter EXCEPT !.got = @ + 1]
  /\ lines' = [lines EXCEPT !.up = Tail(@)]
  /\ UNCHANGED <<upgrader, decorators>>

Cut ==
  /\ ~lines.cut
  /\ lines' = [lines EXCEPT !.cut = TRUE]
  /\ UNCHANGED <<upgrader, accepter, decorators>>

Next == DoWriteRequest \/ OnWriteRequest \/ OnReadResponse \/ OnReadRequest \/ OnWriteResponse \/ ClientSends \/ ServerReads \/ Cut

Spec == Init /\ [][Next]_upgradeVars

-----------------------------------------------------------------------------
(* When the client has switched, the server answered 101 and has not failed; the server
   switches only with such an answer; and no byte of the client is lost in the buffer
   of the accept operation. *)
UpgradeAgreed ==
  /\ upgrader.outcome = "ok" => accepter.outcome \in {"none", "ok"} /\ accepter.response.result = 101
  /\ accepter.outcome = "ok" => accepter.response.result = 101
  /\ accepter.dropped = 0
=============================================================================
