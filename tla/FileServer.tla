----------------------------- MODULE FileServer -----------------------------
(***************************************************************************)
(* The file server of the demo (demo/file-server/lib/rstream/file-server/  *)
(* server.cpp, api.hpp, api.cpp).  An entry of the file system is what its *)
(* path resolves to: its kind, whether that is under the served directory, *)
(* and whether its name starts with two dots.  A request names an entry by *)
(* a text that the server decodes (%XX); a listing writes names as they    *)
(* are.  The server answers GET: the redirection, the listing of a         *)
(* directory, a file.                                                      *)
(***************************************************************************)
EXTENDS HttpServer, FiniteSets

CONSTANTS
  Browsers,      \* the connections that may arrive
  Entries,       \* the entries, [name, kind, inside, dots]
  Decode,        \* percent-decoding: from texts to names, "invalid" for an escape that is none
  MaxRequests    \* bound: the requests of a connection

VARIABLES
  files,         \* server::impl and its sessions
  answer         \* for each session, the last response: [status, entry, links]

fileVars == <<files, answer>>

NoEntry == [name |-> "none"]
NoAnswer == [status |-> "none", entry |-> NoEntry, links |-> {}]

Init ==
  /\ files = NewServer(Browsers)
  /\ answer = [i \in Browsers |-> NoAnswer]

Does(h) == files' = h /\ UNCHANGED answer

AsyncRun == files.state = "null" /\ Does(Running(files))

OnStartTimer == files.timer /\ Does(Stopped(files, "timeout"))

OnResolve == files.resolving /\ \E ok \in BOOLEAN : Does(Resolved(files, ok))

OnAccept ==
  /\ files.accepting
  /\ \E i \in Browsers, ok \in BOOLEAN : files.session[i].state = "absent" /\ Does(Accepted(files, i, ok))

(* cancel_internal and do_close *)
Cancel == files.handler = "running" /\ ~files.asked /\ Does(Cancelled(files))

(* on_session_closed *)
OnSessionClosed(i) == files.session[i].posted /\ Does(SessionForgotten(files, i))

(* async_run_internal and cancel_internal of the session *)
SessionMail(i) ==
  /\ files.session[i].mail # <<>>
  /\ Does([files EXCEPT !.session[i] = AfterMail(@)])

-----------------------------------------------------------------------------
(* The requests *)

Answer(status, entry, links) == [status |-> status, entry |-> entry, links |-> links]

(* The path relative to the directory starts with "..". *)
Refused(e) == ~e.inside \/ e.dots

(* what a listing links to: the files and directories under the served directory,
   after links are resolved, each by its name, which is not encoded *)
Listed == {e.name : e \in {f \in Entries : f.kind \in {"file", "directory", "unreadable", "locked"} /\ ~Refused(f)}}

(* parse_path: the entry that a text names once decoded *)
Parsed(text) == {e \in Entries : e.name = Decode[text] /\ e.kind # "missing"}

(* What parse_path throws, as handle_request answers it: an escape that is none is an
   error of the server, a name of nothing is not found. *)
Thrown(text) == Answer(IF Decode[text] = "invalid" THEN "internal_server_error" ELSE "not_found", NoEntry, {})

(* api_www and api_www_response: the iterator of a directory that cannot be read throws *)
ApiWww(e) ==
  CASE Refused(e) \/ e.kind \notin {"directory", "locked"}        -> Answer("not_found", e, {})
    [] ~Refused(e) /\ e.kind = "locked"                           -> Answer("forbidden", e, {})
    [] ~Refused(e) /\ e.kind = "directory"                        -> Answer("ok", e, Listed)

(* api_get_file: only regular files, and only those that can be opened *)
ApiGetFile(e) ==
  CASE Refused(e)                                                 -> Answer("not_found", e, {})
    [] ~Refused(e) /\ e.kind \in {"directory", "locked", "special"} -> Answer("forbidden", e, {})
    [] ~Refused(e) /\ e.kind = "unreadable"                       -> Answer("forbidden", e, {})
    [] ~Refused(e) /\ e.kind = "file"                             -> Answer("ok", e, {})

(* handle_request: the route, and an exception of its handler as a response; the
   redirection has no length, so that the connection ends with it *)
HandleRequest(route, text) ==
  CASE route = "root"  -> Answer("moved_permanently", NoEntry, {})
    [] route \in {"www", "file"} /\ Parsed(text) = {} -> Thrown(text)
    [] route \in {"www", "file"} /\ Parsed(text) # {} ->
         LET e == CHOOSE e \in Parsed(text) : TRUE IN IF route = "www" THEN ApiWww(e) ELSE ApiGetFile(e)
    [] route = "throw" -> Answer("internal_server_error", NoEntry, {})
    [] route = "none"  -> Answer("bad_request", NoEntry, {})

(* on_read_request, do_process_request and send: the response is written in the same
   step; the state of the session is not looked at *)
OnReadRequest(i) ==
  LET p == files.session[i] IN
  /\ p.io = "read"
  /\ \/ Does([files EXCEPT !.session[i] = Failed(p)])
     \/ /\ p.read < MaxRequests
        /\ \E route \in {"root", "www", "file", "throw", "none"}, keepAlive \in BOOLEAN :
           \E text \in IF route \in {"www", "file"} THEN DOMAIN Decode ELSE {"none"} :
             /\ files' = [files EXCEPT !.session[i] =
                  [p EXCEPT !.io = "write", !.read = @ + 1, !.keepAlive = keepAlive /\ route # "root"]]
             /\ answer' = [answer EXCEPT ![i] = HandleRequest(route, text)]

(* on_write; writing to a socket that was closed fails *)
OnWrite(i) ==
  LET p == files.session[i] IN
  /\ p.io = "write"
  /\ \/ Does([files EXCEPT !.session[i] = Failed(p)])
     \/ p.state = "connected" /\ Does([files EXCEPT !.session[i] = Written(p)])

Next ==
  \/ AsyncRun \/ OnStartTimer \/ OnResolve \/ OnAccept \/ Cancel
  \/ \E i \in Browsers : OnSessionClosed(i) \/ SessionMail(i) \/ OnReadRequest(i) \/ OnWrite(i)

(* Strands run what was posted to them; nothing is assumed of the browsers. *)
Progress == \E i \in Browsers : SessionMail(i) \/ OnSessionClosed(i)

Spec == Init /\ [][Next]_fileVars /\ WF_fileVars(Progress)

-----------------------------------------------------------------------------
(* A server that was asked to stop and completes has no session left. *)
StopIsComplete == StopComplete(files)

(* Every request of a connected session is answered, one after the other. *)
SessionDriven == Driven(files)

(* What is served lies under the served directory, and a link of a listing leads to
   the entry it was made for, which the server then serves or may not read: for the
   names that percent-decoding leaves alone.  The link to another name, "a%20b" or
   "100%", leads to what the name decodes to, or nowhere. *)
LinksWork ==
  \A i \in Browsers :
    /\ answer[i].status = "ok" => answer[i].entry.inside
    /\ \A name \in answer[i].links :
         LET link == HandleRequest(IF \E e \in Entries : e.name = name /\ e.kind \in {"directory", "locked"}
                                   THEN "www" ELSE "file", name) IN
         Decode[name] = name => link.entry.name = name /\ link.status \in {"ok", "forbidden"}
=============================================================================
