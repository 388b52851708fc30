--------------------------- MODULE MetricsExposer ---------------------------
(***************************************************************************)
(* The HTTP server that exposes metrics (lib/rstream/io/detail/metrics/    *)
(* exposer.cpp).  Collecting is asked of the exposer, on its strand, where *)
(* collectables are also added; the session answers when the metrics come  *)
(* back.                                                                   *)
(***************************************************************************)
EXTENDS HttpServer, FiniteSets

CONSTANTS
  Scrapers,        \* the connections that may arrive
  Targets,         \* the paths that are asked for
  Collectables,    \* what may be added, [target, name]
  MaxScrapes       \* bound: the requests of a connection

VARIABLES
  exposer,         \* exposer::impl and its sessions
  collectables,    \* m_collectables
  scrape           \* for each session: its target, what was known when it was read, what was collected

exposerVars == <<exposer, collectables, scrape>>

NoScrape == [target |-> "none", known |-> {}, status |-> "none", collected |-> {}]

Init ==
  /\ exposer = NewServer(Scrapers)
  /\ collectables = [t \in Targets |-> {}]
  /\ scrape = [i \in Scrapers |-> NoScrape]

Does(h) == exposer' = h /\ UNCHANGED <<collectables, scrape>>

(* add_collectable_internal *)
AddCollectable(c) == collectables' = [collectables EXCEPT ![c.target] = @ \union {c.name}] /\ UNCHANGED <<exposer, scrape>>

AsyncRun == exposer.state = "null" /\ Does(Running(exposer))

OnStartTimer == exposer.timer /\ Does(Stopped(exposer, "timeout"))

OnResolve == exposer.resolving /\ \E ok \in BOOLEAN : Does(Resolved(exposer, ok))

OnAccept ==
  /\ exposer.accepting
  /\ \E i \in Scrapers, ok \in BOOLEAN : exposer.session[i].state = "absent" /\ Does(Accepted(exposer, i, ok))

(* cancel_internal and do_close *)
Cancel == exposer.handler = "running" /\ ~exposer.asked /\ Does(Cancelled(exposer))

(* on_session_closed *)
OnSessionClosed(i) == exposer.session[i].posted /\ Does(SessionForgotten(exposer, i))

-----------------------------------------------------------------------------
(* The sessions *)

SessionDoes(i, p) == exposer' = [exposer EXCEPT !.session[i] = p]

(* async_run_internal and cancel_internal of the session *)
SessionMail(i) ==
  /\ exposer.session[i].mail # <<>>
  /\ SessionDoes(i, AfterMail(exposer.session[i]))
  /\ UNCHANGED <<collectables, scrape>>

(* on_read_request and do_process_request: the method decides between the metrics and
   400; the state of the session is not looked at *)
OnReadRequest(i) ==
  LET p == exposer.session[i]
      q == [p EXCEPT !.read = @ + 1] IN
  /\ p.io = "read"
  /\ \/ SessionDoes(i, Failed(p)) /\ UNCHANGED <<collectables, scrape>>
     \/ /\ p.read < MaxScrapes
        /\ \E keepAlive \in BOOLEAN :
             \/ /\ SessionDoes(i, [q EXCEPT !.io = "write", !.keepAlive = keepAlive])
                /\ scrape' = [scrape EXCEPT ![i] = [NoScrape EXCEPT !.status = "bad_request"]]
             \/ \E t \in Targets \union {"unknown"} :
                  /\ SessionDoes(i, [q EXCEPT !.io = "collect", !.keepAlive = keepAlive])
                  /\ scrape' = [scrape EXCEPT ![i] =
                       [NoScrape EXCEPT !.target = t, !.known = IF t \in Targets THEN collectables[t] ELSE {}]]
        /\ UNCHANGED collectables

(* async_collect_internal, on the strand of the exposer *)
AsyncCollect(i) ==
  LET t == scrape[i].target IN
  /\ exposer.session[i].io = "collect"
  /\ SessionDoes(i, [exposer.session[i] EXCEPT !.io = "metrics"])
  /\ scrape' = [scrape EXCEPT
       ![i].status = IF t \in Targets /\ collectables[t] # {} THEN "ok" ELSE "not_found",
       ![i].collected = IF t \in Targets THEN collectables[t] ELSE {}]
  /\ UNCHANGED collectables

(* on_metrics and do_write_response *)
OnMetrics(i) ==
  /\ exposer.session[i].io = "metrics"
  /\ SessionDoes(i, [exposer.session[i] EXCEPT !.io = "write"])
  /\ UNCHANGED <<collectables, scrape>>

(* on_write; writing to a socket that was closed fails *)
OnWrite(i) ==
  LET p == exposer.session[i] IN
  /\ p.io = "write"
  /\ \/ SessionDoes(i, Failed(p))
     \/ p.state = "connected" /\ SessionDoes(i, Written(p))
  /\ UNCHANGED <<collectables, scrape>>

SessionSteps(i) == SessionMail(i) \/ OnReadRequest(i) \/ AsyncCollect(i) \/ OnMetrics(i) \/ OnWrite(i)

Next ==
  \/ AsyncRun \/ OnStartTimer \/ OnResolve \/ OnAccept \/ Cancel
  \/ \E c \in Collectables : AddCollectable(c)
  \/ \E i \in Scrapers : OnSessionClosed(i) \/ SessionSteps(i)

(* Strands run what was posted to them; nothing is assumed of the scrapers. *)
Progress == \E i \in Scrapers : SessionMail(i) \/ OnSessionClosed(i)

Spec == Init /\ [][Next]_exposerVars /\ WF_exposerVars(Progress)

-----------------------------------------------------------------------------
(* An exposer that was asked to stop and completes has no session left. *)
StopIsComplete == StopComplete(exposer)

(* Every request of a connected session is answered, one after the other. *)
SessionDriven == Driven(exposer)

(* A scrape sees everything that was registered for its target before it was
   received, and 404 only where nothing was. *)
ScrapeComplete ==
  \A i \in Scrapers :
    /\ scrape[i].status = "ok" => scrape[i].known \subseteq scrape[i].collected
    /\ scrape[i].status = "not_found" => scrape[i].known = {}
=============================================================================
