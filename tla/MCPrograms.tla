---------------------------- MODULE MCPrograms ----------------------------
(* The programs and their sessions, one at a time: part names the one that runs, *)
(* and s1 to s9 hold the state of its module.                                    *)
EXTENDS Naturals, Sequences, FiniteSets

CONSTANTS
  Setups, MaxMessages, MaxChunks,                  \* WebttySession
  SessionIds,                                      \* WebttyServer
  CliSetups, TermOps, MaxCancels, MaxFrames,       \* WebttyClient
  Peers, MaxOutput, MaxInput, MaxReply,            \* the ncat programs
  MaxTunnels, MaxNews,                             \* TunnelProxy
  NperfSetups, MaxSamples, MaxRounds, UndefinedLoop, TaskSetups, MaxRuns, ServerProtocols,   \* the nperf programs
  Source, Strays,                                  \* Stun
  MaxScrapes, Entries, Decode, MaxRequests,                \* the HTTP servers
  NoOp

VARIABLES part, s1, s2, s3, s4, s5, s6, s7, s8, s9

programVars == <<part, s1, s2, s3, s4, s5, s6, s7, s8, s9>>

WS == INSTANCE WebttySession WITH OpenTimeout <- TRUE, CloseTimeout <- TRUE, Heartbeats <- TRUE,
        ses <- s1, setup <- s2, peer <- s3
WV == INSTANCE WebttyServer WITH StartTimeout <- TRUE, srvState <- s1, srvHandler <- s2, srvAsked <- s3,
        srvTimer <- s4, resolving <- s5, accepting <- s6, target <- s7, sessions <- s8, cancelCalls <- s9
WC == INSTANCE WebttyClient WITH cli <- s1, ops <- s2, cliSetup <- s3, server <- s4
CL == INSTANCE ChildLaunch WITH Sessions <- {"a", "b"}, BackendOf <- [a |-> "tty", b |-> "pipe"],
        UserOf <- [a |-> "user", b |-> "root"],
        streams <- s1, server <- s2, child <- s3, launch <- s4, wrong <- s5
NS == INSTANCE NcatServer WITH ncat <- s1, proxy <- s2
NE == INSTANCE NcatExec WITH exec <- s1, cmd <- s2, halfClose <- s3
NC == INSTANCE NcatClient WITH nc <- s1, link <- s2, interactive <- s3
TP == INSTANCE TunnelProxy WITH Streams <- Peers, px <- s1, relay <- s2, tun <- s3, news <- s4
NP == INSTANCE NperfClient WITH Sessions <- {1, 2}, base <- s1, peer <- s2, setup <- s3
NR == INSTANCE NperfRun WITH task <- s1, taskSetup <- s2, done <- s3
NV == INSTANCE NperfServer WITH Clients <- Peers, srv <- s1, sess <- s2, protocol <- s3
SD == INSTANCE Stun WITH TimeoutSet <- TRUE, server <- s1, client <- s2, net <- s3
ME == INSTANCE MetricsExposer WITH Scrapers <- Peers, Targets <- {"m"},
        Collectables <- [target : {"m"}, name : {"a", "b"}], exposer <- s1, collectables <- s2, scrape <- s3
FS == INSTANCE FileServer WITH Browsers <- Peers, files <- s1, answer <- s2

Unused6 == s6 = 0 /\ s7 = 0 /\ s8 = 0 /\ s9 = 0
Unused5 == s5 = 0 /\ Unused6
Unused4 == s4 = 0 /\ Unused5
Unused3 == s3 = 0 /\ Unused4

Init ==
  \/ part = "webtty_session" /\ WS!Init /\ Unused4
  \/ part = "webtty_server" /\ WV!Init
  \/ part = "webtty_client" /\ WC!Init /\ Unused5
  \/ part = "launch" /\ CL!Init /\ Unused6
  \/ part = "ncat_server" /\ NS!Init /\ Unused3
  \/ part = "ncat_exec" /\ NE!Init /\ Unused4
  \/ part = "ncat_client" /\ NC!Init /\ Unused4
  \/ part = "tunnel" /\ TP!Init /\ Unused5
  \/ part = "nperf_client" /\ NP!Init /\ Unused4
  \/ part = "nperf_run" /\ NR!Init /\ Unused4
  \/ part = "nperf_server" /\ NV!Init /\ Unused4
  \/ part = "stun" /\ SD!Init /\ Unused4
  \/ part = "exposer" /\ ME!Init /\ Unused4
  \/ part = "files" /\ FS!Init /\ Unused3

rest6 == <<s6, s7, s8, s9>>
rest5 == <<s5, rest6>>
rest4 == <<s4, rest5>>
rest3 == <<s3, rest4>>

(* A step of a part, which leaves the variables it does not use alone. *)
In(p, A, rest) == part = p /\ A /\ UNCHANGED <<part, rest>>

(* Bound: the second connection to an HTTP server asks for nothing. *)
RequestBound == s1'.session[2].read = 0

Next ==
  \/ In("webtty_session", WS!Next, rest4)
  \/ In("webtty_server", WV!Next, <<>>)
  \/ In("webtty_client", WC!Next, rest5)
  \/ In("launch", CL!Next, rest6)
  \/ In("ncat_server", NS!Next, rest3)
  \/ In("ncat_exec", NE!Next, rest4)
  \/ In("ncat_client", NC!Next, rest4)
  \/ In("tunnel", TP!Next, rest5)
  \/ In("nperf_client", NP!Next, rest4)
  \/ In("nperf_run", NR!Next, rest4)
  \/ In("nperf_server", NV!Next, rest4)
  \/ In("stun", SD!Next, rest4)
  \/ In("exposer", ME!Next /\ RequestBound, rest4)
  \/ In("files", FS!Next /\ RequestBound, rest3)

(* The fairness of each part, as its module states it: part is fixed, so one *)
(* condition serves all of them.                                             *)
Progress ==
  \/ In("webtty_session", WS!Progress, rest4)
  \/ In("webtty_server", WV!Progress, <<>>)
  \/ In("webtty_client", WC!Progress, rest5)
  \/ In("ncat_server", NS!Progress, rest3)
  \/ In("tunnel", TP!Progress, rest5)
  \/ In("nperf_client", NP!Progress, rest4)
  \/ In("nperf_run", NR!Progress, rest4)
  \/ In("nperf_server", NV!Progress, rest4)
  \/ In("stun", SD!Progress, rest4)
  \/ In("exposer", ME!Progress, rest4)
  \/ In("files", FS!Progress, rest3)

Spec ==
  /\ Init /\ [][Next]_programVars
  /\ WF_programVars(Progress)
  /\ WF_programVars(In("webtty_session", WS!OnHeartbeat, rest4))

-----------------------------------------------------------------------------
(* The instances *)

SomeSetups ==
  {[websocket |-> FALSE, tty |-> FALSE, crypto |-> TRUE, identity |-> FALSE, proof |-> TRUE],
   [websocket |-> TRUE, tty |-> TRUE, crypto |-> TRUE, identity |-> TRUE, proof |-> TRUE],
   [websocket |-> FALSE, tty |-> FALSE, crypto |-> FALSE, identity |-> FALSE, proof |-> FALSE]}

SomeCliSetups ==
  {[websocket |-> TRUE, tty |-> TRUE, interactive |-> TRUE, crypto |-> FALSE, expected |-> FALSE,
    endpoint |-> FALSE, hello |-> FALSE],
   [websocket |-> FALSE, tty |-> FALSE, interactive |-> TRUE, crypto |-> TRUE, expected |-> TRUE,
    endpoint |-> TRUE, hello |-> TRUE],
   [websocket |-> FALSE, tty |-> FALSE, interactive |-> FALSE, crypto |-> TRUE, expected |-> FALSE,
    endpoint |-> TRUE, hello |-> TRUE]}

SomeMeasurements ==
  {[websocket |-> FALSE, kind |-> "ping"], [websocket |-> TRUE, kind |-> "download"],
   [websocket |-> TRUE, kind |-> "upload"]}

SomeTasks == [options : SUBSET {1, 3}, count : 0..2, period : BOOLEAN, retry : BOOLEAN]

(* The server sees the client's address v4-mapped; datagrams of others reach both, *)
(* and an error response without an address and what is no message the client.     *)
ClientAddress == [v6 |-> TRUE, host |-> "a"]
SomeDatagrams ==
  {[to |-> "server", stun |-> FALSE], [to |-> "server", stun |-> TRUE, class |-> "indication", id |-> 2],
   [to |-> "client", stun |-> TRUE, class |-> "success", id |-> 2, address |-> [v6 |-> FALSE, host |-> "b"]],
   [to |-> "client", stun |-> TRUE, class |-> "error", id |-> 1, address |-> [host |-> "none"]],
   [to |-> "client", stun |-> FALSE]}

SomeEntries ==
  {[name |-> k, kind |-> k, inside |-> TRUE, dots |-> FALSE] :
     k \in {"file", "directory", "special", "missing", "unreadable", "locked"}}
  \union {[name |-> "out", kind |-> "file", inside |-> FALSE, dots |-> FALSE],
          [name |-> "dots", kind |-> "file", inside |-> TRUE, dots |-> TRUE],
          [name |-> "a%20b", kind |-> "file", inside |-> TRUE, dots |-> FALSE],
          [name |-> "100%", kind |-> "directory", inside |-> TRUE, dots |-> FALSE]}

SomeDecode ==
  [t \in {e.name : e \in SomeEntries} |-> CASE t = "a%20b" -> "a b" [] t = "100%" -> "invalid" [] OTHER -> t]

-----------------------------------------------------------------------------
(* The handler of the run, and whether the run was asked to stop *)
phase ==
  CASE part \in {"webtty_session", "webtty_client", "ncat_server", "ncat_exec", "ncat_client", "tunnel",
                 "nperf_client", "nperf_run", "nperf_server", "exposer", "files"} -> s1.handler
    [] part = "webtty_server" -> s2
    [] OTHER -> "idle"

asked ==
  CASE part = "webtty_session" -> s1.cancelled
    [] part = "webtty_client" -> s1.asked > 0
    [] part \in {"ncat_server", "ncat_exec", "ncat_client", "tunnel",
                 "nperf_client", "nperf_run", "nperf_server", "exposer", "files"} -> s1.asked
    [] part = "webtty_server" -> s3
    [] OTHER -> FALSE

(* A run that waits for a child it was not allowed to kill *)
held ==
  CASE part = "webtty_session" -> WS!Held
    [] part = "webtty_server" -> \E i \in SessionIds : s8[i] = "held"
    [] OTHER -> FALSE

Contract == INSTANCE RunContract

(* Every part with async_run and cancel implements RunContract: its handler is   *)
(* invoked at most once, and a cancel makes it run, whatever the peers and the   *)
(* children do and whatever the cancel meets: only a WebTTY session whose child  *)
(* runs on because the system refused its kill, and its server, wait for it.     *)
KeepsContract == Contract!Spec

(* A server that was asked to stop and reports it has no session left that still *)
(* uses its connection (on_session_closed, do_close of each server).             *)
StopIsComplete ==
  /\ part = "webtty_server" => WV!StopIsComplete
  /\ part = "ncat_server" => NS!StopIsComplete
  /\ part = "nperf_server" => NV!StopIsComplete
  /\ part = "exposer" => ME!StopIsComplete
  /\ part = "files" => FS!StopIsComplete

(* A run that reports success has passed on all of the output, in the order of   *)
(* the protocol: nothing is cut off by the end of the child, of the input or of  *)
(* the other direction; and the tunnel shown is the current one.                 *)
NothingLost ==
  /\ part = "webtty_session" => WS!CleanMeansDelivered
  /\ part = "ncat_exec" => NE!OutputDelivered
  /\ part = "ncat_client" => NC!NothingDropped
  /\ part = "tunnel" => TP!ForwardedCurrent

(* Whatever ends a run leaves nothing behind: no child runs, no signal goes to a *)
(* process that was reaped, no descriptor is kept or closed twice, no terminal   *)
(* stays in raw mode, no termination goes unanswered.                            *)
ResourcesReleased ==
  /\ part = "webtty_session" => WS!SignalSafe /\ WS!NoProcessLeft
  /\ part = "webtty_client" => WC!NothingLeft
  /\ part = "ncat_exec" => NE!NoChildLeft
  /\ part = "launch" => CL!DescriptorsSound

(* The result reported is what happened: of a measurement and of the loop over   *)
(* measurements, of a termination, of a scrape and of a listing, and of the      *)
(* address a STUN request learns.                                                *)
ResultsSound ==
  /\ part = "nperf_client" => NP!ResultSound
  /\ part = "nperf_run" => NR!CountIsHonoured
  /\ part = "webtty_client" => WC!TerminationSound /\ WC!ClosesOnce
  /\ part = "exposer" => ME!SessionDriven /\ ME!ScrapeComplete
  /\ part = "files" => FS!SessionDriven /\ FS!LinksWork
  /\ part = "stun" => SD!ServerListens /\ SD!LearnsItsAddress /\ SD!RequestOnce

(* What a step may never do: queue a frame behind the close frame of a WebTTY    *)
(* session, or count an execution of which a measurement did not succeed.        *)
StepsSound ==
  [][/\ part = "webtty_session" => WS!CloseIsLast
     /\ part = "nperf_run" => NR!ExecutionsWhole]_programVars

(* What has to end in the part that runs and has not ended *)
Unended ==
  CASE part = "webtty_session" -> WS!Unended
    [] part = "webtty_client" -> WC!Unended
    [] part = "ncat_server" -> NS!Unended
    [] part = "tunnel" -> TP!Unended
    [] part = "nperf_client" -> NP!Unended
    [] part = "nperf_server" -> NV!Unended
    [] part = "stun" -> SD!Unended
    [] OTHER -> {}

(* Every session ends that has to: those of a stopped server, those of the nperf *)
(* server whatever their peers do, a WebTTY session whose peer is gone; every    *)
(* termination is answered, and every STUN request unless an exception (of the   *)
(* socket, or of a datagram that does not parse) ends its program.               *)
SessionsEnd == []<>(Unended = {})

(* A measurement of several sessions of which one cannot connect fails with an   *)
(* error, so that -r can retry it (client.cpp of nperf).                         *)
FailureIsReported == part = "nperf_client" => NP!FailureIsReported
=============================================================================
