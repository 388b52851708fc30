# rstream-cpp: specifications, model checking and proofs

rstream-cpp connects programs through an *engine*: a client keeps a control
channel open to it, asks it for tunnels, and serves each connection that arrives
at a tunnel by dialling back to the engine. Around this library there are tools
(WebTTY, ncat, a tunnel proxy, nperf) and demos. Everything is Boost.Asio code on
strands, with cancellation slots, and is meant to run on an `io_context` driven by
several threads (the tools default to one thread per core). This directory
specifies the library, the tools and the demos in TLA+, checks them with TLC on
small instances, and proves the central invariants with TLAPS for instances of any
size.

Paths below are relative to the repository; `queue.hpp` is
`lib/rstream/io/queue.hpp`; `client.cpp`, `acceptor.cpp` and `socket.cpp` without
a directory are in `lib/rstream/io-rstrm/`.

## The system and its parts

The library, bottom up:

| Part | What makes it hard | Module |
|---|---|---|
| Plain and TLS streams, `io/detail/stream/stream_socket*.cpp`, `async_connect.hpp` | several endpoints tried in turn while the stream may be closed; a shutdown that waits for a silent peer | `TransportStream` |
| TLS context, `stream_socket_ssl.cpp`, `ssl.cpp` | options, providers and engines that each may fail half way | `TlsContext` |
| TLS acceptor, `acceptor_ssl.cpp` | accepts and handshakes ahead of the calls, a limit | `TlsAcceptor` |
| HTTP upgrade, `io/detail/http/upgrade.hpp` | user decorators; a read that takes more than the message | `HttpUpgrade` |
| Framing, `io/payloader.hpp` | pieces of any size, size limit, a cut connection | `Payloader` |
| Send queue, `queue.hpp` | a cancellation marks a task in one thread and acts on the strand later; a write that never ends | `SendQueue` |
| Stream socket, `socket.cpp`, `detail/handshake.hpp` | close during a connect, with a deferred completion | `StreamSocket` |
| Client, `client.cpp` | four ways to end a session racing each other; completions of an earlier session | `Client` |
| Acceptor, `acceptor.cpp` | no generations; completions and callbacks reach the strand by different routes | `Acceptor` |
| Configuration, `io-rstrm.cpp`, `endpoint.cpp` | three sources of address and credential, a file that is edited between reads | `RstreamConfig` |
| Tunnel properties, `io-rstrm.cpp`, `detail/convert.cpp` | order and repetition of URL parameters; optional members | `TunnelProperties` |
| Buffers, `core/buffer.cpp`, `core/memory.cpp` | windows on shared memories | `Buffer` |
| Plugins, `core/detail/plugin/factory.cpp` | a cache shared by threads and unlocked while a library loads | `PluginFactory` |
| Metrics, `core/detail/metrics/` | compressed samples in a rotating window | `Quantiles` |
| Metrics exposer, `io/detail/metrics/exposer.cpp` | sessions and collection on different strands, stop | `MetricsExposer`, `HttpServer` |
| Blocking handle, `core/windows/` | a blocking system call cancelled from another thread | `BlockingHandle` |

The tools and demos:

| Part | What makes it hard | Module |
|---|---|---|
| WebTTY server and its sessions, `bin/webtty/lib/.../server.cpp`, `detail/process.cpp` | child exit, output, input, peer, timers and cancel in any order | `WebttyServer`, `WebttySession` |
| WebTTY client, `client.cpp` | terminations with timeout and slot, two kinds of close | `WebttyClient` |
| WebTTY proofs and encryption, `auth_proof.cpp`, `payload_crypto.cpp` | transcripts, dates, recipients | `WebttyAuth`, `WebttyPayload` |
| WebTTY child and standard streams, `stream.cpp`, `process.hpp`, `fifo_reader.hpp` | fork with descriptors of other sessions; threads on blocking calls | `ChildLaunch`, `PtyStream`, `FifoReader` |
| ncat, `bin/ncat/lib` | relays, half close, a child's three streams | `NcatServer`, `Relay`, `NcatExec`, `NcatClient` |
| Tunnel proxy, `bin/tunnel/lib` | relays; status callbacks from another strand | `TunnelProxy`, `Relay` |
| nperf, `bin/nperf/lib` | several sessions closing together, retries | `NperfClient`, `NperfRun`, `NperfServer` |
| STUN demo, `demo/stun` | datagrams lost, repeated, late; message layout | `Stun`, `StunMessage` |
| File server demo, `demo/file-server` | sessions against stop; links of a listing | `FileServer`, `HttpServer` |

PROJECT.json ("components") lists every part with its status, "map" gives the
lines each definition stands for.

**How they fit together.** An acceptor owns a client, a client writes through a
send queue, and each accepted stream is a stream socket dialled by the client over
a transport stream. A module sees the part below it through what that part's own
module establishes:

* `Client` takes its queue as "sends complete, and `async_cancel` answers once
  they have": `CancelBarrier` and `CancelCompletes` of `SendQueue`. A dial is one
  operation that succeeds, fails, or is cancelled, which is what `StreamSocket`
  gives (`SocketOwned`, and `CloseCompletes` for its cancellations).
* `Acceptor` takes its client as "each operation completes once; the end of a
  session fails what is pending and then reports the disconnection once":
  `CompletedOnce`, `NoOrphan`, `DisconnectOnce`, `SessionEnds` of `Client`.
* `StreamSocket` takes the transport as a connect that completes or is aborted,
  and `Payloader` uses the queue's one send at a time.
* Servers know their sessions, and `NperfRun` its measurements, through
  `RunContract`, the abstract specification of everything that has `async_run` and
  `cancel`: the handler is invoked at most once, and a cancel makes it run, unless
  the run is held up by a child that the system does not let it kill (`held`).
  Eleven detailed modules are shown to implement it (`KeepsContract`, with the
  handler as `phase` and the cancellation as `asked`), among them the sessions
  that the servers rely on.
* `TunnelProxy` sees `Acceptor` through its callbacks.

## Modules and how they follow the code

One action is one handler with everything it calls; a call from another thread is
split where the code dispatches. What runs on a strand is either taken from a
queue in order (`strand`, a session's `mail`) or, where completions come from
outside, from a set in any order.

**SendQueue.** A call is dispatched to the strand: it runs at once if the caller
is on the strand and is queued otherwise (`Dispatch`), and `StrandStep` runs what
is queued, in order. `cancelled` and `completed` are the atomics `m_cancelled` and
`m_completed`; `EmitSlot` sets the first in the caller's thread and dispatches
`on_task_cancel`. `process()` is two steps: it looks at the flags and makes the
task current, then `StartWrite` hands it to the transport, so that a slot emitted
in another thread can come between the two; the strand is taken until then
(`StrandFree`). The transport is external (`wire`): it writes one buffer, may be
asked to abort, and posts its completion. `process_next()` is part of `on_send`,
as in the code. `entered`, `started` and `barrier` are history variables.

**Client.** API calls are split in two where the code is: the part in the caller's
thread (`async_connect` with the reservation under `m_mutex`) and the part on the
strand (`async_connect_internal`). The slot (`EmitSlot`) sets `m_cancelled` and
dispatches the matching cancel handler, which may run before or after that second
part. `asyncOps` holds the asynchronous operations of the session with the
generation they were started in, and `dials` those of the streams; a completion is
taken from it in any order. `on_close` is the code's `on_close()`: remember the
previous state and cause, advance the generation, cancel the queue; the session
ends in `on_queue_cancelled`. Messages are reduced to the handler they reach, with
every refusal the code makes.

**Acceptor.** What is dispatched to the strand (accept, cancel, close, the
disconnection callback) runs in order from `strand`. What completes through
`invoke_completion_handler()` or a timer crosses the executor first and waits in
`inbox`. With several threads the entries of `inbox` are taken in any order and
`strand` may run ahead of them; with one (`oneThread`) they are taken in order.
The clients are abstract (last section of the module).

**StreamSocket** has the reservation (`nonNull`), the connect operation with its
three steps and the transfers; `OnClose` defers the completion of a connect whose
step is under way, as the code does. **TransportStream** follows one native handle
per attempt, since the code replaces the handle on close. **TlsAcceptor** keeps
each peer's stage. **BlockingHandle**, **PtyStream** and **FifoReader** have one
program counter per thread; a section under a mutex is a step, and
`CancelSynchronousIo` and `select` may miss what the systems may miss.
**Payloader** and **HttpUpgrade** keep the bytes on the wire as records that name
their message, so that a byte taken from the wrong place shows. `Payloader`
refuses, on both sides, what is larger than the limit of that side.

**WebttySession, WebttyClient, NperfClient** and the relays write a method of the
code as an operator from the state record to its successor, so that a handler is
the composition of the methods it calls, in the order in which it calls them.

**RstreamConfig, TunnelProperties, TlsContext, WebttyPayload, WebttyAuth,
StunMessage, Quantiles, Buffer, PluginFactory** follow the functions of the code;
a text is a name or the sequence of its parts. `RstreamConfig` has every way in
which an engine is chosen (an argument such as `--engine`, the `server` of a URL,
the environment, the default file, a file the caller names), `WebttyPayload`
payload keys that are fresh or configured. Cryptography is symbolic: a digest is
what it was computed from. The transcripts of WebTTY's proofs and the layout of
STUN messages are kept byte by byte, since the properties are about them; the
server and the client of the STUN demo see messages as records (`Stun`).

**FileServer** keeps a name and what percent-decoding makes of it apart
(`Decode`), because a listing writes names as they are and the server decodes what
is asked for. **WebttyServer** splits an accept in three: the kernel accepts, a
thread of the `io_context` assigns the connection to `m_socket` outside the strand
(`AssignSocket`), and the handler runs on the strand; a close of `m_socket` may
fall between any two. **BlockingHandle** lets a handle be opened again while a
close is under way, which makes the process end (`std::terminate`, for the thread
is still joinable); the properties are about the process that is alive, and the
two users of the class open a handle once.

`SendQueue`, `Client` and `Acceptor` choose their instances in their last section
("for TLC"); the settings of a client or an acceptor are a variable that never
changes (`config`, `settings`), so that one run has several. `MCTransport`,
`MCPrograms` and `MCAlgorithms` run one part at a time (`part`); in the last two
the parts share the variables `s1` to `s9`, each part's module being instantiated
over as many as it has. Operators whose comment says *mutant* or *faulty* are
broken variants of the definition that follows them; none is used by a
specification. Each property has one that violates it.

## What the runs check

| Run | Instance | Distinct states | Shows |
|---|---|---|---|
| send_queue | 3 tasks, 2 `async_cancel` | 384,348 | `CompletedOnce`, `OrderedWrites`, `CancelBarrier`, `NothingWaitsForIdle`, `CancelReachesWrite` |
| send_queue_live | 2 tasks, 1 `async_cancel`, 1 `cancel`, fair | 40,040 | `CancelCompletes`, `SignalledCompletes` |
| client_session | two sessions; one with heartbeats; one with a tunnel and an accept; fair | 100,298 | `ReservationSound`, `SessionDriven`, `DisconnectOnce`, `CleanOnlyIfClosed`, `SessionEnds`, `CancelCompletes` |
| client_streams | 2 streams: dialled ahead, dialled for an accept, and over two sessions with limit 1 | 799,978 | `CompletedOnce`, `NoOrphan`, `AbandonedTunnelClosed`, `NoStreamStuck`, `StreamsAccounted` |
| client_delayed | synchronous mode | | `DelayedUntilAccept` is **violated** |
| acceptor | 2 accepts, 2 clients, 1 tunnel, all four settings, several threads | 1,950,637 | `CompletedOnce`, `NoLostAccept`, `StartSound`, `AcceptDriven` |
| acceptor_live | 1 accept, 1 client, 2 tunnels; full recovery or none; one thread or several; fair | 213,050 | `CancelCompletes`; with one thread `TunnelCurrent`, `CloseAbortsInOrder` |
| acceptor_close | 1 accept, 1 client, 1 tunnel; several threads; fair | | `CloseAborts` is **violated** |
| transport | 8 parts: socket, streams, TLS acceptor, three kinds of blocking I/O, framing, upgrade; fair | 302,767 | `ConnectionsSound`, `ThreadsSafe`, `MessagesIntact`, `CloseCompletes` |
| programs | 14 parts: WebTTY server, session, client and child start, ncat (3), tunnel proxy, nperf (3), STUN, exposer, file server; fair | 310,239 | `KeepsContract`, `StopIsComplete`, `NothingLost`, `ResourcesReleased`, `ResultsSound`, `SessionsEnd`, `StepsSound` |
| algorithms | 9 parts: configuration, TLS context, payload encryption, proofs, STUN messages, tunnel properties, metrics, buffers, plugins | 719,391 | `MessagesRoundTrip`, `CredentialsSound`, `MetricsExact`, `SharingSound` |
| nperf_retry | as programs, with both outcomes of the undefined loop | | `FailureIsReported` is **violated** |

What some of them leave to the others: `OrderedWrites` is about the order of the
writes and that none is repeated; that one is under way at a time is `WireInv` of
the proofs. `CancelReachesWrite` says that a cancellation emitted while a write is
being started is waiting for the strand until the write is aborted; the code does
not promise that a cancelled task is never written. In client_streams the engine
asks for a stream identifier once (`MaxRequests`); that `StreamsAccounted` holds
when it asks again is the theorem `StreamsAreAccounted`. It bounds the number of
streams from above; a place that is lost would make the client refuse streams,
which no property forbids. `CompletedOnce` of the acceptor says nothing of the
session that a late disconnection callback tears down (`acceptor.cpp:495`).

A property of the last four modules is the conjunction of the properties of its
parts, stated and explained in their modules:

* `ConnectionsSound`: a step of a connect belongs to the one connect operation and
  no reservation is left behind (`SocketOwned`, `NoStuckReservation`); each
  endpoint gets a native socket of its own and a failed connect leaves no
  connection (`AttemptFresh`, `NoConnectionLeft`); a waiting TLS accept has
  something under way that will serve it, within the limit (`AcceptServed`,
  `EntriesBounded`).
* `ThreadsSafe`: an operation completes once, no thread is in a call on a closed
  handle, and after close neither thread nor operation is left, as long as no
  handle is opened again during a close (see BlockingHandle above).
* `MessagesIntact`: what arrives is what was sent, whole and in order
  (`FramesIntact`), unless it is larger than the sender or the receiver allows,
  which is refused and not cut; both ends agree on the upgrade and no byte is lost
  in it (`UpgradeAgreed`).
* `CloseCompletes`, `SessionsEnd`: what has been asked to end does end (`Unended`
  of the part is empty again and again). A WebTTY session whose child cannot be
  killed waits for the child; a STUN client that a handler's exception ended has
  nothing left to end.
* `StopIsComplete`: a server that was asked to stop and reports it has no session
  left. WebTTY's server has no accepted connection open either; in the others one
  that is accepted during the stop stays in `m_socket` until the object is gone.
* `NothingLost`: success means that all output has been passed on: of a WebTTY
  child, followed by the close frame; of a command run by ncat; of ncat's
  connection; and the address a tunnel proxy shows belongs to the current tunnel.
* `ResourcesReleased`: no child runs and no signal goes to a reaped one, no
  descriptor leaks into another child or is closed twice, no terminal stays raw.
* `ResultsSound`: a measurement succeeds with a sample of each session; the loop
  over measurements ends as its options say; a termination reported as done was
  written; a scrape has all that was registered; what is served lies under the
  served directory, and the links of a listing lead to their entries, for the
  names that percent-decoding leaves alone; a STUN request that is answered learns
  its own address, or fails when the response has none.
* `MessagesRoundTrip`: STUN messages and tunnel properties are read as written,
  damage is seen, no URL leads to a contradictory request. Two STUN attributes are
  refused by their own parser: ERROR-CODE, whose two bytes of padding are not
  written, and UNKNOWN-ATTRIBUTES with an odd number of types. A message that ends
  with a fingerprint, as the demo's do, is written within its size (`WithinSize`).
* `CredentialsSound`: a token or a certificate but not both; a token of a file
  goes to the engine the file configures for it, when engine and token come from
  the same file; the server of a URL gets the token of the URL or none; a
  verification that verifies; an envelope for its recipients, and a payload that
  opens in its own session and stream, or where the same payload key is
  configured; an honest client accepted and a transcript for each session's
  settings.
* `MetricsExact`: counts are exact, a summary answers with values of its window,
  of which it keeps the largest whatever it merges. `SharingSound`: resizing keeps
  the bytes, windows stay inside their memory; all plugins of a library share the
  one that is loaded.

The runs do not check for deadlock: when the calls of an instance have been made
and answered the system rightly stops.

**Bounds.** Every call is made once or a named number of times (`Max...`), so the
sets of calls bound the behaviours; two calls of a kind are the least that can
disturb one another, and the third task of the queue lets one be cancelled in the
middle of it. Two connects give two sessions, so that completions of the first
meet the second. `MaxInbox` keeps a session of `Acceptor` from opening while that
many completions are on their way, and `StartBound` starts an acceptor that
recreates tunnels once. `asyncOps` is a set, so two sends of one generation count
as one; the code treats their completions alike. In `Client` a behaviour is
bounded by its configuration (`SessionsNext`, `StreamsNext`): the calls of the
kind it is about are the ones it has several of. In `MCTransport` a socket sees
two of its three calls (`SocketBound`): the third adds no pair that two do not
have. In `MCPrograms` the second HTTP connection is idle (`RequestBound`), which
is enough to be in the way of a stop. The inputs of `MCAlgorithms` are listed
there: every attribute and padding of STUN, every way to name an engine, every
section of a configuration file with an edit between reads, every pair of URL
parameters, dates around a year's end, a leap day and a century. Symmetry is used
for safety runs only.

**Fairness.** Handlers on a strand run (`io_context::run()`), armed timers expire,
and a transport that is asked to abort answers; a thread that has been woken runs.
`CancelSynchronousIo` is retried every ten milliseconds, so that it is strongly
fair against a call that is entered again and again (`BH!Interrupts`). Nothing is
assumed of the engine, a name resolution, a connection attempt, a peer, a child or
an open session: the client's liveness rests on `arm_state_timer()` alone, which
the model arms because `connection_timeout` is 30 s unless configured, and the
programs' on their timers, which are set by default (with zero the code arms no
timer and these properties are not promised). For the acceptor, a client that is
connecting or closing is fair because `Client` is (client_session); the sessions
of a server end once cancelled because their modules keep `RunContract`. Since
`part` never changes, one weak fairness condition (`Progress`) serves all parts;
status callbacks of the tunnel proxy are left out of it, so that they cannot stand
in for the other handlers.

## What the checks found

* **acceptor_close.** The disconnection callback is dispatched to the acceptor's
  strand, the completion of `async_connect` is posted to the executor first
  (`core/completion_handler.hpp:152`). With several threads a session that opens
  and ends at once can report its end before its start: `on_client_disconnection`
  ignores it in state connecting (`acceptor.cpp:767`), `on_connect` then makes the
  acceptor connected over a client without a session. A `close()` there calls
  `m_client->close()`, which does nothing, `m_closing` stays set, which also
  disables the timer, and the pending accept never completes. The engineering
  notes ask every operation to complete exactly once
  (`docs/001-sdk-engineering.md:92`). With one thread the property holds
  (`CloseAbortsInOrder`). A generation passed with the callback and the
  completions, as `client.cpp` has it, would close the gap.
* **client_delayed.** In synchronous mode a stream that arrives while the accept
  operation is busy is "delayed until an accept operation is available"
  (`client.cpp:1389`). When the dial that kept it busy fails, the operation is
  available again and nobody dials the delayed streams.
* **nperf_retry.** `base::do_close` of nperf's client walks over `m_sessions` and
  marks each open session closed
  (`bin/nperf/lib/cpp/rstream/nperf/client.cpp:1005`); with the last one
  `set_session_state` calls `on_close`, which clears the map under the loop. A
  measurement of several sessions of which one cannot connect gets there, and the
  retry that `-r` promises may not happen. The passing run takes the benign
  outcome of the undefined behaviour.

Other observations are recorded in PROJECT.json as hazards with a note, because
nothing in the repository promises otherwise. The main ones: in synchronous mode a
cancelled busy accept followed by another dials the same stream twice
(`client.cpp:1011`); `async_accept()` in state idle leaves the reconnection timer
armed, which later creates a second tunnel (`acceptor.cpp:431`); a late
disconnection callback of a closed client disturbs a restarted acceptor
(`acceptor.cpp:495`); a TLS acceptor's handshakes have no timeout
(`acceptor_ssl.cpp:297`); the client reads its configuration file three times
(`client.cpp:580`); the relays of ncat and the tunnel proxy close both directions
at the first end; an engine named by an argument or by the environment, and the
default file's engine for a caller that names another file, are given the token
that the file selects (`io-rstrm.cpp:1447`, `endpoint.cpp:77`); a kill that the
system refuses is logged and not repeated (`bin/webtty/.../server.cpp:1490`); a
datagram that is no STUN message ends the STUN client with a fatal error
(`demo/stun/bin/client/client.cpp:94`); no bound of the form e * n holds for the
rank of a quantile, because the error that is allowed counts samples and not the
observations they stand for (`quantile.cpp:180`). Found on the way and without a
hazard of their own: a listing's links are not encoded, so that the link to a name
such as `100%` or `a%20b` leads elsewhere or nowhere; padding a STUN attribute
writes one zero byte past it, which is past the message when the last attribute is
padded (`message.cpp:574`).

## What is proved

The theorems hold for sets of calls, clients, tunnels, streams and sessions of any
size and for every configuration. The only assumptions are that the sets of calls
are disjoint, that the null values are not among them, that the settings have
their types and, for the acceptor, that sets of tunnels can be counted
(`CallsDistinct`, `ClientAssumption`, `AcceptorAssumption`, which TLC evaluates on
the runs of these modules, and the hypothesis `OpsDistinct`).

**SendQueueProofs.** `TypeCorrect`: types, and `WireInv` — a task is active
exactly while the transport is not idle, and at most one completion of it is on
the strand, only once the transport is done. Without it `on_send` could meet no
active task. `HandlersCompleteOnce`, `CancelIsBarrier` and `NoLostWakeup` follow
from the inductive `CancelInv == QueueInv /\ PendingInv`. `QueueInv`: a send
handler has been called exactly if its task is completed; an accepted task is
completed, queued or active; the barrier of a waiting `async_cancel` handler
consists of completed tasks and the active one, since the flush completes all the
others, so completing the active one, which comes before the handlers are woken,
completes the barrier. `PendingInv`: an `async_cancel` call is on the strand at
most once and has not been answered before it runs, so its handler is not called
twice. `WritesKeepOrder` needs what `OrderedWrites` does not say: what waits is in
the order of acceptance too and comes after all that was written (`LineInv`), and
a task enters once, because its send item is unique and precedes its acceptance
(`SendsInv`). `CancellationReachesWrite` is inductive only together with
`ActiveInv`, that the current task has been taken and has not completed: the
`on_task_cancel()` that waits for the strand does not return early for it.

**ClientProofs.** `ReservationIsSound` and `NoOperationLost` rest on `OwnInv ==
ConnectInv /\ TunnelInv`. `ConnectInv` says where each connect call is: reserved
and outstanding, the session's `m_connect_op`, or completed; the session is in
state null exactly if nobody holds it. `ReservationSound` alone is not inductive,
since it does not say that a call that has run belongs to the session. `TunnelInv`
says that create calls that have run are registered and accept calls are the
accept operation of an existing tunnel. Most handlers only move the session on
(`MovesOn`), and one lemma covers them all. `ClientCompletesOnce` is inductive as
it stands, because everything completes through `Complete`. `SessionsReportedOnce`
counts opened sessions against reported ends (`ReportInv`). `SessionIsDriven`
(every session has something in flight that leads it on, of its own generation)
follows handler by handler from what the handler starts; the invariant adds the
types of what is in flight (`FlightInv`), since a completion of generation g + 1
must not exist yet in generation g. `AbandonedIsClosed`: a tunnel whose creation
was cancelled is closed at the engine. Inductive with `WaitingInv` (only a
cancelled creation is completed while it is registered) and `AbandonInv` (every
tunnel knows the completed creation it comes from). `CleanIfClosed` is an action
property: a session is reported as clean only if the application called close();
`CleanInv` follows the cause through `on_close()` and the queue's cancellation.

**ClientStreamProofs.** `NoStreamIsStuck` and `StreamsAreAccounted`, for both
stream modes and every limit. The steps are first reduced to what they do to the
streams (`StreamStep`: quiet, a new session, tunnels closed, an accept call that
takes or waits, a request refused or admitted, a dial that is stale, fails, is
handed over or becomes ready), and each invariant is proved over these shapes
(`StreamSteps` shows that there are no others). `DialInv` types the stream state
and says that a dial is of this session or an earlier one. For the accounting,
`CountInv` bounds the replies and the dials of this session that are still to be
answered together by the requests, and bounds the streams by the limit; `GivenInv`
says that a stream is in one place, in a dial, ready or given, unless the engine
has asked for it again. `GivenOnce` is about streams of the current session: the
engine may use an identifier again in a later one. `NoOp` must differ from every
dial (`ClientAssumption`), because a stream that was not given is `NoOp` too.

**AcceptorProofs.** `AcceptCompletesOnce`, `NoAcceptLost` and `StartIsSound` rest
on `AcceptInv`. `StrandInv`: the internal handler of an accept call is on the
strand once at most. `TakenInv`: what `m_accept_op`, the accept loop, the tunnels
and the inbox hold is an operation that the strand has taken. `DoneInv`: such an
operation is completed or is `m_accept_op`, and what completes before it is taken
was cancelled and holds no reservation. The completion handlers of the acceptor
carry no generation, so `TakenInv` is what keeps a late completion from naming an
operation that the strand has not seen. `StartInv` adds that a call was refused or
holds a reservation and never both.

**AcceptorDriveProofs.** `NoLostWakeup`: `AcceptDriven` is not inductive, since it
speaks of acceptors with a pending call only and the call may come later.
`DriveInv` says of every acceptor that is not closing what it waits for, and that
each operation it has passed to a tunnel is still there or on its way back.

`TunnelIsCurrent` is proved for one thread. Its inductive `CurrentTunnel` is about
the inbox: one connection is under way or reported, never both (`ConnectInv`), and
the tunnels behind that report are of the session it opens (`CurrentInv`). The
attempt to prove the property without its hypothesis `tclient[tunnel] = client`
failed for a reason that TLC confirmed with three clients: when the disconnection
callback of a closed client ends the session of the next one (see the observation
on `acceptor.cpp:495`), a tunnel creation of that second client may still complete
while it is closing (`client.cpp:1927`), and the acceptor, by then connected with
a third client, adopts its tunnel, because `on_create_tunnel()` does not look at
the client.

**WebttyServer.** For any set of sessions, the server reports its end only when no
session is left, and no accepted connection is open then once the handlers of its
accepts have run (`ServerStopsComplete`), and its steps are steps of `RunContract`
or stutter (`ServerKeepsContract`). `StopIsComplete` is not inductive: the stop
must find no session in the states in which it completes at once. `SrvInv` adds
that sessions exist only in states started and stopping, that an accept waits only
in state started, that the accept target, which `AssignSocket` may open even after
the stop, is open only while its handler is queued, and that the handler of
`async_run` is held from the start to the stop.

**StreamSocketProofs.** `OneConnectOwnsTheSocket` and `ReservationIsReturned` are
proved from the hypothesis `OpsDistinct` (connect and transfer calls differ, and
neither is the null operation), which is stated in the theorems because
`MCTransport` instantiates the module; its instance satisfies it. The inductive
invariant `SocketInv` adds to `SocketOwned` where things are. `CallInv`: a connect
call is on the strand at most once, and is not `m_connect_op` before it has run,
so that aborting a call that has not run never takes the socket from the one that
has. `StepInv`: a step of a connect is on the transport or its result is on the
strand, once, and only while the call is marked as started; with `SocketOwned`
this makes the "not the current operation" branch of the step handlers
unreachable. `HeldInv`: the reservation of an unused socket is held by an accepted
connect without a result, and what was refused holds none. Every handler takes the
first item of the strand, so one lemma per invariant says what taking an item
preserves (`PopCall`, `PopStep`, `PopHeld`), and the closing of a connection and
the abort of a waiting connect are done once for all handlers that use them
(`CloseKeeps`, `AbortKeeps`).

Model-checked only: the liveness properties (`SessionEnds`, `CancelCompletes`,
`SignalledCompletes`, `CloseAbortsInOrder`, `CloseCompletes`, `SessionsEnd` and
the fairness half of `KeepsContract`), because liveness under fairness is out of
the prover's reach; the invariants of the transport (beyond those of the stream
socket), of the programs (beyond those of the WebTTY server) and of the
algorithms, for which no proofs have been written. Some of the latter are out of
reach: `StunMessage` and `Quantiles` are recursive over their data, which the
prover has no induction for.

## What is not modelled

PROJECT.json lists every part with its status. Left out as a whole: generic
resolvers, acceptors and endpoints (type-erased forwarding without state), the
WebSocket option parser, address and stable-domain text, core utilities (log,
random, version, exceptions), the command lines and screens of the tools, the
language bindings and wrappers. They are text, display or forwarding, with no
interleaving to explore.

Within the modelled parts: message contents beyond what a property is about; a
status callback that calls back into the acceptor; exceptions from allocation;
destruction of an object with operations pending (the handlers hold a shared
pointer to it); `memory::share()`; IP-address and client-details conversions; the
JSON form of STUN messages; the numbers that nperf measures; the contents of HTTP
answers. WebTTY's client is modelled against the repository's own server. The
parts of `MCTransport`, `MCPrograms` and `MCAlgorithms` are checked one at a time
and not in product with one another: they meet through the promises named under
"How they fit together".
