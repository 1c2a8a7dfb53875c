# A TLA+ verification of ITGv2

ITGv2 takes a stream from OBS over FTL, forwards it as RTP and shows it in
browsers over WebRTC. This directory holds TLA+ modules that model the code,
TLC configurations that check them on small instances, and TLAPS proofs of
theorems about them for every value of the constants.

Line numbers refer to the sources as they are in the repository. `hub.go`,
`client.go` and `server.go` are under `webrtc/`, `mod.rs`, `state.rs`,
`main.rs` and `ftl_codec.rs` under `ingest/src/`.

## 1. The system

```
 encoder --FTL/TCP--> ingest (Rust) --HTTP POST/DELETE /stream--> WebRTC server (Go)
    |                    |                                          |  one Stream per UDP port:
    |                    +--websocket events--> auth service        |  tracks, RTP reader, Hub
    +----------------------RTP/UDP to the allocated port----------->|
 browser (React) <--websocket: offer, candidates, info; answer------+
```

| Part | State it keeps | Operations | Talks to |
| --- | --- | --- | --- |
| ingest process (`main.rs`) | a listener | accept loop | spawns a session per connection |
| ingest session (`mod.rs`, `state.rs`) | `ConnectionState` (stream key, RTP port, media attributes), two channels | a frame task reads commands and writes replies; a connection task handles HMAC, CONNECT, attributes, PING, the dot, DISCONNECT | encoder (TCP), WebRTC server (HTTP), auth service (websocket) |
| FTL codec (`ftl_codec.rs`) | the bytes received | `decode`, `encode` | the frame task |
| WebRTC process (`webrtc/main.go`) | none | `New`, `Start` | the server |
| stream registry (`server.go`) | `streams`: port to `Stream`, under a mutex | `createStream`, `deleteStream`, lookup in `websocketHandler`; one RTP reader per stream | ingest, viewers |
| hub (`hub.go`) | `Clients`, under an RWMutex; channels `Register`, `Unregister`, `Broadcast`; `done` | `Run`, `SendInfo` goroutines, `Close` | clients over `Send` |
| viewer connection (`client.go`, `websocketHandler`) | a websocket, a peer connection, `Send` | handler, `ReadLoop`, `WriteLoop`, pion's `OnICECandidate` and `OnConnectionStateChange` | hub, browser |
| frontend websocket (`SocketContext.jsx`) | socket, back-off, timer | connect, reconnect | WebRTC server |
| frontend peer connection (`App.js`, `RTCPeerContext.jsx`) | an `RTCPeerConnection` | offer to answer, candidates | WebRTC server |
| frontend presentation, `webrtc/internal/signal` | none | rendering; helpers nothing imports | none |

### What is hard, and what makes each part correct

* **Hub and viewers.** Up to five goroutines per viewer meet the hub's loop on
  unbuffered channels, on channels of capacity one and on a read-write lock.
  Correct means: no send on a closed channel and no second close (either
  panics and takes every stream down), the loop never stops serving viewers, a
  viewer that joins gets its offer and a place in `Clients`, one that leaves
  gives it up, and closing the hub closes everybody.
* **Ingest sessions.** Two tasks in lockstep, requests to two services that may
  fail or be lost half-way, encoders that leave at any time, restarts of either
  process. Correct means: every command is answered, a port belongs to one
  session and is given back, starts and ends are reported in pairs.
* **Registry.** Requests interleave with each other and with the RTP readers;
  correct means that the map, the sockets and the hubs agree.
* **Codec.** Commands must not depend on how TCP cuts the bytes.
* **Signaling and reconnection.** Candidates must not overtake the offer the
  browser needs first; timers must not renew a socket that is alive.

`PROJECT.json` lists the hazards one by one, at their lines.

## 2. The modules

### Hub (one stream's viewers)

| Variable | In the code |
| --- | --- |
| `stream` | whether `deleteStream` has taken the stream out of the map, and closed the hub (`done`) |
| `clients`, `register`, `unregister` | `Hub.Clients`, the two channels |
| `infos` | the `SendInfo` goroutines waiting at `Broadcast`, by the number they carry |
| `runPc`, `runClient`, `runLeft`, `runInfo` | `Run`: its place and its local variables |
| `handler`, `writer`, `ice`, `callbacks` | the viewer's goroutines: `websocketHandler` (with `ReadLoop`), `WriteLoop`, the candidate callback, state callbacks waiting at `Unregister` |
| `sendClosed`, `conn`, `peerConn` | `close(client.Send)`, the websocket, the peer connection |
| `peer`, `offered`, `candidates` | the viewer itself, whether it has the offer, candidates still to be gathered |

There is one action per stretch of code between two points where the goroutine
can be held up or overtaken: a lock, a channel operation, the socket. The
write lock is a place in `Run` (`lockAdd`, `lockDelete`, `lockDone`); an action
that needs it waits until no reader is inside, and a pending writer keeps new
readers out, as Go's `RWMutex` does. A send on `Send` happens together with its
receipt by the `WriteLoop` (`HandOver`). A goroutine that is blocked is one
whose action is not enabled, so a loop that hangs shows as a loop that never
moves again.

Abstracted: the text of messages; pings that succeed; the RTCP drain; media.
`WriteMessage` may succeed for a viewer that is gone, because the bytes fit the
kernel's buffer. `Unreliable` viewers may vanish, send what `ReadLoop` refuses
or lose their ICE path; the others stay and behave.

### Ingest (all sessions of one ingest service)

| Variable | In the code |
| --- | --- |
| `frame`, `command`, `toConn` | the frame task, the command it has read, `frame_send` / `conn_receive` |
| `conn`, `reply`, `toFrame` | the connection task, the reply it has made, `conn_send` / `frame_receive` |
| `streamKey`, `rtpPort` | the fields of `ConnectionState` the control flow reads |
| `answer` | the port in the WebRTC server's answer while it is on its way |
| `hosted`, `deaf` | the streams of the WebRTC server: which session each port's was made for, and which have lost their reader |
| `lapsed` | history: ports on which the server has lost a stream, to a failed reader or a restart |
| `started`, `stopped`, `lost` | what has reached the auth service; which services have failed a session |
| `encoder`, `restarts`, `exits` | the encoder, restarts of the server, exits of the process |

There is one action per `.await` that can be overtaken: a request is a step at
the service and a step at its answer, and either may fail when `Faults` has the
service. `Commands` is what encoders may send; `badAttribute` stands for a
`Video` or `Audio` value other than `true` or `false`, `unsupported` for any
frame on which `decode` returns an error or panics (both end the frame task and
drop its channel ends). `decode` always fills in both entries of a CONNECT and
of an attribute, so the arms for missing ones (`mod.rs:205-210`, `264-266`) and
the last arm of `handle_command` cannot be reached and are left out. CONNECT's
key is chosen when the command is handled, where it is first looked at.

`AcceptFails` is `listener.accept().await?` (`main.rs:59`): `main` returns the
error, all tasks are dropped, and the container comes back
(`restart: on-failure`). `ServerRestart` empties `hosted`. `ReaderFails` is the
reader's deferred `Close` (`server.go:261`): the entry stays in the map while the
kernel may give the port away, and then the new stream replaces it
(`server.go:256`). Nobody reads the history `lapsed` but the properties.

Two differences between the README of the repository and the code do not change
the control flow and are only noted here: the address of the auth service is a
literal (`mod.rs:287`, `300`) and not `AUTH_WS_URL`, and its answer is logged
and not acted upon.

`PortLease` (below) says what sessions promise each other; `Lease` maps
`hosted` to its leases and the ports that sessions hold to its uses.

### Streams (one WebRTC server process)

| Variable | In the code |
| --- | --- |
| `process`, `serving` | whether the process is there; `serveHTTP` |
| `pc` | where `main`, and the handler of each POST and DELETE, is |
| `streams`, `port`, `sock` | `Server.streams`, `Stream.port`, `Stream.conn` |
| `done`, `hub`, `reader` | the hub's `done`, the goroutines of `hub.Run` and of the RTP reader |
| `taken` | the `st` of a `deleteStream` |

A stream is named by the call of `createStream` that makes it. `createStream`
is five steps (bind, tracks, insert under the mutex, start the goroutines,
return) and `deleteStream` four (unmap under the mutex, close the socket,
`Hub.Close`'s test, its `close`); requests are handled concurrently. The hub is
closed here and returns, or it blocks at a send and never does (`HubBlocks`);
what it does for its viewers is `Hub`, and that it may block the run `hub_wedge`. A DELETE
without a number as its port and any other method are answered and change nothing.

### SocketContext and Signaling (a page and the server)

`SocketContext` is the page's websocket: `current` and `duration` are the
reducer's `socket` and `wsTimeoutDuration`, `delay[k]` is the duration that the
handlers of the k-th socket close over, `timer[k]` the `setTimeout` of its
`onclose`. The effect that installs the handlers is an action of its own,
because React runs effects after the render; a socket may close before it.

`Signaling` extends it with what goes over the sockets: two FIFO queues per
socket, the server's handler, candidate callback and `ReadLoop`, and the page's
one `RTCPeerConnection` (`RTCPeerContext.jsx` makes it once), whose operations
are queued by the browser and therefore take effect in order although `App.js`
does not await them. pion refuses a candidate before the answer, a browser one
before the first offer; a browser may refuse the offer of a second peer
(`AnswerFails`), and pion an answer (`AnswerRefused`), after which `ReadLoop` returns. `SkipOffer` is the handler that does not find its client in
`Clients`; in `Hub` it is seen why.

### Codec (the bytes of one encoder)

`input` is what the encoder sends, `got` how much has been read, `buf` the
buffer of `FramedRead`, `items` what `decode` has returned. A byte string is a
sequence of symbols: the terminator's bytes, the characters `decode` splits at,
and words. `DISCONNECT` is two symbols, since that it contains `CONNECT` is what
the order of the tests is about. The reference, `FramesOf`, is an automaton that
sees one byte at a time.

### The abstract specifications, and how the modules fit together

`PortLease`: a port is leased to one owner at a time, an owner uses only what
is leased to it, and leases end with their use. `Lapse` takes a port out of the
promise; every other port stays in it.

* `Streams` implements it, and nothing lapses: the owners are streams, the
  leases open sockets, a port is in use when the map has it. A failed reader
  ends the lease together with the use.
* `Ingest` implements it: the owners are sessions, the leases the streams hosted
  for them (`hosted`). A session does not learn that the server has lost its
  stream and goes on using the port, which is why that port lapses.

The two meet there: `hosted` is what `Streams` keeps, with one step per request.
That one step is enough is what `MapMatchesSockets` and `NoLostHub` say for all
interleavings of requests. Both except streams whose reader has failed, and so
does `Ingest`, with an action of its own: `ReaderFails` there is `ReaderFails` of
`Streams`, and `CreateStream` over a port in `deaf` is `Insert` over the entry
left behind. A server that restarts is a new process, that is, a new behaviour
of `Streams`.

`Roster`: a viewer joins at most once and leaves for good, messages go only to
members, and disbanding lets everyone out and nobody in. `Hub` implements it.

### Proof modules and instances

`HubProofs`, `IngestProofs`, `StreamsProofs`, `SignalingProofs`, `CodecProofs`
and `PortLeaseProofs` extend the modules they are about and TLAPS.
`HubRosterProofs` extends `HubProofs` with the later results about the hub,
`CommandProofs` extends `CodecProofs` with those about single commands. `MCHub` and `MCIngest` add the symmetry sets; they are used
where no liveness is checked and no viewer is singled out. `MCCodec` defines
the inputs.

## 3. What is checked

### Passing runs

| Run | Instance | Shows |
| --- | --- | --- |
| `hub_safety` | 2 viewers, 1 unreliable, 1 candidate each, deletion | `TypeOK`, `NoSendOnClosed`, `NoDoubleClose`, `UnregisterFindsClient`, `ShutdownReachesClients` (2.0 million states) |
| `hub_progress` | 2 viewers, 1 unreliable, 1 candidate each, no deletion, fair | `RunReturnsToSelect`, `ViewerJoins` |
| `hub_leaving` | 2 viewers, 1 unreliable, no candidates, deletion, fair | `LeaversReturn`, `InfosAreSent`, `ImplementsRoster` |
| `ingest_safety` | 2 sessions, 2 ports, all faults, failing readers, 1 restart, 1 exit | `TypeOK`, `ReplyIsAwaited`, `PortHostsOwnStream`, `NoOrphanStream`, `LastKeyIsStopped`, `ImplementsPortLease` (4.3 million states) |
| `ingest_ends` | 2 sessions, 1 port, all commands, services that fail (`webrtc`) or never answer, failing readers, fair | `SessionEnds` (0.3 million states) |
| `codec` | every string of at most 7 of CR, LF and dot, every 2 of 15 commands in a row, every cut into reads | `TypeOK`, `FramesDoNotDependOnReads`, `NothingHeldBack`, `CommandsAreUnderstood` |
| `streams` | `main`, 2 POSTs, 2 DELETEs, 2 ports, all failures, hubs that block | `TypeOK`, `MapMatchesSockets`, `HubClosedOnce`, `NoLostHub`, `DeletedStreamEnds`, `ImplementsPortLease` (0.5 million states) |
| `signaling` | 3 sockets in a row, 1 candidate a side for each, delays 250, 500, 800, fair | `TypeOK`, `OneSocketAtATime`, `DelaysBackOff`, `RefusedIsStale`, `MissedWasEarly`, `ClosedIsRenewed`, `OfferIsAnswered` (0.4 million states) |

*Hub.* `NoSendOnClosed` is not obvious from the code: `Run` closes `Send` after
it has released the lock. It holds because a sender tests for membership and
sends under one read lock, and `Run` deletes under the write lock before it
closes. `RunReturnsToSelect` says that the wait of a send for an exited
`WriteLoop` is the only way to hold `Run` up: not the lock order, not `Run`
being the receiver of the broadcasts it causes, not full channels; `ViewerJoins`,
`LeaversReturn` and `InfosAreSent` say the same of viewers on their way in and
out and of the broadcasts, with the deletion of the stream as the other
exception: after it `Run` is gone and nobody receives.
`UnregisterFindsClient` and `ShutdownReachesClients` say exactly when the hub
loses somebody: when `select` takes an `Unregister` before the `Register` it
undoes (the viewer then stays in `Clients`), and when a viewer has looked the
stream up before its deletion and registers with a hub that has stopped.

*Ingest.* `ReplyIsAwaited` is the lockstep of a session's tasks; it makes the
error arm of the dot command (`mod.rs:114-117`), which would leak a port, dead
code. `PortHostsOwnStream` says that a `DELETE`, which names a port and not a
stream, never hits somebody else's, unless the WebRTC server has lost a stream on
that port; what happens on one port never reaches a session on another.
`ingest_safety` leaves out `HMAC`, attributes and `PING`, whose handlers differ
in nothing but their reply; `ingest_ends` has them all. `SessionEnds` has two
exceptions: a command that got no reply (`Unanswered`), and a session that waits
for another service for ever (`AwaitsService`). `ingest_ends` leaves out the
failures of the auth service, which lead to the places its answers lead to;
`ingest_safety` has them.

*Streams.* The socket is the lock of its port: it is bound before the stream is
in the map and closed after it has left it, so two streams are never in
conflict over an entry, unless a reader has failed, which closes the socket of
a stream that is in the map. `DeletedStreamEnds` promises the end of the socket,
the reader and `done`, and of `Run` unless it is blocked: closing a hub does not
free a `Run` that waits for an exited `WriteLoop`. `streams` runs under `LastingSpec`, in which
`main` need not return; with `FairSpec` the process ends (below) and there is
little to see.

*Codec.* Seven symbols are enough for a whole terminator with every proper
prefix of one before or after it, and two commands for one to follow another in
the same read.

*Signaling.* Three sockets give a candidate two negotiations to be stale in, and
the delay room to double and to reach its maximum. `RefusedIsStale` says that
`ReadLoop` never gives up a connection over a candidate of its own
negotiation; it does over one of an earlier negotiation that reaches the socket
before the answer.

Two viewers, sessions or requests of a kind are enough for every pairwise
conflict: one in the hub's hand and one waiting, one that holds a port and one
that wants it. One candidate suffices to put the callback at a send at any
moment. One restart and one exit suffice since nothing accumulates over them.
The proofs do not depend on the bounds.

`CHECK_DEADLOCK FALSE` is set throughout: all viewers may have left, all
sessions ended, all requests been served; and where goroutines do block each
other, a liveness property says so more precisely than the absence of any step.

### Runs that end in a violation

Each checks a sentence of the repository's documentation or comments that the
code does not keep. The traces are TLC's.

| Run | Property | Sentence | What happens |
| --- | --- | --- | --- |
| `hub_wedge` | `RegisterIsHandled` | "Run is the main hub event loop handling register, unregister and broadcast events." (`hub.go:58`) | a `WriteLoop` exits while a broadcast is due to its client; `Run` waits for it for ever |
| `hub_offer` | `OfferIsSent` | "websocketHandler negotiates a single WebRTC peer connection over websocket." (`server.go:119`) | the handler does not find its own client in `Clients` yet and drops the offer |
| `ingest_hang` | `CommandIsAnswered` | "if we do not respond at all the client stops sending for some reason" (`mod.rs:253-254`) | an invalid `Video` or `Audio` value gets no reply and both tasks wait for each other |
| `server_exits` | `StartLaunchesServer` | "Start launches the hub, websocket server and begins consuming RTP packets." (`server.go:63`) | `main` returns as soon as `serveHTTP` has been spawned, and the process ends, with exit code 0, perhaps before it listens |

### Seen in the models, without a run

* The count of viewers that reaches the browsers last may be an old one:
  `GetInfo` is evaluated when the goroutine is started (`hub.go:76`), but `Run`
  takes the goroutines' messages in any order.
* After `AcceptFails` the streams of the sessions that were alive stay hosted,
  which is why `NoOrphanStream` and `LastKeyIsStopped` are about executions
  without an exit.
* After a restart, and after an error of an RTP reader, the WebRTC server gives
  ports that sessions still hold to others. The `DELETE` of the first session
  then ends the stream of the second. `PortHostsOwnStream` and `PortLease` say
  that it goes no further than the ports that have lost a stream.
* A hub whose `Run` is blocked is never freed: its goroutine outlives the
  deletion of the stream (`blocked` in `DeletedStreamEnds`).
* A service that accepts a request and then says nothing keeps its session, the
  session's port and, by the lockstep, the encoder waiting (`AwaitsService`).
* A session that gets no port returns without `notify_stream_end`
  (`mod.rs:97-102`), and after a second CONNECT only the last key is reported
  as ended; hence the "last" in `LastKeyIsStopped`.
* An encoder that vanishes without closing its connection keeps its port:
  `frame.next()` has no timeout.
* `decode` takes any command that contains `HMAC` for an HMAC, an attribute's
  value ends at its second colon, and a CONNECT with fewer than three fields
  panics (`ftl_codec.rs:43-60`). `CommandsAreUnderstood` is about commands that
  are well formed.
* A page whose first socket closes before its handlers are installed stays
  disconnected ("lost" in `ClosedIsRenewed`), and a candidate sent ahead of the
  first offer is lost to it (`MissedWasEarly`).

### Fairness

`Hub`: a goroutine that can run does run, `Run` and `CloseHub` included, and a
write ends within `writeWait` or by the failure of the connection. Within one
goroutine weak fairness is enough, since Go's channels and lock queue their
waiters. Not assumed: that viewers come, answer or leave, that candidates are
gathered, that ICE fails, that a stream is deleted.

`Ingest`: the frame task runs when it can (tokio is a fair scheduler), so does
the connection task where it needs nobody else (`OwnStep`), and the kernel
reports a closed connection. The other services owe nothing, for no connect, no
request and no wait for an answer in the code has a timeout: the steps that take
one (`ServiceStep`) are not fair. Encoders owe nothing either.

`Streams`: the goroutines of requests in progress and of streams run
(`GoroutinesRun`); `Run` takes `done` unless it blocks, which it may at any
time. Requests need not come and readers need not fail.
`LastingSpec` lets `main` take for ever to return, `FairSpec`, used for
`server_exits`, does not.

`Signaling`: both event loops run, timers fire, messages on an open socket
arrive, and so does the end of a connection that `ReadLoop` has closed.
Connections need neither be accepted nor last, the effect need not run before
the socket closes, and the server need not get as far as the offer.

## 4. What is proved

Every invariant and every refinement that a passing run checks is a theorem of
its specification, for every set of viewers (finite in `Hub`), sessions,
requests, ports, keys and words, for every set of commands, faults and losses,
for inputs of every length and for every bound:

| Theorem | States |
| --- | --- |
| `HubTypeCorrect` | `Spec => []TypeOK`: channel capacities, at most two waiting callbacks |
| `HubNoSendOnClosed`, `HubNoDoubleClose` | `Spec => []NoSendOnClosed`, `Spec => []NoDoubleClose` |
| `HubUnregisterFindsClient` | `Spec => []UnregisterFindsClient` |
| `HubShutdownReachesClients` | `Spec => []ShutdownReachesClients` |
| `HubImplementsRoster` | `Spec => ImplementsRoster`, the specification of `Roster` |
| `IngestTypeCorrect` | `Spec => []TypeOK` |
| `IngestReplyIsAwaited` | `Spec => []ReplyIsAwaited` |
| `IngestPortHostsOwnStream` | `Spec => []PortHostsOwnStream` |
| `IngestNoOrphanStream`, `IngestLastKeyIsStopped` | `Spec => []NoOrphanStream`, `Spec => []LastKeyIsStopped` |
| `IngestImplementsPortLease` | `Spec => ImplementsPortLease`, the specification of `PortLease` |
| `StreamsTypeCorrect` | `Spec => []TypeOK` |
| `StreamsMapMatchesSockets` | `Spec => []MapMatchesSockets` |
| `StreamsHubClosedOnce`, `StreamsNoLostHub` | `Spec => []HubClosedOnce`, `Spec => []NoLostHub` |
| `StreamsImplementPortLease` | `Spec => ImplementsPortLease`, `PortLease` in which nothing lapses |
| `SignalingTypeCorrect` | `Spec => []TypeOK` |
| `PageOneSocketAtATime`, `PageDelaysBackOff` | `Spec => []OneSocketAtATime`, `Spec => []DelaysBackOff`, `Spec` that of `Signaling` |
| `SignalingRefusedIsStale`, `SignalingMissedWasEarly` | `Spec => []RefusedIsStale`, `Spec => []MissedWasEarly` |
| `CodecTypeCorrect` | `Spec => []TypeOK` |
| `CodecFramesDoNotDependOnReads`, `CodecNothingHeldBack` | `Spec => []FramesDoNotDependOnReads`, `Spec => []NothingHeldBack` |
| `CodecCommandsAreUnderstood` | `Spec => []CommandsAreUnderstood` |
| `LeaseUsersHoldLeases` | `None \notin Owners \cup Ports` implies `Spec => []UsersHoldLeases` of `PortLease` |

Assumptions: the named ASSUMEs of the modules, and nothing else. They say what
kind of value each constant is, that `None` is none of the values it stands
beside, that the requests of `Streams` are told apart by their names, that the
delays of `SocketContext` are positive and in order, and that the words of
`Codec` are other symbols than those `decode` looks for. TLC evaluates them in
the runs.

*Hub.* `NoDoubleClose` is not inductive: it must be known that a client that
`Run` is about to close is no longer in `Clients`, and that it cannot come back.
`IInv` adds `OneRegistration` (a client is before its registration, in
`Register`, in `Run`'s hand or has been added, one at a time, so it is added
once), `SendersAreForClients` (whoever is at a send found the client in
`Clients` and it still is, because deletion waits for the readers) and
`ClosedOnce` (in `Clients`, then in `Run`'s hand, then closed). `CallbackBound`
carries the type of `callbacks`: callbacks appear only when the peer connection
closes, which it does once.

*Hub, leaving and shutdown.* Both properties follow a viewer from its
`Register <- c` on. `RInv` says that whoever may come to send `Unregister <- c`
is past that send (`Registered`), that from there on the hub has the client in
the channel, in `Run`'s hand, in `Clients` or closed (`Known`), that the
websocket is open from the upgrade to the first close (`ConnLife`), and that
`Clients` is empty when `Run` has returned. An `Unregister` that overtakes its
`Register` is the one place left, and both theorems name it.

*Hub implements Roster.* `RunAdd` is `Join`, `RunDelete` is `Leave`,
`RunShutdown` is `Disband`, `HandOver` is `Deliver`, the end of a write is
`Finish`; every other step leaves each client's status and what its `WriteLoop`
holds as they are. That a viewer who joins has not been a member before is
`OneRegistration` again, and that a message reaches only members is
`SendersAreForClients`.

*Ingest.* `Lockstep` says where the one token of a session is: with the frame
task, in a channel, or with the connection task. From it the error arm of
`SendReply` is dead. `OwnsPort` follows the port from the server's answer to
the `DELETE`: two sessions cannot hold one port that has not lapsed, since
`hosted` has one owner for it. `WillFree` is the converse: a stream the server hosts for a session is one
the session still holds, is being told about, or has lost through a failed
request. `KeyReported` needs that a session passes `notify_stream_end` on every
way to its end except after a failed request.

*Ingest implements PortLease.* The server's handling of a POST (`CreateStream`)
is `Grant`, or `Lapse` when it replaces an entry without a reader; the arrival of
its answer (`PortAllocated`) is `Use` and the DELETE (`FreePort`) `Return`, and
either is `Lapse` for a port that has lapsed. `ReaderFails` and `ServerRestart`
are `Lapse`. Every other step of a session, its end without a `DELETE` and
`AcceptFails` included, is `Abandon`, in which any number of owners may stop using
their ports. `OwnsPort` is what makes them legal: the port in an answer is leased
to the session it is for, and a DELETE returns the session's own, as long as the
port has not lapsed. `TypeOK` has `deaf \subseteq lapsed`: the server replaces
entries on lapsed ports only.

*Streams.* A stream goes from its socket (`Listen`) to the map (`Insert`) and
from there to the hand of the one `deleteStream` that takes it (`Unmap`).
`StreamLife` says where it is at each place of `createStream`, `InReach` that it
is in the map or in somebody's hand from `Insert` on unless its reader has
failed, `PortsAreLocks` that two open sockets have two ports, `EntryInv` that
what is in the map is in nobody's hand and has not been closed, and
`DeleteLife` that a `deleteStream` holds a stream which no other holds and
which it has not closed before its last step. `HubClosedOnce` and `NoLostHub`
are read off these; `MapMatchesSockets` is part of `EntryInv`.

*Streams implements PortLease.* `Listen` is `Grant`, `Insert` is `Use`, `Unmap`
ends the use and keeps the lease (`Abandon`), and whatever closes an open
socket, `deleteStream`, a failed reader or failed tracks, is `Return`. By
`PortsAreLocks` the lease of a port is the one open socket on it.

*SocketContext and Signaling.* `SocketLife` orders the sockets of a page: those
before the current one have closed and their timers have fired, those after it
do not exist. `DurationInv` says what the reducer's duration is between the
moment the handlers close over it and the moment the timer doubles it, which is
what makes `DelaysBackOff` inductive. For the messages, `DownInv` and `UpInv`
say what is in the queues of each socket, as conditions on which message
follows which (`Has`, `Follows`, with lemmas for `Append` and `Tail`), and
`HandlerInv` ties them to the server's place in the negotiation: the page's
answer is ahead of every candidate of its negotiation in the queue, and a
candidate of the server that is ahead of its offer is recorded in `early`.

*Codec.* The invariant does not speak of the automaton. `CutAtTerminators`:
the commands taken lie one after another in the input, each ending at the first
terminator after its beginning; `BufferIsRest`: the buffer is what has been read
after the last of them; `TakenBeforeReading`: while the codec reads, the buffer
contains no terminator. It is preserved because a buffer that begins at a cut
has its first terminator where the input has it. What the automaton finds is a
matter of its own: `ScanSteps` takes it one byte further (`seen` is the length
of the longest beginning of a terminator that the line ends in), `ScannedWithin`
to the next terminator and `ScannedCut` over it. Where these need induction over
bytes they use sets of numbers: the order of the naturals is well founded, so
the set of positions at which a claim fails, were it not empty, would have a
first one, whose predecessor contradicts it (`FirstPosition`, `Stepwise`).
`ScannedSteps` shows in the same way that the recursive function of the
automaton exists and satisfies its equation.

*Commands.* `SplitRuns` runs `Split` symbol by symbol, and `KindOfSymbols` turns
the tests for substrings into tests for symbols. Each form of the handshake is
then evaluated for arbitrary words, which needs that words are not among the
special symbols: a key that contained a space or `DISCONNECT` would be cut or
misread, and the assumption excludes it.

*PortLease.* `TypeOK` and `UsersHoldLeases` are inductive together; a granted
port has no user because a free one has none. By the two refinements it holds of
the sessions and of the registry as well.

TLC has checked the inductive invariants on the instances of the runs (all but
`ItemsMade` of `Codec`, which quantifies over all byte strings).

### Only model-checked

The liveness properties (`RunReturnsToSelect`, `ViewerJoins`, `LeaversReturn`,
`InfosAreSent`, `SessionEnds`, `DeletedStreamEnds`, `ClosedIsRenewed`,
`OfferIsAnswered`) rest on fairness, which is beyond the prover, and so does
everything that ends in a violation. They hold for the instances of section 3.

## 5. Not modelled, and the plan

Left to do, in this order:

1. Shorter proofs: the steps of `Signaling` and of `Codec` repeat facts about
   queues and windows that could be stated once.
2. Safety parts of the liveness properties: that whoever blocks `Run` is a
   `WriteLoop` that has exited (`BlockedOnDeadWriter`) can be said without
   fairness, as an invariant over the places of all goroutines.
3. What `Roster` promises, as theorems of it: a viewer that has left never gets
   a message, and after disbanding nobody does.

Partly modelled: `ConnectionState` (`state.rs`), whose HMAC payload and media
attributes are written and read only by the log; the page (`App.js`), of which
the negotiation is modelled and the reducer for the video element and the
number of viewers is not.

Not modelled, for good: rendering (`frontend/src/components`, styles), logging,
flags and logger set-up (`main.rs:20-53`), `internal/signal` (no package imports
it), the contents of media packets, and the libraries (pion, gorilla, tokio,
reqwest), which appear as the actions their users can observe. The set-up of
the transceivers (`server.go:152-159`) can fail only on a closed connection,
which the handler does not have there.
