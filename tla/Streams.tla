------------------------------ MODULE Streams -------------------------------
(***************************************************************************)
(* The streams of one WebRTC server process: main, New and Start           *)
(* (webrtc/main.go, webrtc/server/server.go), createStream and             *)
(* deleteStream in the handlers of concurrent HTTP requests, and the two   *)
(* goroutines createStream starts for every stream, the hub's Run and the  *)
(* RTP reader.  What a hub does before it is closed is in module Hub.      *)
(*                                                                         *)
(* A stream is named by the call of createStream that makes it: a POST, or *)
(* the one of New, on behalf of main.                                      *)
(***************************************************************************)
EXTENDS Naturals, FiniteSets

CONSTANTS Posts,     \* the POST /stream requests
          Deletes,   \* the DELETE /stream?port=... requests
          Main,      \* main's call of New, which makes the first stream
          Ports,     \* UDP ports
          RTPPort,   \* cfg.RTPPort, the port of the first stream
          None       \* a missing map entry, nil

Callers == Posts \cup {Main}

ASSUME RequestsAssumption == Main \notin Posts /\ Deletes \cap Callers = {}
ASSUME RTPPortAssumption == RTPPort \in Ports
ASSUME NoneAssumption == None \notin Callers \cup Ports

VARIABLES
  process,  \* "running", or "exited" as a whole
  serving,  \* serveHTTP: "none", "spawned" or "listening"
  pc,       \* pc[r]: where main or the handler of request r is
  streams,  \* Server.streams: the stream of each port
  port,     \* port[s]: Stream.port
  sock,     \* sock[s]: Stream.conn
  done,     \* done[s]: the hub's channel done has been closed
  hub,      \* hub[s]: the goroutine of hub.Run; "blocked" is for ever
  reader,   \* reader[s]: the goroutine that reads RTP, and how it ended
  taken     \* taken[d]: the stream that deleteStream has in hand

vars == <<process, serving, pc, streams, port, sock, done, hub, reader, taken>>
-----------------------------------------------------------------------------
TypeOK ==
  /\ process \in {"running", "exited"}
  /\ serving \in {"none", "spawned", "listening"}
  /\ pc \in [Callers \cup Deletes ->
       {"call", "tracks", "insert", "spawn", "start", "return", "delete",
        "closeConn", "testDone", "closeDone", "done"}]
  /\ streams \in [Ports -> Callers \cup {None}]
  /\ port \in [Callers -> Ports \cup {None}]
  /\ sock \in [Callers -> {"none", "open", "closed"}]
  /\ done \in [Callers -> BOOLEAN]
  /\ hub \in [Callers -> {"none", "running", "blocked", "returned"}]
  /\ reader \in [Callers -> {"none", "reading", "returned", "failed"}]
  /\ taken \in [Deletes -> Callers \cup {None}]

Init ==
  /\ process = "running" /\ serving = "none"
  /\ pc = [r \in Callers \cup Deletes |-> IF r \in Deletes THEN "delete" ELSE "call"]
  /\ streams = [p \in Ports |-> None]
  /\ port = [s \in Callers |-> None]
  /\ sock = [s \in Callers |-> "none"]
  /\ done = [s \in Callers |-> FALSE]
  /\ hub = [s \in Callers |-> "none"]
  /\ reader = [s \in Callers |-> "none"]
  /\ taken = [d \in Deletes |-> None]
-----------------------------------------------------------------------------
(* Requester r is at l: main from the start, handlers once the server listens. *)
At(r, l) ==
  /\ process = "running" /\ pc[r] = l
  /\ r # Main => serving = "listening"

Goto(r, l) == pc' = [pc EXCEPT ![r] = l]

Bound(p) == \E s \in Callers : sock[s] = "open" /\ port[s] = p
-----------------------------------------------------------------------------
(***************************************************************************)
(* createStream                                                            *)
(***************************************************************************)
\* Faulty: the socket is opened with SO_REUSEPORT.
ListenShared(s, p) ==
  /\ At(s, "call") /\ (s = Main => p = RTPPort)
  /\ sock' = [sock EXCEPT ![s] = "open"]
  /\ port' = [port EXCEPT ![s] = p]
  /\ Goto(s, "tracks")
  /\ UNCHANGED <<process, serving, streams, done, hub, reader, taken>>

\* Faulty: the stream's port is the one asked for, 0 for any.
ListenAsAsked(s, p) ==
  /\ At(s, "call") /\ (s = Main => p = RTPPort) /\ ~Bound(p)
  /\ sock' = [sock EXCEPT ![s] = "open"]
  /\ \E asked \in {0, p} : port' = [port EXCEPT ![s] = asked]
  /\ Goto(s, "tracks")
  /\ UNCHANGED <<process, serving, streams, done, hub, reader, taken>>

(* ListenUDP on the port asked for, or on one that the system chooses. *)
Listen(s, p) ==
  /\ At(s, "call") /\ (s = Main => p = RTPPort) /\ ~Bound(p)
  /\ sock' = [sock EXCEPT ![s] = "open"]
  /\ port' = [port EXCEPT ![s] = p]
  /\ Goto(s, "tracks")
  /\ UNCHANGED <<process, serving, streams, done, hub, reader, taken>>

(* createStream returns an error: a 500 for a POST, log.Fatal for main. *)
CreateFails(s) ==
  /\ Goto(s, "done")
  /\ process' = IF s = Main THEN "exited" ELSE process
  /\ UNCHANGED <<serving, streams, port, done, hub, reader, taken>>

(* The port is bound or out of range, or none is left. *)
ListenFails(s) ==
  /\ At(s, "call")
  /\ CreateFails(s)
  /\ UNCHANGED sock

(* A track cannot be made: the socket is closed again. *)
TracksFail(s) ==
  /\ At(s, "tracks")
  /\ CreateFails(s)
  /\ sock' = [sock EXCEPT ![s] = "closed"]

MakeTracks(s) ==
  /\ At(s, "tracks")
  /\ Goto(s, "insert")
  /\ UNCHANGED <<process, serving, streams, port, sock, done, hub, reader, taken>>

\* Faulty: the stream is entered under the configured port, not its own.
InsertAtRTPPort(s) ==
  /\ At(s, "insert")
  /\ streams' = [streams EXCEPT ![RTPPort] = s]
  /\ Goto(s, "spawn")
  /\ UNCHANGED <<process, serving, port, sock, done, hub, reader, taken>>

\* Faulty: an entry that is there is kept.
InsertOnce(s) ==
  /\ At(s, "insert")
  /\ streams' = [streams EXCEPT ![port[s]] = IF @ = None THEN s ELSE @]
  /\ Goto(s, "spawn")
  /\ UNCHANGED <<process, serving, port, sock, done, hub, reader, taken>>

(* s.streams[st.port] = st, under the mutex; an entry that is there is lost. *)
Insert(s) ==
  /\ At(s, "insert")
  /\ streams' = [streams EXCEPT ![port[s]] = s]
  /\ Goto(s, "spawn")
  /\ UNCHANGED <<process, serving, port, sock, done, hub, reader, taken>>

(* go st.hub.Run(), go the reader; then the response, or New returns. *)
Spawn(s) ==
  /\ At(s, "spawn")
  /\ hub' = [hub EXCEPT ![s] = "running"]
  /\ reader' = [reader EXCEPT ![s] = "reading"]
  /\ Goto(s, IF s = Main THEN "start" ELSE "done")
  /\ UNCHANGED <<process, serving, streams, port, sock, done, taken>>

CreateStream(s) ==
  \/ \E p \in Ports : Listen(s, p)
  \/ ListenFails(s) \/ TracksFail(s) \/ MakeTracks(s) \/ Insert(s) \/ Spawn(s)
-----------------------------------------------------------------------------
(***************************************************************************)
(* deleteStream                                                            *)
(***************************************************************************)
\* Faulty: the entry is looked up and not removed.
UnmapKeepsEntry(d, p) ==
  /\ At(d, "delete")
  /\ taken' = [taken EXCEPT ![d] = streams[p]]
  /\ Goto(d, IF streams[p] = None THEN "done" ELSE "closeConn")
  /\ UNCHANGED <<process, serving, streams, port, sock, done, hub, reader>>

(* The entry of the port is looked up and removed under the mutex. *)
Unmap(d, p) ==
  /\ At(d, "delete")
  /\ taken' = [taken EXCEPT ![d] = streams[p]]
  /\ streams' = [streams EXCEPT ![p] = None]
  /\ Goto(d, IF streams[p] = None THEN "done" ELSE "closeConn")
  /\ UNCHANGED <<process, serving, port, sock, done, hub, reader>>

\* Faulty: the socket is closed and the hub forgotten.
CloseConnOnly(d) ==
  /\ At(d, "closeConn")
  /\ sock' = [sock EXCEPT ![taken[d]] = "closed"]
  /\ Goto(d, "done")
  /\ UNCHANGED <<process, serving, streams, port, done, hub, reader, taken>>

CloseConn(d) ==
  /\ At(d, "closeConn")
  /\ sock' = [sock EXCEPT ![taken[d]] = "closed"]
  /\ Goto(d, "testDone")
  /\ UNCHANGED <<process, serving, streams, port, done, hub, reader, taken>>

(* Hub.Close: the test ... *)
TestDone(d) ==
  /\ At(d, "testDone")
  /\ Goto(d, IF done[taken[d]] THEN "done" ELSE "closeDone")
  /\ UNCHANGED <<process, serving, streams, port, sock, done, hub, reader, taken>>

(* ... and close(h.done). *)
CloseDone(d) ==
  /\ At(d, "closeDone")
  /\ done' = [done EXCEPT ![taken[d]] = TRUE]
  /\ Goto(d, "done")
  /\ UNCHANGED <<process, serving, streams, port, sock, hub, reader, taken>>

CloseStream(d) == CloseConn(d) \/ TestDone(d) \/ CloseDone(d)
-----------------------------------------------------------------------------
(***************************************************************************)
(* The goroutines of a stream                                              *)
(***************************************************************************)
(* Run takes done in its select. *)
HubReturns(s) ==
  /\ process = "running" /\ hub[s] = "running" /\ done[s]
  /\ hub' = [hub EXCEPT ![s] = "returned"]
  /\ UNCHANGED <<process, serving, pc, streams, port, sock, done, reader, taken>>

(***************************************************************************)
(* Run sends to a viewer whose writer has gone, or waits for the lock that *)
(* such a send holds, and never comes back to its select (run hub_wedge).  *)
(***************************************************************************)
HubBlocks(s) ==
  /\ process = "running" /\ hub[s] = "running"
  /\ hub' = [hub EXCEPT ![s] = "blocked"]
  /\ UNCHANGED <<process, serving, pc, streams, port, sock, done, reader, taken>>

(* ReadFrom fails because the socket has been closed. *)
ReaderReturns(s) ==
  /\ process = "running" /\ reader[s] = "reading" /\ sock[s] = "closed"
  /\ reader' = [reader EXCEPT ![s] = "returned"]
  /\ UNCHANGED <<process, serving, pc, streams, port, sock, done, hub, taken>>

(***************************************************************************)
(* ReadFrom fails on an open socket: the deferred close frees the port,    *)
(* and the stream stays in the map.                                        *)
(***************************************************************************)
ReaderFails(s) ==
  /\ process = "running" /\ reader[s] = "reading" /\ sock[s] = "open"
  /\ reader' = [reader EXCEPT ![s] = "failed"]
  /\ sock' = [sock EXCEPT ![s] = "closed"]
  /\ UNCHANGED <<process, serving, pc, streams, port, done, hub, taken>>
-----------------------------------------------------------------------------
(***************************************************************************)
(* main and serveHTTP                                                      *)
(***************************************************************************)
(* s.Start(): go s.serveHTTP(). *)
Start ==
  /\ At(Main, "start")
  /\ serving' = "spawned"
  /\ Goto(Main, "return")
  /\ UNCHANGED <<process, streams, port, sock, done, hub, reader, taken>>

(* main returns, and with it the process and every goroutine in it. *)
MainReturns ==
  /\ At(Main, "return")
  /\ process' = "exited"
  /\ Goto(Main, "done")
  /\ UNCHANGED <<serving, streams, port, sock, done, hub, reader, taken>>

ListenAndServe ==
  /\ process = "running" /\ serving = "spawned"
  /\ serving' = "listening"
  /\ UNCHANGED <<process, pc, streams, port, sock, done, hub, reader, taken>>

(* ListenAndServe returns an error: log.Fatal. *)
ServeFails ==
  /\ process = "running" /\ serving # "none"
  /\ process' = "exited"
  /\ UNCHANGED <<serving, pc, streams, port, sock, done, hub, reader, taken>>

Next ==
  \/ \E s \in Callers : CreateStream(s)
  \/ \E d \in Deletes : (\E p \in Ports : Unmap(d, p)) \/ CloseStream(d)
  \/ \E s \in Callers :
       HubReturns(s) \/ HubBlocks(s) \/ ReaderReturns(s) \/ ReaderFails(s)
  \/ Start \/ MainReturns \/ ListenAndServe \/ ServeFails

Spec == Init /\ [][Next]_vars

(***************************************************************************)
(* A goroutine that can run does run, main included.  Requests need not    *)
(* come, and readers need not fail.  A Run that always comes back to its   *)
(* select takes done in the end; one that blocks never does.               *)
(***************************************************************************)
GoroutinesRun ==
  /\ \A s \in Callers :
       /\ WF_vars(MakeTracks(s) \/ TracksFail(s)) /\ WF_vars(Insert(s)) /\ WF_vars(Spawn(s))
       /\ WF_vars(HubReturns(s)) /\ WF_vars(ReaderReturns(s))
  /\ \A d \in Deletes : WF_vars(CloseStream(d))

FairSpec ==
  /\ Spec /\ GoroutinesRun
  /\ WF_vars(Start) /\ WF_vars(MainReturns)
  /\ WF_vars(ListenAndServe \/ ServeFails)

(* As FairSpec, but main may take for ever to return. *)
LastingSpec == Spec /\ GoroutinesRun
-----------------------------------------------------------------------------
(***************************************************************************)
(* Safety                                                                  *)
(***************************************************************************)
Failed(s) == reader[s] = "failed"

(***************************************************************************)
(* The map tells the truth (server.go:255-257, 286-291): the entry of a    *)
(* port is a stream that listens on that port, unless its own reader has   *)
(* failed.  So a DELETE closes the stream of its port and a viewer is sent *)
(* to a stream that receives, whatever requests come at once and whatever  *)
(* happens to the readers of other streams.                                *)
(***************************************************************************)
MapMatchesSockets ==
  \A p \in Ports : streams[p] # None =>
    LET s == streams[p] IN port[s] = p /\ (sock[s] = "open" \/ Failed(s))

(***************************************************************************)
(* Two DELETE requests never close one hub: Hub.Close tests done and       *)
(* closes it in two steps (hub.go:122-128), and a second close panics.     *)
(***************************************************************************)
HubClosedOnce ==
  \A d \in Deletes : pc[d] = "closeDone" => ~done[taken[d]]

(***************************************************************************)
(* No stream is out of reach: a hub that runs and has not been closed is   *)
(* that of a stream in the map, or in the hand of a deleteStream that will *)
(* close it.  Only a stream whose own reader has failed can be lost, to    *)
(* the next stream on its port, which replaces it in the map.              *)
(***************************************************************************)
NoLostHub ==
  \A s \in Callers :
    hub[s] \in {"running", "blocked"} /\ ~done[s] /\ ~Failed(s) =>
      \/ streams[port[s]] = s
      \/ \E d \in Deletes : taken[d] = s /\ pc[d] \in {"closeConn", "testDone", "closeDone"}
-----------------------------------------------------------------------------
(***************************************************************************)
(* Liveness                                                                *)
(***************************************************************************)
(***************************************************************************)
(* A stream that has been taken out of the map ends, as long as the        *)
(* process is there: its socket and its hub are closed and its reader      *)
(* returns, even when the DELETE comes before createStream has started     *)
(* them.  Run returns as well, unless it has blocked in a broadcast        *)
(* (hub.go:83): a hub that is closed does not free it.                     *)
(***************************************************************************)
DeletedStreamEnds ==
  \A s \in Callers :
    (\E d \in Deletes : taken[d] = s) ~>
      \/ /\ sock[s] = "closed" /\ reader[s] \in {"returned", "failed"}
         /\ done[s] /\ hub[s] \in {"returned", "blocked"}
      \/ process = "exited"

(***************************************************************************)
(* "Start launches the hub, websocket server and begins consuming RTP      *)
(* packets." (server.go:63): once Start has returned, the websocket server *)
(* comes to listen, or the process ends with a fatal error.                *)
(***************************************************************************)
StartLaunchesServer ==
  pc[Main] = "return" ~> (serving = "listening" \/ (process = "exited" /\ pc[Main] = "return"))
-----------------------------------------------------------------------------
(***************************************************************************)
(* The server keeps the promise of PortLease to its streams: a socket is a *)
(* lease, and a stream in the map uses its port.                           *)
(***************************************************************************)
LeaseOf(p) ==
  IF Bound(p) THEN CHOOSE s \in Callers : sock[s] = "open" /\ port[s] = p ELSE None

UseOf(s) == IF sock[s] = "open" /\ streams[port[s]] = s THEN port[s] ELSE None

Lease == INSTANCE PortLease WITH
  Owners <- Callers,
  lease  <- [p \in Ports |-> LeaseOf(p)],
  inUse  <- [s \in Callers |-> UseOf(s)],
  lapsed <- {}

ImplementsPortLease == Lease!Spec
=============================================================================
