--------------------------------- MODULE Hub ---------------------------------
(***************************************************************************)
(* The viewer side of one stream of the WebRTC server: the hub's event     *)
(* loop (webrtc/ws/hub.go), and for every viewer the goroutines that       *)
(* websocketHandler (webrtc/server/server.go) starts around one ws.Client  *)
(* (webrtc/ws/client.go): the handler itself, which ends in ReadLoop, the  *)
(* WriteLoop, pion's OnICECandidate and OnConnectionStateChange callbacks. *)
(*                                                                         *)
(* Goroutines meet in three places: the channels Register and Unregister   *)
(* (capacity 1), the unbuffered channels Broadcast and client.Send, and    *)
(* the hub's RWMutex.  A goroutine blocked on one of them is a goroutine   *)
(* whose next action is not enabled.                                       *)
(***************************************************************************)
EXTENDS Naturals, Sequences, FiniteSets, SequencesExt

CONSTANTS Viewers,        \* the websocket requests made for this stream
          None,           \* "no client in hand"
          MaxCandidates,  \* bound: ICE candidates gathered per peer connection
          Unreliable,     \* viewers that may leave, misbehave or lose their path
          Deletes         \* whether deleteStream may be called for this stream

ASSUME ViewersAssumption == IsFiniteSet(Viewers)
ASSUME NoneAssumption == None \notin Viewers
ASSUME CandidatesAssumption == MaxCandidates \in Nat
ASSUME UnreliableAssumption == Unreliable \in SUBSET Viewers
ASSUME DeletesAssumption == Deletes \in BOOLEAN

VARIABLES
  stream,      \* deleteStream: "mapped", "unmapped" from s.streams, hub "closed"
  clients,     \* Hub.Clients
  register,    \* Hub.Register, buffered channel of capacity 1
  unregister,  \* Hub.Unregister, buffered channel of capacity 1
  infos,       \* infos[n]: SendInfo goroutines that hold "n connections"
  runPc,       \* where Hub.Run is
  runClient,   \* the client Run has in hand
  runLeft,     \* the clients Run's broadcast loop has not reached
  runInfo      \* the number of connections Run is broadcasting
VARIABLES
  handler,     \* handler[c]: where websocketHandler is for viewer c
  writer,      \* writer[c]: where c's WriteLoop is, or the message it is writing
  sendClosed,  \* sendClosed[c]: close(c.Send) has been called
  conn,        \* conn[c]: the server's end of the websocket
  peer,        \* peer[c]: the viewer is there and reachable
  offered,     \* offered[c]: the offer has reached the viewer
  ice,         \* ice[c]: pion's (sequential) OnICECandidate callback
  candidates,  \* candidates[c]: candidates still to be gathered
  peerConn,    \* peerConn[c]: "new", "remote" description set, or "closed"
  callbacks    \* callbacks[c]: state callbacks waiting on Unregister <- c

hubVars    == <<clients, register, unregister, infos, runPc, runClient, runLeft, runInfo>>
writerVars == <<writer, sendClosed, conn, offered>>
rtcVars    == <<ice, candidates, peerConn, callbacks>>
vars       == <<stream, hubVars, handler, writerVars, peer, rtcVars>>
-----------------------------------------------------------------------------
Messages  == {"offer", "candidate", "info"}
Counts    == 0 .. Cardinality(Viewers)

ASSUME MessagesAssumption == None \notin Messages

RunStates     == {"select", "lockAdd", "lockDelete", "closeSend", "sendInfo",
                  "lockDone", "returned"}
HandlerStates == {"idle", "found", "register", "offer", "sendOffer", "read",
                  "leave", "unregister", "returned"}
WriterStates  == {"none", "select", "exited"} \cup Messages

TypeOK ==
  /\ stream \in {"mapped", "unmapped", "closed"}
  /\ clients \in SUBSET Viewers
  /\ register \in Seq(Viewers) /\ Len(register) <= 1
  /\ unregister \in Seq(Viewers) /\ Len(unregister) <= 1
  /\ infos \in [Counts -> Nat]
  /\ runPc \in RunStates
  /\ runClient \in Viewers \cup {None}
  /\ runLeft \in SUBSET Viewers
  /\ runInfo \in Counts
  /\ handler \in [Viewers -> HandlerStates]
  /\ writer \in [Viewers -> WriterStates]
  /\ sendClosed \in [Viewers -> BOOLEAN]
  /\ conn \in [Viewers -> {"none", "open", "closed"}]
  /\ peer \in [Viewers -> BOOLEAN]
  /\ offered \in [Viewers -> BOOLEAN]
  /\ ice \in [Viewers -> {"idle", "sending"}]
  /\ candidates \in [Viewers -> 0 .. MaxCandidates]
  /\ peerConn \in [Viewers -> {"new", "remote", "closed"}]
  /\ callbacks \in [Viewers -> 0 .. 2]

(* NewHub, the stream just created by createStream, and no viewer yet. *)
Init ==
  /\ stream = "mapped"
  /\ clients = {} /\ register = <<>> /\ unregister = <<>>
  /\ infos = [n \in Counts |-> 0]
  /\ runPc = "select" /\ runClient = None /\ runLeft = {} /\ runInfo = 0
  /\ handler = [c \in Viewers |-> "idle"]
  /\ writer = [c \in Viewers |-> "none"]
  /\ sendClosed = [c \in Viewers |-> FALSE]
  /\ conn = [c \in Viewers |-> "none"]
  /\ peer = [c \in Viewers |-> TRUE]
  /\ offered = [c \in Viewers |-> FALSE]
  /\ ice = [c \in Viewers |-> "idle"]
  /\ candidates = [c \in Viewers |-> MaxCandidates]
  /\ peerConn = [c \in Viewers |-> "new"]
  /\ callbacks = [c \in Viewers |-> 0]
-----------------------------------------------------------------------------
(***************************************************************************)
(* The RWMutex.  Only Run calls Lock; a pending Lock keeps new readers out *)
(* and waits for the readers inside.  Run's own read sections exclude      *)
(* nobody, because nobody else ever writes.                                *)
(***************************************************************************)
LockPending == runPc \in {"lockAdd", "lockDelete", "lockDone"}
\* Faulty: the handler releases the read lock before it sends the offer.
RLockHeldByCallbacks == \E c \in Viewers : ice[c] = "sending"

RLockHeld   == \E c \in Viewers : handler[c] = "sendOffer" \/ ice[c] = "sending"

(* Hub.Closed: the done channel is closed. *)
Closed == stream = "closed"

(* A send on the unbuffered c.Send meets c's WriteLoop in its select. *)
HandOver(c, msg) ==
  /\ writer[c] = "select"
  /\ writer' = [writer EXCEPT ![c] = msg]

(* go h.SendInfo(h.GetInfo()): the number is taken now, sent later. *)
SpawnSendInfo(n) == infos' = [infos EXCEPT ![n] = @ + 1]
-----------------------------------------------------------------------------
(***************************************************************************)
(* Hub.Run                                                                 *)
(***************************************************************************)
RunRegister ==
  /\ runPc = "select" /\ register # <<>>
  /\ runClient' = Head(register) /\ register' = Tail(register)
  /\ runPc' = "lockAdd"
  /\ UNCHANGED <<stream, clients, unregister, infos, runLeft, runInfo,
                 handler, writerVars, peer, rtcVars>>

\* Faulty: SendInfo is called without "go", so Run waits for itself.
RunAddSendsInfoItself ==
  /\ runPc = "lockAdd" /\ ~RLockHeld
  /\ clients' = clients \cup {runClient}
  /\ SpawnSendInfo(Cardinality(clients'))
  /\ runPc' = "sendItself"
  /\ UNCHANGED <<stream, register, unregister, runClient, runLeft, runInfo,
                 handler, writerVars, peer, rtcVars>>

RunAdd ==
  /\ runPc = "lockAdd" /\ ~RLockHeld
  /\ clients' = clients \cup {runClient}
  /\ SpawnSendInfo(Cardinality(clients'))
  /\ runPc' = "select" /\ runClient' = None
  /\ UNCHANGED <<stream, register, unregister, runLeft, runInfo,
                 handler, writerVars, peer, rtcVars>>

\* Faulty: the client is not looked up before it is removed.
RunUnregisterUnchecked ==
  /\ runPc = "select" /\ unregister # <<>>
  /\ unregister' = Tail(unregister)
  /\ runPc' = "lockDelete" /\ runClient' = Head(unregister)
  /\ UNCHANGED <<stream, clients, register, infos, runLeft, runInfo,
                 handler, writerVars, peer, rtcVars>>

(* The client is looked up under RLock; an unknown client is ignored. *)
RunUnregister ==
  /\ runPc = "select" /\ unregister # <<>>
  /\ unregister' = Tail(unregister)
  /\ IF Head(unregister) \in clients
       THEN runPc' = "lockDelete" /\ runClient' = Head(unregister)
       ELSE UNCHANGED <<runPc, runClient>>
  /\ UNCHANGED <<stream, clients, register, infos, runLeft, runInfo,
                 handler, writerVars, peer, rtcVars>>

\* Faulty: the client is deleted without taking the write lock.
RunDeleteUnlocked ==
  /\ runPc = "lockDelete"
  /\ clients' = clients \ {runClient}
  /\ runPc' = "closeSend"
  /\ UNCHANGED <<stream, register, unregister, infos, runClient, runLeft,
                 runInfo, handler, writerVars, peer, rtcVars>>

RunDelete ==
  /\ runPc = "lockDelete" /\ ~RLockHeld
  /\ clients' = clients \ {runClient}
  /\ runPc' = "closeSend"
  /\ UNCHANGED <<stream, register, unregister, infos, runClient, runLeft,
                 runInfo, handler, writerVars, peer, rtcVars>>

\* Faulty: SendInfo is called without "go" when a client leaves.
RunCloseSendsInfoItself ==
  /\ runPc = "closeSend"
  /\ conn' = [conn EXCEPT ![runClient] = "closed"]
  /\ sendClosed' = [sendClosed EXCEPT ![runClient] = TRUE]
  /\ runPc' = "sendItself"
  /\ UNCHANGED <<stream, clients, register, unregister, infos, runClient, runLeft,
                 runInfo, handler, writer, offered, peer, rtcVars>>

(* client.conn.Close(); close(client.Send); go h.SendInfo(h.GetInfo()) *)
RunCloseSend ==
  /\ runPc = "closeSend"
  /\ conn' = [conn EXCEPT ![runClient] = "closed"]
  /\ sendClosed' = [sendClosed EXCEPT ![runClient] = TRUE]
  /\ SpawnSendInfo(Cardinality(clients))
  /\ runPc' = "select" /\ runClient' = None
  /\ UNCHANGED <<stream, clients, register, unregister, runLeft, runInfo,
                 handler, writer, offered, peer, rtcVars>>

(***************************************************************************)
(* Run receives from Broadcast what some SendInfo goroutine sends; the     *)
(* goroutines started earlier may well come later.  The loop over the map  *)
(* takes the clients in any order and blocks on the one it has taken.      *)
(***************************************************************************)
NextReceiver(left, n) ==
  \/ /\ left = {}
     /\ runPc' = "select" /\ runClient' = None /\ runLeft' = {} /\ runInfo' = 0
  \/ /\ runPc' = "sendInfo" /\ runInfo' = n
     /\ \E c \in left : runClient' = c /\ runLeft' = left \ {c}

\* Faulty: Broadcast is not received from while there is nobody to tell.
RunBroadcastToSome ==
  /\ runPc = "select" /\ clients # {}
  /\ \E n \in Counts :
       /\ infos[n] > 0
       /\ infos' = [infos EXCEPT ![n] = @ - 1]
       /\ NextReceiver(clients, n)
  /\ UNCHANGED <<stream, clients, register, unregister,
                 handler, writerVars, peer, rtcVars>>

RunBroadcast ==
  /\ runPc = "select"
  /\ \E n \in Counts :
       /\ infos[n] > 0
       /\ infos' = [infos EXCEPT ![n] = @ - 1]
       /\ NextReceiver(clients, n)
  /\ UNCHANGED <<stream, clients, register, unregister,
                 handler, writerVars, peer, rtcVars>>

RunSendInfo ==
  /\ runPc = "sendInfo"
  /\ HandOver(runClient, "info")
  /\ NextReceiver(runLeft, runInfo)
  /\ UNCHANGED <<stream, clients, register, unregister, infos,
                 handler, sendClosed, conn, offered, peer, rtcVars>>

RunDone ==
  /\ runPc = "select" /\ Closed
  /\ runPc' = "lockDone"
  /\ UNCHANGED <<stream, clients, register, unregister, infos, runClient,
                 runLeft, runInfo, handler, writerVars, peer, rtcVars>>

\* Faulty: Send is closed and the connection left to the WriteLoop.
RunShutdownKeepsConns ==
  /\ runPc = "lockDone" /\ ~RLockHeld
  /\ sendClosed' = [c \in Viewers |-> sendClosed[c] \/ c \in clients]
  /\ clients' = {}
  /\ runPc' = "returned"
  /\ UNCHANGED <<stream, register, unregister, infos, runClient, runLeft, runInfo,
                 handler, writer, conn, offered, peer, rtcVars>>

RunShutdown ==
  /\ runPc = "lockDone" /\ ~RLockHeld
  /\ conn' = [c \in Viewers |-> IF c \in clients THEN "closed" ELSE conn[c]]
  /\ sendClosed' = [c \in Viewers |-> sendClosed[c] \/ c \in clients]
  /\ clients' = {}
  /\ runPc' = "returned"
  /\ UNCHANGED <<stream, register, unregister, infos, runClient, runLeft, runInfo,
                 handler, writer, offered, peer, rtcVars>>

Run ==
  \/ RunRegister \/ RunAdd
  \/ RunUnregister \/ RunDelete \/ RunCloseSend
  \/ RunBroadcast \/ RunSendInfo
  \/ RunDone \/ RunShutdown
-----------------------------------------------------------------------------
(***************************************************************************)
(* Server.deleteStream: the stream leaves the map under the server's       *)
(* mutex, so only one caller gets it; the hub is closed afterwards.        *)
(***************************************************************************)
UnmapStream ==
  /\ Deletes
  /\ stream = "mapped" /\ stream' = "unmapped"
  /\ UNCHANGED <<hubVars, handler, writerVars, peer, rtcVars>>

CloseHub ==
  /\ stream = "unmapped" /\ stream' = "closed"
  /\ UNCHANGED <<hubVars, handler, writerVars, peer, rtcVars>>
-----------------------------------------------------------------------------
(***************************************************************************)
(* websocketHandler for viewer c                                           *)
(***************************************************************************)
Goto(c, pc) == handler' = [handler EXCEPT ![c] = pc]

(* The stream is looked up under the mutex; an unknown one is a 404. *)
LookupStream(c) ==
  /\ handler[c] = "idle"
  /\ Goto(c, IF stream = "mapped" THEN "found" ELSE "returned")
  /\ UNCHANGED <<stream, hubVars, writerVars, peer, rtcVars>>

(* Upgrade, NewPeerConnection or AddTransceiverFromTrack fails. *)
SetupFails(c) ==
  /\ handler[c] = "found"
  /\ Goto(c, "returned")
  /\ UNCHANGED <<stream, hubVars, writerVars, peer, rtcVars>>

(* Upgrade, the peer connection and its tracks, go c.WriteLoop(). *)
AcceptViewer(c) ==
  /\ handler[c] = "found"
  /\ Goto(c, "register")
  /\ conn' = [conn EXCEPT ![c] = "open"]
  /\ writer' = [writer EXCEPT ![c] = "select"]
  /\ UNCHANGED <<stream, hubVars, sendClosed, offered, peer, rtcVars>>

\* Faulty: the send to Register has a default, the handler goes on without it.
SendRegisterOrSkip(c) ==
  /\ handler[c] = "register"
  /\ register' = IF register = <<>> THEN <<c>> ELSE register
  /\ Goto(c, "offer")
  /\ UNCHANGED <<stream, clients, unregister, infos, runPc, runClient, runLeft,
                 runInfo, writerVars, peer, rtcVars>>

\* Faulty: Register is used as if it had no bound.
SendRegisterUnbounded(c) ==
  /\ handler[c] = "register"
  /\ register' = Append(register, c)
  /\ Goto(c, "offer")
  /\ UNCHANGED <<stream, clients, unregister, infos, runPc, runClient, runLeft,
                 runInfo, writerVars, peer, rtcVars>>

(***************************************************************************)
(* stream.hub.Register <- c; then the callbacks are installed, the offer   *)
(* is made and SetLocalDescription starts the gathering of candidates.     *)
(***************************************************************************)
SendRegister(c) ==
  /\ handler[c] = "register" /\ Len(register) < 1
  /\ register' = Append(register, c)
  /\ Goto(c, "offer")
  /\ UNCHANGED <<stream, clients, unregister, infos, runPc, runClient, runLeft,
                 runInfo, writerVars, peer, rtcVars>>

(* hub.RLock(); the offer is for a client that is in hub.Clients by now. *)
CheckOffer(c) ==
  /\ handler[c] = "offer" /\ ~LockPending
  /\ Goto(c, IF c \in clients THEN "sendOffer" ELSE "read")
  /\ UNCHANGED <<stream, hubVars, writerVars, peer, rtcVars>>

SendOffer(c) ==
  /\ handler[c] = "sendOffer"
  /\ HandOver(c, "offer")
  /\ Goto(c, "read")
  /\ UNCHANGED <<stream, hubVars, sendClosed, conn, offered, peer, rtcVars>>

(* ReadLoop: the viewer's answer is set as the remote description. *)
ReadAnswer(c) ==
  /\ handler[c] = "read" /\ conn[c] = "open" /\ peer[c]
  /\ offered[c] /\ peerConn[c] = "new"
  /\ peerConn' = [peerConn EXCEPT ![c] = "remote"]
  /\ UNCHANGED <<stream, hubVars, handler, writerVars, peer, ice, candidates, callbacks>>

(* ReadLoop: a message cannot be decoded or pion refuses it. *)
ReadReject(c) ==
  /\ c \in Unreliable
  /\ handler[c] = "read" /\ conn[c] = "open" /\ peer[c]
  /\ Goto(c, "leave")
  /\ UNCHANGED <<stream, hubVars, writerVars, peer, rtcVars>>

(* ReadLoop: ReadMessage fails, on a closed connection or after pongWait. *)
ReadError(c) ==
  /\ handler[c] = "read" /\ (conn[c] = "closed" \/ ~peer[c])
  /\ Goto(c, "leave")
  /\ UNCHANGED <<stream, hubVars, writerVars, peer, rtcVars>>

(***************************************************************************)
(* PeerConnection.Close (pion): the first call starts a goroutine that     *)
(* reports "closed" to OnConnectionStateChange.                            *)
(***************************************************************************)
ClosePeerConnection(c, others) ==
  /\ peerConn' = [peerConn EXCEPT ![c] = "closed"]
  /\ callbacks' = [callbacks EXCEPT ![c] =
       @ + others + (IF peerConn[c] = "closed" THEN 0 ELSE 1)]

(* conn.Close(), and the handler's own deferred closes. *)
HandlerReturns(c) ==
  /\ Goto(c, "returned")
  /\ conn' = [conn EXCEPT ![c] = "closed"]
  /\ ClosePeerConnection(c, 0)
  /\ UNCHANGED <<writer, sendClosed, offered, peer, ice, candidates>>

(* ReadLoop's deferred function asks whether the hub is closed ... *)
LeaveClosedHub(c) ==
  /\ handler[c] = "leave" /\ Closed
  /\ HandlerReturns(c)
  /\ UNCHANGED <<stream, hubVars>>

LeaveOpenHub(c) ==
  /\ handler[c] = "leave" /\ ~Closed
  /\ Goto(c, "unregister")
  /\ UNCHANGED <<stream, hubVars, writerVars, peer, rtcVars>>

(* ... and if not, does hub.Unregister <- c. *)
SendUnregister(c) ==
  /\ handler[c] = "unregister" /\ Len(unregister) < 1
  /\ unregister' = Append(unregister, c)
  /\ HandlerReturns(c)
  /\ UNCHANGED <<stream, clients, register, infos, runPc, runClient, runLeft,
                 runInfo>>

HandlerStep(c) ==
  \/ SendRegister(c) \/ CheckOffer(c) \/ SendOffer(c)
  \/ ReadError(c) \/ LeaveClosedHub(c) \/ LeaveOpenHub(c) \/ SendUnregister(c)
-----------------------------------------------------------------------------
(***************************************************************************)
(* Callbacks of the peer connection                                        *)
(***************************************************************************)
(* OnICECandidate: RLock, and the candidate is for a registered client. *)
IceCandidate(c) ==
  /\ handler[c] \notin {"idle", "found", "register"}
  /\ writer[c] # "none" /\ ice[c] = "idle" /\ candidates[c] > 0 /\ ~LockPending
  /\ candidates' = [candidates EXCEPT ![c] = @ - 1]
  /\ ice' = [ice EXCEPT ![c] = IF c \in clients THEN "sending" ELSE "idle"]
  /\ UNCHANGED <<stream, hubVars, handler, writerVars, peer, peerConn, callbacks>>

IceSend(c) ==
  /\ ice[c] = "sending"
  /\ HandOver(c, "candidate")
  /\ ice' = [ice EXCEPT ![c] = "idle"]
  /\ UNCHANGED <<stream, hubVars, handler, sendClosed, conn, offered, peer,
                 candidates, peerConn, callbacks>>

(* OnConnectionStateChange("failed") closes the peer connection first. *)
PeerFailed(c) ==
  /\ c \in Unreliable
  /\ peerConn[c] = "remote"
  /\ ClosePeerConnection(c, 1)
  /\ UNCHANGED <<stream, hubVars, handler, writerVars, peer, ice, candidates>>

(* stream.hub.Unregister <- c, whether the hub is closed or not. *)
CallbackUnregister(c) ==
  /\ callbacks[c] > 0 /\ Len(unregister) < 1
  /\ callbacks' = [callbacks EXCEPT ![c] = @ - 1]
  /\ unregister' = Append(unregister, c)
  /\ UNCHANGED <<stream, clients, register, infos, runPc, runClient, runLeft,
                 runInfo, handler, writerVars, peer, ice, candidates, peerConn>>
-----------------------------------------------------------------------------
(***************************************************************************)
(* Client.WriteLoop, and the viewer at the other end of the websocket      *)
(***************************************************************************)
(* Bytes for a viewer that is gone may still fit the kernel's buffer. *)
WriteMessage(c) ==
  /\ writer[c] \in Messages /\ conn[c] = "open"
  /\ writer' = [writer EXCEPT ![c] = "select"]
  /\ offered' = [offered EXCEPT ![c] = @ \/ (peer[c] /\ writer[c] = "offer")]
  /\ UNCHANGED <<stream, hubVars, handler, sendClosed, conn, peer, rtcVars>>

WriterExit(c) ==
  /\ writer' = [writer EXCEPT ![c] = "exited"]
  /\ conn' = [conn EXCEPT ![c] = "closed"]
  /\ UNCHANGED <<stream, hubVars, handler, sendClosed, offered, peer, rtcVars>>

\* Faulty: no write deadline, a write to a closed connection never returns.
WriteFailsNever(c) == writer[c] \in Messages /\ FALSE /\ WriterExit(c)

(* The connection is closed, or writeWait passes without progress. *)
WriteFails(c) ==
  /\ writer[c] \in Messages /\ (conn[c] = "closed" \/ ~peer[c])
  /\ WriterExit(c)

(* The hub closed c.Send. *)
WriteSendClosed(c) ==
  /\ writer[c] = "select" /\ sendClosed[c]
  /\ WriterExit(c)

(* The ticker's ping fails; a ping that succeeds changes nothing. *)
PingFails(c) ==
  /\ writer[c] = "select" /\ (conn[c] = "closed" \/ ~peer[c])
  /\ WriterExit(c)

WriteLoop(c) ==
  WriteMessage(c) \/ WriteFails(c) \/ WriteSendClosed(c) \/ PingFails(c)

(* The viewer closes the page, or the network between them is cut. *)
PeerGone(c) ==
  /\ c \in Unreliable
  /\ conn[c] = "open" /\ peer[c]
  /\ peer' = [peer EXCEPT ![c] = FALSE]
  /\ UNCHANGED <<stream, hubVars, handler, writerVars, rtcVars>>
-----------------------------------------------------------------------------
ViewerStep(c) ==
  \/ LookupStream(c) \/ SetupFails(c) \/ AcceptViewer(c)
  \/ HandlerStep(c) \/ ReadAnswer(c) \/ ReadReject(c)
  \/ IceCandidate(c) \/ IceSend(c) \/ PeerFailed(c) \/ CallbackUnregister(c)
  \/ WriteLoop(c) \/ PeerGone(c)

Next == Run \/ UnmapStream \/ CloseHub \/ \E c \in Viewers : ViewerStep(c)

Spec == Init /\ [][Next]_vars

(***************************************************************************)
(* A goroutine that can run does run.  Viewers, their messages, ICE        *)
(* failures, gathered candidates and calls of deleteStream are not due.    *)
(***************************************************************************)
Fairness ==
  /\ WF_vars(Run) /\ WF_vars(CloseHub)
  /\ \A c \in Viewers :
       /\ WF_vars(AcceptViewer(c) \/ SetupFails(c))
       /\ WF_vars(HandlerStep(c))
       /\ WF_vars(WriteLoop(c))
       /\ WF_vars(IceSend(c))
       /\ WF_vars(CallbackUnregister(c))

FairSpec == Spec /\ Fairness
-----------------------------------------------------------------------------
(***************************************************************************)
(* Safety                                                                  *)
(***************************************************************************)
(***************************************************************************)
(* "lock to prevent write to closed channel" (hub.go:34).  No goroutine is *)
(* at a send on c.Send, about to send or blocked in it, once Run has       *)
(* closed c.Send: the send would panic and take the whole server down.     *)
(* Run closes the channel after it has released the lock, so this rests on *)
(* the senders' membership test and the order of delete and close.         *)
(***************************************************************************)
NoSendOnClosed ==
  \A c \in Viewers : sendClosed[c] =>
    /\ handler[c] # "sendOffer"
    /\ ice[c] # "sending"
    /\ ~(runPc = "sendInfo" /\ runClient = c)

(***************************************************************************)
(* Run never closes a Send channel twice (a second close panics), although *)
(* one viewer sends up to three Unregister messages: ReadLoop's deferred   *)
(* function and the "failed" and "closed" callbacks (hub.go:67-95).        *)
(***************************************************************************)
NoDoubleClose ==
  /\ \A c \in clients : ~sendClosed[c]
  /\ runPc = "closeSend" => ~sendClosed[runClient]

(***************************************************************************)
(* An Unregister is never lost on a viewer that stays: the one the hub is  *)
(* about to receive is for a client in Clients, for one it has closed, or  *)
(* for one whose Register is waiting in the other channel.  Only in the    *)
(* last case, select having taken them in the wrong order (hub.go:60-67),  *)
(* is it ignored and the client added afterwards.                          *)
(***************************************************************************)
UnregisterFindsClient ==
  \A c \in Viewers : runPc = "select" /\ Contains(unregister, c) =>
    c \in clients \/ sendClosed[c] \/ Contains(register, c)

(***************************************************************************)
(* "Close ... shuts down all clients" (hub.go:121): when Run has returned, *)
(* a websocket is open only if its handler looked the stream up before the *)
(* deletion and registers with a hub that has stopped (server.go:129,176). *)
(***************************************************************************)
ShutdownReachesClients ==
  \A c \in Viewers : runPc = "returned" /\ conn[c] = "open" =>
    handler[c] = "register" \/ Contains(register, c)
-----------------------------------------------------------------------------
(***************************************************************************)
(* Liveness                                                                *)
(***************************************************************************)
BlockedOnDeadWriter ==
  \E c \in Viewers :
    /\ writer[c] = "exited"
    /\ \/ handler[c] = "sendOffer"
       \/ ice[c] = "sending"
       \/ runPc = "sendInfo" /\ runClient = c

(***************************************************************************)
(* Run always comes back to its select (or returns), unless a send waits   *)
(* for a WriteLoop that has exited: neither the RWMutex, nor the order of  *)
(* goroutines, nor a slow write, nor a full channel can hold it up.        *)
(***************************************************************************)
RunReturnsToSelect ==
  runPc \notin {"select", "returned"}
    ~> (runPc \in {"select", "returned"} \/ BlockedOnDeadWriter)

(***************************************************************************)
(* Every viewer whose handler gets to the Register send is added to        *)
(* Clients, however registrations, departures, the broadcasts they cause   *)
(* and the candidates of the others interleave, unless the stream is       *)
(* deleted or a send waits for a WriteLoop that has exited.                *)
(***************************************************************************)
ViewerJoins ==
  \A c \in Viewers :
    handler[c] = "register" ~> (c \in clients \/ stream # "mapped" \/ BlockedOnDeadWriter)

(***************************************************************************)
(* The goroutines of a viewer that leaves come to their end: the handler   *)
(* in ReadLoop's deferred function returns, and the state callbacks of the *)
(* peer connection it closes are through with Unregister (client.go:41-43, *)
(* server.go:202-204), unless the stream is deleted or a send waits for a  *)
(* WriteLoop that has exited.                                              *)
(***************************************************************************)
LeaversReturn ==
  \A c \in Viewers :
    handler[c] = "leave" ~>
      \/ handler[c] = "returned" /\ callbacks[c] = 0
      \/ stream # "mapped" \/ BlockedOnDeadWriter

(***************************************************************************)
(* Every SendInfo goroutine gets its message to Run (hub.go:115), although *)
(* Run may receive them in any order and each registration or departure    *)
(* starts another, with the same two exceptions.                           *)
(***************************************************************************)
InfosAreSent ==
  (\E n \in Counts : infos[n] > 0) ~>
    (\A n \in Counts : infos[n] = 0) \/ stream # "mapped" \/ BlockedOnDeadWriter
-----------------------------------------------------------------------------
(***************************************************************************)
(* What comments of the code say and the code does not do                  *)
(***************************************************************************)
(***************************************************************************)
(* "Run is the main hub event loop handling register, unregister and       *)
(* broadcast events." (hub.go:58): a client in Register is added or the    *)
(* hub has been closed.                                                    *)
(***************************************************************************)
RegisterIsHandled ==
  \A c \in Viewers : Contains(register, c) ~> (c \in clients \/ stream # "mapped")

OfferUnderWay(c) == offered[c] \/ writer[c] = "offer"

(***************************************************************************)
(* "websocketHandler negotiates a single WebRTC peer connection over       *)
(* websocket." (server.go:119): a viewer of a live stream whose handler    *)
(* has gone on to ReadLoop has been sent the offer.                        *)
(***************************************************************************)
OfferIsSent ==
  \A c \in Viewers :
    handler[c] = "read" /\ stream = "mapped" /\ peer[c] /\ conn[c] = "open"
      => OfferUnderWay(c)
-----------------------------------------------------------------------------
(***************************************************************************)
(* The hub keeps the promise of Roster.  A client is a member while it is  *)
(* in Clients, and out once Run has removed it or closed its Send channel. *)
(***************************************************************************)
Status(c) ==
  IF c \in clients THEN "member"
  ELSE IF sendClosed[c] \/ (runPc = "closeSend" /\ runClient = c) THEN "out"
  ELSE "absent"

InWriter(c) == IF writer[c] \in Messages THEN writer[c] ELSE None

Promise == INSTANCE Roster WITH
  status    <- [c \in Viewers |-> Status(c)],
  inbox     <- [c \in Viewers |-> InWriter(c)],
  disbanded <- runPc = "returned"

ImplementsRoster == Promise!Spec
=============================================================================
