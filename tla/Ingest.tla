------------------------------- MODULE Ingest -------------------------------
(***************************************************************************)
(* The FTL ingest service (ingest/src).  Every accepted TCP connection is  *)
(* a session with two tasks (Connection::init): the frame task, which      *)
(* reads commands from the encoder and writes replies to it, and the       *)
(* connection task, which handles the commands, asks the WebRTC server for *)
(* a UDP port and tells the auth service when a stream starts and ends.    *)
(* They talk over two channels of capacity 2.                              *)
(*                                                                         *)
(* The WebRTC server appears as the set of streams it hosts, the auth      *)
(* service as the events that have reached it.                             *)
(***************************************************************************)
EXTENDS Naturals, Sequences, FiniteSets

CONSTANTS Sessions,     \* the TCP connections encoders make
          Ports,        \* the UDP ports the WebRTC server may be given
          Keys,         \* the stream keys encoders use
          None,         \* Rust's None
          Commands,     \* what encoders send, a subset of CommandKinds
          Losses,       \* how encoders go away, a subset of {"closed", "silent"}
          Faults,       \* services whose exchanges fail, a subset of Services
          MaxRestarts,  \* bound: restarts of the WebRTC server
          MaxExits      \* bound: exits of the ingest process

(***************************************************************************)
(* What FtlCodec::decode makes of a frame: "badAttribute" is a Video or    *)
(* Audio attribute that is neither true nor false, "unsupported" any frame *)
(* on which decode fails or panics.                                        *)
(***************************************************************************)
CommandKinds == {"HMAC", "Connect", "Attribute", "badAttribute", "Ping", "Dot",
                 "Disconnect", "unsupported"}

Replies  == {"payload", "ok", "empty", "pong", "port", "failed"}
Services == {"webrtc", "auth"}

ASSUME NoneAssumption ==
  None \notin Sessions \cup Ports \cup Keys \cup CommandKinds \cup Replies
ASSUME CommandsAssumption == Commands \subseteq CommandKinds
ASSUME LossesAssumption == Losses \subseteq {"closed", "silent"}
ASSUME FaultsAssumption == Faults \subseteq Services
ASSUME BoundsAssumption == MaxRestarts \in Nat /\ MaxExits \in Nat

VARIABLES
  encoder,    \* encoder[s]: "there", or how it went away
  frame,      \* frame[s]: where the frame task is
  command,    \* command[s]: the command the frame task has read
  toConn,     \* toConn[s]: the channel frame_send -> conn_receive
  conn,       \* conn[s]: where the connection task is
  reply,      \* reply[s]: the reply the connection task has made
  toFrame,    \* toFrame[s]: the channel conn_send -> frame_receive
  streamKey,  \* streamKey[s]: state.stream_key
  rtpPort,    \* rtpPort[s]: state.rtp_port
  answer      \* answer[s]: the port in the WebRTC server's answer
VARIABLES
  hosted,     \* hosted[p]: the session the server's stream on p was made for
  deaf,       \* ports whose entry in the server's map has lost its reader
  lapsed,     \* history: ports on which a reader failed or a restart lost a stream
  started,    \* started[s]: keys whose start has reached the auth service
  stopped,    \* stopped[s]: keys whose end has reached it
  lost,       \* lost[s]: the services that have failed a request of s
  restarts, exits

taskVars   == <<frame, command, toConn, conn, reply, toFrame>>
stateVars  == <<streamKey, rtpPort, answer>>
serverVars == <<hosted, deaf, lapsed>>
authVars   == <<started, stopped>>
countVars  == <<restarts, exits>>
vars       == <<encoder, taskVars, stateVars, serverVars, authVars, lost, countVars>>
-----------------------------------------------------------------------------
Handled == CommandKinds \ {"unsupported"}

FrameStates == {"idle", "read", "send", "recv", "write", "ended"}
ConnStates  == {"idle", "recv", "notifyStart", "awaitAuth", "allocate", "awaitPort",
                "reply", "notifyEnd", "free", "ended"}

TypeOK ==
  /\ encoder \in [Sessions -> {"there", "closed", "silent"}]
  /\ frame \in [Sessions -> FrameStates]
  /\ command \in [Sessions -> Handled \cup {None}]
  /\ toConn \in [Sessions -> Seq(Handled)]
  /\ conn \in [Sessions -> ConnStates]
  /\ reply \in [Sessions -> Replies \cup {None}]
  /\ toFrame \in [Sessions -> Seq(Replies)]
  /\ streamKey \in [Sessions -> Keys \cup {None}]
  /\ rtpPort \in [Sessions -> Ports \cup {None}]
  /\ answer \in [Sessions -> Ports \cup {None}]
  /\ hosted \in [Ports -> Sessions \cup {None}]
  /\ deaf \subseteq lapsed /\ lapsed \subseteq Ports
  /\ started \in [Sessions -> SUBSET Keys]
  /\ stopped \in [Sessions -> SUBSET Keys]
  /\ lost \in [Sessions -> SUBSET Services]
  /\ restarts \in 0 .. MaxRestarts
  /\ exits \in 0 .. MaxExits

Init ==
  /\ encoder = [s \in Sessions |-> "there"]
  /\ frame = [s \in Sessions |-> "idle"]
  /\ command = [s \in Sessions |-> None]
  /\ toConn = [s \in Sessions |-> <<>>]
  /\ conn = [s \in Sessions |-> "idle"]
  /\ reply = [s \in Sessions |-> None]
  /\ toFrame = [s \in Sessions |-> <<>>]
  /\ streamKey = [s \in Sessions |-> None]
  /\ rtpPort = [s \in Sessions |-> None]
  /\ answer = [s \in Sessions |-> None]
  /\ hosted = [p \in Ports |-> None]
  /\ deaf = {} /\ lapsed = {}
  /\ started = [s \in Sessions |-> {}]
  /\ stopped = [s \in Sessions |-> {}]
  /\ lost = [s \in Sessions |-> {}]
  /\ restarts = 0 /\ exits = 0
-----------------------------------------------------------------------------
GotoFrame(s, pc) == frame' = [frame EXCEPT ![s] = pc]
GotoConn(s, pc)  == conn' = [conn EXCEPT ![s] = pc]

(* main: listener.accept() yields a socket; ConnectionState::new(). *)
Accept(s) ==
  /\ frame[s] = "idle"
  /\ GotoFrame(s, "read") /\ GotoConn(s, "recv")
  /\ UNCHANGED <<encoder, command, toConn, reply, toFrame, stateVars, serverVars,
                 authVars, lost, countVars>>

(***************************************************************************)
(* main: listener.accept().await? returns an error, main returns it, the   *)
(* runtime drops every task where it stands, the container is restarted.   *)
(***************************************************************************)
AcceptFails ==
  /\ exits < MaxExits
  /\ exits' = exits + 1
  /\ frame' = [s \in Sessions |-> IF frame[s] = "idle" THEN "idle" ELSE "ended"]
  /\ conn' = [s \in Sessions |-> IF conn[s] = "idle" THEN "idle" ELSE "ended"]
  /\ UNCHANGED <<encoder, command, toConn, reply, toFrame, stateVars, serverVars,
                 authVars, lost, restarts>>
-----------------------------------------------------------------------------
(***************************************************************************)
(* The frame task                                                          *)
(***************************************************************************)
(***************************************************************************)
(* frame.next(): a whole frame is there.  A frame the encoder sent before  *)
(* it went away counts as read before that.                                *)
(***************************************************************************)
FrameRead(s, cmd) ==
  /\ frame[s] = "read" /\ encoder[s] = "there"
  /\ IF cmd = "unsupported"
       THEN GotoFrame(s, "ended") /\ UNCHANGED command
       ELSE GotoFrame(s, "send") /\ command' = [command EXCEPT ![s] = cmd]
  /\ UNCHANGED <<encoder, toConn, conn, reply, toFrame, stateVars, serverVars,
                 authVars, lost, countVars>>

(* frame.next(): end of file, or an error of the socket. *)
FrameEof(s) ==
  /\ frame[s] = "read" /\ encoder[s] # "there"
  /\ GotoFrame(s, "ended")
  /\ UNCHANGED <<encoder, command, toConn, conn, reply, toFrame, stateVars, serverVars,
                 authVars, lost, countVars>>

\* Faulty: the next frame is read without waiting for the reply.
FrameSendPipelined(s) ==
  /\ frame[s] = "send"
  /\ IF conn[s] = "ended"
       THEN GotoFrame(s, "ended") /\ UNCHANGED toConn
       ELSE /\ Len(toConn[s]) < 2
            /\ toConn' = [toConn EXCEPT ![s] = Append(@, command[s])]
            /\ GotoFrame(s, "read")
  /\ command' = [command EXCEPT ![s] = None]
  /\ UNCHANGED <<encoder, conn, reply, toFrame, stateVars, serverVars, authVars, lost,
                 countVars>>

(* frame_send.send(command): fails when the connection task has returned. *)
FrameSend(s) ==
  /\ frame[s] = "send"
  /\ IF conn[s] = "ended"
       THEN GotoFrame(s, "ended") /\ UNCHANGED toConn
       ELSE /\ Len(toConn[s]) < 2
            /\ toConn' = [toConn EXCEPT ![s] = Append(@, command[s])]
            /\ GotoFrame(s, "recv")
  /\ command' = [command EXCEPT ![s] = None]
  /\ UNCHANGED <<encoder, conn, reply, toFrame, stateVars, serverVars, authVars, lost,
                 countVars>>

(* frame_receive.recv() yields a reply; the first item is about to be written. *)
FrameReceive(s) ==
  /\ frame[s] = "recv" /\ toFrame[s] # <<>>
  /\ toFrame' = [toFrame EXCEPT ![s] = Tail(@)]
  /\ GotoFrame(s, "write")
  /\ UNCHANGED <<encoder, command, toConn, conn, reply, stateVars, serverVars, authVars,
                 lost, countVars>>

\* Faulty: the frame task keeps a sender of its own, so recv() never yields None.
FrameNoneNever(s) ==
  /\ frame[s] = "recv" /\ toFrame[s] = <<>> /\ conn[s] = "ended" /\ FALSE
  /\ UNCHANGED vars

(* frame_receive.recv() yields None: the connection task has returned. *)
FrameNone(s) ==
  /\ frame[s] = "recv" /\ toFrame[s] = <<>> /\ conn[s] = "ended"
  /\ GotoFrame(s, "ended")
  /\ UNCHANGED <<encoder, command, toConn, conn, reply, toFrame, stateVars, serverVars,
                 authVars, lost, countVars>>

(* handle_frame_command: every item goes out, or at least to the kernel ... *)
FrameWrite(s) ==
  /\ frame[s] = "write"
  /\ GotoFrame(s, "read")
  /\ UNCHANGED <<encoder, command, toConn, conn, reply, toFrame, stateVars, serverVars,
                 authVars, lost, countVars>>

(* ... or frame.send fails on one of them. *)
FrameWriteFails(s) ==
  /\ frame[s] = "write" /\ encoder[s] # "there"
  /\ GotoFrame(s, "ended")
  /\ UNCHANGED <<encoder, command, toConn, conn, reply, toFrame, stateVars, serverVars,
                 authVars, lost, countVars>>

FrameTask(s) ==
  FrameSend(s) \/ FrameReceive(s) \/ FrameNone(s) \/ FrameWrite(s) \/ FrameWriteFails(s)
-----------------------------------------------------------------------------
(***************************************************************************)
(* The connection task                                                     *)
(***************************************************************************)
(* conn_receive.recv() yields cmd. *)
Receive(s, cmd) ==
  /\ conn[s] = "recv" /\ toConn[s] # <<>> /\ Head(toConn[s]) = cmd
  /\ toConn' = [toConn EXCEPT ![s] = Tail(@)]

Answer(s, r) ==
  /\ GotoConn(s, "reply")
  /\ reply' = [reply EXCEPT ![s] = r]

(* HMAC: generate_hmac, and the reply is get_payload. *)
HandleHMAC(s) ==
  /\ Receive(s, "HMAC") /\ Answer(s, "payload")
  /\ UNCHANGED <<encoder, frame, command, toFrame, stateVars, serverVars, authVars, lost,
                 countVars>>

(* An attribute lands in the state, or is unknown; the reply is empty. *)
HandleAttribute(s) ==
  /\ Receive(s, "Attribute") /\ Answer(s, "empty")
  /\ UNCHANGED <<encoder, frame, command, toFrame, stateVars, serverVars, authVars, lost,
                 countVars>>

HandlePing(s) ==
  /\ Receive(s, "Ping") /\ Answer(s, "pong")
  /\ UNCHANGED <<encoder, frame, command, toFrame, stateVars, serverVars, authVars, lost,
                 countVars>>

(* An invalid Video or Audio value: handle_command returns, nothing is sent. *)
HandleBadAttribute(s) ==
  /\ Receive(s, "badAttribute")
  /\ UNCHANGED <<encoder, frame, command, conn, reply, toFrame, stateVars, serverVars,
                 authVars, lost, countVars>>

(* CONNECT: the key replaces the one of an earlier CONNECT. *)
HandleConnect(s) ==
  /\ Receive(s, "Connect")
  /\ \E k \in Keys : streamKey' = [streamKey EXCEPT ![s] = k]
  /\ GotoConn(s, "notifyStart")
  /\ UNCHANGED <<encoder, frame, command, reply, toFrame, rtpPort, answer, serverVars,
                 authVars, lost, countVars>>

(* notify_stream_start: the key has been sent; the task waits for any answer. *)
NotifyStart(s) ==
  /\ conn[s] = "notifyStart"
  /\ started' = [started EXCEPT ![s] = @ \cup {streamKey[s]}]
  /\ GotoConn(s, "awaitAuth")
  /\ UNCHANGED <<encoder, frame, command, toConn, reply, toFrame, stateVars, serverVars,
                 stopped, lost, countVars>>

(* The auth service cannot be reached; the error is logged. *)
NotifyStartFails(s) ==
  /\ "auth" \in Faults
  /\ conn[s] = "notifyStart"
  /\ lost' = [lost EXCEPT ![s] = @ \cup {"auth"}]
  /\ Answer(s, "ok")
  /\ UNCHANGED <<encoder, frame, command, toConn, toFrame, stateVars, serverVars, authVars,
                 countVars>>

(* read.next(): a text, another message, an error or the end are all the same. *)
AuthAnswers(s) ==
  /\ conn[s] = "awaitAuth"
  /\ Answer(s, "ok")
  /\ UNCHANGED <<encoder, frame, command, toConn, toFrame, stateVars, serverVars, authVars,
                 lost, countVars>>

\* Faulty: every dot asks for a port, the session's first one is forgotten.
HandleDotAgain(s) ==
  /\ Receive(s, "Dot")
  /\ GotoConn(s, "allocate") /\ UNCHANGED reply
  /\ UNCHANGED <<encoder, frame, command, toFrame, stateVars, serverVars, authVars, lost,
                 countVars>>

(* The dot: a port is asked for once per session. *)
HandleDot(s) ==
  /\ Receive(s, "Dot")
  /\ IF rtpPort[s] = None
       THEN GotoConn(s, "allocate") /\ UNCHANGED reply
       ELSE Answer(s, "port")
  /\ UNCHANGED <<encoder, frame, command, toFrame, stateVars, serverVars, authVars, lost,
                 countVars>>

(* Nobody is bound to p: the server has no stream there, or one without reader. *)
Free(p) == hosted[p] = None \/ p \in deaf

\* Faulty: the port may be one that another stream listens on.
CreateStreamShared(s, p) ==
  /\ conn[s] = "allocate"
  /\ hosted' = [hosted EXCEPT ![p] = s] /\ deaf' = deaf \ {p}
  /\ answer' = [answer EXCEPT ![s] = p]
  /\ GotoConn(s, "awaitPort")
  /\ UNCHANGED <<encoder, frame, command, toConn, reply, toFrame, streamKey, rtpPort,
                 lapsed, authVars, lost, countVars>>

(***************************************************************************)
(* allocate_port: POST /stream.  createStream lets the system choose a UDP *)
(* port that nobody is bound to, and overwrites an entry of the map that   *)
(* has lost its reader.  The answer is yet to arrive.                      *)
(***************************************************************************)
CreateStream(s, p) ==
  /\ conn[s] = "allocate" /\ Free(p)
  /\ hosted' = [hosted EXCEPT ![p] = s] /\ deaf' = deaf \ {p}
  /\ answer' = [answer EXCEPT ![s] = p]
  /\ GotoConn(s, "awaitPort")
  /\ UNCHANGED <<encoder, frame, command, toConn, reply, toFrame, streamKey, rtpPort,
                 lapsed, authVars, lost, countVars>>

PortAllocated(s) ==
  /\ conn[s] = "awaitPort"
  /\ rtpPort' = [rtpPort EXCEPT ![s] = answer[s]]
  /\ Answer(s, "port")
  /\ UNCHANGED <<encoder, frame, command, toConn, toFrame, streamKey, answer, serverVars,
                 authVars, lost, countVars>>

(***************************************************************************)
(* allocate_port returns None: the server refuses (no port is left) or     *)
(* cannot be reached, or its answer is lost, in a restart for one.         *)
(***************************************************************************)
PortNotAllocated(s) ==
  /\ \/ conn[s] = "allocate" /\ \A p \in Ports : ~Free(p)
     \/ conn[s] = "awaitPort" /\ restarts > 0 /\ hosted[answer[s]] # s
     \/ conn[s] \in {"allocate", "awaitPort"} /\ "webrtc" \in Faults
  /\ lost' = [lost EXCEPT ![s] = @ \cup {"webrtc"}]
  /\ Answer(s, "failed")
  /\ UNCHANGED <<encoder, frame, command, toConn, toFrame, stateVars, serverVars, authVars,
                 countVars>>

(***************************************************************************)
(* conn_send.send(reply).  It fails when the frame task has returned: the  *)
(* Dot arm then returns without freeing its port, the others go on.  After *)
(* "500 failed to allocate port" the task returns in any case.             *)
(***************************************************************************)
SendReply(s) ==
  /\ conn[s] = "reply"
  /\ IF frame[s] = "ended"
       THEN /\ GotoConn(s, IF reply[s] \in {"port", "failed"} THEN "ended" ELSE "recv")
            /\ UNCHANGED toFrame
       ELSE /\ Len(toFrame[s]) < 2
            /\ toFrame' = [toFrame EXCEPT ![s] = Append(@, reply[s])]
            /\ GotoConn(s, IF reply[s] = "failed" THEN "ended" ELSE "recv")
  /\ reply' = [reply EXCEPT ![s] = None]
  /\ UNCHANGED <<encoder, frame, command, toConn, stateVars, serverVars, authVars, lost,
                 countVars>>
-----------------------------------------------------------------------------
(***************************************************************************)
(* The end of a session, after DISCONNECT or when recv() yields None:      *)
(* notify_stream_end if there is a key, then free_port if there is a port. *)
(***************************************************************************)
AfterNotify(s) == IF rtpPort[s] # None THEN "free" ELSE "ended"

\* Faulty: the end is reported whether or not there is a key.
CleanUpAlwaysNotifies(s) == "notifyEnd"

CleanUp(s) == IF streamKey[s] # None THEN "notifyEnd" ELSE AfterNotify(s)

HandleDisconnect(s) ==
  /\ Receive(s, "Disconnect")
  /\ GotoConn(s, CleanUp(s))
  /\ UNCHANGED <<encoder, frame, command, reply, toFrame, stateVars, serverVars, authVars,
                 lost, countVars>>

\* Faulty: the task returns when the frame task is gone, without cleaning up.
HandleNoneReturns(s) ==
  /\ conn[s] = "recv" /\ toConn[s] = <<>> /\ frame[s] = "ended"
  /\ GotoConn(s, "ended")
  /\ UNCHANGED <<encoder, frame, command, toConn, reply, toFrame, stateVars, serverVars,
                 authVars, lost, countVars>>

(* The frame task has returned and dropped frame_send. *)
HandleNone(s) ==
  /\ conn[s] = "recv" /\ toConn[s] = <<>> /\ frame[s] = "ended"
  /\ GotoConn(s, CleanUp(s))
  /\ UNCHANGED <<encoder, frame, command, toConn, reply, toFrame, stateVars, serverVars,
                 authVars, lost, countVars>>

NotifyEnd(s) ==
  /\ conn[s] = "notifyEnd"
  /\ stopped' = [stopped EXCEPT ![s] = @ \cup {streamKey[s]}]
  /\ GotoConn(s, AfterNotify(s))
  /\ UNCHANGED <<encoder, frame, command, toConn, reply, toFrame, stateVars, serverVars,
                 started, lost, countVars>>

NotifyEndFails(s) ==
  /\ "auth" \in Faults
  /\ conn[s] = "notifyEnd"
  /\ lost' = [lost EXCEPT ![s] = @ \cup {"auth"}]
  /\ GotoConn(s, AfterNotify(s))
  /\ UNCHANGED <<encoder, frame, command, toConn, reply, toFrame, stateVars, serverVars,
                 authVars, countVars>>

(* free_port: DELETE /stream?port=..., deleteStream, whoever's stream it is. *)
FreePort(s) ==
  /\ conn[s] = "free"
  /\ hosted' = [hosted EXCEPT ![rtpPort[s]] = None] /\ deaf' = deaf \ {rtpPort[s]}
  /\ GotoConn(s, "ended")
  /\ UNCHANGED <<encoder, frame, command, toConn, reply, toFrame, stateVars, lapsed,
                 authVars, lost, countVars>>

(* free_port ignores the result. *)
FreePortFails(s) ==
  /\ "webrtc" \in Faults
  /\ conn[s] = "free"
  /\ lost' = [lost EXCEPT ![s] = @ \cup {"webrtc"}]
  /\ GotoConn(s, "ended")
  /\ UNCHANGED <<encoder, frame, command, toConn, reply, toFrame, stateVars, serverVars,
                 authVars, countVars>>

(* The steps the task takes by itself ... *)
OwnStep(s) ==
  \/ HandleHMAC(s) \/ HandleAttribute(s) \/ HandleBadAttribute(s) \/ HandlePing(s)
  \/ HandleConnect(s) \/ HandleDot(s) \/ SendReply(s)
  \/ HandleDisconnect(s) \/ HandleNone(s)

(* ... and those that take another service, which it awaits without a timeout. *)
ServiceStep(s) ==
  \/ NotifyStart(s) \/ NotifyStartFails(s) \/ AuthAnswers(s)
  \/ (\E p \in Ports : CreateStream(s, p)) \/ PortAllocated(s) \/ PortNotAllocated(s)
  \/ NotifyEnd(s) \/ NotifyEndFails(s) \/ FreePort(s) \/ FreePortFails(s)

AwaitsService(s) ==
  conn[s] \in {"notifyStart", "awaitAuth", "allocate", "awaitPort", "notifyEnd", "free"}

ConnTask(s) == OwnStep(s) \/ ServiceStep(s)
-----------------------------------------------------------------------------
(***************************************************************************)
(* The encoder closes its connection, or vanishes without a word while the *)
(* service is waiting for a command: there is neither a read timeout nor   *)
(* TCP keepalive.  (If it vanishes before a reply is written, the kernel   *)
(* gives up on the unacknowledged bytes, which is "closed".)               *)
(***************************************************************************)
EncoderGone(s) ==
  /\ frame[s] # "idle" /\ encoder[s] = "there"
  /\ \E how \in Losses :
       /\ how = "silent" => frame[s] = "read"
       /\ encoder' = [encoder EXCEPT ![s] = how]
  /\ UNCHANGED <<taskVars, stateVars, serverVars, authVars, lost, countVars>>

(* The WebRTC server is restarted: its streams were in memory only. *)
ServerRestart ==
  /\ restarts < MaxRestarts
  /\ restarts' = restarts + 1
  /\ hosted' = [p \in Ports |-> None] /\ deaf' = {}
  /\ lapsed' = lapsed \cup {p \in Ports : hosted[p] # None}
  /\ UNCHANGED <<encoder, taskVars, stateVars, authVars, lost, exits>>

(***************************************************************************)
(* ReadFrom fails on the stream of p: the reader's deferred close frees    *)
(* the port, and the entry stays in the server's map.                      *)
(***************************************************************************)
ReaderFails(p) ==
  /\ ~Free(p)
  /\ deaf' = deaf \cup {p} /\ lapsed' = lapsed \cup {p}
  /\ UNCHANGED <<encoder, taskVars, stateVars, hosted, authVars, lost, countVars>>

SessionStep(s) ==
  \/ Accept(s) \/ EncoderGone(s)
  \/ (\E cmd \in Commands : FrameRead(s, cmd)) \/ FrameEof(s)
  \/ FrameTask(s) \/ ConnTask(s)

Next ==
  \/ AcceptFails \/ ServerRestart
  \/ \E p \in Ports : ReaderFails(p)
  \/ \E s \in Sessions : SessionStep(s)

Spec == Init /\ [][Next]_vars

(***************************************************************************)
(* Tasks that can run do run.  The other services owe nothing: nothing in  *)
(* the code times out a connect, a request or the wait for an answer       *)
(* (mod.rs:291, mod.rs:310).  The kernel reports a closed connection; of a *)
(* silent encoder it need never learn.  Encoders owe no command.           *)
(***************************************************************************)
Fairness ==
  \A s \in Sessions :
    /\ WF_vars(FrameTask(s)) /\ WF_vars(OwnStep(s))
    /\ WF_vars(encoder[s] = "closed" /\ FrameEof(s))

FairSpec == Spec /\ Fairness
-----------------------------------------------------------------------------
(***************************************************************************)
(* Safety                                                                  *)
(***************************************************************************)
(***************************************************************************)
(* The tasks work in lockstep: while the connection task handles a command *)
(* the frame task waits for its reply, so a reply always finds a receiver  *)
(* and room.  In particular the error arm of the Dot command, which        *)
(* returns without freeing the port (mod.rs:114-117), is never taken,      *)
(* however the encoder pipelines its commands or goes away.                *)
(***************************************************************************)
ReplyIsAwaited ==
  \A s \in Sessions :
    conn[s] = "reply" => frame[s] = "recv" /\ toFrame[s] = <<>> /\ toConn[s] = <<>>

(* s may still use its port: it has one and has not given it back. *)
HoldsPort(s) == conn[s] # "ended" /\ rtpPort[s] # None

(***************************************************************************)
(* The port of a session that has one hosts the stream made for that       *)
(* session, whatever other sessions allocate and free meanwhile: no DELETE *)
(* hits somebody else's stream.  Only where the server has lost a stream   *)
(* itself, to a failed reader (server.go:261) or a restart, can the next   *)
(* POST get a port that a session still holds, and that session's DELETE   *)
(* then end the other's stream; every other port is out of its reach.      *)
(***************************************************************************)
PortHostsOwnStream ==
  \A s \in Sessions :
    HoldsPort(s) /\ rtpPort[s] \notin lapsed => hosted[rtpPort[s]] = s

(***************************************************************************)
(* "after which it is freed automatically" (README.md:265): the stream of  *)
(* a session whose connection task has returned is still hosted only if a  *)
(* request of the session to the server failed or the process was killed.  *)
(***************************************************************************)
NoOrphanStream ==
  exits = 0 =>
    \A p \in Ports : \A s \in Sessions :
      hosted[p] = s /\ conn[s] = "ended" => "webrtc" \in lost[s]

(***************************************************************************)
(* "Each start and stop event is also sent to your auth service": however  *)
(* a session ends, the key of its last CONNECT is reported as ended,       *)
(* unless a request of the session failed or the process was killed.       *)
(***************************************************************************)
LastKeyIsStopped ==
  exits = 0 =>
    \A s \in Sessions :
      conn[s] = "ended" /\ streamKey[s] # None /\ lost[s] = {}
        => streamKey[s] \in stopped[s]
-----------------------------------------------------------------------------
(***************************************************************************)
(* Liveness                                                                *)
(***************************************************************************)
(* Both tasks wait for each other: a command has been handled without a reply. *)
Unanswered(s) ==
  /\ frame[s] = "recv" /\ toFrame[s] = <<>>
  /\ conn[s] = "recv" /\ toConn[s] = <<>>

(***************************************************************************)
(* A session whose encoder has closed its connection comes to its end:     *)
(* wherever its two tasks were, in a channel or at the socket, both return *)
(* (mod.rs:32-135).  Two things can keep them: a command that gets no      *)
(* reply, and a request to another service that is never answered.         *)
(***************************************************************************)
SessionEnds ==
  \A s \in Sessions :
    \/ encoder[s] = "closed" ~> (frame[s] = "ended" /\ conn[s] = "ended") \/ Unanswered(s)
    \/ <>[]AwaitsService(s)
-----------------------------------------------------------------------------
(***************************************************************************)
(* What a comment says and the code does not do                            *)
(***************************************************************************)
(***************************************************************************)
(* "No actual response is expected but if we do not respond at all the     *)
(* client stops sending" (mod.rs:253-254): every command the frame task    *)
(* hands over is answered, or the frame task ends.                         *)
(***************************************************************************)
CommandIsAnswered ==
  \A s \in Sessions : frame[s] = "recv" ~> frame[s] # "recv"
-----------------------------------------------------------------------------
(***************************************************************************)
(* "requests a dedicated UDP port ... after which it is freed" (README.md: *)
(* 265): sessions keep the promise of PortLease.  A stream the server      *)
(* hosts is a lease, and a session whose state holds a port uses it.  The  *)
(* leases of a port lapse when the server loses its stream.                *)
(***************************************************************************)
UseOf(s) == IF HoldsPort(s) THEN rtpPort[s] ELSE None

Lease == INSTANCE PortLease WITH
  Owners <- Sessions,
  lease  <- hosted,
  inUse  <- [s \in Sessions |-> UseOf(s)],
  lapsed <- lapsed

ImplementsPortLease == Lease!Spec
=============================================================================
