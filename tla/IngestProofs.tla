---------------------------- MODULE IngestProofs ----------------------------
(***************************************************************************)
(* Proofs about Ingest, for every set of sessions, ports and keys, every   *)
(* set of commands and faults and every number of restarts and exits: the  *)
(* lockstep of the two tasks, the ownership of ports and the end of        *)
(* sessions.                                                               *)
(***************************************************************************)
EXTENDS Ingest, SequenceTheorems, TLAPS

(* The connection task is handling a command that will be replied to. *)
Busy(s) == conn[s] \in {"notifyStart", "awaitAuth", "allocate", "awaitPort", "reply"}

(***************************************************************************)
(* One token goes round between the tasks of a session: it is with the     *)
(* frame task, in toConn, with the connection task, or in toFrame.         *)
(***************************************************************************)
Lockstep(s) ==
  /\ frame[s] = "idle" <=> conn[s] = "idle"
  /\ frame[s] = "idle" => toConn[s] = <<>> /\ toFrame[s] = <<>>
  /\ frame[s] \in {"read", "send", "write"} =>
       conn[s] \in {"recv", "ended"} /\ toConn[s] = <<>> /\ toFrame[s] = <<>>
  /\ frame[s] = "send" => command[s] # None
  /\ frame[s] = "ended" /\ conn[s] # "ended" => toConn[s] = <<>> /\ toFrame[s] = <<>>
  /\ Busy(s) => frame[s] = "recv" /\ toConn[s] = <<>> /\ toFrame[s] = <<>>
  /\ toConn[s] # <<>> =>
       conn[s] \in {"recv", "ended"} /\ Len(toConn[s]) <= 1 /\ toFrame[s] = <<>>
  /\ toFrame[s] # <<>> => conn[s] \in {"recv", "ended"} /\ Len(toFrame[s]) <= 1

(* What the connection task has in its hands where it stands. *)
InHand(s) ==
  /\ conn[s] \in {"notifyStart", "awaitAuth", "notifyEnd"} => streamKey[s] # None
  /\ conn[s] \in {"allocate", "awaitPort"} => rtpPort[s] = None
  /\ conn[s] = "awaitPort" => answer[s] # None
  /\ conn[s] = "free" => rtpPort[s] # None
  /\ conn[s] = "reply" => reply[s] # None
  /\ conn[s] = "reply" /\ reply[s] = "failed" => "webrtc" \in lost[s]

(* The server hosts the stream of a session that has, or is being told, a port. *)
OwnsPort(s) ==
  /\ HoldsPort(s) /\ rtpPort[s] \notin lapsed => hosted[rtpPort[s]] = s
  /\ conn[s] = "awaitPort" /\ answer[s] \notin lapsed => hosted[answer[s]] = s

(* A stream the server hosts for s is one that s will free. *)
WillFree(s) ==
  exits = 0 =>
    \A p \in Ports : hosted[p] = s =>
      \/ conn[s] = "awaitPort" /\ answer[s] = p
      \/ conn[s] # "ended" /\ rtpPort[s] = p
      \/ "webrtc" \in lost[s]

(* A key that is past notify_stream_end has been reported. *)
KeyReported(s) ==
  exits = 0 /\ conn[s] \in {"free", "ended"} /\ streamKey[s] # None /\ lost[s] = {}
    => streamKey[s] \in stopped[s]

SessionInv(s) ==
  Lockstep(s) /\ InHand(s) /\ OwnsPort(s) /\ WillFree(s) /\ KeyReported(s)

IInv == TypeOK /\ \A s \in Sessions : SessionInv(s)
-----------------------------------------------------------------------------
(* A channel that holds at most one message: sending to it, receiving from it. *)
LEMMA One ==
  ASSUME NEW n \in Nat \ {0}, n <= 1
  PROVE  n = 1
OBVIOUS

(* Sending on an empty channel makes one that holds a message. *)
LEMMA ChannelSend ==
  ASSUME NEW M, NEW m \in M
  PROVE  /\ Append(<<>>, m) \in Seq(M)
         /\ Append(<<>>, m) # <<>>
         /\ Len(Append(<<>>, m)) <= 1
OBVIOUS

(* Receiving from a channel that holds a message empties it. *)
LEMMA ChannelReceive ==
  ASSUME NEW M, NEW ch \in Seq(M), ch # <<>>, Len(ch) <= 1
  PROVE  Tail(ch) = <<>>
<1>1. Len(ch) = 1
  <2>1. Len(ch) \in Nat \ {0}
    BY EmptySeq, Zenon
  <2> QED  BY <2>1, One, Zenon
<1>2. Tail(ch) \in Seq(M) /\ Len(Tail(ch)) = Len(ch) - 1
  BY HeadTailProperties
<1>3. Len(Tail(ch)) = 0
  BY <1>1, <1>2
<1> QED  BY <1>2, <1>3, EmptySeq

(* The connection task receives the only message in its channel. *)
LEMMA ReceiveOne ==
  ASSUME TypeOK, NEW s \in Sessions, Lockstep(s), NEW cmd, Receive(s, cmd)
  PROVE  /\ conn[s] = "recv" /\ frame[s] = "recv" /\ toFrame[s] = <<>>
         /\ toConn' = [toConn EXCEPT ![s] = <<>>]
<1>1. toConn[s] \in Seq(Handled) /\ toConn[s] # <<>> /\ Len(toConn[s]) <= 1
  BY DEF TypeOK, Lockstep, Receive
<1>2. Tail(toConn[s]) = <<>>
  BY <1>1, ChannelReceive
<1>3. frame[s] = "recv"
  BY <1>1 DEF Lockstep, Receive, TypeOK, FrameStates
<1> QED  BY <1>1, <1>2, <1>3 DEF Receive, Lockstep

(* The frame task receives the only reply in its channel. *)
LEMMA WriteOne ==
  ASSUME TypeOK, NEW s \in Sessions, Lockstep(s), FrameReceive(s)
  PROVE  /\ toFrame' = [toFrame EXCEPT ![s] = <<>>]
         /\ toConn[s] = <<>> /\ conn[s] \in {"recv", "ended"}
<1>1. toFrame[s] \in Seq(Replies) /\ toFrame[s] # <<>> /\ Len(toFrame[s]) <= 1
  BY DEF TypeOK, Lockstep, FrameReceive
<1>2. Tail(toFrame[s]) = <<>>
  BY <1>1, ChannelReceive
<1> QED  BY <1>1, <1>2 DEF FrameReceive, Lockstep

(* The initial state satisfies the inductive invariant. *)
LEMMA InitInv == Init => IInv
<1> SUFFICES ASSUME Init PROVE IInv
  OBVIOUS
<1>1. TypeOK
  BY EmptySeq, BoundsAssumption DEF Init, TypeOK, FrameStates, ConnStates
<1>2. ASSUME NEW s \in Sessions PROVE SessionInv(s)
  BY NoneAssumption
     DEF Init, SessionInv, Lockstep, Busy, InHand, OwnsPort, HoldsPort, WillFree,
         KeyReported
<1> QED  BY <1>1, <1>2 DEF IInv

(* A step of a frame task preserves the inductive invariant. *)
LEMMA FrameInv ==
  ASSUME IInv, NEW s \in Sessions,
         FrameTask(s) \/ FrameEof(s) \/ (\E cmd \in Commands : FrameRead(s, cmd))
  PROVE  IInv'
<1> USE DEF IInv, SessionInv, GotoFrame, GotoConn, stateVars, serverVars, authVars,
            countVars
<1>1. CASE \E cmd \in Commands : FrameRead(s, cmd)
  <2>1. TypeOK'
    <3>1. PICK cmd \in Commands : FrameRead(s, cmd)
      BY <1>1
    <3>2. cmd # "unsupported" => cmd \in Handled
      BY CommandsAssumption DEF Handled
    <3>3. command' \in [Sessions -> Handled \cup {None}]
      BY <3>1, <3>2 DEF FrameRead, TypeOK
    <3> QED  BY <3>1, <3>3 DEF FrameRead, TypeOK, FrameStates
  <2> SUFFICES ASSUME NEW t \in Sessions PROVE SessionInv(t)'
    BY <2>1
  <2>2. Lockstep(t)'
    BY <1>1, CommandsAssumption, NoneAssumption DEF FrameRead, TypeOK, Lockstep, Busy
  <2>3. InHand(t)'
    BY <1>1 DEF FrameRead, InHand
  <2>4. OwnsPort(t)' /\ WillFree(t)'
    BY <1>1 DEF FrameRead, OwnsPort, HoldsPort, WillFree
  <2>5. KeyReported(t)'
    BY <1>1 DEF FrameRead, KeyReported
  <2> QED  BY <2>2, <2>3, <2>4, <2>5
<1>2. CASE FrameEof(s)
  <2>1. TypeOK'
    BY <1>2 DEF FrameEof, TypeOK, FrameStates
  <2> SUFFICES ASSUME NEW t \in Sessions PROVE SessionInv(t)'
    BY <2>1
  <2>2. Lockstep(t)'
    BY <1>2 DEF FrameEof, Lockstep, Busy
  <2>3. InHand(t)'
    BY <1>2 DEF FrameEof, InHand
  <2>4. OwnsPort(t)' /\ WillFree(t)'
    BY <1>2 DEF FrameEof, OwnsPort, HoldsPort, WillFree
  <2>5. KeyReported(t)'
    BY <1>2 DEF FrameEof, KeyReported
  <2> QED  BY <2>2, <2>3, <2>4, <2>5
<1>3. CASE FrameSend(s)
  <2>1. TypeOK'
    <3>1. command[s] \in Handled /\ toConn[s] = <<>>
      BY <1>3 DEF FrameSend, TypeOK, Lockstep
    <3>2. Append(toConn[s], command[s]) \in Seq(Handled)
      BY <3>1
    <3>3. toConn' \in [Sessions -> Seq(Handled)]
      BY <1>3, <3>2 DEF FrameSend, TypeOK
    <3> QED  BY <1>3, <3>3 DEF FrameSend, TypeOK, FrameStates
  <2> SUFFICES ASSUME NEW t \in Sessions PROVE SessionInv(t)'
    BY <2>1
  <2>2. Lockstep(t)'
    BY <1>3 DEF FrameSend, TypeOK, Lockstep, Busy
  <2>3. InHand(t)'
    BY <1>3 DEF FrameSend, InHand
  <2>4. OwnsPort(t)' /\ WillFree(t)'
    BY <1>3 DEF FrameSend, OwnsPort, HoldsPort, WillFree
  <2>5. KeyReported(t)'
    BY <1>3 DEF FrameSend, KeyReported
  <2> QED  BY <2>2, <2>3, <2>4, <2>5
<1>4. CASE FrameReceive(s)
  <2>0. toFrame' = [toFrame EXCEPT ![s] = <<>>]
        /\ toConn[s] = <<>> /\ conn[s] \in {"recv", "ended"}
    BY <1>4, WriteOne
  <2>1. TypeOK'
    BY <1>4 DEF FrameReceive, TypeOK, FrameStates, Replies
  <2> SUFFICES ASSUME NEW t \in Sessions PROVE SessionInv(t)'
    BY <2>1
  <2>2. Lockstep(t)'
    BY <1>4 DEF FrameReceive, TypeOK, Lockstep, Busy
  <2>3. InHand(t)'
    BY <1>4 DEF FrameReceive, InHand
  <2>4. OwnsPort(t)' /\ WillFree(t)'
    BY <1>4 DEF FrameReceive, OwnsPort, HoldsPort, WillFree
  <2>5. KeyReported(t)'
    BY <1>4 DEF FrameReceive, KeyReported
  <2> QED  BY <2>2, <2>3, <2>4, <2>5
<1>5. CASE FrameNone(s)
  <2>1. TypeOK'
    BY <1>5 DEF FrameNone, TypeOK, FrameStates
  <2> SUFFICES ASSUME NEW t \in Sessions PROVE SessionInv(t)'
    BY <2>1
  <2>2. Lockstep(t)'
    BY <1>5 DEF FrameNone, Lockstep, Busy
  <2>3. InHand(t)'
    BY <1>5 DEF FrameNone, InHand
  <2>4. OwnsPort(t)' /\ WillFree(t)'
    BY <1>5 DEF FrameNone, OwnsPort, HoldsPort, WillFree
  <2>5. KeyReported(t)'
    BY <1>5 DEF FrameNone, KeyReported
  <2> QED  BY <2>2, <2>3, <2>4, <2>5
<1>6. CASE FrameWrite(s)
  <2>1. TypeOK'
    BY <1>6 DEF FrameWrite, TypeOK, FrameStates
  <2> SUFFICES ASSUME NEW t \in Sessions PROVE SessionInv(t)'
    BY <2>1
  <2>2. Lockstep(t)'
    BY <1>6 DEF FrameWrite, Lockstep, Busy
  <2>3. InHand(t)'
    BY <1>6 DEF FrameWrite, InHand
  <2>4. OwnsPort(t)' /\ WillFree(t)'
    BY <1>6 DEF FrameWrite, OwnsPort, HoldsPort, WillFree
  <2>5. KeyReported(t)'
    BY <1>6 DEF FrameWrite, KeyReported
  <2> QED  BY <2>2, <2>3, <2>4, <2>5
<1>7. CASE FrameWriteFails(s)
  <2>1. TypeOK'
    BY <1>7 DEF FrameWriteFails, TypeOK, FrameStates
  <2> SUFFICES ASSUME NEW t \in Sessions PROVE SessionInv(t)'
    BY <2>1
  <2>2. Lockstep(t)'
    BY <1>7 DEF FrameWriteFails, Lockstep, Busy
  <2>3. InHand(t)'
    BY <1>7 DEF FrameWriteFails, InHand
  <2>4. OwnsPort(t)' /\ WillFree(t)'
    BY <1>7 DEF FrameWriteFails, OwnsPort, HoldsPort, WillFree
  <2>5. KeyReported(t)'
    BY <1>7 DEF FrameWriteFails, KeyReported
  <2> QED  BY <2>2, <2>3, <2>4, <2>5
<1> QED  BY <1>1, <1>2, <1>3, <1>4, <1>5, <1>6, <1>7 DEF FrameTask

(* Replying at once, with the state unchanged, preserves the inductive invariant. *)
LEMMA AnswerInv ==
  ASSUME IInv, NEW s \in Sessions, NEW cmd, NEW r \in Replies \ {"failed"},
         Receive(s, cmd), Answer(s, r),
         UNCHANGED <<encoder, frame, command, toFrame, stateVars, serverVars, authVars,
                     lost, countVars>>
  PROVE  IInv'
<1> USE DEF IInv, SessionInv, GotoFrame, GotoConn, stateVars, serverVars, authVars,
            countVars
<1>0. conn[s] = "recv" /\ frame[s] = "recv" /\ toFrame[s] = <<>>
      /\ toConn' = [toConn EXCEPT ![s] = <<>>]
  BY ReceiveOne
<1>1. TypeOK'
  BY <1>0, EmptySeq DEF Answer, TypeOK, ConnStates
<1> SUFFICES ASSUME NEW t \in Sessions PROVE SessionInv(t)'
  BY <1>1
<1>2. Lockstep(t)'
  BY <1>0 DEF Answer, TypeOK, Lockstep, Busy
<1>3. InHand(t)'
  BY <1>0, NoneAssumption DEF Answer, TypeOK, InHand
<1>4. OwnsPort(t)' /\ WillFree(t)'
  BY <1>0 DEF Answer, TypeOK, OwnsPort, HoldsPort, WillFree
<1>5. KeyReported(t)'
  BY DEF Answer, TypeOK, KeyReported
<1> QED  BY <1>2, <1>3, <1>4, <1>5

(* Handling a command up to its reply preserves the inductive invariant. *)
LEMMA HandlingInv ==
  ASSUME IInv, NEW s \in Sessions,
         HandleHMAC(s) \/ HandleAttribute(s) \/ HandlePing(s)
         \/ HandleBadAttribute(s) \/ HandleConnect(s) \/ HandleDot(s)
         \/ NotifyStart(s) \/ NotifyStartFails(s) \/ AuthAnswers(s) \/ SendReply(s)
  PROVE  IInv'
<1> USE DEF IInv, SessionInv, GotoFrame, GotoConn, stateVars, serverVars, authVars,
            countVars
<1>1. CASE HandleHMAC(s) \/ HandleAttribute(s) \/ HandlePing(s)
  BY <1>1, AnswerInv, NoneAssumption
     DEF HandleHMAC, HandleAttribute, HandlePing, Replies
<1>2. CASE HandleBadAttribute(s)
  <2>0. conn[s] = "recv" /\ frame[s] = "recv" /\ toFrame[s] = <<>>
        /\ toConn' = [toConn EXCEPT ![s] = <<>>]
    BY <1>2, ReceiveOne DEF HandleBadAttribute
  <2>1. TypeOK'
    BY <1>2, <2>0 DEF HandleBadAttribute, TypeOK, CommandKinds
  <2> SUFFICES ASSUME NEW t \in Sessions PROVE SessionInv(t)'
    BY <2>1
  <2>2. Lockstep(t)'
    BY <1>2, <2>0 DEF HandleBadAttribute, Lockstep, Busy
  <2>3. InHand(t)'
    BY <1>2 DEF HandleBadAttribute, InHand
  <2>4. OwnsPort(t)' /\ WillFree(t)'
    BY <1>2 DEF HandleBadAttribute, OwnsPort, HoldsPort, WillFree
  <2>5. KeyReported(t)'
    BY <1>2 DEF HandleBadAttribute, KeyReported
  <2> QED  BY <2>2, <2>3, <2>4, <2>5
<1>3. CASE HandleConnect(s)
  <2>0. conn[s] = "recv" /\ frame[s] = "recv" /\ toFrame[s] = <<>>
        /\ toConn' = [toConn EXCEPT ![s] = <<>>]
    BY <1>3, ReceiveOne DEF HandleConnect
  <2>1. TypeOK'
    BY <1>3, <2>0, EmptySeq DEF HandleConnect, TypeOK, ConnStates
  <2> SUFFICES ASSUME NEW t \in Sessions PROVE SessionInv(t)'
    BY <2>1
  <2>2. Lockstep(t)'
    BY <1>3, <2>0 DEF HandleConnect, TypeOK, Lockstep, Busy
  <2>3. InHand(t)'
    BY <1>3, NoneAssumption DEF HandleConnect, TypeOK, InHand
  <2>4. OwnsPort(t)' /\ WillFree(t)'
    BY <1>3, <2>0 DEF HandleConnect, OwnsPort, HoldsPort, WillFree
  <2>5. KeyReported(t)'
    BY <1>3 DEF HandleConnect, TypeOK, KeyReported
  <2> QED  BY <2>2, <2>3, <2>4, <2>5
<1>4. CASE HandleDot(s)
  <2>0. conn[s] = "recv" /\ frame[s] = "recv" /\ toFrame[s] = <<>>
        /\ toConn' = [toConn EXCEPT ![s] = <<>>]
    BY <1>4, ReceiveOne DEF HandleDot
  <2>1. TypeOK'
    <3>1. toConn' \in [Sessions -> Seq(Handled)]
      BY <2>0 DEF TypeOK
    <3>2. conn' \in [Sessions -> ConnStates] /\ reply' \in [Sessions -> Replies \cup {None}]
      BY <1>4 DEF HandleDot, Answer, TypeOK, ConnStates, Replies
    <3> QED  BY <1>4, <3>1, <3>2 DEF HandleDot, TypeOK
  <2> SUFFICES ASSUME NEW t \in Sessions PROVE SessionInv(t)'
    BY <2>1
  <2>2. Lockstep(t)'
    BY <1>4, <2>0 DEF HandleDot, Answer, TypeOK, Lockstep, Busy
  <2>3. InHand(t)'
    BY <1>4, NoneAssumption DEF HandleDot, Answer, TypeOK, InHand, Replies
  <2>4. OwnsPort(t)' /\ WillFree(t)'
    BY <1>4, <2>0 DEF HandleDot, Answer, TypeOK, OwnsPort, HoldsPort, WillFree, InHand
  <2>5. KeyReported(t)'
    <3>1. conn' = [conn EXCEPT ![s] = "allocate"] \/ conn' = [conn EXCEPT ![s] = "reply"]
      BY <1>4 DEF HandleDot, Answer
    <3> QED  BY <1>4, <3>1 DEF HandleDot, TypeOK, KeyReported
  <2> QED  BY <2>2, <2>3, <2>4, <2>5
<1>5. CASE NotifyStart(s)
  <2>1. TypeOK'
    BY <1>5 DEF NotifyStart, TypeOK, ConnStates, InHand
  <2> SUFFICES ASSUME NEW t \in Sessions PROVE SessionInv(t)'
    BY <2>1
  <2>2. Lockstep(t)'
    BY <1>5 DEF NotifyStart, Lockstep, Busy
  <2>3. InHand(t)'
    BY <1>5 DEF NotifyStart, InHand
  <2>4. OwnsPort(t)' /\ WillFree(t)'
    BY <1>5 DEF NotifyStart, OwnsPort, HoldsPort, WillFree
  <2>5. KeyReported(t)'
    BY <1>5 DEF NotifyStart, KeyReported
  <2> QED  BY <2>2, <2>3, <2>4, <2>5
<1>6. CASE NotifyStartFails(s)
  <2>1. TypeOK'
    BY <1>6 DEF NotifyStartFails, Answer, TypeOK, ConnStates, Replies, Services
  <2> SUFFICES ASSUME NEW t \in Sessions PROVE SessionInv(t)'
    BY <2>1
  <2>2. Lockstep(t)'
    BY <1>6 DEF NotifyStartFails, Answer, Lockstep, Busy
  <2>3. InHand(t)'
    BY <1>6, NoneAssumption DEF NotifyStartFails, Answer, TypeOK, InHand, Replies
  <2>4. OwnsPort(t)' /\ WillFree(t)'
    BY <1>6 DEF NotifyStartFails, Answer, OwnsPort, HoldsPort, WillFree
  <2>5. KeyReported(t)'
    BY <1>6 DEF NotifyStartFails, Answer, KeyReported
  <2> QED  BY <2>2, <2>3, <2>4, <2>5
<1>7. CASE AuthAnswers(s)
  <2>1. TypeOK'
    BY <1>7 DEF AuthAnswers, Answer, TypeOK, ConnStates, Replies
  <2> SUFFICES ASSUME NEW t \in Sessions PROVE SessionInv(t)'
    BY <2>1
  <2>2. Lockstep(t)'
    BY <1>7 DEF AuthAnswers, Answer, Lockstep, Busy
  <2>3. InHand(t)'
    BY <1>7, NoneAssumption DEF AuthAnswers, Answer, TypeOK, InHand, Replies
  <2>4. OwnsPort(t)' /\ WillFree(t)'
    BY <1>7 DEF AuthAnswers, Answer, OwnsPort, HoldsPort, WillFree
  <2>5. KeyReported(t)'
    BY <1>7 DEF AuthAnswers, Answer, KeyReported
  <2> QED  BY <2>2, <2>3, <2>4, <2>5
<1>8. CASE SendReply(s)
  <2>1. TypeOK'
    <3>1. reply[s] \in Replies /\ toFrame[s] = <<>>
      BY <1>8 DEF SendReply, TypeOK, Lockstep, InHand
    <3>2. Append(toFrame[s], reply[s]) \in Seq(Replies)
      BY <3>1
    <3>3. toFrame \in [Sessions -> Seq(Replies)]
      BY DEF TypeOK
    <3>4. toFrame' = toFrame \/ toFrame' = [toFrame EXCEPT ![s] = Append(toFrame[s], reply[s])]
      BY <1>8 DEF SendReply
    <3>5. toFrame' \in [Sessions -> Seq(Replies)]
      BY <3>2, <3>3, <3>4
    <3>6. conn' = [conn EXCEPT ![s] = "ended"] \/ conn' = [conn EXCEPT ![s] = "recv"]
      BY <1>8 DEF SendReply
    <3>7. conn' \in [Sessions -> ConnStates]
      BY <3>6 DEF TypeOK, ConnStates
    <3>8. reply' \in [Sessions -> Replies \cup {None}]
      BY <1>8 DEF SendReply, TypeOK
    <3> QED  BY <1>8, <3>5, <3>7, <3>8 DEF SendReply, TypeOK
  <2> SUFFICES ASSUME NEW t \in Sessions PROVE SessionInv(t)'
    BY <2>1
  <2>2. Lockstep(t)'
    BY <1>8, NoneAssumption DEF SendReply, TypeOK, Lockstep, Busy, InHand
  <2>3. InHand(t)'
    BY <1>8 DEF SendReply, TypeOK, InHand
  <2>4. OwnsPort(t)' /\ WillFree(t)'
    BY <1>8 DEF SendReply, TypeOK, OwnsPort, HoldsPort, WillFree, InHand, Lockstep, Busy
  <2>5. KeyReported(t)'
    BY <1>8 DEF SendReply, TypeOK, KeyReported, InHand, Lockstep, Busy
  <2> QED  BY <2>2, <2>3, <2>4, <2>5
<1> QED  BY <1>1, <1>2, <1>3, <1>4, <1>5, <1>6, <1>7, <1>8

(* Allocating a port preserves the inductive invariant. *)
LEMMA PortInv ==
  ASSUME IInv, NEW s \in Sessions,
         (\E p \in Ports : CreateStream(s, p)) \/ PortAllocated(s) \/ PortNotAllocated(s)
  PROVE  IInv'
<1> USE DEF IInv, SessionInv, GotoFrame, GotoConn, stateVars, serverVars, authVars,
            countVars
<1>1. CASE \E p \in Ports : CreateStream(s, p)
  <2>0. PICK p \in Ports : CreateStream(s, p)
    BY <1>1
  <2>1. TypeOK'
    BY <2>0 DEF CreateStream, TypeOK, ConnStates
  <2> SUFFICES ASSUME NEW t \in Sessions PROVE SessionInv(t)'
    BY <2>1
  <2>2. Lockstep(t)'
    BY <1>1 DEF CreateStream, Lockstep, Busy
  <2>3. InHand(t)'
    BY <1>1, NoneAssumption DEF CreateStream, TypeOK, InHand
  <2>4. OwnsPort(t)' /\ WillFree(t)'
    \* A stream that is replaced had no reader: its port has lapsed.
    <3>1. hosted[p] = None \/ p \in lapsed
      BY <2>0 DEF CreateStream, Free, TypeOK
    <3>2. HoldsPort(t)' <=> HoldsPort(t)
      BY <2>0 DEF CreateStream, TypeOK, HoldsPort
    <3>3. OwnsPort(t)'
      BY <2>0, <3>1, <3>2, NoneAssumption DEF CreateStream, TypeOK, OwnsPort, HoldsPort
    <3>4. WillFree(t)'
      BY <2>0, NoneAssumption DEF CreateStream, TypeOK, WillFree
    <3> QED  BY <3>3, <3>4
  <2>5. KeyReported(t)'
    BY <1>1 DEF CreateStream, KeyReported
  <2> QED  BY <2>2, <2>3, <2>4, <2>5
<1>2. CASE PortAllocated(s)
  <2>1. TypeOK'
    BY <1>2 DEF PortAllocated, Answer, TypeOK, ConnStates, Replies
  <2> SUFFICES ASSUME NEW t \in Sessions PROVE SessionInv(t)'
    BY <2>1
  <2>2. Lockstep(t)'
    BY <1>2 DEF PortAllocated, Answer, Lockstep, Busy
  <2>3. InHand(t)'
    BY <1>2, NoneAssumption DEF PortAllocated, Answer, TypeOK, InHand, Replies
  <2>4. OwnsPort(t)' /\ WillFree(t)'
    BY <1>2, NoneAssumption
       DEF PortAllocated, Answer, TypeOK, OwnsPort, HoldsPort, WillFree, InHand
  <2>5. KeyReported(t)'
    BY <1>2 DEF PortAllocated, Answer, KeyReported
  <2> QED  BY <2>2, <2>3, <2>4, <2>5
<1>3. CASE PortNotAllocated(s)
  <2>1. TypeOK'
    BY <1>3 DEF PortNotAllocated, Answer, TypeOK, ConnStates, Replies, Services
  <2> SUFFICES ASSUME NEW t \in Sessions PROVE SessionInv(t)'
    BY <2>1
  <2>2. Lockstep(t)'
    BY <1>3 DEF PortNotAllocated, Answer, Lockstep, Busy
  <2>3. InHand(t)'
    BY <1>3, NoneAssumption DEF PortNotAllocated, Answer, TypeOK, InHand, Replies
  <2>4. OwnsPort(t)' /\ WillFree(t)'
    BY <1>3 DEF PortNotAllocated, Answer, TypeOK, OwnsPort, HoldsPort, WillFree
  <2>5. KeyReported(t)'
    BY <1>3 DEF PortNotAllocated, Answer, KeyReported
  <2> QED  BY <2>2, <2>3, <2>4, <2>5
<1> QED  BY <1>1, <1>2, <1>3

(* The end of a session preserves the inductive invariant. *)
LEMMA EndInv ==
  ASSUME IInv, NEW s \in Sessions,
         HandleDisconnect(s) \/ HandleNone(s) \/ NotifyEnd(s) \/ NotifyEndFails(s)
         \/ FreePort(s) \/ FreePortFails(s)
  PROVE  IInv'
<1> USE DEF IInv, SessionInv, GotoFrame, GotoConn, stateVars, serverVars, authVars,
            countVars
<1>1. CASE HandleDisconnect(s)
  <2>0. conn[s] = "recv" /\ frame[s] = "recv" /\ toFrame[s] = <<>>
        /\ toConn' = [toConn EXCEPT ![s] = <<>>]
    BY <1>1, ReceiveOne DEF HandleDisconnect
  <2>1. TypeOK'
    BY <1>1, <2>0 DEF HandleDisconnect, CleanUp, AfterNotify, TypeOK, ConnStates
  <2> SUFFICES ASSUME NEW t \in Sessions PROVE SessionInv(t)'
    BY <2>1
  <2>2. Lockstep(t)'
    BY <1>1, <2>0 DEF HandleDisconnect, CleanUp, AfterNotify, TypeOK, Lockstep, Busy
  <2>3. InHand(t)'
    BY <1>1 DEF HandleDisconnect, CleanUp, AfterNotify, InHand
  <2>4. OwnsPort(t)' /\ WillFree(t)'
    BY <1>1, <2>0, NoneAssumption
       DEF HandleDisconnect, CleanUp, AfterNotify, OwnsPort, HoldsPort, WillFree,
           InHand
  <2>5. KeyReported(t)'
    BY <1>1 DEF HandleDisconnect, CleanUp, KeyReported
  <2> QED  BY <2>2, <2>3, <2>4, <2>5
<1>2. CASE HandleNone(s)
  <2>1. TypeOK'
    BY <1>2 DEF HandleNone, CleanUp, AfterNotify, TypeOK, ConnStates
  <2> SUFFICES ASSUME NEW t \in Sessions PROVE SessionInv(t)'
    BY <2>1
  <2>2. Lockstep(t)'
    BY <1>2 DEF HandleNone, CleanUp, AfterNotify, Lockstep, Busy
  <2>3. InHand(t)'
    BY <1>2 DEF HandleNone, CleanUp, AfterNotify, InHand
  <2>4. OwnsPort(t)' /\ WillFree(t)'
    BY <1>2, NoneAssumption
       DEF HandleNone, CleanUp, AfterNotify, OwnsPort, HoldsPort, WillFree
  <2>5. KeyReported(t)'
    BY <1>2 DEF HandleNone, CleanUp, KeyReported
  <2> QED  BY <2>2, <2>3, <2>4, <2>5
<1>3. CASE NotifyEnd(s)
  <2>1. TypeOK'
    BY <1>3 DEF NotifyEnd, AfterNotify, TypeOK, ConnStates, InHand
  <2> SUFFICES ASSUME NEW t \in Sessions PROVE SessionInv(t)'
    BY <2>1
  <2>2. Lockstep(t)'
    BY <1>3 DEF NotifyEnd, AfterNotify, Lockstep, Busy
  <2>3. InHand(t)'
    BY <1>3 DEF NotifyEnd, AfterNotify, InHand
  <2>4. OwnsPort(t)' /\ WillFree(t)'
    BY <1>3, NoneAssumption DEF NotifyEnd, AfterNotify, OwnsPort, HoldsPort, WillFree
  <2>5. KeyReported(t)'
    BY <1>3 DEF NotifyEnd, TypeOK, KeyReported
  <2> QED  BY <2>2, <2>3, <2>4, <2>5
<1>4. CASE NotifyEndFails(s)
  <2>1. TypeOK'
    BY <1>4 DEF NotifyEndFails, AfterNotify, TypeOK, ConnStates, Services
  <2> SUFFICES ASSUME NEW t \in Sessions PROVE SessionInv(t)'
    BY <2>1
  <2>2. Lockstep(t)'
    BY <1>4 DEF NotifyEndFails, AfterNotify, Lockstep, Busy
  <2>3. InHand(t)'
    BY <1>4 DEF NotifyEndFails, AfterNotify, InHand
  <2>4. OwnsPort(t)' /\ WillFree(t)'
    BY <1>4, NoneAssumption DEF NotifyEndFails, AfterNotify, OwnsPort, HoldsPort, WillFree
  <2>5. KeyReported(t)'
    BY <1>4 DEF NotifyEndFails, TypeOK, KeyReported
  <2> QED  BY <2>2, <2>3, <2>4, <2>5
<1>5. CASE FreePort(s)
  <2>1. TypeOK'
    BY <1>5 DEF FreePort, TypeOK, ConnStates
  <2> SUFFICES ASSUME NEW t \in Sessions PROVE SessionInv(t)'
    BY <2>1
  <2>2. Lockstep(t)'
    BY <1>5 DEF FreePort, Lockstep, Busy
  <2>3. InHand(t)'
    BY <1>5 DEF FreePort, InHand
  <2>4. OwnsPort(t)' /\ WillFree(t)'
    BY <1>5, NoneAssumption DEF FreePort, TypeOK, OwnsPort, HoldsPort, WillFree
  <2>5. KeyReported(t)'
    BY <1>5 DEF FreePort, KeyReported
  <2> QED  BY <2>2, <2>3, <2>4, <2>5
<1>6. CASE FreePortFails(s)
  <2>1. TypeOK'
    BY <1>6 DEF FreePortFails, TypeOK, ConnStates, Services
  <2> SUFFICES ASSUME NEW t \in Sessions PROVE SessionInv(t)'
    BY <2>1
  <2>2. Lockstep(t)'
    BY <1>6 DEF FreePortFails, Lockstep, Busy
  <2>3. InHand(t)'
    BY <1>6 DEF FreePortFails, InHand
  <2>4. OwnsPort(t)' /\ WillFree(t)'
    BY <1>6 DEF FreePortFails, TypeOK, OwnsPort, HoldsPort, WillFree
  <2>5. KeyReported(t)'
    BY <1>6 DEF FreePortFails, KeyReported
  <2> QED  BY <2>2, <2>3, <2>4, <2>5
<1> QED  BY <1>1, <1>2, <1>3, <1>4, <1>5, <1>6

(* Every step preserves the inductive invariant. *)
LEMMA NextInv == IInv /\ [Next]_vars => IInv'
<1> SUFFICES ASSUME IInv, [Next]_vars PROVE IInv'
  OBVIOUS
<1> USE DEF IInv, SessionInv, Lockstep, Busy, InHand, OwnsPort, HoldsPort, WillFree,
            KeyReported, GotoFrame, GotoConn, taskVars, stateVars, serverVars, authVars,
            countVars
<1>1. ASSUME NEW s \in Sessions, Accept(s) PROVE IInv'
  <2>1. TypeOK'
    BY <1>1 DEF Accept, TypeOK, FrameStates, ConnStates
  <2>2. ASSUME NEW t \in Sessions PROVE SessionInv(t)'
    BY <1>1 DEF Accept, TypeOK
  <2> QED  BY <2>1, <2>2
<1>2. ASSUME NEW s \in Sessions, EncoderGone(s) PROVE IInv'
  <2>1. TypeOK'
    BY <1>2, LossesAssumption DEF EncoderGone, TypeOK
  <2>2. ASSUME NEW t \in Sessions PROVE SessionInv(t)'
    BY <1>2 DEF EncoderGone, TypeOK
  <2> QED  BY <2>1, <2>2
<1>3. CASE AcceptFails
  <2>1. TypeOK'
    BY <1>3, BoundsAssumption DEF AcceptFails, TypeOK, FrameStates, ConnStates
  <2>2. ASSUME NEW t \in Sessions PROVE SessionInv(t)'
    BY <1>3, BoundsAssumption DEF AcceptFails, TypeOK
  <2> QED  BY <2>1, <2>2
<1>4. CASE ServerRestart
  <2>1. TypeOK'
    BY <1>4, BoundsAssumption DEF ServerRestart, TypeOK
  <2>2. ASSUME NEW t \in Sessions PROVE SessionInv(t)'
    BY <1>4, BoundsAssumption, NoneAssumption DEF ServerRestart, TypeOK
  <2> QED  BY <2>1, <2>2
<1>5. ASSUME NEW p \in Ports, ReaderFails(p) PROVE IInv'
  <2>1. TypeOK'
    BY <1>5 DEF ReaderFails, TypeOK
  <2>2. ASSUME NEW t \in Sessions PROVE SessionInv(t)'
    BY <1>5 DEF ReaderFails, TypeOK
  <2> QED  BY <2>1, <2>2
<1>6. CASE UNCHANGED vars
  <2>1. TypeOK'
    BY <1>6 DEF vars, TypeOK
  <2>2. ASSUME NEW t \in Sessions PROVE SessionInv(t)'
    BY <1>6 DEF vars
  <2> QED  BY <1>6, <2>1, <2>2 DEF vars
<1> QED
  BY <1>1, <1>2, <1>3, <1>4, <1>5, <1>6, FrameInv, HandlingInv, PortInv, EndInv
     DEF Next, SessionStep, ConnTask, OwnStep, ServiceStep

(* The invariant is one of the specification. *)
LEMMA Invariance == Spec => []IInv
BY InitInv, NextInv, PTL DEF Spec
-----------------------------------------------------------------------------
(***************************************************************************)
(* Type correctness of the ingest service, for any number of sessions.     *)
(***************************************************************************)
THEOREM IngestTypeCorrect == Spec => []TypeOK
<1>1. IInv => TypeOK
  BY DEF IInv
<1> QED  BY <1>1, Invariance, PTL

(***************************************************************************)
(* Whatever the encoders send and whenever they, the services and the      *)
(* process fail, a reply finds the frame task waiting for it: the error    *)
(* arms of conn_send.send are dead code, the one that would leak a port    *)
(* included (mod.rs:114-117).                                              *)
(***************************************************************************)
THEOREM IngestReplyIsAwaited == Spec => []ReplyIsAwaited
<1>1. IInv => ReplyIsAwaited
  BY DEF IInv, SessionInv, Lockstep, Busy, ReplyIsAwaited
<1> QED  BY <1>1, Invariance, PTL

(***************************************************************************)
(* A session's port hosts that session's own stream, whatever the others   *)
(* do, as long as the server has never lost a stream on that very port, to *)
(* a failed reader or a restart (mod.rs:94-119, mod.rs:322-329,            *)
(* server.go:254-267).                                                     *)
(***************************************************************************)
THEOREM IngestPortHostsOwnStream == Spec => []PortHostsOwnStream
<1>1. IInv => PortHostsOwnStream
  BY DEF IInv, SessionInv, OwnsPort, PortHostsOwnStream
<1> QED  BY <1>1, Invariance, PTL

(***************************************************************************)
(* A stream outlives its session only after a failed request or an exit of *)
(* the process (mod.rs:78-88, mod.rs:97-102, mod.rs:123-132).              *)
(***************************************************************************)
THEOREM IngestNoOrphanStream == Spec => []NoOrphanStream
<1>1. IInv => NoOrphanStream
  BY DEF IInv, SessionInv, WillFree, NoOrphanStream, InHand
<1> QED  BY <1>1, Invariance, PTL

(***************************************************************************)
(* The key of the last CONNECT of a session is reported as ended, unless a *)
(* request failed or the process exited (mod.rs:78-88, mod.rs:123-132).    *)
(***************************************************************************)
THEOREM IngestLastKeyIsStopped == Spec => []LastKeyIsStopped
<1>1. IInv => LastKeyIsStopped
  BY DEF IInv, SessionInv, KeyReported, LastKeyIsStopped
<1> QED  BY <1>1, Invariance, PTL
-----------------------------------------------------------------------------
(***************************************************************************)
(* The refinement: a stream the server hosts is the lease of its port, a   *)
(* session that holds a port uses it.  Steps at a port that has lapsed     *)
(* need no more than that they leave the other ports alone.                *)
(***************************************************************************)
LEMMA InitRefines == Init => Lease!Init
BY DEF Init, Lease!Init, UseOf, HoldsPort

(* A session uses a port or none, after a step as well as before. *)
LEMMA UseTyped ==
  ASSUME NEW s \in Sessions
  PROVE  /\ TypeOK => UseOf(s) \in Ports \cup {None}
         /\ TypeOK' => UseOf(s)' \in Ports \cup {None}
BY DEF TypeOK, UseOf

(* What a step has to do to be a lapse: it touches lapsed ports only. *)
LEMMA LapseRefines ==
  ASSUME TypeOK', lapsed \subseteq lapsed',
         \A p \in Ports \ lapsed' : hosted'[p] = hosted[p],
         \A s \in Sessions : UseOf(s)' \in {UseOf(s), None} \cup lapsed'
  PROVE  Lease!Lapse
BY UseTyped DEF TypeOK, Lease!Lapse

(* Nobody's use changes when no connection task ends or gets a port. *)
LEMMA SameUse ==
  ASSUME UNCHANGED rtpPort,
         \A s \in Sessions : conn'[s] = "ended" <=> conn[s] = "ended"
  PROVE  \A s \in Sessions : UseOf(s)' = UseOf(s)
BY DEF UseOf, HoldsPort

(***************************************************************************)
(* The server creates a stream for a session, which has no port yet: on a  *)
(* port that was free, or in place of a stream without reader.             *)
(***************************************************************************)
LEMMA CreateStreamRefines ==
  ASSUME IInv, IInv', NEW s \in Sessions, NEW p \in Ports, CreateStream(s, p)
  PROVE  Lease!Grant(s, p) \/ Lease!Lapse
<1>1. \A t \in Sessions : UseOf(t)' = UseOf(t)
  BY SameUse DEF IInv, TypeOK, CreateStream, GotoConn
<1>2. CASE hosted[p] = None
  BY <1>1, <1>2 DEF CreateStream, Lease!Grant
<1>3. CASE p \in deaf
  <2>1. p \in lapsed' /\ lapsed' = lapsed
    BY <1>3 DEF IInv, TypeOK, CreateStream
  <2>2. \A q \in Ports \ lapsed' : hosted'[q] = hosted[q]
    BY <2>1 DEF IInv, TypeOK, CreateStream
  <2> QED
    BY <1>1, <2>1, <2>2, LapseRefines DEF IInv
<1> QED
  BY <1>2, <1>3 DEF CreateStream, Free

(* The answer arrives while the server hosts the stream, or has lost it. *)
LEMMA PortAllocatedRefines ==
  ASSUME IInv, IInv', NEW s \in Sessions, PortAllocated(s)
  PROVE  (\E p \in Ports : Lease!Use(s, p)) \/ Lease!Lapse
<1>1. answer[s] \in Ports /\ UseOf(s) = None
  BY DEF IInv, TypeOK, SessionInv, InHand, PortAllocated, UseOf, HoldsPort
<1>2. UseOf(s)' = answer[s]
  BY <1>1, NoneAssumption
     DEF IInv, TypeOK, PortAllocated, Answer, GotoConn, UseOf, HoldsPort
<1>3. ASSUME NEW t \in Sessions, t # s PROVE UseOf(t)' = UseOf(t)
  BY <1>3 DEF IInv, TypeOK, PortAllocated, Answer, GotoConn, UseOf, HoldsPort
<1>4. UNCHANGED <<hosted, lapsed>>
  BY DEF PortAllocated, serverVars
<1>5. CASE answer[s] \in lapsed
  BY <1>2, <1>3, <1>4, <1>5, LapseRefines DEF IInv
<1>6. CASE answer[s] \notin lapsed
  <2>1. hosted[answer[s]] = s
    BY <1>6 DEF IInv, SessionInv, OwnsPort, PortAllocated
  <2> QED
    BY <1>1, <1>2, <1>3, <1>4, <2>1 DEF Lease!Use
<1> QED
  BY <1>5, <1>6

(* The DELETE hits the session's own stream, or that of a lapsed port. *)
LEMMA FreePortRefines ==
  ASSUME IInv, IInv', NEW s \in Sessions, FreePort(s)
  PROVE  (\E p \in Ports : Lease!Return(s, p)) \/ Lease!Lapse
<1>1. rtpPort[s] \in Ports /\ UseOf(s) = rtpPort[s] /\ HoldsPort(s)
  BY DEF IInv, TypeOK, SessionInv, InHand, FreePort, UseOf, HoldsPort
<1>2. UseOf(s)' = None
  BY DEF IInv, TypeOK, FreePort, GotoConn, UseOf, HoldsPort
<1>3. ASSUME NEW t \in Sessions, t # s PROVE UseOf(t)' = UseOf(t)
  BY <1>3 DEF IInv, TypeOK, FreePort, GotoConn, stateVars, UseOf, HoldsPort
<1>4. lapsed' = lapsed /\ hosted' = [hosted EXCEPT ![rtpPort[s]] = None]
  BY DEF FreePort
<1>5. CASE rtpPort[s] \in lapsed
  <2>1. \A p \in Ports \ lapsed' : hosted'[p] = hosted[p]
    BY <1>4, <1>5 DEF IInv, TypeOK
  <2> QED
    BY <1>2, <1>3, <1>4, <2>1, LapseRefines DEF IInv
<1>6. CASE rtpPort[s] \notin lapsed
  <2>1. hosted[rtpPort[s]] = s
    BY <1>1, <1>6 DEF IInv, SessionInv, OwnsPort
  <2> QED
    BY <1>1, <1>2, <1>3, <1>4, <2>1 DEF Lease!Return
<1> QED
  BY <1>5, <1>6

(* The server loses a stream to a failed reader, or all of them in a restart. *)
LEMMA ServerRefines ==
  ASSUME IInv, IInv', ServerRestart \/ \E p \in Ports : ReaderFails(p)
  PROVE  Lease!Lapse
<1>1. \A t \in Sessions : UseOf(t)' = UseOf(t)
  BY SameUse DEF ServerRestart, ReaderFails, taskVars, stateVars
<1>2. lapsed \subseteq lapsed' /\ \A p \in Ports \ lapsed' : hosted'[p] = hosted[p]
  BY DEF ServerRestart, ReaderFails
<1> QED
  BY <1>1, <1>2, LapseRefines DEF IInv

(* Sessions that end, or only go on, leave the server's streams alone. *)
LEMMA GoingOnRefines ==
  ASSUME IInv, UNCHANGED <<serverVars, rtpPort>>,
         \A t \in Sessions : conn[t] = "ended" => conn'[t] = "ended"
  PROVE  Lease!Abandon
<1>1. ASSUME NEW t \in Sessions
      PROVE  UseOf(t)' \in {UseOf(t), None} \cap (Ports \cup {None})
  BY UseTyped DEF IInv, UseOf, HoldsPort
<1> QED
  BY <1>1 DEF Lease!Abandon, serverVars

(* Every step of a session but those of the lemmas above goes on. *)
LEMMA SessionGoesOn ==
  ASSUME IInv, NEW s \in Sessions, SessionStep(s),
         ~PortAllocated(s), ~FreePort(s), \A p \in Ports : ~CreateStream(s, p)
  PROVE  /\ UNCHANGED <<serverVars, rtpPort>>
         /\ \A t \in Sessions : conn[t] = "ended" => conn'[t] = "ended"
<1> USE DEF IInv, TypeOK, GotoConn, GotoFrame, taskVars, stateVars
<1>1. CASE Accept(s) \/ EncoderGone(s) \/ FrameEof(s)
  BY <1>1 DEF Accept, EncoderGone, FrameEof, SessionInv, Lockstep
<1>2. CASE \E cmd \in Commands : FrameRead(s, cmd)
  BY <1>2 DEF FrameRead
<1>3. CASE FrameTask(s)
  BY <1>3 DEF FrameTask, FrameSend, FrameReceive, FrameNone, FrameWrite, FrameWriteFails
<1>4. CASE HandleHMAC(s) \/ HandleAttribute(s) \/ HandleBadAttribute(s) \/ HandlePing(s)
           \/ HandleDot(s)
  BY <1>4 DEF HandleHMAC, HandleAttribute, HandleBadAttribute, HandlePing, HandleDot,
              Receive, Answer
<1>5. CASE HandleConnect(s) \/ HandleDisconnect(s) \/ HandleNone(s)
  BY <1>5 DEF HandleConnect, HandleDisconnect, HandleNone, Receive
<1>6. CASE NotifyStart(s) \/ NotifyStartFails(s) \/ AuthAnswers(s) \/ PortNotAllocated(s)
  BY <1>6 DEF NotifyStart, NotifyStartFails, AuthAnswers, PortNotAllocated, Answer
<1>7. CASE SendReply(s)
  BY <1>7 DEF SendReply
<1>8. CASE NotifyEnd(s) \/ NotifyEndFails(s) \/ FreePortFails(s)
  BY <1>8 DEF NotifyEnd, NotifyEndFails, FreePortFails
<1> QED
  BY <1>1, <1>2, <1>3, <1>4, <1>5, <1>6, <1>7, <1>8
     DEF SessionStep, ConnTask, OwnStep, ServiceStep

(***************************************************************************)
(* Every step of the sessions and of the server is a step of PortLease or  *)
(* changes nothing in it.                                                  *)
(***************************************************************************)
LEMMA StepRefines == IInv /\ IInv' /\ [Next]_vars => [Lease!Next]_(Lease!vars)
<1> SUFFICES ASSUME IInv, IInv', [Next]_vars PROVE [Lease!Next]_(Lease!vars)
  OBVIOUS
<1>1. CASE ServerRestart \/ \E p \in Ports : ReaderFails(p)
  BY <1>1, ServerRefines DEF Lease!Next
<1>2. CASE AcceptFails
  <2>1. \A t \in Sessions : conn[t] = "ended" => conn'[t] = "ended"
    BY <1>2 DEF AcceptFails
  <2> QED
    BY <1>2, <2>1, GoingOnRefines DEF AcceptFails, stateVars, Lease!Next
<1>3. ASSUME NEW s \in Sessions, SessionStep(s) PROVE Lease!Next
  <2>1. ASSUME NEW p \in Ports, CreateStream(s, p) PROVE Lease!Next
    BY <2>1, CreateStreamRefines DEF Lease!Next
  <2>2. CASE PortAllocated(s)
    BY <2>2, PortAllocatedRefines DEF Lease!Next
  <2>3. CASE FreePort(s)
    BY <2>3, FreePortRefines DEF Lease!Next
  <2>4. CASE ~PortAllocated(s) /\ ~FreePort(s) /\ \A p \in Ports : ~CreateStream(s, p)
    BY <1>3, <2>4, SessionGoesOn, GoingOnRefines DEF Lease!Next
  <2> QED
    BY <2>1, <2>2, <2>3, <2>4
<1>4. CASE UNCHANGED vars
  BY <1>4 DEF vars, taskVars, stateVars, serverVars, Lease!vars, UseOf, HoldsPort
<1> QED
  BY <1>1, <1>2, <1>3, <1>4 DEF Next

(***************************************************************************)
(* Sessions keep the promise of PortLease, for any number of sessions,     *)
(* ports, failures, readers lost, restarts and exits: at every port where  *)
(* the server has kept its streams a session uses only a port whose stream *)
(* is its own, and gives back no other (mod.rs:94-135, 288-329).           *)
(***************************************************************************)
THEOREM IngestImplementsPortLease == Spec => ImplementsPortLease
BY InitRefines, StepRefines, Invariance, PTL DEF Spec, ImplementsPortLease, Lease!Spec
=============================================================================
