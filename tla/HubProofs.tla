------------------------------ MODULE HubProofs ------------------------------
(***************************************************************************)
(* Proofs about Hub, for every finite set of viewers and every number of   *)
(* candidates: type correctness, and that no Send channel is written after *)
(* it has been closed or closed twice.                                     *)
(***************************************************************************)
EXTENDS Hub, FiniteSetTheorems, SequenceTheorems, TLAPS

(* Registration of c is still to come: handler, channel, or Run's hand. *)
BeforeRegister(c) == handler[c] \in {"idle", "found", "register"}
InRegister(c)     == register = <<c>>
InHand(c, pc)     == runPc = pc /\ runClient = c
ToBeAdded(c)      == BeforeRegister(c) \/ InRegister(c) \/ InHand(c, "lockAdd")

(* A client is added once: it is in one place at a time, then in Clients. *)
OneRegistration(c) ==
  /\ ~(BeforeRegister(c) /\ (InRegister(c) \/ InHand(c, "lockAdd")))
  /\ ~(InRegister(c) /\ InHand(c, "lockAdd"))
  /\ ToBeAdded(c) =>
       c \notin clients /\ ~sendClosed[c] /\ ~InHand(c, "closeSend")

(* Every goroutine at a send on c.Send found c in Clients, and c is still there. *)
SendersAreForClients(c) ==
  /\ handler[c] = "sendOffer" => c \in clients
  /\ ice[c] = "sending" => c \in clients
  /\ InHand(c, "sendInfo") => c \in clients

(* The life of c.Send: open in Clients, then in Run's hand, then closed. *)
ClosedOnce(c) ==
  /\ c \in clients => ~sendClosed[c]
  /\ InHand(c, "lockDelete") => c \in clients
  /\ InHand(c, "closeSend") => c \notin clients /\ ~sendClosed[c]

(* What Run has in hand, and the callbacks of a peer connection. *)
RunHand ==
  /\ runPc \in {"lockAdd", "lockDelete", "closeSend", "sendInfo"}
       => runClient \in Viewers
  /\ runPc = "sendInfo" => runLeft \subseteq clients
CallbackBound(c) == peerConn[c] # "closed" => callbacks[c] = 0

ViewerInv(c) ==
  OneRegistration(c) /\ SendersAreForClients(c) /\ ClosedOnce(c) /\ CallbackBound(c)

IInv == TypeOK /\ RunHand /\ \A c \in Viewers : ViewerInv(c)
-----------------------------------------------------------------------------
(* The channels of capacity 1: sending to an empty one, receiving. *)
LEMMA ChannelSend ==
  ASSUME NEW ch \in Seq(Viewers), Len(ch) < 1, NEW c \in Viewers
  PROVE  /\ Append(ch, c) = <<c>>
         /\ Append(ch, c) \in Seq(Viewers)
         /\ Len(Append(ch, c)) <= 1
         /\ ch = <<>>
<1>1. ch = <<>>
  BY EmptySeq
<1> QED  BY <1>1

(* Receiving from a channel of capacity one leaves such a channel. *)
LEMMA ChannelReceive ==
  ASSUME NEW ch \in Seq(Viewers), Len(ch) <= 1, ch # <<>>
  PROVE  /\ Head(ch) \in Viewers
         /\ ch = <<Head(ch)>>
         /\ Tail(ch) = <<>>
<1>1. Len(ch) = 1
  BY EmptySeq
<1>2. Tail(ch) = <<>>
  <2>1. Tail(ch) \in Seq(Viewers) /\ Len(Tail(ch)) = 0
    BY <1>1, HeadTailProperties
  <2> QED  BY <2>1, EmptySeq
<1>3. Len(<<Head(ch)>>) = 1 /\ <<Head(ch)>> \in Seq(Viewers) /\ <<Head(ch)>>[1] = Head(ch)
  BY HeadTailProperties
<1>4. ch = <<Head(ch)>>
  BY <1>1, <1>3, SeqEqual
<1> QED  BY <1>2, <1>4, HeadTailProperties

(* The number GetInfo reports is the size of a set of viewers. *)
LEMMA CountsType ==
  ASSUME NEW S \in SUBSET Viewers
  PROVE  Cardinality(S) \in Counts
BY ViewersAssumption, FS_Subset, FS_CardinalityType DEF Counts
(* The number that an empty hub announces. *)
LEMMA ZeroCount == 0 \in Counts
BY CountsType, FS_EmptySet

-----------------------------------------------------------------------------
(* The initial state satisfies the inductive invariant. *)
LEMMA InitInv == Init => IInv
<1> SUFFICES ASSUME Init PROVE IInv
  OBVIOUS
<1>1. TypeOK
  BY ZeroCount, EmptySeq, CandidatesAssumption
     DEF Init, TypeOK, RunStates, HandlerStates, WriterStates
<1>2. RunHand
  BY DEF Init, RunHand
<1>3. ASSUME NEW c \in Viewers PROVE ViewerInv(c)
  BY NoneAssumption
     DEF Init, ViewerInv, OneRegistration, SendersAreForClients, ClosedOnce,
         CallbackBound, ToBeAdded, BeforeRegister, InRegister, InHand
<1> QED  BY <1>1, <1>2, <1>3 DEF IInv

(* A step of Run preserves the inductive invariant. *)
LEMMA RunInv == IInv /\ Run => IInv'
<1> SUFFICES ASSUME IInv, Run PROVE IInv'
  OBVIOUS
<1> USE DEF IInv, RunHand, ViewerInv, OneRegistration, SendersAreForClients, ClosedOnce,
            CallbackBound, ToBeAdded, BeforeRegister, InRegister, InHand,
            hubVars, writerVars, rtcVars
<1>1. CASE RunRegister
  <2>1. TypeOK'
    BY <1>1, ChannelReceive, EmptySeq
       DEF RunRegister, TypeOK, RunStates, WriterStates, Messages
  <2>2. RunHand'
    BY <1>1, ChannelReceive, EmptySeq DEF RunRegister, TypeOK
  <2>3. ASSUME NEW c \in Viewers PROVE ViewerInv(c)'
    BY <1>1, ChannelReceive, EmptySeq, NoneAssumption DEF RunRegister, TypeOK
  <2> QED  BY <2>1, <2>2, <2>3
<1>2. CASE RunAdd
  <2>1. TypeOK'
    BY <1>2, CountsType
       DEF RunAdd, SpawnSendInfo, RLockHeld, TypeOK, RunStates, WriterStates, Messages
  <2>2. RunHand'
    BY <1>2, CountsType DEF RunAdd, SpawnSendInfo, RLockHeld, TypeOK
  <2>3. ASSUME NEW c \in Viewers PROVE ViewerInv(c)'
    BY <1>2, CountsType, NoneAssumption DEF RunAdd, SpawnSendInfo, RLockHeld, TypeOK
  <2> QED  BY <2>1, <2>2, <2>3
<1>3. CASE RunUnregister
  <2>1. TypeOK'
    BY <1>3, ChannelReceive, EmptySeq
       DEF RunUnregister, TypeOK, RunStates, WriterStates, Messages
  <2>2. RunHand'
    BY <1>3, ChannelReceive, EmptySeq DEF RunUnregister, TypeOK
  <2>3. ASSUME NEW c \in Viewers PROVE ViewerInv(c)'
    BY <1>3, ChannelReceive, EmptySeq, NoneAssumption DEF RunUnregister, TypeOK
  <2> QED  BY <2>1, <2>2, <2>3
<1>4. CASE RunDelete
  <2>1. TypeOK'
    BY <1>4 DEF RunDelete, RLockHeld, TypeOK, RunStates, WriterStates, Messages
  <2>2. RunHand'
    BY <1>4 DEF RunDelete, RLockHeld, TypeOK
  <2>3. ASSUME NEW c \in Viewers PROVE ViewerInv(c)'
    BY <1>4, NoneAssumption DEF RunDelete, RLockHeld, TypeOK
  <2> QED  BY <2>1, <2>2, <2>3
<1>5. CASE RunCloseSend
  <2>1. TypeOK'
    BY <1>5, CountsType
       DEF RunCloseSend, SpawnSendInfo, TypeOK, RunStates, WriterStates, Messages
  <2>2. RunHand'
    BY <1>5, CountsType DEF RunCloseSend, SpawnSendInfo, TypeOK
  <2>3. ASSUME NEW c \in Viewers PROVE ViewerInv(c)'
    BY <1>5, CountsType, NoneAssumption DEF RunCloseSend, SpawnSendInfo, TypeOK
  <2> QED  BY <2>1, <2>2, <2>3
<1>6. CASE RunBroadcast
  <2>1. TypeOK'
    BY <1>6, ZeroCount
       DEF RunBroadcast, NextReceiver, TypeOK, RunStates, WriterStates, Messages
  <2>2. RunHand'
    BY <1>6, ZeroCount DEF RunBroadcast, NextReceiver, TypeOK
  <2>3. ASSUME NEW c \in Viewers PROVE ViewerInv(c)'
    BY <1>6, NoneAssumption DEF RunBroadcast, NextReceiver, TypeOK
  <2> QED  BY <2>1, <2>2, <2>3
<1>7. CASE RunSendInfo
  <2>1. TypeOK'
    BY <1>7, ZeroCount
       DEF RunSendInfo, NextReceiver, HandOver, TypeOK, RunStates, WriterStates,
           Messages
  <2>2. RunHand'
    BY <1>7, ZeroCount DEF RunSendInfo, NextReceiver, HandOver, TypeOK
  <2>3. ASSUME NEW c \in Viewers PROVE ViewerInv(c)'
    BY <1>7, NoneAssumption DEF RunSendInfo, NextReceiver, HandOver, TypeOK
  <2> QED  BY <2>1, <2>2, <2>3
<1>8. CASE RunDone
  <2>1. TypeOK'
    BY <1>8 DEF RunDone, Closed, TypeOK, RunStates, WriterStates, Messages
  <2>2. RunHand'
    BY <1>8 DEF RunDone, Closed, TypeOK
  <2>3. ASSUME NEW c \in Viewers PROVE ViewerInv(c)'
    BY <1>8, NoneAssumption DEF RunDone, Closed, TypeOK
  <2> QED  BY <2>1, <2>2, <2>3
<1>9. CASE RunShutdown
  <2>1. TypeOK'
    BY <1>9 DEF RunShutdown, RLockHeld, TypeOK, RunStates, WriterStates, Messages
  <2>2. RunHand'
    BY <1>9 DEF RunShutdown, RLockHeld, TypeOK
  <2>3. ASSUME NEW c \in Viewers PROVE ViewerInv(c)'
    BY <1>9, NoneAssumption DEF RunShutdown, RLockHeld, TypeOK
  <2> QED  BY <2>1, <2>2, <2>3
<1> QED  BY <1>1, <1>2, <1>3, <1>4, <1>5, <1>6, <1>7, <1>8, <1>9 DEF Run

(* Closing a peer connection leaves at most two callbacks waiting. *)
LEMMA CloseTypes ==
  ASSUME TypeOK, NEW v \in Viewers, CallbackBound(v), NEW n \in {0, 1},
         n = 1 => peerConn[v] # "closed", ClosePeerConnection(v, n)
  PROVE  /\ peerConn' \in [Viewers -> {"new", "remote", "closed"}]
         /\ callbacks' \in [Viewers -> 0 .. 2]
<1>1. callbacks[v] \in 0 .. 2 /\ (peerConn[v] # "closed" => callbacks[v] = 0)
  BY DEF TypeOK, CallbackBound
<1>2. callbacks[v] + n + (IF peerConn[v] = "closed" THEN 0 ELSE 1) \in 0 .. 2
  <2>1. CASE peerConn[v] = "closed"
    BY <1>1, <2>1
  <2>2. CASE peerConn[v] # "closed"
    BY <1>1, <2>2
  <2> QED  BY <2>1, <2>2
<1> QED  BY <1>2 DEF TypeOK, ClosePeerConnection

(* A step of a viewer's goroutines preserves the inductive invariant. *)
LEMMA ViewerStepInv ==
  ASSUME IInv, NEW v \in Viewers, ViewerStep(v)
  PROVE  IInv'
<1> USE DEF IInv, RunHand, ViewerInv, OneRegistration, SendersAreForClients, ClosedOnce,
            CallbackBound, ToBeAdded, BeforeRegister, InRegister, InHand, Goto,
            hubVars, writerVars, rtcVars
<1>1. CASE LookupStream(v)
  <2>1. TypeOK'
    BY <1>1 DEF LookupStream, TypeOK, HandlerStates, WriterStates, Messages
  <2>2. RunHand'
    BY <1>1 DEF LookupStream, TypeOK
  <2>3. ASSUME NEW c \in Viewers PROVE ViewerInv(c)'
    BY <1>1 DEF LookupStream, TypeOK
  <2> QED  BY <2>1, <2>2, <2>3
<1>2. CASE SetupFails(v)
  <2>1. TypeOK'
    BY <1>2 DEF SetupFails, TypeOK, HandlerStates, WriterStates, Messages
  <2>2. RunHand'
    BY <1>2 DEF SetupFails, TypeOK
  <2>3. ASSUME NEW c \in Viewers PROVE ViewerInv(c)'
    BY <1>2 DEF SetupFails, TypeOK
  <2> QED  BY <2>1, <2>2, <2>3
<1>3. CASE AcceptViewer(v)
  <2>1. TypeOK'
    BY <1>3 DEF AcceptViewer, TypeOK, HandlerStates, WriterStates, Messages
  <2>2. RunHand'
    BY <1>3 DEF AcceptViewer, TypeOK
  <2>3. ASSUME NEW c \in Viewers PROVE ViewerInv(c)'
    BY <1>3 DEF AcceptViewer, TypeOK
  <2> QED  BY <2>1, <2>2, <2>3
<1>4. CASE SendRegister(v)
  <2>1. TypeOK'
    BY <1>4, ChannelSend DEF SendRegister, TypeOK, HandlerStates, WriterStates, Messages
  <2>2. RunHand'
    BY <1>4 DEF SendRegister, TypeOK
  <2>3. ASSUME NEW c \in Viewers PROVE ViewerInv(c)'
    BY <1>4, ChannelSend DEF SendRegister, TypeOK
  <2> QED  BY <2>1, <2>2, <2>3
<1>5. CASE CheckOffer(v)
  <2>1. TypeOK'
    BY <1>5 DEF CheckOffer, LockPending, TypeOK, HandlerStates, WriterStates, Messages
  <2>2. RunHand'
    BY <1>5 DEF CheckOffer, LockPending, TypeOK
  <2>3. ASSUME NEW c \in Viewers PROVE ViewerInv(c)'
    BY <1>5 DEF CheckOffer, LockPending, TypeOK
  <2> QED  BY <2>1, <2>2, <2>3
<1>6. CASE SendOffer(v)
  <2>1. TypeOK'
    BY <1>6 DEF SendOffer, HandOver, TypeOK, HandlerStates, WriterStates, Messages
  <2>2. RunHand'
    BY <1>6 DEF SendOffer, HandOver, TypeOK
  <2>3. ASSUME NEW c \in Viewers PROVE ViewerInv(c)'
    BY <1>6 DEF SendOffer, HandOver, TypeOK
  <2> QED  BY <2>1, <2>2, <2>3
<1>7. CASE ReadError(v)
  <2>1. TypeOK'
    BY <1>7 DEF ReadError, TypeOK, HandlerStates, WriterStates, Messages
  <2>2. RunHand'
    BY <1>7 DEF ReadError, TypeOK
  <2>3. ASSUME NEW c \in Viewers PROVE ViewerInv(c)'
    BY <1>7 DEF ReadError, TypeOK
  <2> QED  BY <2>1, <2>2, <2>3
<1>8. CASE LeaveClosedHub(v)
  <2>1. TypeOK'
    BY <1>8, CloseTypes
       DEF LeaveClosedHub, HandlerReturns, TypeOK, HandlerStates, WriterStates, Messages
  <2>2. RunHand'
    BY <1>8 DEF LeaveClosedHub, HandlerReturns, ClosePeerConnection, Closed, TypeOK
  <2>3. ASSUME NEW c \in Viewers PROVE ViewerInv(c)'
    BY <1>8 DEF LeaveClosedHub, HandlerReturns, ClosePeerConnection, Closed, TypeOK
  <2> QED  BY <2>1, <2>2, <2>3
<1>9. CASE LeaveOpenHub(v)
  <2>1. TypeOK'
    BY <1>9 DEF LeaveOpenHub, Closed, TypeOK, HandlerStates, WriterStates, Messages
  <2>2. RunHand'
    BY <1>9 DEF LeaveOpenHub, Closed, TypeOK
  <2>3. ASSUME NEW c \in Viewers PROVE ViewerInv(c)'
    BY <1>9 DEF LeaveOpenHub, Closed, TypeOK
  <2> QED  BY <2>1, <2>2, <2>3
<1>10. CASE SendUnregister(v)
  <2>1. TypeOK'
    BY <1>10, ChannelSend, CloseTypes
       DEF SendUnregister, HandlerReturns, TypeOK, HandlerStates, WriterStates, Messages
  <2>2. RunHand'
    BY <1>10 DEF SendUnregister, HandlerReturns, ClosePeerConnection, TypeOK
  <2>3. ASSUME NEW c \in Viewers PROVE ViewerInv(c)'
    BY <1>10, ChannelSend DEF SendUnregister, HandlerReturns, ClosePeerConnection, TypeOK
  <2> QED  BY <2>1, <2>2, <2>3
<1>11. CASE ReadAnswer(v)
  <2>1. TypeOK'
    BY <1>11 DEF ReadAnswer, TypeOK, HandlerStates, WriterStates, Messages
  <2>2. RunHand'
    BY <1>11 DEF ReadAnswer, TypeOK
  <2>3. ASSUME NEW c \in Viewers PROVE ViewerInv(c)'
    BY <1>11 DEF ReadAnswer, TypeOK
  <2> QED  BY <2>1, <2>2, <2>3
<1>12. CASE ReadReject(v)
  <2>1. TypeOK'
    BY <1>12 DEF ReadReject, TypeOK, HandlerStates, WriterStates, Messages
  <2>2. RunHand'
    BY <1>12 DEF ReadReject, TypeOK
  <2>3. ASSUME NEW c \in Viewers PROVE ViewerInv(c)'
    BY <1>12 DEF ReadReject, TypeOK
  <2> QED  BY <2>1, <2>2, <2>3
<1>13. CASE IceCandidate(v)
  <2>1. TypeOK'
    BY <1>13, CandidatesAssumption
       DEF IceCandidate, LockPending, TypeOK, HandlerStates, WriterStates, Messages
  <2>2. RunHand'
    BY <1>13 DEF IceCandidate, LockPending, TypeOK
  <2>3. ASSUME NEW c \in Viewers PROVE ViewerInv(c)'
    BY <1>13 DEF IceCandidate, LockPending, TypeOK
  <2> QED  BY <2>1, <2>2, <2>3
<1>14. CASE IceSend(v)
  <2>1. TypeOK'
    BY <1>14 DEF IceSend, HandOver, TypeOK, HandlerStates, WriterStates, Messages
  <2>2. RunHand'
    BY <1>14 DEF IceSend, HandOver, TypeOK
  <2>3. ASSUME NEW c \in Viewers PROVE ViewerInv(c)'
    BY <1>14 DEF IceSend, HandOver, TypeOK
  <2> QED  BY <2>1, <2>2, <2>3
<1>15. CASE PeerFailed(v)
  <2>1. TypeOK'
    BY <1>15, CloseTypes DEF PeerFailed, TypeOK, HandlerStates, WriterStates, Messages
  <2>2. RunHand'
    BY <1>15 DEF PeerFailed, ClosePeerConnection, TypeOK
  <2>3. ASSUME NEW c \in Viewers PROVE ViewerInv(c)'
    BY <1>15 DEF PeerFailed, ClosePeerConnection, TypeOK
  <2> QED  BY <2>1, <2>2, <2>3
<1>16. CASE CallbackUnregister(v)
  <2>1. TypeOK'
    BY <1>16, ChannelSend
       DEF CallbackUnregister, TypeOK, HandlerStates, WriterStates, Messages
  <2>2. RunHand'
    BY <1>16 DEF CallbackUnregister, TypeOK
  <2>3. ASSUME NEW c \in Viewers PROVE ViewerInv(c)'
    BY <1>16, ChannelSend DEF CallbackUnregister, TypeOK
  <2> QED  BY <2>1, <2>2, <2>3
<1>17. CASE WriteMessage(v)
  <2>1. TypeOK'
    BY <1>17 DEF WriteMessage, TypeOK, HandlerStates, WriterStates, Messages
  <2>2. RunHand'
    BY <1>17 DEF WriteMessage, TypeOK
  <2>3. ASSUME NEW c \in Viewers PROVE ViewerInv(c)'
    BY <1>17 DEF WriteMessage, TypeOK
  <2> QED  BY <2>1, <2>2, <2>3
<1>18. CASE WriteFails(v)
  <2>1. TypeOK'
    BY <1>18 DEF WriteFails, WriterExit, TypeOK, HandlerStates, WriterStates, Messages
  <2>2. RunHand'
    BY <1>18 DEF WriteFails, WriterExit, TypeOK
  <2>3. ASSUME NEW c \in Viewers PROVE ViewerInv(c)'
    BY <1>18 DEF WriteFails, WriterExit, TypeOK
  <2> QED  BY <2>1, <2>2, <2>3
<1>19. CASE WriteSendClosed(v)
  <2>1. TypeOK'
    BY <1>19 DEF WriteSendClosed, WriterExit, TypeOK, HandlerStates, WriterStates, Messages
  <2>2. RunHand'
    BY <1>19 DEF WriteSendClosed, WriterExit, TypeOK
  <2>3. ASSUME NEW c \in Viewers PROVE ViewerInv(c)'
    BY <1>19 DEF WriteSendClosed, WriterExit, TypeOK
  <2> QED  BY <2>1, <2>2, <2>3
<1>20. CASE PingFails(v)
  <2>1. TypeOK'
    BY <1>20 DEF PingFails, WriterExit, TypeOK, HandlerStates, WriterStates, Messages
  <2>2. RunHand'
    BY <1>20 DEF PingFails, WriterExit, TypeOK
  <2>3. ASSUME NEW c \in Viewers PROVE ViewerInv(c)'
    BY <1>20 DEF PingFails, WriterExit, TypeOK
  <2> QED  BY <2>1, <2>2, <2>3
<1>21. CASE PeerGone(v)
  <2>1. TypeOK'
    BY <1>21 DEF PeerGone, TypeOK, HandlerStates, WriterStates, Messages
  <2>2. RunHand'
    BY <1>21 DEF PeerGone, TypeOK
  <2>3. ASSUME NEW c \in Viewers PROVE ViewerInv(c)'
    BY <1>21 DEF PeerGone, TypeOK
  <2> QED  BY <2>1, <2>2, <2>3
<1> QED
  BY <1>1, <1>2, <1>3, <1>4, <1>5, <1>6, <1>7, <1>8, <1>9, <1>10, <1>11, <1>12, <1>13,
     <1>14, <1>15, <1>16, <1>17, <1>18, <1>19, <1>20, <1>21
     DEF ViewerStep, HandlerStep, WriteLoop

(* Every step of the hub and its viewers preserves the inductive invariant. *)
LEMMA NextInv == IInv /\ [Next]_vars => IInv'
<1> SUFFICES ASSUME IInv, [Next]_vars PROVE IInv'
  OBVIOUS
<1> USE DEF IInv, RunHand, ViewerInv, OneRegistration, SendersAreForClients, ClosedOnce,
            CallbackBound, ToBeAdded, BeforeRegister, InRegister, InHand, TypeOK,
            hubVars, writerVars, rtcVars
<1>1. CASE Run
  BY <1>1, RunInv
<1>2. CASE UnmapStream
  BY <1>2 DEF UnmapStream
<1>3. CASE CloseHub
  BY <1>3 DEF CloseHub
<1>4. ASSUME NEW v \in Viewers, ViewerStep(v) PROVE IInv'
  BY <1>4, ViewerStepInv
<1>5. CASE UNCHANGED vars
  BY <1>5 DEF vars
<1> QED  BY <1>1, <1>2, <1>3, <1>4, <1>5 DEF Next

(* The invariant is one of the specification. *)
LEMMA Invariance == Spec => []IInv
BY InitInv, NextInv, PTL DEF Spec
-----------------------------------------------------------------------------
(***************************************************************************)
(* Type correctness: in particular the channels Register and Unregister    *)
(* stay within their capacity and at most two state callbacks wait for one *)
(* viewer, whatever the number of viewers (hub.go, server.go:176-206).     *)
(***************************************************************************)
THEOREM HubTypeCorrect == Spec => []TypeOK
<1>1. IInv => TypeOK
  BY DEF IInv
<1> QED  BY <1>1, Invariance, PTL

(***************************************************************************)
(* For any number of viewers, no goroutine sends on a client's Send        *)
(* channel once the hub has closed it (hub.go:34, hub.go:67-95).           *)
(***************************************************************************)
THEOREM HubNoSendOnClosed == Spec => []NoSendOnClosed
<1>1. IInv => NoSendOnClosed
  BY DEF IInv, ViewerInv, SendersAreForClients, ClosedOnce, InHand, NoSendOnClosed
<1> QED  BY <1>1, Invariance, PTL

(***************************************************************************)
(* For any number of viewers, the hub closes a Send channel at most once,  *)
(* however often a viewer is unregistered (hub.go:67-95).                  *)
(***************************************************************************)
THEOREM HubNoDoubleClose == Spec => []NoDoubleClose
<1>1. IInv => NoDoubleClose
  BY DEF IInv, RunHand, ViewerInv, ClosedOnce, InHand, NoDoubleClose, TypeOK
<1> QED  BY <1>1, Invariance, PTL
=============================================================================
