--------------------------- MODULE HubRosterProofs ---------------------------
(***************************************************************************)
(* More about Hub, for every finite set of viewers: that an Unregister     *)
(* finds its client, that a shutdown reaches every client, and that the    *)
(* hub implements Roster.                                                  *)
(***************************************************************************)
EXTENDS HubProofs

(***************************************************************************)
(* c's Register has been sent, and the hub has not lost c: it is in the    *)
(* channel, in Run's hand, in Clients, or closed.                          *)
(***************************************************************************)
Known(c) ==
  \/ InRegister(c) \/ InHand(c, "lockAdd")
  \/ c \in clients
  \/ InHand(c, "closeSend") \/ sendClosed[c]

(* Whoever may come to send, or has sent, Unregister <- c is past Register <- c. *)
Registered(c) ==
  \/ handler[c] \in {"offer", "sendOffer", "read", "leave", "unregister"}
  \/ peerConn[c] # "new"
  \/ unregister = <<c>>

(* The websocket of c: opened by the handler, closed with c.Send or by the handler. *)
ConnLife(c) ==
  /\ sendClosed[c] => conn[c] = "closed"
  /\ conn[c] = "open" => handler[c] \notin {"idle", "found", "returned"}
  /\ handler[c] \in {"idle", "found"} => writer[c] = "none"

LifeInv(c) == (Registered(c) => Known(c)) /\ ConnLife(c)

RInv ==
  /\ runPc = "returned" => clients = {}
  /\ \A c \in Viewers : LifeInv(c)
-----------------------------------------------------------------------------
(* Before any viewer has come. *)
LEMMA InitLife == Init => RInv
BY DEF Init, RInv, LifeInv, Registered, ConnLife

(* A step of Run takes a client from one place to the next. *)
LEMMA RunLife ==
  ASSUME IInv, RInv, Run
  PROVE  RInv'
<1> USE DEF IInv, TypeOK, RunHand, ViewerInv, OneRegistration, ClosedOnce, ToBeAdded,
            RInv, LifeInv, Known, Registered, ConnLife, BeforeRegister, InRegister, InHand,
            writerVars, rtcVars
<1>1. CASE RunRegister
  BY <1>1, ChannelReceive DEF RunRegister
<1>2. CASE RunAdd
  BY <1>2 DEF RunAdd
<1>3. CASE RunUnregister
  BY <1>3, ChannelReceive DEF RunUnregister
<1>4. CASE RunDelete
  BY <1>4 DEF RunDelete
<1>5. CASE RunCloseSend
  BY <1>5 DEF RunCloseSend
<1>6. CASE RunBroadcast
  BY <1>6 DEF RunBroadcast, NextReceiver
<1>7. CASE RunSendInfo
  BY <1>7 DEF RunSendInfo, NextReceiver, HandOver
<1>8. CASE RunDone
  BY <1>8 DEF RunDone
<1>9. CASE RunShutdown
  BY <1>9 DEF RunShutdown
<1> QED
  BY <1>1, <1>2, <1>3, <1>4, <1>5, <1>6, <1>7, <1>8, <1>9 DEF Run

(* A viewer's handler sends Register before anything of it can send Unregister. *)
LEMMA ViewerLife ==
  ASSUME IInv, RInv, NEW v \in Viewers, ViewerStep(v)
  PROVE  RInv'
<1> USE DEF IInv, TypeOK, ViewerInv, OneRegistration, SendersAreForClients, ClosedOnce,
            CallbackBound, ToBeAdded, RInv, LifeInv, Known, Registered, ConnLife,
            BeforeRegister, InRegister, InHand, Goto, hubVars, writerVars, rtcVars
<1>1. CASE LookupStream(v) \/ SetupFails(v)
  BY <1>1 DEF LookupStream, SetupFails
<1>2. CASE AcceptViewer(v)
  BY <1>2 DEF AcceptViewer
<1>3. CASE SendRegister(v)
  BY <1>3, ChannelSend DEF SendRegister
<1>4. CASE CheckOffer(v)
  BY <1>4 DEF CheckOffer
<1>5. CASE SendOffer(v)
  BY <1>5 DEF SendOffer, HandOver
<1>6. CASE ReadAnswer(v) \/ ReadReject(v) \/ ReadError(v) \/ LeaveOpenHub(v)
  BY <1>6 DEF ReadAnswer, ReadReject, ReadError, LeaveOpenHub
<1>7. CASE LeaveClosedHub(v)
  BY <1>7 DEF LeaveClosedHub, HandlerReturns, ClosePeerConnection
<1>8. CASE SendUnregister(v)
  BY <1>8, ChannelSend DEF SendUnregister, HandlerReturns, ClosePeerConnection
<1>9. CASE IceCandidate(v) \/ IceSend(v)
  BY <1>9 DEF IceCandidate, IceSend, HandOver
<1>10. CASE PeerFailed(v)
  BY <1>10 DEF PeerFailed, ClosePeerConnection
<1>11. CASE CallbackUnregister(v)
  <2>1. unregister' = <<v>> /\ peerConn[v] = "closed"
    BY <1>11, ChannelSend DEF CallbackUnregister
  <2> QED
    BY <1>11, <2>1 DEF CallbackUnregister
<1>12. CASE WriteLoop(v)
  BY <1>12 DEF WriteLoop, WriteMessage, WriteFails, WriteSendClosed, PingFails, WriterExit,
              Messages
<1>13. CASE PeerGone(v)
  BY <1>13 DEF PeerGone
<1> QED
  BY <1>1, <1>2, <1>3, <1>4, <1>5, <1>6, <1>7, <1>8, <1>9, <1>10, <1>11, <1>12, <1>13
     DEF ViewerStep, HandlerStep

(* Every step keeps where clients and connections are known to be. *)
LEMMA NextLife == IInv /\ RInv /\ [Next]_vars => RInv'
<1> SUFFICES ASSUME IInv, RInv, [Next]_vars PROVE RInv'
  OBVIOUS
<1>1. CASE UnmapStream \/ CloseHub \/ UNCHANGED vars
  BY <1>1 DEF UnmapStream, CloseHub, RInv, LifeInv, Known, Registered, ConnLife, InRegister,
              InHand, hubVars, writerVars, rtcVars, vars
<1> QED
  BY <1>1, RunLife, ViewerLife DEF Next

(* Both invariants are invariants of the specification. *)
LEMMA LifeInvariance == Spec => [](IInv /\ RInv)
BY InitLife, NextLife, Invariance, PTL DEF Spec
-----------------------------------------------------------------------------
(* A channel of capacity one contains its one element. *)
LEMMA ContainsOne ==
  ASSUME NEW ch \in Seq(Viewers), Len(ch) <= 1, NEW c \in Viewers
  PROVE  Contains(ch, c) <=> ch = <<c>>
<1>1. CASE ch = <<>>
  BY <1>1 DEF Contains
<1>2. CASE ch # <<>>
  <2>1. ch = <<Head(ch)>> /\ Head(ch) \in Viewers
    BY <1>2, ChannelReceive
  <2> QED
    BY <2>1 DEF Contains
<1> QED
  BY <1>1, <1>2

(***************************************************************************)
(* For any number of viewers, an Unregister that Run is about to receive   *)
(* is for a client in Clients, for one it has closed, or for one whose     *)
(* Register waits in the other channel (hub.go:60-67).                     *)
(***************************************************************************)
THEOREM HubUnregisterFindsClient == Spec => []UnregisterFindsClient
<1>1. IInv /\ RInv => UnregisterFindsClient
  BY ContainsOne
     DEF IInv, TypeOK, RInv, LifeInv, Registered, Known, InRegister, InHand,
         UnregisterFindsClient
<1> QED  BY <1>1, LifeInvariance, PTL

(***************************************************************************)
(* For any number of viewers, when Run has returned an open websocket is   *)
(* one whose Register came too late (hub.go:105-121, server.go:129,176).   *)
(***************************************************************************)
THEOREM HubShutdownReachesClients == Spec => []ShutdownReachesClients
<1>1. IInv /\ RInv => ShutdownReachesClients
  BY ContainsOne
     DEF IInv, TypeOK, HandlerStates, RInv, LifeInv, ConnLife, Registered, Known,
         InRegister, InHand, ShutdownReachesClients
<1> QED  BY <1>1, LifeInvariance, PTL
-----------------------------------------------------------------------------
(***************************************************************************)
(* The refinement: Clients is the roster, a WriteLoop its viewer's inbox.  *)
(***************************************************************************)
LEMMA InitRefines == Init => Promise!Init
BY DEF Init, Promise!Init, Status, InWriter, Messages

(* Run adds a client that has not been a member before. *)
LEMMA RunAddRefines ==
  ASSUME IInv, RunAdd
  PROVE  \E c \in Viewers : Promise!Join(c)
<1>1. PICK c \in Viewers : c = runClient
  BY DEF IInv, RunHand, RunAdd
<1>2. Status(c) = "absent"
  BY <1>1 DEF IInv, ViewerInv, OneRegistration, ToBeAdded, InHand, RunAdd, Status
<1>3. Status(c)' = "member"
  BY <1>1 DEF RunAdd, Status
<1>4. ASSUME NEW v \in Viewers, v # c PROVE Status(v)' = Status(v)
  BY <1>1, <1>4 DEF RunAdd, writerVars, Status
<1>5. ASSUME NEW v \in Viewers PROVE InWriter(v)' = InWriter(v)
  BY DEF RunAdd, writerVars, InWriter
<1> QED
  BY <1>2, <1>3, <1>4, <1>5 DEF RunAdd, Promise!Join

(* Run removes a client from Clients, with its Send channel still to be closed. *)
LEMMA RunDeleteRefines ==
  ASSUME IInv, RunDelete
  PROVE  \E c \in Viewers : Promise!Leave(c)
<1>1. runClient \in Viewers /\ Status(runClient) = "member"
  BY DEF IInv, RunHand, ViewerInv, ClosedOnce, InHand, RunDelete, Status
<1>2. Status(runClient)' = "out"
  BY DEF RunDelete, Status
<1>3. ASSUME NEW c \in Viewers, c # runClient PROVE Status(c)' = Status(c)
  BY <1>3 DEF RunDelete, writerVars, Status
<1>4. ASSUME NEW c \in Viewers PROVE InWriter(c)' = InWriter(c)
  BY DEF RunDelete, writerVars, InWriter
<1> QED
  BY <1>1, <1>2, <1>3, <1>4 DEF RunDelete, Promise!Leave

(* The hub has been closed: Run removes all clients at once. *)
LEMMA RunShutdownRefines ==
  ASSUME IInv, RunShutdown
  PROVE  Promise!Disband
<1>1. ASSUME NEW c \in Viewers
      PROVE  Status(c)' = IF Status(c) = "member" THEN "out" ELSE Status(c)
  BY DEF IInv, TypeOK, RunShutdown, Status
<1>2. ASSUME NEW c \in Viewers PROVE InWriter(c)' = InWriter(c)
  BY DEF RunShutdown, InWriter
<1> QED
  BY <1>1, <1>2 DEF RunShutdown, Promise!Disband

(* A send on c.Send meets c's WriteLoop: the client is a member. *)
LEMMA HandOverRefines ==
  ASSUME IInv, NEW c \in Viewers, c \in clients, NEW msg \in Messages, HandOver(c, msg),
         runPc' # "returned", runPc # "returned", \A v \in Viewers : Status(v)' = Status(v)
  PROVE  Promise!Deliver(c, msg)
<1>1. Status(c) = "member" /\ InWriter(c) = None
  BY DEF HandOver, Status, InWriter, Messages
<1>2. InWriter(c)' = msg
  BY DEF IInv, TypeOK, HandOver, InWriter
<1>3. ASSUME NEW v \in Viewers, v # c PROVE InWriter(v)' = InWriter(v)
  BY <1>3 DEF IInv, TypeOK, HandOver, InWriter
<1> QED
  BY <1>1, <1>2, <1>3 DEF Promise!Deliver

(* The WriteLoop has written its message, or exits with it. *)
LEMMA FinishRefines ==
  ASSUME IInv, NEW c \in Viewers, writer[c] \in Messages, NEW pc \in {"select", "exited"},
         writer' = [writer EXCEPT ![c] = pc],
         UNCHANGED <<clients, sendClosed, runPc, runClient>>
  PROVE  Promise!Finish(c)
<1>1. InWriter(c) # None /\ InWriter(c)' = None
  BY MessagesAssumption DEF IInv, TypeOK, InWriter, Messages
<1>2. ASSUME NEW v \in Viewers, v # c PROVE InWriter(v)' = InWriter(v)
  BY <1>2 DEF IInv, TypeOK, InWriter
<1>3. ASSUME NEW v \in Viewers PROVE Status(v)' = Status(v)
  BY DEF Status
<1> QED
  BY <1>1, <1>2, <1>3 DEF Promise!Finish

(* A step that changes no client's standing and no message in hand is a stutter. *)
LEMMA SameRosterRefines ==
  ASSUME \A c \in Viewers : Status(c)' = Status(c) /\ InWriter(c)' = InWriter(c),
         runPc = "returned" <=> runPc' = "returned"
  PROVE  UNCHANGED Promise!vars
BY DEF Promise!vars

(* Every step of Run is a step of Roster or changes nothing in it. *)
LEMMA RunRefines ==
  ASSUME IInv, RInv, Run
  PROVE  [Promise!Next]_(Promise!vars)
<1>1. CASE RunAdd
  BY <1>1, RunAddRefines DEF Promise!Next
<1>2. CASE RunDelete
  BY <1>2, RunDeleteRefines DEF Promise!Next
<1>3. CASE RunShutdown
  BY <1>3, RunShutdownRefines DEF Promise!Next
<1>4. CASE RunSendInfo
  <2>1. runClient \in Viewers /\ runClient \in clients /\ HandOver(runClient, "info")
    BY <1>4 DEF IInv, RunHand, ViewerInv, SendersAreForClients, InHand, RunSendInfo
  <2>2. \A v \in Viewers : Status(v)' = Status(v)
    BY <1>4 DEF RunSendInfo, NextReceiver, Status
  <2>3. runPc # "returned" /\ runPc' # "returned"
    BY <1>4 DEF RunSendInfo, NextReceiver
  <2>4. Promise!Deliver(runClient, "info")
    BY <2>1, <2>2, <2>3, HandOverRefines DEF Messages
  <2> QED
    BY <2>1, <2>4 DEF Promise!Next, Messages
<1>5. CASE RunRegister \/ RunUnregister \/ RunBroadcast \/ RunDone
  <2>1. ASSUME NEW c \in Viewers PROVE Status(c)' = Status(c) /\ InWriter(c)' = InWriter(c)
    BY <1>5 DEF RunRegister, RunUnregister, RunBroadcast, NextReceiver, RunDone,
                writerVars, Status, InWriter
  <2>2. runPc # "returned" /\ runPc' # "returned"
    BY <1>5 DEF RunRegister, RunUnregister, RunBroadcast, NextReceiver, RunDone
  <2> QED
    BY <2>1, <2>2, SameRosterRefines
<1>6. CASE RunCloseSend
  <2>1. ASSUME NEW c \in Viewers PROVE Status(c)' = Status(c) /\ InWriter(c)' = InWriter(c)
    BY <1>6 DEF IInv, TypeOK, RunHand, ViewerInv, ClosedOnce, InHand, RunCloseSend,
                Status, InWriter
  <2> QED
    BY <1>6, <2>1, SameRosterRefines DEF RunCloseSend
<1> QED
  BY <1>1, <1>2, <1>3, <1>4, <1>5, <1>6 DEF Run

(***************************************************************************)
(* Every step of a viewer's goroutines is a step of Roster or changes      *)
(* nothing in it.                                                          *)
(***************************************************************************)
LEMMA ViewerStepRefines ==
  ASSUME IInv, RInv, NEW v \in Viewers, ViewerStep(v)
  PROVE  [Promise!Next]_(Promise!vars)
<1> USE DEF hubVars, writerVars, rtcVars
<1>1. UNCHANGED <<clients, sendClosed, runPc, runClient>>
  BY DEF ViewerStep, LookupStream, SetupFails, AcceptViewer, HandlerStep, SendRegister,
         CheckOffer, SendOffer, ReadError, LeaveClosedHub, LeaveOpenHub, SendUnregister,
         HandlerReturns, ReadAnswer, ReadReject, IceCandidate, IceSend, PeerFailed,
         CallbackUnregister, WriteLoop, WriteMessage, WriteFails, WriteSendClosed, PingFails,
         WriterExit, PeerGone
<1>2. ASSUME NEW c \in Viewers PROVE Status(c)' = Status(c)
  BY <1>1 DEF Status
<1>3. CASE SendOffer(v) \/ IceSend(v)
  <2>1. v \in clients /\ \E msg \in Messages : HandOver(v, msg)
    BY <1>3 DEF IInv, ViewerInv, SendersAreForClients, SendOffer, IceSend, Messages
  <2>2. runPc # "returned"
    BY <2>1 DEF RInv
  <2> QED
    BY <1>1, <1>2, <2>1, <2>2, HandOverRefines DEF Promise!Next
<1>4. CASE WriteMessage(v) \/ WriteFails(v)
  <2>1. Promise!Finish(v)
    BY <1>1, <1>4, FinishRefines DEF WriteMessage, WriteFails, WriterExit
  <2> QED
    BY <2>1 DEF Promise!Next
<1>5. CASE AcceptViewer(v) \/ WriteSendClosed(v) \/ PingFails(v)
  <2>1. writer[v] \notin Messages /\ \E pc \in {"select", "exited"} :
          writer' = [writer EXCEPT ![v] = pc]
    BY <1>5
       DEF RInv, LifeInv, ConnLife, AcceptViewer, WriteSendClosed, PingFails,
           WriterExit,
                Messages
  <2>2. ASSUME NEW c \in Viewers PROVE InWriter(c)' = InWriter(c)
    BY <2>1 DEF IInv, TypeOK, InWriter, Messages
  <2> QED
    BY <1>1, <1>2, <2>2, SameRosterRefines
<1>6. CASE UNCHANGED writer
  BY <1>1, <1>2, <1>6, SameRosterRefines DEF InWriter
<1> QED
  BY <1>3, <1>4, <1>5, <1>6
     DEF ViewerStep, LookupStream, SetupFails, HandlerStep, SendRegister, CheckOffer, ReadError,
         LeaveClosedHub, LeaveOpenHub, SendUnregister, HandlerReturns, ReadAnswer, ReadReject,
         IceCandidate, PeerFailed, CallbackUnregister, WriteLoop, PeerGone

(* Every step of the hub is a step of Roster or changes nothing in it. *)
LEMMA StepRefines == IInv /\ RInv /\ [Next]_vars => [Promise!Next]_(Promise!vars)
<1> SUFFICES ASSUME IInv, RInv, [Next]_vars PROVE [Promise!Next]_(Promise!vars)
  OBVIOUS
<1>1. CASE UnmapStream \/ CloseHub \/ UNCHANGED vars
  BY <1>1, SameRosterRefines
     DEF UnmapStream, CloseHub, vars, hubVars, writerVars, Status, InWriter
<1> QED
  BY <1>1, RunRefines, ViewerStepRefines DEF Next

(***************************************************************************)
(* The hub keeps the promise of Roster, for any number of viewers: a       *)
(* client joins at most once and leaves for good, messages are handed only *)
(* to members, and when Run returns all are out (hub.go:58-128).           *)
(***************************************************************************)
THEOREM HubImplementsRoster == Spec => ImplementsRoster
BY InitRefines, StepRefines, LifeInvariance, PTL DEF Spec, ImplementsRoster, Promise!Spec
=============================================================================
