---------------------------- MODULE StreamsProofs ----------------------------
(***************************************************************************)
(* Proofs about Streams, for any number of POST and DELETE requests and    *)
(* any set of ports.                                                       *)
(***************************************************************************)
EXTENDS Streams, TLAPS

InMap(s) == port[s] \in Ports /\ streams[port[s]] = s
Taken(s) == \E d \in Deletes : taken[d] = s

(* The life of a stream, from createStream to the hand of deleteStream. *)
StreamLife(s) ==
  /\ pc[s] \in {"call", "tracks", "insert", "spawn", "start", "return", "done"}
  /\ pc[s] = "call" => sock[s] = "none"
  /\ pc[s] \in {"tracks", "insert"} => sock[s] = "open"
  /\ pc[s] \in {"call", "tracks", "insert"} => ~InMap(s) /\ ~Taken(s) /\ ~done[s]
  /\ pc[s] \in {"call", "tracks", "insert", "spawn"} => hub[s] = "none" /\ reader[s] = "none"
  /\ sock[s] # "none" => port[s] \in Ports

(* A stream whose goroutines run, or are about to, has not been lost. *)
InReach(s) ==
  (pc[s] = "spawn" \/ hub[s] \in {"running", "blocked"}) /\ ~Failed(s) => InMap(s) \/ Taken(s)

(* Two open sockets have two ports. *)
PortsAreLocks ==
  \A s, t \in Callers :
    sock[s] = "open" /\ sock[t] = "open" /\ port[s] = port[t] => s = t

(* The entry of port p: not in the hand of a deleteStream, and not closed. *)
EntryInv(p) ==
  streams[p] # None =>
    /\ port[streams[p]] = p /\ ~Taken(streams[p]) /\ ~done[streams[p]]
    /\ sock[streams[p]] = "open" \/ Failed(streams[p])

(* deleteStream: only the one that took a stream closes its hub, and it does. *)
DeleteLife(d) ==
  /\ pc[d] \in {"delete", "closeConn", "testDone", "closeDone", "done"}
  /\ pc[d] = "delete" => taken[d] = None
  /\ pc[d] \in {"closeConn", "testDone", "closeDone"} => taken[d] \in Callers
  /\ taken[d] # None => port[taken[d]] \in Ports /\ (done[taken[d]] <=> pc[d] = "done")
  /\ \A e \in Deletes : taken[d] # None /\ taken[e] = taken[d] => d = e

IInv ==
  /\ TypeOK /\ PortsAreLocks
  /\ \A s \in Callers : StreamLife(s) /\ InReach(s)
  /\ \A p \in Ports : EntryInv(p)
  /\ \A d \in Deletes : DeleteLife(d)
-----------------------------------------------------------------------------
(* Before main. *)
LEMMA InitInv == Init => IInv
<1> SUFFICES ASSUME Init PROVE IInv
  OBVIOUS
<1>1. TypeOK
  BY DEF Init, TypeOK
<1>2. PortsAreLocks
  BY DEF Init, PortsAreLocks
<1>3. ASSUME NEW s \in Callers PROVE StreamLife(s) /\ InReach(s)
  BY RequestsAssumption, NoneAssumption DEF Init, StreamLife, InReach, InMap, Taken
<1>4. \A p \in Ports : EntryInv(p)
  BY DEF Init, EntryInv
<1>5. \A d \in Deletes : DeleteLife(d)
  BY DEF Init, DeleteLife
<1> QED  BY <1>1, <1>2, <1>3, <1>4, <1>5 DEF IInv

(* ListenUDP binds a port that no open socket has; the stream is in no map yet. *)
LEMMA ListenInv ==
  ASSUME IInv, NEW s \in Callers, NEW p \in Ports, Listen(s, p)
  PROVE  IInv'
<1>1. TypeOK'
  BY DEF IInv, TypeOK, Listen, Goto
<1>2. PortsAreLocks'
  BY DEF IInv, TypeOK, PortsAreLocks, Listen, Bound
<1>3. ASSUME NEW t \in Callers PROVE StreamLife(t)'
  BY NoneAssumption
     DEF IInv, TypeOK, StreamLife, EntryInv, InMap, Taken, Listen, At, Goto
<1>4. ASSUME NEW t \in Callers PROVE InReach(t)'
  BY DEF IInv, StreamLife, InReach, InMap, Taken, Failed, Listen, At, Goto
<1>5. ASSUME NEW q \in Ports PROVE EntryInv(q)'
  BY DEF IInv, StreamLife, EntryInv, Taken, Failed, Listen, At
<1>6. ASSUME NEW e \in Deletes PROVE DeleteLife(e)'
  BY DEF IInv, DeleteLife, Listen, At, Goto
<1> QED  BY <1>1, <1>2, <1>3, <1>4, <1>5, <1>6 DEF IInv

(* The caller goes without a socket. *)
LEMMA ListenFailsInv ==
  ASSUME IInv, NEW s \in Callers, ListenFails(s)
  PROVE  IInv'
BY DEF IInv, TypeOK, PortsAreLocks, StreamLife, InReach, EntryInv, DeleteLife, InMap,
   Taken, Failed, ListenFails, CreateFails, Goto

(* The caller goes and closes the socket it opened. *)
LEMMA TracksFailInv ==
  ASSUME IInv, NEW s \in Callers, TracksFail(s)
  PROVE  IInv'
<1>1. TypeOK'
  BY DEF IInv, TypeOK, TracksFail, CreateFails, Goto
<1>2. PortsAreLocks'
  BY DEF IInv, PortsAreLocks, TracksFail, CreateFails
<1>3. ASSUME NEW t \in Callers PROVE StreamLife(t)'
  BY DEF IInv, TypeOK, StreamLife, InMap, Taken, TracksFail, CreateFails, At, Goto
<1>4. ASSUME NEW t \in Callers PROVE InReach(t)'
  BY DEF IInv, InReach, InMap, Taken, Failed, TracksFail, CreateFails, Goto
<1>5. ASSUME NEW q \in Ports PROVE EntryInv(q)'
  BY DEF IInv, StreamLife, EntryInv, InMap, Taken, Failed, TracksFail, CreateFails, At
<1>6. ASSUME NEW e \in Deletes PROVE DeleteLife(e)'
  BY DEF IInv, DeleteLife, TracksFail, CreateFails, At, Goto
<1> QED  BY <1>1, <1>2, <1>3, <1>4, <1>5, <1>6 DEF IInv

(* The caller goes on with an open socket. *)
LEMMA MakeTracksInv ==
  ASSUME IInv, NEW s \in Callers, MakeTracks(s)
  PROVE  IInv'
BY DEF IInv, TypeOK, PortsAreLocks, StreamLife, InReach, EntryInv, DeleteLife, InMap,
   Taken, Failed, MakeTracks, At, Goto

(***************************************************************************)
(* The entry of the port is replaced: its stream, if any, had lost its     *)
(* socket, so its reader had failed.                                       *)
(***************************************************************************)
LEMMA InsertInv ==
  ASSUME IInv, NEW s \in Callers, Insert(s)
  PROVE  IInv'
<1>1. TypeOK'
  BY DEF IInv, TypeOK, Insert, Goto
<1>2. PortsAreLocks'
  BY DEF IInv, PortsAreLocks, Insert
<1>3. ASSUME NEW t \in Callers PROVE StreamLife(t)'
  BY DEF IInv, TypeOK, StreamLife, InMap, Taken, Insert, At, Goto
<1>4. ASSUME NEW t \in Callers PROVE InReach(t)'
  BY NoneAssumption
     DEF IInv, TypeOK, StreamLife, InReach, PortsAreLocks, EntryInv, InMap, Taken,
         Failed, Insert, At, Goto
<1>5. ASSUME NEW q \in Ports PROVE EntryInv(q)'
  BY DEF IInv, StreamLife, EntryInv, Taken, Failed, Insert, At
<1>6. ASSUME NEW e \in Deletes PROVE DeleteLife(e)'
  BY DEF IInv, DeleteLife, Insert, At, Goto
<1> QED  BY <1>1, <1>2, <1>3, <1>4, <1>5, <1>6 DEF IInv

(* The goroutines are started: the stream is in the map or has been taken. *)
LEMMA SpawnInv ==
  ASSUME IInv, NEW s \in Callers, Spawn(s)
  PROVE  IInv'
<1>1. TypeOK'
  BY DEF IInv, TypeOK, Spawn, Goto
<1>2. PortsAreLocks'
  BY DEF IInv, PortsAreLocks, Spawn
<1>3. ASSUME NEW t \in Callers PROVE StreamLife(t)'
  BY DEF IInv, TypeOK, StreamLife, InMap, Taken, Spawn, Goto
<1>4. ASSUME NEW t \in Callers PROVE InReach(t)'
  BY DEF IInv, StreamLife, InReach, InMap, Taken, Failed, Spawn, At, Goto
<1>5. ASSUME NEW q \in Ports PROVE EntryInv(q)'
  BY DEF IInv, StreamLife, EntryInv, Taken, Failed, Spawn, At
<1>6. ASSUME NEW e \in Deletes PROVE DeleteLife(e)'
  BY DEF IInv, DeleteLife, Spawn, At, Goto
<1> QED  BY <1>1, <1>2, <1>3, <1>4, <1>5, <1>6 DEF IInv

(* The entry becomes the stream in hand, and no other deleteStream had it. *)
LEMMA UnmapInv ==
  ASSUME IInv, NEW d \in Deletes, NEW p \in Ports, Unmap(d, p)
  PROVE  IInv'
<1>1. TypeOK'
  BY DEF IInv, TypeOK, Unmap, Goto
<1>2. PortsAreLocks'
  BY DEF IInv, PortsAreLocks, Unmap
<1>3. ASSUME NEW t \in Callers PROVE StreamLife(t)'
  BY DEF IInv, StreamLife, EntryInv, DeleteLife, InMap, Taken, Unmap, At, Goto
<1>4. ASSUME NEW t \in Callers PROVE InReach(t)'
  BY NoneAssumption
     DEF IInv, TypeOK, InReach, DeleteLife, InMap, Taken, Failed, Unmap, At, Goto
<1>5. ASSUME NEW q \in Ports PROVE EntryInv(q)'
  BY DEF IInv, TypeOK, EntryInv, Taken, Failed, Unmap
<1>6. ASSUME NEW e \in Deletes PROVE DeleteLife(e)'
  BY DEF IInv, TypeOK, EntryInv, DeleteLife, Taken, Unmap, Goto
<1> QED  BY <1>1, <1>2, <1>3, <1>4, <1>5, <1>6 DEF IInv

(* The socket of a stream that is in no map any more is closed. *)
LEMMA CloseConnInv ==
  ASSUME IInv, NEW d \in Deletes, CloseConn(d)
  PROVE  IInv'
<1>1. TypeOK'
  BY DEF IInv, TypeOK, CloseConn, Goto
<1>2. PortsAreLocks'
  BY DEF IInv, PortsAreLocks, CloseConn
<1>3. ASSUME NEW t \in Callers PROVE StreamLife(t)'
  BY NoneAssumption DEF IInv, StreamLife, DeleteLife, InMap, Taken, CloseConn, At, Goto
<1>4. ASSUME NEW t \in Callers PROVE InReach(t)'
  BY DEF IInv, InReach, InMap, Taken, Failed, CloseConn, Goto
<1>5. ASSUME NEW q \in Ports PROVE EntryInv(q)'
  BY DEF IInv, EntryInv, Taken, Failed, CloseConn
<1>6. ASSUME NEW e \in Deletes PROVE DeleteLife(e)'
  BY DEF IInv, DeleteLife, CloseConn, At, Goto
<1> QED  BY <1>1, <1>2, <1>3, <1>4, <1>5, <1>6 DEF IInv

(* The hub of the stream in hand has not been closed, so the test says so. *)
LEMMA TestDoneInv ==
  ASSUME IInv, NEW d \in Deletes, TestDone(d)
  PROVE  IInv'
BY DEF IInv, TypeOK, PortsAreLocks, StreamLife, InReach, EntryInv, DeleteLife, InMap,
   Taken, Failed, TestDone, At, Goto

(* The one deleteStream that has the stream closes its hub. *)
LEMMA CloseDoneInv ==
  ASSUME IInv, NEW d \in Deletes, CloseDone(d)
  PROVE  IInv'
<1>1. TypeOK'
  BY DEF IInv, TypeOK, CloseDone, Goto
<1>2. PortsAreLocks'
  BY DEF IInv, PortsAreLocks, CloseDone
<1>3. ASSUME NEW t \in Callers PROVE StreamLife(t)'
  BY DEF IInv, StreamLife, InMap, Taken, CloseDone, Goto
<1>4. ASSUME NEW t \in Callers PROVE InReach(t)'
  BY DEF IInv, InReach, InMap, Taken, Failed, CloseDone, Goto
<1>5. ASSUME NEW q \in Ports PROVE EntryInv(q)'
  BY DEF IInv, EntryInv, Taken, Failed, CloseDone
<1>6. ASSUME NEW e \in Deletes PROVE DeleteLife(e)'
  BY DEF IInv, TypeOK, DeleteLife, CloseDone, Goto
<1> QED  BY <1>1, <1>2, <1>3, <1>4, <1>5, <1>6 DEF IInv

(* The goroutine of the hub ends, or blocks. *)
LEMMA HubInv ==
  ASSUME IInv, NEW s \in Callers, HubReturns(s) \/ HubBlocks(s)
  PROVE  IInv'
BY DEF IInv, TypeOK, PortsAreLocks, StreamLife, InReach, EntryInv, DeleteLife, InMap,
   Taken, Failed, HubReturns, HubBlocks

(* The reader ends on a closed socket. *)
LEMMA ReaderReturnsInv ==
  ASSUME IInv, NEW s \in Callers, ReaderReturns(s)
  PROVE  IInv'
BY DEF IInv, TypeOK, PortsAreLocks, StreamLife, InReach, EntryInv, DeleteLife, InMap,
   Taken, Failed, ReaderReturns

(* The reader fails and closes the socket: the entry stays. *)
LEMMA ReaderFailsInv ==
  ASSUME IInv, NEW s \in Callers, ReaderFails(s)
  PROVE  IInv'
<1>1. TypeOK'
  BY DEF IInv, TypeOK, ReaderFails
<1>2. PortsAreLocks'
  BY DEF IInv, PortsAreLocks, ReaderFails
<1>3. ASSUME NEW t \in Callers PROVE StreamLife(t)'
  BY DEF IInv, StreamLife, InMap, Taken, ReaderFails
<1>4. ASSUME NEW t \in Callers PROVE InReach(t)'
  BY DEF IInv, InReach, InMap, Taken, Failed, ReaderFails
<1>5. ASSUME NEW q \in Ports PROVE EntryInv(q)'
  BY DEF IInv, TypeOK, EntryInv, Taken, Failed, ReaderFails
<1>6. ASSUME NEW e \in Deletes PROVE DeleteLife(e)'
  BY DEF IInv, DeleteLife, ReaderFails
<1> QED  BY <1>1, <1>2, <1>3, <1>4, <1>5, <1>6 DEF IInv

(* main goes on. *)
LEMMA StartInv ==
  ASSUME IInv, Start
  PROVE  IInv'
BY DEF IInv, TypeOK, PortsAreLocks, StreamLife, InReach, EntryInv, DeleteLife, InMap,
   Taken, Failed, Start, At, Goto, Callers

(* The process exits; nothing moves any more. *)
LEMMA MainReturnsInv ==
  ASSUME IInv, MainReturns
  PROVE  IInv'
BY DEF IInv, TypeOK, PortsAreLocks, StreamLife, InReach, EntryInv, DeleteLife, InMap,
   Taken, Failed, MainReturns, Goto, Callers

(* The server listens. *)
LEMMA ListenAndServeInv ==
  ASSUME IInv, ListenAndServe
  PROVE  IInv'
BY DEF IInv, TypeOK, PortsAreLocks, StreamLife, InReach, EntryInv, DeleteLife, InMap,
   Taken, Failed, ListenAndServe

(* The process exits. *)
LEMMA ServeFailsInv ==
  ASSUME IInv, ServeFails
  PROVE  IInv'
BY DEF IInv, TypeOK, PortsAreLocks, StreamLife, InReach, EntryInv, DeleteLife, InMap,
   Taken, Failed, ServeFails

(* Nothing changes. *)
LEMMA StutterInv ==
  ASSUME IInv, UNCHANGED vars
  PROVE  IInv'
BY DEF IInv, TypeOK, PortsAreLocks, StreamLife, InReach, EntryInv, DeleteLife, InMap,
   Taken, Failed, vars

(* Every step keeps the invariant. *)
LEMMA NextInv == IInv /\ [Next]_vars => IInv'
<1> SUFFICES ASSUME IInv, [Next]_vars PROVE IInv'
  OBVIOUS
<1>1. ASSUME NEW s \in Callers, CreateStream(s) PROVE IInv'
  BY <1>1, ListenInv, ListenFailsInv, TracksFailInv, MakeTracksInv, InsertInv, SpawnInv
     DEF CreateStream
<1>2. ASSUME NEW d \in Deletes, CloseStream(d) PROVE IInv'
  BY <1>2, CloseConnInv, TestDoneInv, CloseDoneInv DEF CloseStream
<1> QED
  BY <1>1, <1>2, UnmapInv, HubInv, ReaderReturnsInv, ReaderFailsInv, StartInv,
     MainReturnsInv, ListenAndServeInv, ServeFailsInv, StutterInv
     DEF Next

(* The invariant is one of the specification. *)
LEMMA Invariance == Spec => []IInv
BY InitInv, NextInv, PTL DEF Spec
-----------------------------------------------------------------------------
(* Type correctness of the server's streams, for any number of requests. *)
THEOREM StreamsTypeCorrect == Spec => []TypeOK
<1>1. IInv => TypeOK
  BY DEF IInv
<1> QED  BY <1>1, Invariance, PTL

(***************************************************************************)
(* Whatever requests come at once, the entry of a port is a stream that    *)
(* listens on that port, unless its own reader has failed                  *)
(* (server.go:255-257, 286-291).                                           *)
(***************************************************************************)
THEOREM StreamsMapMatchesSockets == Spec => []MapMatchesSockets
<1>1. IInv => MapMatchesSockets
  BY DEF IInv, EntryInv, MapMatchesSockets
<1> QED  BY <1>1, Invariance, PTL

(* However many DELETEs come at once, no hub is closed twice (hub.go:122-128). *)
THEOREM StreamsHubClosedOnce == Spec => []HubClosedOnce
<1>1. IInv => HubClosedOnce
  BY NoneAssumption DEF IInv, DeleteLife, HubClosedOnce
<1> QED  BY <1>1, Invariance, PTL

(***************************************************************************)
(* A hub that runs is in the map or in the hand of a deleteStream that     *)
(* will close it, unless the reader of its own stream has failed           *)
(* (server.go:254-296).                                                    *)
(***************************************************************************)
THEOREM StreamsNoLostHub == Spec => []NoLostHub
<1>1. IInv => NoLostHub
  <2> SUFFICES ASSUME IInv, NEW s \in Callers, hub[s] \in {"running", "blocked"},
                      ~done[s], ~Failed(s)
               PROVE  \/ streams[port[s]] = s
                      \/ \E d \in Deletes :
                           taken[d] = s /\ pc[d] \in {"closeConn", "testDone", "closeDone"}
    BY DEF NoLostHub
  <2>1. CASE InMap(s)
    BY <2>1 DEF InMap
  <2>2. CASE Taken(s)
    <3>1. PICK d \in Deletes : taken[d] = s
      BY <2>2 DEF Taken
    <3>2. pc[d] # "done" /\ pc[d] # "delete"
      BY <3>1, NoneAssumption DEF IInv, DeleteLife
    <3> QED
      BY <3>1, <3>2 DEF IInv, DeleteLife
  <2> QED
    BY <2>1, <2>2 DEF IInv, InReach
<1> QED  BY <1>1, Invariance, PTL
-----------------------------------------------------------------------------
(***************************************************************************)
(* The refinement: the socket of a stream is the lease of its port.        *)
(***************************************************************************)
LEMMA LeaseIsSocket ==
  ASSUME PortsAreLocks, NEW p \in Ports
  PROVE  /\ \A s \in Callers : sock[s] = "open" /\ port[s] = p => LeaseOf(p) = s
         /\ ~Bound(p) => LeaseOf(p) = None
BY DEF LeaseOf, Bound

(* What is leased follows the sockets through a step. *)
LEMMA LeaseIsSocketNext ==
  ASSUME PortsAreLocks', NEW p \in Ports
  PROVE  /\ \A s \in Callers : sock'[s] = "open" /\ port'[s] = p => LeaseOf(p)' = s
         /\ ~Bound(p)' => LeaseOf(p)' = None
BY DEF LeaseOf, Bound

(* The server begins with no lease. *)
LEMMA InitRefines == Init => Lease!Init
BY DEF Init, Lease!Init, LeaseOf, UseOf

\* A socket is bound: the port is granted.
LEMMA ListenRefines ==
  ASSUME IInv, IInv', NEW s \in Callers, NEW p \in Ports, Listen(s, p)
  PROVE  Lease!Grant(s, p)
<1>1. LeaseOf(p) = None
  BY DEF Listen, LeaseOf
<1>2. LeaseOf(p)' = s
  BY LeaseIsSocketNext DEF IInv, TypeOK, Listen
<1>3. ASSUME NEW q \in Ports, q # p PROVE LeaseOf(q)' = LeaseOf(q)
  BY <1>3, LeaseIsSocket, LeaseIsSocketNext
     DEF IInv, TypeOK, StreamLife, Listen, At, Bound
<1>4. ASSUME NEW t \in Callers, t # s PROVE UseOf(t)' = UseOf(t)
  BY <1>4 DEF Listen, UseOf
<1>5. UseOf(s)' = UseOf(s)
  <2>1. pc'[s] = "tracks" /\ port'[s] = p
    BY DEF IInv, TypeOK, Listen, Goto
  <2>2. streams'[p] # s
    BY <2>1 DEF IInv, StreamLife, InMap
  <2>3. sock[s] = "none"
    BY DEF IInv, StreamLife, Listen, At
  <2> QED
    BY <2>1, <2>2, <2>3 DEF UseOf
<1> QED
  BY <1>1, <1>2, <1>3, <1>4, <1>5 DEF Lease!Grant

\* The stream is entered in the map: its port is used.
LEMMA InsertRefines ==
  ASSUME IInv, IInv', NEW s \in Callers, Insert(s)
  PROVE  Lease!Use(s, port[s])
<1>1. port[s] \in Ports /\ LeaseOf(port[s]) = s
  BY LeaseIsSocket DEF IInv, StreamLife, Insert, At
<1>2. UseOf(s) = None /\ UseOf(s)' = port[s]
  BY DEF IInv, TypeOK, StreamLife, InMap, Insert, At, UseOf
<1>3. ASSUME NEW t \in Callers, t # s PROVE UseOf(t)' = UseOf(t)
  BY <1>3 DEF IInv, StreamLife, PortsAreLocks, Insert, At, UseOf
<1>4. ASSUME NEW q \in Ports PROVE LeaseOf(q)' = LeaseOf(q)
  BY DEF Insert, LeaseOf, Bound
<1> QED
  BY <1>1, <1>2, <1>3, <1>4 DEF Lease!Use

\* A stream's socket is closed, in whatever way: the port is returned.
LEMMA SocketClosedRefines ==
  ASSUME IInv, IInv', NEW s \in Callers, sock[s] = "open",
         sock' = [sock EXCEPT ![s] = "closed"], UNCHANGED <<streams, port>>
  PROVE  Lease!Return(s, port[s])
<1>1. port[s] \in Ports /\ LeaseOf(port[s]) = s /\ UseOf(s) \in {port[s], None}
  BY LeaseIsSocket DEF IInv, StreamLife, UseOf
<1>2. LeaseOf(port[s])' = None
  BY <1>1, LeaseIsSocketNext DEF IInv, TypeOK, PortsAreLocks, Bound
<1>3. ASSUME NEW q \in Ports, q # port[s] PROVE LeaseOf(q)' = LeaseOf(q)
  BY <1>3, LeaseIsSocket, LeaseIsSocketNext DEF IInv, Bound
<1>4. UseOf(s)' = None /\ \A t \in Callers \ {s} : UseOf(t)' = UseOf(t)
  BY DEF IInv, TypeOK, UseOf
<1> QED
  BY <1>1, <1>2, <1>3, <1>4 DEF Lease!Return

\* A stream is taken out of the map and keeps its port for a while.
LEMMA UnmapRefines ==
  ASSUME IInv, NEW d \in Deletes, NEW p \in Ports, Unmap(d, p)
  PROVE  Lease!Abandon
<1>1. ASSUME NEW q \in Ports PROVE LeaseOf(q)' = LeaseOf(q)
  BY DEF Unmap, LeaseOf, Bound
<1>2. ASSUME NEW t \in Callers PROVE UseOf(t)' \in {UseOf(t), None} \cap (Ports \cup {None})
  BY NoneAssumption DEF IInv, StreamLife, Unmap, UseOf
<1> QED
  BY <1>1, <1>2 DEF Lease!Abandon

\* Every other step is a stutter.
LEMMA SameSocketsRefine ==
  ASSUME UNCHANGED <<sock, port, streams>>
  PROVE  UNCHANGED Lease!vars
BY DEF Lease!vars, LeaseOf, UseOf, Bound

(***************************************************************************)
(* Every step of the server is a step of PortLease or changes nothing in   *)
(* it.                                                                     *)
(***************************************************************************)
LEMMA StepRefines == IInv /\ IInv' /\ [Next]_vars => [Lease!Next]_(Lease!vars)
<1> SUFFICES ASSUME IInv, IInv', [Next]_vars PROVE [Lease!Next]_(Lease!vars)
  OBVIOUS
<1>1. ASSUME NEW s \in Callers, CreateStream(s) PROVE [Lease!Next]_(Lease!vars)
  <2>1. ASSUME NEW p \in Ports, Listen(s, p) PROVE Lease!Next
    BY <2>1, ListenRefines DEF Lease!Next
  <2>2. CASE TracksFail(s)
    <3>1. Lease!Return(s, port[s]) /\ port[s] \in Ports
      BY <2>2, SocketClosedRefines DEF TracksFail, CreateFails, At, IInv, StreamLife
    <3> QED
      BY <3>1 DEF Lease!Next
  <2>3. CASE Insert(s)
    <3>1. Lease!Use(s, port[s]) /\ port[s] \in Ports
      BY <2>3, InsertRefines DEF Insert, At, IInv, StreamLife
    <3> QED
      BY <3>1 DEF Lease!Next
  <2>4. CASE ListenFails(s) \/ MakeTracks(s) \/ Spawn(s)
    BY <2>4, SameSocketsRefine DEF ListenFails, CreateFails, MakeTracks, Spawn
  <2> QED
    BY <1>1, <2>1, <2>2, <2>3, <2>4 DEF CreateStream
<1>2. ASSUME NEW d \in Deletes, NEW p \in Ports, Unmap(d, p) PROVE Lease!Next
  BY <1>2, UnmapRefines DEF Lease!Next
<1>3. ASSUME NEW d \in Deletes, CloseStream(d) PROVE [Lease!Next]_(Lease!vars)
  <2>1. CASE CloseConn(d)
    <3>1. taken[d] \in Callers
      BY <2>1 DEF CloseConn, At, IInv, DeleteLife
    <3>2. CASE sock[taken[d]] = "open"
      <4>1. Lease!Return(taken[d], port[taken[d]]) /\ port[taken[d]] \in Ports
        BY <2>1, <3>1, <3>2, SocketClosedRefines DEF CloseConn, IInv, StreamLife
      <4> QED
        BY <3>1, <4>1 DEF Lease!Next
    <3>3. CASE sock[taken[d]] # "open"
      <4>1. ASSUME NEW q \in Ports PROVE LeaseOf(q)' = LeaseOf(q)
        BY <2>1, <3>3, LeaseIsSocket, LeaseIsSocketNext DEF CloseConn, IInv, Bound
      <4>2. ASSUME NEW t \in Callers PROVE UseOf(t)' = UseOf(t)
        BY <2>1, <3>3 DEF CloseConn, UseOf
      <4> QED
        BY <4>1, <4>2 DEF Lease!vars
    <3> QED
      BY <3>2, <3>3
  <2>2. CASE TestDone(d) \/ CloseDone(d)
    BY <2>2, SameSocketsRefine DEF TestDone, CloseDone
  <2> QED
    BY <1>3, <2>1, <2>2 DEF CloseStream
<1>4. ASSUME NEW s \in Callers, ReaderFails(s) PROVE Lease!Next
  <2>1. Lease!Return(s, port[s]) /\ port[s] \in Ports
    BY <1>4, SocketClosedRefines DEF ReaderFails, IInv, StreamLife
  <2> QED
    BY <2>1 DEF Lease!Next
<1>5. ASSUME NEW s \in Callers, HubReturns(s) \/ HubBlocks(s) \/ ReaderReturns(s)
      PROVE  UNCHANGED Lease!vars
  BY <1>5, SameSocketsRefine DEF HubReturns, HubBlocks, ReaderReturns
<1>6. CASE Start \/ MainReturns \/ ListenAndServe \/ ServeFails \/ UNCHANGED vars
  BY <1>6, SameSocketsRefine DEF Start, MainReturns, ListenAndServe, ServeFails, vars
<1> QED
  BY <1>1, <1>2, <1>3, <1>4, <1>5, <1>6 DEF Next

(***************************************************************************)
(* The server keeps the promise of PortLease to its streams, for any       *)
(* number of requests and ports: a socket is a lease, the entry of the map *)
(* its use (server.go:232-296).                                            *)
(***************************************************************************)
THEOREM StreamsImplementPortLease == Spec => ImplementsPortLease
BY InitRefines, StepRefines, Invariance, PTL DEF Spec, ImplementsPortLease, Lease!Spec
=============================================================================
