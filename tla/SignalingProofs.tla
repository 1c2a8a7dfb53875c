--------------------------- MODULE SignalingProofs ---------------------------
(***************************************************************************)
(* Proofs about Signaling and the sockets of SocketContext, for any number *)
(* of sockets and candidates and any delays.                               *)
(***************************************************************************)
EXTENDS Signaling, SequenceTheorems, TLAPS

(***************************************************************************)
(* The sockets of a page: those before the current one have closed and     *)
(* been renewed, those after it do not exist.                              *)
(***************************************************************************)
SocketLife(k) ==
  /\ k < current => ws[k] = "closed" /\ timer[k] = "fired" /\ delay[k] # 0
  /\ k > current => ws[k] = "none" /\ timer[k] = "none" /\ delay[k] = 0 /\ ~told[k]
  /\ k = current => ws[k] # "none" /\ timer[k] # "fired"
  /\ timer[k] = "running" => ws[k] = "closed"
  /\ ws[k] = "closed" => delay[k] # 0
  /\ ws[k] = "connecting" => ~told[k]

(***************************************************************************)
(* What state.wsTimeoutDuration is before and after the current socket's   *)
(* handlers close over it; they keep it until the timer doubles it.        *)
(***************************************************************************)
DurationInv ==
  current # 0 =>
    /\ delay[current] # 0 =>
         duration = IF told[current] THEN FirstDelay ELSE delay[current]
    /\ delay[current] = 0 =>
         /\ ~told[current]
         /\ current # 1 =>
              duration = IF told[current - 1] THEN Twice(FirstDelay)
                         ELSE Twice(delay[current - 1])

SocketInv ==
  /\ SocketTypeOK /\ DurationInv /\ DelaysBackOff
  /\ page # "ready" => current = 0
  /\ \A k \in Sockets : SocketLife(k)
-----------------------------------------------------------------------------
(* The channel ch holds x; every x in it follows a y. *)
Has(ch, x)        == \E i \in 1 .. Len(ch) : ch[i] = x
Follows(ch, x, y) == \A i \in 1 .. Len(ch) : ch[i] = x => \E j \in 1 .. i - 1 : ch[j] = y

(* A handler that has not left has an open socket; before there was nothing. *)
HandlerInv(k) ==
  /\ handler[k] \in {"setup", "reading", "refused"} => ws[k] = "open"
  /\ ws[k] \in {"none", "connecting"} => ~sentOffer[k] /\ k \notin heard
  /\ k \in heard \cup missed => k <= current

(***************************************************************************)
(* To the page: a candidate that no offer precedes was early, and an offer *)
(* that has been sent is on its way or has been heard.                     *)
(***************************************************************************)
DownInv(k) ==
  /\ early[k] \/ k \in heard \/ Follows(down[k], "candidate", "offer")
  /\ sentOffer[k] /\ ws[k] = "open" => k \in heard \/ Has(down[k], "offer")

(* The server has the answer, or reads no more. *)
Settled(k) == remote[k] \/ handler[k] = "refused"

(***************************************************************************)
(* To the server: a candidate of this negotiation follows the answer, any  *)
(* other belongs to an earlier one.  Once ReadLoop has returned nothing is *)
(* read any more.                                                          *)
(***************************************************************************)
UpInv(k) ==
  /\ \A i \in 1 .. Len(up[k]) : up[k][i][2] <= k
  /\ Settled(k) \/ Follows(up[k], <<"candidate", k>>, <<"answer", k>>)
  /\ local = k /\ ws[k] = "open" => Settled(k) \/ Has(up[k], <<"answer", k>>)

IInv ==
  /\ TypeOK /\ SocketInv /\ RefusedIsStale /\ MissedWasEarly
  /\ \A k \in Sockets : HandlerInv(k) /\ DownInv(k) /\ UpInv(k)
-----------------------------------------------------------------------------
(***************************************************************************)
(* Channels: what appending and taking the head do to Has and Follows.     *)
(***************************************************************************)
LEMMA HasAppend ==
  ASSUME NEW M, NEW ch \in Seq(M), NEW z \in M, NEW x
  PROVE  /\ Has(ch, x) => Has(Append(ch, z), x)
         /\ Has(Append(ch, z), z)
BY DEF Has

(* The elements of a queue's tail. *)
LEMMA TailIndex ==
  ASSUME NEW M, NEW ch \in Seq(M), ch # <<>>, NEW i \in 1 .. Len(Tail(ch))
  PROVE  i + 1 \in 1 .. Len(ch) /\ Tail(ch)[i] = ch[i + 1]
OBVIOUS

(* What is received leaves everything else in the queue. *)
LEMMA HasTail ==
  ASSUME NEW M, NEW ch \in Seq(M), ch # <<>>, NEW x, Has(ch, x), Head(ch) # x
  PROVE  Has(Tail(ch), x)
<1>1. PICK i \in 1 .. Len(ch) : ch[i] = x
  BY DEF Has
<1>2. i # 1 /\ i - 1 \in 1 .. Len(Tail(ch)) /\ Tail(ch)[i - 1] = x
  BY <1>1
<1> QED
  BY <1>2 DEF Has

(* Sending keeps an order among messages if the new one may come last. *)
LEMMA FollowsAppend ==
  ASSUME NEW M, NEW ch \in Seq(M), NEW z \in M, NEW x, NEW y,
         Follows(ch, x, y), z # x \/ Has(ch, y)
  PROVE  Follows(Append(ch, z), x, y)
<1> SUFFICES ASSUME NEW i \in 1 .. Len(Append(ch, z)), Append(ch, z)[i] = x
             PROVE  \E j \in 1 .. i - 1 : Append(ch, z)[j] = y
  BY DEF Follows
<1>1. CASE i \in 1 .. Len(ch)
  <2>1. PICK j \in 1 .. i - 1 : ch[j] = y
    BY <1>1 DEF Follows
  <2> QED
    BY <1>1, <2>1
<1>2. CASE i = Len(ch) + 1
  <2>1. PICK j \in 1 .. Len(ch) : ch[j] = y
    BY <1>2 DEF Has
  <2> QED
    BY <1>2, <2>1
<1> QED
  BY <1>1, <1>2

(* Receiving keeps an order among the messages that remain. *)
LEMMA FollowsTail ==
  ASSUME NEW M, NEW ch \in Seq(M), ch # <<>>, NEW x, NEW y, Follows(ch, x, y)
  PROVE  /\ Head(ch) # x
         /\ Head(ch) # y => Follows(Tail(ch), x, y)
<1>1. Head(ch) # x
  BY DEF Follows
<1>2. ASSUME Head(ch) # y, NEW i \in 1 .. Len(Tail(ch)), Tail(ch)[i] = x
      PROVE  \E j \in 1 .. i - 1 : Tail(ch)[j] = y
  <2>1. i + 1 \in 1 .. Len(ch) /\ ch[i + 1] = x
    BY <1>2
  <2>2. PICK j \in 1 .. i : ch[j] = y
    BY <2>1 DEF Follows
  <2>3. j # 1 /\ j - 1 \in 1 .. i - 1 /\ Tail(ch)[j - 1] = y
    BY <1>2, <2>2
  <2> QED
    BY <2>3
<1> QED
  BY <1>1, <1>2 DEF Follows

(* An empty queue is in order. *)
LEMMA EmptyFollows == ASSUME NEW x, NEW y PROVE Follows(<<>>, x, y)
BY DEF Follows
-----------------------------------------------------------------------------
(***************************************************************************)
(* The sockets                                                             *)
(***************************************************************************)
LEMMA TwiceType ==
  ASSUME NEW d \in FirstDelay .. MaxDelay
  PROVE  Twice(d) \in FirstDelay .. MaxDelay
BY DelayAssumption DEF Twice

(* There is no socket yet. *)
LEMMA InitSocketInv == SocketInit => SocketInv
BY SocketsAssumption, DelayAssumption
   DEF SocketInit, SocketInv, SocketTypeOK, DurationInv, DelaysBackOff, SocketLife, Sockets

(* config.json has been fetched, or not. *)
LEMMA ConfigureInv ==
  ASSUME SocketInv, Configure \/ ConfigFails
  PROVE  SocketInv'
<1> USE SocketsAssumption, DelayAssumption
    DEF SocketInv, SocketTypeOK, DurationInv, DelaysBackOff, SocketLife, Sockets
<1>1. CASE Configure
  BY <1>1 DEF Configure, NewSocket
<1>2. CASE ConfigFails
  BY <1>2 DEF ConfigFails
<1> QED
  BY <1>1, <1>2

(* The effect of [socket] closes over the duration of the render. *)
LEMMA InstallHandlersInv ==
  ASSUME SocketInv, InstallHandlers
  PROVE  SocketInv'
BY SocketsAssumption, DelayAssumption
   DEF SocketInv, SocketTypeOK, DurationInv, DelaysBackOff, SocketLife, Sockets, InstallHandlers

(* onopen resets the duration, if there are handlers. *)
LEMMA OpensInv ==
  ASSUME SocketInv, NEW k \in Sockets, Opens(k)
  PROVE  SocketInv'
<1> USE SocketsAssumption, DelayAssumption DEF SocketInv, SocketLife, Sockets
<1>1. k = current
  BY DEF SocketTypeOK, Opens
<1>2. SocketTypeOK'
  BY DEF SocketTypeOK, Opens
<1>3. DurationInv'
  BY <1>1 DEF SocketTypeOK, DurationInv, Opens
<1>4. DelaysBackOff'
  BY <1>1 DEF SocketTypeOK, DelaysBackOff, Opens
<1>5. ASSUME NEW j \in Sockets PROVE SocketLife(j)'
  BY <1>1 DEF SocketTypeOK, Opens
<1> QED
  BY <1>2, <1>3, <1>4, <1>5 DEF Opens

(* onclose sets the timer, if there are handlers. *)
LEMMA ClosesInv ==
  ASSUME SocketInv, NEW k \in Sockets, Closes(k)
  PROVE  SocketInv'
BY SocketsAssumption, DelayAssumption
   DEF SocketInv, SocketTypeOK, DurationInv, DelaysBackOff, SocketLife, Sockets, Closes

(* The timer makes the next socket and doubles the duration. *)
LEMMA TimerFiresInv ==
  ASSUME SocketInv, NEW k \in Sockets, TimerFires(k)
  PROVE  SocketInv'
<1> USE SocketsAssumption, DelayAssumption DEF SocketInv, SocketLife, Sockets
<1>1. SocketTypeOK'
  <2>1. Twice(duration) \in FirstDelay .. MaxDelay
    BY TwiceType DEF SocketTypeOK
  <2> QED
    BY <2>1 DEF SocketTypeOK, TimerFires, NewSocket
<1>2. DurationInv'
  <2>1. k = current /\ current' = k + 1 /\ delay[k] # 0 /\ delay'[current'] = 0 /\ ~told'[current']
    BY DEF SocketTypeOK, TimerFires, NewSocket
  <2>2. duration' = IF told'[k] THEN Twice(FirstDelay) ELSE Twice(delay'[k])
    BY <2>1 DEF DurationInv, TimerFires
  <2> QED
    BY <2>1, <2>2 DEF DurationInv, SocketTypeOK
<1>3. DelaysBackOff'
  BY DEF SocketTypeOK, DelaysBackOff, DurationInv, TimerFires, NewSocket
<1>4. page' # "ready" => current' = 0
  BY DEF SocketTypeOK, TimerFires, NewSocket
<1>5. ASSUME NEW j \in Sockets PROVE SocketLife(j)'
  BY DEF SocketTypeOK, DurationInv, TimerFires, NewSocket
<1> QED
  BY <1>1, <1>2, <1>3, <1>4, <1>5

(* Steps that do not touch the sockets. *)
LEMMA SameSocketInv ==
  ASSUME SocketInv, UNCHANGED socketVars
  PROVE  SocketInv'
BY DEF SocketInv, SocketTypeOK, DurationInv, DelaysBackOff, SocketLife, socketVars
-----------------------------------------------------------------------------
(***************************************************************************)
(* The negotiation                                                         *)
(***************************************************************************)
(* An open socket is the current one. *)
LEMMA OpenIsCurrent ==
  ASSUME SocketInv, NEW k \in Sockets, ws[k] = "open"
  PROVE  k = current
BY DEF SocketInv, SocketTypeOK, SocketLife, Sockets

(* The negotiation that the page has finished is of a socket it has had. *)
LEMMA LocalIsPast ==
  ASSUME TypeOK, SocketInv, \A k \in Sockets : HandlerInv(k)
  PROVE  local \in 0 .. current
BY DEF TypeOK, SocketInv, SocketTypeOK, HandlerInv, Sockets

(* Before the first socket. *)
LEMMA InitInv == Init => IInv
<1> SUFFICES ASSUME Init PROVE IInv
  OBVIOUS
<1>1. SocketInv
  BY InitSocketInv DEF Init
<1>2. TypeOK
  BY <1>1, CandidatesAssumption DEF Init, TypeOK, SocketInv
<1>3. RefusedIsStale /\ MissedWasEarly
  BY DEF Init, RefusedIsStale, MissedWasEarly
<1>4. ASSUME NEW k \in Sockets PROVE HandlerInv(k) /\ DownInv(k) /\ UpInv(k)
  BY EmptyFollows DEF Init, HandlerInv, DownInv, UpInv, Settled, Sockets
<1> QED
  BY <1>1, <1>2, <1>3, <1>4 DEF IInv

(* The page's socket changes: the open sockets stay the same. *)
LEMMA SocketStepInv ==
  ASSUME IInv, SocketStep
  PROVE  IInv'
<1> USE DEF IInv
<1>1. SocketInv'
  BY ConfigureInv, InstallHandlersInv, TimerFiresInv DEF SocketStep
<1>2. TypeOK'
  BY <1>1 DEF TypeOK, SocketInv, SocketStep, serverVars, pcVars
<1>3. /\ current' \in Nat /\ current \in Nat /\ current' >= current
      /\ \A k \in Sockets :
           /\ ws'[k] = "open" <=> ws[k] = "open"
           /\ ws'[k] \in {"none", "connecting"} => ws[k] \in {"none", "connecting"}
  BY <1>1 DEF SocketInv, SocketTypeOK, SocketLife, SocketStep, Configure, ConfigFails,
              InstallHandlers, TimerFires, NewSocket, Sockets
<1>4. RefusedIsStale' /\ MissedWasEarly'
  BY DEF RefusedIsStale, MissedWasEarly, SocketStep, serverVars, pcVars
<1>5. ASSUME NEW k \in Sockets PROVE HandlerInv(k)' /\ DownInv(k)' /\ UpInv(k)'
  BY <1>3 DEF HandlerInv, DownInv, UpInv, Settled, SocketStep, serverVars, pcVars, Sockets
<1> QED
  BY <1>1, <1>2, <1>4, <1>5

(* The channels of a socket that closes are emptied. *)
LEMMA DisconnectInv ==
  ASSUME IInv, NEW k \in Sockets, Disconnect(k)
  PROVE  IInv'
<1> USE DEF IInv
<1>1. SocketInv'
  BY ClosesInv DEF Disconnect
<1>2. TypeOK'
  BY <1>1, CandidatesAssumption DEF TypeOK, SocketInv, Disconnect, pcVars
<1>3. current' = current /\ ws'[k] \in {"closed", "lost"} /\ \A j \in Sockets \ {k} : ws'[j] = ws[j]
  BY DEF SocketInv, SocketTypeOK, Disconnect, Closes
<1>4. RefusedIsStale' /\ MissedWasEarly'
  BY DEF RefusedIsStale, MissedWasEarly, Disconnect, pcVars
<1>5. ASSUME NEW j \in Sockets PROVE HandlerInv(j)' /\ DownInv(j)' /\ UpInv(j)'
  <2>1. CASE j = k
    <3>1. HandlerInv(k)'
      BY <1>3 DEF TypeOK, HandlerInv, Disconnect, pcVars, Sockets
    <3>2. DownInv(k)'
      BY <1>3, EmptyFollows DEF TypeOK, DownInv, Disconnect
    <3>3. UpInv(k)'
      BY <1>3, EmptyFollows DEF TypeOK, UpInv, Settled, Disconnect
    <3> QED
      BY <2>1, <3>1, <3>2, <3>3
  <2>2. CASE j # k
    BY <1>3, <2>2 DEF TypeOK, HandlerInv, DownInv, UpInv, Settled, Disconnect, pcVars
  <2> QED
    BY <2>1, <2>2
<1> QED
  BY <1>1, <1>2, <1>4, <1>5

(* A connection that is accepted has had no messages yet. *)
LEMMA AcceptInv ==
  ASSUME IInv, NEW k \in Sockets, Accept(k)
  PROVE  IInv'
<1> USE DEF IInv
<1>1. SocketInv'
  BY OpensInv DEF Accept
<1>2. TypeOK'
  BY <1>1 DEF TypeOK, SocketInv, Accept, pcVars
<1>3. current' = current /\ ws'[k] = "open" /\ \A j \in Sockets \ {k} : ws'[j] = ws[j]
  BY DEF SocketInv, SocketTypeOK, Accept, Opens
<1>4. RefusedIsStale' /\ MissedWasEarly'
  BY DEF RefusedIsStale, MissedWasEarly, Accept, pcVars
<1>5. ASSUME NEW j \in Sockets PROVE HandlerInv(j)' /\ DownInv(j)' /\ UpInv(j)'
  <2>1. HandlerInv(j)'
    BY <1>3 DEF TypeOK, SocketInv, SocketLife, HandlerInv, Accept, Opens, pcVars, Sockets
  <2>2. DownInv(j)'
    BY <1>3 DEF HandlerInv, DownInv, Accept, Opens, pcVars
  <2>3. UpInv(j)'
    <3>1. local # k
      BY SocketsAssumption DEF TypeOK, HandlerInv, Accept, Opens, Sockets
    <3>2. handler[k] # "refused"
      BY DEF HandlerInv, Accept, Opens
    <3> QED
      BY <1>3, <3>1, <3>2 DEF TypeOK, UpInv, Settled, Accept, pcVars
  <2> QED
    BY <2>1, <2>2, <2>3
<1> QED
  BY <1>1, <1>2, <1>4, <1>5

(* What the server sends, before and with the offer. *)
LEMMA ServerSendsInv ==
  ASSUME IInv, NEW k \in Sockets, ServerCandidate(k) \/ SendOffer(k) \/ SkipOffer(k)
  PROVE  IInv'
<1> USE DEF IInv
<1>1. SocketInv'
  BY SameSocketInv DEF ServerCandidate, SendOffer, SkipOffer
<1>2. TypeOK'
  <2>1. PICK msg \in ToPage :
          down' = down \/ down' = [down EXCEPT ![k] = Append(@, msg)]
    BY DEF ServerCandidate, SendOffer, SkipOffer, Send, ToPage
  <2>2. down' \in [Sockets -> Seq(ToPage)]
    <3>1. Append(down[k], msg) \in Seq(ToPage)
      BY DEF TypeOK
    <3> QED
      BY <2>1, <3>1 DEF TypeOK
  <2>3. /\ handler' \in [Sockets -> {"none", "setup", "reading", "refused", "left"}]
        /\ sentOffer' \in [Sockets -> BOOLEAN] /\ early' \in [Sockets -> BOOLEAN]
        /\ gathering' \in [Sockets -> 0 .. MaxCandidates]
    <3>1. CASE ServerCandidate(k)
      BY <3>1, CandidatesAssumption DEF TypeOK, ServerCandidate
    <3>2. CASE SendOffer(k) \/ SkipOffer(k)
      BY <3>2 DEF TypeOK, SendOffer, SkipOffer
    <3> QED
      BY <3>1, <3>2
  <2> QED
    BY <1>1, <2>2, <2>3
       DEF TypeOK, SocketInv, ServerCandidate, SendOffer, SkipOffer, pcVars
<1>3. RefusedIsStale' /\ MissedWasEarly'
  BY DEF TypeOK, RefusedIsStale, MissedWasEarly, ServerCandidate, SendOffer, SkipOffer,
     pcVars
<1>4. ASSUME NEW j \in Sockets PROVE HandlerInv(j)' /\ UpInv(j)'
  <2>1. CASE ServerCandidate(k)
    BY <2>1 DEF HandlerInv, UpInv, Settled, ServerCandidate, socketVars, pcVars
  <2>2. CASE SendOffer(k) \/ SkipOffer(k)
    <3>1. HandlerInv(j)'
      BY <2>2 DEF TypeOK, HandlerInv, SendOffer, SkipOffer, socketVars, pcVars
    <3>2. UpInv(j)'
      BY <2>2 DEF TypeOK, UpInv, Settled, SendOffer, SkipOffer, socketVars, pcVars
    <3> QED
      BY <3>1, <3>2
  <2> QED
    BY <2>1, <2>2
<1>5. ASSUME NEW j \in Sockets PROVE DownInv(j)'
  <2>1. CASE j = k /\ ServerCandidate(k)
    <3>1. ws[k] = "open" /\ down'[k] = Append(down[k], "candidate") /\ down[k] \in Seq(ToPage)
      BY <2>1 DEF TypeOK, HandlerInv, ServerCandidate, Send
    <3>2. early'[k] = (early[k] \/ ~sentOffer[k]) /\ sentOffer' = sentOffer /\ heard' = heard
      BY <2>1 DEF TypeOK, ServerCandidate, pcVars
    <3>3. Has(down[k], "offer") => Has(down'[k], "offer")
      BY <3>1, HasAppend DEF ToPage
    <3>4. early'[k] \/ k \in heard \/ Follows(down'[k], "candidate", "offer")
      BY <3>1, <3>2, FollowsAppend DEF DownInv, ToPage
    <3> QED
      BY <2>1, <3>1, <3>2, <3>3, <3>4 DEF DownInv
  <2>2. CASE j = k /\ SendOffer(k)
    <3>1. down'[k] = Append(down[k], "offer") /\ down[k] \in Seq(ToPage)
      BY <2>2 DEF TypeOK, SendOffer, Send
    <3>2. Has(down'[k], "offer")
      BY <3>1, HasAppend DEF ToPage
    <3>3. Follows(down[k], "candidate", "offer") => Follows(down'[k], "candidate", "offer")
      BY <3>1, FollowsAppend DEF ToPage
    <3> QED
      BY <2>2, <3>2, <3>3 DEF DownInv, SendOffer, pcVars
  <2>3. CASE j # k \/ SkipOffer(k)
    BY <2>3
       DEF TypeOK, DownInv, ServerCandidate, SendOffer, SkipOffer, Send, socketVars,
           pcVars
  <2> QED
    BY <2>1, <2>2, <2>3
<1> QED
  BY <1>1, <1>2, <1>3, <1>4, <1>5

(* ReadLoop takes the answer, or a candidate. *)
LEMMA ServerReadsInv ==
  ASSUME IInv, NEW k \in Sockets, Server(k)
  PROVE  IInv'
<1> USE DEF IInv
<1>1. SocketInv'
  BY SameSocketInv DEF Server, ReadAnswer, AnswerRefused, ReadCandidate
<1>2. /\ up[k] \in Seq(ToServer) /\ up[k] # <<>> /\ Head(up[k]) \in ToServer
      /\ Head(up[k]) = up[k][1] /\ 1 \in 1 .. Len(up[k])
      /\ up' = [up EXCEPT ![k] = Tail(@)] /\ Tail(up[k]) \in Seq(ToServer)
  BY HeadTailProperties, EmptySeq DEF TypeOK, Server, ReadAnswer, AnswerRefused, ReadCandidate, Read
<1>3. TypeOK'
  BY <1>1, <1>2 DEF TypeOK, SocketInv, Server, ReadAnswer, AnswerRefused, ReadCandidate, pcVars
<1>4. RefusedIsStale'
  <2>1. CASE ReadCandidate(k) /\ ~remote[k]
    <3>1. handler[k] = "reading" /\ Head(up[k])[1] = "candidate" /\ Head(up[k])[2] <= k
      BY <1>2, <2>1 DEF ReadCandidate, Read, UpInv, Settled
    <3>2. Head(up[k]) # <<"candidate", k>>
      BY <1>2, <2>1, <3>1, FollowsTail DEF UpInv, Settled
    <3>3. PICK j \in Sockets : Head(up[k]) = <<"candidate", j>>
      BY <1>2, <3>1 DEF ToServer
    <3>4. j \in 1 .. k - 1
      BY <3>1, <3>2, <3>3, SocketsAssumption DEF Sockets
    <3>5. refused' = [refused EXCEPT ![k] = <<"candidate", j>>]
      BY <2>1, <3>3 DEF ReadCandidate
    <3> QED
      BY <3>4, <3>5 DEF TypeOK, RefusedIsStale
  <2>2. CASE UNCHANGED refused
    BY <2>2 DEF RefusedIsStale
  <2> QED
    BY <2>1, <2>2 DEF Server, ReadAnswer, AnswerRefused, ReadCandidate
<1>5. MissedWasEarly'
  BY DEF MissedWasEarly, Server, ReadAnswer, AnswerRefused, ReadCandidate, pcVars
<1>6. ASSUME NEW j \in Sockets PROVE HandlerInv(j)' /\ DownInv(j)'
  BY DEF TypeOK, HandlerInv, DownInv, Server, ReadAnswer, AnswerRefused, ReadCandidate, Read,
     socketVars, pcVars
<1>7. ASSUME NEW j \in Sockets PROVE UpInv(j)'
  <2>1. CASE j = k
    <3>1. ASSUME NEW i \in 1 .. Len(Tail(up[k])) PROVE Tail(up[k])[i][2] <= k
      <4>1. i + 1 \in 1 .. Len(up[k]) /\ Tail(up[k])[i] = up[k][i + 1]
        BY <1>2, TailIndex
      <4> QED
        BY <4>1 DEF UpInv, Settled
    <3>2. CASE ReadAnswer(k) \/ AnswerRefused(k)
      BY <1>2, <2>1, <3>1, <3>2
         DEF TypeOK, UpInv, Settled, ReadAnswer, AnswerRefused
    <3>3. CASE ReadCandidate(k)
      <4>1. Head(up[k]) # <<"answer", k>>
        BY <3>3 DEF ReadCandidate, Read
      <4>2. Has(up[k], <<"answer", k>>) => Has(Tail(up[k]), <<"answer", k>>)
        BY <1>2, <4>1, HasTail
      <4>3. Settled(k) \/ Follows(Tail(up[k]), <<"candidate", k>>, <<"answer", k>>)
        BY <1>2, <4>1, FollowsTail DEF UpInv, Settled
      <4> QED
        BY <1>2, <2>1, <3>1, <3>3, <4>2, <4>3
           DEF TypeOK, UpInv, Settled, ReadCandidate, socketVars, pcVars
    <3> QED
      BY <3>2, <3>3 DEF Server
  <2>2. CASE j # k
    BY <1>2, <2>2
       DEF TypeOK, UpInv, Settled, Server, ReadAnswer, AnswerRefused, ReadCandidate,
           socketVars, pcVars
  <2> QED
    BY <2>1, <2>2
<1> QED
  BY <1>1, <1>3, <1>4, <1>5, <1>6, <1>7

(* The page takes an offer, or a candidate. *)
LEMMA PageReceivesInv ==
  ASSUME IInv, NEW k \in Sockets, Page(k)
  PROVE  IInv'
<1> USE DEF IInv
<1>1. SocketInv'
  BY SameSocketInv DEF Page, ReceiveOffer, ReceiveCandidate
<1>2. /\ down[k] \in Seq(ToPage) /\ down[k] # <<>>
      /\ down' = [down EXCEPT ![k] = Tail(@)] /\ Tail(down[k]) \in Seq(ToPage)
      /\ ws[k] = "open" /\ k = current
  BY OpenIsCurrent DEF TypeOK, Page, ReceiveOffer, ReceiveCandidate, Receive
<1>3. TypeOK'
  BY <1>1, <1>2 DEF TypeOK, SocketInv, Page, ReceiveOffer, ReceiveCandidate, serverVars
<1>4. RefusedIsStale'
  BY DEF RefusedIsStale, Page, ReceiveOffer, ReceiveCandidate, serverVars
<1>5. MissedWasEarly'
  <2>1. CASE ReceiveOffer(k)
    <3>1. \A j \in missed : j <= k
      BY <1>2 DEF TypeOK, HandlerInv
    <3> QED
      BY <2>1, <3>1 DEF TypeOK, MissedWasEarly, ReceiveOffer, serverVars, Sockets
  <2>2. CASE ReceiveCandidate(k)
    <3>1. heard = {} => early[k]
      BY <1>2, <2>2, FollowsTail DEF DownInv, ReceiveCandidate, Receive
    <3> QED
      BY <2>2, <3>1 DEF MissedWasEarly, ReceiveCandidate, serverVars
  <2> QED
    BY <2>1, <2>2 DEF Page
<1>6. ASSUME NEW j \in Sockets PROVE HandlerInv(j)' /\ UpInv(j)'
  <2>1. HandlerInv(j)'
    BY <1>2, SocketsAssumption
       DEF Sockets, HandlerInv, Page, ReceiveOffer, ReceiveCandidate, socketVars, serverVars
  <2>2. UpInv(j)'
    BY DEF UpInv, Settled, Page, ReceiveOffer, ReceiveCandidate, socketVars, serverVars
  <2> QED
    BY <2>1, <2>2
<1>7. ASSUME NEW j \in Sockets PROVE DownInv(j)'
  <2>1. CASE j = k /\ ReceiveOffer(k)
    BY <2>1 DEF DownInv, ReceiveOffer
  <2>2. CASE j = k /\ ReceiveCandidate(k)
    <3>1. Head(down[k]) # "offer"
      BY <2>2 DEF ReceiveCandidate, Receive
    <3>2. Has(down[k], "offer") => Has(Tail(down[k]), "offer")
      BY <1>2, <3>1, HasTail
    <3>3. Follows(down[k], "candidate", "offer") => Follows(Tail(down[k]), "candidate", "offer")
      BY <1>2, <3>1, FollowsTail
    <3> QED
      BY <1>2, <2>2, <3>2, <3>3
         DEF TypeOK, DownInv, ReceiveCandidate, socketVars, serverVars
  <2>3. CASE j # k
    BY <1>2, <2>3
       DEF TypeOK, DownInv, Page, ReceiveOffer, ReceiveCandidate, socketVars, serverVars
  <2> QED
    BY <2>1, <2>2, <2>3 DEF Page
<1> QED
  BY <1>1, <1>3, <1>4, <1>5, <1>6, <1>7

(* Something is sent on socket k that is not newer than k. *)
LEMMA PageSendsType ==
  ASSUME TypeOK, NEW k \in Sockets, NEW msg \in ToServer, msg[2] <= k, PageSends(k, msg),
         UpInv(k)
  PROVE  /\ up' \in [Sockets -> Seq(ToServer)]
         /\ \A i \in 1 .. Len(up'[k]) : up'[k][i][2] <= k
         /\ \A j \in Sockets \ {k} : up'[j] = up[j]
<1>1. up[k] \in Seq(ToServer) /\ Append(up[k], msg) \in Seq(ToServer)
  BY DEF TypeOK
<1>2. up' \in [Sockets -> Seq(ToServer)] /\ \A j \in Sockets \ {k} : up'[j] = up[j]
  BY <1>1 DEF TypeOK, PageSends
<1>3. ASSUME NEW i \in 1 .. Len(up'[k]) PROVE up'[k][i][2] <= k
  BY <1>1, <1>3 DEF TypeOK, PageSends, UpInv, Settled
<1> QED
  BY <1>2, <1>3

(* The answer goes out before any candidate, or there is no answer. *)
LEMMA AnswerInv ==
  ASSUME IInv, NEW k \in Sockets, Answer(k) \/ AnswerFails(k)
  PROVE  IInv'
<1> USE DEF IInv
<1>1. SocketInv'
  BY SameSocketInv DEF Answer, AnswerFails
<1>2. <<"answer", k>> \in ToServer /\ <<"answer", k>>[2] <= k /\ up[k] \in Seq(ToServer)
  <2>1. k <= k
    BY SocketsAssumption DEF Sockets
  <2> QED
    BY <2>1 DEF ToServer, TypeOK
<1>3. TypeOK'
  <2>1. up' \in [Sockets -> Seq(ToServer)]
    BY <1>2, PageSendsType DEF Answer, AnswerFails, TypeOK
  <2> QED
    BY <1>1, <2>1 DEF TypeOK, SocketInv, Answer, AnswerFails, serverVars
<1>4. RefusedIsStale' /\ MissedWasEarly'
  BY DEF RefusedIsStale, MissedWasEarly, Answer, AnswerFails, serverVars
<1>5. ASSUME NEW j \in Sockets PROVE HandlerInv(j)' /\ DownInv(j)'
  BY DEF HandlerInv, DownInv, Answer, AnswerFails, socketVars, serverVars
<1>6. ASSUME NEW j \in Sockets PROVE UpInv(j)'
  <2>1. CASE j = k /\ Answer(k)
    <3>1. \A i \in 1 .. Len(up'[k]) : up'[k][i][2] <= k
      BY <1>2, <2>1, PageSendsType DEF Answer
    <3>2. up'[k] = IF ws[k] = "open" THEN Append(up[k], <<"answer", k>>) ELSE up[k]
      BY <2>1 DEF TypeOK, Answer, PageSends
    <3>3. Follows(up[k], <<"candidate", k>>, <<"answer", k>>)
            => Follows(up'[k], <<"candidate", k>>, <<"answer", k>>)
      BY <1>2, <3>2, FollowsAppend
    <3>4. ws[k] = "open" => Has(up'[k], <<"answer", k>>)
      BY <1>2, <3>2, HasAppend
    <3> QED
      BY <2>1, <3>1, <3>3, <3>4 DEF UpInv, Settled, Answer, socketVars, serverVars
  <2>2. CASE j # k /\ Answer(k)
    <3>1. up'[j] = up[j]
      BY <2>2 DEF TypeOK, Answer, PageSends
    <3> QED
      BY <2>2, <3>1 DEF UpInv, Settled, Answer, socketVars, serverVars
  <2>3. CASE AnswerFails(k)
    BY <2>3 DEF UpInv, Settled, AnswerFails, socketVars, serverVars
  <2> QED
    BY <2>1, <2>2, <2>3
<1> QED
  BY <1>1, <1>3, <1>4, <1>5, <1>6

(***************************************************************************)
(* A candidate goes out on the current socket: after the answer, if it is  *)
(* that socket's own.                                                      *)
(***************************************************************************)
LEMMA PageCandidateInv ==
  ASSUME IInv, PageCandidate
  PROVE  IInv'
<1> USE DEF IInv
<1>1. SocketInv'
  BY SameSocketInv DEF PageCandidate
<1>2. /\ current \in Sockets /\ local \in Sockets /\ local <= current
      /\ <<"candidate", local>> \in ToServer /\ up[current] \in Seq(ToServer)
  <2>1. local \in 0 .. current /\ local # 0 /\ current \in 0 .. MaxSockets
    BY LocalIsPast DEF PageCandidate, SocketInv, SocketTypeOK
  <2>2. current \in Sockets /\ local \in Sockets /\ local <= current
    BY <2>1, SocketsAssumption DEF Sockets
  <2> QED
    BY <2>2 DEF ToServer, TypeOK
<1>3. /\ up' \in [Sockets -> Seq(ToServer)]
      /\ \A i \in 1 .. Len(up'[current]) : up'[current][i][2] <= current
      /\ \A j \in Sockets \ {current} : up'[j] = up[j]
  BY <1>2, PageSendsType DEF PageCandidate
<1>4. TypeOK'
  <2>1. left' \in [Sockets -> 0 .. MaxCandidates]
    BY <1>2, CandidatesAssumption DEF TypeOK, PageCandidate
  <2> QED
    BY <1>1, <1>3, <2>1 DEF TypeOK, SocketInv, PageCandidate, serverVars
<1>5. RefusedIsStale' /\ MissedWasEarly'
  BY DEF RefusedIsStale, MissedWasEarly, PageCandidate, serverVars
<1>6. ASSUME NEW j \in Sockets PROVE HandlerInv(j)' /\ DownInv(j)'
  BY DEF HandlerInv, DownInv, PageCandidate, socketVars, serverVars
<1>7. ASSUME NEW j \in Sockets PROVE UpInv(j)'
  <2>1. CASE j = current
    <3>1. up'[j] = IF ws[j] = "open" THEN Append(up[j], <<"candidate", local>>) ELSE up[j]
      BY <1>2, <2>1 DEF TypeOK, PageCandidate, PageSends
    <3>2. Settled(j) \/ Follows(up'[j], <<"candidate", j>>, <<"answer", j>>)
      BY <1>2, <2>1, <3>1, FollowsAppend DEF UpInv, Settled
    <3>3. Has(up[j], <<"answer", j>>) => Has(up'[j], <<"answer", j>>)
      BY <1>2, <2>1, <3>1, HasAppend
    <3> QED
      BY <1>3, <2>1, <3>2, <3>3 DEF UpInv, Settled, PageCandidate, socketVars, serverVars
  <2>2. CASE j # current
    BY <1>3, <2>2 DEF UpInv, Settled, PageCandidate, socketVars, serverVars
  <2> QED
    BY <2>1, <2>2
<1> QED
  BY <1>1, <1>4, <1>5, <1>6, <1>7

(* Every step keeps the invariant. *)
LEMMA NextInv == IInv /\ [Next]_vars => IInv'
<1> SUFFICES ASSUME IInv, [Next]_vars PROVE IInv'
  OBVIOUS
<1>1. CASE UNCHANGED vars
  BY <1>1, SameSocketInv
     DEF IInv, TypeOK, SocketInv, RefusedIsStale, MissedWasEarly, HandlerInv, DownInv,
         UpInv, Settled, vars, socketVars, serverVars, pcVars
<1> QED
  BY <1>1, SocketStepInv, DisconnectInv, AcceptInv, ServerSendsInv, ServerReadsInv,
     PageReceivesInv, AnswerInv, PageCandidateInv DEF Next

(* The invariant is one of the specification. *)
LEMMA Invariance == Spec => []IInv
BY InitInv, NextInv, PTL DEF Spec
-----------------------------------------------------------------------------
(* Type correctness of a page, its sockets and their handlers, for any number of sockets. *)
THEOREM SignalingTypeCorrect == Spec => []TypeOK
<1>1. IInv => TypeOK
  BY DEF IInv
<1> QED  BY <1>1, Invariance, PTL

(***************************************************************************)
(* However often a page's connections fail, and at whatever moment, it has *)
(* one websocket, or one timer that will make one, at a time               *)
(* (SocketContext.jsx:83-109).                                             *)
(***************************************************************************)
THEOREM PageOneSocketAtATime == Spec => []OneSocketAtATime
<1>1. IInv => OneSocketAtATime
  BY DEF IInv, SocketInv, SocketTypeOK, SocketLife, OneSocketAtATime, Sockets
<1> QED  BY <1>1, Invariance, PTL

(***************************************************************************)
(* The delays between the sockets of a page double up to the maximum, and  *)
(* start again after a socket that has been open, for any first delay and  *)
(* maximum (SocketContext.jsx:15-24, 33-35, 83-109).                       *)
(***************************************************************************)
THEOREM PageDelaysBackOff == Spec => []DelaysBackOff
<1>1. IInv => DelaysBackOff
  BY DEF IInv, SocketInv
<1> QED  BY <1>1, Invariance, PTL

(***************************************************************************)
(* However many candidates there are, ReadLoop refuses only those of an    *)
(* earlier negotiation than its own (client.go:71-79, App.js:77-85).       *)
(***************************************************************************)
THEOREM SignalingRefusedIsStale == Spec => []RefusedIsStale
<1>1. IInv => RefusedIsStale
  BY DEF IInv
<1> QED  BY <1>1, Invariance, PTL

(***************************************************************************)
(* The page misses only candidates that the server sent ahead of its offer *)
(* (server.go:178-224, App.js:71-93).                                      *)
(***************************************************************************)
THEOREM SignalingMissedWasEarly == Spec => []MissedWasEarly
<1>1. IInv => MissedWasEarly
  BY DEF IInv
<1> QED  BY <1>1, Invariance, PTL
=============================================================================
