----------------------------- MODULE Signaling ------------------------------
(***************************************************************************)
(* The negotiation between a viewer's page and the WebRTC server: on every *)
(* websocket of the page (module SocketContext) a websocketHandler makes a *)
(* peer connection of its own and sends its offer and candidates           *)
(* (webrtc/server/server.go); the page has one RTCPeerConnection for its   *)
(* whole life (context/RTCPeerContext.jsx), answers the offers and sends   *)
(* its own candidates (App.js); ReadLoop applies them (webrtc/ws/          *)
(* client.go).                                                             *)
(*                                                                         *)
(* A websocket delivers in order, in each direction.  The goroutines       *)
(* inside the server are the subject of Hub; here the handler is through   *)
(* with its Register, or not, when it looks for its client.                *)
(***************************************************************************)
EXTENDS SocketContext, Sequences

CONSTANT MaxCandidates   \* bound: candidates each side gathers for one offer

ASSUME CandidatesAssumption == MaxCandidates \in Nat

VARIABLES
  handler,    \* handler[k]: "none", "setup", "reading", "refused" or "left"
  sentOffer,  \* sentOffer[k]: the offer has been sent to socket k
  early,      \* early[k]: a candidate has been sent that no offer preceded
  gathering,  \* gathering[k]: candidates the server may still gather
  down, up,   \* down[k], up[k]: messages on their way from and to the server
  remote,     \* remote[k]: the server has the answer
  refused     \* refused[k]: the candidate on which ReadLoop has returned
VARIABLES
  heard,      \* the sockets whose offer the page has taken
  answering,  \* the sockets for which createAnswer is under way
  local,      \* the socket whose answer pc has as local description, or 0
  left,       \* left[k]: candidates the browser may still gather for it
  missed      \* the sockets a candidate of which pc has refused

serverVars == <<handler, sentOffer, early, gathering, remote, refused>>
pcVars     == <<heard, answering, local, left, missed>>
vars       == <<socketVars, serverVars, down, up, pcVars>>
-----------------------------------------------------------------------------
ToPage   == {"offer", "candidate"}
ToServer == {"answer", "candidate"} \X Sockets

TypeOK ==
  /\ SocketTypeOK
  /\ handler \in [Sockets -> {"none", "setup", "reading", "refused", "left"}]
  /\ sentOffer \in [Sockets -> BOOLEAN] /\ early \in [Sockets -> BOOLEAN]
  /\ gathering \in [Sockets -> 0 .. MaxCandidates]
  /\ down \in [Sockets -> Seq(ToPage)] /\ up \in [Sockets -> Seq(ToServer)]
  /\ remote \in [Sockets -> BOOLEAN]
  /\ refused \in [Sockets -> ToServer \cup {<<>>}]
  /\ heard \subseteq Sockets /\ answering \subseteq heard
  /\ local \in heard \cup {0}
  /\ left \in [Sockets -> 0 .. MaxCandidates]
  /\ missed \subseteq Sockets

Init ==
  /\ SocketInit
  /\ handler = [k \in Sockets |-> "none"]
  /\ sentOffer = [k \in Sockets |-> FALSE] /\ early = [k \in Sockets |-> FALSE]
  /\ gathering = [k \in Sockets |-> MaxCandidates]
  /\ down = [k \in Sockets |-> <<>>] /\ up = [k \in Sockets |-> <<>>]
  /\ remote = [k \in Sockets |-> FALSE]
  /\ refused = [k \in Sockets |-> <<>>]
  /\ heard = {} /\ answering = {} /\ local = 0
  /\ left = [k \in Sockets |-> MaxCandidates]
  /\ missed = {}
-----------------------------------------------------------------------------
(***************************************************************************)
(* The page's socket                                                       *)
(***************************************************************************)
SocketStep ==
  /\ Configure \/ ConfigFails \/ InstallHandlers \/ \E k \in Sockets : TimerFires(k)
  /\ UNCHANGED <<serverVars, down, up, pcVars>>

(***************************************************************************)
(* The websocket comes to its end: what is on its way is lost, ReadLoop    *)
(* and the candidate callback find their connection closed.  What ReadLoop *)
(* may still read after the page's end has closed it could have read just  *)
(* before, with the same effect: reading does not depend on the page.      *)
(***************************************************************************)
Disconnect(k) ==
  /\ Closes(k)
  /\ down' = [down EXCEPT ![k] = <<>>] /\ up' = [up EXCEPT ![k] = <<>>]
  /\ handler' = [handler EXCEPT ![k] = "left"]
  /\ gathering' = [gathering EXCEPT ![k] = 0]
  /\ UNCHANGED <<sentOffer, early, remote, refused, pcVars>>

(* The upgrade; the handler registers and sets the local description. *)
Accept(k) ==
  /\ Opens(k)
  /\ handler' = [handler EXCEPT ![k] = "setup"]
  /\ UNCHANGED <<sentOffer, early, gathering, remote, refused, down, up, pcVars>>
-----------------------------------------------------------------------------
(***************************************************************************)
(* The server                                                              *)
(***************************************************************************)
Send(channel, k, msg) == channel' = [channel EXCEPT ![k] = Append(@, msg)]

(* OnICECandidate, from SetLocalDescription on, that is before the offer. *)
ServerCandidate(k) ==
  /\ handler[k] \in {"setup", "reading"} /\ gathering[k] > 0
  /\ gathering' = [gathering EXCEPT ![k] = @ - 1]
  /\ early' = [early EXCEPT ![k] = @ \/ ~sentOffer[k]]
  /\ Send(down, k, "candidate")
  /\ UNCHANGED <<socketVars, handler, sentOffer, remote, refused, up, pcVars>>

SendOffer(k) ==
  /\ handler[k] = "setup"
  /\ handler' = [handler EXCEPT ![k] = "reading"]
  /\ sentOffer' = [sentOffer EXCEPT ![k] = TRUE]
  /\ Send(down, k, "offer")
  /\ UNCHANGED <<socketVars, early, gathering, remote, refused, up, pcVars>>

(* The client is not in hub.Clients yet: no offer. *)
SkipOffer(k) ==
  /\ handler[k] = "setup"
  /\ handler' = [handler EXCEPT ![k] = "reading"]
  /\ UNCHANGED <<socketVars, sentOffer, early, gathering, remote, refused, down, up,
                 pcVars>>

Read(k, kind) ==
  /\ handler[k] = "reading" /\ up[k] # <<>> /\ Head(up[k])[1] = kind
  /\ up' = [up EXCEPT ![k] = Tail(@)]

(* SetRemoteDescription(answer) *)
ReadAnswer(k) ==
  /\ Read(k, "answer")
  /\ remote' = [remote EXCEPT ![k] = TRUE]
  /\ UNCHANGED <<socketVars, handler, sentOffer, early, gathering, refused, down,
                 pcVars>>

(* SetRemoteDescription is an error, and ReadLoop returns. *)
AnswerRefused(k) ==
  /\ Read(k, "answer")
  /\ handler' = [handler EXCEPT ![k] = "refused"]
  /\ UNCHANGED <<socketVars, sentOffer, early, gathering, remote, refused, down,
                 pcVars>>

(* AddICECandidate is an error before the answer, and ReadLoop returns. *)
ReadCandidate(k) ==
  /\ Read(k, "candidate")
  /\ IF remote[k]
       THEN UNCHANGED <<handler, refused>>
       ELSE /\ handler' = [handler EXCEPT ![k] = "refused"]
            /\ refused' = [refused EXCEPT ![k] = Head(up[k])]
  /\ UNCHANGED <<socketVars, sentOffer, early, gathering, remote, down, pcVars>>
-----------------------------------------------------------------------------
(***************************************************************************)
(* The page                                                                *)
(***************************************************************************)
(* socket.onmessage, which App installs in the render that made the socket. *)
Receive(k, msg) ==
  /\ ws[k] = "open" /\ down[k] # <<>> /\ Head(down[k]) = msg
  /\ down' = [down EXCEPT ![k] = Tail(@)]

\* Faulty: createAnswer comes first, and pc refuses it as long as it has no offer.
ReceiveOfferAnswerFirst(k) ==
  /\ Receive(k, "offer")
  /\ heard' = heard \cup {k}
  /\ answering' = IF heard = {} THEN answering ELSE answering \cup {k}
  /\ UNCHANGED <<socketVars, serverVars, up, local, left, missed>>

(***************************************************************************)
(* pc.setRemoteDescription is not awaited, but pc does its operations in   *)
(* order: what comes next finds the offer applied.                         *)
(***************************************************************************)
ReceiveOffer(k) ==
  /\ Receive(k, "offer")
  /\ heard' = heard \cup {k}
  /\ answering' = answering \cup {k}
  /\ UNCHANGED <<socketVars, serverVars, up, local, left, missed>>

\* Faulty: candidates are given to pc only once the answer is in place.
ReceiveCandidateLate(k) ==
  /\ Receive(k, "candidate")
  /\ missed' = IF local = 0 THEN missed \cup {k} ELSE missed
  /\ UNCHANGED <<socketVars, serverVars, up, heard, answering, local, left>>

(* pc.addIceCandidate, which pc refuses as long as it has had no offer. *)
ReceiveCandidate(k) ==
  /\ Receive(k, "candidate")
  /\ missed' = IF heard = {} THEN missed \cup {k} ELSE missed
  /\ UNCHANGED <<socketVars, serverVars, up, heard, answering, local, left>>

\* socket.send: dropped unless the socket is open.
PageSends(k, msg) ==
  up' = [up EXCEPT ![k] = IF ws[k] = "open" THEN Append(@, msg) ELSE @]

\* Faulty: await pc.setLocalDescription(answer), and only then the answer.
AnswerLater(k) ==
  /\ k \in answering
  /\ IF local = k
       THEN PageSends(k, <<"answer", k>>) /\ answering' = answering \ {k} /\ UNCHANGED local
       ELSE local' = k /\ UNCHANGED <<answering, up>>
  /\ UNCHANGED <<socketVars, serverVars, down, heard, left, missed>>

(* The answer is there: setLocalDescription, not awaited, and send. *)
Answer(k) ==
  /\ k \in answering
  /\ answering' = answering \ {k}
  /\ local' = k
  /\ PageSends(k, <<"answer", k>>)
  /\ UNCHANGED <<socketVars, serverVars, down, heard, left, missed>>

(* pc does not take an offer from another peer than the first, or cannot answer. *)
AnswerFails(k) ==
  /\ k \in answering /\ heard # {k}
  /\ answering' = answering \ {k}
  /\ UNCHANGED <<socketVars, serverVars, down, up, heard, local, left, missed>>

(* pc.onicecandidate sends on the socket of the last render, whichever it is. *)
PageCandidate ==
  /\ local # 0 /\ left[local] > 0
  /\ left' = [left EXCEPT ![local] = @ - 1]
  /\ PageSends(current, <<"candidate", local>>)
  /\ UNCHANGED <<socketVars, serverVars, down, heard, answering, local, missed>>
-----------------------------------------------------------------------------
Server(k) == ReadAnswer(k) \/ AnswerRefused(k) \/ ReadCandidate(k)

Page(k) == ReceiveOffer(k) \/ ReceiveCandidate(k)

Next ==
  \/ SocketStep \/ PageCandidate
  \/ \E k \in Sockets :
       \/ Accept(k) \/ Disconnect(k)
       \/ ServerCandidate(k) \/ SendOffer(k) \/ SkipOffer(k) \/ Server(k)
       \/ Page(k) \/ Answer(k) \/ AnswerFails(k)

Spec == Init /\ [][Next]_vars

(***************************************************************************)
(* Both event loops run, timers fire, messages on an open socket arrive,   *)
(* and so does the end of a connection that ReadLoop closes.  Connections  *)
(* need neither succeed nor last, and candidates need not be found.        *)
(***************************************************************************)
FairSpec ==
  /\ Spec
  /\ \A k \in Sockets :
       /\ WF_vars(TimerFires(k) /\ UNCHANGED <<serverVars, down, up, pcVars>>)
       /\ WF_vars(handler[k] = "refused" /\ Disconnect(k))
       /\ WF_vars(Server(k)) /\ WF_vars(Page(k)) /\ WF_vars(Answer(k) \/ AnswerFails(k))
-----------------------------------------------------------------------------
(***************************************************************************)
(* The server never refuses a candidate that belongs to the negotiation at *)
(* hand: the page sends its answer before it can gather (App.js:77-85).    *)
(* What AddICECandidate fails on (client.go:76-79) is a candidate of an    *)
(* earlier negotiation, sent on the socket that has replaced its own; in   *)
(* particular no candidate ever closes the first connection of a page.     *)
(***************************************************************************)
RefusedIsStale ==
  \A k \in Sockets :
    refused[k] # <<>> => refused[k] \in {"candidate"} \X (1 .. k - 1)

(***************************************************************************)
(* The page misses a candidate of the server only if it was sent ahead of  *)
(* the offer (server.go:178-224); one that follows the offer is taken even *)
(* when the offer is still being applied.                                  *)
(***************************************************************************)
MissedWasEarly == \A k \in missed : early[k] /\ \A j \in heard : j >= k

(***************************************************************************)
(* A negotiation that begins comes to its end (App.js:71-93,               *)
(* client.go:81-91): once the offer has been sent the server gets the      *)
(* answer, or the socket closes.  Only an offer of a later socket, which   *)
(* the page's one peer connection may not take, can stay unanswered.       *)
(***************************************************************************)
OfferIsAnswered ==
  \A k \in Sockets :
    sentOffer[k] ~>
      \/ remote[k] \/ ws[k] \in {"closed", "lost"}
      \/ k \in heard \ answering /\ heard # {k} /\ local # k
=============================================================================
