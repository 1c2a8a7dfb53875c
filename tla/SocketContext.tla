--------------------------- MODULE SocketContext ----------------------------
(***************************************************************************)
(* The websocket of a viewer's page (frontend/src/context/                 *)
(* SocketContext.jsx): the reducer's state, the effect that installs a     *)
(* socket's handlers some time after the render that made the socket, and  *)
(* the timer that renews a socket that has closed.                         *)
(*                                                                         *)
(* The k-th socket is number k.  A dispatch from a handler, a timer or a   *)
(* promise renders at once (React 17), the effects run later.  The actions *)
(* here speak of the socket's side only; Signaling adds what goes over it. *)
(***************************************************************************)
EXTENDS Naturals

CONSTANTS MaxSockets,  \* bound: sockets a page makes
          FirstDelay,  \* the reducer's 250 ms
          MaxDelay     \* the reducer's 10000 ms

Sockets == 1 .. MaxSockets

ASSUME SocketsAssumption == MaxSockets \in Nat \ {0}
ASSUME DelayAssumption == FirstDelay \in Nat \ {0} /\ MaxDelay \in Nat /\ FirstDelay <= MaxDelay

VARIABLES
  page,      \* "loading" config.json, "ready", or "broken" for want of it
  current,   \* state.socket, 0 for null
  duration,  \* state.wsTimeoutDuration
  ws,        \* ws[k]: the socket; "lost" if it closed before it had handlers
  delay,     \* delay[k]: the duration its handlers close over, 0: no handlers
  timer,     \* timer[k]: its renewal
  told       \* told[k]: its onopen has run

socketVars == <<page, current, duration, ws, delay, timer, told>>

SocketTypeOK ==
  /\ page \in {"loading", "ready", "broken"}
  /\ current \in 0 .. MaxSockets
  /\ duration \in FirstDelay .. MaxDelay
  /\ ws \in [Sockets -> {"none", "connecting", "open", "closed", "lost"}]
  /\ delay \in [Sockets -> {0} \cup FirstDelay .. MaxDelay]
  /\ timer \in [Sockets -> {"none", "running", "fired"}]
  /\ told \in [Sockets -> BOOLEAN]

(* initialState; the first effect fetches config.json. *)
SocketInit ==
  /\ page = "loading" /\ current = 0 /\ duration = FirstDelay
  /\ ws = [k \in Sockets |-> "none"]
  /\ delay = [k \in Sockets |-> 0]
  /\ timer = [k \in Sockets |-> "none"]
  /\ told = [k \in Sockets |-> FALSE]
-----------------------------------------------------------------------------
\* Faulty: the reducer doubles the duration without the maximum.
TwiceUncapped(d) == 2 * d

Twice(d) == IF 2 * d > MaxDelay THEN MaxDelay ELSE 2 * d

NewSocket ==
  /\ current < MaxSockets
  /\ current' = current + 1
  /\ ws' = [ws EXCEPT ![current'] = "connecting"]

(* config.json has a wsUrl: initSocket. *)
Configure ==
  /\ page = "loading" /\ page' = "ready"
  /\ NewSocket
  /\ UNCHANGED <<duration, delay, timer, told>>

(* It has none, or cannot be fetched: an error on the console. *)
ConfigFails ==
  /\ page = "loading" /\ page' = "broken"
  /\ UNCHANGED <<current, duration, ws, delay, timer, told>>

(* The effect of [socket]: the handlers close over this render's duration. *)
InstallHandlers ==
  /\ current # 0 /\ delay[current] = 0
  /\ delay' = [delay EXCEPT ![current] = duration]
  /\ UNCHANGED <<page, current, duration, ws, timer, told>>

\* Faulty: onopen dispatches "resetTimeout" only, which the reducer ignores.
OpensUnreset(k) ==
  /\ ws[k] = "connecting"
  /\ ws' = [ws EXCEPT ![k] = "open"]
  /\ told' = [told EXCEPT ![k] = delay[k] # 0]
  /\ UNCHANGED <<page, current, duration, delay, timer>>

(***************************************************************************)
(* The server accepts; onopen, if installed, resets the duration.  Its     *)
(* other dispatch, "resetTimeout", is not a case of the reducer.           *)
(***************************************************************************)
Opens(k) ==
  /\ ws[k] = "connecting"
  /\ ws' = [ws EXCEPT ![k] = "open"]
  /\ told' = [told EXCEPT ![k] = delay[k] # 0]
  /\ duration' = IF delay[k] # 0 THEN FirstDelay ELSE duration
  /\ UNCHANGED <<page, current, delay, timer>>

\* Faulty: only a socket that has been open is renewed.
ClosesUnnoticed(k) ==
  /\ ws[k] \in {"connecting", "open"}
  /\ ws' = [ws EXCEPT ![k] = IF delay[k] # 0 THEN "closed" ELSE "lost"]
  /\ timer' = [timer EXCEPT ![k] = IF delay[k] # 0 /\ told[k] THEN "running" ELSE "none"]
  /\ UNCHANGED <<page, current, duration, delay, told>>

(***************************************************************************)
(* The connection is refused, closed or lost.  onclose, if installed, sets *)
(* the timer; onerror, which may come first, only closes the socket.       *)
(***************************************************************************)
Closes(k) ==
  /\ ws[k] \in {"connecting", "open"}
  /\ ws' = [ws EXCEPT ![k] = IF delay[k] # 0 THEN "closed" ELSE "lost"]
  /\ timer' = [timer EXCEPT ![k] = IF delay[k] # 0 THEN "running" ELSE "none"]
  /\ UNCHANGED <<page, current, duration, delay, told>>

\* Faulty: setInterval for setTimeout.
TimerFiresAgain(k) ==
  /\ timer[k] = "running"
  /\ NewSocket
  /\ duration' = Twice(duration)
  /\ UNCHANGED <<page, delay, timer, told>>

(* The timer's closure sees its socket closed: renewSocket. *)
TimerFires(k) ==
  /\ timer[k] = "running"
  /\ timer' = [timer EXCEPT ![k] = "fired"]
  /\ NewSocket
  /\ duration' = Twice(duration)
  /\ UNCHANGED <<page, delay, told>>
-----------------------------------------------------------------------------
(***************************************************************************)
(* A page has one websocket at a time (SocketContext.jsx:91-96): whichever *)
(* of its events are lost or late, a socket that is connecting or open and *)
(* a timer that will renew one belong to the current socket, and never     *)
(* both.  Two would make a viewer count twice and get two offers.          *)
(***************************************************************************)
OneSocketAtATime ==
  \A k \in Sockets :
    /\ ws[k] \in {"connecting", "open"} => k = current /\ timer[k] = "none"
    /\ timer[k] = "running" => k = current /\ ws[k] = "closed"

(***************************************************************************)
(* The delays back off (SocketContext.jsx:15-24, 33-35, 83-109): although  *)
(* the handlers close over a duration that is stale by the time they use   *)
(* it, each socket waits twice as long as the one before, up to the        *)
(* maximum, or twice the first delay if the one before had been open.      *)
(***************************************************************************)
DelaysBackOff ==
  \A k \in Sockets \ {1} : delay[k] # 0 =>
    delay[k] = IF told[k - 1] THEN Twice(FirstDelay) ELSE Twice(delay[k - 1])

(***************************************************************************)
(* A socket that closes is renewed (SocketContext.jsx:83-102), however     *)
(* often and whether or not it has been open, unless it closes before the  *)
(* effect has given it handlers: such a page is never connected again.     *)
(***************************************************************************)
ClosedIsRenewed ==
  \A k \in Sockets : (ws[k] = "closed") ~> (current > k \/ k = MaxSockets)
=============================================================================
