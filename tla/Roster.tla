------------------------------- MODULE Roster -------------------------------
(***************************************************************************)
(* What a hub promises about the viewers of its stream, and nothing of the *)
(* goroutines, channels and locks it keeps the promise with: a viewer      *)
(* joins at most once and leaves for good, messages are handed only to     *)
(* viewers that have joined and not left, and when the hub disbands every  *)
(* viewer leaves and none joins any more.  Hub implements it.              *)
(***************************************************************************)
CONSTANTS Viewers, Messages,
          None    \* "no message", not one of Messages

VARIABLES
  status,    \* status[c]: "absent", "member" or "out"
  inbox,     \* inbox[c]: the message c's writer has in hand
  disbanded

vars == <<status, inbox, disbanded>>

TypeOK ==
  /\ status \in [Viewers -> {"absent", "member", "out"}]
  /\ inbox \in [Viewers -> Messages \cup {None}]
  /\ disbanded \in BOOLEAN

Init ==
  /\ status = [c \in Viewers |-> "absent"]
  /\ inbox = [c \in Viewers |-> None]
  /\ disbanded = FALSE

Join(c) ==
  /\ status[c] = "absent" /\ ~disbanded
  /\ status' = [status EXCEPT ![c] = "member"]
  /\ UNCHANGED <<inbox, disbanded>>

Leave(c) ==
  /\ status[c] = "member"
  /\ status' = [status EXCEPT ![c] = "out"]
  /\ UNCHANGED <<inbox, disbanded>>

Deliver(c, msg) ==
  /\ status[c] = "member" /\ inbox[c] = None
  /\ inbox' = [inbox EXCEPT ![c] = msg]
  /\ UNCHANGED <<status, disbanded>>

(* The message has been written, or never will be. *)
Finish(c) ==
  /\ inbox[c] # None
  /\ inbox' = [inbox EXCEPT ![c] = None]
  /\ UNCHANGED <<status, disbanded>>

Disband ==
  /\ ~disbanded /\ disbanded' = TRUE
  /\ status' = [c \in Viewers |-> IF status[c] = "member" THEN "out" ELSE status[c]]
  /\ UNCHANGED inbox

Next ==
  \/ \E c \in Viewers : Join(c) \/ Leave(c) \/ Finish(c) \/ \E msg \in Messages : Deliver(c, msg)
  \/ Disband

Spec == Init /\ [][Next]_vars
=============================================================================
