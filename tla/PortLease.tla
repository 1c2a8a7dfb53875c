----------------------------- MODULE PortLease ------------------------------
(***************************************************************************)
(* What the services promise each other about UDP ports, and nothing of    *)
(* how they keep it: a port is leased to at most one owner at a time, an   *)
(* owner uses only a port that is leased to it, and a lease in use ends    *)
(* together with its use.  The lessor may lose leases; from then on the    *)
(* promise is off for their ports, and only for theirs.                    *)
(*                                                                         *)
(* Two modules implement it.  In Streams, which is the WebRTC server, the  *)
(* owners are streams, the leases are their sockets and a port is in use   *)
(* when the map of streams says so.  In Ingest the owners are sessions,    *)
(* the leases are the streams the server hosts for them and a port is in   *)
(* use when the session's state holds it.                                  *)
(***************************************************************************)
CONSTANTS Owners, Ports,
          None    \* neither an owner nor a port

VARIABLES
  lease,   \* lease[p]: the owner of port p
  inUse,   \* inUse[o]: the port that owner o uses
  lapsed   \* the ports for which nothing is promised any more

vars == <<lease, inUse, lapsed>>

TypeOK ==
  /\ lease \in [Ports -> Owners \cup {None}]
  /\ inUse \in [Owners -> Ports \cup {None}]
  /\ lapsed \subseteq Ports

Init ==
  /\ lease = [p \in Ports |-> None]
  /\ inUse = [o \in Owners |-> None]
  /\ lapsed = {}

Grant(o, p) ==
  /\ lease[p] = None
  /\ lease' = [lease EXCEPT ![p] = o]
  /\ UNCHANGED <<inUse, lapsed>>

Use(o, p) ==
  /\ lease[p] = o /\ inUse[o] = None
  /\ inUse' = [inUse EXCEPT ![o] = p]
  /\ UNCHANGED <<lease, lapsed>>

(* The port is free again, and its owner does not use it any more. *)
Return(o, p) ==
  /\ lease[p] = o /\ inUse[o] \in {p, None}
  /\ lease' = [lease EXCEPT ![p] = None]
  /\ inUse' = [inUse EXCEPT ![o] = None]
  /\ UNCHANGED lapsed

(* Owners, any number of them, go without returning their ports. *)
Abandon ==
  /\ UNCHANGED <<lease, lapsed>>
  /\ inUse' \in [Owners -> Ports \cup {None}]
  /\ \A o \in Owners : inUse'[o] \in {inUse[o], None}

(***************************************************************************)
(* The lessor loses leases, or what has been promised for lapsed ports is  *)
(* not kept.  Every other lease stays, and nobody begins to use another    *)
(* port.                                                                   *)
(***************************************************************************)
Lapse ==
  /\ lapsed \subseteq lapsed' /\ lapsed' \subseteq Ports
  /\ lease' \in [Ports -> Owners \cup {None}]
  /\ \A p \in Ports \ lapsed' : lease'[p] = lease[p]
  /\ inUse' \in [Owners -> Ports \cup {None}]
  /\ \A o \in Owners : inUse'[o] \in {inUse[o], None} \cup lapsed'

Next ==
  \/ Abandon \/ Lapse
  \/ \E o \in Owners, p \in Ports : Grant(o, p) \/ Use(o, p) \/ Return(o, p)

Spec == Init /\ [][Next]_vars
-----------------------------------------------------------------------------
(* What the promise amounts to. *)
UsersHoldLeases ==
  \A o \in Owners : inUse[o] \in Ports \ lapsed => lease[inUse[o]] = o
=============================================================================
