-------------------------- MODULE PortLeaseProofs ---------------------------
(***************************************************************************)
(* What PortLease promises follows from its actions: the proof holds for   *)
(* every set of owners and ports, and through ImplementsPortLease for the  *)
(* streams of Streams and the sessions of Ingest.                          *)
(***************************************************************************)
EXTENDS PortLease, TLAPS

IInv == TypeOK /\ UsersHoldLeases

(* Nothing is leased and nothing used. *)
LEMMA InitHolds == None \notin Ports /\ Init => IInv
BY DEF Init, IInv, TypeOK, UsersHoldLeases

(* A granted port was free, and a free one has no user. *)
LEMMA GrantHolds ==
  ASSUME None \notin Owners, IInv, NEW o \in Owners, NEW p \in Ports, Grant(o, p)
  PROVE  IInv'
<1>1. TypeOK'
  BY DEF IInv, TypeOK, Grant
<1>2. ASSUME NEW q \in Owners, inUse'[q] \in Ports \ lapsed' PROVE lease'[inUse'[q]] = q
  <2>1. inUse[q] \in Ports /\ lease[inUse[q]] = q
    BY <1>2 DEF IInv, TypeOK, UsersHoldLeases, Grant
  \* A port that is granted is free, so nobody uses it.
  <2>2. inUse[q] # p
    BY <2>1 DEF Grant
  <2> QED
    BY <2>1, <2>2 DEF IInv, TypeOK, Grant
<1> QED
  BY <1>1, <1>2 DEF IInv, UsersHoldLeases

(* An owner begins to use what is leased to it. *)
LEMMA UseHolds ==
  ASSUME IInv, NEW o \in Owners, NEW p \in Ports, Use(o, p)
  PROVE  IInv'
<1>1. TypeOK'
  BY DEF IInv, TypeOK, Use
<1>2. ASSUME NEW q \in Owners, inUse'[q] \in Ports \ lapsed' PROVE lease'[inUse'[q]] = q
  <2>1. CASE q = o
    BY <2>1 DEF IInv, TypeOK, Use
  <2>2. CASE q # o
    BY <1>2, <2>2 DEF IInv, TypeOK, UsersHoldLeases, Use
  <2> QED
    BY <2>1, <2>2
<1> QED
  BY <1>1, <1>2 DEF IInv, UsersHoldLeases

(* A lease that ends takes its use with it. *)
LEMMA ReturnHolds ==
  ASSUME None \notin Ports, IInv, NEW o \in Owners, NEW p \in Ports, Return(o, p)
  PROVE  IInv'
<1>1. TypeOK'
  BY DEF IInv, TypeOK, Return
<1>2. ASSUME NEW q \in Owners, inUse'[q] \in Ports \ lapsed' PROVE lease'[inUse'[q]] = q
  <2>1. q # o /\ inUse'[q] = inUse[q]
    BY <1>2 DEF IInv, TypeOK, Return
  <2>2. inUse[q] \in Ports /\ lease[inUse[q]] = q
    BY <1>2, <2>1 DEF IInv, TypeOK, UsersHoldLeases, Return
  \* Whoever else uses a port holds another lease.
  <2>3. inUse[q] # p
    BY <2>1, <2>2 DEF Return
  <2> QED
    BY <2>1, <2>2, <2>3 DEF IInv, TypeOK, Return
<1> QED
  BY <1>1, <1>2 DEF IInv, UsersHoldLeases

(***************************************************************************)
(* Owners that go use nothing any more, and where leases lapse the others  *)
(* and their users stay as they are.                                       *)
(***************************************************************************)
LEMMA LosingHolds ==
  ASSUME None \notin Ports, IInv, Abandon \/ Lapse
  PROVE  IInv'
<1>1. TypeOK'
  BY DEF IInv, TypeOK, Abandon, Lapse
<1>2. ASSUME NEW q \in Owners, inUse'[q] \in Ports \ lapsed' PROVE lease'[inUse'[q]] = q
  <2>1. inUse'[q] = inUse[q] /\ inUse[q] \in Ports \ lapsed
    BY <1>2 DEF Abandon, Lapse
  <2>2. lease'[inUse[q]] = lease[inUse[q]]
    BY <1>2, <2>1 DEF Abandon, Lapse
  <2> QED
    BY <2>1, <2>2 DEF IInv, UsersHoldLeases
<1> QED
  BY <1>1, <1>2 DEF IInv, UsersHoldLeases

(* Every step keeps the invariant. *)
LEMMA StepHolds ==
  ASSUME None \notin Owners \cup Ports
  PROVE  IInv /\ [Next]_vars => IInv'
<1> SUFFICES ASSUME IInv, [Next]_vars PROVE IInv'
  OBVIOUS
<1>1. CASE UNCHANGED vars
  BY <1>1 DEF vars, IInv, TypeOK, UsersHoldLeases
<1> QED
  BY <1>1, LosingHolds, GrantHolds, UseHolds, ReturnHolds DEF Next

(***************************************************************************)
(* Whoever uses a port whose leases have not lapsed has it on lease, so no *)
(* two owners use the same such port (mod.rs:94-104, server.go:236-257).   *)
(***************************************************************************)
THEOREM LeaseUsersHoldLeases ==
  ASSUME None \notin Owners \cup Ports
  PROVE  Spec => []UsersHoldLeases
<1>1. IInv => UsersHoldLeases
  BY DEF IInv
<1>2. Init => IInv
  BY InitHolds
<1> QED
  BY <1>2, StepHolds, <1>1, PTL DEF Spec
=============================================================================
