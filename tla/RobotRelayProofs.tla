-------------------------- MODULE RobotRelayProofs --------------------------
(***************************************************************************)
(* RobotRelay, for any number of gateway and browser connections and any   *)
(* TTL: the invariants of the lease, that the object implements            *)
(* LeaseContract, what the browsers know of the robot through reconnects    *)
(* that displace their own old sockets, and the subscriptions.             *)
(***************************************************************************)
EXTENDS RobotRelay, TLAPS

(* A record without a holder is the deleted one.                           *)
HolderlessIsFree == lease.holder = Nobody => lease.left = 0

IInv ==
    /\ TypeOK
    /\ HolderlessIsFree
    /\ AlarmTracksLease
    /\ HolderIsListed
    /\ ToldLeaseIsTrue

USE RelayAssumption DEF RelayAssumption

-----------------------------------------------------------------------------
(* The handlers' building blocks are well typed. *)

LEMMA ToldTypes ==
    ASSUME TypeOK
    PROVE  /\ \A online \in BOOLEAN : ToldStatus(online) \in
                 [Conns -> [online : BOOLEAN, holder : Conns \cup {Nobody}]]
           /\ \A holder \in Conns \cup {Nobody} : ToldLease(holder) \in
                 [Conns -> [online : BOOLEAN, holder : Conns \cup {Nobody}]]
BY DEF TypeOK, ToldStatus, ToldLease

LEMMA DriverType ==
    ASSUME TypeOK
    PROVE  Driver \in Conns \cup {Nobody}
BY DEF TypeOK, Driver

(* Whatever is broadcast of the lease is what every open browser was last  *)
(* told, and a status leaves what they know of the lease alone.            *)
LEMMA ToldValues ==
    ASSUME TypeOK, NEW c \in Conns, browsers[c] = "open"
    PROVE  /\ \A h : ToldLease(h)[c].holder = h
           /\ \A b : ToldStatus(b)[c].holder = told[c].holder
BY DEF TypeOK, ToldStatus, ToldLease

-----------------------------------------------------------------------------
(* Initially nothing is connected, granted or told. *)
LEMMA InitIInv == Init => IInv
<1> SUFFICES ASSUME Init PROVE IInv
    OBVIOUS
<1> USE DEF Init, NoLease, Untold, SocketState
<1>1. TypeOK
  <2>1. lease \in [holder : Conns \cup {Nobody}, left : 0..LeaseTtl]
    OBVIOUS
  <2>2. told \in [Conns -> [online : BOOLEAN, holder : Conns \cup {Nobody}]]
    OBVIOUS
  <2> QED  BY <2>1, <2>2 DEF TypeOK
<1>2. HolderlessIsFree /\ AlarmTracksLease /\ HolderIsListed
  BY DEF HolderlessIsFree, AlarmTracksLease, HolderIsListed
<1>3. ToldLeaseIsTrue
  BY DEF ToldLeaseIsTrue
<1> QED  BY <1>1, <1>2, <1>3 DEF IInv

(* Every handler, loss of a connection and passing of time keeps the       *)
(* types.                                                                  *)
LEMMA StepTypeOK == TypeOK /\ [Next]_vars => TypeOK'
<1> SUFFICES ASSUME TypeOK, [Next]_vars
             PROVE  TypeOK'
    OBVIOUS
<1> USE ToldTypes, DriverType
<1>1. ASSUME NEW r \in Robots, RobotAccept(r)
      PROVE  TypeOK'
  <2> DEFINE stale == [x \in Robots |->
                          IF robots[x] = "none" THEN "none" ELSE "closing"]
             accepted == [stale EXCEPT ![r] = "open"]
  <2>1. accepted \in [Robots -> SocketState]
    BY DEF TypeOK, SocketState
  <2>2. robots' \in [Robots -> SocketState]
    BY <1>1, <2>1 DEF RobotAccept, SocketState
  <2>3. video' \in BOOLEAN /\ telemetry' \in BOOLEAN
    BY <1>1 DEF RobotAccept
  <2> QED  BY <1>1, <2>2, <2>3 DEF RobotAccept, TypeOK
<1>2. ASSUME NEW r \in Robots, RobotClose(r) \/ RobotDrop(r)
      PROVE  TypeOK'
  BY <1>2 DEF RobotClose, RobotDrop, LateClose, TypeOK, SocketState, gateway
<1>3. ASSUME NEW c \in Conns, BrowserAccept(c)
      PROVE  TypeOK'
  <2>1. PICK outcome \in SendOutcomes(robots) :
          LET subscribe == Listed(browsers) = {}
              threw == subscribe /\ outcome = Threw
          IN  /\ browsers' = [browsers EXCEPT
                                 ![c] = IF threw THEN "lost" ELSE "open"]
              /\ telemetry' = (\/ telemetry
                               \/ subscribe /\ outcome = Delivered)
              /\ told' = IF threw THEN told
                         ELSE [told EXCEPT
                                  ![c] = [online |-> Listed(robots) # {},
                                          holder |-> Driver]]
    BY <1>3 DEF BrowserAccept
  <2>2. told' \in [Conns -> [online : BOOLEAN, holder : Conns \cup {Nobody}]]
    BY <2>1 DEF TypeOK
  <2>3. browsers' \in [Conns -> SocketState] /\ telemetry' \in BOOLEAN
    BY <2>1 DEF TypeOK, SocketState
  <2> QED  BY <1>3, <2>2, <2>3 DEF BrowserAccept, TypeOK
<1>4. ASSUME NEW c \in Conns, BrowserClose(c)
      PROVE  TypeOK'
  <2>1. /\ browsers' \in [Conns -> SocketState]
        /\ lease' \in [holder : Conns \cup {Nobody}, left : 0..LeaseTtl]
        /\ alarm' \in 0..LeaseTtl \cup {NoAlarm}
    BY <1>4 DEF BrowserClose, Release, NoLease, TypeOK, SocketState
  <2>2. told' \in [Conns -> [online : BOOLEAN, holder : Conns \cup {Nobody}]]
    <3>1. ToldLease(Nobody)
             \in [Conns -> [online : BOOLEAN, holder : Conns \cup {Nobody}]]
      BY ToldTypes
    <3>2. Untold \in [online : BOOLEAN, holder : Conns \cup {Nobody}]
      BY DEF Untold
    <3>3. told' \in {[ToldLease(Nobody) EXCEPT ![c] = Untold],
                     [told EXCEPT ![c] = Untold]}
      BY <1>4 DEF BrowserClose
    <3> QED  BY <3>1, <3>2, <3>3 DEF TypeOK
  <2>3. telemetry' \in BOOLEAN
    BY <1>4 DEF BrowserClose, TypeOK
  <2> QED  BY <1>4, <2>1, <2>2, <2>3 DEF BrowserClose, TypeOK
<1>5. ASSUME NEW c \in Conns, BrowserDrop(c) \/ CmdVel(c)
      PROVE  TypeOK'
  BY <1>5 DEF BrowserDrop, CmdVel, TypeOK, SocketState, sockets, gateway
<1>6. ASSUME NEW c \in Conns,
             TakeControl(c) \/ ReleaseControl(c) \/ LeaseHeartbeat(c)
      PROVE  TypeOK'
  <2>1. /\ lease' \in [holder : Conns \cup {Nobody}, left : 0..LeaseTtl]
        /\ alarm' \in 0..LeaseTtl \cup {NoAlarm}
    BY <1>6 DEF TakeControl, ReleaseControl, LeaseHeartbeat, Grant, Release,
                NoLease
  <2>2. told' \in {told, ToldLease(c), ToldLease(Nobody)}
    BY <1>6 DEF TakeControl, ReleaseControl, LeaseHeartbeat
  <2>3. told' \in [Conns -> [online : BOOLEAN, holder : Conns \cup {Nobody}]]
    BY <2>2, ToldTypes DEF TypeOK
  <2>4. UNCHANGED <<sockets, gateway, driven, overlap>>
    BY <1>6 DEF TakeControl, ReleaseControl, LeaseHeartbeat
  <2> QED  BY <2>1, <2>3, <2>4 DEF TypeOK, sockets, gateway
<1>7. ASSUME NEW v \in Viewers,
             ViewerAccept(v) \/ ViewerClose(v) \/ ViewerDrop(v)
      PROVE  TypeOK'
  BY <1>7 DEF ViewerAccept, ViewerClose, ViewerDrop, TypeOK, SocketState,
              gateway
<1>8. CASE AlarmDue
  BY <1>8 DEF AlarmDue, OnAlarm, NoLease, TypeOK, sockets, gateway
<1>9. CASE Elapse
  <2>1. /\ lease.holder \in Conns \cup {Nobody}
        /\ lease.left \in 0..LeaseTtl /\ lease.left > 0
        /\ alarm = NoAlarm \/ alarm \in 0..LeaseTtl
    BY <1>9 DEF Elapse, TypeOK
  <2>2. lease' \in [holder : Conns \cup {Nobody}, left : 0..LeaseTtl]
    <3>1. lease' = [holder |-> lease.holder, left |-> lease.left - 1]
      BY <1>9 DEF Elapse, TypeOK
    <3>2. lease.left - 1 \in 0..LeaseTtl
      BY <2>1
    <3> QED  BY <2>1, <3>1, <3>2
  <2>3. alarm' \in 0..LeaseTtl \cup {NoAlarm}
    <3>1. CASE alarm \in {NoAlarm, 0}
      BY <1>9, <2>1, <3>1 DEF Elapse
    <3>2. CASE alarm \notin {NoAlarm, 0}
      <4>1. alarm \in 0..LeaseTtl /\ alarm' = alarm - 1
        BY <1>9, <2>1, <3>2 DEF Elapse
      <4> QED  BY <3>2, <4>1
    <3> QED  BY <3>1, <3>2
  <2> QED  BY <1>9, <2>2, <2>3 DEF Elapse, TypeOK, sockets, gateway
<1>10. CASE UNCHANGED vars
  BY <1>10 DEF vars, sockets, gateway, TypeOK
<1> QED  BY <1>1, <1>2, <1>3, <1>4, <1>5, <1>6, <1>7, <1>8, <1>9, <1>10
         DEF Next

-----------------------------------------------------------------------------
(* The lease. *)

LEMMA LeaseParts ==
    ASSUME TypeOK, HolderlessIsFree
    PROVE  /\ lease.holder \in Conns \cup {Nobody}
           /\ lease.left \in 0..LeaseTtl
           /\ lease = NoLease <=> lease.holder = Nobody
           /\ lease.left > 0 => Driver = lease.holder
           /\ lease.left = 0 => Driver = Nobody
<1>1. lease = [holder |-> lease.holder, left |-> lease.left]
  BY DEF TypeOK
<1> QED  BY <1>1 DEF TypeOK, HolderlessIsFree, NoLease, Driver

LeaseInv ==
    HolderlessIsFree /\ AlarmTracksLease /\ HolderIsListed /\ ToldLeaseIsTrue

(* Handlers that leave the lease and the browsers' sockets alone, and tell *)
(* browsers nothing of the lease.                                          *)
LEMMA LeaseUntouched ==
    ASSUME IInv, UNCHANGED <<lease, alarm, browsers>>,
           \A c \in Conns :
               browsers[c] = "open" => told'[c].holder = told[c].holder
    PROVE  LeaseInv'
BY DEF IInv, LeaseInv, HolderlessIsFree, AlarmTracksLease, HolderIsListed,
       ToldLeaseIsTrue, Driver

(* The record written by a grant and the one left by a release.            *)
LEMMA Granted ==
    ASSUME NEW c \in Conns, Grant(c)
    PROVE  /\ lease'.holder = c /\ lease'.left = LeaseTtl
           /\ Driver' = c
           /\ HolderlessIsFree' /\ AlarmTracksLease'
<1>1. lease' = [holder |-> c, left |-> LeaseTtl] /\ alarm' = LeaseTtl
  BY DEF Grant
<1>2. lease'.holder = c /\ lease'.left = LeaseTtl
  BY <1>1
<1>3. lease' # NoLease'
  BY <1>2 DEF NoLease
<1> QED  BY <1>1, <1>2, <1>3 DEF Driver, HolderlessIsFree, AlarmTracksLease

LEMMA Released ==
    ASSUME lease' = NoLease, alarm' = NoAlarm
    PROVE  /\ lease'.holder = Nobody
           /\ Driver' = Nobody
           /\ HolderlessIsFree' /\ AlarmTracksLease' /\ HolderIsListed'
BY DEF NoLease, Driver, HolderlessIsFree, AlarmTracksLease, HolderIsListed

LEMMA StepLeaseInv == IInv /\ [Next]_vars => LeaseInv'
<1> SUFFICES ASSUME IInv, [Next]_vars
             PROVE  LeaseInv'
    OBVIOUS
<1> USE DEF IInv
<1>t. TypeOK'
  BY StepTypeOK
<1>p. /\ lease.holder \in Conns \cup {Nobody}
      /\ lease.left \in 0..LeaseTtl
      /\ lease = NoLease <=> lease.holder = Nobody
      /\ lease.left > 0 => Driver = lease.holder
      /\ lease.left = 0 => Driver = Nobody
  BY LeaseParts
<1>1. ASSUME NEW r \in Robots, RobotAccept(r) \/ RobotClose(r) \/ RobotDrop(r)
      PROVE  LeaseInv'
  <2>1. UNCHANGED <<lease, alarm, browsers>>
    BY <1>1 DEF RobotAccept, RobotClose, RobotDrop
  <2>2. told' \in {told, ToldStatus(TRUE), ToldStatus(FALSE)}
    BY <1>1 DEF RobotAccept, RobotClose, RobotDrop
  <2>3. ASSUME NEW c \in Conns, browsers[c] = "open"
        PROVE  told'[c].holder = told[c].holder
    <3>1. \A b : ToldStatus(b)[c].holder = told[c].holder
      BY <2>3, ToldValues
    <3>2. \/ told' = told
          \/ told' = ToldStatus(TRUE)
          \/ told' = ToldStatus(FALSE)
      BY <2>2
    <3> QED  BY <3>1, <3>2
  <2> QED  BY <2>1, <2>3, LeaseUntouched
<1>2. ASSUME NEW c \in Conns, BrowserAccept(c)
      PROVE  LeaseInv'
  <2>1. UNCHANGED <<lease, alarm>> /\ browsers[c] = "none"
    BY <1>2 DEF BrowserAccept
  <2>2. \A d \in Conns \ {c} : browsers'[d] = browsers[d] /\ told'[d] = told[d]
    BY <1>2 DEF BrowserAccept, TypeOK
  <2>3. browsers'[c] = "open" => told'[c].holder = Driver
    BY <1>2 DEF BrowserAccept, TypeOK
  <2>4. HolderlessIsFree' /\ AlarmTracksLease' /\ Driver' = Driver
    BY <2>1 DEF HolderlessIsFree, AlarmTracksLease, Driver
  <2>5. HolderIsListed'
    BY <2>1, <2>2, <1>p DEF HolderIsListed
  <2>6. ToldLeaseIsTrue'
    BY <2>1, <2>2, <2>3, <2>4, <1>p DEF ToldLeaseIsTrue
  <2> QED  BY <2>4, <2>5, <2>6 DEF LeaseInv
<1>3. ASSUME NEW c \in Conns, BrowserClose(c)
      PROVE  LeaseInv'
  <2>1. /\ browsers[c] = "lost" /\ browsers'[c] = "none"
        /\ \A d \in Conns \ {c} : browsers'[d] = browsers[d]
    BY <1>3 DEF BrowserClose, TypeOK
  <2>2. CASE lease.holder = c
    <3>1. lease' = NoLease /\ alarm' = NoAlarm
      BY <1>3, <2>2 DEF BrowserClose, Release
    <3>2. \A d \in Conns \ {c} : told'[d] = ToldLease(Nobody)[d]
      BY <1>3, <2>2 DEF BrowserClose, TypeOK, ToldLease
    <3>3. ToldLeaseIsTrue'
      BY <2>1, <3>1, <3>2, Released, ToldValues DEF ToldLeaseIsTrue
    <3> QED  BY <3>1, <3>3, Released DEF LeaseInv
  <2>3. CASE lease.holder # c
    <3>1. /\ UNCHANGED <<lease, alarm>>
          /\ \A d \in Conns \ {c} : told'[d] = told[d]
      BY <1>3, <2>3 DEF BrowserClose, TypeOK
    <3>2. HolderlessIsFree' /\ AlarmTracksLease' /\ Driver' = Driver
      BY <3>1 DEF HolderlessIsFree, AlarmTracksLease, Driver
    <3>3. HolderIsListed'
      BY <2>1, <2>3, <3>1, <1>p DEF HolderIsListed
    <3>4. ToldLeaseIsTrue'
      BY <2>1, <3>1, <3>2 DEF ToldLeaseIsTrue
    <3> QED  BY <3>2, <3>3, <3>4 DEF LeaseInv
  <2> QED  BY <2>2, <2>3
<1>4. ASSUME NEW c \in Conns, BrowserDrop(c)
      PROVE  LeaseInv'
  <2>1. /\ browsers[c] = "open" /\ browsers'[c] = "lost"
        /\ \A d \in Conns \ {c} : browsers'[d] = browsers[d]
        /\ UNCHANGED <<lease, alarm, told>>
    BY <1>4 DEF BrowserDrop, TypeOK
  <2>2. HolderlessIsFree' /\ AlarmTracksLease' /\ Driver' = Driver
    BY <2>1 DEF HolderlessIsFree, AlarmTracksLease, Driver
  <2>3. HolderIsListed' /\ ToldLeaseIsTrue'
    BY <2>1, <2>2, <1>p DEF HolderIsListed, ToldLeaseIsTrue
  <2> QED  BY <2>2, <2>3 DEF LeaseInv
<1>5. ASSUME NEW c \in Conns, TakeControl(c) \/ LeaseHeartbeat(c)
      PROVE  LeaseInv'
  <2>1. Grant(c) /\ browsers[c] = "open" /\ UNCHANGED browsers
    BY <1>5 DEF TakeControl, LeaseHeartbeat, sockets
  <2>2. HolderIsListed'
    BY <2>1, Granted DEF HolderIsListed
  <2>3. ASSUME NEW d \in Conns, browsers[d] = "open"
        PROVE  told'[d].holder = c
    <3>1. CASE TakeControl(c)
      BY <3>1, <2>3, ToldValues DEF TakeControl
    <3>2. CASE LeaseHeartbeat(c)
      BY <3>2, <2>3, <1>p DEF LeaseHeartbeat, ToldLeaseIsTrue
    <3> QED  BY <1>5, <3>1, <3>2
  <2>4. ToldLeaseIsTrue'
    BY <2>1, <2>3, Granted DEF ToldLeaseIsTrue
  <2> QED  BY <2>1, <2>2, <2>4, Granted DEF LeaseInv
<1>6. ASSUME NEW c \in Conns, ReleaseControl(c)
      PROVE  LeaseInv'
  <2>1. /\ lease' = NoLease /\ alarm' = NoAlarm
        /\ told' = ToldLease(Nobody) /\ UNCHANGED browsers
    BY <1>6 DEF ReleaseControl, Release, sockets
  <2>2. ToldLeaseIsTrue'
    BY <2>1, Released, ToldValues DEF ToldLeaseIsTrue
  <2> QED  BY <2>1, <2>2, Released DEF LeaseInv
<1>7. ASSUME NEW c \in Conns, CmdVel(c)
      PROVE  LeaseInv'
  BY <1>7, LeaseUntouched DEF CmdVel, sockets
<1>8. ASSUME NEW v \in Viewers,
             ViewerAccept(v) \/ ViewerClose(v) \/ ViewerDrop(v)
      PROVE  LeaseInv'
  BY <1>8, LeaseUntouched DEF ViewerAccept, ViewerClose, ViewerDrop
<1>9. CASE AlarmDue
  <2>1. alarm = 0 /\ UNCHANGED browsers
    BY <1>9 DEF AlarmDue, sockets
  <2>2. lease # NoLease /\ lease.left = 0
    BY <2>1, <1>p DEF AlarmTracksLease
  <2>3. lease' = NoLease /\ alarm' = NoAlarm /\ told' = ToldLease(Nobody)
    BY <1>9, <2>2 DEF AlarmDue, OnAlarm
  <2>4. ToldLeaseIsTrue'
    BY <2>1, <2>3, Released, ToldValues DEF ToldLeaseIsTrue
  <2> QED  BY <2>3, <2>4, Released DEF LeaseInv
<1>10. CASE Elapse
  <2>1. /\ lease.left > 0
        /\ lease'.holder = lease.holder /\ lease'.left = lease.left - 1
        /\ UNCHANGED <<browsers, told>>
    BY <1>10 DEF Elapse, TypeOK, sockets
  <2>2. lease.holder # Nobody /\ Driver = lease.holder /\ alarm = lease.left
    BY <2>1, <1>p DEF HolderlessIsFree, AlarmTracksLease
  <2>3. lease' # NoLease'
    BY <2>1, <2>2 DEF NoLease
  <2>4. alarm' = lease'.left
    BY <1>10, <2>1, <2>2, <1>p DEF Elapse
  <2>5. HolderlessIsFree' /\ AlarmTracksLease' /\ HolderIsListed'
    BY <2>1, <2>2, <2>3, <2>4
       DEF HolderlessIsFree, AlarmTracksLease, HolderIsListed
  <2>6. ToldLeaseIsTrue'
    BY <2>1, <2>2 DEF ToldLeaseIsTrue
  <2> QED  BY <2>5, <2>6 DEF LeaseInv
<1>11. CASE UNCHANGED vars
  BY <1>11, LeaseUntouched DEF vars, sockets
<1> QED  BY <1>1, <1>2, <1>3, <1>4, <1>5, <1>6, <1>7, <1>8, <1>9, <1>10, <1>11
         DEF Next

(* IInv is inductive, so it always holds. *)
THEOREM Invariance == Spec => []IInv
<1>1. IInv /\ [Next]_vars => IInv'
  BY StepTypeOK, StepLeaseInv DEF IInv, LeaseInv
<1> QED  BY InitIInv, <1>1, PTL DEF Spec

THEOREM TypeCorrect == Spec => []TypeOK
<1>1. IInv => TypeOK
  BY DEF IInv
<1> QED  BY Invariance, <1>1, PTL

(* A stored lease always has its own alarm (robot-do.ts:296-298, 331-333,  *)
(* 310-318), for any number of browsers and any TTL.                       *)
THEOREM LeaseHasItsAlarm == Spec => []AlarmTracksLease
<1>1. IInv => AlarmTracksLease
  BY DEF IInv
<1> QED  BY Invariance, <1>1, PTL

(* A holder is always a connection the object still has.                   *)
THEOREM HolderConnected == Spec => []HolderIsListed
<1>1. IInv => HolderIsListed
  BY DEF IInv
<1> QED  BY Invariance, <1>1, PTL

(* Every open browser knows who holds the lease.                           *)
THEOREM LeaseIsKnown == Spec => []ToldLeaseIsTrue
<1>1. IInv => ToldLeaseIsTrue
  BY DEF IInv
<1> QED  BY Invariance, <1>1, PTL

-----------------------------------------------------------------------------
(* The object implements the contract: each handler moves Driver and       *)
(* driven as one of the contract's steps, or not at all.                   *)

LEMMA InitRefines == Init => Contract!Init
BY DEF Init, Contract!Init, Driver, NoLease

LEMMA StepRefines ==
    IInv /\ [Next]_vars => [Contract!Next]_<<Driver, driven>>
<1> SUFFICES ASSUME IInv, [Next]_vars
             PROVE  \/ Contract!Next
                    \/ UNCHANGED <<Driver, driven>>
    OBVIOUS
<1> USE DEF IInv, Contract!Next, Contract!Acquire, Contract!Lose,
            Contract!Drive
<1>p. /\ lease.holder \in Conns \cup {Nobody}
      /\ lease.left \in 0..LeaseTtl
      /\ lease = NoLease <=> lease.holder = Nobody
      /\ lease.left > 0 => Driver = lease.holder
      /\ lease.left = 0 => Driver = Nobody
  BY LeaseParts
<1>1. CASE UNCHANGED <<lease, driven>>
  BY <1>1 DEF Driver
<1>2. CASE lease' = NoLease /\ UNCHANGED driven
  <2>1. Driver' = Nobody
    BY <1>2 DEF Driver, NoLease
  <2> QED  BY <1>2, <2>1
<1>3. ASSUME NEW c \in Conns, TakeControl(c) \/ LeaseHeartbeat(c)
      PROVE  Contract!Acquire(c)
  BY <1>3, Granted DEF TakeControl, LeaseHeartbeat
<1>4. ASSUME NEW c \in Conns, CmdVel(c)
      PROVE  Contract!Drive(c)
  BY <1>4 DEF CmdVel, Driver
<1>5. CASE Elapse
  <2>1. /\ lease'.holder = lease.holder /\ lease'.left = lease.left - 1
        /\ lease.left > 0 /\ UNCHANGED driven
    BY <1>5 DEF Elapse, TypeOK
  <2>2. Driver' \in {Driver, Nobody}
    BY <2>1, <1>p DEF Driver
  <2> QED  BY <2>1, <2>2
<1>6. ASSUME NEW c \in Conns, ReleaseControl(c) \/ BrowserClose(c)
      PROVE  UNCHANGED driven /\ (lease' = NoLease \/ UNCHANGED lease)
  BY <1>6 DEF ReleaseControl, BrowserClose, Release
<1>7. ASSUME AlarmDue
      PROVE  UNCHANGED driven /\ (lease' = NoLease \/ UNCHANGED lease)
  BY <1>7 DEF AlarmDue, OnAlarm
<1>8. ASSUME \/ \E r \in Robots :
                   RobotAccept(r) \/ RobotClose(r) \/ RobotDrop(r)
             \/ \E c \in Conns : BrowserAccept(c) \/ BrowserDrop(c)
             \/ \E v \in Viewers :
                   ViewerAccept(v) \/ ViewerClose(v) \/ ViewerDrop(v)
             \/ UNCHANGED vars
      PROVE  UNCHANGED <<lease, driven>>
  BY <1>8 DEF RobotAccept, RobotClose, RobotDrop, BrowserAccept, BrowserDrop,
              ViewerAccept, ViewerClose, ViewerDrop, vars
<1> QED  BY <1>1, <1>2, <1>3, <1>4, <1>5, <1>6, <1>7, <1>8 DEF Next

(* The drive lease is exclusive, for any number of connections and any     *)
(* TTL (relay-protocol.md:87-123).                                         *)
THEOREM RelayImplementsLease == Spec => LeaseIsExclusive
<1> QED  BY Invariance, InitRefines, StepRefines, PTL
         DEF Spec, LeaseIsExclusive, Contract!Spec

-----------------------------------------------------------------------------
(* Status and subscriptions.  A connection of the gateway that found no    *)
(* older one listed is the only one listed, and none is closed by the      *)
(* object, so a send goes to the live one.                                 *)

OneRobot ==
    overlap = "none" =>
        /\ \A r, s \in Robots :
              robots[r] # "none" /\ robots[s] # "none" => r = s
        /\ \A r \in Robots : robots[r] # "closing"

WatchInv == TypeOK /\ OneRobot /\ StatusUntilLateClose /\ SubscriptionsAgree

LEMMA SendsToLive ==
    ASSUME TypeOK, OneRobot, overlap = "none",
           NEW r \in Robots, robots[r] = "open"
    PROVE  SendOutcomes(robots) = {Delivered}
<1>1. Listed(robots) = {r}
  BY DEF OneRobot, Listed, TypeOK
<1> QED  BY <1>1 DEF SendOutcomes

LEMMA InitWatchInv == Init => WatchInv
<1> SUFFICES ASSUME Init PROVE WatchInv
    OBVIOUS
<1>1. OneRobot /\ SubscriptionsAgree /\ StatusUntilLateClose
  BY DEF Init, OneRobot, SubscriptionsAgree, StatusUntilLateClose
<1> QED  BY <1>1, InitIInv DEF IInv, WatchInv

LEMMA StepWatchInv ==
    ASSUME WatchInv, [Next]_vars
    PROVE  WatchInv'
<1> USE DEF WatchInv
<1>t. TypeOK'
  BY StepTypeOK
<1>s. overlap = "none" =>
         \A r \in Robots :
            robots[r] = "open" => SendOutcomes(robots) = {Delivered}
  BY SendsToLive
<1>1. ASSUME NEW r \in Robots, RobotAccept(r)
      PROVE  WatchInv'
  <2> DEFINE stale == [x \in Robots |->
                          IF robots[x] = "none" THEN "none" ELSE "closing"]
             accepted == [stale EXCEPT ![r] = "open"]
  <2>1. UNCHANGED <<browsers, viewers>> /\ told' = ToldStatus(TRUE)
    BY <1>1 DEF RobotAccept
  <2>2. Listed(robots') # {}
    <3>1. robots' \in {accepted, [accepted EXCEPT ![r] = "lost"]}
      BY <1>1 DEF RobotAccept
    <3>2. r \in DOMAIN robots' /\ robots'[r] # "none"
      BY <3>1
    <3> QED  BY <3>2 DEF Listed
  <2>3. \A c \in Conns : browsers[c] = "open" => told'[c].online
    BY <2>1 DEF ToldStatus, TypeOK
  <2>4. StatusUntilLateClose'
    BY <2>1, <2>2, <2>3 DEF StatusUntilLateClose
  <2>5. CASE Listed(robots) = {}
    <3>1. \A x \in Robots : robots[x] = "none"
      BY <2>5 DEF Listed, TypeOK
    <3>2. accepted = [x \in Robots |-> IF x = r THEN "open" ELSE "none"]
      BY <3>1
    <3>3. SendOutcomes(accepted) = {Delivered}
      <4> HIDE DEF accepted
      <4>1. Listed(accepted) = {r} /\ accepted[r] = "open"
        BY <3>2 DEF Listed
      <4> QED  BY <4>1 DEF SendOutcomes
    <3>4. /\ robots' = accepted
          /\ telemetry' = (Listed(browsers) # {})
          /\ video' = (Listed(viewers) # {})
      BY <1>1, <3>3 DEF RobotAccept, Delivered, Threw
    <3>5. OneRobot'
      BY <3>2, <3>4 DEF OneRobot
    <3>6. SubscriptionsAgree'
      BY <2>1, <3>4 DEF SubscriptionsAgree, Listed
    <3> QED  BY <1>t, <2>4, <3>5, <3>6
  <2>6. CASE Listed(robots) # {}
    <3>1. overlap' = "closing"
      BY <1>1, <2>6 DEF RobotAccept
    <3>2. OneRobot' /\ SubscriptionsAgree'
      BY <3>1 DEF OneRobot, SubscriptionsAgree
    <3> QED  BY <1>t, <2>4, <3>2
  <2> QED  BY <2>5, <2>6
<1>2. ASSUME NEW r \in Robots, RobotClose(r)
      PROVE  WatchInv'
  <2>1. /\ robots[r] \in {"lost", "closing"} /\ robots'[r] = "none"
        /\ \A x \in Robots \ {r} : robots'[x] = robots[x]
        /\ UNCHANGED <<browsers, viewers, telemetry, video>>
        /\ told' = ToldStatus(FALSE)
        /\ overlap' = LateClose
    BY <1>2 DEF RobotClose, TypeOK, gateway
  <2>2. ASSUME NEW x \in Robots, robots'[x] = "open"
        PROVE  overlap' = "closed"
    <3>1. robots[x] = "open"
      BY <2>1, <2>2
    <3> QED  BY <2>1, <3>1 DEF LateClose
  <2>3. overlap' = "none" => overlap = "none"
    BY <2>1 DEF LateClose
  <2>4. OneRobot' /\ SubscriptionsAgree'
    BY <2>1, <2>2, <2>3 DEF OneRobot, SubscriptionsAgree
  <2>5. \A c \in Conns : browsers[c] = "open" => ~told'[c].online
    BY <2>1 DEF ToldStatus, TypeOK
  <2>6. StatusUntilLateClose'
    BY <2>1, <2>2, <2>5 DEF StatusUntilLateClose
  <2> QED  BY <1>t, <2>4, <2>6
<1>3. ASSUME NEW r \in Robots, RobotDrop(r)
      PROVE  WatchInv'
  <2>1. /\ robots[r] = "open" /\ robots'[r] = "lost"
        /\ \A x \in Robots \ {r} : robots'[x] = robots[x]
        /\ UNCHANGED <<browsers, viewers, told, telemetry, video, overlap>>
    BY <1>3 DEF RobotDrop, TypeOK, gateway
  <2>2. Listed(robots') # {}
    <3>1. r \in DOMAIN robots'
      BY <1>t DEF TypeOK
    <3> QED  BY <2>1, <3>1 DEF Listed
  <2>3. OneRobot' /\ SubscriptionsAgree' /\ StatusUntilLateClose'
    BY <2>1, <2>2 DEF OneRobot, SubscriptionsAgree, StatusUntilLateClose
  <2> QED  BY <1>t, <2>3
<1>4. ASSUME NEW c \in Conns, BrowserAccept(c)
      PROVE  WatchInv'
  <2>1. UNCHANGED <<robots, viewers, video, overlap>>
    BY <1>4 DEF BrowserAccept
  <2>2. Listed(browsers') # {}
    <3>1. c \in DOMAIN browsers' /\ browsers'[c] # "none"
      BY <1>4 DEF BrowserAccept, TypeOK
    <3> QED  BY <3>1 DEF Listed
  <2>3. ASSUME overlap = "none", NEW r \in Robots, robots[r] = "open"
        PROVE  telemetry'
    BY <1>4, <2>3, <1>s DEF BrowserAccept, SubscriptionsAgree
  <2>4. \A d \in Conns \ {c} : browsers'[d] = browsers[d] /\ told'[d] = told[d]
    BY <1>4 DEF BrowserAccept, TypeOK
  <2>5. browsers'[c] = "open" => told'[c].online = (Listed(robots) # {})
    BY <1>4 DEF BrowserAccept, TypeOK
  <2>6. (\E r \in Robots : robots[r] = "open") => Listed(robots) # {}
    BY DEF Listed, TypeOK
  <2>7. StatusUntilLateClose'
    BY <2>1, <2>4, <2>5, <2>6 DEF StatusUntilLateClose
  <2>8. SubscriptionsAgree' /\ OneRobot'
    BY <2>1, <2>2, <2>3 DEF SubscriptionsAgree, OneRobot
  <2> QED  BY <1>t, <2>7, <2>8
<1>5. ASSUME NEW c \in Conns, BrowserClose(c)
      PROVE  WatchInv'
  <2>1. UNCHANGED <<robots, viewers, video, overlap>>
    BY <1>5 DEF BrowserClose
  <2>2. \A d \in Conns : browsers'[d] = "open" =>
            browsers[d] = "open" /\ told'[d].online = told[d].online
    <3>1. \A d \in Conns : ToldLease(Nobody)[d].online = told[d].online
      BY DEF ToldLease, TypeOK
    <3>2. \A d \in Conns \ {c} : told'[d] \in {told[d], ToldLease(Nobody)[d]}
      BY <1>5 DEF BrowserClose, TypeOK, ToldLease
    <3>3. /\ browsers'[c] = "none"
          /\ \A d \in Conns \ {c} : browsers'[d] = browsers[d]
      BY <1>5 DEF BrowserClose, TypeOK
    <3> QED  BY <3>1, <3>2, <3>3
  <2>3. ASSUME overlap = "none", NEW r \in Robots, robots[r] = "open"
        PROVE  telemetry' <=> Listed(browsers') # {}
    <3>1. c \in Listed(browsers)
      BY <1>5 DEF BrowserClose, Listed, TypeOK
    <3>2. telemetry
      BY <2>3, <3>1 DEF SubscriptionsAgree
    <3>3. StillAttached(browsers, c) = Listed(browsers')
      BY <1>5 DEF BrowserClose, StillAttached, Listed, TypeOK
    <3> QED  BY <1>5, <2>3, <3>2, <3>3, <1>s DEF BrowserClose
  <2>4. StatusUntilLateClose'
    BY <2>1, <2>2 DEF StatusUntilLateClose
  <2>5. SubscriptionsAgree' /\ OneRobot'
    BY <2>1, <2>3 DEF SubscriptionsAgree, OneRobot
  <2> QED  BY <1>t, <2>4, <2>5
<1>6. ASSUME NEW v \in Viewers, ViewerAccept(v) \/ ViewerClose(v)
      PROVE  WatchInv'
  <2>1. UNCHANGED <<robots, browsers, told, telemetry, overlap>>
    BY <1>6 DEF ViewerAccept, ViewerClose
  <2>2. ASSUME overlap = "none", NEW r \in Robots, robots[r] = "open"
        PROVE  video' <=> Listed(viewers') # {}
    <3>1. CASE ViewerAccept(v)
      <4>1. v \in DOMAIN viewers' /\ viewers'[v] # "none"
        BY <3>1 DEF ViewerAccept, TypeOK
      <4>2. Listed(viewers') # {}
        BY <4>1 DEF Listed
      <4> QED  BY <2>2, <3>1, <4>2, <1>s DEF ViewerAccept, SubscriptionsAgree
    <3>2. CASE ViewerClose(v)
      <4>1. v \in Listed(viewers)
        BY <3>2 DEF ViewerClose, Listed, TypeOK
      <4>2. video
        BY <2>2, <4>1 DEF SubscriptionsAgree
      <4>3. StillAttached(viewers, v) = Listed(viewers')
        BY <3>2 DEF ViewerClose, StillAttached, Listed, TypeOK
      <4> QED  BY <2>2, <3>2, <4>2, <4>3, <1>s DEF ViewerClose
    <3> QED  BY <1>6, <3>1, <3>2
  <2>3. StatusUntilLateClose' /\ OneRobot' /\ SubscriptionsAgree'
    BY <2>1, <2>2 DEF StatusUntilLateClose, OneRobot, SubscriptionsAgree
  <2> QED  BY <1>t, <2>3
<1>7. ASSUME NEW v \in Viewers, ViewerDrop(v)
      PROVE  WatchInv'
  <2>1. UNCHANGED <<robots, browsers, told, telemetry, video, overlap>>
    BY <1>7 DEF ViewerDrop, gateway
  <2>2. Listed(viewers') = Listed(viewers)
    BY <1>7 DEF ViewerDrop, Listed, TypeOK
  <2>3. StatusUntilLateClose' /\ OneRobot' /\ SubscriptionsAgree'
    BY <2>1, <2>2 DEF StatusUntilLateClose, OneRobot, SubscriptionsAgree
  <2> QED  BY <1>t, <2>3
<1>8. ASSUME NEW c \in Conns, BrowserDrop(c)
      PROVE  WatchInv'
  <2>1. UNCHANGED <<robots, viewers, told, telemetry, video, overlap>>
    BY <1>8 DEF BrowserDrop, gateway
  <2>2. /\ Listed(browsers') = Listed(browsers)
        /\ \A d \in Conns : browsers'[d] = "open" => browsers[d] = "open"
    BY <1>8 DEF BrowserDrop, Listed, TypeOK
  <2>3. StatusUntilLateClose' /\ OneRobot' /\ SubscriptionsAgree'
    BY <2>1, <2>2 DEF StatusUntilLateClose, OneRobot, SubscriptionsAgree
  <2> QED  BY <1>t, <2>3
<1>9. ASSUME /\ UNCHANGED <<sockets, gateway, overlap>>
             /\ \A d \in Conns : browsers[d] = "open" =>
                    told'[d].online = told[d].online
      PROVE  WatchInv'
  <2>1. StatusUntilLateClose' /\ OneRobot' /\ SubscriptionsAgree'
    BY <1>9 DEF StatusUntilLateClose, OneRobot, SubscriptionsAgree, sockets, gateway
  <2> QED  BY <1>t, <2>1
<1>10. ASSUME \/ \E c \in Conns :
                    \/ TakeControl(c) \/ ReleaseControl(c)
                    \/ LeaseHeartbeat(c) \/ CmdVel(c)
              \/ AlarmDue \/ Elapse \/ UNCHANGED vars
       PROVE  WatchInv'
  <2>1. UNCHANGED <<sockets, gateway, overlap>>
    BY <1>10 DEF TakeControl, ReleaseControl, LeaseHeartbeat, CmdVel,
                 AlarmDue, Elapse, vars, sockets, gateway
  <2>2. \A h : \A d \in Conns : ToldLease(h)[d].online = told[d].online
    BY DEF ToldLease, TypeOK
  <2>3. \A d \in Conns : told'[d].online = told[d].online
    <3>1. CASE \E c \in Conns : TakeControl(c)
      BY <2>2, <3>1 DEF TakeControl
    <3>2. CASE \E c \in Conns : ReleaseControl(c)
      BY <2>2, <3>2 DEF ReleaseControl
    <3>3. CASE AlarmDue
      BY <2>2, <3>3 DEF AlarmDue, OnAlarm
    <3>4. CASE \/ \E c \in Conns : LeaseHeartbeat(c) \/ CmdVel(c)
               \/ Elapse \/ UNCHANGED vars
      BY <3>4 DEF LeaseHeartbeat, CmdVel, Elapse, vars
    <3> QED  BY <1>10, <3>1, <3>2, <3>3, <3>4
  <2> QED  BY <2>1, <2>3, <1>9
<1> QED  BY <1>1, <1>2, <1>3, <1>4, <1>5, <1>6, <1>7, <1>8, <1>10 DEF Next

LEMMA WatchInvariance == Spec => []WatchInv
<1>1. WatchInv /\ [Next]_vars => WatchInv'
  BY StepWatchInv
<1> QED  BY InitWatchInv, <1>1, PTL DEF Spec

(* However often the gateway reconnects over its own old socket, every     *)
(* browser takes the robot for online while it is connected, until a       *)
(* displaced socket's close event is handled late; and for offline once no *)
(* socket of it is left (robot-do.ts:95-112, 212-218).                     *)
THEOREM WatchersAreServed == Spec => []StatusUntilLateClose
<1>1. WatchInv => StatusUntilLateClose
  BY DEF WatchInv
<1> QED  BY WatchInvariance, <1>1, PTL

(* The gateway streams exactly what somebody watches, for any number of    *)
(* browsers and viewers and through reconnects, over a connection that     *)
(* found no older one listed; those made over an older one may come in     *)
(* between (robot-do.ts:114-129, 220-239).                                 *)
THEOREM StreamsAreWatched == Spec => []SubscriptionsAgree
<1>1. WatchInv => SubscriptionsAgree
  BY DEF WatchInv
<1> QED  BY WatchInvariance, <1>1, PTL

=============================================================================
