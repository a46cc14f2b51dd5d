------------------------ MODULE TeleopPublisherProofs ------------------------
(***************************************************************************)
(* TeleopPublisher, for every set of commands and every timeout: how the   *)
(* stream of /cmd_vel_teleop messages ends, at any interleaving of the two *)
(* threads.                                                                *)
(***************************************************************************)
EXTENDS TeleopPublisher, TLAPS

(* A tick that got past the tripped check did so on an armed deadman, and  *)
(* only a racing drop can have tripped it since.                           *)
TickInv ==
    /\ spin \in {"lastUpdate", "linear", "angular"} /\ ~raced => ~tripped
    /\ spin \in {"linear", "angular"} => lastUpdate # Never
    /\ spin \in {"lastUpdate", "linear", "tripLinear", "tripAngular", "trip"}
          => got = Zero
    /\ spin \in {"everActive", "notTripped"} /\ got # Zero
          => lastUpdate # Never /\ (~raced => ~tripped)
    /\ spin = "publish" /\ ~active /\ ~raced => got = Zero

(* What is remembered of the last message when the publisher is inactive.  *)
SentInv == ~wasActive /\ sent # NoMessage /\ ~sentRaced => sent = Zero

(* After a drop the deadman stays tripped until a command arrives, so a    *)
(* tick that starts after it reads zero and goes inactive.                 *)
DropInv ==
    /\ net \in {"angular", "lastUpdate", "rearm"} => afterDrop = -1
    /\ afterDrop >= 0 => tripped
    /\ afterDrop >= 1 =>
          /\ spin \in {"idle", "everActive", "notTripped", "publish"}
          /\ spin # "idle" => got = Zero
          /\ spin = "publish" => ~active
    /\ afterDrop = 2 => ~wasActive /\ sent = Zero
    /\ afterDrop <= 2

IInv == TypeOK /\ TickInv /\ SentInv /\ DropInv

LEMMA VelocityTypes ==
    /\ Zero \in Message
    /\ \A c \in Cmds : c.linear \in Velocity /\ c.angular \in Velocity
BY DEF Zero, Message, Velocity

LEMMA InitIInv == Init => IInv
<1> SUFFICES ASSUME Init PROVE IInv
  OBVIOUS
<1> USE DEF Init
<1>1. TypeOK
  <2>1. 0 \in Velocity /\ Zero \in Message
    BY VelocityTypes DEF Velocity
  <2>2. -1 \in -1..AfterDropCap
    BY DEF AfterDropCap
  <2> QED BY <2>1, <2>2 DEF TypeOK, SpinAt, NetAt
<1>2. TickInv
  BY DEF TickInv
<1>3. SentInv
  BY DEF SentInv
<1>4. DropInv
  BY DEF DropInv
<1> QED BY <1>1, <1>2, <1>3, <1>4 DEF IInv

LEMMA StepIInv == IInv /\ [Next]_vars => IInv'
<1> SUFFICES ASSUME IInv, [Next]_vars PROVE IInv'
  OBVIOUS
<1> USE TeleopAssumption, VelocityTypes
    DEF TeleopAssumption, IInv, spinVars, netVars, deadman
<1>1. CASE CommandTripped
  <2>1. TypeOK'
    BY <1>1 DEF CommandTripped, TypeOK, SpinAt
  <2>2. TickInv' /\ SentInv'
    BY <1>1 DEF CommandTripped, TickInv, SentInv, TypeOK
  <2>3. DropInv'
    BY <1>1 DEF CommandTripped, DropInv, TypeOK
  <2> QED BY <2>1, <2>2, <2>3
<1>2. CASE CommandStale
  <2>1. TypeOK'
    BY <1>2 DEF CommandStale, TypeOK, SpinAt
  <2>2. TickInv' /\ SentInv'
    BY <1>2 DEF CommandStale, TickInv, SentInv, TypeOK
  <2>3. DropInv'
    BY <1>2 DEF CommandStale, DropInv, TypeOK
  <2> QED BY <2>1, <2>2, <2>3
<1>3. CASE SpinTrip
  <2>1. TypeOK'
    BY <1>3 DEF SpinTrip, TypeOK, SpinAt, Velocity
  <2>2. TickInv' /\ SentInv'
    BY <1>3 DEF SpinTrip, TickInv, SentInv, TypeOK
  <2>3. DropInv'
    BY <1>3 DEF SpinTrip, DropInv, TypeOK
  <2> QED BY <2>1, <2>2, <2>3
<1>4. CASE CommandFresh
  <2>1. TypeOK'
    BY <1>4 DEF CommandFresh, TypeOK, SpinAt, Message
  <2>2. TickInv' /\ SentInv'
    BY <1>4 DEF CommandFresh, TickInv, SentInv, TypeOK
  <2>3. DropInv'
    BY <1>4 DEF CommandFresh, DropInv, TypeOK
  <2> QED BY <2>1, <2>2, <2>3
<1>5. CASE IsActive
  <2>1. TypeOK'
    BY <1>5 DEF IsActive, TypeOK, SpinAt
  <2>2. TickInv' /\ SentInv'
    BY <1>5 DEF IsActive, TickInv, SentInv, TypeOK
  <2>3. tripped => ~active'
    BY <1>5, Zenon DEF IsActive
  <2>4. DropInv'
    BY <1>5, <2>3 DEF IsActive, DropInv, TypeOK
  <2> QED BY <2>1, <2>2, <2>4
<1>6. CASE StaySilent
  <2>1. TypeOK'
    BY <1>6 DEF StaySilent, TypeOK, SpinAt
  <2>2. TickInv' /\ SentInv' /\ DropInv'
    BY <1>6 DEF StaySilent, TickInv, SentInv, DropInv, TypeOK
  <2> QED BY <2>1, <2>2
<1>7. CASE Publish
  <2>1. TypeOK'
    BY <1>7 DEF Publish, TypeOK, SpinAt, AfterDropCap
  <2>2. TickInv' /\ SentInv'
    BY <1>7 DEF Publish, TickInv, SentInv, TypeOK
  <2>3. DropInv'
    BY <1>7 DEF Publish, DropInv, TypeOK, AfterDropCap
  <2> QED BY <2>1, <2>2, <2>3
<1>8. ASSUME NEW cmd \in Cmds, OnCommand(cmd) PROVE IInv'
  <2>1. TypeOK'
    BY <1>8 DEF OnCommand, TypeOK, NetAt, AfterDropCap
  <2>2. TickInv' /\ SentInv' /\ DropInv'
    BY <1>8 DEF OnCommand, TickInv, SentInv, DropInv, TypeOK
  <2> QED BY <2>1, <2>2
<1>9. CASE OnCommandRest
  <2>1. netCmd.angular \in Velocity
    BY DEF TypeOK, Velocity, Zero
  <2>2. TypeOK'
    <3>1. CASE net = "angular"
      BY <1>9, <2>1, <3>1 DEF OnCommandRest, TypeOK, NetAt
    <3>2. CASE net = "lastUpdate"
      BY <1>9, <3>2 DEF OnCommandRest, TypeOK, NetAt
    <3>3. CASE net = "rearm"
      BY <1>9, <3>3 DEF OnCommandRest, TypeOK, NetAt
    <3> QED BY <1>9, <3>1, <3>2, <3>3 DEF OnCommandRest
  <2>3. TickInv' /\ SentInv' /\ DropInv'
    BY <1>9 DEF OnCommandRest, TickInv, SentInv, DropInv, TypeOK
  <2> QED BY <2>2, <2>3
<1>10. CASE OnDisconnect
  <2>1. TypeOK'
    BY <1>10 DEF OnDisconnect, TypeOK, NetAt, Velocity
  <2>2. TickInv' /\ SentInv' /\ DropInv'
    BY <1>10 DEF OnDisconnect, TickInv, SentInv, DropInv, TypeOK
  <2> QED BY <2>1, <2>2
<1>11. CASE OnDisconnectRest
  <2>1. CASE net = "tripAngular"
    <3>1. TypeOK'
      BY <1>11, <2>1 DEF OnDisconnectRest, TypeOK, NetAt, Velocity
    <3>2. TickInv' /\ SentInv' /\ DropInv'
      BY <1>11, <2>1 DEF OnDisconnectRest, TickInv, SentInv, DropInv, TypeOK
    <3> QED BY <3>1, <3>2
  <2>2. CASE net = "trip"
    <3>1. /\ net' = "idle" /\ tripped' = TRUE /\ afterDrop' = 0
          /\ UNCHANGED <<linear, angular, lastUpdate, spinVars, netCmd>>
      BY <1>11, <2>2 DEF OnDisconnectRest
    <3>2. raced' \in BOOLEAN /\ (spin # "idle" => raced')
      BY <1>11, <2>2, Zenon DEF OnDisconnectRest
    <3>3. TypeOK'
      BY <3>1, <3>2 DEF TypeOK, NetAt, AfterDropCap
    <3>4. TickInv' /\ SentInv' /\ DropInv'
      BY <3>1, <3>2 DEF TickInv, SentInv, DropInv, TypeOK
    <3> QED BY <3>3, <3>4
  <2> QED BY <1>11, <2>1, <2>2 DEF OnDisconnectRest
<1>12. CASE Elapse
  <2>1. TypeOK'
    BY <1>12 DEF Elapse, TypeOK
  <2>2. TickInv' /\ SentInv' /\ DropInv'
    BY <1>12 DEF Elapse, TickInv, SentInv, DropInv, TypeOK
  <2> QED BY <2>1, <2>2
<1>13. CASE UNCHANGED vars
  BY <1>13 DEF vars, TypeOK, TickInv, SentInv, DropInv
<1> QED
  BY <1>1, <1>2, <1>3, <1>4, <1>5, <1>6, <1>7, <1>8, <1>9, <1>10, <1>11,
     <1>12, <1>13 DEF Next, SpinThread, NetThread

(* The invariant holds of every reachable state.                           *)
THEOREM Invariance == Spec => []IInv
BY InitIInv, StepIInv, PTL DEF Spec

(* Every velocity held or published, at any point of either thread, is one *)
(* the operator gave or zero, component by component.                      *)
THEOREM TypesKept == Spec => []TypeOK
<1>1. IInv => TypeOK
  BY DEF IInv
<1> QED BY <1>1, Invariance, PTL

(* The publisher's last message before it falls silent is zero, unless the *)
(* connection dropped within that tick.                                    *)
THEOREM LastMessageIsZero == Spec => []FinalZeroUnlessRaced
<1>1. IInv => FinalZeroUnlessRaced
  BY DEF IInv, SentInv, FinalZeroUnlessRaced, Silent
<1> QED BY <1>1, Invariance, PTL

(* A dropped connection ends the stream within two messages, the second of *)
(* them zero.                                                              *)
THEOREM StreamEnds == Spec => []DropEndsStream
<1>1. IInv => DropEndsStream
  BY DEF IInv, DropInv, DropEndsStream
<1> QED BY <1>1, Invariance, PTL

=============================================================================
