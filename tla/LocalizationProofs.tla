------------------------- MODULE LocalizationProofs -------------------------
(***************************************************************************)
(* Proofs about the localization monitor and the probe, for every set of   *)
(* readings, every threshold, every timeout and every budget of attempts.  *)
(***************************************************************************)
EXTENDS Localization, TLAPS

USE DEF UNINITIALIZED, GLOBAL, CONVERGING, USABLE, DEGRADED, LOST, Status,
        Contract!Status, Contract!Localized, Contract!UNINITIALIZED,
        Contract!GLOBAL, Contract!CONVERGING, Contract!USABLE,
        Contract!DEGRADED, Contract!LOST

(* Every verdict is a state; a look at the readings neither activates nor  *)
(* ends a loss.                                                            *)
LEMMA RecomputedType ==
    ASSUME state \in Status, NEW sp, NEW po, NEW ca, NEW pa
    PROVE  /\ Recomputed(sp, po, ca, pa) \in Status
           /\ Recomputed(sp, po, ca, pa) = UNINITIALIZED <=> state = UNINITIALIZED
           /\ state = LOST => Recomputed(sp, po, ca, pa) = LOST
  BY DEF Recomputed, StaleOrLost

(* The age of a loss is kept exactly while the state is LOST.              *)
LEMMA LostAgeType ==
    ASSUME MonitorAssumption, NEW new \in Status,
           lostAge \in 0..LostDuration \cup {None},
           lostAge # None <=> state = LOST,
           state = LOST => new = LOST
    PROVE  /\ LostAgeAfter(new) \in 0..LostDuration \cup {None}
           /\ LostAgeAfter(new) # None <=> new = LOST
  BY DEF LostAgeAfter, MonitorAssumption

(* An age stays within its cap and known.                                  *)
LEMMA OlderType ==
    ASSUME NEW cap \in Nat, NEW age \in 0..cap \cup {None}, None \notin Nat
    PROVE  /\ Older(age, cap) \in 0..cap \cup {None}
           /\ Older(age, cap) # None <=> age # None
  BY DEF Older

-----------------------------------------------------------------------------
(* The monitor's types *)

LEMMA CloudType ==
    ASSUME MonitorAssumption, TypeOK, NEW sp \in Spreads, OnParticleCloud(sp)
    PROVE  TypeOK'
<1>1. state' \in Status /\ (state' = UNINITIALIZED <=> state = UNINITIALIZED)
        /\ (state = LOST => state' = LOST)
  BY RecomputedType DEF OnParticleCloud, TypeOK
<1>2. lostAge' \in 0..LostDuration \cup {None} /\ (lostAge' # None <=> state' = LOST)
  BY <1>1, LostAgeType DEF OnParticleCloud, TypeOK
<1> QED
  BY <1>1, <1>2 DEF OnParticleCloud, TypeOK, ReadingAgeCap, MonitorAssumption

LEMMA PoseType ==
    ASSUME MonitorAssumption, TypeOK, NEW po \in Poses, OnAmclPose(po)
    PROVE  TypeOK'
<1>1. state' \in Status /\ (state' = UNINITIALIZED <=> state = UNINITIALIZED)
        /\ (state = LOST => state' = LOST)
  BY RecomputedType DEF OnAmclPose, TypeOK
<1>2. lostAge' \in 0..LostDuration \cup {None} /\ (lostAge' # None <=> state' = LOST)
  BY <1>1, LostAgeType DEF OnAmclPose, TypeOK
<1> QED
  BY <1>1, <1>2 DEF OnAmclPose, TypeOK, ReadingAgeCap, MonitorAssumption

(* Starting over is possible from an activated state only.                 *)
LEMMA ReinitializeType ==
    ASSUME MonitorAssumption, TypeOK, CallReinitialize, activated',
           {moving', activated', tickDue', serviceReady'} \subseteq BOOLEAN,
           status' \in Status
    PROVE  TypeOK'
  BY DEF CallReinitialize, TypeOK, ReadingAgeCap, MonitorAssumption

LEMMA TickType ==
    ASSUME MonitorAssumption, TypeOK, Tick
    PROVE  TypeOK'
<1>1. Ticked \in Status /\ (Ticked = UNINITIALIZED <=> state = UNINITIALIZED)
        /\ (state = LOST => Ticked = LOST)
  BY RecomputedType DEF Ticked, TypeOK
<1>2. CASE ShouldReinit /\ serviceReady
  <2>1. CallReinitialize /\ status' = GLOBAL
    BY <1>2 DEF Tick, CallReinitialize
  <2>2. activated
    BY <1>1, <1>2 DEF ShouldReinit, TypeOK
  <2> QED
    BY <2>1, <2>2, ReinitializeType DEF Tick, TypeOK
<1>3. CASE ~(ShouldReinit /\ serviceReady)
  <2>1. /\ LostAgeAfter(Ticked) \in 0..LostDuration \cup {None}
        /\ LostAgeAfter(Ticked) # None <=> Ticked = LOST
    BY <1>1, LostAgeType DEF TypeOK
  <2> QED
    BY <1>1, <1>3, <2>1 DEF Tick, TypeOK, readings
<1> QED
  BY <1>2, <1>3

LEMMA ElapseType ==
    ASSUME MonitorAssumption, TypeOK, Elapse
    PROVE  TypeOK'
<1>1. ReadingAgeCap \in Nat /\ LostDuration \in Nat /\ Cooldown \in Nat
        /\ None \notin Nat
  BY DEF ReadingAgeCap, MonitorAssumption
<1>2. /\ cloudAge' \in 0..ReadingAgeCap \cup {None} /\ (cloudAge' # None <=> cloudAge # None)
      /\ poseAge' \in 0..ReadingAgeCap \cup {None} /\ (poseAge' # None <=> poseAge # None)
      /\ lostAge' \in 0..LostDuration \cup {None} /\ (lostAge' # None <=> lostAge # None)
      /\ reinitAge' \in 0..Cooldown \cup {None} /\ (reinitAge' # None <=> reinitAge # None)
  BY <1>1, OlderType DEF Elapse, TypeOK
<1> QED
  BY <1>2 DEF Elapse, TypeOK

-----------------------------------------------------------------------------
(* The probe's types *)

LEMMA OnStatusType ==
    ASSUME ProbeAssumption, ProbeTypeOK, NEW s, OnStatus(s)
    PROVE  ProbeTypeOK'
  BY DEF OnStatus, ProbeTypeOK, ProbeAssumption, history, IDLE, EXHAUSTED,
         Phases, TRANSLATING, PROBING, OBSERVING

LEMMA OnVelocityType ==
    ASSUME ProbeAssumption, ProbeTypeOK, NEW m \in BOOLEAN, OnVelocity(m)
    PROVE  ProbeTypeOK'
  BY DEF OnVelocity, ProbeTypeOK, ProbeAssumption, history

LEMMA PhaseCapType == ASSUME ProbeAssumption PROVE PhaseCap \in Nat
  BY DEF PhaseCap, Larger, ProbeAssumption

LEMMA BeginType ==
    ASSUME ProbeAssumption, ProbeTypeOK, NEW m \in Phases, Begin(m),
           attempts' \in 0..MaxAttempts, attempts' # MaxAttempts,
           probeCmd' \in {"stop", "drive", "turn"},
           {manual', probeDue'} \subseteq BOOLEAN, restAge' = restAge
    PROVE  ProbeTypeOK'
  BY PhaseCapType DEF Begin, ProbeTypeOK, ProbeAssumption, IDLE, EXHAUSTED,
         Phases, TRANSLATING, PROBING, OBSERVING

LEMMA ProbeTickType ==
    ASSUME ProbeAssumption, ProbeTypeOK, ProbeTick
    PROVE  ProbeTypeOK'
<1> USE DEF Phases, IDLE, EXHAUSTED, TRANSLATING, PROBING, OBSERVING
<1>0. {manual', probeDue'} \subseteq BOOLEAN /\ restAge' = restAge
  BY DEF ProbeTick, ProbeTypeOK
<1>1. CASE Hold /\ probeCmd' \in {"stop", "drive", "turn"}
  BY <1>0, <1>1 DEF Hold, ProbeTypeOK, history
<1>2. CASE TickStopped
  BY <1>0, <1>2 DEF TickStopped, Publish, ProbeTypeOK, ProbeAssumption
<1>3. CASE TickIdle
  <2>1. CASE Hold /\ Publish("stop")
    BY <2>1, <1>1 DEF Publish
  <2>2. CASE /\ Begin(NextAttemptMode(attempts)) /\ UNCHANGED attempts
             /\ Publish(IF mode' = TRANSLATING THEN "drive" ELSE "turn")
    <3>1. NextAttemptMode(attempts) \in Phases
      BY DEF NextAttemptMode
    <3>2. attempts' \in 0..MaxAttempts /\ attempts' # MaxAttempts
      BY <1>3, <2>2 DEF TickIdle, ProbeTypeOK
    <3>3. probeCmd' \in {"stop", "drive", "turn"}
      BY <2>2 DEF Publish
    <3> QED
      BY <1>0, <2>2, <3>1, <3>2, <3>3, BeginType
  <2> QED
    BY <1>3, <2>1, <2>2 DEF TickIdle
<1>4. CASE TickTranslating
  <2>1. CASE Hold /\ Publish("drive")
    BY <2>1, <1>1 DEF Publish
  <2>2. CASE Begin(PROBING) /\ Publish("turn") /\ UNCHANGED attempts
    BY <1>0, <1>4, <2>2, BeginType DEF TickTranslating, Publish, ProbeTypeOK
  <2> QED
    BY <1>4, <2>1, <2>2 DEF TickTranslating
<1>5. CASE TickProbing
  <2>1. CASE Hold /\ Publish("turn")
    BY <2>1, <1>1 DEF Publish
  <2>2. CASE Begin(OBSERVING) /\ Publish("stop") /\ UNCHANGED attempts
    BY <1>0, <1>5, <2>2, BeginType DEF TickProbing, Publish, ProbeTypeOK
  <2> QED
    BY <1>5, <2>1, <2>2 DEF TickProbing
<1>6. CASE TickObserving
  <2>1. CASE Hold
    BY <1>1, <1>6, <2>1 DEF TickObserving, Publish
  <2>2. CASE /\ attempts' = attempts + 1 /\ OutOfAttempts(attempts')
             /\ mode' = EXHAUSTED /\ phaseAge' = NoTime
    BY <1>0, <1>6, <2>2 DEF TickObserving, Publish, OutOfAttempts, ProbeTypeOK,
       ProbeAssumption
  <2>3. CASE /\ attempts' = attempts + 1 /\ ~OutOfAttempts(attempts')
             /\ Begin(NextAttemptMode(attempts'))
    <3>1. NextAttemptMode(attempts') \in Phases
      BY DEF NextAttemptMode
    <3>2. attempts' \in 0..MaxAttempts /\ attempts' # MaxAttempts
      BY <2>3 DEF OutOfAttempts, ProbeTypeOK, ProbeAssumption
    <3>3. probeCmd' \in {"stop", "drive", "turn"}
      BY <1>6 DEF TickObserving, Publish
    <3> QED
      BY <1>0, <2>3, <3>1, <3>2, <3>3, BeginType
  <2> QED
    BY <1>6, <2>1, <2>2, <2>3 DEF TickObserving
<1>7. CASE TickExhausted
  BY <1>1, <1>7 DEF TickExhausted, Publish
<1>8. CASE TickManual
  BY <1>1, <1>8 DEF TickManual, ProbeTypeOK
<1> QED
  BY <1>2, <1>3, <1>4, <1>5, <1>6, <1>7, <1>8 DEF ProbeTick

LEMMA ProbeElapseType ==
    ASSUME ProbeAssumption, ProbeTypeOK, ProbeElapse
    PROVE  ProbeTypeOK'
<1>1. GracePeriod \in Nat /\ PhaseCap \in Nat /\ NoTime \notin Nat
  BY PhaseCapType DEF ProbeAssumption
<1> QED
  BY <1>1 DEF ProbeElapse, ProbeTypeOK, Aged, history

-----------------------------------------------------------------------------
(* Types are kept: every variable of the two nodes stays what the code     *)
(* makes it, the age of a loss is known exactly while the monitor is LOST  *)
(* and the budget of attempts is used up exactly when the probe gives up.  *)
THEOREM TypesKept == LSpec => []LTypeOK
<1> USE MonitorAssumption, ProbeAssumption
<1>1. LInit => LTypeOK
  <2>1. Init => TypeOK
    BY DEF Init, StateInit, TypeOK
  <2>2. ProbeInit => ProbeTypeOK
    <3> SUFFICES ASSUME ProbeInit PROVE ProbeTypeOK
      OBVIOUS
    <3>1. mode \notin Phases /\ mode # EXHAUSTED
      BY DEF ProbeInit, BehaviorInit, IDLE, EXHAUSTED, Phases, TRANSLATING, PROBING, OBSERVING
    <3>2. attempts \in 0..MaxAttempts /\ attempts # MaxAttempts
      BY DEF ProbeInit, BehaviorInit, ProbeAssumption
    <3> QED
      BY <3>1, <3>2 DEF ProbeInit, BehaviorInit, ProbeTypeOK
  <2> QED
    BY <2>1, <2>2 DEF LInit, LTypeOK
<1>2. ASSUME LTypeOK, [LNext]_allVars
      PROVE  LTypeOK'
  <2> USE <1>2 DEF LTypeOK
  <2>1. CASE MonitorOnly
    <3>1. ProbeTypeOK'
      BY <2>1 DEF MonitorOnly, probeVars, ProbeTypeOK, history
    <3>2. ASSUME NEW sp \in Spreads, OnParticleCloud(sp) PROVE TypeOK'
      BY <3>2, CloudType
    <3>3. ASSUME NEW po \in Poses, OnAmclPose(po) PROVE TypeOK'
      BY <3>3, PoseType
    <3>4. CASE PollStartupActivation
      BY <3>1, <3>4, ReinitializeType DEF PollStartupActivation, TypeOK
    <3>5. ASSUME ServiceChanges PROVE TypeOK'
      <4>1. serviceReady' \in BOOLEAN
        BY <3>5 DEF ServiceChanges, TypeOK
      <4>2. UNCHANGED <<state, spread, cov, cloudAge, poseAge, fresh, lostAge,
                        reinitAge, moving, activated, status, tickDue>>
        BY <3>5 DEF ServiceChanges, readings
      <4> QED
        BY <4>1, <4>2 DEF TypeOK
    <3> QED
      BY <2>1, <3>1, <3>2, <3>3, <3>4, <3>5 DEF MonitorOnly
  <2>2. CASE Announce
    BY <2>2, TickType, OnStatusType DEF Announce
  <2>3. CASE ProbeOnly
    <3>1. TypeOK'
      BY <2>3 DEF ProbeOnly, vars, readings, TypeOK
    <3>2. ASSUME NEW m \in BOOLEAN, OnControlAuthority(m) PROVE ProbeTypeOK'
      BY <3>2 DEF OnControlAuthority, ProbeTypeOK, history
    <3> QED
      BY <2>3, <3>1, <3>2, ProbeTickType DEF ProbeOnly
  <2>4. CASE Time
    BY <2>4, ElapseType, ProbeElapseType DEF Time
  <2>5. ASSUME NEW m \in BOOLEAN, Odometry(m) PROVE LTypeOK'
    <3>1. TypeOK'
      BY <2>5 DEF Odometry, OnOdom, readings, TypeOK
    <3> QED
      BY <2>5, <3>1, OnVelocityType DEF Odometry
  <2>6. CASE UNCHANGED allVars
    BY <2>6 DEF allVars, vars, readings, probeVars, history, TypeOK, ProbeTypeOK
  <2> QED
    BY <1>2, <2>1, <2>2, <2>3, <2>4, <2>5, <2>6 DEF LNext
<1> QED
  BY <1>1, <1>2, PTL DEF LSpec

-----------------------------------------------------------------------------
(* The order of the announcements.  The state runs ahead of the last       *)
(* announcement but only to where that announcement leads, and a loss that *)
(* is not announced yet is younger than the shortest one that is acted on. *)
AnnouncedInv ==
    /\ heard = status
    /\ state \in Contract!Follows[status]
    /\ status = LOST => state = LOST
    /\ state = LOST /\ status # LOST => lostAge = 0 \/ (lostAge = 1 /\ tickDue)

LEMMA RecomputedFollows ==
    ASSUME state \in Status, NEW st \in Status, state \in Contract!Follows[st],
           st = LOST => state = LOST, NEW sp, NEW po, NEW ca, NEW pa
    PROVE  Recomputed(sp, po, ca, pa) \in Contract!Follows[st]
  BY DEF Recomputed, StaleOrLost, Contract!Follows

LEMMA FollowsItself == \A st \in Status : st \in Contract!Follows[st]
  BY DEF Contract!Follows

LEMMA TickAnnounces ==
    ASSUME MonitorAssumption, TypeOK, AnnouncedInv, Announce
    PROVE  AnnouncedInv' /\ status' \in Contract!Follows[status]
<1>1. status' = state' /\ status' \in Status /\ heard' = status'
  BY TickType DEF Announce, Tick, TypeOK, OnStatus
<1>2. status' \in Contract!Follows[status]
  <2>1. CASE ShouldReinit /\ serviceReady
    <3>1. state = LOST /\ lostAge \in Nat /\ lostAge >= LostDuration
      BY <2>1 DEF ShouldReinit, LostAgeAfter, TypeOK, MonitorAssumption
    <3>2. status = LOST
      BY <3>1 DEF AnnouncedInv, MonitorAssumption
    <3> QED
      BY <2>1, <3>2, <1>1 DEF Announce, Tick, CallReinitialize, Contract!Follows
  <2>2. CASE ~(ShouldReinit /\ serviceReady)
    BY <2>2, <1>1, RecomputedFollows DEF Announce, Tick, Ticked, TypeOK, AnnouncedInv
  <2> QED
    BY <2>1, <2>2
<1> QED
  BY <1>1, <1>2, FollowsItself DEF AnnouncedInv

LEMMA AnnouncedKept ==
    ASSUME MonitorAssumption, LTypeOK, AnnouncedInv, [LNext]_allVars
    PROVE  AnnouncedInv'
<1> USE DEF LTypeOK
<1>1. ASSUME NEW sp \in Spreads, OnParticleCloud(sp), UNCHANGED probeVars
      PROVE  AnnouncedInv'
  <2>1. state' = Recomputed(sp, cov, 0, poseAge) /\ lostAge' = LostAgeAfter(state')
          /\ UNCHANGED <<status, heard, tickDue>>
    BY <1>1 DEF OnParticleCloud, probeVars
  <2>2. state' \in Contract!Follows[status] /\ (state = LOST => state' = LOST)
    BY <2>1, RecomputedFollows, RecomputedType DEF AnnouncedInv, TypeOK
  <2> QED
    BY <2>1, <2>2 DEF AnnouncedInv, LostAgeAfter
<1>2. ASSUME NEW po \in Poses, OnAmclPose(po), UNCHANGED probeVars
      PROVE  AnnouncedInv'
  <2>1. state' = Recomputed(spread, po, cloudAge, 0) /\ lostAge' = LostAgeAfter(state')
          /\ UNCHANGED <<status, heard, tickDue>>
    BY <1>2 DEF OnAmclPose, probeVars
  <2>2. state' \in Contract!Follows[status] /\ (state = LOST => state' = LOST)
    BY <2>1, RecomputedFollows, RecomputedType DEF AnnouncedInv, TypeOK
  <2> QED
    BY <2>1, <2>2 DEF AnnouncedInv, LostAgeAfter
<1>3. ASSUME PollStartupActivation, UNCHANGED probeVars
      PROVE  AnnouncedInv'
  <2>1. status = UNINITIALIZED
    BY <1>3 DEF PollStartupActivation, AnnouncedInv, TypeOK, Contract!Follows
  <2> QED
    BY <1>3, <2>1 DEF PollStartupActivation, CallReinitialize, AnnouncedInv,
       probeVars, Contract!Follows
<1>4. CASE Announce
  BY <1>4, TickAnnounces
<1>5. CASE Time
  BY <1>5 DEF Time, Elapse, ProbeElapse, Older, AnnouncedInv, TypeOK, MonitorAssumption
<1>6. CASE UNCHANGED <<state, status, lostAge, tickDue, heard>>
  BY <1>6 DEF AnnouncedInv
<1>7. (MonitorOnly /\ ServiceChanges) \/ ProbeOnly
        \/ (\E m \in BOOLEAN : Odometry(m)) \/ UNCHANGED allVars
        => UNCHANGED <<state, status, lostAge, tickDue, heard>>
  BY DEF MonitorOnly, ServiceChanges, ProbeOnly, ProbeTick,
     OnControlAuthority, Odometry, OnOdom, OnVelocity, allVars, vars, probeVars
<1> QED
  BY <1>1, <1>2, <1>3, <1>4, <1>5, <1>6, <1>7 DEF LNext, MonitorOnly

LEMMA AnnouncedFromStart == LSpec => [](LTypeOK /\ AnnouncedInv)
<1> USE MonitorAssumption
<1>1. LInit => AnnouncedInv
  BY DEF LInit, Init, StateInit, ProbeInit, BehaviorInit, AnnouncedInv, Contract!Follows
<1>2. LTypeOK /\ AnnouncedInv /\ [LNext]_allVars => AnnouncedInv'
  BY AnnouncedKept
<1> QED
  BY <1>1, <1>2, TypesKept, PTL DEF LSpec

(* The last announcement changes by an announcement only.                  *)
LEMMA OnlyAnnounced ==
    ASSUME [LNext]_allVars, ~Announce
    PROVE  status' = status
  BY DEF LNext, MonitorOnly, OnParticleCloud, OnAmclPose, PollStartupActivation,
     ServiceChanges, ProbeOnly, Time, Elapse, Odometry, OnOdom,
     allVars, vars

(* The monitor announces its statuses in the contract's order: nothing but *)
(* a loss and a request to start over leads back to the statuses on which  *)
(* the probe searches.                                                     *)
THEOREM StatusOrder == LSpec => AnnouncesContract
<1> USE MonitorAssumption
<1>1. LInit => Contract!Init
  BY DEF LInit, Init, StateInit, Contract!Init
<1>2. LTypeOK /\ AnnouncedInv /\ LTypeOK' /\ [LNext]_allVars => [Contract!Next]_status
  <2> SUFFICES ASSUME LTypeOK, AnnouncedInv, LTypeOK', [LNext]_allVars
               PROVE  [Contract!Next]_status
    OBVIOUS
  <2>1. CASE Announce
    BY <2>1, TickAnnounces DEF LTypeOK, TypeOK, Contract!Next, Contract!Announce
  <2> QED
    BY <2>1, OnlyAnnounced
<1> QED
  BY <1>1, <1>2, AnnouncedFromStart, PTL DEF LSpec, AnnouncesContract, Contract!Spec

-----------------------------------------------------------------------------
(* The search.  While the robot is unlocalized, the phases begun since the *)
(* edge into GLOBAL are exactly what the mode and the attempts say; once   *)
(* it is not, a search that was broken off is never taken up again, since  *)
(* by the order of the announcements only a new edge makes it unlocalized. *)
Searched ==
    /\ mode = IDLE => attempts = 0 /\ turns = 0 /\ drives = 0
    /\ mode = TRANSLATING => attempts > 0 /\ turns = attempts /\ drives = attempts
    /\ mode \in {PROBING, OBSERVING} => turns = attempts + 1 /\ drives = attempts
    /\ mode = EXHAUSTED => turns = MaxAttempts /\ drives = MaxAttempts - 1

SearchInv ==
    /\ turns \in Nat /\ drives \in Nat
    /\ SearchIsBounded
    /\ heard = UNINITIALIZED => mode = IDLE
    /\ heard \in ActiveStatuses \cup {UNINITIALIZED} => Searched

LEMMA SearchAnnounced ==
    ASSUME MonitorAssumption, ProbeAssumption, LTypeOK, AnnouncedInv, SearchInv, Announce
    PROVE  SearchInv'
<1>1. heard' \in Contract!Follows[heard] /\ heard \in Status /\ heard' \in Status
  BY TickAnnounces, TickType DEF Announce, OnStatus, AnnouncedInv, LTypeOK, TypeOK
<1>2. CASE FreshGlobal(heard')
  BY <1>2 DEF Announce, OnStatus, AnnouncedInv, FreshGlobal, SearchInv, Searched,
     SearchIsBounded, ProbeAssumption, IDLE, TRANSLATING, PROBING, OBSERVING, EXHAUSTED
<1>3. CASE ~FreshGlobal(heard')
  <2>1. UNCHANGED <<attempts, mode, drives, turns>>
    BY <1>3 DEF Announce, OnStatus, FreshGlobal, history
  <2>2. heard' = UNINITIALIZED => heard = UNINITIALIZED
    BY <1>1 DEF Contract!Follows
  <2>3. heard' \in ActiveStatuses => heard \in ActiveStatuses \cup {UNINITIALIZED}
    BY <1>1, <1>3 DEF Contract!Follows, ActiveStatuses, FreshGlobal
  <2> QED
    BY <2>1, <2>2, <2>3 DEF SearchInv, Searched, SearchIsBounded
<1> QED
  BY <1>2, <1>3

LEMMA SearchTicked ==
    ASSUME ProbeAssumption, ProbeTypeOK, SearchInv, ProbeTick
    PROVE  SearchInv'
<1> USE DEF Phases, IDLE, EXHAUSTED, TRANSLATING, PROBING, OBSERVING
<1>0. heard' = heard /\ attempts \in 0..MaxAttempts /\ MaxAttempts \in Nat \ {0}
  BY DEF ProbeTick, ProbeTypeOK, ProbeAssumption
<1>1. CASE Hold
  BY <1>0, <1>1 DEF Hold, history, SearchInv, Searched, SearchIsBounded
<1>2. CASE TickStopped
  BY <1>0, <1>2 DEF TickStopped, history, SearchInv, SearchIsBounded
<1>3. CASE TickIdle /\ ~Hold
  <2>1. heard \in ActiveStatuses /\ Begin(PROBING) /\ attempts' = attempts
          /\ Searched /\ mode = IDLE
    BY <1>3 DEF TickIdle, NextAttemptMode, SearchInv, Searched
  <2> QED
    BY <1>0, <2>1 DEF Begin, SearchInv, Searched, SearchIsBounded, ActiveStatuses
<1>4. CASE TickTranslating /\ ~Hold
  <2>1. heard \in ActiveStatuses /\ Begin(PROBING) /\ attempts' = attempts
          /\ Searched /\ mode = TRANSLATING /\ attempts # MaxAttempts
    BY <1>4 DEF TickTranslating, SearchInv, Searched, ProbeTypeOK
  <2> QED
    BY <1>0, <2>1 DEF Begin, SearchInv, Searched, SearchIsBounded
<1>5. CASE TickProbing /\ ~Hold
  <2>1. heard \in ActiveStatuses /\ Begin(OBSERVING) /\ attempts' = attempts
          /\ Searched /\ mode = PROBING
    BY <1>5 DEF TickProbing, SearchInv, Searched
  <2> QED
    BY <1>0, <2>1 DEF Begin, SearchInv, Searched, SearchIsBounded
<1>6. CASE TickObserving /\ ~Hold
  <2>1. heard \in ActiveStatuses /\ attempts' = attempts + 1 /\ Searched
          /\ mode = OBSERVING /\ attempts # MaxAttempts
    BY <1>6 DEF TickObserving, SearchInv, Searched, ProbeTypeOK
  <2>2. CASE OutOfAttempts(attempts') /\ mode' = EXHAUSTED /\ UNCHANGED history
    BY <1>0, <2>1, <2>2 DEF OutOfAttempts, history, SearchInv, Searched, SearchIsBounded
  <2>3. CASE ~OutOfAttempts(attempts') /\ Begin(NextAttemptMode(attempts'))
    <3>1. Begin(TRANSLATING)
      BY <1>0, <2>1, <2>3 DEF NextAttemptMode
    <3> QED
      BY <1>0, <2>1, <2>3, <3>1 DEF OutOfAttempts, Begin, SearchInv, Searched,
         SearchIsBounded
  <2> QED
    BY <1>6, <2>2, <2>3 DEF TickObserving
<1> QED
  BY <1>1, <1>2, <1>3, <1>4, <1>5, <1>6 DEF ProbeTick, TickExhausted, TickManual

LEMMA SearchKept ==
    ASSUME MonitorAssumption, ProbeAssumption, LTypeOK, AnnouncedInv, SearchInv,
           [LNext]_allVars
    PROVE  SearchInv'
<1>1. CASE UNCHANGED <<mode, heard, attempts, drives, turns>>
  BY <1>1 DEF SearchInv, Searched, SearchIsBounded
<1>2. CASE ProbeTick
  BY <1>2, SearchTicked DEF LTypeOK
<1>3. CASE Announce
  BY <1>3, SearchAnnounced
<1>4. ~ProbeTick /\ ~Announce => UNCHANGED <<mode, heard, attempts, drives, turns>>
  BY DEF LNext, MonitorOnly, ProbeOnly, OnControlAuthority, Time, ProbeElapse,
     Odometry, OnVelocity, allVars, probeVars, history
<1> QED
  BY <1>1, <1>2, <1>3, <1>4

LEMMA SearchFromStart == LSpec => [](LTypeOK /\ AnnouncedInv /\ SearchInv)
<1> USE MonitorAssumption, ProbeAssumption
<1>1. LInit => SearchInv
  BY DEF LInit, ProbeInit, BehaviorInit, SearchInv, Searched, SearchIsBounded, ProbeAssumption,
     IDLE, TRANSLATING, PROBING, OBSERVING, EXHAUSTED
<1>2. LTypeOK /\ AnnouncedInv /\ SearchInv /\ [LNext]_allVars => SearchInv'
  BY SearchKept
<1> QED
  BY <1>1, <1>2, AnnouncedFromStart, PTL DEF LSpec

(* The search is bounded: at most MaxAttempts turns on the spot and one    *)
(* drive less between two requests to start over, and never a drive before *)
(* a turn, whatever interrupts the probe.                                  *)
THEOREM SearchBounded == LSpec => []SearchIsBounded
  BY SearchFromStart, PTL DEF SearchInv

-----------------------------------------------------------------------------
(* The probe gives up only while the robot is unlocalized and searches     *)
(* again only after a new edge into GLOBAL: the two nodes together         *)
(* implement what the drivers that listen to them rely on.                 *)
THEOREM NodesKeepContract == LSpec => ProbeContractHolds
<1> USE MonitorAssumption, ProbeAssumption
        DEF IDLE, TRANSLATING, PROBING, OBSERVING, EXHAUSTED, Phases
<1> DEFINE Outcome == [Listener!ProbeNext]_<<status, mode = EXHAUSTED>>
<1>1. LInit => Listener!ProbeInit
  BY DEF LInit, Init, StateInit, ProbeInit, BehaviorInit, Listener!ProbeInit, Listener!Init,
     Listener!UNINITIALIZED
<1>2. LTypeOK /\ AnnouncedInv /\ LTypeOK' /\ [LNext]_allVars => Outcome
  <2> SUFFICES ASSUME LTypeOK, AnnouncedInv, LTypeOK', [LNext]_allVars
               PROVE  Outcome
    OBVIOUS
  <2>1. CASE Announce
    <3>1. status' \in Listener!Follows[status] /\ status' \in Listener!Status
      BY <2>1, TickAnnounces DEF LTypeOK, TypeOK, Contract!Follows, Listener!Follows,
         Listener!Status, Listener!Localized, Listener!UNINITIALIZED, Listener!GLOBAL,
         Listener!CONVERGING, Listener!USABLE, Listener!DEGRADED, Listener!LOST
    <3>2. (mode = EXHAUSTED)' <=>
            (mode = EXHAUSTED /\ (status' # Listener!GLOBAL \/ status = Listener!GLOBAL))
      BY <2>1 DEF Announce, OnStatus, FreshGlobal, AnnouncedInv, Listener!GLOBAL
    <3>3. Listener!Heard(status')
      BY <3>1, <3>2 DEF Listener!Heard, Listener!Announce
    <3> QED
      BY <3>1, <3>3 DEF Listener!ProbeNext
  <2>2. CASE ~Announce
    <3>1. status' = status
      BY <2>2, OnlyAnnounced
    <3>2. mode' # mode => ProbeTick
      BY <2>2 DEF LNext, MonitorOnly, ProbeOnly, OnControlAuthority, Time,
         ProbeElapse, Odometry, OnVelocity, allVars, probeVars
    <3>3. ProbeTick /\ mode = EXHAUSTED => mode' = EXHAUSTED
      BY DEF ProbeTick, TickManual, TickStopped, TickIdle, TickTranslating,
         TickProbing, TickObserving, TickExhausted, Hold
    <3>4. ProbeTick /\ mode # EXHAUSTED /\ mode' = EXHAUSTED => heard \in ActiveStatuses
      BY DEF ProbeTick, TickManual, TickStopped, TickIdle, TickTranslating,
         TickProbing, TickObserving, TickExhausted, Hold, Begin, NextAttemptMode
    <3>5. CASE mode # EXHAUSTED /\ mode' = EXHAUSTED
      <4>1. Listener!GiveUp
        BY <3>1, <3>2, <3>4, <3>5 DEF Listener!GiveUp, Listener!Active,
           Listener!GLOBAL, Listener!CONVERGING, ActiveStatuses, AnnouncedInv
      <4> QED
        BY <4>1 DEF Listener!ProbeNext
    <3>6. CASE (mode = EXHAUSTED)' = (mode = EXHAUSTED)
      BY <3>1, <3>6
    <3> QED
      BY <3>2, <3>3, <3>5, <3>6
  <2> QED
    BY <2>1, <2>2
<1> QED
  BY <1>1, <1>2, AnnouncedFromStart, PTL
  DEF LSpec, ProbeContractHolds, Listener!ProbeSpec

-----------------------------------------------------------------------------
(* A reading the monitor has stored was received since the last request.   *)
FreshInv ==
    /\ spread # None => "cloud" \in fresh
    /\ cov # None => "pose" \in fresh

LEMMA FreshKept ==
    ASSUME FreshInv, [LNext]_allVars
    PROVE  FreshInv'
<1>1. CASE MonitorOnly
  BY <1>1 DEF MonitorOnly, OnParticleCloud, OnAmclPose, PollStartupActivation,
     ServiceChanges, CallReinitialize, readings, FreshInv
<1>2. CASE Announce
  BY <1>2 DEF Announce, Tick, CallReinitialize, readings, FreshInv
<1>3. CASE ~MonitorOnly /\ ~Announce
  BY <1>3 DEF LNext, ProbeOnly, Time, Elapse, Odometry, OnOdom, allVars, vars,
     readings, FreshInv
<1> QED
  BY <1>1, <1>2, <1>3

(* USABLE is announced only on narrow readings, received since the last    *)
(* request to start over and no older than the robot's motion allows.      *)
THEOREM UsableFresh == LSpec => UsableIsFresh
<1> USE MonitorAssumption
<1>1. LInit => FreshInv
  BY DEF LInit, Init, StateInit, FreshInv
<1>2. FreshInv /\ [LNext]_allVars => FreshInv'
  BY FreshKept
<1>3. ASSUME LTypeOK, FreshInv, [LNext]_allVars, Tick, status' = USABLE
      PROVE  /\ fresh = {"cloud", "pose"}
             /\ Usable(spread, cov)
             /\ moving => cloudAge <= StaleTimeout /\ poseAge <= StaleTimeout
             /\ cloudAge <= StationaryTimeout /\ poseAge <= StationaryTimeout
  <2>1. Ticked = USABLE
    BY <1>3 DEF Tick, CallReinitialize
  <2>2. state # UNINITIALIZED /\ ~StaleOrLost(cloudAge, poseAge)
    BY <2>1 DEF Ticked, Recomputed
  <2>3. Usable(spread, cov)
    BY <2>1, <2>2 DEF Ticked, Recomputed
  <2>4. fresh = {"cloud", "pose"}
    BY <1>3, <2>3 DEF Usable, FreshInv, LTypeOK, TypeOK
  <2>5. cloudAge \in Nat /\ poseAge \in Nat
    BY <1>3, <2>2 DEF LTypeOK, TypeOK, ReadingAgeCap, MonitorAssumption
  <2>6. cloudAge <= EffectiveStaleTimeout /\ poseAge <= EffectiveStaleTimeout
          /\ EffectiveStaleTimeout \in Nat
    BY <2>2, <2>5 DEF StaleOrLost, Stale, EffectiveStaleTimeout, MonitorAssumption
  <2> QED
    BY <2>3, <2>4, <2>5, <2>6 DEF EffectiveStaleTimeout, MonitorAssumption
<1>4. LTypeOK /\ FreshInv /\ [LNext]_allVars =>
        [Tick /\ status' = USABLE =>
          /\ fresh = {"cloud", "pose"}
          /\ Usable(spread, cov)
          /\ moving => cloudAge <= StaleTimeout /\ poseAge <= StaleTimeout
          /\ cloudAge <= StationaryTimeout /\ poseAge <= StationaryTimeout]_vars
  BY <1>3
<1> QED
  BY <1>1, <1>2, <1>4, TypesKept, PTL DEF LSpec, UsableIsFresh
=============================================================================
