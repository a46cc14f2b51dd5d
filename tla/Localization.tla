---------------------------- MODULE Localization ----------------------------
(***************************************************************************)
(* The localization monitor and the probe, two nodes that talk through     *)
(* /localization_status and both hear /odometry/filtered.  A message is    *)
(* handled by its listener when it is published, and an odometry message   *)
(* by both at once; all other interleavings of the two nodes are there.    *)
(***************************************************************************)
EXTENDS LocalizationMonitor, LocalizationProbe

allVars == <<vars, probeVars>>

LInit == Init /\ ProbeInit

(* The steps that concern one node, or both.                               *)
MonitorOnly ==
    /\ \/ \E sp \in Spreads : OnParticleCloud(sp)
       \/ \E po \in Poses : OnAmclPose(po)
       \/ PollStartupActivation
       \/ ServiceChanges
    /\ UNCHANGED probeVars

Announce == Tick /\ OnStatus(status')

Odometry(m) == OnOdom(m) /\ OnVelocity(m)

ProbeOnly ==
    /\ ProbeTick \/ \E m \in BOOLEAN : OnControlAuthority(m)
    /\ UNCHANGED vars

Time == Elapse /\ ProbeElapse

LNext ==
    \/ MonitorOnly \/ Announce \/ ProbeOnly \/ Time
    \/ \E m \in BOOLEAN : Odometry(m)

(* Timers and time; AMCL, odometry and the operator owe nothing.           *)
LFairness ==
    /\ WF_allVars(PollStartupActivation /\ UNCHANGED probeVars)
    /\ WF_allVars(Announce)
    /\ WF_allVars(ProbeTick /\ UNCHANGED vars)
    /\ WF_allVars(Time)

LSpec == LInit /\ [][LNext]_allVars /\ LFairness

-----------------------------------------------------------------------------
LTypeOK == TypeOK /\ ProbeTypeOK

(* Between two requests to start over the probe turns the robot at most    *)
(* MaxAttempts times, drives it once less, and never drives before it has  *)
(* turned: "never open-ended searching", "back at attempt 1                *)
(* (rotation-only), not wherever the previous run left off"                *)
(* (probe_behavior.py:53-64), through every interruption by an operator,   *)
(* a change of status or a new loss.                                       *)
SearchIsBounded ==
    /\ turns <= MaxAttempts
    /\ drives < MaxAttempts
    /\ drives <= turns

(* A robot that stays unlocalized, in AUTO and at rest whenever the probe  *)
(* waits, gets every attempt of its budget and then peace: each edge into  *)
(* GLOBAL re-arms the probe, and EXHAUSTED is where it ends.               *)
SearchIsMadeAndEnds ==
    <>[](/\ heard \in ActiveStatuses /\ ~manual
         /\ mode = IDLE => Rested)
        => <>[](mode = EXHAUSTED /\ probeCmd = "stop" /\ turns = MaxAttempts)

(* What the verification drivers see of the two nodes.                     *)
Listener == INSTANCE ProbeContract WITH exhausted <- mode = EXHAUSTED
ProbeContractHolds == Listener!ProbeSpec

=============================================================================
