------------------------ MODULE LocalizationMonitor ------------------------
(***************************************************************************)
(* rambla_localization's monitor: classifies AMCL's particle spread and    *)
(* pose covariance into a confidence state, announces it on                *)
(* /localization_status, and asks AMCL to start over, at startup and when  *)
(* LOST persists.                                                          *)
(*                                                                         *)
(* rclpy.spin runs the node's callbacks one at a time, so each is one      *)
(* action.  Clock readings are ages, capped where no comparison can tell   *)
(* larger ones apart.  AMCL is external: any reading may come at any time.  *)
(* The request to start over is fire-and-forget, so a reading that comes   *)
(* after it may still be of AMCL's old belief; the monitor cannot tell.    *)
(***************************************************************************)
EXTENDS Naturals

CONSTANTS
    Spreads,            \* particle spreads that may be reported
    Poses,              \* pose covariances, [xy, yaw], that may be reported
    UsableSpread, ConvergingSpread, LostSpread,
    UsableXY, LostXY, UsableYaw,
    StaleTimeout,       \* stale_timeout_s
    StationaryTimeout,  \* stationary_stale_timeout_s
    LostDuration,       \* lost_duration_s
    Cooldown,           \* reinit_cooldown_s
    None

VARIABLES
    state,              \* LocalizationMonitor._state
    spread, cov,        \* _spread_m; _cov_xy_m and _cov_yaw_rad
    cloudAge, poseAge,  \* now - _last_particle_time, now - _last_pose_time
    lostAge,            \* now - _lost_since
    reinitAge,          \* now - _last_reinit_time
    moving,             \* _moving
    activated,          \* LocalizationMonitorNode._activated
    status,             \* the last /localization_status message
    tickDue,            \* the monitor's timer is about to fire
    serviceReady,       \* the reinitialize service is there
    \* history, for the properties only
    fresh               \* the readings received since the last request

readings == <<spread, cov, cloudAge, poseAge, fresh>>
vars == <<state, readings, lostAge, reinitAge, moving, activated, status,
          tickDue, serviceReady>>

Contract == INSTANCE StatusContract
Status == Contract!Status
UNINITIALIZED == "UNINITIALIZED"
GLOBAL == "GLOBAL"
CONVERGING == "CONVERGING"
USABLE == "USABLE"
DEGRADED == "DEGRADED"
LOST == "LOST"
HoldEligible == {CONVERGING, USABLE, DEGRADED}

ASSUME MonitorAssumption ==
    /\ Spreads \subseteq Nat
    /\ Poses \subseteq [xy : Nat, yaw : Nat]
    /\ {UsableSpread, ConvergingSpread, LostSpread} \subseteq Nat
    /\ {UsableXY, LostXY, UsableYaw} \subseteq Nat
    /\ {StaleTimeout, StationaryTimeout, LostDuration, Cooldown} \subseteq Nat
    /\ StaleTimeout <= StationaryTimeout
    /\ LostDuration > 1   \* more than one period of the monitor
    /\ None \notin Nat \cup Poses

ReadingAgeCap == StationaryTimeout + 1
Older(age, cap) == IF age # None /\ age < cap THEN age + 1 ELSE age

TypeOK ==
    /\ state \in Status /\ status \in Status
    /\ spread \in Spreads \cup {None}
    /\ cov \in Poses \cup {None}
    /\ cloudAge \in 0..ReadingAgeCap \cup {None}
    /\ poseAge \in 0..ReadingAgeCap \cup {None}
    /\ lostAge \in 0..LostDuration \cup {None}
    /\ reinitAge \in 0..Cooldown \cup {None}
    /\ {moving, activated, tickDue, serviceReady} \subseteq BOOLEAN
    /\ fresh \subseteq {"cloud", "pose"}
    /\ lostAge # None <=> state = LOST
    /\ state = UNINITIALIZED <=> ~activated
    /\ activated => cloudAge # None /\ poseAge # None /\ reinitAge # None

(* The constructor of LocalizationMonitor, and that of its node.  moving   *)
(* is TRUE until odometry says otherwise.                                  *)
StateInit ==
    /\ state = UNINITIALIZED
    /\ spread = None /\ cov = None
    /\ cloudAge = None /\ poseAge = None
    /\ lostAge = None /\ reinitAge = None
    /\ moving = TRUE

Init ==
    /\ StateInit
    /\ status = UNINITIALIZED /\ activated = FALSE
    /\ tickDue = TRUE
    /\ serviceReady = FALSE /\ fresh = {}

-----------------------------------------------------------------------------
(* _recompute: the state after the readings sp and po of ages ca and pa *)

Usable(sp, po) ==
    /\ sp # None /\ sp <= UsableSpread
    /\ po # None /\ po.xy <= UsableXY /\ po.yaw <= UsableYaw

EffectiveStaleTimeout ==
    IF ~moving /\ state \in HoldEligible THEN StationaryTimeout ELSE StaleTimeout

Stale(ca, pa) == ca > EffectiveStaleTimeout \/ pa > EffectiveStaleTimeout

SpreadAbove(sp, limit) == sp # None /\ sp > limit

HardCeiling(sp, po) ==
    SpreadAbove(sp, LostSpread) \/ (po # None /\ po.xy > LostXY)

(* Mutant: fresh readings end a loss that only silence had caused.         *)
StaleOrLostForgetting(ca, pa) == Stale(ca, pa)

(* LOST is left by a request to start over only.                           *)
StaleOrLost(ca, pa) == Stale(ca, pa) \/ state = LOST

Recomputed(sp, po, ca, pa) ==
    CASE state = UNINITIALIZED -> UNINITIALIZED
      [] state # UNINITIALIZED /\ StaleOrLost(ca, pa) -> LOST
      [] OTHER ->
           IF Usable(sp, po) THEN USABLE
           ELSE CASE state = GLOBAL /\ sp # None /\ sp <= ConvergingSpread
                       -> CONVERGING
                  [] state = CONVERGING /\ SpreadAbove(sp, LostSpread) -> LOST
                  [] state = USABLE -> DEGRADED
                  [] state = DEGRADED /\ HardCeiling(sp, po) -> LOST
                  [] OTHER -> state

(* Mutant: every look at a lost state starts its duration anew.            *)
LostAgeAfterRestarted(new) == IF new = LOST THEN 0 ELSE lostAge

(* _enter_lost keeps the time at which LOST began.                         *)
LostAgeAfter(new) == IF new = LOST /\ state # LOST THEN 0 ELSE lostAge

-----------------------------------------------------------------------------
(* The subscriptions *)

(* A cloud without particles has no spread and is ignored.                 *)
OnParticleCloud(sp) ==
    /\ spread' = sp
    /\ cloudAge' = 0
    /\ fresh' = fresh \cup {"cloud"}
    /\ state' = Recomputed(sp, cov, 0, poseAge)
    /\ lostAge' = LostAgeAfter(state')
    /\ UNCHANGED <<cov, poseAge, reinitAge, moving, activated, status, tickDue,
                   serviceReady>>

OnAmclPose(po) ==
    /\ cov' = po
    /\ poseAge' = 0
    /\ fresh' = fresh \cup {"pose"}
    /\ state' = Recomputed(spread, po, cloudAge, 0)
    /\ lostAge' = LostAgeAfter(state')
    /\ UNCHANGED <<spread, cloudAge, reinitAge, moving, activated, status,
                   tickDue, serviceReady>>

(* Faster than a threshold, forwards, backwards or turning.                *)
OnOdom(m) ==
    /\ moving' = m
    /\ UNCHANGED <<state, readings, lostAge, reinitAge, activated, status,
                   tickDue, serviceReady>>

-----------------------------------------------------------------------------
(* Asking AMCL to start over *)

(* Mutant: the old readings stay, as in a reset of the state alone.        *)
CallReinitializeKeepingReadings ==
    /\ state' = GLOBAL
    /\ cloudAge' = 0 /\ poseAge' = 0 /\ reinitAge' = 0
    /\ lostAge' = None
    /\ fresh' = {}
    /\ UNCHANGED <<spread, cov>>

(* The call is sent and not waited for; tracking restarts at once.         *)
CallReinitialize ==
    /\ state' = GLOBAL
    /\ spread' = None /\ cov' = None
    /\ cloudAge' = 0 /\ poseAge' = 0 /\ reinitAge' = 0
    /\ lostAge' = None
    /\ fresh' = {}

PollStartupActivation ==
    /\ ~activated /\ serviceReady
    /\ activated' = TRUE
    /\ CallReinitialize
    /\ UNCHANGED <<moving, status, tickDue, serviceReady>>

(* The tick's own recomputation and what it then makes of LOST.            *)
Ticked == Recomputed(spread, cov, cloudAge, poseAge)

ShouldReinit ==
    /\ Ticked = LOST
    /\ LostAgeAfter(LOST) >= LostDuration
    /\ reinitAge = None \/ reinitAge >= Cooldown

Tick ==
    /\ tickDue
    /\ tickDue' = FALSE
    /\ IF ShouldReinit /\ serviceReady
       THEN CallReinitialize
       ELSE /\ state' = Ticked
            /\ lostAge' = LostAgeAfter(Ticked)
            /\ UNCHANGED <<readings, reinitAge>>
    /\ status' = state'
    /\ UNCHANGED <<moving, activated, serviceReady>>

-----------------------------------------------------------------------------
(* AMCL and time *)

ServiceChanges ==
    /\ serviceReady' = ~serviceReady
    /\ UNCHANGED <<state, readings, lostAge, reinitAge, moving, activated,
                   status, tickDue>>

(* The timer fires before time moves past its period.                      *)
Elapse ==
    /\ ~tickDue
    /\ tickDue' = TRUE
    /\ cloudAge' = Older(cloudAge, ReadingAgeCap)
    /\ poseAge' = Older(poseAge, ReadingAgeCap)
    /\ lostAge' = Older(lostAge, LostDuration)
    /\ reinitAge' = Older(reinitAge, Cooldown)
    /\ UNCHANGED <<state, spread, cov, fresh, moving, activated, status,
                   serviceReady>>

Next ==
    \/ \E sp \in Spreads : OnParticleCloud(sp)
    \/ \E po \in Poses : OnAmclPose(po)
    \/ \E m \in BOOLEAN : OnOdom(m)
    \/ PollStartupActivation \/ Tick
    \/ ServiceChanges \/ Elapse

(* The node's timers and time itself; nothing is asked of AMCL.            *)
Fairness == WF_vars(PollStartupActivation) /\ WF_vars(Tick) /\ WF_vars(Elapse)

Spec == Init /\ [][Next]_vars /\ Fairness

-----------------------------------------------------------------------------
(* The announced statuses follow the contract their listeners rely on:     *)
(* through every order of messages, silences and requests, the unlocalized *)
(* statuses come back by way of LOST and GLOBAL only                       *)
(* (localization_state.py:45-47, 274).                                     *)
AnnouncesContract == Contract!Spec

(* USABLE is announced only on readings received since the last request to *)
(* start over, both narrow and neither older than the robot's motion       *)
(* allows: no request leaves a stored reading or an age behind, and "the   *)
(* state machine re-derives CONVERGING/USABLE from the next ...            *)
(* /particle_cloud and /amcl_pose messages" (localization_state.py:181).   *)
UsableIsFresh ==
    [][Tick /\ status' = USABLE =>
          /\ fresh = {"cloud", "pose"}
          /\ Usable(spread, cov)
          /\ moving => cloudAge <= StaleTimeout /\ poseAge <= StaleTimeout
          /\ cloudAge <= StationaryTimeout /\ poseAge <= StationaryTimeout]_vars

(* AMCL is asked to start over again and again for as long as the robot    *)
(* stays lost and the service is there: "the robot recovers after being    *)
(* moved without any operator action" (localization_state.py:11-14).       *)
LossIsRecovered ==
    (state = LOST /\ serviceReady) ~> (state # LOST \/ ~serviceReady)

=============================================================================
