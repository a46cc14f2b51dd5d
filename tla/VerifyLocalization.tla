------------------------- MODULE VerifyLocalization -------------------------
(***************************************************************************)
(* rambla_localization's verify_localization: the harness that runs one of *)
(* three scripted scenarios against the live monitor and probe and reports *)
(* PASS or FAIL.  The nodes it watches are taken at their contract         *)
(* (ProbeContract, which Localization implements).                         *)
(*                                                                         *)
(* The harness has one thread.  It handles messages only inside spin_once; *)
(* its calls to Gazebo block, and what is published meanwhile waits in a   *)
(* bounded queue that drops the oldest.  A monitor tick publishes a status *)
(* and then the count of its requests to start over, and the harness reads *)
(* them in that order.                                                     *)
(***************************************************************************)
EXTENDS ProbeContract, Integers, Sequences

CONSTANTS
    Maps,            \* footprints [w, h] the active map may have
    World,           \* the world's footprint, or None when it is not known
    ConvergeTimeout, DetectTimeout, RecoverTimeout, StallTimeout,
    QueueDepth,      \* of the /localization_status subscription
    MaxCount,        \* a bound on requests to start over, for TLC
    None

ASSUME DriverAssumption ==
    /\ Maps \subseteq [w : Nat, h : Nat]
    /\ World \in [w : Nat, h : Nat] \cup {None}
    /\ {ConvergeTimeout, DetectTimeout, RecoverTimeout, StallTimeout}
          \subseteq Nat \ {0}
    /\ QueueDepth \in Nat \ {0} /\ MaxCount \in Nat
    /\ None \notin Nat \cup Status \cup {"pass", "fail"}

VARIABLES
    count,        \* the monitor's _reinit_count
    queue,        \* [status, count] published and not yet read
    statusSeen,   \* Watcher.status
    countNext,    \* the count of the tick whose status was read last, unread
    countSeen,    \* Watcher.metrics['reinit_count']
    probeSeen,    \* Watcher.probe['mode'] is EXHAUSTED
    scenario,     \* args.scenario
    step,         \* where the scenario is
    waited,       \* time since wait_for_state was called
    stalledFor,   \* time since stalled_since, or None
    spinDue,      \* spin_once returns before more time has passed
    leftUsable,   \* report['left_usable']
    countBefore,  \* report['reinit_count_before']
    verdict,      \* report['pass'], or None
    \* history, for the properties only
    usableAt,     \* the count published with the USABLE that ended each wait
    strandedFor   \* how long statuses read were active and probe exhausted

world == <<status, exhausted, count>>
watcher == <<statusSeen, countNext, countSeen, probeSeen>>
report == <<leftUsable, countBefore, verdict>>
driverVars == <<world, queue, watcher, scenario, step, waited, stalledFor,
                spinDue, report, usableAt, strandedFor>>

Scenarios == {"cold_start", "kidnap", "ekf_drift"}
Waits == {"converging", "detecting", "recovering"}
Steps == Waits \cup {"preflight", "teleporting", "measuring", "done"}

Timeout == [converging |-> ConvergeTimeout, detecting |-> DetectTimeout,
            recovering |-> RecoverTimeout]
WaitCap == ConvergeTimeout + DetectTimeout + RecoverTimeout
Later(age, cap) == IF age # None /\ age < cap THEN age + 1 ELSE age

DriverTypeOK ==
    /\ status \in Status /\ exhausted \in BOOLEAN /\ count \in 0..MaxCount
    /\ Len(queue) <= QueueDepth
    /\ statusSeen \in Status \cup {None}
    /\ countNext \in 0..MaxCount \cup {None}
    /\ countSeen \in 0..MaxCount /\ probeSeen \in BOOLEAN
    /\ scenario \in Scenarios /\ step \in Steps
    /\ waited \in 0..WaitCap
    /\ stalledFor \in 0..StallTimeout \cup {None}
    /\ verdict \in {"pass", "fail", None}
    /\ verdict = None <=> step # "done"

(* The stack is up when the harness starts.                                *)
DriverInit ==
    /\ status \in Status \ {UNINITIALIZED} /\ exhausted = FALSE /\ count = 0
    /\ queue = <<>>
    /\ statusSeen = None /\ countNext = None /\ countSeen = 0
    /\ probeSeen = FALSE
    /\ scenario \in Scenarios /\ step = "preflight"
    /\ waited = 0 /\ stalledFor = None /\ spinDue = TRUE
    /\ leftUsable = FALSE /\ countBefore = None /\ verdict = None
    /\ usableAt = <<>> /\ strandedFor = None

-----------------------------------------------------------------------------
(* The nodes under test.  A LOST that ends was ended by a request.         *)

KeepLast(q) == IF Len(q) > QueueDepth THEN Tail(q) ELSE q

(* Only a harness that is blocked lets its queue overflow.                 *)
MonitorTicks ==
    /\ step # "done"
    /\ Len(queue) < QueueDepth \/ step = "teleporting"
    /\ \E s \in Status : Heard(s)
    /\ count' = IF status = LOST /\ status' = GLOBAL THEN count + 1 ELSE count
    /\ count' <= MaxCount
    /\ queue' = KeepLast(Append(queue, [status |-> status', count |-> count']))
    /\ UNCHANGED <<watcher, scenario, step, waited, stalledFor, spinDue, report,
                   usableAt, strandedFor>>

ProbeGivesUp ==
    /\ step # "done"
    /\ GiveUp
    /\ UNCHANGED <<count, queue, watcher, scenario, step, waited, stalledFor,
                   spinDue, report, usableAt, strandedFor>>

-----------------------------------------------------------------------------
(* spin_once: one message, or none *)

ReadStatus ==
    /\ queue # <<>> /\ countNext = None
    /\ statusSeen' = Head(queue).status
    /\ countNext' = Head(queue).count
    /\ queue' = Tail(queue)
    /\ UNCHANGED <<countSeen, probeSeen>>

ReadMetrics ==
    /\ countNext # None
    /\ countSeen' = countNext /\ countNext' = None
    /\ UNCHANGED <<queue, statusSeen, probeSeen>>

ReadProbe ==
    /\ probeSeen' = exhausted
    /\ UNCHANGED <<queue, statusSeen, countNext, countSeen>>

ReadNothing == UNCHANGED <<queue, watcher>>

SpinOnce ==
    /\ ReadStatus \/ ReadMetrics \/ ReadProbe \/ ReadNothing
    /\ spinDue' = FALSE
    /\ strandedFor' = IF statusSeen' \in Active /\ probeSeen'
                      THEN IF strandedFor = None THEN 0 ELSE strandedFor
                      ELSE None

-----------------------------------------------------------------------------
(* The scenarios' ends and waits *)

Finish(pass) ==
    /\ step' = "done" /\ verdict' = IF pass THEN "pass" ELSE "fail"
    /\ UNCHANGED <<waited, stalledFor>>

Wait(s) ==
    step' = s /\ waited' = 0 /\ stalledFor' = None /\ UNCHANGED verdict

(* check_map_world_match: a map larger than the world by three tenths does *)
(* not belong to it; a smaller one may.                                    *)
MapFits(m) ==
    World # None => 10 * m.w <= 13 * World.w /\ 10 * m.h <= 13 * World.h

(* Every required topic heard in time, a map that can be read and fits.    *)
Preflight ==
    /\ step = "preflight"
    /\ \/ /\ statusSeen # None
          /\ \E m \in Maps : IF MapFits(m) THEN Wait("converging") ELSE Finish(FALSE)
       \/ Finish(FALSE)
    /\ UNCHANGED <<world, queue, watcher, scenario, spinDue, leftUsable,
                   countBefore, usableAt, strandedFor>>

PreflightSpin ==
    /\ step = "preflight" /\ statusSeen = None
    /\ SpinOnce
    /\ UNCHANGED <<world, scenario, step, waited, stalledFor, report, usableAt>>

Target == IF step = "detecting" THEN {DEGRADED, LOST} \cup Active ELSE {USABLE}

StallChecked == step # "detecting" /\ statusSeen' \in Active

(* What follows a wait that ended in a target status or not.               *)
AfterConverging(reached) ==
    /\ step = "converging"
    /\ IF ~reached THEN Finish(FALSE)
       ELSE Wait(IF scenario = "kidnap" THEN "teleporting" ELSE "measuring")
    /\ countBefore' = IF reached THEN countSeen' ELSE countBefore
    /\ UNCHANGED leftUsable

AfterDetecting(reached) ==
    /\ step = "detecting"
    /\ Wait("recovering")
    /\ leftUsable' = reached /\ UNCHANGED countBefore

AfterRecovering(reached) ==
    /\ step = "recovering"
    /\ IF reached THEN Wait("measuring") ELSE Finish(FALSE)
    /\ UNCHANGED <<leftUsable, countBefore>>

AfterWait(reached) ==
    AfterConverging(reached) \/ AfterDetecting(reached) \/ AfterRecovering(reached)

(* Mutant: a probe that has not given up restarts the wait's own clock.    *)
WatchdogExtending ==
    /\ stalledFor' = IF StallChecked /\ probeSeen' /\ stalledFor = None
                     THEN 0 ELSE stalledFor
    /\ waited' = IF StallChecked /\ ~probeSeen' THEN 0 ELSE waited
    /\ UNCHANGED <<step, report>>

(* The watchdog: stalledFor is restarted by another mode of the probe, and *)
(* left alone when the status is not an active one.                        *)
Watchdog ==
    /\ stalledFor' = IF ~StallChecked THEN stalledFor
                     ELSE IF ~probeSeen' THEN None
                     ELSE IF stalledFor = None THEN 0 ELSE stalledFor
    /\ UNCHANGED <<step, waited, report>>

Stalls == /\ StallChecked /\ probeSeen'
          /\ stalledFor # None /\ stalledFor >= StallTimeout

WaitSpin ==
    /\ step \in Waits /\ waited < Timeout[step]
    /\ SpinOnce
    /\ IF statusSeen' \in Target THEN AfterWait(TRUE)
       ELSE IF Stalls THEN AfterWait(FALSE)
       ELSE Watchdog
    /\ usableAt' = IF step # "detecting" /\ statusSeen' \in Target
                   THEN Append(usableAt, IF countNext' = None THEN countSeen'
                                         ELSE countNext')
                   ELSE usableAt
    /\ UNCHANGED <<world, scenario>>

WaitTimesOut ==
    /\ step \in Waits /\ waited >= Timeout[step]
    /\ AfterWait(FALSE)
    /\ UNCHANGED <<world, queue, watcher, scenario, spinDue, usableAt,
                   strandedFor>>

-----------------------------------------------------------------------------
(* Blocking calls and measurements *)

(* pick_kidnap_target and gz_teleport, which may not be acknowledged.      *)
Teleport ==
    /\ step = "teleporting"
    /\ Wait("detecting") \/ Finish(FALSE)
    /\ UNCHANGED <<world, queue, watcher, scenario, spinDue, leftUsable,
                   countBefore, usableAt, strandedFor>>

(* Mutant: any count at all passes for a new one.                          *)
ReinitIssuedAnyhow == countSeen >= countBefore

ReinitIssued == countSeen > countBefore

(* measure_delta_accuracy: a measurement that is missing passes, as a good *)
(* one does.                                                               *)
MeasureAccuracy ==
    scenario = "cold_start" /\ \E good \in BOOLEAN : Finish(good)

(* Without its baseline or samples a drift run fails, as with bad ones.    *)
MeasureDrift ==
    scenario = "ekf_drift" /\ \E good \in BOOLEAN : Finish(good)

(* The accuracy after a recovery is reported and not judged.               *)
JudgeRecovery ==
    scenario = "kidnap" /\ Finish(leftUsable /\ ReinitIssued)

Measure ==
    /\ step = "measuring"
    /\ MeasureAccuracy \/ MeasureDrift \/ JudgeRecovery
    /\ UNCHANGED <<world, queue, watcher, scenario, spinDue, leftUsable,
                   countBefore, usableAt, strandedFor>>

(* main: an exception in a scenario is a failure.                          *)
Raise ==
    /\ step \in Steps \ {"done"}
    /\ Finish(FALSE)
    /\ UNCHANGED <<world, queue, watcher, scenario, spinDue, leftUsable,
                   countBefore, usableAt, strandedFor>>

Elapse ==
    /\ step \in Waits /\ ~spinDue
    /\ spinDue' = TRUE
    /\ waited' = Later(waited, WaitCap)
    /\ stalledFor' = Later(stalledFor, StallTimeout)
    /\ strandedFor' = Later(strandedFor, StallTimeout)
    /\ UNCHANGED <<world, queue, watcher, scenario, step, report, usableAt>>

Done == step = "done" /\ UNCHANGED driverVars

DriverNext ==
    \/ MonitorTicks \/ ProbeGivesUp
    \/ Preflight \/ PreflightSpin \/ WaitSpin \/ WaitTimesOut
    \/ Teleport \/ Measure \/ Raise \/ Elapse
    \/ Done

Harness == Preflight \/ WaitSpin \/ WaitTimesOut \/ Teleport \/ Measure

(* The harness runs, and time passes; nothing is asked of the nodes.       *)
DriverSpec ==
    DriverInit /\ [][DriverNext]_driverVars
    /\ WF_driverVars(Harness) /\ WF_driverVars(Elapse)

-----------------------------------------------------------------------------
(* A kidnap scenario that passes has seen a recovery: the monitor asked    *)
(* AMCL to start over after the USABLE that counted as converged and       *)
(* before the USABLE that counted as recovered (verify_localization.py:    *)
(* 491-495), whatever the queue held or dropped while Gazebo was called.   *)
KidnapPassIsRecovery ==
    verdict = "pass" /\ scenario = "kidnap" =>
        Len(usableAt) = 2 /\ usableAt[1] < usableAt[2]

(* Every scenario comes to a verdict, whatever the nodes do.               *)
VerdictIsReached == <>(verdict # None)

(* A wait that the watchdog ends was stranded for the whole stall timeout: *)
(* "once the probe reports EXHAUSTED while stuck in GLOBAL/CONVERGING for  *)
(* stall_timeout_s" (verify_localization.py:341-344).                      *)
StallIsUninterrupted ==
    [][WaitSpin /\ Stalls /\ statusSeen' \notin Target =>
          strandedFor # None /\ strandedFor >= StallTimeout]_driverVars

=============================================================================
