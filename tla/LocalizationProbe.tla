------------------------- MODULE LocalizationProbe -------------------------
(***************************************************************************)
(* rambla_localization's probe: while the robot is not localized and at    *)
(* rest, turns it slowly on the spot, and from the second attempt on first *)
(* drives it a little, so that AMCL sees something new.  A bounded number  *)
(* of attempts, then it gives up until the next edge into GLOBAL.          *)
(*                                                                         *)
(* Each callback is one action.  The node does not tick the behaviour      *)
(* while somebody drives by hand, and the phase clock runs on meanwhile.   *)
(***************************************************************************)
EXTENDS Naturals

CONSTANTS
    GracePeriod,        \* grace_period_s
    TranslateDuration,  \* translate_duration_s
    AttemptDuration,    \* attempt_duration_s
    ObserveDuration,    \* observe_duration_s
    MaxAttempts,        \* max_attempts
    NoTime              \* None, for _stationary_since and _phase_start_time

VARIABLES
    mode,         \* ProbeBehavior._mode
    heard,        \* _status; None is kept as UNINITIALIZED, which acts alike
    attempts,     \* _attempts_used
    restAge,      \* now - _stationary_since
    phaseAge,     \* now - _phase_start_time
    manual,       \* the node's _authority_mode is MANUAL
    probeCmd,     \* the last velocity published: "stop", "drive" or "turn"
    probeDue,     \* the node's timer is about to fire
    \* history, for the properties only: since the last edge into GLOBAL
    drives, turns \* the phases TRANSLATING and PROBING begun

history == <<drives, turns>>
probeVars == <<mode, heard, attempts, restAge, phaseAge, manual, probeCmd,
               probeDue, history>>

IDLE == "IDLE"
TRANSLATING == "TRANSLATING"
PROBING == "PROBING"
OBSERVING == "OBSERVING"
EXHAUSTED == "EXHAUSTED"
Phases == {TRANSLATING, PROBING, OBSERVING}
ActiveStatuses == {"GLOBAL", "CONVERGING"}

ASSUME ProbeAssumption ==
    /\ {GracePeriod, TranslateDuration, AttemptDuration, ObserveDuration}
          \subseteq Nat
    /\ MaxAttempts \in Nat \ {0}
    /\ NoTime \notin Nat

Larger(a, b) == IF a < b THEN b ELSE a
PhaseCap == Larger(TranslateDuration, Larger(AttemptDuration, ObserveDuration))
Aged(age, cap) == IF age # NoTime /\ age < cap THEN age + 1 ELSE age

ProbeTypeOK ==
    /\ mode \in {IDLE, EXHAUSTED} \cup Phases
    /\ attempts \in 0..MaxAttempts
    /\ restAge \in 0..GracePeriod \cup {NoTime}
    /\ phaseAge \in 0..PhaseCap \cup {NoTime}
    /\ {manual, probeDue} \subseteq BOOLEAN
    /\ probeCmd \in {"stop", "drive", "turn"}
    /\ phaseAge # NoTime <=> mode \in Phases
    /\ attempts = MaxAttempts <=> mode = EXHAUSTED

(* The constructor of ProbeBehavior, and that of its node.                 *)
BehaviorInit ==
    /\ mode = IDLE /\ heard = "UNINITIALIZED" /\ attempts = 0
    /\ restAge = NoTime /\ phaseAge = NoTime

ProbeInit ==
    /\ BehaviorInit
    /\ manual = FALSE /\ probeCmd = "stop" /\ probeDue = TRUE
    /\ drives = 0 /\ turns = 0

-----------------------------------------------------------------------------
(* The subscriptions *)

FreshGlobal(s) == s = "GLOBAL" /\ heard # "GLOBAL"

(* Mutant: the edge clears the attempts but not the mode.                  *)
OnStatusNotRearming(s) ==
    /\ heard' = s
    /\ IF FreshGlobal(s)
       THEN drives' = 0 /\ turns' = 0
            /\ attempts' = IF mode = EXHAUSTED THEN attempts ELSE 0
       ELSE UNCHANGED <<attempts, history>>
    /\ UNCHANGED <<mode, phaseAge, restAge, manual, probeCmd, probeDue>>

OnStatus(s) ==
    /\ heard' = s
    /\ IF FreshGlobal(s)
       THEN /\ attempts' = 0 /\ mode' = IDLE /\ phaseAge' = NoTime
            /\ drives' = 0 /\ turns' = 0
       ELSE UNCHANGED <<attempts, mode, phaseAge, history>>
    /\ UNCHANGED <<restAge, manual, probeCmd, probeDue>>

OnVelocity(moving) ==
    /\ restAge' = IF moving THEN NoTime ELSE IF restAge = NoTime THEN 0 ELSE restAge
    /\ UNCHANGED <<mode, heard, attempts, phaseAge, manual, probeCmd, probeDue,
                   history>>

OnControlAuthority(m) ==
    /\ manual' = m
    /\ UNCHANGED <<mode, heard, attempts, restAge, phaseAge, probeCmd, probeDue,
                   history>>

-----------------------------------------------------------------------------
(* tick *)

Publish(cmd) == probeCmd' = cmd

(* Mutant: the first attempt drives, too.                                  *)
NextAttemptModeDriving(used) == TRANSLATING

NextAttemptMode(used) == IF used >= 1 THEN TRANSLATING ELSE PROBING

Begin(m) ==
    /\ mode' = m /\ phaseAge' = 0
    /\ drives' = IF m = TRANSLATING THEN drives + 1 ELSE drives
    /\ turns' = IF m = PROBING THEN turns + 1 ELSE turns

Hold == UNCHANGED <<mode, phaseAge, attempts, history>>

TickStopped ==
    /\ mode \in Phases /\ heard \notin ActiveStatuses
    /\ mode' = IDLE /\ phaseAge' = NoTime
    /\ Publish("stop")
    /\ UNCHANGED <<attempts, history>>

Rested == restAge # NoTime /\ restAge >= GracePeriod

TickIdle ==
    /\ mode = IDLE
    /\ IF heard \in ActiveStatuses /\ Rested
       THEN /\ Begin(NextAttemptMode(attempts))
            /\ Publish(IF mode' = TRANSLATING THEN "drive" ELSE "turn")
            /\ UNCHANGED attempts
       ELSE Hold /\ Publish("stop")

TickTranslating ==
    /\ mode = TRANSLATING /\ heard \in ActiveStatuses
    /\ IF phaseAge >= TranslateDuration
       THEN Begin(PROBING) /\ Publish("turn") /\ UNCHANGED attempts
       ELSE Hold /\ Publish("drive")

TickProbing ==
    /\ mode = PROBING /\ heard \in ActiveStatuses
    /\ IF phaseAge >= AttemptDuration
       THEN Begin(OBSERVING) /\ Publish("stop") /\ UNCHANGED attempts
       ELSE Hold /\ Publish("turn")

(* Mutant: the attempts run out one later.                                 *)
OutOfAttemptsLate(used) == used > MaxAttempts

OutOfAttempts(used) == used >= MaxAttempts

TickObserving ==
    /\ mode = OBSERVING /\ heard \in ActiveStatuses
    /\ Publish("stop")
    /\ IF phaseAge < ObserveDuration THEN Hold
       ELSE /\ attempts' = attempts + 1
            /\ IF OutOfAttempts(attempts')
               THEN mode' = EXHAUSTED /\ phaseAge' = NoTime /\ UNCHANGED history
               ELSE Begin(NextAttemptMode(attempts'))

TickExhausted == mode = EXHAUSTED /\ Hold /\ Publish("stop")

TickManual == Hold /\ UNCHANGED probeCmd

ProbeTick ==
    /\ probeDue
    /\ probeDue' = FALSE
    /\ IF manual THEN TickManual
       ELSE \/ TickStopped \/ TickIdle \/ TickTranslating \/ TickProbing
            \/ TickObserving \/ TickExhausted
    /\ UNCHANGED <<heard, restAge, manual>>

ProbeElapse ==
    /\ ~probeDue
    /\ probeDue' = TRUE
    /\ restAge' = Aged(restAge, GracePeriod)
    /\ phaseAge' = Aged(phaseAge, PhaseCap)
    /\ UNCHANGED <<mode, heard, attempts, manual, probeCmd, history>>
=============================================================================
