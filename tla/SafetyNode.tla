----------------------------- MODULE SafetyNode -----------------------------
(***************************************************************************)
(* rambla_safety: the one node that writes /cmd_vel.  ControlAuthority     *)
(* picks the autonomous (/cmd_vel_raw) or the manual (/cmd_vel_teleop)     *)
(* command, SafetyMonitor removes forward motion while a bumper or the     *)
(* laser reports an obstacle, and a timer publishes the result.            *)
(*                                                                         *)
(* rclpy.spin runs the callbacks one at a time, so each is one action, in  *)
(* any order the messages arrive.  Time advances by Elapse; clocks are     *)
(* kept as ages (time since an event, capped once nothing can tell the     *)
(* values apart) and deadlines as the time that remains.                   *)
(***************************************************************************)
EXTENDS ScanArc

CONSTANTS
    Linear, Angular,  \* velocities, of which only the sign is compared
    Sides,            \* the bumpers, left and right
    Scans,            \* the laser scans the environment may deliver
    ManualTimeout,    \* manual_timeout_s
    BumperTimeout,    \* bumper_contact_timeout_s
    PublishPeriod,    \* 1 / CMD_VEL_RATE_HZ
    Never             \* None, for last_manual_seen and a contact deadline

ASSUME SafetyAssumption ==
    /\ Linear \subseteq Int /\ 0 \in Linear
    /\ Angular \subseteq Int /\ 0 \in Angular
    /\ Scans \subseteq Scan
    /\ ManualTimeout \in Nat
    /\ BumperTimeout \in Nat
    /\ PublishPeriod \in Nat \ {0}
    /\ Never \notin Int

AUTO == "AUTO"
MANUAL == "MANUAL"
Mode == {AUTO, MANUAL}

Cmd == [linear : Linear, angular : Angular]
Zero == [linear |-> 0, angular |-> 0]

(* Past these ages nothing the node or a property compares can change.     *)
ManualAgeCap == ManualTimeout + PublishPeriod + 1
ContactAgeCap == BumperTimeout + PublishPeriod + 1

VARIABLES
    mode,          \* ControlAuthority._mode
    manualAge,     \* now - _last_manual_seen, or Never
    autoCmd,       \* _auto_cmd
    manualCmd,     \* _manual_cmd
    contactLeft,   \* per side: _bumper_*_contact_until - now, or Never
    frontRange,    \* SafetyMonitor._min_front_range
    sincePublish,  \* time since the publish timer last fired
    cmdVel,        \* the last /cmd_vel message
    authority,     \* the last /control_authority message
    \* what the world did, remembered for the properties only
    sinceTeleop,   \* time since a /cmd_vel_teleop message
    heardTeleop,   \* the last /cmd_vel_teleop message
    heardAuto,     \* the last /cmd_vel_raw message since AUTO was resumed
    sinceContact,  \* per side: time since the last message if it was contact
    seenScan       \* the last /scan message

authorityVars == <<mode, manualAge, autoCmd, manualCmd>>
monitorVars == <<contactLeft, frontRange>>
outputVars == <<cmdVel, authority>>
ghostVars == <<sinceTeleop, heardTeleop, heardAuto, sinceContact, seenScan>>
vars == <<authorityVars, monitorVars, sincePublish, outputVars, ghostVars>>

NoScan == [ranges |-> <<>>, angleMin |-> 0, increment |-> 0]
AgeUpTo(cap, age) == IF age < cap THEN age + 1 ELSE cap

TypeOK ==
    /\ mode \in Mode
    /\ manualAge \in 0..ManualAgeCap \cup {Never}
    /\ autoCmd \in Cmd
    /\ manualCmd \in Cmd
    /\ contactLeft \in [Sides -> 0..BumperTimeout \cup {Never}]
    /\ frontRange \in Nat \cup {NoRange}
    /\ sincePublish \in 0..PublishPeriod
    /\ cmdVel \in Cmd
    /\ authority \in Mode
    /\ sinceTeleop \in 0..ManualAgeCap
    /\ heardTeleop \in Cmd
    /\ heardAuto \in Cmd
    /\ sinceContact \in [Sides -> 0..ContactAgeCap]
    /\ seenScan \in Scans \cup {NoScan}

(* The constructors of ControlAuthority, SafetyMonitor and the node.       *)
AuthorityInit ==
    /\ mode = AUTO
    /\ manualAge = Never
    /\ autoCmd = Zero
    /\ manualCmd = Zero

MonitorInit ==
    /\ contactLeft = [s \in Sides |-> Never]
    /\ frontRange = NoRange

Init ==
    /\ AuthorityInit /\ MonitorInit
    /\ sincePublish = 0
    /\ cmdVel = Zero
    /\ authority = AUTO
    /\ sinceTeleop = ManualAgeCap
    /\ heardTeleop = Zero
    /\ heardAuto = Zero
    /\ sinceContact = [s \in Sides |-> ContactAgeCap]
    /\ seenScan = NoScan

-----------------------------------------------------------------------------
(* ControlAuthority *)

OnAutoCmd(cmd) ==
    /\ autoCmd' = IF mode = AUTO THEN cmd ELSE autoCmd
    /\ UNCHANGED <<mode, manualAge, manualCmd>>

(* Mutant: the takeover leaves the autonomous command in place.            *)
OnManualCmdKeepingAuto(cmd) ==
    /\ manualAge' = 0
    /\ mode' = MANUAL
    /\ manualCmd' = cmd
    /\ UNCHANGED autoCmd

OnManualCmd(cmd) ==
    /\ manualAge' = 0
    /\ mode' = MANUAL
    /\ autoCmd' = IF mode = AUTO THEN Zero ELSE autoCmd
    /\ manualCmd' = cmd

(* Mutant: a MANUAL that began never times out.                            *)
ManualTimedOutNever == mode = MANUAL /\ manualAge = Never

(* Mutant: released one instant early.                                     *)
ManualTimedOutAtLimit ==
    /\ mode = MANUAL
    /\ manualAge = Never \/ manualAge >= ManualTimeout

ManualTimedOut ==
    /\ mode = MANUAL
    /\ manualAge = Never \/ manualAge > ManualTimeout

(* Mutant: every tick in MANUAL counts as having heard the operator.       *)
TickRefreshing ==
    /\ mode' = IF ManualTimedOut THEN AUTO ELSE mode
    /\ manualCmd' = IF ManualTimedOut THEN Zero ELSE manualCmd
    /\ manualAge' = IF mode = MANUAL THEN 0 ELSE manualAge
    /\ UNCHANGED autoCmd

(* tick: release a silent MANUAL, then select.                             *)
Tick ==
    /\ mode' = IF ManualTimedOut THEN AUTO ELSE mode
    /\ manualCmd' = IF ManualTimedOut THEN Zero ELSE manualCmd
    /\ UNCHANGED <<manualAge, autoCmd>>

Selected == IF mode = MANUAL /\ ~ManualTimedOut THEN manualCmd ELSE autoCmd

-----------------------------------------------------------------------------
(* SafetyMonitor *)

(* Mutant: a contact deadline of the wrong length.                         *)
ContactDeadlineLong(hasContact) ==
    IF hasContact THEN BumperTimeout + 1 ELSE Never

ContactDeadline(hasContact) == IF hasContact THEN BumperTimeout ELSE Never

IsBlocked ==
    \/ \E s \in Sides : contactLeft[s] # Never /\ contactLeft[s] > 0
    \/ FrontTooClose(frontRange)

(* Mutant: the filter stops all linear motion, reverse included.           *)
FilterCmdBothWays(cmd) == IF IsBlocked THEN [cmd EXCEPT !.linear = 0] ELSE cmd

FilterCmd(cmd) ==
    IF IsBlocked /\ cmd.linear > 0 THEN [cmd EXCEPT !.linear = 0] ELSE cmd

-----------------------------------------------------------------------------
(* SafetyNode's callbacks *)

OnScan(scan) ==
    /\ frontRange' = MinFrontArcRange(scan)
    /\ seenScan' = scan
    /\ UNCHANGED <<authorityVars, contactLeft, sincePublish, outputVars,
                   sinceTeleop, heardTeleop, heardAuto, sinceContact>>

OnBumper(side, hasContact) ==
    /\ contactLeft' = [contactLeft EXCEPT ![side] = ContactDeadline(hasContact)]
    /\ sinceContact' = [sinceContact EXCEPT
                           ![side] = IF hasContact THEN 0 ELSE ContactAgeCap]
    /\ UNCHANGED <<authorityVars, frontRange, sincePublish, outputVars,
                   sinceTeleop, heardTeleop, heardAuto, seenScan>>

OnCmdVelRaw(cmd) ==
    /\ OnAutoCmd(cmd)
    /\ heardAuto' = cmd
    /\ UNCHANGED <<monitorVars, sincePublish, outputVars,
                   sinceTeleop, heardTeleop, sinceContact, seenScan>>

OnCmdVelTeleop(cmd) ==
    /\ OnManualCmd(cmd)
    /\ sinceTeleop' = 0
    /\ heardTeleop' = cmd
    /\ UNCHANGED <<monitorVars, sincePublish, outputVars, heardAuto,
                   sinceContact, seenScan>>

PublishCmdVel ==
    /\ sincePublish = PublishPeriod
    /\ sincePublish' = 0
    /\ Tick
    /\ cmdVel' = FilterCmd(Selected)
    /\ authority' = mode'
    /\ heardAuto' = IF mode' # mode THEN Zero ELSE heardAuto
    /\ UNCHANGED <<monitorVars, sinceTeleop, heardTeleop, sinceContact,
                   seenScan>>

(* The timer is due at PublishPeriod and fires before time moves on.       *)
Elapse ==
    /\ sincePublish < PublishPeriod
    /\ sincePublish' = sincePublish + 1
    /\ manualAge' = IF manualAge = Never THEN Never
                    ELSE AgeUpTo(ManualAgeCap, manualAge)
    /\ contactLeft' = [s \in Sides |->
                          IF contactLeft[s] = Never \/ contactLeft[s] = 0
                          THEN contactLeft[s] ELSE contactLeft[s] - 1]
    /\ sinceTeleop' = AgeUpTo(ManualAgeCap, sinceTeleop)
    /\ sinceContact' = [s \in Sides |-> AgeUpTo(ContactAgeCap, sinceContact[s])]
    /\ UNCHANGED <<mode, autoCmd, manualCmd, frontRange, outputVars,
                   heardTeleop, heardAuto, seenScan>>

Next ==
    \/ \E scan \in Scans : OnScan(scan)
    \/ \E side \in Sides, hasContact \in BOOLEAN : OnBumper(side, hasContact)
    \/ \E cmd \in Cmd : OnCmdVelRaw(cmd)
    \/ \E cmd \in Cmd : OnCmdVelTeleop(cmd)
    \/ PublishCmdVel
    \/ Elapse

Fairness == WF_vars(PublishCmdVel) /\ WF_vars(Elapse)

Spec == Init /\ [][Next]_vars /\ Fairness

-----------------------------------------------------------------------------
(* What the world shows must stop forward motion: a bumper whose last word *)
(* was a contact less than BumperTimeout ago, or a scan with an obstacle.  *)
ObstacleReported ==
    \/ \E s \in Sides : sinceContact[s] < BumperTimeout
    \/ seenScan.increment # 0 /\ ObstacleAhead(seenScan)

(* The last message of the source that published under authority a.        *)
Heard(a) == IF a = MANUAL THEN heardTeleop ELSE heardAuto

(* /cmd_vel never carries forward motion while an obstacle is reported,    *)
(* whoever is driving (safety_node.py:13-15): the monitor's cached front   *)
(* range and deadlines must agree with the messages they were made from.   *)
NoForwardIntoObstacle ==
    [][PublishCmdVel => (ObstacleReported => cmdVel'.linear <= 0)]_vars

(* The filter takes nothing else away: with no obstacle reported, and for  *)
(* every reverse or rotation (the recovery actions), the selected source's *)
(* last message goes out as it came, so a contact that ended or an old     *)
(* scan never leaves the robot stuck (safety_monitor.py:39-48, 91-96).     *)
OnlyForwardIsStopped ==
    [][PublishCmdVel =>
          (~ObstacleReported \/ Heard(authority)'.linear <= 0
              => cmdVel' = Heard(authority)')]_vars

(* Nothing is replayed: what is published is the last message the selected *)
(* source sent and, for the autonomous source, sent since MANUAL ended, or *)
(* no motion at all (control_authority.py:21-26).                          *)
NoStaleReplay ==
    [][PublishCmdVel =>
          \/ cmdVel' = Heard(authority)'
          \/ cmdVel' = [Heard(authority)' EXCEPT !.linear = 0]]_vars

(* Authority follows the recency of teleop messages and nothing else: the  *)
(* takeover is immediate and the release waits out the whole timeout       *)
(* (control_authority.py:12-19).                                           *)
AuthorityIsRecency ==
    [][PublishCmdVel =>
          (authority' = MANUAL <=> sinceTeleop <= ManualTimeout)]_vars

(* The motion on /cmd_vel never outlives the operator: MANUAL stays on the *)
(* wire at most one publish period after the manual timeout.               *)
ManualMotionExpires ==
    authority = MANUAL => sinceTeleop <= ManualTimeout + PublishPeriod

(* MANUAL cannot be held by silence: unless teleop messages keep coming,   *)
(* AUTO is published again.                                                *)
SilenceReleasesManual ==
    (authority = MANUAL /\ sinceTeleop > 0)
        ~> (authority = AUTO \/ sinceTeleop = 0)

=============================================================================
