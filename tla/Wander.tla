------------------------------- MODULE Wander -------------------------------
(***************************************************************************)
(* rambla_traversal with the safety node it drives through: TraversalNode  *)
(* steers by the last scan, yields while it is told that MANUAL is         *)
(* engaged, and ends its run with one zero command.                        *)
(*                                                                         *)
(* The two nodes are processes of their own.  Commands on /cmd_vel_raw and *)
(* changes on /control_authority are under way for any time, in order; a   *)
(* repeated mode changes nothing and is left out.  Each node gets the      *)
(* scans at its own times.                                                 *)
(***************************************************************************)
EXTENDS SafetyNode

CONSTANTS
    ForwardSpeed, TurnSpeed,
    TurnThreshold,   \* turn_threshold_m
    WanderFloor,     \* min_valid_range_m of WanderBehavior
    WanderArc,       \* front_arc_deg of WanderBehavior, half widths both
    SideArc,         \* side_arc_deg
    Duration,        \* traversal_duration_s
    UnderWay         \* bound: messages under way on a topic

ASSUME WanderAssumption ==
    /\ ForwardSpeed \in Linear /\ ForwardSpeed > 0
    /\ TurnSpeed \in Angular /\ -TurnSpeed \in Angular
    /\ StopDistance <= TurnThreshold /\ TurnThreshold \in Nat
    /\ WanderFloor \in Nat
    /\ FrontArc <= WanderArc /\ WanderArc \in 0..HalfTurn
    /\ HalfTurn % 2 = 0 /\ SideArc \in 0..HalfTurn
    /\ Duration \in Nat /\ UnderWay \in Nat \ {0}

VARIABLES
    scan,            \* TraversalNode._latest_scan
    turning,         \* _turning_direction: 1 left, -1 right, 0 None
    elapsed,         \* now - _start_time, or Never
    finished,        \* _finished
    told,            \* _authority_mode
    raw,             \* commands under way on /cmd_vel_raw
    notices          \* modes under way on /control_authority

wanderVars == <<scan, turning, elapsed, finished, told>>
wires == <<raw, notices>>
allVars == <<vars, wanderVars, wires>>

WTypeOK ==
    /\ TypeOK
    /\ scan \in Scans \cup {NoScan}
    /\ turning \in {-1, 0, 1}
    /\ elapsed \in 0..Duration \cup {Never}
    /\ finished \in BOOLEAN
    /\ told \in Mode
    /\ raw \in Seq(Cmd)
    /\ notices \in Seq(Mode)

WInit ==
    /\ Init
    /\ scan = NoScan
    /\ turning = 0
    /\ elapsed = Never
    /\ finished = FALSE
    /\ told = AUTO
    /\ raw = <<>> /\ notices = <<>>

-----------------------------------------------------------------------------
(* WanderBehavior *)

(* Mutant: the angle is compared as it comes.                              *)
InArcUnwrapped(angle, center, halfWidth) ==
    -halfWidth <= angle - center /\ angle - center <= halfWidth

InArc(angle, center, halfWidth) ==
    LET diff == Wrapped(Wrapped(angle) - center)
    IN  -halfWidth <= diff /\ diff <= halfWidth

(* _arc_min: the nearest valid reading of an arc, if any.                  *)
ArcMin(s, center, halfWidth) ==
    LET relevant ==
            {s.ranges[i] : i \in {j \in DOMAIN s.ranges :
                /\ s.ranges[j] # NaN
                /\ s.ranges[j] >= WanderFloor
                /\ InArc(Angle(s, j), center, halfWidth)}}
    IN  IF s.increment = 0 \/ relevant = {} THEN NoRange ELSE Min(relevant)

FrontClear == LET front == ArcMin(scan, 0, WanderArc)
              IN  front = NoRange \/ front >= TurnThreshold

(* The side with more room; nothing in its arc is all the room there is.   *)
OpenSide ==
    LET left == ArcMin(scan, HalfTurn \div 2, SideArc)
        right == ArcMin(scan, -(HalfTurn \div 2), SideArc)
    IN  IF left = NoRange \/ (right # NoRange /\ left >= right) THEN 1 ELSE -1

Turning == IF FrontClear THEN 0 ELSE IF turning = 0 THEN OpenSide ELSE turning

(* next_command: ahead while that is clear, else keep turning one way.     *)
NextCommand ==
    IF FrontClear THEN [linear |-> ForwardSpeed, angular |-> 0]
    ELSE [linear |-> 0, angular |-> Turning * TurnSpeed]

-----------------------------------------------------------------------------
(* TraversalNode *)

WanderOnScan(s) ==
    /\ scan' = s
    /\ UNCHANGED <<vars, turning, elapsed, finished, told, wires>>

Publish(cmd) == Len(raw) < UnderWay /\ raw' = Append(raw, cmd)

Active == ~finished /\ told # MANUAL
RunTime == IF elapsed = Never THEN 0 ELSE elapsed

(* _tick while the run lasts; before the first scan it only starts it.     *)
WanderTick ==
    /\ Active
    /\ RunTime < Duration
    /\ elapsed' = RunTime
    /\ IF scan = NoScan THEN UNCHANGED <<turning, raw>>
       ELSE turning' = Turning /\ Publish(NextCommand)
    /\ UNCHANGED <<vars, scan, finished, told, notices>>

(* _tick when the budget is used up.                                       *)
FinishRun ==
    /\ Active
    /\ RunTime >= Duration
    /\ elapsed' = RunTime
    /\ finished' = TRUE
    /\ Publish(Zero)
    /\ UNCHANGED <<vars, scan, turning, told, notices>>

(* _on_control_authority                                                   *)
WanderOnAuthority ==
    /\ notices # <<>>
    /\ told' = Head(notices)
    /\ notices' = Tail(notices)
    /\ UNCHANGED <<vars, scan, turning, elapsed, finished, raw>>

-----------------------------------------------------------------------------
(* The safety node, fed by the wire instead of by any command.             *)
RawArrives ==
    /\ raw # <<>>
    /\ OnCmdVelRaw(Head(raw))
    /\ raw' = Tail(raw)
    /\ UNCHANGED <<wanderVars, notices>>

PublishAndNotify ==
    /\ PublishCmdVel
    /\ IF authority' = authority THEN UNCHANGED notices
       ELSE Len(notices) < UnderWay /\ notices' = Append(notices, authority')
    /\ UNCHANGED <<wanderVars, raw>>

TimePasses ==
    /\ Elapse
    /\ elapsed' = IF elapsed = Never THEN Never ELSE AgeUpTo(Duration, elapsed)
    /\ UNCHANGED <<scan, turning, finished, told, wires>>

SafetyAlone ==
    /\ \/ \E s \in Scans : OnScan(s)
       \/ \E side \in Sides, hasContact \in BOOLEAN : OnBumper(side, hasContact)
       \/ \E cmd \in Cmd : OnCmdVelTeleop(cmd)
    /\ UNCHANGED <<wanderVars, wires>>

WNext ==
    \/ \E s \in Scans : WanderOnScan(s)
    \/ WanderTick \/ FinishRun \/ WanderOnAuthority
    \/ RawArrives \/ PublishAndNotify \/ TimePasses \/ SafetyAlone

WSpec == WInit /\ [][WNext]_allVars

(***************************************************************************)
(* The run ends at rest: once the one zero that ends it has arrived, the   *)
(* autonomous command is zero, though that zero may come during a MANUAL   *)
(* the traversal had not heard of, when it is discarded                    *)
(* (traversal_node.py:13-18, 107-109).                                     *)
(***************************************************************************)
EndOfRunIsRest == finished /\ raw = <<>> => autoCmd = Zero

(* Something ahead that the monitor stops for, floor or farther away.      *)
StopsFor(s, floor) ==
    /\ s.increment # 0
    /\ \E i \in DOMAIN s.ranges :
          /\ s.ranges[i] # NaN
          /\ s.ranges[i] >= floor
          /\ s.ranges[i] < StopDistance
          /\ Ahead(Angle(s, i))

DrivesAhead == Len(raw') > Len(raw) /\ raw'[Len(raw')].linear > 0

(***************************************************************************)
(* Wandering needs no stop by the safety node for what it takes for an     *)
(* obstacle: it drives ahead on a scan only if nothing there at or beyond  *)
(* its own noise floor is near enough for the monitor to stop              *)
(* (wander_behavior.py:24-28).  Nearer than that floor (0.3 m, where the   *)
(* monitor's is 0.12 m) it drives on and is held by the monitor.           *)
(***************************************************************************)
SteersBeforeStop == [][DrivesAhead => ~StopsFor(scan, WanderFloor)]_allVars

(* The same for everything the monitor stops for, as the comment has it;   *)
(* an obstacle between the two floors refutes it.                          *)
NeverNeedsTheStop == [][DrivesAhead => ~StopsFor(scan, MinValidRange)]_allVars
=============================================================================
