------------------------------ MODULE ScanArc ------------------------------
(***************************************************************************)
(* The pure geometry of SafetyMonitor._min_front_arc_range: which readings *)
(* of a laser scan lie in the front arc, and the nearest of them.          *)
(*                                                                         *)
(* Angles are integers in a unit that divides the turn evenly (the code    *)
(* uses radians; only sums, the modulo and comparisons matter).  Ranges    *)
(* are naturals or NaN, the reading the code recognises by r # r.          *)
(***************************************************************************)
EXTENDS Integers, Sequences, FiniteSetsExt

CONSTANTS
    HalfTurn,       \* pi, in the angle unit
    FrontArc,       \* front_arc_deg, the half width of the front arc
    MinValidRange,  \* min_valid_range_m: nearer readings are noise
    StopDistance,   \* stop_distance_m: nearer obstacles block forward motion
    NaN,            \* an invalid reading
    NoRange         \* None: nothing relevant in the arc

ASSUME ScanArcAssumption ==
    /\ HalfTurn \in Nat \ {0}
    /\ FrontArc \in 0..HalfTurn
    /\ MinValidRange \in Nat
    /\ StopDistance \in Nat
    /\ NaN \notin Nat
    /\ NoRange \notin Nat

Scan == [ranges : Seq(Nat \cup {NaN}), angleMin : Int, increment : Int]

(* The angle of reading i, the first one being reading 1 here and 0 there. *)
Angle(scan, i) == scan.angleMin + (i - 1) * scan.increment

(* Mutant: the angle taken as it comes.                                    *)
WrappedNot(angle) == angle

(* Normalised around straight ahead, so that the 0 / 2 pi seam is handled. *)
Wrapped(angle) == ((angle + HalfTurn) % (2 * HalfTurn)) - HalfTurn

InFrontArc(angle) == -FrontArc <= Wrapped(angle) /\ Wrapped(angle) <= FrontArc

(* The readings the code keeps: valid, not too near, and in the front arc. *)
Relevant(scan) ==
    {i \in DOMAIN scan.ranges :
        /\ scan.ranges[i] # NaN
        /\ scan.ranges[i] >= MinValidRange
        /\ InFrontArc(Angle(scan, i))}

RelevantRanges(scan) == {scan.ranges[i] : i \in Relevant(scan)}

MinFrontArcRange(scan) ==
    IF scan.increment = 0 \/ RelevantRanges(scan) = {}
    THEN NoRange
    ELSE Min(RelevantRanges(scan))

(* The condition on the scan under which is_blocked holds.                 *)
FrontTooClose(range) == range # NoRange /\ range < StopDistance

-----------------------------------------------------------------------------
(* The same geometry without the normalisation, the reference the wrapped  *)
(* form is checked against: an angle is ahead when it is within FrontArc   *)
(* of a whole number of turns.  |angle| bounds the turns worth trying.     *)
Magnitude(angle) == IF angle < 0 THEN -angle ELSE angle

Ahead(angle) ==
    \E turns \in -Magnitude(angle)..Magnitude(angle) :
        Magnitude(angle - turns * 2 * HalfTurn) <= FrontArc

(* Some reading of the scan is an obstacle dead ahead that must stop the   *)
(* robot: at or beyond the noise floor and nearer than the stop distance.  *)
ObstacleAhead(scan) ==
    \E i \in DOMAIN scan.ranges :
        /\ scan.ranges[i] # NaN
        /\ scan.ranges[i] >= MinValidRange
        /\ scan.ranges[i] < StopDistance
        /\ Ahead(Angle(scan, i))

=============================================================================
