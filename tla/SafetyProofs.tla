---------------------------- MODULE SafetyProofs ----------------------------
(***************************************************************************)
(* The safety node alone and with the traversal that drives through it,    *)
(* for every scan, arc and threshold, every timeout and set of velocities, *)
(* and every delay on the topics between the two.                          *)
(*                                                                         *)
(* Three parts: what the monitor computes from a scan (ScanArc), what the  *)
(* node publishes (SafetyNode), and what the traversal sends it (Wander).  *)
(***************************************************************************)
EXTENDS Wander, WellFoundedInduction, TLAPS

(***************************************************************************)
(* ScanArc: MinFrontArcRange is too close exactly when the scan has a      *)
(* reading, at or beyond the noise floor and nearer than the stop          *)
(* distance, that is ahead.                                                *)
(***************************************************************************)

(* The wrapped form of an angle differs from it by whole turns and lies in *)
(* [-HalfTurn, HalfTurn).                                                  *)
LEMMA WrappedProperties ==
    ASSUME NEW angle \in Int
    PROVE  /\ Wrapped(angle) \in -HalfTurn..(HalfTurn - 1)
           /\ \E turns \in Int : Wrapped(angle) = angle - turns * 2 * HalfTurn
<1> USE ScanArcAssumption DEF ScanArcAssumption
<1> DEFINE turn == 2 * HalfTurn
           quotient == (angle + HalfTurn) \div turn
           rest == (angle + HalfTurn) % turn
<1>1. turn \in Nat /\ turn > 0
  OBVIOUS
<1>2. /\ quotient \in Int
      /\ rest \in 0..(turn - 1)
      /\ angle + HalfTurn = turn * quotient + rest
  <2> HIDE DEF turn
  <2> QED BY <1>1
<1>3. Wrapped(angle) \in -HalfTurn..(HalfTurn - 1)
  BY <1>2 DEF Wrapped
<1>4. Wrapped(angle) = angle - quotient * 2 * HalfTurn
  <2>1. Wrapped(angle) = rest - HalfTurn
    BY DEF Wrapped
  <2>2. turn * quotient = quotient * 2 * HalfTurn
    <3> HIDE DEF quotient
    <3> QED BY <1>2
  <2> HIDE DEF quotient, rest
  <2>3. Wrapped(angle) = angle - turn * quotient
    <3> HIDE DEF turn
    <3>1. turn * quotient \in Int
      BY <1>1, <1>2
    <3> QED BY <1>2, <2>1, <3>1
  <2> QED BY <2>2, <2>3
<1> QED BY <1>2, <1>3, <1>4

(* A product with a positive factor is at least the other factor.          *)
LEMMA ProductBound ==
    ASSUME NEW m \in Nat, m >= 1, NEW q \in Nat
    PROVE  q * m \in Nat /\ q * m >= q
<1>1. m - 1 \in Nat
  OBVIOUS
<1>2. q * m = q + q * (m - 1)
  BY <1>1
<1>3. q * (m - 1) \in Nat
  BY <1>1
<1> QED BY <1>2, <1>3

(* Two angles that are whole turns apart are equal or at least a turn      *)
(* apart.                                                                  *)
LEMMA TurnsApart ==
    ASSUME NEW t \in Int, NEW q \in Int, t # q
    PROVE  LET gap == t * 2 * HalfTurn - q * 2 * HalfTurn
           IN  gap \in Int /\ (gap >= 2 * HalfTurn \/ gap <= -(2 * HalfTurn))
<1> USE ScanArcAssumption DEF ScanArcAssumption
<1> DEFINE turn == 2 * HalfTurn
<1>1. turn \in Nat
  OBVIOUS
<1>2. t * 2 * HalfTurn = t * turn /\ q * 2 * HalfTurn = q * turn
  OBVIOUS
<1> HIDE DEF turn
<1>3. t * turn \in Int /\ q * turn \in Int
  BY <1>1
<1>4. CASE t > q
  <2>1. t - q - 1 \in Nat
    BY <1>4
  <2>2. t * turn - q * turn = turn + (t - q - 1) * turn
    BY <1>1
  <2>3. (t - q - 1) * turn \in Nat
    BY <1>1, <2>1
  <2>4. t * turn - q * turn >= turn
    BY <1>1, <1>3, <2>2, <2>3
  <2> QED BY <1>2, <1>3, <2>4 DEF turn
<1>5. CASE t < q
  <2>1. q - t - 1 \in Nat
    BY <1>5
  <2>2. q * turn - t * turn = turn + (q - t - 1) * turn
    BY <1>1
  <2>3. (q - t - 1) * turn \in Nat
    BY <1>1, <2>1
  <2>4. q * turn - t * turn >= turn
    BY <1>1, <1>3, <2>2, <2>3
  <2> QED BY <1>2, <1>3, <2>4 DEF turn
<1> QED BY <1>4, <1>5

(* The code's normalised test is the test against every whole turn, for    *)
(* every angle: the seam at 0 / 2 pi neither hides nor invents a reading.  *)
THEOREM FrontArcIsAhead ==
    ASSUME NEW angle \in Int
    PROVE  InFrontArc(angle) <=> Ahead(angle)
<1> USE ScanArcAssumption DEF ScanArcAssumption
<1>1. PICK q \in Int : Wrapped(angle) = angle - q * 2 * HalfTurn
  BY WrappedProperties
<1>2. Wrapped(angle) \in -HalfTurn..(HalfTurn - 1)
  BY WrappedProperties
<1>3. q * 2 * HalfTurn \in Int
  OBVIOUS
<1>4. q \in -Magnitude(angle)..Magnitude(angle)
  <2> DEFINE p == Magnitude(q)
  <2>1. p \in Nat /\ Magnitude(angle) \in Nat
    BY DEF Magnitude
  <2>2. p * 2 * HalfTurn = Magnitude(q * 2 * HalfTurn)
    BY <1>3 DEF Magnitude
  <2>3. p * 2 * HalfTurn \in Int /\ p * 2 * HalfTurn - HalfTurn <= Magnitude(angle)
    BY <1>1, <1>2, <1>3, <2>2 DEF Magnitude
  <2>4. p <= Magnitude(angle)
    <3>1. CASE p = 0
      BY <2>1, <3>1
    <3>2. CASE p # 0
      <4> HIDE DEF p
      <4>1. 2 * p - 1 \in Nat /\ 2 * p - 1 >= p
        BY <2>1, <3>2
      <4>2. (2 * p - 1) * HalfTurn >= 2 * p - 1
        BY <4>1, ProductBound
      <4>3. (2 * p - 1) * HalfTurn = p * 2 * HalfTurn - HalfTurn
        BY <2>1
      <4> QED BY <2>1, <2>3, <4>1, <4>2, <4>3
    <3> QED BY <3>1, <3>2
  <2> QED BY <2>1, <2>4 DEF Magnitude
<1>5. ASSUME InFrontArc(angle) PROVE Ahead(angle)
  <2>1. Magnitude(angle - q * 2 * HalfTurn) <= FrontArc
    BY <1>1, <1>2, <1>5 DEF InFrontArc, Magnitude
  <2> QED BY <1>4, <2>1 DEF Ahead
<1>6. ASSUME Ahead(angle) PROVE InFrontArc(angle)
  <2>1. PICK t \in -Magnitude(angle)..Magnitude(angle) :
            Magnitude(angle - t * 2 * HalfTurn) <= FrontArc
    BY <1>6 DEF Ahead
  <2> t \in Int
    BY DEF Magnitude
  <2>2. t * 2 * HalfTurn \in Int
    OBVIOUS
  <2>3. CASE t = q
    BY <1>1, <1>2, <2>1, <2>3 DEF InFrontArc, Magnitude
  <2>4. CASE t # q
    <3> DEFINE gap == t * 2 * HalfTurn - q * 2 * HalfTurn
    <3>1. gap >= 2 * HalfTurn \/ gap <= -(2 * HalfTurn)
      BY <2>4, TurnsApart
    <3>2. Wrapped(angle) - (angle - t * 2 * HalfTurn) = gap
      BY <1>1, <1>3, <2>2
    <3>3. Wrapped(angle) = -HalfTurn /\ FrontArc = HalfTurn
      BY <1>2, <1>3, <2>1, <2>2, <3>1, <3>2 DEF Magnitude
    <3> QED BY <3>3 DEF InFrontArc
  <2> QED BY <2>3, <2>4
<1> QED BY <1>5, <1>6

(* A non-empty set of naturals has the minimum that Min chooses.           *)
LEMMA MinProperties ==
    ASSUME NEW S, S \subseteq Nat, S # {}
    PROVE  Min(S) \in S /\ \A y \in S : Min(S) <= y
<1> DEFINE Less == {pair \in Nat \X Nat : pair[1] < pair[2]}
<1>1. IsWellFoundedOn(Less, Nat)
  BY NatLessThanWellFounded, Zenon DEF OpToRel
<1> HIDE DEF Less
<1>2. PICK x \in S : \A y \in S : ~ (<<y, x>> \in Less)
  BY <1>1, WFMin
<1>3. ASSUME NEW y \in S PROVE x <= y
  <2>1. /\ <<y, x>> \in Nat \X Nat
        /\ <<y, x>>[1] = y
        /\ <<y, x>>[2] = x
    OBVIOUS
  <2>2. ~ (y < x)
    <3> SUFFICES ASSUME y < x PROVE <<y, x>> \in Less
      BY <1>2
    <3> QED BY <2>1 DEF Less
  <2> QED BY <2>2
<1> QED BY <1>3 DEF Min

(* MinFrontArcRange is of the right type ...                               *)
LEMMA MinFrontArcRangeType ==
    ASSUME NEW sweep \in Scan
    PROVE  MinFrontArcRange(sweep) \in Nat \cup {NoRange}
<1>1. RelevantRanges(sweep) \subseteq Nat
  BY DEF RelevantRanges, Relevant, Scan
<1> QED BY <1>1, MinProperties DEF MinFrontArcRange

(* ... and is too close exactly when the scan shows an obstacle ahead.     *)
THEOREM TooCloseIsObstacle ==
    ASSUME NEW sweep \in Scan
    PROVE  FrontTooClose(MinFrontArcRange(sweep))
               <=> sweep.increment # 0 /\ ObstacleAhead(sweep)
<1> USE ScanArcAssumption DEF ScanArcAssumption
<1>1. RelevantRanges(sweep) \subseteq Nat
  BY DEF RelevantRanges, Relevant, Scan
<1>2. \A i \in DOMAIN sweep.ranges :
          Angle(sweep, i) \in Int /\ (sweep.ranges[i] # NaN => sweep.ranges[i] \in Nat)
  BY DEF Angle, Scan
<1>3. ObstacleAhead(sweep) <=> \E r \in RelevantRanges(sweep) : r < StopDistance
  BY <1>2, FrontArcIsAhead DEF ObstacleAhead, RelevantRanges, Relevant
<1>4. CASE sweep.increment = 0 \/ RelevantRanges(sweep) = {}
  BY <1>3, <1>4 DEF MinFrontArcRange, FrontTooClose
<1>5. CASE sweep.increment # 0 /\ RelevantRanges(sweep) # {}
  <2>1. /\ Min(RelevantRanges(sweep)) \in RelevantRanges(sweep)
        /\ \A r \in RelevantRanges(sweep) : Min(RelevantRanges(sweep)) <= r
    BY <1>1, <1>5, MinProperties
  <2>2. (\E r \in RelevantRanges(sweep) : r < StopDistance)
            <=> Min(RelevantRanges(sweep)) < StopDistance
    BY <1>1, <2>1
  <2>3. MinFrontArcRange(sweep) = Min(RelevantRanges(sweep))
    BY <1>5 DEF MinFrontArcRange
  <2>4. MinFrontArcRange(sweep) # NoRange
    BY <1>1, <2>1, <2>3
  <2> QED BY <1>3, <1>5, <2>2, <2>3, <2>4 DEF FrontTooClose
<1> QED BY <1>4, <1>5

(***************************************************************************)
(* SafetyNode.  The inductive invariant ties what the node remembers (its  *)
(* mode, stored commands, deadlines and front range) to what the world did *)
(* (the ages and contents of the last messages).  Every property of a      *)
(* publication then follows from the state the publication starts in.      *)
(***************************************************************************)

(* While MANUAL is selected the stored command is the operator's last one, *)
(* its age is right, and no autonomous command waits to be replayed; in    *)
(* AUTO the operator has been silent for longer than the timeout.          *)
AuthorityInv ==
    /\ mode = MANUAL => /\ manualAge = sinceTeleop
                        /\ manualCmd = heardTeleop
                        /\ autoCmd = Zero
    /\ mode = AUTO => /\ sinceTeleop > ManualTimeout
                      /\ autoCmd = heardAuto

(* A deadline runs exactly while the contact it was set from is recent.    *)
ContactInv ==
    \A s \in Sides :
        IF sinceContact[s] < BumperTimeout
        THEN contactLeft[s] = BumperTimeout - sinceContact[s]
        ELSE contactLeft[s] \in {0, Never}

ScanInv == frontRange = MinFrontArcRange(seenScan)

(* What was published as MANUAL was in time when it was published.         *)
PublishedInv ==
    authority = MANUAL =>
        mode = MANUAL /\ sinceTeleop <= ManualTimeout + sincePublish

IInv == TypeOK /\ AuthorityInv /\ ContactInv /\ ScanInv /\ PublishedInv

LEMMA ScanTypes ==
    /\ NoScan \in Scan
    /\ \A sweep \in Scans \cup {NoScan} : sweep \in Scan
<1>1. NoScan \in Scan
  <2>1. << >> \in Seq(Nat \cup {NaN})
    OBVIOUS
  <2> QED BY <2>1 DEF NoScan, Scan
<1> QED BY <1>1, SafetyAssumption DEF SafetyAssumption

LEMMA InitIInv == Init => IInv
<1> SUFFICES ASSUME Init PROVE IInv
  OBVIOUS
<1> USE SafetyAssumption DEF SafetyAssumption, Init, AuthorityInit, MonitorInit
<1>1. ManualAgeCap \in Nat /\ ContactAgeCap \in Nat
  BY DEF ManualAgeCap, ContactAgeCap
<1>2. TypeOK
  BY <1>1 DEF TypeOK, Mode, AUTO, MANUAL, Cmd, Zero
<1>3. AuthorityInv
  BY DEF AuthorityInv, AUTO, MANUAL, ManualAgeCap
<1>4. ContactInv
  BY DEF ContactInv, ContactAgeCap
<1>5. ScanInv
  BY DEF ScanInv, MinFrontArcRange, NoScan
<1>6. PublishedInv
  BY DEF PublishedInv, AUTO, MANUAL
<1> QED BY <1>2, <1>3, <1>4, <1>5, <1>6 DEF IInv

(* One step per callback; under it, the conjuncts the callback disturbs.   *)
LEMMA StepIInv == IInv /\ [Next]_vars => IInv'
<1> SUFFICES ASSUME IInv, [Next]_vars PROVE IInv'
  OBVIOUS
<1> USE SafetyAssumption DEF SafetyAssumption, IInv
<1>1. ManualAgeCap \in Nat /\ ContactAgeCap \in Nat
  BY DEF ManualAgeCap, ContactAgeCap
<1>2. ASSUME NEW sweep \in Scans, OnScan(sweep) PROVE IInv'
  <2> USE <1>2 DEF OnScan, authorityVars, outputVars
  <2>1. TypeOK'
    BY ScanTypes, MinFrontArcRangeType DEF TypeOK
  <2>2. AuthorityInv' /\ ContactInv' /\ ScanInv' /\ PublishedInv'
    BY DEF AuthorityInv, ContactInv, ScanInv, PublishedInv
  <2> QED BY <2>1, <2>2
<1>3. ASSUME NEW side \in Sides, NEW hasContact \in BOOLEAN,
             OnBumper(side, hasContact)
      PROVE  IInv'
  <2> USE <1>3 DEF OnBumper, authorityVars, outputVars, ContactDeadline
  <2>1. TypeOK'
    BY <1>1 DEF TypeOK
  <2>2. ContactInv'
    BY DEF ContactInv, TypeOK, ContactAgeCap
  <2>3. AuthorityInv' /\ ScanInv' /\ PublishedInv'
    BY DEF AuthorityInv, ScanInv, PublishedInv
  <2> QED BY <2>1, <2>2, <2>3
<1>4. ASSUME NEW cmd \in Cmd, OnCmdVelRaw(cmd) PROVE IInv'
  <2> USE <1>4 DEF OnCmdVelRaw, OnAutoCmd, monitorVars, outputVars
  <2>1. TypeOK'
    BY DEF TypeOK
  <2>2. AuthorityInv'
    BY DEF AuthorityInv, TypeOK, Mode, AUTO, MANUAL
  <2>3. ContactInv' /\ ScanInv' /\ PublishedInv'
    BY DEF ContactInv, ScanInv, PublishedInv
  <2> QED BY <2>1, <2>2, <2>3
<1>5. ASSUME NEW cmd \in Cmd, OnCmdVelTeleop(cmd) PROVE IInv'
  <2> USE <1>5 DEF OnCmdVelTeleop, OnManualCmd, monitorVars, outputVars
  <2>1. TypeOK'
    BY <1>1 DEF TypeOK, Mode, Cmd, Zero
  <2>2. AuthorityInv'
    BY DEF AuthorityInv, TypeOK, Mode, AUTO, MANUAL
  <2>3. ContactInv' /\ ScanInv'
    BY DEF ContactInv, ScanInv
  <2>4. PublishedInv'
    BY DEF PublishedInv, TypeOK
  <2> QED BY <2>1, <2>2, <2>3, <2>4
<1>6. CASE PublishCmdVel
  <2> USE <1>6 DEF PublishCmdVel, Tick, ManualTimedOut, monitorVars
  <2>1. Zero \in Cmd /\ Selected \in Cmd
    BY DEF Selected, TypeOK, Cmd, Zero
  <2>2. FilterCmd(Selected) \in Cmd
    BY <2>1 DEF FilterCmd, Cmd
  <2>3. TypeOK'
    BY <2>1, <2>2 DEF TypeOK, Mode, AUTO, MANUAL
  <2>4. AuthorityInv'
    BY DEF AuthorityInv, TypeOK, Mode, AUTO, MANUAL
  <2>5. ContactInv' /\ ScanInv'
    BY DEF ContactInv, ScanInv
  <2>6. PublishedInv'
    BY DEF PublishedInv, AuthorityInv, TypeOK, Mode, AUTO, MANUAL
  <2> QED BY <2>3, <2>4, <2>5, <2>6
<1>7. CASE Elapse
  <2> USE <1>7 DEF Elapse, outputVars, AgeUpTo
  <2>1. TypeOK'
    BY <1>1 DEF TypeOK
  <2>2. AuthorityInv'
    BY <1>1 DEF AuthorityInv, TypeOK, ManualAgeCap
  <2>3. ContactInv'
    BY DEF ContactInv, TypeOK, ContactAgeCap
  <2>4. ScanInv' /\ PublishedInv'
    BY DEF ScanInv, PublishedInv, TypeOK, ManualAgeCap
  <2> QED BY <2>1, <2>2, <2>3, <2>4
<1>8. CASE UNCHANGED vars
  BY <1>8 DEF vars, authorityVars, monitorVars, outputVars, ghostVars,
     TypeOK, AuthorityInv, ContactInv, ScanInv, PublishedInv
<1> QED BY <1>2, <1>3, <1>4, <1>5, <1>6, <1>7, <1>8 DEF Next

(* The invariant holds of every reachable state.                           *)
THEOREM Invariance == Spec => []IInv
BY InitIInv, StepIInv, PTL DEF Spec

(* Every variable keeps its type.                                          *)
THEOREM TypeCorrect == Spec => []TypeOK
<1>1. IInv => TypeOK
  BY DEF IInv
<1> QED BY <1>1, Invariance, PTL

(* MANUAL is on the wire at most one publish period after the timeout.     *)
THEOREM ManualExpires == Spec => []ManualMotionExpires
<1>1. IInv => ManualMotionExpires
  BY SafetyAssumption DEF SafetyAssumption, IInv, PublishedInv, TypeOK,
     ManualMotionExpires, ManualAgeCap
<1> QED BY <1>1, Invariance, PTL

-----------------------------------------------------------------------------
(* What the monitor remembers blocks forward motion exactly when the world *)
(* last reported an obstacle.                                              *)
LEMMA BlockedIsReported == IInv => (IsBlocked <=> ObstacleReported)
<1> SUFFICES ASSUME IInv PROVE IsBlocked <=> ObstacleReported
  OBVIOUS
<1> USE SafetyAssumption DEF SafetyAssumption
<1>1. FrontTooClose(frontRange)
         <=> seenScan.increment # 0 /\ ObstacleAhead(seenScan)
  BY ScanTypes, TooCloseIsObstacle DEF IInv, ScanInv, TypeOK
<1>2. ASSUME NEW s \in Sides
      PROVE  contactLeft[s] # Never /\ contactLeft[s] > 0
                <=> sinceContact[s] < BumperTimeout
  BY DEF IInv, ContactInv, TypeOK, ContactAgeCap
<1> QED BY <1>1, <1>2 DEF IsBlocked, ObstacleReported

(* What a publication selects is the last message of the source it names.  *)
LEMMA SelectedIsHeard == IInv /\ PublishCmdVel => Selected = Heard(authority)'
<1> SUFFICES ASSUME IInv, PublishCmdVel PROVE Selected = Heard(authority)'
  OBVIOUS
<1> QED
  BY SafetyAssumption DEF SafetyAssumption, IInv, TypeOK, AuthorityInv, Mode,
     AUTO, MANUAL, PublishCmdVel, Tick, ManualTimedOut, Selected, Heard

LEMMA SelectedType == IInv => Selected \in Cmd
BY DEF IInv, TypeOK, Selected

LEMMA ForwardIsFiltered ==
    IInv /\ PublishCmdVel => (ObstacleReported => cmdVel'.linear <= 0)
<1> SUFFICES ASSUME IInv, PublishCmdVel, ObstacleReported
             PROVE  cmdVel'.linear <= 0
  OBVIOUS
<1>1. cmdVel' = FilterCmd(Selected) /\ IsBlocked
  BY BlockedIsReported DEF PublishCmdVel
<1>2. Selected \in Cmd /\ Selected.linear \in Int
  BY SelectedType, SafetyAssumption DEF SafetyAssumption, Cmd
<1> QED BY <1>1, <1>2 DEF FilterCmd, Cmd

(* No forward motion while an obstacle is reported, for every arc, scan    *)
(* and timeout.                                                            *)
THEOREM ForwardIsBlocked == Spec => NoForwardIntoObstacle
BY ForwardIsFiltered, Invariance, PTL DEF NoForwardIntoObstacle

(* Forward motion is all the filter ever takes away.                       *)
THEOREM RestPassesThrough == Spec => OnlyForwardIsStopped
<1>1. IInv /\ PublishCmdVel
          => (~ObstacleReported \/ Heard(authority)'.linear <= 0
                 => cmdVel' = Heard(authority)')
  <2> SUFFICES ASSUME IInv, PublishCmdVel,
                      ~ObstacleReported \/ Heard(authority)'.linear <= 0
               PROVE  cmdVel' = Heard(authority)'
    OBVIOUS
  <2>1. cmdVel' = FilterCmd(Selected) /\ Selected = Heard(authority)'
    BY SelectedIsHeard DEF PublishCmdVel
  <2>2. Selected.linear \in Int
    BY SelectedType, SafetyAssumption DEF SafetyAssumption, Cmd
  <2> QED BY <2>1, <2>2, BlockedIsReported DEF FilterCmd
<1> QED BY <1>1, Invariance, PTL DEF OnlyForwardIsStopped

(* A resuming source's old commands are never replayed.                    *)
THEOREM NothingIsReplayed == Spec => NoStaleReplay
<1>1. IInv /\ PublishCmdVel
          => \/ cmdVel' = Heard(authority)'
             \/ cmdVel' = [Heard(authority)' EXCEPT !.linear = 0]
  BY SelectedIsHeard DEF PublishCmdVel, FilterCmd
<1> QED BY <1>1, Invariance, PTL DEF NoStaleReplay

(* Authority is a function of how recent the last teleop message is.       *)
THEOREM AuthorityFollowsTeleop == Spec => AuthorityIsRecency
<1>1. IInv /\ PublishCmdVel
          => (authority' = MANUAL <=> sinceTeleop <= ManualTimeout)
  BY SafetyAssumption DEF SafetyAssumption, IInv, TypeOK, AuthorityInv, Mode,
     AUTO, MANUAL, PublishCmdVel, Tick, ManualTimedOut
<1> QED BY <1>1, Invariance, PTL DEF AuthorityIsRecency

(***************************************************************************)
(* Wander: the traversal driving through the safety node.                  *)
(***************************************************************************)

(* Only velocities the safety node takes are under way.                    *)
WireInv ==
    /\ raw \in Seq(Cmd)
    /\ turning \in {-1, 0, 1}
    /\ scan \in Scans \cup {NoScan}

LEMMA NextCommandType ==
    ASSUME turning \in {-1, 0, 1}
    PROVE  Turning \in {-1, 0, 1} /\ NextCommand \in Cmd /\ Zero \in Cmd
<1> USE SafetyAssumption, WanderAssumption DEF SafetyAssumption, WanderAssumption
<1>1. Turning \in {-1, 0, 1}
  BY DEF Turning, OpenSide
<1>2. Turning * TurnSpeed \in Angular
  <2>1. CASE Turning = 1
    BY <2>1
  <2>2. CASE Turning = -1
    BY <2>2
  <2>3. CASE Turning = 0
    BY <2>3
  <2> QED
    BY <1>1, <2>1, <2>2, <2>3
<1>3. Zero \in Cmd
  BY DEF Zero, Cmd
<1>4. NextCommand \in Cmd
  BY <1>2 DEF NextCommand, Cmd
<1> QED
  BY <1>1, <1>3, <1>4

LEMMA WireKept ==
    ASSUME WireInv, [WNext]_allVars
    PROVE  WireInv'
<1>1. CASE WanderTick \/ FinishRun
  BY <1>1, NextCommandType DEF WanderTick, FinishRun, Publish, WireInv
<1>2. CASE RawArrives
  BY <1>2 DEF RawArrives, WireInv, wanderVars
<1>3. CASE ~WanderTick /\ ~FinishRun /\ ~RawArrives
  BY <1>3 DEF WNext, WanderOnScan, WanderOnAuthority, PublishAndNotify, TimePasses,
     SafetyAlone, allVars, wanderVars, wires, WireInv
<1> QED
  BY <1>1, <1>2, <1>3

(* The composition changes nothing of the safety node: whatever the        *)
(* traversal sends and however late, the node takes its own steps only.    *)
LEMMA SafetySteps ==
    ASSUME WireInv, [WNext]_allVars
    PROVE  [Next]_vars
<1>1. CASE RawArrives
  <2>1. Head(raw) \in Cmd
    BY <1>1 DEF RawArrives, WireInv
  <2> QED
    BY <1>1, <2>1 DEF RawArrives, Next
<1>2. CASE ~RawArrives
  BY <1>2 DEF WNext, WanderOnScan, WanderTick, FinishRun, WanderOnAuthority,
     PublishAndNotify, TimePasses, SafetyAlone, Next, allVars
<1> QED
  BY <1>1, <1>2

LEMMA WireFromStart == WSpec => [](WireInv /\ IInv)
<1>1. WInit => WireInv /\ IInv
  <2>1. WInit => WireInv
    BY DEF WInit, WireInv
  <2> QED
    BY <2>1, InitIInv DEF WInit
<1>2. WireInv /\ IInv /\ [WNext]_allVars => (WireInv /\ IInv)'
  BY WireKept, SafetySteps, StepIInv
<1> QED
  BY <1>1, <1>2, PTL DEF WSpec

-----------------------------------------------------------------------------
(* After the run the last command under way is the zero that ended it; it  *)
(* is taken in AUTO, and in MANUAL there is nothing left for it to stop.   *)
RestInv ==
    finished => IF raw = <<>> THEN autoCmd = Zero ELSE raw[Len(raw)] = Zero

LEMMA RestKept ==
    ASSUME WireInv, IInv, RestInv, [WNext]_allVars
    PROVE  RestInv'
<1>1. CASE FinishRun
  <2>1. raw' = Append(raw, Zero)
    BY <1>1 DEF FinishRun, Publish
  <2>2. raw' # <<>> /\ raw'[Len(raw')] = Zero
    BY <2>1, NextCommandType DEF WireInv
  <2> QED
    BY <2>2 DEF RestInv
<1>2. CASE WanderTick
  BY <1>2 DEF WanderTick, Active, RestInv
<1>3. CASE RawArrives
  <2> SUFFICES ASSUME finished PROVE RestInv'
    BY <1>3 DEF RawArrives, wanderVars, RestInv
  <2>1. /\ raw # <<>> /\ raw' = Tail(raw) /\ raw[Len(raw)] = Zero
        /\ autoCmd' = IF mode = AUTO THEN Head(raw) ELSE autoCmd
    BY <1>3 DEF RawArrives, RestInv, OnCmdVelRaw, OnAutoCmd
  <2>2. CASE Len(raw) = 1
    <3>1. Head(raw) = Zero /\ raw' = <<>>
      BY <2>1, <2>2 DEF WireInv
    <3>2. mode # AUTO => autoCmd = Zero
      BY DEF IInv, AuthorityInv, TypeOK, Mode
    <3> QED
      BY <2>1, <3>1, <3>2 DEF RestInv
  <2>3. CASE Len(raw) # 1
    <3>1. Len(raw) \in Nat /\ Len(raw) > 1
      <4>1. raw \in Seq(Cmd) /\ raw # <<>>
        BY <2>1 DEF WireInv
      <4>2. Len(raw) \in Nat /\ Len(raw) # 0
        BY <4>1
      <4> QED
        BY <2>3, <4>2
    <3>2. /\ Len(Tail(raw)) = Len(raw) - 1
          /\ \A i \in 1..Len(raw) - 1 : Tail(raw)[i] = raw[i + 1]
      BY <2>1, <3>1 DEF WireInv
    <3>3. Tail(raw)[Len(raw) - 1] = raw[Len(raw)]
      BY <3>1, <3>2
    <3>4. raw' # <<>> /\ raw'[Len(raw')] = Zero
      BY <2>1, <3>1, <3>2, <3>3
    <3> QED
      BY <3>4 DEF RestInv
  <2> QED
    BY <2>2, <2>3
<1>4. CASE SafetyAlone
  <2>1. autoCmd' \in {autoCmd, Zero} /\ UNCHANGED <<finished, raw>>
    BY <1>4 DEF SafetyAlone, OnScan, OnBumper, OnCmdVelTeleop, OnManualCmd,
       authorityVars, wanderVars, wires
  <2> QED
    BY <2>1 DEF RestInv
<1>5. CASE UNCHANGED <<autoCmd, finished, raw>>
  BY <1>5 DEF RestInv
<1>6. \/ UNCHANGED <<autoCmd, finished, raw>>
      \/ FinishRun \/ WanderTick \/ RawArrives \/ SafetyAlone
  BY DEF WNext, WanderOnScan, WanderOnAuthority, PublishAndNotify, PublishCmdVel,
     Tick, TimePasses, Elapse, allVars, vars, authorityVars, wanderVars, wires
<1> QED
  BY <1>1, <1>2, <1>3, <1>4, <1>5, <1>6

(* The run ends at rest: when its last command has arrived, the autonomous *)
(* command is zero, through every MANUAL the traversal had not heard of.   *)
THEOREM RunEndsAtRest == WSpec => []EndOfRunIsRest
<1>1. WInit => RestInv
  BY DEF WInit, RestInv
<1>2. WireInv /\ IInv /\ RestInv /\ [WNext]_allVars => RestInv'
  BY RestKept
<1>3. RestInv => EndOfRunIsRest
  BY DEF RestInv, EndOfRunIsRest
<1> QED
  BY <1>1, <1>2, <1>3, WireFromStart, PTL DEF WSpec

(* Driving through the safety node, the traversal never gets forward       *)
(* motion onto /cmd_vel past a reported obstacle.                          *)
THEOREM WanderIsHeld == WSpec => NoForwardIntoObstacle
<1>1. WireInv /\ IInv /\ [WNext]_allVars =>
        [PublishCmdVel => (ObstacleReported => cmdVel'.linear <= 0)]_vars
  BY ForwardIsFiltered
<1> QED
  BY <1>1, WireFromStart, PTL DEF WSpec, NoForwardIntoObstacle

-----------------------------------------------------------------------------
(* Normalising twice is normalising once.                                  *)
LEMMA WrappedOnce ==
    ASSUME NEW angle \in Int
    PROVE  Wrapped(Wrapped(angle) - 0) = Wrapped(angle)
<1> USE ScanArcAssumption DEF ScanArcAssumption
<1>1. PICK w \in -HalfTurn..(HalfTurn - 1) : w = Wrapped(angle)
  BY WrappedProperties
<1>2. w + HalfTurn \in 0..(2 * HalfTurn - 1)
  BY <1>1
<1>3. (w + HalfTurn) % (2 * HalfTurn) = w + HalfTurn
  BY <1>2
<1> QED
  BY <1>1, <1>3 DEF Wrapped

(* An obstacle the monitor stops for is in the arc the traversal looks at, *)
(* and nearer than the distance at which it turns.                         *)
LEMMA ClearMeansNoStop ==
    ASSUME NEW s \in Scan, StopsFor(s, WanderFloor)
    PROVE  LET front == ArcMin(s, 0, WanderArc)
           IN  front \in Nat /\ front < TurnThreshold
<1> USE ScanArcAssumption, WanderAssumption DEF ScanArcAssumption, WanderAssumption
<1> DEFINE kept == {j \in DOMAIN s.ranges :
                       /\ s.ranges[j] # NaN
                       /\ s.ranges[j] >= WanderFloor
                       /\ InArc(Angle(s, j), 0, WanderArc)}
           relevant == {s.ranges[i] : i \in kept}
<1>1. \A i \in DOMAIN s.ranges :
         Angle(s, i) \in Int /\ (s.ranges[i] # NaN => s.ranges[i] \in Nat)
  BY DEF Angle, Scan
<1>2. PICK i \in DOMAIN s.ranges :
         /\ s.ranges[i] # NaN /\ s.ranges[i] >= WanderFloor
         /\ s.ranges[i] < StopDistance /\ Ahead(Angle(s, i))
  BY DEF StopsFor
<1>3. InArc(Angle(s, i), 0, WanderArc)
  <2>1. InFrontArc(Angle(s, i)) /\ Wrapped(Angle(s, i)) \in Int
    BY <1>1, <1>2, FrontArcIsAhead, WrappedProperties
  <2>2. Wrapped(Wrapped(Angle(s, i)) - 0) = Wrapped(Angle(s, i))
    BY <1>1, WrappedOnce
  <2> HIDE DEF kept
  <2> QED
    BY <2>1, <2>2 DEF InArc, InFrontArc
<1>4. relevant \subseteq Nat /\ s.ranges[i] \in relevant
  BY <1>1, <1>2, <1>3
<1>5. ArcMin(s, 0, WanderArc) = Min(relevant)
  <2>1. s.increment # 0 /\ relevant # {}
    BY <1>4 DEF StopsFor
  <2> QED
    BY <2>1 DEF ArcMin
<1> HIDE DEF relevant, kept
<1>6. Min(relevant) \in Nat /\ Min(relevant) <= s.ranges[i]
  BY <1>4, MinProperties
<1>7. s.ranges[i] \in Nat
  BY <1>1, <1>2
<1> QED
  BY <1>2, <1>5, <1>6, <1>7

(* The traversal drives ahead only where the monitor would not stop it for *)
(* anything the traversal itself takes for an obstacle.                    *)
THEOREM SteersFirst == WSpec => SteersBeforeStop
<1>1. ASSUME WireInv, WireInv', [WNext]_allVars, DrivesAhead
      PROVE  ~StopsFor(scan, WanderFloor)
  <2>1. CASE WanderTick
    <3>1. scan # NoScan /\ raw' = Append(raw, NextCommand)
      BY <1>1, <2>1 DEF WanderTick, Publish, DrivesAhead
    <3>2. NextCommand.linear > 0
      BY <1>1, <3>1, NextCommandType DEF DrivesAhead, WireInv
    <3>3. FrontClear
      BY <3>2 DEF NextCommand
    <3>4. scan \in Scan
      BY <1>1, ScanTypes DEF WireInv
    <3> QED
      BY <3>3, <3>4, ClearMeansNoStop, ScanArcAssumption, WanderAssumption
         DEF FrontClear, ScanArcAssumption, WanderAssumption
  <2>2. CASE FinishRun
    BY <1>1, <2>2, NextCommandType DEF FinishRun, Publish, DrivesAhead, WireInv, Zero
  <2>3. CASE ~WanderTick /\ ~FinishRun
    <3>1. raw' = raw \/ (raw # <<>> /\ raw' = Tail(raw))
      BY <1>1, <2>3 DEF WNext, WanderOnScan, WanderOnAuthority, PublishAndNotify,
         TimePasses, SafetyAlone, RawArrives, allVars, wires
    <3> QED
      BY <1>1, <3>1 DEF DrivesAhead, WireInv
  <2> QED
    BY <2>1, <2>2, <2>3
<1>2. WireInv /\ WireInv' /\ [WNext]_allVars =>
        [DrivesAhead => ~StopsFor(scan, WanderFloor)]_allVars
  BY <1>1
<1> QED
  BY <1>2, WireFromStart, PTL DEF WSpec, SteersBeforeStop
=============================================================================
