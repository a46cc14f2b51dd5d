---------------------- MODULE BehaviorSupervisorProofs ----------------------
(***************************************************************************)
(* BehaviorSupervisor, for any number of goals: types, that no goal is     *)
(* replayed, and that a goal Nav2 pursues is driven.  The invariant says    *)
(* where a goal can be while the supervisor holds it, and that it holds    *)
(* the one at Nav2, whatever late answers do to the handle.                *)
(***************************************************************************)
EXTENDS BehaviorSupervisor, TLAPS

(* A pending goal is the node's own latest message, not yet sent; an       *)
(* active one was sent; neither was given up, and the active one is not    *)
(* over.  What was never posted was neither sent nor given up.             *)
PendingInv ==
    pendingGoal # None =>
        /\ pendingGoal = latestGoal
        /\ pendingGoal \in posted \ dropped
        /\ server[pendingGoal] = "unsent"

ActiveInv ==
    activeGoal # None =>
        /\ activeGoal \in posted \ (dropped \cup reported)
        /\ server[activeGoal] # "unsent"

PostedInv ==
    /\ \A g \in Goals \ posted : server[g] = "unsent" /\ g \notin dropped
    /\ \A g \in reported : server[g] = "done"

(* A goal at Nav2 that was neither given up nor cleared by another's       *)
(* answer is the active one.                                               *)
PursuitInv ==
    \A g \in Goals \ (dropped \cup crossed) :
        server[g] \in {"requested", "executing"} => activeGoal = g

IInv == TypeOK /\ PendingInv /\ ActiveInv /\ PostedInv /\ PursuitInv

USE SupervisorAssumption DEF SupervisorAssumption

LEMMA InitIInv == Init => IInv
BY DEF Init, SupervisorInit, IInv, TypeOK, PendingInv, ActiveInv, PostedInv,
       PursuitInv, AUTO, MANUAL, ServerState

(* Callbacks that change only what the inputs say, or Nav2's side.         *)
LEMMA InputsStep ==
    ASSUME IInv, NEW authority \in {AUTO, MANUAL}, NEW status \in Statuses \cup {None},
           NEW nav \in Goals \cup {Stop}, NEW probe \in {Spin, Stop},
           OnInputs(authority, status, nav, probe)
    PROVE  IInv'
BY DEF OnInputs, client, IInv, TypeOK, PendingInv, ActiveInv, PostedInv,
       PursuitInv

LEMMA Nav2Step ==
    ASSUME IInv, NEW g \in Goals,
           Nav2Refuses(g) \/ Nav2Accepts(g) \/ Nav2Cancels(g) \/ Nav2Finishes(g)
    PROVE  IInv'
<1> USE DEF IInv
<1>1. /\ server' \in [Goals -> ServerState]
      /\ \A h \in Goals : server[h] = "unsent" <=> server'[h] = "unsent"
      /\ \A h \in Goals : server[h] = "done" => server'[h] = "done"
      /\ \A h \in Goals : server'[h] \in {"requested", "executing"} =>
                             server[h] \in {"requested", "executing"}
  BY DEF Nav2Refuses, Nav2Accepts, Nav2Cancels, Nav2Finishes, TypeOK,
         ServerState
<1>2. Nav2
  BY DEF Nav2Refuses, Nav2Accepts, Nav2Cancels, Nav2Finishes
<1> QED  BY <1>1, <1>2
            DEF Nav2, inputs, TypeOK, PendingInv, ActiveInv, PostedInv,
                PursuitInv

-----------------------------------------------------------------------------
LEMMA CancelActiveType ==
    ASSUME TypeOK, CancelActive
    PROVE  /\ activeGoal' = None
           /\ goalHandle' \in Goals \cup {None}
           /\ cancels' \subseteq Goals
BY DEF TypeOK, CancelActive

LEMMA TickStep == IInv /\ Tick => IInv'
<1> SUFFICES ASSUME IInv, Tick
             PROVE  IInv'
    OBVIOUS
<1> USE DEF IInv
<1>k. UNCHANGED <<authorityMode, locStatus, navCmd, probeCmd, latestGoal,
                  responded, reported, posted, crossed>>
  BY DEF Tick, inputs
<1>1. CASE TickManual \/ TickProbe \/ TickIdle
  <2>1. CancelActive /\ UNCHANGED server
    BY <1>1 DEF TickManual, TickProbe, TickIdle
  <2>2. /\ pendingGoal' \in {pendingGoal, None}
        /\ dropped' \subseteq dropped \cup ({activeGoal, pendingGoal} \ {None})
        /\ dropped \cup ({activeGoal} \ {None}) \subseteq dropped'
        /\ pendingGoal' # None =>
               dropped' \subseteq dropped \cup ({activeGoal} \ {None})
    BY <1>1 DEF TickManual, TickProbe, TickIdle
  <2>3. /\ mode' \in {"IDLE", "PROBE"}
        /\ cmdVelRaw' \in {Stop, probeCmd}
    BY <1>1 DEF TickManual, TickProbe, TickIdle
  <2>4. TypeOK'
    BY <1>k, <2>1, <2>2, <2>3, CancelActiveType DEF TypeOK
  <2>5. PendingInv'
    BY <1>k, <2>1, <2>2 DEF PendingInv, ActiveInv, TypeOK
  <2>6. ActiveInv' /\ PostedInv'
    BY <1>k, <2>1, <2>2, CancelActiveType
       DEF PendingInv, ActiveInv, PostedInv, TypeOK
  <2>7. PursuitInv'
    BY <1>k, <2>1, <2>2 DEF PursuitInv, TypeOK
  <2> QED  BY <2>4, <2>5, <2>6, <2>7
<1>2. CASE TickNav
  BY <1>k, <1>2 DEF TickNav, TypeOK, PendingInv, ActiveInv, PostedInv,
                    PursuitInv
<1>3. CASE TickDispatch
  <2>1. /\ pendingGoal # None /\ activeGoal = None /\ pendingGoal' = None
        /\ pendingGoal = latestGoal
        /\ pendingGoal \in (posted \ dropped) \cap Goals
        /\ server[pendingGoal] = "unsent"
        /\ UNCHANGED <<goalHandle, cancels>>
        /\ mode' = "NAV" /\ cmdVelRaw' = navCmd
    BY <1>3 DEF TickDispatch, PendingInv, TypeOK
  <2>2. CASE activeGoal' = None /\ dropped' = dropped \cup {pendingGoal}
             /\ UNCHANGED server
    BY <1>k, <2>1, <2>2 DEF TypeOK, PendingInv, ActiveInv, PostedInv,
                            PursuitInv
  <2>3. CASE /\ activeGoal' = pendingGoal
             /\ server' = [server EXCEPT ![latestGoal] = "requested"]
             /\ UNCHANGED dropped
    <3>1. /\ server' \in [Goals -> ServerState]
          /\ server'[pendingGoal] = "requested"
          /\ \A h \in Goals \ {pendingGoal} : server'[h] = server[h]
      BY <2>1, <2>3 DEF TypeOK, ServerState
    <3>2. pendingGoal \notin reported
      BY <2>1 DEF PostedInv
    <3> QED  BY <1>k, <2>1, <2>3, <3>1, <3>2
                DEF TypeOK, PendingInv, ActiveInv, PostedInv, PursuitInv
  <2> QED  BY <1>3, <2>2, <2>3 DEF TickDispatch
<1> QED  BY <1>1, <1>2, <1>3 DEF Tick

LEMMA StepIInv == IInv /\ [Next]_vars => IInv'
<1> SUFFICES ASSUME IInv, [Next]_vars
             PROVE  IInv'
    OBVIOUS
<1>1. ASSUME NEW g \in Goals, OnGoalPose(g)
      PROVE  IInv'
  BY <1>1 DEF OnGoalPose, inputs, client, IInv, TypeOK, PendingInv, ActiveInv,
              PostedInv, PursuitInv
<1>2. ASSUME NEW g \in Goals, OnGoalResponse(g) \/ OnGoalResult(g)
      PROVE  IInv'
  <2>1. /\ UNCHANGED <<mode, pendingGoal, latestGoal, cmdVelRaw, inputs,
                       server, cancels, posted, dropped>>
        /\ goalHandle' \in {goalHandle, g, None}
        /\ responded' \in {responded, responded \cup {g}}
        /\ \/ UNCHANGED reported
           \/ server[g] = "done" /\ reported' = reported \cup {g}
    BY <1>2 DEF OnGoalResponse, OnGoalResult
  <2>2. \/ UNCHANGED <<activeGoal, crossed, reported>>
        \/ /\ activeGoal' = None /\ crossed' = Crossed(g)
           /\ server[g] \in {"refused", "done"}
    BY <1>2 DEF OnGoalResponse, OnGoalResult, OnGoalFinished
  <2>3. TypeOK'
    BY <2>1, <2>2 DEF IInv, TypeOK, Crossed, inputs
  <2>4. PendingInv' /\ ActiveInv' /\ PostedInv'
    BY <2>1, <2>2 DEF IInv, TypeOK, PendingInv, ActiveInv, PostedInv
  <2>5. PursuitInv'
    BY <2>1, <2>2 DEF IInv, PursuitInv, Crossed
  <2> QED  BY <2>3, <2>4, <2>5 DEF IInv
<1>3. ASSUME NEW g \in Goals,
             \/ Nav2Refuses(g) \/ Nav2Accepts(g) \/ Nav2Cancels(g)
             \/ Nav2Finishes(g)
      PROVE  IInv'
  BY <1>3, Nav2Step
<1>4. CASE \/ \E authority \in {AUTO, MANUAL} : OnControlAuthority(authority)
           \/ \E status \in Statuses : OnLocalizationStatus(status)
           \/ \E cmd \in Goals \cup {Stop} : OnCmdVelNav(cmd)
           \/ \E cmd \in {Spin, Stop} : OnCmdVelProbe(cmd)
  <2>1. /\ authorityMode \in {AUTO, MANUAL} /\ locStatus \in Statuses \cup {None}
        /\ navCmd \in Goals \cup {Stop} /\ probeCmd \in {Spin, Stop}
    BY DEF IInv, TypeOK
  <2>2. PICK authority \in {AUTO, MANUAL}, status \in Statuses \cup {None},
             nav \in Goals \cup {Stop}, probe \in {Spin, Stop} :
                OnInputs(authority, status, nav, probe)
    BY <1>4, <2>1 DEF OnControlAuthority, OnLocalizationStatus, OnCmdVelNav,
                      OnCmdVelProbe
  <2> QED  BY <2>2, InputsStep
<1>5. CASE Tick
  BY <1>5, TickStep
<1>6. CASE UNCHANGED vars
  BY <1>6 DEF vars, inputs, client, IInv, TypeOK, PendingInv, ActiveInv,
              PostedInv, PursuitInv
<1> QED  BY <1>1, <1>2, <1>3, <1>4, <1>5, <1>6 DEF Next

-----------------------------------------------------------------------------
(* IInv is inductive, so it always holds. *)
THEOREM Invariance == Spec => []IInv
BY InitIInv, StepIInv, PTL DEF Spec

(* The supervisor's state and what it sends are always well formed. *)
THEOREM TypeCorrect == Spec => []TypeOK
<1>1. IInv => TypeOK
  BY DEF IInv
<1> QED  BY Invariance, <1>1, PTL

(* No goal is sent to Nav2 twice, nor after a tick has given it up, and    *)
(* the goal sent is the active one (supervisor_state.py:20-22, 39-42).     *)
THEOREM GoalsAreNotReplayed == Spec => NothingIsReplayed
<1> DEFINE Fresh(g) ==
        server[g] # "requested" /\ server'[g] = "requested" =>
            server[g] = "unsent" /\ activeGoal' = g /\ g \notin dropped
<1>1. ASSUME IInv, [Next]_vars, NEW g \in Goals
      PROVE  Fresh(g)
  <2>1. CASE Tick
    <3>1. CASE TickDispatch
      BY <1>1, <3>1 DEF TickDispatch, IInv, PendingInv, TypeOK
    <3>2. CASE TickManual \/ TickNav \/ TickProbe \/ TickIdle
      BY <3>2 DEF TickManual, TickNav, TickProbe, TickIdle
    <3> QED  BY <2>1, <3>1, <3>2 DEF Tick
  <2>2. CASE \E h \in Goals : \/ Nav2Refuses(h) \/ Nav2Accepts(h)
                              \/ Nav2Cancels(h) \/ Nav2Finishes(h)
    BY <1>1, <2>2 DEF Nav2Refuses, Nav2Accepts, Nav2Cancels, Nav2Finishes,
                      IInv, TypeOK
  <2>3. CASE UNCHANGED server
    BY <2>3
  <2> QED  BY <1>1, <2>1, <2>2, <2>3
              DEF Next, vars, client, OnGoalPose, OnGoalResponse, OnGoalResult,
                  OnControlAuthority, OnLocalizationStatus, OnCmdVelNav,
                  OnCmdVelProbe, OnInputs
<1>2. IInv /\ [Next]_vars =>
        \A g \in Goals : server[g] # "requested" /\ server'[g] = "requested" =>
          /\ server[g] = "unsent"
          /\ activeGoal' = g
          /\ g \notin dropped
  BY <1>1
<1> QED  BY Invariance, <1>2, PTL DEF Spec, NothingIsReplayed

(* A goal Nav2 pursues, that no tick has given up and no other goal's late *)
(* answer has cleared, is driven whenever the robot is localized and in    *)
(* AUTO, for any number of goals (supervisor_state.py:27).                 *)
THEOREM PursuitIsDriven == Spec => UncrossedGoalIsDriven
<1>1. ASSUME IInv, Tick, authorityMode = AUTO, locStatus = USABLE,
             NEW g \in Goals \ (dropped \cup crossed), server[g] = "executing"
      PROVE  mode' = "NAV" /\ cmdVelRaw' = navCmd
  <2>1. activeGoal = g /\ g # None
    BY <1>1 DEF IInv, PursuitInv
  <2>2. AUTO # MANUAL /\ USABLE \notin PreUsable
    BY DEF AUTO, MANUAL, USABLE, PreUsable
  <2> QED  BY <1>1, <2>1, <2>2
              DEF Tick, TickManual, TickNav, TickProbe, TickDispatch, TickIdle
<1>2. IInv =>
        (Tick /\ authorityMode = AUTO /\ locStatus = USABLE
            /\ (\E g \in Goals \ (dropped \cup crossed) :
                   server[g] = "executing")
         => mode' = "NAV" /\ cmdVelRaw' = navCmd)
  BY <1>1
<1> QED  BY Invariance, <1>2, PTL DEF Spec, UncrossedGoalIsDriven

=============================================================================
