------------------------- MODULE BehaviorSupervisor -------------------------
(***************************************************************************)
(* rambla_navigation's behavior_supervisor: the one node that writes       *)
(* /cmd_vel_raw.  Each tick picks a mode from the control authority, the   *)
(* localization status and the operator's goals, forwards the velocity of  *)
(* that mode's source, and starts or cancels Nav2's NavigateToPose goal.   *)
(*                                                                         *)
(* rclpy.spin runs the callbacks one at a time, so each is one action.     *)
(* What makes it hard is the action client: the response to a goal, the    *)
(* request to cancel it and its result each arrive later, in an order      *)
(* Nav2 and the middleware decide.  Nav2 itself is external: it accepts or *)
(* refuses a goal, drops the goal it was pursuing for a newer one, and     *)
(* stops a goal it is asked to cancel.                                     *)
(*                                                                         *)
(* A goal stands for one /goal_pose message and a velocity for the source  *)
(* it comes from: a goal for Nav2's pursuit of it, Spin for the probe.     *)
(* MAP is left out: the node has no subscription that requests it.         *)
(***************************************************************************)
EXTENDS Naturals

CONSTANTS
    Goals,     \* the /goal_pose messages
    Statuses,  \* the /localization_status values that may be announced
    None, Stop, Spin

MANUAL == "MANUAL"
AUTO == "AUTO"
USABLE == "USABLE"
PreUsable == {"GLOBAL", "CONVERGING"}

ASSUME SupervisorAssumption ==
    /\ None \notin Goals \cup Statuses
    /\ Stop \notin Goals \cup {Spin}
    /\ Spin \notin Goals

(* A goal at Nav2.                                                         *)
ServerState == {"unsent", "requested", "executing", "canceling", "done",
                "refused"}

VARIABLES
    mode,             \* BehaviorSupervisor._mode
    authorityMode,    \* _authority_mode
    locStatus,        \* _loc_status
    pendingGoal,      \* _pending_goal
    activeGoal,       \* _active_goal
    navCmd, probeCmd, \* _nav_cmd, _probe_cmd (None and zero alike are Stop)
    latestGoal,       \* the node's _latest_goal_msg
    goalHandle,       \* the node's _goal_handle
    cmdVelRaw,        \* the last /cmd_vel_raw message
    \* the action client's and Nav2's side
    server,           \* per goal: where Nav2 is with it
    responded,        \* goals whose response the node has handled
    cancels,          \* goals the node has asked Nav2 to cancel
    reported,         \* goals whose result the node has handled
    \* history, for the properties only
    posted,           \* the /goal_pose messages so far
    dropped,          \* goals a tick has given up
    crossed           \* goals another goal's refusal or result has cleared

inputs == <<authorityMode, locStatus, navCmd, probeCmd>>
client == <<server, responded, cancels, reported>>
vars == <<mode, pendingGoal, activeGoal, latestGoal, goalHandle, cmdVelRaw,
          inputs, client, posted, dropped, crossed>>

TypeOK ==
    /\ mode \in {"IDLE", "NAV", "PROBE"}
    /\ authorityMode \in {AUTO, MANUAL}
    /\ locStatus \in Statuses \cup {None}
    /\ pendingGoal \in Goals \cup {None}
    /\ activeGoal \in Goals \cup {None}
    /\ navCmd \in Goals \cup {Stop}
    /\ probeCmd \in {Spin, Stop}
    /\ latestGoal \in Goals \cup {None}
    /\ goalHandle \in Goals \cup {None}
    /\ cmdVelRaw \in Goals \cup {Spin, Stop}
    /\ server \in [Goals -> ServerState]
    /\ responded \subseteq Goals
    /\ cancels \subseteq Goals
    /\ reported \subseteq Goals
    /\ posted \subseteq Goals
    /\ dropped \subseteq Goals
    /\ crossed \subseteq Goals

(* The constructor of BehaviorSupervisor, and that of its node.            *)
SupervisorInit ==
    /\ mode = "IDLE" /\ authorityMode = AUTO /\ locStatus = None
    /\ pendingGoal = None /\ activeGoal = None
    /\ navCmd = Stop /\ probeCmd = Stop

Init ==
    /\ SupervisorInit
    /\ latestGoal = None /\ goalHandle = None
    /\ cmdVelRaw = Stop
    /\ server = [g \in Goals |-> "unsent"]
    /\ responded = {} /\ cancels = {} /\ reported = {}
    /\ posted = {} /\ dropped = {} /\ crossed = {}

-----------------------------------------------------------------------------
(* The subscriptions *)

OnGoalPose(g) ==
    /\ g \notin posted
    /\ posted' = posted \cup {g}
    /\ latestGoal' = g
    /\ pendingGoal' = g
    /\ UNCHANGED <<mode, activeGoal, goalHandle, cmdVelRaw, inputs, client,
                   dropped, crossed>>

OnInputs(authority, status, nav, probe) ==
    /\ authorityMode' = authority
    /\ locStatus' = status
    /\ navCmd' = nav
    /\ probeCmd' = probe
    /\ UNCHANGED <<mode, pendingGoal, activeGoal, latestGoal, goalHandle,
                   cmdVelRaw, client, posted, dropped, crossed>>

OnControlAuthority(authority) ==
    OnInputs(authority, locStatus, navCmd, probeCmd)

OnLocalizationStatus(status) ==
    OnInputs(authorityMode, status, navCmd, probeCmd)

(* Nav2 drives only for a goal it is pursuing.                             *)
OnCmdVelNav(cmd) ==
    /\ cmd # Stop => server[cmd] \in {"executing", "canceling"}
    /\ OnInputs(authorityMode, locStatus, cmd, probeCmd)

OnCmdVelProbe(cmd) == OnInputs(authorityMode, locStatus, navCmd, cmd)

-----------------------------------------------------------------------------
(* tick, with the node's _dispatch_goal and _cancel_goal *)

(* Mutant: the cancel is asked of a handle that may be None.               *)
CancelActiveUnchecked ==
    IF activeGoal = None THEN UNCHANGED <<activeGoal, goalHandle, cancels>>
    ELSE /\ activeGoal' = None
         /\ goalHandle' = None
         /\ cancels' = cancels \cup {goalHandle}

(* Mutant: the handle is cleared before it is asked to cancel.             *)
CancelActiveTooLate ==
    IF activeGoal = None THEN UNCHANGED <<activeGoal, goalHandle, cancels>>
    ELSE activeGoal' = None /\ goalHandle' = None /\ UNCHANGED cancels

(* Give the active goal up; only one whose handle is known is cancelled.   *)
CancelActive ==
    IF activeGoal = None THEN UNCHANGED <<activeGoal, goalHandle, cancels>>
    ELSE /\ activeGoal' = None
         /\ goalHandle' = None
         /\ cancels' = cancels \cup ({goalHandle} \ {None})

(* Mutant: a takeover keeps the goal that was waiting.                     *)
TickManualKeepingPending ==
    /\ authorityMode = MANUAL
    /\ CancelActive
    /\ mode' = "IDLE"
    /\ cmdVelRaw' = Stop
    /\ dropped' = dropped \cup ({activeGoal, pendingGoal} \ {None})
    /\ UNCHANGED <<pendingGoal, server>>

TickManual ==
    /\ authorityMode = MANUAL
    /\ CancelActive
    /\ pendingGoal' = None
    /\ mode' = "IDLE"
    /\ cmdVelRaw' = Stop
    /\ dropped' = dropped \cup ({activeGoal, pendingGoal} \ {None})
    /\ UNCHANGED server

TickNav ==
    /\ authorityMode # MANUAL /\ locStatus = USABLE
    /\ activeGoal # None
    /\ mode' = "NAV"
    /\ cmdVelRaw' = navCmd
    /\ UNCHANGED <<activeGoal, pendingGoal, goalHandle, server, cancels,
                   dropped>>

TickProbe ==
    /\ authorityMode # MANUAL /\ locStatus \in PreUsable
    /\ CancelActive
    /\ mode' = "PROBE"
    /\ cmdVelRaw' = probeCmd
    /\ dropped' = dropped \cup ({activeGoal} \ {None})
    /\ UNCHANGED <<pendingGoal, server>>

(* The goal sent is the node's copy; when the server is not ready it is    *)
(* gone at once, though this tick still reports NAV.                       *)
TickDispatch ==
    /\ authorityMode # MANUAL /\ locStatus = USABLE
    /\ activeGoal = None /\ pendingGoal # None
    /\ pendingGoal' = None
    /\ mode' = "NAV"
    /\ cmdVelRaw' = navCmd
    /\ \/ /\ activeGoal' = pendingGoal
          /\ server' = [server EXCEPT ![latestGoal] = "requested"]
          /\ UNCHANGED dropped
       \/ /\ activeGoal' = None
          /\ dropped' = dropped \cup {pendingGoal}
          /\ UNCHANGED server
    /\ UNCHANGED <<goalHandle, cancels>>

TickIdle ==
    /\ authorityMode # MANUAL /\ locStatus \notin PreUsable
    /\ locStatus = USABLE => activeGoal = None /\ pendingGoal = None
    /\ CancelActive
    /\ mode' = "IDLE"
    /\ cmdVelRaw' = Stop
    /\ dropped' = dropped \cup ({activeGoal} \ {None})
    /\ UNCHANGED <<pendingGoal, server>>

Tick ==
    /\ TickManual \/ TickNav \/ TickProbe \/ TickDispatch \/ TickIdle
    /\ UNCHANGED <<inputs, latestGoal, responded, reported, posted, crossed>>

-----------------------------------------------------------------------------
(* The action client's callbacks *)

(* Mutant: on_goal_finished forgets to clear the goal.                     *)
OnGoalFinishedNot == UNCHANGED activeGoal

OnGoalFinished == activeGoal' = None

(* The goal cleared, when it is not the one the message is about.          *)
Crossed(g) == crossed \cup ({activeGoal} \ {None, g})

Answered(g) == server[g] \notin {"unsent", "requested"}

(* Mutant: any response clears the goal.                                   *)
OnGoalResponseClearing(g) ==
    /\ Answered(g) /\ g \notin responded
    /\ responded' = responded \cup {g}
    /\ OnGoalFinished
    /\ crossed' = Crossed(g)
    /\ goalHandle' = IF server[g] = "refused" THEN goalHandle ELSE g
    /\ UNCHANGED <<mode, pendingGoal, latestGoal, cmdVelRaw, inputs, server,
                   cancels, reported, posted, dropped>>

OnGoalResponse(g) ==
    /\ Answered(g) /\ g \notin responded
    /\ responded' = responded \cup {g}
    /\ IF server[g] = "refused"
       THEN OnGoalFinished /\ crossed' = Crossed(g) /\ UNCHANGED goalHandle
       ELSE goalHandle' = g /\ UNCHANGED <<activeGoal, crossed>>
    /\ UNCHANGED <<mode, pendingGoal, latestGoal, cmdVelRaw, inputs, server,
                   cancels, reported, posted, dropped>>

OnGoalResult(g) ==
    /\ server[g] = "done" /\ g \in responded \ reported
    /\ reported' = reported \cup {g}
    /\ goalHandle' = None
    /\ OnGoalFinished
    /\ crossed' = Crossed(g)
    /\ UNCHANGED <<mode, pendingGoal, latestGoal, cmdVelRaw, inputs, server,
                   responded, cancels, posted, dropped>>

-----------------------------------------------------------------------------
(* Nav2 *)

Nav2 ==
    UNCHANGED <<mode, pendingGoal, activeGoal, latestGoal, goalHandle,
                cmdVelRaw, inputs, responded, cancels, reported, posted,
                dropped, crossed>>

Nav2Refuses(g) ==
    /\ server[g] = "requested"
    /\ server' = [server EXCEPT ![g] = "refused"]
    /\ Nav2

Nav2Accepts(g) ==
    /\ server[g] = "requested"
    /\ server' = [h \in Goals |->
                     IF h = g THEN "executing"
                     ELSE IF server[h] \in {"executing", "canceling"}
                          THEN "done" ELSE server[h]]
    /\ Nav2

Nav2Cancels(g) ==
    /\ server[g] = "executing" /\ g \in cancels
    /\ server' = [server EXCEPT ![g] = "canceling"]
    /\ Nav2

(* Reached, aborted, or stopped after a cancel.                            *)
Nav2Finishes(g) ==
    /\ server[g] \in {"executing", "canceling"}
    /\ server' = [server EXCEPT ![g] = "done"]
    /\ Nav2

-----------------------------------------------------------------------------
Next ==
    \/ \E g \in Goals :
          \/ OnGoalPose(g) \/ OnGoalResponse(g) \/ OnGoalResult(g)
          \/ Nav2Refuses(g) \/ Nav2Accepts(g) \/ Nav2Cancels(g)
          \/ Nav2Finishes(g)
    \/ \E authority \in {AUTO, MANUAL} : OnControlAuthority(authority)
    \/ \E status \in Statuses : OnLocalizationStatus(status)
    \/ \E cmd \in Goals \cup {Stop} : OnCmdVelNav(cmd)
    \/ \E cmd \in {Spin, Stop} : OnCmdVelProbe(cmd)
    \/ Tick

(* The timer ticks, the client's callbacks run, and Nav2 answers requests. *)
(* Nothing makes Nav2 finish a goal nobody cancels.                        *)
Fairness ==
    /\ WF_vars(Tick)
    /\ \A g \in Goals :
          /\ WF_vars(OnGoalResponse(g)) /\ WF_vars(OnGoalResult(g))
          /\ WF_vars(Nav2Accepts(g) \/ Nav2Refuses(g))
          /\ WF_vars(Nav2Cancels(g))
          /\ WF_vars(Nav2Finishes(g) /\ server[g] = "canceling")

Spec == Init /\ [][Next]_vars /\ Fairness

-----------------------------------------------------------------------------
Outstanding == {g \in Goals : /\ server[g] # "unsent"
                              /\ g \notin reported
                              /\ ~(server[g] = "refused" /\ g \in responded)}

(* A goal goes to Nav2 at most once, the one that becomes active, and not  *)
(* after a tick has given it up for MANUAL or a lost localization: nothing *)
(* is resumed or replayed (supervisor_state.py:20-22, 39-42).              *)
NothingIsReplayed ==
    [][\A g \in Goals : server[g] # "requested" /\ server'[g] = "requested" =>
          /\ server[g] = "unsent"
          /\ activeGoal' = g
          /\ g \notin dropped]_vars

(* "AUTO, active goal + status == USABLE -> NAV, forward /cmd_vel_nav"     *)
(* (supervisor_state.py:27): a goal Nav2 is pursuing, and that no tick has *)
(* given up, is driven, through takeovers, a lost localization and later   *)
(* goals; unless another goal's late refusal or result has cleared it.     *)
UncrossedGoalIsDriven ==
    [][Tick /\ authorityMode = AUTO /\ locStatus = USABLE
          /\ (\E g \in Goals \ (dropped \cup crossed) :
                 server[g] = "executing")
       => mode' = "NAV" /\ cmdVelRaw' = navCmd]_vars

(* The same without the proviso.                                           *)
PursuedGoalIsDriven ==
    [][Tick /\ authorityMode = AUTO /\ locStatus = USABLE
          /\ (\E g \in Goals \ dropped : server[g] = "executing")
       => mode' = "NAV" /\ cmdVelRaw' = navCmd]_vars

(* "Never auto-replays (same anti-replay discipline as ControlAuthority's  *)
(* stale-command handling)" (supervisor_state.py:39-42), said of the       *)
(* velocity: none of a goal that was given up is forwarded.                *)
GivenUpVelocityIsNotReplayed ==
    [][Tick => cmdVelRaw' \notin dropped']_vars

(* Every goal Nav2 is through with, refused ones included, stops being the *)
(* active one: "so the mux never gets wedged believing a finished goal is  *)
(* still active" (behavior_supervisor.py:15-19).                           *)
NeverWedged ==
    \A g \in Goals :
        (activeGoal = g /\ server[g] \in {"done", "refused"})
            ~> (activeGoal # g)

(* An operator who takes over stops Nav2, when the goal's response has     *)
(* been handled and no other goal's messages are under way.                *)
ManualStopsLoneGoal ==
    \A g \in Goals :
        (/\ authorityMode = MANUAL
         /\ activeGoal = g /\ goalHandle = g /\ Outstanding = {g})
            ~> (authorityMode = AUTO \/ server[g] # "executing")

(* The same without the proviso: "preempt/cancel any in-flight goal so     *)
(* Nav2 doesn't keep servoing against a robot a human is driving"          *)
(* (supervisor_state.py:17-18).                                            *)
ManualStopsNav2 ==
    \A g \in Goals :
        (authorityMode = MANUAL /\ server[g] = "executing")
            ~> (authorityMode = AUTO \/ server[g] # "executing")

=============================================================================
