--------------------------- MODULE TeleopPublisher ---------------------------
(***************************************************************************)
(* rambla_control_panel's drive path: the deadman that holds the operator's*)
(* last command, and the timer that publishes it on /cmd_vel_teleop.       *)
(*                                                                         *)
(* Two threads share the deadman without a lock: gateway_client's asyncio  *)
(* thread stores commands and trips it when the relay connection drops,    *)
(* the rclpy spin thread reads it twice per tick (command, then is_active) *)
(* and trips it on timeout.  Python may switch threads between any two     *)
(* accesses to the deadman's fields, so each access is a step of its own;  *)
(* spin and net are the threads' program counters.                         *)
(***************************************************************************)
EXTENDS Integers

CONSTANTS
    Cmds,           \* the operator's commands, [linear, angular]
    Timeout,        \* DEADMAN_TIMEOUT_S
    Never,          \* None, for _last_update
    NoMessage       \* nothing published yet

Velocity == {c.linear : c \in Cmds} \cup {c.angular : c \in Cmds} \cup {0}
Message == [linear : Velocity, angular : Velocity]
Zero == [linear |-> 0, angular |-> 0]

ASSUME TeleopAssumption ==
    /\ Cmds \subseteq [linear : Int, angular : Int]
    /\ Timeout \in Nat
    /\ Never \notin Nat
    /\ NoMessage \notin Message

SpinAt == {"idle", "lastUpdate", "tripLinear", "tripAngular", "trip",
           "linear", "angular", "everActive", "notTripped", "publish"}
NetAt == {"idle", "angular", "lastUpdate", "rearm", "tripAngular", "trip"}

VARIABLES
    linear, angular,     \* DeadmanTimer._linear, _angular
    lastUpdate,          \* now - _last_update, or Never
    tripped,             \* _tripped
    wasActive,           \* ControlPanelNode._teleop_was_active
    spin,                \* where the rclpy thread is in _publish_cmd_vel
    got,                 \* its locals linear and angular
    active,              \* its local active
    net,                 \* where the asyncio thread is
    netCmd,              \* the command it is storing
    sent,                \* the last message on /cmd_vel_teleop
    \* history, for the properties only
    raced, sentRaced,    \* a drop tripped the deadman during this tick,
                         \* and during the tick that sent the last message
    afterDrop            \* messages since the connection dropped, or -1
                         \* when a command came since

deadman == <<linear, angular, lastUpdate, tripped>>
spinVars == <<spin, got, active, wasActive, sent, sentRaced>>
netVars == <<net, netCmd>>
vars == <<deadman, spinVars, netVars, raced, afterDrop>>

(* More messages than this after a drop already break the bound.           *)
AfterDropCap == 3

TypeOK ==
    /\ linear \in Velocity
    /\ angular \in Velocity
    /\ lastUpdate \in 0..(Timeout + 1) \cup {Never}
    /\ tripped \in BOOLEAN
    /\ wasActive \in BOOLEAN
    /\ spin \in SpinAt
    /\ got \in Message
    /\ active \in BOOLEAN
    /\ net \in NetAt
    /\ netCmd \in Cmds \cup {Zero}
    /\ sent \in Message \cup {NoMessage}
    /\ raced \in BOOLEAN
    /\ sentRaced \in BOOLEAN
    /\ afterDrop \in -1..AfterDropCap

Init ==
    /\ linear = 0 /\ angular = 0
    /\ lastUpdate = Never
    /\ tripped = FALSE
    /\ wasActive = FALSE
    /\ spin = "idle" /\ got = Zero /\ active = FALSE
    /\ net = "idle" /\ netCmd = Zero
    /\ sent = NoMessage
    /\ raced = FALSE /\ sentRaced = FALSE
    /\ afterDrop = -1

-----------------------------------------------------------------------------
(* The rclpy thread: command(), with the trip it may decide on *)

CommandTripped ==
    /\ spin = "idle"
    /\ spin' = IF tripped THEN "everActive" ELSE "lastUpdate"
    /\ got' = Zero
    /\ raced' = FALSE
    /\ UNCHANGED <<deadman, active, wasActive, sent, sentRaced, netVars,
                   afterDrop>>

CommandStale ==
    /\ spin = "lastUpdate"
    /\ spin' = IF lastUpdate = Never THEN "everActive"
               ELSE IF lastUpdate > Timeout THEN "tripLinear" ELSE "linear"
    /\ UNCHANGED <<deadman, got, active, wasActive, sent, sentRaced, netVars,
                   raced, afterDrop>>

(* Mutant: a timeout zeroes the command and does not trip.                 *)
SpinTripZeroOnly ==
    /\ \/ spin = "tripLinear" /\ spin' = "tripAngular" /\ linear' = 0
          /\ UNCHANGED angular
       \/ spin = "tripAngular" /\ spin' = "everActive" /\ angular' = 0
          /\ UNCHANGED linear
    /\ UNCHANGED <<lastUpdate, tripped, got, active, wasActive, sent,
                   sentRaced, netVars, raced, afterDrop>>

SpinTrip ==
    /\ \/ /\ spin = "tripLinear" /\ spin' = "tripAngular"
          /\ linear' = 0 /\ UNCHANGED <<angular, tripped>>
       \/ /\ spin = "tripAngular" /\ spin' = "trip"
          /\ angular' = 0 /\ UNCHANGED <<linear, tripped>>
       \/ /\ spin = "trip" /\ spin' = "everActive"
          /\ tripped' = TRUE /\ UNCHANGED <<linear, angular>>
    /\ UNCHANGED <<lastUpdate, got, active, wasActive, sent, sentRaced,
                   netVars, raced, afterDrop>>

CommandFresh ==
    /\ \/ /\ spin = "linear" /\ spin' = "angular"
          /\ got' = [got EXCEPT !.linear = linear]
       \/ /\ spin = "angular" /\ spin' = "everActive"
          /\ got' = [got EXCEPT !.angular = angular]
    /\ UNCHANGED <<deadman, active, wasActive, sent, sentRaced, netVars,
                   raced, afterDrop>>

(* is_active, the second look at the deadman.                              *)
IsActive ==
    /\ \/ /\ spin = "everActive"
          /\ spin' = IF lastUpdate = Never THEN "publish" ELSE "notTripped"
          /\ active' = FALSE
       \/ /\ spin = "notTripped" /\ spin' = "publish"
          /\ active' = ~tripped
    /\ UNCHANGED <<deadman, got, wasActive, sent, sentRaced, netVars, raced,
                   afterDrop>>

(* Mutant: fall silent at once, without the final zero.                    *)
StaySilentAtOnce ==
    /\ spin = "publish" /\ ~active
    /\ spin' = "idle" /\ wasActive' = FALSE
    /\ UNCHANGED <<deadman, got, active, sent, sentRaced, netVars, raced,
                   afterDrop>>

(* The rest of _publish_cmd_vel: stay silent, or publish what was read.    *)
StaySilent ==
    /\ spin = "publish" /\ ~active /\ ~wasActive
    /\ spin' = "idle"
    /\ UNCHANGED <<deadman, got, active, wasActive, sent, sentRaced, netVars,
                   raced, afterDrop>>

(* Mutant: once active, the publisher never forgets it.                    *)
PublishForever ==
    /\ spin = "publish" /\ (active \/ wasActive)
    /\ spin' = "idle" /\ wasActive' = TRUE
    /\ sent' = got /\ sentRaced' = raced
    /\ afterDrop' = IF afterDrop \in 0..(AfterDropCap - 1)
                    THEN afterDrop + 1 ELSE afterDrop
    /\ UNCHANGED <<deadman, got, active, netVars, raced>>

Publish ==
    /\ spin = "publish" /\ (active \/ wasActive)
    /\ spin' = "idle"
    /\ wasActive' = active
    /\ sent' = got
    /\ sentRaced' = raced
    /\ afterDrop' = IF afterDrop \in 0..(AfterDropCap - 1)
                    THEN afterDrop + 1 ELSE afterDrop
    /\ UNCHANGED <<deadman, got, active, netVars, raced>>

-----------------------------------------------------------------------------
(* The asyncio thread: on_command and on_disconnect *)

OnCommand(cmd) ==
    /\ net = "idle" /\ net' = "angular"
    /\ linear' = cmd.linear
    /\ netCmd' = cmd
    /\ afterDrop' = -1
    /\ UNCHANGED <<angular, lastUpdate, tripped, spinVars, raced>>

OnCommandRest ==
    /\ \/ /\ net = "angular" /\ net' = "lastUpdate"
          /\ angular' = netCmd.angular /\ UNCHANGED <<lastUpdate, tripped>>
       \/ /\ net = "lastUpdate" /\ net' = "rearm"
          /\ lastUpdate' = 0 /\ UNCHANGED <<angular, tripped>>
       \/ /\ net = "rearm" /\ net' = "idle"
          /\ tripped' = FALSE /\ UNCHANGED <<angular, lastUpdate>>
    /\ UNCHANGED <<linear, netCmd, spinVars, raced, afterDrop>>

(* submit_disconnect, when the control channel drops for any reason.       *)
OnDisconnect ==
    /\ net = "idle" /\ net' = "tripAngular"
    /\ linear' = 0
    /\ UNCHANGED <<angular, lastUpdate, tripped, spinVars, netCmd, raced, afterDrop>>

OnDisconnectRest ==
    /\ \/ /\ net = "tripAngular" /\ net' = "trip"
          /\ angular' = 0 /\ UNCHANGED <<tripped, raced, afterDrop>>
       \/ /\ net = "trip" /\ net' = "idle"
          /\ tripped' = TRUE
          /\ raced' = (spin # "idle")
          /\ afterDrop' = 0
          /\ UNCHANGED angular
    /\ UNCHANGED <<linear, lastUpdate, spinVars, netCmd>>

(* time.monotonic moves on, between any two steps of either thread.        *)
Elapse ==
    /\ lastUpdate # Never /\ lastUpdate <= Timeout
    /\ lastUpdate' = lastUpdate + 1
    /\ UNCHANGED <<linear, angular, tripped, spinVars, netVars, raced,
                   afterDrop>>

-----------------------------------------------------------------------------
SpinThread ==
    \/ CommandTripped \/ CommandStale \/ SpinTrip \/ CommandFresh
    \/ IsActive \/ StaySilent \/ Publish

NetThread == OnCommandRest \/ OnDisconnectRest

Next ==
    \/ SpinThread
    \/ NetThread
    \/ \E cmd \in Cmds : OnCommand(cmd)
    \/ OnDisconnect
    \/ Elapse

(* Both threads keep running and the clock keeps moving; what the relay    *)
(* delivers, and whether the connection drops, is not the gateway's doing. *)
Fairness == WF_vars(SpinThread) /\ WF_vars(NetThread) /\ WF_vars(Elapse)

Spec == Init /\ [][Next]_vars /\ Fairness

-----------------------------------------------------------------------------
Silent == spin = "idle" /\ ~wasActive

(* When the publisher has gone silent its last message was zero, whatever  *)
(* the timing of commands and timeouts, unless the connection dropped      *)
(* within that very tick (control_panel_node.py:14-16, 170-186).           *)
FinalZeroUnlessRaced ==
    Silent /\ sent # NoMessage /\ ~sentRaced => sent = Zero

(* The same without the exception, which is what the module's docstring    *)
(* says: "exactly one final zero on the tick it goes inactive".            *)
FinalZero == Silent /\ sent # NoMessage => sent = Zero

(* Once the connection has dropped, at most the message of the tick under  *)
(* way and one more go out before the operator is back, and that last one  *)
(* is zero.                                                                *)
DropEndsStream ==
    /\ afterDrop <= 2
    /\ afterDrop = 2 => sent = Zero

(* A message is zero or a command the operator gave: "Returns (linear,     *)
(* angular) to publish right now: the last received command if still       *)
(* fresh, otherwise zero" (deadman.py:39-40).                              *)
PublishedWasCommanded == sent \in Cmds \cup {Zero, NoMessage}

(* A trip lasts "until the next on_command" (deadman.py:40-41): when       *)
(* on_command has run, only a later timeout or drop trips the deadman.     *)
CommandRearms ==
    [][SpinTrip /\ tripped' /\ net = "idle" => lastUpdate > Timeout]_vars

(* The publisher falls silent: for good when the connection drops, until   *)
(* another command comes, and without any drop when the operator stops     *)
(* sending.                                                                *)
FallsSilent ==
    /\ (afterDrop >= 0) ~> (Silent \/ afterDrop = -1)
    /\ (wasActive /\ net = "idle") ~> (~wasActive \/ net # "idle")

=============================================================================
