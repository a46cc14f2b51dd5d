# Rambla in TLA+

Formal models of the Rambla robot's software: which node may move the robot, on
whose behalf, how it finds out where it is, how its map comes about, and what
happens to all of that when threads interleave, connections drop, answers come
late and clocks run on. The models are translated from the Python, TypeScript
and shell sources (paths below are relative to the repository; `PROJECT.json`
maps every definition to its lines), checked on small instances with TLC and,
where listed, proved for all instances with TLAPS.

## 1. The system

```
browser (static/js) --ws--> rambla_relay Durable Object --ws--> gateway (rambla_control_panel)
                                                                   | /cmd_vel_teleop
 /goal_pose, /localization_status                                  v
   --> behavior_supervisor --\                              safety_node --/cmd_vel--> robot
          |  NavigateToPose    >-- /cmd_vel_raw -->         ^   |
          v                   /               /scan, bumpers |  | /control_authority
        Nav2 --/cmd_vel_nav--/                               |  v
 traversal_node ------------/                     supervisor, traversal, probe, gateway

 AMCL --/particle_cloud, /amcl_pose--> localization_monitor --/localization_status-->
        supervisor, localization_probe (--/cmd_vel_probe--> supervisor), verify_localization

 recorded batch --> mapping job (compute/slam) --> volume --fetch--> staged maps --activate--> AMCL
```

| component | state it keeps | operations | hard behaviour |
|---|---|---|---|
| `rambla_safety` (`control_authority.py`, `safety_monitor.py`, `safety_node.py`) | mode, last manual time, last command of each source, bumper deadlines, nearest front range | 5 subscriptions, publish timer | stale commands after a takeover, timeout boundaries, contact topics that go silent, scan wrap-around |
| gateway drive path (`deadman.py`, `control_panel_node.py`) | last command, time, tripped; was-active flag | command, disconnect, publish timer | two threads share the deadman without a lock |
| gateway session (`gateway_client.py`, rest of `control_panel_node.py`) | sinks, wanted flags, subscriptions, frame queue, liveness probes | connect, message, drop; sync and publish timers | sinks cleared while the spin thread calls them, edge-triggered subscriptions, reconnect |
| `rambla_relay` (`robot-do.ts`) | stored lease, alarm, accepted sockets | accept, message, close, alarm | late alarms and closes, reconnect overtaking a close, subscriptions on 0/1 transitions only |
| `rambla_relay` front (`index.ts`) | none | authenticate, route | none |
| browser UI (`static/js`) | holding flag, joystick and key state | take, release, heartbeat, drive | works on what it was last told |
| `rambla_navigation` (`supervisor_state.py`, `behavior_supervisor.py`) | mode, pending and active goal, goal handle, last velocities | 5 subscriptions, tick, action client callbacks | responses, cancels and results of Nav2 cross each other |
| `rambla_localization` monitor (`localization_state.py`, `localization_monitor.py`) | confidence state, spread and covariances with their ages, time of loss, time of the last request | cloud, pose, odometry, startup poll, tick | stale inputs, hysteresis, a request that nobody answers, stale readings after it |
| `rambla_localization` probe (`probe_behavior.py`, `localization_probe.py`) | mode, attempts, rest and phase clocks, authority | status, odometry, authority, tick | phases interrupted by an operator or a change of status, bounded search |
| `rambla_localization` harness (`verify_localization.py`) | what was seen last, where the scenario is | preflight, waits, teleport, judgement | blocking calls while messages queue up, a watchdog against a timeout |
| `rambla_traversal` (`wander_behavior.py`, `traversal_node.py`) | last scan, turn direction, start time, authority heard | scan, authority, tick, end of run | yields and resumes under MANUAL; the last command may be discarded |
| mapping job (`compute/slam/modal_app.py`) | the processes it started, the watcher's queue, output volume | `run_mapping_job` | a phase that fails unnoticed, a pipe nobody reads, a reused container |
| map validation, activation (`scripts/validate_map.py`, `rambla_map_*` of `scripts/vm.sh`) | staged maps, the link `active` | fetch, validate, activate | a copy that stopped early |
| process control (rest of `scripts/vm.sh`) | pid files | start, stop, status | pid reuse |

What makes each correct, in one sentence:

- safety node: `/cmd_vel` carries the right source's latest command, never
  forward motion into a reported obstacle, and MANUAL ends when the operator does;
- gateway drive path: the teleop stream ends, with a zero, when the operator or
  the connection goes;
- gateway session: after any reconnect the subscriptions converge to what the
  relay's viewers want, and neither frames nor probes pile up;
- relay: one driver at a time, always released, everybody correctly informed,
  and the gateway streams exactly when somebody watches;
- supervisor: a goal is driven or stopped, never both or neither, and never
  resumed by itself;
- localization: USABLE is never announced on stale or wide readings, sustained
  loss leads to a request to start over, and each request to one bounded search;
- harness: a scenario that passes saw what it claims, and always ends;
- traversal: turns away before it must be stopped, and ends its run at rest;
- mapping: a clean report stands for a map of the whole batch, and only a whole
  map becomes the active one.

## 2. Modules

| module | models | composed of |
|---|---|---|
| `ScanArc` | the front-arc geometry of `SafetyMonitor`, with a reference definition | |
| `SafetyNode` | `rambla_safety`, whole | extends `ScanArc` |
| `Wander` | `rambla_traversal`, driving through the safety node | extends `SafetyNode` |
| `TeleopPublisher` | deadman and publisher under two threads | |
| `GatewaySession` | the gateway's two sessions and the node's other callbacks, two threads | |
| `LeaseContract` | abstract: what relay-protocol.md promises of the lease | |
| `RobotRelay` | the Durable Object | implements `LeaseContract` |
| `BehaviorSupervisor` | the supervisor with an external Nav2 | |
| `StatusContract` | abstract: the order in which localization statuses may be announced | |
| `ProbeContract` | abstract: that order, and when the probe may give up | extends `StatusContract` |
| `LocalizationMonitor` | the monitor with an external AMCL | implements `StatusContract` |
| `LocalizationProbe` | the probe | |
| `Localization` | monitor and probe together | extends both, implements `ProbeContract` |
| `VerifyLocalization` | the harness | extends `ProbeContract`: its nodes are taken at their contract |
| `MapRaster` | a saved map, its structural check, the classes of its pixels, with a reference definition of connected areas | |
| `FloodFill` | the coverage report's flood fill, turn by turn | extends `MapRaster` |
| `MappingJob` | `run_mapping_job` | extends `MapRaster` |
| `MapPipeline` | job, fetch, validation and activation | extends `MappingJob`, `FloodFill` |
| `SafetyProofs` (scan arc, safety node and traversal), `TeleopPublisherProofs`, `GatewaySessionProofs`, `RobotRelayProofs`, `BehaviorSupervisorProofs`, `LocalizationProofs`, `VerifyLocalizationProofs`, `MapPipelineProofs` (job, fill and pipeline) | theorems | extend the module they prove about |
| `MC*` | instances for TLC | |

Definitions marked "Mutant" in a comment are wrong on purpose: each is what a
plausible bug would make of the definition after it, and substituting it makes
the property named in `PROJECT.json` fail. No specification uses them.

Two abstractions recur. `rclpy.spin` runs a node's callbacks one at a time, so
each callback is one action wherever one thread owns the node. Clock readings
are kept as ages or remaining times that `Elapse` moves, capped where no
comparison in the code or in a property can tell larger ones apart; a timer
that is due fires before time moves past its period.

### SafetyNode

Callbacks: `OnScan`, `OnBumper`, `OnCmdVelRaw`, `OnCmdVelTeleop`, and the timer
`PublishCmdVel`, which runs `Tick` (release of a silent MANUAL), selects a
command, filters it and publishes. Ages are capped one period above the timeout
(`ManualAgeCap`, `ContactAgeCap`). Ranges are naturals or `NaN`; angles are
integers in a unit that divides the turn. Five history variables
(`sinceTeleop`, `heardTeleop`, `heardAuto`, `sinceContact`, `seenScan`) record
what the world said, so that properties speak of the world and not of the
node's own copies. Abstracted: clock jumps, floating point.

### Wander

`WanderOnScan`, `WanderOnAuthority`, `WanderTick` and `FinishRun` are
`TraversalNode`'s callbacks; `NextCommand` is `WanderBehavior`'s decision
(front clear, else the more open side, and stay with it). The two nodes are
processes of their own: commands on `/cmd_vel_raw` (`raw`) and changes on
`/control_authority` (`notices`) are under way for any time, in order. The
safety node's own actions are taken over unchanged; `PublishAndNotify` adds the
notice of a changed mode. Each node gets the scans at its own times. The
distance travelled is only logged and left out.

### TeleopPublisher

`gateway_client`'s asyncio thread calls `on_command` and `on_disconnect` on the
same `DeadmanTimer` that the rclpy spin thread reads in `_publish_cmd_vel`
(`command()`, then `is_active`). Python may switch threads between any two
accesses, so every access to a shared field is one step, and `spin` and `net`
are the two program counters. `afterDrop` counts messages after a drop up to
`AfterDropCap` = 3, one more than the bound that is checked.

### GatewaySession

The asyncio thread connects, forgets what earlier sessions wanted
(`ForgetWanted`), installs the node's sinks, receives, and clears the sinks
when a session ends; it notices a dead connection late (`up`). The spin thread
runs the sync timers, the sensor callbacks, the snapshot and diagnostics
timers, `_on_control_authority`, `_on_camera_frame` and the refresh of the
liveness probes. Whatever forwards something tests a sink (`TestSink`) and then
calls it (`CallSink`): two reads of an attribute that the other thread clears,
so two steps, and the second may find `None` (`CallNone`). A session's six
sinks are set and cleared together without an await between: one flag. The
relay's end is external here: it tells a new connection what is watched
(`Resync`) and every change after (`ViewersChange`), as `RobotRelay` does. Of
the frames only "newest" or "older" is kept; `puts` are frames handed to the
asyncio loop and not yet in the one-place queue.

### RobotRelay

The runtime's input gates keep other events out while a handler awaits storage,
so a handler is one action. Sockets are `open`, `lost` (the peer is gone and
the object does not know), `closing` (the object closed it) or `none`;
`getWebSockets` lists all but the last, which is what the code's own comment in
`webSocketClose` observed. A send to a `closing` socket throws, one to a `lost`
socket vanishes; which socket is first in the list is arbitrary. The alarm may
be late by any amount. `told`, `telemetry`, `video` and `driven` are what the
messages sent so far have made of the browsers and the gateway; a message to an
open socket is taken as received at once. A gateway session forgets its
subscriptions when it starts. A new gateway connection may be accepted before
the old one's close event is handled, and displaces it. `overlap` is history:
whether the current connection displaced a listed one, and whether a close event
has been handled while it was open (`LateClose`).

### BehaviorSupervisor

Nav2 is external: it accepts a goal (dropping an older one), refuses it, takes
up a cancel, finishes. Responses (`OnGoalResponse`) and results
(`OnGoalResult`) are handled some time later, in any order between goals. A
goal stands for one `/goal_pose` message; `navCmd` remembers for which goal
Nav2 computed the last velocity. A goal that finds the server not ready is
dropped in the same tick. `dropped` and `crossed` are history: the goals a tick
gave up, and those that an answer about another goal cleared (`Crossed`). MAP
mode is left out since the node has no input that requests it.

### LocalizationMonitor, LocalizationProbe, Localization

`Recomputed` is `_recompute_state` with its hysteresis; it runs on every
message and again in the tick. `OnParticleCloud`, `OnAmclPose`, `OnOdom`,
`PollStartupActivation` and `Tick` are the monitor's callbacks;
`CallReinitialize` is what both the poll and the tick do, forgetting all
readings. AMCL is external: its service comes and goes, and any reading may come
at any time, after a request also one of the old belief, which the monitor
cannot tell from a new one. `fresh` is history: which readings were received
since the last request. The probe's callbacks are
`OnStatus`, `OnVelocity`, `OnControlAuthority` and `ProbeTick`; its node does
not tick the behaviour under MANUAL, while the phase clock runs on. `drives`
and `turns` are history: phases begun since the last edge into GLOBAL. In the
composition a status is handled by the probe when it is published and an
odometry message by both nodes at once; all other interleavings are there.

`StatusContract` and `ProbeContract` are what the listeners rely on: the
unlocalized statuses come back only through LOST and GLOBAL, and the probe
gives up only in the middle of a search.

### VerifyLocalization

One thread: messages are handled inside `spin_once` only, and calls to Gazebo
block while the bounded `/localization_status` queue drops its oldest.
`MonitorTicks` and `ProbeGivesUp` are any nodes that keep `ProbeContract`; a
tick publishes the status and then the count of requests, and the harness reads
them in that order. `Preflight`, `WaitSpin` (one pass through
`wait_for_state`, with its watchdog), `WaitTimesOut`, `Teleport` and `Measure`
follow the three scenarios; `Raise` is any call that fails. Measured distances
are a choice of good or bad; the text reports are left out. `usableAt` records
the monitor's count at each USABLE that the harness counted.

### MapRaster, MappingJob, FloodFill, MapPipeline

`MapRaster` keeps an image as its header and its pixels' levels; `Areas` says
what the connected free areas are without an algorithm: the least sets of free
pixels that have no other free pixel beside them. `FloodFill` is
`flood_fill_component_sizes` with a step for each turn of its two loops:
`SkipPixel`, `BeginArea` and `EndArea` of the outer, `CountPixel` of the inner,
which looks at the four neighbours in the code's order (`LookAround`), and
`SortSizes`. `MappingJob` has one action per call to another process, with the
outcomes the code tells apart: the bag is played message by message, rtabmap
maps in its own time and prints into a pipe that nobody reads before it is
stopped, the watcher waits for the stamps to settle, `SaveMap` saves, and a
failure anywhere goes to `Fail`, which commits a report and leaves the
processes running in the container. `MapPipeline` adds `Fetch` (which may stop
after any part of the copy), `Validate` and `Activate`: a map that passes the
structural check and can be read starts a fill, and `toActivate` remembers that
the validation was the first half of `rambla_map_activate`. The operator gives
one command after the other. `JobsOver` is a bound: maps are fetched when the
last job's container has ended, since jobs neither read nor write what is
staged.

## 3. What the runs check

| run | states | instance | shows |
|---|---|---|---|
| `safety` | 204k | manual timeout 3, bumper 2, period 2, two bumpers, seven scans: clear, ahead, astern, noise, across the seam, from another start, empty increment | `ManualMotionExpires`, `NoStaleReplay`, `AuthorityIsRecency`, `SilenceReleasesManual`, `NoForwardIntoObstacle`, `OnlyForwardIsStopped` |
| `teleop` | 309k | two moving commands and zero, timeout 1 | `FinalZeroUnlessRaced`, `DropEndsStream`, `FallsSilent` |
| `gateway` | 400k | one sensor, one probed topic, `InFlight` 2, `Puts` 2 | `WantedAgrees`, `NewestFrameKept`, `SeenIsProbed`, `StreamsFollowViewers` |
| `gateway_spin` | | same | a dead spin thread, below |
| `relay` | 257k | 2 gateway sockets, 2 browsers, 2 viewers, TTL 3 | `AlarmTracksLease`, `HolderIsListed`, `ToldLeaseIsTrue`, `SubscriptionsAgree`, `StatusUntilLateClose`, `SilentHolderIsReleased`, refinement `LeaseIsExclusive` |
| `relay_displaced` | | same with 1 viewer, TTL 1, symmetry | a connected robot reported offline, below |
| `supervisor` | 68k | 2 goals, a pre-usable, a usable and a lost status | `NothingIsReplayed`, `UncrossedGoalIsDriven`, `NeverWedged`, `ManualStopsLoneGoal` |
| `localization` | 379k | spreads on both sides of each threshold, two covariances, timeouts 1 and 2, loss and cooldown 2, two attempts | `SearchIsBounded`, `UsableIsFresh`, `LossIsRecovered`, `SearchIsMadeAndEnds`, refinement `ProbeContractHolds` |
| `verify_localization` | 134k | queue 2, two requests, timeouts 3, 1, 2, stall 1, a fitting and an unfitting map | `KidnapPassIsRecovery`, `VerdictIsReached` |
| `wander` | 596k | one message under way per topic, run of 2, noise floors 1 and 2, manual timeout 1 | `EndOfRunIsRest`, `SteersBeforeStop` |
| `map` | 863k | two batches of four messages, window 2, timeout 6, a pipe of 5, two jobs, every 3 by 2 picture of free and occupied pixels, one with both thresholds' sides, one negated, one not P5 | `VerifiedMapIsTheBag`, `ComponentsAreExact`, `ActiveIsVerified` |
| `map_stalled` | | same with a pipe of 3 | a map saved before the bag's tail is in it, below |

Why the bounds suffice to be interesting: the safety node's timeouts are equal
to and different from the publish period, so boundaries fall both on and
between ticks; two commands differing in both components tell a torn pair from
either; two messages from the relay and two frames under way are the fewest
that can overtake a session or one another; two browsers and a TTL of three let
one take over, expire and return, two gateway sockets are an old and a new one,
and two viewers make the last one's departure differ from the first one's; two
goals let an old answer meet a new goal; two attempts are the fewest with a
drive between two turns; a queue of two drops a status during a teleport; a pipe
longer than a batch never fills up within a job, so that a settled job's report
is about the whole batch, and one shorter does fill up; two jobs let the second
meet what a failed first one left. The runs check the type invariants of
`SafetyNode`, `RobotRelay` and `BehaviorSupervisor` (`TypeOK`) and of
`Localization` (`LTypeOK`); those of `TeleopPublisher` (`TypeOK`), `VerifyLocalization`
(`DriverTypeOK`) and `MappingJob` (`JobTypeOK`) are theorems and in no run; those
of `GatewaySession` (`TypeOK`) and `Wander` (`WTypeOK`) are in no run and not
proved as they stand: they document the state, and TLC finds them kept on the
instances of the runs `gateway` and `wander`. Every run's deadlock check is on.

Disagreements found, each a run that TLC refutes, listed under `findings`:

1. `gateway_spin` (`SpinRunsOn`): a session ends between the test of a sink and
   its call; the call of `None` raises, `rclpy.spin` ends, and with it the
   stream of `/cmd_vel_teleop`.
2. `relay_displaced` (`StatusIsTrue`): a gateway that reconnects displaces its
   old socket, whose close event comes after the new one's accept and reports
   the robot offline; nothing corrects that before the next reconnect.
3. `map_stalled` (`SettledIsFinished`): rtabmap's output fills the pipe that is
   read only after the map is saved; rtabmap blocks, its map goes quiet, and
   what is saved is not of everything that was played. With a pipe that does not
   fill up (the `map` run's instance) `SettledIsFinished` holds.

Other statements that the code does not keep are written in the modules, with
no run of their own:

| definition | module | how it fails |
|---|---|---|
| `FinalZero` | `TeleopPublisher` | the drop falls between `command()` and `is_active`: the last message is the operator's command (the safety node ends it, `ManualMotionExpires`) |
| `PublishedWasCommanded` | `TeleopPublisher` | linear of one command, angular of another |
| `CommandRearms` | `TeleopPublisher` | a fresh command is tripped by a stale decision |
| `SubscriptionsAgree` without its `overlap` proviso | `RobotRelay` | a subscription goes to the displaced socket, which may be the first in the list, and throws |
| `ManualStopsNav2` | `BehaviorSupervisor` | a goal cancelled before its response arrived is not cancelled at Nav2 |
| `PursuedGoalIsDriven` | `BehaviorSupervisor` | an answer about an old goal clears the new one |
| `GivenUpVelocityIsNotReplayed` | `BehaviorSupervisor` | the last velocity for a goal that was given up is still stored when the next goal becomes active, and is forwarded; supervisor_state.py:39-42 claims `ControlAuthority`'s discipline, which zeroes it (control_authority.py:21-26) |
| `StallIsUninterrupted` | `VerifyLocalization` | the watchdog leaves its clock alone while the status it read is not GLOBAL or CONVERGING: a stall that LOST interrupted counts from its first part |
| `NeverNeedsTheStop` | `Wander` | an obstacle between the monitor's noise floor and the traversal's higher one is driven at and held by the monitor |
| `VerifiedMapIsTheBag` without its two exceptions | `MappingJob` | rtabmap stalled on its full pipe looks settled; a failed job's rtabmap maps the next job's bag too |
| `ActiveMapIsWhole` | `MapPipeline` | a copy of the image that stopped early but kept `MinBytes` passes the structural check, the coverage report it cannot make is skipped, and the map is activated, against vm.sh:439-440 |

`UsableIsFresh` says of a reading only that it was received after the last
request. Whether AMCL made it from its old belief is not the monitor's to know;
the request is not waited for (localization_monitor.py:107-112), and a narrow
reading of the old belief that arrives late is announced as USABLE.

## 4. Fairness

Only what the code schedules is fair: publish timers and ticks, the two threads
of the gateway, the action client's callbacks, the platform's alarm, the
harness's own steps, and time. What the outside does is not: messages need not
come, peers need not close, viewers need not stay, the operator need not act,
AMCL and odometry owe nothing, and Nav2 need not finish a goal that nobody
cancels, while it does answer requests and stop cancelled goals.

`Fairness` is weak everywhere but for one pair: the gateway's two sync timers
(`SyncTelemetry`, `SyncCamera`) are enabled only between other callbacks, and
the executor serves every timer that is due in each of its rounds, so one that
is due again and again runs: `SF_vars`. The asyncio loop runs every task that
can run: weak fairness of each. `SearchIsMadeAndEnds` and
`StreamsFollowViewers` state as hypotheses what they need of the outside.
`SafetyNode`'s fairness is not part of `WSpec`, whose properties are safety.

## 5. Proofs

All theorems hold for every value of the constants under the modules' named
assumptions (`ScanArcAssumption`, `SafetyAssumption`, `WanderAssumption`,
`TeleopAssumption`, `GatewayAssumption`, `RelayAssumption`,
`SupervisorAssumption`, `MonitorAssumption`, `ProbeAssumption`,
`DriverAssumption`, `RasterAssumption`, `JobAssumption`, `PipelineAssumption`),
which TLC evaluates. They say that counts, times and levels are numbers, in the
order the code's constants are in, and that markers such as `None` are not
values they stand beside. Two say something of the outside: `JobAssumption`
that rtabmap takes less than the wait's stability window for an update, which
is what the window is for, and `PipelineAssumption` that a picture has at least
a pixel and a level above zero, as every map `map_saver_cli` writes has.

- `SafetyProofs`, the arc: `FrontArcIsAhead` shows that the code's normalised angle is
  in the arc exactly when the angle is within the arc of a whole number of
  turns; `TooCloseIsObstacle` carries this to the minimum over a scan.
- `SafetyProofs`, the node: `IInv` ties each stored value to the history of messages
  (`AuthorityInv`, `ContactInv`, `ScanInv`) and what was published to its age
  (`PublishedInv`). It is needed because the properties speak of what was heard
  and the node only of what it stored. From it: `TypeCorrect`, `ManualExpires`,
  `ForwardIsBlocked`, `RestPassesThrough`, `NothingIsReplayed`,
  `AuthorityFollowsTeleop`.
- `SafetyProofs`, the traversal: `SafetySteps` shows that the composition takes only the
  safety node's own steps, so its invariant and `NoForwardIntoObstacle` carry
  over (`WanderIsHeld`). `RestInv` says what a finished run has left: the last
  command under way is the zero, or the zero was the last that arrived; from it
  `RunEndsAtRest`. `SteersFirst` compares the two arcs and floors.
- `TeleopPublisherProofs`: the invariant follows both program counters: what
  the spin thread has read, what it may still believe, and what a trip in
  progress has already zeroed. From it `TypesKept`, `LastMessageIsZero`,
  `StreamEnds`.
- `GatewaySessionProofs`: `ForthcomingInv` says that the last message about a
  stream still under way or, when there is none, what the session has heard,
  tells whether the stream is watched. `WantedAgrees` alone is not inductive,
  as a connection's first messages may still be under way; from the invariant
  `WantedIsWatched`. `NewestKept` and `SeenProbed` need less.
- `RobotRelayProofs`: `IInv` adds to the lease's invariants that a record
  without a holder has no time left. From it `LeaseHasItsAlarm`,
  `HolderConnected`, `LeaseIsKnown`, and by a step-by-step simulation
  `RelayImplementsLease`. `WatchersAreServed` and `StreamsAreWatched` follow from
  `OneRobot`: of a gateway connection that displaced nothing
  (`overlap = "none"`) no other socket is listed, and the object has not closed
  it, so that a send goes to the live one.
  Overlapping connections are part of what is proved; without the provisos of
  the two properties both fail (section 3).
- `BehaviorSupervisorProofs`: a pending goal is the node's own latest message,
  unsent and not given up; an active one is sent, not given up and not over.
  From it `GoalsAreNotReplayed`. `PursuitInv` says that a goal Nav2 pursues which
  was neither given up nor crossed is still the active one; from it
  `PursuitIsDriven`.
- `LocalizationProofs`: `AnnouncedInv` relates the monitor's state, which every
  message moves, to the status it last announced: the next announcement is
  always one the contract allows, and a loss not yet announced is too young to
  be acted on. From it `StatusOrder`. `SearchInv` ties the probe's mode to the
  phases begun (`Searched`) as long as the status is one it searches under;
  from it `SearchBounded`, and with `AnnouncedInv` the refinement
  `NodesKeepContract`. `UsableFresh` follows from `FreshInv`: a reading the
  monitor has stored was received since the last request.

- `VerifyLocalizationProofs`: `DriverInv` says what the counts in the queue tell
  of the count that was read last. They never fall (`CountsInOrder`), and until
  the teleport, while nothing can be dropped unread, a new count comes with
  GLOBAL only (`RequestsShow`): so the count a kidnap scenario notes when it is
  first USABLE is the one published with it, though status and count are two
  messages. The verdict compares two such counts, and says nothing of how they
  were come by: hence `KidnapRecord`, which follows the notes from step to
  step. From it `TypeCorrect` and `KidnapPassed`, whatever is dropped later.
- `MapPipelineProofs`, the job: `VerifiedMapIsTheBag` looks at what is stored,
  the reasons for it lie in the wait before. `QuietIsIdle` says that while
  rtabmap has work, the watcher's quiet time is at most rtabmap's own pause, or
  a stamp waits to be taken, so that a quiet time beyond the window means
  there is none; `SavedIsPlayed` that the map saved after such a wait is of
  this batch and all that was played, or is marked stalled or shared;
  `ReportsHold` carries it to both stores. From `JobInv`: `JobTypeCorrect`,
  `VerifiedIsWhole`.
- `MapPipelineProofs`, the fill: `LookedAtIsBeside` and `BesideIsLookedAt` show
  that the four tests against the grid's edges pick exactly the pixels beside
  one, from the uniqueness of row and column (`DivisionIsUnique`). `InnerInv`
  says of the area that grows: what is marked and off the stack was counted and
  has no unmarked free pixel beside it, what is on the stack is marked, belongs
  to the area and is there once. When the stack is empty the marked pixels are
  closed, and as the area is the least such set, they are it
  (`AreaIsComplete`); areas that share a pixel are one (`AreaIsShared`), so no
  area is found twice. `OuterInv` lists the areas that were found. From
  `FillInv` follow `AreasAreCounted`, for every image of every size, and
  `FillAdvances`: each turn leaves less to do, so a fill ends after at most
  three turns a pixel and one.
- `MapPipelineProofs`, the pipeline: `OnlyVerifiedIsActive` (`ActiveIsVerified`),
  the half of the comment in `vm.sh` that holds. What was validated is still there unchanged
  when it is activated, as no fetch overwrites a staged map. That the active
  map is whole does not follow (`ActiveMapIsWhole`, section 3).

Only model-checked:

- every liveness property (`SilenceReleasesManual`, `FallsSilent`,
  `StreamsFollowViewers`, `SilentHolderIsReleased`, `NeverWedged`,
  `ManualStopsLoneGoal`, `LossIsRecovered`, `SearchIsMadeAndEnds`,
  `VerdictIsReached`), liveness and ENABLED being out of the prover's reach. Of
  the flood fill's termination `FillAdvances` is the part that is within it.

Every invariant and every safety property of a step that a passing run checks
is proved. The inductive invariants `DriverInv` and `JobInv`, `FillInv`,
`StagedInv` were checked with TLC on the runs' instances before they were
proved.

## 6. Not modelled

- `index.ts` and HTTP authentication: stateless.
- The browser UI: it shows what it was told; what it is owed is in `RobotRelay`.
  Passthrough of telemetry and video frames in the relay, and message layout.
- The gateway's bandwidth statistics: counters that nothing reads back.
- `covariance_injector`: copies a message and fills in constants.
- `verify_navigation`: one goal, one wait, one comparison of distances.
- Process control in `vm.sh`: the source does not state what the remote shell
  and the process table do, on which everything depends there.
- The diagnostic and reprocessing functions beside `run_mapping_job`, each one
  call of a tool; `likelihood_score.py` and the other analysis scripts.
- Launch files, worlds, robot description.
- Nav2, AMCL, rtabmap, the Cloudflare runtime, Modal's volumes and the ROS
  middleware are external, modelled only by how the code uses them.

## 7. What could come next

1. `TeleopPath`: relay, gateway drive path and safety node composed, with an
   end-to-end bound on motion after the operator's last message, and the
   ordering of the three timeouts (0.3 s deadman, one tick, 0.4 s manual).
2. `BrowserLease`: the UI's holding flag, heartbeats and keys over FIFO
   channels to `RobotRelay`.
3. `Localization` composed with `BehaviorSupervisor` over `/cmd_vel_probe` and
   `/localization_status`.
4. More of the liveness arguments' safety halves, as `FillAdvances` is for the
   fill: measures that a step of the harness, of the probe's search and of the
   gateway's reconnection makes smaller.
