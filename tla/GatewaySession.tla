--------------------------- MODULE GatewaySession ---------------------------
(***************************************************************************)
(* The robot's gateway: gateway_client's control and video sessions, the   *)
(* control panel node they steer, and the end of the relay they talk to.   *)
(*                                                                         *)
(* Two threads.  The asyncio thread runs the sessions: it sets the wanted  *)
(* flags and installs or clears the node's sinks.  The rclpy spin thread   *)
(* runs one callback at a time; the ones that forward something test a     *)
(* sink and then call it, two reads of an attribute the other thread       *)
(* clears, so test and call are two steps.  What is forwarded is data the  *)
(* properties do not tell apart: only the kind of message is kept.         *)
(*                                                                         *)
(* A control session's six sinks are set together and cleared together,    *)
(* with no await between the assignments: one flag stands for them.  The   *)
(* relay here has one gateway connection at a time (RobotRelay models a    *)
(* gateway that reconnects before its old socket is gone).                 *)
(***************************************************************************)
EXTENDS Integers, Sequences, SequencesExt

CONSTANTS
    Sensors,        \* the sensors of a snapshot, in the order it sends them
    Topics,         \* the graph's topics the node does not subscribe itself
    InFlight,       \* bound: messages from the relay under way
    Puts            \* bound: frames handed to the asyncio loop, not yet queued

ASSUME GatewayAssumption ==
    /\ Sensors \in Seq(STRING)
    /\ InFlight \in Nat \ {0}
    /\ Puts \in Nat \ {0}

Streams == {"telemetry", "camera"}

VARIABLES
    net,            \* where the control channel's task is
    up,             \* is the connection alive; the task notices late
    inbox,          \* what the relay sent on it
    watched,        \* the relay: does a stream have viewers
    wanted,         \* _telemetry_wanted, _camera_wanted
    subscribed,     \* _scan_sub and the four with it, _camera_sub
    sinks,          \* on_scan .. on_control_authority: set
    latest,         \* the keys of _latest_sensor_data
    spin,           \* the spin thread's callback: step and sinks still to try
    probes,         \* the keys of _liveness_subs
    seen,           \* those of _topic_last_seen it has from a probe
    video,          \* is a video session running
    videoUp,        \* is its connection alive
    puts,           \* frames handed to the loop and not in the queue
    waiting         \* the frame queue's one place

control == <<net, up, inbox, watched>>
node == <<subscribed, latest, spin>>
liveness == <<probes, seen>>
videoVars == <<video, videoUp, puts, waiting>>
vars == <<control, wanted, sinks, node, liveness, videoVars>>

Kinds == Range(Sensors) \cup {"diagnostics", "authority", "frame"}

TypeOK ==
    /\ net \in {"closed", "connected", "hello", "session"}
    /\ up \in BOOLEAN
    /\ inbox \in Seq([stream : Streams, on : BOOLEAN])
    /\ watched \in [Streams -> BOOLEAN]
    /\ wanted \in [Streams -> BOOLEAN]
    /\ subscribed \in [Streams -> BOOLEAN]
    /\ sinks \in BOOLEAN
    /\ latest \subseteq Range(Sensors)
    /\ spin \in [at : {"idle", "test", "call", "dead"}, send : Seq(Kinds)]
    /\ probes \subseteq Topics /\ seen \subseteq Topics
    /\ video \in BOOLEAN /\ videoUp \in BOOLEAN
    /\ puts \in 0..Puts
    /\ waiting \in {"none", "newest", "older"}

Nothing == [s \in Streams |-> FALSE]
Idle == [at |-> "idle", send |-> <<>>]

Init ==
    /\ net = "closed" /\ up = FALSE /\ inbox = <<>>
    /\ watched = Nothing /\ wanted = Nothing /\ subscribed = Nothing
    /\ sinks = FALSE
    /\ latest = {}
    /\ spin = Idle
    /\ probes = {} /\ seen = {}
    /\ video = FALSE /\ videoUp = FALSE /\ puts = 0 /\ waiting = "none"

(***************************************************************************)
(* The relay.  It tells a gateway that connects of every stream that has   *)
(* viewers, and a connected one when the first comes or the last leaves.   *)
(***************************************************************************)
Message(s, on) == [stream |-> s, on |-> on]

Resync ==
    (IF watched["camera"] THEN <<Message("camera", TRUE)>> ELSE <<>>)
    \o (IF watched["telemetry"] THEN <<Message("telemetry", TRUE)>> ELSE <<>>)

ViewersChange(s) ==
    /\ Len(inbox) < InFlight
    /\ watched' = [watched EXCEPT ![s] = ~@]
    /\ inbox' = IF up THEN Append(inbox, Message(s, watched'[s])) ELSE inbox
    /\ UNCHANGED <<net, up, wanted, sinks, node, liveness, videoVars>>

(***************************************************************************)
(* The control channel's task                                              *)
(***************************************************************************)
Connect ==
    /\ net = "closed"
    /\ net' = "connected"
    /\ up' = TRUE
    /\ inbox' = Resync
    /\ UNCHANGED <<watched, wanted, sinks, node, liveness, videoVars>>

ConnectionLost ==
    /\ up
    /\ up' = FALSE
    /\ UNCHANGED <<net, inbox, watched, wanted, sinks, node, liveness, videoVars>>

(* Mutant: the session inherits what the one before it was told.           *)
ForgetWantedNever ==
    /\ net = "connected"
    /\ net' = "hello"
    /\ UNCHANGED <<up, inbox, watched, wanted, sinks, node, liveness, videoVars>>

(* _control_session up to its first await.                                 *)
ForgetWanted ==
    /\ net = "connected"
    /\ net' = "hello"
    /\ wanted' = Nothing
    /\ UNCHANGED <<up, inbox, watched, sinks, node, liveness, videoVars>>

(* hello is sent; the sinks are installed, the sender started.             *)
InstallSinks ==
    /\ net = "hello"
    /\ net' = "session"
    /\ sinks' = TRUE
    /\ UNCHANGED <<up, inbox, watched, wanted, node, liveness, videoVars>>

Receive ==
    /\ net = "session"
    /\ inbox # <<>>
    /\ wanted' = [wanted EXCEPT ![Head(inbox).stream] = Head(inbox).on]
    /\ inbox' = Tail(inbox)
    /\ UNCHANGED <<net, up, watched, sinks, node, liveness, videoVars>>

(* The task notices: at hello, or in a session, whose finally clears the   *)
(* sinks.  _run_control_channel trips the deadman (TeleopPublisher) and    *)
(* backs off; what was still under way is lost.                            *)
SessionEnds ==
    /\ net \in {"hello", "session"}
    /\ ~up
    /\ net' = "closed"
    /\ inbox' = <<>>
    /\ sinks' = FALSE
    /\ UNCHANGED <<up, watched, wanted, node, liveness, videoVars>>

(***************************************************************************)
(* The spin thread: timers and subscriptions of the node                   *)
(***************************************************************************)
Forward(kinds) == spin' = IF kinds = <<>> THEN Idle
                          ELSE [at |-> "test", send |-> kinds]

(* _sync_telemetry_subscriptions                                           *)
SyncTelemetry ==
    /\ spin = Idle
    /\ wanted["telemetry"] # subscribed["telemetry"]
    /\ subscribed' = [subscribed EXCEPT !["telemetry"] = ~@]
    /\ latest' = IF wanted["telemetry"] THEN latest ELSE {}
    /\ UNCHANGED <<control, wanted, sinks, spin, liveness, videoVars>>

(* Mutant: the camera's subscription is made and never destroyed.          *)
SyncCameraOnce ==
    /\ spin = Idle
    /\ wanted["camera"] /\ ~subscribed["camera"]
    /\ subscribed' = [subscribed EXCEPT !["camera"] = TRUE]
    /\ UNCHANGED <<control, wanted, sinks, latest, spin, liveness,
                   videoVars>>

(* _sync_camera_subscription                                               *)
SyncCamera ==
    /\ spin = Idle
    /\ wanted["camera"] # subscribed["camera"]
    /\ subscribed' = [subscribed EXCEPT !["camera"] = ~@]
    /\ UNCHANGED <<control, wanted, sinks, latest, spin, liveness,
                   videoVars>>

(* _on_scan, _on_imu, _on_odom, _on_pose                                   *)
OnSensor(s) ==
    /\ spin = Idle
    /\ subscribed["telemetry"]
    /\ latest' = latest \cup {s}
    /\ UNCHANGED <<control, wanted, sinks, subscribed, spin, liveness,
                   videoVars>>

(* _publish_sensor_snapshot: what has arrived, in the sensors' order.      *)
PublishSnapshot ==
    /\ spin = Idle
    /\ wanted["telemetry"]
    /\ LET Arrived(s) == s \in latest IN Forward(SelectSeq(Sensors, Arrived))
    /\ UNCHANGED <<control, wanted, sinks, subscribed, latest, liveness,
                   videoVars>>

(* _publish_diagnostics                                                    *)
PublishDiagnostics ==
    /\ spin = Idle
    /\ wanted["telemetry"]
    /\ Forward(<<"diagnostics">>)
    /\ UNCHANGED <<control, wanted, sinks, subscribed, latest, liveness,
                   videoVars>>

(* _on_control_authority, on an edge: the callback drops a mode it has     *)
(* already seen, and remembers the mode with or without a sink.            *)
OnControlAuthority ==
    /\ spin = Idle
    /\ Forward(<<"authority">>)
    /\ UNCHANGED <<control, wanted, sinks, subscribed, latest, liveness, videoVars>>

(* _on_camera_frame                                                        *)
OnCameraFrame ==
    /\ spin = Idle
    /\ subscribed["camera"]
    /\ Forward(<<"frame">>)
    /\ UNCHANGED <<control, wanted, sinks, subscribed, latest, liveness,
                   videoVars>>

Sink(kind) == IF kind = "frame" THEN video ELSE sinks

(* `if self.on_x': with no sink there, on to the next.                     *)
TestSink ==
    /\ spin.at = "test"
    /\ IF Sink(Head(spin.send)) THEN spin' = [spin EXCEPT !.at = "call"]
                                ELSE Forward(Tail(spin.send))
    /\ UNCHANGED <<control, wanted, sinks, subscribed, latest, liveness,
                   videoVars>>

(* `self.on_x(...)' reads the attribute again.  A frame goes to the loop,  *)
(* and the ones before it are no longer the newest.                        *)
CallSink ==
    /\ spin.at = "call"
    /\ Sink(Head(spin.send))
    /\ Forward(Tail(spin.send))
    /\ IF Head(spin.send) = "frame"
       THEN /\ puts < Puts
            /\ puts' = puts + 1
            /\ waiting' = IF waiting = "newest" THEN "older" ELSE waiting
       ELSE UNCHANGED <<puts, waiting>>
    /\ UNCHANGED <<control, wanted, sinks, subscribed, latest, liveness,
                   video, videoUp>>

(* None is not callable: the exception ends rclpy.spin, and its thread.    *)
CallNone ==
    /\ spin.at = "call"
    /\ ~Sink(Head(spin.send))
    /\ spin' = [at |-> "dead", send |-> <<>>]
    /\ UNCHANGED <<control, wanted, sinks, subscribed, latest, liveness,
                   videoVars>>

(***************************************************************************)
(* _refresh_liveness_subscriptions finds these topics in the graph: it     *)
(* keeps the probes that are still there, forgets the others with what     *)
(* they saw, and adds those it can make; with nobody watching, none stay.  *)
(***************************************************************************)
(* Mutant: what a topic that left the graph was last seen at is kept.      *)
RefreshLivenessKeeping(graph) ==
    /\ spin = Idle
    /\ IF wanted["telemetry"]
       THEN /\ \E made \in SUBSET (graph \ probes) :
                   probes' = (probes \cap graph) \cup made
            /\ seen' = seen
       ELSE /\ probes' = {}
            /\ seen' = IF probes = {} THEN seen ELSE {}
    /\ UNCHANGED <<control, wanted, sinks, node, videoVars>>

RefreshLiveness(graph) ==
    /\ spin = Idle
    /\ IF wanted["telemetry"]
       THEN /\ \E made \in SUBSET (graph \ probes) :
                   probes' = (probes \cap graph) \cup made
            /\ seen' = seen \ (probes \ graph)
       ELSE /\ probes' = {}
            /\ seen' = IF probes = {} THEN seen ELSE {}
    /\ UNCHANGED <<control, wanted, sinks, node, videoVars>>

ProbeHeard(t) ==
    /\ spin = Idle
    /\ t \in probes
    /\ seen' = seen \cup {t}
    /\ UNCHANGED <<control, wanted, sinks, node, probes, videoVars>>

(***************************************************************************)
(* The video channel's task: it only sends, and notices a dead connection  *)
(* when it does.                                                           *)
(***************************************************************************)
VideoConnect ==
    /\ ~video
    /\ video' = TRUE /\ videoUp' = TRUE
    /\ puts' = 0 /\ waiting' = "none"
    /\ UNCHANGED <<control, wanted, sinks, node, liveness>>

VideoLost ==
    /\ videoUp
    /\ videoUp' = FALSE
    /\ UNCHANGED <<control, wanted, sinks, node, liveness, video, puts, waiting>>

(* Mutant: a full queue keeps what it has.                                 *)
PutFrameIfRoom ==
    /\ video /\ puts > 0
    /\ puts' = puts - 1
    /\ waiting' = IF waiting # "none" THEN waiting
                  ELSE IF puts = 1 THEN "newest" ELSE "older"
    /\ UNCHANGED <<control, wanted, sinks, node, liveness, video, videoUp>>

(* _put: the frame takes the one place, whatever was there.                *)
PutFrame ==
    /\ video /\ puts > 0
    /\ puts' = puts - 1
    /\ waiting' = IF puts = 1 THEN "newest" ELSE "older"
    /\ UNCHANGED <<control, wanted, sinks, node, liveness, video, videoUp>>

SendFrame ==
    /\ video /\ waiting # "none"
    /\ waiting' = "none"
    /\ IF videoUp THEN UNCHANGED <<video, puts>>
                  ELSE video' = FALSE /\ puts' = 0
    /\ UNCHANGED <<control, wanted, sinks, node, liveness, videoUp>>

-----------------------------------------------------------------------------
Spin ==
    \/ SyncTelemetry \/ SyncCamera
    \/ \E s \in Range(Sensors) : OnSensor(s)
    \/ PublishSnapshot \/ PublishDiagnostics
    \/ OnControlAuthority \/ OnCameraFrame
    \/ TestSink \/ CallSink \/ CallNone
    \/ \E graph \in SUBSET Topics : RefreshLiveness(graph)
    \/ \E t \in Topics : ProbeHeard(t)

Net ==
    \/ Connect \/ ForgetWanted \/ InstallSinks \/ Receive \/ SessionEnds
    \/ VideoConnect \/ PutFrame \/ SendFrame

Environment ==
    \/ \E s \in Streams : ViewersChange(s)
    \/ ConnectionLost \/ VideoLost

Next == Spin \/ Net \/ Environment

(* The asyncio loop runs every task that can run.  The executor gives      *)
(* every due timer its turn in each round, however many subscriptions are  *)
(* served with it: a timer that is due again and again gets to run.        *)
Fairness ==
    /\ WF_vars(ForgetWanted) /\ WF_vars(InstallSinks)
    /\ WF_vars(Receive) /\ WF_vars(SessionEnds)
    /\ WF_vars(PutFrame) /\ WF_vars(SendFrame)
    /\ WF_vars(TestSink) /\ WF_vars(CallSink) /\ WF_vars(CallNone)
    /\ SF_vars(SyncTelemetry) /\ SF_vars(SyncCamera)

Spec == Init /\ [][Next]_vars /\ Fairness

(***************************************************************************)
(* In a session that has read all the relay sent, a stream is wanted       *)
(* exactly while somebody watches it, whatever earlier sessions were told  *)
(* and whatever changed between them (_control_session's comment).         *)
(***************************************************************************)
WantedAgrees == up /\ net = "session" /\ inbox = <<>> => wanted = watched

(***************************************************************************)
(* The queue never keeps a frame when a newer one has come: an old frame   *)
(* waits only while its successor is on its way (_enqueue_frame).          *)
(***************************************************************************)
NewestFrameKept == waiting = "older" => puts > 0

(***************************************************************************)
(* A topic's age in the diagnostics is kept only while it is probed: the   *)
(* table does not grow with every topic there ever was.                    *)
(***************************************************************************)
SeenIsProbed == seen \subseteq probes

(***************************************************************************)
(* Once the connection holds and the audience of a stream stays as it is,  *)
(* the node subscribes to the stream's topics for it, or stops, for good.  *)
(***************************************************************************)
Steady(s, on) ==
    net = "session" /\ up /\ spin.at # "dead" /\ watched[s] = on

StreamsFollowViewers ==
    \A s \in Streams, on \in BOOLEAN :
        <>[]Steady(s, on) => <>[](subscribed[s] = on)

(***************************************************************************)
(* The node's timers and callbacks run on, whatever becomes of the         *)
(* connections (control_panel_node.py:168: /cmd_vel_teleop is published    *)
(* "at a steady rate regardless of relay event jitter").                   *)
(***************************************************************************)
SpinRunsOn == spin.at # "dead"
=============================================================================
