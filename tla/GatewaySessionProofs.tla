------------------------ MODULE GatewaySessionProofs ------------------------
(***************************************************************************)
(* Proofs about the gateway's sessions, for any sensors and topics and any *)
(* number of messages under way.                                           *)
(***************************************************************************)
EXTENDS GatewaySession, TLAPS

(* The steps that touch neither the control channel nor what is wanted.    *)
LEMMA ChannelUntouched ==
    ASSUME [Next]_vars
    PROVE  \/ UNCHANGED <<net, up, inbox, watched, wanted>>
           \/ Connect \/ ConnectionLost \/ ForgetWanted \/ InstallSinks
           \/ Receive \/ SessionEnds
           \/ \E s \in Streams : ViewersChange(s)
  BY DEF Next, Spin, Net, Environment, control, vars, SyncTelemetry, SyncCamera,
     OnSensor, PublishSnapshot, PublishDiagnostics, OnControlAuthority,
     OnCameraFrame, TestSink, CallSink, CallNone, RefreshLiveness, ProbeHeard,
     VideoConnect, PutFrame, SendFrame, VideoLost

Messages == [stream : Streams, on : BOOLEAN]

ChannelTypeOK ==
    /\ net \in {"closed", "connected", "hello", "session"}
    /\ up \in BOOLEAN
    /\ inbox \in Seq(Messages)
    /\ watched \in [Streams -> BOOLEAN]
    /\ wanted \in [Streams -> BOOLEAN]

LEMMA Singles == \A a :
    /\ <<a>> \o <<>> = <<a>>
    /\ <<>> \o <<a>> = <<a>>
    /\ <<>> \o <<>> = <<>>
  OBVIOUS

LEMMA ResyncType ==
    ASSUME watched \in [Streams -> BOOLEAN]
    PROVE  /\ Resync \in Seq(Messages)
           /\ \A i \in 1..Len(Resync) : Resync[i].on = TRUE /\ watched[Resync[i].stream]
           /\ \A i, j \in 1..Len(Resync) : Resync[i].stream = Resync[j].stream => i = j
           /\ \A s \in Streams : watched[s] =>
                 \E i \in 1..Len(Resync) : Resync[i].stream = s
<1>1. PICK mc, mt : /\ mc = Message("camera", TRUE) /\ mt = Message("telemetry", TRUE)
  OBVIOUS
<1>2. /\ mc \in Messages /\ mc.stream = "camera" /\ mc.on = TRUE
      /\ mt \in Messages /\ mt.stream = "telemetry" /\ mt.on = TRUE
  BY <1>1 DEF Message, Messages, Streams
<1>3. CASE watched["camera"] /\ watched["telemetry"]
  <2>1. Resync = <<mc>> \o <<mt>>
    BY Zenon, <1>1, <1>3 DEF Resync
  <2>2. Len(Resync) = 2 /\ Resync[1] = mc /\ Resync[2] = mt /\ Resync \in Seq(Messages)
    BY <1>2, <2>1
  <2> QED
    BY <1>2, <1>3, <2>2 DEF Streams
<1>4. CASE watched["camera"] /\ ~watched["telemetry"]
  <2>1. Resync = <<mc>>
    BY Zenon, Singles, <1>1, <1>4 DEF Resync
  <2> QED
    BY <1>2, <1>4, <2>1 DEF Streams
<1>5. CASE ~watched["camera"] /\ watched["telemetry"]
  <2>1. Resync = <<mt>>
    BY Zenon, Singles, <1>1, <1>5 DEF Resync
  <2> QED
    BY <1>2, <1>5, <2>1 DEF Streams
<1>6. CASE ~watched["camera"] /\ ~watched["telemetry"]
  <2>1. Resync = <<>>
    BY <1>6 DEF Resync
  <2> QED
    BY <1>6, <2>1 DEF Streams
<1> QED
  BY <1>3, <1>4, <1>5, <1>6

LEMMA ChannelType ==
    ASSUME ChannelTypeOK, [Next]_vars
    PROVE  ChannelTypeOK'
<1>1. CASE UNCHANGED <<net, up, inbox, watched, wanted>>
  BY <1>1 DEF ChannelTypeOK
<1>2. CASE Connect
  BY <1>2, ResyncType DEF Connect, ChannelTypeOK
<1>3. CASE ConnectionLost \/ InstallSinks
  BY <1>3 DEF ConnectionLost, InstallSinks, ChannelTypeOK
<1>4. CASE ForgetWanted
  BY <1>4 DEF ForgetWanted, Nothing, ChannelTypeOK
<1>5. CASE Receive
  <2>1. Head(inbox) \in Messages /\ Tail(inbox) \in Seq(Messages)
    BY <1>5 DEF Receive, ChannelTypeOK
  <2>2. wanted' \in [Streams -> BOOLEAN]
    BY <1>5, <2>1 DEF Receive, ChannelTypeOK, Messages
  <2> QED
    BY <1>5, <2>1, <2>2 DEF Receive, ChannelTypeOK
<1>6. CASE SessionEnds
  BY <1>6 DEF SessionEnds, ChannelTypeOK
<1>7. ASSUME NEW s \in Streams, ViewersChange(s) PROVE ChannelTypeOK'
  <2>1. watched' \in [Streams -> BOOLEAN]
    BY <1>7 DEF ViewersChange, ChannelTypeOK
  <2>2. Message(s, watched'[s]) \in Messages
    BY <2>1 DEF Message, Messages
  <2>3. inbox' \in Seq(Messages)
    BY <1>7, <2>2 DEF ViewersChange, ChannelTypeOK
  <2> QED
    BY <1>7, <2>1, <2>3 DEF ViewersChange, ChannelTypeOK
<1> QED
  BY <1>1, <1>2, <1>3, <1>4, <1>5, <1>6, <1>7, ChannelUntouched

-----------------------------------------------------------------------------
(* What a session will want once it has read its inbox.  The last message  *)
(* about a stream tells whether it is watched; without one, what the       *)
(* session has heard, or nothing before its first, already does.           *)
Told(s) == IF net = "connected" THEN FALSE ELSE wanted[s]

LastAbout(s, i) ==
    /\ i \in 1..Len(inbox) /\ inbox[i].stream = s
    /\ \A j \in 1..Len(inbox) : inbox[j].stream = s => j <= i

SilentAbout(s) == \A i \in 1..Len(inbox) : inbox[i].stream # s

Forthcoming(s) ==
    \/ \E i \in 1..Len(inbox) : LastAbout(s, i) /\ inbox[i].on = watched[s]
    \/ SilentAbout(s) /\ Told(s) = watched[s]

ForthcomingInv == up /\ net # "closed" => \A s \in Streams : Forthcoming(s)

LEMMA ForthcomingConnect ==
    ASSUME ChannelTypeOK, Connect
    PROVE  ForthcomingInv'
<1>1. watched' = watched /\ inbox' = Resync /\ net' = "connected"
  BY DEF Connect
<1>2. ASSUME NEW s \in Streams PROVE Forthcoming(s)'
  <2>1. CASE watched[s]
    <3>1. PICK i \in 1..Len(Resync) : Resync[i].stream = s
      BY <2>1, ResyncType DEF ChannelTypeOK
    <3>2. \A j \in 1..Len(Resync) : Resync[j].stream = s => j = i
      BY <3>1, ResyncType DEF ChannelTypeOK
    <3>3. /\ Resync[i].on = TRUE
          /\ Len(Resync) \in Nat
      <4>1. Resync[i].on = TRUE
        BY Zenon, ResyncType DEF ChannelTypeOK
      <4>2. Len(Resync) \in Nat
        BY ResyncType DEF ChannelTypeOK
      <4> QED
        BY <4>1, <4>2
    <3>4. watched[s] = TRUE
      BY <2>1 DEF ChannelTypeOK
    <3>5. LastAbout(s, i)'
      BY <1>1, <3>1, <3>2, <3>3 DEF LastAbout
    <3> QED
      BY <1>1, <3>1, <3>3, <3>4, <3>5 DEF Forthcoming
  <2>2. CASE ~watched[s]
    <3>1. \A i \in 1..Len(Resync) : Resync[i].stream # s
      <4> SUFFICES ASSUME NEW i \in 1..Len(Resync), Resync[i].stream = s PROVE FALSE
        OBVIOUS
      <4>1. watched[Resync[i].stream]
        BY Zenon, ResyncType DEF ChannelTypeOK
      <4>2. watched[s]
        BY Zenon, <4>1
      <4> QED
        BY Zenon, <4>2, <2>2
    <3>2. SilentAbout(s)'
      BY <1>1, <3>1 DEF SilentAbout
    <3>3. watched[s] = FALSE
      BY <2>2 DEF ChannelTypeOK
    <3> QED
      BY <1>1, <3>2, <3>3 DEF Forthcoming, Told
  <2> QED
    BY <2>1, <2>2
<1> QED
  BY <1>2 DEF ForthcomingInv

LEMMA ForthcomingForget ==
    ASSUME ForthcomingInv, ForgetWanted
    PROVE  ForthcomingInv'
<1>1. /\ \A s \in Streams : Told(s)' = Told(s)
      /\ net # "closed" /\ UNCHANGED <<up, inbox, watched>>
  BY DEF ForgetWanted, Told, Nothing
<1> QED
  BY <1>1 DEF ForthcomingInv, Forthcoming, LastAbout, SilentAbout

LEMMA ForthcomingChange ==
    ASSUME ChannelTypeOK, ForthcomingInv, NEW c \in Streams, ViewersChange(c)
    PROVE  ForthcomingInv'
<1>1. SUFFICES ASSUME up, net # "closed", NEW s \in Streams PROVE Forthcoming(s)'
  BY DEF ForthcomingInv, ViewersChange
<1> DEFINE m == Message(c, watched'[c])
<1>2. /\ inbox' = Append(inbox, m)
      /\ UNCHANGED <<net, up, wanted>>
      /\ watched' = [watched EXCEPT ![c] = ~@]
  BY <1>1 DEF ViewersChange
<1>3. /\ Len(inbox) \in Nat /\ Len(inbox') = Len(inbox) + 1
      /\ \A i \in 1..Len(inbox) : inbox'[i] = inbox[i]
      /\ inbox'[Len(inbox')] = m
  BY <1>2 DEF ChannelTypeOK
<1>4. m.stream = c /\ m.on = watched'[c]
  BY DEF Message
<1> HIDE DEF m
<1>5. CASE s = c
  <2>1. PICK n \in Nat : n = Len(inbox')
    BY <1>3
  <2>2. n \in 1..Len(inbox') /\ inbox'[n] = m
    BY <1>3, <2>1
  <2>3. LastAbout(s, n)'
    BY <1>4, <1>5, <2>1, <2>2 DEF LastAbout
  <2> QED
    BY <1>4, <1>5, <2>2, <2>3 DEF Forthcoming
<1>6. CASE s # c
  <2>1. watched'[s] = watched[s]
    BY <1>2, <1>6 DEF ChannelTypeOK
  <2>2. ASSUME NEW i \in 1..Len(inbox), LastAbout(s, i), inbox[i].on = watched[s]
        PROVE  Forthcoming(s)'
    <3>1. i \in 1..Len(inbox') /\ LastAbout(s, i)'
      BY <1>3, <1>4, <1>6, <2>2 DEF LastAbout
    <3> QED
      BY <1>3, <2>1, <2>2, <3>1 DEF Forthcoming
  <2>3. CASE SilentAbout(s) /\ Told(s) = watched[s]
    <3>1. SilentAbout(s)'
      BY <1>3, <1>4, <1>6, <2>3 DEF SilentAbout
    <3>2. Told(s)' = watched'[s]
      BY <1>2, <2>1, <2>3 DEF Told
    <3> QED
      BY <3>1, <3>2 DEF Forthcoming
  <2> QED
    BY <1>1, <2>2, <2>3 DEF ForthcomingInv, Forthcoming
<1> QED
  BY <1>5, <1>6

LEMMA ForthcomingReceive ==
    ASSUME ChannelTypeOK, ForthcomingInv, Receive
    PROVE  ForthcomingInv'
<1>1. SUFFICES ASSUME up, NEW s \in Streams PROVE Forthcoming(s)'
  BY DEF ForthcomingInv, Receive
<1>2. /\ net = "session" /\ UNCHANGED <<net, up, watched>>
      /\ inbox # <<>> /\ inbox' = Tail(inbox)
      /\ wanted' = [wanted EXCEPT ![Head(inbox).stream] = Head(inbox).on]
  BY DEF Receive
<1>3. /\ Len(inbox) \in Nat \ {0} /\ Len(inbox') = Len(inbox) - 1
      /\ \A i \in 1..Len(inbox') : inbox'[i] = inbox[i + 1]
      /\ Head(inbox) = inbox[1]
  BY <1>2 DEF ChannelTypeOK
<1>4. ASSUME NEW i \in 1..Len(inbox), LastAbout(s, i), inbox[i].on = watched[s]
      PROVE  Forthcoming(s)'
  <2>1. CASE i = 1
    <3>1. SilentAbout(s)'
      BY <1>3, <1>4, <2>1 DEF LastAbout, SilentAbout
    <3>2. wanted'[s] = watched[s]
      BY <1>2, <1>3, <1>4, <2>1 DEF LastAbout, ChannelTypeOK
    <3> QED
      BY <1>2, <3>1, <3>2 DEF Forthcoming, Told
  <2>2. CASE i # 1
    <3>1. i - 1 \in 1..Len(inbox') /\ inbox'[i - 1] = inbox[i]
      BY <1>3, <2>2
    <3>2. LastAbout(s, i - 1)'
      BY <1>3, <1>4, <3>1 DEF LastAbout
    <3> QED
      BY <1>2, <1>4, <3>1, <3>2 DEF Forthcoming
  <2> QED
    BY <2>1, <2>2
<1>5. CASE SilentAbout(s) /\ Told(s) = watched[s]
  <2>1. SilentAbout(s)'
    BY <1>3, <1>5 DEF SilentAbout
  <2>2. inbox[1].stream # s
    BY <1>3, <1>5 DEF SilentAbout
  <2>3. wanted'[s] = wanted[s]
    BY <1>2, <1>3, <2>2 DEF ChannelTypeOK
  <2> QED
    BY <1>2, <1>5, <2>1, <2>3 DEF Forthcoming, Told
<1> QED
  BY <1>1, <1>2, <1>4, <1>5 DEF ForthcomingInv, Forthcoming

LEMMA ForthcomingKept ==
    ASSUME ChannelTypeOK, ForthcomingInv, [Next]_vars
    PROVE  ForthcomingInv'
<1>1. CASE UNCHANGED <<net, up, inbox, watched, wanted>>
  BY <1>1 DEF ForthcomingInv, Forthcoming, LastAbout, SilentAbout, Told
<1>2. CASE ConnectionLost \/ SessionEnds
  BY <1>2 DEF ConnectionLost, SessionEnds, ForthcomingInv
<1>3. CASE InstallSinks
  BY <1>3 DEF InstallSinks, ForthcomingInv, Forthcoming, LastAbout, SilentAbout, Told
<1> QED
  BY <1>1, <1>2, <1>3, ChannelUntouched, ForthcomingConnect, ForthcomingForget,
     ForthcomingChange, ForthcomingReceive

(* A session that has read all the relay sent wants what is watched: no    *)
(* session acts on what an earlier one was told, however often the         *)
(* connection is lost and whenever the audience changes.                   *)
THEOREM WantedIsWatched == Spec => []WantedAgrees
<1>1. Init => ChannelTypeOK /\ ForthcomingInv
  <2>1. Nothing \in [Streams -> BOOLEAN] /\ <<>> \in Seq(Messages)
    BY DEF Nothing
  <2> QED
    BY <2>1 DEF Init, ChannelTypeOK, ForthcomingInv
<1>2. ChannelTypeOK /\ ForthcomingInv /\ [Next]_vars => (ChannelTypeOK /\ ForthcomingInv)'
  BY ChannelType, ForthcomingKept
<1>3. ChannelTypeOK /\ ForthcomingInv => WantedAgrees
  <2> SUFFICES ASSUME ChannelTypeOK, ForthcomingInv, up, net = "session", inbox = <<>>
               PROVE  wanted = watched
    BY DEF WantedAgrees
  <2>1. \A s \in Streams : wanted[s] = watched[s]
    BY DEF ForthcomingInv, Forthcoming, LastAbout, Told
  <2> QED
    BY <2>1 DEF ChannelTypeOK
<1> QED
  BY <1>1, <1>2, <1>3, PTL DEF Spec

-----------------------------------------------------------------------------
FrameInv == puts \in Nat /\ NewestFrameKept

(* An old frame waits only while a newer one is on its way to its place.   *)
THEOREM NewestKept == Spec => []NewestFrameKept
<1>1. Init => FrameInv
  BY DEF Init, FrameInv, NewestFrameKept
<1>2. FrameInv /\ [Next]_vars => FrameInv'
  <2> SUFFICES ASSUME FrameInv, [Next]_vars PROVE FrameInv'
    OBVIOUS
  <2>1. CASE UNCHANGED <<puts, waiting>>
    BY <2>1 DEF FrameInv, NewestFrameKept
  <2>2. CASE CallSink
    BY <2>2 DEF CallSink, FrameInv, NewestFrameKept
  <2>3. CASE VideoConnect \/ PutFrame \/ SendFrame
    BY <2>3 DEF VideoConnect, PutFrame, SendFrame, FrameInv, NewestFrameKept
  <2>4. \/ UNCHANGED <<puts, waiting>>
        \/ CallSink \/ VideoConnect \/ PutFrame \/ SendFrame
    BY DEF Next, Spin, Net, Environment, vars, videoVars, SyncTelemetry, SyncCamera,
       OnSensor, PublishSnapshot, PublishDiagnostics, OnControlAuthority,
       OnCameraFrame, TestSink, CallNone, RefreshLiveness, ProbeHeard, Connect,
       ForgetWanted, InstallSinks, Receive, SessionEnds, ViewersChange,
       ConnectionLost, VideoLost
  <2> QED
    BY <2>1, <2>2, <2>3, <2>4
<1> QED
  BY <1>1, <1>2, PTL DEF Spec, FrameInv

(* The diagnostics remember a topic only while it is probed.               *)
THEOREM SeenProbed == Spec => []SeenIsProbed
<1>1. Init => SeenIsProbed
  BY DEF Init, SeenIsProbed
<1>2. SeenIsProbed /\ [Next]_vars => SeenIsProbed'
  <2> SUFFICES ASSUME SeenIsProbed, [Next]_vars PROVE SeenIsProbed'
    OBVIOUS
  <2>1. CASE UNCHANGED liveness
    BY <2>1 DEF liveness, SeenIsProbed
  <2>2. ASSUME NEW graph \in SUBSET Topics, RefreshLiveness(graph) PROVE SeenIsProbed'
    <3>1. CASE wanted["telemetry"]
      <4>1. PICK made \in SUBSET (graph \ probes) : probes' = (probes \cap graph) \cup made
        BY <2>2, <3>1 DEF RefreshLiveness
      <4>2. seen' = seen \ (probes \ graph)
        BY <2>2, <3>1 DEF RefreshLiveness
      <4> QED
        BY <4>1, <4>2 DEF SeenIsProbed
    <3>2. CASE ~wanted["telemetry"]
      BY <2>2, <3>2 DEF RefreshLiveness, SeenIsProbed
    <3> QED
      BY <3>1, <3>2
  <2>3. ASSUME NEW t \in Topics, ProbeHeard(t) PROVE SeenIsProbed'
    BY <2>3 DEF ProbeHeard, SeenIsProbed
  <2>4. \/ UNCHANGED liveness
        \/ \E graph \in SUBSET Topics : RefreshLiveness(graph)
        \/ \E t \in Topics : ProbeHeard(t)
    BY DEF Next, Spin, Net, Environment, vars, liveness, SyncTelemetry, SyncCamera,
       OnSensor, PublishSnapshot, PublishDiagnostics, OnControlAuthority,
       OnCameraFrame, TestSink, CallSink, CallNone, Connect, ForgetWanted,
       InstallSinks, Receive, SessionEnds, ViewersChange, ConnectionLost,
       VideoConnect, VideoLost, PutFrame, SendFrame
  <2> QED
    BY <2>1, <2>2, <2>3, <2>4
<1> QED
  BY <1>1, <1>2, PTL DEF Spec
=============================================================================
