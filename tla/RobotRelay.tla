----------------------------- MODULE RobotRelay -----------------------------
(***************************************************************************)
(* rambla_relay's Durable Object: the per-robot meeting point of the       *)
(* gateway's control socket and the browsers' control and video sockets.   *)
(* It grants the drive lease, forwards the holder's commands, tells the    *)
(* browsers whether the robot is online and who drives, and asks the       *)
(* gateway for telemetry and video while somebody watches.                 *)
(*                                                                         *)
(* The runtime's input gates hold back other events while a handler awaits *)
(* its storage, so each handler is one action.  Nothing survives between   *)
(* handlers but the lease in storage, the alarm and the accepted sockets,  *)
(* hence those are the state.  A socket is                                 *)
(*   open     both ends agree,                                             *)
(*   lost     the peer is gone, its last message has been handled, and the *)
(*            object has not been told: what is sent vanishes,             *)
(*   closing  the object has closed it and the peer has not answered:      *)
(*            sending throws,                                              *)
(*   none     its close event has been handled, or it never existed;       *)
(* getWebSockets lists all but the last kind.                              *)
(***************************************************************************)
EXTENDS Integers

CONSTANTS
    Robots,    \* the gateway's control sockets, one per connection attempt
    Conns,     \* the browsers' control sockets
    Viewers,   \* the browsers' video sockets
    Nobody,    \* no holder
    NoAlarm,   \* no alarm set
    LeaseTtl   \* LEASE_TTL_MS

ASSUME RelayAssumption ==
    /\ Nobody \notin Conns
    /\ NoAlarm \notin Int
    /\ LeaseTtl \in Nat \ {0}

SocketState == {"none", "open", "lost", "closing"}

VARIABLES
    robots, browsers, viewers,  \* the accepted sockets
    lease,       \* storage: the holder and the time left, 0 once expired
    alarm,       \* storage: time until the alarm is due, or NoAlarm
    \* what the messages sent so far make of the other sides
    told,        \* per browser: the last robot_status and lease_state
    telemetry,   \* the gateway's _telemetry_wanted
    video,       \* the gateway's _camera_wanted
    driven,      \* whose cmd_vel last reached the gateway
    \* history, of the gateway's last connection: "none" when no older
    \* socket of its own was listed at its accept, else "closing", and
    \* "closed" once a close event has been handled while it was open
    overlap

sockets == <<robots, browsers, viewers>>
gateway == <<telemetry, video>>
vars == <<sockets, lease, alarm, told, gateway, driven, overlap>>

NoLease == [holder |-> Nobody, left |-> 0]
Untold == [online |-> FALSE, holder |-> Nobody]

Listed(socket) == {s \in DOMAIN socket : socket[s] # "none"}

TypeOK ==
    /\ robots \in [Robots -> SocketState]
    /\ browsers \in [Conns -> SocketState]
    /\ viewers \in [Viewers -> SocketState]
    /\ lease \in [holder : Conns \cup {Nobody}, left : 0..LeaseTtl]
    /\ alarm \in 0..LeaseTtl \cup {NoAlarm}
    /\ told \in [Conns -> [online : BOOLEAN, holder : Conns \cup {Nobody}]]
    /\ telemetry \in BOOLEAN
    /\ video \in BOOLEAN
    /\ driven \in Conns \cup {Nobody}
    /\ overlap \in {"none", "closing", "closed"}

Init ==
    /\ robots = [r \in Robots |-> "none"]
    /\ browsers = [c \in Conns |-> "none"]
    /\ viewers = [v \in Viewers |-> "none"]
    /\ lease = NoLease
    /\ alarm = NoAlarm
    /\ told = [c \in Conns |-> Untold]
    /\ telemetry = FALSE
    /\ video = FALSE
    /\ driven = Nobody
    /\ overlap = "none"

-----------------------------------------------------------------------------
(* sendToRobotControlSocket takes the first socket the runtime lists, in   *)
(* whatever order it lists them; when none is listed nothing is sent.      *)
Delivered == "delivered"
Vanished == "vanished"
Threw == "threw"

SendOutcomes(robot) ==
    IF Listed(robot) = {} THEN {Vanished}
    ELSE {CASE robot[r] = "open" -> Delivered
            [] robot[r] = "lost" -> Vanished
            [] robot[r] = "closing" -> Threw : r \in Listed(robot)}

(* broadcastToBrowserControlSockets                                        *)
ToldStatus(online) ==
    [c \in Conns |-> IF browsers[c] = "none" THEN told[c]
                     ELSE [told[c] EXCEPT !.online = online]]

(* Mutant: the broadcast stops at a dead socket.                           *)
ToldLeaseWhileAllLive(holder) ==
    [c \in Conns |->
        IF browsers[c] = "none" \/ \E d \in Conns : browsers[d] = "lost"
        THEN told[c] ELSE [told[c] EXCEPT !.holder = holder]]

ToldLease(holder) ==
    [c \in Conns |-> IF browsers[c] = "none" THEN told[c]
                     ELSE [told[c] EXCEPT !.holder = holder]]

(* The lease that counts: a record at or past its expiry is no lease.      *)
Driver == IF lease.left > 0 THEN lease.holder ELSE Nobody

-----------------------------------------------------------------------------
(* acceptSocket.  A throw after the accept fails the upgrade: the object   *)
(* keeps a socket whose peer never got it.                                 *)

RobotAccept(r) ==
    /\ robots[r] = "none"
    /\ LET stale == [x \in Robots |->
                        IF robots[x] = "none" THEN "none" ELSE "closing"]
           accepted == [stale EXCEPT ![r] = "open"]
           watched == Listed(viewers) # {}
           attended == Listed(browsers) # {}
       IN  \E outcome \in SendOutcomes(accepted) :
              /\ video' = (watched /\ outcome = Delivered)
              /\ telemetry' = (attended /\ outcome = Delivered)
              /\ robots' = IF (watched \/ attended) /\ outcome = Threw
                           THEN [accepted EXCEPT ![r] = "lost"]
                           ELSE accepted
    /\ told' = ToldStatus(TRUE)
    /\ overlap' = IF Listed(robots) = {} THEN "none" ELSE "closing"
    /\ UNCHANGED <<browsers, viewers, lease, alarm, driven>>

BrowserAccept(c) ==
    /\ browsers[c] = "none"
    /\ \E outcome \in SendOutcomes(robots) :
          LET subscribe == Listed(browsers) = {}
              threw == subscribe /\ outcome = Threw
          IN  /\ browsers' = [browsers EXCEPT
                                 ![c] = IF threw THEN "lost" ELSE "open"]
              /\ telemetry' = (\/ telemetry
                               \/ subscribe /\ outcome = Delivered)
              /\ told' = IF threw THEN told
                         ELSE [told EXCEPT
                                  ![c] = [online |-> Listed(robots) # {},
                                          holder |-> Driver]]
    /\ UNCHANGED <<robots, viewers, lease, alarm, video, driven, overlap>>

ViewerAccept(v) ==
    /\ viewers[v] = "none"
    /\ \E outcome \in SendOutcomes(robots) :
          LET subscribe == Listed(viewers) = {}
          IN  /\ viewers' = [viewers EXCEPT
                                ![v] = IF subscribe /\ outcome = Threw
                                       THEN "lost" ELSE "open"]
              /\ video' = (video \/ (subscribe /\ outcome = Delivered))
    /\ UNCHANGED <<robots, browsers, lease, alarm, told, telemetry,
                   driven, overlap>>

-----------------------------------------------------------------------------
(* webSocketMessage *)

(* Mutant: the TTL is counted from the next instant.                       *)
GrantLong(c) ==
    /\ lease' = [holder |-> c, left |-> LeaseTtl + 1]
    /\ alarm' = LeaseTtl

(* Mutant: a heartbeat leaves the alarm that is already set.               *)
GrantOldAlarm(c) ==
    /\ lease' = [holder |-> c, left |-> LeaseTtl]
    /\ alarm' = IF alarm = NoAlarm THEN LeaseTtl ELSE alarm

Grant(c) ==
    /\ lease' = [holder |-> c, left |-> LeaseTtl]
    /\ alarm' = LeaseTtl

(* Mutant: the alarm goes and the record stays.                            *)
ReleaseAlarmOnly == alarm' = NoAlarm /\ UNCHANGED lease

(* releaseLeaseIfHeldBy, for the holder; the expiry is not looked at.      *)
Release ==
    /\ lease' = NoLease
    /\ alarm' = NoAlarm

(* Mutant: control is granted whoever holds it.                            *)
TakeControlAnyway(c) ==
    /\ browsers[c] = "open"
    /\ Grant(c)
    /\ told' = ToldLease(c)
    /\ UNCHANGED <<sockets, gateway, driven, overlap>>

TakeControl(c) ==
    /\ browsers[c] = "open"
    /\ Driver \in {Nobody, c}
    /\ Grant(c)
    /\ told' = ToldLease(c)
    /\ UNCHANGED <<sockets, gateway, driven, overlap>>

ReleaseControl(c) ==
    /\ browsers[c] = "open"
    /\ lease.holder = c
    /\ Release
    /\ told' = ToldLease(Nobody)
    /\ UNCHANGED <<sockets, gateway, driven, overlap>>

LeaseHeartbeat(c) ==
    /\ browsers[c] = "open"
    /\ Driver = c
    /\ Grant(c)
    /\ UNCHANGED <<sockets, told, gateway, driven, overlap>>

CmdVel(c) ==
    /\ browsers[c] = "open"
    /\ Driver = c
    /\ Delivered \in SendOutcomes(robots)
    /\ driven' = c
    /\ UNCHANGED <<sockets, lease, alarm, told, gateway, overlap>>

-----------------------------------------------------------------------------
(* webSocketClose *)

(* Mutant: it is counted.                                                  *)
StillAttachedAll(socket, s) == Listed(socket)

(* The socket being closed is still listed and must not be counted.        *)
StillAttached(socket, s) == Listed(socket) \ {s}

(* A close event that comes while another connection of the gateway is up. *)
LateClose == IF \E x \in Robots : robots[x] = "open" THEN "closed" ELSE overlap

(* Mutant: nobody is told that the robot went away.                        *)
RobotCloseSilently(r) ==
    /\ robots[r] \in {"lost", "closing"}
    /\ robots' = [robots EXCEPT ![r] = "none"]
    /\ overlap' = LateClose
    /\ UNCHANGED <<browsers, viewers, lease, alarm, told, gateway, driven>>

RobotClose(r) ==
    /\ robots[r] \in {"lost", "closing"}
    /\ robots' = [robots EXCEPT ![r] = "none"]
    /\ told' = ToldStatus(FALSE)
    /\ overlap' = LateClose
    /\ UNCHANGED <<browsers, viewers, lease, alarm, gateway, driven>>

BrowserClose(c) ==
    /\ browsers[c] = "lost"
    /\ browsers' = [browsers EXCEPT ![c] = "none"]
    /\ IF lease.holder = c
       THEN Release /\ told' = [ToldLease(Nobody) EXCEPT ![c] = Untold]
       ELSE UNCHANGED <<lease, alarm>> /\ told' = [told EXCEPT ![c] = Untold]
    /\ IF StillAttached(browsers, c) = {}
       THEN \E outcome \in SendOutcomes(robots) :
               telemetry' = (telemetry /\ outcome # Delivered)
       ELSE UNCHANGED telemetry
    /\ UNCHANGED <<robots, viewers, video, driven, overlap>>

ViewerClose(v) ==
    /\ viewers[v] = "lost"
    /\ viewers' = [viewers EXCEPT ![v] = "none"]
    /\ IF StillAttached(viewers, v) = {}
       THEN \E outcome \in SendOutcomes(robots) :
               video' = (video /\ outcome # Delivered)
       ELSE UNCHANGED video
    /\ UNCHANGED <<robots, browsers, lease, alarm, told, telemetry,
                   driven, overlap>>

-----------------------------------------------------------------------------
(* Mutant: an alarm renews the lease it was set for.                       *)
OnAlarmRenewing ==
    /\ alarm' = LeaseTtl
    /\ lease' = [lease EXCEPT !.left = LeaseTtl]
    /\ UNCHANGED told

(* alarm: announce an expiry; a lease renewed meanwhile is rescheduled.    *)
OnAlarm ==
    IF lease = NoLease THEN UNCHANGED <<lease, told>> /\ alarm' = NoAlarm
    ELSE IF lease.left = 0
         THEN /\ lease' = NoLease
              /\ alarm' = NoAlarm
              /\ told' = ToldLease(Nobody)
         ELSE /\ alarm' = lease.left
              /\ UNCHANGED <<lease, told>>

AlarmDue ==
    /\ alarm = 0
    /\ OnAlarm
    /\ UNCHANGED <<sockets, gateway, driven, overlap>>

-----------------------------------------------------------------------------
(* Outside the object: peers go away, and time passes.                     *)

RobotDrop(r) ==
    /\ robots[r] = "open"
    /\ robots' = [robots EXCEPT ![r] = "lost"]
    /\ UNCHANGED <<browsers, viewers, lease, alarm, told, gateway,
                   driven, overlap>>

BrowserDrop(c) ==
    /\ browsers[c] = "open"
    /\ browsers' = [browsers EXCEPT ![c] = "lost"]
    /\ UNCHANGED <<robots, viewers, lease, alarm, told, gateway,
                   driven, overlap>>

ViewerDrop(v) ==
    /\ viewers[v] = "open"
    /\ viewers' = [viewers EXCEPT ![v] = "lost"]
    /\ UNCHANGED <<robots, browsers, lease, alarm, told, gateway,
                   driven, overlap>>

(* The alarm may be late by any amount: a due alarm does not stop time.    *)
Elapse ==
    /\ lease.left > 0
    /\ lease' = [lease EXCEPT !.left = lease.left - 1]
    /\ alarm' = IF alarm = NoAlarm \/ alarm = 0 THEN alarm ELSE alarm - 1
    /\ UNCHANGED <<sockets, told, gateway, driven, overlap>>

-----------------------------------------------------------------------------
Next ==
    \/ \E r \in Robots : RobotAccept(r) \/ RobotClose(r) \/ RobotDrop(r)
    \/ \E c \in Conns :
          \/ BrowserAccept(c) \/ BrowserClose(c) \/ BrowserDrop(c)
          \/ TakeControl(c) \/ ReleaseControl(c) \/ LeaseHeartbeat(c)
          \/ CmdVel(c)
    \/ \E v \in Viewers : ViewerAccept(v) \/ ViewerClose(v) \/ ViewerDrop(v)
    \/ AlarmDue
    \/ Elapse

(* The platform delivers due alarms, and time passes.                      *)
Fairness == WF_vars(AlarmDue) /\ WF_vars(Elapse)

Spec == Init /\ [][Next]_vars /\ Fairness

-----------------------------------------------------------------------------
(* The lease is exclusive: the object implements the contract, whatever    *)
(* connections come and go, expire or heartbeat late                       *)
(* (relay-protocol.md:87-123).                                             *)
Contract == INSTANCE LeaseContract WITH driver <- Driver
LeaseIsExclusive == Contract!Spec

(* A stored lease always has its own alarm, neither an older one that      *)
(* would end it early nor none at all, so an expiry is always announced.   *)
AlarmTracksLease ==
    alarm = IF lease = NoLease THEN NoAlarm ELSE lease.left

(* Nobody holds the lease from beyond the grave: the holder's socket is    *)
(* one whose close event is still to come, and that event releases it.     *)
HolderIsListed == lease.holder # Nobody => browsers[lease.holder] # "none"

(* What a browser was last told of the lease is so: the holder it was told *)
(* of is the stored one, and "free" means that nobody may drive (a lease   *)
(* past its expiry may be reported either way until its alarm fires).      *)
ToldLeaseIsTrue ==
    \A c \in Conns : browsers[c] = "open" =>
        \/ told[c].holder = lease.holder
        \/ told[c].holder = Nobody /\ Driver = Nobody

(* The gateway streams telemetry, and video, exactly while a browser is    *)
(* attached: subscribe and unsubscribe are only sent on transitions, so    *)
(* one that goes missing would leave the gateway streaming to nobody or    *)
(* the browsers without data (robot-do.ts:114-129, 220-239).  Left out is  *)
(* a connection made over an older one: while both are listed a send goes  *)
(* to the first the runtime lists, and throws when that is the displaced   *)
(* one (robot-do.ts:341-344).                                              *)
SubscriptionsAgree ==
    overlap = "none" /\ (\E r \in Robots : robots[r] = "open") =>
        /\ telemetry <=> Listed(browsers) # {}
        /\ video <=> Listed(viewers) # {}

(* A browser is told the robot is online while the gateway's connection is *)
(* up: "the DO's source of truth ... is the control-channel robot socket's *)
(* connection state" (relay-protocol.md:204-207).                          *)
StatusIsTrue ==
    \A c \in Conns : browsers[c] = "open" =>
        /\ (\E r \in Robots : robots[r] = "open") => told[c].online
        /\ Listed(robots) = {} => ~told[c].online

(* What is left of it: a reconnect that displaces its old socket, however  *)
(* often, is reported online to every browser, until the close event of a  *)
(* displaced socket comes while it is up; and with no gateway socket left  *)
(* no browser takes the robot for online (robot-do.ts:95-112, 212-218).    *)
StatusUntilLateClose ==
    \A c \in Conns : browsers[c] = "open" =>
        /\ overlap # "closed" /\ (\E r \in Robots : robots[r] = "open")
               => told[c].online
        /\ Listed(robots) = {} => ~told[c].online

(* A holder that stops heartbeating loses the lease for good, whether its  *)
(* close event comes or not and however often the alarm is rescheduled,    *)
(* and the browsers hear of it (ToldLeaseIsTrue): the TTL is what bounds a *)
(* driver whose connection hangs (relay-protocol.md:102-117).              *)
SilentHolderIsReleased ==
    \A c \in Conns :
        \/ []<><<TakeControl(c) \/ LeaseHeartbeat(c)>>_vars
        \/ []<>(lease.holder # c)

=============================================================================
