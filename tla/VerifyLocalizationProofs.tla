---------------------- MODULE VerifyLocalizationProofs ----------------------
(***************************************************************************)
(* The verification driver, for every map and world, every timeout and     *)
(* every depth of its queue.                                               *)
(*                                                                         *)
(* The inductive invariant says what the counts of the messages still in   *)
(* the queue tell of the counts already read: they never fall, and as long *)
(* as nothing was dropped a count is new only on a message that says       *)
(* GLOBAL.                                                                 *)
(***************************************************************************)
EXTENDS VerifyLocalization, TLAPS

Message == [status : Status, count : Nat]

(* The count published with the status that was read last.                 *)
Known == IF countNext # None THEN countNext ELSE countSeen

LocalsTypeOK ==
    /\ queue \in Seq(Message)
    /\ leftUsable \in BOOLEAN
    /\ countBefore \in Nat \cup {None}
    /\ usableAt \in Seq(Nat)
    /\ spinDue \in BOOLEAN
    /\ strandedFor \in 0..StallTimeout \cup {None}

ReadTypeOK ==
    /\ queue \in Seq(Message) /\ Len(queue) <= QueueDepth
    /\ statusSeen \in Status \cup {None}
    /\ countNext \in 0..MaxCount \cup {None} /\ countSeen \in 0..MaxCount
    /\ probeSeen \in BOOLEAN

(* What is read, waits and is still to come is in the order it was counted.*)
CountsInOrder ==
    /\ countSeen <= Known
    /\ \A i \in 1..Len(queue) : Known <= queue[i].count
    /\ \A i, j \in 1..Len(queue) : i < j => queue[i].count <= queue[j].count
    /\ count = IF queue = <<>> THEN Known ELSE queue[Len(queue)].count

(* A count that differs from the one before it came with GLOBAL: true as   *)
(* long as nothing is dropped, which is until the teleport.                *)
GlobalBringsRequests ==
    /\ countNext # None /\ statusSeen # GLOBAL => countNext = countSeen
    /\ \A i \in 1..Len(queue) :
          queue[i].status # GLOBAL =>
              queue[i].count = IF i = 1 THEN Known ELSE queue[i - 1].count

RequestsShow ==
    step \in {"preflight", "converging"} => GlobalBringsRequests

(* What a kidnap scenario has recorded, step by step.                      *)
KidnapRecord ==
    /\ step \in {"preflight", "converging"} => usableAt = <<>>
    /\ step \in {"teleporting", "detecting", "recovering"} =>
          scenario = "kidnap" /\ Len(usableAt) = 1 /\ usableAt[1] = countBefore
    /\ step = "measuring" /\ scenario = "kidnap" =>
          /\ Len(usableAt) = 2 /\ usableAt[1] = countBefore
          /\ countSeen <= usableAt[2]

DriverInv ==
    /\ DriverTypeOK /\ LocalsTypeOK
    /\ CountsInOrder /\ RequestsShow /\ KidnapRecord
    /\ KidnapPassIsRecovery

LEMMA Bounds ==
    /\ MaxCount \in Nat /\ QueueDepth \in Nat \ {0} /\ StallTimeout \in Nat
    /\ None \notin Nat /\ None \notin Status /\ None \notin {"pass", "fail"}
    /\ \A s \in Waits : Timeout[s] \in Nat /\ Timeout[s] <= WaitCap
    /\ WaitCap \in Nat
BY DriverAssumption DEF DriverAssumption, Waits, Timeout, WaitCap

USE Bounds

-----------------------------------------------------------------------------
(* The queue *)

LEMMA StatusesDiffer ==
    /\ GLOBAL \in Status /\ LOST \in Status /\ USABLE \in Status
    /\ GLOBAL # LOST /\ USABLE # GLOBAL /\ Active \subseteq Status
BY DEF Status, Localized, Active, UNINITIALIZED, GLOBAL, CONVERGING, USABLE,
   DEGRADED, LOST

(* One more message, with the count after the tick.                        *)
LEMMA TickAppends ==
    ASSUME DriverInv, MonitorTicks
    PROVE  LET message == [status |-> status', count |-> count']
               long == Append(queue, message)
           IN  /\ status' \in Status /\ count' \in 0..MaxCount /\ count <= count'
               /\ exhausted' \in BOOLEAN
               /\ long \in Seq(Message)
               /\ queue' = KeepLast(long)
               /\ \A i \in 1..Len(long) : Known <= long[i].count
               /\ \A i, j \in 1..Len(long) : i < j => long[i].count <= long[j].count
               /\ long[Len(long)].count = count'
<1> DEFINE message == [status |-> status', count |-> count']
           long == Append(queue, message)
<1>1. /\ status' \in Status /\ count' \in 0..MaxCount /\ count <= count'
      /\ exhausted' \in BOOLEAN
  BY DEF MonitorTicks, Heard, Announce, DriverInv, DriverTypeOK
<1>2. message \in Message
  BY <1>1 DEF Message
<1>3. /\ queue \in Seq(Message) /\ long \in Seq(Message)
      /\ Len(long) = Len(queue) + 1 /\ long[Len(long)] = message
      /\ \A i \in 1..Len(queue) : long[i] = queue[i] /\ queue[i].count \in Nat
      /\ 1..Len(long) = 1..Len(queue) + 1
  <2>1. queue \in Seq(Message)
    BY DEF DriverInv, LocalsTypeOK
  <2>2. \A i \in 1..Len(queue) : queue[i].count \in Nat
    <3>1. \A i \in 1..Len(queue) : queue[i] \in Message
      BY <2>1
    <3> QED
      BY <3>1 DEF Message
  <2> HIDE DEF message
  <2>3. /\ long \in Seq(Message)
        /\ Len(long) = Len(queue) + 1 /\ long[Len(long)] = message
        /\ \A i \in 1..Len(queue) : long[i] = queue[i]
        /\ 1..Len(long) = 1..Len(queue) + 1
    BY <1>2, <2>1
  <2> QED
    BY <2>2, <2>3
<1>4. Known \in Nat /\ Known <= count
  <2>1. Known \in Nat
    BY DEF DriverInv, DriverTypeOK, Known
  <2> QED
    BY <1>3, <2>1 DEF DriverInv, CountsInOrder
<1>5. \A i \in 1..Len(queue) : queue[i].count <= count
  BY <1>3 DEF DriverInv, CountsInOrder
<1>6. count \in Nat
  BY DEF DriverInv, DriverTypeOK
<1>7. \A i \in 1..Len(long) : Known <= long[i].count
  BY <1>1, <1>3, <1>4, <1>6 DEF DriverInv, CountsInOrder
<1>8. \A i, j \in 1..Len(long) : i < j => long[i].count <= long[j].count
  BY <1>1, <1>3, <1>5, <1>6 DEF DriverInv, CountsInOrder
<1> QED
  BY <1>1, <1>3, <1>7, <1>8 DEF MonitorTicks

LEMMA TickKeeps ==
    ASSUME DriverInv, MonitorTicks
    PROVE  DriverInv'
<1> DEFINE message == [status |-> status', count |-> count']
           long == Append(queue, message)
<1>1. /\ status' \in Status /\ count' \in 0..MaxCount
      /\ exhausted' \in BOOLEAN
      /\ long \in Seq(Message)
      /\ queue' = KeepLast(long)
      /\ \A i \in 1..Len(long) : Known <= long[i].count
      /\ \A i, j \in 1..Len(long) : i < j => long[i].count <= long[j].count
      /\ long[Len(long)].count = count'
  BY TickAppends
<1>2. queue \in Seq(Message) /\ Len(queue) <= QueueDepth
  BY DEF DriverInv, DriverTypeOK, LocalsTypeOK
<1>3. Len(long) = Len(queue) + 1 /\ \A i \in 1..Len(queue) : long[i] = queue[i]
  BY <1>2
<1> HIDE DEF long
<1>4. /\ queue' \in Seq(Message) /\ Len(queue') <= QueueDepth
      /\ queue' # <<>>
      /\ \A i \in 1..Len(queue') : Known <= queue'[i].count
      /\ \A i, j \in 1..Len(queue') : i < j => queue'[i].count <= queue'[j].count
      /\ queue'[Len(queue')].count = count'
  <2>1. CASE Len(long) <= QueueDepth
    BY <1>1, <1>2, <1>3, <2>1 DEF KeepLast
  <2>2. CASE Len(long) > QueueDepth
    <3>1. /\ queue' = Tail(long) /\ Len(Tail(long)) = Len(queue)
          /\ Len(queue) = QueueDepth
          /\ \A i \in 1..Len(queue) : Tail(long)[i] = long[i + 1]
          /\ Tail(long) \in Seq(Message)
      BY <1>1, <1>2, <1>3, <2>2 DEF KeepLast
    <3>2. queue' # <<>> /\ 1..Len(queue') = 1..QueueDepth /\ Len(queue') = QueueDepth
      BY <3>1
    <3>3. \A i \in 1..Len(queue') : i + 1 \in 1..Len(long) /\ queue'[i] = long[i + 1]
      BY <1>1, <1>3, <3>1, <3>2
    <3>4. \A i, j \in 1..Len(queue') : i < j => i + 1 < j + 1
      BY <3>2
    <3>5. \A i, j \in 1..Len(queue') : i < j => queue'[i].count <= queue'[j].count
      BY <1>1, <3>3, <3>4
    <3>6. queue'[Len(queue')].count = count'
      BY <1>1, <1>3, <3>1, <3>2, <3>3
    <3> QED
      BY <1>1, <3>1, <3>2, <3>3, <3>5, <3>6
  <2> QED
    BY <1>1, <1>2, <1>3, <2>1, <2>2
<1>5. DriverTypeOK' /\ LocalsTypeOK'
  BY <1>1, <1>4 DEF DriverInv, DriverTypeOK, LocalsTypeOK, MonitorTicks, watcher, report
<1>6. Known' = Known /\ countSeen' = countSeen /\ countSeen <= Known
  BY DEF MonitorTicks, watcher, Known, DriverInv, CountsInOrder
<1>7. CountsInOrder'
  BY <1>4, <1>6 DEF CountsInOrder
<1>8. RequestsShow'
  <2> SUFFICES ASSUME step \in {"preflight", "converging"}
               PROVE  GlobalBringsRequests'
    BY DEF RequestsShow, MonitorTicks
  <2>1. queue' = long
    <3>1. Len(queue) < QueueDepth
      BY DEF MonitorTicks
    <3> QED
      BY <1>1, <1>2, <1>3, <3>1 DEF KeepLast
  <2>2. long[Len(long)] = message
    BY <1>2 DEF long
  <2>3. status' # GLOBAL => count' = count
    BY DEF MonitorTicks
  <2>4. ASSUME NEW i \in 1..Len(long), long[i].status # GLOBAL
        PROVE  long[i].count = IF i = 1 THEN Known ELSE long[i - 1].count
    <3>1. CASE i \in 1..Len(queue)
      BY <1>2, <1>3, <2>4, <3>1 DEF DriverInv, RequestsShow, GlobalBringsRequests
    <3>2. CASE i = Len(long)
      <4>1. long[i].count = count
        BY <2>2, <2>3, <2>4, <3>2
      <4> QED
        BY <1>2, <1>3, <3>2, <4>1 DEF DriverInv, CountsInOrder
    <3> QED
      BY <1>1, <1>2, <1>3, <3>1, <3>2
  <2> QED
    BY <1>6, <2>1, <2>4 DEF DriverInv, RequestsShow, GlobalBringsRequests, MonitorTicks,
       watcher
<1>9. KidnapRecord' /\ KidnapPassIsRecovery'
  BY DEF DriverInv, KidnapRecord, KidnapPassIsRecovery, MonitorTicks, watcher, report
<1> QED
  BY <1>5, <1>7, <1>8, <1>9 DEF DriverInv

(* spin_once: whatever is read, the counts stay in order, and what GLOBAL  *)
(* brings is still seen to come with it.                                   *)
LEMMA SpinKeeps ==
    ASSUME DriverInv, SpinOnce, UNCHANGED world
    PROVE  /\ ReadTypeOK' /\ spinDue' \in BOOLEAN
           /\ strandedFor' \in 0..StallTimeout \cup {None}
           /\ CountsInOrder'
           /\ GlobalBringsRequests => GlobalBringsRequests'
           /\ countSeen' <= Known'
<1>1. strandedFor' \in 0..StallTimeout \cup {None} /\ spinDue' \in BOOLEAN
  <2>1. spinDue' = FALSE /\ (strandedFor' = 0 \/ strandedFor' = strandedFor \/ strandedFor' = None)
    BY DEF SpinOnce
  <2>2. strandedFor \in 0..StallTimeout \cup {None} /\ 0 \in 0..StallTimeout
    BY DEF DriverInv, LocalsTypeOK
  <2> QED
    BY <2>1, <2>2
<1>2. /\ queue \in Seq(Message) /\ Len(queue) <= QueueDepth
      /\ count \in 0..MaxCount /\ exhausted \in BOOLEAN
      /\ statusSeen \in Status \cup {None} /\ probeSeen \in BOOLEAN
      /\ countNext \in 0..MaxCount \cup {None} /\ countSeen \in 0..MaxCount
      /\ CountsInOrder /\ count' = count
  BY DEF DriverInv, DriverTypeOK, LocalsTypeOK, world
<1>3. None \notin 0..MaxCount
  OBVIOUS
<1>4. Known \in 0..MaxCount /\ countSeen <= Known
  BY <1>2 DEF Known, CountsInOrder
<1>5. CASE ReadStatus
  <2>1. /\ queue # <<>> /\ queue' = Tail(queue) /\ queue' \in Seq(Message)
        /\ Len(queue') = Len(queue) - 1 /\ Head(queue) = queue[1]
        /\ \A i \in 1..Len(queue') : i + 1 \in 1..Len(queue) /\ queue'[i] = queue[i + 1]
        /\ 1 \in 1..Len(queue) /\ Len(queue) \in 1..Len(queue)
        /\ queue' = <<>> => Len(queue) = 1
    <3>1. queue # <<>> /\ queue' = Tail(queue) /\ Len(queue) \in Nat /\ Len(queue) > 0
      BY <1>2, <1>5 DEF ReadStatus
    <3>2. /\ Tail(queue) \in Seq(Message) /\ Len(Tail(queue)) = Len(queue) - 1
          /\ \A i \in 1..Len(queue) - 1 : Tail(queue)[i] = queue[i + 1]
      BY <1>2, <3>1
    <3>3. queue' = <<>> => Len(queue') = 0
      OBVIOUS
    <3> QED
      BY <1>2, <3>1, <3>2, <3>3
  <2>2. /\ queue[1] \in Message /\ queue[1].count \in Nat
    <3>1. queue[1] \in Message
      BY <1>2, <2>1
    <3> QED
      BY <3>1 DEF Message
  <2>3. queue[1].count <= count
    BY <1>2, <2>1, <2>2 DEF CountsInOrder
  <2>4. /\ countNext' = queue[1].count /\ countNext' \in 0..MaxCount
        /\ statusSeen' = queue[1].status /\ statusSeen' \in Status
        /\ UNCHANGED <<countSeen, probeSeen>> /\ countNext = None
    BY <1>2, <1>5, <2>1, <2>2, <2>3 DEF ReadStatus, Message
  <2>5. Known' = queue[1].count /\ Known = countSeen /\ countSeen <= queue[1].count
    BY <1>2, <1>3, <2>1, <2>4 DEF Known, CountsInOrder
  <2>6. CountsInOrder'
    <3>1. \A i \in 1..Len(queue') : Known' <= queue'[i].count
      BY <1>2, <2>1, <2>5 DEF CountsInOrder
    <3>2. \A i, j \in 1..Len(queue') : i < j => queue'[i].count <= queue'[j].count
      BY <1>2, <2>1 DEF CountsInOrder
    <3>3. count = IF queue' = <<>> THEN Known' ELSE queue'[Len(queue')].count
      BY <1>2, <2>1, <2>5 DEF CountsInOrder
    <3> QED
      BY <1>2, <2>4, <2>5, <3>1, <3>2, <3>3 DEF CountsInOrder
  <2>7. ASSUME GlobalBringsRequests PROVE GlobalBringsRequests'
    <3>1. statusSeen' # GLOBAL => countNext' = countSeen'
      BY <2>1, <2>4, <2>5, <2>7 DEF GlobalBringsRequests
    <3>2. ASSUME NEW i \in 1..Len(queue'), queue'[i].status # GLOBAL
          PROVE  queue'[i].count = IF i = 1 THEN Known' ELSE queue'[i - 1].count
      <4>1. queue[i + 1].count = queue[i].count
        BY <2>1, <2>7, <3>2 DEF GlobalBringsRequests
      <4> QED
        BY <2>1, <2>5, <4>1
    <3> QED
      BY <3>1, <3>2 DEF GlobalBringsRequests
  <2> QED
    BY <1>1, <1>2, <2>1, <2>4, <2>5, <2>6, <2>7 DEF ReadTypeOK
<1>6. CASE ReadMetrics \/ ReadProbe \/ ReadNothing
  <2>1. queue' = queue /\ Known' = Known
    BY <1>2, <1>3, <1>6 DEF ReadMetrics, ReadProbe, ReadNothing, watcher, Known
  <2>2. CountsInOrder'
    <3>1. countSeen' <= Known'
      BY <1>2, <1>4, <1>6, <2>1 DEF ReadMetrics, ReadProbe, ReadNothing, watcher, Known
    <3> QED
      BY <1>2, <2>1, <3>1 DEF CountsInOrder
  <2>3. GlobalBringsRequests => GlobalBringsRequests'
    BY <1>6, <2>1 DEF GlobalBringsRequests, ReadMetrics, ReadProbe, ReadNothing,
       watcher
  <2>4. /\ statusSeen' \in Status \cup {None} /\ probeSeen' \in BOOLEAN
        /\ countNext' \in 0..MaxCount \cup {None} /\ countSeen' \in 0..MaxCount
        /\ countSeen' <= Known'
    BY <1>2, <1>3, <1>4, <1>6, <2>1
       DEF ReadMetrics, ReadProbe, ReadNothing, watcher, Known
  <2> QED
    BY <1>1, <1>2, <2>1, <2>2, <2>3, <2>4 DEF ReadTypeOK
<1> QED
  BY <1>5, <1>6 DEF SpinOnce

-----------------------------------------------------------------------------
(* The scenario *)

LEMMA InitInv == DriverInit => DriverInv
<1> SUFFICES ASSUME DriverInit PROVE DriverInv
  OBVIOUS
<1>1. DriverTypeOK /\ LocalsTypeOK
  <2>1. /\ queue \in Seq(Message) /\ usableAt \in Seq(Nat)
        /\ Len(queue) <= QueueDepth
    BY DEF DriverInit
  <2>2. DriverTypeOK
    <3>1. /\ status \in Status /\ exhausted \in BOOLEAN /\ probeSeen \in BOOLEAN
          /\ statusSeen \in Status \cup {None}
          /\ scenario \in Scenarios /\ step \in Steps
          /\ verdict \in {"pass", "fail", None} /\ (verdict = None <=> step # "done")
      BY DEF DriverInit, Steps
    <3>2. /\ count \in 0..MaxCount /\ countSeen \in 0..MaxCount
          /\ countNext \in 0..MaxCount \cup {None}
          /\ waited \in 0..WaitCap
          /\ stalledFor \in 0..StallTimeout \cup {None}
      BY DEF DriverInit
    <3> QED
      BY <2>1, <3>1, <3>2 DEF DriverTypeOK
  <2>3. LocalsTypeOK
    BY <2>1 DEF DriverInit, LocalsTypeOK
  <2> QED
    BY <2>2, <2>3
<1>2. CountsInOrder /\ RequestsShow
  BY DEF DriverInit, CountsInOrder, RequestsShow, GlobalBringsRequests, Known
<1>3. KidnapRecord /\ KidnapPassIsRecovery
  BY DEF DriverInit, KidnapRecord, KidnapPassIsRecovery
<1> QED
  BY <1>1, <1>2, <1>3 DEF DriverInv

(* A step that reads nothing leaves the queue in order; RequestsShow only  *)
(* looks at steps that come before it.                                     *)
LEMMA NothingRead ==
    ASSUME DriverInv, UNCHANGED <<world, queue, watcher>>,
           step' \in {"preflight", "converging"} => step \in {"preflight", "converging"}
    PROVE  ReadTypeOK' /\ CountsInOrder' /\ RequestsShow'
<1>1. UNCHANGED <<count, queue, statusSeen, countNext, countSeen, Known, probeSeen>>
  BY DEF world, watcher, Known
<1>2. ReadTypeOK'
  BY <1>1 DEF DriverInv, DriverTypeOK, LocalsTypeOK, ReadTypeOK
<1> QED
  BY <1>1, <1>2 DEF DriverInv, CountsInOrder, RequestsShow, GlobalBringsRequests

(* An end of the scenario, or the next wait or measurement.                *)
LEMMA NextStepTypes ==
    ASSUME DriverInv, step # "done",
           \/ \E s \in Steps \ {"done"} : Wait(s)
           \/ \E pass \in BOOLEAN : Finish(pass),
           UNCHANGED <<world, scenario>>,
           ReadTypeOK', spinDue' \in BOOLEAN,
           strandedFor' \in 0..StallTimeout \cup {None},
           leftUsable' \in BOOLEAN, countBefore' \in Nat \cup {None},
           usableAt' \in Seq(Nat)
    PROVE  DriverTypeOK' /\ LocalsTypeOK'
<1>1. /\ step' \in Steps /\ waited' \in 0..WaitCap
      /\ stalledFor' \in 0..StallTimeout \cup {None}
      /\ verdict' \in {"pass", "fail", None}
      /\ verdict' = None <=> step' # "done"
  BY DEF Wait, Finish, DriverInv, DriverTypeOK, Steps
<1> QED
  BY <1>1 DEF DriverInv, DriverTypeOK, LocalsTypeOK, ReadTypeOK, world

(* A scenario that fails keeps the invariant, whatever it was about to do. *)
LEMMA FailureKeeps ==
    ASSUME DriverInv, step # "done", Finish(FALSE),
           UNCHANGED <<world, scenario>>,
           ReadTypeOK', spinDue' \in BOOLEAN,
           strandedFor' \in 0..StallTimeout \cup {None},
           leftUsable' \in BOOLEAN, countBefore' \in Nat \cup {None},
           usableAt' \in Seq(Nat), CountsInOrder'
    PROVE  DriverInv'
<1>1. step' = "done" /\ verdict' = "fail"
  BY DEF Finish
<1>2. DriverTypeOK' /\ LocalsTypeOK'
  BY NextStepTypes
<1>3. RequestsShow' /\ KidnapRecord' /\ KidnapPassIsRecovery'
  BY <1>1 DEF RequestsShow, KidnapRecord, KidnapPassIsRecovery
<1> QED
  BY <1>2, <1>3 DEF DriverInv

LEMMA FailureUnread ==
    ASSUME DriverInv, step # "done", Finish(FALSE),
           UNCHANGED <<world, queue, watcher, scenario, spinDue, leftUsable,
                       countBefore, usableAt, strandedFor>>
    PROVE  DriverInv'
<1>1. ReadTypeOK' /\ CountsInOrder'
  BY NothingRead DEF Finish
<1> QED
  BY <1>1, FailureKeeps DEF DriverInv, LocalsTypeOK

LEMMA PreflightKeeps ==
    ASSUME DriverInv, Preflight
    PROVE  DriverInv'
<1>1. CASE Wait("converging")
  <2>1. CountsInOrder' /\ RequestsShow' /\ ReadTypeOK'
    BY NothingRead DEF Preflight
  <2>2. DriverTypeOK' /\ LocalsTypeOK'
    BY <1>1, <2>1, NextStepTypes DEF Preflight, DriverInv, LocalsTypeOK, Steps, Waits
  <2>3. KidnapRecord' /\ KidnapPassIsRecovery'
    BY <1>1 DEF Preflight, Wait, DriverInv, DriverTypeOK, KidnapRecord,
       KidnapPassIsRecovery
  <2> QED
    BY <2>1, <2>2, <2>3 DEF DriverInv
<1>2. CASE Finish(FALSE)
  BY <1>2, FailureUnread DEF Preflight
<1> QED
  BY <1>1, <1>2 DEF Preflight

LEMMA PreflightSpinKeeps ==
    ASSUME DriverInv, PreflightSpin
    PROVE  DriverInv'
<1>1. /\ ReadTypeOK' /\ spinDue' \in BOOLEAN
      /\ strandedFor' \in 0..StallTimeout \cup {None}
      /\ CountsInOrder'
      /\ GlobalBringsRequests => GlobalBringsRequests'
  BY SpinKeeps DEF PreflightSpin
<1>2. DriverTypeOK' /\ LocalsTypeOK'
  BY <1>1 DEF PreflightSpin, DriverInv, DriverTypeOK, LocalsTypeOK, ReadTypeOK,
     world, report
<1>3. RequestsShow' /\ KidnapRecord' /\ KidnapPassIsRecovery'
  BY <1>1 DEF PreflightSpin, DriverInv, RequestsShow, KidnapRecord,
     KidnapPassIsRecovery, report
<1> QED
  BY <1>1, <1>2, <1>3 DEF DriverInv

-----------------------------------------------------------------------------
(* The waits *)

LEMMA WaitSpinKeeps ==
    ASSUME DriverInv, WaitSpin
    PROVE  DriverInv'
<1>1. /\ ReadTypeOK' /\ spinDue' \in BOOLEAN
      /\ strandedFor' \in 0..StallTimeout \cup {None}
      /\ CountsInOrder'
      /\ GlobalBringsRequests => GlobalBringsRequests'
      /\ countSeen' <= Known'
  BY SpinKeeps DEF WaitSpin
<1>2. /\ UNCHANGED <<world, scenario>> /\ step \in Waits /\ step # "done"
      /\ scenario \in Scenarios
  BY DEF WaitSpin, Waits, DriverInv, DriverTypeOK
<1>3. /\ leftUsable \in BOOLEAN /\ countBefore \in Nat \cup {None}
      /\ usableAt \in Seq(Nat)
  BY DEF DriverInv, LocalsTypeOK
<1>4. Known' \in Nat /\ countSeen' \in Nat
  BY <1>1 DEF ReadTypeOK, Known
<1>5. usableAt' = IF step # "detecting" /\ statusSeen' \in Target
                  THEN Append(usableAt, Known') ELSE usableAt
  BY DEF WaitSpin, Known
<1>6. usableAt' \in Seq(Nat)
  BY <1>3, <1>4, <1>5
<1>7. CASE Finish(FALSE) /\ leftUsable' \in BOOLEAN /\ countBefore' \in Nat \cup {None}
  BY <1>1, <1>2, <1>6, <1>7, FailureKeeps
<1>8. CASE statusSeen' \in Target /\ AfterConverging(TRUE)
  <2>1. /\ step = "converging" /\ countBefore' = countSeen' /\ leftUsable' = leftUsable
        /\ Wait(IF scenario = "kidnap" THEN "teleporting" ELSE "measuring")
    BY <1>8 DEF AfterConverging
  <2>2. DriverTypeOK' /\ LocalsTypeOK'
    BY <1>1, <1>2, <1>3, <1>4, <1>6, <2>1, NextStepTypes DEF Steps
  <2>3. statusSeen' # GLOBAL
    BY <1>8, <2>1, StatusesDiffer DEF Target
  <2>4. Known' = countSeen'
    BY <1>1, <2>1, <2>3
       DEF DriverInv, RequestsShow, GlobalBringsRequests, Known
  <2>5. Len(usableAt') = 1 /\ usableAt'[1] = Known'
    BY <1>4, <1>5, <1>8, <2>1 DEF DriverInv, KidnapRecord
  <2>6. RequestsShow' /\ KidnapRecord' /\ KidnapPassIsRecovery'
    BY <1>2, <2>1, <2>2, <2>4, <2>5 DEF Wait, RequestsShow, KidnapRecord,
       KidnapPassIsRecovery, DriverTypeOK
  <2> QED
    BY <1>1, <2>2, <2>6 DEF DriverInv
<1>9. CASE AfterDetecting(TRUE) \/ AfterDetecting(FALSE)
  <2>1. /\ step = "detecting" /\ countBefore' = countBefore
        /\ leftUsable' \in BOOLEAN /\ Wait("recovering") /\ usableAt' = usableAt
    BY <1>5, <1>9 DEF AfterDetecting
  <2>2. DriverTypeOK' /\ LocalsTypeOK'
    BY <1>1, <1>2, <1>3, <1>6, <2>1, NextStepTypes DEF Steps, Waits
  <2>3. RequestsShow' /\ KidnapRecord' /\ KidnapPassIsRecovery'
    BY <1>2, <2>1, <2>2 DEF Wait, RequestsShow, KidnapRecord, DriverInv, DriverTypeOK,
       KidnapPassIsRecovery
  <2> QED
    BY <1>1, <2>2, <2>3 DEF DriverInv
<1>10. CASE statusSeen' \in Target /\ AfterRecovering(TRUE)
  <2>1. /\ step = "recovering" /\ countBefore' = countBefore /\ leftUsable' = leftUsable
        /\ Wait("measuring")
    BY <1>10 DEF AfterRecovering
  <2>2. DriverTypeOK' /\ LocalsTypeOK'
    BY <1>1, <1>2, <1>3, <1>6, <2>1, NextStepTypes DEF Steps
  <2>3. Len(usableAt) = 1 /\ usableAt[1] = countBefore
    BY <2>1 DEF DriverInv, KidnapRecord
  <2>4. Len(usableAt') = 2 /\ usableAt'[1] = countBefore /\ usableAt'[2] = Known'
    <3>1. usableAt' = Append(usableAt, Known')
      BY <1>5, <1>10, <2>1
    <3>2. ASSUME NEW s \in Seq(Nat), NEW n \in Nat, Len(s) = 1
          PROVE  /\ Len(Append(s, n)) = 2
                 /\ Append(s, n)[1] = s[1] /\ Append(s, n)[2] = n
      <4>1. Len(Append(s, n)) = Len(s) + 1
        OBVIOUS
      <4>2. \A i \in 1..Len(s) : Append(s, n)[i] = s[i]
        OBVIOUS
      <4>3. Append(s, n)[Len(s) + 1] = n
        OBVIOUS
      <4> QED
        BY <3>2, <4>1, <4>2, <4>3
    <3> QED
      BY <1>3, <1>4, <2>3, <3>1, <3>2
  <2>5. RequestsShow' /\ KidnapRecord' /\ KidnapPassIsRecovery'
    BY <1>1, <2>1, <2>2, <2>4 DEF Wait, RequestsShow, KidnapRecord,
       KidnapPassIsRecovery, DriverTypeOK
  <2> QED
    BY <1>1, <2>2, <2>5 DEF DriverInv
<1>11. CASE statusSeen' \notin Target /\ Watchdog
  <2>1. UNCHANGED <<step, leftUsable, countBefore, verdict, waited>>
    BY <1>11 DEF Watchdog, report
  <2>2. stalledFor' \in 0..StallTimeout \cup {None}
    BY <1>11 DEF Watchdog, DriverInv, DriverTypeOK
  <2>3. DriverTypeOK' /\ LocalsTypeOK'
    BY <1>1, <1>2, <1>3, <1>6, <2>1, <2>2
       DEF DriverInv, DriverTypeOK, LocalsTypeOK, ReadTypeOK, world
  <2>4. usableAt' = usableAt
    BY <1>5, <1>11
  <2>5. RequestsShow' /\ KidnapRecord' /\ KidnapPassIsRecovery'
    BY <1>1, <1>2, <2>1, <2>4 DEF DriverInv, RequestsShow, KidnapRecord,
       KidnapPassIsRecovery, Waits
  <2> QED
    BY <1>1, <2>3, <2>5 DEF DriverInv
<1> QED
  BY <1>3, <1>7, <1>8, <1>9, <1>10, <1>11
     DEF WaitSpin, AfterWait, AfterConverging, AfterRecovering, Finish

LEMMA WaitTimesOutKeeps ==
    ASSUME DriverInv, WaitTimesOut
    PROVE  DriverInv'
<1>1. step \in Waits /\ step # "done"
  BY DEF WaitTimesOut, Waits
<1>2. CASE Finish(FALSE)
  BY <1>1, <1>2, FailureUnread DEF WaitTimesOut, AfterWait, AfterConverging,
     AfterRecovering, AfterDetecting, Wait, Finish
<1>3. CASE AfterDetecting(FALSE)
  <2>1. CountsInOrder' /\ RequestsShow' /\ ReadTypeOK'
    BY <1>3, NothingRead DEF WaitTimesOut, AfterDetecting, Wait
  <2>2. DriverTypeOK' /\ LocalsTypeOK'
    BY <1>1, <1>3, <2>1, NextStepTypes
       DEF WaitTimesOut, AfterDetecting, DriverInv, LocalsTypeOK, Steps, Waits
  <2>3. KidnapRecord' /\ KidnapPassIsRecovery'
    BY <1>3, <2>2 DEF WaitTimesOut, AfterDetecting, Wait, DriverInv, DriverTypeOK,
       KidnapRecord, KidnapPassIsRecovery
  <2> QED
    BY <2>1, <2>2, <2>3 DEF DriverInv
<1> QED
  BY <1>2, <1>3 DEF WaitTimesOut, AfterWait, AfterConverging, AfterRecovering

-----------------------------------------------------------------------------
(* Blocking calls and measurements *)

LEMMA TeleportKeeps ==
    ASSUME DriverInv, Teleport
    PROVE  DriverInv'
<1>1. CASE Wait("detecting")
  <2>1. CountsInOrder' /\ RequestsShow' /\ ReadTypeOK'
    BY <1>1, NothingRead DEF Teleport, Wait
  <2>2. DriverTypeOK' /\ LocalsTypeOK'
    BY <1>1, <2>1, NextStepTypes DEF Teleport, DriverInv, LocalsTypeOK, Steps, Waits
  <2>3. KidnapRecord' /\ KidnapPassIsRecovery'
    BY <1>1 DEF Teleport, Wait, DriverInv, DriverTypeOK, KidnapRecord,
       KidnapPassIsRecovery
  <2> QED
    BY <2>1, <2>2, <2>3 DEF DriverInv
<1>2. CASE Finish(FALSE)
  BY <1>2, FailureUnread DEF Teleport
<1> QED
  BY <1>1, <1>2 DEF Teleport

(* A kidnap scenario is judged on the count it has read, which is at most  *)
(* the one published with the USABLE that ended the recovery.              *)
LEMMA MeasureKeeps ==
    ASSUME DriverInv, Measure
    PROVE  DriverInv'
<1>1. PICK good \in BOOLEAN :
          /\ Finish(good)
          /\ scenario = "kidnap" /\ good => ReinitIssued
  BY DEF Measure, MeasureAccuracy, MeasureDrift, JudgeRecovery, DriverInv, LocalsTypeOK
<1>2. step' = "done" /\ (verdict' = "pass" => good)
  BY <1>1 DEF Finish
<1>3. CountsInOrder' /\ ReadTypeOK' /\ RequestsShow'
  BY <1>2, NothingRead DEF Measure
<1>4. DriverTypeOK' /\ LocalsTypeOK'
  BY <1>1, <1>3, NextStepTypes DEF Measure, DriverInv, LocalsTypeOK
<1>5. KidnapPassIsRecovery'
  <2> SUFFICES ASSUME good, scenario = "kidnap"
               PROVE  Len(usableAt) = 2 /\ usableAt[1] < usableAt[2]
    BY <1>2 DEF KidnapPassIsRecovery, Measure
  <2>1. /\ Len(usableAt) = 2 /\ usableAt[1] = countBefore
        /\ countSeen <= usableAt[2]
    BY DEF Measure, DriverInv, KidnapRecord
  <2>2. usableAt[1] \in Nat /\ usableAt[2] \in Nat /\ countSeen \in Nat
    <3>1. usableAt \in Seq(Nat) /\ countSeen \in Nat
      BY DEF DriverInv, DriverTypeOK, LocalsTypeOK
    <3> QED
      BY <2>1, <3>1
  <2>3. countSeen > countBefore
    BY <1>1 DEF ReinitIssued
  <2> QED
    BY <2>1, <2>2, <2>3
<1>6. KidnapRecord'
  BY <1>2 DEF KidnapRecord
<1> QED
  BY <1>3, <1>4, <1>5, <1>6 DEF DriverInv

LEMMA ElapseKeeps ==
    ASSUME DriverInv, Elapse
    PROVE  DriverInv'
<1>1. DriverTypeOK' /\ LocalsTypeOK'
  BY DEF Elapse, Later, DriverInv, DriverTypeOK, LocalsTypeOK, world, watcher, report
<1>2. CountsInOrder' /\ RequestsShow'
  BY NothingRead DEF Elapse
<1> QED
  BY <1>1, <1>2 DEF DriverInv, KidnapRecord, KidnapPassIsRecovery, Elapse, watcher,
     report

LEMMA StutterKeeps ==
    ASSUME DriverInv, UNCHANGED driverVars
    PROVE  DriverInv'
BY DEF DriverInv, DriverTypeOK, LocalsTypeOK, CountsInOrder, Known, RequestsShow,
   GlobalBringsRequests, KidnapRecord, KidnapPassIsRecovery, driverVars, world,
   watcher, report

LEMMA StepInv == DriverInv /\ [DriverNext]_driverVars => DriverInv'
<1> SUFFICES ASSUME DriverInv, [DriverNext]_driverVars PROVE DriverInv'
  OBVIOUS
<1>1. CASE ProbeGivesUp
  <2>1. exhausted' \in BOOLEAN /\ UNCHANGED status
    BY <1>1 DEF ProbeGivesUp, GiveUp
  <2> QED
    BY <1>1, <2>1 DEF ProbeGivesUp, DriverInv, DriverTypeOK, LocalsTypeOK,
       CountsInOrder, Known, RequestsShow, GlobalBringsRequests, KidnapRecord,
       KidnapPassIsRecovery, watcher, report
<1>2. CASE Raise
  BY <1>2, FailureUnread DEF Raise
<1>3. CASE UNCHANGED driverVars
  BY <1>3, StutterKeeps
<1> QED
  BY <1>1, <1>2, <1>3, TickKeeps, PreflightKeeps, PreflightSpinKeeps, WaitSpinKeeps,
     WaitTimesOutKeeps, TeleportKeeps, MeasureKeeps, ElapseKeeps
     DEF DriverNext, Done

LEMMA Invariance == DriverSpec => []DriverInv
<1> QED BY InitInv, StepInv, PTL DEF DriverSpec

(* The driver's state is well formed, with a queue that stays within its   *)
(* depth and a verdict exactly when it is done (verify_localization.py).   *)
THEOREM TypeCorrect == DriverSpec => []DriverTypeOK
<1>1. DriverInv => DriverTypeOK
  BY DEF DriverInv
<1> QED BY <1>1, Invariance, PTL

(* A kidnap scenario that passes has seen a recovery: the count published  *)
(* with the USABLE that counted as recovered is above the one published    *)
(* with the USABLE that counted as converged (verify_localization.py:      *)
(* 491-495), for every depth of the queue and whatever it dropped.         *)
THEOREM KidnapPassed == DriverSpec => []KidnapPassIsRecovery
<1>1. DriverInv => KidnapPassIsRecovery
  BY DEF DriverInv
<1> QED BY <1>1, Invariance, PTL

=============================================================================
