-------------------------- MODULE MapPipelineProofs --------------------------
(***************************************************************************)
(* From the batch to the active map: what a job's report stands for, for   *)
(* every bag, window and timeout; what the flood fill of its map counts,   *)
(* for every picture of every size, and that it ends; and what has been    *)
(* validated when a map becomes the active one.                            *)
(***************************************************************************)
EXTENDS MapPipeline, FiniteSetTheorems, SequenceTheorems, TLAPS

(***************************************************************************)
(* The job.  While rtabmap has work the map has changed at most MapPause   *)
(* ago, or a stamp of the change waits to be taken: a map that was quiet   *)
(* for longer is the whole of what was played, unless rtabmap stalled.     *)
(***************************************************************************)

SavedMap == [of : SUBSET Batches, upto : Nat, stalled : BOOLEAN, shared : BOOLEAN]
Result == [map : SavedMap,
           report : [verified : BOOLEAN, playOk : BOOLEAN, map : SavedMap]]

StoreTypeOK ==
    /\ disk \in [Batches -> Result] /\ volume \in [Batches -> Result]
    /\ pc # "idle" => batch \in Batches
    /\ quiet <= waited

Played == pc \in Steps \ {"idle", "settle", "play"}
Saved == pc \in {"verify", "interrupt", "terminate", "reprocess", "count", "report"}

(* The watcher's clock runs no longer than rtabmap's pause.                *)
QuietIsIdle ==
    /\ stamped => pc = "wait" /\ listening
    /\ stamps > 0 => listening
    /\ pc = "wait" /\ stamped /\ HasWork =>
          quiet <= MapPause /\ (stamps = 0 => quiet <= pause)
    /\ pc = "save" => ~HasWork

SavedIsPlayed ==
    /\ Played => (playOk => played = BagLength)
    /\ Saved => LET map == disk[batch].map
                IN  \/ map.stalled \/ map.shared
                    \/ map.of = {batch} /\ map.upto = played

(* VerifiedMapIsTheBag, of either store.                                   *)
ReportsHold(results) ==
    \A b \in Batches :
        LET report == results[b].report
        IN  report.verified /\ report.playOk
                /\ ~report.map.stalled /\ ~report.map.shared
            => report.map.of = {b} /\ report.map.upto = BagLength

JobInv ==
    /\ JobTypeOK /\ StoreTypeOK /\ QuietIsIdle /\ SavedIsPlayed
    /\ ReportsHold(disk) /\ ReportsHold(volume)

(***************************************************************************)
(* The fill.                                                               *)
(***************************************************************************)

Free == FreePixels(picture)
Found == {AreaOf(i, picture) : i \in {j \in Free : j < start}}
Done == UNION Found

(* The sizes so far are those of the areas that were found.                *)
Listed ==
    /\ sizes \in Seq(Nat)
    /\ \E area \in Bijection(DOMAIN sizes, Found) :
          \A i \in DOMAIN sizes : sizes[i] = Cardinality(area[i])

OuterInv == start \in 0..(picture.width * picture.height) /\ visited = Done /\ Listed

(* The stack holds marked pixels of the area that grows, each once; all    *)
(* other marked ones were counted, and nothing free beside them is         *)
(* unmarked.                                                               *)
InnerInv ==
    /\ start \in Free \ Done /\ start \in visited
    /\ Done \subseteq visited /\ visited \subseteq Done \cup AreaOf(start, picture)
    /\ stack \in Seq(visited \ Done)
    /\ IsInjective(stack)
    /\ size = Cardinality(visited \ (Done \cup Range(stack)))
    /\ \A i \in visited \ Range(stack), j \in Free :
          Beside(i, j, picture.width) => j \in visited
    /\ Listed

FillInv ==
    /\ at \in {"outer", "inner", "over"}
    /\ Filling => picture \in Picture
    /\ at = "outer" => OuterInv
    /\ at = "inner" => InnerInv
    /\ ComponentsAreExact

StagedMap == [fields : SUBSET Required, image : Picture \cup {NoImage}]

StagedInv == staged \in [Names -> {None} \cup StagedMap]

PipelineInv == JobInv /\ FillInv /\ StagedInv

-----------------------------------------------------------------------------
(* The job *)

LEMMA JobConstants ==
    /\ BagLength \in Nat /\ PipeCap \in Nat /\ PipeCap > 0 /\ Jobs \in Nat
    /\ MapPause \in Nat /\ Window \in Nat /\ Timeout \in Nat
    /\ MapPause < Window /\ Window < Timeout
    /\ NoBatch \notin Batches
    /\ 0 \in 0..BagLength /\ 0 \in 0..MapPause /\ 0 \in 0..PipeCap
    /\ 0 \in 0..Timeout /\ 0 \in 0..0 /\ 0 \in Nat
BY JobAssumption DEF JobAssumption

LEMMA NothingTypes ==
    NoMap \in SavedMap /\ NoReport \in [verified : BOOLEAN, playOk : BOOLEAN, map : SavedMap]
    /\ NoResult \in Result
BY DEF NoMap, NoReport, NoResult, SavedMap, Result

LEMMA JobInitInv == JobInit => JobInv
<1> SUFFICES ASSUME JobInit PROVE JobInv
  OBVIOUS
<1>1. JobTypeOK
  <2>1. 0 \in 0..Jobs /\ 0 \in 0..BagLength /\ 0 \in 0..MapPause /\ 0 \in 0..PipeCap
        /\ 0 \in 0..Timeout /\ 0 \in 0..0
    BY JobConstants
  <2> QED
    BY <2>1 DEF JobInit, JobTypeOK, Steps
<1>2. StoreTypeOK
  BY NothingTypes DEF JobInit, StoreTypeOK
<1>3. QuietIsIdle /\ SavedIsPlayed
  BY DEF JobInit, QuietIsIdle, SavedIsPlayed, Played, Saved
<1>4. ReportsHold(disk) /\ ReportsHold(volume)
  BY DEF JobInit, ReportsHold, NoResult, NoReport
<1> QED
  BY <1>1, <1>2, <1>3, <1>4 DEF JobInv

LEMMA JobTypesKept ==
    ASSUME JobInv, JobNext
    PROVE  JobTypeOK'
<1>1. CASE \E b \in Batches : Start(b)
  BY <1>1, JobConstants DEF Start, Goto, JobInv, JobTypeOK, Steps, mapper, wait
<1>2. CASE StartWatcher
  BY <1>2 DEF StartWatcher, Goto, JobInv, JobTypeOK, Steps, mapper, wait, locals
<1>3. CASE WatcherConnects
  BY <1>3 DEF WatcherConnects, JobInv, JobTypeOK, mapper
<1>4. CASE PlayMessage
  BY <1>4, JobConstants DEF PlayMessage, JobInv, JobTypeOK, StoreTypeOK, mapper, wait
<1>5. CASE PlayEnds
  BY <1>5 DEF PlayEnds, Goto, JobInv, JobTypeOK, Steps, mapper, wait
<1>6. CASE WaitTimesOut
  <2>1. /\ pc' \in Steps /\ listening' = FALSE /\ stamps' = 0 /\ stamped' = FALSE
        /\ quiet' = 0 /\ waited' = 0
        /\ UNCHANGED <<batch, jobs, played, playOk, mapped, pause, lines, orphans>>
    BY <1>6 DEF WaitTimesOut, WaitOver, Goto, Steps, mapper
  <2> QED
    BY <2>1, JobConstants DEF JobInv, JobTypeOK
<1>7. CASE WaitStable
  <2>1. /\ pc' \in Steps /\ listening' = FALSE /\ stamps' = 0 /\ stamped' = FALSE
        /\ quiet' = 0 /\ waited' = 0
        /\ UNCHANGED <<batch, jobs, played, playOk, mapped, pause, lines, orphans>>
    BY <1>7 DEF WaitStable, WaitOver, Goto, Steps, mapper
  <2> QED
    BY <2>1, JobConstants DEF JobInv, JobTypeOK
<1>8. CASE TakeStamp
  BY <1>8, JobConstants DEF TakeStamp, JobInv, JobTypeOK, mapper
<1>9. CASE WaitElapse
  BY <1>9, JobConstants DEF WaitElapse, JobInv, JobTypeOK, StoreTypeOK
<1>10. CASE SaveMap
  BY <1>10 DEF SaveMap, Goto, JobInv, JobTypeOK, Steps, mapper, wait, locals
<1>11. CASE VerifyMap \/ TerminateDecompress \/ Reprocess
  BY <1>11 DEF VerifyMap, TerminateDecompress, Reprocess, Goto, JobInv, JobTypeOK,
     Steps, mapper, wait, locals
<1>12. CASE Interrupt
  BY <1>12, JobConstants DEF Interrupt, Goto, JobInv, JobTypeOK, Steps, wait
<1>13. CASE Fail
  <2>1. /\ pc' = "idle" /\ batch' = NoBatch /\ played' = 0 /\ playOk' = TRUE
        /\ mapped' = 0 /\ pause' = 0 /\ lines' = 0 /\ listening' = FALSE
        /\ stamps' = 0 /\ stamped' = FALSE /\ quiet' = 0 /\ waited' = 0
    BY <1>13 DEF Fail, JobOver, WaitOver, Goto
  <2>2. orphans' \subseteq Batches /\ jobs' = jobs
    BY <1>13 DEF Fail, JobInv, JobTypeOK, StoreTypeOK
  <2> QED
    BY <2>1, <2>2, JobConstants DEF JobInv, JobTypeOK, Steps
<1>14. CASE CountLinks
  <2>1. CASE JobOver
    BY <1>14, <2>1, JobConstants DEF CountLinks, JobOver, WaitOver, Goto, JobInv,
       JobTypeOK, Steps
  <2>2. CASE Goto("report") /\ UNCHANGED locals
    BY <1>14, <2>2 DEF CountLinks, Goto, JobInv, JobTypeOK, Steps, locals, mapper, wait
  <2> QED
    BY <1>14, <2>1, <2>2 DEF CountLinks
<1>15. CASE WriteReport
  <2>1. /\ pc' = "idle" /\ batch' = NoBatch /\ played' = 0 /\ playOk' = TRUE
        /\ mapped' = 0 /\ pause' = 0 /\ lines' = 0 /\ listening' = FALSE
        /\ stamps' = 0 /\ stamped' = FALSE /\ quiet' = 0 /\ waited' = 0
    BY <1>15 DEF WriteReport, JobOver, WaitOver, Goto
  <2>2. orphans' \subseteq Batches /\ jobs' = jobs
    BY <1>15 DEF WriteReport, JobInv, JobTypeOK, StoreTypeOK
  <2> QED
    BY <2>1, <2>2, JobConstants DEF JobInv, JobTypeOK, Steps
<1>16. CASE NewContainer
  <2>1. /\ pc' = "idle" /\ batch' = NoBatch /\ played' = 0 /\ playOk' = TRUE
        /\ mapped' = 0 /\ pause' = 0 /\ lines' = 0 /\ listening' = FALSE
        /\ stamps' = 0 /\ stamped' = FALSE /\ quiet' = 0 /\ waited' = 0
    BY <1>16 DEF NewContainer, JobOver, WaitOver, Goto
  <2>2. orphans' \subseteq Batches /\ jobs' = jobs
    BY <1>16 DEF NewContainer, JobInv, JobTypeOK, StoreTypeOK
  <2> QED
    BY <2>1, <2>2, JobConstants DEF JobInv, JobTypeOK, Steps
<1>17. CASE MapUpdate
  BY <1>17, JobConstants DEF MapUpdate, HasWork, Stalled, JobInv, JobTypeOK
<1>18. CASE OrphanUpdate
  BY <1>18 DEF OrphanUpdate, JobInv, JobTypeOK, mapper
<1> QED
  BY <1>1, <1>2, <1>3, <1>4, <1>5, <1>6, <1>7, <1>8, <1>9, <1>10, <1>11, <1>12, <1>13,
     <1>14, <1>15, <1>16, <1>17, <1>18 DEF JobNext

LEMMA StoreTypesKept ==
    ASSUME JobInv, JobNext
    PROVE  StoreTypeOK'
<1>1. CASE \E b \in Batches : Start(b)
  BY <1>1 DEF Start, JobInv, StoreTypeOK, store, wait
<1>2. CASE StartWatcher
  BY <1>2 DEF StartWatcher, JobInv, StoreTypeOK, store, wait, locals
<1>3. CASE WatcherConnects
  BY <1>3 DEF WatcherConnects, JobInv, StoreTypeOK, store
<1>4. CASE PlayMessage
  BY <1>4 DEF PlayMessage, JobInv, StoreTypeOK, store, wait
<1>5. CASE PlayEnds
  BY <1>5 DEF PlayEnds, JobInv, StoreTypeOK, store, wait
<1>6. CASE WaitTimesOut
  BY <1>6 DEF WaitTimesOut, WaitOver, JobInv, StoreTypeOK, store
<1>7. CASE WaitStable
  BY <1>7 DEF WaitStable, WaitOver, JobInv, StoreTypeOK, store
<1>8. CASE TakeStamp
  BY <1>8 DEF TakeStamp, JobInv, JobTypeOK, StoreTypeOK, store
<1>9. CASE WaitElapse
  BY <1>9 DEF WaitElapse, JobInv, JobTypeOK, StoreTypeOK, store
<1>10. CASE SaveMap
  <2>1. batch \in Batches /\ disk \in [Batches -> Result] /\ mapped \in Nat
    BY <1>10 DEF SaveMap, JobInv, JobTypeOK, StoreTypeOK
  <2>2. CASE disk' = disk
    BY <1>10, <2>2 DEF SaveMap, JobInv, StoreTypeOK, locals, wait
  <2>3. ASSUME NEW map \in SavedMap, disk' = [disk EXCEPT ![batch].map = map]
        PROVE  disk' \in [Batches -> Result]
    BY <2>1, <2>3 DEF Result
  <2>4. disk' = disk \/ \E map \in SavedMap : disk' = [disk EXCEPT ![batch].map = map]
    <3>1. [of |-> {batch}, upto |-> mapped, stalled |-> Stalled,
           shared |-> orphans # {}] \in SavedMap
      BY <2>1 DEF SavedMap, Stalled
    <3>2. [of |-> orphans, upto |-> 0, stalled |-> FALSE, shared |-> TRUE] \in SavedMap
      BY JobConstants DEF SavedMap, JobInv, JobTypeOK
    <3> QED
      BY <1>10, <3>1, <3>2 DEF SaveMap
  <2> QED
    BY <1>10, <2>3, <2>4 DEF SaveMap, JobInv, StoreTypeOK, locals, wait
<1>11. CASE VerifyMap \/ TerminateDecompress \/ Reprocess
  BY <1>11 DEF VerifyMap, TerminateDecompress, Reprocess, JobInv, StoreTypeOK, store,
     wait, locals
<1>12. CASE Interrupt
  BY <1>12 DEF Interrupt, JobInv, StoreTypeOK, store, wait
<1>13. CASE Fail
  <2>1. batch \in Batches /\ disk \in [Batches -> Result]
    BY <1>13 DEF Fail, JobInv, StoreTypeOK
  <2>2. disk' \in [Batches -> Result]
    BY <1>13, <2>1, NothingTypes DEF Fail, Result
  <2> QED
    BY <1>13, <2>2 DEF Fail, JobOver, WaitOver, Goto, StoreTypeOK
<1>14. CASE CountLinks
  BY <1>14 DEF CountLinks, JobOver, WaitOver, Goto, JobInv, StoreTypeOK, store, wait,
     locals
<1>15. CASE WriteReport
  <2>1. /\ batch \in Batches /\ disk \in [Batches -> Result] /\ playOk \in BOOLEAN
    BY <1>15 DEF WriteReport, JobInv, JobTypeOK, StoreTypeOK
  <2>2. disk' \in [Batches -> Result]
    BY <1>15, <2>1 DEF WriteReport, Result
  <2> QED
    BY <1>15, <2>2 DEF WriteReport, JobOver, WaitOver, Goto, StoreTypeOK
<1>16. CASE NewContainer
  BY <1>16 DEF NewContainer, JobOver, WaitOver, Goto, JobInv, StoreTypeOK
<1>17. CASE MapUpdate
  BY <1>17 DEF MapUpdate, JobInv, StoreTypeOK, store
<1>18. CASE OrphanUpdate
  BY <1>18 DEF OrphanUpdate, JobInv, StoreTypeOK, store
<1> QED
  BY <1>1, <1>2, <1>3, <1>4, <1>5, <1>6, <1>7, <1>8, <1>9, <1>10, <1>11, <1>12, <1>13,
     <1>14, <1>15, <1>16, <1>17, <1>18 DEF JobNext

LEMMA QuietKept ==
    ASSUME JobInv, JobNext
    PROVE  QuietIsIdle'
<1>1. CASE \E b \in Batches : Start(b)
  BY <1>1 DEF Start, Goto, JobInv, QuietIsIdle, wait
<1>2. CASE StartWatcher
  BY <1>2 DEF StartWatcher, Goto, JobInv, QuietIsIdle, wait, locals
<1>3. CASE WatcherConnects
  BY <1>3 DEF WatcherConnects, JobInv, QuietIsIdle
<1>4. CASE PlayMessage
  BY <1>4 DEF PlayMessage, JobInv, QuietIsIdle, wait
<1>5. CASE PlayEnds
  BY <1>5 DEF PlayEnds, Goto, JobInv, QuietIsIdle, wait
<1>6. CASE WaitTimesOut
  BY <1>6 DEF WaitTimesOut, WaitOver, Goto, QuietIsIdle
<1>7. CASE WaitStable
  <2>1. ~HasWork
    BY <1>7, JobConstants DEF WaitStable, Stable, JobInv, JobTypeOK, QuietIsIdle
  <2> QED
    BY <1>7, <2>1 DEF WaitStable, WaitOver, QuietIsIdle, HasWork, Stalled, mapper
<1>8. CASE TakeStamp
  <2>1. quiet' = 0 /\ pc = "wait" /\ UNCHANGED <<pc, listening, pause>>
    BY <1>8 DEF TakeStamp, mapper
  <2>2. listening
    BY <1>8 DEF TakeStamp, JobInv, QuietIsIdle
  <2>3. pause \in Nat
    BY JobConstants DEF JobInv, JobTypeOK
  <2> QED
    BY <2>1, <2>2, <2>3, JobConstants DEF QuietIsIdle
<1>9. CASE WaitElapse
  BY <1>9, JobConstants DEF WaitElapse, HasWork, Stalled, JobInv, JobTypeOK, QuietIsIdle
<1>10. CASE SaveMap
  BY <1>10 DEF SaveMap, Goto, JobInv, QuietIsIdle, wait, locals
<1>11. CASE VerifyMap \/ TerminateDecompress \/ Reprocess
  BY <1>11 DEF VerifyMap, TerminateDecompress, Reprocess, Goto, JobInv, QuietIsIdle,
     wait, locals
<1>12. CASE Interrupt
  BY <1>12 DEF Interrupt, Goto, JobInv, QuietIsIdle, wait
<1>13. CASE Fail
  BY <1>13 DEF Fail, JobOver, WaitOver, Goto, QuietIsIdle
<1>14. CASE CountLinks
  BY <1>14 DEF CountLinks, JobOver, WaitOver, Goto, JobInv, QuietIsIdle, wait, locals
<1>15. CASE WriteReport
  BY <1>15 DEF WriteReport, JobOver, WaitOver, Goto, QuietIsIdle
<1>16. CASE NewContainer
  BY <1>16 DEF NewContainer, JobOver, WaitOver, Goto, QuietIsIdle
<1>17. CASE MapUpdate
  BY <1>17 DEF MapUpdate, JobInv, JobTypeOK, QuietIsIdle
<1>18. CASE OrphanUpdate
  BY <1>18 DEF OrphanUpdate, JobInv, QuietIsIdle, HasWork, Stalled, mapper
<1> QED
  BY <1>1, <1>2, <1>3, <1>4, <1>5, <1>6, <1>7, <1>8, <1>9, <1>10, <1>11, <1>12, <1>13,
     <1>14, <1>15, <1>16, <1>17, <1>18 DEF JobNext

LEMMA SavedKept ==
    ASSUME JobInv, JobNext
    PROVE  SavedIsPlayed'
<1>1. CASE \E b \in Batches : Start(b)
  BY <1>1 DEF Start, Goto, SavedIsPlayed, Played, Saved
<1>2. CASE StartWatcher
  BY <1>2 DEF StartWatcher, Goto, SavedIsPlayed, Played, Saved
<1>3. CASE WatcherConnects
  BY <1>3 DEF WatcherConnects, JobInv, SavedIsPlayed, Played, Saved
<1>4. CASE PlayMessage
  BY <1>4 DEF PlayMessage, SavedIsPlayed, Played, Saved
<1>5. CASE PlayEnds
  BY <1>5 DEF PlayEnds, Goto, SavedIsPlayed, Saved
<1>6. CASE WaitTimesOut
  BY <1>6 DEF WaitTimesOut, Goto, JobInv, JobTypeOK, SavedIsPlayed, Played, Saved
<1>7. CASE WaitStable
  BY <1>7 DEF WaitStable, Goto, JobInv, JobTypeOK, SavedIsPlayed, Played, Saved
<1>8. CASE TakeStamp
  BY <1>8 DEF TakeStamp, JobInv, SavedIsPlayed, Played, Saved
<1>9. CASE WaitElapse
  BY <1>9 DEF WaitElapse, JobInv, SavedIsPlayed, Played, Saved
<1>10. CASE SaveMap
  <2>1. CASE disk' = disk /\ pc' = "fail"
    BY <1>10, <2>1 DEF SaveMap, JobInv, SavedIsPlayed, Played, Saved, Steps, locals
  <2>2. ASSUME NEW map, pc' = "verify", disk' = [disk EXCEPT ![batch].map = map],
               \/ map.shared
               \/ map.of = {batch} /\ map.upto = mapped /\ map.stalled = Stalled
        PROVE  SavedIsPlayed'
    <3>1. disk'[batch].map = map
      BY <1>10, <2>2 DEF SaveMap, JobInv, StoreTypeOK
    <3>2. Stalled \/ mapped = played
      BY <1>10 DEF SaveMap, JobInv, JobTypeOK, QuietIsIdle, HasWork
    <3> QED
      BY <1>10, <2>2, <3>1, <3>2 DEF SaveMap, JobInv, SavedIsPlayed, Played, Steps,
         locals
  <2> QED
    BY <1>10, <2>1, <2>2 DEF SaveMap, Goto
<1>11. CASE VerifyMap \/ TerminateDecompress \/ Reprocess
  BY <1>11 DEF VerifyMap, TerminateDecompress, Reprocess, JobInv, JobTypeOK,
     SavedIsPlayed, Played, Saved, store, locals
<1>12. CASE Interrupt
  BY <1>12 DEF Interrupt, JobInv, JobTypeOK, SavedIsPlayed, Played, Saved, store
<1>13. CASE Fail
  BY <1>13 DEF Fail, JobOver, Goto, SavedIsPlayed, Played, Saved
<1>14. CASE CountLinks
  BY <1>14 DEF CountLinks, JobOver, Goto, JobInv, JobTypeOK, SavedIsPlayed, Played,
     Saved, store, locals
<1>15. CASE WriteReport
  BY <1>15 DEF WriteReport, JobOver, Goto, SavedIsPlayed, Played, Saved
<1>16. CASE NewContainer
  BY <1>16 DEF NewContainer, JobOver, Goto, SavedIsPlayed, Played, Saved
<1>17. CASE MapUpdate
  BY <1>17 DEF MapUpdate, JobInv, SavedIsPlayed, Played, Saved, store
<1>18. CASE OrphanUpdate
  BY <1>18 DEF OrphanUpdate, JobInv, SavedIsPlayed, Played, Saved, store
<1> QED
  BY <1>1, <1>2, <1>3, <1>4, <1>5, <1>6, <1>7, <1>8, <1>9, <1>10, <1>11, <1>12, <1>13,
     <1>14, <1>15, <1>16, <1>17, <1>18 DEF JobNext

LEMMA ReportsKept ==
    ASSUME JobInv, JobNext
    PROVE  ReportsHold(disk)' /\ ReportsHold(volume)'
<1>1. CASE \E b \in Batches : Start(b)
  BY <1>1 DEF Start, JobInv, store
<1>2. CASE StartWatcher
  BY <1>2 DEF StartWatcher, JobInv, store
<1>3. CASE WatcherConnects
  BY <1>3 DEF WatcherConnects, JobInv, store
<1>4. CASE PlayMessage
  BY <1>4 DEF PlayMessage, JobInv, store
<1>5. CASE PlayEnds
  BY <1>5 DEF PlayEnds, JobInv, store
<1>6. CASE WaitTimesOut
  BY <1>6 DEF WaitTimesOut, JobInv, store
<1>7. CASE WaitStable
  BY <1>7 DEF WaitStable, JobInv, store
<1>8. CASE TakeStamp
  BY <1>8 DEF TakeStamp, JobInv, store
<1>9. CASE WaitElapse
  BY <1>9 DEF WaitElapse, JobInv, store
<1>10. CASE SaveMap
  <2>1. ASSUME NEW map, disk' = [disk EXCEPT ![batch].map = map]
        PROVE  ReportsHold(disk')
    <3>1. \A b \in Batches : disk'[b].report = disk[b].report
      BY <2>1 DEF JobInv, StoreTypeOK, Result
    <3> QED
      BY <3>1 DEF JobInv, ReportsHold
  <2>2. disk' = disk => ReportsHold(disk')
    BY DEF JobInv
  <2>3. ReportsHold(disk') /\ volume' = volume
    BY <1>10, <2>1, <2>2 DEF SaveMap
  <2> QED
    BY <2>3 DEF JobInv, ReportsHold
<1>11. CASE VerifyMap \/ TerminateDecompress \/ Reprocess
  BY <1>11 DEF VerifyMap, TerminateDecompress, Reprocess, JobInv, store
<1>12. CASE Interrupt
  BY <1>12 DEF Interrupt, JobInv, store
<1>13. CASE Fail
  <2>1. \A b \in Batches : disk'[b].report = disk[b].report \/ ~disk'[b].report.verified
    BY <1>13 DEF Fail, NoReport
  <2>2. ReportsHold(disk')
    BY <2>1 DEF JobInv, ReportsHold
  <2> QED
    BY <1>13, <2>2 DEF Fail, ReportsHold
<1>14. CASE CountLinks
  BY <1>14 DEF CountLinks, JobInv, store
<1>15. CASE WriteReport
  <2> DEFINE report == [verified |-> TRUE, playOk |-> playOk, map |-> disk[batch].map]
  <2>1. batch \in Batches /\ disk \in [Batches -> Result]
    BY <1>15 DEF WriteReport, JobInv, StoreTypeOK
  <2>2. /\ \A b \in Batches \ {batch} : disk'[b] = disk[b]
        /\ disk'[batch].report = report
    BY <1>15, <2>1 DEF WriteReport, Result
  <2>3. playOk /\ ~report.map.stalled /\ ~report.map.shared
            => report.map.of = {batch} /\ report.map.upto = BagLength
    BY <1>15 DEF WriteReport, JobInv, SavedIsPlayed, Played, Saved, Steps
  <2>4. ReportsHold(disk')
    BY <2>2, <2>3 DEF JobInv, ReportsHold
  <2> QED
    BY <1>15, <2>4 DEF WriteReport, ReportsHold
<1>16. CASE NewContainer
  BY <1>16 DEF NewContainer, JobInv
<1>17. CASE MapUpdate
  BY <1>17 DEF MapUpdate, JobInv, store
<1>18. CASE OrphanUpdate
  BY <1>18 DEF OrphanUpdate, JobInv, store
<1> QED
  BY <1>1, <1>2, <1>3, <1>4, <1>5, <1>6, <1>7, <1>8, <1>9, <1>10, <1>11, <1>12, <1>13,
     <1>14, <1>15, <1>16, <1>17, <1>18 DEF JobNext

LEMMA JobStep ==
    ASSUME JobInv, [JobNext]_jobVars
    PROVE  JobInv'
<1>1. CASE JobNext
  BY <1>1, JobTypesKept, StoreTypesKept, QuietKept, SavedKept, ReportsKept DEF JobInv
<1>2. CASE UNCHANGED jobVars
  <2>1. UNCHANGED <<JobTypeOK, StoreTypeOK, QuietIsIdle, SavedIsPlayed>>
    BY <1>2 DEF JobTypeOK, StoreTypeOK, QuietIsIdle, HasWork, Stalled, SavedIsPlayed,
       Played, Saved, jobVars, mapper, wait, store
  <2>2. ReportsHold(disk)' /\ ReportsHold(volume)'
    BY <1>2 DEF JobInv, ReportsHold, jobVars, store
  <2> QED
    BY <2>1, <2>2 DEF JobInv
<1> QED
  BY <1>1, <1>2

LEMMA JobInvariance == PipelineSpec => []JobInv
<1>1. PipelineInit => JobInv
  BY JobInitInv DEF PipelineInit
<1>2. JobInv /\ [PipelineNext]_pipelineVars => JobInv'
  <2>1. [PipelineNext]_pipelineVars => [JobNext]_jobVars
    BY DEF PipelineNext, Fetch, Validate, Activate, Finished, pipelineVars
  <2> QED
    BY <2>1, JobStep
<1> QED
  BY <1>1, <1>2, PTL DEF PipelineSpec

(* The job's state is well formed: rtabmap never maps more than was        *)
(* played, nor prints more than its pipe holds, and the wait's clocks stay *)
(* within its timeout (modal_app.py:259-302, 373).                         *)
THEOREM JobTypeCorrect == PipelineSpec => []JobTypeOK
<1>1. JobInv => JobTypeOK
  BY DEF JobInv
<1> QED
  BY <1>1, JobInvariance, PTL

(* A committed report that says verified and played to the end stands for  *)
(* a map of that batch alone and of all of it, unless rtabmap had stalled  *)
(* or another one was running (modal_app.py:348-520).                      *)
THEOREM VerifiedIsWhole == PipelineSpec => []VerifiedMapIsTheBag
<1>1. JobInv => VerifiedMapIsTheBag
  BY DEF JobInv, ReportsHold, VerifiedMapIsTheBag
<1> QED
  BY <1>1, JobInvariance, PTL

-----------------------------------------------------------------------------
(* The grid *)

(* A row and a column determine a number, and it them.                     *)
LEMMA DivisionIsUnique ==
    ASSUME NEW w \in Nat \ {0}, NEW y \in Int, NEW x \in 0..(w - 1)
    PROVE  (w * y + x) \div w = y /\ (w * y + x) % w = x
<1> DEFINE a == w * y + x
           q == a \div w
           r == a % w
<1>1. w * y \in Int
  OBVIOUS
<1>2. a \in Int /\ q \in Int /\ r \in 0..(w - 1) /\ a = w * q + r
  <2>1. a \in Int
    BY <1>1
  <2> HIDE DEF a
  <2> QED
    BY <2>1
<1>3. w * q \in Int /\ w * q + r = w * y + x
  <2> HIDE DEF q, r
  <2> QED
    BY <1>2
<1>4. w * (q - y) \in Int /\ w * (q - y) = x - r
  <2> HIDE DEF q, r, a
  <2>1. w * (q - y) = w * q - w * y
    BY <1>2
  <2> QED
    BY <1>1, <1>2, <1>3, <2>1
<1>5. q - y = 0
  <2> HIDE DEF q, r, a
  <2>1. x - r < w /\ x - r > -w
    BY <1>2
  <2>2. q - y >= 1 => w * (q - y) >= w
    <3>1. q - y >= 1 => w * (q - y) = w + w * (q - y - 1) /\ w * (q - y - 1) >= 0
      BY <1>2
    <3> QED
      BY <1>2, <3>1
  <2>3. q - y <= -1 => w * (q - y) <= -w
    <3>1. q - y <= -1 => w * (q - y) = -w - w * (y - q - 1) /\ w * (y - q - 1) >= 0
      BY <1>2
    <3> QED
      BY <1>2, <3>1
  <2> QED
    BY <1>2, <1>4, <2>1, <2>2, <2>3
<1> QED
  <2> HIDE DEF q, r
  <2>1. q = y
    BY <1>2, <1>5
  <2>2. r = x
    BY <1>2, <1>3, <2>1
  <2> QED
    BY <2>1, <2>2 DEF q, r

LEMMA CellIsIndex ==
    ASSUME NEW w \in Nat \ {0}, NEW h \in Nat, NEW y \in 0..(h - 1), NEW x \in 0..(w - 1)
    PROVE  w * y + x \in 0..(w * h - 1)
<1>1. w * y \in Nat /\ w * h \in Nat /\ w * (h - 1 - y) \in Nat
  OBVIOUS
<1>2. w * h = w * y + w + w * (h - 1 - y)
  OBVIOUS
<1> QED
  BY <1>1, <1>2

LEMMA IndexIsCell ==
    ASSUME NEW w \in Nat \ {0}, NEW h \in Nat, NEW i \in 0..(w * h - 1)
    PROVE  /\ i % w \in 0..(w - 1) /\ i \div w \in 0..(h - 1)
           /\ i = w * (i \div w) + (i % w)
<1> DEFINE y == i \div w
           x == i % w
<1>1. w * h \in Nat /\ i \in Nat
  OBVIOUS
<1>2. x \in 0..(w - 1) /\ y \in Int /\ i = w * y + x
  BY <1>1
<1> HIDE DEF x, y
<1>3. y >= 0
  <2>1. y <= -1 => w * y = -w - w * (-1 - y) /\ w * (-1 - y) \in Nat
    BY <1>2
  <2> QED
    BY <1>1, <1>2, <2>1
<1>4. y < h
  <2>1. y >= h => w * y = w * h + w * (y - h) /\ w * (y - h) \in Nat
    BY <1>2
  <2> QED
    BY <1>1, <1>2, <2>1
<1> QED
  BY <1>2, <1>3, <1>4 DEF x, y

LEMMA CellAt ==
    ASSUME NEW w \in Nat \ {0}, NEW h \in Nat, NEW y \in 0..(h - 1), NEW x \in 0..(w - 1),
           NEW i, i = w * y + x
    PROVE  i \in 0..(w * h - 1) /\ i \div w = y /\ i % w = x
BY CellIsIndex, DivisionIsUnique

(* The four pixels the code looks at, with what it tests before each, are  *)
(* those beside a pixel on the grid.                                       *)
IsLookedAt(i, j, w, h) ==
    \/ i % w > 0 /\ j = i - 1
    \/ i % w < w - 1 /\ j = i + 1
    \/ i \div w > 0 /\ j = i - w
    \/ i \div w < h - 1 /\ j = i + w

LEMMA LookedAtIsBeside ==
    ASSUME NEW w \in Nat \ {0}, NEW h \in Nat, NEW i \in 0..(w * h - 1), NEW j \in Int,
           IsLookedAt(i, j, w, h)
    PROVE  j \in 0..(w * h - 1) /\ Beside(i, j, w)
<1> DEFINE x == i % w
           y == i \div w
<1>1. x \in 0..(w - 1) /\ y \in 0..(h - 1) /\ i = w * y + x
  BY IndexIsCell
<1>2. i \in Int /\ w * y \in Int
  BY <1>1
<1> HIDE DEF x, y
<1>3. CASE x > 0 /\ j = i - 1
  <2>1. PICK u \in 0..(w - 1) : u = x - 1
    BY <1>1, <1>3
  <2>2. j = w * y + u
    BY <1>1, <1>2, <1>3, <2>1
  <2>3. j \in 0..(w * h - 1) /\ j \div w = y
    BY <1>1, <2>1, <2>2, CellAt
  <2> QED
    BY <1>2, <1>3, <2>3 DEF Beside, y
<1>4. CASE x < w - 1 /\ j = i + 1
  <2>1. x + 1 \in 0..(w - 1) /\ j = w * y + (x + 1)
    BY <1>1, <1>2, <1>4
  <2>2. j \in 0..(w * h - 1) /\ j \div w = y
    BY <1>1, <2>1, CellAt
  <2> QED
    BY <1>2, <1>4, <2>2 DEF Beside, y
<1>5. CASE y > 0 /\ j = i - w
  <2>1. PICK v \in 0..(h - 1) : v = y - 1
    BY <1>1, <1>5
  <2>2. j = w * v + x
    <3>1. w * v = w * y - w
      BY <1>1, <2>1
    <3> QED
      BY <1>1, <1>2, <1>5, <3>1
  <2>3. j \in 0..(w * h - 1) /\ j \div w = v /\ j % w = x
    BY <1>1, <2>1, <2>2, CellAt
  <2> QED
    BY <1>2, <1>5, <2>3 DEF Beside, x
<1>6. CASE y < h - 1 /\ j = i + w
  <2>1. y + 1 \in 0..(h - 1) /\ j = w * (y + 1) + x
    <3>1. w * (y + 1) = w * y + w
      BY <1>1
    <3> QED
      BY <1>1, <1>2, <1>6, <3>1
  <2>2. j \in 0..(w * h - 1) /\ j % w = x
    BY <1>1, <2>1, CellAt
  <2> QED
    BY <1>2, <1>6, <2>2 DEF Beside, x
<1> QED
  BY <1>3, <1>4, <1>5, <1>6 DEF IsLookedAt, x, y

LEMMA BesideIsLookedAt ==
    ASSUME NEW w \in Nat \ {0}, NEW h \in Nat, NEW i \in 0..(w * h - 1),
           NEW j \in 0..(w * h - 1), Beside(i, j, w)
    PROVE  IsLookedAt(i, j, w, h)
<1> DEFINE x == i % w
           y == i \div w
           u == j % w
           v == j \div w
<1>1. x \in 0..(w - 1) /\ y \in 0..(h - 1) /\ i = w * y + x
  BY IndexIsCell
<1>2. u \in 0..(w - 1) /\ v \in 0..(h - 1) /\ j = w * v + u
  BY IndexIsCell
<1>3. i \in Int /\ j \in Int /\ w * y \in Int /\ w * v \in Int
  BY <1>1, <1>2
<1> HIDE DEF x, y, u, v
<1>4. CASE y = v /\ (i - j = 1 \/ j - i = 1)
  <2>1. (j = i - 1 /\ u = x - 1) \/ (j = i + 1 /\ u = x + 1)
    BY <1>1, <1>2, <1>3, <1>4
  <2>2. (j = i - 1 /\ x > 0) \/ (j = i + 1 /\ x < w - 1)
    BY <1>1, <1>2, <2>1
  <2> QED
    BY <2>2 DEF IsLookedAt, x
<1>5. CASE x = u /\ (i - j = w \/ j - i = w)
  <2>1. w * y - w * v = w \/ w * v - w * y = w
    BY <1>1, <1>2, <1>3, <1>5
  <2>2. y > v \/ v > y
    <3>1. y = v => w * y - w * v = 0
      BY <1>3
    <3> QED
      BY <1>1, <1>2, <1>3, <2>1, <3>1
  <2>3. y > v => i >= j
    <3>1. y > v => w * y = w * v + w * (y - v) /\ w * (y - v) \in Nat
      BY <1>1, <1>2
    <3> QED
      BY <1>1, <1>2, <1>3, <1>5, <3>1
  <2>4. v > y => j >= i
    <3>1. v > y => w * v = w * y + w * (v - y) /\ w * (v - y) \in Nat
      BY <1>1, <1>2
    <3> QED
      BY <1>1, <1>2, <1>3, <1>5, <3>1
  <2>5. (j = i - w /\ y > 0) \/ (j = i + w /\ y < h - 1)
    BY <1>1, <1>5
  <2> QED
    BY <2>5 DEF IsLookedAt, y
<1> QED
  BY <1>4, <1>5 DEF Beside, x, y, u, v

-----------------------------------------------------------------------------
(* The areas *)

LEMMA PixelsAreFinite ==
    ASSUME NEW image \in Picture
    PROVE  /\ image.width \in Nat \ {0} /\ image.height \in Nat \ {0}
           /\ image.width * image.height \in Nat
           /\ Indices(image) \subseteq Nat
           /\ FreePixels(image) \subseteq Indices(image)
           /\ IsFiniteSet(FreePixels(image))
<1>1. image.width \in Nat \ {0} /\ image.height \in Nat \ {0}
  BY DEF Picture
<1>2. image.width * image.height \in Nat
  BY <1>1
<1>3. Indices(image) \subseteq Nat /\ FreePixels(image) \subseteq Indices(image)
  BY <1>2 DEF Indices, FreePixels
<1>4. IsFiniteSet(Indices(image))
  BY <1>2, FS_Interval DEF Indices
<1>5. IsFiniteSet(FreePixels(image))
  BY <1>3, <1>4, FS_Subset
<1> QED
  BY <1>1, <1>2, <1>3, <1>5

LEMMA AreaHolds ==
    ASSUME NEW image, NEW i \in FreePixels(image)
    PROVE  i \in AreaOf(i, image) /\ AreaOf(i, image) \subseteq FreePixels(image)
BY DEF AreaOf

LEMMA AreaIsLeast ==
    ASSUME NEW image, NEW i, NEW C \in Secluded(image), i \in C
    PROVE  AreaOf(i, image) \subseteq C
BY DEF AreaOf

LEMMA AreaIsSecluded ==
    ASSUME NEW image, NEW i
    PROVE  AreaOf(i, image) \in Secluded(image)
<1>1. AreaOf(i, image) \subseteq FreePixels(image)
  BY DEF AreaOf
<1>2. ASSUME NEW p \in AreaOf(i, image), NEW q \in FreePixels(image) \ AreaOf(i, image)
      PROVE  ~Beside(p, q, image.width)
  <2>1. PICK C \in Secluded(image) : i \in C /\ q \notin C
    BY <1>2 DEF AreaOf
  <2>2. p \in C
    BY <2>1, AreaIsLeast
  <2> QED
    BY <1>2, <2>1, <2>2 DEF Secluded
<1> QED
  BY <1>1, <1>2 DEF Secluded

LEMMA BesideIsMutual ==
    ASSUME NEW i \in Int, NEW j \in Int, NEW w
    PROVE  Beside(i, j, w) <=> Beside(j, i, w)
BY DEF Beside

(* The pixels of an area have that area in common.                         *)
LEMMA AreaIsShared ==
    ASSUME NEW image \in Picture, NEW i \in FreePixels(image), NEW j \in AreaOf(i, image)
    PROVE  AreaOf(j, image) = AreaOf(i, image)
<1> DEFINE free == FreePixels(image)
<1>1. j \in free
  BY DEF AreaOf
<1>2. AreaOf(j, image) \subseteq AreaOf(i, image)
  BY AreaIsSecluded, AreaIsLeast
<1>3. i \in AreaOf(j, image)
  <2> SUFFICES ASSUME NEW C \in Secluded(image), j \in C, i \notin C
               PROVE  FALSE
    BY DEF AreaOf
  <2>1. free \ C \in Secluded(image)
    <3>1. ASSUME NEW p \in free \ C, NEW q \in free \ (free \ C)
          PROVE  ~Beside(p, q, image.width)
      <4>1. ~Beside(q, p, image.width)
        BY <3>1 DEF Secluded
      <4> QED
        BY <3>1, <4>1, PixelsAreFinite, BesideIsMutual
    <3> QED
      BY <3>1 DEF Secluded
  <2>2. AreaOf(i, image) \subseteq free \ C
    BY <2>1, AreaIsLeast
  <2> QED
    BY <2>2
<1>4. AreaOf(i, image) \subseteq AreaOf(j, image)
  BY <1>3, AreaIsSecluded, AreaIsLeast
<1> QED
  BY <1>2, <1>4

-----------------------------------------------------------------------------
(* The stack *)

LEMMA PushedOnce ==
    ASSUME NEW S, NEW s \in Seq(S), IsInjective(s), NEW p \in S, p \notin Range(s)
    PROVE  /\ Append(s, p) \in Seq(S) /\ IsInjective(Append(s, p))
           /\ Range(Append(s, p)) = Range(s) \cup {p}
<1> DEFINE n == Len(s)
           t == Append(s, p)
<1>1. /\ n \in Nat /\ DOMAIN s = 1..n /\ DOMAIN t = 1..(n + 1)
      /\ \A i \in 1..n : t[i] = s[i] /\ s[i] \in S
      /\ t[n + 1] = p
  OBVIOUS
<1>2. t \in Seq(S)
  OBVIOUS
<1> HIDE DEF n, t
<1>3. /\ \A i \in 1..(n + 1) : i \in 1..n \/ i = n + 1
      /\ n + 1 \in 1..(n + 1) /\ n + 1 \notin 1..n /\ 1..n \subseteq 1..(n + 1)
  BY <1>1
<1>4. Range(t) = Range(s) \cup {p}
  BY <1>1, <1>3 DEF Range
<1>5. IsInjective(t)
  BY <1>1, <1>3 DEF IsInjective, Range
<1> QED
  BY <1>2, <1>4, <1>5 DEF t

LEMMA PoppedOnce ==
    ASSUME NEW S, NEW s \in Seq(S), s # <<>>, IsInjective(s)
    PROVE  /\ Last(s) \in S /\ Last(s) \in Range(s)
           /\ Front(s) \in Seq(S) /\ IsInjective(Front(s))
           /\ Range(Front(s)) = Range(s) \ {Last(s)}
<1> DEFINE n == Len(s)
           t == Front(s)
<1>1. n \in Nat /\ n # 0 /\ DOMAIN s = 1..n /\ \A i \in 1..n : s[i] \in S
  BY EmptySeq
<1>2. t \in Seq(S) /\ DOMAIN t = 1..(n - 1) /\ \A i \in 1..(n - 1) : t[i] = s[i]
  BY <1>1 DEF Front
<1>3. Last(s) = s[n]
  BY DEF Last
<1> HIDE DEF n, t
<1>4. /\ n \in 1..n /\ n \notin 1..(n - 1) /\ 1..(n - 1) \subseteq 1..n
      /\ \A i \in 1..n : i # n => i \in 1..(n - 1)
  BY <1>1
<1>5. Last(s) \in S /\ Last(s) \in Range(s)
  BY <1>1, <1>3, <1>4 DEF Range
<1>6. IsInjective(t)
  BY <1>1, <1>2, <1>4 DEF IsInjective
<1>7. Range(t) = Range(s) \ {Last(s)}
  BY <1>1, <1>2, <1>3 DEF IsInjective, Range
<1> QED
  BY <1>2, <1>5, <1>6, <1>7 DEF t

-----------------------------------------------------------------------------
(* One pixel's neighbours *)

(* What a look around idx may add to the fill it began with: free pixels   *)
(* beside idx, each marked and pushed.                                     *)
Grown(fill, before, idx) ==
    /\ before.visited \subseteq fill.visited
    /\ fill.visited \ before.visited
           \subseteq {p \in Free : Beside(idx, p, picture.width)}
    /\ fill.stack \in Seq(fill.visited \ Done) /\ IsInjective(fill.stack)
    /\ fill.visited \ Range(fill.stack) = before.visited \ Range(before.stack)

LEMMA LookGrows ==
    ASSUME NEW fill, NEW before, NEW idx, NEW pixel, NEW inside \in BOOLEAN,
           inside => pixel \in Indices(picture) /\ Beside(idx, pixel, picture.width),
           Done \subseteq before.visited, Grown(fill, before, idx)
    PROVE  LET next == Look(fill, pixel, inside)
           IN  /\ Grown(next, before, idx)
               /\ fill.visited \subseteq next.visited
               /\ inside /\ pixel \in Free => pixel \in next.visited
<1> DEFINE next == Look(fill, pixel, inside)
<1>1. inside => (IsFree(pixel) <=> pixel \in Free)
  BY DEF IsFree, Free, FreePixels
<1>2. CASE inside /\ pixel \in Free /\ pixel \notin fill.visited
  <2>1. next.visited = fill.visited \cup {pixel} /\ next.stack = Append(fill.stack, pixel)
    BY <1>1, <1>2 DEF Look
  <2>2. pixel \in next.visited \ Done
    BY <1>2, <2>1 DEF Grown
  <2>3. pixel \notin Range(fill.stack)
    BY <1>2, RangeOfSeq DEF Grown
  <2>4. fill.stack \in Seq(fill.visited \ Done) /\ IsInjective(fill.stack)
    BY DEF Grown
  <2>5. fill.visited \ Done \subseteq next.visited \ Done
    BY <2>1
  <2> HIDE DEF next
  <2>6. /\ Append(fill.stack, pixel) \in Seq(next.visited \ Done)
        /\ IsInjective(Append(fill.stack, pixel))
        /\ Range(Append(fill.stack, pixel)) = Range(fill.stack) \cup {pixel}
    <3>1. fill.stack \in Seq(next.visited \ Done)
      BY <2>4, <2>5, SeqMonotonic
    <3> QED
      BY <2>2, <2>3, <2>4, <3>1, PushedOnce
  <2>7. Grown(next, before, idx)
    BY <1>2, <2>1, <2>6 DEF Grown
  <2> QED
    BY <1>2, <2>1, <2>7 DEF next
<1>3. CASE ~(inside /\ pixel \in Free /\ pixel \notin fill.visited)
  <2>1. next = fill
    BY <1>1, <1>3 DEF Look
  <2> QED
    BY <1>3, <2>1
<1> QED
  BY <1>2, <1>3

(* Every free pixel beside idx is marked after the look around it.         *)
LEMMA LookAroundGrows ==
    ASSUME NEW before, picture \in Picture, NEW idx \in Indices(picture),
           Done \subseteq before.visited, Grown(before, before, idx)
    PROVE  LET fill == LookAround(before, idx)
           IN  /\ Grown(fill, before, idx)
               /\ {p \in Free : Beside(idx, p, picture.width)} \subseteq fill.visited
<1> DEFINE w == picture.width
           h == picture.height
           x == idx % w
           y == idx \div w
           toLeft == x > 0
           toRight == x < w - 1
           toUp == y > 0
           toDown == y < h - 1
           left == Look(before, idx - 1, toLeft)
           right == Look(left, idx + 1, toRight)
           up == Look(right, idx - w, toUp)
           fill == Look(up, idx + w, toDown)
<1>1. w \in Nat \ {0} /\ h \in Nat \ {0} /\ Indices(picture) = 0..(w * h - 1)
      /\ Free \subseteq 0..(w * h - 1)
  BY PixelsAreFinite DEF Indices, Free
<1>2. idx \in Int /\ w * h \in Nat
  BY <1>1
<1>3. fill = LookAround(before, idx)
  BY DEF LookAround
<1>4. \A j \in Int : IsLookedAt(idx, j, w, h)
                        => j \in Indices(picture) /\ Beside(idx, j, w)
  BY <1>1, LookedAtIsBeside
<1>5. /\ toLeft => idx - 1 \in Indices(picture) /\ Beside(idx, idx - 1, w)
      /\ toRight => idx + 1 \in Indices(picture) /\ Beside(idx, idx + 1, w)
      /\ toUp => idx - w \in Indices(picture) /\ Beside(idx, idx - w, w)
      /\ toDown => idx + w \in Indices(picture) /\ Beside(idx, idx + w, w)
  BY <1>1, <1>2, <1>4 DEF IsLookedAt
<1>6. /\ toLeft \in BOOLEAN /\ toRight \in BOOLEAN
      /\ toUp \in BOOLEAN /\ toDown \in BOOLEAN
  OBVIOUS
<1> HIDE DEF toLeft, toRight, toUp, toDown
<1>7. /\ Grown(left, before, idx)
      /\ toLeft /\ idx - 1 \in Free => idx - 1 \in left.visited
  BY <1>5, <1>6, LookGrows
<1> HIDE DEF left
<1>8. /\ Grown(right, before, idx) /\ left.visited \subseteq right.visited
      /\ toRight /\ idx + 1 \in Free => idx + 1 \in right.visited
  BY <1>5, <1>6, <1>7, LookGrows
<1> HIDE DEF right
<1>9. /\ Grown(up, before, idx) /\ right.visited \subseteq up.visited
      /\ toUp /\ idx - w \in Free => idx - w \in up.visited
  BY <1>5, <1>6, <1>8, LookGrows
<1> HIDE DEF up
<1>10. /\ Grown(fill, before, idx) /\ up.visited \subseteq fill.visited
       /\ toDown /\ idx + w \in Free => idx + w \in fill.visited
  BY <1>5, <1>6, <1>9, LookGrows
<1> HIDE DEF fill
<1>11. ASSUME NEW p \in Free, Beside(idx, p, w) PROVE p \in fill.visited
  <2>1. IsLookedAt(idx, p, w, h)
    BY <1>1, <1>11, BesideIsLookedAt
  <2> QED
    BY <1>7, <1>8, <1>9, <1>10, <2>1 DEF IsLookedAt, toLeft, toRight, toUp, toDown
<1> QED
  BY <1>3, <1>10, <1>11

-----------------------------------------------------------------------------
(* What was counted before an area starts *)

LEMMA DoneIsClosed ==
    ASSUME picture \in Picture
    PROVE  /\ Done \subseteq Free
           /\ \A i \in Done, j \in Free : Beside(i, j, picture.width) => j \in Done
<1>1. \A C \in Found : C \subseteq Free /\ C \in Secluded(picture) /\ C \subseteq Done
  BY AreaHolds, AreaIsSecluded DEF Found, Done, Free
<1>2. Done \subseteq Free
  BY <1>1 DEF Done
<1>3. ASSUME NEW i \in Done, NEW j \in Free, Beside(i, j, picture.width)
      PROVE  j \in Done
  <2>1. PICK C \in Found : i \in C
    BY DEF Done
  <2>2. j \in C
    BY <1>1, <1>3, <2>1 DEF Secluded, Free
  <2> QED
    BY <1>1, <2>1, <2>2
<1> QED
  BY <1>2, <1>3

LEMMA DoneHoldsWholeAreas ==
    ASSUME picture \in Picture, NEW i \in Done
    PROVE  AreaOf(i, picture) \in Found
<1>1. PICK k \in Free : k < start /\ i \in AreaOf(k, picture)
  BY DEF Done, Found
<1>2. AreaOf(i, picture) = AreaOf(k, picture)
  BY <1>1, AreaIsShared DEF Free
<1> QED
  BY <1>1, <1>2 DEF Found

LEMMA NextAreaIsApart ==
    ASSUME picture \in Picture, start \in Free \ Done
    PROVE  AreaOf(start, picture) \cap Done = {} /\ AreaOf(start, picture) \notin Found
<1>1. start \in AreaOf(start, picture)
  BY AreaHolds DEF Free
<1>2. AreaOf(start, picture) \notin Found
  BY <1>1 DEF Done
<1>3. ASSUME NEW i \in AreaOf(start, picture), i \in Done PROVE FALSE
  <2>1. AreaOf(i, picture) = AreaOf(start, picture)
    BY AreaIsShared DEF Free
  <2> QED
    BY <1>2, <1>3, <2>1, DoneHoldsWholeAreas
<1> QED
  BY <1>2, <1>3

(* The outer loop's step finds the area of its pixel.                      *)
LEMMA FoundNext ==
    ASSUME picture \in Picture, start \in Nat, picture' = picture, start' = start + 1
    PROVE  Found' = Found \cup {AreaOf(i, picture) : i \in Free \cap {start}}
<1>1. Free' = Free /\ Free \subseteq Nat
  BY PixelsAreFinite DEF Free
<1>2. \A j \in Free : j < start' <=> j < start \/ j = start
  BY <1>1
<1>3. {j \in Free' : j < start'} = {j \in Free : j < start} \cup (Free \cap {start})
  BY <1>1, <1>2
<1> QED
  BY <1>3 DEF Found

-----------------------------------------------------------------------------
(* The fill's steps *)

LEMMA BeginFillKeeps ==
    ASSUME NEW image \in Picture, BeginFill(image)
    PROVE  FillInv'
<1>1. /\ at' = "outer" /\ picture' = image /\ start' = 0 /\ visited' = {} /\ sizes' = <<>>
  BY DEF BeginFill
<1>2. image.width * image.height \in Nat /\ Free' \subseteq Nat
  BY <1>1, PixelsAreFinite DEF Free
<1>3. Found' = {} /\ Done' = {}
  <2>1. \A j \in Free' : ~(j < start')
    BY <1>1, <1>2
  <2> QED
    BY <2>1 DEF Found, Done
<1>4. Listed'
  <2> DEFINE area == [i \in {} |-> {}]
  <2>1. sizes' \in Seq(Nat) /\ DOMAIN sizes' = {}
    BY <1>1
  <2>2. area \in Bijection({}, {})
    BY DEF Bijection, Injection, Surjection, IsInjective
  <2> QED
    BY <1>3, <2>1, <2>2 DEF Listed
<1>5. OuterInv'
  BY <1>1, <1>2, <1>3, <1>4 DEF OuterInv
<1> QED
  BY <1>1, <1>5 DEF FillInv, Filling, ComponentsAreExact

LEMMA SkipPixelKeeps ==
    ASSUME FillInv, SkipPixel
    PROVE  FillInv'
<1>1. /\ at = "outer" /\ start \in Indices(picture) /\ ~StartsArea /\ start' = start + 1
      /\ UNCHANGED <<at, picture, visited, sizes>>
  BY DEF SkipPixel, Outer
<1>2. picture \in Picture /\ OuterInv
  BY <1>1 DEF FillInv, Filling
<1>3. start \in Nat /\ start + 1 \in 0..(picture.width * picture.height)
  BY <1>1, <1>2, PixelsAreFinite DEF Indices
<1>4. Found' = Found
  <2>1. CASE start \in Free
    <3>1. start \in Done
      BY <1>1, <1>2, <2>1 DEF StartsArea, IsFree, Free, FreePixels, OuterInv
    <3>2. AreaOf(start, picture) \in Found
      BY <1>2, <3>1, DoneHoldsWholeAreas
    <3> QED
      BY <1>1, <1>2, <1>3, <3>2, FoundNext
  <2>2. CASE start \notin Free
    BY <1>1, <1>2, <1>3, <2>2, FoundNext
  <2> QED
    BY <2>1, <2>2
<1>5. OuterInv'
  BY <1>1, <1>2, <1>3, <1>4 DEF OuterInv, Listed, Done
<1> QED
  BY <1>1, <1>5 DEF FillInv, Filling, ComponentsAreExact

LEMMA BeginAreaKeeps ==
    ASSUME FillInv, BeginArea
    PROVE  FillInv'
<1>1. /\ at = "outer" /\ start \in Indices(picture) /\ StartsArea
      /\ at' = "inner" /\ size' = 0 /\ stack' = <<start>> /\ visited' = visited \cup {start}
      /\ UNCHANGED <<picture, start, sizes>>
  BY DEF BeginArea, Outer
<1>2. picture \in Picture /\ OuterInv
  BY <1>1 DEF FillInv, Filling
<1>3. start \in Free \ Done
  BY <1>1, <1>2 DEF StartsArea, IsFree, Free, FreePixels, OuterInv
<1>4. Free' = Free /\ Found' = Found /\ Done' = Done
  BY <1>1 DEF Free, Found, Done
<1>5. visited' = Done \cup {start} /\ start \in AreaOf(start, picture)
  BY <1>1, <1>2, <1>3, AreaHolds DEF OuterInv, Free
<1>6. /\ stack' \in Seq(visited' \ Done) /\ IsInjective(stack') /\ Range(stack') = {start}
  BY <1>1, <1>3, <1>5 DEF IsInjective, Range
<1>7. size' = Cardinality(visited' \ (Done \cup Range(stack')))
  <2>1. visited' \ (Done \cup Range(stack')) = {}
    BY <1>5, <1>6
  <2> QED
    BY <1>1, <2>1, FS_EmptySet
<1>8. \A i \in visited' \ Range(stack'), j \in Free :
          Beside(i, j, picture.width) => j \in visited'
  BY <1>2, <1>5, <1>6, DoneIsClosed
<1>9. Listed'
  BY <1>1, <1>2, <1>4 DEF OuterInv, Listed
<1>10. InnerInv'
  BY <1>1, <1>3, <1>4, <1>5, <1>6, <1>7, <1>8, <1>9 DEF InnerInv
<1> QED
  BY <1>1, <1>10 DEF FillInv, Filling, ComponentsAreExact

(* The pixel that is popped is counted; the new marked ones are free and   *)
(* beside it, and on the stack.                                            *)
LEMMA CountPixelMarks ==
    ASSUME picture \in Picture, InnerInv, CountPixel
    PROVE  LET idx == Last(stack)
               beside == {p \in Free : Beside(idx, p, picture.width)}
           IN  /\ idx \in visited \ Done /\ idx \in Range(stack)
               /\ idx \in AreaOf(start, picture)
               /\ visited \subseteq visited' /\ visited' \ visited \subseteq beside
               /\ beside \subseteq visited'
               /\ stack' \in Seq(visited' \ Done) /\ IsInjective(stack')
               /\ visited' \ Range(stack') = (visited \ Range(stack)) \cup {idx}
<1> DEFINE idx == Last(stack)
           before == [visited |-> visited, stack |-> Front(stack)]
           fill == LookAround(before, idx)
<1>1. stack # <<>> /\ visited' = fill.visited /\ stack' = fill.stack
  BY DEF CountPixel
<1>2. /\ idx \in visited \ Done /\ idx \in Range(stack)
      /\ Front(stack) \in Seq(visited \ Done) /\ IsInjective(Front(stack))
      /\ Range(Front(stack)) = Range(stack) \ {idx}
  BY <1>1, PoppedOnce DEF InnerInv
<1>3. idx \in AreaOf(start, picture) /\ idx \in Indices(picture)
  BY <1>2, AreaHolds, PixelsAreFinite DEF InnerInv, Free
<1>4. /\ Grown(fill, before, idx)
      /\ {p \in Free : Beside(idx, p, picture.width)} \subseteq fill.visited
  <2>1. Grown(before, before, idx) /\ Done \subseteq before.visited
    BY <1>2 DEF Grown, InnerInv
  <2> HIDE DEF before, idx
  <2> QED
    BY <1>3, <2>1, LookAroundGrows
<1> HIDE DEF fill
<1>5. before.visited = visited /\ before.stack = Front(stack)
  OBVIOUS
<1> HIDE DEF before, idx
<1> QED
  BY <1>1, <1>2, <1>3, <1>4, <1>5 DEF Grown, idx

LEMMA CountPixelKeeps ==
    ASSUME FillInv, CountPixel
    PROVE  FillInv'
<1> DEFINE idx == Last(stack)
           area == AreaOf(start, picture)
<1>1. at = "inner" /\ size' = size + 1 /\ UNCHANGED <<at, picture, start, sizes>>
  BY DEF CountPixel
<1>2. picture \in Picture /\ InnerInv
  BY <1>1 DEF FillInv, Filling
<1>3. Free' = Free /\ Found' = Found /\ Done' = Done
  BY <1>1 DEF Free, Found, Done
<1>4. area \subseteq Free /\ area \in Secluded(picture) /\ IsFiniteSet(Free)
  BY <1>2, AreaHolds, AreaIsSecluded, PixelsAreFinite DEF InnerInv, Free
<1>5. idx \in visited \ Done /\ idx \in Range(stack) /\ idx \in area
  BY <1>2, CountPixelMarks
<1>6. /\ visited \subseteq visited'
      /\ visited' \ visited \subseteq {p \in Free : Beside(idx, p, picture.width)}
      /\ {p \in Free : Beside(idx, p, picture.width)} \subseteq visited'
      /\ stack' \in Seq(visited' \ Done) /\ IsInjective(stack')
      /\ visited' \ Range(stack') = (visited \ Range(stack)) \cup {idx}
  BY <1>2, CountPixelMarks
<1> HIDE DEF idx, area
<1>7. visited' \subseteq Done \cup area
  BY <1>2, <1>4, <1>5, <1>6 DEF InnerInv, Secluded, Free, area
<1>8. \A i \in visited' \ Range(stack'), j \in Free :
           Beside(i, j, picture.width) => j \in visited'
  BY <1>2, <1>6 DEF InnerInv
<1>9. size' = Cardinality(visited' \ (Done \cup Range(stack')))
  <2> DEFINE counted == visited \ (Done \cup Range(stack))
  <2>1. visited' \ (Done \cup Range(stack')) = counted \cup {idx} /\ idx \notin counted
    BY <1>5, <1>6
  <2>2. IsFiniteSet(counted)
    <3>1. counted \subseteq Free
      BY <1>2, <1>4 DEF InnerInv, area
    <3> QED
      BY <1>4, <3>1, FS_Subset
  <2>3. size = Cardinality(counted)
    BY <1>2 DEF InnerInv
  <2> HIDE DEF counted
  <2> QED
    BY <1>1, <2>1, <2>2, <2>3, FS_AddElement
<1>10. Listed'
  BY <1>1, <1>2, <1>3 DEF InnerInv, Listed
<1>11. InnerInv'
  <2>1. start \in Free \ Done /\ start \in visited' /\ Done \subseteq visited'
    BY <1>2, <1>6 DEF InnerInv
  <2>2. visited' \subseteq Done \cup AreaOf(start, picture)
    BY <1>7 DEF area
  <2> QED
    BY <1>1, <1>3, <1>6, <1>8, <1>9, <1>10, <2>1, <2>2 DEF InnerInv
<1> QED
  BY <1>1, <1>11 DEF FillInv, Filling, ComponentsAreExact

(* When the stack is empty the area is complete: what was marked since it  *)
(* began has no free pixel beside it, so it holds all of the area.         *)
LEMMA AreaIsComplete ==
    ASSUME picture \in Picture, InnerInv, stack = <<>>
    PROVE  visited = Done \cup AreaOf(start, picture)
<1> DEFINE C == visited \ Done
<1>1. Range(stack) = {} /\ C \subseteq AreaOf(start, picture) /\ start \in C
  BY DEF InnerInv, Range
<1>2. C \subseteq Free /\ Done \subseteq Free /\ Free \subseteq Int
  BY AreaHolds, DoneIsClosed, PixelsAreFinite DEF InnerInv, Free
<1>3. ASSUME NEW p \in C, NEW q \in Free \ C PROVE ~Beside(p, q, picture.width)
  <2>1. q \notin visited => ~Beside(p, q, picture.width)
    BY <1>1 DEF InnerInv
  <2>2. q \in Done => ~Beside(q, p, picture.width)
    BY <1>2, DoneIsClosed
  <2> QED
    BY <1>2, <2>1, <2>2, BesideIsMutual
<1>4. C \in Secluded(picture)
  BY <1>2, <1>3 DEF Secluded, Free
<1>5. AreaOf(start, picture) \subseteq C
  BY <1>1, <1>4, AreaIsLeast
<1> QED
  BY <1>1, <1>5 DEF InnerInv

LEMMA EndAreaKeeps ==
    ASSUME FillInv, EndArea
    PROVE  FillInv'
<1>1. /\ at = "inner" /\ stack = <<>> /\ at' = "outer"
      /\ sizes' = Append(sizes, size) /\ start' = start + 1
      /\ UNCHANGED <<picture, visited>>
  BY DEF EndArea
<1>2. picture \in Picture /\ InnerInv
  BY <1>1 DEF FillInv, Filling
<1> DEFINE new == AreaOf(start, picture)
<1>3. start \in Free \ Done /\ start \in Indices(picture)
  BY <1>2, PixelsAreFinite DEF InnerInv, Free
<1>4. start \in Nat /\ start + 1 \in 0..(picture.width * picture.height)
  BY <1>2, <1>3, PixelsAreFinite DEF Indices
<1>5. Found' = Found \cup {new} /\ Done' = Done \cup new
  <2>1. Free \cap {start} = {start}
    BY <1>3
  <2>2. Found' = Found \cup {new}
    BY <1>1, <1>2, <1>4, <2>1, FoundNext
  <2> QED
    BY <2>2 DEF Done
<1>6. visited = Done \cup new /\ new \cap Done = {} /\ new \notin Found
  BY <1>1, <1>2, <1>3, AreaIsComplete, NextAreaIsApart
<1>7. size = Cardinality(new) /\ size \in Nat
  <2>1. IsFiniteSet(new)
    BY <1>2, <1>3, AreaHolds, PixelsAreFinite, FS_Subset DEF Free
  <2>2. visited \ (Done \cup Range(stack)) = new
    BY <1>1, <1>6 DEF Range
  <2> QED
    BY <1>2, <2>1, <2>2, FS_CardinalityType DEF InnerInv
<1> HIDE DEF new
<1>8. Listed'
  <2> DEFINE n == Len(sizes)
  <2>1. PICK area \in Bijection(DOMAIN sizes, Found) :
                \A i \in DOMAIN sizes : sizes[i] = Cardinality(area[i])
    BY <1>2 DEF InnerInv, Listed
  <2>2. /\ n \in Nat /\ DOMAIN sizes = 1..n /\ sizes' \in Seq(Nat)
        /\ DOMAIN sizes' = 1..(n + 1) /\ sizes'[n + 1] = size
        /\ \A i \in 1..n : sizes'[i] = sizes[i]
    BY <1>1, <1>2, <1>7 DEF InnerInv, Listed
  <2> HIDE DEF n
  <2>3. /\ \A i \in 1..(n + 1) : i \in 1..n \/ i = n + 1
        /\ n + 1 \in 1..(n + 1) /\ n + 1 \notin 1..n /\ 1..n \subseteq 1..(n + 1)
    BY <2>2
  <2> DEFINE next == [i \in 1..(n + 1) |-> IF i = n + 1 THEN new ELSE area[i]]
  <2>4. next[n + 1] = new /\ \A i \in 1..n : next[i] = area[i]
    BY <2>3
  <2>5. area \in [1..n -> Found] /\ IsInjective(area)
        /\ \A C \in Found : \E i \in 1..n : area[i] = C
    BY <2>1, <2>2 DEF Bijection, Injection, Surjection
  <2>6. next \in [1..(n + 1) -> Found'] /\ DOMAIN next = 1..(n + 1)
    BY <1>5, <2>3, <2>5
  <2> HIDE DEF next
  <2>7. IsInjective(next)
    BY <1>6, <2>3, <2>4, <2>5, <2>6 DEF IsInjective
  <2>8. \A C \in Found' : \E i \in 1..(n + 1) : next[i] = C
    BY <1>5, <2>3, <2>4, <2>5
  <2>9. next \in Bijection(DOMAIN sizes', Found')
    BY <2>2, <2>6, <2>7, <2>8 DEF Bijection, Injection, Surjection
  <2>10. \A i \in DOMAIN sizes' : sizes'[i] = Cardinality(next[i])
    BY <1>7, <2>1, <2>2, <2>3, <2>4
  <2> QED
    BY <2>2, <2>9, <2>10 DEF Listed
<1>9. OuterInv'
  BY <1>1, <1>4, <1>5, <1>6, <1>8 DEF OuterInv
<1> QED
  BY <1>1, <1>9 DEF FillInv, Filling, ComponentsAreExact

LEMMA SortSizesKeeps ==
    ASSUME FillInv, SortSizes
    PROVE  FillInv'
<1>1. /\ at = "outer" /\ start \notin Indices(picture) /\ at' = "over"
      /\ Descending(sizes') /\ picture' = picture
  BY DEF SortSizes
<1>2. picture \in Picture /\ OuterInv
  BY <1>1 DEF FillInv, Filling
<1> DEFINE D == DOMAIN sizes
<1>3. PICK order \in Bijection(D, D) : sizes' = [i \in D |-> sizes[order[i]]]
  BY DEF SortSizes
<1>4. Found = Areas(picture)
  <2>1. \A j \in Free : j < start
    BY <1>1, <1>2, PixelsAreFinite DEF OuterInv, Indices, Free
  <2> QED
    BY <2>1 DEF Found, Areas, Free
<1>5. PICK area \in Bijection(D, Found) : \A i \in D : sizes[i] = Cardinality(area[i])
  BY <1>2 DEF OuterInv, Listed
<1> DEFINE sorted == [i \in D |-> area[order[i]]]
<1>6. /\ order \in [D -> D] /\ IsInjective(order) /\ \A j \in D : \E i \in D : order[i] = j
      /\ area \in [D -> Found] /\ IsInjective(area)
      /\ \A C \in Found : \E j \in D : area[j] = C
  BY <1>3, <1>5 DEF Bijection, Injection, Surjection
<1> HIDE DEF D
<1>7. sorted \in [D -> Found] /\ DOMAIN sorted = D /\ \A i \in D : sorted[i] = area[order[i]]
  BY <1>6
<1> HIDE DEF sorted
<1>8. IsInjective(sorted)
  BY <1>6, <1>7 DEF IsInjective
<1>9. \A C \in Found : \E i \in D : sorted[i] = C
  BY <1>6, <1>7
<1>10. /\ DOMAIN sizes' = D /\ sorted \in Bijection(D, Found)
       /\ \A i \in D : sizes'[i] = Cardinality(sorted[i])
  <2>1. sorted \in Bijection(D, Found)
    BY <1>7, <1>8 DEF Bijection, Injection, Surjection
  <2>2. DOMAIN sizes' = D /\ \A i \in D : sizes'[i] = sizes[order[i]]
    BY <1>3
  <2> QED
    BY <1>5, <1>6, <1>7, <2>1, <2>2
<1>11. ListsTheAreas(sizes', picture)
  BY <1>1, <1>4, <1>10 DEF ListsTheAreas
<1> QED
  BY <1>1, <1>11 DEF FillInv, Filling, ComponentsAreExact

LEMMA FillStepKeeps ==
    ASSUME FillInv, FillStep
    PROVE  FillInv'
BY SkipPixelKeeps, BeginAreaKeeps, CountPixelKeeps, EndAreaKeeps, SortSizesKeeps
   DEF FillStep

LEMMA FillStutters ==
    ASSUME FillInv, UNCHANGED fillVars
    PROVE  FillInv'
<1>1. Free' = Free /\ Found' = Found /\ Done' = Done
  BY DEF Free, Found, Done, fillVars
<1>2. (OuterInv => OuterInv') /\ (InnerInv => InnerInv')
  BY <1>1 DEF OuterInv, InnerInv, Listed, fillVars
<1> QED
  BY <1>2 DEF FillInv, Filling, ComponentsAreExact, fillVars

-----------------------------------------------------------------------------
(* The maps that are staged, and the pictures of them that are filled *)

LEMMA ReportKeeps ==
    ASSUME FillInv, NEW map \in StagedMap, ReportOn(map)
    PROVE  FillInv'
<1>1. CASE Verified(map) /\ BeginFill(map.image)
  <2>1. map.image \in Picture
    BY <1>1 DEF Verified, StagedMap
  <2> QED
    BY <1>1, <2>1, BeginFillKeeps
<1>2. CASE UNCHANGED fillVars
  BY <1>2, FillStutters
<1> QED
  BY <1>1, <1>2 DEF ReportOn

LEMMA CopiesAreMaps ==
    ASSUME NEW image \in Images
    PROVE  /\ Artifact(Required, image) \in StagedMap
           /\ Copies(Artifact(Required, image)) \subseteq StagedMap
<1> DEFINE map == Artifact(Required, image)
<1>1. image \in Picture
  BY PipelineAssumption DEF PipelineAssumption
<1>2. map = [fields |-> Required, image |-> image]
  BY DEF Artifact
<1>3. map \in StagedMap /\ [map EXCEPT !.image = NoImage] \in StagedMap
  BY <1>1, <1>2 DEF StagedMap
<1>4. Absent \in StagedMap
  BY DEF Absent, Artifact, StagedMap
<1>5. ASSUME NEW n \in 0..Len(map.image.pixels)
      PROVE  [map EXCEPT !.image.pixels = SubSeq(@, 1, n)] \in StagedMap
  <2>1. image.pixels \in Seq(Nat) /\ n \in 0..Len(image.pixels)
    BY <1>1, <1>2, <1>5 DEF Picture
  <2>2. SubSeq(image.pixels, 1, n) \in Seq(Nat)
    BY <2>1
  <2> DEFINE cut == [image EXCEPT !.pixels = SubSeq(image.pixels, 1, n)]
  <2>3. cut \in Picture
    BY <1>1, <2>2 DEF Picture
  <2>4. [map EXCEPT !.image.pixels = SubSeq(@, 1, n)] = [map EXCEPT !.image = cut]
    BY <1>2
  <2> HIDE DEF cut
  <2>5. [map EXCEPT !.image = cut] \in StagedMap
    BY <1>2, <2>3 DEF StagedMap
  <2> QED
    BY <2>4, <2>5
<1> QED
  BY <1>3, <1>4, <1>5 DEF Copies

LEMMA FillInvariance == PipelineSpec => [](FillInv /\ StagedInv)
<1>1. PipelineInit => FillInv /\ StagedInv
  BY DEF PipelineInit, FillInit, FillInv, Filling, ComponentsAreExact, StagedInv
<1>2. ASSUME FillInv, StagedInv, [PipelineNext]_pipelineVars
      PROVE  FillInv' /\ StagedInv'
  <2>1. CASE UNCHANGED <<fillVars, staged>>
    BY <1>2, <2>1, FillStutters DEF StagedInv
  <2>2. CASE FillStep /\ UNCHANGED <<jobVars, stageVars>>
    BY <1>2, <2>2, FillStepKeeps DEF StagedInv, stageVars
  <2>3. ASSUME NEW b \in Batches, NEW n \in Names, NEW image \in Images, Fetch(b, n, image)
        PROVE  FillInv' /\ StagedInv'
    <3>1. PICK copied \in Copies(Artifact(Required, image)) :
              /\ staged' = [staged EXCEPT ![n] = copied]
              /\ IF copied = Artifact(Required, image)
                 THEN ReportOn(Artifact(Required, image)) ELSE UNCHANGED fillVars
      BY <2>3 DEF Fetch, ReportOn
    <3>2. copied \in StagedMap /\ Artifact(Required, image) \in StagedMap
      BY CopiesAreMaps
    <3>3. FillInv'
      BY <1>2, <3>1, <3>2, ReportKeeps, FillStutters
    <3>4. StagedInv'
      BY <1>2, <3>1, <3>2 DEF StagedInv, StagedMap
    <3> QED
      BY <3>3, <3>4
  <2>4. ASSUME NEW n \in Names, Validate(n)
        PROVE  FillInv' /\ StagedInv'
    <3>1. staged[n] \in StagedMap /\ ReportOn(staged[n]) /\ staged' = staged
      BY <1>2, <2>4 DEF Validate, StagedInv, StagedMap
    <3> QED
      BY <1>2, <3>1, ReportKeeps DEF StagedInv
  <2>5. CASE Activate
    BY <2>1, <2>5 DEF Activate
  <2>6. CASE UNCHANGED pipelineVars
    BY <2>1, <2>6 DEF pipelineVars, stageVars
  <2> QED
    BY <1>2, <2>1, <2>2, <2>3, <2>4, <2>5, <2>6 DEF PipelineNext, Finished, stageVars
<1> QED
  BY <1>1, <1>2, PTL DEF PipelineSpec

(* Of a map of any size, the coverage report lists every connected free    *)
(* area once, with the number of its pixels, largest first: the fill that  *)
(* marks and pushes a pixel's four neighbours, each tested against the     *)
(* grid's edges, misses no pixel of an area and counts none twice          *)
(* (validate_map.py:22-24, 153-195).                                       *)
THEOREM AreasAreCounted == PipelineSpec => []ComponentsAreExact
<1>1. FillInv => ComponentsAreExact
  BY DEF FillInv
<1> QED
  BY <1>1, FillInvariance, PTL

-----------------------------------------------------------------------------
(* The fill ends *)

(* What the fill has left to do: pixels to count, and turns and ends of    *)
(* the outer loop.                                                         *)
Uncounted == Free \ (visited \ Range(stack))
Left ==
    Cardinality(Uncounted) + 2 * (picture.width * picture.height - start)
        + (IF at = "outer" THEN 1 ELSE 0)

LEMMA UncountedAreFinite ==
    ASSUME picture \in Picture
    PROVE  IsFiniteSet(Uncounted) /\ Cardinality(Uncounted) \in Nat
<1>1. IsFiniteSet(Uncounted)
  <2>1. Uncounted \subseteq Free
    BY DEF Uncounted
  <2> QED
    BY <2>1, PixelsAreFinite, FS_Subset DEF Free
<1> QED
  BY <1>1, FS_CardinalityType

LEMMA StepsAdvance ==
    ASSUME FillInv, FillStep
    PROVE  Left' \in 0..(Left - 1)
<1> DEFINE all == picture.width * picture.height
           todo == Cardinality(Uncounted)
<1>1. picture \in Picture /\ ((at = "outer" /\ OuterInv) \/ (at = "inner" /\ InnerInv))
  <2>1. at = "outer" \/ at = "inner"
    BY DEF FillStep, SkipPixel, BeginArea, CountPixel, EndArea, SortSizes, Outer
  <2> QED
    BY <2>1 DEF FillInv, Filling
<1>2. all \in Nat /\ start \in 0..all /\ (at = "inner" => start < all)
  BY <1>1, PixelsAreFinite DEF OuterInv, InnerInv, Indices, Free
<1>3. todo \in Nat
  BY <1>1, UncountedAreFinite
<1>4. picture' = picture /\ Free' = Free
  BY DEF Free, FillStep, SkipPixel, BeginArea, CountPixel, EndArea, SortSizes
<1>5. Left = todo + 2 * (all - start) + (IF at = "outer" THEN 1 ELSE 0)
  BY DEF Left
<1>6. todo' \in Nat /\ all' = all
  BY <1>1, <1>4, FS_CardinalityType, FS_Subset, PixelsAreFinite DEF Uncounted, Free
<1>7. Left' = todo' + 2 * (all - start') + (IF at' = "outer" THEN 1 ELSE 0)
  BY <1>6 DEF Left
<1> HIDE DEF all
<1>8. CASE SkipPixel \/ EndArea \/ SortSizes
  <2>1. Uncounted' = Uncounted
    BY <1>4, <1>8 DEF SkipPixel, EndArea, SortSizes, Uncounted
  <2>2. todo' = todo
    BY <2>1
  <2> HIDE DEF todo
  <2>3. CASE SkipPixel
    <3>1. at = "outer" /\ at' = at /\ start' = start + 1 /\ start < all
      BY <1>2, <2>3 DEF SkipPixel, Outer, Indices, all
    <3> QED
      BY <1>2, <1>3, <1>5, <1>7, <2>2, <3>1
  <2>4. CASE EndArea
    <3>1. at = "inner" /\ at' = "outer" /\ start' = start + 1 /\ start < all
      BY <1>2, <2>4 DEF EndArea
    <3> QED
      BY <1>2, <1>3, <1>5, <1>7, <2>2, <3>1
  <2>5. CASE SortSizes
    <3>1. at = "outer" /\ at' = "over" /\ start' = start
      BY <2>5 DEF SortSizes
    <3> QED
      BY <1>2, <1>3, <1>5, <1>7, <2>2, <3>1
  <2> QED
    BY <1>8, <2>3, <2>4, <2>5
<1>9. CASE BeginArea
  <2>1. Uncounted' \subseteq Uncounted
    <3>1. visited \subseteq (visited' \ Range(stack')) \cup {start} /\ start \notin visited
      BY <1>9 DEF BeginArea, StartsArea, Range
    <3> QED
      BY <1>4, <3>1 DEF Uncounted
  <2>2. todo' <= todo
    BY <1>1, <2>1, UncountedAreFinite, FS_Subset
  <2>3. at = "outer" /\ at' = "inner" /\ start' = start
    BY <1>9 DEF BeginArea, Outer
  <2> HIDE DEF todo
  <2>4. PICK before \in Nat, after \in Nat : before = todo /\ after = todo'
    BY <1>3, <1>6
  <2>5. PICK rest \in Nat : rest = 2 * (all - start)
    BY <1>2
  <2>6. after <= before
    BY <2>2, <2>4
  <2>7. /\ Left = before + rest + 1
        /\ Left' = after + rest
    BY <1>5, <1>7, <2>3, <2>4, <2>5
  <2> QED
    BY <2>6, <2>7
<1>10. CASE CountPixel
  <2> DEFINE idx == Last(stack)
  <2>1. at = "inner" /\ at' = at /\ start' = start
    BY <1>10 DEF CountPixel
  <2>2. /\ idx \in AreaOf(start, picture) /\ idx \in Range(stack)
        /\ visited' \ Range(stack') = (visited \ Range(stack)) \cup {idx}
    BY <1>1, <1>10, <2>1, CountPixelMarks
  <2>3. idx \in Free
    BY <1>1, <2>1, <2>2, AreaHolds DEF InnerInv, Free
  <2> HIDE DEF idx
  <2>4. idx \in Uncounted /\ Uncounted' = Uncounted \ {idx}
    BY <1>4, <2>2, <2>3 DEF Uncounted
  <2>5. todo' = todo - 1
    BY <1>1, <2>4, UncountedAreFinite, FS_RemoveElement
  <2> HIDE DEF todo
  <2> QED
    BY <1>2, <1>3, <1>5, <1>7, <2>1, <2>5
<1> QED
  BY <1>8, <1>9, <1>10 DEF FillStep

(* Each turn of the fill's two loops leaves less to do than there was, and *)
(* never less than nothing, so the fill of any map ends, after at most     *)
(* three turns a pixel and one: no pixel is pushed twice                   *)
(* (validate_map.py:163-193).                                              *)
THEOREM FillAdvances == PipelineSpec => [][FillStep => Left' \in 0..(Left - 1)]_pipelineVars
<1>1. FillInv /\ [PipelineNext]_pipelineVars
          => [FillStep => Left' \in 0..(Left - 1)]_pipelineVars
  BY StepsAdvance
<1> QED
  BY <1>1, FillInvariance, PTL DEF PipelineSpec

-----------------------------------------------------------------------------
(* Activation *)

(* The active map has passed the structural check, and so has the one      *)
(* about to be made active: validation precedes the swap, and no fetch     *)
(* overwrites a map that is staged (scripts/vm.sh:382-455).  That it is    *)
(* whole does not follow: see ActiveMapIsWhole.                            *)
THEOREM OnlyVerifiedIsActive == PipelineSpec => []ActiveIsVerified
<1>1. PipelineInit => ActiveIsVerified
  BY DEF PipelineInit, ActiveIsVerified, NamesVerified
<1>2. ASSUME StagedInv, ActiveIsVerified, [PipelineNext]_pipelineVars
      PROVE  ActiveIsVerified'
  <2>1. CASE UNCHANGED <<staged, active, toActivate>>
    BY <1>2, <2>1 DEF ActiveIsVerified, NamesVerified
  <2>2. ASSUME NEW b \in Batches, NEW n \in Names, NEW image \in Images, Fetch(b, n, image)
        PROVE  ActiveIsVerified'
    <3>1. /\ staged[n] = None /\ UNCHANGED <<active, toActivate>>
          /\ \A m \in Names : staged[m] # None => staged'[m] = staged[m]
      BY <1>2, <2>2 DEF Fetch, NoCommand, StagedInv
    <3> QED
      BY <1>2, <3>1 DEF ActiveIsVerified, NamesVerified
  <2>3. ASSUME NEW n \in Names, Validate(n)
        PROVE  ActiveIsVerified'
    <3>1. /\ staged[n] # None /\ UNCHANGED <<staged, active>>
          /\ toActivate' = None \/ (toActivate' = n /\ Verified(staged[n]))
      BY <2>3 DEF Validate
    <3> QED
      BY <1>2, <3>1 DEF ActiveIsVerified, NamesVerified
  <2>4. CASE Activate
    BY <1>2, <2>4 DEF Activate, ActiveIsVerified, NamesVerified
  <2> QED
    BY <1>2, <2>1, <2>2, <2>3, <2>4 DEF PipelineNext, Finished, stageVars, pipelineVars
<1> QED
  BY <1>1, <1>2, FillInvariance, PTL DEF PipelineSpec

=============================================================================
