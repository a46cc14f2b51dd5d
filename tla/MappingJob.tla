----------------------------- MODULE MappingJob -----------------------------
(***************************************************************************)
(* modal_app.run_mapping_job: one recorded batch is played into rtabmap,   *)
(* the map is saved once it has gone quiet, rtabmap is stopped, and the    *)
(* results and a report are committed to the volume.                       *)
(*                                                                         *)
(* The job is a sequence of calls to other processes; each step here is    *)
(* one of them, with the outcomes the code tells apart.  rtabmap runs      *)
(* beside it: it maps what was played, in its own time, announces each     *)
(* update on /rtabmap/map, and prints a line for it into a pipe that       *)
(* nobody reads before rtabmap is stopped: when the pipe is full, rtabmap  *)
(* blocks.  A container serves one job after another; a job that raises    *)
(* leaves its rtabmap and decompressor running in it.                      *)
(***************************************************************************)
EXTENDS MapRaster

CONSTANTS
    Batches,       \* the recorded batches
    BagLength,     \* messages in a batch that lead to a map update
    Window,        \* stability_window_s
    Timeout,       \* timeout_s of the wait
    MapPause,      \* the longest rtabmap takes for one update
    PipeCap,       \* lines the pipe of rtabmap's output holds
    Jobs,          \* bound: jobs run in all
    NoBatch

ASSUME JobAssumption ==
    /\ BagLength \in Nat \ {0} /\ PipeCap \in Nat \ {0} /\ Jobs \in Nat
    /\ {MapPause, Window, Timeout} \subseteq Nat
    /\ MapPause < Window /\ Window < Timeout
    /\ NoBatch \notin Batches

VARIABLES
    pc,            \* where run_mapping_job is
    batch,         \* its argument
    jobs,          \* jobs begun
    played,        \* messages of the bag that have been played
    playOk,        \* play_result.returncode = 0
    mapped,        \* messages rtabmap has mapped
    pause,         \* time since its last update, while it has work
    lines,         \* lines in its pipe
    orphans,       \* batches the processes left by failed jobs have mapped
    listening,     \* is the watcher's subscription connected
    stamps,        \* stamps in the watcher's queue
    stamped,       \* last_stamp is not None
    quiet,         \* now - last_change
    waited,        \* now - start, in _wait_for_map_stable
    disk,          \* per batch: the map and the report in the container
    volume         \* the same as last committed

mapper == <<mapped, pause, lines>>
wait == <<listening, stamps, stamped, quiet, waited>>
store == <<disk, volume>>
locals == <<batch, played, playOk, mapper, wait>>
jobVars == <<pc, batch, jobs, played, playOk, mapper, orphans, wait, store>>

(* What map.yaml shows, and what is so about it that no process can tell:  *)
(* whether rtabmap had stalled, and whether another one was running too.   *)
NoMap == [of |-> {}, upto |-> 0, stalled |-> FALSE, shared |-> FALSE]
NoReport == [verified |-> FALSE, playOk |-> FALSE, map |-> NoMap]
NoResult == [map |-> NoMap, report |-> NoReport]

Steps == {"idle", "settle", "play", "wait", "save", "verify", "fail",
          "interrupt", "terminate", "reprocess", "count", "report"}

JobTypeOK ==
    /\ pc \in Steps
    /\ batch \in Batches \cup {NoBatch}
    /\ jobs \in 0..Jobs
    /\ played \in 0..BagLength /\ mapped \in 0..played
    /\ playOk \in BOOLEAN
    /\ pause \in 0..MapPause
    /\ lines \in 0..PipeCap
    /\ orphans \subseteq Batches
    /\ listening \in BOOLEAN /\ stamped \in BOOLEAN
    /\ stamps \in Nat
    /\ quiet \in 0..Timeout /\ waited \in 0..Timeout

JobInit ==
    /\ pc = "idle" /\ jobs = 0
    /\ batch = NoBatch /\ played = 0 /\ playOk = TRUE
    /\ mapped = 0 /\ pause = 0 /\ lines = 0
    /\ listening = FALSE /\ stamps = 0 /\ stamped = FALSE
    /\ quiet = 0 /\ waited = 0
    /\ orphans = {}
    /\ disk = [b \in Batches |-> NoResult]
    /\ volume = disk

(***************************************************************************)
(* rtabmap, and the watcher's reader thread                                *)
(***************************************************************************)
MapperRuns == pc \in {"settle", "play", "wait", "save", "verify", "fail"}
Stalled == lines = PipeCap
HasWork == mapped < played /\ ~Stalled

(* An update of the map, announced to whoever listens.                     *)
MapUpdate ==
    /\ MapperRuns /\ HasWork
    /\ mapped' = mapped + 1
    /\ lines' = lines + 1
    /\ pause' = 0
    /\ stamps' = IF listening THEN stamps + 1 ELSE stamps
    /\ UNCHANGED <<pc, batch, jobs, played, playOk, orphans, listening,
                   stamped, quiet, waited, store>>

(* So does the one a failed job left behind.                               *)
OrphanUpdate ==
    /\ orphans # {} /\ listening /\ stamps = 0
    /\ stamps' = 1
    /\ UNCHANGED <<pc, batch, jobs, played, playOk, mapper, orphans, listening,
                   stamped, quiet, waited, store>>

(* Discovery connects the watcher's subscriber.                            *)
WatcherConnects ==
    /\ pc \in {"play", "wait"} /\ ~listening
    /\ listening' = TRUE
    /\ UNCHANGED <<pc, batch, jobs, played, playOk, mapper, orphans, stamps,
                   stamped, quiet, waited, store>>

(***************************************************************************)
(* run_mapping_job                                                         *)
(***************************************************************************)
Goto(next) == pc' = next

(* _wait_for_map_stable's locals and its watcher are gone when it ends,    *)
(* the job's and its rtabmap, or what is known of it, when the job does.   *)
WaitOver ==
    /\ listening' = FALSE /\ stamps' = 0 /\ stamped' = FALSE
    /\ quiet' = 0 /\ waited' = 0

JobOver ==
    /\ Goto("idle")
    /\ batch' = NoBatch /\ played' = 0 /\ playOk' = TRUE
    /\ mapped' = 0 /\ pause' = 0 /\ lines' = 0
    /\ WaitOver

(* Popen of the decompressor and of rtabmap.                               *)
Start(b) ==
    /\ pc = "idle" /\ jobs < Jobs
    /\ Goto("settle") /\ batch' = b /\ jobs' = jobs + 1
    /\ UNCHANGED <<played, playOk, mapper, orphans, wait, store>>

(* _start_map_watcher                                                      *)
StartWatcher ==
    /\ pc = "settle"
    /\ Goto("play")
    /\ UNCHANGED <<jobs, locals, orphans, store>>

PlayMessage ==
    /\ pc = "play" /\ played < BagLength
    /\ played' = played + 1
    /\ orphans' = IF orphans = {} THEN {} ELSE orphans \cup {batch}
    /\ UNCHANGED <<pc, batch, jobs, playOk, mapper, wait, store>>

(* ros2 bag play ends, early when it fails: its exit code is reported and  *)
(* not looked at.  _wait_for_map_stable begins.                            *)
PlayEnds ==
    /\ pc = "play"
    /\ Goto("wait")
    /\ playOk' = (played = BagLength)
    /\ UNCHANGED <<batch, jobs, played, mapper, orphans, wait, store>>

Stable == stamped /\ quiet >= Window

WaitTimesOut ==
    /\ pc = "wait" /\ waited >= Timeout
    /\ Goto("fail") /\ WaitOver
    /\ UNCHANGED <<batch, jobs, played, playOk, mapper, orphans, store>>

WaitStable ==
    /\ pc = "wait" /\ waited < Timeout /\ Stable
    /\ Goto("save") /\ WaitOver
    /\ UNCHANGED <<batch, jobs, played, playOk, mapper, orphans, store>>

(* Mutant: the first stamp starts the clock and later ones do not.         *)
TakeStampOnce ==
    /\ pc = "wait" /\ waited < Timeout /\ ~Stable
    /\ stamps > 0
    /\ stamps' = stamps - 1
    /\ stamped' = TRUE
    /\ quiet' = IF stamped THEN quiet ELSE 0
    /\ UNCHANGED <<pc, batch, jobs, played, playOk, mapper, orphans, listening,
                   waited, store>>

(* A stamp from the queue: the map has changed just now.                   *)
TakeStamp ==
    /\ pc = "wait" /\ waited < Timeout /\ ~Stable
    /\ stamps > 0
    /\ stamps' = stamps - 1
    /\ stamped' = TRUE
    /\ quiet' = 0
    /\ UNCHANGED <<pc, batch, jobs, played, playOk, mapper, orphans, listening,
                   waited, store>>

(* Nothing in the queue: time passes, for rtabmap too.                     *)
WaitElapse ==
    /\ pc = "wait" /\ waited < Timeout /\ ~Stable
    /\ stamps = 0
    /\ HasWork => pause < MapPause
    /\ pause' = IF HasWork THEN pause + 1 ELSE 0
    /\ quiet' = quiet + 1 /\ waited' = waited + 1
    /\ UNCHANGED <<pc, batch, jobs, played, playOk, mapped, lines, orphans,
                   listening, stamps, stamped, store>>

(* map_saver_cli saves the map of one of the rtabmaps that run, or fails.  *)
SaveMap ==
    /\ pc = "save"
    /\ \/ /\ Goto("verify")
          /\ \E map \in {[of |-> {batch}, upto |-> mapped, stalled |-> Stalled,
                          shared |-> orphans # {}]}
                        \cup (IF orphans = {} THEN {}
                              ELSE {[of |-> orphans, upto |-> 0,
                                     stalled |-> FALSE, shared |-> TRUE]}) :
                disk' = [disk EXCEPT ![batch].map = map]
       \/ Goto("fail") /\ UNCHANGED disk
    /\ UNCHANGED <<jobs, locals, orphans, volume>>

(* _verify_map_yaml: Verified of what was saved, which may be incomplete.  *)
VerifyMap ==
    /\ pc = "verify"
    /\ Goto("interrupt") \/ Goto("fail")
    /\ UNCHANGED <<jobs, locals, orphans, store>>

(* The except branch: an error report, a commit, and the exception goes    *)
(* on; rtabmap and the decompressor are not stopped.                       *)
Fail ==
    /\ pc = "fail"
    /\ JobOver
    /\ disk' = [disk EXCEPT ![batch].report = NoReport]
    /\ volume' = disk'
    /\ orphans' = orphans \cup {batch}
    /\ UNCHANGED jobs

(* SIGINT to rtabmap, SIGKILL after 120 s; communicate empties the pipe.   *)
Interrupt ==
    /\ pc = "interrupt"
    /\ Goto("terminate")
    /\ lines' = 0
    /\ UNCHANGED <<batch, jobs, played, playOk, mapped, pause, orphans, wait, store>>

TerminateDecompress ==
    /\ pc = "terminate"
    /\ Goto("reprocess")
    /\ UNCHANGED <<jobs, locals, orphans, store>>

(* rtabmap-reprocess: its exit code is reported and not looked at.         *)
Reprocess ==
    /\ pc = "reprocess"
    /\ Goto("count")
    /\ UNCHANGED <<jobs, locals, orphans, store>>

(* _link_type_counts raises on a database that is torn or missing: no      *)
(* report, no commit, and no process left.                                 *)
CountLinks ==
    /\ pc = "count"
    /\ \/ Goto("report") /\ UNCHANGED locals
       \/ JobOver
    /\ UNCHANGED <<jobs, orphans, store>>

(* The report, the database beside it, and the commit.                     *)
WriteReport ==
    /\ pc = "report"
    /\ JobOver
    /\ disk' = [disk EXCEPT ![batch].report =
                   [verified |-> TRUE, playOk |-> playOk, map |-> disk[batch].map]]
    /\ volume' = disk'
    /\ UNCHANGED <<jobs, orphans>>

(* The platform ends the container, at the function's timeout or when it   *)
(* has been idle; what was not committed is lost.                          *)
NewContainer ==
    /\ pc # "idle" \/ orphans # {} \/ disk # volume
    /\ JobOver
    /\ orphans' = {}
    /\ disk' = volume
    /\ UNCHANGED <<jobs, volume>>

JobNext ==
    \/ \E b \in Batches : Start(b)
    \/ StartWatcher \/ WatcherConnects
    \/ PlayMessage \/ PlayEnds
    \/ WaitTimesOut \/ WaitStable \/ TakeStamp \/ WaitElapse
    \/ SaveMap \/ VerifyMap \/ Fail
    \/ Interrupt \/ TerminateDecompress \/ Reprocess \/ CountLinks \/ WriteReport
    \/ MapUpdate \/ OrphanUpdate \/ NewContainer

(***************************************************************************)
(* "By the time /rtabmap/map has gone quiet for stability_window_s,        *)
(* rtabmap has necessarily finished processing the tail of the bag"        *)
(* (modal_app.py:404-406): the map that is saved is of everything that was *)
(* played, when no failed job's rtabmap is there to be heard.              *)
(***************************************************************************)
SettledIsFinished == pc = "save" /\ orphans = {} => mapped = played

(***************************************************************************)
(* What a reader may conclude from a committed report: when it says that   *)
(* the map is verified and that the bag was played to its end, the map was *)
(* made from that batch alone and from all of it.  Two cases are beyond    *)
(* what the job can see: rtabmap had stalled on its full pipe, which looks *)
(* like a map that has settled, or a failed job's rtabmap was running too. *)
(***************************************************************************)
VerifiedMapIsTheBag ==
    \A b \in Batches :
        LET report == volume[b].report
        IN  report.verified /\ report.playOk
                /\ ~report.map.stalled /\ ~report.map.shared
            => report.map.of = {b} /\ report.map.upto = BagLength
=============================================================================
