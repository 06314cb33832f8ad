---------------------------- MODULE LidarDriver ----------------------------
(***************************************************************************)
(* The lidar node: the loop of its lidar thread (node_lidar_ros.cpp), the  *)
(* command callback on the executor thread, the reader thread of the SDK   *)
(* (node_lidar.cpp) and the lidar behind the serial line.                  *)
(*                                                                         *)
(* The two threads of the driver and the reader share plain variables.     *)
(* The driver reads the command again at every test of its loop, and it is *)
(* up to three seconds inside data_handling; so every test and every wait  *)
(* is a step of its own.  Time itself is left out: what takes a second or  *)
(* three is a step that may be late.                                       *)
(***************************************************************************)
EXTENDS Integers

CONSTANTS
  Discard,      \* readings discarded after a start, lidar_on_check_cnt (10)
  Confirm,      \* lidar_run_cnt must exceed this before an error is released (10)
  Retries,      \* start_cnt must exceed this before a start error (2)
  DirtyLimit,   \* dirty_cnt_th (600)
  DirtyClear,   \* clean readings that release the dirty error (10)
  MaxFaults     \* bound: interruptions of the serial line in a behaviour

\* A scan read just before a stop may be taken for one of the next start, so one
\* reading must not be enough to discard or to confirm.
ASSUME LidarConstants ==
  /\ {Discard, Confirm, DirtyClear} \subseteq Nat \ {0} /\ Discard > 1
  /\ {Retries, DirtyLimit, MaxFaults} \subseteq Nat

VARIABLES
  cmd, run, error,       \* bLidarCmd, bLidarRun, bErrorState
  onCheck, startCnt,     \* lidar_on_check_cnt, start_cnt
  runCnt,                \* lidar_run_cnt
  pc,                    \* where the loop is
  told,                  \* published last on /scan_state
  republishing,          \* scan_publisher_timer exists
  dirty, dirtyCnt, dirtyLeft,  \* dirty_msg.data, dirty_cnt, dirty_reset_cnt
  ready, lastStatus, close,    \* lidar_ready, lidar_last_status, close_lidar
  speedRight, trap, restartTry,
  reader,                \* where the reader thread is
  event,                 \* _dataEvent is signalled
  spinning,              \* the lidar turns and measures
  linked,                \* the serial line carries bytes
  faults,                \* interruptions so far
  \* History, read by properties only.
  goods,                 \* readings in a row, as far as they matter
  stopped                \* the last stop was seen through, nothing started since

loopVars == <<cmd, run, error, onCheck, startCnt, runCnt, told, goods>>
dirtyVars == <<dirty, dirtyCnt, dirtyLeft>>
readerVars == <<lastStatus, speedRight, restartTry, reader>>
lineVars == <<linked, faults>>
vars == <<loopVars, pc, republishing, dirtyVars, ready, close, trap, readerVars,
          event, spinning, lineVars, stopped>>

Waiting == {"start", "retry", "idleRetry", "run", "stop"}

\* node_start has set lidar_ready; bLidarCmd starts TRUE.
Init ==
  /\ cmd = TRUE /\ run = FALSE /\ error = FALSE
  /\ onCheck = 0 /\ startCnt = 0 /\ runCnt = 0
  /\ pc = "top" /\ told = FALSE /\ republishing = FALSE
  /\ dirty = FALSE /\ dirtyCnt = 0 /\ dirtyLeft = 0
  /\ ready = TRUE /\ lastStatus = FALSE /\ close = TRUE
  /\ speedRight = FALSE /\ trap = FALSE /\ restartTry = FALSE
  /\ reader = "status" /\ event = FALSE
  /\ spinning = FALSE /\ linked = TRUE /\ faults = 0
  /\ goods = 0 /\ stopped = FALSE
-----------------------------------------------------------------------------
\* What a command written to the serial line does to the lidar (external).
WriteStart == spinning' = (spinning \/ linked)
WriteEnd == spinning' = (spinning /\ ~linked)

(* Executor thread: lidar_cmd_callback.  Its reset of lidar_on_check_cnt   *)
(* races with the increment in the loop and may be overwritten by it.      *)
LidarCmdCallback(on) ==
  /\ pc # "down"
  /\ cmd' = on
  /\ \E lost \in {FALSE, pc = "start"} :
       onCheck' = IF on /\ ~lost THEN 0 ELSE onCheck
  /\ UNCHANGED <<run, error, startCnt, runCnt, told, goods, pc, republishing,
                 dirtyVars, ready, close, trap, readerVars, event, spinning,
                 lineVars, stopped>>
-----------------------------------------------------------------------------
(* Lidar thread: the tests of the loop.                                    *)
SdkUntouched == UNCHANGED <<trap, readerVars, event, lineVars>>

Republish ==
  /\ pc = "top"
  /\ republishing' = ~(cmd /\ run)
  /\ pc' = "dispatch"
  /\ SdkUntouched
  /\ UNCHANGED <<loopVars, dirtyVars, ready, close, spinning, stopped>>

LaunchUnready(next) ==   \* mutant: lidar_ready is left alone
  WriteStart /\ stopped' = FALSE /\ pc' = next /\ UNCHANGED <<ready, close>>

\* lidar_ready and the start command, then the wait for a scan.
Launch(next) ==
  /\ ready' = TRUE
  /\ WriteStart
  /\ stopped' = FALSE
  /\ pc' = next
  /\ UNCHANGED close

\* Commanded on but not running: start it, or retry after an error.
TurnOn ==
  /\ pc = "dispatch" /\ cmd /\ ~run
  /\ \/ error /\ Launch("retry")
     \/ ~error /\ onCheck = 0 /\ Launch("start")
     \/ /\ ~error /\ onCheck # 0
        /\ pc' = "start"
        /\ UNCHANGED <<ready, close, spinning, stopped>>
  /\ SdkUntouched
  /\ UNCHANGED <<loopVars, republishing, dirtyVars>>

\* The later tests read the command once more.
TestAgain ==
  /\ pc = "dispatch" /\ run
  /\ pc' = IF cmd THEN "run" ELSE "recheck"
  /\ SdkUntouched
  /\ UNCHANGED <<loopVars, republishing, dirtyVars, ready, close, spinning, stopped>>

NoEndWritten == spinning' = spinning   \* mutant: end_lidar is not written

EndWritten == WriteEnd

TurnOff ==
  /\ pc = "recheck" /\ ~cmd
  /\ told' = FALSE
  /\ ready' = FALSE /\ close' = TRUE
  /\ EndWritten
  /\ pc' = "stop"
  /\ SdkUntouched
  /\ UNCHANGED <<cmd, run, error, onCheck, startCnt, runCnt, goods, republishing,
                 dirtyVars, stopped>>

\* The else branch: commanded off and not running, or a command that changed
\* between the tests.  An error is retried even though the lidar is off.
Idle ==
  /\ \/ pc = "dispatch" /\ ~cmd /\ ~run
     \/ pc = "recheck" /\ cmd
  /\ \/ error /\ Launch("idleRetry") /\ UNCHANGED <<told, startCnt>>
     \/ /\ ~error
        /\ told' = FALSE /\ startCnt' = 0
        /\ pc' = "top"
        /\ UNCHANGED <<ready, close, spinning, stopped>>
  /\ SdkUntouched
  /\ UNCHANGED <<cmd, run, error, onCheck, runCnt, goods, republishing, dirtyVars>>
-----------------------------------------------------------------------------
(* Lidar thread: data_handling comes back, with a scan or after the three  *)
(* seconds.  It waits in vain only while no scan can come.                 *)
CanScan == speedRight /\ spinning /\ linked

DataHandling(good) ==
  /\ IF good THEN event ELSE ~event /\ ~CanScan
  /\ event' = FALSE
  /\ UNCHANGED <<cmd, republishing, ready, close, trap, readerVars, spinning, lineVars>>

UpTo(limit, n) == IF n < limit THEN n ELSE limit
Counted(good) == goods' = IF good THEN UpTo(Confirm + 2, goods + 1) ELSE 0

StartFailedTooOften == startCnt > Retries

\* Bound: start_cnt is followed up to the first value that no longer matters.
AfterStart(good) ==
  /\ pc = "start" /\ DataHandling(good)
  /\ run' = (good /\ onCheck + 1 >= Discard)
  /\ onCheck' = IF good /\ ~run' THEN onCheck + 1 ELSE 0
  /\ error' = (~good /\ StartFailedTooOften)
  /\ startCnt' = IF good THEN 0 ELSE UpTo(Retries + 2, startCnt + 1)
  /\ pc' = "top"
  /\ goods' = 0
  /\ UNCHANGED <<runCnt, told, dirtyVars, stopped>>

Released(good) == good /\ runCnt > Confirm

NeverAnew(good) ==   \* mutant: a failure does not start the count anew
  IF runCnt > Confirm THEN 1 ELSE runCnt + 1

NotReset(good) ==   \* mutant: the release does not reset the counter
  IF ~good THEN 0 ELSE runCnt + 1

\* The counter is incremented once more after its reset.
RetryCount(good) ==
  IF ~good THEN 0 ELSE IF runCnt > Confirm THEN 1 ELSE runCnt + 1

ErrorKept(good) ==   \* mutant: the release is forgotten
  run' = Released(good) /\ UNCHANGED error

AfterRelease(good) == run' = Released(good) /\ error' = ~Released(good)

AfterRetry(good) ==
  /\ pc \in {"retry", "idleRetry"} /\ DataHandling(good)
  /\ AfterRelease(good)
  /\ runCnt' = RetryCount(good)
  /\ IF pc = "idleRetry" THEN told' = FALSE /\ startCnt' = 0
                         ELSE UNCHANGED <<told, startCnt>>
  /\ pc' = "top"
  /\ Counted(good)
  /\ UNCHANGED <<onCheck, dirtyVars, stopped>>

\* A scan with too many points at the lens; the count of an announced error
\* goes down with clean scans, in a row or not.
DirtySeen == dirty' = TRUE /\ dirtyCnt' = 0 /\ dirtyLeft' = DirtyClear

Contaminated ==
  IF dirtyCnt + 1 > DirtyLimit THEN DirtySeen
  ELSE dirtyCnt' = dirtyCnt + 1 /\ UNCHANGED <<dirty, dirtyLeft>>

Clean ==
  /\ dirtyCnt' = 0
  /\ dirtyLeft' = IF dirty /\ dirtyLeft > 0 THEN dirtyLeft - 1 ELSE dirtyLeft
  /\ dirty' = (dirty /\ dirtyLeft # 1)

AfterRun(good) ==
  /\ pc = "run" /\ DataHandling(good)
  /\ run' = good /\ error' = ~good
  /\ told' = (told \/ (good /\ cmd))
  /\ IF good THEN Contaminated \/ Clean ELSE UNCHANGED dirtyVars
  /\ goods' = 0
  /\ pc' = "top"
  /\ UNCHANGED <<onCheck, startCnt, runCnt, stopped>>

StopUnseen(good) ==   \* mutant: what data_handling says is dropped
  stopped' = ~good /\ UNCHANGED run

\* A scan that had come before the stop keeps the driver in its running state.
StopSeen(good) == run' = good /\ stopped' = ~good

AfterStop(good) ==
  /\ pc = "stop" /\ DataHandling(good)
  /\ StopSeen(good)
  /\ pc' = "top"
  /\ UNCHANGED <<error, onCheck, startCnt, runCnt, told, goods, dirtyVars>>

Shutdown ==
  /\ pc = "top"
  /\ WriteEnd
  /\ pc' = "down"
  /\ UNCHANGED <<loopVars, republishing, dirtyVars, ready, close, trap, readerVars,
                 event, lineVars, stopped>>
-----------------------------------------------------------------------------
(* Reader thread: lidar_state_judgment, then one read.                     *)
LoopUntouched == UNCHANGED <<loopVars, pc, republishing, dirtyVars, ready, lineVars, stopped>>
Changed == ready # lastStatus \/ close

JudgeStatus ==
  /\ reader = "status" /\ pc # "down"
  /\ IF Changed
     THEN /\ close' = FALSE /\ lastStatus' = ready /\ speedRight' = FALSE
          /\ reader' = IF ready THEN "kick" ELSE "speed"
     ELSE reader' = "speed" /\ UNCHANGED <<close, lastStatus, speedRight>>
  /\ LoopUntouched
  /\ UNCHANGED <<trap, restartTry, event, spinning>>

\* The start command after the flag was read: a stop may come in between.
Kick ==
  /\ reader \in {"kick", "kickAgain"} /\ pc # "down"
  /\ WriteStart
  /\ IF reader = "kick" THEN reader' = "speed" /\ UNCHANGED speedRight
                        ELSE reader' = "read" /\ speedRight' = TRUE
  /\ LoopUntouched
  /\ UNCHANGED <<close, trap, lastStatus, restartTry, event>>

\* lidar_trap_restart: end now, start a second later.
Trap ==
  /\ reader = "speed" /\ trap /\ pc # "down"
  /\ trap' = FALSE /\ speedRight' = FALSE
  /\ WriteEnd
  /\ reader' = "status"
  /\ LoopUntouched
  /\ UNCHANGED <<close, lastStatus, restartTry, event>>

\* A second after the last change the lidar is started once more.
JudgeSpeed ==
  /\ reader = "speed" /\ ~trap /\ pc # "down"
  /\ \/ ready /\ ~speedRight /\ reader' = "kickAgain"
     \/ ready /\ ~speedRight /\ Changed /\ reader' = "status"
     \/ speedRight /\ reader' = "read"
     \/ ~ready /\ ~speedRight /\ reader' = "status"
  /\ LoopUntouched
  /\ UNCHANGED <<close, trap, lastStatus, speedRight, restartTry, event, spinning>>

Scan ==
  /\ reader = "read" /\ spinning /\ linked /\ pc # "down"
  /\ event' = TRUE
  /\ restartTry' = FALSE
  /\ reader' = "status"
  /\ LoopUntouched
  /\ UNCHANGED <<close, trap, lastStatus, speedRight, spinning>>

\* Three seconds without a scan restart the lidar, once.
NoScan ==
  /\ reader = "read" /\ ~(spinning /\ linked) /\ pc # "down"
  /\ \/ restartTry' = TRUE /\ trap' = (trap \/ ~restartTry)
     \/ UNCHANGED <<restartTry, trap>>
  /\ reader' = "status"
  /\ LoopUntouched
  /\ UNCHANGED <<close, lastStatus, speedRight, event, spinning>>

\* The line is interrupted and comes back; the lidar may have lost its power.
LineChanges ==
  /\ linked' = ~linked
  /\ faults' = IF linked THEN faults + 1 ELSE faults
  /\ faults' <= MaxFaults
  /\ spinning' \in {spinning, spinning /\ ~linked}
  /\ UNCHANGED <<loopVars, pc, republishing, dirtyVars, ready, close, trap,
                 readerVars, event, stopped>>
-----------------------------------------------------------------------------
LidarThread ==
  \/ Republish \/ TurnOn \/ TestAgain \/ TurnOff \/ Idle
  \/ \E good \in BOOLEAN : AfterStart(good) \/ AfterRetry(good) \/ AfterRun(good)
                             \/ AfterStop(good)
Reader == JudgeStatus \/ Kick \/ Trap \/ JudgeSpeed \/ Scan \/ NoScan

Next ==
  \/ LidarThread \/ Reader \/ Shutdown \/ LineChanges
  \/ \E on \in BOOLEAN : LidarCmdCallback(on)

Spec == Init /\ [][Next]_vars

\* Both threads go on; commands, shutdown and the line are free.
FairSpec == Spec /\ WF_vars(LidarThread) /\ WF_vars(Reader)
-----------------------------------------------------------------------------
\* Every variable holds a value of its type.
TypeOK ==
  /\ {cmd, run, error, told, republishing, dirty} \subseteq BOOLEAN
  /\ {ready, lastStatus, close, speedRight, trap, restartTry, event} \subseteq BOOLEAN
  /\ {spinning, linked, stopped} \subseteq BOOLEAN
  /\ onCheck \in 0..(Discard - 1)
  /\ startCnt \in 0..(Retries + 2)
  /\ runCnt \in 0..(Confirm + 1)
  /\ pc \in {"top", "dispatch", "recheck", "down"} \cup Waiting
  /\ dirtyCnt \in 0..DirtyLimit /\ dirtyLeft \in 0..DirtyClear
  /\ reader \in {"status", "kick", "speed", "kickAgain", "read"}
  /\ faults \in 0..MaxFaults
  /\ goods \in 0..(Confirm + 2)

(* The state diagram of the driver has no state that runs with an error:   *)
(* whichever test a changing command leads to.                             *)
RunExcludesError == ~(run /\ error)

(* A lidar whose stop was seen through stays still until the driver starts *)
(* it: no start command of the reader thread overtakes the stop.           *)
StoppedStaysStopped == stopped /\ faults = 0 => ~spinning

(* A communication error is released only after more than Confirm readings *)
(* in a row, retries with and without the command taken together.          *)
ReleaseEarned == [][error /\ ~error' => goods >= Confirm]_vars

(* On a line that has come back a lidar that stays commanded on ends up    *)
(* running without an error, and so it is told.  The commands must come to *)
(* an end: each "on" starts the discarding of readings anew.               *)
ComesToRun ==
  <>[](cmd /\ linked /\ pc # "down")
    /\ <>[][\A on \in BOOLEAN : ~LidarCmdCallback(on)]_vars =>
  <>[](run /\ ~error /\ told)

(* A lidar that stays commanded off is told to be off in the end.          *)
OffIsTold == <>[](~cmd /\ pc # "down") => <>[](~run /\ ~told)
=============================================================================
