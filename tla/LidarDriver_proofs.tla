------------------------- MODULE LidarDriver_proofs -------------------------
(***************************************************************************)
(* Theorems about the lidar driver, for every value of its constants.      *)
(***************************************************************************)
EXTENDS LidarDriver, TLAPS

(* Where the loop is, and the ranges of what it counts.                    *)
Counters ==
  /\ runCnt \in 0..(Confirm + 1)
  /\ goods \in 0..(Confirm + 2)

(* Behind a test of bLidarRun, and on the way into a first start, no error *)
(* is pending: the tests of one pass of the loop cannot disagree about the *)
(* error, whatever the callback does to the command between them.          *)
ErrorInv ==
  /\ ~(run /\ error)
  /\ pc \in {"recheck", "run", "stop", "start"} => ~error

(* lidar_run_cnt exceeds the readings in a row by one at most, because of  *)
(* the increment after the reset; a start or a run, which break the row,   *)
(* find it at one at most.                                                 *)
CountInv ==
  /\ runCnt <= goods + 1
  /\ ~error => runCnt <= 1

LEMMA InitInv == Init => Counters /\ ErrorInv /\ CountInv
<1> SUFFICES ASSUME Init PROVE Counters /\ ErrorInv /\ CountInv
  OBVIOUS
<1>1. runCnt = 0 /\ goods = 0 /\ pc = "top" /\ ~run
  BY DEF Init
<1>2. Counters
  BY <1>1, LidarConstants, SMT DEF LidarConstants, Counters
<1>3. ErrorInv
  BY <1>1, SMT DEF ErrorInv
<1>4. QED
  BY <1>1, <1>2, <1>3, SMT DEF CountInv

(* A step either leaves the error, the run flag and the counts alone, or   *)
(* is one of the four places behind a wait.                                *)
Kept == run' = run /\ error' = error /\ runCnt' = runCnt /\ goods' = goods

LEMMA OtherLoopSteps ==
  ASSUME ErrorInv, Republish \/ TurnOn \/ TestAgain \/ TurnOff \/ Idle
  PROVE  Kept /\ ErrorInv'
<1>1. CASE Republish
  BY <1>1, SMT DEF Republish, Kept, ErrorInv, loopVars
<1>2. CASE TurnOn
  BY <1>2, SMT DEF TurnOn, Launch, Kept, ErrorInv, loopVars
<1>3. CASE TestAgain
  BY <1>3, SMT DEF TestAgain, Kept, ErrorInv, loopVars
<1>4. CASE TurnOff
  BY <1>4, SMT DEF TurnOff, Kept, ErrorInv
<1>5. CASE Idle
  BY <1>5, SMT DEF Idle, Launch, Kept, ErrorInv
<1>6. QED
  BY <1>1, <1>2, <1>3, <1>4, <1>5

LEMMA OutsideSteps ==
  ASSUME \/ Reader \/ Shutdown \/ LineChanges \/ UNCHANGED vars
         \/ \E on \in BOOLEAN : LidarCmdCallback(on)
  PROVE  Kept /\ pc' \in {pc, "down"}
<1>1. CASE Reader
  BY <1>1, SMT DEF Reader, JudgeStatus, Kick, Trap, JudgeSpeed, Scan, NoScan,
     LoopUntouched, loopVars, Kept
<1>2. CASE Shutdown
  BY <1>2, SMT DEF Shutdown, loopVars, Kept
<1>3. CASE LineChanges
  BY <1>3, SMT DEF LineChanges, loopVars, Kept
<1>4. CASE UNCHANGED vars
  BY <1>4, SMT DEF vars, loopVars, Kept
<1>5. CASE \E on \in BOOLEAN : LidarCmdCallback(on)
  BY <1>5, SMT DEF LidarCmdCallback, Kept
<1>6. QED
  BY <1>1, <1>2, <1>3, <1>4, <1>5

(* The four places behind a wait.                                          *)
LEMMA StartReturns ==
  ASSUME NEW good \in BOOLEAN, Counters, ErrorInv, CountInv, AfterStart(good)
  PROVE  Counters' /\ ErrorInv' /\ CountInv' /\ ~error
<1>1. ~error /\ pc' = "top" /\ goods' = 0 /\ runCnt' = runCnt
  BY SMT DEF AfterStart, ErrorInv
<1>2. ~(run' /\ error')
  BY Zenon DEF AfterStart
<1>3. runCnt <= 1
  BY <1>1 DEF CountInv
<1>4. Counters' /\ CountInv'
  BY <1>1, <1>3, LidarConstants, SMT DEF LidarConstants, Counters, CountInv
<1>5. ErrorInv'
  BY <1>1, <1>2, SMT DEF ErrorInv
<1>6. QED
  BY <1>1, <1>4, <1>5

LEMMA RetryReturns ==
  ASSUME NEW good \in BOOLEAN, Counters, ErrorInv, CountInv, AfterRetry(good)
  PROVE  /\ Counters' /\ ErrorInv' /\ CountInv'
         /\ error /\ ~error' => goods >= Confirm
<1>1. /\ pc' = "top"
      /\ run' = Released(good) /\ error' = ~Released(good)
      /\ runCnt' = RetryCount(good)
      /\ goods' = IF good THEN UpTo(Confirm + 2, goods + 1) ELSE 0
  BY Zenon DEF AfterRetry, AfterRelease, Counted
<1>2. ErrorInv'
  <2>1. ~(run' /\ error')
    BY <1>1, Zenon
  <2>2. QED
    BY <1>1, <2>1, SMT DEF ErrorInv
<1>3. Counters'
  BY <1>1, LidarConstants, SMT DEF LidarConstants, Counters, RetryCount, UpTo
<1>4. runCnt' <= goods' + 1
  BY <1>1, LidarConstants, SMT DEF LidarConstants, Counters, CountInv, RetryCount, UpTo
<1>5. ASSUME ~error' PROVE runCnt' = 1 /\ runCnt > Confirm
  <2>1. good /\ runCnt > Confirm
    BY <1>1, <1>5, Zenon DEF Released
  <2>2. QED
    BY <1>1, <2>1 DEF RetryCount
<1>6. CountInv'
  BY <1>4, <1>5, SMT DEF CountInv
<1>7. ASSUME ~error' PROVE goods >= Confirm
  BY <1>5, <1>7, LidarConstants, SMT DEF LidarConstants, Counters, CountInv
<1>8. QED
  BY <1>2, <1>3, <1>6, <1>7

LEMMA RunReturns ==
  ASSUME NEW good \in BOOLEAN, Counters, ErrorInv, CountInv, AfterRun(good)
  PROVE  Counters' /\ ErrorInv' /\ CountInv' /\ ~error
<1>1. ~error /\ pc' = "top" /\ goods' = 0 /\ runCnt' = runCnt
  BY SMT DEF AfterRun, ErrorInv
<1>2. ~(run' /\ error')
  BY Zenon DEF AfterRun
<1>3. runCnt <= 1
  BY <1>1 DEF CountInv
<1>4. Counters' /\ CountInv'
  BY <1>1, <1>3, LidarConstants, SMT DEF LidarConstants, Counters, CountInv
<1>5. ErrorInv'
  BY <1>1, <1>2, SMT DEF ErrorInv
<1>6. QED
  BY <1>1, <1>4, <1>5

LEMMA StopReturns ==
  ASSUME NEW good \in BOOLEAN, Counters, ErrorInv, CountInv, AfterStop(good)
  PROVE  Counters' /\ ErrorInv' /\ CountInv' /\ ~error
<1>1. ~error /\ error' = error /\ pc' = "top" /\ goods' = goods /\ runCnt' = runCnt
  BY SMT DEF AfterStop, ErrorInv
<1>2. Counters' /\ CountInv'
  BY <1>1, SMT DEF Counters, CountInv
<1>3. ErrorInv'
  BY <1>1, SMT DEF ErrorInv
<1>4. QED
  BY <1>1, <1>2, <1>3

(* What every step keeps, and when it may release the error.               *)
LEMMA Step ==
  ASSUME Counters, ErrorInv, CountInv, [Next]_vars
  PROVE  /\ Counters' /\ ErrorInv' /\ CountInv'
         /\ error /\ ~error' => goods >= Confirm
<1>1. ASSUME Kept PROVE Counters' /\ CountInv' /\ (error' <=> error)
  BY <1>1, SMT DEF Kept, Counters, CountInv
<1>2. CASE Republish \/ TurnOn \/ TestAgain \/ TurnOff \/ Idle
  BY <1>1, <1>2, OtherLoopSteps
<1>3. CASE \/ Reader \/ Shutdown \/ LineChanges \/ UNCHANGED vars
           \/ \E on \in BOOLEAN : LidarCmdCallback(on)
  <2>1. Kept /\ pc' \in {pc, "down"}
    BY <1>3, OutsideSteps
  <2>2. ErrorInv'
    BY <2>1, SMT DEF Kept, ErrorInv
  <2>3. QED
    BY <1>1, <2>1, <2>2
<1>4. CASE \E good \in BOOLEAN : \/ AfterStart(good) \/ AfterRetry(good)
                                 \/ AfterRun(good) \/ AfterStop(good)
  BY <1>4, StartReturns, RetryReturns, RunReturns, StopReturns
<1>5. QED
  BY <1>2, <1>3, <1>4, Zenon DEF Next, LidarThread

LEMMA InvHolds == Spec => [](Counters /\ ErrorInv /\ CountInv)
<1>1. Counters /\ ErrorInv /\ CountInv /\ [Next]_vars
        => (Counters /\ ErrorInv /\ CountInv)'
  BY Step
<1>2. QED
  BY InitInv, <1>1, PTL DEF Spec

(* The driver never believes the lidar to run with a communication error   *)
(* pending, however the command changes between the tests of one pass of   *)
(* lidar_thread.                                                           *)
THEOREM RunExcludesErrorHolds == Spec => []RunExcludesError
<1>1. ErrorInv => RunExcludesError
  BY DEF ErrorInv, RunExcludesError
<1>2. QED
  BY InvHolds, <1>1, PTL

(* A communication error is released by lidar_thread only after Confirm    *)
(* readings in a row, for every number of confirmations.                   *)
THEOREM ReleaseEarnedHolds == Spec => ReleaseEarned
<1>1. Counters /\ ErrorInv /\ CountInv /\ [Next]_vars
        => [error /\ ~error' => goods >= Confirm]_vars
  BY Step
<1>2. QED
  BY InvHolds, <1>1, PTL DEF Spec, ReleaseEarned
-----------------------------------------------------------------------------
(* Why a stopped lidar stays stopped.  What the reader has not yet made of *)
(* a start is Unseen: a change of lidar_ready it has not read, or a speed  *)
(* it has not waited for.                                                  *)
Unseen == Changed \/ ~speedRight

(* Where the reader may be.  Before it writes a start command it has seen  *)
(* that the lidar is wanted.                                               *)
ReaderInv ==
  /\ reader \in {"status", "kick", "speed", "kickAgain", "read"}
  /\ reader \in {"kickAgain", "read"} => ~trap
  /\ reader = "read" => speedRight
  /\ reader = "kick" => ready /\ ~Changed /\ ~speedRight
  /\ reader = "kickAgain" => ready /\ ~speedRight

(* A lidar that is not wanted stands still, nothing was counted for its    *)
(* next start, and no scan is waiting once its stop was seen through.      *)
OffInv ==
  ~ready => /\ ~spinning /\ (close \/ ~lastStatus)
            /\ onCheck = 0 /\ runCnt <= 1
            /\ pc # "stop" => ~event

(* A start that is seen has no start command of the reader under way; only *)
(* such a lidar is taken to be running, so only such a lidar is stopped.   *)
SeenInv == ready /\ ~Unseen => spinning /\ ~trap /\ reader \in {"status", "speed", "read"}

(* Of a start that is not seen one scan at most was read: the one the      *)
(* reader was about to read when the lidar was stopped.                    *)
UnseenInv ==
  ready /\ Unseen =>
    /\ ~run /\ onCheck <= 1 /\ runCnt <= 2
    /\ event => onCheck = 0 /\ runCnt <= 1
    /\ Changed /\ reader # "status" => ~event /\ onCheck = 0 /\ runCnt <= 1

LoopInv ==
  /\ run \/ error => onCheck = 0
  /\ pc \in {"recheck", "run"} => run
  /\ pc \in {"retry", "idleRetry"} => error
  /\ pc = "stop" \/ stopped => ~ready

Undisturbed ==
  /\ linked /\ LoopInv
  /\ pc = "down" => ~spinning
  /\ pc # "down" => ReaderInv /\ OffInv /\ SeenInv /\ UnseenInv

StopTypes ==
  /\ faults \in Nat /\ onCheck \in Nat
  /\ ready \in BOOLEAN /\ lastStatus \in BOOLEAN

StopInv == StopTypes /\ (faults = 0 => Undisturbed)

LEMMA StopInit == Init => StopInv
<1> SUFFICES ASSUME Init PROVE StopInv
  OBVIOUS
<1>1. /\ ready /\ close /\ linked /\ ~run /\ ~error /\ ~stopped /\ ~event /\ ~trap /\ ~speedRight
      /\ ready \in BOOLEAN /\ lastStatus \in BOOLEAN
      /\ reader = "status" /\ pc = "top" /\ faults = 0 /\ onCheck = 0 /\ runCnt = 0
  BY Zenon DEF Init
<1>2. QED
  BY <1>1, SMT DEF StopInv, StopTypes, Undisturbed, LoopInv, ReaderInv, OffInv, SeenInv, UnseenInv,
     Unseen, Changed

\* What the counts need of the constants, and of the first invariant.
Counts == runCnt \in Nat /\ (~error => runCnt <= 1)

LEMMA ReaderStops ==
  ASSUME Undisturbed, StopTypes, Counts, Reader
  PROVE  Undisturbed' /\ StopTypes'
<1> USE DEF Undisturbed, StopTypes, Counts, LoopInv, ReaderInv, OffInv, SeenInv, UnseenInv, Unseen,
            Changed, LoopUntouched, loopVars, lineVars, WriteStart, WriteEnd
<1>1. CASE JudgeStatus
  BY <1>1, SMT DEF JudgeStatus
<1>2. CASE Kick
  BY <1>2, SMT DEF Kick
<1>3. CASE Trap
  BY <1>3, SMT DEF Trap
<1>4. CASE JudgeSpeed
  BY <1>4, SMT DEF JudgeSpeed
<1>5. CASE Scan
  BY <1>5, SMT DEF Scan
<1>6. CASE NoScan
  BY <1>6, SMT DEF NoScan
<1>7. QED
  BY <1>1, <1>2, <1>3, <1>4, <1>5, <1>6 DEF Reader

\* A start of the lidar, seen or not.
LEMMA LaunchStops ==
  ASSUME Undisturbed, StopTypes, Counts, pc \in {"dispatch", "recheck"}, ~run,
         NEW next \in {"start", "retry", "idleRetry"}, next # "start" => error, Launch(next),
         UNCHANGED <<run, error, onCheck, runCnt, trap, readerVars, event, lineVars>>
  PROVE  Undisturbed' /\ StopTypes'
<1>1. /\ ready' /\ ready' = TRUE /\ ~stopped' /\ pc' = next /\ close' = close
      /\ linked => spinning'
  BY Zenon DEF Launch, WriteStart
<1> USE DEF Undisturbed, StopTypes, Counts, LoopInv, ReaderInv, OffInv, SeenInv, UnseenInv, Unseen
<1>2. UNCHANGED <<run, error, onCheck, runCnt, trap, lastStatus, speedRight, reader, event, linked,
                  faults>>
  BY DEF readerVars, lineVars
<1>3. CASE ready
  <2>1. Changed' <=> Changed
    BY <1>1, <1>2, <1>3, Zenon DEF Changed
  <2>2. QED
    BY <1>1, <1>2, <1>3, <2>1, SMT
<1>4. CASE ~ready
  <2>1. close \/ ~lastStatus
    BY <1>4, SMT
  <2>2. Changed'
    <3>1. CASE close
      BY <1>1, <3>1, Zenon DEF Changed
    <3>2. CASE ~lastStatus
      <4>1. lastStatus = FALSE
        BY <3>2, Zenon DEF StopTypes
      <4>2. ready' # lastStatus'
        BY <1>1, <1>2, <4>1, Zenon
      <4>3. QED
        BY <4>2, Zenon DEF Changed
    <3>3. QED
      BY <2>1, <3>1, <3>2
  <2>3. reader \in {"status", "speed", "read"}
    BY <1>4, SMT
  <2>4. QED
    BY <1>1, <1>2, <1>4, <2>2, <2>3, SMT
<1>5. QED
  BY <1>3, <1>4

LEMMA TestsStop ==
  ASSUME Undisturbed, StopTypes, Counts, ErrorInv,
         Republish \/ TurnOn \/ TestAgain \/ TurnOff \/ Idle
  PROVE  Undisturbed' /\ StopTypes'
<1> USE DEF Undisturbed, StopTypes, Counts, LoopInv, ReaderInv, OffInv, SeenInv, UnseenInv, Unseen,
            Changed, SdkUntouched, loopVars, readerVars, lineVars, WriteStart, WriteEnd
<1>1. CASE Republish
  BY <1>1, SMT DEF Republish
<1>2. CASE TurnOn
  <2>1. /\ UNCHANGED <<run, error, onCheck, runCnt, trap, readerVars, event, lineVars>>
        /\ pc = "dispatch" /\ ~run
    BY <1>2 DEF TurnOn
  <2>2. CASE (error /\ Launch("retry")) \/ (~error /\ onCheck = 0 /\ Launch("start"))
    BY <2>1, <2>2, LaunchStops
  <2>3. CASE pc' = "start" /\ UNCHANGED <<ready, close, spinning, stopped>>
    BY <2>1, <2>3, SMT
  <2>4. QED
    BY <1>2, <2>2, <2>3, Zenon DEF TurnOn
<1>3. CASE TestAgain
  BY <1>3, SMT DEF TestAgain
<1>4. CASE TurnOff
  <2>1. /\ ~ready' /\ ready' \in BOOLEAN /\ close' /\ pc = "recheck" /\ pc' = "stop"
        /\ linked => ~spinning'
        /\ UNCHANGED <<run, error, onCheck, runCnt, trap, readerVars, event, lineVars, stopped>>
    BY <1>4, Zenon DEF TurnOff, EndWritten
  <2>2. Undisturbed
    OBVIOUS
  <2>3. reader \in {"status", "speed", "read"} /\ onCheck = 0 /\ runCnt <= 1
    BY <2>1, SMT DEF ErrorInv
  <2>4. LoopInv' /\ ReaderInv' /\ OffInv'
    BY <2>1, <2>3, SMT
  <2>5. SeenInv' /\ UnseenInv'
    BY <2>1, Zenon
  <2>6. StopTypes' /\ linked' /\ pc' # "down"
    BY <2>1, SMT
  <2>7. QED
    BY <2>4, <2>5, <2>6
<1>5. CASE Idle
  <2>1. /\ UNCHANGED <<run, error, onCheck, runCnt, trap, readerVars, event, lineVars>>
        /\ (pc = "dispatch" /\ ~run) \/ pc = "recheck"
    BY <1>5 DEF Idle
  <2>2. CASE error /\ Launch("idleRetry")
    <3>1. ~run
      BY <2>1, <2>2, SMT DEF ErrorInv
    <3>2. QED
      BY <2>1, <2>2, <3>1, LaunchStops
  <2>3. CASE pc' = "top" /\ UNCHANGED <<ready, close, spinning, stopped>>
    BY <2>1, <2>3, SMT
  <2>4. QED
    BY <1>5, <2>2, <2>3, Zenon DEF Idle
<1>6. QED
  BY <1>1, <1>2, <1>3, <1>4, <1>5

LEMMA WaitsStop ==
  ASSUME Undisturbed, StopTypes, Counts, ErrorInv, NEW good \in BOOLEAN,
         AfterStart(good) \/ AfterRetry(good) \/ AfterRun(good) \/ AfterStop(good)
  PROVE  Undisturbed' /\ StopTypes'
<1> USE DEF Undisturbed, StopTypes, Counts, LoopInv, ReaderInv, OffInv, SeenInv, UnseenInv, Unseen,
            Changed, DataHandling, CanScan, readerVars, lineVars
<1>1. CASE AfterStart(good)
  <2>1. /\ run' => good /\ onCheck + 1 >= Discard
        /\ error' => ~good
        /\ onCheck' = IF good /\ ~run' THEN onCheck + 1 ELSE 0
        /\ pc' = "top" /\ ~event'
        /\ good => event
        /\ UNCHANGED <<runCnt, ready, close, trap, readerVars, spinning, lineVars, stopped>>
    BY <1>1, Zenon DEF AfterStart
  <2>2. Discard \in Nat /\ Discard > 1 /\ ~(run' /\ error')
    BY <2>1, LidarConstants DEF LidarConstants
  <2>3. QED
    BY <1>1, <2>1, <2>2, SMT DEF AfterStart, ErrorInv
<1>2. CASE AfterRetry(good)
  <2>1. /\ run' => good /\ runCnt > Confirm
        /\ runCnt' = IF ~good THEN 0 ELSE IF runCnt > Confirm THEN 1 ELSE runCnt + 1
        /\ pc \in {"retry", "idleRetry"} /\ pc' = "top" /\ ~event'
        /\ good => event
        /\ UNCHANGED <<onCheck, ready, close, trap, readerVars, spinning, lineVars, stopped>>
    BY <1>2, Zenon DEF AfterRetry, AfterRelease, Released, RetryCount
  <2>2. Confirm \in Nat /\ Confirm >= 1
    BY LidarConstants, SMT DEF LidarConstants
  <2>3. QED
    BY <2>1, <2>2, SMT
<1>3. CASE AfterRun(good)
  BY <1>3, SMT DEF AfterRun
<1>4. CASE AfterStop(good)
  BY <1>4, SMT DEF AfterStop, StopSeen
<1>5. QED
  BY <1>1, <1>2, <1>3, <1>4

LEMMA OthersStop ==
  ASSUME Undisturbed, StopTypes, Counts,
         Shutdown \/ (\E on \in BOOLEAN : LidarCmdCallback(on)) \/ UNCHANGED vars
  PROVE  Undisturbed' /\ StopTypes'
<1> USE DEF Undisturbed, StopTypes, Counts, LoopInv, ReaderInv, OffInv, SeenInv, UnseenInv, Unseen,
            Changed, loopVars, readerVars, lineVars
<1>1. CASE Shutdown
  <2>1. /\ pc' = "down" /\ pc = "top" /\ (linked => ~spinning')
        /\ UNCHANGED <<loopVars, ready, lineVars, lastStatus, stopped>>
    BY <1>1, Zenon DEF Shutdown, WriteEnd
  <2>2. QED
    BY <2>1, SMT
<1>2. CASE \E on \in BOOLEAN : LidarCmdCallback(on)
  BY <1>2, SMT DEF LidarCmdCallback
<1>3. CASE UNCHANGED vars
  BY <1>3, SMT DEF vars
<1>4. QED
  BY <1>1, <1>2, <1>3

\* The types do not depend on the line.
LEMMA StopTypesStep ==
  ASSUME StopTypes, [Next]_vars
  PROVE  StopTypes' /\ (faults' = faults \/ LineChanges)
<1> USE DEF StopTypes, loopVars, readerVars, lineVars, SdkUntouched, LoopUntouched
<1>1. CASE LineChanges
  BY <1>1, SMT DEF LineChanges
<1>2. CASE Reader
  BY <1>2, SMT DEF Reader, JudgeStatus, Kick, Trap, JudgeSpeed, Scan, NoScan
<1>3. CASE Shutdown \/ Republish \/ TestAgain
  BY <1>3, SMT DEF Shutdown, Republish, TestAgain
<1>4. CASE TurnOn \/ TurnOff \/ Idle
  <2>1. UNCHANGED <<onCheck, lastStatus, faults>>
    BY <1>4, Zenon DEF TurnOn, TurnOff, Idle
  <2>2. ready' = ready \/ ready' = TRUE \/ ready' = FALSE
    BY <1>4, Zenon DEF TurnOn, TurnOff, Idle, Launch
  <2>3. QED
    BY <2>1, <2>2, Zenon
<1>5. ASSUME NEW good \in BOOLEAN, AfterStart(good) PROVE StopTypes' /\ faults' = faults
  BY <1>5, SMT DEF AfterStart, DataHandling
<1>6. ASSUME NEW good \in BOOLEAN, AfterRetry(good) \/ AfterRun(good) \/ AfterStop(good)
      PROVE  StopTypes' /\ faults' = faults
  BY <1>6, Zenon DEF AfterRetry, AfterRun, AfterStop, DataHandling
<1>7. CASE \E on \in BOOLEAN : LidarCmdCallback(on)
  BY <1>7, SMT DEF LidarCmdCallback
<1>8. CASE UNCHANGED vars
  BY <1>8, SMT DEF vars
<1>9. QED
  BY <1>1, <1>2, <1>3, <1>4, <1>5, <1>6, <1>7, <1>8, Zenon DEF Next, LidarThread

LEMMA StopStep ==
  ASSUME StopInv, Counters, ErrorInv, CountInv, [Next]_vars
  PROVE  StopInv'
<1>1. Counts /\ StopTypes /\ StopTypes'
  BY LidarConstants, StopTypesStep, SMT
     DEF LidarConstants, Counts, Counters, CountInv, StopInv
<1>2. CASE LineChanges
  <2>1. faults' = IF linked THEN faults + 1 ELSE faults
    BY <1>2 DEF LineChanges
  <2>2. faults' # 0
    BY <2>1, SMT DEF StopInv, StopTypes, Undisturbed
  <2>3. QED
    BY <1>1, <2>2 DEF StopInv
<1>3. CASE ~LineChanges
  <2> SUFFICES ASSUME faults' = 0 PROVE Undisturbed'
    BY <1>1 DEF StopInv
  <2>1. Undisturbed
    BY <1>3, StopTypesStep DEF StopInv
  <2>2. CASE Reader
    BY <1>1, <2>1, <2>2, ReaderStops
  <2>3. CASE Republish \/ TurnOn \/ TestAgain \/ TurnOff \/ Idle
    BY <1>1, <2>1, <2>3, TestsStop
  <2>4. ASSUME NEW good \in BOOLEAN,
               AfterStart(good) \/ AfterRetry(good) \/ AfterRun(good) \/ AfterStop(good)
        PROVE  Undisturbed'
    BY <1>1, <2>1, <2>4, WaitsStop
  <2>5. CASE Shutdown \/ (\E on \in BOOLEAN : LidarCmdCallback(on)) \/ UNCHANGED vars
    BY <1>1, <2>1, <2>5, OthersStop
  <2>6. QED
    BY <1>3, <2>2, <2>3, <2>4, <2>5, Zenon DEF Next, LidarThread
<1>4. QED
  BY <1>2, <1>3

(* A lidar whose stop was seen through stays still until lidar_thread      *)
(* starts it again: no start command of the reader thread overtakes the    *)
(* stop, for all numbers of discarded and of confirming readings above one.*)
THEOREM StoppedStaysStoppedHolds == Spec => []StoppedStaysStopped
<1>1. StopInv => StoppedStaysStopped
  BY DEF StopInv, Undisturbed, LoopInv, OffInv, StoppedStaysStopped
<1>2. QED
  BY StopInit, InvHolds, StopStep, <1>1, PTL DEF Spec
-----------------------------------------------------------------------------
(* Types: the flags of the two threads, and the ranges of the counters.    *)
Flags ==
  /\ cmd \in BOOLEAN /\ run \in BOOLEAN /\ error \in BOOLEAN /\ told \in BOOLEAN
  /\ republishing \in BOOLEAN /\ dirty \in BOOLEAN /\ stopped \in BOOLEAN
  /\ ready \in BOOLEAN /\ lastStatus \in BOOLEAN /\ close \in BOOLEAN
  /\ speedRight \in BOOLEAN /\ trap \in BOOLEAN /\ restartTry \in BOOLEAN
  /\ event \in BOOLEAN /\ spinning \in BOOLEAN /\ linked \in BOOLEAN

Places ==
  /\ pc \in {"top", "dispatch", "recheck", "down"} \cup Waiting
  /\ reader \in {"status", "kick", "speed", "kickAgain", "read"}

Ranges ==
  /\ onCheck \in 0..(Discard - 1)
  /\ startCnt \in 0..(Retries + 2)
  /\ runCnt \in 0..(Confirm + 1)
  /\ dirtyCnt \in 0..DirtyLimit /\ dirtyLeft \in 0..DirtyClear
  /\ faults \in 0..MaxFaults
  /\ goods \in 0..(Confirm + 2)

Limits ==
  /\ Discard \in Nat \ {0} /\ Confirm \in Nat \ {0} /\ DirtyClear \in Nat \ {0}
  /\ Retries \in Nat /\ DirtyLimit \in Nat /\ MaxFaults \in Nat

LEMMA LimitsHold == Limits
  BY LidarConstants DEF LidarConstants, Limits

LEMMA TypeInit == Init => Flags /\ Places /\ Ranges
<1> SUFFICES ASSUME Init PROVE Flags /\ Places /\ Ranges
  OBVIOUS
<1>1. Flags
  BY DEF Init, Flags
<1>2. Places
  BY DEF Init, Places
<1>3. Ranges
  BY LimitsHold DEF Init, Ranges, Limits
<1>4. QED
  BY <1>1, <1>2, <1>3

LEMMA Chosen ==
  ASSUME NEW x \in BOOLEAN, NEW y, y \in {x, TRUE, FALSE}
  PROVE  y \in BOOLEAN
  OBVIOUS

LEMMA FlagsStep == Flags /\ [Next]_vars => Flags'
<1> SUFFICES ASSUME Flags, [Next]_vars PROVE Flags'
  OBVIOUS
<1> USE DEF loopVars, dirtyVars, readerVars, lineVars, SdkUntouched, LoopUntouched
<1>1. CASE Republish
  <2>1. republishing' \in BOOLEAN
    BY <1>1 DEF Republish
  <2>2. QED
    BY <1>1, <2>1 DEF Republish, Flags
<1>2. CASE TurnOn \/ TestAgain
  <2>1. /\ ready' \in {ready, TRUE} /\ stopped' \in {stopped, FALSE}
        /\ spinning' \in {spinning, TRUE, FALSE}
    BY <1>2 DEF TurnOn, TestAgain, Launch, WriteStart
  <2>2. UNCHANGED <<loopVars, republishing, dirtyVars, close, trap, readerVars, event, lineVars>>
    BY <1>2 DEF TurnOn, TestAgain, Launch
  <2>3. ready' \in BOOLEAN /\ stopped' \in BOOLEAN /\ spinning' \in BOOLEAN
    BY <2>1, Chosen DEF Flags
  <2>4. QED
    BY <2>2, <2>3 DEF Flags, loopVars, dirtyVars, readerVars, lineVars
<1>3. CASE TurnOff \/ Idle
  <2>1. /\ ready' \in {ready, TRUE, FALSE} /\ stopped' \in {stopped, FALSE}
        /\ spinning' \in {spinning, TRUE, FALSE}
        /\ told' \in {told, FALSE} /\ close' \in {close, TRUE}
    BY <1>3 DEF TurnOff, Idle, EndWritten, Launch, WriteStart, WriteEnd
  <2>2. UNCHANGED <<cmd, run, error, republishing, dirtyVars, trap, readerVars, event, lineVars>>
    BY <1>3 DEF TurnOff, Idle
  <2>3. /\ ready' \in BOOLEAN /\ stopped' \in BOOLEAN /\ spinning' \in BOOLEAN /\ told' \in BOOLEAN
        /\ close' \in BOOLEAN
    BY <2>1, Chosen DEF Flags
  <2>4. QED
    BY <2>2, <2>3 DEF Flags, loopVars, dirtyVars, readerVars, lineVars
<1>4. ASSUME NEW good \in BOOLEAN, AfterStart(good) \/ AfterRetry(good) \/ AfterStop(good)
      PROVE  Flags'
  <2>1. /\ run' \in BOOLEAN /\ error' \in {error, TRUE, FALSE} /\ told' \in {told, FALSE}
        /\ stopped' \in {stopped, TRUE, FALSE} /\ event' = FALSE
    BY <1>4 DEF AfterStart, AfterRetry, AfterStop, AfterRelease, Released, StopSeen,
       DataHandling
  <2>2. UNCHANGED <<cmd, republishing, ready, close, trap, readerVars, spinning, lineVars,
                    dirtyVars>>
    BY <1>4 DEF AfterStart, AfterRetry, AfterStop, DataHandling
  <2>3. /\ run' \in BOOLEAN /\ error' \in BOOLEAN /\ told' \in BOOLEAN /\ stopped' \in BOOLEAN
        /\ event' \in BOOLEAN
    BY <2>1, Chosen DEF Flags
  <2>4. QED
    BY <2>2, <2>3 DEF Flags, loopVars, dirtyVars, readerVars, lineVars
<1>5. ASSUME NEW good \in BOOLEAN, AfterRun(good) PROVE Flags'
  <2>1. /\ run' \in BOOLEAN /\ error' \in BOOLEAN /\ told' \in BOOLEAN
        /\ dirty' \in {dirty, TRUE, FALSE} /\ event' = FALSE
    BY <1>5 DEF AfterRun, DataHandling, Contaminated, DirtySeen, Clean
  <2>2. UNCHANGED <<cmd, republishing, ready, close, trap, readerVars, spinning, lineVars,
                    stopped>>
    BY <1>5 DEF AfterRun, DataHandling
  <2>3. /\ run' \in BOOLEAN /\ error' \in BOOLEAN /\ told' \in BOOLEAN /\ dirty' \in BOOLEAN
        /\ event' \in BOOLEAN
    BY <2>1, Chosen DEF Flags
  <2>4. QED
    BY <2>2, <2>3 DEF Flags, loopVars, dirtyVars, readerVars, lineVars
<1>6. CASE Reader
  <2>1. /\ close' \in {close, FALSE} /\ lastStatus' \in {lastStatus, ready}
        /\ speedRight' \in {speedRight, TRUE, FALSE} /\ trap' \in {trap, TRUE, FALSE}
        /\ restartTry' \in {restartTry, TRUE, FALSE} /\ event' \in {event, TRUE}
        /\ spinning' \in {spinning, TRUE, FALSE}
    BY <1>6 DEF Reader, JudgeStatus, Kick, Trap, JudgeSpeed, Scan, NoScan, WriteStart, WriteEnd
  <2>2. UNCHANGED <<loopVars, republishing, dirtyVars, ready, lineVars, stopped>>
    BY <1>6 DEF Reader, JudgeStatus, Kick, Trap, JudgeSpeed, Scan, NoScan
  <2>3. close' \in BOOLEAN /\ lastStatus' \in BOOLEAN /\ event' \in BOOLEAN
    BY <2>1, Chosen DEF Flags
  <2>4. speedRight' \in BOOLEAN /\ trap' \in BOOLEAN
    BY <2>1, Chosen DEF Flags
  <2>5. restartTry' \in BOOLEAN /\ spinning' \in BOOLEAN
    BY <2>1, Chosen DEF Flags
  <2>6. QED
    BY <2>2, <2>3, <2>4, <2>5 DEF Flags, loopVars, dirtyVars, readerVars, lineVars
<1>7. CASE Shutdown \/ LineChanges
  <2>1. linked' \in {linked, TRUE, FALSE} /\ spinning' \in {spinning, TRUE, FALSE}
    BY <1>7 DEF Shutdown, LineChanges, WriteEnd
  <2>2. UNCHANGED <<loopVars, republishing, dirtyVars, ready, close, trap, readerVars,
                    event, stopped>>
    BY <1>7 DEF Shutdown, LineChanges
  <2>3. linked' \in BOOLEAN /\ spinning' \in BOOLEAN
    BY <2>1, Chosen DEF Flags
  <2>4. QED
    BY <2>2, <2>3 DEF Flags, loopVars, dirtyVars, readerVars, lineVars
<1>8. ASSUME NEW on \in BOOLEAN, LidarCmdCallback(on) PROVE Flags'
  BY <1>8 DEF LidarCmdCallback, Flags
<1>9. CASE UNCHANGED vars
  BY <1>9 DEF vars, Flags
<1>10. QED
  BY <1>1, <1>2, <1>3, <1>4, <1>5, <1>6, <1>7, <1>8, <1>9 DEF Next, LidarThread

LEMMA PlacesStep == Places /\ [Next]_vars => Places'
<1> SUFFICES ASSUME Places, [Next]_vars PROVE Places'
  OBVIOUS
<1> USE DEF Places, Waiting, readerVars, SdkUntouched, LoopUntouched, Launch
<1>1. CASE Republish \/ TurnOn \/ TestAgain \/ TurnOff \/ Idle
  BY <1>1 DEF Republish, TurnOn, TestAgain, TurnOff, Idle
<1>2. ASSUME NEW good \in BOOLEAN,
             AfterStart(good) \/ AfterRetry(good) \/ AfterRun(good) \/ AfterStop(good)
      PROVE  Places'
  BY <1>2 DEF AfterStart, AfterRetry, AfterRun, AfterStop, DataHandling
<1>3. CASE Reader
  BY <1>3 DEF Reader, JudgeStatus, Kick, Trap, JudgeSpeed, Scan, NoScan
<1>4. CASE Shutdown \/ LineChanges \/ \E on \in BOOLEAN : LidarCmdCallback(on)
  BY <1>4 DEF Shutdown, LineChanges, LidarCmdCallback
<1>5. CASE UNCHANGED vars
  BY <1>5 DEF vars
<1>6. QED
  BY <1>1, <1>2, <1>3, <1>4, <1>5 DEF Next, LidarThread

LEMMA RangesStep == Ranges /\ [Next]_vars => Ranges'
<1> SUFFICES ASSUME Ranges, [Next]_vars PROVE Ranges'
  OBVIOUS
<1> USE LimitsHold DEF Ranges, Limits, UpTo
<1>1. CASE Republish \/ TurnOn \/ TestAgain
  BY <1>1 DEF Republish, TurnOn, TestAgain, loopVars, dirtyVars, lineVars, SdkUntouched
<1>2. CASE TurnOff \/ Idle
  BY <1>2 DEF TurnOff, Idle, dirtyVars, lineVars, SdkUntouched
<1>3. ASSUME NEW good \in BOOLEAN, AfterStart(good) PROVE Ranges'
  <2>1. onCheck' \in 0..(Discard - 1)
    BY <1>3 DEF AfterStart
  <2>2. startCnt' \in 0..(Retries + 2)
    BY <1>3 DEF AfterStart
  <2>3. goods' = 0 /\ UNCHANGED <<runCnt, dirtyCnt, dirtyLeft, faults>>
    BY <1>3 DEF AfterStart, DataHandling, dirtyVars, lineVars
  <2>4. QED
    BY <2>1, <2>2, <2>3
<1>4. ASSUME NEW good \in BOOLEAN, AfterRetry(good) PROVE Ranges'
  <2>1. runCnt' \in 0..(Confirm + 1)
    BY <1>4 DEF AfterRetry, RetryCount
  <2>2. goods' \in 0..(Confirm + 2) /\ startCnt' \in 0..(Retries + 2)
    BY <1>4 DEF AfterRetry, Counted
  <2>3. UNCHANGED <<onCheck, dirtyCnt, dirtyLeft, faults>>
    BY <1>4 DEF AfterRetry, DataHandling, dirtyVars, lineVars
  <2>4. QED
    BY <2>1, <2>2, <2>3
<1>5. ASSUME NEW good \in BOOLEAN, AfterRun(good) PROVE Ranges'
  <2>1. dirtyCnt' \in 0..DirtyLimit /\ dirtyLeft' \in 0..DirtyClear
    BY <1>5 DEF AfterRun, Contaminated, DirtySeen, Clean, dirtyVars
  <2>2. goods' = 0 /\ UNCHANGED <<onCheck, startCnt, runCnt, faults>>
    BY <1>5 DEF AfterRun, DataHandling, lineVars
  <2>3. QED
    BY <2>1, <2>2
<1>6. ASSUME NEW good \in BOOLEAN, AfterStop(good) PROVE Ranges'
  BY <1>6 DEF AfterStop, DataHandling, dirtyVars, lineVars
<1>7. CASE Reader
  BY <1>7 DEF Reader, JudgeStatus, Kick, Trap, JudgeSpeed, Scan, NoScan, LoopUntouched,
     loopVars, dirtyVars, lineVars
<1>8. CASE Shutdown
  BY <1>8 DEF Shutdown, loopVars, dirtyVars, lineVars
<1>9. CASE LineChanges
  BY <1>9 DEF LineChanges, loopVars, dirtyVars
<1>10. ASSUME NEW on \in BOOLEAN, LidarCmdCallback(on) PROVE Ranges'
  BY <1>10 DEF LidarCmdCallback, dirtyVars, lineVars
<1>11. CASE UNCHANGED vars
  BY <1>11 DEF vars, loopVars, dirtyVars, lineVars
<1>12. QED
  BY <1>1, <1>2, <1>3, <1>4, <1>5, <1>6, <1>7, <1>8, <1>9, <1>10, <1>11
     DEF Next, LidarThread

(* Every variable of the driver, the reader and the lidar holds a value of *)
(* its type: no counter of lidar_thread leaves its range, whichever thread *)
(* steps when.                                                             *)
THEOREM TypesHold == Spec => []TypeOK
<1>1. Flags /\ Places /\ Ranges => TypeOK
  BY DEF Flags, Places, Ranges, TypeOK
<1>2. QED
  BY <1>1, TypeInit, FlagsStep, PlacesStep, RangesStep, PTL DEF Spec
=============================================================================
