---------------------------- MODULE TofSelfTest ----------------------------
(***************************************************************************)
(* The requester of the ToF calibration inside udp_communication.cpp.  The *)
(* self test the SoC asks for calibrates left, then right, waits for       *)
(* A1_perception's calibration file and answers with both results; a jig   *)
(* commands the sides one by one.  Requests come on the UDP thread, timer  *)
(* ticks and topic callbacks run on the executor thread.                   *)
(*                                                                         *)
(* tof_calibState is one byte, left in the low nibble, right in the high   *)
(* one; here it is a record of the two.                                    *)
(***************************************************************************)
EXTENDS Integers, Sequences

CONSTANTS
  GiveUp,      \* selftest_calib_timer_reset_cnt_ at which the self test ends
  MaxRounds,   \* calibrations begun in a behaviour
  Modes        \* communication modes of this instance: "NORMAL", "AMR_JIG"

Side == {"Left", "Right"}
Result == {"Running", "NonRenewal", "OutOfRange", "Unstable", "Pass"}
Failure == {"NonRenewal", "OutOfRange", "Unstable"}

VARIABLES
  mode,          \* communicationMode
  udpThread,     \* where directRequestCommand is: "idle", "cleared", "launched"
  tofCalibState, \* tof_calibState
  calibCmd,      \* temp_tof_calibcmd
  selfTimer,     \* selftest_calib_timer_ exists
  calibTimer,    \* tof_calib_timer_ exists
  resetCnt,      \* selftest_calib_timer_reset_cnt_
  dataDone,      \* left_/right_calib_data_set_done_
  calibData,     \* mtof_calib_data_: the round each side was measured in, 0 none
  fileGenerated, \* mtof_calib_file_generated_
  startTopic,    \* /start_tofcalib, oldest first
  \* History, read by properties only.
  round,         \* number of the calibration begun last
  fileOf,        \* rounds of the halves in the file reported last
  answer         \* the last result sent to the SoC or the jig

selfTestVars == <<mode, udpThread, tofCalibState, calibCmd, selfTimer, calibTimer,
                  resetCnt, dataDone, calibData, fileGenerated, startTopic,
                  round, fileOf, answer>>

NoRound == [side \in Side |-> 0]
Running(side) == [s \in Side |-> IF s = side THEN "Running" ELSE "None"]
Passed(side) == [s \in Side |-> IF s = side THEN "Pass" ELSE "None"]
NoAnswer == [to |-> "nobody", passed |-> FALSE, data |-> NoRound, file |-> NoRound,
             round |-> 0]

SelfTestInit ==
  /\ mode \in Modes
  /\ udpThread = "idle"
  /\ tofCalibState = [side \in Side |-> "None"]
  /\ calibCmd = "None"
  /\ selfTimer = FALSE /\ calibTimer = FALSE
  /\ resetCnt = 0
  /\ dataDone = [side \in Side |-> FALSE]
  /\ calibData = NoRound
  /\ fileGenerated = FALSE
  /\ startTopic = <<>>
  /\ round = 0
  /\ fileOf = NoRound
  /\ answer = NoAnswer
-----------------------------------------------------------------------------
(* UDP thread.  directRequestCommand clears the previous calibration, then *)
(* starts the left side, then arms the 1 s timer; the executor may run in  *)
(* between.  The done flags are not among what it clears.                  *)
RequestClear ==
  /\ mode = "NORMAL" /\ udpThread = "idle" /\ ~selfTimer
  /\ round < MaxRounds
  /\ round' = round + 1
  /\ fileGenerated' = FALSE
  /\ calibData' = NoRound
  /\ resetCnt' = 0
  /\ udpThread' = "cleared"
  /\ UNCHANGED <<mode, tofCalibState, calibCmd, selfTimer, calibTimer, dataDone,
                 startTopic, fileOf, answer>>

\* Only the nibble of the side that starts is written.
Start(side, of) ==
  /\ tofCalibState' = [tofCalibState EXCEPT ![side] = "Running"]
  /\ calibCmd' = side
  /\ startTopic' = Append(startTopic, [side |-> side, of |-> of])

RequestLaunch ==
  /\ udpThread = "cleared"
  /\ udpThread' = "launched"
  /\ Start("Left", round)
  /\ UNCHANGED <<mode, selfTimer, calibTimer, resetCnt, dataDone, calibData,
                 fileGenerated, round, fileOf, answer>>

RequestArm ==
  /\ udpThread = "launched"
  /\ udpThread' = "idle"
  /\ selfTimer' = TRUE
  /\ UNCHANGED <<mode, tofCalibState, calibCmd, calibTimer, resetCnt, dataDone,
                 calibData, fileGenerated, startTopic, round, fileOf, answer>>

\* jigCheckToFLeftOffsetSetup, jigCheckToFRightOffsetSetup: the jig begins a
\* calibration with the left side.  Bound: it commands a side once the last
\* command has reached the calibrator.
JigOffsetSetup(side) ==
  /\ mode = "AMR_JIG" /\ udpThread = "idle" /\ startTopic = <<>>
  /\ side = "Left" => round < MaxRounds
  /\ round' = IF side = "Left" THEN round + 1 ELSE round
  /\ Start(side, round')
  /\ calibTimer' = TRUE
  /\ UNCHANGED <<mode, udpThread, selfTimer, resetCnt, dataDone, calibData,
                 fileGenerated, fileOf, answer>>

\* setCommnicationMode: neither calibration timer is stopped.
SetCommunicationMode(m) ==
  /\ udpThread = "idle"
  /\ mode' = m
  /\ UNCHANGED <<udpThread, tofCalibState, calibCmd, selfTimer, calibTimer, resetCnt,
                 dataDone, calibData, fileGenerated, startTopic, round, fileOf, answer>>
-----------------------------------------------------------------------------
(* Executor thread: topic callbacks.                                       *)
TofCalibStateCallback(code) ==
  /\ tofCalibState' = code
  /\ UNCHANGED <<mode, udpThread, calibCmd, selfTimer, calibTimer, resetCnt, dataDone,
                 calibData, fileGenerated, startTopic, round, fileOf, answer>>

TofCalibDataCallback(side, of) ==
  /\ calibData' = [calibData EXCEPT ![side] = of]
  /\ dataDone' = [dataDone EXCEPT ![side] = TRUE]
  /\ UNCHANGED <<mode, udpThread, tofCalibState, calibCmd, selfTimer, calibTimer,
                 resetCnt, fileGenerated, startTopic, round, fileOf, answer>>

\* A report of failure takes the flag back and leaves the file that is there.
CalibCompleteStateCallback(generated, of) ==
  /\ fileGenerated' = generated
  /\ fileOf' = IF generated THEN of ELSE fileOf
  /\ UNCHANGED <<mode, udpThread, tofCalibState, calibCmd, selfTimer, calibTimer,
                 resetCnt, dataDone, calibData, startTopic, round, answer>>
-----------------------------------------------------------------------------
(* Executor thread: tofCalibrationTimerCallback.                           *)
Answer(to) == [to |-> to, passed |-> tofCalibState = Passed("Right"),
               data |-> calibData, file |-> fileOf, round |-> round]

Failed == \E side \in Side, f \in Failure :
            tofCalibState = [s \in Side |-> IF s = side THEN f ELSE "None"]

\* A state byte the switch of tofCalibrationChecker has a case for.
Known == \/ \E side \in Side : tofCalibState \in {Running(side), Passed(side)}
         \/ Failed

\* jigRight: the final answer for the right side, once the calibration file
\* is there and copied (copied: what copyFile says).
JigAnswersRight(copied) ==
  mode = "AMR_JIG" /\ calibCmd = "Right" /\ tofCalibState = Passed("Right")
    /\ fileGenerated /\ copied

\* tofCalibrationChecker: TRUE when the timer has nothing left to wait for.
CalibrationChecked ==
  \/ calibCmd = "None"
  \/ ~Known
  \/ Failed
  \/ tofCalibState = Passed("Left")
  \/ tofCalibState = Passed("Right") /\ fileGenerated /\ calibCmd = "Right"

TofCalibrationTimerCallback(copied) ==
  /\ calibTimer
  /\ calibTimer' = ~CalibrationChecked
  /\ answer' = IF JigAnswersRight(copied) THEN Answer("jig") ELSE answer
  /\ UNCHANGED <<mode, udpThread, tofCalibState, calibCmd, selfTimer, resetCnt,
                 dataDone, calibData, fileGenerated, startTopic, round, fileOf>>
-----------------------------------------------------------------------------
(* Executor thread: selftestCalibrationTimerCallback, every second.  It    *)
(* first sees to it that the other timer exists.                           *)
Ticks ==
  /\ selfTimer
  /\ calibTimer' = TRUE
  /\ UNCHANGED <<mode, udpThread, fileGenerated, round, fileOf>>

BothDone == \A side \in Side : dataDone[side]
Settled == tofCalibState \notin {Running("Left"), Running("Right"), Passed("Left")}

ForgetDataOnly ==   \* mutant: the done flags survive
  /\ calibData' = NoRound
  /\ selfTimer' = FALSE
  /\ UNCHANGED dataDone

ForgetButGoOn ==   \* mutant: the timer is not released
  /\ calibData' = NoRound
  /\ dataDone' = [side \in Side |-> FALSE]
  /\ UNCHANGED selfTimer

Forget ==
  /\ calibData' = NoRound
  /\ dataDone' = [side \in Side |-> FALSE]
  /\ selfTimer' = FALSE

\* Left is complete: the right side starts.
StartRight ==
  /\ Ticks
  /\ tofCalibState = Passed("Left")
  /\ Start("Right", round)
  /\ UNCHANGED <<selfTimer, resetCnt, dataDone, calibData, answer>>

AnswerableAnyFile == Settled /\ BothDone   \* mutant: the file is not waited for

\* A final state with both results; right complete waits for the file too.
Answerable ==
  Settled /\ BothDone /\ (tofCalibState = Passed("Right") => fileGenerated)

ReplyToSoC ==
  /\ Ticks
  /\ Answerable
  /\ answer' = Answer("soc")
  /\ Forget
  /\ UNCHANGED <<tofCalibState, calibCmd, resetCnt, startTopic>>

GivesUpLate == resetCnt >= GiveUp   \* mutant: compares before it counts
GivesUp == resetCnt + 1 >= GiveUp

\* A result or the file is still missing.
KeepWaiting ==
  /\ Ticks
  /\ Settled /\ ~Answerable
  /\ ~GivesUp
  /\ resetCnt' = resetCnt + 1
  /\ UNCHANGED <<tofCalibState, calibCmd, selfTimer, dataDone, calibData,
                 startTopic, answer>>

EndWithoutAnswer ==
  /\ Ticks
  /\ Settled /\ ~Answerable
  /\ GivesUp
  /\ resetCnt' = 0
  /\ Forget
  /\ UNCHANGED <<tofCalibState, calibCmd, startTopic, answer>>

\* A side is being calibrated: nothing to do, and no limit to how often.
SideIsRunning ==
  /\ Ticks
  /\ tofCalibState \in {Running("Left"), Running("Right")}
  /\ UNCHANGED <<tofCalibState, calibCmd, selfTimer, resetCnt, dataDone, calibData,
                 startTopic, answer>>

SelftestCalibrationTimerCallback ==
  StartRight \/ ReplyToSoC \/ KeepWaiting \/ EndWithoutAnswer \/ SideIsRunning
-----------------------------------------------------------------------------
UdpThreadStep ==
  \/ RequestClear \/ RequestLaunch \/ RequestArm
  \/ \E side \in Side : JigOffsetSetup(side)
  \/ \E m \in Modes : SetCommunicationMode(m)
-----------------------------------------------------------------------------
\* Every variable holds a value of its type; the tick counter stays below the
\* number of ticks at which the self test gives up.
SelfTestTypeOK ==
  /\ mode \in Modes
  /\ udpThread \in {"idle", "cleared", "launched"}
  /\ tofCalibState \in [Side -> Result \cup {"None"}]
  /\ calibCmd \in Side \cup {"None"}
  /\ selfTimer \in BOOLEAN /\ calibTimer \in BOOLEAN
  /\ resetCnt \in 0..(GiveUp - 1)
  /\ dataDone \in [Side -> BOOLEAN]
  /\ calibData \in [Side -> 0..MaxRounds]
  /\ fileGenerated \in BOOLEAN
  /\ startTopic \in Seq([side : Side, of : 0..MaxRounds])
  /\ round \in 0..MaxRounds
  /\ fileOf \in [Side -> 0..MaxRounds]
  /\ answer \in [to : {"nobody", "soc", "jig"}, passed : BOOLEAN,
                 data : [Side -> 0..MaxRounds], file : [Side -> 0..MaxRounds],
                 round : 0..MaxRounds]
=============================================================================
