-------------------------- MODULE TofCalibration --------------------------
(***************************************************************************)
(* The multizone ToF calibration end to end: requester (udp_interface),    *)
(* calibrator (sensor manager) and A1_perception, joined by topics that    *)
(* keep their own order and no order among each other.                     *)
(*                                                                         *)
(* Time: the 1 s timer of the self test is slow beside everything else, so *)
(* what was pending at one tick is dealt with before the next.             *)
(***************************************************************************)
EXTENDS Integers, Sequences

CONSTANTS
  Zones, Samples, SamplingCount, AttemptLimit, RenewalLimit, TopicDepth,
  GiveUp, MaxRounds, Modes

ASSUME SelfTestConstants ==
  /\ GiveUp \in Nat \ {0} /\ MaxRounds \in Nat
  /\ Modes \subseteq {"NORMAL", "AMR_JIG"} /\ Modes # {}

\* A session (300 samples, 64 attempts, 90 without news) is longer than the
\* backlog of a reader (10 messages), and a self test waits longer than the
\* seven ticks that commands, first states and data of both sides may be late.
ASSUME CalibrationConstants ==
  /\ Zones \in Nat \ {0}
  /\ Samples \subseteq [1..Zones -> {"dead", "same", "fresh"}]
  /\ {SamplingCount, AttemptLimit, RenewalLimit, TopicDepth} \subseteq Nat \ {0}
  /\ TopicDepth < SamplingCount /\ TopicDepth <= AttemptLimit
  /\ TopicDepth <= RenewalLimit + 1
  /\ GiveUp > 7

VARIABLES
  active, calibState, isDone, session, resultOf, request, stateTopic, dataTopic,
  arrayTopic,
  mode, udpThread, tofCalibState, calibCmd, selfTimer, calibTimer, resetCnt,
  dataDone, calibData, fileGenerated, startTopic, round, fileOf, answer,
  overdue,     \* duties pending since the last tick of the self test
  undisturbed  \* history: no jig, no switching of the node, no late report so far

Calibrator == INSTANCE TofCalibrator
Requester == INSTANCE TofSelfTest

Side == {"Left", "Right"}
calibratorVars == <<active, calibState, isDone, session, resultOf, request,
                    stateTopic, dataTopic, arrayTopic>>
selfTestVars == <<mode, udpThread, tofCalibState, calibCmd, selfTimer, calibTimer,
                  resetCnt, dataDone, calibData, fileGenerated, startTopic,
                  round, fileOf, answer>>
vars == <<calibratorVars, selfTestVars, overdue, undisturbed>>

Init ==
  /\ Calibrator!CalibratorInit /\ Requester!SelfTestInit
  /\ overdue = {}
  /\ undisturbed = (mode = "NORMAL")

Pending ==
  {duty \in {"start", "state", "data", "sample"} :
     \/ duty = "start" /\ startTopic # <<>>
     \/ duty = "state" /\ stateTopic # <<>>
     \/ duty = "data" /\ dataTopic # <<>>
     \/ duty = "sample" /\ active /\ calibState # "Inactive"}

Done(duty) == overdue' = overdue \ {duty}
-----------------------------------------------------------------------------
UdpThread ==
  /\ Requester!UdpThreadStep
  /\ undisturbed' = (undisturbed /\ mode' = "NORMAL")
  /\ UNCHANGED <<calibratorVars, overdue>>

StartArrives ==
  /\ startTopic # <<>>
  /\ startTopic' = Tail(startTopic)
  /\ Calibrator!StartTofcalib(Head(startTopic).side, Head(startTopic).of)
  /\ Done("start")
  /\ UNCHANGED <<mode, udpThread, tofCalibState, calibCmd, selfTimer, calibTimer,
                 resetCnt, dataDone, calibData, fileGenerated, round, fileOf, answer,
                 undisturbed>>

Calibrates ==
  /\ Calibrator!RunCalibration
  /\ Done("sample")
  /\ UNCHANGED <<selfTestVars, undisturbed>>

NodeSwitched ==
  /\ \E on \in BOOLEAN : Calibrator!CmdSensorManager(on)
  /\ undisturbed' = FALSE
  /\ UNCHANGED <<selfTestVars, overdue>>

StateArrives ==
  /\ stateTopic # <<>>
  /\ stateTopic' = Tail(stateTopic)
  /\ Requester!TofCalibStateCallback(Head(stateTopic))
  /\ Done("state")
  /\ UNCHANGED <<active, calibState, isDone, session, resultOf, request, dataTopic,
                 arrayTopic, undisturbed>>

DataArrives ==
  /\ dataTopic # <<>>
  /\ dataTopic' = Tail(dataTopic)
  /\ Requester!TofCalibDataCallback(Head(dataTopic).side, Head(dataTopic).of)
  /\ Done("data")
  /\ UNCHANGED <<active, calibState, isDone, session, resultOf, request, stateTopic,
                 arrayTopic, undisturbed>>

\* A1_perception (external) writes calibration.yaml from the array, or fails to,
\* and reports which.
PerceptionReports ==
  /\ arrayTopic # <<>>
  /\ arrayTopic' = Tail(arrayTopic)
  /\ \E generated \in BOOLEAN :
       Requester!CalibCompleteStateCallback(generated, Head(arrayTopic))
  /\ UNCHANGED <<active, calibState, isDone, session, resultOf, request, stateTopic,
                 dataTopic, overdue, undisturbed>>

CalibTick ==
  /\ \E copied \in BOOLEAN : Requester!TofCalibrationTimerCallback(copied)
  /\ UNCHANGED <<calibratorVars, overdue, undisturbed>>

\* A report still missing at the tick that gives up comes too late.
SelfTestTick ==
  /\ overdue = {}
  /\ Requester!SelftestCalibrationTimerCallback
  /\ overdue' = Pending
  /\ undisturbed' = (undisturbed /\ (Requester!GivesUp => arrayTopic = <<>>))
  /\ UNCHANGED calibratorVars

Next ==
  \/ UdpThread \/ StartArrives \/ Calibrates \/ NodeSwitched \/ StateArrives
  \/ DataArrives \/ PerceptionReports \/ CalibTick \/ SelfTestTick

Spec == Init /\ [][Next]_vars

\* Timers fire, both executors serve their topics, the UDP thread finishes what
\* it began and A1_perception reports.
FairSpec ==
  /\ Spec
  /\ WF_vars(StartArrives) /\ WF_vars(Calibrates) /\ WF_vars(StateArrives)
  /\ WF_vars(DataArrives) /\ WF_vars(PerceptionReports) /\ WF_vars(SelfTestTick)
  /\ WF_vars(UdpThread /\ udpThread # "idle")
-----------------------------------------------------------------------------
\* Every variable of the requester holds a value of its type.
TypeOK == Requester!SelfTestTypeOK

AllOf(n) == [side \in Side |-> n]

(* What an undisturbed self test answers was measured for the request it   *)
(* answers, on both sides: no result of an earlier request, and none       *)
(* missing, however states, data and ticks interleave.                     *)
AnswerOfThisRound ==
  undisturbed /\ answer.to = "soc" => answer.data = AllOf(answer.round)

(* An undisturbed self test reports success only once the calibration file *)
(* holds the measurements of this request.                                 *)
FileOfThisRound ==
  undisturbed /\ answer.to = "soc" /\ answer.passed =>
    answer.file = AllOf(answer.round)

(* Outside a self test no result waits to be mixed into the next one, once *)
(* the topics are read.                                                    *)
NothingLeftBehind ==
  undisturbed /\ ~selfTimer /\ udpThread = "idle" /\ calibState = "Inactive"
    /\ startTopic = <<>> /\ dataTopic = <<>> => \A side \in Side : ~dataDone[side]

(* Every self test comes to an end and frees the timer for the next one,   *)
(* if the sensor delivers in all zones or in none and nothing disturbs it. *)
SelfTestEnds == selfTimer ~> ~selfTimer \/ ~undisturbed

(* "AMR jig: the data is sent after the calibration file has been          *)
(* generated" (comment in tofCalibrationChecker).                          *)
JigAnswerAfterFile == answer.to = "jig" => answer.file = AllOf(answer.round)

(* The self test as the service it offers to the SoC, until it is disturbed. *)
Service == INSTANCE TofService WITH
  phase <- IF ~undisturbed THEN "off"
           ELSE IF udpThread # "idle" THEN "Left"
           ELSE IF selfTimer THEN calibCmd ELSE "idle",
  request <- IF undisturbed THEN round ELSE 0,
  answered <- IF undisturbed THEN [of |-> answer.round, data |-> answer.data]
              ELSE [of |-> 0, data |-> AllOf(0)]

ServiceKept == Service!ServiceSpec
=============================================================================
