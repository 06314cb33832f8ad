----------------------- MODULE TofCalibration_proofs -----------------------
(***************************************************************************)
(* Theorems about the ToF self test end to end, for any number of zones,   *)
(* samples, requests and unread messages.                                  *)
(***************************************************************************)
EXTENDS TofCalibration, SequenceTheorems, WellFoundedInduction, TLAPS

Final == Requester!Failure \cup {"Pass"}
Code(s, r) == [t \in Side |-> IF t = s THEN r ELSE "None"]

(* The ticks that have waited in vain so far.                              *)
Waited(n) == resetCnt <= n
Before(s) == IF s = "Left" THEN 0 ELSE 3
Due(duty) == IF duty \in overdue THEN 1 ELSE 0

(* Where a test in which side s was started last stands.  Its data:        *)
Kept(s) == dataDone[s] /\ calibData[s] = round
Waits(i, s) == dataTopic[i].side = s /\ dataTopic[i].of = round

\* The left side's data may still be unread when the right side starts, but it
\* is read before the next tick.
LeftMeasured(due) ==
  /\ ~dataDone["Right"]
  /\ \/ Len(dataTopic) = 1 /\ Waits(1, "Left") /\ ~dataDone["Left"] /\ due
     \/ Len(dataTopic) = 0 /\ Kept("Left")

Unmeasured(s) ==
  IF s = "Left" THEN Len(dataTopic) = 0 /\ ~dataDone["Left"] /\ ~dataDone["Right"]
  ELSE LeftMeasured("data" \in overdue /\ Waited(3))

Measured(s) ==
  IF s = "Left" THEN LeftMeasured(TRUE)
  ELSE \/ /\ Len(dataTopic) = 2 /\ Waits(1, "Left") /\ Waits(2, "Right")
          /\ "data" \in overdue /\ Waited(3)
          /\ ~dataDone["Left"] /\ ~dataDone["Right"]
       \/ /\ Len(dataTopic) = 1 /\ Waits(1, "Right") /\ ~dataDone["Right"]
          /\ Kept("Left")
       \/ Len(dataTopic) = 0 /\ Kept("Left") /\ Kept("Right")

(* The file: still to be written, there, or reported as failed.            *)
NoFile == arrayTopic = <<>> /\ ~fileGenerated
Filed ==
  \/ Len(arrayTopic) = 1 /\ arrayTopic[1] = AllOf(round) /\ ~fileGenerated
  \/ arrayTopic = <<>> /\ (fileGenerated => fileOf = AllOf(round))

Outcome(s, r) ==
  /\ Measured(s)
  /\ IF s = "Right" /\ r = "Pass" THEN Filed ELSE NoFile
  /\ s = "Left" /\ r = "Pass" => isDone["Left"] /\ resultOf["Left"] = round

Started(s) ==
  IF s = "Left" THEN tofCalibState["Left"] = "Running"
  ELSE tofCalibState["Left"] = "Pass" /\ tofCalibState["Right"] = "Running"

Resting ==
  /\ udpThread \in {"idle", "cleared"} /\ ~selfTimer
  /\ startTopic = <<>> /\ stateTopic = <<>> /\ dataTopic = <<>> /\ arrayTopic = <<>>
  /\ calibState = "Inactive"
  /\ ~dataDone["Left"] /\ ~dataDone["Right"]
  /\ udpThread = "cleared" => resetCnt = 0 /\ ~fileGenerated /\ answer.round < round

InTest(s) ==
  /\ calibCmd = s
  /\ \/ udpThread = "launched" /\ ~selfTimer /\ s = "Left"
     \/ udpThread = "idle" /\ selfTimer
  /\ answer.round < round

Awaited(s) ==
  /\ InTest(s) /\ Unmeasured(s) /\ NoFile
  /\ s = "Right" => isDone["Left"] /\ resultOf["Left"] = round

Commanded(s) ==
  /\ Awaited(s)
  /\ Len(startTopic) = 1 /\ startTopic[1].side = s /\ startTopic[1].of = round
  /\ calibState = "Inactive" /\ stateTopic = <<>>
  /\ Started(s)
  /\ Waited(Before(s) + Due("start"))

Calibrating(s) ==
  /\ Awaited(s)
  /\ startTopic = <<>>
  /\ calibState = s /\ request = round /\ ~isDone[s]
  /\ \A i \in 1..Len(stateTopic) : stateTopic[i] = Code(s, "Running")

Unseen(s) ==
  /\ Calibrating(s) /\ Started(s)
  /\ session.attempts = Len(stateTopic)
  /\ session.samples <= session.attempts
  /\ \A z \in Calibrator!Zone :
       session.stale[z] <= session.attempts
         /\ (session.pushed[z] => session.stale[z] < session.attempts)
  /\ Waited(Before(s) + IF stateTopic = <<>> THEN 1 + Due("sample") ELSE 2 + Due("state"))

Seen(s) ==
  /\ Calibrating(s)
  /\ tofCalibState = Code(s, "Running")
  /\ Waited(Before(s) + 3)

Judged(s, r) ==
  /\ InTest(s) /\ startTopic = <<>> /\ calibState = "Inactive"
  /\ Len(stateTopic) > 0
  /\ \A i \in 1..(Len(stateTopic) - 1) : stateTopic[i] = Code(s, "Running")
  /\ stateTopic[Len(stateTopic)] = Code(s, r)
  /\ tofCalibState = Code(s, "Running")
  /\ Outcome(s, r)
  /\ Waited(Before(s) + 3)

Known(s, r) ==
  /\ InTest(s) /\ startTopic = <<>> /\ calibState = "Inactive"
  /\ stateTopic = <<>> /\ tofCalibState = Code(s, r)
  /\ Outcome(s, r)
  /\ \/ dataTopic = <<>> /\ ~(s = "Left" /\ r = "Pass")
     \/ Waited(Before(s) + 3 + Due("data")) /\ ~(s = "Left" /\ r = "Pass")
     \/ Waited(Before(s) + 3)

InStage ==
  \/ Resting
  \/ \E s \in Side : \/ Commanded(s) \/ Unseen(s) \/ Seen(s)
                     \/ \E r \in Final : Judged(s, r) \/ Known(s, r)

Standing ==
  /\ mode = "NORMAL" /\ active /\ ~isDone["Right"]
  /\ answer.to = "soc" => answer.data = AllOf(answer.round)
  /\ answer.to = "soc" /\ answer.passed => answer.file = AllOf(answer.round)
  /\ answer.to # "soc" => answer.round = 0 /\ answer.data = AllOf(0)
  /\ answer.round <= round

TestInv == undisturbed => Standing /\ InStage
-----------------------------------------------------------------------------
(* Types of both ends and the topics between them.                         *)
Rounds == 0..MaxRounds
Datum == [side : Side, result : Requester!Result, of : Rounds]

TopicTypes ==
  /\ stateTopic \in Seq([Side -> Requester!Result \cup {"None"}])
  /\ dataTopic \in Seq(Datum)
  /\ arrayTopic \in Seq([Side -> Rounds])

CalibratorTypes ==
  /\ active \in BOOLEAN
  /\ calibState \in Side \cup {"Inactive"}
  /\ isDone \in [Side -> BOOLEAN]
  /\ resultOf \in [Side -> Rounds]
  /\ request \in Rounds

SessionTypes ==
  session \in [attempts : Nat, samples : Nat,
               pushed : [Calibrator!Zone -> BOOLEAN], stale : [Calibrator!Zone -> Nat]]

TypeInv ==
  /\ TypeOK /\ TopicTypes /\ CalibratorTypes /\ SessionTypes
  /\ undisturbed \in BOOLEAN

Answers == [to : {"nobody", "soc", "jig"}, passed : BOOLEAN,
            data : [Requester!Side -> Rounds], file : [Requester!Side -> Rounds],
            round : Rounds]

LEMMA Sides ==
  /\ Side = {"Left", "Right"} /\ Requester!Side = Side /\ Calibrator!Side = Side
  /\ Calibrator!Result = Requester!Result
  BY DEF Side, Requester!Side, Calibrator!Side, Calibrator!Result, Calibrator!Verdict,
     Requester!Result

LEMMA NoRounds ==
  /\ Requester!NoRound \in [Requester!Side -> Rounds]
  /\ Requester!NoAnswer \in Answers
<1>1. 0 \in Rounds
  BY SelfTestConstants DEF SelfTestConstants, Rounds
<1>2. Requester!NoRound \in [Requester!Side -> Rounds]
  BY <1>1 DEF Requester!NoRound
<1>3. QED
  BY <1>1, <1>2 DEF Requester!NoAnswer, Answers

LEMMA TypeInit == Init => TypeInv
<1> SUFFICES ASSUME Init PROVE TypeInv
  OBVIOUS
<1> USE SelfTestConstants DEF SelfTestConstants
<1>1. TypeOK
  <2> USE DEF Init, Requester!SelfTestInit
  <2>1. tofCalibState \in [Requester!Side -> Requester!Result \cup {"None"}]
    OBVIOUS
  <2>2. dataDone \in [Requester!Side -> BOOLEAN]
    OBVIOUS
  <2>3. calibData \in [Requester!Side -> Rounds] /\ fileOf \in [Requester!Side -> Rounds]
    BY NoRounds
  <2>4. answer \in Answers
    BY NoRounds
  <2>5. startTopic \in Seq([side : Requester!Side, of : 0..MaxRounds])
    OBVIOUS
  <2>6. resetCnt \in 0..(GiveUp - 1) /\ round \in 0..MaxRounds
    OBVIOUS
  <2>7. QED
    BY <2>1, <2>2, <2>3, <2>4, <2>5, <2>6
       DEF TypeOK, Requester!SelfTestTypeOK, Rounds, Answers
<1>2. TopicTypes /\ CalibratorTypes
  BY Sides DEF Init, TopicTypes, CalibratorTypes, Calibrator!CalibratorInit, Rounds
<1>3. SessionTypes
  BY DEF Init, SessionTypes, Calibrator!CalibratorInit, Calibrator!NewSession
<1>4. undisturbed \in BOOLEAN
  BY DEF Init
<1>5. QED
  BY <1>1, <1>2, <1>3, <1>4 DEF TypeInv

-----------------------------------------------------------------------------
\* Codes and records the steps build.
LEMMA CodeTypes ==
  ASSUME NEW s \in Side, NEW r \in Requester!Result
  PROVE  /\ Code(s, r) \in [Requester!Side -> Requester!Result \cup {"None"}]
         /\ Calibrator!MakeMTofState(s, r) = Code(s, r)
  BY Sides DEF Code, Calibrator!MakeMTofState

LEMMA StartTypes ==
  ASSUME TypeOK, NEW s \in Side, NEW n \in Rounds, Requester!Start(s, n)
  PROVE  /\ tofCalibState' \in [Requester!Side -> Requester!Result \cup {"None"}]
         /\ calibCmd' \in Requester!Side \cup {"None"}
         /\ startTopic' \in Seq([side : Requester!Side, of : 0..MaxRounds])
  BY Sides DEF TypeOK, Requester!SelfTestTypeOK, Requester!Start, Rounds, Requester!Result

LEMMA UdpThreadTypes == TypeInv /\ UdpThread => TypeInv'
<1> SUFFICES ASSUME TypeInv, UdpThread PROVE TypeInv'
  OBVIOUS
<1> USE DEF TypeInv
<1>1. TypeOK'
  <2>1. round \in Rounds /\ round + 1 \in Int
    BY SelfTestConstants DEF SelfTestConstants, TypeOK, Requester!SelfTestTypeOK, Rounds
  <2>2. CASE Requester!RequestClear
    <3>1. round' \in Rounds /\ resetCnt' \in 0..(GiveUp - 1)
      BY <2>1, <2>2, SelfTestConstants DEF SelfTestConstants, Requester!RequestClear, Rounds
    <3>2. calibData' \in [Requester!Side -> Rounds]
      BY <2>2, NoRounds DEF Requester!RequestClear
    <3>3. QED
      BY <2>2, <3>1, <3>2
         DEF Requester!RequestClear, TypeOK, Requester!SelfTestTypeOK, Rounds
  <2>3. CASE Requester!RequestLaunch
    BY <2>1, <2>3, StartTypes, Sides
       DEF Requester!RequestLaunch, TypeOK, Requester!SelfTestTypeOK
  <2>4. CASE Requester!RequestArm
    BY <2>4 DEF Requester!RequestArm, TypeOK, Requester!SelfTestTypeOK
  <2>5. ASSUME NEW s \in Requester!Side, Requester!JigOffsetSetup(s)
        PROVE  TypeOK'
    <3>1. round' \in Rounds
      BY <2>1, <2>5, SelfTestConstants
         DEF SelfTestConstants, Rounds, Requester!JigOffsetSetup
    <3>2. Requester!Start(s, round')
      BY <2>5 DEF Requester!JigOffsetSetup
    <3>3. QED
      BY <2>5, <3>1, <3>2, StartTypes, Sides
         DEF Requester!JigOffsetSetup, TypeOK, Requester!SelfTestTypeOK, Rounds
  <2>6. ASSUME NEW m \in Modes, Requester!SetCommunicationMode(m)
        PROVE  TypeOK'
    BY <2>6 DEF Requester!SetCommunicationMode, TypeOK, Requester!SelfTestTypeOK
  <2>7. QED
    BY <2>2, <2>3, <2>4, <2>5, <2>6 DEF UdpThread, Requester!UdpThreadStep
<1>2. TopicTypes' /\ CalibratorTypes' /\ SessionTypes'
  BY DEF UdpThread, calibratorVars, TopicTypes, CalibratorTypes, SessionTypes
<1>3. undisturbed' \in BOOLEAN
  BY DEF UdpThread
<1>4. QED
  BY <1>1, <1>2, <1>3

LEMMA ForgetTypes ==
  ASSUME Requester!Forget
  PROVE  /\ calibData' \in [Requester!Side -> Rounds]
         /\ dataDone' \in [Requester!Side -> BOOLEAN]
         /\ selfTimer' \in BOOLEAN
  BY NoRounds DEF Requester!Forget

LEMMA AnswerTypes ==
  ASSUME TypeOK, NEW to \in {"soc", "jig"}
  PROVE  Requester!Answer(to) \in Answers
  BY DEF TypeOK, Requester!SelfTestTypeOK, Requester!Answer, Answers, Rounds

LEMMA TickTypes == TypeInv /\ SelfTestTick => TypeInv'
<1> SUFFICES ASSUME TypeInv, SelfTestTick PROVE TypeInv'
  OBVIOUS
<1> USE DEF TypeInv, Requester!Ticks
<1>1. TypeOK'
  <2>1. round \in Rounds /\ 0 \in 0..(GiveUp - 1) /\ GiveUp \in Nat
    BY SelfTestConstants DEF SelfTestConstants, TypeOK, Requester!SelfTestTypeOK, Rounds
  <2>2. CASE Requester!StartRight
    BY <2>1, <2>2, StartTypes, Sides
       DEF Requester!StartRight, TypeOK, Requester!SelfTestTypeOK
  <2>3. CASE Requester!ReplyToSoC
    <3>1. answer' \in Answers
      BY <2>3, AnswerTypes DEF Requester!ReplyToSoC
    <3>2. QED
      BY <2>3, <3>1, ForgetTypes
         DEF Requester!ReplyToSoC, TypeOK, Requester!SelfTestTypeOK, Answers, Rounds
  <2>4. CASE Requester!KeepWaiting
    <3>1. resetCnt' \in 0..(GiveUp - 1)
      BY <2>1, <2>4 DEF Requester!KeepWaiting, Requester!GivesUp, TypeOK,
                        Requester!SelfTestTypeOK
    <3>2. QED
      BY <2>4, <3>1 DEF Requester!KeepWaiting, TypeOK, Requester!SelfTestTypeOK
  <2>5. CASE Requester!EndWithoutAnswer
    BY <2>1, <2>5, ForgetTypes
       DEF Requester!EndWithoutAnswer, TypeOK, Requester!SelfTestTypeOK, Rounds
  <2>6. CASE Requester!SideIsRunning
    BY <2>6 DEF Requester!SideIsRunning, TypeOK, Requester!SelfTestTypeOK
  <2>7. QED
    BY <2>2, <2>3, <2>4, <2>5, <2>6
       DEF SelfTestTick, Requester!SelftestCalibrationTimerCallback
<1>2. TopicTypes' /\ CalibratorTypes' /\ SessionTypes'
  BY DEF SelfTestTick, calibratorVars, TopicTypes, CalibratorTypes, SessionTypes
<1>3. undisturbed' \in BOOLEAN
  BY DEF SelfTestTick
<1>4. QED
  BY <1>1, <1>2, <1>3

\* The tick counter as the arithmetic of the budgets needs it.
LEMMA TickCount == TypeInv => resetCnt \in Int
  BY SelfTestConstants DEF SelfTestConstants, TypeInv, TypeOK, Requester!SelfTestTypeOK

LEMMA CallbackTypes ==
  TypeInv /\ (StateArrives \/ DataArrives \/ PerceptionReports \/ CalibTick) => TypeInv'
<1> SUFFICES ASSUME TypeInv, StateArrives \/ DataArrives \/ PerceptionReports \/ CalibTick
    PROVE TypeInv'
  OBVIOUS
<1> USE DEF TypeInv, TypeOK, Requester!SelfTestTypeOK
<1>1. CASE StateArrives
  <2>1. /\ Head(stateTopic) \in [Requester!Side -> Requester!Result \cup {"None"}]
        /\ Tail(stateTopic) \in Seq([Side -> Requester!Result \cup {"None"}])
    <3> DEFINE State == [Side -> Requester!Result \cup {"None"}]
    <3>1. stateTopic \in Seq(State) /\ stateTopic # <<>>
      BY <1>1 DEF StateArrives, TopicTypes
    <3> HIDE DEF State, TypeInv
    <3>2. Head(stateTopic) \in State /\ Tail(stateTopic) \in Seq(State)
      BY <3>1, HeadTailProperties
    <3>3. QED
      BY <3>2, Sides DEF State
  <2>2. TypeOK'
    BY <1>1, <2>1 DEF StateArrives, Requester!TofCalibStateCallback
  <2>3. TopicTypes'
    BY <1>1, <2>1 DEF StateArrives, TopicTypes
  <2>4. CalibratorTypes' /\ SessionTypes' /\ undisturbed' \in BOOLEAN
    BY <1>1 DEF StateArrives, CalibratorTypes, SessionTypes
  <2>5. QED
    BY <2>2, <2>3, <2>4
<1>2. CASE DataArrives
  <2>1. Head(dataTopic) \in Datum /\ Tail(dataTopic) \in Seq(Datum)
    BY <1>2 DEF DataArrives, TopicTypes
  <2>2. TypeOK'
    <3>1. Head(dataTopic).side \in Requester!Side /\ Head(dataTopic).of \in 0..MaxRounds
      BY <2>1, Sides DEF Datum, Rounds
    <3>2. /\ calibData' \in [Requester!Side -> 0..MaxRounds]
          /\ dataDone' \in [Requester!Side -> BOOLEAN]
      BY <1>2, <3>1 DEF DataArrives, Requester!TofCalibDataCallback
    <3>3. QED
      BY <1>2, <3>2 DEF DataArrives, Requester!TofCalibDataCallback
  <2>3. TopicTypes' /\ CalibratorTypes' /\ SessionTypes' /\ undisturbed' \in BOOLEAN
    BY <1>2, <2>1 DEF DataArrives, TopicTypes, CalibratorTypes, SessionTypes
  <2>4. QED
    BY <2>2, <2>3
<1>3. CASE PerceptionReports
  <2>1. Head(arrayTopic) \in [Side -> Rounds] /\ Tail(arrayTopic) \in Seq([Side -> Rounds])
    BY <1>3 DEF PerceptionReports, TopicTypes
  <2>2. TypeOK'
    BY <1>3, <2>1, Sides DEF PerceptionReports, Requester!CalibCompleteStateCallback, Rounds
  <2>3. TopicTypes' /\ CalibratorTypes' /\ SessionTypes' /\ undisturbed' \in BOOLEAN
    BY <1>3, <2>1 DEF PerceptionReports, TopicTypes, CalibratorTypes, SessionTypes
  <2>4. QED
    BY <2>2, <2>3
<1>4. CASE CalibTick
  <2>1. PICK copied \in BOOLEAN : Requester!TofCalibrationTimerCallback(copied)
    BY <1>4 DEF CalibTick
  <2>2. answer' \in Answers
    <3>1. answer \in Answers
      BY DEF Answers, Rounds
    <3>2. QED
      BY <2>1, <3>1, AnswerTypes DEF Requester!TofCalibrationTimerCallback
  <2>3. TypeOK'
    BY <2>1, <2>2 DEF Requester!TofCalibrationTimerCallback, Answers, Rounds,
       Requester!CalibrationChecked
  <2>4. TopicTypes' /\ CalibratorTypes' /\ SessionTypes' /\ undisturbed' \in BOOLEAN
    BY <1>4 DEF CalibTick, calibratorVars, TopicTypes, CalibratorTypes, SessionTypes
  <2>5. QED
    BY <2>3, <2>4
<1>5. QED
  BY <1>1, <1>2, <1>3, <1>4

LEMMA NewSessionType ==
  Calibrator!NewSession \in [attempts : Nat, samples : Nat,
                             pushed : [Calibrator!Zone -> BOOLEAN],
                             stale : [Calibrator!Zone -> Nat]]
  BY DEF Calibrator!NewSession

LEMMA AfterSampleType ==
  ASSUME SessionTypes, NEW sample
  PROVE  Calibrator!AfterSample(sample) \in
           [attempts : Nat, samples : Nat,
            pushed : [Calibrator!Zone -> BOOLEAN], stale : [Calibrator!Zone -> Nat]]
<1> DEFINE after == Calibrator!AfterSample(sample)
<1> USE DEF SessionTypes
<1>1. after.attempts \in Nat
  BY CalibrationConstants
     DEF CalibrationConstants, Calibrator!AfterSample, Calibrator!CountedAttempt
<1>2. after.samples \in Nat
  BY DEF Calibrator!AfterSample
<1>3. after.pushed \in [Calibrator!Zone -> BOOLEAN]
  BY DEF Calibrator!AfterSample
<1>4. after.stale \in [Calibrator!Zone -> Nat]
  BY DEF Calibrator!AfterSample, Calibrator!Staleness
<1>5. after = [attempts |-> after.attempts, samples |-> after.samples,
               pushed |-> after.pushed, stale |-> after.stale]
  BY DEF Calibrator!AfterSample
<1>6. QED
  BY <1>1, <1>2, <1>3, <1>4, <1>5

LEMMA StartArrivesTypes == TypeInv /\ StartArrives => TypeInv'
<1> SUFFICES ASSUME TypeInv, StartArrives PROVE TypeInv'
  OBVIOUS
<1> USE DEF TypeInv, StartArrives
<1> DEFINE Command == [side : Requester!Side, of : 0..MaxRounds]
<1>1. Head(startTopic) \in Command /\ Tail(startTopic) \in Seq(Command)
  <2>1. startTopic \in Seq(Command) /\ startTopic # <<>>
    BY DEF TypeOK, Requester!SelfTestTypeOK
  <2> HIDE DEF TypeInv, StartArrives, Command
  <2>2. QED
    BY <2>1
<1>2. TypeOK'
  BY <1>1 DEF TypeOK, Requester!SelfTestTypeOK
<1>3. Head(startTopic).side \in Side /\ Head(startTopic).of \in Rounds
  BY <1>1, Sides DEF Rounds
<1> USE DEF Calibrator!StartTofcalib
<1>4. CalibratorTypes'
  BY <1>3 DEF CalibratorTypes
<1>5. TopicTypes'
  BY DEF TopicTypes
<1>6. SessionTypes'
  BY NewSessionType DEF SessionTypes
<1>7. undisturbed' \in BOOLEAN
  OBVIOUS
<1>8. QED
  BY <1>2, <1>4, <1>5, <1>6, <1>7

LEMMA CalibratesTypes == TypeInv /\ Calibrates => TypeInv'
<1> SUFFICES ASSUME TypeInv, Calibrates PROVE TypeInv'
  OBVIOUS
<1> USE DEF TypeInv
<1>1. PICK sample \in Samples, result \in Calibrator!Result :
        Calibrator!RunMultizoneToFCalibration(sample, result)
  BY DEF Calibrates, Calibrator!RunCalibration
<1>2. TypeOK'
  BY DEF Calibrates, TypeOK, Requester!SelfTestTypeOK, selfTestVars
<1> USE <1>1 DEF Calibrator!RunMultizoneToFCalibration
<1>3. SessionTypes'
  BY AfterSampleType DEF SessionTypes
<1>4. calibState \in Side /\ result \in Requester!Result /\ request \in Rounds
  BY Sides DEF CalibratorTypes
<1>5. CalibratorTypes'
  <2>1. resultOf' \in [Side -> Rounds]
    BY <1>4 DEF CalibratorTypes
  <2>2. isDone' \in [Side -> BOOLEAN]
    BY <1>4, Sides DEF CalibratorTypes, Calibrator!HandedOver
  <2>3. QED
    BY <1>4, <2>1, <2>2 DEF CalibratorTypes
<1>6. TopicTypes'
  <2>1. stateTopic' \in Seq([Side -> Requester!Result \cup {"None"}])
    <3>1. Calibrator!MakeMTofState(calibState, result)
            \in [Side -> Requester!Result \cup {"None"}]
      BY <1>4, CodeTypes, Sides
    <3>2. QED
      BY <3>1 DEF TopicTypes
  <2>2. dataTopic' \in Seq(Datum)
    <3>1. [side |-> calibState, result |-> result, of |-> request] \in Datum
      BY <1>4 DEF Datum
    <3>2. QED
      BY <3>1 DEF TopicTypes
  <2>3. arrayTopic' \in Seq([Side -> Rounds])
    <3>1. resultOf' \in [Side -> Rounds]
      BY <1>5 DEF CalibratorTypes
    <3>2. arrayTopic' = arrayTopic \/ arrayTopic' = Append(arrayTopic, resultOf')
      OBVIOUS
    <3>3. arrayTopic \in Seq([Side -> Rounds])
      BY DEF TopicTypes
    <3> HIDE <1>1 DEF TypeInv, Calibrator!RunMultizoneToFCalibration
    <3>4. QED
      BY <3>1, <3>2, <3>3
  <2>4. QED
    BY <2>1, <2>2, <2>3 DEF TopicTypes
<1>7. undisturbed' \in BOOLEAN
  BY DEF Calibrates
<1>8. QED
  BY <1>2, <1>3, <1>5, <1>6, <1>7

LEMMA TypeStep == TypeInv /\ [Next]_vars => TypeInv'
<1> SUFFICES ASSUME TypeInv, [Next]_vars PROVE TypeInv'
  OBVIOUS
<1>1. CASE NodeSwitched
  <2>1. TypeOK'
    BY <1>1 DEF NodeSwitched, TypeInv, TypeOK, Requester!SelfTestTypeOK, selfTestVars
  <2>2. TopicTypes' /\ CalibratorTypes' /\ SessionTypes' /\ undisturbed' \in BOOLEAN
    BY <1>1 DEF NodeSwitched, Calibrator!CmdSensorManager, TypeInv, TopicTypes,
       CalibratorTypes, SessionTypes
  <2>3. QED
    BY <2>1, <2>2 DEF TypeInv
<1>2. CASE UNCHANGED vars
  <2>1. TypeOK'
    BY <1>2 DEF vars, TypeInv, TypeOK, Requester!SelfTestTypeOK, selfTestVars
  <2>2. TopicTypes' /\ CalibratorTypes' /\ SessionTypes' /\ undisturbed' \in BOOLEAN
    BY <1>2 DEF vars, calibratorVars, TypeInv, TopicTypes, CalibratorTypes, SessionTypes
  <2>3. QED
    BY <2>1, <2>2 DEF TypeInv
<1>3. QED
  BY <1>1, <1>2, UdpThreadTypes, TickTypes, CallbackTypes, StartArrivesTypes,
     CalibratesTypes DEF Next

(* Every variable of the requester holds a value of its type, and the tick *)
(* counter stays below the limit at which the self test gives up.          *)
THEOREM TypesHold == Spec => []TypeOK
<1>1. TypeInv => TypeOK
  BY DEF TypeInv
<1>2. QED
  BY <1>1, TypeInit, TypeStep, PTL DEF Spec
-----------------------------------------------------------------------------
(* The facts the steps share.                                              *)
LEMMA Reads ==
  ASSUME NEW S, NEW q \in Seq(S)
  PROVE  /\ Len(q) \in Nat
         /\ q = <<>> <=> Len(q) = 0
         /\ q # <<>> => /\ Head(q) = q[1]
                        /\ Len(Tail(q)) = Len(q) - 1
                        /\ \A i \in 1..(Len(q) - 1) : Tail(q)[i] = q[i + 1]
<1>1. Len(q) \in Nat /\ (q = <<>> <=> Len(q) = 0)
  BY EmptySeq
<1>2. ASSUME q # <<>>
      PROVE  /\ Head(q) = q[1]
             /\ Len(Tail(q)) = Len(q) - 1
             /\ \A i \in 1..(Len(q) - 1) : Tail(q)[i] = q[i + 1]
  <2>1. Len(Tail(q)) = Len(q) - 1 /\ \A i \in 1..Len(Tail(q)) : Tail(q)[i] = q[i + 1]
    BY <1>2, HeadTailProperties
  <2>2. QED
    BY <2>1
<1>3. QED
  BY <1>1, <1>2

\* The codes of different states and sides are different.
LEMMA Codes ==
  ASSUME NEW s \in Side, NEW t \in Side, NEW r \in Requester!Result,
         NEW q \in Requester!Result
  PROVE  Code(s, r) = Code(t, q) <=> s = t /\ r = q
<1>1. r # "None" /\ q # "None"
  BY DEF Requester!Result
<1>2. ASSUME Code(s, r) = Code(t, q) PROVE s = t /\ r = q
  <2>1. Code(s, r)[s] = Code(t, q)[s]
    BY <1>2
  <2>2. QED
    BY <1>1, <2>1 DEF Code
<1>3. QED
  BY <1>2

LEMMA CodeNames ==
  ASSUME NEW s \in Side
  PROVE  /\ Requester!Running(s) = Code(s, "Running")
         /\ Requester!Passed(s) = Code(s, "Pass")
  BY Sides DEF Requester!Running, Requester!Passed, Code

LEMMA FinalResults ==
  /\ Final \subseteq Requester!Result
  /\ \A r \in Final : r # "Running"
  BY DEF Final, Requester!Failure, Requester!Result

\* What is left of the tick counter is not enough to give up.
LEMMA Patience == TypeInv /\ Waited(6) => ~Requester!GivesUp
  BY CalibrationConstants, SelfTestConstants
     DEF CalibrationConstants, SelfTestConstants, Waited, Requester!GivesUp, TypeInv,
         TypeOK, Requester!SelfTestTypeOK

\* What the stages read, apart from who holds the timer.
stageVars == <<calibratorVars, overdue, tofCalibState, calibCmd, resetCnt, dataDone,
               calibData, fileGenerated, startTopic, round, fileOf, answer>>

LEMMA StageKept ==
  ASSUME UNCHANGED stageVars, Resting => Resting',
         \A s \in Side : InTest(s) => InTest(s)'
  PROVE  InStage => InStage'
<1> USE DEF stageVars, calibratorVars
<1>1. ASSUME NEW s \in Side, Awaited(s) PROVE Awaited(s)'
  BY <1>1 DEF Awaited, Unmeasured, LeftMeasured, Kept, Waits, NoFile, Waited
<1>2. ASSUME NEW s \in Side, Commanded(s) PROVE Commanded(s)'
  BY <1>1, <1>2 DEF Commanded, Started, Waited, Before, Due
<1>3. ASSUME NEW s \in Side, Unseen(s) PROVE Unseen(s)'
  BY <1>1, <1>3 DEF Unseen, Calibrating, Started, Waited, Before, Due, Code
<1>4. ASSUME NEW s \in Side, Seen(s) PROVE Seen(s)'
  BY <1>1, <1>4 DEF Seen, Calibrating, Waited, Before, Code
<1>5. ASSUME NEW s \in Side, NEW r \in Final, Outcome(s, r) PROVE Outcome(s, r)'
  BY <1>5 DEF Outcome, Measured, LeftMeasured, Kept, Waits, NoFile, Filed, Waited, AllOf
<1>6. ASSUME NEW s \in Side, NEW r \in Final, Judged(s, r) PROVE Judged(s, r)'
  BY <1>5, <1>6 DEF Judged, Waited, Before, Code
<1>7. ASSUME NEW s \in Side, NEW r \in Final, Known(s, r) PROVE Known(s, r)'
  BY <1>5, <1>7 DEF Known, Waited, Before, Due, Code
<1>8. QED
  BY <1>2, <1>3, <1>4, <1>6, <1>7 DEF InStage

LEMMA UdpThreadStage ==
  ASSUME TypeInv, TestInv, undisturbed, undisturbed', UdpThread
  PROVE  Standing' /\ InStage'
<1>1. mode = "NORMAL" /\ mode' = "NORMAL" /\ Standing /\ InStage
  BY DEF UdpThread, TestInv, Standing
<1>2. UNCHANGED <<calibratorVars, overdue>>
  BY DEF UdpThread
<1>3. /\ round \in Nat /\ answer.round \in Nat
      /\ startTopic \in Seq([side : Requester!Side, of : Rounds])
  BY SelfTestConstants
     DEF SelfTestConstants, TypeInv, TypeOK, Requester!SelfTestTypeOK, Rounds
<1>4. CASE Requester!RequestClear
  <2>1. Resting
    BY <1>1, <1>4
       DEF Requester!RequestClear, InStage, Commanded, Unseen, Seen, Judged, Known,
           Calibrating, Awaited, InTest
  <2>2. Resting'
    BY <1>2, <1>3, <1>4, <2>1, <1>1
       DEF Requester!RequestClear, Resting, calibratorVars, Standing
  <2>3. Standing'
    BY <1>1, <1>2, <1>3, <1>4 DEF Requester!RequestClear, Standing, calibratorVars, AllOf
  <2>4. QED
    BY <2>2, <2>3 DEF InStage
<1>5. CASE Requester!RequestLaunch
  <2>1. Resting
    BY <1>1, <1>5
       DEF Requester!RequestLaunch, InStage, Commanded, Unseen, Seen, Judged, Known,
           Calibrating, Awaited, InTest
  <2>2. Standing'
    BY <1>1, <1>2, <1>5 DEF Requester!RequestLaunch, Standing, calibratorVars, AllOf
  <2>3. Requester!Start("Left", round)
    BY <1>5 DEF Requester!RequestLaunch
  <2>4. Len(startTopic') = 1 /\ startTopic'[1] = [side |-> "Left", of |-> round]
    BY <2>1, <2>3 DEF Requester!Start, Resting
  <2>5. tofCalibState'["Left"] = "Running"
    BY <2>3, Sides DEF Requester!Start, TypeInv, TypeOK, Requester!SelfTestTypeOK, Side
  <2>6. Awaited("Left")'
    BY <1>2, <1>5, <2>1, <2>3
       DEF Requester!RequestLaunch, Requester!Start, Awaited, InTest, Unmeasured, NoFile,
           calibratorVars, Resting
  <2>7. Waited(Before("Left") + Due("start"))'
    BY <1>2, <1>5, <2>1 DEF Requester!RequestLaunch, Resting, Waited, Before, Due
  <2>8. Commanded("Left")'
    BY <1>2, <1>5, <2>1, <2>4, <2>5, <2>6, <2>7
       DEF Commanded, Requester!RequestLaunch, calibratorVars, Resting, Started
  <2>9. QED
    BY <2>2, <2>8 DEF InStage, Side
<1>6. CASE Requester!RequestArm
  <2>1. Standing'
    BY <1>1, <1>2, <1>6 DEF Requester!RequestArm, Standing, calibratorVars, AllOf
  <2>2. ~Resting
    BY <1>6 DEF Requester!RequestArm, Resting
  <2>3. ASSUME NEW s \in Side, InTest(s) PROVE InTest(s)'
    BY <1>6, <2>3 DEF Requester!RequestArm, InTest
  <2>4. QED
    BY <1>1, <1>2, <1>6, <2>1, <2>2, <2>3, StageKept DEF Requester!RequestArm, stageVars
<1>7. ASSUME NEW s \in Requester!Side, Requester!JigOffsetSetup(s) PROVE FALSE
  BY <1>1, <1>7 DEF Requester!JigOffsetSetup
<1>8. ASSUME NEW m \in Modes, Requester!SetCommunicationMode(m)
      PROVE  Standing' /\ InStage'
  <2>1. Standing'
    BY <1>1, <1>2, <1>8 DEF Requester!SetCommunicationMode, Standing, calibratorVars, AllOf
  <2>2. Resting => Resting'
    BY <1>2, <1>8 DEF Requester!SetCommunicationMode, Resting, calibratorVars
  <2>3. ASSUME NEW s \in Side, InTest(s) PROVE InTest(s)'
    BY <1>8, <2>3 DEF Requester!SetCommunicationMode, InTest
  <2>4. QED
    BY <1>1, <1>2, <1>8, <2>1, <2>2, <2>3, StageKept
       DEF Requester!SetCommunicationMode, stageVars
<1>9. QED
  BY <1>4, <1>5, <1>6, <1>7, <1>8 DEF UdpThread, Requester!UdpThreadStep

\* Outside what UdpThread and the ticks do the answer stays.
LEMMA StandingKept ==
  ASSUME Standing, UNCHANGED <<mode, active, round, answer>>, ~isDone'["Right"]
  PROVE  Standing'
  BY DEF Standing, AllOf

LEMMA CalibTickStage ==
  ASSUME TypeInv, TestInv, undisturbed, undisturbed', CalibTick
  PROVE  Standing' /\ InStage'
<1>1. Standing /\ InStage
  BY DEF TestInv
<1>2. PICK copied \in BOOLEAN : Requester!TofCalibrationTimerCallback(copied)
  BY DEF CalibTick
<1>3. answer' = answer
  BY <1>1, <1>2
     DEF Requester!TofCalibrationTimerCallback, Requester!JigAnswersRight, Standing
<1> USE <1>2, <1>3 DEF CalibTick, Requester!TofCalibrationTimerCallback, calibratorVars
<1>4. Standing'
  BY <1>1, StandingKept DEF Standing
<1>5. Resting => Resting'
  BY DEF Resting
<1>6. ASSUME NEW s \in Side, InTest(s) PROVE InTest(s)'
  BY <1>6 DEF InTest
<1>7. QED
  BY <1>1, <1>4, <1>5, <1>6, StageKept DEF stageVars

LEMMA StartArrivesStage ==
  ASSUME TypeInv, TestInv, undisturbed, StartArrives
  PROVE  Standing' /\ InStage'
<1>1. Standing /\ InStage
  BY DEF TestInv
<1>2. PICK s \in Side : Commanded(s)
  BY <1>1 DEF StartArrives, InStage, Unseen, Seen, Judged, Known, Calibrating, Resting
<1>3. startTopic \in Seq([side : Requester!Side, of : Rounds]) /\ startTopic # <<>>
  BY DEF StartArrives, TypeInv, TypeOK, Requester!SelfTestTypeOK, Rounds
<1>4. Head(startTopic).side = s /\ Head(startTopic).of = round /\ startTopic' = <<>>
  <2>1. Head(startTopic) = startTopic[1] /\ Len(Tail(startTopic)) = 0
    BY <1>2, <1>3, Reads DEF Commanded
  <2>2. Tail(startTopic) = <<>>
    BY <1>3, <2>1, HeadTailProperties, Reads
  <2>3. QED
    BY <1>2, <2>1, <2>2 DEF Commanded, StartArrives
<1>5. Calibrator!StartTofcalib(s, round)
  BY <1>4 DEF StartArrives
<1> USE <1>5 DEF StartArrives, Calibrator!StartTofcalib
<1>6. isDone' = [isDone EXCEPT ![s] = FALSE] /\ isDone \in [Side -> BOOLEAN]
  BY DEF TypeInv, CalibratorTypes
<1>7. Standing'
  <2>1. ~isDone'["Right"]
    BY <1>1, <1>6 DEF Standing, Side
  <2>2. QED
    BY <1>1, <2>1, StandingKept
<1>8. Awaited(s)'
  <2>1. InTest(s)' /\ NoFile'
    BY <1>2 DEF Commanded, Awaited, InTest, NoFile
  <2>2. Unmeasured(s)'
    BY <1>2 DEF Commanded, Awaited, Unmeasured, LeftMeasured, Kept, Waits, Waited, Done
  <2>3. s = "Right" => isDone'["Left"] /\ resultOf'["Left"] = round'
    BY <1>2, <1>6 DEF Commanded, Awaited, Side
  <2>4. QED
    BY <2>1, <2>2, <2>3 DEF Awaited
<1>9. stateTopic' = <<>> /\ Len(stateTopic') = 0
  BY <1>2 DEF Commanded
<1>10. Calibrating(s)'
  BY <1>4, <1>6, <1>8, <1>9 DEF Calibrating
<1>11. /\ session'.attempts = 0 /\ session'.samples = 0
       /\ \A z \in Calibrator!Zone : session'.stale[z] = 0 /\ session'.pushed[z] = FALSE
  BY DEF Calibrator!NewSession
<1>12. Waited(Before(s) + 1)'
  <2>1. Waited(Before(s) + Due("start")) /\ resetCnt' = resetCnt
    BY <1>2 DEF Commanded
  <2>2. resetCnt \in Int /\ Before(s) \in Int /\ Due("start") \in {0, 1}
    BY TickCount DEF Before, Due
  <2> HIDE <1>5 DEF StartArrives, Calibrator!StartTofcalib
  <2>3. QED
    BY <2>1, <2>2 DEF Waited, Before
<1>13. Unseen(s)'
  <2>1. Started(s)'
    BY <1>2 DEF Commanded, Started
  <2>2. Waited(Before(s) + (1 + Due("sample")))'
    <3>1. resetCnt' \in Int
      BY TickCount
    <3>2. Before(s) \in Int /\ Before(s)' = Before(s) /\ Due("sample")' \in {0, 1}
      BY DEF Before, Due
    <3> HIDE <1>5 DEF StartArrives, Calibrator!StartTofcalib
    <3>3. QED
      BY <1>12, <3>1, <3>2 DEF Waited
  <2>3. QED
    <3>1. /\ session'.attempts = Len(stateTopic')
          /\ session'.samples <= session'.attempts
          /\ \A z \in Calibrator!Zone :
               session'.stale[z] <= session'.attempts /\ ~session'.pushed[z]
      BY <1>9, <1>11
    <3> HIDE <1>5 DEF StartArrives, Calibrator!StartTofcalib
    <3>2. QED
      BY <1>9, <1>10, <2>1, <2>2, <3>1 DEF Unseen
<1>14. QED
  BY <1>7, <1>13 DEF InStage

LEMMA PerceptionStage ==
  ASSUME TypeInv, TestInv, undisturbed, PerceptionReports
  PROVE  Standing' /\ InStage'
<1>1. Standing /\ InStage
  BY DEF TestInv
<1> USE DEF PerceptionReports, Requester!CalibCompleteStateCallback
<1>2. Standing'
  BY <1>1, StandingKept DEF Standing
<1>3. PICK r \in Final : Judged("Right", r) \/ Known("Right", r)
  BY <1>1 DEF InStage, Resting, Commanded, Unseen, Seen, Judged, Known, Calibrating, Awaited,
     Outcome, NoFile
<1>4. r = "Pass" /\ Filed /\ arrayTopic # <<>>
  BY <1>3 DEF Judged, Known, Outcome, NoFile
<1>5. arrayTopic \in Seq([Side -> Rounds])
  BY DEF TypeInv, TopicTypes
<1>6. arrayTopic' = <<>> /\ Head(arrayTopic) = AllOf(round)
  <2>1. Len(arrayTopic) = 1 /\ arrayTopic[1] = AllOf(round)
    BY <1>4 DEF Filed
  <2>2. Head(arrayTopic) = arrayTopic[1] /\ Len(Tail(arrayTopic)) = 0
    BY <1>4, <1>5, <2>1, Reads
  <2>3. Tail(arrayTopic) = <<>>
    BY <1>4, <1>5, <2>2, HeadTailProperties, Reads
  <2>4. QED
    BY <2>1, <2>2, <2>3
<1>7. Filed'
  BY <1>6 DEF Filed, AllOf
<1>8. Outcome("Right", r)'
  BY <1>3, <1>4, <1>7
     DEF Judged, Known, Outcome, Measured, LeftMeasured, Kept, Waits, Waited
<1>9. InTest("Right")'
  BY <1>3 DEF Judged, Known, InTest
<1>10. Judged("Right", r)' \/ Known("Right", r)'
  BY <1>3, <1>8, <1>9 DEF Judged, Known, Waited, Before, Due, Code
<1>11. QED
  BY <1>2, <1>10 DEF InStage, Side

LEMMA StateArrivesStage ==
  ASSUME TypeInv, TestInv, undisturbed, StateArrives
  PROVE  Standing' /\ InStage'
<1>1. Standing /\ InStage
  BY DEF TestInv
<1> USE DEF StateArrives, Requester!TofCalibStateCallback
<1>2. Standing'
  BY <1>1, StandingKept DEF Standing
<1> DEFINE States == [Side -> Requester!Result \cup {"None"}]
<1>3. stateTopic \in Seq(States) /\ stateTopic # <<>> /\ Len(stateTopic) \in Nat \ {0}
  BY Reads DEF TypeInv, TopicTypes
<1> HIDE DEF States
<1>4. /\ Head(stateTopic) = stateTopic[1]
      /\ Tail(stateTopic) \in Seq(States)
      /\ Len(Tail(stateTopic)) = Len(stateTopic) - 1
      /\ \A i \in 1..(Len(stateTopic) - 1) : Tail(stateTopic)[i] = stateTopic[i + 1]
  BY <1>3, Reads, HeadTailProperties
<1>5. tofCalibState' = stateTopic[1]
  BY <1>4
<1>6. ASSUME NEW s \in Side, Unseen(s) \/ Seen(s) PROVE Seen(s)'
  <2>1. Calibrating(s)
    BY <1>6 DEF Unseen, Seen
  <2>2. Awaited(s)'
    BY <2>1 DEF Calibrating, Awaited, InTest, Unmeasured, LeftMeasured, Kept, Waits, Waited,
       NoFile, Done
  <2>3. Calibrating(s)'
    BY <1>3, <1>4, <2>1, <2>2 DEF Calibrating, Code
  <2>4. tofCalibState' = Code(s, "Running")
    BY <1>3, <1>5, <2>1 DEF Calibrating
  <2>5. Waited(Before(s) + 3)
    BY <1>3, <1>6, SelfTestConstants
       DEF SelfTestConstants, Unseen, Seen, Waited, Before, Due, TypeInv, TypeOK,
           Requester!SelfTestTypeOK
  <2>6. QED
    BY <2>3, <2>4, <2>5 DEF Seen, Waited, Before, Code
<1>7. ASSUME NEW s \in Side, NEW r \in Final, Judged(s, r)
      PROVE  Judged(s, r)' \/ Known(s, r)'
  <2>1. InTest(s)'
    BY <1>7 DEF Judged, InTest
  <2>2. Outcome(s, r)'
    BY <1>7 DEF Judged, Outcome, Measured, LeftMeasured, Kept, Waits, Waited, NoFile, Filed,
       AllOf, Done
  <2>3. CASE Len(stateTopic) = 1
    <3>1. Tail(stateTopic) = <<>>
      BY <1>4, <2>3, Reads
    <3>2. Known(s, r)'
      BY <1>5, <1>7, <2>1, <2>2, <2>3, <3>1 DEF Judged, Known, Waited, Before, Code
    <3>3. QED
      BY <3>2
  <2>4. CASE Len(stateTopic) # 1
    <3>1. tofCalibState' = Code(s, "Running")
      <4> HIDE DEF StateArrives, Requester!TofCalibStateCallback
      <4>1. 1 \in 1..(Len(stateTopic) - 1)
        BY <1>3, <2>4
      <4>2. stateTopic[1] = Code(s, "Running")
        BY <1>7, <4>1 DEF Judged
      <4>3. QED
        BY <1>5, <4>2
    <3>2. /\ Len(stateTopic') > 0
          /\ stateTopic'[Len(stateTopic')] = Code(s, r)
          /\ \A i \in 1..(Len(stateTopic') - 1) : stateTopic'[i] = Code(s, "Running")
      BY <1>3, <1>4, <1>7, <2>4 DEF Judged
    <3>3. Judged(s, r)'
      BY <1>7, <2>1, <2>2, <3>1, <3>2 DEF Judged, Waited, Before, Code
    <3>4. QED
      BY <3>3
  <2>5. QED
    BY <2>3, <2>4
<1>8. ~Resting /\ \A s \in Side : ~Commanded(s) /\ \A r \in Final : ~Known(s, r)
  BY DEF Resting, Commanded, Known
<1>9. QED
  BY <1>1, <1>2, <1>6, <1>7, <1>8 DEF InStage

LEMMA DataArrivesStage ==
  ASSUME TypeInv, TestInv, undisturbed, DataArrives
  PROVE  Standing' /\ InStage'
<1>1. Standing /\ InStage
  BY DEF TestInv
<1>2. /\ dataTopic' = Tail(dataTopic)
      /\ overdue' = overdue \ {"data"}
      /\ calibData' = [calibData EXCEPT ![Head(dataTopic).side] = Head(dataTopic).of]
      /\ dataDone' = [dataDone EXCEPT ![Head(dataTopic).side] = TRUE]
      /\ UNCHANGED <<mode, udpThread, tofCalibState, calibCmd, selfTimer, resetCnt,
                     fileGenerated, startTopic, round, fileOf, answer, active, calibState,
                     isDone, session, resultOf, request, stateTopic, arrayTopic>>
  BY DEF DataArrives, Requester!TofCalibDataCallback, Done
<1>3. Standing'
  BY <1>1, <1>2, StandingKept DEF Standing
<1>4. dataTopic \in Seq(Datum) /\ dataTopic # <<>>
  BY DEF DataArrives, TypeInv, TopicTypes
<1>5. /\ Head(dataTopic) = dataTopic[1] /\ Len(dataTopic) \in Nat \ {0}
      /\ Len(dataTopic') = Len(dataTopic) - 1
      /\ \A i \in 1..(Len(dataTopic) - 1) : dataTopic'[i] = dataTopic[i + 1]
  BY <1>2, <1>4, Reads
<1>6. dataDone \in [Side -> BOOLEAN] /\ calibData \in [Side -> 0..MaxRounds]
  BY Sides DEF TypeInv, TypeOK, Requester!SelfTestTypeOK
<1>7. ASSUME Waits(1, "Left")
      PROVE  Kept("Left")' /\ (dataDone'["Right"] <=> dataDone["Right"])
  <2>1. Head(dataTopic).side = "Left" /\ Head(dataTopic).of = round
    BY <1>5, <1>7 DEF Waits
  <2>2. QED
    BY <1>2, <1>6, <2>1 DEF Kept, Side
<1>8. ASSUME Waits(1, "Right"), Kept("Left")
      PROVE  Kept("Left")' /\ Kept("Right")'
  <2>1. Head(dataTopic).side = "Right" /\ Head(dataTopic).of = round
    BY <1>5, <1>8 DEF Waits
  <2>2. QED
    BY <1>2, <1>6, <1>8, <2>1 DEF Kept, Side
<1>9. ASSUME NEW due, LeftMeasured(due)
      PROVE  /\ due /\ Len(dataTopic') = 0 /\ ~dataDone'["Right"] /\ Kept("Left")'
  BY <1>5, <1>7, <1>9 DEF LeftMeasured
<1>10. ASSUME NEW s \in Side, Unmeasured(s) PROVE Unmeasured(s)'
  <2>1. s = "Right"
    BY <1>5, <1>10 DEF Unmeasured, Side
  <2>2. LeftMeasured("data" \in overdue /\ Waited(3))
    BY <1>10, <2>1 DEF Unmeasured
  <2>3. QED
    BY <1>9, <2>1, <2>2 DEF Unmeasured, LeftMeasured
<1>11. ASSUME NEW s \in Side, Measured(s) PROVE Measured(s)'
  <2>1. CASE s = "Left"
    <3>1. LeftMeasured(TRUE)
      BY <1>11, <2>1 DEF Measured
    <3>2. QED
      BY <1>9, <2>1, <3>1 DEF Measured, LeftMeasured
  <2>2. CASE s = "Right"
    <3>1. CASE Len(dataTopic) = 2 /\ Waits(1, "Left") /\ Waits(2, "Right")
                 /\ ~dataDone["Left"] /\ ~dataDone["Right"]
      <4>1. Len(dataTopic') = 1 /\ dataTopic'[1] = dataTopic[2]
        BY <1>5, <3>1
      <4>2. Waits(1, "Right")'
        BY <1>2, <3>1, <4>1 DEF Waits
      <4>3. QED
        BY <1>7, <2>2, <3>1, <4>1, <4>2 DEF Measured
    <3>2. CASE Len(dataTopic) = 1 /\ Waits(1, "Right") /\ Kept("Left")
      BY <1>5, <1>8, <2>2, <3>2 DEF Measured
    <3>3. QED
      BY <1>5, <1>11, <2>2, <3>1, <3>2 DEF Measured
  <2>3. QED
    BY <2>1, <2>2 DEF Side
<1>12. ASSUME NEW s \in Side, Awaited(s) PROVE Awaited(s)'
  BY <1>2, <1>10, <1>12 DEF Awaited, InTest, NoFile
<1>13. ASSUME NEW s \in Side, NEW r \in Final, Outcome(s, r) PROVE Outcome(s, r)'
  BY <1>2, <1>11, <1>13 DEF Outcome, NoFile, Filed, AllOf
<1>14. ASSUME NEW s \in Side, Commanded(s) PROVE Commanded(s)'
  BY <1>2, <1>12, <1>14 DEF Commanded, Started, Waited, Before, Due
<1>15. ASSUME NEW s \in Side, Unseen(s) PROVE Unseen(s)'
  <2>1. Calibrating(s)'
    BY <1>2, <1>12, <1>15 DEF Unseen, Calibrating, Code
  <2>2. Due("sample")' = Due("sample") /\ Due("state")' = Due("state")
    BY <1>2 DEF Due
  <2>3. QED
    BY <1>2, <1>15, <2>1, <2>2 DEF Unseen, Started, Waited, Before
<1>16. ASSUME NEW s \in Side, Seen(s) PROVE Seen(s)'
  BY <1>2, <1>12, <1>16 DEF Seen, Calibrating, Waited, Before, Code
<1>17. ASSUME NEW s \in Side, NEW r \in Final, Judged(s, r) PROVE Judged(s, r)'
  BY <1>2, <1>13, <1>17 DEF Judged, InTest, Waited, Before, Code
<1>18. ASSUME NEW s \in Side, NEW r \in Final, Known(s, r) PROVE Known(s, r)'
  <2>1. Outcome(s, r)' /\ InTest(s)' /\ tofCalibState' = Code(s, r)
    BY <1>2, <1>13, <1>18 DEF Known, InTest, Code
  <2>2. startTopic' = <<>> /\ calibState' = "Inactive" /\ stateTopic' = <<>>
    BY <1>2, <1>18 DEF Known
  <2>3. dataTopic' = <<>> \/ Waited(Before(s) + 3)'
    <3>1. CASE s = "Right" /\ Len(dataTopic) = 2
      BY <1>2, <1>18, <3>1, SelfTestConstants
         DEF SelfTestConstants, Known, Outcome, Measured, Waited, Before, TypeInv, TypeOK,
             Requester!SelfTestTypeOK
    <3>2. CASE Len(dataTopic) = 1
      <4>1. dataTopic' = <<>>
        BY <1>2, <1>4, <1>5, <3>2, HeadTailProperties, Reads
      <4>2. QED
        BY <4>1
    <3>3. QED
      BY <1>5, <1>18, <3>1, <3>2 DEF Known, Outcome, Measured, LeftMeasured, Side
  <2>4. s = "Left" /\ r = "Pass" => Waited(Before(s) + 3)'
    BY <1>2, <1>18 DEF Known, Waited, Before
  <2>5. QED
    BY <2>1, <2>2, <2>3, <2>4 DEF Known
<1>19. ~Resting
  BY <1>4 DEF Resting
<1>20. QED
  BY <1>1, <1>3, <1>14, <1>15, <1>16, <1>17, <1>18, <1>19 DEF InStage
-----------------------------------------------------------------------------
(* A session judges nothing before its reader is full of unread states.    *)
LEMMA SmallestOf ==
  ASSUME NEW T, T \subseteq Nat, T # {}
  PROVE  \E x \in T : \A y \in T : x <= y
<1>1. PICK x \in T : \A y \in T : ~(<<y, x>> \in OpToRel(<, Nat))
  BY NatLessThanWellFounded, WFMin
<1>2. ASSUME NEW y \in T PROVE x <= y
  <2>1. y \in Nat /\ x \in Nat
    OBVIOUS
  <2>2. ~(y < x)
    BY <1>1, <2>1 DEF OpToRel
  <2>3. QED
    BY <2>1, <2>2
<1>3. QED
  BY <1>2

LEMMA YoungSession ==
  ASSUME TypeInv, NEW sample \in Samples, NEW result,
         result \in Calibrator!ProcessCalibration(sample),
         session.attempts < TopicDepth, session.samples <= session.attempts,
         \A z \in Calibrator!Zone :
           session.stale[z] <= session.attempts
             /\ (session.pushed[z] => session.stale[z] < session.attempts)
  PROVE  /\ result = "Running"
         /\ LET after == Calibrator!AfterSample(sample)
            IN /\ after.attempts = session.attempts + 1
               /\ after.samples <= after.attempts
               /\ \A z \in Calibrator!Zone :
                    after.stale[z] <= after.attempts
                      /\ (after.pushed[z] => after.stale[z] < after.attempts)
<1> DEFINE after == Calibrator!AfterSample(sample)
<1>1. /\ session.attempts \in Nat /\ session.samples \in Nat
      /\ session.stale \in [Calibrator!Zone -> Nat]
      /\ session.pushed \in [Calibrator!Zone -> BOOLEAN]
  BY DEF TypeInv, SessionTypes
<1>2. /\ SamplingCount \in Nat /\ AttemptLimit \in Nat /\ RenewalLimit \in Nat
      /\ TopicDepth \in Nat
      /\ TopicDepth < SamplingCount /\ TopicDepth <= AttemptLimit
      /\ TopicDepth <= RenewalLimit + 1
  BY CalibrationConstants DEF CalibrationConstants
<1>3. Calibrator!CountedAttempt = session.attempts + 1
      /\ ~(Calibrator!CountedAttempt > AttemptLimit)
  BY <1>1, <1>2 DEF Calibrator!CountedAttempt
<1>4. ASSUME NEW z \in Calibrator!Zone
      PROVE  /\ Calibrator!Staleness(sample, z) \in Nat
             /\ Calibrator!Staleness(sample, z) <= session.attempts
             /\ ~(Calibrator!Staleness(sample, z) > RenewalLimit)
  BY <1>1, <1>2 DEF Calibrator!Staleness
<1>5. ASSUME ~Calibrator!Complete(sample) PROVE Calibrator!StopsDead(sample)
  <2> DEFINE T == {z \in Calibrator!Zone : Calibrator!Stops(sample, z)}
  <2>1. PICK z \in Calibrator!Zone : z \notin Calibrator!Accepted(sample)
    BY <1>5 DEF Calibrator!Complete, Calibrator!Accepted
  <2>2. PICK y \in 1..z : Calibrator!Stops(sample, y)
    BY <2>1 DEF Calibrator!Accepted
  <2>3. y \in Calibrator!Zone
    BY CalibrationConstants DEF CalibrationConstants, Calibrator!Zone
  <2>4. T \subseteq Nat /\ T # {}
    BY <2>2, <2>3 DEF Calibrator!Zone
  <2>5. PICK x \in T : \A w \in T : x <= w
    BY <2>4, SmallestOf
  <2>6. sample[x] = "dead"
    BY <1>4, <2>5 DEF Calibrator!Stops
  <2>7. ASSUME NEW w \in 1..(x - 1) PROVE w \in Calibrator!Accepted(sample)
    <3>1. w \in Calibrator!Zone
      BY CalibrationConstants DEF CalibrationConstants, Calibrator!Zone
    <3>2. ASSUME NEW v \in 1..w PROVE ~Calibrator!Stops(sample, v)
      <4>1. v \in Calibrator!Zone /\ ~(x <= v)
        BY CalibrationConstants DEF CalibrationConstants, Calibrator!Zone
      <4>2. QED
        BY <2>5, <4>1
    <3>3. QED
      BY <3>1, <3>2 DEF Calibrator!Accepted
  <2>8. QED
    BY <2>6, <2>7 DEF Calibrator!StopsDead
<1>6. ~Calibrator!Full(session.samples + 1)
  BY <1>1, <1>2 DEF Calibrator!Full
<1>7. result = "Running"
  BY <1>3, <1>5, <1>6 DEF Calibrator!ProcessCalibration
<1>8. after.attempts = session.attempts + 1
  BY <1>3 DEF Calibrator!AfterSample
<1>9. after.samples <= after.attempts
  BY <1>1, <1>8 DEF Calibrator!AfterSample
<1>10. ASSUME NEW z \in Calibrator!Zone
       PROVE  /\ after.stale[z] <= after.attempts
              /\ after.pushed[z] => after.stale[z] < after.attempts
  <2>1. /\ after.stale[z] = IF z \in Calibrator!Accepted(sample)
                            THEN Calibrator!Staleness(sample, z) ELSE session.stale[z]
        /\ after.pushed[z] <=> session.pushed[z] \/ z \in Calibrator!Accepted(sample)
    BY DEF Calibrator!AfterSample
  <2>2. session.stale[z] \in Nat /\ session.stale[z] <= session.attempts
    BY <1>1
  <2>3. QED
    BY <1>1, <1>4, <1>8, <2>1, <2>2
<1>11. QED
  BY <1>7, <1>8, <1>9, <1>10

LEMMA CalibratesStage ==
  ASSUME TypeInv, TestInv, undisturbed, Calibrates
  PROVE  Standing' /\ InStage'
<1>1. Standing /\ InStage
  BY DEF TestInv
<1>2. PICK sample \in Samples, result \in Calibrator!Result :
        Calibrator!RunMultizoneToFCalibration(sample, result)
  BY DEF Calibrates, Calibrator!RunCalibration
<1>3. /\ UNCHANGED <<mode, udpThread, tofCalibState, calibCmd, selfTimer, resetCnt, dataDone,
                     calibData, fileGenerated, startTopic, round, fileOf, answer, active,
                     request>>
      /\ overdue' = overdue \ {"sample"}
  BY <1>2 DEF Calibrates, Done, selfTestVars, Calibrator!RunMultizoneToFCalibration
<1>4. PICK s \in Side : Calibrating(s) /\ (Unseen(s) \/ Seen(s))
  BY <1>1, <1>2, Sides
     DEF InStage, Resting, Commanded, Unseen, Seen, Judged, Known,
         Calibrator!RunMultizoneToFCalibration
<1>5. calibState = s /\ request = round /\ Awaited(s) /\ InTest(s)
  BY <1>4 DEF Calibrating, Awaited
<1> DEFINE done == IF result = "Pass" THEN [isDone EXCEPT ![s] = TRUE] ELSE isDone
<1>6. /\ Len(stateTopic) < TopicDepth
      /\ result \in Calibrator!ProcessCalibration(sample)
      /\ session' = Calibrator!AfterSample(sample)
      /\ calibState' = IF result = "Running" THEN s ELSE "Inactive"
      /\ resultOf' = IF result = "Pass" THEN [resultOf EXCEPT ![s] = round] ELSE resultOf
      /\ stateTopic' = Append(stateTopic, Code(s, result))
      /\ dataTopic' = IF result = "Running" THEN dataTopic
                      ELSE Append(dataTopic, [side |-> s, result |-> result, of |-> round])
      /\ arrayTopic' = IF \A t \in Side : done[t] THEN Append(arrayTopic, resultOf')
                       ELSE arrayTopic
      /\ isDone' = Calibrator!HandedOver(done)
  BY <1>2, <1>5, CodeTypes, Sides DEF Calibrator!RunMultizoneToFCalibration
<1>7. /\ stateTopic \in Seq([Side -> Requester!Result \cup {"None"}])
      /\ dataTopic \in Seq(Datum) /\ arrayTopic \in Seq([Side -> Rounds])
      /\ isDone \in [Side -> BOOLEAN] /\ resultOf \in [Side -> Rounds]
      /\ round \in Rounds /\ result \in Requester!Result
  BY Sides DEF TypeInv, TopicTypes, CalibratorTypes, TypeOK, Requester!SelfTestTypeOK, Rounds
<1>8. /\ Len(stateTopic) \in Nat /\ Len(stateTopic') = Len(stateTopic) + 1
      /\ stateTopic' # <<>>
      /\ \A i \in 1..Len(stateTopic) : stateTopic'[i] = Code(s, "Running")
      /\ stateTopic'[Len(stateTopic')] = Code(s, result)
  <2>1. Code(s, result) \in [Side -> Requester!Result \cup {"None"}]
    BY <1>7, CodeTypes, Sides
  <2>2. \A i \in 1..Len(stateTopic) : stateTopic[i] = Code(s, "Running")
    BY <1>4 DEF Calibrating
  <2> DEFINE States == [Side -> Requester!Result \cup {"None"}]
             code == Code(s, result)
  <2>3. stateTopic \in Seq(States) /\ code \in States /\ stateTopic' = Append(stateTopic, code)
    BY <1>6, <1>7, <2>1
  <2> HIDE DEF States, code
  <2>4. /\ Len(stateTopic) \in Nat /\ Len(stateTopic') = Len(stateTopic) + 1
        /\ stateTopic' # <<>>
        /\ \A i \in 1..Len(stateTopic) : stateTopic'[i] = stateTopic[i]
        /\ stateTopic'[Len(stateTopic) + 1] = code
    BY <2>3, AppendProperties, Reads
  <2>5. QED
    BY <2>2, <2>4 DEF code
<1>9. InTest(s)'
  BY <1>3, <1>5 DEF InTest
<1>10. CASE result = "Running"
  <2>1. UNCHANGED <<calibState, resultOf, dataTopic>>
    BY <1>5, <1>6, <1>10
  <2>2. ~(\A t \in Side : isDone[t])
    BY <1>1 DEF Standing, Side
  <2>3. UNCHANGED <<isDone, arrayTopic>>
    BY <1>6, <1>10, <2>2, Sides DEF Calibrator!HandedOver
  <2>4. Standing'
    BY <1>1, <1>3, <2>3, StandingKept DEF Standing
  <2>5. Awaited(s)'
    BY <1>3, <1>5, <1>9, <2>1, <2>3
       DEF Awaited, Unmeasured, LeftMeasured, Kept, Waits, NoFile, Waited
  <2>6. Calibrating(s)'
    <3>1. \A i \in 1..Len(stateTopic') : stateTopic'[i] = Code(s, "Running")
      BY <1>8, <1>10
    <3>2. startTopic' = <<>> /\ calibState' = s /\ request' = round' /\ ~isDone'[s]
      BY <1>3, <1>4, <2>1, <2>3 DEF Calibrating
    <3>3. QED
      BY <2>5, <3>1, <3>2 DEF Calibrating, Code
  <2>7. CASE Unseen(s)
    <3>1. Started(s)'
      BY <1>3, <2>7 DEF Unseen, Started
    <3>2. /\ session'.attempts = Len(stateTopic')
          /\ session'.samples <= session'.attempts
          /\ \A z \in Calibrator!Zone :
               session'.stale[z] <= session'.attempts
                 /\ (session'.pushed[z] => session'.stale[z] < session'.attempts)
      BY <1>6, <1>8, <2>7, YoungSession DEF Unseen
    <3>3. Waited(Before(s) + (2 + Due("state")))'
      <4>1. CASE stateTopic = <<>>
        <5>1. Waited(Before(s) + (1 + Due("sample")))
          BY <2>7, <4>1 DEF Unseen
        <5>2. QED
          BY <1>3, <5>1, SelfTestConstants
             DEF SelfTestConstants, Waited, Before, Due, TypeInv, TypeOK,
                 Requester!SelfTestTypeOK
      <4>2. CASE stateTopic # <<>>
        <5>1. Waited(Before(s) + (2 + Due("state")))
          BY <2>7, <4>2 DEF Unseen
        <5>2. QED
          BY <1>3, <5>1 DEF Waited, Before, Due
      <4>3. QED
        BY <4>1, <4>2
    <3>4. Unseen(s)'
      BY <1>8, <2>6, <3>1, <3>2, <3>3 DEF Unseen
    <3>5. QED
      BY <2>4, <3>4 DEF InStage
  <2>8. CASE Seen(s)
    <3>1. Seen(s)'
      BY <1>3, <2>6, <2>8 DEF Seen, Waited, Before, Code
    <3>2. QED
      BY <2>4, <3>1 DEF InStage
  <2>9. QED
    BY <1>4, <2>7, <2>8
<1>11. CASE result # "Running"
  <2>1. Seen(s)
    BY <1>4, <1>6, <1>11, YoungSession DEF Unseen
  <2>2. result \in Final
    BY <1>7, <1>11 DEF Final, Requester!Failure, Requester!Result
  <2>3. /\ Len(dataTopic) \in Nat /\ Len(dataTopic') = Len(dataTopic) + 1
        /\ \A i \in 1..Len(dataTopic) : dataTopic'[i] = dataTopic[i]
        /\ dataTopic'[Len(dataTopic')] = [side |-> s, result |-> result, of |-> round]
    <3>1. [side |-> s, result |-> result, of |-> round] \in Datum
      BY <1>7 DEF Datum
    <3>2. QED
      BY <1>6, <1>7, <1>11, <3>1, AppendProperties, Reads
  <2>4. ASSUME NEW n \in Nat, Len(dataTopic) + 1 = n PROVE Waits(n, s)'
    BY <1>3, <2>3, <2>4 DEF Waits
  <2>5. Measured(s)'
    <3>1. CASE s = "Left"
      <4>1. Len(dataTopic) = 0 /\ ~dataDone["Left"] /\ ~dataDone["Right"]
        BY <1>5, <3>1 DEF Awaited, Unmeasured
      <4>2. Len(dataTopic') = 1 /\ Waits(1, "Left")'
        BY <2>3, <2>4, <3>1, <4>1
      <4>3. QED
        BY <1>3, <3>1, <4>1, <4>2 DEF Measured, LeftMeasured
    <3>2. CASE s = "Right"
      <4>1. LeftMeasured("data" \in overdue /\ Waited(3))
        BY <1>5, <3>2 DEF Awaited, Unmeasured
      <4>2. CASE Len(dataTopic) = 0 /\ Kept("Left")
        <5>1. Len(dataTopic') = 1 /\ Waits(1, "Right")'
          BY <2>3, <2>4, <3>2, <4>2
        <5>2. QED
          BY <1>3, <3>2, <4>1, <4>2, <5>1 DEF LeftMeasured, Measured, Kept
      <4>3. CASE Len(dataTopic) = 1 /\ Waits(1, "Left") /\ ~dataDone["Left"]
                   /\ "data" \in overdue /\ Waited(3)
        <5>1. Waits(1, "Left")'
          BY <1>3, <2>3, <4>3 DEF Waits
        <5>2. Len(dataTopic') = 2 /\ Waits(2, "Right")'
          BY <2>3, <2>4, <3>2, <4>3
        <5>3. QED
          BY <1>3, <3>2, <4>1, <4>3, <5>1, <5>2 DEF LeftMeasured, Measured, Waited
      <4>4. QED
        BY <4>1, <4>2, <4>3 DEF LeftMeasured
    <3>3. QED
      BY <3>1, <3>2 DEF Side
  <2>6. /\ ~isDone'["Right"]
        /\ IF s = "Right" /\ result = "Pass" THEN Filed' ELSE NoFile'
        /\ s = "Left" /\ result = "Pass" => isDone'["Left"] /\ resultOf'["Left"] = round
    <3>1. arrayTopic = <<>> /\ ~fileGenerated' /\ ~isDone["Right"]
      BY <1>1, <1>3, <1>5 DEF Awaited, NoFile, Standing
    <3>2. CASE s = "Right" /\ result = "Pass"
      <4>1. isDone["Left"] /\ resultOf["Left"] = round
        BY <1>5, <3>2 DEF Awaited
      <4>2. \A t \in Side : done[t]
        BY <1>7, <3>2, <4>1 DEF Side
      <4>3. resultOf' = AllOf(round)
        BY <1>6, <1>7, <3>2, <4>1 DEF AllOf, Side
      <4>4. arrayTopic' = <<AllOf(round)>>
        BY <1>6, <3>1, <4>2, <4>3
      <4>5. Filed'
        BY <1>3, <3>1, <4>4 DEF Filed, AllOf
      <4>6. ~isDone'["Right"]
        BY <1>6, <4>2, Sides DEF Calibrator!HandedOver, Side
      <4>7. QED
        BY <3>2, <4>5, <4>6
    <3>3. CASE ~(s = "Right" /\ result = "Pass")
      <4>1. ~done["Right"]
        BY <1>7, <3>1, <3>3 DEF Side
      <4>2. isDone' = done /\ arrayTopic' = <<>>
        BY <1>6, <3>1, <4>1, Sides DEF Calibrator!HandedOver, Side
      <4>3. NoFile'
        BY <3>1, <4>2 DEF NoFile
      <4>4. s = "Left" /\ result = "Pass" => isDone'["Left"] /\ resultOf'["Left"] = round
        BY <1>6, <1>7, <4>2
      <4>5. QED
        BY <3>3, <4>1, <4>2, <4>3, <4>4
    <3>4. QED
      BY <3>2, <3>3
  <2>7. Outcome(s, result)'
    BY <1>3, <2>5, <2>6 DEF Outcome
  <2>8. Judged(s, result)'
    <3>1. /\ startTopic' = <<>> /\ calibState' = "Inactive"
          /\ tofCalibState' = Code(s, "Running") /\ Waited(Before(s) + 3)'
      BY <1>3, <1>4, <1>6, <1>11, <2>1 DEF Seen, Calibrating, Waited, Before
    <3>2. /\ Len(stateTopic') > 0
          /\ \A i \in 1..(Len(stateTopic') - 1) : stateTopic'[i] = Code(s, "Running")
          /\ stateTopic'[Len(stateTopic')] = Code(s, result)
      BY <1>8
    <3>3. QED
      BY <1>9, <2>7, <3>1, <3>2 DEF Judged, Code
  <2>9. Standing'
    BY <1>1, <1>3, <2>6, StandingKept
  <2>10. QED
    BY <2>2, <2>8, <2>9 DEF InStage
<1>12. QED
  BY <1>10, <1>11
-----------------------------------------------------------------------------
(* The tick of the self test, stage by stage.                              *)
waitVars == <<mode, udpThread, tofCalibState, calibCmd, selfTimer, dataDone, calibData,
              fileGenerated, startTopic, round, fileOf, answer, calibratorVars>>

LEMMA TickCounts ==
  ASSUME TypeInv, SelfTestTick
  PROVE  /\ resetCnt \in Nat /\ overdue = {} /\ selfTimer
         /\ \A duty : Due(duty) = 0
         /\ startTopic # <<>> => Due("start")' = 1
         /\ stateTopic # <<>> => Due("state")' = 1
         /\ dataTopic # <<>> => Due("data")' = 1
         /\ active /\ calibState # "Inactive" => Due("sample")' = 1
<1>1. resetCnt \in Nat
  BY SelfTestConstants DEF SelfTestConstants, TypeInv, TypeOK, Requester!SelfTestTypeOK
<1>2. overdue = {} /\ overdue' = Pending
  BY DEF SelfTestTick
<1>3. selfTimer
  BY DEF SelfTestTick, Requester!SelftestCalibrationTimerCallback, Requester!StartRight,
     Requester!ReplyToSoC, Requester!KeepWaiting, Requester!EndWithoutAnswer,
     Requester!SideIsRunning, Requester!Ticks
<1>4. QED
  BY <1>1, <1>2, <1>3 DEF Due, Pending

\* While a side is known to run, a tick does nothing.
LEMMA RunningTick ==
  ASSUME TypeInv, SelfTestTick, NEW s \in Side, tofCalibState = Code(s, "Running")
  PROVE  UNCHANGED <<waitVars, resetCnt>>
<1>1. tofCalibState \in {Requester!Running("Left"), Requester!Running("Right")}
  BY CodeNames DEF Side
<1>2. tofCalibState # Requester!Passed("Left")
  <2>1. "Left" \in Side /\ "Running" \in Requester!Result /\ "Pass" \in Requester!Result
    BY DEF Side, Requester!Result
  <2>2. Requester!Passed("Left") = Code("Left", "Pass")
    BY <2>1, CodeNames
  <2>3. QED
    BY <2>1, <2>2, Codes
<1>3. Requester!SideIsRunning
  BY <1>1, <1>2
     DEF SelfTestTick, Requester!SelftestCalibrationTimerCallback, Requester!StartRight,
         Requester!ReplyToSoC, Requester!KeepWaiting, Requester!EndWithoutAnswer,
         Requester!Settled, Requester!Answerable
<1>4. QED
  BY <1>3 DEF SelfTestTick, Requester!SideIsRunning, Requester!Ticks, waitVars

\* While the right side's data is missing, a tick counts at most.
LEMMA WaitingTick ==
  ASSUME TypeInv, SelfTestTick, ~dataDone["Right"],
         tofCalibState # Requester!Passed("Left"), Waited(6)
  PROVE  UNCHANGED waitVars /\ (resetCnt' = resetCnt \/ resetCnt' = resetCnt + 1)
<1>1. ~Requester!Answerable
  BY Sides DEF Requester!Answerable, Requester!BothDone, Side
<1>2. Requester!KeepWaiting \/ Requester!SideIsRunning
  BY <1>1, Patience
     DEF SelfTestTick, Requester!SelftestCalibrationTimerCallback, Requester!StartRight,
         Requester!ReplyToSoC, Requester!EndWithoutAnswer
<1>3. QED
  BY <1>2 DEF SelfTestTick, Requester!KeepWaiting, Requester!SideIsRunning, Requester!Ticks,
     waitVars

\* At a tick no data of the left side is unread that was there before.
LEMMA TickAwaited ==
  ASSUME TypeInv, SelfTestTick, UNCHANGED waitVars, NEW s \in Side, Awaited(s)
  PROVE  Awaited(s)'
<1>1. InTest(s)' /\ NoFile'
  BY DEF Awaited, InTest, NoFile, waitVars, calibratorVars
<1>2. Unmeasured(s)'
  <2>1. CASE s = "Left"
    BY <2>1 DEF Awaited, Unmeasured, waitVars, calibratorVars
  <2>2. CASE s = "Right"
    <3>1. ~("data" \in overdue)
      BY TickCounts
    <3>2. Len(dataTopic) = 0 /\ Kept("Left") /\ ~dataDone["Right"]
      BY <2>2, <3>1 DEF Awaited, Unmeasured, LeftMeasured
    <3>3. QED
      BY <2>2, <3>2 DEF Unmeasured, LeftMeasured, Kept, waitVars, calibratorVars
  <2>3. QED
    BY <2>1, <2>2 DEF Side
<1>3. QED
  BY <1>1, <1>2 DEF Awaited, waitVars, calibratorVars

\* Nothing that a side still running awaits is there: the right side's data.
LEMMA TickMissing ==
  ASSUME TypeInv, NEW s \in Side, Awaited(s), Started(s)
  PROVE  ~dataDone["Right"] /\ tofCalibState # Requester!Passed("Left")
<1>1. ~dataDone["Right"]
  BY DEF Awaited, Unmeasured, LeftMeasured
<1>2. tofCalibState["Left"] = "Running" \/ tofCalibState["Right"] = "Running"
  BY DEF Started
<1>3. /\ Requester!Passed("Left")["Left"] = "Pass"
      /\ Requester!Passed("Left")["Right"] = "None"
  BY Sides DEF Requester!Passed, Side
<1>4. QED
  BY <1>1, <1>2, <1>3

LEMMA CommandedTick ==
  ASSUME TypeInv, SelfTestTick, NEW s \in Side, Commanded(s)
  PROVE  Commanded(s)' /\ UNCHANGED waitVars
<1>1. Awaited(s) /\ Started(s) /\ startTopic # <<>>
  BY DEF Commanded
<1>2. Waited(Before(s))
  BY TickCounts DEF Commanded, Before, Waited
<1>3. Waited(6)
  BY <1>2, TickCounts DEF Before, Waited
<1>4. UNCHANGED waitVars /\ (resetCnt' = resetCnt \/ resetCnt' = resetCnt + 1)
  BY <1>1, <1>3, TickMissing, WaitingTick
<1>5. Waited(Before(s) + Due("start"))'
  BY <1>1, <1>2, <1>4, TickCounts DEF Before, Waited
<1>6. Awaited(s)'
  BY <1>1, <1>4, TickAwaited
<1>7. QED
  BY <1>4, <1>5, <1>6 DEF Commanded, Started, waitVars, calibratorVars

LEMMA UnseenTick ==
  ASSUME TypeInv, SelfTestTick, active, NEW s \in Side, Unseen(s)
  PROVE  Unseen(s)' /\ UNCHANGED waitVars
<1>1. Awaited(s) /\ Started(s) /\ Calibrating(s)
  BY DEF Unseen, Calibrating
<1>2. Waited(Before(s) + IF stateTopic = <<>> THEN 1 ELSE 2)
  BY TickCounts DEF Unseen, Before, Waited
<1>3. Waited(6)
  BY <1>2, TickCounts DEF Before, Waited
<1>4. UNCHANGED waitVars /\ (resetCnt' = resetCnt \/ resetCnt' = resetCnt + 1)
  BY <1>1, <1>3, TickMissing, WaitingTick
<1>5. Waited(Before(s) + IF stateTopic = <<>> THEN 1 + Due("sample") ELSE 2 + Due("state"))'
  <2>1. calibState # "Inactive"
    BY <1>1 DEF Calibrating, Side
  <2>2. UNCHANGED stateTopic
    BY <1>4 DEF waitVars, calibratorVars
  <2>3. QED
    BY <1>2, <1>4, <2>1, <2>2, TickCounts DEF Before, Waited
<1>6. Awaited(s)'
  BY <1>1, <1>4, TickAwaited
<1>7. Calibrating(s)' /\ Started(s)'
  BY <1>1, <1>4, <1>6 DEF Calibrating, Started, Code, waitVars, calibratorVars
<1>8. QED
  BY <1>4, <1>5, <1>7 DEF Unseen, waitVars, calibratorVars

LEMMA SeenTick ==
  ASSUME TypeInv, SelfTestTick, NEW s \in Side, Seen(s)
  PROVE  Seen(s)' /\ UNCHANGED waitVars
<1>1. UNCHANGED <<waitVars, resetCnt>>
  BY RunningTick DEF Seen
<1>2. Awaited(s)'
  BY <1>1, TickAwaited DEF Seen, Calibrating
<1>3. QED
  BY <1>1, <1>2 DEF Seen, Calibrating, Waited, Before, Code, waitVars, calibratorVars

LEMMA TickOutcome ==
  ASSUME TypeInv, SelfTestTick, UNCHANGED waitVars, NEW s \in Side, NEW r \in Final,
         Outcome(s, r)
  PROVE  Outcome(s, r)'
<1>1. "data" \notin overdue
  BY TickCounts
<1>2. Measured(s)'
  BY <1>1 DEF Outcome, Measured, LeftMeasured, Kept, Waits, waitVars, calibratorVars
<1>3. QED
  BY <1>2 DEF Outcome, NoFile, Filed, AllOf, waitVars, calibratorVars

LEMMA JudgedTick ==
  ASSUME TypeInv, SelfTestTick, NEW s \in Side, NEW r \in Final, Judged(s, r)
  PROVE  Judged(s, r)' /\ UNCHANGED waitVars
<1>1. UNCHANGED <<waitVars, resetCnt>>
  BY RunningTick DEF Judged
<1>2. Outcome(s, r)'
  BY <1>1, TickOutcome DEF Judged
<1>3. QED
  BY <1>1, <1>2 DEF Judged, InTest, Waited, Before, Code, waitVars, calibratorVars

\* Left has passed and is answered for: the right side is commanded.
LEMMA LeftPassedTick ==
  ASSUME TypeInv, Standing, SelfTestTick, Known("Left", "Pass")
  PROVE  Requester!StartRight /\ Standing' /\ Commanded("Right")'
<1> DEFINE code == Code("Left", "Pass")
<1>1. tofCalibState = Requester!Passed("Left")
  BY CodeNames DEF Known, Side
<1>2. Requester!StartRight
  BY <1>1
     DEF SelfTestTick, Requester!SelftestCalibrationTimerCallback, Requester!ReplyToSoC,
         Requester!KeepWaiting, Requester!EndWithoutAnswer, Requester!SideIsRunning,
         Requester!Answerable, Requester!Settled, Requester!Running, Requester!Passed,
         Requester!Side
<1>3. /\ UNCHANGED <<mode, udpThread, fileGenerated, round, fileOf, selfTimer, resetCnt,
                     dataDone, calibData, answer>>
      /\ Requester!Start("Right", round)
  BY <1>2 DEF Requester!StartRight, Requester!Ticks
<1>4. UNCHANGED calibratorVars
  BY DEF SelfTestTick
<1>5. Standing'
  BY <1>3, <1>4, StandingKept DEF Standing, calibratorVars
<1>6. /\ startTopic = <<>>
      /\ Outcome("Left", "Pass") /\ InTest("Left") /\ Waited(3)
      /\ calibState = "Inactive" /\ stateTopic = <<>>
  BY DEF Known, Before
<1>7. /\ Len(startTopic') = 1 /\ startTopic'[1] = [side |-> "Right", of |-> round]
      /\ calibCmd' = "Right"
  BY <1>3, <1>6 DEF Requester!Start
<1>8. tofCalibState'["Left"] = "Pass" /\ tofCalibState'["Right"] = "Running"
  BY <1>3, <1>1, Sides
     DEF Requester!Start, Requester!Passed, TypeInv, TypeOK, Requester!SelfTestTypeOK, Side
<1>9. InTest("Right")'
  BY <1>3, <1>6, <1>7, TickCounts DEF InTest
<1>10. Unmeasured("Right")'
  <2>1. LeftMeasured(TRUE)
    BY <1>6 DEF Outcome, Measured
  <2>2. dataTopic \in Seq(Datum)
    BY DEF TypeInv, TopicTypes
  <2>3. "data" \in overdue' <=> dataTopic # <<>>
    BY DEF SelfTestTick, Pending
  <2>4. Len(dataTopic) = 1 => dataTopic # <<>>
    BY <2>2, Reads
  <2>5. UNCHANGED <<dataTopic, dataDone, calibData, round>>
    BY <1>3, <1>4 DEF calibratorVars
  <2>6. Waited(3)'
    BY <1>3, <1>6 DEF Waited
  <2>7. QED
    BY <2>1, <2>3, <2>4, <2>5, <2>6 DEF Unmeasured, LeftMeasured, Kept, Waits
<1>11. Awaited("Right")'
  BY <1>3, <1>4, <1>6, <1>9, <1>10 DEF Awaited, Outcome, NoFile, calibratorVars
<1>12. Waited(Before("Right") + Due("start"))'
  <2>1. resetCnt' \in Nat /\ resetCnt' <= 3
    BY <1>3, <1>6, TickCounts DEF Waited
  <2>2. QED
    BY <2>1 DEF Waited, Before, Due
<1>13. Commanded("Right")'
  BY <1>3, <1>4, <1>6, <1>7, <1>8, <1>11, <1>12 DEF Commanded, Started, calibratorVars
<1>14. QED
  BY <1>2, <1>5, <1>13

\* Only these three steps are left once a final state is known.
LEMMA SettledTick ==
  ASSUME TypeInv, SelfTestTick, NEW s \in Side, NEW r \in Final,
         Known(s, r), ~(s = "Left" /\ r = "Pass")
  PROVE  /\ Requester!ReplyToSoC \/ Requester!KeepWaiting \/ Requester!EndWithoutAnswer
         /\ Requester!Settled
         /\ tofCalibState = Requester!Passed("Right") <=> s = "Right" /\ r = "Pass"
<1>1. tofCalibState = Code(s, r)
  BY DEF Known
<1>2. "Left" \in Side /\ "Right" \in Side
  BY DEF Side
<1>3. /\ r \in Requester!Result /\ r # "Running"
      /\ "Pass" \in Requester!Result /\ "Running" \in Requester!Result
  BY FinalResults DEF Requester!Result
<1>4. /\ Code(s, r) # Code("Left", "Running") /\ Code(s, r) # Code("Right", "Running")
      /\ Code(s, r) # Code("Left", "Pass")
      /\ Code(s, r) = Code("Right", "Pass") <=> s = "Right" /\ r = "Pass"
  BY <1>2, <1>3, Codes
<1>5. /\ tofCalibState # Requester!Running("Left")
      /\ tofCalibState # Requester!Running("Right")
      /\ tofCalibState # Requester!Passed("Left")
      /\ tofCalibState = Requester!Passed("Right") <=> s = "Right" /\ r = "Pass"
  BY <1>1, <1>2, <1>4, CodeNames
<1>6. QED
  BY <1>5
     DEF SelfTestTick, Requester!SelftestCalibrationTimerCallback, Requester!StartRight,
         Requester!SideIsRunning, Requester!Settled

LEMMA KeepWaitingTick ==
  ASSUME TypeInv, SelfTestTick, NEW s \in Side, NEW r \in Final,
         Known(s, r), ~(s = "Left" /\ r = "Pass"), Requester!KeepWaiting
  PROVE  Known(s, r)' /\ UNCHANGED waitVars
<1>1. UNCHANGED waitVars /\ resetCnt' = resetCnt + 1
  BY DEF SelfTestTick, Requester!KeepWaiting, Requester!Ticks, waitVars
<1>2. Outcome(s, r)'
  BY <1>1, TickOutcome DEF Known
<1>3. UNCHANGED dataTopic
  BY <1>1 DEF waitVars, calibratorVars
<1>4. dataTopic # <<>> => Waited(Before(s) + 3 + Due("data"))'
  <2> SUFFICES ASSUME dataTopic # <<>> PROVE Waited(Before(s) + 3 + Due("data"))'
    OBVIOUS
  <2>1. Due("data") = 0 /\ Due("data")' = 1 /\ resetCnt \in Nat
    BY TickCounts
  <2>2. Waited(Before(s) + 3)
    BY <2>1 DEF Known, Before, Waited
  <2>3. QED
    BY <1>1, <2>1, <2>2 DEF Before, Waited
<1>5. InTest(s)' /\ tofCalibState' = Code(s, r)
  BY <1>1 DEF Known, InTest, Code, waitVars
<1>6. QED
  BY <1>1, <1>2, <1>3, <1>4, <1>5 DEF Known, Code, waitVars, calibratorVars

\* With data unread the self test neither answers nor ends.
LEMMA PatientTick ==
  ASSUME TypeInv, SelfTestTick, NEW s \in Side, NEW r \in Final,
         Known(s, r), ~(s = "Left" /\ r = "Pass"),
         Requester!ReplyToSoC \/ Requester!EndWithoutAnswer
  PROVE  /\ dataTopic = <<>> /\ Len(dataTopic) = 0
         /\ Requester!ReplyToSoC => s = "Right"
<1>1. dataTopic \in Seq(Datum)
  BY DEF TypeInv, TopicTypes
<1>2. Measured(s) /\ "data" \notin overdue
  BY TickCounts DEF Known, Outcome
<1>3. Requester!ReplyToSoC => \A t \in Side : dataDone[t]
  BY Sides DEF Requester!ReplyToSoC, Requester!Answerable, Requester!BothDone
<1>4. dataTopic # <<>> => Waited(6)
  BY TickCounts DEF Known, Waited, Before
<1>5. dataTopic = <<>>
  <2> SUFFICES ASSUME dataTopic # <<>> PROVE FALSE
    OBVIOUS
  <2>1. ~Requester!EndWithoutAnswer
    BY <1>4, Patience DEF Requester!EndWithoutAnswer
  <2>2. ~dataDone["Right"]
    BY <1>1, <1>2, Reads DEF Measured, LeftMeasured
  <2>3. QED
    BY <1>3, <2>1, <2>2 DEF Side
<1>6. Requester!ReplyToSoC => s = "Right"
  BY <1>2, <1>3 DEF Measured, LeftMeasured, Side
<1>7. QED
  BY <1>1, <1>5, <1>6, Reads

LEMMA ForgetRests ==
  ASSUME SelfTestTick, NEW s \in Side, NEW r \in Final, Known(s, r),
         dataTopic = <<>>, arrayTopic = <<>>,
         Requester!Forget, Requester!Ticks, UNCHANGED startTopic
  PROVE  Resting'
<1>1. startTopic = <<>> /\ stateTopic = <<>> /\ calibState = "Inactive" /\ udpThread = "idle"
  BY TickCounts DEF Known, InTest, Requester!Ticks
<1>2. ~dataDone'["Left"] /\ ~dataDone'["Right"] /\ ~selfTimer'
  BY Sides DEF Requester!Forget, Side
<1>3. QED
  BY <1>1, <1>2 DEF Resting, SelfTestTick, calibratorVars, Requester!Ticks

LEMMA EndTick ==
  ASSUME TypeInv, Standing, undisturbed', SelfTestTick, NEW s \in Side, NEW r \in Final,
         Known(s, r), ~(s = "Left" /\ r = "Pass"), Requester!EndWithoutAnswer
  PROVE  Standing' /\ Resting'
<1>1. arrayTopic = <<>>
  BY DEF SelfTestTick, Requester!EndWithoutAnswer
<1>2. Resting'
  BY <1>1, PatientTick, ForgetRests DEF Requester!EndWithoutAnswer
<1>3. Standing'
  BY StandingKept
     DEF Requester!EndWithoutAnswer, Requester!Ticks, SelfTestTick, calibratorVars, Standing
<1>4. QED
  BY <1>2, <1>3

LEMMA ReplyTick ==
  ASSUME TypeInv, Standing, SelfTestTick, NEW s \in Side, NEW r \in Final,
         Known(s, r), ~(s = "Left" /\ r = "Pass"), Requester!ReplyToSoC
  PROVE  /\ Standing' /\ Resting'
         /\ s = "Right" /\ answer'.data = AllOf(round) /\ answer'.round = round
<1>1. s = "Right" /\ dataTopic = <<>> /\ Len(dataTopic) = 0
  BY PatientTick
<1>2. Kept("Left") /\ Kept("Right")
  BY <1>1, TickCounts DEF Known, Outcome, Measured
<1>3. calibData = AllOf(round)
  BY <1>2, Sides DEF TypeInv, TypeOK, Requester!SelfTestTypeOK, Kept, AllOf, Side
<1>4. answer' = Requester!Answer("soc")
  BY DEF Requester!ReplyToSoC
<1>5. /\ answer'.to = "soc" /\ answer'.data = AllOf(round) /\ answer'.round = round
      /\ answer'.passed <=> r = "Pass"
      /\ answer'.file = fileOf
  BY <1>1, <1>3, <1>4, SettledTick DEF Requester!Answer
<1>6. /\ IF r = "Pass" THEN Filed ELSE NoFile
      /\ r = "Pass" => fileGenerated
  BY <1>1, SettledTick DEF Known, Outcome, Requester!ReplyToSoC, Requester!Answerable
<1>7. arrayTopic = <<>> /\ (r = "Pass" => fileOf = AllOf(round))
  BY <1>6 DEF Filed, NoFile
<1>8. round \in Nat /\ round' = round /\ mode' = mode /\ UNCHANGED calibratorVars
  BY SelfTestConstants
     DEF SelfTestConstants, TypeInv, TypeOK, Requester!SelfTestTypeOK, SelfTestTick,
         Requester!ReplyToSoC, Requester!Ticks
<1>9. Standing'
  BY <1>5, <1>7, <1>8 DEF Standing, AllOf, calibratorVars
<1>10. Resting'
  BY <1>1, <1>7, ForgetRests DEF Requester!ReplyToSoC
<1>11. QED
  BY <1>1, <1>5, <1>9, <1>10

LEMMA SelfTestTickStage ==
  ASSUME TypeInv, TestInv, undisturbed, undisturbed', SelfTestTick
  PROVE  Standing' /\ InStage'
<1>1. Standing /\ InStage
  BY DEF TestInv
<1>2. UNCHANGED waitVars => Standing'
  BY <1>1, StandingKept DEF Standing, waitVars, calibratorVars
<1>3. ~Resting
  BY TickCounts DEF Resting
<1>4. ASSUME NEW s \in Side, Commanded(s) \/ Unseen(s) \/ Seen(s)
      PROVE  Standing' /\ InStage'
  BY <1>1, <1>2, <1>4, CommandedTick, UnseenTick, SeenTick DEF InStage, Standing
<1>5. ASSUME NEW s \in Side, NEW r \in Final, Judged(s, r)
      PROVE  Standing' /\ InStage'
  BY <1>2, <1>5, JudgedTick DEF InStage
<1>6. ASSUME NEW s \in Side, NEW r \in Final, Known(s, r)
      PROVE  Standing' /\ InStage'
  <2>1. CASE s = "Left" /\ r = "Pass"
    BY <1>1, <1>6, <2>1, LeftPassedTick DEF InStage, Side
  <2>2. CASE ~(s = "Left" /\ r = "Pass")
    BY <1>1, <1>2, <1>6, <2>2, SettledTick, KeepWaitingTick, EndTick, ReplyTick DEF InStage
  <2>3. QED
    BY <2>1, <2>2
<1>7. QED
  BY <1>1, <1>3, <1>4, <1>5, <1>6 DEF InStage
-----------------------------------------------------------------------------
(* The stages are an invariant; what it says of answers and leftovers.     *)
LEMMA TestInit == Init => TestInv
<1> SUFFICES ASSUME Init, undisturbed PROVE Standing /\ InStage
  BY DEF TestInv
<1>1. mode = "NORMAL" /\ answer = Requester!NoAnswer /\ round = 0
  BY DEF Init, Requester!SelfTestInit
<1>2. answer.to = "nobody" /\ answer.round = 0 /\ answer.data = AllOf(0)
  BY <1>1, Sides DEF Requester!NoAnswer, Requester!NoRound, AllOf
<1>3. active /\ ~isDone["Right"]
  BY Sides DEF Init, Calibrator!CalibratorInit, Side
<1>4. Standing
  BY <1>1, <1>2, <1>3 DEF Standing
<1>5. Resting
  BY Sides
     DEF Init, Calibrator!CalibratorInit, Requester!SelfTestInit, Resting, Side
<1>6. QED
  BY <1>4, <1>5 DEF InStage

LEMMA Disturbs == ASSUME TypeInv, [Next]_vars, undisturbed' PROVE undisturbed
<1>1. CASE UNCHANGED vars
  BY <1>1 DEF vars
<1>2. QED
  BY <1>1
     DEF Next, UdpThread, StartArrives, Calibrates, NodeSwitched, StateArrives, DataArrives,
         PerceptionReports, CalibTick, SelfTestTick

LEMMA TestStep == TypeInv /\ TestInv /\ [Next]_vars => TestInv'
<1> SUFFICES ASSUME TypeInv, TestInv, [Next]_vars, undisturbed' PROVE Standing' /\ InStage'
  BY DEF TestInv
<1>1. undisturbed
  BY Disturbs
<1>2. CASE UNCHANGED vars
  <2>1. Standing /\ InStage
    BY <1>1 DEF TestInv
  <2>2. Standing'
    BY <1>2, <2>1, StandingKept DEF vars, calibratorVars, selfTestVars, Standing
  <2>3. Resting => Resting'
    BY <1>2 DEF vars, calibratorVars, selfTestVars, Resting
  <2>4. ASSUME NEW s \in Side, InTest(s) PROVE InTest(s)'
    BY <1>2, <2>4 DEF vars, selfTestVars, InTest
  <2>5. UNCHANGED stageVars
    BY <1>2 DEF vars, calibratorVars, selfTestVars, stageVars
  <2>6. QED
    BY <2>1, <2>2, <2>3, <2>4, <2>5, StageKept
<1>3. CASE NodeSwitched
  BY <1>3 DEF NodeSwitched
<1>4. QED
  BY <1>1, <1>2, <1>3, UdpThreadStage, StartArrivesStage, CalibratesStage, StateArrivesStage,
     DataArrivesStage, PerceptionStage, CalibTickStage, SelfTestTickStage DEF Next

THEOREM StagesHold == Spec => [](TypeInv /\ TestInv)
  BY TypeInit, TypeStep, TestInit, TestStep, PTL DEF Spec

(* The answer to the SoC speaks of both sides and of the request it        *)
(* answers: selftestCalibrationTimerCallback's two done flags are only     *)
(* ever set by data of this request.                                       *)
THEOREM AnswersOfTheRound == Spec => []AnswerOfThisRound
<1>1. TestInv => AnswerOfThisRound
  BY DEF TestInv, Standing, AnswerOfThisRound
<1>2. QED
  BY <1>1, StagesHold, PTL

(* Success is reported only once the file holds this request's values.     *)
THEOREM FilesOfTheRound == Spec => []FileOfThisRound
<1>1. TestInv => FileOfThisRound
  BY DEF TestInv, Standing, FileOfThisRound
<1>2. QED
  BY <1>1, StagesHold, PTL

(* Between self tests no done flag is left set, although the start of a    *)
(* self test does not clear them.                                          *)
THEOREM NothingIsLeftBehind == Spec => []NothingLeftBehind
<1>1. TestInv => NothingLeftBehind
  BY DEF TestInv, InStage, Resting, Commanded, Unseen, Seen, Judged, Known, Calibrating,
     Awaited, InTest, NothingLeftBehind, Side
<1>2. QED
  BY <1>1, StagesHold, PTL
-----------------------------------------------------------------------------
(* The self test keeps the promises of TofService.                         *)
LEMMA ServiceSides == Service!Side = Side /\ Service!NoAnswer = [of |-> 0, data |-> AllOf(0)]
  BY DEF Service!Side, Side, Service!NoAnswer, AllOf

LEMMA ServiceStart == Init => Service!ServiceInit
<1> SUFFICES ASSUME Init PROVE Service!ServiceInit
  OBVIOUS
<1>1. udpThread = "idle" /\ ~selfTimer /\ round = 0 /\ answer = Requester!NoAnswer
  BY DEF Init, Requester!SelfTestInit
<1>2. answer.round = 0 /\ answer.data = AllOf(0)
  BY <1>1, Sides DEF Requester!NoAnswer, Requester!NoRound, AllOf
<1>3. QED
  BY <1>1, <1>2, ServiceSides DEF Service!ServiceInit

LEMMA ServiceDisturbed ==
  ASSUME TypeInv, [Next]_vars, ~undisturbed'
  PROVE  [Service!ServiceNext]_Service!serviceVars
<1>1. CASE undisturbed
  BY <1>1, ServiceSides DEF Service!ServiceNext, Service!Withdraw
<1>2. CASE ~undisturbed
  BY <1>2 DEF Service!serviceVars, AllOf
<1>3. QED
  BY <1>1, <1>2

\* What the service shows of an undisturbed self test.
shownVars == <<udpThread, selfTimer, calibCmd, round, answer>>

LEMMA ServiceStutters ==
  ASSUME undisturbed, undisturbed', UNCHANGED shownVars
  PROVE  UNCHANGED Service!serviceVars
  BY DEF shownVars, Service!serviceVars, AllOf

LEMMA ServiceOfUdpThread ==
  ASSUME TypeInv, TestInv, undisturbed, undisturbed', UdpThread
  PROVE  [Service!ServiceNext]_Service!serviceVars
<1>1. mode = "NORMAL" /\ InStage
  BY DEF TestInv, Standing
<1>2. CASE Requester!RequestClear
  BY <1>2 DEF Requester!RequestClear, Service!ServiceNext, Service!Accept
<1>3. CASE Requester!RequestLaunch
  BY <1>3 DEF Requester!RequestLaunch, Service!serviceVars
<1>4. CASE Requester!RequestArm
  <2>1. calibCmd = "Left"
    BY <1>1, <1>4
       DEF Requester!RequestArm, InStage, Resting, Commanded, Unseen, Seen, Judged, Known,
           Calibrating, Awaited, InTest
  <2>2. QED
    BY <1>4, <2>1 DEF Requester!RequestArm, Service!serviceVars
<1>5. ASSUME NEW s \in Requester!Side, Requester!JigOffsetSetup(s) PROVE FALSE
  BY <1>1, <1>5 DEF Requester!JigOffsetSetup
<1>6. ASSUME NEW m \in Modes, Requester!SetCommunicationMode(m)
      PROVE  UNCHANGED Service!serviceVars
  BY <1>6, ServiceStutters DEF Requester!SetCommunicationMode, shownVars
<1>7. QED
  BY <1>2, <1>3, <1>4, <1>5, <1>6 DEF UdpThread, Requester!UdpThreadStep

LEMMA ServiceOfTick ==
  ASSUME TypeInv, TestInv, undisturbed, undisturbed', SelfTestTick
  PROVE  [Service!ServiceNext]_Service!serviceVars
<1>1. Standing /\ InStage /\ selfTimer
  BY TickCounts DEF TestInv
<1>2. UNCHANGED waitVars => UNCHANGED Service!serviceVars
  BY ServiceStutters DEF waitVars, shownVars
<1>3. ASSUME NEW s \in Side, Commanded(s) \/ Unseen(s) \/ Seen(s)
      PROVE  UNCHANGED waitVars
  BY <1>1, <1>3, CommandedTick, UnseenTick, SeenTick DEF Standing
<1>4. ASSUME NEW s \in Side, NEW r \in Final, Judged(s, r)
      PROVE  UNCHANGED waitVars
  BY <1>4, JudgedTick
<1>5. ASSUME NEW s \in Side, NEW r \in Final, Known(s, r)
      PROVE  [Service!ServiceNext]_Service!serviceVars
  <2>1. /\ udpThread = "idle" /\ udpThread' = "idle" /\ calibCmd = s
        /\ answer.round < round /\ round' = round /\ round \in Nat
    <3>1. InTest(s)
      BY <1>5 DEF Known
    <3>2. UNCHANGED <<udpThread, round>>
      BY DEF SelfTestTick, Requester!SelftestCalibrationTimerCallback, Requester!StartRight,
         Requester!ReplyToSoC, Requester!KeepWaiting, Requester!EndWithoutAnswer,
         Requester!SideIsRunning, Requester!Ticks
    <3>3. round \in Nat
      BY SelfTestConstants
         DEF SelfTestConstants, TypeInv, TypeOK, Requester!SelfTestTypeOK
    <3>4. QED
      BY <1>1, <3>1, <3>2, <3>3 DEF InTest
  <2>2. CASE s = "Left" /\ r = "Pass"
    <3>1. Requester!StartRight
      BY <1>1, <1>5, <2>2, LeftPassedTick
    <3>2. calibCmd' = "Right" /\ selfTimer' /\ UNCHANGED answer
      BY <1>1, <3>1 DEF Requester!StartRight, Requester!Start
    <3>3. QED
      BY <1>1, <2>1, <2>2, <3>2 DEF Service!ServiceNext, Service!Proceed
  <2>3. CASE ~(s = "Left" /\ r = "Pass") /\ Requester!KeepWaiting
    BY <1>2, <1>5, <2>3, KeepWaitingTick
  <2>4. CASE ~(s = "Left" /\ r = "Pass") /\ Requester!EndWithoutAnswer
    <3>1. ~selfTimer' /\ UNCHANGED answer
      BY <2>4 DEF Requester!EndWithoutAnswer, Requester!Forget
    <3>2. QED
      BY <1>1, <2>1, <3>1, ServiceSides
         DEF Service!ServiceNext, Service!Abandon, AllOf, Side
  <2>5. CASE ~(s = "Left" /\ r = "Pass") /\ Requester!ReplyToSoC
    <3>1. s = "Right" /\ answer'.data = AllOf(round) /\ answer'.round = round
      BY <1>1, <1>5, <2>5, ReplyTick
    <3>2. ~selfTimer'
      BY <2>5 DEF Requester!ReplyToSoC, Requester!Forget
    <3>3. answer.round # round
      BY <1>1, <2>1 DEF Standing, TypeInv, TypeOK, Requester!SelfTestTypeOK
    <3>4. QED
      BY <1>1, <2>1, <3>1, <3>2, <3>3, ServiceSides
         DEF Service!ServiceNext, Service!Reply, AllOf
  <2>6. QED
    BY <1>5, <2>2, <2>3, <2>4, <2>5, SettledTick
<1>6. QED
  BY <1>1, <1>2, <1>3, <1>4, <1>5 DEF InStage, Resting

LEMMA ServiceStep ==
  TypeInv /\ TestInv /\ [Next]_vars => [Service!ServiceNext]_Service!serviceVars
<1> SUFFICES ASSUME TypeInv, TestInv, [Next]_vars
    PROVE  [Service!ServiceNext]_Service!serviceVars
  OBVIOUS
<1>1. CASE ~undisturbed'
  BY <1>1, ServiceDisturbed
<1>2. CASE undisturbed'
  <2>1. undisturbed
    BY <1>2, Disturbs
  <2>2. UNCHANGED shownVars => UNCHANGED Service!serviceVars
    BY <1>2, <2>1, ServiceStutters
  <2>3. CASE StartArrives \/ Calibrates \/ StateArrives \/ DataArrives \/ PerceptionReports
    BY <2>2, <2>3
       DEF StartArrives, Calibrates, StateArrives, DataArrives, PerceptionReports, shownVars,
           selfTestVars, Requester!TofCalibStateCallback, Requester!TofCalibDataCallback,
           Requester!CalibCompleteStateCallback
  <2>4. CASE CalibTick
    <3>1. mode = "NORMAL"
      BY <2>1 DEF TestInv, Standing
    <3>2. UNCHANGED shownVars
      BY <2>4, <3>1
         DEF CalibTick, Requester!TofCalibrationTimerCallback, Requester!JigAnswersRight,
             shownVars
    <3>3. QED
      BY <2>2, <3>2
  <2>5. CASE NodeSwitched
    BY <1>2, <2>5 DEF NodeSwitched
  <2>6. CASE UNCHANGED vars
    BY <2>2, <2>6 DEF vars, selfTestVars, shownVars
  <2>7. QED
    BY <1>2, <2>1, <2>3, <2>4, <2>5, <2>6, ServiceOfUdpThread, ServiceOfTick DEF Next
<1>3. QED
  BY <1>1, <1>2

(* The self test implements the service TofService describes: one request  *)
(* at a time, left before right, at most one answer and that about the     *)
(* request being served.                                                   *)
THEOREM ServiceIsKept == Spec => ServiceKept
  BY StagesHold, ServiceStart, ServiceStep, PTL DEF Spec, ServiceKept, Service!ServiceSpec
=============================================================================
