------------------------ MODULE TofCalibrator_proofs ------------------------
(***************************************************************************)
(* Proofs about TofCalibrator for every number of zones, every set of ToF  *)
(* messages and every setting of its limits.                               *)
(***************************************************************************)
EXTENDS TofCalibrator, SequenceTheorems, TLAPS

\* A message without data completes no sample: the zone loop stops at once.
LEMMA DeadIncomplete ==
  ASSUME NEW sample, AllDead(sample)
  PROVE  ~Complete(sample)
<1>1. 1 \in Zone /\ 1 \in 1..1
  BY CalibratorConstants DEF CalibratorConstants, Zone
<1>2. Stops(sample, 1)
  BY <1>1 DEF Stops, AllDead
<1>3. 1 \notin Accepted(sample)
  BY <1>1, <1>2 DEF Accepted
<1>4. QED
  BY <1>1, <1>3 DEF Complete

\* A zone is accepted while it is not stale for longer than the limit.
LEMMA AcceptedStaleness ==
  ASSUME CalibratorTypeOK, NEW sample, NEW z \in Zone, z \in Accepted(sample)
  PROVE  Staleness(sample, z) \in 0..RenewalLimit
<1>1. z \in 1..z
  BY DEF Zone
<1>2. ~(Staleness(sample, z) > RenewalLimit)
  BY <1>1 DEF Accepted, Stops
<1>3. Staleness(sample, z) \in Nat
  BY CalibratorConstants DEF CalibratorConstants, CalibratorTypeOK, Staleness
<1>4. QED
  BY <1>2, <1>3, CalibratorConstants DEF CalibratorConstants

(* A running session has room for a sample: the verdict of a full session  *)
(* ends it.                                                                *)
SessionInv ==
  /\ CalibratorTypeOK
  /\ calibState \in Side => session.samples < SamplingCount

\* The session after a message, and that only an unfinished one goes on.
LEMMA SessionStep ==
  ASSUME SessionInv, calibState \in Side, NEW sample, NEW result,
         result \in ProcessCalibration(sample)
  PROVE  /\ AfterSample(sample) \in
              [attempts : 0..(AttemptLimit + 1), samples : 0..SamplingCount,
               pushed : [Zone -> BOOLEAN], stale : [Zone -> 0..RenewalLimit]]
         /\ result = "Running" => AfterSample(sample).samples < SamplingCount
<1> DEFINE after == AfterSample(sample)
<1>1. after.attempts \in 0..(AttemptLimit + 1)
  BY CalibratorConstants
     DEF CalibratorConstants, SessionInv, CalibratorTypeOK, AfterSample, CountedAttempt
<1>2. session.samples \in Nat /\ session.samples < SamplingCount /\ SamplingCount \in Nat
  BY CalibratorConstants DEF CalibratorConstants, SessionInv, CalibratorTypeOK
<1>3. after.samples \in 0..SamplingCount
  BY <1>2 DEF AfterSample
<1>4. after.pushed \in [Zone -> BOOLEAN]
  BY DEF AfterSample, SessionInv, CalibratorTypeOK
<1>5. after.stale \in [Zone -> 0..RenewalLimit]
  <2>1. \A z \in Zone : after.stale[z] \in 0..RenewalLimit
    BY AcceptedStaleness DEF AfterSample, SessionInv, CalibratorTypeOK
  <2>2. QED
    BY <2>1 DEF AfterSample
<1>6. ASSUME result = "Running" PROVE after.samples < SamplingCount
  <2>1. CASE ~Complete(sample)
    BY <1>2, <2>1 DEF AfterSample
  <2>2. CASE Complete(sample)
    <3>1. ~Full(session.samples + 1)
      BY <1>6, <2>2, DeadIncomplete DEF ProcessCalibration, Verdict
    <3>2. QED
      BY <1>2, <2>2, <3>1 DEF AfterSample, Full
  <2>3. QED
    BY <2>1, <2>2
<1>7. after = [attempts |-> after.attempts, samples |-> after.samples,
               pushed |-> after.pushed, stale |-> after.stale]
  BY DEF AfterSample
<1>8. QED
  BY <1>1, <1>3, <1>4, <1>5, <1>6, <1>7

LEMMA StateCodeMade ==
  ASSUME NEW side \in Side, NEW result \in Result
  PROVE  MakeMTofState(side, result) \in StateCode
  BY DEF MakeMTofState, StateCode

LEMMA SessionInvInit == CalibratorInit => SessionInv
<1> SUFFICES ASSUME CalibratorInit PROVE SessionInv
  OBVIOUS
<1>1. session \in [attempts : 0..(AttemptLimit + 1), samples : 0..SamplingCount,
                   pushed : [Zone -> BOOLEAN], stale : [Zone -> 0..RenewalLimit]]
  <2>1. 0 \in 0..(AttemptLimit + 1) /\ 0 \in 0..SamplingCount /\ 0 \in 0..RenewalLimit
    BY CalibratorConstants DEF CalibratorConstants
  <2>2. QED
    BY <2>1 DEF CalibratorInit, NewSession
<1>2. request \in 0..MaxRounds /\ resultOf \in [Side -> 0..MaxRounds]
  BY CalibratorConstants DEF CalibratorInit, CalibratorConstants
<1>3. stateTopic = <<>> /\ dataTopic = <<>> /\ arrayTopic = <<>>
      /\ calibState = "Inactive" /\ active = TRUE /\ isDone \in [Side -> BOOLEAN]
  BY DEF CalibratorInit
<1>4. QED
  BY <1>1, <1>2, <1>3 DEF SessionInv, CalibratorTypeOK, Side

LEMMA SessionInvStart ==
  ASSUME SessionInv, NEW side \in Side, request < MaxRounds,
         StartTofcalib(side, request + 1)
  PROVE  SessionInv'
<1>1. session' \in [attempts : 0..(AttemptLimit + 1), samples : 0..SamplingCount,
                    pushed : [Zone -> BOOLEAN], stale : [Zone -> 0..RenewalLimit]]
      /\ session'.samples < SamplingCount
  <2>1. 0 \in 0..(AttemptLimit + 1) /\ 0 \in 0..SamplingCount /\ 0 \in 0..RenewalLimit
        /\ 0 < SamplingCount
    BY CalibratorConstants DEF CalibratorConstants
  <2>2. QED
    BY <2>1 DEF StartTofcalib, NewSession
<1>2. request' \in 0..MaxRounds
  BY CalibratorConstants
     DEF StartTofcalib, SessionInv, CalibratorTypeOK, CalibratorConstants
<1>3. QED
  BY <1>1, <1>2 DEF StartTofcalib, SessionInv, CalibratorTypeOK

LEMMA SessionInvRun ==
  ASSUME SessionInv, NEW sample, NEW result \in Result,
         RunMultizoneToFCalibration(sample, result)
  PROVE  SessionInv'
<1> DEFINE side == calibState
<1>1. side \in Side /\ result \in ProcessCalibration(sample) /\ request \in 0..MaxRounds
  BY DEF RunMultizoneToFCalibration, SessionInv, CalibratorTypeOK
<1>2. session' \in [attempts : 0..(AttemptLimit + 1), samples : 0..SamplingCount,
                    pushed : [Zone -> BOOLEAN], stale : [Zone -> 0..RenewalLimit]]
      /\ (result = "Running" => session'.samples < SamplingCount)
  BY <1>1, SessionStep DEF RunMultizoneToFCalibration
<1>3. calibState' \in Side \cup {"Inactive"}
      /\ (calibState' \in Side => result = "Running")
  BY <1>1 DEF RunMultizoneToFCalibration, Side
<1>4. isDone' \in [Side -> BOOLEAN]
  BY <1>1 DEF RunMultizoneToFCalibration, HandedOver, SessionInv, CalibratorTypeOK
<1>5. resultOf' \in [Side -> 0..MaxRounds]
  BY <1>1 DEF RunMultizoneToFCalibration, SessionInv, CalibratorTypeOK
<1>6. stateTopic' \in Seq(StateCode)
  BY <1>1, StateCodeMade DEF RunMultizoneToFCalibration, SessionInv, CalibratorTypeOK
<1>7. dataTopic' \in Seq([side : Side, result : Result, of : 0..MaxRounds])
  <2> DEFINE entry == [side |-> side, result |-> result, of |-> request]
             Entries == [side : Side, result : Result, of : 0..MaxRounds]
  <2>1. entry \in Entries
    BY <1>1
  <2>2. dataTopic \in Seq(Entries)
    BY DEF SessionInv, CalibratorTypeOK
  <2>3. dataTopic' = dataTopic \/ dataTopic' = Append(dataTopic, entry)
    BY DEF RunMultizoneToFCalibration
  <2> HIDE DEF entry, Entries
  <2>4. dataTopic' \in Seq(Entries)
    BY <2>1, <2>2, <2>3, AppendProperties
  <2>5. QED
    BY <2>4 DEF Entries
<1>8. arrayTopic' \in Seq([Side -> 0..MaxRounds])
  <2>1. arrayTopic \in Seq([Side -> 0..MaxRounds])
    BY DEF SessionInv, CalibratorTypeOK
  <2>2. arrayTopic' = arrayTopic \/ arrayTopic' = Append(arrayTopic, resultOf')
    BY Zenon DEF RunMultizoneToFCalibration
  <2>3. QED
    BY <1>5, <2>1, <2>2, AppendProperties
<1>9. active' \in BOOLEAN /\ request' \in 0..MaxRounds
  BY DEF RunMultizoneToFCalibration, SessionInv, CalibratorTypeOK
<1>10. QED
  BY <1>2, <1>3, <1>4, <1>5, <1>6, <1>7, <1>8, <1>9 DEF SessionInv, CalibratorTypeOK

LEMMA SessionInvStep ==
  ASSUME SessionInv, [CalibratorNext]_calibratorVars
  PROVE  SessionInv'
<1>1. ASSUME NEW side \in Side, request < MaxRounds, StartTofcalib(side, request + 1)
      PROVE  SessionInv'
  BY <1>1, SessionInvStart
<1>2. ASSUME NEW on \in BOOLEAN, CmdSensorManager(on) PROVE SessionInv'
  BY <1>2 DEF CmdSensorManager, SessionInv, CalibratorTypeOK
<1>3. CASE RunCalibration
  BY <1>3, SessionInvRun DEF RunCalibration
<1>4. CASE ReadTopics
  BY <1>4 DEF ReadTopics, SessionInv, CalibratorTypeOK
<1>5. CASE UNCHANGED calibratorVars
  BY <1>5 DEF calibratorVars, SessionInv, CalibratorTypeOK
<1>6. QED
  BY <1>1, <1>2, <1>3, <1>4, <1>5 DEF CalibratorNext

(* Every variable keeps its type: the counters of a session stay within the*)
(* limits of ProcessCalibration, for any number of zones and any messages. *)
THEOREM CalibratorTypeCorrect == CalibratorSpec => []CalibratorTypeOK
<1>1. SessionInv => CalibratorTypeOK
  BY DEF SessionInv
<1>2. QED
  BY SessionInvInit, SessionInvStep, <1>1, PTL DEF CalibratorSpec
-----------------------------------------------------------------------------
(* Why arrays share no result: a half that was handed over is never younger*)
(* than the last measurement of its side; a side that is done holds one    *)
(* that was not handed over, and a side under calibration is measured for a*)
(* command younger than all its measurements.                              *)
ArrayInv ==
  /\ CalibratorTypeOK
  /\ \A s \in Side : resultOf[s] <= request
  /\ \A i \in 1..Len(arrayTopic), s \in Side : arrayTopic[i][s] <= resultOf[s]
  /\ \A i \in 1..Len(arrayTopic), s \in Side :
       isDone[s] => arrayTopic[i][s] < resultOf[s]
  /\ \A s \in Side : calibState = s /\ ~isDone[s] => resultOf[s] < request
  /\ ArraysShareNoResult

LEMMA ArrayInvInit == CalibratorInit => ArrayInv
<1> SUFFICES ASSUME CalibratorInit PROVE ArrayInv
  OBVIOUS
<1>1. CalibratorTypeOK
  BY SessionInvInit DEF SessionInv
<1>2. Len(arrayTopic) = 0
  BY DEF CalibratorInit
<1>3. /\ request = 0 /\ calibState = "Inactive"
      /\ \A s \in Side : resultOf[s] = 0
  BY DEF CalibratorInit
<1>4. QED
  BY <1>1, <1>2, <1>3 DEF ArrayInv, ArraysShareNoResult, Side

\* What the types give the arithmetic below.
LEMMA ResultsNat ==
  ASSUME CalibratorTypeOK
  PROVE  /\ request \in Nat
         /\ \A s \in Side : resultOf[s] \in Nat
         /\ Len(arrayTopic) \in Nat
         /\ \A i \in 1..Len(arrayTopic), s \in Side : arrayTopic[i][s] \in Nat
<1>1. MaxRounds \in Nat
  BY CalibratorConstants DEF CalibratorConstants
<1>2. \A i \in 1..Len(arrayTopic) : arrayTopic[i] \in [Side -> 0..MaxRounds]
  BY ElementOfSeq DEF CalibratorTypeOK
<1>3. QED
  BY <1>1, <1>2, LenProperties DEF CalibratorTypeOK

LEMMA ArrayInvStart ==
  ASSUME ArrayInv, CalibratorTypeOK', NEW side \in Side, StartTofcalib(side, request + 1)
  PROVE  ArrayInv'
<1>1. request' = request + 1 /\ request \in Nat /\ calibState' = side
      /\ UNCHANGED <<resultOf, arrayTopic>>
      /\ \A s \in Side : isDone'[s] => isDone[s]
  BY ResultsNat DEF StartTofcalib, ArrayInv, CalibratorTypeOK
<1>2. \A s \in Side : resultOf'[s] < request'
  BY <1>1, ResultsNat DEF ArrayInv
<1>3. QED
  BY <1>1, <1>2, ResultsNat DEF ArrayInv, ArraysShareNoResult

LEMMA ArrayInvRun ==
  ASSUME ArrayInv, CalibratorTypeOK', NEW sample, NEW result,
         RunMultizoneToFCalibration(sample, result)
  PROVE  ArrayInv'
<1> DEFINE side == calibState
           done == IF result = "Pass" THEN [isDone EXCEPT ![side] = TRUE] ELSE isDone
           allDone == \A s \in Side : done[s]
<1>1. /\ side \in Side /\ ~isDone[side] /\ request' = request
      /\ calibState' = IF result = "Running" THEN side ELSE "Inactive"
      /\ resultOf' = IF result = "Pass" THEN [resultOf EXCEPT ![side] = request]
                     ELSE resultOf
      /\ arrayTopic' = IF allDone THEN Append(arrayTopic, resultOf') ELSE arrayTopic
      /\ isDone' = HandedOver(done)
  BY DEF RunMultizoneToFCalibration
<1>2. /\ isDone \in [Side -> BOOLEAN] /\ resultOf \in [Side -> 0..MaxRounds]
      /\ CalibratorTypeOK
  BY DEF ArrayInv, CalibratorTypeOK
<1>3. resultOf[side] < request
  BY <1>1 DEF ArrayInv
<1>4. CASE result # "Pass"
  <2>1. ~allDone /\ isDone' = isDone
    BY <1>1, <1>4 DEF HandedOver
  <2>2. UNCHANGED <<resultOf, arrayTopic, isDone, request>>
    BY <1>1, <1>4, <2>1
  <2>3. \A s \in Side : calibState' = s => calibState = s
    BY <1>1 DEF Side
  <2>4. QED
    BY <2>2, <2>3 DEF ArrayInv, ArraysShareNoResult
<1>5. CASE result = "Pass"
  <2>1. calibState' = "Inactive" /\ resultOf'[side] = request
        /\ \A s \in Side : s # side => resultOf'[s] = resultOf[s]
    BY <1>1, <1>2, <1>5
  <2>2. \A s \in Side : done[s] <=> (s = side \/ isDone[s])
    BY <1>1, <1>2, <1>5
  <2>3. \A s \in Side : resultOf[s] <= resultOf'[s] /\ resultOf'[s] <= request
    BY <1>1, <1>2, <1>3, <2>1, ResultsNat DEF ArrayInv
  <2>4. \A i \in 1..Len(arrayTopic), s \in Side :
          done[s] => arrayTopic[i][s] < resultOf'[s]
    <3> SUFFICES ASSUME NEW i \in 1..Len(arrayTopic), NEW s \in Side, done[s]
                 PROVE  arrayTopic[i][s] < resultOf'[s]
      OBVIOUS
    <3>1. arrayTopic[i][s] \in Nat /\ resultOf[s] \in Nat /\ request \in Nat
          /\ arrayTopic[i][s] <= resultOf[s]
      BY <1>2, ResultsNat DEF ArrayInv
    <3>2. CASE s = side
      BY <1>3, <2>1, <3>1, <3>2
    <3>3. CASE s # side
      BY <2>1, <2>2, <3>3 DEF ArrayInv
    <3>4. QED
      BY <3>2, <3>3
  <2>0. \A s \in Side : resultOf'[s] \in Nat
    BY <1>1, <1>2, <2>1, ResultsNat
  <2> HIDE DEF done, side
  <2>5. CASE ~allDone
    <3>1. arrayTopic' = arrayTopic /\ isDone' = done
      BY <1>1, <2>5 DEF HandedOver
    <3>2. \A i \in 1..Len(arrayTopic), s \in Side : arrayTopic[i][s] <= resultOf'[s]
      BY <1>2, <2>0, <2>3, ResultsNat DEF ArrayInv
    <3>3. QED
      BY <1>1, <2>1, <2>3, <2>4, <3>1, <3>2 DEF ArrayInv, ArraysShareNoResult, Side
  <2>6. CASE allDone
    <3>1. arrayTopic' = Append(arrayTopic, resultOf')
          /\ \A s \in Side : ~isDone'[s]
      BY <1>1, <2>6 DEF HandedOver
    <3>2. /\ Len(arrayTopic) \in Nat
          /\ Len(arrayTopic') = Len(arrayTopic) + 1
          /\ \A i \in 1..Len(arrayTopic) : arrayTopic'[i] = arrayTopic[i]
          /\ arrayTopic'[Len(arrayTopic) + 1] = resultOf'
      BY <1>2, <3>1, AppendProperties, ResultsNat DEF CalibratorTypeOK
    <3>3. \A i \in 1..Len(arrayTopic), s \in Side : arrayTopic'[i][s] < resultOf'[s]
      BY <2>4, <2>6, <3>2
    <3>4. \A i \in 1..Len(arrayTopic'), s \in Side : arrayTopic'[i][s] <= resultOf'[s]
      <4> SUFFICES ASSUME NEW i \in 1..Len(arrayTopic'), NEW s \in Side
                   PROVE  arrayTopic'[i][s] <= resultOf'[s]
        OBVIOUS
      <4>1. resultOf'[s] \in Nat
        BY <2>0
      <4>2. i \in 1..Len(arrayTopic) \/ i = Len(arrayTopic) + 1
        BY <3>2
      <4>3. CASE i \in 1..Len(arrayTopic)
        <5>1. arrayTopic[i][s] \in Nat /\ arrayTopic'[i][s] < resultOf'[s]
          BY <1>2, <3>3, <4>3, ResultsNat
        <5>2. QED
          BY <3>2, <4>1, <4>3, <5>1
      <4>4. CASE i = Len(arrayTopic) + 1
        BY <3>2, <4>1, <4>4
      <4>5. QED
        BY <4>2, <4>3, <4>4
    <3>5. ArraysShareNoResult'
      <4> SUFFICES ASSUME NEW i \in 1..Len(arrayTopic'), NEW j \in 1..Len(arrayTopic'),
                          i < j, NEW s \in Side
                   PROVE  arrayTopic'[i][s] < arrayTopic'[j][s]
        BY DEF ArraysShareNoResult
      <4>1. i \in 1..Len(arrayTopic)
        BY <3>2
      <4>2. CASE j \in 1..Len(arrayTopic)
        BY <3>2, <4>1, <4>2 DEF ArrayInv, ArraysShareNoResult
      <4>3. CASE j = Len(arrayTopic) + 1
        BY <3>2, <3>3, <4>1, <4>3
      <4>4. QED
        BY <3>2, <4>2, <4>3
    <3>6. QED
      BY <1>1, <2>1, <2>3, <3>1, <3>4, <3>5 DEF ArrayInv, Side
  <2>7. QED
    BY <2>5, <2>6
<1>6. QED
  BY <1>4, <1>5

LEMMA ArrayInvStep ==
  ASSUME ArrayInv, CalibratorTypeOK', [CalibratorNext]_calibratorVars
  PROVE  ArrayInv'
<1>1. ASSUME NEW side \in Side, StartTofcalib(side, request + 1) PROVE ArrayInv'
  BY <1>1, ArrayInvStart
<1>2. ASSUME NEW on \in BOOLEAN, CmdSensorManager(on) PROVE ArrayInv'
  BY <1>2 DEF CmdSensorManager, ArrayInv, ArraysShareNoResult
<1>3. CASE RunCalibration
  BY <1>3, ArrayInvRun DEF RunCalibration
<1>4. CASE ReadTopics
  BY <1>4 DEF ReadTopics, ArrayInv, ArraysShareNoResult
<1>5. CASE UNCHANGED calibratorVars
  BY <1>5 DEF calibratorVars, ArrayInv, ArraysShareNoResult
<1>6. QED
  BY <1>1, <1>2, <1>3, <1>4, <1>5 DEF CalibratorNext

(* No half of an earlier calibration is handed to A1_perception again, in  *)
(* whatever order sides are commanded, fail and are repeated.              *)
THEOREM ArraysShareNoResultHolds == CalibratorSpec => []ArraysShareNoResult
<1>1. ArrayInv => ArraysShareNoResult
  BY DEF ArrayInv
<1>2. QED
  BY ArrayInvInit, ArrayInvStep, CalibratorTypeCorrect, <1>1, PTL DEF CalibratorSpec
=============================================================================
