--------------------------- MODULE TofCalibrator ---------------------------
(***************************************************************************)
(* The calibrator of the multizone ToF sensors inside the sensor manager   *)
(* (sensor_manager_node.cpp, multizone_tof_calibrator.cpp).  A command     *)
(* starts a session for one side; every ToF message that gets through the  *)
(* node's buffer feeds the session until it passes or fails; when both     *)
(* sides have passed, the six values go to A1_perception.                  *)
(*                                                                         *)
(* A message is abstracted to what it says of each target zone: "dead" (0  *)
(* or NaN), "same" (the value read before) or "fresh".  The statistics of  *)
(* a full session are a free choice of verdict.  The node is single-       *)
(* threaded: a callback is one atomic step.  The converter of a side is    *)
(* always configured and returns all zones, so FailUnknown does not occur; *)
(* the session restart inside ProcessCalibration is unreachable because a  *)
(* finished session leaves calibState Inactive.                            *)
(***************************************************************************)
EXTENDS Integers, Sequences

CONSTANTS
  Zones,          \* number of target zones (kTargetIndices)
  Samples,        \* what the messages of this instance may say of the zones
  SamplingCount,  \* sampling_count
  AttemptLimit,   \* 64 in ProcessCalibration
  RenewalLimit,   \* data_non_renewal_count
  TopicDepth,     \* messages a reader may leave unread
  MaxRounds       \* calibration commands in a behaviour

Side == {"Left", "Right"}
Zone == 1..Zones
Verdict == {"OutOfRange", "Unstable", "Pass"}
Result == {"Running", "NonRenewal"} \cup Verdict

ASSUME CalibratorConstants ==
  /\ Zones \in Nat \ {0}
  /\ Samples \subseteq [Zone -> {"dead", "same", "fresh"}]
  /\ {SamplingCount, AttemptLimit, RenewalLimit, TopicDepth, MaxRounds} \subseteq Nat \ {0}

VARIABLES
  active,       \* node_active_cmd_
  calibState,   \* calib_state_
  isDone,       \* is_left_done_, is_right_done_
  session,      \* calib_session_
  resultOf,     \* mtof_calib_result_array_: the command each half was measured for
  request,      \* the command being served (its number; read by properties only)
  stateTopic,   \* /tof_calib_state, oldest first
  dataTopic,    \* /tof_calib_data
  arrayTopic    \* /calibration/complete array to A1_perception

calibratorVars == <<active, calibState, isDone, session, resultOf, request,
                    stateTopic, dataTopic, arrayTopic>>

NewSession ==
  [attempts |-> 0, samples |-> 0,
   pushed |-> [z \in Zone |-> FALSE], stale |-> [z \in Zone |-> 0]]

CalibratorInit ==
  /\ active = TRUE
  /\ calibState = "Inactive"
  /\ isDone = [side \in Side |-> FALSE]
  /\ session = NewSession
  /\ resultOf = [side \in Side |-> 0]
  /\ request = 0
  /\ stateTopic = <<>> /\ dataTopic = <<>> /\ arrayTopic = <<>>
-----------------------------------------------------------------------------
\* /start_tofcalib: a new session, whatever the calibrator was doing.
StartTofcalib(side, round) ==
  /\ calibState' = side
  /\ session' = NewSession
  /\ isDone' = [isDone EXCEPT ![side] = FALSE]
  /\ request' = round
  /\ UNCHANGED <<active, resultOf, stateTopic, dataTopic, arrayTopic>>

\* /cmd_sensor_manager: an inactive node drops ToF messages; the calibrator
\* is not told.
CmdSensorManager(on) ==
  /\ active' = on
  /\ UNCHANGED <<calibState, isDone, session, resultOf, request, stateTopic,
                 dataTopic, arrayTopic>>
-----------------------------------------------------------------------------
CountedAttempt == IF session.attempts <= AttemptLimit THEN session.attempts + 1
                  ELSE session.attempts

AllDead(sample) == \A z \in Zone : sample[z] = "dead"

\* non_renewal_counts[z] after this sample.
Staleness(sample, z) ==
  IF sample[z] = "same" /\ session.pushed[z] THEN session.stale[z] + 1 ELSE 0

\* The loop over the zones leaves at the first dead or stuck zone.
Stops(sample, z) == sample[z] = "dead" \/ Staleness(sample, z) > RenewalLimit
Accepted(sample) == {z \in Zone : \A y \in 1..z : ~Stops(sample, y)}
Complete(sample) == Accepted(sample) = Zone
StopsDead(sample) ==
  \E z \in Zone : sample[z] = "dead" /\ \A y \in 1..(z - 1) : y \in Accepted(sample)

AfterSampleUncounted(sample) ==   \* mutant: a message without data is no attempt
  IF AllDead(sample) THEN session
  ELSE [session EXCEPT !.attempts = CountedAttempt,
          !.samples = IF Complete(sample) THEN @ + 1 ELSE @]

AfterSample(sample) ==
  [attempts |-> CountedAttempt,
   samples |-> IF Complete(sample) THEN session.samples + 1 ELSE session.samples,
   pushed |-> [z \in Zone |-> session.pushed[z] \/ z \in Accepted(sample)],
   stale |-> [z \in Zone |-> IF z \in Accepted(sample) THEN Staleness(sample, z)
                             ELSE session.stale[z]]]

FullLate(samples) == samples > SamplingCount   \* mutant: judged one sample late
Full(samples) == samples >= SamplingCount

\* What ProcessCalibration may return for this sample.
ProcessCalibration(sample) ==
  IF AllDead(sample)
  THEN {IF CountedAttempt > AttemptLimit THEN "NonRenewal" ELSE "Running"}
  ELSE IF ~Complete(sample)
  THEN {IF StopsDead(sample) THEN "Running" ELSE "NonRenewal"}
  ELSE IF Full(session.samples + 1) THEN Verdict ELSE {"Running"}

\* The result in the nibble of its side, the other nibble zero.
MakeMTofState(side, result) ==
  [s \in Side |-> IF s = side THEN result ELSE "None"]

PassedLeftKept(done) ==   \* mutant: the left flag outlives the published pair
  IF \A s \in Side : done[s] THEN [done EXCEPT !["Right"] = FALSE] ELSE done

\* A pair of passed sides is handed over once.
HandedOver(done) ==
  IF \A s \in Side : done[s] THEN [s \in Side |-> FALSE] ELSE done

\* One ToF message from the buffer, with a result it may have.
RunMultizoneToFCalibration(sample, result) ==
  LET side == calibState
      done == IF result = "Pass" THEN [isDone EXCEPT ![side] = TRUE] ELSE isDone
  IN /\ active
     /\ calibState \in Side
     /\ ~isDone[side]
     /\ Len(stateTopic) < TopicDepth
     /\ Len(dataTopic) < TopicDepth
     /\ result \in ProcessCalibration(sample)
     /\ session' = AfterSample(sample)
     /\ calibState' = IF result = "Running" THEN side ELSE "Inactive"
     /\ resultOf' = IF result = "Pass" THEN [resultOf EXCEPT ![side] = request]
                    ELSE resultOf
     /\ stateTopic' = Append(stateTopic, MakeMTofState(side, result))
     /\ dataTopic' = IF result = "Running" THEN dataTopic
                     ELSE Append(dataTopic, [side |-> side, result |-> result,
                                             of |-> request])
     /\ arrayTopic' = IF \A s \in Side : done[s] THEN Append(arrayTopic, resultOf')
                      ELSE arrayTopic
     /\ isDone' = HandedOver(done)
     /\ UNCHANGED <<active, request>>

RunCalibration ==
  \E sample \in Samples, result \in Result : RunMultizoneToFCalibration(sample, result)
-----------------------------------------------------------------------------
(* The calibrator alone: any commands, and readers that keep up with the   *)
(* state and data topics.  arrayTopic keeps every array handed over.       *)
ReadTopics ==
  /\ stateTopic # <<>> \/ dataTopic # <<>>
  /\ stateTopic' = <<>> /\ dataTopic' = <<>>
  /\ UNCHANGED <<active, calibState, isDone, session, resultOf, request, arrayTopic>>

CalibratorNext ==
  \/ \E side \in Side : request < MaxRounds /\ StartTofcalib(side, request + 1)
  \/ \E on \in BOOLEAN : CmdSensorManager(on)
  \/ RunCalibration
  \/ ReadTopics

CalibratorSpec == CalibratorInit /\ [][CalibratorNext]_calibratorVars

\* The publishing timers run, ToF messages arrive, readers read.
CalibratorFairSpec ==
  CalibratorSpec /\ WF_calibratorVars(RunCalibration) /\ WF_calibratorVars(ReadTopics)
-----------------------------------------------------------------------------
StateCode == [Side -> Result \cup {"None"}]

\* Every variable holds a value of its type.
CalibratorTypeOK ==
  /\ active \in BOOLEAN
  /\ calibState \in Side \cup {"Inactive"}
  /\ isDone \in [Side -> BOOLEAN]
  /\ session \in [attempts : 0..(AttemptLimit + 1), samples : 0..SamplingCount,
                  pushed : [Zone -> BOOLEAN],
                  stale : [Zone -> 0..RenewalLimit]]
  /\ resultOf \in [Side -> 0..MaxRounds]
  /\ request \in 0..MaxRounds
  /\ stateTopic \in Seq(StateCode)
  /\ dataTopic \in Seq([side : Side, result : Result, of : 0..MaxRounds])
  /\ arrayTopic \in Seq([Side -> 0..MaxRounds])

(* The array for A1_perception pairs a left and a right measurement that   *)
(* were not handed over before, in whatever order sides are commanded,     *)
(* failed and repeated: no half of an earlier calibration is sent again.   *)
ArraysShareNoResult ==
  \A i, j \in 1..Len(arrayTopic) :
    i < j => \A s \in Side : arrayTopic[i][s] < arrayTopic[j][s]

\* A sensor of which all zones deliver or none does.
Uniform == {sample \in Samples : \E r \in {"dead", "same", "fresh"} : sample = [z \in Zone |-> r]}

(* A session ends: a sensor that from some time on delivers in all zones or*)
(* in none is judged or failed, unless the node is deactivated, whatever   *)
(* partial readings came before.                                           *)
SessionEnds ==
  <>[][RunCalibration => \E sample \in Uniform, result \in Result :
                           RunMultizoneToFCalibration(sample, result)]_calibratorVars
    => \A side \in Side : calibState = side ~> calibState # side \/ ~active
=============================================================================
