----------------------- MODULE InspectionDrive_proofs -----------------------
(***************************************************************************)
(* Theorems about the motor self test, for every ramp, distance, sleep,    *)
(* watchdog limit and history depth.                                       *)
(***************************************************************************)
EXTENDS InspectionDrive, SequenceTheorems, TLAPS

(* What the proofs need to know of the types; the jig latch of the link,   *)
(* which would shut the Twists out, is not touched by this test.           *)
DriveTypes ==
  /\ tx \in Link!Packet
  /\ wire \in Link!Motion
  /\ cmdAge \in 0..Link!Expired
  /\ ~bJigMotorInspection
  /\ velocity \in 0..Cap
  /\ cmdVel \in Seq(0..Cap)
  /\ resetTopic \in Link!ResetCommand \cup {"none"}
  /\ slept \in 0..SleepUnits
  /\ sinceCancel \in 0..Settled
  /\ odom \in 0..Far /\ mcuOdom \in 0..Far /\ travelled \in 0..Far

(* How long after a cancel each bearer of a motion can exist: the callback *)
(* no longer than it sleeps, a Twist it sends no longer than that, the     *)
(* link's record and the packet a watchdog's limit longer.                 *)
StandInv ==
  /\ timer \/ udpThread = "enable" => sinceCancel = 0
  /\ callback = "asleep" => sinceCancel <= slept
  /\ callback \in {"ready", "drive"} => sinceCancel <= SleepUnits
  /\ \A i \in 1..Len(cmdVel) : cmdVel[i] # 0 => sinceCancel <= SleepUnits
  /\ tx.lin # 0 /\ cmdAge <= WatchdogLimit => sinceCancel <= SleepUnits + cmdAge
  /\ wire.lin # 0 => sinceCancel <= SleepUnits + WatchdogLimit + 1

(* A test with a timer of its own: until the timer is there nothing of it  *)
(* drives; then the base is a position taken after the reset, from which   *)
(* the MCU has not counted more than the robot has driven.                 *)
FreshInv ==
  /\ fresh /\ udpThread = "enable" =>
       ~timer /\ ~baseSet /\ ~endTarget /\ callback # "drive"
  /\ fresh /\ timer =>
       /\ callback = "drive" => baseSet
       /\ "odom" \in received /\ odom = 0 => mcuOdom <= travelled
       /\ baseSet => odom <= travelled /\ mcuOdom <= travelled
       /\ endTarget => travelled >= Distance

DriveInv == DriveTypes /\ StandInv /\ FreshInv

LEMMA Positive ==
  /\ Cap \in Nat /\ Cap >= 1 /\ Distance \in Nat /\ Distance >= 1
  /\ SleepUnits \in Nat /\ SleepUnits >= 1 /\ WatchdogLimit \in Nat /\ WatchdogLimit >= 1
  /\ QueueDepth \in Nat /\ QueueDepth >= 1
  BY InspectionConstants, SMT DEF InspectionConstants

LEMMA DriveInit == Init => DriveInv
<1> SUFFICES ASSUME Init PROVE DriveInv
  OBVIOUS
<1>1. /\ tx = [Link!DefaultTransmissionData EXCEPT !.remote = "BLOCK"]
      /\ wire = Link!MotionOf(tx) /\ cmdAge = Link!Expired /\ ~bJigMotorInspection
  BY DEF Init, Link!Init
<1>2. tx \in Link!Packet /\ tx.lin = 0
  BY <1>1, Positive, SMT DEF Link!DefaultTransmissionData,
     Link!Packet, Link!ResetCommand, Link!ChargeCommand, Link!ImuCalibrationCommand
<1>3. wire \in Link!Motion /\ wire.lin = 0
  BY <1>1, <1>2, SMT DEF Link!MotionOf, Link!Motion, Link!Packet
<1>4. DriveTypes
  BY <1>1, <1>2, <1>3, Positive, SMT DEF Init, DriveTypes,
     Link!Expired, Settled, Far
<1>5. StandInv
  BY <1>2, <1>3, SMT DEF Init, StandInv
<1>6. FreshInv
  BY SMT DEF Init, FreshInv
<1>7. QED
  BY <1>4, <1>5, <1>6 DEF DriveInv

(* A Twist is appended to what is kept of the topic's history.             *)
LEMMA SentTwist ==
  ASSUME NEW v \in 0..Cap, cmdVel \in Seq(0..Cap)
  PROVE  /\ Sent(v) \in Seq(0..Cap)
         /\ \A i \in 1..Len(Sent(v)) :
              Sent(v)[i] = v \/ \E j \in 1..Len(cmdVel) : Sent(v)[i] = cmdVel[j]
<1>1. CASE Len(cmdVel) < QueueDepth
  <2>1. Sent(v) = Append(cmdVel, v)
    BY <1>1 DEF Sent
  <2>2. QED
    BY <2>1, AppendProperties, SMT
<1>2. CASE ~(Len(cmdVel) < QueueDepth)
  <2> DEFINE kept == Tail(cmdVel)
  <2>1. cmdVel # <<>>
    BY <1>2, Positive, SMT
  <2>2. /\ kept \in Seq(0..Cap) /\ Len(kept) = Len(cmdVel) - 1
        /\ \A i \in 1..Len(kept) : kept[i] = cmdVel[i + 1]
    BY <2>1, HeadTailProperties
  <2>3. Sent(v) = Append(kept, v)
    BY <1>2 DEF Sent
  <2>4. kept \in Seq(0..Cap) /\ Len(kept) \in Nat
    BY <2>2, LenProperties
  <2> HIDE DEF kept
  <2>5. /\ Append(kept, v) \in Seq(0..Cap) /\ Len(Append(kept, v)) = Len(kept) + 1
        /\ \A i \in 1..Len(kept) : Append(kept, v)[i] = kept[i]
        /\ Append(kept, v)[Len(kept) + 1] = v
    BY <2>4, AppendProperties
  <2>6. ASSUME NEW i \in 1..Len(Append(kept, v))
        PROVE  Append(kept, v)[i] = v \/ \E j \in 1..Len(cmdVel) : Append(kept, v)[i] = cmdVel[j]
    <3>1. CASE i = Len(kept) + 1
      BY <2>5, <3>1
    <3>2. CASE i \in 1..Len(kept)
      <4>1. Append(kept, v)[i] = cmdVel[i + 1]
        BY <2>2, <2>5, <3>2
      <4>2. i + 1 \in 1..Len(cmdVel)
        BY <2>2, <2>4, <3>2, SMT
      <4>3. QED
        BY <4>1, <4>2
    <3>3. QED
      BY <2>4, <2>5, <3>1, <3>2, SMT
  <2>7. QED
    BY <2>3, <2>5, <2>6
<1>3. QED
  BY <1>1, <1>2

-----------------------------------------------------------------------------
(* The UDP thread.                                                         *)
LEMMA UdpThreadStep ==
  ASSUME DriveInv, UdpThread
  PROVE  DriveInv'
<1> USE DEF DriveInv
<1>1. CASE InspectionStart \/ InspectionStop \/ OnStation \/ MotorTestStop
  <2>1. /\ UNCHANGED <<linkVars, timer, velocity, endTarget, baseSet, received, odom,
                       callback, slept, topicVars, history>>
        /\ udpThread' \in {udpThread, "leave", "cancel"}
    BY <1>1, SMT DEF InspectionStart, InspectionStop, OnStation, MotorTestStop
  <2>2. QED
    BY <2>1, SMT DEF linkVars, topicVars, history, DriveTypes, StandInv, FreshInv
<1>2. CASE MotorTestStart
  <2>1. /\ UNCHANGED <<linkVars, timer, received, odom, callback, slept, topicVars>>
        /\ velocity' = 0 /\ ~endTarget' /\ ~baseSet' /\ travelled' = 0 /\ sinceCancel' = 0
        /\ udpThread' = "enable"
        /\ fresh' = ~timer /\ (timer \/ callback \in {"idle", "asleep"})
    BY <1>2 DEF MotorTestStart, EnabledFlags
  <2>2. DriveTypes'
    BY <2>1, Positive, SMT DEF linkVars, topicVars, DriveTypes,
       Settled, Far
  <2>3. StandInv'
    BY <2>1, Positive, SMT DEF linkVars, topicVars, DriveTypes,
       Link!Expired, StandInv
  <2>4. fresh' => ~timer
    BY <2>1, Zenon
  <2>5. FreshInv'
    BY <2>1, <2>4, SMT DEF FreshInv
  <2>6. QED
    BY <2>2, <2>3, <2>5
<1>3. CASE EnableTimer
  <2>1. /\ UNCHANGED <<linkVars, velocity, endTarget, baseSet, odom, callback, slept, cmdVel,
                       mcuOdom, history>>
        /\ udpThread = "enable" /\ udpThread' = "idle" /\ received' = {} /\ timer'
        /\ resetTopic' = "ODOMETRY_RESET"
    BY <1>3 DEF EnableTimer
  <2>2. QED
    BY <2>1, SMT DEF Link!ResetCommand, linkVars, history, DriveTypes, StandInv, FreshInv
<1>4. CASE CancelTwist
  <2>1. /\ UNCHANGED <<linkVars, timer, velocity, endTarget, baseSet, received, odom, callback,
                       slept, resetTopic, mcuOdom, history>>
        /\ cmdVel' = Sent(0) /\ udpThread' # "enable"
    BY <1>4 DEF CancelTwist
  <2>2. /\ cmdVel' \in Seq(0..Cap)
        /\ \A i \in 1..Len(cmdVel') :
             cmdVel'[i] = 0 \/ \E j \in 1..Len(cmdVel) : cmdVel'[i] = cmdVel[j]
    <3>1. 0 \in 0..Cap /\ cmdVel \in Seq(0..Cap)
      BY Positive, SMT DEF DriveTypes
    <3>2. QED
      BY <2>1, <3>1, SentTwist
  <2>3. DriveTypes' /\ FreshInv'
    BY <2>1, <2>2, SMT DEF linkVars, history, DriveTypes, FreshInv
  <2>4. StandInv'
    BY <2>1, <2>2, SMT DEF linkVars, history, StandInv
  <2>5. QED
    BY <2>3, <2>4
<1>5. CASE CancelTimer
  <2>1. /\ UNCHANGED <<linkVars, velocity, endTarget, baseSet, received, odom, callback, slept,
                       topicVars, fresh, travelled>>
        /\ ~timer' /\ sinceCancel' = 0 /\ udpThread' = "idle"
    BY <1>5 DEF CancelTimer
  <2>2. DriveTypes' /\ FreshInv'
    BY <2>1, Positive, SMT DEF linkVars, topicVars, DriveTypes,
       FreshInv, Settled
  <2>3. StandInv'
    BY <2>1, Positive, SMT DEF linkVars, topicVars, DriveTypes,
       Link!Expired, StandInv
  <2>4. QED
    BY <2>2, <2>3
<1>6. QED
  BY <1>1, <1>2, <1>3, <1>4, <1>5 DEF UdpThread

-----------------------------------------------------------------------------
(* The executor thread of udp_interface.                                   *)
LEMMA CallbackStep ==
  ASSUME DriveInv, OdomCallback \/ OdomStatusCallback \/ ProcessLinearMoving
  PROVE  DriveInv'
<1> USE DEF DriveInv
<1>1. CASE OdomCallback
  BY <1>1, SMT DEF OdomCallback, linkVars, topicVars, history, DriveTypes, StandInv, FreshInv
<1>2. CASE OdomStatusCallback
  BY <1>2, SMT DEF OdomStatusCallback, linkVars, topicVars, history, DriveTypes, StandInv, FreshInv
<1>3. CASE FindBase
  <2>1. /\ UNCHANGED <<linkVars, timer, velocity, endTarget, received, odom, slept, udpThread,
                       cmdVel, mcuOdom, history>>
        /\ timer /\ callback = "idle"
        /\ \/ baseSet' /\ "odom" \in received /\ odom = 0 /\ callback' = "asleep"
           \/ baseSet' = baseSet /\ callback' = "ready"
        /\ resetTopic' \in {resetTopic, "NORMAL_OPERATION"}
    BY <1>3, SMT DEF FindBase, IsValidateResetOdom
  <2>2. DriveTypes' /\ StandInv'
    BY <2>1, Positive, SMT DEF Link!ResetCommand, linkVars, history,
       DriveTypes, StandInv
  <2>3. FreshInv'
    BY <2>1, SMT DEF history, DriveTypes, FreshInv, Far
  <2>4. QED
    BY <2>2, <2>3
<1>4. CASE WakeUp
  BY <1>4, Positive, SMT DEF WakeUp, linkVars, topicVars, history,
     DriveTypes, StandInv, FreshInv
<1>5. CASE DriveCheck
  BY <1>5, SMT DEF DriveCheck, linkVars, topicVars, history, DriveTypes, StandInv, FreshInv
<1>6. CASE Drive
  <2>1. /\ UNCHANGED <<linkVars, timer, baseSet, received, odom, slept, udpThread, resetTopic,
                       mcuOdom, history>>
        /\ callback = "drive" /\ callback' = "idle"
        /\ velocity' = Ramp(velocity) /\ cmdVel' = Sent(Ramp(velocity))
        /\ endTarget' = (endTarget \/ odom >= Distance)
    BY <1>6 DEF Drive
  <2>2. Ramp(velocity) \in 0..Cap
    BY Positive, SMT DEF DriveTypes, Ramp, Least
  <2>3. /\ cmdVel' \in Seq(0..Cap)
        /\ \A i \in 1..Len(cmdVel') : cmdVel'[i] = Ramp(velocity)
             \/ \E j \in 1..Len(cmdVel) : cmdVel'[i] = cmdVel[j]
    BY <2>1, <2>2, SentTwist DEF DriveTypes
  <2>4. DriveTypes'
    BY <2>1, <2>2, <2>3, SMT DEF linkVars, history, DriveTypes
  <2>5. StandInv'
    BY <2>1, <2>3, SMT DEF linkVars, history, StandInv
  <2>6. endTarget' => endTarget \/ odom >= Distance
    BY <2>1, Zenon
  <2>7. FreshInv'
    BY <2>1, <2>6, Positive, SMT DEF history, DriveTypes, FreshInv, Far
  <2>8. QED
    BY <2>4, <2>5, <2>7
<1>7. QED
  BY <1>1, <1>2, <1>3, <1>4, <1>5, <1>6 DEF ProcessLinearMoving

-----------------------------------------------------------------------------
(* The MCU link and time.                                                  *)
LEMMA TwistStep ==
  ASSUME DriveInv, TwistArrives
  PROVE  DriveInv'
<1> USE DEF DriveInv
<1>1. /\ UNCHANGED <<testVars, resetTopic, mcuOdom, history, wire, bJigMotorInspection>>
      /\ cmdVel # <<>> /\ cmdVel' = Tail(cmdVel) /\ cmdAge' = 0
      /\ tx' = Link!SetCurrentVelocity(Head(cmdVel), 0)
  BY DEF TwistArrives, Link!CmdVelCallback
<1>2. /\ Head(cmdVel) = cmdVel[1] /\ Len(cmdVel) >= 1 /\ cmdVel[1] \in 0..Cap
      /\ cmdVel' \in Seq(0..Cap) /\ Len(cmdVel') = Len(cmdVel) - 1
      /\ \A i \in 1..Len(cmdVel') : i + 1 \in 1..Len(cmdVel) /\ cmdVel'[i] = cmdVel[i + 1]
  <2>1. /\ Head(cmdVel) = cmdVel[1] /\ Len(cmdVel') = Len(cmdVel) - 1
        /\ cmdVel' \in Seq(0..Cap) /\ \A i \in 1..Len(cmdVel') : cmdVel'[i] = cmdVel[i + 1]
    BY <1>1, HeadTailProperties DEF DriveTypes
  <2>2. Len(cmdVel) \in Nat /\ Len(cmdVel) >= 1
    <3>1. cmdVel \in Seq(0..Cap) /\ cmdVel # <<>>
      BY <1>1 DEF DriveTypes
    <3>2. QED
      BY <3>1, EmptySeq, LenProperties, SMT
  <2>3. cmdVel[1] \in 0..Cap
    BY <1>1, <2>1, HeadTailProperties DEF DriveTypes
  <2>4. QED
    BY <2>1, <2>2, <2>3, SMT
<1>3. tx' \in Link!Packet /\ tx'.lin \in {0, cmdVel[1]}
  <2>1. PICK v \in {0, cmdVel[1]} :
          tx' = [tx EXCEPT !.motor = "VW_MODE", !.lin = v, !.ang = 0]
    BY <1>1, <1>2, SMT DEF DriveTypes, Link!SetCurrentVelocity
  <2>2. v \in 0..Cap
    BY <1>2, <2>1, Positive, SMT
  <2>3. [tx EXCEPT !.motor = "VW_MODE"] \in Link!Packet
    BY SMT DEF DriveTypes, Link!Packet
  <2>4. \A packet \in Link!Packet : /\ [packet EXCEPT !.lin = v] \in Link!Packet
                                   /\ [packet EXCEPT !.lin = v].lin = v
    BY <2>2, SMT DEF Link!Packet
  <2>5. \A packet \in Link!Packet : /\ [packet EXCEPT !.ang = 0] \in Link!Packet
                                   /\ [packet EXCEPT !.ang = 0].lin = packet.lin
    BY SMT DEF Link!Packet
  <2>6. tx' = [[[tx EXCEPT !.motor = "VW_MODE"] EXCEPT !.lin = v] EXCEPT !.ang = 0]
    BY <2>1, SMT DEF DriveTypes, Link!Packet
  <2>7. QED
    BY <2>1, <2>3, <2>4, <2>5, <2>6, Zenon
<1>4. DriveTypes'
  BY <1>1, <1>2, <1>3, Positive, SMT DEF testVars, history,
     DriveTypes, Link!Expired
<1>5. \A i \in 1..Len(cmdVel') : cmdVel'[i] # 0 => sinceCancel <= SleepUnits
  BY <1>2, SMT DEF StandInv
<1>6. StandInv'
  <2>1. tx'.lin # 0 => sinceCancel <= SleepUnits
    BY <1>2, <1>3, SMT DEF StandInv
  <2>2. QED
    BY <1>1, <1>5, <2>1, Positive, SMT DEF testVars, history,
       DriveTypes, StandInv
<1>7. FreshInv'
  BY <1>1, SMT DEF testVars, history, FreshInv
<1>8. QED
  BY <1>4, <1>6, <1>7

LEMMA ResetStep ==
  ASSUME DriveInv, ResetArrives
  PROVE  DriveInv'
<1> USE DEF DriveInv
<1>1. /\ UNCHANGED <<testVars, cmdVel, mcuOdom, history, wire, cmdAge, bJigMotorInspection>>
      /\ tx' = [tx EXCEPT !.reset = resetTopic] /\ resetTopic # "none"
      /\ resetTopic' = "none"
  BY DEF ResetArrives, Link!ResetCallback, Link!SetField
<1>2. tx' \in Link!Packet /\ tx'.lin = tx.lin
  BY <1>1, SMT DEF DriveTypes, Link!Packet
<1>3. DriveTypes' /\ StandInv' /\ FreshInv'
  BY <1>1, <1>2, SMT DEF testVars, history, DriveTypes, StandInv, FreshInv
<1>4. QED
  BY <1>3

LEMMA PacketStep ==
  ASSUME DriveInv, Packet
  PROVE  DriveInv'
<1> USE DEF DriveInv
<1>1. /\ UNCHANGED <<testVars, cmdVel, resetTopic, history, cmdAge, bJigMotorInspection>>
      /\ tx' = Link!WithdrawSleep
      /\ wire' = Link!MotionOf(Link!Built(tx'))
      /\ mcuOdom' \in {0, mcuOdom}
  BY DEF Packet, Link!TimerCallback
<1>2. tx' \in Link!Packet /\ tx'.lin = tx.lin
  BY <1>1, SMT DEF DriveTypes, Link!WithdrawSleep, Link!Packet
<1>3. wire' \in Link!Motion /\ wire'.lin \in {0, tx.lin}
      /\ (wire'.lin # 0 => cmdAge <= WatchdogLimit)
  <2>1. cmdAge' = cmdAge /\ cmdAge \in Int /\ WatchdogLimit \in Int
    BY <1>1, Positive, SMT DEF DriveTypes, Link!Expired
  <2>2. tx' \in [lin : 0..Cap, ang : {0}, rpm : {0}, reset : Link!ResetCommand,
                 motor : {"VW_MODE", "RPM_MODE"}, remote : {"BLOCK", "UNBLOCK"},
                 charge : Link!ChargeCommand, docking : {"START", "STOP"},
                 imu : Link!ImuCalibrationCommand, batt : {"NORMAL", "SLEEP"},
                 tof : {"ON", "OFF"}]
    BY <1>2 DEF Link!Packet
  <2>3. tx'.lin \in 0..Cap /\ tx'.ang = 0 /\ tx'.rpm = 0
    BY <2>2
  <2>4. CASE tx'.lin # 0 /\ cmdAge > WatchdogLimit
    BY <1>1, <2>1, <2>2, <2>3, <2>4, Positive
       DEF Link!MotionOf, Link!Built, Link!PreventUnintendedAcceleration, Link!Motion
  <2>5. CASE ~(tx'.lin # 0 /\ cmdAge > WatchdogLimit)
    BY <1>1, <1>2, <2>1, <2>3, <2>5
       DEF Link!MotionOf, Link!Built, Link!PreventUnintendedAcceleration, Link!Motion
  <2>6. QED
    BY <2>4, <2>5
<1>4. DriveTypes'
  BY <1>1, <1>2, <1>3, Positive, SMT DEF testVars, history,
     DriveTypes, Far
<1>5. StandInv'
  <2>1. wire'.lin # 0 => sinceCancel <= SleepUnits + WatchdogLimit + 1
    BY <1>3, Positive, SMT DEF DriveTypes, Link!Expired, Settled,
       StandInv
  <2>2. QED
    BY <1>1, <1>2, <2>1, SMT DEF testVars, history, StandInv
<1>6. FreshInv'
  BY <1>1, SMT DEF testVars, history, DriveTypes, FreshInv, Far
<1>7. QED
  BY <1>4, <1>5, <1>6

\* The MCU's odometry and the distance driven go on together.
LEMMA ElapseStep ==
  ASSUME DriveInv, Elapse
  PROVE  DriveInv'
<1> USE DEF DriveInv
<1>1. /\ UNCHANGED <<tx, wire, bJigMotorInspection, bInspectionMode, bInspectionMotor, timer,
                     velocity, endTarget, baseSet, received, odom, callback, udpThread,
                     cmdVel, resetTopic, fresh>>
      /\ cmdAge' = Link!Older(cmdAge)
      /\ sinceCancel' = IF timer THEN 0 ELSE Least(sinceCancel + 1, Settled)
      /\ slept' = IF callback = "asleep" THEN slept + 1 ELSE slept
      /\ \/ callback = "idle"
         \/ callback = "asleep" /\ slept < SleepUnits
      /\ cmdVel = <<>> /\ udpThread = "idle"
  BY DEF Elapse, Link!Elapse
<1>2. \/ mcuOdom' = mcuOdom /\ travelled' = travelled
      \/ mcuOdom' = 0 /\ travelled' = Least(travelled + 1, Far)
      \/ mcuOdom' = Least(mcuOdom + 1, Far) /\ travelled' = Least(travelled + 1, Far)
  BY SMT DEF Elapse
<1>3. wire.lin # 0 => tx.lin # 0 /\ cmdAge <= WatchdogLimit
  <2>1. wire = Link!MotionOf(Link!Built(tx))
    BY DEF Elapse
  <2>2. QED
    BY <2>1, Positive, SMT DEF DriveTypes, Link!Expired,
       Link!MotionOf, Link!Built, Link!PreventUnintendedAcceleration, Link!Packet
<1>4. DriveTypes'
  <2>1. mcuOdom' \in 0..Far /\ travelled' \in 0..Far
    BY <1>2, Positive, SMT DEF DriveTypes, Least, Far
  <2>2. cmdAge' \in 0..Link!Expired
    BY <1>1, Positive, SMT DEF DriveTypes, Link!Older, Link!Expired
  <2>3. sinceCancel' \in 0..Settled /\ slept' \in 0..SleepUnits
    BY <1>1, Positive, SMT DEF DriveTypes, Least, Settled
  <2>4. QED
    BY <1>1, <2>1, <2>2, <2>3, SMT DEF DriveTypes
<1>5. StandInv'
  <2>1. /\ sinceCancel' <= sinceCancel + 1 /\ sinceCancel \in Nat /\ sinceCancel' \in Nat
        /\ timer => sinceCancel' = 0
    BY <1>1, Positive, SMT DEF DriveTypes, Least, Settled
  <2>2. /\ cmdAge' = cmdAge + 1 \/ cmdAge' > WatchdogLimit
        /\ cmdAge \in Nat /\ cmdAge' \in Nat
    BY <1>1, Positive, SMT DEF DriveTypes, Link!Older, Link!Expired
  <2>3. tx'.lin # 0 /\ cmdAge' <= WatchdogLimit => sinceCancel' <= SleepUnits + cmdAge'
    BY <1>1, <2>1, <2>2, Positive, SMT DEF StandInv
  <2>4. wire'.lin # 0 => sinceCancel' <= SleepUnits + WatchdogLimit + 1
    BY <1>1, <1>3, <2>1, <2>2, Positive, SMT DEF StandInv
  <2>5. callback' = "asleep" => sinceCancel' <= slept'
    BY <1>1, <2>1, SMT DEF DriveTypes, StandInv
  <2>6. QED
    BY <1>1, <2>1, <2>3, <2>4, <2>5, SMT DEF StandInv
<1>6. FreshInv'
  BY <1>1, <1>2, Positive, SMT DEF DriveTypes, Least, Far, FreshInv
<1>7. QED
  BY <1>4, <1>5, <1>6

LEMMA DriveNext == DriveInv /\ [Next]_vars => DriveInv'
<1> SUFFICES ASSUME DriveInv, [Next]_vars PROVE DriveInv'
  OBVIOUS
<1>1. CASE UNCHANGED vars
  BY <1>1, SMT DEF vars, linkVars, testVars, topicVars, history, DriveInv, DriveTypes, StandInv,
     FreshInv
<1>2. CASE Next
  BY <1>2, UdpThreadStep, CallbackStep, TwistStep, ResetStep, PacketStep, ElapseStep DEF Next
<1>3. QED
  BY <1>1, <1>2

(* A cancelled test stands still: StandInv bounds what is left of a moving *)
(* packet by the sleep and the watchdog's limit, one less than Settled.    *)
THEOREM StandsAfterCancelHolds == Spec => []StandsAfterCancel
<1>1. DriveInv => StandsAfterCancel
  BY Positive, SMT DEF DriveInv, DriveTypes, StandInv, Settled,
     StandsAfterCancel
<1>2. QED
  BY <1>1, DriveInit, DriveNext, PTL DEF Spec

(* A test with a timer of its own ends only after its distance: the base   *)
(* comes after the reset, and the odometry cannot run ahead of the wheels. *)
THEOREM DrivesItsDistanceHolds == Spec => []DrivesItsDistance
<1>1. DriveInv => DrivesItsDistance
  BY DEF DriveInv, FreshInv, DrivesItsDistance
<1>2. QED
  BY <1>1, DriveInit, DriveNext, PTL DEF Spec
=============================================================================
