-------------------------- MODULE InspectionDrive --------------------------
(***************************************************************************)
(* The motor self test of the inspection mode: udp_communication.cpp drives*)
(* the robot half a metre with Twists on /cmd_vel, through the MCU link of *)
(* everybot_bringup (McuLink) and its watchdog.                            *)
(*                                                                         *)
(* The SoC's commands run on the UDP thread; processLinearMoving, a 20 ms  *)
(* timer, and the odometry callbacks run on the executor thread, where the *)
(* timer's callback sleeps for a second after it has found its start.      *)
(*                                                                         *)
(* Velocity counts steps of 0.01 m/s, position counts units of distance    *)
(* from the last odometry reset; 0 is what isValidateResetOdom accepts.    *)
(***************************************************************************)
EXTENDS Integers, Sequences

CONSTANTS
  Cap,            \* steps to the highest velocity (0.1 m/s)
  Distance,       \* inspection_motor_Distance
  SlowZone,       \* from here on the velocity is not raised (0.4 m)
  SleepUnits,     \* the second processLinearMoving sleeps
  WatchdogLimit,  \* the second of McuLink's watchdog
  QueueDepth      \* history depth of /cmd_vel

ASSUME InspectionConstants ==
  /\ {Cap, Distance, SlowZone, SleepUnits, WatchdogLimit, QueueDepth} \subseteq Nat \ {0}
  /\ SlowZone < Distance

VARIABLES
  tx, bEmergencyStop, bJigMotorInspection, cmdAge, station, tempBatt, wire,
  estopAge, remoteAsked, sleepsAtContact, dockAsked,   \* McuLink
  bInspectionMode,
  bInspectionMotor,
  timer,       \* linear_target_timer_ exists
  velocity,    \* inspection_motor_Velocity
  endTarget,   \* end_linear_target
  baseSet,     \* bSetBaseOdom
  received,    \* bReceiveOdom, bReceiveOdomStatus
  odom,        \* odom, from the reset the test began with
  callback,    \* where processLinearMoving is
  slept,       \* time it has been sleeping
  udpThread,   \* where the UDP thread's handler is
  cmdVel,      \* /cmd_vel, oldest first
  resetTopic,  \* /odom_imu_reset_cmd, depth 1
  mcuOdom,     \* the MCU's odometry (external)
  \* History, read by properties only.
  fresh,       \* the last test was started with no timer around
  travelled,   \* distance driven since then
  sinceCancel  \* time since the timer was released

linkVars == <<tx, bEmergencyStop, bJigMotorInspection, cmdAge, station, tempBatt,
              wire, estopAge, remoteAsked, sleepsAtContact, dockAsked>>
testVars == <<bInspectionMode, bInspectionMotor, timer, velocity, endTarget, baseSet,
              received, odom, callback, slept, udpThread>>
topicVars == <<cmdVel, resetTopic, mcuOdom>>
history == <<fresh, travelled, sinceCancel>>
vars == <<linkVars, testVars, topicVars, history>>

Link == INSTANCE McuLink WITH
  LinVels <- 0..Cap, AngVels <- {0}, Rpms <- {0}, Frames <- {},
  Topics <- {"cmd_vel", "odom_imu_reset_cmd"}

Far == Distance                               \* bound: positions told apart
Settled == SleepUnits + WatchdogLimit + 2     \* bound: times told apart
Least(a, b) == IF a < b THEN a ELSE b

Init ==
  /\ Link!Init
  /\ bInspectionMode = FALSE /\ bInspectionMotor = FALSE
  /\ timer = FALSE
  /\ velocity = 0 /\ endTarget = FALSE /\ baseSet = FALSE
  /\ received = {} /\ odom = 0
  /\ callback = "idle" /\ slept = 0
  /\ udpThread = "idle"
  /\ cmdVel = <<>> /\ resetTopic = "none"
  /\ mcuOdom \in {0, Far}
  /\ fresh = FALSE /\ travelled = 0
  /\ sinceCancel = Settled

\* publishVelocityCommand: a full history drops its oldest message.
Sent(v) == LET kept == IF Len(cmdVel) < QueueDepth THEN cmdVel ELSE Tail(cmdVel)
           IN Append(kept, v)
-----------------------------------------------------------------------------
(* UDP thread.                                                             *)
InspectionStart ==
  /\ udpThread = "idle"
  /\ bInspectionMode' = TRUE
  /\ UNCHANGED <<linkVars, bInspectionMotor, timer, velocity, endTarget, baseSet,
                 received, odom, callback, slept, udpThread, topicVars, history>>

\* A motor test is cancelled first, the flags are cleared last.
InspectionStop ==
  /\ udpThread = "idle"
  /\ IF bInspectionMotor
     THEN /\ udpThread' = "leave"
          /\ UNCHANGED <<bInspectionMode, bInspectionMotor>>
     ELSE /\ bInspectionMode' = FALSE
          /\ UNCHANGED <<udpThread, bInspectionMotor>>
  /\ UNCHANGED <<linkVars, timer, velocity, endTarget, baseSet, received, odom,
                 callback, slept, topicVars, history>>

\* setSocRobotState: back on the station the motor test counts as complete.
OnStation ==
  /\ udpThread = "idle" /\ bInspectionMode /\ bInspectionMotor
  /\ bInspectionMotor' = FALSE
  /\ UNCHANGED <<linkVars, bInspectionMode, timer, velocity, endTarget, baseSet,
                 received, odom, callback, slept, udpThread, topicVars, history>>

EnabledFlagsEnded == [v |-> 0, ended |-> endTarget]  \* mutant: the end flag is kept
EnabledFlags == [v |-> 0, ended |-> FALSE]

\* enableLinearTargetMoving, its flags; a callback that does not sleep is over
\* before the thread's next command.
MotorTestStart ==
  /\ udpThread = "idle" /\ bInspectionMode
  /\ timer \/ callback \in {"idle", "asleep"}
  /\ bInspectionMotor' = TRUE
  /\ velocity' = EnabledFlags.v
  /\ endTarget' = EnabledFlags.ended
  /\ baseSet' = FALSE
  /\ udpThread' = "enable"
  /\ fresh' = ~timer
  /\ travelled' = 0
  /\ sinceCancel' = 0
  /\ UNCHANGED <<linkVars, bInspectionMode, timer, received, odom, callback, slept,
                 topicVars>>

\* publishStartOdomReset, then the timer unless there is one.
EnableTimer ==
  /\ udpThread = "enable"
  /\ udpThread' = "idle"
  /\ received' = {}
  /\ resetTopic' = "ODOMETRY_RESET"
  /\ timer' = TRUE
  /\ UNCHANGED <<linkVars, bInspectionMode, bInspectionMotor, velocity, endTarget,
                 baseSet, odom, callback, slept, cmdVel, mcuOdom, history>>

MotorTestStop ==
  /\ udpThread = "idle" /\ bInspectionMode
  /\ udpThread' = "cancel"
  /\ UNCHANGED <<linkVars, bInspectionMode, bInspectionMotor, timer, velocity,
                 endTarget, baseSet, received, odom, callback, slept, topicVars, history>>

\* disableLinearTargetMovoing: a Twist that stands still, then the timer.
CancelTwist ==
  /\ udpThread \in {"cancel", "leave"}
  /\ udpThread' = IF udpThread = "cancel" THEN "release" ELSE "releaseAndLeave"
  /\ cmdVel' = Sent(0)
  /\ UNCHANGED <<linkVars, bInspectionMode, bInspectionMotor, timer, velocity,
                 endTarget, baseSet, received, odom, callback, slept, resetTopic,
                 mcuOdom, history>>

CancelTimer ==
  /\ udpThread \in {"release", "releaseAndLeave"}
  /\ udpThread' = "idle"
  /\ timer' = FALSE
  /\ bInspectionMode' = (bInspectionMode /\ udpThread = "release")
  /\ bInspectionMotor' = (bInspectionMotor /\ udpThread = "release")
  /\ sinceCancel' = 0
  /\ UNCHANGED <<linkVars, velocity, endTarget, baseSet, received, odom, callback,
                 slept, topicVars, fresh, travelled>>

UdpThread ==
  \/ InspectionStart \/ InspectionStop \/ OnStation
  \/ MotorTestStart \/ EnableTimer
  \/ MotorTestStop \/ CancelTwist \/ CancelTimer
-----------------------------------------------------------------------------
(* Executor thread.                                                        *)
OdomCallback ==
  /\ callback = "idle"
  /\ odom' = mcuOdom
  /\ received' = received \cup {"odom"}
  /\ UNCHANGED <<linkVars, bInspectionMode, bInspectionMotor, timer, velocity, endTarget,
                 baseSet, callback, slept, udpThread, topicVars, history>>

\* The status says "reset" (0x22) from the first reset on; it is subscribed to
\* in inspection mode only.
OdomStatusCallback ==
  /\ callback = "idle" /\ bInspectionMode
  /\ received' = received \cup {"status"}
  /\ UNCHANGED <<linkVars, bInspectionMode, bInspectionMotor, timer, velocity, endTarget,
                 baseSet, odom, callback, slept, udpThread, topicVars, history>>

IsValidateResetOdom == received = {"odom", "status"} /\ odom = 0

\* The timer expires: processLinearMoving up to the sleep.  From here on the
\* executor holds the timer, whatever the UDP thread does.
FindBase ==
  /\ callback = "idle" /\ timer
  /\ IF ~baseSet /\ IsValidateResetOdom
     THEN /\ baseSet' = TRUE
          /\ resetTopic' = "NORMAL_OPERATION"
          /\ callback' = "asleep"
     ELSE /\ callback' = "ready"
          /\ UNCHANGED <<baseSet, resetTopic>>
  /\ UNCHANGED <<linkVars, bInspectionMode, bInspectionMotor, timer, velocity, endTarget,
                 received, odom, slept, udpThread, cmdVel, mcuOdom, history>>

WakeUp ==
  /\ callback = "asleep" /\ slept = SleepUnits
  /\ callback' = "ready" /\ slept' = 0
  /\ UNCHANGED <<linkVars, bInspectionMode, bInspectionMotor, timer, velocity, endTarget,
                 baseSet, received, odom, udpThread, topicVars, history>>

DriveCheck ==
  /\ callback = "ready"
  /\ callback' = IF baseSet /\ ~endTarget THEN "drive" ELSE "idle"
  /\ UNCHANGED <<linkVars, bInspectionMode, bInspectionMotor, timer, velocity, endTarget,
                 baseSet, received, odom, slept, udpThread, topicVars, history>>

RampSlowing(v) ==   \* mutant: slows down to a halt before the end
  IF odom >= Distance THEN 0
  ELSE IF odom >= SlowZone THEN (IF v > 0 THEN v - 1 ELSE 0)
  ELSE Least(v + 1, Cap)

\* In the slow zone the code lowers only a velocity above the cap, so never.
Ramp(v) ==
  IF odom >= Distance THEN 0
  ELSE IF odom >= SlowZone THEN v
  ELSE Least(v + 1, Cap)

Drive ==
  /\ callback = "drive"
  /\ callback' = "idle"
  /\ velocity' = Ramp(velocity)
  /\ endTarget' = (endTarget \/ odom >= Distance)
  /\ cmdVel' = Sent(Ramp(velocity))
  /\ UNCHANGED <<linkVars, bInspectionMode, bInspectionMotor, timer, baseSet, received,
                 odom, slept, udpThread, resetTopic, mcuOdom, history>>

ProcessLinearMoving == FindBase \/ WakeUp \/ DriveCheck \/ Drive
-----------------------------------------------------------------------------
(* everybot_bringup, the MCU and time.                                     *)
TwistArrives ==
  /\ cmdVel # <<>>
  /\ cmdVel' = Tail(cmdVel)
  /\ Link!CmdVelCallback(Head(cmdVel), 0)
  /\ UNCHANGED <<testVars, resetTopic, mcuOdom, history>>

ResetArrives ==
  /\ resetTopic # "none"
  /\ resetTopic' = "none"
  /\ Link!ResetCallback(resetTopic)
  /\ UNCHANGED <<testVars, cmdVel, mcuOdom, history>>

\* The MCU clears its odometry as long as it is told to.
Packet ==
  /\ Link!TimerCallback(TRUE)
  /\ mcuOdom' = IF tx'.reset = "ODOMETRY_RESET" THEN 0 ELSE mcuOdom
  /\ UNCHANGED <<testVars, cmdVel, resetTopic, history>>

\* A unit of time is long beside the delivery of a message, a packet and a
\* handler that does not sleep.  In it the robot does what the last packet says.
Elapse ==
  /\ cmdVel = <<>> /\ resetTopic = "none"
  /\ wire = Link!MotionOf(Link!Built(tx))
  /\ udpThread = "idle"
  /\ \/ callback = "idle" /\ odom = mcuOdom
     \/ callback = "asleep" /\ slept < SleepUnits
  /\ slept' = IF callback = "asleep" THEN slept + 1 ELSE slept
  /\ sinceCancel' = IF timer THEN 0 ELSE Least(sinceCancel + 1, Settled)
  /\ IF wire.lin = 0
     THEN UNCHANGED <<mcuOdom, travelled>>
     ELSE /\ mcuOdom' = IF tx.reset = "ODOMETRY_RESET" THEN 0 ELSE Least(mcuOdom + 1, Far)
          /\ travelled' = Least(travelled + 1, Far)
  /\ Link!Elapse
  /\ UNCHANGED <<bInspectionMode, bInspectionMotor, timer, velocity, endTarget, baseSet,
                 received, odom, callback, udpThread, cmdVel, resetTopic, fresh>>

Next ==
  \/ UdpThread \/ OdomCallback \/ OdomStatusCallback \/ ProcessLinearMoving
  \/ TwistArrives \/ ResetArrives \/ Packet \/ Elapse

Spec == Init /\ [][Next]_vars

\* Both executors serve their timers and topics, the UDP thread finishes what it
\* began, and no run of events holds time back.
FairSpec ==
  /\ Spec
  /\ WF_vars(EnableTimer \/ CancelTwist \/ CancelTimer)
  /\ SF_vars(OdomCallback) /\ SF_vars(OdomStatusCallback) /\ SF_vars(FindBase)
  /\ WF_vars(WakeUp \/ DriveCheck \/ Drive)
  /\ WF_vars(TwistArrives) /\ WF_vars(ResetArrives) /\ WF_vars(Packet)
  /\ []<><<Elapse>>_vars
-----------------------------------------------------------------------------
(* A cancelled test stands still: the callback the cancel ran into may wake*)
(* up later and send a moving Twist, and then the link's watchdog stops the*)
(* robot, at the latest a sleep and a watchdog's limit after the cancel.   *)
StandsAfterCancel == ~timer /\ sinceCancel = Settled => wire.lin = 0

(* A test that had no predecessor's timer to share ends only after the     *)
(* robot has driven its distance: nothing of an earlier test, neither its  *)
(* odometry nor its flags, ends it early.                                  *)
DrivesItsDistance == endTarget /\ timer /\ fresh => travelled >= Distance

(* Such a test ends, unless it is cancelled or started anew, however the   *)
(* odometry's reset and its answers are delayed.                           *)
TestEnds == timer /\ fresh ~> endTarget \/ ~timer \/ ~fresh \/ ~bInspectionMode
=============================================================================
