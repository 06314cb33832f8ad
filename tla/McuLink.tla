------------------------------ MODULE McuLink ------------------------------
(***************************************************************************)
(* The transmitting half of everybot_bringup (uart_communication.cpp): the *)
(* command record g_transmission_data, the ROS callbacks that edit single  *)
(* fields of it, and the 10 ms timer that sends it to the MCU.  One node,  *)
(* one executor thread: a callback is one atomic step.                     *)
(*                                                                         *)
(* Velocities are abstract: 0 stands for every speed the watchdog regards  *)
(* as standing still (|v| <= 0.001), the other members for real motion.    *)
(* Time is counted in units of which WatchdogLimit make the 1000 ms limit. *)
(***************************************************************************)
EXTENDS Integers

CONSTANTS
  LinVels,        \* linear velocities a Twist on /cmd_vel may carry
  AngVels,        \* angular velocities a Twist on /cmd_vel may carry
  Rpms,           \* wheel speeds (both wheels together) of a jig command
  Frames,         \* docking reports an MCU frame may carry
  Topics,         \* subscribed topics that have a publisher in this instance
  WatchdogLimit   \* delayTimeLimitms in time units

ResetCommand == {"NORMAL_OPERATION", "ODOMETRY_RESET", "IMU_RESET", "MCU_RESET"}
ChargeCommand == {"CONTROL_MCU", "CONTROL_AP", "HIGH_SPEED", "LOW_SPEED", "STOP"}
ImuCalibrationCommand == {"NORMAL", "CALIBRATION_START", "END_OF_ROTATION"}
DockingReport == [docked : BOOLEAN, contact : BOOLEAN, charging : BOOLEAN]

ASSUME ConstantsOK ==
  /\ LinVels \subseteq Int /\ 0 \in LinVels
  /\ AngVels \subseteq Int /\ 0 \in AngVels
  /\ Rpms \subseteq Int /\ 0 \in Rpms
  /\ Frames \subseteq DockingReport
  /\ WatchdogLimit \in Nat \ {0}

VARIABLES
  tx,              \* g_transmission_data
  bEmergencyStop,
  bJigMotorInspection,
  cmdAge,          \* now - last_cmd_vel_time_, up to just past the limit
  station,         \* station_msg.docking_status
  tempBatt,        \* battery nibble of temp_tofnbatt_command
  wire,            \* the motion part of the packet the MCU received last
  \* History, read by properties only.
  estopAge,        \* time for which bEmergencyStop has been TRUE
  remoteAsked,     \* what the last /cmd_remote_block asked for
  sleepsAtContact, \* sleep packets built since the contact was reported, up to 2
  dockAsked        \* a docking start arrived after the last MCU frame

history == <<estopAge, remoteAsked, sleepsAtContact, dockAsked>>
vars == <<tx, bEmergencyStop, bJigMotorInspection, cmdAge, station, tempBatt,
          wire, history>>

Expired == WatchdogLimit + 1
Older(age) == IF age < Expired THEN age + 1 ELSE age

Packet ==
  [lin : LinVels, ang : AngVels, rpm : Rpms, reset : ResetCommand,
   motor : {"VW_MODE", "RPM_MODE"}, remote : {"BLOCK", "UNBLOCK"},
   charge : ChargeCommand, docking : {"START", "STOP"},
   imu : ImuCalibrationCommand, batt : {"NORMAL", "SLEEP"}, tof : {"ON", "OFF"}]

\* What of a packet moves the robot.
Motion == [lin : LinVels, ang : AngVels, rpm : Rpms]
Still == [lin |-> 0, ang |-> 0, rpm |-> 0]
MotionOf(packet) == [lin |-> packet.lin, ang |-> packet.ang, rpm |-> packet.rpm]

\* defaultTransmissionData: memset to zero, every zero being a command.
DefaultTransmissionData ==
  [lin |-> 0, ang |-> 0, rpm |-> 0, reset |-> "NORMAL_OPERATION",
   motor |-> "VW_MODE", remote |-> "UNBLOCK", charge |-> "CONTROL_MCU",
   docking |-> "STOP", imu |-> "NORMAL", batt |-> "NORMAL", tof |-> "ON"]

OnStation(s) == s.contact \/ s.charging

Init ==
  /\ tx = [DefaultTransmissionData EXCEPT !.remote = "BLOCK"]
  /\ bEmergencyStop = FALSE
  /\ bJigMotorInspection = FALSE
  /\ cmdAge = Expired
  /\ station = [docked |-> FALSE, contact |-> FALSE, charging |-> FALSE]
  /\ tempBatt = "NORMAL"
  /\ wire = MotionOf(tx)
  /\ estopAge = 0
  /\ remoteAsked = "BLOCK"
  /\ sleepsAtContact = 0
  /\ dockAsked = FALSE
-----------------------------------------------------------------------------
(* /cmd_vel: cmdVelCallback and setCurrentVelocity.  The time stamp is     *)
(* taken even when the jig latch makes setCurrentVelocity return early.    *)
SetCurrentVelocityNoEStop(v, w) ==   \* mutant: e-stop not consulted
  IF bJigMotorInspection THEN tx
  ELSE [tx EXCEPT !.motor = "VW_MODE", !.lin = v, !.ang = w]

SetCurrentVelocity(v, w) ==
  IF bJigMotorInspection THEN tx
  ELSE [tx EXCEPT !.motor = "VW_MODE",
                  !.lin = IF bEmergencyStop THEN 0 ELSE v,
                  !.ang = IF bEmergencyStop THEN 0 ELSE w]

CmdVelCallback(v, w) ==
  /\ "cmd_vel" \in Topics
  /\ tx' = SetCurrentVelocity(v, w)
  /\ cmdAge' = 0
  /\ UNCHANGED <<bEmergencyStop, bJigMotorInspection, station, tempBatt, wire,
                 history>>

\* The flag alone changes: the commanded velocity stays until the next Twist.
EStopCallback(on) ==
  /\ "emergency_stop" \in Topics
  /\ bEmergencyStop' = on
  /\ estopAge' = IF on THEN estopAge ELSE 0
  /\ UNCHANGED <<tx, bJigMotorInspection, cmdAge, station, tempBatt, wire,
                 remoteAsked, sleepsAtContact, dockAsked>>

JigMotorOnTop(r) ==   \* mutant: no defaultTransmissionData first
  [tx EXCEPT !.motor = "RPM_MODE", !.rpm = r]

JigMotor(r) ==
  [DefaultTransmissionData EXCEPT !.motor = "RPM_MODE", !.rpm = r]

JigMotorCallback(r) ==
  /\ "jig_request_motor" \in Topics
  /\ bJigMotorInspection' = TRUE
  /\ tx' = JigMotor(r)
  /\ UNCHANGED <<bEmergencyStop, cmdAge, station, tempBatt, wire, history>>

JigBatteryCallback(c) ==
  /\ "jig_request_battery" \in Topics
  /\ tx' = [DefaultTransmissionData EXCEPT !.charge = c]
  /\ UNCHANGED <<bEmergencyStop, bJigMotorInspection, cmdAge, station, tempBatt,
                 wire, history>>

\* Callbacks that write one nibble of the record.
SetField(topic, packet) ==
  /\ topic \in Topics
  /\ tx' = packet
  /\ UNCHANGED <<bEmergencyStop, bJigMotorInspection, cmdAge, station, tempBatt,
                 wire, estopAge, sleepsAtContact>>

JigImuCallback(c) ==
  /\ SetField("jig_request_imu", [tx EXCEPT !.imu = c])
  /\ UNCHANGED <<remoteAsked, dockAsked>>

ChargeCmdCallback(c) ==
  /\ SetField("charging_cmd", [tx EXCEPT !.charge = c])
  /\ UNCHANGED <<remoteAsked, dockAsked>>

\* The reset command stays in the record: nothing clears it after a send.
ResetCallback(c) ==
  /\ SetField("odom_imu_reset_cmd", [tx EXCEPT !.reset = c])
  /\ UNCHANGED <<remoteAsked, dockAsked>>

TofCommandCallback(status) ==
  /\ SetField("cmd_tof", [tx EXCEPT !.tof = status])
  /\ UNCHANGED <<remoteAsked, dockAsked>>

RemoteBlockCallback(mode) ==
  /\ SetField("cmd_remote_block", [tx EXCEPT !.remote = mode])
  /\ remoteAsked' = mode
  /\ UNCHANGED dockAsked

DockingCommandCallback(c) ==
  /\ SetField("docking_cmd", [tx EXCEPT !.docking = c])
  /\ dockAsked' = (c = "START")
  /\ UNCHANGED remoteAsked

SleepAllowedAlways == TRUE   \* mutant: no look at the charge terminal

\* Ignored while the charge terminal is reported connected.
SleepAllowed == ~station.contact

BatterySleepCallback ==
  /\ SleepAllowed
  /\ SetField("cmd_battery_sleep", [tx EXCEPT !.batt = "SLEEP"])
  /\ UNCHANGED <<remoteAsked, dockAsked>>
-----------------------------------------------------------------------------
(* A frame from the MCU: receiveData up to setDockingMsg, which takes the  *)
(* docking command back once the robot is docked on the station.           *)
AfterFrameStale(s) ==   \* mutant: decides on the report before this one
  IF station.docked /\ OnStation(station) THEN [tx EXCEPT !.docking = "STOP"] ELSE tx

AfterFrame(s) ==
  IF s.docked /\ OnStation(s) THEN [tx EXCEPT !.docking = "STOP"] ELSE tx

McuFrame(s) ==
  /\ station' = s
  /\ tx' = AfterFrame(s)
  /\ dockAsked' = FALSE
  /\ sleepsAtContact' = IF s.contact THEN sleepsAtContact ELSE 0
  /\ UNCHANGED <<bEmergencyStop, bJigMotorInspection, cmdAge, tempBatt, wire,
                 estopAge, remoteAsked>>

NoWatchdog(lin) == FALSE   \* mutant: a silent /cmd_vel goes unnoticed

\* preventUnintendAccelationChecker: TRUE when the velocities must be cleared.
PreventUnintendedAcceleration(lin) == lin # 0 /\ cmdAge > WatchdogLimit

\* sendProtocolV1Data works on a copy: the record keeps its velocities.
Built(record) ==
  IF PreventUnintendedAcceleration(record.lin)
  THEN [record EXCEPT !.lin = 0, !.ang = 0]
  ELSE record

WithdrawSleepWrongNibble ==   \* mutant: the ToF nibble's value in the battery's
  IF tempBatt = "SLEEP" /\ station.contact THEN [tx EXCEPT !.batt = "ON"] ELSE tx

\* The sleep command is taken back when the packet sent before carried it.
WithdrawSleep ==
  IF tempBatt = "SLEEP" /\ station.contact
  THEN [tx EXCEPT !.batt = "NORMAL"] ELSE tx

\* A failing serial write is caught: the packet is lost, temp_* remember it.
TimerCallback(written) ==
  /\ tx' = WithdrawSleep
  /\ tempBatt' = tx'.batt
  /\ wire' = IF written THEN MotionOf(Built(tx')) ELSE wire
  /\ sleepsAtContact' = IF tx'.batt = "SLEEP" /\ station.contact
                        THEN IF sleepsAtContact < 2 THEN sleepsAtContact + 1 ELSE 2
                        ELSE sleepsAtContact
  /\ UNCHANGED <<bEmergencyStop, bJigMotorInspection, cmdAge, station,
                 estopAge, remoteAsked, dockAsked>>

Elapse ==
  /\ cmdAge' = Older(cmdAge)
  /\ estopAge' = IF bEmergencyStop THEN Older(estopAge) ELSE 0
  /\ UNCHANGED <<tx, bEmergencyStop, bJigMotorInspection, station, tempBatt,
                 wire, remoteAsked, sleepsAtContact, dockAsked>>

Next ==
  \/ \E v \in LinVels, w \in AngVels : CmdVelCallback(v, w)
  \/ \E on \in BOOLEAN : EStopCallback(on)
  \/ \E r \in Rpms : JigMotorCallback(r)
  \/ \E c \in {"HIGH_SPEED", "LOW_SPEED"} : JigBatteryCallback(c)
  \/ \E c \in {"CALIBRATION_START", "END_OF_ROTATION"} : JigImuCallback(c)
  \/ \E c \in ChargeCommand : ChargeCmdCallback(c)
  \/ \E c \in ResetCommand : ResetCallback(c)
  \/ \E status \in {"ON", "OFF"} : TofCommandCallback(status)
  \/ \E mode \in {"BLOCK", "UNBLOCK"} : RemoteBlockCallback(mode)
  \/ \E c \in {"START", "STOP"} : DockingCommandCallback(c)
  \/ BatterySleepCallback
  \/ \E s \in Frames : McuFrame(s)
  \/ \E written \in BOOLEAN : TimerCallback(written)
  \/ Elapse

Spec == Init /\ [][Next]_vars

\* The timer and time itself go on; a serial write succeeds now and then.
FairSpec == Spec /\ WF_vars(TimerCallback(TRUE)) /\ WF_vars(Elapse)
-----------------------------------------------------------------------------
\* Every variable holds a value of its type.
TypeOK ==
  /\ tx \in Packet
  /\ bEmergencyStop \in BOOLEAN
  /\ bJigMotorInspection \in BOOLEAN
  /\ cmdAge \in 0..Expired
  /\ station \in DockingReport
  /\ tempBatt \in {"NORMAL", "SLEEP"}
  /\ wire \in Motion
  /\ estopAge \in 0..Expired
  /\ remoteAsked \in {"BLOCK", "UNBLOCK"}
  /\ sleepsAtContact \in 0..2
  /\ dockAsked \in BOOLEAN

(* The emergency stop only makes the next Twist a zero Twist.  What makes  *)
(* it a stop is the watchdog: an emergency stop older than the limit leaves*)
(* no linear motion in the packet, whether or not Twists keep coming.      *)
EStopHaltsLinear == estopAge > WatchdogLimit => Built(tx).lin = 0

(* A packet never commands a body velocity and wheel speeds at once: the   *)
(* jig latch of jig_motor_callback shuts /cmd_vel out, and the jig command *)
(* starts from a cleared record.                                           *)
OneDriveOnly ==
  \A p \in {MotionOf(tx), wire} : p.rpm # 0 => p.lin = 0 /\ p.ang = 0

(* A sleep command racing with the charge terminal reaches the MCU in one  *)
(* packet at most: timerCallback withdraws it before the second.           *)
SleepWithdrawn == sleepsAtContact <= 1

(* While the last report says docked on the station, the docking command is*)
(* pending only if somebody asked for it after that report.                *)
DockingStartNotRevived ==
  station.docked /\ OnStation(station) /\ tx.docking = "START" => dockAsked

(* If the emergency stop stays on, the packets the MCU gets are in the end *)
(* without linear motion for good.  They are without any motion if Twists  *)
(* keep coming (the watchdog does not look at a pure rotation) and no jig  *)
(* command drives the wheels (jig_motor_callback does not look at the stop,*)
(* and its latch is never released).                                       *)
EStopStops ==
  <>[]bEmergencyStop =>
    /\ <>[](wire.lin = 0)
    /\ (<>[]~bJigMotorInspection /\ []<>(cmdAge = 0)) => <>[](wire = Still)

(* "remote mode default setting (unblock --> block), unblock case only     *)
(* manual-mapping" (comment in initializeData).                            *)
RemoteBlockedByDefault == remoteAsked = "BLOCK" => tx.remote = "BLOCK"
=============================================================================
