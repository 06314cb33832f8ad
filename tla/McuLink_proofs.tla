--------------------------- MODULE McuLink_proofs ---------------------------
(***************************************************************************)
(* Proofs about the MCU link: its transmitting half (McuLink), for every   *)
(* set of velocities and frames, every set of publishing topics and every  *)
(* watchdog limit, and its receiving half (FrameParser), for every size of *)
(* a byte, a frame and a read.                                             *)
(***************************************************************************)
EXTENDS McuLink, FrameParser, SequenceTheorems, WellFoundedInduction, TLAPS

LEMMA PacketDefault == DefaultTransmissionData \in Packet
  BY ConstantsOK DEF ConstantsOK, DefaultTransmissionData, Packet, ResetCommand,
     ChargeCommand, ImuCalibrationCommand

LEMMA MotionOfPacket ==
  ASSUME NEW p \in Packet
  PROVE  MotionOf(p) \in Motion
  BY DEF MotionOf, Motion, Packet

\* The type invariant of the transmitting half.
THEOREM TypeCorrect == Spec => []TypeOK
<1> USE ConstantsOK DEF ConstantsOK, TypeOK, Expired
<1>1. Init => TypeOK
  <2>1. ASSUME Init PROVE tx \in Packet
    BY <2>1, PacketDefault DEF Init, Packet
  <2>2. ASSUME Init PROVE TypeOK
    <3>1. station \in DockingReport
      BY <2>2 DEF Init, DockingReport
    <3>2. cmdAge \in 0..Expired /\ estopAge \in 0..Expired /\ sleepsAtContact \in 0..2
      BY <2>2 DEF Init
    <3>3. wire \in Motion
      BY <2>1, <2>2, MotionOfPacket DEF Init
    <3>4. QED
      BY <2>1, <2>2, <3>1, <3>2, <3>3, Zenon DEF Init
  <2>3. QED
    BY <2>2
<1>2. TypeOK /\ [Next]_vars => TypeOK'
  <2> SUFFICES ASSUME TypeOK, [Next]_vars PROVE TypeOK'
    OBVIOUS
  <2>1. ASSUME NEW v \in LinVels, NEW w \in AngVels, CmdVelCallback(v, w)
        PROVE TypeOK'
    <3>1. tx' \in Packet
      BY <2>1 DEF CmdVelCallback, SetCurrentVelocity, Packet
    <3>2. QED
      BY <2>1, <3>1 DEF CmdVelCallback, history
  <2>2. ASSUME NEW on \in BOOLEAN, EStopCallback(on) PROVE TypeOK'
    BY <2>2 DEF EStopCallback
  <2>3. ASSUME NEW r \in Rpms, JigMotorCallback(r) PROVE TypeOK'
    BY <2>3, PacketDefault DEF JigMotorCallback, JigMotor, Packet, history
  <2>4. ASSUME NEW c \in {"HIGH_SPEED", "LOW_SPEED"}, JigBatteryCallback(c)
        PROVE TypeOK'
    BY <2>4, PacketDefault DEF JigBatteryCallback, Packet, ChargeCommand, history
  <2>5. ASSUME NEW c \in {"CALIBRATION_START", "END_OF_ROTATION"},
               JigImuCallback(c)
        PROVE TypeOK'
    BY <2>5 DEF JigImuCallback, SetField, Packet, ImuCalibrationCommand
  <2>6. ASSUME NEW c \in ChargeCommand, ChargeCmdCallback(c) PROVE TypeOK'
    BY <2>6 DEF ChargeCmdCallback, SetField, Packet
  <2>7. ASSUME NEW c \in ResetCommand, ResetCallback(c) PROVE TypeOK'
    BY <2>7 DEF ResetCallback, SetField, Packet
  <2>8. ASSUME NEW status \in {"ON", "OFF"}, TofCommandCallback(status)
        PROVE TypeOK'
    BY <2>8 DEF TofCommandCallback, SetField, Packet
  <2>9. ASSUME NEW mode \in {"BLOCK", "UNBLOCK"}, RemoteBlockCallback(mode)
        PROVE TypeOK'
    BY <2>9 DEF RemoteBlockCallback, SetField, Packet
  <2>10. ASSUME NEW c \in {"START", "STOP"}, DockingCommandCallback(c)
         PROVE TypeOK'
    BY <2>10 DEF DockingCommandCallback, SetField, Packet
  <2>11. CASE BatterySleepCallback
    BY <2>11 DEF BatterySleepCallback, SetField, Packet
  <2>12. ASSUME NEW s \in Frames, McuFrame(s) PROVE TypeOK'
    <3>1. tx' \in Packet
      BY <2>12 DEF McuFrame, AfterFrame, Packet
    <3>2. station' \in DockingReport
      BY <2>12 DEF McuFrame
    <3>3. sleepsAtContact' \in 0..2
      BY <2>12 DEF McuFrame
    <3>4. QED
      BY <2>12, <3>1, <3>2, <3>3, Zenon DEF McuFrame
  <2>13. ASSUME NEW written \in BOOLEAN, TimerCallback(written) PROVE TypeOK'
    <3>1. tx' \in Packet /\ tempBatt' \in {"NORMAL", "SLEEP"}
      BY <2>13 DEF TimerCallback, WithdrawSleep, Packet
    <3>2. Built(tx') \in Packet
      BY <3>1 DEF Built, Packet
    <3>3. wire' \in Motion
      BY <2>13, <3>2, MotionOfPacket DEF TimerCallback
    <3>4. QED
      BY <2>13, <3>1, <3>3 DEF TimerCallback
  <2>14. CASE Elapse
    BY <2>14 DEF Elapse, Older
  <2>15. CASE UNCHANGED vars
    BY <2>15 DEF vars, history
  <2>16. QED
    BY <2>1, <2>2, <2>3, <2>4, <2>5, <2>6, <2>7, <2>8, <2>9, <2>10, <2>11,
       <2>12, <2>13, <2>14, <2>15 DEF Next
<1>3. QED
  BY <1>1, <1>2, PTL DEF Spec
-----------------------------------------------------------------------------
\* The callbacks that write one nibble the theorems below do not read.
FieldStep ==
  \/ \E c \in {"CALIBRATION_START", "END_OF_ROTATION"} : JigImuCallback(c)
  \/ \E c \in ChargeCommand : ChargeCmdCallback(c)
  \/ \E c \in ResetCommand : ResetCallback(c)
  \/ \E status \in {"ON", "OFF"} : TofCommandCallback(status)
  \/ \E mode \in {"BLOCK", "UNBLOCK"} : RemoteBlockCallback(mode)
  \/ \E c \in {"START", "STOP"} : DockingCommandCallback(c)

LEMMA FieldStepFrame ==
  ASSUME TypeOK, FieldStep
  PROVE  /\ tx'.lin = tx.lin /\ tx'.ang = tx.ang /\ tx'.rpm = tx.rpm
         /\ tx'.batt = tx.batt
         /\ UNCHANGED <<bEmergencyStop, bJigMotorInspection, cmdAge, station,
                        tempBatt, wire, estopAge, sleepsAtContact>>
  BY DEF TypeOK, Packet, FieldStep, JigImuCallback, ChargeCmdCallback,
     ResetCallback, TofCommandCallback, RemoteBlockCallback,
     DockingCommandCallback, SetField

(* Why OneDriveOnly is inductive: the latch decides which of the two kinds *)
(* of speed the record may hold, and the packet is built from the record.  *)
DriveInv ==
  /\ bJigMotorInspection => tx.lin = 0 /\ tx.ang = 0
  /\ ~bJigMotorInspection => tx.rpm = 0
  /\ wire.rpm # 0 => wire.lin = 0 /\ wire.ang = 0

LEMMA DriveInvStep ==
  ASSUME TypeOK, DriveInv, [Next]_vars
  PROVE  DriveInv'
<1> USE DEF DriveInv
<1>1. ASSUME NEW v \in LinVels, NEW w \in AngVels, CmdVelCallback(v, w)
      PROVE DriveInv'
  BY <1>1 DEF CmdVelCallback, SetCurrentVelocity, TypeOK, Packet
<1>2. ASSUME NEW on \in BOOLEAN, EStopCallback(on) PROVE DriveInv'
  BY <1>2 DEF EStopCallback
<1>3. ASSUME NEW r \in Rpms, JigMotorCallback(r) PROVE DriveInv'
  BY <1>3 DEF JigMotorCallback, JigMotor, DefaultTransmissionData
<1>4. ASSUME NEW c, JigBatteryCallback(c) PROVE DriveInv'
  BY <1>4 DEF JigBatteryCallback, DefaultTransmissionData
<1>5. CASE FieldStep
  BY <1>5, FieldStepFrame
<1>6. CASE BatterySleepCallback
  BY <1>6 DEF BatterySleepCallback, SetField, TypeOK, Packet
<1>7. ASSUME NEW s \in Frames, McuFrame(s) PROVE DriveInv'
  BY <1>7 DEF McuFrame, AfterFrame, TypeOK, Packet
<1>8. ASSUME NEW written \in BOOLEAN, TimerCallback(written) PROVE DriveInv'
  <2>1. /\ tx'.lin = tx.lin /\ tx'.ang = tx.ang /\ tx'.rpm = tx.rpm
        /\ tx' \in Packet
    BY <1>8 DEF TimerCallback, WithdrawSleep, TypeOK, Packet
  <2>2. /\ Built(tx').rpm = tx'.rpm
        /\ Built(tx').lin \in {tx'.lin, 0}
        /\ Built(tx').ang \in {tx'.ang, 0}
    BY <2>1 DEF Built, Packet
  <2>3. wire' \in {wire, MotionOf(Built(tx'))}
    BY <1>8 DEF TimerCallback
  <2>4. bJigMotorInspection' = bJigMotorInspection
    BY <1>8 DEF TimerCallback
  <2>5. QED
    BY <2>1, <2>2, <2>3, <2>4 DEF MotionOf
<1>9. CASE Elapse
  BY <1>9 DEF Elapse
<1>10. CASE UNCHANGED vars
  BY <1>10 DEF vars
<1>11. QED
  BY <1>1, <1>2, <1>3, <1>4, <1>5, <1>6, <1>7, <1>8, <1>9, <1>10
     DEF Next, FieldStep

(* A packet never commands a body velocity and wheel speeds at once,       *)
(* whatever the speeds and however the callbacks interleave.               *)
THEOREM OneDriveOnlyHolds == Spec => []OneDriveOnly
<1>1. Init => DriveInv
  BY DEF Init, DriveInv, DefaultTransmissionData, MotionOf
<1>2. DriveInv => OneDriveOnly
  BY DEF DriveInv, OneDriveOnly, MotionOf
<1>3. QED
  BY <1>1, <1>2, TypeCorrect, DriveInvStep, PTL DEF Spec

(* Why EStopHaltsLinear is inductive: a Twist that arrives under the stop  *)
(* zeroes the record, so a moving record is as old as the stop itself.     *)
EStopInv ==
  /\ ~bEmergencyStop => estopAge = 0
  /\ bEmergencyStop /\ tx.lin # 0 => cmdAge >= estopAge

LEMMA EStopInvStep ==
  ASSUME TypeOK, TypeOK', EStopInv, DriveInv, DriveInv', [Next]_vars
  PROVE  EStopInv'
<1> USE ConstantsOK DEF ConstantsOK, EStopInv
<1>1. ASSUME NEW v \in LinVels, NEW w \in AngVels, CmdVelCallback(v, w)
      PROVE EStopInv'
  <2>1. bEmergencyStop => tx'.lin = 0
    BY <1>1 DEF CmdVelCallback, SetCurrentVelocity, TypeOK, Packet, DriveInv
  <2>2. UNCHANGED <<bEmergencyStop, estopAge>>
    BY <1>1 DEF CmdVelCallback, history
  <2>3. QED
    BY <2>1, <2>2
<1>2. ASSUME NEW on \in BOOLEAN, EStopCallback(on) PROVE EStopInv'
  BY <1>2 DEF EStopCallback, TypeOK
<1>3. ASSUME NEW r \in Rpms, JigMotorCallback(r) PROVE EStopInv'
  BY <1>3 DEF JigMotorCallback, JigMotor, DefaultTransmissionData, history
<1>4. ASSUME NEW c, JigBatteryCallback(c) PROVE EStopInv'
  BY <1>4 DEF JigBatteryCallback, DefaultTransmissionData, history
<1>5. CASE FieldStep
  BY <1>5, FieldStepFrame
<1>6. CASE BatterySleepCallback
  BY <1>6 DEF BatterySleepCallback, SetField, TypeOK, Packet
<1>7. ASSUME NEW s \in Frames, McuFrame(s) PROVE EStopInv'
  BY <1>7 DEF McuFrame, AfterFrame, TypeOK, Packet
<1>8. ASSUME NEW written \in BOOLEAN, TimerCallback(written) PROVE EStopInv'
  BY <1>8 DEF TimerCallback, WithdrawSleep, TypeOK, Packet
<1>9. CASE Elapse
  BY <1>9 DEF Elapse, Older, Expired, TypeOK
<1>10. CASE UNCHANGED vars
  BY <1>10 DEF vars, history
<1>11. QED
  BY <1>1, <1>2, <1>3, <1>4, <1>5, <1>6, <1>7, <1>8, <1>9, <1>10
     DEF Next, FieldStep

(* An emergency stop older than the watchdog limit leaves no linear motion *)
(* in the packet, whatever the limit and whatever else arrives.            *)
THEOREM EStopHaltsLinearHolds == Spec => []EStopHaltsLinear
<1>1. Init => DriveInv /\ EStopInv
  BY DEF Init, DriveInv, EStopInv, DefaultTransmissionData, MotionOf
<1>2. TypeOK /\ EStopInv => EStopHaltsLinear
  BY ConstantsOK DEF ConstantsOK, TypeOK, Packet, Expired, EStopInv,
     EStopHaltsLinear, Built, PreventUnintendedAcceleration
<1>3. QED
  BY <1>1, <1>2, TypeCorrect, DriveInvStep, EStopInvStep, PTL DEF Spec

(* Why SleepWithdrawn is inductive: after the one packet, either the record*)
(* is clean (no sleep command is accepted at the terminal) or the packet   *)
(* just sent is remembered in temp_tofnbatt_command and withdraws it.      *)
SleepInv ==
  /\ sleepsAtContact <= 1
  /\ ~station.contact => sleepsAtContact = 0
  /\ sleepsAtContact > 0 /\ tx.batt = "SLEEP" => tempBatt = "SLEEP"

LEMMA SleepInvStep ==
  ASSUME TypeOK, SleepInv, [Next]_vars
  PROVE  SleepInv'
<1> USE DEF SleepInv
<1>1. ASSUME NEW v \in LinVels, NEW w \in AngVels, CmdVelCallback(v, w)
      PROVE SleepInv'
  BY <1>1 DEF CmdVelCallback, SetCurrentVelocity, TypeOK, Packet, history
<1>2. ASSUME NEW on \in BOOLEAN, EStopCallback(on) PROVE SleepInv'
  BY <1>2 DEF EStopCallback
<1>3. ASSUME NEW r \in Rpms, JigMotorCallback(r) PROVE SleepInv'
  BY <1>3 DEF JigMotorCallback, JigMotor, DefaultTransmissionData, history
<1>4. ASSUME NEW c, JigBatteryCallback(c) PROVE SleepInv'
  BY <1>4 DEF JigBatteryCallback, DefaultTransmissionData, history
<1>5. CASE FieldStep
  BY <1>5, FieldStepFrame
<1>6. CASE BatterySleepCallback
  BY <1>6 DEF BatterySleepCallback, SleepAllowed, SetField, TypeOK
<1>7. ASSUME NEW s \in Frames, McuFrame(s) PROVE SleepInv'
  BY <1>7 DEF McuFrame, AfterFrame, TypeOK, Packet
<1>8. ASSUME NEW written \in BOOLEAN, TimerCallback(written) PROVE SleepInv'
  BY <1>8 DEF TimerCallback, WithdrawSleep, TypeOK, Packet
<1>9. CASE Elapse
  BY <1>9 DEF Elapse
<1>10. CASE UNCHANGED vars
  BY <1>10 DEF vars, history
<1>11. QED
  BY <1>1, <1>2, <1>3, <1>4, <1>5, <1>6, <1>7, <1>8, <1>9, <1>10
     DEF Next, FieldStep

(* A sleep command that races with the charge terminal is in one packet at *)
(* most.                                                                   *)
THEOREM SleepWithdrawnHolds == Spec => []SleepWithdrawn
<1>1. Init => SleepInv
  BY DEF Init, SleepInv
<1>2. SleepInv => SleepWithdrawn
  BY DEF SleepInv, SleepWithdrawn
<1>3. QED
  BY <1>1, <1>2, TypeCorrect, SleepInvStep, PTL DEF Spec

LEMMA DockingStep ==
  ASSUME TypeOK, DockingStartNotRevived, [Next]_vars
  PROVE  DockingStartNotRevived'
<1> USE DEF DockingStartNotRevived, OnStation
<1>1. ASSUME NEW v \in LinVels, NEW w \in AngVels, CmdVelCallback(v, w)
      PROVE DockingStartNotRevived'
  BY <1>1 DEF CmdVelCallback, SetCurrentVelocity, TypeOK, Packet, history
<1>2. ASSUME NEW on \in BOOLEAN, EStopCallback(on) PROVE DockingStartNotRevived'
  BY <1>2 DEF EStopCallback
<1>3. ASSUME NEW r \in Rpms, JigMotorCallback(r) PROVE DockingStartNotRevived'
  BY <1>3 DEF JigMotorCallback, JigMotor, DefaultTransmissionData
<1>4. ASSUME NEW c, JigBatteryCallback(c) PROVE DockingStartNotRevived'
  BY <1>4 DEF JigBatteryCallback, DefaultTransmissionData
<1>5. CASE \E c \in {"START", "STOP"} : DockingCommandCallback(c)
  BY <1>5 DEF DockingCommandCallback, SetField, TypeOK, Packet
<1>6. CASE FieldStep /\ ~\E c \in {"START", "STOP"} : DockingCommandCallback(c)
  <2>1. tx'.docking = tx.docking /\ UNCHANGED <<station, dockAsked>>
    BY <1>6 DEF FieldStep, JigImuCallback, ChargeCmdCallback, ResetCallback,
       TofCommandCallback, RemoteBlockCallback, SetField, TypeOK, Packet
  <2>2. QED
    BY <2>1
<1>7. CASE BatterySleepCallback
  BY <1>7 DEF BatterySleepCallback, SetField, TypeOK, Packet, history
<1>8. ASSUME NEW s \in Frames, McuFrame(s) PROVE DockingStartNotRevived'
  BY <1>8 DEF McuFrame, AfterFrame, TypeOK, Packet
<1>9. ASSUME NEW written \in BOOLEAN, TimerCallback(written)
      PROVE DockingStartNotRevived'
  BY <1>9 DEF TimerCallback, WithdrawSleep, TypeOK, Packet
<1>10. CASE Elapse
  BY <1>10 DEF Elapse
<1>11. CASE UNCHANGED vars
  BY <1>11 DEF vars, history
<1>12. QED
  BY <1>1, <1>2, <1>3, <1>4, <1>5, <1>6, <1>7, <1>8, <1>9, <1>10, <1>11
     DEF Next, FieldStep

(* While the robot is reported docked on the station, a docking start is   *)
(* pending only if it was asked for after that report: every callback that *)
(* writes the record either keeps the docking nibble or clears it.         *)
THEOREM DockingStartNotRevivedHolds == Spec => []DockingStartNotRevived
<1>1. Init => DockingStartNotRevived
  BY DEF Init, DockingStartNotRevived, DefaultTransmissionData
<1>2. QED
  BY <1>1, TypeCorrect, DockingStep, PTL DEF Spec
-----------------------------------------------------------------------------
(* The receiving half (FrameParser): the frames out of the byte stream.    *)

FrameRecord == [at : Nat \ {0}, taken : BOOLEAN]

ParserTypes ==
  /\ unread \in Seq(Bytes) /\ buffer \in Seq(Bytes) /\ received \in Seq(Bytes)
  /\ parsing \in BOOLEAN /\ frames \in Seq(FrameRecord)

\* t is what s holds from o on, up to somewhere.
Shows(t, s, o) ==
  o \in Nat /\ o + Len(t) <= Len(s) /\ \A i \in 1..Len(t) : t[i] = s[o + i]

Gone == Len(received) - Len(buffer)

\* The buffer is the end of the stream, and where it begins no preamble has
\* been cut in two.
BufferInv ==
  /\ Shows(buffer, received, Gone)
  /\ Behind(Len(frames)) \in 1..(Gone + 1)
  /\ \A q \in Preambles(received) : q >= Behind(Len(frames)) => q > Gone
  /\ buffer = <<>> => Behind(Len(frames)) = Gone + 1

FramesInv ==
  \A k \in DOMAIN frames :
    LET p == frames[k].at IN
    /\ FirstPreamble(received, Behind(k - 1), p) /\ Complete(received, p)
    /\ frames[k].taken <=> Taken(Frame(received, p))

WaitInv == ~parsing => Waits(buffer)

\* Either nothing is in the buffer but what was left over and one read, or the
\* junk of one read, the frame it waits for and one read behind it.
JunkInv ==
  \/ Len(buffer) <= ReadMax + Header - 1
  \/ \E p \in Preambles(buffer) :
       /\ FirstPreamble(buffer, 1, p)
       /\ p <= ReadMax + Header - 2
       /\ Len(buffer) <= p + Byte + ReadMax
       /\ p + 2 <= Len(buffer) => Len(buffer) <= FrameEnd(buffer, p) + ReadMax + 1

ParserInv == ParserTypes /\ BufferInv /\ FramesInv /\ WaitInv /\ JunkInv
-----------------------------------------------------------------------------
LEMMA Sizes == Byte \in Nat /\ Byte >= 3 /\ ReadMax \in Nat /\ ReadMax >= 1
<1>1. Byte \in Nat \ {0} /\ ReadMax \in Nat \ {0}
  BY ParserConstants
<1>2. MinPacket \in 5..(Byte + 2)
  BY ParserConstants DEF Header
<1> QED
  BY <1>1, <1>2

LEMMA FrameEnds ==
  ASSUME NEW s \in Seq(Bytes), NEW p \in Nat \ {0}, p + 2 <= Len(s)
  PROVE  FrameSize(s, p) \in 3..(Byte + 2) /\ FrameEnd(s, p) \in (p + 2)..(p + Byte + 1)
<1>1. s[p + 2] \in Bytes
  OBVIOUS
<1>2. s[p + 2] \in 0..(Byte - 1)
  BY <1>1 DEF Bytes
<1> QED
  BY <1>2, Sizes DEF FrameSize, FrameEnd

LEMMA PreamblePlace ==
  ASSUME NEW s, NEW q \in Preambles(s)
  PROVE  q \in Nat /\ 1 <= q
BY DEF Preambles

LEMMA OnePreamble ==
  ASSUME NEW s \in Seq(Bytes), NEW n \in Int,
         NEW p, NEW q, FirstPreamble(s, n, p), FirstPreamble(s, n, q)
  PROVE  p = q
<1>1. p \in Nat /\ q \in Nat
  BY DEF FirstPreamble, Preambles
<1> QED
  BY <1>1 DEF FirstPreamble

(* What is shown of a sequence has the frames the sequence has there.      *)
LEMMA ShownPreambles ==
  ASSUME NEW s \in Seq(Bytes), NEW t \in Seq(Bytes), NEW o, Shows(t, s, o),
         NEW p \in Int, 1 <= p, p + 1 <= Len(t)
  PROVE  p \in Preambles(t) <=> o + p \in Preambles(s)
<1>1. o \in Nat /\ o + Len(t) <= Len(s)
  BY DEF Shows
<1>2. t[p] = s[o + p] /\ t[p + 1] = s[o + p + 1]
  BY DEF Shows
<1>3. p \in 1..(Len(t) - 1) /\ o + p \in 1..(Len(s) - 1)
  BY <1>1
<1> QED
  BY <1>2, <1>3 DEF Preambles

LEMMA ShownFrames ==
  ASSUME NEW s \in Seq(Bytes), NEW t \in Seq(Bytes), NEW o, Shows(t, s, o),
         NEW p \in Int, 1 <= p, p + 2 <= Len(t)
  PROVE  /\ FrameEnd(s, o + p) = o + FrameEnd(t, p)
         /\ Complete(t, p) => Complete(s, o + p) /\ Frame(s, o + p) = Frame(t, p)
         /\ o + Len(t) = Len(s) /\ Complete(s, o + p) => Complete(t, p)
<1>1. o \in Nat /\ o + Len(t) <= Len(s)
  BY DEF Shows
<1>2. t[p + 2] = s[o + p + 2]
  BY DEF Shows
<1>3. /\ FrameSize(s, o + p) = FrameSize(t, p) /\ FrameSize(t, p) \in Nat
      /\ FrameEnd(s, o + p) = o + FrameEnd(t, p)
      /\ FrameEnd(t, p) \in (p + 2)..(p + Byte + 1)
  <2>1. o + p + 2 = (o + p) + 2 /\ FrameSize(s, o + p) = FrameSize(t, p)
    BY <1>1, <1>2 DEF FrameSize
  <2>2. FrameSize(t, p) \in 3..(Byte + 2) /\ FrameEnd(t, p) \in (p + 2)..(p + Byte + 1)
    BY FrameEnds
  <2> QED
    BY <1>1, <2>1, <2>2, Sizes DEF FrameEnd
<1>4. ASSUME Complete(t, p)
      PROVE  Complete(s, o + p) /\ Frame(s, o + p) = Frame(t, p)
  <2>1. FrameEnd(t, p) <= Len(t) /\ Complete(s, o + p)
    BY <1>1, <1>3, <1>4 DEF Complete, Header
  <2> DEFINE e == FrameEnd(t, p)
  <2>2. /\ SubSeq(t, p, e) \in Seq(Bytes) /\ Len(SubSeq(t, p, e)) = e - p + 1
        /\ \A i \in 1..(e - p + 1) : SubSeq(t, p, e)[i] = t[p + i - 1]
    <3>1. e \in Int /\ p <= e /\ \A i \in p..e : t[i] \in Bytes
      BY <1>3, <2>1, Sizes
    <3> QED
      BY <3>1, SubSeqProperties
  <2>3. /\ SubSeq(s, o + p, o + e) \in Seq(Bytes) /\ Len(SubSeq(s, o + p, o + e)) = e - p + 1
        /\ \A i \in 1..(e - p + 1) : SubSeq(s, o + p, o + e)[i] = s[o + p + i - 1]
    <3>1. e \in Int /\ p <= e /\ \A i \in (o + p)..(o + e) : s[i] \in Bytes
      BY <1>1, <1>3, <2>1, Sizes
    <3>2. /\ SubSeq(s, o + p, o + e) \in Seq(Bytes)
          /\ Len(SubSeq(s, o + p, o + e)) = IF o + p <= o + e THEN (o + e) - (o + p) + 1 ELSE 0
          /\ \A i \in 1..((o + e) - (o + p) + 1) :
               SubSeq(s, o + p, o + e)[i] = s[(o + p) + i - 1]
      BY <1>1, <3>1, SubSeqProperties
    <3> QED
      BY <1>1, <3>1, <3>2
  <2>4. \A i \in 1..(e - p + 1) : t[p + i - 1] = s[o + p + i - 1]
    <3> SUFFICES ASSUME NEW i \in 1..(e - p + 1)
                 PROVE  t[p + i - 1] = s[o + p + i - 1]
      OBVIOUS
    <3>1. p + i - 1 \in 1..Len(t) /\ o + p + i - 1 = o + (p + i - 1)
      BY <1>1, <1>3, <2>1
    <3> QED
      BY <3>1 DEF Shows
  <2> HIDE DEF e
  <2>5. SubSeq(t, p, e) = SubSeq(s, o + p, o + e)
    <3>1. Len(SubSeq(t, p, e)) = e - p + 1 /\ Len(SubSeq(s, o + p, o + e)) = e - p + 1
      BY <2>2, <2>3
    <3>2. \A i \in 1..Len(SubSeq(t, p, e)) : SubSeq(t, p, e)[i] = SubSeq(s, o + p, o + e)[i]
      BY <2>2, <2>3, <2>4
    <3> QED
      BY <2>2, <2>3, <3>1, <3>2, SeqEqual
  <2> QED
    BY <1>3, <2>1, <2>5 DEF Frame, e
<1>5. ASSUME o + Len(t) = Len(s), Complete(s, o + p)
      PROVE  Complete(t, p)
  BY <1>1, <1>3, <1>5 DEF Complete, Header
<1> QED
  BY <1>3, <1>4, <1>5

LEMMA ShownFirst ==
  ASSUME NEW s \in Seq(Bytes), NEW t \in Seq(Bytes), Shows(t, s, 0), NEW n \in Int,
         NEW p, FirstPreamble(t, n, p)
  PROVE  FirstPreamble(s, n, p)
<1>1. p \in Int /\ 1 <= p /\ p + 1 <= Len(t)
  BY DEF FirstPreamble, Preambles
<1>2. p \in Preambles(s)
  BY <1>1, ShownPreambles DEF FirstPreamble
<1>3. ASSUME NEW q \in Preambles(s), n <= q, q < p
      PROVE  FALSE
  <2>1. q \in Int /\ 1 <= q /\ q + 1 <= Len(t)
    BY <1>1, <1>3 DEF Preambles
  <2>2. q \in Preambles(t)
    BY <2>1, ShownPreambles
  <2> QED
    BY <1>1, <1>3, <2>1, <2>2 DEF FirstPreamble
<1>4. \A q \in Preambles(s) : q \in Int
  BY DEF Preambles
<1> QED
  BY <1>1, <1>2, <1>3, <1>4 DEF FirstPreamble
-----------------------------------------------------------------------------
LEMMA ParserStart == ParserInit => ParserInv
<1> SUFFICES ASSUME ParserInit
             PROVE  ParserInv
  OBVIOUS
<1>1. /\ unread = <<>> /\ buffer = <<>> /\ received = <<>> /\ frames = <<>>
      /\ parsing = FALSE
  BY DEF ParserInit
<1>2. Len(buffer) = 0 /\ Len(received) = 0 /\ Len(frames) = 0 /\ DOMAIN frames = {}
  BY <1>1
<1>3. ParserTypes
  BY <1>1, EmptySeq DEF ParserTypes
<1>4. BufferInv
  BY <1>1, <1>2 DEF BufferInv, Shows, Gone, Behind, Preambles
<1>5. FramesInv /\ WaitInv
  BY <1>2 DEF FramesInv, WaitInv, Waits, Header
<1>6. JunkInv
  BY <1>2, Sizes DEF JunkInv, Header
<1> QED
  BY <1>3, <1>4, <1>5, <1>6 DEF ParserInv

(* Whether the loop goes on and what waits in the driver is all that       *)
(* changes.                                                                *)
LEMMA ParserIdle ==
  ASSUME ParserInv, UNCHANGED <<buffer, received, frames>>,
         unread' \in Seq(Bytes), parsing' \in BOOLEAN, WaitInv'
  PROVE  ParserInv'
<1>1. Behind(Len(frames))' = Behind(Len(frames)) /\ \A k : Behind(k)' = Behind(k)
  BY DEF Behind, FrameEnd, FrameSize
<1>2. BufferInv'
  BY <1>1 DEF ParserInv, BufferInv, Shows, Gone, Preambles
<1>3. FramesInv'
  BY <1>1 DEF ParserInv, FramesInv, FirstPreamble, Preambles, Complete, FrameEnd, FrameSize,
              Frame
<1>4. JunkInv'
  BY DEF ParserInv, JunkInv, FirstPreamble, Preambles, FrameEnd, FrameSize
<1> QED
  BY <1>2, <1>3, <1>4 DEF ParserInv, ParserTypes

(* The frames cut so far stay what they are while the stream grows.        *)
LEMMA StreamGrows ==
  ASSUME ParserInv, received' \in Seq(Bytes), Shows(received, received', 0),
         UNCHANGED frames
  PROVE  FramesInv' /\ \A k \in 0..Len(frames) : Behind(k)' = Behind(k)
<1>1. received \in Seq(Bytes) /\ DOMAIN frames = 1..Len(frames)
  BY DEF ParserInv, ParserTypes
<1>2. ASSUME NEW k \in DOMAIN frames
      PROVE  LET p == frames[k].at IN
             /\ p \in Int /\ 1 <= p /\ p + 2 <= Len(received)
             /\ FrameEnd(received', p) = FrameEnd(received, p)
             /\ Complete(received', p)
             /\ Frame(received', p) = Frame(received, p)
  <2> DEFINE p == frames[k].at
  <2>1. Complete(received, p) /\ p \in Preambles(received)
    BY DEF ParserInv, FramesInv, FirstPreamble
  <2>2. p \in Int /\ 1 <= p /\ p + 2 <= Len(received)
    BY <1>1, <2>1 DEF Complete, Header, Preambles
  <2> HIDE DEF p
  <2>3. /\ FrameEnd(received', 0 + p) = 0 + FrameEnd(received, p)
        /\ Complete(received', 0 + p) /\ Frame(received', 0 + p) = Frame(received, p)
    BY <1>1, <2>1, <2>2, ShownFrames
  <2>4. FrameEnd(received, p) \in Int
    BY <1>1, <2>2, FrameEnds, Sizes
  <2> QED
    BY <2>2, <2>3, <2>4 DEF p
<1>3. ASSUME NEW k \in 0..Len(frames)
      PROVE  Behind(k)' = Behind(k)
  <2>1. CASE k = 0
    BY <2>1 DEF Behind
  <2>2. CASE k # 0
    <3>1. k \in DOMAIN frames
      BY <1>1, <2>2
    <3> QED
      BY <1>2, <2>2, <3>1 DEF Behind
  <2> QED
    BY <2>1, <2>2
<1>4. FramesInv'
  <2> SUFFICES ASSUME NEW k \in DOMAIN frames
               PROVE  LET p == frames[k].at IN
                      /\ FirstPreamble(received', Behind(k - 1)', p) /\ Complete(received', p)
                      /\ frames[k].taken <=> Taken(Frame(received', p))
    BY DEF FramesInv
  <2> DEFINE p == frames[k].at
  <2>1. /\ FirstPreamble(received, Behind(k - 1), p)
        /\ frames[k].taken <=> Taken(Frame(received, p))
    BY DEF ParserInv, FramesInv
  <2>2. k - 1 \in 0..Len(frames) /\ Behind(k - 1)' = Behind(k - 1)
    BY <1>1, <1>3
  <2>3. Behind(k - 1) \in Int
    <3>1. CASE k = 1
      BY <3>1 DEF Behind
    <3>2. CASE k # 1
      <4>1. k - 1 \in DOMAIN frames /\ k - 1 # 0
        BY <1>1, <2>2, <3>2
      <4>2. FrameEnd(received, frames[k - 1].at) \in Int
        BY <1>1, <1>2, <4>1, FrameEnds, Sizes
      <4> QED
        BY <4>1, <4>2 DEF Behind
    <3> QED
      BY <3>1, <3>2
  <2>4. FirstPreamble(received', Behind(k - 1), p)
    BY <1>1, <2>1, <2>3, ShownFirst
  <2> QED
    BY <1>2, <2>1, <2>2, <2>4
<1> QED
  BY <1>3, <1>4

(* A read goes behind the buffer as behind the stream: no preamble is      *)
(* parted, because what is left behind a frame begins a new search and     *)
(* what is left of junk is never empty.                                    *)
LEMMA ReadStep ==
  ASSUME ParserInv, ReceiveData
  PROVE  ParserInv'
<1>1. PICK n \in 1..Len(unread) :
        /\ n <= ReadMax
        /\ buffer' = buffer \o SubSeq(unread, 1, n)
        /\ received' = received \o SubSeq(unread, 1, n)
        /\ unread' = SubSeq(unread, n + 1, Len(unread))
  BY DEF ReceiveData
<1>2. ~parsing /\ parsing' = TRUE /\ UNCHANGED frames
  BY DEF ReceiveData
<1>3. unread \in Seq(Bytes) /\ buffer \in Seq(Bytes) /\ received \in Seq(Bytes)
  BY DEF ParserInv, ParserTypes
<1> DEFINE data == SubSeq(unread, 1, n)
<1>4. data \in Seq(Bytes) /\ Len(data) = n /\ unread' \in Seq(Bytes)
  <2>1. \A i \in 1..Len(unread) : unread[i] \in Bytes
    BY <1>3
  <2>2. n \in Int /\ n >= 1 /\ Len(unread) \in Int /\ n <= Len(unread)
    BY <1>3
  <2>3. data \in Seq(Bytes) /\ Len(data) = n
    BY <2>1, <2>2, SubSeqProperties
  <2>4. SubSeq(unread, n + 1, Len(unread)) \in Seq(Bytes)
    BY <2>1, <2>2, SubSeqProperties
  <2> QED
    BY <1>1, <2>3, <2>4
<1> HIDE DEF data
<1>5. /\ buffer' \in Seq(Bytes) /\ Len(buffer') = Len(buffer) + n
      /\ \A i \in 1..(Len(buffer) + n) :
           buffer'[i] = IF i <= Len(buffer) THEN buffer[i] ELSE data[i - Len(buffer)]
  BY <1>1, <1>3, <1>4, ConcatProperties DEF data
<1>6. /\ received' \in Seq(Bytes) /\ Len(received') = Len(received) + n
      /\ \A i \in 1..(Len(received) + n) :
           received'[i] = IF i <= Len(received) THEN received[i] ELSE data[i - Len(received)]
  BY <1>1, <1>3, <1>4, ConcatProperties DEF data
<1>6a. /\ n \in Nat /\ 1 <= n /\ n <= ReadMax
      /\ Len(buffer) \in Nat /\ Len(received) \in Nat
      /\ Len(buffer') = Len(buffer) + n /\ Len(received') = Len(received) + n
  BY <1>1, <1>3, <1>5, <1>6
<1>7. Shows(received, received', 0) /\ Shows(buffer, buffer', 0)
  <2>1. \A i \in 1..Len(buffer) : 0 + i = i /\ i \in 1..(Len(buffer) + n) /\ i <= Len(buffer)
    BY <1>6a
  <2>2. \A i \in 1..Len(received) :
          0 + i = i /\ i \in 1..(Len(received) + n) /\ i <= Len(received)
    BY <1>6a
  <2>3. \A i \in 1..Len(buffer) : buffer[i] = buffer'[0 + i]
    BY <1>5, <2>1
  <2>4. \A i \in 1..Len(received) : received[i] = received'[0 + i]
    BY <1>6, <2>2
  <2>5. /\ 0 \in Nat /\ 0 + Len(buffer) <= Len(buffer')
        /\ 0 + Len(received) <= Len(received')
    BY <1>6a
  <2> QED
    BY <2>3, <2>4, <2>5 DEF Shows
<1>8. FramesInv' /\ Behind(Len(frames))' = Behind(Len(frames))
  <2>1. Len(frames) \in 0..Len(frames)
    BY DEF ParserInv, ParserTypes
  <2> QED
    BY <1>2, <1>6, <1>7, <2>1, StreamGrows
<1>9. /\ Gone \in Nat /\ Gone + Len(buffer) = Len(received) /\ Gone' = Gone
      /\ \A i \in 1..Len(buffer) : buffer[i] = received[Gone + i]
      /\ Behind(Len(frames)) \in 1..(Gone + 1)
      /\ \A q \in Preambles(received) : q >= Behind(Len(frames)) => q > Gone
      /\ buffer = <<>> => Behind(Len(frames)) = Gone + 1
  BY <1>3, <1>5, <1>6 DEF ParserInv, BufferInv, Shows, Gone
<1>10. BufferInv'
  <2>1. ASSUME NEW i \in 1..Len(buffer')
        PROVE  buffer'[i] = received'[Gone + i]
    <3>1. CASE i <= Len(buffer)
      <4>1. i \in 1..Len(buffer) /\ i \in 1..(Len(buffer) + n)
        BY <1>6a, <3>1
      <4>2. Gone + i \in 1..(Len(received) + n) /\ Gone + i <= Len(received)
        <5>1. Gone \in Nat /\ Gone + Len(buffer) = Len(received)
          BY <1>9
        <5>2. i \in Nat /\ 1 <= i
          BY <4>1
        <5> QED
          BY <1>6a, <3>1, <5>1, <5>2
      <4>3. buffer'[i] = buffer[i]
        BY <1>5, <3>1, <4>1
      <4>4. received'[Gone + i] = received[Gone + i]
        BY <1>6, <4>2
      <4> QED
        BY <1>9, <4>1, <4>3, <4>4
    <3>2. CASE i > Len(buffer)
      <4>1. /\ Gone + i \in 1..(Len(received) + n) /\ Gone + i > Len(received)
            /\ (Gone + i) - Len(received) = i - Len(buffer)
            /\ i \in 1..(Len(buffer) + n)
        <5>1. Gone \in Nat /\ Gone + Len(buffer) = Len(received)
          BY <1>9
        <5>2. i \in Nat /\ Len(buffer) < i /\ i <= Len(buffer) + n
          BY <1>6a, <3>2
        <5> QED
          BY <1>6a, <5>1, <5>2
      <4>2. received'[Gone + i] = data[(Gone + i) - Len(received)]
        BY <1>6, <1>6a, <4>1
      <4>3. buffer'[i] = data[i - Len(buffer)]
        BY <1>5, <1>6a, <3>2, <4>1
      <4> QED
        BY <4>1, <4>2, <4>3
    <3> QED
      BY <1>3, <3>1, <3>2
  <2>2. Shows(buffer', received', Gone)
    BY <1>3, <1>5, <1>6, <1>9, <2>1 DEF Shows
  <2>3. ASSUME NEW q \in Preambles(received'), q >= Behind(Len(frames))
        PROVE  q > Gone
    <3>1. q \in Int /\ 1 <= q /\ q + 1 <= Len(received')
      BY <1>6 DEF Preambles
    <3>2. CASE q + 1 <= Len(received)
      <4>1. 0 + q \in Preambles(received') => q \in Preambles(received)
        BY <1>3, <1>6, <1>7, <3>1, <3>2, ShownPreambles
      <4> QED
        BY <1>9, <2>3, <3>1, <4>1
    <3>3. CASE q + 1 > Len(received) /\ buffer # <<>>
      <4>1. Len(buffer) >= 1
        BY <1>3, <3>3
      <4> QED
        BY <1>3, <1>9, <3>1, <3>3, <4>1
    <3>4. CASE buffer = <<>>
      BY <1>9, <2>3, <3>1, <3>4
    <3> QED
      BY <1>3, <3>1, <3>2, <3>3, <3>4
  <2>4. buffer' # <<>>
    BY <1>3, <1>5
  <2> QED
    BY <1>2, <1>8, <1>9, <2>2, <2>3, <2>4 DEF BufferInv
<1>11. JunkInv'
  <2>1. CASE Len(buffer) < Header
    BY <1>1, <1>3, <1>5, <2>1, Sizes DEF JunkInv, Header
  <2>2. CASE Len(buffer) >= Header
    <3>1. PICK p \in Preambles(buffer) : FirstPreamble(buffer, 1, p) /\ ~Complete(buffer, p)
      BY <1>2, <1>3, <2>2 DEF ParserInv, WaitInv, Waits, Header
    <3>2. p \in Int /\ 1 <= p /\ p + 1 <= Len(buffer)
      BY <1>3 DEF Preambles
    <3>3. p <= ReadMax + Header - 2
      <4>1. CASE Len(buffer) <= ReadMax + Header - 1
        BY <1>3, <3>2, <4>1, Sizes DEF Header
      <4>2. CASE ~(Len(buffer) <= ReadMax + Header - 1)
        <5>1. PICK q \in Preambles(buffer) :
                FirstPreamble(buffer, 1, q) /\ q <= ReadMax + Header - 2
          BY <4>2 DEF ParserInv, JunkInv
        <5> QED
          BY <1>3, <3>1, <5>1, OnePreamble
      <4> QED
        BY <4>1, <4>2
    <3>4. FirstPreamble(buffer', 1, p) /\ p \in Preambles(buffer')
      <4>1. FirstPreamble(buffer', 1, p)
        BY <1>3, <1>5, <1>7, <3>1, ShownFirst
      <4> QED
        BY <4>1 DEF FirstPreamble
    <3>5. FrameEnd(buffer', p) \in (p + 2)..(p + Byte + 1)
      <4>1. p \in Nat \ {0} /\ p + 2 <= Len(buffer')
        BY <1>6a, <2>2, <3>2 DEF Header
      <4> QED
        BY <1>5, <4>1, FrameEnds
    <3>6. Len(buffer) <= p + Header - 2 \/ Len(buffer) < FrameEnd(buffer', p)
      <4>1. CASE p + 2 <= Len(buffer)
        <5>1. FrameEnd(buffer', 0 + p) = 0 + FrameEnd(buffer, p)
          BY <1>3, <1>5, <1>7, <3>2, <4>1, ShownFrames
        <5>2. FrameEnd(buffer, p) \in Int
          BY <1>3, <3>2, <4>1, FrameEnds, Sizes
        <5> QED
          BY <1>3, <3>1, <3>2, <5>1, <5>2 DEF Complete, Header
      <4>2. CASE ~(p + 2 <= Len(buffer))
        BY <1>3, <3>2, <4>2 DEF Header
      <4> QED
        BY <4>1, <4>2
    <3>7. /\ Len(buffer') <= p + Byte + ReadMax
          /\ Len(buffer') <= FrameEnd(buffer', p) + ReadMax + 1
      BY <1>6a, <3>2, <3>5, <3>6, Sizes DEF Header
    <3> QED
      BY <3>3, <3>4, <3>7 DEF JunkInv
  <2> QED
    BY <1>3, <2>1, <2>2 DEF Header
<1>12. ParserTypes'
  BY <1>2, <1>4, <1>5, <1>6 DEF ParserInv, ParserTypes
<1> QED
  BY <1>2, <1>8, <1>10, <1>11, <1>12 DEF ParserInv, WaitInv

LEMMA JunkStep ==
  ASSUME ParserInv, NoPreamble
  PROVE  ParserInv'
<1>1. /\ parsing /\ Len(buffer) >= Header /\ Preambles(buffer) = {}
      /\ buffer' = Tail(buffer)
      /\ UNCHANGED <<unread, parsing, received, frames>>
  BY DEF NoPreamble, DropByte
<1>2. buffer \in Seq(Bytes) /\ received \in Seq(Bytes) /\ buffer # <<>>
  BY <1>1 DEF ParserInv, ParserTypes, Header
<1>3. /\ buffer' \in Seq(Bytes) /\ Len(buffer') = Len(buffer) - 1
      /\ \A i \in 1..(Len(buffer) - 1) : buffer'[i] = buffer[i + 1]
  BY <1>1, <1>2, HeadTailProperties
<1>4. Behind(Len(frames))' = Behind(Len(frames)) /\ \A k : Behind(k)' = Behind(k)
  BY <1>1 DEF Behind, FrameEnd, FrameSize
<1>5. /\ Gone \in Nat /\ Gone + Len(buffer) = Len(received) /\ Gone' = Gone + 1
      /\ Shows(buffer, received, Gone)
      /\ \A i \in 1..Len(buffer) : buffer[i] = received[Gone + i]
      /\ Behind(Len(frames)) \in 1..(Gone + 1)
      /\ \A q \in Preambles(received) : q >= Behind(Len(frames)) => q > Gone
  BY <1>1, <1>2, <1>3 DEF ParserInv, BufferInv, Shows, Gone
<1>6. BufferInv'
  <2>1. ASSUME NEW i \in 1..Len(buffer')
        PROVE  buffer'[i] = received[(Gone + 1) + i]
    <3>1. i + 1 \in 1..Len(buffer) /\ (Gone + 1) + i = Gone + (i + 1)
      BY <1>2, <1>3, <1>5
    <3> QED
      BY <1>3, <1>5, <3>1
  <2>2. Shows(buffer', received, Gone + 1)
    BY <1>2, <1>3, <1>5, <2>1 DEF Shows
  <2>3. ASSUME NEW q \in Preambles(received), q >= Behind(Len(frames))
        PROVE  q > Gone + 1
    <3>1. q > Gone /\ q \in Int
      <4>1. q \in Int
        BY PreamblePlace
      <4> QED
        BY <1>5, <2>3, <4>1
    <3>2. q # Gone + 1
      <4>1. 1 \in Preambles(buffer) <=> Gone + 1 \in Preambles(received)
        <5>1. 1 \in Int /\ 1 <= 1 /\ 1 + 1 <= Len(buffer)
          BY <1>1, <1>2 DEF Header
        <5>2. Shows(buffer, received, Gone)
          BY <1>5
        <5> QED
          BY <1>2, <5>1, <5>2, ShownPreambles
      <4> QED
        BY <1>1, <4>1
    <3> QED
      BY <1>5, <3>1, <3>2
  <2>4. buffer' # <<>>
    BY <1>1, <1>2, <1>3 DEF Header
  <2>5. Behind(Len(frames)) \in 1..((Gone + 1) + 1)
    BY <1>5
  <2> QED
    BY <1>1, <1>4, <1>5, <2>2, <2>3, <2>4, <2>5 DEF BufferInv
<1>7. FramesInv'
  BY <1>1, <1>4 DEF ParserInv, FramesInv
<1>8. JunkInv'
  BY <1>1, <1>2, <1>3, Sizes DEF ParserInv, JunkInv, Header
<1> QED
  BY <1>1, <1>3, <1>6, <1>7, <1>8 DEF ParserInv, ParserTypes, WaitInv

(* The frame cut from the buffer is the next one of the stream, and what   *)
(* is left begins right behind it.                                         *)
LEMMA CutStep ==
  ASSUME ParserInv, CutFrame
  PROVE  ParserInv'
<1>1. PICK p \in Preambles(buffer) :
        /\ FirstPreamble(buffer, 1, p) /\ Complete(buffer, p)
        /\ buffer' = SubSeq(buffer, FrameEnd(buffer, p) + 1, Len(buffer))
        /\ frames' = Append(frames, [at |-> Len(received) - Len(buffer) + p,
                                     taken |-> Taken(Frame(buffer, p))])
  BY DEF CutFrame, Erased
<1>2. parsing /\ UNCHANGED <<unread, parsing, received>>
  BY DEF CutFrame
<1>3. buffer \in Seq(Bytes) /\ received \in Seq(Bytes) /\ frames \in Seq(FrameRecord)
  BY DEF ParserInv, ParserTypes
<1>4. /\ Gone \in Nat /\ Gone + Len(buffer) = Len(received)
      /\ Shows(buffer, received, Gone)
      /\ Behind(Len(frames)) \in 1..(Gone + 1)
      /\ \A q \in Preambles(received) : q >= Behind(Len(frames)) => q > Gone
  BY <1>3 DEF ParserInv, BufferInv, Shows, Gone
<1> DEFINE e == FrameEnd(buffer, p)
           at == Gone + p
           new == [at |-> at, taken |-> Taken(Frame(buffer, p))]
<1>5. p \in Nat /\ 1 <= p /\ p + 4 <= Len(buffer) /\ Len(buffer) \in Nat
  BY <1>1, <1>3 DEF Preambles, Complete, Header
<1>6. e \in (p + 2)..(p + Byte + 1) /\ e <= Len(buffer) /\ e \in Nat
  <2>1. e \in (p + 2)..(p + Byte + 1)
    BY <1>3, <1>5, FrameEnds
  <2> QED
    BY <1>1, <1>5, <2>1, Sizes DEF Complete
<1>7. /\ FrameEnd(received, at) = Gone + e
      /\ Complete(received, at) /\ Frame(received, at) = Frame(buffer, p)
  <2>1. p \in Int /\ 1 <= p /\ p + 2 <= Len(buffer)
    BY <1>5
  <2> QED
    BY <1>1, <1>3, <1>4, <2>1, ShownFrames
<1>8. new \in FrameRecord /\ frames' = Append(frames, new)
  <2>1. Taken(Frame(buffer, p)) \in BOOLEAN
    BY DEF Taken, ChecksumOK, ParseDataFields
  <2>2. at \in Nat \ {0} /\ at = Len(received) - Len(buffer) + p
    BY <1>4, <1>5 DEF Gone
  <2> QED
    BY <1>1, <2>1, <2>2 DEF FrameRecord
<1>9. FirstPreamble(received, Behind(Len(frames)), at)
  <2>1. at \in Preambles(received)
    <3>1. p \in Int /\ p + 1 <= Len(buffer)
      BY <1>5
    <3>2. p \in Preambles(buffer) <=> Gone + p \in Preambles(received)
      BY <1>3, <1>4, <1>5, <3>1, ShownPreambles
    <3> QED
      BY <1>1, <3>2
  <2>2. ASSUME NEW q \in Preambles(received), q >= Behind(Len(frames)), q < at
        PROVE  FALSE
    <3>1. q \in Nat /\ q > Gone /\ q - Gone \in Int /\ 1 <= q - Gone
          /\ (q - Gone) + 1 <= Len(buffer) /\ Gone + (q - Gone) = q
      <4>1. q \in Nat /\ q > Gone
        <5>1. q \in Nat
          BY PreamblePlace
        <5> QED
          BY <1>4, <2>2, <5>1
      <4>2. q + 1 <= Len(received)
        BY <1>3 DEF Preambles
      <4> QED
        BY <1>4, <1>5, <2>2, <4>1, <4>2
    <3>2. q - Gone \in Preambles(buffer)
      BY <1>3, <1>4, <3>1, ShownPreambles
    <3> QED
      BY <1>1, <1>4, <1>5, <2>2, <3>1, <3>2 DEF FirstPreamble
  <2>3. \A q \in Preambles(received) : q \in Int
    BY DEF Preambles
  <2> QED
    BY <1>4, <1>5, <2>1, <2>2, <2>3 DEF FirstPreamble
<1> HIDE DEF e, at, new
<1>10. /\ frames' \in Seq(FrameRecord) /\ Len(frames') = Len(frames) + 1
       /\ \A k \in 1..Len(frames) : frames'[k] = frames[k]
       /\ frames'[Len(frames) + 1] = new
       /\ Len(frames) \in Nat /\ DOMAIN frames = 1..Len(frames)
       /\ DOMAIN frames' = 1..(Len(frames) + 1)
  BY <1>3, <1>8, AppendProperties
<1>11. \A k \in 0..Len(frames) : Behind(k)' = Behind(k)
  BY <1>2, <1>10 DEF Behind, FrameEnd, FrameSize
<1>12. FramesInv'
  <2> SUFFICES ASSUME NEW k \in 1..(Len(frames) + 1)
               PROVE  LET f == frames'[k] IN
                      /\ FirstPreamble(received, Behind(k - 1)', f.at)
                      /\ Complete(received, f.at)
                      /\ f.taken <=> Taken(Frame(received, f.at))
    BY <1>2, <1>10 DEF FramesInv
  <2>1. k - 1 \in 0..Len(frames) /\ Behind(k - 1)' = Behind(k - 1)
    BY <1>10, <1>11
  <2>2. CASE k <= Len(frames)
    <3>1. k \in DOMAIN frames /\ frames'[k] = frames[k]
      BY <1>10, <2>2
    <3> QED
      BY <2>1, <3>1 DEF ParserInv, FramesInv
  <2>3. CASE k = Len(frames) + 1
    <3>1. k - 1 = Len(frames) /\ frames'[k] = new
      BY <1>10, <2>3
    <3> QED
      BY <1>7, <1>9, <2>1, <3>1 DEF new
  <2> QED
    BY <1>10, <2>2, <2>3
<1>13. /\ buffer' \in Seq(Bytes) /\ Len(buffer') = Len(buffer) - e
       /\ \A i \in 1..(Len(buffer) - e) : buffer'[i] = buffer[e + i]
  <2>1. /\ e + 1 \in Int /\ Len(buffer) \in Int
        /\ \A i \in (e + 1)..Len(buffer) : buffer[i] \in Bytes
    BY <1>3, <1>5, <1>6
  <2>2. buffer' = SubSeq(buffer, e + 1, Len(buffer))
    BY <1>1 DEF e
  <2>3. /\ buffer' \in Seq(Bytes)
        /\ Len(buffer') = IF e + 1 <= Len(buffer) THEN Len(buffer) - (e + 1) + 1 ELSE 0
        /\ \A i \in 1..(Len(buffer) - (e + 1) + 1) : buffer'[i] = buffer[(e + 1) + i - 1]
    BY <2>1, <2>2, SubSeqProperties
  <2>4. Len(buffer') = Len(buffer) - e
    BY <1>5, <1>6, <2>3
  <2>5. ASSUME NEW i \in 1..(Len(buffer) - e)
        PROVE  buffer'[i] = buffer[e + i]
    <3>1. i \in 1..(Len(buffer) - (e + 1) + 1) /\ (e + 1) + i - 1 = e + i
      BY <1>5, <1>6
    <3> QED
      BY <2>3, <3>1
  <2> QED
    BY <2>3, <2>4, <2>5
<1>14. BufferInv'
  <2>1. Gone' = Gone + e
    BY <1>2, <1>3, <1>5, <1>6, <1>13 DEF Gone
  <2>2. Behind(Len(frames))' = Gone + e + 1
    <3>1. Len(frames') # 0 /\ frames'[Len(frames')].at = at
      BY <1>10 DEF new
    <3>2. Behind(Len(frames))' = FrameEnd(received, at) + 1
      BY <1>2, <3>1 DEF Behind, FrameEnd, FrameSize
    <3> QED
      BY <1>4, <1>6, <1>7, <3>2
  <2>3. Shows(buffer', received, Gone + e)
    <3>1. ASSUME NEW i \in 1..(Len(buffer) - e)
          PROVE  buffer'[i] = received[(Gone + e) + i]
      <4>1. e + i \in 1..Len(buffer) /\ (Gone + e) + i = Gone + (e + i)
        BY <1>4, <1>5, <1>6
      <4> QED
        BY <1>4, <1>13, <4>1 DEF Shows
    <3>2. Gone + e \in Nat /\ (Gone + e) + Len(buffer') <= Len(received)
      BY <1>4, <1>5, <1>6, <1>13
    <3> QED
      BY <1>13, <3>1, <3>2 DEF Shows
  <2>4. \A q \in Preambles(received) : q \in Int
    BY DEF Preambles
  <2> QED
    BY <1>2, <1>4, <1>6, <2>1, <2>2, <2>3, <2>4 DEF BufferInv
<1>15. JunkInv'
  <2>1. Len(buffer) - e <= ReadMax + 4
    <3>1. CASE Len(buffer) <= ReadMax + Header - 1
      BY <1>5, <1>6, <3>1, Sizes DEF Header
    <3>2. CASE ~(Len(buffer) <= ReadMax + Header - 1)
      <4>1. PICK q \in Preambles(buffer) :
              /\ FirstPreamble(buffer, 1, q)
              /\ q + 2 <= Len(buffer) => Len(buffer) <= FrameEnd(buffer, q) + ReadMax + 1
        BY <3>2 DEF ParserInv, JunkInv
      <4>2. q = p
        BY <1>1, <1>3, <4>1, OnePreamble
      <4> QED
        BY <1>5, <1>6, <4>1, <4>2, Sizes DEF e
    <3> QED
      BY <3>1, <3>2
  <2> QED
    BY <1>13, <2>1, Sizes DEF JunkInv, Header
<1> QED
  BY <1>2, <1>10, <1>12, <1>13, <1>14, <1>15 DEF ParserInv, ParserTypes, WaitInv

LEMMA ParserStep == ParserInv /\ [ParserNext]_parserVars => ParserInv'
<1> SUFFICES ASSUME ParserInv, [ParserNext]_parserVars
             PROVE  ParserInv'
  OBVIOUS
<1>1. CASE UartByte
  <2>1. unread' \in Seq(Bytes) /\ parsing' \in BOOLEAN
    BY <1>1, AppendProperties DEF UartByte, ParserInv, ParserTypes
  <2>2. UNCHANGED <<buffer, parsing, received, frames>>
    BY <1>1 DEF UartByte
  <2>3. WaitInv'
    BY <2>2 DEF ParserInv, WaitInv, Waits, FirstPreamble, Preambles, Complete, FrameEnd, FrameSize
  <2> QED
    BY <2>1, <2>2, <2>3, ParserIdle
<1>2. CASE ReceiveData
  BY <1>2, ReadStep
<1>3. CASE NoPreamble
  BY <1>3, JunkStep
<1>4. CASE CutFrame
  BY <1>4, CutStep
<1>5. CASE WaitForMore
  <2>1. /\ Waits(buffer) /\ parsing' = FALSE
        /\ UNCHANGED <<unread, buffer, received, frames>>
    BY <1>5 DEF WaitForMore
  <2>2. unread' \in Seq(Bytes)
    BY <2>1 DEF ParserInv, ParserTypes
  <2>3. WaitInv'
    BY <2>1 DEF WaitInv, Waits, FirstPreamble, Preambles, Complete, FrameEnd, FrameSize
  <2> QED
    BY <2>1, <2>2, <2>3, ParserIdle
<1>6. CASE UNCHANGED parserVars
  <2>1. UNCHANGED <<unread, buffer, parsing, received, frames>>
    BY <1>6 DEF parserVars
  <2>2. unread' \in Seq(Bytes) /\ parsing' \in BOOLEAN
    BY <2>1 DEF ParserInv, ParserTypes
  <2>3. WaitInv'
    BY <2>1 DEF ParserInv, WaitInv, Waits, FirstPreamble, Preambles, Complete, FrameEnd, FrameSize
  <2> QED
    BY <2>1, <2>2, <2>3, ParserIdle
<1> QED
  BY <1>1, <1>2, <1>3, <1>4, <1>5, <1>6 DEF ParserNext

LEMMA ParserInvHolds == ParserSpec => []ParserInv
  BY ParserStart, ParserStep, PTL DEF ParserSpec

(* When the loop has ended no frame of the stream is left to be cut.       *)
LEMMA NoneIsLeft ==
  ASSUME ParserInv, ~parsing, NEW p, FirstPreamble(received, Behind(Len(frames)), p)
  PROVE  ~Complete(received, p)
<1> SUFFICES ASSUME Complete(received, p)
             PROVE  FALSE
  OBVIOUS
<1>1. buffer \in Seq(Bytes) /\ received \in Seq(Bytes)
  BY DEF ParserInv, ParserTypes
<1>2. /\ Gone \in Nat /\ Gone + Len(buffer) = Len(received)
      /\ Shows(buffer, received, Gone)
      /\ Behind(Len(frames)) \in 1..(Gone + 1)
      /\ \A q \in Preambles(received) : q >= Behind(Len(frames)) => q > Gone
  BY <1>1 DEF ParserInv, BufferInv, Shows, Gone
<1> DEFINE r == p - Gone
<1>3. /\ p \in Preambles(received) /\ p >= Behind(Len(frames)) /\ p \in Nat
      /\ p + 4 <= Len(received)
  BY <1>1, <1>2 DEF FirstPreamble, Preambles, Complete, Header
<1>4. r \in Int /\ 1 <= r /\ r + 4 <= Len(buffer) /\ Gone + r = p
  <2>1. p > Gone
    BY <1>2, <1>3
  <2> QED
    BY <1>1, <1>2, <1>3, <2>1
<1> HIDE DEF r
<1>5. r + 1 <= Len(buffer) /\ r + 2 <= Len(buffer) /\ Len(buffer) \in Nat
  BY <1>1, <1>4
<1>6. r \in Preambles(buffer) /\ Complete(buffer, r)
  BY <1>1, <1>2, <1>3, <1>4, <1>5, ShownPreambles, ShownFrames
<1>7. FirstPreamble(buffer, 1, r)
  <2>1. ASSUME NEW q \in Preambles(buffer), q < r
        PROVE  FALSE
    <3>1. q \in Int /\ 1 <= q /\ q + 1 <= Len(buffer)
      BY <1>1 DEF Preambles
    <3>2. Gone + q \in Preambles(received)
      BY <1>1, <1>2, <3>1, ShownPreambles
    <3>3. Gone + q >= Behind(Len(frames)) /\ Gone + q < p
      BY <1>2, <1>4, <2>1, <3>1
    <3> QED
      BY <1>2, <1>3, <3>1, <3>2, <3>3 DEF FirstPreamble
  <2>2. \A q \in Preambles(buffer) : q \in Int
    BY DEF Preambles
  <2> QED
    BY <1>4, <1>6, <2>1, <2>2 DEF FirstPreamble
<1>8. Len(buffer) >= Header
  BY <1>4, <1>5 DEF Header
<1>9. PICK q \in Preambles(buffer) : FirstPreamble(buffer, 1, q) /\ ~Complete(buffer, q)
  BY <1>5, <1>8 DEF ParserInv, WaitInv, Waits, Header
<1> QED
  BY <1>1, <1>6, <1>7, <1>9, OnePreamble

(* However the stream is cut into reads, the frames cut from the buffer    *)
(* are those of the stream read as a whole: for any size of a byte, of a   *)
(* read and of a frame, and any bytes on the line.                         *)
THEOREM DecodedAsWholeHolds == ParserSpec => []DecodedAsWhole
<1>1. ParserInv => DecodedAsWhole
  BY NoneIsLeft DEF ParserInv, FramesInv, DecodedAsWhole
<1> QED
  BY <1>1, ParserInvHolds, PTL

(* The buffer of the parser is bounded, whatever comes on the line.        *)
THEOREM BufferBoundedHolds == ParserSpec => []BufferBounded
<1>1. ParserInv => BufferBounded
  <2> SUFFICES ASSUME ParserInv
               PROVE  BufferBounded
    OBVIOUS
  <2>1. buffer \in Seq(Bytes) /\ Len(buffer) \in Nat
    BY DEF ParserInv, ParserTypes
  <2>2. CASE Len(buffer) <= ReadMax + Header - 1
    BY <2>1, <2>2, Sizes DEF BufferBounded, Header
  <2>3. CASE ~(Len(buffer) <= ReadMax + Header - 1)
    <3>1. PICK p \in Preambles(buffer) :
            /\ FirstPreamble(buffer, 1, p)
            /\ p <= ReadMax + Header - 2
            /\ Len(buffer) <= p + Byte + ReadMax
      BY <2>3 DEF ParserInv, JunkInv
    <3>2. p \in Nat
      BY <2>1 DEF Preambles
    <3>3. CASE parsing
      BY <2>1, <3>1, <3>2, <3>3, Sizes DEF BufferBounded, Header
    <3>4. CASE ~parsing
      <4>1. Len(buffer) >= Header
        BY <2>1, <2>3, Sizes DEF Header
      <4>2. PICK q \in Preambles(buffer) : FirstPreamble(buffer, 1, q) /\ ~Complete(buffer, q)
        BY <2>1, <3>4, <4>1 DEF ParserInv, WaitInv, Waits, Header
      <4>3. ~Complete(buffer, p)
        BY <2>1, <3>1, <4>2, OnePreamble
      <4>4. Len(buffer) <= p + Byte
        <5>1. CASE p + 2 <= Len(buffer)
          <6>1. p \in Nat \ {0}
            BY <2>1 DEF Preambles
          <6>2. FrameEnd(buffer, p) \in (p + 2)..(p + Byte + 1)
            BY <2>1, <5>1, <6>1, FrameEnds
          <6> QED
            BY <2>1, <3>2, <4>3, <6>2, Sizes DEF Complete, Header
        <5>2. CASE ~(p + 2 <= Len(buffer))
          BY <2>1, <3>2, <5>2, Sizes
        <5> QED
          BY <5>1, <5>2
      <4> QED
        BY <2>1, <3>1, <3>2, <3>4, <4>4, Sizes DEF BufferBounded, Header
    <3> QED
      BY <3>3, <3>4
  <2> QED
    BY <2>2, <2>3
<1> QED
  BY <1>1, ParserInvHolds, PTL

(* Damage is forgotten: no intact frame is lost to a preamble that is more *)
(* than a longest frame away.                                              *)
THEOREM IntactFrameAcceptedHolds == ParserSpec => []IntactFrameAccepted
<1>1. ASSUME ParserInv, ~parsing, NEW p \in Preambles(received),
             Complete(received, p), Taken(Frame(received, p)),
             \A q \in Preambles(received) : q >= p \/ q + Byte + 2 <= p
      PROVE  \E k \in DOMAIN frames : frames[k] = [at |-> p, taken |-> TRUE]
  <2>1. /\ received \in Seq(Bytes) /\ frames \in Seq(FrameRecord)
        /\ p \in Nat /\ 1 <= p /\ p + 1 <= Len(received)
        /\ DOMAIN frames = 1..Len(frames) /\ Len(frames) \in Nat
    BY <1>1 DEF ParserInv, ParserTypes, Preambles
  <2> DEFINE Later == {k \in 1..(Len(frames) + 1) : k <= Len(frames) => frames[k].at >= p}
  <2>2. PICK k \in Later : \A j \in Later : ~(<<j, k>> \in OpToRel(<, Nat))
    <3>1. Later \subseteq Nat
      OBVIOUS
    <3>2. Len(frames) + 1 \in Later
      BY <2>1
    <3> HIDE DEF Later
    <3>3. Later # {}
      BY <3>2
    <3> QED
      BY <3>1, <3>3, NatLessThanWellFounded, WFMin
  <2>3. k \in 1..(Len(frames) + 1) /\ (k <= Len(frames) => frames[k].at >= p)
    OBVIOUS
  <2>4. k # 1 => k - 1 \in DOMAIN frames /\ ~(frames[k - 1].at >= p)
    <3> SUFFICES ASSUME k # 1
                 PROVE  k - 1 \in DOMAIN frames /\ ~(frames[k - 1].at >= p)
      OBVIOUS
    <3>1. k - 1 \in 1..Len(frames) /\ k - 1 \in Nat /\ k \in Nat /\ k - 1 < k
      BY <2>1, <2>3
    <3>2. k - 1 \notin Later
      BY <2>2, <3>1 DEF OpToRel
    <3> QED
      BY <2>1, <3>1, <3>2
  <2> HIDE DEF Later
  <2>5. Behind(k - 1) \in Int /\ Behind(k - 1) <= p
    <3>1. CASE k = 1
      BY <2>1, <3>1 DEF Behind
    <3>2. CASE k # 1
      <4> DEFINE q == frames[k - 1].at
      <4>1. q \in Preambles(received) /\ Complete(received, q)
        BY <1>1, <2>4, <3>2 DEF ParserInv, FramesInv, FirstPreamble
      <4>2. q \in Nat /\ 1 <= q /\ q + 4 <= Len(received)
        <5>1. q \in Nat /\ 1 <= q
          BY <4>1, PreamblePlace
        <5> HIDE DEF q
        <5> QED
          BY <2>1, <4>1, <5>1 DEF Complete, Header
      <4>3. q + Byte + 2 <= p
        <5>1. q >= p \/ q + Byte + 2 <= p
          BY <1>1, <4>1
        <5> QED
          BY <2>4, <3>2, <5>1
      <4>4. FrameEnd(received, q) \in (q + 2)..(q + Byte + 1)
        <5> HIDE DEF q
        <5>1. q \in Nat \ {0} /\ q + 2 <= Len(received)
          BY <2>1, <4>2
        <5> QED
          BY <2>1, <5>1, FrameEnds
      <4>5. Behind(k - 1) = FrameEnd(received, q) + 1
        BY <2>3, <3>2 DEF Behind
      <4> HIDE DEF q
      <4> QED
        BY <2>1, <4>2, <4>3, <4>4, <4>5, Sizes
    <3> QED
      BY <3>1, <3>2
  <2>6. CASE k <= Len(frames)
    <3>1. k \in DOMAIN frames
      BY <2>1, <2>3, <2>6
    <3>2. /\ FirstPreamble(received, Behind(k - 1), frames[k].at)
          /\ frames[k].taken <=> Taken(Frame(received, frames[k].at))
      BY <1>1, <3>1 DEF ParserInv, FramesInv
    <3>3. frames[k] \in FrameRecord
      BY <2>1, <3>1
    <3>4. frames[k].at = p
      BY <1>1, <2>1, <2>3, <2>5, <2>6, <3>2, <3>3 DEF FirstPreamble, FrameRecord
    <3>5. frames[k] = [at |-> p, taken |-> TRUE]
      BY <1>1, <3>2, <3>3, <3>4 DEF FrameRecord
    <3> QED
      BY <3>1, <3>5
  <2>7. CASE k = Len(frames) + 1
    <3>1. k - 1 = Len(frames)
      BY <2>1, <2>7
    <3> DEFINE Next1 == {q \in Preambles(received) : q >= Behind(k - 1)}
    <3>2. PICK q \in Next1 : \A j \in Next1 : ~(<<j, q>> \in OpToRel(<, Nat))
      <4>1. Next1 \subseteq Nat /\ p \in Next1
        BY <2>1, <2>5 DEF Preambles
      <4> QED
        BY <4>1, NatLessThanWellFounded, WFMin
    <3>3. FirstPreamble(received, Behind(k - 1), q) /\ q \in Nat /\ q <= p
      <4>1. ASSUME NEW j \in Preambles(received), j >= Behind(k - 1)
            PROVE  q <= j
        <5>1. j \in Nat /\ q \in Nat /\ j \in Next1
          BY <4>1 DEF Preambles
        <5>2. ~(j < q)
          BY <3>2, <5>1 DEF OpToRel
        <5> QED
          BY <5>1, <5>2
      <4>2. q \in Preambles(received) /\ q \in Nat /\ q >= Behind(k - 1)
        BY DEF Preambles
      <4>3. \A j \in Preambles(received) : j \in Int
        BY DEF Preambles
      <4> QED
        BY <2>1, <2>5, <4>1, <4>2, <4>3 DEF FirstPreamble
    <3>4. ~Complete(received, q)
      BY <1>1, <3>1, <3>3, NoneIsLeft
    <3>5. q # p
      BY <1>1, <3>4
    <3>6. q + Byte + 2 <= p
      BY <1>1, <2>1, <3>3, <3>5 DEF FirstPreamble
    <3>7. q \in Nat \ {0} /\ q + 2 <= Len(received)
      BY <2>1, <3>3, <3>6, Sizes DEF FirstPreamble, Preambles
    <3>8. FrameEnd(received, q) \in (q + 2)..(q + Byte + 1)
      BY <2>1, <3>7, FrameEnds
    <3>9. Complete(received, q)
      BY <2>1, <3>6, <3>7, <3>8, Sizes DEF Complete, Header
    <3> QED
      BY <3>4, <3>9
  <2>8. k <= Len(frames) \/ k = Len(frames) + 1
    BY <2>1, <2>3
  <2> QED
    BY <2>6, <2>7, <2>8
<1>2. ParserInv => IntactFrameAccepted
  BY <1>1 DEF IntactFrameAccepted
<1> QED
  BY <1>2, ParserInvHolds, PTL
=============================================================================
