----------------------------- MODULE FanControl -----------------------------
(***************************************************************************)
(* The decision when the purifier's fan cools the robot: resSocTemperature-*)
(* Notice of udp_communication.cpp, called by the UDP thread's loop.       *)
(*                                                                         *)
(* Temperatures are abstracted to the thresholds they are compared with:   *)
(* the seven AP zones are "hot" (some zone at 73 or more), "cool" (all     *)
(* below 70) or "warm"; the two battery sensors likewise with 43 and 40.   *)
(* Time is counted in loops of the thread (100 ms in the code).  The call  *)
(* is made in the NORMAL communication mode only; the AMR and the AP jig   *)
(* mode behave alike here and are one mode, JIG.                           *)
(***************************************************************************)
EXTENDS Integers

CONSTANTS
  Duration,        \* fan_control_ap_overheat_duration
  LoopsPerSecond,  \* loops of udpCommunicationThread in a second
  DayCap,          \* apOverheatCnt above which it starts again
  SamePower,       \* the battery and AP power levels are equal (as configured)
  Temperatures     \* readings of this instance

ASSUME FanConstants ==
  /\ Duration \in Nat \ {0} /\ LoopsPerSecond \in Nat \ {0}
  /\ DayCap \in Nat /\ DayCap > Duration
  /\ SamePower \in BOOLEAN
  /\ Temperatures \subseteq {"cool", "warm", "hot"}

VARIABLES
  communicationMode,
  ap,             \* the seven thermal zones
  battery,        \* socData.battInfo temperatures
  bCharging,      \* socData.dockingInfo.status & 0x70
  mapping,        \* robotStatus is AUTO_MAPPING
  bTurnOnFan,     \* equal to prev_bTurnOnFan between two calls
  apOverheatCnt,
  told,           \* the last notification: "off" or the power level sent with "on"
  sinceSend,      \* loops since auto_send_time_, up to two seconds
  \* History, read by properties only.
  hotCalls,       \* calls that saw a hot AP since the fan was last on, up to Duration
  hotLoops        \* NORMAL loops for which the AP has been hot without a break

fan == <<bTurnOnFan, apOverheatCnt, told, hotCalls>>
vars == <<communicationMode, ap, battery, bCharging, mapping, fan, sinceSend, hotLoops>>

NotStamped == -1   \* auto_send_time_ has not been set yet

\* Loops in the duration as configured, with one second to notice it.
Patience == (Duration + 1) * LoopsPerSecond
Capped(n, cap) == IF n < cap THEN n ELSE cap

Init ==
  /\ communicationMode = "NORMAL"
  /\ ap \in Temperatures /\ battery \in Temperatures
  /\ bCharging \in BOOLEAN /\ mapping \in BOOLEAN
  /\ bTurnOnFan = FALSE
  /\ apOverheatCnt = 0
  /\ told = "off"
  /\ sinceSend = NotStamped
  /\ hotCalls = 0 /\ hotLoops = 0
-----------------------------------------------------------------------------
(* What the executor thread and the world change between two loops.        *)
BatteryMessage(t) == battery' = t /\ UNCHANGED <<ap, bCharging>>
DockingMessage(on) == bCharging' = on /\ UNCHANGED <<ap, battery>>
ApTemperature(t) == ap' = t /\ UNCHANGED <<battery, bCharging>>

World ==
  /\ \/ \E t \in Temperatures : BatteryMessage(t) \/ ApTemperature(t)
     \/ \E on \in BOOLEAN : DockingMessage(on)
  /\ hotLoops' = IF ap' = "hot" THEN hotLoops ELSE 0
  /\ UNCHANGED <<communicationMode, mapping, fan, sinceSend>>
-----------------------------------------------------------------------------
\* Counted only while the fan is off; up when hot, down when not.
Counted ==
  IF bTurnOnFan THEN apOverheatCnt
  ELSE IF ap = "hot" THEN apOverheatCnt + 1
  ELSE IF apOverheatCnt > 0 THEN apOverheatCnt - 1 ELSE 0

\* A hot battery counts while it charges; away from the charger it does not.
BatteryHeat(b) == bCharging /\ b = "hot"
ApHeat == Counted >= Duration

TurnsOn(b) == bTurnOnFan \/ BatteryHeat(b) \/ ApHeat

TurnsOffByAp(b) == bTurnOnFan /\ ap = "cool"   \* mutant: the battery is forgotten

TurnsOffSwapped(b) ==   \* mutant: cooling is looked at while the fan is off
  (~bCharging \/ b = "cool") /\ ~bTurnOnFan /\ ap = "cool"

\* The zones are looked at for cooling only if the fan was on before the call.
TurnsOff(b) ==
  /\ ~bCharging \/ b = "cool"
  /\ bTurnOnFan /\ ap = "cool"

\* The battery is read for turning on, for turning off and for the level.
FanAfter(b1, b2) == (TurnsOn(b1) /\ ~TurnsOff(b2)) \/ mapping'

Level(b) ==
  IF mapping' THEN "auto_mapping"
  ELSE IF SamePower \/ b = "hot" THEN "battery_overheat"
  ELSE IF ApHeat THEN "ap_overheat" ELSE "none"

CountKept(on) ==   \* mutant: the count survives turning on
  IF Counted > DayCap THEN 0 ELSE Counted

CountAfter(on) ==
  IF (on /\ ~bTurnOnFan) \/ Counted > DayCap THEN 0 ELSE Counted

\* resSocTemperatureNotice; a battery message may come between its reads.
ResSocTemperatureNotice ==
  \E b1, b2, b3 \in {battery, battery'} :
    LET on == FanAfter(b1, b2)
    IN /\ b1 = battery' => b2 = battery'
       /\ b2 = battery' => b3 = battery'
       /\ bTurnOnFan' = on
       /\ told' = IF on = bTurnOnFan THEN told ELSE IF on THEN Level(b3) ELSE "off"
       /\ apOverheatCnt' = CountAfter(on)
       /\ hotCalls' = IF on THEN 0
                      ELSE IF bTurnOnFan \/ ap # "hot" THEN hotCalls
                      ELSE Capped(hotCalls + 1, Duration)

\* getSteadyClockRunningSeconds truncates to whole seconds.
AutoSend == (sinceSend + 1) \div LoopsPerSecond > 1

\* autoPublisher: the state of the robot is taken over, then the call is paced.
NormalLoop ==
  /\ communicationMode' = "NORMAL"
  /\ mapping' \in BOOLEAN
  /\ hotLoops' = IF ap = "hot" THEN Capped(hotLoops + 1, Patience + 1) ELSE 0
  /\ IF AutoSend
     THEN sinceSend' = 0 /\ battery' \in Temperatures /\ ResSocTemperatureNotice
     ELSE sinceSend' = sinceSend + 1 /\ UNCHANGED <<battery, fan>>

\* Nothing of the above is called in a jig mode, and the time stamp ages.
JigLoop ==
  /\ communicationMode' = "JIG"
  /\ hotLoops' = 0
  /\ sinceSend' = IF sinceSend = NotStamped THEN NotStamped
                  ELSE Capped(sinceSend + 1, 2 * LoopsPerSecond)
  /\ UNCHANGED <<mapping, battery, fan>>

\* udp_callback: checkUdpCommunicationMode decides first.
Loop == (NormalLoop \/ JigLoop) /\ UNCHANGED <<ap, bCharging>>

Next == World \/ Loop
Spec == Init /\ [][Next]_vars

\* The thread's loop goes on.
FairSpec == Spec /\ WF_vars(Loop)
-----------------------------------------------------------------------------
\* Every variable holds a value of its type; the count stays below the day's
\* worth of overheating, so that reset never happens.
TypeOK ==
  /\ communicationMode \in {"NORMAL", "JIG"}
  /\ {ap, battery} \subseteq Temperatures
  /\ {bCharging, mapping, bTurnOnFan} \subseteq BOOLEAN
  /\ apOverheatCnt \in 0..(Duration - 1)
  /\ told \in {"off", "auto_mapping", "battery_overheat", "ap_overheat", "none"}
  /\ sinceSend \in NotStamped..(2 * LoopsPerSecond)
  /\ hotCalls \in 0..Duration /\ hotLoops \in 0..(Patience + 1)

(* With no map being made and the battery not hot, the fan turns on only   *)
(* after Duration calls that saw a hot board since it last ran: the count  *)
(* starts anew each time it does, so it never flutters at the threshold.   *)
OverheatEarned ==
  [][~bTurnOnFan /\ bTurnOnFan' /\ ~mapping' /\ "hot" \notin {battery, battery'}
       => hotCalls + 1 >= Duration]_vars

(* In the NORMAL mode heat is never left alone: if the board stays hot, or *)
(* the battery does while it charges, the fan runs in the end and keeps    *)
(* running.  In a jig mode nobody looks, and a battery that is hot away    *)
(* from the charger is no reason for the code, so neither is promised.     *)
HeatIsCooled ==
  ( /\ <>[](communicationMode = "NORMAL")
    /\ <>[](ap = "hot") \/ <>[](bCharging /\ battery = "hot") )
    => <>[]bTurnOnFan

(* In the NORMAL mode, once all is cool and no map is being made, the fan  *)
(* stops for good.  In a jig mode it stays as it was.                      *)
CoolFanStops ==
  <>[](communicationMode = "NORMAL" /\ {ap, battery} = {"cool"} /\ ~mapping)
    => <>[]~bTurnOnFan

(* "AP board at 73 degrees or more for 30 seconds" (comment above resSoc-  *)
(* TemperatureNotice): by then, and a second later, the fan is on.         *)
HotForDuration == hotLoops > Patience => bTurnOnFan
=============================================================================
