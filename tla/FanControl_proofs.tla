-------------------------- MODULE FanControl_proofs --------------------------
(***************************************************************************)
(* Proofs about FanControl for every duration, every speed of the thread's *)
(* loop and every set of readings.                                         *)
(***************************************************************************)
EXTENDS FanControl, TLAPS

LEMMA PatienceNat == Patience \in Nat
  BY FanConstants, SMT DEF FanConstants, Patience

\* AutoSend keeps the loop counter of the NORMAL mode within two seconds.
LEMMA SinceSendBound ==
  ASSUME sinceSend \in NotStamped..(2 * LoopsPerSecond), ~AutoSend
  PROVE  sinceSend + 1 \in NotStamped..(2 * LoopsPerSecond)
<1> DEFINE n == sinceSend + 1
           k == LoopsPerSecond
<1>1. n \in Nat /\ k \in Nat /\ k > 0
  BY FanConstants DEF FanConstants, NotStamped
<1>2. n \div k <= 1
  BY <1>1, SMT DEF AutoSend
<1>3. n < 2 * k
  BY <1>1, <1>2, SMT
<1>4. QED
  BY <1>1, <1>3 DEF NotStamped

LEMMA CountedRange ==
  ASSUME TypeOK
  PROVE  /\ Counted \in Nat
         /\ Counted <= apOverheatCnt + 1
         /\ ap # "hot" => Counted <= apOverheatCnt
         /\ bTurnOnFan => Counted = apOverheatCnt
  BY FanConstants, SMT DEF FanConstants, TypeOK, Counted

(* Why the count is earned: it is zero while the fan runs, and while it is *)
(* off every step up is a call that saw the board hot.                     *)
FanInv ==
  /\ TypeOK
  /\ bTurnOnFan => apOverheatCnt = 0
  /\ apOverheatCnt <= hotCalls

LEMMA FanInvInit == Init => FanInv
<1> SUFFICES ASSUME Init PROVE FanInv
  OBVIOUS
<1>1. hotLoops \in 0..(Patience + 1)
  BY PatienceNat DEF Init
<1>2. apOverheatCnt \in 0..(Duration - 1) /\ hotCalls \in 0..Duration
      /\ sinceSend \in NotStamped..(2 * LoopsPerSecond) /\ apOverheatCnt <= hotCalls
  BY FanConstants, SMT DEF Init, FanConstants, NotStamped
<1>3. {ap, battery} \subseteq Temperatures
      /\ {bCharging, mapping, bTurnOnFan} \subseteq BOOLEAN
      /\ told = "off" /\ ~bTurnOnFan /\ communicationMode = "NORMAL"
  BY DEF Init
<1>4. QED
  BY <1>1, <1>2, <1>3, Zenon DEF FanInv, TypeOK

\* A call of resSocTemperatureNotice.
LEMMA NoticeStep ==
  ASSUME FanInv, mapping' \in BOOLEAN, ResSocTemperatureNotice
  PROVE  /\ bTurnOnFan' \in BOOLEAN
         /\ apOverheatCnt' \in 0..(Duration - 1)
         /\ hotCalls' \in 0..Duration
         /\ told' \in {"off", "auto_mapping", "battery_overheat", "ap_overheat", "none"}
         /\ bTurnOnFan' => apOverheatCnt' = 0
         /\ apOverheatCnt' <= hotCalls'
<1>1. PICK b1, b2, b3 \in {battery, battery'} :
        /\ bTurnOnFan' = FanAfter(b1, b2)
        /\ told' = IF FanAfter(b1, b2) = bTurnOnFan THEN told
                   ELSE IF FanAfter(b1, b2) THEN Level(b3) ELSE "off"
        /\ apOverheatCnt' = CountAfter(FanAfter(b1, b2))
        /\ hotCalls' = IF FanAfter(b1, b2) THEN 0
                       ELSE IF bTurnOnFan \/ ap # "hot" THEN hotCalls
                       ELSE Capped(hotCalls + 1, Duration)
  BY Zenon DEF ResSocTemperatureNotice
<1> DEFINE on == FanAfter(b1, b2)
<1>2. on \in BOOLEAN
  BY DEF FanAfter, TypeOK, FanInv
<1>3. told' \in {"off", "auto_mapping", "battery_overheat", "ap_overheat", "none"}
  BY <1>1, Zenon DEF Level, FanInv, TypeOK
<1>4. CASE on
  <2>1. apOverheatCnt' = 0
    <3>1. CASE bTurnOnFan
      <4>1. Counted = 0
        BY <3>1, CountedRange, SMT DEF FanInv
      <4>2. QED
        BY <1>1, <4>1 DEF CountAfter
    <3>2. CASE ~bTurnOnFan
      BY <1>1, <1>4, <3>2 DEF CountAfter
    <3>3. QED
      BY <3>1, <3>2
  <2>2. hotCalls' = 0
    BY <1>1, <1>4
  <2>3. QED
    BY <1>1, <1>2, <1>3, <2>1, <2>2, FanConstants DEF FanConstants
<1>5. CASE ~on
  <2>1. apOverheatCnt' \in {0, Counted}
    BY <1>1, <1>5 DEF CountAfter
  <2>2. bTurnOnFan => Counted = 0
    BY CountedRange, SMT DEF FanInv
  <2>3. ~bTurnOnFan => Counted < Duration
    <3>1. ~bTurnOnFan => ~ApHeat
      BY <1>5 DEF FanAfter, TurnsOn, TurnsOff
    <3>2. QED
      BY <3>1, CountedRange, FanConstants, SMT DEF ApHeat, FanInv, FanConstants
  <2>4. apOverheatCnt' \in 0..(Duration - 1)
    BY <2>1, <2>2, <2>3, CountedRange, FanConstants, SMT DEF FanConstants, FanInv
  <2>5. hotCalls' \in 0..Duration
    BY <1>1, <1>5, FanConstants, SMT DEF FanConstants, FanInv, TypeOK, Capped
  <2>6. apOverheatCnt' <= hotCalls'
    <3>1. CASE bTurnOnFan
      BY <1>1, <1>5, <2>1, <2>2, <2>5, <3>1, FanConstants, SMT DEF FanConstants
    <3>2. CASE ~bTurnOnFan /\ ap # "hot"
      <4>1. Counted <= apOverheatCnt /\ hotCalls' = hotCalls
        BY <1>1, <1>5, <3>2, CountedRange DEF FanInv
      <4>2. QED
        BY <2>1, <4>1, CountedRange, FanConstants, SMT DEF FanInv, TypeOK, FanConstants
    <3>3. CASE ~bTurnOnFan /\ ap = "hot"
      <4>1. hotCalls' = Capped(hotCalls + 1, Duration)
        BY <1>1, <1>5, <3>3
      <4>2. Counted <= hotCalls + 1
        BY CountedRange, FanConstants, SMT DEF FanInv, TypeOK, FanConstants
      <4>3. QED
        BY <2>1, <2>3, <3>3, <4>1, <4>2, CountedRange, FanConstants, SMT
           DEF FanInv, TypeOK, FanConstants, Capped
    <3>4. QED
      BY <3>1, <3>2, <3>3
  <2>7. QED
    BY <1>1, <1>2, <1>3, <1>5, <2>4, <2>5, <2>6
<1>6. QED
  BY <1>2, <1>4, <1>5

LEMMA FanInvStep ==
  ASSUME FanInv, [Next]_vars
  PROVE  FanInv'
<1>1. CASE World
  <2>1. {ap, battery}' \subseteq Temperatures /\ bCharging' \in BOOLEAN
    BY <1>1 DEF World, BatteryMessage, ApTemperature, DockingMessage, FanInv, TypeOK
  <2>2. hotLoops' \in 0..(Patience + 1)
    BY <1>1, PatienceNat DEF World, FanInv, TypeOK
  <2>3. UNCHANGED <<communicationMode, mapping, fan, sinceSend>>
    BY <1>1 DEF World
  <2>4. QED
    BY <2>1, <2>2, <2>3, Zenon DEF FanInv, TypeOK, fan
<1>2. CASE NormalLoop /\ UNCHANGED <<ap, bCharging>>
  <2>1. /\ {ap, battery}' \subseteq Temperatures
        /\ communicationMode' = "NORMAL" /\ mapping' \in BOOLEAN
    BY <1>2 DEF NormalLoop, FanInv, TypeOK
  <2>2. hotLoops' \in 0..(Patience + 1)
    BY <1>2, PatienceNat, SMT DEF NormalLoop, FanInv, TypeOK, Capped
  <2>3. CASE AutoSend
    <3>1. ResSocTemperatureNotice /\ sinceSend' = 0
      BY <1>2, <2>3 DEF NormalLoop
    <3>2. sinceSend' \in NotStamped..(2 * LoopsPerSecond)
      BY <3>1, FanConstants DEF FanConstants, NotStamped
    <3>3. QED
      BY <1>2, <2>1, <2>2, <3>1, <3>2, NoticeStep, Zenon DEF FanInv, TypeOK
  <2>4. CASE ~AutoSend
    <3>1. UNCHANGED fan
      BY <1>2, <2>4 DEF NormalLoop
    <3>2. sinceSend' \in NotStamped..(2 * LoopsPerSecond)
      BY <1>2, <2>4, SinceSendBound DEF NormalLoop, FanInv, TypeOK
    <3>3. QED
      BY <1>2, <2>1, <2>2, <3>1, <3>2, Zenon DEF FanInv, TypeOK, fan
  <2>5. QED
    BY <2>3, <2>4
<1>3. CASE JigLoop /\ UNCHANGED <<ap, bCharging>>
  <2>1. communicationMode' = "JIG" /\ UNCHANGED <<ap, bCharging, mapping, battery, fan>>
    BY <1>3 DEF JigLoop
  <2>2. hotLoops' \in 0..(Patience + 1)
    BY <1>3, PatienceNat DEF JigLoop
  <2>3. sinceSend' \in NotStamped..(2 * LoopsPerSecond)
    BY <1>3, FanConstants, SMT DEF JigLoop, FanInv, TypeOK, FanConstants, NotStamped, Capped
  <2>4. QED
    BY <2>1, <2>2, <2>3, Zenon DEF FanInv, TypeOK, fan
<1>4. CASE UNCHANGED vars
  BY <1>4 DEF vars, fan, FanInv, TypeOK, Patience
<1>5. QED
  BY <1>1, <1>2, <1>3, <1>4 DEF Next, Loop

\* The type invariant: above all, the count never passes the duration, so the
\* day's cap on it is never reached.
THEOREM FanTypeCorrect == Spec => []TypeOK
<1>1. FanInv => TypeOK
  BY DEF FanInv
<1>2. QED
  BY <1>1, FanInvInit, FanInvStep, PTL DEF Spec

(* With no map being made and the battery not hot, the fan turns on only   *)
(* after Duration calls that saw a hot board, whatever the duration.       *)
THEOREM OverheatEarnedHolds == Spec => OverheatEarned
<1> DEFINE ByAp == ~bTurnOnFan /\ bTurnOnFan' /\ ~mapping' /\ "hot" \notin {battery, battery'}
           Earned == ByAp => hotCalls + 1 >= Duration
<1>1. ASSUME FanInv, [Next]_vars PROVE [Earned]_vars
  <2> SUFFICES ASSUME ByAp, Next PROVE hotCalls + 1 >= Duration
    BY <1>1
  <2>1. ResSocTemperatureNotice
    BY DEF Next, World, Loop, NormalLoop, JigLoop, fan
  <2>2. PICK b1, b2 \in {battery, battery'} : bTurnOnFan' = FanAfter(b1, b2)
    BY <2>1 DEF ResSocTemperatureNotice
  <2>3. ApHeat
    BY <2>2 DEF FanAfter, TurnsOn, BatteryHeat
  <2>4. QED
    BY <1>1, <2>3, CountedRange, FanConstants, SMT
       DEF ApHeat, FanInv, TypeOK, FanConstants
<1>2. QED
  BY <1>1, FanInvInit, FanInvStep, PTL DEF Spec, OverheatEarned
=============================================================================
