-------------------------- MODULE RunRecordProofs --------------------------
(***************************************************************************)
(* RunRecord's blocks are sound for every length of the minute and of the  *)
(* hour, any number of blocks in the partition and any number of lost or   *)
(* doubled seconds and settings of the clock, wherever the drive begins    *)
(* and ends.                                                               *)
(***************************************************************************)
EXTENDS RunRecord, TLAPS

IInv == TypeOK /\ OpenSound /\ BlockSound

-----------------------------------------------------------------------------
(* Clock and slots.                                                        *)

\* The second behind a time of the calendar is one of the calendar.
LEMMA AfterType == \A t \in Time : After(t) \in Time
<1> SUFFICES ASSUME NEW m \in 0 .. Minutes - 1, NEW s \in Index
             PROVE  After([m |-> m, s |-> s]) \in Time
  BY DEF Time
<1>1. NextMinute(m) \in 0 .. Minutes - 1
  BY ConstantsAssumption DEF NextMinute
<1> QED
  BY <1>1, ConstantsAssumption DEF After, Time, Index

\* The next speed due has a slot.
LEMMA DueType == TypeOK => Due \in Index
  BY ConstantsAssumption DEF TypeOK, Due, Slot, Time, Index

\* What is skipped are slots.
LEMMA SkippedType == \A d, e \in Index : Skipped(d, e) \subseteq Index
  BY ConstantsAssumption DEF Skipped, Index

\* The initial state satisfies the inductive invariant.
LEMMA InitIInv == Init => IInv
<1> SUFFICES ASSUME Init PROVE IInv
  OBVIOUS
<1> USE ConstantsAssumption DEF Init, NoBlock, Stale
<1>1. TypeOK
  <2>1. speed \in [Index -> Sample]
    BY DEF Sample
  <2>2. flash \in [0 .. Slots - 1 -> Block]
    BY DEF Block
  <2>3. upsets \in 0 .. MaxUpset /\ clk \in -1 .. Minutes - 1 /\ CurPoint \in 0 .. Slots - 1
    OBVIOUS
  <2>4. driving \in BOOLEAN /\ gap \in BOOLEAN
    BY Zenon
  <2> HIDE DEF Stale, NoBlock
  <2> QED
    BY <2>1, <2>2, <2>3, <2>4 DEF TypeOK
<1>2. OpenSound
  BY DEF OpenSound, Open
<1>3. BlockSound
  BY DEF BlockSound
<1> QED
  BY <1>1, <1>2, <1>3 DEF IInv

-----------------------------------------------------------------------------
(* Types.                                                                  *)

\* A block that is written is one of the type of blocks.
LEMMA WriteType ==
  ASSUME TypeOK, NEW sp, WriteRecordData2Flash(sp)
  PROVE  flash' \in [0 .. Slots - 1 -> Block] /\ CurPoint' \in 0 .. Slots - 1
<1>1. [clk |-> clk, wrong |-> Wrong(sp)] \in Block
  BY DEF TypeOK, Block, Wrong, Foreign
<1> QED
  BY <1>1 DEF TypeOK, WriteRecordData2Flash

\* BaseDataHandler keeps the state in its type.
LEMMA BaseType == ASSUME TypeOK, BaseDataHandler PROVE TypeOK'
<1> DEFINE Control == /\ pc' = "location" /\ TimeChange' \subseteq TimeChange
                      /\ UNCHANGED <<rtc, timeflag, curTime, driving>>
           Data == /\ clk' \in -1 .. Minutes - 1 /\ speed' \in [Index -> Sample]
                   /\ InRecordCycle' \subseteq {"BASE", "LOCATION"}
                   /\ flash' \in [0 .. Slots - 1 -> Block] /\ CurPoint' \in 0 .. Slots - 1
                   /\ missed' \subseteq Index /\ gap' \in BOOLEAN
<1>1. Control
  BY DEF BaseDataHandler
<1>2. Data
  <2>0. Stale \in [Index -> Sample]
    BY DEF Stale, Sample
  <2>1. CASE BaseMinute
    <3>1. flash' \in [0 .. Slots - 1 -> Block] /\ CurPoint' \in 0 .. Slots - 1
      <4>1. CASE Open
        BY <2>1, <4>1, WriteType DEF BaseMinute
      <4>2. CASE ~Open
        BY <2>1, <4>2 DEF BaseMinute, TypeOK, table
      <4> QED
        BY <4>1, <4>2
    <3>2. clk' \in -1 .. Minutes - 1 /\ speed' \in [Index -> Sample]
      BY <2>0, <2>1, ConstantsAssumption DEF BaseMinute, TypeOK, Time
    <3>3. missed' \subseteq Index /\ gap' \in BOOLEAN
      BY <2>1 DEF BaseMinute
    <3> QED
      BY <2>1, <3>1, <3>2, <3>3 DEF BaseMinute, TypeOK
  <2>2. CASE BaseSecond
    <3>1. (IF Open THEN curTime ELSE Old) \in Sample
      BY DEF TypeOK, Sample
    <3> QED
      BY <2>2, <3>1 DEF BaseSecond, TypeOK, table
  <2>3. CASE RestMinute
    BY <2>0, <2>3, WriteType DEF RestMinute, TypeOK
  <2>4. CASE RestSecond
    BY <2>4 DEF RestSecond, TypeOK, table, Sample
  <2>5. CASE UNCHANGED <<TimeChange, InRecordCycle, basedata, table, note>>
    BY <2>5 DEF TypeOK, table, basedata, note
  <2> QED
    BY <2>1, <2>2, <2>3, <2>4, <2>5 DEF BaseDataHandler
<1> QED
  BY <1>1, <1>2 DEF TypeOK, rtc

\* Every step keeps the state in its type.
LEMMA TypeStep == TypeOK /\ [Next]_vars => TypeOK'
<1> SUFFICES ASSUME TypeOK, [Next]_vars PROVE TypeOK'
  OBVIOUS
<1> USE DEF TypeOK, basedata, table, note
<1>1. CASE Tick
  <2>1. clock' \in Time
    BY <1>1, AfterType DEF Tick
  <2>4. upsets' \in Nat
    BY <1>1, SMT DEF Tick
  <2>2. upsets' \in 0 .. MaxUpset /\ Time1sCnt' \in Index
    BY <1>1, <2>4, ConstantsAssumption DEF Tick, Count, Index
  <2>3. timeflag' \subseteq {"t1s", "t1min"}
    BY <1>1 DEF Tick
  <2> QED
    BY <1>1, <2>1, <2>2, <2>3 DEF Tick
<1>2. CASE GetSpeedandTime
  <2>1. TimeChange' \subseteq {"SECOND", "MINUTE"} /\ curTime' \in Time /\ gap' \in BOOLEAN
    BY <1>2 DEF GetSpeedandTime
  <2>2. Due \in Index /\ Due' \in Index
    BY <2>1, DueType, ConstantsAssumption DEF Due, Slot, Time, Index
  <2>3. missed' \subseteq Index
    BY <1>2, <2>2, SkippedType DEF GetSpeedandTime
  <2> QED
    BY <1>2, <2>1, <2>3 DEF GetSpeedandTime, rtc
<1>3. CASE ValueStatusHandler
  <2>1. missed' \subseteq Index
    BY <1>3, DueType DEF ValueStatusHandler
  <2> QED
    BY <1>3, <2>1 DEF ValueStatusHandler, rtc
<1>4. CASE BaseDataHandler
  BY <1>4, BaseType
<1>5. CASE LocationHandler
  <2>1. TimeChange' \subseteq TimeChange /\ InRecordCycle' \subseteq {"BASE", "LOCATION"}
    BY <1>5 DEF LocationHandler
  <2> QED
    BY <1>5, <2>1 DEF LocationHandler, rtc
<1>6. CASE SetCurrentDateTime
  <2>1. upsets' \in 0 .. MaxUpset
    BY <1>6, ConstantsAssumption DEF SetCurrentDateTime
  <2>2. clock' \in Time /\ curTime' \in Time /\ gap' \in BOOLEAN
    BY <1>6 DEF SetCurrentDateTime
  <2>3. Due \in Index /\ Due' \in Index
    BY <2>2, DueType, ConstantsAssumption DEF Due, Slot, Time, Index
  <2>4. missed' \subseteq Index
    BY <1>6, <2>3, SkippedType DEF SetCurrentDateTime
  <2> QED
    BY <1>6, <2>1, <2>2, <2>4 DEF SetCurrentDateTime
<1>7. CASE UNCHANGED vars
  BY <1>7 DEF vars, rtc
<1> QED
  BY <1>1, <1>2, <1>3, <1>4, <1>5, <1>6, <1>7 DEF Next, Thread

-----------------------------------------------------------------------------
(* The open block.                                                         *)

\* The slots from d up to e that are not before d.
LEMMA Between == \A d, e, i \in Nat : i < e /\ ~(i < d) => i \in d .. e - 1
  OBVIOUS

\* When the clock moves on, or is set, the slots that are left out are missed:
\* the slots before the next one due stay sound, at rest with it.
LEMMA MoveSound ==
  ASSUME TypeOK, OpenSound, Open, Due \in Index, Due' \in Index,
         UNCHANGED <<clk, speed, driving>>, gap => gap',
         missed' = missed \cup Skipped(Due, Due')
  PROVE  SlotsSound'
<1> SUFFICES ASSUME NEW i \in Foreign(speed)', i < Due' \/ (~driving /\ i = Due')
             PROVE  i \in missed'
  BY DEF SlotsSound
<1>1. i \in Index /\ i \in Foreign(speed)
  BY DEF Foreign, Right, Stamp
<1>2. i \in Nat /\ Due \in Nat /\ Due' \in Nat
  BY <1>1, ConstantsAssumption DEF Index
<1>3. CASE i < Due \/ (~driving /\ i = Due)
  BY <1>1, <1>3 DEF OpenSound, SlotsSound
<1>4. CASE ~(i < Due \/ (~driving /\ i = Due))
  <2>1. CASE driving
    <3>0. i < Due' /\ ~(i < Due)
      BY <1>4, <2>1, Zenon
    <3>1. i \in Due .. Due' - 1
      BY ONLY <1>2, <3>0, Between, Zenon
    <3>2. Skipped(Due, Due') = Due .. Due' - 1
      BY <2>1 DEF Skipped
    <3> QED
      BY <3>1, <3>2
  <2>2. CASE ~driving
    <3>0. (i < Due' \/ i = Due') /\ ~(i < Due) /\ i # Due
      BY <1>4, <2>2, Zenon
    <3>1. i \in Due + 1 .. Due'
      BY ONLY <1>2, <3>0, SMT
    <3>2. Skipped(Due, Due') = Due + 1 .. Due'
      BY <2>2 DEF Skipped
    <3> QED
      BY <3>1, <3>2
  <2> QED
    BY <2>1, <2>2
<1> QED
  BY <1>3, <1>4

\* What BaseDataHandler stores for the second it handles: the next slot is
\* sound afterwards, and the ones before it stay so.
LEMMA SecondSound ==
  ASSUME TypeOK, OpenSound, BaseDataHandler, BaseSecond \/ RestSecond
  PROVE  OpenSound'
<1> SUFFICES ASSUME Open' PROVE (SecondHandled /\ InItsMinute /\ SlotsSound)'
  BY DEF OpenSound
<1>1. /\ Open /\ curTime.s \in Index \ {0} /\ curTime.s - 1 \in Index
      /\ UNCHANGED <<curTime, driving, clk, gap>> /\ pc = "base" /\ pc' = "location"
      /\ "SECOND" \in TimeChange /\ TimeChange' = TimeChange \ {"SECOND"}
  BY ConstantsAssumption
  DEF Open, BaseDataHandler, BaseSecond, RestSecond, BaseMinute, RestMinute, note, TypeOK, Time, Index
<1>2. Due = curTime.s - 1 /\ Due' = curTime.s
  BY <1>1 DEF Due, Slot
<1>3. ~gap => clk = curTime.m
  BY <1>1, ConstantsAssumption DEF OpenSound, InItsMinute, Index
<1>4. ASSUME NEW i \in Index, ~Right(speed[i], i), i < Due \/ (~driving /\ i = Due)
      PROVE  i \in missed
  BY <1>1, <1>4 DEF OpenSound, SlotsSound, Foreign
<1>5. ASSUME NEW i \in Index, ~Right(speed'[i], i), i < Due' \/ (~driving /\ i = Due')
      PROVE  i \in missed'
  <2>1. CASE BaseSecond
    <3>1. /\ driving /\ missed' = missed \ {Due}
          /\ speed' = [speed EXCEPT ![Due] = curTime]
      BY <2>1, <1>1, <1>2 DEF BaseSecond, Slot
    <3>2. CASE i = Due
      <4>1. speed'[i] = curTime
        BY <3>1, <3>2 DEF TypeOK
      <4>2. Stamp(i) = [m |-> clk, s |-> curTime.s]
        BY <3>2, <1>1, <1>2, ConstantsAssumption DEF Stamp, Index
      <4>3. curTime = [m |-> curTime.m, s |-> curTime.s]
        BY DEF TypeOK, Time
      <4> QED
        BY <4>1, <4>2, <4>3, <1>3, <1>5 DEF Right
    <3>3. CASE i # Due
      <4>1. speed'[i] = speed[i] /\ i < Due
        BY <3>1, <3>3, <1>1, <1>2, <1>5 DEF TypeOK, Index
      <4> QED
        BY <4>1, <3>1, <3>3, <1>4, <1>5
    <3> QED
      BY <3>2, <3>3
  <2>2. CASE RestSecond
    <3>1. /\ ~driving /\ missed' = missed \ {Due'}
          /\ speed' = [speed EXCEPT ![Due'] = Rest]
      BY <2>2, <1>1, <1>2 DEF RestSecond
    <3>2. i # Due'
      BY <3>1, <1>5 DEF Right, TypeOK
    <3>3. speed'[i] = speed[i] /\ (i < Due \/ i = Due)
      BY <3>1, <3>2, <1>1, <1>2, <1>5 DEF TypeOK, Index
    <3> QED
      BY <3>1, <3>2, <3>3, <1>4, <1>5
  <2> QED
    BY <2>1, <2>2
<1>6. SlotsSound'
  BY <1>1, <1>5 DEF SlotsSound, Foreign, Right, Stamp
<1> QED
  BY <1>1, <1>3, <1>6 DEF SecondHandled, InItsMinute

\* The open block stays sound under BaseDataHandler.
LEMMA BaseSound == ASSUME TypeOK, OpenSound, BaseDataHandler PROVE OpenSound'
<1>1. CASE BaseMinute
  <2>1. /\ clk' = curTime.m /\ UNCHANGED <<curTime, driving>> /\ driving
        /\ "SECOND" \notin TimeChange' /\ Due' = 0
    BY <1>1 DEF BaseDataHandler, BaseMinute, BaseSecond, RestMinute, RestSecond, Due
  <2>2. \A i \in Index : ~(i < Due' \/ (~driving' /\ i = Due'))
    BY <2>1 DEF Index
  <2> QED
    BY <2>1, <2>2 DEF OpenSound, SecondHandled, InItsMinute, SlotsSound, Foreign
<1>2. CASE RestMinute
  BY <1>2 DEF RestMinute, OpenSound, Open
<1>3. CASE BaseSecond \/ RestSecond
  BY <1>3, SecondSound
<1>4. CASE /\ ~(driving \/ Open) \/ "SECOND" \notin TimeChange
           /\ UNCHANGED <<TimeChange, InRecordCycle, basedata, table, note>>
  BY <1>4 DEF BaseDataHandler, OpenSound, SecondHandled, InItsMinute, SlotsSound,
     Open, Due, Foreign, Right, Stamp, basedata, note
<1> QED
  BY <1>1, <1>2, <1>3, <1>4 DEF BaseDataHandler

\* Every step keeps the open block sound.
LEMMA OpenStep == TypeOK /\ OpenSound /\ [Next]_vars => OpenSound'
<1> SUFFICES ASSUME TypeOK, OpenSound, [Next]_vars, Open'
             PROVE  (SecondHandled /\ InItsMinute /\ SlotsSound)'
  BY DEF OpenSound
<1>1. CASE Tick
  <2>1. UNCHANGED <<pc, curTime, driving, TimeChange, InRecordCycle, clk, speed, missed, gap>>
    BY <1>1 DEF Tick, basedata, note
  <2> QED
    BY <2>1 DEF OpenSound, SecondHandled, InItsMinute, SlotsSound,
       Open, Due, Foreign, Right, Stamp
<1>2. CASE GetSpeedandTime
  <2>1. /\ Open /\ "SECOND" \notin TimeChange /\ UNCHANGED <<clk, speed, driving>>
        /\ (gap => gap') /\ missed' = missed \cup Skipped(Due, Due')
        /\ pc' = "status" /\ curTime' \in Time
    BY <1>2 DEF GetSpeedandTime, Open, OpenSound, SecondHandled, basedata, TypeOK
  <2>2. Due \in Index /\ Due' \in Index
    BY <2>1, DueType, ConstantsAssumption DEF Due, Slot, Time, Index
  <2>3. InItsMinute'
    <3> SUFFICES ASSUME ~gap'
                 PROVE  \/ clk' = curTime'.m /\ ("SECOND" \in TimeChange' => curTime'.s # 0)
                        \/ /\ "SECOND" \in TimeChange'
                           /\ curTime' = [m |-> NextMinute(clk'), s |-> 0]
      BY DEF InItsMinute
    <3>1. clk' = clk /\ clk = curTime.m
      BY <2>1 DEF OpenSound, InItsMinute
    <3>2. CASE "t1s" \notin timeflag
      BY <1>2, <2>1, <3>1, <3>2 DEF GetSpeedandTime
    <3>3. CASE "t1s" \in timeflag
      <4>1. Follows(clock, curTime) /\ curTime' = clock /\ "SECOND" \in TimeChange'
        BY <1>2, <2>1, <3>3 DEF GetSpeedandTime
      <4> QED
        BY <3>1, <4>1 DEF Follows
    <3> QED
      BY <3>2, <3>3
  <2>4. SlotsSound'
    BY <2>1, <2>2, MoveSound
  <2>5. SecondHandled'
    BY <2>1 DEF SecondHandled
  <2> QED
    BY <2>3, <2>4, <2>5
<1>3. CASE ValueStatusHandler
  <2>1. Open /\ Due' = Due /\ missed \subseteq missed'
    BY <1>3 DEF ValueStatusHandler, Open, Due
  <2>2. ~driving' => ~driving \/ Due \in missed'
    BY <1>3, <2>1 DEF ValueStatusHandler
  <2> QED
    BY <1>3, <2>1, <2>2 DEF ValueStatusHandler, OpenSound, SecondHandled, InItsMinute, SlotsSound,
       Foreign, Right, Stamp, basedata
<1>4. CASE BaseDataHandler
  BY <1>4, BaseSound DEF OpenSound
<1>5. CASE LocationHandler
  <2>1. Open /\ ("SECOND" \in TimeChange' <=> "SECOND" \in TimeChange)
    BY <1>5 DEF LocationHandler, Open
  <2> QED
    BY <1>5, <2>1 DEF LocationHandler, OpenSound, SecondHandled, InItsMinute, SlotsSound, Due,
       Foreign, Right, Stamp, basedata, note
<1>6. CASE SetCurrentDateTime
  <2>1. /\ Open /\ UNCHANGED <<clk, speed, driving, pc, TimeChange>>
        /\ (gap => gap') /\ missed' = missed \cup Skipped(Due, Due')
    BY <1>6 DEF SetCurrentDateTime, Open, basedata
  <2>2. curTime' \in Time
    BY <1>6 DEF SetCurrentDateTime
  <2>3. Due \in Index /\ Due' \in Index
    BY <2>2, DueType, ConstantsAssumption DEF Due, Slot, Time, Index
  <2>4. InItsMinute'
    <3> SUFFICES ASSUME ~gap'
                 PROVE  clk' = curTime'.m /\ ("SECOND" \in TimeChange' => curTime'.s # 0)
      BY DEF InItsMinute
    <3>1. /\ ~gap /\ curTime'.m = curTime.m
          /\ "SECOND" \in TimeChange => curTime'.s # 0 /\ curTime.s # 0
      BY <1>6, <2>1 DEF SetCurrentDateTime
    <3>2. clk = curTime.m
      BY <2>1, <3>1 DEF OpenSound, InItsMinute
    <3> QED
      BY <2>1, <3>1, <3>2
  <2>5. SlotsSound'
    BY <2>1, <2>3, MoveSound
  <2>6. SecondHandled'
    BY <2>1 DEF OpenSound, SecondHandled
  <2> QED
    BY <2>4, <2>5, <2>6
<1>7. CASE UNCHANGED vars
  BY <1>7 DEF vars, OpenSound, SecondHandled, InItsMinute, SlotsSound,
     Open, Due, Foreign, Right, Stamp, basedata, note
<1> QED
  BY <1>1, <1>2, <1>3, <1>4, <1>5, <1>6, <1>7 DEF Next, Thread

-----------------------------------------------------------------------------
(* The blocks on the flash.                                                *)

\* A block that is written sound leaves every block sound.
LEMMA WriteSound ==
  ASSUME TypeOK, BlockSound, NEW sp, WriteRecordData2Flash(sp),
         Foreign(sp) \subseteq missed
  PROVE  BlockSound'
<1> SUFFICES ASSUME NEW k \in 0 .. Slots - 1 PROVE flash'[k].wrong = {}
  BY DEF BlockSound
<1>0. Wrong(sp) = {}
  BY DEF Wrong
<1>1. CASE k = CurPoint
  BY <1>0, <1>1 DEF WriteRecordData2Flash, TypeOK
<1>2. CASE k # CurPoint
  BY <1>2 DEF WriteRecordData2Flash, TypeOK, BlockSound
<1> QED
  BY <1>1, <1>2

\* Every step keeps the blocks on the flash sound.
LEMMA BlockStep == TypeOK /\ OpenSound /\ BlockSound /\ [Next]_vars => BlockSound'
<1> SUFFICES ASSUME TypeOK, OpenSound, BlockSound, [Next]_vars PROVE BlockSound'
  OBVIOUS
<1>1. CASE BaseMinute /\ Open
  <2>1. Due = Secs - 1 /\ Slot(0) = Secs - 1 /\ Secs - 1 \in Index
    BY <1>1, ConstantsAssumption DEF BaseMinute, Due, Slot, Index
  <2> DEFINE sp == [speed EXCEPT ![Secs - 1] = curTime]
  <2>4. Right(curTime, Secs - 1)
    <3>1. /\ Stamp(Secs - 1) = [m |-> NextMinute(clk), s |-> 0]
          /\ curTime.s = 0 /\ "SECOND" \in TimeChange
      BY <1>1 DEF BaseMinute, Stamp
    <3> QED
      BY <1>1, <3>1 DEF OpenSound, InItsMinute, Right
  <2>2. ASSUME NEW i \in Foreign(sp) PROVE i \in missed
    <3>1. i # Secs - 1
      BY <2>1, <2>4 DEF Foreign, TypeOK
    <3>2. i \in Foreign(speed) /\ i < Secs - 1
      BY <3>1, ConstantsAssumption DEF Foreign, Index, TypeOK
    <3> QED
      BY <1>1, <2>1, <2>2, <3>2 DEF OpenSound, SlotsSound
  <2>3. WriteRecordData2Flash(sp)
    BY <1>1, <2>1 DEF BaseMinute
  <2> HIDE DEF sp
  <2> QED
    BY <2>2, <2>3, WriteSound
<1>2. CASE RestMinute
  <2>1. Due = Secs - 1 /\ ~driving /\ Open
    BY <1>2, ConstantsAssumption DEF RestMinute, Due, Slot
  <2>2. ASSUME NEW i \in Foreign(speed) PROVE i \in missed
    <3>1. CASE i = Secs - 1
      BY <2>1, <2>2, <3>1 DEF OpenSound, SlotsSound
    <3>2. CASE i # Secs - 1
      <4>1. i < Due
        BY <2>1, <3>2, ConstantsAssumption DEF Foreign, Index
      <4> QED
        BY <2>1, <2>2, <4>1 DEF OpenSound, SlotsSound
    <3> QED
      BY <3>1, <3>2
  <2> QED
    BY <1>2, <2>2, WriteSound DEF RestMinute
<1>3. CASE UNCHANGED flash
  BY <1>3 DEF BlockSound
<1> QED
  BY <1>1, <1>2, <1>3 DEF Next, Thread, Tick, GetSpeedandTime, ValueStatusHandler, BaseDataHandler,
     BaseMinute, BaseSecond, RestSecond, LocationHandler, SetCurrentDateTime, vars, table

\* A drop by LocationHandler is one in minute 0 of the open block's hour: the
\* second has been handled, so the clock stands in the block's own minute.
LEMMA DropStep ==
  TypeOK /\ OpenSound /\ [Next]_vars
    => [Open /\ ~Open' /\ pc = "location" /\ ~gap => clk % Mins = 0]_vars
<1> SUFFICES ASSUME TypeOK, OpenSound, Next, Open, ~Open', pc = "location", ~gap
             PROVE  clk % Mins = 0
  OBVIOUS
<1>1. LocationHandler
  BY DEF Next, Thread, Tick, GetSpeedandTime, ValueStatusHandler, BaseDataHandler,
     SetCurrentDateTime, Open
<1>2. OnTheHour
  BY <1>1 DEF LocationHandler, Open
<1>3. clk = curTime.m
  BY DEF OpenSound, SecondHandled, InItsMinute
<1> QED
  BY <1>2, <1>3 DEF OnTheHour

-----------------------------------------------------------------------------
(* The theorems.                                                           *)

\* The inductive invariant: the types, the open block up to the second due,
\* and the blocks on the flash.
THEOREM Inductive == Spec => []IInv
<1>1. IInv /\ [Next]_vars => IInv'
  BY TypeStep, OpenStep, BlockStep DEF IInv
<1> QED
  BY <1>1, InitIInv, PTL DEF Spec

\* The loop of the "init" thread keeps its variables in their types.
THEOREM TypeCorrect == Spec => []TypeOK
<1>1. IInv => TypeOK
  BY DEF IInv
<1> QED
  BY <1>1, Inductive, PTL

\* BaseDataHandler and WriteRecordData2Flash: each slot of a block on the flash
\* holds the speed of its second or the mark of rest, unless that second was
\* never handled: lost, jumped over, or the one in which a drive ended.  The
\* second is one of the block's own minute, unless second 0 was lost or read
\* twice while it was open or the clock was set beyond the minute.
THEOREM BlocksAlwaysSound == Spec => []BlockSound
<1>1. IInv => BlockSound
  BY DEF IInv
<1> QED
  BY <1>1, Inductive, PTL

\* LocationHandler clears BaseDataHandler's bit for the first block of an hour
\* at most: no other open block is lost to it, but for one that was open when
\* second 0 was lost or read twice or when the clock was set beyond its minute.
THEOREM OnlyHourBlocksDropped == Spec => DroppedOnlyOnTheHour
<1>1. IInv /\ [Next]_vars => [Open /\ ~Open' /\ pc = "location" /\ ~gap => clk % Mins = 0]_vars
  BY DropStep DEF IInv
<1> QED
  BY <1>1, Inductive, PTL DEF Spec, DroppedOnlyOnTheHour
=============================================================================
