------------------------- MODULE DriveMonitorProofs -------------------------
(***************************************************************************)
(* The invariants of DriveMonitor hold for all values of its constants:    *)
(* any length of the hold times, of the prescalers and of the warning      *)
(* counters, and interrupts as late or as frequent as they like.           *)
(***************************************************************************)
EXTENDS DriveMonitor, TLAPS

\* The initial state satisfies the inductive invariant.
LEMMA InitIInv == Init => IInv
  BY ConstantsAssumption, SMT
  DEF Init, IInv, TypeOK, RegInv, ArmInv, HoldExclusive, Sustained, StatusConsistent,
      WarnedOnlyInAlarm, Window, Swapping, Arming, Moving, Sight, TimeBits, DataBits, DriveFlags,
      Alarms, Played

-----------------------------------------------------------------------------
(* Types.                                                                  *)

\* Testing a flag of the interrupt keeps the state in its type.
LEMMA TakeType ==
  ASSUME TypeOK, NEW p, NEW bit, NEW clear \in Window,
         NEW next \in {"take1s", "take1min", "arm"}, Take(p, bit, clear, next)
  PROVE  TypeOK'
<1> USE ConstantsAssumption DEF TypeOK, Take, Goto, timer, card, logs, hist
<1>1. CASE bit \in timeflag
  <2>1. pc' = clear /\ reg' = timeflag /\ late' \in 0 .. 2
    BY <1>1
  <2> QED
    BY <2>1, SMTT(20)
<1>2. CASE bit \notin timeflag
  <2>1. pc' = next /\ reg' = reg /\ late' \in 0 .. 2
    BY <1>2
  <2> QED
    BY <2>1, SMTT(20)
<1> QED
  BY <1>1, <1>2

\* Turning a confirmed start into flags keeps the state in its type.
LEMMA DecideType == ASSUME TypeOK, Decide PROVE TypeOK'
<1> USE ConstantsAssumption DEF TypeOK, timer, card, logs, hist
<1>1. pc' \in {"card", "decidestop"} /\ late' = 0
  BY DEF Decide, Goto, Window
<1>2. CASE "start" \in Datastatusdata
  <2>1. PICK over \in 0 .. 2 :
          /\ DriverStatus' = (DriverStatus \ {"STOP", "STOP_DRIVER"}) \cup {"STAR"}
                               \cup (IF over > 0 THEN {"OVERTIME"} ELSE {})
          /\ AlarmFlag' = AlarmFlag \cup (IF over = 2 THEN {"OVER_TIME"} ELSE {})
    BY <1>2 DEF Decide
  <2>2. DriverStatus' \in SUBSET DriveFlags /\ AlarmFlag' \in SUBSET Alarms
    BY <2>1, SMT DEF DriveFlags, Alarms
  <2> QED
    BY <1>1, <2>2, SMTT(20) DEF Decide, Window
<1>3. CASE "start" \notin Datastatusdata
  BY <1>1, <1>3, SMTT(20) DEF Decide, Window
<1> QED
  BY <1>2, <1>3

\* So does turning a confirmed stop into flags.
LEMMA DecideStopType == ASSUME TypeOK, DecideStop PROVE TypeOK'
<1> USE ConstantsAssumption DEF TypeOK, timer, card, logs
<1>1. pc' \in {"card", "endwarn"} /\ late' = 0
  BY DEF DecideStop, Goto, Window
<1>2. DriverStatus' \in SUBSET DriveFlags /\ AlarmFlag' \in SUBSET Alarms /\ owed' \in {0, 1}
  BY DEF DecideStop, EndDrive, DriveFlags, Alarms
<1> QED
  BY <1>1, <1>2, SMTT(20) DEF DecideStop, Window

\* Starting the counter of an alarm keeps the state in its type.
LEMMA AlarmType ==
  ASSUME TypeOK, NEW p, NEW k \in 1 .. 3, NEW next \in {"alarm2", "alarm3", "over"},
         Alarm(p, k, next)
  PROVE  TypeOK'
<1> USE ConstantsAssumption DEF TypeOK
<1>1. pc' = next /\ late' = 0
  BY SMT DEF Alarm, Goto, Window
<1>2. Time30mincnt' \in [1 .. 3 -> 0 .. Voice \cup {Played}]
  BY DEF Alarm
<1> QED
  BY <1>1, <1>2, SMTT(20) DEF Alarm, card, logs, hist

\* Sampling the card contact keeps the state in its type.
LEMMA CardType == ASSUME TypeOK, Card PROVE TypeOK'
<1> USE ConstantsAssumption DEF TypeOK, timer, hist, PointStatus
<1>1. pc' \in {"cardset", "cardclear", "journal"} /\ late' \in 0 .. 2
  BY DEF Card, Goto
<1>2. reg' \in SUBSET (TimeBits \cup DataBits) /\ insertcount' \in 0 .. Debounce - 1
  BY DEF Card
<1>3. AlarmFlag' \in SUBSET Alarms
  <2>1. AlarmFlag' = AlarmFlag \/ AlarmFlag' = AlarmFlag \cup {"NOT_RE"}
    BY DEF Card
  <2>2. "NOT_RE" \in Alarms
    BY DEF Alarms
  <2>3. AlarmFlag \in SUBSET Alarms
    OBVIOUS
  <2> QED
    BY ONLY <2>1, <2>2, <2>3
<1> QED
  BY <1>1, <1>2, <1>3 DEF Card, Window

\* Testing the speed for the journal keeps the state in its type.
LEMMA JournalType == ASSUME TypeOK, Journal PROVE TypeOK'
<1> USE ConstantsAssumption DEF TypeOK, Journal, Goto, timer, card, logs, hist, Window
<1>1. CASE CurSpeed >= 2 /\ "fast" \notin Datastatusdata
  BY <1>1, SMTT(20)
<1>2. CASE ~(CurSpeed >= 2 /\ "fast" \notin Datastatusdata)
  BY <1>2, SMTT(20)
<1> QED
  BY <1>1, <1>2

\* Every step keeps the state in its type.
LEMMA TypeStep == TypeOK /\ RegInv /\ [Next]_vars => TypeOK'
<1> SUFFICES ASSUME TypeOK, RegInv, [Next]_vars PROVE TypeOK'
  OBVIOUS
<1> USE ConstantsAssumption
<1>1. CASE Tick
  BY <1>1, SMTT(20) DEF TypeOK, Tick, Window, TimeBits, DataBits, Down, Second, Minute, Fifth, Played, card, logs
<1>2. CASE Take200
  BY <1>2, TakeType, SMT DEF Take200, Window
<1>3. CASE Clear200
  BY <1>3, SMTT(20) DEF TypeOK, RegInv, Clear200, Goto, Window, TimeBits, DataBits, timer, card, hist
<1>4. CASE Take1s
  BY <1>4, TakeType, SMT DEF Take1s, Window
<1>5. CASE Clear1s
  BY <1>5, SMTT(20) DEF TypeOK, RegInv, Clear1s, Goto, Window, TimeBits, DataBits, timer, card, hist
<1>6. CASE Take1min
  BY <1>6, TakeType, SMT DEF Take1min, Window
<1>7. CASE Clear1min
  BY <1>7, SMTT(20) DEF TypeOK, RegInv, Clear1min, Goto, Window, TimeBits, DataBits, timer, card, logs, hist
<1>8. CASE Arm \/ Test
  <2>1. pc' \in {"decide", "test", "set"} /\ late' = 0
    BY <1>8, SMT DEF Arm, Test, Goto, Window
  <2>2. seen' \in {"rest", "motion"} /\ same' \in 0 .. Hold /\ owed' = owed
    BY <1>8, SMT DEF TypeOK, Arm, Test, Sight, hist
  <2> QED
    BY <1>8, <2>1, <2>2, SMTT(20) DEF TypeOK, Arm, Test, Window, timer, card, logs
<1>26. CASE Set
  BY <1>26, SMTT(20) DEF TypeOK, Set, Goto, Window, Moving, card, logs, hist
<1>9. CASE Disarm
  BY <1>9, SMTT(20) DEF TypeOK, Disarm, Goto, Window, Moving, card, logs, hist
<1>10. CASE Load
  BY <1>10, SMTT(20) DEF TypeOK, Load, Goto, Window, timer, card, logs, hist
<1>11. CASE Store
  BY <1>11, SMTT(20) DEF TypeOK, RegInv, Store, Goto, Window, TimeBits, DataBits, Moving, timer, card, logs, hist
<1>12. CASE Decide \/ DecideStop
  BY <1>12, DecideType, DecideStopType
<1>13. CASE EndWarn
  BY <1>13, SMTT(20) DEF TypeOK, EndWarn, Goto, Window, ResetWarning, card, logs, hist
<1>14. CASE Card
  BY <1>14, CardType
<1>15. CASE CardSet
  BY <1>15, SMTT(20) DEF TypeOK, RegInv, CardSet, Goto, Window, TimeBits, DataBits, Alarms, timer, logs, hist
<1>16. CASE CardWarn
  BY <1>16, SMTT(20) DEF TypeOK, CardWarn, Goto, Window, ResetWarning, card, logs, hist
<1>17. CASE CardClear
  BY <1>17, SMTT(20) DEF TypeOK, RegInv, CardClear, Goto, Window, TimeBits, DataBits, EndDrive, DriveFlags, Alarms, timer, logs
<1>18. CASE CardEnd
  BY <1>18, SMTT(20) DEF TypeOK, CardEnd, Goto, Window, ResetWarning, card, logs, hist
<1>19. CASE Journal
  BY <1>19, JournalType
<1>20. CASE FastSet
  BY <1>20, SMTT(20) DEF TypeOK, RegInv, FastSet, Goto, Window, TimeBits, DataBits, timer, card, hist
<1>21. CASE Limit
  BY <1>21, SMTT(20) DEF TypeOK, Limit, Goto, Window, Alarms, timer, card, logs, hist
<1>22. CASE Alarm1 \/ Alarm2 \/ Alarm3
  BY <1>22, AlarmType, SMT DEF Alarm1, Alarm2, Alarm3
<1>23. CASE OverDriverHandler
  BY <1>23, SMTT(20) DEF TypeOK, OverDriverHandler, Goto, Window, timer, card, logs
<1>24. CASE DrvierRegisterHandler
  BY <1>24, SMTT(20) DEF TypeOK, DrvierRegisterHandler, Goto, Window, timer, logs, hist
<1>25. CASE UNCHANGED vars
  BY <1>25, SMTT(20) DEF TypeOK, vars, timer, card, logs, hist
<1> QED
  BY <1>1, <1>2, <1>3, <1>4, <1>5, <1>6, <1>7, <1>8, <1>9, <1>10, <1>11, <1>12, <1>13, <1>14, <1>15, <1>16, <1>17, <1>18, <1>19, <1>20, <1>21, <1>22, <1>23, <1>24, <1>25, <1>26 DEF Next, Thread

-----------------------------------------------------------------------------
(* A loaded byte.                                                          *)

\* A byte holds no bit that memory lost since it was loaded: the interrupt only
\* sets bits, and the thread stores nothing else in between.
LEMMA RegStep == TypeOK /\ RegInv /\ [Next]_vars => RegInv'
<1> SUFFICES ASSUME TypeOK, RegInv, [Next]_vars PROVE RegInv'
  OBVIOUS
<1> USE DEF RegInv, Goto
<1>1. CASE Tick
  BY <1>1, SMT DEF Tick
<1>2. CASE Take200 \/ Take1s \/ Take1min
  BY <1>2, SMT DEF Take200, Take1s, Take1min, Take, TypeOK
<1>3. CASE Load \/ Card \/ Journal
  <2>1. CASE Load
    BY <2>1 DEF Load
  <2>2. CASE Card
    BY <2>2, SMT DEF Card
  <2>3. CASE Journal
    BY <2>3, SMT DEF Journal
  <2> QED
    BY <1>3, <2>1, <2>2, <2>3
<1>4. CASE Clear200 \/ Clear1s \/ Clear1min \/ Arm \/ Test \/ Set \/ Disarm \/ Store
             \/ Decide \/ DecideStop \/ EndWarn
  <2>1. pc' \in {"take1s", "take1min", "arm", "test", "set", "disarm", "load", "decide",
                 "decidestop", "card", "endwarn"}
    BY <1>4, SMT DEF Clear200, Clear1s, Clear1min, Arm, Test, Set, Disarm, Store, Decide,
                DecideStop, EndWarn, ResetWarning
  <2> QED
    BY <2>1, SMT
<1>5. CASE CardSet \/ CardWarn \/ CardClear \/ CardEnd \/ FastSet \/ Limit
             \/ Alarm1 \/ Alarm2 \/ Alarm3 \/ OverDriverHandler \/ DrvierRegisterHandler
  <2>1. pc' \in {"cardwarn", "journal", "cardend", "limit", "alarm1", "alarm2", "alarm3",
                 "over", "register", "take200"}
    BY <1>5, SMT DEF CardSet, CardWarn, CardClear, CardEnd, FastSet, Limit, Alarm1, Alarm2,
                Alarm3, Alarm, OverDriverHandler, DrvierRegisterHandler, ResetWarning
  <2> QED
    BY <2>1, SMT
<1>6. CASE UNCHANGED vars
  BY <1>6 DEF vars
<1> QED
  BY <1>1, <1>2, <1>3, <1>4, <1>5, <1>6 DEF Next, Thread

-----------------------------------------------------------------------------
(* The hold timers.                                                        *)

\* The part of IInv about the timers and the bits they set.
HoldInv == ArmInv /\ HoldExclusive /\ Sustained

\* A step outside the arming of a timer that leaves the timers and the history
\* alone, and adds no start or stop to Datastatusdata, keeps the invariant.
LEMMA HoldQuiet ==
  ASSUME HoldInv, pc \notin Arming, pc' \notin Arming,
         UNCHANGED <<Time10sCnts, Time10sCnte, seen, same>>,
         Datastatusdata' \cap {"start", "stop"} \subseteq Datastatusdata
  PROVE  HoldInv'
  BY SMT DEF HoldInv, ArmInv, HoldExclusive, Sustained, Swapping, Arming

\* The same for a step that leaves Datastatusdata alone too.
LEMMA HoldStill ==
  ASSUME HoldInv, pc \notin Arming, pc' \notin Arming,
         UNCHANGED <<Time10sCnts, Time10sCnte, seen, same, Datastatusdata>>
  PROVE  HoldInv'
  BY HoldQuiet

\* Every step keeps start and stop exclusive and timed for as long as they say.
LEMMA HoldStep == TypeOK /\ RegInv /\ HoldInv /\ [Next]_vars => HoldInv'
<1> SUFFICES ASSUME TypeOK, RegInv, HoldInv, [Next]_vars PROVE HoldInv'
  OBVIOUS
<1> USE DEF Goto, Swapping, Arming
<1>1. CASE Tick
  <2>1. /\ Hold \in Nat \ {0} /\ same \in 0 .. Hold
        /\ Time10sCnts \in 0 .. Hold /\ Time10sCnte \in 0 .. Hold
    BY ConstantsAssumption DEF TypeOK
  <2>2. /\ pc' = pc /\ seen' = seen /\ CurSpeed' = CurSpeed
        /\ Time10sCnts' = Down(Time10sCnts) /\ Time10sCnte' = Down(Time10sCnte)
        /\ same' = IF Second /\ same < Hold THEN same + 1 ELSE same
        /\ "start" \in Datastatusdata' <=>
             "start" \in Datastatusdata \/ (Second /\ Time10sCnts = 1)
        /\ "stop" \in Datastatusdata' <=>
             "stop" \in Datastatusdata \/ (Second /\ Time10sCnte = 1)
    BY <1>1, SMT DEF Tick, hist
  <2>3. CASE ~Second
    BY <2>1, <2>2, <2>3, SMT
    DEF HoldInv, ArmInv, HoldExclusive, Sustained, Moving, Sight, Down
  <2>4. CASE Second
    <3>1. ArmInv'
      BY <2>1, <2>2, <2>4, SMTT(30) DEF HoldInv, ArmInv, Moving, Sight, Down
    <3>2. HoldExclusive'
      BY <2>1, <2>2, <2>4, SMTT(30) DEF HoldInv, HoldExclusive, Down
    <3>3. Sustained'
      BY <2>1, <2>2, <2>4, SMTT(30) DEF HoldInv, ArmInv, Sustained, Down
    <3> QED
      BY <3>1, <3>2, <3>3 DEF HoldInv
  <2> QED
    BY <2>3, <2>4
<1>2. CASE Arm
  <2>1. /\ pc = "arm" /\ pc' \in {"decide", "test"}
        /\ pc' = "decide" <=> (IF Moving THEN "start" ELSE "stop") \in Datastatusdata
        /\ seen' = Sight /\ same' = IF seen = Sight THEN same ELSE 0
        /\ UNCHANGED <<Time10sCnts, Time10sCnte, Datastatusdata, CurSpeed>>
    BY <1>2, SMT DEF Arm, timer
  <2>2. /\ Hold \in Nat \ {0} /\ same \in 0 .. Hold
        /\ Time10sCnts \in 0 .. Hold /\ Time10sCnte \in 0 .. Hold
    BY ConstantsAssumption DEF TypeOK
  <2> QED
    BY <2>1, <2>2, SMTT(30) DEF HoldInv, ArmInv, HoldExclusive, Sustained, Moving, Sight
<1>11. CASE Test
  <2>1. /\ pc = "test" /\ pc' \in {"decide", "set"}
        /\ pc' = "set" <=> (IF Moving THEN Time10sCnts ELSE Time10sCnte) = 0
        /\ UNCHANGED <<Time10sCnts, Time10sCnte, Datastatusdata, CurSpeed, seen, same>>
    BY <1>11, SMT DEF Test, timer, hist
  <2>2. /\ Hold \in Nat \ {0} /\ same \in 0 .. Hold
        /\ Time10sCnts \in 0 .. Hold /\ Time10sCnte \in 0 .. Hold
    BY ConstantsAssumption DEF TypeOK
  <2> QED
    BY <2>1, <2>2, SMTT(30) DEF HoldInv, ArmInv, HoldExclusive, Sustained, Moving, Sight
<1>12. CASE Set
  BY <1>12, ConstantsAssumption, SMTT(30)
  DEF Set, hist, TypeOK, HoldInv, ArmInv, HoldExclusive, Sustained, Moving, Sight
<1>3. CASE Disarm
  BY <1>3, SMTT(30) DEF Disarm, hist, HoldInv, ArmInv, HoldExclusive, Sustained, Moving, Sight
<1>4. CASE Load
  BY <1>4, SMTT(30) DEF Load, timer, hist, HoldInv, ArmInv, HoldExclusive, Sustained, Moving, Sight
<1>5. CASE Store
  BY <1>5, SMTT(30)
  DEF Store, timer, hist, TypeOK, RegInv, HoldInv, ArmInv, HoldExclusive, Sustained, Moving, Sight
<1>6. CASE CardSet \/ CardClear \/ FastSet
  BY <1>6, HoldQuiet, SMT DEF CardSet, CardClear, FastSet, timer, hist, RegInv
<1>7. CASE Take200 \/ Take1s \/ Take1min \/ Clear200 \/ Clear1s \/ Clear1min
  <2>1. /\ pc \notin Arming /\ pc' \notin Arming
        /\ UNCHANGED <<Time10sCnts, Time10sCnte, seen, same, Datastatusdata>>
    BY <1>7, SMT DEF Take200, Take1s, Take1min, Take, Clear200, Clear1s, Clear1min, timer, hist
  <2> QED
    BY <2>1, HoldStill
<1>8. CASE Decide \/ DecideStop \/ EndWarn \/ Card \/ CardWarn \/ CardEnd
  <2>1. /\ pc \notin Arming /\ pc' \notin Arming
        /\ UNCHANGED <<Time10sCnts, Time10sCnte, seen, same, Datastatusdata>>
    BY <1>8, SMT DEF Decide, DecideStop, EndWarn, Card, CardWarn, CardEnd, ResetWarning,
                timer, hist
  <2> QED
    BY <2>1, HoldStill
<1>9. CASE \/ Journal \/ Limit \/ Alarm1 \/ Alarm2 \/ Alarm3
           \/ OverDriverHandler \/ DrvierRegisterHandler
  <2>1. /\ pc \notin Arming /\ pc' \notin Arming
        /\ UNCHANGED <<Time10sCnts, Time10sCnte, seen, same, Datastatusdata>>
    BY <1>9, SMT DEF Journal, Limit, Alarm1, Alarm2, Alarm3, Alarm, OverDriverHandler,
                DrvierRegisterHandler, timer, hist
  <2> QED
    BY <2>1, HoldStill
<1>10. CASE UNCHANGED vars
  BY <1>10, SMT DEF vars, timer, hist, HoldInv, ArmInv, HoldExclusive, Sustained, Moving, Sight
<1> QED
  BY <1>1, <1>2, <1>3, <1>4, <1>5, <1>6, <1>7, <1>8, <1>9, <1>10, <1>11, <1>12 DEF Next, Thread

-----------------------------------------------------------------------------
(* The driving flags.                                                      *)

\* Only Decide, DecideStop and the removal of the card write DriverStatus, and both keep
\* its flags consistent with each other and with the alarm of a drive.
LEMMA StatusStep == StatusConsistent /\ [Next]_vars => StatusConsistent'
<1> SUFFICES ASSUME StatusConsistent, [Next]_vars PROVE StatusConsistent'
  OBVIOUS
<1> USE DEF StatusConsistent
<1>1. CASE Decide \/ DecideStop
  <2>1. CASE Decide
    BY <2>1, SMT DEF Decide
  <2>2. CASE DecideStop
    BY <2>2, SMT DEF DecideStop, EndDrive
  <2> QED
    BY <1>1, <2>1, <2>2
<1>2. CASE CardClear
  BY <1>2, SMT DEF CardClear, EndDrive
<1>3. CASE Card \/ CardSet \/ Limit
  BY <1>3, SMT DEF Card, CardSet, Limit
<1>4. CASE \/ Tick \/ Take200 \/ Clear200 \/ Take1s \/ Clear1s \/ Take1min \/ Clear1min
           \/ Arm \/ Test \/ Set \/ Disarm \/ Load \/ Store \/ EndWarn \/ CardWarn \/ CardEnd
           \/ Journal \/ FastSet \/ Alarm1 \/ Alarm2 \/ Alarm3 \/ OverDriverHandler \/ DrvierRegisterHandler
  <2>1. UNCHANGED <<DriverStatus, AlarmFlag>>
    BY <1>4 DEF Tick, Take200, Clear200, Take1s, Clear1s, Take1min, Clear1min, Take, Arm,
                Test, Set, Disarm, Load, Store, EndWarn, CardWarn, CardEnd, ResetWarning,
                Journal, FastSet, Alarm1, Alarm2, Alarm3, Alarm, OverDriverHandler, DrvierRegisterHandler
  <2> QED
    BY <2>1
<1>5. CASE UNCHANGED vars
  BY <1>5 DEF vars
<1> QED
  BY <1>1, <1>2, <1>3, <1>4, <1>5 DEF Next, Thread

-----------------------------------------------------------------------------
(* The warning counters.                                                   *)

\* A counter is started only under its alarm, never restarted by the interrupt,
\* and reset in the step after the one that takes its alarm back.
LEMMA WarnStep == TypeOK /\ WarnedOnlyInAlarm /\ [Next]_vars => WarnedOnlyInAlarm'
<1> SUFFICES ASSUME TypeOK, WarnedOnlyInAlarm, [Next]_vars PROVE WarnedOnlyInAlarm'
  OBVIOUS
<1> USE DEF WarnedOnlyInAlarm, Goto
<1>1. CASE Tick
  BY <1>1, ConstantsAssumption, SMT DEF Tick, TypeOK, Played
<1>2. CASE Decide \/ DecideStop
  BY <1>2, SMT DEF Decide, DecideStop, timer
<1>3. CASE Card \/ CardSet \/ CardClear \/ Limit
  BY <1>3, SMT DEF Card, CardSet, CardClear, Limit, timer
<1>4. CASE EndWarn \/ CardWarn \/ CardEnd
  BY <1>4, SMT DEF EndWarn, CardWarn, CardEnd, ResetWarning, TypeOK
<1>5. CASE Alarm1 \/ Alarm2 \/ Alarm3
  <2>1. CASE Alarm1
    BY <2>1, SMT DEF Alarm1, Alarm, AlarmOf, TypeOK
  <2>2. CASE Alarm2
    BY <2>2, SMT DEF Alarm2, Alarm, AlarmOf, TypeOK
  <2>3. CASE Alarm3
    BY <2>3, SMT DEF Alarm3, Alarm, TypeOK
  <2> QED
    BY <1>5, <2>1, <2>2, <2>3
<1>6. CASE \/ Take200 \/ Clear200 \/ Take1s \/ Clear1s \/ Take1min \/ Clear1min
           \/ Arm \/ Test \/ Set \/ Disarm \/ Load \/ Store \/ Journal \/ FastSet
           \/ OverDriverHandler \/ DrvierRegisterHandler
  <2>1. UNCHANGED <<Time30mincnt, AlarmFlag>> /\ pc \notin {"endwarn", "cardend", "cardwarn"}
    BY <1>6 DEF Take200, Clear200, Take1s, Clear1s, Take1min, Clear1min, Take, Arm,
                Test, Set, Disarm, Load, Store, Journal, FastSet, OverDriverHandler,
                DrvierRegisterHandler, timer
  <2> QED
    BY <2>1
<1>7. CASE UNCHANGED vars
  BY <1>7 DEF vars, timer
<1> QED
  BY <1>1, <1>2, <1>3, <1>4, <1>5, <1>6, <1>7 DEF Next, Thread

-----------------------------------------------------------------------------
(* The theorems.                                                           *)

\* The conjunction of the invariants and their strengthening is inductive, so
\* every reachable state satisfies it.
THEOREM Inductive == Spec => []IInv
<1>1. IInv /\ [Next]_vars => IInv'
  BY TypeStep, RegStep, HoldStep, StatusStep, WarnStep DEF IInv, HoldInv
<1> QED
  BY <1>1, InitIInv, PTL DEF Spec

\* Every field keeps to the values its declaration and the code allow it.
THEOREM TypeCorrect == Spec => []TypeOK
<1>1. IInv => TypeOK
  BY DEF IInv
<1> QED
  BY <1>1, Inductive, PTL

\* Start and stop are timed and confirmed one at a time, wherever the interrupt
\* hits the code that tests the confirmation, tests the timer, sets it, stops the
\* other one and clears its bit, each access a step of its own.
THEOREM HoldExclusiveAlways == Spec => []HoldExclusive
<1>1. IInv => HoldExclusive
  BY DEF IInv
<1> QED
  BY <1>1, Inductive, PTL

\* A confirmed start (stop) was preceded by Hold seconds in which every pass of
\* ValueStatusHandler saw motion (rest).
THEOREM SustainedAlways == Spec => []Sustained
<1>1. IInv => Sustained
  BY DEF IInv
<1> QED
  BY <1>1, Inductive, PTL

\* The driving flags never contradict each other, although two handlers that
\* know nothing of each other write them.
THEOREM StatusConsistentAlways == Spec => []StatusConsistent
<1>1. IInv => StatusConsistent
  BY DEF IInv
<1> QED
  BY <1>1, Inductive, PTL

\* The interrupt counts towards no warning whose alarm was taken back.
THEOREM WarnedOnlyInAlarmAlways == Spec => []WarnedOnlyInAlarm
<1>1. IInv => WarnedOnlyInAlarm
  BY DEF IInv
<1> QED
  BY <1>1, Inductive, PTL
=============================================================================
