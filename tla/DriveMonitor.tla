---------------------------- MODULE DriveMonitor ----------------------------
(***************************************************************************)
(* How the recorder decides that a drive began or ended and when it warns  *)
(* the driver: the timer interrupt Time3_irg_handler (bsp/vtdr/GetData.c)  *)
(* against the handlers the "init" thread calls in a loop                  *)
(* (bsp/vtdr/application.c:144-155), GetSpeedandTime, ValueStatusHandler   *)
(* with IckaHandler, AlarmHandler, OverDriverHandler and                   *)
(* DrvierRegisterHandler (GetData.c, DataManager.c).                       *)
(*                                                                         *)
(* The interrupt is atomic.  The thread is not, and masks nothing: the     *)
(* bit-fields of timeflag and of Datastatusdata share a byte, so clearing  *)
(* or setting one of them is a load of the byte and a store of all of it,  *)
(* and each read or write of a variable of the interrupt is a step.        *)
(* A bit-field struct is the set of its bits that are set.                 *)
(*                                                                         *)
(* The fields keepspeed5min, locationchagestatus and keeplocation10s are   *)
(* written nowhere and read as zero; Ver1sflag is read nowhere that runs.  *)
(***************************************************************************)
EXTENDS Integers

CONSTANTS
  Hold,       \* seconds of motion or rest before the state changes, 10
  SecTicks,   \* ticks of 200 ms in a second, 5
  MinTicks,   \* seconds in a minute, 60
  FiveTicks,  \* minutes between two steps of the warning counters, 5
  Voice,      \* steps from an alarm to its voice warning, 5
  Debounce,   \* samples before an inserted card counts, 100
  Speeds      \* classes of speed: 0, 1 moving, 2 above 40, 3 above the limit

ASSUME ConstantsAssumption ==
  /\ Hold \in Nat \ {0} /\ SecTicks \in Nat \ {0} /\ MinTicks \in Nat \ {0}
  /\ FiveTicks \in Nat \ {0} /\ Voice \in 1 .. 254 /\ Debounce \in Nat \ {0}
  /\ Speeds \subseteq 0 .. 3 /\ 0 \in Speeds

Played == 255          \* 0xff in a warning counter: the voice was played

TimeBits   == {"t200", "t1s", "t1min"}
DataBits   == {"start", "stop", "card", "fast"}   \* keepstart10s, keepstop10s,
                                                  \* keeprestatus, keepthespeed
DriveFlags == {"STAR", "STOP", "STOP_DRIVER", "OVERTIME"}
Alarms     == {"OVER_TIME", "NOT_RE", "OVER_SPEED"}
AlarmOf    == <<"OVER_TIME", "NOT_RE", "OVER_SPEED">>

VARIABLES
  timecnt,             \* the interrupt's prescalers
  timeflag,            \* bits for GetSpeedandTime
  Time10sCnts,         \* seconds left before the start of a drive is confirmed
  Time10sCnte,         \* the same for a stop
  Time30mincnt,        \* the counters Time30mincnt1 to 3
  Datastatusdata,
  pc, reg,             \* the thread: place, the byte loaded and not yet stored
  late,                \* interrupts since the byte was loaded: 0, 1, 2 or more
  CurSpeed, DriverStatus, AlarmFlag,
  insertcount, DriverRegstatus,
  DoubltPointstatus, JournalRecordstatus,
  seen, same,          \* history: the last passes of ValueStatusHandler saw
                       \* "motion" or "rest", for "same" seconds
  owed                 \* history, 1: an overtime drive ended and is not recorded

timer == <<timecnt, Time10sCnts, Time10sCnte, Time30mincnt>>
card  == <<insertcount, DriverRegstatus>>
logs  == <<DoubltPointstatus, JournalRecordstatus>>
hist  == <<seen, same, owed>>
vars  == <<timer, timeflag, Datastatusdata, pc, reg, late, CurSpeed, DriverStatus,
           AlarmFlag, card, logs, hist>>

Init ==
  /\ timecnt = [s |-> 0, m |-> 0, f |-> 0] /\ timeflag = {}
  /\ Time10sCnts = 0 /\ Time10sCnte = 0 /\ Time30mincnt = [k \in 1 .. 3 |-> 0]
  /\ Datastatusdata = {} /\ pc = "take200" /\ reg = {} /\ late = 0
  /\ CurSpeed = 0 /\ DriverStatus = {} /\ AlarmFlag = {}
  /\ insertcount = 0 /\ DriverRegstatus = "none"
  /\ DoubltPointstatus = "none" /\ JournalRecordstatus = "none"
  /\ seen = "rest" /\ same = 0 /\ owed = 0

\* between these places and the next the thread holds a loaded byte, or is about
\* to stop the other timer
Window == {"clear200", "clear1s", "clear1min", "disarm", "load", "store",
           "cardset", "cardclear", "fastset"}

Goto(p) == pc' = p /\ late' = IF p \in Window THEN late ELSE 0

-----------------------------------------------------------------------------
(* Time3_irg_handler, at every 200th interrupt.                            *)

Second  == timecnt.s + 1 >= SecTicks
Minute  == Second /\ timecnt.m + 1 >= MinTicks
Fifth   == Minute /\ timecnt.f + 1 >= FiveTicks

\* mutant: a timer that is not running is decremented
DownAlways(n) == IF Second THEN n - 1 ELSE n

Down(n) == IF Second /\ n > 0 THEN n - 1 ELSE n

Tick ==
  /\ timecnt' = [s |-> IF Second THEN 0 ELSE timecnt.s + 1,
                 m |-> IF Minute THEN 0 ELSE IF Second THEN timecnt.m + 1 ELSE timecnt.m,
                 f |-> IF Fifth THEN 0 ELSE IF Minute THEN timecnt.f + 1 ELSE timecnt.f]
  /\ timeflag' = timeflag \cup {"t200"} \cup (IF Second THEN {"t1s"} ELSE {})
                          \cup (IF Minute THEN {"t1min"} ELSE {})
  /\ Time10sCnts' = Down(Time10sCnts)
  /\ Time10sCnte' = Down(Time10sCnte)
  /\ Datastatusdata' = Datastatusdata
                         \cup (IF Second /\ Time10sCnts = 1 THEN {"start"} ELSE {})
                         \cup (IF Second /\ Time10sCnte = 1 THEN {"stop"} ELSE {})
  /\ Time30mincnt' = [k \in 1 .. 3 |->
                        LET n == Time30mincnt[k]
                        IN IF ~Fifth \/ n \in {0, Played} THEN n
                           ELSE IF n = 1 THEN Played ELSE n - 1]
  /\ late' = IF pc \notin Window THEN 0 ELSE IF late = 0 THEN 1 ELSE 2
  /\ same' = IF Second /\ same < Hold THEN same + 1 ELSE same
  /\ UNCHANGED <<pc, reg, CurSpeed, DriverStatus, AlarmFlag, card, logs, seen, owed>>

-----------------------------------------------------------------------------
(* GetSpeedandTime: each flag is tested, then cleared and acted upon.      *)

Take(p, bit, clear, next) ==
  /\ pc = p
  /\ IF bit \in timeflag THEN Goto(clear) /\ reg' = timeflag
                         ELSE Goto(next) /\ reg' = reg
  /\ UNCHANGED <<timer, timeflag, Datastatusdata, CurSpeed, DriverStatus, AlarmFlag,
                 card, logs, hist>>

Take200  == Take("take200", "t200", "clear200", "take1s")
Take1s   == Take("take1s", "t1s", "clear1s", "take1min")
Take1min == Take("take1min", "t1min", "clear1min", "arm")

\* a new speed; DoubltPointHandler writes a pending record of the stop
Clear200 ==
  /\ pc = "clear200" /\ Goto("take1s")
  /\ timeflag' = reg \ {"t200"} /\ reg' = {}
  /\ CurSpeed' \in Speeds
  /\ DoubltPointstatus' = IF DoubltPointstatus = "end" THEN "none" ELSE DoubltPointstatus
  /\ UNCHANGED <<timer, Datastatusdata, DriverStatus, AlarmFlag, card,
                 JournalRecordstatus, hist>>

\* JournalHandle; its counter JNcnt stays at 1, so RECORD_DATA lasts
Clear1s ==
  /\ pc = "clear1s" /\ Goto("take1min")
  /\ timeflag' = reg \ {"t1s"} /\ reg' = {}
  /\ JournalRecordstatus' = IF JournalRecordstatus = "starttime" THEN "data"
                            ELSE JournalRecordstatus
  /\ UNCHANGED <<timer, Datastatusdata, CurSpeed, DriverStatus, AlarmFlag, card,
                 DoubltPointstatus, hist>>

Clear1min ==
  /\ pc = "clear1min" /\ Goto("arm")
  /\ timeflag' = reg \ {"t1min"} /\ reg' = {}
  /\ UNCHANGED <<timer, Datastatusdata, CurSpeed, DriverStatus, AlarmFlag, card,
                 logs, hist>>

-----------------------------------------------------------------------------
(* ValueStatusHandler.                                                     *)

Moving == CurSpeed > 0
Sight  == IF Moving THEN "motion" ELSE "rest"

\* A state that is not confirmed yet may have to be timed.
Arm ==
  /\ pc = "arm"
  /\ IF (IF Moving THEN "start" ELSE "stop") \in Datastatusdata
     THEN Goto("decide") ELSE Goto("test")
  /\ seen' = Sight /\ same' = IF seen = Sight THEN same ELSE 0
  /\ UNCHANGED <<timer, timeflag, Datastatusdata, reg, CurSpeed, DriverStatus,
                 AlarmFlag, card, logs, owed>>

\* mutant: a timer that runs is armed again
TestNot ==
  /\ pc = "test" /\ Goto("set")
  /\ UNCHANGED <<timer, timeflag, Datastatusdata, reg, CurSpeed, DriverStatus,
                 AlarmFlag, card, logs, hist>>

\* Its timer may be running.  (Or it ran out since Arm, and is armed once more
\* for a state that is confirmed by now.)
Test ==
  /\ pc = "test"
  /\ IF (IF Moving THEN Time10sCnts ELSE Time10sCnte) = 0
     THEN Goto("set") ELSE Goto("decide")
  /\ UNCHANGED <<timer, timeflag, Datastatusdata, reg, CurSpeed, DriverStatus,
                 AlarmFlag, card, logs, hist>>

Set ==
  /\ pc = "set" /\ Goto("disarm")
  /\ IF Moving THEN Time10sCnts' = Hold /\ UNCHANGED Time10sCnte
               ELSE Time10sCnte' = Hold /\ UNCHANGED Time10sCnts
  /\ UNCHANGED <<timecnt, Time30mincnt, timeflag, Datastatusdata, reg, CurSpeed,
                 DriverStatus, AlarmFlag, card, logs, hist>>

\* mutant: the other timer runs on
DisarmNot ==
  /\ pc = "disarm" /\ Goto("load")
  /\ UNCHANGED <<timer, timeflag, Datastatusdata, reg, CurSpeed, DriverStatus,
                 AlarmFlag, card, logs, hist>>

\* the other timer is stopped
Disarm ==
  /\ pc = "disarm" /\ Goto("load")
  /\ IF Moving THEN Time10sCnte' = 0 /\ UNCHANGED Time10sCnts
               ELSE Time10sCnts' = 0 /\ UNCHANGED Time10sCnte
  /\ UNCHANGED <<timecnt, Time30mincnt, timeflag, Datastatusdata, reg, CurSpeed,
                 DriverStatus, AlarmFlag, card, logs, hist>>

\* and the other state's bit cleared, by a load and a store
Load ==
  /\ pc = "load" /\ Goto("store")
  /\ reg' = Datastatusdata
  /\ UNCHANGED <<timer, timeflag, Datastatusdata, CurSpeed, DriverStatus, AlarmFlag,
                 card, logs, hist>>

\* mutant: the other state stays confirmed
StoreBoth ==
  /\ pc = "store" /\ Goto("decide")
  /\ Datastatusdata' = reg /\ reg' = {}
  /\ UNCHANGED <<timer, timeflag, CurSpeed, DriverStatus, AlarmFlag, card, logs, hist>>

Store ==
  /\ pc = "store" /\ Goto("decide")
  /\ Datastatusdata' = reg \ {IF Moving THEN "stop" ELSE "start"} /\ reg' = {}
  /\ UNCHANGED <<timer, timeflag, CurSpeed, DriverStatus, AlarmFlag, card, logs, hist>>

\* mutant: the overtime flag outlives the drive
EndDriveOvertime(flags) == (flags \ {"STAR"}) \cup {"STOP_DRIVER"}

\* the drive ended
EndDrive(flags) == (flags \ {"STAR", "OVERTIME"}) \cup {"STOP_DRIVER"}

\* A confirmed start is turned into driving flags.  The time since the start is
\* above 15 for over = 1 and above 225 for over = 2.
Decide ==
  /\ pc = "decide"
  /\ IF "start" \in Datastatusdata
     THEN /\ \E over \in 0 .. 2 :
               /\ DriverStatus' = (DriverStatus \ {"STOP", "STOP_DRIVER"}) \cup {"STAR"}
                                    \cup (IF over > 0 THEN {"OVERTIME"} ELSE {})
               /\ AlarmFlag' = AlarmFlag \cup (IF over = 2 THEN {"OVER_TIME"} ELSE {})
          /\ Goto("card")
     ELSE UNCHANGED <<DriverStatus, AlarmFlag>> /\ Goto("decidestop")
  /\ UNCHANGED <<timer, timeflag, Datastatusdata, reg, CurSpeed, card, logs, hist>>

\* So is a confirmed stop.  There timenowmin is not initialised, so that either
\* outcome of its comparison with the time of the stop is possible.
DecideStop ==
  /\ pc = "decidestop"
  /\ \/ /\ "stop" \in Datastatusdata                          \* above 10
        /\ DriverStatus' = EndDrive(DriverStatus \cup {"STOP"})
        /\ AlarmFlag' = AlarmFlag \ {"OVER_TIME"}
        /\ owed' = IF "OVERTIME" \in DriverStatus THEN 1 ELSE owed
        /\ Goto("endwarn")
     \/ /\ "stop" \in Datastatusdata                          \* or not
        /\ DriverStatus' = DriverStatus \cup {"STOP"}
        /\ UNCHANGED <<AlarmFlag, owed>> /\ Goto("card")
     \/ /\ "stop" \notin Datastatusdata
        /\ UNCHANGED <<DriverStatus, AlarmFlag, owed>> /\ Goto("card")
  /\ UNCHANGED <<timer, timeflag, Datastatusdata, reg, CurSpeed, card, logs, seen, same>>

\* mutant: the counter goes on
ResetWarningNot(p, k, next) ==
  /\ pc = p /\ Goto(next)
  /\ UNCHANGED <<timer, timeflag, Datastatusdata, reg, CurSpeed, DriverStatus,
                 AlarmFlag, card, logs, hist>>

ResetWarning(p, k, next) ==
  /\ pc = p /\ Goto(next)
  /\ Time30mincnt' = [Time30mincnt EXCEPT ![k] = 0]
  /\ UNCHANGED <<timecnt, Time10sCnts, Time10sCnte, timeflag, Datastatusdata, reg,
                 CurSpeed, DriverStatus, AlarmFlag, card, logs, hist>>

EndWarn == ResetWarning("endwarn", 1, "card")

PointStatus ==
  IF "STOP" \in DriverStatus
  THEN IF DoubltPointstatus = "start" THEN "end" ELSE DoubltPointstatus
  ELSE IF "STAR" \in DriverStatus THEN "start" ELSE "none"

\* The state of the suspect-point record follows; then IckaHandler samples the
\* card contact, anew in each of its three conditions.
Card ==
  /\ pc = "card"
  /\ DoubltPointstatus' = PointStatus
  /\ \/ /\ "card" \notin Datastatusdata                      \* the contact is closed
        /\ insertcount + 1 = Debounce
        /\ insertcount' = 0 /\ reg' = Datastatusdata /\ Goto("cardset")
        /\ UNCHANGED AlarmFlag
     \/ /\ "card" \notin Datastatusdata
        /\ insertcount + 1 # Debounce
        /\ insertcount' = insertcount + 1 /\ Goto("journal")
        /\ UNCHANGED <<AlarmFlag, reg>>
     \/ /\ "card" \in Datastatusdata                         \* it is open
        /\ reg' = Datastatusdata /\ Goto("cardclear")
        /\ UNCHANGED <<insertcount, AlarmFlag>>
     \/ /\ insertcount' = 0 /\ AlarmFlag' = AlarmFlag \cup {"NOT_RE"}  \* open, at last
        /\ Goto("journal") /\ UNCHANGED reg
     \/ /\ Goto("journal") /\ UNCHANGED <<insertcount, AlarmFlag, reg>>
  /\ UNCHANGED <<timer, timeflag, Datastatusdata, CurSpeed, DriverStatus,
                 DriverRegstatus, JournalRecordstatus, hist>>

\* a card is in: the driver is registered
CardSet ==
  /\ pc = "cardset" /\ Goto("cardwarn")
  /\ Datastatusdata' = reg \cup {"card"} /\ reg' = {}
  /\ DriverRegstatus' = "in" /\ AlarmFlag' = AlarmFlag \ {"NOT_RE"}
  /\ UNCHANGED <<timer, timeflag, CurSpeed, DriverStatus, insertcount, logs, hist>>

CardWarn == ResetWarning("cardwarn", 2, "journal")

\* the card is out: the drive of its driver ends
CardClear ==
  /\ pc = "cardclear" /\ Goto("cardend")
  /\ Datastatusdata' = reg \ {"card"} /\ reg' = {}
  /\ DriverRegstatus' = "out"
  /\ DriverStatus' = EndDrive(DriverStatus)
  /\ AlarmFlag' = AlarmFlag \ {"OVER_TIME"}
  /\ owed' = IF "OVERTIME" \in DriverStatus THEN 1 ELSE owed
  /\ UNCHANGED <<timer, timeflag, CurSpeed, insertcount, logs, seen, same>>

CardEnd == ResetWarning("cardend", 1, "journal")

\* the journal of speeds above 40 starts once
Journal ==
  /\ pc = "journal"
  /\ IF CurSpeed >= 2 /\ "fast" \notin Datastatusdata
     THEN reg' = Datastatusdata /\ Goto("fastset") ELSE reg' = reg /\ Goto("limit")
  /\ UNCHANGED <<timer, timeflag, Datastatusdata, CurSpeed, DriverStatus, AlarmFlag,
                 card, logs, hist>>

FastSet ==
  /\ pc = "fastset" /\ Goto("limit")
  /\ Datastatusdata' = reg \cup {"fast"} /\ reg' = {} /\ JournalRecordstatus' = "starttime"
  /\ UNCHANGED <<timer, timeflag, CurSpeed, DriverStatus, AlarmFlag, card,
                 DoubltPointstatus, hist>>

Limit ==
  /\ pc = "limit" /\ Goto("alarm1")
  /\ AlarmFlag' = IF CurSpeed = 3 THEN AlarmFlag \cup {"OVER_SPEED"}
                                  ELSE AlarmFlag \ {"OVER_SPEED"}
  /\ UNCHANGED <<timer, timeflag, Datastatusdata, reg, CurSpeed, DriverStatus, card,
                 logs, hist>>

-----------------------------------------------------------------------------
(* AlarmHandler, OverDriverHandler, DrvierRegisterHandler.                 *)

\* the counter of an alarm is started
Alarm(p, k, next) ==
  /\ pc = p /\ Goto(next)
  /\ Time30mincnt' = [Time30mincnt EXCEPT ![k] =
                        IF AlarmOf[k] \in AlarmFlag /\ @ = 0 THEN Voice ELSE @]
  /\ UNCHANGED <<timecnt, Time10sCnts, Time10sCnte, timeflag, Datastatusdata, reg,
                 CurSpeed, DriverStatus, AlarmFlag, card, logs, hist>>

Alarm1 == Alarm("alarm1", 1, "alarm2")
Alarm2 == Alarm("alarm2", 2, "alarm3")
Alarm3 == Alarm("alarm3", 3, "over")

OverDriverHandler ==
  /\ pc = "over" /\ Goto("register")
  /\ owed' = IF {"OVERTIME", "STOP_DRIVER"} \subseteq DriverStatus THEN 0 ELSE owed
  /\ UNCHANGED <<timer, timeflag, Datastatusdata, reg, CurSpeed, DriverStatus,
                 AlarmFlag, card, logs, seen, same>>

DrvierRegisterHandler ==
  /\ pc = "register" /\ Goto("take200")
  /\ DriverRegstatus' = "none"
  /\ UNCHANGED <<timer, timeflag, Datastatusdata, reg, CurSpeed, DriverStatus,
                 AlarmFlag, insertcount, logs, hist>>

-----------------------------------------------------------------------------
Thread ==
  \/ Take200 \/ Clear200 \/ Take1s \/ Clear1s \/ Take1min \/ Clear1min
  \/ Arm \/ Test \/ Set \/ Disarm \/ Load \/ Store \/ Decide \/ DecideStop \/ EndWarn
  \/ Card \/ CardSet \/ CardWarn \/ CardClear \/ CardEnd
  \/ Journal \/ FastSet \/ Limit
  \/ Alarm1 \/ Alarm2 \/ Alarm3 \/ OverDriverHandler \/ DrvierRegisterHandler

Next == Tick \/ Thread

Spec == Init /\ [][Next]_vars

\* The timer interrupt keeps coming and the init thread, the highest of the
\* three in priority, keeps running.
FairSpec == Spec /\ WF_vars(Tick) /\ WF_vars(Thread)
-----------------------------------------------------------------------------
(* Properties.                                                             *)

\* a pass has seen the vehicle and not yet decided to leave the timers alone, or
\* not yet finished to set them
Swapping == {"disarm", "load", "store"}   \* one timer is set, the other state not yet cleared
Arming   == {"test", "set"} \cup Swapping

\* Type invariant.
TypeOK ==
  /\ timecnt \in [s : 0 .. SecTicks - 1, m : 0 .. MinTicks - 1, f : 0 .. FiveTicks - 1]
  /\ timeflag \in SUBSET TimeBits /\ Datastatusdata \in SUBSET DataBits
  /\ reg \in SUBSET (TimeBits \cup DataBits) /\ late \in 0 .. 2
  /\ Time10sCnts \in 0 .. Hold /\ Time10sCnte \in 0 .. Hold
  /\ Time30mincnt \in [1 .. 3 -> 0 .. Voice \cup {Played}]
  /\ CurSpeed \in Speeds /\ DriverStatus \in SUBSET DriveFlags
  /\ AlarmFlag \in SUBSET Alarms
  /\ insertcount \in 0 .. Debounce - 1 /\ DriverRegstatus \in {"none", "in", "out"}
  /\ DoubltPointstatus \in {"none", "start", "end"}
  /\ JournalRecordstatus \in {"none", "starttime", "data"}
  /\ pc \in Window \cup {"take200", "take1s", "take1min", "arm", "test", "set", "decide",
                         "decidestop", "endwarn",
                         "card", "cardwarn", "cardend", "journal", "limit",
                         "alarm1", "alarm2", "alarm3", "over", "register"}
  /\ seen \in {"rest", "motion"} /\ same \in 0 .. Hold /\ owed \in {0, 1}

\* Start and stop are timed and confirmed one at a time: outside the few
\* instructions from setting a timer to clearing the other state, the interrupt
\* never finds both timers running, both bits set, or a bit set while the timer
\* of the other state runs, wherever it hits the code that tests, sets and clears
\* them: a timer may run out between the test of its bit and its own test, be
\* armed again for a state already confirmed, or run out while it is stopped.
HoldExclusive ==
  pc \notin Swapping =>
    /\ ~({"start", "stop"} \subseteq Datastatusdata)
    /\ Time10sCnts > 0 => Time10sCnte = 0 /\ "stop" \notin Datastatusdata
    /\ Time10sCnte > 0 => "start" \notin Datastatusdata

\* keepstart10s and keepstop10s mean what they say: every pass of
\* ValueStatusHandler in the last Hold seconds saw motion (rest), whatever the
\* interrupt did between the checks of a pass.
Sustained ==
  pc \notin Arming =>
    /\ "start" \in Datastatusdata => seen = "motion" /\ same >= Hold
    /\ "stop" \in Datastatusdata => seen = "rest" /\ same >= Hold

\* The driving flags set by ValueStatusHandler and by IckaHandler agree: only
\* a running drive is overtime, an ended drive does not run, and the alarm of a
\* drive is on only in an overtime drive.
StatusConsistent ==
  /\ "OVERTIME" \in DriverStatus => "STAR" \in DriverStatus
  /\ "STOP_DRIVER" \in DriverStatus => "STAR" \notin DriverStatus
  /\ "OVER_TIME" \in AlarmFlag => "OVERTIME" \in DriverStatus

\* The interrupt counts towards the voice warning of an alarm only while that
\* alarm is on, but for the instructions between taking the alarm back and
\* resetting its counter.  (The counter of OVER_SPEED is never reset.)
WarnedOnlyInAlarm ==
  /\ Time30mincnt[1] > 0 => "OVER_TIME" \in AlarmFlag \/ pc \in {"endwarn", "cardend"}
  /\ Time30mincnt[2] > 0 => "NOT_RE" \in AlarmFlag \/ pc = "cardwarn"

\* The strengthening that makes the invariants above inductive.  A loaded byte
\* holds no bit that the byte in memory lost, so a store takes nothing over
\* from one byte to the other and only loses bits.
RegInv ==
  /\ pc \in {"clear200", "clear1s", "clear1min"} => reg \subseteq TimeBits
  /\ pc \in {"store", "cardset", "cardclear", "fastset"} => reg \subseteq Datastatusdata

\* A running timer has the seconds still missing.  While a pass decides about
\* the timer of the state it saw, the one of the other state may be running,
\* until Disarm, and this state be confirmed, until Store.
ArmInv ==
  /\ pc \notin Arming =>
       /\ Time10sCnts > 0 => seen = "motion" /\ same + Time10sCnts >= Hold
       /\ Time10sCnte > 0 => seen = "rest" /\ same + Time10sCnte >= Hold
  /\ pc \in Arming =>
       /\ seen = Sight
       /\ Moving => /\ "start" \in Datastatusdata => same >= Hold
                    /\ Time10sCnts > 0 => same + Time10sCnts >= Hold
                    /\ pc \in {"load", "store"} => Time10sCnte = 0
       /\ ~Moving => /\ "stop" \in Datastatusdata => same >= Hold
                     /\ Time10sCnte > 0 => same + Time10sCnte >= Hold
                     /\ pc \in {"load", "store"} => Time10sCnts = 0

IInv == TypeOK /\ RegInv /\ ArmInv /\ HoldExclusive /\ Sustained
          /\ StatusConsistent /\ WarnedOnlyInAlarm

\* A vehicle that keeps moving is seen as driving again and again, once the
\* card is left alone and no byte is held while two interrupts come (then the
\* store could undo the same bit for ever).
DriveNoticed ==
  <>[](CurSpeed > 0 /\ pc \notin {"cardset", "cardclear"} /\ late < 2)
    => []<>("STAR" \in DriverStatus)

\* JournalHandle runs once for every second the interrupt announces: only it
\* takes back Time1sflag.
JournalEverySecond ==
  [][pc # "clear1s" => timeflag \cap {"t1s"} \subseteq timeflag']_vars

\* When OverDriverHandler has run, the record of an overtime drive that ended
\* is written.
OvertimeRecorded == pc = "register" => owed = 0
=============================================================================
