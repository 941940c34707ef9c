------------------------------ MODULE RunRecord ------------------------------
(***************************************************************************)
(* The blocks of driving data the recorder keeps (bsp/vtdr/DataManager.c): *)
(* BaseDataHandler samples the speed every second into basedata and writes *)
(* a block every minute, LocationHandler does the same for the minutes of  *)
(* an hour, WriteRecordData2Flash puts a block into its partition.         *)
(*                                                                         *)
(* Both handlers run in the loop of the "init" thread behind               *)
(* GetSpeedandTime, which copies the real-time clock to curTime and tells  *)
(* them through TimeChange what changed, and ValueStatusHandler, which     *)
(* decides whether the vehicle is driving (module DriveMonitor; here any   *)
(* answer).  The timer interrupt sets one flag per second and one per 60   *)
(* seconds: a pass of the loop that takes longer loses seconds.  The GPS    *)
(* receiver's interrupt and the PC's command set the clock.                *)
(*                                                                         *)
(* A speed is known by the time of its sample, while the block is open in  *)
(* which it was taken; later it is Old.  A block on the flash is known by  *)
(* its minute and by its wrong slots: those that hold neither the speed of *)
(* their second nor the mark of rest, although their second was handled.   *)
(* Of the hour block only what InRecordCycle says of it is modelled.       *)
(***************************************************************************)
EXTENDS Integers

CONSTANTS
  Secs,       \* seconds in a minute, 60
  Mins,       \* minutes in an hour, 60
  Minutes,    \* minutes until the calendar starts again
  Slots,      \* blocks that fit into the partition BaseData
  MaxUpset    \* bound: seconds the loop misses, seconds the clock gains or loses
              \* against the timer, and settings of the clock

ASSUME ConstantsAssumption ==
  /\ Secs \in Nat /\ Secs >= 2 /\ Mins \in Nat \ {0}
  /\ Minutes \in Nat \ {0} /\ Minutes % Mins = 0
  /\ Slots \in Nat \ {0} /\ MaxUpset \in Nat

VARIABLES
  clock,              \* the real-time clock
  Time1sCnt,          \* the interrupt's count of seconds, 0 at a minute's end
  timeflag,           \* its bits for GetSpeedandTime
  upsets,             \* history: what MaxUpset bounds
  pc,                 \* the handler the thread calls next
  curTime,
  driving,            \* DriverStatus & DRIVING_STAR
  TimeChange, InRecordCycle,
  clk, speed,         \* basedata: basedataclk, as its minute's number; speed
  CurPoint,           \* pTable.BaseData.CurPoint, as the number of a slot
  flash,              \* the partition BaseData
  missed,             \* history: slots of the open block whose second was not handled:
                      \* it was lost, jumped over by a setting of the clock, or
                      \* in it a drive ended
  gap                 \* history: while the block was open, second 0 was lost or read
                      \* twice, or the clock was set beyond its minute

rtc   == <<clock, Time1sCnt, upsets>>
table == <<CurPoint, flash>>
basedata == <<clk, speed>>
note  == <<missed, gap>>
vars  == <<rtc, timeflag, pc, curTime, driving, TimeChange, InRecordCycle,
           basedata, table, note>>

Index == 0 .. Secs - 1
Time  == [m : 0 .. Minutes - 1, s : Index]

NextMinute(m) == IF m = Minutes - 1 THEN 0 ELSE m + 1
After(t) == IF t.s = Secs - 1 THEN [m |-> NextMinute(t.m), s |-> 0]
                              ELSE [m |-> t.m, s |-> t.s + 1]

Rest  == [m |-> -1, s |-> -1]          \* 0xff in place of a speed
Old   == [m |-> -2, s |-> -2]          \* whatever was there before
Sample == Time \cup {Rest, Old}

\* A block on the flash: its minute, -1 for none, and its wrong slots.
Block == [clk : -1 .. Minutes - 1, wrong : SUBSET Index]

Stale   == [i \in Index |-> Old]
NoBlock == [clk |-> -1, wrong |-> {}]

Init ==
  /\ clock \in Time /\ Time1sCnt \in Index /\ timeflag = {} /\ upsets = 0
  /\ pc = "sample" /\ curTime = clock /\ driving = FALSE
  /\ TimeChange = {} /\ InRecordCycle = {}
  /\ clk = -1 /\ speed = Stale
  /\ CurPoint = 0 /\ flash = [k \in 0 .. Slots - 1 |-> NoBlock]
  /\ missed = {} /\ gap = FALSE

\* a block of basedata is open
Open == "BASE" \in InRecordCycle

-----------------------------------------------------------------------------
\* mutant: the count is not reset
CountOn(n) == n + 1

\* `Time1sCnt++', and back to 0 after 59
Count(n) == IF n = Secs - 1 THEN 0 ELSE n + 1

\* Time3_irg_handler, at every second of the timer.  The clock has a quartz of
\* its own: now and then it stands still for a second, or gains one.
Tick ==
  /\ \E t \in {clock, After(clock), After(After(clock))} :
       /\ clock' = t
       /\ upsets' = upsets + (IF "t1s" \in timeflag THEN 1 ELSE 0)
                           + (IF t = After(clock) THEN 0 ELSE 1)
  /\ upsets' <= MaxUpset
  /\ Time1sCnt' = Count(Time1sCnt)
  /\ timeflag' = timeflag \cup {"t1s"} \cup IF Time1sCnt = Secs - 1 THEN {"t1min"} ELSE {}
  /\ UNCHANGED <<pc, curTime, driving, TimeChange, InRecordCycle, basedata, table, note>>

\* mutant: the index of a speed is its second
SlotPlain(s) == s

\* the speed of second s goes here while the vehicle drives
Slot(s) == IF s = 0 THEN Secs - 1 ELSE s - 1

\* the first slot whose second was not handled yet
Due == IF "SECOND" \in TimeChange THEN Slot(curTime.s) ELSE curTime.s

\* The slots nobody writes when Due moves from d to e: at rest d is marked.
Skipped(d, e) == IF driving THEN d .. e - 1 ELSE d + 1 .. e

\* a reading of the clock after the reading t shows the same minute, or second
\* 0 of the next one
Follows(u, t) == (u.m = t.m /\ u.s # 0) \/ u = [m |-> NextMinute(t.m), s |-> 0]

\* The flags are taken at once: a second that falls between the test and the
\* reset of its flag is lost like one that falls on a flag still set.
GetSpeedandTime ==
  /\ pc = "sample" /\ pc' = "status"
  /\ timeflag' = {}
  /\ curTime' = IF "t1s" \in timeflag THEN clock ELSE curTime
  /\ TimeChange' = TimeChange \cup (IF "t1s" \in timeflag THEN {"SECOND"} ELSE {})
                              \cup (IF "t1min" \in timeflag THEN {"MINUTE"} ELSE {})
  /\ missed' = IF Open THEN missed \cup Skipped(Due, Due') ELSE missed
  /\ gap' = (gap \/ (Open /\ "t1s" \in timeflag /\ ~Follows(clock, curTime)))
  /\ UNCHANGED <<rtc, driving, InRecordCycle, basedata, table>>

\* GetTheGPSTime (interrupt) and Set_Curtime ("led" thread) write curTime and
\* set the clock to it.
SetCurrentDateTime ==
  /\ upsets < MaxUpset /\ upsets' = upsets + 1
  /\ \E t \in Time :
       /\ clock' = t /\ curTime' = t
       /\ gap' = (gap \/ (Open /\ ~(/\ t.m = curTime.m
                                    /\ "SECOND" \in TimeChange => 0 \notin {t.s, curTime.s})))
  /\ UNCHANGED <<Time1sCnt, timeflag, pc, driving, TimeChange, InRecordCycle, basedata,
                 table>>
  /\ missed' = IF Open THEN missed \cup Skipped(Due, Due') ELSE missed

ValueStatusHandler ==
  /\ pc = "status" /\ pc' = "base"
  /\ driving' \in BOOLEAN
  /\ missed' = IF Open /\ driving /\ ~driving' THEN missed \cup {Due} ELSE missed
  /\ UNCHANGED <<rtc, timeflag, curTime, TimeChange, InRecordCycle, basedata, table, gap>>

-----------------------------------------------------------------------------
(* BaseDataHandler.                                                        *)

\* The time whose speed belongs into slot i of the open block: the second behind
\* i.
Stamp(i) == IF i = Secs - 1 THEN [m |-> NextMinute(clk), s |-> 0] ELSE [m |-> clk, s |-> i + 1]

\* Of a block with a gap only the second is known: when its minute's end was
\* lost, the code fills the next minute into it.
Right(v, i) == v = Rest \/ v = Stamp(i) \/ (gap /\ v.s = Stamp(i).s)

Foreign(sp) == {i \in Index : ~Right(sp[i], i)}

Wrong(sp) == Foreign(sp) \ missed

\* WriteRecordData2Flash and MovePtablePtr.  CurPoint is the start of a sector,
\* so nothing in front of the block has to be written again; both take the
\* entry of pTable by value, so it is a copy that moves.
WriteRecordData2Flash(sp) ==
  /\ flash' = [flash EXCEPT ![CurPoint] =
                 [clk |-> clk, wrong |-> Wrong(sp)]]
  /\ UNCHANGED CurPoint

\* driving, second 0: the open block is complete, and a new one starts; what is
\* in basedata stays there, as the speeds of an earlier block
BaseMinute ==
  /\ driving /\ "SECOND" \in TimeChange /\ curTime.s = 0
  /\ IF Open THEN WriteRecordData2Flash([speed EXCEPT ![Slot(0)] = curTime])
             ELSE UNCHANGED table
  /\ clk' = curTime.m /\ speed' = Stale
  /\ InRecordCycle' = InRecordCycle \cup {"BASE"}
  /\ missed' = {} /\ gap' = FALSE

BaseSecond ==
  /\ driving /\ "SECOND" \in TimeChange /\ curTime.s # 0
  /\ speed' = [speed EXCEPT ![Slot(curTime.s)] = IF Open THEN curTime ELSE Old]
  /\ missed' = missed \ {Slot(curTime.s)}
  /\ UNCHANGED <<clk, InRecordCycle, table, gap>>

\* mutant: the bit in InRecordCycle is kept
RestMinuteKeeps ==
  /\ ~driving /\ Open /\ "SECOND" \in TimeChange /\ curTime.s = 0
  /\ WriteRecordData2Flash(speed)
  /\ UNCHANGED <<InRecordCycle, basedata, note>>

\* at rest, second 0: the open block is written and no new one starts
RestMinute ==
  /\ ~driving /\ Open /\ "SECOND" \in TimeChange /\ curTime.s = 0
  /\ WriteRecordData2Flash(speed)
  /\ InRecordCycle' = InRecordCycle \ {"BASE"}
  /\ speed' = Stale /\ missed' = {} /\ gap' = FALSE
  /\ UNCHANGED clk

RestSecond ==
  /\ ~driving /\ Open /\ "SECOND" \in TimeChange /\ curTime.s # 0
  /\ speed' = [speed EXCEPT ![curTime.s] = Rest]
  /\ missed' = missed \ {curTime.s}
  /\ UNCHANGED <<clk, InRecordCycle, table, gap>>

BaseDataHandler ==
  /\ pc = "base" /\ pc' = "location"
  /\ \/ /\ BaseMinute \/ BaseSecond \/ RestMinute \/ RestSecond
        /\ TimeChange' = TimeChange \ {"SECOND"}
     \/ /\ ~(driving \/ Open) \/ "SECOND" \notin TimeChange
        /\ UNCHANGED <<TimeChange, InRecordCycle, basedata, table, note>>
  /\ UNCHANGED <<rtc, timeflag, curTime, driving>>

-----------------------------------------------------------------------------
(* LocationHandler.  At rest in minute 0 it means to close its own block.  *)

\* mutant: the block is closed in every minute
AnyMinute == TRUE

OnTheHour == curTime.m % Mins = 0

LocationHandler ==
  /\ pc = "location" /\ pc' = "sample"
  /\ IF "MINUTE" \in TimeChange /\ (driving \/ "LOCATION" \in InRecordCycle)
     THEN /\ TimeChange' = TimeChange \ {"MINUTE"}
          /\ InRecordCycle' = IF ~OnTheHour THEN InRecordCycle
                              ELSE IF driving THEN InRecordCycle \cup {"LOCATION"}
                              ELSE InRecordCycle \ {"BASE"}
     ELSE UNCHANGED <<TimeChange, InRecordCycle>>
  /\ UNCHANGED <<rtc, timeflag, curTime, driving, basedata, table, note>>

Thread == GetSpeedandTime \/ ValueStatusHandler \/ BaseDataHandler \/ LocationHandler

Next == Tick \/ SetCurrentDateTime \/ Thread

Spec == Init /\ [][Next]_vars

\* The timer runs and the "init" thread keeps its loop.
FairSpec == Spec /\ WF_vars(Tick) /\ WF_vars(Thread)

-----------------------------------------------------------------------------
(* Properties.                                                             *)

\* Type invariant: times of the calendar, samples in their slots.
TypeOK ==
  /\ clock \in Time /\ Time1sCnt \in Index /\ upsets \in 0 .. MaxUpset
  /\ timeflag \subseteq {"t1s", "t1min"}
  /\ pc \in {"sample", "status", "base", "location"}
  /\ curTime \in Time /\ driving \in BOOLEAN
  /\ TimeChange \subseteq {"SECOND", "MINUTE"}
  /\ InRecordCycle \subseteq {"BASE", "LOCATION"}
  /\ clk \in -1 .. Minutes - 1 /\ speed \in [Index -> Sample]
  /\ CurPoint \in 0 .. Slots - 1
  /\ flash \in [0 .. Slots - 1 -> Block]
  /\ missed \subseteq Index /\ gap \in BOOLEAN

\* A block on the flash holds, slot by slot, the speed of its own second or the
\* mark of rest.  What an earlier minute left in basedata is only in the slots
\* whose second was never handled: the loop lost it, a setting of the clock
\* jumped over it, or a drive ended in it.  The second is one of the block's own
\* minute, unless second 0 was lost or read twice while the block was open, or
\* the clock was set beyond that minute.
BlockSound == \A k \in 0 .. Slots - 1 : flash[k].wrong = {}

\* What BlockSound rests on: the second is handled before the next pass, the
\* clock stands in the minute of the open block, or at its end, and the slots
\* before Due, at rest with Due, are sound.
SecondHandled == pc \in {"location", "sample"} => "SECOND" \notin TimeChange

InItsMinute ==
  ~gap => \/ clk = curTime.m /\ ("SECOND" \in TimeChange => curTime.s # 0)
          \/ "SECOND" \in TimeChange /\ curTime = [m |-> NextMinute(clk), s |-> 0]

SlotsSound == \A i \in Foreign(speed) : i < Due \/ (~driving /\ i = Due) => i \in missed

OpenSound == Open => SecondHandled /\ InItsMinute /\ SlotsSound

\* LocationHandler clears the bit of BaseDataHandler: the open block is then
\* lost.  A block is lost so in the first minute of an hour only, unless second
\* 0 behind the block was lost or read twice, so that it is still open in a
\* later minute, or the clock was set beyond the block's minute; every other one
\* is closed by BaseDataHandler alone, which writes it.
DroppedOnlyOnTheHour ==
  [][Open /\ ~Open' /\ pc = "location" /\ ~gap => clk % Mins = 0]_vars

\* A block that was opened does not stay open: it is written or dropped.
BlockLeaves ==
  \A m \in 0 .. Minutes - 1 :
    Open /\ clk = m ~> ~(Open /\ clk = m)

\* The partition keeps the blocks of 48 hours: as long as a slot is free, no
\* block is overwritten.
KeepsBlocks ==
  [][\A k \in 0 .. Slots - 1 :
       flash[k].clk # -1 /\ flash'[k] # flash[k]
         => \A j \in 0 .. Slots - 1 : flash[j].clk # -1]_vars
=============================================================================
