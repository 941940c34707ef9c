# A model of the vtdr vehicle travelling data recorder

vtdr is the firmware of a vehicle travelling data recorder (a tachograph) on an
STM32F10x with the RT-Thread 0.3.1 kernel. It counts the pulses of the wheel
sensor, decides when a drive begins and ends, warns the driver, keeps records on
a serial data flash and hands them to a PC over a serial line.

This directory holds TLA+ modules of its parts, TLC configurations that check
them on small instances, and TLAPS proofs of what can be proved for every
instance. `PROJECT.json` lists the runs, the source lines each definition stands
for, the hazards and the findings.

## The system

Three threads (`bsp/vtdr/application.c`) and the interrupt handlers share global
variables; there is no lock anywhere in the recorder's own code, and no interrupt
is masked outside the body of `rt_hw_serial_isr`.

| actor | priority | what it does |
|---|---|---|
| "init" thread | 8 | every tick: `GetSpeedandTime`, `ValueStatusHandler` (with `IckaHandler`), `AlarmHandler`, `BaseDataHandler`, `LocationHandler`, `OverDriverHandler`, `DrvierRegisterHandler`, `PowerHandle`, `ModifyHandle` |
| "usb" thread | 10 | USB host |
| "led" thread | 20 | keys, `rs232_handle_application` |
| TIM3 interrupt | - | 1 ms: `Time3_irg_handler`, prescalers, flags, timers, voice warnings |
| UART interrupts | - | `rt_hw_serial_isr`: PC frames (UART 2), GPS sentences (UART 3) |

### Components

| component | source | state | operations | how it interacts | what is hard |
|---|---|---|---|---|---|
| flash file system | `app/flashfile.c` | `block_map`, `nextBlockChain`, `flashFile[]`, the flash | append a record, allocate and release blocks, insert time tags, recover at boot | called by record writers; calls the flash driver | power failure in any operation, ring of blocks, offsets across blocks, gaps in time |
| PC link | `bsp/vtdr/serial.c`, `RS232.c` | the ring with its two indices, `getcmd`, the frame state machine, `paramodifystatus`, `Verificationstatus` | receive a byte; poll, decode, execute, release | interrupt fills, "led" thread drains, "init" thread records modifications | lock-free counter, ring wrap, damaged bytes |
| drive monitor | `bsp/vtdr/GetData.c`, `DataManager.c` | `timeflag`, `Datastatusdata`, the hold timers, `DriverStatus`, `AlarmFlag`, the warning counters | time, confirm, end a drive; warn; note the card | timer interrupt against "init" thread | bit-fields that share a byte, order of the handlers |
| run records | `bsp/vtdr/DataManager.c` | `pTable`, `basedata`, `Locationdata`, `TimeChange`, `InRecordCycle` | minute and hour blocks, event records | reads the drive monitor's flags, writes the data flash | flags shared by two handlers, BCD indices |
| menu, lcd, led, printer, voice | `bsp/vtdr/menu.c`, ... | pages | display | keys | - |
| drivers | `atmel_dataflash.c`, `rtc.c`, `usart.c`, `i2c_drv.c`, `gpio_drv.c`, `usb*` | device registers | bus traffic | - | - |
| kernel: IPC | `src/ipc.c` | semaphores, mutexes, events, mailboxes, message queues, each with the list of the threads that wait for it | take, release, send, receive, from threads and interrupts | suspends and resumes threads, starts and stops their timers | a time-out races a release, a woken thread is overtaken, a message is copied outside the critical section, priorities are lent and given back |
| kernel: scheduling | `src/thread.c`, `scheduler.c`, `timer.c`, `idle.c`, `clock.c` | ready table, current thread, tick counter, sorted timer list | suspend, resume, sleep, yield, tick | called by every kernel object and by the clock interrupt | the tick wraps, a thread is in several lists at once or in none |
| kernel: memory | `src/mempool.c`, `mem.c`, `slab.c` | free lists | allocate, free | the transmitter of `serial.c` allocates, its interrupt frees | blocking allocation: a woken thread finds no block |
| kernel: objects, devices, library | `src/object.c`, `device.c`, `kservice.c`, `module.c` | tables | look-up | - | - |

What makes the components correct: a file keeps a sound chain of blocks within
its limit and the newest records survive a power cut; every PC frame is executed
once, in order, with the data it carried; a drive is confirmed after the hold
time and only then, its flags never contradict each other, and nobody is warned
of an alarm that was taken back; a thread is in exactly the list its state says and
times out at the tick it asked for, a kernel object is handed to one thread at a
time, nothing sent is lost, doubled or mixed up, and nobody waits for what is there.

## Modules

### FlashFile: the flash file system

The C functions are operators on one record `s` with the RAM tables and the flash
contents; an action applies a top-level function to the variable `fs`.
`AppendRecord(f, d)` is the call of `flashfile_append_record` up to the loop of
`flashfile_append_data`; `InsertTag` is one round of that loop and `WriteData`
its end, so that a loop that does not end is a behaviour and not a hole in the
model. `Restart` lets a call begin or go on, cuts the power after 0 to 3 of its flash
operations (`fuel`; no part of a call makes more) and runs `flashfile_system_init`.

The contents of a byte are abstract: erased, the k-th byte of the tag or record of
a time, or garbled when two different values were programmed into it (NOR flash
keeps their AND). The header fields are integers of their real arithmetic: block
numbers and write counts fill a byte (modulo `NumBlocks`), the first tag's offset
its 12 bits (modulo `BlockSize`). An access outside the tables sets `wild`.
`GeometryAssumption` admits powers of two up to the real 256 blocks of 4096 bytes.
`flashfile_set_param` is assumed to follow every boot, as its comment demands. A tag that
goes over the end of a block when it is read comes from the next block of the device
(`ByteAt`). `Garbage` are the offsets to the next tag that the walk along the tags at boot
reads where no tag was written; zero and negative ones other than -1 are left out, for which
the walk stays where it is or turns round. The search for the last tag goes back along
`prev_block` from block 0 with no bound on its rounds: a search that has met neither a tag nor
the start block after `NumBlocks` rounds has met a block twice (`Stuck`), and the boot is then
`Hung`, where the behaviour ends. This is reachable: when block 0 was given up and erased, the
search starts in a block that is not the file's, reads the last byte of its header and the first
ones of block 1, and if they say -1, goes on to the last block, the `prev_block` of an erased
header and its own predecessor; if what is read behind the end of the device says -1 too, it
stays there. What the properties say of a restart they say of one that hangs too.

### SerialLink and CommandQueue: the PC link

`Receive` is the interrupt handler for one byte. The thread `rs232_handle_application`
is cut at every access to shared memory: `Poll`, `Clear`, `Loop`, `Decode`, `Mark`,
`Execute`, `Copy` (the copy of a setter, after its answer), `Fetch`/`Advance`
(`read_index = ...`) and `Load`/`Store` (`getcmd--`). `ModifyHandle` is the other
reader of `paramodifystatus`, `VerificationOver` the timer that ends verification.
The PC (`Send`) and the wire (`Damage`) are external. A damaged byte is lost
or replaced by 0, or a stray byte comes before it (a bad frame and then a good one
before the next poll is what makes `getcmd` exceed the error code, the one way into
`Clear`). The history variable `overtaken` counts the increments of `getcmd` that came between
`Load` and `Store` and were undone by the store. Such a frame waits in the ring until the next one
makes the thread look, so `QuietMeansServed` says that a quiet link holds exactly that many frames.

The interrupt handler lets fewer commands through (`HandlerCommands`) than the switch of
`rs232_handle_application` implements: 0xe0 to 0xe4, the verification of the recorder
(`RS232.c:2600`), are refused at their command byte (`serial.c:419`), undamaged or not, `getcmd`
becomes 0x7f and the command loop runs over what the ring holds. The switch and the handler
disagree there. `PeersFit` leaves these commands out, so that the run and the theorems say nothing
of a PC that sends them; of what follows a 0x7f, `HandlerReturns` says that the loop ends.

`CommandQueue` is the abstract specification: a FIFO of commands, each executed
once. `InOrder` is the refinement of it by `SerialLink`: the queue is the sequence
of frames completely received and not executed.

The echo of each received byte, the text of the answers and the parameter table
on flash are left out.

### DriveMonitor and DriveMonitorProofs: the drive monitor

`Tick` is `Time3_irg_handler` at every 200th interrupt, atomic. The thread runs
through `pc`, one value per access to a variable the interrupt writes:
`Take200`..`Clear1min` are `GetSpeedandTime` (a flag is tested; the byte `timeflag`
is loaded; the byte without the bit is stored), `Arm`..`DecideStop`, `EndWarn`,
`Card`..`CardEnd`, `Journal`, `FastSet`, `Limit` are
`ValueStatusHandler` with `IckaHandler`, `Alarm1` to `Alarm3` the counters of
`AlarmHandler`, and the two handlers behind it one action each. Arming a timer
(`DataManager.c:927-945`) takes six accesses: the confirmation bit is tested (`Arm`),
the timer is tested (`Test`) and set (`Set`), the other timer is stopped (`Disarm`), its
bit is cleared by a load and a store. So the interrupt may take the timer from 1 to 0
and confirm the state between `Arm` and `Test`, after which the thread arms the
timer of a confirmed state once more; the invariants hold there too. A byte of bit-fields is the set of its bits that are set; `reg` is the byte
loaded.

The time since the start of a drive is an arbitrary input (`over`), as is the
outcome of the comparison with the uninitialised `timenowmin`. Fields that nothing
writes (`keepspeed5min`, `locationchagestatus`, `keeplocation10s`) are zero, and what
they guard (`ALARM_SPEED_ABOR`, the states `NORMAL` and `ABORT` of the journal) is
left out. `Ver_handle_application` is called nowhere. The speed is one of four
classes, enough for every comparison with it.

`seen`, `same` and `owed` are history variables: what the passes of
`ValueStatusHandler` saw and for how long, and whether an overtime drive ended
without its record.

### RunRecord and RunRecordProofs: the blocks of a minute

The loop of the "init" thread behind the drive monitor, one action per handler:
`GetSpeedandTime` (the second and minute flags, `curTime`), `ValueStatusHandler` (here
only its answer `driving`, which may be anything: DriveMonitor is about when it
changes), `BaseDataHandler` with its four cases `BaseMinute`, `BaseSecond`,
`RestMinute`, `RestSecond`, and `LocationHandler`. `WriteRecordData2Flash` stands for
the write and for `MovePtablePtr`. `Tick` is a second of the timer, in which the
real-time clock, whose minutes begin at different ticks and whose quartz is another one,
moves on by none, one or two seconds; `SetCurrentDateTime` is the
GPS interrupt or the PC's command. A command's bytes are stored in one step, though
the "led" thread that stores them may be preempted.

The length of the minute and of the hour and the number of slots are constants. A
speed is known by the time of its sample as long as the block is open in which it was
sampled, and is `Old` afterwards; `Rest` is the mark 0xff. A block on the flash is
known by its minute and by its wrong slots: those that hold something else than the
speed of their second or the mark, although their second was handled. Two history
variables say what the properties except, and no more:

- `missed`, the slots of the open block whose second was not handled: seconds the loop
  lost, seconds a setting of the clock jumped over, and the second in which a drive
  ended (the code marks the slot of the next second and leaves this one as an earlier
  minute left it). A slot that is written later is no longer missed.
- `gap`, set when second 0 was lost or read twice while the block was open, or the clock was
  set beyond its minute. The code then fills the next minute into the block: its
  slots still hold the right seconds (`Right`), but not all of one minute, and
  `LocationHandler` may drop it in a minute that is not its own.

`upsets` bounds lost seconds, seconds the clock gains or loses, and settings.

`pTable.BaseData.CurPoint` is the start of a sector, so `Update4k` programs nothing
before the block. Left out: the contents of the hour block, the event records, a
power failure, the read-back of the blocks.

### Kernel: threads, objects and the programs that use them

`KernelThreads` has what the kernel objects share: the ready table, the suspend
lists, the sorted timer list and the clock, and the operators `Suspend` and `Resume`
that every object uses. One module for each object extends it: `Semaphore`, `Mutex`,
`Event`, `Mailbox`, `MessageQueue`, `MemPool`. `Kernel` composes them all.

One step is one critical section (`rt_hw_interrupt_disable` to `_enable`); what a call
does after it was suspended is an action of its own (`SemTaken`, `MutexTaken`,
`EvReceived`, `MbSendGoesOn`, ...), because a thread that was resumed runs when the
scheduler comes to it, and others may call first. The two loops that run with the
interrupts disabled, `rt_timer_check` and `rt_event_send`, take one step for each timer
or thread while `masked` keeps everybody else out. `rt_mq_send` and `rt_mq_recv` copy the
message with the interrupts enabled: they have two steps, between which the thread
holds the slot.

`op[t]` is the call a thread has not returned from, `left` and `since` the time-out and
the `tick_delta` of a call that may wait again. Suspending with time-out 0 or for
ever, recursion of mutexes (`hold`), priority and FIFO order of the suspend lists (LIFO
for the pool), time slices and the change of a priority are modelled. `Remaining`, the time-out
calculated again behind a wait, is not below 0: the code takes the difference of 32 bit ticks,
which is right as long as a thread runs again within half their range after its time-out,
24 days at a tick of 1 ms; a longer starvation is not modelled.

A program is one of `Jobs`, chosen in `Init`: a job says which calls a thread makes, in any
order and number, and which an interrupt makes. `given`, `taken` and `locks` are what the
program knows; a mutex is released only by a thread that took it (any other release is
refused, `MutexRefused`), and a block is freed only after it was allocated.

`BoundedQueue` is the abstract specification of both mailbox and message queue: what is
put, or pushed in front, is got once, in order. `Mailbox!MailFifo` and
`MessageQueue!MessagesInOrder` are the two refinements; the first maps the ring of the
mailbox, the second the slots linked in the queue with what is written in them.

## Runs

The longest run (`link_frames`) takes about two minutes on two cores, `kernel` about one.

| run | what it asks | bounds, and why they are enough |
|---|---|---|
| `flash_file` | `TypeOK`, `NoWild`, `ChainInFile`, `WithinLimit`, `NoGarble`, `HeadsTrue`, `RetainsNewest`, `LoopProgress`, `RestartWithinLimit` and `RestartKeepsRecords` when the power fails | 4 blocks of 16 bytes and one of two ways (`Uses`, chosen in `Init`) to use the file: with a limit of 3 blocks: records 1 to 3 s apart until time 20, in which tags and records end at, and run over, every offset of a block; a record every second until time 40, in which the ring of blocks turns several times, with the power cut at every flash operation of every call |
| `flash_hang` (violation) | `AppendReturns` | a gap of 3 s suffices |
| `flash_recovery` (violation) | `RecoversFiles` | one restart, after the first record |
| `link_frames` | `TypeOK`, `Aligned`, `NeverOverDispatch`, `NoFalseError`, `StoresWhatWasSent`, `QuietMeansServed`, refinement `InOrder`, liveness `Answered`, `HandlerReturns` | ring of 32 and one of two PCs (`Peers`, chosen in `Init`): one with up to 2 unanswered frames of 7 and 9 bytes, unlimited in number, so that frames start at every offset of the ring and the interrupt comes between any two accesses of the thread; a patient one whose frame may be damaged, with one more frame after it; error code 4 of 8 values of `getcmd` |
| `link_wrap` (violation) | `SettingStored` | a few frames |
| `drive_monitor` | `TypeOK`, `HoldExclusive`, `Sustained`, `StatusConsistent`, `WarnedOnlyInAlarm`, liveness `DriveNoticed` | hold 2, 2 ticks per second, voice 2, debounce 2, speeds rest and above the limit: all counters reach their ends and wrap; the interrupt comes between any two accesses, and also lets a timer run out between the test of its bit and its own test |
| `drive_second` (violation) | `JournalEverySecond` | - |
| `drive_overtime` (violation) | `OvertimeRecorded` | - |
| `run_blocks` | `TypeOK`, `BlockSound`, `DroppedOnlyOnTheHour`, liveness `BlockLeaves` | minutes of 3 s, hours of 2 minutes, drives that begin and end at any pass, one lost second, one second more or less of the clock or one setting of it: a block has a first, a middle and a last second, a minute that begins the hour and one that does not, and the flags of second and minute come in any order |
| `run_retention` (violation) | `KeepsBlocks` | two slots, two blocks |
| `kernel` | `TypeOK`, `ThreadLists`, `TimersInOrder`, `SemSound`, `MutexSound`, `Inherited`, `NobodyWaitsInVain`, `PoolSound`, refinements `MailFifo` and `MessagesInOrder`, liveness `TimedCallReturns` | three threads, one urgent and two of the same priority, time-outs of 0, 1, 2 ticks and for ever, ticks of 7 values so that timers are started across the wrap, mailbox and queue of two, two mutexes taken twice at most, and eight jobs (below) |
| `kernel_pool` (violation) | `AllocReturnsBlock` | two threads allocate from a pool of two blocks |

The flash runs and their models stop at time `use.until`, which is why their deadlock
check is off; the others run for ever and TLC checks that they never get stuck.

The jobs of `MCKernel` are one per way to use an object: a unit shared by threads and an
interrupt; one mutex of threads of two priorities; two mutexes nested and released in any
order; events with AND, OR and CLEAR, sent by a thread and an interrupt; two senders
to a full mailbox; two readers of an empty one; urgent and normal messages of threads and
an interrupt; a pool with one allocating thread. Three threads are enough for a woken
thread to be overtaken by one that calls and by one that times out. A job mixes the
objects with `sleep`, so that the timers of several calls are in the list. All jobs
together have 224 000 states.

`Inherited` speaks of one mutex in the order of priority: with two nested mutexes the
code gives back the priority it found when each was taken, and a release in another order
leaves a thread with a priority it was lent. `PoolSound` speaks of a pool with one
thread that waits without time-out, the use of `serial.c`; two threads are the finding.

`RetainsNewest` asks for fewer records than the limit holds when the head was just
released: a file of n blocks promises n - 1 blocks of records. The run asks for 6 of them, one
more than the bound of the theorem (`RetainFits`, see Proofs), which allows every tag to lose
bytes at the end of a block.

`NoGarble` speaks of the bytes behind the headers. The header of a file's first block is
programmed twice with different values (`flashfile.c:288` and 438): `HeadsTrue` says that it is
the only one, and what it reads as then (`Printed`); with a header of four bytes the offset of
the first tag is 0, and this is what `flash_recovery` meets at the next boot. What a boot finds
otherwise is compared with `block_map` by `HeadsTrue`, for every block appended while a file turns over.

`JournalEverySecond`, `SettingStored`, `RecoversFiles`, `AppendReturns`, `OvertimeRecorded`,
`KeepsBlocks` and `AllocReturnsBlock` state what comments of the source say; the code does not do it,
and the findings in `PROJECT.json` quote the line and tell what the trace shows.

Hazards that the runs exclude by their bounds: with two files the first block of
the second is chained behind block 0 and `ChainInFile` does not hold; with a limit
of one block a file comes to own two. Both are listed with their lines.

## Fairness

- FlashFile: the rounds of the append loop and its end (`FairSpec`), because the
  calling thread keeps running. Records need not keep coming.
- SerialLink: `Receive` (the bytes of a frame that is being sent arrive) and `Thread`
  (the "led" thread is polled for ever). The PC need not send.
- DriveMonitor: `Tick` (the timer runs) and `Thread` (the "init" thread has the
  highest priority of the three). `DriveNoticed` also assumes that from some time on
  no byte is held across two interrupts, 200 ms each: without it an interrupt could
  hit the same store every time. That is a matter of execution times, which the
  model does not have.

- RunRecord: `Tick` and `Thread`, for the same reasons. Drives need neither begin nor
  end; `BlockLeaves` rests on the bound on lost seconds and settings of the clock,
  since every minute could lose its second 0.

- Kernel: WF of the clock (the tick interrupt comes, and ends), and SF of `GoOn(t)`: a
  thread that is again and again the running one gets on with the call it waited in.
  A tick is long compared with a critical section, so the thread executes an
  instruction in one of its turns, but between two of them it may be interrupted or
  preempted, which is why weak fairness would not do. No thread needs to call,
  and no scheduling of threads of lower priority is assumed: `TimedCallReturns` says so
  in its premise.

## Proofs

`DriveMonitorProofs` proves for every value of the constants (`ConstantsAssumption`:
the prescalers, the hold time, the debounce count are positive, the voice delay is
below the mark 255, the speeds include rest) that

- `TypeCorrect`: `Spec => []TypeOK`
- `HoldExclusiveAlways`: `Spec => []HoldExclusive`
- `SustainedAlways`: `Spec => []Sustained`
- `StatusConsistentAlways`: `Spec => []StatusConsistent`
- `WarnedOnlyInAlarmAlways`: `Spec => []WarnedOnlyInAlarm`

All follow from `Inductive`: `IInv` holds initially (`InitIInv`) and every action keeps
it (`TypeStep`, `RegStep`, `HoldStep`, `StatusStep`, `WarnStep`). `IInv` adds two parts
to the invariants checked by TLC. `RegInv` says that a byte the thread has loaded
holds no bit that memory has lost since (the interrupt only sets bits), without
which a store could resurrect the bit of the other state. `ArmInv` says what
`HoldExclusive` and `Sustained` leave out: a running timer has exactly the seconds
still missing, and from the test of a confirmation bit to the clearing of the
other one, the state seen is the state being timed, and a timer armed again belongs to
a state that has lasted for `Hold` seconds.

`RunRecordProofs` proves, for every length of the minute (two seconds at least) and
of the hour, every number of slots and every bound on lost and doubled seconds and settings,

- `TypeCorrect`: `Spec => []TypeOK`
- `BlocksAlwaysSound`: `Spec => []BlockSound`
- `OnlyHourBlocksDropped`: `Spec => DroppedOnlyOnTheHour`

Their exceptions are those of the properties: the slots in `missed`, for the minute and
for the drop the blocks with a `gap`. A lost second other than 0 costs its own slot and
nothing else.

`BlockSound` speaks of blocks that are written; that a written block is sound
follows from what was collected before. `OpenSound` says so: the second is handled
before the next pass begins (`SecondHandled`), the clock stands in the open block's minute
or at second 0 behind it (`InItsMinute`), and the slots before the next one due (`Due`),
at rest with it, are sound or missed (`SlotsSound`). `MoveSound` proves that a reading
or a setting of the clock keeps the latter, `SecondSound`, `BaseSound` and `OpenStep` that the
steps keep them all, `WriteSound` and `BlockStep` that a write of such a block keeps
`BlockSound`, `DropStep` that `LocationHandler` drops in minute 0 of the block's own
hour only, because the clock stands in the block's minute by then. `Inductive`
combines them.

`KernelProofs`, `QueueProofs` and `WaitProofs` prove about the kernel, for any
set of threads, priorities, objects, time-outs, sizes and jobs,

- `KernelTypes`: `Spec => []TypeOK`, `KernelLists`: `Spec => []ThreadLists`
- `KernelMutex`: `Spec => []MutexSound`, `KernelSemaphore`: `Spec => []SemSound`
- `KernelMailFifo`: `Spec => MailFifo`, `KernelMessages`: `Spec => MessagesInOrder`
- `KernelTimers`: `Spec => []TimersInOrder`
- `KernelNoLostWakeup`: `Spec => []NobodyWaitsInVain`, `KernelInherited`: `Spec => []Inherited`
- `KernelPool`: `Spec => []PoolSound`, if in every job one thread allocates and waits without
  a timeout (`OneWriter`); that is what serial.c does, and run `kernel_pool` shows that the
  assumption is needed

They assume `ThreadsAssumption` (a finite set of threads, more than four ticks),
`StartupAssumption` (every thread is once in the list of its priority at start) and
`KernelAssumption` (every suspend list belongs to one object), and what each
object's module says of its constants.

`KernelProofs` begins with the facts about lists (what `InsertAt`, `RemoveAt` and `Append` do to the
elements of a list without duplicates, and that `Suspend` and `Resume` keep the ready
table, the suspend lists and the timers in line with `stat`) and lifts them to the
actions, one lemma per object. It then combines them in one inductive
invariant `IInv`. Its parts need each other: the lists stay sound only
if the owner of a taken mutex exists and has a priority to give back (`MutexInv`), because
`MutexRelease` and `MutexWait` move threads of the ready table by it; and a mutex or a
unit is handed over only if the thread that is resumed sees RT_EOK, so that no
thread waits with an error (`WaitOk`). `SemInv` counts the threads that hold a unit given by
a release and have not run yet; `LoopInv` says what the loop of `rt_event_send` has still to look at.

`QueueProofs` needs for the mailbox only `RingInv`: `in_offset` is `entry` places behind
`out_offset` modulo the size. For the message queue it needs `SlotInv`: a slot is free, or
queued, or held by one thread that is copying, which is what makes the copies outside
the critical sections safe. `Got` says when a message counts as received: at the moment
its slot is unlinked, though the copy comes later.

The timers' section of `KernelProofs` replaces the positions in the list by the ticks left (`Left`): as long as a
timeout is below half the range of the counter, the unsigned comparison of
`rt_timer_start` is the comparison of the ticks left (`StartedLeft`), and a tick takes one
from all of them. `OrderInv` follows with the lists.

`WaitProofs` proves that no wakeup is lost from `WakeInv`, which counts: if anybody waits in
a list, for each thing that is there (`Counted`) a thread was woken up (`Woken`) that has not
run since. A step that puts something into an object wakes one more thread, if there is one
(`CountMore`); a woken thread that runs takes one thing or finds none (`CountLeft`,
`CountNone`); a time-out takes no thread out of `Woken`, because it only hits threads that wait. For
this a thread must wait with RT_EOK (`WaitOk`), or a release would wake it and it would
return as if it had timed out. For the event, `EventWake` excepts the threads the loop of
`rt_event_send` has still to look at. That the steps of the other objects change nothing is
`Quiet` of `KernelProofs`: a thread is outside of the calls of these lists, stays as it is, or
times out.

Priority inheritance needs `Lent`: the list of the mutex is in the order of priority (so that
the thread which gets the mutex is the most urgent one that waits), the owner is not in
it, and every thread but the owner has the priority it was created with, which is what
`original_priority` gives back. The property is about programs with one mutex of the kind:
with two, a release in the wrong order gives back a lent priority, and nothing is claimed.

The pool rests on `PoolInv`: the one thread that allocates is either waiting, and then no block is
free and `suspend_thread_count` is 1, or was resumed, and then a block is free that nobody
else takes. It has no timer, so that nothing but `rt_mp_free` resumes it (`Parked`).

`SerialLinkProofs` proves about the PC link, for any ring, error code, length of the settings
and set of PCs,

- `LinkTypes`: `Spec => []TypeOK`, with any damage on the wire
- `LinkAligned`: `Spec => []Aligned`, `LinkCounts`: `Spec => []NeverOverDispatch`,
  `LinkNoFalseError`: `Spec => []NoFalseError`, `LinkStores`: `Spec => []StoresWhatWasSent`
- `LinkServes`: `Spec => []QuietMeansServed`
- `LinkInOrder`: `Spec => InOrder`, the refinement of `CommandQueue`

All but the first assume `PeersFit`: the PC sends commands the handler lets through
(`HandlerCommands`; of 0xe0 to 0xe4 they say nothing), and so
few of them unanswered that their bytes and those of the one being executed fit the
ring and `getcmd` stays below `ErrCmd`. This is a condition on the PC, and the code depends on
it: `rt_hw_serial_isr` drops the oldest byte when the ring is full and tells nobody. The PCs of the runs fulfil it, which
`PeersFitAssumption` of `MCSerialLink` checks. `RingAssumption` asks for one of four
ring sizes, powers of two, because the code masks its indices with the size less one.

`TypeInv` is the type invariant with the types of what PC and wire hold. The rest speaks of
the time before the first damage: `SafeInv` is `Undamaged => LinkInv`, and `LinkInv` is

- `LayInv`: the bytes between `read_index` and `save_index`, followed by those still on the
  line, are the bytes of the frames not released (`Laid`), byte by byte; `Laid` is kept when
  the handler stores a byte (`LaidReceive`), the PC appends a frame (`LaidSend`) and
  the thread releases one (`LaidAdvance`),
- `LineInv`: the line holds the end of the last frame, and the frame machine is where the
  missing part ends, with the length and the checksum of it (`Parsed`); that the checksum of a
  whole frame is 0 is `Sums`, by induction over the frame,
- `QueueInv` and `CountInv`: PCs and pending frames keep to the window, and `getcmd` counts at
  most the frames received and not executed, and one more (`Extra`) from the execution of a
  frame to the store of the decrement; so does the value the thread has loaded, which may
  miss frames received since,
- `CurInv`: between decode and release the thread has the command and the length of the
  frame at `read_index`,
- `StoreInv`: what a setter stored is what was sent.

`QuietMeansServed` needs `ExactInv` besides: `getcmd` and the increments lost together are exactly
the frames received and not executed (and `Extra`), because from the load to the store `getcmd`
only grows, by the increments the store then undoes. For a PC that waits `PatientInv` adds that
it has at most one frame under way and none between load and store, so that it loses none.

Inductions over the bytes of frames are proved for sets (`Induction`), not predicates. Modulus by
the size of the ring is kept inside `Amount`, `Cell` and `Move`, whose lemmas give the value as a
case distinction.

`FlashFileProofs` proves about the flash file system, for any number and size of blocks that
`GeometryAssumption` admits (the real device among them), any sizes of tag and record, any
interval, limit and times,

- `FlashTypes`: `Spec => []TypeOK`, for any number of files, power cuts and restarts
- `FlashNoWild`: `Spec => []NoWild`, `FlashChain`: `Spec => []ChainInFile`,
  `FlashLimit`: `Spec => []WithinLimit`, `FlashNoGarble`: `Spec => []NoGarble`,
  `FlashHeads`: `Spec => []HeadsTrue`, `FlashLoop`: `Spec => []LoopProgress`, if `OneFile`
- `FlashRestart`: `Spec => RestartWithinLimit`, if `OneFile` and `OneRestart`

`OneFile` says that one file is in use, whose limit is two blocks or more and whose records
are a unit of time apart at least. It is the use of `app/test/flashfile_test.c:202`, the one
caller in the repository, and each part is needed: the first block of a second file is
chained behind block 0, a file with a limit of one block comes to own two, and two records
of one unit have the same place. The first two are listed hazards. `OneRestart` is there because
`flashfile_system_init` does not find the last tag again (run `flash_recovery`), so that what is
appended after a restart lies anywhere. `MCFlashFile` checks that the instance of the runs
fulfils them, and `RestartSecond` below.

`TypeInv` is the type invariant with the types of what the flash holds (`States`), and says that
between two calls the headers in RAM name the files that the headers on the flash name
(`Synced`, `Calm`): this is what keeps the AND of a header with the one it is programmed over
in range (`AndHeadIs`, which needs that no bit of a sum of twelve is lost, `TwelveBits`). A
state with `fuel` 0 keeps these types, so that boot may start from any of them.
`FileInv` is the invariant of one file before the first restart. It has

- `Ring`: the tables hold blocks q[1] .. q[m], all different, which are exactly those whose header
  names the file; the chain leads from each to the next and from the last and the free blocks to
  themselves, and the last one is the block last written,
- `Clean`: free blocks and the bytes behind the last one written are erased, and no byte behind a
  header is garbled,
- `HeadsFit`: the headers on the flash name no more blocks than the limit. This one holds in the
  middle of a call too, after each flash operation; `Clean` is claimed only of states with power,
- `At`, `Behind`: a record or tag that was stored last ends at place e of the block of the last tag.
  That is in the last block, or counted past the end of the block before it, because
  `flashfile_write` spills at most once,
- `Filled`: place e is not behind the slot of the next record nor behind that of the next tag. With a
  record every second it is exactly there, and the tag is that of the running interval; this is
  what makes `LoopProgress` inductive.

`FlashKeepProofs` proves on top of it, for any geometry, limit, interval and sizes of tag and
record, that no record is lost which was reported written and is still promised,

- `FlashRetains`: `Spec => []RetainsNewest`, if `OneFile` and `RetainFits(Retain)`
- `FlashKeepsRecords`: `Spec => RestartKeepsRecords`, if `OneFile`, `OneRestart`, `RestartSecond` and
  `RetainFits(Retain + 1)`
- `FlashRecords`: `Spec => [](TypeInv /\ FileInv /\ KeepInv)`, the invariant of both, if `OneFile`

`RetainFits(n)` says that the bytes of the records of n seconds, with the tags between them, fit into all
blocks of the file but one; it is a condition on how much is promised, not on what the code
does. For the use of `app/test/flashfile_test.c:202` (136 blocks, a record of 64 bytes every second, a
tag a minute) that is 8606 records. A tag counts twice less one byte, because one that goes over
the end of a block counts from its last part (`StoreLastTimeTag` takes the offset from the block it
went to), which skips up to a tag's size. A power cut needs room for one record more: the record
being written may have taken the oldest block already. `RestartSecond` says that a use with a restart
has a record every second, as in the run. In `flash_file` the theorems speak of 5
records, of 4 with a restart; TLC finds that 6 are kept there. The argument:

- `Based`: every block of the file has a place g in one stream of bytes, each as many bytes behind
  the one before it in the chain as a block has room, so that a byte that spills over the end of a
  block is at the next place of the stream (`Place`),
- `Flows`, `Moves`: a step of the code moves nothing that is in the stream. What it gives up lies before
  the `Begin` of the stream: the head block of a full file, and only when a block is taken
  (`MovedFlows`, `SpillFlows`, `FlashWriteFlows`),
- `Stream`: the record of each second reported written is in the stream, no further back from the
  slot of the next one (`Cur`) than the bytes of the seconds since (`Weight`),
- `Covers`: the stream of a full file reaches from its begin over all blocks but one at least,
  because its last byte is where `Filled` says; so a record not further back than that
  is behind `Begin`, and none of its bytes was given up (`StreamKeeps`),
- `KeepInv`: `acked` is the seconds from the first one to the last complete one, so that the newest n
  records are those of the last n seconds (`NewestIs`),
- power cuts: `EnterStream` and `WriteStream` hold for a state with any `fuel`, since `Flows` is kept after each
  flash operation; what `flashfile_system_init` then finds is what the headers on the flash name (`BootHolds`).

The proof of the flash file system follows the functions of the source from the bottom: one lemma for each says what it does to
the tables (`RemoveHeadBlockIs`, `AppendTailBlockIs`, `AllocBlockIs`, `BlockWriteSound`, `FlashWriteSound`,
`SystemInitIs`, ...), one what it does to the ring (those named `..Laid`). Loops are recursive functions;
`Recursion` and `RecursionType` prove once, for a function whose value at k follows from the one at
k - 1, that it is what its equation says and stays in its type.

Only model-checked: liveness (`DriveNoticed`, `Answered`, `HandlerReturns`, `BlockLeaves`,
`TimedCallReturns`), which needs ENABLED and fairness. Every other property of a passing run is the
statement of a theorem.

## What is left

1. `RunRecord`: the event records (overtime, driver, power, modification, journal, doubtful
   point), which share `temp_4k` between two threads, the hour block, and a restart.
2. Kernel: detaching an object and its RESET, which resume all waiting threads with an
   error; start and exit of threads with the idle thread; soft and periodic timers.
3. Proofs: FlashFile with gaps between the records, where the last tag may lie further back than
   an interval, and with more than one restart, which needs a model of the repaired
   `flashfile_system_init`.

### Not modelled, and why

- Most of the repository is not the recorder's: the STM32 and CMSIS libraries, the USB
  stack, fonts and code pages, the RT-Thread components (file systems, network, shell,
  GUI) and the board support packages of other boards. They are vendored, data, or not
  linked into `bsp/vtdr`.
- Display, keys, printer, voice, and the drivers of the clock, bus and pins are device I/O:
  their state lies in registers, and they give the models their inputs.
- `timechange`, the BCD conversions, the speed computed from pulses and the GPS sentences
  are arithmetic and parsing; the models take the results as inputs.
- The kernel's heap (`mem.c`, `slab.c`) is a sequential algorithm on addresses; `object.c`,
  `device.c`, `module.c` and `kservice.c` are tables and string routines without a
  protocol of their own.
- The context switch itself and nested interrupts: every critical section masks all of
  them, so a nested interrupt is one of the orders in which the models' interrupts come.
  `rt_enter_critical` is used where threads and objects are created and deleted and by the
  soft timers.
