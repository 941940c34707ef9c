------------------------------- MODULE Kernel -------------------------------
(***************************************************************************)
(* The kernel of the recorder: its threads, a semaphore, mutexes, an       *)
(* event, a mailbox, a message queue and a memory pool, used by any        *)
(* program of a set of jobs.  A job says which calls each thread makes, as *)
(* often and in the order it likes, and which the interrupts of devices.   *)
(***************************************************************************)
EXTENDS Semaphore, Mutex, Event, Mailbox, MessageQueue, MemPool

CONSTANT Jobs    \* [does: for each thread the calls <<name, arguments>> it makes,
                 \*  device: those of the interrupts]

\* Every suspend list belongs to one object.
ASSUME KernelAssumption ==
  /\ IsInjective(<<SemList, EvList, RecvList, SendList, MqList, PoolList>>)
  /\ Mutexes \cap {SemList, EvList, RecvList, SendList, MqList, PoolList} = {}

VARIABLE job     \* the program; it never changes

objects == <<semvars, mvars, evvars, mbvars, mqvars, mpvars>>
vars    == <<tvars, objects, job>>

Init ==
  /\ job \in Jobs
  /\ ThreadsInit /\ SemInit /\ MutexInit /\ EvInit /\ MbInit /\ MqInit /\ MpInit

Does(t, call) == call \in job.does[t]
Device(call)  == call \in job.device
Times         == -1 .. HalfTick - 1       \* -1: RT_WAITING_FOREVER

-----------------------------------------------------------------------------
(* What the threads call.                                                  *)

CallSem(t) ==
  /\ \/ \E time \in Times : Does(t, <<"take", time>>) /\ SemTake(t, time)
     \/ Does(t, <<"release">>) /\ Calls(t) /\ SemRelease
  /\ UNCHANGED <<mvars, evvars, mbvars, mqvars, mpvars>>

CallMutex(t) ==
  /\ \E m \in Mutexes :
       \/ Does(t, <<"lock", m>>) /\ MutexTake(t, m)
       \/ \E time \in Times : Does(t, <<"lock", m, time>>) /\ MutexWait(t, m, time)
       \/ Does(t, <<"unlock", m>>) /\ (MutexUnnest(t, m) \/ MutexRelease(t, m) \/ MutexRefused(t, m))
  /\ UNCHANGED <<semvars, evvars, mbvars, mqvars, mpvars>>

CallEvent(t) ==
  /\ \E set \in SUBSET Events \ {{}} :
       \/ \E opt \in Options, time \in Times :
            Does(t, <<"await", set, opt, time>>) /\ EvRecv(t, set, opt, time)
       \/ Does(t, <<"raise", set>>) /\ Calls(t) /\ EvSend(set)
  /\ UNCHANGED <<semvars, mvars, mbvars, mqvars, mpvars>>

CallMailbox(t) ==
  /\ \E time \in Times :
       \/ \E m \in Mails : Does(t, <<"send", m, time>>) /\ MbSend(t, m, time)
       \/ Does(t, <<"recv", time>>) /\ MbRecv(t, time)
  /\ UNCHANGED <<semvars, mvars, evvars, mqvars, mpvars>>

CallQueue(t) ==
  /\ \/ \E m \in Messages, urgent \in BOOLEAN :
          Does(t, <<"put", m, urgent>>) /\ MqSend(t, m, urgent)
     \/ \E time \in Times : Does(t, <<"get", time>>) /\ MqRecv(t, time)
  /\ UNCHANGED <<semvars, mvars, evvars, mbvars, mpvars>>

CallPool(t) ==
  /\ \/ \E time \in Times : Does(t, <<"alloc", time>>) /\ MpAlloc(t, time)
     \/ \E b \in given : Does(t, <<"free">>) /\ Calls(t) /\ MpFree(b)
  /\ UNCHANGED <<semvars, mvars, evvars, mbvars, mqvars>>

CallSleep(t) ==
  /\ \E time \in 1 .. HalfTick - 1 : Does(t, <<"sleep", time>>) /\ Sleep(t, time)
  /\ UNCHANGED objects

\* A call a thread has waited in goes on, or a copy of a message.
GoOn(t) ==
  \/ SemTaken(t) /\ UNCHANGED <<mvars, evvars, mbvars, mqvars, mpvars>>
  \/ (\E m \in Mutexes : MutexTaken(t, m)) /\ UNCHANGED <<semvars, evvars, mbvars, mqvars, mpvars>>
  \/ EvReceived(t) /\ UNCHANGED <<semvars, mvars, mbvars, mqvars, mpvars>>
  \/ (MbSendGoesOn(t) \/ MbRecvGoesOn(t)) /\ UNCHANGED <<semvars, mvars, evvars, mqvars, mpvars>>
  \/ (MqLink(t) \/ MqRecvGoesOn(t) \/ MqFree(t)) /\ UNCHANGED <<semvars, mvars, evvars, mbvars, mpvars>>
  \/ MpAllocated(t) /\ UNCHANGED <<semvars, mvars, evvars, mbvars, mqvars>>
  \/ Awake(t) /\ UNCHANGED objects

-----------------------------------------------------------------------------
(* What the interrupts call, and the clock.                                *)

DeviceSem == Device(<<"release">>) /\ SemRelease /\ UNCHANGED <<mvars, evvars, mbvars, mqvars, mpvars>>

DeviceEvent ==
  /\ \E set \in SUBSET Events \ {{}} : Device(<<"raise", set>>) /\ EvSend(set)
  /\ UNCHANGED <<semvars, mvars, mbvars, mqvars, mpvars>>

DeviceMail ==
  /\ \E m \in Mails : Device(<<"send", m>>) /\ MbPost(m)
  /\ UNCHANGED <<semvars, mvars, evvars, mqvars, mpvars>>

DeviceMessage ==
  /\ \E m \in Messages, urgent \in BOOLEAN :
       Device(<<"put", m, urgent>>) /\ MqPost(m, urgent)
  /\ UNCHANGED <<semvars, mvars, evvars, mbvars, mpvars>>

DevicePool ==
  /\ Device(<<"free">>) /\ \E b \in given : MpFree(b)
  /\ UNCHANGED <<semvars, mvars, evvars, mbvars, mqvars>>

EventLoop == EvLook /\ UNCHANGED <<semvars, mvars, mbvars, mqvars, mpvars>>

Clock == (Tick \/ Expire \/ TickEnd) /\ UNCHANGED objects

Next ==
  /\ \/ \E t \in Threads :
          \/ CallSem(t) \/ CallMutex(t) \/ CallEvent(t) \/ CallMailbox(t) \/ CallQueue(t)
          \/ CallPool(t) \/ CallSleep(t) \/ GoOn(t)
     \/ DeviceSem \/ DeviceEvent \/ EventLoop \/ DeviceMail \/ DeviceMessage \/ DevicePool
     \/ Clock
  /\ UNCHANGED job

Spec == Init /\ [][Next]_vars

\* The clock ticks and its interrupt ends; a thread that is running again and
\* again gets on with its call (ticks are rare, measured by the processor).
FairSpec ==
  /\ Spec
  /\ WF_vars(Clock /\ UNCHANGED job)
  /\ \A t \in Threads : SF_vars(GoOn(t) /\ UNCHANGED job)

-----------------------------------------------------------------------------
(* Properties.                                                             *)

TypeOK ==
  /\ rt_tick \in 0 .. TickMod - 1 /\ masked \in {"no", "clock", "event"}
  /\ current \in Threads \cup {Idle}
  /\ prio \in [Threads -> Priorities]
  /\ stat \in [Threads -> {"ready", "suspend"}]
  /\ error \in [Threads -> Errors]
  /\ ready \in [Priorities -> Seq(Threads)]
  /\ waiting \in [Lists -> Seq(Threads)]
  /\ timers \in Seq([thread : Threads, at : 0 .. TickMod - 1])
  /\ op \in [Threads -> Lists \cup {"none", "sleep", "fill", "copy"}]
  /\ left \in [Threads -> Times] /\ since \in [Threads -> 0 .. TickMod - 1]

\* Every thread is in exactly one list: ready, in the list of its priority, or
\* suspended, in the list of the object it waits for; only a suspended thread
\* has a timer, and one. (A time-out takes a thread out of both lists.)
ThreadLists ==
  /\ \A p \in Priorities : IsInjective(ready[p])
  /\ \A l \in Lists : IsInjective(waiting[l])
  /\ \A t \in Threads :
       /\ \A p \in Priorities : t \in Range(ready[p]) <=> stat[t] = "ready" /\ p = prio[t]
       /\ \A l \in Lists : t \in Range(waiting[l]) <=> stat[t] = "suspend" /\ l = op[t]
       /\ HasTimer(t) => stat[t] = "suspend"
       /\ stat[t] = "suspend" => op[t] \in Lists \cup {"sleep"}
  /\ \A i, j \in DOMAIN timers : timers[i].thread = timers[j].thread => i = j

\* The timers are sorted by what is left of their time, also when the ticks
\* wrap around, and outside of the clock interrupt none is overdue: a thread
\* times out at the very tick it asked for.
LeftOf(i) == Minus(timers[i].at, rt_tick)
TimersInOrder ==
  /\ \A i \in DOMAIN timers : LeftOf(i) < HalfTick /\ (masked = "clock" \/ LeftOf(i) > 0)
  /\ \A i, j \in DOMAIN timers : i < j => LeftOf(i) <= LeftOf(j)

\* No unit of the semaphore is lost or made: it is free, taken, or on its way
\* to the thread a release resumed.
SemSound == value >= 0 /\ value + taken + Cardinality(SemGranted) = Units

\* A mutex has one owner, the thread that took it and has not released it, or
\* the one a release hands it to: a thread whose wait timed out never has it.
Handed(t, m) == op[t] = m /\ stat[t] = "ready" /\ error[t] = "ok"
MutexSound ==
  \A m \in Mutexes :
    /\ mvalue[m] \in {0, 1} /\ (mvalue[m] = 1 <=> owner[m] = Idle)
    /\ \A t \in Threads :
         /\ owner[m] = t <=> locks[m][t] > 0 \/ Handed(t, m)
         /\ owner[m] = t => hold[m] = locks[m][t] + (IF Handed(t, m) THEN 1 ELSE 0)

\* In a program that uses one mutex, in the order of priority, its owner is at
\* least as urgent as every thread that waits for it, and a thread that owns
\* none has the priority it was created with.
Locks(m) == \E t \in Threads : Does(t, <<"lock", m>>)
Inherited ==
  \A m \in Mutexes :
    Flag[m] = "prio" /\ (\A n \in Mutexes \ {m} : ~Locks(n)) =>
      /\ \A i \in DOMAIN waiting[m] : prio[owner[m]] <= prio[waiting[m][i]]
      /\ \A t \in Threads : owner[m] # t => prio[t] = InitPrio[t]

\* Nobody waits for what is there: behind every free unit, mail, place or
\* message a thread waits for, another one was woken up that has still to run.
Woken(l) == {t \in Threads : op[t] = l /\ stat[t] = "ready" /\ error[t] = "ok"}
NobodyWaitsInVain ==
  /\ waiting[SemList] # <<>> => value = 0
  /\ \A m \in Mutexes : waiting[m] # <<>> => owner[m] \in Threads
  /\ masked = "no" =>
       \A i \in DOMAIN waiting[EvList] :
         ~Meets(wants[waiting[EvList][i]], option[waiting[EvList][i]])
  /\ waiting[RecvList] # <<>> => entry <= Cardinality(Woken(RecvList))
  /\ waiting[SendList] # <<>> => MbSize - entry <= Cardinality(Woken(SendList))
  /\ waiting[MqList] # <<>> => Len(mq_queue) <= Cardinality(Woken(MqList))

\* A pool one thread allocates from and waits for without a timeout, as the
\* transmitter of serial.c: no block is lost or given twice, and the thread
\* that waited finds the block it was woken up for.
PoolSound ==
  /\ ~wild /\ IsInjective(free)
  /\ Range(free) \cap given = {} /\ Range(free) \cup given = Range(Blocks)
  /\ suspend_thread_count = Len(waiting[PoolList])

\* rt_mp_alloc returns a block or RT_NULL, it never follows the end of the list.
AllocReturnsBlock == ~wild

\* A thread that gets the processor again and again returns from every call
\* with a timeout, even if others take what it is woken up for each time.
TimedCallReturns ==
  \A t \in Threads :
    []<>(current = t /\ masked = "no") => (HasTimer(t) ~> op[t] = "none")
=============================================================================
