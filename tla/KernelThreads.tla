--------------------------- MODULE KernelThreads ---------------------------
(***************************************************************************)
(* Threads, scheduler and timers of the kernel of the recorder: thread.c,  *)
(* scheduler.c, timer.c and clock.c of src/software/src, and the suspend   *)
(* lists of ipc.c that the kernel objects share.                           *)
(*                                                                         *)
(* One processor.  Every critical section of the kernel runs with the      *)
(* interrupts disabled and is one step; between two of them an interrupt   *)
(* may come.  A thread that suspends itself reaches rt_schedule in the     *)
(* same step: what an interrupt in between does, it does as well after it. *)
(* Two loops run with interrupts disabled throughout, rt_timer_check and   *)
(* rt_event_send: they take a step for each timer or thread, and masked    *)
(* keeps everybody else out until they are through.                        *)
(***************************************************************************)
EXTENDS Integers, Sequences, FiniteSets, SequencesExt

CONSTANTS
  Threads,     \* the threads but the idle thread
  Idle,        \* the idle thread, always ready
  Lists,       \* the suspend lists of the kernel objects
  Flag,        \* the order of each list: "fifo", "prio", or "lifo" (mempool.c)
  Lowest,      \* RT_THREAD_PRIORITY_MAX - 2: 0 is the most urgent priority
  InitPrio,    \* the priority each thread is created with
  Startup,     \* the threads of each priority in the order they are started
  TickMod      \* RT_TICK_MAX + 1

Priorities == 0 .. Lowest
HalfTick   == (TickMod - 1) \div 2         \* RT_TICK_MAX/2
Errors     == {"ok", "timeout", "error"}

ASSUME ThreadsAssumption ==
  /\ IsFiniteSet(Threads) /\ Threads # {} /\ Idle \notin Threads
  /\ Lists \cap {"none", "sleep", "fill", "copy"} = {}
  /\ Flag \in [Lists -> {"fifo", "prio", "lifo"}]
  /\ Lowest \in Nat /\ InitPrio \in [Threads -> Priorities]
  /\ TickMod \in Nat /\ TickMod > 4

ASSUME StartupAssumption ==
  /\ Startup \in [Priorities -> Seq(Threads)]
  /\ \A p \in Priorities : IsInjective(Startup[p])
  /\ \A t \in Threads, p \in Priorities : t \in Range(Startup[p]) <=> InitPrio[t] = p

VARIABLES
  rt_tick,     \* the clock, an unsigned integer of TickMod values
  masked,      \* "clock" or "event": interrupts are disabled in a loop of
               \* rt_timer_check or rt_event_send; "no"
  current,     \* rt_current_thread
  prio,        \* current_priority of each thread
  stat,        \* stat of each thread
  error,       \* error of each thread
  ready,       \* rt_thread_priority_table: a list of threads per priority
  waiting,     \* the threads in each suspend list
  timers,      \* rt_timer_list: [thread, at: its timeout_tick]
  op,          \* the call a thread has not returned from: the list it waits or
               \* waited in, "sleep", "fill" or "copy" (of a message), "none"
  left,        \* timeout of such a call that may wait more than once, < 0 for ever
  since        \* tick_delta of that call

lvars == <<left, since>>
tvars == <<rt_tick, masked, current, prio, stat, error, ready, waiting, timers, op, lvars>>

-----------------------------------------------------------------------------
(* The clock: rt_tick_t is unsigned.                                       *)

Plus(a, b)  == IF a + b >= TickMod THEN a + b - TickMod ELSE a + b
Minus(a, b) == IF a >= b THEN a - b ELSE a - b + TickMod

-----------------------------------------------------------------------------
(* Lists.                                                                  *)

Position(s, t) == CHOOSE i \in DOMAIN s : s[i] = t

\* rt_list_remove of a thread that is in the list
Without(s, t) == RemoveAt(s, Position(s, t))

\* the first index with a property, behind the end when there is none
FirstOf(I, s) == IF I = {} THEN Len(s) + 1 ELSE Min(I)

\* rt_ipc_list_suspend: where a thread of priority p goes in the list s
Place(s, flag, p, pr) ==
  CASE flag = "fifo" -> Len(s) + 1
    [] flag = "lifo" -> 1
    [] flag = "prio" -> FirstOf({i \in DOMAIN s : p < pr[s[i]]}, s)

\* the head of the most urgent list in rt_thread_priority_table
Highest(r) ==
  LET used == {p \in Priorities : r[p] # <<>>}
  IN IF used = {} THEN Idle ELSE Head(r[Min(used)])

\* rt_schedule_remove_thread, rt_schedule_insert_thread
Unready(r, p, t) == [r EXCEPT ![p] = Without(@, t)]
Enready(r, p, t) == [r EXCEPT ![p] = Append(@, t)]

-----------------------------------------------------------------------------
(* Timers.  A thread has one, thread_timer; RT_TIMER_FLAG_ACTIVATED of its *)
(* flag says whether it is in the list.                                    *)

HasTimer(t) == \E i \in DOMAIN timers : timers[i].thread = t

\* mutant: compares the ticks as if they never wrapped
TimerStartedUnwrapped(t, time) ==
  LET end == Plus(rt_tick, time)
      at  == FirstOf({i \in DOMAIN timers : timers[i].at >= end}, timers)
  IN InsertAt(timers, at, [thread |-> t, at |-> end])

\* rt_timer_start: before the first timer that does not expire earlier
TimerStarted(t, time) ==
  LET end == Plus(rt_tick, time)
      at  == FirstOf({i \in DOMAIN timers : Minus(timers[i].at, end) < HalfTick}, timers)
  IN IF HasTimer(t) THEN timers ELSE InsertAt(timers, at, [thread |-> t, at |-> end])

TimerRemoved(t) ==
  IF HasTimer(t)
  THEN RemoveAt(timers, CHOOSE i \in DOMAIN timers : timers[i].thread = t)
  ELSE timers

Expired == timers # <<>> /\ Minus(rt_tick, Head(timers).at) < HalfTick

-----------------------------------------------------------------------------
(* Suspending and resuming: parts of the operations of the kernel objects. *)
(* r is the ready table, pr are the priorities the operation has made so   *)
(* far; a call with time < 0 waits for ever.                               *)

\* rt_ipc_list_suspend, rt_timer_start and rt_schedule of the thread t itself
Suspend(t, l, time, r, pr) ==
  /\ stat' = [stat EXCEPT ![t] = "suspend"]
  /\ ready' = Unready(r, prio[t], t)
  /\ waiting' = [waiting EXCEPT ![l] = InsertAt(@, Place(@, Flag[l], prio[t], pr), t)]
  /\ timers' = IF time > 0 THEN TimerStarted(t, time) ELSE timers
  /\ current' = Highest(ready')
  /\ op' = [op EXCEPT ![t] = l]

\* rt_thread_resume of t, which waits in l, and rt_schedule
Resume(t, l, r) ==
  /\ stat' = [stat EXCEPT ![t] = "ready"]
  /\ waiting' = [waiting EXCEPT ![l] = Without(@, t)]
  /\ timers' = TimerRemoved(t)
  /\ ready' = Enready(r, prio[t], t)
  /\ current' = Highest(ready')

\* thread t calls the kernel; it goes on in a call it waited in
Calls(t)      == masked = "no" /\ current = t /\ op[t] = "none"
Returns(t, l) == masked = "no" /\ current = t /\ op[t] = l

\* the call of t is over
Leave(t) == op' = [op EXCEPT ![t] = "none"]

\* ... and the variables of a call that may wait more than once are gone
LeaveLoop(t) ==
  /\ Leave(t)
  /\ left' = [left EXCEPT ![t] = 0]
  /\ since' = [since EXCEPT ![t] = 0]

\* the loop of such a call: the thread waits (once more)
Await(t, l, time) ==
  /\ error' = [error EXCEPT ![t] = "ok"]
  /\ Suspend(t, l, time, ready, prio)
  /\ left' = [left EXCEPT ![t] = time]
  /\ since' = [since EXCEPT ![t] = IF time > 0 THEN rt_tick ELSE 0]
  /\ UNCHANGED <<rt_tick, masked, prio>>

\* mutant: the whole time again
RemainingAll(t) == left[t]

\* mutant: may fall below 0, which means for ever
RemainingUnclipped(t) == IF left[t] <= 0 THEN left[t] ELSE left[t] - Minus(rt_tick, since[t])

\* timeout of the call, calculated again behind rt_schedule; a thread is taken to run
\* again before half the range of the 32 bit tick has gone by since it timed out
Remaining(t) ==
  LET spent == Minus(rt_tick, since[t])
  IN IF left[t] <= 0 THEN left[t] ELSE IF spent < left[t] THEN left[t] - spent ELSE 0

\* the first thread of a suspend list is resumed, if there is one
ResumeFirst(l) ==
  IF waiting[l] # <<>>
  THEN Resume(Head(waiting[l]), l, ready)
  ELSE UNCHANGED <<current, stat, ready, waiting, timers>>

-----------------------------------------------------------------------------
(* Actions.                                                                *)

ThreadsInit ==
  /\ rt_tick = 0 /\ masked = "no"
  /\ prio = InitPrio
  /\ stat = [t \in Threads |-> "ready"]
  /\ error = [t \in Threads |-> "ok"]
  /\ ready = Startup
  /\ waiting = [l \in Lists |-> <<>>]
  /\ timers = <<>>
  /\ op = [t \in Threads |-> "none"]
  /\ left = [t \in Threads |-> 0] /\ since = left
  /\ current = Highest(Startup)

\* rt_thread_sleep, up to rt_schedule
Sleep(t, time) ==
  /\ Calls(t)
  /\ stat' = [stat EXCEPT ![t] = "suspend"]
  /\ ready' = Unready(ready, prio[t], t)
  /\ timers' = TimerStarted(t, time)
  /\ current' = Highest(ready')
  /\ op' = [op EXCEPT ![t] = "sleep"]
  /\ UNCHANGED <<lvars, rt_tick, masked, prio, error, waiting>>

\* ... and behind it
Awake(t) ==
  /\ Returns(t, "sleep")
  /\ error' = [error EXCEPT ![t] = IF @ = "timeout" THEN "ok" ELSE @]
  /\ Leave(t)
  /\ UNCHANGED <<lvars, rt_tick, masked, current, prio, stat, ready, waiting, timers>>

\* Bound: no call with a timeout takes longer than the ticks can count (49 days)
WithinRange == \A t \in Threads : left[t] > 0 => Minus(rt_tick, since[t]) < TickMod - 1

\* rt_tick_increase up to rt_timer_check: the time slice of the running thread
\* may be over (rt_thread_yield)
Tick ==
  /\ masked = "no" /\ WithinRange
  /\ rt_tick' = Plus(rt_tick, 1)
  /\ masked' = "clock"
  /\ \/ UNCHANGED <<ready, current>>
     \/ /\ current # Idle /\ Len(ready[prio[current]]) > 1
        /\ ready' = Enready(Unready(ready, prio[current], current), prio[current], current)
        /\ current' = Highest(ready')
  /\ UNCHANGED <<lvars, prio, stat, error, waiting, timers, op>>

\* mutant: the thread stays in the list it waited in
ExpireKeepsWaiter ==
  LET t == Head(timers).thread
  IN /\ masked = "clock" /\ Expired
     /\ error' = [error EXCEPT ![t] = "timeout"]
     /\ stat' = [stat EXCEPT ![t] = "ready"]
     /\ timers' = Tail(timers)
     /\ ready' = Enready(ready, prio[t], t)
     /\ current' = Highest(ready')
     /\ UNCHANGED <<lvars, rt_tick, masked, prio, waiting, op>>

\* rt_timer_check: the first timer has expired, rt_thread_timeout
Expire ==
  LET t == Head(timers).thread
  IN /\ masked = "clock" /\ Expired
     /\ error' = [error EXCEPT ![t] = "timeout"]
     /\ stat' = [stat EXCEPT ![t] = "ready"]
     /\ waiting' = IF op[t] \in Lists THEN [waiting EXCEPT ![op[t]] = Without(@, t)] ELSE waiting
     /\ timers' = Tail(timers)
     /\ ready' = Enready(ready, prio[t], t)
     /\ current' = Highest(ready')
     /\ UNCHANGED <<lvars, rt_tick, masked, prio, op>>

\* rt_timer_check: no timer left that has expired
TickEnd ==
  /\ masked = "clock" /\ ~Expired
  /\ masked' = "no"
  /\ UNCHANGED <<lvars, rt_tick, current, prio, stat, error, ready, waiting, timers, op>>
=============================================================================
