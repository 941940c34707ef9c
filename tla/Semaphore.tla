----------------------------- MODULE Semaphore -----------------------------
(***************************************************************************)
(* rt_sem_take and rt_sem_release of ipc.c, for one semaphore that counts  *)
(* the units of a resource: who took a unit releases it, a thread or the   *)
(* interrupt that finishes its work.                                       *)
(***************************************************************************)
EXTENDS KernelThreads

CONSTANTS
  SemList,    \* the suspend list of the semaphore
  Units       \* the value it is initialised with

ASSUME SemaphoreAssumption == SemList \in Lists /\ Units \in Nat

VARIABLES
  value,      \* value of the semaphore
  taken       \* units taken and not released yet

semvars == <<value, taken>>

SemInit == value = Units /\ taken = 0

\* Threads that were given a unit by a release and have not returned with it.
SemGranted == {t \in Threads : op[t] = SemList /\ stat[t] = "ready" /\ error[t] = "ok"}

\* rt_sem_take, up to rt_schedule when it waits (with time 0 it returns
\* -RT_ETIMEOUT and changes nothing)
SemTake(t, time) ==
  /\ Calls(t)
  /\ \/ /\ value > 0
        /\ value' = value - 1 /\ taken' = taken + 1
        /\ UNCHANGED tvars
     \/ /\ value = 0 /\ time # 0
        /\ error' = [error EXCEPT ![t] = "ok"]
        /\ Suspend(t, SemList, time, ready, prio)
        /\ UNCHANGED <<lvars, rt_tick, masked, prio, semvars>>

\* ... and behind it: with RT_EOK the thread has its unit
SemTaken(t) ==
  /\ Returns(t, SemList)
  /\ taken' = IF error[t] = "ok" THEN taken + 1 ELSE taken
  /\ Leave(t)
  /\ UNCHANGED <<lvars, rt_tick, masked, current, prio, stat, error, ready, waiting, timers, value>>

\* mutant: counts the unit although it goes to a thread
SemReleaseCounts ==
  /\ masked = "no" /\ taken > 0
  /\ taken' = taken - 1 /\ value' = value + 1
  /\ IF waiting[SemList] = <<>>
     THEN UNCHANGED tvars
     ELSE /\ Resume(Head(waiting[SemList]), SemList, ready)
          /\ UNCHANGED <<lvars, rt_tick, masked, prio, error, op>>

\* rt_sem_release
SemRelease ==
  /\ masked = "no" /\ taken > 0
  /\ taken' = taken - 1
  /\ \/ /\ waiting[SemList] # <<>>
        /\ Resume(Head(waiting[SemList]), SemList, ready)
        /\ UNCHANGED <<lvars, rt_tick, masked, prio, error, op, value>>
     \/ /\ waiting[SemList] = <<>>
        /\ value' = value + 1
        /\ UNCHANGED tvars
=============================================================================
