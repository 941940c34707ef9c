------------------------------- MODULE Mutex -------------------------------
(***************************************************************************)
(* rt_mutex_take and rt_mutex_release of ipc.c: recursive mutexes whose    *)
(* owner inherits the priority of the threads that wait for them.          *)
(***************************************************************************)
EXTENDS KernelThreads

CONSTANTS
  Mutexes,    \* the mutexes, each by its suspend list
  MaxHold     \* a thread takes a mutex at most so often before it releases it

None == 255   \* original_priority of a mutex without owner

ASSUME MutexAssumption ==
  /\ Mutexes \subseteq Lists
  /\ MaxHold \in Nat \ {0}
  /\ Lowest < None

VARIABLES
  mvalue,     \* value of each mutex
  owner,      \* owner of each mutex, Idle for RT_NULL
  hold,       \* hold of each mutex
  original,   \* original_priority of each mutex
  locks       \* what the program knows: takes of a mutex by a thread that
              \* returned RT_EOK and are not released

mvars == <<mvalue, owner, hold, original, locks>>

MutexInit ==
  /\ mvalue = [m \in Mutexes |-> 1]
  /\ owner = [m \in Mutexes |-> Idle]
  /\ hold = [m \in Mutexes |-> 0]
  /\ original = [m \in Mutexes |-> None]
  /\ locks = [m \in Mutexes |-> [t \in Threads |-> 0]]

\* RT_THREAD_CTRL_CHANGE_PRIORITY of rt_thread_control: a ready thread goes
\* to the end of the list of its new priority
Requeued(t, p) == IF stat[t] = "ready" THEN Enready(Unready(ready, prio[t], t), p, t) ELSE ready

\* t returned RT_EOK from rt_mutex_take
Locked(t, m) == locks' = [locks EXCEPT ![m] = [locks[m] EXCEPT ![t] = locks[m][t] + 1]]

\* rt_mutex_take of a mutex that is free or the thread's own
MutexTake(t, m) ==
  /\ Calls(t)
  /\ locks[m][t] < MaxHold
  /\ \/ /\ owner[m] = t
        /\ UNCHANGED <<mvalue, owner, original>>
     \/ /\ owner[m] # t /\ mvalue[m] > 0
        /\ mvalue' = [mvalue EXCEPT ![m] = mvalue[m] - 1]
        /\ owner' = [owner EXCEPT ![m] = t]
        /\ original' = [original EXCEPT ![m] = prio[t]]
  /\ hold' = [hold EXCEPT ![m] = hold[m] + 1]
  /\ error' = [error EXCEPT ![t] = "ok"]
  /\ Locked(t, m)
  /\ UNCHANGED <<lvars, rt_tick, masked, current, prio, stat, ready, waiting, timers, op>>

\* mutant: waits without lending its priority to the owner
MutexWaitPlain(t, m, time) ==
  /\ Calls(t)
  /\ owner[m] # t /\ mvalue[m] = 0 /\ time # 0
  /\ error' = [error EXCEPT ![t] = "ok"]
  /\ Suspend(t, m, time, ready, prio)
  /\ UNCHANGED <<lvars, rt_tick, masked, prio, mvars>>

\* rt_mutex_take of a mutex another thread owns, up to rt_schedule
MutexWait(t, m, time) ==
  /\ Calls(t)
  /\ owner[m] # t /\ mvalue[m] = 0
  /\ \/ /\ time = 0
        /\ error' = [error EXCEPT ![t] = "timeout"]
        /\ UNCHANGED <<current, prio, stat, ready, waiting, timers, op>>
     \/ /\ time # 0
        /\ error' = [error EXCEPT ![t] = "ok"]
        /\ IF prio[t] < prio[owner[m]]
           THEN /\ prio' = [prio EXCEPT ![owner[m]] = prio[t]]
                /\ Suspend(t, m, time, Requeued(owner[m], prio[t]), prio')
           ELSE /\ prio' = prio
                /\ Suspend(t, m, time, ready, prio)
  /\ UNCHANGED <<lvars, rt_tick, masked, mvars>>

\* mutant: takes the mutex whatever woke it up
MutexTakenAnyway(t, m) ==
  /\ Returns(t, m)
  /\ Locked(t, m)
  /\ Leave(t)
  /\ UNCHANGED <<lvars, rt_tick, masked, current, prio, stat, error, ready, waiting, timers,
                 mvalue, owner, hold, original>>

\* ... and behind it: with RT_EOK the thread has the mutex
MutexTaken(t, m) ==
  /\ Returns(t, m)
  /\ IF error[t] = "ok" THEN Locked(t, m) ELSE locks' = locks
  /\ Leave(t)
  /\ UNCHANGED <<lvars, rt_tick, masked, current, prio, stat, error, ready, waiting, timers,
                 mvalue, owner, hold, original>>

\* rt_mutex_release by a thread that is not the owner
MutexRefused(t, m) ==
  /\ Calls(t)
  /\ owner[m] # t
  /\ error' = [error EXCEPT ![t] = "error"]
  /\ UNCHANGED <<lvars, rt_tick, masked, current, prio, stat, ready, waiting, timers, op, mvars>>

\* t returned RT_EOK from rt_mutex_release
Unlocked(t, m) == locks' = [locks EXCEPT ![m] = [locks[m] EXCEPT ![t] = locks[m][t] - 1]]

\* rt_mutex_release of a mutex its owner took more than once
MutexUnnest(t, m) ==
  /\ Calls(t)
  /\ owner[m] = t /\ hold[m] > 1 /\ locks[m][t] > 0
  /\ hold' = [hold EXCEPT ![m] = hold[m] - 1]
  /\ Unlocked(t, m)
  /\ UNCHANGED <<tvars, mvalue, owner, original>>

\* mutant: the owner keeps the priority it was lent
MutexReleaseBoosted(t, m) ==
  LET w == Head(waiting[m])
  IN /\ Calls(t)
     /\ owner[m] = t /\ hold[m] = 1 /\ locks[m][t] > 0
     /\ Unlocked(t, m)
     /\ \/ /\ waiting[m] # <<>>
           /\ owner' = [owner EXCEPT ![m] = w]
           /\ original' = [original EXCEPT ![m] = prio[w]]
           /\ Resume(w, m, ready)
           /\ UNCHANGED <<mvalue, hold>>
        \/ /\ waiting[m] = <<>>
           /\ mvalue' = [mvalue EXCEPT ![m] = mvalue[m] + 1]
           /\ owner' = [owner EXCEPT ![m] = Idle]
           /\ hold' = [hold EXCEPT ![m] = 0]
           /\ original' = [original EXCEPT ![m] = None]
           /\ UNCHANGED <<current, stat, ready, waiting, timers>>
     /\ UNCHANGED <<lvars, rt_tick, masked, error, op, prio>>

\* rt_mutex_release of a mutex its owner took once: the first waiter becomes
\* the owner, or the mutex is free; only with a waiter rt_schedule follows
MutexRelease(t, m) ==
  LET w == Head(waiting[m])
      r == IF prio[t] # original[m] THEN Requeued(t, original[m]) ELSE ready
  IN /\ Calls(t)
     /\ owner[m] = t /\ hold[m] = 1 /\ locks[m][t] > 0
     /\ prio' = [prio EXCEPT ![t] = original[m]]
     /\ Unlocked(t, m)
     /\ \/ /\ waiting[m] # <<>>
           /\ owner' = [owner EXCEPT ![m] = w]
           /\ original' = [original EXCEPT ![m] = prio[w]]
           /\ Resume(w, m, r)
           /\ UNCHANGED <<mvalue, hold>>
        \/ /\ waiting[m] = <<>>
           /\ mvalue' = [mvalue EXCEPT ![m] = mvalue[m] + 1]
           /\ owner' = [owner EXCEPT ![m] = Idle]
           /\ hold' = [hold EXCEPT ![m] = 0]
           /\ original' = [original EXCEPT ![m] = None]
           /\ ready' = r
           /\ UNCHANGED <<current, stat, waiting, timers>>
     /\ UNCHANGED <<lvars, rt_tick, masked, error, op>>
=============================================================================
