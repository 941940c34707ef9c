------------------------------ MODULE WaitProofs ------------------------------
(*****************************************************************************)
(* What no test reaches: no wakeup of the kernel is ever lost, whatever the  *)
(* threads, the interrupts and the timeouts do in between, for any number of *)
(* threads and any sizes; the owner of a mutex is as urgent as whoever waits *)
(* for it; and a memory pool one thread allocates from never gives a block   *)
(* twice, nor a block that is not there. All rest on what a step of one      *)
(* object does to the threads of another one: nothing (KernelProofs!Quiet).  *)
(*****************************************************************************)
EXTENDS QueueProofs

-----------------------------------------------------------------------------
(* No lost wakeup.                                                         *)

\* The threads that wait in list l.
Waits(l) == {u \in Threads : stat[u] = "suspend" /\ op[u] = l}

\* If anybody waits in list l, for each of the n things that are there a thread
\* was woken up that has still to take it.
Counted(l, n) == Waits(l) # {} => n <= Cardinality(Woken(l))

\* A unit is free only if no thread waits for one.
SemWake   == Waits(SemList) # {} => value = 0
\* A mutex somebody waits for has an owner.
MutexWake == \A m \in Mutexes : Waits(m) # {} => owner[m] \in Threads
\* What a waiting thread waits for has not come, except for those the loop of
\* rt_event_send has still to look at.
EventWake == /\ DOMAIN wants = Threads /\ DOMAIN option = Threads
             /\ \A t \in Waits(EvList) : t \in Range(todo) \/ ~Meets(wants[t], option[t])
\* The mails for the receivers, the places for the senders.
MailWake  == /\ Counted(RecvList, entry) /\ WaitOk({RecvList})
             /\ Counted(SendList, MbSize - entry) /\ WaitOk({SendList})
\* The messages for the receivers.
QueueWake == Counted(MqList, Len(mq_queue)) /\ WaitOk({MqList})

\* The invariant: nobody waits for what is there.
WakeInv == SemWake /\ MutexWake /\ EventWake /\ MailWake /\ QueueWake

\* Every suspend list belongs to one object.
LEMMA ListsApart ==
  /\ {SemList, EvList, RecvList, SendList, MqList, PoolList} \subseteq Lists \ Mutexes
  /\ SemList \notin {EvList, RecvList, SendList, MqList, PoolList}
  /\ EvList \notin {RecvList, SendList, MqList, PoolList}
  /\ RecvList \notin {SendList, MqList, PoolList}
  /\ SendList \notin {MqList, PoolList}
  /\ MqList # PoolList
  /\ Mutexes \subseteq Lists
<1> DEFINE s == <<SemList, EvList, RecvList, SendList, MqList, PoolList>>
<1>1. DOMAIN s = 1 .. 6 /\ IsInjective(s)
  BY KernelAssumption
<1>2. \A i, j \in 1 .. 6 : i # j => s[i] # s[j]
  BY <1>1 DEF IsInjective
<1>3. /\ s[1] # s[2] /\ s[1] # s[3] /\ s[1] # s[4] /\ s[1] # s[5] /\ s[1] # s[6]
      /\ s[2] # s[3] /\ s[2] # s[4] /\ s[2] # s[5] /\ s[2] # s[6]
      /\ s[3] # s[4] /\ s[3] # s[5] /\ s[3] # s[6]
      /\ s[4] # s[5] /\ s[4] # s[6] /\ s[5] # s[6]
  <2>1. 1 \in 1 .. 6 /\ 2 \in 1 .. 6 /\ 3 \in 1 .. 6 /\ 4 \in 1 .. 6 /\ 5 \in 1 .. 6 /\ 6 \in 1 .. 6
    OBVIOUS
  <2> HIDE DEF s
  <2> QED
    BY <1>2, <2>1
<1>4. {SemList, EvList, RecvList, SendList, MqList, PoolList} \subseteq Lists
  BY SemaphoreAssumption, EventAssumption, MailboxAssumption, MessageQueueAssumption, MemPoolAssumption
<1> QED
  BY <1>3, <1>4, KernelAssumption, MutexAssumption

\* Who waits for an object is in its list.
LEMMA WaitsIs ==
  ASSUME ListsInv, NEW l \in Lists
  PROVE  Waits(l) = Range(waiting[l]) /\ (Waits(l) = {} <=> waiting[l] = <<>>)
<1>1. waiting[l] \in Seq(Threads) /\ \A t \in Threads : t \in Range(waiting[l]) <=> t \in Waits(l)
  BY DEF ListsInv, WaitSound, Waits
<1>2. Range(waiting[l]) \subseteq Threads
  BY <1>1, ElementOfSeq, LenProperties DEF Range
<1>3. Waits(l) = Range(waiting[l])
  BY <1>1, <1>2 DEF Waits
<1>4. waiting[l] = <<>> => Range(waiting[l]) = {}
  BY DEF Range
<1>5. waiting[l] # <<>> => Range(waiting[l]) # {}
  BY HeadWaits
<1> QED
  BY <1>3, <1>4, <1>5

\* A quiet step wakes nobody of the lists L, and lets nobody wait in them.
LEMMA QuietSets ==
  ASSUME NEW L, Quiet(L), NEW l \in L
  PROVE  Woken(l)' = Woken(l) /\ Waits(l)' \subseteq Waits(l) /\ (WaitOk({l}) => WaitOk({l})')
<1>1. Untouched({l})
  BY QuietIs
<1>2. WaitOk({l}) => WaitOk({l})'
  BY <1>1, UntouchedIs
<1>3. \A u \in Threads : /\ Granted(u, l)' <=> Granted(u, l)
                         /\ stat'[u] = "suspend" /\ op'[u] = l => stat[u] = "suspend" /\ op[u] = l
  BY DEF Quiet, Granted
<1> QED
  BY <1>2, <1>3 DEF Woken, Granted, Waits

\* The woken threads are finitely many.
LEMMA WokenIs ==
  ASSUME NEW l
  PROVE  IsFiniteSet(Woken(l)) /\ Cardinality(Woken(l)) \in Nat
<1>1. Woken(l) \subseteq Threads
  BY DEF Woken
<1> QED
  BY <1>1, ThreadsAssumption, FS_Subset, FS_CardinalityType

\* So are those after a step.
LEMMA WokenNext ==
  ASSUME NEW l
  PROVE  Cardinality(Woken(l)') \in Nat
<1>1. Woken(l)' \subseteq Threads
  BY DEF Woken
<1> QED
  BY <1>1, ThreadsAssumption, FS_Subset, FS_CardinalityType

\* rt_ipc_list_resume wakes one thread of list l, if any waits in it.
LEMMA FirstSets ==
  ASSUME ListsInv, ScalarInv, NEW l \in Lists, WaitOk({l}), ResumeFirst(l), error' = error,
         op' = op \/ \E t \in Threads : op[t] # l /\ op' = [op EXCEPT ![t] = "none"]
  PROVE  /\ Waits(l)' \subseteq Waits(l) /\ WaitOk({l})'
         /\ \/ Waits(l) = {} /\ Woken(l)' = Woken(l)
            \/ \E w \in Threads \ Woken(l) : Woken(l)' = Woken(l) \cup {w}
<1>0. "none" # l /\ stat \in [Threads -> States] /\ op \in [Threads -> Ops] /\ "none" \in Ops
  BY ThreadsAssumption DEF ListsInv, Ops
<1>1. \A u \in Threads : op[u] = l <=> op'[u] = l
  BY <1>0
<1>2. CASE waiting[l] = <<>>
  <2>1. stat' = stat /\ Waits(l) = {}
    BY <1>2, WaitsIs DEF ResumeFirst
  <2> QED
    BY <1>1, <2>1 DEF Waits, Woken, WaitOk
<1>3. CASE waiting[l] # <<>>
  <2>1. PICK w \in Threads : stat[w] = "suspend" /\ op[w] = l /\ stat' = [stat EXCEPT ![w] = "ready"]
    BY <1>3, HeadWaits DEF ResumeFirst, Resume
  <2>2. error[w] = "ok"
    BY <2>1 DEF WaitOk
  <2>3. \A u \in Threads : stat'[u] = IF u = w THEN "ready" ELSE stat[u]
    BY <1>0, <2>1
  <2>4. Woken(l)' = Woken(l) \cup {w} /\ w \notin Woken(l)
    BY <1>1, <2>1, <2>2, <2>3 DEF Woken
  <2>5. Waits(l)' \subseteq Waits(l) /\ WaitOk({l})'
    BY <1>1, <2>3 DEF Waits, WaitOk
  <2> QED
    BY <2>4, <2>5
<1> QED
  BY <1>2, <1>3

\* A thread that leaves its call takes itself out of the woken ones.
LEMMA LeaveSets ==
  ASSUME ListsInv, NEW l \in Lists, NEW t \in Threads, op[t] = l, stat[t] = "ready", op'[t] # l,
         \A u \in Threads \ {t} : op[u] = l \/ op'[u] = l =>
           op'[u] = op[u] /\ stat'[u] = stat[u] /\ error'[u] = error[u]
  PROVE  /\ Waits(l)' = Waits(l) /\ Woken(l)' = Woken(l) \ {t}
         /\ WaitOk({l}) => WaitOk({l})'
<1>1. Woken(l)' = Woken(l) \ {t}
  BY DEF Woken
<1>2. Waits(l)' = Waits(l)
  BY DEF Waits
<1> QED
  BY <1>1, <1>2 DEF WaitOk

\* Nothing more is there and nobody else waits: the count stays true.
LEMMA CountSame ==
  ASSUME NEW l, NEW n \in Int, Counted(l, n), NEW k \in Int, k <= n,
         Waits(l)' \subseteq Waits(l), Woken(l)' = Woken(l)
  PROVE  Counted(l, k)'
BY WokenIs, SMT DEF Counted

\* One more is there, and one thread was woken for it.
LEMMA CountMore ==
  ASSUME NEW l, NEW n \in Int, Counted(l, n), NEW k \in Int, k <= n + 1,
         Waits(l)' \subseteq Waits(l),
         \/ Waits(l) = {} /\ Woken(l)' = Woken(l)
         \/ \E w \in Threads \ Woken(l) : Woken(l)' = Woken(l) \cup {w}
  PROVE  Counted(l, k)'
<1>1. CASE Waits(l) = {}
  BY <1>1 DEF Counted
<1>2. ASSUME NEW w \in Threads \ Woken(l), Woken(l)' = Woken(l) \cup {w}, Waits(l) # {}
      PROVE  Counted(l, k)'
  <2>1. Cardinality(Woken(l)') = Cardinality(Woken(l)) + 1
    BY <1>2, WokenIs, FS_AddElement
  <2> QED
    BY <1>2, <2>1, WokenIs, SMT DEF Counted
<1> QED
  BY <1>1, <1>2

\* A woken thread leaves and takes what it was woken for.
LEMMA CountLeft ==
  ASSUME NEW l, NEW n \in Int, Counted(l, n), NEW k \in Int, k < n, NEW t \in Woken(l),
         Waits(l)' = Waits(l), Woken(l)' = Woken(l) \ {t}
  PROVE  Counted(l, k)'
<1>1. Cardinality(Woken(l)') = Cardinality(Woken(l)) - 1
  BY WokenIs, FS_RemoveElement
<1> QED
  BY <1>1, WokenIs, SMT DEF Counted

\* Where nothing is there, any number of threads may wait.
LEMMA CountNone ==
  ASSUME NEW l, NEW k \in Int, k <= 0
  PROVE  Counted(l, k)'
BY WokenNext, SMT DEF Counted

\* A step of another object changes nothing for the threads of list l.
LEMMA CountKeeps ==
  ASSUME NEW L, Quiet(L), NEW l \in L, NEW n \in Int, Counted(l, n), WaitOk({l})
  PROVE  (Waits(l)' # {} => n <= Cardinality(Woken(l)')) /\ WaitOk({l})'
BY QuietSets DEF Counted

\* The steps of other objects leave the semaphore's threads alone.
LEMMA SemKeep ==
  ASSUME SemWake, NEW L, Quiet(L), SemList \in L, UNCHANGED semvars
  PROVE  SemWake'
BY QuietSets DEF SemWake, semvars

\* The steps of other objects leave the mutexes' threads alone.
LEMMA MutexKeep ==
  ASSUME MutexWake, NEW L, Quiet(L), Mutexes \subseteq L, UNCHANGED mvars
  PROVE  MutexWake'
BY QuietSets DEF MutexWake, mvars

\* The steps of other objects leave the event's threads alone.
LEMMA EventKeep ==
  ASSUME EventWake, NEW L, Quiet(L), EvList \in L, UNCHANGED evvars
  PROVE  EventWake'
<1>1. Waits(EvList)' \subseteq Waits(EvList)
  BY QuietSets
<1> QED
  BY <1>1 DEF EventWake, evvars, Meets

\* The steps of other objects leave the mailbox's threads alone.
LEMMA MailKeep ==
  ASSUME MailWake, RingInv, NEW L, Quiet(L), RecvList \in L, SendList \in L, UNCHANGED mbvars
  PROVE  MailWake'
<1>1. entry \in Int /\ MbSize - entry \in Int /\ entry' = entry /\ (MbSize - entry)' = MbSize - entry
  BY MailboxAssumption DEF RingInv, mbvars
<1>2. (Waits(RecvList)' # {} => entry <= Cardinality(Woken(RecvList)')) /\ WaitOk({RecvList})'
  BY <1>1, CountKeeps DEF MailWake
<1>3. (Waits(SendList)' # {} => MbSize - entry <= Cardinality(Woken(SendList)')) /\ WaitOk({SendList})'
  BY <1>1, CountKeeps DEF MailWake
<1> QED
  BY <1>1, <1>2, <1>3 DEF MailWake, Counted

\* The steps of other objects leave the queue's threads alone.
LEMMA QueueKeep ==
  ASSUME QueueWake, SlotInv, NEW L, Quiet(L), MqList \in L, UNCHANGED mqvars
  PROVE  QueueWake'
<1>1. Len(mq_queue) \in Int /\ mq_queue' = mq_queue
  BY DEF SlotInv, SlotType, mqvars
<1>2. (Waits(MqList)' # {} => Len(mq_queue) <= Cardinality(Woken(MqList)')) /\ WaitOk({MqList})'
  BY <1>1, CountKeeps DEF QueueWake
<1> QED
  BY <1>1, <1>2 DEF QueueWake, Counted

\* rt_sem_release adds a unit only if nobody waits, rt_sem_take waits only without
\* one.
LEMMA SemWakeStep ==
  ASSUME ListsInv, ScalarInv, SemWake, NEW t \in Threads, NEW time \in Times,
         SemTake(t, time) \/ SemTaken(t) \/ SemRelease
  PROVE  SemWake'
<1>0. /\ SemList \in Lists /\ "none" # SemList
      /\ stat \in [Threads -> States] /\ op \in [Threads -> Ops]
  BY NamesIs, SemaphoreAssumption, OwnedIs DEF ListsInv, Owned
<1>1. CASE SemTake(t, time)
  BY <1>1 DEF SemTake, SemWake, Waits, tvars, semvars
<1>2. CASE SemTaken(t)
  BY <1>0, <1>2 DEF SemTaken, Leave, SemWake, Waits
<1>3. CASE SemRelease
  <2>1. CASE waiting[SemList] = <<>> /\ UNCHANGED tvars
    BY <1>0, <2>1, WaitsIs DEF SemWake, Waits, tvars
  <2>2. CASE Resume(Head(waiting[SemList]), SemList, ready) /\ op' = op /\ value' = value
    BY <1>0, <2>2 DEF Resume, SemWake, Waits
  <2> QED
    BY <1>3, <2>1, <2>2 DEF SemRelease
<1> QED
  BY <1>1, <1>2, <1>3

\* rt_mutex_release hands the mutex over if anybody waits for it; a thread whose
\* wait timed out leaves it with its owner.
LEMMA MutexWakeStep ==
  ASSUME ListsInv, ScalarInv, MutexInv, MutexWake,
         NEW t \in Threads, NEW m \in Mutexes, NEW time,
         \/ MutexTake(t, m) \/ MutexWait(t, m, time) \/ MutexTaken(t, m)
         \/ MutexUnnest(t, m) \/ MutexRelease(t, m) \/ MutexRefused(t, m)
  PROVE  MutexWake'
<1>0. /\ m \in Lists /\ "none" \notin Mutexes
      /\ stat \in [Threads -> States] /\ op \in [Threads -> Ops]
      /\ owner \in [Mutexes -> Threads \cup {Idle}]
  BY NamesIs, MutexAssumption DEF ListsInv, MutexInv, MutexType
<1>1. CASE MutexTake(t, m)
  BY <1>0, <1>1 DEF MutexTake, MutexWake, Waits
<1>2. CASE MutexWait(t, m, time)
  <2>1. owner[m] \in Threads /\ owner' = owner
    BY <1>0, <1>2 DEF MutexWait, MutexInv, MutexSound, mvars
  <2>2. UNCHANGED <<stat, op>> \/ Suspend(t, m, time, Requeued(owner[m], prio[t]), prio')
        \/ Suspend(t, m, time, ready, prio)
    BY <1>2 DEF MutexWait
  <2>3. \A n \in Mutexes \ {m} : Waits(n)' \subseteq Waits(n)
    BY <1>0, <2>2 DEF Suspend, Waits
  <2> QED
    BY <2>1, <2>3 DEF MutexWake
<1>3. CASE MutexTaken(t, m)
  BY <1>0, <1>3 DEF MutexTaken, Leave, MutexWake, Waits
<1>4. CASE MutexUnnest(t, m) \/ MutexRefused(t, m)
  BY <1>4 DEF MutexUnnest, MutexRefused, MutexWake, Waits, tvars, mvars
<1>5. CASE MutexRelease(t, m)
  <2>1. CASE /\ waiting[m] # <<>> /\ owner' = [owner EXCEPT ![m] = Head(waiting[m])]
             /\ stat' = [stat EXCEPT ![Head(waiting[m])] = "ready"] /\ op' = op
    <3>1. Head(waiting[m]) \in Threads
      BY <1>0, <2>1, HeadWaits
    <3>2. \A n \in Mutexes : Waits(n)' \subseteq Waits(n)
      BY <1>0, <2>1 DEF Waits
    <3> QED
      BY <1>0, <2>1, <3>1, <3>2 DEF MutexWake
  <2>2. CASE waiting[m] = <<>> /\ owner' = [owner EXCEPT ![m] = Idle] /\ UNCHANGED <<stat, op>>
    <3>1. Waits(m) = {}
      BY <1>0, <2>2, WaitsIs
    <3> QED
      BY <1>0, <2>2, <3>1 DEF MutexWake, Waits
  <2> QED
    BY <1>5, <2>1, <2>2 DEF MutexRelease, Resume
<1> QED
  BY <1>1, <1>2, <1>3, <1>4, <1>5

\* rt_event_send looks at every thread that waits, and none is left to wait for
\* events that are there.
LEMMA EventWakeStep ==
  ASSUME ListsInv, ScalarInv, LoopInv, EventWake, NEW t \in Threads, NEW set, NEW opt, NEW time,
         EvSend(set) \/ EvLook \/ EvRecv(t, set, opt, time) \/ EvReceived(t)
  PROVE  EventWake'
<1>0. /\ EvList \in Lists /\ "none" # EvList
      /\ stat \in [Threads -> States] /\ op \in [Threads -> Ops]
      /\ DOMAIN wants = Threads /\ DOMAIN option = Threads
  BY NamesIs, EventAssumption, ThreadsAssumption DEF ListsInv, EventWake
<1>1. CASE EvSend(set)
  <2>1. Waits(EvList)' = Range(todo')
    BY <1>0, <1>1, WaitsIs DEF EvSend, Waits
  <2>2. UNCHANGED <<wants, option>>
    BY <1>1 DEF EvSend
  <2> QED
    BY <1>0, <2>1, <2>2 DEF EventWake
<1>2. CASE EvLook
  <2> DEFINE w == Head(todo)
  <2>1. todo # <<>> /\ todo \in Seq(Threads) /\ IsInjective(todo) /\ todo' = Tail(todo)
    BY <1>2 DEF EvLook, LoopInv
  <2>2. Range(todo') = Range(todo) \ {w} /\ w \in Threads
    BY <2>1, TailRange
  <2>3. CASE ~Meets(wants[w], option[w]) /\ UNCHANGED <<stat, op, wants, option, event_set>>
    BY <1>0, <2>2, <2>3 DEF EventWake, Waits, Meets
  <2>4. CASE /\ stat' = [stat EXCEPT ![w] = "ready"] /\ op' = op /\ option' = option
             /\ event_set' \subseteq event_set /\ \E r : wants' = [wants EXCEPT ![w] = r]
    <3>1. \A u \in Threads \ {w} : wants'[u] = wants[u] /\ stat'[u] = stat[u]
      BY <1>0, <2>4
    <3>2. stat'[w] # "suspend" /\ DOMAIN wants' = Threads
      BY <1>0, <2>2, <2>4
    <3>3. \A u \in Waits(EvList)' : u \in Waits(EvList) /\ u # w /\ u \in Threads
      BY <2>4, <3>1, <3>2 DEF Waits
    <3> HIDE DEF w
    <3>4. ASSUME NEW u \in Waits(EvList)', u \notin Range(todo')
          PROVE  ~Meets(wants[u], option[u])'
      <4>1. ~Meets(wants[u], option[u]) /\ wants'[u] = wants[u] /\ option'[u] = option[u]
        BY <2>2, <2>4, <3>1, <3>3, <3>4 DEF EventWake
      <4> QED
        BY <2>4, <4>1 DEF Meets
    <3> QED
      BY <1>0, <2>4, <3>2, <3>4 DEF EventWake
  <2>5. op' = op /\ option' = option
    BY <1>2 DEF EvLook
  <2> QED
    BY <1>2, <2>3, <2>4, <2>5 DEF EvLook, Resume, LeftBehind
<1>3. CASE EvRecv(t, set, opt, time)
  <2>1. CASE event_set' \subseteq event_set /\ UNCHANGED <<stat, op, wants, option, todo>>
    BY <1>0, <2>1 DEF EventWake, Waits, Meets
  <2>2. CASE /\ ~Meets(set, opt) /\ wants' = [wants EXCEPT ![t] = set]
             /\ option' = [option EXCEPT ![t] = opt]
             /\ Suspend(t, EvList, time, ready, prio) /\ event_set' = event_set /\ todo' = todo
    <3>1. \A u \in Threads \ {t} : /\ wants'[u] = wants[u] /\ option'[u] = option[u]
                                   /\ stat'[u] = stat[u] /\ op'[u] = op[u]
      BY <1>0, <2>2 DEF Suspend
    <3>2. /\ wants'[t] = set /\ option'[t] = opt /\ DOMAIN wants' = Threads
          /\ DOMAIN option' = Threads
      BY <1>0, <2>2
    <3>3. ASSUME NEW u \in Waits(EvList)', u \notin Range(todo')
          PROVE  ~Meets(wants[u], option[u])'
      <4>1. CASE u = t
        BY <2>2, <3>2, <4>1 DEF Meets
      <4>2. CASE u # t
        <5>1. u \in Waits(EvList)
          BY <3>1, <3>3, <4>2 DEF Waits
        <5>2. ~Meets(wants[u], option[u]) /\ wants'[u] = wants[u] /\ option'[u] = option[u]
          BY <2>2, <3>1, <3>3, <4>2, <5>1 DEF EventWake, Waits
        <5> QED
          BY <2>2, <5>2 DEF Meets
      <4> QED
        BY <4>1, <4>2
    <3> QED
      BY <3>2, <3>3 DEF EventWake
  <2> QED
    BY <1>3, <2>1, <2>2 DEF EvRecv, LeftBehind
<1>4. CASE EvReceived(t)
  <2>1. /\ wants' = [wants EXCEPT ![t] = {}] /\ option' = [option EXCEPT ![t] = {}]
        /\ op' = [op EXCEPT ![t] = "none"] /\ UNCHANGED <<stat, event_set, todo>>
    BY <1>4 DEF EvReceived, Leave
  <2>2. /\ DOMAIN wants' = Threads /\ DOMAIN option' = Threads
        /\ \A u \in Waits(EvList)' : /\ u \in Waits(EvList)
                                     /\ wants'[u] = wants[u] /\ option'[u] = option[u]
    BY <1>0, <2>1 DEF Waits
  <2> QED
    BY <2>1, <2>2 DEF EventWake, Meets
<1> QED
  BY <1>1, <1>2, <1>3, <1>4

\* What was put into an object wakes the first thread that waits for it.
LEMMA Wakes ==
  ASSUME ListsInv, ScalarInv, NEW l \in Lists, WaitOk({l}), ResumeFirst(l), error' = error,
         op' = op \/ \E t \in Threads : op[t] # l /\ op' = [op EXCEPT ![t] = "none"],
         NEW n \in Int, Counted(l, n), NEW k \in Int, k <= n + 1
  PROVE  (Waits(l)' # {} => k <= Cardinality(Woken(l)')) /\ WaitOk({l})'
<1>1. Counted(l, k)' /\ WaitOk({l})'
  BY FirstSets, CountMore
<1> QED
  BY <1>1 DEF Counted

\* A thread that ends its call takes one, or was not woken for one.
LEMMA Leaves ==
  ASSUME ListsInv, NEW l \in Lists, NEW t \in Threads, current = t, op[t] = l, op'[t] # l,
         \A u \in Threads \ {t} : op[u] = l \/ op'[u] = l =>
           op'[u] = op[u] /\ stat'[u] = stat[u] /\ error'[u] = error[u],
         WaitOk({l}), NEW n \in Int, Counted(l, n), NEW k \in Int,
         \/ error[t] = "ok" /\ k < n
         \/ error[t] # "ok" /\ k <= n
         \/ k <= 0
  PROVE  (Waits(l)' # {} => k <= Cardinality(Woken(l)')) /\ WaitOk({l})'
<1>1. stat[t] = "ready"
  BY CallerReady
<1>2. Waits(l)' = Waits(l) /\ Woken(l)' = Woken(l) \ {t} /\ WaitOk({l})'
  BY <1>1, LeaveSets
<1>3. CASE error[t] = "ok" /\ k < n
  <2>1. t \in Woken(l)
    BY <1>1, <1>3 DEF Woken
  <2>2. Counted(l, k)'
    BY <1>2, <1>3, <2>1, CountLeft
  <2> QED
    BY <1>2, <2>2 DEF Counted
<1>4. CASE error[t] # "ok" /\ k <= n
  <2>1. Woken(l)' = Woken(l)
    BY <1>2, <1>4 DEF Woken
  <2>2. Counted(l, k)'
    BY <1>2, <1>4, <2>1, CountSame
  <2> QED
    BY <1>2, <2>2 DEF Counted
<1>5. CASE k <= 0
  <2>1. Counted(l, k)'
    BY <1>5, CountNone
  <2> QED
    BY <1>2, <2>1 DEF Counted
<1> QED
  BY <1>3, <1>4, <1>5

\* A thread waits where nothing is there.
LEMMA Awaits ==
  ASSUME ListsInv, ScalarInv, NEW l \in Lists, NEW t \in Threads, NEW time, Await(t, l, time),
         WaitOk({l}), NEW k \in Int, k <= 0
  PROVE  (Waits(l)' # {} => k <= Cardinality(Woken(l)')) /\ WaitOk({l})'
<1>1. Counted(l, k)'
  BY CountNone
<1>2. WaitOk({l})'
  BY DEF WaitOk, Await, Suspend, ListsInv, ScalarInv
<1> QED
  BY <1>1, <1>2 DEF Counted

\* A thread that leaves list l when the first of list k is resumed.
LEMMA LeavesApart ==
  ASSUME ListsInv, NEW k \in Lists, NEW l \in Lists \ {k}, ResumeFirst(k), error' = error,
         NEW t \in Threads, op[t] = l, op' = [op EXCEPT ![t] = "none"]
  PROVE  /\ op'[t] # l
         /\ \A u \in Threads \ {t} : op[u] = l \/ op'[u] = l =>
              op'[u] = op[u] /\ stat'[u] = stat[u] /\ error'[u] = error[u]
<1>1. op \in [Threads -> Ops] /\ stat \in [Threads -> States] /\ "none" # l
  BY ThreadsAssumption DEF ListsInv
<1>2. stat' = stat \/ \E w \in Threads : op[w] = k /\ stat' = [stat EXCEPT ![w] = "ready"]
  BY HeadWaits DEF ResumeFirst, Resume
<1> QED
  BY <1>1, <1>2

\* A thread that ends its call without a mail, on a timeout or before another
\* that was woken up.
LEMMA GivesUp ==
  ASSUME ListsInv, ScalarInv, NEW l \in Lists, NEW t \in Threads, current = t, op[t] = l,
         NEW x \in Ops \ {l}, op' = [op EXCEPT ![t] = x], stat' = stat,
         error' = error \/ error' = [error EXCEPT ![t] = IF @ = "ok" THEN "timeout" ELSE @],
         WaitOk({l}), NEW n \in Int, Counted(l, n), NEW k \in Int,
         \/ error[t] = "ok" /\ k < n
         \/ error[t] # "ok" /\ k <= n
         \/ k <= 0
  PROVE  (Waits(l)' # {} => k <= Cardinality(Woken(l)')) /\ WaitOk({l})'
<1>1. /\ op'[t] # l
      /\ \A u \in Threads \ {t} : op'[u] = op[u] /\ stat'[u] = stat[u] /\ error'[u] = error[u]
  BY DEF ListsInv, ScalarInv
<1> QED
  BY <1>1, Leaves

\* The two sides of the mailbox.
LEMMA MailWakeIs ==
  ASSUME /\ Waits(RecvList)' # {} => entry' <= Cardinality(Woken(RecvList)')
         /\ WaitOk({RecvList})',
         /\ Waits(SendList)' # {} => MbSize - entry' <= Cardinality(Woken(SendList)')
         /\ WaitOk({SendList})'
  PROVE  MailWake'
BY DEF MailWake, Counted

\* rt_mb_send with a place in the ring resumes a receiver.
LEMMA MailPut ==
  ASSUME ListsInv, ScalarInv, RingInv, MailWake, NEW m, NEW t \in Threads,
         Deposit(m), entry < MbSize,
         \/ op' = op
         \/ Returns(t, SendList) /\ error[t] = "ok" /\ Leave(t)
  PROVE  MailWake'
<1>0. /\ RecvList \in Lists /\ SendList \in Lists /\ RecvList # SendList /\ "none" \notin Lists
      /\ entry \in Int /\ MbSize - entry \in Int /\ MbSize \in Nat /\ entry' = entry + 1
      /\ error' = error /\ ResumeFirst(RecvList)
  BY MailboxAssumption, ThreadsAssumption DEF RingInv, Deposit
<1>1. entry + 1 \in Int /\ MbSize - (entry + 1) \in Int /\ MbSize - (entry + 1) < MbSize - entry
  BY <1>0
<1>2. (Waits(RecvList)' # {} => entry + 1 <= Cardinality(Woken(RecvList)')) /\ WaitOk({RecvList})'
  <2>1. op' = op \/ \E u \in Threads : op[u] # RecvList /\ op' = [op EXCEPT ![u] = "none"]
    BY <1>0 DEF Returns, Leave
  <2>2. Counted(RecvList, entry) /\ WaitOk({RecvList}) /\ entry + 1 <= entry + 1
    BY <1>0 DEF MailWake
  <2> QED
    BY <1>0, <1>1, <2>1, <2>2, Wakes
<1>3. /\ Waits(SendList)' # {} => MbSize - (entry + 1) <= Cardinality(Woken(SendList)')
      /\ WaitOk({SendList})'
  <2>1. CASE op' = op
    <3>1. Quiet({SendList})
      BY <1>0, <2>1, ResumeFirstFrame
    <3>2. Counted(SendList, MbSize - entry) /\ WaitOk({SendList})
      BY DEF MailWake
    <3>3. /\ Waits(SendList)' # {} => MbSize - entry <= Cardinality(Woken(SendList)')
          /\ WaitOk({SendList})'
      BY <1>0, <3>1, <3>2, CountKeeps
    <3>4. Cardinality(Woken(SendList)') \in Nat
      BY WokenNext
    <3> QED
      BY <1>0, <1>1, <3>3, <3>4
  <2>2. CASE Returns(t, SendList) /\ error[t] = "ok" /\ Leave(t)
    <3>1. /\ op'[t] # SendList
          /\ \A u \in Threads \ {t} : op[u] = SendList \/ op'[u] = SendList =>
               op'[u] = op[u] /\ stat'[u] = stat[u] /\ error'[u] = error[u]
      BY <1>0, <2>2, LeavesApart, ZenonT(60) DEF Returns, Leave
    <3> QED
      BY <1>0, <1>1, <2>2, <3>1, Leaves DEF MailWake, Returns
  <2> QED
    BY <2>1, <2>2
<1> QED
  BY <1>0, <1>2, <1>3, MailWakeIs

\* rt_mb_recv with a mail in the ring resumes a sender.
LEMMA MailTake ==
  ASSUME ListsInv, ScalarInv, RingInv, MailWake, NEW t \in Threads,
         Collect(t), entry > 0,
         \/ op' = op
         \/ Returns(t, RecvList) /\ error[t] = "ok" /\ Leave(t)
  PROVE  MailWake'
<1>0. /\ RecvList \in Lists /\ SendList \in Lists /\ RecvList # SendList /\ "none" \notin Lists
      /\ entry \in Int /\ MbSize - entry \in Int /\ MbSize \in Nat /\ entry' = entry - 1
      /\ error' = error /\ ResumeFirst(SendList)
  BY MailboxAssumption, ThreadsAssumption DEF RingInv, Collect
<1>1. entry - 1 \in Int /\ MbSize - (entry - 1) \in Int /\ entry - 1 < entry
      /\ MbSize - (entry - 1) <= (MbSize - entry) + 1
  BY <1>0
<1>2. /\ Waits(SendList)' # {} => MbSize - (entry - 1) <= Cardinality(Woken(SendList)')
      /\ WaitOk({SendList})'
  BY <1>0, <1>1, Wakes DEF MailWake, Returns, Leave
<1>3. (Waits(RecvList)' # {} => entry - 1 <= Cardinality(Woken(RecvList)')) /\ WaitOk({RecvList})'
  <2>1. CASE op' = op
    <3>1. Quiet({RecvList})
      BY <1>0, <2>1, ResumeFirstFrame
    <3>2. Counted(RecvList, entry) /\ WaitOk({RecvList})
      BY DEF MailWake
    <3>3. (Waits(RecvList)' # {} => entry <= Cardinality(Woken(RecvList)')) /\ WaitOk({RecvList})'
      BY <1>0, <3>1, <3>2, CountKeeps
    <3>4. Cardinality(Woken(RecvList)') \in Nat
      BY WokenNext
    <3> QED
      BY <1>0, <1>1, <3>3, <3>4
  <2>2. CASE Returns(t, RecvList) /\ error[t] = "ok" /\ Leave(t)
    <3>1. /\ op'[t] # RecvList
          /\ \A u \in Threads \ {t} : op[u] = RecvList \/ op'[u] = RecvList =>
               op'[u] = op[u] /\ stat'[u] = stat[u] /\ error'[u] = error[u]
      BY <1>0, <2>2, LeavesApart, ZenonT(60) DEF Returns, Leave
    <3> QED
      BY <1>0, <1>1, <2>2, <3>1, Leaves DEF MailWake, Returns
  <2> QED
    BY <2>1, <2>2
<1> QED
  BY <1>0, <1>2, <1>3, MailWakeIs

\* A sender waits only if the ring is full, a receiver only if it is empty.
LEMMA MailWaits ==
  ASSUME ListsInv, ScalarInv, RingInv, MailWake, NEW t \in Threads, NEW time,
         MailStays,
         \/ entry = MbSize /\ op[t] # RecvList /\ Await(t, SendList, time)
         \/ entry = 0 /\ op[t] # SendList /\ Await(t, RecvList, time)
  PROVE  MailWake'
<1>0. /\ RecvList \in Lists /\ SendList \in Lists /\ RecvList # SendList
      /\ entry \in Int /\ MbSize - entry \in Int /\ entry' = entry
      /\ Counted(RecvList, entry) /\ WaitOk({RecvList})
      /\ Counted(SendList, MbSize - entry) /\ WaitOk({SendList})
  BY MailboxAssumption DEF RingInv, MailStays, MailWake
<1>1. CASE entry = MbSize /\ op[t] # RecvList /\ Await(t, SendList, time)
  <2>1. Quiet({RecvList})
    BY <1>0, <1>1, AwaitFrame
  <2>2. (Waits(RecvList)' # {} => entry <= Cardinality(Woken(RecvList)')) /\ WaitOk({RecvList})'
    BY <1>0, <2>1, CountKeeps
  <2>3. MbSize - entry <= 0
    BY <1>1, MailboxAssumption
  <2>4. /\ Waits(SendList)' # {} => MbSize - entry <= Cardinality(Woken(SendList)')
        /\ WaitOk({SendList})'
    BY <1>0, <1>1, <2>3, Awaits
  <2> QED
    BY <1>0, <2>2, <2>4, MailWakeIs
<1>2. CASE entry = 0 /\ op[t] # SendList /\ Await(t, RecvList, time)
  <2>1. Quiet({SendList})
    BY <1>0, <1>2, AwaitFrame
  <2>2. /\ Waits(SendList)' # {} => MbSize - entry <= Cardinality(Woken(SendList)')
        /\ WaitOk({SendList})'
    BY <1>0, <2>1, CountKeeps
  <2>3. (Waits(RecvList)' # {} => entry <= Cardinality(Woken(RecvList)')) /\ WaitOk({RecvList})'
    <3>1. entry <= 0
      BY <1>2
    <3> QED
      BY <1>0, <1>2, <3>1, Awaits
  <2> QED
    BY <1>0, <2>2, <2>3, MailWakeIs
<1> QED
  BY <1>1, <1>2

\* A sender or receiver returns without a place or a mail.
LEMMA MailGivesUp ==
  ASSUME ListsInv, ScalarInv, RingInv, MailWake, NEW t \in Threads, MailStays, LeaveLoop(t),
         stat' = stat,
         \/ Returns(t, SendList) /\ (error[t] # "ok" \/ entry = MbSize) /\ error' = error
         \/ /\ Returns(t, RecvList) /\ (error[t] # "ok" \/ entry = 0)
            /\ error' = [error EXCEPT ![t] = IF @ = "ok" THEN "timeout" ELSE @]
  PROVE  MailWake'
<1>0. /\ RecvList \in Lists /\ SendList \in Lists /\ RecvList # SendList
      /\ entry \in Int /\ MbSize - entry \in Int /\ entry' = entry /\ MbSize \in Nat
      /\ Counted(RecvList, entry) /\ WaitOk({RecvList})
      /\ Counted(SendList, MbSize - entry) /\ WaitOk({SendList})
      /\ op' = [op EXCEPT ![t] = "none"] /\ "none" \in Ops \ {SendList}
      /\ "none" \in Ops \ {RecvList}
  BY MailboxAssumption, ThreadsAssumption DEF RingInv, MailStays, MailWake, LeaveLoop, Leave, Ops
<1>1. CASE Returns(t, SendList) /\ (error[t] # "ok" \/ entry = MbSize) /\ error' = error
  <2>0. current = t /\ op[t] = SendList
    BY <1>1 DEF Returns
  <2>1. Quiet({RecvList})
    BY <1>0, <1>1, <2>0, LeaveFrame
  <2>2. (Waits(RecvList)' # {} => entry <= Cardinality(Woken(RecvList)')) /\ WaitOk({RecvList})'
    BY <1>0, <2>1, CountKeeps
  <2>3. (error[t] # "ok" /\ MbSize - entry <= MbSize - entry) \/ MbSize - entry <= 0
    BY <1>0, <1>1
  <2>4. /\ Waits(SendList)' # {} => MbSize - entry <= Cardinality(Woken(SendList)')
        /\ WaitOk({SendList})'
    BY <1>0, <1>1, <2>0, <2>3, GivesUp
  <2> QED
    BY <1>0, <2>2, <2>4, MailWakeIs
<1>2. CASE /\ Returns(t, RecvList) /\ (error[t] # "ok" \/ entry = 0)
           /\ error' = [error EXCEPT ![t] = IF @ = "ok" THEN "timeout" ELSE @]
  <2>0. current = t /\ op[t] = RecvList
    BY <1>2 DEF Returns
  <2>1. Quiet({SendList})
    BY <1>0, <1>2, <2>0, LeaveFrame
  <2>2. /\ Waits(SendList)' # {} => MbSize - entry <= Cardinality(Woken(SendList)')
        /\ WaitOk({SendList})'
    BY <1>0, <2>1, CountKeeps
  <2>3. (error[t] # "ok" /\ entry <= entry) \/ entry <= 0
    BY <1>0, <1>2
  <2>4. (Waits(RecvList)' # {} => entry <= Cardinality(Woken(RecvList)')) /\ WaitOk({RecvList})'
    BY <1>0, <1>2, <2>0, <2>3, GivesUp
  <2> QED
    BY <1>0, <2>2, <2>4, MailWakeIs
<1> QED
  BY <1>1, <1>2

\* Every step of the mailbox.
LEMMA MailWakeStep ==
  ASSUME ListsInv, ScalarInv, RingInv, MailWake, NEW t \in Threads, NEW m, NEW time,
         \/ MbSend(t, m, time) \/ MbPost(m) \/ MbSendGoesOn(t)
         \/ MbRecv(t, time) \/ MbRecvGoesOn(t)
  PROVE  MailWake'
<1>0. "none" \notin Lists /\ RecvList \in Lists /\ SendList \in Lists /\ RecvList # SendList
  BY ThreadsAssumption, MailboxAssumption
<1>1. CASE MbSend(t, m, time) \/ MbPost(m)
  <2>1. CASE Deposit(m) /\ entry < MbSize /\ op' = op
    BY <2>1, MailPut
  <2>2. CASE Calls(t) /\ entry = MbSize /\ Await(t, SendList, time) /\ MailStays
    BY <1>0, <2>2, MailWaits DEF Calls
  <2> QED
    BY <1>1, <2>1, <2>2 DEF MbSend, MbPost
<1>2. CASE MbSendGoesOn(t)
  <2>0. Returns(t, SendList) /\ op[t] # RecvList
    BY <1>0, <1>2 DEF MbSendGoesOn, Returns
  <2>1. CASE /\ error[t] # "ok" \/ entry = MbSize
             /\ LeaveLoop(t) /\ MailStays /\ UNCHANGED <<stat, error>>
    BY <2>0, <2>1, MailGivesUp
  <2>2. CASE error[t] = "ok" /\ entry < MbSize /\ Deposit(mail[t]) /\ LeaveLoop(t)
    BY <2>0, <2>2, MailPut DEF LeaveLoop
  <2>3. CASE error[t] = "ok" /\ entry = MbSize /\ Await(t, SendList, Remaining(t)) /\ MailStays
    BY <2>0, <2>3, MailWaits
  <2> QED
    BY <1>2, <2>1, <2>2, <2>3 DEF MbSendGoesOn
<1>3. CASE MbRecv(t, time)
  <2>1. CASE Collect(t) /\ entry > 0 /\ op' = op
    BY <2>1, MailTake
  <2>2. CASE Calls(t) /\ entry = 0 /\ Await(t, RecvList, time) /\ MailStays
    BY <1>0, <2>2, MailWaits DEF Calls
  <2> QED
    BY <1>3, <2>1, <2>2 DEF MbRecv
<1>4. CASE MbRecvGoesOn(t)
  <2>0. Returns(t, RecvList) /\ op[t] # SendList
    BY <1>0, <1>4 DEF MbRecvGoesOn, Returns
  <2>1. CASE /\ error[t] # "ok" \/ entry = 0
             /\ error' = [error EXCEPT ![t] = IF @ = "ok" THEN "timeout" ELSE @]
             /\ LeaveLoop(t) /\ MailStays /\ UNCHANGED stat
    BY <2>0, <2>1, MailGivesUp
  <2>2. CASE error[t] = "ok" /\ entry > 0 /\ Collect(t) /\ LeaveLoop(t)
    BY <2>0, <2>2, MailTake DEF LeaveLoop
  <2>3. CASE error[t] = "ok" /\ entry = 0 /\ Await(t, RecvList, Remaining(t)) /\ MailStays
    BY <2>0, <2>3, MailWaits
  <2> QED
    BY <1>4, <2>1, <2>2, <2>3 DEF MbRecvGoesOn
<1> QED
  BY <1>1, <1>2, <1>3, <1>4

\* Every step of the message queue: rt_mq_send resumes a receiver when it links
\* the message, which another receiver may take before it runs.
LEMMA QueueWakeStep ==
  ASSUME ListsInv, ScalarInv, SlotInv, QueueWake, NEW t \in Threads, NEW m, NEW urgent,
         NEW time,
         \/ MqSend(t, m, urgent) \/ MqLink(t) \/ MqPost(m, urgent)
         \/ MqRecv(t, time) \/ MqRecvGoesOn(t) \/ MqFree(t)
  PROVE  QueueWake'
<1>a. PICK n : n = Len(mq_queue)
  OBVIOUS
<1> DEFINE More(k) == (Waits(MqList)' # {} => k <= Cardinality(Woken(MqList)')) /\ WaitOk({MqList})'
<1>0. /\ MqList \in Lists /\ "none" \notin Lists /\ {"none", "fill", "copy"} \subseteq Ops \ {MqList}
      /\ mq_queue \in Seq(Range(Slots)) /\ mq_free \in Seq(Range(Slots)) /\ n \in Nat
      /\ Counted(MqList, n) /\ WaitOk({MqList}) /\ Cardinality(Woken(MqList)') \in Nat
      /\ n \in Int /\ n + 1 \in Int /\ n - 1 \in Int
  BY <1>a, NamesIs, MessageQueueAssumption, ThreadsAssumption, WokenNext
     DEF SlotInv, SlotType, QueueWake, Ops
<1>1. ASSUME NEW k, Len(mq_queue') = k, More(k) PROVE QueueWake'
  BY <1>1 DEF QueueWake, Counted
<1>2. ASSUME Quiet({MqList}) PROVE More(n) /\ (n > 0 => More(n - 1))
  <2>1. More(n)
    BY <1>0, <1>2, CountKeeps
  <2> QED
    BY <1>0, <2>1
<1>3. ASSUME NEW s \in Range(Slots), NEW u, mq_queue' = Linked(s, u)
      PROVE  Len(mq_queue') = n + 1
  BY <1>a, <1>0, <1>3, PushIs, AppendProperties DEF Linked
<1>4. ASSUME mq_queue # <<>>, mq_queue' = Tail(mq_queue)
      PROVE  n > 0 /\ Len(mq_queue') = n - 1
  BY <1>a, <1>0, <1>4, HeadTailProperties, EmptySeq, LenProperties
<1>5. CASE MqSend(t, m, urgent) \/ MqFree(t)
  <2>1. op[t] \notin {MqList} /\ Len(mq_queue') = n
    BY <1>a, <1>0, <1>5 DEF MqSend, MqFree, Calls, Returns
  <2>2. Quiet({MqList})
    BY <1>0, <1>5, <2>1, LeaveFrame DEF MqSend, MqFree, Leave
  <2> QED
    BY <1>1, <1>2, <2>1, <2>2
<1>6. CASE MqLink(t)
  <2>1. op[t] = "fill" /\ slot[t] \in Range(Slots)
    BY <1>6 DEF MqLink, Returns, SlotInv, SlotsApart, Copying
  <2>2. Len(mq_queue') = n + 1
    BY <1>3, <1>6, <2>1 DEF MqLink
  <2>3. op[t] # MqList /\ op' = [op EXCEPT ![t] = "none"] /\ ResumeFirst(MqList) /\ error' = error
    BY <1>0, <1>6, <2>1 DEF MqLink, Leave
  <2>4. op' = op \/ \E u \in Threads : op[u] # MqList /\ op' = [op EXCEPT ![u] = "none"]
    BY <2>3
  <2>5. More(n + 1)
    <3>1. n + 1 <= n + 1
      BY <1>0
    <3> QED
      BY <1>0, <2>3, <2>4, <3>1, Wakes
  <2> QED
    BY <1>1, <2>2, <2>5
<1>7. CASE MqPost(m, urgent)
  <2>1. Head(mq_free) \in Range(Slots)
    BY <1>0, <1>7, HeadTailProperties, EmptySeq DEF MqPost
  <2>2. Len(mq_queue') = n + 1
    BY <1>3, <1>7, <2>1 DEF MqPost
  <2>3. More(n + 1)
    <3>1. n + 1 <= n + 1
      BY <1>0
    <3>2. op' = op /\ ResumeFirst(MqList) /\ error' = error
      BY <1>7 DEF MqPost
    <3> QED
      BY <1>0, <3>1, <3>2, Wakes
  <2> QED
    BY <1>1, <2>2, <2>3
<1>8. CASE MqRecv(t, time)
  <2>0. op[t] \notin {MqList}
    BY <1>0, <1>8 DEF MqRecv, Calls
  <2>1. CASE mq_queue # <<>> /\ MqUnlink(t)
    <3>1. Quiet({MqList})
      BY <1>0, <2>0, <2>1, LeaveFrame DEF MqUnlink
    <3>2. n > 0 /\ Len(mq_queue') = n - 1
      BY <1>4, <2>1 DEF MqUnlink
    <3> QED
      BY <1>1, <1>2, <3>1, <3>2
  <2>2. CASE mq_queue = <<>> /\ Await(t, MqList, time) /\ mq_queue' = mq_queue
    <3>1. n <= 0 /\ Len(mq_queue') = n
      BY <1>a, <2>2
    <3>2. More(n)
      BY <1>0, <2>2, <3>1, Awaits
    <3> QED
      BY <1>1, <3>1, <3>2
  <2> QED
    BY <1>8, <2>1, <2>2 DEF MqRecv, mqvars
<1>9. CASE MqRecvGoesOn(t)
  <2>0. op[t] = MqList /\ current = t
    BY <1>9 DEF MqRecvGoesOn, Returns
  <2>1. CASE error[t] = "ok" /\ mq_queue # <<>> /\ MqUnlink(t)
    <3>1. n > 0 /\ Len(mq_queue') = n - 1
      BY <1>4, <2>1 DEF MqUnlink
    <3>2. n - 1 < n
      BY <1>0
    <3>3. /\ op' = [op EXCEPT ![t] = "copy"] /\ stat' = stat /\ error' = error
          /\ "copy" \in Ops \ {MqList}
      BY <1>0, <2>1 DEF MqUnlink
    <3>4. More(n - 1)
      BY <1>0, <2>0, <2>1, <3>2, <3>3, GivesUp
    <3> QED
      BY <1>1, <3>1, <3>4
  <2>2. CASE mq_queue = <<>> /\ Await(t, MqList, Remaining(t)) /\ mq_queue' = mq_queue
    <3>1. n <= 0 /\ Len(mq_queue') = n
      BY <1>a, <2>2
    <3>2. More(n)
      BY <1>0, <2>2, <3>1, Awaits
    <3> QED
      BY <1>1, <3>1, <3>2
  <2>3. CASE /\ error[t] # "ok" \/ mq_queue = <<>>
             /\ error' = [error EXCEPT ![t] = IF @ = "ok" THEN "timeout" ELSE @]
             /\ Leave(t) /\ stat' = stat /\ mq_queue' = mq_queue
    <3>1. (error[t] # "ok" /\ n <= n) \/ n <= 0
      BY <1>a, <1>0, <2>3
    <3>2. op' = [op EXCEPT ![t] = "none"] /\ "none" \in Ops \ {MqList} /\ Len(mq_queue') = n
      BY <1>a, <1>0, <2>3 DEF Leave
    <3>3. More(n)
      BY <1>0, <2>0, <2>3, <3>1, <3>2, GivesUp
    <3> QED
      BY <1>1, <3>2, <3>3
  <2> QED
    BY <1>9, <2>1, <2>2, <2>3 DEF MqRecvGoesOn, LeaveLoop, mqvars
<1> QED
  BY <1>5, <1>6, <1>7, <1>8, <1>9

\* At first nobody waits.
LEMMA InitWake == Init => WakeInv
<1> SUFFICES ASSUME Init PROVE WakeInv
  OBVIOUS
<1>1. /\ \A l : Waits(l) = {}
      /\ \A L : WaitOk(L)
  BY DEF Init, ThreadsInit, Waits, WaitOk
<1>2. DOMAIN wants = Threads /\ DOMAIN option = Threads
  BY DEF Init, EvInit
<1> QED
  BY <1>1, <1>2
     DEF WakeInv, SemWake, MutexWake, EventWake, MailWake, QueueWake, Counted

\* The invariants it rests on.
Inv == IInv /\ RingInv /\ SlotInv

\* A quiet step keeps what it says of the other objects.
LEMMA KeepRest ==
  ASSUME Inv, WakeInv, NEW L \in SUBSET Lists, Quiet(L)
  PROVE  /\ SemList \in L /\ UNCHANGED semvars => SemWake'
         /\ Mutexes \subseteq L /\ UNCHANGED mvars => MutexWake'
         /\ EvList \in L /\ UNCHANGED evvars => EventWake'
         /\ {RecvList, SendList} \subseteq L /\ UNCHANGED mbvars => MailWake'
         /\ MqList \in L /\ UNCHANGED mqvars => QueueWake'
BY SemKeep, MutexKeep, EventKeep, MailKeep, QueueKeep DEF Inv, WakeInv

\* The semaphore's steps keep all of it.
LEMMA SemWaits ==
  ASSUME Inv, WakeInv, NEW t \in Threads, NEW time \in Times,
         SemTake(t, time) \/ SemTaken(t) \/ SemRelease,
         UNCHANGED <<mvars, evvars, mbvars, mqvars>>
  PROVE  WakeInv'
<1> DEFINE L == Lists \ {SemList}
<1>1. Quiet(L)
  BY SemFrame DEF Inv, IInv
<1>2. /\ L \in SUBSET Lists /\ Mutexes \subseteq L
      /\ {EvList, RecvList, SendList, MqList} \subseteq L
  BY ListsApart
<1>3. SemWake'
  BY SemWakeStep DEF Inv, IInv, WakeInv
<1> HIDE DEF L
<1> QED
  BY <1>1, <1>2, <1>3, KeepRest DEF WakeInv

\* The mutexes' steps keep all of it.
LEMMA MutexWaits ==
  ASSUME Inv, WakeInv, NEW t \in Threads, NEW m \in Mutexes, NEW time,
         \/ MutexTake(t, m) \/ MutexWait(t, m, time) \/ MutexTaken(t, m)
         \/ MutexUnnest(t, m) \/ MutexRelease(t, m) \/ MutexRefused(t, m),
         UNCHANGED <<semvars, evvars, mbvars, mqvars>>
  PROVE  WakeInv'
<1> DEFINE L == Lists \ Mutexes
<1>1. Quiet(L)
  BY MutexFrame DEF Inv, IInv
<1>2. /\ L \in SUBSET Lists
      /\ {SemList, EvList, RecvList, SendList, MqList} \subseteq L
  BY ListsApart
<1>3. MutexWake'
  BY MutexWakeStep DEF Inv, IInv, WakeInv
<1> HIDE DEF L
<1> QED
  BY <1>1, <1>2, <1>3, KeepRest DEF WakeInv

\* The event's steps keep all of it.
LEMMA EventWaits ==
  ASSUME Inv, WakeInv, NEW t \in Threads, NEW set, NEW opt, NEW time \in Times,
         EvSend(set) \/ EvLook \/ EvRecv(t, set, opt, time) \/ EvReceived(t),
         UNCHANGED <<semvars, mvars, mbvars, mqvars>>
  PROVE  WakeInv'
<1> DEFINE L == Lists \ {EvList}
<1>1. Quiet(L)
  BY EventFrame DEF Inv, IInv
<1>2. /\ L \in SUBSET Lists /\ Mutexes \subseteq L
      /\ {SemList, RecvList, SendList, MqList} \subseteq L
  BY ListsApart
<1>3. EventWake'
  BY EventWakeStep DEF Inv, IInv, WakeInv
<1> HIDE DEF L
<1> QED
  BY <1>1, <1>2, <1>3, KeepRest DEF WakeInv

\* The mailbox's steps keep all of it.
LEMMA MailWaiters ==
  ASSUME Inv, WakeInv, NEW t \in Threads, NEW m, NEW time \in Times,
         \/ MbSend(t, m, time) \/ MbPost(m) \/ MbSendGoesOn(t)
         \/ MbRecv(t, time) \/ MbRecvGoesOn(t),
         UNCHANGED <<semvars, mvars, evvars, mqvars>>
  PROVE  WakeInv'
<1> DEFINE L == Lists \ {RecvList, SendList}
<1>1. Quiet(L)
  BY MailFrame DEF Inv, IInv
<1>2. /\ L \in SUBSET Lists /\ Mutexes \subseteq L
      /\ {SemList, EvList, MqList} \subseteq L
  BY ListsApart
<1>3. MailWake'
  BY MailWakeStep DEF Inv, IInv, WakeInv
<1> HIDE DEF L
<1> QED
  BY <1>1, <1>2, <1>3, KeepRest DEF WakeInv

\* The message queue's steps keep all of it.
LEMMA QueueWaits ==
  ASSUME Inv, WakeInv, NEW t \in Threads, NEW m, NEW urgent, NEW time \in Times,
         \/ MqSend(t, m, urgent) \/ MqLink(t) \/ MqPost(m, urgent)
         \/ MqRecv(t, time) \/ MqRecvGoesOn(t) \/ MqFree(t),
         UNCHANGED <<semvars, mvars, evvars, mbvars>>
  PROVE  WakeInv'
<1> DEFINE L == Lists \ {MqList}
<1>1. Quiet(L)
  BY QueueFrame DEF Inv, IInv
<1>2. /\ L \in SUBSET Lists /\ Mutexes \subseteq L
      /\ {SemList, EvList, RecvList, SendList} \subseteq L
  BY ListsApart
<1>3. QueueWake'
  BY QueueWakeStep DEF Inv, IInv, WakeInv
<1> HIDE DEF L
<1> QED
  BY <1>1, <1>2, <1>3, KeepRest DEF WakeInv

\* So do the pool, the clock and the threads that sleep.
LEMMA OtherWaits ==
  ASSUME Inv, WakeInv, NEW t \in Threads, NEW b, NEW time \in Times,
         \/ MpAlloc(t, time) \/ MpAllocated(t) \/ MpFree(b)
         \/ Tick \/ Expire \/ TickEnd \/ Sleep(t, time) \/ Awake(t)
         \/ UNCHANGED tvars,
         UNCHANGED <<semvars, mvars, evvars, mbvars, mqvars>>
  PROVE  WakeInv'
<1> DEFINE L == Lists \ {PoolList}
<1>1. Quiet(L)
  <2>1. CASE UNCHANGED tvars
    BY <2>1 DEF tvars, Quiet
  <2>2. CASE MpAlloc(t, time) \/ MpAllocated(t) \/ MpFree(b)
    BY <2>2, PoolFrame DEF Inv, IInv
  <2> QED
    BY <2>1, <2>2, ClockFrame DEF Inv, IInv
<1>2. /\ L \in SUBSET Lists /\ Mutexes \subseteq L
      /\ {SemList, EvList, RecvList, SendList, MqList} \subseteq L
  BY ListsApart
<1> HIDE DEF L
<1> QED
  BY <1>1, <1>2, KeepRest DEF WakeInv

\* Every step of the kernel keeps it.
LEMMA NextWake == Inv /\ WakeInv /\ [Next]_vars => WakeInv'
<1> SUFFICES ASSUME Inv, WakeInv, [Next]_vars PROVE WakeInv'
  OBVIOUS
<1> PICK one \in Threads : TRUE
  BY ThreadsAssumption
<1>0. 0 \in Times /\ 1 .. HalfTick - 1 \subseteq Times
  BY HalfTickIs, SMT DEF Times
<1> USE DEF objects
<1>1. ASSUME NEW t \in Threads, CallSem(t) PROVE WakeInv'
  BY <1>0, <1>1, SemWaits DEF CallSem
<1>2. ASSUME NEW t \in Threads, CallMutex(t) PROVE WakeInv'
  BY <1>2, MutexWaits DEF CallMutex
<1>3. ASSUME NEW t \in Threads, CallEvent(t) PROVE WakeInv'
  BY <1>0, <1>3, EventWaits DEF CallEvent
<1>4. ASSUME NEW t \in Threads, CallMailbox(t) PROVE WakeInv'
  BY <1>4, MailWaiters DEF CallMailbox
<1>5. ASSUME NEW t \in Threads, CallQueue(t) PROVE WakeInv'
  BY <1>0, <1>5, QueueWaits DEF CallQueue
<1>6. ASSUME NEW t \in Threads, CallPool(t) PROVE WakeInv'
  BY <1>0, <1>6, OtherWaits DEF CallPool
<1>7. ASSUME NEW t \in Threads, CallSleep(t) PROVE WakeInv'
  BY <1>0, <1>7, OtherWaits DEF CallSleep
<1>8. ASSUME NEW t \in Threads, GoOn(t) PROVE WakeInv'
  <2>1. CASE SemTaken(t) /\ UNCHANGED <<mvars, evvars, mbvars, mqvars>>
    BY <1>0, <2>1, SemWaits
  <2>2. CASE (\E m \in Mutexes : MutexTaken(t, m)) /\ UNCHANGED <<semvars, evvars, mbvars, mqvars>>
    BY <2>2, MutexWaits
  <2>3. CASE EvReceived(t) /\ UNCHANGED <<semvars, mvars, mbvars, mqvars>>
    BY <1>0, <2>3, EventWaits
  <2>4. CASE /\ MbSendGoesOn(t) \/ MbRecvGoesOn(t)
             /\ UNCHANGED <<semvars, mvars, evvars, mqvars>>
    BY <1>0, <2>4, MailWaiters
  <2>5. CASE /\ MqLink(t) \/ MqRecvGoesOn(t) \/ MqFree(t)
             /\ UNCHANGED <<semvars, mvars, evvars, mbvars>>
    BY <1>0, <2>5, QueueWaits
  <2>6. CASE MpAllocated(t) /\ UNCHANGED <<semvars, mvars, evvars, mbvars, mqvars>>
    BY <1>0, <2>6, OtherWaits
  <2>7. CASE Awake(t) /\ UNCHANGED <<semvars, mvars, evvars, mbvars, mqvars>>
    BY <1>0, <2>7, OtherWaits
  <2> QED
    BY <1>8, <2>1, <2>2, <2>3, <2>4, <2>5, <2>6, <2>7 DEF GoOn
<1>9. CASE DeviceSem
  BY <1>0, <1>9, SemWaits DEF DeviceSem
<1>10. CASE DeviceEvent
  BY <1>0, <1>10, EventWaits DEF DeviceEvent
<1>11. CASE EventLoop
  BY <1>0, <1>11, EventWaits DEF EventLoop
<1>12. CASE DeviceMail
  BY <1>0, <1>12, MailWaiters DEF DeviceMail
<1>13. CASE DeviceMessage
  BY <1>0, <1>13, QueueWaits DEF DeviceMessage
<1>14. CASE DevicePool
  BY <1>0, <1>14, OtherWaits DEF DevicePool
<1>15. CASE Clock
  BY <1>0, <1>15, OtherWaits DEF Clock
<1>16. CASE UNCHANGED vars
  BY <1>0, <1>16, OtherWaits DEF vars
<1> QED
  BY <1>1, <1>2, <1>3, <1>4, <1>5, <1>6, <1>7, <1>8, <1>9, <1>10, <1>11, <1>12, <1>13, <1>14,
     <1>15, <1>16 DEF Next

\* It implies that nobody waits in vain.
LEMMA WakeIs == Inv /\ WakeInv => NobodyWaitsInVain
<1> SUFFICES ASSUME Inv, WakeInv PROVE NobodyWaitsInVain
  OBVIOUS
<1>1. \A l \in Lists : Waits(l) = Range(waiting[l]) /\ (Waits(l) = {} <=> waiting[l] = <<>>)
  BY WaitsIs DEF Inv, IInv
<1>2. /\ Mutexes \subseteq Lists
      /\ SemList \in Lists /\ EvList \in Lists /\ RecvList \in Lists /\ SendList \in Lists
      /\ MqList \in Lists
  BY ListsApart
<1>3. ASSUME masked = "no", NEW i \in DOMAIN waiting[EvList]
      PROVE  ~Meets(wants[waiting[EvList][i]], option[waiting[EvList][i]])
  <2>1. waiting[EvList][i] \in Waits(EvList)
    BY <1>1, <1>2, <1>3 DEF Range
  <2>2. Range(todo) = {}
    BY <1>3 DEF Inv, IInv, LoopInv, Range
  <2> QED
    BY <2>1, <2>2 DEF WakeInv, EventWake
<1>4. /\ waiting[SemList] # <<>> => value = 0
      /\ \A m \in Mutexes : waiting[m] # <<>> => owner[m] \in Threads
  BY <1>1, <1>2 DEF WakeInv, SemWake, MutexWake
<1>5. /\ waiting[RecvList] # <<>> => entry <= Cardinality(Woken(RecvList))
      /\ waiting[SendList] # <<>> => MbSize - entry <= Cardinality(Woken(SendList))
      /\ waiting[MqList] # <<>> => Len(mq_queue) <= Cardinality(Woken(MqList))
  BY <1>1, <1>2 DEF WakeInv, MailWake, QueueWake, Counted
<1> QED
  BY <1>3, <1>4, <1>5 DEF NobodyWaitsInVain

\* No wakeup is lost: nobody waits for a unit, a mutex, an event, a mail, a place
\* or a message that is there, unless a woken thread has still to take it, for any
\* threads, sizes, programs and timeouts.
THEOREM KernelNoLostWakeup == Spec => []NobodyWaitsInVain
<1>1. Init => Inv /\ WakeInv
  BY InitInv, InitRing, InitSlots, InitWake DEF Inv
<1>2. Inv /\ WakeInv /\ [Next]_vars => (Inv /\ WakeInv)'
  BY NextInv, NextRing, NextSlots, NextWake DEF Inv
<1> QED
  BY <1>1, <1>2, WakeIs, PTL DEF Spec

-----------------------------------------------------------------------------
(* Priority inheritance, in a program with one mutex.                      *)

\* The threads of list s are in the order of their priorities.
ByPrio(s, pr) == \A i, j \in 1 .. Len(s) : i < j => pr[s[i]] <= pr[s[j]]

\* The invariant of a mutex m that is the only one of the program: its list is in
\* order, its owner not in it and at least as urgent, and all other threads have
\* the priority they were created with, which is what the owner gives back.
Lent(m) ==
  /\ ByPrio(waiting[m], prio)
  /\ \A t \in Waits(m) : t # owner[m] /\ prio[owner[m]] <= prio[t]
  /\ \A t \in Threads : t # owner[m] => prio[t] = InitPrio[t]
  /\ owner[m] # Idle => original[m] = InitPrio[owner[m]]
  /\ \A n \in Mutexes \ {m} : owner[n] = Idle

\* Mutex m is used in the order of priority, and no other one.
Only(m) == Flag[m] = "prio" /\ \A n \in Mutexes \ {m} : ~Locks(n)

\* It holds of every such mutex.
LentInv == \A m \in Mutexes : Only(m) => Lent(m)

\* At most one thread leaves the list of mutex m.
Fewer(m) ==
  \/ waiting'[m] = waiting[m]
  \/ \E i \in 1 .. Len(waiting[m]) : waiting'[m] = RemoveAt(waiting[m], i)

\* A list without one of its threads is still in order.
LEMMA RemoveByPrio ==
  ASSUME NEW s \in Seq(Threads), NEW pr, NEW i \in 1 .. Len(s), ByPrio(s, pr)
  PROVE  ByPrio(RemoveAt(s, i), pr)
<1> DEFINE r == RemoveAt(s, i)
           k(j) == IF j < i THEN j ELSE j + 1
<1>1. /\ r \in Seq(Threads) /\ Len(r) = Len(s) - 1 /\ Len(s) \in Nat
      /\ \A j \in 1 .. Len(s) - 1 : r[j] = IF j < i THEN s[j] ELSE s[j + 1]
  BY RemoveAtIs, LenProperties
<1> HIDE DEF r
<1>2. \A j \in 1 .. Len(r) : k(j) \in 1 .. Len(s) /\ r[j] = s[k(j)]
  BY <1>1
<1>3. \A j, l \in 1 .. Len(r) : j < l => k(j) < k(l)
  BY <1>1
<1> HIDE DEF k
<1>4. ByPrio(r, pr)
  BY <1>2, <1>3 DEF ByPrio
<1> QED
  BY <1>4 DEF r

\* rt_ipc_list_suspend inserts a thread behind those of its priority.
LEMMA InsertByPrio ==
  ASSUME NEW s \in Seq(Threads), NEW pr \in [Threads -> Priorities], ByPrio(s, pr), NEW t \in Threads
  PROVE  ByPrio(InsertAt(s, FirstOf({i \in DOMAIN s : pr[t] < pr[s[i]]}, s), t), pr)
<1> DEFINE I == {i \in DOMAIN s : pr[t] < pr[s[i]]}
           f == FirstOf(I, s)
           r == InsertAt(s, f, t)
<1>1. DOMAIN s = 1 .. Len(s) /\ Len(s) \in Nat
  BY LenProperties
<1>2. f \in 1 .. Len(s) + 1 /\ (I # {} => f \in I) /\ (\A i \in I : f <= i)
  BY <1>1, FirstOfIs
<1>3. I = {} => f = Len(s) + 1
  BY DEF FirstOf
<1> HIDE DEF f
<1>4. /\ Len(r) = Len(s) + 1
      /\ \A j \in 1 .. Len(s) + 1 : r[j] = IF j < f THEN s[j] ELSE IF j = f THEN t ELSE s[j - 1]
  BY <1>2, InsertAtIs
<1>5. \A i \in 1 .. Len(s) : s[i] \in Threads
  BY ElementOfSeq
<1>6. \A i \in 1 .. Len(s) : pr[s[i]] \in Nat
  BY <1>5, ThreadsAssumption DEF Priorities
<1>7. pr[t] \in Nat
  BY ThreadsAssumption DEF Priorities
<1>8. \A i \in 1 .. Len(s) : i < f => pr[s[i]] <= pr[t]
  <2> SUFFICES ASSUME NEW i \in 1 .. Len(s), i < f PROVE pr[s[i]] <= pr[t]
    OBVIOUS
  <2>1. i \notin I
    BY <1>1, <1>2
  <2>2. ~(pr[t] < pr[s[i]])
    BY <1>1, <2>1
  <2> QED
    BY <1>6, <1>7, <2>2
<1>9. \A i \in 1 .. Len(s) : f <= i => pr[t] <= pr[s[i]]
  <2> SUFFICES ASSUME NEW i \in 1 .. Len(s), f <= i PROVE pr[t] <= pr[s[i]]
    OBVIOUS
  <2>1. f \in I
    BY <1>1, <1>2, <1>3
  <2>2. f \in 1 .. Len(s) /\ pr[t] < pr[s[f]]
    BY <1>1, <2>1
  <2> HIDE DEF f, I
  <2>3. f = i \/ pr[s[f]] <= pr[s[i]]
    BY <1>1, <2>2 DEF ByPrio
  <2>4. pr[s[f]] \in Nat /\ pr[s[i]] \in Nat
    BY <1>6, <2>2, SMTT(60)
  <2> QED
    BY <1>7, <2>2, <2>3, <2>4
<1> PICK n \in Nat : n = Len(s)
  BY <1>1
<1> HIDE DEF f, I, r
<1>10. ASSUME NEW i \in 1 .. n + 1, NEW j \in 1 .. n + 1, i < j PROVE pr[r[i]] <= pr[r[j]]
  <2>1. CASE j < f
    BY <1>2, <1>4, <1>10, <2>1 DEF ByPrio
  <2>2. CASE j = f
    BY <1>2, <1>4, <1>8, <1>10, <2>2
  <2>3. CASE i = f
    BY <1>2, <1>4, <1>9, <1>10, <2>3
  <2>4. CASE f < i
    BY <1>2, <1>4, <1>10, <2>4, SMTT(60) DEF ByPrio
  <2>5. CASE i < f /\ f < j
    <3>1. r[i] = s[i] /\ r[j] = s[j - 1] /\ i \in 1 .. n /\ j - 1 \in 1 .. n /\ i < j - 1
      BY <1>2, <1>4, <1>10, <2>5
    <3> QED
      BY <3>1 DEF ByPrio
  <2> QED
    BY <1>2, <1>10, <2>1, <2>2, <2>3, <2>4, <2>5
<1>11. ByPrio(r, pr)
  BY <1>4, <1>10 DEF ByPrio
<1> QED
  BY <1>11 DEF r, f, I

\* What lets threads only leave the list of mutex m keeps its invariant.
LEMMA LentKeeps ==
  ASSUME ListsInv, NEW m \in Mutexes, Lent(m), UNCHANGED <<prio, owner, original>>,
         Fewer(m), Waits(m)' \subseteq Waits(m)
  PROVE  Lent(m)'
<1>1. waiting[m] \in Seq(Threads)
  BY MutexAssumption DEF ListsInv, WaitSound
<1>2. ByPrio(waiting'[m], prio)
  BY <1>1, RemoveByPrio DEF Fewer, Lent
<1> QED
  BY <1>2 DEF Lent

\* The clock takes a thread out of the list in which it timed out.
LEMMA ClockFewer ==
  ASSUME ListsInv, NEW m \in Mutexes, NEW t, NEW time,
         Tick \/ Expire \/ TickEnd \/ Sleep(t, time) \/ Awake(t)
  PROVE  Fewer(m) /\ prio' = prio
<1>1. CASE Tick \/ TickEnd \/ Sleep(t, time) \/ Awake(t)
  BY <1>1 DEF Tick, TickEnd, Sleep, Awake, Fewer
<1>2. CASE Expire
  <2> DEFINE x == Head(timers).thread
  <2>0. /\ timers \in Seq(Timer) /\ timers # <<>> /\ m \in Lists
        /\ waiting \in [Lists -> Seq(Threads)]
    BY <1>2, MutexAssumption DEF Expire, Expired, ListsInv, TimerSound, WaitSound
  <2>1. Head(timers) \in Range(timers) /\ Head(timers) \in Timer
    BY <2>0, HeadInRange, HeadTailProperties
  <2>2. x \in Threads /\ stat[x] = "suspend"
    BY <2>1 DEF ListsInv, TimerSound, Timer
  <2>3. /\ prio' = prio
        /\ waiting' = IF op[x] \in Lists THEN [waiting EXCEPT ![op[x]] = Without(@, x)] ELSE waiting
    BY <1>2 DEF Expire
  <2> HIDE DEF x
  <2>4. CASE op[x] = m
    <3>1. x \in Range(waiting[m])
      BY <2>0, <2>2, <2>4, WaitsIs DEF Waits
    <3>2. \E i \in DOMAIN waiting[m] : waiting[m][i] = x
      BY <3>1 DEF Range
    <3>3. Position(waiting[m], x) \in 1 .. Len(waiting[m])
      BY <2>0, <3>2, LenProperties DEF Position
    <3>4. waiting'[m] = RemoveAt(waiting[m], Position(waiting[m], x))
      BY <2>0, <2>3, <2>4 DEF Without
    <3> QED
      BY <2>3, <3>3, <3>4 DEF Fewer
  <2>5. CASE op[x] # m
    BY <2>0, <2>3, <2>5 DEF Fewer
  <2> QED
    BY <2>4, <2>5
<1> QED
  BY <1>1, <1>2

\* A call of another object leaves the list alone.
LEMMA ApartFewer ==
  ASSUME ListsInv, NEW m \in Mutexes, NEW l, l # m,
         \/ \E t, time, r, pr : Suspend(t, l, time, r, pr)
         \/ \E t, r : Resume(t, l, r)
         \/ ResumeFirst(l)
         \/ waiting' = waiting
  PROVE  Fewer(m)
<1>1. waiting \in [Lists -> Seq(Threads)] /\ m \in Lists
  BY MutexAssumption DEF ListsInv, WaitSound
<1> QED
  BY <1>1 DEF Suspend, Resume, ResumeFirst, Fewer

\* The semaphore leaves the list of the mutex and the priorities alone.
LEMMA SemFewer ==
  ASSUME ListsInv, NEW m \in Mutexes, NEW t, NEW time,
         SemTake(t, time) \/ SemTaken(t) \/ SemRelease
  PROVE  Fewer(m) /\ prio' = prio
<1>1. SemList # m
  BY ListsApart
<1>2. prio' = prio
  BY DEF SemTake, SemTaken, SemRelease, tvars
<1> QED
  BY <1>1, <1>2, ApartFewer DEF SemTake, SemTaken, SemRelease, tvars

\* The event leaves the list of the mutex and the priorities alone.
LEMMA EventFewer ==
  ASSUME ListsInv, NEW m \in Mutexes, NEW t, NEW set, NEW opt, NEW time,
         EvSend(set) \/ EvLook \/ EvRecv(t, set, opt, time) \/ EvReceived(t)
  PROVE  Fewer(m) /\ prio' = prio
<1>1. EvList # m
  BY ListsApart
<1>2. prio' = prio
  BY DEF EvSend, EvLook, EvRecv, EvReceived
<1> QED
  BY <1>1, <1>2, ApartFewer DEF EvSend, EvLook, EvRecv, EvReceived

\* The message queue leaves the list of the mutex and the priorities alone.
LEMMA QueueFewer ==
  ASSUME ListsInv, NEW m \in Mutexes, NEW t, NEW x, NEW urgent, NEW time,
         \/ MqSend(t, x, urgent) \/ MqLink(t) \/ MqPost(x, urgent)
         \/ MqRecv(t, time) \/ MqRecvGoesOn(t) \/ MqFree(t)
  PROVE  Fewer(m) /\ prio' = prio
<1>1. MqList # m
  BY ListsApart
<1>2. prio' = prio
  BY DEF MqSend, MqLink, MqPost, MqRecv, MqRecvGoesOn, MqFree, MqUnlink, Await
<1> QED
  BY <1>1, <1>2, ApartFewer DEF MqSend, MqLink, MqPost, MqRecv, MqRecvGoesOn, MqFree, MqUnlink, Await

\* The pool leaves the list of the mutex and the priorities alone.
LEMMA PoolFewer ==
  ASSUME ListsInv, NEW m \in Mutexes, NEW t, NEW b, NEW time,
         MpAlloc(t, time) \/ MpAllocated(t) \/ MpFree(b)
  PROVE  Fewer(m) /\ prio' = prio
<1>1. PoolList # m
  BY ListsApart
<1>2. prio' = prio
  BY DEF MpAlloc, MpAllocated, MpFree, tvars
<1> QED
  BY <1>1, <1>2, ApartFewer DEF MpAlloc, MpAllocated, MpFree, tvars

\* The mailbox leaves the list of the mutex and the priorities alone.
LEMMA MailFewer ==
  ASSUME ListsInv, NEW m \in Mutexes, NEW t, NEW x, NEW time,
         \/ MbSend(t, x, time) \/ MbPost(x) \/ MbSendGoesOn(t)
         \/ MbRecv(t, time) \/ MbRecvGoesOn(t)
  PROVE  Fewer(m) /\ prio' = prio
<1>1. SendList # m /\ RecvList # m
  BY ListsApart
<1>2. prio' = prio
  BY DEF MbSend, MbPost, MbSendGoesOn, MbRecv, MbRecvGoesOn, Deposit, Collect, Await
<1> QED
  BY <1>1, <1>2, ApartFewer
     DEF MbSend, MbPost, MbSendGoesOn, MbRecv, MbRecvGoesOn, Deposit, Collect, Await

\* rt_mutex_take lends the owner the priority of a more urgent thread that waits;
\* rt_mutex_release takes it back and hands the mutex to the most urgent one.
LEMMA LentMutex ==
  ASSUME ListsInv, ScalarInv, MutexInv, MutexWake, NEW m \in Mutexes, Flag[m] = "prio", Lent(m),
         NEW t \in Threads, NEW time \in Times,
         \/ MutexTake(t, m) \/ MutexWait(t, m, time) \/ MutexTaken(t, m)
         \/ MutexUnnest(t, m) \/ MutexRelease(t, m) \/ MutexRefused(t, m)
  PROVE  Lent(m)'
<1>0. /\ m \in Lists /\ "none" # m /\ Idle \notin Threads
      /\ waiting \in [Lists -> Seq(Threads)] /\ prio \in [Threads -> Priorities]
      /\ stat \in [Threads -> States] /\ op \in [Threads -> Ops]
      /\ owner \in [Mutexes -> Threads \cup {Idle}] /\ original \in [Mutexes -> Priorities \cup {None}]
      /\ Waits(m) = Range(waiting[m]) /\ (Waits(m) = {} <=> waiting[m] = <<>>)
      /\ IsInjective(waiting[m])
  BY MutexAssumption, ThreadsAssumption, WaitsIs
     DEF ListsInv, WaitSound, MutexInv, MutexType
<1>1. \A p \in Priorities : p \in Int
  BY ThreadsAssumption DEF Priorities
<1>2. CASE MutexTake(t, m) /\ owner[m] = t
  <2>1. UNCHANGED <<prio, owner, original, waiting, stat, op>>
    BY <1>2 DEF MutexTake
  <2> QED
    BY <2>1, LentKeeps DEF Fewer, Waits
<1>3. CASE MutexTake(t, m) /\ owner[m] # t
  <2>1. owner[m] = Idle
    BY <1>0, <1>3 DEF MutexTake, MutexInv, MutexSound
  <2>2. Waits(m) = {} /\ waiting[m] = <<>>
    BY <1>0, <2>1 DEF MutexWake
  <2>3. UNCHANGED <<prio, waiting, stat, op>> /\ owner' = [owner EXCEPT ![m] = t]
        /\ original' = [original EXCEPT ![m] = prio[t]]
    BY <1>3 DEF MutexTake
  <2>4. Waits(m)' = {}
    BY <2>2, <2>3 DEF Waits
  <2>5. owner'[m] = t /\ original'[m] = InitPrio[t] /\ \A n \in Mutexes \ {m} : owner'[n] = owner[n]
    BY <1>0, <2>1, <2>3 DEF Lent
  <2>6. \A u \in Threads : prio'[u] = InitPrio[u]
    BY <1>0, <2>1, <2>3 DEF Lent
  <2> QED
    BY <2>3, <2>4, <2>5, <2>6 DEF Lent
<1>4. CASE MutexTaken(t, m) \/ MutexUnnest(t, m) \/ MutexRefused(t, m)
  <2>1. UNCHANGED <<prio, owner, original, waiting, stat>>
    BY <1>4 DEF MutexTaken, MutexUnnest, MutexRefused, tvars, mvars
  <2>2. op' = op \/ op' = [op EXCEPT ![t] = "none"]
    BY <1>4 DEF MutexTaken, MutexUnnest, MutexRefused, tvars, Leave
  <2>3. Waits(m)' \subseteq Waits(m)
    BY <1>0, <2>1, <2>2 DEF Waits
  <2> QED
    BY <2>1, <2>3, LentKeeps DEF Fewer
<1>5. CASE MutexWait(t, m, time)
  <2>1. CASE time = 0
    <3>1. UNCHANGED <<prio, owner, original, waiting, stat, op>>
      BY <1>5, <2>1 DEF MutexWait, mvars
    <3> QED
      BY <3>1, LentKeeps DEF Fewer, Waits
  <2>2. CASE time # 0
    <3> PICK o : o = owner[m]
      OBVIOUS
    <3>1. o \in Threads /\ o # t /\ o = owner[m]
      BY <1>0, <1>5 DEF MutexWait, MutexInv, MutexSound
    <3>2. /\ prio' = [prio EXCEPT ![o] = IF prio[t] < prio[o] THEN prio[t] ELSE prio[o]]
          /\ stat' = [stat EXCEPT ![t] = "suspend"] /\ op' = [op EXCEPT ![t] = m]
          /\ UNCHANGED mvars
          /\ waiting' = [waiting EXCEPT ![m] = InsertAt(@, Place(@, Flag[m], prio[t], prio'), t)]
      BY <1>0, <1>5, <2>2, <3>1 DEF MutexWait, Suspend
    <3>3. t \notin Waits(m)
      BY <1>5, CallerReady DEF MutexWait, Calls, Waits
    <3>4. Waits(m)' = Waits(m) \cup {t}
      BY <1>0, <3>2 DEF Waits
    <3>5. /\ \A u \in Threads \ {o} : prio'[u] = prio[u]
          /\ prio'[o] <= prio[o] /\ prio'[o] <= prio[t]
          /\ prio' \in [Threads -> Priorities]
      BY <1>0, <1>1, <3>1, <3>2
    <3>6. ByPrio(waiting[m], prio')
      <4>1. \A i \in 1 .. Len(waiting[m]) : waiting[m][i] \in Threads \ {o}
        <5>1. \A i \in 1 .. Len(waiting[m]) : waiting[m][i] \in Waits(m)
          BY <1>0, LenProperties DEF Range
        <5> QED
          BY <3>1, <5>1 DEF Lent, Waits
      <4> QED
        BY <3>5, <4>1 DEF Lent, ByPrio
    <3>7. ByPrio(waiting'[m], prio')
      <4> PICK pr, q : pr = prio' /\ q = waiting[m]
        OBVIOUS
      <4>1. q \in Seq(Threads) /\ pr \in [Threads -> Priorities] /\ ByPrio(q, pr) /\ pr[t] = prio[t]
        BY <1>0, <3>1, <3>5, <3>6
      <4>2. Place(q, Flag[m], prio[t], pr) = FirstOf({i \in DOMAIN q : pr[t] < pr[q[i]]}, q)
        BY <4>1 DEF Place
      <4>3. ByPrio(InsertAt(q, Place(q, Flag[m], prio[t], pr), t), pr)
        BY <4>1, <4>2, InsertByPrio
      <4>4. waiting'[m] = InsertAt(q, Place(q, Flag[m], prio[t], pr), t)
        BY <1>0, <3>2
      <4> QED
        BY <4>3, <4>4
    <3>8. \A u \in Waits(m)' : u # o /\ prio'[o] <= prio'[u]
      <4> SUFFICES ASSUME NEW u \in Waits(m) \cup {t} PROVE u # o /\ prio'[o] <= prio'[u]
        BY <3>4
      <4>1. u \in Threads /\ u # o /\ (u = t \/ prio[o] <= prio[u])
        BY <3>1 DEF Lent, Waits
      <4>2. prio'[u] = prio[u] /\ prio[u] \in Int /\ prio[o] \in Int /\ prio'[o] \in Int
        BY <1>0, <1>1, <3>1, <3>5, <4>1
      <4> QED
        BY <3>5, <4>1, <4>2
    <3> QED
      BY <3>1, <3>2, <3>5, <3>7, <3>8 DEF Lent, mvars
  <2> QED
    BY <2>1, <2>2
<1>6. CASE MutexRelease(t, m)
  <2> PICK w : w = Head(waiting[m])
    OBVIOUS
  <2>1. owner[m] = t /\ t \notin Waits(m) /\ original[m] = InitPrio[t] /\ t # Idle
    BY <1>0, <1>6 DEF MutexRelease, Lent
  <2>2. prio' = [prio EXCEPT ![t] = InitPrio[t]]
    BY <1>6, <2>1 DEF MutexRelease
  <2>3. \A u \in Threads : prio'[u] = InitPrio[u]
    BY <1>0, <2>1, <2>2 DEF Lent
  <2>4. \A u \in Waits(m) : prio'[u] = prio[u]
    BY <1>0, <2>1, <2>2 DEF Waits
  <2>5. \A i \in 1 .. Len(waiting[m]) : waiting[m][i] \in Waits(m)
    BY <1>0, LenProperties DEF Range
  <2>6. ByPrio(waiting[m], prio')
    BY <2>4, <2>5 DEF Lent, ByPrio
  <2>7. CASE waiting[m] = <<>>
    <3>1. UNCHANGED <<waiting, stat, op>> /\ owner' = [owner EXCEPT ![m] = Idle]
      BY <1>6, <2>7 DEF MutexRelease
    <3>2. Waits(m)' = {}
      BY <1>0, <2>7, <3>1 DEF Waits
    <3>3. owner'[m] = Idle /\ \A n \in Mutexes \ {m} : owner'[n] = owner[n]
      BY <1>0, <3>1
    <3> QED
      BY <2>3, <2>6, <3>1, <3>2, <3>3 DEF Lent
  <2>8. CASE waiting[m] # <<>>
    <3>1. /\ owner' = [owner EXCEPT ![m] = w] /\ original' = [original EXCEPT ![m] = prio[w]]
          /\ waiting' = [waiting EXCEPT ![m] = Without(@, w)]
          /\ stat' = [stat EXCEPT ![w] = "ready"] /\ op' = op
      BY <1>6, <2>8 DEF MutexRelease, Resume
    <3>2. w \in Waits(m) /\ w \in Threads /\ w = waiting[m][1]
      BY <1>0, <2>8, HeadInRange DEF Waits
    <3>3. owner'[m] = w /\ original'[m] = prio[w] /\ \A n \in Mutexes \ {m} : owner'[n] = owner[n]
      BY <1>0, <3>1
    <3>4. original'[m] = InitPrio[w]
      BY <2>1, <3>2, <3>3 DEF Lent
    <3>5. Waits(m)' = Waits(m) \ {w}
      BY <1>0, <3>1, <3>2 DEF Waits
    <3>6. ByPrio(waiting'[m], prio')
      <4>1. Position(waiting[m], w) \in 1 .. Len(waiting[m])
        <5>1. \E i \in DOMAIN waiting[m] : waiting[m][i] = w
          BY <1>0, <3>2 DEF Range
        <5> QED
          BY <1>0, <5>1, LenProperties DEF Position
      <4>2. waiting'[m] = RemoveAt(waiting[m], Position(waiting[m], w))
        BY <1>0, <3>1 DEF Without
      <4> QED
        BY <1>0, <2>6, <4>1, <4>2, RemoveByPrio
    <3>7. \A u \in Waits(m)' : u # w /\ prio'[w] <= prio'[u]
      <4> SUFFICES ASSUME NEW u \in Waits(m), u # w PROVE prio'[w] <= prio'[u]
        BY <3>5
      <4>1. PICK i \in 1 .. Len(waiting[m]) : waiting[m][i] = u
        BY <1>0, LenProperties DEF Range
      <4>2. 1 < i /\ 1 \in 1 .. Len(waiting[m])
        <5>1. Len(waiting[m]) \in Nat /\ i # 1
          BY <1>0, <3>2, <4>1, LenProperties
        <5> QED
          BY <5>1
      <4> QED
        BY <2>6, <3>2, <4>1, <4>2 DEF ByPrio
    <3> QED
      BY <2>3, <3>3, <3>4, <3>6, <3>7 DEF Lent
  <2> QED
    BY <2>7, <2>8
<1> QED
  BY <1>2, <1>3, <1>4, <1>5, <1>6

\* A step of another object keeps the invariant.
LEMMA LentQuiet ==
  ASSUME ListsInv, NEW m \in Mutexes, Lent(m), UNCHANGED mvars, prio' = prio, Fewer(m), Quiet({m})
  PROVE  Lent(m)'
<1>1. Waits(m)' \subseteq Waits(m)
  BY QuietSets
<1> QED
  BY <1>1, LentKeeps DEF mvars

\* The list of a mutex is not one of another object.
LEMMA MutexApart ==
  ASSUME IInv, NEW m \in Mutexes
  PROVE  /\ {m} \in SUBSET Lists /\ SemList \notin {m} /\ EvList \notin {m} /\ RecvList \notin {m}
         /\ SendList \notin {m} /\ MqList \notin {m} /\ PoolList \notin {m}
         /\ ListsInv /\ ScalarInv /\ LoopInv
BY ListsApart DEF IInv

\* The semaphore's steps keep the invariant.
LEMMA SemLent ==
  ASSUME IInv, NEW m \in Mutexes, Lent(m), UNCHANGED mvars, NEW t \in Threads,
         NEW time \in Times,
         SemTake(t, time) \/ SemTaken(t) \/ SemRelease
  PROVE  Lent(m)'
<1>1. Quiet({m})
  BY MutexApart, SemFrame
<1>2. Fewer(m) /\ prio' = prio
  BY MutexApart, SemFewer
<1> QED
  BY <1>1, <1>2, MutexApart, LentQuiet

\* The event's steps keep the invariant.
LEMMA EventLent ==
  ASSUME IInv, NEW m \in Mutexes, Lent(m), UNCHANGED mvars, NEW t \in Threads,
         NEW set, NEW opt, NEW time \in Times,
         EvSend(set) \/ EvLook \/ EvRecv(t, set, opt, time) \/ EvReceived(t)
  PROVE  Lent(m)'
<1>1. Quiet({m})
  BY MutexApart, EventFrame
<1>2. Fewer(m) /\ prio' = prio
  BY MutexApart, EventFewer
<1> QED
  BY <1>1, <1>2, MutexApart, LentQuiet

\* The mailbox's steps keep the invariant.
LEMMA MailLent ==
  ASSUME IInv, NEW m \in Mutexes, Lent(m), UNCHANGED mvars, NEW t \in Threads,
         NEW x, NEW time \in Times,
         \/ MbSend(t, x, time) \/ MbPost(x) \/ MbSendGoesOn(t)
         \/ MbRecv(t, time) \/ MbRecvGoesOn(t)
  PROVE  Lent(m)'
<1>1. Quiet({m})
  BY MutexApart, MailFrame
<1>2. Fewer(m) /\ prio' = prio
  BY MutexApart, MailFewer
<1> QED
  BY <1>1, <1>2, MutexApart, LentQuiet

\* The message queue's steps keep the invariant.
LEMMA QueueLent ==
  ASSUME IInv, NEW m \in Mutexes, Lent(m), UNCHANGED mvars, NEW t \in Threads,
         NEW x, NEW urgent, NEW time \in Times,
         \/ MqSend(t, x, urgent) \/ MqLink(t) \/ MqPost(x, urgent)
         \/ MqRecv(t, time) \/ MqRecvGoesOn(t) \/ MqFree(t)
  PROVE  Lent(m)'
<1>1. Quiet({m})
  BY MutexApart, QueueFrame
<1>2. Fewer(m) /\ prio' = prio
  BY MutexApart, QueueFewer
<1> QED
  BY <1>1, <1>2, MutexApart, LentQuiet

\* The pool's steps keep the invariant.
LEMMA PoolLent ==
  ASSUME IInv, NEW m \in Mutexes, Lent(m), UNCHANGED mvars, NEW t \in Threads,
         NEW b, NEW time \in Times,
         MpAlloc(t, time) \/ MpAllocated(t) \/ MpFree(b)
  PROVE  Lent(m)'
<1>1. Quiet({m})
  BY MutexApart, PoolFrame
<1>2. Fewer(m) /\ prio' = prio
  BY MutexApart, PoolFewer
<1> QED
  BY <1>1, <1>2, MutexApart, LentQuiet

\* The clock and the sleeping threads keep the invariant.
LEMMA ClockLent ==
  ASSUME IInv, NEW m \in Mutexes, Lent(m), UNCHANGED mvars, NEW t \in Threads,
         NEW time \in Times,
         Tick \/ Expire \/ TickEnd \/ Sleep(t, time) \/ Awake(t)
  PROVE  Lent(m)'
<1>1. Quiet({m})
  BY MutexApart, ClockFrame
<1>2. Fewer(m) /\ prio' = prio
  BY MutexApart, ClockFewer
<1> QED
  BY <1>1, <1>2, MutexApart, LentQuiet

\* No other mutex is ever owned, so that its calls change no priority.
LEMMA LentOther ==
  ASSUME IInv, NEW m \in Mutexes, Lent(m), NEW n \in Mutexes \ {m},
         NEW t \in Threads, NEW time \in Times,
         \/ MutexWait(t, n, time) \/ MutexTaken(t, n)
         \/ MutexUnnest(t, n) \/ MutexRelease(t, n) \/ MutexRefused(t, n)
  PROVE  Lent(m)'
<1>1. owner[n] = Idle /\ mvalue[n] = 1 /\ t # Idle /\ m # n /\ "none" # m
  BY ThreadsAssumption, MutexAssumption DEF Lent, IInv, MutexInv, MutexSound
<1>2. /\ UNCHANGED <<prio, owner, original, waiting, stat>>
      /\ op' # op => op[t] = n /\ op' = [op EXCEPT ![t] = "none"]
  <2>1. ~MutexWait(t, n, time)
    BY <1>1 DEF MutexWait
  <2>2. ~MutexUnnest(t, n) /\ ~MutexRelease(t, n)
    BY <1>1 DEF MutexUnnest, MutexRelease
  <2>3. CASE MutexTaken(t, n)
    BY <2>3 DEF MutexTaken, Returns, Leave
  <2>4. CASE MutexRefused(t, n)
    BY <2>4 DEF MutexRefused, mvars
  <2> QED
    BY <2>1, <2>2, <2>3, <2>4
<1>3. op \in [Threads -> Ops]
  BY DEF IInv, ListsInv
<1>4. Waits(m)' \subseteq Waits(m)
  BY <1>1, <1>2, <1>3 DEF Waits
<1> QED
  BY <1>2, <1>4, LentKeeps DEF Fewer, IInv

\* Every step of the kernel keeps the invariant.
LEMMA NextLent ==
  ASSUME IInv, MutexWake, NEW m \in Mutexes, Only(m), Lent(m), Next
  PROVE  Lent(m)'
<1>0. 0 \in Times /\ 1 .. HalfTick - 1 \subseteq Times
  BY HalfTickIs, SMT DEF Times
<1> PICK one \in Threads : TRUE
  BY ThreadsAssumption
<1>a. /\ ListsInv /\ ScalarInv /\ MutexInv /\ Flag[m] = "prio"
      /\ \A n \in Mutexes \ {m}, t \in Threads : ~Does(t, <<"lock", n>>)
  BY DEF IInv, Only, Locks
<1> USE DEF objects
<1>1. ASSUME NEW t \in Threads, CallSem(t) PROVE Lent(m)'
  BY <1>0, <1>1, SemLent DEF CallSem
<1>2. ASSUME NEW t \in Threads, CallMutex(t) PROVE Lent(m)'
  <2>1. ASSUME NEW time \in Times, MutexWait(t, m, time) PROVE Lent(m)'
    BY <1>a, <2>1, LentMutex
  <2>2. ASSUME NEW n \in Mutexes \ {m}, NEW time \in Times, MutexWait(t, n, time) PROVE Lent(m)'
    BY <2>2, LentOther
  <2>3. CASE MutexTake(t, m) \/ MutexUnnest(t, m) \/ MutexRelease(t, m) \/ MutexRefused(t, m)
    BY <1>0, <1>a, <2>3, LentMutex
  <2>4. ASSUME NEW n \in Mutexes \ {m}, MutexUnnest(t, n) \/ MutexRelease(t, n) \/ MutexRefused(t, n)
        PROVE  Lent(m)'
    BY <1>0, <2>4, LentOther
  <2> QED
    BY <1>a, <1>2, <2>1, <2>2, <2>3, <2>4 DEF CallMutex
<1>3. ASSUME NEW t \in Threads, CallEvent(t) PROVE Lent(m)'
  BY <1>0, <1>3, EventLent DEF CallEvent
<1>4. ASSUME NEW t \in Threads, CallMailbox(t) PROVE Lent(m)'
  BY <1>4, MailLent DEF CallMailbox
<1>5. ASSUME NEW t \in Threads, CallQueue(t) PROVE Lent(m)'
  BY <1>0, <1>5, QueueLent DEF CallQueue
<1>6. ASSUME NEW t \in Threads, CallPool(t) PROVE Lent(m)'
  BY <1>0, <1>6, PoolLent DEF CallPool
<1>7. ASSUME NEW t \in Threads, CallSleep(t) PROVE Lent(m)'
  BY <1>0, <1>7, ClockLent DEF CallSleep
<1>8. ASSUME NEW t \in Threads, GoOn(t) PROVE Lent(m)'
  <2>1. CASE SemTaken(t) /\ UNCHANGED mvars
    BY <1>0, <2>1, SemLent
  <2>2. CASE \E n \in Mutexes : MutexTaken(t, n)
    <3>1. CASE MutexTaken(t, m)
      BY <1>0, <1>a, <3>1, LentMutex
    <3>2. ASSUME NEW n \in Mutexes \ {m}, MutexTaken(t, n) PROVE Lent(m)'
      BY <1>0, <3>2, LentOther
    <3> QED
      BY <2>2, <3>1, <3>2
  <2>3. CASE EvReceived(t) /\ UNCHANGED mvars
    BY <1>0, <2>3, EventLent
  <2>4. CASE (MbSendGoesOn(t) \/ MbRecvGoesOn(t)) /\ UNCHANGED mvars
    BY <1>0, <2>4, MailLent
  <2>5. CASE (MqLink(t) \/ MqRecvGoesOn(t) \/ MqFree(t)) /\ UNCHANGED mvars
    BY <1>0, <2>5, QueueLent
  <2>6. CASE MpAllocated(t) /\ UNCHANGED mvars
    BY <1>0, <2>6, PoolLent
  <2>7. CASE Awake(t) /\ UNCHANGED mvars
    BY <1>0, <2>7, ClockLent
  <2> QED
    BY <1>8, <2>1, <2>2, <2>3, <2>4, <2>5, <2>6, <2>7 DEF GoOn
<1>9. CASE DeviceSem
  BY <1>0, <1>9, SemLent DEF DeviceSem
<1>10. CASE DeviceEvent \/ EventLoop
  BY <1>0, <1>10, EventLent DEF DeviceEvent, EventLoop
<1>11. CASE DeviceMail
  BY <1>0, <1>11, MailLent DEF DeviceMail
<1>12. CASE DeviceMessage
  BY <1>0, <1>12, QueueLent DEF DeviceMessage
<1>13. CASE DevicePool
  BY <1>0, <1>13, PoolLent DEF DevicePool
<1>14. CASE Clock
  BY <1>0, <1>14, ClockLent DEF Clock
<1> QED
  BY <1>1, <1>2, <1>3, <1>4, <1>5, <1>6, <1>7, <1>8, <1>9, <1>10, <1>11, <1>12, <1>13, <1>14
     DEF Next

\* At first every thread has the priority it was created with.
LEMMA InitLent == Init => LentInv
<1> SUFFICES ASSUME Init, NEW m \in Mutexes PROVE Lent(m)
  BY DEF LentInv
<1>1. /\ prio = InitPrio /\ waiting[m] = <<>> /\ owner = [n \in Mutexes |-> Idle]
      /\ stat = [t \in Threads |-> "ready"]
  BY MutexAssumption DEF Init, ThreadsInit, MutexInit
<1>2. Waits(m) = {}
  BY <1>1 DEF Waits
<1> QED
  BY <1>1, <1>2 DEF Lent, ByPrio

\* The program never changes, nor which mutexes it uses.
LEMMA StepLent == IInv /\ MutexWake /\ LentInv /\ [Next]_vars => LentInv'
<1> SUFFICES ASSUME IInv, MutexWake, NEW m \in Mutexes, Only(m) => Lent(m), [Next]_vars, Only(m)'
             PROVE  Lent(m)'
  BY DEF LentInv
<1>1. Only(m)
  <2>1. job' = job
    BY DEF Next, vars
  <2> QED
    BY <2>1 DEF Only, Locks, Does
<1>2. CASE Next
  BY <1>1, <1>2, NextLent
<1>3. CASE UNCHANGED vars
  <2>1. UNCHANGED <<tvars, mvars>>
    BY <1>3 DEF vars, objects
  <2>2. Quiet({m}) /\ Fewer(m) /\ prio' = prio
    BY <2>1 DEF Quiet, Fewer, tvars
  <2> QED
    BY <1>1, <2>1, <2>2, LentQuiet DEF IInv
<1> QED
  BY <1>2, <1>3

\* The invariant implies Inherited.
LEMMA LentIs == IInv /\ LentInv => Inherited
<1> SUFFICES ASSUME IInv, NEW m \in Mutexes, Lent(m)
             PROVE  /\ \A i \in DOMAIN waiting[m] : prio[owner[m]] <= prio[waiting[m][i]]
                    /\ \A t \in Threads : owner[m] # t => prio[t] = InitPrio[t]
  BY DEF LentInv, Inherited, Only
<1>1. Waits(m) = Range(waiting[m])
  BY WaitsIs, MutexAssumption DEF IInv
<1> QED
  BY <1>1 DEF Lent, Range

\* In every program with one mutex the owner is at least as urgent as every thread
\* that waits for it, and lent priorities are given back, whatever timeouts and
\* other calls come in between.
THEOREM KernelInherited == Spec => []Inherited
<1>1. Init => Inv /\ WakeInv /\ LentInv
  BY InitInv, InitRing, InitSlots, InitWake, InitLent DEF Inv
<1>2. Inv /\ WakeInv /\ LentInv /\ [Next]_vars => (Inv /\ WakeInv /\ LentInv)'
  BY NextInv, NextRing, NextSlots, NextWake, StepLent DEF Inv, WakeInv
<1>3. Inv /\ WakeInv /\ LentInv => Inherited
  BY LentIs DEF Inv
<1> QED
  BY <1>1, <1>2, <1>3, PTL DEF Spec

-----------------------------------------------------------------------------
(* The memory pool, with one thread that allocates.                        *)

\* Thread w waits for a block, without a timeout.
Parked(w) == stat[w] = "suspend" /\ op[w] = PoolList /\ ~HasTimer(w)

\* ... and still does after the step.
StaysParked(w) == stat'[w] = "suspend" /\ ~HasTimer(w)'

\* No timer is started for thread w.
LEMMA TimersOf ==
  ASSUME timers \in Seq(Timer), timers' \in Seq(Timer), NEW w, ~HasTimer(w),
         \A x \in Range(timers') : x \in Range(timers) \/ x.thread # w
  PROVE  ~HasTimer(w)'
<1>1. \A x \in Range(timers) : x.thread # w
  BY HasTimerIs
<1>2. \A i \in DOMAIN timers' : timers'[i] \in Range(timers')
  BY DEF Range
<1> QED
  BY <1>1, <1>2 DEF HasTimer

\* rt_timer_start of another thread's timer.
LEMMA StartParked ==
  ASSUME ListsInv, ScalarInv, NEW w \in Threads, Parked(w), NEW t \in Threads \ {w},
         NEW time \in Times, time > 0, timers' = TimerStarted(t, time)
  PROVE  ~HasTimer(w)'
<1> DEFINE end == Plus(rt_tick, time)
           I   == {i \in DOMAIN timers : Minus(timers[i].at, end) < HalfTick}
           f   == FirstOf(I, timers)
           x   == [thread |-> t, at |-> end]
<1>1. timers \in Seq(Timer) /\ x \in Timer /\ I \in SUBSET (1 .. Len(timers))
  <2>1. rt_tick \in 0 .. TickMod - 1 /\ time \in 0 .. HalfTick - 1 /\ timers \in Seq(Timer)
    BY HalfTickIs, SMT DEF ListsInv, TimerSound, ScalarInv, Times
  <2>2. end \in 0 .. TickMod - 1
    BY <2>1, PlusIs
  <2>3. DOMAIN timers = 1 .. Len(timers)
    BY <2>1
  <2> QED
    BY <2>1, <2>2, <2>3 DEF Timer
<1>2. f \in 1 .. Len(timers) + 1
  BY <1>1, FirstOfIs
<1> HIDE DEF f
<1>3. timers' = timers \/ timers' = InsertAt(timers, f, x)
  BY DEF TimerStarted, f
<1>4. x.thread # w
  OBVIOUS
<1> HIDE DEF x
<1>5. /\ InsertAt(timers, f, x) \in Seq(Timer)
      /\ Range(InsertAt(timers, f, x)) = Range(timers) \cup {x}
  BY <1>1, <1>2, InsertAtRange
<1>6. timers' \in Seq(Timer) /\ \A y \in Range(timers') : y \in Range(timers) \/ y.thread # w
  BY <1>1, <1>3, <1>4, <1>5
<1> QED
  BY <1>1, <1>6, TimersOf DEF Parked

\* Another thread that suspends itself leaves w where it is.
LEMMA SuspendParked ==
  ASSUME ListsInv, ScalarInv, NEW w \in Threads, Parked(w), NEW t \in Threads, current = t,
         NEW l, NEW time \in Times, NEW r, NEW pr, Suspend(t, l, time, r, pr)
  PROVE  StaysParked(w)
<1>1. t # w
  BY CallerReady DEF Parked
<1>2. stat'[w] = "suspend"
  BY <1>1 DEF Suspend, ListsInv, Parked
<1>3. ~HasTimer(w)'
  BY <1>1, StartParked DEF Suspend, Parked, HasTimer
<1> QED
  BY <1>2, <1>3 DEF StaysParked

\* So does a release that resumes a thread of another object.
LEMMA ResumeParked ==
  ASSUME ListsInv, NEW w \in Threads, Parked(w), NEW l \in Lists \ {PoolList},
         NEW x \in Range(waiting[l]), NEW r, Resume(x, l, r)
  PROVE  StaysParked(w)
<1>0. x \in Threads /\ op[x] = l
  BY WaitsIs DEF Waits
<1>1. x # w /\ x \in Threads
  BY <1>0 DEF Parked
<1>2. stat'[w] = "suspend"
  BY <1>1 DEF Resume, ListsInv, Parked
<1>3. timers \in Seq(Timer) /\ IsInjective(timers)
  BY DEF ListsInv, TimerSound
<1>4. timers' \in Seq(Timer) /\ \A y \in Range(timers') : y \in Range(timers)
  <2>1. CASE timers' = timers
    BY <1>3, <2>1
  <2>2. CASE HasTimer(x)
    <3> DEFINE i == CHOOSE i \in DOMAIN timers : timers[i].thread = x
    <3>1. i \in 1 .. Len(timers) /\ timers' = RemoveAt(timers, i)
      BY <1>3, <2>2 DEF Resume, TimerRemoved, HasTimer
    <3> HIDE DEF i
    <3> QED
      BY <1>3, <3>1, RemoveAtIs, RemoveAtRange
  <2> QED
    BY <2>1, <2>2 DEF Resume, TimerRemoved
<1>5. ~HasTimer(w)'
  BY <1>3, <1>4, TimersOf DEF Parked
<1> QED
  BY <1>2, <1>5 DEF StaysParked

\* So does rt_ipc_list_resume of another object.
LEMMA FirstParked ==
  ASSUME ListsInv, NEW w \in Threads, Parked(w), NEW l \in Lists \ {PoolList}, ResumeFirst(l)
  PROVE  StaysParked(w)
BY HeadWaits, ResumeParked DEF ResumeFirst, StaysParked, Parked, HasTimer

\* So does a step that changes neither threads nor timers.
LEMMA SameParked ==
  ASSUME NEW w, Parked(w), UNCHANGED <<stat, timers>>
  PROVE  StaysParked(w)
BY DEF StaysParked, Parked, HasTimer

\* The clock resumes only threads with a timer.
LEMMA ClockParked ==
  ASSUME ListsInv, ScalarInv, NEW w \in Threads, Parked(w), NEW t \in Threads,
         NEW time \in 1 .. HalfTick - 1,
         Tick \/ Expire \/ TickEnd \/ Sleep(t, time) \/ Awake(t)
  PROVE  StaysParked(w)
<1>1. CASE Tick \/ TickEnd \/ Awake(t)
  BY <1>1, SameParked DEF Tick, TickEnd, Awake
<1>2. CASE Sleep(t, time)
  <2>1. t # w /\ stat' = [stat EXCEPT ![t] = "suspend"] /\ timers' = TimerStarted(t, time)
    BY <1>2, CallerReady DEF Sleep, Calls, Parked
  <2>2. time \in Times /\ time > 0
    BY HalfTickIs, SMT DEF Times
  <2>3. ~HasTimer(w)'
    BY <2>1, <2>2, StartParked
  <2> QED
    BY <2>1, <2>3 DEF StaysParked, Parked, ListsInv
<1>3. CASE Expire
  <2> DEFINE x == Head(timers).thread
  <2>0. timers \in Seq(Timer) /\ timers # <<>>
    BY <1>3 DEF Expire, Expired, ListsInv, TimerSound
  <2>1. Head(timers) \in Range(timers) /\ Head(timers) = timers[1] /\ 1 \in 1 .. Len(timers)
    BY <2>0, HeadInRange
  <2>2. x # w /\ stat' = [stat EXCEPT ![x] = "ready"] /\ timers' = RemoveAt(timers, 1)
    BY <1>3, <2>0, <2>1, HasTimerIs, TailIs DEF Expire, Parked
  <2>3. IsInjective(timers)
    BY DEF ListsInv, TimerSound
  <2>4. timers' \in Seq(Timer) /\ \A y \in Range(timers') : y \in Range(timers)
    BY <2>0, <2>1, <2>2, <2>3, RemoveAtIs, RemoveAtRange
  <2>5. ~HasTimer(w)'
    BY <2>0, <2>4, TimersOf DEF Parked
  <2> HIDE DEF x
  <2> QED
    BY <2>2, <2>5 DEF StaysParked, Parked, ListsInv
<1> QED
  BY <1>1, <1>2, <1>3

\* The semaphore does not resume w.
LEMMA SemParked ==
  ASSUME ListsInv, ScalarInv, NEW w \in Threads, Parked(w), NEW t \in Threads, NEW time \in Times,
         SemTake(t, time) \/ SemTaken(t) \/ SemRelease
  PROVE  StaysParked(w)
<1>1. SemList \in Lists \ {PoolList}
  BY ListsApart
<1>2. CASE Calls(t) /\ Suspend(t, SemList, time, ready, prio)
  BY <1>2, SuspendParked DEF Calls
<1>3. CASE waiting[SemList] # <<>> /\ Resume(Head(waiting[SemList]), SemList, ready)
  BY <1>1, <1>3, HeadWaits, ResumeParked
<1>4. CASE UNCHANGED <<stat, timers>>
  BY <1>4, SameParked
<1> QED
  BY <1>2, <1>3, <1>4 DEF SemTake, SemTaken, SemRelease, tvars

\* The mutexes do not resume w.
LEMMA MutexParked ==
  ASSUME ListsInv, ScalarInv, NEW w \in Threads, Parked(w), NEW t \in Threads,
         NEW m \in Mutexes, NEW time \in Times,
         \/ MutexTake(t, m) \/ MutexWait(t, m, time) \/ MutexTaken(t, m)
         \/ MutexUnnest(t, m) \/ MutexRelease(t, m) \/ MutexRefused(t, m)
  PROVE  StaysParked(w)
<1>1. m \in Lists \ {PoolList}
  BY ListsApart
<1>2. ASSUME NEW r, NEW pr, Calls(t), Suspend(t, m, time, r, pr) PROVE StaysParked(w)
  BY <1>2, SuspendParked DEF Calls
<1>3. ASSUME NEW r, waiting[m] # <<>>, Resume(Head(waiting[m]), m, r) PROVE StaysParked(w)
  BY <1>1, <1>3, HeadWaits, ResumeParked
<1>4. CASE UNCHANGED <<stat, timers>>
  BY <1>4, SameParked
<1>5. CASE MutexWait(t, m, time)
  BY <1>2, <1>4, <1>5 DEF MutexWait
<1>6. CASE MutexRelease(t, m)
  BY <1>3, <1>4, <1>6 DEF MutexRelease
<1> QED
  BY <1>4, <1>5, <1>6 DEF MutexTake, MutexTaken, MutexUnnest, MutexRefused, tvars

\* The event does not resume w.
LEMMA EventParked ==
  ASSUME ListsInv, ScalarInv, LoopInv, NEW w \in Threads, Parked(w), NEW t \in Threads,
         NEW set, NEW opt, NEW time \in Times,
         EvSend(set) \/ EvLook \/ EvRecv(t, set, opt, time) \/ EvReceived(t)
  PROVE  StaysParked(w)
<1>1. EvList \in Lists \ {PoolList}
  BY ListsApart
<1>2. CASE Calls(t) /\ Suspend(t, EvList, time, ready, prio)
  BY <1>2, SuspendParked DEF Calls
<1>3. CASE EvLook /\ Resume(Head(todo), EvList, ready)
  <2>1. Head(todo) \in Range(waiting[EvList])
    BY <1>3, HeadInRange DEF LoopInv, EvLook
  <2> QED
    BY <1>1, <1>3, <2>1, ResumeParked
<1>4. CASE UNCHANGED <<stat, timers>>
  BY <1>4, SameParked
<1> QED
  BY <1>2, <1>3, <1>4 DEF EvSend, EvLook, EvRecv, EvReceived

\* The mailbox does not resume w.
LEMMA MailParked ==
  ASSUME ListsInv, ScalarInv, NEW w \in Threads, Parked(w), NEW t \in Threads, NEW m,
         NEW time \in Times,
         \/ MbSend(t, m, time) \/ MbPost(m) \/ MbSendGoesOn(t)
         \/ MbRecv(t, time) \/ MbRecvGoesOn(t)
  PROVE  StaysParked(w)
<1>1. RecvList \in Lists \ {PoolList} /\ SendList \in Lists \ {PoolList}
  BY ListsApart
<1>2. ASSUME NEW l, NEW some \in Times, current = t, Await(t, l, some) PROVE StaysParked(w)
  BY <1>2, SuspendParked DEF Await
<1>3. CASE ResumeFirst(RecvList) \/ ResumeFirst(SendList)
  BY <1>1, <1>3, FirstParked
<1>4. CASE UNCHANGED <<stat, timers>>
  BY <1>4, SameParked
<1>5. Remaining(t) \in Times
  BY RemainingIs
<1> QED
  BY <1>2, <1>3, <1>4, <1>5
     DEF MbSend, MbPost, MbSendGoesOn, MbRecv, MbRecvGoesOn, Deposit, Collect, Calls, Returns

\* The message queue does not resume w.
LEMMA QueueParked ==
  ASSUME ListsInv, ScalarInv, NEW w \in Threads, Parked(w), NEW t \in Threads, NEW m, NEW urgent,
         NEW time \in Times,
         \/ MqSend(t, m, urgent) \/ MqLink(t) \/ MqPost(m, urgent)
         \/ MqRecv(t, time) \/ MqRecvGoesOn(t) \/ MqFree(t)
  PROVE  StaysParked(w)
<1>1. MqList \in Lists \ {PoolList}
  BY ListsApart
<1>2. ASSUME NEW some \in Times, current = t, Await(t, MqList, some) PROVE StaysParked(w)
  BY <1>2, SuspendParked DEF Await
<1>3. CASE ResumeFirst(MqList)
  BY <1>1, <1>3, FirstParked
<1>4. CASE UNCHANGED <<stat, timers>>
  BY <1>4, SameParked
<1>5. Remaining(t) \in Times
  BY RemainingIs
<1> QED
  BY <1>2, <1>3, <1>4, <1>5
     DEF MqSend, MqLink, MqPost, MqRecv, MqRecvGoesOn, MqFree, MqUnlink, Calls, Returns

\* Only w allocates, and waits as long as it takes.
Writer(w) == \A t \in Threads, time \in Times : Does(t, <<"alloc", time>>) => t = w /\ time < 0

\* The blocks are free or given; w alone may wait for one, and if it was resumed
\* there is a free one for it.
PoolInv(w) ==
  /\ ~wild /\ free \in Seq(Range(Blocks)) /\ IsInjective(free) /\ given \subseteq Range(Blocks)
  /\ Range(free) \cap given = {} /\ Range(free) \cup given = Range(Blocks)
  /\ \A t \in Threads : op[t] = PoolList => t = w
  /\ suspend_thread_count = IF op[w] = PoolList /\ stat[w] = "suspend" THEN 1 ELSE 0
  /\ op[w] = PoolList /\ stat[w] = "suspend" => free = <<>> /\ ~HasTimer(w)
  /\ op[w] = PoolList /\ stat[w] = "ready" => free # <<>> /\ error[w] = "ok"

\* A step of another object keeps the invariant of the pool.
LEMMA PoolKeeps ==
  ASSUME ListsInv, NEW w \in Threads, PoolInv(w), Quiet({PoolList}), Parked(w) => StaysParked(w),
         UNCHANGED mpvars
  PROVE  PoolInv(w)'
<1>1. \A t \in Threads : op'[t] = PoolList <=> op[t] = PoolList
  BY DEF Quiet
<1>2. CASE op[w] # PoolList
  BY <1>1, <1>2 DEF PoolInv, mpvars
<1>3. CASE op[w] = PoolList /\ stat[w] = "suspend"
  <2>1. stat'[w] = "suspend" /\ ~HasTimer(w)'
    BY <1>3 DEF PoolInv, Parked, StaysParked
  <2> QED
    BY <1>1, <1>3, <2>1 DEF PoolInv, mpvars
<1>4. CASE op[w] = PoolList /\ stat[w] # "suspend"
  <2>1. stat'[w] = stat[w] /\ error'[w] = error[w] /\ stat[w] = "ready"
    BY <1>4 DEF Quiet, ListsInv, States
  <2> QED
    BY <1>1, <1>4, <2>1 DEF PoolInv, mpvars
<1> QED
  BY <1>2, <1>3, <1>4

\* The first block goes from the free ones to the given ones.
LEMMA UnlinkIs ==
  ASSUME NEW w, PoolInv(w), free # <<>>, Unlink
  PROVE  /\ ~wild' /\ free' \in Seq(Range(Blocks)) /\ IsInjective(free')
         /\ given' \subseteq Range(Blocks)
         /\ Range(free') \cap given' = {} /\ Range(free') \cup given' = Range(Blocks)
         /\ suspend_thread_count' = suspend_thread_count
<1>1. /\ Tail(free) \in Seq(Range(Blocks)) /\ IsInjective(Tail(free))
      /\ Head(free) \in Range(free) /\ Range(Tail(free)) = Range(free) \ {Head(free)}
  BY TailRange DEF PoolInv
<1> QED
  BY <1>1 DEF Unlink, PoolInv

\* rt_mp_alloc gives a block, or the writer waits, alone.
LEMMA PoolAlloc ==
  ASSUME ListsInv, NEW w \in Threads, PoolInv(w), NEW time \in Times, time < 0, MpAlloc(w, time)
  PROVE  PoolInv(w)'
<1>0. op[w] # PoolList /\ stat[w] = "ready" /\ PoolList \in Lists
  BY CallerReady, ThreadsAssumption, MemPoolAssumption DEF MpAlloc, Calls
<1>1. CASE free # <<>> /\ Unlink /\ UNCHANGED tvars
  <2>1. op' = op
    BY <1>1 DEF tvars
  <2> QED
    BY <1>0, <1>1, <2>1, UnlinkIs DEF PoolInv
<1>2. CASE /\ free = <<>> /\ Suspend(w, PoolList, time, ready, prio)
           /\ suspend_thread_count' = suspend_thread_count + 1
           /\ UNCHANGED <<free, given, wild>>
  <2>1. /\ stat' = [stat EXCEPT ![w] = "suspend"] /\ op' = [op EXCEPT ![w] = PoolList]
        /\ timers' = timers
    BY <1>2, SMT DEF Suspend, Times
  <2>2. ~HasTimer(w)'
    <3>1. timers \in Seq(Timer) /\ \A x \in Range(timers) : stat[x.thread] = "suspend"
      BY DEF ListsInv, TimerSound
    <3>2. ~HasTimer(w)
      BY <1>0, <3>1, HasTimerIs
    <3> QED
      BY <2>1, <3>2 DEF HasTimer
  <2>3. /\ stat'[w] = "suspend" /\ op'[w] = PoolList
        /\ \A t \in Threads \ {w} : op'[t] = op[t]
    BY <2>1 DEF ListsInv
  <2>4. suspend_thread_count' = 1
    BY <1>0, <1>2 DEF PoolInv
  <2> QED
    BY <1>2, <2>2, <2>3, <2>4 DEF PoolInv
<1> QED
  BY <1>1, <1>2 DEF MpAlloc

\* ... and finds a block when it goes on.
LEMMA PoolAllocated ==
  ASSUME ListsInv, NEW w \in Threads, PoolInv(w), NEW t \in Threads, MpAllocated(t)
  PROVE  PoolInv(w)'
<1>1. t = w /\ op[w] = PoolList /\ stat[w] = "ready"
  BY CallerReady DEF MpAllocated, Returns, PoolInv
<1>2. free # <<>> /\ Unlink /\ op' = [op EXCEPT ![w] = "none"] /\ suspend_thread_count = 0
  BY <1>1 DEF MpAllocated, Leave, PoolInv
<1>3. op'[w] # PoolList /\ \A u \in Threads \ {w} : op'[u] = op[u]
  BY <1>2, ThreadsAssumption, MemPoolAssumption DEF ListsInv
<1> QED
  BY <1>2, <1>3, UnlinkIs DEF PoolInv

\* rt_mp_free puts the block back and resumes the writer if it waits.
LEMMA PoolFreed ==
  ASSUME ListsInv, ScalarInv, NEW w \in Threads, PoolInv(w), NEW b \in given, MpFree(b)
  PROVE  PoolInv(w)'
<1>1. /\ free' = <<b>> \o free /\ given' = given \ {b} /\ b \in Range(Blocks) /\ b \notin Range(free)
  BY DEF MpFree, PoolInv
<1>2. /\ free' \in Seq(Range(Blocks)) /\ IsInjective(free') /\ free' # <<>>
      /\ Range(free') = Range(free) \cup {b}
  <2>1. /\ <<b>> \o free \in Seq(Range(Blocks)) /\ IsInjective(<<b>> \o free)
        /\ Range(<<b>> \o free) = Range(free) \cup {b} /\ Len(<<b>> \o free) = Len(free) + 1
        /\ Len(free) \in Nat
    BY <1>1, PushIs, LenProperties DEF PoolInv
  <2>2. <<b>> \o free # <<>>
    BY <2>1
  <2> QED
    BY <1>1, <2>1, <2>2
<1>3. /\ given' \subseteq Range(Blocks)
      /\ Range(free') \cap given' = {} /\ Range(free') \cup given' = Range(Blocks)
  BY <1>1, <1>2 DEF PoolInv
<1>4. CASE suspend_thread_count = 0 /\ UNCHANGED <<tvars, suspend_thread_count, wild>>
  <2>1. UNCHANGED <<op, stat, error>> /\ ~(op[w] = PoolList /\ stat[w] = "suspend")
    BY <1>4 DEF tvars, PoolInv
  <2> QED
    BY <1>2, <1>3, <1>4, <2>1 DEF PoolInv
<1>5. CASE /\ suspend_thread_count > 0
           /\ waiting[PoolList] # <<>>
           /\ error' = [error EXCEPT ![Head(waiting[PoolList])] = "ok"]
           /\ Resume(Head(waiting[PoolList]), PoolList, ready)
           /\ suspend_thread_count' = suspend_thread_count - 1
           /\ UNCHANGED <<op, wild>>
  <2>1. Head(waiting[PoolList]) = w /\ stat[w] = "suspend" /\ op[w] = PoolList
    BY <1>5, HeadWaits, MemPoolAssumption DEF PoolInv
  <2>2. stat' = [stat EXCEPT ![w] = "ready"] /\ error' = [error EXCEPT ![w] = "ok"]
    BY <1>5, <2>1 DEF Resume
  <2>3. stat'[w] = "ready" /\ error'[w] = "ok"
    BY <2>2 DEF ListsInv, ScalarInv
  <2>4. suspend_thread_count' = 0
    BY <1>5, <2>1 DEF PoolInv
  <2> QED
    BY <1>2, <1>3, <1>5, <2>1, <2>3, <2>4 DEF PoolInv
<1>6. CASE suspend_thread_count > 0 /\ waiting[PoolList] = <<>>
  <2>1. op[w] = PoolList /\ stat[w] = "suspend"
    BY <1>6 DEF PoolInv
  <2>2. w \in Waits(PoolList)
    BY <2>1 DEF Waits
  <2> QED
    BY <1>6, <2>2, WaitsIs, MemPoolAssumption
<1> QED
  BY <1>4, <1>5, <1>6 DEF MpFree

\* Each program allocates in one thread, without a timeout, as serial.c does.
OneWriter == \A j \in Jobs : \E w \in Threads :
               \A t \in Threads, time \in Times : <<"alloc", time>> \in j.does[t] => t = w /\ time < 0

\* At first every block is free.
LEMMA InitPool ==
  ASSUME OneWriter, Init
  PROVE  \E w \in Threads : Writer(w) /\ PoolInv(w)
<1>1. PICK w \in Threads : Writer(w)
  BY DEF Init, OneWriter, Writer, Does
<1>2. \A t \in Threads : op[t] # PoolList
  BY ThreadsAssumption, MemPoolAssumption DEF Init, ThreadsInit
<1>3. free = Blocks /\ suspend_thread_count = 0 /\ given = {} /\ ~wild
  BY DEF Init, MpInit
<1>4. Blocks \in Seq(Range(Blocks)) /\ IsInjective(Blocks)
  BY MemPoolAssumption, IsASeq DEF Range
<1> QED
  BY <1>1, <1>2, <1>3, <1>4 DEF PoolInv

\* The pool's list is not one of another object.
LEMMA PoolLast ==
  ASSUME IInv
  PROVE  /\ {PoolList} \in SUBSET Lists /\ {PoolList} \cap Mutexes = {}
         /\ SemList \notin {PoolList} /\ EvList \notin {PoolList} /\ RecvList \notin {PoolList}
         /\ SendList \notin {PoolList} /\ MqList \notin {PoolList}
         /\ ListsInv /\ ScalarInv /\ LoopInv
BY ListsApart, MemPoolAssumption DEF IInv

\* The semaphore's steps keep the invariant of the pool.
LEMMA SemPool ==
  ASSUME IInv, NEW w \in Threads, PoolInv(w), UNCHANGED mpvars, NEW t \in Threads,
         NEW time \in Times,
         SemTake(t, time) \/ SemTaken(t) \/ SemRelease
  PROVE  PoolInv(w)'
BY PoolLast, SemFrame, SemParked, PoolKeeps

\* The mutexes' steps keep the invariant of the pool.
LEMMA MutexPool ==
  ASSUME IInv, NEW w \in Threads, PoolInv(w), UNCHANGED mpvars, NEW t \in Threads,
         NEW m \in Mutexes, NEW time \in Times,
         \/ MutexTake(t, m) \/ MutexWait(t, m, time) \/ MutexTaken(t, m)
         \/ MutexUnnest(t, m) \/ MutexRelease(t, m) \/ MutexRefused(t, m)
  PROVE  PoolInv(w)'
BY PoolLast, MutexFrame, MutexParked, PoolKeeps

\* The event's steps keep the invariant of the pool.
LEMMA EventPool ==
  ASSUME IInv, NEW w \in Threads, PoolInv(w), UNCHANGED mpvars, NEW t \in Threads,
         NEW set, NEW opt, NEW time \in Times,
         EvSend(set) \/ EvLook \/ EvRecv(t, set, opt, time) \/ EvReceived(t)
  PROVE  PoolInv(w)'
BY PoolLast, EventFrame, EventParked, PoolKeeps

\* The mailbox's steps keep the invariant of the pool.
LEMMA MailPool ==
  ASSUME IInv, NEW w \in Threads, PoolInv(w), UNCHANGED mpvars, NEW t \in Threads,
         NEW m, NEW time \in Times,
         \/ MbSend(t, m, time) \/ MbPost(m) \/ MbSendGoesOn(t)
         \/ MbRecv(t, time) \/ MbRecvGoesOn(t)
  PROVE  PoolInv(w)'
BY PoolLast, MailFrame, MailParked, PoolKeeps

\* The message queue's steps keep the invariant of the pool.
LEMMA QueuePool ==
  ASSUME IInv, NEW w \in Threads, PoolInv(w), UNCHANGED mpvars, NEW t \in Threads,
         NEW m, NEW urgent, NEW time \in Times,
         \/ MqSend(t, m, urgent) \/ MqLink(t) \/ MqPost(m, urgent)
         \/ MqRecv(t, time) \/ MqRecvGoesOn(t) \/ MqFree(t)
  PROVE  PoolInv(w)'
BY PoolLast, QueueFrame, QueueParked, PoolKeeps

\* The clock and the sleeping threads keep the invariant of the pool.
LEMMA ClockPool ==
  ASSUME IInv, NEW w \in Threads, PoolInv(w), UNCHANGED mpvars, NEW t \in Threads,
         NEW time \in 1 .. HalfTick - 1,
         Tick \/ Expire \/ TickEnd \/ Sleep(t, time) \/ Awake(t)
  PROVE  PoolInv(w)'
<1>1. time \in Times
  BY HalfTickIs, SMT DEF Times
<1>2. Quiet({PoolList})
  BY <1>1, PoolLast, ClockFrame
<1>3. Parked(w) => StaysParked(w)
  BY PoolLast, ClockParked
<1> QED
  BY <1>2, <1>3, PoolLast, PoolKeeps

\* So does a stutter.
LEMMA PoolStill ==
  ASSUME ListsInv, NEW w \in Threads, PoolInv(w), UNCHANGED <<tvars, mpvars>>
  PROVE  PoolInv(w)'
<1>1. Quiet({PoolList}) /\ UNCHANGED <<stat, timers>>
  BY DEF Quiet, tvars
<1> QED
  BY <1>1, SameParked, PoolKeeps

\* Every step of the kernel keeps the invariant of the pool.
LEMMA NextPool ==
  ASSUME IInv, NEW w \in Threads, Writer(w), PoolInv(w), Next
  PROVE  PoolInv(w)'
<1>0. 0 \in Times /\ 1 .. HalfTick - 1 \subseteq Times /\ 1 \in 1 .. HalfTick - 1
  BY HalfTickIs, SMT DEF Times
<1>b. ListsInv /\ ScalarInv
  BY DEF IInv
<1> USE DEF objects
<1>1. ASSUME NEW t \in Threads, CallSem(t) PROVE PoolInv(w)'
  BY <1>0, <1>1, SemPool DEF CallSem
<1>2. ASSUME NEW t \in Threads, CallMutex(t) PROVE PoolInv(w)'
  BY <1>0, <1>2, MutexPool DEF CallMutex
<1>3. ASSUME NEW t \in Threads, CallEvent(t) PROVE PoolInv(w)'
  BY <1>0, <1>3, EventPool DEF CallEvent
<1>4. ASSUME NEW t \in Threads, CallMailbox(t) PROVE PoolInv(w)'
  BY <1>0, <1>4, MailPool DEF CallMailbox
<1>5. ASSUME NEW t \in Threads, CallQueue(t) PROVE PoolInv(w)'
  BY <1>0, <1>5, QueuePool DEF CallQueue
<1>6. ASSUME NEW t \in Threads, CallPool(t) PROVE PoolInv(w)'
  <2>1. ASSUME NEW time \in Times, Does(t, <<"alloc", time>>), MpAlloc(t, time) PROVE PoolInv(w)'
    <3>1. t = w /\ time < 0
      BY <2>1 DEF Writer
    <3> QED
      BY <1>b, <2>1, <3>1, PoolAlloc
  <2> QED
    BY <1>b, <1>6, <2>1, PoolFreed DEF CallPool
<1>7. ASSUME NEW t \in Threads, CallSleep(t) PROVE PoolInv(w)'
  BY <1>0, <1>7, ClockPool DEF CallSleep
<1>8. ASSUME NEW t \in Threads, GoOn(t) PROVE PoolInv(w)'
  <2>1. CASE SemTaken(t) /\ UNCHANGED mpvars
    BY <1>0, <2>1, SemPool
  <2>2. CASE (\E m \in Mutexes : MutexTaken(t, m)) /\ UNCHANGED mpvars
    BY <1>0, <2>2, MutexPool
  <2>3. CASE EvReceived(t) /\ UNCHANGED mpvars
    BY <1>0, <2>3, EventPool
  <2>4. CASE (MbSendGoesOn(t) \/ MbRecvGoesOn(t)) /\ UNCHANGED mpvars
    BY <1>0, <2>4, MailPool
  <2>5. CASE (MqLink(t) \/ MqRecvGoesOn(t) \/ MqFree(t)) /\ UNCHANGED mpvars
    BY <1>0, <2>5, QueuePool
  <2>6. CASE Awake(t) /\ UNCHANGED mpvars
    BY <1>0, <2>6, ClockPool
  <2> QED
    BY <1>b, <1>8, <2>1, <2>2, <2>3, <2>4, <2>5, <2>6, PoolAllocated DEF GoOn
<1>9. CASE DeviceSem
  BY <1>0, <1>9, SemPool DEF DeviceSem
<1>10. CASE DeviceEvent \/ EventLoop
  BY <1>0, <1>10, EventPool DEF DeviceEvent, EventLoop
<1>11. CASE DeviceMail
  BY <1>0, <1>11, MailPool DEF DeviceMail
<1>12. CASE DeviceMessage
  BY <1>0, <1>12, QueuePool DEF DeviceMessage
<1>13. CASE DevicePool
  BY <1>b, <1>13, PoolFreed DEF DevicePool
<1>14. CASE Clock
  BY <1>0, <1>14, ClockPool DEF Clock
<1> QED
  BY <1>1, <1>2, <1>3, <1>4, <1>5, <1>6, <1>7, <1>8, <1>9, <1>10, <1>11, <1>12, <1>13, <1>14
     DEF Next

\* The program has a writer, and the pool is sound for it.
SomeWriter == \E w \in Threads : Writer(w) /\ PoolInv(w)

\* The writer stays the writer: the program never changes.
LEMMA StepPool == IInv /\ SomeWriter /\ [Next]_vars => SomeWriter'
<1> SUFFICES ASSUME IInv, NEW w \in Threads, Writer(w), PoolInv(w), [Next]_vars
             PROVE  Writer(w)' /\ PoolInv(w)'
  BY DEF SomeWriter
<1>1. Writer(w)'
  <2>1. job' = job
    BY DEF Next, vars
  <2> QED
    BY <2>1 DEF Writer, Does
<1>2. CASE Next
  BY <1>1, <1>2, NextPool
<1>3. CASE UNCHANGED vars
  BY <1>1, <1>3, PoolStill DEF IInv, vars, objects
<1> QED
  BY <1>1, <1>2, <1>3

\* The invariant implies PoolSound.
LEMMA PoolIs == IInv /\ SomeWriter => PoolSound
<1> SUFFICES ASSUME ListsInv, NEW w \in Threads, PoolInv(w) PROVE PoolSound
  BY DEF SomeWriter, IInv
<1>1. /\ waiting[PoolList] \in Seq(Threads) /\ IsInjective(waiting[PoolList])
      /\ Waits(PoolList) = Range(waiting[PoolList])
  BY WaitsIs, MemPoolAssumption DEF ListsInv, WaitSound
<1>2. suspend_thread_count = Len(waiting[PoolList])
  <2> PICK q : q = waiting[PoolList]
    OBVIOUS
  <2>1. q \in Seq(Threads) /\ IsInjective(q) /\ Range(q) = Waits(PoolList)
    BY <1>1
  <2>2. PICK n \in Nat : n = Len(q) /\ DOMAIN q = 1 .. n
    BY <2>1, LenProperties
  <2>3. \A i, j \in 1 .. n : q[i] = q[j] => i = j
    BY <2>1, <2>2 DEF IsInjective
  <2>4. CASE op[w] = PoolList /\ stat[w] = "suspend"
    <3>1. Waits(PoolList) = {w}
      BY <2>4 DEF Waits, PoolInv
    <3>2. \A i \in 1 .. n : q[i] = w
      BY <2>1, <2>2, <3>1 DEF Range
    <3>3. n # 0
      BY <2>1, <2>2, <3>1 DEF Range
    <3>4. n = 1
      BY <2>3, <3>2, <3>3
    <3> QED
      BY <2>2, <2>4, <3>4 DEF PoolInv
  <2>5. CASE ~(op[w] = PoolList /\ stat[w] = "suspend")
    <3>1. Waits(PoolList) = {}
      BY <2>5 DEF Waits, PoolInv
    <3>2. ASSUME n # 0 PROVE FALSE
      <4>1. 1 \in 1 .. n
        BY <3>2
      <4> QED
        BY <2>1, <2>2, <3>1, <4>1 DEF Range
    <3> QED
      BY <2>2, <2>5, <3>2 DEF PoolInv
  <2> QED
    BY <2>4, <2>5
<1> QED
  BY <1>2 DEF PoolSound, PoolInv

\* In every program with one writer, for any pool and any threads and interrupts
\* that free its blocks, no block is lost or given twice and rt_mp_alloc never
\* follows the end of the list.
THEOREM KernelPool == ASSUME OneWriter PROVE Spec => []PoolSound
<1>1. Init => IInv /\ SomeWriter
  BY InitInv, InitPool DEF SomeWriter
<1>2. IInv /\ SomeWriter /\ [Next]_vars => (IInv /\ SomeWriter)'
  BY NextInv, StepPool
<1> QED
  BY <1>1, <1>2, PoolIs, PTL DEF Spec
=============================================================================
