------------------------------ MODULE MemPool ------------------------------
(***************************************************************************)
(* rt_mp_alloc and rt_mp_free of mempool.c, for one pool, as the DMA       *)
(* transmitter of serial.c uses it: a thread allocates a node for what it  *)
(* writes and the interrupt that ends the transmission frees it.           *)
(***************************************************************************)
EXTENDS KernelThreads

CONSTANTS
  PoolList,   \* the suspend list of the pool, "lifo"
  Blocks      \* its blocks, in the order rt_mp_init links them

ASSUME MemPoolAssumption ==
  PoolList \in Lists /\ Blocks \in Seq(Nat) /\ IsInjective(Blocks)

VARIABLES
  free,                  \* block_list (block_free_count is its length)
  suspend_thread_count,  \* suspend_thread_count of the pool
  given,                 \* blocks allocated and not freed
  wild                   \* a list was read beyond its end: all is undefined now

mpvars == <<free, suspend_thread_count, given, wild>>

MpInit ==
  /\ free = Blocks
  /\ suspend_thread_count = 0 /\ given = {} /\ wild = FALSE

\* the first block of block_list is unlinked, or what lies at address 0
Unlink ==
  /\ IF free # <<>>
     THEN free' = Tail(free) /\ given' = given \cup {Head(free)} /\ wild' = wild
     ELSE wild' = TRUE /\ UNCHANGED <<free, given>>
  /\ UNCHANGED suspend_thread_count

\* rt_mp_alloc, up to rt_schedule when it waits (with time 0 it returns RT_NULL
\* and changes nothing)
MpAlloc(t, time) ==
  /\ Calls(t) /\ ~wild
  /\ \/ /\ free # <<>>
        /\ Unlink
        /\ UNCHANGED tvars
     \/ /\ free = <<>> /\ time # 0
        /\ Suspend(t, PoolList, time, ready, prio)
        /\ suspend_thread_count' = suspend_thread_count + 1
        /\ UNCHANGED <<lvars, rt_tick, masked, prio, error, free, given, wild>>

\* ... and behind it: the block of the rt_mp_free that resumed the thread is
\* expected in the list
MpAllocated(t) ==
  /\ Returns(t, PoolList) /\ ~wild
  /\ IF error[t] = "ok" THEN Unlink ELSE UNCHANGED mpvars
  /\ Leave(t)
  /\ UNCHANGED <<lvars, rt_tick, masked, current, prio, stat, error, ready, waiting, timers>>

\* mutant: suspend_thread_count stays
MpFreeCountStays(b) ==
  /\ masked = "no" /\ ~wild /\ b \in given
  /\ free' = <<b>> \o free
  /\ given' = given \ {b}
  /\ \/ /\ suspend_thread_count = 0
        /\ UNCHANGED <<tvars, wild>>
     \/ /\ suspend_thread_count > 0 /\ waiting[PoolList] # <<>>
        /\ error' = [error EXCEPT ![Head(waiting[PoolList])] = "ok"]
        /\ Resume(Head(waiting[PoolList]), PoolList, ready)
        /\ UNCHANGED <<lvars, rt_tick, masked, prio, op, wild>>
     \/ /\ suspend_thread_count > 0 /\ waiting[PoolList] = <<>>
        /\ wild' = TRUE
        /\ UNCHANGED tvars
  /\ UNCHANGED suspend_thread_count

\* rt_mp_free
MpFree(b) ==
  /\ masked = "no" /\ ~wild /\ b \in given
  /\ free' = <<b>> \o free
  /\ given' = given \ {b}
  /\ \/ /\ suspend_thread_count = 0
        /\ UNCHANGED <<tvars, suspend_thread_count, wild>>
     \/ /\ suspend_thread_count > 0 /\ waiting[PoolList] # <<>>
        /\ error' = [error EXCEPT ![Head(waiting[PoolList])] = "ok"]
        /\ Resume(Head(waiting[PoolList]), PoolList, ready)
        /\ suspend_thread_count' = suspend_thread_count - 1
        /\ UNCHANGED <<lvars, rt_tick, masked, prio, op, wild>>
     \/ /\ suspend_thread_count > 0 /\ waiting[PoolList] = <<>>
        /\ wild' = TRUE
        /\ UNCHANGED <<tvars, suspend_thread_count>>
=============================================================================
