---------------------------- MODULE MessageQueue ----------------------------
(***************************************************************************)
(* rt_mq_send, rt_mq_urgent and rt_mq_recv of ipc.c: a message is copied   *)
(* into and out of its slot while interrupts are enabled, so a thread that *)
(* copies holds a slot that is neither in the queue nor free.              *)
(***************************************************************************)
EXTENDS KernelThreads

CONSTANTS
  MqList,              \* the suspend list of the queue
  Slots,               \* max_msgs slots, in the order of the free list
  Messages, FirstMessage

ASSUME MessageQueueAssumption ==
  /\ MqList \in Lists
  /\ Slots \in Seq(Nat \ {0}) /\ Slots # <<>> /\ IsInjective(Slots)
  /\ FirstMessage \in Messages

VARIABLES
  mq_free,     \* msg_queue_free
  mq_queue,    \* the list from msg_queue_head to msg_queue_tail (entry long)
  content,     \* what each slot holds
  slot,        \* the slot each thread copies from or to, 0 for none
  message,     \* what each thread sends, and whether urgently
  read         \* what each thread received last

mqvars == <<mq_free, mq_queue, content, slot, message, read>>

NoMessage == <<FirstMessage, FALSE>>

MqInit ==
  /\ mq_free = Slots /\ mq_queue = <<>>
  /\ content = [s \in Range(Slots) |-> FirstMessage]
  /\ slot = [t \in Threads |-> 0]
  /\ message = [t \in Threads |-> NoMessage]
  /\ read = [t \in Threads |-> FirstMessage]

\* the slot is linked at the tail, or at the head when the message is urgent
Linked(s, urgent) == IF urgent THEN <<s>> \o mq_queue ELSE Append(mq_queue, s)

\* rt_mq_send or rt_mq_urgent up to the copy: takes a slot (a full queue
\* returns -RT_EFULL and changes nothing)
MqSend(t, m, urgent) ==
  /\ Calls(t)
  /\ mq_free # <<>>
  /\ mq_free' = Tail(mq_free)
  /\ slot' = [slot EXCEPT ![t] = Head(mq_free)]
  /\ message' = [message EXCEPT ![t] = <<m, urgent>>]
  /\ op' = [op EXCEPT ![t] = "fill"]
  /\ UNCHANGED <<lvars, rt_tick, masked, current, prio, stat, error, ready, waiting, timers,
                 mq_queue, content, read>>

\* ... the copy, and the link
MqLink(t) ==
  /\ Returns(t, "fill")
  /\ content' = [content EXCEPT ![slot[t]] = message[t][1]]
  /\ mq_queue' = Linked(slot[t], message[t][2])
  /\ slot' = [slot EXCEPT ![t] = 0]
  /\ message' = [message EXCEPT ![t] = NoMessage]
  /\ ResumeFirst(MqList)
  /\ Leave(t)
  /\ UNCHANGED <<lvars, rt_tick, masked, prio, error, mq_free, read>>

\* rt_mq_send or rt_mq_urgent in an interrupt, which no thread interrupts
MqPost(m, urgent) ==
  /\ masked = "no" /\ mq_free # <<>>
  /\ mq_free' = Tail(mq_free)
  /\ content' = [content EXCEPT ![Head(mq_free)] = m]
  /\ mq_queue' = Linked(Head(mq_free), urgent)
  /\ ResumeFirst(MqList)
  /\ UNCHANGED <<lvars, rt_tick, masked, prio, error, op, slot, message, read>>

\* mutant: the slot is free before it is copied
MqUnlinkFrees(t) ==
  /\ slot' = [slot EXCEPT ![t] = Head(mq_queue)]
  /\ mq_queue' = Tail(mq_queue)
  /\ mq_free' = <<Head(mq_queue)>> \o mq_free
  /\ op' = [op EXCEPT ![t] = "copy"]
  /\ left' = [left EXCEPT ![t] = 0] /\ since' = [since EXCEPT ![t] = 0]
  /\ UNCHANGED <<rt_tick, masked, current, prio, stat, error, ready, waiting, timers,
                 content, message, read>>

\* rt_mq_recv takes the first message off the queue
MqUnlink(t) ==
  /\ slot' = [slot EXCEPT ![t] = Head(mq_queue)]
  /\ mq_queue' = Tail(mq_queue)
  /\ op' = [op EXCEPT ![t] = "copy"]
  /\ left' = [left EXCEPT ![t] = 0] /\ since' = [since EXCEPT ![t] = 0]
  /\ UNCHANGED <<rt_tick, masked, current, prio, stat, error, ready, waiting, timers,
                 mq_free, content, message, read>>

\* rt_mq_recv, up to the copy, or up to rt_schedule when it waits (with time 0
\* it returns -RT_ETIMEOUT and changes nothing)
MqRecv(t, time) ==
  /\ Calls(t)
  /\ \/ mq_queue # <<>> /\ MqUnlink(t)
     \/ mq_queue = <<>> /\ time # 0 /\ Await(t, MqList, time) /\ UNCHANGED mqvars

\* rt_mq_recv behind rt_schedule
MqRecvGoesOn(t) ==
  /\ Returns(t, MqList)
  /\ \/ /\ error[t] # "ok" \/ (mq_queue = <<>> /\ Remaining(t) = 0)
        /\ error' = [error EXCEPT ![t] = IF @ = "ok" THEN "timeout" ELSE @]
        /\ LeaveLoop(t)
        /\ UNCHANGED <<rt_tick, masked, current, prio, stat, ready, waiting, timers, mqvars>>
     \/ error[t] = "ok" /\ mq_queue # <<>> /\ MqUnlink(t)
     \/ /\ error[t] = "ok" /\ mq_queue = <<>> /\ Remaining(t) # 0
        /\ Await(t, MqList, Remaining(t))
        /\ UNCHANGED mqvars

\* rt_mq_recv: the copy, and the slot is free again
MqFree(t) ==
  /\ Returns(t, "copy")
  /\ read' = [read EXCEPT ![t] = content[slot[t]]]
  /\ mq_free' = <<slot[t]>> \o mq_free
  /\ slot' = [slot EXCEPT ![t] = 0]
  /\ Leave(t)
  /\ UNCHANGED <<lvars, rt_tick, masked, current, prio, stat, error, ready, waiting, timers,
                 mq_queue, content, message>>

-----------------------------------------------------------------------------
(* Properties.                                                             *)

\* The queue is the bounded queue it promises: although the messages are
\* copied while others send and receive, a receiver that unlinked a message
\* gets that message.
Queue == INSTANCE BoundedQueue WITH
           Readers <- Threads, Mails <- Messages, Size <- Len(Slots), Urgent <- TRUE,
           queue <- [i \in DOMAIN mq_queue |-> content[mq_queue[i]]],
           received <- [t \in Threads |-> IF op[t] = "copy" THEN content[slot[t]] ELSE read[t]]
MessagesInOrder == Queue!Spec
=============================================================================
