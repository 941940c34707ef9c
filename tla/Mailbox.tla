------------------------------ MODULE Mailbox ------------------------------
(***************************************************************************)
(* rt_mb_send_wait and rt_mb_recv of ipc.c: a mailbox with a ring of mails *)
(* and a suspend list for each direction.  A thread that is resumed looks  *)
(* at the mailbox again, and waits for what is left of its time when       *)
(* another one was faster.                                                 *)
(***************************************************************************)
EXTENDS KernelThreads

CONSTANTS
  RecvList, SendList,   \* suspend_thread and suspend_sender_thread
  MbSize,               \* size of the mailbox
  Mails, FirstMail      \* the mails, and what the memory holds first

ASSUME MailboxAssumption ==
  /\ {RecvList, SendList} \subseteq Lists /\ RecvList # SendList
  /\ MbSize \in Nat \ {0} /\ FirstMail \in Mails

VARIABLES
  msg_pool, in_offset, out_offset, entry,
  mail,      \* what each thread is sending
  got        \* the mail each thread received last

mbvars == <<msg_pool, in_offset, out_offset, entry, mail, got>>

MbInit ==
  /\ msg_pool = [i \in 0 .. MbSize - 1 |-> FirstMail]
  /\ in_offset = 0 /\ out_offset = 0 /\ entry = 0
  /\ mail = [t \in Threads |-> FirstMail] /\ got = mail

Ahead(offset) == IF offset + 1 >= MbSize THEN 0 ELSE offset + 1

\* what rt_mb_send_wait does with a mail when there is room
Deposit(m) ==
  /\ msg_pool' = [msg_pool EXCEPT ![in_offset] = m]
  /\ in_offset' = Ahead(in_offset)
  /\ entry' = entry + 1
  /\ ResumeFirst(RecvList)
  /\ UNCHANGED <<rt_tick, masked, prio, error, out_offset, got>>

\* mutant: resumes no sender
CollectAlone(t) ==
  /\ got' = [got EXCEPT ![t] = msg_pool[out_offset]]
  /\ out_offset' = Ahead(out_offset)
  /\ entry' = entry - 1
  /\ UNCHANGED <<rt_tick, masked, current, prio, stat, error, ready, waiting, timers,
                 msg_pool, in_offset>>

\* what rt_mb_recv does when there is a mail
Collect(t) ==
  /\ got' = [got EXCEPT ![t] = msg_pool[out_offset]]
  /\ out_offset' = Ahead(out_offset)
  /\ entry' = entry - 1
  /\ ResumeFirst(SendList)
  /\ UNCHANGED <<rt_tick, masked, prio, error, msg_pool, in_offset>>

\* neither
MailStays == UNCHANGED <<msg_pool, in_offset, out_offset, entry, got>>

\* rt_mb_send_wait, up to rt_schedule when it waits (with time 0 it returns
\* -RT_EFULL and changes nothing)
MbSend(t, m, time) ==
  /\ Calls(t)
  /\ \/ entry < MbSize /\ Deposit(m) /\ UNCHANGED <<lvars, op, mail>>
     \/ /\ entry = MbSize /\ time # 0
        /\ Await(t, SendList, time)
        /\ mail' = [mail EXCEPT ![t] = m]
        /\ MailStays

\* rt_mb_send in an interrupt
MbPost(m) == masked = "no" /\ entry < MbSize /\ Deposit(m) /\ UNCHANGED <<lvars, op, mail>>

\* mutant: sends the mail whatever woke it up
MbSendAnyway(t) ==
  /\ Returns(t, SendList)
  /\ Deposit(mail[t])
  /\ LeaveLoop(t)
  /\ mail' = [mail EXCEPT ![t] = FirstMail]

\* rt_mb_send_wait behind rt_schedule
MbSendGoesOn(t) ==
  /\ Returns(t, SendList)
  /\ \/ /\ error[t] # "ok" \/ (entry = MbSize /\ Remaining(t) = 0)
        /\ LeaveLoop(t)
        /\ MailStays
        /\ UNCHANGED <<rt_tick, masked, current, prio, stat, error, ready, waiting, timers>>
     \/ /\ error[t] = "ok" /\ entry < MbSize
        /\ Deposit(mail[t])
        /\ LeaveLoop(t)
     \/ /\ error[t] = "ok" /\ entry = MbSize /\ Remaining(t) # 0
        /\ Await(t, SendList, Remaining(t))
        /\ MailStays
  /\ mail' = [mail EXCEPT ![t] = IF op'[t] = "none" THEN FirstMail ELSE @]

\* rt_mb_recv, up to rt_schedule when it waits (with time 0 it returns
\* -RT_ETIMEOUT and changes nothing)
MbRecv(t, time) ==
  /\ Calls(t)
  /\ \/ entry > 0 /\ Collect(t) /\ UNCHANGED <<lvars, op>>
     \/ entry = 0 /\ time # 0 /\ Await(t, RecvList, time) /\ MailStays
  /\ UNCHANGED mail

\* rt_mb_recv behind rt_schedule
MbRecvGoesOn(t) ==
  /\ Returns(t, RecvList)
  /\ \/ /\ error[t] # "ok" \/ (entry = 0 /\ Remaining(t) = 0)
        /\ error' = [error EXCEPT ![t] = IF @ = "ok" THEN "timeout" ELSE @]
        /\ LeaveLoop(t)
        /\ MailStays
        /\ UNCHANGED <<rt_tick, masked, current, prio, stat, ready, waiting, timers>>
     \/ error[t] = "ok" /\ entry > 0 /\ Collect(t) /\ LeaveLoop(t)
     \/ /\ error[t] = "ok" /\ entry = 0 /\ Remaining(t) # 0
        /\ Await(t, RecvList, Remaining(t))
        /\ MailStays
  /\ UNCHANGED mail

-----------------------------------------------------------------------------
(* Properties.                                                             *)

\* The mailbox is the bounded queue it promises, whoever preempts whom, times
\* out or takes the mail a thread was woken up for.
Pool(i)  == msg_pool[IF out_offset + i > MbSize THEN out_offset + i - 1 - MbSize
                                                ELSE out_offset + i - 1]
MailBox  == INSTANCE BoundedQueue WITH
              Readers <- Threads, Size <- MbSize, Urgent <- FALSE,
              queue <- [i \in 1 .. entry |-> Pool(i)], received <- got
MailFifo == MailBox!Spec
=============================================================================
