----------------------------- MODULE QueueProofs ------------------------------
(*****************************************************************************)
(* The mailbox and the message queue of ipc.c implement the bounded queue,   *)
(* for any sizes, any mails and messages, and any threads and interrupts     *)
(* that use them: the refinements Mailbox!MailFifo and                       *)
(* MessageQueue!MessagesInOrder.  The mailbox is proved from the invariant   *)
(* that the offsets and the count of its ring agree, the message queue from  *)
(* the one that a slot is free, queued or held by one thread that copies it. *)
(*****************************************************************************)
EXTENDS KernelProofs

-----------------------------------------------------------------------------
(* The mailbox.                                                            *)

\* An offset behind the end of the ring is one at its beginning.
Slot(i) == IF i >= MbSize THEN i - MbSize ELSE i

\* The n mails of a ring from offset out on.
Ring(pool, out, n) == [i \in 1 .. n |-> pool[Slot(out + (i - 1))]]

\* The offsets and the count of the ring agree.
RingInv ==
  /\ msg_pool \in [0 .. MbSize - 1 -> Mails]
  /\ out_offset \in 0 .. MbSize - 1 /\ entry \in 0 .. MbSize
  /\ in_offset = Slot(out_offset + entry)
  /\ mail \in [Threads -> Mails] /\ got \in [Threads -> Mails]

\* The offsets of the ring wrap around: entry mails behind out_offset is in_offset.
LEMMA SlotIs ==
  ASSUME NEW out \in 0 .. MbSize - 1, NEW i \in 0 .. MbSize
  PROVE  /\ Slot(out + i) \in 0 .. MbSize - 1
         /\ \A j \in 0 .. MbSize - 1 : j < i /\ i < MbSize => Slot(out + j) # Slot(out + i)
         /\ Ahead(out) \in 0 .. MbSize - 1
         /\ i < MbSize => Slot(Ahead(out) + i) = Slot(out + (i + 1))
         /\ i < MbSize => Ahead(Slot(out + i)) = Slot(out + (i + 1))
         /\ i > 0 => /\ Slot(Ahead(out) + (i - 1)) = Slot(out + i)
                     /\ (IF out + i > MbSize THEN out + i - 1 - MbSize ELSE out + i - 1)
                           = Slot(out + (i - 1))
BY MailboxAssumption, SMTT(30) DEF Slot, Ahead

\* What Mailbox!Pool reads from the ring, one mail after the other.
LEMMA RingIs ==
  ASSUME NEW pool \in [0 .. MbSize - 1 -> Mails], NEW out \in 0 .. MbSize - 1,
         NEW n \in 0 .. MbSize
  PROVE  /\ Ring(pool, out, n) \in Seq(Mails) /\ Len(Ring(pool, out, n)) = n
         /\ \A i \in 1 .. n : Ring(pool, out, n)[i] = pool[Slot(out + (i - 1))]
         /\ Ring(pool, out, n) =
              [i \in 1 .. n |-> pool[IF out + i > MbSize THEN out + i - 1 - MbSize
                                                         ELSE out + i - 1]]
<1>1. \A i \in 1 .. n : i \in 0 .. MbSize /\ i > 0 /\ i - 1 \in 0 .. MbSize
  BY MailboxAssumption, SMT
<1>2. \A i \in 1 .. n : pool[Slot(out + (i - 1))] \in Mails
  BY <1>1, SlotIs
<1>3. n \in Nat
  BY MailboxAssumption
<1>4. Ring(pool, out, n) \in [1 .. n -> Mails]
  BY <1>2 DEF Ring
<1>5. Ring(pool, out, n) \in Seq(Mails) /\ Len(Ring(pool, out, n)) = n
  BY <1>3, <1>4, SeqDef, LenProperties
<1>6. \A i \in 1 .. n : (IF out + i > MbSize THEN out + i - 1 - MbSize ELSE out + i - 1)
                           = Slot(out + (i - 1))
  BY <1>1, SlotIs, ZenonT(60)
<1>7. Ring(pool, out, n) =
        [i \in 1 .. n |-> pool[IF out + i > MbSize THEN out + i - 1 - MbSize ELSE out + i - 1]]
  BY <1>6, Zenon DEF Ring
<1> QED
  BY <1>5, <1>7 DEF Ring

\* A mail written at in_offset is the last one of the ring, and changes no other.
LEMMA PutRing ==
  ASSUME NEW pool \in [0 .. MbSize - 1 -> Mails], NEW out \in 0 .. MbSize - 1,
         NEW n \in 0 .. MbSize - 1, NEW m \in Mails
  PROVE  Ring([pool EXCEPT ![Slot(out + n)] = m], out, n + 1) = Append(Ring(pool, out, n), m)
<1> DEFINE r == Ring(pool, out, n)
           p == [pool EXCEPT ![Slot(out + n)] = m]
           q == Ring(p, out, n + 1)
           a == Append(r, m)
<1>1. n \in 0 .. MbSize /\ n + 1 \in 0 .. MbSize /\ n < MbSize /\ n \in Nat /\ (n + 1) - 1 = n
  BY MailboxAssumption, SMT
<1>2. Slot(out + n) \in 0 .. MbSize - 1 /\ p \in [0 .. MbSize - 1 -> Mails] /\ p[Slot(out + n)] = m
  BY <1>1, SlotIs
<1>3. /\ r \in Seq(Mails) /\ Len(r) = n
      /\ \A i \in 1 .. n : r[i] = pool[Slot(out + (i - 1))]
  BY <1>1, RingIs, ZenonT(60)
<1>4. /\ a \in Seq(Mails) /\ Len(a) = n + 1 /\ a[n + 1] = m
      /\ \A i \in 1 .. n : a[i] = r[i]
  BY <1>3, AppendProperties
<1> HIDE DEF r, a, p
<1>5. /\ q \in Seq(Mails) /\ Len(q) = n + 1
      /\ \A i \in 1 .. n + 1 : q[i] = p[Slot(out + (i - 1))]
  BY <1>1, <1>2, RingIs, ZenonT(60)
<1>6. ASSUME NEW i \in 1 .. n + 1
      PROVE  q[i] = a[i]
  <2>1. CASE i = n + 1
    BY <1>1, <1>2, <1>4, <1>5, <2>1
  <2>2. CASE i # n + 1
    <3>1. i \in 1 .. n /\ i - 1 \in 0 .. MbSize - 1 /\ i - 1 < n /\ i - 1 \in 0 .. MbSize
      BY <1>1, <2>2, MailboxAssumption, SMT
    <3>2. Slot(out + (i - 1)) # Slot(out + n) /\ Slot(out + (i - 1)) \in 0 .. MbSize - 1
      BY <1>1, <3>1, SlotIs
    <3>3. p[Slot(out + (i - 1))] = pool[Slot(out + (i - 1))]
      BY <3>2 DEF p
    <3> QED
      BY <1>3, <1>4, <1>5, <3>1, <3>3
  <2> QED
    BY <2>1, <2>2
<1> HIDE DEF q
<1>7. q = a
  BY <1>4, <1>5, <1>6, SeqEqual
<1> QED
  BY <1>7 DEF q, a, p, r

\* The mail at out_offset is the first one of the ring.
LEMMA GetRing ==
  ASSUME NEW pool \in [0 .. MbSize - 1 -> Mails], NEW out \in 0 .. MbSize - 1,
         NEW n \in 1 .. MbSize
  PROVE  /\ Ring(pool, out, n) # <<>> /\ Head(Ring(pool, out, n)) = pool[out]
         /\ Ring(pool, Ahead(out), n - 1) = Tail(Ring(pool, out, n))
<1> DEFINE r == Ring(pool, out, n)
           q == Ring(pool, Ahead(out), n - 1)
<1>1. /\ n \in 0 .. MbSize /\ n - 1 \in 0 .. MbSize /\ 0 \in 0 .. MbSize /\ n \in Nat /\ 1 \in 1 .. n
      /\ out + (1 - 1) = out /\ out + 0 = out /\ Slot(out) = out
  BY MailboxAssumption, SMT DEF Slot
<1>2. Ahead(out) \in 0 .. MbSize - 1
  BY <1>1, SlotIs
<1>3. /\ r \in Seq(Mails) /\ Len(r) = n
      /\ \A i \in 1 .. n : r[i] = pool[Slot(out + (i - 1))]
  BY <1>1, RingIs
<1>4. /\ q \in Seq(Mails) /\ Len(q) = n - 1
      /\ \A i \in 1 .. n - 1 : q[i] = pool[Slot(Ahead(out) + (i - 1))]
  BY <1>1, <1>2, RingIs, ZenonT(60)
<1> HIDE DEF r, q
<1>5. r # <<>> /\ Head(r) = r[1]
  BY <1>1, <1>3, SMT
<1>6. Head(r) = pool[out]
  BY <1>1, <1>3, <1>5
<1>7. /\ Tail(r) \in Seq(Mails) /\ Len(Tail(r)) = n - 1
      /\ \A i \in 1 .. n - 1 : Tail(r)[i] = r[i + 1]
  BY <1>3, <1>5, HeadTailProperties
<1>8. ASSUME NEW i \in 1 .. n - 1
      PROVE  q[i] = Tail(r)[i]
  <2>1. i + 1 \in 1 .. n /\ (i + 1) - 1 = i /\ i \in 0 .. MbSize /\ i > 0
    BY <1>1, MailboxAssumption, SMT
  <2>2. Slot(Ahead(out) + (i - 1)) = Slot(out + i)
    BY <2>1, SlotIs
  <2>3. r[i + 1] = pool[Slot(out + i)]
    BY <1>3, <2>1
  <2> QED
    BY <1>4, <1>7, <2>2, <2>3
<1>9. q = Tail(r)
  BY <1>4, <1>7, <1>8, SeqEqual
<1> QED
  BY <1>5, <1>6, <1>9 DEF r, q

\* rt_mb_send and rt_mb_send_wait put a mail when there is room.
LEMMA DepositPut ==
  ASSUME RingInv, NEW m \in Mails, entry < MbSize, Deposit(m), mail' \in [Threads -> Mails]
  PROVE  RingInv' /\ MailBox!Put(m)
<1>1. /\ entry \in 0 .. MbSize - 1 /\ entry \in 0 .. MbSize /\ entry + 1 \in 0 .. MbSize
  BY MailboxAssumption, SMT DEF RingInv
<1>2. /\ in_offset = Slot(out_offset + entry) /\ in_offset \in 0 .. MbSize - 1
      /\ Ahead(in_offset) = Slot(out_offset + (entry + 1))
      /\ out_offset \in 0 .. MbSize - 1 /\ msg_pool \in [0 .. MbSize - 1 -> Mails]
  BY <1>1, SlotIs DEF RingInv
<1>3. /\ msg_pool' = [msg_pool EXCEPT ![Slot(out_offset + entry)] = m]
      /\ in_offset' = Ahead(in_offset) /\ entry' = entry + 1
      /\ UNCHANGED <<out_offset, got>>
  BY <1>2 DEF Deposit
<1>4. RingInv'
  BY <1>1, <1>2, <1>3 DEF RingInv
<1>5. Ring(msg_pool', out_offset', entry') = Append(Ring(msg_pool, out_offset, entry), m)
  BY <1>1, <1>2, <1>3, PutRing, ZenonT(60)
<1>6. /\ Ring(msg_pool, out_offset, entry) = [i \in 1 .. entry |-> Pool(i)]
      /\ Len(Ring(msg_pool, out_offset, entry)) = entry
  BY <1>1, <1>2, RingIs, ZenonT(60) DEF Pool
<1>7. Ring(msg_pool', out_offset', entry') = [i \in 1 .. entry' |-> Pool(i)']
  <2>1. entry' \in 0 .. MbSize /\ out_offset' \in 0 .. MbSize - 1 /\ msg_pool' \in [0 .. MbSize - 1 -> Mails]
    BY <1>4 DEF RingInv
  <2> QED
    BY <2>1, RingIs DEF Pool
<1> QED
  BY <1>3, <1>4, <1>5, <1>6, <1>7 DEF MailBox!Put

\* rt_mb_recv gets the oldest mail.
LEMMA CollectGet ==
  ASSUME RingInv, NEW t \in Threads, entry > 0, Collect(t), mail' = mail
  PROVE  RingInv' /\ MailBox!Get(t)
<1>1. /\ entry \in 1 .. MbSize /\ entry \in 0 .. MbSize /\ entry - 1 \in 0 .. MbSize
      /\ out_offset \in 0 .. MbSize - 1 /\ msg_pool \in [0 .. MbSize - 1 -> Mails]
  BY MailboxAssumption, SMT DEF RingInv
<1>2. /\ Ahead(out_offset) \in 0 .. MbSize - 1
      /\ Slot(Ahead(out_offset) + (entry - 1)) = Slot(out_offset + entry)
  BY <1>1, SlotIs
<1>3. /\ got' = [got EXCEPT ![t] = msg_pool[out_offset]]
      /\ out_offset' = Ahead(out_offset) /\ entry' = entry - 1
      /\ UNCHANGED <<msg_pool, in_offset>>
  BY DEF Collect
<1>4. RingInv'
  BY <1>1, <1>2, <1>3 DEF RingInv
<1>5. /\ Ring(msg_pool, out_offset, entry) # <<>>
      /\ Head(Ring(msg_pool, out_offset, entry)) = msg_pool[out_offset]
      /\ Ring(msg_pool', out_offset', entry') = Tail(Ring(msg_pool, out_offset, entry))
  BY <1>1, <1>3, GetRing
<1>6. Ring(msg_pool, out_offset, entry) = [i \in 1 .. entry |-> Pool(i)]
  BY <1>1, RingIs DEF Pool
<1>7. Ring(msg_pool', out_offset', entry') = [i \in 1 .. entry' |-> Pool(i)']
  <2>1. entry' \in 0 .. MbSize /\ out_offset' \in 0 .. MbSize - 1 /\ msg_pool' \in [0 .. MbSize - 1 -> Mails]
    BY <1>4 DEF RingInv
  <2> QED
    BY <2>1, RingIs DEF Pool
<1> QED
  BY <1>3, <1>4, <1>5, <1>6, <1>7 DEF MailBox!Get

\* A step that leaves ring and readers alone is none of the queue.
LEMMA MailSame ==
  ASSUME RingInv, UNCHANGED <<msg_pool, in_offset, out_offset, entry, got>>,
         mail' \in [Threads -> Mails]
  PROVE  RingInv' /\ UNCHANGED MailBox!vars
<1>1. RingInv'
  BY DEF RingInv
<1>2. [i \in 1 .. entry |-> Pool(i)]' = [i \in 1 .. entry |-> Pool(i)]
  BY DEF Pool
<1> QED
  BY <1>1, <1>2 DEF MailBox!vars

\* Every step of a sender or a reader, however often it waited, puts one mail,
\* gets one, or changes nothing.
LEMMA MailStep ==
  ASSUME RingInv, NEW t \in Threads, NEW m \in Mails, NEW time,
         \/ MbSend(t, m, time) \/ MbPost(m) \/ MbSendGoesOn(t)
         \/ MbRecv(t, time) \/ MbRecvGoesOn(t)
  PROVE  RingInv' /\ [MailBox!Next]_MailBox!vars
<1>0. /\ entry \in 0 .. MbSize /\ MbSize \in Nat /\ entry \in Nat
      /\ mail \in [Threads -> Mails] /\ mail[t] \in Mails /\ FirstMail \in Mails
  BY MailboxAssumption, SMT DEF RingInv
<1>1. ASSUME NEW n \in Mails, entry < MbSize, Deposit(n), mail' \in [Threads -> Mails]
      PROVE  RingInv' /\ [MailBox!Next]_MailBox!vars
  <2>1. RingInv' /\ MailBox!Put(n)
    BY <1>1, DepositPut
  <2> QED
    BY <2>1 DEF MailBox!Next
<1>2. ASSUME entry > 0, Collect(t), mail' = mail
      PROVE  RingInv' /\ [MailBox!Next]_MailBox!vars
  <2>1. RingInv' /\ MailBox!Get(t)
    BY <1>2, CollectGet
  <2> QED
    BY <2>1 DEF MailBox!Next
<1>3. ASSUME MailStays, mail' \in [Threads -> Mails]
      PROVE  RingInv' /\ [MailBox!Next]_MailBox!vars
  BY <1>3, MailSame DEF MailStays
<1>4. CASE MbSend(t, m, time)
  <2>1. CASE entry < MbSize /\ Deposit(m) /\ UNCHANGED mail
    BY <1>0, <1>1, <2>1
  <2>2. CASE MailStays /\ mail' = [mail EXCEPT ![t] = m]
    BY <1>0, <1>3, <2>2
  <2> QED
    BY <1>4, <2>1, <2>2 DEF MbSend
<1>5. CASE MbPost(m)
  BY <1>0, <1>1, <1>5 DEF MbPost
<1>6. CASE MbSendGoesOn(t)
  <2>1. mail' \in [Threads -> Mails]
    BY <1>0, <1>6 DEF MbSendGoesOn
  <2> QED
    BY <1>0, <1>1, <1>3, <1>6, <2>1 DEF MbSendGoesOn
<1>7. CASE MbRecv(t, time)
  BY <1>0, <1>2, <1>3, <1>7 DEF MbRecv
<1>8. CASE MbRecvGoesOn(t)
  BY <1>0, <1>2, <1>3, <1>8 DEF MbRecvGoesOn
<1> QED
  BY <1>4, <1>5, <1>6, <1>7, <1>8

\* At first the ring and the queue are empty.
LEMMA InitRing == Init => RingInv /\ MailBox!Init
<1> SUFFICES ASSUME Init PROVE RingInv /\ MailBox!Init
  OBVIOUS
<1>1. /\ msg_pool = [i \in 0 .. MbSize - 1 |-> FirstMail]
      /\ in_offset = 0 /\ out_offset = 0 /\ entry = 0
      /\ mail = [t \in Threads |-> FirstMail] /\ got = [t \in Threads |-> FirstMail]
  BY DEF Init, MbInit
<1>2. Slot(0 + 0) = 0 /\ 0 \in 0 .. MbSize - 1 /\ 0 \in 0 .. MbSize
  BY MailboxAssumption, SMT DEF Slot
<1>3. RingInv
  BY <1>1, <1>2, MailboxAssumption DEF RingInv
<1>4. [i \in 1 .. entry |-> Pool(i)] = <<>>
  <2>1. Ring(msg_pool, out_offset, entry) = [i \in 1 .. entry |-> Pool(i)]
    BY <1>3, RingIs DEF Pool, RingInv
  <2>2. Ring(msg_pool, out_offset, entry) \in Seq(Mails) /\ Len(Ring(msg_pool, out_offset, entry)) = 0
    BY <1>1, <1>3, RingIs DEF RingInv
  <2> QED
    BY <2>1, <2>2, EmptySeq
<1> QED
  BY <1>3, <1>4 DEF MailBox!Init, RingInv

\* Every step of the kernel is a step of the queue, or none.
LEMMA NextRing == RingInv /\ [Next]_vars => RingInv' /\ [MailBox!Next]_MailBox!vars
<1> SUFFICES ASSUME RingInv, [Next]_vars PROVE RingInv' /\ [MailBox!Next]_MailBox!vars
  OBVIOUS
<1> PICK one \in Threads : TRUE
  BY ThreadsAssumption
<1>1. ASSUME NEW t \in Threads, CallMailbox(t) \/ MbSendGoesOn(t) \/ MbRecvGoesOn(t)
      PROVE  RingInv' /\ [MailBox!Next]_MailBox!vars
  BY <1>1, MailStep, MailboxAssumption DEF CallMailbox
<1>2. CASE DeviceMail
  BY <1>2, MailStep DEF DeviceMail
<1>3. CASE UNCHANGED mbvars
  <2>1. mail' \in [Threads -> Mails] /\ UNCHANGED <<msg_pool, in_offset, out_offset, entry, got>>
    BY <1>3 DEF mbvars, RingInv
  <2> QED
    BY <2>1, MailSame
<1> QED
  BY <1>1, <1>2, <1>3
     DEF Next, vars, objects, CallSem, CallMutex, CallEvent, CallQueue, CallPool, CallSleep, GoOn,
         DeviceSem, DeviceEvent, EventLoop, DeviceMessage, DevicePool, Clock

\* The mailbox is the bounded queue: every mail is received once, in the order
\* sent, although senders and readers wait, time out and overtake each other.
THEOREM KernelMailFifo == Spec => MailFifo
<1>1. Spec => []RingInv
  BY InitRing, NextRing, PTL DEF Spec
<1> QED
  BY <1>1, InitRing, NextRing, PTL DEF Spec, MailFifo, MailBox!Spec

-----------------------------------------------------------------------------
(* The message queue.                                                      *)

\* The messages of a queue of slots.
View(q, c) == [i \in DOMAIN q |-> c[q[i]]]

\* The two parts of calls that hold a slot.
Copying == {"fill", "copy"}

\* The slots, and what is in them.
SlotType ==
  /\ op \in [Threads -> Ops]
  /\ mq_free \in Seq(Range(Slots)) /\ IsInjective(mq_free)
  /\ mq_queue \in Seq(Range(Slots)) /\ IsInjective(mq_queue)
  /\ content \in [Range(Slots) -> Messages]
  /\ slot \in [Threads -> Range(Slots) \cup {0}]
  /\ message \in [Threads -> Messages \X BOOLEAN]
  /\ read \in [Threads -> Messages]

\* A slot is free, or queued, or held by one thread that copies it.
SlotsApart ==
  /\ Range(mq_free) \cap Range(mq_queue) = {}
  /\ \A t \in Threads : op[t] \in Copying =>
       slot[t] \in Range(Slots) /\ slot[t] \notin Range(mq_free) /\ slot[t] \notin Range(mq_queue)
  /\ \A t, u \in Threads :
       op[t] \in Copying /\ op[u] \in Copying /\ slot[t] = slot[u] => t = u

\* What the refinement needs of a state.
SlotInv == SlotType /\ SlotsApart

\* A call that does not copy begins, waits or ends.
OpMoves ==
  \/ op' = op
  \/ \E t \in Threads, x \in Lists \cup {"none", "sleep"} :
       op[t] \notin Copying /\ op' = [op EXCEPT ![t] = x]

\* Taking the head off a list without duplicates takes just that element.
LEMMA TailRange ==
  ASSUME NEW S, NEW s \in Seq(S), s # <<>>, IsInjective(s)
  PROVE  /\ Tail(s) \in Seq(S) /\ IsInjective(Tail(s))
         /\ Head(s) \in Range(s) /\ Head(s) \in S
         /\ Range(Tail(s)) = Range(s) \ {Head(s)}
<1>1. Head(s) \in Range(s) /\ Head(s) = s[1] /\ 1 \in 1 .. Len(s)
  BY HeadInRange
<1>2. Tail(s) = RemoveAt(s, 1)
  BY TailIs
<1>3. IsInjective(RemoveAt(s, 1)) /\ Range(RemoveAt(s, 1)) = Range(s) \ {s[1]}
  BY <1>1, RemoveAtRange
<1>4. Tail(s) \in Seq(S) /\ Head(s) \in S
  BY HeadTailProperties
<1> QED
  BY <1>1, <1>2, <1>3, <1>4

\* An element put in front of a list moves the others up.
LEMMA PushIs ==
  ASSUME NEW S, NEW s \in Seq(S), NEW e \in S
  PROVE  /\ <<e>> \o s \in Seq(S) /\ Len(<<e>> \o s) = Len(s) + 1
         /\ (<<e>> \o s)[1] = e
         /\ \A i \in 1 .. Len(s) : (<<e>> \o s)[i + 1] = s[i]
         /\ Range(<<e>> \o s) = Range(s) \cup {e}
         /\ IsInjective(s) /\ e \notin Range(s) => IsInjective(<<e>> \o s)
<1> DEFINE r == <<e>> \o s
<1>1. r = InsertAt(s, 1, e)
  <2>1. SubSeq(s, 1, 0) = <<>> /\ SubSeq(s, 1, Len(s)) = s
    BY SubSeqEmpty, SubSeqFull
  <2>2. InsertAt(s, 1, e) = (SubSeq(s, 1, 0) \o <<e>>) \o SubSeq(s, 1, Len(s))
    BY SMT DEF InsertAt
  <2>3. <<>> \o <<e>> = <<e>>
    BY ConcatEmptySeq
  <2> QED
    BY <2>1, <2>2, <2>3
<1>2. Len(s) \in Nat /\ 1 \in 1 .. Len(s) + 1
  BY LenProperties
<1>3. /\ r \in Seq(S) /\ Len(r) = Len(s) + 1
      /\ \A j \in 1 .. Len(s) + 1 : r[j] = IF j < 1 THEN s[j] ELSE IF j = 1 THEN e ELSE s[j-1]
  BY <1>1, <1>2, InsertAtIs
<1>4. Range(r) = Range(s) \cup {e} /\ (IsInjective(s) /\ e \notin Range(s) => IsInjective(r))
  <2>1. /\ Range(InsertAt(s, 1, e)) = Range(s) \cup {e}
        /\ IsInjective(s) /\ e \notin Range(s) => IsInjective(InsertAt(s, 1, e))
    BY <1>2, InsertAtRange
  <2> QED
    BY <1>1, <2>1
<1> HIDE DEF r
<1>5. r[1] = e /\ \A i \in 1 .. Len(s) : r[i + 1] = s[i]
  BY <1>2, <1>3, SMT
<1> QED
  BY <1>3, <1>4, <1>5 DEF r

\* The contents of the slots of a queue are a sequence of messages.
LEMMA ViewIs ==
  ASSUME NEW S, NEW q \in Seq(S), NEW c \in [S -> Messages]
  PROVE  /\ View(q, c) \in Seq(Messages) /\ Len(View(q, c)) = Len(q)
         /\ \A i \in 1 .. Len(q) : q[i] \in S /\ q[i] \in Range(q) /\ View(q, c)[i] = c[q[i]]
<1>1. DOMAIN q = 1 .. Len(q) /\ Len(q) \in Nat
  BY LenProperties
<1>2. \A i \in 1 .. Len(q) : q[i] \in S /\ q[i] \in Range(q)
  BY <1>1, ElementOfSeq DEF Range
<1>3. View(q, c) \in [1 .. Len(q) -> Messages]
  BY <1>1, <1>2 DEF View
<1>4. View(q, c) \in Seq(Messages) /\ Len(View(q, c)) = Len(q)
  BY <1>1, <1>3, SeqDef, LenProperties
<1> QED
  BY <1>1, <1>2, <1>4 DEF View

\* A slot that was in no list, written and linked behind the queue, adds its
\* message at the end.
LEMMA ViewAppend ==
  ASSUME NEW S, NEW q \in Seq(S), NEW c \in [S -> Messages], NEW s \in S, s \notin Range(q),
         NEW d \in [S -> Messages], \A x \in S : x # s => d[x] = c[x]
  PROVE  View(Append(q, s), d) = Append(View(q, c), d[s])
<1> DEFINE p == Append(q, s)
           v == View(q, c)
           a == Append(v, d[s])
<1>0. Len(q) \in Nat /\ \A i \in 1 .. Len(q) : q[i] \in S /\ d[q[i]] = c[q[i]]
  <2>1. Len(q) \in Nat /\ \A i \in 1 .. Len(q) : q[i] \in S /\ q[i] \in Range(q)
    BY ViewIs, LenProperties
  <2> QED
    BY <2>1
<1>1. /\ p \in Seq(S) /\ Len(p) = Len(q) + 1 /\ p[Len(q) + 1] = s
      /\ \A i \in 1 .. Len(q) : p[i] = q[i]
  BY AppendProperties
<1>2. /\ v \in Seq(Messages) /\ Len(v) = Len(q)
      /\ \A i \in 1 .. Len(q) : v[i] = c[q[i]]
  BY ViewIs
<1> HIDE DEF p, v
<1>3. /\ a \in Seq(Messages) /\ Len(a) = Len(q) + 1 /\ a[Len(q) + 1] = d[s]
      /\ \A i \in 1 .. Len(q) : a[i] = v[i]
  BY <1>2, AppendProperties
<1>4. /\ View(p, d) \in Seq(Messages) /\ Len(View(p, d)) = Len(p)
      /\ \A i \in 1 .. Len(p) : View(p, d)[i] = d[p[i]]
  BY <1>1, ViewIs
<1> HIDE DEF a
<1>5. \A i \in 1 .. Len(q) + 1 : i \in 1 .. Len(q) \/ i = Len(q) + 1
  BY <1>0, SMT
<1>6. ASSUME NEW i \in 1 .. Len(a) PROVE View(p, d)[i] = a[i]
  <2>1. CASE i = Len(q) + 1
    BY <1>1, <1>3, <1>4, <2>1
  <2>2. CASE i \in 1 .. Len(q)
    BY <1>0, <1>1, <1>2, <1>3, <1>4, <2>2
  <2> QED
    BY <1>3, <1>5, <2>1, <2>2
<1>7. View(p, d) = a
  BY <1>1, <1>3, <1>4, <1>6, SeqEqual
<1> QED
  BY <1>7 DEF p, v, a

\* The same slot linked in front adds its message at the beginning.
LEMMA ViewPush ==
  ASSUME NEW S, NEW q \in Seq(S), NEW c \in [S -> Messages], NEW s \in S, s \notin Range(q),
         NEW d \in [S -> Messages], \A x \in S : x # s => d[x] = c[x]
  PROVE  View(<<s>> \o q, d) = <<d[s]>> \o View(q, c)
<1> DEFINE p == <<s>> \o q
           v == View(q, c)
           a == <<d[s]>> \o v
<1>0. Len(q) \in Nat /\ \A i \in 1 .. Len(q) : q[i] \in S /\ d[q[i]] = c[q[i]]
  <2>1. Len(q) \in Nat /\ \A i \in 1 .. Len(q) : q[i] \in S /\ q[i] \in Range(q)
    BY ViewIs, LenProperties
  <2> QED
    BY <2>1
<1>1. /\ p \in Seq(S) /\ Len(p) = Len(q) + 1 /\ p[1] = s
      /\ \A i \in 1 .. Len(q) : p[i + 1] = q[i]
  BY PushIs
<1>2. /\ v \in Seq(Messages) /\ Len(v) = Len(q)
      /\ \A i \in 1 .. Len(q) : v[i] = c[q[i]]
  BY ViewIs
<1> HIDE DEF p, v
<1>3. /\ a \in Seq(Messages) /\ Len(a) = Len(q) + 1 /\ a[1] = d[s]
      /\ \A i \in 1 .. Len(q) : a[i + 1] = v[i]
  BY <1>2, PushIs
<1>4. /\ View(p, d) \in Seq(Messages) /\ Len(View(p, d)) = Len(p)
      /\ \A i \in 1 .. Len(p) : View(p, d)[i] = d[p[i]]
  BY <1>1, ViewIs
<1> HIDE DEF a
<1>5. \A i \in 1 .. Len(q) + 1 : i = 1 \/ \E j \in 1 .. Len(q) : i = j + 1
  <2> SUFFICES ASSUME NEW i \in 1 .. Len(q) + 1, i # 1 PROVE \E j \in 1 .. Len(q) : i = j + 1
    OBVIOUS
  <2>1. i - 1 \in 1 .. Len(q) /\ i = (i - 1) + 1
    BY <1>0, SMT
  <2> QED
    BY <2>1
<1>6. ASSUME NEW i \in 1 .. Len(a) PROVE View(p, d)[i] = a[i]
  <2>1. CASE i = 1
    BY <1>1, <1>3, <1>4, <2>1
  <2>2. ASSUME NEW j \in 1 .. Len(q), i = j + 1 PROVE View(p, d)[i] = a[i]
    <3>1. View(p, d)[j + 1] = d[p[j + 1]] /\ p[j + 1] = q[j] /\ a[j + 1] = c[q[j]]
      BY <1>1, <1>2, <1>3, <1>4, <2>2
    <3> QED
      BY <1>0, <2>2, <3>1
  <2> QED
    BY <1>3, <1>5, <2>1, <2>2
<1>7. View(p, d) = a
  BY <1>1, <1>3, <1>4, <1>6, SeqEqual
<1> QED
  BY <1>7 DEF p, v, a

\* Unlinking the first slot removes the first message.
LEMMA ViewTail ==
  ASSUME NEW S, NEW q \in Seq(S), NEW c \in [S -> Messages], q # <<>>
  PROVE  /\ View(q, c) # <<>> /\ Head(View(q, c)) = c[Head(q)]
         /\ View(Tail(q), c) = Tail(View(q, c))
<1> DEFINE v == View(q, c)
           p == Tail(q)
<1>0. Len(q) \in Nat /\ Len(q) > 0 /\ 1 \in 1 .. Len(q) /\ Head(q) = q[1]
  BY LenProperties, EmptySeq, SMT
<1>1. /\ v \in Seq(Messages) /\ Len(v) = Len(q)
      /\ \A i \in 1 .. Len(q) : v[i] = c[q[i]]
  BY ViewIs
<1>2. /\ p \in Seq(S) /\ Len(p) = Len(q) - 1
      /\ \A i \in 1 .. Len(p) : p[i] = q[i + 1]
  BY HeadTailProperties
<1> HIDE DEF v, p
<1>3. v # <<>> /\ Head(v) = v[1]
  BY <1>0, <1>1, SMT
<1>4. /\ Tail(v) \in Seq(Messages) /\ Len(Tail(v)) = Len(q) - 1
      /\ \A i \in 1 .. Len(q) - 1 : Tail(v)[i] = v[i + 1]
  BY <1>1, <1>3, HeadTailProperties
<1>5. /\ View(p, c) \in Seq(Messages) /\ Len(View(p, c)) = Len(p)
      /\ \A i \in 1 .. Len(p) : View(p, c)[i] = c[p[i]]
  BY <1>2, ViewIs, SMTT(60)
<1>6. \A i \in 1 .. Len(q) - 1 : i + 1 \in 1 .. Len(q)
  BY <1>0, SMT
<1>7. \A i \in 1 .. Len(q) - 1 : View(p, c)[i] = Tail(v)[i]
  BY <1>1, <1>2, <1>4, <1>5, <1>6
<1>8. View(p, c) = Tail(v)
  BY <1>2, <1>4, <1>5, <1>7, SeqEqual
<1> QED
  BY <1>0, <1>1, <1>3, <1>8 DEF v, p

\* While a slot is outside the queue, the queue is not full.
LEMMA RoomIs ==
  ASSUME NEW q \in Seq(Range(Slots)), IsInjective(q), NEW s \in Range(Slots) \ Range(q)
  PROVE  Len(q) < Len(Slots)
<1> DEFINE I == 1 .. Len(Slots)
           J == 1 .. Len(q)
           R == Range(Slots) \ {s}
<1>0. /\ Slots \in Seq(Nat \ {0}) /\ DOMAIN Slots = I /\ Len(Slots) \in Nat
      /\ DOMAIN q = J /\ Len(q) \in Nat /\ IsInjective(Slots)
  BY MessageQueueAssumption, LenProperties
<1>1. IsFiniteSet(I) /\ Cardinality(I) = Len(Slots) /\ IsFiniteSet(J) /\ Cardinality(J) = Len(q)
  <2>1. 1 \in Int /\ Len(Slots) \in Int /\ Len(q) \in Int
    BY <1>0
  <2>2. /\ IsFiniteSet(I) /\ Cardinality(I) = IF 1 > Len(Slots) THEN 0 ELSE Len(Slots) - 1 + 1
        /\ IsFiniteSet(J) /\ Cardinality(J) = IF 1 > Len(q) THEN 0 ELSE Len(q) - 1 + 1
    BY <2>1, FS_Interval
  <2> HIDE DEF I, J
  <2> QED
    BY <1>0, <2>2, SMT
<1>2. Slots \in Surjection(I, Range(Slots))
  BY <1>0 DEF Surjection, Range
<1>3. IsFiniteSet(Range(Slots)) /\ Cardinality(Range(Slots)) <= Len(Slots)
  BY <1>1, <1>2, FS_Surjection
<1>4. /\ IsFiniteSet(R) /\ Cardinality(R) = Cardinality(Range(Slots)) - 1
      /\ Cardinality(Range(Slots)) \in Nat
  BY <1>3, FS_RemoveElement, FS_CardinalityType
<1>5. q \in Injection(J, R)
  <2>1. \A i \in J : q[i] \in Range(q) /\ q[i] \in Range(Slots)
    BY <1>0, ElementOfSeq DEF Range
  <2>2. q \in [J -> R]
    BY <1>0, <2>1
  <2> QED
    BY <1>0, <2>2 DEF Injection, IsInjective
<1>6. Cardinality(J) <= Cardinality(R)
  BY <1>4, <1>5, FS_Injection
<1> HIDE DEF R, J, I
<1> QED
  BY <1>0, <1>1, <1>3, <1>4, <1>6, SMT

\* What every receiver has read, or has the slot of.
Got == [t \in Threads |-> IF op[t] = "copy" THEN content[slot[t]] ELSE read[t]]

\* The steps of the abstract queue, said of the view.
LEMMA QueueIs ==
  /\ View(mq_queue, content)' = View(mq_queue, content) /\ Got' = Got => UNCHANGED Queue!vars
  /\ \A m : Queue!Put(m) <=>
       /\ Len(View(mq_queue, content)) < Len(Slots)
       /\ View(mq_queue, content)' = Append(View(mq_queue, content), m) /\ Got' = Got
  /\ \A m : Queue!Push(m) <=>
       /\ Len(View(mq_queue, content)) < Len(Slots)
       /\ View(mq_queue, content)' = <<m>> \o View(mq_queue, content) /\ Got' = Got
  /\ \A t : Queue!Get(t) <=>
       /\ View(mq_queue, content) # <<>>
       /\ Got' = [Got EXCEPT ![t] = Head(View(mq_queue, content))]
       /\ View(mq_queue, content)' = Tail(View(mq_queue, content))
BY DEF Queue!vars, Queue!Put, Queue!Push, Queue!Get, View, Got

\* A step that leaves the slots alone, and no thread begins or ends to copy.
LEMMA SlotKeeps ==
  ASSUME SlotInv, OpMoves, UNCHANGED mqvars
  PROVE  SlotInv' /\ UNCHANGED Queue!vars
<1>1. /\ UNCHANGED <<mq_free, mq_queue, content, slot, message, read>>
      /\ op \in [Threads -> Ops]
  BY DEF mqvars, SlotInv, SlotType
<1>2. /\ op' \in [Threads -> Ops]
      /\ \A t \in Threads : (op'[t] \in Copying \/ op[t] \in Copying) => op'[t] = op[t]
  BY <1>1, ThreadsAssumption DEF OpMoves, Copying, Ops
<1>3. SlotInv'
  BY <1>1, <1>2 DEF SlotInv, SlotType, SlotsApart
<1>4. \A t \in Threads : op'[t] = "copy" <=> op[t] = "copy"
  BY <1>2 DEF Copying
<1>5. Got' = Got
  BY <1>1, <1>4 DEF Got
<1>6. View(mq_queue, content)' = View(mq_queue, content)
  BY <1>1 DEF View
<1> QED
  BY <1>3, <1>5, <1>6, QueueIs

\* rt_mq_send takes a slot off the free list: no message is queued yet.
LEMMA SendSlot ==
  ASSUME SlotInv, NEW t \in Threads, NEW m \in Messages, NEW urgent \in BOOLEAN,
         MqSend(t, m, urgent)
  PROVE  SlotInv' /\ UNCHANGED Queue!vars
<1> DEFINE h == Head(mq_free)
<1>1. /\ op[t] = "none" /\ op' = [op EXCEPT ![t] = "fill"]
      /\ mq_free # <<>> /\ mq_free' = Tail(mq_free) /\ slot' = [slot EXCEPT ![t] = h]
      /\ message' = [message EXCEPT ![t] = <<m, urgent>>]
      /\ UNCHANGED <<mq_queue, content, read>>
  BY DEF MqSend, Calls
<1>2. /\ mq_free' \in Seq(Range(Slots)) /\ IsInjective(mq_free')
      /\ h \in Range(mq_free) /\ h \in Range(Slots) /\ Range(mq_free') = Range(mq_free) \ {h}
  BY <1>1, TailRange DEF SlotInv, SlotType
<1> HIDE DEF h
<1>3. SlotType'
  BY <1>1, <1>2 DEF SlotInv, SlotType, Ops
<1>4. h \notin Range(mq_queue)
  BY <1>2 DEF SlotInv, SlotsApart
<1>5. SlotsApart'
  <2>1. \A u \in Threads : u # t => op'[u] = op[u] /\ slot'[u] = slot[u]
    BY <1>1 DEF SlotInv, SlotType
  <2>2. op'[t] = "fill" /\ slot'[t] = h
    BY <1>1 DEF SlotInv, SlotType
  <2>3. \A u \in Threads : u # t /\ op'[u] \in Copying => slot'[u] # h
    BY <1>2, <2>1 DEF SlotInv, SlotsApart
  <2> QED
    BY <1>1, <1>2, <1>4, <2>1, <2>2, <2>3 DEF SlotInv, SlotsApart
<1>6. Got' = Got
  <2>1. \A u \in Threads : (op'[u] = "copy" <=> op[u] = "copy") /\ (op[u] = "copy" => slot'[u] = slot[u])
    BY <1>1 DEF SlotInv, SlotType
  <2> QED
    BY <1>1, <2>1 DEF Got
<1>7. View(mq_queue, content)' = View(mq_queue, content)
  BY <1>1 DEF View
<1> QED
  BY <1>3, <1>5, <1>6, <1>7, QueueIs DEF SlotInv

\* A written slot linked into the queue is one message put or pushed.
LEMMA LinkedIs ==
  ASSUME SlotInv, NEW s \in Range(Slots), s \notin Range(mq_queue),
         NEW urgent \in BOOLEAN, content' \in [Range(Slots) -> Messages],
         \A x \in Range(Slots) : x # s => content'[x] = content[x],
         mq_queue' = Linked(s, urgent), Got' = Got
  PROVE  /\ mq_queue' \in Seq(Range(Slots)) /\ IsInjective(mq_queue')
         /\ Range(mq_queue') = Range(mq_queue) \cup {s}
         /\ \E m \in Messages : Queue!Put(m) \/ Queue!Push(m)
<1>1. /\ mq_queue \in Seq(Range(Slots)) /\ IsInjective(mq_queue)
      /\ content \in [Range(Slots) -> Messages]
  BY DEF SlotInv, SlotType
<1>2. Len(View(mq_queue, content)) < Len(Slots)
  BY <1>1, RoomIs, ViewIs
<1>3. PICK d \in [Range(Slots) -> Messages] : d = content'
  OBVIOUS
<1>4. /\ View(Append(mq_queue, s), d) = Append(View(mq_queue, content), d[s])
      /\ View(<<s>> \o mq_queue, d) = <<d[s]>> \o View(mq_queue, content)
  <2>1. \A x \in Range(Slots) : x # s => d[x] = content[x]
    BY <1>3
  <2>2. View(Append(mq_queue, s), d) = Append(View(mq_queue, content), d[s])
    BY <1>1, <2>1, ViewAppend
  <2>3. View(<<s>> \o mq_queue, d) = <<d[s]>> \o View(mq_queue, content)
    BY <1>1, <2>1, ViewPush, SMTT(60)
  <2> QED
    BY <2>2, <2>3
<1> DEFINE m == d[s]
<1>7. m \in Messages
  OBVIOUS
<1> HIDE DEF m
<1>5. CASE urgent
  <2>1. mq_queue' = <<s>> \o mq_queue
    BY <1>5 DEF Linked
  <2>2. /\ mq_queue' \in Seq(Range(Slots)) /\ IsInjective(mq_queue')
        /\ Range(mq_queue') = Range(mq_queue) \cup {s}
    BY <1>1, <2>1, PushIs
  <2>3. View(mq_queue, content)' = <<m>> \o View(mq_queue, content)
    BY <1>3, <1>4, <2>1 DEF View, m
  <2>4. Queue!Put(m) \/ Queue!Push(m)
    BY <1>2, <2>3, QueueIs
  <2> QED
    BY <1>7, <2>2, <2>4
<1>6. CASE ~ urgent
  <2>1. mq_queue' = Append(mq_queue, s)
    BY <1>6 DEF Linked
  <2>2. /\ mq_queue' \in Seq(Range(Slots)) /\ IsInjective(mq_queue')
        /\ Range(mq_queue') = Range(mq_queue) \cup {s}
    BY <1>1, <2>1, AppendRange
  <2>3. View(mq_queue, content)' = Append(View(mq_queue, content), m)
    BY <1>3, <1>4, <2>1 DEF View, m
  <2>4. Queue!Put(m) \/ Queue!Push(m)
    BY <1>2, <2>3, QueueIs
  <2> QED
    BY <1>7, <2>2, <2>4
<1> QED
  BY <1>5, <1>6

\* rt_mq_send and rt_mq_urgent copy the message and link the slot.
LEMMA LinkSlot ==
  ASSUME SlotInv, NEW t \in Threads, MqLink(t)
  PROVE  SlotInv' /\ \E n \in Messages : Queue!Put(n) \/ Queue!Push(n)
<1> DEFINE s == slot[t]
           m == message[t][1]
           urgent == message[t][2]
<1>1. /\ op[t] = "fill" /\ op' = [op EXCEPT ![t] = "none"]
      /\ content' = [content EXCEPT ![s] = m]
      /\ mq_queue' = Linked(s, urgent)
      /\ slot' = [slot EXCEPT ![t] = 0] /\ message' = [message EXCEPT ![t] = NoMessage]
      /\ UNCHANGED <<mq_free, read>>
  BY DEF MqLink, Returns, Leave
<1>2. message[t] \in Messages \X BOOLEAN /\ FirstMessage \in Messages
  BY MessageQueueAssumption DEF SlotInv, SlotType
<1>3. /\ s \in Range(Slots) /\ s \notin Range(mq_queue) /\ s \notin Range(mq_free)
      /\ m \in Messages /\ urgent \in BOOLEAN
  BY <1>1, <1>2 DEF SlotInv, SlotsApart, Copying
<1>4. /\ \A u \in Threads : u # t => op'[u] = op[u] /\ slot'[u] = slot[u]
      /\ op'[t] = "none"
      /\ \A u \in Threads : u # t /\ op[u] \in Copying => slot[u] # s
  BY <1>1 DEF SlotInv, SlotType, SlotsApart, Copying
<1> HIDE DEF s, m, urgent
<1>5. Got' = Got
  <2>1. \A u \in Threads : (op'[u] = "copy" <=> op[u] = "copy")
    BY <1>1, <1>4
  <2>2. \A u \in Threads : op[u] = "copy" => u # t /\ slot'[u] = slot[u] /\ slot[u] # s /\ slot[u] \in Range(Slots)
    BY <1>1, <1>4 DEF Copying, SlotInv, SlotsApart
  <2>3. \A u \in Threads : op[u] = "copy" => content'[slot'[u]] = content[slot[u]]
    BY <1>1, <2>2 DEF SlotInv, SlotType
  <2> QED
    BY <1>1, <2>1, <2>3 DEF Got
<1>6. /\ mq_queue' \in Seq(Range(Slots)) /\ IsInjective(mq_queue')
      /\ Range(mq_queue') = Range(mq_queue) \cup {s}
      /\ content' \in [Range(Slots) -> Messages] /\ content'[s] = m
      /\ \E n \in Messages : Queue!Put(n) \/ Queue!Push(n)
  <2>1. /\ content' \in [Range(Slots) -> Messages] /\ content'[s] = m
        /\ \A x \in Range(Slots) : x # s => content'[x] = content[x]
    BY <1>1, <1>3 DEF SlotInv, SlotType
  <2>2. mq_queue' = Linked(s, urgent)
    BY <1>1
  <2>3. /\ mq_queue' \in Seq(Range(Slots)) /\ IsInjective(mq_queue')
        /\ Range(mq_queue') = Range(mq_queue) \cup {s}
        /\ \E n \in Messages : Queue!Put(n) \/ Queue!Push(n)
    BY <1>3, <1>5, <2>1, <2>2, LinkedIs
  <2> QED
    BY <2>1, <2>3
<1>7. SlotType'
  BY <1>1, <1>2, <1>6 DEF SlotInv, SlotType, NoMessage, Ops
<1>8. SlotsApart'
  <2>1. "none" \notin Copying
    BY DEF Copying
  <2>2. \A u \in Threads : op'[u] \in Copying => u # t /\ op[u] \in Copying /\ slot'[u] = slot[u] /\ slot[u] # s
    BY <1>4, <2>1
  <2> QED
    BY <1>1, <1>3, <1>6, <2>2 DEF SlotInv, SlotsApart
<1>9. SlotInv'
  BY <1>7, <1>8 DEF SlotInv
<1> QED
  BY <1>6, <1>9

\* The same from an interrupt handler, which is not interrupted itself.
LEMMA PostSlot ==
  ASSUME SlotInv, NEW m \in Messages, NEW urgent \in BOOLEAN, MqPost(m, urgent)
  PROVE  SlotInv' /\ \E n \in Messages : Queue!Put(n) \/ Queue!Push(n)
<1> DEFINE s == Head(mq_free)
<1>1. /\ mq_free # <<>> /\ mq_free' = Tail(mq_free)
      /\ content' = [content EXCEPT ![s] = m] /\ mq_queue' = Linked(s, urgent)
      /\ UNCHANGED <<op, slot, message, read>>
  BY DEF MqPost
<1>2. /\ mq_free' \in Seq(Range(Slots)) /\ IsInjective(mq_free')
      /\ s \in Range(mq_free) /\ s \in Range(Slots) /\ Range(mq_free') = Range(mq_free) \ {s}
  BY <1>1, TailRange DEF SlotInv, SlotType
<1> HIDE DEF s
<1>3. s \notin Range(mq_queue) /\ \A u \in Threads : op[u] \in Copying => slot[u] # s
  BY <1>2 DEF SlotInv, SlotsApart
<1>4. Got' = Got
  <2>1. \A u \in Threads : op[u] = "copy" => slot[u] # s /\ slot[u] \in Range(Slots)
    BY <1>3 DEF Copying, SlotInv, SlotsApart
  <2>2. \A u \in Threads : op[u] = "copy" => content'[slot[u]] = content[slot[u]]
    BY <1>1, <2>1 DEF SlotInv, SlotType
  <2> QED
    BY <1>1, <2>2 DEF Got
<1>5. /\ mq_queue' \in Seq(Range(Slots)) /\ IsInjective(mq_queue')
      /\ Range(mq_queue') = Range(mq_queue) \cup {s}
      /\ content' \in [Range(Slots) -> Messages] /\ content'[s] = m
      /\ \E n \in Messages : Queue!Put(n) \/ Queue!Push(n)
  <2>1. /\ content' \in [Range(Slots) -> Messages] /\ content'[s] = m
        /\ \A x \in Range(Slots) : x # s => content'[x] = content[x]
    BY <1>1, <1>2 DEF SlotInv, SlotType
  <2>2. mq_queue' = Linked(s, urgent)
    BY <1>1
  <2>3. /\ mq_queue' \in Seq(Range(Slots)) /\ IsInjective(mq_queue')
        /\ Range(mq_queue') = Range(mq_queue) \cup {s}
        /\ \E n \in Messages : Queue!Put(n) \/ Queue!Push(n)
    BY <1>2, <1>3, <1>4, <2>1, <2>2, LinkedIs
  <2> QED
    BY <2>1, <2>3
<1>6. SlotType'
  BY <1>1, <1>2, <1>5 DEF SlotInv, SlotType
<1>7. SlotsApart'
  BY <1>1, <1>2, <1>3, <1>5 DEF SlotInv, SlotsApart
<1> QED
  BY <1>5, <1>6, <1>7 DEF SlotInv

\* rt_mq_recv unlinks the first slot: that message is its, whatever is sent
\* before it has copied it.
LEMMA UnlinkSlot ==
  ASSUME SlotInv, NEW t \in Threads, op[t] \notin Copying, mq_queue # <<>>, MqUnlink(t)
  PROVE  SlotInv' /\ Queue!Get(t)
<1> DEFINE h == Head(mq_queue)
<1>1. /\ op' = [op EXCEPT ![t] = "copy"] /\ slot' = [slot EXCEPT ![t] = h]
      /\ mq_queue' = Tail(mq_queue)
      /\ UNCHANGED <<mq_free, content, message, read>>
  BY DEF MqUnlink
<1>2. /\ mq_queue' \in Seq(Range(Slots)) /\ IsInjective(mq_queue')
      /\ h \in Range(mq_queue) /\ h \in Range(Slots) /\ Range(mq_queue') = Range(mq_queue) \ {h}
  BY <1>1, TailRange DEF SlotInv, SlotType
<1>3. /\ View(mq_queue, content) # <<>> /\ Head(View(mq_queue, content)) = content[h]
      /\ View(Tail(mq_queue), content) = Tail(View(mq_queue, content))
  BY ViewTail DEF SlotInv, SlotType
<1>4. View(mq_queue, content)' = Tail(View(mq_queue, content))
  BY <1>1, <1>3 DEF View
<1> HIDE DEF h
<1>5. h \notin Range(mq_free)
  BY <1>2 DEF SlotInv, SlotsApart
<1>6. SlotType'
  BY <1>1, <1>2 DEF SlotInv, SlotType, Ops
<1>7. /\ \A u \in Threads : u # t => op'[u] = op[u] /\ slot'[u] = slot[u]
      /\ op'[t] = "copy" /\ slot'[t] = h
  BY <1>1 DEF SlotInv, SlotType
<1>8. SlotsApart'
  <2>1. \A u \in Threads : u # t /\ op'[u] \in Copying => slot'[u] # h
    BY <1>2, <1>7 DEF SlotInv, SlotsApart
  <2> QED
    BY <1>1, <1>2, <1>5, <1>7, <2>1 DEF SlotInv, SlotsApart
<1>9. Got' = [Got EXCEPT ![t] = content[h]]
  <2>1. \A u \in Threads : u # t => (op'[u] = "copy" <=> op[u] = "copy") /\ slot'[u] = slot[u]
    BY <1>7
  <2> QED
    <3>1. \A u \in Threads : (IF op'[u] = "copy" THEN content[slot'[u]] ELSE read[u])
                             = IF u = t THEN content[h] ELSE Got[u]
      BY <1>7, <2>1 DEF Got
    <3>2. Got' = [u \in Threads |-> IF u = t THEN content[h] ELSE Got[u]]
      BY <1>1, <3>1 DEF Got
    <3>3. [Got EXCEPT ![t] = content[h]] = [u \in Threads |-> IF u = t THEN content[h] ELSE Got[u]]
      BY DEF Got
    <3> QED
      BY <3>2, <3>3
<1> QED
  BY <1>3, <1>4, <1>6, <1>8, <1>9, QueueIs DEF SlotInv

\* rt_mq_recv copies the message and gives the slot back.
LEMMA FreeSlot ==
  ASSUME SlotInv, NEW t \in Threads, MqFree(t)
  PROVE  SlotInv' /\ UNCHANGED Queue!vars
<1> DEFINE s == slot[t]
<1>1. /\ op[t] = "copy" /\ op' = [op EXCEPT ![t] = "none"]
      /\ read' = [read EXCEPT ![t] = content[s]]
      /\ mq_free' = <<s>> \o mq_free /\ slot' = [slot EXCEPT ![t] = 0]
      /\ UNCHANGED <<mq_queue, content, message>>
  BY DEF MqFree, Returns, Leave
<1>2. s \in Range(Slots) /\ s \notin Range(mq_free) /\ s \notin Range(mq_queue)
  BY <1>1 DEF SlotInv, SlotsApart, Copying
<1>3. /\ \A u \in Threads : u # t => op'[u] = op[u] /\ slot'[u] = slot[u]
      /\ op'[t] = "none"
      /\ \A u \in Threads : u # t /\ op[u] \in Copying => slot[u] # s
  BY <1>1 DEF SlotInv, SlotType, SlotsApart, Copying
<1>4. Got' = Got
  <2>1. \A u \in Threads : u # t => (op'[u] = "copy" <=> op[u] = "copy") /\ slot'[u] = slot[u] /\ read'[u] = read[u]
    BY <1>1, <1>3 DEF SlotInv, SlotType
  <2>2. read'[t] = content[s]
    BY <1>1 DEF SlotInv, SlotType
  <2> QED
    BY <1>1, <1>3, <2>1, <2>2 DEF Got
<1> HIDE DEF s
<1>5. /\ mq_free' \in Seq(Range(Slots)) /\ IsInjective(mq_free')
      /\ Range(mq_free') = Range(mq_free) \cup {s}
  BY <1>1, <1>2, PushIs DEF SlotInv, SlotType
<1>6. SlotType'
  <2>1. content[s] \in Messages
    BY <1>2 DEF SlotInv, SlotType
  <2> QED
    BY <1>1, <1>5, <2>1 DEF SlotInv, SlotType, Ops
<1>7. SlotsApart'
  <2>1. "none" \notin Copying
    BY DEF Copying
  <2>2. \A u \in Threads : op'[u] \in Copying => u # t /\ op[u] \in Copying /\ slot'[u] = slot[u] /\ slot[u] # s
    BY <1>3, <2>1
  <2> QED
    BY <1>1, <1>2, <1>5, <2>2 DEF SlotInv, SlotsApart
<1>8. View(mq_queue, content)' = View(mq_queue, content)
  BY <1>1 DEF View
<1> QED
  BY <1>4, <1>6, <1>7, <1>8, QueueIs DEF SlotInv

\* Every step of a sender or a receiver is a step of the queue, or none.
LEMMA MessageStep ==
  ASSUME SlotInv, NEW t \in Threads, NEW m \in Messages, NEW urgent \in BOOLEAN, NEW time,
         \/ MqSend(t, m, urgent) \/ MqLink(t) \/ MqPost(m, urgent)
         \/ MqRecv(t, time) \/ MqRecvGoesOn(t) \/ MqFree(t)
  PROVE  SlotInv' /\ [Queue!Next]_Queue!vars
<1>0. MqList \in Lists /\ MqList \notin Copying /\ "none" \notin Copying
  BY MessageQueueAssumption, ThreadsAssumption DEF Copying
<1>1. CASE MqSend(t, m, urgent) \/ MqFree(t)
  BY <1>1, SendSlot, FreeSlot
<1>2. CASE MqLink(t)
  <2>1. SlotInv' /\ \E n \in Messages : Queue!Put(n) \/ Queue!Push(n)
    BY <1>2, LinkSlot
  <2> QED
    BY <2>1 DEF Queue!Next
<1>3. CASE MqPost(m, urgent)
  <2>1. SlotInv' /\ \E n \in Messages : Queue!Put(n) \/ Queue!Push(n)
    BY <1>3, PostSlot
  <2> QED
    BY <2>1 DEF Queue!Next
<1>4. ASSUME op[t] \notin Copying, mq_queue # <<>>, MqUnlink(t)
      PROVE  SlotInv' /\ [Queue!Next]_Queue!vars
  <2>1. SlotInv' /\ Queue!Get(t)
    BY <1>4, UnlinkSlot
  <2> QED
    BY <2>1 DEF Queue!Next
<1>5. ASSUME op[t] \notin Copying, NEW wait, Await(t, MqList, wait), UNCHANGED mqvars
      PROVE  SlotInv' /\ [Queue!Next]_Queue!vars
  <2>1. OpMoves
    BY <1>0, <1>5 DEF OpMoves, Await, Suspend
  <2> QED
    BY <1>5, <2>1, SlotKeeps
<1>6. CASE MqRecv(t, time)
  <2>1. op[t] \notin Copying
    BY <1>0, <1>6 DEF MqRecv, Calls
  <2> QED
    BY <1>4, <1>5, <1>6, <2>1 DEF MqRecv
<1>7. CASE MqRecvGoesOn(t)
  <2>1. op[t] \notin Copying
    BY <1>0, <1>7 DEF MqRecvGoesOn, Returns
  <2>2. CASE LeaveLoop(t) /\ UNCHANGED mqvars
    <3>1. OpMoves
      BY <2>1, <2>2 DEF OpMoves, LeaveLoop, Leave
    <3> QED
      BY <2>2, <3>1, SlotKeeps
  <2> QED
    BY <1>4, <1>5, <1>7, <2>1, <2>2 DEF MqRecvGoesOn
<1> QED
  BY <1>1, <1>2, <1>3, <1>6, <1>7

\* No call of another object copies a message: the semaphore,
LEMMA SemMoves ==
  ASSUME NEW t \in Threads, NEW time,
         SemTake(t, time) \/ SemTaken(t) \/ SemRelease
  PROVE  OpMoves
<1>1. "none" \notin Copying /\ "sleep" \notin Copying /\ \A l \in Lists : l \notin Copying
  BY ThreadsAssumption DEF Copying
<1> QED
  BY <1>1, SemaphoreAssumption
     DEF SemTake, SemTaken, SemRelease, tvars, Calls, Returns, Leave, Suspend, OpMoves

\* the mutex,
LEMMA MutexMoves ==
  ASSUME NEW t \in Threads, NEW m \in Mutexes, NEW time,
         \/ MutexTake(t, m) \/ MutexWait(t, m, time) \/ MutexTaken(t, m)
         \/ MutexUnnest(t, m) \/ MutexRelease(t, m) \/ MutexRefused(t, m)
  PROVE  OpMoves
<1>1. "none" \notin Copying /\ "sleep" \notin Copying /\ \A l \in Lists : l \notin Copying
  BY ThreadsAssumption DEF Copying
<1> QED
  BY <1>1, MutexAssumption
     DEF MutexTake, MutexWait, MutexTaken, MutexUnnest, MutexRelease, MutexRefused, tvars, Calls, Returns, Leave, Suspend, OpMoves

\* the event,
LEMMA EventMoves ==
  ASSUME NEW t \in Threads, NEW set, NEW opt, NEW time,
         EvSend(set) \/ EvLook \/ EvRecv(t, set, opt, time) \/ EvReceived(t)
  PROVE  OpMoves
<1>1. "none" \notin Copying /\ "sleep" \notin Copying /\ \A l \in Lists : l \notin Copying
  BY ThreadsAssumption DEF Copying
<1> QED
  BY <1>1, EventAssumption
     DEF EvSend, EvLook, EvRecv, EvReceived, Calls, Returns, Leave, Suspend, OpMoves

\* the mailbox,
LEMMA MailMoves ==
  ASSUME NEW t \in Threads, NEW m, NEW time,
         \/ MbSend(t, m, time) \/ MbPost(m) \/ MbSendGoesOn(t)
         \/ MbRecv(t, time) \/ MbRecvGoesOn(t)
  PROVE  OpMoves
<1>1. "none" \notin Copying /\ "sleep" \notin Copying /\ \A l \in Lists : l \notin Copying
  BY ThreadsAssumption DEF Copying
<1> QED
  BY <1>1, MailboxAssumption
     DEF MbSend, MbPost, MbSendGoesOn, MbRecv, MbRecvGoesOn, Await, LeaveLoop, Calls, Returns, Leave, Suspend, OpMoves

\* the memory pool,
LEMMA PoolMoves ==
  ASSUME NEW t \in Threads, NEW b, NEW time,
         MpAlloc(t, time) \/ MpAllocated(t) \/ MpFree(b)
  PROVE  OpMoves
<1>1. "none" \notin Copying /\ "sleep" \notin Copying /\ \A l \in Lists : l \notin Copying
  BY ThreadsAssumption DEF Copying
<1> QED
  BY <1>1, MemPoolAssumption
     DEF MpAlloc, MpAllocated, MpFree, tvars, Calls, Returns, Leave, Suspend, OpMoves

\* and neither do sleep and clock.
LEMMA ClockMoves ==
  ASSUME NEW t \in Threads, NEW time,
         Tick \/ Expire \/ TickEnd \/ Sleep(t, time) \/ Awake(t)
  PROVE  OpMoves
<1>1. "none" \notin Copying /\ "sleep" \notin Copying /\ \A l \in Lists : l \notin Copying
  BY ThreadsAssumption DEF Copying
<1> QED
  BY <1>1, ThreadsAssumption
     DEF Tick, Expire, TickEnd, Sleep, Awake, Calls, Returns, Leave, Suspend, OpMoves

\* At first all slots are free and the queue is empty.
LEMMA InitSlots == Init => SlotInv /\ Queue!Init
<1> SUFFICES ASSUME Init PROVE SlotInv /\ Queue!Init
  OBVIOUS
<1>1. /\ op = [t \in Threads |-> "none"] /\ mq_free = Slots /\ mq_queue = <<>>
      /\ content = [s \in Range(Slots) |-> FirstMessage] /\ slot = [t \in Threads |-> 0]
      /\ message = [t \in Threads |-> NoMessage] /\ read = [t \in Threads |-> FirstMessage]
  BY DEF Init, ThreadsInit, MqInit
<1>2. Slots \in Seq(Range(Slots)) /\ IsInjective(Slots) /\ FirstMessage \in Messages
  BY MessageQueueAssumption, SeqOfRange
<1>3. <<>> \in Seq(Range(Slots)) /\ IsInjective(<<>>) /\ Range(<<>>) = {} /\ Len(<<>>) = 0
  BY DEF IsInjective, Range
<1>4. SlotInv
  BY <1>1, <1>2, <1>3 DEF SlotInv, SlotType, SlotsApart, NoMessage, Copying, Ops
<1>5. View(mq_queue, content) = <<>>
  <2>1. View(mq_queue, content) \in Seq(Messages) /\ Len(View(mq_queue, content)) = 0
    <3>1. mq_queue \in Seq(Range(Slots)) /\ content \in [Range(Slots) -> Messages]
      BY <1>4 DEF SlotInv, SlotType
    <3>2. View(mq_queue, content) \in Seq(Messages) /\ Len(View(mq_queue, content)) = Len(mq_queue)
      BY <3>1, ViewIs
    <3>3. Len(mq_queue) = 0
      BY <1>1
    <3> QED
      BY <3>2, <3>3
  <2> QED
    BY <2>1, EmptySeq
<1>6. Got \in [Threads -> Messages]
  BY <1>1, <1>2 DEF Got
<1> QED
  BY <1>4, <1>5, <1>6 DEF Queue!Init, View, Got

\* Every step of the kernel is a step of the queue, or none.
LEMMA NextSlots == SlotInv /\ [Next]_vars => SlotInv' /\ [Queue!Next]_Queue!vars
<1> SUFFICES ASSUME SlotInv, [Next]_vars PROVE SlotInv' /\ [Queue!Next]_Queue!vars
  OBVIOUS
<1> PICK one \in Threads : TRUE
  BY ThreadsAssumption
<1>1. ASSUME NEW t \in Threads, CallQueue(t) \/ MqLink(t) \/ MqRecvGoesOn(t) \/ MqFree(t)
      PROVE  SlotInv' /\ [Queue!Next]_Queue!vars
  BY <1>1, MessageStep, MessageQueueAssumption DEF CallQueue
<1>2. CASE DeviceMessage
  BY <1>2, MessageStep DEF DeviceMessage
<1>3. ASSUME OpMoves, UNCHANGED mqvars
      PROVE  SlotInv' /\ [Queue!Next]_Queue!vars
  BY <1>3, SlotKeeps
<1>4. ASSUME NEW t \in Threads,
             CallSem(t) \/ CallMutex(t) \/ CallEvent(t) \/ CallMailbox(t) \/ CallPool(t) \/ CallSleep(t)
      PROVE  OpMoves /\ UNCHANGED mqvars
  <2>1. CASE CallSem(t)
    BY <2>1, SemMoves DEF CallSem
  <2>2. CASE CallMutex(t)
    BY <2>2, MutexMoves DEF CallMutex
  <2>3. CASE CallEvent(t)
    BY <2>3, EventMoves DEF CallEvent
  <2>4. CASE CallMailbox(t)
    BY <2>4, MailMoves DEF CallMailbox
  <2>5. CASE CallPool(t)
    BY <2>5, PoolMoves DEF CallPool
  <2>6. CASE CallSleep(t)
    BY <2>6, ClockMoves DEF CallSleep, objects
  <2> QED
    BY <1>4, <2>1, <2>2, <2>3, <2>4, <2>5, <2>6
<1>5. ASSUME NEW t \in Threads, GoOn(t)
      PROVE  \/ OpMoves /\ UNCHANGED mqvars
             \/ MqLink(t) \/ MqRecvGoesOn(t) \/ MqFree(t)
  <2>1. CASE SemTaken(t) /\ UNCHANGED mqvars
    BY <2>1, SemMoves
  <2>2. CASE (\E m \in Mutexes : MutexTaken(t, m)) /\ UNCHANGED mqvars
    BY <2>2, MutexMoves
  <2>3. CASE EvReceived(t) /\ UNCHANGED mqvars
    BY <2>3, EventMoves
  <2>4. CASE (MbSendGoesOn(t) \/ MbRecvGoesOn(t)) /\ UNCHANGED mqvars
    BY <2>4, MailMoves
  <2>5. CASE MpAllocated(t) /\ UNCHANGED mqvars
    BY <2>5, PoolMoves
  <2>6. CASE Awake(t) /\ UNCHANGED objects
    BY <2>6, ClockMoves DEF objects
  <2> QED
    BY <1>5, <2>1, <2>2, <2>3, <2>4, <2>5, <2>6 DEF GoOn
<1>6. ASSUME DeviceSem \/ DeviceEvent \/ EventLoop \/ DeviceMail \/ DevicePool \/ Clock
      PROVE  OpMoves /\ UNCHANGED mqvars
  <2>1. CASE DeviceSem
    BY <2>1, SemMoves DEF DeviceSem
  <2>2. CASE DeviceEvent \/ EventLoop
    BY <2>2, EventMoves DEF DeviceEvent, EventLoop
  <2>3. CASE DeviceMail
    BY <2>3, MailMoves DEF DeviceMail
  <2>4. CASE DevicePool
    BY <2>4, PoolMoves DEF DevicePool
  <2>5. CASE Clock
    BY <2>5, ClockMoves DEF Clock, objects
  <2> QED
    BY <1>6, <2>1, <2>2, <2>3, <2>4, <2>5
<1>7. CASE UNCHANGED vars
  BY <1>3, <1>7 DEF vars, objects, tvars, OpMoves
<1> QED
  BY <1>1, <1>2, <1>3, <1>4, <1>5, <1>6, <1>7 DEF Next

\* The message queue is the bounded queue: no message is lost, doubled or mixed
\* with another, although slots are filled and read outside the critical sections.
THEOREM KernelMessages == Spec => MessagesInOrder
<1>1. Spec => []SlotInv
  BY InitSlots, NextSlots, PTL DEF Spec
<1> QED
  BY <1>1, InitSlots, NextSlots, PTL DEF Spec, MessagesInOrder, Queue!Spec
=============================================================================
