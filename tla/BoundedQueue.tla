---------------------------- MODULE BoundedQueue ----------------------------
(***************************************************************************)
(* What a mailbox and a message queue promise: a queue of at most Size     *)
(* mails, each received once, in the order sent; an urgent one before all. *)
(***************************************************************************)
EXTENDS Naturals, Sequences

CONSTANTS Readers, Mails, Size, Urgent

VARIABLES queue,      \* the mails sent and not received
          received    \* the last mail each reader received

vars == <<queue, received>>

Init == queue = <<>> /\ received \in [Readers -> Mails]

Put(m) ==
  /\ Len(queue) < Size
  /\ queue' = Append(queue, m)
  /\ UNCHANGED received

Push(m) ==
  /\ Urgent /\ Len(queue) < Size
  /\ queue' = <<m>> \o queue
  /\ UNCHANGED received

Get(t) ==
  /\ queue # <<>>
  /\ received' = [received EXCEPT ![t] = Head(queue)]
  /\ queue' = Tail(queue)

Next == (\E m \in Mails : Put(m) \/ Push(m)) \/ (\E t \in Readers : Get(t))

Spec == Init /\ [][Next]_vars
=============================================================================
