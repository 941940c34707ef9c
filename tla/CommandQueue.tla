---------------------------- MODULE CommandQueue ----------------------------
(***************************************************************************)
(* What the serial link of the recorder promises to the PC: complete       *)
(* command frames queue up and are executed one at a time, each once, in   *)
(* the order in which they were sent.                                      *)
(***************************************************************************)
EXTENDS Sequences

CONSTANT Commands      \* what the recorder decodes of a frame

VARIABLES queue,       \* complete frames not executed yet
          executed     \* the last command executed

vars == <<queue, executed>>

Init == queue = <<>> /\ executed = <<>>

Arrive == \E c \in Commands : queue' = Append(queue, c) /\ UNCHANGED executed

Execute ==
  /\ queue # <<>>
  /\ executed' = Head(queue)
  /\ queue' = Tail(queue)

Next == Arrive \/ Execute

Spec == Init /\ [][Next]_vars
=============================================================================
