---------------------------- MODULE MCSerialLink ----------------------------
(***************************************************************************)
(* Values of SerialLink's constants for TLC.                               *)
(***************************************************************************)
EXTENDS SerialLink

Query   == [cmd |-> 2, data |-> <<>>]                  \* UpLoad_RealTime
Install == [cmd |-> 131, data |-> <<17, 224>>]         \* Set_Installtime

Short   == [cmd |-> 131, data |-> <<224>>]             \* the same, one byte short

Pipelined == [frames |-> {Query, Install}, window |-> 2, patient |-> FALSE,
              damage |-> 0, after |-> 0]
Patient   == [frames |-> {Short}, window |-> 1, patient |-> TRUE,
              damage |-> 1, after |-> 1]
Undisturbed == [frames |-> {Query, Install}, window |-> 1, patient |-> TRUE,
                damage |-> 0, after |-> 0]

BothPeers == {Pipelined, Patient}
OnePeer   == {Undisturbed}

\* The PCs send no more than the ring holds: what the theorems of SerialLink assume.
ASSUME PeersFitAssumption == PeersFit
=============================================================================
