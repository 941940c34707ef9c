----------------------------- MODULE SerialLink -----------------------------
(***************************************************************************)
(* The PC link of the recorder: the UART 2 part of rt_hw_serial_isr        *)
(* (bsp/vtdr/serial.c) and rs232_handle_application (bsp/vtdr/RS232.c).    *)
(*                                                                         *)
(* The interrupt handler stores every byte in a ring, follows the frame    *)
(* AA 75 cmd lenH lenL rsv data.. chk with a state machine and counts the  *)
(* complete frames in getcmd; the value ErrCmd in getcmd stands for a bad  *)
(* frame.  The "led" thread polls getcmd, decodes the frame at read_index, *)
(* executes it, moves read_index behind it and decrements getcmd, without  *)
(* masking the interrupt.  The handler is atomic; the thread is not.       *)
(*                                                                         *)
(* The PC and the wire are external: the PC, one of Peers, sends frames of *)
(* its own, at most its window of them unanswered, and the wire may damage *)
(* some of the bytes.                                                      *)
(***************************************************************************)
EXTENDS Integers, Sequences, FiniteSetsExt, SequencesExt

CONSTANTS
  RingSize,    \* UART_RX_BUFFER_SIZE, a power of two
  ErrCmd,      \* the getcmd of a bad frame, 0x7f
  GetcmdMax,   \* number of values of getcmd, 256
  SetLen,      \* the exact data length a setter accepts
  Peers        \* the PCs: [frames: the frames it sends, [cmd, data],
               \*           window: frames it sends before it waits for an answer,
               \*           patient: it leaves the recorder time to return to its poll,
               \*           damage: bound, bytes damaged on the wire,
               \*           after: bound, frames sent after the first damage]

ASSUME RingAssumption ==
  /\ RingSize \in {16, 32, 64, 128}
  /\ ErrCmd \in Nat \ {0} /\ GetcmdMax \in Nat /\ ErrCmd + 1 < GetcmdMax
  /\ SetLen \in Nat \ {0}

ASSUME PeersAssumption ==
  \A p \in Peers : p.window \in Nat \ {0} /\ p.patient \in BOOLEAN
                   /\ p.damage \in Nat /\ p.after \in Nat

Frames == UNION {p.frames : p \in Peers}

ASSUME FramesAssumption ==
  \A f \in Frames : f.cmd \in 0 .. 255 /\ f.data \in Seq(0 .. 255) /\ Len(f.data) < 256

VARIABLES
  peer,                                     \* the PC at the other end; never changes
  ring, read_index, save_index, getcmd,     \* struct stm32_serial_int_rx
  status, lenth, checksum,                  \* statics of the handler
  pc, reg, cur,                             \* the thread: place, register, decoded frame
  modify,                                   \* paramodifystatus and modifydata.modifystatus
  verify,                                   \* Verificationstatus
  stored,                                   \* the parameter bytes the last setter stored
  served,                                   \* the last command executed
  line,                                     \* bytes of the frame being sent
  pending,                                  \* frames sent and not executed
  want,                                     \* the frame last taken from pending
  overtaken,                                \* increments of getcmd lost to `getcmd--'
  quota                                     \* damaged bytes, and frames after them, left

rx     == <<ring, read_index, save_index, getcmd>>
isr    == <<status, lenth, checksum>>
params == <<modify, verify, stored, served>>
wire   == <<peer, line, pending, want, overtaken, quota>>
vars   == <<rx, isr, pc, reg, cur, params, wire>>

Cells == 0 .. RingSize - 1

\* the exclusive or of two bytes, bit by bit
Xor(x, y) ==
  LET b(w) == w * (((x \div w) + (y \div w)) % 2)
  IN b(1) + b(2) + b(4) + b(8) + b(16) + b(32) + b(64) + b(128)

-----------------------------------------------------------------------------
(* Frames.                                                                 *)

Sync1 == 170                           \* 0xaa
Sync2 == 117                           \* 0x75
IsSetter(c) == c \in 130 .. 132 \cup 194 .. 196       \* 0x82-0x84, 0xc2-0xc4

\* mutant: the second range of setters is forgotten
AcceptedTooFew(c) == c < 22 \/ c \in 194 .. 196

\* the command words the handler lets through
Accepted(c) == c < 22 \/ IsSetter(c)

\* the checksum of the first n bytes of b, for each n
Sums(b) ==
  LET sum[n \in 0 .. Len(b)] == IF n = 0 THEN 0 ELSE Xor(sum[n - 1], b[n]) IN sum

Body(f) == <<Sync1, Sync2, f.cmd, 0, Len(f.data), 0>> \o f.data
Bytes   == [f \in Frames |-> Append(Body(f), Sums(Body(f))[Len(Body(f))])]

Command(f) == [cmd |-> f.cmd, len |-> Len(f.data)]

\* the frames whose last byte was received
Complete == IF line = <<>> \/ pending = <<>> THEN pending ELSE Front(pending)

Init ==
  /\ ring = [c \in Cells |-> 0] /\ read_index = 0 /\ save_index = 0 /\ getcmd = 0
  /\ status = "sync_head" /\ lenth = 0 /\ checksum = 0
  /\ pc = "poll" /\ reg = 0 /\ cur = [cmd |-> 0, len |-> 0]
  /\ modify = [flag |-> 0, cmd |-> 0] /\ verify = 0
  /\ stored = <<>> /\ served = <<>>
  /\ line = <<>> /\ pending = <<>> /\ want = [cmd |-> 0, data |-> <<>>] /\ overtaken = 0
  /\ peer \in Peers
  /\ quota = [frames |-> peer.after, damage |-> peer.damage]

-----------------------------------------------------------------------------
(* The PC and the wire.                                                    *)

Quiet     == line = <<>> /\ pc = "poll" /\ getcmd = 0
Undamaged == quota.damage = peer.damage

Send(f) ==
  /\ line = <<>> /\ Len(pending) < peer.window
  /\ peer.patient => Quiet
  /\ Undamaged \/ quota.frames > 0
  /\ line' = Bytes[f] /\ pending' = Append(pending, f)
  /\ quota' = IF Undamaged THEN quota ELSE [frames |-> quota.frames - 1, damage |-> quota.damage]
  /\ UNCHANGED <<rx, isr, pc, reg, cur, params, peer, want, overtaken>>

\* A byte of the frame is lost or hit, or a stray byte comes before it; the PC
\* expects no answer any more.
Damage ==
  /\ line # <<>> /\ quota.damage > 0
  /\ \E hit \in {<<>>, <<0>>, <<0, Head(line)>>} : line' = hit \o Tail(line)
  /\ pending' = <<>>
  /\ quota' = [frames |-> quota.frames, damage |-> quota.damage - 1]
  /\ UNCHANGED <<rx, isr, pc, reg, cur, params, peer, want, overtaken>>

-----------------------------------------------------------------------------
(* rt_hw_serial_isr: one byte b.                                           *)

\* mutant: the machine does not return to the start of a frame
ParseStuck(b, sum) ==
  CASE status = "sync_head" -> <<"head_end", getcmd>>
    [] status = "head_end"  -> <<"command", getcmd>>
    [] status = "command"   -> <<"len_high", getcmd>>
    [] status = "len_high"  -> <<"len_low", getcmd>>
    [] status = "len_low"   -> <<"reserve", getcmd>>
    [] status = "reserve"   -> <<IF lenth # 0 THEN "data" ELSE "checksum", getcmd>>
    [] status = "data"      -> <<IF lenth <= 1 THEN "checksum" ELSE "data", getcmd>>
    [] status = "checksum"  -> <<"checksum", IF sum = 0 THEN (getcmd + 1) % GetcmdMax
                                                        ELSE ErrCmd>>

\* the next state of the frame machine, and what happens to getcmd
Parse(b, sum) ==
  CASE status = "sync_head" -> IF b = Sync1 THEN <<"head_end", getcmd>>
                                            ELSE <<"sync_head", ErrCmd>>
    [] status = "head_end"  -> IF b = Sync2 THEN <<"command", getcmd>>
                                            ELSE <<"sync_head", ErrCmd>>
    [] status = "command"   -> IF Accepted(b) THEN <<"len_high", getcmd>>
                                              ELSE <<"sync_head", ErrCmd>>
    [] status = "len_high"  -> <<"len_low", getcmd>>
    [] status = "len_low"   -> <<"reserve", getcmd>>
    [] status = "reserve"   -> <<IF lenth # 0 THEN "data" ELSE "checksum", getcmd>>
    [] status = "data"      -> <<IF lenth <= 1 THEN "checksum" ELSE "data", getcmd>>
    [] status = "checksum"  -> <<"sync_head", IF sum = 0 THEN (getcmd + 1) % GetcmdMax
                                                         ELSE ErrCmd>>

\* the data length, and in the data the bytes of it still to come
Lenth(b) ==
  IF status = "len_high" THEN b
  ELSE IF status = "len_low" THEN (lenth * 256 + b) % 65536
  ELSE IF status = "data" /\ lenth > 0 THEN lenth - 1
  ELSE lenth

Receive ==
  LET b    == Head(line)
      sum  == IF status = "sync_head" /\ b = Sync1 THEN b ELSE Xor(checksum, b)
      step == Parse(b, sum)
      save == (save_index + 1) % RingSize
  IN /\ line # <<>>
     /\ ring' = [ring EXCEPT ![save_index] = b]
     /\ save_index' = save
     /\ read_index' = IF save = read_index THEN (read_index + 1) % RingSize ELSE read_index
     /\ status' = step[1] /\ getcmd' = step[2] /\ checksum' = sum
     /\ lenth' = Lenth(b)
     /\ line' = Tail(line)
     /\ UNCHANGED <<pc, reg, cur, params, peer, pending, want, overtaken, quota>>

-----------------------------------------------------------------------------
(* rs232_handle_application.                                               *)

At(o) == ring[(read_index + o) % RingSize]

\* `if (getcmd > 0x7f)'
Poll ==
  /\ pc = "poll"
  /\ pc' = IF getcmd > ErrCmd THEN "clear" ELSE "loop"
  /\ UNCHANGED <<rx, isr, reg, cur, params, wire>>

\* `getcmd = 0; RS232UploadError()'
Clear ==
  /\ pc = "clear" /\ pc' = "loop"
  /\ getcmd' = 0
  /\ UNCHANGED <<ring, read_index, save_index, isr, reg, cur, params, wire>>

\* mutant: the loop waits for the next command
LoopWaits ==
  /\ pc = "loop"
  /\ pc' = IF getcmd = 0 THEN "loop" ELSE "decode"
  /\ UNCHANGED <<rx, isr, reg, cur, params, wire>>

\* `while (getcmd)'
Loop ==
  /\ pc = "loop"
  /\ pc' = IF getcmd = 0 THEN "poll" ELSE "decode"
  /\ UNCHANGED <<rx, isr, reg, cur, params, wire>>

Decode ==
  /\ pc = "decode"
  /\ cur' = [cmd |-> At(2), len |-> At(3) * 256 + At(4)]
  /\ IF IsSetter(At(2))
     THEN pc' = "mark" /\ modify' = [flag |-> 1, cmd |-> modify.cmd]
     ELSE pc' = "execute" /\ modify' = modify
  /\ UNCHANGED <<rx, isr, reg, verify, stored, served, wire>>

Mark ==
  /\ pc = "mark" /\ pc' = "execute"
  /\ modify' = [flag |-> modify.flag, cmd |-> cur.cmd]
  /\ UNCHANGED <<rx, isr, reg, cur, verify, stored, served, wire>>

\* EnterVercationStatus, EnterMileStatus, EnterPulsStatus, EnterTimeStatus,
\* GetBackNormalStatus: 0xe0 to 0xe4
Verification(c) ==
  IF c = 224 THEN 1
  ELSE IF c \in 225 .. 227 /\ verify # 0 THEN c - 223
  ELSE IF c \in 225 .. 228 THEN 0
  ELSE verify

\* The switch: the answer is sent, then a setter copies its data.
Execute ==
  /\ pc = "execute"
  /\ pc' = IF IsSetter(cur.cmd) /\ cur.len = SetLen THEN "copy" ELSE "fetch"
  /\ served' = cur /\ verify' = Verification(cur.cmd)
  /\ IF Complete = <<>> THEN UNCHANGED <<pending, want>>
                        ELSE pending' = Tail(pending) /\ want' = Head(pending)
  /\ UNCHANGED <<rx, isr, reg, cur, modify, stored, peer, line, overtaken, quota>>

\* mutant: the data is taken to start one byte earlier
CopyEarly ==
  LET start == (read_index + 5) % RingSize
  IN /\ pc = "copy" /\ pc' = "fetch"
     /\ stored' = [i \in 1 .. cur.len |->
                     IF start + i - 1 \in Cells THEN ring[start + i - 1] ELSE -1]
     /\ UNCHANGED <<rx, isr, reg, cur, modify, verify, served, wire>>

\* The setters copy from &rx_buffer[(read_index + 6) & 127] upwards; behind the
\* end of the ring they read what follows it in memory, "outside".
Copy ==
  LET start == (read_index + 6) % RingSize
  IN /\ pc = "copy" /\ pc' = "fetch"
     /\ stored' = [i \in 1 .. cur.len |->
                     IF start + i - 1 \in Cells THEN ring[start + i - 1] ELSE -1]
     /\ UNCHANGED <<rx, isr, reg, cur, modify, verify, served, wire>>

Fetch ==
  /\ pc = "fetch" /\ pc' = "advance"
  /\ reg' = read_index
  /\ UNCHANGED <<rx, isr, cur, params, wire>>

\* mutants: the index is not masked; the frame is taken to be one byte shorter
AdvanceNoMask ==
  /\ pc = "advance" /\ pc' = "load"
  /\ read_index' = cur.len + reg + 7
  /\ UNCHANGED <<ring, save_index, getcmd, isr, reg, cur, params, wire>>
AdvanceShort ==
  /\ pc = "advance" /\ pc' = "load"
  /\ read_index' = (cur.len + reg + 6) % RingSize
  /\ UNCHANGED <<ring, save_index, getcmd, isr, reg, cur, params, wire>>

\* `read_index = (Datalenth + read_index + 7) & UART_RX_BUFFER_MAX_SIZE'
Advance ==
  /\ pc = "advance" /\ pc' = "load"
  /\ read_index' = (cur.len + reg + 7) % RingSize
  /\ UNCHANGED <<ring, save_index, getcmd, isr, reg, cur, params, wire>>

\* `getcmd--', a load and a store
Load ==
  /\ pc = "load" /\ pc' = "store"
  /\ reg' = getcmd
  /\ UNCHANGED <<rx, isr, cur, params, wire>>

\* The increments the interrupt handler made since the load are undone by the store.
Overtaken == overtaken' = overtaken + IF Undamaged THEN getcmd - reg ELSE 0

\* mutants: the count is not decremented; it is taken for a flag
StoreSame ==
  /\ pc = "store" /\ pc' = "loop"
  /\ getcmd' = reg /\ Overtaken
  /\ UNCHANGED <<ring, read_index, save_index, isr, reg, cur, params, peer, line, pending, want, quota>>
StoreClear ==
  /\ pc = "store" /\ pc' = "loop"
  /\ getcmd' = 0 /\ Overtaken
  /\ UNCHANGED <<ring, read_index, save_index, isr, reg, cur, params, peer, line, pending, want, quota>>

Store ==
  /\ pc = "store" /\ pc' = "loop"
  /\ getcmd' = (reg - 1) % GetcmdMax /\ Overtaken
  /\ UNCHANGED <<ring, read_index, save_index, isr, reg, cur, params, peer, line, pending, want, quota>>

Thread == Poll \/ Clear \/ Loop \/ Decode \/ Mark \/ Execute \/ Copy \/ Fetch
          \/ Advance \/ Load \/ Store

\* ModifyHandle, in the "init" thread: the flag is cleared and modify.cmd
\* goes to the journal of modifications
ModifyHandle ==
  /\ modify.flag # 0
  /\ modify' = [flag |-> 0, cmd |-> modify.cmd]
  /\ UNCHANGED <<rx, isr, pc, reg, cur, verify, stored, served, wire>>

\* Time3_irg_handler takes the state 0xe0 entered back after six seconds, in
\* which Time6sCnt ran out
VerificationOver ==
  /\ verify = 1 /\ verify' = 0
  /\ UNCHANGED <<rx, isr, pc, reg, cur, modify, stored, served, wire>>

Next == \/ \E f \in peer.frames : Send(f)
        \/ Damage
        \/ Receive
        \/ Thread
        \/ ModifyHandle
        \/ VerificationOver

Spec == Init /\ [][Next]_vars

\* The bytes of a frame arrive and the led thread keeps running.
FairSpec == Spec /\ WF_vars(Receive) /\ WF_vars(Thread)

-----------------------------------------------------------------------------
(* Properties.                                                             *)

\* The commands rt_hw_serial_isr lets through; the switch of rs232_handle_application
\* has a case for 0xe0 to 0xe4 too, which the handler takes for damage.
HandlerCommands == 0 .. 21 \cup 130 .. 132 \cup 194 .. 196

\* The PCs send commands the handler lets through, and no more of them unanswered
\* than the ring holds and getcmd can count below ErrCmd, one being executed.
PeersFit ==
  \A p \in Peers :
    /\ p.window + 1 < ErrCmd
    /\ \E room \in 1 .. RingSize :
         /\ (p.window + 1) * room < RingSize
         /\ \A f \in p.frames : /\ f.cmd \in HandlerCommands
                                /\ Len(f.data) + 7 <= room

\* the bytes received and not yet released, from read_index on
Unread == [i \in 1 .. (save_index - read_index) % RingSize |-> At(i - 1)]

\* the frames not yet released: one is executed already and still in the ring
\* from its execution to the move of read_index
Unreleased == IF pc \in {"copy", "fetch", "advance"} THEN <<want>> \o pending ELSE pending

\* the bytes of the first n frames of q, one after the other, for each n
Streams(q) ==
  LET bytes[n \in 0 .. Len(q)] == IF n = 0 THEN <<>> ELSE bytes[n - 1] \o Bytes[q[n]] IN bytes
Stream(q)  == Streams(q)[Len(q)]

\* Type invariant: indices in the ring, counters in their bytes.
TypeOK ==
  /\ ring \in [Cells -> 0 .. 255] /\ read_index \in Cells /\ save_index \in Cells
  /\ getcmd \in 0 .. GetcmdMax - 1
  /\ status \in {"sync_head", "head_end", "command", "len_high", "len_low",
                 "reserve", "data", "checksum"}
  /\ lenth \in Nat /\ lenth < 65536 /\ checksum \in 0 .. 255
  /\ pc \in {"poll", "clear", "loop", "decode", "mark", "execute", "copy",
             "fetch", "advance", "load", "store"}
  /\ reg \in Cells \cup 0 .. GetcmdMax - 1
  /\ cur.cmd \in 0 .. 255 /\ cur.len \in Nat /\ cur.len < 65536
  /\ modify.flag \in {0, 1} /\ verify \in 0 .. 4
  /\ \A i \in DOMAIN stored : stored[i] \in -1 .. 255

\* Up to the first damage on the wire the ring holds, from read_index on,
\* exactly the bytes of the frames that are not released yet, up to those still
\* on the wire: the thread always decodes at a frame boundary while the
\* interrupt handler goes on storing.
Aligned == Undamaged => Unread \o line = Stream(Unreleased)

\* Up to the first damage getcmd never promises more frames than there are
\* complete ones behind read_index (it may promise fewer: `getcmd--' loses the increment of an
\* interrupt between its load and its store).
NeverOverDispatch ==
  Undamaged =>
  getcmd <= Len(Complete)
            + IF pc \in {"copy", "fetch", "advance", "load", "store"} THEN 1 ELSE 0

\* Frames without damage, of commands the interrupt handler lets through, are never
\* taken for bad ones, however many of them arrive while one is executed.  (Those of
\* 0xe0 to 0xe4 always are: they never reach the switch that has a case for them.)
NoFalseError ==
  Undamaged /\ (\A f \in peer.frames : f.cmd \in HandlerCommands) => getcmd < ErrCmd

\* Up to the first damage a setter whose data does not wrap around the end of
\* the ring stores the data of the frame, although its answer, and so the next
\* frame of the PC, may come before the copy.
StoresWhatWasSent ==
  /\ Undamaged /\ pc = "fetch" /\ IsSetter(cur.cmd) /\ cur.len = SetLen
  /\ ((read_index + 6) % RingSize) + cur.len <= RingSize
  => stored = want.data

\* A setter stores the data of the frame.
SettingStored == pc = "fetch" /\ IsSetter(cur.cmd) /\ cur.len = SetLen => stored = want.data

\* The link implements the queue of commands it promises: every frame is
\* executed at most once, in the order sent, and nothing else is executed. It
\* promises that for an undamaged wire only: with a wire that may be damaged
\* the mapping stays in the initial state.
Safe  == peer.damage = 0
Queue == INSTANCE CommandQueue WITH
           Commands <- {Command(f) : f \in Frames},
           queue    <- IF Safe THEN [i \in DOMAIN Complete |-> Command(Complete[i])] ELSE <<>>,
           executed <- IF Safe THEN served ELSE <<>>
InOrder == Queue!Spec

\* When the link is quiet and no byte was damaged, every frame sent has been
\* executed but one for each time the interrupt handler counted a frame between
\* the load and the store of `getcmd--': such a frame waits in the ring for the next
\* one.  A patient PC never sends there and has every frame executed.
QuietMeansServed ==
  Quiet /\ Undamaged => Len(pending) = overtaken /\ (peer.patient => overtaken = 0)

\* Every frame a patient PC sends before the first damage is answered (or hit
\* by it).
Answered == peer.patient /\ pending # <<>> /\ Undamaged ~> pending = <<>>

\* While the PC is patient, the command loop ends, whatever bytes arrive.
HandlerReturns == peer.patient /\ pc # "poll" ~> pc = "poll"
=============================================================================
