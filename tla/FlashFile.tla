------------------------------ MODULE FlashFile ------------------------------
(***************************************************************************)
(* The flash file system of software/app/flashfile.c.                      *)
(*                                                                         *)
(* A NOR flash of NumBlocks blocks of BlockSize bytes is shared by a few   *)
(* record files.  RAM holds a copy of every block header (block_map), a    *)
(* "next block" chain rebuilt at boot (nextBlockChain) and one descriptor  *)
(* per file (flashFile).  A file is a chain of blocks; inside them a time  *)
(* tag is written every Interval seconds and a record of RecSize bytes every   *)
(* Unit seconds, at an offset computed from the last tag.                  *)
(*                                                                         *)
(* The C functions are operators on one record s of the file system's      *)
(* state, [map, chain, file, flash, fuel, wild, ret]; an action applies a  *)
(* top-level function to the variable fs.  "fuel" is the number of flash   *)
(* operations left before the power fails, -1 for no power cut; "wild" is  *)
(* set by an access outside the tables; "ret" is the C return value.       *)
(***************************************************************************)
EXTENDS Integers, Sequences, FiniteSets, FiniteSetsExt

CONSTANTS
  NumBlocks,   \* BLOCK_NUMBER, a power of two: a block number fills a byte
  BlockSize,   \* BLOCK_SIZE, a power of two: an offset fills the 12 bit field
  HeadSize,    \* sizeof(FlashBlockHead)
  TagSize,     \* sizeof(TimeTag)
  Files,       \* the file ids in use, a subset of 0 .. 14
  BlockLimit,  \* flashFileBlockLimite
  RecSize,     \* record_size
  Unit,        \* time_tag_unit
  Interval,    \* time_tag_interval
  Uses,        \* the ways the recorder is used: [steps: the seconds that may pass
               \* between two records, until: bound, records are appended up to
               \* this time, restarts: bound, number of restarts]
  Retain,      \* records a file promises to keep, see RetainsNewest
  Garbage      \* next_time_tag_offset values read where no tag was written: zero
               \* and other negative ones than -1 (the walk along the tags then
               \* stays or turns round) are left out

NoFile  == 15
Blocks  == 0 .. NumBlocks - 1
NoBlock == NumBlocks                   \* 256: no free block
Body    == HeadSize .. BlockSize - 1
Stride  == TagSize + (Interval \div Unit) * RecSize   \* flashfile_time_tag_offset

ASSUME GeometryAssumption ==
  /\ NumBlocks \in {2, 4, 8, 16, 32, 64, 128, 256}
  /\ BlockSize \in {8, 16, 32, 64, 128, 256, 512, 1024, 2048, 4096}
  /\ HeadSize \in 1 .. BlockSize - 1 /\ TagSize \in Nat \ {0} /\ RecSize \in Nat \ {0}
  /\ Unit \in Nat \ {0} /\ Interval \in Nat \ {0} /\ Interval % Unit = 0
  /\ HeadSize + Stride + RecSize <= BlockSize /\ HeadSize + Stride + TagSize <= BlockSize

ASSUME FilesAssumption ==
  /\ Files \subseteq 0 .. 14 /\ Files # {}
  /\ BlockLimit \in [Files -> 1 .. NumBlocks - 1]
  /\ MapThenSumSet(LAMBDA f : BlockLimit[f], Files) < NumBlocks
  /\ \A u \in Uses : u.steps \subseteq Nat \ {0} /\ u.until \in Nat /\ u.restarts \in Nat

ASSUME GarbageAssumption == Garbage \subseteq (Nat \ {0}) \cup {-1}

ASSUME RetainAssumption == Retain \in Nat

VARIABLES
  use,       \* the one of Uses that holds; never changes
  fs,        \* the file system: RAM tables and flash
  call,      \* the append in progress, Idle between two calls, Hung if boot never ends
  now,       \* the time stamp of the last record handed to append_record
  acked,     \* for each file, the times whose record was reported written
  boots      \* restarts so far

vars == <<use, fs, call, now, acked, boots>>

\* round is the parity of the rounds the loop of append_data has made: a round
\* that changes nothing else is still a step
Idle == [file |-> NoFile, time |-> 0, round |-> 0]
Hung == [file |-> NoFile, time |-> 0, round |-> 1]

-----------------------------------------------------------------------------
(* NOR flash: an erased byte is all ones, programming ANDs.                *)

And(x, y) ==
  LET b(w) == IF (x \div w) % 2 = 1 /\ (y \div w) % 2 = 1 THEN w ELSE 0
  IN b(1) + b(2) + b(4) + b(8) + b(16) + b(32) + b(64) + b(128) + b(256) + b(512)
       + b(1024) + b(2048)

ErasedHead == [file_id |-> NoFile, first |-> BlockSize - 1,
               prev |-> NumBlocks - 1, count |-> NumBlocks - 1]
Erased  == <<"erased">>
Garbled == <<"garbled">>       \* the AND of two different values

ErasedBlock == [head |-> ErasedHead, body |-> [o \in Body |-> Erased]]

AndHead(h, g) ==
  [file_id |-> And(h.file_id, g.file_id), first |-> And(h.first, g.first),
   prev |-> And(h.prev, g.prev), count |-> And(h.count, g.count)]

AndByte(old, new) == IF old \in {Erased, new} THEN new ELSE Garbled

\* One flash operation: lost, with everything after it, once the power is gone.
FlashOp(s, newFlash) ==
  IF s.fuel = 0 THEN s
  ELSE [s EXCEPT !.flash = newFlash, !.fuel = IF @ > 0 THEN @ - 1 ELSE @]

\* flash_erase_block
EraseBlock(s, b) == FlashOp(s, [s.flash EXCEPT ![b] = ErasedBlock])

\* flash_write of the four header bytes
WriteHead(s, b) ==
  FlashOp(s, [s.flash EXCEPT ![b].head = AndHead(@, s.map[b])])

\* flash_write of a run of bytes at off, inside the body of block b
Programmed(body, off, bytes) ==
  [o \in Body |-> IF o \in off .. off + Len(bytes) - 1
                  THEN AndByte(body[o], bytes[o - off + 1]) ELSE body[o]]
WriteBody(s, b, off, bytes) ==
  FlashOp(s, [s.flash EXCEPT ![b].body = Programmed(@, off, bytes)])

TagBytes(time, next) == [k \in 1 .. TagSize |-> <<"tag", time, next, k>>]
RecBytes(f, time)    == [k \in 1 .. RecSize |-> <<"rec", f, time, k>>]

-----------------------------------------------------------------------------
(* Blocks and chains.                                                      *)

\* flashfile_block_write: the owner's last_write position follows every write.
\* A block of no file makes the code index flashFile[] out of its bounds.
Touch(s, b, off) ==
  LET f == s.map[b].file_id IN
  IF f \in Files
  THEN [s EXCEPT !.file[f] = [@ EXCEPT !.last_write_block = b, !.last_write_offset = off]]
  ELSE [s EXCEPT !.wild = TRUE]

BlockWriteHead(s, b) == WriteHead(Touch(s, b, 0), b)

BlockWrite(s, b, off, bytes) ==
  IF off > BlockSize \/ off + Len(bytes) > BlockSize
  THEN [s EXCEPT !.ret = -1]
  ELSE [WriteBody(Touch(s, b, off), b, off, bytes) EXCEPT !.ret = Len(bytes)]

\* flashfile_count_compare on bytes
CountCompare(x, y) ==
  IF x = NumBlocks - 1 /\ y = 0 THEN -1
  ELSE IF x = 0 /\ y = NumBlocks - 1 THEN NumBlocks - 1
  ELSE x - y

\* flashfile_find_first_freeblock: scan upwards, a free block replaces the one
\* found when its write count compares below the count of the one found.
Candidate(s, i, prior) ==
  LET h == s.map[i] IN
  IF h.file_id # NoFile THEN prior
  ELSE IF CountCompare(prior.count, h.count) > 0 THEN [found |-> i, count |-> h.count]
  ELSE [found |-> IF prior.found = NoBlock THEN i ELSE prior.found, count |-> prior.count]

FindFirstFreeblock(s) ==
  LET scan[i \in 0 .. NumBlocks] ==
        IF i = 0 THEN [found |-> NoBlock, count |-> NumBlocks - 1]
        ELSE Candidate(s, i - 1, scan[i - 1])
  IN scan[NumBlocks].found

\* mutant: the write count outgrows its byte
RemoveHeadBlockNoWrap(s, f) ==
  LET b == s.file[f].start_block IN
  EraseBlock(
    [s EXCEPT !.map[b].file_id = NoFile,
              !.map[b].count = @ + 1,
              !.chain[b] = b,
              !.file[f].start_block = s.chain[b],
              !.file[f].total_block = @ - 1], b)

\* mutant: the block is released in RAM only
RemoveHeadBlockNoErase(s, f) ==
  LET b == s.file[f].start_block IN
  [s EXCEPT !.map[b].file_id = NoFile,
            !.map[b].count = (@ + 1) % NumBlocks,
            !.chain[b] = b,
            !.file[f].start_block = s.chain[b],
            !.file[f].total_block = @ - 1]

\* mutant: the newest block is released instead of the oldest
RemoveHeadBlockNewest(s, f) ==
  LET b == s.file[f].last_write_block IN
  EraseBlock(
    [s EXCEPT !.map[b].file_id = NoFile,
              !.map[b].count = (@ + 1) % NumBlocks,
              !.file[f].total_block = @ - 1], b)

\* flashfile_remove_file_head_block
RemoveHeadBlock(s, f) ==
  LET d == s.file[f]
      b == d.start_block
      h == s.map[b]
  IN EraseBlock(
       [s EXCEPT !.map[b]   = [h EXCEPT !.file_id = NoFile, !.count = (h.count + 1) % NumBlocks],
                 !.chain[b] = b,
                 !.file[f]  = [d EXCEPT !.start_block = s.chain[b],
                                        !.total_block = d.total_block - 1]], b)

\* mutant: the new block is not chained to the last one
AppendTailBlockUnchained(s, f, b) ==
  LET d == s.file[f] IN
  BlockWriteHead(
    [s EXCEPT !.map[b].file_id = f,
              !.map[b].prev = d.last_write_block,
              !.map[b].first = (d.tag_next + d.tag_offset - BlockSize + HeadSize) % BlockSize,
              !.file[f].last_write_block = b,
              !.file[f].total_block = @ + 1], b)

\* mutant: the header is programmed before its fields are set
AppendTailBlockStaleHead(s, f, b) ==
  LET d == s.file[f]
      w == BlockWriteHead([s EXCEPT !.map[b].file_id = f,
                                    !.chain[d.last_write_block] = b,
                                    !.file[f].last_write_block = b,
                                    !.file[f].total_block = @ + 1], b)
  IN [w EXCEPT !.map[b].prev = d.last_write_block,
               !.map[b].first = (d.tag_next + d.tag_offset - BlockSize + HeadSize) % BlockSize]

\* flashfile_append_file_tail_block
AppendTailBlock(s, f, b) ==
  LET d    == s.file[f]
      next == (d.tag_next + d.tag_offset - BlockSize + HeadSize) % BlockSize
  IN BlockWriteHead(
       [s EXCEPT !.map[b]  = [@ EXCEPT !.file_id = f, !.prev = d.last_write_block, !.first = next],
                 !.chain[d.last_write_block] = b,
                 !.file[f] = [d EXCEPT !.last_write_block = b,
                                       !.total_block = d.total_block + 1]], b)

\* mutants: the limit is off by one, either way; the tail is written before
\* the head is erased
RoundFileLate(s, f, b) ==
  AppendTailBlock(IF s.file[f].total_block > BlockLimit[f]
                  THEN RemoveHeadBlock(s, f) ELSE s, f, b)
RoundFileEarly(s, f, b) ==
  AppendTailBlock(IF s.file[f].total_block + 1 >= BlockLimit[f]
                  THEN RemoveHeadBlock(s, f) ELSE s, f, b)
RoundFileSwapped(s, f, b) ==
  IF s.file[f].total_block + 1 > BlockLimit[f]
  THEN RemoveHeadBlock(AppendTailBlock(s, f, b), f)
  ELSE AppendTailBlock(s, f, b)

\* flashfile_round_file_struct
RoundFile(s, f, b) ==
  AppendTailBlock(IF s.file[f].total_block + 1 > BlockLimit[f]
                  THEN RemoveHeadBlock(s, f) ELSE s, f, b)

\* flashfile_alloc_block: ret is the block, or NoBlock
AllocBlock(s, f) ==
  LET b == FindFirstFreeblock(s) IN
  IF b = NoBlock THEN [s EXCEPT !.ret = NoBlock]
  ELSE [(IF s.file[f].total_block = 0 THEN AppendTailBlock(s, f, b)
                                      ELSE RoundFile(s, f, b)) EXCEPT !.ret = b]

-----------------------------------------------------------------------------
(* flashfile_write: a run of bytes at an offset that may lie past the end  *)
(* of the block, in the next one, or run over the end into a new one.      *)

Spill(s, b, wrote, bytes) ==
  LET f == s.map[b].file_id
      a == AllocBlock(s, f)
  IN IF f \notin Files THEN [s EXCEPT !.wild = TRUE, !.ret = -1]
     ELSE IF a.ret = NoBlock THEN [a EXCEPT !.ret = -1]
     ELSE BlockWrite(a, a.ret, HeadSize, SubSeq(bytes, wrote + 1, Len(bytes)))

FlashWrite(s, b, offset, bytes) ==
  LET shifted == offset > BlockSize
      wb      == IF shifted THEN s.chain[b] ELSE b
      off     == IF shifted THEN offset - BlockSize + HeadSize ELSE offset
      n       == IF off + Len(bytes) > BlockSize THEN BlockSize - offset ELSE Len(bytes)
      w       == BlockWrite(s, wb, off, SubSeq(bytes, 1, n))
  IN IF offset + Len(bytes) > 2 * BlockSize \/ (shifted /\ s.chain[b] = b)
     THEN [s EXCEPT !.ret = -1]
     ELSE IF off >= BlockSize THEN Spill(s, b, 0, bytes)
     ELSE IF w.ret = Len(bytes) \/ w.ret = -1 THEN w
     ELSE Spill(w, b, w.ret, bytes)

-----------------------------------------------------------------------------
(* Records and time tags.                                                  *)

\* mutant: the time of the tag is not stored
StoreLastTimeTagStale(s, f, time) ==
  LET d == s.file[f] IN
  [s EXCEPT !.file[f] = [d EXCEPT !.tag_next = Stride,
                                  !.tag_block = d.last_write_block,
                                  !.tag_offset = d.last_write_offset]]

\* flashfile_store_last_time_tag
StoreLastTimeTag(s, f, time) ==
  LET d == s.file[f] IN
  [s EXCEPT !.file[f] = [d EXCEPT !.tag_time = time, !.tag_next = Stride,
                                  !.tag_block = d.last_write_block,
                                  !.tag_offset = d.last_write_offset]]

\* flashfile_append_data_offset_to_last_time_tag
DataOffset(s, f, time) == TagSize + ((time - s.file[f].tag_time) \div Unit) * RecSize

\* flashfile_init_record: the first record of a file
InitRecord(s, f, time) ==
  LET a == AllocBlock(s, f)
      b == a.ret
      h == BlockWriteHead([a EXCEPT !.map[b] = [@ EXCEPT !.first = HeadSize, !.prev = b]], b)
      t == (time \div Interval) * Interval
      g == StoreLastTimeTag(FlashWrite(h, b, HeadSize, TagBytes(t, Stride)), f, t)
  IN IF b = NoBlock THEN [a EXCEPT !.wild = TRUE]    \* block_map[256]
     ELSE [FlashWrite(g, b, HeadSize + DataOffset(g, f, time), RecBytes(f, time))
             EXCEPT !.ret = 0]

\* flashfile_append_time_tag
AppendTimeTag(s, f, time) ==
  LET d   == s.file[f]
      off == IF d.tag_offset < 0 THEN HeadSize ELSE d.tag_offset + Stride
      w   == FlashWrite(s, d.tag_block, off, TagBytes(time, Stride))
  IN IF w.ret < 0 THEN w ELSE [StoreLastTimeTag(w, f, time) EXCEPT !.ret = 0]

-----------------------------------------------------------------------------
(* Boot: flashfile_system_init rebuilds the RAM tables from the headers.   *)

Descriptor0 == [start_block |-> 0, total_block |-> 0,
                last_write_block |-> 0, last_write_offset |-> 0,
                tag_time |-> 0, tag_next |-> 0,
                tag_block |-> 0, tag_offset |-> 0]

\* flash_read of the byte at an address of the device: an erased header has
\* erased bytes, one that was written or lies behind the end may read as anything
ByteAt(flash, a) ==
  LET b == a \div BlockSize
      o == a % BlockSize
  IN IF b \notin Blocks THEN Garbled
     ELSE IF o \in Body THEN flash[b].body[o]
     ELSE IF flash[b].head = ErasedHead THEN Erased ELSE Garbled

\* flashfile_get_time_tag_next: the tag at an offset, which may run into the block
\* behind; -1 where nothing was written, an arbitrary g where the bytes are not
\* those of a tag
TagIn(bytes, g) ==
  IF \A k \in 1 .. TagSize : bytes[k] = Erased THEN [time |-> 0, next |-> -1]
  ELSE IF bytes[1][1] = "tag" /\ \A k \in 1 .. TagSize :
            bytes[k] = <<"tag", bytes[1][2], bytes[1][3], k>>
       THEN [time |-> bytes[1][2], next |-> bytes[1][3]]
       ELSE [time |-> 0, next |-> g]
ReadTag(flash, b, off, g) ==
  TagIn([k \in 1 .. TagSize |-> ByteAt(flash, b * BlockSize + off + k - 1)], g)

\* flashfile_get_last_time_tag: follow the tags of a block.  The result is
\* the last tag and its offset, -1 if there is none (or if the last stride
\* ends exactly at the end of the block).
NextTag(flash, b, first, w, g) ==
  LET r == ReadTag(flash, b, w.off, g)
      o == w.off + r.next
  IN IF w.end \/ w.off >= BlockSize THEN w
     ELSE IF r.next = -1
     THEN [off |-> w.off, tag |-> w.tag, end |-> TRUE,
           res |-> IF w.off = first THEN -1 ELSE w.off - w.tag.next]
     ELSE [off |-> o, tag |-> r, end |-> o > BlockSize,
           res |-> IF o > BlockSize THEN w.off ELSE -1]

LastTimeTag(flash, map, b, tag, g) ==
  LET first == map[b].first
      walk[n \in 0 .. BlockSize] ==          \* after n tags
        IF n = 0 THEN [off |-> first, tag |-> tag, end |-> FALSE, res |-> -1]
        ELSE NextTag(flash, b, first, walk[n - 1], g)
  IN walk[BlockSize]

\* the last tag of a block, or of one before it in the file
Earlier(s, start, w, g) ==
  LET p == s.map[w.b].prev
  IN IF w.r.res >= 0 \/ w.b = start THEN w
     ELSE [b |-> p, r |-> LastTimeTag(s.flash, s.map, p, w.r.tag, g)]

\* back from last_write_block, which is 0, to the first block with a tag or to the
\* start block.  NumBlocks steps that find neither have met a block twice and would
\* go on for ever, see Stuck.
LastTag(s, start, g) ==
  LET walk[n \in 0 .. NumBlocks] ==
        IF n = 0 THEN [b |-> 0, r |-> LastTimeTag(s.flash, s.map, 0, [time |-> 0, next |-> 0], g)]
        ELSE Earlier(s, start, walk[n - 1], g)
  IN walk[NumBlocks]

\* flashfile_scan_file_block, after flashfile_memset of the descriptor.  The
\* table nextBlockChain is shared by the files and filled file by file.
ScanFileBlock(s, f, g) ==
  LET own   == {i \in Blocks : s.map[i].file_id = f}
      heads == {i \in own : s.map[s.map[i].prev].file_id # f \/ s.map[i].prev = i}
      chain == [p \in Blocks |->
                  LET after == {i \in own : s.map[i].prev = p}
                  IN IF after = {} THEN s.chain[p] ELSE Max(after)]
      start == IF heads = {} THEN 0 ELSE Max(heads)
      last  == LastTag(s, start, g)
      desc  == IF own = {} THEN [Descriptor0 EXCEPT !.tag_offset = -1]
               ELSE [Descriptor0 EXCEPT
                       !.start_block = start, !.total_block = Cardinality(own),
                       !.tag_time = last.r.tag.time, !.tag_next = last.r.tag.next,
                       !.tag_block = last.b, !.tag_offset = last.r.res]
  IN [s EXCEPT !.chain = chain, !.file[f] = desc]

\* the search for the last tag of a file goes round blocks that are not its own
Stuck(s) == \E f \in Files : s.file[f].tag_offset < 0 /\ s.file[f].tag_block # s.file[f].start_block

Unpowered(flash) ==
  [map |-> [b \in Blocks |-> flash[b].head], chain |-> [b \in Blocks |-> b],
   file |-> [f \in Files |-> Descriptor0], flash |-> flash,
   fuel |-> -1, wild |-> FALSE, ret |-> 0]

\* flashfile_system_init: files in the order of their ids
SystemInit(flash, g) ==
  LET scan[n \in 0 .. 15] ==
        IF n = 0 THEN Unpowered(flash)
        ELSE IF n - 1 \in Files THEN ScanFileBlock(scan[n - 1], n - 1, g)
        ELSE scan[n - 1]
  IN scan[15]

-----------------------------------------------------------------------------
(* Actions.                                                                *)

Init ==
  /\ use \in Uses
  /\ fs = SystemInit([b \in Blocks |-> ErasedBlock], Stride)
  /\ call = Idle
  /\ now \in 0 .. Interval - 1
  /\ acked = [f \in Files |-> {}]
  /\ boots = 0

\* flashfile_append_record up to the loop of append_data
Enter(s, f, t) ==
  IF s.file[f].total_block = 0 THEN InitRecord(s, f, t)
  ELSE IF t % Interval = 0 THEN AppendTimeTag(s, f, t)
  ELSE s

\* append_data's loop needs another time tag before the record fits
NeedsTag(s, f, t) == DataOffset(s, f, t) >= Stride

LoopTag(s, f, t) == AppendTimeTag(s, f, (t \div Interval) * Interval)

WriteRecord(s, f, t) ==
  LET d == s.file[f]
  IN FlashWrite(s, d.tag_block, d.tag_offset + DataOffset(s, f, t), RecBytes(f, t))

\* flashfile_append_record is called; the first record of a file is complete
AppendRecord(f, d) ==
  LET first == fs.file[f].total_block = 0
      s     == Enter(fs, f, now + d)
  IN /\ call = Idle /\ ~fs.wild /\ now + d <= use.until
     /\ now' = now + d
     /\ fs' = s
     /\ call' = IF first THEN Idle ELSE [file |-> f, time |-> now + d, round |-> 0]
     /\ acked' = IF first /\ ~s.wild THEN [acked EXCEPT ![f] = @ \cup {now + d}] ELSE acked
     /\ UNCHANGED <<use, boots>>

\* one round of the loop in flashfile_append_data
InsertTag ==
  /\ call.file \in Files /\ ~fs.wild
  /\ NeedsTag(fs, call.file, call.time)
  /\ fs' = LoopTag(fs, call.file, call.time)
  /\ call' = [call EXCEPT !.round = 1 - @]
  /\ UNCHANGED <<use, now, acked, boots>>

\* the loop ends, the record is written and the call returns
WriteData ==
  /\ call.file \in Files /\ ~fs.wild
  /\ ~NeedsTag(fs, call.file, call.time)
  /\ fs' = WriteRecord(fs, call.file, call.time)
  /\ call' = Idle
  /\ acked' = IF fs'.ret >= 0 THEN [acked EXCEPT ![call.file] = @ \cup {call.time}] ELSE acked
  /\ UNCHANGED <<use, now, boots>>

\* the power lasts for k more flash operations
Cut(k) == [fs EXCEPT !.fuel = k]

\* The power fails after k flash operations of a call that begins or goes on,
\* and flashfile_system_init runs.  A boot that never ends is the end of all.
Restart ==
  /\ boots < use.restarts /\ ~fs.wild
  /\ \E g \in Garbage, k \in 0 .. 3 :
       \/ /\ call = Idle
          /\ \E f \in Files, d \in use.steps :
               /\ now + d <= use.until /\ now' = now + d
               /\ fs' = SystemInit(Enter(Cut(k), f, now').flash, g)
       \/ /\ call.file \in Files /\ now' = now
          /\ NeedsTag(fs, call.file, call.time)
          /\ fs' = SystemInit(LoopTag(Cut(k), call.file, call.time).flash, g)
       \/ /\ call.file \in Files /\ now' = now
          /\ ~NeedsTag(fs, call.file, call.time)
          /\ fs' = SystemInit(WriteRecord(Cut(k), call.file, call.time).flash, g)
  /\ boots' = boots + 1
  /\ call' = IF Stuck(fs') THEN Hung ELSE Idle
  /\ UNCHANGED <<use, acked>>

Next ==
  \/ \E f \in Files, d \in use.steps : AppendRecord(f, d)
  \/ InsertTag
  \/ WriteData
  \/ Restart

Spec == Init /\ [][Next]_vars

\* The calling thread keeps running: the loop of append_data goes on.
FairSpec == Spec /\ WF_vars(InsertTag) /\ WF_vars(WriteData)
-----------------------------------------------------------------------------
(* Properties.                                                             *)

\* There is one file, of two blocks or more, and two of its records are a unit of
\* time apart at least.
OneFile ==
  /\ \E f \in Files : Files = {f} /\ BlockLimit[f] >= 2
  /\ \A u \in Uses : \A d \in u.steps : d >= Unit

\* The recorder is restarted once at most.
OneRestart == \A u \in Uses : u.restarts <= 1

\* Where the recorder is restarted, a record comes every second.
RestartSecond == \A u \in Uses : u.restarts = 0 \/ u.steps = {1}

\* The bytes that the records of n seconds take at most, with the time tags between
\* them: a tag that goes over the end of a block counts from its last part, so that
\* up to a tag's size is lost behind it.
Span(n) == n * RecSize + ((n + Interval - 1) \div Interval) * (2 * TagSize - 1)

\* The records of n seconds fit into all the blocks of a file but one.
RetainFits(n) == \A f \in Files : Span(n) <= (BlockLimit[f] - 1) * (BlockSize - HeadSize) + 1

Desc(f)  == fs.file[f]
Owned(f) == {b \in Blocks : fs.map[b].file_id = f}

\* the k-th block of a file, following nextBlockChain from its start block
ChainBlock(f, k) ==
  LET at[n \in 0 .. k] == IF n = 0 THEN Desc(f).start_block ELSE fs.chain[at[n - 1]]
  IN at[k]

\* every byte of the record of time t is on the flash, in a block of the file
OnFlash(f, t) ==
  \A k \in 1 .. RecSize : \E b \in Owned(f), o \in Body :
     fs.flash[b].body[o] = RecBytes(f, t)[k]

NewestAcked(f, n) == {t \in acked[f] : Cardinality({u \in acked[f] : u > t}) < n}

\* Type invariant: the tables of flashfile.c stay in the range of their fields.
TypeOK ==
  /\ fs.map \in [Blocks -> [file_id : Files \cup {NoFile}, first : 0 .. BlockSize - 1,
                            prev : Blocks, count : Blocks]]
  /\ fs.chain \in [Blocks -> Blocks]
  /\ \A f \in Files :
       /\ Desc(f).start_block \in Blocks /\ Desc(f).total_block \in 0 .. NumBlocks
       /\ Desc(f).last_write_block \in Blocks /\ Desc(f).tag_block \in Blocks
       /\ Desc(f).tag_offset \in -1 .. BlockSize - 1
  /\ call \in [file : Files \cup {NoFile}, time : 0 .. use.until, round : {0, 1}]
  /\ use \in Uses /\ now \in 0 .. use.until + Interval
  /\ acked \in [Files -> SUBSET (0 .. use.until)]

\* (The next four are about the time up to the first restart: what a restart
\* finds again, and what it does not, is the matter of the last three.)

\* No call indexes flashFile[] with the id of a block that belongs to no file,
\* nor block_map[] with the "no free block" number (flashfile_block_write and
\* flashfile_init_record check neither).
NoWild == boots = 0 => ~fs.wild

\* Following nextBlockChain from start_block for total_block blocks visits
\* exactly the blocks whose header names the file, each once: no block of a
\* file is lost, shared or left behind when the ring of blocks turns.
ChainInFile ==
  \A f \in Files : boots = 0 /\ Desc(f).total_block > 0 =>
     /\ {ChainBlock(f, k) : k \in 0 .. Desc(f).total_block - 1} = Owned(f)
     /\ Cardinality(Owned(f)) = Desc(f).total_block

\* No file owns more blocks than flashFileBlockLimite gives it.
WithinLimit == boots = 0 => \A f \in Files : Cardinality(Owned(f)) <= BlockLimit[f]

\* No byte behind the header of a block is programmed twice with different values
\* (NOR flash would keep the AND of the two): the offsets of tags and records never
\* overlap, in a block or in the part that spilled over into the next one.
NoGarble ==
  boots = 0 => \A b \in Blocks, o \in Body : fs.flash[b].body[o] # Garbled

\* The header of block b as it is on the flash, if block_map has h.  The first block
\* of a file is its own predecessor: its header is programmed by
\* flashfile_append_file_tail_block, with the last written block 0 and an offset
\* computed from no tag, and by flashfile_init_record again, and the AND is left.
Printed(b, h) ==
  IF h.prev = b THEN [h EXCEPT !.prev = 0, !.first = And(HeadSize - 1, HeadSize)] ELSE h

\* The headers of a file's blocks read on the flash as block_map has them, so that
\* the next boot finds the same file, although a block that was given up is
\* programmed anew.  The one header programmed twice with different values is that of
\* a file's first block: with a header of four bytes its "first" is 0 on the flash.
HeadsTrue ==
  boots = 0 => \A b \in Blocks : fs.map[b].file_id \in Files =>
     fs.flash[b].head = Printed(b, fs.map[b])

NewestKept == \A f \in Files : \A t \in NewestAcked(f, Retain) : OnFlash(f, t)

\* a record comes every second
EverySecond == use.steps = {1}

\* With a record every second and while the recorder stays on, the newest
\* Retain records that append_record reported written are complete on the
\* flash, whatever blocks were erased to make room.
RetainsNewest == EverySecond /\ boots = 0 => NewestKept

\* With a record every second and while the recorder stays on, the loop of
\* flashfile_append_data has nothing to do: the tag that opened the running
\* interval was written, whichever block it went to, and the record fits behind it.
LoopProgress ==
  EverySecond /\ boots = 0 /\ call # Idle => ~NeedsTag(fs, call.file, call.time)

\* flashfile_append_record returns (a byte count or an error).
AppendReturns == call # Idle ~> call = Idle

\* Power cut at any flash operation: the blocks found at the next boot are
\* within the file's limit (the head is erased before the tail is written).
RestartWithinLimit ==
  [][boots' # boots =>
       \A f \in Files : Desc(f)'.total_block <= BlockLimit[f]]_vars

\* Power cut at any flash operation: the newest Retain records reported
\* written before it are still complete on the flash after the restart.
RestartKeepsRecords == [][boots' # boots => NewestKept']_vars

\* Between two calls, a restart finds again the blocks and the last time tag
\* of every file.
RecoversFiles ==
  [][boots' # boots /\ call = Idle /\ fs'.flash = fs.flash =>
       \A f \in Files :
         /\ Desc(f)'.start_block = Desc(f).start_block
         /\ Desc(f)'.total_block = Desc(f).total_block
         /\ Desc(f)'.tag_time = Desc(f).tag_time
         /\ Desc(f)'.tag_block = Desc(f).tag_block
         /\ Desc(f)'.tag_offset = Desc(f).tag_offset]_vars
=============================================================================
