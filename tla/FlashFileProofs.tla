--------------------------- MODULE FlashFileProofs ----------------------------
(*****************************************************************************)
(* The flash file system: its tables stay in range for any geometry, files,  *)
(* times and power cuts (FlashTypes).  The other theorems are about one file *)
(* whose records are a unit of time apart at least (OneFile), of any size    *)
(* and limit, up to the first restart: its blocks are a ring, no byte behind *)
(* a header is programmed twice, the headers on the flash are those of       *)
(* block_map but for the file's first one, and a power cut leaves it within  *)
(* its limit.  That it keeps the newest records is the matter of             *)
(* FlashKeepProofs.                                                          *)
(* The argument is one invariant (FileInv): the tables hold a ring q[1] ..   *)
(* q[m] of blocks (Ring), the bytes behind the last written one are erased   *)
(* (Clean), and that one lies before the slot of the next record and before  *)
(* the next time tag (Filled), wherever in the last two blocks that is (At). *)
(* A second one (HeadInv) says what each header programmed left (HeadOf).    *)
(*****************************************************************************)
EXTENDS FlashFile, WellFoundedInduction, SequenceTheorems, FiniteSetTheorems, TLAPS

-----------------------------------------------------------------------------
(* Numbers.                                                                *)

\* The numbers of twelve bits, which all offsets in a block and all blocks are.
Word == 0 .. 4095

\* The sizes of GeometryAssumption as numbers.
LEMMA Sizes ==
  /\ BlockSize \in Nat /\ BlockSize >= 8 /\ NumBlocks \in Nat /\ NumBlocks >= 2
  /\ HeadSize \in 1 .. BlockSize - 1 /\ HeadSize \in Nat \ {0}
  /\ TagSize \in Nat \ {0} /\ RecSize \in Nat \ {0} /\ Unit \in Nat \ {0} /\ Interval \in Nat \ {0}
BY GeometryAssumption

\* An offset in a block and a block have twelve bits.
LEMMA Words == 0 .. BlockSize - 1 \subseteq Word /\ Blocks \subseteq Word
<1>1. BlockSize \in Nat /\ BlockSize <= 4096 /\ NumBlocks \in Nat /\ NumBlocks <= 4096
  BY GeometryAssumption
<1>2. 0 .. BlockSize - 1 \subseteq Word
  BY <1>1 DEF Word
<1>3. 0 .. NumBlocks - 1 \subseteq Word
  BY <1>1 DEF Word
<1> QED
  BY <1>2, <1>3 DEF Blocks

\* The product of two natural numbers is one.
LEMMA TimesNat ==
  ASSUME NEW a \in Nat, NEW b \in Nat
  PROVE  a * b \in Nat
OBVIOUS

\* C's division of a time or an offset.
LEMMA DivIs ==
  ASSUME NEW a \in Int, NEW b \in Nat \ {0}
  PROVE  /\ a \div b \in Int /\ a % b \in 0 .. b - 1
         /\ a = b * (a \div b) + (a % b)
         /\ a \in Nat => a \div b \in Nat
OBVIOUS

\* flashfile_time_tag_offset: a tag and the records of its interval, and one
\* record or one tag more, fit into a block.
LEMMA StrideIs ==
  /\ Stride \in Nat \ {0} /\ Stride = TagSize + (Interval \div Unit) * RecSize
  /\ HeadSize + Stride + RecSize <= BlockSize
  /\ HeadSize + Stride + TagSize <= BlockSize
  /\ Unit * (Interval \div Unit) = Interval /\ Interval \div Unit \in Nat \ {0}
<1>1. Interval \div Unit \in Nat /\ Interval = Unit * (Interval \div Unit) + (Interval % Unit)
  BY Sizes, DivIs
<1>2. Interval % Unit = 0
  BY GeometryAssumption
<1>3. Unit * (Interval \div Unit) = Interval
  BY <1>1, <1>2, Sizes
<1>4. Interval \div Unit # 0
  BY <1>3, Sizes
<1>5. (Interval \div Unit) * RecSize \in Nat
  BY <1>1, Sizes, TimesNat
<1>6. Stride \in Nat \ {0}
  BY <1>5, Sizes DEF Stride
<1> QED
  BY <1>1, <1>3, <1>4, <1>6, GeometryAssumption DEF Stride

\* The files' ids and limits, and the ways of use, as numbers.
LEMMA LimitIs ==
  /\ Files \subseteq 0 .. 14 /\ BlockLimit \in [Files -> 1 .. NumBlocks - 1]
  /\ \A u \in Uses : u.steps \subseteq Nat \ {0} /\ u.until \in Nat /\ u.restarts \in Nat
BY FilesAssumption, Zenon

\* The bits of a number, as flash_write programs them.
Bit(y, w) == IF (y \div w) % 2 = 1 THEN w ELSE 0

\* A number of six bits is their sum.
LEMMA SixBits ==
  ASSUME NEW y \in 0 .. 63
  PROVE  y = Bit(y, 1) + Bit(y, 2) + Bit(y, 4) + Bit(y, 8) + Bit(y, 16) + Bit(y, 32)
BY DEF Bit

\* The bits of a number of twelve bits are those of its two halves h and l.
Halves(y, h, l) ==
  /\ y = 64 * h + l
  /\ Bit(y, 1) = Bit(l, 1) /\ Bit(y, 2) = Bit(l, 2) /\ Bit(y, 4) = Bit(l, 4)
  /\ Bit(y, 8) = Bit(l, 8) /\ Bit(y, 16) = Bit(l, 16) /\ Bit(y, 32) = Bit(l, 32)
  /\ Bit(y, 64) = 64 * Bit(h, 1) /\ Bit(y, 128) = 64 * Bit(h, 2) /\ Bit(y, 256) = 64 * Bit(h, 4)
  /\ Bit(y, 512) = 64 * Bit(h, 8) /\ Bit(y, 1024) = 64 * Bit(h, 16)
  /\ Bit(y, 2048) = 64 * Bit(h, 32)

\* A number of twelve bits has two halves.
LEMMA HalfBits ==
  ASSUME NEW y \in Word
  PROVE  \E h, l \in 0 .. 63 : Halves(y, h, l)
<1>1. PICK h, l \in 0 .. 63 : y = 64 * h + l
  <2>1. y \div 64 \in 0 .. 63 /\ y % 64 \in 0 .. 63 /\ y = 64 * (y \div 64) + (y % 64)
    BY DEF Word
  <2> QED
    BY <2>1
<1>2. /\ Bit(y, 1) = Bit(l, 1) /\ Bit(y, 2) = Bit(l, 2) /\ Bit(y, 4) = Bit(l, 4)
      /\ Bit(y, 8) = Bit(l, 8) /\ Bit(y, 16) = Bit(l, 16) /\ Bit(y, 32) = Bit(l, 32)
  <2>1. Bit(y, 1) = Bit(l, 1)
    BY <1>1 DEF Bit
  <2>2. Bit(y, 2) = Bit(l, 2)
    BY <1>1 DEF Bit
  <2>3. Bit(y, 4) = Bit(l, 4)
    BY <1>1 DEF Bit
  <2>4. Bit(y, 8) = Bit(l, 8)
    BY <1>1 DEF Bit
  <2>5. Bit(y, 16) = Bit(l, 16)
    BY <1>1 DEF Bit
  <2>6. Bit(y, 32) = Bit(l, 32)
    BY <1>1 DEF Bit
  <2> QED
    BY <2>1, <2>2, <2>3, <2>4, <2>5, <2>6
<1>3. /\ Bit(y, 64) = 64 * Bit(h, 1) /\ Bit(y, 128) = 64 * Bit(h, 2) /\ Bit(y, 256) = 64 * Bit(h, 4)
      /\ Bit(y, 512) = 64 * Bit(h, 8) /\ Bit(y, 1024) = 64 * Bit(h, 16)
      /\ Bit(y, 2048) = 64 * Bit(h, 32)
  <2>1. Bit(y, 64) = 64 * Bit(h, 1)
    BY <1>1 DEF Bit
  <2>2. Bit(y, 128) = 64 * Bit(h, 2)
    BY <1>1 DEF Bit
  <2>3. Bit(y, 256) = 64 * Bit(h, 4)
    BY <1>1 DEF Bit
  <2>4. Bit(y, 512) = 64 * Bit(h, 8)
    BY <1>1 DEF Bit
  <2>5. Bit(y, 1024) = 64 * Bit(h, 16)
    BY <1>1 DEF Bit
  <2>6. Bit(y, 2048) = 64 * Bit(h, 32)
    BY <1>1 DEF Bit
  <2> QED
    BY <2>1, <2>2, <2>3, <2>4, <2>5, <2>6
<1>4. Halves(y, h, l)
  BY <1>1, <1>2, <1>3 DEF Halves
<1> QED
  BY <1>4

\* The sum of the bits of a number of twelve.
Summed(y) ==
  y = Bit(y, 1) + Bit(y, 2) + Bit(y, 4) + Bit(y, 8) + Bit(y, 16) + Bit(y, 32) + Bit(y, 64)
      + Bit(y, 128) + Bit(y, 256) + Bit(y, 512) + Bit(y, 1024) + Bit(y, 2048)

\* A number of twelve bits is their sum.
LEMMA TwelveBits ==
  ASSUME NEW y \in Word
  PROVE  Summed(y)
<1>1. PICK h, l \in 0 .. 63 : Halves(y, h, l)
  BY HalfBits
<1>2. /\ h = Bit(h, 1) + Bit(h, 2) + Bit(h, 4) + Bit(h, 8) + Bit(h, 16) + Bit(h, 32)
      /\ l = Bit(l, 1) + Bit(l, 2) + Bit(l, 4) + Bit(l, 8) + Bit(l, 16) + Bit(l, 32)
  BY SixBits
<1>3. \A w \in {1, 2, 4, 8, 16, 32} : Bit(h, w) \in Nat /\ Bit(l, w) \in Nat
  BY DEF Bit
<1> QED
  BY <1>1, <1>2, <1>3 DEF Halves, Summed

\* Programming a field clears bits only, and none of those it keeps.
LEMMA AndIs ==
  ASSUME NEW x \in Word, NEW y \in Word
  PROVE  And(x, y) \in 0 .. y /\ And(x, x) = x
<1> DEFINE W == {1, 2, 4, 8, 16, 32, 64, 128, 256, 512, 1024, 2048}
           b(w) == IF (x \div w) % 2 = 1 /\ (y \div w) % 2 = 1 THEN w ELSE 0
<1>1. And(x, x) = x
  <2>1. And(x, x) = Bit(x, 1) + Bit(x, 2) + Bit(x, 4) + Bit(x, 8) + Bit(x, 16) + Bit(x, 32) + Bit(x, 64)
                    + Bit(x, 128) + Bit(x, 256) + Bit(x, 512) + Bit(x, 1024) + Bit(x, 2048)
    BY DEF And, Bit
  <2>2. Summed(x)
    BY TwelveBits
  <2> QED
    BY <2>1, <2>2 DEF Summed
<1>2. \A w \in W : b(w) \in Nat /\ b(w) <= Bit(y, w)
  BY DEF Bit
<1>3. \A w \in W : Bit(y, w) \in Nat
  BY DEF Bit
<1>4. And(x, y) = b(1) + b(2) + b(4) + b(8) + b(16) + b(32) + b(64) + b(128) + b(256) + b(512)
                  + b(1024) + b(2048)
  BY DEF And
<1> HIDE DEF b
<1>5. Summed(y)
  BY TwelveBits
<1>6. And(x, y) \in 0 .. y
  <2>1. b(1) + b(2) + b(4) + b(8) \in 0 .. Bit(y, 1) + Bit(y, 2) + Bit(y, 4) + Bit(y, 8)
    BY <1>2, <1>3
  <2>2. b(16) + b(32) + b(64) + b(128) \in 0 .. Bit(y, 16) + Bit(y, 32) + Bit(y, 64) + Bit(y, 128)
    BY <1>2, <1>3
  <2>3. b(256) + b(512) + b(1024) + b(2048)
          \in 0 .. Bit(y, 256) + Bit(y, 512) + Bit(y, 1024) + Bit(y, 2048)
    BY <1>2, <1>3
  <2>4. \A w \in W : b(w) \in Nat /\ Bit(y, w) \in Nat
    BY <1>2, <1>3
  <2> QED
    BY <2>1, <2>2, <2>3, <2>4, <1>4, <1>5 DEF Summed
<1> QED
  BY <1>1, <1>6

\* Programming an erased field of four bits gives the new value.
LEMMA AndErased ==
  ASSUME NEW x \in 0 .. 15
  PROVE  And(15, x) = x
BY DEF And

-----------------------------------------------------------------------------
(* One flash operation and the power.                                      *)

ByteSet(n) == {Erased, Garbled} \cup {<<"tag", t, Stride, k>> : t \in 0 .. n, k \in 1 .. TagSize}
              \cup {<<"rec", f, t, k>> : f \in Files, t \in 0 .. n, k \in 1 .. RecSize}
HeadSet == [file_id : Files \cup {NoFile}, first : 0 .. BlockSize - 1, prev : Blocks, count : Blocks]
DescSet(n) == [start_block : Blocks, total_block : 0 .. NumBlocks, last_write_block : Blocks,
               last_write_offset : 0 .. BlockSize - 1, tag_time : 0 .. n, tag_next : Nat,
               tag_block : Blocks, tag_offset : -1 .. BlockSize - 1]
BodySet(n)  == [Body -> ByteSet(n)]
FlashSet(n) == [Blocks -> [head : HeadSet, body : BodySet(n)]]
States(n) == [map : [Blocks -> HeadSet], chain : [Blocks -> Blocks], file : [Files -> DescSet(n)],
              flash : FlashSet(n), fuel : Int, wild : BOOLEAN, ret : Int]

\* The tables of RAM and what the call returns stay as they are.
SameRam(s, t) == /\ t.map = s.map /\ t.chain = s.chain /\ t.file = s.file
                 /\ t.wild = s.wild /\ t.ret = s.ret
\* Power.
Power(s, t) == /\ t.fuel # 0 => s.fuel # 0
               /\ s.fuel = -1 => t.fuel = -1
               /\ s.fuel = 0 => t.flash = s.flash

\* A flash operation changes the flash, or nothing once the power is gone.
LEMMA FlashOpIs ==
  ASSUME NEW n \in Nat, NEW s \in States(n), NEW F \in FlashSet(n), NEW t, t = FlashOp(s, F)
  PROVE  /\ t \in States(n) /\ SameRam(s, t) /\ Power(s, t)
         /\ s.fuel # 0 => t.flash = F
<1>1. CASE s.fuel = 0
  BY <1>1 DEF FlashOp, SameRam, Power, States
<1>2. CASE s.fuel # 0
  <2>1. t = [s EXCEPT !.flash = F, !.fuel = IF s.fuel > 0 THEN s.fuel - 1 ELSE s.fuel]
    BY <1>2, Zenon DEF FlashOp
  <2>2. s.fuel \in Int /\ (IF s.fuel > 0 THEN s.fuel - 1 ELSE s.fuel) \in Int
    BY DEF States
  <2>3. /\ t.map = s.map /\ t.chain = s.chain /\ t.file = s.file /\ t.wild = s.wild
        /\ t.ret = s.ret /\ t.flash = F /\ t.fuel = IF s.fuel > 0 THEN s.fuel - 1 ELSE s.fuel
    BY <2>1, Zenon DEF States
  <2>4. t \in States(n)
    BY <2>1, <2>2, Zenon DEF States
  <2> QED
    BY <1>2, <2>2, <2>3, <2>4 DEF SameRam, Power
<1> QED
  BY <1>1, <1>2

\* An erased block has the types of a block and belongs to no file.
LEMMA ErasedType ==
  ASSUME NEW n \in Nat
  PROVE  /\ ErasedHead \in HeadSet /\ ErasedBlock \in [head : HeadSet, body : BodySet(n)]
         /\ ErasedBlock.head.file_id = NoFile /\ \A o \in Body : ErasedBlock.body[o] = Erased
<1>1. ErasedHead \in HeadSet /\ ErasedHead.file_id = NoFile
  BY Sizes DEF ErasedHead, HeadSet, Blocks
<1>2. Erased \in ByteSet(n)
  BY DEF ByteSet
<1> QED
  BY <1>1, <1>2 DEF ErasedBlock, BodySet

\* flash_erase_block
LEMMA EraseIs ==
  ASSUME NEW n \in Nat, NEW s \in States(n), NEW b \in Blocks, NEW t, t = EraseBlock(s, b)
  PROVE  /\ t \in States(n) /\ SameRam(s, t) /\ Power(s, t)
         /\ s.fuel # 0 =>
              /\ t.flash[b].head = ErasedHead
              /\ t.flash[b].head.file_id = NoFile /\ \A o \in Body : t.flash[b].body[o] = Erased
              /\ \A c \in Blocks : c # b => t.flash[c] = s.flash[c]
<1> PICK F : F = [s.flash EXCEPT ![b] = ErasedBlock]
  OBVIOUS
<1>1. s.flash \in FlashSet(n)
  BY DEF States
<1>2. F \in FlashSet(n)
  BY <1>1, ErasedType DEF FlashSet
<1>3. F[b] = ErasedBlock /\ \A c \in Blocks : c # b => F[c] = s.flash[c]
  BY <1>1 DEF FlashSet
<1>4. /\ t \in States(n) /\ SameRam(s, t) /\ Power(s, t)
      /\ s.fuel # 0 => t.flash = F
  BY <1>2, FlashOpIs DEF EraseBlock
<1>5. ErasedBlock.head = ErasedHead
  BY DEF ErasedBlock
<1> QED
  BY <1>3, <1>4, <1>5, ErasedType

\* A header programmed over an erased one, or over its own file's, names the file.
LEMMA AndHeadIs ==
  ASSUME NEW h \in HeadSet, NEW g \in HeadSet, h.file_id \in {NoFile, g.file_id}
  PROVE  AndHead(h, g) \in HeadSet /\ AndHead(h, g).file_id = g.file_id
<1>1. /\ g.file_id \in Files \cup {NoFile} /\ g.file_id \in 0 .. 15 /\ NoFile = 15
      /\ g.first \in 0 .. BlockSize - 1 /\ g.prev \in Blocks /\ g.count \in Blocks
      /\ h.first \in 0 .. BlockSize - 1 /\ h.prev \in Blocks /\ h.count \in Blocks
  <2>1. Files \cup {NoFile} \subseteq 0 .. 15
    <3>1. Files \subseteq 0 .. 14
      BY LimitIs
    <3> QED
      BY <3>1 DEF NoFile
  <2> QED
    BY <2>1 DEF HeadSet, NoFile
<1>2. /\ g.first \in Word /\ g.prev \in Word /\ g.count \in Word
      /\ h.first \in Word /\ h.prev \in Word /\ h.count \in Word
  BY <1>1, Words
<1>3. And(h.file_id, g.file_id) = g.file_id
  <2>1. CASE h.file_id = NoFile
    BY <1>1, <2>1, AndErased DEF NoFile
  <2>2. CASE h.file_id = g.file_id
    <3>1. g.file_id \in Word
      BY <1>1, SMTT(60) DEF Word
    <3> QED
      BY <2>2, <3>1, AndIs
  <2> QED
    BY <1>1, <2>1, <2>2
<1>4. And(h.first, g.first) \in 0 .. BlockSize - 1
  <2>1. And(h.first, g.first) \in 0 .. g.first
    BY <1>2, AndIs
  <2> QED
    BY <1>1, <2>1, Sizes
<1>5. And(h.prev, g.prev) \in Blocks
  <2>1. And(h.prev, g.prev) \in 0 .. g.prev
    BY <1>2, AndIs
  <2> QED
    BY <1>1, <2>1, Sizes DEF Blocks
<1>6. And(h.count, g.count) \in Blocks
  <2>1. And(h.count, g.count) \in 0 .. g.count
    BY <1>2, AndIs
  <2> QED
    BY <1>1, <2>1, Sizes DEF Blocks
<1> QED
  BY <1>1, <1>3, <1>4, <1>5, <1>6 DEF AndHead, HeadSet

\* flash_write of a header
LEMMA WriteHeadIs ==
  ASSUME NEW n \in Nat, NEW s \in States(n), NEW b \in Blocks,
         s.fuel # 0 => s.flash[b].head.file_id \in {NoFile, s.map[b].file_id},
         NEW t, t = WriteHead(s, b)
  PROVE  /\ t \in States(n) /\ SameRam(s, t) /\ Power(s, t)
         /\ s.fuel # 0 =>
              /\ t.flash[b].head = AndHead(s.flash[b].head, s.map[b])
              /\ t.flash[b].head.file_id = s.map[b].file_id /\ t.flash[b].body = s.flash[b].body
              /\ \A c \in Blocks : c # b => t.flash[c] = s.flash[c]
<1>1. s.flash \in FlashSet(n) /\ s.map[b] \in HeadSet /\ s.flash[b] \in [head : HeadSet, body : BodySet(n)]
      /\ s.flash[b].head \in HeadSet /\ s.flash[b].body \in BodySet(n)
  BY DEF States, FlashSet
<1> PICK h : h = AndHead(s.flash[b].head, s.map[b])
  OBVIOUS
<1> PICK F : F = [s.flash EXCEPT ![b].head = h]
  OBVIOUS
<1>0. t = FlashOp(s, F)
  BY DEF WriteHead
<1>2. CASE s.fuel = 0
  <2>1. t = s
    BY <1>0, <1>2 DEF FlashOp
  <2> QED
    BY <1>2, <2>1 DEF SameRam, Power
<1>3. CASE s.fuel # 0
  <2>1. h \in HeadSet /\ h.file_id = s.map[b].file_id
    BY <1>1, <1>3, AndHeadIs
  <2>2. F \in FlashSet(n)
    BY <1>1, <2>1 DEF FlashSet
  <2>3. F[b].head = h /\ F[b].body = s.flash[b].body /\ \A c \in Blocks : c # b => F[c] = s.flash[c]
    BY <1>1 DEF FlashSet
  <2>4. /\ t \in States(n) /\ SameRam(s, t) /\ Power(s, t) /\ t.flash = F
    BY <1>0, <1>3, <2>2, FlashOpIs
  <2> QED
    BY <2>1, <2>3, <2>4
<1> QED
  BY <1>2, <1>3

-----------------------------------------------------------------------------
(* Writes into one block.                                                  *)

\* A descriptor with another position of the last write.
SameFile(d, e) == /\ e.start_block = d.start_block /\ e.total_block = d.total_block
                  /\ e.tag_time = d.tag_time /\ e.tag_next = d.tag_next
                  /\ e.tag_block = d.tag_block /\ e.tag_offset = d.tag_offset

\* flashfile_block_write moves the last write position of the block's owner, or
\* runs out of flashFile[] if it has none.
LEMMA TouchIs ==
  ASSUME NEW n \in Nat, NEW s \in States(n), NEW b \in Blocks, NEW off \in 0 .. BlockSize - 1,
         NEW t, t = Touch(s, b, off)
  PROVE  /\ t \in States(n) /\ t.map = s.map /\ t.chain = s.chain /\ t.flash = s.flash
         /\ t.fuel = s.fuel /\ t.ret = s.ret
         /\ \A f \in Files : f # s.map[b].file_id => t.file[f] = s.file[f]
         /\ s.map[b].file_id \in Files =>
              /\ t.wild = s.wild
              /\ t.file[s.map[b].file_id].last_write_block = b
              /\ t.file[s.map[b].file_id].last_write_offset = off
              /\ SameFile(s.file[s.map[b].file_id], t.file[s.map[b].file_id])
         /\ s.map[b].file_id \notin Files => t.wild /\ t.file = s.file
<1> PICK f : f = s.map[b].file_id
  OBVIOUS
<1>1. CASE f \in Files
  <2>1. t = [s EXCEPT !.file[f] = [s.file[f] EXCEPT !.last_write_block = b,
                                                    !.last_write_offset = off]]
    BY <1>1, Zenon DEF Touch
  <2>2. s.file \in [Files -> DescSet(n)] /\ s.file[f] \in DescSet(n)
    BY <1>1 DEF States
  <2> PICK e : e = [s.file[f] EXCEPT !.last_write_block = b, !.last_write_offset = off]
    BY SMTT(60)
  <2>3. e \in DescSet(n)
    BY <2>2 DEF DescSet
  <2>4. e.last_write_block = b /\ e.last_write_offset = off /\ SameFile(s.file[f], e)
    BY <2>2 DEF DescSet, SameFile
  <2>5. t.file = [s.file EXCEPT ![f] = e]
    BY <1>1, <2>1, <2>2 DEF States
  <2>6. /\ t.map = s.map /\ t.chain = s.chain /\ t.flash = s.flash
        /\ t.fuel = s.fuel /\ t.ret = s.ret /\ t.wild = s.wild
    BY <2>1, Zenon DEF States
  <2>7. t.file \in [Files -> DescSet(n)] /\ t.file[f] = e /\ \A g \in Files : g # f => t.file[g] = s.file[g]
    BY <1>1, <2>2, <2>3, <2>5
  <2>8. t \in States(n)
    BY <2>1, <2>5, <2>7, Zenon DEF States
  <2> QED
    BY <1>1, <2>4, <2>6, <2>7, <2>8
<1>2. CASE f \notin Files
  <2>1. t = [s EXCEPT !.wild = TRUE]
    BY <1>2, Zenon DEF Touch
  <2>2. t \in States(n)
    BY <2>1, Zenon DEF States
  <2>3. /\ t.map = s.map /\ t.chain = s.chain /\ t.flash = s.flash /\ t.file = s.file
        /\ t.fuel = s.fuel /\ t.ret = s.ret /\ t.wild = TRUE
    BY <2>1, Zenon DEF States
  <2> QED
    BY <1>2, <2>2, <2>3
<1> QED
  BY <1>1, <1>2

\* Bytes programmed over erased ones are what was written; the others stay.
LEMMA ProgrammedIs ==
  ASSUME NEW n \in Nat, NEW body \in BodySet(n), NEW off \in Nat, NEW bytes \in Seq(ByteSet(n)),
         NEW p, p = Programmed(body, off, bytes)
  PROVE  /\ p \in BodySet(n)
         /\ \A o \in Body : o < off \/ o >= off + Len(bytes) => p[o] = body[o]
         /\ \A o \in Body : o >= off /\ o < off + Len(bytes) /\ body[o] = Erased =>
              /\ o - off + 1 \in 1 .. Len(bytes) /\ p[o] = bytes[o - off + 1]
<1>0. Body \subseteq Nat /\ Len(bytes) \in Nat
  BY Sizes DEF Body
<1>1. \A o \in Body : p[o] = IF o \in off .. off + Len(bytes) - 1
                             THEN AndByte(body[o], bytes[o - off + 1]) ELSE body[o]
  BY DEF Programmed
<1>2. \A x, y \in ByteSet(n) : AndByte(x, y) \in ByteSet(n) /\ (x = Erased => AndByte(x, y) = y)
  BY DEF AndByte, ByteSet
<1>3. \A o \in Body : o \in off .. off + Len(bytes) - 1 =>
         o - off + 1 \in 1 .. Len(bytes) /\ bytes[o - off + 1] \in ByteSet(n)
  BY <1>0
<1>4. \A o \in Body : body[o] \in ByteSet(n)
  BY DEF BodySet
<1>5. \A o \in Body : p[o] \in ByteSet(n)
  BY <1>1, <1>2, <1>3, <1>4
<1>6. p \in BodySet(n)
  BY <1>5 DEF BodySet, Programmed
<1>7. ASSUME NEW o \in Body, o < off \/ o >= off + Len(bytes) PROVE p[o] = body[o]
  BY <1>0, <1>1, <1>7
<1>8. ASSUME NEW o \in Body, o >= off, o < off + Len(bytes), body[o] = Erased
      PROVE  o - off + 1 \in 1 .. Len(bytes) /\ p[o] = bytes[o - off + 1]
  <2>1. o \in off .. off + Len(bytes) - 1
    BY <1>0, <1>8
  <2>2. p[o] = AndByte(body[o], bytes[o - off + 1])
    BY <1>1, <2>1
  <2> QED
    BY <1>2, <1>3, <1>4, <1>8, <2>1, <2>2
<1> QED
  BY <1>6, <1>7, <1>8

\* The bytes of the flash after a run of bytes is programmed.
Wrote(F, G, b, off, bytes) ==
  /\ \A c \in Blocks : G[c].head = F[c].head
  /\ \A c \in Blocks : c # b => G[c].body = F[c].body
  /\ \A o \in Body : o < off \/ o >= off + Len(bytes) => G[b].body[o] = F[b].body[o]
  /\ \A o \in Body : o >= off /\ o < off + Len(bytes) /\ F[b].body[o] = Erased =>
       /\ o - off + 1 \in 1 .. Len(bytes) /\ G[b].body[o] = bytes[o - off + 1]

\* flash_write into a block's body changes the bytes of that run and no header.
LEMMA WriteBodyIs ==
  ASSUME NEW n \in Nat, NEW s \in States(n), NEW b \in Blocks, NEW off \in Nat,
         NEW bytes \in Seq(ByteSet(n)), NEW t, t = WriteBody(s, b, off, bytes)
  PROVE  /\ t \in States(n) /\ SameRam(s, t) /\ Power(s, t)
         /\ s.fuel # 0 => Wrote(s.flash, t.flash, b, off, bytes)
<1>1. /\ s.flash \in FlashSet(n) /\ s.flash[b] \in [head : HeadSet, body : BodySet(n)]
      /\ s.flash[b].head \in HeadSet /\ s.flash[b].body \in BodySet(n)
  BY DEF States, FlashSet
<1> PICK p : p = Programmed(s.flash[b].body, off, bytes)
  OBVIOUS
<1>2. /\ p \in BodySet(n)
      /\ \A o \in Body : o < off \/ o >= off + Len(bytes) => p[o] = s.flash[b].body[o]
      /\ \A o \in Body : o >= off /\ o < off + Len(bytes) /\ s.flash[b].body[o] = Erased =>
           /\ o - off + 1 \in 1 .. Len(bytes) /\ p[o] = bytes[o - off + 1]
  BY <1>1, ProgrammedIs, SMTT(60)
<1> PICK F : F = [s.flash EXCEPT ![b].body = p]
  OBVIOUS
<1>3. t = FlashOp(s, F)
  BY Zenon DEF WriteBody
<1>4. F \in FlashSet(n)
  BY <1>1, <1>2 DEF FlashSet
<1>5. /\ F[b].head = s.flash[b].head /\ F[b].body = p
      /\ \A c \in Blocks : c # b => F[c] = s.flash[c]
  BY <1>1 DEF FlashSet
<1>6. Wrote(s.flash, F, b, off, bytes)
  BY <1>2, <1>5, Zenon DEF Wrote
<1>7. /\ t \in States(n) /\ SameRam(s, t) /\ Power(s, t)
      /\ s.fuel # 0 => t.flash = F
  BY <1>3, <1>4, FlashOpIs
<1> QED
  BY <1>6, <1>7, Zenon

\* What flashfile_block_write leaves in RAM.
Touched(s, t, b, off) ==
  /\ t.map = s.map /\ t.chain = s.chain
  /\ \A f \in Files : f # s.map[b].file_id => t.file[f] = s.file[f]
  /\ s.map[b].file_id \in Files =>
       /\ t.wild = s.wild
       /\ t.file[s.map[b].file_id].last_write_block = b
       /\ t.file[s.map[b].file_id].last_write_offset = off
       /\ SameFile(s.file[s.map[b].file_id], t.file[s.map[b].file_id])
  /\ s.map[b].file_id \notin Files => t.wild /\ t.file = s.file

\* flashfile_block_write of a run that fits into the block.
LEMMA BlockWriteIs ==
  ASSUME NEW n \in Nat, NEW s \in States(n), NEW b \in Blocks, NEW off \in 0 .. BlockSize - 1,
         NEW bytes \in Seq(ByteSet(n)), off + Len(bytes) <= BlockSize,
         NEW t, t = BlockWrite(s, b, off, bytes)
  PROVE  /\ t \in States(n) /\ Power(s, t) /\ Touched(s, t, b, off) /\ t.ret = Len(bytes)
         /\ s.fuel # 0 => Wrote(s.flash, t.flash, b, off, bytes)
<1> PICK u : u = Touch(s, b, off)
  OBVIOUS
<1> PICK v : v = WriteBody(u, b, off, bytes)
  OBVIOUS
<1>1. off \in Nat /\ off <= BlockSize /\ Len(bytes) \in Nat /\ Len(bytes) \in Int
  BY Sizes, LenProperties
<1>2. t = [v EXCEPT !.ret = Len(bytes)]
  BY <1>1, Sizes, SMTT(60) DEF BlockWrite
<1>3. /\ u \in States(n) /\ Touched(s, u, b, off) /\ u.flash = s.flash /\ u.fuel = s.fuel
  BY TouchIs DEF Touched
<1>4. /\ v \in States(n) /\ SameRam(u, v) /\ Power(u, v)
      /\ u.fuel # 0 => Wrote(u.flash, v.flash, b, off, bytes)
  BY <1>1, <1>3, WriteBodyIs, Zenon
<1>5. /\ t \in States(n) /\ t.map = v.map /\ t.chain = v.chain /\ t.file = v.file /\ t.wild = v.wild
      /\ t.flash = v.flash /\ t.fuel = v.fuel /\ t.ret = Len(bytes)
  BY <1>1, <1>2, <1>4, Zenon DEF States
<1>6. Touched(s, t, b, off)
  BY <1>3, <1>4, <1>5 DEF Touched, SameRam
<1>7. Power(s, t)
  BY <1>3, <1>4, <1>5, Zenon DEF Power
<1> QED
  BY <1>3, <1>4, <1>5, <1>6, <1>7, Zenon

-----------------------------------------------------------------------------
(* Recursive functions on 0 .. N.                                          *)

\* Induction over 0 .. n, for a set instead of a predicate.
LEMMA Induction ==
  ASSUME NEW n \in Nat, NEW S, 0 \in S, \A k \in 0 .. n - 1 : k \in S => k + 1 \in S
  PROVE  0 .. n \subseteq S
<1> DEFINE I == {k \in 0 .. n : k \notin S}
<1> SUFFICES ASSUME I # {} PROVE FALSE
  OBVIOUS
<1>0. I \in SUBSET Nat
  OBVIOUS
<1> HIDE DEF I
<1>1. IsWellFoundedOn(OpToRel(<, Nat), Nat)
  BY NatLessThanWellFounded
<1>2. PICK x \in I : \A y \in I : ~ (<<y, x>> \in OpToRel(<, Nat))
  BY <1>0, <1>1, WFMin, Zenon
<1>3. x \in 0 .. n /\ x \notin S
  BY <1>2 DEF I
<1>4. x - 1 \in 0 .. n - 1 /\ x - 1 \in Nat /\ x \in Nat /\ x - 1 < x
  BY <1>3
<1>5. x - 1 \notin S
  BY <1>3, <1>4
<1>6. x - 1 \in I
  BY <1>4, <1>5 DEF I
<1>7. \A ss \in Nat \X Nat : ss[1] < ss[2] => ss \in OpToRel(<, Nat)
  BY Zenon DEF OpToRel
<1>8. <<x - 1, x>> \in Nat \X Nat /\ <<x - 1, x>>[1] = x - 1 /\ <<x - 1, x>>[2] = x
  BY <1>4, SMT
<1>9. <<x - 1, x>> \in OpToRel(<, Nat)
  BY <1>4, <1>7, <1>8, Zenon
<1> QED
  BY <1>2, <1>6, <1>9, Zenon

\* A function on 0 .. N begins with v and goes on with the steps h.
Recursive(N, V, v, h) ==
  \E g \in [0 .. N -> V] : g[0] = v /\ \A k \in 1 .. N : g[k] = h[k][g[k - 1]]

\* There is such a function, whatever the steps are.
LEMMA Recursion ==
  ASSUME NEW N \in Nat, NEW V, NEW v \in V, NEW h \in [1 .. N -> [V -> V]]
  PROVE  Recursive(N, V, v, h)
<1> DEFINE Good(g, n) == g[0] = v /\ \A k \in 1 .. n : g[k] = h[k][g[k - 1]]
           S == {n \in 0 .. N : \E g \in [0 .. n -> V] : Good(g, n)}
<1>1. 0 \in S
  <2> DEFINE g == [k \in 0 .. 0 |-> v]
  <2>1. g \in [0 .. 0 -> V] /\ Good(g, 0)
    OBVIOUS
  <2> HIDE DEF g
  <2>2. \E x \in [0 .. 0 -> V] : Good(x, 0)
    BY <2>1
  <2> QED
    BY <2>2
<1>2. ASSUME NEW n \in 0 .. N - 1, n \in S PROVE n + 1 \in S
  <2>1. PICK g \in [0 .. n -> V] : Good(g, n)
    BY <1>2
  <2> DEFINE x == [k \in 0 .. n + 1 |-> IF k <= n THEN g[k] ELSE h[n + 1][g[n]]]
  <2>2. x \in [0 .. n + 1 -> V]
    <3>1. h[n + 1][g[n]] \in V
      OBVIOUS
    <3> QED
      BY <3>1
  <2>3. x[0] = v /\ \A k \in 1 .. n + 1 : x[k] = h[k][x[k - 1]]
    <3>1. x[0] = v
      BY <2>1
    <3> SUFFICES ASSUME NEW k \in 1 .. n + 1 PROVE x[k] = h[k][x[k - 1]]
      BY <3>1
    <3>2. CASE k <= n
      <4>1. x[k] = g[k] /\ x[k - 1] = g[k - 1] /\ g[k] = h[k][g[k - 1]]
        BY <2>1, <3>2
      <4> QED
        BY <4>1
    <3>3. CASE k = n + 1
      <4>1. x[k] = h[k][g[n]] /\ x[k - 1] = g[n]
        BY <3>3
      <4> QED
        BY <4>1
    <3> QED
      BY <3>2, <3>3
  <2> HIDE DEF x
  <2>4. Good(x, n + 1)
    BY <2>3
  <2> QED
    BY <2>2, <2>4, SMTT(60)
<1>3. N \in S
  <2>1. \A k \in 0 .. N - 1 : k \in S => k + 1 \in S
    BY <1>2
  <2> HIDE DEF S
  <2>2. 0 .. N \subseteq S
    BY <1>1, <2>1, Induction, Zenon
  <2> QED
    BY <2>2
<1> QED
  BY <1>3 DEF Recursive

\* A function on 0 .. N begins with v and follows the steps as long as its values
\* are in V.
Follows(N, V, v, h, G) ==
  /\ N \in Nat /\ v \in V /\ h \in [1 .. N -> [V -> V]]
  /\ G[0] = v /\ \A k \in 1 .. N : G[k - 1] \in V => G[k] = h[k][G[k - 1]]

Stays(N, V, G) == \A k \in 0 .. N : G[k] \in V

\* Such a function has its values in V.
LEMMA RecursionType ==
  ASSUME NEW N, NEW V, NEW v, NEW h, NEW G, Follows(N, V, v, h, G)
  PROVE  Stays(N, V, G)
<1> DEFINE T == {n \in 0 .. N : G[n] \in V}
<1>0. /\ N \in Nat /\ v \in V /\ h \in [1 .. N -> [V -> V]]
      /\ G[0] = v /\ \A k \in 1 .. N : G[k - 1] \in V => G[k] = h[k][G[k - 1]]
  BY DEF Follows
<1>1. 0 \in T
  BY <1>0
<1>2. \A n \in 0 .. N - 1 : n \in T => n + 1 \in T
  <2> SUFFICES ASSUME NEW n \in 0 .. N - 1, n \in T PROVE n + 1 \in T
    OBVIOUS
  <2>1. n + 1 \in 1 .. N /\ (n + 1) - 1 = n /\ G[n] \in V /\ n + 1 \in 0 .. N
    BY <1>0
  <2>2. G[n + 1] = h[n + 1][G[n]]
    BY <1>0, <2>1
  <2>3. h[n + 1][G[n]] \in V
    BY <1>0, <2>1
  <2> QED
    BY <2>1, <2>2, <2>3
<1>3. 0 .. N \subseteq T
  <2> HIDE DEF T
  <2> QED
    BY <1>0, <1>1, <1>2, Induction, Zenon
<1> QED
  BY <1>3 DEF Stays

-----------------------------------------------------------------------------
(* The scan for a free block.                                              *)

\* What the scan for a free block carries from block to block.
Scans == [found : Blocks \cup {NoBlock}, count : Blocks]

\* One step of the scan for a free block: the block found is free, and the scan
\* keeps a block once it has one.
LEMMA CandidateIs ==
  ASSUME NEW n \in Nat, NEW s \in States(n), NEW i \in Blocks, NEW p \in Scans,
         NEW c, c = Candidate(s, i, p)
  PROVE  /\ c \in Scans
         /\ c.found \in {p.found, i}
         /\ s.map[i].file_id # NoFile => c = p
         /\ s.map[i].file_id = NoFile => c.found # NoBlock
         /\ c.found = i => p.found = i \/ s.map[i].file_id = NoFile
         /\ p.found # NoBlock => c.found # NoBlock
         /\ s.map[i] = ErasedHead /\ p.count = NumBlocks - 1 =>
              /\ c.count = NumBlocks - 1
              /\ c.found = IF p.found = NoBlock THEN i ELSE p.found
<1>1. s.map[i] \in HeadSet /\ s.map[i].count \in Blocks
  BY DEF States, HeadSet
<1>2. p.found \in Blocks \cup {NoBlock} /\ p.count \in Blocks
  BY DEF Scans
<1>3. i # NoBlock
  BY Sizes DEF Blocks, NoBlock
<1>4. CASE s.map[i].file_id # NoFile
  <2>1. c = p
    BY <1>4, Zenon DEF Candidate
  <2>2. s.map[i] # ErasedHead
    BY <1>4 DEF ErasedHead
  <2> QED
    BY <1>4, <2>1, <2>2
<1>5. CASE s.map[i].file_id = NoFile /\ CountCompare(p.count, s.map[i].count) > 0
  <2>1. c = [found |-> i, count |-> s.map[i].count]
    BY <1>5, Zenon DEF Candidate
  <2>2. c \in Scans /\ c.found = i
    BY <1>1, <2>1 DEF Scans
  <2>3. ~(s.map[i] = ErasedHead /\ p.count = NumBlocks - 1)
    <3>1. CountCompare(NumBlocks - 1, NumBlocks - 1) = 0
      BY Sizes DEF CountCompare
    <3> QED
      BY <1>5, <3>1 DEF ErasedHead
  <2> QED
    BY <1>3, <1>5, <2>2, <2>3
<1>6. CASE s.map[i].file_id = NoFile /\ ~(CountCompare(p.count, s.map[i].count) > 0)
  <2>1. c = [found |-> IF p.found = NoBlock THEN i ELSE p.found, count |-> p.count]
    BY <1>6, Zenon DEF Candidate
  <2>2. c \in Scans /\ c.found = (IF p.found = NoBlock THEN i ELSE p.found) /\ c.count = p.count
    BY <1>2, <2>1 DEF Scans
  <2> QED
    BY <1>3, <1>6, <2>2
<1> QED
  BY <1>4, <1>5, <1>6

\* flashfile_find_first_freeblock
LEMMA FindIs ==
  ASSUME NEW n \in Nat, NEW s \in States(n), NEW b, b = FindFirstFreeblock(s)
  PROVE  /\ b \in Blocks \cup {NoBlock}
         /\ b \in Blocks => s.map[b].file_id = NoFile
         /\ b = NoBlock => \A c \in Blocks : s.map[c].file_id # NoFile
         /\ (\A c \in Blocks : s.map[c] = ErasedHead) => b = 0
<1> DEFINE v == [found |-> NoBlock, count |-> NumBlocks - 1]
           h == [k \in 1 .. NumBlocks |-> [p \in Scans |-> Candidate(s, k - 1, p)]]
<1>1. v \in Scans /\ NumBlocks \in Nat
  BY Sizes DEF Scans, Blocks
<1>2. \A k \in 1 .. NumBlocks : k - 1 \in Blocks
  BY Sizes DEF Blocks
<1>3. h \in [1 .. NumBlocks -> [Scans -> Scans]]
  <2>1. \A k \in 1 .. NumBlocks : \A p \in Scans : Candidate(s, k - 1, p) \in Scans
    BY <1>2, CandidateIs
  <2> QED
    BY <2>1, Zenon
<1> HIDE DEF h
<1>4. PICK g \in [0 .. NumBlocks -> Scans] :
         g[0] = v /\ \A k \in 1 .. NumBlocks : g[k] = h[k][g[k - 1]]
  <2>1. Recursive(NumBlocks, Scans, v, h)
    BY <1>1, <1>3, Recursion, Zenon
  <2> QED
    BY <2>1, Zenon DEF Recursive
<1> DEFINE R(scan) == scan = [i \in 0 .. NumBlocks |->
                               IF i = 0 THEN v ELSE Candidate(s, i - 1, scan[i - 1])]
           sc == CHOOSE scan : R(scan)
<1>5. \A k \in 1 .. NumBlocks : g[k] = Candidate(s, k - 1, g[k - 1])
  <2>1. \A k \in 1 .. NumBlocks : k - 1 \in 0 .. NumBlocks
    BY Sizes
  <2>2. \A k \in 1 .. NumBlocks : g[k - 1] \in Scans
    BY <1>4, <2>1
  <2> QED
    BY <1>4, <2>2, Zenon DEF h
<1>6. R(g)
  <2>1. \A i \in 0 .. NumBlocks : g[i] = IF i = 0 THEN v ELSE Candidate(s, i - 1, g[i - 1])
    <3> SUFFICES ASSUME NEW i \in 0 .. NumBlocks
                 PROVE  g[i] = IF i = 0 THEN v ELSE Candidate(s, i - 1, g[i - 1])
      OBVIOUS
    <3>1. CASE i = 0
      BY <1>4, <3>1
    <3>2. CASE i # 0
      <4>1. i \in 1 .. NumBlocks
        BY <3>2, Sizes
      <4>2. g[i] = Candidate(s, i - 1, g[i - 1])
        BY <1>5, <4>1
      <4> QED
        BY <3>2, <4>2, Zenon
    <3> QED
      BY <3>1, <3>2
  <2> QED
    BY <1>4, <2>1, Zenon
<1>7. R(sc)
  BY <1>6, Zenon
<1>8. b = sc[NumBlocks].found
  BY Zenon DEF FindFirstFreeblock
<1> HIDE DEF sc
<1>9. sc[0] = v /\ \A k \in 1 .. NumBlocks : sc[k] = Candidate(s, k - 1, sc[k - 1])
  <2>1. \A i \in 0 .. NumBlocks : sc[i] = IF i = 0 THEN v ELSE Candidate(s, i - 1, sc[i - 1])
    BY <1>7, Zenon
  <2>2. 0 \in 0 .. NumBlocks /\ \A k \in 1 .. NumBlocks : k \in 0 .. NumBlocks /\ k # 0
    BY Sizes
  <2>3. sc[0] = v
    BY <2>1, <2>2, Zenon
  <2> QED
    BY <2>1, <2>2, <2>3, Zenon
<1> HIDE DEF v, R
<1>10. \A k \in 0 .. NumBlocks : sc[k] \in Scans
  <2>1. \A k \in 1 .. NumBlocks : sc[k - 1] \in Scans => sc[k] = h[k][sc[k - 1]]
    BY <1>9, Zenon DEF h
  <2>2. sc[0] = v
    BY <1>9
  <2>3. NumBlocks \in Nat /\ v \in Scans
    BY <1>1
  <2>4. Follows(NumBlocks, Scans, v, h, sc)
    BY <1>3, <2>1, <2>2, <2>3, Zenon DEF Follows
  <2>5. Stays(NumBlocks, Scans, sc)
    BY <2>4, RecursionType, Zenon
  <2> QED
    BY <2>5, Zenon DEF Stays
<1>11. \A k \in 1 .. NumBlocks : k - 1 \in 0 .. NumBlocks /\ sc[k - 1] \in Scans
  BY <1>1, <1>10
<1> DEFINE A == {k \in 0 .. NumBlocks :
                   /\ sc[k].found \in Blocks => s.map[sc[k].found].file_id = NoFile
                   /\ sc[k].found = NoBlock => \A c \in Blocks : c < k => s.map[c].file_id # NoFile}
<1>12. NumBlocks \in A
  <2>1. 0 \in A
    <3>1. sc[0].found = NoBlock /\ NoBlock \notin Blocks /\ 0 \in 0 .. NumBlocks
      BY <1>9, Sizes DEF v, Blocks, NoBlock
    <3>2. \A c \in Blocks : ~ (c < 0)
      BY DEF Blocks
    <3> QED
      BY <3>1, <3>2
  <2>2. ASSUME NEW k \in 0 .. NumBlocks - 1, k \in A PROVE k + 1 \in A
    <3>1. k + 1 \in 1 .. NumBlocks /\ (k + 1) - 1 = k /\ k \in Blocks /\ k + 1 \in 0 .. NumBlocks
      BY Sizes DEF Blocks
    <3>2. sc[k + 1] = Candidate(s, k, sc[k]) /\ sc[k] \in Scans
      BY <1>9, <1>11, <3>1
    <3>3. /\ sc[k + 1].found \in {sc[k].found, k}
          /\ s.map[k].file_id # NoFile => sc[k + 1] = sc[k]
          /\ s.map[k].file_id = NoFile => sc[k + 1].found # NoBlock
          /\ sc[k + 1].found = k => sc[k].found = k \/ s.map[k].file_id = NoFile
          /\ sc[k].found # NoBlock => sc[k + 1].found # NoBlock
      BY <3>1, <3>2, CandidateIs
    <3>4. sc[k + 1].found \in Blocks => s.map[sc[k + 1].found].file_id = NoFile
      BY <2>2, <3>1, <3>3
    <3>5. sc[k + 1].found = NoBlock => \A c \in Blocks : c < k + 1 => s.map[c].file_id # NoFile
      <4>1. \A c \in Blocks : c < k + 1 => c < k \/ c = k
        BY Sizes DEF Blocks
      <4> QED
        BY <2>2, <3>3, <4>1
    <3> QED
      BY <3>1, <3>4, <3>5
  <2> HIDE DEF A
  <2>3. 0 .. NumBlocks \subseteq A
    BY <1>1, <2>1, <2>2, Induction
  <2> QED
    BY <2>3, Sizes
<1> DEFINE B == {k \in 0 .. NumBlocks : sc[k].count = NumBlocks - 1
                                       /\ sc[k].found = IF k = 0 THEN NoBlock ELSE 0}
<1>13. ASSUME \A c \in Blocks : s.map[c] = ErasedHead PROVE NumBlocks \in B
  <2>1. 0 \in B
    BY <1>9, Sizes DEF v
  <2>2. ASSUME NEW k \in 0 .. NumBlocks - 1, k \in B PROVE k + 1 \in B
    <3>1. k + 1 \in 1 .. NumBlocks /\ (k + 1) - 1 = k /\ k \in Blocks /\ k + 1 \in 0 .. NumBlocks
      BY Sizes DEF Blocks
    <3>2. sc[k + 1] = Candidate(s, k, sc[k]) /\ sc[k] \in Scans
      BY <1>9, <1>11, <3>1
    <3>3. /\ sc[k + 1].count = NumBlocks - 1
          /\ sc[k + 1].found = IF sc[k].found = NoBlock THEN k ELSE sc[k].found
      BY <1>13, <2>2, <3>1, <3>2, CandidateIs
    <3> QED
      BY <2>2, <3>1, <3>3, Sizes DEF NoBlock
  <2> HIDE DEF B
  <2>3. 0 .. NumBlocks \subseteq B
    BY <1>1, <2>1, <2>2, Induction
  <2> QED
    BY <2>3, Sizes
<1>14. b \in Blocks \cup {NoBlock} /\ NumBlocks \in 0 .. NumBlocks
  BY <1>1, <1>8, <1>10 DEF Scans
<1>15. \A c \in Blocks : c < NumBlocks
  BY Sizes DEF Blocks
<1>16. (\A c \in Blocks : s.map[c] = ErasedHead) => b = 0
  BY <1>8, <1>13, Sizes
<1> QED
  BY <1>8, <1>12, <1>14, <1>15, <1>16

-----------------------------------------------------------------------------
(* Freeing the first block and chaining a new last one.                    *)

\* The header a block of file f gets when it is chained or freed.
LEMMA ModIs ==
  ASSUME NEW a \in Int, NEW k \in Nat \ {0}, NEW r, r = a % k
  PROVE  r \in 0 .. k - 1
BY SMTT(60)

\* The RAM tables of flashfile_remove_file_head_block.
Unchained(s, t, f, b) ==
  /\ t.map[b].file_id = NoFile
  /\ \A c \in Blocks : c # b => t.map[c] = s.map[c]
  /\ t.chain[b] = b /\ \A c \in Blocks : c # b => t.chain[c] = s.chain[c]
  /\ t.file[f].start_block = s.chain[b] /\ t.file[f].total_block = s.file[f].total_block - 1
  /\ t.file[f].last_write_block = s.file[f].last_write_block
  /\ t.file[f].last_write_offset = s.file[f].last_write_offset
  /\ t.file[f].tag_time = s.file[f].tag_time /\ t.file[f].tag_next = s.file[f].tag_next
  /\ t.file[f].tag_block = s.file[f].tag_block /\ t.file[f].tag_offset = s.file[f].tag_offset
  /\ t.wild = s.wild

\* flashfile_remove_file_head_block frees and erases the first block, and no other.
LEMMA RemoveHeadBlockIs ==
  ASSUME NEW n \in Nat, NEW s \in States(n), NEW f \in Files, s.file[f].total_block >= 1,
         NEW b, b = s.file[f].start_block, NEW t, t = RemoveHeadBlock(s, f)
  PROVE  /\ t \in States(n) /\ Power(s, t) /\ b \in Blocks /\ Unchained(s, t, f, b)
         /\ s.fuel # 0 =>
              /\ t.flash[b].head = ErasedHead
              /\ t.flash[b].head.file_id = NoFile /\ \A o \in Body : t.flash[b].body[o] = Erased
              /\ \A c \in Blocks : c # b => t.flash[c] = s.flash[c]
<1>1. /\ s.map \in [Blocks -> HeadSet] /\ s.chain \in [Blocks -> Blocks] /\ s.file \in [Files -> DescSet(n)]
      /\ s.file[f] \in DescSet(n) /\ b \in Blocks /\ s.map[b] \in HeadSet /\ s.chain[b] \in Blocks
      /\ s.file[f].total_block \in 0 .. NumBlocks /\ s.map[b].count \in Blocks
  <2>1. /\ s.map \in [Blocks -> HeadSet] /\ s.chain \in [Blocks -> Blocks]
        /\ s.file \in [Files -> DescSet(n)] /\ s.file[f] \in DescSet(n)
    BY DEF States
  <2>2. b \in Blocks /\ s.file[f].total_block \in 0 .. NumBlocks
    BY <2>1 DEF DescSet
  <2> QED
    BY <2>1, <2>2 DEF HeadSet
<1>k. PICK k : k = (s.map[b].count + 1) % NumBlocks
  OBVIOUS
<1>m. PICK m : m = s.file[f].total_block - 1
  OBVIOUS
<1>h. PICK h : h = [s.map[b] EXCEPT !.file_id = NoFile, !.count = k]
  OBVIOUS
<1>d. PICK d : d = [s.file[f] EXCEPT !.start_block = s.chain[b], !.total_block = m]
  OBVIOUS
<1>u. PICK u : u = [s EXCEPT !.map[b] = h, !.chain[b] = b, !.file[f] = d]
  OBVIOUS
<1>2. k \in Blocks
  <2>1. s.map[b].count + 1 \in Int
    BY <1>1 DEF Blocks
  <2>2. NumBlocks \in Nat \ {0}
    BY Sizes
  <2>3. k \in 0 .. NumBlocks - 1
    BY <1>k, <2>1, <2>2, ModIs
  <2> QED
    BY <2>3 DEF Blocks
<1>3. m \in 0 .. NumBlocks
  BY <1>m, <1>1, Sizes
<1>4. h \in HeadSet /\ h.file_id = NoFile
  BY <1>h, <1>1, <1>2 DEF HeadSet
<1>5. d \in DescSet(n)
  BY <1>d, <1>1, <1>3 DEF DescSet
<1>6. /\ d.start_block = s.chain[b] /\ d.total_block = m
      /\ d.last_write_block = s.file[f].last_write_block
      /\ d.last_write_offset = s.file[f].last_write_offset
      /\ d.tag_time = s.file[f].tag_time /\ d.tag_next = s.file[f].tag_next
      /\ d.tag_block = s.file[f].tag_block /\ d.tag_offset = s.file[f].tag_offset
  BY <1>d, <1>1 DEF DescSet
<1>7. /\ u.map = [s.map EXCEPT ![b] = h] /\ u.chain = [s.chain EXCEPT ![b] = b]
      /\ u.file = [s.file EXCEPT ![f] = d]
      /\ u.flash = s.flash /\ u.fuel = s.fuel /\ u.wild = s.wild /\ u.ret = s.ret
  BY <1>u, Zenon DEF States
<1>8. /\ u.map \in [Blocks -> HeadSet] /\ u.chain \in [Blocks -> Blocks] /\ u.file \in [Files -> DescSet(n)]
      /\ u.map[b] = h /\ u.chain[b] = b /\ u.file[f] = d
      /\ \A c \in Blocks : c # b => u.map[c] = s.map[c] /\ u.chain[c] = s.chain[c]
  BY <1>1, <1>4, <1>5, <1>7
<1>9. u \in States(n)
  BY <1>u, <1>7, <1>8, Zenon DEF States
<1>10. t = EraseBlock(u, b)
  BY <1>k, <1>m, <1>h, <1>d, <1>u, ZenonT(60) DEF RemoveHeadBlock
<1>11. /\ t \in States(n) /\ SameRam(u, t) /\ Power(u, t)
       /\ u.fuel # 0 =>
            /\ t.flash[b].head = ErasedHead
            /\ t.flash[b].head.file_id = NoFile /\ \A o \in Body : t.flash[b].body[o] = Erased
            /\ \A c \in Blocks : c # b => t.flash[c] = u.flash[c]
  <2>1. b \in Blocks
    BY <1>1
  <2> QED
    BY <1>9, <1>10, <2>1, EraseIs, SMTT(60)
<1>12. Unchained(s, t, f, b)
  <2>1. t.map = u.map /\ t.chain = u.chain /\ t.file = u.file /\ t.wild = u.wild
    BY <1>11, Zenon DEF SameRam
  <2>2. /\ t.map[b].file_id = NoFile /\ t.chain[b] = b /\ t.wild = s.wild
        /\ \A c \in Blocks : c # b => t.map[c] = s.map[c]
        /\ \A c \in Blocks : c # b => t.chain[c] = s.chain[c]
    BY ONLY <1>4, <1>7, <1>8, <2>1, Zenon
  <2>3. t.file[f] = d
    BY ONLY <1>8, <2>1, Zenon
  <2> QED
    BY ONLY <1>m, <1>6, <2>2, <2>3, Zenon DEF Unchained
<1>13. Power(s, t)
  BY <1>7, <1>11, Zenon DEF Power
<1> QED
  BY <1>1, <1>7, <1>11, <1>12, <1>13, SMTT(60)

\* flashfile_block_write of a header
LEMMA BlockWriteHeadIs ==
  ASSUME NEW n \in Nat, NEW s \in States(n), NEW b \in Blocks,
         s.fuel # 0 => s.flash[b].head.file_id \in {NoFile, s.map[b].file_id},
         NEW t, t = BlockWriteHead(s, b)
  PROVE  /\ t \in States(n) /\ Power(s, t) /\ Touched(s, t, b, 0) /\ t.ret = s.ret
         /\ s.fuel # 0 =>
              /\ t.flash[b].head = AndHead(s.flash[b].head, s.map[b])
              /\ t.flash[b].head.file_id = s.map[b].file_id /\ t.flash[b].body = s.flash[b].body
              /\ \A c \in Blocks : c # b => t.flash[c] = s.flash[c]
<1>u. PICK u : u = Touch(s, b, 0)
  OBVIOUS
<1>1. t = WriteHead(u, b)
  BY <1>u, Zenon DEF BlockWriteHead
<1>2. 0 \in 0 .. BlockSize - 1
  BY Sizes
<1>3. /\ u \in States(n) /\ Touched(s, u, b, 0) /\ u.flash = s.flash /\ u.fuel = s.fuel /\ u.ret = s.ret
  BY <1>u, <1>2, TouchIs DEF Touched
<1>4. u.fuel # 0 => u.flash[b].head.file_id \in {NoFile, u.map[b].file_id}
  BY <1>3, Zenon DEF Touched
<1>5. /\ t \in States(n) /\ SameRam(u, t) /\ Power(u, t)
      /\ u.fuel # 0 =>
           /\ t.flash[b].head = AndHead(u.flash[b].head, u.map[b])
           /\ t.flash[b].head.file_id = u.map[b].file_id /\ t.flash[b].body = u.flash[b].body
           /\ \A c \in Blocks : c # b => t.flash[c] = u.flash[c]
  BY <1>1, <1>3, <1>4, WriteHeadIs, SMTT(60)
<1>6. Touched(s, t, b, 0)
  BY <1>3, <1>5 DEF Touched, SameRam
<1>7. Power(s, t)
  BY <1>3, <1>5, Zenon DEF Power
<1>8. u.map = s.map /\ t.ret = u.ret
  BY <1>3, <1>5 DEF Touched, SameRam
<1> QED
  BY <1>3, <1>5, <1>6, <1>7, <1>8

\* The header flashfile_append_file_tail_block gives a block in RAM.
Headed(s, t, f, b) ==
  t.map[b] = [s.map[b] EXCEPT !.file_id = f, !.prev = s.file[f].last_write_block,
                 !.first = (s.file[f].tag_next + s.file[f].tag_offset - BlockSize + HeadSize)
                             % BlockSize]

\* The RAM tables of flashfile_append_file_tail_block.
Chained(s, t, f, b) ==
  /\ Headed(s, t, f, b)
  /\ t.map[b].file_id = f
  /\ \A c \in Blocks : c # b => t.map[c] = s.map[c]
  /\ t.chain[s.file[f].last_write_block] = b
  /\ \A c \in Blocks : c # s.file[f].last_write_block => t.chain[c] = s.chain[c]
  /\ t.file[f].start_block = s.file[f].start_block
  /\ t.file[f].total_block = s.file[f].total_block + 1
  /\ t.file[f].last_write_block = b /\ t.file[f].last_write_offset = 0
  /\ t.file[f].tag_time = s.file[f].tag_time /\ t.file[f].tag_next = s.file[f].tag_next
  /\ t.file[f].tag_block = s.file[f].tag_block /\ t.file[f].tag_offset = s.file[f].tag_offset
  /\ t.wild = s.wild

\* flashfile_append_file_tail_block chains a free block behind the last one and
\* names the file in its header.
LEMMA AppendTailBlockIs ==
  ASSUME NEW n \in Nat, NEW s \in States(n), NEW f \in Files, s.file[f].total_block + 1 <= NumBlocks,
         NEW b \in Blocks, s.fuel # 0 => s.flash[b].head.file_id \in {NoFile, f},
         NEW t, t = AppendTailBlock(s, f, b)
  PROVE  /\ t \in States(n) /\ Power(s, t) /\ Chained(s, t, f, b)
         /\ s.fuel # 0 =>
              /\ t.flash[b].head = AndHead(s.flash[b].head, t.map[b])
              /\ t.flash[b].head.file_id = f /\ t.flash[b].body = s.flash[b].body
              /\ \A c \in Blocks : c # b => t.flash[c] = s.flash[c]
<1>p. PICK p : p = s.file[f].last_write_block
  OBVIOUS
<1>1. /\ s.map \in [Blocks -> HeadSet] /\ s.chain \in [Blocks -> Blocks] /\ s.file \in [Files -> DescSet(n)]
      /\ s.file[f] \in DescSet(n) /\ s.map[b] \in HeadSet /\ p \in Blocks
      /\ s.file[f].total_block \in 0 .. NumBlocks
      /\ s.file[f].tag_next \in Nat /\ s.file[f].tag_offset \in Int
  <2>1. /\ s.map \in [Blocks -> HeadSet] /\ s.chain \in [Blocks -> Blocks]
        /\ s.file \in [Files -> DescSet(n)] /\ s.file[f] \in DescSet(n)
    BY DEF States
  <2>2. /\ p \in Blocks /\ s.file[f].total_block \in 0 .. NumBlocks
        /\ s.file[f].tag_next \in Nat /\ s.file[f].tag_offset \in Int
    BY <1>p, <2>1 DEF DescSet
  <2> QED
    BY <2>1, <2>2 DEF HeadSet
<1>k. PICK k : k = (s.file[f].tag_next + s.file[f].tag_offset - BlockSize + HeadSize) % BlockSize
  OBVIOUS
<1>m. PICK m : m = s.file[f].total_block + 1
  OBVIOUS
<1>h. PICK h : h = [s.map[b] EXCEPT !.file_id = f, !.prev = p, !.first = k]
  OBVIOUS
<1>d. PICK d : d = [s.file[f] EXCEPT !.last_write_block = b, !.total_block = m]
  OBVIOUS
<1>u. PICK u : u = [s EXCEPT !.map[b] = h, !.chain[p] = b, !.file[f] = d]
  OBVIOUS
<1>2. k \in 0 .. BlockSize - 1
  <2>1. BlockSize \in Nat \ {0} /\ HeadSize \in Int
    BY Sizes
  <2>2. PICK x \in Int : x = s.file[f].tag_next + s.file[f].tag_offset - BlockSize + HeadSize
    BY <1>1, <2>1
  <2>3. k = x % BlockSize
    BY <1>k, <2>2
  <2> QED
    BY <2>1, <2>3, ModIs
<1>3. m \in 0 .. NumBlocks
  BY <1>m, <1>1, Sizes
<1>4. h \in HeadSet /\ h.file_id = f
  BY <1>h, <1>1, <1>2 DEF HeadSet
<1>5. d \in DescSet(n)
  BY <1>d, <1>1, <1>3 DEF DescSet
<1>6. /\ d.start_block = s.file[f].start_block /\ d.total_block = m
      /\ d.last_write_block = b
      /\ d.tag_time = s.file[f].tag_time /\ d.tag_next = s.file[f].tag_next
      /\ d.tag_block = s.file[f].tag_block /\ d.tag_offset = s.file[f].tag_offset
  BY <1>d, <1>1 DEF DescSet
<1>7. /\ u.map = [s.map EXCEPT ![b] = h] /\ u.chain = [s.chain EXCEPT ![p] = b]
      /\ u.file = [s.file EXCEPT ![f] = d]
      /\ u.flash = s.flash /\ u.fuel = s.fuel /\ u.wild = s.wild /\ u.ret = s.ret
  BY <1>u, Zenon DEF States
<1>8. /\ u.map \in [Blocks -> HeadSet] /\ u.chain \in [Blocks -> Blocks] /\ u.file \in [Files -> DescSet(n)]
      /\ u.map[b] = h /\ u.chain[p] = b /\ u.file[f] = d
      /\ \A c \in Blocks : c # b => u.map[c] = s.map[c]
      /\ \A c \in Blocks : c # p => u.chain[c] = s.chain[c]
  BY <1>1, <1>4, <1>5, <1>7
<1>9. u \in States(n)
  BY <1>u, <1>7, <1>8, Zenon DEF States
<1>10. t = BlockWriteHead(u, b)
  BY <1>p, <1>k, <1>m, <1>h, <1>d, <1>u, Zenon DEF AppendTailBlock
<1>11. u.fuel # 0 => u.flash[b].head.file_id \in {NoFile, u.map[b].file_id}
  BY <1>4, <1>7, <1>8
<1>12. /\ t \in States(n) /\ Power(u, t) /\ Touched(u, t, b, 0) /\ t.ret = u.ret
       /\ u.fuel # 0 =>
            /\ t.flash[b].head = AndHead(u.flash[b].head, u.map[b])
            /\ t.flash[b].head.file_id = u.map[b].file_id /\ t.flash[b].body = u.flash[b].body
            /\ \A c \in Blocks : c # b => t.flash[c] = u.flash[c]
  BY <1>9, <1>10, <1>11, BlockWriteHeadIs
<1>13. Chained(s, t, f, b)
  <2>1. u.map[b].file_id = f
    BY <1>4, <1>8
  <2>2. /\ t.map = u.map /\ t.chain = u.chain /\ t.wild = u.wild
        /\ t.file[f].last_write_block = b /\ t.file[f].last_write_offset = 0
        /\ SameFile(u.file[f], t.file[f])
    BY <1>12, <2>1, Zenon DEF Touched
  <2>3. t.map[b] = h
    BY <1>8, <2>2
  <2>4. Headed(s, t, f, b)
    BY <1>p, <1>k, <1>h, <2>3, Zenon DEF Headed
  <2> HIDE <1>k, <1>h
  <2> QED
    BY <1>p, <1>m, <1>6, <1>7, <1>8, <2>1, <2>2, <2>4 DEF Chained, SameFile
<1>14. Power(s, t)
  BY <1>7, <1>12, Zenon DEF Power
<1>15. u.map[b].file_id = f /\ t.map = u.map
  BY <1>4, <1>8, <1>12 DEF Touched
<1> QED
  BY <1>7, <1>12, <1>13, <1>14, <1>15

-----------------------------------------------------------------------------
(* Taking a block.                                                         *)

\* As long as there is power, the headers on the flash name the same files as
\* their copies in RAM.
Synced(s) == s.fuel # 0 => \A b \in Blocks : s.flash[b].head.file_id = s.map[b].file_id

\* Everything but the value returned.
SameState(s, t) == /\ t.map = s.map /\ t.chain = s.chain /\ t.file = s.file /\ t.flash = s.flash
                   /\ t.fuel = s.fuel /\ t.wild = s.wild

\* Power lost in the first of two steps is lost in both.
LEMMA PowerThen ==
  ASSUME NEW s, NEW t, NEW u, Power(s, t), Power(t, u)
  PROVE  Power(s, u)
BY DEF Power

\* The head block of a full file is freed before it grows.
Full(s, f) == s.file[f].total_block # 0 /\ s.file[f].total_block + 1 > BlockLimit[f]
Freed(s, u, f) ==
  /\ Power(s, u)
  /\ ~Full(s, f) => u = s
  /\ Full(s, f) =>
       /\ s.file[f].start_block \in Blocks
       /\ Unchained(s, u, f, s.file[f].start_block)
       /\ s.fuel # 0 =>
            /\ u.flash[s.file[f].start_block].head = ErasedHead
            /\ u.flash[s.file[f].start_block].head.file_id = NoFile
            /\ \A o \in Body : u.flash[s.file[f].start_block].body[o] = Erased
            /\ \A c \in Blocks : c # s.file[f].start_block => u.flash[c] = s.flash[c]
Grown(u, v, f, b) ==
  /\ Power(u, v) /\ Chained(u, v, f, b)
  /\ u.fuel # 0 =>
       /\ v.flash[b].head = AndHead(u.flash[b].head, v.map[b])
       /\ v.flash[b].head.file_id = f /\ v.flash[b].body = u.flash[b].body
       /\ \A c \in Blocks : c # b => v.flash[c] = u.flash[c]

\* The two halves of flashfile_round_file_struct.
LEMMA RoundIs ==
  ASSUME NEW n \in Nat, NEW s \in States(n), NEW f \in Files, Synced(s),
         NEW b \in Blocks, s.map[b].file_id = NoFile,
         NEW v, v = IF s.file[f].total_block = 0 THEN AppendTailBlock(s, f, b) ELSE RoundFile(s, f, b)
  PROVE  \E u \in States(n) : /\ Freed(s, u, f) /\ Synced(u) /\ Grown(u, v, f, b)
                              /\ v \in States(n) /\ Synced(v)
<1>1. /\ s.file[f].total_block \in 0 .. NumBlocks /\ BlockLimit[f] \in 1 .. NumBlocks - 1
      /\ s.file[f].start_block \in Blocks
  <2>1. s.file[f] \in DescSet(n)
    BY DEF States
  <2> QED
    BY <2>1, LimitIs DEF DescSet
<1>2. PICK u \in States(n) : /\ Freed(s, u, f) /\ v = AppendTailBlock(u, f, b)
                             /\ u.file[f].total_block + 1 <= NumBlocks
                             /\ u.map[b].file_id = NoFile /\ Synced(u)
  <2>1. CASE Full(s, f)
    <3>u. PICK u : u = RemoveHeadBlock(s, f)
      OBVIOUS
    <3>p. PICK p : p = s.file[f].start_block
      OBVIOUS
    <3>1. s.file[f].total_block >= 1
      BY <1>1, <2>1 DEF Full
    <3>2. /\ u \in States(n) /\ Power(s, u) /\ p \in Blocks /\ Unchained(s, u, f, p)
          /\ s.fuel # 0 =>
               /\ u.flash[p].head = ErasedHead
               /\ u.flash[p].head.file_id = NoFile /\ \A o \in Body : u.flash[p].body[o] = Erased
               /\ \A c \in Blocks : c # p => u.flash[c] = s.flash[c]
      BY <3>1, <3>u, <3>p, RemoveHeadBlockIs
    <3>3. v = AppendTailBlock(u, f, b)
      BY <2>1, <3>u, Zenon DEF RoundFile, Full
    <3>4. Freed(s, u, f)
      BY <2>1, <3>2, <3>p, Zenon DEF Freed
    <3>5. u.map[p].file_id = NoFile /\ \A c \in Blocks : c # p => u.map[c] = s.map[c]
      BY <3>2 DEF Unchained
    <3>6. Synced(u)
      BY <3>2, <3>5, Zenon DEF Synced, Power
    <3>7. u.file[f].total_block + 1 <= NumBlocks
      BY <1>1, <3>2 DEF Unchained
    <3>8. u.map[b].file_id = NoFile
      BY <3>5
    <3> QED
      BY <3>2, <3>3, <3>4, <3>6, <3>7, <3>8
  <2>2. CASE ~Full(s, f)
    <3>1. v = AppendTailBlock(s, f, b)
      BY <2>2, Zenon DEF RoundFile, Full
    <3>2. Freed(s, s, f)
      BY <2>2 DEF Freed, Power
    <3>3. s.file[f].total_block + 1 <= NumBlocks
      BY <1>1, <2>2, Sizes DEF Full
    <3> QED
      BY <3>1, <3>2, <3>3
  <2> QED
    BY <2>1, <2>2
<1>3. u.fuel # 0 => u.flash[b].head.file_id \in {NoFile, f}
  BY <1>2 DEF Synced
<1>4. /\ v \in States(n) /\ Power(u, v) /\ Chained(u, v, f, b)
      /\ u.fuel # 0 =>
           /\ v.flash[b].head = AndHead(u.flash[b].head, v.map[b])
           /\ v.flash[b].head.file_id = f /\ v.flash[b].body = u.flash[b].body
           /\ \A c \in Blocks : c # b => v.flash[c] = u.flash[c]
  BY <1>2, <1>3, AppendTailBlockIs
<1>5. Grown(u, v, f, b)
  BY <1>4, Zenon DEF Grown
<1>6. v.map[b].file_id = f /\ \A c \in Blocks : c # b => v.map[c] = u.map[c]
  BY <1>4 DEF Chained
<1>7. Synced(v)
  BY <1>2, <1>4, <1>6, Zenon DEF Synced, Power
<1> QED
  BY <1>2, <1>4, <1>5, <1>7

\* A value returned changes nothing else.
LEMMA SetRet ==
  ASSUME NEW n \in Nat, NEW s \in States(n), NEW r \in Int, NEW t, t = [s EXCEPT !.ret = r]
  PROVE  t \in States(n) /\ SameState(s, t) /\ t.ret = r
<1>1. t \in States(n)
  BY Zenon DEF States
<1> QED
  BY <1>1, Zenon DEF States, SameState

\* An access out of the tables is only noted.
LEMMA SetWild ==
  ASSUME NEW n \in Nat, NEW s \in States(n), NEW t, t = [s EXCEPT !.wild = TRUE]
  PROVE  /\ t \in States(n) /\ t.map = s.map /\ t.chain = s.chain /\ t.file = s.file
         /\ t.flash = s.flash /\ t.fuel = s.fuel /\ t.ret = s.ret
<1>1. t \in States(n)
  BY Zenon DEF States
<1> QED
  BY <1>1, Zenon DEF States

\* flashfile_alloc_block
Allocated(s, a, f, b) ==
  \E u, v : Freed(s, u, f) /\ Synced(u) /\ Grown(u, v, f, b) /\ SameState(v, a)

\* flashfile_alloc_block gives the file a block that was free, if there is one.
LEMMA AllocBlockIs ==
  ASSUME NEW n \in Nat, NEW s \in States(n), NEW f \in Files, Synced(s),
         NEW a, a = AllocBlock(s, f)
  PROVE  /\ a \in States(n) /\ Synced(a) /\ Power(s, a) /\ a.ret = FindFirstFreeblock(s)
         /\ a.ret = NoBlock => SameState(s, a)
         /\ a.ret # NoBlock =>
              /\ a.ret \in Blocks /\ s.map[a.ret].file_id = NoFile /\ Allocated(s, a, f, a.ret)
              /\ a.wild = s.wild /\ a.map[a.ret].file_id = f
<1>b. PICK b : b = FindFirstFreeblock(s)
  OBVIOUS
<1>1. b \in Blocks \cup {NoBlock} /\ (b \in Blocks => s.map[b].file_id = NoFile)
  BY <1>b, FindIs
<1>2. NoBlock \in Int /\ Blocks \subseteq Int
  BY Sizes DEF Blocks, NoBlock
<1>3. CASE b = NoBlock
  <2>1. a = [s EXCEPT !.ret = NoBlock]
    BY <1>3, <1>b, Zenon DEF AllocBlock
  <2>2. a \in States(n) /\ SameState(s, a) /\ a.ret = NoBlock
    BY <1>2, <2>1, SetRet
  <2>3. Synced(a) /\ Power(s, a)
    BY <2>2, Zenon DEF SameState, Synced, Power
  <2> QED
    BY <1>3, <1>b, <2>2, <2>3
<1>4. CASE b # NoBlock
  <2>0. b \in Blocks /\ s.map[b].file_id = NoFile /\ b \in Int
    BY <1>1, <1>2, <1>4
  <2>v. PICK v : v = IF s.file[f].total_block = 0 THEN AppendTailBlock(s, f, b) ELSE RoundFile(s, f, b)
    OBVIOUS
  <2>1. PICK u \in States(n) : /\ Freed(s, u, f) /\ Synced(u) /\ Grown(u, v, f, b)
                               /\ v \in States(n) /\ Synced(v)
    BY <2>0, <2>v, RoundIs
  <2>2. a = [v EXCEPT !.ret = b]
    BY <1>4, <1>b, <2>v, Zenon DEF AllocBlock
  <2>3. a \in States(n) /\ SameState(v, a) /\ a.ret = b
    BY <2>0, <2>1, <2>2, SetRet
  <2>4. Allocated(s, a, f, b)
    BY <2>1, <2>3, Zenon DEF Allocated
  <2>5. Power(s, v)
    BY <2>1, PowerThen DEF Freed, Grown
  <2>6. Synced(a) /\ Power(s, a)
    BY <2>1, <2>3, <2>5, Zenon DEF SameState, Synced, Power
  <2>7. u.wild = s.wild
    BY <2>1 DEF Freed, Unchained
  <2>8. v.wild = u.wild /\ v.map[b].file_id = f
    BY <2>1 DEF Grown, Chained
  <2>9. a.wild = s.wild /\ a.map[b].file_id = f
    BY <2>3, <2>7, <2>8 DEF SameState
  <2> QED
    BY <1>4, <1>b, <2>0, <2>3, <2>4, <2>6, <2>9
<1> QED
  BY <1>3, <1>4

-----------------------------------------------------------------------------
(* The type invariant of the writing functions.                            *)

\* A part of a run of bytes.
LEMMA SubSeqIs ==
  ASSUME NEW S, NEW bytes \in Seq(S), NEW i \in Nat \ {0}, NEW j \in Int, j <= Len(bytes),
         NEW u, u = SubSeq(bytes, i, j)
  PROVE  /\ u \in Seq(S) /\ Len(u) = IF i <= j THEN j - i + 1 ELSE 0
         /\ \A k \in 1 .. Len(u) : i + k - 1 \in 1 .. Len(bytes) /\ u[k] = bytes[i + k - 1]
OBVIOUS

\* The state is in range, the headers agree and power is not gained.
Sound(n, s, t) == t \in States(n) /\ Synced(t) /\ Power(s, t)

\* Two sound steps make a sound one.
LEMMA SoundThen ==
  ASSUME NEW n, NEW s, NEW t, NEW u, Sound(n, s, t), Sound(n, t, u)
  PROVE  Sound(n, s, u)
BY PowerThen, Zenon DEF Sound

\* A step that changes nothing is sound.
LEMMA SoundSame ==
  ASSUME NEW n, NEW s, Synced(s), NEW t \in States(n), SameState(s, t)
  PROVE  Sound(n, s, t)
BY DEF Sound, SameState, Synced, Power

\* A value returned is sound.
LEMMA SoundSet ==
  ASSUME NEW n \in Nat, NEW s \in States(n), Synced(s), NEW r \in Int, NEW t, t = [s EXCEPT !.ret = r]
  PROVE  Sound(n, s, t) /\ SameState(s, t) /\ t.ret = r
<1>1. t \in States(n) /\ SameState(s, t) /\ t.ret = r
  BY SetRet
<1> QED
  BY <1>1, SoundSame

\* flashfile_block_write
LEMMA BlockWriteSound ==
  ASSUME NEW n \in Nat, NEW s \in States(n), Synced(s), NEW b \in Blocks,
         NEW off \in 0 .. BlockSize - 1, NEW bytes \in Seq(ByteSet(n)),
         NEW t, t = BlockWrite(s, b, off, bytes)
  PROVE  Sound(n, s, t) /\ t.ret \in {Len(bytes), -1} /\ t.map = s.map
<1>1. CASE off + Len(bytes) <= BlockSize
  <2>1. /\ t \in States(n) /\ Power(s, t) /\ Touched(s, t, b, off) /\ t.ret = Len(bytes)
        /\ s.fuel # 0 => Wrote(s.flash, t.flash, b, off, bytes)
    BY <1>1, BlockWriteIs
  <2>2. t.map = s.map /\ (s.fuel # 0 => \A c \in Blocks : t.flash[c].head = s.flash[c].head)
    BY <2>1, Zenon DEF Touched, Wrote
  <2>3. Synced(t)
    BY <2>1, <2>2, Zenon DEF Synced, Power
  <2> QED
    BY <2>1, <2>2, <2>3 DEF Sound
<1>2. CASE ~(off + Len(bytes) <= BlockSize)
  <2>1. off + Len(bytes) > BlockSize
    BY <1>2, Sizes, LenProperties
  <2>2. t = [s EXCEPT !.ret = -1]
    BY <2>1, Zenon DEF BlockWrite
  <2>3. -1 \in Int
    OBVIOUS
  <2>4. Sound(n, s, t) /\ SameState(s, t) /\ t.ret = -1
    BY <2>2, <2>3, SoundSet
  <2> QED
    BY <2>4 DEF SameState
<1> QED
  BY <1>1, <1>2

\* The part of a write that goes over the end of a block leaves the types sound.
LEMMA SpillSound ==
  ASSUME NEW n \in Nat, NEW s \in States(n), Synced(s), NEW b \in Blocks, NEW wrote \in Nat,
         NEW bytes \in Seq(ByteSet(n)), NEW t, t = Spill(s, b, wrote, bytes)
  PROVE  Sound(n, s, t)
<1>f. PICK f : f = s.map[b].file_id
  OBVIOUS
<1>a. PICK a : a = AllocBlock(s, f)
  OBVIOUS
<1>1. t = IF f \notin Files THEN [s EXCEPT !.wild = TRUE, !.ret = -1]
          ELSE IF a.ret = NoBlock THEN [a EXCEPT !.ret = -1]
          ELSE BlockWrite(a, a.ret, HeadSize, SubSeq(bytes, wrote + 1, Len(bytes)))
  BY <1>f, <1>a, Zenon DEF Spill
<1>m. -1 \in Int
  OBVIOUS
<1>2. CASE f \notin Files
  <2>1. t = [s EXCEPT !.wild = TRUE, !.ret = -1]
    BY <1>1, <1>2
  <2>2. t \in States(n) /\ t.map = s.map /\ t.flash = s.flash /\ t.fuel = s.fuel
    <3>1. t \in States(n)
      BY <1>m, <2>1, Zenon DEF States
    <3> QED
      BY <2>1, <3>1, Zenon DEF States
  <2> QED
    BY <2>2 DEF Sound, Synced, Power
<1>3. CASE f \in Files
  <2>1. /\ a \in States(n) /\ Synced(a) /\ Power(s, a)
        /\ a.ret # NoBlock => a.ret \in Blocks
    BY <1>3, <1>a, AllocBlockIs
  <2>2. CASE a.ret = NoBlock
    <3>1. t = [a EXCEPT !.ret = -1]
      BY <1>1, <1>3, <2>2
    <3>2. Sound(n, a, t)
      BY <1>m, <2>1, <3>1, SoundSet
    <3> QED
      BY <2>1, <3>2, SoundThen DEF Sound
  <2>3. CASE a.ret # NoBlock
    <3>u. PICK u : u = SubSeq(bytes, wrote + 1, Len(bytes))
      OBVIOUS
    <3>1. t = BlockWrite(a, a.ret, HeadSize, u)
      BY <1>1, <1>3, <2>3, <3>u
    <3>2. wrote + 1 \in Nat \ {0} /\ Len(bytes) \in Int /\ Len(bytes) <= Len(bytes)
      OBVIOUS
    <3>3. u \in Seq(ByteSet(n))
      BY <3>u, <3>2, SubSeqIs
    <3>4. HeadSize \in 0 .. BlockSize - 1 /\ a.ret \in Blocks
      BY <2>1, <2>3, Sizes
    <3>5. Sound(n, a, t)
      BY <2>1, <3>1, <3>3, <3>4, BlockWriteSound
    <3> QED
      BY <2>1, <3>5, SoundThen DEF Sound
  <2> QED
    BY <2>2, <2>3
<1> QED
  BY <1>2, <1>3

\* flashfile_write
LEMMA FlashWriteSound ==
  ASSUME NEW n \in Nat, NEW s \in States(n), Synced(s), NEW b \in Blocks, NEW offset \in Nat,
         NEW bytes \in Seq(ByteSet(n)), NEW t, t = FlashWrite(s, b, offset, bytes)
  PROVE  Sound(n, s, t)
<1>h. PICK shifted : shifted = (offset > BlockSize)
  OBVIOUS
<1>b. PICK wb : wb = IF shifted THEN s.chain[b] ELSE b
  OBVIOUS
<1>o. PICK off : off = IF shifted THEN offset - BlockSize + HeadSize ELSE offset
  OBVIOUS
<1>k. PICK k : k = IF off + Len(bytes) > BlockSize THEN BlockSize - offset ELSE Len(bytes)
  OBVIOUS
<1>u. PICK u : u = SubSeq(bytes, 1, k)
  OBVIOUS
<1>w. PICK w : w = BlockWrite(s, wb, off, u)
  OBVIOUS
<1>1. t = IF offset + Len(bytes) > 2 * BlockSize \/ (shifted /\ s.chain[b] = b)
          THEN [s EXCEPT !.ret = -1]
          ELSE IF off >= BlockSize THEN Spill(s, b, 0, bytes)
          ELSE IF w.ret = Len(bytes) \/ w.ret = -1 THEN w
          ELSE Spill(w, b, w.ret, bytes)
  BY <1>h, <1>b, <1>o, <1>k, <1>u, <1>w, Zenon DEF FlashWrite
<1>m. -1 \in Int /\ 0 \in Nat /\ Len(bytes) \in Nat
  BY LenProperties
<1>2. CASE offset + Len(bytes) > 2 * BlockSize \/ (shifted /\ s.chain[b] = b)
  <2>1. t = [s EXCEPT !.ret = -1]
    BY <1>1, <1>2
  <2> QED
    BY <1>m, <2>1, SoundSet
<1>3. CASE /\ ~(offset + Len(bytes) > 2 * BlockSize \/ (shifted /\ s.chain[b] = b))
           /\ off >= BlockSize
  <2>1. t = Spill(s, b, 0, bytes)
    BY <1>1, <1>3
  <2> QED
    BY <1>m, <2>1, SpillSound
<1>4. CASE /\ ~(offset + Len(bytes) > 2 * BlockSize \/ (shifted /\ s.chain[b] = b))
           /\ ~(off >= BlockSize)
  <2>1. wb \in Blocks
    BY <1>b DEF States
  <2>2. off \in 0 .. BlockSize - 1 /\ k \in Int /\ k <= Len(bytes)
    <3>0. /\ BlockSize \in Nat /\ HeadSize \in Nat /\ Len(bytes) \in Nat /\ ~(off >= BlockSize)
          /\ k = IF off + Len(bytes) > BlockSize THEN BlockSize - offset ELSE Len(bytes)
      BY <1>k, <1>m, <1>4, Sizes
    <3>1. CASE offset > BlockSize
      <4>1. off = offset - BlockSize + HeadSize
        BY <1>h, <1>o, <3>1
      <4> QED
        BY <3>0, <3>1, <4>1
    <3>2. CASE ~(offset > BlockSize)
      <4>1. off = offset
        BY <1>h, <1>o, <3>2
      <4> QED
        BY <3>0, <3>2, <4>1
    <3> QED
      BY <3>1, <3>2
  <2>3. 1 \in Nat \ {0}
    OBVIOUS
  <2>4. u \in Seq(ByteSet(n)) /\ Len(u) \in Nat
    BY <1>u, <2>2, <2>3, SubSeqIs, LenProperties
  <2>5. Sound(n, s, w) /\ w.ret \in {Len(u), -1}
    BY <1>w, <2>1, <2>2, <2>4, BlockWriteSound
  <2>6. CASE w.ret = Len(bytes) \/ w.ret = -1
    BY <1>1, <1>4, <2>5, <2>6
  <2>7. CASE ~(w.ret = Len(bytes) \/ w.ret = -1)
    <3>1. t = Spill(w, b, w.ret, bytes) /\ w.ret \in Nat
      BY <1>1, <1>4, <2>4, <2>5, <2>7
    <3>2. Sound(n, w, t)
      BY <2>5, <3>1, SpillSound DEF Sound
    <3> QED
      BY <2>5, <3>2, SoundThen
  <2> QED
    BY <2>6, <2>7
<1> QED
  BY <1>2, <1>3, <1>4

\* The bytes of a tag and of a record: how many, and none of them garbled.
LEMMA BytesAre ==
  ASSUME NEW n \in Nat, NEW f \in Files, NEW t \in 0 .. n
  PROVE  /\ TagBytes(t, Stride) \in Seq(ByteSet(n)) /\ Len(TagBytes(t, Stride)) = TagSize
         /\ RecBytes(f, t) \in Seq(ByteSet(n)) /\ Len(RecBytes(f, t)) = RecSize
         /\ \A k \in 1 .. TagSize : TagBytes(t, Stride)[k] # Garbled
         /\ \A k \in 1 .. RecSize : RecBytes(f, t)[k] # Garbled
<1>1. \A k \in 1 .. TagSize : <<"tag", t, Stride, k>> \in ByteSet(n)
  BY DEF ByteSet
<1>2. \A k \in 1 .. RecSize : <<"rec", f, t, k>> \in ByteSet(n)
  BY DEF ByteSet
<1>3. \A k \in 1 .. TagSize : <<"tag", t, Stride, k>> # Garbled
  BY DEF Garbled
<1>4. \A k \in 1 .. RecSize : <<"rec", f, t, k>> # Garbled
  BY DEF Garbled
<1>5. /\ TagBytes(t, Stride) \in Seq(ByteSet(n)) /\ Len(TagBytes(t, Stride)) = TagSize
      /\ \A k \in 1 .. TagSize : TagBytes(t, Stride)[k] = <<"tag", t, Stride, k>>
  BY <1>1, Sizes DEF TagBytes
<1>6. /\ RecBytes(f, t) \in Seq(ByteSet(n)) /\ Len(RecBytes(f, t)) = RecSize
      /\ \A k \in 1 .. RecSize : RecBytes(f, t)[k] = <<"rec", f, t, k>>
  BY <1>2, Sizes DEF RecBytes
<1> QED
  BY <1>3, <1>4, <1>5, <1>6

\* A state of an earlier time is one of a later time.
LEMMA Later ==
  ASSUME NEW n \in Nat, NEW m \in Nat, n <= m
  PROVE  States(n) \subseteq States(m) /\ FlashSet(n) \subseteq FlashSet(m)
<1>1. ByteSet(n) \subseteq ByteSet(m)
  <2>1. 0 .. n \subseteq 0 .. m
    OBVIOUS
  <2> QED
    BY <2>1 DEF ByteSet
<1>2. FlashSet(n) \subseteq FlashSet(m)
  <2>1. BodySet(n) \subseteq BodySet(m)
    BY <1>1 DEF BodySet
  <2>2. [head : HeadSet, body : BodySet(n)] \subseteq [head : HeadSet, body : BodySet(m)]
    BY <2>1
  <2> QED
    BY <2>2 DEF FlashSet
<1>3. DescSet(n) \subseteq DescSet(m)
  BY DEF DescSet
<1>4. [Files -> DescSet(n)] \subseteq [Files -> DescSet(m)]
  BY <1>3
<1> QED
  BY <1>2, <1>4 DEF States

\* flashfile_store_last_time_tag
LEMMA StoreLastTimeTagIs ==
  ASSUME NEW n \in Nat, NEW s \in States(n), NEW f \in Files, NEW t \in 0 .. n,
         NEW u, u = StoreLastTimeTag(s, f, t)
  PROVE  /\ u \in States(n)
         /\ u.map = s.map /\ u.chain = s.chain /\ u.flash = s.flash /\ u.fuel = s.fuel
         /\ u.wild = s.wild /\ u.ret = s.ret
         /\ u.file[f].start_block = s.file[f].start_block /\ u.file[f].total_block = s.file[f].total_block
         /\ u.file[f].last_write_block = s.file[f].last_write_block
         /\ u.file[f].tag_time = t /\ u.file[f].tag_block = s.file[f].last_write_block
         /\ u.file[f].tag_offset = s.file[f].last_write_offset
<1>d. PICK d : d = [s.file[f] EXCEPT !.tag_time = t, !.tag_next = Stride,
                                     !.tag_block = s.file[f].last_write_block,
                                     !.tag_offset = s.file[f].last_write_offset]
  OBVIOUS
<1>1. s.file \in [Files -> DescSet(n)] /\ s.file[f] \in DescSet(n)
  BY DEF States
<1>2. s.file[f].last_write_block \in Blocks /\ s.file[f].last_write_offset \in 0 .. BlockSize - 1
  BY <1>1 DEF DescSet
<1>3. Stride \in Nat /\ 0 .. BlockSize - 1 \subseteq -1 .. BlockSize - 1
  BY StrideIs, Sizes
<1>4. d \in DescSet(n)
  BY <1>d, <1>1, <1>2, <1>3 DEF DescSet
<1>5. /\ d.start_block = s.file[f].start_block /\ d.total_block = s.file[f].total_block
      /\ d.last_write_block = s.file[f].last_write_block
      /\ d.tag_time = t /\ d.tag_block = s.file[f].last_write_block
      /\ d.tag_offset = s.file[f].last_write_offset
  BY <1>d, <1>1 DEF DescSet
<1>6. u = [s EXCEPT !.file[f] = d]
  BY <1>d, Zenon DEF StoreLastTimeTag
<1>7. /\ u.file = [s.file EXCEPT ![f] = d] /\ u.map = s.map /\ u.chain = s.chain
      /\ u.flash = s.flash /\ u.fuel = s.fuel /\ u.wild = s.wild /\ u.ret = s.ret
  BY <1>6, Zenon DEF States
<1>8. u.file \in [Files -> DescSet(n)] /\ u.file[f] = d
  BY <1>1, <1>4, <1>7
<1>9. u \in States(n)
  BY <1>6, <1>7, <1>8, Zenon DEF States
<1> QED
  BY <1>5, <1>7, <1>8, <1>9

\* A stored tag leaves the types sound.
LEMMA StoreSound ==
  ASSUME NEW n \in Nat, NEW s \in States(n), Synced(s), NEW f \in Files, NEW t \in 0 .. n,
         NEW u, u = StoreLastTimeTag(s, f, t)
  PROVE  Sound(n, s, u)
<1>1. /\ u \in States(n) /\ u.map = s.map /\ u.flash = s.flash /\ u.fuel = s.fuel
  BY StoreLastTimeTagIs
<1> QED
  BY <1>1 DEF Sound, Synced, Power

\* flashfile_append_data_offset_to_last_time_tag
LEMMA DataOffsetIs ==
  ASSUME NEW n \in Nat, NEW s \in States(n), NEW f \in Files, NEW t \in Nat,
         NEW o, o = DataOffset(s, f, t)
  PROVE  /\ o \in Int
         /\ t >= s.file[f].tag_time => o \in Nat \ {0}
         /\ \E k \in Int : k = (t - s.file[f].tag_time) \div Unit /\ o = TagSize + k * RecSize
<1>1. s.file[f].tag_time \in Nat
  <2>1. s.file[f] \in DescSet(n)
    BY DEF States
  <2> QED
    BY <2>1 DEF DescSet
<1>2. PICK x \in Int : x = t - s.file[f].tag_time
  BY <1>1
<1>3. PICK k : k = x \div Unit
  OBVIOUS
<1>4. k \in Int /\ (x \in Nat => k \in Nat)
  <2>1. Unit \in Nat \ {0}
    BY Sizes
  <2> QED
    BY <1>2, <1>3, <2>1, DivIs, Zenon
<1>5. o = TagSize + k * RecSize
  BY <1>2, <1>3, Zenon DEF DataOffset
<1> HIDE <1>3
<1>6. k * RecSize \in Int /\ (k \in Nat => k * RecSize \in Nat)
  BY <1>4, Sizes
<1>7. o \in Int /\ (k \in Nat => o \in Nat \ {0})
  BY <1>5, <1>6, Sizes
<1> QED
  BY <1>1, <1>2, <1>3, <1>4, <1>5, <1>7

DivMod(a, b, k, m) ==
  k \in Int /\ m \in 0 .. b - 1 /\ a = b * k + m /\ (a \in Nat => k \in Nat)

\* Quotient and remainder.
LEMMA DivModIs ==
  ASSUME NEW a \in Int, NEW b \in Nat \ {0}
  PROVE  DivMod(a, b, a \div b, a % b)
BY DEF DivMod

\* A time rounded down to the begin of its interval.
LEMMA RoundDown ==
  ASSUME NEW t \in Nat, NEW r, r = (t \div Interval) * Interval
  PROVE  r \in 0 .. t /\ t - r \in 0 .. Interval - 1 /\ t - r = t % Interval
<1>k. PICK k : k = t \div Interval
  OBVIOUS
<1>m. PICK m : m = t % Interval
  OBVIOUS
<1>1. k \in Nat /\ m \in 0 .. Interval - 1 /\ t = Interval * k + m
  <2>1. t \in Int /\ Interval \in Nat \ {0}
    BY Sizes
  <2>2. DivMod(t, Interval, k, m)
    BY <1>k, <1>m, <2>1, DivModIs, Zenon
  <2> QED
    BY <2>2 DEF DivMod
<1>2. r = k * Interval
  BY <1>k
<1>3. r = Interval * k /\ r \in Nat
  BY <1>1, <1>2, Sizes
<1> QED
  BY <1>1, <1>3, <1>m, Sizes

\* What the first call of a file does to a new block b: its header, its tag, the
\* record's place.
InitHead(a, b) == [a EXCEPT !.map[b] = [@ EXCEPT !.first = HeadSize, !.prev = b]]

\* The header flashfile_init_record prepares in RAM changes no owner.
LEMMA InitHeadIs ==
  ASSUME NEW n \in Nat, NEW a \in States(n), NEW b \in Blocks, NEW u, u = InitHead(a, b)
  PROVE  /\ u \in States(n) /\ u.chain = a.chain /\ u.file = a.file /\ u.flash = a.flash
         /\ u.fuel = a.fuel /\ u.wild = a.wild /\ u.ret = a.ret
         /\ \A c \in Blocks : u.map[c].file_id = a.map[c].file_id
<1>h. PICK h : h = [a.map[b] EXCEPT !.first = HeadSize, !.prev = b]
  OBVIOUS
<1>1. a.map \in [Blocks -> HeadSet] /\ a.map[b] \in HeadSet
  BY DEF States
<1>2. h \in HeadSet /\ h.file_id = a.map[b].file_id
  <2>1. HeadSize \in 0 .. BlockSize - 1
    BY Sizes
  <2> QED
    BY <1>h, <1>1, <2>1 DEF HeadSet
<1>3. u = [a EXCEPT !.map[b] = h]
  BY <1>h, Zenon DEF InitHead
<1>4. /\ u.map = [a.map EXCEPT ![b] = h] /\ u.chain = a.chain /\ u.file = a.file /\ u.flash = a.flash
      /\ u.fuel = a.fuel /\ u.wild = a.wild /\ u.ret = a.ret
  BY <1>3, Zenon DEF States
<1>5. u.map \in [Blocks -> HeadSet] /\ u.map[b] = h /\ \A c \in Blocks : c # b => u.map[c] = a.map[c]
  BY <1>1, <1>2, <1>4
<1>6. u \in States(n)
  BY <1>3, <1>4, <1>5, Zenon DEF States
<1> QED
  BY <1>2, <1>4, <1>5, <1>6

\* A header written leaves the types sound.
LEMMA HeadSound ==
  ASSUME NEW n \in Nat, NEW s \in States(n), Synced(s), NEW b \in Blocks,
         NEW t, t = BlockWriteHead(s, b)
  PROVE  Sound(n, s, t) /\ t.map = s.map
<1>1. s.fuel # 0 => s.flash[b].head.file_id \in {NoFile, s.map[b].file_id}
  BY DEF Synced
<1>2. /\ t \in States(n) /\ Power(s, t) /\ Touched(s, t, b, 0)
      /\ s.fuel # 0 =>
           /\ t.flash[b].head.file_id = s.map[b].file_id
           /\ \A c \in Blocks : c # b => t.flash[c] = s.flash[c]
  BY <1>1, BlockWriteHeadIs
<1>3. t.map = s.map
  BY <1>2 DEF Touched
<1>4. Synced(t)
  BY <1>2, <1>3, Zenon DEF Synced, Power
<1> QED
  BY <1>2, <1>3, <1>4 DEF Sound

\* flashfile_init_record
LEMMA InitRecordSound ==
  ASSUME NEW n \in Nat, NEW s \in States(n), Synced(s), NEW f \in Files, NEW time \in 0 .. n,
         NEW t, t = InitRecord(s, f, time)
  PROVE  Sound(n, s, t)
<1>a. PICK a : a = AllocBlock(s, f)
  OBVIOUS
<1>b. PICK b : b = a.ret
  OBVIOUS
<1>u. PICK u : u = InitHead(a, b)
  OBVIOUS
<1>h. PICK h : h = BlockWriteHead(u, b)
  OBVIOUS
<1>r. PICK r : r = (time \div Interval) * Interval
  OBVIOUS
<1>v. PICK v : v = FlashWrite(h, b, HeadSize, TagBytes(r, Stride))
  OBVIOUS
<1>g. PICK g : g = StoreLastTimeTag(v, f, r)
  OBVIOUS
<1>o. PICK o : o = DataOffset(g, f, time)
  OBVIOUS
<1>w. PICK w : w = FlashWrite(g, b, HeadSize + o, RecBytes(f, time))
  OBVIOUS
<1>0. t = IF b = NoBlock THEN [a EXCEPT !.wild = TRUE] ELSE [w EXCEPT !.ret = 0]
  BY <1>a, <1>b, <1>u, <1>h, <1>r, <1>v, <1>g, <1>o, <1>w, Zenon DEF InitRecord, InitHead
<1>1. /\ Sound(n, s, a) /\ a \in States(n) /\ Synced(a) /\ (b # NoBlock => b \in Blocks)
  BY <1>a, <1>b, AllocBlockIs DEF Sound
<1>2. CASE b = NoBlock
  <2>1. t = [a EXCEPT !.wild = TRUE]
    BY <1>0, <1>2
  <2>2. t \in States(n) /\ t.map = a.map /\ t.flash = a.flash /\ t.fuel = a.fuel
    BY <1>1, <2>1, SetWild
  <2>3. Sound(n, a, t)
    BY <1>1, <2>2 DEF Sound, Synced, Power
  <2> QED
    BY <1>1, <2>3, SoundThen
<1>3. CASE b # NoBlock
  <2>0. b \in Blocks /\ t = [w EXCEPT !.ret = 0]
    BY <1>0, <1>1, <1>3
  <2>1. u \in States(n) /\ u.flash = a.flash /\ u.fuel = a.fuel
        /\ \A c \in Blocks : u.map[c].file_id = a.map[c].file_id
    BY <1>1, <1>u, <2>0, InitHeadIs, SMTT(60)
  <2>2. Sound(n, a, u)
    BY <1>1, <2>1 DEF Sound, Synced, Power
  <2>3. Sound(n, u, h)
    BY <1>h, <2>0, <2>2, HeadSound DEF Sound
  <2>4. r \in 0 .. n /\ r <= time /\ time \in Nat
    BY <1>r, RoundDown
  <2>5. TagBytes(r, Stride) \in Seq(ByteSet(n)) /\ RecBytes(f, time) \in Seq(ByteSet(n))
    BY <2>4, BytesAre
  <2>6. HeadSize \in Nat
    BY Sizes
  <2>7. Sound(n, h, v)
    BY <1>v, <2>0, <2>3, <2>5, <2>6, FlashWriteSound DEF Sound
  <2>8. Sound(n, v, g) /\ g.file[f].tag_time = r
    BY <1>g, <2>4, <2>7, StoreSound, StoreLastTimeTagIs DEF Sound
  <2>9. o \in Nat
    <3>1. g \in States(n) /\ time >= g.file[f].tag_time
      BY <2>4, <2>8 DEF Sound
    <3> QED
      BY <1>o, <2>4, <3>1, DataOffsetIs
  <2>10. Sound(n, g, w)
    <3>1. HeadSize + o \in Nat
      BY <2>6, <2>9
    <3> QED
      BY <1>w, <2>0, <2>5, <2>8, <3>1, FlashWriteSound DEF Sound
  <2>11. Sound(n, w, t)
    BY <2>0, <2>10, SoundSet DEF Sound
  <2>12. Sound(n, s, g)
    BY <1>1, <2>2, <2>3, <2>7, <2>8, SoundThen
  <2> QED
    BY <2>10, <2>11, <2>12, SoundThen
<1> QED
  BY <1>2, <1>3

\* flashfile_append_time_tag
TagOffset(s, f) == IF s.file[f].tag_offset < 0 THEN HeadSize ELSE s.file[f].tag_offset + Stride

\* flashfile_append_time_tag leaves the types sound.
LEMMA AppendTimeTagSound ==
  ASSUME NEW n \in Nat, NEW s \in States(n), Synced(s), NEW f \in Files, NEW time \in 0 .. n,
         NEW t, t = AppendTimeTag(s, f, time)
  PROVE  Sound(n, s, t)
<1>b. PICK b : b = s.file[f].tag_block
  OBVIOUS
<1>o. PICK o : o = TagOffset(s, f)
  OBVIOUS
<1>w. PICK w : w = FlashWrite(s, b, o, TagBytes(time, Stride))
  OBVIOUS
<1>u. PICK u : u = StoreLastTimeTag(w, f, time)
  OBVIOUS
<1>0. t = IF w.ret < 0 THEN w ELSE [u EXCEPT !.ret = 0]
  BY <1>b, <1>o, <1>w, <1>u, Zenon DEF AppendTimeTag, TagOffset
<1>1. b \in Blocks /\ s.file[f].tag_offset \in -1 .. BlockSize - 1
  <2>1. s.file[f] \in DescSet(n)
    BY DEF States
  <2> QED
    BY <1>b, <2>1 DEF DescSet
<1>2. o \in Nat
  BY <1>o, <1>1, Sizes, StrideIs DEF TagOffset
<1>3. TagBytes(time, Stride) \in Seq(ByteSet(n))
  BY BytesAre
<1>4. Sound(n, s, w)
  BY <1>w, <1>1, <1>2, <1>3, FlashWriteSound
<1>5. Sound(n, w, u)
  BY <1>u, <1>4, StoreSound DEF Sound
<1>6. CASE w.ret < 0
  BY <1>0, <1>4, <1>6
<1>7. CASE ~(w.ret < 0)
  <2>1. t = [u EXCEPT !.ret = 0]
    BY <1>0, <1>7
  <2>2. Sound(n, u, t)
    BY <1>5, <2>1, SoundSet DEF Sound
  <2> QED
    BY <1>4, <1>5, <2>2, SoundThen
<1> QED
  BY <1>6, <1>7

\* The write of a record behind the last time tag.
LEMMA WriteRecordSound ==
  ASSUME NEW n \in Nat, NEW s \in States(n), Synced(s), NEW f \in Files, NEW time \in 0 .. n,
         s.file[f].tag_time <= time, NEW t, t = WriteRecord(s, f, time)
  PROVE  Sound(n, s, t)
<1>b. PICK b : b = s.file[f].tag_block
  OBVIOUS
<1>o. PICK o : o = DataOffset(s, f, time)
  OBVIOUS
<1>p. PICK p : p = s.file[f].tag_offset + o
  OBVIOUS
<1>0. t = FlashWrite(s, b, p, RecBytes(f, time))
  BY <1>b, <1>o, <1>p, Zenon DEF WriteRecord
<1>1. b \in Blocks /\ s.file[f].tag_offset \in -1 .. BlockSize - 1 /\ s.file[f].tag_time \in Nat
  <2>1. s.file[f] \in DescSet(n)
    BY DEF States
  <2> QED
    BY <1>b, <2>1 DEF DescSet
<1>2. o \in Nat \ {0}
  BY <1>o, <1>1, DataOffsetIs
<1>3. p \in Nat
  BY <1>p, <1>1, <1>2, Sizes
<1>4. RecBytes(f, time) \in Seq(ByteSet(n))
  BY BytesAre
<1> QED
  BY <1>0, <1>1, <1>3, <1>4, FlashWriteSound

-----------------------------------------------------------------------------
(* The type invariant of the start.                                        *)

\* The largest of some blocks is one of them.
LEMMA MaxIs ==
  ASSUME NEW S \in SUBSET Blocks, S # {}
  PROVE  Max(S) \in S
<1> DEFINE T == {NumBlocks - x : x \in S}
<1>1. T \subseteq Nat /\ T # {}
  <2>1. \A x \in S : NumBlocks - x \in Nat
    BY Sizes DEF Blocks
  <2> QED
    BY <2>1
<1>2. PICK m \in T : \A y \in T : ~ (<<y, m>> \in OpToRel(<, Nat))
  <2>1. IsWellFoundedOn(OpToRel(<, Nat), Nat)
    BY NatLessThanWellFounded
  <2> HIDE DEF T
  <2>2. T \in SUBSET Nat
    BY <1>1
  <2> QED
    BY <1>1, <2>1, <2>2, WFMin, Zenon
<1>3. PICK x \in S : m = NumBlocks - x
  BY <1>2
<1>4. \A ss \in Nat \X Nat : ss[1] < ss[2] => ss \in OpToRel(<, Nat)
  BY Zenon DEF OpToRel
<1>5. \A y \in S : x >= y
  <2> SUFFICES ASSUME NEW y \in S, ~(x >= y) PROVE FALSE
    OBVIOUS
  <2>1. x \in Int /\ y \in Int /\ NumBlocks - y \in Nat /\ NumBlocks - x \in Nat /\ NumBlocks - y < NumBlocks - x
    BY Sizes DEF Blocks
  <2>2. NumBlocks - y \in T
    OBVIOUS
  <2>3. PICK z \in T : z = NumBlocks - y
    BY <2>2
  <2>4. z \in Nat /\ m \in Nat /\ z < m
    BY <1>3, <2>1, <2>3
  <2>5. <<z, m>> \in Nat \X Nat /\ <<z, m>>[1] = z /\ <<z, m>>[2] = m
    BY <2>4, SMT
  <2>6. <<z, m>> \in OpToRel(<, Nat)
    BY <1>4, <2>4, <2>5, Zenon
  <2> QED
    BY <1>2, <2>6, Zenon
<1>6. \E z \in S : \A y \in S : z >= y
  BY <1>5
<1>7. Max(S) = CHOOSE z \in S : \A y \in S : z >= y
  BY Zenon DEF Max
<1> QED
  BY <1>6, <1>7, Zenon

\* What may be read as the offset to the next tag where no tag is.
Offsets == Nat \cup {-1}

\* What may be read as a time tag.
Tags(n)  == [time : 0 .. n, next : Nat]
Reads(n) == [time : 0 .. n, next : Nat \cup {-1}]

\* flash_read
LEMMA ByteAtIs ==
  ASSUME NEW n \in Nat, NEW flash \in FlashSet(n), NEW a
  PROVE  ByteAt(flash, a) \in ByteSet(n)
<1>1. Garbled \in ByteSet(n) /\ Erased \in ByteSet(n)
  BY DEF ByteSet
<1>2. \A b \in Blocks, o \in Body : flash[b].body[o] \in ByteSet(n)
  BY DEF FlashSet, BodySet
<1> QED
  BY <1>1, <1>2, Zenon DEF ByteAt

\* flashfile_get_time_tag_next
LEMMA ReadTagIs ==
  ASSUME NEW n \in Nat, NEW flash \in FlashSet(n), NEW b \in Blocks, NEW off \in Int, NEW g \in Offsets
  PROVE  ReadTag(flash, b, off, g) \in Reads(n)
<1>b. PICK bytes : bytes = [k \in 1 .. TagSize |-> ByteAt(flash, b * BlockSize + off + k - 1)]
  OBVIOUS
<1> DEFINE blank == \A k \in 1 .. TagSize : bytes[k] = Erased
           first == bytes[1]
           isTag == first[1] = "tag" /\ \A k \in 1 .. TagSize :
                      bytes[k] = <<"tag", first[2], first[3], k>>
<1>1. ReadTag(flash, b, off, g) =
        IF blank THEN [time |-> 0, next |-> -1]
        ELSE IF isTag THEN [time |-> first[2], next |-> first[3]]
        ELSE [time |-> 0, next |-> g]
  BY <1>b, Zenon DEF ReadTag, TagIn
<1>2. first \in ByteSet(n)
  <2>1. 1 \in 1 .. TagSize
    BY Sizes
  <2> QED
    BY <1>b, <2>1, ByteAtIs
<1>3. \A x \in ByteSet(n) : x[1] = "tag" => x[2] \in 0 .. n /\ x[3] = Stride
  <2>1. Erased[1] # "tag" /\ Garbled[1] # "tag"
    BY DEF Erased, Garbled
  <2>2. \A t \in 0 .. n, k \in 1 .. TagSize : <<"tag", t, Stride, k>>[2] = t /\ <<"tag", t, Stride, k>>[3] = Stride
    OBVIOUS
  <2>3. \A f \in Files, t \in 0 .. n, k \in 1 .. RecSize : <<"rec", f, t, k>>[1] # "tag"
    OBVIOUS
  <2> QED
    BY <2>1, <2>2, <2>3 DEF ByteSet
<1>4. isTag => first[2] \in 0 .. n /\ first[3] \in Nat
  BY <1>2, <1>3, StrideIs
<1>5. 0 \in 0 .. n
  OBVIOUS
<1> HIDE DEF blank, isTag, first
<1> QED
  BY <1>1, <1>4, <1>5 DEF Reads, Offsets

\* The walk along the tags of a block.
Walks(n, first) ==
  {w \in [off : Nat, tag : Tags(n), end : BOOLEAN, res : -1 .. BlockSize - 1] :
     w.off = first \/ w.off - w.tag.next \in 0 .. BlockSize - 1}

\* One step of flashfile_get_last_time_tag along the tags of a block.
LEMMA NextTagIs ==
  ASSUME NEW n \in Nat, NEW flash \in FlashSet(n), NEW b \in Blocks, NEW g \in Offsets,
         NEW first \in 0 .. BlockSize - 1, NEW w \in Walks(n, first)
  PROVE  NextTag(flash, b, first, w, g) \in Walks(n, first)
<1>r. PICK r : r = ReadTag(flash, b, w.off, g)
  OBVIOUS
<1>o. PICK o : o = w.off + r.next
  OBVIOUS
<1>x. PICK x : x = NextTag(flash, b, first, w, g)
  OBVIOUS
<1>0. /\ w.off \in Nat /\ w.tag \in Tags(n) /\ w.tag.next \in Nat /\ w.end \in BOOLEAN
      /\ w.res \in -1 .. BlockSize - 1
      /\ w.off = first \/ w.off - w.tag.next \in 0 .. BlockSize - 1
  BY DEF Walks, Tags
<1>1. r \in Reads(n)
  BY <1>r, <1>0, ReadTagIs
<1>2. x = IF w.end \/ w.off >= BlockSize THEN w
          ELSE IF r.next = -1
          THEN [off |-> w.off, tag |-> w.tag, end |-> TRUE,
                res |-> IF w.off = first THEN -1 ELSE w.off - w.tag.next]
          ELSE [off |-> o, tag |-> r, end |-> o > BlockSize,
                res |-> IF o > BlockSize THEN w.off ELSE -1]
  BY <1>r, <1>o, <1>x, Zenon DEF NextTag
<1>3. CASE w.end \/ w.off >= BlockSize
  BY <1>x, <1>2, <1>3
<1>4. CASE ~(w.end \/ w.off >= BlockSize) /\ r.next = -1
  <2>p. PICK p : p = IF w.off = first THEN -1 ELSE w.off - w.tag.next
    OBVIOUS
  <2>1. p \in -1 .. BlockSize - 1
    BY <1>0, <2>p, Sizes
  <2>2. x = [off |-> w.off, tag |-> w.tag, end |-> TRUE, res |-> p]
    BY <1>2, <1>4, <2>p
  <2>3. x \in Walks(n, first)
    BY <1>0, <2>1, <2>2 DEF Walks
  <2> QED
    BY <1>x, <2>3
<1>5. CASE ~(w.end \/ w.off >= BlockSize) /\ r.next # -1
  <2>p. PICK p : p = IF o > BlockSize THEN w.off ELSE -1
    OBVIOUS
  <2>e. PICK e : e = (o > BlockSize)
    OBVIOUS
  <2>0. e \in BOOLEAN
    BY <2>e
  <2>1. x = [off |-> o, tag |-> r, end |-> e, res |-> p]
    BY <1>2, <1>5, <2>p, <2>e
  <2>2. r \in Tags(n) /\ r.next \in Nat
    BY <1>1, <1>5 DEF Reads, Tags
  <2>3. w.off < BlockSize
    BY <1>0, <1>5, Sizes
  <2>4. o \in Nat /\ p \in -1 .. BlockSize - 1 /\ o - r.next \in 0 .. BlockSize - 1
    BY <1>0, <1>o, <2>p, <2>2, <2>3, Sizes
  <2>5. x \in Walks(n, first)
    <3> HIDE <1>5
    <3> QED
      BY <2>0, <2>1, <2>2, <2>4 DEF Walks
  <2> QED
    BY <1>x, <2>5
<1> QED
  BY <1>3, <1>4, <1>5

\* flashfile_get_last_time_tag
LEMMA LastTimeTagIs ==
  ASSUME NEW n \in Nat, NEW flash \in FlashSet(n), NEW map \in [Blocks -> HeadSet], NEW b \in Blocks,
         NEW tag \in Tags(n), NEW g \in Offsets
  PROVE  LastTimeTag(flash, map, b, tag, g) \in Walks(n, map[b].first)
<1>f. PICK first : first = map[b].first
  OBVIOUS
<1> DEFINE V == Walks(n, first)
           v == [off |-> first, tag |-> tag, end |-> FALSE, res |-> -1]
           h == [k \in 1 .. BlockSize |-> [w \in V |-> NextTag(flash, b, first, w, g)]]
           R(w) == w = [i \in 0 .. BlockSize |->
                         IF i = 0 THEN v ELSE NextTag(flash, b, first, w[i - 1], g)]
           walk == CHOOSE w : R(w)
<1>0. first \in 0 .. BlockSize - 1 /\ BlockSize \in Nat
  BY <1>f, Sizes DEF HeadSet
<1>1. v \in V
  <2>1. v \in [off : Nat, tag : Tags(n), end : BOOLEAN, res : -1 .. BlockSize - 1] /\ v.off = first
    BY <1>0, Sizes
  <2> HIDE DEF v
  <2> QED
    BY <2>1 DEF Walks
<1>2. h \in [1 .. BlockSize -> [V -> V]]
  <2>1. \A w \in V : NextTag(flash, b, first, w, g) \in V
    BY <1>0, NextTagIs
  <2> HIDE DEF V
  <2> QED
    BY <2>1, Zenon
<1>3. LastTimeTag(flash, map, b, tag, g) = walk[BlockSize]
  BY <1>f, Zenon DEF LastTimeTag
<1> HIDE DEF h, v, V
<1>4. PICK x \in [0 .. BlockSize -> V] :
         x[0] = v /\ \A k \in 1 .. BlockSize : x[k] = h[k][x[k - 1]]
  <2>1. Recursive(BlockSize, V, v, h)
    BY <1>0, <1>1, <1>2, Recursion, Zenon
  <2> QED
    BY <2>1, Zenon DEF Recursive
<1>5. \A k \in 1 .. BlockSize : x[k] = NextTag(flash, b, first, x[k - 1], g)
  <2>1. \A k \in 1 .. BlockSize : k - 1 \in 0 .. BlockSize
    BY <1>0
  <2>2. \A k \in 1 .. BlockSize : x[k - 1] \in V
    BY <1>4, <2>1
  <2> QED
    BY <1>4, <2>2, Zenon DEF h
<1>6. R(x)
  <2>1. \A i \in 0 .. BlockSize : x[i] = IF i = 0 THEN v ELSE NextTag(flash, b, first, x[i - 1], g)
    <3> SUFFICES ASSUME NEW i \in 0 .. BlockSize
                 PROVE  x[i] = IF i = 0 THEN v ELSE NextTag(flash, b, first, x[i - 1], g)
      OBVIOUS
    <3>1. CASE i = 0
      BY <1>4, <3>1
    <3>2. CASE i # 0
      <4>1. i \in 1 .. BlockSize
        BY <3>2, <1>0
      <4>2. x[i] = NextTag(flash, b, first, x[i - 1], g)
        BY <1>5, <4>1
      <4> QED
        BY <3>2, <4>2, Zenon
    <3> QED
      BY <3>1, <3>2
  <2> QED
    BY <1>4, <2>1, Zenon
<1>7. R(walk)
  BY <1>6, Zenon
<1> HIDE DEF walk
<1>8. walk[0] = v /\ \A k \in 1 .. BlockSize : walk[k] = NextTag(flash, b, first, walk[k - 1], g)
  <2>1. \A i \in 0 .. BlockSize : walk[i] = IF i = 0 THEN v ELSE NextTag(flash, b, first, walk[i - 1], g)
    BY <1>7, Zenon
  <2>2. 0 \in 0 .. BlockSize /\ \A k \in 1 .. BlockSize : k \in 0 .. BlockSize /\ k # 0
    BY <1>0
  <2>3. walk[0] = v
    BY <2>1, <2>2, Zenon
  <2> QED
    BY <2>1, <2>2, <2>3, Zenon
<1> HIDE DEF R
<1>9. Follows(BlockSize, V, v, h, walk)
  <2>1. \A k \in 1 .. BlockSize : walk[k - 1] \in V => walk[k] = h[k][walk[k - 1]]
    BY <1>8, Zenon DEF h
  <2> QED
    BY <1>0, <1>1, <1>2, <1>8, <2>1, Zenon DEF Follows
<1>10. Stays(BlockSize, V, walk)
  BY <1>9, RecursionType, Zenon
<1>11. BlockSize \in 0 .. BlockSize
  BY <1>0
<1>12. walk[BlockSize] \in V
  BY <1>10, <1>11, Zenon DEF Stays
<1> QED
  BY <1>3, <1>12, <1>f DEF V

\* The walk back along the blocks of a file.
Backs(n) == [b : Blocks, r : UNION {Walks(n, first) : first \in 0 .. BlockSize - 1}]

\* What the walk along one block's tags returns, as a step of the walk back.
LEMMA LastTimeTagBack ==
  ASSUME NEW n \in Nat, NEW flash \in FlashSet(n), NEW map \in [Blocks -> HeadSet], NEW b \in Blocks,
         NEW tag \in Tags(n), NEW g \in Offsets
  PROVE  [b |-> b, r |-> LastTimeTag(flash, map, b, tag, g)] \in Backs(n)
<1>1. LastTimeTag(flash, map, b, tag, g) \in Walks(n, map[b].first)
  BY LastTimeTagIs
<1>2. map[b].first \in 0 .. BlockSize - 1
  BY DEF HeadSet
<1>3. LastTimeTag(flash, map, b, tag, g) \in UNION {Walks(n, first) : first \in 0 .. BlockSize - 1}
  BY <1>1, <1>2, Zenon
<1> QED
  BY <1>3, Zenon DEF Backs

\* The fields of a step of the walk back.
LEMMA BackIs ==
  ASSUME NEW n \in Nat, NEW w \in Backs(n)
  PROVE  w.b \in Blocks /\ w.r.tag \in Tags(n) /\ w.r.res \in -1 .. BlockSize - 1
<1>1. w.b \in Blocks /\ w.r \in UNION {Walks(n, first) : first \in 0 .. BlockSize - 1}
  BY DEF Backs
<1>2. PICK first \in 0 .. BlockSize - 1 : w.r \in Walks(n, first)
  BY <1>1, Zenon
<1>3. w.r \in [off : Nat, tag : Tags(n), end : BOOLEAN, res : -1 .. BlockSize - 1]
  BY <1>2 DEF Walks
<1> QED
  BY <1>1, <1>3

\* One step back to the block before.
LEMMA EarlierIs ==
  ASSUME NEW n \in Nat, NEW s \in States(n), NEW start, NEW g \in Offsets, NEW w \in Backs(n)
  PROVE  Earlier(s, start, w, g) \in Backs(n)
<1>1. w.b \in Blocks /\ w.r.tag \in Tags(n)
  BY BackIs
<1>2. s.flash \in FlashSet(n) /\ s.map \in [Blocks -> HeadSet]
  BY DEF States
<1>p. PICK p : p = s.map[w.b].prev
  OBVIOUS
<1>3. p \in Blocks
  BY <1>1, <1>2, <1>p DEF HeadSet
<1>4. [b |-> p, r |-> LastTimeTag(s.flash, s.map, p, w.r.tag, g)] \in Backs(n)
  BY <1>1, <1>2, <1>3, LastTimeTagBack
<1>5. Earlier(s, start, w, g) = IF w.r.res >= 0 \/ w.b = start THEN w
                                ELSE [b |-> p, r |-> LastTimeTag(s.flash, s.map, p, w.r.tag, g)]
  BY <1>p, Zenon DEF Earlier
<1> QED
  BY <1>4, <1>5

\* The walk back ends with a tag, or none, of some block.
LEMMA LastTagIs ==
  ASSUME NEW n \in Nat, NEW s \in States(n), NEW start, NEW g \in Offsets
  PROVE  LastTag(s, start, g) \in Backs(n)
<1> DEFINE V == Backs(n)
           v == [b |-> 0, r |-> LastTimeTag(s.flash, s.map, 0, [time |-> 0, next |-> 0], g)]
           h == [k \in 1 .. NumBlocks |-> [w \in V |-> Earlier(s, start, w, g)]]
           R(w) == w = [i \in 0 .. NumBlocks |-> IF i = 0 THEN v ELSE Earlier(s, start, w[i - 1], g)]
           walk == CHOOSE w : R(w)
<1>0. NumBlocks \in Nat
  BY Sizes
<1>1. v \in V
  <2>1. 0 \in Blocks /\ [time |-> 0, next |-> 0] \in Tags(n)
    BY Sizes DEF Blocks, Tags
  <2>2. s.flash \in FlashSet(n) /\ s.map \in [Blocks -> HeadSet]
    BY DEF States
  <2> QED
    BY <2>1, <2>2, LastTimeTagBack
<1>2. h \in [1 .. NumBlocks -> [V -> V]]
  <2>1. \A w \in V : Earlier(s, start, w, g) \in V
    BY EarlierIs
  <2> HIDE DEF V
  <2> QED
    BY <2>1, Zenon
<1>3. LastTag(s, start, g) = walk[NumBlocks]
  BY Zenon DEF LastTag
<1> HIDE DEF h, v, V
<1>4. PICK x \in [0 .. NumBlocks -> V] :
         x[0] = v /\ \A k \in 1 .. NumBlocks : x[k] = h[k][x[k - 1]]
  <2>1. Recursive(NumBlocks, V, v, h)
    BY <1>0, <1>1, <1>2, Recursion, Zenon
  <2> QED
    BY <2>1, Zenon DEF Recursive
<1>5. \A k \in 1 .. NumBlocks : x[k] = Earlier(s, start, x[k - 1], g)
  <2>1. \A k \in 1 .. NumBlocks : k - 1 \in 0 .. NumBlocks
    BY <1>0
  <2>2. \A k \in 1 .. NumBlocks : x[k - 1] \in V
    BY <1>4, <2>1
  <2> QED
    BY <1>4, <2>2, Zenon DEF h
<1>6. R(x)
  <2>1. \A i \in 0 .. NumBlocks : x[i] = IF i = 0 THEN v ELSE Earlier(s, start, x[i - 1], g)
    <3> SUFFICES ASSUME NEW i \in 0 .. NumBlocks
                 PROVE  x[i] = IF i = 0 THEN v ELSE Earlier(s, start, x[i - 1], g)
      OBVIOUS
    <3>1. CASE i = 0
      BY <1>4, <3>1
    <3>2. CASE i # 0
      <4>1. i \in 1 .. NumBlocks
        BY <3>2, <1>0
      <4>2. x[i] = Earlier(s, start, x[i - 1], g)
        BY <1>5, <4>1
      <4> QED
        BY <3>2, <4>2, Zenon
    <3> QED
      BY <3>1, <3>2
  <2> QED
    BY <1>4, <2>1, Zenon
<1>7. R(walk)
  BY <1>6, Zenon
<1> HIDE DEF walk
<1>8. walk[0] = v /\ \A k \in 1 .. NumBlocks : walk[k] = Earlier(s, start, walk[k - 1], g)
  <2>1. \A i \in 0 .. NumBlocks : walk[i] = IF i = 0 THEN v ELSE Earlier(s, start, walk[i - 1], g)
    BY <1>7, Zenon
  <2>2. 0 \in 0 .. NumBlocks /\ \A k \in 1 .. NumBlocks : k \in 0 .. NumBlocks /\ k # 0
    BY <1>0
  <2>3. walk[0] = v
    BY <2>1, <2>2, Zenon
  <2> QED
    BY <2>1, <2>2, <2>3, Zenon
<1> HIDE DEF R
<1>9. Follows(NumBlocks, V, v, h, walk)
  <2>1. \A k \in 1 .. NumBlocks : walk[k - 1] \in V => walk[k] = h[k][walk[k - 1]]
    BY <1>8, Zenon DEF h
  <2> QED
    BY <1>0, <1>1, <1>2, <1>8, <2>1, Zenon DEF Follows
<1>10. Stays(NumBlocks, V, walk)
  BY <1>9, RecursionType, Zenon
<1>11. NumBlocks \in 0 .. NumBlocks
  BY <1>0
<1>12. walk[NumBlocks] \in V
  BY <1>10, <1>11, Zenon DEF Stays
<1> QED
  BY <1>3, <1>12 DEF V

\* The blocks of a file are finitely many, no more than there are.
LEMMA OwnedIs ==
  ASSUME NEW S \in SUBSET Blocks
  PROVE  IsFiniteSet(S) /\ Cardinality(S) \in 0 .. NumBlocks /\ (S = {} <=> Cardinality(S) = 0)
<1>1. IsFiniteSet(Blocks) /\ Cardinality(Blocks) = NumBlocks
  <2>1. 0 \in Int /\ NumBlocks - 1 \in Int
    BY Sizes
  <2>2. IsFiniteSet(0 .. NumBlocks - 1)
        /\ Cardinality(0 .. NumBlocks - 1) = IF 0 > NumBlocks - 1 THEN 0 ELSE (NumBlocks - 1) - 0 + 1
    BY <2>1, FS_Interval
  <2> QED
    BY <2>2, Sizes DEF Blocks
<1>2. IsFiniteSet(S) /\ Cardinality(S) <= NumBlocks
  BY <1>1, FS_Subset
<1>3. Cardinality(S) \in Nat
  BY <1>2, FS_CardinalityType
<1>4. S = {} <=> Cardinality(S) = 0
  BY <1>2, FS_EmptySet
<1> QED
  BY <1>2, <1>3, <1>4, Sizes

\* What flashfile_scan_file_block leaves.
Scanned(s, t, f) ==
  /\ t.map = s.map /\ t.flash = s.flash /\ t.fuel = s.fuel /\ t.wild = s.wild /\ t.ret = s.ret
  /\ t.file[f].total_block = Cardinality({i \in Blocks : s.map[i].file_id = f})
  /\ t.file[f].last_write_block = 0
  /\ (\A i \in Blocks : s.map[i].file_id # f) => t.chain = s.chain /\ t.file[f].start_block = 0

\* flashfile_scan_file_block keeps the flash and counts the headers that name the
\* file.
LEMMA ScanFileBlockIs ==
  ASSUME NEW n \in Nat, NEW s \in States(n), NEW f \in Files, NEW g \in Offsets,
         NEW t, t = ScanFileBlock(s, f, g)
  PROVE  t \in States(n) /\ Scanned(s, t, f)
<1>o. PICK own : own = {i \in Blocks : s.map[i].file_id = f}
  OBVIOUS
<1>h. PICK heads : heads = {i \in own : s.map[s.map[i].prev].file_id # f \/ s.map[i].prev = i}
  OBVIOUS
<1>c. PICK chain : chain = [p \in Blocks |->
                     IF {i \in own : s.map[i].prev = p} = {} THEN s.chain[p]
                     ELSE Max({i \in own : s.map[i].prev = p})]
  OBVIOUS
<1>s. PICK start : start = IF heads = {} THEN 0 ELSE Max(heads)
  OBVIOUS
<1>l. PICK last : last = LastTag(s, start, g)
  OBVIOUS
<1>k. PICK k : k = Cardinality(own)
  OBVIOUS
<1>d. PICK desc : desc = IF own = {} THEN [Descriptor0 EXCEPT !.tag_offset = -1]
                         ELSE [Descriptor0 EXCEPT
                                 !.start_block = start, !.total_block = k,
                                 !.tag_time = last.r.tag.time, !.tag_next = last.r.tag.next,
                                 !.tag_block = last.b, !.tag_offset = last.r.res]
  OBVIOUS
<1>0. t = [s EXCEPT !.chain = chain, !.file[f] = desc]
  BY <1>o, <1>h, <1>c, <1>s, <1>l, <1>k, <1>d, Zenon DEF ScanFileBlock
<1>1. own \in SUBSET Blocks /\ heads \in SUBSET Blocks /\ 0 \in Blocks
  BY <1>o, <1>h, Sizes DEF Blocks
<1>2. start \in Blocks
  BY <1>s, <1>1, MaxIs
<1>3. chain \in [Blocks -> Blocks]
  <2>1. \A p \in Blocks : s.chain[p] \in Blocks
    BY DEF States
  <2>2. ASSUME NEW p \in Blocks, {i \in own : s.map[i].prev = p} # {}
        PROVE  Max({i \in own : s.map[i].prev = p}) \in Blocks
    <3>a. PICK A : A = {i \in own : s.map[i].prev = p}
      OBVIOUS
    <3>1. A \in SUBSET Blocks /\ A # {}
      BY <1>1, <2>2, <3>a
    <3> QED
      BY <3>a, <3>1, MaxIs
  <2> QED
    BY <1>c, <2>1, <2>2
<1>4. last.b \in Blocks /\ last.r.tag \in Tags(n) /\ last.r.res \in -1 .. BlockSize - 1
  <2>1. last \in Backs(n)
    BY <1>l, LastTagIs
  <2> QED
    BY <2>1, BackIs
<1>5. k \in 0 .. NumBlocks /\ (own = {} <=> k = 0)
  BY <1>k, <1>1, OwnedIs
<1>6. Descriptor0 \in DescSet(n) /\ Descriptor0.total_block = 0 /\ Descriptor0.last_write_block = 0
      /\ Descriptor0.start_block = 0
  BY <1>1, Sizes DEF DescSet, Descriptor0
<1>7. desc \in DescSet(n) /\ desc.total_block = k /\ desc.last_write_block = 0
      /\ (own = {} => desc.start_block = 0)
  <2>1. CASE own = {}
    <3>1. desc = [Descriptor0 EXCEPT !.tag_offset = -1] /\ -1 \in -1 .. BlockSize - 1
      BY <1>d, <2>1, Sizes
    <3>2. desc \in DescSet(n)
      BY <1>6, <3>1 DEF DescSet
    <3>3. desc.total_block = Descriptor0.total_block /\ desc.last_write_block = Descriptor0.last_write_block
          /\ desc.start_block = Descriptor0.start_block
      BY <1>6, <3>1 DEF DescSet
    <3> QED
      BY <1>5, <1>6, <2>1, <3>2, <3>3
  <2>2. CASE own # {}
    <3>0. PICK tt \in 0 .. n, tn \in Nat, lb \in Blocks, lr \in -1 .. BlockSize - 1 :
             tt = last.r.tag.time /\ tn = last.r.tag.next /\ lb = last.b /\ lr = last.r.res
      BY <1>4 DEF Tags
    <3>1. desc = [Descriptor0 EXCEPT
                    !.start_block = start, !.total_block = k, !.tag_time = tt, !.tag_next = tn,
                    !.tag_block = lb, !.tag_offset = lr]
      BY <1>d, <2>2, <3>0
    <3>2. desc \in DescSet(n)
      BY <1>2, <1>5, <1>6, <3>1 DEF DescSet
    <3>3. desc.total_block = k /\ desc.last_write_block = Descriptor0.last_write_block
      BY <1>6, <3>1 DEF DescSet
    <3> QED
      BY <1>6, <2>2, <3>2, <3>3
  <2> QED
    BY <2>1, <2>2
<1>8. s.file \in [Files -> DescSet(n)]
  BY DEF States
<1>9. /\ t.map = s.map /\ t.flash = s.flash /\ t.fuel = s.fuel /\ t.wild = s.wild /\ t.ret = s.ret
      /\ t.chain = chain /\ t.file = [s.file EXCEPT ![f] = desc]
  BY <1>0, Zenon DEF States
<1>10. t.file \in [Files -> DescSet(n)] /\ t.file[f] = desc
  BY <1>7, <1>8, <1>9
<1>11. t \in States(n)
  BY <1>0, <1>3, <1>9, <1>10, Zenon DEF States
<1>12. (\A i \in Blocks : s.map[i].file_id # f) => t.chain = s.chain /\ t.file[f].start_block = 0
  <2> SUFFICES ASSUME \A i \in Blocks : s.map[i].file_id # f
               PROVE  t.chain = s.chain /\ t.file[f].start_block = 0
    OBVIOUS
  <2>1. own = {}
    BY <1>o
  <2>2. s.chain \in [Blocks -> Blocks]
    BY DEF States
  <2>3. \A p \in Blocks : chain[p] = s.chain[p]
    BY <1>c, <2>1
  <2>4. chain = s.chain
    BY <1>3, <2>2, <2>3
  <2> QED
    BY <1>7, <1>9, <1>10, <2>1, <2>4
<1> QED
  BY <1>7, <1>9, <1>10, <1>11, <1>12, <1>k, <1>o DEF Scanned

\* The state flashfile_system_init builds on a flash.
Booted(n, flash) ==
  {s \in States(n) : /\ s.map = [b \in Blocks |-> flash[b].head] /\ s.flash = flash
                     /\ s.fuel = -1 /\ s.wild = FALSE /\ s.ret = 0}

\* The tables before the files are scanned.
LEMMA UnpoweredIs ==
  ASSUME NEW n \in Nat, NEW flash \in FlashSet(n)
  PROVE  Unpowered(flash) \in Booted(n, flash) /\ Unpowered(flash).chain = [b \in Blocks |-> b]
<1>1. Descriptor0 \in DescSet(n)
  BY Sizes DEF DescSet, Descriptor0, Blocks
<1>2. /\ [b \in Blocks |-> flash[b].head] \in [Blocks -> HeadSet] /\ [b \in Blocks |-> b] \in [Blocks -> Blocks]
      /\ [f \in Files |-> Descriptor0] \in [Files -> DescSet(n)] /\ -1 \in Int /\ FALSE \in BOOLEAN /\ 0 \in Int
  BY <1>1 DEF FlashSet
<1>3. Unpowered(flash) \in States(n)
  BY <1>2, Zenon DEF Unpowered, States
<1> QED
  BY <1>3, Zenon DEF Booted, Unpowered

\* Scanning a file keeps the headers' copies and the flash.
LEMMA ScanBooted ==
  ASSUME NEW n \in Nat, NEW flash, NEW g \in Offsets, NEW f \in Files, NEW s \in Booted(n, flash)
  PROVE  ScanFileBlock(s, f, g) \in Booted(n, flash)
<1>t. PICK t : t = ScanFileBlock(s, f, g)
  OBVIOUS
<1>1. s \in States(n) /\ s.map = [b \in Blocks |-> flash[b].head] /\ s.flash = flash
      /\ s.fuel = -1 /\ s.wild = FALSE /\ s.ret = 0
  BY DEF Booted
<1>2. t \in States(n) /\ Scanned(s, t, f)
  BY <1>1, <1>t, ScanFileBlockIs
<1>3. t \in Booted(n, flash)
  BY <1>1, <1>2, Zenon DEF Scanned, Booted
<1> QED
  BY <1>t, <1>3

\* flashfile_system_init
LEMMA SystemInitIs ==
  ASSUME NEW n \in Nat, NEW flash \in FlashSet(n), NEW g \in Offsets
  PROVE  /\ SystemInit(flash, g) \in Booted(n, flash)
         /\ \A f \in Files : Files = {f} =>
              SystemInit(flash, g) = ScanFileBlock(Unpowered(flash), f, g)
<1> DEFINE V == Booted(n, flash)
           v == Unpowered(flash)
           E(k, s) == IF k - 1 \in Files THEN ScanFileBlock(s, k - 1, g) ELSE s
           h == [k \in 1 .. 15 |-> [w \in V |-> E(k, w)]]
           R(w) == w = [i \in 0 .. 15 |-> IF i = 0 THEN v ELSE E(i, w[i - 1])]
           walk == CHOOSE w : R(w)
<1>1. v \in V
  BY UnpoweredIs
<1>2. h \in [1 .. 15 -> [V -> V]]
  <2>1. \A k \in 1 .. 15 : \A w \in V : E(k, w) \in V
    <3> SUFFICES ASSUME NEW k \in 1 .. 15, NEW w \in V PROVE E(k, w) \in V
      OBVIOUS
    <3>1. CASE k - 1 \in Files
      <4>1. ScanFileBlock(w, k - 1, g) \in V
        BY <3>1, ScanBooted
      <4> QED
        BY <3>1, <4>1
    <3>2. CASE k - 1 \notin Files
      BY <3>2
    <3> QED
      BY <3>1, <3>2
  <2> HIDE DEF V, E
  <2> QED
    BY <2>1, Zenon
<1>3. SystemInit(flash, g) = walk[15]
  BY Zenon DEF SystemInit
<1> HIDE DEF h, v, V, E
<1>4. PICK x \in [0 .. 15 -> V] : x[0] = v /\ \A k \in 1 .. 15 : x[k] = h[k][x[k - 1]]
  <2>1. Recursive(15, V, v, h)
    BY <1>1, <1>2, Recursion
  <2> QED
    BY <2>1, Zenon DEF Recursive
<1>5. \A k \in 1 .. 15 : x[k] = E(k, x[k - 1])
  <2>1. \A k \in 1 .. 15 : k - 1 \in 0 .. 15
    OBVIOUS
  <2>2. \A k \in 1 .. 15 : x[k - 1] \in V
    BY <1>4, <2>1
  <2> QED
    BY <1>4, <2>2, Zenon DEF h
<1>6. R(x)
  <2>1. \A i \in 0 .. 15 : x[i] = IF i = 0 THEN v ELSE E(i, x[i - 1])
    <3> SUFFICES ASSUME NEW i \in 0 .. 15 PROVE x[i] = IF i = 0 THEN v ELSE E(i, x[i - 1])
      OBVIOUS
    <3>1. CASE i = 0
      BY <1>4, <3>1
    <3>2. CASE i # 0
      <4>1. i \in 1 .. 15
        BY <3>2
      <4>2. x[i] = E(i, x[i - 1])
        BY <1>5, <4>1
      <4> QED
        BY <3>2, <4>2, Zenon
    <3> QED
      BY <3>1, <3>2
  <2> QED
    BY <1>4, <2>1, Zenon
<1>7. R(walk)
  BY <1>6, Zenon
<1> HIDE DEF walk
<1>8. walk[0] = v /\ \A k \in 1 .. 15 : walk[k] = E(k, walk[k - 1])
  <2>1. \A i \in 0 .. 15 : walk[i] = IF i = 0 THEN v ELSE E(i, walk[i - 1])
    BY <1>7, Zenon
  <2>2. 0 \in 0 .. 15 /\ \A k \in 1 .. 15 : k \in 0 .. 15 /\ k # 0
    OBVIOUS
  <2>3. walk[0] = v
    BY <2>1, <2>2, Zenon
  <2> QED
    BY <2>1, <2>2, <2>3, Zenon
<1> HIDE DEF R
<1>9. Follows(15, V, v, h, walk)
  <2>1. \A k \in 1 .. 15 : walk[k - 1] \in V => walk[k] = h[k][walk[k - 1]]
    BY <1>8, Zenon DEF h
  <2>2. 15 \in Nat
    OBVIOUS
  <2> QED
    BY <1>1, <1>2, <1>8, <2>1, <2>2, Zenon DEF Follows
<1>10. Stays(15, V, walk)
  BY <1>9, RecursionType, Zenon
<1>11. walk[15] \in V
  <2>1. 15 \in 0 .. 15
    OBVIOUS
  <2> QED
    BY <1>10, <2>1, Zenon DEF Stays
<1>12. ASSUME NEW f \in Files, Files = {f} PROVE walk[15] = ScanFileBlock(v, f, g)
  <2>0. f \in 0 .. 14
    BY LimitIs
  <2>y. PICK y : y = ScanFileBlock(v, f, g)
    OBVIOUS
  <2> DEFINE A == {k \in 0 .. 15 : walk[k] = IF k <= f THEN v ELSE y}
  <2>1. 0 \in A
    BY <1>8, <2>0
  <2>2. ASSUME NEW k \in 0 .. 14, k \in A PROVE k + 1 \in A
    <3>1. k + 1 \in 1 .. 15 /\ (k + 1) - 1 = k /\ k + 1 \in 0 .. 15
      OBVIOUS
    <3>2. walk[k + 1] = E(k + 1, walk[k])
      BY <1>8, <3>1
    <3>3. E(k + 1, walk[k]) = IF k = f THEN ScanFileBlock(walk[k], f, g) ELSE walk[k]
      BY <1>12, <3>1, Zenon DEF E
    <3>4. CASE k = f
      <4>1. walk[k] = v
        BY <2>0, <2>2, <3>4
      <4>2. walk[k + 1] = y
        BY <2>y, <3>2, <3>3, <3>4, <4>1
      <4> QED
        BY <2>0, <3>1, <3>4, <4>2
    <3>5. CASE k # f
      <4>1. walk[k + 1] = walk[k]
        BY <3>2, <3>3, <3>5
      <4> QED
        BY <2>0, <2>2, <3>1, <3>5, <4>1
    <3> QED
      BY <3>4, <3>5
  <2>3. 0 .. 15 \subseteq A
    <3> HIDE DEF A
    <3>1. 15 \in Nat /\ \A k \in 0 .. 15 - 1 : k \in A => k + 1 \in A
      BY <2>2
    <3> QED
      BY <2>1, <3>1, Induction
  <2>4. 15 \in A
    BY <2>3
  <2> QED
    BY <2>0, <2>4, <2>y
<1> QED
  BY <1>3, <1>11, <1>12 DEF V, v

-----------------------------------------------------------------------------
(* The type invariant of the actions.                                      *)

\* flashfile_append_record up to the loop leaves the types sound.
LEMMA EnterSound ==
  ASSUME NEW n \in Nat, NEW s \in States(n), Synced(s), NEW f \in Files, NEW t, t = Enter(s, f, n)
  PROVE  Sound(n, s, t)
<1>1. n \in 0 .. n
  OBVIOUS
<1>2. Sound(n, s, InitRecord(s, f, n)) /\ Sound(n, s, AppendTimeTag(s, f, n))
  BY <1>1, InitRecordSound, AppendTimeTagSound
<1>3. Sound(n, s, s)
  BY DEF Sound, Power
<1> QED
  BY <1>2, <1>3, Zenon DEF Enter

\* A round of the loop of flashfile_append_data leaves the types sound.
LEMMA LoopTagSound ==
  ASSUME NEW n \in Nat, NEW s \in States(n), Synced(s), NEW f \in Files, NEW t, t = LoopTag(s, f, n)
  PROVE  Sound(n, s, t)
<1>r. PICK r : r = (n \div Interval) * Interval
  OBVIOUS
<1>1. r \in 0 .. n
  BY <1>r, RoundDown
<1>2. t = AppendTimeTag(s, f, r)
  BY <1>r, Zenon DEF LoopTag
<1> QED
  BY <1>1, <1>2, AppendTimeTagSound

\* The write of the record leaves the types sound.
LEMMA WriteSound ==
  ASSUME NEW n \in Nat, NEW s \in States(n), Synced(s), NEW f \in Files, NEW t, t = WriteRecord(s, f, n)
  PROVE  Sound(n, s, t)
<1>1. n \in 0 .. n /\ s.file[f].tag_time <= n
  <2>1. s.file[f] \in DescSet(n)
    BY DEF States
  <2> QED
    BY <2>1 DEF DescSet
<1> QED
  BY <1>1, WriteRecordSound

\* The state a call leaves, and the one the power leaves when it fails.
Calm(n, s) == s \in States(n) /\ Synced(s) /\ s.fuel = -1

\* A sound step from a calm state ends in one.
LEMMA CalmSound ==
  ASSUME NEW n \in Nat, NEW s, Calm(n, s), NEW t, Sound(n, s, t)
  PROVE  Calm(n, t)
BY Zenon DEF Calm, Sound, Power

\* A calm state is calm later.
LEMMA CalmLater ==
  ASSUME NEW n \in Nat, NEW m \in Nat, n <= m, NEW s, Calm(n, s)
  PROVE  Calm(m, s)
BY Later, Zenon DEF Calm

\* A power cut that is yet to come changes no table and no byte.
LEMMA CutIs ==
  ASSUME NEW n \in Nat, Calm(n, fs), NEW k \in 0 .. 3, NEW s, s = Cut(k)
  PROVE  /\ s \in States(n) /\ Synced(s) /\ s.map = fs.map /\ s.chain = fs.chain /\ s.file = fs.file
         /\ s.flash = fs.flash /\ s.wild = fs.wild
<1>0. fs \in States(n) /\ Synced(fs) /\ fs.fuel # 0
  BY DEF Calm
<1>1. s = [fs EXCEPT !.fuel = k] /\ k \in Int
  BY DEF Cut
<1>2. s \in States(n) /\ s.map = fs.map /\ s.chain = fs.chain /\ s.file = fs.file
      /\ s.flash = fs.flash /\ s.wild = fs.wild
  <2>1. s \in States(n)
    BY <1>0, <1>1, Zenon DEF States
  <2> QED
    BY <1>0, <1>1, <2>1, Zenon DEF States
<1> QED
  BY <1>0, <1>2, Zenon DEF Synced

\* flashfile_system_init builds a calm state whatever it finds on the flash.
LEMMA BootedCalm ==
  ASSUME NEW n \in Nat, NEW s, s \in States(n), NEW g \in Garbage
  PROVE  Calm(n, SystemInit(s.flash, g)) /\ ~SystemInit(s.flash, g).wild
<1>1. s.flash \in FlashSet(n) /\ g \in Offsets
  BY GarbageAssumption DEF States, Offsets
<1>2. SystemInit(s.flash, g) \in Booted(n, s.flash)
  BY <1>1, SystemInitIs
<1>t. PICK t : t = SystemInit(s.flash, g)
  OBVIOUS
<1>3. /\ t \in States(n) /\ t.map = [b \in Blocks |-> s.flash[b].head] /\ t.flash = s.flash
      /\ t.fuel = -1 /\ t.wild = FALSE
  BY <1>2, <1>t DEF Booted
<1>4. Synced(t)
  BY <1>3 DEF Synced
<1> QED
  BY <1>t, <1>3, <1>4 DEF Calm

\* The inductive form of the type invariant.
Calling ==
  \/ call = Idle /\ now \in 0 .. use.until + Interval
  \/ call = Hung /\ boots # 0 /\ now \in 0 .. use.until + Interval
  \/ call \in [file : Files, time : {now}, round : {0, 1}] /\ now \in 0 .. use.until
TypeInv ==
  /\ use \in Uses /\ now \in Nat /\ boots \in Nat /\ Calling
  /\ Calm(now, fs)
  /\ acked \in [Files -> SUBSET (0 .. use.until)]

\* A call in progress is of a file, and is neither Idle nor Hung; before the first
\* restart there is nothing else but Idle.
LEMMA CallIs ==
  ASSUME TypeInv
  PROVE  /\ call.file \in Files => /\ call # Idle /\ call # Hung /\ call.time = now
                                  /\ now \in 0 .. use.until
                                  /\ call \in [file : Files, time : {now}, round : {0, 1}]
         /\ call # Idle /\ boots = 0 => call.file \in Files
<1>1. NoFile \notin Files
  <2>1. Files \subseteq 0 .. 14
    BY LimitIs
  <2> QED
    BY <2>1 DEF NoFile
<1>2. Idle.file = NoFile /\ Hung.file = NoFile
  BY DEF Idle, Hung
<1>3. call # Idle /\ call # Hung => /\ call \in [file : Files, time : {now}, round : {0, 1}]
                                  /\ now \in 0 .. use.until
  BY DEF TypeInv, Calling
<1>4. call = Hung => boots # 0
  BY <1>1, <1>2 DEF TypeInv, Calling, Idle, Hung
<1> QED
  BY <1>1, <1>2, <1>3, <1>4

\* The inductive invariant has the types of TypeOK.
LEMMA TypeInvIs ==
  ASSUME TypeInv
  PROVE  TypeOK
<1>1. fs \in States(now) /\ use \in Uses /\ now \in Nat /\ use.until \in Nat
  BY LimitIs DEF TypeInv, Calm
<1>2. fs.map \in [Blocks -> HeadSet] /\ fs.chain \in [Blocks -> Blocks] /\ fs.file \in [Files -> DescSet(now)]
  BY <1>1 DEF States
<1>3. \A f \in Files :
       /\ Desc(f).start_block \in Blocks /\ Desc(f).total_block \in 0 .. NumBlocks
       /\ Desc(f).last_write_block \in Blocks /\ Desc(f).tag_block \in Blocks
       /\ Desc(f).tag_offset \in -1 .. BlockSize - 1
  BY <1>2 DEF Desc, DescSet
<1>4. now \in 0 .. use.until + Interval
      /\ call \in [file : Files \cup {NoFile}, time : 0 .. use.until, round : {0, 1}]
  <2>1. CASE call \in {Idle, Hung} /\ now \in 0 .. use.until + Interval
    BY <1>1, <2>1 DEF Idle, Hung
  <2>2. CASE call \in [file : Files, time : {now}, round : {0, 1}] /\ now \in 0 .. use.until
    <3>1. now \in 0 .. use.until + Interval
      BY <1>1, <2>2, Sizes
    <3>2. {now} \subseteq 0 .. use.until
      BY <2>2
    <3> QED
      BY <2>2, <3>1, <3>2
  <2> QED
    BY <2>1, <2>2 DEF TypeInv, Calling
<1> QED
  BY <1>1, <1>2, <1>3, <1>4 DEF TypeOK, TypeInv, HeadSet

\* It holds after the first start, on an erased flash.
LEMMA TypeInvInit ==
  ASSUME Init
  PROVE  TypeInv
<1>1. use \in Uses /\ use.until \in Nat /\ now \in 0 .. Interval - 1 /\ now \in Nat /\ boots \in Nat
  BY LimitIs, Sizes DEF Init
<1>F. PICK F : F = [b \in Blocks |-> ErasedBlock]
  OBVIOUS
<1>2. F \in FlashSet(now) /\ Stride \in Nat
  BY <1>1, <1>F, ErasedType, StrideIs DEF FlashSet
<1>3. fs = SystemInit(F, Stride)
  BY <1>F DEF Init
<1>4. fs \in Booted(now, F)
  BY <1>1, <1>2, <1>3, SystemInitIs DEF Offsets
<1>5. Calm(now, fs)
  <2>1. fs \in States(now) /\ fs.map = [b \in Blocks |-> F[b].head] /\ fs.flash = F /\ fs.fuel = -1
    BY <1>4 DEF Booted
  <2> QED
    BY <2>1 DEF Calm, Synced
<1>6. Calling
  BY <1>1, Sizes DEF Init, Calling
<1>7. acked \in [Files -> SUBSET (0 .. use.until)]
  BY DEF Init
<1> QED
  BY <1>1, <1>5, <1>6, <1>7 DEF TypeInv

\* A call adds at most its own time to what was reported written.
LEMMA AckedIs ==
  ASSUME NEW u \in Nat, NEW a \in [Files -> SUBSET (0 .. u)], NEW f \in Files, NEW t \in 0 .. u,
         NEW b, b \in {a, [a EXCEPT ![f] = @ \cup {t}]}
  PROVE  b \in [Files -> SUBSET (0 .. u)]
OBVIOUS

\* Every step keeps it, a restart after a power cut too.
LEMMA TypeInvNext ==
  ASSUME TypeInv, [Next]_vars
  PROVE  TypeInv'
<1>0. /\ use \in Uses /\ use.until \in Nat /\ use.steps \subseteq Nat \ {0} /\ now \in Nat
      /\ Calm(now, fs) /\ fs \in States(now) /\ Synced(fs) /\ boots \in Nat
      /\ acked \in [Files -> SUBSET (0 .. use.until)]
  BY LimitIs DEF TypeInv, Calm
<1>c. call.file \in Files => /\ call.time = now /\ now \in 0 .. use.until
                            /\ call \in [file : Files, time : {now}, round : {0, 1}]
  BY CallIs
<1>1. ASSUME NEW f \in Files, NEW d \in use.steps, AppendRecord(f, d) PROVE TypeInv'
  <2>n. PICK n : n = now + d
    OBVIOUS
  <2>1. n \in Nat /\ now <= n /\ n \in 0 .. use.until
    BY <1>0, <1>1, <2>n DEF AppendRecord
  <2>2. Calm(n, fs)
    BY <1>0, <2>1, CalmLater
  <2>3. fs' = Enter(fs, f, n) /\ now' = n /\ use' = use /\ boots' = boots
    BY <1>1, <2>n DEF AppendRecord
  <2>4. Calm(n, fs')
    <3>1. Sound(n, fs, fs')
      BY <2>1, <2>2, <2>3, EnterSound DEF Calm
    <3> QED
      BY <2>1, <2>2, <3>1, CalmSound
  <2>5. Calling'
    <3>1. call' = Idle \/ call' = [file |-> f, time |-> n, round |-> 0]
      BY <1>1, <2>n DEF AppendRecord
    <3>2. n \in 0 .. use.until + Interval
      BY <1>0, <2>1, Sizes
    <3> QED
      BY <2>1, <2>3, <3>1, <3>2 DEF Calling
  <2>6. acked' \in [Files -> SUBSET (0 .. use.until)]
    <3>1. acked' \in {acked, [acked EXCEPT ![f] = @ \cup {n}]}
      BY <1>1, <2>n DEF AppendRecord
    <3> QED
      BY <1>0, <2>1, <3>1, AckedIs
  <2> QED
    BY <1>0, <2>1, <2>3, <2>4, <2>5, <2>6 DEF TypeInv
<1>2. ASSUME InsertTag PROVE TypeInv'
  <2>1. /\ call.file \in Files /\ fs' = LoopTag(fs, call.file, now) /\ call' = [call EXCEPT !.round = 1 - @]
        /\ use' = use /\ now' = now /\ acked' = acked /\ boots' = boots
    BY <1>2, <1>c DEF InsertTag
  <2>2. Calm(now, fs')
    <3>1. Sound(now, fs, fs')
      BY <1>0, <1>c, <2>1, LoopTagSound
    <3> QED
      BY <1>0, <3>1, CalmSound
  <2>3. Calling'
    <3>1. call' \in [file : Files, time : {now}, round : {0, 1}]
      BY <1>c, <2>1
    <3> QED
      BY <1>c, <2>1, <3>1 DEF Calling
  <2> QED
    BY <1>0, <2>1, <2>2, <2>3 DEF TypeInv
<1>3. ASSUME WriteData PROVE TypeInv'
  <2>1. /\ call.file \in Files /\ fs' = WriteRecord(fs, call.file, now) /\ call' = Idle
        /\ use' = use /\ now' = now /\ boots' = boots
        /\ acked' \in {acked, [acked EXCEPT ![call.file] = @ \cup {now}]}
    BY <1>3, <1>c DEF WriteData
  <2>2. Calm(now, fs')
    <3>1. Sound(now, fs, fs')
      BY <1>0, <1>c, <2>1, WriteSound
    <3> QED
      BY <1>0, <3>1, CalmSound
  <2>3. Calling'
    <3>1. now \in 0 .. use.until + Interval
      BY <1>0, <1>c, <2>1, Sizes
    <3> QED
      BY <2>1, <3>1 DEF Calling
  <2>4. acked' \in [Files -> SUBSET (0 .. use.until)]
    BY <1>0, <1>c, <2>1, AckedIs
  <2> QED
    BY <1>0, <2>1, <2>2, <2>3, <2>4 DEF TypeInv
<1>4. ASSUME Restart PROVE TypeInv'
  <2>1. call' \in {Idle, Hung} /\ use' = use /\ acked' = acked /\ boots' = boots + 1
    BY <1>4, Zenon DEF Restart
  <2>2. PICK g \in Garbage, k \in 0 .. 3 :
          \/ /\ call = Idle
             /\ \E f \in Files, d \in use.steps :
                  /\ now + d <= use.until /\ now' = now + d
                  /\ fs' = SystemInit(Enter(Cut(k), f, now').flash, g)
          \/ /\ call.file \in Files /\ now' = now
             /\ fs' = SystemInit(LoopTag(Cut(k), call.file, call.time).flash, g)
          \/ /\ call.file \in Files /\ now' = now
             /\ fs' = SystemInit(WriteRecord(Cut(k), call.file, call.time).flash, g)
    BY <1>4, Zenon DEF Restart
  <2>c. PICK c : c = Cut(k)
    OBVIOUS
  <2>3. now' \in Nat /\ now <= now' /\ now' <= use.until
        /\ \E s \in States(now') : fs' = SystemInit(s.flash, g)
    <3>1. ASSUME NEW f \in Files, NEW d \in use.steps, now + d <= use.until, now' = now + d,
                 fs' = SystemInit(Enter(Cut(k), f, now').flash, g)
          PROVE  now' \in Nat /\ now <= now' /\ now' <= use.until
                 /\ \E s \in States(now') : fs' = SystemInit(s.flash, g)
      <4>n. PICK n : n = now + d
        OBVIOUS
      <4>1. n \in Nat /\ now <= n /\ n <= use.until /\ now' = n
        BY <1>0, <3>1, <4>n
      <4>2. Calm(n, fs)
        BY <1>0, <4>1, CalmLater
      <4>3. c \in States(n) /\ Synced(c)
        BY <2>c, <4>1, <4>2, CutIs
      <4>s. PICK s : s = Enter(c, f, n)
        OBVIOUS
      <4>4. s \in States(n)
        BY <4>1, <4>3, <4>s, EnterSound DEF Sound
      <4>5. fs' = SystemInit(s.flash, g)
        BY <2>c, <3>1, <4>1, <4>s
      <4> QED
        BY <4>1, <4>4, <4>5
    <3>2. ASSUME call.file \in Files, now' = now, fs' = SystemInit(LoopTag(Cut(k), call.file, call.time).flash, g)
          PROVE  now' \in Nat /\ now <= now' /\ now' <= use.until
                 /\ \E s \in States(now') : fs' = SystemInit(s.flash, g)
      <4>1. c \in States(now) /\ Synced(c)
        BY <1>0, <2>c, CutIs
      <4>s. PICK s : s = LoopTag(c, call.file, now)
        OBVIOUS
      <4>2. s \in States(now)
        BY <1>0, <1>c, <3>2, <4>1, <4>s, LoopTagSound DEF Sound
      <4>3. fs' = SystemInit(s.flash, g)
        BY <1>c, <2>c, <3>2, <4>s
      <4> QED
        BY <1>0, <1>c, <3>2, <4>2, <4>3
    <3>3. ASSUME call.file \in Files, now' = now, fs' = SystemInit(WriteRecord(Cut(k), call.file, call.time).flash, g)
          PROVE  now' \in Nat /\ now <= now' /\ now' <= use.until
                 /\ \E s \in States(now') : fs' = SystemInit(s.flash, g)
      <4>1. c \in States(now) /\ Synced(c)
        BY <1>0, <2>c, CutIs
      <4>s. PICK s : s = WriteRecord(c, call.file, now)
        OBVIOUS
      <4>2. s \in States(now)
        BY <1>0, <1>c, <3>3, <4>1, <4>s, WriteSound DEF Sound
      <4>3. fs' = SystemInit(s.flash, g)
        BY <1>c, <2>c, <3>3, <4>s
      <4> QED
        BY <1>0, <1>c, <3>3, <4>2, <4>3
    <3> QED
      BY <2>2, <3>1, <3>2, <3>3
  <2>4. Calm(now', fs')
    BY <2>3, BootedCalm
  <2>5. Calling'
    <3>1. now' \in 0 .. use.until + Interval
      BY <1>0, <2>3, Sizes
    <3>2. boots' # 0
      BY <1>0, <2>1
    <3> QED
      BY <2>1, <3>1, <3>2 DEF Calling
  <2> QED
    BY <1>0, <2>1, <2>3, <2>4, <2>5 DEF TypeInv
<1>5. CASE UNCHANGED vars
  BY <1>5 DEF vars, TypeInv, Calling, Calm, Synced
<1> QED
  BY <1>1, <1>2, <1>3, <1>4, <1>5 DEF Next

\* TypeOK: the tables of flashfile.c stay in the range of their fields, for any number of
\* files, any times and any number of power cuts and restarts.
THEOREM FlashTypes == Spec => []TypeOK
<1>1. Init => TypeInv
  BY TypeInvInit
<1>2. TypeInv /\ [Next]_vars => TypeInv'
  BY TypeInvNext
<1>3. TypeInv => TypeOK
  BY TypeInvIs
<1> QED
  BY <1>1, <1>2, <1>3, PTL DEF Spec

-----------------------------------------------------------------------------
(* The file as a ring of blocks.                                           *)

\* The file system serves one file, whose limit is two blocks or more.
Only(f) == f \in Files /\ Files = {f} /\ BlockLimit[f] \in Nat /\ BlockLimit[f] >= 2
           /\ BlockLimit[f] <= NumBlocks - 1

Member(b, m, q) == \E i \in 1 .. m : q[i] = b

\* The RAM tables hold one file of m blocks, chained from q[1] to q[m].
Ring(s, f, m, q) ==
  /\ m \in 0 .. BlockLimit[f] /\ q \in [1 .. m -> Blocks]
  /\ \A i, j \in 1 .. m : q[i] = q[j] => i = j
  /\ ~s.wild /\ s.file[f].total_block = m
  /\ \A b \in Blocks : s.map[b].file_id = f <=> Member(b, m, q)
  /\ \A b \in Blocks : Member(b, m, q) \/ s.chain[b] = b
  /\ \A i \in 1 .. m - 1 : s.chain[q[i]] = q[i + 1]
  /\ m > 0 => /\ s.file[f].start_block = q[1] /\ s.chain[q[m]] = q[m]
              /\ s.file[f].last_write_block = q[m]
  /\ m = 0 => /\ s.file[f].last_write_block = 0 /\ s.file[f].start_block = 0
              /\ \A b \in Blocks : s.map[b] = ErasedHead

\* The bytes behind place w of the last block, and those of the free blocks, are
\* erased.
Clean(s, m, q, w) ==
  /\ \A b \in Blocks : Member(b, m, q) \/ \A o \in Body : s.flash[b].body[o] = Erased
  /\ \A b \in Blocks, o \in Body : s.flash[b].body[o] # Garbled
  /\ m > 0 => \A o \in Body : o >= w => s.flash[q[m]].body[o] = Erased

\* The headers on the flash name no more blocks than the limit.
HeadsFit(s, f) == Cardinality({b \in Blocks : s.flash[b].head.file_id = f}) <= BlockLimit[f]

Laid(s, f, m, q, w) == Ring(s, f, m, q) /\ (s.fuel # 0 => Clean(s, m, q, w)) /\ HeadsFit(s, f)

\* The ring of a file has as many blocks as places.
LEMMA RingCard ==
  ASSUME NEW m \in Nat, NEW q \in [1 .. m -> Blocks], \A i, j \in 1 .. m : q[i] = q[j] => i = j
  PROVE  Cardinality({b \in Blocks : Member(b, m, q)}) = m
<1> DEFINE T == {b \in Blocks : Member(b, m, q)}
<1>1. q \in [1 .. m -> T]
  BY Zenon DEF Member
<1>2. \A t \in T : \E i \in 1 .. m : q[i] = t
  BY DEF Member
<1>3. q \in Injection(1 .. m, T) /\ q \in Surjection(1 .. m, T)
  <2> HIDE DEF T
  <2>1. \A a, b \in 1 .. m : q[a] = q[b] => a = b
    OBVIOUS
  <2> QED
    BY <1>1, <1>2, <2>1, Zenon DEF Injection, Surjection, IsInjective
<1>4. IsFiniteSet(1 .. m) /\ Cardinality(1 .. m) = m
  <2>1. 1 \in Int /\ m \in Int
    OBVIOUS
  <2>2. IsFiniteSet(1 .. m) /\ Cardinality(1 .. m) = IF 1 > m THEN 0 ELSE m - 1 + 1
    BY <2>1, FS_Interval
  <2> QED
    BY <2>2
<1>5. Cardinality(T) = Cardinality(1 .. m)
  <2> HIDE DEF T
  <2> QED
    BY <1>3, <1>4, FS_Surjection
<1> QED
  BY <1>4, <1>5

\* A file within its limit leaves a block free.
LEMMA SomeFree ==
  ASSUME NEW n \in Nat, NEW s \in States(n), NEW f, Only(f), NEW m, NEW q, Ring(s, f, m, q)
  PROVE  \E b \in Blocks : s.map[b].file_id = NoFile
<1>1. /\ m \in Nat /\ m < NumBlocks /\ q \in [1 .. m -> Blocks] /\ \A i, j \in 1 .. m : q[i] = q[j] => i = j
      /\ \A b \in Blocks : s.map[b].file_id = f <=> Member(b, m, q)
  <2>1. m \in 0 .. BlockLimit[f] /\ BlockLimit[f] \in Nat /\ BlockLimit[f] <= NumBlocks - 1
    BY DEF Ring, Only
  <2>2. m \in Nat /\ m < NumBlocks
    BY <2>1, Sizes
  <2> QED
    BY <2>2 DEF Ring
<1>2. Cardinality({b \in Blocks : Member(b, m, q)}) = m
  BY <1>1, RingCard
<1>3. Cardinality(Blocks) = NumBlocks
  <2>1. 0 \in Int /\ NumBlocks - 1 \in Int
    BY Sizes
  <2>2. Cardinality(0 .. NumBlocks - 1) = IF 0 > NumBlocks - 1 THEN 0 ELSE (NumBlocks - 1) - 0 + 1
    BY <2>1, FS_Interval
  <2> QED
    BY <2>2, Sizes DEF Blocks
<1>4. PICK b \in Blocks : ~Member(b, m, q)
  <2> SUFFICES ASSUME \A b \in Blocks : Member(b, m, q) PROVE FALSE
    OBVIOUS
  <2>1. {b \in Blocks : Member(b, m, q)} = Blocks
    OBVIOUS
  <2> QED
    <3>1. m = NumBlocks
      BY <1>2, <1>3, <2>1, Zenon
    <3> QED
      BY <1>1, <3>1, Sizes
<1>5. s.map[b].file_id \in Files \cup {NoFile}
  BY DEF States, HeadSet
<1> QED
  BY <1>1, <1>4, <1>5 DEF Only

\* Headers that are erased leave the file within its limit.
LEMMA HeadsFitLess ==
  ASSUME NEW s, NEW t, NEW f, Only(f), HeadsFit(s, f),
         \A b \in Blocks : t.flash[b].head.file_id = f => s.flash[b].head.file_id = f
  PROVE  HeadsFit(t, f)
<1>s. PICK S : S = {b \in Blocks : s.flash[b].head.file_id = f}
  OBVIOUS
<1>t. PICK T : T = {b \in Blocks : t.flash[b].head.file_id = f}
  OBVIOUS
<1>1. T \in SUBSET S /\ S \in SUBSET Blocks /\ T \in SUBSET Blocks
  BY <1>s, <1>t
<1>2. IsFiniteSet(S) /\ Cardinality(S) \in Nat /\ Cardinality(T) \in Nat
  BY <1>1, OwnedIs
<1>3. Cardinality(T) <= Cardinality(S)
  BY <1>1, <1>2, FS_Subset
<1>4. Cardinality(S) <= BlockLimit[f] /\ BlockLimit[f] \in Nat
  BY <1>s DEF HeadsFit, Only
<1>5. Cardinality(T) <= BlockLimit[f]
  BY <1>2, <1>3, <1>4
<1> QED
  BY <1>t, <1>5 DEF HeadsFit

\* Blocks on the flash that are those of the ring are within the limit.
LEMMA HeadsFitRing ==
  ASSUME NEW s, NEW f, Only(f), NEW m, NEW q, Ring(s, f, m, q),
         \A b \in Blocks : s.flash[b].head.file_id = s.map[b].file_id
  PROVE  HeadsFit(s, f)
<1>1. m \in Nat /\ m <= BlockLimit[f] /\ q \in [1 .. m -> Blocks] /\ \A i, j \in 1 .. m : q[i] = q[j] => i = j
  BY DEF Ring, Only
<1>2. \A b \in Blocks : s.flash[b].head.file_id = f <=> Member(b, m, q)
  BY DEF Ring
<1>3. {b \in Blocks : s.flash[b].head.file_id = f} = {b \in Blocks : Member(b, m, q)}
  BY <1>2
<1> QED
  BY <1>1, <1>3, RingCard DEF HeadsFit

-----------------------------------------------------------------------------
(* The ring when a block is freed, and when one is chained.                *)

SameTag(d, e) == /\ e.tag_time = d.tag_time /\ e.tag_block = d.tag_block
                 /\ e.tag_offset = d.tag_offset

\* The blocks of the ring once the first is gone, and once one more is chained.
Rest(q, m)       == [i \in 1 .. m - 1 |-> q[i + 1]]
Extended(q, m, b) == [i \in 1 .. m + 1 |-> IF i = m + 1 THEN b ELSE q[i]]

Shorter(q, m, r) ==
  /\ r \in [1 .. m - 1 -> Blocks] /\ \A i, j \in 1 .. m - 1 : r[i] = r[j] => i = j
  /\ \A b \in Blocks : Member(b, m - 1, r) <=> Member(b, m, q) /\ b # q[1]
  /\ r[1] = q[2] /\ r[m - 1] = q[m] /\ q[1] # q[m]
  /\ \A i \in 1 .. m - 1 : r[i] = q[i + 1]

\* The ring without its first block.
LEMMA RestIs ==
  ASSUME NEW m \in Nat, m >= 2, NEW q \in [1 .. m -> Blocks], \A i, j \in 1 .. m : q[i] = q[j] => i = j,
         NEW r, r = Rest(q, m)
  PROVE  Shorter(q, m, r)
<1>1. \A i \in 1 .. m - 1 : r[i] = q[i + 1] /\ i + 1 \in 1 .. m /\ i + 1 # 1
  BY DEF Rest
<1>2. r \in [1 .. m - 1 -> Blocks]
  BY <1>1 DEF Rest
<1>3. \A i, j \in 1 .. m - 1 : r[i] = r[j] => i = j
  <2> SUFFICES ASSUME NEW i \in 1 .. m - 1, NEW j \in 1 .. m - 1, r[i] = r[j] PROVE i = j
    OBVIOUS
  <2>1. q[i + 1] = q[j + 1] /\ i + 1 \in 1 .. m /\ j + 1 \in 1 .. m
    BY <1>1
  <2>2. i + 1 = j + 1
    BY <2>1
  <2> QED
    BY <2>2
<1>4. ASSUME NEW b \in Blocks PROVE Member(b, m - 1, r) <=> Member(b, m, q) /\ b # q[1]
  <2>1. ASSUME Member(b, m - 1, r) PROVE Member(b, m, q) /\ b # q[1]
    <3>1. PICK i \in 1 .. m - 1 : r[i] = b
      BY <2>1 DEF Member
    <3>2. q[i + 1] = b /\ i + 1 \in 1 .. m /\ i + 1 # 1 /\ 1 \in 1 .. m
      BY <1>1, <3>1
    <3>3. q[i + 1] # q[1]
      BY <3>2
    <3> QED
      BY <3>2, <3>3, Zenon DEF Member
  <2>2. ASSUME Member(b, m, q), b # q[1] PROVE Member(b, m - 1, r)
    <3>1. PICK i \in 1 .. m : q[i] = b
      BY <2>2 DEF Member
    <3>2. i # 1
      BY <2>2, <3>1
    <3>3. i - 1 \in 1 .. m - 1 /\ (i - 1) + 1 = i
      BY <3>2
    <3>4. r[i - 1] = b
      BY <1>1, <3>1, <3>3
    <3> QED
      BY <3>3, <3>4, Zenon DEF Member
  <2> QED
    BY <2>1, <2>2
<1>5. r[1] = q[2] /\ r[m - 1] = q[m]
  <2>1. 1 \in 1 .. m - 1 /\ m - 1 \in 1 .. m - 1 /\ 1 + 1 = 2 /\ (m - 1) + 1 = m
    OBVIOUS
  <2> QED
    BY <1>1, <2>1
<1>6. q[1] # q[m]
  <2>1. 1 \in 1 .. m /\ m \in 1 .. m /\ 1 # m
    OBVIOUS
  <2> QED
    BY <2>1
<1> QED
  BY <1>1, <1>2, <1>3, <1>4, <1>5, <1>6 DEF Shorter

\* The ring with one more block behind its last.
LEMMA ExtendedIs ==
  ASSUME NEW m \in Nat, NEW q \in [1 .. m -> Blocks], \A i, j \in 1 .. m : q[i] = q[j] => i = j,
         NEW b \in Blocks, ~Member(b, m, q), NEW r, r = Extended(q, m, b)
  PROVE  /\ r \in [1 .. m + 1 -> Blocks] /\ \A i, j \in 1 .. m + 1 : r[i] = r[j] => i = j
         /\ \A c \in Blocks : Member(c, m + 1, r) <=> Member(c, m, q) \/ c = b
         /\ r[m + 1] = b /\ \A i \in 1 .. m : r[i] = q[i]
<1>1. r[m + 1] = b /\ \A i \in 1 .. m : r[i] = q[i] /\ r[i] # b /\ i \in 1 .. m + 1
  <2>1. m + 1 \in 1 .. m + 1 /\ \A i \in 1 .. m : i \in 1 .. m + 1 /\ i # m + 1
    OBVIOUS
  <2>2. r[m + 1] = b /\ \A i \in 1 .. m : r[i] = q[i]
    BY <2>1 DEF Extended
  <2>3. \A i \in 1 .. m : q[i] # b
    BY DEF Member
  <2> QED
    BY <2>1, <2>2, <2>3
<1>2. \A i \in 1 .. m + 1 : i = m + 1 \/ i \in 1 .. m
  OBVIOUS
<1>3. r \in [1 .. m + 1 -> Blocks]
  BY <1>2 DEF Extended
<1>4. \A i, j \in 1 .. m + 1 : r[i] = r[j] => i = j
  BY <1>1, <1>2
<1>5. \A c \in Blocks : Member(c, m + 1, r) <=> Member(c, m, q) \/ c = b
  <2>1. m + 1 \in 1 .. m + 1
    OBVIOUS
  <2> QED
    BY <1>1, <1>2, <2>1 DEF Member
<1> QED
  BY <1>1, <1>3, <1>4, <1>5

\* The ring after the first half of flashfile_round_file_struct.
LEMMA FreedRing ==
  ASSUME NEW n \in Nat, NEW s \in States(n), NEW f, Only(f), NEW m, NEW q, Ring(s, f, m, q),
         NEW u, Freed(s, u, f)
  PROVE  \E k, r :
           /\ k \in Nat
           /\ Ring(u, f, k, r) /\ k + 1 <= BlockLimit[f] /\ (m > 0 => k > 0 /\ r[k] = q[m])
           /\ (m = 0 => k = 0)
           /\ \A b \in Blocks : Member(b, k, r) => Member(b, m, q)
           /\ SameTag(s.file[f], u.file[f])
           /\ \A b \in Blocks : s.map[b].file_id = NoFile => u.map[b].file_id = NoFile /\ u.map[b] = s.map[b]
           /\ s.fuel # 0 => \A b \in Blocks : \/ u.flash[b] = s.flash[b] /\ (Member(b, m, q) => Member(b, k, r))
                                             \/ /\ ~Member(b, k, r) /\ u.flash[b].head.file_id # f
                                                /\ \A o \in Body : u.flash[b].body[o] = Erased
<1>1. /\ m \in Nat /\ m <= BlockLimit[f] /\ q \in [1 .. m -> Blocks]
      /\ \A i, j \in 1 .. m : q[i] = q[j] => i = j
      /\ BlockLimit[f] \in Nat /\ BlockLimit[f] >= 2 /\ s.file[f].total_block = m /\ f \in Files
      /\ f # NoFile
  <2>1. f \in 0 .. 14
    BY LimitIs DEF Only
  <2> QED
    BY <2>1, SMTT(60) DEF Ring, Only, NoFile
<1>2. CASE ~Full(s, f)
  <2>1. u = s
    BY <1>2 DEF Freed
  <2>2. m + 1 <= BlockLimit[f]
    BY <1>1, <1>2 DEF Full
  <2>3. SameTag(s.file[f], u.file[f])
    BY <2>1 DEF SameTag
  <2> QED
    BY <1>1, <2>1, <2>2, <2>3
<1>3. CASE Full(s, f)
  <2>h. PICK h : h = s.file[f].start_block
    OBVIOUS
  <2>r. PICK r : r = Rest(q, m)
    OBVIOUS
  <2>1. m = BlockLimit[f] /\ m >= 2
    BY <1>1, <1>3 DEF Full
  <2>2. /\ h = q[1] /\ h \in Blocks /\ Unchained(s, u, f, h)
        /\ s.fuel # 0 =>
             /\ u.flash[h].head.file_id = NoFile /\ \A o \in Body : u.flash[h].body[o] = Erased
             /\ \A c \in Blocks : c # h => u.flash[c] = s.flash[c]
    BY <1>3, <2>h, <2>1, SMTT(60) DEF Freed, Ring
  <2>3. /\ r \in [1 .. m - 1 -> Blocks] /\ \A i, j \in 1 .. m - 1 : r[i] = r[j] => i = j
        /\ \A b \in Blocks : Member(b, m - 1, r) <=> Member(b, m, q) /\ b # q[1]
        /\ r[1] = q[2] /\ r[m - 1] = q[m] /\ q[1] # q[m]
        /\ \A i \in 1 .. m - 1 : r[i] = q[i + 1]
    <3>1. /\ m \in Nat /\ m >= 2 /\ q \in [1 .. m -> Blocks]
          /\ \A i, j \in 1 .. m : q[i] = q[j] => i = j
      BY <1>1, <2>1
    <3>2. Shorter(q, m, r)
      BY <2>r, <3>1, RestIs
    <3> QED
      BY <3>2 DEF Shorter
  <2>4. m - 1 \in Nat /\ m - 1 \in 0 .. BlockLimit[f] /\ (m - 1) + 1 <= BlockLimit[f] /\ m - 1 > 0 /\ m > 0
        /\ m - 1 # 0
    BY <1>1, <2>1
  <2>5. Ring(u, f, m - 1, r)
    <3>1. ~u.wild /\ u.file[f].total_block = m - 1
      BY <1>1, <2>2 DEF Ring, Unchained
    <3>2. \A b \in Blocks : u.map[b].file_id = f <=> Member(b, m - 1, r)
      BY <1>1, <2>2, <2>3 DEF Ring, Unchained
    <3>3. \A b \in Blocks : Member(b, m - 1, r) \/ u.chain[b] = b
      BY <2>2, <2>3 DEF Ring, Unchained
    <3>4. \A i \in 1 .. (m - 1) - 1 : u.chain[r[i]] = r[i + 1]
      <4> SUFFICES ASSUME NEW i \in 1 .. (m - 1) - 1 PROVE u.chain[r[i]] = r[i + 1]
        OBVIOUS
      <4>1. /\ i \in 1 .. m - 1 /\ i + 1 \in 1 .. m - 1 /\ 1 \in 1 .. m /\ i + 1 \in 1 .. m /\ i + 1 # 1
            /\ (i + 1) + 1 \in 1 .. m
        BY <1>1, <2>1
      <4>2. r[i] = q[i + 1] /\ r[i + 1] = q[(i + 1) + 1] /\ q[i + 1] # q[1] /\ q[i + 1] \in Blocks
        BY <1>1, <2>3, <4>1
      <4>3. s.chain[q[i + 1]] = q[(i + 1) + 1]
        BY <4>1 DEF Ring
      <4>4. u.chain[q[i + 1]] = s.chain[q[i + 1]]
        BY <2>2, <4>2 DEF Unchained
      <4> QED
        BY <4>2, <4>3, <4>4
    <3>5. u.file[f].start_block = r[1]
      <4>1. 1 \in 1 .. m - 1 /\ 1 + 1 = 2
        BY <1>1, <2>1
      <4>2. s.chain[q[1]] = q[2]
        BY <4>1 DEF Ring
      <4> QED
        BY <2>2, <2>3, <4>2 DEF Unchained
    <3>6. u.chain[r[m - 1]] = r[m - 1] /\ u.file[f].last_write_block = r[m - 1]
      <4>1. s.chain[q[m]] = q[m] /\ s.file[f].last_write_block = q[m] /\ q[m] \in Blocks
        BY <1>1, <2>4 DEF Ring
      <4> QED
        BY <2>2, <2>3, <4>1 DEF Unchained
    <3> QED
      BY <2>3, <2>4, <3>1, <3>2, <3>3, <3>4, <3>5, <3>6 DEF Ring
  <2>6. SameTag(s.file[f], u.file[f])
    BY <2>2 DEF Unchained, SameTag
  <2>7. \A b \in Blocks : s.map[b].file_id = NoFile => u.map[b].file_id = NoFile /\ u.map[b] = s.map[b]
    <3>1. s.map[h].file_id = f
      <4>1. Member(h, m, q)
        <5>1. 1 \in 1 .. m
          BY <1>1, <2>1
        <5> QED
          BY <2>2, <5>1, Zenon DEF Member
      <4> QED
        BY <2>2, <4>1 DEF Ring
    <3> QED
      BY <1>1, <2>2, <3>1 DEF Unchained
  <2>8. s.fuel # 0 => \A b \in Blocks : \/ u.flash[b] = s.flash[b] /\ (Member(b, m, q) => Member(b, m - 1, r))
                                        \/ /\ ~Member(b, m - 1, r) /\ u.flash[b].head.file_id # f
                                           /\ \A o \in Body : u.flash[b].body[o] = Erased
    BY <1>1, <2>2, <2>3
  <2>k. PICK k \in Nat : k = m - 1
    BY <2>4
  <2> QED
    BY <2>3, <2>4, <2>5, <2>6, <2>7, <2>8, <2>k
<1> QED
  BY <1>2, <1>3

\* The ring after the second half of flashfile_round_file_struct.
LEMMA GrownRing ==
  ASSUME NEW u, NEW v, NEW f, Only(f), NEW k \in Nat, NEW r, Ring(u, f, k, r), k + 1 <= BlockLimit[f],
         NEW b \in Blocks, u.map[b].file_id = NoFile, k = 0 => b = 0, Chained(u, v, f, b)
  PROVE  \E x : /\ Ring(v, f, k + 1, x) /\ x[k + 1] = b /\ (k > 0 => x[k] = r[k])
                /\ \A c \in Blocks : Member(c, k + 1, x) <=> Member(c, k, r) \/ c = b
                /\ SameTag(u.file[f], v.file[f])
<1>x. PICK x : x = Extended(r, k, b)
  OBVIOUS
<1>1. /\ r \in [1 .. k -> Blocks] /\ \A i, j \in 1 .. k : r[i] = r[j] => i = j
      /\ f # NoFile /\ f \in Files /\ BlockLimit[f] \in Nat
  <2>1. f \in 0 .. 14
    BY LimitIs DEF Only
  <2> QED
    BY <2>1 DEF Ring, Only, NoFile
<1>2. ~Member(b, k, r)
  BY <1>1 DEF Ring
<1>3. /\ x \in [1 .. k + 1 -> Blocks] /\ \A i, j \in 1 .. k + 1 : x[i] = x[j] => i = j
      /\ \A c \in Blocks : Member(c, k + 1, x) <=> Member(c, k, r) \/ c = b
      /\ x[k + 1] = b /\ \A i \in 1 .. k : x[i] = r[i]
  BY <1>1, <1>2, <1>x, ExtendedIs
<1>4. ~v.wild /\ v.file[f].total_block = k + 1
  BY DEF Ring, Chained
<1>5. \A c \in Blocks : v.map[c].file_id = f <=> Member(c, k + 1, x)
  BY <1>3 DEF Ring, Chained
<1>p. PICK p : p = u.file[f].last_write_block
  OBVIOUS
<1>6. /\ v.chain[p] = b /\ \A c \in Blocks : c # p => v.chain[c] = u.chain[c]
      /\ v.file[f].start_block = u.file[f].start_block /\ v.file[f].last_write_block = b
  BY <1>p DEF Chained
<1>7. k > 0 => k \in 1 .. k /\ p = r[k] /\ Member(p, k, r)
  BY <1>p DEF Ring, Member
<1>8. k = 0 => p = 0 /\ b = 0
  BY <1>p DEF Ring
<1>9. v.chain[b] = b
  <2>1. CASE k = 0
    BY <1>6, <1>8, <2>1
  <2>2. CASE k > 0
    <3>1. b # p /\ u.chain[b] = b
      BY <1>2, <1>7, <2>2 DEF Ring
    <3> QED
      BY <1>6, <3>1
  <2> QED
    BY <2>1, <2>2
<1>10. \A c \in Blocks : Member(c, k + 1, x) \/ v.chain[c] = c
  <2> SUFFICES ASSUME NEW c \in Blocks, ~Member(c, k + 1, x) PROVE v.chain[c] = c
    OBVIOUS
  <2>1. ~Member(c, k, r) /\ c # b /\ u.chain[c] = c
    BY <1>3 DEF Ring
  <2>2. c # p
    <3>1. CASE k = 0
      BY <1>8, <2>1, <3>1
    <3>2. CASE k > 0
      BY <1>7, <2>1, <3>2
    <3> QED
      BY <3>1, <3>2
  <2> QED
    BY <1>6, <2>1, <2>2
<1>11. \A i \in 1 .. (k + 1) - 1 : v.chain[x[i]] = x[i + 1]
  <2> SUFFICES ASSUME NEW i \in 1 .. (k + 1) - 1 PROVE v.chain[x[i]] = x[i + 1]
    OBVIOUS
  <2>0. i \in 1 .. k /\ k \in 1 .. k /\ k > 0 /\ x[i] = r[i] /\ r[i] \in Blocks
    <3>1. i \in 1 .. k /\ k \in 1 .. k /\ k > 0
      OBVIOUS
    <3> QED
      BY <1>1, <1>3, <3>1
  <2>1. CASE i = k
    BY <1>3, <1>6, <1>7, <2>0, <2>1
  <2>2. CASE i # k
    <3>1. i \in 1 .. k - 1 /\ i + 1 \in 1 .. k
      BY <2>0, <2>2
    <3>2. u.chain[r[i]] = r[i + 1] /\ x[i + 1] = r[i + 1]
      BY <1>3, <3>1 DEF Ring
    <3>3. r[i] # p
      BY <1>1, <1>7, <2>0, <2>2
    <3> QED
      BY <1>6, <2>0, <3>2, <3>3
  <2> QED
    BY <2>1, <2>2
<1>12. v.file[f].start_block = x[1]
  <2>1. CASE k = 0
    <3>1. u.file[f].start_block = 0
      BY <2>1 DEF Ring
    <3>2. x[1] = 0
      <4>1. k + 1 = 1
        BY <2>1
      <4> QED
        BY <1>3, <1>8, <2>1, <4>1
    <3> QED
      BY <1>6, <3>1, <3>2
  <2>2. CASE k > 0
    <3>1. u.file[f].start_block = r[1] /\ 1 \in 1 .. k
      BY <2>2 DEF Ring
    <3> QED
      BY <1>3, <1>6, <3>1
  <2> QED
    BY <2>1, <2>2
<1>13. k + 1 \in 0 .. BlockLimit[f] /\ k + 1 > 0 /\ k + 1 # 0
  BY <1>1
<1>14. Ring(v, f, k + 1, x)
  BY <1>3, <1>4, <1>5, <1>6, <1>9, <1>10, <1>11, <1>12, <1>13 DEF Ring
<1>15. SameTag(u.file[f], v.file[f])
  BY DEF Chained, SameTag
<1>16. k > 0 => x[k] = r[k]
  BY <1>3, <1>7
<1> QED
  BY <1>3, <1>14, <1>15, <1>16

\* flashfile_alloc_block: the file gets a block, at the end of its ring.
Grew(s, a, f, m, q, k, r) ==
  /\ k \in Nat \ {0} /\ a.ret \in Blocks /\ r[k] = a.ret /\ SameTag(s.file[f], a.file[f])
  /\ m > 0 => k >= 2 /\ r[k - 1] = q[m]

\* After flashfile_alloc_block the file is a ring with a new, erased, last block.
LEMMA AllocLaid ==
  ASSUME NEW n \in Nat, NEW s \in States(n), Synced(s), NEW f, Only(f), NEW m, NEW q, NEW w,
         Laid(s, f, m, q, w), NEW a, a = AllocBlock(s, f)
  PROVE  /\ Sound(n, s, a)
         /\ \E k, r : Laid(a, f, k, r, HeadSize) /\ Grew(s, a, f, m, q, k, r)
<1>b. PICK b : b = a.ret
  OBVIOUS
<1>0. f \in Files /\ Ring(s, f, m, q) /\ (s.fuel # 0 => Clean(s, m, q, w)) /\ HeadsFit(s, f)
  BY DEF Only, Laid
<1>1. /\ Sound(n, s, a) /\ Synced(a) /\ b = FindFirstFreeblock(s)
      /\ b # NoBlock =>
           b \in Blocks /\ s.map[b].file_id = NoFile /\ Allocated(s, a, f, b)
  BY <1>0, <1>b, AllocBlockIs DEF Sound
<1>2. b # NoBlock /\ ((\A c \in Blocks : s.map[c] = ErasedHead) => b = 0)
  BY <1>0, <1>1, SomeFree, FindIs
<1>3. b \in Blocks /\ s.map[b].file_id = NoFile /\ Allocated(s, a, f, b)
  BY <1>1, <1>2
<1>4. PICK u, v : Freed(s, u, f) /\ Synced(u) /\ Grown(u, v, f, b) /\ SameState(v, a)
  BY <1>3 DEF Allocated
<1>5. PICK k, r :
           /\ k \in Nat
           /\ Ring(u, f, k, r) /\ k + 1 <= BlockLimit[f] /\ (m > 0 => k > 0 /\ r[k] = q[m])
           /\ (m = 0 => k = 0)
           /\ \A c \in Blocks : Member(c, k, r) => Member(c, m, q)
           /\ SameTag(s.file[f], u.file[f])
           /\ \A c \in Blocks : s.map[c].file_id = NoFile => u.map[c].file_id = NoFile /\ u.map[c] = s.map[c]
           /\ s.fuel # 0 => \A c \in Blocks : \/ u.flash[c] = s.flash[c] /\ (Member(c, m, q) => Member(c, k, r))
                                             \/ /\ ~Member(c, k, r) /\ u.flash[c].head.file_id # f
                                                /\ \A o \in Body : u.flash[c].body[o] = Erased
  BY <1>0, <1>4, FreedRing
<1>6. m \in Nat /\ u.map[b].file_id = NoFile /\ (k = 0 => b = 0)
  <2>1. m \in Nat
    BY <1>0 DEF Ring, Only
  <2>2. k = 0 => m = 0
    BY <1>5, <2>1
  <2>3. m = 0 => b = 0
    BY <1>0, <1>2 DEF Ring
  <2> QED
    BY <1>3, <1>5, <2>1, <2>2, <2>3
<1>7. PICK x : /\ Ring(v, f, k + 1, x) /\ x[k + 1] = b /\ (k > 0 => x[k] = r[k])
               /\ \A c \in Blocks : Member(c, k + 1, x) <=> Member(c, k, r) \/ c = b
               /\ SameTag(u.file[f], v.file[f])
  BY <1>3, <1>4, <1>5, <1>6, GrownRing DEF Grown
<1>8. Ring(a, f, k + 1, x)
  BY <1>4, <1>7 DEF SameState, Ring
<1>9. a.fuel # 0 => Clean(a, k + 1, x, HeadSize)
  <2> SUFFICES ASSUME a.fuel # 0 PROVE Clean(a, k + 1, x, HeadSize)
    OBVIOUS
  <2>1. u.fuel # 0 /\ s.fuel # 0 /\ a.flash = v.flash
    BY <1>4 DEF SameState, Grown, Freed, Power
  <2>2. v.flash[b].body = u.flash[b].body /\ \A c \in Blocks : c # b => v.flash[c] = u.flash[c]
    BY <1>4, <2>1 DEF Grown
  <2>3. \A c \in Blocks : v.flash[c].body = u.flash[c].body
    BY <2>2
  <2>4. ~Member(b, m, q)
    <3>1. f # NoFile
      <4>1. f \in 0 .. 14
        BY <1>0, LimitIs
      <4> QED
        BY <4>1 DEF NoFile
    <3> QED
      BY <1>0, <1>3, <3>1 DEF Ring
  <2>5. \A c \in Blocks : Member(c, m, q) \/ \A o \in Body : s.flash[c].body[o] = Erased
    BY <1>0, <2>1 DEF Clean
  <2>6. \A c \in Blocks : Member(c, k, r) \/ \A o \in Body : u.flash[c].body[o] = Erased
    BY <1>5, <2>1, <2>5
  <2>7. \A c \in Blocks, o \in Body : u.flash[c].body[o] # Garbled
    <3>1. \A c \in Blocks, o \in Body : s.flash[c].body[o] # Garbled
      BY <1>0, <2>1 DEF Clean
    <3>2. Erased # Garbled
      BY DEF Erased, Garbled
    <3> QED
      BY <1>5, <2>1, <3>1, <3>2
  <2>8. \A o \in Body : u.flash[b].body[o] = Erased
    BY <1>3, <1>5, <2>4, <2>6
  <2>9. \A c \in Blocks : Member(c, k + 1, x) \/ \A o \in Body : a.flash[c].body[o] = Erased
    BY <1>7, <2>1, <2>3, <2>6
  <2>10. \A c \in Blocks, o \in Body : a.flash[c].body[o] # Garbled
    BY <2>1, <2>3, <2>7
  <2>11. \A o \in Body : a.flash[x[k + 1]].body[o] = Erased
    BY <1>7, <2>1, <2>2, <2>8
  <2> QED
    BY <2>9, <2>10, <2>11 DEF Clean
<1>10. HeadsFit(a, f)
  <2>1. CASE s.fuel = 0
    <3>1. a.flash = s.flash
      BY <1>1, <2>1 DEF Sound, Power
    <3> QED
      BY <1>0, <3>1, HeadsFitLess
  <2>2. CASE s.fuel # 0 /\ u.fuel = 0
    <3>1. a.flash = u.flash
      BY <1>4, <2>2 DEF Grown, Power, SameState
    <3>2. \A c \in Blocks : a.flash[c].head.file_id = f => s.flash[c].head.file_id = f
      BY <1>5, <2>2, <3>1
    <3> QED
      BY <1>0, <3>2, HeadsFitLess
  <2>3. CASE u.fuel # 0
    <3>1. /\ v.flash[b].head.file_id = f /\ \A c \in Blocks : c # b => v.flash[c] = u.flash[c]
          /\ v.map[b].file_id = f /\ \A c \in Blocks : c # b => v.map[c] = u.map[c]
          /\ a.flash = v.flash /\ a.map = v.map
      BY <1>4, <2>3 DEF Grown, Chained, SameState
    <3>2. \A c \in Blocks : u.flash[c].head.file_id = u.map[c].file_id
      BY <1>4, <2>3 DEF Synced
    <3>3. \A c \in Blocks : a.flash[c].head.file_id = a.map[c].file_id
      BY <3>1, <3>2
    <3> QED
      BY <1>8, <3>3, HeadsFitRing
  <2> QED
    BY <2>1, <2>2, <2>3
<1>11. Laid(a, f, k + 1, x, HeadSize)
  BY <1>8, <1>9, <1>10 DEF Laid
<1>12. Grew(s, a, f, m, q, k + 1, x)
  <2>1. SameTag(s.file[f], a.file[f])
    BY <1>4, <1>5, <1>7 DEF SameTag, SameState
  <2>2. k + 1 \in Nat \ {0} /\ (k + 1) - 1 = k /\ (k > 0 => k + 1 >= 2)
    BY <1>5
  <2> QED
    BY <1>b, <1>3, <1>5, <1>7, <2>1, <2>2 DEF Grew
<1> QED
  BY <1>1, <1>11, <1>12

-----------------------------------------------------------------------------
(* Writes behind the last bytes of the ring.                               *)

\* The last block of a ring, its file, and the way the file is named.
EndsRing(s, f, m, q, p) ==
  /\ m \in Nat /\ m \in 1 .. m /\ p \in Blocks /\ Member(p, m, q) /\ s.map[p].file_id = f
  /\ f \in Files /\ s.chain[p] = p /\ s.file[f].last_write_block = p

\* The last block of the ring belongs to the file and has no successor.
LEMMA LastIs ==
  ASSUME NEW s, NEW f, Only(f), NEW m, NEW q, Ring(s, f, m, q), m > 0
  PROVE  EndsRing(s, f, m, q, q[m])
<1>1. m \in Nat /\ m \in 1 .. m /\ f \in Files /\ q \in [1 .. m -> Blocks]
  BY DEF Ring, Only
<1>2. q[m] \in Blocks /\ Member(q[m], m, q)
  BY <1>1, Zenon DEF Member
<1>3. s.chain[q[m]] = q[m] /\ s.file[f].last_write_block = q[m]
  BY DEF Ring
<1> QED
  BY <1>1, <1>2, <1>3, Zenon DEF Ring, EndsRing

RingKept(s, t, f, m, q, off) ==
  /\ Ring(t, f, m, q) /\ SameTag(s.file[f], t.file[f])
  /\ t.file[f].last_write_offset = off

\* A write into the last block leaves the ring as it is.
LEMMA RingTouched ==
  ASSUME NEW s, NEW f, Only(f), NEW m, NEW q, Ring(s, f, m, q), m > 0,
         NEW t, NEW off, Touched(s, t, q[m], off)
  PROVE  RingKept(s, t, f, m, q, off)
<1>1. q[m] \in Blocks /\ s.map[q[m]].file_id = f /\ f \in Files
  <2>1. EndsRing(s, f, m, q, q[m])
    BY LastIs
  <2> QED
    BY <2>1 DEF EndsRing
<1>2. /\ t.map = s.map /\ t.chain = s.chain /\ t.wild = s.wild
      /\ t.file[f].last_write_block = q[m] /\ t.file[f].last_write_offset = off
      /\ SameFile(s.file[f], t.file[f])
  BY <1>1, Zenon DEF Touched
<1>3. /\ t.file[f].start_block = s.file[f].start_block /\ t.file[f].total_block = s.file[f].total_block
      /\ SameTag(s.file[f], t.file[f])
  BY <1>2 DEF SameFile, SameTag
<1>4. m # 0
  OBVIOUS
<1>5. Ring(t, f, m, q)
  BY <1>2, <1>3, <1>4 DEF Ring
<1> QED
  BY <1>2, <1>3, <1>5 DEF RingKept

\* The bytes written behind place w of the last block overlap no others.
LEMMA CleanWrote ==
  ASSUME NEW n \in Nat, NEW s \in States(n), NEW t, NEW m, NEW q, NEW w \in Nat, Clean(s, m, q, w),
         m > 0, q[m] \in Blocks, Member(q[m], m, q),
         NEW off \in Nat, w <= off, NEW bytes \in Seq(ByteSet(n)),
         \A k \in 1 .. Len(bytes) : bytes[k] # Garbled,
         Wrote(s.flash, t.flash, q[m], off, bytes)
  PROVE  Clean(t, m, q, off + Len(bytes))
<1>l. PICK l \in Nat : l = Len(bytes)
  BY LenProperties
<1>p. PICK p : p = q[m]
  OBVIOUS
<1>1. /\ \A c \in Blocks : c # p => t.flash[c].body = s.flash[c].body
      /\ \A o \in Body : o < off \/ o >= off + l => t.flash[p].body[o] = s.flash[p].body[o]
      /\ \A o \in Body : o >= off /\ o < off + l /\ s.flash[p].body[o] = Erased =>
           t.flash[p].body[o] # Garbled
  BY <1>l, <1>p, Zenon DEF Wrote
<1>2. Body \subseteq Int
  BY Sizes DEF Body
<1>3. \A o \in Body : o >= w => s.flash[p].body[o] = Erased
  BY <1>p DEF Clean
<1>4. \A o \in Body : o >= off + l => t.flash[p].body[o] = Erased
  <2> SUFFICES ASSUME NEW o \in Body, o >= off + l PROVE t.flash[p].body[o] = Erased
    OBVIOUS
  <2>1. o >= w
    BY <1>2
  <2> QED
    BY <1>1, <1>3, <2>1
<1>5. \A b \in Blocks : Member(b, m, q) \/ \A o \in Body : t.flash[b].body[o] = Erased
  BY <1>1, <1>p DEF Clean
<1>6. \A b \in Blocks, o \in Body : t.flash[b].body[o] # Garbled
  <2> SUFFICES ASSUME NEW b \in Blocks, NEW o \in Body PROVE t.flash[b].body[o] # Garbled
    OBVIOUS
  <2>1. s.flash[b].body[o] # Garbled
    BY DEF Clean
  <2>2. CASE b # p
    BY <1>1, <2>1, <2>2
  <2>3. CASE b = p /\ (o < off \/ o >= off + l)
    BY <1>1, <2>1, <2>3
  <2>4. CASE b = p /\ o >= off /\ o < off + l
    <3>1. o >= w
      BY <1>2, <2>4
    <3> QED
      BY <1>1, <1>3, <2>4, <3>1
  <2> QED
    BY <1>2, <2>2, <2>3, <2>4
<1> QED
  BY <1>4, <1>5, <1>6, <1>l, <1>p DEF Clean

LaidAfter(n, s, t, f, m, q, off, l) ==
  /\ Sound(n, s, t) /\ Laid(t, f, m, q, off + l) /\ t.ret = l
  /\ SameTag(s.file[f], t.file[f]) /\ t.file[f].last_write_offset = off

\* flashfile_block_write behind the last bytes keeps the ring and garbles nothing.
LEMMA WriteLaid ==
  ASSUME NEW n \in Nat, NEW s \in States(n), Synced(s), NEW f, Only(f), NEW m, NEW q, NEW w \in Nat,
         Laid(s, f, m, q, w), m > 0,
         NEW off \in 0 .. BlockSize - 1, w <= off, NEW bytes \in Seq(ByteSet(n)),
         \A k \in 1 .. Len(bytes) : bytes[k] # Garbled, off + Len(bytes) <= BlockSize,
         NEW t, t = BlockWrite(s, q[m], off, bytes)
  PROVE  LaidAfter(n, s, t, f, m, q, off, Len(bytes))
<1>0. Ring(s, f, m, q) /\ HeadsFit(s, f) /\ (s.fuel # 0 => Clean(s, m, q, w))
  BY DEF Laid
<1>1. /\ m \in 1 .. m /\ q[m] \in Blocks /\ s.map[q[m]].file_id = f /\ f \in Files
      /\ Member(q[m], m, q)
  <2>1. EndsRing(s, f, m, q, q[m])
    BY <1>0, LastIs
  <2> QED
    BY <2>1 DEF EndsRing
<1>2. /\ t \in States(n) /\ Power(s, t) /\ Touched(s, t, q[m], off) /\ t.ret = Len(bytes)
      /\ s.fuel # 0 => Wrote(s.flash, t.flash, q[m], off, bytes)
  BY <1>1, BlockWriteIs
<1>3. Sound(n, s, t)
  BY <1>1, BlockWriteSound
<1>4. /\ Ring(t, f, m, q) /\ SameTag(s.file[f], t.file[f]) /\ t.file[f].last_write_offset = off
  <2>1. RingKept(s, t, f, m, q, off)
    BY <1>0, <1>2, RingTouched
  <2> QED
    BY <2>1 DEF RingKept
<1>5. t.fuel # 0 => Clean(t, m, q, off + Len(bytes))
  <2> SUFFICES ASSUME t.fuel # 0 PROVE Clean(t, m, q, off + Len(bytes))
    OBVIOUS
  <2>1. Clean(s, m, q, w) /\ Wrote(s.flash, t.flash, q[m], off, bytes) /\ off \in Nat
    BY <1>0, <1>2 DEF Power
  <2> QED
    BY <1>1, <2>1, CleanWrote
<1>6. HeadsFit(t, f)
  <2>1. \A b \in Blocks : t.flash[b].head = s.flash[b].head
    BY <1>2, Zenon DEF Power, Wrote
  <2> QED
    BY <1>0, <2>1, HeadsFitLess
<1> QED
  BY <1>2, <1>3, <1>4, <1>5, <1>6 DEF Laid, LaidAfter

-----------------------------------------------------------------------------
(* Writes over the end of a block, and past it.                            *)

\* Place w of the last block is place e of block p, the last of the ring or the
\* one before it, in the way flashfile_write counts.
At(p, m, q, w, e) ==
  /\ m \in Nat /\ m > 0 /\ w \in HeadSize .. BlockSize
  /\ \/ p = q[m] /\ e = w
     \/ m >= 2 /\ p = q[m - 1] /\ w > HeadSize /\ e = w + BlockSize - HeadSize

\* A run of l bytes was written, which ends at place e of block p.
Stored(s, t, f, p, e, l) ==
  \E m, q, w : /\ Laid(t, f, m, q, w) /\ At(p, m, q, w, e) /\ SameTag(s.file[f], t.file[f])
               /\ t.ret \in Nat
               /\ t.file[f].last_write_offset \in HeadSize .. BlockSize - 1
               /\ w <= t.file[f].last_write_offset + l
               /\ t.file[f].last_write_offset + l <= BlockSize
               /\ e <= BlockSize => t.file[f].last_write_offset + l = e

SpillOf(s, t, n, f, p, e, l) == Sound(n, s, t) /\ Stored(s, t, f, p, e, l)

\* A run of bytes goes over the end of the last block.
LEMMA SpillLaid ==
  ASSUME NEW n \in Nat, NEW s \in States(n), Synced(s), NEW f, Only(f), NEW m, NEW q, NEW w,
         Laid(s, f, m, q, w), m > 0, NEW bytes \in Seq(ByteSet(n)), NEW l \in Nat, l = Len(bytes),
         \A k \in 1 .. l : bytes[k] # Garbled, HeadSize + l <= BlockSize,
         NEW wrote \in 0 .. l - 1, NEW t, t = Spill(s, q[m], wrote, bytes)
  PROVE  SpillOf(s, t, n, f, q[m], BlockSize + l - wrote, l)
<1>p. PICK p : p = q[m]
  OBVIOUS
<1>1. s.map[p].file_id = f /\ f \in Files /\ m \in Nat
  <2>1. Ring(s, f, m, q)
    BY DEF Laid
  <2>2. EndsRing(s, f, m, q, q[m])
    BY <2>1, LastIs
  <2> QED
    BY <1>p, <2>2 DEF EndsRing
<1>a. PICK a : a = AllocBlock(s, f)
  OBVIOUS
<1>u. PICK u : u = SubSeq(bytes, wrote + 1, l)
  OBVIOUS
<1>2. t = IF a.ret = NoBlock THEN [a EXCEPT !.ret = -1] ELSE BlockWrite(a, a.ret, HeadSize, u)
  BY <1>1, <1>p, <1>a, <1>u, Zenon DEF Spill
<1>3. PICK k, r : Sound(n, s, a) /\ Laid(a, f, k, r, HeadSize) /\ Grew(s, a, f, m, q, k, r)
  BY <1>a, AllocLaid
<1>4. /\ k \in Nat /\ k > 0 /\ k >= 2 /\ r[k - 1] = p /\ r[k] = a.ret /\ a.ret \in Blocks
      /\ SameTag(s.file[f], a.file[f])
  BY <1>3, <1>p DEF Grew
<1>5. t = BlockWrite(a, r[k], HeadSize, u)
  <2>1. a.ret # NoBlock
    BY <1>4, Sizes DEF Blocks, NoBlock
  <2> QED
    BY <1>2, <1>4, <2>1
<1>6. u \in Seq(ByteSet(n)) /\ Len(u) = l - wrote /\ \A i \in 1 .. Len(u) : u[i] # Garbled
  <2>1. wrote + 1 \in Nat \ {0} /\ l \in Int /\ l <= Len(bytes) /\ wrote + 1 <= l
    OBVIOUS
  <2>2. /\ u \in Seq(ByteSet(n)) /\ Len(u) = IF wrote + 1 <= l THEN l - (wrote + 1) + 1 ELSE 0
        /\ \A i \in 1 .. Len(u) : (wrote + 1) + i - 1 \in 1 .. l /\ u[i] = bytes[(wrote + 1) + i - 1]
    BY <1>u, <2>1, SubSeqIs
  <2>3. Len(u) = l - wrote
    BY <2>1, <2>2
  <2> QED
    BY <2>2, <2>3
<1>7. /\ HeadSize \in Nat /\ HeadSize \in 0 .. BlockSize - 1 /\ HeadSize <= HeadSize
      /\ HeadSize + Len(u) <= BlockSize /\ BlockSize \in Nat
  BY <1>6, Sizes
<1>8. a \in States(n) /\ Synced(a)
  BY <1>3 DEF Sound
<1>9. /\ Sound(n, a, t) /\ Laid(t, f, k, r, HeadSize + Len(u)) /\ t.ret = Len(u)
      /\ SameTag(a.file[f], t.file[f]) /\ t.file[f].last_write_offset = HeadSize
  <2>1. LaidAfter(n, a, t, f, k, r, HeadSize, Len(u))
    BY <1>3, <1>4, <1>5, <1>6, <1>7, <1>8, WriteLaid
  <2> QED
    BY <2>1 DEF LaidAfter
<1>10. Sound(n, s, t)
  BY <1>3, <1>9, SoundThen
<1>11. At(p, k, r, HeadSize + Len(u), BlockSize + l - wrote)
  <2>1. HeadSize + Len(u) \in HeadSize .. BlockSize /\ HeadSize + Len(u) > HeadSize
        /\ BlockSize + l - wrote = (HeadSize + Len(u)) + BlockSize - HeadSize
    BY <1>6, <1>7, SMTT(60)
  <2> QED
    BY <1>4, <2>1 DEF At
<1>12. SameTag(s.file[f], t.file[f])
  BY <1>4, <1>9 DEF SameTag
<1>13. /\ t.ret \in Nat /\ t.file[f].last_write_offset \in HeadSize .. BlockSize - 1
       /\ HeadSize + Len(u) <= t.file[f].last_write_offset + l
       /\ t.file[f].last_write_offset + l <= BlockSize
       /\ ~(BlockSize + l - wrote <= BlockSize)
  BY <1>6, <1>7, <1>9
<1> QED
  BY <1>9, <1>10, <1>11, <1>12, <1>13, <1>p, Zenon DEF SpillOf, Stored

\* flashfile_write of l bytes behind the last ones: they are stored, or they
\* lie past the end of a last block that has no successor.
Written(n, s, t, f, p, m, q, offset, l) ==
  /\ Sound(n, s, t)
  /\ \/ Stored(s, t, f, p, offset + l, l)
     \/ p = q[m] /\ offset > BlockSize /\ t.ret = -1 /\ SameState(s, t)

FitsInto(s, t, n, f, p, e, l) == SpillOf(s, t, n, f, p, e, l) /\ t.ret = l
SplitsInto(s, v, t, n, f, p, e, l) == SpillOf(s, t, n, f, p, e, l) /\ v.ret # l /\ v.ret # -1

\* A run that fits into the last block.
LEMMA FitLaid ==
  ASSUME NEW n \in Nat, NEW s \in States(n), Synced(s), NEW f, Only(f), NEW m \in Nat, NEW q,
         NEW w \in Nat, Laid(s, f, m, q, w), m > 0,
         NEW off \in Nat, w <= off, HeadSize <= off, NEW l \in Nat, l > 0, off + l <= BlockSize,
         NEW bytes \in Seq(ByteSet(n)), l = Len(bytes), \A k \in 1 .. l : bytes[k] # Garbled,
         NEW z, z = off + l, NEW p, NEW e, At(p, m, q, z, e),
         NEW t, t = BlockWrite(s, q[m], off, SubSeq(bytes, 1, l))
  PROVE  FitsInto(s, t, n, f, p, e, l)
<1>u. PICK u : u = SubSeq(bytes, 1, l)
  OBVIOUS
<1>1. u \in Seq(ByteSet(n)) /\ Len(u) = l /\ \A i \in 1 .. Len(u) : u[i] # Garbled
  <2>1. 1 \in Nat \ {0} /\ l \in Int /\ l <= Len(bytes) /\ 1 <= l
    OBVIOUS
  <2>2. /\ u \in Seq(ByteSet(n)) /\ Len(u) = IF 1 <= l THEN l - 1 + 1 ELSE 0
        /\ \A i \in 1 .. Len(u) : 1 + i - 1 \in 1 .. l /\ u[i] = bytes[1 + i - 1]
    BY <1>u, <2>1, SubSeqIs
  <2>3. Len(u) = l
    BY <2>1, <2>2
  <2> QED
    BY <2>2, <2>3
<1>2. off \in 0 .. BlockSize - 1 /\ off + Len(u) <= BlockSize /\ t = BlockWrite(s, q[m], off, u)
  <2>1. off \in 0 .. BlockSize - 1
    BY Sizes
  <2> QED
    BY <1>u, <1>1, <2>1
<1>3. LaidAfter(n, s, t, f, m, q, off, Len(u))
  BY <1>1, <1>2, WriteLaid
<1>4. /\ Sound(n, s, t) /\ Laid(t, f, m, q, off + l) /\ t.ret = l
      /\ SameTag(s.file[f], t.file[f]) /\ t.file[f].last_write_offset = off
  BY <1>1, <1>3 DEF LaidAfter
<1>5. /\ t.ret \in Nat /\ t.file[f].last_write_offset \in HeadSize .. BlockSize - 1
      /\ off + l <= t.file[f].last_write_offset + l
      /\ t.file[f].last_write_offset + l <= BlockSize
      /\ e <= BlockSize => t.file[f].last_write_offset + l = e
  <2>1. e <= BlockSize => off + l = e
    BY Sizes DEF At
  <2> QED
    BY <1>2, <1>4, <2>1, Sizes, SMTT(60)
<1> QED
  BY <1>4, <1>5, Zenon DEF SpillOf, Stored, FitsInto

\* A run that begins in the last block and goes over its end.
LEMMA SplitLaid ==
  ASSUME NEW n \in Nat, NEW s \in States(n), Synced(s), NEW f, Only(f), NEW m \in Nat, NEW q,
         NEW w \in Nat, Laid(s, f, m, q, w), m > 0,
         NEW off \in Nat, w <= off, HeadSize <= off, NEW l \in Nat, off < BlockSize, off + l > BlockSize,
         HeadSize + l <= BlockSize,
         NEW bytes \in Seq(ByteSet(n)), l = Len(bytes), \A k \in 1 .. l : bytes[k] # Garbled,
         NEW v, v = BlockWrite(s, q[m], off, SubSeq(bytes, 1, BlockSize - off)),
         NEW t, t = Spill(v, q[m], v.ret, bytes), NEW z, z = off + l
  PROVE  SplitsInto(s, v, t, n, f, q[m], z, l)
<1>0. BlockSize \in Nat /\ HeadSize \in Nat
  BY Sizes
<1>i. PICK i \in Nat : i = BlockSize - off
  BY <1>0
<1>u. PICK u : u = SubSeq(bytes, 1, i)
  OBVIOUS
<1>1. u \in Seq(ByteSet(n)) /\ Len(u) = i /\ \A j \in 1 .. Len(u) : u[j] # Garbled
  <2>1. 1 \in Nat \ {0} /\ i \in Int /\ i <= Len(bytes) /\ 1 <= i
    BY <1>0, <1>i
  <2>2. /\ u \in Seq(ByteSet(n)) /\ Len(u) = IF 1 <= i THEN i - 1 + 1 ELSE 0
        /\ \A j \in 1 .. Len(u) : 1 + j - 1 \in 1 .. l /\ u[j] = bytes[1 + j - 1]
    BY <1>u, <2>1, SubSeqIs
  <2>3. Len(u) = i
    BY <2>1, <2>2
  <2> QED
    BY <2>2, <2>3
<1>2. off \in 0 .. BlockSize - 1 /\ off + Len(u) <= BlockSize /\ v = BlockWrite(s, q[m], off, u)
  BY <1>0, <1>i, <1>u, <1>1, SMTT(60)
<1>3. LaidAfter(n, s, v, f, m, q, off, Len(u))
  BY <1>1, <1>2, WriteLaid
<1>4. /\ Sound(n, s, v) /\ Laid(v, f, m, q, off + i) /\ v.ret = i
      /\ SameTag(s.file[f], v.file[f])
  BY <1>1, <1>3 DEF LaidAfter
<1>5. i \in 0 .. l - 1 /\ i # l /\ i # -1 /\ BlockSize + l - i = off + l
  BY <1>0, <1>i
<1>6. SpillOf(v, t, n, f, q[m], BlockSize + l - i, l)
  <2>1. t = Spill(v, q[m], i, bytes) /\ v \in States(n) /\ Synced(v)
    BY <1>4 DEF Sound
  <2> QED
    BY <1>4, <1>5, <2>1, SpillLaid
<1>7. Sound(n, v, t) /\ Stored(v, t, f, q[m], off + l, l)
  BY <1>5, <1>6 DEF SpillOf
<1>8. Sound(n, s, t)
  BY <1>4, <1>7, SoundThen
<1>9. Stored(s, t, f, q[m], off + l, l)
  <2>1. SameTag(v.file[f], t.file[f]) => SameTag(s.file[f], t.file[f])
    BY <1>4 DEF SameTag
  <2> QED
    BY <1>7, <2>1, Zenon DEF Stored
<1> QED
  BY <1>4, <1>5, <1>8, <1>9 DEF SpillOf, SplitsInto

\* The cases of flashfile_write.
Cases(s, b, offset, bytes, t) ==
  /\ offset > BlockSize /\ s.chain[b] = b => t = [s EXCEPT !.ret = -1]
  /\ (/\ offset > BlockSize /\ s.chain[b] # b
      /\ ~(offset - BlockSize + HeadSize >= BlockSize)
      /\ ~(offset - BlockSize + HeadSize + Len(bytes) > BlockSize)) =>
       LET w == BlockWrite(s, s.chain[b], offset - BlockSize + HeadSize,
                           SubSeq(bytes, 1, Len(bytes)))
       IN  w.ret = Len(bytes) => t = w
  /\ ~(offset > BlockSize) /\ offset >= BlockSize => t = Spill(s, b, 0, bytes)
  /\ (/\ ~(offset > BlockSize) /\ ~(offset >= BlockSize)
      /\ ~(offset + Len(bytes) > BlockSize)) =>
       LET w == BlockWrite(s, b, offset, SubSeq(bytes, 1, Len(bytes)))
       IN  w.ret = Len(bytes) => t = w
  /\ (/\ ~(offset > BlockSize) /\ ~(offset >= BlockSize)
      /\ offset + Len(bytes) > BlockSize) =>
       LET w == BlockWrite(s, b, offset, SubSeq(bytes, 1, BlockSize - offset))
       IN  w.ret # Len(bytes) /\ w.ret # -1 => t = Spill(w, b, w.ret, bytes)

\* flashfile_write returns -1 and changes nothing.
LEMMA MissIs ==
  ASSUME NEW n \in Nat, NEW s \in States(n), Synced(s), NEW t, t = [s EXCEPT !.ret = -1]
  PROVE  Sound(n, s, t) /\ SameState(s, t) /\ t.ret = -1
<1>1. -1 \in Int
  OBVIOUS
<1> QED
  BY <1>1, SoundSet

\* flashfile_write takes one of its cases.
LEMMA FlashWriteIs ==
  ASSUME NEW s, NEW b, NEW offset, NEW bytes, NEW t, t = FlashWrite(s, b, offset, bytes),
         ~(offset + Len(bytes) > 2 * BlockSize)
  PROVE  Cases(s, b, offset, bytes, t)
BY Zenon DEF FlashWrite, Cases

\* flashfile_write of a run behind the last bytes of the file: in the last block, in
\* the one before it, over the end of it or past it.
LEMMA FlashWriteLaid ==
  ASSUME NEW n \in Nat, NEW s \in States(n), Synced(s), NEW f, Only(f), NEW m, NEW q, NEW w,
         Laid(s, f, m, q, w), NEW p, NEW e, At(p, m, q, w, e),
         NEW offset \in Nat, e <= offset,
         NEW l \in Nat, l > 0, HeadSize + l <= BlockSize, offset + HeadSize + l <= 2 * BlockSize,
         NEW bytes \in Seq(ByteSet(n)), l = Len(bytes), \A k \in 1 .. l : bytes[k] # Garbled,
         NEW t, t = FlashWrite(s, p, offset, bytes)
  PROVE  Written(n, s, t, f, p, m, q, offset, l)
<1>0. /\ BlockSize \in Nat /\ HeadSize \in Nat /\ HeadSize > 0 /\ HeadSize < BlockSize
      /\ m \in Nat /\ m > 0 /\ w \in Nat /\ w \in HeadSize .. BlockSize
  BY Sizes DEF At
<1>1. ~(offset + Len(bytes) > 2 * BlockSize)
  BY <1>0
<1>c. Cases(s, p, offset, bytes, t)
  BY <1>1, FlashWriteIs
<1>z. PICK z \in Nat : z = offset + l
  OBVIOUS
<1>2. Ring(s, f, m, q)
  BY DEF Laid
<1>3. s.chain[q[m]] = q[m]
  <2>1. EndsRing(s, f, m, q, q[m])
    BY <1>0, <1>2, LastIs
  <2> QED
    BY <2>1 DEF EndsRing
<1>4. CASE p # q[m]
  <2>1. m >= 2 /\ p = q[m - 1] /\ w > HeadSize /\ e = w + BlockSize - HeadSize
    BY <1>4 DEF At
  <2>2. s.chain[p] = q[m]
    <3>1. m - 1 \in 1 .. m - 1 /\ (m - 1) + 1 = m
      BY <1>0, <2>1
    <3>2. s.chain[q[m - 1]] = q[(m - 1) + 1]
      BY <1>2, <3>1 DEF Ring
    <3> QED
      BY <2>1, <3>1, <3>2
  <2>o. PICK off \in Int : off = offset - BlockSize + HeadSize
    BY <1>0
  <2>3. /\ off \in Nat /\ w <= off /\ HeadSize <= off /\ offset > BlockSize
        /\ ~(off >= BlockSize) /\ off + l <= BlockSize
        /\ off + l \in HeadSize .. BlockSize /\ off + l > HeadSize
        /\ offset + l = (off + l) + BlockSize - HeadSize
    BY <1>0, <2>1, <2>o
  <2>4. At(p, m, q, off + l, offset + l)
    BY <1>0, <2>1, <2>3 DEF At
  <2>v. PICK v : v = BlockWrite(s, q[m], off, SubSeq(bytes, 1, l))
    OBVIOUS
  <2>y. PICK y : y = off + l
    OBVIOUS
  <2>5. SpillOf(s, v, n, f, p, offset + l, l) /\ v.ret = l
    <3>1. At(p, m, q, y, z)
      BY <1>z, <2>y, <2>4
    <3>2. FitsInto(s, v, n, f, p, z, l)
      BY <1>0, <2>v, <2>y, <2>3, <3>1, FitLaid
    <3> QED
      BY <1>z, <3>2 DEF FitsInto
  <2>6. t = v
    <3>1. ~(off + l > BlockSize) /\ s.chain[p] # p
      BY <1>0, <1>4, <2>2, <2>3, SMTT(60)
    <3>2. v.ret = l => t = v
      BY <1>c, <2>v, <2>o, <2>2, <2>3, <3>1, Zenon DEF Cases
    <3> QED
      BY <2>5, <3>2
  <2> QED
    BY <2>5, <2>6 DEF Written, SpillOf
<1>5. CASE p = q[m]
  <2>1. e = w /\ w <= offset /\ HeadSize <= offset
    <3>1. p # q[m - 1] \/ ~(m >= 2)
      <4> SUFFICES ASSUME m >= 2 PROVE q[m - 1] # q[m]
        BY <1>5
      <4>1. m - 1 \in 1 .. m /\ m \in 1 .. m /\ m - 1 # m
        BY <1>0
      <4> QED
        BY <1>2, <4>1 DEF Ring
    <3>2. e = w
      BY <3>1 DEF At
    <3> QED
      BY <1>0, <3>2
  <2>2. CASE offset > BlockSize
    <3>1. t = [s EXCEPT !.ret = -1]
      BY <1>c, <1>3, <1>5, <2>2, Zenon DEF Cases
    <3>3. Sound(n, s, t) /\ SameState(s, t) /\ t.ret = -1
      BY <3>1, MissIs
    <3> QED
      BY <1>5, <2>2, <3>3 DEF Written
  <2>3. CASE offset = BlockSize
    <3>1. ~(offset > BlockSize) /\ offset >= BlockSize
      BY <1>0, <2>3
    <3>2. t = Spill(s, q[m], 0, bytes)
      BY <1>c, <1>5, <3>1, Zenon DEF Cases
    <3>3. 0 \in 0 .. l - 1 /\ BlockSize + l - 0 = offset + l
      BY <1>0, <2>3
    <3>4. SpillOf(s, t, n, f, q[m], BlockSize + l - 0, l)
      BY <1>0, <3>2, <3>3, SpillLaid
    <3> QED
      BY <1>5, <3>3, <3>4 DEF Written, SpillOf
  <2>4. CASE offset < BlockSize /\ offset + l <= BlockSize
    <3>1. /\ ~(offset > BlockSize) /\ ~(offset >= BlockSize) /\ ~(offset + l > BlockSize)
          /\ offset + l \in HeadSize .. BlockSize
      BY <1>0, <2>1, <2>4
    <3>2. At(p, m, q, offset + l, offset + l)
      BY <1>0, <1>5, <3>1 DEF At
    <3>v. PICK v : v = BlockWrite(s, q[m], offset, SubSeq(bytes, 1, l))
      OBVIOUS
    <3>3. SpillOf(s, v, n, f, p, offset + l, l) /\ v.ret = l
      <4>1. At(p, m, q, z, z)
        BY <1>z, <3>2
      <4>2. FitsInto(s, v, n, f, p, z, l)
        BY <1>0, <1>z, <2>1, <2>4, <3>v, <4>1, FitLaid
      <4> QED
        BY <1>z, <4>2 DEF FitsInto
    <3>4. t = v
      <4>1. v.ret = l => t = v
        BY <1>c, <1>5, <3>v, <3>1, Zenon DEF Cases
      <4> QED
        BY <3>3, <4>1
    <3> QED
      BY <3>3, <3>4 DEF Written, SpillOf
  <2>5. CASE offset < BlockSize /\ ~(offset + l <= BlockSize)
    <3>1. ~(offset > BlockSize) /\ ~(offset >= BlockSize) /\ offset + l > BlockSize
      BY <1>0, <2>5
    <3>v. PICK v : v = BlockWrite(s, q[m], offset, SubSeq(bytes, 1, BlockSize - offset))
      OBVIOUS
    <3>x. PICK x : x = Spill(v, q[m], v.ret, bytes)
      OBVIOUS
    <3>2. SpillOf(s, x, n, f, q[m], offset + l, l) /\ v.ret # l /\ v.ret # -1
      <4>1. SplitsInto(s, v, x, n, f, q[m], z, l)
        BY <1>0, <1>z, <2>1, <2>5, <3>1, <3>v, <3>x, SplitLaid
      <4> QED
        BY <1>z, <4>1 DEF SplitsInto
    <3>3. t = x
      BY <1>c, <1>5, <3>v, <3>x, <3>1, <3>2, Zenon DEF Cases
    <3> QED
      BY <1>5, <3>2, <3>3 DEF Written, SpillOf
  <2> QED
    BY <1>0, <2>2, <2>3, <2>4, <2>5
<1> QED
  BY <1>4, <1>5

-----------------------------------------------------------------------------
(* The last tag of the file.                                               *)

\* What the tables say of the ring, and the flash of its blocks, is the same.
SameRing(s, t, f) ==
  /\ \A b \in Blocks : t.map[b].file_id = s.map[b].file_id
  /\ t.chain = s.chain /\ t.wild = s.wild
  /\ t.file[f].start_block = s.file[f].start_block /\ t.file[f].total_block = s.file[f].total_block
  /\ t.file[f].last_write_block = s.file[f].last_write_block
  /\ t.fuel # 0 => s.fuel # 0
  /\ s.fuel # 0 => \A b \in Blocks : t.flash[b].body = s.flash[b].body
  /\ \A b \in Blocks : t.flash[b].head.file_id = f => s.flash[b].head.file_id = f

\* A step that keeps the ring and its bytes keeps the file.
LEMMA LaidSame ==
  ASSUME NEW s, NEW t, NEW f, Only(f), NEW m, m > 0, NEW q, NEW w \in Nat, NEW v \in Nat, w <= v,
         Laid(s, f, m, q, w), SameRing(s, t, f)
  PROVE  Laid(t, f, m, q, v)
<1>0. Ring(s, f, m, q) /\ (s.fuel # 0 => Clean(s, m, q, w)) /\ HeadsFit(s, f)
  BY DEF Laid
<1>1. Ring(t, f, m, q)
  <2>1. m # 0
    <3>1. m \in Nat
      BY <1>0 DEF Ring, Only
    <3> QED
      BY <3>1
  <2> QED
    BY <1>0, <2>1 DEF Ring, SameRing
<1>2. t.fuel # 0 => Clean(t, m, q, v)
  <2> SUFFICES ASSUME t.fuel # 0 PROVE Clean(t, m, q, v)
    OBVIOUS
  <2>1. Clean(s, m, q, w) /\ \A b \in Blocks : t.flash[b].body = s.flash[b].body
    BY <1>0 DEF SameRing
  <2>2. Body \subseteq Int
    BY Sizes DEF Body
  <2>3. q[m] \in Blocks
    <3>1. EndsRing(s, f, m, q, q[m])
      BY <1>0, LastIs
    <3> QED
      BY <3>1 DEF EndsRing
  <2>4. \A o \in Body : o >= v => o >= w
    BY <2>2
  <2>5. /\ \A b \in Blocks : Member(b, m, q) \/ \A o \in Body : s.flash[b].body[o] = Erased
        /\ \A b \in Blocks, o \in Body : s.flash[b].body[o] # Garbled
        /\ \A o \in Body : o >= w => s.flash[q[m]].body[o] = Erased
    BY <2>1 DEF Clean
  <2>6. \A b \in Blocks : Member(b, m, q) \/ \A o \in Body : t.flash[b].body[o] = Erased
    BY <2>1, <2>5
  <2>7. \A b \in Blocks, o \in Body : t.flash[b].body[o] # Garbled
    BY <2>1, <2>5
  <2>8. \A o \in Body : o >= v => t.flash[q[m]].body[o] = Erased
    BY <2>1, <2>3, <2>4, <2>5
  <2> QED
    BY <2>6, <2>7, <2>8 DEF Clean
<1>3. HeadsFit(t, f)
  <2>1. \A b \in Blocks : t.flash[b].head.file_id = f => s.flash[b].head.file_id = f
    BY DEF SameRing
  <2> QED
    BY <1>0, <2>1, HeadsFitLess
<1> QED
  BY <1>1, <1>2, <1>3 DEF Laid

\* The last bytes of the file end at place e of the block of its last tag.
Behind(s, f, e) ==
  /\ \E m, q, w : Laid(s, f, m, q, w) /\ At(s.file[f].tag_block, m, q, w, e)
  /\ s.file[f].tag_offset \in HeadSize .. BlockSize - 1

\* A tag that was stored becomes the last one.
LEMMA StoreTagLaid ==
  ASSUME NEW n \in Nat, NEW s \in States(n), Synced(s), NEW f, Only(f), NEW r, NEW p, NEW e,
         Stored(r, s, f, p, e, TagSize), NEW time \in 0 .. n,
         NEW u, u = StoreLastTimeTag(s, f, time)
  PROVE  /\ Sound(n, s, u) /\ Behind(u, f, u.file[f].tag_offset + TagSize)
         /\ u.file[f].tag_time = time
         /\ e <= BlockSize => u.file[f].tag_offset + TagSize = e /\ u.file[f].tag_block = p
<1>1. PICK m, q, w : /\ Laid(s, f, m, q, w) /\ At(p, m, q, w, e)
                     /\ s.file[f].last_write_offset \in HeadSize .. BlockSize - 1
                     /\ w <= s.file[f].last_write_offset + TagSize
                     /\ s.file[f].last_write_offset + TagSize <= BlockSize
                     /\ e <= BlockSize => s.file[f].last_write_offset + TagSize = e
  BY Zenon DEF Stored
<1>2. PICK o : o = s.file[f].last_write_offset
  OBVIOUS
<1>3. /\ o \in Nat /\ o \in HeadSize .. BlockSize - 1 /\ o + TagSize \in HeadSize .. BlockSize
      /\ o + TagSize \in Nat /\ w <= o + TagSize /\ m \in Nat /\ m > 0 /\ w \in Nat
  BY <1>1, <1>2, Sizes DEF At
<1>4. f \in Files
  BY DEF Only
<1>5. /\ u \in States(n)
      /\ u.map = s.map /\ u.chain = s.chain /\ u.flash = s.flash /\ u.fuel = s.fuel
      /\ u.wild = s.wild
      /\ u.file[f].start_block = s.file[f].start_block /\ u.file[f].total_block = s.file[f].total_block
      /\ u.file[f].last_write_block = s.file[f].last_write_block
      /\ u.file[f].tag_time = time /\ u.file[f].tag_block = s.file[f].last_write_block
      /\ u.file[f].tag_offset = o
  BY <1>2, <1>4, StoreLastTimeTagIs
<1>6. SameRing(s, u, f)
  BY <1>5 DEF SameRing
<1>7. Laid(u, f, m, q, o + TagSize)
  BY <1>1, <1>3, <1>6, LaidSame
<1>8. u.file[f].tag_block = q[m]
  <2>1. Ring(s, f, m, q)
    BY <1>1 DEF Laid
  <2>2. EndsRing(s, f, m, q, q[m])
    BY <1>3, <2>1, LastIs
  <2> QED
    BY <1>5, <2>2 DEF EndsRing
<1>9. At(u.file[f].tag_block, m, q, o + TagSize, o + TagSize)
  BY <1>3, <1>8 DEF At
<1>10. Behind(u, f, o + TagSize)
  BY <1>3, <1>5, <1>7, <1>9, Zenon DEF Behind
<1>11. e <= BlockSize => u.file[f].tag_block = p
  <2>1. BlockSize \in Nat /\ HeadSize \in Nat
    BY Sizes
  <2>2. e <= BlockSize => p = q[m]
    BY <2>1, <1>1, <1>3 DEF At
  <2> QED
    BY <1>8, <2>2
<1>12. Sound(n, s, u)
  BY <1>4, StoreSound
<1> QED
  BY <1>1, <1>2, <1>5, <1>10, <1>11, <1>12

\* So does one that changes nothing but the value returned.
LEMMA BehindSame ==
  ASSUME NEW s, NEW t, NEW f, NEW e, Behind(s, f, e), SameState(s, t)
  PROVE  Behind(t, f, e)
<1>1. PICK m, q, w : Laid(s, f, m, q, w) /\ At(s.file[f].tag_block, m, q, w, e)
  BY DEF Behind
<1>2. Laid(t, f, m, q, w)
  BY <1>1 DEF SameState, Laid, Ring, Clean, HeadsFit
<1>3. t.file = s.file
  BY DEF SameState
<1> QED
  BY <1>1, <1>2, <1>3, Zenon DEF Behind

\* A time tag is the last thing in the file, or it did not get there.
Tagged(n, s, t, f, time, e) ==
  /\ Sound(n, s, t)
  /\ \/ Behind(t, f, t.file[f].tag_offset + TagSize) /\ t.file[f].tag_time = time
     \/ SameState(s, t) /\ e <= BlockSize /\ s.file[f].tag_offset + Stride > BlockSize

\* flashfile_append_time_tag, if the file's bytes end before the next tag's place.
LEMMA TagLaid ==
  ASSUME NEW n \in Nat, NEW s \in States(n), Synced(s), NEW f, Only(f), NEW e, Behind(s, f, e),
         e <= s.file[f].tag_offset + Stride, NEW time \in 0 .. n,
         NEW t, t = AppendTimeTag(s, f, time)
  PROVE  Tagged(n, s, t, f, time, e)
<1>p. PICK p : p = s.file[f].tag_block
  OBVIOUS
<1>o. PICK o : o = s.file[f].tag_offset + Stride
  OBVIOUS
<1>b. PICK b : b = TagBytes(time, Stride)
  OBVIOUS
<1>w. PICK v : v = FlashWrite(s, p, o, b)
  OBVIOUS
<1>u. PICK u : u = StoreLastTimeTag(v, f, time)
  OBVIOUS
<1>f. f \in Files
  BY DEF Only
<1>1. PICK m, q, w : Laid(s, f, m, q, w) /\ At(p, m, q, w, e)
  BY <1>p DEF Behind
<1>2. /\ o \in Nat /\ e <= o /\ o + HeadSize + TagSize <= 2 * BlockSize
      /\ ~(s.file[f].tag_offset < 0) /\ HeadSize + TagSize <= BlockSize
      /\ TagSize \in Nat /\ TagSize > 0 /\ BlockSize \in Nat /\ e \in Nat
  <2>1. s.file[f].tag_offset \in HeadSize .. BlockSize - 1
    BY DEF Behind
  <2>2. e \in Nat
    BY <1>1, Sizes DEF At
  <2> QED
    BY <1>o, <2>1, <2>2, Sizes, StrideIs
<1>3. t = IF v.ret < 0 THEN v ELSE [u EXCEPT !.ret = 0]
  BY <1>p, <1>o, <1>b, <1>w, <1>u, <1>2, Zenon DEF AppendTimeTag
<1>4. b \in Seq(ByteSet(n)) /\ TagSize = Len(b) /\ \A k \in 1 .. TagSize : b[k] # Garbled
  BY <1>b, <1>f, BytesAre
<1>5. Written(n, s, v, f, p, m, q, o, TagSize)
  BY <1>1, <1>2, <1>4, <1>w, FlashWriteLaid
<1>6. CASE Stored(s, v, f, p, o + TagSize, TagSize)
  <2>1. v.ret \in Nat /\ Sound(n, s, v) /\ v \in States(n) /\ Synced(v)
    BY <1>5, <1>6, Zenon DEF Stored, Written, Sound
  <2>2. t = [u EXCEPT !.ret = 0]
    BY <1>3, <2>1
  <2>3. /\ Sound(n, v, u) /\ Behind(u, f, u.file[f].tag_offset + TagSize)
        /\ u.file[f].tag_time = time
    BY <1>6, <1>u, <2>1, StoreTagLaid
  <2>4. Sound(n, u, t) /\ SameState(u, t)
    BY <2>2, <2>3, SoundSet DEF Sound
  <2>5. Sound(n, s, t)
    BY <2>1, <2>3, <2>4, SoundThen
  <2>6. t.file = u.file
    BY <2>4 DEF SameState
  <2>7. Behind(t, f, t.file[f].tag_offset + TagSize)
    BY <2>3, <2>4, <2>6, BehindSame
  <2> QED
    BY <2>3, <2>5, <2>6, <2>7 DEF Tagged
<1>7. CASE p = q[m] /\ o > BlockSize /\ v.ret = -1 /\ SameState(s, v)
  <2>1. t = v
    BY <1>3, <1>7
  <2>2. e <= BlockSize
    <3>1. CASE e = w
      BY <1>1, <3>1, Sizes DEF At
    <3>2. CASE e # w
      <4>1. m >= 2 /\ p = q[m - 1] /\ m \in Nat
        BY <1>1, <3>2 DEF At
      <4>2. m - 1 \in 1 .. m /\ m \in 1 .. m /\ m - 1 # m
        BY <4>1
      <4>3. q[m - 1] # q[m]
        BY <1>1, <4>2 DEF Laid, Ring
      <4> QED
        BY <1>7, <4>1, <4>3
    <3> QED
      BY <3>1, <3>2
  <2>3. Sound(n, s, t)
    BY <1>5, <2>1 DEF Written
  <2> QED
    BY <1>7, <1>o, <2>1, <2>2, <2>3 DEF Tagged
<1> QED
  BY <1>5, <1>6, <1>7, Zenon DEF Written

\* A record is the last thing in the file, or it did not get there.
Recorded(n, s, t, f, e, o) ==
  /\ Sound(n, s, t)
  /\ \/ Behind(t, f, o + RecSize) /\ SameTag(s.file[f], t.file[f])
     \/ SameState(s, t) /\ e <= BlockSize /\ o > BlockSize

\* The record's write, if the file's bytes end before its place.
LEMMA RecLaid ==
  ASSUME NEW n \in Nat, NEW s \in States(n), Synced(s), NEW f, Only(f), NEW e, Behind(s, f, e),
         NEW o \in Nat, e <= o, o + RecSize <= s.file[f].tag_offset + Stride, NEW time \in 0 .. n,
         NEW t, t = FlashWrite(s, s.file[f].tag_block, o, RecBytes(f, time))
  PROVE  Recorded(n, s, t, f, e, o)
<1>p. PICK p : p = s.file[f].tag_block
  OBVIOUS
<1>b. PICK b : b = RecBytes(f, time)
  OBVIOUS
<1>f. f \in Files
  BY DEF Only
<1>1. PICK m, q, w : Laid(s, f, m, q, w) /\ At(p, m, q, w, e)
  BY <1>p DEF Behind
<1>2. /\ o + HeadSize + RecSize <= 2 * BlockSize /\ HeadSize + RecSize <= BlockSize
      /\ RecSize \in Nat /\ RecSize > 0 /\ BlockSize \in Nat /\ e \in Nat
      /\ s.file[f].tag_offset \in HeadSize .. BlockSize - 1
  <2>1. s.file[f].tag_offset \in HeadSize .. BlockSize - 1
    BY DEF Behind
  <2>2. e \in Nat
    BY <1>1, Sizes DEF At
  <2> QED
    BY <2>1, <2>2, Sizes, StrideIs
<1>4. b \in Seq(ByteSet(n)) /\ RecSize = Len(b) /\ \A k \in 1 .. RecSize : b[k] # Garbled
  BY <1>b, <1>f, BytesAre
<1>5. Written(n, s, t, f, p, m, q, o, RecSize)
  BY <1>p, <1>b, <1>1, <1>2, <1>4, FlashWriteLaid
<1>6. CASE Stored(s, t, f, p, o + RecSize, RecSize)
  <2>1. PICK k, r, x : /\ Laid(t, f, k, r, x) /\ At(p, k, r, x, o + RecSize)
                       /\ SameTag(s.file[f], t.file[f])
    BY <1>6, Zenon DEF Stored
  <2>2. t.file[f].tag_block = p /\ t.file[f].tag_offset = s.file[f].tag_offset
    BY <1>p, <2>1 DEF SameTag
  <2> QED
    BY <1>2, <1>5, <2>1, <2>2, Zenon DEF Recorded, Behind, Written
<1>7. CASE p = q[m] /\ o > BlockSize /\ t.ret = -1 /\ SameState(s, t)
  <2>2. e <= BlockSize
    <3>1. CASE e = w
      BY <1>1, <3>1, Sizes DEF At
    <3>2. CASE e # w
      <4>1. m >= 2 /\ p = q[m - 1] /\ m \in Nat
        BY <1>1, <3>2 DEF At
      <4>2. m - 1 \in 1 .. m /\ m \in 1 .. m /\ m - 1 # m
        BY <4>1
      <4>3. q[m - 1] # q[m]
        BY <1>1, <4>2 DEF Laid, Ring
      <4> QED
        BY <1>7, <4>1, <4>3
    <3> QED
      BY <3>1, <3>2
  <2> QED
    BY <1>5, <1>7, <2>2 DEF Recorded, Written
<1> QED
  BY <1>5, <1>6, <1>7, Zenon DEF Written

-----------------------------------------------------------------------------
(* Times and places.                                                       *)

\* A product grows with its factor.
LEMMA TimesMonotone ==
  ASSUME NEW a \in Int, NEW b \in Int, a <= b, NEW c \in Nat, NEW x, x = a * c, NEW y, y = b * c
  PROVE  x \in Int /\ y \in Int /\ x <= y
<1>d. PICK d \in Nat : b = a + d
  <2>1. b - a \in Nat /\ b = a + (b - a)
    OBVIOUS
  <2> QED
    BY <2>1
<1>1. d * c \in Nat
  BY TimesNat
<1>2. b * c = a * c + d * c
  BY <1>d
<1> QED
  BY <1>1, <1>2

\* The slot of a record k units behind its tag: it fits before the next tag.
Slot(o, k) == k \in Int /\ o = TagSize + k * RecSize

\* A slot before the next tag's place ends before it, too.
LEMMA SlotFits ==
  ASSUME NEW o, NEW k, Slot(o, k)
  PROVE  /\ o \in Int /\ (o < Stride => o + RecSize <= Stride) /\ (k < Interval \div Unit => o < Stride)
         /\ (k \in Nat => o >= TagSize)
<1>K. PICK K \in Nat : K = Interval \div Unit
  BY StrideIs
<1>x. PICK x \in Int : x = k * RecSize
  BY Sizes DEF Slot
<1>y. PICK y \in Int : y = K * RecSize
  BY Sizes
<1>0. o = TagSize + x /\ Stride = TagSize + y /\ k \in Int /\ RecSize \in Nat /\ RecSize > 0
      /\ TagSize \in Nat /\ Stride \in Nat
  BY <1>K, <1>x, <1>y, Sizes, StrideIs DEF Slot
<1>1. CASE k < K
  <2>z. PICK z : z = (k + 1) * RecSize
    OBVIOUS
  <2>1. z \in Int /\ z <= y
    <3>1. k + 1 \in Int /\ k + 1 <= K /\ K \in Int
      BY <1>0, <1>1
    <3> QED
      BY <1>0, <1>y, <2>z, <3>1, TimesMonotone
  <2>2. z = x + RecSize
    BY <1>0, <1>x, <2>z
  <2> QED
    <3>1. o < Stride /\ o + RecSize <= Stride
      BY <1>0, <2>1, <2>2
    <3>2. k \in Nat => x \in Nat
      BY <1>x, <1>0, TimesNat
    <3> QED
      BY <1>0, <3>1, <3>2
<1>2. CASE ~(k < K)
  <2>1. y <= x /\ k \in Nat
    <3>1. K <= k /\ K \in Int /\ k \in Int /\ k \in Nat
      BY <1>0, <1>2
    <3> QED
      BY <1>0, <1>x, <1>y, <3>1, TimesMonotone
  <2>2. ~(o < Stride) /\ o >= TagSize
    <3>1. x \in Nat
      BY <1>x, <1>0, <2>1, TimesNat
    <3> QED
      BY <1>0, <2>1, <3>1
  <2> QED
    BY <1>0, <1>2, <1>K, <2>2
<1> QED
  BY <1>1, <1>2

\* flashfile_append_data_offset_to_last_time_tag gives the slot of the time.
LEMMA DataOffsetSlot ==
  ASSUME NEW n \in Nat, NEW s \in States(n), NEW f \in Files, NEW t \in Nat,
         s.file[f].tag_time <= t, NEW o, o = DataOffset(s, f, t)
  PROVE  \E x \in Nat, k \in Nat : x = t - s.file[f].tag_time /\ k = x \div Unit /\ Slot(o, k)
<1>1. s.file[f].tag_time \in Nat
  <2>1. s.file[f] \in DescSet(n)
    BY DEF States
  <2> QED
    BY <2>1 DEF DescSet
<1>2. PICK x \in Nat : x = t - s.file[f].tag_time
  BY <1>1
<1>3. PICK k : k = x \div Unit
  OBVIOUS
<1>4. k \in Nat /\ k \in Int
  BY <1>3, Sizes, DivIs
<1>5. o = TagSize + k * RecSize
  BY <1>2, <1>3, Zenon DEF DataOffset
<1> QED
  BY <1>2, <1>3, <1>4, <1>5, Zenon DEF Slot

\* A record of its tag's own time is in the first slot.
LEMMA FirstSlot ==
  ASSUME NEW n \in Nat, NEW s \in States(n), NEW f \in Files, s.file[f].tag_time = n,
         NEW o, o = DataOffset(s, f, n)
  PROVE  o = TagSize
<1>1. s.file[f].tag_time <= n
  OBVIOUS
<1>2. PICK x \in Nat, k \in Nat : x = n - s.file[f].tag_time /\ k = x \div Unit /\ Slot(o, k)
  BY <1>1, DataOffsetSlot, SMTT(60)
<1>3. x = 0
  BY <1>2
<1>4. k = 0
  BY <1>2, <1>3, Sizes
<1> QED
  BY <1>2, <1>4, Sizes DEF Slot

\* A record no sooner than a unit behind another one has a later slot.
LEMMA UnitLater ==
  ASSUME NEW n \in Nat, NEW s \in States(n), NEW f \in Files, NEW t \in Nat, NEW d \in Nat, d >= Unit,
         s.file[f].tag_time <= t, NEW u, u = t + d,
         NEW o, o = DataOffset(s, f, t), NEW v, v = DataOffset(s, f, u)
  PROVE  o + RecSize <= v
<1>0. Unit \in Nat /\ Unit > 0 /\ Unit \in Nat \ {0} /\ RecSize \in Nat /\ TagSize \in Nat
  BY Sizes
<1>1. PICK x \in Nat, k \in Nat : x = t - s.file[f].tag_time /\ k = x \div Unit /\ Slot(o, k)
  BY DataOffsetSlot
<1>2. u \in Nat /\ s.file[f].tag_time \in Nat /\ s.file[f].tag_time <= u
  <2>1. s.file[f] \in DescSet(n)
    BY DEF States
  <2>2. s.file[f].tag_time \in Nat
    BY <2>1 DEF DescSet
  <2> QED
    BY <2>2
<1>3. PICK y \in Nat, l \in Nat : y = u - s.file[f].tag_time /\ l = y \div Unit /\ Slot(v, l)
  BY <1>2, DataOffsetSlot
<1>4. y = x + d
  BY <1>1, <1>2, <1>3
<1>5. k + 1 <= l
  <2>a. PICK a : a = x % Unit
    OBVIOUS
  <2>b. PICK b : b = y % Unit
    OBVIOUS
  <2>1. DivMod(x, Unit, k, a) /\ DivMod(y, Unit, l, b)
    <3>1. x \in Int /\ y \in Int
      OBVIOUS
    <3> QED
      BY <1>0, <1>1, <1>3, <2>a, <2>b, <3>1, DivModIs, Zenon
  <2>2. a \in 0 .. Unit - 1 /\ b \in 0 .. Unit - 1 /\ x = Unit * k + a /\ y = Unit * l + b
    BY <2>1 DEF DivMod
  <2>3. SUFFICES ASSUME l <= k PROVE FALSE
    OBVIOUS
  <2>p. PICK p : p = k * Unit
    OBVIOUS
  <2>q. PICK r : r = l * Unit
    OBVIOUS
  <2>4. r <= p /\ p \in Int /\ r \in Int
    <3>1. k \in Int /\ l \in Int
      OBVIOUS
    <3> QED
      BY <1>0, <2>3, <2>p, <2>q, <3>1, TimesMonotone
  <2>5. x = p + a /\ y = r + b
    BY <1>0, <2>2, <2>p, <2>q
  <2> QED
    BY <1>0, <1>4, <2>2, <2>4, <2>5
<1>p. PICK p : p = (k + 1) * RecSize
  OBVIOUS
<1>q. PICK r : r = l * RecSize
  OBVIOUS
<1>6. p \in Int /\ r \in Int /\ p <= r
  <2>1. k + 1 \in Int /\ l \in Int
    OBVIOUS
  <2> QED
    BY <1>0, <1>5, <1>p, <1>q, <2>1, TimesMonotone
<1>7. p = k * RecSize + RecSize /\ k * RecSize \in Int
  BY <1>0, <1>p
<1> QED
  BY <1>0, <1>1, <1>3, <1>6, <1>7, <1>q DEF Slot

-----------------------------------------------------------------------------
(* The first record of a file.                                             *)

\* The header of a file's block is written a second time.
LEMMA HeadLaid ==
  ASSUME NEW n \in Nat, NEW a \in States(n), Synced(a), NEW f, Only(f), NEW k, k > 0, NEW r,
         NEW w \in Nat, Laid(a, f, k, r, w), NEW u, u = InitHead(a, r[k]),
         NEW h, h = BlockWriteHead(u, r[k])
  PROVE  Sound(n, a, h) /\ Laid(h, f, k, r, w)
<1>b. PICK b : b = r[k]
  OBVIOUS
<1>0. b \in Blocks /\ a.map[b].file_id = f /\ f \in Files /\ a.file[f].last_write_block = b
  <2>1. Ring(a, f, k, r)
    BY DEF Laid
  <2>2. EndsRing(a, f, k, r, r[k])
    BY <2>1, LastIs
  <2> QED
    BY <1>b, <2>2 DEF EndsRing
<1>1. /\ u \in States(n) /\ u.chain = a.chain /\ u.file = a.file /\ u.flash = a.flash
      /\ u.fuel = a.fuel /\ u.wild = a.wild /\ u.ret = a.ret
      /\ \A c \in Blocks : u.map[c].file_id = a.map[c].file_id
  BY <1>0, <1>b, InitHeadIs
<1>2. Sound(n, a, u) /\ Synced(u)
  BY <1>1 DEF Sound, Synced, Power
<1>3. Sound(n, u, h)
  BY <1>0, <1>1, <1>2, <1>b, HeadSound
<1>4. Sound(n, a, h)
  BY <1>2, <1>3, SoundThen
<1>5. u.fuel # 0 => u.flash[b].head.file_id = f
  BY <1>0, <1>1, <1>2 DEF Synced
<1>6. /\ Power(u, h) /\ Touched(u, h, b, 0)
      /\ u.fuel # 0 =>
           /\ h.flash[b].head.file_id = f /\ h.flash[b].body = u.flash[b].body
           /\ \A c \in Blocks : c # b => h.flash[c] = u.flash[c]
  <2>1. u.fuel # 0 => u.flash[b].head.file_id \in {NoFile, u.map[b].file_id}
    BY <1>0, <1>1, <1>5
  <2>2. h = BlockWriteHead(u, b)
    BY <1>b
  <2>3. /\ Power(u, h) /\ Touched(u, h, b, 0)
        /\ u.fuel # 0 =>
             /\ h.flash[b].head.file_id = u.map[b].file_id /\ h.flash[b].body = u.flash[b].body
             /\ \A c \in Blocks : c # b => h.flash[c] = u.flash[c]
    BY <1>0, <1>1, <2>1, <2>2, BlockWriteHeadIs, SMTT(60)
  <2>4. u.map[b].file_id = f
    BY <1>0, <1>1
  <2> QED
    BY <2>3, <2>4
<1>7. /\ h.map = u.map /\ h.chain = u.chain /\ h.wild = u.wild
      /\ h.file[f].last_write_block = b
      /\ h.file[f].start_block = u.file[f].start_block /\ h.file[f].total_block = u.file[f].total_block
  <2>1. u.map[b].file_id = f
    BY <1>0, <1>1
  <2> QED
    BY <1>0, <1>6, <2>1 DEF Touched, SameFile
<1>8. SameRing(a, h, f)
  <2>1. h.fuel # 0 => a.fuel # 0
    BY <1>1, <1>6 DEF Power
  <2>2. a.fuel # 0 => \A c \in Blocks : h.flash[c].body = a.flash[c].body
    BY <1>1, <1>6
  <2>3. \A c \in Blocks : h.flash[c].head.file_id = f => a.flash[c].head.file_id = f
    <3>1. CASE u.fuel = 0
      BY <1>1, <1>6, <3>1 DEF Power
    <3>2. CASE u.fuel # 0
      BY <1>1, <1>5, <1>6, <3>2
    <3> QED
      BY <3>1, <3>2
  <2> QED
    BY <1>0, <1>1, <1>7, <2>1, <2>2, <2>3 DEF SameRing
<1>9. Laid(h, f, k, r, w)
  BY <1>8, LaidSame
<1> QED
  BY <1>4, <1>9

\* flashfile_init_record: the file has one tag and, behind it, one record.
First(n, s, t, f, time) ==
  /\ Sound(n, s, t)
  /\ Behind(t, f, t.file[f].tag_offset + DataOffset(t, f, time) + RecSize)
  /\ t.file[f].tag_time = (time \div Interval) * Interval /\ DataOffset(t, f, time) < Stride

\* The steps of flashfile_init_record: h has the file's first block, v its first tag,
\* in g the tag is the last one, w has the record.
InitSteps(n, s, t, f, time, x, b, r, o, h, v, g, w) ==
  /\ Sound(n, s, h) /\ Laid(h, f, 1, x, HeadSize) /\ x[1] = b /\ b \in Blocks
  /\ r = (time \div Interval) * Interval /\ r \in 0 .. n
  /\ v = FlashWrite(h, b, HeadSize, TagBytes(r, Stride)) /\ Sound(n, h, v)
  /\ g = StoreLastTimeTag(v, f, r) /\ Sound(n, v, g) /\ Behind(g, f, HeadSize + TagSize)
  /\ g.file[f].tag_time = r /\ g.file[f].tag_offset = HeadSize /\ g.file[f].tag_block = b
  /\ o = DataOffset(g, f, time) /\ o \in Nat /\ o >= TagSize /\ o < Stride /\ o + RecSize <= Stride
  /\ w = FlashWrite(g, b, HeadSize + o, RecBytes(f, time)) /\ Sound(n, g, w)
  /\ Behind(w, f, HeadSize + o + RecSize) /\ SameTag(g.file[f], w.file[f])
  /\ Sound(n, w, t) /\ SameState(w, t)

\* flashfile_init_record makes these steps.
LEMMA InitStepsAre ==
  ASSUME NEW n \in Nat, NEW s \in States(n), Synced(s), NEW f, Only(f), NEW q, NEW w0,
         Laid(s, f, 0, q, w0), NEW time \in 0 .. n, NEW t, t = InitRecord(s, f, time)
  PROVE  \E x, b, r, o, h, v, g, w : InitSteps(n, s, t, f, time, x, b, r, o, h, v, g, w)
<1>a. PICK a : a = AllocBlock(s, f)
  OBVIOUS
<1>b. PICK b : b = a.ret
  OBVIOUS
<1>u. PICK u : u = InitHead(a, b)
  OBVIOUS
<1>h. PICK h : h = BlockWriteHead(u, b)
  OBVIOUS
<1>r. PICK r : r = (time \div Interval) * Interval
  OBVIOUS
<1>y. PICK y : y = TagBytes(r, Stride)
  OBVIOUS
<1>v. PICK v : v = FlashWrite(h, b, HeadSize, y)
  OBVIOUS
<1>g. PICK g : g = StoreLastTimeTag(v, f, r)
  OBVIOUS
<1>o. PICK o : o = DataOffset(g, f, time)
  OBVIOUS
<1>e. PICK e : e = HeadSize + o
  OBVIOUS
<1>w. PICK w : w = FlashWrite(g, b, e, RecBytes(f, time))
  OBVIOUS
<1>f. f \in Files /\ time \in Nat
  BY DEF Only
<1>s. /\ HeadSize \in Nat /\ BlockSize \in Nat /\ TagSize \in Nat /\ TagSize > 0 /\ RecSize \in Nat
      /\ HeadSize > 0 /\ HeadSize < BlockSize /\ Stride \in Nat
      /\ HeadSize + Stride + TagSize <= BlockSize /\ HeadSize + Stride + RecSize <= BlockSize
  BY Sizes, StrideIs
<1>0. t = IF b = NoBlock THEN [a EXCEPT !.wild = TRUE] ELSE [w EXCEPT !.ret = 0]
  BY <1>a, <1>b, <1>u, <1>h, <1>r, <1>y, <1>v, <1>g, <1>o, <1>e, <1>w, Zenon DEF InitRecord, InitHead
<1>1. PICK k, x : Sound(n, s, a) /\ Laid(a, f, k, x, HeadSize) /\ Grew(s, a, f, 0, q, k, x)
  BY <1>a, AllocLaid
<1>2. k \in Nat /\ k > 0 /\ x[k] = b /\ b \in Blocks /\ b # NoBlock
  BY <1>1, <1>b, <1>s, Sizes DEF Grew, Blocks, NoBlock
<1>k. k = 1
  <2>1. s.file[f].total_block = 0
    BY DEF Laid, Ring
  <2>2. Allocated(s, a, f, b)
    BY <1>a, <1>b, <1>f, <1>2, AllocBlockIs
  <2>3. PICK c, d : Freed(s, c, f) /\ Grown(c, d, f, b) /\ SameState(d, a)
    BY <2>2, Zenon DEF Allocated
  <2>4. c = s
    BY <2>1, <2>3, Zenon DEF Freed, Full
  <2>5. a.file[f].total_block = s.file[f].total_block + 1
    BY <2>3, <2>4 DEF Grown, Chained, SameState
  <2>6. a.file[f].total_block = k
    BY <1>1, Zenon DEF Laid, Ring
  <2> QED
    BY <2>1, <2>5, <2>6
<1>3. Sound(n, a, h) /\ Laid(h, f, k, x, HeadSize)
  <2>1. a \in States(n) /\ Synced(a) /\ u = InitHead(a, x[k]) /\ h = BlockWriteHead(u, x[k])
    BY <1>1, <1>2, <1>u, <1>h DEF Sound
  <2> QED
    BY <1>1, <1>2, <1>s, <2>1, HeadLaid
<1>4. At(b, k, x, HeadSize, HeadSize)
  BY <1>2, <1>s DEF At
<1>5. r \in 0 .. n /\ r <= time /\ time - r \in 0 .. Interval - 1
  BY <1>r, <1>f, RoundDown
<1>6. y \in Seq(ByteSet(n)) /\ TagSize = Len(y) /\ \A i \in 1 .. TagSize : y[i] # Garbled
  BY <1>y, <1>5, <1>f, BytesAre
<1>7. Sound(n, h, v) /\ Stored(h, v, f, b, HeadSize + TagSize, TagSize)
  <2>1. h \in States(n) /\ Synced(h)
    BY <1>3 DEF Sound
  <2>2. HeadSize <= HeadSize /\ HeadSize + TagSize <= BlockSize
        /\ HeadSize + HeadSize + TagSize <= 2 * BlockSize
    BY <1>s
  <2>3. Written(n, h, v, f, b, k, x, HeadSize, TagSize)
    BY <1>3, <1>4, <1>6, <1>s, <1>v, <2>1, <2>2, FlashWriteLaid
  <2> QED
    BY <1>s, <2>3 DEF Written
<1>8. /\ Sound(n, v, g) /\ Behind(g, f, HeadSize + TagSize) /\ g.file[f].tag_time = r
      /\ g.file[f].tag_offset = HeadSize /\ g.file[f].tag_block = b
  <2>1. v \in States(n) /\ Synced(v)
    BY <1>7 DEF Sound
  <2>e. PICK z : z = HeadSize + TagSize
    OBVIOUS
  <2>2. /\ Sound(n, v, g) /\ Behind(g, f, g.file[f].tag_offset + TagSize)
        /\ g.file[f].tag_time = r
        /\ z <= BlockSize => g.file[f].tag_offset + TagSize = z /\ g.file[f].tag_block = b
    BY <1>5, <1>7, <1>g, <2>1, <2>e, StoreTagLaid
  <2>3. g.file[f].tag_offset + TagSize = HeadSize + TagSize /\ g.file[f].tag_block = b
    BY <1>s, <2>e, <2>2
  <2>4. g.file[f].tag_offset \in HeadSize .. BlockSize - 1
    BY <2>2 DEF Behind
  <2>5. g.file[f].tag_offset = HeadSize
    BY <1>s, <2>3, <2>4
  <2> QED
    BY <2>2, <2>3, <2>5
<1>9. g \in States(n) /\ Synced(g)
  BY <1>8 DEF Sound
<1>10. o \in Nat /\ o >= TagSize /\ o < Stride /\ o + RecSize <= Stride
  <2>1. PICK d \in Nat, j \in Nat : d = time - r /\ j = d \div Unit /\ Slot(o, j)
    BY <1>5, <1>8, <1>9, <1>f, <1>o, DataOffsetSlot
  <2>2. j < Interval \div Unit
    <3>K. PICK K \in Nat : K = Interval \div Unit
      BY StrideIs
    <3>m. PICK m : m = d % Unit
      OBVIOUS
    <3>1. Unit \in Nat \ {0} /\ d \in Int /\ Unit \in Nat /\ Interval \in Nat /\ Unit * K = Interval
      BY <3>K, Sizes, StrideIs
    <3>2. DivMod(d, Unit, j, m)
      BY <2>1, <3>m, <3>1, DivModIs, Zenon
    <3>3. m \in 0 .. Unit - 1 /\ d = Unit * j + m
      BY <3>2 DEF DivMod
    <3>4. d < Interval
      BY <1>5, <2>1, <3>1
    <3>5. SUFFICES ASSUME K <= j PROVE FALSE
      BY <3>K
    <3>p. PICK p : p = K * Unit
      OBVIOUS
    <3>q. PICK z : z = j * Unit
      OBVIOUS
    <3>6. p <= z /\ p \in Int /\ z \in Int
      <4>1. K \in Int /\ j \in Int
        OBVIOUS
      <4> QED
        BY <3>1, <3>5, <3>p, <3>q, <4>1, TimesMonotone
    <3>7. p = Interval /\ d = z + m
      BY <3>1, <3>3, <3>p, <3>q
    <3> QED
      BY <3>1, <3>3, <3>4, <3>6, <3>7
  <2>3. o \in Int /\ o < Stride /\ o + RecSize <= Stride /\ o >= TagSize
    BY <2>1, <2>2, SlotFits
  <2> QED
    BY <1>s, <2>3
<1>11. /\ Sound(n, g, w) /\ Behind(w, f, HeadSize + o + RecSize)
       /\ SameTag(g.file[f], w.file[f])
  <2>1. /\ e \in Nat /\ HeadSize + TagSize <= e /\ e + RecSize <= g.file[f].tag_offset + Stride
        /\ HeadSize + TagSize + RecSize <= BlockSize /\ ~(e > BlockSize)
        /\ e + RecSize = HeadSize + o + RecSize
    BY <1>s, <1>e, <1>8, <1>10
  <2>e. PICK z : z = HeadSize + TagSize
    OBVIOUS
  <2>2. w = FlashWrite(g, g.file[f].tag_block, e, RecBytes(f, time))
    BY <1>8, <1>w
  <2>3. Recorded(n, g, w, f, z, e)
    BY <1>8, <1>9, <2>1, <2>2, <2>e, RecLaid
  <2> QED
    BY <2>1, <2>3 DEF Recorded
<1>12. t = [w EXCEPT !.ret = 0] /\ Sound(n, w, t) /\ SameState(w, t)
  <2>1. t = [w EXCEPT !.ret = 0]
    BY <1>0, <1>2
  <2> QED
    BY <1>11, <2>1, SoundSet DEF Sound
<1>13. Sound(n, s, h)
  BY <1>1, <1>3, SoundThen
<1>14. Laid(h, f, 1, x, HeadSize) /\ x[1] = b
  BY <1>2, <1>3, <1>k
<1>15. w = FlashWrite(g, b, HeadSize + o, RecBytes(f, time)) /\ v = FlashWrite(h, b, HeadSize, TagBytes(r, Stride))
  BY <1>w, <1>e, <1>v, <1>y
<1>16. InitSteps(n, s, t, f, time, x, b, r, o, h, v, g, w)
  BY <1>2, <1>5, <1>7, <1>8, <1>10, <1>11, <1>12, <1>13, <1>14, <1>15, <1>r, <1>g, <1>o, Zenon DEF InitSteps
<1> QED
  BY <1>16, Zenon

\* flashfile_init_record takes a block, writes tag and record, and nothing overlaps.
LEMMA FirstLaid ==
  ASSUME NEW n \in Nat, NEW s \in States(n), Synced(s), NEW f, Only(f), NEW q, NEW w0,
         Laid(s, f, 0, q, w0), NEW time \in 0 .. n, NEW t, t = InitRecord(s, f, time)
  PROVE  First(n, s, t, f, time)
<1>0. PICK x, b, r, o, h, v, g, w : InitSteps(n, s, t, f, time, x, b, r, o, h, v, g, w)
  BY InitStepsAre
<1>1. /\ Sound(n, s, h) /\ Sound(n, h, v) /\ Sound(n, v, g) /\ Sound(n, g, w) /\ Sound(n, w, t)
      /\ r = (time \div Interval) * Interval
      /\ g.file[f].tag_time = r /\ g.file[f].tag_offset = HeadSize
      /\ o = DataOffset(g, f, time) /\ o < Stride
      /\ Behind(w, f, HeadSize + o + RecSize) /\ SameTag(g.file[f], w.file[f]) /\ SameState(w, t)
  BY <1>0, Zenon DEF InitSteps
<1>2. Sound(n, s, t)
  <2>1. Sound(n, s, v)
    BY <1>1, SoundThen
  <2>2. Sound(n, s, g)
    BY <1>1, <2>1, SoundThen
  <2>3. Sound(n, s, w)
    BY <1>1, <2>2, SoundThen
  <2> QED
    BY <1>1, <2>3, SoundThen
<1>3. /\ t.file = w.file /\ t.file[f].tag_time = r /\ t.file[f].tag_offset = HeadSize
      /\ Behind(t, f, HeadSize + o + RecSize)
  BY <1>1, BehindSame DEF SameTag, SameState
<1>4. DataOffset(t, f, time) = o
  BY <1>1, <1>3, Zenon DEF DataOffset
<1> QED
  BY <1>1, <1>2, <1>3, <1>4 DEF First

\* A record less than an interval behind its tag lies before the next one.
LEMMA SameInterval ==
  ASSUME NEW n \in Nat, NEW s \in States(n), NEW f \in Files, NEW t \in Nat,
         s.file[f].tag_time <= t, t - s.file[f].tag_time < Interval,
         NEW o, o = DataOffset(s, f, t)
  PROVE  o < Stride
<1>1. PICK d \in Nat, j \in Nat : d = t - s.file[f].tag_time /\ j = d \div Unit /\ Slot(o, j)
  BY DataOffsetSlot
<1>2. j < Interval \div Unit
  <2>K. PICK K \in Nat : K = Interval \div Unit
    BY StrideIs
  <2>m. PICK m : m = d % Unit
    OBVIOUS
  <2>1. Unit \in Nat \ {0} /\ d \in Int /\ Unit \in Nat /\ Interval \in Nat /\ Unit * K = Interval
    BY <2>K, Sizes, StrideIs
  <2>2. DivMod(d, Unit, j, m)
    BY <1>1, <2>m, <2>1, DivModIs, Zenon
  <2>3. m \in 0 .. Unit - 1 /\ d = Unit * j + m
    BY <2>2 DEF DivMod
  <2>4. d < Interval
    BY <1>1, <2>1
  <2>5. SUFFICES ASSUME K <= j PROVE FALSE
    BY <2>K
  <2>p. PICK p : p = K * Unit
    OBVIOUS
  <2>q. PICK z : z = j * Unit
    OBVIOUS
  <2>6. p <= z /\ p \in Int /\ z \in Int
    <3>1. K \in Int /\ j \in Int
      OBVIOUS
    <3> QED
      BY <2>1, <2>5, <2>p, <2>q, <3>1, TimesMonotone
  <2>7. p = Interval /\ d = z + m
    BY <2>1, <2>3, <2>p, <2>q
  <2> QED
    BY <2>1, <2>3, <2>4, <2>6, <2>7
<1> QED
  BY <1>1, <1>2, SlotFits

\* The interval of a second is that of the next one, unless the next one
\* begins an interval.
LEMMA NextSecond ==
  ASSUME NEW t \in Nat, NEW n \in Nat, n = t + 1,
         NEW r, r = (t \div Interval) * Interval, NEW q, q = (n \div Interval) * Interval
  PROVE  /\ n % Interval # 0 => q = r
         /\ n % Interval = 0 => q = n /\ n - r = Interval
<1>0. Interval \in Nat /\ Interval > 0 /\ Interval \in Nat \ {0} /\ t \in Int /\ n \in Int
  BY Sizes
<1>k. PICK k : k = t \div Interval
  OBVIOUS
<1>a. PICK a : a = t % Interval
  OBVIOUS
<1>l. PICK l : l = n \div Interval
  OBVIOUS
<1>b. PICK b : b = n % Interval
  OBVIOUS
<1>1. DivMod(t, Interval, k, a) /\ DivMod(n, Interval, l, b)
  BY <1>0, <1>k, <1>a, <1>l, <1>b, DivModIs, Zenon
<1>2. /\ k \in Nat /\ l \in Nat /\ a \in 0 .. Interval - 1 /\ b \in 0 .. Interval - 1
      /\ t = Interval * k + a /\ n = Interval * l + b
  BY <1>1 DEF DivMod
<1>3. r = k * Interval /\ q = l * Interval /\ t = r + a /\ n = q + b /\ r \in Int /\ q \in Int
  BY <1>0, <1>2, <1>k, <1>l
<1>4. k < l => r + Interval <= q
  <2>x. PICK x : x = (k + 1) * Interval
    OBVIOUS
  <2>1. x = r + Interval
    BY <1>0, <1>2, <1>3, <2>x
  <2>2. k < l => x <= q
    <3>1. k + 1 \in Int /\ l \in Int /\ (k < l => k + 1 <= l)
      BY <1>2
    <3> QED
      BY <1>0, <1>3, <2>x, <3>1, TimesMonotone
  <2> QED
    BY <2>1, <2>2
<1>5. l < k => q + Interval <= r
  <2>x. PICK x : x = (l + 1) * Interval
    OBVIOUS
  <2>1. x = q + Interval
    BY <1>0, <1>2, <1>3, <2>x
  <2>2. l < k => x <= r
    <3>1. l + 1 \in Int /\ k \in Int /\ (l < k => l + 1 <= k)
      BY <1>2
    <3> QED
      BY <1>0, <1>3, <2>x, <3>1, TimesMonotone
  <2> QED
    BY <2>1, <2>2
<1>6. ~(l < k)
  BY <1>0, <1>2, <1>3, <1>5
<1>7. CASE k < l
  <2>1. b = 0 /\ q = n /\ n - r = Interval
    BY <1>0, <1>2, <1>3, <1>4, <1>7
  <2> QED
    BY <1>b, <2>1
<1>8. CASE k = l
  <2>1. q = r /\ b # 0
    BY <1>0, <1>2, <1>3, <1>8
  <2> QED
    BY <1>b, <2>1
<1> QED
  BY <1>2, <1>6, <1>7, <1>8

\* With a unit of one second a slot is a second.
LEMMA SecondSlot ==
  ASSUME Unit = 1, NEW n \in Nat, NEW s \in States(n), NEW f \in Files, NEW t \in Nat,
         s.file[f].tag_time <= t, NEW o, o = DataOffset(s, f, t), NEW v, v = DataOffset(s, f, t + 1)
  PROVE  v = o + RecSize /\ (t + 1 - s.file[f].tag_time = Interval => v = Stride)
<1>0. RecSize \in Nat /\ TagSize \in Nat /\ Interval \in Nat
  BY Sizes
<1>1. PICK x \in Nat, k \in Nat : x = t - s.file[f].tag_time /\ k = x \div Unit /\ Slot(o, k)
  BY DataOffsetSlot
<1>2. t + 1 \in Nat /\ s.file[f].tag_time \in Nat /\ s.file[f].tag_time <= t + 1
  <2>1. s.file[f] \in DescSet(n)
    BY DEF States
  <2>2. s.file[f].tag_time \in Nat
    BY <2>1 DEF DescSet
  <2> QED
    BY <2>2
<1>3. PICK y \in Nat, l \in Nat : y = t + 1 - s.file[f].tag_time /\ l = y \div Unit /\ Slot(v, l)
  BY <1>2, DataOffsetSlot
<1>4. k = x /\ l = y /\ y = x + 1
  BY <1>1, <1>2, <1>3
<1>5. v = o + RecSize
  <2>1. o = TagSize + k * RecSize /\ v = TagSize + (k + 1) * RecSize
    BY <1>1, <1>3, <1>4 DEF Slot
  <2>2. (k + 1) * RecSize = k * RecSize + RecSize /\ k * RecSize \in Int
    BY <1>0
  <2> QED
    BY <1>0, <2>1, <2>2
<1>6. y = Interval => v = Stride
  <2>1. Interval \div Unit = Interval
    BY <1>0
  <2>2. v = TagSize + y * RecSize
    BY <1>3, <1>4 DEF Slot
  <2>3. Stride = TagSize + (Interval \div Unit) * RecSize
    BY StrideIs
  <2> QED
    BY <2>1, <2>2, <2>3
<1> QED
  BY <1>3, <1>5, <1>6

-----------------------------------------------------------------------------
(* A file filled up to a time.                                             *)

\* A file at time t, x bytes behind the slot of that time: its bytes end before
\* that place and before the next tag, and with a record every second (sec) they
\* end at that place, behind the tag of the running interval.
Filled(s, f, t, x, sec) ==
  \E e : /\ Behind(s, f, e)
         /\ e <= s.file[f].tag_offset + Stride
         /\ e <= s.file[f].tag_offset + DataOffset(s, f, t) + x
         /\ sec => /\ s.file[f].tag_time = (t \div Interval) * Interval
                   /\ e = s.file[f].tag_offset + DataOffset(s, f, t) + x

\* A file with a last byte has a block and is within its limit.
LEMMA BehindIs ==
  ASSUME NEW s, NEW f, Only(f), NEW e, Behind(s, f, e)
  PROVE  /\ e \in Nat /\ s.file[f].tag_offset \in Nat /\ s.file[f].total_block \in Nat \ {0}
         /\ ~s.wild /\ HeadsFit(s, f) /\ f \in Files
<1>1. PICK m, q, w : Laid(s, f, m, q, w) /\ At(s.file[f].tag_block, m, q, w, e)
  BY DEF Behind
<1>2. s.file[f].tag_offset \in Nat
  <2>1. s.file[f].tag_offset \in HeadSize .. BlockSize - 1
    BY DEF Behind
  <2> QED
    BY <2>1, Sizes
<1>3. e \in Nat /\ m \in Nat \ {0}
  BY <1>1, Sizes DEF At
<1>4. s.file[f].total_block = m /\ ~s.wild /\ HeadsFit(s, f)
  BY <1>1 DEF Laid, Ring
<1> QED
  BY <1>2, <1>3, <1>4 DEF Only

\* The first record.
LEMMA FirstFilled ==
  ASSUME NEW n \in Nat, NEW s, NEW f, Only(f), NEW t, First(n, s, t, f, n), NEW sec
  PROVE  Filled(t, f, n, RecSize, sec)
<1>1. /\ Behind(t, f, t.file[f].tag_offset + DataOffset(t, f, n) + RecSize)
      /\ t.file[f].tag_time = (n \div Interval) * Interval
      /\ DataOffset(t, f, n) < Stride /\ t \in States(n)
  BY DEF First, Sound
<1>o. PICK o : o = DataOffset(t, f, n)
  OBVIOUS
<1>2. f \in Files
  BY DEF Only
<1>3. t.file[f].tag_time <= n
  <2>r. PICK r : r = (n \div Interval) * Interval
    OBVIOUS
  <2>1. r \in 0 .. n
    BY <2>r, RoundDown
  <2> QED
    BY <1>1, <2>r, <2>1
<1>4. o \in Int /\ o + RecSize <= Stride
  <2>1. PICK x \in Nat, k \in Nat : x = n - t.file[f].tag_time /\ k = x \div Unit /\ Slot(o, k)
    BY <1>1, <1>2, <1>3, <1>o, DataOffsetSlot
  <2> QED
    BY <1>1, <1>o, <2>1, SlotFits
<1>e. PICK e : e = t.file[f].tag_offset + DataOffset(t, f, n) + RecSize
  OBVIOUS
<1>5. Behind(t, f, e)
  BY <1>1, <1>e
<1>6. e \in Nat /\ t.file[f].tag_offset \in Nat
  BY <1>5, BehindIs
<1>7. e <= t.file[f].tag_offset + Stride
  BY <1>4, <1>6, <1>e, <1>o, Sizes, StrideIs
<1>8. e <= t.file[f].tag_offset + DataOffset(t, f, n) + RecSize
  BY <1>6, <1>e
<1> QED
  BY <1>1, <1>5, <1>7, <1>8, <1>e DEF Filled

\* flashfile_append_record up to the loop of append_data, d seconds after the
\* last record.
LEMMA EnterFilled ==
  ASSUME NEW n \in Nat, NEW s \in States(n), Synced(s), NEW f, Only(f), NEW sec \in BOOLEAN,
         NEW t0 \in Nat, s.file[f].tag_time <= t0, Filled(s, f, t0, RecSize, sec),
         NEW d \in Nat, d >= Unit, sec => d = 1, n = t0 + d, NEW t, t = Enter(s, f, n)
  PROVE  Sound(n, s, t) /\ Filled(t, f, n, 0, sec)
<1>0. /\ RecSize \in Nat /\ TagSize \in Nat /\ Stride \in Nat /\ TagSize <= Stride
      /\ Interval \in Nat /\ Interval > 0 /\ Unit \in Nat /\ Unit > 0 /\ f \in Files
  <2>1. (Interval \div Unit) * RecSize \in Nat
    BY StrideIs, Sizes, TimesNat
  <2> QED
    BY <2>1, Sizes, StrideIs DEF Only
<1>t. s.file[f].tag_time \in Nat
  <2>1. s.file[f] \in DescSet(n)
    BY <1>0 DEF States
  <2> QED
    BY <2>1 DEF DescSet
<1>p. PICK p : p = s.file[f].tag_offset
  OBVIOUS
<1>o. PICK o : o = DataOffset(s, f, t0)
  OBVIOUS
<1>v. PICK v : v = DataOffset(s, f, n)
  OBVIOUS
<1>1. PICK e : /\ Behind(s, f, e) /\ e <= p + Stride /\ e <= p + o + RecSize
               /\ sec => s.file[f].tag_time = (t0 \div Interval) * Interval /\ e = p + o + RecSize
  BY <1>p, <1>o, Zenon DEF Filled
<1>2. e \in Nat /\ p \in Nat /\ s.file[f].total_block # 0
  BY <1>1, <1>p, BehindIs
<1>3. Sound(n, s, t)
  BY <1>0, EnterSound
<1>4. o + RecSize <= v /\ o \in Int /\ v \in Int
  <2>1. o + RecSize <= v
    BY <1>0, <1>o, <1>v, UnitLater
  <2>2. o \in Int
    BY <1>0, <1>o, DataOffsetIs
  <2>3. v \in Int
    BY <1>0, <1>v, DataOffsetIs
  <2> QED
    BY <2>1, <2>2, <2>3
<1>5. sec => /\ n = t0 + 1 /\ v = o + RecSize
             /\ n - s.file[f].tag_time = Interval => v = Stride
  <2> SUFFICES ASSUME sec PROVE /\ n = t0 + 1 /\ v = o + RecSize
                                /\ n - s.file[f].tag_time = Interval => v = Stride
    OBVIOUS
  <2>1. Unit = 1 /\ n = t0 + 1
    BY <1>0
  <2>2. v = DataOffset(s, f, t0 + 1)
    BY <1>v, <2>1
  <2>3. v = o + RecSize /\ (t0 + 1 - s.file[f].tag_time = Interval => v = Stride)
    BY <1>0, <1>o, <2>1, <2>2, SecondSlot
  <2> QED
    BY <1>t, <2>1, <2>3
<1>q. PICK q : q = (n \div Interval) * Interval
  OBVIOUS
<1>6. sec => /\ n % Interval # 0 => q = s.file[f].tag_time
             /\ n % Interval = 0 => q = n /\ n - s.file[f].tag_time = Interval
  <2> SUFFICES ASSUME sec
               PROVE  /\ n % Interval # 0 => q = s.file[f].tag_time
                      /\ n % Interval = 0 => q = n /\ n - s.file[f].tag_time = Interval
    OBVIOUS
  <2>1. n = t0 + 1 /\ s.file[f].tag_time = (t0 \div Interval) * Interval
    BY <1>1, <1>5
  <2> QED
    BY <1>q, <2>1, NextSecond
<1>7. CASE n % Interval # 0
  <2>1. t = s
    BY <1>2, <1>7, Zenon DEF Enter
  <2>2. /\ e <= p + v + 0
        /\ sec => e = p + v + 0 /\ s.file[f].tag_time = q
    BY <1>0, <1>1, <1>2, <1>4, <1>5, <1>6, <1>7
  <2>3. Filled(s, f, n, 0, sec)
    BY <1>1, <1>p, <1>v, <1>q, <2>2, Zenon DEF Filled
  <2> QED
    BY <1>3, <2>1, <2>3
<1>8. CASE n % Interval = 0
  <2>1. t = AppendTimeTag(s, f, n)
    BY <1>2, <1>8, Zenon DEF Enter
  <2>2. n \in 0 .. n /\ e <= s.file[f].tag_offset + Stride
    BY <1>1, <1>p
  <2>3. Tagged(n, s, t, f, n, e)
    BY <1>1, <2>1, <2>2, TagLaid
  <2>4. CASE Behind(t, f, t.file[f].tag_offset + TagSize) /\ t.file[f].tag_time = n
    <3>o. PICK x : x = DataOffset(t, f, n)
      OBVIOUS
    <3>1. x = TagSize
      <4>1. t \in States(n)
        BY <1>3, Zenon DEF Sound
      <4>2. f \in Files /\ t.file[f].tag_time = n
        BY <1>0, <2>4, Zenon
      <4> QED
        BY <3>o, <4>1, <4>2, FirstSlot, Zenon
    <3>z. PICK z : z = t.file[f].tag_offset + TagSize
      OBVIOUS
    <3>2. z \in Nat /\ t.file[f].tag_offset \in Nat
      BY <2>4, <3>z, BehindIs
    <3>3. /\ z <= t.file[f].tag_offset + Stride /\ z = t.file[f].tag_offset + x + 0
          /\ z <= t.file[f].tag_offset + x + 0
      BY <1>0, <3>1, <3>2, <3>z
    <3>4. sec => t.file[f].tag_time = q
      BY <1>6, <1>8, <2>4
    <3>5. Behind(t, f, z)
      BY <2>4, <3>z
    <3>6. Filled(t, f, n, 0, sec)
      BY <1>q, <3>3, <3>4, <3>5, <3>o, Zenon DEF Filled
    <3> QED
      BY <1>3, <3>6
  <2>5. CASE SameState(s, t) /\ e <= BlockSize /\ p + Stride > BlockSize
    <3>1. ~sec
      <4> SUFFICES ASSUME sec PROVE FALSE
        OBVIOUS
      <4>1. e = p + Stride
        BY <1>0, <1>1, <1>2, <1>4, <1>5, <1>6, <1>8
      <4> QED
        BY <1>0, <1>2, <2>5, <4>1, Sizes
    <3>2. Behind(t, f, e) /\ t.file = s.file
      BY <1>1, <2>5, BehindSame DEF SameState
    <3>3. DataOffset(t, f, n) = v /\ t.file[f].tag_offset = p
      BY <1>p, <1>v, <3>2, Zenon DEF DataOffset
    <3>4. e <= p + v + 0
      BY <1>0, <1>1, <1>2, <1>4
    <3>5. Filled(t, f, n, 0, sec)
      BY <1>1, <3>1, <3>2, <3>3, <3>4, Zenon DEF Filled
    <3> QED
      BY <1>3, <3>5
  <2> QED
    BY <2>3, <2>4, <2>5, <1>p DEF Tagged
<1> QED
  BY <1>7, <1>8

\* One round of the loop of flashfile_append_data, which a record every second
\* never needs.
LEMMA LoopFilled ==
  ASSUME NEW n \in Nat, NEW s \in States(n), Synced(s), NEW f, Only(f), NEW sec \in BOOLEAN,
         Filled(s, f, n, 0, sec), NeedsTag(s, f, n), NEW t, t = LoopTag(s, f, n)
  PROVE  Sound(n, s, t) /\ Filled(t, f, n, 0, sec) /\ ~sec
<1>0. f \in Files /\ TagSize \in Nat /\ Stride \in Nat /\ Interval \in Nat
      /\ TagSize <= Stride
  <2>1. (Interval \div Unit) * RecSize \in Nat
    BY StrideIs, Sizes, TimesNat
  <2> QED
    BY <2>1, Sizes, StrideIs DEF Only
<1>r. PICK r : r = (n \div Interval) * Interval
  OBVIOUS
<1>1. r \in 0 .. n /\ n - r \in 0 .. Interval - 1
  BY <1>r, RoundDown
<1>v. PICK v : v = DataOffset(s, f, n)
  OBVIOUS
<1>2. ~(v < Stride) /\ v \in Int
  <2>1. v \in Int
    BY <1>0, <1>v, DataOffsetIs
  <2> QED
    BY <1>0, <1>v, <2>1 DEF NeedsTag
<1>3. ~sec
  <2> SUFFICES ASSUME sec PROVE FALSE
    OBVIOUS
  <2>1. s.file[f].tag_time = r
    BY <1>r, Zenon DEF Filled
  <2>2. s.file[f].tag_time <= n /\ n - s.file[f].tag_time < Interval
    BY <1>0, <1>1, <2>1
  <2>3. v < Stride
    BY <1>0, <1>v, <2>2, SameInterval
  <2> QED
    BY <1>2, <2>3
<1>4. PICK e : /\ Behind(s, f, e) /\ e <= s.file[f].tag_offset + Stride
               /\ e <= s.file[f].tag_offset + DataOffset(s, f, n) + 0
  BY Zenon DEF Filled
<1>5. Sound(n, s, t)
  BY <1>0, LoopTagSound
<1>6. Tagged(n, s, t, f, r, e)
  <2>1. t = AppendTimeTag(s, f, r)
    BY <1>r DEF LoopTag
  <2> QED
    BY <1>1, <1>4, <2>1, TagLaid
<1>7. CASE Behind(t, f, t.file[f].tag_offset + TagSize) /\ t.file[f].tag_time = r
  <2>o. PICK x : x = DataOffset(t, f, n)
    OBVIOUS
  <2>1. x \in Int /\ x >= TagSize
    <3>1. t.file[f].tag_time <= n
      BY <1>1, <1>7
    <3>2. PICK y \in Nat, k \in Nat : y = n - t.file[f].tag_time /\ k = y \div Unit /\ Slot(x, k)
      BY <1>0, <1>5, <2>o, <3>1, DataOffsetSlot DEF Sound
    <3> QED
      BY <3>2, SlotFits
  <2>z. PICK z : z = t.file[f].tag_offset + TagSize
    OBVIOUS
  <2>2. z \in Nat /\ t.file[f].tag_offset \in Nat
    BY <1>7, <2>z, BehindIs
  <2>3. z <= t.file[f].tag_offset + Stride /\ z <= t.file[f].tag_offset + x + 0
    BY <1>0, <2>1, <2>2, <2>z
  <2>4. Behind(t, f, z)
    BY <1>7, <2>z
  <2>5. Filled(t, f, n, 0, sec)
    BY <1>3, <2>3, <2>4, <2>o, Zenon DEF Filled
  <2> QED
    BY <1>3, <1>5, <2>5
<1>8. CASE SameState(s, t)
  <2>1. Behind(t, f, e) /\ t.file = s.file
    BY <1>4, <1>8, BehindSame DEF SameState
  <2>2. DataOffset(t, f, n) = DataOffset(s, f, n)
    BY <2>1, Zenon DEF DataOffset
  <2>3. Filled(t, f, n, 0, sec)
    BY <1>3, <1>4, <2>1, <2>2, Zenon DEF Filled
  <2> QED
    BY <1>3, <1>5, <2>3
<1> QED
  BY <1>6, <1>7, <1>8 DEF Tagged

\* The write of the record that ends the call.
LEMMA WriteFilled ==
  ASSUME NEW n \in Nat, NEW s \in States(n), Synced(s), NEW f, Only(f), NEW sec \in BOOLEAN,
         Filled(s, f, n, 0, sec), ~NeedsTag(s, f, n), NEW t, t = WriteRecord(s, f, n)
  PROVE  Sound(n, s, t) /\ Filled(t, f, n, RecSize, sec)
<1>0. f \in Files /\ RecSize \in Nat /\ Stride \in Nat /\ TagSize \in Nat /\ BlockSize \in Nat
  BY Sizes, StrideIs DEF Only
<1>p. PICK p : p = s.file[f].tag_offset
  OBVIOUS
<1>v. PICK v : v = DataOffset(s, f, n)
  OBVIOUS
<1>z. PICK z : z = p + v
  OBVIOUS
<1>1. PICK e : /\ Behind(s, f, e) /\ e <= p + Stride /\ e <= p + v + 0
               /\ sec => s.file[f].tag_time = (n \div Interval) * Interval /\ e = p + v + 0
  BY <1>p, <1>v, Zenon DEF Filled
<1>2. e \in Nat /\ p \in Nat
  BY <1>1, <1>p, BehindIs
<1>3. v \in Nat /\ v + RecSize <= Stride
  <2>1. s.file[f].tag_time \in 0 .. n
    <3>1. s.file[f] \in DescSet(n)
      BY <1>0 DEF States
    <3> QED
      BY <3>1 DEF DescSet
  <2>2. PICK x \in Nat, k \in Nat : x = n - s.file[f].tag_time /\ k = x \div Unit /\ Slot(v, k)
    BY <1>0, <1>v, <2>1, DataOffsetSlot
  <2>3. v \in Int /\ (v < Stride => v + RecSize <= Stride) /\ v >= TagSize
    BY <2>2, SlotFits
  <2>4. v < Stride
    BY <1>0, <1>v, <2>3 DEF NeedsTag
  <2> QED
    BY <1>0, <2>3, <2>4
<1>4. z \in Nat /\ e <= z /\ z + RecSize <= p + Stride
  BY <1>0, <1>1, <1>2, <1>3, <1>z
<1>5. t = FlashWrite(s, s.file[f].tag_block, z, RecBytes(f, n))
  BY <1>p, <1>v, <1>z, Zenon DEF WriteRecord
<1>6. Recorded(n, s, t, f, e, z)
  <2>1. n \in 0 .. n /\ z + RecSize <= s.file[f].tag_offset + Stride
    BY <1>4, <1>p
  <2> QED
    BY <1>1, <1>4, <1>5, <2>1, RecLaid
<1>7. CASE Behind(t, f, z + RecSize) /\ SameTag(s.file[f], t.file[f])
  <2>1. t.file[f].tag_offset = p /\ t.file[f].tag_time = s.file[f].tag_time
    BY <1>7, <1>p DEF SameTag
  <2>2. DataOffset(t, f, n) = v
    BY <1>v, <2>1, Zenon DEF DataOffset
  <2>3. z + RecSize = p + v + RecSize /\ z + RecSize <= p + v + RecSize
    BY <1>0, <1>2, <1>3, <1>4, <1>z
  <2>4. Filled(t, f, n, RecSize, sec)
    BY <1>1, <1>4, <1>7, <2>1, <2>2, <2>3, Zenon DEF Filled
  <2> QED
    BY <1>6, <2>4 DEF Recorded
<1>8. CASE SameState(s, t) /\ e <= BlockSize /\ z > BlockSize
  <2>1. Behind(t, f, e) /\ t.file = s.file
    BY <1>1, <1>8, BehindSame DEF SameState
  <2>2. DataOffset(t, f, n) = v /\ t.file[f].tag_offset = p
    BY <1>p, <1>v, <2>1, Zenon DEF DataOffset
  <2>3. ~sec /\ e <= p + v + RecSize
    BY <1>0, <1>1, <1>2, <1>3, <1>z, <1>8
  <2>4. Filled(t, f, n, RecSize, sec)
    BY <1>1, <2>1, <2>2, <2>3, Zenon DEF Filled
  <2> QED
    BY <1>6, <2>4 DEF Recorded
<1> QED
  BY <1>6, <1>7, <1>8 DEF Recorded

-----------------------------------------------------------------------------
(* The invariant of a file.                                                *)

\* OneFile, in the form the lemmas use.
LEMMA OnlyIs ==
  ASSUME OneFile, NEW f \in Files
  PROVE  Only(f)
<1>1. Files = {f} /\ BlockLimit[f] >= 2
  BY DEF OneFile
<1>2. BlockLimit[f] \in 1 .. NumBlocks - 1
  BY LimitIs
<1> QED
  BY <1>1, <1>2, Sizes DEF Only

\* How far the file is behind the slot of the last record's time.
Rested == IF call = Idle THEN RecSize ELSE 0

\* The inductive invariant, up to the first restart: a file has no block, or it
\* has a ring of blocks and its bytes end where the time of the last record says.
FileInv ==
  /\ boots \in Nat
  /\ boots = 0 => \A f \in Files : \/ call = Idle /\ \E q, w : Laid(fs, f, 0, q, w)
                                   \/ Filled(fs, f, now, Rested, EverySecond)

\* An erased flash.
LEMMA InitLaid ==
  ASSUME OneFile, Init, NEW f \in Files
  PROVE  \E q, w : Laid(fs, f, 0, q, w)
<1>F. PICK F : F = [b \in Blocks |-> ErasedBlock]
  OBVIOUS
<1>0. now \in Nat /\ boots = 0 /\ boots \in Nat /\ call = Idle /\ fs = SystemInit(F, Stride) /\ Stride \in Nat
  BY <1>F, StrideIs, Sizes DEF Init
<1>1. F \in FlashSet(now) /\ \A b \in Blocks : F[b].head = ErasedHead /\ \A o \in Body : F[b].body[o] = Erased
  <2>1. /\ ErasedBlock \in [head : HeadSet, body : BodySet(now)]
        /\ \A o \in Body : ErasedBlock.body[o] = Erased
    BY <1>0, ErasedType
  <2>2. ErasedBlock.head = ErasedHead
    BY DEF ErasedBlock
  <2> QED
    BY <1>F, <2>1, <2>2 DEF FlashSet
<1>2. \E q, w : Laid(fs, f, 0, q, w)
  <2>u. PICK u : u = Unpowered(F)
    OBVIOUS
  <2>0. Only(f)
    BY OnlyIs
  <2>1. /\ u \in States(now) /\ u.map = [b \in Blocks |-> F[b].head] /\ u.flash = F
        /\ u.wild = FALSE /\ u.fuel = -1 /\ u.chain = [b \in Blocks |-> b]
    BY <1>0, <1>1, <2>u, UnpoweredIs DEF Booted
  <2>2. fs = ScanFileBlock(u, f, Stride)
    <3>1. Files = {f}
      BY <2>0 DEF Only
    <3> QED
      BY <1>0, <1>1, <2>u, <3>1, SystemInitIs DEF Offsets
  <2>3. Scanned(u, fs, f)
    BY <1>0, <2>1, <2>2, ScanFileBlockIs DEF Offsets
  <2>4. f # NoFile
    <3>1. f \in 0 .. 14
      BY LimitIs
    <3> QED
      BY <3>1 DEF NoFile
  <2>5. /\ \A b \in Blocks : u.map[b] = ErasedHead /\ ErasedHead.file_id # f
    BY <1>1, <2>1, <2>4 DEF ErasedHead
  <2>6. /\ fs.map = u.map /\ fs.flash = F /\ ~fs.wild /\ fs.chain = u.chain
        /\ fs.file[f].start_block = 0 /\ fs.file[f].last_write_block = 0
        /\ fs.file[f].total_block = Cardinality({i \in Blocks : u.map[i].file_id = f})
    BY <2>1, <2>3, <2>5 DEF Scanned
  <2>7. Cardinality({}) = 0
    BY FS_EmptySet
  <2>8. {i \in Blocks : u.map[i].file_id = f} = {} /\ {i \in Blocks : F[i].head.file_id = f} = {}
    BY <1>1, <2>5
  <2>q. PICK q : q = [i \in 1 .. 0 |-> 0]
    OBVIOUS
  <2>9. q \in [1 .. 0 -> Blocks] /\ \A i \in 1 .. 0 : FALSE
    BY <2>q
  <2>10. \A b \in Blocks : ~Member(b, 0, q)
    BY <2>9 DEF Member
  <2>11. Ring(fs, f, 0, q)
    <3>1. 0 \in 0 .. BlockLimit[f] /\ ~(0 > 0) /\ 0 - 1 < 1
      BY <2>0 DEF Only
    <3>2. \A i \in 1 .. 0 - 1 : FALSE
      OBVIOUS
    <3>3. fs.file[f].total_block = 0
      BY <2>6, <2>7, <2>8
    <3>4. \A b \in Blocks : fs.chain[b] = b /\ fs.map[b] = ErasedHead /\ fs.map[b].file_id # f
      BY <2>1, <2>5, <2>6
    <3>5. \A i, j \in 1 .. 0 : q[i] = q[j] => i = j
      BY <2>9
    <3>6. /\ \A b \in Blocks : fs.map[b].file_id = f <=> Member(b, 0, q)
          /\ \A b \in Blocks : Member(b, 0, q) \/ fs.chain[b] = b
          /\ \A i \in 1 .. 0 - 1 : fs.chain[q[i]] = q[i + 1]
      BY <2>10, <3>2, <3>4
    <3> QED
      BY <2>6, <2>9, <3>1, <3>3, <3>4, <3>5, <3>6 DEF Ring
  <2>12. Clean(fs, 0, q, 0)
    <3>1. Erased # Garbled /\ ~(0 > 0)
      BY DEF Erased, Garbled
    <3>2. \A b \in Blocks, o \in Body : fs.flash[b].body[o] = Erased
      BY <1>1, <2>6
    <3>3. \A b \in Blocks : Member(b, 0, q) \/ \A o \in Body : fs.flash[b].body[o] = Erased
      BY <3>2
    <3>4. \A b \in Blocks, o \in Body : fs.flash[b].body[o] # Garbled
      BY <3>1, <3>2
    <3> QED
      BY <3>1, <3>3, <3>4 DEF Clean
  <2>13. HeadsFit(fs, f)
    <3>1. 0 <= BlockLimit[f]
      BY <2>0 DEF Only
    <3>2. {b \in Blocks : fs.flash[b].head.file_id = f} = {}
      BY <2>6, <2>8
    <3> QED
      BY <2>7, <3>1, <3>2 DEF HeadsFit
  <2> QED
    BY <2>11, <2>12, <2>13, Zenon DEF Laid
<1> QED
  BY <1>2

\* It has no file yet.
LEMMA FileInvInit ==
  ASSUME OneFile, Init
  PROVE  FileInv
<1>1. boots = 0 /\ boots \in Nat /\ call = Idle
  BY DEF Init
<1>2. \A f \in Files : \E q, w : Laid(fs, f, 0, q, w)
  BY InitLaid
<1> QED
  BY <1>1, <1>2, Zenon DEF FileInv

\* A file without a block, and one with some.
LEMMA FirstCall ==
  ASSUME NEW s, NEW f, NEW q, NEW w, Laid(s, f, 0, q, w)
  PROVE  s.file[f].total_block = 0
BY DEF Laid, Ring

\* A file that is filled is not empty, nor over its limit.
LEMMA LaterCall ==
  ASSUME NEW s, NEW f, Only(f), NEW t, NEW x, NEW sec, Filled(s, f, t, x, sec)
  PROVE  s.file[f].total_block # 0 /\ ~s.wild /\ HeadsFit(s, f)
<1>1. PICK e : Behind(s, f, e)
  BY DEF Filled
<1> QED
  BY <1>1, BehindIs

\* Every step keeps the invariant: flashfile_append_record by its three parts, a
\* restart because it ends the time the invariant speaks of.
LEMMA FileInvNext ==
  ASSUME OneFile, TypeInv, FileInv, [Next]_vars
  PROVE  FileInv'
<1>0. /\ use \in Uses /\ use.steps \subseteq Nat /\ now \in Nat /\ Calm(now, fs) /\ fs \in States(now)
      /\ Synced(fs) /\ boots \in Nat /\ \A d \in use.steps : d >= Unit
  BY LimitIs DEF TypeInv, Calm, FileInv, OneFile
<1>c. call.file \in Files => /\ call # Idle /\ call.time = now
                            /\ call \in [file : Files, time : {now}, round : {0, 1}]
  BY CallIs
<1>s. PICK sec \in BOOLEAN : sec = EverySecond
  BY DEF EverySecond
<1>f. \A f \in Files : Only(f)
  BY OnlyIs
<1>b. boots = 0 => \A f \in Files : \/ call = Idle /\ \E q, w : Laid(fs, f, 0, q, w)
                                    \/ Filled(fs, f, now, Rested, sec)
  BY <1>s DEF FileInv
<1>o. \A f \in Files : Files = {f}
  BY <1>f DEF Only
<1>1. ASSUME NEW f \in Files, NEW d \in use.steps, AppendRecord(f, d) PROVE FileInv'
  <2>n. PICK n : n = now + d
    OBVIOUS
  <2>1. /\ n \in Nat /\ d \in Nat /\ d >= Unit /\ now <= n /\ call = Idle /\ now' = n /\ use' = use
        /\ boots' = boots /\ fs' = Enter(fs, f, n)
        /\ call' = IF fs.file[f].total_block = 0 THEN Idle ELSE [file |-> f, time |-> n, round |-> 0]
    BY <1>0, <1>1, <2>n DEF AppendRecord
  <2>2. EverySecond' = sec
    BY <1>s, <2>1 DEF EverySecond
  <2>3. fs \in States(n) /\ Synced(fs)
    BY <1>0, <2>1, CalmLater DEF Calm
  <2>4. SUFFICES ASSUME boots = 0 PROVE Filled(fs', f, n, Rested', sec)
    BY <1>0, <1>o, <2>1, <2>2 DEF FileInv
  <2>5. CASE \E q, w : Laid(fs, f, 0, q, w)
    <3>1. PICK q, w : Laid(fs, f, 0, q, w)
      BY <2>5
    <3>2. fs.file[f].total_block = 0
      BY <3>1, FirstCall
    <3>3. fs' = InitRecord(fs, f, n) /\ Rested' = RecSize
      BY <2>1, <3>2, Zenon DEF Enter, Rested
    <3>4. First(n, fs, fs', f, n)
      <4>1. n \in 0 .. n
        BY <2>1
      <4> QED
        BY <1>f, <2>1, <2>3, <3>1, <3>3, <4>1, FirstLaid
    <3> QED
      BY <1>f, <2>1, <3>3, <3>4, FirstFilled
  <2>6. CASE Filled(fs, f, now, Rested, sec)
    <3>1. fs.file[f].total_block # 0
      BY <1>f, <2>6, LaterCall
    <3>2. call' # Idle
      <4>1. f # NoFile
        <5>1. f \in 0 .. 14
          BY LimitIs
        <5> QED
          BY <5>1 DEF NoFile
      <4>2. call'.file = f /\ Idle.file = NoFile
        BY <2>1, <3>1 DEF Idle
      <4> QED
        BY <4>1, <4>2
    <3>3. Rested = RecSize /\ Rested' = 0
      BY <2>1, <3>2 DEF Rested
    <3>4. fs.file[f].tag_time <= now
      <4>1. fs.file[f] \in DescSet(now)
        BY <1>0 DEF States
      <4> QED
        BY <1>0, <4>1 DEF DescSet
    <3>5. sec => d = 1
      BY <1>s DEF EverySecond
    <3>6. Filled(fs, f, now, RecSize, sec)
      BY <2>6, <3>3
    <3>7. Filled(fs', f, n, 0, sec)
      BY <1>0, <1>f, <2>1, <2>3, <2>n, <3>4, <3>5, <3>6, EnterFilled
    <3> QED
      BY <3>3, <3>7
  <2> QED
    BY <1>b, <2>4, <2>5, <2>6
<1>2. ASSUME InsertTag PROVE FileInv'
  <2>f. PICK f \in Files : f = call.file
    BY <1>2, <1>c DEF InsertTag
  <2>1. /\ call # Idle /\ NeedsTag(fs, f, now) /\ fs' = LoopTag(fs, f, now) /\ now' = now /\ use' = use
        /\ boots' = boots /\ call' = [call EXCEPT !.round = 1 - @]
    BY <1>2, <1>c, <2>f DEF InsertTag
  <2>2. EverySecond' = sec
    BY <1>s, <2>1 DEF EverySecond
  <2>3. SUFFICES ASSUME boots = 0 PROVE Filled(fs', f, now, Rested', sec)
    BY <1>0, <1>o, <2>1, <2>2 DEF FileInv
  <2>4. call' # Idle
    <3>1. call \in [file : Files, time : {now}, round : {0, 1}]
      BY <1>c, <2>f
    <3>2. call'.file \in Files /\ Idle.file = NoFile
      BY <2>1, <3>1 DEF Idle
    <3>3. NoFile \notin Files
      <4>1. Files \subseteq 0 .. 14
        BY LimitIs
      <4> QED
        BY <4>1 DEF NoFile
    <3> QED
      BY <3>2, <3>3
  <2>5. Rested = 0 /\ Rested' = 0
    BY <2>1, <2>4 DEF Rested
  <2>6. Filled(fs, f, now, 0, sec)
    BY <1>b, <2>1, <2>3, <2>5
  <2>7. Filled(fs', f, now, 0, sec)
    BY <1>0, <1>f, <2>1, <2>6, LoopFilled
  <2> QED
    BY <2>5, <2>7
<1>3. ASSUME WriteData PROVE FileInv'
  <2>f. PICK f \in Files : f = call.file
    BY <1>3, <1>c DEF WriteData
  <2>1. /\ call # Idle /\ ~NeedsTag(fs, f, now) /\ fs' = WriteRecord(fs, f, now) /\ now' = now
        /\ use' = use /\ boots' = boots /\ call' = Idle
    BY <1>3, <1>c, <2>f DEF WriteData
  <2>2. EverySecond' = sec
    BY <1>s, <2>1 DEF EverySecond
  <2>3. SUFFICES ASSUME boots = 0 PROVE Filled(fs', f, now, Rested', sec)
    BY <1>0, <1>o, <2>1, <2>2 DEF FileInv
  <2>5. Rested = 0 /\ Rested' = RecSize
    BY <2>1 DEF Rested
  <2>6. Filled(fs, f, now, 0, sec)
    BY <1>b, <2>1, <2>3, <2>5
  <2>7. Filled(fs', f, now, RecSize, sec)
    BY <1>0, <1>f, <2>1, <2>6, WriteFilled
  <2> QED
    BY <2>5, <2>7
<1>4. ASSUME Restart PROVE FileInv'
  <2>1. boots' = boots + 1
    BY <1>4 DEF Restart
  <2>2. boots' \in Nat /\ boots' # 0
    BY <1>0, <2>1
  <2> QED
    BY <2>2 DEF FileInv
<1>5. CASE UNCHANGED vars
  <2>1. fs' = fs /\ now' = now /\ call' = call /\ boots' = boots /\ use' = use
    BY <1>5 DEF vars
  <2>2. EverySecond' = sec /\ Rested' = Rested
    BY <1>s, <2>1 DEF EverySecond, Rested
  <2>3. boots = 0 => \A f \in Files : \/ call' = Idle /\ \E q, w : Laid(fs', f, 0, q, w)
                                      \/ Filled(fs', f, now', Rested', EverySecond')
    BY <1>b, <2>1, <2>2
  <2> QED
    BY <1>0, <2>1, <2>3 DEF FileInv
<1> QED
  BY <1>1, <1>2, <1>3, <1>4, <1>5 DEF Next

-----------------------------------------------------------------------------
(* What the invariant says.                                                *)

\* The k-th block along nextBlockChain is the k-th one of the ring.
LEMMA ChainIs ==
  ASSUME NEW f, NEW m \in Nat, m > 0, NEW q, Ring(fs, f, m, q), NEW k \in 0 .. m - 1
  PROVE  ChainBlock(f, k) = q[k + 1]
<1> DEFINE R(at) == at = [n \in 0 .. k |-> IF n = 0 THEN Desc(f).start_block ELSE fs.chain[at[n - 1]]]
           sc == CHOOSE at : R(at)
<1>1. /\ Desc(f).start_block = q[1] /\ \A i \in 1 .. m - 1 : fs.chain[q[i]] = q[i + 1]
  BY DEF Ring, Desc
<1>g. PICK g : g = [i \in 0 .. k |-> q[i + 1]]
  OBVIOUS
<1>2. R(g)
  <2>1. \A i \in 0 .. k : g[i] = IF i = 0 THEN Desc(f).start_block ELSE fs.chain[g[i - 1]]
    <3> SUFFICES ASSUME NEW i \in 0 .. k
                 PROVE  g[i] = IF i = 0 THEN Desc(f).start_block ELSE fs.chain[g[i - 1]]
      OBVIOUS
    <3>1. CASE i = 0
      BY <1>1, <1>g, <3>1
    <3>2. CASE i # 0
      <4>1. i - 1 \in 0 .. k /\ i \in 1 .. m - 1 /\ (i - 1) + 1 = i
        BY <3>2
      <4>2. g[i - 1] = q[i] /\ g[i] = q[i + 1]
        BY <1>g, <4>1
      <4> QED
        BY <1>1, <3>2, <4>1, <4>2, Zenon
    <3> QED
      BY <3>1, <3>2
  <2> QED
    BY <1>g, <2>1, Zenon
<1>3. R(sc)
  BY <1>2, Zenon
<1>4. ChainBlock(f, k) = sc[k]
  BY Zenon DEF ChainBlock
<1> HIDE DEF sc
<1>5. \A i \in 0 .. k : sc[i] = IF i = 0 THEN Desc(f).start_block ELSE fs.chain[sc[i - 1]]
  BY <1>3, Zenon
<1> HIDE DEF R
<1>S. PICK S : S = {i \in 0 .. k : sc[i] = q[i + 1]}
  OBVIOUS
<1>6. 0 \in S
  BY <1>1, <1>5, <1>S
<1>7. \A i \in 0 .. k - 1 : i \in S => i + 1 \in S
  <2> SUFFICES ASSUME NEW i \in 0 .. k - 1, i \in S PROVE i + 1 \in S
    OBVIOUS
  <2>1. i + 1 \in 0 .. k /\ i + 1 # 0 /\ (i + 1) - 1 = i /\ i + 1 \in 1 .. m - 1
    OBVIOUS
  <2>2. sc[i + 1] = fs.chain[sc[i]]
    BY <1>5, <2>1
  <2>3. sc[i] = q[i + 1]
    BY <1>S
  <2>4. fs.chain[q[i + 1]] = q[(i + 1) + 1]
    BY <1>1, <2>1
  <2> QED
    BY <1>S, <2>1, <2>2, <2>3, <2>4
<1>8. 0 .. k \subseteq S /\ k \in 0 .. k
  <2>1. k \in Nat
    OBVIOUS
  <2> QED
    BY <1>6, <1>7, <2>1, Induction
<1> QED
  BY <1>4, <1>8, <1>S

\* What the invariant says of a file, while the recorder was not restarted.
Safe(f) == /\ ~fs.wild /\ Cardinality(Owned(f)) = Desc(f).total_block
           /\ Desc(f).total_block <= BlockLimit[f]
           /\ Desc(f).total_block > 0 =>
                {ChainBlock(f, k) : k \in 0 .. Desc(f).total_block - 1} = Owned(f)
           /\ \A b \in Blocks, o \in Body : fs.flash[b].body[o] # Garbled

\* A ring of blocks is safe.
LEMMA LaidSafe ==
  ASSUME NEW f, Only(f), fs.fuel # 0, NEW m, NEW q, NEW w, Laid(fs, f, m, q, w)
  PROVE  Safe(f)
<1>1. Ring(fs, f, m, q) /\ Clean(fs, m, q, w)
  BY DEF Laid
<1>2. /\ m \in Nat /\ m <= BlockLimit[f] /\ q \in [1 .. m -> Blocks] /\ ~fs.wild
      /\ \A i, j \in 1 .. m : q[i] = q[j] => i = j
      /\ Desc(f).total_block = m
      /\ \A b \in Blocks : fs.map[b].file_id = f <=> Member(b, m, q)
  BY <1>1 DEF Ring, Only, Desc
<1>3. Owned(f) = {b \in Blocks : Member(b, m, q)}
  BY <1>2 DEF Owned
<1>4. Cardinality(Owned(f)) = m
  BY <1>2, <1>3, RingCard
<1>5. m > 0 => {ChainBlock(f, k) : k \in 0 .. m - 1} = Owned(f)
  <2> SUFFICES ASSUME m > 0 PROVE {ChainBlock(f, k) : k \in 0 .. m - 1} = Owned(f)
    OBVIOUS
  <2>1. \A k \in 0 .. m - 1 : ChainBlock(f, k) = q[k + 1] /\ k + 1 \in 1 .. m
    BY <1>1, <1>2, ChainIs
  <2>2. \A i \in 1 .. m : i - 1 \in 0 .. m - 1 /\ (i - 1) + 1 = i
    BY <1>2
  <2>3. ASSUME NEW k \in 0 .. m - 1 PROVE ChainBlock(f, k) \in Owned(f)
    <3>1. k + 1 \in 1 .. m /\ ChainBlock(f, k) = q[k + 1]
      BY <2>1
    <3>2. q[k + 1] \in Blocks
      BY <1>2, <3>1
    <3>3. Member(q[k + 1], m, q)
      BY <3>1 DEF Member
    <3> QED
      BY <1>3, <3>1, <3>2, <3>3
  <2>4. ASSUME NEW b \in Owned(f) PROVE \E k \in 0 .. m - 1 : b = ChainBlock(f, k)
    <3>1. PICK i \in 1 .. m : q[i] = b
      BY <1>3 DEF Member
    <3>2. ChainBlock(f, i - 1) = q[(i - 1) + 1]
      BY <2>1, <2>2
    <3> QED
      BY <2>2, <3>1, <3>2
  <2> QED
    BY <2>3, <2>4, Zenon
<1>6. \A b \in Blocks, o \in Body : fs.flash[b].body[o] # Garbled
  BY <1>1 DEF Clean
<1> QED
  BY <1>2, <1>4, <1>5, <1>6 DEF Safe

\* A file is safe as long as the recorder is not restarted.
LEMMA FileSafe ==
  ASSUME OneFile, TypeInv, FileInv, boots = 0, NEW f \in Files
  PROVE  Safe(f)
<1>1. Only(f) /\ fs.fuel # 0
  BY OnlyIs DEF TypeInv, Calm
<1>2. \E m, q, w : Laid(fs, f, m, q, w)
  <2>1. \/ \E q, w : Laid(fs, f, 0, q, w)
        \/ Filled(fs, f, now, Rested, EverySecond)
    BY DEF FileInv
  <2>2. CASE Filled(fs, f, now, Rested, EverySecond)
    <3>1. PICK e : Behind(fs, f, e)
      BY <2>2 DEF Filled
    <3> QED
      BY <3>1 DEF Behind
  <2> QED
    BY <2>1, <2>2
<1> QED
  BY <1>1, <1>2, LaidSafe

\* With a record every second the last tag is that of the running interval.
LEMMA NoTagNeeded ==
  ASSUME OneFile, TypeInv, FileInv
  PROVE  LoopProgress
<1> SUFFICES ASSUME EverySecond, boots = 0, call # Idle
             PROVE  ~NeedsTag(fs, call.file, call.time)
  BY DEF LoopProgress
<1>1. call.file \in Files /\ call.time = now /\ now \in Nat /\ fs \in States(now) /\ Stride \in Nat
  BY StrideIs, CallIs DEF TypeInv, Calm
<1>f. PICK f \in Files : f = call.file
  BY <1>1
<1>r. PICK r : r = (now \div Interval) * Interval
  OBVIOUS
<1>2. Filled(fs, f, now, Rested, EverySecond)
  BY DEF FileInv
<1>3. fs.file[f].tag_time = r
  BY <1>2, <1>r, Zenon DEF Filled
<1>4. r \in 0 .. now /\ now - r \in 0 .. Interval - 1
  BY <1>1, <1>r, RoundDown
<1>o. PICK o : o = DataOffset(fs, f, now)
  OBVIOUS
<1>5. fs.file[f].tag_time <= now /\ now - fs.file[f].tag_time < Interval
  BY <1>1, <1>3, <1>4, Sizes
<1>6. o < Stride /\ o \in Int
  <2>1. o < Stride
    BY <1>1, <1>5, <1>o, SameInterval
  <2>2. o \in Int
    BY <1>1, <1>o, DataOffsetIs
  <2> QED
    BY <2>1, <2>2
<1> QED
  BY <1>1, <1>6, <1>f, <1>o DEF NeedsTag

-----------------------------------------------------------------------------
(* A power cut.                                                            *)

\* A power cut leaves the tables and the bytes of a file as they are.
LEMMA CutLaid ==
  ASSUME NEW n \in Nat, Calm(n, fs), NEW k \in 0 .. 3, NEW c, c = Cut(k),
         NEW f, NEW m, NEW q, NEW w, Laid(fs, f, m, q, w)
  PROVE  Laid(c, f, m, q, w)
<1>1. /\ c.map = fs.map /\ c.chain = fs.chain /\ c.file = fs.file
      /\ c.flash = fs.flash /\ c.wild = fs.wild /\ fs.fuel # 0
  BY CutIs DEF Calm
<1>2. Ring(c, f, m, q)
  BY <1>1 DEF Laid, Ring
<1>3. Clean(c, m, q, w)
  BY <1>1 DEF Laid, Clean
<1>4. HeadsFit(c, f)
  BY <1>1 DEF Laid, HeadsFit
<1> QED
  BY <1>2, <1>3, <1>4 DEF Laid

\* The same for the place of the last byte.
LEMMA CutFilled ==
  ASSUME NEW n \in Nat, Calm(n, fs), NEW k \in 0 .. 3, NEW c, c = Cut(k),
         NEW f, NEW t, NEW x, NEW sec, Filled(fs, f, t, x, sec)
  PROVE  Filled(c, f, t, x, sec)
<1>1. c.file = fs.file
  BY CutIs
<1>2. DataOffset(c, f, t) = DataOffset(fs, f, t)
  BY <1>1, Zenon DEF DataOffset
<1>3. PICK e : /\ Behind(fs, f, e)
               /\ e <= fs.file[f].tag_offset + Stride
               /\ e <= fs.file[f].tag_offset + DataOffset(fs, f, t) + x
               /\ sec => /\ fs.file[f].tag_time = (t \div Interval) * Interval
                         /\ e = fs.file[f].tag_offset + DataOffset(fs, f, t) + x
  BY Zenon DEF Filled
<1>4. Behind(c, f, e)
  <2>1. PICK m, q, w : Laid(fs, f, m, q, w) /\ At(fs.file[f].tag_block, m, q, w, e)
    BY <1>3 DEF Behind
  <2>2. Laid(c, f, m, q, w)
    BY <2>1, CutLaid
  <2> QED
    BY <1>1, <1>3, <2>1, <2>2 DEF Behind
<1> QED
  BY <1>1, <1>2, <1>3, <1>4, Zenon DEF Filled

\* The next start counts the headers on the flash.
LEMMA BootFits ==
  ASSUME NEW n \in Nat, NEW s \in States(n), NEW f, Only(f), HeadsFit(s, f), NEW g \in Garbage,
         NEW t, t = SystemInit(s.flash, g)
  PROVE  t.file[f].total_block <= BlockLimit[f]
<1>F. PICK F : F = s.flash
  OBVIOUS
<1>1. F \in FlashSet(n) /\ g \in Offsets /\ f \in Files /\ Files = {f}
  BY <1>F, GarbageAssumption DEF States, Only, Offsets
<1>u. PICK u : u = Unpowered(F)
  OBVIOUS
<1>2. t = ScanFileBlock(u, f, g)
  BY <1>1, <1>F, <1>u, SystemInitIs
<1>3. u \in Booted(n, F)
  BY <1>1, <1>u, UnpoweredIs
<1>4. u \in States(n) /\ u.map = [b \in Blocks |-> F[b].head]
  BY <1>3 DEF Booted
<1>5. Scanned(u, t, f)
  BY <1>1, <1>2, <1>4, ScanFileBlockIs
<1>6. {i \in Blocks : u.map[i].file_id = f} = {b \in Blocks : s.flash[b].head.file_id = f}
  BY <1>4, <1>F
<1> QED
  BY <1>5, <1>6 DEF Scanned, HeadsFit

\* What the power cut leaves of a call that begins, and of one that goes on.
LEMMA EnterFits ==
  ASSUME OneFile, TypeInv, FileInv, boots = 0, call = Idle, NEW f \in Files, NEW d \in use.steps,
         NEW n, n = now + d, NEW k \in 0 .. 3, NEW c, c = Cut(k), NEW s, s = Enter(c, f, n)
  PROVE  n \in Nat /\ s \in States(n) /\ HeadsFit(s, f)
<1>0. /\ use \in Uses /\ use.steps \subseteq Nat /\ now \in Nat /\ Calm(now, fs)
      /\ \A x \in use.steps : x >= Unit
  BY LimitIs DEF TypeInv, OneFile
<1>1. n \in Nat /\ d \in Nat /\ d >= Unit /\ now <= n /\ Only(f) /\ f \in Files
  BY <1>0, OnlyIs
<1>2. Calm(n, fs)
  BY <1>0, <1>1, CalmLater
<1>3. c \in States(n) /\ Synced(c) /\ c.file = fs.file
  BY <1>1, <1>2, CutIs
<1>4. Sound(n, c, s)
  BY <1>1, <1>3, EnterSound
<1>s. PICK sec \in BOOLEAN : sec = EverySecond
  BY DEF EverySecond
<1>5. \/ \E q, w : Laid(fs, f, 0, q, w)
      \/ Filled(fs, f, now, Rested, sec)
  BY <1>s DEF FileInv
<1>6. CASE \E q, w : Laid(fs, f, 0, q, w)
  <2>1. PICK q, w : Laid(fs, f, 0, q, w)
    BY <1>6
  <2>2. Laid(c, f, 0, q, w)
    BY <1>1, <1>2, <2>1, CutLaid
  <2>3. s = InitRecord(c, f, n)
    <3>1. c.file[f].total_block = 0
      BY <2>2, FirstCall
    <3> QED
      BY <3>1, Zenon DEF Enter
  <2>4. n \in 0 .. n
    BY <1>1
  <2>5. First(n, c, s, f, n)
    BY <1>1, <1>3, <2>2, <2>3, <2>4, FirstLaid
  <2>6. Filled(s, f, n, RecSize, sec)
    BY <1>1, <2>5, FirstFilled
  <2>7. HeadsFit(s, f)
    BY <1>1, <2>6, LaterCall
  <2> QED
    BY <1>1, <1>4, <2>7 DEF Sound
<1>7. CASE Filled(fs, f, now, Rested, sec)
  <2>1. Filled(c, f, now, RecSize, sec)
    <3>1. Rested = RecSize
      BY DEF Rested
    <3> QED
      BY <1>0, <1>7, <3>1, CutFilled
  <2>2. c.file[f].tag_time <= now
    <3>1. fs.file[f] \in DescSet(now)
      BY <1>0 DEF Calm, States
    <3> QED
      BY <1>0, <1>3, <3>1 DEF DescSet
  <2>3. sec => d = 1
    BY <1>s DEF EverySecond
  <2>4. Filled(s, f, n, 0, sec)
    BY <1>0, <1>1, <1>3, <2>1, <2>2, <2>3, EnterFilled
  <2>5. HeadsFit(s, f)
    BY <1>1, <2>4, LaterCall
  <2> QED
    BY <1>1, <1>4, <2>5 DEF Sound
<1> QED
  BY <1>5, <1>6, <1>7

\* What the power cut leaves of a call that goes on is within the limit.
LEMMA GoOnFits ==
  ASSUME OneFile, TypeInv, FileInv, boots = 0, call # Idle, NEW f \in Files,
         NEW k \in 0 .. 3, NEW c, c = Cut(k), NEW s,
         \/ NeedsTag(fs, f, now) /\ s = LoopTag(c, f, now)
         \/ ~NeedsTag(fs, f, now) /\ s = WriteRecord(c, f, now)
  PROVE  s \in States(now) /\ HeadsFit(s, f)
<1>1. now \in Nat /\ Calm(now, fs) /\ Only(f)
  BY OnlyIs DEF TypeInv
<1>2. c \in States(now) /\ Synced(c) /\ c.file = fs.file
  BY <1>1, CutIs
<1>s. PICK sec \in BOOLEAN : sec = EverySecond
  BY DEF EverySecond
<1>3. Filled(c, f, now, 0, sec)
  <2>1. Filled(fs, f, now, 0, sec)
    <3>1. Rested = 0
      BY DEF Rested
    <3> QED
      BY <1>s, <3>1 DEF FileInv
  <2> QED
    BY <1>1, <2>1, CutFilled
<1>4. NeedsTag(c, f, now) <=> NeedsTag(fs, f, now)
  BY <1>2, Zenon DEF NeedsTag, DataOffset
<1>5. CASE NeedsTag(fs, f, now) /\ s = LoopTag(c, f, now)
  <2>1. Sound(now, c, s) /\ Filled(s, f, now, 0, sec)
    BY <1>1, <1>2, <1>3, <1>4, <1>5, LoopFilled
  <2> QED
    BY <1>1, <2>1, LaterCall DEF Sound
<1>6. CASE ~NeedsTag(fs, f, now) /\ s = WriteRecord(c, f, now)
  <2>1. Sound(now, c, s) /\ Filled(s, f, now, RecSize, sec)
    BY <1>1, <1>2, <1>3, <1>4, <1>6, WriteFilled
  <2> QED
    BY <1>1, <2>1, LaterCall DEF Sound
<1> QED
  BY <1>5, <1>6

\* After the first restart a file has no more blocks than its limit: the head is
\* erased before the tail is named, so no cut leaves one block too many.
LEMMA RestartFits ==
  ASSUME OneFile, OneRestart, TypeInv, FileInv, Restart, NEW f \in Files
  PROVE  fs'.file[f].total_block <= BlockLimit[f]
<1>1. boots = 0
  <2>1. use \in Uses /\ use.restarts \in Nat /\ use.restarts <= 1 /\ boots \in Nat /\ boots < use.restarts
    BY LimitIs DEF TypeInv, FileInv, OneRestart, Restart
  <2> QED
    BY <2>1
<1>2. Files = {f} /\ Only(f) /\ now \in Nat
  BY OnlyIs DEF Only, TypeInv
<1>3. call.file \in Files => call # Idle /\ call.file = f /\ call.time = now
  BY <1>2, CallIs
<1>4. PICK g \in Garbage, k \in 0 .. 3 :
        \/ /\ call = Idle
           /\ \E h \in Files, d \in use.steps :
                /\ now' = now + d
                /\ fs' = SystemInit(Enter(Cut(k), h, now').flash, g)
        \/ /\ call.file \in Files /\ now' = now
           /\ NeedsTag(fs, call.file, call.time)
           /\ fs' = SystemInit(LoopTag(Cut(k), call.file, call.time).flash, g)
        \/ /\ call.file \in Files /\ now' = now
           /\ ~NeedsTag(fs, call.file, call.time)
           /\ fs' = SystemInit(WriteRecord(Cut(k), call.file, call.time).flash, g)
  BY Zenon DEF Restart
<1>c. PICK c : c = Cut(k)
  OBVIOUS
<1>5. \E n \in Nat : \E s \in States(n) : HeadsFit(s, f) /\ fs' = SystemInit(s.flash, g)
  <2>1. ASSUME call = Idle, NEW h \in Files, NEW d \in use.steps, now' = now + d,
               fs' = SystemInit(Enter(Cut(k), h, now').flash, g)
        PROVE  \E n \in Nat : \E s \in States(n) : HeadsFit(s, f) /\ fs' = SystemInit(s.flash, g)
    <3>n. PICK n : n = now + d
      OBVIOUS
    <3>s. PICK s : s = Enter(c, f, n)
      OBVIOUS
    <3>1. n \in Nat /\ s \in States(n) /\ HeadsFit(s, f)
      BY <1>1, <1>c, <2>1, <3>n, <3>s, EnterFits
    <3>2. fs' = SystemInit(s.flash, g)
      <4>1. h = f /\ now' = n
        BY <1>2, <2>1, <3>n
      <4> QED
        BY <1>c, <2>1, <3>s, <4>1
    <3> QED
      BY <3>1, <3>2
  <2>2. ASSUME call.file \in Files, NeedsTag(fs, call.file, call.time),
               fs' = SystemInit(LoopTag(Cut(k), call.file, call.time).flash, g)
        PROVE  \E n \in Nat : \E s \in States(n) : HeadsFit(s, f) /\ fs' = SystemInit(s.flash, g)
    <3>s. PICK s : s = LoopTag(c, f, now)
      OBVIOUS
    <3>1. NeedsTag(fs, f, now) /\ fs' = SystemInit(s.flash, g)
      BY <1>3, <1>c, <2>2, <3>s
    <3>2. s \in States(now) /\ HeadsFit(s, f)
      BY <1>1, <1>3, <1>c, <2>2, <3>1, <3>s, GoOnFits
    <3> QED
      BY <1>2, <3>1, <3>2
  <2>3. ASSUME call.file \in Files, ~NeedsTag(fs, call.file, call.time),
               fs' = SystemInit(WriteRecord(Cut(k), call.file, call.time).flash, g)
        PROVE  \E n \in Nat : \E s \in States(n) : HeadsFit(s, f) /\ fs' = SystemInit(s.flash, g)
    <3>s. PICK s : s = WriteRecord(c, f, now)
      OBVIOUS
    <3>1. ~NeedsTag(fs, f, now) /\ fs' = SystemInit(s.flash, g)
      BY <1>3, <1>c, <2>3, <3>s
    <3>2. s \in States(now) /\ HeadsFit(s, f)
      BY <1>1, <1>3, <1>c, <2>3, <3>1, <3>s, GoOnFits
    <3> QED
      BY <1>2, <3>1, <3>2
  <2> QED
    BY <1>4, <2>1, <2>2, <2>3
<1> QED
  BY <1>2, <1>5, BootFits

-----------------------------------------------------------------------------
(* The headers on the flash.                                               *)

\* The powers of two of the sizes.
Powers == {2, 4, 8, 16, 32, 64, 128, 256, 512, 1024, 2048, 4096}

\* Programming a field that is all ones gives the new value.
LEMMA AndOnes ==
  ASSUME NEW k \in Powers, NEW x \in 0 .. k - 1
  PROVE  And(k - 1, x) = x
<1> DEFINE W == {1, 2, 4, 8, 16, 32, 64, 128, 256, 512, 1024, 2048}
           b(w) == IF ((k - 1) \div w) % 2 = 1 /\ (x \div w) % 2 = 1 THEN w ELSE 0
<1>k. k \in {2, 4, 8, 16, 32, 64} \/ k \in {128, 256, 512, 1024, 2048, 4096}
  BY DEF Powers
<1>1. x \in Word /\ x \in Nat /\ k \in Nat
  BY <1>k DEF Word
<1>2. ASSUME NEW w \in W PROVE w < k => ((k - 1) \div w) % 2 = 1
  <2>1. CASE k \in {2, 4, 8, 16, 32, 64}
    BY <2>1
  <2>2. CASE k \in {128, 256, 512, 1024, 2048, 4096}
    BY <2>2
  <2> QED
    BY <1>k, <2>1, <2>2
<1>3. ASSUME NEW w \in W PROVE w >= k => (x \div w) % 2 = 0
  <2>1. w >= k => x < w
    BY <1>1
  <2>2. x < w => x \div w = 0
    BY <1>1
  <2> QED
    BY <2>1, <2>2
<1>4. \A w \in W : b(w) = Bit(x, w)
  <2> SUFFICES ASSUME NEW w \in W PROVE b(w) = Bit(x, w)
    OBVIOUS
  <2>1. CASE w < k
    BY <1>2, <2>1 DEF Bit
  <2>2. CASE w >= k
    BY <1>3, <2>2 DEF Bit
  <2>3. w < k \/ w >= k
    BY <1>1
  <2> QED
    BY <2>1, <2>2, <2>3
<1>5. And(k - 1, x) = b(1) + b(2) + b(4) + b(8) + b(16) + b(32) + b(64) + b(128) + b(256) + b(512)
                      + b(1024) + b(2048)
  BY DEF And
<1>6. Summed(x)
  BY <1>1, TwelveBits
<1> HIDE DEF b
<1> QED
  BY <1>4, <1>5, <1>6 DEF Summed

\* A header programmed over an erased one reads as it is in RAM.
LEMMA AndHeadOnes ==
  ASSUME NEW h \in HeadSet
  PROVE  AndHead(ErasedHead, h) = h
<1>1. /\ h.file_id \in 0 .. 15 /\ h.first \in 0 .. BlockSize - 1
      /\ h.prev \in 0 .. NumBlocks - 1 /\ h.count \in 0 .. NumBlocks - 1
      /\ h = [file_id |-> h.file_id, first |-> h.first, prev |-> h.prev, count |-> h.count]
  <2>1. Files \cup {NoFile} \subseteq 0 .. 15
    BY LimitIs DEF NoFile
  <2> QED
    BY <2>1 DEF HeadSet, Blocks
<1>2. BlockSize \in Powers /\ NumBlocks \in Powers
  <2>1. BlockSize \in {8, 16, 32, 64, 128, 256, 512, 1024, 2048, 4096}
    BY GeometryAssumption, Zenon
  <2>2. NumBlocks \in {2, 4, 8, 16, 32, 64, 128, 256}
    BY GeometryAssumption, Zenon
  <2> QED
    BY <2>1, <2>2 DEF Powers
<1>3. And(15, h.file_id) = h.file_id
  BY <1>1, AndErased
<1>4. And(BlockSize - 1, h.first) = h.first
  <2>1. \A x \in 0 .. BlockSize - 1 : And(BlockSize - 1, x) = x
    BY <1>2, AndOnes, Zenon
  <2> QED
    BY <1>1, <2>1, Zenon
<1>5. And(NumBlocks - 1, h.prev) = h.prev /\ And(NumBlocks - 1, h.count) = h.count
  <2>1. \A x \in 0 .. NumBlocks - 1 : And(NumBlocks - 1, x) = x
    BY <1>2, AndOnes, Zenon
  <2> QED
    BY <1>1, <2>1, Zenon
<1>6. /\ ErasedHead.file_id = 15 /\ ErasedHead.first = BlockSize - 1
      /\ ErasedHead.prev = NumBlocks - 1 /\ ErasedHead.count = NumBlocks - 1
  BY DEF ErasedHead, NoFile
<1> QED
  BY <1>1, <1>3, <1>4, <1>5, <1>6, Zenon DEF AndHead

\* The header of a file's first block, programmed over the one programmed before it.
LEMMA AndHeadTwice ==
  ASSUME NEW h \in HeadSet, NEW g \in HeadSet, NEW b \in Blocks,
         h.first = HeadSize - 1, h.prev = 0, g = [h EXCEPT !.first = HeadSize, !.prev = b]
  PROVE  AndHead(h, g) = Printed(b, g)
<1>1. /\ h.file_id \in Word /\ h.count \in Word
      /\ g = [file_id |-> h.file_id, first |-> HeadSize, prev |-> b, count |-> h.count]
  <2>1. Files \cup {NoFile} \subseteq Word
    <3>1. Files \subseteq 0 .. 14
      BY LimitIs
    <3> QED
      BY <3>1 DEF NoFile, Word
  <2>2. h.count \in Blocks /\ h.file_id \in Files \cup {NoFile}
    BY DEF HeadSet
  <2>3. g = [file_id |-> h.file_id, first |-> HeadSize, prev |-> b, count |-> h.count]
    BY DEF HeadSet
  <2> QED
    BY <2>1, <2>2, <2>3, Words
<1>2. And(h.file_id, h.file_id) = h.file_id /\ And(h.count, h.count) = h.count
  BY <1>1, AndIs
<1>3. And(0, b) = 0
  BY DEF And
<1>4. AndHead(h, g) = [file_id |-> h.file_id, first |-> And(HeadSize - 1, HeadSize),
                       prev |-> 0, count |-> h.count]
  BY <1>1, <1>2, <1>3 DEF AndHead
<1>5. Printed(b, g) = [g EXCEPT !.prev = 0, !.first = And(HeadSize - 1, HeadSize)]
  BY <1>1 DEF Printed
<1> QED
  BY <1>1, <1>4, <1>5

\* The headers on the flash are those of block_map, or what is left of the one that is
\* programmed twice, and erased where a block is free.
HeadOf(s, b) ==
  s.flash[b].head = IF s.map[b].file_id \in Files THEN Printed(b, s.map[b]) ELSE ErasedHead
HeadsOf(s) == \A b \in Blocks : HeadOf(s, b)

\* The block written last is one of the file.
Owner(s, f)   == s.map[s.file[f].last_write_block].file_id = f
Good(n, s, f) == Calm(n, s) /\ HeadsOf(s) /\ Owner(s, f)

\* A step that programs no header and stays in the blocks of the file is good.
LEMMA GoodSame ==
  ASSUME NEW n, NEW s, NEW f, Good(n, s, f), NEW t, Calm(n, t), t.map = s.map,
         \A c \in Blocks : t.flash[c].head = s.flash[c].head,
         \/ t.file[f].last_write_block = s.file[f].last_write_block
         \/ s.map[t.file[f].last_write_block].file_id = f
  PROVE  Good(n, t, f)
<1>1. HeadsOf(t)
  BY Zenon DEF Good, HeadsOf, HeadOf
<1>2. Owner(t, f)
  BY Zenon DEF Good, Owner
<1> QED
  BY <1>1, <1>2 DEF Good

\* The block flashfile_alloc_block takes: its header is on the flash as in RAM, it
\* names the block written last before it, and no other header is wrong.
TakenBlock(s, a, f, b) ==
  /\ b \in Blocks /\ s.map[b].file_id = NoFile /\ a.map[b].file_id = f
  /\ a.file[f].last_write_block = b /\ a.map[b].prev = s.file[f].last_write_block
  /\ a.map[b].first = (s.file[f].tag_next + s.file[f].tag_offset - BlockSize + HeadSize) % BlockSize
  /\ a.flash[b].head = a.map[b] /\ \A c \in Blocks : c # b => HeadOf(a, c)

LEMMA AllocHeads ==
  ASSUME NEW n \in Nat, NEW s, NEW f, Only(f), Calm(n, s), HeadsOf(s), NEW a, a = AllocBlock(s, f)
  PROVE  /\ Calm(n, a) /\ (a.ret = NoBlock => SameState(s, a))
         /\ a.ret # NoBlock => TakenBlock(s, a, f, a.ret)
<1>0. s \in States(n) /\ Synced(s) /\ s.fuel = -1 /\ s.fuel # 0 /\ f \in Files
  BY DEF Calm, Only
<1>b. PICK b : b = FindFirstFreeblock(s)
  OBVIOUS
<1>1. /\ a \in States(n) /\ Synced(a) /\ Power(s, a) /\ a.ret = b
      /\ b = NoBlock => SameState(s, a)
      /\ b # NoBlock => b \in Blocks /\ s.map[b].file_id = NoFile
  BY <1>0, <1>b, AllocBlockIs
<1>2. Calm(n, a)
  BY <1>0, <1>1 DEF Calm, Power
<1>3. ASSUME b # NoBlock PROVE TakenBlock(s, a, f, b)
  <2>v. PICK v : v = IF s.file[f].total_block = 0 THEN AppendTailBlock(s, f, b) ELSE RoundFile(s, f, b)
    OBVIOUS
  <2>0. b \in Blocks /\ s.map[b].file_id = NoFile /\ b \in Int
    BY <1>1, <1>3, Sizes DEF Blocks
  <2>1. PICK u \in States(n) : /\ Freed(s, u, f) /\ Synced(u) /\ Grown(u, v, f, b)
                               /\ v \in States(n) /\ Synced(v)
    BY <1>0, <2>0, <2>v, RoundIs
  <2>2. a = [v EXCEPT !.ret = b]
    BY <1>3, <1>b, <2>v, Zenon DEF AllocBlock
  <2>3. SameState(v, a)
    BY <2>0, <2>1, <2>2, SetRet
  <2>4. /\ u.fuel # 0 /\ u.map[b].file_id = NoFile
        /\ u.file[f].last_write_block = s.file[f].last_write_block
        /\ u.file[f].tag_next = s.file[f].tag_next /\ u.file[f].tag_offset = s.file[f].tag_offset
        /\ HeadsOf(u)
    <3>1. CASE ~Full(s, f)
      BY <1>0, <2>0, <2>1, <3>1 DEF Freed
    <3>2. CASE Full(s, f)
      <4>p. PICK p : p = s.file[f].start_block
        OBVIOUS
      <4>1. /\ p \in Blocks /\ Unchained(s, u, f, p) /\ u.flash[p].head = ErasedHead
            /\ \A c \in Blocks : c # p => u.flash[c] = s.flash[c]
        BY <1>0, <2>1, <3>2, <4>p, Zenon DEF Freed
      <4>2. u.map[p].file_id = NoFile /\ \A c \in Blocks : c # p => u.map[c] = s.map[c]
        BY <4>1 DEF Unchained
      <4>3. NoFile \notin Files
        BY LimitIs DEF NoFile
      <4>4. HeadsOf(u)
        BY <4>1, <4>2, <4>3, Zenon DEF HeadsOf, HeadOf
      <4>5. u.map[b].file_id = NoFile
        BY <2>0, <4>2, Zenon
      <4>6. u.fuel # 0
        BY <1>0, <2>1 DEF Freed, Power
      <4> QED
        BY <4>1, <4>4, <4>5, <4>6, Zenon DEF Unchained
    <3> QED
      BY <3>1, <3>2
  <2>5. u.flash[b].head = ErasedHead
    <3>1. NoFile \notin Files
      BY LimitIs DEF NoFile
    <3> QED
      BY <2>0, <2>4, <3>1, Zenon DEF HeadsOf, HeadOf
  <2>6. v.map[b] \in HeadSet /\ u.map[b] \in HeadSet
    BY <2>0, <2>1 DEF States
  <2>7. /\ v.map[b].file_id = f /\ v.file[f].last_write_block = b
        /\ v.map[b].prev = u.file[f].last_write_block
        /\ v.map[b].first = (u.file[f].tag_next + u.file[f].tag_offset - BlockSize + HeadSize)
                              % BlockSize
    <3>1. Headed(u, v, f, b) /\ v.map[b].file_id = f /\ v.file[f].last_write_block = b
      BY <2>1, Zenon DEF Grown, Chained
    <3> QED
      BY <2>6, <3>1, Zenon DEF Headed, HeadSet
  <2>8. v.flash[b].head = v.map[b]
    <3>1. v.flash[b].head = AndHead(ErasedHead, v.map[b])
      BY <2>1, <2>4, <2>5, Zenon DEF Grown
    <3> QED
      BY <2>6, <3>1, AndHeadOnes
  <2>9. ASSUME NEW c \in Blocks, c # b PROVE HeadOf(v, c)
    <3>1. v.flash[c] = u.flash[c] /\ v.map[c] = u.map[c]
      BY <2>1, <2>4, <2>9, Zenon DEF Grown, Chained
    <3> QED
      BY <2>4, <3>1, Zenon DEF HeadsOf, HeadOf
  <2>10. a.map = v.map /\ a.file = v.file /\ a.flash = v.flash
    BY <2>3 DEF SameState
  <2>11. \A c \in Blocks : c # b => HeadOf(a, c)
    BY <2>9, <2>10, Zenon DEF HeadOf
  <2> QED
    BY <2>0, <2>4, <2>7, <2>8, <2>10, <2>11, Zenon DEF TakenBlock
<1> QED
  BY <1>1, <1>2, <1>3

\* A block taken behind another one of the file has its header on the flash.
LEMMA AllocGood ==
  ASSUME NEW n \in Nat, NEW s, NEW f, Only(f), Good(n, s, f), NEW a, a = AllocBlock(s, f)
  PROVE  Good(n, a, f) /\ (a.ret # NoBlock => a.ret \in Blocks)
<1>1. /\ Calm(n, a) /\ (a.ret = NoBlock => SameState(s, a))
      /\ a.ret # NoBlock => TakenBlock(s, a, f, a.ret)
  BY AllocHeads DEF Good
<1>2. CASE a.ret = NoBlock
  BY <1>1, <1>2, GoodSame DEF SameState
<1>3. CASE a.ret # NoBlock
  <2>b. PICK b : b = a.ret
    OBVIOUS
  <2>1. TakenBlock(s, a, f, b) /\ f \in Files
    BY <1>1, <1>3, <2>b DEF Only
  <2>2. a.map[b].prev # b
    <3>1. s.map[b].file_id = NoFile /\ s.map[s.file[f].last_write_block].file_id = f
      BY <2>1 DEF TakenBlock, Good, Owner
    <3>2. f # NoFile
      BY <2>1, LimitIs DEF NoFile
    <3> QED
      BY <2>1, <3>1, <3>2, Zenon DEF TakenBlock
  <2>3. HeadOf(a, b)
    BY <2>1, <2>2, Zenon DEF TakenBlock, HeadOf, Printed
  <2>4. HeadsOf(a) /\ Owner(a, f)
    BY <2>1, <2>3, Zenon DEF TakenBlock, HeadsOf, Owner
  <2> QED
    BY <1>1, <2>1, <2>4, <2>b DEF Good, TakenBlock
<1> QED
  BY <1>2, <1>3

\* flashfile_block_write programs no header.
LEMMA BlockWriteGood ==
  ASSUME NEW n \in Nat, NEW s, NEW f, Only(f), Good(n, s, f), NEW b \in Blocks,
         NEW off \in 0 .. BlockSize - 1, NEW bytes \in Seq(ByteSet(n)),
         NEW t, t = BlockWrite(s, b, off, bytes)
  PROVE  Good(n, t, f) /\ t.ret \in {Len(bytes), -1}
<1>0. s \in States(n) /\ Synced(s) /\ s.fuel # 0 /\ f \in Files
  BY DEF Good, Calm, Only
<1>1. Sound(n, s, t) /\ t.ret \in {Len(bytes), -1} /\ t.map = s.map
  BY <1>0, BlockWriteSound
<1>2. Calm(n, t)
  BY <1>1, CalmSound DEF Good
<1>3. CASE off + Len(bytes) <= BlockSize
  <2>1. Touched(s, t, b, off) /\ Wrote(s.flash, t.flash, b, off, bytes)
    BY <1>0, <1>3, BlockWriteIs
  <2>2. \A c \in Blocks : t.flash[c].head = s.flash[c].head
    BY <2>1 DEF Wrote
  <2>3. \/ t.file[f].last_write_block = s.file[f].last_write_block
        \/ s.map[t.file[f].last_write_block].file_id = f
    BY <1>0, <2>1, Zenon DEF Touched
  <2> QED
    BY <1>1, <1>2, <2>2, <2>3, GoodSame
<1>4. CASE ~(off + Len(bytes) <= BlockSize)
  <2>1. off + Len(bytes) > BlockSize
    BY <1>4, Sizes, LenProperties
  <2>2. t = [s EXCEPT !.ret = -1]
    BY <2>1, Zenon DEF BlockWrite
  <2>m. -1 \in Int
    OBVIOUS
  <2>3. SameState(s, t)
    BY <1>0, <2>2, <2>m, SoundSet
  <2> QED
    BY <1>1, <1>2, <2>3, GoodSame DEF SameState
<1> QED
  BY <1>1, <1>3, <1>4

\* A value returned changes no header.
LEMMA RetGood ==
  ASSUME NEW n \in Nat, NEW s, NEW f, Good(n, s, f), NEW r \in Int, NEW t, t = [s EXCEPT !.ret = r]
  PROVE  Good(n, t, f)
<1>0. s \in States(n) /\ Synced(s)
  BY DEF Good, Calm
<1>1. Sound(n, s, t) /\ SameState(s, t)
  BY <1>0, SoundSet
<1>2. Calm(n, t)
  BY <1>1, CalmSound DEF Good
<1> QED
  BY <1>1, <1>2, GoodSame DEF SameState

\* The part of a write that goes over the end of a block.
LEMMA SpillGood ==
  ASSUME NEW n \in Nat, NEW s, NEW f, Only(f), Good(n, s, f), NEW b \in Blocks, NEW wrote \in Nat,
         NEW bytes \in Seq(ByteSet(n)), NEW t, t = Spill(s, b, wrote, bytes)
  PROVE  Good(n, t, f)
<1>g. PICK g : g = s.map[b].file_id
  OBVIOUS
<1>a. PICK a : a = AllocBlock(s, g)
  OBVIOUS
<1>0. s \in States(n) /\ Synced(s)
  BY DEF Good, Calm
<1>1. t = IF g \notin Files THEN [s EXCEPT !.wild = TRUE, !.ret = -1]
          ELSE IF a.ret = NoBlock THEN [a EXCEPT !.ret = -1]
          ELSE BlockWrite(a, a.ret, HeadSize, SubSeq(bytes, wrote + 1, Len(bytes)))
  BY <1>g, <1>a, Zenon DEF Spill
<1>2. CASE g \notin Files
  <2>1. t = [s EXCEPT !.wild = TRUE, !.ret = -1]
    BY <1>1, <1>2
  <2>2. t.map = s.map /\ t.flash = s.flash /\ t.file = s.file
    BY <1>0, <2>1, Zenon DEF States
  <2>3. Calm(n, t)
    <3>1. Sound(n, s, t)
      BY <1>0, SpillSound
    <3> QED
      BY <3>1, CalmSound DEF Good
  <2> QED
    BY <2>2, <2>3, GoodSame
<1>3. CASE g \in Files
  <2>1. g = f
    BY <1>3 DEF Only
  <2>2. Good(n, a, f) /\ (a.ret # NoBlock => a.ret \in Blocks)
    BY <1>a, <2>1, AllocGood
  <2>3. CASE a.ret = NoBlock
    <3>1. t = [a EXCEPT !.ret = -1] /\ -1 \in Int
      BY <1>1, <1>3, <2>3
    <3> QED
      BY <2>2, <3>1, RetGood
  <2>4. CASE a.ret # NoBlock
    <3>u. PICK u : u = SubSeq(bytes, wrote + 1, Len(bytes))
      OBVIOUS
    <3>1. t = BlockWrite(a, a.ret, HeadSize, u)
      BY <1>1, <1>3, <2>4, <3>u
    <3>2. wrote + 1 \in Nat \ {0} /\ Len(bytes) \in Int /\ Len(bytes) <= Len(bytes)
      OBVIOUS
    <3>3. u \in Seq(ByteSet(n))
      BY <3>u, <3>2, SubSeqIs
    <3>4. HeadSize \in 0 .. BlockSize - 1 /\ a.ret \in Blocks
      BY <2>2, <2>4, Sizes
    <3> QED
      BY <2>2, <3>1, <3>3, <3>4, BlockWriteGood
  <2> QED
    BY <2>3, <2>4
<1> QED
  BY <1>2, <1>3

\* flashfile_write
LEMMA FlashWriteGood ==
  ASSUME NEW n \in Nat, NEW s, NEW f, Only(f), Good(n, s, f), NEW b \in Blocks, NEW offset \in Nat,
         NEW bytes \in Seq(ByteSet(n)), NEW t, t = FlashWrite(s, b, offset, bytes)
  PROVE  Good(n, t, f)
<1>h. PICK shifted : shifted = (offset > BlockSize)
  OBVIOUS
<1>b. PICK wb : wb = IF shifted THEN s.chain[b] ELSE b
  OBVIOUS
<1>o. PICK off : off = IF shifted THEN offset - BlockSize + HeadSize ELSE offset
  OBVIOUS
<1>k. PICK k : k = IF off + Len(bytes) > BlockSize THEN BlockSize - offset ELSE Len(bytes)
  OBVIOUS
<1>u. PICK u : u = SubSeq(bytes, 1, k)
  OBVIOUS
<1>w. PICK w : w = BlockWrite(s, wb, off, u)
  OBVIOUS
<1>1. t = IF offset + Len(bytes) > 2 * BlockSize \/ (shifted /\ s.chain[b] = b)
          THEN [s EXCEPT !.ret = -1]
          ELSE IF off >= BlockSize THEN Spill(s, b, 0, bytes)
          ELSE IF w.ret = Len(bytes) \/ w.ret = -1 THEN w
          ELSE Spill(w, b, w.ret, bytes)
  BY <1>h, <1>b, <1>o, <1>k, <1>u, <1>w, Zenon DEF FlashWrite
<1>m. -1 \in Int /\ 0 \in Nat /\ Len(bytes) \in Nat
  BY LenProperties
<1>2. CASE offset + Len(bytes) > 2 * BlockSize \/ (shifted /\ s.chain[b] = b)
  <2>1. t = [s EXCEPT !.ret = -1]
    BY <1>1, <1>2
  <2> QED
    BY <1>m, <2>1, RetGood
<1>3. CASE /\ ~(offset + Len(bytes) > 2 * BlockSize \/ (shifted /\ s.chain[b] = b))
           /\ off >= BlockSize
  <2>1. t = Spill(s, b, 0, bytes)
    BY <1>1, <1>3
  <2> QED
    BY <1>m, <2>1, SpillGood
<1>4. CASE /\ ~(offset + Len(bytes) > 2 * BlockSize \/ (shifted /\ s.chain[b] = b))
           /\ ~(off >= BlockSize)
  <2>1. wb \in Blocks
    BY <1>b DEF Good, Calm, States
  <2>2. off \in 0 .. BlockSize - 1 /\ k \in Int /\ k <= Len(bytes)
    <3>0. /\ BlockSize \in Nat /\ HeadSize \in Nat /\ Len(bytes) \in Nat /\ ~(off >= BlockSize)
          /\ k = IF off + Len(bytes) > BlockSize THEN BlockSize - offset ELSE Len(bytes)
      BY <1>k, <1>m, <1>4, Sizes
    <3>1. CASE offset > BlockSize
      <4>1. off = offset - BlockSize + HeadSize
        BY <1>h, <1>o, <3>1
      <4> QED
        BY <3>0, <3>1, <4>1
    <3>2. CASE ~(offset > BlockSize)
      <4>1. off = offset
        BY <1>h, <1>o, <3>2
      <4> QED
        BY <3>0, <3>2, <4>1
    <3> QED
      BY <3>1, <3>2
  <2>3. 1 \in Nat \ {0}
    OBVIOUS
  <2>4. u \in Seq(ByteSet(n)) /\ Len(u) \in Nat
    BY <1>u, <2>2, <2>3, SubSeqIs, LenProperties
  <2>5. Good(n, w, f) /\ w.ret \in {Len(u), -1}
    BY <1>w, <2>1, <2>2, <2>4, BlockWriteGood
  <2>6. CASE w.ret = Len(bytes) \/ w.ret = -1
    BY <1>1, <1>4, <2>5, <2>6
  <2>7. CASE ~(w.ret = Len(bytes) \/ w.ret = -1)
    <3>1. t = Spill(w, b, w.ret, bytes) /\ w.ret \in Nat
      BY <1>1, <1>4, <2>4, <2>5, <2>7
    <3> QED
      BY <2>5, <3>1, SpillGood
  <2> QED
    BY <2>6, <2>7
<1> QED
  BY <1>2, <1>3, <1>4

\* flashfile_store_last_time_tag
LEMMA StoreGood ==
  ASSUME NEW n \in Nat, NEW s, NEW f, Only(f), Good(n, s, f), NEW r \in 0 .. n,
         NEW t, t = StoreLastTimeTag(s, f, r)
  PROVE  Good(n, t, f)
<1>0. s \in States(n) /\ Synced(s) /\ f \in Files
  BY DEF Good, Calm, Only
<1>1. Sound(n, s, t) /\ t.map = s.map /\ t.flash = s.flash
      /\ t.file[f].last_write_block = s.file[f].last_write_block
  BY <1>0, StoreSound, StoreLastTimeTagIs
<1>2. Calm(n, t)
  BY <1>1, CalmSound DEF Good
<1> QED
  BY <1>1, <1>2, GoodSame

\* flashfile_append_time_tag
LEMMA AppendTimeTagGood ==
  ASSUME NEW n \in Nat, NEW s, NEW f, Only(f), Good(n, s, f), NEW time \in 0 .. n,
         NEW t, t = AppendTimeTag(s, f, time)
  PROVE  Good(n, t, f)
<1>b. PICK b : b = s.file[f].tag_block
  OBVIOUS
<1>o. PICK o : o = TagOffset(s, f)
  OBVIOUS
<1>w. PICK w : w = FlashWrite(s, b, o, TagBytes(time, Stride))
  OBVIOUS
<1>u. PICK u : u = StoreLastTimeTag(w, f, time)
  OBVIOUS
<1>0. t = IF w.ret < 0 THEN w ELSE [u EXCEPT !.ret = 0]
  BY <1>b, <1>o, <1>w, <1>u, Zenon DEF AppendTimeTag, TagOffset
<1>1. b \in Blocks /\ s.file[f].tag_offset \in -1 .. BlockSize - 1
  <2>1. s.file[f] \in DescSet(n)
    BY DEF Good, Calm, States, Only
  <2> QED
    BY <1>b, <2>1 DEF DescSet
<1>2. o \in Nat
  BY <1>o, <1>1, Sizes, StrideIs DEF TagOffset
<1>3. TagBytes(time, Stride) \in Seq(ByteSet(n))
  BY BytesAre DEF Only
<1>4. Good(n, w, f)
  BY <1>w, <1>1, <1>2, <1>3, FlashWriteGood
<1>5. Good(n, u, f)
  BY <1>u, <1>4, StoreGood
<1>6. Good(n, [u EXCEPT !.ret = 0], f)
  <2>1. 0 \in Int
    OBVIOUS
  <2> QED
    BY <1>5, <2>1, RetGood
<1> QED
  BY <1>0, <1>4, <1>6

\* The write of a record behind the last time tag.
LEMMA WriteRecordGood ==
  ASSUME NEW n \in Nat, NEW s, NEW f, Only(f), Good(n, s, f), NEW t, t = WriteRecord(s, f, n)
  PROVE  Good(n, t, f)
<1>b. PICK b : b = s.file[f].tag_block
  OBVIOUS
<1>o. PICK o : o = DataOffset(s, f, n)
  OBVIOUS
<1>p. PICK p : p = s.file[f].tag_offset + o
  OBVIOUS
<1>f. f \in Files /\ s \in States(n) /\ n \in 0 .. n
  BY DEF Only, Good, Calm
<1>0. t = FlashWrite(s, b, p, RecBytes(f, n))
  BY <1>b, <1>o, <1>p, Zenon DEF WriteRecord
<1>1. /\ b \in Blocks /\ s.file[f].tag_offset \in -1 .. BlockSize - 1 /\ s.file[f].tag_time \in Nat
      /\ s.file[f].tag_time <= n
  <2>1. s.file[f] \in DescSet(n)
    BY <1>f DEF States
  <2> QED
    BY <1>b, <2>1 DEF DescSet
<1>2. o \in Nat \ {0}
  BY <1>f, <1>o, <1>1, DataOffsetIs
<1>3. p \in Nat
  BY <1>p, <1>1, <1>2, Sizes
<1>4. RecBytes(f, n) \in Seq(ByteSet(n))
  BY <1>f, BytesAre
<1> QED
  BY <1>0, <1>1, <1>3, <1>4, FlashWriteGood

\* A file that has no tag and no block yet.
Bare(s, f) == /\ s.file[f].tag_next = 0 /\ s.file[f].tag_offset = -1
              /\ s.file[f].last_write_block = 0

\* The header of a file's first block, as flashfile_init_record programs it over the
\* one that flashfile_append_file_tail_block programmed.
LEMMA InitHeadGood ==
  ASSUME NEW n \in Nat, NEW s, NEW f, Only(f), Calm(n, s), HeadsOf(s), Bare(s, f),
         NEW a, a = AllocBlock(s, f), a.ret # NoBlock,
         NEW u, u = InitHead(a, a.ret), NEW h, h = BlockWriteHead(u, a.ret)
  PROVE  Good(n, h, f) /\ a.ret \in Blocks
<1>b. PICK b : b = a.ret
  OBVIOUS
<1>1. Calm(n, a) /\ TakenBlock(s, a, f, b)
  BY <1>b, AllocHeads
<1>2. a \in States(n) /\ Synced(a) /\ a.fuel = -1 /\ b \in Blocks /\ f \in Files
      /\ a.map[b] \in HeadSet /\ a.map \in [Blocks -> HeadSet]
  BY <1>1 DEF Calm, TakenBlock, States, Only
<1>3. /\ u \in States(n) /\ u.file = a.file /\ u.flash = a.flash /\ u.fuel = a.fuel
      /\ \A c \in Blocks : u.map[c].file_id = a.map[c].file_id
  BY <1>2, <1>b, InitHeadIs
<1>g. PICK g : g = [a.map[b] EXCEPT !.first = HeadSize, !.prev = b]
  OBVIOUS
<1>4. u.map[b] = g /\ \A c \in Blocks : c # b => u.map[c] = a.map[c]
  <2>1. u = [a EXCEPT !.map[b] = g]
    BY <1>b, <1>g, Zenon DEF InitHead
  <2>2. u.map = [a.map EXCEPT ![b] = g]
    BY <1>2, <2>1, Zenon DEF States
  <2> QED
    BY <1>2, <2>2
<1>5. Synced(u)
  BY <1>2, <1>3 DEF Synced
<1>6. Sound(n, u, h) /\ h.map = u.map
  BY <1>2, <1>3, <1>5, <1>b, HeadSound
<1>7. Calm(n, h)
  <2>1. Calm(n, u)
    BY <1>2, <1>3, <1>5 DEF Calm
  <2> QED
    BY <1>6, <2>1, CalmSound
<1>8. /\ h.flash[b].head = AndHead(u.flash[b].head, u.map[b]) /\ Touched(u, h, b, 0)
      /\ \A c \in Blocks : c # b => h.flash[c] = u.flash[c]
  <2>1. u.fuel # 0 /\ (u.fuel # 0 => u.flash[b].head.file_id \in {NoFile, u.map[b].file_id})
    BY <1>2, <1>3, <1>5 DEF Synced
  <2> QED
    BY <1>2, <1>3, <1>b, <2>1, BlockWriteHeadIs
<1>9. h.flash[b].head = Printed(b, g)
  <2>1. a.map[b].first = HeadSize - 1 /\ a.map[b].prev = 0
    <3>1. a.map[b].first = (0 + (-1) - BlockSize + HeadSize) % BlockSize
      BY <1>1 DEF TakenBlock, Bare
    <3>2. (0 + (-1) - BlockSize + HeadSize) % BlockSize = HeadSize - 1
      BY Sizes
    <3> QED
      BY <1>1, <3>1, <3>2 DEF TakenBlock, Bare
  <2>2. g \in HeadSet
    <3>1. u.map[b] \in HeadSet
      BY <1>2, <1>3 DEF States
    <3> QED
      BY <1>4, <3>1
  <2>3. u.flash[b].head = a.map[b]
    BY <1>1, <1>3 DEF TakenBlock
  <2>4. AndHead(a.map[b], g) = Printed(b, g)
    BY <1>2, <1>g, <2>1, <2>2, AndHeadTwice
  <2> QED
    BY <1>4, <1>8, <2>3, <2>4
<1>10. ASSUME NEW c \in Blocks PROVE HeadOf(h, c)
  <2>1. CASE c = b
    <3>1. h.map[b].file_id = f /\ h.map[b] = g
      BY <1>1, <1>2, <1>3, <1>4, <1>6 DEF TakenBlock
    <3> QED
      BY <1>2, <1>9, <2>1, <3>1, Zenon DEF HeadOf
  <2>2. CASE c # b
    <3>1. h.map[c] = a.map[c] /\ h.flash[c] = a.flash[c] /\ HeadOf(a, c)
      BY <1>1, <1>3, <1>4, <1>6, <1>8, <2>2 DEF TakenBlock
    <3> QED
      BY <3>1, Zenon DEF HeadOf
  <2> QED
    BY <2>1, <2>2
<1>11. Owner(h, f)
  <2>1. u.map[b].file_id = f
    BY <1>1, <1>2, <1>3 DEF TakenBlock
  <2>2. h.file[f].last_write_block = b
    BY <1>2, <1>8, <2>1, Zenon DEF Touched
  <2> QED
    BY <1>6, <2>1, <2>2 DEF Owner
<1> QED
  BY <1>2, <1>7, <1>10, <1>11, <1>b DEF Good, HeadsOf

\* flashfile_init_record
LEMMA InitRecordGood ==
  ASSUME NEW n \in Nat, NEW s, NEW f, Only(f), Calm(n, s), HeadsOf(s), Bare(s, f),
         NEW t, t = InitRecord(s, f, n), ~t.wild
  PROVE  Good(n, t, f)
<1>a. PICK a : a = AllocBlock(s, f)
  OBVIOUS
<1>b. PICK b : b = a.ret
  OBVIOUS
<1>u. PICK u : u = InitHead(a, b)
  OBVIOUS
<1>h. PICK h : h = BlockWriteHead(u, b)
  OBVIOUS
<1>r. PICK r : r = (n \div Interval) * Interval
  OBVIOUS
<1>v. PICK v : v = FlashWrite(h, b, HeadSize, TagBytes(r, Stride))
  OBVIOUS
<1>g. PICK g : g = StoreLastTimeTag(v, f, r)
  OBVIOUS
<1>o. PICK o : o = DataOffset(g, f, n)
  OBVIOUS
<1>w. PICK w : w = FlashWrite(g, b, HeadSize + o, RecBytes(f, n))
  OBVIOUS
<1>f. f \in Files /\ n \in 0 .. n /\ HeadSize \in Nat
  BY Sizes DEF Only
<1>0. t = IF b = NoBlock THEN [a EXCEPT !.wild = TRUE] ELSE [w EXCEPT !.ret = 0]
  BY <1>a, <1>b, <1>u, <1>h, <1>r, <1>v, <1>g, <1>o, <1>w, Zenon DEF InitRecord, InitHead
<1>1. b # NoBlock
  <2>1. a \in States(n)
    BY <1>a, AllocHeads DEF Calm
  <2>2. b = NoBlock => t = [a EXCEPT !.wild = TRUE]
    BY <1>0
  <2> QED
    BY <2>1, <2>2, SetWild DEF States
<1>2. Good(n, h, f) /\ b \in Blocks
  BY <1>a, <1>b, <1>u, <1>h, <1>1, InitHeadGood
<1>3. r \in 0 .. n
  BY <1>r, RoundDown
<1>4. TagBytes(r, Stride) \in Seq(ByteSet(n)) /\ RecBytes(f, n) \in Seq(ByteSet(n))
  BY <1>f, <1>3, BytesAre
<1>5. Good(n, v, f)
  BY <1>f, <1>v, <1>2, <1>4, FlashWriteGood
<1>6. Good(n, g, f)
  BY <1>g, <1>3, <1>5, StoreGood
<1>7. g.file[f].tag_time = r /\ g \in States(n)
  BY <1>f, <1>g, <1>3, <1>5, <1>6, StoreLastTimeTagIs DEF Good, Calm
<1>8. o \in Nat
  <2>1. n >= g.file[f].tag_time
    BY <1>3, <1>7
  <2> QED
    BY <1>f, <1>o, <1>7, <2>1, DataOffsetIs
<1>9. Good(n, w, f)
  <2>1. HeadSize + o \in Nat
    BY <1>f, <1>8
  <2> QED
    BY <1>w, <1>2, <1>4, <1>6, <2>1, FlashWriteGood
<1>10. t = [w EXCEPT !.ret = 0] /\ 0 \in Int
  BY <1>0, <1>1
<1> QED
  BY <1>9, <1>10, RetGood

\* The inductive invariant of the headers, up to the first restart.
HeadInv ==
  boots = 0 => HeadsOf(fs) /\ \A f \in Files : Desc(f).total_block = 0 => Bare(fs, f)

\* An erased flash.
LEMMA HeadInvInit ==
  ASSUME OneFile, Init
  PROVE  HeadInv
<1>F. PICK F : F = [b \in Blocks |-> ErasedBlock]
  OBVIOUS
<1>0. now \in Nat /\ fs = SystemInit(F, Stride) /\ Stride \in Offsets
  BY <1>F, StrideIs, Sizes DEF Init, Offsets
<1>1. F \in FlashSet(now) /\ \A b \in Blocks : F[b].head = ErasedHead
  <2>1. ErasedBlock \in [head : HeadSet, body : BodySet(now)] /\ ErasedBlock.head = ErasedHead
    BY <1>0, ErasedType DEF ErasedBlock
  <2> QED
    BY <1>F, <2>1 DEF FlashSet
<1>2. NoFile \notin Files /\ ErasedHead.file_id = NoFile
  BY LimitIs DEF NoFile, ErasedHead
<1>3. HeadsOf(fs)
  <2>1. fs.map = [b \in Blocks |-> F[b].head] /\ fs.flash = F
    BY <1>0, <1>1, SystemInitIs DEF Booted
  <2> QED
    BY <1>1, <1>2, <2>1 DEF HeadsOf, HeadOf
<1>4. ASSUME NEW f \in Files PROVE Bare(fs, f)
  <2>u. PICK u : u = Unpowered(F)
    OBVIOUS
  <2>1. Files = {f}
    BY OnlyIs DEF Only
  <2>2. u \in Booted(now, F) /\ u.map = [b \in Blocks |-> F[b].head] /\ u \in States(now)
    BY <1>0, <1>1, <2>u, UnpoweredIs DEF Booted
  <2>3. fs = ScanFileBlock(u, f, Stride)
    BY <1>0, <1>1, <2>1, <2>u, SystemInitIs
  <2>4. {i \in Blocks : u.map[i].file_id = f} = {}
    BY <1>1, <1>2, <2>2
  <2>c. PICK c : fs = [u EXCEPT !.chain = c, !.file[f] = [Descriptor0 EXCEPT !.tag_offset = -1]]
    BY <2>3, <2>4, Zenon DEF ScanFileBlock
  <2>5. u.file \in [Files -> DescSet(now)]
    BY <2>2 DEF States
  <2>6. fs.file = [u.file EXCEPT ![f] = [Descriptor0 EXCEPT !.tag_offset = -1]]
    BY <2>2, <2>c, Zenon DEF States
  <2>7. fs.file[f] = [Descriptor0 EXCEPT !.tag_offset = -1]
    BY <2>5, <2>6
  <2> QED
    BY <2>7 DEF Bare, Descriptor0
<1> QED
  BY <1>3, <1>4 DEF HeadInv

\* A file that has a block has the one written last.
LEMMA OwnerIs ==
  ASSUME NEW s, NEW f, Only(f), NEW t, NEW x, NEW sec, Filled(s, f, t, x, sec)
  PROVE  Owner(s, f)
<1>1. PICK e : Behind(s, f, e)
  BY DEF Filled
<1>2. PICK m, q, w : Laid(s, f, m, q, w) /\ At(s.file[f].tag_block, m, q, w, e)
  BY <1>1 DEF Behind
<1>3. m \in Nat /\ m > 0
  BY <1>2 DEF At
<1>4. s.file[f].last_write_block = q[m] /\ q[m] \in Blocks /\ Member(q[m], m, q)
  <2>1. m \in 1 .. m
    BY <1>3
  <2> QED
    BY <1>2, <1>3, <2>1 DEF Laid, Ring, Member
<1>5. \A b \in Blocks : Member(b, m, q) => s.map[b].file_id = f
  BY <1>2 DEF Laid, Ring
<1> QED
  BY <1>4, <1>5 DEF Owner

\* Every step keeps the invariant.
LEMMA HeadInvNext ==
  ASSUME OneFile, TypeInv, FileInv, FileInv', HeadInv, [Next]_vars
  PROVE  HeadInv'
<1>0. /\ use \in Uses /\ use.steps \subseteq Nat /\ now \in Nat /\ Calm(now, fs) /\ boots \in Nat
  BY LimitIs DEF TypeInv, FileInv
<1>c. call.file \in Files => call # Idle /\ call.time = now
  BY CallIs
<1>f. \A f \in Files : Only(f)
  BY OnlyIs
<1>b. boots = 0 => /\ HeadsOf(fs) /\ \A f \in Files : Desc(f).total_block = 0 => Bare(fs, f)
                   /\ \A f \in Files : \/ call = Idle /\ \E q, w : Laid(fs, f, 0, q, w)
                                       \/ Filled(fs, f, now, Rested, EverySecond)
  BY DEF HeadInv, FileInv
<1>g. ASSUME boots = 0, NEW f \in Files, fs.file[f].total_block # 0 PROVE Good(now, fs, f)
  <2>1. Filled(fs, f, now, Rested, EverySecond)
    BY <1>b, <1>g, FirstCall
  <2>2. Owner(fs, f)
    BY <1>f, <2>1, OwnerIs
  <2> QED
    BY <1>0, <1>b, <1>g, <2>2 DEF Good
<1>d. ASSUME boots' = boots, NEW f \in Files, NEW n, boots = 0 => Good(n, fs', f) PROVE HeadInv'
  <2> SUFFICES ASSUME boots = 0 PROVE HeadInv'
    BY <1>d DEF HeadInv
  <2>1. HeadsOf(fs') /\ Owner(fs', f)
    BY <1>d DEF Good
  <2>2. fs'.file[f].total_block # 0
    <3>1. CASE \E q, w : Laid(fs', f, 0, q, w)
      <4>1. /\ \A b \in Blocks : fs'.map[b] = ErasedHead
            /\ fs'.file[f].last_write_block = 0 /\ 0 \in Blocks
        BY <3>1, Sizes DEF Laid, Ring, Blocks
      <4>2. f = NoFile
        BY <2>1, <4>1 DEF Owner, ErasedHead
      <4> QED
        BY <4>2, LimitIs DEF NoFile
    <3>2. CASE Filled(fs', f, now', Rested', EverySecond')
      BY <1>f, <3>2, LaterCall
    <3>3. boots' = 0
      BY <1>d
    <3> QED
      BY <3>1, <3>2, <3>3 DEF FileInv
  <2>3. \A g \in Files : g = f
    BY <1>f DEF Only
  <2> QED
    BY <2>1, <2>2, <2>3 DEF HeadInv, Desc
<1>1. ASSUME NEW f \in Files, NEW d \in use.steps, AppendRecord(f, d) PROVE HeadInv'
  <2>n. PICK n : n = now + d
    OBVIOUS
  <2>1. n \in Nat /\ now <= n /\ boots' = boots /\ fs' = Enter(fs, f, n) /\ n \in 0 .. n
    BY <1>0, <1>1, <2>n DEF AppendRecord
  <2>2. Calm(n, fs)
    BY <1>0, <2>1, CalmLater
  <2>3. ASSUME boots = 0 PROVE Good(n, fs', f)
    <3>1. CASE fs.file[f].total_block = 0
      <4>1. fs' = InitRecord(fs, f, n)
        BY <2>1, <3>1, Zenon DEF Enter
      <4>2. HeadsOf(fs) /\ Bare(fs, f)
        BY <1>b, <2>3, <3>1 DEF Desc
      <4>3. PICK q, w : Laid(fs, f, 0, q, w)
        BY <1>b, <1>f, <2>3, <3>1, LaterCall
      <4>4. ~fs'.wild
        <5>1. First(n, fs, fs', f, n)
          BY <1>f, <2>1, <2>2, <4>1, <4>3, FirstLaid DEF Calm
        <5> QED
          BY <1>f, <5>1, BehindIs DEF First
      <4> QED
        BY <1>f, <2>1, <2>2, <4>1, <4>2, <4>4, InitRecordGood
    <3>2. CASE fs.file[f].total_block # 0
      <4>1. Good(n, fs, f)
        BY <1>g, <2>2, <2>3, <3>2 DEF Good
      <4>2. Good(n, AppendTimeTag(fs, f, n), f)
        BY <1>f, <2>1, <4>1, AppendTimeTagGood
      <4> QED
        BY <2>1, <3>2, <4>1, <4>2, Zenon DEF Enter
    <3> QED
      BY <3>1, <3>2
  <2> QED
    BY <1>d, <2>1, <2>3
<1>2. ASSUME InsertTag PROVE HeadInv'
  <2>f. PICK f \in Files : f = call.file
    BY <1>2 DEF InsertTag
  <2>1. call # Idle /\ fs' = LoopTag(fs, f, now) /\ boots' = boots
    BY <1>2, <1>c, <2>f DEF InsertTag
  <2>2. ASSUME boots = 0 PROVE Good(now, fs', f)
    <3>1. Good(now, fs, f)
      BY <1>b, <1>f, <1>g, <2>1, <2>2, LaterCall
    <3>r. PICK r : r = (now \div Interval) * Interval
      OBVIOUS
    <3>2. r \in 0 .. now /\ fs' = AppendTimeTag(fs, f, r)
      BY <1>0, <2>1, <3>r, RoundDown DEF LoopTag
    <3> QED
      BY <1>0, <1>f, <3>1, <3>2, AppendTimeTagGood
  <2> QED
    BY <1>d, <2>1, <2>2
<1>3. ASSUME WriteData PROVE HeadInv'
  <2>f. PICK f \in Files : f = call.file
    BY <1>3 DEF WriteData
  <2>1. call # Idle /\ fs' = WriteRecord(fs, f, now) /\ boots' = boots
    BY <1>3, <1>c, <2>f DEF WriteData
  <2>2. ASSUME boots = 0 PROVE Good(now, fs', f)
    <3>1. Good(now, fs, f)
      BY <1>b, <1>f, <1>g, <2>1, <2>2, LaterCall
    <3> QED
      BY <1>0, <1>f, <2>1, <3>1, WriteRecordGood
  <2> QED
    BY <1>d, <2>1, <2>2
<1>4. ASSUME Restart PROVE HeadInv'
  BY <1>0, <1>4 DEF Restart, HeadInv
<1>5. CASE UNCHANGED vars
  BY <1>5 DEF vars, HeadInv, Desc
<1> QED
  BY <1>1, <1>2, <1>3, <1>4, <1>5 DEF Next

-----------------------------------------------------------------------------
(* The theorems.                                                           *)

\* The inductive invariant holds: one file, whose records are a unit of time apart
\* at least, is a ring of blocks with all its bytes before the slot of the next record.
THEOREM FlashFiles == OneFile => (Spec => [](TypeInv /\ FileInv))
<1> SUFFICES ASSUME OneFile PROVE Spec => [](TypeInv /\ FileInv)
  OBVIOUS
<1>1. Init => TypeInv /\ FileInv
  BY TypeInvInit, FileInvInit
<1>2. TypeInv /\ FileInv /\ [Next]_vars => (TypeInv /\ FileInv)'
  BY TypeInvNext, FileInvNext
<1> QED
  BY <1>1, <1>2, PTL DEF Spec

\* NoWild: neither flashfile_block_write nor flashfile_init_record indexes its tables
\* with the number of no file or of no block.
THEOREM FlashNoWild == OneFile => (Spec => []NoWild)
<1> SUFFICES ASSUME OneFile PROVE Spec => []NoWild
  OBVIOUS
<1>1. TypeInv /\ FileInv => NoWild
  <2> SUFFICES ASSUME TypeInv, FileInv, boots = 0 PROVE ~fs.wild
    BY DEF NoWild
  <2>1. PICK f : f \in Files
    BY DEF OneFile
  <2> QED
    BY <2>1, FileSafe DEF Safe
<1>2. Spec => [](TypeInv /\ FileInv)
  BY FlashFiles
<1> QED
  BY <1>1, <1>2, PTL

\* ChainInFile: nextBlockChain visits exactly the blocks whose header names the file.
THEOREM FlashChain == OneFile => (Spec => []ChainInFile)
<1> SUFFICES ASSUME OneFile PROVE Spec => []ChainInFile
  OBVIOUS
<1>1. TypeInv /\ FileInv => ChainInFile
  BY FileSafe DEF Safe, ChainInFile
<1>2. Spec => [](TypeInv /\ FileInv)
  BY FlashFiles
<1> QED
  BY <1>1, <1>2, PTL

\* WithinLimit: flashfile_round_file_struct keeps the file within its limit.
THEOREM FlashLimit == OneFile => (Spec => []WithinLimit)
<1> SUFFICES ASSUME OneFile PROVE Spec => []WithinLimit
  OBVIOUS
<1>1. TypeInv /\ FileInv => WithinLimit
  BY FileSafe DEF Safe, WithinLimit
<1>2. Spec => [](TypeInv /\ FileInv)
  BY FlashFiles
<1> QED
  BY <1>1, <1>2, PTL

\* NoGarble: no two of the tags and records that flashfile_write puts on the flash
\* overlap, in one block or over the end of it.
THEOREM FlashNoGarble == OneFile => (Spec => []NoGarble)
<1> SUFFICES ASSUME OneFile PROVE Spec => []NoGarble
  OBVIOUS
<1>1. TypeInv /\ FileInv => NoGarble
  <2> SUFFICES ASSUME TypeInv, FileInv, boots = 0
               PROVE  \A b \in Blocks, o \in Body : fs.flash[b].body[o] # Garbled
    BY DEF NoGarble
  <2>1. PICK f : f \in Files
    BY DEF OneFile
  <2> QED
    BY <2>1, FileSafe DEF Safe
<1>2. Spec => [](TypeInv /\ FileInv)
  BY FlashFiles
<1> QED
  BY <1>1, <1>2, PTL

\* HeadsTrue: the headers of a file's blocks read on the flash as block_map has them,
\* but for what is left of the first one, which flashfile_init_record programs twice.
THEOREM FlashHeads == OneFile => (Spec => []HeadsTrue)
<1> SUFFICES ASSUME OneFile PROVE Spec => []HeadsTrue
  OBVIOUS
<1>1. Init => HeadInv
  BY HeadInvInit
<1>2. TypeInv /\ FileInv /\ FileInv' /\ HeadInv /\ [Next]_vars => HeadInv'
  BY HeadInvNext
<1>3. HeadInv => HeadsTrue
  BY DEF HeadInv, HeadsOf, HeadOf, HeadsTrue
<1>4. Spec => [](TypeInv /\ FileInv)
  BY FlashFiles
<1> QED
  BY <1>1, <1>2, <1>3, <1>4, PTL DEF Spec

\* LoopProgress: with a record every second the loop of flashfile_append_data never
\* needs another tag.
THEOREM FlashLoop == OneFile => (Spec => []LoopProgress)
<1> SUFFICES ASSUME OneFile PROVE Spec => []LoopProgress
  OBVIOUS
<1>1. TypeInv /\ FileInv => LoopProgress
  BY NoTagNeeded
<1>2. Spec => [](TypeInv /\ FileInv)
  BY FlashFiles
<1> QED
  BY <1>1, <1>2, PTL

\* RestartWithinLimit: the first power cut, at any flash operation of any call, leaves no
\* file with more blocks than its limit (flashfile_system_init counts the headers).
THEOREM FlashRestart == OneFile /\ OneRestart => (Spec => RestartWithinLimit)
<1> SUFFICES ASSUME OneFile, OneRestart PROVE Spec => RestartWithinLimit
  OBVIOUS
<1>1. TypeInv /\ FileInv /\ [Next]_vars =>
        [boots' # boots => \A f \in Files : Desc(f)'.total_block <= BlockLimit[f]]_vars
  <2> SUFFICES ASSUME TypeInv, FileInv, [Next]_vars, boots' # boots, NEW f \in Files
               PROVE  fs'.file[f].total_block <= BlockLimit[f]
    BY DEF Desc
  <2>1. Restart
    BY DEF Next, AppendRecord, InsertTag, WriteData, vars
  <2> QED
    BY <2>1, RestartFits
<1>2. Spec => [](TypeInv /\ FileInv)
  BY FlashFiles
<1> QED
  BY <1>1, <1>2, PTL DEF Spec, RestartWithinLimit
=============================================================================
