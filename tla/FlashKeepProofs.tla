--------------------------- MODULE FlashKeepProofs ----------------------------
(*****************************************************************************)
(* The flash file system keeps the newest records: one file with a record    *)
(* every second, up to and over the first power cut at any flash operation.  *)
(* The argument is one invariant (KeepInv) on top of FileInv: the bytes of   *)
(* the file are a stream (Based: its blocks follow each other in it as they  *)
(* do in nextBlockChain); a write moves nothing that was in the stream, it   *)
(* gives up the head block at most (Flows, Moves); the record of each second *)
(* since the first one is in the stream (Stream), no further back than the   *)
(* bytes of the seconds since (Weight); and a full file reaches back over    *)
(* all its blocks but one (Covers).                                          *)
(*****************************************************************************)
EXTENDS FlashFileProofs

-----------------------------------------------------------------------------
(* The file as a stream of bytes.                                          *)

\* The bytes of a block's body.
Room == BlockSize - HeadSize

\* The blocks but those in Z stay with the file, and keep every byte written.
Survives(s, t, f, Z) ==
  \A b \in Blocks \ Z :
    /\ s.flash[b].head.file_id = f => t.flash[b].head.file_id = f
    /\ \A o \in Body : s.flash[b].body[o] = Erased \/ t.flash[b].body[o] = s.flash[b].body[o]

\* The block a full file gives up for a new one.
Dropped(s, f) == IF Full(s, f) THEN {s.file[f].start_block} ELSE {}

\* The stream places the blocks of a file cover before the last one.
Extent(s, f) == (s.file[f].total_block - 1) * Room

\* Byte o of block b is place g[b] + o of the stream: the blocks of the file follow
\* each other in the stream as they do in nextBlockChain.
Based(s, f, g) ==
  /\ g \in [Blocks -> Int]
  /\ \A b \in Blocks : s.map[b].file_id = f /\ b # s.file[f].last_write_block =>
       g[s.chain[b]] = g[b] + Room
  /\ g[s.file[f].last_write_block] = g[s.file[f].start_block] + Extent(s, f)

\* The first place of the stream that the file still has.
Begin(s, f, g) == g[s.file[f].start_block] + HeadSize

\* Byte v is at place x of the stream, in a block the file owns in RAM and on the flash.
Place(s, f, g, x, v) ==
  \E b \in Blocks, o \in Body : /\ s.map[b].file_id = f /\ s.flash[b].head.file_id = f
                               /\ g[b] + o = x /\ s.flash[b].body[o] = v

\* It is, unless it was given up.
Streamed(s, f, g, x, v) == x < Begin(s, f, g) \/ Place(s, f, g, x, v)
\* A step to state t loses no byte of the stream.
Flows(s, t, f, g, h) ==
  \A x \in Int : \A v : v # Erased /\ Streamed(s, f, g, x, v) => Streamed(t, f, h, x, v)

\* The blocks of a file in the tables.
Tables(s, f) ==
  /\ f \in Files /\ f # NoFile
  /\ s.file[f].start_block \in Blocks /\ s.map[s.file[f].start_block].file_id = f
  /\ s.file[f].last_write_block \in Blocks /\ s.map[s.file[f].last_write_block].file_id = f
  /\ s.file[f].total_block \in Nat \ {0} /\ s.file[f].total_block <= BlockLimit[f]
  /\ BlockLimit[f] \in Nat /\ BlockLimit[f] >= 2
  /\ s.file[f].total_block >= 2 => s.file[f].start_block # s.file[f].last_write_block
  /\ s.chain \in [Blocks -> Blocks]
  /\ \A b \in Blocks : s.map[b].file_id = f /\ b # s.file[f].last_write_block =>
       s.map[s.chain[b]].file_id = f

\* A ring is in the tables.
LEMMA TablesOf ==
  ASSUME NEW n \in Nat, NEW s \in States(n), NEW f, Only(f), NEW m, NEW q, Ring(s, f, m, q), m > 0
  PROVE  Tables(s, f)
<1>1. /\ m \in Nat /\ m <= BlockLimit[f] /\ 1 \in 1 .. m /\ m \in 1 .. m /\ m # 0
      /\ q \in [1 .. m -> Blocks] /\ f \in Files /\ BlockLimit[f] \in Nat /\ BlockLimit[f] >= 2
  BY DEF Ring, Only
<1>2. f # NoFile
  <2>1. f \in 0 .. 14
    BY LimitIs DEF Only
  <2> QED
    BY <2>1 DEF NoFile
<1>3. /\ s.file[f].start_block = q[1] /\ s.file[f].last_write_block = q[m] /\ s.file[f].total_block = m
      /\ \A b \in Blocks : s.map[b].file_id = f <=> Member(b, m, q)
  BY <1>1, Zenon DEF Ring
<1>4. q[1] \in Blocks /\ q[m] \in Blocks /\ Member(q[1], m, q) /\ Member(q[m], m, q)
  BY <1>1, Zenon DEF Member
<1>5. m >= 2 => q[1] # q[m]
  <2>1. m >= 2 => 1 # m
    BY <1>1
  <2> QED
    BY <1>1, <2>1, Zenon DEF Ring
<1>6. s.chain \in [Blocks -> Blocks]
  BY DEF States
<1>7. ASSUME NEW b \in Blocks, s.map[b].file_id = f, b # s.file[f].last_write_block
      PROVE  s.map[s.chain[b]].file_id = f
  <2>1. PICK i \in 1 .. m : q[i] = b
    BY <1>3, <1>7, Zenon DEF Member
  <2>2. i \in 1 .. m - 1 /\ i + 1 \in 1 .. m
    BY <1>1, <1>3, <1>7, <2>1
  <2>3. s.chain[b] = q[i + 1] /\ q[i + 1] \in Blocks
    BY <1>1, <2>1, <2>2, Zenon DEF Ring
  <2>4. Member(q[i + 1], m, q)
    BY <2>2, Zenon DEF Member
  <2> QED
    BY <1>3, <2>3, <2>4, Zenon
<1> QED
  BY <1>1, <1>2, <1>3, <1>4, <1>5, <1>6, <1>7, SMTT(60) DEF Tables

\* Taking a block loses nothing but the block given up.
LEMMA AllocSurvives ==
  ASSUME NEW s, NEW a, NEW f, NEW b \in Blocks, Allocated(s, a, f, b)
  PROVE  Survives(s, a, f, Dropped(s, f))
<1>1. PICK u, v : Freed(s, u, f) /\ Grown(u, v, f, b) /\ SameState(v, a)
  BY Zenon DEF Allocated
<1>2. \A c \in Blocks : c \notin Dropped(s, f) => u.flash[c] = s.flash[c]
  <2>1. CASE s.fuel = 0
    BY <1>1, <2>1, Zenon DEF Freed, Power
  <2>2. CASE s.fuel # 0 /\ Full(s, f)
    <3>1. \A c \in Blocks : c # s.file[f].start_block => u.flash[c] = s.flash[c]
      BY <1>1, <2>2, Zenon DEF Freed
    <3>2. Dropped(s, f) = {s.file[f].start_block}
      BY <2>2, Zenon DEF Dropped
    <3> QED
      BY <3>1, <3>2
  <2>3. CASE ~Full(s, f)
    BY <1>1, <2>3, Zenon DEF Freed
  <2> QED
    BY <2>1, <2>2, <2>3, Zenon
<1>3. a.flash = v.flash
  BY <1>1, Zenon DEF SameState
<1>4. CASE u.fuel = 0
  <2>1. v.flash = u.flash
    BY <1>1, <1>4, Zenon DEF Grown, Power
  <2> QED
    BY <1>2, <1>3, <2>1 DEF Survives
<1>5. CASE u.fuel # 0
  <2>1. /\ v.flash[b].head.file_id = f /\ v.flash[b].body = u.flash[b].body
        /\ \A c \in Blocks : c # b => v.flash[c] = u.flash[c]
    BY <1>1, <1>5, Zenon DEF Grown
  <2> QED
    BY <1>2, <1>3, <2>1 DEF Survives
<1> QED
  BY <1>4, <1>5, Zenon

\* The bases once a block is taken.
Moved(s, t, f, g, h) ==
  /\ Based(t, f, h)
  /\ \A c \in Blocks : s.map[c].file_id = f => h[c] = g[c] /\ (c \in Dropped(s, f) \/ t.map[c].file_id = f)
  /\ Full(s, f) => Begin(t, f, h) = Begin(s, f, g) + Room
  /\ ~Full(s, f) => Begin(t, f, h) = Begin(s, f, g) /\ t.file[f].total_block = s.file[f].total_block + 1

\* The tables of flashfile_alloc_block.
Taken(s, a, f, b) ==
  /\ a.file[f].last_write_block = b /\ a.map[b].file_id = f /\ b # s.file[f].last_write_block
  /\ a.chain[s.file[f].last_write_block] = b
  /\ \A c \in Blocks : c # b => (a.map[c].file_id = f <=> s.map[c].file_id = f /\ c \notin Dropped(s, f))
  /\ \A c \in Blocks : c \notin Dropped(s, f) /\ c # s.file[f].last_write_block => a.chain[c] = s.chain[c]
  /\ Full(s, f) => /\ a.file[f].start_block = s.chain[s.file[f].start_block]
                   /\ a.file[f].total_block = s.file[f].total_block
                   /\ s.file[f].start_block # s.file[f].last_write_block
  /\ ~Full(s, f) => /\ a.file[f].start_block = s.file[f].start_block
                    /\ a.file[f].total_block = s.file[f].total_block + 1

\* flashfile_alloc_block writes these tables.
LEMMA AllocTakes ==
  ASSUME NEW s, NEW a, NEW f, Tables(s, f), NEW b \in Blocks, s.map[b].file_id = NoFile,
         Allocated(s, a, f, b)
  PROVE  Taken(s, a, f, b)
<1>1. PICK u, v : Freed(s, u, f) /\ Grown(u, v, f, b) /\ SameState(v, a)
  BY Zenon DEF Allocated
<1>p. PICK p : p = s.file[f].start_block
  OBVIOUS
<1>l. PICK l : l = s.file[f].last_write_block
  OBVIOUS
<1>2. b # l /\ b # p /\ f # NoFile /\ l \in Blocks
  BY <1>p, <1>l DEF Tables
<1>3. Chained(u, v, f, b) /\ a.map = v.map /\ a.chain = v.chain /\ a.file = v.file
  BY <1>1, Zenon DEF Grown, SameState
<1>4. CASE Full(s, f)
  <2>1. Unchained(s, u, f, p)
    BY <1>1, <1>4, <1>p, Zenon DEF Freed
  <2>2. s.file[f].total_block \in Nat /\ p # l
    BY <1>4, <1>p, <1>l DEF Tables, Full
  <2>3. Dropped(s, f) = {p}
    BY <1>4, <1>p, Zenon DEF Dropped
  <2>4. /\ u.file[f].last_write_block = l /\ u.file[f].start_block = s.chain[p]
        /\ u.file[f].total_block = s.file[f].total_block - 1
        /\ u.map[p].file_id = NoFile /\ \A c \in Blocks : c # p => u.map[c] = s.map[c] /\ u.chain[c] = s.chain[c]
    BY <1>l, <2>1 DEF Unchained
  <2>5. /\ a.file[f].last_write_block = b /\ a.map[b].file_id = f /\ a.chain[l] = b
        /\ a.file[f].start_block = s.chain[p] /\ a.file[f].total_block = s.file[f].total_block
        /\ \A c \in Blocks : c # b => a.map[c] = u.map[c]
        /\ \A c \in Blocks : c # l => a.chain[c] = u.chain[c]
    BY <1>3, <2>2, <2>4 DEF Chained
  <2> QED
    BY <1>2, <1>4, <1>p, <1>l, <2>2, <2>3, <2>4, <2>5 DEF Taken
<1>5. CASE ~Full(s, f)
  <2>1. u = s /\ Dropped(s, f) = {}
    BY <1>1, <1>5, Zenon DEF Freed, Dropped
  <2>5. /\ a.file[f].last_write_block = b /\ a.map[b].file_id = f /\ a.chain[l] = b
        /\ a.file[f].start_block = p /\ a.file[f].total_block = s.file[f].total_block + 1
        /\ \A c \in Blocks : c # b => a.map[c] = s.map[c]
        /\ \A c \in Blocks : c # l => a.chain[c] = s.chain[c]
    BY <1>3, <1>p, <1>l, <2>1 DEF Chained
  <2> QED
    BY <1>2, <1>5, <1>p, <1>l, <2>1, <2>5 DEF Taken
<1> QED
  BY <1>4, <1>5, Zenon

\* A block has room behind its header.
LEMMA RoomIs == Room \in Nat /\ Room > 0 /\ HeadSize \in Nat /\ Room + HeadSize = BlockSize
BY Sizes DEF Room

\* One more block is one more Room.
LEMMA ExtentIs ==
  ASSUME NEW s, NEW f, Tables(s, f)
  PROVE  /\ Extent(s, f) \in Int
         /\ \A t : t.file[f].total_block = s.file[f].total_block + 1 => Extent(t, f) = Extent(s, f) + Room
<1>1. PICK k \in Int : k = s.file[f].total_block
  BY DEF Tables
<1>2. PICK r \in Int : r = Room
  BY RoomIs
<1>3. (k - 1) * r \in Int /\ ((k + 1) - 1) * r = (k - 1) * r + r
  OBVIOUS
<1> QED
  BY <1>1, <1>2, <1>3, Zenon DEF Extent

\* Block b is put behind the last one.
Rebased(s, f, g, b) == [g EXCEPT ![b] = g[s.file[f].last_write_block] + Room]

\* The new block b comes behind the last one.
MovesTo(s, a, f, g, h, b) == Moved(s, a, f, g, h) /\ h[b] = g[s.file[f].last_write_block] + Room

\* The bases when a block is taken.
LEMMA AllocMoves ==
  ASSUME NEW s, NEW a, NEW f, Tables(s, f), NEW g, Based(s, f, g), NEW b \in Blocks, s.map[b].file_id = NoFile,
         Taken(s, a, f, b)
  PROVE  MovesTo(s, a, f, g, Rebased(s, f, g, b), b)
<1>x. PICK h : h = Rebased(s, f, g, b)
  OBVIOUS
<1>p. PICK p : p = s.file[f].start_block
  OBVIOUS
<1>l. PICK l : l = s.file[f].last_write_block
  OBVIOUS
<1>h. h = [g EXCEPT ![b] = g[l] + Room]
  BY <1>l, <1>x, Zenon DEF Rebased
<1>1. /\ p \in Blocks /\ l \in Blocks /\ s.map[p].file_id = f /\ s.map[l].file_id = f /\ f # NoFile
      /\ g \in [Blocks -> Int] /\ Room \in Int /\ HeadSize \in Int
  BY <1>p, <1>l, RoomIs DEF Tables, Based
<1>2. /\ h \in [Blocks -> Int] /\ h[b] = g[l] + Room /\ \A c \in Blocks : c # b => h[c] = g[c]
      /\ g[l] + Room \in Int
  BY <1>1, <1>h
<1>3. \A c \in Blocks : s.map[c].file_id = f => c # b /\ h[c] = g[c]
  BY <1>1, <1>2, SMTT(60)
<1>4. \A c \in Blocks : s.map[c].file_id = f /\ c # l =>
        s.chain[c] \in Blocks /\ s.map[s.chain[c]].file_id = f /\ g[s.chain[c]] = g[c] + Room
  BY <1>l DEF Tables, Based
<1>5. ASSUME NEW c \in Blocks, a.map[c].file_id = f, c # b
      PROVE  h[a.chain[c]] = h[c] + Room
  <2>1. s.map[c].file_id = f /\ c \notin Dropped(s, f)
    BY <1>5 DEF Taken
  <2>2. CASE c = l
    <3>1. a.chain[c] = b
      BY <1>l, <2>2 DEF Taken
    <3> QED
      BY <1>2, <1>3, <2>1, <2>2, <3>1
  <2>3. CASE c # l
    <3>1. a.chain[c] = s.chain[c]
      BY <1>l, <2>1, <2>3 DEF Taken
    <3> QED
      BY <1>3, <1>4, <2>1, <2>3, <3>1
  <2> QED
    BY <2>2, <2>3
<1>6. /\ a.file[f].last_write_block = b
      /\ Full(s, f) => a.file[f].start_block = s.chain[p] /\ a.file[f].total_block = s.file[f].total_block /\ p # l
      /\ ~Full(s, f) => a.file[f].start_block = p /\ a.file[f].total_block = s.file[f].total_block + 1
  BY <1>p, <1>l DEF Taken
<1>7. /\ Full(s, f) => h[a.file[f].start_block] = g[p] + Room
      /\ ~Full(s, f) => h[a.file[f].start_block] = g[p]
  BY <1>1, <1>3, <1>4, <1>6
<1>8. h[b] = h[a.file[f].start_block] + Extent(a, f)
  <2>1. Extent(s, f) \in Int /\ g[l] = g[p] + Extent(s, f)
    BY <1>p, <1>l, ExtentIs DEF Based
  <2>2. Full(s, f) => Extent(a, f) = Extent(s, f)
    BY <1>6 DEF Extent
  <2>3. ~Full(s, f) => Extent(a, f) = Extent(s, f) + Room
    BY <1>6, ExtentIs, Zenon
  <2> QED
    BY <1>1, <1>2, <1>7, <2>1, <2>2, <2>3
<1>9. Based(a, f, h)
  BY <1>2, <1>5, <1>6, <1>8 DEF Based
<1>10. \A c \in Blocks : s.map[c].file_id = f => c \in Dropped(s, f) \/ a.map[c].file_id = f
  BY <1>3 DEF Taken
<1>11. /\ Full(s, f) => Begin(a, f, h) = Begin(s, f, g) + Room
       /\ ~Full(s, f) => Begin(a, f, h) = Begin(s, f, g)
  BY <1>1, <1>p, <1>7 DEF Begin
<1> QED
  <2>1. Moved(s, a, f, g, h)
    BY <1>2, <1>3, <1>6, <1>9, <1>10, <1>11, <1>l DEF Moved
  <2> QED
    BY <1>2, <1>l, <1>x, <2>1, Zenon DEF MovesTo

\* What is in the stream stays there when a block is taken, or was given up.
LEMMA MovedFlows ==
  ASSUME NEW s, NEW a, NEW f, Tables(s, f), NEW g, Based(s, f, g), NEW h, Moved(s, a, f, g, h),
         Survives(s, a, f, Dropped(s, f))
  PROVE  Flows(s, a, f, g, h)
<1>p. PICK p : p = s.file[f].start_block
  BY Zenon
<1>1. /\ g \in [Blocks -> Int] /\ h \in [Blocks -> Int] /\ p \in Blocks
      /\ Room \in Int /\ Room > 0 /\ HeadSize \in Int /\ Room + HeadSize = BlockSize
      /\ Begin(s, f, g) = g[p] + HeadSize
  BY <1>p, RoomIs DEF Tables, Based, Moved, Begin
<1>b. PICK u, w : u = Begin(s, f, g) /\ w = Begin(a, f, h)
  OBVIOUS
<1>2. u \in Int /\ w \in Int /\ u <= w /\ (Full(s, f) => w = g[p] + BlockSize)
  BY <1>1, <1>b DEF Moved
<1> SUFFICES ASSUME NEW x \in Int, NEW v, v # Erased, Streamed(s, f, g, x, v) PROVE Streamed(a, f, h, x, v)
  BY DEF Flows
<1>3. CASE ~Place(s, f, g, x, v)
  <2>1. x < u
    BY <1>3, <1>b DEF Streamed
  <2>2. x < w
    BY <1>2, <2>1
  <2> QED
    BY <2>2, <1>b DEF Streamed
<1>4. CASE Place(s, f, g, x, v)
  <2>1. PICK b \in Blocks, o \in Body : /\ s.map[b].file_id = f /\ s.flash[b].head.file_id = f
                                        /\ g[b] + o = x /\ s.flash[b].body[o] = v
    BY <1>4 DEF Place
  <2>2. o \in Int /\ o < BlockSize /\ BlockSize \in Int
    BY Sizes DEF Body
  <2>3. CASE b \in Dropped(s, f)
    <3>1. Full(s, f) /\ b = p
      BY <1>p, <2>3, Zenon DEF Dropped
    <3>2. x < w
      BY <1>1, <1>2, <2>1, <2>2, <3>1
    <3> QED
      BY <1>b, <3>2 DEF Streamed
  <2>4. CASE b \notin Dropped(s, f)
    <3>1. a.map[b].file_id = f /\ h[b] = g[b]
      BY <2>1, <2>4 DEF Moved
    <3>2. a.flash[b].body[o] = v /\ a.flash[b].head.file_id = f
      BY <2>1, <2>4, SMTT(60) DEF Survives
    <3> QED
      BY <2>1, <3>1, <3>2, Zenon DEF Streamed, Place
  <2> QED
    BY <2>3, <2>4
<1> QED
  BY <1>3, <1>4

\* The first i of a run of bytes are put behind place off of the file's last block.
Put(s, t, f, g, off, i, bytes) ==
  /\ Based(t, f, g) /\ Begin(t, f, g) = Begin(s, f, g)
  /\ t.map = s.map /\ t.chain = s.chain
  /\ t.file[f].total_block = s.file[f].total_block /\ t.file[f].start_block = s.file[f].start_block
  /\ t.file[f].last_write_block = s.file[f].last_write_block /\ t.file[f].last_write_offset = off
  /\ Flows(s, t, f, g, g)
  /\ s.fuel # 0 => \A k \in 1 .. i :
       Place(t, f, g, g[s.file[f].last_write_block] + off + k - 1, bytes[k])

\* flashfile_block_write into erased bytes.
LEMMA PutIs ==
  ASSUME NEW s, NEW t, NEW f, Tables(s, f), Synced(s), NEW g, Based(s, f, g),
         NEW l, l = s.file[f].last_write_block, NEW off \in Nat, HeadSize <= off,
         NEW bytes, Len(bytes) \in Nat, off + Len(bytes) <= BlockSize,
         Touched(s, t, l, off), Power(s, t),
         s.fuel # 0 => /\ Wrote(s.flash, t.flash, l, off, bytes)
                       /\ \A o \in Body : o >= off => s.flash[l].body[o] = Erased
  PROVE  Put(s, t, f, g, off, Len(bytes), bytes)
<1>1. l \in Blocks /\ s.map[l].file_id = f /\ f \in Files /\ g \in [Blocks -> Int]
  BY DEF Tables, Based
<1>2. /\ t.map = s.map /\ t.chain = s.chain /\ t.file[f].last_write_block = l
      /\ t.file[f].last_write_offset = off /\ SameFile(s.file[f], t.file[f])
  BY <1>1, Zenon DEF Touched
<1>3. t.file[f].start_block = s.file[f].start_block /\ t.file[f].total_block = s.file[f].total_block
  BY <1>2, ZenonT(60) DEF SameFile
<1>4. Based(t, f, g) /\ Begin(t, f, g) = Begin(s, f, g)
  BY <1>2, <1>3 DEF Based, Begin, Extent
<1>5. \A b \in Blocks : t.flash[b].head = s.flash[b].head \/ s.fuel = 0
  BY <1>1, Zenon DEF Wrote
<1>6. \A b \in Blocks, o \in Body : s.flash[b].body[o] = Erased \/ t.flash[b].body[o] = s.flash[b].body[o]
  <2> SUFFICES ASSUME NEW b \in Blocks, NEW o \in Body, s.fuel # 0, ~(s.flash[b].body[o] = Erased)
               PROVE  t.flash[b].body[o] = s.flash[b].body[o]
    BY DEF Power
  <2>1. CASE b # l
    BY <2>1, Zenon DEF Wrote
  <2>2. CASE b = l
    <3>1. o \in Int
      BY Sizes, SMTT(60) DEF Body
    <3>2. o < off
      BY <2>2, <3>1, SMTT(60)
    <3> QED
      BY <2>2, <3>2, Zenon DEF Wrote
  <2> QED
    BY <2>1, <2>2
<1>7. \A b \in Blocks : s.flash[b].head.file_id = f => t.flash[b].head.file_id = f
  BY <1>5 DEF Power
<1>9. Flows(s, t, f, g, g)
  <2> SUFFICES ASSUME NEW x \in Int, NEW v, v # Erased, Streamed(s, f, g, x, v) PROVE Streamed(t, f, g, x, v)
    BY DEF Flows
  <2>1. CASE x < Begin(s, f, g)
    BY <1>4, <2>1, Zenon DEF Streamed
  <2>2. CASE Place(s, f, g, x, v)
    <3>1. PICK b \in Blocks, o \in Body : /\ s.map[b].file_id = f /\ s.flash[b].head.file_id = f
                                          /\ g[b] + o = x /\ s.flash[b].body[o] = v
      BY <2>2, SMTT(60) DEF Place
    <3>2. t.flash[b].body[o] = v /\ t.flash[b].head.file_id = f
      BY <1>6, <1>7, <3>1, SMTT(60)
    <3> QED
      BY <1>2, <3>1, <3>2, Zenon DEF Streamed, Place
  <2> QED
    BY <2>1, <2>2 DEF Streamed
<1>w. s.fuel # 0 => \A o \in Body : o >= off /\ o < off + Len(bytes) /\ s.flash[l].body[o] = Erased =>
                        t.flash[l].body[o] = bytes[o - off + 1]
  BY SMTT(60) DEF Wrote
<1>10. ASSUME s.fuel # 0, NEW k \in 1 .. Len(bytes)
       PROVE  Place(t, f, g, g[l] + off + k - 1, bytes[k])
  <2>o. PICK o : o = off + k - 1
    OBVIOUS
  <2>1. /\ o \in Body /\ o >= off /\ o < off + Len(bytes) /\ o - off + 1 = k
        /\ g[l] + o = g[l] + off + k - 1
    <3>1. /\ g[l] \in Int /\ HeadSize \in Int /\ BlockSize \in Int /\ off \in Int /\ HeadSize <= off
          /\ Len(bytes) \in Int /\ off + Len(bytes) <= BlockSize /\ k \in Int /\ 1 <= k /\ k <= Len(bytes)
      BY <1>1, Sizes, SMTT(60)
    <3> QED
      BY ONLY <2>o, <3>1, SMTT(60) DEF Body
  <2>2. s.flash[l].body[o] = Erased
    BY <1>10, <2>1
  <2>3. t.flash[l].body[o] = bytes[k]
    <3>1. t.flash[l].body[o] = bytes[o - off + 1]
      BY <1>w, <1>10, <2>1, <2>2, Zenon
    <3> QED
      BY <2>1, <3>1, Zenon
  <2>4. t.flash[l].head.file_id = f
    BY <1>1, <1>5, <1>10 DEF Synced
  <2> QED
    BY <1>1, <1>2, <2>1, <2>3, <2>4 DEF Place
<1> QED
  BY <1>2, <1>3, <1>4, <1>9, <1>10, SMTT(60) DEF Put

\* Two steps in a row.
LEMMA FlowsThen ==
  ASSUME NEW s, NEW t, NEW u, NEW f, NEW g, NEW h, NEW i, Flows(s, t, f, g, h), Flows(t, u, f, h, i)
  PROVE  Flows(s, u, f, g, i)
BY Zenon DEF Flows

\* The rest of a run of bytes goes into a new block.
Spilled(s, t, f, g, h, p, wrote, bytes) ==
  /\ Based(t, f, h) /\ \A c \in Blocks : s.map[c].file_id = f => h[c] = g[c]
  /\ Flows(s, t, f, g, h)
  /\ t.file[f].total_block < BlockLimit[f] => Begin(t, f, h) = Begin(s, f, g)
  /\ t.fuel # 0 => \A k \in wrote + 1 .. Len(bytes) :
                     Place(t, f, h, g[p] + BlockSize + k - wrote - 1, bytes[k])
  /\ h[t.file[f].last_write_block] + t.file[f].last_write_offset = g[p] + BlockSize
  /\ Begin(t, f, h) <= g[p] + HeadSize /\ s.file[f].total_block <= t.file[f].total_block

\* That block follows the last one in the stream.
LEMMA SpillFlows ==
  ASSUME NEW n \in Nat, NEW s \in States(n), Synced(s), NEW f, Only(f), NEW m, NEW q, NEW w,
         Laid(s, f, m, q, w), m > 0, NEW bytes \in Seq(ByteSet(n)), NEW l \in Nat, l = Len(bytes),
         HeadSize + l <= BlockSize, NEW wrote \in 0 .. l - 1, NEW t, t = Spill(s, q[m], wrote, bytes),
         NEW g, Based(s, f, g)
  PROVE  \E h : Spilled(s, t, f, g, h, q[m], wrote, bytes)
<1>p. PICK p : p = q[m]
  OBVIOUS
<1>1. s.map[p].file_id = f /\ f \in Files /\ m \in Nat /\ s.file[f].last_write_block = p /\ Tables(s, f)
  <2>1. Ring(s, f, m, q)
    BY DEF Laid
  <2>2. EndsRing(s, f, m, q, q[m])
    BY <2>1, LastIs
  <2>3. Tables(s, f)
    BY <2>1, TablesOf
  <2> QED
    BY <1>p, <2>2, <2>3, Zenon DEF EndsRing
<1>a. PICK a : a = AllocBlock(s, f)
  OBVIOUS
<1>b. PICK b : b = a.ret
  OBVIOUS
<1>u. PICK u : u = SubSeq(bytes, wrote + 1, l)
  OBVIOUS
<1>2. t = IF b = NoBlock THEN [a EXCEPT !.ret = -1] ELSE BlockWrite(a, b, HeadSize, u)
  BY <1>1, <1>p, <1>a, <1>b, <1>u, Zenon DEF Spill
<1>3. PICK k, r : Sound(n, s, a) /\ Laid(a, f, k, r, HeadSize) /\ Grew(s, a, f, m, q, k, r)
  BY <1>a, AllocLaid
<1>4. /\ k \in Nat /\ k > 0 /\ r[k] = b /\ b \in Blocks /\ b # NoBlock
  <2>1. k \in Nat /\ k > 0 /\ r[k] = b /\ b \in Blocks
    BY <1>3, <1>b DEF Grew
  <2> QED
    BY <2>1, Sizes DEF Blocks, NoBlock
<1>5. s.map[b].file_id = NoFile /\ Allocated(s, a, f, b)
  BY <1>1, <1>a, <1>b, <1>4, AllocBlockIs
<1>h. PICK h : h = Rebased(s, f, g, b)
  OBVIOUS
<1>6. Taken(s, a, f, b) /\ Survives(s, a, f, Dropped(s, f))
  BY <1>1, <1>4, <1>5, AllocTakes, AllocSurvives
<1>7. Moved(s, a, f, g, h) /\ h[b] = g[p] + Room
  <2>1. MovesTo(s, a, f, g, h, b)
    BY <1>1, <1>4, <1>5, <1>6, <1>h, AllocMoves, Zenon
  <2> QED
    BY <1>1, <2>1, Zenon DEF MovesTo
<1>8. Flows(s, a, f, g, h)
  BY <1>1, <1>6, <1>7, MovedFlows
<1>9. Tables(a, f) /\ Based(a, f, h) /\ a.file[f].last_write_block = b /\ a \in States(n) /\ Synced(a)
  BY <1>3, <1>4, <1>6, <1>7, TablesOf DEF Laid, Sound, Moved, Taken
<1>10. /\ u \in Seq(ByteSet(n)) /\ Len(u) = l - wrote /\ Len(u) \in Nat
       /\ \A i \in 1 .. Len(u) : u[i] = bytes[wrote + i]
  <2>1. wrote + 1 \in Nat \ {0} /\ l \in Int /\ l <= Len(bytes) /\ wrote + 1 <= l
    OBVIOUS
  <2>2. /\ u \in Seq(ByteSet(n)) /\ Len(u) = IF wrote + 1 <= l THEN l - (wrote + 1) + 1 ELSE 0
        /\ \A i \in 1 .. Len(u) : (wrote + 1) + i - 1 \in 1 .. l /\ u[i] = bytes[(wrote + 1) + i - 1]
    BY <1>u, <2>1, SubSeqIs
  <2>3. Len(u) = l - wrote /\ Len(u) \in Nat
    BY <2>1, <2>2
  <2>4. ASSUME NEW i \in 1 .. Len(u) PROVE u[i] = bytes[wrote + i]
    <3>1. (wrote + 1) + i - 1 = wrote + i
      BY <2>3
    <3> QED
      BY <2>2, <3>1
  <2> QED
    BY <2>2, <2>3, <2>4
<1>11. /\ HeadSize \in Nat /\ HeadSize \in 0 .. BlockSize - 1 /\ HeadSize + Len(u) <= BlockSize
       /\ HeadSize <= HeadSize /\ BlockSize \in Nat
  BY <1>10, Sizes
<1>12. t = BlockWrite(a, b, HeadSize, u)
  BY <1>2, <1>4
<1>13. /\ Power(a, t) /\ Touched(a, t, b, HeadSize)
       /\ a.fuel # 0 => Wrote(a.flash, t.flash, b, HeadSize, u)
  BY <1>4, <1>9, <1>10, <1>11, <1>12, BlockWriteIs, SMTT(60)
<1>14. a.fuel # 0 => \A o \in Body : o >= HeadSize => a.flash[b].body[o] = Erased
  BY <1>3, <1>4 DEF Laid, Clean
<1>15. Put(a, t, f, h, HeadSize, Len(u), u)
  BY <1>9, <1>10, <1>11, <1>13, <1>14, PutIs
<1>16. Flows(s, t, f, g, h)
  BY <1>8, <1>15, FlowsThen, Zenon DEF Put
<1>18. t.file[f].total_block < BlockLimit[f] => Begin(t, f, h) = Begin(s, f, g)
  <2>1. t.file[f].total_block = a.file[f].total_block /\ Begin(t, f, h) = Begin(a, f, h)
    BY <1>15 DEF Put
  <2>2. CASE Full(s, f)
    <3>1. a.file[f].total_block = s.file[f].total_block
      BY <1>6, <2>2 DEF Taken
    <3>2. /\ s.file[f].total_block \in Nat /\ s.file[f].total_block <= BlockLimit[f] /\ BlockLimit[f] \in Nat
          /\ s.file[f].total_block + 1 > BlockLimit[f]
      BY <1>1, <2>2, Zenon DEF Full, Tables
    <3>3. ~(a.file[f].total_block < BlockLimit[f])
      BY <3>1, <3>2, SMTT(60)
    <3> QED
      BY <2>1, <3>3
  <2>3. CASE ~Full(s, f)
    BY <1>7, <2>1, <2>3, Zenon DEF Moved
  <2> QED
    BY <2>2, <2>3
<1>19. g[p] \in Int /\ Room \in Int /\ Room + HeadSize = BlockSize
  BY <1>1, RoomIs DEF Based, Tables
<1>20. ASSUME t.fuel # 0, NEW j \in wrote + 1 .. l
       PROVE  Place(t, f, h, g[p] + BlockSize + j - wrote - 1, bytes[j])
  <2>i. PICK i \in Int : i = j - wrote
    OBVIOUS
  <2>1. /\ i \in 1 .. Len(u) /\ wrote + i = j
        /\ h[b] + HeadSize + i - 1 = g[p] + BlockSize + j - wrote - 1
    <3>1. /\ wrote \in Int /\ l \in Int /\ j \in Int /\ j >= wrote + 1 /\ j <= l
          /\ Len(u) = l - wrote /\ HeadSize \in Int /\ h[b] = g[p] + Room
      BY <1>7, <1>10, <1>11
    <3> QED
      BY ONLY <1>19, <2>i, <3>1
  <2>2. a.fuel # 0
    BY <1>13, <1>20 DEF Power
  <2>3. Place(t, f, h, h[b] + HeadSize + i - 1, u[i])
    BY <1>9, <1>15, <2>1, <2>2 DEF Put
  <2> QED
    BY <1>10, <2>1, <2>3
<1>21. h[t.file[f].last_write_block] + t.file[f].last_write_offset = g[p] + BlockSize
  <2>1. t.file[f].last_write_block = b /\ t.file[f].last_write_offset = HeadSize
    BY <1>9, <1>15 DEF Put
  <2>a. PICK a1 \in Int : a1 = g[p]
    BY <1>19
  <2>2. h[b] = a1 + Room /\ HeadSize \in Int
    <3>1. HeadSize \in Int
      BY <1>11
    <3> QED
      BY <1>7, <2>a, <3>1, Zenon
  <2>4. a1 + Room + HeadSize = a1 + BlockSize
    BY ONLY <1>19, <2>2, a1 \in Int, SMTT(60)
  <2>3. h[b] + HeadSize = g[p] + BlockSize
    BY <2>2, <2>4, <2>a, Zenon
  <2> QED
    BY <2>1, <2>3, Zenon
<1>22. Based(t, f, h) /\ \A c \in Blocks : s.map[c].file_id = f => h[c] = g[c]
  BY <1>7, <1>15, Zenon DEF Put, Moved
<1>23. Begin(t, f, h) <= g[p] + HeadSize
  <2>1. /\ a.file[f].total_block = k /\ k >= 2 /\ k \in Nat
    <3>1. Ring(a, f, k, r) /\ (m > 0 => k >= 2)
      BY <1>3, Zenon DEF Laid, Grew
    <3> QED
      BY <1>4, <3>1 DEF Ring
  <2>2. /\ t.file[f].total_block = k /\ t.file[f].last_write_block = b
        /\ t.file[f].start_block = a.file[f].start_block
    BY <1>9, <1>15, <2>1, Zenon DEF Put
  <2>e. PICK j : j = (k - 1) * Room
    OBVIOUS
  <2>3. j \in Int /\ j >= Room
    <3>r. PICK i : i = 1 * Room
      OBVIOUS
    <3>1. k - 1 \in Int /\ 1 <= k - 1 /\ 1 \in Int /\ Room \in Nat
      BY <2>1, RoomIs
    <3>2. i = Room
      BY <3>r, RoomIs
    <3>3. j \in Int /\ i <= j
      BY <2>e, <3>r, <3>1, TimesMonotone, SMTT(60)
    <3> QED
      BY <3>2, <3>3
  <2>c. PICK c : c = a.file[f].start_block
    BY Zenon
  <2>4. h[b] = h[c] + j /\ h[c] \in Int
    <3>1. Based(t, f, h) /\ c \in Blocks
      BY <1>9, <1>22, <2>c, Zenon DEF Tables
    <3>2. h[b] = h[c] + Extent(t, f) /\ Extent(t, f) = j
      BY <2>2, <2>c, <2>e, <3>1, Zenon DEF Based, Extent
    <3> QED
      BY <3>1, <3>2 DEF Based
  <2>5. Begin(t, f, h) = h[c] + HeadSize
    BY <2>2, <2>c, Zenon DEF Begin
  <2>6. h[b] = g[p] + Room
    BY <1>7
  <2>7. HeadSize \in Int
    BY <1>11
  <2> QED
    BY ONLY <1>19, <2>3, <2>4, <2>5, <2>6, <2>7, SMTT(60)
<1>24. s.file[f].total_block <= t.file[f].total_block
  <2>1. t.file[f].total_block = a.file[f].total_block
    BY <1>15 DEF Put
  <2>2. s.file[f].total_block \in Nat
    BY <1>1 DEF Tables
  <2>3. \/ a.file[f].total_block = s.file[f].total_block
        \/ a.file[f].total_block = s.file[f].total_block + 1
    BY <1>6, Zenon DEF Taken
  <2> QED
    BY ONLY <2>1, <2>2, <2>3
<1> QED
  BY <1>p, <1>16, <1>18, <1>20, <1>21, <1>22, <1>23, <1>24 DEF Spilled

\* The first i bytes of a run are on the flash at offset off of the last block.
HeadPutIs(n, s, v, f, m, q, g, off, i, bytes) ==
  LaidAfter(n, s, v, f, m, q, off, i) /\ Put(s, v, f, g, off, i, bytes)

\* flashfile_block_write puts them there.
LEMMA HeadPut ==
  ASSUME NEW n \in Nat, NEW s \in States(n), Synced(s), NEW f, Only(f), NEW m \in Nat, NEW q,
         NEW w \in Nat, Laid(s, f, m, q, w), m > 0,
         NEW off \in Nat, w <= off, HeadSize <= off, NEW i \in Nat, i > 0, off + i <= BlockSize,
         NEW bytes \in Seq(ByteSet(n)), i <= Len(bytes), \A k \in 1 .. Len(bytes) : bytes[k] # Garbled,
         NEW v, v = BlockWrite(s, q[m], off, SubSeq(bytes, 1, i)),
         NEW g, Based(s, f, g)
  PROVE  HeadPutIs(n, s, v, f, m, q, g, off, i, bytes)
<1>p. PICK p : p = q[m]
  OBVIOUS
<1>1. /\ p \in Blocks /\ s.file[f].last_write_block = p /\ Tables(s, f)
  <2>1. Ring(s, f, m, q)
    BY DEF Laid
  <2>2. EndsRing(s, f, m, q, q[m])
    BY <2>1, LastIs
  <2>3. Tables(s, f)
    BY <2>1, TablesOf
  <2> QED
    BY <1>p, <2>2, <2>3, Zenon DEF EndsRing
<1>u. PICK u : u = SubSeq(bytes, 1, i)
  OBVIOUS
<1>2. /\ u \in Seq(ByteSet(n)) /\ Len(u) = i
      /\ \A k \in 1 .. Len(u) : u[k] = bytes[k] /\ u[k] # Garbled
  <2>1. 1 \in Nat \ {0} /\ i \in Int /\ i <= Len(bytes) /\ 1 <= i
    OBVIOUS
  <2>2. /\ u \in Seq(ByteSet(n)) /\ Len(u) = IF 1 <= i THEN i - 1 + 1 ELSE 0
        /\ \A j \in 1 .. Len(u) : 1 + j - 1 \in 1 .. Len(bytes) /\ u[j] = bytes[1 + j - 1]
    BY <1>u, <2>1, SubSeqIs
  <2>3. Len(u) = i
    BY <2>1, <2>2
  <2>4. \A j \in 1 .. Len(u) : 1 + j - 1 = j
    BY <2>3
  <2> QED
    BY <2>2, <2>3, <2>4
<1>3. off \in 0 .. BlockSize - 1 /\ off + Len(u) <= BlockSize /\ v = BlockWrite(s, p, off, u)
  <2>1. off \in 0 .. BlockSize - 1
    BY Sizes
  <2> QED
    BY <1>p, <1>u, <1>2, <2>1
<1>4. LaidAfter(n, s, v, f, m, q, off, i)
  <2>1. v = BlockWrite(s, q[m], off, u) /\ \A k \in 1 .. Len(u) : u[k] # Garbled
    BY <1>p, <1>2, <1>3
  <2>2. LaidAfter(n, s, v, f, m, q, off, Len(u))
    BY <1>2, <1>3, <2>1, WriteLaid
  <2> QED
    BY <1>2, <2>2, Zenon
<1>5. /\ Power(s, v) /\ Touched(s, v, p, off)
      /\ s.fuel # 0 => Wrote(s.flash, v.flash, p, off, u)
  <2>1. p \in Blocks /\ u \in Seq(ByteSet(n))
    BY <1>1, <1>2, Zenon
  <2> QED
    BY <1>3, <2>1, BlockWriteIs
<1>6. s.fuel # 0 => \A o \in Body : o >= off => s.flash[p].body[o] = Erased
  <2>1. \A o \in Body : o >= off => o >= w
    BY Sizes DEF Body
  <2>2. s.fuel # 0 => \A o \in Body : o >= w => s.flash[p].body[o] = Erased
    BY <1>p DEF Laid, Clean
  <2> QED
    BY <2>1, <2>2, Zenon
<1>7. Put(s, v, f, g, off, Len(u), u)
  <2>1. Len(u) \in Nat
    BY <1>2
  <2> QED
    BY <1>1, <1>3, <1>5, <1>6, <2>1, PutIs
<1>8. Put(s, v, f, g, off, i, bytes)
  <2>1. \A k \in 1 .. i : u[k] = bytes[k]
    BY <1>2
  <2>2. Put(s, v, f, g, off, i, u)
    BY <1>2, <1>7, Zenon
  <2> QED
    BY <2>1, <2>2, Zenon DEF Put
<1> QED
  BY <1>4, <1>8, Zenon DEF HeadPutIs

\* The stream begins somewhere.
LEMMA BeginIs ==
  ASSUME NEW n, NEW s \in States(n), NEW f, Only(f), NEW g, Based(s, f, g)
  PROVE  Begin(s, f, g) \in Int /\ s.file[f].start_block \in Blocks
<1>p. PICK p : p = s.file[f].start_block
  OBVIOUS
<1>1. p \in Blocks
  <2>1. s.file[f] \in DescSet(n)
    BY DEF States, Only
  <2> QED
    BY <1>p, <2>1 DEF DescSet
<1>2. g[p] \in Int /\ HeadSize \in Int
  BY <1>1, RoomIs DEF Based
<1>3. Begin(s, f, g) = g[p] + HeadSize
  BY <1>p, Zenon DEF Begin
<1> QED
  BY <1>1, <1>2, <1>3, <1>p

\* A run of bytes was put at place x of the stream.
Flown(s, t, f, g, h, x, bytes) ==
  /\ Based(t, f, h) /\ \A c \in Blocks : s.map[c].file_id = f => h[c] = g[c]
  /\ Flows(s, t, f, g, h)
  /\ t.file[f].total_block < BlockLimit[f] => Begin(t, f, h) = Begin(s, f, g)
  /\ t.fuel # 0 => \A k \in 1 .. Len(bytes) : Place(t, f, h, x + k - 1, bytes[k])
  /\ h[t.file[f].last_write_block] + t.file[f].last_write_offset \in x .. x + Len(bytes) - 1
  /\ s.file[f].total_block <= t.file[f].total_block

\* A run that fits.
LEMMA FitFlows ==
  ASSUME NEW n, NEW s, NEW t, NEW f, Tables(s, f), NEW g, Based(s, f, g), NEW m, NEW q, NEW off \in Nat, NEW bytes,
         NEW l \in Nat, l = Len(bytes), l > 0, HeadPutIs(n, s, t, f, m, q, g, off, l, bytes),
         NEW x \in Int, x = g[s.file[f].last_write_block] + off
  PROVE  Flown(s, t, f, g, g, x, bytes)
<1>1. Put(s, t, f, g, off, l, bytes) /\ LaidAfter(n, s, t, f, m, q, off, l)
  BY DEF HeadPutIs
<1>2. t.fuel # 0 => s.fuel # 0
  BY <1>1, Zenon DEF LaidAfter, Sound, Power
<1>3. /\ Based(t, f, g) /\ Flows(s, t, f, g, g) /\ Begin(t, f, g) = Begin(s, f, g)
      /\ t.file[f].last_write_block = s.file[f].last_write_block /\ t.file[f].last_write_offset = off
      /\ s.fuel # 0 => \A k \in 1 .. l : Place(t, f, g, g[s.file[f].last_write_block] + off + k - 1, bytes[k])
  BY <1>1, Zenon DEF Put
<1>4. t.fuel # 0 => \A k \in 1 .. Len(bytes) : Place(t, f, g, x + k - 1, bytes[k])
  BY <1>2, <1>3, Zenon
<1>5. x \in x .. x + l - 1
  OBVIOUS
<1>6. g[t.file[f].last_write_block] + t.file[f].last_write_offset \in x .. x + Len(bytes) - 1
  BY <1>3, <1>5, Zenon
<1>7. s.file[f].total_block <= t.file[f].total_block
  <2>1. t.file[f].total_block = s.file[f].total_block
    BY <1>1, Zenon DEF Put
  <2>y. PICK y \in Nat : y = s.file[f].total_block
    BY DEF Tables
  <2>2. y <= y
    BY ONLY <2>y, SMTT(60)
  <2> QED
    BY <2>1, <2>2, <2>y, Zenon
<1> QED
  BY <1>3, <1>4, <1>6, <1>7, Zenon DEF Flown

\* A run that went to two blocks is in the stream.
SplitFlown(s, v, t, f, g, x, l, bytes) ==
  v.ret # l /\ v.ret # -1 /\ \E h : Flown(s, t, f, g, h, x, bytes)

\* A run that goes over the end of the last block.
LEMMA SplitFlows ==
  ASSUME NEW n \in Nat, NEW s \in States(n), Synced(s), NEW f, Only(f), NEW m \in Nat, NEW q,
         NEW w \in Nat, Laid(s, f, m, q, w), m > 0,
         NEW off \in Nat, w <= off, HeadSize <= off, NEW l \in Nat, off < BlockSize, off + l > BlockSize,
         HeadSize + l <= BlockSize, NEW bytes \in Seq(ByteSet(n)), l = Len(bytes),
         \A k \in 1 .. l : bytes[k] # Garbled /\ bytes[k] # Erased,
         NEW v, v = BlockWrite(s, q[m], off, SubSeq(bytes, 1, BlockSize - off)),
         NEW t, t = Spill(v, q[m], v.ret, bytes), NEW g, Based(s, f, g), NEW x \in Int, x = g[q[m]] + off
  PROVE  SplitFlown(s, v, t, f, g, x, l, bytes)
<1>p. PICK p : p = q[m]
  OBVIOUS
<1>0. BlockSize \in Nat /\ HeadSize \in Nat
  BY Sizes
<1>i. PICK i \in Nat : i = BlockSize - off
  BY <1>0
<1>1. i > 0 /\ i \in 0 .. l - 1 /\ i # l /\ i # -1 /\ off + i <= BlockSize /\ i <= Len(bytes)
  BY <1>0, <1>i, SMTT(60)
<1>2. s.file[f].last_write_block = p /\ p \in Blocks /\ s.map[p].file_id = f /\ g[p] \in Int
  <2>1. Ring(s, f, m, q)
    BY DEF Laid
  <2>2. EndsRing(s, f, m, q, q[m])
    BY <2>1, LastIs
  <2> QED
    BY <1>p, <2>2 DEF EndsRing, Based
<1>3. HeadPutIs(n, s, v, f, m, q, g, off, i, bytes)
  <2>1. v = BlockWrite(s, q[m], off, SubSeq(bytes, 1, i)) /\ \A k \in 1 .. Len(bytes) : bytes[k] # Garbled
    BY <1>i
  <2> QED
    BY <1>1, <2>1, HeadPut
<1>4. LaidAfter(n, s, v, f, m, q, off, i) /\ Put(s, v, f, g, off, i, bytes)
  BY <1>3, Zenon DEF HeadPutIs
<1>5. /\ v \in States(n) /\ Synced(v) /\ Laid(v, f, m, q, off + i) /\ v.ret = i
      /\ v.fuel # 0 => s.fuel # 0
  BY <1>4 DEF LaidAfter, Sound, Power
<1>6. /\ Based(v, f, g) /\ Flows(s, v, f, g, g) /\ Begin(v, f, g) = Begin(s, f, g) /\ v.map = s.map
      /\ s.fuel # 0 => \A k \in 1 .. i : Place(v, f, g, g[p] + off + k - 1, bytes[k])
  BY <1>2, <1>4, Zenon DEF Put
<1>7. PICK h : Spilled(v, t, f, g, h, p, i, bytes)
  <2>1. t = Spill(v, q[m], i, bytes) /\ q[m] = p
    BY <1>p, <1>5
  <2>2. \E h : Spilled(v, t, f, g, h, q[m], i, bytes)
    BY <1>1, <1>5, <1>6, <2>1, SpillFlows
  <2> QED
    BY <2>1, <2>2, Zenon
<1>8. /\ Based(t, f, h) /\ \A c \in Blocks : s.map[c].file_id = f => h[c] = g[c]
      /\ Flows(v, t, f, g, h)
      /\ t.file[f].total_block < BlockLimit[f] => Begin(t, f, h) = Begin(s, f, g)
      /\ t.fuel # 0 => \A k \in i + 1 .. Len(bytes) : Place(t, f, h, g[p] + BlockSize + k - i - 1, bytes[k])
      /\ h[t.file[f].last_write_block] + t.file[f].last_write_offset = g[p] + BlockSize
      /\ Begin(t, f, h) <= g[p] + HeadSize /\ v.file[f].total_block <= t.file[f].total_block
  BY <1>6, <1>7, Zenon DEF Spilled
<1>t. v.file[f].total_block = s.file[f].total_block
  BY <1>4, Zenon DEF Put
<1>9. Flows(s, t, f, g, h)
  <2>1. Flows(s, v, f, g, g)
    BY <1>6, SMTT(60)
  <2>2. Flows(v, t, f, g, h)
    BY <1>8
  <2> QED
    BY <2>1, <2>2, FlowsThen
<1>10. x = g[p] + off
  BY <1>p
<1>11. (t.fuel # 0 => v.fuel # 0) /\ t \in States(n)
  <2>1. Sound(n, v, t)
    <3>1. t = Spill(v, q[m], i, bytes)
      BY <1>5
    <3>2. SpillOf(v, t, n, f, q[m], BlockSize + l - i, l)
      BY <1>1, <1>5, <3>1, SpillLaid
    <3> QED
      BY <3>2 DEF SpillOf
  <2> QED
    BY <2>1, Zenon DEF Sound, Power
<1>12. ASSUME t.fuel # 0, NEW k \in 1 .. Len(bytes) PROVE Place(t, f, h, x + k - 1, bytes[k])
  <2>1. CASE k <= i
    <3>y. PICK y \in Int : y = x + k - 1
      OBVIOUS
    <3>1. k \in 1 .. i /\ y = g[p] + off + k - 1 /\ bytes[k] # Erased
      BY <1>10, <2>1, <3>y
    <3>2. Place(v, f, g, y, bytes[k])
      BY <1>5, <1>6, <1>11, <1>12, <3>1, Zenon
    <3>3. Streamed(t, f, h, y, bytes[k])
      BY <1>8, <3>1, <3>2, Zenon DEF Flows, Streamed
    <3>4. ~(y < Begin(t, f, h))
      <4>1. PICK z : z = Begin(t, f, h)
        BY ZenonT(60)
      <4>2. z \in Int
        BY <1>8, <1>11, <4>1, BeginIs
      <4>a. PICK a \in Int : a = g[p]
        BY <1>2, SMTT(60)
      <4>3. z <= a + HeadSize /\ y = a + off + k - 1
        BY <1>8, <3>1, <4>1, <4>a, Zenon
      <4>4. off \in Int /\ HeadSize <= off /\ HeadSize \in Int /\ k \in Int /\ 1 <= k
        BY <1>0
      <4>h. HeadSize \in Int
        BY <4>4
      <4>d. PICK d \in Int : d = off + k - 1
        BY <4>4
      <4>6. HeadSize <= d
        BY ONLY <4>4, <4>d, SMTT(60)
      <4>7. y = a + d
        BY ONLY <4>3, <4>4, <4>d, a \in Int, SMTT(60)
      <4>5. ~(y < z)
        BY ONLY <4>2, <4>3, <4>6, <4>7, <4>h, a \in Int, d \in Int, SMTT(60)
      <4> QED
        BY <4>1, <4>5, Zenon
    <3> QED
      BY <3>y, <3>3, <3>4, Zenon DEF Streamed
  <2>2. CASE ~(k <= i)
    <3>1. k \in i + 1 .. Len(bytes) /\ g[p] + BlockSize + k - i - 1 = x + k - 1
      <4>1. /\ k \in Int /\ k <= l /\ i \in Int /\ off \in Int /\ BlockSize \in Int
            /\ l = Len(bytes) /\ g[p] \in Int
        BY <1>0, <1>2
      <4> QED
        BY ONLY <1>10, <1>i, <2>2, <4>1, SMTT(60)
    <3> QED
      BY <1>8, <1>12, <3>1, Zenon
  <2> QED
    BY <2>1, <2>2
<1>13. h[t.file[f].last_write_block] + t.file[f].last_write_offset \in x .. x + Len(bytes) - 1
  <2>1. /\ g[p] \in Int /\ BlockSize \in Int /\ off \in Int /\ l \in Int /\ l = Len(bytes)
        /\ off < BlockSize /\ off + l > BlockSize
    BY <1>0, <1>2
  <2>2. g[p] + BlockSize \in x .. x + Len(bytes) - 1
    BY ONLY <1>10, <2>1, SMTT(60)
  <2> QED
    BY <1>8, <2>2, Zenon
<1> QED
  <2>1. Flown(s, t, f, g, h, x, bytes)
    <3>1. s.file[f].total_block <= t.file[f].total_block
      BY <1>8, <1>t
    <3> QED
      BY <1>8, <1>9, <1>12, <1>13, <3>1, ZenonT(60) DEF Flown
  <2>2. v.ret # l /\ v.ret # -1
    BY <1>1, <1>5, SMTT(60)
  <2> QED
    BY <2>1, <2>2, Zenon DEF SplitFlown

\* The block before the last one of the ring.
BeforeIs(s, m, q, g) == /\ s.chain[q[m - 1]] = q[m] /\ q[m - 1] # q[m]
                        /\ g[q[m]] = g[q[m - 1]] + Room /\ g[q[m - 1]] \in Int

\* A file of two blocks has one.
LEMMA BeforeLast ==
  ASSUME NEW s, NEW f, Only(f), NEW m \in Nat, m >= 2, NEW q, Ring(s, f, m, q), NEW g, Based(s, f, g)
  PROVE  BeforeIs(s, m, q, g)
<1>1. m - 1 \in 1 .. m /\ m \in 1 .. m /\ m - 1 # m /\ m - 1 \in 1 .. m - 1 /\ (m - 1) + 1 = m /\ m > 0
  OBVIOUS
<1>p. PICK p : p = q[m - 1]
  OBVIOUS
<1>2. p # q[m] /\ p \in Blocks /\ s.file[f].last_write_block = q[m] /\ Member(p, m, q)
  BY <1>1, <1>p, Zenon DEF Ring, Member
<1>3. s.chain[p] = q[m]
  BY <1>1, <1>p DEF Ring
<1>4. s.map[p].file_id = f
  BY <1>2, Zenon DEF Ring
<1>5. g[q[m]] = g[p] + Room /\ g[p] \in Int
  BY <1>2, <1>3, <1>4 DEF Based
<1> QED
  BY <1>2, <1>3, <1>5, <1>p, Zenon DEF BeforeIs

\* flashfile_write of a run behind the last bytes of the file, in the last block, in
\* the one before it or over the end of it, puts the run where its offset says.
LEMMA FlashWriteFlows ==
  ASSUME NEW n \in Nat, NEW s \in States(n), Synced(s), NEW f, Only(f), NEW m, NEW q, NEW w,
         Laid(s, f, m, q, w), NEW p, NEW e, At(p, m, q, w, e),
         NEW offset \in Nat, e <= offset, offset <= BlockSize \/ p # q[m],
         NEW l \in Nat, l > 0, HeadSize + l <= BlockSize, offset + HeadSize + l <= 2 * BlockSize,
         NEW bytes \in Seq(ByteSet(n)), l = Len(bytes),
         \A k \in 1 .. l : bytes[k] # Garbled /\ bytes[k] # Erased,
         NEW t, t = FlashWrite(s, p, offset, bytes), NEW g, Based(s, f, g),
         NEW x, x = g[p] + offset
  PROVE  x \in Int /\ \E h : Flown(s, t, f, g, h, x, bytes)
<1>0. /\ BlockSize \in Nat /\ HeadSize \in Nat /\ HeadSize > 0 /\ HeadSize < BlockSize
      /\ m \in Nat /\ m > 0 /\ w \in Nat /\ w \in HeadSize .. BlockSize
      /\ Room \in Int /\ Room + HeadSize = BlockSize
  BY Sizes, RoomIs DEF At
<1>1. ~(offset + Len(bytes) > 2 * BlockSize)
  <2>1. offset \in Int /\ l \in Int /\ l = Len(bytes) /\ offset + HeadSize + l <= 2 * BlockSize
    OBVIOUS
  <2>2. BlockSize \in Int /\ HeadSize \in Int /\ HeadSize > 0
    BY <1>0
  <2> QED
    BY ONLY <2>1, <2>2, SMTT(60)
<1>c. Cases(s, p, offset, bytes, t)
  BY <1>1, FlashWriteIs
<1>2. Ring(s, f, m, q) /\ Tables(s, f)
  <2>1. Ring(s, f, m, q)
    BY DEF Laid
  <2> QED
    BY <1>0, <2>1, TablesOf
<1>3. s.file[f].last_write_block = q[m] /\ q[m] \in Blocks /\ s.map[q[m]].file_id = f /\ g[q[m]] \in Int
  <2>1. EndsRing(s, f, m, q, q[m])
    BY <1>0, <1>2, LastIs
  <2> QED
    BY <2>1 DEF EndsRing, Based
<1>g. \A k \in 1 .. Len(bytes) : bytes[k] # Garbled
  OBVIOUS
<1>4. CASE p # q[m]
  <2>1. m >= 2 /\ p = q[m - 1] /\ w > HeadSize /\ e = w + BlockSize - HeadSize
    BY <1>4 DEF At
  <2>2. s.chain[p] = q[m] /\ g[q[m]] = g[p] + Room /\ g[p] \in Int
    <3>1. BeforeIs(s, m, q, g)
      BY <1>0, <1>2, <2>1, BeforeLast
    <3> QED
      BY <2>1, <3>1, Zenon DEF BeforeIs
  <2>o. PICK off \in Int : off = offset - BlockSize + HeadSize
    BY <1>0, SMTT(60)
  <2>3. /\ off \in Nat /\ w <= off /\ HeadSize <= off /\ offset > BlockSize
        /\ ~(off >= BlockSize) /\ off + l <= BlockSize
    BY <1>0, <2>1, <2>o
  <2>v. PICK v : v = BlockWrite(s, q[m], off, SubSeq(bytes, 1, l))
    OBVIOUS
  <2>4. HeadPutIs(n, s, v, f, m, q, g, off, l, bytes)
    BY <1>0, <1>g, <2>v, <2>3, HeadPut, SMTT(60)
  <2>5. v.ret = l
    BY <2>4 DEF HeadPutIs, LaidAfter
  <2>6. t = v
    <3>1. ~(off + l > BlockSize) /\ s.chain[p] # p
      BY <1>0, <1>4, <2>2, <2>3, SMTT(60)
    <3>2. v.ret = l => t = v
      BY <1>c, <2>v, <2>o, <2>2, <2>3, <3>1, Zenon DEF Cases
    <3> QED
      BY <2>5, <3>2
  <2>7. x \in Int /\ x = g[q[m]] + off
    <3>1. x = g[p] + offset /\ offset \in Int /\ BlockSize \in Int /\ HeadSize \in Int
      BY <1>0
    <3> QED
      BY ONLY <1>0, <2>2, <2>o, <3>1, SMTT(60)
  <2>8. x = g[s.file[f].last_write_block] + off
    BY <1>3, <2>7, SMTT(60)
  <2>9. Flown(s, t, f, g, g, x, bytes)
    BY <1>2, <2>3, <2>4, <2>6, <2>7, <2>8, FitFlows
  <2> QED
    BY <2>7, <2>9, Zenon
<1>5. CASE p = q[m]
  <2>1. e = w /\ w <= offset /\ HeadSize <= offset /\ offset <= BlockSize
    <3>1. p # q[m - 1] \/ ~(m >= 2)
      <4> SUFFICES ASSUME m >= 2 PROVE p # q[m - 1]
        OBVIOUS
      <4>1. BeforeIs(s, m, q, g)
        BY <1>0, <1>2, BeforeLast
      <4> QED
        BY <1>5, <4>1, Zenon DEF BeforeIs
    <3>2. e = w
      BY <3>1 DEF At
    <3> QED
      BY <1>0, <1>5, <3>2
  <2>2. x \in Int /\ x = g[q[m]] + offset /\ x = g[s.file[f].last_write_block] + offset
    BY <1>3, <1>5
  <2>3. CASE offset = BlockSize
    <3>1. ~(offset > BlockSize) /\ offset >= BlockSize
      BY <1>0, <2>3
    <3>2. t = Spill(s, q[m], 0, bytes)
      BY <1>c, <1>5, <3>1, Zenon DEF Cases
    <3>3. 0 \in 0 .. l - 1
      OBVIOUS
    <3>4. PICK h : Spilled(s, t, f, g, h, q[m], 0, bytes)
      BY <1>0, <3>2, <3>3, SpillFlows
    <3>5. /\ Based(t, f, h) /\ \A c \in Blocks : s.map[c].file_id = f => h[c] = g[c]
          /\ Flows(s, t, f, g, h)
          /\ t.file[f].total_block < BlockLimit[f] => Begin(t, f, h) = Begin(s, f, g)
          /\ t.fuel # 0 => \A k \in 0 + 1 .. Len(bytes) :
                             Place(t, f, h, g[q[m]] + BlockSize + k - 0 - 1, bytes[k])
          /\ h[t.file[f].last_write_block] + t.file[f].last_write_offset = g[q[m]] + BlockSize
          /\ s.file[f].total_block <= t.file[f].total_block
      BY <3>4, Zenon DEF Spilled
    <3>6. x = g[q[m]] + BlockSize
      BY <2>2, <2>3
    <3>7. ASSUME NEW k \in 1 .. Len(bytes) PROVE k \in 0 + 1 .. Len(bytes) /\ x + k - 1 = x + k - 0 - 1
      BY <2>2
    <3>8. t.fuel # 0 => \A k \in 1 .. Len(bytes) : Place(t, f, h, x + k - 1, bytes[k])
      BY <3>5, <3>6, <3>7, Zenon
    <3>9. x \in x .. x + Len(bytes) - 1
      BY <2>2
    <3>10. h[t.file[f].last_write_block] + t.file[f].last_write_offset \in x .. x + Len(bytes) - 1
      BY <3>5, <3>6, <3>9, Zenon
    <3>11. Flown(s, t, f, g, h, x, bytes)
      BY <3>5, <3>8, <3>10, Zenon DEF Flown
    <3> QED
      BY <2>2, <3>11, Zenon
  <2>4. CASE offset < BlockSize /\ offset + l <= BlockSize
    <3>1. ~(offset > BlockSize) /\ ~(offset >= BlockSize) /\ ~(offset + l > BlockSize)
      BY <1>0, <2>4
    <3>v. PICK v : v = BlockWrite(s, q[m], offset, SubSeq(bytes, 1, l))
      OBVIOUS
    <3>2. HeadPutIs(n, s, v, f, m, q, g, offset, l, bytes)
      BY <1>0, <1>g, <2>1, <2>4, <3>v, HeadPut, SMTT(60)
    <3>3. v.ret = l
      BY <3>2 DEF HeadPutIs, LaidAfter
    <3>4. t = v
      <4>1. v.ret = l => t = v
        BY <1>c, <1>5, <3>v, <3>1, Zenon DEF Cases
      <4> QED
        BY <3>3, <4>1
    <3>5. Flown(s, t, f, g, g, x, bytes)
      BY <1>2, <2>2, <3>2, <3>4, FitFlows
    <3> QED
      BY <2>2, <3>5, Zenon
  <2>5. CASE offset < BlockSize /\ ~(offset + l <= BlockSize)
    <3>1. ~(offset > BlockSize) /\ ~(offset >= BlockSize) /\ offset + l > BlockSize
      BY <1>0, <2>5, SMTT(60)
    <3>v. PICK v : v = BlockWrite(s, q[m], offset, SubSeq(bytes, 1, BlockSize - offset))
      OBVIOUS
    <3>y. PICK y : y = Spill(v, q[m], v.ret, bytes)
      OBVIOUS
    <3>2. v.ret # l /\ v.ret # -1 /\ \E h : Flown(s, y, f, g, h, x, bytes)
      <4>a. /\ m \in Nat /\ m > 0 /\ w \in Nat /\ w <= offset /\ HeadSize <= offset /\ offset < BlockSize
            /\ offset + l > BlockSize /\ x \in Int /\ x = g[q[m]] + offset
        BY <1>0, <2>1, <2>2, <2>5, <3>1, Zenon
      <4>1. SplitFlown(s, v, y, f, g, x, l, bytes)
        BY <3>v, <3>y, <4>a, SplitFlows, ZenonT(60)
      <4> QED
        BY <4>1, Zenon DEF SplitFlown
    <3>3. t = y
      <4>1. ~(offset > BlockSize) /\ ~(offset >= BlockSize) /\ offset + Len(bytes) > BlockSize
        BY <3>1, Zenon
      <4>2. v.ret # Len(bytes) /\ v.ret # -1
        BY <3>2, Zenon
      <4>3. v = BlockWrite(s, p, offset, SubSeq(bytes, 1, BlockSize - offset))
        BY <1>5, <3>v, Zenon
      <4>4. t = Spill(v, p, v.ret, bytes)
        BY ONLY <1>c, <4>1, <4>2, <4>3, ZenonT(60) DEF Cases
      <4> QED
        BY <1>5, <3>y, <4>4, Zenon
    <3> QED
      BY <2>2, <3>2, <3>3, Zenon
  <2> QED
    BY <1>0, <2>1, <2>3, <2>4, <2>5, SMTT(60)
<1> QED
  BY <1>4, <1>5

-----------------------------------------------------------------------------
(* The stream in a call of flashfile_append_record.                        *)

\* The tables of the blocks and the flash are the same.
SameFlow(s, t, f) ==
  /\ t.map = s.map /\ t.chain = s.chain /\ t.flash = s.flash
  /\ t.file[f].start_block = s.file[f].start_block /\ t.file[f].total_block = s.file[f].total_block
  /\ t.file[f].last_write_block = s.file[f].last_write_block

\* The stream moves on.
Moves(s, t, f, g, h) ==
  /\ Based(t, f, h) /\ Flows(s, t, f, g, h)
  /\ t.file[f].total_block < BlockLimit[f] => Begin(t, f, h) = Begin(s, f, g)
  /\ s.file[f].total_block <= t.file[f].total_block

\* It moves on when the tables and the flash stay as they are.
LEMMA SameMoves ==
  ASSUME NEW r, NEW s, NEW t, NEW f, SameFlow(s, t, f), NEW g, NEW h, Moves(r, s, f, g, h)
  PROVE  Moves(r, t, f, g, h) /\ \A x, v : Place(s, f, h, x, v) => Place(t, f, h, x, v)
<1>1. /\ t.map = s.map /\ t.chain = s.chain /\ t.flash = s.flash
      /\ t.file[f].start_block = s.file[f].start_block /\ t.file[f].total_block = s.file[f].total_block
      /\ t.file[f].last_write_block = s.file[f].last_write_block
  BY Zenon DEF SameFlow
<1>2. Begin(t, f, h) = Begin(s, f, h) /\ Extent(t, f) = Extent(s, f)
  BY <1>1, Zenon DEF Begin, Extent
<1>3. Based(t, f, h)
  <2>1. Based(s, f, h)
    BY Zenon DEF Moves
  <2> QED
    BY <1>1, <1>2, <2>1, Zenon DEF Based
<1>4. \A x, v : Place(s, f, h, x, v) => Place(t, f, h, x, v)
  BY <1>1, Zenon DEF Place
<1>5. Flows(r, t, f, g, h)
  <2>1. Flows(r, s, f, g, h)
    BY Zenon DEF Moves
  <2>2. \A x, v : Streamed(s, f, h, x, v) => Streamed(t, f, h, x, v)
    BY <1>2, <1>4, Zenon DEF Streamed
  <2> QED
    BY <2>1, <2>2, Zenon DEF Flows
<1>6. /\ t.file[f].total_block < BlockLimit[f] => Begin(t, f, h) = Begin(r, f, g)
      /\ r.file[f].total_block <= t.file[f].total_block
  BY <1>1, <1>2, Zenon DEF Moves
<1> QED
  BY <1>3, <1>4, <1>5, <1>6, Zenon DEF Moves

\* What is written is not what an erased byte reads as.
LEMMA BytesWritten ==
  ASSUME NEW n \in Nat, NEW f \in Files, NEW t \in 0 .. n
  PROVE  /\ \A k \in 1 .. TagSize : TagBytes(t, Stride)[k] # Garbled /\ TagBytes(t, Stride)[k] # Erased
         /\ \A k \in 1 .. RecSize : RecBytes(f, t)[k] # Garbled /\ RecBytes(f, t)[k] # Erased
<1>1. \A k \in 1 .. TagSize : <<"tag", t, Stride, k>> # Erased
  BY DEF Erased
<1>2. \A k \in 1 .. RecSize : <<"rec", f, t, k>> # Erased
  BY DEF Erased
<1>3. \A k \in 1 .. TagSize : TagBytes(t, Stride)[k] = <<"tag", t, Stride, k>>
  BY Sizes DEF TagBytes
<1>4. \A k \in 1 .. RecSize : RecBytes(f, t)[k] = <<"rec", f, t, k>>
  BY Sizes DEF RecBytes
<1> QED
  BY <1>1, <1>2, <1>3, <1>4, BytesAre

\* The place of the next time tag.
TagPlace(s, f, g) == g[s.file[f].tag_block] + s.file[f].tag_offset + Stride

\* The time tag got there, or some bytes later, in a new block.
Tagging(s, t, f, g, h, time) ==
  /\ Moves(s, t, f, g, h) /\ TagPlace(s, f, g) \in Int
  /\ t.file[f].tag_time = time
  /\ h[t.file[f].tag_block] + t.file[f].tag_offset \in TagPlace(s, f, g) .. TagPlace(s, f, g) + TagSize - 1

\* What ends past its block does not begin in the last one.
LEMMA AtPlace ==
  ASSUME NEW s, NEW f, NEW m, NEW q, NEW w, Laid(s, f, m, q, w), NEW p, NEW e, At(p, m, q, w, e)
  PROVE  e <= BlockSize \/ p # q[m]
<1>1. m \in Nat /\ m > 0 /\ w \in HeadSize .. BlockSize
  BY DEF At
<1>2. CASE p = q[m] /\ e = w
  BY <1>1, <1>2, Sizes
<1>3. CASE m >= 2 /\ p = q[m - 1]
  <2>1. m - 1 \in 1 .. m /\ m \in 1 .. m /\ m - 1 # m
    BY <1>1, <1>3
  <2>2. \A i, j \in 1 .. m : q[i] = q[j] => i = j
    BY DEF Laid, Ring
  <2>3. q[m - 1] # q[m]
    BY <2>1, <2>2
  <2> QED
    BY <1>3, <2>3
<1> QED
  BY <1>2, <1>3 DEF At

\* flashfile_append_time_tag, if the file's bytes end at the next tag's place.
LEMMA TagFlows ==
  ASSUME NEW n \in Nat, NEW s \in States(n), Synced(s), NEW f, Only(f), NEW e, Behind(s, f, e),
         e = s.file[f].tag_offset + Stride, NEW time \in 0 .. n,
         NEW t, t = AppendTimeTag(s, f, time), NEW g, Based(s, f, g)
  PROVE  \E h : Tagging(s, t, f, g, h, time)
<1>p. PICK p : p = s.file[f].tag_block
  OBVIOUS
<1>b. PICK b : b = TagBytes(time, Stride)
  OBVIOUS
<1>w. PICK v : v = FlashWrite(s, p, e, b)
  OBVIOUS
<1>u. PICK u : u = StoreLastTimeTag(v, f, time)
  OBVIOUS
<1>f. f \in Files
  BY DEF Only
<1>1. PICK m, q, w : Laid(s, f, m, q, w) /\ At(p, m, q, w, e)
  BY <1>p DEF Behind
<1>2. /\ e \in Nat /\ e <= e /\ e + HeadSize + TagSize <= 2 * BlockSize
      /\ ~(s.file[f].tag_offset < 0) /\ HeadSize + TagSize <= BlockSize
      /\ TagSize \in Nat /\ TagSize > 0 /\ BlockSize \in Nat
  <2>1. s.file[f].tag_offset \in HeadSize .. BlockSize - 1
    BY DEF Behind
  <2>2. e \in Nat
    BY <1>1, Sizes DEF At
  <2> QED
    BY <2>1, <2>2, Sizes, StrideIs
<1>3. t = IF v.ret < 0 THEN v ELSE [u EXCEPT !.ret = 0]
  BY <1>p, <1>b, <1>w, <1>u, <1>2, Zenon DEF AppendTimeTag
<1>4. b \in Seq(ByteSet(n)) /\ TagSize = Len(b) /\ \A k \in 1 .. TagSize : b[k] # Garbled
  BY <1>b, <1>f, BytesAre
<1>5. Written(n, s, v, f, p, m, q, e, TagSize)
  BY <1>1, <1>2, <1>4, <1>w, FlashWriteLaid
<1>6. e <= BlockSize \/ p # q[m]
  BY <1>1, AtPlace
<1>7. v.ret \in Nat /\ v \in States(n)
  <2>1. Stored(s, v, f, p, e + TagSize, TagSize)
    BY <1>2, <1>5, <1>6 DEF Written
  <2> QED
    BY <1>5, <2>1, Zenon DEF Stored, Written, Sound
<1>8. t = [u EXCEPT !.ret = 0]
  BY <1>3, <1>7
<1>x. PICK x : x = g[p] + e
  OBVIOUS
<1>9. x \in Int /\ \E h : Flown(s, v, f, g, h, x, b)
  <2>1. \A k \in 1 .. TagSize : b[k] # Garbled /\ b[k] # Erased
    BY <1>b, <1>f, BytesWritten
  <2> QED
    BY <1>1, <1>2, <1>4, <1>6, <1>w, <1>x, <2>1, FlashWriteFlows, SMTT(60)
<1>10. PICK h : Flown(s, v, f, g, h, x, b)
  BY <1>9
<1>11. Moves(s, v, f, g, h)
  BY <1>10, Zenon DEF Flown, Moves
<1>12. /\ u \in States(n) /\ u.map = v.map /\ u.chain = v.chain /\ u.flash = v.flash
       /\ u.file[f].start_block = v.file[f].start_block /\ u.file[f].total_block = v.file[f].total_block
       /\ u.file[f].last_write_block = v.file[f].last_write_block
       /\ u.file[f].tag_time = time /\ u.file[f].tag_block = v.file[f].last_write_block
       /\ u.file[f].tag_offset = v.file[f].last_write_offset
  BY <1>f, <1>u, <1>7, StoreLastTimeTagIs
<1>13. t.map = u.map /\ t.chain = u.chain /\ t.flash = u.flash /\ t.file = u.file
  BY <1>8, <1>12 DEF States
<1>14. SameFlow(v, t, f)
  BY <1>12, <1>13, Zenon DEF SameFlow
<1>15. Moves(s, t, f, g, h)
  BY <1>11, <1>14, SameMoves, Zenon
<1>16. TagPlace(s, f, g) = x
  <2>1. g[p] \in Int /\ s.file[f].tag_offset \in Int /\ Stride \in Int
    <3>1. Member(p, m, q) /\ p \in Blocks
      <4>1. Ring(s, f, m, q)
        BY <1>1 DEF Laid
      <4>2. m \in Nat /\ m > 0 /\ (p = q[m] \/ (m >= 2 /\ p = q[m - 1]))
        BY <1>1 DEF At
      <4>3. m \in 1 .. m /\ (m >= 2 => m - 1 \in 1 .. m)
        BY <4>2
      <4> QED
        BY <4>1, <4>2, <4>3 DEF Ring, Member
    <3>2. s.file[f].tag_offset \in HeadSize .. BlockSize - 1
      BY DEF Behind
    <3> QED
      BY <3>1, <3>2, Sizes, StrideIs DEF Based
  <2> QED
    BY <1>p, <1>x, <2>1 DEF TagPlace
<1>17. h[t.file[f].tag_block] + t.file[f].tag_offset \in x .. x + TagSize - 1
  <2>1. h[v.file[f].last_write_block] + v.file[f].last_write_offset \in x .. x + Len(b) - 1
    BY <1>10, Zenon DEF Flown
  <2> QED
    BY <1>4, <1>12, <1>13, <2>1, Zenon
<1>18. t.file[f].tag_time = time
  BY <1>12, <1>13, Zenon
<1> QED
  BY <1>9, <1>15, <1>16, <1>17, <1>18, Zenon DEF Tagging

\* What ends somewhere in the last two blocks begins in a block of the file.
LEMMA AtOwned ==
  ASSUME NEW s, NEW f, NEW m, NEW q, NEW w, Laid(s, f, m, q, w), NEW p, NEW e, At(p, m, q, w, e)
  PROVE  p \in Blocks /\ s.map[p].file_id = f
<1>1. m \in Nat /\ m > 0 /\ (p = q[m] \/ (m >= 2 /\ p = q[m - 1]))
  BY DEF At
<1>2. m \in 1 .. m /\ (m >= 2 => m - 1 \in 1 .. m)
  BY <1>1
<1>3. q \in [1 .. m -> Blocks] /\ \A b \in Blocks : s.map[b].file_id = f <=> Member(b, m, q)
  BY DEF Laid, Ring
<1>4. p \in Blocks /\ Member(p, m, q)
  BY <1>1, <1>2, <1>3 DEF Member
<1> QED
  BY <1>3, <1>4, Zenon

\* The place of the record of time t, behind the last time tag.
Cur(s, f, g, t) == g[s.file[f].tag_block] + s.file[f].tag_offset + DataOffset(s, f, t)

\* The record of time n is in its place.
Writing(s, t, f, g, h, n) ==
  /\ Moves(s, t, f, g, h) /\ t.ret \in Nat
  /\ Cur(s, f, g, n) \in Int /\ Cur(t, f, h, n) = Cur(s, f, g, n)
  /\ t.fuel # 0 => \A k \in 1 .. RecSize : Place(t, f, h, Cur(s, f, g, n) + k - 1, RecBytes(f, n)[k])

\* The write of the record that ends the call.
LEMMA WriteFlows ==
  ASSUME NEW n \in Nat, NEW s \in States(n), Synced(s), NEW f, Only(f),
         Filled(s, f, n, 0, TRUE), ~NeedsTag(s, f, n), NEW t, t = WriteRecord(s, f, n),
         NEW g, Based(s, f, g)
  PROVE  \E h : Writing(s, t, f, g, h, n)
<1>0. f \in Files /\ RecSize \in Nat /\ RecSize > 0 /\ Stride \in Nat /\ TagSize \in Nat /\ BlockSize \in Nat
  BY Sizes, StrideIs DEF Only
<1>b. PICK b : b = s.file[f].tag_block
  OBVIOUS
<1>p. PICK p : p = s.file[f].tag_offset
  OBVIOUS
<1>v. PICK v : v = DataOffset(s, f, n)
  OBVIOUS
<1>y. PICK y : y = RecBytes(f, n)
  OBVIOUS
<1>1. PICK e : Behind(s, f, e) /\ e <= p + Stride /\ e = p + v + 0
  BY <1>p, <1>v, Zenon DEF Filled
<1>2. e \in Nat /\ p \in Nat /\ p \in HeadSize .. BlockSize - 1
  <2>1. p \in HeadSize .. BlockSize - 1
    BY <1>1, <1>p, Zenon DEF Behind
  <2> QED
    BY <1>1, <1>p, <2>1, BehindIs
<1>3. v \in Nat /\ v + RecSize <= Stride
  <2>1. s.file[f].tag_time \in 0 .. n
    <3>1. s.file[f] \in DescSet(n)
      BY <1>0 DEF States
    <3> QED
      BY <3>1 DEF DescSet
  <2>2. PICK x \in Nat, k \in Nat : x = n - s.file[f].tag_time /\ k = x \div Unit /\ Slot(v, k)
    BY <1>0, <1>v, <2>1, DataOffsetSlot
  <2>3. v \in Int /\ (v < Stride => v + RecSize <= Stride) /\ v >= TagSize
    BY <2>2, SlotFits
  <2>4. v < Stride
    BY <1>0, <1>v, <2>3 DEF NeedsTag
  <2> QED
    BY <1>0, <2>3, <2>4
<1>4. e = p + v /\ e + RecSize <= p + Stride /\ e <= e
  BY <1>0, <1>1, <1>2, <1>3
<1>5. t = FlashWrite(s, b, e, y)
  BY <1>b, <1>p, <1>v, <1>y, <1>4, Zenon DEF WriteRecord
<1>6. SameTag(s.file[f], t.file[f])
  <2>1. n \in 0 .. n /\ e + RecSize <= s.file[f].tag_offset + Stride
    BY <1>4, <1>p
  <2>2. t = FlashWrite(s, s.file[f].tag_block, e, RecBytes(f, n))
    BY <1>5, <1>b, <1>y
  <2>3. Recorded(n, s, t, f, e, e)
    BY <1>1, <1>2, <1>4, <2>1, <2>2, RecLaid, SMTT(60)
  <2> QED
    BY <1>0, <1>2, <2>3 DEF Recorded
<1>7. PICK m, q, w : Laid(s, f, m, q, w) /\ At(b, m, q, w, e)
  BY <1>1, <1>b DEF Behind
<1>8. b \in Blocks /\ s.map[b].file_id = f /\ (e <= BlockSize \/ b # q[m])
  BY <1>7, AtOwned, AtPlace
<1>9. /\ y \in Seq(ByteSet(n)) /\ RecSize = Len(y)
      /\ \A k \in 1 .. RecSize : y[k] # Garbled /\ y[k] # Erased
  <2>1. n \in 0 .. n
    OBVIOUS
  <2> QED
    BY <1>0, <1>y, <2>1, BytesAre, BytesWritten
<1>10. HeadSize + RecSize <= BlockSize /\ e + HeadSize + RecSize <= 2 * BlockSize
  BY <1>2, <1>4, Sizes, StrideIs
<1>r. t.ret \in Nat
  <2>1. RecSize \in Nat /\ RecSize > 0 /\ e \in Nat /\ e <= e
    BY <1>0, <1>2, <1>4
  <2>2. \A k \in 1 .. RecSize : y[k] # Garbled
    BY <1>9
  <2>3. Written(n, s, t, f, b, m, q, e, RecSize)
    BY <1>5, <1>7, <1>9, <1>10, <2>1, <2>2, FlashWriteLaid, SMTT(60)
  <2>4. ~(b = q[m] /\ e > BlockSize)
    BY <1>0, <1>2, <1>8
  <2> QED
    BY <2>3, <2>4, Zenon DEF Written, Stored
<1>x. PICK x : x = g[b] + e
  OBVIOUS
<1>11. x \in Int /\ \E h : Flown(s, t, f, g, h, x, y)
  <2>1. /\ RecSize \in Nat /\ RecSize > 0 /\ e \in Nat /\ e <= e
        /\ e <= BlockSize \/ b # q[m]
    BY <1>0, <1>2, <1>4, <1>8
  <2> QED
    BY <1>5, <1>7, <1>9, <1>10, <1>x, <2>1, FlashWriteFlows, SMTT(60)
<1>12. PICK h : Flown(s, t, f, g, h, x, y)
  BY <1>11
<1>13. Moves(s, t, f, g, h)
  BY <1>12, Zenon DEF Flown, Moves
<1>14. Cur(s, f, g, n) = x
  <2>1. g[b] \in Int
    BY <1>8 DEF Based
  <2>2. Cur(s, f, g, n) = g[b] + p + v
    BY <1>b, <1>p, <1>v, Zenon DEF Cur
  <2> QED
    BY <1>2, <1>3, <1>4, <1>x, <2>1, <2>2, SMTT(60)
<1>15. Cur(t, f, h, n) = x
  <2>1. t.file[f].tag_block = b /\ t.file[f].tag_offset = p /\ t.file[f].tag_time = s.file[f].tag_time
    BY <1>6, <1>b, <1>p DEF SameTag
  <2>2. DataOffset(t, f, n) = DataOffset(s, f, n)
    BY <2>1, Zenon DEF DataOffset
  <2>3. h[b] = g[b]
    BY <1>8, <1>12, Zenon DEF Flown
  <2> QED
    BY <1>14, <1>b, <1>p, <2>1, <2>2, <2>3, Zenon DEF Cur
<1>16. t.fuel # 0 => \A k \in 1 .. RecSize : Place(t, f, h, x + k - 1, y[k])
  BY <1>9, <1>12, Zenon DEF Flown
<1> QED
  BY <1>11, <1>13, <1>14, <1>15, <1>16, <1>r, <1>y, Zenon DEF Writing

\* The bytes that the time tag before the record of time t may take.
Gap(t) == IF t % Interval = 0 THEN 2 * TagSize - 1 ELSE 0

\* The place moves on by a record, and by a tag if there is one.
Entering(s, t, f, g, h, t0, n) ==
  /\ Moves(s, t, f, g, h) /\ Cur(s, f, g, t0) \in Int /\ Cur(t, f, h, n) \in Int
  /\ Cur(s, f, g, t0) + RecSize <= Cur(t, f, h, n)
  /\ Cur(t, f, h, n) <= Cur(s, f, g, t0) + RecSize + Gap(n)

\* The stream stays as it is.
LEMMA StillFlows ==
  ASSUME NEW s, NEW f, NEW g, Based(s, f, g), s.file[f].total_block \in Nat
  PROVE  Moves(s, s, f, g, g)
<1>1. Flows(s, s, f, g, g)
  BY Zenon DEF Flows
<1>2. s.file[f].total_block <= s.file[f].total_block
  OBVIOUS
<1> QED
  BY <1>1, <1>2, Zenon DEF Moves

\* flashfile_append_record up to the loop of append_data, a second after the last record.
LEMMA EnterFlows ==
  ASSUME Unit = 1, NEW t0 \in Nat, NEW n \in Nat, n = t0 + 1, NEW s \in States(n), Synced(s), NEW f, Only(f),
         s.file[f].tag_time <= t0, Filled(s, f, t0, RecSize, TRUE), NEW t, t = Enter(s, f, n),
         NEW g, Based(s, f, g)
  PROVE  \E h : Entering(s, t, f, g, h, t0, n)
<1>0. /\ f \in Files /\ RecSize \in Nat /\ RecSize > 0 /\ Stride \in Nat /\ TagSize \in Nat /\ TagSize > 0
      /\ BlockSize \in Nat
  BY Sizes, StrideIs DEF Only
<1>b. PICK b : b = s.file[f].tag_block
  OBVIOUS
<1>p. PICK p : p = s.file[f].tag_offset
  OBVIOUS
<1>o. PICK o : o = DataOffset(s, f, t0)
  OBVIOUS
<1>v. PICK v : v = DataOffset(s, f, n)
  OBVIOUS
<1>1. PICK e : /\ Behind(s, f, e) /\ e <= p + Stride /\ e = p + o + RecSize
               /\ s.file[f].tag_time = (t0 \div Interval) * Interval
  BY <1>p, <1>o, Zenon DEF Filled
<1>2. e \in Nat /\ p \in Nat /\ s.file[f].total_block \in Nat /\ s.file[f].total_block # 0
  BY <1>1, <1>p, BehindIs
<1>3. o \in Int /\ v \in Int /\ v = o + RecSize /\ (n - s.file[f].tag_time = Interval => v = Stride)
  <2>1. v = DataOffset(s, f, t0 + 1)
    BY <1>v
  <2>2. v = o + RecSize /\ (t0 + 1 - s.file[f].tag_time = Interval => v = Stride)
    BY <1>0, <1>o, <2>1, SecondSlot
  <2>3. o \in Int
    BY <1>0, <1>o, DataOffsetIs
  <2>4. n - s.file[f].tag_time = Interval => v = Stride
    <3>1. s.file[f] \in DescSet(n)
      BY <1>0 DEF States
    <3>2. PICK x \in Nat : x = s.file[f].tag_time
      BY <3>1 DEF DescSet
    <3>3. t0 + 1 - x = Interval => v = Stride
      BY <2>2, <3>2, Zenon
    <3>4. n - x = Interval => v = Stride
      BY <3>3
    <3> QED
      BY <3>2, <3>4, Zenon
  <2>5. v \in Int /\ v = o + RecSize
    BY <1>0, <2>2, <2>3
  <2> QED
    BY <2>3, <2>4, <2>5
<1>4. n % Interval = 0 => n - s.file[f].tag_time = Interval
  BY <1>1, NextSecond
<1>5. b \in Blocks /\ g[b] \in Int
  <2>1. PICK m, q, w : Laid(s, f, m, q, w) /\ At(b, m, q, w, e)
    BY <1>1, <1>b DEF Behind
  <2> QED
    BY <2>1, AtOwned DEF Based
<1>6. Cur(s, f, g, t0) = g[b] + p + o
  BY <1>b, <1>p, <1>o, Zenon DEF Cur
<1>7. CASE n % Interval # 0
  <2>1. t = s
    BY <1>2, <1>7, Zenon DEF Enter
  <2>2. Moves(s, t, f, g, g)
    BY <1>2, <2>1, StillFlows
  <2>3. Cur(t, f, g, n) = g[b] + p + v
    BY <1>b, <1>p, <1>v, <2>1, Zenon DEF Cur
  <2>4. Gap(n) = 0
    BY <1>7 DEF Gap
  <2>c. /\ Cur(s, f, g, t0) \in Int /\ Cur(t, f, g, n) \in Int
        /\ Cur(s, f, g, t0) + RecSize <= Cur(t, f, g, n)
        /\ Cur(t, f, g, n) <= Cur(s, f, g, t0) + RecSize + Gap(n)
    <3>a. PICK a : a = g[b] + p
      OBVIOUS
    <3>c. PICK c : c = Cur(s, f, g, t0)
      OBVIOUS
    <3>d. PICK d : d = Cur(t, f, g, n)
      OBVIOUS
    <3>1. a \in Int /\ c = a + o /\ d = a + v /\ RecSize \in Int
      BY <1>0, <1>2, <1>5, <1>6, <2>3, <3>a, <3>c, <3>d, SMTT(60)
    <3>2. c \in Int /\ d \in Int /\ c + RecSize <= d /\ d <= c + RecSize + 0
      BY ONLY <1>3, <3>1
    <3> QED
      BY <2>4, <3>2, <3>c, <3>d, Zenon
  <2>5. Entering(s, t, f, g, g, t0, n)
    BY <2>2, <2>c, Zenon DEF Entering
  <2> QED
    BY <2>5
<1>8. CASE n % Interval = 0
  <2>1. t = AppendTimeTag(s, f, n)
    BY <1>2, <1>8, Zenon DEF Enter
  <2>2. e = s.file[f].tag_offset + Stride /\ n \in 0 .. n
    BY <1>0, <1>1, <1>2, <1>3, <1>4, <1>8, <1>p, SMTT(60)
  <2>3. PICK h : Tagging(s, t, f, g, h, n)
    BY <1>1, <2>1, <2>2, TagFlows
  <2>4. t \in States(n)
    BY <1>0, EnterSound DEF Sound
  <2>5. DataOffset(t, f, n) = TagSize
    BY <1>0, <2>3, <2>4, FirstSlot DEF Tagging
  <2>x. PICK x : x = h[t.file[f].tag_block] + t.file[f].tag_offset
    BY Zenon
  <2>z. PICK z : z = TagPlace(s, f, g)
    OBVIOUS
  <2>6. z \in Int /\ x \in z .. z + TagSize - 1 /\ Moves(s, t, f, g, h)
    BY <2>3, <2>x, <2>z DEF Tagging
  <2>7. z = g[b] + p + Stride
    BY <1>b, <1>p, <2>z, Zenon DEF TagPlace
  <2>8. Cur(t, f, h, n) = x + TagSize
    BY <2>5, <2>x, Zenon DEF Cur
  <2>9. Gap(n) = 2 * TagSize - 1
    BY <1>8 DEF Gap
  <2>10. v = Stride
    BY <1>3, <1>4, <1>8
  <2>11. /\ Cur(s, f, g, t0) \in Int /\ Cur(t, f, h, n) \in Int
         /\ Cur(s, f, g, t0) + RecSize <= Cur(t, f, h, n)
         /\ Cur(t, f, h, n) <= Cur(s, f, g, t0) + RecSize + Gap(n)
    <3>1. g[b] + p \in Int
      BY <1>2, <1>5
    <3> QED
      BY <1>0, <1>2, <1>3, <1>5, <1>6, <2>6, <2>7, <2>8, <2>9, <2>10, <3>1
  <2>12. Entering(s, t, f, g, h, t0, n)
    BY <2>6, <2>11, Zenon DEF Entering
  <2> QED
    BY <2>12
<1> QED
  BY <1>7, <1>8

\* The first record is in its place, which the file still has.
Starting(t, f, g, n) ==
  /\ Based(t, f, g) /\ Cur(t, f, g, n) \in Int
  /\ t.fuel # 0 => \A k \in 1 .. RecSize : Place(t, f, g, Cur(t, f, g, n) + k - 1, RecBytes(f, n)[k])
  /\ t.file[f].total_block < BlockLimit[f] => Begin(t, f, g) <= Cur(t, f, g, n)

\* A file of one block begins the stream.
LEMMA OneBlockBased ==
  ASSUME NEW s, NEW f, NEW q, NEW w, Laid(s, f, 1, q, w), NEW g, g = [c \in Blocks |-> 0]
  PROVE  Based(s, f, g) /\ Begin(s, f, g) = HeadSize
<1>1. 1 \in 1 .. 1 /\ \A i \in 1 .. 1 : i = 1
  OBVIOUS
<1>2. /\ s.file[f].start_block = q[1] /\ s.file[f].last_write_block = q[1] /\ q[1] \in Blocks
      /\ s.file[f].total_block = 1 /\ \A b \in Blocks : s.map[b].file_id = f => b = q[1]
  <2>1. Ring(s, f, 1, q)
    BY Zenon DEF Laid
  <2> QED
    BY <1>1, <2>1 DEF Ring, Member
<1>3. HeadSize \in Nat /\ Room \in Nat
  BY RoomIs
<1>4. Extent(s, f) = 0
  BY <1>2, <1>3 DEF Extent
<1>5. g \in [Blocks -> Int] /\ g[q[1]] = 0
  BY <1>2
<1> QED
  BY <1>2, <1>3, <1>4, <1>5 DEF Based, Begin

\* flashfile_init_record.
LEMMA FirstFlows ==
  ASSUME NEW n \in Nat, NEW s \in States(n), Synced(s), NEW f, Only(f), NEW q, NEW w0,
         Laid(s, f, 0, q, w0), NEW t, t = InitRecord(s, f, n)
  PROVE  \E g : Starting(t, f, g, n)
<1>0. n \in 0 .. n /\ f \in Files
  BY DEF Only
<1>s. /\ HeadSize \in Nat /\ BlockSize \in Nat /\ TagSize \in Nat /\ TagSize > 0 /\ RecSize \in Nat /\ RecSize > 0
      /\ HeadSize > 0 /\ HeadSize < BlockSize /\ Stride \in Nat
      /\ HeadSize + Stride + TagSize <= BlockSize /\ HeadSize + Stride + RecSize <= BlockSize
  BY Sizes, StrideIs
<1>i. PICK x, b, r, o, h, v, c, w : InitSteps(n, s, t, f, n, x, b, r, o, h, v, c, w)
  BY <1>0, InitStepsAre
<1>1. /\ Sound(n, s, h) /\ Laid(h, f, 1, x, HeadSize) /\ x[1] = b /\ b \in Blocks
      /\ r \in 0 .. n /\ v = FlashWrite(h, b, HeadSize, TagBytes(r, Stride)) /\ Sound(n, h, v)
      /\ c = StoreLastTimeTag(v, f, r) /\ Sound(n, v, c) /\ Behind(c, f, HeadSize + TagSize)
      /\ c.file[f].tag_time = r /\ c.file[f].tag_offset = HeadSize /\ c.file[f].tag_block = b
  BY <1>i, Zenon DEF InitSteps
<1>2. /\ o = DataOffset(c, f, n) /\ o \in Nat /\ o >= TagSize /\ o < Stride /\ o + RecSize <= Stride
      /\ w = FlashWrite(c, b, HeadSize + o, RecBytes(f, n)) /\ Sound(n, c, w)
      /\ Behind(w, f, HeadSize + o + RecSize) /\ SameTag(c.file[f], w.file[f]) /\ SameState(w, t)
  BY <1>i, Zenon DEF InitSteps
<1>g. PICK g : g = [z \in Blocks |-> 0]
  OBVIOUS
<1>3. Based(h, f, g) /\ Begin(h, f, g) = HeadSize
  BY <1>1, <1>g, OneBlockBased
<1>4. At(b, 1, x, HeadSize, HeadSize)
  BY <1>1, <1>s DEF At
<1>5. h.map[b].file_id = f
  BY <1>1, <1>4, AtOwned
<1>y. PICK y : y = TagBytes(r, Stride)
  OBVIOUS
<1>6. PICK d : Flown(h, v, f, g, d, HeadSize, y)
  <2>1. h \in States(n) /\ Synced(h)
    BY <1>1, Zenon DEF Sound
  <2>2. HeadSize <= HeadSize /\ (HeadSize <= BlockSize \/ b # x[1]) /\ HeadSize + TagSize <= BlockSize
        /\ HeadSize + HeadSize + TagSize <= 2 * BlockSize /\ TagSize \in Nat /\ TagSize > 0 /\ HeadSize \in Nat
    BY <1>s
  <2>3. /\ y \in Seq(ByteSet(n)) /\ TagSize = Len(y)
        /\ \A k \in 1 .. TagSize : y[k] # Garbled /\ y[k] # Erased
    BY <1>0, <1>1, <1>y, BytesAre, BytesWritten
  <2>z. PICK z : z = g[b] + HeadSize
    OBVIOUS
  <2>4. z = HeadSize
    BY <1>1, <1>g, <1>s, <2>z
  <2>5. z \in Int /\ \E d : Flown(h, v, f, g, d, z, y)
    <3>1. v = FlashWrite(h, b, HeadSize, y) /\ Laid(h, f, 1, x, HeadSize) /\ Based(h, f, g)
      BY <1>1, <1>3, <1>y
    <3> QED
      BY <1>4, <2>1, <2>2, <2>3, <2>z, <3>1, FlashWriteFlows, ZenonT(60)
  <2> QED
    BY <2>4, <2>5
<1>7. Moves(h, v, f, g, d) /\ d[b] = 0
  <2>1. d[b] = g[b] /\ g[b] = 0
    BY <1>1, <1>5, <1>6, <1>g DEF Flown
  <2> QED
    BY <1>6, <2>1, Zenon DEF Flown, Moves
<1>8. SameFlow(v, c, f)
  <2>1. v \in States(n)
    BY <1>1, Zenon DEF Sound
  <2>2. /\ c.map = v.map /\ c.chain = v.chain /\ c.flash = v.flash
        /\ c.file[f].start_block = v.file[f].start_block /\ c.file[f].total_block = v.file[f].total_block
        /\ c.file[f].last_write_block = v.file[f].last_write_block
    BY <1>0, <1>1, <2>1, StoreLastTimeTagIs
  <2> QED
    BY <2>2, Zenon DEF SameFlow
<1>9. Moves(h, c, f, g, d)
  BY <1>7, <1>8, SameMoves
<1>a. PICK a \in Nat : a = HeadSize + o
  BY <1>2, <1>s
<1>e. PICK e : e = HeadSize + TagSize
  OBVIOUS
<1>10. PICK m, p, u : Laid(c, f, m, p, u) /\ At(b, m, p, u, e)
  BY <1>1, <1>e DEF Behind
<1>11. c.map[b].file_id = f
  BY <1>10, AtOwned
<1>12. \E j : Flown(c, w, f, d, j, a, RecBytes(f, n))
  <2>1. c \in States(n) /\ Synced(c) /\ Based(c, f, d)
    BY <1>1, <1>9, Zenon DEF Sound, Moves
  <2>2. /\ e <= a /\ (a <= BlockSize \/ b # p[m]) /\ HeadSize + RecSize <= BlockSize
        /\ a + HeadSize + RecSize <= 2 * BlockSize /\ RecSize \in Nat /\ RecSize > 0
    BY <1>2, <1>a, <1>e, <1>s
  <2>y. PICK k : k = RecBytes(f, n)
    OBVIOUS
  <2>3. /\ k \in Seq(ByteSet(n)) /\ RecSize = Len(k)
        /\ \A i \in 1 .. RecSize : k[i] # Garbled /\ k[i] # Erased
    BY <1>0, <2>y, BytesAre, BytesWritten
  <2>z. PICK z : z = d[b] + a
    OBVIOUS
  <2>4. z = a
    BY <1>7, <2>z
  <2>5. w = FlashWrite(c, b, a, k)
    BY <1>2, <1>a, <2>y
  <2>6. z \in Int /\ \E j : Flown(c, w, f, d, j, z, k)
    BY <1>10, <2>1, <2>2, <2>3, <2>5, <2>z, FlashWriteFlows
  <2> QED
    BY <2>4, <2>6, <2>y
<1>13. PICK j : Flown(c, w, f, d, j, a, RecBytes(f, n))
  BY <1>12
<1>14. Moves(c, w, f, d, j) /\ j[b] = 0
  <2>1. j[b] = d[b]
    BY <1>1, <1>11, <1>13, Zenon DEF Flown
  <2> QED
    BY <1>7, <1>13, <2>1, Zenon DEF Flown, Moves
<1>15. SameFlow(w, t, f)
  BY <1>2, Zenon DEF SameState, SameFlow
<1>16. Moves(c, t, f, d, j) /\ \A z, k : Place(w, f, j, z, k) => Place(t, f, j, z, k)
  BY <1>14, <1>15, SameMoves
<1>17. Cur(t, f, j, n) = a
  <2>1. t.file[f].tag_block = b /\ t.file[f].tag_offset = HeadSize /\ t.file[f].tag_time = c.file[f].tag_time
    BY <1>1, <1>2 DEF SameTag, SameState
  <2>2. DataOffset(t, f, n) = o
    BY <1>2, <2>1, Zenon DEF DataOffset
  <2>3. Cur(t, f, j, n) = 0 + HeadSize + o
    BY <1>14, <2>1, <2>2, Zenon DEF Cur
  <2> QED
    BY <1>2, <1>a, <1>s, <2>3, SMTT(60)
<1>18. t.fuel # 0 => \A k \in 1 .. RecSize : Place(t, f, j, a + k - 1, RecBytes(f, n)[k])
  <2>1. t.fuel = w.fuel /\ Len(RecBytes(f, n)) = RecSize
    BY <1>0, <1>2, BytesAre DEF SameState
  <2> QED
    BY <1>13, <1>16, <2>1, Zenon DEF Flown
<1>19. t.file[f].total_block < BlockLimit[f] => Begin(t, f, j) <= a
  <2>1. c.file[f].total_block \in Nat
    BY <1>1, BehindIs
  <2>2. w.file[f].total_block \in Nat /\ t.file[f] = w.file[f]
    BY <1>2, BehindIs DEF SameState
  <2>3. BlockLimit[f] \in Nat
    BY DEF Only
  <2>4. t.file[f].total_block < BlockLimit[f] => c.file[f].total_block < BlockLimit[f]
    <3>1. c.file[f].total_block <= t.file[f].total_block
      BY <1>16, Zenon DEF Moves
    <3> QED
      BY <2>1, <2>2, <2>3, <3>1
  <2>5. t.file[f].total_block < BlockLimit[f] => Begin(t, f, j) = HeadSize
    BY <1>3, <1>9, <1>16, <2>4, Zenon DEF Moves
  <2> QED
    BY <1>2, <1>a, <1>s, <2>5
<1>20. Based(t, f, j)
  BY <1>16, Zenon DEF Moves
<1>c. a \in Int
  OBVIOUS
<1>21. Starting(t, f, j, n)
  BY <1>17, <1>18, <1>19, <1>20, <1>c, Zenon DEF Starting
<1> QED
  BY <1>21

-----------------------------------------------------------------------------
(* How much of the stream a file has, and how much its records take.       *)

\* A full block's bytes before the last byte are still in the file.
Covers(s, f, g, t, x) ==
  /\ Cur(s, f, g, t) \in Int /\ Begin(s, f, g) \in Int /\ Extent(s, f) \in Int
  /\ Begin(s, f, g) + Extent(s, f) < Cur(s, f, g, t) + x

\* All the blocks of a file but the last one are full.
LEMMA CoversIs ==
  ASSUME NEW n \in Nat, NEW s \in States(n), NEW f, Only(f), NEW t \in Nat, s.file[f].tag_time <= t,
         NEW x \in Nat, Filled(s, f, t, x, TRUE), NEW g, Based(s, f, g)
  PROVE  Covers(s, f, g, t, x)
<1>0. /\ f \in Files /\ HeadSize \in Int /\ HeadSize > 0 /\ BlockSize \in Int /\ Room \in Int
      /\ Room + HeadSize = BlockSize
  BY Sizes, RoomIs DEF Only
<1>b. PICK b : b = s.file[f].tag_block
  OBVIOUS
<1>p. PICK p : p = s.file[f].tag_offset
  OBVIOUS
<1>o. PICK o : o = DataOffset(s, f, t)
  OBVIOUS
<1>1. PICK e : Behind(s, f, e) /\ e = p + o + x
  BY <1>p, <1>o, Zenon DEF Filled
<1>2. p \in Int /\ p >= HeadSize /\ e \in Int
  <2>1. p \in HeadSize .. BlockSize - 1
    BY <1>1, <1>p, Zenon DEF Behind
  <2> QED
    BY <1>0, <1>1, <2>1, BehindIs
<1>3. o \in Int /\ o > 0
  BY <1>0, <1>o, DataOffsetIs
<1>4. PICK m, q, w : Laid(s, f, m, q, w) /\ At(b, m, q, w, e)
  BY <1>1, <1>b DEF Behind
<1>5. m \in Nat /\ m > 0 /\ w \in Int /\ Ring(s, f, m, q)
  BY <1>4, Sizes DEF At, Laid
<1>6. Tables(s, f)
  BY <1>5, TablesOf
<1>k. PICK k : k = s.file[f].last_write_block
  OBVIOUS
<1>7. k = q[m] /\ g[k] \in Int
  <2>1. EndsRing(s, f, m, q, q[m])
    BY <1>5, LastIs
  <2> QED
    BY <1>k, <2>1 DEF EndsRing, Based
<1>8. g[b] \in Int
  BY <1>4, AtOwned DEF Based
<1>9. g[b] + e = g[k] + w /\ w > HeadSize
  <2>1. CASE b = q[m] /\ e = w
    BY <1>0, <1>1, <1>2, <1>3, <1>7, <2>1
  <2>2. CASE m >= 2 /\ b = q[m - 1] /\ w > HeadSize /\ e = w + BlockSize - HeadSize
    <3>1. g[q[m]] = g[q[m - 1]] + Room
      <4>1. BeforeIs(s, m, q, g)
        BY <1>5, <2>2, BeforeLast
      <4> QED
        BY <4>1, Zenon DEF BeforeIs
    <3>2. g[k] = g[b] + Room
      BY <1>7, <2>2, <3>1, Zenon
    <3> QED
      BY ONLY <1>0, <1>2, <1>5, <1>7, <1>8, <2>2, <3>2, SMTT(60)
  <2> QED
    BY <1>4, <2>1, <2>2 DEF At
<1>u. PICK u : u = g[s.file[f].start_block]
  OBVIOUS
<1>v. PICK v \in Int : v = Extent(s, f)
  BY <1>6, ExtentIs
<1>10. u \in Int /\ g[k] = u + v
  <2>1. s.file[f].start_block \in Blocks /\ g \in [Blocks -> Int]
    BY <1>6 DEF Tables, Based
  <2>2. g[k] = u + v
    BY <1>k, <1>u, <1>v, Zenon DEF Based
  <2> QED
    BY <1>u, <2>1, <2>2, SMTT(60)
<1>11. Cur(s, f, g, t) = g[b] + p + o /\ Begin(s, f, g) = u + HeadSize
  BY <1>b, <1>p, <1>o, <1>u, Zenon DEF Cur, Begin
<1>c. PICK c : c = g[b] + p + o
  OBVIOUS
<1>d. PICK d : d = u + HeadSize
  OBVIOUS
<1>12. c \in Int /\ d \in Int /\ d + v < c + x
  <2>1. c \in Int /\ c + x = g[b] + e
    <3>1. x \in Int
      OBVIOUS
    <3> QED
      BY ONLY <1>1, <1>2, <1>3, <1>8, <1>c, <3>1
  <2> QED
    BY ONLY <1>0, <1>5, <1>7, <1>9, <1>10, <1>d, <1>v, <2>1, SMTT(60)
<1> QED
  BY <1>11, <1>12, <1>c, <1>d, <1>v, Zenon DEF Covers

\* What a tag takes at most.
Lost == 2 * TagSize - 1

\* The stream places the records up to time t take, at most.
Weight(t) == t * RecSize + (t \div Interval) * (2 * TagSize - 1)

\* The sizes as numbers.
LEMMA LostIs == Lost \in Nat /\ Lost > 0 /\ RecSize \in Nat /\ Interval \in Nat /\ Interval > 0 /\ Interval \in Nat \ {0}
BY Sizes DEF Lost

\* The weight of one more second.
LEMMA WeightNext ==
  ASSUME NEW t \in Nat, NEW n \in Nat, n = t + 1
  PROVE  Weight(t) \in Int /\ Weight(n) = Weight(t) + RecSize + Gap(n)
<1>k. PICK k : k = t \div Interval
  OBVIOUS
<1>a. PICK a : a = t % Interval
  OBVIOUS
<1>l. PICK l : l = n \div Interval
  OBVIOUS
<1>b. PICK b : b = n % Interval
  OBVIOUS
<1>i. PICK i \in Nat : i = Interval /\ i > 0
  BY LostIs
<1>0. t \in Int /\ n \in Int
  OBVIOUS
<1>1. DivMod(t, Interval, k, a) /\ DivMod(n, Interval, l, b)
  BY <1>0, <1>k, <1>a, <1>l, <1>b, LostIs, DivModIs, Zenon
<1>2. /\ k \in Nat /\ l \in Nat /\ a \in 0 .. i - 1 /\ b \in 0 .. i - 1
      /\ t = i * k + a /\ n = i * l + b
  BY <1>1, <1>i DEF DivMod
<1>3. (b # 0 => l = k) /\ (b = 0 => l = k + 1)
  <2>x. PICK x \in Int : x = k * i
    BY <1>2
  <2>y. PICK y \in Int : y = l * i
    BY <1>2
  <2>0. t = x + a /\ n = y + b /\ n = t + 1
    BY <1>2, <2>x, <2>y
  <2>1. k + 2 <= l => x + i + i <= y
    <3>z. PICK z : z = (k + 2) * i
      OBVIOUS
    <3>1. z = x + i + i
      BY <1>2, <2>x, <3>z
    <3>2. k + 2 <= l => z <= y
      <4>1. k + 2 \in Int /\ l \in Int
        BY <1>2
      <4> QED
        BY <2>y, <3>z, <4>1, TimesMonotone
    <3> QED
      BY <3>1, <3>2
  <2>2. l + 1 <= k => y + i <= x
    <3>z. PICK z : z = (l + 1) * i
      OBVIOUS
    <3>1. z = y + i
      BY <1>2, <2>y, <3>z
    <3>2. l + 1 <= k => z <= x
      <4>1. l + 1 \in Int /\ k \in Int
        BY <1>2
      <4> QED
        BY <2>x, <3>z, <4>1, TimesMonotone
    <3> QED
      BY <3>1, <3>2
  <2>3. ~(k + 2 <= l) /\ ~(l + 1 <= k)
    BY <1>2, <1>i, <2>0, <2>1, <2>2
  <2>4. k = l => x = y
    BY <2>x, <2>y
  <2>5. l = k + 1 => y = x + i
    BY <1>2, <2>x, <2>y
  <2> QED
    BY <1>2, <1>i, <2>0, <2>3, <2>4, <2>5
<1>d. PICK d \in Nat : d = Lost
  BY LostIs
<1>r. PICK r \in Nat : r = RecSize
  BY LostIs
<1>4. Weight(t) = t * r + k * d /\ Weight(n) = n * r + l * d
  BY <1>k, <1>l, <1>d, <1>r, Zenon DEF Weight, Lost
<1>5. t * r \in Int /\ n * r = t * r + r /\ k * d \in Int /\ (k + 1) * d = k * d + d
  BY <1>2
<1>6. Gap(n) = IF b # 0 THEN 0 ELSE d
  BY <1>b, <1>d DEF Gap, Lost
<1> QED
  BY <1>3, <1>4, <1>5, <1>6, <1>r

\* The weight of the seconds since u.
LEMMA WeightSpan ==
  ASSUME NEW t \in Nat, NEW u \in Nat, NEW n \in Nat, t - u <= n
  PROVE  Weight(t) \in Int /\ Weight(u) \in Int /\ Span(n) \in Int /\ Weight(t) - Weight(u) <= Span(n)
<1>i. PICK i \in Nat : i = Interval /\ i > 0
  BY LostIs
<1>j. PICK j \in Int : j = n + Interval - 1
  BY <1>i
<1>k. PICK k : k = t \div Interval
  OBVIOUS
<1>a. PICK a : a = t % Interval
  OBVIOUS
<1>l. PICK l : l = u \div Interval
  OBVIOUS
<1>b. PICK b : b = u % Interval
  OBVIOUS
<1>c. PICK c : c = j \div Interval
  OBVIOUS
<1>e. PICK e : e = j % Interval
  OBVIOUS
<1>0. t \in Int /\ u \in Int
  OBVIOUS
<1>1. DivMod(t, Interval, k, a) /\ DivMod(u, Interval, l, b) /\ DivMod(j, Interval, c, e)
  BY <1>0, <1>k, <1>a, <1>l, <1>b, <1>c, <1>e, LostIs, DivModIs, Zenon
<1>2. /\ k \in Int /\ l \in Int /\ c \in Int /\ a \in 0 .. i - 1 /\ b \in 0 .. i - 1 /\ e \in 0 .. i - 1
      /\ t = i * k + a /\ u = i * l + b /\ j = i * c + e
  BY <1>1, <1>i DEF DivMod
<1>3. k <= l + c
  <2>x. PICK x \in Int : x = k * i
    BY <1>2
  <2>y. PICK y \in Int : y = l * i
    BY <1>2
  <2>z. PICK z \in Int : z = c * i
    BY <1>2
  <2>0. t = x + a /\ u = y + b /\ j = z + e /\ j = n + i - 1
    BY <1>2, <1>i, <1>j, <2>x, <2>y, <2>z
  <2> SUFFICES ASSUME l + c + 1 <= k PROVE FALSE
    BY <1>2
  <2>v. PICK v : v = (l + c + 1) * i
    OBVIOUS
  <2>1. v = y + z + i
    BY <1>2, <2>y, <2>z, <2>v
  <2>2. v <= x
    <3>1. l + c + 1 \in Int
      BY <1>2
    <3> QED
      BY <1>2, <2>x, <2>v, <3>1, TimesMonotone
  <2> QED
    BY <1>2, <1>i, <2>0, <2>1, <2>2
<1>d. PICK d \in Nat : d = Lost
  BY LostIs
<1>r. PICK r \in Nat : r = RecSize
  BY LostIs
<1>4. Weight(t) = t * r + k * d /\ Weight(u) = u * r + l * d /\ Span(n) = n * r + c * d
  BY <1>k, <1>l, <1>c, <1>j, <1>d, <1>r, Zenon DEF Weight, Span, Lost
<1>5. /\ t * r \in Int /\ u * r \in Int /\ n * r \in Int /\ k * d \in Int /\ l * d \in Int /\ c * d \in Int
      /\ (u + n) * r = u * r + n * r /\ (l + c) * d = l * d + c * d
  BY <1>2
<1>6. t * r <= (u + n) * r
  <2>1. t \in Int /\ u + n \in Int /\ t <= u + n
    OBVIOUS
  <2> QED
    BY <2>1, TimesMonotone
<1>7. k * d <= (l + c) * d
  <2>1. l + c \in Int
    BY <1>2
  <2> QED
    BY <1>2, <1>3, <2>1, TimesMonotone
<1> QED
  BY <1>4, <1>5, <1>6, <1>7

-----------------------------------------------------------------------------
(* The records in the stream.                                              *)

\* The file at time t: the record of each time u of A begins at place pos[u], no further
\* back than the weight of the seconds since, and all its bytes are there or were given up.
Stream(s, f, g, pos, A, t) ==
  /\ Based(s, f, g) /\ pos \in [Nat -> Int] /\ A \subseteq Nat /\ Cur(s, f, g, t) \in Int
  /\ \A u \in A : \A k \in 1 .. RecSize : Streamed(s, f, g, pos[u] + k - 1, RecBytes(f, u)[k])
  /\ \A u \in A : Cur(s, f, g, t) - pos[u] <= Weight(t) - Weight(u)
  /\ s.file[f].total_block < BlockLimit[f] =>
       Begin(s, f, g) <= Cur(s, f, g, t) /\ \A u \in A : Begin(s, f, g) <= pos[u]

\* A file with a last byte is in the tables.
LEMMA BehindTables ==
  ASSUME NEW n \in Nat, NEW s \in States(n), NEW f, Only(f), NEW e, Behind(s, f, e)
  PROVE  Tables(s, f) /\ s.file[f].total_block \in Nat /\ s.file[f].total_block <= BlockLimit[f]
         /\ BlockLimit[f] \in Nat
<1>1. PICK m, q, w : Laid(s, f, m, q, w) /\ At(s.file[f].tag_block, m, q, w, e)
  BY Zenon DEF Behind
<1>2. Ring(s, f, m, q) /\ m > 0
  BY <1>1, Zenon DEF Laid, At
<1>3. Tables(s, f)
  BY <1>2, TablesOf
<1> QED
  BY <1>3 DEF Tables

\* The begin of the stream is a place.
LEMMA BeginInt ==
  ASSUME NEW s, NEW f, Tables(s, f), NEW g, Based(s, f, g)
  PROVE  Begin(s, f, g) \in Int
<1>1. s.file[f].start_block \in Blocks /\ g \in [Blocks -> Int] /\ HeadSize \in Int
  BY RoomIs DEF Tables, Based
<1> QED
  BY <1>1 DEF Begin

\* The stream moves on to a later place, that of time m.
LEMMA StreamMoves ==
  ASSUME NEW s, NEW t, NEW f, Tables(s, f), Tables(t, f), NEW n \in Nat, NEW m \in Nat,
         NEW g, NEW pos, NEW A, Stream(s, f, g, pos, A, n), NEW h, Moves(s, t, f, g, h),
         Cur(t, f, h, m) \in Int, Cur(s, f, g, n) <= Cur(t, f, h, m),
         Cur(t, f, h, m) - Cur(s, f, g, n) <= Weight(m) - Weight(n)
  PROVE  Stream(t, f, h, pos, A, m)
<1>a. PICK a : a = Cur(s, f, g, n)
  OBVIOUS
<1>b. PICK b : b = Cur(t, f, h, m)
  OBVIOUS
<1>v. PICK v \in Int : v = Weight(n)
  BY WeightNext
<1>w. PICK w \in Int : w = Weight(m)
  BY WeightNext
<1>1. a \in Int /\ b \in Int /\ a <= b /\ b - a <= w - v /\ pos \in [Nat -> Int] /\ A \subseteq Nat
      /\ \A u \in A : a - pos[u] <= v - Weight(u)
  BY <1>a, <1>b, <1>v, <1>w, Zenon DEF Stream
<1>2. Based(t, f, h) /\ Flows(s, t, f, g, h) /\ s.file[f].total_block <= t.file[f].total_block
      /\ (t.file[f].total_block < BlockLimit[f] => Begin(t, f, h) = Begin(s, f, g))
  BY Zenon DEF Moves
<1>3. ASSUME NEW u \in A, NEW k \in 1 .. RecSize
      PROVE  Streamed(t, f, h, pos[u] + k - 1, RecBytes(f, u)[k])
  <2>1. u \in Nat /\ u \in 0 .. u /\ f \in Files
    BY <1>1 DEF Tables
  <2>2. RecBytes(f, u)[k] # Erased
    BY <2>1, BytesWritten
  <2>3. pos[u] + k - 1 \in Int
    BY <1>1, <2>1
  <2>4. Streamed(s, f, g, pos[u] + k - 1, RecBytes(f, u)[k])
    BY Zenon DEF Stream
  <2> QED
    BY <1>2, <2>2, <2>3, <2>4, ZenonT(60) DEF Flows
<1>4. ASSUME NEW u \in A PROVE b - pos[u] <= w - Weight(u)
  <2>x. PICK x \in Int : x = Weight(u)
    <3>1. u \in Nat
      BY <1>1
    <3> QED
      BY <3>1, WeightNext
  <2>y. PICK y \in Int : y = pos[u]
    BY <1>1
  <2>1. a - y <= v - x
    BY <1>1, <2>x, <2>y
  <2>2. b - y <= w - x
    BY ONLY <1>1, <2>1, v \in Int, w \in Int, x \in Int, y \in Int
  <2> QED
    BY <2>2, <2>x, <2>y
<1>5. ASSUME t.file[f].total_block < BlockLimit[f]
      PROVE  Begin(t, f, h) <= b /\ \A u \in A : Begin(t, f, h) <= pos[u]
  <2>1. s.file[f].total_block < BlockLimit[f]
    <3>1. s.file[f].total_block \in Nat /\ t.file[f].total_block \in Nat /\ BlockLimit[f] \in Nat
      BY DEF Tables
    <3> QED
      BY <1>2, <1>5, <3>1, SMTT(60)
  <2>c. PICK c \in Int : c = Begin(s, f, g)
    <3>1. Based(s, f, g)
      BY Zenon DEF Stream
    <3> QED
      BY <3>1, BeginInt
  <2>2. c <= a /\ \A u \in A : c <= pos[u]
    BY <1>a, <2>1, <2>c, Zenon DEF Stream
  <2>3. Begin(t, f, h) = c
    BY <1>2, <1>5, <2>c, Zenon
  <2>4. c <= b
    BY <1>1, <2>2
  <2> QED
    BY <2>2, <2>3, <2>4, Zenon
<1> QED
  BY <1>1, <1>2, <1>3, <1>4, <1>5, <1>b, <1>w, Zenon DEF Stream

\* A record that was written is added.
LEMMA StreamAdd ==
  ASSUME NEW t, NEW f, Tables(t, f), NEW n \in Nat, NEW h, NEW pos, NEW A, Stream(t, f, h, pos, A, n), n \notin A,
         NEW b, b = Cur(t, f, h, n), NEW q, q = [pos EXCEPT ![n] = b],
         \A k \in 1 .. RecSize : Place(t, f, h, b + k - 1, RecBytes(f, n)[k])
  PROVE  Stream(t, f, h, q, A \cup {n}, n)
<1>1. Based(t, f, h) /\ pos \in [Nat -> Int] /\ A \subseteq Nat /\ b \in Int
  BY Zenon DEF Stream
<1>2. q \in [Nat -> Int] /\ q[n] = b /\ \A u \in A : q[u] = pos[u]
  BY <1>1
<1>3. ASSUME NEW u \in A \cup {n}, NEW k \in 1 .. RecSize
      PROVE  Streamed(t, f, h, q[u] + k - 1, RecBytes(f, u)[k])
  <2>1. CASE u = n
    BY <1>2, <2>1, Zenon DEF Streamed
  <2>2. CASE u \in A
    <3>1. Streamed(t, f, h, pos[u] + k - 1, RecBytes(f, u)[k])
      BY <2>2, Zenon DEF Stream
    <3> QED
      BY <1>2, <2>2, <3>1, Zenon
  <2> QED
    BY <2>1, <2>2
<1>4. ASSUME NEW u \in A \cup {n} PROVE b - q[u] <= Weight(n) - Weight(u)
  <2>1. CASE u = n
    BY <1>1, <1>2, <2>1, WeightNext
  <2>2. CASE u \in A
    <3>1. b - pos[u] <= Weight(n) - Weight(u)
      BY <2>2, Zenon DEF Stream
    <3> QED
      BY <1>2, <2>2, <3>1, Zenon
  <2> QED
    BY <2>1, <2>2
<1>5. ASSUME t.file[f].total_block < BlockLimit[f]
      PROVE  Begin(t, f, h) <= b /\ \A u \in A \cup {n} : Begin(t, f, h) <= q[u]
  <2>1. Begin(t, f, h) <= b /\ \A u \in A : Begin(t, f, h) <= pos[u]
    BY <1>5, Zenon DEF Stream
  <2> QED
    BY <1>2, <2>1
<1>6. A \cup {n} \subseteq Nat
  BY <1>1
<1> QED
  BY <1>1, <1>2, <1>3, <1>4, <1>5, <1>6, Zenon DEF Stream

\* The records of the last m seconds, if they fit into all blocks but the last one.
LEMMA StreamKeeps ==
  ASSUME NEW n \in Nat, NEW s \in States(n), NEW f, Only(f), NEW t \in Nat, s.file[f].tag_time <= t,
         NEW x \in Nat, Filled(s, f, t, x, TRUE), NEW g, NEW pos, NEW A, Stream(s, f, g, pos, A, t),
         NEW u \in A, NEW m \in Nat, t - u <= m, x + Span(m) <= (BlockLimit[f] - 1) * Room + 1
  PROVE  \A k \in 1 .. RecSize : Place(s, f, g, pos[u] + k - 1, RecBytes(f, u)[k])
<1>1. Based(s, f, g) /\ pos \in [Nat -> Int] /\ A \subseteq Nat
      /\ Cur(s, f, g, t) - pos[u] <= Weight(t) - Weight(u)
  BY Zenon DEF Stream
<1>2. PICK e : Behind(s, f, e)
  BY Zenon DEF Filled
<1>3. Tables(s, f) /\ s.file[f].total_block \in Nat /\ s.file[f].total_block <= BlockLimit[f] /\ BlockLimit[f] \in Nat
  BY <1>2, BehindTables
<1>c. PICK c : c = Cur(s, f, g, t)
  OBVIOUS
<1>b. PICK b : b = Begin(s, f, g)
  OBVIOUS
<1>y. PICK y \in Int : y = pos[u]
  BY <1>1
<1>4. b <= y /\ b \in Int
  <2>1. CASE s.file[f].total_block < BlockLimit[f]
    <3>1. Begin(s, f, g) <= pos[u]
      BY <2>1, Zenon DEF Stream
    <3>2. b \in Int
      BY <1>1, <1>3, <1>b, BeginInt
    <3> QED
      BY <1>b, <1>y, <3>1, <3>2
  <2>2. CASE s.file[f].total_block = BlockLimit[f]
    <3>1. Covers(s, f, g, t, x)
      BY <1>1, CoversIs
    <3>v. PICK v : v = Extent(s, f)
      OBVIOUS
    <3>2. c \in Int /\ b \in Int /\ v \in Int /\ b + v < c + x
      BY <1>b, <1>c, <3>1, <3>v, Zenon DEF Covers
    <3>w. PICK w : w = Span(m)
      OBVIOUS
    <3>3. x + w <= v + 1
      BY <2>2, <3>v, <3>w DEF Extent
    <3>4. /\ Weight(t) \in Int /\ Weight(u) \in Int /\ w \in Int /\ Weight(t) - Weight(u) <= w
      <4>1. u \in Nat
        BY <1>1
      <4> QED
        BY <3>w, <4>1, WeightSpan
    <3>5. c - y <= w
      <4>1. c - y <= Weight(t) - Weight(u)
        BY <1>1, <1>c, <1>y
      <4>p. PICK p \in Int : p = Weight(t)
        BY <3>4
      <4>q. PICK q \in Int : q = Weight(u)
        BY <3>4
      <4> QED
        BY <3>2, <3>4, <4>1, <4>p, <4>q
    <3>6. x \in Int /\ y \in Int
      OBVIOUS
    <3> QED
      BY ONLY <3>2, <3>3, <3>4, <3>5, <3>6
  <2> QED
    BY <1>3, <2>1, <2>2
<1> SUFFICES ASSUME NEW k \in 1 .. RecSize
             PROVE  Place(s, f, g, pos[u] + k - 1, RecBytes(f, u)[k])
  OBVIOUS
<1>5. ~(pos[u] + k - 1 < Begin(s, f, g))
  BY <1>4, <1>b, <1>y
<1>6. Streamed(s, f, g, pos[u] + k - 1, RecBytes(f, u)[k])
  BY Zenon DEF Stream
<1> QED
  BY <1>5, <1>6, Zenon DEF Streamed

\* The stream of flashfile_init_record.
LEMMA FirstStream ==
  ASSUME NEW n \in Nat, NEW s \in States(n), Synced(s), NEW f, Only(f), NEW q, NEW w0,
         Laid(s, f, 0, q, w0), NEW t, t = InitRecord(s, f, n), t.fuel # 0
  PROVE  \E g, pos : Stream(t, f, g, pos, {n}, n)
<1>1. PICK g : Starting(t, f, g, n)
  BY FirstFlows
<1>2. First(n, s, t, f, n)
  <2>1. n \in 0 .. n
    OBVIOUS
  <2> QED
    BY <2>1, FirstLaid
<1>3. Tables(t, f)
  <2>1. PICK e : Behind(t, f, e) /\ t \in States(n)
    BY <1>2 DEF First, Sound
  <2> QED
    BY <2>1, BehindTables
<1>b. PICK b : b = Cur(t, f, g, n)
  OBVIOUS
<1>4. /\ Based(t, f, g) /\ b \in Int
      /\ \A k \in 1 .. RecSize : Place(t, f, g, b + k - 1, RecBytes(f, n)[k])
      /\ t.file[f].total_block < BlockLimit[f] => Begin(t, f, g) <= b
  BY <1>1, <1>b, Zenon DEF Starting
<1>p. PICK p : p = [u \in Nat |-> 0]
  OBVIOUS
<1>5. p \in [Nat -> Int] /\ {} \subseteq Nat /\ {} \cup {n} = {n} /\ n \notin {}
  BY <1>p
<1>6. Stream(t, f, g, p, {}, n)
  BY <1>4, <1>5, <1>b DEF Stream
<1>q. PICK r : r = [p EXCEPT ![n] = b]
  OBVIOUS
<1>7. Stream(t, f, g, r, {} \cup {n}, n)
  BY <1>3, <1>4, <1>5, <1>6, <1>b, <1>q, StreamAdd
<1> QED
  BY <1>5, <1>7

\* flashfile_append_record enters state t from state s, a second after time t0.
EntersFrom(s, t, f, t0, n) ==
  /\ Unit = 1 /\ t0 \in Nat /\ n \in Nat /\ n = t0 + 1 /\ s \in States(n) /\ Synced(s) /\ Only(f)
  /\ s.file[f].tag_time <= t0 /\ Filled(s, f, t0, RecSize, TRUE) /\ t = Enter(s, f, n)
\* Up to the loop of append_data.
Entered(t, f, pos, A, n) ==
  t \in States(n) /\ Filled(t, f, n, 0, TRUE) /\ \E h : Stream(t, f, h, pos, A, n)

\* The stream of flashfile_append_record up to the loop of append_data.
LEMMA EnterStream ==
  ASSUME NEW s, NEW t, NEW f, NEW t0, NEW n, EntersFrom(s, t, f, t0, n),
         NEW g, NEW pos, NEW A, Stream(s, f, g, pos, A, t0)
  PROVE  Entered(t, f, pos, A, n)
<1>0. /\ Unit = 1 /\ t0 \in Nat /\ n \in Nat /\ n = t0 + 1 /\ s \in States(n) /\ Synced(s) /\ Only(f)
      /\ s.file[f].tag_time <= t0 /\ Filled(s, f, t0, RecSize, TRUE) /\ t = Enter(s, f, n)
  BY Zenon DEF EntersFrom
<1> USE <1>0
<1>1. Sound(n, s, t) /\ Filled(t, f, n, 0, TRUE)
  <2>1. 1 \in Nat /\ 1 >= Unit /\ TRUE \in BOOLEAN
    OBVIOUS
  <2> QED
    BY <2>1, EnterFilled
<1>2. t \in States(n)
  BY <1>1, Zenon DEF Sound
<1>3. Tables(s, f) /\ Tables(t, f)
  <2>1. \E e : Behind(s, f, e)
    BY Zenon DEF Filled
  <2>2. \E e : Behind(t, f, e)
    BY <1>1, Zenon DEF Filled
  <2> QED
    BY <1>2, <2>1, <2>2, BehindTables
<1>4. PICK h : Entering(s, t, f, g, h, t0, n)
  <2>1. Based(s, f, g)
    BY Zenon DEF Stream
  <2> QED
    BY <2>1, EnterFlows
<1>a. PICK a : a = Cur(s, f, g, t0)
  OBVIOUS
<1>b. PICK b : b = Cur(t, f, h, n)
  OBVIOUS
<1>5. Moves(s, t, f, g, h) /\ a \in Int /\ b \in Int /\ a + RecSize <= b /\ b <= a + RecSize + Gap(n)
  BY <1>4, <1>a, <1>b, Zenon DEF Entering
<1>6. Weight(t0) \in Int /\ Weight(n) \in Int /\ Weight(n) = Weight(t0) + RecSize + Gap(n)
  BY WeightNext
<1>7. RecSize \in Nat /\ Gap(n) \in Int
  BY Sizes DEF Gap
<1>8. a <= b /\ b - a <= Weight(n) - Weight(t0)
  <2>c. PICK c \in Int : c = Weight(t0)
    BY <1>6
  <2>d. PICK d \in Int : d = Weight(n)
    BY <1>6
  <2>e. PICK e \in Int : e = Gap(n)
    BY <1>7
  <2> QED
    BY <1>5, <1>6, <1>7, <2>c, <2>d, <2>e
<1>9. Stream(t, f, h, pos, A, n)
  BY <1>3, <1>5, <1>8, <1>a, <1>b, StreamMoves
<1> QED
  BY <1>1, <1>2, <1>9, Zenon DEF Entered

\* append_data writes the record of time n, from state s to state t.
WritesFrom(s, t, f, n) ==
  /\ n \in Nat /\ s \in States(n) /\ Synced(s) /\ Only(f)
  /\ Filled(s, f, n, 0, TRUE) /\ ~NeedsTag(s, f, n) /\ t = WriteRecord(s, f, n)
\* The record is in the stream, at the time's place.
StreamGrows(t, f, pos, A, n) ==
  /\ t \in States(n) /\ Filled(t, f, n, RecSize, TRUE) /\ t.ret \in Nat
  /\ \E h : Stream(t, f, h, pos, A, n)
  /\ t.fuel # 0 /\ n \notin A => \E h, q : Stream(t, f, h, q, A \cup {n}, n)

\* The stream of the write of the record, which is added.
LEMMA WriteStream ==
  ASSUME NEW s, NEW t, NEW f, NEW n, WritesFrom(s, t, f, n), NEW g, NEW pos, NEW A, Stream(s, f, g, pos, A, n)
  PROVE  StreamGrows(t, f, pos, A, n)
<1>0. /\ n \in Nat /\ s \in States(n) /\ Synced(s) /\ Only(f)
      /\ Filled(s, f, n, 0, TRUE) /\ ~NeedsTag(s, f, n) /\ t = WriteRecord(s, f, n)
  BY Zenon DEF WritesFrom
<1> USE <1>0
<1>1. Sound(n, s, t) /\ Filled(t, f, n, RecSize, TRUE)
  <2>1. TRUE \in BOOLEAN
    OBVIOUS
  <2> QED
    BY <2>1, WriteFilled
<1>2. t \in States(n)
  BY <1>1, Zenon DEF Sound
<1>3. Tables(s, f) /\ Tables(t, f)
  <2>1. \E e : Behind(s, f, e)
    BY Zenon DEF Filled
  <2>2. \E e : Behind(t, f, e)
    BY <1>1, Zenon DEF Filled
  <2> QED
    BY <1>2, <2>1, <2>2, BehindTables
<1>4. PICK h : Writing(s, t, f, g, h, n)
  <2>1. Based(s, f, g)
    BY Zenon DEF Stream
  <2> QED
    BY <2>1, WriteFlows
<1>b. PICK b : b = Cur(s, f, g, n)
  OBVIOUS
<1>5. /\ Moves(s, t, f, g, h) /\ t.ret \in Nat /\ b \in Int /\ Cur(t, f, h, n) = b
      /\ t.fuel # 0 => \A k \in 1 .. RecSize : Place(t, f, h, b + k - 1, RecBytes(f, n)[k])
  BY <1>4, <1>b, Zenon DEF Writing
<1>6. Stream(t, f, h, pos, A, n)
  <2>1. b <= b /\ b - b <= Weight(n) - Weight(n)
    <3>1. Weight(n) \in Int
      BY WeightNext
    <3> QED
      BY <1>5, <3>1
  <2> QED
    BY <1>3, <1>5, <1>b, <2>1, StreamMoves
<1>7. ASSUME t.fuel # 0, n \notin A PROVE \E q : Stream(t, f, h, q, A \cup {n}, n)
  <2>q. PICK q : q = [pos EXCEPT ![n] = b]
    OBVIOUS
  <2>1. Stream(t, f, h, q, A \cup {n}, n)
    BY <1>3, <1>5, <1>6, <1>7, <2>q, StreamAdd
  <2> QED
    BY <2>1
<1> QED
  BY <1>1, <1>2, <1>5, <1>6, <1>7, Zenon DEF StreamGrows

\* One second more holds one record more.
LEMMA SpanNext ==
  ASSUME NEW m \in Nat
  PROVE  Span(m) \in Int /\ Span(m + 1) \in Int /\ Span(m) + RecSize <= Span(m + 1)
<1>j. PICK j \in Int : j = m + Interval - 1
  BY LostIs
<1>i. PICK i \in Int : i = m + 1 + Interval - 1
  BY LostIs
<1>k. PICK k : k = j \div Interval
  OBVIOUS
<1>a. PICK a : a = j % Interval
  OBVIOUS
<1>l. PICK l : l = i \div Interval
  OBVIOUS
<1>b. PICK b : b = i % Interval
  OBVIOUS
<1>y. PICK y \in Nat : y = Interval /\ y > 0
  BY LostIs
<1>1. DivMod(j, Interval, k, a) /\ DivMod(i, Interval, l, b)
  BY <1>k, <1>a, <1>l, <1>b, LostIs, DivModIs, Zenon
<1>2. /\ k \in Int /\ l \in Int /\ a \in 0 .. y - 1 /\ b \in 0 .. y - 1
      /\ j = y * k + a /\ i = y * l + b /\ i = j + 1
  BY <1>1, <1>i, <1>j, <1>y DEF DivMod
<1>3. k <= l
  <2> SUFFICES ASSUME l + 1 <= k PROVE FALSE
    BY <1>2
  <2>p. PICK p \in Int : p = k * y
    BY <1>2
  <2>q. PICK q \in Int : q = l * y
    BY <1>2
  <2>z. PICK z : z = (l + 1) * y
    OBVIOUS
  <2>1. z = q + y
    BY <1>2, <2>q, <2>z
  <2>2. z <= p
    <3>1. l + 1 \in Int
      BY <1>2
    <3> QED
      BY <1>2, <2>p, <2>z, <3>1, TimesMonotone
  <2>3. j = p + a /\ i = q + b
    BY <1>2, <2>p, <2>q
  <2> QED
    BY <1>2, <1>y, <2>1, <2>2, <2>3
<1>d. PICK d \in Nat : d = Lost
  BY LostIs
<1>r. PICK r \in Nat : r = RecSize
  BY LostIs
<1>4. Span(m) = m * r + k * d /\ Span(m + 1) = (m + 1) * r + l * d
  BY <1>i, <1>j, <1>k, <1>l, <1>d, <1>r, Zenon DEF Span, Lost
<1>5. m * r \in Int /\ (m + 1) * r = m * r + r /\ k * d \in Int /\ l * d \in Int
  BY <1>2
<1>6. k * d <= l * d
  BY <1>2, <1>3, TimesMonotone
<1> QED
  BY <1>4, <1>5, <1>6, <1>r

-----------------------------------------------------------------------------
(* The invariant of the records.                                           *)

\* The time of the last record that is complete.
Done == IF call = Idle THEN now ELSE now - 1

\* The records reported written are those of all seconds since the first one, and they
\* are in the file's stream.
Keeps(f) ==
  \/ fs.file[f].total_block = 0 /\ acked[f] = {}
  \/ /\ fs.file[f].total_block # 0
     /\ \E t0 \in Nat : t0 <= Done /\ acked[f] = t0 .. Done
     /\ \E g, pos : Stream(fs, f, g, pos, acked[f], now)

\* So it is with a record every second and up to the first restart.
KeepInv == EverySecond /\ boots = 0 => \A f \in Files : Keeps(f)

\* The two states of a file.
LEMMA FileStates ==
  ASSUME OneFile, TypeInv, FileInv, EverySecond, boots = 0, NEW f \in Files
  PROVE  \/ call = Idle /\ fs.file[f].total_block = 0 /\ \E q, w : Laid(fs, f, 0, q, w)
         \/ fs.file[f].total_block # 0 /\ Filled(fs, f, now, Rested, TRUE)
<1>1. \/ call = Idle /\ \E q, w : Laid(fs, f, 0, q, w)
      \/ Filled(fs, f, now, Rested, EverySecond)
  BY DEF FileInv
<1>2. CASE call = Idle /\ \E q, w : Laid(fs, f, 0, q, w)
  BY <1>2, FirstCall
<1>3. CASE Filled(fs, f, now, Rested, EverySecond)
  <2>1. fs.file[f].total_block # 0
    BY <1>3, OnlyIs, LaterCall
  <2>2. Filled(fs, f, now, Rested, TRUE)
    BY <1>3, Zenon DEF Filled
  <2> QED
    BY <2>1, <2>2
<1> QED
  BY <1>1, <1>2, <1>3

\* With a record every second the unit of time is a second.
LEMMA UnitSecond ==
  ASSUME OneFile, TypeInv, EverySecond
  PROVE  Unit = 1 /\ \A d \in use.steps : d = 1
<1>1. use \in Uses /\ use.steps = {1} /\ \A u \in Uses : \A d \in u.steps : d >= Unit
  BY DEF TypeInv, EverySecond, OneFile
<1>2. 1 >= Unit /\ Unit \in Nat /\ Unit > 0
  BY <1>1, Sizes
<1> QED
  BY <1>1, <1>2

\* A call is in progress.
LEMMA CallFiles ==
  ASSUME TypeInv, call.file \in Files
  PROVE  call # Idle /\ call.time = now
BY CallIs

\* An empty file.
LEMMA KeepInit ==
  ASSUME OneFile, Init
  PROVE  KeepInv
<1> SUFFICES ASSUME NEW f \in Files PROVE fs.file[f].total_block = 0 /\ acked[f] = {}
  BY DEF KeepInv, Keeps
<1>1. fs.file[f].total_block = 0
  BY InitLaid, FirstCall
<1> QED
  BY <1>1 DEF Init

\* Every step keeps it.
LEMMA KeepNext ==
  ASSUME OneFile, TypeInv, FileInv, KeepInv, [Next]_vars
  PROVE  KeepInv'
<1>0. /\ use \in Uses /\ use.steps \subseteq Nat /\ now \in Nat /\ Calm(now, fs) /\ fs \in States(now)
      /\ Synced(fs) /\ acked \in [Files -> SUBSET (0 .. use.until)]
  BY LimitIs DEF TypeInv, Calm
<1>t. TypeInv'
  BY TypeInvNext
<1>f. fs'.fuel # 0
  BY <1>t DEF TypeInv, Calm
<1>1. ASSUME NEW f \in Files, NEW d \in use.steps, AppendRecord(f, d) PROVE KeepInv'
  <2>n. PICK n : n = now + d
    OBVIOUS
  <2>1. /\ n \in Nat /\ now <= n /\ call = Idle /\ now' = n /\ use' = use /\ boots' = boots
        /\ fs' = Enter(fs, f, n)
        /\ call' = IF fs.file[f].total_block = 0 THEN Idle ELSE [file |-> f, time |-> n, round |-> 0]
        /\ acked' = IF fs.file[f].total_block = 0 /\ ~fs'.wild THEN [acked EXCEPT ![f] = @ \cup {n}] ELSE acked
    BY <1>0, <1>1, <2>n DEF AppendRecord
  <2>2. fs \in States(n) /\ Synced(fs)
    BY <1>0, <2>1, CalmLater DEF Calm
  <2>o. Only(f) /\ Files = {f}
    BY OnlyIs DEF Only
  <2>e. EverySecond' = EverySecond
    BY <2>1 DEF EverySecond
  <2>k. SUFFICES ASSUME EverySecond, boots = 0 PROVE Keeps(f)'
    BY <2>1, <2>e, <2>o DEF KeepInv
  <2>3. SUFFICES /\ fs'.file[f].total_block # 0
               /\ \E t0 \in Nat : t0 <= Done' /\ acked'[f] = t0 .. Done'
               /\ \E g, pos : Stream(fs', f, g, pos, acked'[f], n)
    BY <2>1 DEF Keeps
  <2>4. Unit = 1 /\ d = 1 /\ n = now + 1
    BY <2>k, <2>n, UnitSecond
  <2>5. CASE fs.file[f].total_block = 0
    <3>1. PICK q, w : Laid(fs, f, 0, q, w)
      BY <2>k, <2>5, FileStates
    <3>2. fs' = InitRecord(fs, f, n)
      BY <2>1, <2>5, Zenon DEF Enter
    <3>3. \E g, pos : Stream(fs', f, g, pos, {n}, n)
      BY <1>f, <2>1, <2>2, <2>o, <3>1, <3>2, FirstStream
    <3>4. fs'.file[f].total_block # 0 /\ ~fs'.wild
      <4>1. n \in 0 .. n /\ TRUE \in BOOLEAN
        BY <2>1
      <4>2. First(n, fs, fs', f, n)
        BY <2>1, <2>2, <2>o, <3>1, <3>2, <4>1, FirstLaid
      <4>3. Filled(fs', f, n, RecSize, TRUE)
        BY <2>1, <2>o, <4>2, FirstFilled
      <4> QED
        BY <2>o, <4>3, LaterCall
    <3>5. acked[f] = {}
      BY <2>k, <2>5 DEF KeepInv, Keeps
    <3>6. acked'[f] = {n} /\ Done' = n
      BY <1>0, <2>1, <2>5, <3>4, <3>5 DEF Done
    <3>7. {n} = n .. n /\ n <= n
      BY <2>1
    <3> QED
      BY <2>1, <3>3, <3>4, <3>6, <3>7
  <2>6. CASE fs.file[f].total_block # 0
    <3>1. Filled(fs, f, now, RecSize, TRUE)
      BY <2>1, <2>k, <2>6, FileStates DEF Rested
    <3>2. fs.file[f].tag_time <= now
      <4>1. fs.file[f] \in DescSet(now)
        BY <1>0 DEF States
      <4> QED
        BY <1>0, <4>1 DEF DescSet
    <3>3. PICK g, pos, t0 : /\ t0 \in Nat /\ t0 <= Done /\ acked[f] = t0 .. Done
                            /\ Stream(fs, f, g, pos, acked[f], now)
      BY <2>k, <2>6 DEF KeepInv, Keeps
    <3>4. /\ Filled(fs', f, n, 0, TRUE)
          /\ \E h : Stream(fs', f, h, pos, acked[f], n)
      <4>a. PICK A : A = acked[f]
        OBVIOUS
      <4>1. now \in Nat /\ n \in Nat /\ n = now + 1 /\ fs' = Enter(fs, f, n) /\ Stream(fs, f, g, pos, A, now)
        BY <1>0, <2>1, <2>4, <3>3, <4>a
      <4>s. PICK s : s = fs
        OBVIOUS
      <4>t. PICK t : t = fs'
        OBVIOUS
      <4>u. PICK r0 : r0 = now
        OBVIOUS
      <4>3. Unit = 1 /\ r0 \in Nat /\ n \in Nat /\ n = r0 + 1
        BY <2>4, <4>1, <4>u
      <4>4. s \in States(n) /\ Synced(s) /\ Only(f) /\ t = Enter(s, f, n)
        BY <2>2, <2>o, <4>1, <4>s, <4>t, Zenon
      <4>5. s.file[f].tag_time <= r0 /\ Filled(s, f, r0, RecSize, TRUE) /\ Stream(s, f, g, pos, A, r0)
        BY <3>1, <3>2, <4>1, <4>s, <4>u, Zenon
      <4>6. EntersFrom(s, t, f, r0, n)
        BY <4>3, <4>4, <4>5, Zenon DEF EntersFrom
      <4>7. Entered(t, f, pos, A, n)
        BY ONLY <4>5, <4>6, EnterStream, Zenon
      <4>2. Filled(fs', f, n, 0, TRUE) /\ \E h : Stream(fs', f, h, pos, A, n)
        BY <4>7, <4>t, Zenon DEF Entered
      <4> QED
        BY <4>2, <4>a
    <3>5. fs'.file[f].total_block # 0
      BY <2>o, <3>4, LaterCall
    <3>6. call' # Idle
      <4>1. f # NoFile
        <5>1. f \in 0 .. 14
          BY LimitIs
        <5> QED
          BY <5>1 DEF NoFile
      <4>2. call'.file = f /\ Idle.file = NoFile
        BY <2>1, <2>6 DEF Idle
      <4> QED
        BY <4>1, <4>2
    <3>7. acked' = acked /\ Done' = Done
      <4>1. Done = now /\ Done' = n - 1
        BY <2>1, <3>6 DEF Done
      <4> QED
        BY <1>0, <2>1, <2>4, <2>6, <4>1, SMTT(60)
    <3> QED
      BY <3>3, <3>4, <3>5, <3>7
  <2> QED
    BY <2>5, <2>6
<1>2. ASSUME InsertTag PROVE KeepInv'
  <2>1. call # Idle /\ NeedsTag(fs, call.file, call.time) /\ use' = use /\ boots' = boots
    BY <1>2, CallFiles DEF InsertTag
  <2>2. ~(EverySecond /\ boots = 0)
    BY <2>1, NoTagNeeded DEF LoopProgress
  <2> QED
    BY <2>1, <2>2 DEF KeepInv, EverySecond
<1>3. ASSUME WriteData PROVE KeepInv'
  <2>f. PICK f \in Files : f = call.file
    BY <1>3, CallFiles DEF WriteData
  <2>1. /\ call # Idle /\ ~NeedsTag(fs, f, now) /\ fs' = WriteRecord(fs, f, now) /\ now' = now
        /\ use' = use /\ boots' = boots /\ call' = Idle
        /\ acked' = IF fs'.ret >= 0 THEN [acked EXCEPT ![f] = @ \cup {now}] ELSE acked
    BY <1>3, <2>f, CallFiles DEF WriteData
  <2>o. Only(f) /\ Files = {f}
    BY OnlyIs DEF Only
  <2>e. EverySecond' = EverySecond
    BY <2>1 DEF EverySecond
  <2>k. SUFFICES ASSUME EverySecond, boots = 0 PROVE Keeps(f)'
    BY <2>1, <2>e, <2>o DEF KeepInv
  <2>2. SUFFICES /\ fs'.file[f].total_block # 0
               /\ \E t0 \in Nat : t0 <= Done' /\ acked'[f] = t0 .. Done'
               /\ \E g, pos : Stream(fs', f, g, pos, acked'[f], now)
    BY <2>1 DEF Keeps
  <2>3. fs.file[f].total_block # 0 /\ Filled(fs, f, now, 0, TRUE)
    BY <2>1, <2>k, FileStates DEF Rested
  <2>4. PICK g, pos, t0 : /\ t0 \in Nat /\ t0 <= Done /\ acked[f] = t0 .. Done
                          /\ Stream(fs, f, g, pos, acked[f], now)
    BY <2>k, <2>3 DEF KeepInv, Keeps
  <2>5. Done = now - 1 /\ Done' = now
    BY <2>1 DEF Done
  <2>6. now \notin acked[f] /\ acked[f] \cup {now} = t0 .. now /\ t0 <= now
    BY <1>0, <2>4, <2>5
  <2>7. /\ Filled(fs', f, now, RecSize, TRUE) /\ fs'.ret \in Nat
        /\ \E h, q : Stream(fs', f, h, q, acked[f] \cup {now}, now)
    <3>s. PICK s : s = fs
      OBVIOUS
    <3>t. PICK t : t = fs'
      OBVIOUS
    <3>1. WritesFrom(s, t, f, now)
      BY <1>0, <2>1, <2>3, <2>o, <3>s, <3>t, Zenon DEF WritesFrom
    <3>2. Stream(s, f, g, pos, acked[f], now)
      BY <2>4, <3>s, Zenon
    <3>3. StreamGrows(t, f, pos, acked[f], now)
      BY ONLY <3>1, <3>2, WriteStream, Zenon
    <3> QED
      BY <1>f, <2>6, <3>3, <3>t, Zenon DEF StreamGrows
  <2>8. fs'.file[f].total_block # 0
    BY <2>o, <2>7, LaterCall
  <2>9. acked'[f] = acked[f] \cup {now}
    BY <1>0, <2>1, <2>7
  <2> QED
    BY <2>4, <2>5, <2>6, <2>7, <2>8, <2>9
<1>4. ASSUME Restart PROVE KeepInv'
  <2>1. boots' = boots + 1 /\ boots \in Nat
    BY <1>4 DEF Restart, FileInv
  <2>2. boots' # 0
    BY <2>1
  <2> QED
    BY <2>2 DEF KeepInv
<1>5. CASE UNCHANGED vars
  <2>1. fs' = fs /\ now' = now /\ call' = call /\ boots' = boots /\ use' = use /\ acked' = acked
    BY <1>5 DEF vars
  <2>2. EverySecond' = EverySecond /\ Done' = Done
    BY <2>1 DEF EverySecond, Done
  <2> QED
    BY <2>1, <2>2, Zenon DEF KeepInv, Keeps
<1> QED
  BY <1>1, <1>2, <1>3, <1>4, <1>5 DEF Next

-----------------------------------------------------------------------------
(* The newest records are kept.                                            *)

\* Every byte of the record of time u is on the flash, in a block that the file
\* owns in RAM and on the flash.
Held(s, f, u) ==
  \A k \in 1 .. RecSize : \E b \in Blocks, o \in Body :
    /\ s.map[b].file_id = f /\ s.flash[b].head.file_id = f
    /\ s.flash[b].body[o] = RecBytes(f, u)[k]

\* A file with its last byte and its stream at time t, of which the records of m
\* seconds fit into all blocks but the last one.
Rich(s, f, A, n, t, x, m) ==
  /\ n \in Nat /\ s \in States(n) /\ Only(f) /\ t \in Nat /\ s.file[f].tag_time <= t
  /\ x \in Nat /\ Filled(s, f, t, x, TRUE) /\ m \in Nat
  /\ x + Span(m) <= (BlockLimit[f] - 1) * Room + 1
  /\ \E g, pos : Stream(s, f, g, pos, A, t)

\* It holds the records of m seconds.
LEMMA RichHolds ==
  ASSUME NEW s, NEW f, NEW A, NEW n, NEW t, NEW x, NEW m, Rich(s, f, A, n, t, x, m),
         NEW u \in A, t - u <= m
  PROVE  Held(s, f, u)
<1>1. /\ n \in Nat /\ s \in States(n) /\ Only(f) /\ t \in Nat /\ s.file[f].tag_time <= t
      /\ x \in Nat /\ Filled(s, f, t, x, TRUE) /\ m \in Nat
      /\ x + Span(m) <= (BlockLimit[f] - 1) * Room + 1
  BY Zenon DEF Rich
<1>2. PICK g, pos : Stream(s, f, g, pos, A, t)
  BY Zenon DEF Rich
<1>3. \A k \in 1 .. RecSize : Place(s, f, g, pos[u] + k - 1, RecBytes(f, u)[k])
  BY <1>1, <1>2, StreamKeeps
<1> QED
  BY <1>3, Zenon DEF Place, Held

\* The newest n of the records of the seconds from a to b.
LEMMA NewestIs ==
  ASSUME NEW f, NEW a \in Nat, NEW b \in Int, acked[f] = a .. b, NEW n \in Nat, NEW u \in NewestAcked(f, n)
  PROVE  u \in acked[f] /\ u \in Nat /\ b - u < n
<1>1. u \in acked[f] /\ Cardinality({v \in acked[f] : v > u}) < n
  BY DEF NewestAcked
<1>2. u \in Nat /\ u <= b
  BY <1>1
<1>3. {v \in acked[f] : v > u} = u + 1 .. b
  <2>1. \A v \in acked[f] : v \in Int /\ a <= v /\ v <= b
    OBVIOUS
  <2>2. \A v \in Int : u < v /\ v <= b => v \in acked[f]
    BY <1>1, <1>2
  <2>3. \A v : v \in acked[f] /\ v > u <=> v \in u + 1 .. b
    BY <1>2, <2>1, <2>2
  <2> QED
    BY <2>3, Zenon
<1>c. PICK c : c = Cardinality(u + 1 .. b)
  OBVIOUS
<1>4. c = IF u + 1 > b THEN 0 ELSE b - (u + 1) + 1
  <2>1. u + 1 \in Int
    BY <1>2
  <2> QED
    BY <1>c, <2>1, FS_Interval
<1>5. c < n
  BY <1>1, <1>3, <1>c, Zenon
<1> QED
  BY ONLY <1>1, <1>2, <1>4, <1>5, b \in Int, n \in Nat

\* What RetainFits says of one file.
LEMMA RetainIs ==
  ASSUME NEW m \in Nat, RetainFits(m), NEW f \in Files
  PROVE  Span(m) <= (BlockLimit[f] - 1) * Room + 1 /\ (BlockLimit[f] - 1) * Room + 1 \in Int
<1>1. BlockLimit[f] \in Nat /\ Room \in Nat
  BY LimitIs, RoomIs
<1>2. Span(m) <= (BlockLimit[f] - 1) * Room + 1
  BY Zenon DEF RetainFits, Room
<1> QED
  BY <1>1, <1>2

\* A file with records, in a state of the recorder.
LEMMA NowRich ==
  ASSUME OneFile, TypeInv, FileInv, KeepInv, EverySecond, boots = 0, RetainFits(Retain), NEW f \in Files,
         NEW u \in NewestAcked(f, Retain)
  PROVE  \E x, m : Rich(fs, f, acked[f], now, now, x, m) /\ u \in acked[f] /\ now - u <= m
<1>0. now \in Nat /\ fs \in States(now) /\ Only(f) /\ Retain \in Nat
  BY OnlyIs, RetainAssumption DEF TypeInv, Calm
<1>1. fs.file[f].total_block # 0
  <2>1. acked[f] # {}
    BY DEF NewestAcked
  <2> QED
    BY <2>1 DEF KeepInv, Keeps
<1>2. Filled(fs, f, now, Rested, TRUE)
  BY <1>1, FileStates
<1>3. fs.file[f].tag_time <= now
  <2>1. fs.file[f] \in DescSet(now)
    BY <1>0 DEF States
  <2> QED
    BY <1>0, <2>1 DEF DescSet
<1>4. PICK g, pos, t0 : /\ t0 \in Nat /\ t0 <= Done /\ acked[f] = t0 .. Done
                        /\ Stream(fs, f, g, pos, acked[f], now)
  BY <1>1 DEF KeepInv, Keeps
<1>5. Done \in Int
  BY <1>0 DEF Done
<1>6. u \in acked[f] /\ u \in Nat /\ Done - u < Retain
  BY <1>0, <1>4, <1>5, NewestIs
<1>s. PICK s : s = Span(Retain)
  OBVIOUS
<1>b. PICK b \in Int : b = (BlockLimit[f] - 1) * Room + 1
  BY <1>0, RetainIs
<1>7. s \in Int /\ s <= b
  BY <1>0, <1>s, <1>b, RetainIs, SpanNext
<1>8. \E m \in Nat : now - u <= m /\ Rested + Span(m) <= b
  <2>1. CASE call = Idle
    <3>m. PICK m : m = Retain - 1
      OBVIOUS
    <3>1. Done = now /\ Rested = RecSize
      BY <2>1 DEF Done, Rested
    <3>2. m \in Nat /\ now - u <= m /\ m + 1 = Retain
      <4>1. now - u >= 0
        BY <1>0, <1>4, <1>6, <3>1
      <4> QED
        BY <1>0, <1>6, <3>1, <3>m, <4>1
    <3>p. PICK p \in Int : p = Span(m)
      BY <3>2, SpanNext
    <3>3. p + RecSize <= s
      BY <1>s, <3>2, <3>p, SpanNext
    <3>4. RecSize \in Int
      BY Sizes
    <3>5. RecSize + p <= b
      BY ONLY <1>7, <3>3, <3>4, p \in Int, b \in Int
    <3> QED
      BY <3>1, <3>2, <3>5, <3>p
  <2>2. CASE call # Idle
    <3>1. Done = now - 1 /\ Rested = 0
      BY <2>2 DEF Done, Rested
    <3>2. now - u <= Retain
      BY <1>0, <1>6, <3>1
    <3>3. 0 + s <= b
      BY <1>7
    <3> QED
      BY <1>0, <1>s, <3>1, <3>2, <3>3
  <2> QED
    BY <2>1, <2>2
<1>m. PICK m \in Nat : now - u <= m /\ Rested + Span(m) <= b
  BY <1>8
<1>9. Rested \in Nat
  BY Sizes DEF Rested
<1>10. Rich(fs, f, acked[f], now, now, Rested, m)
  BY <1>0, <1>2, <1>3, <1>4, <1>9, <1>b, <1>m, Zenon DEF Rich
<1> QED
  BY <1>6, <1>10, <1>m

\* So it holds its newest records.
LEMMA NewestHeld ==
  ASSUME OneFile, TypeInv, FileInv, KeepInv, EverySecond, boots = 0, RetainFits(Retain), NEW f \in Files,
         NEW u \in NewestAcked(f, Retain)
  PROVE  OnFlash(f, u)
<1>1. PICK x, m : Rich(fs, f, acked[f], now, now, x, m) /\ u \in acked[f] /\ now - u <= m
  BY NowRich
<1>2. Held(fs, f, u)
  BY <1>1, RichHolds
<1> QED
  BY <1>2 DEF Held, OnFlash, Owned

-----------------------------------------------------------------------------
(* A power cut keeps the newest records.                                   *)

\* A power cut that is yet to come leaves the stream as it is.
LEMMA CutStream ==
  ASSUME NEW n \in Nat, Calm(n, fs), NEW k \in 0 .. 3, NEW c, c = Cut(k),
         NEW f, NEW g, NEW pos, NEW A, NEW t, Stream(fs, f, g, pos, A, t)
  PROVE  Stream(c, f, g, pos, A, t)
<1>1. c.map = fs.map /\ c.chain = fs.chain /\ c.file = fs.file /\ c.flash = fs.flash
  BY CutIs
<1>2. Based(c, f, g)
  <2>1. Based(fs, f, g)
    BY Zenon DEF Stream
  <2> QED
    BY <1>1, <2>1, Zenon DEF Based, Extent
<1>3. Begin(c, f, g) = Begin(fs, f, g) /\ Cur(c, f, g, t) = Cur(fs, f, g, t)
  BY <1>1, Zenon DEF Begin, Cur, DataOffset
<1>4. ASSUME NEW u \in A, NEW i \in 1 .. RecSize
      PROVE  Streamed(c, f, g, pos[u] + i - 1, RecBytes(f, u)[i])
  <2>1. Streamed(fs, f, g, pos[u] + i - 1, RecBytes(f, u)[i])
    BY Zenon DEF Stream
  <2> QED
    BY <1>1, <1>3, <2>1, Zenon DEF Streamed, Place
<1>5. /\ pos \in [Nat -> Int] /\ A \subseteq Nat /\ Cur(fs, f, g, t) \in Int
      /\ \A u \in A : Cur(fs, f, g, t) - pos[u] <= Weight(t) - Weight(u)
      /\ fs.file[f].total_block < BlockLimit[f] =>
           Begin(fs, f, g) <= Cur(fs, f, g, t) /\ \A u \in A : Begin(fs, f, g) <= pos[u]
  BY Zenon DEF Stream
<1> QED
  BY <1>1, <1>2, <1>3, <1>4, <1>5, Zenon DEF Stream

\* The last step of a call at which the power fails: f has records, the recorder is a
\* second apart, and the power lasts for k more operations.
CutAt(f, k) ==
  /\ OneFile /\ TypeInv /\ FileInv /\ KeepInv /\ EverySecond /\ boots = 0 /\ RetainFits(Retain + 1)
  /\ f \in Files /\ k \in 0 .. 3

\* The space of one second more.
LEMMA OneMore ==
  ASSUME RetainFits(Retain + 1), NEW f \in Files
  PROVE  /\ Span(Retain) <= (BlockLimit[f] - 1) * Room + 1
         /\ RecSize + Span(Retain) <= (BlockLimit[f] - 1) * Room + 1
<1>1. Retain \in Nat /\ Retain + 1 \in Nat
  BY RetainAssumption
<1>r. PICK r : r = Retain + 1
  OBVIOUS
<1>s. PICK s \in Int : s = Span(r)
  BY <1>1, <1>r, SpanNext
<1>p. PICK p \in Int : p = Span(Retain) /\ p + RecSize <= s
  BY <1>1, <1>r, <1>s, SpanNext
<1>b. PICK b \in Int : b = (BlockLimit[f] - 1) * Room + 1 /\ s <= b
  BY <1>1, <1>r, <1>s, RetainIs
<1>2. RecSize \in Nat
  BY Sizes
<1>3. p <= b /\ RecSize + p <= b
  BY ONLY <1>2, <1>s, <1>p, <1>b
<1> QED
  BY <1>3, <1>p, <1>b

\* One of the newest records, the file and its stream.
LEMMA NewestStream ==
  ASSUME NEW f, NEW k, CutAt(f, k), NEW c, c = Cut(k), NEW u \in NewestAcked(f, Retain)
  PROVE  /\ now \in Nat /\ Calm(now, fs) /\ Only(f) /\ u \in acked[f] /\ u \in Nat /\ Done - u < Retain
         /\ Filled(c, f, now, Rested, TRUE) /\ fs.file[f].total_block # 0
         /\ \E g, pos : Stream(c, f, g, pos, acked[f], now)
<1>0. /\ OneFile /\ TypeInv /\ FileInv /\ KeepInv /\ EverySecond /\ boots = 0
      /\ f \in Files /\ k \in 0 .. 3
  BY Zenon DEF CutAt
<1>1. now \in Nat /\ Calm(now, fs) /\ Only(f) /\ Retain \in Nat
  BY <1>0, OnlyIs, RetainAssumption DEF TypeInv
<1>2. fs.file[f].total_block # 0
  <2>1. acked[f] # {}
    BY DEF NewestAcked
  <2> QED
    BY <1>0, <2>1 DEF KeepInv, Keeps
<1>3. Filled(fs, f, now, Rested, TRUE)
  BY <1>0, <1>2, FileStates
<1>4. PICK g, pos, t0 : /\ t0 \in Nat /\ t0 <= Done /\ acked[f] = t0 .. Done
                        /\ Stream(fs, f, g, pos, acked[f], now)
  BY <1>0, <1>2 DEF KeepInv, Keeps
<1>5. Done \in Int
  BY <1>1 DEF Done
<1>6. u \in acked[f] /\ u \in Nat /\ Done - u < Retain
  BY <1>1, <1>4, <1>5, NewestIs
<1>7. Filled(c, f, now, Rested, TRUE)
  BY <1>0, <1>1, <1>3, CutFilled
<1>8. Stream(c, f, g, pos, acked[f], now)
  BY <1>0, <1>1, <1>4, CutStream
<1> QED
  BY <1>1, <1>2, <1>6, <1>7, <1>8

\* A power cut in flashfile_append_record up to the loop of append_data.
LEMMA EnterKeeps ==
  ASSUME NEW f, NEW k, CutAt(f, k), NEW c, c = Cut(k), NEW u \in NewestAcked(f, Retain),
         call = Idle, NEW n, n = now + 1, NEW s, s = Enter(c, f, n)
  PROVE  n \in Nat /\ s \in States(n) /\ Held(s, f, u)
<1>0. /\ OneFile /\ TypeInv /\ EverySecond /\ RetainFits(Retain + 1) /\ f \in Files /\ k \in 0 .. 3
  BY Zenon DEF CutAt
<1>1. /\ now \in Nat /\ Calm(now, fs) /\ Only(f) /\ u \in acked[f] /\ u \in Nat /\ Done - u < Retain
      /\ Filled(c, f, now, Rested, TRUE)
  BY NewestStream
<1>2. PICK g, pos : Stream(c, f, g, pos, acked[f], now)
  BY NewestStream
<1>3. n \in Nat /\ n = now + 1 /\ Unit = 1 /\ now <= n /\ Done = now /\ Rested = RecSize
  BY <1>0, <1>1, UnitSecond DEF Done, Rested
<1>4. c \in States(n) /\ Synced(c) /\ c.file = fs.file
  <2>1. Calm(n, fs)
    BY <1>1, <1>3, CalmLater
  <2> QED
    BY <1>0, <1>3, <2>1, CutIs
<1>5. c.file[f].tag_time <= now
  <2>1. fs.file[f] \in DescSet(now)
    BY <1>0, <1>1 DEF Calm, States
  <2> QED
    BY <1>1, <1>4, <2>1 DEF DescSet
<1>6. EntersFrom(c, s, f, now, n)
  BY <1>1, <1>3, <1>4, <1>5, Zenon DEF EntersFrom
<1>7. Entered(s, f, pos, acked[f], n)
  BY ONLY <1>2, <1>6, EnterStream, Zenon
<1>8. s \in States(n) /\ Filled(s, f, n, 0, TRUE) /\ \E h : Stream(s, f, h, pos, acked[f], n)
  BY <1>7, Zenon DEF Entered
<1>9. s.file[f].tag_time <= n
  <2>1. s.file[f] \in DescSet(n)
    BY <1>0, <1>8 DEF States
  <2> QED
    BY <1>3, <2>1 DEF DescSet
<1>10. Rich(s, f, acked[f], n, n, 0, Retain)
  <2>1. 0 \in Nat /\ Retain \in Nat
    BY RetainAssumption
  <2>2. 0 + Span(Retain) <= (BlockLimit[f] - 1) * Room + 1
    BY <1>0, <2>1, OneMore, SpanNext
  <2> QED
    BY <1>1, <1>3, <1>8, <1>9, <2>1, <2>2, Zenon DEF Rich
<1>11. n - u <= Retain
  BY <1>1, <1>3, RetainAssumption
<1>12. Held(s, f, u)
  BY <1>1, <1>10, <1>11, RichHolds
<1> QED
  BY <1>3, <1>8, <1>12

\* A power cut in the write of the record.
LEMMA WriteKeeps ==
  ASSUME NEW f, NEW k, CutAt(f, k), NEW c, c = Cut(k), NEW u \in NewestAcked(f, Retain),
         call # Idle, ~NeedsTag(fs, f, now), NEW s, s = WriteRecord(c, f, now)
  PROVE  s \in States(now) /\ Held(s, f, u)
<1>0. /\ OneFile /\ TypeInv /\ EverySecond /\ RetainFits(Retain + 1) /\ f \in Files /\ k \in 0 .. 3
  BY Zenon DEF CutAt
<1>1. /\ now \in Nat /\ Calm(now, fs) /\ Only(f) /\ u \in acked[f] /\ u \in Nat /\ Done - u < Retain
      /\ Filled(c, f, now, Rested, TRUE)
  BY NewestStream
<1>2. PICK g, pos : Stream(c, f, g, pos, acked[f], now)
  BY NewestStream
<1>3. Done = now - 1 /\ Rested = 0
  BY DEF Done, Rested
<1>4. c \in States(now) /\ Synced(c) /\ c.file = fs.file
  BY <1>0, <1>1, CutIs
<1>5. ~NeedsTag(c, f, now) /\ Filled(c, f, now, 0, TRUE)
  BY <1>1, <1>3, <1>4, Zenon DEF NeedsTag, DataOffset
<1>6. /\ s \in States(now) /\ Filled(s, f, now, RecSize, TRUE)
      /\ \E h : Stream(s, f, h, pos, acked[f], now)
  <2>1. WritesFrom(c, s, f, now)
    BY <1>1, <1>4, <1>5, Zenon DEF WritesFrom
  <2>2. StreamGrows(s, f, pos, acked[f], now)
    BY ONLY <1>2, <2>1, WriteStream, Zenon
  <2> QED
    BY <2>2, Zenon DEF StreamGrows
<1>7. s.file[f].tag_time <= now
  <2>1. s.file[f] \in DescSet(now)
    BY <1>0, <1>6 DEF States
  <2> QED
    BY <1>1, <2>1 DEF DescSet
<1>8. Rich(s, f, acked[f], now, now, RecSize, Retain)
  <2>1. RecSize \in Nat /\ Retain \in Nat
    BY RetainAssumption, Sizes
  <2>2. RecSize + Span(Retain) <= (BlockLimit[f] - 1) * Room + 1
    BY <1>0, OneMore
  <2> QED
    BY <1>1, <1>6, <1>7, <2>1, <2>2, Zenon DEF Rich
<1>9. now - u <= Retain
  <2>1. Retain \in Nat /\ now \in Nat /\ u \in Nat /\ now - 1 - u < Retain
    BY <1>1, <1>3, RetainAssumption
  <2> QED
    BY ONLY <2>1
<1>10. Held(s, f, u)
  BY <1>1, <1>8, <1>9, RichHolds
<1> QED
  BY <1>6, <1>10

\* flashfile_system_init finds the records that are held.
LEMMA BootHolds ==
  ASSUME NEW n \in Nat, NEW s \in States(n), NEW g \in Garbage, NEW f, NEW u, Held(s, f, u),
         fs' = SystemInit(s.flash, g)
  PROVE  OnFlash(f, u)'
<1>1. s.flash \in FlashSet(n) /\ g \in Offsets
  BY GarbageAssumption DEF States, Offsets
<1>2. fs' \in Booted(n, s.flash)
  BY <1>1, SystemInitIs
<1>t. PICK t : t = fs'
  OBVIOUS
<1>3. t.map = [b \in Blocks |-> s.flash[b].head] /\ t.flash = s.flash
  BY <1>2, <1>t DEF Booted
<1> SUFFICES ASSUME NEW i \in 1 .. RecSize
             PROVE  \E b \in Blocks, o \in Body : t.map[b].file_id = f /\ t.flash[b].body[o] = RecBytes(f, u)[i]
  BY <1>t DEF OnFlash, Owned
<1>4. PICK b \in Blocks, o \in Body : s.flash[b].head.file_id = f /\ s.flash[b].body[o] = RecBytes(f, u)[i]
  BY Zenon DEF Held
<1> QED
  BY <1>3, <1>4

\* Neither does the first power cut take one of the newest records.
LEMMA RestartKeeps ==
  ASSUME OneFile, OneRestart, RestartSecond, RetainFits(Retain + 1), TypeInv, FileInv, KeepInv, Restart,
         NEW f \in Files, NEW u \in NewestAcked(f, Retain)
  PROVE  OnFlash(f, u)'
<1>1. boots = 0 /\ EverySecond
  <2>1. use \in Uses /\ use.restarts \in Nat /\ use.restarts <= 1 /\ boots \in Nat /\ boots < use.restarts
    BY LimitIs DEF TypeInv, FileInv, OneRestart, Restart
  <2>2. use.steps = {1}
    BY <2>1 DEF RestartSecond
  <2> QED
    BY <2>1, <2>2 DEF EverySecond
<1>2. Files = {f} /\ now \in Nat /\ \A d \in use.steps : d = 1
  BY <1>1, OnlyIs DEF Only, TypeInv, EverySecond
<1>3. call.file \in Files => call # Idle /\ call.file = f /\ call.time = now
  BY <1>2, CallIs
<1>4. PICK g \in Garbage, k \in 0 .. 3 :
        \/ /\ call = Idle
           /\ \E h \in Files, d \in use.steps :
                /\ now' = now + d
                /\ fs' = SystemInit(Enter(Cut(k), h, now').flash, g)
        \/ /\ call.file \in Files /\ now' = now
           /\ NeedsTag(fs, call.file, call.time)
           /\ fs' = SystemInit(LoopTag(Cut(k), call.file, call.time).flash, g)
        \/ /\ call.file \in Files /\ now' = now
           /\ ~NeedsTag(fs, call.file, call.time)
           /\ fs' = SystemInit(WriteRecord(Cut(k), call.file, call.time).flash, g)
  BY Zenon DEF Restart
<1>5. CutAt(f, k)
  BY <1>1, Zenon DEF CutAt
<1>c. PICK c : c = Cut(k)
  OBVIOUS
<1>6. ASSUME call = Idle, NEW h \in Files, NEW d \in use.steps, now' = now + d,
             fs' = SystemInit(Enter(Cut(k), h, now').flash, g)
      PROVE  OnFlash(f, u)'
  <2>n. PICK n : n = now + 1
    OBVIOUS
  <2>s. PICK s : s = Enter(c, f, n)
    OBVIOUS
  <2>1. n \in Nat /\ s \in States(n) /\ Held(s, f, u)
    BY <1>5, <1>6, <1>c, <2>n, <2>s, EnterKeeps
  <2>2. fs' = SystemInit(s.flash, g)
    <3>1. h = f /\ now' = n
      BY <1>2, <1>6, <2>n
    <3> QED
      BY <1>6, <1>c, <2>s, <3>1
  <2> QED
    BY <2>1, <2>2, BootHolds
<1>7. ASSUME call.file \in Files, ~NeedsTag(fs, call.file, call.time),
             fs' = SystemInit(WriteRecord(Cut(k), call.file, call.time).flash, g)
      PROVE  OnFlash(f, u)'
  <2>s. PICK s : s = WriteRecord(c, f, now)
    OBVIOUS
  <2>1. ~NeedsTag(fs, f, now) /\ fs' = SystemInit(s.flash, g)
    BY <1>3, <1>7, <1>c, <2>s
  <2>2. s \in States(now) /\ Held(s, f, u)
    BY <1>3, <1>5, <1>7, <1>c, <2>1, <2>s, WriteKeeps
  <2> QED
    BY <1>2, <2>1, <2>2, BootHolds
<1>8. ~(call.file \in Files /\ NeedsTag(fs, call.file, call.time))
  BY <1>1, <1>3, NoTagNeeded DEF LoopProgress
<1> QED
  BY <1>4, <1>6, <1>7, <1>8

-----------------------------------------------------------------------------
(* The theorems.                                                           *)

\* The inductive invariant of the records holds: with a record every second and up to
\* the first restart, flashfile_append_record has reported one record of each second
\* written, and each is in the file's stream of bytes at its place or was given up with
\* the blocks in front of it.
THEOREM FlashRecords == OneFile => (Spec => [](TypeInv /\ FileInv /\ KeepInv))
<1> SUFFICES ASSUME OneFile PROVE Spec => [](TypeInv /\ FileInv /\ KeepInv)
  OBVIOUS
<1>1. Init => TypeInv /\ FileInv /\ KeepInv
  BY TypeInvInit, FileInvInit, KeepInit
<1>2. TypeInv /\ FileInv /\ KeepInv /\ [Next]_vars => (TypeInv /\ FileInv /\ KeepInv)'
  BY TypeInvNext, FileInvNext, KeepNext
<1> QED
  BY <1>1, <1>2, PTL DEF Spec

\* RetainsNewest: the newest Retain records reported written are complete on the flash,
\* whatever blocks flashfile_round_file_struct erased, if the records of Retain seconds
\* fit into all blocks of the file but one.
THEOREM FlashRetains == OneFile /\ RetainFits(Retain) => (Spec => []RetainsNewest)
<1> SUFFICES ASSUME OneFile, RetainFits(Retain) PROVE Spec => []RetainsNewest
  OBVIOUS
<1>1. TypeInv /\ FileInv /\ KeepInv => RetainsNewest
  <2> SUFFICES ASSUME TypeInv, FileInv, KeepInv, EverySecond, boots = 0,
                      NEW f \in Files, NEW u \in NewestAcked(f, Retain)
               PROVE  OnFlash(f, u)
    BY DEF RetainsNewest, NewestKept
  <2> QED
    BY NewestHeld
<1>2. Spec => [](TypeInv /\ FileInv /\ KeepInv)
  BY FlashRecords
<1> QED
  BY <1>1, <1>2, PTL

\* RestartKeepsRecords: the first power cut, at any flash operation of any call, leaves
\* the newest Retain records complete on the flash in blocks that flashfile_system_init
\* finds, if one record more fits into all blocks of the file but one.
THEOREM FlashKeepsRecords ==
  OneFile /\ OneRestart /\ RestartSecond /\ RetainFits(Retain + 1) => (Spec => RestartKeepsRecords)
<1> SUFFICES ASSUME OneFile, OneRestart, RestartSecond, RetainFits(Retain + 1)
             PROVE  Spec => RestartKeepsRecords
  OBVIOUS
<1>1. TypeInv /\ FileInv /\ KeepInv /\ [Next]_vars => [boots' # boots => NewestKept']_vars
  <2> SUFFICES ASSUME TypeInv, FileInv, KeepInv, [Next]_vars, boots' # boots PROVE NewestKept'
    OBVIOUS
  <2>1. Restart
    BY DEF Next, AppendRecord, InsertTag, WriteData, vars
  <2>2. acked' = acked
    BY <2>1 DEF Restart
  <2>3. ASSUME NEW f \in Files, NEW u \in NewestAcked(f, Retain)' PROVE OnFlash(f, u)'
    <3>1. u \in NewestAcked(f, Retain)
      BY <2>2, <2>3 DEF NewestAcked
    <3> QED
      BY <2>1, <3>1, RestartKeeps
  <2> QED
    BY <2>3 DEF NewestKept
<1>2. Spec => [](TypeInv /\ FileInv /\ KeepInv)
  BY FlashRecords
<1> QED
  BY <1>1, <1>2, PTL DEF Spec, RestartKeepsRecords
=============================================================================
