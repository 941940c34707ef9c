--------------------------- MODULE SerialLinkProofs ---------------------------
(*****************************************************************************)
(* The PC link, for any ring, any PCs that send no more than the ring holds  *)
(* (PeersFit) and any interleaving of the interrupt handler and the thread:  *)
(* the thread decodes at the boundaries of frames, counts and executes each  *)
(* frame once and in order, and stores what was sent, up to the first damage *)
(* on the wire. The argument is one invariant: the ring between read_index   *)
(* and save_index, with the rest of the frame on the line behind it, is the  *)
(* bytes of the frames not yet released (Laid), the handler is where the     *)
(* line is within its frame (Parsed), and getcmd counts no more frames than  *)
(* were received (CountInv).                                                 *)
(*****************************************************************************)
EXTENDS SerialLink, WellFoundedInduction, SequenceTheorems, TLAPS

-----------------------------------------------------------------------------
(* Checksums and the bytes of a frame.                                     *)

\* What a byte of the line or of the ring may be.
Byte == 0 .. 255

\* Induction over 0 .. n, for a set instead of a predicate.
LEMMA Induction ==
  ASSUME NEW n \in Nat, NEW S, 0 \in S, \A k \in 0 .. n - 1 : k \in S => k + 1 \in S
  PROVE  0 .. n \subseteq S
<1> DEFINE I == {k \in 0 .. n : k \notin S}
<1> SUFFICES ASSUME I # {} PROVE FALSE
  OBVIOUS
<1>0. I \in SUBSET Nat
  OBVIOUS
<1> HIDE DEF I
<1>1. IsWellFoundedOn(OpToRel(<, Nat), Nat)
  BY NatLessThanWellFounded
<1>2. PICK x \in I : \A y \in I : ~ (<<y, x>> \in OpToRel(<, Nat))
  BY <1>0, <1>1, WFMin, Zenon
<1>3. x \in 0 .. n /\ x \notin S
  BY <1>2 DEF I
<1>4. x - 1 \in 0 .. n - 1 /\ x - 1 \in Nat /\ x \in Nat /\ x - 1 < x
  BY <1>3
<1>5. x - 1 \notin S
  BY <1>3, <1>4
<1>6. x - 1 \in I
  BY <1>4, <1>5 DEF I
<1>7. \A ss \in Nat \X Nat : ss[1] < ss[2] => ss \in OpToRel(<, Nat)
  BY Zenon DEF OpToRel
<1>8. <<x - 1, x>> \in Nat \X Nat /\ <<x - 1, x>>[1] = x - 1 /\ <<x - 1, x>>[2] = x
  BY <1>4, SMT
<1>9. <<x - 1, x>> \in OpToRel(<, Nat)
  BY <1>4, <1>7, <1>8, Zenon
<1> QED
  BY <1>2, <1>6, <1>9, Zenon

\* The exclusive or of two bytes is a byte, and 0 for equal ones.
LEMMA XorIs ==
  ASSUME NEW x \in Byte, NEW y \in Byte
  PROVE  Xor(x, y) \in Byte /\ Xor(x, x) = 0
BY SMT DEF Xor, Byte

\* The checksum starts with the first byte itself.
LEMMA XorFirst == Xor(0, Sync1) = Sync1
BY SMT DEF Xor, Sync1

\* A function on 0 .. N begins with v and goes on with the steps h.
Recursive(N, V, v, h) ==
  \E g \in [0 .. N -> V] : g[0] = v /\ \A k \in 1 .. N : g[k] = h[k][g[k - 1]]

\* There is such a function, whatever the steps are.
LEMMA Recursion ==
  ASSUME NEW N \in Nat, NEW V, NEW v \in V, NEW h \in [1 .. N -> [V -> V]]
  PROVE  Recursive(N, V, v, h)
<1> DEFINE Good(g, n) == g[0] = v /\ \A k \in 1 .. n : g[k] = h[k][g[k - 1]]
           S == {n \in 0 .. N : \E g \in [0 .. n -> V] : Good(g, n)}
<1>1. 0 \in S
  <2> DEFINE g == [k \in 0 .. 0 |-> v]
  <2>1. g \in [0 .. 0 -> V] /\ Good(g, 0)
    OBVIOUS
  <2> HIDE DEF g
  <2>2. \E x \in [0 .. 0 -> V] : Good(x, 0)
    BY <2>1
  <2> QED
    BY <2>2
<1>2. ASSUME NEW n \in 0 .. N - 1, n \in S PROVE n + 1 \in S
  <2>1. PICK g \in [0 .. n -> V] : Good(g, n)
    BY <1>2
  <2> DEFINE x == [k \in 0 .. n + 1 |-> IF k <= n THEN g[k] ELSE h[n + 1][g[n]]]
  <2>2. x \in [0 .. n + 1 -> V]
    <3>1. h[n + 1][g[n]] \in V
      OBVIOUS
    <3> QED
      BY <3>1
  <2>3. x[0] = v /\ \A k \in 1 .. n + 1 : x[k] = h[k][x[k - 1]]
    <3>1. x[0] = v
      BY <2>1
    <3> SUFFICES ASSUME NEW k \in 1 .. n + 1 PROVE x[k] = h[k][x[k - 1]]
      BY <3>1
    <3>2. CASE k <= n
      <4>1. x[k] = g[k] /\ x[k - 1] = g[k - 1] /\ g[k] = h[k][g[k - 1]]
        BY <2>1, <3>2
      <4> QED
        BY <4>1
    <3>3. CASE k = n + 1
      <4>1. x[k] = h[k][g[n]] /\ x[k - 1] = g[n]
        BY <3>3
      <4> QED
        BY <4>1
    <3> QED
      BY <3>2, <3>3
  <2> HIDE DEF x
  <2>4. Good(x, n + 1)
    BY <2>3
  <2> QED
    BY <2>2, <2>4, SMTT(60)
<1>3. N \in S
  <2>1. \A k \in 0 .. N - 1 : k \in S => k + 1 \in S
    BY <1>2
  <2> HIDE DEF S
  <2>2. 0 .. N \subseteq S
    BY <1>1, <2>1, Induction, Zenon
  <2> QED
    BY <2>2
<1> QED
  BY <1>3 DEF Recursive

\* The recursive function Sums exists: it is what its definition says.
LEMMA SumsIs ==
  ASSUME NEW b \in Seq(Byte)
  PROVE  /\ Sums(b) \in [0 .. Len(b) -> Byte] /\ Sums(b)[0] = 0
         /\ \A n \in 1 .. Len(b) : Sums(b)[n] = Xor(Sums(b)[n - 1], b[n])
<1> DEFINE N == Len(b)
           h == [n \in 1 .. N |-> [x \in Byte |-> Xor(x, b[n])]]
           Good(g) == g = [n \in 0 .. N |-> IF n = 0 THEN 0 ELSE Xor(g[n - 1], b[n])]
<1>1. N \in Nat /\ \A i \in 1 .. N : b[i] \in Byte
  BY LenProperties, ElementOfSeq
<1> HIDE DEF N
<1>2. \E g : Good(g)
  <2>1. h \in [1 .. N -> [Byte -> Byte]]
    BY <1>1, XorIs
  <2>2. \A n \in 1 .. N, x \in Byte : h[n][x] = Xor(x, b[n])
    OBVIOUS
  <2> HIDE DEF h
  <2>3. 0 \in Byte
    BY DEF Byte
  <2>4. Recursive(N, Byte, 0, h)
    BY <1>1, <2>1, <2>3, Recursion
  <2> PICK g \in [0 .. N -> Byte] : g[0] = 0 /\ \A n \in 1 .. N : g[n] = h[n][g[n - 1]]
    BY <2>4 DEF Recursive
  <2>5. \A n \in 1 .. N : g[n - 1] \in Byte /\ g[n] = Xor(g[n - 1], b[n])
    BY <1>1, <2>2, SMTT(60)
  <2>6. Good(g)
    BY <1>1, <2>5
  <2> QED
    BY <2>6
<1>3. Good(Sums(b))
  BY <1>2 DEF Sums, N
<1>4. /\ DOMAIN Sums(b) = 0 .. N /\ Sums(b)[0] = 0
      /\ \A n \in 1 .. N : Sums(b)[n] = Xor(Sums(b)[n - 1], b[n])
  BY <1>1, <1>3
<1>5. Sums(b) = [n \in 0 .. N |-> Sums(b)[n]]
  BY <1>3
<1> DEFINE T == {n \in 0 .. N : Sums(b)[n] \in Byte}
<1>6. 0 \in T
  BY <1>1, <1>4 DEF Byte
<1>7. \A n \in 0 .. N - 1 : n \in T => n + 1 \in T
  <2> SUFFICES ASSUME NEW n \in 0 .. N - 1, n \in T PROVE n + 1 \in T
    OBVIOUS
  <2>1. n + 1 \in 1 .. N /\ (n + 1) - 1 = n /\ Sums(b)[n] \in Byte
    BY <1>1
  <2>2. Sums(b)[n + 1] = Xor(Sums(b)[n], b[n + 1])
    BY <1>4, <2>1
  <2> QED
    BY <1>1, <2>1, <2>2, XorIs
<1>8. 0 .. N \subseteq T
  <2> HIDE DEF T
  <2> QED
    BY <1>1, <1>6, <1>7, Induction, Zenon
<1> QED
  BY <1>4, <1>5, <1>8 DEF N

\* The bytes of a frame but the checksum, one by one.
LEMMA BodyIs ==
  ASSUME NEW f \in Frames
  PROVE  /\ Body(f) \in Seq(Byte) /\ Len(Body(f)) = Len(f.data) + 6 /\ Len(f.data) \in Nat /\ Len(f.data) \in Byte
         /\ Body(f)[1] = Sync1 /\ Body(f)[2] = Sync2 /\ Body(f)[3] = f.cmd
         /\ Body(f)[4] = 0 /\ Body(f)[5] = Len(f.data) /\ Body(f)[6] = 0
         /\ \A i \in 1 .. Len(f.data) : Body(f)[i + 6] = f.data[i]
         /\ f.cmd \in Byte /\ f.data \in Seq(Byte)
<1>1. f.cmd \in Byte /\ f.data \in Seq(Byte) /\ Len(f.data) \in Nat /\ Len(f.data) \in Byte
  <2>1. f.cmd \in Byte /\ f.data \in Seq(Byte) /\ Len(f.data) < 256
    BY FramesAssumption DEF Byte
  <2>2. Len(f.data) \in Nat
    BY <2>1, LenProperties, Zenon
  <2>3. \A m \in Nat : m < 256 => m \in Byte
    BY DEF Byte
  <2> QED
    BY <2>1, <2>2, <2>3, Zenon
<1> DEFINE h == <<Sync1, Sync2, f.cmd, 0, Len(f.data), 0>>
<1>2. h \in Seq(Byte) /\ Len(h) = 6
  <2>1. Sync1 \in Byte /\ Sync2 \in Byte /\ 0 \in Byte
    BY DEF Byte, Sync1, Sync2
  <2> QED
    BY <1>1, <2>1
<1>3. h[1] = Sync1 /\ h[2] = Sync2 /\ h[3] = f.cmd /\ h[4] = 0 /\ h[5] = Len(f.data) /\ h[6] = 0
  OBVIOUS
<1> HIDE DEF h
<1>4. /\ h \o f.data \in Seq(Byte) /\ Len(h \o f.data) = Len(f.data) + 6
      /\ \A i \in 1 .. Len(f.data) + 6 : (h \o f.data)[i] = IF i <= 6 THEN h[i] ELSE f.data[i - 6]
  <2> PICK x, y : x = h /\ y = f.data
    OBVIOUS
  <2>1. x \in Seq(Byte) /\ y \in Seq(Byte) /\ Len(x) = 6 /\ Len(y) \in Nat
    BY <1>1, <1>2
  <2>2. /\ x \o y \in Seq(Byte) /\ Len(x \o y) = Len(x) + Len(y)
        /\ \A i \in 1 .. Len(x) + Len(y) : (x \o y)[i] = IF i <= Len(x) THEN x[i] ELSE y[i - Len(x)]
    BY <2>1, ConcatProperties, ZenonT(60)
  <2> QED
    BY <2>1, <2>2
<1>5. Body(f) = h \o f.data
  BY DEF Body, h
<1>6. \A i \in 1 .. Len(f.data) : Body(f)[i + 6] = f.data[i]
  BY <1>1, <1>4, <1>5, SMTT(60)
<1> QED
  BY <1>1, <1>3, <1>4, <1>5, <1>6, SMTT(60)

\* The checksum of the first n bytes of a frame.
Sum(f, n) == Sums(Body(f))[n]

\* The bytes of a frame, one by one, and the sums the handler forms of them.
LEMMA BytesIs ==
  ASSUME NEW f \in Frames
  PROVE  /\ Bytes[f] \in Seq(Byte) /\ Len(Bytes[f]) = Len(f.data) + 7 /\ Len(f.data) \in Nat /\ Len(f.data) \in Byte
         /\ Bytes[f][1] = Sync1 /\ Bytes[f][2] = Sync2 /\ Bytes[f][3] = f.cmd
         /\ Bytes[f][4] = 0 /\ Bytes[f][5] = Len(f.data) /\ Bytes[f][6] = 0
         /\ \A i \in 1 .. Len(f.data) : Bytes[f][i + 6] = f.data[i]
         /\ Bytes[f][Len(f.data) + 7] = Sum(f, Len(f.data) + 6)
         /\ Sum(f, 1) = Sync1 /\ \A n \in 0 .. Len(f.data) + 6 : Sum(f, n) \in Byte
         /\ \A n \in 1 .. Len(f.data) + 6 : Sum(f, n) = Xor(Sum(f, n - 1), Bytes[f][n])
<1> DEFINE b == Body(f)
           n == Len(f.data)
<1>1. Sums(b)[n + 6] \in Byte /\ \A k \in 0 .. n + 6 : Sums(b)[k] \in Byte
  <2> PICK x : x = b
    OBVIOUS
  <2>1. x \in Seq(Byte) /\ Len(x) = n + 6 /\ n \in Nat /\ n \in Byte
    BY BodyIs
  <2>2. Sums(x) \in [0 .. n + 6 -> Byte]
    BY <2>1, SumsIs
  <2> QED
    BY <2>1, <2>2
<1>2. Bytes[f] = Append(b, Sums(b)[n + 6])
  BY BodyIs DEF Bytes
<1>3. /\ Bytes[f] \in Seq(Byte) /\ Len(Bytes[f]) = n + 7
      /\ \A i \in 1 .. n + 6 : Bytes[f][i] = b[i]
      /\ Bytes[f][n + 7] = Sums(b)[n + 6]
  <2> PICK x, y : x = b /\ y = Sums(b)[n + 6]
    OBVIOUS
  <2>1. x \in Seq(Byte) /\ Len(x) = n + 6 /\ y \in Byte /\ n \in Nat /\ n \in Byte
    BY <1>1, BodyIs
  <2>2. /\ Append(x, y) \in Seq(Byte) /\ Len(Append(x, y)) = Len(x) + 1
        /\ \A i \in 1 .. Len(x) : Append(x, y)[i] = x[i]
        /\ Append(x, y)[Len(x) + 1] = y
    BY <2>1, AppendProperties
  <2>3. Len(x) + 1 = n + 7
    BY <2>1
  <2> QED
    BY <1>2, <2>1, <2>2, <2>3
<1>4. n \in Nat /\ n \in Byte
  BY BodyIs
<1>5. \A k \in 1 .. n + 6 : Sums(b)[k] = Xor(Sums(b)[k - 1], b[k])
  BY BodyIs, SumsIs, SMTT(60)
<1>6. Sum(f, 1) = Sync1
  <2>1. Sums(b)[0] = 0 /\ b[1] = Sync1 /\ 1 \in 1 .. n + 6 /\ 1 - 1 = 0
    BY <1>4, BodyIs, SumsIs
  <2>2. Sums(b)[1] = Xor(Sums(b)[1 - 1], b[1])
    BY <1>5, <2>1
  <2>3. Sums(b)[1] = Xor(0, Sync1)
    BY <2>1, <2>2, Zenon
  <2> QED
    BY <2>3, XorFirst DEF Sum
<1>7. /\ Bytes[f][1] = Sync1 /\ Bytes[f][2] = Sync2 /\ Bytes[f][3] = f.cmd
      /\ Bytes[f][4] = 0 /\ Bytes[f][5] = Len(f.data) /\ Bytes[f][6] = 0
      /\ \A i \in 1 .. Len(f.data) : Bytes[f][i + 6] = f.data[i]
  <2>1. \A i \in 1 .. n + 6 : Bytes[f][i] = b[i]
    BY <1>3
  <2>2. /\ 1 \in 1 .. n + 6 /\ 2 \in 1 .. n + 6 /\ 3 \in 1 .. n + 6 /\ 4 \in 1 .. n + 6
        /\ 5 \in 1 .. n + 6 /\ 6 \in 1 .. n + 6 /\ \A i \in 1 .. n : i + 6 \in 1 .. n + 6
    BY <1>4
  <2> QED
    BY <2>1, <2>2, BodyIs, Zenon
<1> QED
  BY <1>1, <1>3, <1>4, <1>5, <1>6, <1>7 DEF Sum

-----------------------------------------------------------------------------
(* The bytes of several frames.                                            *)

\* Concatenation is associative.
Associate(x, y, z) == (x \o y) \o z = x \o (y \o z)

\* It is, for bytes.
LEMMA Assoc ==
  ASSUME NEW x \in Seq(Byte), NEW y \in Seq(Byte), NEW z \in Seq(Byte)
  PROVE  Associate(x, y, z)
BY SMTT(60) DEF Associate

\* A frame is a sequence of bytes and not empty.
LEMMA BytesFit ==
  ASSUME NEW f \in Frames
  PROVE  Bytes[f] \in Seq(Byte) /\ Bytes[f] # <<>>
<1>1. Bytes[f] \in Seq(Byte) /\ Len(Bytes[f]) = Len(f.data) + 7 /\ Len(f.data) \in Nat /\ Len(f.data) \in Byte
  BY BytesIs
<1> PICK x, n : x = Bytes[f] /\ n = Len(f.data)
  OBVIOUS
<1>2. Len(x) # 0
  BY <1>1
<1> QED
  BY <1>1, <1>2, EmptySeq

\* The recursive function Streams exists: it is what its definition says.
LEMMA StreamsIs ==
  ASSUME NEW q \in Seq(Frames)
  PROVE  /\ Streams(q) \in [0 .. Len(q) -> Seq(Byte)] /\ Streams(q)[0] = <<>>
         /\ \A n \in 1 .. Len(q) : Streams(q)[n] = Streams(q)[n - 1] \o Bytes[q[n]]
<1> DEFINE N == Len(q)
           V == Seq(Byte)
           c(n, x) == x \o Bytes[q[n]]
           h == [n \in 1 .. N |-> [x \in V |-> c(n, x)]]
           Good(g) == g = [n \in 0 .. N |-> IF n = 0 THEN <<>> ELSE c(n, g[n - 1])]
<1>1. N \in Nat /\ \A i \in 1 .. N : Bytes[q[i]] \in V
  <2>1. N \in Nat /\ \A i \in 1 .. N : q[i] \in Frames
    BY LenProperties, ElementOfSeq
  <2> QED
    BY <2>1, BytesFit
<1>10. \A n \in 1 .. N, x \in V : c(n, x) \in V
  BY <1>1, ConcatProperties, Zenon
<1> HIDE DEF N, c
<1>2. \E g : Good(g)
  <2>1. h \in [1 .. N -> [V -> V]]
    <3> HIDE DEF V
    <3> QED
      BY <1>10
  <2>2. \A n \in 1 .. N, x \in V : h[n][x] = c(n, x)
    OBVIOUS
  <2>3. <<>> \in V
    BY EmptySeq
  <2> HIDE DEF h, V
  <2>4. Recursive(N, V, <<>>, h)
    BY <1>1, <2>1, <2>3, Recursion, Zenon
  <2> PICK g \in [0 .. N -> V] : g[0] = <<>> /\ \A n \in 1 .. N : g[n] = h[n][g[n - 1]]
    BY <2>4 DEF Recursive
  <2>5. \A n \in 1 .. N : g[n - 1] \in V /\ g[n] = c(n, g[n - 1])
    BY <1>1, <2>2, SMTT(60)
  <2>6. Good(g)
    BY <1>1, <2>5
  <2> QED
    BY <2>6
<1>3. Good(Streams(q))
  BY <1>2, ZenonT(60) DEF Streams, N, c
<1>4. /\ DOMAIN Streams(q) = 0 .. N /\ Streams(q)[0] = <<>>
      /\ \A n \in 1 .. N : Streams(q)[n] = c(n, Streams(q)[n - 1])
  BY <1>1, <1>3
<1>5. Streams(q) = [n \in 0 .. N |-> Streams(q)[n]]
  BY <1>3
<1>11. <<>> \in V
  BY EmptySeq
<1> HIDE DEF V
<1> DEFINE T == {n \in 0 .. N : Streams(q)[n] \in V}
<1>6. 0 \in T
  BY <1>1, <1>4, <1>11
<1>7. \A n \in 0 .. N - 1 : n \in T => n + 1 \in T
  <2> SUFFICES ASSUME NEW n \in 0 .. N - 1, n \in T PROVE n + 1 \in T
    OBVIOUS
  <2>1. n + 1 \in 1 .. N /\ n + 1 \in 0 .. N /\ (n + 1) - 1 = n /\ Streams(q)[n] \in V
    BY <1>1
  <2>2. Streams(q)[n + 1] = c(n + 1, Streams(q)[n])
    BY <1>4, <2>1
  <2>3. c(n + 1, Streams(q)[n]) \in V
    BY <1>10, <2>1
  <2> QED
    BY <2>1, <2>2, <2>3
<1>8. 0 .. N \subseteq T
  <2> HIDE DEF T
  <2> QED
    BY <1>1, <1>6, <1>7, Induction, Zenon
<1>9. Streams(q) \in [0 .. N -> V]
  BY <1>5, <1>8
<1> QED
  BY <1>4, <1>9 DEF N, V, c

\* No frames, no bytes.
LEMMA StreamNil == Stream(<<>>) = <<>>
<1>1. <<>> \in Seq(Frames) /\ Len(<<>>) = 0
  BY EmptySeq
<1> QED
  BY <1>1, StreamsIs DEF Stream

\* Frames are sent as bytes.
LEMMA StreamType ==
  ASSUME NEW q \in Seq(Frames)
  PROVE  Stream(q) \in Seq(Byte)
<1>1. Len(q) \in 0 .. Len(q)
  BY LenProperties
<1> QED
  BY <1>1, StreamsIs DEF Stream

\* A frame behind the others adds its bytes behind theirs.
LEMMA StreamAppend ==
  ASSUME NEW q \in Seq(Frames), NEW f \in Frames
  PROVE  Stream(Append(q, f)) = Stream(q) \o Bytes[f]
<1> DEFINE N == Len(q)
           r == Append(q, f)
           T == {n \in 0 .. N : Streams(r)[n] = Streams(q)[n]}
<1>1. /\ N \in Nat /\ r \in Seq(Frames) /\ Len(r) = N + 1
      /\ r[N + 1] = f /\ \A i \in 1 .. N : r[i] = q[i]
  BY LenProperties, AppendProperties
<1> HIDE DEF r, N
<1>2. /\ Streams(r)[0] = <<>>
      /\ \A n \in 1 .. N + 1 : Streams(r)[n] = Streams(r)[n - 1] \o Bytes[r[n]]
  BY <1>1, StreamsIs
<1>3. /\ Streams(q)[0] = <<>>
      /\ \A n \in 1 .. N : Streams(q)[n] = Streams(q)[n - 1] \o Bytes[q[n]]
  BY StreamsIs DEF N
<1>4. 0 \in T
  BY <1>1, <1>2, <1>3
<1>5. \A n \in 0 .. N - 1 : n \in T => n + 1 \in T
  <2> SUFFICES ASSUME NEW n \in 0 .. N - 1, n \in T PROVE n + 1 \in T
    OBVIOUS
  <2>1. /\ n + 1 \in 1 .. N /\ n + 1 \in 1 .. N + 1 /\ n + 1 \in 0 .. N /\ (n + 1) - 1 = n
        /\ Streams(r)[n] = Streams(q)[n]
    BY <1>1
  <2>2. Streams(r)[n + 1] = Streams(q)[n + 1]
    BY <1>1, <1>2, <1>3, <2>1, Zenon
  <2> QED
    BY <2>1, <2>2
<1>6. 0 .. N \subseteq T
  <2> HIDE DEF T
  <2> QED
    BY <1>1, <1>4, <1>5, Induction, Zenon
<1>7. Streams(r)[N] = Streams(q)[N]
  BY <1>1, <1>6
<1>8. Streams(r)[N + 1] = Streams(r)[N] \o Bytes[r[N + 1]]
  <2>1. N + 1 \in 1 .. N + 1 /\ (N + 1) - 1 = N
    BY <1>1
  <2> QED
    BY <1>2, <2>1
<1> QED
  BY <1>1, <1>7, <1>8, Zenon DEF Stream, r, N

\* The bytes of frames begin with those of the first frame.
LEMMA StreamTail ==
  ASSUME NEW q \in Seq(Frames), q # <<>>
  PROVE  Stream(q) = Bytes[Head(q)] \o Stream(Tail(q))
<1> DEFINE N == Len(Tail(q))
           r == Tail(q)
           b == Bytes[q[1]]
           c(x) == b \o x
           T == {n \in 0 .. N : Streams(q)[n + 1] = c(Streams(r)[n])}
<1>1. /\ N \in Nat /\ r \in Seq(Frames) /\ Len(q) = N + 1 /\ Head(q) = q[1]
      /\ \A i \in 1 .. N : r[i] = q[i + 1]
  <2>1. r \in Seq(Frames) /\ N = Len(q) - 1 /\ \A i \in 1 .. N : r[i] = q[i + 1]
    BY HeadTailProperties, Zenon
  <2>2. N \in Nat /\ Len(q) \in Nat
    BY <2>1, LenProperties
  <2> QED
    BY <2>1, <2>2
<1>2. \A i \in 1 .. N + 1 : Bytes[q[i]] \in Seq(Byte)
  BY <1>1, BytesFit, ElementOfSeq
<1> HIDE DEF r, N
<1>3. /\ Streams(q) \in [0 .. N + 1 -> Seq(Byte)] /\ Streams(q)[0] = <<>>
      /\ \A n \in 1 .. N + 1 : Streams(q)[n] = Streams(q)[n - 1] \o Bytes[q[n]]
  BY <1>1, StreamsIs
<1>4. /\ Streams(r) \in [0 .. N -> Seq(Byte)] /\ Streams(r)[0] = <<>>
      /\ \A n \in 1 .. N : Streams(r)[n] = Streams(r)[n - 1] \o Bytes[r[n]]
  <2>1. Len(r) = N
    BY DEF r, N
  <2> QED
    BY <1>1, <2>1, StreamsIs
<1>5. b \in Seq(Byte)
  BY <1>1, <1>2
<1> HIDE DEF b, c
<1>6. 0 \in T
  <2>1. 1 \in 1 .. N + 1 /\ 1 - 1 = 0 /\ 0 + 1 = 1
    BY <1>1
  <2>2. Streams(q)[1] = <<>> \o b
    BY <1>3, <2>1, Zenon DEF b
  <2>3. <<>> \o b = c(<<>>)
    BY <1>5, ConcatEmptySeq, Zenon DEF c
  <2> QED
    BY <1>1, <1>4, <2>1, <2>2, <2>3
<1>7. \A n \in 0 .. N - 1 : n \in T => n + 1 \in T
  <2> SUFFICES ASSUME NEW n \in 0 .. N - 1, n \in T PROVE n + 1 \in T
    OBVIOUS
  <2>1. /\ n + 1 \in 1 .. N /\ n + 2 \in 1 .. N + 1 /\ n + 1 \in 0 .. N /\ n \in 0 .. N
        /\ (n + 1) - 1 = n /\ (n + 2) - 1 = n + 1 /\ (n + 1) + 1 = n + 2
        /\ Streams(q)[n + 1] = c(Streams(r)[n])
    BY <1>1
  <2>2. Streams(q)[n + 2] = (b \o Streams(r)[n]) \o Bytes[q[n + 2]]
    BY <1>3, <2>1, Zenon DEF c
  <2>3. Streams(r)[n + 1] = Streams(r)[n] \o Bytes[q[n + 2]]
    BY <1>1, <1>4, <2>1, ZenonT(60)
  <2>7. Streams(r)[n] \in Seq(Byte)
    BY <1>4, <2>1, SMT
  <2>4. Streams(r)[n] \in Seq(Byte) /\ Bytes[q[n + 2]] \in Seq(Byte)
    BY <1>2, <2>1, <2>7, Zenon
  <2>5. (b \o Streams(r)[n]) \o Bytes[q[n + 2]] = b \o (Streams(r)[n] \o Bytes[q[n + 2]])
    <3>1. Associate(b, Streams(r)[n], Bytes[q[n + 2]])
      BY <1>5, <2>4, Assoc, Zenon
    <3> QED
      BY <3>1, Zenon DEF Associate
  <2>6. Streams(q)[n + 2] = c(Streams(r)[n + 1])
    BY <2>2, <2>3, <2>5, Zenon DEF c
  <2> QED
    BY <2>1, <2>6
<1>8. 0 .. N \subseteq T
  <2> HIDE DEF T
  <2> QED
    BY <1>1, <1>6, <1>7, Induction, Zenon
<1>9. Streams(q)[N + 1] = c(Streams(r)[N])
  BY <1>1, <1>8
<1> QED
  BY <1>1, <1>9, Zenon DEF Stream, r, N, b, c

\* One frame more of at most m bytes adds at most m bytes.
LEMMA OneMore ==
  ASSUME NEW n \in Nat, NEW m \in Nat, NEW u \in Nat, NEW v \in Nat, u <= n * m, v <= m
  PROVE  u + v <= (n + 1) * m
<1>1. (n + 1) * m = n * m + m /\ n * m \in Nat
  OBVIOUS
<1>2. \A p, r \in Nat : u <= p /\ r = p + m => u + v <= r
  OBVIOUS
<1>3. n * m + m \in Nat
  BY <1>1
<1> QED
  BY <1>1, <1>2, <1>3, Zenon

\* Frames of at most m bytes each are at most m bytes for each of them.
LEMMA StreamLen ==
  ASSUME NEW q \in Seq(Frames), NEW m \in Nat, \A i \in 1 .. Len(q) : Len(Bytes[q[i]]) <= m
  PROVE  Len(Stream(q)) \in Nat /\ Len(Stream(q)) <= Len(q) * m
<1> DEFINE N == Len(q)
           T == {n \in 0 .. N : Len(Streams(q)[n]) <= n * m}
<1>1. N \in Nat /\ \A i \in 1 .. N : Bytes[q[i]] \in Seq(Byte) /\ Len(Bytes[q[i]]) \in Nat
  BY BytesFit, LenProperties, ElementOfSeq
<1>2. /\ Streams(q) \in [0 .. N -> Seq(Byte)] /\ Streams(q)[0] = <<>>
      /\ \A n \in 1 .. N : Streams(q)[n] = Streams(q)[n - 1] \o Bytes[q[n]]
  BY StreamsIs
<1>3. \A i \in 1 .. N : Len(Bytes[q[i]]) <= m
  OBVIOUS
<1> HIDE DEF N
<1>4. 0 \in T
  <2>1. Len(<<>>) = 0
    OBVIOUS
  <2> QED
    BY <1>1, <1>2, <2>1
<1>5. \A n \in 0 .. N - 1 : n \in T => n + 1 \in T
  <2> SUFFICES ASSUME NEW n \in 0 .. N - 1, n \in T PROVE n + 1 \in T
    OBVIOUS
  <2>1. /\ n + 1 \in 1 .. N /\ n + 1 \in 0 .. N /\ n \in 0 .. N /\ (n + 1) - 1 = n
        /\ Len(Streams(q)[n]) <= n * m
    BY <1>1
  <2> PICK x, y : x = Streams(q)[n] /\ y = Bytes[q[n + 1]]
    OBVIOUS
  <2>2. x \in Seq(Byte) /\ y \in Seq(Byte) /\ Len(x) <= n * m /\ Len(y) <= m
    BY <1>1, <1>2, <1>3, <2>1
  <2>3. Streams(q)[n + 1] = x \o y
    BY <1>2, <2>1, Zenon
  <2>4. Len(x \o y) = Len(x) + Len(y) /\ Len(x) \in Nat /\ Len(y) \in Nat
    BY <2>2, ConcatProperties, LenProperties, ZenonT(60)
  <2>5. Len(x) + Len(y) <= (n + 1) * m
    <3>1. n \in Nat
      BY <1>1
    <3> QED
      BY <2>2, <2>4, <3>1, OneMore, Zenon
  <2> QED
    BY <2>1, <2>3, <2>4, <2>5
<1>6. 0 .. N \subseteq T
  <2> HIDE DEF T
  <2> QED
    BY <1>1, <1>4, <1>5, Induction, Zenon
<1>7. N \in 0 .. N
  BY <1>1
<1>8. Len(Streams(q)[N]) <= N * m
  BY <1>6, <1>7
<1>9. Len(Streams(q)[N]) \in Nat
  BY <1>2, <1>7, LenProperties
<1> QED
  BY <1>8, <1>9, Zenon DEF Stream, N

-----------------------------------------------------------------------------
(* The types.                                                              *)

\* The parts of the type invariant, each about variables of its own: the ring,
RingType ==
  /\ ring \in [Cells -> Byte] /\ read_index \in Cells /\ save_index \in Cells
\* the count of frames,
CountType == getcmd \in 0 .. GetcmdMax - 1
\* the states of the frame machine,
Statuses == {"sync_head", "head_end", "command", "len_high", "len_low",
             "reserve", "data", "checksum"}
\* the places of the thread,
Places == {"poll", "clear", "loop", "decode", "mark", "execute", "copy",
           "fetch", "advance", "load", "store"}
\* the statics of the interrupt handler,
IsrType == status \in Statuses /\ (lenth \in Nat /\ lenth < 65536) /\ checksum \in Byte
\* the place of the thread,
PlaceType == pc \in Places
\* its register,
RegType == reg \in Cells \cup 0 .. GetcmdMax - 1
\* the frame it decoded,
CurType == cur.cmd \in Byte /\ (cur.len \in Nat /\ cur.len < 65536)
\* the parameters,
ParamType == /\ modify.flag \in {0, 1} /\ verify \in 0 .. 4
             /\ \A i \in DOMAIN stored : stored[i] \in -1 .. 255
\* the PC and the wire: what is pending are frames of this PC,
WireType == peer \in Peers /\ line \in Seq(Byte) /\ pending \in Seq(peer.frames)
\* and the damage there was, which never grows less.
QuotaType == quota.frames \in Nat /\ quota.damage \in Nat /\ quota.damage <= peer.damage

\* The inductive invariant of the types.
TypeInv == /\ RingType /\ CountType /\ IsrType /\ PlaceType /\ RegType /\ CurType
           /\ ParamType /\ WireType /\ QuotaType

\* It contains the type invariant.
LEMMA TypeInvIs == TypeInv => TypeOK
<1> SUFFICES ASSUME TypeInv PROVE TypeOK
  OBVIOUS
<1>1. ring \in [Cells -> 0 .. 255] /\ read_index \in Cells /\ save_index \in Cells
  BY Zenon DEF TypeInv, RingType, Byte
<1>2. /\ getcmd \in 0 .. GetcmdMax - 1 /\ reg \in Cells \cup 0 .. GetcmdMax - 1
      /\ pc \in Places
  BY Zenon DEF TypeInv, CountType, RegType, PlaceType
<1>3. status \in Statuses /\ (lenth \in Nat /\ lenth < 65536) /\ checksum \in 0 .. 255
  BY DEF TypeInv, IsrType, Byte
<1>4. cur.cmd \in 0 .. 255 /\ (cur.len \in Nat /\ cur.len < 65536)
  BY DEF TypeInv, CurType, Byte
<1>5. /\ modify.flag \in {0, 1} /\ verify \in 0 .. 4
      /\ \A i \in DOMAIN stored : stored[i] \in -1 .. 255
  BY Zenon DEF TypeInv, ParamType
<1> QED
  BY <1>1, <1>2, <1>3, <1>4, <1>5 DEF TypeOK, Statuses, Places

\* What the assumptions on the constants say of one PC.
LEMMA PeerFrames ==
  ASSUME NEW p \in Peers
  PROVE  /\ p.frames \subseteq Frames /\ Seq(p.frames) \subseteq Seq(Frames)
         /\ p.window \in Nat \ {0} /\ p.damage \in Nat /\ p.after \in Nat
<1>1. p.frames \subseteq Frames
  BY DEF Frames
<1>2. \A q \in Seq(p.frames) : q \in Seq(Frames)
  BY <1>1
<1> QED
  BY <1>1, <1>2, PeersAssumption

\* The ring has a cell, and the mask keeps an index in it.
LEMMA RingIs ==
  /\ RingSize \in Nat \ {0} /\ 0 \in Cells /\ RingSize < 256
  /\ \A a \in Int : a % RingSize \in Cells
<1>1. RingSize \in Nat \ {0} /\ 0 \in Cells /\ RingSize < 256
  BY RingAssumption DEF Cells
<1>2. \A a \in Int : a % RingSize \in Cells
  BY <1>1 DEF Cells
<1> QED
  BY <1>1, <1>2

\* The values of getcmd.
LEMMA CountIs ==
  /\ GetcmdMax \in Nat /\ GetcmdMax > 2 /\ ErrCmd \in 1 .. GetcmdMax - 2
  /\ \A a \in Int : a % GetcmdMax \in 0 .. GetcmdMax - 1
<1>1. GetcmdMax \in Nat /\ GetcmdMax > 2 /\ ErrCmd \in 1 .. GetcmdMax - 2
  BY RingAssumption
<1> QED
  BY <1>1

\* The initial state has the types.
LEMMA InitTypes == Init => TypeInv
<1> SUFFICES ASSUME Init PROVE TypeInv
  OBVIOUS
<1>1. RingType /\ CountType /\ RegType
  BY RingIs, CountIs DEF Init, RingType, CountType, RegType, Byte
<1>2. IsrType /\ PlaceType /\ CurType
  BY DEF Init, IsrType, PlaceType, CurType, Statuses, Places, Byte
<1>3. ParamType
  <2>1. modify = [flag |-> 0, cmd |-> 0] /\ verify = 0 /\ stored = <<>>
    BY DEF Init
  <2> QED
    BY <2>1 DEF ParamType
<1>4. WireType
  BY EmptySeq DEF Init, WireType
<1>5. QuotaType
  <2>1. peer \in Peers /\ quota = [frames |-> peer.after, damage |-> peer.damage]
    BY DEF Init
  <2> QED
    BY <2>1, PeerFrames DEF QuotaType
<1> QED
  BY <1>1, <1>2, <1>3, <1>4, <1>5 DEF TypeInv

\* Each part depends on its variables only.
LEMMA SameTypes ==
  /\ RingType /\ UNCHANGED <<ring, read_index, save_index>> => RingType'
  /\ CountType /\ getcmd' = getcmd => CountType'
  /\ IsrType /\ UNCHANGED <<status, lenth, checksum>> => IsrType'
  /\ PlaceType /\ pc' = pc => PlaceType'
  /\ RegType /\ reg' = reg => RegType'
  /\ CurType /\ cur' = cur => CurType'
  /\ ParamType /\ UNCHANGED <<modify, verify, stored>> => ParamType'
  /\ WireType /\ UNCHANGED <<peer, line, pending>> => WireType'
  /\ QuotaType /\ UNCHANGED <<peer, quota>> => QuotaType'
<1>1. RingType /\ UNCHANGED <<ring, read_index, save_index>> => RingType'
  BY Zenon DEF RingType
<1>2. CountType /\ getcmd' = getcmd => CountType'
  BY Zenon DEF CountType
<1>3. IsrType /\ UNCHANGED <<status, lenth, checksum>> => IsrType'
  BY DEF IsrType
<1>4. PlaceType /\ pc' = pc => PlaceType'
  BY Zenon DEF PlaceType
<1>5. RegType /\ reg' = reg => RegType'
  BY Zenon DEF RegType
<1>6. CurType /\ cur' = cur => CurType'
  BY DEF CurType
<1>7. ParamType /\ UNCHANGED <<modify, verify, stored>> => ParamType'
  BY Zenon DEF ParamType
<1>8. WireType /\ UNCHANGED <<peer, line, pending>> => WireType'
  BY Zenon DEF WireType
<1>9. QuotaType /\ UNCHANGED <<peer, quota>> => QuotaType'
  BY Zenon DEF QuotaType
<1> QED
  BY <1>1, <1>2, <1>3, <1>4, <1>5, <1>6, <1>7, <1>8, <1>9, Zenon

\* A frame sent keeps the types,
LEMMA SendTypes ==
  ASSUME TypeInv, NEW f \in peer.frames, Send(f)
  PROVE  TypeInv'
<1>1. peer \in Peers /\ f \in Frames
  BY PeerFrames DEF TypeInv, WireType
<1>2. /\ UNCHANGED <<ring, read_index, save_index, getcmd, status, lenth, checksum>>
      /\ UNCHANGED <<pc, reg, cur, modify, verify, stored, served, peer, want>>
      /\ line' = Bytes[f] /\ pending' = Append(pending, f)
  BY DEF Send, rx, isr, params
<1>3. RingType' /\ CountType' /\ IsrType' /\ PlaceType' /\ RegType' /\ CurType' /\ ParamType'
  BY <1>2, SameTypes, Zenon DEF TypeInv
<1>4. WireType'
  <2>1. line' \in Seq(Byte)
    BY <1>1, <1>2, BytesFit
  <2>2. pending' \in Seq(peer.frames)
    BY <1>2, AppendProperties DEF TypeInv, WireType
  <2> QED
    BY <1>2, <2>1, <2>2 DEF TypeInv, WireType
<1>5. QuotaType'
  <2>1. CASE Undamaged
    <3>1. quota' = quota
      BY <2>1 DEF Send
    <3> QED
      BY <1>2, <3>1 DEF TypeInv, QuotaType
  <2>2. CASE ~ Undamaged
    <3>1. quota.frames > 0 /\ quota' = [frames |-> quota.frames - 1, damage |-> quota.damage]
      BY <2>2, Zenon DEF Send
    <3> QED
      BY <1>2, <3>1 DEF TypeInv, QuotaType
  <2> QED
    BY <2>1, <2>2
<1> QED
  BY <1>3, <1>4, <1>5, Zenon DEF TypeInv

\* so does a damaged byte,
LEMMA DamageTypes ==
  ASSUME TypeInv, Damage
  PROVE  TypeInv'
<1>1. /\ UNCHANGED <<ring, read_index, save_index, getcmd, status, lenth, checksum>>
      /\ UNCHANGED <<pc, reg, cur, modify, verify, stored, served, peer, want>>
      /\ pending' = <<>> /\ line # <<>>
      /\ \E hit \in {<<>>, <<0>>, <<0, Head(line)>>} : line' = hit \o Tail(line)
  BY DEF Damage, rx, isr, params
<1>2. RingType' /\ CountType' /\ IsrType' /\ PlaceType' /\ RegType' /\ CurType' /\ ParamType'
  BY <1>1, SameTypes, Zenon DEF TypeInv
<1>3. WireType'
  <2>1. PICK hit \in {<<>>, <<0>>, <<0, Head(line)>>} : line' = hit \o Tail(line)
    BY <1>1
  <2>2. Head(line) \in Byte /\ Tail(line) \in Seq(Byte) /\ 0 \in Byte
    BY <1>1, HeadTailProperties, SMTT(60) DEF TypeInv, WireType, Byte
  <2> HIDE DEF Byte
  <2>3. <<>> \in Seq(Byte) /\ <<0>> \in Seq(Byte) /\ <<0, Head(line)>> \in Seq(Byte)
    BY <2>2
  <2>4. hit \in Seq(Byte)
    BY <2>1, <2>3
  <2>5. line' \in Seq(Byte)
    BY <2>1, <2>2, <2>4, ConcatProperties, Zenon
  <2> QED
    BY <1>1, <2>5, EmptySeq DEF TypeInv, WireType
<1>4. QuotaType'
  <2>1. quota.damage > 0 /\ quota' = [frames |-> quota.frames, damage |-> quota.damage - 1]
    BY Zenon DEF Damage
  <2>2. peer.damage \in Nat
    BY PeerFrames DEF TypeInv, WireType
  <2> QED
    BY <1>1, <2>1, <2>2 DEF TypeInv, QuotaType
<1> QED
  BY <1>2, <1>3, <1>4, Zenon DEF TypeInv

\* The frame machine, state by state.
LEMMA ParseIs ==
  ASSUME NEW b, NEW sum
  PROVE
    /\ status = "sync_head" => Parse(b, sum) = IF b = Sync1 THEN <<"head_end", getcmd>>
                                                           ELSE <<"sync_head", ErrCmd>>
    /\ status = "head_end"  => Parse(b, sum) = IF b = Sync2 THEN <<"command", getcmd>>
                                                           ELSE <<"sync_head", ErrCmd>>
    /\ status = "command"   => Parse(b, sum) = IF Accepted(b) THEN <<"len_high", getcmd>>
                                                             ELSE <<"sync_head", ErrCmd>>
    /\ status = "len_high"  => Parse(b, sum) = <<"len_low", getcmd>>
    /\ status = "len_low"   => Parse(b, sum) = <<"reserve", getcmd>>
    /\ status = "reserve"   => Parse(b, sum) = <<IF lenth # 0 THEN "data" ELSE "checksum", getcmd>>
    /\ status = "data"      => Parse(b, sum) = <<IF lenth <= 1 THEN "checksum" ELSE "data", getcmd>>
    /\ status = "checksum"  =>
         Parse(b, sum) = <<"sync_head", IF sum = 0 THEN (getcmd + 1) % GetcmdMax ELSE ErrCmd>>
BY Zenon DEF Parse

\* The checksum after byte b.
SumOf(b) == IF status = "sync_head" /\ b = Sync1 THEN b ELSE Xor(checksum, b)

\* The handler of the interrupt, with its byte and its checksum named.
LEMMA ReceiveIs ==
  ASSUME Receive, NEW b, b = Head(line), NEW sum, sum = SumOf(b)
  PROVE  /\ line # <<>> /\ line' = Tail(line)
         /\ ring' = [ring EXCEPT ![save_index] = b] /\ save_index' = (save_index + 1) % RingSize
         /\ read_index' = IF save_index' = read_index THEN (read_index + 1) % RingSize
                                                      ELSE read_index
         /\ status' = Parse(b, sum)[1] /\ getcmd' = Parse(b, sum)[2] /\ checksum' = sum
         /\ lenth' = Lenth(b)
         /\ pc' = pc /\ reg' = reg /\ cur' = cur /\ params' = params
         /\ peer' = peer /\ pending' = pending /\ want' = want /\ quota' = quota
BY DEF Receive, SumOf

\* A byte is a word.
LEMMA ByteIs ==
  ASSUME NEW b \in Byte
  PROVE  b \in Nat /\ b < 256 /\ b < 65536
BY DEF Byte

\* Sixteen bits are a word.
LEMMA WordIs ==
  ASSUME NEW x \in Nat
  PROVE  x % 65536 \in Nat /\ x % 65536 < 65536
OBVIOUS

\* The handler keeps the types: its length wraps in sixteen bits.
LEMMA ReceiveTypes ==
  ASSUME TypeInv, Receive
  PROVE  TypeInv'
<1> PICK b, sum : b = Head(line) /\ sum = SumOf(b)
  OBVIOUS
<1>1. b \in Byte /\ Tail(line) \in Seq(Byte)
  BY HeadTailProperties, ReceiveIs DEF TypeInv, WireType
<1>2. sum \in Byte
  BY <1>1, XorIs DEF TypeInv, IsrType, SumOf
<1>3. RingType'
  <2>1. (save_index + 1) % RingSize \in Cells /\ (read_index + 1) % RingSize \in Cells
    <3>1. save_index + 1 \in Int /\ read_index + 1 \in Int
      BY DEF TypeInv, RingType, Cells
    <3> QED
      BY <3>1, RingIs, Zenon
  <2>2. ring' \in [Cells -> Byte]
    BY <1>1, ReceiveIs DEF TypeInv, RingType
  <2>3. read_index' \in Cells /\ save_index' \in Cells
    BY <2>1, ReceiveIs, Zenon DEF TypeInv, RingType
  <2> QED
    BY <2>2, <2>3 DEF RingType
<1>4. Parse(b, sum)[1] \in Statuses /\ Parse(b, sum)[2] \in 0 .. GetcmdMax - 1
  <2>1. /\ getcmd \in 0 .. GetcmdMax - 1 /\ ErrCmd \in 0 .. GetcmdMax - 1
        /\ (getcmd + 1) % GetcmdMax \in 0 .. GetcmdMax - 1
    BY CountIs DEF TypeInv, CountType
  <2>2. status \in Statuses
    BY DEF TypeInv, IsrType
  <2>3. CASE status = "sync_head" \/ status = "head_end" \/ status = "command"
    BY <2>1, <2>3, ParseIs DEF Statuses
  <2>4. CASE status = "len_high" \/ status = "len_low" \/ status = "reserve" \/ status = "data"
    BY <2>1, <2>4, ParseIs DEF Statuses
  <2>5. CASE status = "checksum"
    BY <2>1, <2>5, ParseIs DEF Statuses
  <2> QED
    BY <2>2, <2>3, <2>4, <2>5 DEF Statuses
<1>5. (lenth' \in Nat /\ lenth' < 65536)
  <2>1. lenth' = Lenth(b) /\ (lenth \in Nat /\ lenth < 65536)
    BY ReceiveIs DEF TypeInv, IsrType
  <2> QED
    <3>1. b \in Nat /\ b < 65536 /\ lenth * 256 + b \in Nat
      <4>1. b \in Nat /\ b < 65536
        BY <1>1, ByteIs
      <4>2. lenth \in Nat
        BY <2>1
      <4> QED
        BY <4>1, <4>2
    <3> PICK x : x = (lenth * 256 + b) % 65536
      OBVIOUS
    <3>2. x \in Nat /\ x < 65536
      BY <3>1, WordIs
    <3>3. lenth > 0 => lenth - 1 \in Nat /\ lenth - 1 < 65536
      BY <2>1
    <3>4. /\ lenth' \in {b, x, lenth - 1, lenth}
          /\ lenth' = lenth - 1 => lenth > 0 \/ lenth' \in {b, x, lenth}
      BY <2>1 DEF Lenth
    <3> QED
      BY <2>1, <3>1, <3>2, <3>3, <3>4
<1>6. status' \in Statuses /\ getcmd' \in 0 .. GetcmdMax - 1 /\ checksum' \in Byte
  BY <1>2, <1>4, ReceiveIs
<1>7. CountType' /\ IsrType'
  BY <1>5, <1>6 DEF CountType, IsrType
<1>8. /\ pc' = pc /\ reg' = reg /\ cur' = cur /\ modify' = modify /\ verify' = verify
      /\ stored' = stored /\ peer' = peer /\ pending' = pending /\ quota' = quota
      /\ line' = Tail(line)
  BY ReceiveIs DEF params
<1>9. PlaceType' /\ RegType' /\ CurType' /\ ParamType' /\ QuotaType'
  BY <1>8, SameTypes, Zenon DEF TypeInv
<1>10. WireType'
  BY <1>1, <1>8 DEF TypeInv, WireType
<1> QED
  BY <1>3, <1>7, <1>9, <1>10, Zenon DEF TypeInv

\* What the thread reads of the ring is a byte.
LEMMA AtIs ==
  ASSUME RingType, NEW o \in Nat
  PROVE  At(o) \in Byte
<1>1. read_index + o \in Int
  BY DEF RingType, Cells
<1> PICK i : i = (read_index + o) % RingSize
  OBVIOUS
<1>2. i \in Cells
  BY <1>1, RingIs, Zenon
<1> QED
  BY <1>2 DEF At, RingType

\* Two bytes are a word.
LEMMA BytePair ==
  ASSUME NEW h \in Byte, NEW l \in Byte
  PROVE  h * 256 + l \in Nat /\ h * 256 + l < 65536
BY DEF Byte

\* The thread keeps the types.
LEMMA ThreadTypes ==
  ASSUME TypeInv, Thread
  PROVE  TypeInv'
<1>1. CASE Poll \/ Loop
  <2>1. /\ UNCHANGED <<ring, read_index, save_index, getcmd, status, lenth, checksum>>
        /\ UNCHANGED <<reg, cur, modify, verify, stored, peer, line, pending, quota>>
        /\ pc' \in Places
    BY <1>1 DEF Poll, Loop, rx, isr, params, wire, Places
  <2> QED
    BY <2>1, SameTypes, Zenon DEF TypeInv, PlaceType
<1>2. CASE Clear
  <2>1. /\ UNCHANGED <<ring, read_index, save_index, status, lenth, checksum>>
        /\ UNCHANGED <<reg, cur, modify, verify, stored, peer, line, pending, quota>>
        /\ pc' \in Places /\ getcmd' = 0
    BY <1>2 DEF Clear, rx, isr, params, wire, Places
  <2>2. CountType'
    BY <2>1, CountIs DEF CountType
  <2> QED
    BY <2>1, <2>2, SameTypes, Zenon DEF TypeInv, PlaceType
<1>3. CASE Decode
  <2>1. /\ UNCHANGED <<ring, read_index, save_index, getcmd, status, lenth, checksum>>
        /\ UNCHANGED <<reg, verify, stored, peer, line, pending, quota>>
        /\ pc' \in Places
    BY <1>3 DEF Decode, rx, isr, wire, Places
  <2>2. At(2) \in Byte /\ At(3) \in Byte /\ At(4) \in Byte
    BY AtIs DEF TypeInv
  <2>3. CurType'
    <3> PICK c, h, l : c = At(2) /\ h = At(3) /\ l = At(4)
      OBVIOUS
    <3>1. cur' = [cmd |-> c, len |-> h * 256 + l]
      BY <1>3, Zenon DEF Decode
    <3>2. c \in Byte /\ h \in Byte /\ l \in Byte
      BY <2>2
    <3>3. h * 256 + l \in Nat /\ h * 256 + l < 65536
      BY <3>2, BytePair
    <3>4. cur'.cmd = c /\ cur'.len = h * 256 + l
      BY <3>1, Zenon
    <3> QED
      BY <3>2, <3>3, <3>4 DEF CurType
  <2>4. ParamType'
    <3>1. modify' = modify \/ modify' = [flag |-> 1, cmd |-> modify.cmd]
      BY <1>3, Zenon DEF Decode
    <3>2. modify'.flag \in {0, 1}
      BY <3>1 DEF TypeInv, ParamType
    <3> QED
      BY <2>1, <3>2, Zenon DEF TypeInv, ParamType
  <2> QED
    BY <2>1, <2>3, <2>4, SameTypes, Zenon DEF TypeInv, PlaceType
<1>4. CASE Mark
  <2>1. /\ UNCHANGED <<ring, read_index, save_index, getcmd, status, lenth, checksum>>
        /\ UNCHANGED <<reg, cur, verify, stored, peer, line, pending, quota>>
        /\ pc' \in Places /\ modify' = [flag |-> modify.flag, cmd |-> cur.cmd]
    BY <1>4 DEF Mark, rx, isr, wire, Places
  <2>2. modify'.flag \in {0, 1}
    BY <2>1 DEF TypeInv, ParamType
  <2>3. ParamType'
    BY <2>1, <2>2, Zenon DEF TypeInv, ParamType
  <2> QED
    BY <2>1, <2>3, SameTypes, Zenon DEF TypeInv, PlaceType
<1>5. CASE Execute
  <2>1. /\ UNCHANGED <<ring, read_index, save_index, getcmd, status, lenth, checksum>>
        /\ UNCHANGED <<reg, cur, modify, stored, peer, line, quota>>
        /\ pc' \in {"copy", "fetch"} /\ verify' = Verification(cur.cmd)
    BY <1>5 DEF Execute, rx, isr
  <2>2. ParamType'
    <3>1. verify' \in 0 .. 4
      BY <2>1 DEF TypeInv, ParamType, Verification
    <3> QED
      BY <2>1, <3>1, Zenon DEF TypeInv, ParamType
  <2>3. WireType'
    <3>1. CASE Complete = <<>>
      <4>1. pending' = pending
        BY <1>5, <3>1, Zenon DEF Execute
      <4> QED
        BY <2>1, <4>1, SameTypes, Zenon DEF TypeInv
    <3>2. CASE Complete # <<>>
      <4>1. pending' = Tail(pending) /\ pending # <<>>
        BY <1>5, <3>2, Zenon DEF Execute, Complete
      <4>2. pending' \in Seq(peer.frames)
        BY <4>1, HeadTailProperties, Zenon DEF TypeInv, WireType
      <4> QED
        BY <2>1, <4>2, Zenon DEF TypeInv, WireType
    <3> QED
      BY <3>1, <3>2
  <2>4. PlaceType'
    BY <2>1 DEF PlaceType, Places
  <2> QED
    BY <2>1, <2>2, <2>3, <2>4, SameTypes, Zenon DEF TypeInv
<1>6. CASE Copy
  <2> DEFINE start == (read_index + 6) % RingSize
             Byt(i) == IF start + i - 1 \in Cells THEN ring[start + i - 1] ELSE -1
  <2>1. /\ UNCHANGED <<ring, read_index, save_index, getcmd, status, lenth, checksum>>
        /\ UNCHANGED <<reg, cur, modify, verify, peer, line, pending, quota>>
        /\ pc' \in Places /\ stored' = [i \in 1 .. cur.len |-> Byt(i)]
    BY <1>6 DEF Copy, rx, isr, wire, Places
  <2>2. \A i \in 1 .. cur.len : Byt(i) \in -1 .. 255
    BY DEF TypeInv, RingType, Byte
  <2> HIDE DEF Byt
  <2>3. \A i \in DOMAIN stored' : stored'[i] \in -1 .. 255
    BY <2>1, <2>2
  <2>4. ParamType'
    BY <2>1, <2>3, Zenon DEF TypeInv, ParamType
  <2> QED
    BY <2>1, <2>4, SameTypes, Zenon DEF TypeInv, PlaceType
<1>7. CASE Fetch \/ Load
  <2>1. /\ UNCHANGED <<ring, read_index, save_index, getcmd, status, lenth, checksum>>
        /\ UNCHANGED <<cur, modify, verify, stored, peer, line, pending, quota>>
        /\ pc' \in Places /\ (reg' = read_index \/ reg' = getcmd)
    BY <1>7 DEF Fetch, Load, rx, isr, params, wire, Places
  <2>2. RegType'
    BY <2>1 DEF TypeInv, RingType, CountType, RegType
  <2> QED
    BY <2>1, <2>2, SameTypes, Zenon DEF TypeInv, PlaceType
<1>8. CASE Advance
  <2>1. /\ UNCHANGED <<ring, save_index, getcmd, status, lenth, checksum>>
        /\ UNCHANGED <<reg, cur, modify, verify, stored, peer, line, pending, quota>>
        /\ pc' \in Places /\ read_index' = (cur.len + reg + 7) % RingSize
    BY <1>8 DEF Advance, isr, params, wire, Places
  <2>2. cur.len + reg + 7 \in Int
    <3>1. cur.len \in Int
      BY DEF TypeInv, CurType
    <3>2. reg \in Int
      BY CountIs, RingIs DEF TypeInv, RegType, Cells
    <3> QED
      BY <3>1, <3>2
  <2>3. RingType'
    BY <2>1, <2>2, RingIs DEF TypeInv, RingType
  <2> QED
    BY <2>1, <2>3, SameTypes, Zenon DEF TypeInv, PlaceType
<1>9. CASE Store
  <2>1. /\ UNCHANGED <<ring, read_index, save_index, status, lenth, checksum>>
        /\ UNCHANGED <<reg, cur, modify, verify, stored, peer, line, pending, quota>>
        /\ pc' \in Places /\ getcmd' = (reg - 1) % GetcmdMax
    BY <1>9 DEF Store, isr, params, wire, Places
  <2>2. reg - 1 \in Int
    BY CountIs DEF TypeInv, RegType, Cells
  <2>3. CountType'
    BY <2>1, <2>2, CountIs DEF CountType
  <2> QED
    BY <2>1, <2>3, SameTypes, Zenon DEF TypeInv, PlaceType
<1> QED
  BY <1>1, <1>2, <1>3, <1>4, <1>5, <1>6, <1>7, <1>8, <1>9, Zenon DEF Thread

\* Every step keeps the types.
LEMMA NextTypes == TypeInv /\ [Next]_vars => TypeInv'
<1> SUFFICES ASSUME TypeInv, [Next]_vars PROVE TypeInv'
  OBVIOUS
<1>1. CASE \E f \in peer.frames : Send(f)
  BY <1>1, SendTypes
<1>2. CASE Damage
  BY <1>2, DamageTypes
<1>3. CASE Receive
  BY <1>3, ReceiveTypes
<1>4. CASE Thread
  BY <1>4, ThreadTypes
<1>5. CASE ModifyHandle
  <2>1. /\ UNCHANGED <<ring, read_index, save_index, getcmd, status, lenth, checksum>>
        /\ UNCHANGED <<pc, reg, cur, verify, stored, peer, line, pending, quota>>
        /\ modify' = [flag |-> 0, cmd |-> modify.cmd]
    BY <1>5 DEF ModifyHandle, rx, isr, wire
  <2>2. modify'.flag \in {0, 1}
    BY <2>1
  <2>3. ParamType'
    BY <2>1, <2>2, Zenon DEF TypeInv, ParamType
  <2> QED
    BY <2>1, <2>3, SameTypes, Zenon DEF TypeInv
<1>6. CASE VerificationOver
  <2>1. /\ UNCHANGED <<ring, read_index, save_index, getcmd, status, lenth, checksum>>
        /\ UNCHANGED <<pc, reg, cur, modify, stored, peer, line, pending, quota>>
        /\ verify' = 0
    BY <1>6 DEF VerificationOver, rx, isr, wire
  <2>2. verify' \in 0 .. 4
    BY <2>1
  <2>3. ParamType'
    BY <2>1, <2>2, Zenon DEF TypeInv, ParamType
  <2> QED
    BY <2>1, <2>3, SameTypes, Zenon DEF TypeInv
<1>7. CASE UNCHANGED vars
  <2>1. /\ UNCHANGED <<ring, read_index, save_index, getcmd, status, lenth, checksum>>
        /\ UNCHANGED <<pc, reg, cur, modify, verify, stored, peer, line, pending, quota>>
    BY <1>7 DEF vars, rx, isr, params, wire
  <2> QED
    BY <2>1, SameTypes, Zenon DEF TypeInv
<1> QED
  BY <1>1, <1>2, <1>3, <1>4, <1>5, <1>6, <1>7, Zenon DEF Next

\* The link keeps its types for any PC, ring and limits, with or without damage:
\* indices stay in the ring (Receive and Advance mask them), the counters in their bytes
\* (UART 2 of rt_hw_serial_isr, rs232_handle_application).
THEOREM LinkTypes == Spec => []TypeOK
<1> QED
  BY InitTypes, NextTypes, TypeInvIs, PTL DEF Spec

-----------------------------------------------------------------------------
(* The bytes in the ring and on the line.                                  *)

\* The mask of the ring, around the ends of it.
LEMMA ModIs ==
  ASSUME NEW x \in Int, 0 - RingSize <= x, x < 2 * RingSize
  PROVE  x % RingSize = IF x < 0 THEN x + RingSize ELSE IF x < RingSize THEN x ELSE x - RingSize
<1>1. CASE RingSize = 16
  BY <1>1
<1>2. CASE RingSize = 32
  BY <1>2
<1>3. CASE RingSize = 64
  BY <1>3
<1>4. CASE RingSize = 128
  BY <1>4
<1> QED
  BY <1>1, <1>2, <1>3, <1>4, RingAssumption

\* The way from cell r up to cell s in a ring of M cells.
Gap(M, r, s) == IF s >= r THEN s - r ELSE s - r + M
\* Index x back in the ring.
Fold(M, x)   == IF x < M THEN x ELSE x - M

\* The bytes between read_index r and save_index s.
Amount(r, s) == (s - r) % RingSize
\* The cell of the i-th of them.
Cell(r, i)   == (r + (i - 1)) % RingSize

\* The amount, without the modulus,
LEMMA AmountIs ==
  ASSUME NEW r \in Cells, NEW s \in Cells
  PROVE  /\ Amount(r, s) \in 0 .. RingSize - 1
         /\ Amount(r, s) = IF s >= r THEN s - r ELSE s - r + RingSize
         /\ Amount(r, s) = Gap(RingSize, r, s)
<1>1. RingSize \in Nat \ {0} /\ r \in 0 .. RingSize - 1 /\ s \in 0 .. RingSize - 1
  BY RingIs DEF Cells
<1>2. s - r \in Int /\ 0 - RingSize <= s - r /\ s - r < 2 * RingSize
  BY <1>1
<1> QED
  BY <1>1, <1>2, ModIs DEF Amount, Gap

\* and the cell.
LEMMA CellIs ==
  ASSUME NEW r \in Cells, NEW i \in 1 .. RingSize
  PROVE  /\ Cell(r, i) \in Cells
         /\ Cell(r, i) = IF r + i <= RingSize THEN r + i - 1 ELSE r + i - 1 - RingSize
<1>1. RingSize \in Nat \ {0} /\ r \in 0 .. RingSize - 1
  BY RingIs DEF Cells
<1>2. r + (i - 1) \in Int /\ 0 - RingSize <= r + (i - 1) /\ r + (i - 1) < 2 * RingSize
  BY <1>1
<1> QED
  BY <1>1, <1>2, ModIs DEF Cell, Cells

\* read_index behind m bytes.
Move(r, m) == (r + m) % RingSize

\* It is in the ring.
LEMMA MoveIs ==
  ASSUME NEW r \in Cells, NEW m \in 0 .. RingSize
  PROVE  /\ Move(r, m) \in Cells
         /\ Move(r, m) = IF r + m < RingSize THEN r + m ELSE r + m - RingSize
         /\ Move(r, m) = Fold(RingSize, r + m)
<1>1. RingSize \in Nat \ {0} /\ r \in 0 .. RingSize - 1
  BY RingIs DEF Cells
<1> PICK w : w = r + m
  OBVIOUS
<1>2. w \in Int /\ 0 - RingSize <= w /\ w < 2 * RingSize /\ ~ (w < 0)
  BY <1>1
<1>3. Move(r, m) = IF w < RingSize THEN w ELSE w - RingSize
  BY <1>2, ModIs, Zenon DEF Move
<1> QED
  BY <1>1, <1>2, <1>3 DEF Cells, Fold

\* save_index behind one byte.
LEMMA NextCell ==
  ASSUME NEW s \in Cells
  PROVE  /\ (s + 1) % RingSize \in Cells
         /\ (s + 1) % RingSize = IF s + 1 < RingSize THEN s + 1 ELSE 0
<1>1. RingSize \in Nat \ {0} /\ s \in 0 .. RingSize - 1
  BY RingIs DEF Cells
<1>2. s + 1 \in Int /\ 0 - RingSize <= s + 1 /\ s + 1 < 2 * RingSize
  BY <1>1
<1> QED
  BY <1>1, <1>2, ModIs DEF Cells

\* z is x with y behind it, element by element.
Concat(x, y, z) ==
  /\ Len(x) \in Nat /\ Len(y) \in Nat /\ Len(z) = Len(x) + Len(y)
  /\ \A i \in 1 .. Len(x) : z[i] = x[i]
  /\ \A i \in 1 .. Len(y) : z[Len(x) + i] = y[i]

\* The concatenation is.
LEMMA ConcatAt ==
  ASSUME NEW x \in Seq(Byte), NEW y \in Seq(Byte)
  PROVE  Concat(x, y, x \o y)
<1> PICK z : z = x \o y
  OBVIOUS
<1> PICK m, n : m = Len(x) /\ n = Len(y)
  OBVIOUS
<1>1. m \in Nat /\ n \in Nat
  BY LenProperties
<1>2. Len(z) = m + n /\ \A i \in 1 .. m + n : z[i] = IF i <= m THEN x[i] ELSE y[i - m]
  BY ConcatProperties, ZenonT(60)
<1>3. \A i \in 1 .. m : z[i] = x[i]
  <2> SUFFICES ASSUME NEW i \in 1 .. m PROVE z[i] = x[i]
    OBVIOUS
  <2>1. i \in 1 .. m + n /\ i <= m
    BY <1>1
  <2> QED
    BY <1>2, <2>1, Zenon
<1>4. \A i \in 1 .. n : z[m + i] = y[i]
  <2> SUFFICES ASSUME NEW i \in 1 .. n PROVE z[m + i] = y[i]
    OBVIOUS
  <2> PICK j : j = m + i
    OBVIOUS
  <2>1. j \in 1 .. m + n /\ ~ (j <= m) /\ j - m = i
    BY <1>1
  <2>2. z[j] = y[j - m]
    BY <1>2, <2>1, Zenon
  <2> QED
    BY <2>1, <2>2, Zenon
<1> QED
  BY <1>1, <1>2, <1>3, <1>4, Zenon DEF Concat

\* The ring between r and s, and the line ln behind it, are the bytes of the
\* frames q.
Laid(rg, r, s, ln, q) ==
  /\ Amount(r, s) + Len(ln) = Len(Stream(q))
  /\ \A i \in 1 .. Amount(r, s) : rg[Cell(r, i)] = Stream(q)[i]
  /\ \A i \in 1 .. Len(ln) : ln[i] = Stream(q)[Amount(r, s) + i]

\* A frame sent lays its bytes on the line.
LEMMA LaidSend ==
  ASSUME NEW rg, NEW r \in Cells, NEW s \in Cells, NEW q \in Seq(Frames), NEW f \in Frames,
         Laid(rg, r, s, <<>>, q)
  PROVE  Laid(rg, r, s, Bytes[f], Append(q, f))
<1> PICK a, x, y, z : a = Amount(r, s) /\ x = Stream(q) /\ y = Bytes[f] /\ z = x \o y
  OBVIOUS
<1>1. x \in Seq(Byte) /\ y \in Seq(Byte)
  BY StreamType, BytesFit
<1>2. Stream(Append(q, f)) = z
  BY StreamAppend
<1> PICK m, n : m = Len(x) /\ n = Len(y)
  OBVIOUS
<1>3. /\ m \in Nat /\ n \in Nat /\ Len(z) = m + n
      /\ \A i \in 1 .. m : z[i] = x[i]
      /\ \A i \in 1 .. n : z[m + i] = y[i]
  <2>1. Concat(x, y, z)
    BY <1>1, ConcatAt, Zenon
  <2> QED
    BY <2>1, Zenon DEF Concat
<1>4. a = Len(x) /\ \A i \in 1 .. a : rg[Cell(r, i)] = x[i]
  <2>1. a + Len(<<>>) = Len(x) /\ \A i \in 1 .. a : rg[Cell(r, i)] = x[i]
    BY DEF Laid
  <2>2. Len(<<>>) = 0 /\ a \in Nat
    BY AmountIs, RingIs
  <2> QED
    BY <2>1, <2>2
<1>5. a = m /\ a + n = Len(z)
  BY <1>3, <1>4
<1>6. \A i \in 1 .. a : rg[Cell(r, i)] = z[i]
  BY <1>3, <1>4, <1>5, Zenon
<1>7. \A i \in 1 .. n : y[i] = z[a + i]
  BY <1>3, <1>5, ZenonT(60)
<1> QED
  BY <1>2, <1>5, <1>6, <1>7, Zenon DEF Laid

\* A byte stored in a ring that is not full is one byte more,
LEMMA AmountAfterStore ==
  ASSUME NEW M \in Nat, NEW r \in 0 .. M - 1, NEW s \in 0 .. M - 1, NEW a \in Nat, NEW u, NEW v,
         a = IF s >= r THEN s - r ELSE s - r + M, a + 1 < M,
         u = IF s + 1 < M THEN s + 1 ELSE 0, v = IF u >= r THEN u - r ELSE u - r + M
  PROVE  v = a + 1
OBVIOUS

\* m bytes released are m bytes less,
LEMMA AmountAfterRelease ==
  ASSUME NEW M \in Nat, NEW r \in 0 .. M - 1, NEW s \in 0 .. M - 1, NEW m \in Nat, m <= Gap(M, r, s)
  PROVE  Gap(M, Fold(M, r + m), s) = Gap(M, r, s) - m
BY DEF Gap, Fold

\* k on the line and the rest are what is left,
LEMMA RestAfterRelease ==
  ASSUME NEW M \in Nat, NEW a \in Nat, NEW m \in Nat, NEW n \in Nat, NEW k \in Nat,
         m <= a, a + k = m + n, a <= M
  PROVE  /\ (a - m) + k = n
         /\ \A i \in 1 .. a - m : i \in 1 .. M /\ m + i \in 1 .. M /\ m + i \in 1 .. a /\ i \in 1 .. n
OBVIOUS

\* what the line then holds is where it was,
LEMMA LineAfterRelease ==
  ASSUME NEW a \in Nat, NEW m \in Nat, NEW n \in Nat, NEW k \in Nat,
         m <= a, (a - m) + k = n, NEW i \in 1 .. k
  PROVE  (a - m) + i \in 1 .. n /\ m + ((a - m) + i) = a + i
OBVIOUS

\* and so is what the ring holds.
LEMMA CellAfterRelease ==
  ASSUME NEW M \in Nat, NEW r \in 0 .. M - 1, NEW m \in 0 .. M, NEW i \in 1 .. M, m + i <= M,
         NEW t, NEW x, NEW y,
         t = IF r + m < M THEN r + m ELSE r + m - M,
         x = IF t + i <= M THEN t + i - 1 ELSE t + i - 1 - M,
         y = IF r + (m + i) <= M THEN r + (m + i) - 1 ELSE r + (m + i) - 1 - M
  PROVE  x = y
OBVIOUS

\* A byte that moves from the line to the ring leaves the bytes laid, and
\* save_index does not reach read_index, as long as they are fewer than the ring has
\* cells.
LEMMA LaidReceive ==
  ASSUME NEW rg \in [Cells -> Byte], NEW r \in Cells, NEW s \in Cells,
         NEW q \in Seq(Frames), NEW ln \in Seq(Byte), ln # <<>>,
         Len(Stream(q)) < RingSize, Laid(rg, r, s, ln, q)
  PROVE  /\ (s + 1) % RingSize # r
         /\ Laid([rg EXCEPT ![s] = Head(ln)], r, (s + 1) % RingSize, Tail(ln), q)
<1>a. PICK a, x, n, t, u, b :
      /\ a = Amount(r, s) /\ x = Stream(q) /\ n = Len(ln) /\ t = Tail(ln)
      /\ u = (s + 1) % RingSize /\ b = Head(ln)
  OBVIOUS
<1> USE <1>a
<1>1. RingSize \in Nat \ {0} /\ r \in 0 .. RingSize - 1 /\ s \in 0 .. RingSize - 1
  BY RingIs DEF Cells
<1>2. a \in 0 .. RingSize - 1 /\ a = IF s >= r THEN s - r ELSE s - r + RingSize
  BY AmountIs
<1>3. u \in Cells /\ u = IF s + 1 < RingSize THEN s + 1 ELSE 0
  BY NextCell
<1>4. n \in Nat \ {0} /\ Len(t) = n - 1 /\ \A i \in 1 .. n - 1 : t[i] = ln[i + 1]
  BY EmptySeq, HeadTailProperties
<1>5. b = ln[1]
  BY HeadTailProperties
<1>6. /\ a + n = Len(x) /\ \A i \in 1 .. a : rg[Cell(r, i)] = x[i]
      /\ \A i \in 1 .. n : ln[i] = x[a + i]
  BY DEF Laid
<1>14. n \in Nat \ {0}
  BY <1>4
<1>7. a + n < RingSize
  BY <1>6
<1>8. u # r
  BY <1>1, <1>2, <1>3, <1>4, <1>7
<1>9. Amount(r, u) = a + 1
  <2>1. Amount(r, u) = IF u >= r THEN u - r ELSE u - r + RingSize
    BY <1>3, AmountIs
  <2>2. a + 1 < RingSize /\ a \in Nat /\ RingSize \in Nat
    BY <1>1, <1>2, <1>7, <1>14
  <2>3. PICK v, M : v = Amount(r, u) /\ M = RingSize
    OBVIOUS
  <2>4. v = a + 1
    BY <1>1, <1>2, <1>3, <2>1, <2>2, <2>3, AmountAfterStore, SMTT(60)
  <2> QED
    BY <2>3, <2>4, Zenon
<1>10. a + 1 + Len(t) = Len(x)
  BY <1>2, <1>4, <1>6, SMTT(60)
<1>11. \A i \in 1 .. a + 1 : [rg EXCEPT ![s] = b][Cell(r, i)] = x[i]
  <2> SUFFICES ASSUME NEW i \in 1 .. a + 1 PROVE [rg EXCEPT ![s] = b][Cell(r, i)] = x[i]
    OBVIOUS
  <2>1. i \in 1 .. RingSize
    BY <1>1, <1>2, <1>4, <1>7
  <2>2. /\ Cell(r, i) \in Cells
        /\ Cell(r, i) = IF r + i <= RingSize THEN r + i - 1 ELSE r + i - 1 - RingSize
    BY <2>1, CellIs
  <2>3. CASE i = a + 1
    <3>1. Cell(r, i) = s
      BY <1>1, <1>2, <2>1, <2>2, <2>3
    <3>2. b = x[i]
      BY <1>2, <1>4, <1>5, <1>6, <2>3, SMTT(60)
    <3> QED
      BY <3>1, <3>2
  <2>4. CASE i # a + 1
    <3>1. Cell(r, i) # s /\ i \in 1 .. a
      BY <1>1, <1>2, <2>1, <2>2, <2>4
    <3> QED
      BY <1>6, <2>2, <3>1
  <2> QED
    BY <2>3, <2>4
<1>12. \A i \in 1 .. Len(t) : t[i] = x[a + 1 + i]
  <2> SUFFICES ASSUME NEW i \in 1 .. Len(t) PROVE t[i] = x[a + 1 + i]
    OBVIOUS
  <2>1. i \in 1 .. n - 1
    BY <1>4
  <2>2. i + 1 \in 1 .. n /\ a + (i + 1) = a + 1 + i
    <3>1. a \in Nat /\ i \in Nat /\ n \in Nat /\ i >= 1 /\ i <= n - 1
      BY <1>2, <1>14, <2>1
    <3> HIDE <1>a
    <3> QED
      BY <3>1
  <2> QED
    BY <1>4, <1>6, <2>1, <2>2
<1>13. Laid([rg EXCEPT ![s] = b], r, u, t, q)
  BY <1>9, <1>10, <1>11, <1>12 DEF Laid
<1> QED
  BY <1>8, <1>13

\* The bytes of frames are those of the first and those of the others.
LEMMA FirstIs ==
  ASSUME NEW q \in Seq(Frames), q # <<>>
  PROVE  /\ Head(q) \in Frames /\ Tail(q) \in Seq(Frames)
         /\ Bytes[Head(q)] \in Seq(Byte) /\ Stream(Tail(q)) \in Seq(Byte)
         /\ Len(Bytes[Head(q)]) \in Nat \ {0} /\ Len(Stream(Tail(q))) \in Nat
         /\ Concat(Bytes[Head(q)], Stream(Tail(q)), Stream(q))
<1>1. Head(q) \in Frames /\ Tail(q) \in Seq(Frames)
  BY HeadTailProperties
<1> PICK x, y, z : x = Bytes[Head(q)] /\ y = Stream(Tail(q)) /\ z = Stream(q)
  OBVIOUS
<1>2. x \in Seq(Byte) /\ y \in Seq(Byte) /\ x # <<>>
  BY <1>1, BytesFit, StreamType
<1>3. z = x \o y
  BY StreamTail
<1>4. Len(x) \in Nat \ {0} /\ Len(y) \in Nat
  BY <1>2, EmptySeq, LenProperties
<1>5. Concat(x, y, z)
  BY <1>2, <1>3, ConcatAt, Zenon
<1> QED
  BY <1>1, <1>2, <1>4, <1>5, Zenon

\* The first frame is in the ring, from r on, if the line is within the others,
LEMMA LaidHead ==
  ASSUME NEW rg, NEW r \in Cells, NEW s \in Cells, NEW q \in Seq(Frames), q # <<>>,
         NEW ln \in Seq(Byte), Len(ln) <= Len(Stream(Tail(q))), Laid(rg, r, s, ln, q)
  PROVE  /\ Len(Bytes[Head(q)]) <= Amount(r, s)
         /\ \A i \in 1 .. Len(Bytes[Head(q)]) : rg[Cell(r, i)] = Bytes[Head(q)][i]
<1> PICK a, x, y, z : a = Amount(r, s) /\ x = Bytes[Head(q)] /\ y = Stream(Tail(q)) /\ z = Stream(q)
  OBVIOUS
<1>1. /\ Len(x) \in Nat \ {0} /\ Len(y) \in Nat /\ Len(z) = Len(x) + Len(y)
      /\ \A i \in 1 .. Len(x) : z[i] = x[i]
  <2>1. Len(x) \in Nat \ {0} /\ Len(y) \in Nat /\ Concat(x, y, z)
    BY FirstIs, Zenon
  <2> QED
    BY <2>1, Zenon DEF Concat
<1>2. a + Len(ln) = Len(z) /\ \A i \in 1 .. a : rg[Cell(r, i)] = z[i]
  BY DEF Laid
<1>3. a \in Nat /\ Len(ln) \in Nat /\ Len(ln) <= Len(y)
  BY AmountIs, RingIs, LenProperties
<1> PICK m, n, k : m = Len(x) /\ n = Len(y) /\ k = Len(ln)
  OBVIOUS
<1>6. m \in Nat /\ n \in Nat /\ k \in Nat /\ k <= n /\ a + k = m + n
  BY <1>1, <1>2, <1>3
<1>4. m <= a
  BY <1>3, <1>6, SMTT(60)
<1>5. \A i \in 1 .. m : rg[Cell(r, i)] = x[i]
  BY <1>1, <1>2, <1>3, <1>4, SMTT(60)
<1> QED
  BY <1>4, <1>5

\* and releasing it leaves the bytes of the others laid.
LEMMA LaidAdvance ==
  ASSUME NEW rg, NEW r \in Cells, NEW s \in Cells, NEW q \in Seq(Frames), q # <<>>,
         NEW ln \in Seq(Byte), Len(ln) <= Len(Stream(Tail(q))), Laid(rg, r, s, ln, q)
  PROVE  Laid(rg, (r + Len(Bytes[Head(q)])) % RingSize, s, ln, Tail(q))
<1>a. PICK a, x, y, z :
        a = Amount(r, s) /\ x = Bytes[Head(q)] /\ y = Stream(Tail(q)) /\ z = Stream(q)
  OBVIOUS
<1> USE <1>a
<1>1. /\ Len(x) \in Nat \ {0} /\ Len(y) \in Nat /\ Len(z) = Len(x) + Len(y)
      /\ \A i \in 1 .. Len(y) : z[Len(x) + i] = y[i]
  <2>1. Len(x) \in Nat \ {0} /\ Len(y) \in Nat /\ Concat(x, y, z)
    BY FirstIs, Zenon
  <2> QED
    BY <2>1, Zenon DEF Concat
<1>2. /\ a + Len(ln) = Len(z) /\ \A i \in 1 .. a : rg[Cell(r, i)] = z[i]
      /\ \A i \in 1 .. Len(ln) : ln[i] = z[a + i]
  BY DEF Laid
<1>3. Len(ln) \in Nat /\ Len(ln) <= Len(y)
  BY LenProperties
<1>b. PICK m, n, k, t : m = Len(x) /\ n = Len(y) /\ k = Len(ln) /\ t = Move(r, m)
  OBVIOUS
<1> USE <1>b
<1>4. RingSize \in Nat \ {0} /\ r \in 0 .. RingSize - 1 /\ s \in 0 .. RingSize - 1
  BY RingIs DEF Cells
<1>5. a \in 0 .. RingSize - 1 /\ a = IF s >= r THEN s - r ELSE s - r + RingSize
  BY AmountIs
<1>6. m \in Nat \ {0} /\ n \in Nat /\ k \in Nat /\ m <= a /\ a + k = m + n
  BY <1>1, <1>2, <1>3, <1>5, SMTT(60)
<1>7. t \in Cells /\ t = IF r + m < RingSize THEN r + m ELSE r + m - RingSize
  <2>1. m \in 0 .. RingSize
    BY <1>4, <1>5, <1>6, SMTT(60)
  <2> QED
    BY <2>1, MoveIs
<1>8. Amount(t, s) = a - m
  <2>1. Amount(t, s) = IF s >= t THEN s - t ELSE s - t + RingSize
    BY <1>7, AmountIs
  <2> QED
    <3>1. a \in Nat /\ m \in Nat /\ RingSize \in Nat
      BY <1>4, <1>5, <1>6
    <3>2. a = Gap(RingSize, r, s) /\ t = Fold(RingSize, r + m) /\ Amount(t, s) = Gap(RingSize, t, s)
      <4>1. m \in 0 .. RingSize
        BY <1>4, <1>5, <1>6
      <4> QED
        BY <1>7, <4>1, AmountIs, MoveIs, Zenon
    <3>3. m <= Gap(RingSize, r, s)
      BY <1>6, <3>2, Zenon
    <3>4. Gap(RingSize, Fold(RingSize, r + m), s) = Gap(RingSize, r, s) - m
      BY <1>4, <3>1, <3>3, AmountAfterRelease
    <3> QED
      BY <3>2, <3>4, Zenon
<1>9. /\ (a - m) + k = n
      /\ \A i \in 1 .. a - m :
           i \in 1 .. RingSize /\ m + i \in 1 .. RingSize /\ m + i \in 1 .. a /\ i \in 1 .. n
  <2>1. a \in Nat /\ m \in Nat /\ RingSize \in Nat /\ a <= RingSize
    BY <1>4, <1>5, <1>6
  <2> HIDE <1>a, <1>b
  <2> QED
    BY <1>6, <2>1, RestAfterRelease
<1>10. \A i \in 1 .. a - m : rg[Cell(t, i)] = y[i]
  <2> SUFFICES ASSUME NEW i \in 1 .. a - m PROVE rg[Cell(t, i)] = y[i]
    OBVIOUS
  <2>1. i \in 1 .. RingSize /\ m + i \in 1 .. RingSize /\ m + i \in 1 .. a /\ i \in 1 .. n
    BY <1>9, Zenon
  <2>2. Cell(t, i) = IF t + i <= RingSize THEN t + i - 1 ELSE t + i - 1 - RingSize
    BY <1>7, <2>1, CellIs
  <2>3. Cell(r, m + i) = IF r + (m + i) <= RingSize THEN r + (m + i) - 1
                                                    ELSE r + (m + i) - 1 - RingSize
    BY <2>1, CellIs
  <2>4. Cell(t, i) = Cell(r, m + i)
    <3>1. m \in 0 .. RingSize /\ m + i <= RingSize
      BY <1>4, <1>5, <1>6, <2>1, SMTT(60)
    <3> QED
      BY <1>4, <1>7, <2>1, <2>2, <2>3, <3>1, CellAfterRelease, SMTT(60)
  <2> QED
    BY <1>1, <1>2, <2>1, <2>4, ZenonT(60)
<1>11. \A i \in 1 .. k : ln[i] = y[(a - m) + i]
  <2> SUFFICES ASSUME NEW i \in 1 .. k PROVE ln[i] = y[(a - m) + i]
    OBVIOUS
  <2>1. (a - m) + i \in 1 .. n /\ m + ((a - m) + i) = a + i
    <3>1. a \in Nat /\ m \in Nat /\ n \in Nat /\ k \in Nat /\ m <= a
      BY <1>5, <1>6
    <3> HIDE <1>a, <1>b
    <3> QED
      BY <1>9, <3>1, LineAfterRelease
  <2> PICK j : j = (a - m) + i
    OBVIOUS
  <2>2. z[m + j] = y[j] /\ ln[i] = z[a + i]
    BY <1>1, <1>2, <2>1, Zenon
  <2> QED
    BY <2>1, <2>2, Zenon
<1>12. Laid(rg, t, s, ln, Tail(q))
  BY <1>8, <1>9, <1>10, <1>11 DEF Laid
<1> QED
  BY <1>12, Zenon DEF Move

\* A sum is no less than a part.
LEMMA Least ==
  ASSUME NEW a \in Nat, NEW b \in Nat, NEW c, c = a + b
  PROVE  b <= c
OBVIOUS

\* The last frame is no longer than all of them.
LEMMA LastFits ==
  ASSUME NEW q \in Seq(Frames), q # <<>>
  PROVE  Len(Bytes[q[Len(q)]]) <= Len(Stream(q))
<1> PICK n, x, y : n = Len(q) /\ x = Streams(q)[n - 1] /\ y = Bytes[q[n]]
  OBVIOUS
<1>1. n \in Nat \ {0} /\ q[n] \in Frames
  BY EmptySeq, ElementOfSeq
<1>2. n \in 1 .. n /\ n - 1 \in 0 .. n
  BY <1>1
<1>3. x \in Seq(Byte) /\ y \in Seq(Byte)
  BY <1>1, <1>2, StreamsIs, BytesFit
<1>4. Stream(q) = x \o y
  BY <1>2, StreamsIs, Zenon DEF Stream
<1>5. Len(x \o y) = Len(x) + Len(y) /\ Len(x) \in Nat /\ Len(y) \in Nat
  BY <1>3, ConcatProperties, LenProperties
<1>6. Len(y) <= Len(x \o y)
  <2> PICK a, b, c : a = Len(x) /\ b = Len(y) /\ c = Len(x \o y)
    OBVIOUS
  <2>1. c = a + b /\ a \in Nat /\ b \in Nat
    BY <1>5
  <2> QED
    BY <2>1, Least, Zenon
<1> QED
  BY <1>4, <1>6

\* A product with more factors is no less.
LEMMA TimesKeepsOrder ==
  ASSUME NEW x \in Nat, NEW y \in Nat, NEW z \in Nat, x <= y
  PROVE  x * z <= y * z /\ x * z \in Nat /\ y * z \in Nat
OBVIOUS

\* The bytes of a window of frames, and one more, fit in the ring.
LEMMA StreamFits ==
  ASSUME PeersFit, NEW p \in Peers, NEW q \in Seq(p.frames), Len(q) <= p.window + 1
  PROVE  Len(Stream(q)) \in Nat /\ Len(Stream(q)) < RingSize
<1>1. PICK room \in 1 .. RingSize : (p.window + 1) * room < RingSize
                                    /\ \A f \in p.frames : Len(f.data) + 7 <= room
  BY DEF PeersFit
<1>2. q \in Seq(Frames) /\ p.window \in Nat \ {0} /\ p.frames \subseteq Frames
  BY PeerFrames
<1>3. \A i \in 1 .. Len(q) : q[i] \in p.frames
  BY ElementOfSeq
<1>4. \A i \in 1 .. Len(q) : Len(Bytes[q[i]]) <= room
  <2> SUFFICES ASSUME NEW i \in 1 .. Len(q) PROVE Len(Bytes[q[i]]) <= room
    OBVIOUS
  <2> PICK f : f = q[i]
    OBVIOUS
  <2>1. f \in Frames /\ Len(f.data) + 7 <= room
    BY <1>1, <1>2, <1>3
  <2>2. Len(Bytes[f]) = Len(f.data) + 7
    BY <2>1, BytesIs
  <2> QED
    BY <2>1, <2>2
<1>5. Len(Stream(q)) \in Nat /\ Len(Stream(q)) <= Len(q) * room
  <2>1. room \in Nat
    BY <1>1, RingIs
  <2> QED
    BY <1>2, <1>4, <2>1, StreamLen, Zenon
<1>6. Len(q) \in Nat
  BY LenProperties
<1>7. /\ Len(q) * room <= (p.window + 1) * room
      /\ Len(q) * room \in Nat /\ (p.window + 1) * room \in Nat
  <2>1. room \in Nat /\ p.window + 1 \in Nat
    BY <1>1, <1>2, RingIs, SMTT(60)
  <2> QED
    BY <1>6, <2>1, TimesKeepsOrder, Zenon
<1>8. PICK a, b, c : a = Len(Stream(q)) /\ b = Len(q) * room /\ c = (p.window + 1) * room
  OBVIOUS
<1>9. a \in Nat /\ b \in Nat /\ c \in Nat /\ a <= b /\ b <= c /\ c < RingSize
  BY <1>1, <1>5, <1>7, <1>8, Zenon
<1>10. RingSize \in Nat
  BY RingIs
<1>11. a < RingSize
  BY <1>9, <1>10
<1> QED
  BY <1>8, <1>9, <1>11, Zenon

-----------------------------------------------------------------------------
(* The frame machine, byte by byte.                                        *)

\* A frame of a command the handler lets through (PeersFit).
Known(f) == f.cmd \in HandlerCommands

\* Where the frame machine is behind k bytes of a frame with n bytes of data.
Stage(n, k, st, len) ==
  /\ k = 0 => st = "sync_head"
  /\ k = 1 => st = "head_end"
  /\ k = 2 => st = "command"
  /\ k = 3 => st = "len_high"
  /\ k = 4 => st = "len_low" /\ len = 0
  /\ k = 5 => st = "reserve" /\ len = n
  /\ k \in 6 .. n + 5 => st = "data" /\ len = n + 6 - k
  /\ k = n + 6 => st = "checksum"

\* The handler has taken in k bytes of frame f: its state, length and checksum.
Parsed(f, k, st, len, ck) == Stage(Len(f.data), k, st, len) /\ (k >= 1 => ck = Sum(f, k))

\* Within a frame the machine is not at its start.
LEMMA NotStart ==
  ASSUME NEW n \in Nat, NEW k \in 1 .. n + 6, NEW st, NEW len, Stage(n, k, st, len)
  PROVE  st # "sync_head"
<1>1. k = 1 \/ k = 2 \/ k = 3 \/ k = 4 \/ k = 5 \/ k \in 6 .. n + 5 \/ k = n + 6
  OBVIOUS
<1> QED
  BY <1>1, Zenon DEF Stage

\* The checksum of the handler is the one of the frame, and 0 behind it.
LEMMA SumStep ==
  ASSUME NEW f \in Frames, NEW k \in 0 .. Len(f.data) + 6, NEW b, b = Bytes[f][k + 1],
         Parsed(f, k, status, lenth, checksum)
  PROVE  /\ k < Len(f.data) + 6 => SumOf(b) = Sum(f, k + 1)
         /\ k = Len(f.data) + 6 => SumOf(b) = 0
<1> PICK n, bs : n = Len(f.data) /\ bs = Bytes[f]
  OBVIOUS
<1>1. n \in Nat
  BY BytesIs
<1>2. CASE k = 0
  <2>1. status = "sync_head"
    BY <1>2, Zenon DEF Parsed, Stage
  <2>2. b = Sync1 /\ k + 1 = 1 /\ k < n + 6 /\ k # n + 6
    BY <1>1, <1>2, BytesIs
  <2>3. SumOf(b) = Sync1 /\ Sum(f, k + 1) = Sync1
    BY <2>1, <2>2, BytesIs, Zenon DEF SumOf
  <2> QED
    BY <2>2, <2>3, Zenon
<1>3. CASE k >= 1
  <2>1. k \in 1 .. n + 6 /\ k \in Nat
    BY <1>1, <1>3
  <2>2. status # "sync_head" /\ checksum = Sum(f, k)
    BY <1>1, <1>3, <2>1, NotStart, Zenon DEF Parsed
  <2>3. SumOf(b) = Xor(Sum(f, k), b)
    BY <2>2, Zenon DEF SumOf
  <2>4. ASSUME k < n + 6 PROVE SumOf(b) = Sum(f, k + 1)
    <3> PICK j : j = k + 1
      OBVIOUS
    <3>1. j \in 1 .. n + 6 /\ j - 1 = k
      BY <1>1, <2>1, <2>4
    <3>2. Sum(f, j) = Xor(Sum(f, j - 1), bs[j])
      BY <3>1, BytesIs, Zenon
    <3> QED
      BY <2>3, <3>1, <3>2, Zenon
  <2>5. ASSUME k = n + 6 PROVE SumOf(b) = 0
    <3>1. k + 1 = n + 7 /\ k \in 0 .. n + 6
      BY <1>1, <2>1, <2>5
    <3>2. b = Sum(f, k)
      BY <2>5, <3>1, BytesIs, Zenon
    <3>3. Sum(f, k) \in Byte
      BY <3>1, BytesIs, Zenon
    <3> QED
      BY <2>3, <3>2, <3>3, XorIs, Zenon
  <2> QED
    BY <2>4, <2>5
<1> QED
  BY <1>1, <1>2, <1>3

\* The length of a frame is in its low byte.
LEMMA ShortLen ==
  ASSUME NEW n \in Nat, n \in Byte, status = "len_low", lenth = 0
  PROVE  Lenth(n) = n
<1> PICK x : x = lenth * 256 + n
  OBVIOUS
<1>1. n \in Nat /\ n < 65536
  BY DEF Byte
<1>2. x = n
  BY <1>1
<1>3. Lenth(n) = x % 65536
  BY DEF Lenth
<1>4. n % 65536 = n
  BY <1>1
<1> QED
  BY <1>2, <1>3, <1>4

\* A known command is accepted.
LEMMA KnownIs ==
  ASSUME NEW f, Known(f)
  PROVE  Accepted(f.cmd)
<1> PICK c : c = f.cmd
  OBVIOUS
<1>1. c \in 0 .. 21 \/ c \in 130 .. 132 \cup 194 .. 196
  BY DEF Known, HandlerCommands
<1>2. c \in 0 .. 21 => c < 22
  OBVIOUS
<1> QED
  BY <1>1, <1>2, Zenon DEF Accepted, IsSetter

\* Byte b behind the first k bytes of a frame with n bytes of data: the machine
\* goes on, and behind the last byte it counts the frame and starts anew.
GoesOn(n, k, b, sum) ==
  /\ k < n + 6 => Stage(n, k + 1, Parse(b, sum)[1], Lenth(b)) /\ Parse(b, sum)[2] = getcmd
  /\ k = n + 6 =>
       Parse(b, sum)[1] = "sync_head" /\ Parse(b, sum)[2] = (getcmd + 1) % GetcmdMax

\* It does so when it takes in the next byte of a frame.
LEMMA StageStep ==
  ASSUME NEW f \in Frames, Known(f), NEW k \in 0 .. Len(f.data) + 6, NEW b, b = Bytes[f][k + 1],
         NEW sum, Stage(Len(f.data), k, status, lenth), k = Len(f.data) + 6 => sum = 0
  PROVE  GoesOn(Len(f.data), k, b, sum)
<1> SUFFICES /\ k < Len(f.data) + 6 =>
                  /\ Stage(Len(f.data), k + 1, Parse(b, sum)[1], Lenth(b))
                  /\ Parse(b, sum)[2] = getcmd
             /\ k = Len(f.data) + 6 =>
                  Parse(b, sum)[1] = "sync_head" /\ Parse(b, sum)[2] = (getcmd + 1) % GetcmdMax
  BY Zenon DEF GoesOn
<1> PICK n, bs, st, nx, ln : /\ n = Len(f.data) /\ bs = Bytes[f] /\ st = status
                             /\ nx = Parse(b, sum) /\ ln = Lenth(b)
  OBVIOUS
<1>1. n \in Nat /\ n \in Byte
  BY BytesIs
<1>2. CASE k = 0
  <2>1. b = Sync1 /\ k + 1 = 1 /\ k < n + 6 /\ k # n + 6
    BY <1>1, <1>2, BytesIs
  <2>2. nx = <<"head_end", getcmd>>
    BY <1>2, <2>1, ParseIs, Zenon DEF Stage
  <2>3. Stage(n, 1, "head_end", ln)
    BY <1>1 DEF Stage
  <2> QED
    BY <2>1, <2>2, <2>3
<1>3. CASE k = 1
  <2>1. b = Sync2 /\ k + 1 = 2 /\ k < n + 6 /\ k # n + 6
    BY <1>1, <1>3, BytesIs
  <2>2. nx = <<"command", getcmd>>
    BY <1>3, <2>1, ParseIs, Zenon DEF Stage
  <2>3. Stage(n, 2, "command", ln)
    BY <1>1 DEF Stage
  <2> QED
    BY <2>1, <2>2, <2>3
<1>4. CASE k = 2
  <2>1. b = f.cmd /\ k + 1 = 3 /\ k < n + 6 /\ k # n + 6
    BY <1>1, <1>4, BytesIs
  <2>2. Accepted(b)
    BY <2>1, KnownIs, Zenon
  <2>3. nx = <<"len_high", getcmd>>
    BY <1>4, <2>2, ParseIs, Zenon DEF Stage
  <2>4. Stage(n, 3, "len_high", ln)
    BY <1>1 DEF Stage
  <2> QED
    BY <2>1, <2>3, <2>4
<1>5. CASE k = 3
  <2>1. b = 0 /\ k + 1 = 4 /\ k < n + 6 /\ k # n + 6
    BY <1>1, <1>5, BytesIs
  <2>2. nx = <<"len_low", getcmd>> /\ ln = 0
    <3>1. status = "len_high"
      BY <1>5, Zenon DEF Stage
    <3>2. ln = b
      BY <3>1 DEF Lenth
    <3> QED
      BY <2>1, <3>1, <3>2, ParseIs, Zenon
  <2>3. Stage(n, 4, "len_low", ln)
    BY <1>1, <2>2 DEF Stage
  <2> QED
    BY <2>1, <2>2, <2>3
<1>6. CASE k = 4
  <2>1. b = n /\ k + 1 = 5 /\ k < n + 6 /\ k # n + 6
    BY <1>1, <1>6, BytesIs, SMTT(60)
  <2>2. nx = <<"reserve", getcmd>> /\ ln = n
    <3>1. st = "len_low" /\ lenth = 0
      BY <1>6, Zenon DEF Stage
    <3>2. ln = n
      BY <1>1, <2>1, <3>1, ShortLen, Zenon
    <3> QED
      BY <3>1, <3>2, ParseIs, Zenon
  <2>3. Stage(n, 5, "reserve", ln)
    BY <1>1, <2>2 DEF Stage
  <2> QED
    BY <2>1, <2>2, <2>3
<1>7. CASE k = 5
  <2>1. k + 1 = 6 /\ k < n + 6 /\ k # n + 6
    BY <1>1, <1>7
  <2>2. nx = <<IF n # 0 THEN "data" ELSE "checksum", getcmd>> /\ ln = n
    <3>1. st = "reserve" /\ lenth = n
      BY <1>7, Zenon DEF Stage
    <3>2. ln = n
      BY <3>1 DEF Lenth
    <3> QED
      BY <3>1, <3>2, ParseIs, Zenon
  <2>3. Stage(n, 6, IF n # 0 THEN "data" ELSE "checksum", ln)
    BY <1>1, <2>2 DEF Stage
  <2> QED
    BY <2>1, <2>2, <2>3
<1>8. CASE k \in 6 .. n + 5
  <2>1. k < n + 6 /\ k # n + 6 /\ k \in Nat
    BY <1>1, <1>8
  <2>2. st = "data" /\ lenth = n + 6 - k
    BY <1>8, Zenon DEF Stage
  <2>3. nx = <<IF lenth <= 1 THEN "checksum" ELSE "data", getcmd>>
    BY <2>2, ParseIs, Zenon
  <2>4. ln = lenth - 1
    BY <1>1, <1>8, <2>2 DEF Lenth
  <2>5. Stage(n, k + 1, IF lenth <= 1 THEN "checksum" ELSE "data", ln)
    BY <1>1, <1>8, <2>1, <2>2, <2>4 DEF Stage
  <2> QED
    BY <2>1, <2>3, <2>5
<1>9. CASE k = n + 6
  <2>1. k # 0 /\ ~ (k < n + 6)
    BY <1>1, <1>9
  <2>2. st = "checksum" /\ sum = 0
    BY <1>9, Zenon DEF Stage
  <2>3. nx = <<"sync_head", (getcmd + 1) % GetcmdMax>>
    BY <2>2, ParseIs, Zenon
  <2> QED
    BY <2>1, <2>3
<1>10. k = 0 \/ k = 1 \/ k = 2 \/ k = 3 \/ k = 4 \/ k = 5 \/ k \in 6 .. n + 5 \/ k = n + 6
  BY <1>1
<1> QED
  BY <1>2, <1>3, <1>4, <1>5, <1>6, <1>7, <1>8, <1>9, <1>10, Zenon

-----------------------------------------------------------------------------
(* The inductive invariant.                                                *)

\* Line ln is frame f behind its first k bytes.
Suffix(f, k, ln) ==
  /\ k \in Nat /\ k + Len(ln) = Len(Bytes[f])
  /\ \A i \in 1 .. Len(ln) : ln[i] = Bytes[f][k + i]

\* The thread has executed a frame and not released it.
Holding == pc \in {"copy", "fetch", "advance"}
\* getcmd still counts a frame executed already.
Extra   == IF pc \in {"copy", "fetch", "advance", "load", "store"} THEN 1 ELSE 0
\* The frames received and not executed.
Done    == IF line = <<>> THEN Len(pending) ELSE Len(pending) - 1

\* The parts of the inductive invariant: the PC keeps to its window,
QueueInv == Len(pending) <= peer.window
\* the ring and the line hold the frames not released, in order,
LayInv   == Laid(ring, read_index, save_index, line, Unreleased)
\* the handler is where the line is within the last frame,
LineInv  ==
  /\ line = <<>> => status = "sync_head"
  /\ line # <<>> => /\ pending # <<>>
                    /\ \E k \in Nat :
                          /\ Suffix(Last(pending), k, line)
                          /\ Parsed(Last(pending), k, status, lenth, checksum)
\* getcmd counts no more frames than were received, and the thread takes one only
\* if one was,
CountInv ==
  /\ pc # "clear" /\ getcmd <= Done + Extra
  /\ pc \in {"decode", "mark", "execute", "copy", "fetch", "advance", "load"} => getcmd >= 1
  /\ pc = "store" => reg >= 1 /\ reg - 1 <= Done
\* the thread has decoded the first frame sent,
CurInv ==
  /\ pc \in {"mark", "execute"} => cur = Command(Head(pending))
  /\ Holding => want \in peer.frames /\ cur = Command(want)
  /\ pc = "advance" => reg = read_index
\* and a setter has copied the data of its frame.
StoreInv ==
  /\ pc = "fetch" /\ IsSetter(cur.cmd) /\ cur.len = SetLen
  /\ ((read_index + 6) % RingSize) + cur.len <= RingSize
  => stored = want.data

\* The inductive invariant of an undamaged wire.
LinkInv == QueueInv /\ LayInv /\ LineInv /\ CountInv /\ CurInv /\ StoreInv
\* It holds up to the first damage.
SafeInv == Undamaged => LinkInv

\* What the types say, with what follows for the frames.
LEMMA TypesAre ==
  ASSUME TypeInv
  PROVE  /\ peer \in Peers /\ pending \in Seq(peer.frames) /\ pending \in Seq(Frames)
         /\ line \in Seq(Byte) /\ Len(pending) \in Nat /\ Len(line) \in Nat
         /\ peer.window \in Nat \ {0} /\ peer.frames \subseteq Frames
         /\ ring \in [Cells -> Byte] /\ read_index \in Cells /\ save_index \in Cells
         /\ getcmd \in 0 .. GetcmdMax - 1 /\ getcmd \in Nat
<1>1. peer \in Peers /\ pending \in Seq(peer.frames) /\ line \in Seq(Byte)
  BY Zenon DEF TypeInv, WireType
<1>2. /\ peer.frames \subseteq Frames /\ Seq(peer.frames) \subseteq Seq(Frames)
      /\ peer.window \in Nat \ {0}
  BY <1>1, PeerFrames, Zenon
<1>3. pending \in Seq(Frames)
  BY <1>1, <1>2, Zenon
<1>4. Len(pending) \in Nat /\ Len(line) \in Nat
  BY <1>1, LenProperties, Zenon
<1>5. ring \in [Cells -> Byte] /\ read_index \in Cells /\ save_index \in Cells
  BY Zenon DEF TypeInv, RingType
<1>6. getcmd \in 0 .. GetcmdMax - 1 /\ getcmd \in Nat
  BY CountIs DEF TypeInv, CountType
<1> QED
  BY <1>1, <1>2, <1>3, <1>4, <1>5, <1>6, Zenon

\* What PeersFit says of the PC at hand.
LEMMA BoundsAre ==
  ASSUME TypeInv, PeersFit
  PROVE  /\ peer.window \in Nat /\ ErrCmd \in Nat /\ GetcmdMax \in Nat
         /\ peer.window + 1 < ErrCmd /\ ErrCmd + 1 < GetcmdMax
         /\ \A f \in peer.frames : Known(f)
<1>1. peer \in Peers /\ peer.window \in Nat
  BY TypesAre
<1>2. peer.window + 1 < ErrCmd /\ \A f \in peer.frames : Known(f)
  BY <1>1, ZenonT(60) DEF PeersFit, Known
<1> QED
  BY <1>1, <1>2, RingAssumption

\* The frames received, counted by the line.
LEMMA DoneIs ==
  ASSUME TypeInv, LineInv
  PROVE  /\ Done \in Nat /\ Done <= Len(pending)
         /\ line = <<>> => Done = Len(pending)
         /\ line # <<>> => Len(pending) = Done + 1
         /\ Done >= 1 => pending # <<>> /\ Len(pending) \in Nat \ {0}
<1>1. Len(pending) \in Nat
  BY TypesAre
<1>2. Len(pending) # 0 => pending # <<>>
  BY EmptySeq
<1>3. line # <<>> => Len(pending) # 0
  BY TypesAre, EmptySeq DEF LineInv
<1> QED
  BY <1>1, <1>2, <1>3 DEF Done

\* An element in front of a sequence.
LEMMA HeadIs ==
  ASSUME NEW S, NEW x \in S, NEW q \in Seq(S)
  PROVE  /\ <<x>> \o q \in Seq(S) /\ Len(<<x>> \o q) = Len(q) + 1
         /\ <<x>> \o q # <<>> /\ Head(<<x>> \o q) = x /\ Tail(<<x>> \o q) = q
OBVIOUS

\* One frame more than pending may be unreleased.
LEMMA UnreleasedIs ==
  ASSUME TypeInv, CurInv
  PROVE  /\ Unreleased \in Seq(peer.frames) /\ Unreleased \in Seq(Frames)
         /\ Len(Unreleased) <= Len(pending) + 1
<1>1. /\ pending \in Seq(peer.frames) /\ Len(pending) \in Nat /\ peer \in Peers
      /\ Seq(peer.frames) \subseteq Seq(Frames)
  BY TypesAre, PeerFrames
<1>2. CASE Holding
  <2>1. want \in peer.frames /\ Unreleased = <<want>> \o pending
    BY <1>2, Zenon DEF CurInv, Holding, Unreleased
  <2>2. Unreleased \in Seq(peer.frames) /\ Len(Unreleased) = Len(pending) + 1
    BY <1>1, <2>1, HeadIs, ZenonT(60)
  <2> QED
    BY <1>1, <2>2
<1>3. CASE ~ Holding
  <2>1. Unreleased = pending
    BY <1>3, Zenon DEF Holding, Unreleased
  <2> QED
    BY <1>1, <2>1
<1> QED
  BY <1>2, <1>3

\* The unreleased frames fit in the ring.
LEMMA Fits ==
  ASSUME TypeInv, PeersFit, QueueInv, CurInv
  PROVE  Len(Stream(Unreleased)) < RingSize
<1>1. /\ Unreleased \in Seq(peer.frames) /\ Len(Unreleased) <= Len(pending) + 1
      /\ Len(pending) \in Nat /\ peer \in Peers /\ peer.window \in Nat
  BY UnreleasedIs, TypesAre
<1> PICK n : n = Len(Unreleased)
  OBVIOUS
<1>2. n \in Nat /\ n <= peer.window + 1
  <2>1. n \in Nat
    BY <1>1, LenProperties, Zenon
  <2> QED
    BY <1>1, <2>1 DEF QueueInv
<1> QED
  BY <1>1, <1>2, StreamFits, Zenon

\* The line is within any frames that end with the last pending one.
LEMMA LineFits ==
  ASSUME TypeInv, LineInv, NEW q \in Seq(Frames),
         line # <<>> => q # <<>> /\ Last(q) = Last(pending)
  PROVE  Len(line) <= Len(Stream(q))
<1>1. Len(Stream(q)) \in Nat /\ Len(line) \in Nat
  BY TypesAre, StreamType, LenProperties, Zenon
<1>2. CASE line = <<>>
  <2>1. Len(line) = 0
    BY <1>2
  <2> QED
    BY <1>1, <2>1
<1>3. CASE line # <<>>
  <2>1. PICK k \in Nat : Suffix(Last(pending), k, line)
    BY <1>3, Zenon DEF LineInv
  <2> PICK f, m : f = Last(pending) /\ m = Len(Bytes[f])
    OBVIOUS
  <2>2. k + Len(line) = m
    BY <2>1, Zenon DEF Suffix
  <2>3. m <= Len(Stream(q))
    BY <1>3, LastFits, Zenon DEF Last
  <2> QED
    BY <1>1, <2>2, <2>3
<1> QED
  BY <1>2, <1>3

\* The tail of a sequence ends like it.
LEMMA LastTail ==
  ASSUME NEW S, NEW q \in Seq(S), Len(q) >= 2
  PROVE  /\ q # <<>> /\ Tail(q) \in Seq(S) /\ Tail(q) # <<>> /\ Last(Tail(q)) = Last(q)
         /\ Len(Tail(q)) = Len(q) - 1
<1> PICK n, t : n = Len(q) /\ t = Tail(q)
  OBVIOUS
<1>1. n \in Nat /\ n >= 2 /\ q # <<>>
  BY LenProperties, EmptySeq
<1>2. t \in Seq(S) /\ Len(t) = n - 1 /\ \A i \in 1 .. n - 1 : t[i] = q[i + 1]
  BY <1>1, HeadTailProperties
<1>3. t[n - 1] = q[n] /\ n - 1 # 0
  BY <1>1, <1>2
<1>4. t # <<>>
  BY <1>2, <1>3, EmptySeq
<1> QED
  BY <1>1, <1>2, <1>3, <1>4, Zenon DEF Last

\* Each part depends on its variables only.
LEMMA SameParts ==
  /\ QueueInv /\ UNCHANGED <<peer, pending>> => QueueInv'
  /\ LayInv /\ UNCHANGED <<ring, read_index, save_index, line>> /\ Unreleased' = Unreleased
       => LayInv'
  /\ LineInv /\ UNCHANGED <<line, pending, status, lenth, checksum>> => LineInv'
  /\ CountInv /\ UNCHANGED <<pc, getcmd, line, pending, reg>> => CountInv'
  /\ CurInv /\ UNCHANGED <<pc, cur, pending, want, reg, read_index, peer>> => CurInv'
  /\ StoreInv /\ UNCHANGED <<pc, cur, read_index, stored, want>> => StoreInv'
  /\ UNCHANGED <<want, pending>> /\ Holding' = Holding => Unreleased' = Unreleased
<1>1. QueueInv /\ UNCHANGED <<peer, pending>> => QueueInv'
  BY DEF QueueInv
<1>2. LayInv /\ UNCHANGED <<ring, read_index, save_index, line>> /\ Unreleased' = Unreleased
       => LayInv'
  BY DEF LayInv
<1>3. LineInv /\ UNCHANGED <<line, pending, status, lenth, checksum>> => LineInv'
  BY DEF LineInv
<1>4. CountInv /\ UNCHANGED <<pc, getcmd, line, pending, reg>> => CountInv'
  BY DEF CountInv, Done, Extra
<1>5. CurInv /\ UNCHANGED <<pc, cur, pending, want, reg, read_index, peer>> => CurInv'
  BY DEF CurInv, Holding
<1>6. StoreInv /\ UNCHANGED <<pc, cur, read_index, stored, want>> => StoreInv'
  BY DEF StoreInv
<1>7. UNCHANGED <<want, pending>> /\ Holding' = Holding => Unreleased' = Unreleased
  BY DEF Holding, Unreleased
<1> QED
  BY <1>1, <1>2, <1>3, <1>4, <1>5, <1>6, <1>7, Zenon

\* The initial state satisfies the invariant.
LEMMA InitSafe == Init => SafeInv
<1> SUFFICES ASSUME Init PROVE LinkInv
  BY DEF SafeInv
<1>1. /\ pending = <<>> /\ line = <<>> /\ read_index = 0 /\ save_index = 0 /\ getcmd = 0
      /\ pc = "poll" /\ status = "sync_head" /\ peer \in Peers
  BY DEF Init
<1>2. Len(pending) = 0 /\ Len(line) = 0
  BY <1>1
<1>3. QueueInv
  BY <1>1, <1>2, PeersAssumption DEF QueueInv
<1>4. LayInv
  <2>1. Unreleased = <<>> /\ Stream(Unreleased) = <<>>
    BY <1>1, StreamNil DEF Unreleased
  <2>2. Amount(0, 0) = 0
    BY RingIs, AmountIs DEF Cells
  <2> QED
    BY <1>1, <1>2, <2>1, <2>2 DEF LayInv, Laid
<1>5. LineInv
  BY <1>1 DEF LineInv
<1>6. CountInv
  BY <1>1, <1>2 DEF CountInv, Done, Extra
<1>7. CurInv /\ StoreInv
  BY <1>1 DEF CurInv, StoreInv, Holding
<1> QED
  BY <1>3, <1>4, <1>5, <1>6, <1>7 DEF LinkInv

-----------------------------------------------------------------------------
(* The PC and the interrupt handler.                                       *)

\* An element behind a sequence.
LEMMA AppendIs ==
  ASSUME NEW S, NEW q \in Seq(S), NEW f \in S
  PROVE  /\ Append(q, f) \in Seq(S) /\ Len(Append(q, f)) = Len(q) + 1
         /\ Append(q, f) # <<>> /\ Last(Append(q, f)) = f
         /\ q # <<>> => Head(Append(q, f)) = Head(q)
<1> PICK n, r : n = Len(q) /\ r = Append(q, f)
  OBVIOUS
<1>1. /\ n \in Nat /\ r \in Seq(S) /\ Len(r) = n + 1
      /\ \A i \in 1 .. n : r[i] = q[i]
      /\ r[n + 1] = f
  BY AppendProperties, LenProperties
<1>2. r # <<>>
  BY <1>1, EmptySeq
<1>3. q # <<>> => n >= 1
  BY EmptySeq
<1>4. q # <<>> => Head(r) = Head(q)
  <2> SUFFICES ASSUME q # <<>> PROVE Head(r) = Head(q)
    OBVIOUS
  <2>1. 1 \in 1 .. n
    BY <1>1, <1>3
  <2>2. r[1] = q[1]
    BY <1>1, <2>1
  <2>3. Head(r) = r[1] /\ Head(q) = q[1]
    BY <1>1, <1>2, HeadTailProperties
  <2> QED
    BY <2>2, <2>3, Zenon
<1>5. Last(r) = f
  BY <1>1 DEF Last
<1> QED
  BY <1>1, <1>2, <1>4, <1>5

\* Putting x in front and f behind, in either order.
Behind(x, q, f) == <<x>> \o Append(q, f) = Append(<<x>> \o q, f)

\* The order does not matter.
LEMMA PutBehind ==
  ASSUME NEW S, NEW x \in S, NEW q \in Seq(S), NEW f \in S
  PROVE  Behind(x, q, f)
BY DEF Behind

\* The PC sends a frame: its bytes are on the line behind all others.
LEMMA SendInv ==
  ASSUME TypeInv, LinkInv, NEW f \in peer.frames, Send(f)
  PROVE  LinkInv'
<1>1. /\ line = <<>> /\ Len(pending) < peer.window
      /\ line' = Bytes[f] /\ pending' = Append(pending, f)
      /\ UNCHANGED <<ring, read_index, save_index, getcmd, status, lenth, checksum>>
      /\ UNCHANGED <<pc, reg, cur, stored, peer, want>>
  BY DEF Send, rx, isr, params
<1>2. /\ pending \in Seq(peer.frames) /\ f \in Frames /\ Len(pending) \in Nat
      /\ peer.window \in Nat /\ read_index \in Cells /\ save_index \in Cells
  BY TypesAre
<1>3. /\ pending' # <<>> /\ Last(pending') = f /\ Len(pending') = Len(pending) + 1
      /\ pending # <<>> => Head(pending') = Head(pending)
  BY <1>1, <1>2, AppendIs
<1>4. Bytes[f] # <<>>
  BY <1>2, BytesFit
<1>5. Unreleased \in Seq(Frames)
  BY UnreleasedIs DEF LinkInv
<1>6. QueueInv'
  BY <1>1, <1>2, <1>3 DEF QueueInv
<1>7. LayInv'
  <2>1. Unreleased' = Append(Unreleased, f)
    <3>1. CASE Holding
      <4>1. Unreleased' = <<want>> \o Append(pending, f) /\ Unreleased = <<want>> \o pending
        BY <1>1, <3>1, Zenon DEF Holding, Unreleased
      <4>2. want \in peer.frames
        BY <3>1, Zenon DEF LinkInv, CurInv
      <4> QED
        <5>1. Behind(want, pending, f)
          BY <1>2, <4>2, PutBehind, Zenon
        <5> QED
          BY <4>1, <5>1, Zenon DEF Behind
    <3>2. CASE ~ Holding
      BY <1>1, <3>2, Zenon DEF Holding, Unreleased
    <3> QED
      BY <3>1, <3>2
  <2>2. Laid(ring, read_index, save_index, <<>>, Unreleased)
    BY <1>1, Zenon DEF LinkInv, LayInv
  <2>3. Laid(ring, read_index, save_index, Bytes[f], Append(Unreleased, f))
    BY <1>2, <1>5, <2>2, LaidSend, Zenon
  <2> QED
    BY <1>1, <2>1, <2>3, Zenon DEF LayInv
<1>8. LineInv'
  <2>1. status' = "sync_head"
    BY <1>1, Zenon DEF LinkInv, LineInv
  <2>2. Suffix(f, 0, Bytes[f])
    <3> PICK x : x = Bytes[f]
      OBVIOUS
    <3>1. Len(x) \in Nat /\ \A i \in 1 .. Len(x) : 0 + i = i
      BY <1>2, BytesFit, LenProperties
    <3> QED
      BY <3>1 DEF Suffix
  <2>3. Parsed(f, 0, status', lenth', checksum')
    <3>1. Len(f.data) \in Nat
      BY <1>2, BytesIs
    <3>2. Stage(Len(f.data), 0, "sync_head", lenth')
      BY <3>1 DEF Stage
    <3> QED
      BY <2>1, <3>2 DEF Parsed
  <2>4. 0 \in Nat
    OBVIOUS
  <2> QED
    BY <1>1, <1>3, <1>4, <2>2, <2>3, <2>4, Zenon DEF LineInv
<1>9. Done' = Done
  <2>1. Done = Len(pending) /\ Done' = Len(pending') - 1
    BY <1>1, <1>4, Zenon DEF Done
  <2> QED
    BY <1>2, <1>3, <2>1
<1>10. CountInv'
  <2>1. Extra' = Extra
    BY <1>1, Zenon DEF Extra
  <2> QED
    BY <1>1, <1>9, <2>1, Zenon DEF LinkInv, CountInv
<1>11. CurInv'
  <2>1. pc \in {"mark", "execute"} => pending # <<>>
    <3>1. pc \in {"mark", "execute"} => getcmd >= 1 /\ getcmd <= Done + 0
      BY DEF LinkInv, CountInv, Extra
    <3>2. Done \in Nat /\ (Done >= 1 => pending # <<>>) /\ getcmd \in Nat
      BY DoneIs, TypesAre DEF LinkInv
    <3> QED
      BY <3>1, <3>2
  <2> QED
    BY <1>1, <1>3, <2>1, Zenon DEF LinkInv, CurInv, Holding
<1>12. StoreInv'
  BY <1>1, SameParts, Zenon DEF LinkInv
<1> QED
  BY <1>6, <1>7, <1>8, <1>10, <1>11, <1>12 DEF LinkInv

\* Taking a byte off the line leaves one byte less of the frame.
LEMMA SuffixTail ==
  ASSUME NEW f \in Frames, NEW k \in Nat, NEW ln \in Seq(Byte), ln # <<>>, Suffix(f, k, ln)
  PROVE  /\ k \in 0 .. Len(f.data) + 6 /\ Head(ln) = Bytes[f][k + 1]
         /\ Suffix(f, k + 1, Tail(ln))
         /\ Tail(ln) = <<>> <=> k = Len(f.data) + 6
<1> PICK x, n, t, m : x = Bytes[f] /\ n = Len(ln) /\ t = Tail(ln) /\ m = Len(f.data)
  OBVIOUS
<1>1. n \in Nat \ {0} /\ Len(t) = n - 1 /\ Head(ln) = ln[1] /\ t \in Seq(Byte)
      /\ \A i \in 1 .. n - 1 : t[i] = ln[i + 1]
  BY EmptySeq, HeadTailProperties
<1>2. Len(x) = m + 7 /\ m \in Nat
  BY BytesIs
<1>3. k + n = m + 7 /\ \A i \in 1 .. n : ln[i] = x[k + i]
  BY <1>2, Zenon DEF Suffix
<1>4. k \in 0 .. m + 6 /\ (n = 1 <=> k = m + 6) /\ 1 \in 1 .. n
  <2>1. k + n = m + 7
    BY <1>3
  <2>2. n \in Nat \ {0} /\ m \in Nat
    BY <1>1, <1>2
  <2> QED
    BY <2>1, <2>2, SMTT(60)
<1>5. Head(ln) = x[k + 1]
  BY <1>1, <1>3, <1>4, Zenon
<1>6. \A i \in 1 .. n - 1 : t[i] = x[(k + 1) + i]
  <2> SUFFICES ASSUME NEW i \in 1 .. n - 1 PROVE t[i] = x[(k + 1) + i]
    OBVIOUS
  <2> PICK j : j = i + 1
    OBVIOUS
  <2>1. j \in 1 .. n /\ (k + 1) + i = k + j
    BY <1>1
  <2>2. t[i] = ln[j] /\ ln[j] = x[k + j]
    BY <1>1, <1>3, <2>1, Zenon
  <2> QED
    BY <2>1, <2>2, Zenon
<1>7. (k + 1) + (n - 1) = m + 7 /\ k + 1 \in Nat
  BY <1>1, <1>3
<1>8. Suffix(f, k + 1, t)
  BY <1>1, <1>2, <1>6, <1>7, Zenon DEF Suffix
<1>9. t = <<>> <=> n = 1
  <2>1. n - 1 = 0 <=> n = 1
    BY <1>1
  <2>2. t = <<>> <=> Len(t) = 0
    BY <1>1, EmptySeq
  <2> QED
    BY <1>1, <2>1, <2>2, Zenon
<1> QED
  BY <1>4, <1>5, <1>8, <1>9, Zenon

\* The interrupt handler takes a byte in, between any two steps of the thread;
\* behind the last byte of a frame, and only there, getcmd grows by one and does not wrap.
LEMMA ReceiveInv ==
  ASSUME PeersFit, TypeInv, LinkInv, Receive
  PROVE  /\ LinkInv'
         /\ line' # <<>> => getcmd' = getcmd
         /\ line' = <<>> => getcmd' = getcmd + 1
<1> PICK b, sum, f, n : b = Head(line) /\ sum = SumOf(b) /\ f = Last(pending) /\ n = Len(f.data)
  OBVIOUS
<1>1. /\ line # <<>> /\ line' = Tail(line)
      /\ ring' = [ring EXCEPT ![save_index] = b] /\ save_index' = (save_index + 1) % RingSize
      /\ read_index' = IF save_index' = read_index THEN (read_index + 1) % RingSize
                                                   ELSE read_index
      /\ status' = Parse(b, sum)[1] /\ getcmd' = Parse(b, sum)[2] /\ checksum' = sum
      /\ lenth' = Lenth(b)
      /\ UNCHANGED <<pc, reg, cur, stored, peer, pending, want>>
  BY ReceiveIs DEF params
<1>2. pending # <<>> /\ \E k \in Nat : Suffix(f, k, line) /\ Parsed(f, k, status, lenth, checksum)
  BY <1>1, Zenon DEF LinkInv, LineInv
<1>3. PICK k \in Nat : Suffix(f, k, line) /\ Parsed(f, k, status, lenth, checksum)
  BY <1>2, Zenon
<1>4. line \in Seq(Byte) /\ f \in peer.frames /\ f \in Frames /\ Known(f)
  <2>1. pending \in Seq(peer.frames) /\ peer.frames \subseteq Frames /\ line \in Seq(Byte)
    BY TypesAre
  <2>2. Len(pending) \in 1 .. Len(pending)
    BY <1>2, <2>1, EmptySeq, LenProperties
  <2>3. f \in peer.frames
    BY <2>1, <2>2, ElementOfSeq, Zenon DEF Last
  <2> QED
    BY <2>1, <2>3, BoundsAre
<1>5. /\ k \in 0 .. n + 6 /\ b = Bytes[f][k + 1]
      /\ Suffix(f, k + 1, line')
      /\ line' = <<>> <=> k = n + 6
  BY <1>1, <1>3, <1>4, SuffixTail, Zenon
<1>6. n \in Nat
  BY <1>4, BytesIs
<1>7. (k < n + 6 => sum = Sum(f, k + 1)) /\ (k = n + 6 => sum = 0)
  BY <1>3, <1>4, <1>5, SumStep, Zenon
<1>8. Stage(n, k, status, lenth)
  BY <1>3, Zenon DEF Parsed
<1>9. /\ k < n + 6 => Stage(n, k + 1, status', lenth') /\ getcmd' = getcmd
      /\ k = n + 6 => status' = "sync_head" /\ getcmd' = (getcmd + 1) % GetcmdMax
  <2>1. /\ f \in Frames /\ Known(f) /\ k \in 0 .. Len(f.data) + 6 /\ b = Bytes[f][k + 1]
        /\ Stage(Len(f.data), k, status, lenth) /\ (k = Len(f.data) + 6 => sum = 0)
    BY <1>4, <1>5, <1>7, <1>8, Zenon
  <2>2. GoesOn(n, k, b, sum)
    BY <2>1, StageStep, Zenon
  <2> QED
    BY <1>1, <2>2, Zenon DEF GoesOn
<1>10. QueueInv'
  BY <1>1, SameParts, Zenon DEF LinkInv
<1>11. LayInv' /\ read_index' = read_index
  <2>1. Laid(ring, read_index, save_index, line, Unreleased)
    BY Zenon DEF LinkInv, LayInv
  <2>2. Unreleased \in Seq(Frames) /\ Len(Stream(Unreleased)) < RingSize
    BY UnreleasedIs, Fits DEF LinkInv
  <2>3. ring \in [Cells -> Byte] /\ read_index \in Cells /\ save_index \in Cells
    BY TypesAre
  <2>4. /\ save_index' # read_index
        /\ Laid(ring', read_index, save_index', line', Unreleased)
    BY <1>1, <1>4, <2>1, <2>2, <2>3, LaidReceive
  <2>5. read_index' = read_index
    BY <1>1, <2>4, Zenon
  <2>6. Unreleased' = Unreleased
    BY <1>1, Zenon DEF Unreleased
  <2> QED
    BY <2>4, <2>5, <2>6, Zenon DEF LayInv
<1>12. LineInv'
  <2>1. CASE line' = <<>>
    BY <1>5, <1>9, <2>1, Zenon DEF LineInv
  <2>2. CASE line' # <<>>
    <3>1. k < n + 6 /\ k + 1 \in Nat
      BY <1>5, <1>6, <2>2
    <3>2. Last(pending') = f /\ pending' # <<>>
      BY <1>1, <1>2
    <3>3. Parsed(f, k + 1, status', lenth', checksum')
      BY <1>1, <1>7, <1>9, <3>1, Zenon DEF Parsed
    <3> QED
      BY <1>5, <2>2, <3>1, <3>2, <3>3, Zenon DEF LineInv
  <2> QED
    BY <2>1, <2>2
<1>13. /\ line' # <<>> => getcmd' = getcmd /\ Done' = Done
       /\ line' = <<>> => getcmd' = getcmd + 1 /\ Done' = Done + 1
  <2>1. ASSUME line' # <<>> PROVE getcmd' = getcmd /\ Done' = Done
    <3>1. k < n + 6
      BY <1>5, <1>6, <2>1
    <3> QED
      BY <1>1, <1>9, <2>1, <3>1, Zenon DEF Done
  <2>2. ASSUME line' = <<>> PROVE getcmd' = getcmd + 1 /\ Done' = Done + 1
    <3>1. Len(pending) = Done + 1 /\ Done \in Nat
      BY <1>1, DoneIs DEF LinkInv
    <3>2. Done' = Len(pending)
      BY <1>1, <2>2, Zenon DEF Done
    <3>3. getcmd + 1 < GetcmdMax /\ getcmd \in Nat /\ GetcmdMax \in Nat
      <4>1. getcmd <= Done + Extra /\ Extra \in 0 .. 1
        BY DEF LinkInv, CountInv, Extra
      <4>2. Done + 1 <= peer.window
        BY <3>1 DEF LinkInv, QueueInv
      <4> QED
        BY <3>1, <4>1, <4>2, BoundsAre, TypesAre, SMTT(60)
    <3>4. getcmd' = (getcmd + 1) % GetcmdMax
      BY <1>5, <1>9, <2>2
    <3>5. (getcmd + 1) % GetcmdMax = getcmd + 1
      BY <3>3
    <3> QED
      BY <3>1, <3>2, <3>4, <3>5, Zenon
  <2> QED
    BY <2>1, <2>2
<1>14. CountInv'
  <2>1. Extra' = Extra /\ pc' = pc /\ reg' = reg
    BY <1>1, Zenon DEF Extra
  <2>2. Extra \in Nat /\ Done \in Nat /\ getcmd \in Nat
    BY DoneIs, TypesAre DEF LinkInv, Extra
  <2>3. /\ pc # "clear" /\ getcmd <= Done + Extra
        /\ pc \in {"decode", "mark", "execute", "copy", "fetch", "advance", "load"} => getcmd >= 1
        /\ pc = "store" => reg >= 1 /\ reg - 1 <= Done
    BY Zenon DEF LinkInv, CountInv
  <2>4. CASE line' # <<>>
    BY <1>13, <2>1, <2>3, <2>4, Zenon DEF CountInv
  <2>5. CASE line' = <<>>
    <3>1. getcmd' = getcmd + 1 /\ Done' = Done + 1
      BY <1>13, <2>5
    <3>2. getcmd' <= Done' + Extra /\ getcmd' >= 1
      BY <2>2, <2>3, <3>1
    <3>3. pc = "store" => reg \in Int
      BY CountIs, RingIs DEF TypeInv, RegType, Cells
    <3>4. pc = "store" => reg >= 1 /\ reg - 1 <= Done'
      BY <2>2, <2>3, <3>1, <3>3
    <3> QED
      BY <2>1, <2>3, <3>2, <3>4, Zenon DEF CountInv
  <2> QED
    BY <2>4, <2>5
<1>15. CurInv' /\ StoreInv'
  BY <1>1, <1>11, SameParts, Zenon DEF LinkInv
<1> QED
  BY <1>10, <1>11, <1>12, <1>13, <1>14, <1>15, Zenon DEF LinkInv

-----------------------------------------------------------------------------
(* The thread.                                                             *)

\* What the count says at the places of the thread: while it decodes and executes
\* a frame, that frame was received, and the line is within a later one.
LEMMA CountIsMore ==
  ASSUME TypeInv, LinkInv
  PROVE  /\ Done \in Nat /\ getcmd \in Nat /\ getcmd <= Done + Extra
         /\ pc \in {"poll", "loop", "decode", "mark", "execute"} => Extra = 0
         /\ pc \in {"copy", "fetch", "advance", "load", "store"} => Extra = 1
         /\ pc \in {"decode", "mark", "execute"} =>
              Done >= 1 /\ pending # <<>> /\ (line # <<>> => Len(pending) >= 2)
<1>1. /\ Done \in Nat /\ getcmd \in Nat /\ (Done >= 1 => pending # <<>>)
      /\ (line # <<>> => Len(pending) = Done + 1)
  BY DoneIs, TypesAre DEF LinkInv
<1>2. getcmd <= Done + Extra /\ (pc \in {"decode", "mark", "execute"} => getcmd >= 1)
  BY DEF LinkInv, CountInv
<1>3. /\ pc \in {"poll", "loop", "decode", "mark", "execute"} => Extra = 0
      /\ pc \in {"copy", "fetch", "advance", "load", "store"} => Extra = 1
  BY DEF Extra
<1>4. pc \in {"decode", "mark", "execute"} => Done >= 1
  BY <1>1, <1>2, <1>3
<1>5. Done >= 1 => (line # <<>> => Len(pending) >= 2)
  BY <1>1
<1> QED
  BY <1>1, <1>2, <1>3, <1>4, <1>5, Zenon

\* The thread polls: getcmd is never above ErrCmd.
LEMMA PollInv ==
  ASSUME PeersFit, TypeInv, LinkInv, Poll
  PROVE  LinkInv' /\ pc' = "loop"
<1>1. /\ UNCHANGED <<ring, read_index, save_index, getcmd, status, lenth, checksum>>
      /\ UNCHANGED <<reg, cur, stored, peer, line, pending, want>>
      /\ pc = "poll" /\ pc' = IF getcmd > ErrCmd THEN "clear" ELSE "loop"
  BY DEF Poll, rx, isr, params, wire
<1>2. ~ (getcmd > ErrCmd)
  <2>1. /\ Done \in Nat /\ getcmd \in Nat
        /\ getcmd <= Done + Extra /\ Extra = 0 /\ Done <= Len(pending)
    BY <1>1, CountIsMore, DoneIs DEF LinkInv
  <2>2. Len(pending) <= peer.window /\ Len(pending) \in Nat
    BY TypesAre DEF LinkInv, QueueInv
  <2> QED
    BY <2>1, <2>2, BoundsAre
<1>3. pc' = "loop"
  BY <1>1, <1>2
<1>4. QueueInv' /\ LayInv' /\ LineInv'
  <2>1. Holding' = Holding
    BY <1>1, <1>3 DEF Holding
  <2> QED
    BY <1>1, <2>1, SameParts, Zenon DEF LinkInv
<1>5. CountInv'
  <2>1. getcmd <= Done + Extra /\ Extra = 0 /\ Extra' = 0 /\ Done' = Done
    BY <1>1, <1>3, CountIsMore DEF Extra, Done
  <2> QED
    BY <1>1, <1>3, <2>1 DEF CountInv
<1>6. CurInv' /\ StoreInv'
  BY <1>3 DEF CurInv, StoreInv, Holding
<1> QED
  BY <1>3, <1>4, <1>5, <1>6 DEF LinkInv

\* The loop takes a frame only if one is counted.
LEMMA LoopInv ==
  ASSUME TypeInv, LinkInv, Loop
  PROVE  LinkInv'
<1>1. /\ UNCHANGED <<ring, read_index, save_index, getcmd, status, lenth, checksum>>
      /\ UNCHANGED <<reg, cur, stored, peer, line, pending, want>>
      /\ pc = "loop" /\ pc' = IF getcmd = 0 THEN "poll" ELSE "decode"
  BY DEF Loop, rx, isr, params, wire
<1>2. pc' \in {"poll", "decode"}
  BY <1>1
<1>3. QueueInv' /\ LayInv' /\ LineInv'
  <2>1. Holding' = Holding
    BY <1>1, <1>2 DEF Holding
  <2> QED
    BY <1>1, <2>1, SameParts, Zenon DEF LinkInv
<1>4. CountInv'
  <2>1. getcmd <= Done + Extra /\ Extra = 0 /\ Extra' = 0 /\ Done' = Done /\ getcmd \in Nat
    BY <1>1, <1>2, CountIsMore DEF Extra, Done
  <2> QED
    BY <1>1, <1>2, <2>1 DEF CountInv
<1>5. CurInv' /\ StoreInv'
  BY <1>2 DEF CurInv, StoreInv, Holding
<1> QED
  BY <1>3, <1>4, <1>5 DEF LinkInv

\* The bytes at read_index are those of the first unreleased frame.
LEMMA FrontIs ==
  ASSUME TypeInv, NEW q \in Seq(Frames), q # <<>>, Laid(ring, read_index, save_index, line, q),
         Len(line) <= Len(Stream(Tail(q)))
  PROVE  /\ At(2) = Head(q).cmd /\ At(3) = 0 /\ At(4) = Len(Head(q).data)
         /\ \A i \in 1 .. Len(Head(q).data) : At(i + 5) = Head(q).data[i]
         /\ Len(Head(q).data) + 7 < RingSize
<1> PICK f, n, x : f = Head(q) /\ n = Len(f.data) /\ x = Bytes[f]
  OBVIOUS
<1>1. /\ Len(x) <= Amount(read_index, save_index)
      /\ \A i \in 1 .. Len(x) : ring[Cell(read_index, i)] = x[i]
  <2>1. read_index \in Cells /\ save_index \in Cells /\ line \in Seq(Byte)
    BY TypesAre
  <2> QED
    BY <2>1, LaidHead, Zenon
<1>2. f \in Frames
  BY HeadTailProperties
<1>3. /\ n \in Nat /\ Len(x) = n + 7 /\ x[3] = f.cmd /\ x[4] = 0 /\ x[5] = n
      /\ \A i \in 1 .. n : x[i + 6] = f.data[i]
  <2>1. /\ n \in Nat /\ n \in Byte /\ Len(x) = n + 7 /\ x[3] = f.cmd /\ x[4] = 0 /\ x[5] = n
        /\ \A i \in 1 .. n : x[i + 6] = f.data[i]
    BY <1>2, BytesIs, Zenon
  <2>2. n \in Nat
    BY <2>1
  <2> QED
    BY <2>1, <2>2, Zenon
<1>4. /\ At(2) = ring[Cell(read_index, 3)] /\ At(3) = ring[Cell(read_index, 4)]
      /\ At(4) = ring[Cell(read_index, 5)]
  BY DEF At, Cell
<1>5. At(2) = f.cmd /\ At(3) = 0 /\ At(4) = n
  <2>1. 3 \in 1 .. Len(x) /\ 4 \in 1 .. Len(x) /\ 5 \in 1 .. Len(x)
    BY <1>3, SMTT(60)
  <2> QED
    BY <1>1, <1>3, <1>4, <2>1, Zenon
<1>6. \A i \in 1 .. n : At(i + 5) = f.data[i]
  <2> SUFFICES ASSUME NEW i \in 1 .. n PROVE At(i + 5) = f.data[i]
    OBVIOUS
  <2> PICK j : j = i + 6
    OBVIOUS
  <2>1. j \in 1 .. Len(x) /\ j - 1 = i + 5
    BY <1>3
  <2>2. At(i + 5) = ring[Cell(read_index, j)]
    BY <2>1, Zenon DEF At, Cell
  <2> QED
    BY <1>1, <1>3, <2>1, <2>2, Zenon
<1>7. n + 7 < RingSize
  <2>1. Amount(read_index, save_index) \in 0 .. RingSize - 1
    BY TypesAre, AmountIs
  <2>2. RingSize \in Nat
    BY RingIs
  <2>3. n + 7 <= Amount(read_index, save_index)
    BY <1>1, <1>3, Zenon
  <2> QED
    BY <1>3, <2>1, <2>2, <2>3
<1> QED
  BY <1>5, <1>6, <1>7

\* The thread decodes: what it reads is the first frame sent.
LEMMA DecodeInv ==
  ASSUME TypeInv, LinkInv, Decode
  PROVE  LinkInv'
<1>1. /\ UNCHANGED <<ring, read_index, save_index, getcmd, status, lenth, checksum>>
      /\ UNCHANGED <<reg, stored, peer, line, pending, want>>
      /\ pc = "decode" /\ pc' \in {"mark", "execute"}
      /\ cur' = [cmd |-> At(2), len |-> At(3) * 256 + At(4)]
  BY DEF Decode, rx, isr, wire
<1>2. pending \in Seq(Frames) /\ pending # <<>> /\ (line # <<>> => Len(pending) >= 2)
  BY <1>1, CountIsMore, TypesAre
<1>3. Laid(ring, read_index, save_index, line, pending)
  <2>1. Unreleased = pending
    BY <1>1 DEF Unreleased
  <2> QED
    BY <2>1 DEF LinkInv, LayInv
<1>4. Len(line) <= Len(Stream(Tail(pending)))
  <2>1. Tail(pending) \in Seq(Frames)
    BY <1>2, HeadTailProperties, Zenon
  <2>2. line # <<>> => Tail(pending) # <<>> /\ Last(Tail(pending)) = Last(pending)
    BY <1>2, LastTail, Zenon
  <2> QED
    BY <2>1, <2>2, LineFits, Zenon DEF LinkInv
<1>5. cur' = Command(Head(pending))
  <2> PICK f, n : f = Head(pending) /\ n = Len(f.data)
    OBVIOUS
  <2>1. At(2) = f.cmd /\ At(3) = 0 /\ At(4) = n
    BY <1>2, <1>3, <1>4, FrontIs, Zenon
  <2>2. n \in Nat
    BY <1>2, HeadTailProperties, BytesIs
  <2>3. 0 * 256 + n = n
    BY <2>2
  <2>4. cur' = [cmd |-> f.cmd, len |-> n]
    BY <1>1, <2>1, <2>3, ZenonT(60)
  <2> QED
    BY <2>4 DEF Command
<1>6. QueueInv' /\ LayInv' /\ LineInv'
  <2>1. Holding' = Holding
    BY <1>1 DEF Holding
  <2> QED
    BY <1>1, <2>1, SameParts, Zenon DEF LinkInv
<1>7. CountInv'
  <2>1. getcmd <= Done + Extra /\ Extra = 0 /\ Extra' = 0 /\ Done' = Done /\ getcmd >= 1
    BY <1>1, CountIsMore DEF Extra, Done, LinkInv, CountInv
  <2> QED
    BY <1>1, <2>1 DEF CountInv
<1>8. CurInv' /\ StoreInv'
  <2>1. CurInv'
    BY <1>1, <1>5 DEF CurInv, Holding
  <2>2. StoreInv'
    BY <1>1 DEF StoreInv
  <2> QED
    BY <2>1, <2>2
<1> QED
  BY <1>6, <1>7, <1>8 DEF LinkInv

\* The command of a modification is noted.
LEMMA MarkInv ==
  ASSUME TypeInv, LinkInv, Mark
  PROVE  LinkInv'
<1>1. /\ UNCHANGED <<ring, read_index, save_index, getcmd, status, lenth, checksum>>
      /\ UNCHANGED <<reg, cur, stored, peer, line, pending, want>>
      /\ pc = "mark" /\ pc' = "execute"
  BY DEF Mark, rx, isr, wire
<1>2. QueueInv' /\ LayInv' /\ LineInv'
  <2>1. Holding' = Holding
    BY <1>1 DEF Holding
  <2> QED
    BY <1>1, <2>1, SameParts, Zenon DEF LinkInv
<1>3. CountInv'
  <2>1. getcmd <= Done + Extra /\ Extra = 0 /\ Extra' = 0 /\ Done' = Done /\ getcmd >= 1
    BY <1>1, CountIsMore DEF Extra, Done, LinkInv, CountInv
  <2> QED
    BY <1>1, <2>1 DEF CountInv
<1>4. CurInv' /\ StoreInv'
  <2>1. CurInv'
    BY <1>1 DEF LinkInv, CurInv, Holding
  <2>2. StoreInv'
    BY <1>1 DEF StoreInv
  <2> QED
    BY <2>1, <2>2
<1> QED
  BY <1>2, <1>3, <1>4 DEF LinkInv

\* A sequence without its last element.
LEMMA FrontBack ==
  ASSUME NEW S, NEW q \in Seq(S), q # <<>>
  PROVE  /\ Front(q) \in Seq(S) /\ Len(Front(q)) = Len(q) - 1
         /\ \A i \in 1 .. Len(q) - 1 : Front(q)[i] = q[i]
<1> PICK n : n = Len(q)
  OBVIOUS
<1>1. n \in Nat \ {0}
  BY EmptySeq, LenProperties
<1>2. Front(q) = [i \in 1 .. n - 1 |-> q[i]]
  BY <1>1 DEF Front
<1> QED
  BY <1>1, <1>2

\* The thread executes the frame: it was received completely.
LEMMA ExecuteInv ==
  ASSUME TypeInv, LinkInv, Execute
  PROVE  /\ LinkInv'
         /\ pending # <<>> /\ pending' = Tail(pending) /\ want' = Head(pending)
         /\ cur = Command(Head(pending)) /\ served' = cur
         /\ line' = line /\ (line # <<>> => Len(pending) >= 2)
<1>1. /\ UNCHANGED <<ring, read_index, save_index, getcmd, status, lenth, checksum>>
      /\ UNCHANGED <<reg, cur, stored, peer, line>>
      /\ pc = "execute" /\ pc' = IF IsSetter(cur.cmd) /\ cur.len = SetLen THEN "copy" ELSE "fetch"
      /\ served' = cur
  BY DEF Execute, rx, isr
<1>2. pc' \in {"copy", "fetch"}
  BY <1>1
<1>3. /\ pending \in Seq(peer.frames) /\ pending \in Seq(Frames) /\ pending # <<>>
      /\ Len(pending) \in Nat /\ Done \in Nat
      /\ (line # <<>> => Len(pending) >= 2)
  BY <1>1, CountIsMore, TypesAre
<1>4. Complete # <<>>
  <2>1. CASE line = <<>>
    BY <1>3, <2>1, Zenon DEF Complete
  <2>2. CASE line # <<>>
    <3>1. Front(pending) \in Seq(Frames) /\ Len(Front(pending)) = Len(pending) - 1
      BY <1>3, FrontBack, Zenon
    <3>2. Len(Front(pending)) # 0
      BY <1>3, <2>2, <3>1
    <3>3. Front(pending) # <<>>
      BY <3>1, <3>2, EmptySeq
    <3> QED
      BY <1>3, <2>2, <3>3, Zenon DEF Complete
  <2> QED
    BY <2>1, <2>2
<1>5. pending' = Tail(pending) /\ want' = Head(pending)
  BY <1>4, Zenon DEF Execute
<1>6. /\ Tail(pending) \in Seq(peer.frames) /\ Len(Tail(pending)) = Len(pending) - 1
      /\ Head(pending) \in peer.frames /\ pending = <<Head(pending)>> \o Tail(pending)
  <2>1. /\ Tail(pending) \in Seq(peer.frames) /\ Len(Tail(pending)) = Len(pending) - 1
        /\ Head(pending) \in peer.frames
    BY <1>3, HeadTailProperties
  <2>2. pending = <<Head(pending)>> \o Tail(pending)
    BY <1>3
  <2> QED
    BY <2>1, <2>2
<1>7. cur = Command(Head(pending))
  BY <1>1 DEF LinkInv, CurInv
<1>8. line # <<>> => pending' # <<>> /\ Last(pending') = Last(pending)
  BY <1>3, <1>5, LastTail, Zenon
<1>9. QueueInv'
  <2>1. Len(pending) <= peer.window /\ peer.window \in Nat
    BY TypesAre DEF LinkInv, QueueInv
  <2> QED
    BY <1>1, <1>3, <1>5, <1>6, <2>1 DEF QueueInv
<1>10. LayInv'
  <2>1. Unreleased = pending
    BY <1>1 DEF Unreleased
  <2>2. Unreleased' = <<want'>> \o pending'
    BY <1>2 DEF Unreleased
  <2> QED
    BY <1>1, <1>5, <1>6, <2>1, <2>2, Zenon DEF LinkInv, LayInv
<1>11. LineInv'
  BY <1>1, <1>8, Zenon DEF LinkInv, LineInv
<1>12. CountInv'
  <2>1. Done' = Done - 1
    <3>1. CASE line = <<>>
      <4>1. Done = Len(pending) /\ Done' = Len(pending')
        BY <1>1, <3>1, Zenon DEF Done
      <4> QED
        BY <1>3, <1>5, <1>6, <4>1
    <3>2. CASE line # <<>>
      <4>1. Done = Len(pending) - 1 /\ Done' = Len(pending') - 1
        BY <1>1, <3>2, Zenon DEF Done
      <4> QED
        BY <1>3, <1>5, <1>6, <4>1
    <3> QED
      BY <3>1, <3>2
  <2>2. getcmd <= Done + Extra /\ Extra = 0 /\ Extra' = 1 /\ getcmd >= 1 /\ getcmd \in Nat
    BY <1>1, <1>2, CountIsMore DEF Extra, LinkInv, CountInv
  <2> QED
    BY <1>1, <1>2, <1>3, <2>1, <2>2 DEF CountInv
<1>13. CurInv'
  <2>1. want' \in peer'.frames /\ cur' = Command(want')
    BY <1>1, <1>5, <1>6, <1>7, Zenon
  <2> QED
    BY <1>2, <2>1 DEF CurInv, Holding
<1>14. StoreInv'
  <2>1. ~ (pc' = "fetch" /\ IsSetter(cur'.cmd) /\ cur'.len = SetLen)
    BY <1>1
  <2> QED
    BY <2>1 DEF StoreInv
<1> QED
  BY <1>1, <1>3, <1>5, <1>7, <1>9, <1>10, <1>11, <1>12, <1>13, <1>14, Zenon DEF LinkInv

\* The frame executed is the first unreleased one.
LEMMA HoldingIs ==
  ASSUME TypeInv, LinkInv, Holding
  PROVE  /\ want \in Frames /\ cur = Command(want)
         /\ Unreleased = <<want>> \o pending
         /\ Unreleased \in Seq(Frames) /\ Unreleased # <<>>
         /\ Head(Unreleased) = want /\ Tail(Unreleased) = pending
         /\ Laid(ring, read_index, save_index, line, Unreleased)
         /\ Len(line) <= Len(Stream(Tail(Unreleased)))
<1>1. want \in peer.frames /\ cur = Command(want)
  BY Zenon DEF LinkInv, CurInv
<1>2. pending \in Seq(Frames) /\ want \in Frames
  BY <1>1, TypesAre
<1>3. Unreleased = <<want>> \o pending
  BY Zenon DEF Holding, Unreleased
<1>4. /\ Unreleased \in Seq(Frames) /\ Unreleased # <<>>
      /\ Head(Unreleased) = want /\ Tail(Unreleased) = pending
  BY <1>2, <1>3, HeadIs, ZenonT(60)
<1>5. Laid(ring, read_index, save_index, line, Unreleased)
  BY Zenon DEF LinkInv, LayInv
<1>6. Len(line) <= Len(Stream(pending))
  <2>1. line # <<>> => pending # <<>> /\ Last(pending) = Last(pending)
    BY Zenon DEF LinkInv, LineInv
  <2> QED
    BY <1>2, <2>1, LineFits, Zenon DEF LinkInv
<1> QED
  BY <1>1, <1>2, <1>3, <1>4, <1>5, <1>6, Zenon

\* Behind an index that leaves room for i bytes the cells go straight up.
LEMMA Straight ==
  ASSUME NEW M \in Nat, NEW r \in 0 .. M - 1, NEW i \in Nat \ {0}, i + 6 <= M,
         Fold(M, r + 6) + i <= M
  PROVE  /\ Fold(M, r + 6) + i - 1 \in 0 .. M - 1
         /\ Fold(M, r + 6) + i - 1 = IF r + (i + 6) <= M THEN r + (i + 6) - 1
                                                        ELSE r + (i + 6) - 1 - M
BY SMTT(60) DEF Fold

\* A setter copies its data: they are what was sent, unless they go around the end
\* of the ring.
LEMMA CopyInv ==
  ASSUME TypeInv, LinkInv, Copy
  PROVE  LinkInv'
<1> DEFINE Start == (read_index + 6) % RingSize
           Byt(i) == IF Start + i - 1 \in Cells THEN ring[Start + i - 1] ELSE -1
<1>1. /\ UNCHANGED <<ring, read_index, save_index, getcmd, status, lenth, checksum>>
      /\ UNCHANGED <<reg, cur, peer, line, pending, want>>
      /\ pc = "copy" /\ pc' = "fetch" /\ stored' = [i \in 1 .. cur.len |-> Byt(i)]
  BY DEF Copy, rx, isr, wire
<1> HIDE DEF Byt
<1>2. QueueInv' /\ LayInv' /\ LineInv'
  <2>1. Holding' = Holding
    BY <1>1 DEF Holding
  <2> QED
    BY <1>1, <2>1, SameParts, Zenon DEF LinkInv
<1>3. CountInv'
  <2>1. getcmd <= Done + Extra /\ Extra = 1 /\ Extra' = 1 /\ Done' = Done /\ getcmd >= 1
    BY <1>1, CountIsMore DEF Extra, Done, LinkInv, CountInv
  <2> QED
    BY <1>1, <2>1 DEF CountInv
<1>4. CurInv'
  BY <1>1 DEF LinkInv, CurInv, Holding
<1>5. StoreInv'
  <2> SUFFICES ASSUME Start + cur.len <= RingSize PROVE stored' = want.data
    BY <1>1 DEF StoreInv
  <2> PICK n, d : n = Len(want.data) /\ d = want.data
    OBVIOUS
  <2>1. Holding
    BY <1>1 DEF Holding
  <2>2. /\ want \in Frames /\ cur = Command(want)
        /\ \A i \in 1 .. n : At(i + 5) = d[i]
        /\ n + 7 < RingSize
    BY <2>1, HoldingIs, FrontIs, Zenon
  <2>3. cur.len = n
    BY <2>2 DEF Command
  <2>4. d \in Seq(Byte) /\ n \in Nat
    BY <2>2, BodyIs
  <2>5. /\ RingSize \in Nat /\ 6 \in 0 .. RingSize
        /\ read_index \in 0 .. RingSize - 1 /\ read_index \in Cells
    <3>1. RingSize \in Nat /\ read_index \in Cells
      BY RingIs, TypesAre
    <3>2. n + 7 < RingSize
      BY <2>2
    <3> QED
      BY <2>4, <3>1, <3>2 DEF Cells
  <2>6. Start = Fold(RingSize, read_index + 6) /\ Start \in Nat
    <3>1. Start = Fold(RingSize, read_index + 6) /\ Start \in Cells
      BY <2>5, MoveIs, Zenon DEF Move
    <3>2. Cells \subseteq Nat
      BY <2>5 DEF Cells
    <3> QED
      BY <3>1, <3>2
  <2> HIDE DEF Start
  <2>7. \A i \in 1 .. n : Byt(i) = d[i]
    <3> SUFFICES ASSUME NEW i \in 1 .. n PROVE Byt(i) = d[i]
      OBVIOUS
    <3> PICK j : j = i + 6
      OBVIOUS
    <3>1. i \in Nat \ {0} /\ i + 6 <= RingSize /\ Start + i <= RingSize /\ j \in 1 .. RingSize
      BY <2>2, <2>3, <2>4, <2>5, <2>6, SMTT(60)
    <3>2. Fold(RingSize, read_index + 6) + i <= RingSize
      BY <2>6, <3>1, Zenon
    <3>3. /\ Fold(RingSize, read_index + 6) + i - 1 \in 0 .. RingSize - 1
          /\ Fold(RingSize, read_index + 6) + i - 1 =
               IF read_index + (i + 6) <= RingSize THEN read_index + (i + 6) - 1
                                                   ELSE read_index + (i + 6) - 1 - RingSize
      BY <2>5, <3>1, <3>2, Straight
    <3>4. Cell(read_index, j) = IF read_index + j <= RingSize THEN read_index + j - 1
                                                   ELSE read_index + j - 1 - RingSize
      BY <2>5, <3>1, CellIs, Zenon
    <3>5. Start + i - 1 \in Cells /\ Cell(read_index, j) = Start + i - 1
      BY <2>6, <3>3, <3>4, Zenon DEF Cells
    <3>6. At(i + 5) = ring[Cell(read_index, j)]
      <4>1. j - 1 = i + 5
        BY <3>1
      <4> QED
        BY <4>1, Zenon DEF At, Cell
    <3> QED
      BY <2>2, <3>5, <3>6, Zenon DEF Byt
  <2>8. d = [i \in 1 .. n |-> d[i]]
    BY <2>4
  <2>9. stored' = [i \in 1 .. n |-> Byt(i)]
    BY <1>1, <2>3
  <2> QED
    BY <2>7, <2>8, <2>9
<1> QED
  BY <1>2, <1>3, <1>4, <1>5 DEF LinkInv

\* read_index is loaded,
LEMMA FetchInv ==
  ASSUME TypeInv, LinkInv, Fetch
  PROVE  LinkInv'
<1>1. /\ UNCHANGED <<ring, read_index, save_index, getcmd, status, lenth, checksum>>
      /\ UNCHANGED <<cur, stored, peer, line, pending, want>>
      /\ pc = "fetch" /\ pc' = "advance" /\ reg' = read_index
  BY DEF Fetch, rx, isr, params, wire
<1>2. QueueInv' /\ LayInv' /\ LineInv'
  <2>1. Holding' = Holding
    BY <1>1 DEF Holding
  <2> QED
    BY <1>1, <2>1, SameParts, Zenon DEF LinkInv
<1>3. CountInv'
  <2>1. getcmd <= Done + Extra /\ Extra = 1 /\ Extra' = 1 /\ Done' = Done /\ getcmd >= 1
    BY <1>1, CountIsMore DEF Extra, Done, LinkInv, CountInv
  <2> QED
    BY <1>1, <2>1 DEF CountInv
<1>4. CurInv' /\ StoreInv'
  <2>1. CurInv'
    BY <1>1 DEF LinkInv, CurInv, Holding
  <2>2. StoreInv'
    BY <1>1 DEF StoreInv
  <2> QED
    BY <2>1, <2>2
<1> QED
  BY <1>2, <1>3, <1>4 DEF LinkInv

\* and moved behind the frame: exactly to the next one,
LEMMA AdvanceInv ==
  ASSUME TypeInv, LinkInv, Advance
  PROVE  LinkInv'
<1>1. /\ UNCHANGED <<ring, save_index, getcmd, status, lenth, checksum>>
      /\ UNCHANGED <<reg, cur, stored, peer, line, pending, want>>
      /\ pc = "advance" /\ pc' = "load" /\ read_index' = (cur.len + reg + 7) % RingSize
  BY DEF Advance, isr, params, wire
<1>2. Holding
  BY <1>1 DEF Holding
<1>3. QueueInv' /\ LineInv'
  BY <1>1, SameParts, Zenon DEF LinkInv
<1>4. read_index' = (read_index + Len(Bytes[want])) % RingSize
  <2> PICK n, m : n = Len(want.data) /\ m = Len(Bytes[want])
    OBVIOUS
  <2>1. want \in Frames /\ cur = Command(want)
    BY <1>2, HoldingIs
  <2>2. m = n + 7 /\ n \in Nat
    BY <2>1, BytesIs
  <2>3. cur.len = n
    BY <2>1 DEF Command
  <2>4. reg = read_index
    BY <1>1 DEF LinkInv, CurInv
  <2>5. read_index \in Int
    BY TypesAre, RingIs DEF Cells
  <2>6. cur.len + reg + 7 = read_index + m
    BY <2>2, <2>3, <2>4, <2>5
  <2> QED
    BY <1>1, <2>6, Zenon
<1>5. LayInv'
  <2>1. read_index \in Cells /\ save_index \in Cells /\ line \in Seq(Byte)
    BY TypesAre
  <2>2. Laid(ring, (read_index + Len(Bytes[want])) % RingSize, save_index, line, pending)
    BY <1>2, <2>1, HoldingIs, LaidAdvance
  <2>3. Unreleased' = pending
    BY <1>1 DEF Unreleased
  <2> QED
    BY <1>1, <1>4, <2>2, <2>3, Zenon DEF LayInv
<1>6. CountInv'
  <2>1. getcmd <= Done + Extra /\ Extra = 1 /\ Extra' = 1 /\ Done' = Done /\ getcmd >= 1
    BY <1>1, CountIsMore DEF Extra, Done, LinkInv, CountInv
  <2> QED
    BY <1>1, <2>1 DEF CountInv
<1>7. CurInv' /\ StoreInv'
  BY <1>1 DEF CurInv, StoreInv, Holding
<1> QED
  BY <1>3, <1>5, <1>6, <1>7 DEF LinkInv

\* getcmd is loaded,
LEMMA LoadInv ==
  ASSUME TypeInv, LinkInv, Load
  PROVE  LinkInv'
<1>1. /\ UNCHANGED <<ring, read_index, save_index, getcmd, status, lenth, checksum>>
      /\ UNCHANGED <<cur, stored, peer, line, pending, want>>
      /\ pc = "load" /\ pc' = "store" /\ reg' = getcmd
  BY DEF Load, rx, isr, params, wire
<1>2. QueueInv' /\ LayInv' /\ LineInv'
  <2>1. Holding' = Holding
    BY <1>1 DEF Holding
  <2> QED
    BY <1>1, <2>1, SameParts, Zenon DEF LinkInv
<1>3. CountInv'
  <2>1. /\ getcmd <= Done + Extra /\ Extra = 1 /\ Extra' = 1 /\ Done' = Done
        /\ getcmd >= 1 /\ getcmd \in Nat /\ Done \in Nat
    BY <1>1, CountIsMore DEF Extra, Done, LinkInv, CountInv
  <2> QED
    BY <1>1, <2>1 DEF CountInv
<1>4. CurInv' /\ StoreInv'
  BY <1>1 DEF CurInv, StoreInv, Holding
<1> QED
  BY <1>2, <1>3, <1>4 DEF LinkInv

\* and stored one less: an increment of the handler in between is lost, which
\* never makes it count too much.
LEMMA StoreKeeps ==
  ASSUME PeersFit, TypeInv, LinkInv, Store
  PROVE  LinkInv' /\ getcmd' = reg - 1
<1>1. /\ UNCHANGED <<ring, read_index, save_index, status, lenth, checksum>>
      /\ UNCHANGED <<reg, cur, stored, peer, line, pending, want>>
      /\ pc = "store" /\ pc' = "loop" /\ getcmd' = (reg - 1) % GetcmdMax
  BY DEF Store, isr, params, wire
<1>2. QueueInv' /\ LayInv' /\ LineInv'
  <2>1. Holding' = Holding
    BY <1>1 DEF Holding
  <2> QED
    BY <1>1, <2>1, SameParts, Zenon DEF LinkInv
<1>3. getcmd' <= Done /\ getcmd' = reg - 1
  <2> PICK x : x = reg - 1
    OBVIOUS
  <2>1. reg \in Int
    BY CountIs, RingIs DEF TypeInv, RegType, Cells
  <2>2. x \in Nat /\ x <= Done
    BY <1>1, <2>1 DEF LinkInv, CountInv
  <2>3. Done <= Len(pending) /\ Len(pending) <= peer.window /\ Done \in Nat /\ Len(pending) \in Nat
    BY DoneIs, TypesAre DEF LinkInv, QueueInv
  <2>4. x < GetcmdMax /\ GetcmdMax \in Nat
    BY <2>2, <2>3, BoundsAre
  <2>5. x % GetcmdMax = x
    BY <2>2, <2>4
  <2> QED
    BY <1>1, <2>2, <2>5, Zenon
<1>4. CountInv'
  <2>1. Extra' = 0 /\ Done' = Done /\ Done \in Nat
    BY <1>1, CountIsMore DEF Extra, Done
  <2>2. Done + 0 = Done
    BY <2>1
  <2>3. getcmd' <= Done' + Extra'
    BY <1>3, <2>1, <2>2, Zenon
  <2> QED
    BY <1>1, <2>3 DEF CountInv
<1>5. CurInv' /\ StoreInv'
  BY <1>1 DEF CurInv, StoreInv, Holding
<1> QED
  BY <1>2, <1>3, <1>4, <1>5 DEF LinkInv

-----------------------------------------------------------------------------
(* Every step.                                                             *)

\* What is about none of these variables.
LEMMA StillInv ==
  ASSUME LinkInv,
         UNCHANGED <<rx, isr, pc, reg, cur, stored, peer, line, pending, want>>
  PROVE  LinkInv'
<1>1. /\ UNCHANGED <<ring, read_index, save_index, getcmd, status, lenth, checksum>>
      /\ UNCHANGED <<pc, reg, cur, stored, peer, line, pending, want>>
  BY DEF rx, isr
<1>2. Holding' = Holding
  BY <1>1 DEF Holding
<1> QED
  BY <1>1, <1>2, SameParts, Zenon DEF LinkInv

\* Every step of the thread keeps the invariant.
LEMMA ThreadInv ==
  ASSUME PeersFit, TypeInv, LinkInv, Thread
  PROVE  LinkInv'
<1>1. ~ Clear
  BY Zenon DEF Clear, LinkInv, CountInv
<1> QED
  BY <1>1, PollInv, LoopInv, DecodeInv, MarkInv, ExecuteInv, CopyInv, FetchInv, AdvanceInv,
     LoadInv, StoreKeeps, Zenon DEF Thread

\* An undamaged wire was undamaged before.
LEMMA UndamagedSteps ==
  ASSUME TypeInv, [Next]_vars, Undamaged'
  PROVE  Undamaged /\ ~ Damage /\ peer' = peer /\ quota'.damage = quota.damage
<1>1. CASE Damage
  <2>1. peer' = peer /\ quota'.damage = quota.damage - 1
    BY <1>1 DEF Damage
  <2>2. quota.damage \in Nat /\ quota.damage <= peer.damage /\ peer.damage \in Nat
    BY PeerFrames, TypesAre DEF TypeInv, QuotaType
  <2>3. quota'.damage # peer.damage
    BY <2>1, <2>2
  <2> QED
    BY <2>1, <2>3 DEF Undamaged
<1>2. CASE ~ Damage
  <2>1. peer' = peer /\ quota'.damage = quota.damage
    <3>1. CASE \E f \in peer.frames : Send(f)
      BY <3>1 DEF Send
    <3>2. CASE Receive
      BY <3>2 DEF Receive
    <3>3. CASE Thread
      <4>1. peer' = peer /\ quota' = quota
        BY <3>3 DEF Thread, Poll, Clear, Loop, Decode, Mark, Execute, Copy, Fetch, Advance, Load,
                    Store, wire
      <4> QED
        BY <4>1, Zenon
    <3>4. CASE ModifyHandle \/ VerificationOver \/ UNCHANGED vars
      <4>1. peer' = peer /\ quota' = quota
        BY <3>4 DEF ModifyHandle, VerificationOver, vars, wire
      <4> QED
        BY <4>1, Zenon
    <3> QED
      BY <1>2, <3>1, <3>2, <3>3, <3>4, Zenon DEF Next
  <2> QED
    BY <1>2, <2>1, Zenon DEF Undamaged
<1> QED
  BY <1>1, <1>2

\* Every step keeps the invariant.
LEMMA NextSafe ==
  ASSUME PeersFit, TypeInv, SafeInv, [Next]_vars
  PROVE  SafeInv'
<1> SUFFICES ASSUME Undamaged' PROVE LinkInv'
  BY DEF SafeInv
<1>1. Undamaged /\ ~ Damage
  BY UndamagedSteps
<1>2. LinkInv
  BY <1>1 DEF SafeInv
<1>3. ASSUME NEW f \in peer.frames, Send(f) PROVE LinkInv'
  BY <1>2, <1>3, SendInv
<1>4. CASE Receive
  BY <1>2, <1>4, ReceiveInv
<1>5. CASE Thread
  BY <1>2, <1>5, ThreadInv
<1>6. CASE ModifyHandle \/ VerificationOver \/ UNCHANGED vars
  <2>1. UNCHANGED <<rx, isr, pc, reg, cur, stored, peer, line, pending, want>>
    BY <1>6 DEF ModifyHandle, VerificationOver, vars, params, wire
  <2> QED
    BY <1>2, <2>1, StillInv
<1> QED
  BY <1>1, <1>3, <1>4, <1>5, <1>6, Zenon DEF Next

\* The invariant holds for any PC that sends no more than the ring holds.
LEMMA SafeAlways == ASSUME PeersFit PROVE Spec => [](TypeInv /\ SafeInv)
<1>1. Init => TypeInv /\ SafeInv
  BY InitTypes, InitSafe
<1>2. TypeInv /\ SafeInv /\ [Next]_vars => (TypeInv /\ SafeInv)'
  BY NextTypes, NextSafe
<1> QED
  BY <1>1, <1>2, PTL DEF Spec

-----------------------------------------------------------------------------
(* What the invariant gives.                                               *)

\* What the ring holds is a sequence of bytes, with the line behind it the frames.
LEMMA UnreadIs ==
  ASSUME TypeInv, LinkInv
  PROVE  Unread \o line = Stream(Unreleased)
<1> PICK a, x, z, w : a = Amount(read_index, save_index) /\ x = Unread /\ z = Stream(Unreleased)
                   /\ w = x \o line
  OBVIOUS
<1>1. ring \in [Cells -> Byte] /\ read_index \in Cells /\ save_index \in Cells /\ line \in Seq(Byte)
  BY TypesAre
<1>2. a \in 0 .. RingSize - 1 /\ RingSize \in Nat
  BY <1>1, AmountIs, RingIs
<1>3. x = [i \in 1 .. a |-> ring[Cell(read_index, i)]]
  BY DEF Unread, At, Cell, Amount
<1>4. a \in Nat /\ \A i \in 1 .. a : i \in 1 .. RingSize
  BY <1>2
<1>5. \A i \in 1 .. a : ring[Cell(read_index, i)] \in Byte
  BY <1>1, <1>4, CellIs
<1>6. x \in Seq(Byte) /\ Len(x) = a /\ \A i \in 1 .. a : x[i] = ring[Cell(read_index, i)]
  BY <1>3, <1>4, <1>5
<1>7. /\ a + Len(line) = Len(z)
      /\ \A i \in 1 .. a : ring[Cell(read_index, i)] = z[i]
      /\ \A i \in 1 .. Len(line) : line[i] = z[a + i]
  BY Zenon DEF LinkInv, LayInv, Laid
<1>8. /\ Len(line) \in Nat /\ Len(w) = a + Len(line)
      /\ \A i \in 1 .. a : w[i] = x[i]
      /\ \A i \in 1 .. Len(line) : w[a + i] = line[i]
  <2>1. Concat(x, line, w)
    BY <1>1, <1>6, ConcatAt, Zenon
  <2> QED
    BY <1>6, <2>1, Zenon DEF Concat
<1>9. \A i \in 1 .. Len(w) : w[i] = z[i]
  <2> SUFFICES ASSUME NEW i \in 1 .. Len(w) PROVE w[i] = z[i]
    OBVIOUS
  <2> PICK m : m = Len(line)
    OBVIOUS
  <2>1. i \in 1 .. a + m /\ m \in Nat
    BY <1>8
  <2>2. CASE i <= a
    <3>1. i \in 1 .. a
      BY <1>4, <2>1, <2>2
    <3> QED
      BY <1>6, <1>7, <1>8, <3>1, Zenon
  <2>3. CASE i > a
    <3> PICK j : j = i - a
      OBVIOUS
    <3>1. j \in 1 .. m /\ a + j = i
      BY <1>4, <2>1, <2>3, SMTT(60)
    <3>2. w[a + j] = line[j] /\ line[j] = z[a + j]
      BY <1>7, <1>8, <3>1, Zenon
    <3> QED
      BY <3>1, <3>2, Zenon
  <2> QED
    BY <1>4, <2>1, <2>2, <2>3
<1>10. w \in Seq(Byte) /\ z \in Seq(Byte) /\ Len(w) = Len(z)
  <2>1. w \in Seq(Byte)
    BY <1>1, <1>6, ConcatProperties, Zenon
  <2>2. Unreleased \in Seq(Frames)
    BY UnreleasedIs DEF LinkInv
  <2> QED
    BY <1>7, <1>8, <2>1, <2>2, StreamType, Zenon
<1>11. w = z
  BY <1>9, <1>10, SeqEqual, Zenon
<1> QED
  BY <1>11

\* Whatever the interleaving of the interrupt handler and the thread, for any ring and
\* any PCs that fit it, the ring holds exactly the frames not released, from read_index
\* on: the thread always decodes at a frame boundary (rt_hw_serial_isr,
\* rs232_handle_application).
THEOREM LinkAligned == ASSUME PeersFit PROVE Spec => []Aligned
<1>1. TypeInv /\ SafeInv => Aligned
  BY UnreadIs, Zenon DEF SafeInv, Aligned
<1> QED
  BY <1>1, SafeAlways, PTL

\* The complete frames are those received.
LEMMA CompleteIs ==
  ASSUME TypeInv, LinkInv
  PROVE  Len(Complete) = Done /\ Complete \in Seq(Frames)
<1>1. /\ pending \in Seq(Frames) /\ Len(pending) \in Nat
      /\ line = <<>> => Done = Len(pending)
      /\ line # <<>> => Done = Len(pending) - 1 /\ pending # <<>>
  BY TypesAre DEF LinkInv, LineInv, Done
<1>2. pending # <<>> => Front(pending) \in Seq(Frames) /\ Len(Front(pending)) = Len(pending) - 1
  BY <1>1, FrontBack, Zenon
<1> QED
  BY <1>1, <1>2, Zenon DEF Complete

\* getcmd never promises more frames than are complete, although `getcmd--' races with
\* the increment of the interrupt handler (rs232_handle_application).
THEOREM LinkCounts == ASSUME PeersFit PROVE Spec => []NeverOverDispatch
<1>1. TypeInv /\ SafeInv => NeverOverDispatch
  <2> SUFFICES ASSUME TypeInv, SafeInv, Undamaged
               PROVE  getcmd <= Len(Complete) + Extra
    BY Zenon DEF NeverOverDispatch, Extra
  <2>1. getcmd <= Done + Extra
    BY DEF SafeInv, LinkInv, CountInv
  <2> QED
    BY <2>1, CompleteIs, Zenon DEF SafeInv
<1> QED
  BY <1>1, SafeAlways, PTL

\* No frame without damage is taken for a bad one: getcmd stays below 0x7f, which would
\* stand for one (rt_hw_serial_isr).
THEOREM LinkNoFalseError == ASSUME PeersFit PROVE Spec => []NoFalseError
<1>1. TypeInv /\ SafeInv => NoFalseError
  <2> SUFFICES ASSUME TypeInv, SafeInv, Undamaged PROVE getcmd < ErrCmd
    BY DEF NoFalseError
  <2>1. LinkInv
    BY DEF SafeInv
  <2>2. getcmd <= Done + Extra /\ Extra \in 0 .. 1 /\ Done \in Nat /\ getcmd \in Nat
    BY <2>1, CountIsMore DEF Extra
  <2>3. Done <= Len(pending) /\ Len(pending) <= peer.window /\ Len(pending) \in Nat
    BY <2>1, DoneIs, TypesAre DEF LinkInv, QueueInv
  <2> QED
    BY <2>2, <2>3, BoundsAre
<1> QED
  BY <1>1, SafeAlways, PTL

\* A setter whose data does not go around the end of the ring stores what was sent,
\* whatever arrives before it copies (Set_Installtime and its like).
THEOREM LinkStores == ASSUME PeersFit PROVE Spec => []StoresWhatWasSent
<1>1. TypeInv /\ SafeInv => StoresWhatWasSent
  BY DEF SafeInv, LinkInv, StoreInv, StoresWhatWasSent
<1> QED
  BY <1>1, SafeAlways, PTL

-----------------------------------------------------------------------------
(* What is left when the link is quiet.                                    *)

\* getcmd and the increments lost count the frames received exactly. Between the load
\* and the store getcmd only grows: by the increments the store undoes.
ExactInv ==
  Undamaged => /\ overtaken \in Nat /\ getcmd + overtaken = Done + Extra
               /\ pc = "store" => getcmd >= reg

\* It stays so in every step.
LEMMA ExactStep ==
  ASSUME PeersFit, TypeInv, SafeInv, ExactInv, [Next]_vars
  PROVE  ExactInv'
<1> SUFFICES ASSUME Undamaged'
             PROVE  /\ overtaken' \in Nat /\ getcmd' + overtaken' = Done' + Extra'
                    /\ pc' = "store" => getcmd' >= reg'
  BY Zenon DEF ExactInv
<1>1. Undamaged /\ ~ Damage /\ LinkInv
  BY UndamagedSteps DEF SafeInv
<1>2. /\ overtaken \in Nat /\ getcmd + overtaken = Done + Extra
      /\ pc = "store" => getcmd >= reg
  BY <1>1, Zenon DEF ExactInv
<1>3. /\ Done \in Nat /\ getcmd \in Nat /\ Extra \in 0 .. 1
      /\ pc = "store" => reg \in Int
  BY <1>1, CountIsMore, RingIs, CountIs DEF Extra, TypeInv, RegType, Cells
<1>4. ASSUME NEW f \in peer.frames, Send(f)
      PROVE  Done' = Done /\ UNCHANGED <<pc, reg, getcmd, overtaken>>
  <2>1. /\ line = <<>> /\ line' = Bytes[f] /\ pending' = Append(pending, f)
        /\ UNCHANGED <<pc, reg, getcmd, overtaken>>
    BY <1>4 DEF Send, rx
  <2>2. Bytes[f] # <<>> /\ pending \in Seq(peer.frames) /\ Len(pending) \in Nat
    BY TypesAre, BytesFit
  <2>3. Len(pending') = Len(pending) + 1
    BY <2>1, <2>2, AppendProperties
  <2>4. Done = Len(pending) /\ Done' = Len(pending') - 1
    BY <2>1, <2>2, Zenon DEF Done
  <2> QED
    BY <2>1, <2>2, <2>3, <2>4
<1>5. CASE Receive
  <2>1. /\ UNCHANGED <<pc, reg, overtaken, pending>> /\ line # <<>>
        /\ (line' # <<>> => getcmd' = getcmd) /\ (line' = <<>> => getcmd' = getcmd + 1)
    BY <1>1, <1>5, ReceiveInv DEF Receive
  <2>2. Done = Len(pending) - 1 /\ Done' = IF line' = <<>> THEN Len(pending) ELSE Len(pending) - 1
    BY <2>1, Zenon DEF Done
  <2>3. Len(pending) \in Nat /\ Extra' = Extra
    BY <2>1, TypesAre DEF Extra
  <2> QED
    BY <1>2, <1>3, <2>1, <2>2, <2>3
<1>6. CASE Execute
  <2>1. /\ line' = line /\ pending' = Tail(pending) /\ pending # <<>> /\ pc = "execute"
        /\ pc' \in {"copy", "fetch"} /\ UNCHANGED <<getcmd, overtaken>>
    BY <1>1, <1>6, ExecuteInv DEF Execute, rx
  <2>2. Len(pending') = Len(pending) - 1 /\ Len(pending) \in Nat
    BY <2>1, TypesAre, HeadTailProperties
  <2>3. Done' = Done - 1
    BY <2>1, <2>2 DEF Done
  <2>4. Extra = 0 /\ Extra' = 1
    BY <2>1 DEF Extra
  <2> QED
    BY <1>2, <1>3, <2>1, <2>3, <2>4
<1>7. CASE Store
  <2>1. /\ getcmd' = reg - 1 /\ overtaken' = overtaken + (getcmd - reg)
        /\ pc = "store" /\ pc' = "loop" /\ line' = line /\ pending' = pending
    BY <1>1, <1>7, StoreKeeps DEF Store, Overtaken
  <2>2. Done' = Done /\ Extra = 1 /\ Extra' = 0
    BY <2>1 DEF Done, Extra
  <2> QED
    BY <1>2, <1>3, <2>1, <2>2
<1>8. CASE Load
  <2>1. /\ UNCHANGED <<getcmd, line, pending, overtaken>>
        /\ pc = "load" /\ pc' = "store" /\ reg' = getcmd
    BY <1>8 DEF Load, rx, wire
  <2>2. Done' = Done /\ Extra' = Extra
    BY <2>1 DEF Done, Extra
  <2> QED
    BY <1>2, <1>3, <2>1, <2>2
<1>9. CASE Poll \/ Loop \/ Decode \/ Mark \/ Copy \/ Fetch \/ Advance
  <2>1. /\ UNCHANGED <<getcmd, line, pending, overtaken>> /\ pc' # "store"
        /\ Extra' = Extra
    <3>1. CASE Poll
      BY <1>1, <3>1, PollInv DEF Poll, rx, wire, Extra
    <3>2. CASE Loop \/ Decode \/ Mark
      BY <3>2 DEF Loop, Decode, Mark, rx, wire, Extra
    <3>3. CASE Copy \/ Fetch \/ Advance
      BY <3>3 DEF Copy, Fetch, Advance, rx, wire, Extra
    <3> QED
      BY <1>9, <3>1, <3>2, <3>3
  <2>2. Done' = Done
    BY <2>1 DEF Done
  <2> QED
    BY <1>2, <2>1, <2>2
<1>10. CASE Clear
  BY <1>1, <1>10, Zenon DEF Clear, LinkInv, CountInv
<1>11. CASE ModifyHandle \/ VerificationOver \/ UNCHANGED vars
  <2>1. UNCHANGED <<pc, reg, line, pending, getcmd, overtaken>>
    BY <1>11 DEF ModifyHandle, VerificationOver, vars, rx, wire
  <2>2. Done' = Done /\ Extra' = Extra
    BY <2>1 DEF Done, Extra
  <2> QED
    BY <1>2, <2>1, <2>2
<1>12. ASSUME NEW f \in peer.frames, Send(f)
       PROVE  /\ overtaken' \in Nat /\ getcmd' + overtaken' = Done' + Extra'
              /\ pc' = "store" => getcmd' >= reg'
  <2>1. Done' = Done /\ UNCHANGED <<pc, reg, getcmd, overtaken>>
    BY <1>4, <1>12
  <2>2. Extra' = Extra
    BY <2>1 DEF Extra
  <2> QED
    BY <1>2, <2>1, <2>2
<1> QED
  BY <1>1, <1>5, <1>6, <1>7, <1>8, <1>9, <1>10, <1>11, <1>12, Zenon DEF Next, Thread

\* A patient PC has at most one frame under way, the thread is where the frame is, and
\* no frame comes between the load and the store.
PatientInv ==
  peer.patient /\ Undamaged =>
    /\ line # <<>> => pc \in {"poll", "loop"} /\ getcmd = 0 /\ Len(pending) = 1
    /\ line = <<>> /\ pending # <<>> =>
         /\ pc \in {"poll", "loop", "decode", "mark", "execute"} /\ getcmd = 1 /\ Len(pending) = 1
    /\ overtaken = 0 /\ (pc = "store" => reg = getcmd)

\* It stays so in every step.
LEMMA PatientStep ==
  ASSUME PeersFit, TypeInv, SafeInv, PatientInv, [Next]_vars
  PROVE  PatientInv'
<1> SUFFICES ASSUME peer'.patient, Undamaged'
             PROVE /\ line' # <<>> => pc' \in {"poll", "loop"} /\ getcmd' = 0 /\ Len(pending') = 1
                   /\ line' = <<>> /\ pending' # <<>> =>
                       /\ pc' \in {"poll", "loop", "decode", "mark", "execute"} /\ getcmd' = 1
                       /\ Len(pending') = 1
                   /\ overtaken' = 0 /\ (pc' = "store" => reg' = getcmd')
  BY Zenon DEF PatientInv
<1>1. Undamaged /\ ~ Damage /\ peer.patient /\ LinkInv
  BY UndamagedSteps DEF SafeInv
<1>2. /\ line # <<>> => pc \in {"poll", "loop"} /\ getcmd = 0 /\ Len(pending) = 1
      /\ line = <<>> /\ pending # <<>> =>
           /\ pc \in {"poll", "loop", "decode", "mark", "execute"} /\ getcmd = 1 /\ Len(pending) = 1
      /\ overtaken = 0 /\ (pc = "store" => reg = getcmd)
  BY <1>1, Zenon DEF PatientInv
<1>3. ASSUME NEW f \in peer.frames, Send(f)
      PROVE  /\ line' # <<>> /\ pc' \in {"poll", "loop"} /\ getcmd' = 0 /\ Len(pending') = 1
             /\ overtaken' = 0 /\ (pc' = "store" => reg' = getcmd')
  <2>1. line = <<>> /\ pc = "poll" /\ getcmd = 0
    BY <1>1, <1>3, Zenon DEF Send, Quiet
  <2>2. pending = <<>>
    BY <1>2, <2>1
  <2>3. /\ pc' = pc /\ getcmd' = getcmd /\ line' = Bytes[f] /\ pending' = Append(pending, f)
        /\ overtaken' = overtaken
    BY <1>3 DEF Send, rx
  <2>4. Bytes[f] # <<>>
    BY TypesAre, BytesFit
  <2>5. Len(pending') = 1
    BY <2>2, <2>3
  <2> QED
    BY <1>2, <2>1, <2>3, <2>4, <2>5
<1>4. CASE Receive
  <2>1. /\ line # <<>> /\ pc' = pc /\ pending' = pending /\ overtaken' = overtaken
        /\ (line' # <<>> => getcmd' = getcmd) /\ (line' = <<>> => getcmd' = getcmd + 1)
    BY <1>1, <1>4, ReceiveInv DEF Receive
  <2> QED
    BY <1>2, <2>1
<1>5. CASE Poll
  <2>1. /\ pc' = "loop" /\ line' = line /\ pending' = pending /\ getcmd' = getcmd
        /\ overtaken' = overtaken
    BY <1>1, <1>5, PollInv DEF Poll, rx, wire
  <2> QED
    BY <1>2, <1>5, <2>1 DEF Poll
<1>6. CASE Loop
  <2>1. /\ pc = "loop" /\ pc' = (IF getcmd = 0 THEN "poll" ELSE "decode")
        /\ line' = line /\ pending' = pending /\ getcmd' = getcmd /\ overtaken' = overtaken
    BY <1>6 DEF Loop, rx, wire
  <2> QED
    BY <1>2, <2>1
<1>7. CASE Decode \/ Mark
  <2>1. /\ pc \in {"decode", "mark"} /\ pc' \in {"mark", "execute"}
        /\ line' = line /\ pending' = pending /\ getcmd' = getcmd /\ overtaken' = overtaken
    BY <1>7 DEF Decode, Mark, rx, wire
  <2> QED
    BY <1>2, <2>1
<1>8. CASE Execute
  <2>1. /\ pc = "execute" /\ pending # <<>> /\ pending' = Tail(pending) /\ line' = line
        /\ overtaken' = overtaken /\ pc' \in {"copy", "fetch"}
    BY <1>1, <1>8, ExecuteInv DEF Execute
  <2>2. line = <<>> /\ Len(pending) = 1
    BY <1>2, <2>1
  <2>3. pending' = <<>>
    <3>1. Len(Tail(pending)) = 0 /\ Tail(pending) \in Seq(Frames)
      BY <2>1, <2>2, TypesAre, HeadTailProperties
    <3> QED
      BY <2>1, <3>1, EmptySeq
  <2> QED
    BY <1>2, <2>1, <2>2, <2>3
<1>9. CASE Copy \/ Fetch \/ Advance \/ Load \/ Store
  <2>1. /\ pc \in {"copy", "fetch", "advance", "load", "store"}
        /\ line' = line /\ pending' = pending
    BY <1>9 DEF Copy, Fetch, Advance, Load, Store, wire
  <2>2. overtaken' = 0
    <3>1. CASE Store
      <4>1. pc = "store" /\ overtaken' = overtaken + (getcmd - reg)
        BY <1>1, <3>1 DEF Store, Overtaken
      <4>2. getcmd \in Nat
        BY TypesAre
      <4> QED
        BY <1>2, <4>1, <4>2
    <3>2. CASE Copy \/ Fetch \/ Advance \/ Load
      BY <1>2, <3>2 DEF Copy, Fetch, Advance, Load, wire
    <3> QED
      BY <1>9, <3>1, <3>2
  <2>3. pc' = "store" => reg' = getcmd'
    BY <1>9 DEF Copy, Fetch, Advance, Load, Store, rx
  <2> QED
    BY <1>2, <2>1, <2>2, <2>3
<1>10. CASE Clear
  BY <1>1, <1>10, Zenon DEF Clear, LinkInv, CountInv
<1>11. CASE ModifyHandle \/ VerificationOver \/ UNCHANGED vars
  <2>1. UNCHANGED <<pc, line, pending, getcmd, reg, overtaken>>
    BY <1>11 DEF ModifyHandle, VerificationOver, vars, rx, wire
  <2> QED
    BY <1>2, <2>1
<1> QED
  BY <1>1, <1>3, <1>4, <1>5, <1>6, <1>7, <1>8, <1>9, <1>10, <1>11, Zenon DEF Next, Thread

\* When the link is quiet, every frame sent was executed but one for each increment
\* of getcmd that came between the load and the store of its decrement and was lost:
\* the race costs exactly these, and none to a PC that sends only when the thread polls
\* (rs232_handle_application against rt_hw_serial_isr).
THEOREM LinkServes == ASSUME PeersFit PROVE Spec => []QuietMeansServed
<1>1. Init => PatientInv /\ ExactInv
  BY InitTypes, EmptySeq DEF Init, PatientInv, ExactInv, Done, Extra
<1>2. TypeInv /\ SafeInv /\ PatientInv /\ ExactInv /\ [Next]_vars => PatientInv' /\ ExactInv'
  BY PatientStep, ExactStep
<1>3. TypeInv /\ SafeInv /\ PatientInv /\ ExactInv => QuietMeansServed
  <2> SUFFICES ASSUME TypeInv, SafeInv, PatientInv, ExactInv, Quiet, Undamaged
               PROVE  Len(pending) = overtaken /\ (peer.patient => overtaken = 0)
    BY DEF QuietMeansServed
  <2>1. Done = Len(pending) /\ Extra = 0 /\ getcmd = 0
    BY DEF Quiet, Done, Extra
  <2>2. overtaken \in Nat /\ getcmd + overtaken = Done + Extra /\ Len(pending) \in Nat
    BY TypesAre DEF ExactInv
  <2>3. peer.patient => overtaken = 0
    BY DEF PatientInv
  <2> QED
    BY <2>1, <2>2, <2>3
<1> QED
  BY <1>1, <1>2, <1>3, SafeAlways, PTL DEF Spec

-----------------------------------------------------------------------------
(* The queue of commands.                                                  *)

\* The commands of frames.
QueueOf(q) == [i \in DOMAIN q |-> Command(q[i])]

\* They form a queue as the frames do.
LEMMA QueueOfIs ==
  /\ QueueOf(<<>>) = <<>>
  /\ \A q \in Seq(Frames), f \in Frames : QueueOf(Append(q, f)) = Append(QueueOf(q), Command(f))
  /\ \A q \in Seq(Frames) : q # <<>> =>
       /\ QueueOf(q) # <<>> /\ Head(QueueOf(q)) = Command(Head(q))
       /\ Tail(QueueOf(q)) = QueueOf(Tail(q))
<1>1. QueueOf(<<>>) = <<>>
  BY DEF QueueOf
<1>2. ASSUME NEW q \in Seq(Frames), NEW f \in Frames
      PROVE  QueueOf(Append(q, f)) = Append(QueueOf(q), Command(f))
  BY DEF QueueOf
<1>3. ASSUME NEW q \in Seq(Frames), q # <<>>
      PROVE  /\ QueueOf(q) # <<>> /\ Head(QueueOf(q)) = Command(Head(q))
             /\ Tail(QueueOf(q)) = QueueOf(Tail(q))
  BY <1>3 DEF QueueOf
<1> QED
  BY <1>1, <1>2, <1>3

\* A sequence is its front and its last element.
LEMMA FrontLast ==
  ASSUME NEW S, NEW q \in Seq(S), q # <<>>
  PROVE  Append(Front(q), Last(q)) = q
<1> PICK n, x, y : n = Len(q) /\ x = Front(q) /\ y = Last(q)
  OBVIOUS
<1>1. n \in Nat \ {0}
  BY EmptySeq, LenProperties
<1>2. x \in Seq(S) /\ Len(x) = n - 1 /\ \A i \in 1 .. n - 1 : x[i] = q[i]
  BY FrontBack, Zenon
<1>3. y = q[n] /\ y \in S
  BY <1>1 DEF Last
<1>4. Append(x, y) \in Seq(S) /\ Len(Append(x, y)) = n
  BY <1>1, <1>2, <1>3, AppendProperties
<1>5. \A i \in 1 .. n : Append(x, y)[i] = q[i]
  BY <1>1, <1>2, <1>3
<1> QED
  BY <1>4, <1>5, SeqEqual

\* The front of a longer sequence.
LEMMA FrontAppend ==
  ASSUME NEW S, NEW q \in Seq(S), NEW f \in S
  PROVE  Front(Append(q, f)) = q
BY DEF Front

\* Front and tail, in either order.
LEMMA FrontTail ==
  ASSUME NEW S, NEW q \in Seq(S), Len(q) >= 2
  PROVE  /\ Front(q) # <<>> /\ Head(Front(q)) = Head(q) /\ Tail(Front(q)) = Front(Tail(q))
         /\ Tail(q) # <<>>
<1> PICK n, x, t : n = Len(q) /\ x = Front(q) /\ t = Tail(q)
  OBVIOUS
<1>1. n \in Nat /\ n >= 2 /\ q # <<>>
  BY LenProperties, EmptySeq
<1>2. x \in Seq(S) /\ Len(x) = n - 1 /\ \A i \in 1 .. n - 1 : x[i] = q[i]
  BY <1>1, FrontBack, Zenon
<1>3. t \in Seq(S) /\ Len(t) = n - 1 /\ \A i \in 1 .. n - 1 : t[i] = q[i + 1]
  BY <1>1, HeadTailProperties
<1>4. x # <<>> /\ t # <<>>
  <2>1. n - 1 # 0
    BY <1>1
  <2> QED
    BY <1>2, <1>3, <2>1, EmptySeq
<1>5. Head(x) = Head(q)
  <2>1. 1 \in 1 .. n - 1
    BY <1>1
  <2>2. Head(x) = x[1] /\ Head(q) = q[1]
    BY <1>1, <1>2, <1>4, HeadTailProperties
  <2> QED
    BY <1>2, <2>1, <2>2, Zenon
<1>6. Tail(x) = Front(t)
  <2> PICK u, v : u = Tail(x) /\ v = Front(t)
    OBVIOUS
  <2>1. /\ u \in Seq(S) /\ Len(u) = (n - 1) - 1 /\ \A i \in 1 .. (n - 1) - 1 : u[i] = x[i + 1]
    BY <1>1, <1>2, <1>4, HeadTailProperties
  <2>2. /\ v \in Seq(S) /\ Len(v) = (n - 1) - 1 /\ \A i \in 1 .. (n - 1) - 1 : v[i] = t[i]
    <3>1. /\ v \in Seq(S) /\ Len(v) = Len(t) - 1
          /\ \A i \in 1 .. Len(t) - 1 : v[i] = t[i]
      BY <1>3, <1>4, FrontBack, Zenon
    <3> QED
      BY <1>3, <3>1
  <2>3. \A i \in 1 .. (n - 1) - 1 : u[i] = v[i]
    <3> SUFFICES ASSUME NEW i \in 1 .. (n - 1) - 1 PROVE u[i] = v[i]
      OBVIOUS
    <3> PICK j : j = i + 1
      OBVIOUS
    <3>1. j \in 1 .. n - 1 /\ i \in 1 .. n - 1
      BY <1>1
    <3>2. u[i] = x[j] /\ x[j] = q[j] /\ v[i] = t[i] /\ t[i] = q[j]
      BY <1>2, <1>3, <2>1, <2>2, <3>1, Zenon
    <3> QED
      BY <3>2
  <2>4. Len(u) = Len(v) /\ \A i \in 1 .. Len(u) : u[i] = v[i]
    BY <2>1, <2>2, <2>3, Zenon
  <2> QED
    BY <2>1, <2>2, <2>4, SeqEqual, Zenon
<1> QED
  BY <1>4, <1>5, <1>6

\* The queue of the abstract specification,
Mapped  == IF Safe THEN QueueOf(Complete) ELSE <<>>
\* and what it executed last.
Ran     == IF Safe THEN served ELSE <<>>

\* The steps of the abstract queue, said of these two.
LEMMA QueueIs ==
  /\ Mapped' = Mapped /\ Ran' = Ran => UNCHANGED Queue!vars
  /\ (\E f \in Frames : Mapped' = Append(Mapped, Command(f)) /\ Ran' = Ran) => Queue!Arrive
  /\ Mapped # <<>> /\ Ran' = Head(Mapped) /\ Mapped' = Tail(Mapped) => Queue!Execute
  /\ Mapped = <<>> /\ Ran = <<>> => Queue!Init
BY DEF Queue!vars, Queue!Arrive, Queue!Execute, Queue!Init, Mapped, Ran, QueueOf

\* The PC stays.
LEMMA PeerSame == [Next]_vars => peer' = peer
BY DEF Next, Send, Damage, Receive, Thread, Poll, Clear, Loop, Decode, Mark, Execute, Copy, Fetch,
       Advance, Load, Store, ModifyHandle, VerificationOver, vars, wire

\* Every step of the link is a step of the queue or none: the last byte of a frame
\* is its arrival, Execute its execution.
LEMMA QueueStep ==
  ASSUME PeersFit, TypeInv, SafeInv, TypeInv', [Next]_vars
  PROVE  [Queue!Next]_Queue!vars
<1>1. peer' = peer /\ Safe' = Safe
  BY PeerSame DEF Safe
<1>2. CASE ~ Safe
  <2>1. Mapped' = Mapped /\ Ran' = Ran
    BY <1>1, <1>2, Zenon DEF Mapped, Ran
  <2> QED
    BY <2>1, QueueIs
<1>3. CASE Safe
  <2>1. Undamaged'
    <3>1. quota'.damage \in Nat /\ quota'.damage <= peer'.damage /\ peer'.damage = 0
      BY <1>1, <1>3 DEF TypeInv, QuotaType, Safe
    <3> QED
      BY <3>1 DEF Undamaged
  <2>2. Undamaged /\ ~ Damage /\ LinkInv
    BY <2>1, UndamagedSteps DEF SafeInv
  <2>3. Mapped = QueueOf(Complete) /\ Mapped' = QueueOf(Complete') /\ Ran = served /\ Ran' = served'
    BY <1>1, <1>3, Zenon DEF Mapped, Ran
  <2>4. /\ pending \in Seq(Frames) /\ Len(pending) \in Nat /\ peer.frames \subseteq Frames
        /\ (line # <<>> => pending # <<>>)
    BY <2>2, TypesAre DEF LinkInv, LineInv
  <2>5. ASSUME Complete' = Complete, served' = served PROVE UNCHANGED Queue!vars
    BY <2>3, <2>5, QueueIs, Zenon
  <2>6. ASSUME NEW f \in peer.frames, Send(f) PROVE Complete' = Complete /\ served' = served
    <3>1. line = <<>> /\ line' = Bytes[f] /\ pending' = Append(pending, f) /\ served' = served
      BY <2>6 DEF Send, params
    <3>2. Bytes[f] # <<>>
      BY <2>4, BytesFit
    <3>3. Append(pending, f) # <<>> /\ Front(Append(pending, f)) = pending
      BY <2>4, AppendIs, FrontAppend, Zenon
    <3> QED
      BY <3>1, <3>2, <3>3, Zenon DEF Complete
  <2>7. CASE Receive
    <3>1. line # <<>> /\ pending' = pending /\ served' = served
      BY <2>7 DEF Receive, params
    <3>2. Complete = Front(pending) /\ pending # <<>>
      BY <2>4, <3>1, Zenon DEF Complete
    <3>3. CASE line' # <<>>
      <4>1. Complete' = Complete
        BY <3>1, <3>2, <3>3, Zenon DEF Complete
      <4> QED
        BY <2>5, <3>1, <4>1
    <3>4. CASE line' = <<>>
      <4>1. Complete' = pending
        BY <3>1, <3>4, Zenon DEF Complete
      <4>2. pending = Append(Complete, Last(pending)) /\ Complete \in Seq(Frames)
        BY <2>4, <3>2, FrontLast, FrontBack, Zenon
      <4>3. Last(pending) \in Frames
        <5>1. Len(pending) \in 1 .. Len(pending)
          BY <2>4, <3>2, EmptySeq
        <5> QED
          BY <2>4, <5>1, ElementOfSeq, Zenon DEF Last
      <4>4. Mapped' = Append(Mapped, Command(Last(pending)))
        BY <2>3, <4>1, <4>2, <4>3, QueueOfIs, Zenon
      <4>5. Queue!Arrive
        BY <2>3, <3>1, <4>3, <4>4, QueueIs, Zenon
      <4> QED
        BY <4>5 DEF Queue!Next
    <3> QED
      BY <3>3, <3>4
  <2>8. CASE Execute
    <3>1. /\ pending # <<>> /\ pending' = Tail(pending) /\ served' = Command(Head(pending))
          /\ line' = line /\ (line # <<>> => Len(pending) >= 2)
      BY <2>2, <2>8, ExecuteInv, Zenon
    <3>2. /\ Complete # <<>> /\ Head(Complete) = Head(pending) /\ Complete' = Tail(Complete)
          /\ Complete \in Seq(Frames)
      <4>1. CASE line = <<>>
        BY <2>4, <3>1, <4>1, Zenon DEF Complete
      <4>2. CASE line # <<>>
        <5>1. /\ Front(pending) # <<>> /\ Head(Front(pending)) = Head(pending)
              /\ Tail(Front(pending)) = Front(Tail(pending)) /\ Tail(pending) # <<>>
              /\ Front(pending) \in Seq(Frames)
          BY <2>4, <3>1, <4>2, FrontTail, FrontBack, Zenon
        <5> QED
          BY <3>1, <4>2, <5>1, Zenon DEF Complete
      <4> QED
        BY <4>1, <4>2
    <3>3. Mapped # <<>> /\ Ran' = Head(Mapped) /\ Mapped' = Tail(Mapped)
      BY <2>3, <3>1, <3>2, QueueOfIs, Zenon
    <3>4. Queue!Execute
      BY <3>3, QueueIs, Zenon
    <3> QED
      BY <3>4 DEF Queue!Next
  <2>9. CASE Poll \/ Clear \/ Loop \/ Decode \/ Mark \/ Copy \/ Fetch \/ Advance \/ Load \/ Store
             \/ ModifyHandle \/ VerificationOver \/ UNCHANGED vars
    <3>1. line' = line /\ pending' = pending /\ served' = served
      BY <2>9 DEF Poll, Clear, Loop, Decode, Mark, Copy, Fetch, Advance, Load, Store, ModifyHandle,
                  VerificationOver, vars, params, wire
    <3>2. Complete' = Complete
      BY <3>1, Zenon DEF Complete
    <3> QED
      BY <2>5, <3>1, <3>2
  <2> QED
    BY <2>2, <2>5, <2>6, <2>7, <2>8, <2>9 DEF Next, Thread
<1> QED
  BY <1>2, <1>3

\* The link implements the queue of commands: with an undamaged wire every frame is
\* executed at most once, in the order sent, and nothing else is (the handler and the
\* thread together).
THEOREM LinkInOrder == ASSUME PeersFit PROVE Spec => InOrder
<1>1. Init => Queue!Init
  <2> SUFFICES ASSUME Init PROVE Queue!Init
    OBVIOUS
  <2>1. Complete = <<>> /\ served = <<>>
    BY DEF Init, Complete
  <2>2. Mapped = <<>> /\ Ran = <<>>
    BY <2>1, QueueOfIs, Zenon DEF Mapped, Ran
  <2> QED
    BY <2>2, QueueIs, Zenon
<1>2. (TypeInv /\ SafeInv) /\ (TypeInv /\ SafeInv)' /\ [Next]_vars => [Queue!Next]_Queue!vars
  BY QueueStep
<1> QED
  BY <1>1, <1>2, SafeAlways, PTL DEF Spec, InOrder, Queue!Spec
===============================================================================
