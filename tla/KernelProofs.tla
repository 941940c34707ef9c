----------------------------- MODULE KernelProofs -----------------------------
(*****************************************************************************)
(* The invariants of the kernel hold for any threads, priorities, mutexes,   *)
(* timeouts and programs: the types, the lists of the threads, the owners of *)
(* the mutexes and the units of the semaphore.  The lists are sound only if  *)
(* a taken mutex has an owner with a priority to give back, and a release    *)
(* hands an object over only if no thread waits with an error: so all are    *)
(* proved together, by one inductive invariant.  The order of the timer list *)
(* follows from it, for any width of the tick counter.                       *)
(* Before it stand the facts about lists: what inserting into them and       *)
(* removing from them does to their elements; and that suspending and        *)
(* resuming a thread, and so every action of the kernel, keeps the ready     *)
(* table, the suspend lists and the timers in line with its state.           *)
(*****************************************************************************)
EXTENDS Kernel, WellFoundedInduction, SequenceTheorems, FiniteSetTheorems, TLAPS

-----------------------------------------------------------------------------
(* Sequences.                                                              *)

\* A set of naturals that is not empty has a least element: Min returns it.
LEMMA MinIn ==
  ASSUME NEW I \in SUBSET Nat, I # {}
  PROVE  Min(I) \in I /\ \A i \in I : Min(I) <= i
<1>1. IsWellFoundedOn(OpToRel(<, Nat), Nat)
  BY NatLessThanWellFounded
<1>2. PICK x \in I : \A y \in I : ~ (<<y, x>> \in OpToRel(<, Nat))
  BY <1>1, WFMin
<1>4. ASSUME NEW y \in I PROVE ~ (y < x)
  <2>1. <<y, x>> \in Nat \X Nat
    BY SMT
  <2>2. SUFFICES ASSUME y < x PROVE <<y, x>> \in OpToRel(<, Nat)
    BY <1>2, Zenon
  <2>3. \A ss \in Nat \X Nat : ss[1] < ss[2] => ss \in OpToRel(<, Nat)
    BY Zenon DEF OpToRel
  <2>4. <<y, x>>[1] = y /\ <<y, x>>[2] = x
    BY SMT
  <2> QED
    BY <2>1, <2>2, <2>3, <2>4, Zenon
<1>3. \A y \in I : x <= y
  BY <1>4, SMT
<1> QED
  BY <1>3 DEF Min

\* RemoveAt closes the gap: the elements behind it move up.
LEMMA RemoveAtIs ==
  ASSUME NEW S, NEW s \in Seq(S), NEW i \in 1 .. Len(s)
  PROVE  /\ RemoveAt(s, i) \in Seq(S)
         /\ Len(RemoveAt(s, i)) = Len(s) - 1
         /\ \A j \in 1 .. Len(s) - 1 : RemoveAt(s, i)[j] = IF j < i THEN s[j] ELSE s[j+1]
<1> DEFINE a == SubSeq(s, 1, i - 1)
           b == SubSeq(s, i + 1, Len(s))
<1>1. /\ a \in Seq(S) /\ Len(a) = i - 1
      /\ \A j \in 1 .. i - 1 : a[j] = s[j]
  BY SubSeqProperties, ElementOfSeq, SMT
<1>2. /\ b \in Seq(S) /\ Len(b) = Len(s) - i
      /\ \A j \in 1 .. Len(s) - i : b[j] = s[i + j]
  BY SubSeqProperties, ElementOfSeq, SMT
<1>3. /\ a \o b \in Seq(S)
      /\ Len(a \o b) = Len(a) + Len(b)
      /\ \A j \in 1 .. Len(a) + Len(b) : (a \o b)[j] = IF j <= Len(a) THEN a[j] ELSE b[j - Len(a)]
  BY <1>1, <1>2, ConcatProperties, ZenonT(60)
<1>4. RemoveAt(s, i) = a \o b
  BY DEF RemoveAt
<1> HIDE DEF a, b
<1>5. Len(a \o b) = Len(s) - 1
  BY <1>1, <1>2, <1>3, SMT
<1>6. ASSUME NEW j \in 1 .. Len(s) - 1
      PROVE  (a \o b)[j] = IF j < i THEN s[j] ELSE s[j+1]
  <2>1. CASE j < i
    BY <1>1, <1>2, <1>3, <2>1, SMT
  <2>2. CASE ~ (j < i)
    <3>1. j - Len(a) \in 1 .. Len(s) - i /\ i + (j - Len(a)) = j + 1
      BY <1>1, <2>2, SMT
    <3>2. (a \o b)[j] = b[j - Len(a)]
      BY <1>1, <1>2, <1>3, <2>2, SMTT(60)
    <3>3. b[j - Len(a)] = s[i + (j - Len(a))]
      BY <1>2, <3>1, Zenon
    <3> QED
      BY <2>2, <3>1, <3>2, <3>3, Zenon
  <2> QED
    BY <2>1, <2>2
<1> QED
  BY <1>3, <1>4, <1>5, <1>6

\* InsertAt opens a gap: the elements behind it move down.
LEMMA InsertAtIs ==
  ASSUME NEW S, NEW s \in Seq(S), NEW i \in 1 .. Len(s) + 1, NEW e \in S
  PROVE  /\ InsertAt(s, i, e) \in Seq(S)
         /\ Len(InsertAt(s, i, e)) = Len(s) + 1
         /\ \A j \in 1 .. Len(s) + 1 :
              InsertAt(s, i, e)[j] = IF j < i THEN s[j] ELSE IF j = i THEN e ELSE s[j-1]
<1> DEFINE a == SubSeq(s, 1, i - 1)
           b == SubSeq(s, i, Len(s))
           c == a \o <<e>>
<1>1. /\ a \in Seq(S) /\ Len(a) = i - 1
      /\ \A j \in 1 .. i - 1 : a[j] = s[j]
  BY SubSeqProperties, ElementOfSeq, SMT
<1>2. /\ b \in Seq(S) /\ Len(b) = Len(s) - i + 1
      /\ \A j \in 1 .. Len(s) - i + 1 : b[j] = s[i + j - 1]
  BY SubSeqProperties, ElementOfSeq, SMT
<1>3. /\ <<e>> \in Seq(S) /\ Len(<<e>>) = 1 /\ <<e>>[1] = e
  BY SMT
<1>4. /\ c \in Seq(S) /\ Len(c) = i
      /\ \A j \in 1 .. i : c[j] = IF j < i THEN s[j] ELSE e
  <2>1. /\ c \in Seq(S) /\ Len(c) = Len(a) + Len(<<e>>)
        /\ \A j \in 1 .. Len(a) + Len(<<e>>) : c[j] = IF j <= Len(a) THEN a[j] ELSE <<e>>[j - Len(a)]
    BY <1>1, <1>3, ConcatProperties
  <2> QED
    BY <1>1, <1>3, <2>1, SMT
<1>5. InsertAt(s, i, e) = c \o b
  BY DEF InsertAt
<1> HIDE DEF a, b, c
<1>6. /\ c \o b \in Seq(S)
      /\ Len(c \o b) = Len(c) + Len(b)
      /\ \A j \in 1 .. Len(c) + Len(b) : (c \o b)[j] = IF j <= Len(c) THEN c[j] ELSE b[j - Len(c)]
  BY <1>2, <1>4, ConcatProperties, Zenon
<1> QED
  BY <1>2, <1>4, <1>5, <1>6, SMT

\* A list without duplicates loses one element with RemoveAt.
LEMMA RemoveAtRange ==
  ASSUME NEW S, NEW s \in Seq(S), IsInjective(s), NEW i \in 1 .. Len(s)
  PROVE  /\ IsInjective(RemoveAt(s, i))
         /\ Range(RemoveAt(s, i)) = Range(s) \ {s[i]}
<1> DEFINE r == RemoveAt(s, i)
<1>1. /\ r \in Seq(S) /\ Len(r) = Len(s) - 1
      /\ \A j \in 1 .. Len(s) - 1 : r[j] = IF j < i THEN s[j] ELSE s[j+1]
  BY RemoveAtIs
<1>2. Len(s) \in Nat /\ DOMAIN s = 1 .. Len(s) /\ DOMAIN r = 1 .. Len(s) - 1
  BY <1>1, LenProperties
<1>3. \A j, k \in 1 .. Len(s) : s[j] = s[k] => j = k
  BY <1>2 DEF IsInjective
<1> HIDE DEF r
<1>4. \A j \in 1 .. Len(s) - 1 : \E k \in 1 .. Len(s) : k # i /\ r[j] = s[k]
  <2> SUFFICES ASSUME NEW j \in 1 .. Len(s) - 1
               PROVE  \E k \in 1 .. Len(s) : k # i /\ r[j] = s[k]
    OBVIOUS
  <2>1. CASE j < i
    <3>1. j \in 1 .. Len(s) /\ j # i /\ r[j] = s[j]
      BY <1>1, <1>2, <2>1, SMT
    <3> QED
      BY <3>1
  <2>2. CASE ~ (j < i)
    <3>1. j + 1 \in 1 .. Len(s) /\ j + 1 # i /\ r[j] = s[j + 1]
      BY <1>1, <1>2, <2>2, SMT
    <3> QED
      BY <3>1
  <2> QED
    BY <2>1, <2>2
<1>5. \A k \in 1 .. Len(s) : k # i => \E j \in 1 .. Len(s) - 1 : r[j] = s[k]
  <2> SUFFICES ASSUME NEW k \in 1 .. Len(s), k # i
               PROVE  \E j \in 1 .. Len(s) - 1 : r[j] = s[k]
    OBVIOUS
  <2>1. CASE k < i
    <3>1. k \in 1 .. Len(s) - 1 /\ r[k] = s[k]
      BY <1>1, <1>2, <2>1, SMT
    <3> QED
      BY <3>1
  <2>2. CASE ~ (k < i)
    <3>1. k - 1 \in 1 .. Len(s) - 1 /\ ~ (k - 1 < i) /\ (k - 1) + 1 = k
      BY <1>2, <2>2, SMT
    <3>2. r[k - 1] = s[k]
      BY <1>1, <3>1, Zenon
    <3> QED
      BY <3>1, <3>2
  <2> QED
    BY <2>1, <2>2
<1>6. ASSUME NEW j \in 1 .. Len(s) - 1, NEW k \in 1 .. Len(s) - 1, r[j] = r[k]
      PROVE  j = k
  <2>1. r[j] = s[IF j < i THEN j ELSE j + 1] /\ r[k] = s[IF k < i THEN k ELSE k + 1]
    BY <1>1
  <2>2. (IF j < i THEN j ELSE j + 1) \in 1 .. Len(s) /\ (IF k < i THEN k ELSE k + 1) \in 1 .. Len(s)
    BY <1>2, SMT
  <2>3. (IF j < i THEN j ELSE j + 1) = (IF k < i THEN k ELSE k + 1)
    BY <1>3, <1>6, <2>1, <2>2, Zenon
  <2> QED
    BY <2>3, SMT
<1>7. IsInjective(r)
  BY <1>2, <1>6, Zenon DEF IsInjective
<1>8. Range(r) = Range(s) \ {s[i]}
  <2>1. \A x : x \in Range(r) <=> \E j \in 1 .. Len(s) - 1 : x = r[j]
    BY <1>2, Zenon DEF Range
  <2>2. \A x : x \in Range(s) <=> \E j \in 1 .. Len(s) : x = s[j]
    BY <1>2, Zenon DEF Range
  <2>3. ASSUME NEW x \in Range(r) PROVE x \in Range(s) /\ x # s[i]
    BY <1>3, <1>4, <2>1, <2>2
  <2>4. ASSUME NEW x \in Range(s), x # s[i] PROVE x \in Range(r)
    <3>1. PICK k \in 1 .. Len(s) : x = s[k]
      BY <2>2
    <3>2. PICK j \in 1 .. Len(s) - 1 : r[j] = s[k]
      BY <1>5, <2>4, <3>1
    <3> QED
      BY <2>1, <3>1, <3>2
  <2> QED
    BY <2>3, <2>4
<1> QED
  BY <1>7, <1>8 DEF r

\* rt_list_remove takes a thread out of a list, and nothing else.
LEMMA WithoutIs ==
  ASSUME NEW S, NEW s \in Seq(S), IsInjective(s), NEW t \in Range(s)
  PROVE  /\ Without(s, t) \in Seq(S)
         /\ IsInjective(Without(s, t))
         /\ Range(Without(s, t)) = Range(s) \ {t}
<1>1. \E i \in DOMAIN s : s[i] = t
  BY DEF Range
<1>2. Position(s, t) \in 1 .. Len(s) /\ s[Position(s, t)] = t
  BY <1>1, LenProperties DEF Position
<1> QED
  BY <1>2, RemoveAtIs, RemoveAtRange DEF Without

\* InsertAt adds one element; a list without duplicates stays so.
LEMMA InsertAtRange ==
  ASSUME NEW S, NEW s \in Seq(S), NEW i \in 1 .. Len(s) + 1, NEW e \in S
  PROVE  /\ InsertAt(s, i, e) \in Seq(S)
         /\ Range(InsertAt(s, i, e)) = Range(s) \cup {e}
         /\ IsInjective(s) /\ e \notin Range(s) => IsInjective(InsertAt(s, i, e))
<1> DEFINE r == InsertAt(s, i, e)
<1>1. /\ r \in Seq(S) /\ Len(r) = Len(s) + 1
      /\ \A j \in 1 .. Len(s) + 1 : r[j] = IF j < i THEN s[j] ELSE IF j = i THEN e ELSE s[j-1]
  BY InsertAtIs
<1>2. Len(s) \in Nat /\ DOMAIN s = 1 .. Len(s) /\ DOMAIN r = 1 .. Len(s) + 1
  BY <1>1, LenProperties
<1> HIDE DEF r
<1>3. r[i] = e
  BY <1>1, SMT
<1>4. \A j \in 1 .. Len(s) + 1 : j # i => \E k \in 1 .. Len(s) : r[j] = s[k]
  <2> SUFFICES ASSUME NEW j \in 1 .. Len(s) + 1, j # i
               PROVE  \E k \in 1 .. Len(s) : r[j] = s[k]
    OBVIOUS
  <2>1. CASE j < i
    <3>1. j \in 1 .. Len(s) /\ r[j] = s[j]
      BY <1>1, <1>2, <2>1, SMT
    <3> QED
      BY <3>1
  <2>2. CASE ~ (j < i)
    <3>1. j - 1 \in 1 .. Len(s) /\ r[j] = s[j - 1]
      BY <1>1, <1>2, <2>2, SMT
    <3> QED
      BY <3>1
  <2> QED
    BY <2>1, <2>2
<1>5. \A k \in 1 .. Len(s) : \E j \in 1 .. Len(s) + 1 : r[j] = s[k]
  <2> SUFFICES ASSUME NEW k \in 1 .. Len(s)
               PROVE  \E j \in 1 .. Len(s) + 1 : r[j] = s[k]
    OBVIOUS
  <2>1. CASE k < i
    <3>1. k \in 1 .. Len(s) + 1 /\ r[k] = s[k]
      BY <1>1, <1>2, <2>1, SMT
    <3> QED
      BY <3>1
  <2>2. CASE ~ (k < i)
    <3>1. k + 1 \in 1 .. Len(s) + 1 /\ ~ (k + 1 < i) /\ k + 1 # i /\ (k + 1) - 1 = k
      BY <1>2, <2>2, SMT
    <3>2. r[k + 1] = s[(k + 1) - 1]
      BY <1>1, <3>1
    <3> QED
      BY <3>1, <3>2
  <2> QED
    BY <2>1, <2>2
<1>6. Range(r) = Range(s) \cup {e}
  <2>1. \A x : x \in Range(r) <=> \E j \in 1 .. Len(s) + 1 : x = r[j]
    BY <1>2, Zenon DEF Range
  <2>2. \A x : x \in Range(s) <=> \E j \in 1 .. Len(s) : x = s[j]
    BY <1>2, Zenon DEF Range
  <2>3. ASSUME NEW x \in Range(r) PROVE x \in Range(s) \/ x = e
    BY <1>3, <1>4, <2>1, <2>2
  <2>4. ASSUME NEW x \in Range(s) PROVE x \in Range(r)
    <3>1. PICK k \in 1 .. Len(s) : x = s[k]
      BY <2>2
    <3>2. PICK j \in 1 .. Len(s) + 1 : r[j] = s[k]
      BY <1>5, <3>1
    <3> QED
      BY <2>1, <3>1, <3>2
  <2>5. e \in Range(r)
    BY <1>3, <2>1
  <2> QED
    BY <2>3, <2>4, <2>5
<1>7. ASSUME IsInjective(s), e \notin Range(s),
             NEW j \in 1 .. Len(s) + 1, NEW k \in 1 .. Len(s) + 1, r[j] = r[k]
      PROVE  j = k
  <2>1. \A m, n \in 1 .. Len(s) : s[m] = s[n] => m = n
    BY <1>2, <1>7 DEF IsInjective
  <2>2. \A m \in 1 .. Len(s) : s[m] # e
    BY <1>2, <1>7 DEF Range
  <2>3. \A n \in 1 .. Len(s) + 1 : n # i => r[n] = s[IF n < i THEN n ELSE n - 1]
    BY <1>1
  <2>4. \A n \in 1 .. Len(s) + 1 : n # i => (IF n < i THEN n ELSE n - 1) \in 1 .. Len(s)
    BY <1>2, SMT
  <2>5. CASE j # i /\ k # i
    <3>1. (IF j < i THEN j ELSE j - 1) = (IF k < i THEN k ELSE k - 1)
      BY <1>7, <2>1, <2>3, <2>4, <2>5, Zenon
    <3> QED
      BY <2>5, <3>1, SMT
  <2>6. CASE j = i \/ k = i
    <3>1. \A n \in 1 .. Len(s) + 1 : r[n] = e => n = i
      BY <2>2, <2>3, <2>4, Zenon
    <3> QED
      BY <1>3, <1>7, <2>6, <3>1, Zenon
  <2> QED
    BY <2>5, <2>6
<1>8. IsInjective(s) /\ e \notin Range(s) => IsInjective(r)
  BY <1>2, <1>7, Zenon DEF IsInjective
<1> QED
  BY <1>1, <1>6, <1>8 DEF r

\* Append adds one element; a list without duplicates stays so.
LEMMA AppendRange ==
  ASSUME NEW S, NEW s \in Seq(S), NEW e \in S
  PROVE  /\ Append(s, e) \in Seq(S)
         /\ Range(Append(s, e)) = Range(s) \cup {e}
         /\ IsInjective(s) /\ e \notin Range(s) => IsInjective(Append(s, e))
<1> DEFINE r == Append(s, e)
<1>1. /\ r \in Seq(S) /\ Len(r) = Len(s) + 1 /\ r[Len(s) + 1] = e
      /\ \A j \in 1 .. Len(s) : r[j] = s[j]
  BY AppendProperties
<1>2. Len(s) \in Nat /\ DOMAIN s = 1 .. Len(s) /\ DOMAIN r = 1 .. Len(s) + 1
  BY <1>1, LenProperties
<1>3. 1 .. Len(s) + 1 = (1 .. Len(s)) \cup {Len(s) + 1}
  BY <1>2, SMT
<1> HIDE DEF r
<1>4. Range(r) = Range(s) \cup {e}
  <2>1. \A x : x \in Range(r) <=> \E j \in 1 .. Len(s) + 1 : x = r[j]
    BY <1>2, Zenon DEF Range
  <2>2. \A x : x \in Range(s) <=> \E j \in 1 .. Len(s) : x = s[j]
    BY <1>2, Zenon DEF Range
  <2>3. ASSUME NEW x \in Range(r) PROVE x \in Range(s) \/ x = e
    BY <1>1, <1>3, <2>1, <2>2
  <2>4. ASSUME NEW x \in Range(s) \cup {e} PROVE x \in Range(r)
    BY <1>1, <1>3, <2>1, <2>2
  <2> QED
    BY <2>3, <2>4
<1>5. ASSUME IsInjective(s), e \notin Range(s),
             NEW j \in 1 .. Len(s) + 1, NEW k \in 1 .. Len(s) + 1, r[j] = r[k]
      PROVE  j = k
  <2>1. \A m, n \in 1 .. Len(s) : s[m] = s[n] => m = n
    BY <1>2, <1>5 DEF IsInjective
  <2>2. \A m \in 1 .. Len(s) : s[m] # e
    BY <1>2, <1>5 DEF Range
  <2> QED
    BY <1>1, <1>3, <1>5, <2>1, <2>2
<1>6. IsInjective(s) /\ e \notin Range(s) => IsInjective(r)
  BY <1>2, <1>5, Zenon DEF IsInjective
<1> QED
  BY <1>1, <1>4, <1>6 DEF r

\* The head of a list is in it.
LEMMA HeadInRange ==
  ASSUME NEW S, NEW s \in Seq(S), s # <<>>
  PROVE  Head(s) \in Range(s) /\ Head(s) = s[1] /\ 1 \in 1 .. Len(s)
BY SMT DEF Range

\* The index at which a list is split is inside it, or just behind its end.
LEMMA FirstOfIs ==
  ASSUME NEW S, NEW s \in Seq(S), NEW I \in SUBSET (1 .. Len(s))
  PROVE  /\ FirstOf(I, s) \in 1 .. Len(s) + 1
         /\ I # {} => FirstOf(I, s) \in I
         /\ \A i \in I : FirstOf(I, s) <= i
<1>1. Len(s) \in Nat
  BY LenProperties
<1>2. CASE I = {}
  BY <1>1, <1>2, SMT DEF FirstOf
<1>3. CASE I # {}
  <2>1. I \in SUBSET Nat
    BY <1>1, SMT
  <2>2. Min(I) \in I /\ \A i \in I : Min(I) <= i
    BY <1>3, <2>1, MinIn
  <2>3. FirstOf(I, s) = Min(I)
    BY <1>3 DEF FirstOf
  <2>4. FirstOf(I, s) \in I
    BY <2>2, <2>3
  <2>5. FirstOf(I, s) \in 1 .. Len(s)
    BY <2>4
  <2>6. FirstOf(I, s) \in 1 .. Len(s) + 1
    BY <1>1, <2>5, SMT
  <2> QED
    BY <2>2, <2>3, <2>4, <2>6
<1> QED
  BY <1>2, <1>3

\* A waiting thread is put somewhere in the suspend list, whatever its order.
LEMMA PlaceIs ==
  ASSUME NEW S, NEW s \in Seq(S), NEW flag \in {"fifo", "prio", "lifo"}, NEW p, NEW pr
  PROVE  Place(s, flag, p, pr) \in 1 .. Len(s) + 1
<1>1. Len(s) \in Nat /\ DOMAIN s = 1 .. Len(s)
  BY LenProperties
<1>2. CASE flag = "fifo"
  BY <1>1, <1>2, SMT DEF Place
<1>3. CASE flag = "lifo"
  BY <1>1, <1>3, SMT DEF Place
<1>4. CASE flag = "prio"
  <2> DEFINE I == {i \in DOMAIN s : p < pr[s[i]]}
  <2>1. I \in SUBSET (1 .. Len(s))
    BY <1>1
  <2>2. FirstOf(I, s) \in 1 .. Len(s) + 1
    BY <2>1, FirstOfIs
  <2>3. Place(s, flag, p, pr) = FirstOf(I, s)
    BY <1>4 DEF Place
  <2> QED
    BY <2>2, <2>3
<1> QED
  BY <1>2, <1>3, <1>4

\* The scheduler chooses a thread of the ready table, or the idle thread.
LEMMA HighestIs ==
  ASSUME NEW r \in [Priorities -> Seq(Threads)]
  PROVE  Highest(r) = Idle \/ \E p \in Priorities : Highest(r) \in Range(r[p])
<1> DEFINE used == {p \in Priorities : r[p] # <<>>}
<1>1. CASE used = {}
  BY <1>1 DEF Highest
<1>2. CASE used # {}
  <2>1. used \in SUBSET Nat
    BY ThreadsAssumption, SMT DEF Priorities
  <2>2. Min(used) \in used
    BY <1>2, <2>1, MinIn
  <2>3. Min(used) \in Priorities /\ r[Min(used)] # <<>>
    BY <2>2
  <2>4. Head(r[Min(used)]) \in Range(r[Min(used)])
    BY <2>3, HeadInRange
  <2>5. Highest(r) = Head(r[Min(used)])
    BY <1>2 DEF Highest
  <2> QED
    BY <2>3, <2>4, <2>5
<1> QED
  BY <1>1, <1>2

-----------------------------------------------------------------------------
(* The ready table, the suspend lists and the timers, as functions of the  *)
(* states, priorities and calls of the threads.                            *)

States == {"ready", "suspend"}
Ops    == Lists \cup {"none", "sleep", "fill", "copy"}
Timer  == [thread : Threads, at : 0 .. TickMod - 1]

\* The ready table r has every ready thread once, in the list of its priority.
ReadySound(r, st, pr) ==
  /\ r \in [Priorities -> Seq(Threads)]
  /\ \A p \in Priorities : IsInjective(r[p])
  /\ \A t \in Threads, p \in Priorities : t \in Range(r[p]) <=> st[t] = "ready" /\ p = pr[t]

\* The suspend lists w have every waiting thread once, in the list of its call.
WaitSound(w, st, o) ==
  /\ w \in [Lists -> Seq(Threads)]
  /\ \A l \in Lists : IsInjective(w[l])
  /\ \A t \in Threads, l \in Lists : t \in Range(w[l]) <=> st[t] = "suspend" /\ l = o[t]
  /\ \A t \in Threads : st[t] = "suspend" => o[t] \in Lists \cup {"sleep"}

\* The timers ts belong to suspended threads, one to each.
TimerSound(ts, st) ==
  /\ ts \in Seq(Timer)
  /\ IsInjective(ts)
  /\ \A x, y \in Range(ts) : x.thread = y.thread => x = y
  /\ \A x \in Range(ts) : st[x.thread] = "suspend"

\* rt_schedule_remove_thread of a thread that suspends itself keeps the ready table sound.
LEMMA UnreadySound ==
  ASSUME NEW r, NEW st \in [Threads -> States], NEW pr \in [Threads -> Priorities],
         ReadySound(r, st, pr), NEW t \in Threads, st[t] = "ready"
  PROVE  ReadySound(Unready(r, pr[t], t), [st EXCEPT ![t] = "suspend"], pr)
<1> DEFINE q == Unready(r, pr[t], t)
<1>1. t \in Range(r[pr[t]]) /\ r[pr[t]] \in Seq(Threads) /\ IsInjective(r[pr[t]]) /\ pr[t] \in Priorities
  BY DEF ReadySound
<1>2. /\ Without(r[pr[t]], t) \in Seq(Threads)
      /\ IsInjective(Without(r[pr[t]], t))
      /\ Range(Without(r[pr[t]], t)) = Range(r[pr[t]]) \ {t}
  BY <1>1, WithoutIs
<1>3. q = [r EXCEPT ![pr[t]] = Without(r[pr[t]], t)]
  BY DEF Unready
<1>4. q \in [Priorities -> Seq(Threads)] /\ \A p \in Priorities : IsInjective(q[p])
  BY <1>1, <1>2, <1>3 DEF ReadySound
<1>5. ASSUME NEW u \in Threads, NEW p \in Priorities
      PROVE  u \in Range(q[p]) <=> [st EXCEPT ![t] = "suspend"][u] = "ready" /\ p = pr[u]
  <2>1. u \in Range(r[p]) <=> st[u] = "ready" /\ p = pr[u]
    BY DEF ReadySound
  <2>2. [st EXCEPT ![t] = "suspend"][u] = IF u = t THEN "suspend" ELSE st[u]
    OBVIOUS
  <2>3. q[p] = IF p = pr[t] THEN Without(r[pr[t]], t) ELSE r[p]
    BY <1>3, <1>1 DEF ReadySound
  <2> QED
    BY <1>2, <2>1, <2>2, <2>3
<1> QED
  BY <1>4, <1>5 DEF ReadySound

\* rt_schedule_insert_thread of a thread that is resumed keeps the ready table sound.
LEMMA EnreadySound ==
  ASSUME NEW r, NEW st \in [Threads -> States], NEW pr \in [Threads -> Priorities],
         ReadySound(r, st, pr), NEW t \in Threads, st[t] = "suspend", NEW p0 \in Priorities
  PROVE  ReadySound(Enready(r, p0, t), [st EXCEPT ![t] = "ready"], [pr EXCEPT ![t] = p0])
<1> DEFINE q == Enready(r, p0, t)
<1>1. t \notin Range(r[p0]) /\ r[p0] \in Seq(Threads) /\ IsInjective(r[p0])
  BY DEF ReadySound
<1>2. /\ Append(r[p0], t) \in Seq(Threads)
      /\ IsInjective(Append(r[p0], t))
      /\ Range(Append(r[p0], t)) = Range(r[p0]) \cup {t}
  BY <1>1, AppendRange
<1>3. q = [r EXCEPT ![p0] = Append(r[p0], t)]
  BY DEF Enready
<1>4. q \in [Priorities -> Seq(Threads)] /\ \A p \in Priorities : IsInjective(q[p])
  BY <1>1, <1>2, <1>3 DEF ReadySound
<1>5. ASSUME NEW u \in Threads, NEW p \in Priorities
      PROVE  u \in Range(q[p]) <=> /\ [st EXCEPT ![t] = "ready"][u] = "ready"
                                   /\ p = [pr EXCEPT ![t] = p0][u]
  <2>1. u \in Range(r[p]) <=> st[u] = "ready" /\ p = pr[u]
    BY DEF ReadySound
  <2>2. /\ [st EXCEPT ![t] = "ready"][u] = IF u = t THEN "ready" ELSE st[u]
        /\ [pr EXCEPT ![t] = p0][u] = IF u = t THEN p0 ELSE pr[u]
    OBVIOUS
  <2>3. q[p] = IF p = p0 THEN Append(r[p0], t) ELSE r[p]
    BY <1>3, <1>1 DEF ReadySound
  <2> QED
    BY <1>2, <2>1, <2>2, <2>3
<1> QED
  BY <1>4, <1>5 DEF ReadySound

\* A thread whose priority changes goes to another list when it is ready, and
\* is in none when it is suspended.
LEMMA RequeueSound ==
  ASSUME NEW r, NEW st \in [Threads -> States], NEW pr \in [Threads -> Priorities],
         ReadySound(r, st, pr), NEW t \in Threads, NEW p0 \in Priorities
  PROVE  /\ st[t] = "ready" =>
              ReadySound(Enready(Unready(r, pr[t], t), p0, t), st, [pr EXCEPT ![t] = p0])
         /\ st[t] = "suspend" => ReadySound(r, st, [pr EXCEPT ![t] = p0])
<1>1. ASSUME st[t] = "ready"
      PROVE  ReadySound(Enready(Unready(r, pr[t], t), p0, t), st, [pr EXCEPT ![t] = p0])
  <2> DEFINE s1 == [st EXCEPT ![t] = "suspend"]
  <2>1. ReadySound(Unready(r, pr[t], t), s1, pr) /\ s1 \in [Threads -> States] /\ s1[t] = "suspend"
    BY <1>1, UnreadySound DEF States
  <2>2. [s1 EXCEPT ![t] = "ready"] = st
    BY <1>1
  <2> HIDE DEF s1
  <2> QED
    BY <2>1, <2>2, EnreadySound
<1>2. ASSUME st[t] = "suspend"
      PROVE  ReadySound(r, st, [pr EXCEPT ![t] = p0])
  BY <1>2 DEF ReadySound
<1> QED
  BY <1>1, <1>2

\* A thread that suspends itself is in the suspend list it waits in, and in no other.
LEMMA SuspendSound ==
  ASSUME NEW w, NEW st \in [Threads -> States], NEW o \in [Threads -> Ops], WaitSound(w, st, o),
         NEW t \in Threads, st[t] = "ready", NEW l \in Lists, NEW p, NEW pr
  PROVE  WaitSound([w EXCEPT ![l] = InsertAt(@, Place(@, Flag[l], p, pr), t)],
                   [st EXCEPT ![t] = "suspend"], [o EXCEPT ![t] = l])
<1> DEFINE s == InsertAt(w[l], Place(w[l], Flag[l], p, pr), t)
           v == [w EXCEPT ![l] = s]
<1>1. w[l] \in Seq(Threads) /\ IsInjective(w[l]) /\ t \notin Range(w[l]) /\ Flag[l] \in {"fifo", "prio", "lifo"}
  BY ThreadsAssumption DEF WaitSound
<1>2. Place(w[l], Flag[l], p, pr) \in 1 .. Len(w[l]) + 1
  BY <1>1, PlaceIs
<1>3. s \in Seq(Threads) /\ IsInjective(s) /\ Range(s) = Range(w[l]) \cup {t}
  BY <1>1, <1>2, InsertAtRange
<1> HIDE DEF s
<1>4. v \in [Lists -> Seq(Threads)] /\ \A k \in Lists : IsInjective(v[k])
  BY <1>3 DEF WaitSound
<1>5. ASSUME NEW u \in Threads, NEW k \in Lists
      PROVE  u \in Range(v[k]) <=> [st EXCEPT ![t] = "suspend"][u] = "suspend" /\ k = [o EXCEPT ![t] = l][u]
  <2>1. u \in Range(w[k]) <=> st[u] = "suspend" /\ k = o[u]
    BY DEF WaitSound
  <2>2. /\ [st EXCEPT ![t] = "suspend"][u] = IF u = t THEN "suspend" ELSE st[u]
        /\ [o EXCEPT ![t] = l][u] = IF u = t THEN l ELSE o[u]
    OBVIOUS
  <2>3. v[k] = IF k = l THEN s ELSE w[k]
    BY DEF WaitSound
  <2> QED
    BY <1>3, <2>1, <2>2, <2>3
<1>6. \A u \in Threads : [st EXCEPT ![t] = "suspend"][u] = "suspend" => [o EXCEPT ![t] = l][u] \in Lists \cup {"sleep"}
  BY DEF WaitSound
<1>7. v = [w EXCEPT ![l] = InsertAt(@, Place(@, Flag[l], p, pr), t)]
  BY DEF s
<1> QED
  BY <1>4, <1>5, <1>6, <1>7 DEF WaitSound

\* A thread that is taken out of its suspend list and resumed is in none.
LEMMA WakeSound ==
  ASSUME NEW w, NEW st \in [Threads -> States], NEW o \in [Threads -> Ops], WaitSound(w, st, o),
         NEW l \in Lists, NEW t \in Range(w[l])
  PROVE  /\ t \in Threads /\ st[t] = "suspend" /\ o[t] = l
         /\ WaitSound([w EXCEPT ![l] = Without(@, t)], [st EXCEPT ![t] = "ready"], o)
<1> DEFINE s == Without(w[l], t)
           v == [w EXCEPT ![l] = s]
<1>1. w[l] \in Seq(Threads) /\ IsInjective(w[l])
  BY DEF WaitSound
<1>2. t \in Threads
  BY <1>1, LenProperties, ElementOfSeq DEF Range
<1>3. st[t] = "suspend" /\ o[t] = l
  BY <1>2 DEF WaitSound
<1>4. s \in Seq(Threads) /\ IsInjective(s) /\ Range(s) = Range(w[l]) \ {t}
  BY <1>1, WithoutIs
<1> HIDE DEF s
<1>5. v \in [Lists -> Seq(Threads)] /\ \A k \in Lists : IsInjective(v[k])
  BY <1>4 DEF WaitSound
<1>6. ASSUME NEW u \in Threads, NEW k \in Lists
      PROVE  u \in Range(v[k]) <=> [st EXCEPT ![t] = "ready"][u] = "suspend" /\ k = o[u]
  <2>1. u \in Range(w[k]) <=> st[u] = "suspend" /\ k = o[u]
    BY DEF WaitSound
  <2>2. [st EXCEPT ![t] = "ready"][u] = IF u = t THEN "ready" ELSE st[u]
    OBVIOUS
  <2>3. v[k] = IF k = l THEN s ELSE w[k]
    BY DEF WaitSound
  <2> QED
    BY <1>3, <1>4, <2>1, <2>2, <2>3
<1>7. \A u \in Threads : [st EXCEPT ![t] = "ready"][u] = "suspend" => o[u] \in Lists \cup {"sleep"}
  BY DEF WaitSound
<1>8. v = [w EXCEPT ![l] = Without(@, t)]
  BY DEF s
<1> QED
  BY <1>2, <1>3, <1>5, <1>6, <1>7, <1>8 DEF WaitSound

\* A thread that sleeps is in no suspend list; a ready thread enters and leaves
\* calls without being in one.
LEMMA SleepSound ==
  ASSUME NEW w, NEW st \in [Threads -> States], NEW o \in [Threads -> Ops], WaitSound(w, st, o),
         NEW t \in Threads
  PROVE  /\ st[t] = "ready" => WaitSound(w, [st EXCEPT ![t] = "suspend"], [o EXCEPT ![t] = "sleep"])
         /\ o[t] = "sleep" => WaitSound(w, [st EXCEPT ![t] = "ready"], o)
         /\ \A x \in Ops : st[t] = "ready" => WaitSound(w, st, [o EXCEPT ![t] = x])
<1>1. "sleep" \notin Lists
  BY ThreadsAssumption
<1>2. ASSUME st[t] = "ready"
      PROVE  WaitSound(w, [st EXCEPT ![t] = "suspend"], [o EXCEPT ![t] = "sleep"])
  BY <1>1, <1>2 DEF WaitSound
<1>3. ASSUME o[t] = "sleep"
      PROVE  WaitSound(w, [st EXCEPT ![t] = "ready"], o)
  BY <1>1, <1>3 DEF WaitSound
<1>4. ASSUME NEW x \in Ops, st[t] = "ready"
      PROVE  WaitSound(w, st, [o EXCEPT ![t] = x])
  BY <1>4 DEF WaitSound
<1> QED
  BY <1>2, <1>3, <1>4

\* A thread has a timer when one of the list is its own.
LEMMA HasTimerIs ==
  ASSUME timers \in Seq(Timer), NEW t
  PROVE  HasTimer(t) <=> \E x \in Range(timers) : x.thread = t
BY LenProperties DEF HasTimer, Range

\* rt_timer_start of a thread that suspends itself: it has one timer.
LEMMA TimerStartSound ==
  ASSUME NEW st \in [Threads -> States], TimerSound(timers, st),
         NEW t \in Threads, st[t] = "ready", NEW time, Plus(rt_tick, time) \in 0 .. TickMod - 1
  PROVE  TimerSound(TimerStarted(t, time), [st EXCEPT ![t] = "suspend"])
<1> DEFINE end == Plus(rt_tick, time)
           x0  == [thread |-> t, at |-> end]
           I   == {i \in DOMAIN timers : Minus(timers[i].at, end) < HalfTick}
           s   == InsertAt(timers, FirstOf(I, timers), x0)
<1>1. timers \in Seq(Timer) /\ DOMAIN timers = 1 .. Len(timers)
  BY LenProperties DEF TimerSound
<1>2. \A x \in Range(timers) : x.thread # t
  BY DEF TimerSound
<1>3. ~ HasTimer(t)
  BY <1>1, <1>2, HasTimerIs
<1>4. FirstOf(I, timers) \in 1 .. Len(timers) + 1
  BY <1>1, FirstOfIs
<1>5. x0 \in Timer /\ x0.thread = t
  BY DEF Timer
<1>6. x0 \notin Range(timers)
  BY <1>2, <1>5
<1>7. s \in Seq(Timer) /\ IsInjective(s) /\ Range(s) = Range(timers) \cup {x0}
  <2> HIDE DEF x0, I
  <2>1. IsInjective(timers)
    BY DEF TimerSound
  <2> QED
    BY <1>1, <1>4, <1>5, <1>6, <2>1, InsertAtRange
<1>8. TimerStarted(t, time) = s
  BY <1>3 DEF TimerStarted
<1> HIDE DEF s, x0
<1>9. \A x \in Range(timers) : x.thread \in Threads /\ st[x.thread] = "suspend"
  <2>1. \A x \in Range(timers) : x \in Timer
    BY <1>1, ElementOfSeq DEF Range
  <2> QED
    BY <2>1 DEF TimerSound, Timer
<1>10. \A x \in Range(s) : [st EXCEPT ![t] = "suspend"][x.thread] = "suspend"
  BY <1>5, <1>7, <1>9
<1>11. \A x, y \in Range(s) : x.thread = y.thread => x = y
  BY <1>2, <1>5, <1>7 DEF TimerSound
<1> QED
  BY <1>7, <1>8, <1>10, <1>11 DEF TimerSound

\* A timer is taken out of the list: the thread may be resumed.
LEMMA TimerRemoveAt ==
  ASSUME NEW ts, NEW st \in [Threads -> States], TimerSound(ts, st), NEW i \in 1 .. Len(ts)
  PROVE  /\ ts[i].thread \in Threads /\ st[ts[i].thread] = "suspend"
         /\ TimerSound(RemoveAt(ts, i), [st EXCEPT ![ts[i].thread] = "ready"])
         /\ \A x \in Range(RemoveAt(ts, i)) : x.thread # ts[i].thread
<1> DEFINE s == RemoveAt(ts, i)
<1>1. ts \in Seq(Timer) /\ DOMAIN ts = 1 .. Len(ts) /\ IsInjective(ts)
  BY LenProperties DEF TimerSound
<1>2. s \in Seq(Timer) /\ IsInjective(s) /\ Range(s) = Range(ts) \ {ts[i]}
  BY <1>1, RemoveAtIs, RemoveAtRange
<1> HIDE DEF s
<1>3. ts[i] \in Range(ts)
  BY <1>1 DEF Range
<1>4. \A x \in Range(ts) : x.thread \in Threads /\ st[x.thread] = "suspend"
  <2>1. \A x \in Range(ts) : x \in Timer
    BY <1>1, ElementOfSeq DEF Range
  <2> QED
    BY <2>1 DEF TimerSound, Timer
<1>5. \A x \in Range(s) : x.thread # ts[i].thread
  BY <1>2, <1>3 DEF TimerSound
<1>6. \A x \in Range(s) : [st EXCEPT ![ts[i].thread] = "ready"][x.thread] = "suspend"
  BY <1>2, <1>4, <1>5
<1>7. \A x, y \in Range(s) : x.thread = y.thread => x = y
  BY <1>2 DEF TimerSound
<1>8. TimerSound(s, [st EXCEPT ![ts[i].thread] = "ready"])
  BY <1>2, <1>6, <1>7 DEF TimerSound
<1> QED
  BY <1>3, <1>4, <1>5, <1>8 DEF s

\* rt_timer_stop of a thread that is resumed: it has no timer.
LEMMA TimerRemoveSound ==
  ASSUME NEW st \in [Threads -> States], TimerSound(timers, st), NEW t \in Threads, st[t] = "suspend"
  PROVE  TimerSound(TimerRemoved(t), [st EXCEPT ![t] = "ready"])
<1>1. timers \in Seq(Timer) /\ DOMAIN timers = 1 .. Len(timers)
  BY LenProperties DEF TimerSound
<1>2. CASE HasTimer(t)
  <2> DEFINE i == CHOOSE j \in DOMAIN timers : timers[j].thread = t
  <2>1. i \in 1 .. Len(timers) /\ timers[i].thread = t
    BY <1>1, <1>2 DEF HasTimer
  <2>2. TimerRemoved(t) = RemoveAt(timers, i)
    BY <1>2 DEF TimerRemoved
  <2> HIDE DEF i
  <2>3. TimerSound(RemoveAt(timers, i), [st EXCEPT ![timers[i].thread] = "ready"])
    BY <2>1, TimerRemoveAt
  <2> QED
    BY <2>1, <2>2, <2>3
<1>3. CASE ~ HasTimer(t)
  <2>1. \A x \in Range(timers) : x.thread # t
    BY <1>1, <1>3, HasTimerIs
  <2>2. \A x \in Range(timers) : [st EXCEPT ![t] = "ready"][x.thread] = "suspend"
    <3>1. \A x \in Range(timers) : x \in Timer
      BY <1>1, ElementOfSeq DEF Range
    <3> QED
      BY <2>1, <3>1 DEF TimerSound, Timer
  <2>3. TimerRemoved(t) = timers
    BY <1>3 DEF TimerRemoved
  <2> QED
    BY <2>2, <2>3 DEF TimerSound
<1> QED
  BY <1>2, <1>3

\* The tail of a list is the list without its first element.
LEMMA TailIs ==
  ASSUME NEW S, NEW s \in Seq(S), s # <<>>
  PROVE  Tail(s) = RemoveAt(s, 1)
<1>1. Len(s) \in Nat
  BY LenProperties
<1>2. SubSeq(s, 1, 0) = <<>>
  BY SubSeqEmpty
<1>3. SubSeq(s, 2, Len(s)) = Tail(s) /\ Tail(s) \in Seq(S)
  BY TailIsSubSeq, HeadTailProperties
<1>4. RemoveAt(s, 1) = SubSeq(s, 1, 0) \o SubSeq(s, 2, Len(s))
  <2>1. 1 - 1 = 0 /\ 1 + 1 = 2
    BY SMT
  <2> QED
    BY <2>1 DEF RemoveAt
<1> QED
  BY <1>2, <1>3, <1>4, ConcatEmptySeq

\* The first timer expires: its thread was suspended, and has no timer any more.
LEMMA TimerTailSound ==
  ASSUME NEW st \in [Threads -> States], TimerSound(timers, st), timers # <<>>
  PROVE  /\ Head(timers).thread \in Threads /\ st[Head(timers).thread] = "suspend"
         /\ TimerSound(Tail(timers), [st EXCEPT ![Head(timers).thread] = "ready"])
<1>1. timers \in Seq(Timer)
  BY DEF TimerSound
<1>2. Head(timers) = timers[1] /\ 1 \in 1 .. Len(timers) /\ Tail(timers) = RemoveAt(timers, 1)
  BY <1>1, HeadInRange, TailIs
<1>3. /\ timers[1].thread \in Threads /\ st[timers[1].thread] = "suspend"
      /\ TimerSound(RemoveAt(timers, 1), [st EXCEPT ![timers[1].thread] = "ready"])
  BY <1>2, TimerRemoveAt
<1> QED
  BY <1>2, <1>3

-----------------------------------------------------------------------------
(* Suspending and resuming.                                                *)

\* The parts of the type that no list depends on.
ScalarInv ==
  /\ rt_tick \in 0 .. TickMod - 1 /\ masked \in {"no", "clock", "event"}
  /\ error \in [Threads -> Errors]
  /\ left \in [Threads -> Times] /\ since \in [Threads -> 0 .. TickMod - 1]

\* The lists agree with the states of the threads, and a ready thread runs.
ListsInv ==
  /\ prio \in [Threads -> Priorities] /\ stat \in [Threads -> States] /\ op \in [Threads -> Ops]
  /\ current \in Threads \cup {Idle} /\ (current # Idle => stat[current] = "ready")
  /\ ReadySound(ready, stat, prio) /\ WaitSound(waiting, stat, op) /\ TimerSound(timers, stat)

\* The two parts of the inductive invariant contain the type invariant.
LEMMA TypeFromParts == ScalarInv /\ ListsInv => TypeOK
BY DEF ScalarInv, ListsInv, TypeOK, ReadySound, WaitSound, TimerSound, Timer, States, Ops

\* What is said of the lists one by one gives ThreadLists.
LEMMA ListsFromParts == ListsInv => ThreadLists
<1> SUFFICES ASSUME ListsInv PROVE ThreadLists
  OBVIOUS
<1>1. timers \in Seq(Timer) /\ DOMAIN timers = 1 .. Len(timers)
  BY LenProperties DEF ListsInv, TimerSound
<1>2. \A t : HasTimer(t) <=> \E x \in Range(timers) : x.thread = t
  BY <1>1, HasTimerIs
<1>3. \A t \in Threads : HasTimer(t) => stat[t] = "suspend"
  BY <1>2 DEF ListsInv, TimerSound
<1>4. \A i, j \in DOMAIN timers : timers[i].thread = timers[j].thread => i = j
  <2> SUFFICES ASSUME NEW i \in DOMAIN timers, NEW j \in DOMAIN timers,
                      timers[i].thread = timers[j].thread
               PROVE  i = j
    OBVIOUS
  <2>1. timers[i] \in Range(timers) /\ timers[j] \in Range(timers)
    BY DEF Range
  <2>2. timers[i] = timers[j]
    BY <2>1 DEF ListsInv, TimerSound
  <2> QED
    BY <2>2 DEF ListsInv, TimerSound, IsInjective
<1> QED
  BY <1>3, <1>4 DEF ListsInv, ReadySound, WaitSound, ThreadLists

\* Half of the ticks are more than one, and less than all.
LEMMA HalfTickIs ==
  /\ HalfTick \in Nat /\ HalfTick > 1 /\ HalfTick < TickMod /\ TickMod \in Nat
  /\ HalfTick + HalfTick < TickMod
BY ThreadsAssumption, SMT DEF HalfTick

\* Ticks are added without leaving their range.
LEMMA PlusIs ==
  ASSUME NEW a \in 0 .. TickMod - 1, NEW b \in 0 .. HalfTick - 1
  PROVE  Plus(a, b) \in 0 .. TickMod - 1
BY HalfTickIs, SMT DEF Plus

\* The rest of a timeout is a timeout.
LEMMA RemainingIs ==
  ASSUME ScalarInv, NEW t \in Threads
  PROVE  Remaining(t) \in Times
<1> DEFINE a == left[t]
           b == Minus(rt_tick, since[t])
<1>1. a \in Times
  BY DEF ScalarInv
<1>2. b \in 0 .. TickMod - 1
  BY HalfTickIs, SMT DEF ScalarInv, Minus
<1>3. Remaining(t) = IF a <= 0 THEN a ELSE IF b < a THEN a - b ELSE 0
  BY DEF Remaining
<1> HIDE DEF a, b
<1> QED
  BY <1>1, <1>2, <1>3, HalfTickIs, SMT DEF Times

\* rt_schedule chooses a ready thread.
LEMMA HighestReady ==
  ASSUME NEW r, NEW st, NEW pr, ReadySound(r, st, pr)
  PROVE  /\ Highest(r) \in Threads \cup {Idle}
         /\ Highest(r) # Idle => st[Highest(r)] = "ready"
<1>1. r \in [Priorities -> Seq(Threads)]
  BY DEF ReadySound
<1>2. CASE Highest(r) = Idle
  BY <1>2
<1>3. ASSUME NEW p \in Priorities, Highest(r) \in Range(r[p])
      PROVE  Highest(r) \in Threads /\ st[Highest(r)] = "ready"
  <2>1. r[p] \in Seq(Threads)
    BY <1>1
  <2>2. Highest(r) \in Threads
    BY <1>3, <2>1, ElementOfSeq, LenProperties DEF Range
  <2> QED
    BY <1>3, <2>2 DEF ReadySound
<1> QED
  BY <1>1, <1>2, <1>3, HighestIs

\* A thread that suspends itself keeps the lists sound.
LEMMA SuspendStep ==
  ASSUME ListsInv, ScalarInv, NEW t \in Threads, stat[t] = "ready",
         NEW l \in Lists, NEW time \in Times, NEW r, NEW pr,
         prio' \in [Threads -> Priorities], prio'[t] = prio[t],
         ReadySound(r, stat, prio'), Suspend(t, l, time, r, pr)
  PROVE  ListsInv'
<1>1. /\ stat' = [stat EXCEPT ![t] = "suspend"]
      /\ ready' = Unready(r, prio'[t], t)
      /\ waiting' = [waiting EXCEPT ![l] = InsertAt(@, Place(@, Flag[l], prio[t], pr), t)]
      /\ timers' = IF time > 0 THEN TimerStarted(t, time) ELSE timers
      /\ current' = Highest(ready')
      /\ op' = [op EXCEPT ![t] = l]
  BY DEF Suspend
<1>2. stat \in [Threads -> States] /\ op \in [Threads -> Ops] /\ WaitSound(waiting, stat, op) /\ TimerSound(timers, stat)
  BY DEF ListsInv
<1>3. stat' \in [Threads -> States] /\ op' \in [Threads -> Ops]
  BY <1>1, <1>2 DEF States, Ops
<1>4. ReadySound(ready', stat', prio')
  BY <1>1, <1>2, UnreadySound
<1>5. WaitSound(waiting', stat', op')
  BY <1>1, <1>2, SuspendSound
<1>6. TimerSound(timers', stat')
  <2>1. CASE time > 0
    <3>1. Plus(rt_tick, time) \in 0 .. TickMod - 1
      <4>1. time \in 0 .. HalfTick - 1 /\ rt_tick \in 0 .. TickMod - 1
        BY <2>1, HalfTickIs, SMT DEF ScalarInv, Times
      <4> QED
        BY <4>1, PlusIs
    <3>2. TimerSound(TimerStarted(t, time), [stat EXCEPT ![t] = "suspend"])
      BY <1>2, <3>1, TimerStartSound
    <3> QED
      BY <1>1, <2>1, <3>2
  <2>2. CASE ~ (time > 0)
    <3>1. \A x \in Range(timers) : [stat EXCEPT ![t] = "suspend"][x.thread] = "suspend"
      BY <1>2 DEF TimerSound
    <3> QED
      BY <1>1, <1>2, <2>2, <3>1 DEF TimerSound
  <2> QED
    BY <2>1, <2>2
<1>7. current' \in Threads \cup {Idle} /\ (current' # Idle => stat'[current'] = "ready")
  BY <1>1, <1>4, HighestReady
<1> QED
  BY <1>3, <1>4, <1>5, <1>6, <1>7 DEF ListsInv

\* The lists after a step that may have resumed a thread, with op as before.
ResumedLists ==
  /\ prio' \in [Threads -> Priorities] /\ stat' \in [Threads -> States]
  /\ current' \in Threads \cup {Idle} /\ (current' # Idle => stat'[current'] = "ready")
  /\ ReadySound(ready', stat', prio') /\ WaitSound(waiting', stat', op) /\ TimerSound(timers', stat')
  /\ \A u \in Threads : stat[u] = "ready" => stat'[u] = "ready"

\* A thread that is resumed from a suspend list keeps the lists sound.
LEMMA ResumeStep ==
  ASSUME ListsInv, NEW l \in Lists, NEW t \in Range(waiting[l]), NEW r,
         prio' \in [Threads -> Priorities], prio'[t] = prio[t],
         ReadySound(r, stat, prio'), Resume(t, l, r)
  PROVE  ResumedLists
<1>1. /\ stat' = [stat EXCEPT ![t] = "ready"]
      /\ waiting' = [waiting EXCEPT ![l] = Without(@, t)]
      /\ timers' = TimerRemoved(t)
      /\ ready' = Enready(r, prio'[t], t)
      /\ current' = Highest(ready')
  BY DEF Resume
<1>2. stat \in [Threads -> States] /\ op \in [Threads -> Ops] /\ WaitSound(waiting, stat, op) /\ TimerSound(timers, stat)
  BY DEF ListsInv
<1>3. t \in Threads /\ stat[t] = "suspend" /\ WaitSound(waiting', stat', op)
  <2>1. t \in Threads /\ stat[t] = "suspend"
    <3>1. waiting[l] \in Seq(Threads)
      BY <1>2 DEF WaitSound
    <3>2. t \in Threads
      BY <3>1, ElementOfSeq, LenProperties DEF Range
    <3> QED
      BY <1>2, <3>2 DEF WaitSound
  <2>2. WaitSound([waiting EXCEPT ![l] = Without(@, t)], [stat EXCEPT ![t] = "ready"], op)
    BY <1>2, WakeSound
  <2> QED
    BY <1>1, <2>1, <2>2
<1>4. stat' \in [Threads -> States]
  BY <1>1, <1>2 DEF States
<1>5. ReadySound(ready', stat', prio')
  <2>1. prio'[t] \in Priorities /\ [prio' EXCEPT ![t] = prio'[t]] = prio'
    BY <1>3
  <2>2. ReadySound(Enready(r, prio'[t], t), [stat EXCEPT ![t] = "ready"], [prio' EXCEPT ![t] = prio'[t]])
    BY <1>2, <1>3, <2>1, EnreadySound
  <2> QED
    BY <1>1, <2>1, <2>2
<1>6. TimerSound(timers', stat')
  BY <1>1, <1>2, <1>3, TimerRemoveSound
<1>7. current' \in Threads \cup {Idle} /\ (current' # Idle => stat'[current'] = "ready")
  BY <1>1, <1>5, HighestReady
<1>8. \A u \in Threads : stat[u] = "ready" => stat'[u] = "ready"
  BY <1>1, <1>2
<1> QED
  BY <1>3, <1>4, <1>5, <1>6, <1>7, <1>8 DEF ResumedLists

\* The first thread of a suspend list is suspended, in a call of that object.
LEMMA HeadWaits ==
  ASSUME ListsInv, NEW l \in Lists, waiting[l] # <<>>
  PROVE  /\ Head(waiting[l]) \in Range(waiting[l]) /\ Head(waiting[l]) \in Threads
         /\ stat[Head(waiting[l])] = "suspend" /\ op[Head(waiting[l])] = l
<1>1. waiting[l] \in Seq(Threads)
  BY DEF ListsInv, WaitSound
<1>2. Head(waiting[l]) \in Range(waiting[l]) /\ Head(waiting[l]) \in Threads
  BY <1>1, HeadInRange, HeadTailProperties
<1> QED
  BY <1>2 DEF ListsInv, WaitSound

\* So they are when nothing of it changes.
LEMMA ListsStay ==
  ASSUME ListsInv, UNCHANGED <<current, prio, stat, ready, waiting, timers>>
  PROVE  ResumedLists
BY DEF ListsInv, ResumedLists

\* Resuming the first waiter, if there is one, keeps the lists sound.
LEMMA ResumeFirstStep ==
  ASSUME ListsInv, NEW l \in Lists, prio' = prio, ResumeFirst(l)
  PROVE  ResumedLists
<1>1. CASE waiting[l] = <<>>
  BY <1>1, ListsStay DEF ResumeFirst
<1>2. CASE waiting[l] # <<>>
  <2>1. Resume(Head(waiting[l]), l, ready) /\ Head(waiting[l]) \in Range(waiting[l])
    BY <1>2, HeadWaits DEF ResumeFirst
  <2>2. prio' \in [Threads -> Priorities] /\ ReadySound(ready, stat, prio')
    BY DEF ListsInv
  <2> QED
    BY <2>1, <2>2, ResumeStep
<1> QED
  BY <1>1, <1>2

\* ... also when the thread that resumed it leaves its call or enters the next
\* part of it.
LEMMA FinishStep ==
  ASSUME ListsInv, ResumedLists,
         op' = op \/ \E t \in Threads, x \in Ops : stat[t] = "ready" /\ op' = [op EXCEPT ![t] = x]
  PROVE  ListsInv'
<1>1. op \in [Threads -> Ops]
  BY DEF ListsInv
<1>2. CASE op' = op
  BY <1>1, <1>2 DEF ListsInv, ResumedLists
<1>3. ASSUME NEW t \in Threads, NEW x \in Ops, stat[t] = "ready", op' = [op EXCEPT ![t] = x]
      PROVE  ListsInv'
  <2>1. stat'[t] = "ready" /\ stat' \in [Threads -> States] /\ WaitSound(waiting', stat', op)
    BY <1>3 DEF ResumedLists
  <2>2. WaitSound(waiting', stat', op')
    BY <1>1, <1>3, <2>1, SleepSound
  <2>3. op' \in [Threads -> Ops]
    BY <1>1, <1>3
  <2> QED
    BY <2>2, <2>3 DEF ListsInv, ResumedLists
<1> QED
  BY <1>2, <1>3

-----------------------------------------------------------------------------
(* Threads, semaphore, sleep and clock.                                    *)

\* 0 is a timeout and a tick.
LEMMA TimesHas == 0 \in Times /\ 0 \in 0 .. TickMod - 1
BY HalfTickIs, SMT DEF Times

\* The running thread is ready.
LEMMA CallerReady ==
  ASSUME ListsInv, NEW t \in Threads, current = t
  PROVE  stat[t] = "ready" /\ ReadySound(ready, stat, prio) /\ prio \in [Threads -> Priorities]
BY ThreadsAssumption DEF ListsInv

\* A step that leaves the lists alone keeps them sound.
LEMMA SameStep ==
  ASSUME ListsInv, UNCHANGED <<current, prio, stat, ready, waiting, timers, op>>
  PROVE  ListsInv'
BY DEF ListsInv

\* A running thread that only leaves its call keeps the lists sound.
LEMMA LeaveStep ==
  ASSUME ListsInv, NEW t \in Threads, current = t, NEW x \in Ops, op' = [op EXCEPT ![t] = x],
         ResumedLists
  PROVE  ListsInv'
BY CallerReady, FinishStep

\* rt_mb_send_wait, rt_mb_recv and rt_mq_recv, when they wait.
LEMMA AwaitStep ==
  ASSUME ListsInv, ScalarInv, NEW t \in Threads, current = t, NEW l \in Lists, NEW time \in Times,
         Await(t, l, time)
  PROVE  ListsInv' /\ ScalarInv'
<1>1. ListsInv'
  <2>1. Suspend(t, l, time, ready, prio) /\ prio' = prio
    BY DEF Await
  <2> QED
    BY <2>1, CallerReady, SuspendStep
<1>2. ScalarInv'
  BY TimesHas DEF ScalarInv, Await, Errors
<1> QED
  BY <1>1, <1>2

\* The semaphore keeps the lists sound.
LEMMA SemStep ==
  ASSUME ListsInv, ScalarInv, NEW t \in Threads, NEW time \in Times,
         SemTake(t, time) \/ SemTaken(t) \/ SemRelease
  PROVE  ListsInv' /\ ScalarInv'
<1>2. CASE SemTake(t, time) /\ ~ UNCHANGED tvars
  <2>1. /\ current = t /\ error' = [error EXCEPT ![t] = "ok"]
        /\ Suspend(t, SemList, time, ready, prio)
        /\ UNCHANGED <<lvars, rt_tick, masked, prio, semvars>>
    BY <1>2 DEF SemTake, Calls
  <2>2. ListsInv'
    BY <2>1, CallerReady, SuspendStep, SemaphoreAssumption
  <2>3. ScalarInv'
    BY <2>1 DEF ScalarInv, lvars, Errors
  <2> QED
    BY <2>2, <2>3
<1>3. CASE SemTaken(t)
  <2>1. current = t /\ op' = [op EXCEPT ![t] = "none"]
        /\ UNCHANGED <<lvars, rt_tick, masked, current, prio, stat, error, ready, waiting, timers, value>>
    BY <1>3 DEF SemTaken, Returns, Leave
  <2>2. ListsInv'
    BY <2>1, ListsStay, LeaveStep DEF Ops
  <2> QED
    BY <2>1, <2>2 DEF ScalarInv, lvars
<1>4. CASE SemRelease
  <2>1. UNCHANGED tvars \/ /\ waiting[SemList] # <<>>
                           /\ Resume(Head(waiting[SemList]), SemList, ready)
                           /\ UNCHANGED <<lvars, rt_tick, masked, prio, error, op, value>>
    BY <1>4 DEF SemRelease
  <2>2. CASE UNCHANGED tvars
    BY <2>2, SameStep DEF tvars, lvars, ScalarInv
  <2>3. CASE /\ waiting[SemList] # <<>>
             /\ Resume(Head(waiting[SemList]), SemList, ready)
             /\ UNCHANGED <<lvars, rt_tick, masked, prio, error, op, value>>
    <3>1. ResumeFirst(SemList) /\ prio' = prio /\ op' = op
      BY <2>3 DEF ResumeFirst
    <3>2. ListsInv'
      BY <3>1, ResumeFirstStep, FinishStep, SemaphoreAssumption
    <3> QED
      BY <2>3, <3>2 DEF ScalarInv, lvars
  <2> QED
    BY <2>1, <2>2, <2>3
<1>5. CASE SemTake(t, time) /\ UNCHANGED tvars
  BY <1>5, SameStep DEF tvars, lvars, ScalarInv
<1> QED
  BY <1>2, <1>3, <1>4, <1>5

\* rt_thread_sleep keeps the lists sound.
LEMMA SleepStep ==
  ASSUME ListsInv, ScalarInv, NEW t \in Threads, NEW time \in 1 .. HalfTick - 1,
         Sleep(t, time) \/ Awake(t)
  PROVE  ListsInv' /\ ScalarInv'
<1>1. CASE Sleep(t, time)
  <2>1. /\ current = t /\ stat' = [stat EXCEPT ![t] = "suspend"]
        /\ ready' = Unready(ready, prio[t], t) /\ timers' = TimerStarted(t, time)
        /\ current' = Highest(ready') /\ op' = [op EXCEPT ![t] = "sleep"]
        /\ UNCHANGED <<lvars, rt_tick, masked, prio, error, waiting>>
    BY <1>1 DEF Sleep, Calls
  <2>2. /\ stat[t] = "ready" /\ stat \in [Threads -> States] /\ op \in [Threads -> Ops]
        /\ WaitSound(waiting, stat, op) /\ TimerSound(timers, stat)
        /\ ReadySound(ready, stat, prio) /\ prio \in [Threads -> Priorities]
    BY <2>1, CallerReady DEF ListsInv
  <2>3. ReadySound(ready', stat', prio')
    BY <2>1, <2>2, UnreadySound
  <2>4. WaitSound(waiting', stat', op')
    BY <2>1, <2>2, SleepSound
  <2>5. TimerSound(timers', stat')
    <3>1. Plus(rt_tick, time) \in 0 .. TickMod - 1
      <4>1. time \in 0 .. HalfTick - 1 /\ rt_tick \in 0 .. TickMod - 1
        BY HalfTickIs, SMT DEF ScalarInv
      <4> QED
        BY <4>1, PlusIs
    <3> QED
      BY <2>1, <2>2, <3>1, TimerStartSound
  <2>6. current' \in Threads \cup {Idle} /\ (current' # Idle => stat'[current'] = "ready")
    BY <2>1, <2>3, HighestReady
  <2>7. stat' \in [Threads -> States] /\ op' \in [Threads -> Ops] /\ prio' = prio
    BY <2>1, <2>2 DEF States, Ops
  <2> QED
    BY <2>1, <2>2, <2>3, <2>4, <2>5, <2>6, <2>7 DEF ListsInv, ScalarInv, lvars
<1>2. CASE Awake(t)
  <2>1. /\ current = t /\ op' = [op EXCEPT ![t] = "none"]
        /\ error' = [error EXCEPT ![t] = IF @ = "timeout" THEN "ok" ELSE @]
        /\ UNCHANGED <<lvars, rt_tick, masked, current, prio, stat, ready, waiting, timers>>
    BY <1>2 DEF Awake, Returns, Leave
  <2>2. ListsInv'
    BY <2>1, ListsStay, LeaveStep DEF Ops
  <2> QED
    BY <2>1, <2>2 DEF ScalarInv, lvars, Errors
<1> QED
  BY <1>1, <1>2

\* The end of a time slice keeps the lists sound.
LEMMA YieldStep ==
  ASSUME ListsInv, UNCHANGED <<prio, stat, waiting, timers, op>>,
         \/ UNCHANGED <<ready, current>>
         \/ /\ current # Idle
            /\ ready' = Enready(Unready(ready, prio[current], current), prio[current], current)
            /\ current' = Highest(ready')
  PROVE  ListsInv'
<1>1. CASE UNCHANGED <<ready, current>>
  BY <1>1, SameStep
<1>2. CASE /\ current # Idle
           /\ ready' = Enready(Unready(ready, prio[current], current), prio[current], current)
           /\ current' = Highest(ready')
  <2>1. /\ current \in Threads /\ stat[current] = "ready" /\ prio[current] \in Priorities
        /\ stat \in [Threads -> States] /\ prio \in [Threads -> Priorities]
        /\ ReadySound(ready, stat, prio) /\ [prio EXCEPT ![current] = prio[current]] = prio
    BY <1>2 DEF ListsInv
  <2>2. ReadySound(ready', stat, [prio EXCEPT ![current] = prio[current]])
    BY <1>2, <2>1, RequeueSound
  <2>3. ReadySound(ready', stat', prio')
    BY <2>1, <2>2
  <2>4. current' \in Threads \cup {Idle} /\ (current' # Idle => stat'[current'] = "ready")
    BY <1>2, <2>3, HighestReady
  <2> QED
    BY <2>3, <2>4 DEF ListsInv
<1> QED
  BY <1>1, <1>2

\* A time-out takes a thread out of its suspend list, and keeps the lists sound.
LEMMA ExpireStep ==
  ASSUME ListsInv, ScalarInv, Expire
  PROVE  ListsInv' /\ ScalarInv'
<1> DEFINE t == Head(timers).thread
<1>1. /\ timers # <<>>
      /\ error' = [error EXCEPT ![t] = "timeout"]
      /\ stat' = [stat EXCEPT ![t] = "ready"]
      /\ waiting' = IF op[t] \in Lists THEN [waiting EXCEPT ![op[t]] = Without(@, t)] ELSE waiting
      /\ timers' = Tail(timers)
      /\ ready' = Enready(ready, prio[t], t)
      /\ current' = Highest(ready')
      /\ UNCHANGED <<lvars, rt_tick, masked, prio, op>>
  BY DEF Expire, Expired
<1>2. /\ stat \in [Threads -> States] /\ op \in [Threads -> Ops] /\ prio \in [Threads -> Priorities]
      /\ WaitSound(waiting, stat, op) /\ TimerSound(timers, stat) /\ ReadySound(ready, stat, prio)
  BY DEF ListsInv
<1>3. /\ t \in Threads /\ stat[t] = "suspend"
      /\ TimerSound(Tail(timers), [stat EXCEPT ![t] = "ready"])
  BY <1>1, <1>2, TimerTailSound
<1> HIDE DEF t
<1>4. op[t] \in Lists \cup {"sleep"}
  BY <1>2, <1>3 DEF WaitSound
<1>5. WaitSound(waiting', stat', op')
  <2>1. CASE op[t] \in Lists
    <3>1. t \in Range(waiting[op[t]])
      BY <1>2, <1>3, <2>1 DEF WaitSound
    <3>2. WaitSound([waiting EXCEPT ![op[t]] = Without(@, t)], [stat EXCEPT ![t] = "ready"], op)
      BY <1>2, <2>1, <3>1, WakeSound
    <3> QED
      BY <1>1, <2>1, <3>2
  <2>2. CASE op[t] \notin Lists
    <3>1. WaitSound(waiting, [stat EXCEPT ![t] = "ready"], op)
      BY <1>2, <1>3, <1>4, <2>2, SleepSound
    <3> QED
      BY <1>1, <2>2, <3>1
  <2> QED
    BY <2>1, <2>2
<1>6. ReadySound(ready', stat', prio')
  <2>1. prio[t] \in Priorities /\ [prio EXCEPT ![t] = prio[t]] = prio
    BY <1>2, <1>3
  <2>2. ReadySound(Enready(ready, prio[t], t), [stat EXCEPT ![t] = "ready"], [prio EXCEPT ![t] = prio[t]])
    BY <1>2, <1>3, <2>1, EnreadySound
  <2> QED
    BY <1>1, <2>1, <2>2
<1>7. current' \in Threads \cup {Idle} /\ (current' # Idle => stat'[current'] = "ready")
  BY <1>1, <1>6, HighestReady
<1>8. stat' \in [Threads -> States]
  BY <1>1, <1>2 DEF States
<1>9. ListsInv'
  BY <1>1, <1>2, <1>3, <1>5, <1>6, <1>7, <1>8 DEF ListsInv
<1>10. ScalarInv'
  BY <1>1 DEF ScalarInv, lvars, Errors
<1> QED
  BY <1>9, <1>10

\* The clock interrupt keeps the lists sound.
LEMMA ClockStep ==
  ASSUME ListsInv, ScalarInv, Tick \/ Expire \/ TickEnd
  PROVE  ListsInv' /\ ScalarInv'
<1>1. CASE Tick
  <2>1. ListsInv'
    <3>1. /\ UNCHANGED <<prio, stat, waiting, timers, op>>
          /\ \/ UNCHANGED <<ready, current>>
             \/ /\ current # Idle
                /\ ready' = Enready(Unready(ready, prio[current], current), prio[current], current)
                /\ current' = Highest(ready')
      BY <1>1 DEF Tick
    <3> QED
      BY <3>1, YieldStep
  <2>2. rt_tick' \in 0 .. TickMod - 1
    <3>1. rt_tick' = Plus(rt_tick, 1) /\ rt_tick \in 0 .. TickMod - 1 /\ 1 \in 0 .. HalfTick - 1
      BY <1>1, HalfTickIs, SMT DEF Tick, ScalarInv
    <3> QED
      BY <3>1, PlusIs
  <2> QED
    BY <1>1, <2>1, <2>2 DEF Tick, ScalarInv, lvars
<1>2. CASE TickEnd
  BY <1>2, SameStep DEF TickEnd, ScalarInv, lvars
<1> QED
  BY <1>1, <1>2, ExpireStep

-----------------------------------------------------------------------------
(* Mutexes.                                                                *)

\* The type of the mutexes; one without owner is not held, and one with an
\* owner knows the priority to give back.
MutexType ==
  /\ mvalue \in [Mutexes -> {0, 1}] /\ owner \in [Mutexes -> Threads \cup {Idle}]
  /\ hold \in [Mutexes -> Nat] /\ original \in [Mutexes -> Priorities \cup {None}]
  /\ locks \in [Mutexes -> [Threads -> Nat]]
  /\ \A m \in Mutexes : owner[m] # Idle => original[m] \in Priorities
  /\ \A m \in Mutexes : owner[m] = Idle => hold[m] = 0

MutexInv == MutexType /\ MutexSound

\* A change of priority keeps the ready table sound.
LEMMA RequeuedSound ==
  ASSUME ListsInv, NEW u \in Threads, NEW p \in Priorities, prio' = [prio EXCEPT ![u] = p]
  PROVE  prio' \in [Threads -> Priorities] /\ ReadySound(Requeued(u, p), stat, prio')
<1>1. /\ stat \in [Threads -> States] /\ prio \in [Threads -> Priorities]
      /\ ReadySound(ready, stat, prio)
  BY DEF ListsInv
<1>2. stat[u] = "ready" \/ stat[u] = "suspend"
  BY <1>1 DEF States
<1>3. CASE stat[u] = "ready"
  BY <1>1, <1>3, RequeueSound DEF Requeued
<1>4. CASE stat[u] = "suspend"
  BY <1>1, <1>4, RequeueSound DEF Requeued
<1> QED
  BY <1>1, <1>2, <1>3, <1>4

\* Waiting for a mutex, and lending its owner the priority, keeps the lists
\* sound: a mutex that is not free has an owner.
LEMMA MutexWaitLists ==
  ASSUME ListsInv, ScalarInv, MutexInv, NEW t \in Threads, NEW m \in Mutexes, NEW time \in Times,
         MutexWait(t, m, time)
  PROVE  ListsInv' /\ ScalarInv'
<1>1. /\ current = t /\ owner[m] # t /\ mvalue[m] = 0 /\ m \in Lists
      /\ UNCHANGED <<lvars, rt_tick, masked, mvars>>
  BY MutexAssumption DEF MutexWait, Calls
<1>2. owner[m] \in Threads
  BY <1>1, SMT DEF MutexInv, MutexType, MutexSound
<1>3. ASSUME error' = [error EXCEPT ![t] = "timeout"],
             UNCHANGED <<current, prio, stat, ready, waiting, timers, op>>
      PROVE  ListsInv' /\ ScalarInv'
  BY <1>1, <1>3, SameStep DEF ScalarInv, lvars, Errors
<1>4. ASSUME error' = [error EXCEPT ![t] = "ok"], prio[t] < prio[owner[m]],
             prio' = [prio EXCEPT ![owner[m]] = prio[t]],
             Suspend(t, m, time, Requeued(owner[m], prio[t]), prio')
      PROVE  ListsInv' /\ ScalarInv'
  <2>1. stat[t] = "ready" /\ prio[t] \in Priorities
    BY <1>1, CallerReady
  <2>2. prio' \in [Threads -> Priorities] /\ ReadySound(Requeued(owner[m], prio[t]), stat, prio')
    BY <1>2, <1>4, <2>1, RequeuedSound
  <2>3. prio'[t] = prio[t]
    BY <1>1, <1>4 DEF ListsInv
  <2>4. ListsInv'
    BY <1>1, <1>4, <2>1, <2>2, <2>3, SuspendStep
  <2> QED
    BY <1>1, <1>4, <2>4 DEF ScalarInv, lvars, Errors
<1>5. ASSUME error' = [error EXCEPT ![t] = "ok"], prio' = prio, Suspend(t, m, time, ready, prio)
      PROVE  ListsInv' /\ ScalarInv'
  <2>1. ListsInv'
    BY <1>1, <1>5, CallerReady, SuspendStep
  <2> QED
    BY <1>1, <1>5, <2>1 DEF ScalarInv, lvars, Errors
<1> QED
  BY <1>3, <1>4, <1>5 DEF MutexWait

\* Releasing a mutex gives its owner back a priority there is, and keeps the
\* lists sound.
LEMMA MutexReleaseLists ==
  ASSUME ListsInv, ScalarInv, MutexInv, NEW t \in Threads, NEW m \in Mutexes, MutexRelease(t, m)
  PROVE  ListsInv' /\ ScalarInv'
<1> DEFINE w == Head(waiting[m])
           r == IF prio[t] # original[m] THEN Requeued(t, original[m]) ELSE ready
<1>1. /\ current = t /\ owner[m] = t /\ m \in Lists
      /\ prio' = [prio EXCEPT ![t] = original[m]]
      /\ \/ waiting[m] # <<>> /\ Resume(w, m, r)
         \/ ready' = r /\ UNCHANGED <<current, stat, waiting, timers>>
      /\ UNCHANGED <<lvars, rt_tick, masked, error, op>>
  BY MutexAssumption DEF MutexRelease, Calls
<1>2. original[m] \in Priorities
  BY <1>1, ThreadsAssumption DEF MutexInv, MutexType
<1>3. prio' \in [Threads -> Priorities] /\ ReadySound(r, stat, prio')
  <2>1. CASE prio[t] # original[m]
    BY <1>1, <1>2, <2>1, RequeuedSound
  <2>2. CASE prio[t] = original[m]
    <3>1. prio' = prio
      BY <1>1, <2>2 DEF ListsInv
    <3> QED
      BY <2>2, <3>1 DEF ListsInv
  <2> QED
    BY <2>1, <2>2
<1>4. ResumedLists
  <2>1. CASE waiting[m] # <<>> /\ Resume(w, m, r)
    <3>1. w \in Range(waiting[m]) /\ w \in Threads /\ stat[w] = "suspend"
      BY <1>1, <2>1, HeadWaits
    <3>2. w # t
      BY <1>1, <3>1, CallerReady
    <3>3. prio'[w] = prio[w]
      BY <1>1, <3>1, <3>2 DEF ListsInv
    <3> HIDE DEF w, r
    <3> QED
      BY <1>1, <1>3, <2>1, <3>1, <3>3, ResumeStep
  <2>2. CASE ready' = r /\ UNCHANGED <<current, stat, waiting, timers>>
    <3> HIDE DEF r
    <3> QED
      BY <1>3, <2>2 DEF ResumedLists, ListsInv
  <2> QED
    BY <1>1, <2>1, <2>2
<1>5. ListsInv'
  BY <1>1, <1>4, FinishStep
<1> QED
  BY <1>1, <1>5 DEF ScalarInv, lvars

\* The mutexes keep the lists sound.
LEMMA MutexLists ==
  ASSUME ListsInv, ScalarInv, MutexInv, NEW t \in Threads, NEW m \in Mutexes, NEW time \in Times,
         \/ MutexTake(t, m) \/ MutexWait(t, m, time) \/ MutexTaken(t, m)
         \/ MutexUnnest(t, m) \/ MutexRelease(t, m) \/ MutexRefused(t, m)
  PROVE  ListsInv' /\ ScalarInv'
<1>1. CASE MutexTake(t, m)
  BY <1>1, SameStep DEF MutexTake, ScalarInv, lvars, Errors
<1>2. CASE MutexTaken(t, m)
  <2>1. /\ current = t /\ op' = [op EXCEPT ![t] = "none"]
        /\ UNCHANGED <<lvars, rt_tick, masked, current, prio, stat, error, ready, waiting, timers>>
    BY <1>2 DEF MutexTaken, Returns, Leave
  <2>2. ListsInv'
    BY <2>1, ListsStay, LeaveStep DEF Ops
  <2> QED
    BY <2>1, <2>2 DEF ScalarInv, lvars
<1>3. CASE MutexUnnest(t, m)
  BY <1>3, SameStep DEF MutexUnnest, ScalarInv, tvars, lvars
<1>4. CASE MutexRefused(t, m)
  BY <1>4, SameStep DEF MutexRefused, ScalarInv, lvars, Errors
<1> QED
  BY <1>1, <1>2, <1>3, <1>4, MutexWaitLists, MutexReleaseLists

-----------------------------------------------------------------------------
(* Event, mailbox, message queue and memory pool.                          *)

\* The threads the loop of rt_event_send has still to look at are waiting.
LoopInv ==
  /\ todo \in Seq(Threads) /\ IsInjective(todo)
  /\ Range(todo) \subseteq Range(waiting[EvList])
  /\ masked = "event" <=> todo # <<>>

\* The first waiter is resumed while the running thread may leave its call.
LEMMA ResumeLeaveStep ==
  ASSUME ListsInv, NEW l \in Lists, ResumeFirst(l), prio' = prio, NEW t \in Threads,
         op' = op \/ (current = t /\ op' = [op EXCEPT ![t] = "none"])
  PROVE  ListsInv'
<1>1. ResumedLists
  BY ResumeFirstStep
<1> QED
  BY <1>1, CallerReady, FinishStep DEF Ops

\* The event object keeps the lists sound: the loop of rt_event_send resumes
\* only threads that still wait.
LEMMA EventLists ==
  ASSUME ListsInv, ScalarInv, LoopInv, NEW t \in Threads, NEW set, NEW opt, NEW time \in Times,
         EvSend(set) \/ EvLook \/ EvRecv(t, set, opt, time) \/ EvReceived(t)
  PROVE  ListsInv' /\ ScalarInv'
<1>1. CASE EvSend(set)
  BY <1>1, SameStep DEF EvSend, ScalarInv, lvars
<1>2. CASE EvLook
  <2>1. /\ Resume(Head(todo), EvList, ready) \/ UNCHANGED <<current, stat, ready, waiting, timers>>
        /\ masked = "event" /\ masked' \in {"no", "event"}
        /\ UNCHANGED <<lvars, rt_tick, prio, error, op>>
    BY <1>2 DEF EvLook
  <2>2. ResumedLists
    <3>1. CASE Resume(Head(todo), EvList, ready)
      <4>1. Head(todo) \in Range(waiting[EvList])
        BY <2>1, HeadInRange DEF LoopInv
      <4>2. prio' \in [Threads -> Priorities] /\ ReadySound(ready, stat, prio') /\ prio' = prio
        BY <2>1 DEF ListsInv
      <4> QED
        BY <3>1, <4>1, <4>2, ResumeStep, EventAssumption
    <3>2. CASE UNCHANGED <<current, stat, ready, waiting, timers>>
      BY <2>1, <3>2, ListsStay
    <3> QED
      BY <2>1, <3>1, <3>2
  <2>3. ListsInv'
    BY <2>1, <2>2, FinishStep
  <2> QED
    BY <2>1, <2>3 DEF ScalarInv, lvars
<1>3. CASE EvRecv(t, set, opt, time)
  <2>1. /\ current = t
        /\ \E e \in Errors : error' = [error EXCEPT ![t] = e]
        /\ UNCHANGED <<lvars, rt_tick, masked, prio>>
        /\ \/ UNCHANGED <<current, stat, ready, waiting, timers, op>>
           \/ Suspend(t, EvList, time, ready, prio)
    BY <1>3 DEF EvRecv, Calls, Errors
  <2>2. ListsInv'
    <3>1. CASE UNCHANGED <<current, stat, ready, waiting, timers, op>>
      BY <2>1, <3>1, SameStep
    <3>2. CASE Suspend(t, EvList, time, ready, prio)
      BY <2>1, <3>2, CallerReady, SuspendStep, EventAssumption
    <3> QED
      BY <2>1, <3>1, <3>2
  <2> QED
    BY <2>1, <2>2 DEF ScalarInv, lvars
<1>4. CASE EvReceived(t)
  <2>1. current = t /\ op' = [op EXCEPT ![t] = "none"]
        /\ UNCHANGED <<lvars, rt_tick, masked, current, prio, stat, error, ready, waiting, timers>>
    BY <1>4 DEF EvReceived, Returns, Leave
  <2>2. ListsInv'
    BY <2>1, ListsStay, LeaveStep DEF Ops
  <2> QED
    BY <2>1, <2>2 DEF ScalarInv, lvars
<1> QED
  BY <1>1, <1>2, <1>3, <1>4

\* Outside of rt_event_send its loop has nothing left to look at.
LEMMA LoopStays ==
  ASSUME LoopInv, masked # "event", masked' # "event", todo' = todo
  PROVE  LoopInv'
<1>1. todo' = <<>> /\ todo' = todo
  BY DEF LoopInv
<1>2. Range(todo') = {}
  BY <1>1 DEF Range
<1> QED
  BY <1>1, <1>2 DEF LoopInv

\* What the loop of rt_event_send has not looked at still waits for the event.
LEMMA LoopStep ==
  ASSUME ListsInv, LoopInv, NEW set, EvSend(set) \/ EvLook
  PROVE  LoopInv'
<1>1. CASE EvSend(set)
  BY <1>1, EventAssumption DEF EvSend, LoopInv, ListsInv, WaitSound
<1>2. CASE EvLook
  <2> DEFINE t == Head(todo)
  <2>1. /\ todo # <<>> /\ todo' = Tail(todo)
        /\ masked' = "event" <=> Tail(todo) # <<>>
        /\ \/ waiting' = [waiting EXCEPT ![EvList] = Without(@, t)]
           \/ waiting' = waiting
    BY <1>2 DEF EvLook, Resume, LoopInv
  <2>2. /\ Tail(todo) = RemoveAt(todo, 1) /\ 1 \in 1 .. Len(todo) /\ todo[1] = t /\ t \in Range(todo)
        /\ Tail(todo) \in Seq(Threads)
    BY <2>1, TailIs, HeadInRange, HeadTailProperties DEF LoopInv
  <2> HIDE DEF t
  <2>3. IsInjective(Tail(todo)) /\ Range(Tail(todo)) = Range(todo) \ {t}
    BY <2>2, RemoveAtRange DEF LoopInv
  <2>4. Range(Tail(todo)) \subseteq Range(waiting'[EvList])
    <3>1. CASE waiting' = [waiting EXCEPT ![EvList] = Without(@, t)]
      <4>1. waiting[EvList] \in Seq(Threads) /\ IsInjective(waiting[EvList]) /\ t \in Range(waiting[EvList])
        BY <2>2, EventAssumption DEF ListsInv, WaitSound, LoopInv
      <4>2. Range(Without(waiting[EvList], t)) = Range(waiting[EvList]) \ {t}
        BY <4>1, WithoutIs
      <4>3. waiting'[EvList] = Without(waiting[EvList], t)
        BY <3>1, EventAssumption DEF ListsInv, WaitSound
      <4> QED
        BY <2>3, <4>2, <4>3 DEF LoopInv
    <3>2. CASE waiting' = waiting
      BY <2>3, <3>2 DEF LoopInv
    <3> QED
      BY <2>1, <3>1, <3>2
  <2> QED
    BY <2>1, <2>2, <2>3, <2>4 DEF LoopInv
<1> QED
  BY <1>1, <1>2

\* An interrupt that resumes the first waiter keeps the lists sound.
LEMMA PostLists ==
  ASSUME ListsInv, ScalarInv, NEW l \in Lists, ResumeFirst(l),
         UNCHANGED <<lvars, rt_tick, masked, prio, error, op>>
  PROVE  ListsInv' /\ ScalarInv'
<1>1. ListsInv'
  BY ResumeFirstStep, FinishStep
<1> QED
  BY <1>1 DEF ScalarInv, lvars

\* ... as does a thread at the end of a call that may have waited.
LEMMA DepositLists ==
  ASSUME ListsInv, ScalarInv, NEW t \in Threads, NEW l \in Lists, ResumeFirst(l),
         UNCHANGED <<rt_tick, masked, prio, error>>, current = t, LeaveLoop(t)
  PROVE  ListsInv' /\ ScalarInv'
<1>1. ListsInv'
  BY ResumeLeaveStep DEF LeaveLoop, Leave
<1>2. ScalarInv'
  BY TimesHas DEF ScalarInv, LeaveLoop, lvars
<1> QED
  BY <1>1, <1>2

\* ... and one whose call ends with an error.
LEMMA GiveUpLists ==
  ASSUME ListsInv, ScalarInv, NEW t \in Threads, current = t, LeaveLoop(t),
         error' = error \/ \E e \in Errors : error' = [error EXCEPT ![t] = e],
         UNCHANGED <<rt_tick, masked, current, prio, stat, ready, waiting, timers>>
  PROVE  ListsInv' /\ ScalarInv'
<1>1. ListsInv'
  BY ListsStay, LeaveStep DEF Ops, LeaveLoop, Leave
<1>2. ScalarInv'
  BY TimesHas DEF ScalarInv, LeaveLoop
<1> QED
  BY <1>1, <1>2

\* The mailbox keeps the lists sound.
LEMMA MailLists ==
  ASSUME ListsInv, ScalarInv, NEW t \in Threads, NEW m, NEW time \in Times,
         \/ MbSend(t, m, time) \/ MbPost(m) \/ MbSendGoesOn(t)
         \/ MbRecv(t, time) \/ MbRecvGoesOn(t)
  PROVE  ListsInv' /\ ScalarInv'
<1> USE MailboxAssumption
<1>1. CASE MbSend(t, m, time)
  <2>1. CASE Deposit(m) /\ UNCHANGED <<lvars, op>>
    BY <2>1, PostLists DEF Deposit
  <2>2. CASE current = t /\ Await(t, SendList, time)
    BY <2>2, AwaitStep
  <2> QED
    BY <1>1, <2>1, <2>2 DEF MbSend, Calls
<1>2. CASE MbPost(m)
  BY <1>2, PostLists DEF MbPost, Deposit
<1>3. CASE MbSendGoesOn(t)
  <2>1. CASE /\ current = t /\ LeaveLoop(t)
             /\ UNCHANGED <<rt_tick, masked, current, prio, stat, error, ready, waiting, timers>>
    BY <2>1, GiveUpLists
  <2>2. CASE current = t /\ Deposit(mail[t]) /\ LeaveLoop(t)
    BY <2>2, DepositLists DEF Deposit
  <2>3. CASE current = t /\ Await(t, SendList, Remaining(t))
    BY <2>3, RemainingIs, AwaitStep
  <2> QED
    BY <1>3, <2>1, <2>2, <2>3 DEF MbSendGoesOn, Returns
<1>4. CASE MbRecv(t, time)
  <2>1. CASE Collect(t) /\ UNCHANGED <<lvars, op>>
    BY <2>1, PostLists DEF Collect
  <2>2. CASE current = t /\ Await(t, RecvList, time)
    BY <2>2, AwaitStep
  <2> QED
    BY <1>4, <2>1, <2>2 DEF MbRecv, Calls
<1>5. CASE MbRecvGoesOn(t)
  <2>1. CASE /\ current = t /\ LeaveLoop(t)
             /\ error' = [error EXCEPT ![t] = IF @ = "ok" THEN "timeout" ELSE @]
             /\ UNCHANGED <<rt_tick, masked, current, prio, stat, ready, waiting, timers>>
    <3>1. \E e \in Errors : error' = [error EXCEPT ![t] = e]
      BY <2>1 DEF ScalarInv, Errors
    <3> QED
      BY <2>1, <3>1, GiveUpLists
  <2>2. CASE current = t /\ Collect(t) /\ LeaveLoop(t)
    BY <2>2, DepositLists DEF Collect
  <2>3. CASE current = t /\ Await(t, RecvList, Remaining(t))
    BY <2>3, RemainingIs, AwaitStep
  <2> QED
    BY <1>5, <2>1, <2>2, <2>3 DEF MbRecvGoesOn, Returns
<1> QED
  BY <1>1, <1>2, <1>3, <1>4, <1>5

\* The message queue keeps the lists sound.
LEMMA QueueLists ==
  ASSUME ListsInv, ScalarInv, NEW t \in Threads, NEW m, NEW urgent, NEW time \in Times,
         \/ MqSend(t, m, urgent) \/ MqLink(t) \/ MqPost(m, urgent)
         \/ MqRecv(t, time) \/ MqRecvGoesOn(t) \/ MqFree(t)
  PROVE  ListsInv' /\ ScalarInv'
<1> USE MessageQueueAssumption
<1>0. ASSUME current = t, NEW x \in Ops, op' = [op EXCEPT ![t] = x],
             UNCHANGED <<rt_tick, masked, current, prio, stat, error, ready, waiting, timers>>,
             \/ UNCHANGED lvars
             \/ left' = [left EXCEPT ![t] = 0] /\ since' = [since EXCEPT ![t] = 0]
      PROVE  ListsInv' /\ ScalarInv'
  <2>1. ListsInv'
    BY <1>0, ListsStay, LeaveStep
  <2> QED
    BY <1>0, <2>1, TimesHas DEF ScalarInv, lvars
<1>1. CASE MqSend(t, m, urgent)
  BY <1>0, <1>1 DEF MqSend, Calls, Ops
<1>2. CASE MqLink(t)
  <2>1. ListsInv'
    BY <1>2, ResumeLeaveStep DEF MqLink, Returns, Leave
  <2> QED
    BY <1>2, <2>1 DEF MqLink, ScalarInv, lvars
<1>3. CASE MqPost(m, urgent)
  BY <1>3, PostLists DEF MqPost
<1>4. CASE MqFree(t)
  BY <1>0, <1>4 DEF MqFree, Returns, Leave, Ops
<1>5. ASSUME current = t, MqUnlink(t)
      PROVE  ListsInv' /\ ScalarInv'
  BY <1>0, <1>5 DEF MqUnlink, Ops
<1>6. CASE MqRecv(t, time)
  <2>1. CASE current = t /\ Await(t, MqList, time)
    BY <2>1, AwaitStep
  <2> QED
    BY <1>5, <1>6, <2>1 DEF MqRecv, Calls
<1>7. CASE MqRecvGoesOn(t)
  <2>1. CASE /\ current = t /\ LeaveLoop(t)
             /\ error' = [error EXCEPT ![t] = IF @ = "ok" THEN "timeout" ELSE @]
             /\ UNCHANGED <<rt_tick, masked, current, prio, stat, ready, waiting, timers>>
    <3>1. \E e \in Errors : error' = [error EXCEPT ![t] = e]
      BY <2>1 DEF ScalarInv, Errors
    <3> QED
      BY <2>1, <3>1, GiveUpLists
  <2>2. CASE current = t /\ Await(t, MqList, Remaining(t))
    BY <2>2, RemainingIs, AwaitStep
  <2> QED
    BY <1>5, <1>7, <2>1, <2>2 DEF MqRecvGoesOn, Returns
<1> QED
  BY <1>1, <1>2, <1>3, <1>4, <1>6, <1>7

\* The memory pool keeps the lists sound.
LEMMA PoolLists ==
  ASSUME ListsInv, ScalarInv, NEW t \in Threads, NEW b, NEW time \in Times,
         MpAlloc(t, time) \/ MpAllocated(t) \/ MpFree(b)
  PROVE  ListsInv' /\ ScalarInv'
<1> USE MemPoolAssumption
<1>0. CASE UNCHANGED tvars
  BY <1>0, SameStep DEF tvars, lvars, ScalarInv
<1>1. CASE /\ current = t /\ Suspend(t, PoolList, time, ready, prio)
           /\ UNCHANGED <<lvars, rt_tick, masked, prio, error>>
  <2>1. ListsInv'
    BY <1>1, CallerReady, SuspendStep
  <2> QED
    BY <1>1, <2>1 DEF ScalarInv, lvars
<1>2. CASE MpAllocated(t)
  <2>1. current = t /\ op' = [op EXCEPT ![t] = "none"]
        /\ UNCHANGED <<lvars, rt_tick, masked, current, prio, stat, error, ready, waiting, timers>>
    BY <1>2 DEF MpAllocated, Returns, Leave
  <2>2. ListsInv'
    BY <2>1, ListsStay, LeaveStep DEF Ops
  <2> QED
    BY <2>1, <2>2 DEF ScalarInv, lvars
<1>3. CASE /\ waiting[PoolList] # <<>>
           /\ error' = [error EXCEPT ![Head(waiting[PoolList])] = "ok"]
           /\ Resume(Head(waiting[PoolList]), PoolList, ready)
           /\ UNCHANGED <<lvars, rt_tick, masked, prio, op>>
  <2>1. ResumeFirst(PoolList) /\ prio' = prio /\ op' = op
    BY <1>3 DEF ResumeFirst
  <2>2. ListsInv'
    BY <2>1, ResumeFirstStep, FinishStep
  <2> QED
    BY <1>3, <2>2 DEF ScalarInv, lvars, Errors
<1> QED
  BY <1>0, <1>1, <1>2, <1>3 DEF MpAlloc, MpFree, Calls

-----------------------------------------------------------------------------
(* What the actions of the other objects leave alone.                      *)

\* A release has handed the object of list l to thread t.
Granted(t, l) == op[t] = l /\ stat[t] = "ready" /\ error[t] = "ok"

\* The error of a thread that waits in one of the lists L is RT_EOK until it
\* times out: a release need not set it.
WaitOk(L) == \A t \in Threads : stat[t] = "suspend" /\ op[t] \in L => error[t] = "ok"

\* A step that has nothing to do with the lists L: each thread is outside of
\* their calls, stays as it is, or times out.
Quiet(L) ==
  \A t \in Threads :
    \/ op[t] \notin L /\ op'[t] \notin L
    \/ op'[t] = op[t] /\ stat'[t] = stat[t] /\ error'[t] = error[t]
    \/ op'[t] = op[t] /\ stat[t] = "suspend" /\ stat'[t] = "ready" /\ error'[t] = "timeout"

\* A step that grants nothing of the lists L: in it a thread may also start to
\* wait.
Untouched(L) ==
  \A t \in Threads :
    \/ op[t] \notin L /\ op'[t] \notin L
    \/ op[t] \notin L /\ stat'[t] = "suspend" /\ error'[t] = "ok"
    \/ op'[t] = op[t] /\ stat'[t] = stat[t] /\ error'[t] = error[t]
    \/ op'[t] = op[t] /\ stat[t] = "suspend" /\ stat'[t] = "ready" /\ error'[t] = "timeout"

\* Such a step grants nothing and takes nothing back.
LEMMA UntouchedIs ==
  ASSUME NEW L, Untouched(L)
  PROVE  /\ WaitOk(L) => WaitOk(L)'
         /\ \A t \in Threads, l \in L : Granted(t, l)' <=> Granted(t, l)
<1>1. "suspend" # "ready" /\ "timeout" # "ok"
  OBVIOUS
<1> QED
  BY <1>1 DEF Untouched, WaitOk, Granted

\* What has nothing to do with the lists L grants nothing of any of them.
LEMMA QuietIs ==
  ASSUME NEW L, Quiet(L), NEW M \in SUBSET L
  PROVE  Quiet(M) /\ Untouched(M)
BY DEF Quiet, Untouched

\* The names of the other calls are no lists.
LEMMA NamesIs ==
  ASSUME NEW L \in SUBSET Lists
  PROVE  L \cap {"none", "sleep", "fill", "copy"} = {}
BY ThreadsAssumption

\* A thread outside of these calls changes only its own error or call.
LEMMA SameFrame ==
  ASSUME ListsInv, ScalarInv, NEW L, NEW t \in Threads, op[t] \notin L, UNCHANGED stat,
         error' = error \/ \E e \in Errors : error' = [error EXCEPT ![t] = e],
         op' = op \/ \E x \in Ops \ L : op' = [op EXCEPT ![t] = x]
  PROVE  Quiet(L)
BY DEF Quiet, ListsInv, ScalarInv

\* A thread starts to wait in another list.
LEMMA SuspendFrame ==
  ASSUME ListsInv, ScalarInv, NEW L, NEW t \in Threads, op[t] \notin L, NEW l \in Lists \ L,
         NEW time, NEW r, NEW pr, Suspend(t, l, time, r, pr),
         error' = [error EXCEPT ![t] = "ok"] \/ error' = error
  PROVE  Quiet(L)
BY DEF Quiet, ListsInv, ScalarInv, Suspend

\* A thread is resumed that waits in another list.
LEMMA ResumeFrame ==
  ASSUME ListsInv, ScalarInv, NEW L, NEW l \in Lists \ L, NEW w \in Range(waiting[l]), NEW r,
         Resume(w, l, r), op' = op,
         error' = error \/ error' = [error EXCEPT ![w] = "ok"]
  PROVE  Quiet(L)
<1>1. w \in Threads /\ op[w] = l /\ stat' = [stat EXCEPT ![w] = "ready"]
  <2>1. /\ stat \in [Threads -> States] /\ op \in [Threads -> Ops]
        /\ WaitSound(waiting, stat, op)
    BY Zenon DEF ListsInv
  <2>2. waiting[l] \in Seq(Threads)
        /\ \A t \in Threads : stat[t] = "suspend" /\ op[t] = l <=> t \in Range(waiting[l])
    BY <2>1 DEF WaitSound
  <2>3. w \in Threads
    BY <2>2, LenProperties, ElementOfSeq DEF Range
  <2>4. op[w] = l
    BY <2>2, <2>3, Zenon
  <2>5. stat' = [stat EXCEPT ![w] = "ready"]
    BY Zenon DEF Resume
  <2> QED
    BY <2>3, <2>4, <2>5, Zenon
<1> QED
  BY <1>1 DEF Quiet, ListsInv, ScalarInv

\* ... or the first one of another list is, if there is one.
LEMMA ResumeFirstFrame ==
  ASSUME ListsInv, ScalarInv, NEW L, NEW l \in Lists \ L, ResumeFirst(l), error' = error,
         \/ op' = op
         \/ \E t \in Threads : op[t] \notin L /\ op' = [op EXCEPT ![t] = "none"],
         "none" \notin L
  PROVE  Quiet(L)
<1>1. stat' = stat \/ \E w \in Threads : op[w] = l /\ stat' = [stat EXCEPT ![w] = "ready"]
  BY HeadWaits DEF ResumeFirst, Resume
<1> QED
  BY <1>1 DEF Quiet, ListsInv, ScalarInv

\* A thread that times out only times out.
LEMMA ExpireFrame ==
  ASSUME ListsInv, ScalarInv, NEW L, Expire
  PROVE  Quiet(L)
<1> DEFINE t == Head(timers).thread
<1>1. /\ timers # <<>>
      /\ error' = [error EXCEPT ![t] = "timeout"] /\ stat' = [stat EXCEPT ![t] = "ready"]
      /\ op' = op
  BY DEF Expire, Expired
<1>2. t \in Threads /\ stat[t] = "suspend"
  BY <1>1, TimerTailSound DEF ListsInv
<1> HIDE DEF t
<1> QED
  BY <1>1, <1>2 DEF Quiet, ListsInv, ScalarInv

\* The lists whose objects a release hands over.
Owned == {Mutexes, {SemList}}

\* The suspend lists of the mutexes and of the semaphore are no others.
LEMMA OwnedIs ==
  ASSUME NEW L \in Owned
  PROVE  /\ L \subseteq Lists
         /\ L \cap {"none", "sleep", "fill", "copy"} = {}
         /\ L \cap {EvList, RecvList, SendList, MqList, PoolList} = {}
<1> DEFINE s == <<SemList, EvList, RecvList, SendList, MqList, PoolList>>
<1>1. DOMAIN s = 1 .. 6 /\ IsInjective(s)
  BY KernelAssumption
<1>2. \A i \in 2 .. 6 : s[i] # s[1]
  BY <1>1, SMT DEF IsInjective
<1>3. SemList \notin {EvList, RecvList, SendList, MqList, PoolList}
  <2>1. s[2] # s[1] /\ s[3] # s[1] /\ s[4] # s[1] /\ s[5] # s[1] /\ s[6] # s[1]
    BY <1>2, SMT
  <2> QED
    BY <2>1
<1>4. L \subseteq Lists
  BY SemaphoreAssumption, MutexAssumption DEF Owned
<1>5. L \cap {EvList, RecvList, SendList, MqList, PoolList} = {}
  BY <1>3, KernelAssumption DEF Owned
<1> QED
  BY <1>4, <1>5, ThreadsAssumption

\* The event object has nothing to do with other lists.
LEMMA EventFrame ==
  ASSUME ListsInv, ScalarInv, LoopInv, NEW L \in SUBSET Lists, EvList \notin L,
         NEW t \in Threads, NEW set, NEW opt, NEW time \in Times,
         EvSend(set) \/ EvLook \/ EvRecv(t, set, opt, time) \/ EvReceived(t)
  PROVE  Quiet(L)
<1> USE NamesIs, EventAssumption
<1>1. CASE EvSend(set)
  BY <1>1 DEF EvSend, Quiet
<1>2. CASE EvLook
  <2>1. Head(todo) \in Range(waiting[EvList])
    BY <1>2, HeadInRange DEF LoopInv, EvLook
  <2>2. CASE Resume(Head(todo), EvList, ready) /\ error' = error /\ op' = op
    BY <2>1, <2>2, ResumeFrame
  <2>3. CASE UNCHANGED <<stat, error, op>>
    BY <2>3 DEF Quiet
  <2> QED
    BY <1>2, <2>2, <2>3 DEF EvLook
<1>3. CASE EvRecv(t, set, opt, time)
  <2>0. op[t] \notin L
    BY <1>3 DEF EvRecv, Calls
  <2>1. CASE UNCHANGED <<stat, op>> /\ \E e \in Errors : error' = [error EXCEPT ![t] = e]
    BY <2>0, <2>1, SameFrame
  <2>2. CASE error' = [error EXCEPT ![t] = "ok"] /\ Suspend(t, EvList, time, ready, prio)
    BY <2>0, <2>2, SuspendFrame
  <2> QED
    BY <1>3, <2>1, <2>2 DEF EvRecv, Errors
<1>4. CASE EvReceived(t)
  <2>1. op[t] \notin L /\ UNCHANGED <<stat, error>> /\ op' = [op EXCEPT ![t] = "none"] /\ "none" \in Ops \ L
    BY <1>4 DEF EvReceived, Returns, Leave, Ops
  <2> QED
    BY <2>1, SameFrame
<1> QED
  BY <1>1, <1>2, <1>3, <1>4

\* A thread starts to wait in a list that may be waited in again.
LEMMA AwaitFrame ==
  ASSUME ListsInv, ScalarInv, NEW L, NEW t \in Threads, op[t] \notin L, NEW l \in Lists \ L,
         NEW time, Await(t, l, time)
  PROVE  Quiet(L)
BY SuspendFrame DEF Await

\* A thread leaves such a call, or enters its next part.
LEMMA LeaveFrame ==
  ASSUME ListsInv, ScalarInv, NEW L, NEW t \in Threads, op[t] \notin L,
         NEW x \in Ops \ L, op' = [op EXCEPT ![t] = x], UNCHANGED stat,
         error' = error \/ error' = [error EXCEPT ![t] = IF @ = "ok" THEN "timeout" ELSE @]
  PROVE  Quiet(L)
<1>1. error' = error \/ \E e \in Errors : error' = [error EXCEPT ![t] = e]
  BY DEF ScalarInv, Errors
<1> QED
  BY <1>1, SameFrame

\* Nor the mailbox.
LEMMA MailFrame ==
  ASSUME ListsInv, ScalarInv, NEW L \in SUBSET Lists, RecvList \notin L, SendList \notin L, NEW t \in Threads, NEW m, NEW time \in Times,
         \/ MbSend(t, m, time) \/ MbPost(m) \/ MbSendGoesOn(t)
         \/ MbRecv(t, time) \/ MbRecvGoesOn(t)
  PROVE  Quiet(L)
<1> USE NamesIs, MailboxAssumption
<1>0. "none" \in Ops \ L /\ "none" \notin L
  BY DEF Ops
<1>1. CASE MbSend(t, m, time)
  <2>1. op[t] \notin L
    BY <1>1, <1>0 DEF MbSend, Calls
  <2>2. CASE Deposit(m) /\ UNCHANGED <<lvars, op>>
    BY <1>0, <2>2, ResumeFirstFrame DEF Deposit
  <2>3. CASE Await(t, SendList, time)
    BY <2>1, <2>3, AwaitFrame
  <2> QED
    BY <1>1, <2>2, <2>3 DEF MbSend
<1>2. CASE MbPost(m)
  BY <1>0, <1>2, ResumeFirstFrame DEF MbPost, Deposit
<1>3. CASE MbSendGoesOn(t)
  <2>1. op[t] \notin L
    BY <1>3 DEF MbSendGoesOn, Returns
  <2>2. CASE LeaveLoop(t) /\ UNCHANGED <<stat, error>>
    BY <1>0, <2>1, <2>2, LeaveFrame DEF LeaveLoop, Leave
  <2>3. CASE Deposit(mail[t]) /\ LeaveLoop(t)
    BY <1>0, <2>1, <2>3, ResumeFirstFrame DEF Deposit, LeaveLoop, Leave
  <2>4. CASE Await(t, SendList, Remaining(t))
    BY <2>1, <2>4, AwaitFrame
  <2> QED
    BY <1>3, <2>2, <2>3, <2>4 DEF MbSendGoesOn
<1>4. CASE MbRecv(t, time)
  <2>1. op[t] \notin L
    BY <1>4, <1>0 DEF MbRecv, Calls
  <2>2. CASE Collect(t) /\ UNCHANGED <<lvars, op>>
    BY <1>0, <2>2, ResumeFirstFrame DEF Collect
  <2>3. CASE Await(t, RecvList, time)
    BY <2>1, <2>3, AwaitFrame
  <2> QED
    BY <1>4, <2>2, <2>3 DEF MbRecv
<1>5. CASE MbRecvGoesOn(t)
  <2>1. op[t] \notin L
    BY <1>5 DEF MbRecvGoesOn, Returns
  <2>2. CASE /\ LeaveLoop(t) /\ UNCHANGED stat
             /\ error' = [error EXCEPT ![t] = IF @ = "ok" THEN "timeout" ELSE @]
    BY <1>0, <2>1, <2>2, LeaveFrame DEF LeaveLoop, Leave
  <2>3. CASE Collect(t) /\ LeaveLoop(t)
    BY <1>0, <2>1, <2>3, ResumeFirstFrame DEF Collect, LeaveLoop, Leave
  <2>4. CASE Await(t, RecvList, Remaining(t))
    BY <2>1, <2>4, AwaitFrame
  <2> QED
    BY <1>5, <2>2, <2>3, <2>4 DEF MbRecvGoesOn
<1> QED
  BY <1>1, <1>2, <1>3, <1>4, <1>5

\* Nor the message queue.
LEMMA QueueFrame ==
  ASSUME ListsInv, ScalarInv, NEW L \in SUBSET Lists, MqList \notin L, NEW t \in Threads, NEW m, NEW urgent,
         NEW time \in Times,
         \/ MqSend(t, m, urgent) \/ MqLink(t) \/ MqPost(m, urgent)
         \/ MqRecv(t, time) \/ MqRecvGoesOn(t) \/ MqFree(t)
  PROVE  Quiet(L)
<1> USE NamesIs, MessageQueueAssumption
<1>0. {"none", "fill", "copy"} \subseteq Ops \ L /\ "none" \notin L
  BY DEF Ops
<1>1. CASE MqSend(t, m, urgent)
  BY <1>0, <1>1, LeaveFrame DEF MqSend, Calls
<1>2. CASE MqLink(t)
  <2>1. op[t] \notin L
    BY <1>2 DEF MqLink, Returns
  <2> QED
    BY <1>0, <1>2, <2>1, ResumeFirstFrame DEF MqLink, Leave
<1>3. CASE MqPost(m, urgent)
  BY <1>0, <1>3, ResumeFirstFrame DEF MqPost
<1>4. CASE MqFree(t)
  BY <1>0, <1>4, LeaveFrame DEF MqFree, Returns, Leave
<1>5. ASSUME op[t] \notin L, MqUnlink(t)
      PROVE  Quiet(L)
  BY <1>0, <1>5, LeaveFrame DEF MqUnlink
<1>6. CASE MqRecv(t, time)
  <2>1. op[t] \notin L
    BY <1>0, <1>6 DEF MqRecv, Calls
  <2>2. CASE Await(t, MqList, time)
    BY <2>1, <2>2, AwaitFrame
  <2> QED
    BY <1>5, <1>6, <2>1, <2>2 DEF MqRecv
<1>7. CASE MqRecvGoesOn(t)
  <2>1. op[t] \notin L
    BY <1>7 DEF MqRecvGoesOn, Returns
  <2>2. CASE /\ LeaveLoop(t) /\ UNCHANGED stat
             /\ error' = [error EXCEPT ![t] = IF @ = "ok" THEN "timeout" ELSE @]
    BY <1>0, <2>1, <2>2, LeaveFrame DEF LeaveLoop, Leave
  <2>3. CASE Await(t, MqList, Remaining(t))
    BY <2>1, <2>3, AwaitFrame
  <2> QED
    BY <1>5, <1>7, <2>1, <2>2, <2>3 DEF MqRecvGoesOn
<1> QED
  BY <1>1, <1>2, <1>3, <1>4, <1>6, <1>7

\* Nor the memory pool.
LEMMA PoolFrame ==
  ASSUME ListsInv, ScalarInv, NEW L \in SUBSET Lists, PoolList \notin L, NEW t \in Threads, NEW b, NEW time \in Times,
         MpAlloc(t, time) \/ MpAllocated(t) \/ MpFree(b)
  PROVE  Quiet(L)
<1> USE NamesIs, MemPoolAssumption
<1>0. "none" \in Ops \ L /\ "none" \notin L
  BY DEF Ops
<1>1. CASE UNCHANGED tvars
  BY <1>1 DEF tvars, Quiet
<1>2. CASE Calls(t) /\ Suspend(t, PoolList, time, ready, prio) /\ error' = error
  <2>1. op[t] \notin L
    BY <1>0, <1>2 DEF Calls
  <2> QED
    BY <1>2, <2>1, SuspendFrame
<1>3. CASE MpAllocated(t)
  BY <1>0, <1>3, LeaveFrame DEF MpAllocated, Returns, Leave
<1>4. CASE /\ waiting[PoolList] # <<>>
           /\ error' = [error EXCEPT ![Head(waiting[PoolList])] = "ok"]
           /\ Resume(Head(waiting[PoolList]), PoolList, ready)
           /\ op' = op
  BY <1>4, HeadWaits, ResumeFrame
<1> QED
  BY <1>1, <1>2, <1>3, <1>4 DEF MpAlloc, MpFree

\* The clock and rt_thread_sleep grant nothing.
LEMMA ClockFrame ==
  ASSUME ListsInv, ScalarInv, NEW L \in SUBSET Lists, NEW t \in Threads, NEW time \in Times,
         Tick \/ Expire \/ TickEnd \/ Sleep(t, time) \/ Awake(t)
  PROVE  Quiet(L)
<1>1. CASE Tick \/ TickEnd
  BY <1>1 DEF Tick, TickEnd, Quiet
<1>2. CASE Sleep(t, time)
  BY <1>2, NamesIs DEF Sleep, Calls, Quiet, ListsInv
<1>3. CASE Awake(t)
  BY <1>3, NamesIs DEF Awake, Returns, Leave, Quiet, ListsInv, ScalarInv
<1> QED
  BY <1>1, <1>2, <1>3, ExpireFrame

-----------------------------------------------------------------------------
(* The units of the semaphore.                                             *)

\* The units of the semaphore are accounted for.
SemInv == value \in Nat /\ taken \in Nat /\ SemSound

\* The units are still accounted for when the semaphore is left alone.
LEMMA SemKeeps ==
  ASSUME SemInv, UNCHANGED semvars, Untouched({SemList})
  PROVE  SemInv'
<1>1. SemGranted' = SemGranted
  BY UntouchedIs DEF SemGranted, Granted
<1> QED
  BY <1>1 DEF SemInv, SemSound, semvars

\* There are finitely many threads to grant a unit to.
LEMMA SemGrantedIs == IsFiniteSet(SemGranted) /\ Cardinality(SemGranted) \in Nat
<1>1. SemGranted \subseteq Threads
  BY DEF SemGranted
<1> QED
  BY <1>1, ThreadsAssumption, FS_Subset, FS_CardinalityType

\* Each call of the semaphore accounts for the units: a release hands one to
\* the thread it resumes, or makes it free.
LEMMA SemInvStep ==
  ASSUME ListsInv, ScalarInv, SemInv, WaitOk({SemList}), NEW t \in Threads, NEW time \in Times,
         SemTake(t, time) \/ SemTaken(t) \/ SemRelease
  PROVE  SemInv' /\ WaitOk({SemList})'
<1> USE SemaphoreAssumption
<1>0. "none" # SemList
  BY OwnedIs DEF Owned
<1>1. CASE SemTake(t, time) /\ value > 0 /\ value' = value - 1 /\ taken' = taken + 1 /\ UNCHANGED tvars
  <2>1. SemGranted' = SemGranted /\ WaitOk({SemList})'
    BY <1>1 DEF SemGranted, tvars, WaitOk
  <2> QED
    BY <1>1, <2>1, SemGrantedIs, Units \in Nat, SMT DEF SemInv, SemSound
<1>2. CASE /\ Calls(t) /\ error' = [error EXCEPT ![t] = "ok"]
           /\ Suspend(t, SemList, time, ready, prio) /\ UNCHANGED semvars
  <2>0. op[t] \notin {SemList}
    BY <1>0, <1>2 DEF Calls
  <2>1. Untouched({SemList})
    BY <1>2, <2>0 DEF Untouched, ListsInv, ScalarInv, Suspend
  <2> QED
    BY <1>2, <2>1, SemKeeps, UntouchedIs
<1>3. CASE SemTaken(t)
  <2>1. /\ op[t] = SemList /\ stat[t] = "ready"
        /\ op' = [op EXCEPT ![t] = "none"] /\ UNCHANGED <<stat, error, value>>
        /\ taken' = IF error[t] = "ok" THEN taken + 1 ELSE taken
    BY <1>3, CallerReady DEF SemTaken, Returns, Leave
  <2>2. WaitOk({SemList})'
    BY <1>0, <2>1 DEF WaitOk, ListsInv
  <2>3. SemGranted' = SemGranted \ {t}
    BY <1>0, <2>1 DEF SemGranted, ListsInv
  <2>4. CASE error[t] = "ok"
    <3>1. t \in SemGranted
      BY <2>1, <2>4 DEF SemGranted
    <3>2. Cardinality(SemGranted') = Cardinality(SemGranted) - 1
      BY <2>3, <3>1, SemGrantedIs, FS_RemoveElement
    <3> QED
      BY <2>1, <2>2, <2>4, <3>2, SemGrantedIs, SMT DEF SemInv, SemSound
  <2>5. CASE error[t] # "ok"
    <3>1. SemGranted' = SemGranted
      BY <2>3, <2>5 DEF SemGranted
    <3> QED
      BY <2>1, <2>2, <2>5, <3>1 DEF SemInv, SemSound
  <2> QED
    BY <2>4, <2>5
<1>4. CASE SemRelease /\ UNCHANGED tvars /\ value' = value + 1
  <2>1. SemGranted' = SemGranted /\ WaitOk({SemList})' /\ taken > 0 /\ taken' = taken - 1
    BY <1>4 DEF SemGranted, tvars, WaitOk, SemRelease
  <2> QED
    BY <1>4, <2>1, SemGrantedIs, SMT DEF SemInv, SemSound
<1>5. CASE /\ SemRelease /\ waiting[SemList] # <<>>
           /\ Resume(Head(waiting[SemList]), SemList, ready)
           /\ UNCHANGED <<error, op, value>>
  <2> DEFINE w == Head(waiting[SemList])
  <2>1. /\ w \in Threads /\ stat[w] = "suspend" /\ op[w] = SemList
        /\ stat' = [stat EXCEPT ![w] = "ready"]
        /\ taken > 0 /\ taken' = taken - 1
    BY <1>5, HeadWaits DEF Resume, SemRelease
  <2>2. error[w] = "ok"
    BY <2>1 DEF WaitOk
  <2> HIDE DEF w
  <2>3. WaitOk({SemList})'
    BY <1>5, <2>1 DEF WaitOk, ListsInv
  <2>4. SemGranted' = SemGranted \cup {w} /\ w \notin SemGranted
    BY <1>5, <2>1, <2>2 DEF SemGranted, ListsInv
  <2>5. Cardinality(SemGranted') = Cardinality(SemGranted) + 1
    BY <2>4, SemGrantedIs, FS_AddElement
  <2> QED
    BY <1>5, <2>1, <2>3, <2>5, SemGrantedIs, SMTT(60) DEF SemInv, SemSound
<1> QED
  BY <1>1, <1>2, <1>3, <1>4, <1>5 DEF SemTake, SemRelease

\* The semaphore has nothing to do with other lists.
LEMMA SemFrame ==
  ASSUME ListsInv, ScalarInv, NEW L \in SUBSET Lists, SemList \notin L,
         NEW t \in Threads, NEW time \in Times,
         SemTake(t, time) \/ SemTaken(t) \/ SemRelease
  PROVE  Quiet(L)
<1> USE SemaphoreAssumption
<1>0. SemList \in Lists \ L /\ "none" \notin L /\ "none" \in Ops \ L
  BY NamesIs DEF Ops
<1>1. CASE UNCHANGED tvars
  BY <1>1 DEF tvars, Quiet
<1>2. CASE /\ Calls(t) /\ error' = [error EXCEPT ![t] = "ok"]
           /\ Suspend(t, SemList, time, ready, prio)
  BY <1>0, <1>2, SuspendFrame DEF Calls
<1>3. CASE SemTaken(t)
  BY <1>0, <1>3, LeaveFrame DEF SemTaken, Returns, Leave
<1>4. CASE /\ waiting[SemList] # <<>>
           /\ Resume(Head(waiting[SemList]), SemList, ready)
           /\ UNCHANGED <<error, op>>
  BY <1>0, <1>4, HeadWaits, ResumeFrame
<1> QED
  BY <1>1, <1>2, <1>3, <1>4 DEF SemTake, SemRelease

-----------------------------------------------------------------------------
(* The owners of the mutexes.                                              *)

\* The owners are still right when the mutexes are left alone.
LEMMA MutexKeeps ==
  ASSUME MutexInv, UNCHANGED mvars, \A t \in Threads, m \in Mutexes : Granted(t, m)' <=> Granted(t, m)
  PROVE  MutexInv'
BY DEF MutexInv, MutexType, MutexSound, Handed, Granted, mvars

\* A mutex that is taken at once has its taker as the owner.
LEMMA MutexTakeInv ==
  ASSUME ListsInv, ScalarInv, MutexInv, NEW t \in Threads, NEW m \in Mutexes, MutexTake(t, m)
  PROVE  MutexInv' /\ Untouched(Mutexes)
<1>1. /\ op[t] = "none" /\ "none" \notin Mutexes /\ Idle \notin Threads
      /\ prio[t] \in Priorities
  BY OwnedIs, ThreadsAssumption DEF MutexTake, Calls, Owned, ListsInv
<1>2. Untouched(Mutexes)
  <2>1. error' = [error EXCEPT ![t] = "ok"] /\ op' = op /\ stat' = stat /\ "ok" \in Errors
    BY DEF MutexTake, Errors
  <2> QED
    BY <1>1, <2>1, SameFrame, QuietIs
<1>3. \A u \in Threads, n \in Mutexes : Handed(u, n)' <=> Handed(u, n)
  BY <1>2, UntouchedIs DEF Handed, Granted
<1>4. ~ \E n \in Mutexes : Handed(t, n)
  BY <1>1 DEF Handed
<1>5. MutexType'
  <2>1. hold[m] + 1 \in Nat /\ locks[m][t] + 1 \in Nat
    BY DEF MutexInv, MutexType
  <2>2. locks' \in [Mutexes -> [Threads -> Nat]] /\ hold' \in [Mutexes -> Nat]
    BY <2>1 DEF MutexTake, Locked, MutexInv, MutexType
  <2>3. CASE owner[m] = t /\ UNCHANGED <<mvalue, owner, original>>
    BY <1>1, <2>2, <2>3 DEF MutexTake, MutexInv, MutexType
  <2>4. CASE /\ mvalue[m] > 0 /\ mvalue' = [mvalue EXCEPT ![m] = mvalue[m] - 1]
             /\ owner' = [owner EXCEPT ![m] = t]
             /\ original' = [original EXCEPT ![m] = prio[t]]
    <3>1. mvalue[m] - 1 \in {0, 1}
      BY <2>4 DEF MutexInv, MutexType
    <3> QED
      BY <1>1, <2>2, <2>4, <3>1 DEF MutexTake, MutexInv, MutexType
  <2> QED
    BY <2>3, <2>4 DEF MutexTake
<1>6. MutexSound'
  BY <1>1, <1>3, <1>4 DEF MutexTake, Locked, MutexInv, MutexType, MutexSound
<1> QED
  BY <1>2, <1>5, <1>6 DEF MutexInv

\* Waiting for a mutex changes no owner.
LEMMA MutexWaitInv ==
  ASSUME ListsInv, ScalarInv, MutexInv, NEW t \in Threads, NEW m \in Mutexes, NEW time,
         MutexWait(t, m, time)
  PROVE  MutexInv' /\ Untouched(Mutexes)
<1>1. op[t] \notin Mutexes /\ UNCHANGED mvars /\ m \in Lists
  BY OwnedIs, MutexAssumption DEF MutexWait, Calls, Owned
<1>2. Untouched(Mutexes)
  <2>1. CASE error' = [error EXCEPT ![t] = "timeout"] /\ UNCHANGED <<stat, op>>
    <3>1. "timeout" \in Errors
      BY DEF Errors
    <3> QED
      BY <1>1, <2>1, <3>1, SameFrame, QuietIs
  <2>2. ASSUME NEW r, NEW pr, error' = [error EXCEPT ![t] = "ok"], Suspend(t, m, time, r, pr)
        PROVE  Untouched(Mutexes)
    BY <1>1, <2>2 DEF Untouched, ListsInv, ScalarInv, Suspend
  <2> QED
    BY <2>1, <2>2 DEF MutexWait
<1> QED
  BY <1>1, <1>2, UntouchedIs, MutexKeeps

\* A thread returns with the mutex a release handed to it, or times out
\* without it.
LEMMA MutexTakenInv ==
  ASSUME ListsInv, ScalarInv, MutexInv, WaitOk(Mutexes), NEW t \in Threads, NEW m \in Mutexes,
         MutexTaken(t, m)
  PROVE  MutexInv' /\ WaitOk(Mutexes)'
<1>1. /\ op[t] = m /\ stat[t] = "ready" /\ op \in [Threads -> Ops]
      /\ op' = [op EXCEPT ![t] = "none"] /\ "none" \notin Mutexes /\ Idle \notin Threads
      /\ UNCHANGED <<mvalue, owner, hold, original, stat, error>>
      /\ locks \in [Mutexes -> [Threads -> Nat]]
      /\ IF error[t] = "ok" THEN Locked(t, m) ELSE locks' = locks
  BY CallerReady, OwnedIs, ThreadsAssumption
     DEF MutexTaken, Returns, Leave, Owned, ListsInv, MutexInv, MutexType
<1>2. WaitOk(Mutexes)'
  BY <1>1 DEF WaitOk
<1>3. \A u \in Threads, n \in Mutexes : Handed(u, n)' <=> Handed(u, n) /\ u # t
  BY <1>1 DEF Handed
<1>4. \A n \in Mutexes : Handed(t, n) <=> n = m /\ error[t] = "ok"
  BY <1>1 DEF Handed
<1>5. CASE error[t] = "ok"
  <2>1. /\ locks' \in [Mutexes -> [Threads -> Nat]]
        /\ \A u \in Threads, n \in Mutexes :
             locks'[n][u] = IF n = m /\ u = t THEN locks[n][u] + 1 ELSE locks[n][u]
    <3>1. locks[m][t] + 1 \in Nat
      BY <1>1
    <3> QED
      BY <1>1, <1>5, <3>1 DEF Locked
  <2>2. \A u \in Threads, n \in Mutexes :
          locks'[n][u] + (IF Handed(u, n)' THEN 1 ELSE 0) = locks[n][u] + (IF Handed(u, n) THEN 1 ELSE 0)
    BY <1>1, <1>3, <1>4, <1>5, <2>1
  <2>3. \A u \in Threads, n \in Mutexes :
          locks'[n][u] > 0 \/ Handed(u, n)' <=> locks[n][u] > 0 \/ Handed(u, n)
    BY <1>1, <1>3, <1>4, <1>5, <2>1, SMTT(60)
  <2>4. MutexType'
    BY <1>1, <2>1 DEF MutexInv, MutexType
  <2>5. MutexSound'
    BY <1>1, <2>2, <2>3 DEF MutexInv, MutexSound
  <2> QED
    BY <1>2, <2>4, <2>5 DEF MutexInv
<1>6. CASE error[t] # "ok"
  <2>1. \A u \in Threads, n \in Mutexes : Granted(u, n)' <=> Granted(u, n)
    BY <1>3, <1>4, <1>6 DEF Handed, Granted
  <2> QED
    BY <1>1, <1>2, <1>6, <2>1, MutexKeeps DEF mvars
<1> QED
  BY <1>5, <1>6

\* A mutex that was taken more than once keeps its owner; another thread
\* cannot release it.
LEMMA MutexUnnestInv ==
  ASSUME ListsInv, ScalarInv, MutexInv, NEW t \in Threads, NEW m \in Mutexes,
         MutexUnnest(t, m) \/ MutexRefused(t, m)
  PROVE  MutexInv' /\ Untouched(Mutexes)
<1>1. op[t] = "none" /\ "none" \notin Mutexes
  BY OwnedIs DEF MutexUnnest, MutexRefused, Calls, Owned
<1>2. CASE MutexRefused(t, m)
  <2>1. "error" \in Errors
    BY DEF Errors
  <2>2. Untouched(Mutexes)
    BY <1>1, <1>2, <2>1, SameFrame, QuietIs DEF MutexRefused
  <2> QED
    BY <1>2, <2>2, UntouchedIs, MutexKeeps DEF MutexRefused
<1>3. CASE MutexUnnest(t, m)
  <2>1. Untouched(Mutexes)
    BY <1>3 DEF MutexUnnest, tvars, Untouched
  <2>2. \A u \in Threads, n \in Mutexes : Handed(u, n)' <=> Handed(u, n)
    BY <1>3 DEF Handed, MutexUnnest, tvars
  <2>3. ~ Handed(t, m)
    BY <1>1 DEF Handed
  <2>4. /\ owner[m] = t /\ hold[m] > 1 /\ hold[m] \in Nat /\ locks[m][t] \in Nat
        /\ hold[m] = locks[m][t]
    BY <1>3, <2>3 DEF MutexUnnest, MutexInv, MutexType, MutexSound
  <2>5. hold[m] - 1 \in Nat /\ locks[m][t] - 1 \in Nat /\ locks[m][t] - 1 > 0
    BY <2>4
  <2>6. /\ locks' \in [Mutexes -> [Threads -> Nat]] /\ hold' \in [Mutexes -> Nat]
        /\ UNCHANGED <<mvalue, owner, original>>
        /\ \A n \in Mutexes : hold'[n] = IF n = m THEN hold[n] - 1 ELSE hold[n]
        /\ \A u \in Threads, n \in Mutexes :
             locks'[n][u] = IF n = m /\ u = t THEN locks[n][u] - 1 ELSE locks[n][u]
    BY <1>3, <2>5 DEF MutexUnnest, Unlocked, MutexInv, MutexType
  <2>7. MutexType'
    BY <2>4, <2>6, ThreadsAssumption DEF MutexInv, MutexType
  <2>8. MutexSound'
    BY <2>2, <2>3, <2>4, <2>5, <2>6 DEF MutexInv, MutexSound
  <2> QED
    BY <2>1, <2>7, <2>8 DEF MutexInv
<1> QED
  BY <1>2, <1>3

\* The release of a mutex hands it to the first waiter, or frees it.
LEMMA MutexReleaseInv ==
  ASSUME ListsInv, ScalarInv, MutexInv, WaitOk(Mutexes), NEW t \in Threads, NEW m \in Mutexes,
         MutexRelease(t, m)
  PROVE  MutexInv' /\ WaitOk(Mutexes)'
<1> DEFINE w == Head(waiting[m])
           r == IF prio[t] # original[m] THEN Requeued(t, original[m]) ELSE ready
<1>1. /\ op[t] = "none" /\ "none" \notin Mutexes /\ Idle \notin Threads /\ m \in Lists
      /\ stat \in [Threads -> States] /\ op \in [Threads -> Ops]
      /\ prio \in [Threads -> Priorities]
  BY OwnedIs, ThreadsAssumption, MutexAssumption DEF MutexRelease, Calls, Owned, ListsInv
<1>2. /\ owner[m] = t /\ hold[m] = 1 /\ locks[m][t] = 1 /\ mvalue[m] = 0
      /\ \A u \in Threads \ {t} : locks[m][u] = 0 /\ ~ Handed(u, m)
      /\ ~ \E n \in Mutexes : Handed(t, n)
  <2>1. ~ \E n \in Mutexes : Handed(t, n)
    BY <1>1 DEF Handed
  <2>2. owner[m] = t /\ hold[m] = 1
    BY DEF MutexRelease
  <2>3. locks[m] \in [Threads -> Nat] /\ mvalue[m] \in {0, 1}
    BY DEF MutexInv, MutexType
  <2>4. hold[m] = locks[m][t]
    <3>1. ~ Handed(t, m)
      BY <2>1
    <3>2. hold[m] = locks[m][t] + (IF Handed(t, m) THEN 1 ELSE 0)
      BY <2>2 DEF MutexInv, MutexSound
    <3> QED
      BY <2>3, <3>1, <3>2
  <2>5. mvalue[m] = 0
    BY <1>1, <2>2, <2>3 DEF MutexInv, MutexSound
  <2>6. \A u \in Threads \ {t} : ~ (locks[m][u] > 0) /\ ~ Handed(u, m)
    BY <2>2 DEF MutexInv, MutexSound
  <2> QED
    BY <2>1, <2>2, <2>3, <2>4, <2>5, <2>6
<1>3. /\ locks' \in [Mutexes -> [Threads -> Nat]]
      /\ \A u \in Threads, n \in Mutexes :
           locks'[n][u] = IF n = m /\ u = t THEN 0 ELSE locks[n][u]
  <2>1. locks[m][t] - 1 = 0 /\ 0 \in Nat
    BY <1>2
  <2> QED
    BY <2>1 DEF MutexRelease, Unlocked, MutexInv, MutexType
<1>4. error' = error /\ op' = op
  BY DEF MutexRelease
<1>5. CASE /\ waiting[m] # <<>> /\ Resume(w, m, r)
           /\ owner' = [owner EXCEPT ![m] = w]
           /\ original' = [original EXCEPT ![m] = prio[w]]
           /\ UNCHANGED <<mvalue, hold>>
  <2>1. w \in Threads /\ stat[w] = "suspend" /\ op[w] = m /\ stat' = [stat EXCEPT ![w] = "ready"]
    BY <1>1, <1>5, HeadWaits DEF Resume
  <2> HIDE DEF w, r
  <2>2. error[w] = "ok" /\ w # t
    BY <1>1, <2>1 DEF WaitOk
  <2>3. \A u \in Threads, n \in Mutexes : Handed(u, n)' <=> Handed(u, n) \/ (u = w /\ n = m)
    BY <1>1, <1>4, <2>1, <2>2 DEF Handed
  <2>4. WaitOk(Mutexes)'
    BY <1>1, <1>4, <2>1 DEF WaitOk
  <2>5. MutexType'
    BY <1>1, <1>3, <1>5, <2>1 DEF MutexInv, MutexType
  <2>6. ASSUME NEW n \in Mutexes
        PROVE  /\ mvalue'[n] \in {0, 1} /\ (mvalue'[n] = 1 <=> owner'[n] = Idle)
               /\ \A u \in Threads :
                    /\ owner'[n] = u <=> locks'[n][u] > 0 \/ Handed(u, n)'
                    /\ owner'[n] = u => hold'[n] = locks'[n][u] + (IF Handed(u, n)' THEN 1 ELSE 0)
    <3>1. CASE n = m
      <4>1. owner'[m] = w /\ mvalue'[m] = 0 /\ hold'[m] = 1
        BY <1>2, <1>5 DEF MutexInv, MutexType
      <4>2. \A u \in Threads : locks'[m][u] = 0 /\ (Handed(u, m)' <=> u = w)
        BY <1>2, <1>3, <2>3
      <4> QED
        BY <1>1, <2>1, <3>1, <4>1, <4>2
    <3>2. CASE n # m
      <4>1. owner'[n] = owner[n] /\ mvalue'[n] = mvalue[n] /\ hold'[n] = hold[n]
        BY <1>5, <3>2 DEF MutexInv, MutexType
      <4>2. \A u \in Threads : locks'[n][u] = locks[n][u] /\ (Handed(u, n)' <=> Handed(u, n))
        BY <1>3, <2>3, <3>2
      <4> QED
        BY <4>1, <4>2 DEF MutexInv, MutexSound
    <3> QED
      BY <3>1, <3>2
  <2>7. MutexSound'
    BY <2>6 DEF MutexSound
  <2> QED
    BY <2>4, <2>5, <2>7 DEF MutexInv
<1>6. CASE /\ mvalue' = [mvalue EXCEPT ![m] = mvalue[m] + 1]
           /\ owner' = [owner EXCEPT ![m] = Idle]
           /\ hold' = [hold EXCEPT ![m] = 0]
           /\ original' = [original EXCEPT ![m] = None]
           /\ stat' = stat
  <2>1. \A u \in Threads, n \in Mutexes : Handed(u, n)' <=> Handed(u, n)
    BY <1>4, <1>6 DEF Handed
  <2>2. WaitOk(Mutexes)'
    BY <1>4, <1>6 DEF WaitOk
  <2>3. mvalue[m] + 1 = 1
    BY <1>2
  <2>4. MutexType'
    BY <1>3, <1>6, <2>3 DEF MutexInv, MutexType
  <2>5. ASSUME NEW n \in Mutexes
        PROVE  /\ mvalue'[n] \in {0, 1} /\ (mvalue'[n] = 1 <=> owner'[n] = Idle)
               /\ \A u \in Threads :
                    /\ owner'[n] = u <=> locks'[n][u] > 0 \/ Handed(u, n)'
                    /\ owner'[n] = u => hold'[n] = locks'[n][u] + (IF Handed(u, n)' THEN 1 ELSE 0)
    <3>1. CASE n = m
      <4>1. owner'[m] = Idle /\ mvalue'[m] = 1 /\ hold'[m] = 0
        BY <1>6, <2>3 DEF MutexInv, MutexType
      <4>2. \A u \in Threads : locks'[m][u] = 0 /\ ~ Handed(u, m)'
        BY <1>2, <1>3, <2>1
      <4> QED
        BY <1>1, <3>1, <4>1, <4>2
    <3>2. CASE n # m
      <4>1. owner'[n] = owner[n] /\ mvalue'[n] = mvalue[n] /\ hold'[n] = hold[n]
        BY <1>6, <3>2 DEF MutexInv, MutexType
      <4>2. \A u \in Threads : locks'[n][u] = locks[n][u] /\ (Handed(u, n)' <=> Handed(u, n))
        BY <1>3, <2>1, <3>2
      <4> QED
        BY <4>1, <4>2 DEF MutexInv, MutexSound
    <3> QED
      BY <3>1, <3>2
  <2>6. MutexSound'
    BY <2>5 DEF MutexSound
  <2> QED
    BY <2>2, <2>4, <2>6 DEF MutexInv
<1> QED
  BY <1>5, <1>6 DEF MutexRelease

\* The mutexes grant no unit of the semaphore.
LEMMA MutexFrame ==
  ASSUME ListsInv, ScalarInv, NEW L \in SUBSET Lists, L \cap Mutexes = {},
         NEW t \in Threads, NEW m \in Mutexes, NEW time,
         \/ MutexTake(t, m) \/ MutexWait(t, m, time) \/ MutexTaken(t, m)
         \/ MutexUnnest(t, m) \/ MutexRelease(t, m) \/ MutexRefused(t, m)
  PROVE  Quiet(L)
<1>1. /\ m \notin L /\ m \in Lists /\ "none" \notin L /\ "none" \in Ops
      /\ stat \in [Threads -> States] /\ op \in [Threads -> Ops] /\ error \in [Threads -> Errors]
  BY NamesIs, MutexAssumption DEF ListsInv, ScalarInv, Ops
<1>2. CASE MutexTake(t, m) \/ MutexRefused(t, m)
  BY <1>1, <1>2 DEF MutexTake, MutexRefused, Calls, Quiet
<1>3. CASE MutexWait(t, m, time)
  BY <1>1, <1>3 DEF MutexWait, Calls, Quiet, Suspend
<1>4. CASE MutexTaken(t, m)
  BY <1>1, <1>4 DEF MutexTaken, Returns, Leave, Quiet
<1>5. CASE MutexUnnest(t, m)
  BY <1>5 DEF MutexUnnest, tvars, Quiet
<1>6. CASE MutexRelease(t, m)
  <2>1. stat' = stat \/ \E w \in Threads : op[w] = m /\ stat' = [stat EXCEPT ![w] = "ready"]
    BY <1>1, <1>6, HeadWaits DEF MutexRelease, Resume
  <2>2. error' = error /\ op' = op
    BY <1>6 DEF MutexRelease
  <2> QED
    BY <1>1, <2>1, <2>2 DEF Quiet
<1> QED
  BY <1>2, <1>3, <1>4, <1>5, <1>6

-----------------------------------------------------------------------------
(* The invariant.                                                          *)

\* The inductive invariant: the lists, the loop of rt_event_send, the owners of
\* the mutexes and the units of the semaphore.
IInv ==
  /\ ListsInv /\ ScalarInv /\ LoopInv
  /\ MutexInv /\ WaitOk(Mutexes)
  /\ SemInv /\ WaitOk({SemList})

\* The initial states satisfy the inductive invariant.
LEMMA InitInv == Init => IInv
<1> SUFFICES ASSUME Init PROVE IInv
  OBVIOUS
<1>0. /\ prio = InitPrio /\ stat = [t \in Threads |-> "ready"] /\ ready = Startup
      /\ waiting = [l \in Lists |-> <<>>] /\ timers = <<>>
      /\ op = [t \in Threads |-> "none"] /\ current = Highest(Startup)
      /\ rt_tick = 0 /\ masked = "no" /\ error = [t \in Threads |-> "ok"]
      /\ left = [t \in Threads |-> 0] /\ since = [t \in Threads |-> 0]
      /\ todo = <<>> /\ value = Units /\ taken = 0
      /\ MutexInit
  BY DEF Init, ThreadsInit, EvInit, SemInit
<1>1. /\ Range(<<>>) = {} /\ IsInjective(<<>>)
      /\ <<>> \in Seq(Threads) /\ <<>> \in Seq(Timer)
  BY DEF Range, IsInjective
<1>2. "none" \in Ops /\ "none" \notin Mutexes /\ SemList # "none" /\ Idle \notin Threads /\ "none" \notin Lists
  BY ThreadsAssumption, OwnedIs DEF Ops, Owned
<1>3. ListsInv
  <2>1. ReadySound(ready, stat, prio)
    BY <1>0, StartupAssumption DEF ReadySound
  <2>2. WaitSound(waiting, stat, op)
    BY <1>0, <1>1 DEF WaitSound
  <2>3. TimerSound(timers, stat)
    BY <1>0, <1>1 DEF TimerSound
  <2>4. current \in Threads \cup {Idle} /\ (current # Idle => stat[current] = "ready")
    BY <1>0, <2>1, HighestReady
  <2>5. prio \in [Threads -> Priorities] /\ stat \in [Threads -> States] /\ op \in [Threads -> Ops]
    BY <1>0, <1>2, ThreadsAssumption DEF States
  <2> QED
    BY <2>1, <2>2, <2>3, <2>4, <2>5 DEF ListsInv
<1>4. ScalarInv
  BY <1>0, TimesHas DEF ScalarInv, Errors
<1>5. LoopInv
  BY <1>0, <1>1 DEF LoopInv
<1>6. WaitOk(Mutexes) /\ WaitOk({SemList})
  BY <1>0 DEF WaitOk
<1>7. MutexInv
  <2>1. /\ mvalue = [m \in Mutexes |-> 1] /\ owner = [m \in Mutexes |-> Idle]
        /\ hold = [m \in Mutexes |-> 0] /\ original = [m \in Mutexes |-> None]
        /\ locks = [m \in Mutexes |-> [t \in Threads |-> 0]]
    BY <1>0 DEF MutexInit
  <2>2. MutexType
    BY <2>1 DEF MutexType
  <2>3. \A t \in Threads, m \in Mutexes : ~ Handed(t, m)
    BY <1>0, <1>2 DEF Handed
  <2>4. MutexSound
    BY <1>2, <2>1, <2>3 DEF MutexSound
  <2> QED
    BY <2>2, <2>4 DEF MutexInv
<1>8. SemInv
  <2>1. SemGranted = {}
    BY <1>0, <1>2 DEF SemGranted
  <2> QED
    BY <1>0, <2>1, FS_EmptySet, SemaphoreAssumption, SMT DEF SemInv, SemSound
<1> QED
  BY <1>3, <1>4, <1>5, <1>6, <1>7, <1>8 DEF IInv

\* Actions that neither use the mutexes nor the semaphore preserve it.
LEMMA OtherStep ==
  ASSUME IInv, ListsInv' /\ ScalarInv', LoopInv', \A L \in Owned : Quiet(L),
         UNCHANGED <<semvars, mvars>>
  PROVE  IInv'
<1>1. Untouched(Mutexes) /\ Untouched({SemList})
  BY QuietIs DEF Owned
<1>2. WaitOk(Mutexes)' /\ MutexInv'
  BY <1>1, UntouchedIs, MutexKeeps DEF IInv
<1>3. WaitOk({SemList})' /\ SemInv'
  BY <1>1, UntouchedIs, SemKeeps DEF IInv
<1> QED
  BY <1>2, <1>3 DEF IInv

\* The actions of the semaphore preserve it.
LEMMA SemInvariant ==
  ASSUME IInv, NEW t \in Threads, NEW time \in Times,
         SemTake(t, time) \/ SemTaken(t) \/ SemRelease, UNCHANGED <<mvars, evvars>>
  PROVE  IInv'
<1>1. ListsInv' /\ ScalarInv'
  BY SemStep DEF IInv
<1>2. LoopInv'
  <2>1. masked = "no" /\ masked' = "no" /\ todo' = todo
    BY DEF SemTake, SemTaken, SemRelease, Calls, Returns, tvars, evvars
  <2> QED
    BY <2>1, LoopStays DEF IInv
<1>3. WaitOk(Mutexes)' /\ MutexInv'
  <2>1. Untouched(Mutexes)
    BY SemFrame, QuietIs, MutexAssumption, KernelAssumption DEF IInv
  <2> QED
    BY <2>1, UntouchedIs, MutexKeeps DEF IInv
<1>4. WaitOk({SemList})' /\ SemInv'
  BY SemInvStep DEF IInv
<1> QED
  BY <1>1, <1>2, <1>3, <1>4 DEF IInv

\* The actions of the mutexes preserve it.
LEMMA MutexInvariant ==
  ASSUME IInv, NEW t \in Threads, NEW m \in Mutexes, NEW time \in Times,
         \/ MutexTake(t, m) \/ MutexWait(t, m, time) \/ MutexTaken(t, m)
         \/ MutexUnnest(t, m) \/ MutexRelease(t, m) \/ MutexRefused(t, m),
         UNCHANGED <<semvars, evvars>>
  PROVE  IInv'
<1>1. ListsInv' /\ ScalarInv'
  BY MutexLists DEF IInv
<1>2. LoopInv'
  <2>1. masked = "no" /\ masked' = "no" /\ todo' = todo
    BY DEF MutexTake, MutexWait, MutexTaken, MutexUnnest, MutexRelease, MutexRefused, Calls, Returns,
           tvars, evvars
  <2> QED
    BY <2>1, LoopStays DEF IInv
<1>3. WaitOk(Mutexes)' /\ MutexInv'
  <2>1. CASE MutexTake(t, m)
    BY <2>1, MutexTakeInv, UntouchedIs DEF IInv
  <2>2. CASE MutexWait(t, m, time)
    BY <2>2, MutexWaitInv, UntouchedIs DEF IInv
  <2>3. CASE MutexTaken(t, m)
    BY <2>3, MutexTakenInv DEF IInv
  <2>4. CASE MutexUnnest(t, m) \/ MutexRefused(t, m)
    BY <2>4, MutexUnnestInv, UntouchedIs DEF IInv
  <2>5. CASE MutexRelease(t, m)
    BY <2>5, MutexReleaseInv DEF IInv
  <2> QED
    BY <2>1, <2>2, <2>3, <2>4, <2>5
<1>4. WaitOk({SemList})' /\ SemInv'
  <2>1. Untouched({SemList})
    BY MutexFrame, QuietIs, SemaphoreAssumption, KernelAssumption, SMTT(60) DEF IInv
  <2> QED
    BY <2>1, UntouchedIs, SemKeeps DEF IInv
<1> QED
  BY <1>1, <1>2, <1>3, <1>4 DEF IInv

\* The actions of the event object preserve it.
LEMMA EventInvariant ==
  ASSUME IInv, NEW t \in Threads, NEW set, NEW opt, NEW time \in Times,
         EvSend(set) \/ EvLook \/ EvRecv(t, set, opt, time) \/ EvReceived(t),
         UNCHANGED <<semvars, mvars>>
  PROVE  IInv'
<1>1. ListsInv' /\ ScalarInv'
  BY EventLists DEF IInv
<1>2. LoopInv'
  <2>1. CASE EvSend(set) \/ EvLook
    BY <2>1, LoopStep DEF IInv
  <2>2. CASE EvRecv(t, set, opt, time) \/ EvReceived(t)
    <3>1. masked = "no" /\ masked' = "no" /\ todo' = todo
      BY <2>2 DEF EvRecv, EvReceived, Calls, Returns
    <3> QED
      BY <3>1, LoopStays DEF IInv
  <2> QED
    BY <2>1, <2>2
<1>3. \A L \in Owned : Quiet(L)
  BY EventFrame, OwnedIs DEF IInv
<1> QED
  BY <1>1, <1>2, <1>3, OtherStep

\* The actions of the mailbox preserve it.
LEMMA MailInvariant ==
  ASSUME IInv, NEW t \in Threads, NEW m, NEW time \in Times,
         \/ MbSend(t, m, time) \/ MbPost(m) \/ MbSendGoesOn(t)
         \/ MbRecv(t, time) \/ MbRecvGoesOn(t),
         UNCHANGED <<semvars, mvars, evvars>>
  PROVE  IInv'
<1>1. ListsInv' /\ ScalarInv'
  BY MailLists DEF IInv
<1>2. LoopInv'
  <2>1. masked = "no" /\ masked' = "no" /\ todo' = todo
    BY DEF MbSend, MbPost, MbSendGoesOn, MbRecv, MbRecvGoesOn, Calls, Returns, Deposit, Collect,
           Await, evvars
  <2> QED
    BY <2>1, LoopStays DEF IInv
<1>3. \A L \in Owned : Quiet(L)
  BY MailFrame, OwnedIs DEF IInv
<1> QED
  BY <1>1, <1>2, <1>3, OtherStep

\* The actions of the message queue preserve it.
LEMMA QueueInvariant ==
  ASSUME IInv, NEW t \in Threads, NEW m, NEW urgent, NEW time \in Times,
         \/ MqSend(t, m, urgent) \/ MqLink(t) \/ MqPost(m, urgent)
         \/ MqRecv(t, time) \/ MqRecvGoesOn(t) \/ MqFree(t),
         UNCHANGED <<semvars, mvars, evvars>>
  PROVE  IInv'
<1>1. ListsInv' /\ ScalarInv'
  BY QueueLists DEF IInv
<1>2. LoopInv'
  <2>1. masked = "no" /\ masked' = "no" /\ todo' = todo
    BY DEF MqSend, MqLink, MqPost, MqRecv, MqRecvGoesOn, MqFree, MqUnlink, Calls, Returns, Await, evvars
  <2> QED
    BY <2>1, LoopStays DEF IInv
<1>3. \A L \in Owned : Quiet(L)
  BY QueueFrame, OwnedIs DEF IInv
<1> QED
  BY <1>1, <1>2, <1>3, OtherStep

\* The actions of the memory pool preserve it.
LEMMA PoolInvariant ==
  ASSUME IInv, NEW t \in Threads, NEW b, NEW time \in Times,
         MpAlloc(t, time) \/ MpAllocated(t) \/ MpFree(b), UNCHANGED <<semvars, mvars, evvars>>
  PROVE  IInv'
<1>1. ListsInv' /\ ScalarInv'
  BY PoolLists DEF IInv
<1>2. LoopInv'
  <2>1. masked = "no" /\ masked' = "no" /\ todo' = todo
    BY DEF MpAlloc, MpAllocated, MpFree, Calls, Returns, tvars, evvars
  <2> QED
    BY <2>1, LoopStays DEF IInv
<1>3. \A L \in Owned : Quiet(L)
  BY PoolFrame, OwnedIs DEF IInv
<1> QED
  BY <1>1, <1>2, <1>3, OtherStep

\* The clock and the sleeping threads preserve it.
LEMMA ClockInvariant ==
  ASSUME IInv, NEW t \in Threads, NEW time \in 1 .. HalfTick - 1,
         Tick \/ Expire \/ TickEnd \/ Sleep(t, time) \/ Awake(t),
         UNCHANGED <<semvars, mvars, evvars>>
  PROVE  IInv'
<1>1. ListsInv' /\ ScalarInv'
  BY ClockStep, SleepStep DEF IInv
<1>2. LoopInv'
  <2>1. masked \in {"no", "clock"} /\ masked' \in {"no", "clock"} /\ todo' = todo
    BY DEF Tick, Expire, TickEnd, Sleep, Awake, Calls, Returns, evvars
  <2> QED
    BY <2>1, LoopStays DEF IInv
<1>3. \A L \in Owned : Quiet(L)
  <2>1. time \in Times
    BY HalfTickIs, SMT DEF Times
  <2> QED
    BY <2>1, ClockFrame, OwnedIs DEF IInv
<1> QED
  BY <1>1, <1>2, <1>3, OtherStep

\* Every step of the kernel preserves the inductive invariant.
LEMMA NextInv == IInv /\ [Next]_vars => IInv'
<1> SUFFICES ASSUME IInv, [Next]_vars PROVE IInv'
  OBVIOUS
<1> PICK one \in Threads : TRUE
  BY ThreadsAssumption
<1>0. 1 \in 1 .. HalfTick - 1 /\ 0 \in Times /\ 1 .. HalfTick - 1 \subseteq Times
  BY HalfTickIs, SMT DEF Times
<1> USE DEF objects
<1>1. ASSUME NEW t \in Threads, CallSem(t) PROVE IInv'
  BY <1>0, <1>1, SemInvariant DEF CallSem
<1>2. ASSUME NEW t \in Threads, CallMutex(t) PROVE IInv'
  BY <1>0, <1>2, MutexInvariant DEF CallMutex
<1>3. ASSUME NEW t \in Threads, CallEvent(t) PROVE IInv'
  BY <1>0, <1>3, EventInvariant DEF CallEvent
<1>4. ASSUME NEW t \in Threads, CallMailbox(t) PROVE IInv'
  BY <1>4, MailInvariant DEF CallMailbox
<1>5. ASSUME NEW t \in Threads, CallQueue(t) PROVE IInv'
  BY <1>0, <1>5, QueueInvariant DEF CallQueue
<1>6. ASSUME NEW t \in Threads, CallPool(t) PROVE IInv'
  BY <1>0, <1>6, PoolInvariant DEF CallPool
<1>7. ASSUME NEW t \in Threads, CallSleep(t) PROVE IInv'
  BY <1>7, ClockInvariant DEF CallSleep
<1>8. ASSUME NEW t \in Threads, GoOn(t) PROVE IInv'
  <2>1. CASE SemTaken(t) /\ UNCHANGED <<mvars, evvars>>
    BY <1>0, <2>1, SemInvariant
  <2>2. CASE (\E m \in Mutexes : MutexTaken(t, m)) /\ UNCHANGED <<semvars, evvars>>
    BY <1>0, <2>2, MutexInvariant
  <2>3. CASE EvReceived(t) /\ UNCHANGED <<semvars, mvars>>
    BY <1>0, <2>3, EventInvariant
  <2>4. CASE (MbSendGoesOn(t) \/ MbRecvGoesOn(t)) /\ UNCHANGED <<semvars, mvars, evvars>>
    BY <1>0, <2>4, MailInvariant
  <2>5. CASE (MqLink(t) \/ MqRecvGoesOn(t) \/ MqFree(t)) /\ UNCHANGED <<semvars, mvars, evvars>>
    BY <1>0, <2>5, QueueInvariant
  <2>6. CASE MpAllocated(t) /\ UNCHANGED <<semvars, mvars, evvars>>
    BY <1>0, <2>6, PoolInvariant
  <2>7. CASE Awake(t) /\ UNCHANGED <<semvars, mvars, evvars>>
    BY <1>0, <2>7, ClockInvariant
  <2> QED
    BY <1>8, <2>1, <2>2, <2>3, <2>4, <2>5, <2>6, <2>7 DEF GoOn
<1>9. CASE DeviceSem
  BY <1>0, <1>9, SemInvariant DEF DeviceSem
<1>10. CASE DeviceEvent
  BY <1>0, <1>10, EventInvariant DEF DeviceEvent
<1>11. CASE EventLoop
  BY <1>0, <1>11, EventInvariant DEF EventLoop
<1>12. CASE DeviceMail
  BY <1>0, <1>12, MailInvariant DEF DeviceMail
<1>13. CASE DeviceMessage
  BY <1>0, <1>13, QueueInvariant DEF DeviceMessage
<1>14. CASE DevicePool
  BY <1>0, <1>14, PoolInvariant DEF DevicePool
<1>15. CASE Clock
  BY <1>0, <1>15, ClockInvariant DEF Clock
<1>16. CASE UNCHANGED vars
  <2>1. /\ UNCHANGED <<rt_tick, masked, current, prio, stat, error, ready, waiting, timers, op, left, since>>
        /\ UNCHANGED <<semvars, mvars, evvars>>
    BY <1>16 DEF vars, tvars, lvars
  <2>2. ListsInv' /\ ScalarInv'
    BY <2>1, SameStep DEF IInv, ScalarInv
  <2>3. LoopInv'
    BY <2>1 DEF IInv, LoopInv, evvars
  <2>4. \A L \in Owned : Quiet(L)
    BY <2>1 DEF Quiet
  <2> QED
    BY <2>1, <2>2, <2>3, <2>4, OtherStep
<1> QED
  BY <1>1, <1>2, <1>3, <1>4, <1>5, <1>6, <1>7, <1>8, <1>9, <1>10, <1>11, <1>12, <1>13, <1>14,
     <1>15, <1>16 DEF Next

\* The inductive invariant holds.
LEMMA Invariant == Spec => []IInv
BY InitInv, NextInv, PTL DEF Spec

\* The kernel keeps the type of its state: every index, priority and tick is in
\* its range, for any threads, priorities, lists and programs.
THEOREM KernelTypes == Spec => []TypeOK
<1>1. IInv => TypeOK
  BY TypeFromParts DEF IInv
<1> QED
  BY <1>1, Invariant, PTL

\* Every thread is in exactly one list, the one its state names, and has a timer
\* only while it is suspended: for any number of threads and of timeouts.
THEOREM KernelLists == Spec => []ThreadLists
<1>1. IInv => ThreadLists
  BY ListsFromParts DEF IInv
<1> QED
  BY <1>1, Invariant, PTL

\* Every mutex has the one owner that took it or was handed it, as often as it
\* took it: for any number of mutexes, nested in any order.
THEOREM KernelMutex == Spec => []MutexSound
<1>1. IInv => MutexSound
  BY DEF IInv, MutexInv
<1> QED
  BY <1>1, Invariant, PTL

\* No unit of the semaphore is lost or made, for any number of threads.
THEOREM KernelSemaphore == Spec => []SemSound
<1>1. IInv => SemSound
  BY DEF IInv, SemInv
<1> QED
  BY <1>1, Invariant, PTL

-----------------------------------------------------------------------------
(* The sorted timer list of timer.c.  Whatever is started, stopped and timed *)
(* out while the tick counter wraps, the list stays in the order in which    *)
(* the timers come due, which is what lets the clock interrupt stop at the   *)
(* first timer that is not due.                                              *)

\* The ticks timer x has left.
Left(x, tick) == Minus(x.at, tick)

\* No timer has more left than one behind it.
Sorted(ts, tick) ==
  /\ \A i \in 1 .. Len(ts) : Left(ts[i], tick) < HalfTick
  /\ \A i, j \in 1 .. Len(ts) : i < j => Left(ts[i], tick) <= Left(ts[j], tick)

\* No timer has run out.
NoneDue(ts, tick) == \A i \in 1 .. Len(ts) : Left(ts[i], tick) > 0

\* The list is in order, and outside the clock interrupt no timer has run out.
OrderInv == Sorted(timers, rt_tick) /\ (masked = "clock" \/ NoneDue(timers, rt_tick))

\* The difference of two ticks is a tick.
LEMMA MinusIs ==
  ASSUME NEW a \in 0 .. TickMod - 1, NEW b \in 0 .. TickMod - 1
  PROVE  Minus(a, b) \in 0 .. TickMod - 1
BY HalfTickIs, SMT DEF Minus

\* rt_timer_start compares unsigned differences modulo the width: for times below
\* half of it the comparison is the one of the ticks that are left.
LEMMA StartedLeft ==
  ASSUME NEW tick \in 0 .. TickMod - 1, NEW time \in 1 .. HalfTick - 1,
         NEW at \in 0 .. TickMod - 1, Minus(at, tick) < HalfTick
  PROVE  Minus(at, Plus(tick, time)) < HalfTick <=> Minus(at, tick) >= time
BY HalfTickIs, SMTT(30) DEF Minus, Plus

\* A timer just started has all of its time left.
LEMMA OwnLeft ==
  ASSUME NEW tick \in 0 .. TickMod - 1, NEW time \in 1 .. HalfTick - 1
  PROVE  Minus(Plus(tick, time), tick) = time
BY HalfTickIs, SMTT(30) DEF Minus, Plus

\* The clock takes one tick from every timer that is not due.
LEMMA TickedLeft ==
  ASSUME NEW tick \in 0 .. TickMod - 1, NEW at \in 0 .. TickMod - 1, Minus(at, tick) > 0
  PROVE  Minus(at, Plus(tick, 1)) = Minus(at, tick) - 1
BY HalfTickIs, SMTT(30) DEF Minus, Plus

\* A list without one of its timers is still in order.
LEMMA RemoveSorted ==
  ASSUME NEW ts \in Seq(Timer), NEW tick, NEW i \in 1 .. Len(ts), Sorted(ts, tick)
  PROVE  /\ Sorted(RemoveAt(ts, i), tick)
         /\ NoneDue(ts, tick) => NoneDue(RemoveAt(ts, i), tick)
<1> DEFINE r == RemoveAt(ts, i)
           k(j) == IF j < i THEN j ELSE j + 1
<1>1. /\ r \in Seq(Timer) /\ Len(r) = Len(ts) - 1 /\ Len(ts) \in Nat
      /\ \A j \in 1 .. Len(ts) - 1 : r[j] = IF j < i THEN ts[j] ELSE ts[j + 1]
  BY RemoveAtIs, LenProperties
<1> HIDE DEF r
<1>2. \A j \in 1 .. Len(r) : k(j) \in 1 .. Len(ts) /\ r[j] = ts[k(j)]
  BY <1>1
<1>3. \A j, l \in 1 .. Len(r) : j < l => k(j) < k(l)
  BY <1>1
<1> HIDE DEF k
<1>4. Sorted(r, tick) /\ (NoneDue(ts, tick) => NoneDue(r, tick))
  BY <1>2, <1>3 DEF Sorted, NoneDue
<1> QED
  BY <1>4 DEF r

\* rt_timer_start puts the timer where it belongs, behind those with equal time.
LEMMA StartSorted ==
  ASSUME timers \in Seq(Timer), rt_tick \in 0 .. TickMod - 1, Sorted(timers, rt_tick),
         NoneDue(timers, rt_tick), NEW t \in Threads, NEW time \in 1 .. HalfTick - 1
  PROVE  Sorted(TimerStarted(t, time), rt_tick) /\ NoneDue(TimerStarted(t, time), rt_tick)
<1> DEFINE end == Plus(rt_tick, time)
           I   == {i \in DOMAIN timers : Minus(timers[i].at, end) < HalfTick}
           f   == FirstOf(I, timers)
           x   == [thread |-> t, at |-> end]
           s   == InsertAt(timers, f, x)
           L(i) == Left(timers[i], rt_tick)
<1>1. DOMAIN timers = 1 .. Len(timers) /\ Len(timers) \in Nat
  BY LenProperties
<1>2. time \in 0 .. HalfTick - 1 /\ time > 0 /\ time < HalfTick /\ time \in Nat
  BY HalfTickIs, SMT
<1>3. end \in 0 .. TickMod - 1
  BY <1>2, PlusIs
<1>4. /\ f \in 1 .. Len(timers) + 1 /\ (I # {} => f \in I) /\ \A i \in I : f <= i
  BY <1>1, FirstOfIs
<1>5. \A i \in 1 .. Len(timers) : timers[i].at \in 0 .. TickMod - 1
  <2>1. \A i \in 1 .. Len(timers) : timers[i] \in Timer
    BY ElementOfSeq
  <2> QED
    BY <2>1 DEF Timer
<1>6. \A i \in 1 .. Len(timers) : L(i) \in Nat /\ L(i) < HalfTick /\ L(i) > 0
  <2> SUFFICES ASSUME NEW i \in 1 .. Len(timers)
               PROVE  L(i) \in Nat /\ L(i) < HalfTick /\ L(i) > 0
    OBVIOUS
  <2>1. L(i) \in 0 .. TickMod - 1
    BY <1>5, MinusIs DEF Left
  <2> QED
    BY <2>1 DEF Sorted, NoneDue
<1>7. \A i \in 1 .. Len(timers) : i \in I <=> L(i) >= time
  BY <1>1, <1>5, <1>6, StartedLeft DEF Left
<1>8. Left(x, rt_tick) = time
  BY OwnLeft DEF Left
<1>9. \A i \in 1 .. Len(timers) : i >= f => L(i) >= time
  <2> SUFFICES ASSUME NEW i \in 1 .. Len(timers), i >= f
               PROVE  L(i) >= time
    OBVIOUS
  <2>1. f \in 1 .. Len(timers) /\ f \in I
    <3>1. I # {} \/ f = Len(timers) + 1
      BY DEF FirstOf
    <3> QED
      BY <1>1, <1>4, <3>1
  <2>2. L(f) >= time
    BY <1>7, <2>1
  <2>3. L(f) <= L(i)
    BY <1>6, <2>1 DEF Sorted
  <2> QED
    BY <1>2, <1>6, <2>1, <2>2, <2>3
<1>10. \A i \in 1 .. Len(timers) : i < f => L(i) <= time
  <2> SUFFICES ASSUME NEW i \in 1 .. Len(timers), i < f
               PROVE  L(i) <= time
    OBVIOUS
  <2> HIDE DEF f, I
  <2>1. i \notin I
    BY <1>1, <1>4
  <2>2. ~ (L(i) >= time)
    BY <1>7, <2>1
  <2> QED
    BY <1>2, <1>6, <2>2
<1>11. x \in Timer
  BY <1>3 DEF Timer
<1> HIDE DEF f, x, I, end
<1>12. /\ s \in Seq(Timer) /\ Len(s) = Len(timers) + 1
       /\ \A j \in 1 .. Len(timers) + 1 :
            s[j] = IF j < f THEN timers[j] ELSE IF j = f THEN x ELSE timers[j-1]
  BY <1>4, <1>11, InsertAtIs
<1> HIDE DEF s
<1>13. ASSUME NEW j \in 1 .. Len(timers) + 1
       PROVE  /\ j < f => j \in 1 .. Len(timers) /\ Left(s[j], rt_tick) = L(j)
              /\ j = f => Left(s[j], rt_tick) = time
              /\ j > f => j - 1 \in 1 .. Len(timers) /\ j - 1 >= f /\ Left(s[j], rt_tick) = L(j - 1)
  BY <1>1, <1>4, <1>8, <1>12
<1>14. Sorted(s, rt_tick) /\ NoneDue(s, rt_tick)
  <2>1. ASSUME NEW j \in 1 .. Len(s)
        PROVE  Left(s[j], rt_tick) < HalfTick /\ Left(s[j], rt_tick) > 0
    <3>1. j \in 1 .. Len(timers) + 1
      BY <1>12
    <3>2. j < f \/ j = f \/ j > f
      BY <1>4
    <3> QED
      BY <1>2, <1>6, <1>13, <3>1, <3>2
  <2>2. ASSUME NEW j \in 1 .. Len(s), NEW k \in 1 .. Len(s), j < k
        PROVE  Left(s[j], rt_tick) <= Left(s[k], rt_tick)
    <3>0. j \in 1 .. Len(timers) + 1 /\ k \in 1 .. Len(timers) + 1
      BY <1>12
    <3>1. CASE k < f
      <4>1. /\ j < f /\ j \in 1 .. Len(timers) /\ k \in 1 .. Len(timers)
            /\ Left(s[j], rt_tick) = L(j) /\ Left(s[k], rt_tick) = L(k)
        BY <1>4, <1>13, <2>2, <3>0, <3>1
      <4> QED
        BY <2>2, <4>1 DEF Sorted
    <3>2. CASE k = f
      <4>1. j < f /\ j \in 1 .. Len(timers) /\ Left(s[j], rt_tick) = L(j) /\ Left(s[k], rt_tick) = time
        BY <1>4, <1>13, <2>2, <3>0, <3>2
      <4> QED
        BY <1>10, <4>1
    <3>3. CASE k > f /\ j < f
      <4>1. /\ j \in 1 .. Len(timers) /\ k - 1 \in 1 .. Len(timers) /\ k - 1 >= f
            /\ Left(s[j], rt_tick) = L(j) /\ Left(s[k], rt_tick) = L(k - 1)
        BY <1>13, <3>0, <3>3
      <4>2. L(j) <= time /\ L(k - 1) >= time /\ L(j) \in Nat /\ L(k - 1) \in Nat
        BY <1>6, <1>9, <1>10, <3>3, <4>1
      <4> QED
        BY <1>2, <4>1, <4>2
    <3>4. CASE j = f
      <4>1. k > f /\ k - 1 \in 1 .. Len(timers) /\ k - 1 >= f /\ Left(s[k], rt_tick) = L(k - 1)
        BY <1>13, <2>2, <3>0, <3>4
      <4>2. L(k - 1) >= time /\ L(k - 1) \in Nat /\ Left(s[j], rt_tick) = time
        BY <1>6, <1>9, <1>13, <3>0, <3>4, <4>1
      <4> QED
        BY <1>2, <4>1, <4>2
    <3>5. CASE j > f
      <4>1. k > f
        BY <1>4, <2>2, <3>0, <3>5
      <4>2. /\ j - 1 \in 1 .. Len(timers) /\ k - 1 \in 1 .. Len(timers) /\ j - 1 < k - 1
            /\ Left(s[j], rt_tick) = L(j - 1) /\ Left(s[k], rt_tick) = L(k - 1)
        BY <1>13, <2>2, <3>0, <3>5, <4>1
      <4> QED
        BY <4>2 DEF Sorted
    <3> QED
      BY <1>4, <3>0, <3>1, <3>2, <3>3, <3>4, <3>5
  <2> QED
    BY <2>1, <2>2 DEF Sorted, NoneDue
<1>15. CASE HasTimer(t)
  BY <1>15 DEF TimerStarted
<1>16. CASE ~ HasTimer(t)
  <2>1. TimerStarted(t, time) = s
    BY <1>16 DEF TimerStarted, s, x, f, I, end
  <2> QED
    BY <1>14, <2>1
<1> QED
  BY <1>15, <1>16

\* What a call may do to the timers: nothing, stop a thread's timer, or start it.
TimersChange ==
  /\ rt_tick' = rt_tick /\ (masked' = "clock" <=> masked = "clock")
  /\ \/ timers' = timers
     \/ \E t \in Threads : timers' = TimerRemoved(t)
     \/ /\ masked # "clock"
        /\ \E t \in Threads, time \in 1 .. HalfTick - 1 : timers' = TimerStarted(t, time)

\* So does rt_timer_stop, and a thread has at most one timer.
LEMMA RemovedSorted ==
  ASSUME NEW t, timers \in Seq(Timer), Sorted(timers, rt_tick)
  PROVE  /\ Sorted(TimerRemoved(t), rt_tick)
         /\ NoneDue(timers, rt_tick) => NoneDue(TimerRemoved(t), rt_tick)
<1>1. CASE HasTimer(t)
  <2> DEFINE i == CHOOSE j \in DOMAIN timers : timers[j].thread = t
  <2>1. i \in 1 .. Len(timers)
    BY <1>1, LenProperties DEF HasTimer
  <2>2. TimerRemoved(t) = RemoveAt(timers, i)
    BY <1>1 DEF TimerRemoved
  <2> HIDE DEF i
  <2> QED
    BY <2>1, <2>2, RemoveSorted
<1>2. CASE ~ HasTimer(t)
  BY <1>2 DEF TimerRemoved
<1> QED
  BY <1>1, <1>2

\* What a call may do to the timers keeps them in order.
LEMMA ChangeOrder ==
  ASSUME IInv, OrderInv, TimersChange
  PROVE  OrderInv'
<1>1. timers \in Seq(Timer) /\ rt_tick \in 0 .. TickMod - 1
  BY DEF IInv, ListsInv, TimerSound, ScalarInv
<1>2. Sorted(timers', rt_tick) /\ (NoneDue(timers, rt_tick) => NoneDue(timers', rt_tick))
  <2>1. CASE timers' = timers
    BY <2>1 DEF OrderInv
  <2>2. CASE \E t \in Threads : timers' = TimerRemoved(t)
    BY <1>1, <2>2, RemovedSorted DEF OrderInv
  <2>3. CASE /\ masked # "clock"
             /\ \E t \in Threads, time \in 1 .. HalfTick - 1 : timers' = TimerStarted(t, time)
    <3>1. PICK t \in Threads, time \in 1 .. HalfTick - 1 : timers' = TimerStarted(t, time)
      BY <2>3
    <3>2. Sorted(timers, rt_tick) /\ NoneDue(timers, rt_tick)
      BY <2>3 DEF OrderInv
    <3> QED
      BY <1>1, <3>1, <3>2, StartSorted
  <2> QED
    BY <2>1, <2>2, <2>3 DEF TimersChange
<1> QED
  BY <1>2 DEF OrderInv, TimersChange

\* Suspending a thread starts its timer.
LEMMA SuspendChange ==
  ASSUME NEW t \in Threads, NEW l, NEW time \in Times, NEW r, NEW pr, Suspend(t, l, time, r, pr),
         masked = "no", UNCHANGED <<rt_tick, masked>>
  PROVE  TimersChange
<1>1. timers' = IF time > 0 THEN TimerStarted(t, time) ELSE timers
  BY DEF Suspend
<1>2. time > 0 => time \in 1 .. HalfTick - 1
  BY HalfTickIs, SMT DEF Times
<1> QED
  BY <1>1, <1>2 DEF TimersChange

\* rt_thread_resume stops the timer of the thread.
LEMMA ResumeChange ==
  ASSUME ListsInv, NEW l \in Lists, ResumeFirst(l), masked = "no", UNCHANGED <<rt_tick, masked>>
  PROVE  TimersChange
BY HeadWaits DEF ResumeFirst, Resume, TimersChange

\* The semaphore touches the timers in no other way.
LEMMA SemChange ==
  ASSUME ListsInv, NEW t \in Threads, NEW time \in Times,
         SemTake(t, time) \/ SemTaken(t) \/ SemRelease
  PROVE  TimersChange
<1>1. CASE SemTake(t, time)
  BY <1>1, SuspendChange DEF SemTake, Calls, TimersChange, tvars
<1>2. CASE SemTaken(t)
  BY <1>2 DEF SemTaken, TimersChange
<1>3. CASE SemRelease
  BY <1>3, ResumeChange, SemaphoreAssumption DEF SemRelease, ResumeFirst, TimersChange, tvars
<1> QED
  BY <1>1, <1>2, <1>3

\* Nor does the mutex, which also changes priorities.
LEMMA MutexChange ==
  ASSUME ListsInv, NEW t \in Threads, NEW m \in Mutexes, NEW time \in Times,
         \/ MutexTake(t, m) \/ MutexWait(t, m, time) \/ MutexTaken(t, m)
         \/ MutexUnnest(t, m) \/ MutexRelease(t, m) \/ MutexRefused(t, m)
  PROVE  TimersChange
<1>1. CASE MutexTake(t, m) \/ MutexTaken(t, m) \/ MutexUnnest(t, m) \/ MutexRefused(t, m)
  BY <1>1 DEF MutexTake, MutexTaken, MutexUnnest, MutexRefused, tvars, TimersChange
<1>2. CASE MutexWait(t, m, time)
  <2>1. masked = "no" /\ UNCHANGED <<rt_tick, masked>>
    BY <1>2 DEF MutexWait, Calls
  <2>2. timers' = timers \/ timers' = IF time > 0 THEN TimerStarted(t, time) ELSE timers
    BY <1>2 DEF MutexWait, Suspend
  <2>3. time > 0 => time \in 1 .. HalfTick - 1
    BY HalfTickIs, SMT DEF Times
  <2> QED
    BY <2>1, <2>2, <2>3 DEF TimersChange
<1>3. CASE MutexRelease(t, m)
  <2>1. UNCHANGED <<rt_tick, masked>>
    BY <1>3 DEF MutexRelease
  <2>2. timers' = timers \/ \E w \in Threads : timers' = TimerRemoved(w)
    BY <1>3, HeadWaits, MutexAssumption DEF MutexRelease, Resume
  <2> QED
    BY <2>1, <2>2 DEF TimersChange
<1> QED
  BY <1>1, <1>2, <1>3

\* Nor the event, whose sender resumes one thread after the other.
LEMMA EventChange ==
  ASSUME ListsInv, LoopInv, NEW t \in Threads, NEW set, NEW opt, NEW time \in Times,
         EvSend(set) \/ EvLook \/ EvRecv(t, set, opt, time) \/ EvReceived(t)
  PROVE  TimersChange
<1>1. CASE EvSend(set) \/ EvReceived(t)
  BY <1>1 DEF EvSend, EvReceived, TimersChange
<1>2. CASE EvLook
  <2>1. Head(todo) \in Threads
    BY <1>2, HeadTailProperties DEF EvLook, LoopInv
  <2> QED
    BY <1>2, <2>1 DEF EvLook, Resume, TimersChange
<1>3. CASE EvRecv(t, set, opt, time)
  <2>1. masked = "no" /\ UNCHANGED <<rt_tick, masked>>
    BY <1>3 DEF EvRecv, Calls
  <2> QED
    BY <1>3, <2>1, SuspendChange DEF EvRecv, TimersChange
<1> QED
  BY <1>1, <1>2, <1>3

\* Mailbox and queue wait with the time that is left.
LEMMA AwaitChange ==
  ASSUME NEW t \in Threads, NEW l, NEW time \in Times, Await(t, l, time), masked = "no"
  PROVE  TimersChange
BY SuspendChange DEF Await

\* Nor does the mailbox.
LEMMA MailChange ==
  ASSUME ListsInv, ScalarInv, NEW t \in Threads, NEW m, NEW time \in Times,
         \/ MbSend(t, m, time) \/ MbPost(m) \/ MbSendGoesOn(t)
         \/ MbRecv(t, time) \/ MbRecvGoesOn(t)
  PROVE  TimersChange
<1>1. masked = "no" /\ {RecvList, SendList} \subseteq Lists /\ Remaining(t) \in Times
  BY RemainingIs, MailboxAssumption
     DEF MbSend, MbPost, MbSendGoesOn, MbRecv, MbRecvGoesOn, Calls, Returns
<1>2. ASSUME NEW n, Deposit(n) PROVE TimersChange
  BY <1>1, <1>2, ResumeChange DEF Deposit
<1>3. ASSUME Collect(t) PROVE TimersChange
  BY <1>1, <1>3, ResumeChange DEF Collect
<1>4. ASSUME UNCHANGED <<rt_tick, masked, timers>> PROVE TimersChange
  BY <1>4 DEF TimersChange
<1>5. CASE MbSend(t, m, time)
  BY <1>1, <1>2, <1>5, AwaitChange DEF MbSend
<1>6. CASE MbPost(m)
  BY <1>2, <1>6 DEF MbPost
<1>7. CASE MbSendGoesOn(t)
  BY <1>1, <1>2, <1>4, <1>7, AwaitChange DEF MbSendGoesOn
<1>8. CASE MbRecv(t, time)
  BY <1>1, <1>3, <1>8, AwaitChange DEF MbRecv
<1>9. CASE MbRecvGoesOn(t)
  BY <1>1, <1>3, <1>4, <1>9, AwaitChange DEF MbRecvGoesOn
<1> QED
  BY <1>5, <1>6, <1>7, <1>8, <1>9

\* Nor the message queue.
LEMMA QueueChange ==
  ASSUME ListsInv, ScalarInv, NEW t \in Threads, NEW m, NEW urgent, NEW time \in Times,
         \/ MqSend(t, m, urgent) \/ MqLink(t) \/ MqPost(m, urgent)
         \/ MqRecv(t, time) \/ MqRecvGoesOn(t) \/ MqFree(t)
  PROVE  TimersChange
<1>1. masked = "no" /\ MqList \in Lists /\ Remaining(t) \in Times
  BY RemainingIs, MessageQueueAssumption
     DEF MqSend, MqLink, MqPost, MqRecv, MqRecvGoesOn, MqFree, Calls, Returns
<1>2. CASE UNCHANGED <<rt_tick, masked, timers>>
  BY <1>2 DEF TimersChange
<1>3. CASE MqLink(t) \/ MqPost(m, urgent)
  BY <1>1, <1>3, ResumeChange DEF MqLink, MqPost
<1>4. CASE Await(t, MqList, time) \/ Await(t, MqList, Remaining(t))
  BY <1>1, <1>4, AwaitChange
<1> QED
  BY <1>2, <1>3, <1>4 DEF MqSend, MqRecv, MqRecvGoesOn, MqFree, MqUnlink

\* Nor the memory pool.
LEMMA PoolChange ==
  ASSUME ListsInv, NEW t \in Threads, NEW b, NEW time \in Times,
         MpAlloc(t, time) \/ MpAllocated(t) \/ MpFree(b)
  PROVE  TimersChange
<1>1. CASE MpAlloc(t, time)
  BY <1>1, SuspendChange DEF MpAlloc, Calls, TimersChange, tvars
<1>2. CASE MpAllocated(t)
  BY <1>2 DEF MpAllocated, TimersChange
<1>3. CASE MpFree(b)
  BY <1>3, ResumeChange, MemPoolAssumption DEF MpFree, ResumeFirst, TimersChange, tvars
<1> QED
  BY <1>1, <1>2, <1>3

\* rt_thread_sleep starts the thread's timer.
LEMMA SleepChange ==
  ASSUME NEW t \in Threads, NEW time \in 1 .. HalfTick - 1, Sleep(t, time) \/ Awake(t)
  PROVE  TimersChange
BY DEF Sleep, Awake, Calls, TimersChange

\* The tick brings all timers one nearer; rt_timer_check takes those that are due
\* from the head of the list until the first one is not.
LEMMA ClockOrder ==
  ASSUME IInv, OrderInv, Tick \/ Expire \/ TickEnd
  PROVE  OrderInv'
<1>0. /\ timers \in Seq(Timer) /\ rt_tick \in 0 .. TickMod - 1
      /\ \A i \in 1 .. Len(timers) : timers[i].at \in 0 .. TickMod - 1
  <2>1. timers \in Seq(Timer) /\ rt_tick \in 0 .. TickMod - 1
    BY DEF IInv, ListsInv, TimerSound, ScalarInv
  <2>2. \A i \in 1 .. Len(timers) : timers[i] \in Timer
    BY <2>1, ElementOfSeq
  <2> QED
    BY <2>1, <2>2 DEF Timer
<1>1. CASE Tick
  <2>1. /\ masked # "clock" /\ timers' = timers /\ rt_tick' = Plus(rt_tick, 1) /\ masked' = "clock"
    BY <1>1 DEF Tick
  <2>2. \A i \in 1 .. Len(timers) : Left(timers[i], rt_tick') = Left(timers[i], rt_tick) - 1
    BY <1>0, <2>1, TickedLeft DEF OrderInv, NoneDue, Left
  <2>3. \A i \in 1 .. Len(timers) : Left(timers[i], rt_tick) \in 0 .. TickMod - 1
    BY <1>0, MinusIs DEF Left
  <2>4. Sorted(timers, rt_tick')
    BY <2>2, <2>3, HalfTickIs, SMTT(60) DEF OrderInv, Sorted
  <2> QED
    BY <2>1, <2>4 DEF OrderInv
<1>2. CASE Expire
  <2>1. timers # <<>> /\ timers' = Tail(timers) /\ UNCHANGED <<rt_tick, masked>> /\ masked = "clock"
    BY <1>2 DEF Expire, Expired
  <2>2. Tail(timers) = RemoveAt(timers, 1) /\ 1 \in 1 .. Len(timers)
    BY <1>0, <2>1, TailIs, HeadInRange
  <2>3. Sorted(timers', rt_tick')
    BY <1>0, <2>1, <2>2, RemoveSorted DEF OrderInv
  <2> QED
    BY <2>1, <2>3 DEF OrderInv
<1>3. CASE TickEnd
  <2>1. ~ Expired /\ UNCHANGED <<timers, rt_tick>> /\ masked' = "no"
    BY <1>3 DEF TickEnd
  <2>2. NoneDue(timers, rt_tick)
    <3> SUFFICES ASSUME NEW i \in 1 .. Len(timers)
                 PROVE  Left(timers[i], rt_tick) > 0
      BY DEF NoneDue
    <3>1. timers # <<>> /\ 1 \in 1 .. Len(timers) /\ Head(timers) = timers[1] /\ Len(timers) \in Nat
      BY <1>0, LenProperties
    <3>2. Minus(rt_tick, timers[1].at) >= HalfTick
      <4>1. ~ (Minus(rt_tick, timers[1].at) < HalfTick)
        BY <2>1, <3>1 DEF Expired
      <4>2. Minus(rt_tick, timers[1].at) \in 0 .. TickMod - 1
        BY <1>0, <3>1, MinusIs
      <4> QED
        BY <4>1, <4>2, HalfTickIs
    <3>3. Left(timers[1], rt_tick) > 0
      <4>1. timers[1].at \in 0 .. TickMod - 1
        BY <1>0, <3>1
      <4> QED
        BY <1>0, <3>2, <4>1, HalfTickIs, SMT DEF Left, Minus
    <3>4. Left(timers[1], rt_tick) \in 0 .. TickMod - 1 /\ Left(timers[i], rt_tick) \in 0 .. TickMod - 1
      BY <1>0, <3>1, MinusIs DEF Left
    <3>5. i = 1 \/ Left(timers[1], rt_tick) <= Left(timers[i], rt_tick)
      BY <3>1 DEF OrderInv, Sorted
    <3> QED
      BY <3>3, <3>4, <3>5
  <2> QED
    BY <2>1, <2>2 DEF OrderInv
<1> QED
  BY <1>1, <1>2, <1>3

\* Every step of the kernel keeps the order.
LEMMA NextOrder == IInv /\ OrderInv /\ [Next]_vars => OrderInv'
<1> SUFFICES ASSUME IInv, OrderInv, [Next]_vars PROVE OrderInv'
  OBVIOUS
<1> PICK one \in Threads : TRUE
  BY ThreadsAssumption
<1>0. 1 \in 1 .. HalfTick - 1 /\ 0 \in Times /\ ListsInv /\ ScalarInv /\ LoopInv
  BY HalfTickIs, SMT DEF Times, IInv
<1>1. ASSUME NEW t \in Threads, CallSem(t) PROVE TimersChange
  BY <1>0, <1>1, SemChange DEF CallSem
<1>2. ASSUME NEW t \in Threads, CallMutex(t) PROVE TimersChange
  BY <1>0, <1>2, MutexChange DEF CallMutex
<1>3. ASSUME NEW t \in Threads, CallEvent(t) PROVE TimersChange
  BY <1>0, <1>3, EventChange DEF CallEvent
<1>4. ASSUME NEW t \in Threads, CallMailbox(t) PROVE TimersChange
  BY <1>0, <1>4, MailChange DEF CallMailbox
<1>5. ASSUME NEW t \in Threads, CallQueue(t) PROVE TimersChange
  BY <1>0, <1>5, QueueChange DEF CallQueue
<1>6. ASSUME NEW t \in Threads, CallPool(t) PROVE TimersChange
  BY <1>0, <1>6, PoolChange DEF CallPool
<1>7. ASSUME NEW t \in Threads, CallSleep(t) PROVE TimersChange
  BY <1>7, SleepChange DEF CallSleep
<1>8. ASSUME NEW t \in Threads, GoOn(t) PROVE TimersChange
  <2>1. CASE SemTaken(t)
    BY <1>0, <2>1, SemChange
  <2>2. CASE \E m \in Mutexes : MutexTaken(t, m)
    BY <1>0, <2>2, MutexChange
  <2>3. CASE EvReceived(t)
    BY <1>0, <2>3, EventChange
  <2>4. CASE MbSendGoesOn(t) \/ MbRecvGoesOn(t)
    BY <1>0, <2>4, MailChange
  <2>5. CASE MqLink(t) \/ MqRecvGoesOn(t) \/ MqFree(t)
    BY <1>0, <2>5, QueueChange
  <2>6. CASE MpAllocated(t)
    BY <1>0, <2>6, PoolChange
  <2>7. CASE Awake(t)
    BY <1>0, <2>7, SleepChange
  <2> QED
    BY <1>8, <2>1, <2>2, <2>3, <2>4, <2>5, <2>6, <2>7 DEF GoOn
<1>9. ASSUME DeviceSem PROVE TimersChange
  BY <1>0, <1>9, SemChange DEF DeviceSem
<1>10. ASSUME DeviceEvent \/ EventLoop PROVE TimersChange
  BY <1>0, <1>10, EventChange DEF DeviceEvent, EventLoop
<1>11. ASSUME DeviceMail PROVE TimersChange
  BY <1>0, <1>11, MailChange DEF DeviceMail
<1>12. ASSUME DeviceMessage PROVE TimersChange
  BY <1>0, <1>12, QueueChange DEF DeviceMessage
<1>13. ASSUME DevicePool PROVE TimersChange
  BY <1>0, <1>13, PoolChange DEF DevicePool
<1>14. CASE Clock
  BY <1>14, ClockOrder DEF Clock
<1>15. ASSUME UNCHANGED vars PROVE TimersChange
  BY <1>15 DEF vars, tvars, TimersChange
<1>16. TimersChange \/ Clock
  BY <1>1, <1>2, <1>3, <1>4, <1>5, <1>6, <1>7, <1>8, <1>9, <1>10, <1>11, <1>12, <1>13, <1>15 DEF Next
<1> QED
  BY <1>14, <1>16, ChangeOrder

\* At first no timer runs.
LEMMA InitOrder == Init => OrderInv
<1> SUFFICES ASSUME Init PROVE OrderInv
  OBVIOUS
<1>1. timers = <<>> /\ Len(<<>>) = 0
  BY DEF Init, ThreadsInit
<1> QED
  BY <1>1, SMT DEF OrderInv, Sorted, NoneDue

\* The timers are sorted by the time they have left, and none is overdue when the
\* clock interrupt is over, across every wrap of the counter.
THEOREM KernelTimers == Spec => []TimersInOrder
<1>1. IInv /\ OrderInv => TimersInOrder
  <2> SUFFICES ASSUME IInv, OrderInv PROVE TimersInOrder
    OBVIOUS
  <2>1. DOMAIN timers = 1 .. Len(timers)
    BY LenProperties DEF IInv, ListsInv, TimerSound
  <2> QED
    BY <2>1 DEF OrderInv, Sorted, NoneDue, Left, LeftOf, TimersInOrder
<1> QED
  BY <1>1, InitOrder, NextOrder, Invariant, PTL DEF Spec
=============================================================================
