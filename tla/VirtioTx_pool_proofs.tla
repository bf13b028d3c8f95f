------------------------- MODULE VirtioTx_pool_proofs -------------------------
(***************************************************************************)
(* The memory pool of the transmit queue, for any pool, any queue and any  *)
(* messages.  As long as no store of the handler and no send have raced    *)
(* and no zero byte was written over a text, the texts in flight are kept  *)
(* apart and whole, so that the queue is a ConsoleChannel.  And as long as *)
(* what is sent fits the pool twice more than there are descriptors, the   *)
(* allocated memory goes round the pool without meeting its own tail: no   *)
(* message fails to find memory and no zero byte does harm.                *)
(***************************************************************************)
EXTENDS VirtioTx_proofs, SequenceTheorems

-----------------------------------------------------------------------------
(* What is in the pool                                                     *)

(* The descriptors whose text is in the pool, the oldest first: the one    *)
(* the handler gives back keeps its memory until that is freed.            *)
Working == IF hpc \in {"link", "head", "add", "free"} THEN << hid >> ELSE << >>
Holding == IF pc = "publish" THEN << id >> ELSE << >>
Flight  == Working \o (used \o (taken \o (avail \o Holding)))

(* The memory they have; and the memory that has been allocated, which     *)
(* includes that of a message that is about to be copied.                  *)
NextSpan == [addr |-> addr, len |-> msg]
Texts    == [k \in 1..Len(Flight) |-> buf[Flight[k]]]
Spans    == IF pc = "copy" THEN Append(Texts, NextSpan) ELSE Texts

Bytes(span) == span.addr..(span.addr + span.len - 1)
End(span)   == span.addr + span.len

(* What is allocated lies in the pool, apart from the rest, and what has   *)
(* been copied is there as it was sent.                                    *)
Lying ==
  \A k \in 1..Len(Spans) : Spans[k].len > 0 /\ Bytes(Spans[k]) \subseteq Addrs

Separate ==
  \A i, j \in 1..Len(Spans) :
    i # j => Bytes(Spans[i]) \intersect Bytes(Spans[j]) = {}

Whole ==
  \A k \in 1..Len(Texts) : \A a \in Bytes(Texts[k]) : pool[a] = Texts[k].len

Described == pc = "publish" => buf[id] = NextSpan

Kept == Lying /\ Separate /\ Whole /\ Described

KeptInv == raced \/ erased \/ Kept

(* What a message may be long, for so many of them to fit.                 *)
Slot     == PoolSize \div (QSize + 2)
Times(n) == n * Slot

(* Allocated memory goes round the pool.  Behind span number w it went     *)
(* back to the start: what comes after is lifted by the size of the pool.  *)
(* From lo[k] to hi[k] span k then lies: they are in order, all that they  *)
(* leave out is what was too short at the end of the pool, and together    *)
(* they are shorter than the pool.                                         *)
Lo(S, w) ==
  [k \in 1..Len(S) |-> S[k].addr + (IF w < k THEN PoolSize ELSE 0)]
Hi(S, w) ==
  [k \in 1..Len(S) |->
     S[k].addr + S[k].len + (IF w < k THEN PoolSize ELSE 0)]

Waste(w, i, j) == IF i <= w /\ w < j THEN Slot - 1 ELSE 0

Laid(n, lo, hi, w) ==
  /\ \A i, j \in 1..n : i < j => hi[i] <= lo[j]
  /\ \A i, j \in 1..n : i <= j =>
       /\ hi[j] - lo[i] <= Times(j - i + 1) + Waste(w, i, j)
       /\ hi[j] - lo[i] < PoolSize

SpanType == [addr : Nat, len : 1..Slot]

RingAt(S, off, w) ==
  /\ S \in Seq(SpanType)
  /\ off \in 0..PoolSize
  /\ w \in 0..Len(S) /\ (S # << >> => w > 0)
  /\ \A k \in 1..Len(S) : End(S[k]) <= PoolSize
  /\ S # << >> => off = End(S[Len(S)])
  /\ Laid(Len(S), Lo(S, w), Hi(S, w), w)

IsRing(S, off) == \E w \in 0..Len(S) : RingAt(S, off, w)

(* Only the texts are not zero.                                            *)
NothingElse ==
  \A a \in Addrs : pool[a] # 0 => \E k \in 1..Len(Texts) : a \in Bytes(Texts[k])

Round == IsRing(Spans, offset) /\ NothingElse /\ leaked = {} /\ ~ erased

RingInv ==
  /\ pc \notin {"idle", "halted"} => msg <= longest
  /\ raced \/ TooLong \/ Round

-----------------------------------------------------------------------------
(* Arithmetic of the pool                                                  *)

(* What is not too long fits a slot, and there are two slots more than     *)
(* descriptors: 1026 times 63 bytes are 64638, and VIRTQ_MEMORY_POOL_SIZE  *)
(* is 65536.                                                               *)
LEMMA SlotFits ==
  ASSUME ConstantsAssumption
  PROVE  /\ Slot \in Nat
         /\ (QSize + 2) * Slot <= PoolSize
         /\ \A m \in Nat : (QSize + 2) * m > PoolSize <=> m > Slot
<1>1. QSize \in Nat /\ QSize > 0 /\ PoolSize \in Nat
  BY DEF ConstantsAssumption
<1> DEFINE n == QSize + 2
<1>2. n \in Nat /\ n > 0
  BY <1>1
<1>3. /\ Slot \in Int
      /\ n * Slot <= PoolSize
      /\ PoolSize < n * (Slot + 1)
  <2> HIDE DEF n
  <2> QED
    BY <1>1, <1>2 DEF Slot, n
<1>4. Slot >= 0
  BY <1>1, <1>2, <1>3
<1>5. ASSUME NEW m \in Nat  PROVE n * m > PoolSize <=> m > Slot
  <2> HIDE DEF n
  <2>1. CASE m <= Slot
    <3>1. n * m <= n * Slot
      BY <2>1, <1>2, <1>3
    <3> QED
      BY <2>1, <3>1, <1>1, <1>2, <1>3
  <2>2. CASE m > Slot
    <3>1. n * m >= n * (Slot + 1)
      BY <2>2, <1>2, <1>3, <1>4
    <3> QED
      BY <2>2, <3>1, <1>1, <1>2, <1>3
  <2> QED
    BY <2>1, <2>2, <1>3
<1> QED
  BY <1>1, <1>3, <1>4, <1>5

LEMMA SlotFacts ==
  ASSUME ConstantsAssumption
  PROVE  /\ QSize \in Nat /\ QSize > 0 /\ PoolSize \in Nat
         /\ Slot \in Nat
BY SlotFits DEF ConstantsAssumption

LEMMA TimesFacts ==
  ASSUME ConstantsAssumption
  PROVE  /\ \A n \in Nat : Times(n) \in Nat /\ Times(n + 1) = Times(n) + Slot
         /\ Times(0) = 0
         /\ \A n \in 0..(QSize + 1) : Times(n) + Slot <= PoolSize
<1>1. Slot \in Nat /\ QSize \in Nat /\ PoolSize \in Nat
  BY SlotFacts
<1>2. \A n \in Nat : n * Slot \in Nat /\ (n + 1) * Slot = n * Slot + Slot
  BY <1>1
<1>3. ASSUME NEW n \in 0..(QSize + 1)  PROVE n * Slot + Slot <= PoolSize
  <2>1. (n + 1) * Slot <= (QSize + 2) * Slot
    BY <1>1
  <2> QED
    BY <2>1, <1>1, <1>2, SlotFits
<1> QED
  BY <1>1, <1>2, <1>3 DEF Times
-----------------------------------------------------------------------------
(* Allocated memory as a ring                                              *)

LEMMA SpanFacts ==
  ASSUME NEW S \in Seq(SpanType)
  PROVE  /\ Len(S) \in Nat
         /\ \A k \in 1..Len(S) : /\ S[k] \in SpanType
                                /\ S[k].addr \in Nat
                                /\ S[k].len \in 1..Slot
<1>1. Len(S) \in Nat /\ \A k \in 1..Len(S) : S[k] \in SpanType
  OBVIOUS
<1>2. \A span \in SpanType : span.addr \in Nat /\ span.len \in 1..Slot
  BY DEF SpanType
<1> QED
  BY <1>1, <1>2

LEMMA BoundFacts ==
  ASSUME ConstantsAssumption, NEW S \in Seq(SpanType), NEW w
  PROVE  /\ Lo(S, w) \in [1..Len(S) -> Int]
         /\ Hi(S, w) \in [1..Len(S) -> Int]
         /\ \A k \in 1..Len(S) :
              /\ Lo(S, w)[k] = S[k].addr + (IF w < k THEN PoolSize ELSE 0)
              /\ Hi(S, w)[k] = S[k].addr + S[k].len
                               + (IF w < k THEN PoolSize ELSE 0)
<1>1. PoolSize \in Nat /\ \A k \in 1..Len(S) : S[k].addr \in Nat /\ S[k].len \in Nat
  BY SlotFacts, SpanFacts
<1>2. ASSUME NEW k \in 1..Len(S)
      PROVE  /\ S[k].addr + (IF w < k THEN PoolSize ELSE 0) \in Int
             /\ S[k].addr + S[k].len + (IF w < k THEN PoolSize ELSE 0) \in Int
  BY <1>1
<1> QED
  BY <1>2 DEF Lo, Hi

LEMMA EmptyRing ==
  ASSUME NEW off \in 0..PoolSize
  PROVE  IsRing(<< >>, off)
<1>1. RingAt(<< >>, off, 0)
  BY DEF RingAt, Laid
<1> QED
  BY <1>1 DEF IsRing

(* Spans do not overlap, nor does the byte behind the last of them belong  *)
(* to any (strcpy writes a zero there).                                    *)
LEMMA Apart ==
  ASSUME ConstantsAssumption, NEW S, NEW off, IsRing(S, off)
  PROVE  /\ \A i, j \in 1..Len(S) : i # j => Bytes(S[i]) \intersect Bytes(S[j]) = {}
         /\ \A i \in 1..Len(S) : Bytes(S[i]) \subseteq Addrs
         /\ \A i \in 1..Len(S) : End(S[Len(S)]) \notin Bytes(S[i])
<1>1. PICK w \in 0..Len(S) : RingAt(S, off, w)
  BY DEF IsRing
<1>2. /\ PoolSize \in Nat /\ Len(S) \in Nat /\ w \in Nat
      /\ S \in Seq(SpanType)
      /\ \A k \in 1..Len(S) : S[k].addr \in Nat /\ S[k].len \in 1..Slot
  BY <1>1, SlotFacts, SpanFacts DEF RingAt
<1>3. \A k \in 1..Len(S) : End(S[k]) <= PoolSize
  BY <1>1 DEF RingAt
<1>4. ASSUME NEW i \in 1..Len(S), NEW j \in 1..Len(S), i < j
      PROVE  S[i].addr + S[i].len <= S[j].addr \/ S[j].addr + S[j].len < S[i].addr
  <2>1. /\ Hi(S, w)[i] <= Lo(S, w)[j]
        /\ Hi(S, w)[j] - Lo(S, w)[i] < PoolSize
    BY <1>1, <1>2, <1>4 DEF RingAt, Laid
  <2>2. /\ S[i].addr \in Nat /\ S[i].len \in Nat
        /\ S[j].addr \in Nat /\ S[j].len \in Nat
    BY <1>2
  <2>3. /\ Lo(S, w)[i] = S[i].addr + (IF w < i THEN PoolSize ELSE 0)
        /\ Lo(S, w)[j] = S[j].addr + (IF w < j THEN PoolSize ELSE 0)
        /\ Hi(S, w)[i] = S[i].addr + S[i].len + (IF w < i THEN PoolSize ELSE 0)
        /\ Hi(S, w)[j] = S[j].addr + S[j].len + (IF w < j THEN PoolSize ELSE 0)
    BY <1>2, BoundFacts
  <2>4. CASE w < i
    <3>1. w < j
      BY <2>4, <1>2, <1>4
    <3> QED
      BY <2>1, <2>2, <2>3, <2>4, <3>1, <1>2
  <2>5. CASE ~ (w < i) /\ w < j
    BY <2>1, <2>2, <2>3, <2>5, <1>2
  <2>6. CASE ~ (w < i) /\ ~ (w < j)
    BY <2>1, <2>2, <2>3, <2>6, <1>2
  <2> QED
    BY <2>4, <2>5, <2>6
<1>5. ASSUME NEW i \in 1..Len(S), NEW j \in 1..Len(S), i < j
      PROVE  Bytes(S[i]) \intersect Bytes(S[j]) = {}
  <2>1. /\ S[i].addr \in Nat /\ S[i].len \in Nat
        /\ S[j].addr \in Nat /\ S[j].len \in Nat
    BY <1>2
  <2>2. S[i].addr + S[i].len <= S[j].addr \/ S[j].addr + S[j].len < S[i].addr
    BY <1>4, <1>5
  <2> DEFINE a == S[i].addr
             b == S[i].len
             c == S[j].addr
             d == S[j].len
  <2>3. Bytes(S[i]) = a..(a + b - 1) /\ Bytes(S[j]) = c..(c + d - 1)
    BY DEF Bytes
  <2>4. a \in Nat /\ b \in Nat /\ c \in Nat /\ d \in Nat
    BY <2>1
  <2>5. a + b <= c \/ c + d < a
    BY <2>2
  <2> HIDE DEF a, b, c, d
  <2> QED
    BY <2>3, <2>4, <2>5
<1>6. \A i \in 1..Len(S) : Bytes(S[i]) \subseteq Addrs
  BY <1>2, <1>3 DEF Bytes, End, Addrs
<1>7. ASSUME NEW i \in 1..Len(S)  PROVE End(S[Len(S)]) \notin Bytes(S[i])
  <2>1. CASE i = Len(S)
    BY <2>1, <1>2 DEF End, Bytes
  <2>2. CASE i < Len(S)
    <3>1. Len(S) \in 1..Len(S)
      BY <1>2
    <3>2. \/ S[i].addr + S[i].len <= S[Len(S)].addr
          \/ S[Len(S)].addr + S[Len(S)].len < S[i].addr
      BY <3>1, <2>2, <1>4
    <3>3. /\ S[i].addr \in Nat /\ S[i].len \in Nat
          /\ S[Len(S)].addr \in Nat /\ S[Len(S)].len \in Nat
      BY <3>1, <1>2
    <3> DEFINE a == S[i].addr
               b == S[i].len
               c == S[Len(S)].addr
               d == S[Len(S)].len
    <3>4. Bytes(S[i]) = a..(a + b - 1) /\ End(S[Len(S)]) = c + d
      BY DEF Bytes, End
    <3>5. a \in Nat /\ b \in Nat /\ c \in Nat /\ d \in Nat /\ d > 0
      BY <3>1, <3>3, <1>2
    <3>6. a + b <= c \/ c + d < a
      BY <3>2
    <3> HIDE DEF a, b, c, d
    <3> QED
      BY <3>4, <3>5, <3>6
  <2> QED
    BY <2>1, <2>2, <1>2
<1>8. ASSUME NEW i \in 1..Len(S), NEW j \in 1..Len(S), i # j
      PROVE  Bytes(S[i]) \intersect Bytes(S[j]) = {}
  <2>1. i < j \/ j < i
    BY <1>2, <1>8
  <2>2. CASE i < j
    BY <2>2, <1>5
  <2>3. CASE j < i
    BY <2>3, <1>5
  <2> QED
    BY <2>1, <2>2, <2>3
<1> QED
  BY <1>6, <1>7, <1>8

(* What is laid stays so without the first, wherever the turn is.          *)
LEMMA LaidWithoutFirst ==
  ASSUME ConstantsAssumption, NEW n \in Nat, NEW d \in Int,
         NEW lo \in [1..(n + 1) -> Int], NEW hi \in [1..(n + 1) -> Int],
         NEW low \in [1..n -> Int], NEW high \in [1..n -> Int],
         \A k \in 1..n : low[k] = lo[k + 1] - d /\ high[k] = hi[k + 1] - d,
         NEW w \in 1..(n + 1), NEW v \in 0..n,
         v = IF w = 1 THEN n ELSE w - 1,
         Laid(n + 1, lo, hi, w)
  PROVE  Laid(n, low, high, v)
<1>1. ASSUME NEW i \in 1..n, NEW j \in 1..n
      PROVE  high[j] - low[i] = hi[j + 1] - lo[i + 1]
  <2>1. i + 1 \in 1..(n + 1) /\ j + 1 \in 1..(n + 1)
    OBVIOUS
  <2>2. lo[i + 1] \in Int /\ hi[j + 1] \in Int
    BY <2>1
  <2>3. low[i] = lo[i + 1] - d /\ high[j] = hi[j + 1] - d
    OBVIOUS
  <2> DEFINE l == lo[i + 1]
             h == hi[j + 1]
  <2>4. l \in Int /\ h \in Int /\ low[i] = l - d /\ high[j] = h - d
    BY <2>2, <2>3
  <2>5. high[j] - low[i] = h - l
    <3> HIDE DEF l, h
    <3> QED
      BY <2>4
  <2> QED
    BY <2>5
<1>2. ASSUME NEW i \in 1..n, NEW j \in 1..n, i < j
      PROVE  high[i] <= low[j]
  <2>1. i + 1 \in 1..(n + 1) /\ j + 1 \in 1..(n + 1) /\ i + 1 < j + 1
    BY <1>2
  <2>2. hi[i + 1] \in Int /\ lo[j + 1] \in Int /\ hi[i + 1] <= lo[j + 1]
    BY <2>1 DEF Laid
  <2>3. high[i] = hi[i + 1] - d /\ low[j] = lo[j + 1] - d
    OBVIOUS
  <2> DEFINE l == lo[j + 1]
             h == hi[i + 1]
  <2>4. l \in Int /\ h \in Int /\ h <= l /\ high[i] = h - d /\ low[j] = l - d
    BY <2>2, <2>3
  <2> HIDE DEF l, h
  <2> QED
    BY <2>4
<1>3. ASSUME NEW i \in 1..n, NEW j \in 1..n, i <= j
      PROVE  /\ high[j] - low[i] <= Times(j - i + 1) + Waste(v, i, j)
             /\ high[j] - low[i] < PoolSize
  <2>1. i + 1 \in 1..(n + 1) /\ j + 1 \in 1..(n + 1) /\ i + 1 <= j + 1
    BY <1>3
  <2>2. /\ hi[j + 1] - lo[i + 1]
             <= Times((j + 1) - (i + 1) + 1) + Waste(w, i + 1, j + 1)
        /\ hi[j + 1] - lo[i + 1] < PoolSize
    BY <2>1 DEF Laid
  <2>3. (j + 1) - (i + 1) + 1 = j - i + 1
    OBVIOUS
  <2>4. Waste(w, i + 1, j + 1) = Waste(v, i, j)
    BY DEF Waste
  <2> QED
    BY <2>2, <2>3, <2>4, <1>1
<1> QED
  BY <1>2, <1>3 DEF Laid

(* The oldest message gives its memory back: when nothing is left in front *)
(* of the turn, nothing is lifted.                                         *)
LEMMA RingWithoutFirst ==
  ASSUME ConstantsAssumption, NEW S, S # << >>, NEW off, IsRing(S, off)
  PROVE  IsRing(Tail(S), off)
<1>1. PICK w \in 0..Len(S) : RingAt(S, off, w)
  BY DEF IsRing
<1> DEFINE n == Len(S) - 1
           T == Tail(S)
           v == IF w = 1 THEN n ELSE w - 1
           d == IF w = 1 THEN PoolSize ELSE 0
<1>2. S \in Seq(SpanType) /\ w > 0
  BY <1>1 DEF RingAt
<1>3. /\ n \in Nat /\ Len(S) = n + 1
      /\ T \in Seq(SpanType) /\ Len(T) = n
      /\ \A k \in 1..n : T[k] = S[k + 1]
      /\ w \in 1..(n + 1)
  BY <1>2
<1> HIDE DEF n, T
<1>4. v \in 0..n /\ (n > 0 => v > 0) /\ PoolSize \in Nat /\ d \in Int
  BY <1>3, SlotFacts
<1> HIDE DEF v, d
<1>5. ASSUME NEW k \in 1..n
      PROVE  /\ Lo(T, v)[k] = Lo(S, w)[k + 1] - d
             /\ Hi(T, v)[k] = Hi(S, w)[k + 1] - d
  <2>1. /\ k + 1 \in 1..(n + 1) /\ T[k] = S[k + 1] /\ k \in Nat
        /\ k + 1 \in 1..Len(S) /\ k \in 1..Len(T)
    BY <1>3
  <2>2. S[k + 1].addr \in Nat /\ S[k + 1].len \in Nat
    BY <2>1, <1>2, SpanFacts
  <2>3. /\ Lo(S, w)[k + 1] = S[k + 1].addr + (IF w < k + 1 THEN PoolSize ELSE 0)
        /\ Hi(S, w)[k + 1] = S[k + 1].addr + S[k + 1].len
                             + (IF w < k + 1 THEN PoolSize ELSE 0)
    <3> DEFINE j == k + 1
    <3>1. j \in 1..Len(S)
      BY <2>1
    <3> HIDE DEF j
    <3>2. /\ Lo(S, w)[j] = S[j].addr + (IF w < j THEN PoolSize ELSE 0)
          /\ Hi(S, w)[j] = S[j].addr + S[j].len
                           + (IF w < j THEN PoolSize ELSE 0)
      BY <3>1, <1>2, BoundFacts
    <3> QED
      BY <3>2 DEF j
  <2>4. /\ Lo(T, v)[k] = S[k + 1].addr + (IF v < k THEN PoolSize ELSE 0)
        /\ Hi(T, v)[k] = S[k + 1].addr + S[k + 1].len
                         + (IF v < k THEN PoolSize ELSE 0)
    BY <2>1, <1>3, BoundFacts
  <2>5. CASE w = 1
    <3>1. /\ (IF w < k + 1 THEN PoolSize ELSE 0) = PoolSize
          /\ (IF v < k THEN PoolSize ELSE 0) = 0
          /\ d = PoolSize
      BY <2>1, <2>5, <1>3 DEF v, d
    <3> QED
      BY <2>2, <2>3, <2>4, <3>1, <1>4
  <2>6. CASE w # 1
    <3>1. /\ w < k + 1 <=> v < k
          /\ d = 0
      BY <2>1, <2>6, <1>3 DEF v, d
    <3> QED
      BY <2>2, <2>3, <2>4, <3>1, <1>4
  <2> QED
    BY <2>5, <2>6
<1>6. Laid(n, Lo(T, v), Hi(T, v), v)
  <2>1. /\ Lo(S, w) \in [1..(n + 1) -> Int] /\ Hi(S, w) \in [1..(n + 1) -> Int]
        /\ Lo(T, v) \in [1..n -> Int] /\ Hi(T, v) \in [1..n -> Int]
    BY <1>2, <1>3, BoundFacts
  <2>2. Laid(n + 1, Lo(S, w), Hi(S, w), w)
    BY <1>1, <1>3 DEF RingAt
  <2>3. v = IF w = 1 THEN n ELSE w - 1
    BY DEF v
  <2>4. \A k \in 1..n : /\ Lo(T, v)[k] = Lo(S, w)[k + 1] - d
                         /\ Hi(T, v)[k] = Hi(S, w)[k + 1] - d
    BY <1>5
  <2>5. n \in Nat /\ w \in 1..(n + 1) /\ v \in 0..n /\ d \in Int
    BY <1>3, <1>4
  <2> DEFINE lo == Lo(S, w)
             hi == Hi(S, w)
             low == Lo(T, v)
             high == Hi(T, v)
  <2> HIDE DEF lo, hi, low, high
  <2>6. /\ lo \in [1..(n + 1) -> Int] /\ hi \in [1..(n + 1) -> Int]
        /\ low \in [1..n -> Int] /\ high \in [1..n -> Int]
        /\ Laid(n + 1, lo, hi, w)
        /\ \A k \in 1..n : low[k] = lo[k + 1] - d /\ high[k] = hi[k + 1] - d
    BY <2>1, <2>2, <2>4 DEF lo, hi, low, high
  <2>7. Laid(n, low, high, v)
    BY <2>3, <2>5, <2>6, LaidWithoutFirst
  <2> QED
    BY <2>7 DEF low, high
<1>7. RingAt(T, off, v)
  <2>1. \A k \in 1..n : k + 1 \in 1..(n + 1)
    BY <1>3
  <2>2. \A k \in 1..n : End(T[k]) <= PoolSize
    BY <2>1, <1>1, <1>3 DEF RingAt
  <2>3. ASSUME n > 0  PROVE off = End(T[n])
    <3>1. T[n] = S[n + 1]
      BY <2>3, <1>3
    <3> QED
      BY <3>1, <1>1, <1>3 DEF RingAt
  <2>4. off \in 0..PoolSize
    BY <1>1 DEF RingAt
  <2>5. T # << >> => n > 0
    BY <1>3
  <2> QED
    BY <2>2, <2>3, <2>4, <2>5, <1>3, <1>4, <1>6 DEF RingAt
<1> QED
  BY <1>3, <1>4, <1>7 DEF IsRing, T

(* The next message goes behind the last, or, when what is left at the end *)
(* of the pool is too short for it, to the start.                          *)
LEMMA LaidWithNext ==
  ASSUME ConstantsAssumption, NEW n \in Nat, n <= QSize,
         NEW lo \in [1..n -> Int], NEW hi \in [1..n -> Int],
         NEW low \in [1..(n + 1) -> Int], NEW high \in [1..(n + 1) -> Int],
         \A k \in 1..n : low[k] = lo[k] /\ high[k] = hi[k],
         NEW m \in 1..Slot, NEW gap \in Nat,
         \A k \in 1..n : lo[k] <= hi[k],
         n > 0 => low[n + 1] = hi[n] + gap,
         high[n + 1] = low[n + 1] + m,
         NEW w \in 0..n, NEW v \in 1..(n + 1),
         \/ gap = 0 /\ v = IF w = n THEN n + 1 ELSE w
         \/ n > 0 /\ gap < Slot /\ w = n /\ v = n,
         Laid(n, lo, hi, w)
  PROVE  Laid(n + 1, low, high, v)
<1>1. Slot \in Nat /\ PoolSize \in Nat /\ m \in Nat
  BY SlotFacts
<1>2. ASSUME NEW i \in 1..n
      PROVE  /\ high[n + 1] - low[i]
                  <= Times((n + 1) - i + 1) + Waste(v, i, n + 1)
             /\ high[n + 1] - low[i] < PoolSize
             /\ high[i] <= low[n + 1]
  <2>1. n \in 1..n /\ n > 0 /\ i <= n
    OBVIOUS
  <2>2. /\ lo[i] \in Int /\ hi[i] \in Int /\ hi[n] \in Int
        /\ low[i] = lo[i] /\ high[i] = hi[i]
        /\ low[n + 1] = hi[n] + gap
        /\ high[n + 1] = hi[n] + gap + m
    BY <2>1
  <2>3. hi[n] - lo[i] <= Times(n - i + 1) + Waste(w, i, n)
    BY <2>1 DEF Laid
  <2>4. hi[i] <= hi[n]
    <3>1. CASE i = n
      BY <3>1, <2>2
    <3>2. CASE i < n
      <4>1. hi[i] <= lo[n]
        BY <2>1, <3>2 DEF Laid
      <4>2. hi[n] >= lo[n]
        BY <2>1
      <4> QED
        BY <4>1, <4>2, <2>1, <2>2
    <3> QED
      BY <2>1, <3>1, <3>2
  <2>5. Waste(w, i, n) + gap <= Waste(v, i, n + 1)
    BY <1>1, <2>1 DEF Waste
  <2> DEFINE q == n - i + 1
  <2>6. /\ q \in Nat /\ q + 1 \in 0..(QSize + 1)
        /\ (n + 1) - i + 1 = q + 1
    BY <2>1, SlotFacts
  <2> HIDE DEF q
  <2>7. /\ Times(q) \in Nat /\ Times(q + 1) = Times(q) + Slot
        /\ Times(q + 1) + Slot <= PoolSize
    BY <2>6, TimesFacts
  <2>8. Waste(w, i, n) \in Int /\ Waste(v, i, n + 1) \in Int
        /\ Waste(v, i, n + 1) < Slot
    BY <1>1 DEF Waste
  <2> DEFINE a == hi[n]
             b == lo[i]
             t == Times(q)
             u == Waste(w, i, n)
             z == Waste(v, i, n + 1)
  <2>9. /\ a \in Int /\ b \in Int /\ t \in Nat /\ u \in Int /\ z \in Int
        /\ a - b <= t + u /\ u + gap <= z /\ z < Slot
        /\ t + Slot + Slot <= PoolSize
    BY <1>1, <2>2, <2>3, <2>5, <2>7, <2>8 DEF q
  <2>10. high[n + 1] - low[i] = a + gap + m - b
    BY <2>2
  <2>11. /\ high[n + 1] - low[i] <= Times(q + 1) + Waste(v, i, n + 1)
         /\ high[n + 1] - low[i] < PoolSize
    <3>1. Times(q + 1) + Waste(v, i, n + 1) = t + Slot + z
      BY <2>7
    <3> HIDE DEF a, b, t, u, z
    <3>2. m <= Slot /\ Slot \in Nat /\ PoolSize \in Nat /\ m \in Nat
      BY <1>1
    <3>3. a + gap + m - b <= t + Slot + z
      BY <2>9, <3>2
    <3>4. a + gap + m - b < PoolSize
      BY <2>9, <3>2, <3>3
    <3> QED
      BY <2>10, <3>1, <3>3, <3>4
  <2>12. high[i] <= low[n + 1]
    BY <2>2, <2>4
  <2> QED
    BY <2>6, <2>11, <2>12
<1>3. /\ high[n + 1] - low[n + 1] = m
      /\ low[n + 1] \in Int /\ high[n + 1] \in Int
  <2>1. n + 1 \in 1..(n + 1)
    OBVIOUS
  <2>2. low[n + 1] \in Int /\ high[n + 1] \in Int
    BY <2>1
  <2> QED
    BY <1>1, <2>2
<1>4. /\ Times(1) = Slot
      /\ Waste(v, n + 1, n + 1) = 0
      /\ m < PoolSize
  <2>1. Times(0 + 1) = Times(0) + Slot /\ Times(0) = 0
    BY TimesFacts
  <2>2. Times(1) + Slot <= PoolSize
    BY TimesFacts, SlotFacts
  <2> QED
    BY <1>1, <2>1, <2>2 DEF Waste
<1>5. ASSUME NEW i \in 1..(n + 1), NEW j \in 1..(n + 1), i < j
      PROVE  high[i] <= low[j]
  <2>1. i \in 1..n
    BY <1>5
  <2>2. CASE j = n + 1
    BY <2>1, <2>2, <1>2
  <2>3. CASE j \in 1..n
    <3>1. hi[i] <= lo[j]
      BY <2>1, <2>3, <1>5 DEF Laid
    <3>2. high[i] = hi[i] /\ low[j] = lo[j]
      BY <2>1, <2>3
    <3> QED
      BY <3>1, <3>2
  <2> QED
    BY <2>2, <2>3
<1>6. ASSUME NEW i \in 1..(n + 1), NEW j \in 1..(n + 1), i <= j
      PROVE  /\ high[j] - low[i] <= Times(j - i + 1) + Waste(v, i, j)
             /\ high[j] - low[i] < PoolSize
  <2>1. CASE j \in 1..n
    <3>1. i \in 1..n
      BY <2>1, <1>6
    <3>2. /\ hi[j] - lo[i] <= Times(j - i + 1) + Waste(w, i, j)
          /\ hi[j] - lo[i] < PoolSize
      BY <2>1, <3>1, <1>6 DEF Laid
    <3>3. high[j] = hi[j] /\ low[i] = lo[i]
      BY <2>1, <3>1
    <3>4. Waste(w, i, j) = Waste(v, i, j)
      BY <2>1 DEF Waste
    <3> QED
      BY <3>2, <3>3, <3>4
  <2>2. CASE j = n + 1 /\ i \in 1..n
    BY <2>2, <1>2
  <2>3. CASE j = n + 1 /\ i = n + 1
    <3>1. j - i + 1 = 1
      BY <2>3
    <3> QED
      BY <2>3, <3>1, <1>1, <1>3, <1>4
  <2> QED
    BY <2>1, <2>2, <2>3
<1> QED
  BY <1>5, <1>6 DEF Laid

(* Where virtio_memory_pool_alloc looks for memory.                        *)
Behindmost(off, m) == IF off + m <= PoolSize THEN off ELSE 0

LEMMA RingWithNext ==
  ASSUME ConstantsAssumption, NEW S, NEW off, IsRing(S, off),
         Len(S) <= QSize, NEW m \in 1..Slot
  PROVE  /\ off + m > PoolSize => m <= off
         /\ IsRing(Append(S, [addr |-> Behindmost(off, m), len |-> m]),
                   Behindmost(off, m) + m)
<1>1. PICK w \in 0..Len(S) : RingAt(S, off, w)
  BY DEF IsRing
<1> DEFINE n == Len(S)
           place == Behindmost(off, m)
           span == [addr |-> place, len |-> m]
           T == Append(S, span)
           wrap == off + m > PoolSize
           gap == IF wrap /\ n > 0 THEN PoolSize - off ELSE 0
           v == IF n = 0 THEN 1
                ELSE IF w = n /\ ~ wrap THEN n + 1 ELSE w
<1>2. /\ S \in Seq(SpanType) /\ off \in 0..PoolSize
      /\ Laid(n, Lo(S, w), Hi(S, w), w)
      /\ \A k \in 1..n : End(S[k]) <= PoolSize
      /\ n > 0 => w > 0 /\ off = End(S[n])
  BY <1>1 DEF RingAt
<1>3. /\ PoolSize \in Nat /\ Slot \in Nat /\ QSize \in Nat /\ QSize > 0
      /\ n \in Nat /\ n <= QSize /\ m \in Nat /\ m > 0 /\ m <= Slot
      /\ w \in Nat /\ w <= n /\ off \in Nat /\ off <= PoolSize
  BY <1>2, SlotFacts
<1>4. Slot + Slot <= PoolSize /\ Times(n) + Slot + Slot <= PoolSize
      /\ Times(n) \in Nat
  <2>1. /\ Times(n + 1) + Slot <= PoolSize /\ Times(n + 1) = Times(n) + Slot
        /\ Times(n) \in Nat
    BY <1>3, TimesFacts
  <2> QED
    BY <2>1, <1>3
<1>5. /\ place \in Nat /\ place + m <= PoolSize
      /\ place = IF wrap THEN 0 ELSE off
      /\ wrap => m <= off
  BY <1>3, <1>4 DEF Behindmost
<1>6. \A k \in 1..n : /\ S[k].addr \in Nat /\ S[k].len \in 1..Slot
  BY <1>2, SpanFacts
<1>7. n > 0 /\ wrap => w = n
  <2> SUFFICES ASSUME n > 0, wrap, w < n  PROVE FALSE
    BY <1>3
  <2>1. 1 \in 1..n /\ n \in 1..n /\ ~ (w < 1) /\ 1 <= n
    BY <1>2, <1>3
  <2>2. Hi(S, w)[n] - Lo(S, w)[1] <= Times(n - 1 + 1) + Waste(w, 1, n)
    BY <2>1, <1>2 DEF Laid
  <2>3. Times(n - 1 + 1) = Times(n) /\ Waste(w, 1, n) = Slot - 1
    <3>1. n - 1 + 1 = n
      BY <1>3
    <3> QED
      BY <3>1, <2>1, <1>3 DEF Waste
  <2>4. /\ Lo(S, w)[1] = S[1].addr
        /\ Hi(S, w)[n] = S[n].addr + S[n].len + PoolSize
    <3>1. /\ Lo(S, w)[1] = S[1].addr + (IF w < 1 THEN PoolSize ELSE 0)
          /\ Hi(S, w)[n] = S[n].addr + S[n].len
                           + (IF w < n THEN PoolSize ELSE 0)
      BY <2>1, <1>2, BoundFacts
    <3>2. S[1].addr \in Nat /\ S[n].addr \in Nat /\ S[n].len \in Nat
      BY <2>1, <1>6
    <3> QED
      BY <3>1, <3>2, <2>1, <1>3
  <2>5. off = S[n].addr + S[n].len
    BY <1>2 DEF End
  <2>6. /\ S[1].addr \in Nat /\ S[n].addr \in Nat /\ S[n].len \in Nat
        /\ S[1].addr + S[1].len <= PoolSize /\ S[1].len \in Nat
    BY <2>1, <1>2, <1>6 DEF End
  <2> HIDE DEF n, wrap
  <2>7. off + PoolSize - S[1].addr <= Times(n) + Slot - 1
    <3>1. Hi(S, w)[n] = off + PoolSize
      BY <2>4, <2>5
    <3>2. Hi(S, w)[n] - Lo(S, w)[1] <= Times(n) + (Slot - 1)
      BY <2>2, <2>3
    <3>3. (off + PoolSize) - S[1].addr <= Times(n) + (Slot - 1)
      BY <2>4, <3>1, <3>2
    <3> DEFINE t == Times(n)
               a == S[1].addr
    <3>4. /\ t \in Nat /\ a \in Nat
          /\ (off + PoolSize) - a <= t + (Slot - 1)
      BY <3>3, <1>4, <2>6
    <3>5. off + PoolSize - a <= t + Slot - 1
      <4> HIDE DEF t, a
      <4> QED
        BY <3>4, <1>3
    <3> QED
      BY <3>5
  <2>8. off + m < S[1].addr
    <3> DEFINE t == Times(n)
               a == S[1].addr
    <3>1. /\ t \in Nat /\ a \in Nat /\ t + Slot + Slot <= PoolSize
          /\ off + PoolSize - a <= t + Slot - 1
      BY <2>6, <2>7, <1>4
    <3>2. off + m < a
      <4> HIDE DEF t, a
      <4> QED
        BY <3>1, <1>3
    <3> QED
      BY <3>2
  <2> QED
    BY <2>6, <2>8, <1>3 DEF wrap
<1>8. /\ T \in Seq(SpanType) /\ Len(T) = n + 1
      /\ T[n + 1] = span /\ \A k \in 1..n : T[k] = S[k]
      /\ span.addr = place /\ span.len = m
  <2>1. span \in SpanType
    BY <1>5 DEF SpanType
  <2> QED
    BY <2>1, <1>2
<1>9. /\ v \in 1..(n + 1) /\ gap \in Nat
      /\ \/ gap = 0 /\ v = IF w = n THEN n + 1 ELSE w
         \/ n > 0 /\ gap < Slot /\ w = n /\ v = n
  <2> HIDE DEF n, place, T, span
  <2>1. gap \in Nat
    BY <1>3
  <2>2. CASE n = 0
    BY <1>2, <1>3, <2>1, <2>2
  <2>3. CASE n > 0 /\ wrap
    BY <1>2, <1>3, <1>7, <2>1, <2>3
  <2>4. CASE n > 0 /\ ~ wrap
    BY <1>2, <1>3, <2>1, <2>4
  <2> QED
    BY <1>3, <2>2, <2>3, <2>4
<1> HIDE DEF place, span, T, gap, v
<1>10. n > 0 => Lo(T, v)[n + 1] = Hi(S, w)[n] + gap
  <2> SUFFICES ASSUME n > 0  PROVE Lo(T, v)[n + 1] = Hi(S, w)[n] + gap
    OBVIOUS
  <2>1. n \in 1..n /\ n + 1 \in 1..(n + 1)
    BY <1>3
  <2>2. Lo(T, v)[n + 1] = place + (IF v < n + 1 THEN PoolSize ELSE 0)
    BY <2>1, <1>8, BoundFacts
  <2>3. Hi(S, w)[n] = off + (IF w < n THEN PoolSize ELSE 0)
    <3>1. Hi(S, w)[n] = S[n].addr + S[n].len + (IF w < n THEN PoolSize ELSE 0)
      BY <2>1, <1>2, BoundFacts
    <3>2. off = S[n].addr + S[n].len
      BY <1>2 DEF End
    <3> QED
      BY <3>1, <3>2
  <2>4. CASE w < n
    BY <2>2, <2>3, <2>4, <1>3, <1>5, <1>7, <1>9
  <2>5. CASE w = n /\ wrap
    BY <2>2, <2>3, <2>5, <1>3, <1>5 DEF gap, v
  <2>6. CASE w = n /\ ~ wrap
    BY <2>2, <2>3, <2>6, <1>3, <1>5 DEF gap, v
  <2> QED
    BY <2>4, <2>5, <2>6, <1>3
<1> HIDE DEF n, wrap
<1>11. /\ Lo(S, w) \in [1..n -> Int] /\ Hi(S, w) \in [1..n -> Int]
       /\ Lo(T, v) \in [1..(n + 1) -> Int] /\ Hi(T, v) \in [1..(n + 1) -> Int]
  BY <1>2, <1>8, BoundFacts DEF n
<1>12. \A k \in 1..n : /\ Lo(T, v)[k] = Lo(S, w)[k]
                       /\ Hi(T, v)[k] = Hi(S, w)[k]
                       /\ Lo(S, w)[k] <= Hi(S, w)[k]
  <2> SUFFICES ASSUME NEW k \in 1..n
               PROVE  /\ Lo(T, v)[k] = Lo(S, w)[k]
                      /\ Hi(T, v)[k] = Hi(S, w)[k]
                      /\ Lo(S, w)[k] <= Hi(S, w)[k]
    OBVIOUS
  <2>1. k \in 1..(n + 1) /\ T[k] = S[k] /\ S[k].addr \in Nat /\ S[k].len \in Nat
    BY <1>3, <1>6, <1>8
  <2>2. w < k <=> v < k
    BY <1>3, <1>9
  <2>3. /\ Lo(T, v)[k] = S[k].addr + (IF v < k THEN PoolSize ELSE 0)
        /\ Hi(T, v)[k] = S[k].addr + S[k].len + (IF v < k THEN PoolSize ELSE 0)
    BY <2>1, <1>8, BoundFacts
  <2>4. /\ Lo(S, w)[k] = S[k].addr + (IF w < k THEN PoolSize ELSE 0)
        /\ Hi(S, w)[k] = S[k].addr + S[k].len + (IF w < k THEN PoolSize ELSE 0)
    BY <2>1, <1>2, BoundFacts DEF n
  <2> QED
    BY <2>1, <2>2, <2>3, <2>4, <1>3
<1>13. Hi(T, v)[n + 1] = Lo(T, v)[n + 1] + m
  <2>1. n + 1 \in 1..(n + 1)
    BY <1>3
  <2>2. /\ Lo(T, v)[n + 1] = place + (IF v < n + 1 THEN PoolSize ELSE 0)
        /\ Hi(T, v)[n + 1] = place + m + (IF v < n + 1 THEN PoolSize ELSE 0)
    BY <2>1, <1>8, BoundFacts
  <2> QED
    BY <2>2, <1>3, <1>5
<1>14. Laid(n + 1, Lo(T, v), Hi(T, v), v)
  <2> DEFINE lo == Lo(S, w)
             hi == Hi(S, w)
             low == Lo(T, v)
             high == Hi(T, v)
  <2>1. /\ lo \in [1..n -> Int] /\ hi \in [1..n -> Int]
        /\ low \in [1..(n + 1) -> Int] /\ high \in [1..(n + 1) -> Int]
        /\ \A k \in 1..n : low[k] = lo[k] /\ high[k] = hi[k]
        /\ \A k \in 1..n : lo[k] <= hi[k]
        /\ n > 0 => low[n + 1] = hi[n] + gap
        /\ high[n + 1] = low[n + 1] + m
        /\ Laid(n, lo, hi, w)
    BY <1>2, <1>10, <1>11, <1>12, <1>13 DEF n
  <2> HIDE DEF lo, hi, low, high
  <2>2. w \in 0..n
    BY <1>3
  <2>3. Laid(n + 1, low, high, v)
    BY <2>1, <2>2, <1>3, <1>9, LaidWithNext
  <2> QED
    BY <2>3 DEF low, high
<1>15. RingAt(T, place + m, v)
  <2>1. \A k \in 1..(n + 1) : End(T[k]) <= PoolSize
    <3> SUFFICES ASSUME NEW k \in 1..(n + 1)  PROVE End(T[k]) <= PoolSize
      OBVIOUS
    <3>1. CASE k = n + 1
      BY <3>1, <1>5, <1>8 DEF End
    <3>2. CASE k \in 1..n
      BY <3>2, <1>2, <1>8 DEF End, n
    <3> QED
      BY <3>1, <3>2, <1>3
  <2>2. place + m = End(T[n + 1]) /\ place + m \in 0..PoolSize
    BY <1>3, <1>5, <1>8 DEF End
  <2>3. v > 0
    BY <1>9
  <2> QED
    BY <2>1, <2>2, <2>3, <1>8, <1>9, <1>14 DEF RingAt
<1> QED
  BY <1>5, <1>8, <1>9, <1>15 DEF IsRing, T, span, place, wrap

-----------------------------------------------------------------------------
(* What is in flight                                                       *)

(* An element that goes from one sequence to the next stays in its place.  *)
LEMMA Handover ==
  ASSUME NEW S, NEW r \in Seq(S), NEW s \in Seq(S), NEW d \in S
  PROVE  /\ << d >> \in Seq(S) /\ << >> \in Seq(S) /\ s \o r \in Seq(S)
         /\ << >> \o s = s /\ s \o << >> = s
         /\ Append(s, d) \o r = s \o (<< d >> \o r)
         /\ s # << >> => << Head(s) >> \o (Tail(s) \o r) = s \o r
         /\ Tail(<< d >> \o r) = r /\ << d >> \o r # << >>
<1>1. /\ << d >> \in Seq(S) /\ << >> \in Seq(S) /\ s \o r \in Seq(S)
      /\ << >> \o s = s /\ s \o << >> = s
  BY ConcatProperties, ConcatEmptySeq
<1>2. Append(s, d) \o r = s \o (<< d >> \o r)
  BY <1>1, AppendIsConcat, ConcatAssociative
<1>3. ASSUME s # << >>
      PROVE  << Head(s) >> \o (Tail(s) \o r) = s \o r
  <2>1. Head(s) \in S /\ Tail(s) \in Seq(S) /\ << Head(s) >> \in Seq(S)
    BY <1>3, HeadTailProperties
  <2>2. << Head(s) >> \o Tail(s) = s
    <3>1. << Head(s) >> \o Tail(s) \in Seq(S)
      BY <2>1, ConcatProperties
    <3>2. Len(<< Head(s) >>) = 1 /\ Len(Tail(s)) = Len(s) - 1
          /\ Len(s) \in Nat /\ Len(s) > 0
      BY <1>3, HeadTailProperties
    <3>3. Len(<< Head(s) >> \o Tail(s)) = Len(s)
      BY <2>1, <3>2, ConcatProperties
    <3>4. ASSUME NEW i \in 1..Len(s)
          PROVE  (<< Head(s) >> \o Tail(s))[i] = s[i]
      <4>1. (<< Head(s) >> \o Tail(s))[i]
              = IF i <= 1 THEN << Head(s) >>[i] ELSE Tail(s)[i - 1]
        BY <2>1, <3>2, ConcatProperties
      <4>2. CASE i = 1
        BY <4>1, <4>2, <1>3
      <4>3. CASE i # 1
        <5>1. i - 1 \in 1..Len(Tail(s)) /\ ~ (i <= 1) /\ (i - 1) + 1 = i
          BY <3>2, <4>3
        <5>2. Tail(s)[i - 1] = s[(i - 1) + 1]
          BY <5>1, <1>3, HeadTailProperties
        <5> QED
          BY <4>1, <5>1, <5>2
      <4> QED
        BY <4>2, <4>3
    <3> QED
      BY <3>1, <3>3, <3>4, SeqEqual
  <2> QED
    BY <2>1, <2>2, ConcatAssociative
<1>4. Tail(<< d >> \o r) = r /\ << d >> \o r # << >>
  <2> DEFINE t == << d >> \o r
  <2>1. /\ t \in Seq(S) /\ Len(t) = Len(r) + 1
        /\ \A i \in 1..(Len(r) + 1) : t[i] = IF i <= 1 THEN << d >>[i] ELSE r[i - 1]
    BY <1>1, ConcatProperties
  <2>2. Len(r) \in Nat
    OBVIOUS
  <2> HIDE DEF t
  <2>3. t # << >>
    BY <2>1, <2>2
  <2>4. /\ Tail(t) \in Seq(S) /\ Len(Tail(t)) = Len(r)
        /\ \A i \in 1..Len(r) : Tail(t)[i] = t[i + 1]
    BY <2>1, <2>2, <2>3, HeadTailProperties
  <2>5. ASSUME NEW i \in 1..Len(r)  PROVE Tail(t)[i] = r[i]
    <3>1. i + 1 \in 1..(Len(r) + 1) /\ ~ (i + 1 <= 1) /\ (i + 1) - 1 = i
      BY <2>2
    <3> QED
      BY <3>1, <2>1, <2>4
  <2>6. Tail(t) = r
    BY <2>4, <2>5, SeqEqual
  <2> QED
    BY <2>3, <2>6 DEF t
<1> QED
  BY <1>1, <1>2, <1>3, <1>4

(* The last element stays the last without the first.                      *)
LEMMA TailOfAppend ==
  ASSUME NEW S, NEW s \in Seq(S), NEW d \in S, s # << >>
  PROVE  /\ Tail(Append(s, d)) = Append(Tail(s), d)
         /\ Append(s, d) # << >> /\ Append(s, d)[1] = s[1]
<1> DEFINE n == Len(s)
           t == Append(s, d)
           u == Append(Tail(s), d)
<1>1. /\ n \in Nat /\ n > 0 /\ Tail(s) \in Seq(S) /\ Len(Tail(s)) = n - 1
      /\ \A k \in 1..(n - 1) : Tail(s)[k] = s[k + 1]
  BY HeadTailProperties
<1>2. /\ t \in Seq(S) /\ Len(t) = n + 1 /\ t[n + 1] = d
      /\ \A k \in 1..n : t[k] = s[k]
  BY AppendProperties
<1>3. /\ u \in Seq(S) /\ Len(u) = n /\ u[n] = d
      /\ \A k \in 1..(n - 1) : u[k] = Tail(s)[k]
  <2>1. Len(Tail(s)) + 1 = n /\ Len(Tail(s)) = n - 1
    BY <1>1
  <2> HIDE DEF n
  <2> QED
    BY <2>1, <1>1, AppendProperties
<1> HIDE DEF n, t, u
<1>4. t # << >> /\ t[1] = s[1]
  BY <1>1, <1>2
<1>5. /\ Tail(t) \in Seq(S) /\ Len(Tail(t)) = n
      /\ \A k \in 1..n : Tail(t)[k] = t[k + 1]
  <2>1. Len(t) - 1 = n
    BY <1>1, <1>2
  <2> QED
    BY <2>1, <1>2, <1>4, HeadTailProperties
<1>6. ASSUME NEW k \in 1..n  PROVE Tail(t)[k] = u[k]
  <2>1. CASE k = n
    BY <2>1, <1>2, <1>3, <1>5
  <2>2. CASE k # n
    <3>1. k \in 1..(n - 1) /\ k + 1 \in 1..n
      BY <2>2, <1>1
    <3> QED
      BY <3>1, <1>1, <1>2, <1>3, <1>5
  <2> QED
    BY <2>1, <2>2
<1>7. Tail(t) = u
  BY <1>3, <1>5, <1>6, SeqEqual
<1> QED
  BY <1>4, <1>7 DEF t, u

(* What goes behind the second of two sequences goes behind both.          *)
LEMMA AppendBehind ==
  ASSUME NEW S, NEW r \in Seq(S), NEW s \in Seq(S), NEW d \in S
  PROVE  s \o Append(r, d) = Append(s \o r, d)
<1>1. << d >> \in Seq(S) /\ s \o r \in Seq(S)
  BY Handover
<1>2. Append(r, d) = r \o << d >>
  BY AppendIsConcat
<1>3. s \o (r \o << d >>) = (s \o r) \o << d >>
  BY <1>1, ConcatAssociative
<1> DEFINE t == s \o r
<1>4. Append(t, d) = t \o << d >>
  <2>1. t \in Seq(S)
    BY <1>1
  <2> HIDE DEF t
  <2> QED
    BY <2>1, AppendIsConcat
<1> QED
  BY <1>2, <1>3, <1>4

(* Descriptors without repetition are no more than there are.              *)
LEMMA AtMostAll ==
  ASSUME ConstantsAssumption, NEW s \in Seq(Descs), Once(s)
  PROVE  Len(s) <= QSize
<1> DEFINE n == Len(s)
<1>1. n \in Nat /\ QSize \in Nat
  BY DEF ConstantsAssumption
<1>2. IsFiniteSet(Descs) /\ Cardinality(Descs) = QSize
  BY <1>1, FS_Interval DEF Descs
<1>0. Cardinality(1..n) = n
  <2> HIDE DEF n
  <2> QED
    BY <1>1, FS_Interval
<1>3. s \in Injection(1..n, Descs)
  BY DEF Once, Injection, IsInjective
<1>4. Cardinality(1..n) <= Cardinality(Descs)
  BY <1>2, <1>3, FS_Injection
<1> QED
  BY <1>0, <1>1, <1>2, <1>4

LEMMA FlightFacts ==
  ASSUME ConstantsAssumption, IInv
  PROVE  /\ Working \in Seq(Descs) /\ Holding \in Seq(Descs)
         /\ avail \in Seq(Descs) /\ taken \in Seq(Descs) /\ used \in Seq(Descs)
         /\ Flight \in Seq(Descs)
         /\ Range(Flight) = Range(Working) \union Range(used) \union Range(taken)
                            \union Range(avail) \union Range(Holding)
         /\ \A d \in Range(Flight) : \E k \in 1..Len(Flight) : Flight[k] = d
         /\ \A k \in 1..Len(Flight) : Flight[k] \in Range(Flight)
<1>1. 0 \in Descs
  BY DEF ConstantsAssumption, Descs
<1>2. << >> \in Seq(Descs) /\ \A d \in Descs : << d >> \in Seq(Descs)
  BY <1>1, Handover
<1>3. /\ Working \in Seq(Descs) /\ Holding \in Seq(Descs)
      /\ avail \in Seq(Descs) /\ used \in Seq(Descs)
  BY <1>2 DEF IInv, TypeOK, Working, Holding
<1>4. taken \in Seq(Descs)
  <2>1. \/ taken = << >>
        \/ \E d \in Descs : taken = << d >>
    BY DEF IInv, TypeOK
  <2> QED
    BY <1>2, <2>1
<1>5. /\ avail \o Holding \in Seq(Descs)
      /\ taken \o (avail \o Holding) \in Seq(Descs)
      /\ used \o (taken \o (avail \o Holding)) \in Seq(Descs)
      /\ Flight \in Seq(Descs)
  BY <1>3, <1>4, ConcatProperties DEF Flight
<1>6. Range(Flight) = Range(Working) \union Range(used) \union Range(taken)
                      \union Range(avail) \union Range(Holding)
  <2> DEFINE r1 == avail \o Holding
             r2 == taken \o r1
             r3 == used \o r2
  <2>1. /\ r1 \in Seq(Descs) /\ r2 \in Seq(Descs) /\ r3 \in Seq(Descs)
        /\ Flight = Working \o r3
    BY <1>5 DEF Flight
  <2>2. Range(r1) = Range(avail) \union Range(Holding)
    BY <1>3, RangeConcatenation
  <2> HIDE DEF r1
  <2>3. Range(r2) = Range(taken) \union Range(r1)
    BY <1>4, <2>1, RangeConcatenation
  <2> HIDE DEF r2
  <2>4. Range(r3) = Range(used) \union Range(r2)
    BY <1>3, <2>1, RangeConcatenation
  <2> HIDE DEF r3
  <2>5. Range(Working \o r3) = Range(Working) \union Range(r3)
    BY <1>3, <2>1, RangeConcatenation
  <2> QED
    BY <2>1, <2>2, <2>3, <2>4, <2>5
<1>7. Range(Flight) = {Flight[k] : k \in 1..Len(Flight)}
  BY <1>5, RangeEquality
<1> QED
  BY <1>3, <1>4, <1>5, <1>6, <1>7
(* Nothing leaves or enters the flight but at its ends.                    *)
LEMMA FlightStays ==
  ASSUME ConstantsAssumption, IInv, IInv', ~ raced',
         \/ \E c \in Cores : Enter(c)
         \/ GetFree \/ Unlink \/ CountDown \/ Alloc \/ Publish
         \/ Take \/ Complete \/ ConfigChange
         \/ Interrupt \/ GetUsed \/ Link \/ SetHead \/ CountUp
         \/ UNCHANGED vars
  PROVE  Flight' = Flight
<1> USE DEF coreVars, listVars, poolVars, otherEnd, irqVars
<1>0. /\ Working \in Seq(Descs) /\ Holding \in Seq(Descs)
      /\ avail \in Seq(Descs) /\ taken \in Seq(Descs) /\ used \in Seq(Descs)
      /\ avail \o Holding \in Seq(Descs)
      /\ taken \o (avail \o Holding) \in Seq(Descs)
      /\ used \o (taken \o (avail \o Holding)) \in Seq(Descs)
  BY FlightFacts, ConcatProperties
<1>1. CASE /\ Working' = Working /\ Holding' = Holding /\ avail' = avail
           /\ taken' = taken /\ used' = used
  BY <1>1 DEF Flight
<1>2. CASE \E c \in Cores : Enter(c)
  <2>1. Working' = Working /\ Holding' = Holding
    BY <1>2 DEF IInv, Bounded, Enter, Working, Holding
  <2> QED
    BY <2>1, <1>1, <1>2 DEF Enter
<1>3. CASE GetFree \/ Unlink \/ CountDown
  <2>1. Working' = Working /\ Holding' = Holding
    BY <1>3 DEF GetFree, Unlink, CountDown, Step, Working, Holding
  <2> QED
    BY <2>1, <1>1, <1>3 DEF GetFree, Unlink, CountDown
<1>4. CASE Alloc
  <2>1. Working' = Working /\ Holding' = Holding
    BY <1>4 DEF Alloc, Unlock, Step, Working, Holding
  <2> QED
    BY <2>1, <1>1, <1>4 DEF Alloc
<1>5. CASE Publish
  <2>1. /\ Holding = << id >> /\ Holding' = << >> /\ Working' = Working
        /\ avail' = Append(avail, id) /\ taken' = taken /\ used' = used
        /\ id \in Descs /\ << >> \in Seq(Descs)
    BY <1>5 DEF IInv, TypeOK, Publish, Unlock, Step, Behind, Working, Holding
  <2>2. Append(avail, id) \in Seq(Descs) /\ Append(avail, id) = avail \o << id >>
    BY <1>0, <2>1, AppendIsConcat, AppendProperties
  <2>3. avail' \o Holding' = avail \o Holding
    BY <2>1, <2>2, ConcatEmptySeq
  <2> QED
    BY <2>1, <2>3 DEF Flight
<1>6. CASE Take
  <2>1. /\ Working' = Working /\ Holding' = Holding /\ used' = used
        /\ taken = << >> /\ avail # << >>
        /\ taken' = << Head(avail) >> /\ avail' = Tail(avail)
    BY <1>6 DEF Take, Working, Holding
  <2>2. 0 \in Descs
    BY DEF ConstantsAssumption, Descs
  <2>3. taken' \o (avail' \o Holding) = avail \o Holding
    BY <1>0, <2>1, <2>2, Handover
  <2>4. taken \o (avail \o Holding) = avail \o Holding
    BY <1>0, <2>1, ConcatEmptySeq
  <2> QED
    BY <2>1, <2>3, <2>4 DEF Flight
<1>7. CASE Complete
  <2>1. /\ Working' = Working /\ Holding' = Holding /\ avail' = avail
        /\ taken # << >> /\ taken' = << >> /\ used' = Append(used, Head(taken))
    BY <1>7 DEF Complete, Working, Holding
  <2>2. PICK d \in Descs : taken = << d >>
    BY <2>1 DEF IInv, TypeOK
  <2>3. used' = Append(used, d)
    BY <2>1, <2>2
  <2>4. taken' \o (avail \o Holding) = avail \o Holding
    BY <1>0, <2>1, ConcatEmptySeq
  <2>5. used' \o (avail \o Holding) = used \o (taken \o (avail \o Holding))
    BY <1>0, <2>2, <2>3, Handover
  <2> QED
    BY <2>1, <2>4, <2>5 DEF Flight
<1>8. CASE ConfigChange \/ Interrupt
  <2>1. Working' = Working /\ Holding' = Holding
    BY <1>8 DEF ConfigChange, Interrupt, Working, Holding
  <2> QED
    BY <2>1, <1>1, <1>8 DEF ConfigChange, Interrupt
<1>9. CASE GetUsed
  <2>1. CASE used = << >>
    <3>1. Working' = Working /\ Holding' = Holding
      BY <1>9, <2>1 DEF GetUsed, Working, Holding
    <3> QED
      BY <3>1, <1>1, <1>9, <2>1 DEF GetUsed
  <2>2. CASE used # << >>
    <3>1. /\ hpc = "scan" /\ hpc' = "link"
          /\ hid' = Head(used) /\ used' = Tail(used)
          /\ taken' = taken /\ avail' = avail /\ pc' = pc /\ id' = id
      BY <1>9, <2>2 DEF IInv, Sound, Loaded, GetUsed
    <3>2. Working = << >> /\ Working' = << Head(used) >> /\ Holding' = Holding
      BY <3>1 DEF Working, Holding
    <3> DEFINE r == taken \o (avail \o Holding)
    <3>3. r \in Seq(Descs) /\ r' = r
      BY <1>0, <3>1, <3>2
    <3>4. 0 \in Descs
      BY DEF ConstantsAssumption, Descs
    <3>5. Flight = Working \o (used \o r) /\ Flight' = Working' \o (used' \o r')
      BY DEF Flight
    <3> HIDE DEF r
    <3>6. used \o r \in Seq(Descs)
      BY <1>0, <3>3, ConcatProperties
    <3>7. << >> \o (used \o r) = used \o r
      BY <3>6, ConcatEmptySeq
    <3>8. << Head(used) >> \o (Tail(used) \o r) = used \o r
      BY <1>0, <2>2, <3>3, <3>4, Handover
    <3> QED
      BY <3>1, <3>2, <3>3, <3>5, <3>7, <3>8
  <2> QED
    BY <2>1, <2>2
<1>10. CASE Link \/ SetHead \/ CountUp
  <2>1. Working' = Working /\ Holding' = Holding
    BY <1>10 DEF Link, SetHead, CountUp, Working, Holding
  <2> QED
    BY <2>1, <1>1, <1>10 DEF Link, SetHead, CountUp
<1>11. CASE UNCHANGED vars
  BY <1>11, <1>1 DEF vars, Working, Holding
<1> QED
  BY <1>2, <1>3, <1>4, <1>5, <1>6, <1>7, <1>8, <1>9, <1>10, <1>11

-----------------------------------------------------------------------------
(* What the texts in flight become with each step                          *)

Buffer == [addr : Addrs, len : Messages \union {0}]

LEMMA TextsFacts ==
  ASSUME ConstantsAssumption, IInv
  PROVE  /\ Len(Flight) \in Nat
         /\ \A k \in 1..Len(Flight) : Flight[k] \in Descs
         /\ Texts \in Seq(Buffer) /\ Len(Texts) = Len(Flight)
         /\ \A k \in 1..Len(Flight) : Texts[k] = buf[Flight[k]]
<1>1. Flight \in Seq(Descs) /\ buf \in [Descs -> Buffer]
  BY FlightFacts DEF IInv, TypeOK, Buffer
<1>2. /\ Len(Flight) \in Nat
      /\ \A k \in 1..Len(Flight) : Flight[k] \in Descs /\ buf[Flight[k]] \in Buffer
  BY <1>1
<1> QED
  BY <1>2 DEF Texts

LEMMA BufferFacts ==
  ASSUME ConstantsAssumption, NEW b \in Buffer
  PROVE  b.addr \in Int /\ b.len \in Int /\ b.len >= 0
<1>1. b.addr \in Addrs /\ b.len \in Messages \union {0}
  BY DEF Buffer
<1>2. Addrs \subseteq Int /\ \A m \in Messages \union {0} : m \in Int /\ m >= 0
  BY DEF Addrs, ConstantsAssumption
<1> QED
  BY <1>1, <1>2

LEMMA SpansFacts ==
  ASSUME ConstantsAssumption, IInv
  PROVE  /\ Spans \in Seq(Buffer) /\ Len(Texts) \in Nat /\ Len(Spans) \in Nat
         /\ NextSpan \in Buffer
         /\ \A k \in 1..Len(Texts) : k \in 1..Len(Spans) /\ Spans[k] = Texts[k]
         /\ pc = "copy" => /\ Len(Spans) = Len(Texts) + 1
                           /\ Spans[Len(Texts) + 1] = NextSpan
         /\ pc # "copy" => Spans = Texts
<1>1. Texts \in Seq(Buffer) /\ Len(Texts) \in Nat
  BY TextsFacts
<1>2. NextSpan \in Buffer
  BY DEF IInv, TypeOK, NextSpan, Buffer
<1> DEFINE t == Texts
           x == NextSpan
<1>3. /\ Append(t, x) \in Seq(Buffer) /\ Len(Append(t, x)) = Len(t) + 1
      /\ Append(t, x)[Len(t) + 1] = x
      /\ \A k \in 1..Len(t) : Append(t, x)[k] = t[k]
  BY <1>1, <1>2, AppendProperties
<1>4. Spans = IF pc = "copy" THEN Append(t, x) ELSE t
  BY DEF Spans
<1>5. \A k \in 1..Len(t) : k \in 1..(Len(t) + 1)
  BY <1>1
<1> HIDE DEF t, x
<1>6. CASE pc = "copy"
  BY <1>1, <1>2, <1>3, <1>4, <1>5, <1>6 DEF t, x
<1>7. CASE pc # "copy"
  BY <1>1, <1>2, <1>4, <1>7 DEF t, x
<1> QED
  BY <1>6, <1>7

(* Memory that is kept apart is that of different descriptors.             *)
LEMMA KeptOnce ==
  ASSUME ConstantsAssumption, IInv, Kept
  PROVE  Len(Texts) <= QSize
<1>1. /\ Flight \in Seq(Descs) /\ Len(Texts) = Len(Flight)
      /\ DOMAIN Flight = 1..Len(Texts)
      /\ \A k \in 1..Len(Texts) : Texts[k] = buf[Flight[k]]
  BY FlightFacts, TextsFacts
<1>2. ASSUME NEW i \in 1..Len(Texts), NEW j \in 1..Len(Texts),
             Flight[i] = Flight[j], i # j
      PROVE  FALSE
  <2>1. /\ i \in 1..Len(Spans) /\ j \in 1..Len(Spans)
        /\ Spans[i] = Spans[j] /\ Spans[i] \in Buffer
    BY <1>1, <1>2, SpansFacts
  <2>2. Bytes(Spans[i]) \intersect Bytes(Spans[j]) = {} /\ Spans[i].len > 0
    BY <1>2, <2>1 DEF Kept, Lying, Separate
  <2>3. Spans[i].addr \in Int /\ Spans[i].len \in Int
    BY <2>1, BufferFacts
  <2>4. Spans[i].addr \in Bytes(Spans[i])
    BY <2>2, <2>3 DEF Bytes
  <2> QED
    BY <2>1, <2>2, <2>4
<1>3. Once(Flight)
  BY <1>1, <1>2 DEF Once
<1> QED
  BY <1>1, <1>3, AtMostAll

(* A descriptor that is being written is not in flight, as the handler     *)
(* would else still have it to free.                                       *)
LEMMA NotInFlight ==
  ASSUME ConstantsAssumption, IInv, ~ raced', Copy
  PROVE  \A k \in 1..Len(Flight) : Flight[k] # id
<1>1. /\ pc = "copy" /\ ~ raced /\ hid \in Descs
      /\ hpc \in {"add", "free"} => hid # id
  BY DEF IInv, TypeOK, Copy, Step
<1>2. /\ Held = {id} /\ Holding = << >>
  BY <1>1 DEF Held, Holding
<1>3. OneHolder
  BY <1>1 DEF IInv, Sound
<1>4. id \notin Range(used) /\ id \notin Range(taken) /\ id \notin Range(avail)
  BY <1>2, <1>3 DEF OneHolder, Others
<1>5. id \notin Range(Working)
  <2>1. CASE hpc \in {"link", "head"}
    <3>1. Returning = {hid}
      BY <2>1 DEF Returning
    <3>2. hid # id
      BY <3>1, <1>2, <1>3 DEF OneHolder
    <3>3. Working = << hid >>
      BY <2>1 DEF Working
    <3> QED
      BY <3>2, <3>3 DEF Range
  <2>2. CASE hpc \in {"add", "free"}
    <3>1. Working = << hid >>
      BY <2>2 DEF Working
    <3> QED
      BY <2>2, <3>1, <1>1 DEF Range
  <2>3. CASE hpc \notin {"link", "head", "add", "free"}
    <3>1. Working = << >>
      BY <2>3 DEF Working
    <3> QED
      BY <3>1 DEF Range
  <2> QED
    BY <2>1, <2>2, <2>3
<1>6. id \notin Range(Holding)
  BY <1>2 DEF Range
<1> QED
  BY <1>4, <1>5, <1>6, FlightFacts

(* What has been copied is in flight, behind the others.                   *)
LEMMA CopyTexts ==
  ASSUME ConstantsAssumption, IInv, ~ raced', Copy
  PROVE  Texts' = Spans /\ Spans' = Spans
<1> DEFINE span == NextSpan
           n == Len(Texts)
<1>1. /\ pc = "copy" /\ pc' = "publish" /\ hpc' = hpc /\ hid' = hid
      /\ id' = id /\ avail' = avail /\ used' = used /\ taken' = taken
      /\ buf' = [buf EXCEPT ![id] = span]
      /\ buf \in [Descs -> Buffer] /\ id \in Descs
  BY DEF IInv, TypeOK, Copy, Step, otherEnd, irqVars, Buffer, NextSpan
<1>2. /\ n \in Nat /\ n = Len(Flight)
      /\ \A k \in 1..n : /\ Flight[k] \in Descs /\ Flight[k] # id
                          /\ Texts[k] = buf[Flight[k]]
  BY TextsFacts, NotInFlight
<1>3. Flight' = Append(Flight, id)
  <2>1. Working' = Working /\ Holding = << >> /\ Holding' = << id >>
    BY <1>1 DEF Working, Holding
  <2>2. /\ avail \in Seq(Descs) /\ taken \in Seq(Descs) /\ used \in Seq(Descs)
        /\ Working \in Seq(Descs)
        /\ << id >> \in Seq(Descs) /\ Flight \in Seq(Descs)
    BY <1>1, FlightFacts, Handover
  <2>3. avail \o Holding = avail /\ avail' \o Holding' = Append(avail, id)
    BY <1>1, <2>1, <2>2, ConcatEmptySeq, AppendIsConcat
  <2> DEFINE p == taken \o avail
             q == used \o p
  <2>4. p \in Seq(Descs) /\ taken \o Append(avail, id) = Append(p, id)
    BY <1>1, <2>2, AppendBehind, ConcatProperties
  <2>5. /\ Flight = Working \o q
        /\ Flight' = Working \o (used \o Append(p, id))
    BY <1>1, <2>1, <2>3, <2>4 DEF Flight
  <2> HIDE DEF p
  <2>6. q \in Seq(Descs) /\ used \o Append(p, id) = Append(q, id)
    BY <1>1, <2>2, <2>4, AppendBehind, ConcatProperties
  <2> HIDE DEF q
  <2>7. Working \o Append(q, id) = Append(Working \o q, id)
    <3>1. Working \in Seq(Descs) /\ q \in Seq(Descs) /\ id \in Descs
      BY <1>1, <2>2, <2>6
    <3> QED
      BY <3>1, AppendBehind
  <2> QED
    BY <2>5, <2>6, <2>7
<1>4. /\ Len(Flight') = n + 1 /\ Flight'[n + 1] = id
      /\ \A k \in 1..n : Flight'[k] = Flight[k]
  <2>1. Flight \in Seq(Descs)
    BY FlightFacts
  <2> QED
    BY <1>1, <1>2, <1>3, <2>1, AppendProperties
<1>5. /\ Spans \in Seq(Buffer) /\ Len(Spans) = n + 1
      /\ Spans[n + 1] = span /\ \A k \in 1..n : Spans[k] = Texts[k]
  BY <1>1, SpansFacts
<1> HIDE DEF span, n
<1>6. \A k \in 1..(n + 1) : k = n + 1 \/ k \in 1..n
  BY <1>2
<1>7. Texts' = Spans
  <2>1. \A k \in 1..(n + 1) : buf'[Flight'[k]] = Spans[k]
    <3> SUFFICES ASSUME NEW k \in 1..(n + 1)
                 PROVE  buf'[Flight'[k]] = Spans[k]
      OBVIOUS
    <3>1. CASE k = n + 1
      BY <3>1, <1>1, <1>4, <1>5
    <3>2. CASE k \in 1..n
      BY <3>2, <1>1, <1>2, <1>4, <1>5
    <3> QED
      BY <3>1, <3>2, <1>6
  <2>2. Texts' = [k \in 1..(n + 1) |-> buf'[Flight'[k]]]
    BY <1>4 DEF Texts
  <2>3. Texts' = [k \in 1..(n + 1) |-> Spans[k]]
    BY <2>1, <2>2
  <2>4. Spans = [k \in 1..(n + 1) |-> Spans[k]]
    BY <1>5, LenProperties
  <2> QED
    BY <2>3, <2>4
<1>8. Spans' = Texts'
  BY <1>1 DEF Spans
<1> QED
  BY <1>7, <1>8

(* What the handler frees was the oldest in flight.                        *)
LEMMA FreeTexts ==
  ASSUME ConstantsAssumption, IInv, Free
  PROVE  /\ Texts # << >> /\ Texts[1] = buf[hid] /\ Texts' = Tail(Texts)
         /\ Spans # << >> /\ Spans[1] = buf[hid] /\ Spans' = Tail(Spans)
<1> DEFINE n == Len(Texts)
           r == used \o (taken \o (avail \o Holding))
<1>1. /\ hpc = "free" /\ hpc' = "scan" /\ pc' = pc /\ id' = id
      /\ addr' = addr /\ msg' = msg /\ buf' = buf
      /\ avail' = avail /\ used' = used /\ taken' = taken
      /\ hid \in Descs
  BY DEF IInv, TypeOK, Free, NextBuffer, coreVars, otherEnd
<1>2. /\ Working = << hid >> /\ Working' = << >> /\ Holding' = Holding
  BY <1>1 DEF Working, Holding
<1>3. /\ r \in Seq(Descs) /\ << hid >> \in Seq(Descs)
      /\ Flight = << hid >> \o r /\ Flight' = r
  <2>1. /\ avail \in Seq(Descs) /\ taken \in Seq(Descs) /\ used \in Seq(Descs)
        /\ Holding \in Seq(Descs)
    BY FlightFacts
  <2>2. /\ avail \o Holding \in Seq(Descs)
        /\ taken \o (avail \o Holding) \in Seq(Descs)
        /\ r \in Seq(Descs)
    BY <2>1, ConcatProperties
  <2>3. r' = r
    BY <1>1, <1>2
  <2>4. Flight = Working \o r /\ Flight' = Working' \o r'
    BY DEF Flight
  <2> HIDE DEF r
  <2>5. << hid >> \in Seq(Descs)
    BY <1>1, Handover
  <2> QED
    BY <1>2, <2>2, <2>3, <2>4, <2>5, ConcatEmptySeq
<1>4. /\ Texts \in Seq(Buffer) /\ n = Len(Flight) /\ n \in Nat
      /\ \A k \in 1..n : Texts[k] = buf[Flight[k]]
  BY TextsFacts
<1> HIDE DEF n, r
<1>5. /\ n = Len(r) + 1 /\ Len(r) \in Nat /\ Flight[1] = hid
      /\ \A k \in 1..Len(r) : Flight[k + 1] = r[k]
  <2>1. Len(<< hid >>) = 1 /\ << hid >>[1] = hid /\ Len(r) \in Nat
    BY <1>3
  <2>2. /\ Len(Flight) = 1 + Len(r)
        /\ \A i \in 1..(1 + Len(r)) :
             Flight[i] = IF i <= 1 THEN << hid >>[i] ELSE r[i - 1]
    BY <1>3, <2>1, ConcatProperties
  <2>3. Flight[1] = hid
    <3>1. 1 \in 1..(1 + Len(r)) /\ 1 <= 1
      BY <2>1
    <3> QED
      BY <2>1, <2>2, <3>1
  <2>4. ASSUME NEW k \in 1..Len(r)  PROVE Flight[k + 1] = r[k]
    <3>1. k + 1 \in 1..(1 + Len(r)) /\ ~ (k + 1 <= 1) /\ (k + 1) - 1 = k
      BY <2>1
    <3> QED
      BY <2>2, <3>1
  <2> QED
    BY <1>4, <2>1, <2>2, <2>3, <2>4
<1>6. Texts # << >> /\ Texts[1] = buf[hid]
  <2>1. 1 \in 1..n
    BY <1>5
  <2>2. Texts # << >>
    BY <2>1 DEF n
  <2> QED
    BY <1>4, <1>5, <2>1, <2>2
<1>7. /\ Tail(Texts) \in Seq(Buffer) /\ Len(Tail(Texts)) = Len(r)
      /\ \A k \in 1..Len(r) : Tail(Texts)[k] = Texts[k + 1]
  BY <1>4, <1>5, <1>6, HeadTailProperties DEF n
<1>8. Texts' = Tail(Texts)
  <2>1. Texts' = [k \in 1..Len(r) |-> buf[r[k]]]
    BY <1>1, <1>3 DEF Texts
  <2>2. \A k \in 1..Len(r) : Tail(Texts)[k] = buf[r[k]]
    <3> SUFFICES ASSUME NEW k \in 1..Len(r)  PROVE Tail(Texts)[k] = buf[r[k]]
      OBVIOUS
    <3>1. k + 1 \in 1..n
      BY <1>5
    <3> QED
      BY <3>1, <1>4, <1>5, <1>7
  <2>3. Tail(Texts) = [k \in 1..Len(r) |-> Tail(Texts)[k]]
    BY <1>7, LenProperties
  <2>4. [k \in 1..Len(r) |-> Tail(Texts)[k]] = [k \in 1..Len(r) |-> buf[r[k]]]
    BY <2>2
  <2> QED
    BY <2>1, <2>3, <2>4
<1>9. Spans # << >> /\ Spans[1] = buf[hid] /\ Spans' = Tail(Spans)
  <2>1. CASE pc = "copy"
    <3>1. /\ Spans = Append(Texts, NextSpan)
          /\ Spans' = Append(Texts', NextSpan)
      BY <1>1, <2>1 DEF Spans, NextSpan
    <3>2. NextSpan \in Buffer
      BY SpansFacts
    <3> QED
      BY <3>1, <3>2, <1>4, <1>6, <1>8, TailOfAppend
  <2>2. CASE pc # "copy"
    <3>1. Spans = Texts /\ Spans' = Texts'
      BY <1>1, <2>2 DEF Spans
    <3> QED
      BY <3>1, <1>6, <1>8
  <2> QED
    BY <2>1, <2>2
<1> QED
  BY <1>6, <1>8, <1>9

-----------------------------------------------------------------------------
(* The texts are kept                                                      *)

(* At first nothing is in flight (virtio_memory_pool_init).                *)
LEMMA NothingAtFirst ==
  ASSUME ConstantsAssumption, Init
  PROVE  Texts = << >> /\ Spans = << >>
<1>1. /\ Working = << >> /\ Holding = << >> /\ avail = << >>
      /\ taken = << >> /\ used = << >>
  BY DEF Init, Working, Holding
<1>2. Flight = << >>
  <2>1. << >> \in Seq(Descs)
    BY EmptySeq
  <2>2. << >> \o << >> = << >>
    BY <2>1, ConcatEmptySeq
  <2> QED
    BY <1>1, <2>2 DEF Flight
<1> QED
  BY <1>2 DEF Texts, Spans, Init

LEMMA InitKept ==
  ASSUME ConstantsAssumption, Init
  PROVE  Kept
<1>1. Texts = << >> /\ Spans = << >> /\ pc = "idle"
  BY NothingAtFirst DEF Init
<1> QED
  BY <1>1 DEF Kept, Lying, Separate, Whole, Described

(* A step that leaves the flight and the descriptors alone.                *)
LEMMA QuietTexts ==
  ASSUME Flight' = Flight, buf' = buf,
         pc' = "copy" <=> pc = "copy",
         pc = "copy" => addr' = addr /\ msg' = msg
  PROVE  Texts' = Texts /\ Spans' = Spans
<1>1. Texts' = Texts
  BY DEF Texts
<1>2. pc = "copy" => NextSpan' = NextSpan
  BY DEF NextSpan
<1> QED
  BY <1>1, <1>2 DEF Spans

(* The steps that do so.                                                   *)
Quiet ==
  \/ \E c \in Cores : Enter(c)
  \/ GetFree \/ Unlink \/ CountDown \/ Publish
  \/ Take \/ Complete \/ ConfigChange
  \/ Interrupt \/ GetUsed \/ Link \/ SetHead \/ CountUp
  \/ UNCHANGED vars

LEMMA QuietFacts ==
  ASSUME ConstantsAssumption, IInv, IInv', ~ raced', Quiet
  PROVE  /\ Texts' = Texts /\ Spans' = Spans /\ buf' = buf
         /\ pool' = pool /\ offset' = offset
         /\ leaked' = leaked /\ erased' = erased
         /\ pc' = "publish" => /\ pc = "publish" /\ id' = id
                               /\ NextSpan' = NextSpan
<1> USE DEF coreVars, listVars, poolVars, otherEnd, irqVars, histVars
<1>1. Flight' = Flight
  BY FlightStays DEF Quiet
<1>2. /\ buf' = buf /\ pool' = pool /\ offset' = offset
      /\ leaked' = leaked /\ erased' = erased
  BY DEF Quiet, Enter, GetFree, Unlink, CountDown, Publish, Take, Complete,
         ConfigChange, Interrupt, GetUsed, Link, SetHead, CountUp, vars
<1>3. /\ pc' = "copy" <=> pc = "copy"
      /\ pc = "copy" => addr' = addr /\ msg' = msg
      /\ pc' = "publish" => /\ pc = "publish" /\ id' = id
                            /\ addr' = addr /\ msg' = msg
  <2>1. CASE \E c \in Cores : Enter(c)
    BY <2>1 DEF IInv, Bounded, Enter
  <2>2. CASE GetFree \/ Unlink \/ CountDown \/ Publish
    BY <2>2 DEF GetFree, Unlink, CountDown, Publish, Unlock, Step
  <2>3. CASE Take \/ Complete \/ ConfigChange
    BY <2>3 DEF Take, Complete, ConfigChange
  <2>4. CASE Interrupt \/ GetUsed \/ Link \/ SetHead \/ CountUp
    BY <2>4 DEF Interrupt, GetUsed, Link, SetHead, CountUp
  <2>5. CASE UNCHANGED vars
    BY <2>5 DEF vars
  <2> QED
    BY <2>1, <2>2, <2>3, <2>4, <2>5 DEF Quiet
<1> QED
  BY <1>1, <1>2, <1>3, QuietTexts DEF NextSpan

LEMMA QuietKept ==
  ASSUME ConstantsAssumption, IInv, IInv', ~ raced', Kept, Quiet
  PROVE  Kept'
<1>1. /\ Texts' = Texts /\ Spans' = Spans /\ buf' = buf /\ pool' = pool
      /\ pc' = "publish" => /\ pc = "publish" /\ id' = id
                            /\ NextSpan' = NextSpan
  BY QuietFacts
<1>2. Lying' /\ Separate' /\ Whole'
  BY <1>1 DEF Kept, Lying, Separate, Whole
<1>3. Described'
  BY <1>1 DEF Kept, Described
<1> QED
  BY <1>2, <1>3 DEF Kept

(* The message is dropped, or there is memory for it behind all that is    *)
(* allocated.                                                              *)
LEMMA AllocTexts ==
  ASSUME ConstantsAssumption, IInv, IInv', ~ raced', Alloc
  PROVE  /\ Texts' = Texts /\ Spans = Texts /\ pool' = pool /\ buf' = buf
         /\ Place(msg) = Nowhere => pc' = "idle" /\ Spans' = Texts
         /\ Place(msg) # Nowhere =>
              /\ pc' = "copy" /\ NextSpan' = [addr |-> Place(msg), len |-> msg]
              /\ NextSpan' \in Buffer
              /\ Spans' = Append(Texts, NextSpan')
<1>1. pc = "alloc" /\ buf' = buf /\ pool' = pool /\ msg' = msg
  BY DEF Alloc, Step
<1>2. Flight' = Flight
  BY FlightStays
<1>3. Texts' = Texts /\ Spans = Texts
  BY <1>1, <1>2 DEF Texts, Spans
<1>4. CASE Place(msg) = Nowhere
  <2>1. pc' = "idle"
    BY <1>4 DEF Alloc, Unlock
  <2> QED
    BY <2>1, <1>1, <1>3, <1>4 DEF Spans
<1>5. CASE Place(msg) # Nowhere
  <2>1. pc' = "copy" /\ addr' = Place(msg)
    BY <1>5 DEF Alloc
  <2>2. NextSpan' = [addr |-> Place(msg), len |-> msg]
    BY <1>1, <2>1 DEF NextSpan
  <2>3. NextSpan' \in Buffer
    <3>1. addr' \in Addrs /\ msg' \in Messages \union {0}
      BY DEF IInv, TypeOK
    <3> QED
      BY <3>1 DEF NextSpan, Buffer
  <2> QED
    BY <2>1, <2>2, <2>3, <1>1, <1>3, <1>5 DEF Spans
<1> QED
  BY <1>1, <1>3, <1>4, <1>5

LEMMA AllocKept ==
  ASSUME ConstantsAssumption, IInv, IInv', ~ raced', Kept, Alloc
  PROVE  Kept'
<1> DEFINE n == Len(Texts)
           span == NextSpan'
<1>1. /\ Texts' = Texts /\ Spans = Texts /\ pool' = pool /\ pc' # "publish"
  BY AllocTexts
<1>2. Whole' /\ Described'
  BY <1>1 DEF Kept, Whole, Described
<1>3. CASE Place(msg) = Nowhere
  <2>1. Spans' = Spans
    BY <1>1, <1>3, AllocTexts
  <2>2. Lying' /\ Separate'
    BY <2>1 DEF Kept, Lying, Separate
  <2> QED
    BY <1>2, <2>2 DEF Kept
<1>4. CASE Place(msg) # Nowhere
  <2>1. /\ span = [addr |-> Place(msg), len |-> msg]
        /\ span \in Buffer /\ Spans' = Append(Texts, span)
    BY <1>4, AllocTexts
  <2>2. Texts \in Seq(Buffer) /\ n \in Nat
    BY TextsFacts
  <2> HIDE DEF span
  <2>3. /\ Len(Spans') = n + 1 /\ Spans'[n + 1] = span
        /\ \A k \in 1..n : Spans'[k] = Texts[k]
    BY <2>1, <2>2, AppendProperties
  <2>4. /\ span.len = msg /\ span.len > 0
        /\ Bytes(span) \subseteq Addrs
        /\ \A a \in Bytes(span) : pool[a] = 0
    <3>1. /\ msg \in Nat /\ msg > 0 /\ offset \in Nat /\ PoolSize \in Nat
          /\ offset <= PoolSize
      <4>1. pc = "alloc"
        BY DEF Alloc, Step
      <4>2. msg \in Messages /\ offset \in 0..PoolSize
        BY <4>1 DEF IInv, TypeOK, Bounded
      <4> QED
        BY <4>2 DEF ConstantsAssumption
    <3> DEFINE place == Place(msg)
    <3>2. /\ place \in Nat /\ place + msg <= PoolSize
          /\ FreeAt(place, msg)
      <4>1. CASE offset + msg <= PoolSize
        BY <4>1, <3>1, <1>4 DEF Place
      <4>2. CASE ~ (offset + msg <= PoolSize)
        BY <4>2, <3>1, <1>4 DEF Place
      <4> QED
        BY <4>1, <4>2
    <3>3. span.addr = place /\ span.len = msg
      BY <2>1
    <3> HIDE DEF place
    <3>4. Bytes(span) = place..(place + msg - 1)
      BY <3>3 DEF Bytes
    <3>5. \A a \in place..(place + msg - 1) : a \in Addrs /\ pool[a] = 0
      BY <3>1, <3>2 DEF FreeAt, Addrs
    <3> QED
      BY <3>1, <3>3, <3>4, <3>5
  <2>5. \A k \in 1..n : /\ Texts[k].len > 0 /\ Bytes(Texts[k]) \subseteq Addrs
                        /\ Bytes(Texts[k]) \intersect Bytes(span) = {}
    <3> SUFFICES ASSUME NEW k \in 1..n
                 PROVE  /\ Texts[k].len > 0 /\ Bytes(Texts[k]) \subseteq Addrs
                        /\ Bytes(Texts[k]) \intersect Bytes(span) = {}
      OBVIOUS
    <3>1. Texts[k].len > 0 /\ Bytes(Texts[k]) \subseteq Addrs
      BY <1>1 DEF Kept, Lying
    <3>2. \A a \in Bytes(Texts[k]) : pool[a] = Texts[k].len
      BY DEF Kept, Whole
    <3>3. ~ (0 > 0)
      OBVIOUS
    <3> QED
      BY <2>4, <3>1, <3>2, <3>3
  <2>6. \A i, j \in 1..n : i # j => Bytes(Texts[i]) \intersect Bytes(Texts[j]) = {}
    BY <1>1 DEF Kept, Separate
  <2>7. \A k \in 1..(n + 1) : k = n + 1 \/ k \in 1..n
    BY <2>2
  <2> HIDE DEF n
  <2>8. \A k \in 1..(n + 1) : /\ Spans'[k].len > 0
                              /\ Bytes(Spans'[k]) \subseteq Addrs
    BY <2>3, <2>4, <2>5, <2>7
  <2>9. ASSUME NEW i \in 1..(n + 1), NEW j \in 1..(n + 1), i # j
        PROVE  Bytes(Spans'[i]) \intersect Bytes(Spans'[j]) = {}
    <3>1. CASE i = n + 1
      <4>1. j \in 1..n
        BY <3>1, <2>7, <2>9
      <4> QED
        BY <3>1, <4>1, <2>3, <2>5
    <3>2. CASE j = n + 1
      <4>1. i \in 1..n
        BY <3>2, <2>7, <2>9
      <4> QED
        BY <3>2, <4>1, <2>3, <2>5
    <3>3. CASE i \in 1..n /\ j \in 1..n
      BY <3>3, <2>3, <2>6, <2>9
    <3> QED
      BY <3>1, <3>2, <3>3, <2>7
  <2>10. Lying' /\ Separate'
    BY <2>3, <2>8, <2>9 DEF Lying, Separate, Bytes
  <2> QED
    BY <1>2, <2>10 DEF Kept
<1> QED
  BY <1>3, <1>4

(* What the copy does to the pool.                                         *)
LEMMA CopyFacts ==
  ASSUME ConstantsAssumption, IInv, Copy
  PROVE  /\ Bytes(NextSpan) = addr..(addr + msg - 1)
         /\ End(NextSpan) = addr + msg /\ NextSpan.len = msg
         /\ NextSpan' = NextSpan /\ buf'[id'] = NextSpan
         /\ \A a \in Bytes(NextSpan) : a \in Addrs => pool'[a] = msg
         /\ \A a \in Addrs : a \notin Bytes(NextSpan) /\ a # End(NextSpan)
                             => pool'[a] = pool[a]
         /\ \A a \in Addrs : pool'[a] # 0 => a \in Bytes(NextSpan) \/ pool[a] # 0
<1>1. /\ id' = id /\ addr' = addr /\ msg' = msg /\ id \in Descs
      /\ pool' = Copied /\ buf' = [buf EXCEPT ![id] = NextSpan]
      /\ buf \in [Descs -> Buffer]
      /\ addr \in Nat /\ msg \in Nat /\ PoolSize \in Nat
  BY DEF IInv, TypeOK, Copy, Step, Bounded, Buffer, NextSpan,
         ConstantsAssumption, Addrs
<1>2. /\ Bytes(NextSpan) = addr..(addr + msg - 1)
      /\ End(NextSpan) = addr + msg /\ NextSpan.len = msg
  BY DEF NextSpan, Bytes, End
<1>3. NextSpan' = NextSpan /\ buf'[id'] = NextSpan
  <2>1. NextSpan' = NextSpan
    BY <1>1 DEF NextSpan
  <2> QED
    BY <2>1, <1>1
<1>4. /\ \A a \in Bytes(NextSpan) : a \in Addrs => pool'[a] = msg
      /\ \A a \in Addrs : a \notin Bytes(NextSpan) /\ a # End(NextSpan)
                          => pool'[a] = pool[a]
      /\ \A a \in Addrs : pool'[a] # 0 => a \in Bytes(NextSpan) \/ pool[a] # 0
  BY <1>1, <1>2 DEF Copied
<1> QED
  BY <1>2, <1>3, <1>4

(* Copying writes to memory that belongs to no other message, and the zero *)
(* behind the text is not written over one.                                *)
LEMMA CopyKept ==
  ASSUME ConstantsAssumption, IInv, ~ raced', ~ erased', Kept, Copy
  PROVE  Kept'
<1> DEFINE n == Len(Texts)
           span == NextSpan
<1>1. /\ Texts' = Spans /\ Spans' = Spans /\ pc = "copy" /\ pc' = "publish"
  BY CopyTexts DEF Copy, Step
<1>2. /\ n \in Nat /\ Len(Spans) = n + 1 /\ Spans[n + 1] = span
      /\ \A k \in 1..n : k \in 1..Len(Spans) /\ Spans[k] = Texts[k]
  BY <1>1, SpansFacts
<1>3. /\ Bytes(span) = addr..(addr + msg - 1)
      /\ End(span) = addr + msg /\ span.len = msg
      /\ NextSpan' = span /\ buf'[id'] = span
      /\ \A a \in Bytes(span) : a \in Addrs => pool'[a] = msg
      /\ \A a \in Addrs : a \notin Bytes(span) /\ a # End(span)
                          => pool'[a] = pool[a]
  BY CopyFacts
<1>4. /\ n + 1 \in 1..(n + 1)
      /\ \A k \in 1..(n + 1) : k = n + 1 \/ k \in 1..n
      /\ \A k \in 1..n : k # n + 1
  BY <1>2
<1>5. /\ \A k \in 1..(n + 1) : Spans[k].len > 0 /\ Bytes(Spans[k]) \subseteq Addrs
      /\ \A i, j \in 1..(n + 1) : i # j =>
           Bytes(Spans[i]) \intersect Bytes(Spans[j]) = {}
      /\ \A k \in 1..n : \A a \in Bytes(Texts[k]) : pool[a] = Texts[k].len
  BY <1>2 DEF Kept, Lying, Separate, Whole
<1>6. End(span) \in Addrs => pool[End(span)] = 0
  BY <1>3 DEF Copy, Erases
<1> HIDE DEF n, span
<1>7. ASSUME NEW k \in 1..(n + 1), NEW a \in Bytes(Spans[k])
      PROVE  pool'[a] = Spans[k].len
  <2>1. a \in Addrs
    BY <1>5
  <2>2. CASE k = n + 1
    BY <2>1, <2>2, <1>2, <1>3
  <2>3. CASE k \in 1..n
    <3>1. Spans[k] = Texts[k] /\ a \in Bytes(Texts[k]) /\ k \in 1..(n + 1)
      BY <2>3, <1>2
    <3>2. pool[a] = Spans[k].len /\ Spans[k].len > 0
      BY <2>3, <3>1, <1>5
    <3>3. a # End(span)
      <4>1. ~ (0 > 0)
        OBVIOUS
      <4> QED
        BY <4>1, <2>1, <3>2, <1>6
    <3>4. a \notin Bytes(span)
      BY <2>3, <1>2, <1>4, <1>5
    <3> QED
      BY <2>1, <3>2, <3>3, <3>4, <1>3
  <2> QED
    BY <2>2, <2>3, <1>4
<1>8. Lying' /\ Separate'
  BY <1>1 DEF Kept, Lying, Separate
<1>9. Whole'
  BY <1>1, <1>2, <1>7 DEF Whole
<1>10. Described'
  BY <1>3 DEF Described, span
<1> QED
  BY <1>8, <1>9, <1>10 DEF Kept

(* What freeing does to the pool.                                          *)
LEMMA FreeFacts ==
  ASSUME ConstantsAssumption, IInv, Free
  PROVE  /\ \A a \in Addrs : a \notin Bytes(buf[hid]) => pool'[a] = pool[a]
         /\ \A a \in Addrs : pool'[a] # 0 => /\ pool[a] # 0
                                             /\ a \notin Bytes(buf[hid])
         /\ pc' = pc /\ id' = id /\ buf' = buf /\ NextSpan' = NextSpan
         /\ offset' = offset /\ leaked' = leaked /\ erased' = erased
<1>1. Freed(hid) = Bytes(buf[hid])
  BY DEF Freed, Bytes
<1>2. pool' = [a \in Addrs |-> IF a \in Freed(hid) THEN 0 ELSE pool[a]]
  BY DEF Free
<1>3. /\ pc' = pc /\ id' = id /\ addr' = addr /\ msg' = msg /\ buf' = buf
      /\ offset' = offset /\ leaked' = leaked /\ erased' = erased
  BY DEF Free, coreVars, histVars
<1> QED
  BY <1>1, <1>2, <1>3 DEF NextSpan

(* Freeing takes the memory of the oldest message, and of no other.        *)
LEMMA FreeKept ==
  ASSUME ConstantsAssumption, IInv, Kept, Free
  PROVE  Kept'
<1> DEFINE n == Len(Texts)
           m == Len(Spans)
<1>1. /\ Texts # << >> /\ Texts[1] = buf[hid] /\ Texts' = Tail(Texts)
      /\ Spans # << >> /\ Spans[1] = buf[hid] /\ Spans' = Tail(Spans)
  BY FreeTexts
<1>2. /\ Texts \in Seq(Buffer) /\ Spans \in Seq(Buffer) /\ n \in Nat /\ m \in Nat
      /\ \A k \in 1..n : k \in 1..m /\ Spans[k] = Texts[k]
  BY TextsFacts, SpansFacts
<1>3. /\ Len(Texts') = n - 1 /\ Len(Spans') = m - 1 /\ n > 0 /\ m > 0
      /\ \A k \in 1..(n - 1) : Texts'[k] = Texts[k + 1]
      /\ \A k \in 1..(m - 1) : Spans'[k] = Spans[k + 1]
  BY <1>1, <1>2, HeadTailProperties
<1>4. /\ \A k \in 1..m : Spans[k].len > 0 /\ Bytes(Spans[k]) \subseteq Addrs
      /\ \A i, j \in 1..m : i # j => Bytes(Spans[i]) \intersect Bytes(Spans[j]) = {}
      /\ \A k \in 1..n : \A a \in Bytes(Texts[k]) : pool[a] = Texts[k].len
  BY DEF Kept, Lying, Separate, Whole
<1>5. /\ \A a \in Addrs : a \notin Bytes(buf[hid]) => pool'[a] = pool[a]
      /\ pc' = pc /\ id' = id /\ buf' = buf /\ NextSpan' = NextSpan
  BY FreeFacts
<1> HIDE DEF n, m
<1>6. Lying'
  <2>1. ASSUME NEW k \in 1..(m - 1)
        PROVE  Spans'[k].len > 0 /\ Bytes(Spans'[k]) \subseteq Addrs
    <3>1. k + 1 \in 1..m
      BY <1>2
    <3> QED
      BY <3>1, <1>3, <1>4
  <2> QED
    BY <2>1, <1>3 DEF Lying, Bytes
<1>7. Separate'
  <2>1. ASSUME NEW i \in 1..(m - 1), NEW j \in 1..(m - 1), i # j
        PROVE  Bytes(Spans'[i]) \intersect Bytes(Spans'[j]) = {}
    <3>1. i + 1 \in 1..m /\ j + 1 \in 1..m /\ i + 1 # j + 1
      BY <2>1, <1>2
    <3> QED
      BY <3>1, <1>3, <1>4
  <2> QED
    BY <2>1, <1>3 DEF Separate, Bytes
<1>8. Whole'
  <2>1. ASSUME NEW k \in 1..(n - 1), NEW a \in Bytes(Texts'[k])
        PROVE  pool'[a] = Texts'[k].len
    <3> DEFINE j == k + 1
    <3>1. j \in 1..n /\ j # 1 /\ 1 \in 1..n
      BY <1>2, <1>3
    <3>2. Texts'[k] = Texts[j]
      BY <1>3
    <3> HIDE DEF j
    <3>3. /\ j \in 1..m /\ 1 \in 1..m /\ Spans[j] = Texts[j]
          /\ a \in Bytes(Spans[j])
      BY <3>1, <3>2, <1>2
    <3>4. a \in Addrs /\ a \notin Bytes(buf[hid])
      BY <3>1, <3>3, <1>1, <1>4
    <3>5. pool[a] = Texts[j].len
      BY <3>1, <3>3, <1>4
    <3> QED
      BY <3>2, <3>4, <3>5, <1>5
  <2> QED
    BY <2>1, <1>3 DEF Whole, Bytes
<1>9. Described'
  BY <1>5 DEF Kept, Described
<1> QED
  BY <1>6, <1>7, <1>8, <1>9 DEF Kept

(* What has happened has happened.                                         *)
LEMMA Forever ==
  ASSUME [Next]_vars
  PROVE  (raced => raced') /\ (erased => erased')
<1> USE DEF histVars
<1>1. ASSUME NEW c \in Cores, Enter(c)
      PROVE  raced' = raced /\ erased' = erased
  BY <1>1 DEF Enter
<1>2. ASSUME GetFree \/ Alloc \/ Publish \/ Take \/ Complete \/ ConfigChange
             \/ Interrupt \/ GetUsed \/ Link \/ Free \/ UNCHANGED vars
      PROVE  raced' = raced /\ erased' = erased
  BY <1>2 DEF GetFree, Alloc, Publish, Take, Complete, ConfigChange, Interrupt,
              GetUsed, Link, Free, vars
<1>3. ASSUME Unlink \/ CountDown \/ SetHead \/ CountUp
      PROVE  (raced => raced') /\ erased' = erased
  <2>1. CASE Unlink
    BY <2>1, Zenon DEF Unlink
  <2>2. CASE CountDown
    BY <2>2, Zenon DEF CountDown
  <2>3. CASE SetHead
    BY <2>3, Zenon DEF SetHead
  <2>4. CASE CountUp
    BY <2>4, Zenon DEF CountUp
  <2> QED
    BY <1>3, <2>1, <2>2, <2>3, <2>4
<1>4. ASSUME Copy
      PROVE  (raced => raced') /\ (erased => erased')
  BY <1>4, Zenon DEF Copy
<1> QED
  BY <1>1, <1>2, <1>3, <1>4 DEF Next, Transmit, Receive

(* Until there is a race, or a zero over a text, every step keeps the      *)
(* texts.                                                                  *)
LEMMA KeptStep ==
  ASSUME ConstantsAssumption, IInv, IInv', KeptInv, [Next]_vars
  PROVE  KeptInv'
<1> SUFFICES ASSUME ~ raced', ~ erased'  PROVE Kept'
  BY DEF KeptInv
<1>1. ~ raced /\ ~ erased
  BY Forever
<1>2. Kept
  BY <1>1 DEF KeptInv
<1>3. CASE Quiet
  BY <1>2, <1>3, QuietKept
<1>4. CASE Alloc
  BY <1>2, <1>4, AllocKept
<1>5. CASE Copy
  BY <1>2, <1>5, CopyKept
<1>6. CASE Free
  BY <1>2, <1>6, FreeKept
<1> QED
  BY <1>3, <1>4, <1>5, <1>6 DEF Next, Transmit, Receive, Quiet

LEMMA KeptAlways == Spec => []KeptInv
<1>1. Init => KeptInv
  BY ConstantsAssumption, InitKept DEF KeptInv
<1>2. IInv /\ IInv' /\ KeptInv /\ [Next]_vars => KeptInv'
  BY ConstantsAssumption, KeptStep
<1> QED
  BY <1>1, <1>2, IInvAlways, PTL DEF Spec

-----------------------------------------------------------------------------
(* The ring is kept                                                        *)

LEMMA InitRing ==
  ASSUME ConstantsAssumption, Init
  PROVE  RingInv
<1>1. Texts = << >> /\ Spans = << >>
  BY NothingAtFirst
<1>2. IsRing(Spans, offset)
  BY <1>1, EmptyRing DEF Init, ConstantsAssumption
<1>3. NothingElse
  BY DEF NothingElse, Init
<1> QED
  BY <1>2, <1>3 DEF RingInv, Round, Init

LEMMA QuietRound ==
  ASSUME ConstantsAssumption, IInv, IInv', ~ raced', Round, Quiet
  PROVE  Round'
<1>1. /\ Texts' = Texts /\ Spans' = Spans /\ pool' = pool /\ offset' = offset
      /\ leaked' = leaked /\ erased' = erased
  BY QuietFacts
<1>2. NothingElse'
  BY <1>1 DEF Round, NothingElse, Bytes
<1> QED
  BY <1>1, <1>2 DEF Round

(* There is memory for the next message, behind the one before it or at    *)
(* the start of the pool.                                                  *)
LEMMA AllocRound ==
  ASSUME ConstantsAssumption, IInv, IInv', ~ raced', Kept, Round, Alloc,
         msg \in 1..Slot
  PROVE  Round'
<1> DEFINE place == Behindmost(offset, msg)
           span == [addr |-> place, len |-> msg]
           T == Append(Texts, span)
           n == Len(Texts)
<1>1. /\ Spans = Texts /\ Texts' = Texts /\ pool' = pool
      /\ offset \in Nat /\ Slot \in Nat /\ PoolSize \in Nat
  <2>1. offset \in Nat
    BY SlotFacts DEF IInv, TypeOK
  <2> QED
    BY <2>1, AllocTexts, SlotFacts
<1>2. Texts \in Seq(Buffer) /\ n \in Nat /\ n <= QSize
  BY TextsFacts, KeptOnce
<1>3. IsRing(Texts, offset) /\ NothingElse /\ leaked = {} /\ ~ erased
  BY <1>1 DEF Round
<1>4. (offset + msg > PoolSize => msg <= offset) /\ IsRing(T, place + msg)
  BY <1>2, <1>3, RingWithNext
<1>5. /\ Len(T) = n + 1 /\ T[n + 1] = span /\ \A k \in 1..n : T[k] = Texts[k]
  BY <1>2
<1>6. /\ Bytes(span) \subseteq Addrs
      /\ \A k \in 1..n : Bytes(span) \intersect Bytes(Texts[k]) = {}
  <2>1. /\ \A i, j \in 1..Len(T) : i # j => Bytes(T[i]) \intersect Bytes(T[j]) = {}
        /\ \A i \in 1..Len(T) : Bytes(T[i]) \subseteq Addrs
    BY <1>4, Apart
  <2>2. /\ n + 1 \in 1..Len(T)
        /\ \A k \in 1..n : k \in 1..Len(T) /\ k # n + 1
    BY <1>2, <1>5
  <2> HIDE DEF T, span, n
  <2> QED
    BY <2>1, <2>2, <1>5
<1>7. FreeAt(place, msg)
  <2>1. Bytes(span) = place..(place + msg - 1)
    BY DEF Bytes
  <2>2. \A a \in Bytes(span) : pool[a] = 0
    <3> HIDE DEF span
    <3> QED
      BY <1>3, <1>6 DEF NothingElse
  <2> QED
    BY <2>1, <2>2 DEF FreeAt
<1>8. Place(msg) = place /\ place \in Nat
  <2>1. CASE offset + msg <= PoolSize
    <3>1. place = offset
      BY <2>1 DEF Behindmost
    <3> HIDE DEF place
    <3> QED
      BY <1>1, <1>7, <2>1, <3>1 DEF Place
  <2>2. CASE offset + msg > PoolSize
    <3>1. place = 0 /\ ~ (offset + msg <= PoolSize) /\ msg <= offset
      BY <1>1, <1>4, <2>2 DEF Behindmost
    <3> HIDE DEF place
    <3> QED
      BY <1>7, <3>1 DEF Place
  <2> QED
    BY <2>1, <2>2, <1>1
<1>9. place # Nowhere
  BY <1>8 DEF Nowhere
<1>10. offset' = place + msg /\ leaked' = leaked /\ erased' = erased
  <2> HIDE DEF place
  <2> QED
    BY <1>8, <1>9 DEF Alloc, NextOffset
<1>11. Spans' = T
  <2>1. Spans' = Append(Texts, NextSpan') /\ NextSpan' = [addr |-> Place(msg), len |-> msg]
    BY <1>8, <1>9, AllocTexts
  <2> QED
    BY <2>1, <1>8
<1>12. NothingElse'
  BY <1>1, <1>3 DEF NothingElse, Bytes
<1> QED
  BY <1>3, <1>4, <1>10, <1>11, <1>12 DEF Round

(* The zero behind the text is written where nothing is.                   *)
LEMMA CopyRound ==
  ASSUME ConstantsAssumption, IInv, ~ raced', Round, Copy
  PROVE  Round'
<1> DEFINE n == Len(Texts)
           span == NextSpan
<1>1. /\ Texts' = Spans /\ Spans' = Spans /\ pc = "copy"
      /\ offset' = offset /\ leaked' = leaked
      /\ erased' = (erased \/ Erases)
  BY CopyTexts DEF Copy, Step
<1>2. /\ n \in Nat /\ Len(Spans) = n + 1 /\ Spans[n + 1] = span
      /\ \A k \in 1..n : k \in 1..Len(Spans) /\ Spans[k] = Texts[k]
  BY <1>1, SpansFacts
<1>3. /\ End(span) = addr + msg
      /\ \A a \in Addrs : pool'[a] # 0 => a \in Bytes(span) \/ pool[a] # 0
  BY CopyFacts
<1>4. IsRing(Spans, offset) /\ NothingElse /\ leaked = {} /\ ~ erased
  BY DEF Round
<1> HIDE DEF span
<1>5. ~ Erases
  <2> SUFFICES ASSUME End(span) \in Addrs, pool[End(span)] # 0  PROVE FALSE
    BY <1>3 DEF Erases
  <2>1. PICK k \in 1..n : End(span) \in Bytes(Texts[k])
    BY <1>4 DEF NothingElse
  <2>2. End(Spans[Len(Spans)]) \notin Bytes(Spans[k])
    BY <2>1, <1>2, <1>4, Apart
  <2> QED
    BY <2>1, <2>2, <1>2
<1>6. NothingElse'
  <2>1. ASSUME NEW a \in Addrs, pool'[a] # 0
        PROVE  \E k \in 1..(n + 1) : a \in Bytes(Spans[k])
    <3>1. CASE a \in Bytes(span)
      <4>1. n + 1 \in 1..(n + 1)
        BY <1>2
      <4> QED
        BY <3>1, <4>1, <1>2
    <3>2. CASE pool[a] # 0
      <4>1. PICK k \in 1..n : a \in Bytes(Texts[k])
        BY <3>2, <1>4 DEF NothingElse
      <4>2. k \in 1..(n + 1)
        BY <1>2
      <4> QED
        BY <4>1, <4>2, <1>2
    <3> QED
      BY <3>1, <3>2, <2>1, <1>3
  <2>2. Len(Texts') = n + 1 /\ Texts' = Spans
    BY <1>1, <1>2
  <2> HIDE DEF n
  <2> QED
    BY <2>1, <2>2 DEF NothingElse, Bytes
<1> QED
  BY <1>1, <1>4, <1>5, <1>6 DEF Round

(* The oldest message leaves its memory to those to come.                  *)
LEMMA FreeRound ==
  ASSUME ConstantsAssumption, IInv, Round, Free
  PROVE  Round'
<1> DEFINE n == Len(Texts)
<1>1. /\ Texts # << >> /\ Texts[1] = buf[hid] /\ Texts' = Tail(Texts)
      /\ Spans # << >> /\ Spans' = Tail(Spans)
  BY FreeTexts
<1>2. Texts \in Seq(Buffer) /\ n \in Nat
  BY TextsFacts
<1>3. /\ Len(Texts') = n - 1
      /\ \A k \in 1..(n - 1) : Texts'[k] = Texts[k + 1]
  BY <1>1, <1>2, HeadTailProperties
<1>4. /\ \A a \in Addrs : pool'[a] # 0 => /\ pool[a] # 0
                                          /\ a \notin Bytes(buf[hid])
      /\ offset' = offset /\ leaked' = leaked /\ erased' = erased
  BY FreeFacts
<1>5. IsRing(Spans', offset')
  BY <1>1, <1>4, RingWithoutFirst DEF Round
<1> HIDE DEF n
<1>6. NothingElse'
  <2>1. ASSUME NEW a \in Addrs, pool'[a] # 0
        PROVE  \E k \in 1..(n - 1) : a \in Bytes(Texts'[k])
    <3>1. PICK j \in 1..n : a \in Bytes(Texts[j])
      BY <2>1, <1>4 DEF Round, NothingElse, n
    <3>2. j # 1
      BY <2>1, <3>1, <1>1, <1>4
    <3>3. j - 1 \in 1..(n - 1) /\ (j - 1) + 1 = j
      BY <3>1, <3>2, <1>2
    <3>4. Texts'[j - 1] = Texts[j]
      BY <3>3, <1>3
    <3> QED
      BY <3>1, <3>3, <3>4
  <2> QED
    BY <2>1, <1>3 DEF NothingElse, Bytes
<1> QED
  BY <1>4, <1>5, <1>6 DEF Round

(* The longest message is not forgotten.                                   *)
LEMMA LongestStep ==
  ASSUME ConstantsAssumption, IInv, IInv', [Next]_vars,
         pc \notin {"idle", "halted"} => msg <= longest
  PROVE  /\ longest <= longest' /\ longest \in Nat /\ longest' \in Nat
         /\ pc' \notin {"idle", "halted"} => msg' <= longest'
<1> USE DEF coreVars, histVars
<1>1. longest \in Nat /\ longest' \in Nat
  BY DEF IInv, TypeOK, ConstantsAssumption
<1>2. CASE \E c \in Cores : Enter(c)
  <2>1. PICK m \in Messages :
               msg' = m /\ longest' = IF m > longest THEN m ELSE longest
    BY <1>2 DEF Enter
  <2>2. m \in Nat
    BY DEF ConstantsAssumption
  <2> QED
    BY <2>1, <2>2, <1>1
<1>3. CASE Transmit
  BY <1>1, <1>3 DEF Transmit, GetFree, Unlink, CountDown, Alloc, Copy, Publish,
                    Step, Unlock
<1>4. CASE Take \/ Complete \/ ConfigChange \/ Interrupt
  BY <1>1, <1>4 DEF Take, Complete, ConfigChange, Interrupt
<1>5. CASE Receive
  BY <1>1, <1>5 DEF Receive, GetUsed, Link, SetHead, CountUp, Free
<1>6. CASE UNCHANGED vars
  BY <1>1, <1>6 DEF vars
<1> QED
  BY <1>2, <1>3, <1>4, <1>5, <1>6 DEF Next

(* Every step keeps the ring of allocated memory.                          *)
LEMMA RingStep ==
  ASSUME ConstantsAssumption, IInv, IInv', KeptInv, RingInv, [Next]_vars
  PROVE  RingInv'
<1>1. /\ longest <= longest' /\ longest \in Nat /\ longest' \in Nat
      /\ pc' \notin {"idle", "halted"} => msg' <= longest'
  BY LongestStep DEF RingInv
<1>2. ASSUME ~ raced', ~ TooLong'  PROVE Round'
  <2>1. ~ raced
    BY <1>2, Forever
  <2>2. longest <= Slot /\ Slot \in Nat /\ ~ TooLong
    <3>1. /\ (QSize + 2) * longest > PoolSize <=> longest > Slot
          /\ (QSize + 2) * longest' > PoolSize <=> longest' > Slot
          /\ Slot \in Nat
      BY <1>1, SlotFits
    <3>2. /\ TooLong <=> longest > Slot
          /\ TooLong' <=> longest' > Slot
      BY <3>1 DEF TooLong
    <3> QED
      BY <1>1, <1>2, <3>1, <3>2
  <2>3. Round /\ Kept
    BY <2>1, <2>2 DEF RingInv, Round, KeptInv
  <2>4. CASE Quiet
    BY <1>2, <2>3, <2>4, QuietRound
  <2>5. CASE Alloc
    <3>1. pc = "alloc"
      BY <2>5 DEF Alloc, Step
    <3>2. msg \in Nat /\ msg > 0 /\ msg <= longest
      <4>1. msg \in Messages /\ pc \notin {"idle", "halted"}
        BY <3>1 DEF IInv, Bounded
      <4> QED
        BY <4>1 DEF ConstantsAssumption, RingInv
    <3>3. msg \in 1..Slot
      BY <1>1, <2>2, <3>2
    <3> QED
      BY <1>2, <2>3, <2>5, <3>3, AllocRound
  <2>6. CASE Copy
    BY <1>2, <2>3, <2>6, CopyRound
  <2>7. CASE Free
    BY <2>3, <2>7, FreeRound
  <2> QED
    BY <2>4, <2>5, <2>6, <2>7 DEF Next, Transmit, Receive, Quiet
<1> QED
  BY <1>1, <1>2 DEF RingInv

(* Whatever is sent, and however handler and senders come between each     *)
(* other: until they have raced, or something was sent that does not fit   *)
(* the pool twice more than there are descriptors, virtio_memory_pool_     *)
(* alloc never fails, no descriptor is lost in virtio_console_transmit,    *)
(* and strcpy writes its zero where nothing is.                            *)
THEOREM PoolAlwaysServes == Spec => []PoolServes
<1>1. Init => RingInv
  BY ConstantsAssumption, InitRing
<1>2. IInv /\ IInv' /\ KeptInv /\ RingInv /\ [Next]_vars => RingInv'
  BY ConstantsAssumption, RingStep
<1>3. RingInv => PoolServes
  BY DEF RingInv, Round, PoolServes
<1> QED
  BY <1>1, <1>2, <1>3, IInvAlways, KeptAlways, PTL DEF Spec

-----------------------------------------------------------------------------
(* The queue is a channel                                                  *)

Mapped(g, s) == [k \in DOMAIN s |-> g[s[k]]]

(* What is mapped keeps its order.                                         *)
LEMMA MappedInOrder ==
  ASSUME NEW S, NEW g, NEW s \in Seq(S), NEW d \in S
  PROVE  /\ Mapped(g, Append(s, d)) = Append(Mapped(g, s), g[d])
         /\ s # << >> => /\ Mapped(g, s) # << >>
                         /\ Head(Mapped(g, s)) = g[Head(s)]
                         /\ Tail(Mapped(g, s)) = Mapped(g, Tail(s))
<1> DEFINE n == Len(s)
           m == Mapped(g, s)
           X == {g[e] : e \in S}
<1>1. /\ n \in Nat /\ DOMAIN s = 1..n
      /\ \A k \in 1..n : s[k] \in S
      /\ \A e \in S : g[e] \in X
  OBVIOUS
<1> HIDE DEF X
<1>2. /\ m \in Seq(X) /\ Len(m) = n /\ \A k \in 1..n : m[k] = g[s[k]]
  <2> HIDE DEF n
  <2> QED
    BY <1>1 DEF Mapped
<1>3. Mapped(g, Append(s, d)) = Append(m, g[d])
  <2> DEFINE t == Append(s, d)
             u == Append(m, g[d])
  <2>1. /\ DOMAIN t = 1..(n + 1) /\ t[n + 1] = d
        /\ \A k \in 1..n : t[k] = s[k]
    BY <1>1
  <2>2. /\ u \in Seq(X) /\ Len(u) = n + 1 /\ u[n + 1] = g[d]
        /\ \A k \in 1..n : u[k] = m[k]
    BY <1>1, <1>2, AppendProperties
  <2> HIDE DEF n, m, t, u
  <2>3. \A k \in 1..(n + 1) : u[k] = g[t[k]]
    <3> SUFFICES ASSUME NEW k \in 1..(n + 1)  PROVE u[k] = g[t[k]]
      OBVIOUS
    <3>1. k = n + 1 \/ k \in 1..n
      BY <1>1
    <3> QED
      BY <3>1, <2>1, <2>2, <1>2
  <2>4. u = [k \in 1..(n + 1) |-> u[k]]
    BY <2>2, LenProperties
  <2>5. [k \in 1..(n + 1) |-> u[k]] = [k \in 1..(n + 1) |-> g[t[k]]]
    BY <2>3
  <2>6. Mapped(g, t) = u
    BY <2>1, <2>4, <2>5 DEF Mapped
  <2> QED
    BY <2>6 DEF t, u
<1>4. ASSUME s # << >>
      PROVE  m # << >> /\ Head(m) = g[Head(s)] /\ Tail(m) = Mapped(g, Tail(s))
  <2> DEFINE t == Tail(s)
             u == Tail(m)
  <2>1. /\ n > 0 /\ DOMAIN t = 1..(n - 1) /\ Head(s) = s[1]
        /\ \A k \in 1..(n - 1) : t[k] = s[k + 1]
    BY <1>1, <1>4
  <2> HIDE DEF n, t
  <2>2. m # << >> /\ Head(m) = m[1]
    BY <1>2, <2>1
  <2>3. /\ u \in Seq(X) /\ Len(u) = n - 1
        /\ \A k \in 1..(n - 1) : u[k] = m[k + 1]
    BY <1>2, <2>2, HeadTailProperties
  <2>4. 1 \in 1..n
    BY <1>1, <2>1
  <2> HIDE DEF m, u
  <2>5. \A k \in 1..(n - 1) : u[k] = g[t[k]]
    <3> SUFFICES ASSUME NEW k \in 1..(n - 1)  PROVE u[k] = g[t[k]]
      OBVIOUS
    <3>1. k + 1 \in 1..n
      BY <1>1
    <3> QED
      BY <3>1, <2>1, <2>3, <1>2
  <2>6. u = [k \in 1..(n - 1) |-> u[k]]
    BY <2>3, LenProperties
  <2>7. [k \in 1..(n - 1) |-> u[k]] = [k \in 1..(n - 1) |-> g[t[k]]]
    BY <2>5
  <2>8. Mapped(g, t) = u
    BY <2>1, <2>6, <2>7 DEF Mapped
  <2> QED
    BY <1>2, <2>1, <2>2, <2>4, <2>8 DEF t, u
<1> QED
  BY <1>3, <1>4

(* A message that waits for the backend is in the pool as it was sent.     *)
WaitsWhole ==
  \A d \in Range(avail) : Text(d) = [i \in 1..buf[d].len |-> buf[d].len]

LEMMA PoolKeepsTexts ==
  ASSUME ConstantsAssumption, IInv, Kept
  PROVE  WaitsWhole
<1> SUFFICES ASSUME NEW d \in Range(avail)
             PROVE  Text(d) = [i \in 1..buf[d].len |-> buf[d].len]
  BY DEF WaitsWhole
<1>1. PICK k \in 1..Len(Flight) : Flight[k] = d
  <2>1. d \in Range(Flight)
    BY FlightFacts
  <2> QED
    BY <2>1, FlightFacts
<1>2. k \in 1..Len(Texts) /\ Texts[k] = buf[d] /\ Texts[k] \in Buffer
  BY <1>1, TextsFacts
<1>3. buf[d].addr \in Int /\ buf[d].len \in Int
  <2>1. \A b \in Buffer : b.addr \in Addrs /\ b.len \in Messages \union {0}
    BY DEF Buffer
  <2>2. Addrs \subseteq Int /\ Messages \union {0} \subseteq Int
    BY DEF Addrs, ConstantsAssumption
  <2> QED
    BY <1>2, <2>1, <2>2
<1>4. \A a \in Bytes(buf[d]) : pool[a] = buf[d].len
  BY <1>2 DEF Kept, Whole
<1>5. \A i \in 1..buf[d].len : buf[d].addr + i - 1 \in Bytes(buf[d])
  BY <1>3 DEF Bytes
<1> QED
  BY <1>4, <1>5 DEF Text

(* Every step of a channel that is whole is a step of the channel or       *)
(* leaves it alone: publishing adds the text that was sent, and the        *)
(* backend reads the oldest.                                               *)
LEMMA ChannelStep ==
  ASSUME ConstantsAssumption, IInv, Kept, WaitsWhole, WaitsWhole', [Next]_vars,
         ~ raced, ~ erased, ~ raced', ~ erased'
  PROVE  [Channel!Next]_(Channel!vars)
<1> USE DEF coreVars, listVars, poolVars, otherEnd, irqVars
<1> DEFINE queue == [k \in DOMAIN avail |-> Text(avail[k])]
           g == [d \in Descs |-> Text(d)]
<1>1. /\ avail \in Seq(Descs) /\ DOMAIN avail = 1..Len(avail)
      /\ \A k \in DOMAIN avail : avail[k] \in Descs /\ avail[k] \in Range(avail)
  BY FlightFacts DEF Range
<1>2. /\ queue = Mapped(g, avail)
      /\ \A d \in Descs : g[d] = Text(d)
  BY <1>1 DEF Mapped
<1> HIDE DEF g
<1>0. ~ (raced \/ erased) /\ (raced \/ erased)' = (raced \/ erased)
  OBVIOUS
<1>3. ASSUME avail' = avail, out' = out,
             \A d \in Range(avail) : buf'[d] = buf[d]
      PROVE  UNCHANGED Channel!vars
  <2>1. \A d \in Range(avail) : Text(d)' = Text(d)
    BY <1>3 DEF WaitsWhole
  <2>2. queue' = queue
    BY <1>1, <1>3, <2>1
  <2> QED
    BY <1>0, <1>3, <2>2 DEF Channel!vars
<1>4. CASE Copy
  <2>1. \A d \in Range(avail) : buf'[d] = buf[d]
    <3>1. pc = "copy" /\ buf' = [buf EXCEPT ![id] = [addr |-> addr, len |-> msg]]
      BY <1>4 DEF Copy, Step
    <3>2. id \notin Range(avail)
      BY <3>1 DEF IInv, Sound, OneHolder, Others, Held
    <3> QED
      BY <1>1, <3>1, <3>2 DEF IInv, TypeOK, Range
  <2> QED
    BY <1>3, <1>4, <2>1 DEF Copy
<1>5. CASE Publish
  <2>1. /\ pc = "publish" /\ avail' = Append(avail, id) /\ out' = out
        /\ buf' = buf /\ pool' = pool
        /\ buf[id] = [addr |-> addr, len |-> msg]
        /\ msg \in Messages /\ id \in Descs
    BY <1>5 DEF IInv, Bounded, TypeOK, Kept, Described, NextSpan, Publish,
                 Behind, Step
  <2>2. \A d : Text(d)' = Text(d)
    BY <2>1 DEF Text
  <2>3. Text(id) = [i \in 1..msg |-> msg]
    <3>1. id \in Range(avail')
      BY <1>1, <2>1, RangeOfAppend
    <3>2. \A d \in Range(avail') : Text(d)' = [i \in 1..buf'[d].len |-> buf'[d].len]
      BY DEF WaitsWhole
    <3>3. Text(id) = [i \in 1..buf[id].len |-> buf[id].len]
      BY <2>1, <2>2, <3>1, <3>2
    <3>4. buf[id].len = msg
      BY <2>1
    <3> QED
      BY <3>3, <3>4
  <2>4. queue' = Append(queue, Text(id))
    <3>1. Mapped(g, Append(avail, id)) = Append(Mapped(g, avail), g[id])
      BY <1>1, <2>1, MappedInOrder
    <3>2. queue' = Mapped(g, avail')
      <4>1. avail' \in Seq(Descs)
        BY <1>1, <2>1, AppendProperties
      <4>2. \A k \in DOMAIN avail' : avail'[k] \in Descs
        BY <4>1
      <4>3. queue' = [k \in DOMAIN avail' |-> Text(avail'[k])]
        BY <2>2
      <4> QED
        BY <4>2, <4>3, <1>2 DEF Mapped
    <3> QED
      BY <1>2, <2>1, <3>1, <3>2
  <2> QED
    BY <1>0, <2>1, <2>3, <2>4 DEF Channel!Next, Channel!Send
<1>6. CASE Take
  <2>1. /\ avail # << >> /\ avail' = Tail(avail) /\ buf' = buf /\ pool' = pool
        /\ out' = Text(Head(avail)) /\ Head(avail) \in Descs
    BY <1>1, <1>6, RangeOfTail DEF Take
  <2>2. \A d : Text(d)' = Text(d)
    BY <2>1 DEF Text
  <2>3. /\ Mapped(g, avail) # << >>
        /\ Head(Mapped(g, avail)) = g[Head(avail)]
        /\ Tail(Mapped(g, avail)) = Mapped(g, Tail(avail))
    BY <1>1, <2>1, MappedInOrder
  <2>4. queue' = Mapped(g, avail')
    <3>1. avail' \in Seq(Descs)
      BY <1>1, <2>1, RangeOfTail
    <3>2. \A k \in DOMAIN avail' : avail'[k] \in Descs
      BY <3>1
    <3>3. queue' = [k \in DOMAIN avail' |-> Text(avail'[k])]
      BY <2>2
    <3> QED
      BY <3>2, <3>3, <1>2 DEF Mapped
  <2>5. queue # << >> /\ out' = Head(queue) /\ queue' = Tail(queue)
    BY <1>2, <2>1, <2>3, <2>4
  <2> QED
    BY <1>0, <2>5 DEF Channel!Next, Channel!Read
<1>7. CASE \/ \E c \in Cores : Enter(c)
           \/ GetFree \/ Unlink \/ CountDown \/ Alloc
           \/ Complete \/ ConfigChange \/ Interrupt
           \/ Receive \/ UNCHANGED vars
  <2>1. avail' = avail /\ out' = out /\ buf' = buf
    BY <1>7 DEF Enter, GetFree, Unlink, CountDown, Alloc, Complete,
       ConfigChange, Interrupt, Receive, GetUsed, Link, SetHead, CountUp, Free,
       vars
  <2> QED
    BY <1>3, <2>1
<1> QED
  BY <1>4, <1>5, <1>6, <1>7 DEF Next, Transmit

(* What the backend reads are the texts that were sent, whole, once each   *)
(* and in their order, until handler and sender have raced or a zero was   *)
(* written over a text: for any cores, queue, pool and messages, and for   *)
(* every order of the steps, the transmit queue of the console implements  *)
(* the channel, but for its fairness.                                      *)
THEOREM ImplementsChannel == Spec => Channel!SafeSpec
<1>1. Init => Channel!Init
  <2> SUFFICES ASSUME Init  PROVE Channel!Init
    OBVIOUS
  <2>1. avail = << >> /\ out = << >> /\ DOMAIN avail = {}
    BY DEF Init
  <2>2. [k \in DOMAIN avail |-> Text(avail[k])] = << >>
    BY <2>1
  <2>3. (raced \/ erased) = FALSE
    BY DEF Init
  <2> QED
    BY <2>1, <2>2, <2>3 DEF Channel!Init
<1> DEFINE Good == raced \/ erased \/ WaitsWhole
<1>2. IInv /\ KeptInv => Good
  BY ConstantsAssumption, PoolKeepsTexts DEF KeptInv
<1>3. IInv /\ KeptInv /\ Good /\ Good' /\ [Next]_vars
        => [Channel!Next]_(Channel!vars)
  <2> SUFFICES ASSUME IInv, KeptInv, Good, Good', [Next]_vars
               PROVE  [Channel!Next]_(Channel!vars)
    OBVIOUS
  <2>1. CASE raced' \/ erased'
    BY <2>1 DEF Channel!Next, Channel!Break
  <2>2. CASE ~ raced' /\ ~ erased'
    <3>1. ~ raced /\ ~ erased
      BY <2>2, Forever
    <3>2. Kept /\ WaitsWhole /\ WaitsWhole'
      BY <2>2, <3>1 DEF KeptInv
    <3> QED
      BY <2>2, <3>1, <3>2, ConstantsAssumption, ChannelStep
  <2> QED
    BY <2>1, <2>2
<1> HIDE DEF Good
<1> QED
  BY <1>1, <1>2, <1>3, IInvAlways, KeptAlways, PTL DEF Spec, Channel!SafeSpec
=============================================================================
