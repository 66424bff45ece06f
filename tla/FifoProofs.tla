----------------------------- MODULE FifoProofs -----------------------------
(***************************************************************************)
(* What the operations of a ring do to its contents, for every size.       *)
(***************************************************************************)
EXTENDS Fifo, SequenceTheorems, TLAPS

\* An index that has run past the end at most once wraps to the start.
LEMMA Wrap ==
  ASSUME NEW i \in 0 .. 2 * SIZE - 1
  PROVE  i % SIZE = IF i < SIZE THEN i ELSE i - SIZE
<1>1. CASE i < SIZE
  BY <1>1, FifoConstants, SMT
<1>2. CASE i >= SIZE
  BY <1>2, FifoConstants, SMT
<1> QED BY <1>1, <1>2, FifoConstants

\* Succ without the remainder.
LEMMA SuccWraps ==
  ASSUME NEW i \in Slots
  PROVE  Succ(i) \in Slots /\ Succ(i) = IF i + 1 = SIZE THEN 0 ELSE i + 1
<1>1. i + 1 \in 0 .. 2 * SIZE - 1
  BY FifoConstants DEF Slots
<1> QED BY <1>1, Wrap, FifoConstants DEF Slots, Succ

\* FIFO_BUSY without the remainder.
LEMMA BusyWraps ==
  ASSUME NEW f \in Rings
  PROVE  /\ Busy(f) = IF f.head >= f.tail THEN f.head - f.tail
                                          ELSE SIZE + f.head - f.tail
         /\ Busy(f) \in Slots
<1>1. f.head \in Slots /\ f.tail \in Slots
  BY DEF Rings
<1>2. SIZE + f.head - f.tail \in 0 .. 2 * SIZE - 1
  BY <1>1, FifoConstants DEF Slots
<1> QED BY <1>1, <1>2, Wrap, FifoConstants DEF Slots, Busy

\* The slots a ring has free and the slots it uses add up to all but one, so
\* a test of FIFO_FREE is a test of FIFO_BUSY.
LEMMA FreeAndBusy ==
  ASSUME NEW f \in Rings
  PROVE  /\ Free(f) + Busy(f) = SIZE - 1
         /\ Full(f) <=> Busy(f) = SIZE - 1
         /\ Empty(f) <=> Busy(f) = 0
<1>1. f.head \in Slots /\ f.tail \in Slots
  BY DEF Rings
<1>2. (SIZE - 1) - f.head + f.tail \in 0 .. 2 * SIZE - 1
  BY <1>1, FifoConstants DEF Slots
<1>3. Free(f) + Busy(f) = SIZE - 1
  BY <1>1, <1>2, Wrap, BusyWraps, FifoConstants DEF Slots, Free
<1>4. Full(f) <=> Busy(f) = SIZE - 1
  BY <1>1, SuccWraps, BusyWraps, FifoConstants DEF Slots, Full
<1>5. Empty(f) <=> Busy(f) = 0
  BY <1>1, BusyWraps, FifoConstants DEF Slots, Empty
<1> QED BY <1>3, <1>4, <1>5

\* The contents are a sequence of items, as many as FIFO_BUSY says.
LEMMA ContentsType ==
  ASSUME NEW f \in Rings
  PROVE  Contents(f) \in Seq(Items) /\ Len(Contents(f)) = Busy(f)
<1>1. Busy(f) \in Nat /\ Busy(f) < SIZE
  BY BusyWraps, FifoConstants DEF Slots
<1>2. ASSUME NEW k \in 1 .. Busy(f)
      PROVE  f.data[(f.tail + k - 1) % SIZE] \in Items
  <2>1. f.tail \in Slots /\ f.data \in [Slots -> Items]
    BY DEF Rings
  <2>2. f.tail + k - 1 \in 0 .. 2 * SIZE - 1
    BY <1>1, <2>1, FifoConstants DEF Slots
  <2>3. (f.tail + k - 1) % SIZE \in Slots
    BY <2>1, <2>2, Wrap, FifoConstants DEF Slots
  <2> QED BY <2>1, <2>3
<1>3. Contents(f) \in [1 .. Busy(f) -> Items]
  BY <1>2 DEF Contents
<1> QED BY <1>1, <1>3

\* A put that fits appends the item to the contents.
LEMMA PutAppends ==
  ASSUME NEW f \in Rings, NEW x \in Items, ~Full(f)
  PROVE  /\ Put(f, x) \in Rings
         /\ Contents(Put(f, x)) = Append(Contents(f), x)
<1> DEFINE g == Put(f, x)
<1>1. f.head \in Slots /\ f.tail \in Slots /\ f.data \in [Slots -> Items]
  BY DEF Rings
<1>2. /\ g.head = Succ(f.head) /\ g.tail = f.tail
      /\ g.data = [f.data EXCEPT ![f.head] = x]
  BY DEF Put, Rings
<1>3. g \in Rings
  BY <1>1, SuccWraps DEF Put, Rings
<1>4. Busy(g) = Busy(f) + 1 /\ Busy(f) \in 0 .. SIZE - 2
  <2>1. Busy(f) = IF f.head >= f.tail THEN f.head - f.tail ELSE SIZE + f.head - f.tail
    BY BusyWraps
  <2>2. Busy(g) = IF g.head >= g.tail THEN g.head - g.tail ELSE SIZE + g.head - g.tail
    BY <1>3, BusyWraps
  <2>3. Succ(f.head) = IF f.head + 1 = SIZE THEN 0 ELSE f.head + 1
    BY <1>1, SuccWraps
  <2>4. Succ(f.head) # f.tail
    BY DEF Full
  <2> HIDE DEF g
  <2>5. /\ SIZE \in Nat /\ SIZE >= 2
        /\ f.head \in Nat /\ f.head < SIZE
        /\ f.tail \in Nat /\ f.tail < SIZE
    BY <1>1, FifoConstants DEF Slots
  <2>6. CASE f.head + 1 = SIZE
    <3>1. g.head = 0 /\ g.tail = f.tail
      BY <1>2, <2>3, <2>6
    <3>2. f.tail # 0
      BY <2>3, <2>4, <2>6
    <3> QED BY <2>1, <2>2, <2>5, <2>6, <3>1, <3>2
  <2>7. CASE f.head + 1 # SIZE
    <3>1. g.head = f.head + 1 /\ g.tail = f.tail
      BY <1>2, <2>3, <2>7
    <3>2. f.tail # f.head + 1
      BY <2>3, <2>4, <2>7
    <3> QED BY <2>1, <2>2, <2>5, <2>7, <3>1, <3>2
  <2> QED BY <2>6, <2>7
<1>5. ASSUME NEW k \in 1 .. Busy(f) + 1
      PROVE  g.data[(g.tail + k - 1) % SIZE]
               = IF k = Busy(f) + 1 THEN x ELSE f.data[(f.tail + k - 1) % SIZE]
  <2> DEFINE i == f.tail + k - 1
  <2>1. i \in 0 .. 2 * SIZE - 1
    BY <1>1, <1>4, FifoConstants DEF Slots
  <2>2. i % SIZE = IF i < SIZE THEN i ELSE i - SIZE
    BY <2>1, Wrap
  <2>3. i % SIZE \in Slots
    BY <2>1, <2>2, FifoConstants DEF Slots
  <2>4. i % SIZE = f.head <=> k = Busy(f) + 1
    <3>1. Busy(f) = IF f.head >= f.tail THEN f.head - f.tail ELSE SIZE + f.head - f.tail
      BY BusyWraps
    <3> HIDE DEF i
    <3>2. i = f.tail + k - 1
      BY DEF i
    <3>3. /\ SIZE \in Nat /\ f.head \in Nat /\ f.head < SIZE
          /\ f.tail \in Nat /\ f.tail < SIZE /\ k \in Nat /\ k >= 1
      BY <1>1, <1>4, FifoConstants DEF Slots
    <3>4. CASE k = Busy(f) + 1
      <4>1. (IF i < SIZE THEN i ELSE i - SIZE) = f.head
        <5>1. CASE f.head >= f.tail
          BY <1>4, <3>3, <3>1, <3>2, <3>4, <5>1
        <5>2. CASE f.head < f.tail
          BY <1>4, <3>3, <3>1, <3>2, <3>4, <5>2
        <5> QED BY <3>3, <5>1, <5>2
      <4> QED BY <2>2, <3>4, <4>1
    <3>5. CASE k < Busy(f) + 1
      <4>1. (IF i < SIZE THEN i ELSE i - SIZE) # f.head
        <5>1. CASE f.head >= f.tail
          BY <1>4, <3>3, <3>1, <3>2, <3>5, <5>1
        <5>2. CASE f.head < f.tail
          BY <1>4, <3>3, <3>1, <3>2, <3>5, <5>2
        <5> QED BY <3>3, <5>1, <5>2
      <4>2. k # Busy(f) + 1
        BY <1>4, <3>5
      <4> QED BY <2>2, <4>1, <4>2
    <3> QED BY <1>4, <3>4, <3>5
  <2> QED BY <1>1, <1>2, <2>3, <2>4
<1>6. Contents(f) \in Seq(Items) /\ Len(Contents(f)) = Busy(f)
  BY ContentsType
<1>7. Contents(g) \in Seq(Items) /\ Len(Contents(g)) = Busy(f) + 1
  BY <1>3, <1>4, ContentsType
<1>8. /\ Append(Contents(f), x) \in Seq(Items)
      /\ Len(Append(Contents(f), x)) = Busy(f) + 1
      /\ \A k \in 1 .. Busy(f) : Append(Contents(f), x)[k] = Contents(f)[k]
      /\ Append(Contents(f), x)[Busy(f) + 1] = x
  BY <1>6, AppendProperties
<1>9. ASSUME NEW k \in 1 .. Busy(f) + 1
      PROVE  Contents(g)[k] = Append(Contents(f), x)[k]
  <2>1. Contents(g)[k]
          = IF k = Busy(f) + 1 THEN x ELSE f.data[(f.tail + k - 1) % SIZE]
    BY <1>4, <1>5 DEF Contents
  <2>2. k # Busy(f) + 1 => k \in 1 .. Busy(f)
    BY <1>4
  <2>3. k # Busy(f) + 1 => Contents(f)[k] = f.data[(f.tail + k - 1) % SIZE]
    BY <2>2 DEF Contents
  <2> QED BY <1>8, <2>1, <2>2, <2>3
<1>10. Contents(g) = Append(Contents(f), x)
  BY <1>7, <1>8, <1>9, SeqEqual
<1> QED BY <1>3, <1>10

\* Releasing the oldest slot drops the first of the contents, which is the
\* item at tail.
LEMMA ReleaseDrops ==
  ASSUME NEW f \in Rings, ~Empty(f)
  PROVE  /\ Release(f) \in Rings
         /\ Contents(f) # <<>>
         /\ Head(Contents(f)) = f.data[f.tail]
         /\ Contents(Release(f)) = Tail(Contents(f))
<1> DEFINE g == Release(f)
<1>1. f.head \in Slots /\ f.tail \in Slots /\ f.data \in [Slots -> Items]
  BY DEF Rings
<1>2. g.head = f.head /\ g.tail = Succ(f.tail) /\ g.data = f.data
  BY DEF Release, Rings
<1>3. g \in Rings
  BY <1>1, SuccWraps DEF Release, Rings
<1>4. Busy(g) = Busy(f) - 1 /\ Busy(f) \in 1 .. SIZE - 1
  <2>1. Busy(f) = IF f.head >= f.tail THEN f.head - f.tail ELSE SIZE + f.head - f.tail
    BY BusyWraps
  <2>2. Busy(g) = IF g.head >= g.tail THEN g.head - g.tail ELSE SIZE + g.head - g.tail
    BY <1>3, BusyWraps
  <2>3. Succ(f.tail) = IF f.tail + 1 = SIZE THEN 0 ELSE f.tail + 1
    BY <1>1, SuccWraps
  <2>4. f.head # f.tail
    BY DEF Empty
  <2> QED BY <1>1, <1>2, <2>1, <2>2, <2>3, <2>4, FifoConstants DEF Slots
<1>5. Len(Contents(f)) = Busy(f) /\ Contents(f) \in Seq(Items)
  BY ContentsType
<1>6. Head(Contents(f)) = f.data[f.tail]
  <2>1. f.tail % SIZE = f.tail
    BY <1>1, Wrap, FifoConstants DEF Slots
  <2>2. Contents(f)[1] = f.data[(f.tail + 1 - 1) % SIZE]
    BY <1>4 DEF Contents
  <2> QED BY <1>1, <1>4, <1>5, <2>1, <2>2, FifoConstants DEF Slots
<1>7. ASSUME NEW k \in 1 .. Busy(f) - 1
      PROVE  (g.tail + k - 1) % SIZE = (f.tail + (k + 1) - 1) % SIZE
  <2> DEFINE i == g.tail + k - 1
             j == f.tail + (k + 1) - 1
  <2>1. g.tail = IF f.tail + 1 = SIZE THEN 0 ELSE f.tail + 1
    BY <1>1, <1>2, SuccWraps
  <2>2. i \in 0 .. 2 * SIZE - 1 /\ j \in 0 .. 2 * SIZE - 1
    BY <1>1, <1>4, <2>1, FifoConstants DEF Slots
  <2>3. /\ i % SIZE = IF i < SIZE THEN i ELSE i - SIZE
        /\ j % SIZE = IF j < SIZE THEN j ELSE j - SIZE
    BY <2>2, Wrap
  <2> HIDE DEF i, j
  <2>4. i = g.tail + k - 1 /\ j = f.tail + k
    BY <1>1, <1>4, FifoConstants DEF Slots, i, j
  <2>5. (IF i < SIZE THEN i ELSE i - SIZE) = (IF j < SIZE THEN j ELSE j - SIZE)
    BY <1>1, <1>4, <2>1, <2>4, FifoConstants DEF Slots
  <2>6. i % SIZE = j % SIZE
    BY <2>3, <2>5
  <2> QED BY <2>6 DEF i, j
<1>8. Contents(g) \in Seq(Items) /\ Len(Contents(g)) = Busy(f) - 1
  BY <1>3, <1>4, ContentsType
<1>9. /\ Contents(f) # <<>>
      /\ Tail(Contents(f)) \in Seq(Items)
      /\ Len(Tail(Contents(f))) = Busy(f) - 1
      /\ \A k \in 1 .. Busy(f) - 1 : Tail(Contents(f))[k] = Contents(f)[k + 1]
  <2>1. Contents(f) # <<>>
    BY <1>4, <1>5
  <2> QED BY <1>4, <1>5, <2>1, HeadTailProperties
<1>10. ASSUME NEW k \in 1 .. Busy(f) - 1
       PROVE  Contents(g)[k] = Tail(Contents(f))[k]
  <2>1. Contents(g)[k] = f.data[(g.tail + k - 1) % SIZE]
    BY <1>2, <1>4 DEF Contents
  <2>2. k + 1 \in 1 .. Busy(f)
    BY <1>4
  <2>3. Contents(f)[k + 1] = f.data[(f.tail + (k + 1) - 1) % SIZE]
    BY <2>2 DEF Contents
  <2> QED BY <1>7, <1>9, <2>1, <2>3
<1>11. Contents(g) = Tail(Contents(f))
  BY <1>8, <1>9, <1>10, SeqEqual
<1> QED BY <1>3, <1>6, <1>9, <1>11
=============================================================================
