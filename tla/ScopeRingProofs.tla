--------------------------- MODULE ScopeRingProofs ---------------------------
(***************************************************************************)
(* Every word of a scope packet is in the place of its channel, and its    *)
(* header tells when its first sample was taken (modbus_scope.c), for      *)
(* every size of the ring and of the clocks, every number of channels and  *)
(* every moment of the control interrupt. Its ring is at the level that    *)
(* ModbusRtu has of it.                                                    *)
(***************************************************************************)
EXTENDS ScopeRing, FifoProofs, WellFoundedInduction

LEMMA ScopeFacts ==
  /\ CLOCK \in Nat /\ CLOCK > 0 /\ CHANNELS \in Nat /\ CHANNELS > 0
  /\ SIZE \in Nat /\ SIZE > 1 /\ Items = Samples
  /\ \A d \in STEPS : d \in Nat /\ d > 0
  /\ 1 \in STEPS /\ \A n \in RUNS : n \in Nat
BY ScopeOK, FifoConstants

LEMMA ClockType == ASSUME NEW x \in Int PROVE x % CLOCK \in Clocks
BY ScopeFacts DEF Clocks

LEMMA WordType == NoWord \in Samples
<1>1. 0 \in Clocks /\ 0 \in 0 .. CHANNELS - 1
  BY ScopeFacts DEF Clocks
<1> QED BY <1>1 DEF NoWord, Samples

LEMMA EmptyRingType == EmptyRing \in Rings /\ Empty(EmptyRing)
<1>1. 0 \in Slots
  BY ScopeFacts DEF Slots
<1> QED BY <1>1, WordType, ScopeFacts DEF EmptyRing, Rings, Empty

-----------------------------------------------------------------------------
(* A ring holds whole samples but for the first: behind each word is the   *)
(* one of the next channel, and the last word is that of the last channel. *)

NextCh(n) == IF n + 1 = numCh THEN 0 ELSE n + 1

Used(f, i) ==
  IF f.tail <= f.head THEN f.tail <= i /\ i < f.head ELSE f.tail <= i \/ i < f.head

Row(f) ==
  \A i \in Slots :
    Used(f, i) => IF Succ(i) = f.head THEN f.data[i].ch = numCh - 1
                  ELSE f.data[Succ(i)].ch = NextCh(f.data[i].ch)

\* The next word is that of channel n.
Place(f, n) == IF Empty(f) THEN n = 0 ELSE f.data[f.tail].ch = n

LEMMA RingFacts ==
  ASSUME NEW f \in Rings
  PROVE  /\ f.head \in Slots /\ f.tail \in Slots /\ f.data \in [Slots -> Items]
         /\ \A i \in Slots : f.data[i] \in Samples /\ f.data[i].ch \in 0 .. CHANNELS - 1
<1>1. f.head \in Slots /\ f.tail \in Slots /\ f.data \in [Slots -> Items]
  BY DEF Rings
<1> QED BY <1>1, ScopeFacts DEF Samples

\* How far a slot is from the head, without the remainder.
LEMMA AheadWraps ==
  ASSUME NEW h \in Slots, NEW i \in Slots
  PROVE  (SIZE + i - h) % SIZE = IF i >= h THEN i - h ELSE SIZE + i - h
<1>1. SIZE + i - h \in 0 .. 2 * SIZE - 1
  BY ScopeFacts DEF Slots
<1> QED BY <1>1, Wrap, ScopeFacts DEF Slots

LEMMA PutAllType ==
  ASSUME NEW f \in Rings, NEW clk \in Clocks, numCh \in 0 .. CHANNELS
  PROVE  PutAll(f, clk) \in Rings
<1>1. f.head \in Slots /\ f.tail \in Slots /\ f.data \in [Slots -> Items]
  BY RingFacts
<1>2. ASSUME NEW i \in Slots, (SIZE + i - f.head) % SIZE < numCh
      PROVE  [clk |-> clk, ch |-> (SIZE + i - f.head) % SIZE] \in Items
  <2>1. (SIZE + i - f.head) % SIZE \in 0 .. CHANNELS - 1
    BY <1>1, <1>2, AheadWraps, ScopeFacts DEF Slots
  <2> QED BY <2>1, ScopeFacts DEF Samples
<1>3. (f.head + numCh) % SIZE \in Slots
  BY <1>1, ScopeFacts DEF Slots
<1> QED BY <1>1, <1>2, <1>3 DEF PutAll, Rings

\* Samples put in where there is room leave whole samples.
LEMMA PutAllRow ==
  ASSUME NEW f \in Rings, NEW clk \in Clocks, numCh \in 1 .. CHANNELS, Free(f) >= numCh,
         Row(f), NEW n, Place(f, n)
  PROVE  LET g == PutAll(f, clk) IN
         /\ Row(g) /\ Place(g, n) /\ ~Empty(g) /\ g.tail = f.tail
         /\ ~Empty(f) => g.data[g.tail] = f.data[f.tail]
<1> DEFINE g == PutAll(f, clk)
           N(i) == IF i >= f.head THEN i - f.head ELSE SIZE + i - f.head
<1> USE ScopeFacts
<1>1. f.head \in 0 .. SIZE - 1 /\ f.tail \in 0 .. SIZE - 1
  BY RingFacts DEF Slots
<1>2. Free(f) = IF f.tail > f.head THEN f.tail - f.head - 1 ELSE SIZE - 1 - f.head + f.tail
  <2>1. (SIZE - 1) - f.head + f.tail \in 0 .. 2 * SIZE - 1
    BY <1>1
  <2> QED BY <1>1, <2>1, Wrap DEF Free
<1>3. g.tail = f.tail /\ g.head = IF f.head + numCh < SIZE THEN f.head + numCh
                                                         ELSE f.head + numCh - SIZE
  <2>1. numCh < SIZE
    BY <1>1, <1>2
  <2>2. f.head + numCh \in 0 .. 2 * SIZE - 1
    BY <1>1, <2>1
  <2>3. g.tail = f.tail /\ g.head = (f.head + numCh) % SIZE
    BY DEF PutAll, Rings
  <2> HIDE DEF g
  <2> QED BY <1>1, <2>2, <2>3, Wrap
<1>4. ASSUME NEW i \in Slots
      PROVE  /\ N(i) < numCh => g.data[i].ch = N(i)
             /\ ~(N(i) < numCh) => g.data[i] = f.data[i]
  <2>1. f.head \in Slots
    BY RingFacts
  <2>2. (SIZE + i - f.head) % SIZE = N(i)
    BY <2>1, AheadWraps
  <2>3. g.data = [j \in Slots |-> LET k == (SIZE + j - f.head) % SIZE
                                  IN IF k < numCh THEN [clk |-> clk, ch |-> k] ELSE f.data[j]]
    BY DEF PutAll, Rings
  <2>4. g.data[i] = LET k == (SIZE + i - f.head) % SIZE
                    IN IF k < numCh THEN [clk |-> clk, ch |-> k] ELSE f.data[i]
    <3> HIDE DEF g
    <3> QED BY <2>3
  <2>5. g.data[i] = IF N(i) < numCh THEN [clk |-> clk, ch |-> N(i)] ELSE f.data[i]
    <3> HIDE DEF g, N
    <3> QED BY <2>2, <2>4
  <2> HIDE DEF g, N
  <2>6. CASE N(i) < numCh
    <3>1. g.data[i] = [clk |-> clk, ch |-> N(i)]
      BY <2>5, <2>6
    <3> QED BY <2>6, <3>1
  <2>7. CASE ~(N(i) < numCh)
    BY <2>5, <2>7
  <2> QED BY <2>6, <2>7
<1>0. \A i \in Slots : N(i) \in Int
  BY <1>1 DEF Slots
<1> HIDE DEF g
<1>5. ASSUME NEW i \in Slots, Used(f, i) PROVE N(i) > numCh /\ g.data[i] = f.data[i]
  <2>1. N(i) > numCh
    BY <1>1, <1>2, <1>5 DEF Slots, Used
  <2>2. ~(N(i) < numCh)
    BY <1>0, <2>1
  <2> HIDE DEF N
  <2> QED BY <1>4, <2>1, <2>2
<1>6. ASSUME NEW i \in Slots, Used(g, i) PROVE Used(f, i) \/ N(i) < numCh
  BY <1>1, <1>2, <1>3, <1>6 DEF Slots, Used
<1>7. Row(g)
  <2> SUFFICES ASSUME NEW i \in Slots, Used(g, i)
               PROVE  IF Succ(i) = g.head THEN g.data[i].ch = numCh - 1
                      ELSE g.data[Succ(i)].ch = NextCh(g.data[i].ch)
    BY DEF Row
  <2>0. Succ(i) \in Slots /\ Succ(i) = IF i + 1 = SIZE THEN 0 ELSE i + 1
    BY SuccWraps
  <2>1. CASE N(i) < numCh
    <3>1. g.data[i].ch = N(i)
      <4> HIDE DEF N
      <4> QED BY <1>4, <2>1
    <3>2. Succ(i) = g.head <=> N(i) = numCh - 1
      BY <1>1, <1>2, <1>3, <2>0, <2>1 DEF Slots
    <3>3. CASE N(i) = numCh - 1
      BY <3>1, <3>2, <3>3
    <3>4. CASE N(i) # numCh - 1
      <4>1. N(Succ(i)) = N(i) + 1 /\ N(i) + 1 < numCh /\ N(i) + 1 # numCh
        BY <1>1, <1>2, <2>0, <2>1, <3>4 DEF Slots
      <4>2. g.data[Succ(i)].ch = N(Succ(i))
        <5> HIDE DEF N
        <5> QED BY <1>4, <2>0, <4>1
      <4> HIDE DEF N
      <4> QED BY <3>1, <3>2, <3>4, <4>1, <4>2 DEF NextCh
    <3> QED BY <3>3, <3>4
  <2>2. CASE Used(f, i) /\ Succ(i) = f.head
    <3>1. g.data[i].ch = numCh - 1
      BY <1>5, <2>2 DEF Row
    <3>2. Succ(i) # g.head /\ N(Succ(i)) = 0
      BY <1>1, <1>2, <1>3, <2>2
    <3>3. g.data[Succ(i)].ch = 0
      <4> HIDE DEF N
      <4> QED BY <1>4, <2>0, <3>2
    <3> QED BY <3>1, <3>2, <3>3 DEF NextCh
  <2>3. CASE Used(f, i) /\ Succ(i) # f.head
    <3>1. Used(f, Succ(i))
      BY <1>1, <2>0, <2>3 DEF Slots, Used
    <3>2. g.data[i] = f.data[i] /\ g.data[Succ(i)] = f.data[Succ(i)] /\ N(Succ(i)) > numCh
      BY <1>5, <2>0, <2>3, <3>1
    <3>3. Succ(i) # g.head
      BY <1>1, <1>3, <3>2
    <3> QED BY <2>3, <3>2, <3>3 DEF Row
  <2> QED BY <1>6, <2>1, <2>2, <2>3
<1>8. ~Empty(g)
  BY <1>1, <1>2, <1>3 DEF Empty
<1>9. ASSUME Empty(f) PROVE n = 0 /\ g.data[g.tail].ch = 0
  <2>0. f.tail \in Slots /\ f.tail = f.head /\ f.tail \in Int
    BY <1>1, <1>9, RingFacts DEF Empty
  <2>1. N(f.tail) = 0 /\ n = 0
    BY <1>9, <2>0 DEF Place
  <2>2. g.data[g.tail].ch = 0
    <3> HIDE DEF N
    <3> QED BY <1>3, <1>4, <2>0, <2>1
  <2> QED BY <1>9, <2>1, <2>2
<1>10. ASSUME ~Empty(f) PROVE g.data[g.tail] = f.data[f.tail] /\ f.data[f.tail].ch = n
  <2>1. f.tail \in Slots /\ Used(f, f.tail)
    <3>1. f.tail \in Slots /\ f.head # f.tail
      BY <1>10, RingFacts DEF Empty
    <3> QED BY <1>1, <3>1 DEF Used
  <2>2. g.data[g.tail] = f.data[f.tail]
    BY <1>3, <1>5, <2>1
  <2> QED BY <1>10, <2>2 DEF Place
<1>11. /\ Row(g) /\ Place(g, n) /\ ~Empty(g) /\ g.tail = f.tail
       /\ ~Empty(f) => g.data[g.tail] = f.data[f.tail]
  BY <1>3, <1>7, <1>8, <1>9, <1>10 DEF Place
<1> QED BY <1>11 DEF g

\* Taking the oldest word leaves them, and the next channel is the oldest.
LEMMA TakeRow ==
  ASSUME NEW f \in Rings, ~Empty(f), Row(f), numCh \in 1 .. CHANNELS
  PROVE  LET g == [f EXCEPT !.tail = Succ(f.tail), !.data[f.tail] = NoWord] IN
         /\ g \in Rings /\ Row(g) /\ Place(g, NextCh(f.data[f.tail].ch))
<1> DEFINE g == [f EXCEPT !.tail = Succ(f.tail), !.data[f.tail] = NoWord]
<1> USE ScopeFacts
<1>1. f.head \in 0 .. SIZE - 1 /\ f.tail \in 0 .. SIZE - 1 /\ f.tail \in Slots
      /\ f.data \in [Slots -> Items] /\ f.head # f.tail
  BY RingFacts DEF Slots, Empty
<1>2. Succ(f.tail) \in Slots /\ Succ(f.tail) = IF f.tail + 1 = SIZE THEN 0 ELSE f.tail + 1
  BY <1>1, SuccWraps
<1>3. g \in Rings
  BY <1>1, <1>2, WordType DEF Rings
<1>4. g.head = f.head /\ g.tail = Succ(f.tail)
      /\ \A i \in Slots : i # f.tail => g.data[i] = f.data[i]
  BY <1>1 DEF Rings
<1> HIDE DEF g
<1>5. ASSUME NEW i \in Slots, Used(g, i) PROVE Used(f, i) /\ i # f.tail
  BY <1>1, <1>2, <1>4, <1>5 DEF Used, Slots
<1>6. Row(g)
  <2> SUFFICES ASSUME NEW i \in Slots, Used(g, i)
               PROVE  IF Succ(i) = g.head THEN g.data[i].ch = numCh - 1
                      ELSE g.data[Succ(i)].ch = NextCh(g.data[i].ch)
    BY DEF Row
  <2>1. Succ(i) \in Slots /\ Succ(i) = IF i + 1 = SIZE THEN 0 ELSE i + 1
    BY SuccWraps
  <2>2. Succ(i) # g.head => Succ(i) # f.tail
    BY <1>1, <1>2, <1>4, <2>1 DEF Used, Slots
  <2> QED BY <1>4, <1>5, <2>1, <2>2 DEF Row
<1>7. Used(f, f.tail)
  BY <1>1 DEF Used
<1>8. ASSUME Succ(f.tail) = f.head
      PROVE  Place(g, NextCh(f.data[f.tail].ch))
  <2>1. f.data[f.tail].ch = numCh - 1
    BY <1>1, <1>7, <1>8 DEF Row
  <2>2. NextCh(f.data[f.tail].ch) = 0
    BY <2>1 DEF NextCh
  <2>3. Empty(g)
    BY <1>4, <1>8 DEF Empty
  <2> QED BY <2>2, <2>3 DEF Place
<1>9. ASSUME Succ(f.tail) # f.head
      PROVE  Place(g, NextCh(f.data[f.tail].ch))
  <2>1. Succ(f.tail) # f.tail
    BY <1>1, <1>2
  <2>2. g.data[Succ(f.tail)] = f.data[Succ(f.tail)]
    BY <1>2, <1>4, <2>1
  <2>3. f.data[Succ(f.tail)].ch = NextCh(f.data[f.tail].ch)
    BY <1>1, <1>7, <1>9 DEF Row
  <2>4. ~Empty(g) /\ g.data[g.tail].ch = NextCh(f.data[f.tail].ch)
    BY <1>4, <1>9, <2>2, <2>3 DEF Empty
  <2> QED BY <2>4 DEF Place
<1>10. g \in Rings /\ Row(g) /\ Place(g, NextCh(f.data[f.tail].ch))
  BY <1>3, <1>6, <1>8, <1>9
<1> QED BY <1>10 DEF g

-----------------------------------------------------------------------------
(* The types.                                                              *)

LEMMA TickType == ScopeTypeOK /\ Tick => ScopeTypeOK'
<1> SUFFICES ASSUME ScopeTypeOK, Tick PROVE ScopeTypeOK'
  OBVIOUS
<1> USE ScopeFacts DEF ScopeTypeOK
<1>0. skip' \in Nat /\ UNCHANGED <<hostVars, sendVars, sc>>
  BY DEF Tick, Counted
<1>1. CASE Sample
  <2>1. scopeClock' \in Clocks /\ (fifoClock + down) % CLOCK \in Clocks
    BY <1>1, ClockType DEF Sample, Clocks
  <2>2. ring' \in Rings /\ fifoClock' \in Clocks
    BY <1>1, <2>1, PutAllType DEF Sample
  <2>3. running' \in Nat /\ session' = session
    BY <1>1 DEF Sample, LastRun
  <2>4. overflow' \in BOOLEAN
    BY <1>1, Zenon DEF Sample
  <2> QED BY <1>0, <2>1, <2>2, <2>3, <2>4 DEF hostVars, sendVars
<1>2. CASE Between
  BY <1>0, <1>2 DEF Between, hostVars, sendVars
<1>3. CASE Clear
  <2>1. scopeClock' \in Clocks /\ fifoClock' \in Clocks
    BY <1>3, ClockType DEF Clear, Clocks
  <2>2. ring' \in Rings /\ overflow' \in BOOLEAN /\ UNCHANGED running
    BY <1>3, EmptyRingType DEF Clear
  <2>3. session' \in {"fresh", "on", "skewed"}
    BY <1>3 DEF Clear, Cleared
  <2> QED BY <1>0, <2>1, <2>2, <2>3 DEF hostVars, sendVars
<1> QED
  BY <1>1, <1>2, <1>3 DEF Tick

LEMMA HostType == ScopeTypeOK /\ ScopeHost => ScopeTypeOK'
BY ScopeFacts DEF ScopeTypeOK, ScopeHost, KeepRunning, SetChannels, SetDownsample, tickVars,
                  hostVars, sendVars

LEMMA ThreadType == ScopeTypeOK /\ Thread => ScopeTypeOK'
<1> SUFFICES ASSUME ScopeTypeOK, Thread PROVE ScopeTypeOK'
  OBVIOUS
<1> USE ScopeFacts DEF ScopeTypeOK, Yields, tickVars, hostVars, sendVars
<1>1. CASE Begin  BY <1>1 DEF Begin
<1>2. CASE Header  BY <1>2 DEF Header
<1>3. CASE Continue  BY <1>3 DEF Continue
<1>4. CASE Finish  BY <1>4 DEF Finish
<1>5. CASE Load  BY <1>5, RingFacts DEF Load
<1>6. CASE Advance
  <2>1. PICK t \in {tailRead, ring.tail} :
          ring' = [ring EXCEPT !.tail = Succ(t), !.data[tailRead] = NoWord]
    BY <1>6 DEF Advance
  <2>2. Succ(t) \in Slots /\ tailRead \in Slots
    BY RingFacts, SuccWraps
  <2>3. ring' \in Rings
    BY <2>1, <2>2, WordType DEF Rings
  <2> QED BY <1>6, <2>3 DEF Advance
<1>7. CASE Sent
  <2>1. fifoClock' \in Clocks
    BY <1>7, ClockType DEF Sent, Clocks
  <2>2. 0 \in Slots /\ held' = NoWord /\ tailRead' = 0 /\ chan' \in Nat
    BY <1>7 DEF Sent, Slots
  <2> QED BY <1>7, <2>1, <2>2, WordType DEF Sent
<1>8. CASE Close  BY <1>8 DEF Close
<1>9. CASE Stuck  BY <1>9 DEF Stuck
<1> QED
  BY <1>1, <1>2, <1>3, <1>4, <1>5, <1>6, <1>7, <1>8, <1>9 DEF Thread

\* The ring, the clocks and the sending thread keep their types.
THEOREM ScopeTypeCorrect == ScopeSpec => []ScopeTypeOK
<1>1. ScopeInit => ScopeTypeOK
  <2> SUFFICES ASSUME ScopeInit PROVE ScopeTypeOK
    OBVIOUS
  <2>1. 0 \in Clocks /\ 0 \in Slots /\ 0 \in 0 .. CHANNELS
    BY ScopeFacts DEF Clocks, Slots
  <2> QED BY <2>1, ScopeFacts, EmptyRingType, WordType DEF ScopeInit, ScopeTypeOK, Yields
<1>2. ScopeTypeOK /\ [ScopeNext]_scopeVars => ScopeTypeOK'
  <2>1. ScopeTypeOK /\ UNCHANGED scopeVars => ScopeTypeOK'
    BY DEF scopeVars, ScopeTypeOK
  <2> QED BY <2>1, TickType, HostType, ThreadType DEF ScopeNext
<1> QED BY <1>1, <1>2, PTL DEF ScopeSpec

-----------------------------------------------------------------------------
(* The place of the words. While the scope is on since it was fresh, the   *)
(* ring holds whole samples behind the word the thread is at.              *)

\* The channel of the word the thread takes next.
DueCh == CASE sc \in {"idle", "preamble", "close"} -> 0
           [] sc \in {"samples", "get", "step"}    -> chan
           [] sc = "sent"                          -> NextCh(chan)

InPlace ==
  /\ Row(ring) /\ Place(ring, DueCh)
  /\ sc \in {"samples", "get", "step", "sent"} => chan < numCh
  /\ sc \in {"get", "step"} => ~Empty(ring)
  /\ sc = "step" => tailRead = ring.tail /\ held = ring.data[ring.tail]
  /\ sc = "sent" => held.ch = chan

\* Without channels nothing is put in and nothing is taken out.
Idle == Empty(ring) /\ sc \notin {"get", "step", "sent"}

PlaceInv ==
  /\ session = "fresh" => running = 0 /\ Empty(ring) /\ sc \in {"idle", "close"}
  /\ session = "on" /\ running > 0 => IF numCh = 0 THEN Idle ELSE InPlace

\* The interrupt takes a sample while the scope is on.
LEMMA SampleStep ==
  ASSUME ScopeTypeOK, PlaceInv, Sample, UNCHANGED <<hostVars, sendVars, sc>>
  PROVE  PlaceInv'
<1> USE ScopeFacts DEF ScopeTypeOK
<1>1. running >= 1 /\ session # "fresh" /\ session' = session
  BY DEF Sample, PlaceInv
<1>2. SUFFICES ASSUME session = "on", running' > 0
               PROVE  (IF numCh = 0 THEN Idle ELSE InPlace)'
  BY <1>1 DEF PlaceInv
<1>3. CASE numCh = 0
  <2>1. Idle /\ numCh' = 0 /\ sc' = sc
    BY <1>1, <1>2, <1>3 DEF PlaceInv, hostVars
  <2>2. Empty(ring')
    <3>1. CASE ring' = ring
      BY <2>1, <3>1 DEF Idle
    <3>2. CASE ring' = PutAll(ring, scopeClock')
      <4>1. ring.head \in Slots /\ ring.head = ring.tail
        BY <2>1, RingFacts DEF Idle, Empty
      <4>2. ring.head % SIZE = ring.head
        <5>1. ring.head \in 0 .. 2 * SIZE - 1 /\ ring.head < SIZE
          BY <4>1 DEF Slots
        <5> QED BY <5>1, Wrap
      <4>3. ring'.head = (ring.head + numCh) % SIZE /\ ring'.tail = ring.tail
        BY <3>2 DEF PutAll, Rings
      <4>4. ring.head + numCh = ring.head
        BY <1>3, <4>1 DEF Slots
      <4> QED BY <4>1, <4>2, <4>3, <4>4 DEF Empty
    <3> QED BY <3>1, <3>2 DEF Sample
  <2> QED BY <2>1, <2>2 DEF Idle
<1>4. CASE numCh # 0
  <2>1. InPlace /\ numCh \in 1 .. CHANNELS
    BY <1>1, <1>2, <1>4 DEF PlaceInv
  <2>2. UNCHANGED <<numCh, sc, held, tailRead, chan>>
    BY DEF hostVars, sendVars
  <2>3. DueCh' = DueCh
    BY <2>2 DEF DueCh, NextCh
  <2>4. CASE ring' = ring
    BY <1>4, <2>1, <2>2, <2>3, <2>4 DEF InPlace, Row, NextCh
  <2>5. CASE Free(ring) >= numCh /\ ring' = PutAll(ring, scopeClock')
    <3>1. scopeClock' \in Clocks
      BY ClockType DEF Sample, Clocks
    <3>2. /\ Row(ring') /\ Place(ring', DueCh) /\ ~Empty(ring') /\ ring'.tail = ring.tail
          /\ ~Empty(ring) => ring'.data[ring'.tail] = ring.data[ring.tail]
      BY <2>1, <2>5, <3>1, PutAllRow DEF InPlace
    <3>3. Row(ring)' /\ Place(ring, DueCh)' /\ ~Empty(ring)'
      BY <2>2, <2>3, <3>2 DEF Row, NextCh
    <3> QED BY <1>4, <2>1, <2>2, <3>2, <3>3 DEF InPlace
  <2> QED BY <2>4, <2>5 DEF Sample
<1> QED BY <1>3, <1>4

LEMMA TickStep == ScopeTypeOK /\ PlaceInv /\ Tick => PlaceInv'
<1> SUFFICES ASSUME ScopeTypeOK, PlaceInv, Tick PROVE PlaceInv'
  OBVIOUS
<1>0. UNCHANGED <<hostVars, sendVars, sc>>
  BY DEF Tick
<1>1. CASE Sample
  BY <1>0, <1>1, SampleStep
<1>2. CASE Between
  <2>1. UNCHANGED <<ring, running, session, numCh, sc, held, tailRead, chan>>
    BY <1>0, <1>2 DEF Between, hostVars, sendVars
  <2>2. DueCh' = DueCh /\ Row(ring)' = Row(ring)
    BY <2>1 DEF DueCh, NextCh, Row
  <2> QED BY <2>1, <2>2 DEF PlaceInv, InPlace, Idle
<1>3. CASE Clear
  <2>1. running' = 0 /\ Empty(ring') /\ sc' = sc
    BY <1>0, <1>3, EmptyRingType DEF Clear
  <2>2. session' = "fresh" => sc \in {"idle", "close"}
    BY <1>3 DEF Clear, Cleared, PlaceInv
  <2> QED BY <2>1, <2>2 DEF PlaceInv
<1> QED
  BY <1>1, <1>2, <1>3 DEF Tick

\* Turning the scope on while it is fresh begins with an empty ring.
LEMMA HostStep == ScopeTypeOK /\ PlaceInv /\ ScopeHost => PlaceInv'
<1> SUFFICES ASSUME ScopeTypeOK, PlaceInv, ScopeHost PROVE PlaceInv'
  OBVIOUS
<1> USE ScopeFacts DEF ScopeTypeOK
<1>1. CASE \E n \in RUNS \union {0} : KeepRunning(n)
  <2> PICK n \in RUNS \union {0} : KeepRunning(n)
    BY <1>1
  <2>1. UNCHANGED <<ring, numCh, sc, held, tailRead, chan>> /\ running' = n
    BY DEF KeepRunning, hostVars, sendVars
  <2>2. DueCh' = DueCh /\ Row(ring)' = Row(ring)
    BY <2>1 DEF DueCh, NextCh, Row
  <2>3. session' = IF running > 0 \/ n = 0 THEN session ELSE IF Fresh THEN "on" ELSE "skewed"
    BY DEF KeepRunning
  <2>4. CASE session' = session
    <3>1. session = "fresh" => n = 0
      BY <2>3, <2>4 DEF Fresh, PlaceInv
    <3>2. session = "on" /\ n > 0 => running > 0
      BY <2>3, <2>4 DEF Fresh
    <3> QED BY <2>1, <2>2, <2>4, <3>1, <3>2 DEF PlaceInv, InPlace, Idle
  <2>5. CASE session = "fresh" /\ session' = "on"
    <3>1. Empty(ring) /\ sc \in {"idle", "close"}
      BY <2>5 DEF PlaceInv
    <3>2. ~(\E i \in Slots : Used(ring, i))
      BY <3>1, RingFacts DEF Used, Empty, Slots
    <3>3. Row(ring) /\ Place(ring, DueCh)
      BY <3>1, <3>2 DEF Row, Place, DueCh
    <3> QED BY <2>1, <2>2, <2>5, <3>1, <3>3 DEF PlaceInv, InPlace, Idle
  <2>6. CASE session' = "skewed"
    BY <2>6 DEF PlaceInv
  <2> QED BY <2>3, <2>4, <2>5, <2>6 DEF Fresh
<1>2. CASE \/ \E n \in 0 .. CHANNELS : SetChannels(n)
           \/ \E d \in STEPS : SetDownsample(d)
  <2>1. /\ UNCHANGED <<ring, running, sc>>
        /\ session' = IF Fresh THEN session ELSE "skewed"
    BY <1>2 DEF SetChannels, SetDownsample
  <2> QED BY <2>1 DEF PlaceInv, Fresh
<1> QED
  BY <1>1, <1>2 DEF ScopeHost

\* A step of the thread that leaves the ring alone.
LEMMA MoveStep ==
  ASSUME ScopeTypeOK, PlaceInv, UNCHANGED <<ring, session, numCh>>,
         session = "fresh" => running' = 0 /\ sc' \in {"idle", "close"},
         running' > 0 => running > 0,
         session = "on" /\ running' > 0 /\ numCh = 0 => sc' \notin {"get", "step", "sent"},
         session = "on" /\ running' > 0 /\ numCh # 0 =>
           /\ DueCh' = DueCh
           /\ sc' \in {"samples", "get", "step", "sent"} => chan' < numCh
           /\ sc' \in {"get", "step"} => ~Empty(ring)
           /\ sc' = "step" => tailRead' = ring.tail /\ held' = ring.data[ring.tail]
           /\ sc' = "sent" => held'.ch = chan'
  PROVE  PlaceInv'
<1>1. Row(ring)' = Row(ring)
  BY DEF Row, NextCh
<1> QED
  BY <1>1 DEF PlaceInv, InPlace, Idle

LEMMA ThreadStep == ScopeTypeOK /\ PlaceInv /\ Thread => PlaceInv'
<1> SUFFICES ASSUME ScopeTypeOK, PlaceInv, Thread PROVE PlaceInv'
  OBVIOUS
<1> USE ScopeFacts DEF hostVars, tickVars, sendVars
<1>0. running \in Nat /\ numCh \in 0 .. CHANNELS /\ chan \in Nat
  BY DEF ScopeTypeOK
<1>1. CASE Begin
  <2>1. /\ session # "fresh" /\ running' > 0 /\ running > 0 /\ sc' = "preamble"
        /\ DueCh' = 0 /\ DueCh = 0
    BY <1>0, <1>1 DEF Begin, PlaceInv, DueCh
  <2> QED BY <1>1, <2>1, MoveStep DEF Begin
<1>2. CASE Header
  <2>1. session # "fresh" /\ running' = running /\ sc' = "samples" /\ chan' = 0
        /\ DueCh' = 0 /\ DueCh = 0
    BY <1>2 DEF Header, PlaceInv, DueCh
  <2> QED BY <1>0, <1>2, <2>1, MoveStep DEF Header
<1>3. CASE Continue
  <2>1. session # "fresh" /\ running' = running /\ sc = "samples" /\ sc' = "get" /\ ~Empty(ring)
        /\ DueCh' = chan /\ DueCh = chan /\ chan' = chan
    BY <1>3 DEF Continue, PlaceInv, DueCh
  <2>2. session = "on" /\ running > 0 => numCh # 0 /\ chan < numCh
    BY <2>1 DEF PlaceInv, Idle, InPlace
  <2> QED BY <1>3, <2>1, <2>2, MoveStep DEF Continue
<1>4. CASE Finish
  <2>1. running' = running /\ sc' = "close" /\ DueCh' = 0 /\ DueCh = chan /\ sc = "samples"
    BY <1>4 DEF Finish, DueCh
  <2>2. running > 0 => chan = 0
    BY <1>0, <1>4 DEF Finish
  <2> QED BY <1>4, <2>1, <2>2, MoveStep DEF Finish, PlaceInv
<1>5. CASE Load
  <2>1. session # "fresh" /\ running' = running /\ sc = "get" /\ chan' = chan
    BY <1>5 DEF Load, PlaceInv
  <2>2. session = "on" /\ running > 0 => numCh # 0 /\ chan < numCh /\ ~Empty(ring)
    BY <2>1 DEF PlaceInv, Idle, InPlace
  <2>3. ~Empty(ring) => /\ sc' = "step" /\ held' = ring.data[ring.tail] /\ tailRead' = ring.tail
                        /\ DueCh' = chan /\ DueCh = chan
    BY <1>5, <2>1 DEF Load, DueCh
  <2> QED BY <1>5, <2>1, <2>2, <2>3, MoveStep DEF Load
<1>6. CASE Advance
  <2>1. /\ sc = "step" /\ sc' = "sent" /\ session # "fresh"
        /\ UNCHANGED <<running, session, numCh, held, tailRead, chan>>
    BY <1>6 DEF Advance, PlaceInv
  <2>2. SUFFICES ASSUME session = "on", running > 0 PROVE (IF numCh = 0 THEN Idle ELSE InPlace)'
    BY <2>1 DEF PlaceInv
  <2>3. numCh # 0 /\ InPlace /\ numCh \in 1 .. CHANNELS
    BY <1>0, <2>1, <2>2 DEF PlaceInv, Idle
  <2>4. /\ Row(ring) /\ ~Empty(ring) /\ Place(ring, chan) /\ chan < numCh
        /\ tailRead = ring.tail /\ held = ring.data[ring.tail] /\ ring \in Rings
    BY <2>1, <2>3 DEF InPlace, DueCh, ScopeTypeOK
  <2>5. held.ch = chan
    BY <2>4 DEF Place
  <2>6. ring' = [ring EXCEPT !.tail = Succ(ring.tail), !.data[ring.tail] = NoWord]
    BY <1>6, <2>4 DEF Advance
  <2>7. Row(ring') /\ Place(ring', NextCh(chan))
    BY <2>3, <2>4, <2>5, <2>6, TakeRow
  <2>8. Row(ring)' /\ Place(ring, DueCh)'
    BY <2>1, <2>7 DEF Row, NextCh, DueCh
  <2> QED BY <2>1, <2>3, <2>4, <2>5, <2>8 DEF InPlace
<1>7. CASE Sent
  <2>1. sc = "sent" /\ session # "fresh" /\ running' = running
    BY <1>7 DEF Sent, PlaceInv
  <2>2. session = "on" /\ running > 0 => numCh # 0 /\ chan < numCh
    BY <2>1 DEF PlaceInv, Idle, InPlace
  <2>3. CASE chan + 1 >= numCh
    <3>1. chan' = 0 /\ sc' \in {"close", "samples"}
      BY <1>7, <2>3 DEF Sent
    <3>2. DueCh' = 0
      BY <3>1 DEF DueCh
    <3>3. chan < numCh => DueCh = 0
      BY <1>0, <2>1, <2>3 DEF DueCh, NextCh
    <3> QED BY <1>0, <1>7, <2>1, <2>2, <3>1, <3>2, <3>3, MoveStep DEF Sent
  <2>4. CASE ~(chan + 1 >= numCh)
    <3>1. chan' = chan + 1 /\ sc' = "samples" /\ chan + 1 < numCh
      BY <1>0, <1>7, <2>4 DEF Sent
    <3>2. DueCh' = chan + 1 /\ DueCh = chan + 1
      BY <1>0, <2>1, <3>1 DEF DueCh, NextCh
    <3> QED BY <1>7, <2>1, <2>2, <3>1, <3>2, MoveStep DEF Sent
  <2> QED BY <2>3, <2>4
<1>8. CASE Close
  <2>1. running' = running /\ sc = "close" /\ sc' = "idle" /\ DueCh' = 0 /\ DueCh = 0
    BY <1>8 DEF Close, DueCh
  <2> QED BY <1>8, <2>1, MoveStep DEF Close, PlaceInv
<1>9. CASE Stuck
  BY <1>9, MoveStep DEF Stuck
<1> QED
  BY <1>1, <1>2, <1>3, <1>4, <1>5, <1>6, <1>7, <1>8, <1>9 DEF Thread

\* While the scope is on since it was fresh, the ring holds whole samples
\* behind the word the thread is at: an overflow drops whole samples only, and
\* a packet begins and ends between two.
THEOREM PlaceInvariant == ScopeSpec => []PlaceInv
<1>1. ScopeInit => PlaceInv
  BY EmptyRingType DEF ScopeInit, PlaceInv
<1>2. ScopeTypeOK /\ PlaceInv /\ [ScopeNext]_scopeVars => PlaceInv'
  <2>1. PlaceInv /\ UNCHANGED scopeVars => PlaceInv'
    BY DEF scopeVars, PlaceInv, InPlace, Idle, Row, NextCh, DueCh
  <2> QED BY <2>1, TickStep, HostStep, ThreadStep DEF ScopeNext
<1> QED BY <1>1, <1>2, ScopeTypeCorrect, PTL DEF ScopeSpec

\* Every word of a packet is sent in the place of its channel.
THEOREM AlignedCorrect == ScopeSpec => []Aligned
<1>1. ScopeTypeOK /\ PlaceInv => Aligned
  <2> SUFFICES ASSUME ScopeTypeOK, PlaceInv, sc \in {"step", "sent"}, running > 0,
                      session # "skewed"
               PROVE  held.ch = chan
    BY DEF Aligned, Skewed
  <2>1. session = "on"
    BY DEF ScopeTypeOK, PlaceInv
  <2>2. numCh # 0 /\ InPlace
    BY <2>1 DEF PlaceInv, Idle
  <2> QED BY <2>2 DEF InPlace, Place, DueCh
<1> QED BY <1>1, ScopeTypeCorrect, PlaceInvariant, PTL

-----------------------------------------------------------------------------
(* What the header of a packet tells: fifo_clock stands for the samples    *)
(* the ring holds, and scope_clock for the newest of them.                 *)

\* What holds of the first and is passed on from each to the next holds of all.
LEMMA Chain ==
  ASSUME NEW n \in Nat, NEW S, 1 \in S, \A k \in 1 .. n - 1 : k \in S => k + 1 \in S
  PROVE  1 .. n \subseteq S
<1> DEFINE Rest == {k \in 1 .. n : k \notin S}
           R == {ss \in Nat \X Nat : ss[1] < ss[2]}
<1>1. SUFFICES ASSUME Rest # {} PROVE FALSE
  OBVIOUS
<1>2. Rest \in SUBSET Nat
  OBVIOUS
<1>3. IsWellFoundedOn(R, Nat)
  BY NatLessThanWellFounded DEF OpToRel
<1>4. PICK m \in Rest : \A k \in Rest : ~(<<k, m>> \in R)
  <2> HIDE DEF R, Rest
  <2> QED BY <1>1, <1>2, <1>3, WFMin, Zenon
<1>5. m \in 2 .. n /\ m - 1 \in 1 .. n - 1
  BY <1>4
<1>6. m - 1 \in S
  <2>1. <<m - 1, m>> \in R
    BY <1>5
  <2>2. m - 1 \notin Rest
    <3> HIDE DEF R, Rest
    <3> QED BY <1>4, <2>1
  <2> QED BY <1>5, <2>2
<1>7. m - 1 + 1 \in S
  <2> HIDE DEF Rest
  <2> QED BY <1>5, <1>6
<1> QED BY <1>4, <1>5, <1>7

-----------------------------------------------------------------------------
(* Sums of clocks. A sum and what is left of it differ by whole rounds,    *)
(* and sums that differ by whole rounds leave the same.                    *)

LEMMA Rounds == ASSUME NEW x \in Int PROVE \E j \in Int : x % CLOCK = x + j * CLOCK
<1>1. x = CLOCK * (x \div CLOCK) + (x % CLOCK) /\ x \div CLOCK \in Int
  BY ScopeFacts, SMT
<1> DEFINE q == x \div CLOCK
<1>2. q \in Int /\ x % CLOCK = x - CLOCK * q /\ CLOCK \in Int
  BY <1>1, ScopeFacts, SMT
<1> HIDE DEF q
<1>3. 0 - q \in Int /\ (0 - q) * CLOCK = 0 - CLOCK * q
  BY <1>2, SMT
<1>4. x % CLOCK = x + (0 - q) * CLOCK
  BY <1>2, <1>3
<1> QED BY <1>3, <1>4

LEMMA NoRound ==
  ASSUME NEW j \in Int, 0 - CLOCK < j * CLOCK, j * CLOCK < CLOCK
  PROVE  j = 0
<1>1. CASE j >= 1
  <2>1. j * CLOCK >= CLOCK
    BY <1>1, ScopeFacts, SMT
  <2> QED BY <2>1, ScopeFacts
<1>2. CASE j <= 0 - 1
  <2>1. j * CLOCK <= 0 - CLOCK
    BY <1>2, ScopeFacts, SMT
  <2> QED BY <2>1, ScopeFacts
<1> QED BY <1>1, <1>2

LEMMA SameRest ==
  ASSUME NEW x \in Int, NEW y \in Int, NEW j \in Int, x = y + j * CLOCK
  PROVE  x % CLOCK = y % CLOCK
<1>1. PICK a \in Int : x % CLOCK = x + a * CLOCK
  BY Rounds
<1>2. PICK b \in Int : y % CLOCK = y + b * CLOCK
  BY Rounds
<1>3. x % CLOCK \in 0 .. CLOCK - 1 /\ y % CLOCK \in 0 .. CLOCK - 1
  BY ClockType DEF Clocks
<1>4. (j + a - b) * CLOCK = j * CLOCK + a * CLOCK - b * CLOCK
  BY ScopeFacts, SMT
<1> DEFINE d == j + a - b
<1>5. d \in Int /\ d * CLOCK = (x % CLOCK) - (y % CLOCK)
  <2> DEFINE ja == j * CLOCK
             aa == a * CLOCK
             bb == b * CLOCK
  <2>1. ja \in Int /\ aa \in Int /\ bb \in Int /\ d \in Int /\ d * CLOCK = ja + aa - bb
    BY <1>4, ScopeFacts
  <2>2. x = y + ja /\ x % CLOCK = x + aa /\ y % CLOCK = y + bb
    BY <1>1, <1>2
  <2> HIDE DEF d, ja, aa, bb
  <2> QED BY <2>1, <2>2
<1> HIDE DEF d
<1>6. d = 0
  <2>1. 0 - CLOCK < d * CLOCK /\ d * CLOCK < CLOCK
    BY <1>3, <1>5, ScopeFacts
  <2> QED BY <1>5, <2>1, NoRound
<1>7. (x % CLOCK) - (y % CLOCK) = 0
  BY <1>5, <1>6, ScopeFacts
<1> QED BY <1>3, <1>7, ScopeFacts

-----------------------------------------------------------------------------
(* The words of a ring one by one.                                         *)

\* The slot of the k-th word.
SlotOf(f, k) == IF f.tail + k - 1 < SIZE THEN f.tail + k - 1 ELSE f.tail + k - 1 - SIZE

LEMMA Slotted ==
  ASSUME NEW f \in Rings, NEW k \in 1 .. Busy(f)
  PROVE  /\ SlotOf(f, k) \in Slots /\ Used(f, SlotOf(f, k))
         /\ Contents(f)[k] = f.data[SlotOf(f, k)]
         /\ k = 1 => SlotOf(f, k) = f.tail
         /\ k < Busy(f) => /\ Succ(SlotOf(f, k)) = SlotOf(f, k + 1)
                           /\ Succ(SlotOf(f, k)) # f.head
         /\ k = Busy(f) => /\ Succ(SlotOf(f, k)) = f.head
                           /\ SlotOf(f, k) = (SIZE + f.head - 1) % SIZE
<1> USE ScopeFacts
<1>1. f.head \in 0 .. SIZE - 1 /\ f.tail \in 0 .. SIZE - 1
  BY RingFacts DEF Slots
<1>2. Busy(f) = IF f.head >= f.tail THEN f.head - f.tail ELSE SIZE + f.head - f.tail
  BY BusyWraps
<1>3. SlotOf(f, k) \in Slots /\ (k = 1 => SlotOf(f, k) = f.tail)
  BY <1>1, <1>2 DEF SlotOf, Slots
<1>4. Used(f, SlotOf(f, k))
  BY <1>1, <1>2 DEF SlotOf, Used
<1>5. Succ(SlotOf(f, k)) = IF SlotOf(f, k) + 1 = SIZE THEN 0 ELSE SlotOf(f, k) + 1
  BY <1>3, SuccWraps
<1>6. k < Busy(f) => Succ(SlotOf(f, k)) = SlotOf(f, k + 1) /\ Succ(SlotOf(f, k)) # f.head
  BY <1>1, <1>2, <1>5 DEF SlotOf
<1>7. k = Busy(f) => Succ(SlotOf(f, k)) = f.head
  BY <1>1, <1>2, <1>5 DEF SlotOf
<1>8. ASSUME k = Busy(f) PROVE SlotOf(f, k) = (SIZE + f.head - 1) % SIZE
  <2>1. SIZE + f.head - 1 \in 0 .. 2 * SIZE - 1
    BY <1>1
  <2>2. (SIZE + f.head - 1) % SIZE
          = IF SIZE + f.head - 1 < SIZE THEN SIZE + f.head - 1 ELSE SIZE + f.head - 1 - SIZE
    BY <1>1, <2>1, Wrap
  <2> QED BY <1>1, <1>2, <1>8, <2>2 DEF SlotOf
<1>9. Contents(f)[k] = f.data[SlotOf(f, k)]
  <2>1. f.tail + k - 1 \in 0 .. 2 * SIZE - 1
    BY <1>1, <1>2
  <2>2. (f.tail + k - 1) % SIZE = SlotOf(f, k)
    BY <1>1, <2>1, Wrap DEF SlotOf
  <2>3. Contents(f)[k] = f.data[(f.tail + k - 1) % SIZE]
    BY DEF Contents
  <2> QED BY <2>2, <2>3
<1> QED BY <1>3, <1>4, <1>6, <1>7, <1>8, <1>9

\* Samples put in where there is room are as many more.
LEMMA PutAllBusy ==
  ASSUME NEW f \in Rings, NEW clk \in Clocks, numCh \in 0 .. CHANNELS, Free(f) >= numCh
  PROVE  Busy(PutAll(f, clk)) = Busy(f) + numCh
<1> DEFINE g == PutAll(f, clk)
<1> USE ScopeFacts
<1>1. f.head \in 0 .. SIZE - 1 /\ f.tail \in 0 .. SIZE - 1
  BY RingFacts DEF Slots
<1>2. Busy(f) = IF f.head >= f.tail THEN f.head - f.tail ELSE SIZE + f.head - f.tail
  BY BusyWraps
<1>3. Busy(f) \in Nat /\ Busy(f) + numCh < SIZE
  <2>1. Free(f) + Busy(f) = SIZE - 1 /\ Busy(f) \in 0 .. SIZE - 1
    BY FreeAndBusy, BusyWraps DEF Slots
  <2>2. Free(f) \in Int
    BY <1>1 DEF Free
  <2> QED BY <2>1, <2>2
<1>4. g.tail = f.tail /\ g.head = (f.head + numCh) % SIZE /\ g \in Rings
  BY PutAllType DEF PutAll, Rings
<1> HIDE DEF g
<1>5. f.head + numCh \in 0 .. 2 * SIZE - 1
  BY <1>1, <1>2, <1>3
<1>6. g.head = IF f.head + numCh < SIZE THEN f.head + numCh ELSE f.head + numCh - SIZE
  <2>1. (f.head + numCh) % SIZE
          = IF f.head + numCh < SIZE THEN f.head + numCh ELSE f.head + numCh - SIZE
    <3> DEFINE h == f.head + numCh
    <3>1. h \in 0 .. 2 * SIZE - 1
      BY <1>5
    <3> HIDE DEF h
    <3>2. h % SIZE = IF h < SIZE THEN h ELSE h - SIZE
      BY <3>1, Wrap
    <3> QED BY <1>1, <3>2 DEF h
  <2> QED BY <1>4, <2>1
<1>7. Busy(g) = IF g.head >= g.tail THEN g.head - g.tail ELSE SIZE + g.head - g.tail
  BY <1>4, BusyWraps
<1>8. Busy(g) = Busy(f) + numCh
  BY <1>1, <1>2, <1>3, <1>4, <1>6, <1>7
<1> QED BY <1>8 DEF g

\* Taking the oldest word leaves one less.
LEMMA TakeBusy ==
  ASSUME NEW f \in Rings, ~Empty(f)
  PROVE  LET g == [f EXCEPT !.tail = Succ(f.tail), !.data[f.tail] = NoWord] IN
         Busy(g) = Busy(f) - 1
<1> DEFINE g == [f EXCEPT !.tail = Succ(f.tail), !.data[f.tail] = NoWord]
<1> USE ScopeFacts
<1>1. /\ f.head \in 0 .. SIZE - 1 /\ f.tail \in 0 .. SIZE - 1 /\ f.tail \in Slots
      /\ f.head # f.tail
  BY RingFacts DEF Slots, Empty
<1>2. Succ(f.tail) \in Slots /\ Succ(f.tail) = IF f.tail + 1 = SIZE THEN 0 ELSE f.tail + 1
  BY <1>1, SuccWraps
<1>3. g \in Rings /\ g.head = f.head /\ g.tail = Succ(f.tail)
  BY <1>1, <1>2, WordType DEF Rings
<1> HIDE DEF g
<1>4. /\ Busy(f) = IF f.head >= f.tail THEN f.head - f.tail ELSE SIZE + f.head - f.tail
      /\ Busy(g) = IF g.head >= g.tail THEN g.head - g.tail ELSE SIZE + g.head - g.tail
  BY <1>3, BusyWraps
<1>5. Busy(g) = Busy(f) - 1
  BY <1>1, <1>2, <1>3, <1>4
<1> QED BY <1>5 DEF g

\* The k-th word c is of the sample p after one taken at clk.
Stands(c, k, clk, p) ==
  k = p * numCh + c.ch + 1 /\ \E m \in Int : c.clk + m * CLOCK = clk + p * down

\* In a ring without a gap the newest word is behind as many samples as the
\* ring holds, and each is a step of the clock after the one before.
LEMMA Spread ==
  ASSUME ScopeTypeOK, numCh # 0, Row(ring), Place(ring, 0), ~Empty(ring), Gapless
  PROVE  \E p \in Nat : /\ Busy(ring) = (p + 1) * numCh
                        /\ \E m \in Int : Newest.clk + m * CLOCK = Oldest.clk + p * down
<1> DEFINE c == Contents(ring)
           S == {k \in 1 .. Busy(ring) : \E p \in Nat : Stands(c[k], k, Oldest.clk, p)}
<1> USE ScopeFacts
<1>1. /\ ring \in Rings /\ numCh \in 1 .. CHANNELS /\ down \in Nat
      /\ Busy(ring) \in Nat /\ Busy(ring) >= 1
  BY BusyWraps, FreeAndBusy DEF ScopeTypeOK, Slots
<1>2. ASSUME NEW k \in 1 .. Busy(ring)
      PROVE  c[k] = ring.data[SlotOf(ring, k)] /\ c[k].clk \in Nat /\ c[k].ch \in Nat
  <2>1. SlotOf(ring, k) \in Slots /\ c[k] = ring.data[SlotOf(ring, k)]
    BY <1>1, <1>2, Slotted
  <2>2. c[k] \in Samples
    BY <1>1, <2>1, RingFacts
  <2> HIDE DEF c
  <2>3. c[k].clk \in 0 .. CLOCK - 1 /\ c[k].ch \in 0 .. CHANNELS - 1
    BY <2>2 DEF Samples, Clocks
  <2> QED BY <2>1, <2>3
<1>3. 1 \in 1 .. Busy(ring) /\ c[1] = Oldest /\ c[1].ch = 0
  <2>1. 1 \in 1 .. Busy(ring)
    BY <1>1
  <2>2. SlotOf(ring, 1) = ring.tail
    BY <1>1, <2>1, Slotted
  <2>3. c[1] = Oldest
    BY <1>2, <2>1, <2>2 DEF Oldest
  <2>4. Oldest.ch = 0
    BY DEF Place, Oldest
  <2> HIDE DEF c
  <2> QED BY <2>1, <2>3, <2>4
<1>4. 1 \in S
  <2>1. 1 = 0 * numCh + c[1].ch + 1 /\ c[1].clk + 0 * CLOCK = Oldest.clk + 0 * down
    BY <1>1, <1>2, <1>3
  <2> HIDE DEF c
  <2>2. \E m \in Int : c[1].clk + m * CLOCK = Oldest.clk + 0 * down
    <3> WITNESS 0 \in Int
    <3> QED BY <2>1
  <2>3. Stands(c[1], 1, Oldest.clk, 0)
    BY <2>1, <2>2 DEF Stands
  <2> QED BY <1>3, <2>3
<1>5. ASSUME NEW k \in 1 .. Busy(ring) - 1, k \in S PROVE k + 1 \in S
  <2>1. k \in 1 .. Busy(ring) /\ k + 1 \in 1 .. Busy(ring) /\ k \in 1 .. Len(c) - 1
    <3>1. Len(c) = Busy(ring)
      BY <1>1, ContentsType
    <3> HIDE DEF c, S
    <3> QED BY <1>1, <3>1
  <2>2. c[k + 1].ch = NextCh(c[k].ch)
    <3>1. /\ SlotOf(ring, k) \in Slots /\ Used(ring, SlotOf(ring, k))
          /\ Succ(SlotOf(ring, k)) = SlotOf(ring, k + 1) /\ Succ(SlotOf(ring, k)) # ring.head
      BY <1>1, <2>1, Slotted
    <3>2. ring.data[SlotOf(ring, k + 1)].ch = NextCh(ring.data[SlotOf(ring, k)].ch)
      BY <3>1 DEF Row
    <3> HIDE DEF c
    <3> QED BY <1>2, <2>1, <3>2
  <2>3. c[k + 1].clk = (c[k].clk + (IF c[k + 1].ch = 0 THEN down ELSE 0)) % CLOCK
    BY <2>1 DEF Gapless
  <2>4. PICK p \in Nat : Stands(c[k], k, Oldest.clk, p)
    <3> HIDE DEF c
    <3> QED BY <1>5
  <2>5. PICK m \in Int : c[k].clk + m * CLOCK = Oldest.clk + p * down
    BY <2>4 DEF Stands
  <2>6. k = p * numCh + c[k].ch + 1
    BY <2>4 DEF Stands
  <2> DEFINE d == IF c[k + 1].ch = 0 THEN down ELSE 0
  <2>7. /\ c[k].clk \in Nat /\ c[k].ch \in Nat /\ c[k + 1].clk \in Nat /\ c[k + 1].ch \in Nat
        /\ Oldest.clk \in Nat
    BY <1>2, <1>3, <2>1
  <2>8. c[k].clk + d \in Int
    BY <1>1, <2>7
  <2>9. PICK j \in Int : c[k + 1].clk = c[k].clk + d + j * CLOCK
    <3> HIDE DEF c, d
    <3>1. \E j \in Int : (c[k].clk + d) % CLOCK = (c[k].clk + d) + j * CLOCK
      BY <2>8, Rounds
    <3>2. c[k + 1].clk = (c[k].clk + d) % CLOCK
      BY <2>3 DEF d
    <3> QED BY <3>1, <3>2
  <2>10. c[k + 1].clk + (m - j) * CLOCK = Oldest.clk + p * down + d
    <3> DEFINE mc == m * CLOCK
               jc == j * CLOCK
               pd == p * down
    <3>1. /\ (m - j) * CLOCK = mc - jc /\ mc \in Int /\ jc \in Int /\ pd \in Int /\ d \in Int
      BY <1>1
    <3>2. c[k].clk + mc = Oldest.clk + pd /\ c[k + 1].clk = c[k].clk + d + jc
      BY <2>5, <2>9
    <3> HIDE DEF c, d, mc, jc, pd
    <3>3. c[k + 1].clk + (mc - jc) = Oldest.clk + pd + d
      BY <2>7, <3>1, <3>2
    <3> QED BY <3>1, <3>3 DEF pd
  <2>11. m - j \in Int
    OBVIOUS
  <2>12. CASE c[k].ch + 1 = numCh
    <3>1. c[k + 1].ch = 0 /\ d = down
      BY <2>2, <2>12 DEF NextCh
    <3>2. (p + 1) * numCh = p * numCh + numCh /\ (p + 1) * down = p * down + down
      BY <1>1
    <3>3. k + 1 = (p + 1) * numCh + c[k + 1].ch + 1
      <4> DEFINE pn == p * numCh
      <4>1. pn \in Int /\ k = pn + c[k].ch + 1 /\ (p + 1) * numCh = pn + numCh
        BY <1>1, <2>6, <3>2
      <4> HIDE DEF c, pn
      <4> QED BY <1>1, <2>7, <2>12, <3>1, <4>1
    <3>4. c[k + 1].clk + (m - j) * CLOCK = Oldest.clk + (p + 1) * down
      <4> DEFINE pd == p * down
      <4>1. pd \in Int /\ (p + 1) * down = pd + down
        BY <1>1, <3>2
      <4>2. c[k + 1].clk + (m - j) * CLOCK = Oldest.clk + pd + down
        BY <2>10, <3>1
      <4> HIDE DEF c, d, pd
      <4>3. Oldest.clk + pd + down = Oldest.clk + (pd + down)
        BY <1>1, <2>7, <4>1
      <4> QED BY <4>1, <4>2, <4>3
    <3> HIDE DEF c
    <3>5. Stands(c[k + 1], k + 1, Oldest.clk, p + 1)
      BY <2>11, <3>3, <3>4 DEF Stands
    <3> QED BY <2>1, <3>5
  <2>13. CASE c[k].ch + 1 # numCh
    <3>1. c[k + 1].ch = c[k].ch + 1 /\ c[k + 1].ch # 0 /\ d = 0
      BY <2>2, <2>7, <2>13 DEF NextCh
    <3>2. k + 1 = p * numCh + c[k + 1].ch + 1
      <4> DEFINE pn == p * numCh
      <4>1. pn \in Int /\ k = pn + c[k].ch + 1
        BY <1>1, <2>6
      <4> HIDE DEF c, pn
      <4>2. k + 1 = pn + c[k + 1].ch + 1
        BY <2>7, <3>1, <4>1
      <4> QED BY <4>2 DEF pn
    <3>3. c[k + 1].clk + (m - j) * CLOCK = Oldest.clk + p * down
      <4> DEFINE pd == p * down
      <4>1. pd \in Int
        BY <1>1
      <4>2. c[k + 1].clk + (m - j) * CLOCK = Oldest.clk + pd + 0
        BY <2>10, <3>1
      <4> HIDE DEF c, d, pd
      <4>3. Oldest.clk + pd + 0 = Oldest.clk + pd
        BY <2>7, <4>1
      <4> QED BY <4>2, <4>3 DEF pd
    <3> HIDE DEF c
    <3>4. Stands(c[k + 1], k + 1, Oldest.clk, p)
      BY <2>11, <3>2, <3>3 DEF Stands
    <3> QED BY <2>1, <3>4
  <2> QED BY <2>12, <2>13
<1>6. Busy(ring) \in S
  <2> HIDE DEF S
  <2>1. 1 .. Busy(ring) \subseteq S
    BY <1>1, <1>4, <1>5, Chain
  <2> QED BY <1>1, <2>1
<1> DEFINE last == c[Busy(ring)]
<1>7. PICK p \in Nat : Stands(last, Busy(ring), Oldest.clk, p)
  BY <1>6
<1>8. last = Newest /\ last.ch = numCh - 1
  <2>1. Busy(ring) \in 1 .. Busy(ring)
    BY <1>1
  <2>2. /\ SlotOf(ring, Busy(ring)) \in Slots /\ Used(ring, SlotOf(ring, Busy(ring)))
        /\ Succ(SlotOf(ring, Busy(ring))) = ring.head
        /\ SlotOf(ring, Busy(ring)) = (SIZE + ring.head - 1) % SIZE
    BY <1>1, <2>1, Slotted
  <2>3. ring.data[SlotOf(ring, Busy(ring))].ch = numCh - 1
    BY <2>2 DEF Row
  <2>4. last = ring.data[SlotOf(ring, Busy(ring))]
    BY <1>2, <2>1
  <2> HIDE DEF last
  <2> QED BY <2>2, <2>3, <2>4 DEF Newest
<1> HIDE DEF last, c, S
<1>9. Busy(ring) = (p + 1) * numCh
  <2> DEFINE pn == p * numCh
  <2>1. pn \in Int /\ (p + 1) * numCh = pn + numCh
    BY <1>1
  <2>2. Busy(ring) = pn + (numCh - 1) + 1
    BY <1>7, <1>8 DEF Stands
  <2> HIDE DEF pn
  <2> QED BY <1>1, <2>1, <2>2
<1>10. \E m \in Int : Newest.clk + m * CLOCK = Oldest.clk + p * down
  BY <1>7, <1>8, Zenon DEF Stands
<1> QED BY <1>9, <1>10

-----------------------------------------------------------------------------
(* The samples the clock stands for.                                       *)

\* The words of the sample under way that the thread has taken.
Taken == CASE sc \in {"samples", "get", "step"} -> chan
           [] sc = "sent" -> chan + 1
           [] OTHER -> 0

\* fifo_clock is a step of the clock for each sample in the ring, the one under
\* way included, modulo its size.
Accounted ==
  \E n \in Nat : /\ Busy(ring) + Taken = n * numCh
                 /\ \E m \in Int : fifoClock + m * CLOCK = n * down

\* While the scope is on since it was fresh. Once it is turned off before a packet
\* has begun, the ring is as it was, until the interrupt empties it.
ClockInv ==
  /\ session = "fresh" => fifoClock = 0
  /\ session = "on" /\ running > 0 /\ numCh # 0 => Accounted
  /\ session = "on" /\ sc = "preamble" /\ ~Empty(ring) =>
       numCh # 0 /\ Row(ring) /\ Place(ring, 0) /\ Accounted

\* A sample more, or one less, leaves the clock accounted for.
LEMMA StepAccounted ==
  ASSUME ScopeTypeOK, NEW n \in Nat, NEW f \in Clocks, NEW m \in Int, f + m * CLOCK = n * down
  PROVE  /\ \E j \in Int : ((f + down) % CLOCK) + j * CLOCK = (n + 1) * down
         /\ \E j \in Int : ((f - down) % CLOCK) + j * CLOCK = (n - 1) * down
<1> USE ScopeFacts
<1>1. down \in Nat /\ f \in Nat
  BY DEF ScopeTypeOK, Clocks
<1> DEFINE up == f + down
<1>2. PICK a \in Int : up % CLOCK = up + a * CLOCK
  <2>1. up \in Int
    BY <1>1
  <2> HIDE DEF up
  <2> QED BY <2>1, Rounds
<1>3. PICK b \in Int : (f - down) % CLOCK = (f - down) + b * CLOCK
  BY <1>1, Rounds
<1> DEFINE mc == m * CLOCK
           ac == a * CLOCK
           bc == b * CLOCK
           nd == n * down
<1>4. /\ mc \in Int /\ ac \in Int /\ bc \in Int /\ nd \in Int
      /\ (m - a) * CLOCK = mc - ac /\ (m - b) * CLOCK = mc - bc
      /\ (n + 1) * down = nd + down /\ (n - 1) * down = nd - down
      /\ m - a \in Int /\ m - b \in Int
  BY <1>1
<1>5. f + mc = nd /\ (f + down) % CLOCK = (f + down) + ac /\ (f - down) % CLOCK = (f - down) + bc
  BY <1>2, <1>3
<1> HIDE DEF mc, ac, bc, nd
<1>6. ((f + down) % CLOCK) + (m - a) * CLOCK = (n + 1) * down
  BY <1>1, <1>4, <1>5
<1>7. ((f - down) % CLOCK) + (m - b) * CLOCK = (n - 1) * down
  BY <1>1, <1>4, <1>5
<1> QED BY <1>4, <1>6, <1>7

LEMMA TakenType == ScopeTypeOK => Taken \in Nat /\ Busy(ring) \in Nat
BY ScopeFacts, BusyWraps DEF ScopeTypeOK, Taken, Slots

\* The interrupt puts a sample in or empties the ring; the host begins with an
\* empty one.
LEMMA TickClock == ScopeTypeOK /\ PlaceInv /\ ClockInv /\ Tick => ClockInv'
<1> SUFFICES ASSUME ScopeTypeOK, PlaceInv, ClockInv, Tick PROVE ClockInv'
  OBVIOUS
<1> USE ScopeFacts
<1>0. UNCHANGED <<numCh, down, sc, chan>> /\ Taken' = Taken
  BY DEF Tick, hostVars, sendVars, Taken
<1>1. CASE Sample
  <2>0. session' = session /\ session # "fresh" /\ running > 0 /\ sc' = sc
    BY <1>0, <1>1 DEF Sample, PlaceInv, ScopeTypeOK
  <2>1. SUFFICES ASSUME session = "on" PROVE ClockInv'
    BY <2>0 DEF ClockInv
  <2>2. CASE UNCHANGED <<ring, fifoClock>>
    <3>1. Accounted' = Accounted
      BY <1>0, <2>2 DEF Accounted
    <3>2. Row(ring)' = Row(ring) /\ Place(ring, 0)' = Place(ring, 0) /\ Empty(ring)' = Empty(ring)
      BY <1>0, <2>2 DEF Row, NextCh, Place, Empty
    <3> QED BY <1>0, <2>0, <3>1, <3>2 DEF ClockInv
  <2>3. CASE /\ Free(ring) >= numCh /\ ring' = PutAll(ring, scopeClock')
             /\ fifoClock' = (fifoClock + down) % CLOCK /\ running' = running
    <3>1. CASE numCh = 0
      <4>1. Idle' /\ numCh' = 0
        BY <1>0, <1>1, <2>0, <2>1, <2>3, <3>1, SampleStep DEF PlaceInv, Tick
      <4> QED BY <1>0, <2>0, <4>1 DEF ClockInv, Idle
    <3>2. CASE numCh # 0
      <4>1. PICK n \in Nat : /\ Busy(ring) + Taken = n * numCh
                             /\ \E m \in Int : fifoClock + m * CLOCK = n * down
        BY <2>0, <2>1, <3>2 DEF ClockInv, Accounted
      <4>2. \E m \in Int : fifoClock' + m * CLOCK = (n + 1) * down
        BY <2>3, <4>1, StepAccounted DEF ScopeTypeOK
      <4>3. Busy(ring') + Taken = (n + 1) * numCh
        <5>1. scopeClock' \in Clocks
          BY <1>1, ClockType DEF Sample, Clocks, ScopeTypeOK
        <5>2. Busy(ring') = Busy(ring) + numCh
          BY <2>3, <5>1, PutAllBusy DEF ScopeTypeOK
        <5> DEFINE nn == n * numCh
        <5>3. nn \in Int /\ (n + 1) * numCh = nn + numCh /\ numCh \in Int
          BY DEF ScopeTypeOK
        <5>4. Busy(ring) + Taken = nn
          BY <4>1
        <5> HIDE DEF nn
        <5> QED BY <5>2, <5>3, <5>4, TakenType
      <4>4. Accounted'
        <5>1. Busy(ring)' + Taken' = (n + 1) * numCh' /\ n + 1 \in Nat
          BY <1>0, <4>3
        <5>2. \E m \in Int : fifoClock' + m * CLOCK = (n + 1) * down'
          BY <1>0, <4>2
        <5> QED BY <5>1, <5>2, Zenon DEF Accounted
      <4>5. InPlace'
        BY <1>0, <1>1, <2>0, <2>1, <2>3, <3>2, SampleStep DEF PlaceInv, Tick
      <4>6. sc = "preamble" => DueCh' = 0
        BY <1>0 DEF DueCh
      <4>7. sc = "preamble" => Row(ring)' /\ Place(ring, 0)'
        BY <4>5, <4>6, Zenon DEF InPlace, Place
      <4> QED BY <1>0, <2>0, <3>2, <4>4, <4>7 DEF ClockInv
    <3> QED BY <3>1, <3>2
  <2> QED BY <1>1, <2>2, <2>3 DEF Sample
<1>2. CASE Between
  <2>1. UNCHANGED <<ring, fifoClock, running, session>>
    BY <1>2 DEF Between
  <2>2. Accounted' = Accounted /\ Row(ring)' = Row(ring)
    BY <1>0, <2>1 DEF Accounted, Row, NextCh
  <2> QED BY <1>0, <2>1, <2>2 DEF ClockInv, Place, Empty
<1>3. CASE Clear
  <2>1. running' = 0 /\ Empty(ring') /\ fifoClock' = 0
    BY <1>3, EmptyRingType DEF Clear
  <2> QED BY <2>1 DEF ClockInv
<1> QED BY <1>1, <1>2, <1>3 DEF Tick

LEMMA HostClock == ScopeTypeOK /\ PlaceInv /\ ClockInv /\ ScopeHost => ClockInv'
<1> SUFFICES ASSUME ScopeTypeOK, PlaceInv, ClockInv, ScopeHost PROVE ClockInv'
  OBVIOUS
<1> USE ScopeFacts
<1>1. CASE \E n \in RUNS \union {0} : KeepRunning(n)
  <2> PICK n \in RUNS \union {0} : KeepRunning(n)
    BY <1>1
  <2>1. UNCHANGED <<ring, fifoClock, numCh, down, sc, chan>> /\ running' = n
    BY DEF KeepRunning, hostVars, sendVars
  <2>2. Taken' = Taken /\ Row(ring)' = Row(ring)
    BY <2>1 DEF Taken, Row, NextCh
  <2>3. Accounted' = Accounted
    BY <2>1, <2>2 DEF Accounted
  <2>4. session' = IF running > 0 \/ n = 0 THEN session ELSE IF Fresh THEN "on" ELSE "skewed"
    BY DEF KeepRunning
  <2>5. CASE session' = session
    <3>1. session = "on" /\ n > 0 => running > 0
      BY <2>4, <2>5 DEF Fresh, ScopeTypeOK
    <3> QED BY <2>1, <2>2, <2>3, <2>5, <3>1 DEF ClockInv, Place, Empty
  <2>6. CASE session = "fresh" /\ session' = "on"
    <3>1. Empty(ring) /\ sc \in {"idle", "close"} /\ fifoClock = 0
      BY <2>6 DEF PlaceInv, ClockInv
    <3>2. Busy(ring) = 0 /\ Taken = 0
      BY <3>1, FreeAndBusy DEF ScopeTypeOK, Taken
    <3>3. Busy(ring) + Taken = 0 * numCh /\ fifoClock + 0 * CLOCK = 0 * down
      BY <3>1, <3>2 DEF ScopeTypeOK
    <3>4. \E m \in Int : fifoClock + m * CLOCK = 0 * down
      <4> WITNESS 0 \in Int
      <4> QED BY <3>3
    <3>5. Accounted
      BY <3>3, <3>4 DEF Accounted
    <3> QED BY <2>1, <2>3, <2>6, <3>1, <3>5 DEF ClockInv
  <2>7. CASE session' = "skewed"
    BY <2>7 DEF ClockInv
  <2> QED BY <2>4, <2>5, <2>6, <2>7 DEF Fresh
<1>2. CASE \/ \E n \in 0 .. CHANNELS : SetChannels(n)
           \/ \E d \in STEPS : SetDownsample(d)
  <2>1. /\ UNCHANGED <<fifoClock, running, sc>>
        /\ session' = IF Fresh THEN session ELSE "skewed"
    BY <1>2 DEF SetChannels, SetDownsample
  <2> QED BY <2>1 DEF ClockInv, Fresh
<1> QED BY <1>1, <1>2 DEF ScopeHost

\* A step of the thread that leaves the ring and the count of its samples alone.
LEMMA MoveClock ==
  ASSUME ScopeTypeOK, PlaceInv, ClockInv,
         UNCHANGED <<ring, session, numCh, down, fifoClock>>,
         session = "fresh" \/ sc' # "preamble",
         session = "on" /\ running' > 0 /\ numCh # 0 => running > 0 /\ Taken' = Taken
  PROVE  ClockInv'
<1>1. session = "on" /\ running' > 0 /\ numCh # 0 => Accounted'
  <2> SUFFICES ASSUME session = "on", running' > 0, numCh # 0 PROVE Accounted'
    OBVIOUS
  <2>1. Accounted /\ Taken' = Taken
    BY DEF ClockInv
  <2> QED BY <2>1 DEF Accounted
<1> QED BY <1>1 DEF ClockInv

\* A word leaves the ring for the sample under way, and the clock goes back a step
\* with the last of them.
LEMMA ThreadClock == ScopeTypeOK /\ PlaceInv /\ ClockInv /\ Thread => ClockInv'
<1> SUFFICES ASSUME ScopeTypeOK, PlaceInv, ClockInv, Thread PROVE ClockInv'
  OBVIOUS
<1> USE ScopeFacts DEF hostVars, tickVars, sendVars
<1>0. running \in Nat /\ numCh \in 0 .. CHANNELS /\ chan \in Nat /\ down \in Nat
      /\ ring \in Rings /\ fifoClock \in Clocks
  BY DEF ScopeTypeOK
<1>1. CASE Begin
  <2>1. /\ session # "fresh" /\ running > 0 /\ sc = "idle" /\ sc' = "preamble"
        /\ UNCHANGED <<ring, session, numCh, down, fifoClock, chan>>
    BY <1>0, <1>1 DEF Begin, PlaceInv
  <2>2. Taken' = 0 /\ Taken = 0 /\ DueCh = 0 /\ Row(ring)' = Row(ring)
    BY <2>1 DEF Taken, DueCh, Row, NextCh
  <2>3. Accounted' = Accounted
    BY <2>1, <2>2 DEF Accounted
  <2>4. session = "on" /\ ~Empty(ring) => numCh # 0 /\ Row(ring) /\ Place(ring, 0) /\ Accounted
    BY <2>1, <2>2 DEF PlaceInv, ClockInv, Idle, InPlace
  <2> QED BY <2>1, <2>2, <2>3, <2>4 DEF ClockInv, Place, Empty
<1>2. CASE Header
  <2>1. running' = running /\ sc = "preamble" /\ sc' = "samples" /\ chan' = 0
        /\ UNCHANGED <<ring, session, numCh, down, fifoClock>>
    BY <1>2 DEF Header
  <2>2. Taken' = 0 /\ Taken = 0
    BY <2>1 DEF Taken
  <2> QED BY <2>1, <2>2, MoveClock
<1>3. CASE Continue
  <2>1. running' = running /\ sc = "samples" /\ sc' = "get"
        /\ UNCHANGED <<ring, session, numCh, down, fifoClock, chan>>
    BY <1>3 DEF Continue
  <2>2. Taken' = Taken
    BY <2>1 DEF Taken
  <2> QED BY <2>1, <2>2, MoveClock
<1>4. CASE Finish
  <2>1. running' = running /\ sc = "samples" /\ sc' = "close"
        /\ UNCHANGED <<ring, session, numCh, down, fifoClock>>
    BY <1>4 DEF Finish
  <2>2. running > 0 => Taken = 0 /\ Taken' = 0
    BY <1>0, <1>4, <2>1 DEF Finish, Taken
  <2> QED BY <2>1, <2>2, MoveClock
<1>5. CASE Load
  <2>1. running' = running /\ sc = "get" /\ sc' \in {"sent", "step"}
        /\ UNCHANGED <<ring, session, numCh, down, fifoClock, chan>>
    BY <1>5 DEF Load
  <2>2. session = "on" /\ running > 0 /\ numCh # 0 => sc' = "step"
    BY <1>5, <2>1 DEF PlaceInv, InPlace, Load
  <2>3. sc' = "step" => Taken' = Taken
    BY <2>1 DEF Taken
  <2> QED BY <2>1, <2>2, <2>3, MoveClock
<1>6. CASE Advance
  <2>1. /\ sc = "step" /\ sc' = "sent" /\ session # "fresh"
        /\ UNCHANGED <<running, session, numCh, down, fifoClock, chan>>
    BY <1>6 DEF Advance, PlaceInv
  <2>2. SUFFICES ASSUME session = "on", running > 0, numCh # 0 PROVE Accounted'
    BY <2>1 DEF ClockInv
  <2>3. Accounted /\ ~Empty(ring) /\ tailRead = ring.tail
    BY <2>1, <2>2 DEF ClockInv, PlaceInv, InPlace
  <2>4. ring' = [ring EXCEPT !.tail = Succ(ring.tail), !.data[ring.tail] = NoWord]
    BY <1>6, <2>3 DEF Advance
  <2>5. Busy(ring') = Busy(ring) - 1
    BY <1>0, <2>3, <2>4, TakeBusy
  <2>6. Taken' = Taken + 1
    BY <2>1 DEF Taken
  <2>7. Busy(ring)' + Taken' = Busy(ring) + Taken
    BY <2>5, <2>6, TakenType
  <2> QED BY <2>1, <2>3, <2>7 DEF Accounted
<1>7. CASE Sent
  <2>1. /\ sc = "sent" /\ sc' # "preamble" /\ session # "fresh"
        /\ UNCHANGED <<running, session, numCh, down, ring>>
    BY <1>7 DEF Sent, PlaceInv
  <2>2. session = "on" /\ running > 0 /\ numCh # 0 => chan < numCh
    BY <2>1 DEF PlaceInv, InPlace
  <2>3. CASE chan + 1 >= numCh
    <3>1. SUFFICES ASSUME session = "on", running > 0, numCh # 0 PROVE Accounted'
      BY <2>1 DEF ClockInv
    <3>2. Taken = numCh /\ Taken' = 0 /\ fifoClock' = (fifoClock - down) % CLOCK
      <4>1. chan + 1 = numCh /\ chan' = 0 /\ sc' \in {"close", "samples"}
        BY <1>0, <1>7, <2>2, <2>3, <3>1 DEF Sent
      <4> QED BY <1>7, <2>1, <2>3, <4>1 DEF Sent, Taken
    <3>3. PICK n \in Nat : /\ Busy(ring) + Taken = n * numCh
                           /\ \E m \in Int : fifoClock + m * CLOCK = n * down
      BY <3>1 DEF ClockInv, Accounted
    <3>4. \E m \in Int : fifoClock' + m * CLOCK = (n - 1) * down
      BY <1>0, <3>2, <3>3, StepAccounted
    <3>5. n - 1 \in Nat /\ Busy(ring) + 0 = (n - 1) * numCh
      <4>1. n # 0
        BY <1>0, <3>1, <3>2, <3>3, TakenType
      <4> DEFINE nn == n * numCh
      <4>2. nn \in Int /\ (n - 1) * numCh = nn - numCh
        BY <1>0
      <4>3. Busy(ring) + Taken = nn
        BY <3>3
      <4> HIDE DEF nn
      <4> QED BY <1>0, <3>2, <4>1, <4>2, <4>3, TakenType
    <3>6. Busy(ring)' + Taken' = (n - 1) * numCh'
      BY <2>1, <3>2, <3>5
    <3>7. \E m \in Int : fifoClock' + m * CLOCK = (n - 1) * down'
      BY <2>1, <3>4
    <3> QED BY <3>5, <3>6, <3>7, Zenon DEF Accounted
  <2>4. CASE ~(chan + 1 >= numCh)
    <3>1. chan' = chan + 1 /\ sc' = "samples" /\ UNCHANGED fifoClock
      BY <1>7, <2>4 DEF Sent
    <3>2. Taken' = Taken
      BY <2>1, <3>1 DEF Taken
    <3> QED BY <2>1, <3>1, <3>2, MoveClock
  <2> QED BY <2>3, <2>4
<1>8. CASE Close
  <2>1. running' = running /\ sc = "close" /\ sc' = "idle"
        /\ UNCHANGED <<ring, session, numCh, down, fifoClock>>
    BY <1>8 DEF Close
  <2>2. Taken' = 0 /\ Taken = 0
    BY <2>1 DEF Taken
  <2> QED BY <2>1, <2>2, MoveClock
<1>9. CASE Stuck
  BY <1>9, MoveClock DEF Stuck
<1> QED BY <1>1, <1>2, <1>3, <1>4, <1>5, <1>6, <1>7, <1>8, <1>9 DEF Thread

\* fifo_clock goes forward a step with each sample put into the ring and back a
\* step with each one sent, so that it stands for the samples the ring holds.
THEOREM ClockInvariant == ScopeSpec => []ClockInv
<1>1. ScopeTypeOK /\ PlaceInv /\ ClockInv /\ [ScopeNext]_scopeVars => ClockInv'
  <2>1. ClockInv /\ UNCHANGED scopeVars => ClockInv'
    <3> SUFFICES ASSUME ClockInv, UNCHANGED scopeVars PROVE ClockInv'
      OBVIOUS
    <3>1. UNCHANGED <<ring, session, running, numCh, down, sc, chan, fifoClock>>
      BY DEF scopeVars
    <3>2. Taken' = Taken /\ Row(ring)' = Row(ring) /\ Accounted' = Accounted
      BY <3>1 DEF Taken, Row, NextCh, Accounted
    <3> QED BY <3>1, <3>2 DEF ClockInv, Place, Empty
  <2> QED BY <2>1, TickClock, HostClock, ThreadClock DEF ScopeNext
<1>2. ScopeInit => ClockInv
  BY DEF ScopeInit, ClockInv
<1> QED BY <1>1, <1>2, ScopeTypeCorrect, PlaceInvariant, PTL DEF ScopeSpec

LEMMA Cancel ==
  ASSUME NEW a \in Int, NEW b \in Int, NEW n \in Nat, n > 0, a * n = b * n PROVE a = b
OBVIOUS

\* The header of a packet tells when its first sample was taken, one step of the
\* clock after what it says, through every wrap of the ring and of the clocks, as
\* long as no sample was lost since the ring was last empty.
THEOREM ClockToldCorrect == ScopeSpec => ClockTold
<1> DEFINE A == Heading /\ Gapless => Told = (Oldest.clk - down) % CLOCK
<1>1. ScopeTypeOK /\ PlaceInv /\ ClockInv => A
  <2> SUFFICES ASSUME ScopeTypeOK, PlaceInv, ClockInv, Heading, Gapless
               PROVE  Told = (Oldest.clk - down) % CLOCK
    OBVIOUS
  <2> USE ScopeFacts
  <2>1. session = "on" /\ sc = "preamble" /\ ~Empty(ring)
    BY DEF Heading, PlaceInv, Skewed, ScopeTypeOK
  <2>2. numCh # 0 /\ Row(ring) /\ Place(ring, 0) /\ Accounted /\ Taken = 0
    BY <2>1 DEF ClockInv, Taken
  <2>3. PICK p \in Nat : /\ Busy(ring) = (p + 1) * numCh
                         /\ \E m \in Int : Newest.clk + m * CLOCK = Oldest.clk + p * down
    BY <2>1, <2>2, Spread
  <2>4. PICK n \in Nat : /\ Busy(ring) + Taken = n * numCh
                         /\ \E m \in Int : fifoClock + m * CLOCK = n * down
    BY <2>2 DEF Accounted
  <2>5. n = p + 1
    <3>1. n * numCh = (p + 1) * numCh
      BY <2>2, <2>3, <2>4, TakenType
    <3>2. numCh \in Nat /\ numCh > 0
      BY <2>2 DEF ScopeTypeOK
    <3> QED BY <3>1, <3>2, Cancel
  <2>6. PICK a \in Int : scopeClock + a * CLOCK = Oldest.clk + p * down
    BY <2>3 DEF Gapless
  <2>7. PICK b \in Int : fifoClock + b * CLOCK = n * down
    BY <2>4
  <2>8. scopeClock \in Nat /\ fifoClock \in Nat /\ down \in Nat /\ Oldest.clk \in Nat
    <3>1. Oldest.clk \in Clocks
      BY RingFacts DEF ScopeTypeOK, Oldest, Samples
    <3> QED BY <3>1 DEF ScopeTypeOK, Clocks
  <2>9. scopeClock - fifoClock = (Oldest.clk - down) + (b - a) * CLOCK
    <3> DEFINE ac == a * CLOCK
               bc == b * CLOCK
               pd == p * down
    <3>1. /\ ac \in Int /\ bc \in Int /\ pd \in Int
          /\ (b - a) * CLOCK = bc - ac /\ (p + 1) * down = pd + down
      BY <2>8
    <3>2. scopeClock + ac = Oldest.clk + pd /\ fifoClock + bc = (p + 1) * down
      BY <2>5, <2>6, <2>7
    <3> HIDE DEF ac, bc, pd
    <3> QED BY <2>8, <3>1, <3>2
  <2>10. scopeClock - fifoClock \in Int /\ Oldest.clk - down \in Int /\ b - a \in Int
    BY <2>8
  <2> QED BY <2>9, <2>10, SameRest DEF Told
<1>2. ScopeSpec => [][A]_scopeVars
  <2> HIDE DEF A
  <2> QED BY <1>1, ScopeTypeCorrect, PlaceInvariant, ClockInvariant, PTL
<1> QED BY <1>2 DEF ClockTold

-----------------------------------------------------------------------------
(* ModbusRtu keeps of the ring only how many words it holds. Nothing of    *)
(* the line itself plays a part in that: it is given as it is at rest.     *)

Line == INSTANCE ModbusRtu WITH
  Room <- 1, Preamble <- 1, Word <- 1, Trailer <- 1, Reply <- 1, Depth <- SIZE,
  Channels <- 0 .. CHANNELS, MaxRun <- 0, Stalls <- FALSE,
  samples <- Busy(ring), num_ch <- numCh, counter <- chan, turn <- "scope",
  rxpc <- "listen", txpc <- "request", scpc <- "idle", request <- FALSE, left <- 0,
  driver <- FALSE, ready <- FALSE, errors <- FALSE, ring <- 0, busy <- FALSE

\* What a step does to the level: the interrupt's is the Tick of ModbusRtu, and a
\* thread that sends takes one word. (Once the scope is off, the ring may be
\* emptied between the two halves of FIFO_GET, and is again at the next tick.)
LevelStep ==
  /\ Tick => \E due \in BOOLEAN : Line!Tick(due)
  /\ Advance /\ running > 0 /\ ~Skewed => Busy(ring) > 0 /\ Busy(ring)' = Busy(ring) - 1
  /\ ScopeHost \/ (Thread /\ ~Advance) => UNCHANGED Busy(ring)

LEMMA TickLevel ==
  ASSUME ScopeTypeOK, Tick
  PROVE  \E due \in BOOLEAN : Line!Tick(due)
<1> USE ScopeFacts
<1>1. /\ ring \in Rings /\ numCh \in 0 .. CHANNELS /\ numCh' = numCh
      /\ running \in Nat /\ overflow \in BOOLEAN
  BY DEF ScopeTypeOK, Tick, hostVars
<1>2. Free(ring) = SIZE - 1 - Busy(ring)
  <2>1. Free(ring) + Busy(ring) = SIZE - 1 /\ Busy(ring) \in Int /\ Free(ring) \in Int
    <3>1. ring.head \in Int /\ ring.tail \in Int
      BY <1>1, RingFacts DEF Slots
    <3> QED BY <1>1, <3>1, FreeAndBusy, BusyWraps DEF Slots, Free
  <2> QED BY <2>1
<1>3. CASE Sample
  <2>1. running >= 1
    BY <1>3 DEF Sample
  <2>2. CASE Free(ring) >= numCh /\ ~overflow
    <3>1. scopeClock' \in Clocks /\ ring' = PutAll(ring, scopeClock')
      BY <1>3, <2>2, ClockType DEF Sample, ScopeTypeOK, Clocks
    <3>2. Busy(ring') = Busy(ring) + numCh
      BY <1>1, <2>2, <3>1, PutAllBusy
    <3>3. UNCHANGED <<running, overflow>>
      BY <1>3, <2>2 DEF Sample
    <3>4. Line!Tick(TRUE)
      BY <1>1, <1>2, <2>1, <2>2, <3>2, <3>3 DEF Line!Tick, Line!FifoFree
    <3> QED BY <3>4
  <2>3. CASE ~(Free(ring) >= numCh /\ ~overflow)
    <3>1. LastRun /\ ring' = ring
      BY <1>3, <2>3 DEF Sample
    <3>2. overflow' = (overflow \/ Free(ring) < numCh)
      BY <1>3, <2>3, Zenon DEF Sample
    <3>3. CASE Free(ring) < numCh
      <4>1. overflow' = TRUE
        BY <3>2, <3>3, Zenon
      <4>2. Line!Tick(TRUE)
        BY <1>1, <1>2, <2>1, <3>1, <3>3, <4>1 DEF Line!Tick, Line!FifoFree, LastRun
      <4> QED BY <4>2
    <3>4. CASE ~(Free(ring) < numCh)
      <4>1. Free(ring) >= numCh /\ overflow
        <5>1. Free(ring) \in Int /\ numCh \in Int
          BY <1>1, <1>2, BusyWraps DEF Slots
        <5>2. Free(ring) >= numCh
          BY <3>4, <5>1
        <5> QED BY <2>3, <5>2, Zenon
      <4>2. overflow' = overflow
        <5>1. overflow' = (overflow \/ FALSE)
          BY <3>2, <3>4, Zenon
        <5> QED BY <1>1, <5>1, <4>1
      <4>3. Line!Tick(TRUE)
        BY <1>1, <1>2, <2>1, <3>1, <4>1, <4>2 DEF Line!Tick, Line!FifoFree, LastRun
      <4> QED BY <4>3
    <3> QED BY <3>3, <3>4
  <2> QED BY <2>2, <2>3
<1>4. CASE Between
  <2>1. Line!Tick(FALSE)
    BY <1>4 DEF Between, Line!Tick, Line!fifo
  <2> QED BY <2>1
<1>5. CASE Clear
  <2>1. Busy(EmptyRing) = 0
    BY EmptyRingType, FreeAndBusy
  <2>2. Line!Tick(TRUE)
    BY <1>5, <2>1 DEF Clear, Line!Tick
  <2> QED BY <2>2
<1> QED BY <1>3, <1>4, <1>5 DEF Tick

LEMMA AdvanceLevel ==
  ASSUME ScopeTypeOK, PlaceInv, Advance, running > 0, ~Skewed
  PROVE  Busy(ring) > 0 /\ Busy(ring)' = Busy(ring) - 1
<1>1. sc = "step" /\ ring \in Rings
  BY DEF Advance, ScopeTypeOK
<1>2. session = "on"
  BY ScopeFacts DEF PlaceInv, ScopeTypeOK, Skewed
<1>3. InPlace
  BY <1>1, <1>2 DEF PlaceInv, Idle
<1>4. tailRead = ring.tail /\ ~Empty(ring)
  BY <1>1, <1>3 DEF InPlace
<1>5. ring' = [ring EXCEPT !.tail = Succ(ring.tail), !.data[ring.tail] = NoWord]
  BY <1>4 DEF Advance
<1>6. Busy(ring)' = Busy(ring) - 1
  BY <1>1, <1>4, <1>5, TakeBusy
<1>7. Busy(ring) > 0
  BY <1>1, <1>4, FreeAndBusy, BusyWraps, ScopeFacts DEF Slots
<1> QED BY <1>6, <1>7

\* The level that ModbusRtu has of the sample ring is the one its indices show:
\* each step of the interrupt is its Tick, and the rest of FIFO_GET takes one word.
THEOREM LevelsAgree == ScopeSpec => [][LevelStep]_scopeVars
<1>1. ScopeTypeOK /\ PlaceInv /\ ScopeNext => LevelStep
  <2> SUFFICES ASSUME ScopeTypeOK, PlaceInv, ScopeNext PROVE LevelStep
    OBVIOUS
  <2>1. Tick => \E due \in BOOLEAN : Line!Tick(due)
    BY TickLevel
  <2>2. Advance /\ running > 0 /\ ~Skewed => Busy(ring) > 0 /\ Busy(ring)' = Busy(ring) - 1
    BY AdvanceLevel
  <2>3. ScopeHost \/ (Thread /\ ~Advance) => ring' = ring
    BY DEF ScopeHost, KeepRunning, SetChannels, SetDownsample, Thread, Begin, Header, Continue,
           Finish, Load, Sent, Close, Stuck
  <2> QED BY <2>1, <2>2, <2>3 DEF LevelStep
<1>2. ScopeTypeOK /\ PlaceInv /\ [ScopeNext]_scopeVars => [LevelStep]_scopeVars
  BY <1>1
<1> QED BY <1>2, ScopeTypeCorrect, PlaceInvariant, PTL DEF ScopeSpec
=============================================================================
