----------------------------- MODULE UartProofs -----------------------------
(***************************************************************************)
(* The rings of the UART driver are queues, for every ring size: of bytes, *)
(* when the compiler keeps the order of the accesses; and of places for    *)
(* bytes, in either order, which is what is left when no byte is told from *)
(* another.                                                                *)
(***************************************************************************)
EXTENDS Uart, FifoProofs

\* No byte can be told from another.
Alike == \A x, y \in Items : x = y

\* What a byte is does not matter, or cannot be wrong.
Safe == ~IndexFirst \/ Alike

\* The fields of a ring after each way of changing it.
LEMMA RingFields ==
  ASSUME NEW f \in Rings
  PROVE  /\ f.data \in [Slots -> Items] /\ f.head \in Slots /\ f.tail \in Slots
         /\ \A i \in Slots : [f EXCEPT !.head = i] \in Rings /\ [f EXCEPT !.tail = i] \in Rings
         /\ \A i \in Slots, x \in Items : [f EXCEPT !.data[i] = x] \in Rings
         /\ \A x \in Items : Put(f, x) \in Rings
         /\ Release(f) \in Rings
<1>1. f.data \in [Slots -> Items] /\ f.head \in Slots /\ f.tail \in Slots
  BY DEF Rings
<1>2. ASSUME NEW i \in Slots, NEW x \in Items
      PROVE  [f EXCEPT !.data[i] = x] \in Rings
  BY DEF Rings
<1>3. Succ(f.head) \in Slots /\ Succ(f.tail) \in Slots
  BY <1>1, SuccWraps
<1>4. ASSUME NEW x \in Items
      PROVE  Put(f, x) \in Rings
  BY <1>1, <1>3 DEF Put, Rings
<1> QED BY <1>1, <1>2, <1>3, <1>4 DEF Rings, Release

LEMMA ZeroSlot == 0 \in Slots
  BY FifoConstants DEF Slots

\* Every step keeps the types.
LEMMA TypeStep == TypeOK /\ [Next]_vars => TypeOK'
<1> SUFFICES ASSUME TypeOK, [Next]_vars PROVE TypeOK'
  OBVIOUS
<1> USE DEF TypeOK, Labels, Restarts
<1>1. CASE Reading
  BY <1>1, RingFields DEF Reading, Read, Load, ReleaseSlot, LoadLate
<1>2. CASE Writing
  <2>1. ASSUME NEW b \in Items, Write(b) PROVE TypeOK'
    BY <2>1, RingFields DEF Write
  <2>2. CASE Store
    BY <2>2, RingFields DEF Store
  <2>3. CASE Publish
    BY <2>3, RingFields, SuccWraps DEF Publish
  <2>4. CASE StoreLate
    BY <2>4, RingFields DEF StoreLate
  <2> QED BY <1>2, <2>1, <2>2, <2>3, <2>4 DEF Writing
<1>3. CASE Restart
  <2>1. CASE RestartRxHead
    BY <2>1, RingFields, ZeroSlot DEF RestartRxHead
  <2>2. CASE RestartRxTail
    BY <2>2, RingFields, ZeroSlot DEF RestartRxTail
  <2>3. CASE RestartTxHead
    BY <2>3, RingFields, ZeroSlot DEF RestartTxHead
  <2>4. CASE RestartTxTail
    BY <2>4, RingFields, ZeroSlot DEF RestartTxTail
  <2>5. CASE RestartFlags
    BY <2>5 DEF RestartFlags
  <2> QED BY <1>3, <2>1, <2>2, <2>3, <2>4, <2>5 DEF Restart
<1>4. CASE Send
  BY <1>4, RingFields DEF Send
<1>5. ASSUME NEW b \in Items, NEW damaged \in BOOLEAN, Receive(b, damaged) PROVE TypeOK'
  BY <1>5, RingFields DEF Receive
<1>6. CASE UNCHANGED vars
  BY <1>6 DEF vars
<1> QED BY <1>1, <1>2, <1>3, <1>4, <1>5, <1>6 DEF Next, HwTask

LEMMA UartInit == Init => TypeOK
<1>1. ZeroRing \in Rings
  <2>1. [i \in Slots |-> Zero] \in [Slots -> Items]
    BY UartConstants
  <2> QED BY <2>1, ZeroSlot DEF ZeroRing, Rings
<1> QED BY <1>1, UartConstants, ZeroSlot DEF Init, TypeOK, Labels

\* The indices stay inside the rings and the driver is always at one of its
\* steps, in either order of the accesses.
THEOREM UartTypeCorrect == Spec => []TypeOK
  BY UartInit, TypeStep, PTL DEF Spec

\* The interrupt's put leaves a slot the main loop is reading alone, and its
\* release makes no ring full.
LEMMA ReceiveKeepsTail ==
  ASSUME NEW f \in Rings, NEW x \in Items, ~Full(f)
  PROVE  /\ Put(f, x).tail = f.tail /\ Put(f, x).head = Succ(f.head)
         /\ ~Empty(Put(f, x))
         /\ ~Empty(f) => Put(f, x).data[f.tail] = f.data[f.tail]
<1>1. f.data \in [Slots -> Items] /\ f.head \in Slots /\ f.tail \in Slots
  BY DEF Rings
<1>2. /\ Put(f, x).tail = f.tail /\ Put(f, x).head = Succ(f.head)
      /\ Put(f, x).data = [f.data EXCEPT ![f.head] = x]
  BY <1>1 DEF Put, Rings
<1> QED BY <1>1, <1>2 DEF Empty, Full

LEMMA SendKeepsRoom ==
  ASSUME NEW f \in Rings, ~Empty(f)
  PROVE  /\ Release(f).head = f.head /\ Release(f).data = f.data
         /\ ~Full(Release(f))
<1>1. f.data \in [Slots -> Items] /\ f.head \in Slots /\ f.tail \in Slots
  BY DEF Rings
<1>2. Release(f).head = f.head /\ Release(f).tail = Succ(f.tail) /\ Release(f).data = f.data
  BY DEF Release, Rings
<1>3. Succ(f.head) # Succ(f.tail)
  <2>1. /\ Succ(f.head) = IF f.head + 1 = SIZE THEN 0 ELSE f.head + 1
        /\ Succ(f.tail) = IF f.tail + 1 = SIZE THEN 0 ELSE f.tail + 1
    BY <1>1, SuccWraps
  <2> QED BY <1>1, <2>1, FifoConstants DEF Slots, Empty
<1> QED BY <1>2, <1>3 DEF Full

-----------------------------------------------------------------------------
\* RingsHeld is inductive when the order of the accesses is kept or does not matter.
LEMMA HeldInit == Init => RingsHeld
<1>1. Init => TypeOK
  BY UartInit
<1> QED BY <1>1 DEF Init, RingsHeld, RxHeld, TxHeld

LEMMA HeldStep == Safe /\ RingsHeld /\ [Next]_vars => RingsHeld'
<1> SUFFICES ASSUME Safe, RingsHeld, [Next]_vars PROVE RingsHeld'
  OBVIOUS
<1>t. TypeOK /\ TypeOK'
  BY TypeStep DEF RingsHeld
<1>r. /\ rx \in Rings /\ tx \in Rings /\ slot \in Slots
      /\ rx.head \in Slots /\ rx.tail \in Slots /\ rx.data \in [Slots -> Items]
      /\ tx.head \in Slots /\ tx.tail \in Slots /\ tx.data \in [Slots -> Items]
  BY <1>t, RingFields DEF TypeOK
<1>i. Alike => item' = rx'.data[rx'.tail] /\ tx'.data[tx'.head] = arg'
  <2>1. /\ rx' \in Rings /\ tx' \in Rings /\ item' \in Items /\ arg' \in Items
    BY <1>t DEF TypeOK
  <2> QED BY <2>1, RingFields DEF Alike
<1> USE DEF Safe, RingsHeld, RxHeld, TxHeld
<1>1. CASE Reading
  <2>1. CASE Read
    BY <1>t, <1>i, <2>1 DEF Read
  <2>2. CASE Load
    <3>1. UNCHANGED <<rx, tx, slot, arg>> /\ pc = "load" /\ pc' = "release"
      BY <2>2 DEF Load
    <3>2. item' = rx.data[slot]
      BY <2>2 DEF Load
    <3> QED BY <1>t, <3>1, <3>2
  <2>3. CASE ReleaseSlot
    BY <1>t, <2>3 DEF ReleaseSlot
  <2>4. CASE LoadLate
    BY <1>t, <2>4 DEF LoadLate
  <2> QED BY <1>1, <2>1, <2>2, <2>3, <2>4 DEF Reading
<1>2. CASE Writing
  <2>1. ASSUME NEW b \in Items, Write(b) PROVE RingsHeld'
    BY <1>t, <1>i, <2>1 DEF Write
  <2>2. CASE Store
    <3>1. /\ tx'.head = tx.head /\ tx'.tail = tx.tail
          /\ tx'.data = [tx.data EXCEPT ![slot] = arg]
      BY <1>r, <2>2 DEF Store, Rings
    <3> QED BY <1>t, <1>r, <2>2, <3>1 DEF Store, Full
  <2>3. CASE Publish
    BY <1>t, <2>3 DEF Publish
  <2>4. CASE StoreLate
    BY <1>t, <2>4 DEF StoreLate
  <2> QED BY <1>2, <2>1, <2>2, <2>3, <2>4 DEF Writing
<1>3. CASE Restart
  <2>1. CASE RestartRxHead
    <3>1. rx'.head = 0 /\ rx'.tail = rx.tail
      BY <1>r, <2>1 DEF RestartRxHead, Rings
    <3>2. rx.tail = 0 \/ 0 < rx.tail
      BY <1>r DEF Slots
    <3> QED BY <1>t, <2>1, <3>1, <3>2 DEF RestartRxHead
  <2>2. CASE RestartRxTail
    BY <1>t, <2>2 DEF RestartRxTail
  <2>3. CASE RestartTxHead
    <3>1. tx'.head = 0
      BY <1>r, <2>3 DEF RestartTxHead, Rings
    <3> QED BY <1>t, <2>3, <3>1 DEF RestartTxHead
  <2>4. CASE RestartTxTail
    BY <1>t, <2>4 DEF RestartTxTail
  <2>5. CASE RestartFlags
    BY <1>t, <2>5 DEF RestartFlags
  <2> QED BY <1>3, <2>1, <2>2, <2>3, <2>4, <2>5 DEF Restart
<1>4. CASE Send
  <2>1. tx' = Release(tx) /\ ~Empty(tx)
    BY <1>4 DEF Send
  <2>2. tx'.head = tx.head /\ tx'.data = tx.data /\ ~Full(tx')
    BY <1>r, <2>1, SendKeepsRoom
  <2> QED BY <1>t, <1>4, <2>2 DEF Send, Full
<1>5. ASSUME NEW b \in Items, NEW damaged \in BOOLEAN, Receive(b, damaged) PROVE RingsHeld'
  <2>1. CASE Full(rx)
    BY <1>t, <1>5, <2>1 DEF Receive
  <2>2. CASE ~Full(rx)
    <3>1. rx' = Put(rx, b)
      BY <1>5, <2>2 DEF Receive
    <3>2. /\ rx'.tail = rx.tail /\ rx'.head = Succ(rx.head)
          /\ ~Empty(rx')
          /\ ~Empty(rx) => rx'.data[rx.tail] = rx.data[rx.tail]
      BY <1>r, <2>2, <3>1, ReceiveKeepsTail
    <3>3. rx.head < rx.tail => rx'.head < rx.tail
      <4>1. Succ(rx.head) = IF rx.head + 1 = SIZE THEN 0 ELSE rx.head + 1
        BY <1>r, SuccWraps
      <4> QED BY <1>r, <2>2, <3>2, <4>1, FifoConstants DEF Slots, Full
    <3> QED BY <1>t, <1>5, <3>2, <3>3 DEF Receive
  <2> QED BY <2>1, <2>2
<1>6. CASE UNCHANGED vars
  BY <1>t, <1>6 DEF vars, Full, Empty
<1> QED BY <1>1, <1>2, <1>3, <1>4, <1>5, <1>6 DEF Next, HwTask

-----------------------------------------------------------------------------
(* The receive ring implements a queue.                                    *)

LEMMA EmptyContents ==
  ASSUME NEW f \in Rings, f.head = f.tail
  PROVE  Contents(f) = <<>>
<1>1. Busy(f) = 0
  BY FreeAndBusy DEF Empty
<1> QED BY <1>1, ContentsType, EmptySeq

LEMMA RxInit == Init => RxQueue!Init
<1> SUFFICES ASSUME Init PROVE RxQueue!Init
  OBVIOUS
<1>1. rx \in Rings /\ rx.head = rx.tail
  BY UartInit DEF Init, TypeOK, ZeroRing
<1>2. Received = <<>>
  BY <1>1, EmptyContents DEF Received, Init
<1>3. byte \in Items /\ errors \in BOOLEAN /\ pc \notin Restarts
  BY UartConstants DEF Init, Restarts
<1> QED BY <1>2, <1>3 DEF RxQueue!Init, Restarts

LEMMA RxStep ==
  Safe /\ RingsHeld /\ RingsHeld' /\ [Next]_vars
    => [RxQueue!Next]_RxQueue!vars
<1> SUFFICES ASSUME Safe, RingsHeld, RingsHeld', [Next]_vars
             PROVE  RxQueue!Next \/ UNCHANGED RxQueue!vars
  OBVIOUS
<1> USE DEF RxQueue!vars
<1>r. /\ rx \in Rings /\ rx.head \in Slots /\ rx.tail \in Slots
      /\ byte \in Items /\ errors \in BOOLEAN
      /\ [rx EXCEPT !.tail = 0] \in Rings
      /\ [rx EXCEPT !.tail = 0].head = rx.head /\ [rx EXCEPT !.tail = 0].tail = 0
  BY RingFields, ZeroSlot DEF RingsHeld, TypeOK, Rings
<1>1. CASE Reading
  <2>1. CASE Read \/ Load
    BY <2>1 DEF Read, Load, Received
  <2>3. CASE LoadLate
    <3>1. byte' = byte
      <4>1. Alike /\ byte' \in Items
        BY <2>3 DEF LoadLate, Safe, RingsHeld, TypeOK
      <4> QED BY <1>r, <4>1 DEF Alike
    <3> QED BY <2>3, <3>1 DEF LoadLate, Received
  <2>2. CASE ReleaseSlot
    <3>1. /\ rx' = Release(rx) /\ pc = "release" /\ pc' \in {"idle", "loadLate"}
          /\ errors' = errors /\ byte' = item
      <4>1. IndexFirst => byte' = item
        BY <1>r DEF Safe, Alike, RingsHeld, TypeOK
      <4>2. ~IndexFirst => byte' = item
        BY <2>2 DEF ReleaseSlot
      <4> QED BY <2>2, <4>1, <4>2 DEF ReleaseSlot
    <3>2. ~Empty(rx) /\ item = rx.data[rx.tail]
      BY <3>1 DEF RingsHeld, RxHeld
    <3>3. /\ Contents(rx) # <<>> /\ Head(Contents(rx)) = rx.data[rx.tail]
          /\ Contents(rx') = Tail(Contents(rx))
      BY <1>r, <3>1, <3>2, ReleaseDrops
    <3>4. Received = Contents(rx) /\ Received' = Contents(rx')
      BY <3>1 DEF Received
    <3>5. RxQueue!Deliver
      BY <3>1, <3>2, <3>3, <3>4 DEF RxQueue!Deliver
    <3> QED BY <3>5 DEF RxQueue!Next
  <2> QED BY <1>1, <2>1, <2>2, <2>3 DEF Reading
<1>2. CASE Writing
  <2>1. UNCHANGED <<rx, byte, errors>>
    BY <1>2 DEF Writing, Write, Store, Publish, StoreLate
  <2>2. pc \notin {"rxTail", "txHead", "txTail", "flags"}
    BY <1>2 DEF Writing, Write, Store, Publish, StoreLate
  <2>3. pc' \notin {"rxTail", "txHead", "txTail", "flags"}
    BY <1>2 DEF Writing, Write, Store, Publish, StoreLate
  <2> QED BY <2>1, <2>2, <2>3 DEF Received
<1>3. CASE Restart
  <2>1. CASE RestartRxHead
    <3>1. rx' = [rx EXCEPT !.head = 0] /\ pc' = "rxTail" /\ byte' = byte /\ errors' = errors
      BY <2>1 DEF RestartRxHead
    <3>2. /\ [rx' EXCEPT !.tail = 0] \in Rings
          /\ [rx' EXCEPT !.tail = 0].head = [rx' EXCEPT !.tail = 0].tail
      BY <1>r, <3>1, RingFields, ZeroSlot DEF Rings
    <3>3. Received' = <<>>
      BY <3>1, <3>2, EmptyContents DEF Received
    <3>4. RxQueue!Clear
      BY <3>1, <3>3 DEF RxQueue!Clear
    <3> QED BY <3>4 DEF RxQueue!Next
  <2>2. CASE RestartRxTail
    BY <2>2 DEF RestartRxTail, Received
  <2>3. CASE RestartTxHead \/ RestartTxTail
    BY <2>3 DEF RestartTxHead, RestartTxTail, Received
  <2>4. CASE RestartFlags
    <3>1. rx' = rx /\ byte' = byte /\ errors' = FALSE /\ pc = "flags" /\ pc' = "idle"
      BY <2>4 DEF RestartFlags
    <3>2. Received' = Received
      BY <3>1 DEF Received
    <3>3. (pc' \in {"rxTail", "txHead", "txTail", "flags"}) = FALSE
      BY <3>1
    <3>4. errors' \in {errors, FALSE}
      BY <3>1
    <3>5. RxQueue!Cleared
      BY <3>1, <3>2, <3>3, <3>4, Zenon DEF RxQueue!Cleared
    <3> QED BY <3>5 DEF RxQueue!Next
  <2> QED BY <1>3, <2>1, <2>2, <2>3, <2>4 DEF Restart
<1>4. CASE Send
  BY <1>4 DEF Send, Received
<1>5. ASSUME NEW b \in Items, NEW damaged \in BOOLEAN, Receive(b, damaged)
      PROVE  RxQueue!Next
  <2> DEFINE f == IF pc = "rxTail" THEN [rx EXCEPT !.tail = 0] ELSE rx
  <2>0. pc' = pc /\ byte' = byte
    BY <1>5 DEF Receive
  <2>1. f \in Rings /\ Received = Contents(f)
    BY <1>r DEF Received
  <2>2. CASE Full(rx)
    <3>1. rx' = rx /\ errors' = TRUE
      BY <1>5, <2>2 DEF Receive
    <3>2. pc # "rxTail" => Len(Received) = SIZE - 1
      BY <1>r, <2>1, <2>2, FreeAndBusy, ContentsType
    <3>3. Received' = Received
      BY <2>0, <3>1 DEF Received
    <3>4. RxQueue!Refuse
      BY <2>0, <3>1, <3>2, <3>3 DEF RxQueue!Refuse
    <3> QED BY <3>4 DEF RxQueue!Next
  <2>3. CASE ~Full(rx)
    <3>1. rx' = Put(rx, b) /\ errors' = (errors \/ damaged)
      BY <1>5, <2>3 DEF Receive
    <3>2. ~Full(f)
      <4>1. Succ(rx.head) = IF rx.head + 1 = SIZE THEN 0 ELSE rx.head + 1
        BY <1>r, SuccWraps
      <4>2. pc = "rxTail" => rx.tail = 0 \/ rx.head < rx.tail
        BY DEF RingsHeld, RxHeld
      <4> QED BY <1>r, <2>3, <4>1, <4>2, FifoConstants DEF Full, Slots
    <3>3. Contents(Put(f, b)) = Append(Contents(f), b)
      BY <2>1, <3>2, PutAppends
    <3>4. Received' = Contents(Put(f, b))
      BY <1>r, <2>0, <3>1 DEF Received, Put, Rings
    <3>5. Len(Received) < SIZE - 1
      <4>1. Busy(f) # SIZE - 1 /\ Busy(f) \in Slots /\ Len(Contents(f)) = Busy(f)
        BY <2>1, <3>2, FreeAndBusy, BusyWraps, ContentsType
      <4> QED BY <2>1, <4>1, FifoConstants DEF Slots
    <3>6. errors' \in {errors, TRUE}
      BY <1>r, <3>1
    <3>7. RxQueue!Accept(b)
      BY <2>0, <2>1, <3>3, <3>4, <3>5, <3>6 DEF RxQueue!Accept
    <3> QED BY <3>7 DEF RxQueue!Next
  <2> QED BY <2>2, <2>3
<1>6. CASE UNCHANGED vars
  BY <1>6 DEF vars, Received
<1> QED BY <1>1, <1>2, <1>3, <1>4, <1>5, <1>6 DEF Next, HwTask

\* Every byte received is delivered once and in order, and one that is lost
\* leaves an error on record, for every ring size.
THEOREM RxRefines ==
  ASSUME Safe
  PROVE  Spec => RxIsQueue
<1>1. Init => RingsHeld
  BY HeldInit
<1>2. RingsHeld /\ [Next]_vars => RingsHeld'
  BY HeldStep
<1>3. RingsHeld /\ RingsHeld' /\ [Next]_vars => [RxQueue!Next]_RxQueue!vars
  BY RxStep
<1> QED BY <1>1, <1>2, <1>3, RxInit, PTL DEF Spec, RxIsQueue, RxQueue!Spec

-----------------------------------------------------------------------------
(* The transmit ring implements a queue that never refuses.                *)

LEMMA TxInit == Init => TxQueue!Init
<1> SUFFICES ASSUME Init PROVE TxQueue!Init
  OBVIOUS
<1>1. tx \in Rings /\ tx.head = tx.tail
  BY UartInit DEF Init, TypeOK, ZeroRing
<1>2. ToSend = <<>>
  BY <1>1, EmptyContents DEF ToSend, Init
<1>3. line \in Items /\ pc # "txTail"
  BY UartConstants DEF Init
<1> QED BY <1>2, <1>3 DEF TxQueue!Init

\* Filling the free slot changes nothing of the contents, and publishing it
\* is then a put.
LEMMA StoreIsSilent ==
  ASSUME NEW f \in Rings, NEW x \in Items, ~Full(f)
  PROVE  LET g == [f EXCEPT !.data[f.head] = x]
         IN  g \in Rings /\ Contents(g) = Contents(f)
<1> DEFINE g == [f EXCEPT !.data[f.head] = x]
<1>1. f.data \in [Slots -> Items] /\ f.head \in Slots /\ f.tail \in Slots
  BY DEF Rings
<1>2. /\ g \in Rings /\ g.head = f.head /\ g.tail = f.tail
      /\ g.data = [f.data EXCEPT ![f.head] = x]
  BY <1>1, RingFields DEF Rings
<1>3. Busy(g) = Busy(f) /\ Busy(f) \in Slots
  BY <1>2, BusyWraps DEF Busy
<1>4. ASSUME NEW k \in 1 .. Busy(f)
      PROVE  g.data[(g.tail + k - 1) % SIZE] = f.data[(f.tail + k - 1) % SIZE]
  <2> DEFINE i == f.tail + k - 1
  <2>1. i \in 0 .. 2 * SIZE - 1
    BY <1>1, <1>3, FifoConstants DEF Slots
  <2>2. i % SIZE = IF i < SIZE THEN i ELSE i - SIZE
    BY <2>1, Wrap
  <2>3. Busy(f) = IF f.head >= f.tail THEN f.head - f.tail ELSE SIZE + f.head - f.tail
    BY BusyWraps
  <2>4. (IF i < SIZE THEN i ELSE i - SIZE) # f.head
    <3> HIDE DEF i
    <3>1. i = f.tail + k - 1
      BY DEF i
    <3> QED BY <1>1, <1>3, <2>3, <3>1, FifoConstants DEF Slots
  <2>5. i % SIZE # f.head /\ i % SIZE \in Slots
    BY <2>1, <2>2, <2>4, FifoConstants DEF Slots
  <2> QED BY <1>1, <1>2, <2>5
<1>5. Contents(g) = Contents(f)
  BY <1>3, <1>4 DEF Contents
<1> QED BY <1>2, <1>5

LEMMA TxStep ==
  Safe /\ RingsHeld /\ RingsHeld' /\ [Next]_vars
    => [TxQueue!Next]_TxQueue!vars
<1> SUFFICES ASSUME Safe, RingsHeld, RingsHeld', [Next]_vars
             PROVE  TxQueue!Next \/ UNCHANGED TxQueue!vars
  OBVIOUS
<1> USE DEF TxQueue!vars
<1>r. /\ tx \in Rings /\ tx.head \in Slots /\ tx.tail \in Slots
      /\ tx.data \in [Slots -> Items]
      /\ line \in Items /\ arg \in Items /\ slot \in Slots
  BY RingFields DEF RingsHeld, TypeOK
<1>1. CASE Reading
  BY <1>1 DEF Reading, Read, Load, ReleaseSlot, LoadLate, ToSend
<1>2. CASE Writing
  <2>1. ASSUME NEW b \in Items, Write(b) PROVE UNCHANGED TxQueue!vars
    BY <2>1 DEF Write, ToSend
  <2>2. CASE Store
    <3>1. /\ tx' = [tx EXCEPT !.data[tx.head] = arg] /\ ~Full(tx)
          /\ pc = "store" /\ pc' = "publish" /\ line' = line
      BY <2>2 DEF Store, RingsHeld, TxHeld
    <3>2. Contents(tx') = Contents(tx)
      BY <1>r, <3>1, StoreIsSilent
    <3> QED BY <3>1, <3>2 DEF ToSend
  <2>3. CASE Publish
    <3>1. /\ tx' = [tx EXCEPT !.head = Succ(tx.head)] /\ ~Full(tx)
          /\ tx.data[tx.head] = arg
          /\ pc = "publish" /\ pc' \in {"idle", "storeLate"} /\ line' = line
      BY <2>3 DEF Publish, RingsHeld, TxHeld
    <3>2. tx' = Put(tx, arg)
      BY <1>r, <3>1 DEF Put, Rings
    <3>3. Contents(tx') = Append(Contents(tx), arg)
      BY <1>r, <3>1, <3>2, PutAppends
    <3>4. ToSend = Contents(tx) /\ ToSend' = Contents(tx')
      BY <3>1 DEF ToSend
    <3>5. Len(ToSend) < SIZE - 1
      <4>1. Busy(tx) # SIZE - 1 /\ Busy(tx) \in Slots /\ Len(Contents(tx)) = Busy(tx)
        BY <1>r, <3>1, FreeAndBusy, BusyWraps, ContentsType
      <4> QED BY <3>4, <4>1, FifoConstants DEF Slots
    <3>6. TxQueue!Accept(arg)
      BY <3>1, <3>3, <3>4, <3>5 DEF TxQueue!Accept
    <3> QED BY <1>r, <3>6 DEF TxQueue!Next
  <2>4. CASE StoreLate
    <3>1. tx' = tx
      <4>1. Alike
        BY <2>4 DEF StoreLate, Safe, RingsHeld
      <4>2. tx.data[slot] = arg
        BY <1>r, <4>1 DEF Alike
      <4> QED BY <1>r, <2>4, <4>2 DEF StoreLate, Rings
    <3> QED BY <2>4, <3>1 DEF StoreLate, ToSend
  <2> QED BY <1>2, <2>1, <2>2, <2>3, <2>4 DEF Writing
<1>3. CASE Restart
  <2>1. CASE RestartRxHead \/ RestartRxTail \/ RestartFlags
    BY <2>1 DEF RestartRxHead, RestartRxTail, RestartFlags, ToSend
  <2>2. CASE RestartTxHead
    <3>1. ToSend' = <<>> /\ pc' = "txTail" /\ line' = line
      BY <2>2 DEF RestartTxHead, ToSend
    <3>2. TxQueue!Clear
      BY <3>1 DEF TxQueue!Clear
    <3> QED BY <3>2 DEF TxQueue!Next
  <2>3. CASE RestartTxTail
    <3>1. /\ tx' = [tx EXCEPT !.tail = 0] /\ line' = line
          /\ pc = "txTail" /\ pc' = "flags" /\ tx.head = 0
      BY <2>3 DEF RestartTxTail, RingsHeld, TxHeld
    <3>2. tx' \in Rings /\ tx'.head = tx'.tail
      BY <1>r, <3>1, RingFields, ZeroSlot DEF Rings
    <3>3. ToSend = <<>> /\ ToSend' = <<>>
      BY <3>1, <3>2, EmptyContents DEF ToSend
    <3>4. (pc' = "txTail") = FALSE
      BY <3>1
    <3>5. TxQueue!Cleared
      BY <3>1, <3>3, <3>4, Zenon DEF TxQueue!Cleared
    <3> QED BY <3>5 DEF TxQueue!Next
  <2> QED BY <1>3, <2>1, <2>2, <2>3 DEF Restart
<1>4. CASE Send
  <2>1. tx' = Release(tx) /\ ~Empty(tx) /\ line' = tx.data[tx.tail] /\ pc' = pc
    BY <1>4 DEF Send
  <2>2. CASE pc = "txTail"
    <3>1. ToSend' = ToSend
      BY <2>1, <2>2 DEF ToSend
    <3>2. TxQueue!Garble(tx.data[tx.tail]) /\ tx.data[tx.tail] \in Items
      BY <1>r, <2>1, <2>2, <3>1 DEF TxQueue!Garble
    <3> QED BY <3>2 DEF TxQueue!Next
  <2>3. CASE pc # "txTail"
    <3>1. ToSend = Contents(tx) /\ ToSend' = Contents(tx')
      BY <2>1, <2>3 DEF ToSend
    <3>2. /\ Contents(tx) # <<>> /\ Head(Contents(tx)) = tx.data[tx.tail]
          /\ Contents(tx') = Tail(Contents(tx))
      BY <1>r, <2>1, ReleaseDrops
    <3>3. TxQueue!Deliver
      BY <2>1, <3>1, <3>2 DEF TxQueue!Deliver
    <3> QED BY <3>3 DEF TxQueue!Next
  <2> QED BY <2>2, <2>3
<1>5. ASSUME NEW b \in Items, NEW damaged \in BOOLEAN, Receive(b, damaged)
      PROVE  UNCHANGED TxQueue!vars
  BY <1>5 DEF Receive, ToSend
<1>6. CASE UNCHANGED vars
  BY <1>6 DEF vars, ToSend
<1> QED BY <1>1, <1>2, <1>3, <1>4, <1>5, <1>6 DEF Next, HwTask

\* Every byte written is sent once and in order and none is refused, for
\* every ring size; a restart may discard bytes and repeat old ones.
THEOREM TxRefines ==
  ASSUME Safe
  PROVE  Spec => TxIsQueue
<1>1. Init => RingsHeld
  BY HeldInit
<1>2. RingsHeld /\ [Next]_vars => RingsHeld'
  BY HeldStep
<1>3. RingsHeld /\ RingsHeld' /\ [Next]_vars => [TxQueue!Next]_TxQueue!vars
  BY TxStep
<1> QED BY <1>1, <1>2, <1>3, TxInit, PTL DEF Spec, TxIsQueue, TxQueue!Spec
=============================================================================
