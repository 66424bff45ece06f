-------------------------------- MODULE Uart --------------------------------
(***************************************************************************)
(* The polled driver of UART2 (MCU/uart2_hw_poll.c). The main loop reads   *)
(* and writes bytes and restarts the driver; uart2_hw_task, called by the  *)
(* control interrupt, moves bytes between the two rings and the hardware.  *)
(* The interrupt may fall between any two accesses of the main loop to a   *)
(* ring. A call of uart2_hw_task that moves several bytes is as many       *)
(* actions in a row; uart2_active is 1 once interrupts are on.             *)
(***************************************************************************)
EXTENDS Fifo

CONSTANTS
  Zero,        \* the byte static storage starts with
  IndexFirst   \* whether the compiler moves an index before it uses the slot

ASSUME UartConstants == Zero \in Items /\ IndexFirst \in BOOLEAN

VARIABLES
  rx, tx,   \* uart2_rx_fifo and uart2_tx_fifo
  errors,   \* uart2_error_flags is not 0
  pc,       \* where the main loop is in the driver
  arg,      \* the argument of uart2_write_byte
  item,     \* FIFO_GET's item, read and not yet returned
  slot,     \* the slot the ring access in progress uses
  byte,     \* what uart2_read_byte returned last
  line      \* the last byte given to the hardware

vars == <<rx, tx, errors, pc, arg, item, slot, byte, line>>

Restarts == {"rxHead", "rxTail", "txHead", "txTail", "flags"}
Labels   == {"idle", "load", "release", "loadLate", "store", "publish", "storeLate"}
            \union Restarts

TypeOK ==
  /\ rx \in Rings /\ tx \in Rings
  /\ errors \in BOOLEAN
  /\ pc \in Labels
  /\ arg \in Items /\ item \in Items /\ byte \in Items /\ line \in Items
  /\ slot \in Slots

ZeroRing == [data |-> [i \in Slots |-> Zero], head |-> 0, tail |-> 0]

Init ==
  /\ rx = ZeroRing /\ tx = ZeroRing
  /\ errors = FALSE
  /\ pc = "idle"
  /\ arg = Zero /\ item = Zero /\ byte = Zero /\ line = Zero
  /\ slot = 0

-----------------------------------------------------------------------------
(* The main loop.                                                          *)

\* uart2_read_byte, called when uart2_rx_ready: FIFO_GET loads the oldest
\* byte and then gives its slot back.
Read ==
  /\ pc = "idle" /\ ~Empty(rx)
  /\ slot' = rx.tail
  /\ pc' = IF IndexFirst THEN "release" ELSE "load"
  /\ UNCHANGED <<rx, tx, errors, arg, item, byte, line>>

Load ==
  /\ pc = "load"
  /\ item' = rx.data[slot]
  /\ pc' = "release"
  /\ UNCHANGED <<rx, tx, errors, arg, slot, byte, line>>

ReleaseSlot ==
  /\ pc = "release"
  /\ rx' = Release(rx)
  /\ IF IndexFirst THEN pc' = "loadLate" /\ byte' = byte
                   ELSE pc' = "idle" /\ byte' = item
  /\ UNCHANGED <<tx, errors, arg, item, slot, line>>

LoadLate ==
  /\ pc = "loadLate"
  /\ byte' = rx.data[slot]
  /\ pc' = "idle"
  /\ UNCHANGED <<rx, tx, errors, arg, item, slot, line>>

\* Mutant: FIFO_PUT_FAST without a look at the free space.
WriteFast(b) ==
  /\ pc = "idle"
  /\ arg' = b
  /\ slot' = tx.head
  /\ pc' = IF IndexFirst THEN "publish" ELSE "store"
  /\ UNCHANGED <<rx, tx, errors, item, byte, line>>

\* uart2_write_byte, called when uart2_tx_ready: FIFO_PUT fills the free slot
\* and then publishes it. Its own test for a full ring cannot fail then, since
\* the interrupt only takes from the ring.
Write(b) ==
  /\ pc = "idle" /\ ~Full(tx)
  /\ arg' = b
  /\ slot' = tx.head
  /\ pc' = IF IndexFirst THEN "publish" ELSE "store"
  /\ UNCHANGED <<rx, tx, errors, item, byte, line>>

Store ==
  /\ pc = "store"
  /\ tx' = [tx EXCEPT !.data[slot] = arg]
  /\ pc' = "publish"
  /\ UNCHANGED <<rx, errors, arg, item, slot, byte, line>>

Publish ==
  /\ pc = "publish"
  /\ tx' = [tx EXCEPT !.head = Succ(slot)]
  /\ pc' = IF IndexFirst THEN "storeLate" ELSE "idle"
  /\ UNCHANGED <<rx, errors, arg, item, slot, byte, line>>

StoreLate ==
  /\ pc = "storeLate"
  /\ tx' = [tx EXCEPT !.data[slot] = arg]
  /\ pc' = "idle"
  /\ UNCHANGED <<rx, errors, arg, item, slot, byte, line>>

\* uart2_restart(0): FIFO_INIT of either ring, then the error flags.
RestartRxHead ==
  /\ pc = "idle"
  /\ rx' = [rx EXCEPT !.head = 0]
  /\ pc' = "rxTail"
  /\ UNCHANGED <<tx, errors, arg, item, slot, byte, line>>

RestartRxTail ==
  /\ pc = "rxTail"
  /\ rx' = [rx EXCEPT !.tail = 0]
  /\ pc' = "txHead"
  /\ UNCHANGED <<tx, errors, arg, item, slot, byte, line>>

RestartTxHead ==
  /\ pc = "txHead"
  /\ tx' = [tx EXCEPT !.head = 0]
  /\ pc' = "txTail"
  /\ UNCHANGED <<rx, errors, arg, item, slot, byte, line>>

RestartTxTail ==
  /\ pc = "txTail"
  /\ tx' = [tx EXCEPT !.tail = 0]
  /\ pc' = "flags"
  /\ UNCHANGED <<rx, errors, arg, item, slot, byte, line>>

RestartFlags ==
  /\ pc = "flags"
  /\ errors' = FALSE
  /\ pc' = "idle"
  /\ UNCHANGED <<rx, tx, arg, item, slot, byte, line>>

-----------------------------------------------------------------------------
(* The interrupt: uart2_hw_task.                                           *)

\* The hardware has a byte, damaged or not. A ring that is full loses it.
Receive(b, damaged) ==
  /\ IF Full(rx) THEN rx' = rx /\ errors' = TRUE
                 ELSE rx' = Put(rx, b) /\ errors' = (errors \/ damaged)
  /\ UNCHANGED <<tx, pc, arg, item, slot, byte, line>>

\* The hardware has room for a byte.
Send ==
  /\ ~Empty(tx)
  /\ line' = tx.data[tx.tail]
  /\ tx' = Release(tx)
  /\ UNCHANGED <<rx, errors, pc, arg, item, slot, byte>>

-----------------------------------------------------------------------------
Reading == Read \/ Load \/ ReleaseSlot \/ LoadLate
Writing == (\E b \in Items : Write(b)) \/ Store \/ Publish \/ StoreLate
Restart == RestartRxHead \/ RestartRxTail \/ RestartTxHead \/ RestartTxTail \/ RestartFlags
HwTask  == Send \/ \E b \in Items, damaged \in BOOLEAN : Receive(b, damaged)

Next == Reading \/ Writing \/ Restart \/ HwTask
Spec == Init /\ [][Next]_vars

-----------------------------------------------------------------------------
(* Refinement. Both rings are queues; the two halves of FIFO_INIT and the  *)
(* clearing of the flags are the span of a clear.                          *)

\* Between the halves of FIFO_INIT the receive ring holds what came since.
Received == IF pc = "rxTail" THEN Contents([rx EXCEPT !.tail = 0]) ELSE Contents(rx)
ToSend   == IF pc = "txTail" THEN <<>> ELSE Contents(tx)

RxQueue == INSTANCE ByteQueue WITH
  Bytes <- Items, Capacity <- SIZE - 1,
  queue <- Received, out <- byte, flagged <- errors,
  clearing <- pc \in {"rxTail", "txHead", "txTail", "flags"}

TxQueue == INSTANCE ByteQueue WITH
  Bytes <- Items, Capacity <- SIZE - 1,
  queue <- ToSend, out <- line, flagged <- FALSE,
  clearing <- pc = "txTail"

\* What the main loop knows in the middle of a ring access, whatever the
\* interrupt does to the other end of the ring. With IndexFirst it does not know
\* the bytes, so this holds if they cannot be told apart.
RxHeld ==
  /\ pc \in {"load", "release"} => slot = rx.tail /\ ~Empty(rx)
  /\ pc = "release" => item = rx.data[rx.tail]
  /\ pc = "rxTail" => rx.tail = 0 \/ rx.head < rx.tail
TxHeld ==
  /\ pc \in {"store", "publish"} => slot = tx.head /\ ~Full(tx)
  /\ pc = "publish" => tx.data[tx.head] = arg
  /\ pc = "txTail" => tx.head = 0
RingsHeld ==
  TypeOK /\ RxHeld /\ TxHeld /\ (~IndexFirst => pc \notin {"loadLate", "storeLate"})

\* Every byte received comes out of uart2_read_byte once and in order; one is
\* lost only to a full ring or a restart, and then an error is on record.
RxIsQueue == RxQueue!Spec

\* Every byte written goes to the hardware once and in order, and none is
\* lost, except that a restart discards what was waiting and, when the
\* interrupt falls between the halves of FIFO_INIT, sends old bytes again.
TxIsQueue == TxQueue!Spec
=============================================================================
