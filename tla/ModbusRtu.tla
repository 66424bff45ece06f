------------------------------ MODULE ModbusRtu ------------------------------
(***************************************************************************)
(* One half-duplex RS485 line and the three protothreads that share it:    *)
(* the receiver and the transmitter of modbus/modbus_rtu.c and the         *)
(* streaming scope of modbus/modbus_scope.c, polled in turn by             *)
(* modbus_rtu_task, with the control interrupt (CApp::isr) at any point.   *)
(*                                                                         *)
(* A protothread's state is the wait it stands at. Each of its actions     *)
(* starts at a wait and ends at the next: the condition of a PT_WAIT_UNTIL *)
(* is evaluated at once, so the thread keeps its turn; a PT_YIELD_UNTIL    *)
(* hands the turn on first. A timer is late or not whenever it is asked.   *)
(* A timer that detects stuck hardware is late only when Stalls holds.     *)
(***************************************************************************)
EXTENDS Integers

CONSTANTS
  Room,       \* bytes the UART's transmit ring takes
  Preamble,   \* bytes of a scope frame before its samples
  Word,       \* bytes of a sample
  Trailer,    \* bytes of a scope frame after its samples
  Reply,      \* bytes of a reply
  Depth,      \* slots of the scope's ring, one of which stays free
  Channels,   \* the channel counts the host may set up
  MaxRun,     \* the largest modbus_scope_running the host sends
  Stalls      \* whether the UART hardware may stop sending for good

ASSUME ModbusConstants ==
  /\ Room \in Nat /\ Preamble \in 1 .. Room /\ Word \in 1 .. Room /\ Trailer \in 1 .. Room
  /\ Reply \in Nat \ {0}
  /\ Depth \in Nat \ {0, 1}
  /\ Channels \subseteq Nat
  /\ MaxRun \in Nat
  /\ Stalls \in BOOLEAN

VARIABLES
  turn,      \* whose resume modbus_rtu_task is at
  rxpc,      \* where task_modbus_rtu_rx waits
  txpc,      \* where task_modbus_rtu_tx waits
  scpc,      \* where task_modbus_scope_tx waits
  request,   \* modbus_tx_request
  left,      \* bytes of the reply not yet written
  driver,    \* the RS485 driver is on
  ready,     \* the receive ring holds a byte
  errors,    \* the UART has an error on record
  ring,      \* bytes in the transmit ring
  busy,      \* the hardware is still sending
  running,   \* modbus_scope_running
  num_ch,    \* modbus_scope_num_ch
  samples,   \* words in scope_fifo
  overflow,  \* scope_overflow_flag
  counter    \* scope_ch_counter

rx    == <<rxpc, request>>
tx    == <<txpc, left>>
scope == <<scpc, counter>>
uart  == <<ready, errors, ring, busy>>
fifo  == <<samples, overflow>>
vars  == <<turn, rx, tx, scope, driver, uart, fifo, running, num_ch>>

Flags ==
  /\ request \in BOOLEAN /\ driver \in BOOLEAN /\ ready \in BOOLEAN
  /\ errors \in BOOLEAN /\ busy \in BOOLEAN /\ overflow \in BOOLEAN

Sizes ==
  /\ turn \in {"rx", "tx", "scope", "failsafe"}
  /\ rxpc \in {"start", "pause", "listen", "char", "silence", "broken", "reply"}
  /\ txpc \in {"start", "request", "scope", "stuck", "settle", "writing", "done", "hold", "turn"}
  /\ scpc \in {"start", "idle", "preamble", "samples", "sending", "crc", "flush", "rest"}
  /\ left \in 0 .. Reply
  /\ ring \in 0 .. Room
  /\ running \in 0 .. MaxRun
  /\ num_ch \in Channels \union {0}
  /\ samples \in 0 .. Depth - 1
  /\ counter \in Nat /\ (counter = 0 \/ \E n \in Channels : counter < n)

TypeOK == Flags /\ Sizes

Init ==
  /\ turn = "rx" /\ rxpc = "start" /\ txpc = "start" /\ scpc = "start"
  /\ request = FALSE /\ left = 0 /\ driver = FALSE
  /\ ready = FALSE /\ errors = FALSE /\ ring = 0 /\ busy = FALSE
  /\ running = 0 /\ num_ch = 0 /\ samples = 0 /\ overflow = FALSE /\ counter = 0

-----------------------------------------------------------------------------
(* Shared tests and steps.                                                 *)

\* Mutant: modbus_tx_idle is cleared only after the driver has settled.
LateTxIdle == txpc \in {"request", "scope", "stuck", "settle"}

RxIdle    == rxpc = "listen"
TxIdle    == txpc \in {"request", "scope", "stuck"}
ScopeIdle == scpc \in {"start", "idle"}

\* Mutants: a look at the ring but not at the hardware; any free byte will do.
RingDrained == ring = 0
AnyRoom(n)  == ring < Room

TxDone  == ring = 0 /\ ~busy
Fits(n) == Room - ring >= n

\* A timer that watches the hardware.
Stuck(late) == late /\ Stalls

\* Mutant: the error flags survive.
KeepErrors ==
  /\ ready' = FALSE /\ ring' = 0
  /\ UNCHANGED <<busy, errors>>

\* uart_restart(0): both rings and the errors are cleared; the hardware is not.
UartRestart ==
  /\ ready' = FALSE /\ ring' = 0 /\ errors' = FALSE
  /\ UNCHANGED busy

\* uart_init, for a new baud rate: the hardware is set up again too.
UartInit ==
  /\ ready' = FALSE /\ ring' = 0 /\ errors' = FALSE /\ busy' = FALSE

-----------------------------------------------------------------------------
(* task_modbus_rtu_rx.                                                     *)

RxYield(pc) == rxpc' = pc /\ turn' = "tx"
RxStay      == UNCHANGED rxpc /\ turn' = "tx"
ReadOut     == ready' = FALSE /\ UNCHANGED <<errors, ring, busy>>

\* Wait until the line has been silent for 3.5 characters.
RxStart ==
  /\ rxpc = "start" /\ RxYield("pause")
  /\ UNCHANGED <<request, uart, running, num_ch>>

RxPause(late) ==
  /\ rxpc = "pause"
  /\ IF ready THEN RxStay /\ ReadOut
              ELSE (IF late THEN RxYield("listen") ELSE RxStay) /\ UNCHANGED uart
  /\ UNCHANGED <<request, running, num_ch>>

\* Mutant: the transmitter is not looked at.
HastyClear == rxpc = "listen" /\ errors /\ running = 0

\* Errors come first: they are cleared when nothing is sent and the scope is
\* off, and as long as they stand nothing is received.
ClearsErrors == rxpc = "listen" /\ errors /\ running = 0 /\ TxIdle

RxListen ==
  /\ rxpc = "listen"
  /\ \/ ClearsErrors /\ RxStay /\ UartRestart
     \/ errors /\ ~ClearsErrors /\ RxStay /\ UNCHANGED uart
     \/ ~errors /\ ready /\ RxYield("char") /\ ReadOut
     \/ ~errors /\ ~ready /\ RxStay /\ UNCHANGED uart
  /\ UNCHANGED <<request, running, num_ch>>

\* A pause of 1.5 characters ends the packet; bytes before the pause of 3.5
\* characters make it a broken one.
RxChar(late) ==
  /\ rxpc = "char"
  /\ \/ ready /\ RxStay /\ ReadOut
     \/ ~ready /\ late /\ rxpc' = "silence" /\ UNCHANGED <<turn, uart>>
     \/ ~ready /\ ~late /\ RxStay /\ UNCHANGED uart
  /\ UNCHANGED <<request, running, num_ch>>

RxSilence(late) ==
  /\ rxpc \in {"silence", "broken"}
  /\ \/ ready /\ RxYield("broken") /\ ReadOut
     \/ ~ready /\ late /\ rxpc = "broken" /\ RxYield("listen") /\ UNCHANGED uart
     \/ ~ready /\ ~late /\ RxStay /\ UNCHANGED uart
  /\ UNCHANGED <<request, running, num_ch>>

\* A packet is processed, which never waits. What it does to the line: it is
\* dropped (wrong address or CRC, too short), it stops the scope, keeps it
\* running, sets up its channels, changes the baud rate, or does none of
\* these. A broadcast, a keep-running and a new baud rate are not answered.
Process(answered) ==
  \/ UNCHANGED <<running, num_ch, uart>>
  \/ running' = 0 /\ UNCHANGED <<num_ch, uart>>
  \/ num_ch' \in Channels \union {0} /\ UNCHANGED <<running, uart>>
  \/ ~answered /\ running' \in 0 .. MaxRun /\ UNCHANGED <<num_ch, uart>>
  \/ ~answered /\ UartInit /\ UNCHANGED <<running, num_ch>>

RxProcess ==
  /\ rxpc = "silence" /\ ~ready
  /\ \/ Process(TRUE) /\ rxpc' = "reply" /\ UNCHANGED turn
     \/ Process(FALSE) /\ RxYield("listen")
  /\ UNCHANGED request

\* The reply is handed over when the transmitter is free, and lost when that
\* takes too long.
RxReply(late) ==
  /\ rxpc = "reply"
  /\ \/ TxIdle /\ ~request /\ request' = TRUE /\ RxYield("listen")
     \/ ~(TxIdle /\ ~request) /\ late /\ RxYield("listen") /\ UNCHANGED request
     \/ ~(TxIdle /\ ~request) /\ ~late /\ RxStay /\ UNCHANGED request
  /\ UNCHANGED <<uart, running, num_ch>>

Rx(late) ==
  /\ turn = "rx"
  /\ \/ RxStart \/ RxPause(late) \/ RxListen \/ RxChar(late) \/ RxSilence(late)
     \/ late /\ RxProcess
     \/ RxReply(late)
  /\ UNCHANGED <<tx, scope, fifo, driver>>

-----------------------------------------------------------------------------
(* task_modbus_rtu_tx.                                                     *)

TxYield(pc) == txpc' = pc /\ turn' = "scope"
TxGo(pc)    == txpc' = pc /\ UNCHANGED turn
TxStay      == UNCHANGED txpc /\ turn' = "scope"

TxRequest ==
  /\ \/ txpc = "start" /\ TxYield("request")
     \/ txpc = "request" /\ request /\ TxGo("scope")
     \/ txpc = "request" /\ ~request /\ TxStay
  /\ UNCHANGED <<request, left, driver, uart, running>>

TxBegin ==
  /\ TxGo("settle")
  /\ driver' = TRUE
  /\ left' = Reply
  /\ UNCHANGED running

\* The scope is let finish; after half a second it is told to stop.
TxScope(late) ==
  /\ txpc = "scope"
  /\ \/ late /\ running' = 0 /\ TxGo("stuck") /\ UNCHANGED <<left, driver>>
     \/ ~late /\ ScopeIdle /\ TxBegin
     \/ ~late /\ ~ScopeIdle /\ TxStay /\ UNCHANGED <<left, driver, running>>
  /\ UNCHANGED <<request, uart>>

\* After another half second the reply is sent whatever the scope does.
TxStuck(late) ==
  /\ txpc = "stuck"
  /\ IF ScopeIdle \/ Stuck(late)
     THEN TxBegin
     ELSE TxStay /\ UNCHANGED <<left, driver, running>>
  /\ UNCHANGED <<request, uart>>

TxSettle(late) ==
  /\ txpc = "settle"
  /\ IF late THEN TxGo("writing") ELSE TxStay
  /\ UNCHANGED <<request, left, driver, uart, running>>

\* Bytes are written while there is room for one.
TxWriting(late) ==
  /\ txpc = "writing"
  /\ \/ /\ left > 0 /\ Fits(1)
        /\ left' = left - 1 /\ ring' = ring + 1
        /\ UNCHANGED <<turn, txpc, ready, errors, busy>>
     \/ left > 0 /\ ~Fits(1) /\ Stuck(late) /\ UartRestart /\ TxGo("hold") /\ UNCHANGED left
     \/ left > 0 /\ ~Fits(1) /\ ~Stuck(late) /\ TxStay /\ UNCHANGED <<left, uart>>
     \/ left = 0 /\ TxGo("done") /\ UNCHANGED <<left, uart>>
  /\ UNCHANGED <<request, driver, running>>

TxDrain(late) ==
  /\ txpc = "done"
  /\ \/ TxDone /\ TxGo("hold") /\ UNCHANGED uart
     \/ ~TxDone /\ Stuck(late) /\ TxGo("hold") /\ UartRestart
     \/ ~TxDone /\ ~Stuck(late) /\ TxStay /\ UNCHANGED uart
  /\ UNCHANGED <<request, left, driver, running>>

\* Mutant: the request is not reset.
ForgetfulHold(late) ==
  /\ \/ txpc = "hold" /\ late /\ driver' = FALSE /\ TxGo("turn")
     \/ txpc = "turn" /\ late /\ TxYield("request") /\ UNCHANGED driver
     \/ txpc \in {"hold", "turn"} /\ ~late /\ TxStay /\ UNCHANGED driver
  /\ UNCHANGED <<request, left, uart, running>>

\* The driver is held for a millisecond, then the line is left to the host.
TxHold(late) ==
  /\ \/ txpc = "hold" /\ late /\ driver' = FALSE /\ TxGo("turn") /\ UNCHANGED request
     \/ txpc = "turn" /\ late /\ request' = FALSE /\ TxYield("request") /\ UNCHANGED driver
     \/ txpc \in {"hold", "turn"} /\ ~late /\ TxStay /\ UNCHANGED <<request, driver>>
  /\ UNCHANGED <<left, uart, running>>

Tx(late) ==
  /\ turn = "tx"
  /\ \/ TxRequest \/ TxScope(late) \/ TxStuck(late) \/ TxSettle(late)
     \/ TxWriting(late) \/ TxDrain(late) \/ TxHold(late)
  /\ UNCHANGED <<rxpc, scope, fifo, num_ch>>

-----------------------------------------------------------------------------
(* task_modbus_scope_tx.                                                   *)

ScopeYield(pc) == scpc' = pc /\ turn' = "failsafe"
ScopeGo(pc)    == scpc' = pc /\ UNCHANGED turn
ScopeStay      == UNCHANGED scpc /\ turn' = "failsafe"

\* Mutant: PT_WAIT_UNTIL instead of PT_YIELD_UNTIL, so that the next
\* transaction may begin at once.
GreedyIdle == ScopeGo("idle") /\ overflow' = FALSE /\ UNCHANGED samples

\* Back to idle. The ring may be filled again after an overflow.
ToIdle == ScopeYield("idle") /\ overflow' = FALSE /\ UNCHANGED samples

\* The hardware gave up: the scope is stopped.
ScopeStuck == running' = 0 /\ UartRestart /\ ToIdle

ScopeStart ==
  /\ scpc = "start" /\ ToIdle
  /\ UNCHANGED <<counter, driver, uart, running>>

\* Half a ring of samples, or one sample a while after the last transaction.
ShouldBegin(late) == samples >= Depth \div 2 \/ (late /\ samples >= num_ch)

Begins(late) == scpc = "idle" /\ running >= 2 /\ RxIdle /\ TxIdle /\ ShouldBegin(late)

ScopeIdles(late) ==
  /\ scpc = "idle"
  /\ IF Begins(late)
     THEN running' = running - 1 /\ driver' = TRUE /\ ScopeGo("preamble")
     ELSE ScopeStay /\ UNCHANGED <<running, driver>>
  /\ UNCHANGED <<counter, uart, fifo>>

Written(n) == ring' = ring + n /\ UNCHANGED <<ready, errors, busy>>

ScopePreamble(late) ==
  /\ scpc = "preamble"
  /\ \/ Fits(Preamble) /\ Written(Preamble) /\ counter' = 0 /\ ScopeYield("samples")
        /\ UNCHANGED <<fifo, running>>
     \/ ~Fits(Preamble) /\ Stuck(late) /\ ScopeStuck /\ UNCHANGED counter
     \/ ~Fits(Preamble) /\ ~Stuck(late) /\ ScopeStay /\ UNCHANGED <<counter, uart, fifo, running>>
  /\ UNCHANGED driver

\* A transaction ends between samples, or anywhere once the scope is off.
AtBoundary == counter = 0 \/ running = 0
Drained    == samples = 0 /\ TxDone /\ AtBoundary
CanMove    == samples > 0 /\ Fits(Word)

\* late: nothing moved for 200 ms, because the hardware is stuck or because
\* no sample came; long: the transaction has lasted 300 ms.
ScopeSamples(late) ==
  /\ scpc = "samples"
  /\ \E long \in BOOLEAN :
       LET over == Drained \/ (long /\ AtBoundary)
           dead == late /\ (Stalls \/ (samples = 0 /\ TxDone))
       IN  \/ over /\ ScopeGo("crc") /\ UNCHANGED <<uart, fifo, running>>
           \/ ~over /\ dead /\ ScopeStuck
           \/ ~over /\ ~dead /\ (CanMove \/ long) /\ ScopeGo("sending")
              /\ UNCHANGED <<uart, fifo, running>>
           \/ ~over /\ ~dead /\ ~CanMove /\ ~long /\ ScopeStay
              /\ UNCHANGED <<uart, fifo, running>>
  /\ UNCHANGED <<counter, driver>>

\* One word goes from the scope's ring to the UART's. After the last channel
\* the transaction ends when it has lasted, the overflow is drained, the
\* scope is off, or enough has been sent.
ScopeSending(late) ==
  /\ scpc = "sending"
  /\ \/ /\ CanMove
        /\ Written(Word)
        /\ samples' = samples - 1
        /\ \/ counter + 1 < num_ch /\ counter' = counter + 1 /\ UNCHANGED <<turn, scpc>>
           \/ /\ counter + 1 >= num_ch /\ counter' = 0
              /\ \E enough \in BOOLEAN :
                   ScopeGo(IF \/ late /\ ~overflow
                              \/ samples' = 0 /\ overflow
                              \/ running = 0
                              \/ enough
                           THEN "crc" ELSE "sending")
        /\ UNCHANGED overflow
     \/ ~CanMove /\ ScopeYield("samples") /\ UNCHANGED <<counter, uart, fifo>>
  /\ UNCHANGED <<driver, running>>

ScopeCrc(late) ==
  /\ scpc = "crc"
  /\ \/ Fits(Trailer) /\ Written(Trailer) /\ ScopeGo("flush") /\ UNCHANGED <<fifo, running>>
     \/ ~Fits(Trailer) /\ Stuck(late) /\ ScopeStuck
     \/ ~Fits(Trailer) /\ ~Stuck(late) /\ ScopeStay /\ UNCHANGED <<uart, fifo, running>>
  /\ UNCHANGED <<counter, driver>>

ScopeFlush(late) ==
  /\ scpc = "flush"
  /\ \/ TxDone /\ driver' = FALSE /\ ScopeGo("rest") /\ UNCHANGED <<uart, fifo, running>>
     \/ ~TxDone /\ Stuck(late) /\ ScopeStuck /\ UNCHANGED driver
     \/ ~TxDone /\ ~Stuck(late) /\ ScopeStay /\ UNCHANGED <<driver, uart, fifo, running>>
  /\ UNCHANGED counter

ScopeRest(late) ==
  /\ scpc = "rest"
  /\ IF late THEN ToIdle ELSE ScopeStay /\ UNCHANGED fifo
  /\ UNCHANGED <<counter, driver, uart, running>>

Scope(late) ==
  /\ turn = "scope"
  /\ \/ ScopeStart \/ ScopeIdles(late) \/ ScopePreamble(late) \/ ScopeSamples(late)
     \/ ScopeSending(late) \/ ScopeCrc(late) \/ ScopeFlush(late) \/ ScopeRest(late)
  /\ UNCHANGED <<rx, tx, num_ch>>

-----------------------------------------------------------------------------
\* Mutant: no failsafe.
NoFailsafe ==
  /\ turn = "failsafe" /\ turn' = "rx"
  /\ UNCHANGED <<rx, tx, scope, driver, uart, fifo, running, num_ch>>

\* The end of a pass of modbus_rtu_task: an idle line has its driver off.
Failsafe ==
  /\ turn = "failsafe" /\ turn' = "rx"
  /\ driver' = (driver /\ ~(RxIdle /\ TxIdle /\ ScopeIdle))
  /\ UNCHANGED <<rx, tx, scope, uart, fifo, running, num_ch>>

Task(late) == Rx(late) \/ Tx(late) \/ Scope(late) \/ Failsafe

-----------------------------------------------------------------------------
(* The control interrupt: modbus_scope_tick, then uart_hw_task.            *)

FifoFree == Depth - 1 - samples

\* Mutant: an overflow does not count the scope down.
EndlessTick(due) ==
  \/ /\ running >= 1 /\ due /\ FifoFree >= num_ch
     /\ samples' = IF overflow THEN samples ELSE samples + num_ch
     /\ UNCHANGED <<running, overflow>>
  \/ running >= 1 /\ due /\ FifoFree < num_ch /\ overflow' = TRUE /\ UNCHANGED <<running, samples>>
  \/ running >= 1 /\ ~due /\ UNCHANGED <<running, fifo>>
  \/ running = 0 /\ samples' = 0 /\ overflow' = FALSE /\ UNCHANGED running

\* A sample of every channel goes into the ring when it is due and fits. A
\* full ring takes none until it is drained; the last count of running ends
\* with it. A scope that is off has an empty ring.
Tick(due) ==
  \/ /\ running >= 1 /\ due /\ FifoFree >= num_ch
     /\ samples' = IF overflow THEN samples ELSE samples + num_ch
     /\ running' = IF overflow /\ running = 1 THEN 0 ELSE running
     /\ UNCHANGED overflow
  \/ /\ running >= 1 /\ due /\ FifoFree < num_ch
     /\ overflow' = TRUE
     /\ running' = IF running = 1 THEN 0 ELSE running
     /\ UNCHANGED samples
  \/ running >= 1 /\ ~due /\ UNCHANGED <<running, fifo>>
  \/ running = 0 /\ samples' = 0 /\ overflow' = FALSE /\ UNCHANGED running

\* Bytes move between the rings and the hardware; a byte may come damaged.
UartTask ==
  /\ \/ UNCHANGED <<ready, errors>>
     \/ ready' = TRUE /\ errors' \in {errors, TRUE}
  /\ ring' \in 0 .. ring
  /\ busy' = (busy \/ ring' < ring)

Isr(due) ==
  /\ Tick(due) /\ UartTask
  /\ UNCHANGED <<turn, rx, tx, scope, driver, num_ch>>

\* The hardware has sent what it had.
Sent ==
  /\ busy /\ busy' = FALSE
  /\ UNCHANGED <<turn, rx, tx, scope, driver, ready, errors, ring, fifo, running, num_ch>>

Next ==
  \/ \E late \in BOOLEAN : Task(late)
  \/ \E due \in BOOLEAN : Isr(due)
  \/ Sent

\* The main loop goes on, the scope's samples come, and every timer a thread
\* keeps asking is late some time. A transaction, whose time and bytes only
\* grow, is over some time if it is asked between samples again and again.
\* The UART hardware sends what it is given, unless it may stall.
Fairness ==
  /\ WF_vars(\E late \in BOOLEAN : Task(late))
  /\ SF_vars(Rx(TRUE)) /\ SF_vars(Tx(TRUE)) /\ SF_vars(Scope(TRUE))
  /\ SF_vars(Scope(TRUE) /\ scpc \in {"samples", "sending"} /\ scpc' = "crc")
  /\ WF_vars(Isr(TRUE))

  /\ ~Stalls => WF_vars(Sent) /\ WF_vars(Isr(TRUE) /\ ring > 0 /\ ring' = 0)

Spec     == Init /\ [][Next]_vars
LiveSpec == Spec /\ Fairness

-----------------------------------------------------------------------------
(* Properties. The first two are about hardware that works (~Stalls).      *)

\* The reply and the scope never talk at once: one sees the other's state in
\* the resume in which it starts.
OneTalker == TxIdle \/ ScopeIdle

\* The UART sends only with the driver on and somebody talking: no one turns
\* it off under a byte, and no one leaves bytes behind.
SendingIsDriven == ring > 0 \/ busy => driver /\ ~(TxIdle /\ ScopeIdle)

\* While a reply is being sent, only the hardware takes bytes from the ring:
\* neither the clearing of errors nor the scope restarts the UART. The host
\* may, with a new baud rate.
ReplySpared == [][~TxIdle /\ ring' < ring => turn' = turn \/ rxpc = "silence"]_vars

\* The scope never begins a transaction while a reply waits (the yield of
\* modbus_scope.c:149 lets the transmitter see it idle first).
ReplyFirst == [][ScopeIdle /\ ~ScopeIdle' => ~request]_vars

\* A reply handed over is sent, whatever the scope does.
ReplySent == request ~> ~request

\* A receiver that stands at an error is restarted, if the scope has channels:
\* the count of running and the overflow of its ring stop the scope first.
DeafnessEnds == (errors /\ RxIdle /\ num_ch > 0) ~> ~errors

\* When the host goes silent, the scope runs down and stops.
HostSilent == <>[](rxpc = "listen")
ScopeStops == HostSilent => <>[](running = 0 \/ num_ch = 0)

\* When the host goes silent, the reply and the scope come to an end and the
\* line is left to it for good, even by a UART that stops sending.
LineFreed == HostSilent => <>[](~request /\ ~driver)

\* modbus_rtu.c:274: "let TX transaction finish before resetting uart".
ResetWaits == [][rxpc = "listen" /\ errors /\ ~errors' => TxIdle /\ ScopeIdle]_vars

\* modbus_rtu.c:273: the receiver is protected "against BRKDT and framing
\* errors", with any setting of the scope.
ErrorsCleared == (errors /\ RxIdle) ~> ~errors
=============================================================================
