---------------------------- MODULE ModbusProofs ----------------------------
(***************************************************************************)
(* Proofs about ModbusRtu, for any sizes of the rings and frames, any      *)
(* channel counts and any count of running the host may send.              *)
(***************************************************************************)
EXTENDS ModbusRtu, TLAPS

\* Whose bytes are under way, and who has turned the driver on.
Pouring == txpc \in {"writing", "done"} \/ scpc \in {"samples", "sending", "crc", "flush"}
Driving == \/ txpc \in {"settle", "writing", "done", "hold"}
           \/ scpc \in {"preamble", "samples", "sending", "crc", "flush"}

\* A reply that waits when it is the scope's turn has seen the scope busy or has
\* begun. This is so on any hardware.
ReplySeen ==
  /\ txpc = "start" => ~request
  /\ turn = "scope" /\ scpc = "idle" => ~request \/ ~TxIdle

\* What makes OneTalker and SendingIsDriven hold: bytes are under way only while
\* somebody pours them, and a talker has the driver on.
LineHeld ==
  /\ ReplySeen
  /\ OneTalker
  /\ ring > 0 \/ busy => Pouring
  /\ Driving => driver

(***************************************************************************)
(* The flags stay flags. The two halves of TypeOK have proofs of their own *)
(* because no prover takes truth values and numbers at once.               *)
(***************************************************************************)
LEMMA RxFlags ==
  ASSUME Flags, NEW late \in BOOLEAN, Rx(late)
  PROVE  Flags'
<1>1. driver' = driver /\ overflow' = overflow
  BY DEF Rx, fifo
<1>2. request' \in BOOLEAN
  BY DEF Flags, Rx, RxStart, RxPause, RxListen, RxChar, RxSilence, RxProcess, RxReply
<1>3. (ready' \in BOOLEAN /\ errors' \in BOOLEAN) /\ busy' \in BOOLEAN
  BY DEF Flags, Rx, RxStart, RxPause, RxListen, RxChar, RxSilence, RxProcess, RxReply,
         Process, ReadOut, UartRestart, UartInit, uart
<1> QED BY <1>1, <1>2, <1>3 DEF Flags

LEMMA TxFlags ==
  ASSUME Flags, NEW late \in BOOLEAN, Tx(late)
  PROVE  Flags'
<1>1. overflow' = overflow
  BY DEF Tx, fifo
<1>2. request' \in BOOLEAN /\ driver' \in BOOLEAN
  BY DEF Flags, Tx, TxRequest, TxScope, TxStuck, TxBegin, TxSettle, TxWriting,
     TxDrain, TxHold
<1>3. (ready' \in BOOLEAN /\ errors' \in BOOLEAN) /\ busy' \in BOOLEAN
  BY DEF Flags, Tx, TxRequest, TxScope, TxStuck, TxBegin, TxSettle, TxWriting,
     TxDrain, TxHold,
         UartRestart, uart
<1> QED BY <1>1, <1>2, <1>3 DEF Flags

LEMMA ScopeFlags ==
  ASSUME Flags, NEW late \in BOOLEAN, Scope(late)
  PROVE  Flags'
<1> USE DEF ScopeStart, ScopeIdles, ScopePreamble, ScopeSamples, ScopeSending,
   ScopeCrc,
            ScopeFlush, ScopeRest, ScopeStuck
<1>1. request' = request
  BY DEF Scope, rx
<1>2. driver' \in BOOLEAN
  BY DEF Flags, Scope
<1>3. overflow' \in BOOLEAN
  BY DEF Flags, Scope, ToIdle, fifo
<1>4. (ready' \in BOOLEAN /\ errors' \in BOOLEAN) /\ busy' \in BOOLEAN
  BY DEF Flags, Scope, UartRestart, Written, uart
<1> QED BY <1>1, <1>2, <1>3, <1>4 DEF Flags

LEMMA IsrFlags ==
  ASSUME Flags, NEW due \in BOOLEAN, Isr(due)
  PROVE  Flags'
<1>1. request' = request /\ driver' = driver
  BY DEF Isr, rx
<1>2. ready' \in BOOLEAN /\ errors' \in BOOLEAN
  BY DEF Flags, Isr, UartTask
<1>3. busy' \in BOOLEAN
  BY DEF Isr, UartTask
<1>4. overflow' \in BOOLEAN
  BY DEF Flags, Isr, Tick, fifo
<1> QED BY <1>1, <1>2, <1>3, <1>4 DEF Flags

(***************************************************************************)
(* The receiver's resumes keep the places and sizes.                       *)
(***************************************************************************)
LEMMA RxSizes ==
  ASSUME Sizes, NEW late \in BOOLEAN, Rx(late)
  PROVE  Sizes'
<1> USE DEF Sizes
<1>1. UNCHANGED <<txpc, left, scpc, counter, samples>>
  BY DEF Rx, tx, scope, fifo
<1>2. rxpc' \in {"start", "pause", "listen", "char", "silence", "broken", "reply"}
      /\ turn' \in {"rx", "tx"}
  BY DEF Rx, RxStart, RxPause, RxListen, RxChar, RxSilence, RxProcess, RxReply,
     RxYield, RxStay
<1>3. ring' = ring \/ ring' = 0
  BY DEF Rx, RxStart, RxPause, RxListen, RxChar, RxSilence, RxProcess, RxReply,
         Process, ReadOut, UartRestart, UartInit, uart
<1>4. /\ running' = running \/ running' \in 0 .. MaxRun \/ running' = 0
      /\ num_ch' = num_ch \/ num_ch' \in Channels \union {0}
  BY DEF Rx, RxStart, RxPause, RxListen, RxChar, RxSilence, RxProcess, RxReply,
     Process
<1> QED BY <1>1, <1>2, <1>3, <1>4, ModbusConstants

(***************************************************************************)
(* The transmitter's resumes keep the places and sizes: a byte is written  *)
(* only where there is room.                                               *)
(***************************************************************************)
LEMMA TxSizes ==
  ASSUME Sizes, NEW late \in BOOLEAN, Tx(late)
  PROVE  Sizes'
<1> USE DEF Sizes
<1>1. UNCHANGED <<rxpc, scpc, counter, samples, num_ch>>
  BY DEF Tx, scope, fifo
<1>2. /\ txpc' \in {"start", "request", "scope", "stuck", "settle", "writing", "done", "hold",
                    "turn"}
      /\ turn' \in {"tx", "scope"}
  BY DEF Tx, TxRequest, TxScope, TxStuck, TxBegin, TxSettle, TxWriting, TxDrain,
     TxHold,
         TxYield, TxGo, TxStay
<1>3. ring' = ring \/ ring' = 0 \/ (Fits(1) /\ ring' = ring + 1)
  BY DEF Tx, TxRequest, TxScope, TxStuck, TxBegin, TxSettle, TxWriting, TxDrain,
     TxHold,
         UartRestart, uart
<1>4. /\ left' = left \/ left' = Reply \/ (left > 0 /\ left' = left - 1)
      /\ running' = running \/ running' = 0
  BY DEF Tx, TxRequest, TxScope, TxStuck, TxBegin, TxSettle, TxWriting, TxDrain,
     TxHold
<1>5. ring' \in 0 .. Room
  BY <1>3, ModbusConstants DEF Fits
<1>6. left' \in 0 .. Reply /\ running' \in 0 .. MaxRun
  BY <1>4, ModbusConstants
<1> QED BY <1>1, <1>2, <1>5, <1>6

(***************************************************************************)
(* The scope's resumes keep the places and sizes: no part of a frame       *)
(* overruns the UART's ring and no sample is taken from an empty one.      *)
(***************************************************************************)
LEMMA ScopeSizes ==
  ASSUME Sizes, NEW late \in BOOLEAN, Scope(late)
  PROVE  Sizes'
<1> USE DEF Sizes
<1>1. UNCHANGED <<rxpc, txpc, left, num_ch>>
  BY DEF Scope, rx, tx
<1>2. /\ scpc' \in {"start", "idle", "preamble", "samples", "sending", "crc", "flush", "rest"}
      /\ turn' \in {"scope", "failsafe"}
  BY DEF Scope, ScopeStart, ScopeIdles, ScopePreamble, ScopeSamples, ScopeSending,
     ScopeCrc,
         ScopeFlush, ScopeRest, ScopeStuck, ToIdle, ScopeYield, ScopeGo, ScopeStay
<1>3. \/ ring' = ring \/ ring' = 0
      \/ \E n \in {Preamble, Word, Trailer} : Fits(n) /\ ring' = ring + n
  BY DEF Scope, ScopeStart, ScopeIdles, ScopePreamble, ScopeSamples, ScopeSending,
     ScopeCrc,
         ScopeFlush, ScopeRest, ScopeStuck, UartRestart, Written, CanMove, uart
<1>4. ring' \in 0 .. Room
  BY <1>3, ModbusConstants DEF Fits
<1>5. samples' = samples \/ (samples > 0 /\ samples' = samples - 1)
  BY DEF Scope, ScopeStart, ScopeIdles, ScopePreamble, ScopeSamples, ScopeSending,
     ScopeCrc,
         ScopeFlush, ScopeRest, ScopeStuck, ToIdle, CanMove, fifo
<1>6. counter' = counter \/ counter' = 0 \/ (counter + 1 < num_ch /\ counter' = counter + 1)
  BY DEF Scope, ScopeStart, ScopeIdles, ScopePreamble, ScopeSamples, ScopeSending,
     ScopeCrc,
         ScopeFlush, ScopeRest
<1>7. running' = running \/ running' = 0 \/ (running >= 2 /\ running' = running - 1)
  BY DEF Scope, ScopeStart, ScopeIdles, Begins, ScopePreamble, ScopeSamples,
     ScopeSending,
         ScopeCrc, ScopeFlush, ScopeRest, ScopeStuck
<1>8. counter' \in Nat /\ (counter' = 0 \/ \E n \in Channels : counter' < n)
  BY <1>6, ModbusConstants
<1>9. samples' \in 0 .. Depth - 1 /\ running' \in 0 .. MaxRun
  BY <1>5, <1>7, ModbusConstants
<1> QED BY <1>1, <1>2, <1>4, <1>8, <1>9

(***************************************************************************)
(* The interrupt never overfills the scope's ring.                         *)
(***************************************************************************)
LEMMA IsrSizes ==
  ASSUME Sizes, NEW due \in BOOLEAN, Isr(due)
  PROVE  Sizes'
<1> USE DEF Sizes
<1>1. UNCHANGED <<turn, rxpc, txpc, left, scpc, counter, num_ch>>
  BY DEF Isr, rx, tx, scope
<1>2. ring' \in 0 .. Room
  BY ModbusConstants DEF Isr, UartTask
<1>3. samples' = samples \/ samples' = 0 \/ (FifoFree >= num_ch /\ samples' = samples + num_ch)
  BY DEF Isr, Tick, fifo
<1>4. running' = running \/ running' = 0
  BY DEF Isr, Tick
<1>5. samples' \in 0 .. Depth - 1 /\ running' \in 0 .. MaxRun
  <2>1. num_ch \in Nat
    BY ModbusConstants
  <2> QED BY <1>3, <1>4, <2>1, ModbusConstants DEF FifoFree
<1> QED BY <1>1, <1>2, <1>5

LEMMA TypeStep == TypeOK /\ [Next]_vars => TypeOK'
<1> SUFFICES ASSUME TypeOK, [Next]_vars PROVE Flags' /\ Sizes'
  BY DEF TypeOK
<1>1. Flags /\ Sizes
  BY DEF TypeOK
<1>2. ASSUME NEW late \in BOOLEAN, Task(late) PROVE Flags' /\ Sizes'
  <2>1. CASE Failsafe
    <3>1. driver' \in BOOLEAN
      BY <2>1 DEF Failsafe
    <3>2. Flags'
      BY <1>1, <2>1, <3>1 DEF Failsafe, Flags, rx, uart, fifo
    <3>3. Sizes'
      BY <1>1, <2>1 DEF Failsafe, Sizes, rx, tx, scope, uart, fifo
    <3> QED BY <3>2, <3>3
  <2> QED BY <1>1, <1>2, <2>1, RxFlags, RxSizes, TxFlags, TxSizes, ScopeFlags,
     ScopeSizes DEF Task
<1>3. CASE Sent
  <2>1. busy' \in BOOLEAN
    BY <1>3 DEF Sent
  <2>2. Flags'
    BY <1>1, <1>3, <2>1 DEF Sent, Flags, rx, fifo
  <2>3. Sizes'
    BY <1>1, <1>3 DEF Sent, Sizes, rx, tx, scope, fifo
  <2> QED BY <2>2, <2>3
<1>4. CASE UNCHANGED vars
  BY <1>1, <1>4 DEF vars, Flags, Sizes, rx, tx, scope, uart, fifo
<1> QED BY <1>1, <1>2, <1>3, <1>4, IsrFlags, IsrSizes DEF Next

(***************************************************************************)
(* Every variable keeps its type: the rings are never overfilled and never *)
(* emptied below zero, and modbus_scope_running never wraps.               *)
(***************************************************************************)
THEOREM ModbusTypeCorrect == Spec => []TypeOK
<1>1. Init => TypeOK
  <2> SUFFICES ASSUME Init PROVE Flags /\ Sizes
    BY DEF TypeOK
  <2>1. Flags
    BY DEF Init, Flags
  <2>2. Sizes
    BY ModbusConstants DEF Init, Sizes
  <2> QED BY <2>1, <2>2
<1> QED BY <1>1, TypeStep, PTL DEF Spec

(***************************************************************************)
(* On working hardware, the receiver's resumes keep LineHeld: only clearing*)
(* takes bytes away, and a reply is handed to an idle transmitter.         *)
(***************************************************************************)
LEMMA RxLine ==
  ASSUME Sizes, LineHeld, NEW late \in BOOLEAN, Rx(late)
  PROVE  LineHeld'
<1> USE DEF LineHeld, ReplySeen
<1>1. UNCHANGED <<txpc, scpc, driver>>
  BY DEF Rx, tx, scope
<1>2. UNCHANGED <<ring, busy>> \/ (ring' = 0 /\ busy' = busy) \/ (ring' = 0 /\ busy' = FALSE)
  BY DEF Rx, RxStart, RxPause, RxListen, RxChar, RxSilence, RxProcess, RxReply,
         Process, ReadOut, UartRestart, UartInit, uart
<1>3. request' = request \/ TxIdle
  BY DEF Rx, RxStart, RxPause, RxListen, RxChar, RxSilence, RxProcess, RxReply
<1>4. turn' \in {"rx", "tx"}
  BY DEF Rx, RxStart, RxPause, RxListen, RxChar, RxSilence, RxProcess, RxReply,
     RxYield, RxStay
<1>5. OneTalker'
  BY <1>1 DEF OneTalker, TxIdle, ScopeIdle
<1>6. (ring > 0 \/ busy => Pouring)'
  BY <1>1, <1>2 DEF Pouring
<1>7. (Driving => driver)'
  BY <1>1 DEF Driving
<1>8. (txpc = "start" => ~request)'
  BY <1>1, <1>3 DEF TxIdle
<1> QED BY <1>4, <1>5, <1>6, <1>7, <1>8

LEMMA TxLine ==
  ASSUME ~Stalls, Sizes, LineHeld, NEW late \in BOOLEAN, Tx(late)
  PROVE  LineHeld'
<1> USE DEF LineHeld, ReplySeen, TxYield, TxGo, TxStay
<1>1. scpc' = scpc /\ turn = "tx"
  BY DEF Tx, scope
<1>2. CASE TxRequest
  <2>1. UNCHANGED <<ring, busy, driver, request>> /\ txpc \in {"start", "request"}
    BY <1>2 DEF TxRequest, uart
  <2>2. \/ txpc' = "scope" /\ txpc = "request" /\ turn' = "tx"
        \/ txpc' = "request" /\ ~request
    BY <1>1, <1>2 DEF TxRequest
  <2>3. ScopeIdle' = ScopeIdle
    BY <1>1 DEF ScopeIdle
  <2> QED BY <1>1, <2>1, <2>2, <2>3 DEF OneTalker, TxIdle, ScopeIdle, Pouring, Driving
<1>3. CASE TxBegin /\ ScopeIdle /\ TxIdle /\ UNCHANGED uart
  <2>1. txpc' = "settle" /\ driver' = TRUE /\ ScopeIdle'
    BY <1>1, <1>3 DEF TxBegin, ScopeIdle
  <2>2. ~Pouring /\ UNCHANGED <<ring, busy>>
    BY <1>3 DEF Pouring, ScopeIdle, TxIdle, uart
  <2>3. ~(ring > 0 \/ busy)'
    BY <2>2
  <2>4. turn' = "tx" /\ OneTalker'
    BY <1>1, <1>3, <2>1 DEF TxBegin, OneTalker
  <2>5. (Driving => driver)' /\ (txpc = "start" => ~request)'
    BY <2>1
  <2> QED BY <2>3, <2>4, <2>5
<1>4. CASE TxScope(late)
  <2>1. CASE TxBegin
    <3>1. txpc = "scope" /\ UNCHANGED uart /\ ScopeIdle
      BY <1>1, <1>4, <2>1 DEF TxScope, TxBegin
    <3> QED BY <1>3, <2>1, <3>1 DEF TxIdle
  <2>2. CASE ~TxBegin
    <3>1. /\ UNCHANGED <<ring, busy, driver, request>> /\ txpc = "scope"
          /\ \/ txpc' = "stuck" /\ turn' = "tx"
             \/ txpc' = "scope" /\ ~ScopeIdle
      BY <1>1, <1>4, <2>2 DEF TxScope, uart
    <3> QED BY <1>1, <3>1 DEF OneTalker, TxIdle, ScopeIdle, Pouring, Driving
  <2> QED BY <2>1, <2>2
<1>5. CASE TxStuck(late)
  <2>1. CASE ScopeIdle
    BY <1>3, <1>5, <2>1 DEF TxStuck, Stuck, TxIdle
  <2>2. CASE ~ScopeIdle
    <3>1. /\ UNCHANGED <<ring, busy, driver, request>>
          /\ txpc = "stuck" /\ txpc' = "stuck"
      BY <1>5, <2>2 DEF TxStuck, Stuck, uart
    <3> QED BY <1>1, <2>2, <3>1 DEF OneTalker, TxIdle, ScopeIdle, Pouring, Driving
  <2> QED BY <2>1, <2>2
<1>6. CASE TxSettle(late)
  <2>1. /\ UNCHANGED <<ring, busy, driver, request>>
        /\ txpc = "settle" /\ txpc' \in {"settle", "writing"}
    BY <1>6 DEF TxSettle, uart
  <2> QED BY <1>1, <2>1 DEF OneTalker, TxIdle, ScopeIdle, Pouring, Driving
<1>7. CASE TxWriting(late)
  <2>1. UNCHANGED driver /\ txpc = "writing" /\ txpc' \in {"writing", "done"}
    BY <1>7 DEF TxWriting, Stuck
  <2> QED BY <1>1, <2>1 DEF OneTalker, TxIdle, ScopeIdle, Pouring, Driving
<1>8. CASE TxDrain(late)
  <2>1. /\ UNCHANGED <<ring, busy, driver>> /\ txpc = "done"
        /\ txpc' = "done" \/ (txpc' = "hold" /\ TxDone)
    BY <1>8 DEF TxDrain, Stuck, uart
  <2>2. (ring > 0 \/ busy => Pouring)'
    BY <1>1, <2>1 DEF TxDone, Pouring
  <2> QED BY <1>1, <2>1, <2>2 DEF OneTalker, TxIdle, ScopeIdle, Driving
<1>9. CASE TxHold(late)
  <2>1. UNCHANGED <<ring, busy>> /\ txpc \in {"hold", "turn"}
    BY <1>9 DEF TxHold, uart
  <2>2. \/ txpc' = "turn" /\ driver' = FALSE
        \/ txpc' = "request" /\ request' = FALSE /\ driver' = driver
        \/ txpc' = txpc /\ driver' = driver
    BY <1>9 DEF TxHold
  <2>3. ScopeIdle
    BY <2>1 DEF OneTalker, TxIdle
  <2>4. (OneTalker /\ (ring > 0 \/ busy => Pouring))'
    BY <1>1, <2>1, <2>2, <2>3 DEF OneTalker, TxIdle, ScopeIdle, Pouring
  <2>5. (Driving => driver)'
    BY <1>1, <2>1, <2>2, <2>3 DEF Driving, ScopeIdle
  <2>6. (turn = "scope" /\ scpc = "idle" => ~request \/ ~TxIdle)'
    BY <1>1, <2>1, <2>2 DEF TxIdle
  <2> QED BY <2>1, <2>2, <2>4, <2>5, <2>6
<1> QED BY <1>2, <1>4, <1>5, <1>6, <1>7, <1>8, <1>9 DEF Tx

(***************************************************************************)
(* The scope's resumes keep LineHeld: it begins beside an idle transmitter *)
(* and turns the driver off when its last byte is out.                     *)
(***************************************************************************)
LEMMA ScopeLine ==
  ASSUME ~Stalls, Sizes, LineHeld, NEW late \in BOOLEAN, Scope(late)
  PROVE  LineHeld'
<1> USE DEF LineHeld, ReplySeen, ScopeYield, ScopeGo, ScopeStay, ToIdle
<1>1. UNCHANGED <<txpc, request>> /\ turn = "scope"
  BY DEF Scope, rx, tx
<1>2. turn' = "failsafe" \/ (turn' = "scope" /\ scpc' # "idle")
  BY <1>1 DEF Scope, ScopeStart, ScopeIdles, ScopePreamble, ScopeSamples,
     ScopeSending, ScopeCrc,
         ScopeFlush, ScopeRest, ScopeStuck
<1>3. (txpc = "start" => ~request)' /\ (turn = "scope" /\ scpc = "idle" => ~request \/ ~TxIdle)'
  BY <1>1, <1>2
<1>4. TxIdle' = TxIdle
  BY <1>1 DEF TxIdle
<1>5. CASE ScopeStart \/ ScopeRest(late)
  <2>1. /\ UNCHANGED <<ring, busy, driver>> /\ scpc \in {"start", "rest"}
        /\ scpc' \in {"idle", "rest"}
    BY <1>5 DEF ScopeStart, ScopeRest, uart
  <2>2. scpc = "start" => scpc' = "idle"
    BY <1>5 DEF ScopeStart, ScopeRest
  <2> QED BY <1>1, <1>3, <1>4, <2>1, <2>2 DEF OneTalker, ScopeIdle, Pouring, Driving
<1>6. CASE ScopeIdles(late)
  <2>1. CASE Begins(late)
    <3>1. /\ UNCHANGED <<ring, busy>> /\ scpc' = "preamble" /\ driver' = TRUE
          /\ scpc = "idle" /\ TxIdle
      BY <1>6, <2>1 DEF ScopeIdles, Begins, uart
    <3> QED BY <1>1, <1>3, <1>4, <3>1 DEF OneTalker, TxIdle, Pouring, Driving
  <2>2. CASE ~Begins(late)
    <3>1. UNCHANGED <<ring, busy, driver, scpc>>
      BY <1>6, <2>2 DEF ScopeIdles, uart
    <3> QED BY <1>1, <1>3, <1>4, <3>1 DEF OneTalker, ScopeIdle, Pouring, Driving
  <2> QED BY <2>1, <2>2
<1>7. CASE ScopePreamble(late)
  <2>1. /\ UNCHANGED driver /\ scpc = "preamble"
        /\ scpc' = "samples" \/ (scpc' = "preamble" /\ UNCHANGED <<ring, busy>>)
    BY <1>7 DEF ScopePreamble, Stuck, uart
  <2> QED BY <1>1, <1>3, <1>4, <2>1 DEF OneTalker, ScopeIdle, Pouring, Driving
<1>8. CASE ScopeSamples(late)
  <2>1. scpc = "samples" /\ driver' = driver
    BY <1>8 DEF ScopeSamples
  <2>2. CASE ScopeStuck /\ TxDone
    <3>1. ring' = 0 /\ busy' = busy /\ ~busy /\ scpc' = "idle"
      BY <2>2 DEF ScopeStuck, UartRestart, TxDone
    <3> QED BY <1>1, <1>3, <1>4, <2>1, <3>1 DEF OneTalker, ScopeIdle, Driving, Pouring
  <2>3. CASE scpc' \in {"samples", "sending", "crc"}
    BY <1>1, <1>3, <1>4, <2>1, <2>3 DEF OneTalker, ScopeIdle, Pouring, Driving
  <2>4. (ScopeStuck /\ TxDone) \/ scpc' \in {"samples", "sending", "crc"}
    BY <1>8 DEF ScopeSamples
  <2> QED BY <2>2, <2>3, <2>4
<1>9. CASE ScopeSending(late)
  <2>1. UNCHANGED driver /\ scpc = "sending" /\ scpc' \in {"samples", "sending", "crc"}
    BY <1>9 DEF ScopeSending
  <2> QED BY <1>1, <1>3, <1>4, <2>1 DEF OneTalker, ScopeIdle, Pouring, Driving
<1>10. CASE ScopeCrc(late)
  <2>1. UNCHANGED driver /\ scpc = "crc" /\ scpc' \in {"crc", "flush"}
    BY <1>10 DEF ScopeCrc, Stuck
  <2> QED BY <1>1, <1>3, <1>4, <2>1 DEF OneTalker, ScopeIdle, Pouring, Driving
<1>11. CASE ScopeFlush(late)
  <2>1. /\ UNCHANGED <<ring, busy>> /\ scpc = "flush"
        /\ \/ scpc' = "flush" /\ driver' = driver
           \/ scpc' = "rest" /\ driver' = FALSE /\ TxDone
    BY <1>11 DEF ScopeFlush, Stuck, uart
  <2>2. (ring > 0 \/ busy => Pouring)'
    BY <1>1, <2>1 DEF TxDone, Pouring
  <2>3. TxIdle
    BY <2>1 DEF OneTalker, ScopeIdle
  <2>4. (Driving => driver)'
    BY <1>1, <2>1, <2>3 DEF Driving, TxIdle
  <2> QED BY <1>3, <1>4, <2>2, <2>3, <2>4 DEF OneTalker
<1> QED BY <1>5, <1>6, <1>7, <1>8, <1>9, <1>10, <1>11 DEF Scope

LEMMA LineStep == ~Stalls /\ TypeOK /\ LineHeld /\ [Next]_vars => LineHeld'
<1> SUFFICES ASSUME ~Stalls, TypeOK, LineHeld, [Next]_vars PROVE LineHeld'
  OBVIOUS
<1>1. Sizes
  BY DEF TypeOK
<1>2. CASE Failsafe
  <2>1. UNCHANGED <<txpc, scpc, request, ring, busy>> /\ turn' = "rx"
    BY <1>2 DEF Failsafe, rx, tx, scope, uart
  <2>2. driver' = (driver /\ ~(RxIdle /\ TxIdle /\ ScopeIdle))
    BY <1>2 DEF Failsafe
  <2>3. Driving => ~(TxIdle /\ ScopeIdle)
    BY DEF Driving, TxIdle, ScopeIdle
  <2>4. (Driving => driver)'
    <3>1. Driving' = Driving
      BY <2>1 DEF Driving
    <3> QED BY <2>2, <2>3, <3>1 DEF LineHeld, ReplySeen
  <2> QED BY <2>1, <2>4 DEF LineHeld, ReplySeen, OneTalker, TxIdle, ScopeIdle, Pouring
<1>3. ASSUME NEW due \in BOOLEAN, Isr(due) PROVE LineHeld'
  <2>1. UNCHANGED <<turn, txpc, scpc, request, driver>>
    BY <1>3 DEF Isr, rx, tx, scope
  <2>2. (ring > 0 \/ busy)' => ring > 0 \/ busy
    BY <1>1, <1>3, ModbusConstants DEF Isr, UartTask, Sizes
  <2> QED BY <2>1, <2>2 DEF LineHeld, ReplySeen, OneTalker, TxIdle, ScopeIdle, Pouring, Driving
<1>4. CASE Sent
  <2>1. UNCHANGED <<turn, txpc, scpc, request, driver, ring>> /\ busy
    BY <1>4 DEF Sent, rx, tx, scope
  <2> QED BY <2>1 DEF LineHeld, ReplySeen, OneTalker, TxIdle, ScopeIdle, Pouring, Driving
<1>5. CASE UNCHANGED vars
  BY <1>5 DEF vars, rx, tx, scope, uart, LineHeld, ReplySeen, OneTalker, TxIdle, ScopeIdle,
     Pouring, Driving
<1> QED BY <1>1, <1>2, <1>3, <1>4, <1>5, RxLine, TxLine, ScopeLine DEF Next, Task

LEMMA LineInit == Init => LineHeld
  BY DEF Init, LineHeld, ReplySeen, OneTalker, TxIdle, ScopeIdle, Pouring, Driving

LEMMA LineInvariant == ~Stalls => (Spec => [](TypeOK /\ LineHeld))
<1> SUFFICES ASSUME ~Stalls PROVE Spec => [](TypeOK /\ LineHeld)
  OBVIOUS
<1>1. TypeOK /\ LineHeld /\ [Next]_vars => LineHeld'
  BY LineStep
<1> QED BY <1>1, ModbusTypeCorrect, LineInit, PTL DEF Spec

(***************************************************************************)
(* A reply and a scope transaction never talk at once on working hardware. *)
(***************************************************************************)
THEOREM OneTalkerCorrect == ~Stalls => (Spec => []OneTalker)
<1> SUFFICES ASSUME ~Stalls PROVE Spec => []OneTalker
  OBVIOUS
<1>1. LineHeld => OneTalker
  BY DEF LineHeld
<1> QED BY <1>1, LineInvariant, PTL

(***************************************************************************)
(* On working hardware no byte is sent with the driver off.                *)
(***************************************************************************)
THEOREM SendingIsDrivenCorrect == ~Stalls => (Spec => []SendingIsDriven)
<1> SUFFICES ASSUME ~Stalls PROVE Spec => []SendingIsDriven
  OBVIOUS
<1>1. LineHeld => SendingIsDriven
  BY DEF LineHeld, SendingIsDriven, Pouring, Driving, TxIdle, ScopeIdle
<1> QED BY <1>1, LineInvariant, PTL

(***************************************************************************)
(* A reply that waits is seen before the scope begins, whatever the        *)
(* hardware does.                                                          *)
(***************************************************************************)
LEMMA SeenStep == ReplySeen /\ [Next]_vars => ReplySeen'
<1> SUFFICES ASSUME ReplySeen, [Next]_vars PROVE ReplySeen'
  OBVIOUS
<1> USE DEF ReplySeen, TxIdle
<1>1. ASSUME NEW late \in BOOLEAN, Rx(late) PROVE ReplySeen'
  <2>1. UNCHANGED <<txpc, scpc>> /\ turn' # "scope"
    BY <1>1 DEF Rx, tx, scope, RxStart, RxPause, RxListen, RxChar, RxSilence, RxProcess,
       RxReply, RxYield, RxStay
  <2>2. request' => request \/ txpc \in {"request", "scope", "stuck"}
    BY <1>1 DEF Rx, RxStart, RxPause, RxListen, RxChar, RxSilence, RxProcess, RxReply
  <2> QED BY <2>1, <2>2
<1>2. ASSUME NEW late \in BOOLEAN, Tx(late) PROVE ReplySeen'
  <2>0. turn = "tx" /\ UNCHANGED scpc
    BY <1>2 DEF Tx, scope
  <2>1. CASE TxRequest
    BY <2>0, <2>1 DEF TxRequest, TxYield, TxGo, TxStay
  <2>2. CASE TxScope(late)
    BY <2>0, <2>2 DEF TxScope, TxBegin, TxGo, TxStay, ScopeIdle
  <2>3. CASE TxStuck(late)
    BY <2>0, <2>3 DEF TxStuck, TxBegin, TxGo, TxStay, ScopeIdle
  <2>4. CASE TxSettle(late) \/ TxWriting(late) \/ TxDrain(late)
    BY <2>0, <2>4 DEF TxSettle, TxWriting, TxDrain, TxGo, TxStay
  <2>5. CASE TxHold(late)
    BY <2>0, <2>5 DEF TxHold, TxGo, TxStay, TxYield
  <2> QED BY <1>2, <2>1, <2>2, <2>3, <2>4, <2>5 DEF Tx
<1>3. ASSUME NEW late \in BOOLEAN, Scope(late) PROVE ReplySeen'
  <2>1. UNCHANGED <<txpc, request>> /\ (turn' = "scope" => scpc' # "idle")
    BY <1>3 DEF Scope, rx, tx, ScopeStart, ScopeIdles, ScopePreamble, ScopeSamples, ScopeSending,
       ScopeCrc, ScopeFlush, ScopeRest, ToIdle, ScopeStuck, ScopeYield, ScopeGo, ScopeStay
  <2> QED BY <2>1
<1>4. CASE Failsafe
  BY <1>4 DEF Failsafe, rx, tx, scope
<1>5. ASSUME NEW due \in BOOLEAN, Isr(due) PROVE ReplySeen'
  BY <1>5 DEF Isr, rx, tx, scope
<1>6. CASE Sent
  BY <1>6 DEF Sent, rx, tx, scope
<1>7. CASE UNCHANGED vars
  BY <1>7 DEF vars, rx, tx, scope
<1> QED BY <1>1, <1>2, <1>3, <1>4, <1>5, <1>6, <1>7 DEF Next, Task

LEMMA SeenInvariant == Spec => []ReplySeen
<1>1. Init => ReplySeen
  BY DEF Init, ReplySeen
<1> QED BY <1>1, SeenStep, PTL DEF Spec

(***************************************************************************)
(* The scope never begins a transaction while a reply waits, even beside   *)
(* hardware that has stopped sending.                                      *)
(***************************************************************************)
THEOREM ReplyFirstCorrect == Spec => ReplyFirst
<1>1. ASSUME ReplySeen, [Next]_vars, ScopeIdle, ~ScopeIdle'
      PROVE  ~request
  <2>1. ASSUME NEW late \in BOOLEAN, Scope(late) PROVE ~request
    <3>1. scpc = "idle" /\ Begins(late)
      BY <1>1, <2>1 DEF Scope, ScopeStart, ScopeIdles, ScopePreamble,
         ScopeSamples, ScopeSending,
         ScopeCrc, ScopeFlush, ScopeRest, ScopeIdle, ToIdle, ScopeYield, ScopeStay
    <3> QED BY <1>1, <2>1, <3>1 DEF Scope, Begins, ReplySeen
  <2>2. CASE UNCHANGED scpc
    BY <1>1, <2>2 DEF ScopeIdle
  <2> QED BY <1>1, <2>1, <2>2 DEF Next, Task, Rx, Tx, Failsafe, Isr, Sent, scope, vars
<1>2. ReplySeen /\ [Next]_vars => [ScopeIdle /\ ~ScopeIdle' => ~request]_vars
  BY <1>1
<1> QED BY <1>2, SeenInvariant, PTL DEF Spec, ReplyFirst

(***************************************************************************)
(* While a reply is being sent on working hardware, no thread restarts the *)
(* UART under it, but for a new baud rate that the host asked for.         *)
(***************************************************************************)
THEOREM ReplySparedCorrect == ~Stalls => (Spec => ReplySpared)
<1> SUFFICES ASSUME ~Stalls PROVE Spec => ReplySpared
  OBVIOUS
<1> DEFINE Spared == ~TxIdle /\ ring' < ring => turn' = turn \/ rxpc = "silence"
<1>1. ASSUME TypeOK, LineHeld, Next, ~TxIdle, ring' < ring
      PROVE  turn' = turn \/ rxpc = "silence"
  <2>1. ring \in Nat /\ ring' # ring
    BY <1>1, ModbusConstants DEF TypeOK, Sizes
  <2>2. ASSUME NEW late \in BOOLEAN, Rx(late) PROVE rxpc = "silence"
    <3>1. ~RxListen
      BY <1>1, <2>1 DEF RxListen, ClearsErrors, ReadOut, uart
    <3> QED BY <2>1, <2>2, <3>1
            DEF Rx, RxStart, RxPause, RxChar, RxSilence, RxProcess, RxReply, ReadOut, uart
  <2>3. ASSUME NEW late \in BOOLEAN, Tx(late) PROVE turn' = turn
    <3>1. CASE TxWriting(late)
      <4>1. ring' # ring + 1
        BY <1>1, <2>1
      <4> QED BY <2>1, <3>1, <4>1 DEF TxWriting, Stuck, TxGo, uart
    <3>2. CASE TxDrain(late)
      BY <2>1, <3>2 DEF TxDrain, Stuck, TxGo, uart
    <3> QED BY <2>1, <2>3, <3>1, <3>2
            DEF Tx, TxRequest, TxScope, TxStuck, TxSettle, TxHold, uart
  <2>4. ASSUME NEW late \in BOOLEAN, Scope(late) PROVE FALSE
    <3>1. scpc \in {"start", "idle"}
      BY <1>1 DEF LineHeld, OneTalker, ScopeIdle
    <3> QED BY <2>1, <2>4, <3>1 DEF Scope, ScopeStart, ScopeIdles, ScopePreamble, ScopeSamples,
            ScopeSending, ScopeCrc, ScopeFlush, ScopeRest, uart
  <2>5. ASSUME NEW due \in BOOLEAN, Isr(due) PROVE turn' = turn
    BY <2>5 DEF Isr
  <2>6. CASE Failsafe \/ Sent
    BY <2>1, <2>6 DEF Failsafe, Sent, uart
  <2> QED BY <1>1, <2>2, <2>3, <2>4, <2>5, <2>6 DEF Next, Task
<1>2. TypeOK /\ LineHeld /\ [Next]_vars => [Spared]_vars
  BY <1>1
<1> QED BY <1>2, LineInvariant, PTL DEF Spec, ReplySpared
=============================================================================
