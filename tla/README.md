# Verification of the AC-AC converter firmware

TLA+ models, model-checking configurations and machine-checked proofs for the
firmware in `src/ac_ac_converter`: a single-core Cortex-M4 program (K1921VK01T)
that drives a power stage, protects it, and talks Modbus RTU to a host over one
RS485 line. Paths below are relative to `src/ac_ac_converter`.

1. [The system](#1-the-system)
2. [The modules](#2-the-modules)
3. [The runs](#3-the-runs)
4. [Fairness](#4-fairness)
5. [The proofs](#5-the-proofs)
6. [Disagreements found](#6-disagreements-found)
7. [What is abstracted and what is left out](#7-what-is-abstracted-and-what-is-left-out)
8. [The plan](#8-the-plan)

## 1. The system

Everything runs on one core in four contexts:

| context | code | does |
|---|---|---|
| main loop | `CApp::run` (CApp.cpp:62) | `modbus_rtu_task`, `gpio_task`, `sm.operate`, `rms_est`, in this order, for ever |
| control interrupt | `PWM0_IRQHandler` -> `CApp::isr` (CApp.cpp:121) | clock, `modbus_scope_tick`, `uart_hw_task`, `acs` (regulators and gates) |
| ADC interrupt | `ADC_SEQ0_IRQHandler` | new sensor values |
| trip interrupts | `PWM0/1_TZ_IRQHandler` -> `shutdown` (CApp.cpp:582) | error, FAULT, latches, gates, own IRQs off |

The main loop is preempted by all the others; the trip interrupts keep the
default priority 0 and preempt the control interrupt (priority 1) as well. The
only locks are the `__disable_irq` of start-up and of the system tick and three
`ATOMIC_BLOCK`s of `modbus_scope.c` (lines 154, 196 and 279: the count of running, the
header's clock, the clock of the ring): every other exchange between contexts is by
plain shared variables.

### Components

| component | state | operations | talks to | correct when |
|---|---|---|---|---|
| mode state machine (`StateMachine/`) | current object, its name, time in state, start/rst/diag commands | `operate`, `state_set`, `reset` and `non_critical_protect` of each mode | errors, PWM, trip IRQs; preempted by `shutdown` | a fault is answered, kept, and never undone by a pass in progress; gates are off outside RUN and DIAG |
| control loop (`acs`) | regulators, gate enables | one call per PWM period | reads the mode, writes the gates | gates are driven only in RUN, after the regulators' reset |
| trip handling (`shutdown`, `CPWM`) | trip latches, NVIC enable and pending bits | trip, shutdown, `TZ_reset`, enable and disable of IRQs | mode, errors, gates | a trip outside DIAG leads to FAULT |
| error log (`CErrors`) | buffer of 5, newest error, count | `set`, `clr` | called from the main loop and `shutdown` | bounded; its three variables agree; explains a FAULT |
| UART2 driver and rings (`uart2_hw_poll.c`, `fifo.h`) | two rings, error flags | read, write, restart; `uart2_hw_task` in the interrupt | Modbus threads, hardware | bytes in order, none lost silently |
| Modbus receiver and transmitter (`modbus_rtu.c`) | two protothreads, idle flags, request flag, driver | one resume per pass | UART, request processing, scope | one talker at a time; each reply sent once; line released |
| streaming scope (`modbus_scope.c`) | protothread, sample ring, two clocks, count of running, overflow | `modbus_scope_tick` (interrupt), one resume per pass | UART, RS485 driver | gives way to replies; runs down without a host; words in the place of their channel, under the right time |
| Modbus requests (`modbus_slave.c`) | lock, scratch, which services were asked for | one request per packet | registers, scope, EEPROM flags | every request answered truthfully; lock released |
| registers (`modbus_regs.c`, `modbus_config_converter.cpp`) | access mode; pointers into all the rest | read, write with limits | host side of the commands | limits and access modes hold |
| settings in EEPROM (`modbus_eeprom.c`) | request and status flags, the chip | `modbus_eeprom_task` | `modbus_slave.c`, the driver | the status of a served request is true; access mode given back |
| time (`clock.c`, `timer.c`, `CSysTick`, `task_time_of_state`, `task_rms`) | two words that wrap; start and interval of each timer | ticks in interrupts; compared in the main loop | modes, RMS window, Modbus | nothing ends early |
| regulators, filters, RMS value (`TransferFunc/`, `CRMS`) | reals | once per period, or per 100 us | `acs`, fan | arithmetic, not modelled |
| pins, LEDs, fan relay, MCU set-up, vendor libraries | - | - | - | not modelled |

### What is hard here

* **Preemption between a test and the act that follows it.** `state_set` writes
  two variables and then calls a virtual function through the one it may have to
  read again; a trip may fall between any two of these steps, and its own
  `state_set` runs to completion inside the first.
* **A pass that goes on.** `IState::operate` may change the mode and returns; the
  rest of the old mode's `operate` then runs and may change it again.
* **Two enables of the trip interrupts in different modes**, and one disable in DIAG.
* **Lock-free rings** shared by a main loop and an interrupt, whose macros are not
  volatile, and a restart that writes both indices.
* **An error log of three plain words** that a trip may write between any two accesses of
  `set` or `clr`, the two reads of its count included.
* **A restore that borrows the highest access** and yields while it has it, to a host that
  writes registers meanwhile; a chip that fails, wears, or is not there; a restart anywhere.
* **Words that wrap**: 16-bit clocks changed in two contexts, whose difference is what is sent;
  times of unspecified signedness.
* **Three cooperative threads on a half-duplex line**, whose mutual exclusion rests
  on the order in which they are resumed and on which of them yields where; with
  time limits for hardware that sticks and hosts that vanish.

`PROJECT.json` lists each of these as a hazard at its line, with the properties
aimed at it.

## 2. The modules

| module | models | proved in |
|---|---|---|
| `ErrorBuffer` | the error log as a sequence, and what one `CErrors::set` makes of it | |
| `Converter` (over `ErrorBuffer`, `MCConverter` for TLC) | modes, protection, gates, trips, host commands | `ConverterProofs` |
| `Fifo` | the ring buffer macros, as operators on records | `FifoProofs` |
| `Uart` | the UART2 driver at the grain of single ring accesses | `UartProofs` |
| `ByteQueue` | the abstract queue both of its rings implement | |
| `ModbusRtu` | receiver, transmitter, scope, tick and UART levels on one line | `ModbusProofs` |
| `Registers` | the register table, read and write with limits and access, as operators | `SlaveProofs` |
| `Settings` (over `Registers`) | `modbus_eeprom_task`, driver call by driver call, and the chip | `SlaveProofs` |
| `Requests` (over `Settings`) | `task_modbus_process_pdu`: requests, lock, answers; the restart | `SlaveProofs` |
| `ErrorLog` | `CErrors` at the grain of single stores, preempted by trips | `ErrorLogProofs` |
| `ErrorRecord` (over `ErrorBuffer`) | the log in single steps that `ErrorLog` implements | `ErrorLogProofs` |
| `ScopeRing` (over `Fifo`) | `scope_fifo` at the grain of single accesses, the clocks, the sending thread | `ScopeRingProofs` |
| `Timers` | the time in a mode and the RMS window over words that wrap | `PartsProofs` |
| `MCParts` | `Requests`, `ErrorLog`, `ScopeRing` and `Timers` side by side, for TLC | `PartsProofs` |

### Converter

The main loop has a program counter `pc`, with one label per access to a variable
another context writes. A pass goes `host` (modbus_rtu_task has written the command
registers), `protect`, for each of the three limits `limit` and `abs` (the macro
`ABS` reads the sensor twice), `operate`, `diag`, `own` (the mode's own end, then
`rst` in DIAG), and back. `state_set` is `store` (the pointer), `compare` (the name),
`load` (the pointer, and the virtual call for its name), `name` (the store of it), `call`
(the load for the virtual call of `reset()`) and `reset`, followed by what
is left of the new mode's `reset()`: `clr`, `tz`, `pend` and `arm` in INIT, `arm` in
READY, `disarm` in DIAG, `regs` and `lpf` in RUN, where the flag of the regulators is
raised before the filter is reset. `seen` is the object the last load gave. `tgt` and `ret`
are its frame, `self` is the
object whose `operate()` is under way, which keeps running when the mode changes.

A trip between `load` and `name` is the case the two halves of the state are open to: its
FAULT stays in the pointer, the name becomes the one that was loaded, and the
`reset()` that follows is FAULT's. It is one of the ways `raced` is set: a trip has preempted
`operate()` since `CInit::reset` was last called in INIT. Until then the name may stay
wrong: with the pointer at FAULT under the name RUN the gates are driven, if the regulators'
flag stands from a run before; under the name INIT a further `state_set(INIT)` finds its
name and does not call `CInit::reset`.

`Control` begins a period of `acs`; `Enable(u)` is `out_enable` of one unit, so a
trip may fall between two of them. `Shutdown(u)` is one action: nothing preempts
it. `Trip`, `Adc` are the hardware: `latch` is the one-shot trip of a PWM unit, `pend`
the NVIC's pending bit, `armed` its enable bit. The main loop takes no step while a
control period is half done (`acs # {}`).

Two constants stand for what the source leaves open. `Forwarding`: whether the
compiler uses `state_set`'s argument where the source reads `m_ptrCurrentState` back
(it is not volatile, so both are correct translations; `Reloaded`). `LevelIrq`: whether a latched
trip keeps requesting its interrupt. `tripped`, `raced`, `fresh` and `settled` are history
variables: they guard nothing.

### Fifo, Uart, ByteQueue

`Fifo` has the macros as operators: `Full`, `Empty`, `Busy`, `Free`, `Put`, `Release`,
and `Contents`, the sequence a ring stands for. `Uart` cuts `FIFO_GET` into load and
release, `FIFO_PUT` into store and publish, and `uart2_restart(0)` into its five
writes; `Receive` and `Send` are the steps of `uart2_hw_task` and may fall between any
two of them. `IndexFirst` is the other order of the two accesses, which a compiler
may choose since the rings are not volatile.

`ByteQueue` is a bounded queue that refuses a byte only when it is full and says so,
and that may be cleared. `RxIsQueue` and `TxIsQueue` say that the two rings implement
it under the mapping `RxQueue` and `TxQueue`. The mapping shows what a restart does: it
is not atomic, and until it is over the transmit ring may send bytes it sent before
(`Garble`).

### ModbusRtu

A protothread is the wait it stands at: `rxpc`, `txpc`, `scpc`; `turn` says whose resume
`modbus_rtu_task` is at. An action runs from one wait to the next. A `PT_WAIT_UNTIL`
whose condition holds is passed at once, so the thread keeps its turn; a
`PT_YIELD_UNTIL` hands it on first. This difference is what keeps the scope behind a
waiting reply (`ReplyFirst`). Actions of the same resume may be interrupted by `Isr`,
which is `modbus_scope_tick` followed by `uart_hw_task`.

The rings are levels: `ring` is the bytes in the transmit ring, `busy` the hardware still
sending, `samples` the words in `scope_fifo`. A packet's contents are one choice of
what it does to the line (`Process`). A timer is `late` or not by choice, except that one
which detects stuck hardware is late only when `Stalls` holds; the two time limits of
a scope transaction are choices of their own.

### Registers, Settings, Requests

A register is a word of `BITS` bits behind a description (`Table`): the level a write needs,
its limits, whether it is signed, kept in EEPROM, reserved, or has somewhere to write to.
`Written` is what a register holds after `modbus_write_reg`, `Takes` what that returns.

`Settings` runs from one call of the driver to the next (`task` is the call the thread is in,
or the request it is about to test). The driver and the chip are not in `src/`, apart from
`eeprom_dummy.c`, which finds no chip; what their calls may answer is `ReadsAs` and `Programs`:
success, `NOT_FOUND`, `ERROR` with the write done or not, a worn cell that keeps its value, a
cell that is blank or another program's. `basis` is a history variable: whether anything else
changed what a service rests on since it began, so that a status is only held to what it can know.

`Requests` takes a packet (`Take`, with `modbus_slave_lock`), handles it in one step, since no
request yields (`Handle`: one disjunct per function code), and answers. `Restart` is the end of
power, the restart and the bootloader: everything but the chip starts anew.

### ErrorLog

A call of `set` is its comparison, the room test (`SetRoom`), `m_errors_cnt++` (`SetIndex`), and
then its stores; a call of `clr` is its stores. The loads come in the order of the source, the stores in
any: none of the three variables is volatile. For the same reason the count may be loaded once for the
test and the increment, or twice, as the source has it; `SetIndex` takes either. `TripSets` is
`set(ERROR_FLT)` in `shutdown`, at any moment, with its own loads and stores in one step, as nothing
preempts it. It falls more often than the trip interrupts' enables allow, so what holds here holds in the
program. `torn` and `told` are history variables. A trip that takes the last slot between the test and the second
load makes the call write behind the array and leaves the count one too large: that is the code's, it
counts as `torn`, and the types allow for it (`Indices`, `logCnt`).

`Converter` has the same log in one step per call (`WithError` of `ErrorBuffer`). `ErrorRecord` says
what that takes: each call takes effect once between its begin and its return, each trip at once, and
a trip that tears a call (`Cut`) ends the promise until the next `clr`. `LogIsAtomic` says that
`ErrorLog` implements it. The mapping is the argument: a `set` has taken effect (`Effective`) once its
newest error is stored, or its count when that fills the log, because from then on a trip that does
nothing comes after it; `Shown` is the log with that error or without it, `RightlyDropped` that such a
trip had nothing to record. A `clr` takes effect at its begin, so a trip that falls into it and
does nothing counts as before it.

### ScopeRing

The ring is `Fifo`'s. `Load` and `Advance` are the two halves of `FIFO_GET`; `Sample`,
`Between` and `Clear` are `modbus_scope_tick`, and may fall between them: `Clear` empties the
ring, and the index step that follows may write back an index read before. A word of the ring
carries the clock and the channel it was put with, which the program does not store: they are
what the properties compare. `session` is a history variable that marks the sessions in which
the host turned the scope on while the last packet of the session before was still in
progress, or changed its channels or its step while it was on (`skewed`).

### Timers

`task_time_of_state` reads the system time three times (`CompareTimes`, `AddTime`, `MarkTime`),
with system ticks between. The RMS timer is advanced by the window the host may change and
compared with the interval of the start (`FIRST`): `EndWindow` is the test of the timer and `rms_set`,
`NextWindow` is `out_reset` and `timer_advance`, and the clock may tick between. `age` is the
true time in the mode, `elapsed` the true time since `out_reset`. `timer_advance` starts the next window
where the last was due, so a window is shortened by what the one before was late: `owed` is what is
left of it, and may be nothing (after a poll later than a window the next ends at once).

## 3. The runs

| run | instance | states | asks |
|---|---|---|---|
| `converter_safety` | two units, one limit, all command writes, buffer of 1, edge IRQ, reload | 9 188 094 | modes, gates, trips, errors, regulators |
| `converter_forwarding` | one unit, buffer of 2, level IRQ, forwarding compiler | 3 746 412 | the inductive invariant under the other compiler and the other NVIC |
| `converter_liveness` | one unit, one command at a time | 794 580 | overload answered, gates off in FAULT, RUN reached |
| `uart_order` | rings of 3, two bytes, source order | 167 984 | both rings are queues |
| `uart_index_first` | rings of 4, one byte, the other order | 3 965 | only a byte's value is at stake, not the count |
| `modbus_safety` | ring 3, frame 3+2n+2, reply 4, sample ring 3, 1 or 2 channels | 766 776 | exclusion, driver, reply not cut, reply first |
| `modbus_liveness` | ring 1, reply 2, 1 channel, working hardware | 125 k | reply sent, receiver recovers, scope runs down |
| `modbus_stalls` | ring 1, 1 channel, hardware may stop | 503 k | line left free |
| `modbus_reset` | as above, working hardware | violated | see section 6 |
| `modbus_deaf` | no channels | violated | see section 6 |
| `parts` | the four parts of `MCParts`, one per behaviour | 466 401 | requests, settings, log, sample ring, time |
| `scope_loss` | ring of 4, one channel, clock of 8 | violated | see section 6 |

What the passing runs show:

* **`OutputsSettle`**: once a control period has begun since the last change of mode and
  is over, no gate is on outside RUN and DIAG. A trip that preempts `acs` half way leaves
  gates enabled until the next period; `FaultCutsOutputs` says that one comes.
* **`DiagUntripped`**: `CDiag::operate` never runs with a trip interrupt enabled, so no
  shutdown falls between its test of a command and the `switch_on`.
* **`FaultHeld`** and **`RunArmed`** name exactly the ways the code has of losing a fault
  and of running without trip interrupts: besides the commands, a trip that preempts
  `operate()` between a decision and `state_set`'s store (the handler's FAULT is
  overwritten), and, for RUN, a diag command in the same pass.
* **`FaultHasCause`**, **`ReadyIsFit`**, **`HalvesAgree`**: unless such a race happened since INIT
  was last reset, FAULT has an error on record, INIT has none, INIT and READY have the trip
  interrupts enabled, and pointer and name agree between passes. The run has the compiler
  that reloads; the theorems hold for both.
* **`RunsFresh`**: once the pointer says RUN, the gates are driven with the regulators or the filter
  of the previous run in two windows only: a control period between `state_set`'s store of the
  name and the first line of `CRun::reset`, and, for the filter, one between the flag raised in
  `init_regulators` and the last line of `CRun::reset`. No trip opens another, but for the one that
  leaves the name RUN over the pointer FAULT.
* **`OverloadCaught`**, **`ReachesRun`**: a limit that stays exceeded on one side keeps
  leading to FAULT or DIAG; left alone with the start command up, the converter reaches RUN.
* **`RxIsQueue`**, **`TxIsQueue`**: see above.
* **`OneTalker`**, **`SendingIsDriven`**: on working hardware the reply and
  the scope exclude each other, and no byte is under way with the driver off.
* **`ReplySpared`**: while a reply is being sent nothing but the hardware takes bytes from
  the ring, except a request that changes the baud rate.
* **`ReplyFirst`**, **`ReplySent`**: the scope does not start before a waiting reply, and
  every reply handed over is sent.
* **`DeafnessEnds`**: a receiver that stands at an error is restarted, if the scope has channels.
* **`ScopeStops`**, **`LineFreed`**: with a silent host the scope runs down, and even with a
  UART that stops sending the line is left with the driver off for good.
* **`LimitsHeld`**: a register with limits is inside them, also after a restore from a chip that
  holds anything, and after masked and combined writes.
* **`AccessHeld`**: what the password does not open changes only by a restore, or while one is
  under way. The second half is the code's: `modbus_eeprom_read_all_nb` raises the one access
  mode there is, and a host that writes meanwhile has it too.
* **`WritesTold`**: what the host may conclude from each answer to a write; in particular what an
  exception leaves open (a partly done write of several registers, a combined request whose
  read half is refused).
* **`DescribedWhole`**: descriptions end at the last one that fits, and all that do are there. Their number
  (`answer.n`) is the model's own: the packet has only its length, as `rsp_len`.
* **`StatusTrue`**: a status other than BUSY was earned after the request, and is true of chip and
  registers, worn cells and failed writes included.
* **`LogConsistent`**, **`LogSpeaks`**: unless a trip fell between the stores of a call, or took the
  slot between the call's test of the count and its use, the log's
  variables agree and are inside the buffer; even then the log is not empty after an error, unless the trip fell into `clr`.
* **`LogIsAtomic`**: short of a torn call, the log behaves as if `set` and `clr` were one step each,
  which is how `Converter` has them, wherever trips fall and however the stores are ordered.
* **`Aligned`**, **`ClockTold`**: a word is sent in the place of its channel, through the
  interrupt's clearing of the ring; the header's time is right as long as no sample was lost.
* **`NeverEarly`**: a mode has lasted at least as long as it believes, and an RMS window, from
  `out_reset` to `rms_set`, is no shorter than what the host asked for less what the one before was
  late, so that windows do not drift, through all wraps, for a signed and an unsigned `time_t`.

### Bounds, and why they are enough

* Two PWM units are what the board has. The limits differ only in the error they log, so one
  exceedable limit of three, at the last position, has two others tested before it; an error
  buffer of one or two makes it overflow in every run of errors.
* Ring sizes of 3 and 4 wrap after three steps and have every relation of head and tail.
* The line's ring takes a whole head but not a head and a sample, and a sample or a trailer
  but not both, so every wait for room occurs; a reply is longer than the ring. Two channels
  make a transaction cut between the channels of a sample. `MaxRun` 2 is the least count
  with which a transaction starts and the scope then ends with one less.
* In the liveness and stall runs the ring takes one byte: every write waits for the hardware.
* In `parts` the parts share no variable, so running them one at a time loses nothing. The five
  registers have every kind once: reserved, engineer's in EEPROM with limits inside the
  word, user's in EEPROM, signed, and without a destination; two of them in EEPROM make every
  loop of the settings have a first and a last. Words of 2 bits have a sign and values beyond the
  limits. `Hosts` divides what a host may send into three: all functions but EEPROM, erasing and
  storing, restoring and storing. `MAX_WRITE` 2 and `MAX_READ` 4 are exceeded by requests, and
  `MAX_PDU` 12 by descriptions, which do not fit at different places. `Polled`, `Chip` and `Faulty`
  are TRUE: this build neither polls the task nor has a chip (section 6), so the run is about
  the code with a driver in it.
* A log of 3 fills and overflows; two causes make a repeat and a change.
* A ring of 3 with up to two channels has samples cut by its end and not; clocks of 4 wrap within
  a packet; once a session is `skewed` the host can only turn the scope off, which keeps the run
  finite and is what the properties allow.
* Words of 16 with ticks of 2 and 1 wrap; `SPAN` keeps a mode from lasting a whole wrap of the
  system time (71 minutes in the program; a mode older than that would read as young, which is
  why `NeverEarly` is not an equality), and `LATE` keeps the main loop from leaving a
  timer alone for half a wrap. Windows of 1, 2 and 3 about an interval of 2 make every case:
  shorter, equal and longer, in time, late, and late by a whole window.

## 4. Fairness

* `SF(Main)` (Converter): the control interrupt takes less than its period, so the main
  loop gets time in each; it is disabled inside a period, hence strong fairness.
* `SF(Operate(TRUE))`: time passes, so the mode that is polled is eventually found old.
* `WF(Control)`, `WF(Enable)`, `WF(Shutdown)`: an enabled interrupt is taken, a handler ends.
* `WF(Task)` (ModbusRtu): the main loop polls. `SF(Rx(TRUE))`, `SF(Tx(TRUE))`, `SF(Scope(TRUE))`:
  a timer asked again and again is late some time.
* `SF(... scpc' = "crc")`: a transaction's time and bytes only grow, so asked between
  samples again and again it is over. `WF(Isr(TRUE))`: samples come due.
* `WF(Sent)` and `WF(Isr(TRUE) /\ ring' = 0)`: working hardware sends; not assumed if `Stalls`.

Nothing is assumed of the host, the packets, the errors, the trips or the sensors, and nothing of
`modbus_eeprom_task`, which this program never calls: that a requested service ends is no property here.

## 5. The proofs

For every value of the constants (their assumptions are `ConstantsOK`, `FifoConstants`,
`UartConstants`, `ModbusConstants`, `RegistersOK`, `SettingsOK`, `RequestsOK`, `ErrorLogOK`,
`ScopeOK`, `TimersOK`):

| theorem | states |
|---|---|
| `TypeCorrect` | `TypeOK` of Converter, the error buffer's bound included |
| `OutputsSettleCorrect`, `DiagUntrippedCorrect` | the two invariants |
| `FaultHeldCorrect`, `RunArmedCorrect` | the two action properties |
| `ModeInvCorrect` | the inductive invariant of the modes, for both compilers |
| `FaultHasCauseCorrect`, `ReadyIsFitCorrect`, `HalvesAgreeCorrect`, `RunsFreshCorrect` | the four invariants, for both compilers |
| `UartTypeCorrect`, `RxRefines`, `TxRefines` | type, and that each ring implements `ByteQueue`: in source order, or in either order where no byte is told from another (`Safe`) |
| `ModbusTypeCorrect` | `TypeOK` of ModbusRtu: no ring over- or underflows, running does not wrap |
| `LineInvariant`, `OneTalkerCorrect`, `SendingIsDrivenCorrect`, `ReplySparedCorrect` | the line, on working hardware (`~Stalls`) |
| `ReplyFirstCorrect` | the reply before the scope, on any hardware |
| `SlaveInvariant`, `LimitsHeldCorrect`, `AccessHeldCorrect`, `ModeReturnedCorrect` | limits and access, for any table, chip, password and hosts |
| `StatusTrueCorrect`, `WritesToldCorrect`, `DescribedWholeCorrect` | answers are true, and descriptions whole |
| `LogInvariant`, `LogConsistentCorrect`, `LogSpeaksCorrect` | the error log, for any size and order of stores |
| `LogIsAtomicCorrect` | that it implements `ErrorRecord` |
| `ScopeTypeCorrect`, `PlaceInvariant`, `AlignedCorrect` | the sample ring, for any size, channels and steps |
| `ClockInvariant`, `ClockToldCorrect` | the time in a packet's header, for any size of the clocks as well |
| `LevelsAgree` | that the level `samples` of ModbusRtu is the one the ring's indices show |
| `TimersInvariant`, `NeverEarlyCorrect` | time, for any width of the words, ticks and windows |
| `PartsImplement`, `PartsTypeCorrect` | the parts side by side: each satisfies its own specification |

**Converter.** `OutputsSettle` is not inductive: that no period is half done in FAULT
depends on which mode `state_set` is on its way to, whose `operate` called it, and what a
trip may have made of the two halves of the state before each of its steps. `ModeInv` says
so in seven named parts: `CallsOK` (the frame of `state_set`), `ResetsOK` (whose `reset` is
under way), `HalvesOK` (pointer, name and what `state_set` has loaded), `DisarmedOK`, `PassOK`, `ReadyOK`, `PeriodOK`. It
holds for both compilers; `converter_forwarding` checks it. `FaultHeld` and `RunArmed` follow
step by step from `ModeInv`. `FaultHasCause`, `ReadyIsFit` and `HalvesAgree` need a second layer,
`CauseInv`, which rests on the first: `MismatchOK` (pointer and name part only between their stores or by a trip),
`CleanOK` (what INIT has at each point of its `reset`), `CauseOK` (an error precedes
FAULT) and `ErrorOK` (an error leads there). `RunsFresh` is inductive beside `ModeInv`.

**Fifo and Uart.** `FifoProofs` proves the modular arithmetic once: `Busy`, `Full` and `Empty`
in terms of the indices, and that `Put` appends to `Contents` and `Release` takes its head.
The invariant `RingsHeld` is what the main loop knows in the middle of an access whatever the
interrupt does to the other index. `RxRefines` and `TxRefines` map each step to one of
`ByteQueue` or to a stutter; the receive ring has a case of its own between the halves of
`FIFO_INIT`, where head is 0 and tail is still old. With the index moved before the slot is used both
theorems hold of bytes that are all alike (`Alike`): such a build loses and repeats no place in the queue,
and what it endangers is a byte's value only.

**ModbusRtu.** `OneTalker` needs the turn: when the scope is resumed while idle, a reply that
waits has already begun or seen the scope busy (`ReplySeen`). This much holds beside hardware that stops, too,
and gives `ReplyFirst`. `LineHeld` adds to this that bytes are under way
only in the waits that pour them, and that a talker has the driver on; it is preserved by each
resume (`RxLine`, `TxLine`, `ScopeLine`) and by the interrupt (`LineStep`). `ReplySpared` follows from
it: between interrupts the ring loses bytes only by a restart of the UART. The receiver restarts it when
both talkers are idle, or for a new baud rate; the transmitter for a reply of its own that is stuck; and
the scope only while it talks itself, when by `OneTalker` no reply is being sent.

**Requests and Settings.** `SlaveInv` holds the types, the limits, and the access: `FACTORY` exactly
in `fetch` (`ModeReturned`), with what to give back in `saved`. `StatusTrue` needs `StatusInv`: a
service under way was asked for, it is the only one nothing has disturbed, and its loop has done
every cell below the one it is at (`Restored`, `Kept`). The next cell is a `CHOOSE` of the least one
above, which exists by the well-foundedness of the naturals (lemma `Least`). `WritesTold` follows
from what each function does to registers and answer (lemma `HandleTold`), and needs that a write
repeated changes nothing (`WrittenTwice`). `DescribedWhole` is about a recursive function, `Packed`,
and the provers here have no induction. What takes its place is the least counterexample: a set of
numbers that has 0 and with each number the next holds an interval (`IntervalInduction`), which
well-foundedness gives, and by the same means a function that follows a recurrence exists
(`Recursion`) and is the one a `CHOOSE` picks. So `Packed` follows the running `Total` of the texts as
far as the packet reaches and no further (`PackedWhole`).

**ErrorLog.** `LogInv` says, for the call under way and the stores it still owes, what each variable
holds (`Stores`, `PartlySet`, `PartlyCleared`); a trip inside a call either changes nothing or marks it
`torn`, after which nothing is claimed of it; one between the room test and the increment leaves the index
where the count is, inside the array, or marks the call `torn` (`SetIndex`). `LogSpeaks` has an invariant of its own (`Speaking`). `LogIsAtomicCorrect` maps each store to a
stutter or to the step at which the call takes effect (`AtomicStep`). It needs from `LogInv` that a call
cut by no trip with effect finds the log it began with: what is due is then not a repeat
(`RecordsNew`), and what a trip leaves out is one or has no room (`DropsRight`).

**ScopeRing.** `PlaceInv` says of a session that is on: behind each word in the ring is the one of the
next channel and the last word is the last channel's (`Row`), and the word at the tail is the one
the thread is due (`Place`). The interrupt empties the ring only when `running` is 0, and it is
not raised again before the session is fresh unless the session is skewed; so between `Load`
and `Advance` of a running session the tail is the one read. `PutAllRow` and `TakeRow` are the
arithmetic of the ring under it.
`ClockInv` says of such a session what `fifo_clock` is: modulo the size of the clocks, a step for every
sample in the ring, the one under way included (`Accounted`), through overflow, clearing and the two halves
of `FIFO_GET`. In a ring without a gap the newest word is behind the oldest by as many steps as there are
samples between them (`Spread`, along the ring by `Chain`, with `Stands` for each word); so the difference
of the two clocks, which the header carries, is the oldest sample's time. Congruences (`Rounds`,
`SameRest`) take the place of the words that wrap, so a wrap is no case of its own.
`LevelsAgree` joins the two models of the sample ring: `ModbusRtu` keeps only how many words it holds
(`samples`), and `Busy(ring)` is that number. Each step of `modbus_scope_tick` on the indices is `Tick` of
`ModbusRtu` (instantiated as `Line`, with the line at rest); while a session runs, the second half of
`FIFO_GET` takes exactly one word, and no other step changes the level. That is where `ModbusRtu` may take the
word in one step: the clearing that could fall in between waits for the scope to be off.

**Timers.** `ModeTimeOK` bounds the time counted and the time not yet counted (`Gap`) by the true
one, at each of the three reads; `RmsTimeOK` says the clock and the start of the timer are apart by
`Behind` modulo the word: the true time since `out_reset`, and what the window before was late. That the distances stay below a word (`SPAN`) or half of one
(`LATE`) makes the comparisons of the code true of the times.

**The parts side by side.** In `MCParts` each behaviour has one part at work. `PartsImplement` proves that
each part's specification holds of the composition, so that what is
proved of a part and what the run `parts` checks are about the same behaviours. `PartsTypeOK` follows.

**Only model-checked:** every liveness property, since liveness under fairness is outside the prover's reach:
`OverloadCaught`, `FaultCutsOutputs`, `ReachesRun`, `ReplySent`, `DeafnessEnds`, `ScopeStops` and `LineFreed`. Every invariant and every action property that a passing run checks is a theorem for all
constants. The three violated properties are TLC's counterexamples.

## 6. Disagreements found

* `modbus_rtu.c:274` says of an error in the first byte: "however let TX transaction finish
  before resetting uart". The guard asks whether `modbus_scope_running` is 0, but this falls to
  0 in the middle of a scope transaction, by the host's stop request or by an overflow; the
  reset then discards bytes of the frame. Run `modbus_reset`.
* `modbus_rtu.c:273` protects the receiver "against BRKDT and framing errors in first byte".
  With no channels set up (the initial setting) a keep-running request makes the scope run
  for ever: without channels its ring never overflows, and no transaction starts at
  running = 1. The next UART error is then never cleared, and the receiver hears nothing
  more, not even the stop request. Run `modbus_deaf`; `DeafnessEnds` is what does hold.
* `modbus_scope.c:392` says that after an overflow the ring is not filled until it has drained,
  and that "we indicate the number of lost samples by providing fifo start clock at the beginning
  of each packet". `fifo_clock` does not count the lost samples, and the overflow flag is lowered
  with samples still in the ring: the header is then late by what was lost. Run `scope_loss`;
  `ClockTold` is what does hold.

Seen while modelling, and no run's subject:

* Nothing calls `modbus_eeprom_task` (CApp.cpp:62-75), although `modbus_slave.c:473` and
  `modbus_config_converter.cpp:29` reckon with it: in this build each EEPROM service
  reads BUSY for ever. `eeprom_dummy.c` would answer `NOT_FOUND`.
* The password register has no callback (`modbus_config_converter.cpp:39`, against the comment at
  `modbus_regs.c:54`), and `password_update` is unused: the access granted at the start, FACTORY
  with the value built in (`modbus_config.c:15`), stays.
* Where `time_t` is unsigned, a host that lowers `freq` makes the RMS window begin in the future,
  and the timer then always reads expired.
* `task_time_of_state` loses a tick that falls between its reads, and 1 us at each wrap: a mode
  may last longer than its time, never shorter.
* A trip between the load of `m_ptrCurrentState` and the store of the name (`state_machine.h:30`), in the
  entry into RUN, leaves the pointer at FAULT under the name RUN, with the trip interrupts disabled: `acs`
  drives the gates again if `m_isRegsInit` stands from a run before.
* A trip between the room test and the increment of `CErrors::set` that takes the last slot makes
  `set` write one element behind its array and count one more than it holds (`CErrors.cpp:24`).
* After a poll of `task_rms` later than a window (`CApp.cpp:103`) the next window ends at once, and
  its RMS value rests on one sample.
* A trip inside `CErrors::clr` can leave FAULT with an empty log whose newest error is not
  empty, so that a later ERROR_FLT is dropped; one inside `set` is overwritten.
* A host that turns the scope on while the last packet of the session before is going out gets a
  packet with a wrong time, or a word in another channel's place.

## 7. What is abstracted and what is left out

* In `Converter`, `errors.set` and `errors.clr` are single steps (`ErrorLog` cuts them, and the array's end
  is safe only for such a call); a unit's
  two channels are enabled together; the fan relay, the duty cycle, the
  arithmetic of `acs` and the km command are left out; the start-up runs before interrupts.
* In `Uart`, `uart2_init` and `uart2_deinit` (hardware set-up) are left out.
* In `ModbusRtu`, a resume is cut only at its waits and at each byte or word written, not at
  every access: the rings' own accesses are `Uart`'s subject. Frame contents, checksums,
  statistics, clocks and downsampling are left out. A new baud rate is `UartInit`.
  `modbus_rtu_send_pdu` has no caller. `gpio_task` only repeats the driver's setting.
* In `Registers` the fixed-point and raw types and the callbacks, of which the table has none,
  are left out; so are the aliases, compiled out. In `Settings` the delayed writes and the polite
  erase, which nothing requests, the blocking functions, which nothing calls, and the address
  translation, compiled out. In `Requests` texts are their lengths, and the scales of
  fixed-point registers and the requests to the scope (in `ScopeRing` and `ModbusRtu`) are left out.
  With one port started the lock is never contended.
* In `ScopeRing` bytes, checksums and the line are left out, and a time limit may pass at any moment.
* In `Timers`, `timer_set` and the timers that are advanced by their own interval
  (gpio.c:54, ILed.cpp:22) are left out; `_time` is one variable shared by all modes, as it is static.

### Not modelled

* The regulators, filters, the RMS value and the currents: real arithmetic, out of a model
  checker's reach; what they do to the gates is in `Converter`, their reset is its `regs`.
* The fan relay: a hysteresis without effect on anything else. Pins, LEDs, MCU set-up: register
  writes. `modbus_crc16.c`, `str_utils.c`: pure functions over bytes; whether a checksum fits is a
  choice in `ModbusRtu`. `modbus_config.c`, `uart_hw.c`: no state of their own.
* Register aliases (compiled out), the second port (never started), `CPrerun` (includes headers
  that are not there), `clock_hw.c` (nothing reads its clock).
* The vendor's code: IQmath, the peripheral library, CMSIS and the device header are more than nine
  tenths of the lines in the repository, nearly all of them declarations of registers
  and arithmetic. The models cover most of what the program itself decides, and thereby only a
  few per cent of all lines.

## 8. The plan

The plan this project followed: first the modes with their interrupts (`Converter`), then
the rings (`Fifo`, `Uart`, `ByteQueue`), the line (`ModbusRtu`), and then what hangs on it and beside
it: `Registers`, `Settings`, `Requests`, `ErrorLog`, `ScopeRing`, `Timers`; each checked, then proved;
last what relates them (`ErrorRecord`, `LevelsAgree`, `MCParts`).

What is left and would add something:

1. The trips of `ErrorLog` under the interrupt enables of `Converter`, which would narrow
   where a torn call can occur.
