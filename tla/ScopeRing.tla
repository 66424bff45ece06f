------------------------------ MODULE ScopeRing ------------------------------
(***************************************************************************)
(* The samples of the scope (modbus_scope.c) at the grain of single        *)
(* accesses: modbus_scope_tick, in the control interrupt, puts a sample of *)
(* every channel into scope_fifo; the sending thread, in the main loop,    *)
(* takes them out word by word; two 16-bit clocks tell the host when the   *)
(* first sample of a packet was taken. The bytes, the line and the time    *)
(* limits are in ModbusRtu: here a limit may pass at any moment.           *)
(***************************************************************************)
EXTENDS Fifo

CONSTANTS
  CLOCK,      \* one more than the largest value of the clocks, 2 ^ 16
  CHANNELS,   \* modbus_scope_max_num_ch
  STEPS,      \* the values the host gives modbus_scope_downsample
  RUNS        \* ... and modbus_scope_running

VARIABLES
  ring,       \* scope_fifo; a word carries the clock and the channel it was put with
  scopeClock, \* scope_clock
  fifoClock,  \* fifo_clock
  running,    \* modbus_scope_running
  overflow,   \* scope_overflow_flag
  skip,       \* scope_downsample_counter
  numCh,      \* modbus_scope_num_ch
  down,       \* modbus_scope_downsample
  sc,         \* where the sending thread stands
  held,       \* the word it holds
  tailRead,   \* the tail FIFO_GET has read
  chan,       \* scope_ch_counter
  session     \* history: how the scope was turned on, see below

scopeVars == <<ring, scopeClock, fifoClock, running, overflow, skip, numCh, down, sc,
               held, tailRead, chan, session>>
tickVars  == <<scopeClock, skip>>
hostVars  == <<numCh, down>>
sendVars  == <<held, tailRead, chan>>

Clocks == 0 .. CLOCK - 1
Yields == {"idle", "preamble", "samples", "close"}   \* the waits of the thread
Samples  == [clk : Clocks, ch : 0 .. CHANNELS - 1]

ASSUME ScopeOK ==
  /\ CLOCK \in Nat \ {0} /\ CHANNELS \in Nat \ {0} /\ Items = Samples
  /\ STEPS \subseteq Nat \ {0} /\ 1 \in STEPS /\ RUNS \subseteq Nat

ScopeTypeOK ==
  /\ ring \in Rings
  /\ scopeClock \in Clocks /\ fifoClock \in Clocks
  /\ running \in Nat /\ overflow \in BOOLEAN /\ skip \in Nat
  /\ numCh \in 0 .. CHANNELS /\ down \in STEPS
  /\ sc \in Yields \union {"get", "step", "sent"}
  /\ held \in Samples /\ tailRead \in Slots /\ chan \in Nat
  /\ session \in {"fresh", "on", "skewed"}

\* What is no longer in the ring, or has been sent, is of no account.
NoWord    == [clk |-> 0, ch |-> 0]
EmptyRing == [data |-> [i \in Slots |-> NoWord], head |-> 0, tail |-> 0]

ScopeInit ==
  /\ ring = EmptyRing
  /\ scopeClock = 0 /\ fifoClock = 0 /\ running = 0 /\ overflow = FALSE /\ skip = 0
  /\ numCh = 0 /\ down = 1
  /\ sc = "idle" /\ held = NoWord /\ tailRead = 0 /\ chan = 0
  /\ session = "fresh"

\* The scope is "fresh" when the interrupt has found it off and the thread has
\* sent its packet. A host that turns it on only then and sets it up before has
\* a session that is "on". In one that is "skewed" the clocks may be wrong and a
\* sample cut in two; the host then only turns it off (bounds the model).
Fresh   == session = "fresh"
Skewed  == session = "skewed"
Cleared == session' = IF sc \in {"idle", "close"} THEN "fresh" ELSE session

-----------------------------------------------------------------------------
(* modbus_scope_tick.                                                      *)

Counted == skip' = IF skip + 1 >= down THEN 0 ELSE skip + 1

\* Every channel, behind one another, where there is room for all.
PutAll(f, clk) ==
  [f EXCEPT !.data = [i \in Slots |->
                        LET n == (SIZE + i - f.head) % SIZE
                        IN IF n < numCh THEN [clk |-> clk, ch |-> n] ELSE f.data[i]],
            !.head = (f.head + numCh) % SIZE]

LastRun == running' = IF running = 1 THEN 0 ELSE running

Sample ==
  /\ running >= 1 /\ skip = 0
  /\ scopeClock' = (scopeClock + down) % CLOCK
  /\ IF Free(ring) >= numCh /\ ~overflow
     THEN /\ ring' = PutAll(ring, scopeClock')
          /\ fifoClock' = (fifoClock + down) % CLOCK
          /\ UNCHANGED <<running, overflow>>
     ELSE /\ overflow' = (overflow \/ Free(ring) < numCh)
          /\ LastRun
          /\ UNCHANGED <<ring, fifoClock>>
  /\ session' = session

Between ==
  /\ running >= 1 /\ skip # 0
  /\ UNCHANGED <<ring, scopeClock, fifoClock, running, overflow, session>>

\* Mutant: the clock of the samples is not reset with them.
ClearRing ==
  /\ running = 0
  /\ ring' = EmptyRing
  /\ scopeClock' = (scopeClock + 1) % CLOCK /\ overflow' = FALSE
  /\ Cleared
  /\ UNCHANGED <<running, fifoClock>>

Clear ==
  /\ running = 0
  /\ ring' = EmptyRing
  /\ fifoClock' = 0 /\ scopeClock' = (scopeClock + 1) % CLOCK /\ overflow' = FALSE
  /\ Cleared
  /\ UNCHANGED running

Tick ==
  /\ Sample \/ Between \/ Clear
  /\ Counted
  /\ UNCHANGED <<hostVars, sendVars, sc>>

-----------------------------------------------------------------------------
(* Requests of the host, MODBUS_FC_USER_SCOPE in modbus_slave.c. They run  *)
(* while the thread waits.                                                 *)

\* Turn off, or keep running; a stuck transmitter of replies turns it off too.
KeepRunning(n) ==
  /\ sc \in Yields /\ (Skewed => n = 0)
  /\ running' = n
  /\ session' = IF running > 0 \/ n = 0 THEN session ELSE IF Fresh THEN "on" ELSE "skewed"
  /\ UNCHANGED <<ring, fifoClock, overflow, tickVars, hostVars, sendVars, sc>>

\* A set-up that is refused leaves no channel.
SetChannels(n) ==
  /\ sc \in Yields /\ ~Skewed
  /\ numCh' = n
  /\ session' = IF Fresh THEN session ELSE "skewed"
  /\ UNCHANGED <<ring, fifoClock, running, overflow, tickVars, down, sendVars, sc>>

SetDownsample(d) ==
  /\ sc \in Yields /\ ~Skewed
  /\ down' = d
  /\ session' = IF Fresh THEN session ELSE "skewed"
  /\ UNCHANGED <<ring, fifoClock, running, overflow, tickVars, numCh, sendVars, sc>>

ScopeHost ==
  \/ \E n \in RUNS \union {0} : KeepRunning(n)
  \/ \E n \in 0 .. CHANNELS : SetChannels(n)
  \/ \E d \in STEPS : SetDownsample(d)

-----------------------------------------------------------------------------
(* task_modbus_scope_tx.                                                   *)

Begin ==
  /\ sc = "idle" /\ running >= 2
  /\ Busy(ring) >= SIZE \div 2 \/ Busy(ring) >= numCh
  /\ running' = running - 1 /\ sc' = "preamble"
  /\ UNCHANGED <<ring, fifoClock, overflow, tickVars, hostVars, sendVars, session>>

\* What the header says of the clock.
Told == (scopeClock - fifoClock) % CLOCK

Header ==
  /\ sc = "preamble"
  /\ chan' = 0 /\ sc' = "samples"
  /\ UNCHANGED <<ring, fifoClock, running, overflow, tickVars, hostVars, held, tailRead,
                 session>>

\* Mutant: the time of a packet is over in the middle of a sample.
Cut ==
  /\ sc = "samples"
  /\ sc' = "close"
  /\ UNCHANGED <<ring, fifoClock, running, overflow, tickVars, hostVars, sendVars, session>>

\* Nothing is left, or the time of a packet is over: in both cases not in the
\* middle of a sample, unless the scope was turned off.
Finish ==
  /\ sc = "samples" /\ (chan = 0 \/ running = 0)
  /\ sc' = "close"
  /\ UNCHANGED <<ring, fifoClock, running, overflow, tickVars, hostVars, sendVars, session>>

\* The while loop goes on, or is entered. (It is left, to wait, when there is no
\* room for a word.)
Continue ==
  /\ sc = "samples" /\ ~Empty(ring)
  /\ sc' = "get"
  /\ UNCHANGED <<ring, fifoClock, running, overflow, tickVars, hostVars, sendVars, session>>

\* FIFO_GET: it leaves word alone when the ring has been emptied since.
Load ==
  /\ sc = "get"
  /\ IF Empty(ring) THEN sc' = "sent" /\ UNCHANGED <<held, tailRead>>
     ELSE sc' = "step" /\ held' = ring.data[ring.tail] /\ tailRead' = ring.tail
  /\ UNCHANGED <<ring, fifoClock, running, overflow, tickVars, hostVars, chan, session>>

\* The tail is not volatile: it may be read again or not.
Advance ==
  /\ sc = "step"
  /\ \E t \in {tailRead, ring.tail} :
       ring' = [ring EXCEPT !.tail = Succ(t), !.data[tailRead] = NoWord]
  /\ sc' = "sent"
  /\ UNCHANGED <<fifoClock, running, overflow, tickVars, hostVars, sendVars, session>>

\* The word is sent. A packet may end behind the last channel of a sample, and
\* does when the scope was turned off or has drained after an overflow.
Sent ==
  /\ sc = "sent"
  /\ IF chan + 1 >= numCh
     THEN /\ chan' = 0 /\ fifoClock' = (fifoClock - down) % CLOCK
          /\ \/ sc' = "close"
             \/ running # 0 /\ ~(Empty(ring) /\ overflow) /\ sc' = "samples"
     ELSE chan' = chan + 1 /\ sc' = "samples" /\ UNCHANGED fifoClock
  /\ held' = NoWord /\ tailRead' = 0
  /\ UNCHANGED <<ring, running, overflow, tickVars, hostVars, session>>

\* The packet is out: the flag is lowered, whatever is left in the ring.
Close ==
  /\ sc = "close"
  /\ sc' = "idle" /\ overflow' = FALSE
  /\ UNCHANGED <<ring, fifoClock, running, tickVars, hostVars, sendVars, session>>

\* A time limit of the line: the scope is turned off.
Stuck ==
  /\ sc \in {"preamble", "samples", "close"}
  /\ running' = 0 /\ sc' = "idle" /\ overflow' = FALSE
  /\ UNCHANGED <<ring, fifoClock, tickVars, hostVars, sendVars, session>>

Thread == Begin \/ Header \/ Continue \/ Finish \/ Load \/ Advance
            \/ Sent \/ Close \/ Stuck

ScopeNext == Tick \/ ScopeHost \/ Thread

ScopeSpec == ScopeInit /\ [][ScopeNext]_scopeVars

-----------------------------------------------------------------------------
(* Properties.                                                             *)

Oldest == ring.data[ring.tail]
Newest == ring.data[(SIZE + ring.head - 1) % SIZE]

\* The ring holds every sample from its oldest to the present one.
Gapless ==
  LET c == Contents(ring) IN
  /\ Newest.clk = scopeClock
  /\ \A k \in 1 .. Len(c) - 1 :
       c[k + 1].clk = (c[k].clk + (IF c[k + 1].ch = 0 THEN down ELSE 0)) % CLOCK

Heading  == sc = "preamble" /\ sc' = "samples" /\ ~Empty(ring) /\ ~Skewed

\* The header of a packet tells when its first sample was taken: one step of
\* the clock after what it says, through every wrap of the two counters. This
\* is so only while no sample was lost since the ring was last empty.
ClockTold ==
  [][Heading /\ Gapless => Told = (Oldest.clk - down) % CLOCK]_scopeVars

\* What the comment at modbus_scope.c:392 promises: the header tells it after
\* samples were lost, too.
LossTold == [][Heading => Told = (Oldest.clk - down) % CLOCK]_scopeVars

\* Every word of a packet is sent in the place of its channel, while the scope
\* is on.
Aligned == sc \in {"step", "sent"} /\ running > 0 /\ ~Skewed => held.ch = chan
=============================================================================
