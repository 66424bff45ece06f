-------------------------------- MODULE Timers --------------------------------
(***************************************************************************)
(* Time. Two words count it and wrap: the one of the system tick, which    *)
(* tells the modes how long they have lasted (task_time_of_state), and     *)
(* clock.c's, which the software timers compare with. The timer modelled   *)
(* is the one that is advanced by another time than its own interval: the  *)
(* window of the RMS value (task_rms, CApp.cpp).                           *)
(***************************************************************************)
EXTENDS Integers

CONSTANTS
  TIMES,      \* one more than the largest time_t
  SYSTICK,    \* what the system tick adds, 1000 us
  PERIOD,     \* the control period, what clock_tick adds
  WINDOWS,    \* the times TIME_SEC(1.0/FR) for the values of FR the host may write
  FIRST,      \* ... and for the FR of the start
  SPAN,       \* the longest a mode lasts (bounds the model)
  LATE        \* the longest the main loop leaves a timer alone (bounds the model)

VARIABLES
  signedTime, \* whether time_t is signed: the library's choice
  sysTime,    \* sysTickTime_uSec
  lastTime,   \* _time
  stateTime,  \* m_stateTime
  timing,     \* where task_time_of_state stands
  wrapped,    \* its comparison
  age,        \* history: how long the mode has lasted
  clockNow,   \* time_now
  rmsStart,   \* tmr2.start
  window,     \* TIME_SEC(1.0/FR)
  rmsAt,      \* where task_rms stands: waiting, or between its test and timer_advance
  elapsed,    \* history: time since the window began (out_reset)
  owed,       \* history: how long it is to be, what the host asked for less
              \* what the one before has taken too much
  ahead       \* history: a window was begun in the future

modeTimeVars == <<sysTime, lastTime, stateTime, timing, wrapped, age>>
rmsVars      == <<clockNow, rmsStart, window, rmsAt, elapsed, owed, ahead>>
timeVars     == <<signedTime, modeTimeVars, rmsVars>>

Times == 0 .. TIMES - 1

ASSUME TimersOK ==
  /\ TIMES \in Nat \ {0} /\ TIMES % 2 = 0
  /\ SYSTICK \in Nat \ {0} /\ PERIOD \in Nat \ {0}
  /\ WINDOWS \subseteq Nat \ {0} /\ FIRST \in WINDOWS
  /\ SPAN \in Nat /\ SPAN < TIMES
  /\ LATE \in Nat /\ \A w \in WINDOWS : w <= LATE /\ 2 * (LATE + w) < TIMES

TimersTypeOK ==
  /\ signedTime \in BOOLEAN
  /\ sysTime \in Times /\ lastTime \in Times /\ stateTime \in Times /\ age \in 0 .. SPAN
  /\ timing \in {"begin", "wait", "add", "mark"} /\ wrapped \in BOOLEAN
  /\ clockNow \in Times /\ rmsStart \in Times /\ window \in WINDOWS
  /\ rmsAt \in {"wait", "over"} /\ elapsed \in Nat /\ owed \in Int /\ ahead \in BOOLEAN

TimersInit ==
  /\ signedTime \in BOOLEAN
  /\ sysTime = 0 /\ lastTime = 0 /\ stateTime = 0 /\ timing = "begin"
  /\ wrapped = FALSE /\ age = 0
  /\ clockNow = 0 /\ rmsStart = 0 /\ window = FIRST
  /\ rmsAt = "wait" /\ elapsed = 0 /\ owed = FIRST /\ ahead = FALSE

\* A word as a time_t.
Num(x) == IF signedTime /\ 2 * x >= TIMES THEN x - TIMES ELSE x

-----------------------------------------------------------------------------
(* The time of a mode.                                                     *)

SysTick ==
  /\ age + SYSTICK <= SPAN
  /\ sysTime' = (sysTime + SYSTICK) % TIMES /\ age' = age + SYSTICK
  /\ UNCHANGED <<signedTime, lastTime, stateTime, timing, wrapped, rmsVars>>

\* IState::reset restarts the protothread ...
EnterMode ==
  /\ timing \in {"begin", "wait"}
  /\ timing' = "begin" /\ age' = 0
  /\ UNCHANGED <<signedTime, sysTime, lastTime, stateTime, wrapped, rmsVars>>

\* ... the first call of a mode takes the time ...
FirstCall ==
  /\ timing = "begin"
  /\ lastTime' = sysTime /\ stateTime' = 0 /\ timing' = "wait"
  /\ UNCHANGED <<signedTime, sysTime, wrapped, age, rmsVars>>

\* ... and each further one adds what has passed since. It reads the time three
\* times, and the system tick may fall between.
CompareTimes ==
  /\ timing = "wait"
  /\ wrapped' = (Num(sysTime) < Num(lastTime)) /\ timing' = "add"
  /\ UNCHANGED <<signedTime, sysTime, lastTime, stateTime, age, rmsVars>>

AddTime ==
  /\ timing = "add"
  /\ stateTime' = (stateTime + (IF wrapped THEN (-1) - lastTime + sysTime
                                           ELSE sysTime - lastTime)) % TIMES
  /\ timing' = "mark"
  /\ UNCHANGED <<signedTime, sysTime, lastTime, wrapped, age, rmsVars>>

\* Mutant: the time already added is added again.
Unmarked ==
  /\ timing = "mark"
  /\ timing' = "wait"
  /\ UNCHANGED <<signedTime, sysTime, lastTime, stateTime, wrapped, age, rmsVars>>

MarkTime ==
  /\ timing = "mark"
  /\ lastTime' = sysTime /\ timing' = "wait"
  /\ UNCHANGED <<signedTime, sysTime, stateTime, wrapped, age, rmsVars>>

-----------------------------------------------------------------------------
(* The window of the RMS value.                                            *)

\* How long ago the timer's start is.
Behind == elapsed + FIRST - owed

ClockTick ==
  /\ Behind + PERIOD <= LATE
  /\ clockNow' = (clockNow + PERIOD) % TIMES
  /\ elapsed' = IF ahead THEN 0 ELSE elapsed + PERIOD
  /\ UNCHANGED <<signedTime, modeTimeVars, rmsStart, window, rmsAt, owed, ahead>>

\* The host writes the register "freq", in the thread of task_rms.
SetFrequency(w) ==
  /\ rmsAt = "wait"
  /\ window' = w
  /\ UNCHANGED <<signedTime, modeTimeVars, clockNow, rmsStart, rmsAt, elapsed, owed, ahead>>

\* timer_expired(&tmr2): the interval stays the one of the start.
Expired == Num((clockNow - rmsStart) % TIMES) >= FIRST

\* The window is over, its value is taken (rms_set) ...
EndWindow ==
  /\ rmsAt = "wait" /\ Expired
  /\ rmsAt' = "over"
  /\ UNCHANGED <<signedTime, modeTimeVars, clockNow, rmsStart, window, elapsed, owed, ahead>>

\* Mutant: the timer is started from now (timer_set, which changes the interval too).
FromNow ==
  /\ rmsAt = "over"
  /\ rmsAt' = "wait" /\ rmsStart' = clockNow
  /\ elapsed' = 0 /\ owed' = window - (elapsed - owed)
  /\ UNCHANGED <<signedTime, modeTimeVars, clockNow, window, ahead>>

\* ... and the next begins (out_reset). timer_advance starts its timer where the one
\* before was due.
NextWindow ==
  /\ rmsAt = "over"
  /\ rmsAt' = "wait"
  /\ rmsStart' = (rmsStart + window) % TIMES
  /\ ahead' = (ahead \/ (~signedTime /\ window > Behind))
  /\ elapsed' = 0
  /\ owed' = IF ahead' THEN FIRST ELSE window - (elapsed - owed)
  /\ UNCHANGED <<signedTime, modeTimeVars, clockNow, window>>

ModeTime == SysTick \/ EnterMode \/ FirstCall \/ CompareTimes \/ AddTime \/ MarkTime
RmsTime  == ClockTick \/ EndWindow \/ NextWindow \/ \E w \in WINDOWS : SetFrequency(w)

TimersNext == ModeTime \/ RmsTime

TimersSpec == TimersInit /\ [][TimersNext]_timeVars

-----------------------------------------------------------------------------
(* Properties.                                                             *)

\* Nothing that waits for time to pass ends early, through the wraps of the
\* words and with ticks between the reads: a mode has lasted as long as it
\* believes, and a window of the RMS value is shorter than the host asked for by
\* no more than the one before it was late, so that over many windows the time
\* asked for has passed. (Where time_t is unsigned, a window the host lengthens
\* may begin in the future, and from then on the timer is always expired.)
NeverEarly ==
  /\ timing # "begin" => stateTime <= age
  /\ rmsAt = "over" /\ ~ahead => elapsed >= owed
=============================================================================
