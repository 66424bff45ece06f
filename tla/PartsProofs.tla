----------------------------- MODULE PartsProofs -----------------------------
(***************************************************************************)
(* The time of the modes and of the timers (IState.cpp, CApp.cpp,          *)
(* timer.c), and the parts side by side: each of them behaves as it is     *)
(* specified alone, so that what is proved of one part holds of all.       *)
(***************************************************************************)
EXTENDS MCParts, SlaveProofs, ErrorLogProofs, ScopeRingProofs

-----------------------------------------------------------------------------
(* The times. Nothing that waits for one ends early, for every width of    *)
(* the words, every tick and every value of FR.                            *)

\* One addition or subtraction of times wraps at most once.
LEMMA TimeWraps ==
  ASSUME NEW x \in Int, 0 - TIMES <= x, x < 2 * TIMES
  PROVE  /\ x % TIMES \in Times
         /\ x % TIMES = IF x < 0 THEN x + TIMES ELSE IF x < TIMES THEN x ELSE x - TIMES
<1>0. TIMES \in Nat /\ TIMES > 0
  BY TimersOK
<1>1. CASE x < 0
  BY <1>0, <1>1, SMT DEF Times
<1>2. CASE 0 <= x /\ x < TIMES
  BY <1>0, <1>2, SMT DEF Times
<1>3. CASE TIMES <= x
  BY <1>0, <1>3, SMT DEF Times
<1> QED BY <1>0, <1>1, <1>2, <1>3

LEMMA TimeType == ASSUME NEW x \in Int PROVE x % TIMES \in Times
BY TimersOK DEF Times

LEMMA TimerFacts ==
  /\ TIMES \in Nat /\ TIMES > 0 /\ SYSTICK \in Nat /\ SYSTICK > 0 /\ PERIOD \in Nat /\ PERIOD > 0
  /\ SPAN \in Nat /\ SPAN < TIMES /\ LATE \in Nat
  /\ FIRST \in WINDOWS
  /\ \A w \in WINDOWS : w \in Nat /\ w > 0 /\ w <= LATE /\ 2 * (LATE + w) < TIMES
BY TimersOK

-----------------------------------------------------------------------------
(* The time of a mode.                                                     *)

\* The time that has passed since lastTime, as the two words tell it.
Gap == IF sysTime < lastTime THEN sysTime - lastTime + TIMES ELSE sysTime - lastTime

ModeTimeOK ==
  /\ timing \in {"wait", "add"} => stateTime + Gap <= age
  /\ timing = "add" /\ wrapped => Gap >= 1
  /\ timing = "mark" => stateTime <= age

LEMMA ModeTimeStep ==
  ASSUME TimersTypeOK, ModeTimeOK, ModeTime
  PROVE  TimersTypeOK' /\ ModeTimeOK'
<1> USE TimerFacts DEF TimersTypeOK, Times
<1>1. CASE SysTick
  <2>1. sysTime' = IF sysTime + SYSTICK < TIMES THEN sysTime + SYSTICK
                                                ELSE sysTime + SYSTICK - TIMES
    BY <1>1, TimeWraps DEF SysTick
  <2>2. /\ age' = age + SYSTICK /\ age' <= SPAN
        /\ UNCHANGED <<signedTime, lastTime, stateTime, timing, wrapped>> /\ UNCHANGED rmsVars
    BY <1>1 DEF SysTick
  <2>3. TimersTypeOK'
    BY <2>1, <2>2 DEF rmsVars
  <2>4. timing \in {"wait", "add"} => Gap' = Gap + SYSTICK
    BY <2>1, <2>2 DEF ModeTimeOK, Gap
  <2>5. timing' \in {"wait", "add"} => stateTime' + Gap' <= age'
    BY <2>2, <2>4 DEF ModeTimeOK, Gap
  <2>6. timing' = "add" /\ wrapped' => Gap' >= 1
    <3> SUFFICES ASSUME timing = "add", wrapped PROVE Gap' >= 1
      BY <2>2
    <3>1. Gap >= 1 /\ Gap \in Int
      BY DEF ModeTimeOK, Gap
    <3> QED BY <2>4, <3>1
  <2>7. timing' = "mark" => stateTime' <= age'
    BY <2>2 DEF ModeTimeOK
  <2> QED BY <2>3, <2>5, <2>6, <2>7 DEF ModeTimeOK
<1>2. CASE EnterMode
  BY <1>2 DEF EnterMode, rmsVars, ModeTimeOK
<1>3. CASE FirstCall
  BY <1>3 DEF FirstCall, rmsVars, ModeTimeOK, Gap
<1>4. CASE CompareTimes
  <2>1. wrapped' => sysTime # lastTime
    <3>1. wrapped' => Num(sysTime) < Num(lastTime)
      BY <1>4 DEF CompareTimes
    <3>2. Num(sysTime) \in Int /\ Num(lastTime) \in Int
      BY DEF Num
    <3>3. Num(sysTime) < Num(lastTime) => sysTime # lastTime
      BY <3>2
    <3> QED BY <3>1, <3>3
  <2>2. wrapped' \in BOOLEAN
    BY <1>4 DEF CompareTimes
  <2>3. timing = "wait" /\ timing' = "add"
        /\ UNCHANGED <<signedTime, sysTime, lastTime, stateTime, age>> /\ UNCHANGED rmsVars
    BY <1>4 DEF CompareTimes
  <2>4. TimersTypeOK'
    BY <2>2, <2>3 DEF rmsVars
  <2> QED BY <2>1, <2>3, <2>4 DEF ModeTimeOK, Gap
<1>5. CASE AddTime
  <2> DEFINE d == IF wrapped THEN (-1) - lastTime + sysTime ELSE sysTime - lastTime
  <2>1. stateTime + Gap <= age /\ (wrapped => Gap >= 1) /\ stateTime' = (stateTime + d) % TIMES
    BY <1>5 DEF AddTime, ModeTimeOK
  <2>2. d \in Int /\ 0 - TIMES <= stateTime + d /\ stateTime + d < 2 * TIMES
        /\ d = (IF wrapped THEN 0 - 1 ELSE 0) + (IF sysTime < lastTime THEN Gap - TIMES ELSE Gap)
    BY DEF Gap
  <2>3. stateTime' = stateTime + Gap - (IF wrapped THEN 1 ELSE 0)
    <3> DEFINE x == stateTime + d
    <3>1. x \in Int /\ 0 - TIMES <= x /\ x < 2 * TIMES
      BY <2>2
    <3>2. x % TIMES = IF x < 0 THEN x + TIMES ELSE IF x < TIMES THEN x ELSE x - TIMES
      <4> HIDE DEF x
      <4> QED BY <3>1, TimeWraps
    <3> HIDE DEF d
    <3> QED BY <2>1, <2>2, <3>2 DEF Gap
  <2>4. stateTime' \in Times /\ stateTime' <= age
    BY <2>1, <2>3 DEF Gap
  <2> QED BY <1>5, <2>4 DEF AddTime, rmsVars, ModeTimeOK
<1>6. CASE MarkTime
  BY <1>6 DEF MarkTime, rmsVars, ModeTimeOK, Gap
<1> QED
  BY <1>1, <1>2, <1>3, <1>4, <1>5, <1>6 DEF ModeTime

-----------------------------------------------------------------------------
(* The window of the RMS value.                                            *)

\* While no window has begun in the future, the two words are apart by the
\* time since the timer's start, modulo their width.
RmsTimeOK ==
  /\ ahead => elapsed = 0 /\ owed = FIRST
  /\ ~ahead => /\ Behind \in (0 - LATE) .. LATE
               /\ signedTime \/ Behind >= 0
               /\ clockNow - rmsStart - Behind \in {0 - TIMES, 0, TIMES}
               /\ rmsAt = "over" => Behind >= FIRST

\* timer_expired tells that the interval is over.
LEMMA ExpiredTells ==
  ASSUME TimersTypeOK, RmsTimeOK, Expired, ~ahead
  PROVE  Behind >= FIRST
<1> USE TimerFacts DEF TimersTypeOK, Times
<1> DEFINE x == clockNow - rmsStart
           r == x % TIMES
<1>1. r = IF x < 0 THEN x + TIMES ELSE x
  <2>1. x \in Int /\ 0 - TIMES <= x /\ x < TIMES
    OBVIOUS
  <2> HIDE DEF x
  <2> QED BY <2>1, TimeWraps
<1>2. /\ Behind \in (0 - LATE) .. LATE /\ (signedTime \/ Behind >= 0)
      /\ x - Behind \in {0 - TIMES, 0, TIMES}
  BY DEF RmsTimeOK
<1>3. 2 * LATE < TIMES
  OBVIOUS
<1>4. r = IF Behind < 0 THEN Behind + TIMES ELSE Behind
  BY <1>1, <1>2, <1>3
<1>5. Num(r) >= FIRST
  BY DEF Expired
<1> HIDE DEF r, x
<1> QED BY <1>2, <1>3, <1>4, <1>5 DEF Num

LEMMA RmsTimeStep ==
  ASSUME TimersTypeOK, RmsTimeOK, RmsTime
  PROVE  TimersTypeOK' /\ RmsTimeOK'
<1> USE TimerFacts DEF TimersTypeOK
<1>b. Behind \in Int /\ Behind = elapsed + FIRST - owed
  BY DEF Behind
<1>1. CASE ClockTick
  <2>1. clockNow' \in Times
    BY <1>1, TimeType DEF ClockTick, Times
  <2>2. TimersTypeOK'
    BY <1>1, <2>1 DEF ClockTick, modeTimeVars
  <2>3. CASE ~ahead
    <3>1. /\ Behind + PERIOD <= LATE /\ elapsed' = elapsed + PERIOD
          /\ clockNow' = (clockNow + PERIOD) % TIMES
          /\ UNCHANGED <<signedTime, rmsStart, rmsAt, owed, ahead>>
      BY <1>1, <2>3 DEF ClockTick
    <3>2. 2 * LATE < TIMES
      OBVIOUS
    <3>3. clockNow' = IF clockNow + PERIOD < TIMES THEN clockNow + PERIOD
                                                   ELSE clockNow + PERIOD - TIMES
      BY <1>b, <2>3, <3>1, <3>2, TimeWraps DEF RmsTimeOK, Times
    <3>4. Behind' = Behind + PERIOD
      BY <3>1 DEF Behind
    <3>5. /\ Behind' \in (0 - LATE) .. LATE
          /\ signedTime' \/ Behind' >= 0
      BY <1>b, <2>3, <3>1, <3>4 DEF RmsTimeOK
    <3>6. clockNow' - rmsStart' - Behind' \in {0 - TIMES, 0, TIMES}
      BY <1>b, <2>1, <2>3, <3>1, <3>2, <3>3, <3>4, <3>5 DEF RmsTimeOK, Times
    <3>7. rmsAt' = "over" => Behind' >= FIRST
      BY <1>b, <2>3, <3>1, <3>4 DEF RmsTimeOK
    <3> QED BY <2>2, <2>3, <3>1, <3>5, <3>6, <3>7 DEF RmsTimeOK
  <2>4. CASE ahead
    BY <1>1, <2>2, <2>4 DEF ClockTick, RmsTimeOK
  <2> QED BY <2>3, <2>4
<1>2. CASE \E w \in WINDOWS : SetFrequency(w)
  BY <1>2 DEF SetFrequency, modeTimeVars, RmsTimeOK, Behind
<1>3. CASE EndWindow
  <2>1. TimersTypeOK' /\ UNCHANGED <<signedTime, clockNow, rmsStart, elapsed, owed, ahead>>
    BY <1>3 DEF EndWindow, modeTimeVars
  <2>2. ~ahead => Behind >= FIRST
    BY <1>3, ExpiredTells DEF EndWindow
  <2>3. Behind' = Behind
    BY <2>1 DEF Behind
  <2> QED BY <2>1, <2>2, <2>3 DEF RmsTimeOK
<1>4. CASE NextWindow
  <2>1. rmsStart' \in Times /\ window \in Nat
    BY <1>4, TimeType DEF NextWindow, Times
  <2>2. ahead' \in BOOLEAN /\ elapsed' = 0 /\ owed' \in Int /\ (ahead' => owed' = FIRST)
    BY <1>4, <2>1 DEF NextWindow
  <2>3. TimersTypeOK'
    BY <1>4, <2>1, <2>2 DEF NextWindow, modeTimeVars
  <2>4. CASE ~ahead'
    <3>1. /\ rmsAt = "over" /\ rmsAt' = "wait"
          /\ ahead' = (ahead \/ (~signedTime /\ window > Behind))
          /\ owed' = IF ahead' THEN FIRST ELSE window - (elapsed - owed)
          /\ UNCHANGED <<signedTime, clockNow>> /\ rmsStart' = (rmsStart + window) % TIMES
      BY <1>4 DEF NextWindow
    <3>2. ~ahead /\ (signedTime \/ ~(window > Behind))
      BY <2>4, <3>1, Zenon
    <3>3. owed' = window - (elapsed - owed)
      BY <2>4, <3>1, Zenon
    <3>4. Behind' = Behind - window
      BY <2>1, <2>2, <3>3 DEF Behind
    <3>5. Behind >= FIRST
      BY <3>1, <3>2 DEF RmsTimeOK
    <3>6. rmsStart' = IF rmsStart + window < TIMES THEN rmsStart + window
                                                   ELSE rmsStart + window - TIMES
      BY <3>1, TimeWraps DEF Times
    <3>7. /\ Behind' \in (0 - LATE) .. LATE
          /\ signedTime' \/ Behind' >= 0
      BY <1>b, <2>1, <3>1, <3>2, <3>4, <3>5 DEF RmsTimeOK
    <3>8. clockNow' - rmsStart' - Behind' \in {0 - TIMES, 0, TIMES}
      BY <1>b, <2>1, <3>1, <3>2, <3>4, <3>6, <3>7 DEF RmsTimeOK, Times
    <3> QED BY <2>3, <2>4, <3>1, <3>7, <3>8 DEF RmsTimeOK
  <2> QED BY <2>2, <2>3, <2>4 DEF RmsTimeOK
<1> QED
  BY <1>1, <1>2, <1>3, <1>4 DEF RmsTime

-----------------------------------------------------------------------------
(* Both.                                                                   *)

TimersInv == TimersTypeOK /\ ModeTimeOK /\ RmsTimeOK

LEMMA TimersInvInit == TimersInit => TimersInv
<1> SUFFICES ASSUME TimersInit PROVE TimersInv
  OBVIOUS
<1> USE TimerFacts DEF TimersInit
<1>1. TimersTypeOK
  <2>1. 0 \in Times /\ 0 \in 0 .. SPAN
    BY DEF Times
  <2>2. wrapped \in BOOLEAN /\ ahead \in BOOLEAN /\ signedTime \in BOOLEAN
    BY Zenon
  <2> QED BY <2>1, <2>2 DEF TimersTypeOK
<1>2. ModeTimeOK
  BY DEF ModeTimeOK
<1>3. RmsTimeOK
  <2>1. Behind = 0
    BY DEF Behind
  <2> QED BY <2>1 DEF RmsTimeOK
<1> QED BY <1>1, <1>2, <1>3 DEF TimersInv

LEMMA TimersInvStep == TimersInv /\ [TimersNext]_timeVars => TimersInv'
<1> SUFFICES ASSUME TimersInv, [TimersNext]_timeVars PROVE TimersInv'
  OBVIOUS
<1> USE DEF TimersInv
<1>1. CASE ModeTime
  <2>1. UNCHANGED <<signedTime, rmsVars>>
    BY <1>1 DEF ModeTime, SysTick, EnterMode, FirstCall, CompareTimes, AddTime, MarkTime
  <2> QED BY <1>1, <2>1, ModeTimeStep DEF RmsTimeOK, rmsVars, Behind
<1>2. CASE RmsTime
  <2>1. UNCHANGED modeTimeVars
    BY <1>2 DEF RmsTime, ClockTick, SetFrequency, EndWindow, NextWindow
  <2> QED BY <1>2, <2>1, RmsTimeStep DEF ModeTimeOK, Gap, modeTimeVars
<1>3. CASE UNCHANGED timeVars
  BY <1>3 DEF timeVars, modeTimeVars, rmsVars, TimersTypeOK, ModeTimeOK, RmsTimeOK, Gap,
            Behind
<1> QED
  BY <1>1, <1>2, <1>3 DEF TimersNext

\* The words of the time keep their types and stay apart by the time that has
\* passed: the mode's since it was last read, the timer's since its start.
THEOREM TimersInvariant == TimersSpec => []TimersInv
BY TimersInvInit, TimersInvStep, PTL DEF TimersSpec

\* A mode has lasted as long as it believes, and a window of the RMS value, from
\* out_reset to rms_set, as long as the host asked for less what the one before was
\* late, unless one was begun in the future.
THEOREM NeverEarlyCorrect == TimersSpec => []NeverEarly
<1>1. TimersInv => NeverEarly
  <2> SUFFICES ASSUME TimersInv PROVE NeverEarly
    OBVIOUS
  <2> USE DEF TimersInv
  <2>1. timing # "begin" => stateTime <= age
    BY TimerFacts DEF TimersTypeOK, ModeTimeOK, Gap, Times
  <2>2. rmsAt = "over" /\ ~ahead => elapsed >= owed
    BY TimerFacts DEF TimersTypeOK, RmsTimeOK, Behind
  <2> QED BY <2>1, <2>2 DEF NeverEarly
<1> QED BY <1>1, TimersInvariant, PTL

-----------------------------------------------------------------------------
(* The parts side by side.                                                 *)

\* A step of one part is a step of its own, and a stutter of the others.
LEMMA PartsStep ==
  ASSUME [PartsNext]_allVars
  PROVE  /\ [SlaveNext]_slaveVars /\ [LogNext]_logVars
         /\ [ScopeNext]_scopeVars /\ [TimersNext]_timeVars
<1>1. CASE Works("slave") /\ SlaveNext /\ UNCHANGED <<logVars, scopeVars, timeVars>>
  BY <1>1, Zenon
<1>2. CASE Works("log") /\ LogNext /\ UNCHANGED <<slaveVars, scopeVars, timeVars>>
  BY <1>2, Zenon
<1>3. CASE Works("scope") /\ ScopeNext /\ UNCHANGED <<slaveVars, logVars, timeVars>>
  BY <1>3, Zenon
<1>4. CASE \/ Works("mode time") /\ ModeTime /\ UNCHANGED <<slaveVars, logVars, scopeVars>>
           \/ Works("rms time") /\ RmsTime /\ UNCHANGED <<slaveVars, logVars, scopeVars>>
  BY <1>4, Zenon DEF TimersNext
<1>5. CASE UNCHANGED allVars
  BY <1>5, Zenon DEF allVars
<1> QED BY <1>1, <1>2, <1>3, <1>4, <1>5, Zenon DEF PartsNext

\* Side by side, every part is as it is specified alone.
THEOREM PartsImplement ==
  PartsSpec => SlaveSpec /\ LogSpec /\ ScopeSpec /\ TimersSpec
<1>1. PartsInit => SlaveInit /\ LogInit /\ ScopeInit /\ TimersInit
  BY Zenon DEF PartsInit
<1> QED
  BY <1>1, PartsStep, PTL DEF PartsSpec, SlaveSpec, LogSpec, ScopeSpec, TimersSpec

\* The registers, the packets, the log, the samples and the times keep their types.
THEOREM PartsTypeCorrect == PartsSpec => []PartsTypeOK
<1>1. SlaveInv => SlaveTypeOK
  BY DEF SlaveInv
<1>2. LogInv => LogTypeOK
  BY DEF LogInv
<1>3. TimersInv => TimersTypeOK
  BY DEF TimersInv
<1>4. SlaveTypeOK /\ LogTypeOK /\ ScopeTypeOK /\ TimersTypeOK => PartsTypeOK
  BY Zenon DEF PartsTypeOK
<1> QED
  BY <1>1, <1>2, <1>3, <1>4, PartsImplement, SlaveInvariant, LogInvariant, ScopeTypeCorrect,
     TimersInvariant, PTL
=============================================================================
