------------------------------ MODULE Converter ------------------------------
(***************************************************************************)
(* The operating modes of the AC-AC converter and the three contexts that  *)
(* share them on one core:                                                 *)
(*   - the main loop (CApp::run): host commands, over-limit protection,    *)
(*     the state object's operate(), and CStateMachine::state_set;         *)
(*   - the PWM0 interrupt (acs, CApp.cpp), which enables or disables the   *)
(*     gates once per control period and preempts the main loop;           *)
(*   - the trip-zone interrupts (shutdown, CApp.cpp), of the highest       *)
(*     priority, which preempt both and run to completion.                 *)
(* The main loop is cut into one step per access to shared state, so an    *)
(* interrupt may fall between any two of them.                             *)
(***************************************************************************)
EXTENDS FiniteSets, ErrorBuffer

CONSTANTS
  Units,       \* the PWM modules, each with its own trip-zone input and IRQ
  Faulty,      \* the protection limits (positions in Limits) that can be exceeded
  HostCmds,    \* the values the host writes to the start, rst and diag registers
  DiagCmds,    \* the gate sets the host may ask for through the pwm registers
  Forwarding,  \* whether state_set uses its argument where it wrote m_ptrCurrentState
  LevelIrq     \* whether a latched trip holds its interrupt request asserted

Modes  == {"INIT", "CHARGE", "READY", "RUN", "FAULT", "DIAG"}
Timed  == {"INIT", "CHARGE"}                      \* modes left by time
Ages   == {"unset", "young", "ripe"}              \* m_stateTime against its limit
Limits == <<"BUS_MAX", "CONVERTER_VMAX", "CONVERTER_IMAX">>
Errors == {"BUS_MAX", "CONVERTER_VMAX", "CONVERTER_IMAX", "FLT"}
Gates  == Units \X {"A", "B"}
Levels == {"neg", "ok", "pos"}                    \* below -limit, within, above
Cmds   == [start : BOOLEAN, rst : BOOLEAN, diag : BOOLEAN]

ASSUME ConstantsOK ==
  /\ IsFiniteSet(Units)
  /\ Faulty \subseteq 1 .. 3
  /\ HostCmds \subseteq Cmds
  /\ DiagCmds \subseteq SUBSET Gates
  /\ ERRORS_MAX \in Nat \ {0}
  /\ Forwarding \in BOOLEAN
  /\ LevelIrq \in BOOLEAN

VARIABLES
  ptr, name,     \* CStateMachine::m_ptrCurrentState and m_CurrentStateName
  seen,          \* the object state_set's last load of m_ptrCurrentState gave it
  pc,            \* where the main loop is
  self,          \* the object whose operate() is running
  tgt, ret,      \* state_set's argument and where it returns to
  chk, sign,     \* the limit under test and the sign ABS saw on its first read
  left,          \* the units whose IRQ the running reset() has yet to enable
  age,           \* m_stateTime of the timed states
  regs,          \* CRun::m_isRegsInit
  cmds, pwm,     \* the command registers; pwm: the gates the host asked for
  on,            \* the gates whose action-qualifier registers say "switch"
  acs,           \* the units the interrupted control period has yet to enable
  latch, pend,   \* one-shot trip latches, and requests pending in the NVIC
  armed,         \* the trip IRQs enabled in the NVIC
  sens,          \* the sensors' present levels, by limit
  errs,          \* the error buffer
  tripped,       \* history: a trip preempted operate() in the present pass
  raced,         \* history: ... in some pass since CInit::reset last began in INIT
  fresh,         \* history: what CRun::reset has reset since the last mode change
  settled        \* history: a control period began since the last mode change

mode  == <<ptr, name, seen>>
call  == <<self, tgt, ret, chk, sign, left>>
trip  == <<latch, pend, armed>>
history == <<tripped, raced, fresh>>
vars  == <<mode, pc, call, age, regs, cmds, pwm, on, acs, trip, sens, errs,
           history, settled>>

Storing   == {"compare", "load", "name"}     \* the pointer is stored, the name is not
SetLabels == {"store", "call", "reset", "clr", "tz", "pend", "arm", "disarm", "regs", "lpf"}
             \union Storing
Labels  == {"host", "protect", "limit", "abs", "operate", "diag", "own", "rst"}
           \union SetLabels
Returns == {"limit", "own", "host"}

TypeOK ==
  /\ ptr \in Modes /\ name \in Modes /\ seen \in Modes \union {"none"}
  /\ pc \in {"name", "reset"} => seen \in Modes
  /\ self \in Modes /\ tgt \in Modes
  /\ pc \in Labels /\ ret \in Returns
  /\ chk \in 1 .. 3 /\ sign \in {"neg", "pos"}
  /\ left \subseteq Units /\ acs \subseteq Units
  /\ age \in [Timed -> Ages]
  /\ regs \in BOOLEAN /\ tripped \in BOOLEAN /\ raced \in BOOLEAN /\ settled \in BOOLEAN
  /\ fresh \subseteq {"regs", "lpf"}
  /\ cmds \in Cmds
  /\ pwm \subseteq Gates /\ on \subseteq Gates
  /\ latch \subseteq Units /\ pend \subseteq Units /\ armed \subseteq Units
  /\ sens \in [1 .. 3 -> Levels]
  /\ errs \in Seq(Errors) /\ Len(errs) <= ERRORS_MAX

\* The program after CApp::init: the constructor of sm ran CInit::reset.
Init ==
  /\ ptr = "INIT" /\ name = "INIT" /\ seen = "none" /\ self = "INIT" /\ tgt = "INIT"
  /\ pc = "host" /\ ret = "host" /\ chk = 1 /\ sign = "pos" /\ left = {}
  /\ age = [s \in Timed |-> "unset"]
  /\ regs = FALSE
  /\ cmds = [start |-> FALSE, rst |-> FALSE, diag |-> FALSE] /\ pwm = {}
  /\ on = {} /\ acs = {}
  /\ latch = {} /\ pend = {} /\ armed = Units
  /\ sens = [i \in 1 .. 3 |-> "ok"]
  /\ errs = <<>>
  /\ tripped = FALSE /\ raced = FALSE /\ settled = FALSE /\ fresh = {}

-----------------------------------------------------------------------------
(* Helpers.                                                                *)

\* The object a load of m_ptrCurrentState inside state_set yields.
Reloaded == IF Forwarding THEN tgt ELSE ptr

\* The main loop runs only while no interrupt handler does.
Step(from) == acs = {} /\ pc = from

\* Enter state_set(s), to resume at r.
CallSet(s, r) == pc' = "store" /\ tgt' = s /\ ret' = r

\* Mutant: the last limit is forgotten.
TwoLimits ==
  IF chk < 2 THEN pc' = "limit" /\ chk' = chk + 1
             ELSE pc' = "operate" /\ chk' = 1

\* The next limit of non_critical_protect, or its end.
NextLimit ==
  IF chk < 3 THEN pc' = "limit" /\ chk' = chk + 1
             ELSE pc' = "operate" /\ chk' = 1

-----------------------------------------------------------------------------
(* The main loop.                                                          *)

\* modbus_rtu_task: the host writes the command registers, or does not. The
\* pass begins here.
Host ==
  /\ Step("host")
  /\ pc' = "protect"
  /\ cmds' \in HostCmds \union {cmds}
  /\ pwm' \in DiagCmds \union {pwm}
  /\ tripped' = FALSE
  /\ UNCHANGED <<mode, call, age, regs, on, acs, trip, sens, errs, raced, fresh, settled>>

\* sm.operate calls non_critical_protect of the current object: CDiag's is
\* empty, the others' returns at once when the mode is FAULT.
Protect ==
  /\ Step("protect")
  /\ pc' = IF ptr = "DIAG" \/ name = "FAULT" THEN "operate" ELSE "limit"
  /\ UNCHANGED <<mode, call, age, regs, cmds, pwm, on, acs, trip, sens, errs,
                 history, settled>>

\* ABS(x) reads the sensor to learn its sign ...
Limit ==
  /\ Step("limit")
  /\ \E s \in {"neg", "pos"} :
       /\ sens[chk] \in {s, "ok"}
       /\ sign' = s
  /\ pc' = "abs"
  /\ UNCHANGED <<mode, self, tgt, ret, chk, left, age, regs, cmds, pwm, on, acs,
                 trip, sens, errs, history, settled>>

\* ... and reads it again for its value, which counts as over the limit only
\* when the sign is still the one seen.
LimitExceeded ==
  /\ Step("abs")
  /\ sens[chk] = sign
  /\ errs' = WithError(errs, Limits[chk])
  /\ CallSet("FAULT", "limit")
  /\ UNCHANGED <<mode, self, chk, sign, left, age, regs, cmds, pwm, on, acs,
                 trip, sens, history, settled>>

LimitRespected ==
  /\ Step("abs")
  /\ sens[chk] # sign
  /\ NextLimit
  /\ UNCHANGED <<mode, self, tgt, ret, sign, left, age, regs, cmds, pwm, on, acs,
                 trip, sens, errs, history, settled>>

\* Mutant: every call starts the time anew, as PT_INIT on exit would.
Ageless(a, grown) == "young"

\* task_time_of_state: the first call after reset starts the time, a later
\* one adds to it.
Older(a, grown) ==
  IF a = "unset" THEN "young" ELSE IF grown THEN "ripe" ELSE a

\* Mutant: operate() is dispatched in the object that was current before the
\* limits were tested, as if CStateMachine::operate had kept the pointer.
CachedOperate(grown) ==
  /\ Step("operate")
  /\ self' = IF ptr = "FAULT" THEN self ELSE ptr
  /\ age' = [s \in Timed |-> IF s = ptr THEN Older(age[s], grown) ELSE age[s]]
  /\ pc' = "diag"
  /\ UNCHANGED <<mode, tgt, ret, chk, sign, left, regs, cmds, pwm, on, acs, trip,
                 sens, errs, history, settled>>

\* operate() of the current object begins with IState::operate: the time in
\* the state, past its limit when "grown" ...
Operate(grown) ==
  /\ Step("operate")
  /\ self' = ptr
  /\ age' = [s \in Timed |-> IF s = ptr THEN Older(age[s], grown) ELSE age[s]]
  /\ pc' = "diag"
  /\ UNCHANGED <<mode, tgt, ret, chk, sign, left, regs, cmds, pwm, on, acs, trip,
                 sens, errs, history, settled>>

\* ... then the diag command, heeded in any mode but RUN.
HeedDiag ==
  /\ Step("diag")
  /\ IF name # "RUN" /\ cmds.diag
     THEN CallSet("DIAG", "own")
     ELSE pc' = "own" /\ UNCHANGED <<tgt, ret>>
  /\ UNCHANGED <<mode, self, chk, sign, left, age, regs, cmds, pwm, on, acs, trip,
                 sens, errs, history, settled>>

\* The rest of operate() for the modes whose last act is a conditional
\* state_set: CInit, CCharge, CReady and CRun.
Leaves ==
  CASE self = "INIT"   -> age["INIT"] = "ripe"
    [] self = "CHARGE" -> age["CHARGE"] = "ripe"
    [] self = "READY"  -> cmds.start
    [] self = "RUN"    -> ~cmds.start

Successor ==
  CASE self = "INIT"   -> "CHARGE"
    [] self = "CHARGE" -> "READY"
    [] self = "READY"  -> "RUN"
    [] self = "RUN"    -> "READY"

OwnNormal ==
  /\ Step("own")
  /\ self \notin {"FAULT", "DIAG"}
  /\ IF Leaves THEN CallSet(Successor, "host")
               ELSE pc' = "host" /\ UNCHANGED <<tgt, ret>>
  /\ UNCHANGED <<mode, self, chk, sign, left, age, regs, cmds, pwm, on, acs, trip,
                 sens, errs, history, settled>>

\* CFault::operate withdraws the start command; rst leads to INIT.
OwnFault ==
  /\ Step("own")
  /\ self = "FAULT"
  /\ cmds' = [cmds EXCEPT !.start = FALSE, !.rst = FALSE]
  /\ IF cmds.rst THEN CallSet("INIT", "host")
                 ELSE pc' = "host" /\ UNCHANGED <<tgt, ret>>
  /\ UNCHANGED <<mode, self, chk, sign, left, age, regs, pwm, on, acs, trip, sens,
                 errs, history, settled>>

\* CDiag::operate sets every gate as the host asks ...
OwnDiag ==
  /\ Step("own")
  /\ self = "DIAG"
  /\ on' = pwm
  /\ pc' = "rst"
  /\ UNCHANGED <<mode, call, age, regs, cmds, pwm, acs, trip, sens, errs, history,
                 settled>>

\* ... and on rst switches all off and leaves for INIT.
DiagReset ==
  /\ Step("rst")
  /\ IF cmds.rst
     THEN /\ on' = {}
          /\ cmds' = [cmds EXCEPT !.diag = FALSE, !.rst = FALSE]
          /\ CallSet("INIT", "host")
     ELSE pc' = "host" /\ UNCHANGED <<on, cmds, tgt, ret>>
  /\ UNCHANGED <<mode, self, chk, sign, left, age, regs, pwm, acs, trip, sens,
                 errs, history, settled>>

-----------------------------------------------------------------------------
(* CStateMachine::state_set and the reset() it calls.                      *)

\* Resume where state_set was called: from a limit, at the one after it.
Return ==
  IF ret = "limit" THEN NextLimit ELSE pc' = ret /\ chk' = chk

StorePtr ==
  /\ Step("store")
  /\ ptr' = tgt
  /\ pc' = "compare"
  /\ UNCHANGED <<name, seen, call, age, regs, cmds, pwm, on, acs, trip, sens, errs,
                 history, settled>>

\* The name is compared with the argument's: if they agree, that was all.
CompareName ==
  /\ Step("compare")
  /\ IF name # tgt THEN pc' = "load" /\ chk' = chk ELSE Return
  /\ UNCHANGED <<mode, self, tgt, ret, sign, left, age, regs, cmds, pwm, on, acs, trip,
                 sens, errs, history, settled>>

\* The pointer is loaded and the object asked its name ...
LoadName ==
  /\ Step("load")
  /\ seen' = Reloaded
  /\ pc' = "name"
  /\ UNCHANGED <<ptr, name, call, age, regs, cmds, pwm, on, acs, trip, sens, errs,
                 history, settled>>

\* ... which is stored, whatever an interrupt has stored there meanwhile.
StoreName ==
  /\ Step("name")
  /\ name' = seen /\ seen' = "none"
  /\ settled' = (settled /\ seen = name)
  /\ fresh' = {}
  /\ pc' = "call"
  /\ UNCHANGED <<ptr, call, age, regs, cmds, pwm, on, acs, trip, sens, errs, tripped,
                 raced>>

\* The pointer is loaded once more, for the virtual call of reset().
LoadReset ==
  /\ Step("call")
  /\ seen' = Reloaded
  /\ pc' = "reset"
  /\ raced' = (raced /\ {ptr, name, Reloaded} # {"INIT"})
  /\ UNCHANGED <<ptr, name, call, age, regs, cmds, pwm, on, acs, trip, sens, errs,
                 tripped, fresh, settled>>

\* The first part of the reset() of the object the call reaches.
Called(state) == Step("reset") /\ seen = state /\ seen' = "none"

ResetInit ==
  /\ Called("INIT")
  /\ age' = [age EXCEPT !["INIT"] = "unset"]
  /\ pc' = "clr"
  /\ UNCHANGED <<ptr, name, call, regs, cmds, pwm, on, acs, trip, sens, errs, history,
                 settled>>

ResetCharge ==
  /\ Called("CHARGE")
  /\ age' = [age EXCEPT !["CHARGE"] = "unset"]
  /\ Return
  /\ UNCHANGED <<ptr, name, self, tgt, ret, sign, left, regs, cmds, pwm, on, acs, trip,
                 sens, errs, history, settled>>

\* Mutant: READY trusts the modes before it to have enabled the trip IRQs.
TrustingReady ==
  /\ Called("READY")
  /\ left' = {}
  /\ pc' = "arm"
  /\ UNCHANGED <<ptr, name, self, tgt, ret, chk, sign, age, regs, cmds, pwm, on, acs,
                 trip, sens, errs, history, settled>>

ResetReady ==
  /\ Called("READY")
  /\ left' = Units
  /\ pc' = "arm"
  /\ UNCHANGED <<ptr, name, self, tgt, ret, chk, sign, age, regs, cmds, pwm, on, acs,
                 trip, sens, errs, history, settled>>

\* Mutant: the flag is left to init_regulators.
StillInit ==
  /\ Called("RUN")
  /\ pc' = "regs"
  /\ UNCHANGED <<ptr, name, call, age, regs, cmds, pwm, on, acs, trip, sens, errs,
                 history, settled>>

ResetRun ==
  /\ Called("RUN")
  /\ regs' = FALSE
  /\ pc' = "regs"
  /\ UNCHANGED <<ptr, name, call, age, cmds, pwm, on, acs, trip, sens, errs, history,
                 settled>>

ResetFault ==
  /\ Called("FAULT")
  /\ on' = {}
  /\ Return
  /\ UNCHANGED <<ptr, name, self, tgt, ret, sign, left, age, regs, cmds, pwm, acs, trip,
                 sens, errs, history, settled>>

ResetDiag ==
  /\ Called("DIAG")
  /\ on' = {} /\ pwm' = {}
  /\ cmds' = [cmds EXCEPT !.rst = FALSE]
  /\ pc' = "disarm"
  /\ UNCHANGED <<ptr, name, call, age, regs, acs, trip, sens, errs, history, settled>>

\* CInit::reset goes on: errors.clr, TZ_reset of both units, then the pending
\* requests are dropped.
ClearErrors ==
  /\ Step("clr")
  /\ errs' = <<>>
  /\ pc' = "tz"
  /\ UNCHANGED <<mode, call, age, regs, cmds, pwm, on, acs, trip, sens, history,
                 settled>>

ResetLatches ==
  /\ Step("tz")
  /\ latch' = {}
  /\ pc' = "pend"
  /\ UNCHANGED <<mode, call, age, regs, cmds, pwm, on, acs, pend, armed, sens, errs,
                 history, settled>>

\* Mutant: the IRQs are not enabled again.
PendingOnly ==
  /\ Step("pend")
  /\ pend' = {} /\ left' = {}
  /\ pc' = "arm"
  /\ UNCHANGED <<mode, self, tgt, ret, chk, sign, age, regs, cmds, pwm, on, acs,
                 latch, armed, sens, errs, history, settled>>

ClearPending ==
  /\ Step("pend")
  /\ pend' = {}
  /\ left' = Units
  /\ pc' = "arm"
  /\ UNCHANGED <<mode, self, tgt, ret, chk, sign, age, regs, cmds, pwm, on, acs,
                 latch, armed, sens, errs, history, settled>>

\* CInit::reset and CReady::reset enable the trip IRQs one after the other.
Arm ==
  /\ Step("arm")
  /\ \/ \E u \in left :
          /\ armed' = armed \union {u}
          /\ left' = left \ {u}
          /\ UNCHANGED <<pc, chk>>
     \/ left = {} /\ Return /\ UNCHANGED <<armed, left>>
  /\ UNCHANGED <<mode, self, tgt, ret, sign, age, regs, cmds, pwm, on, acs, latch,
                 pend, sens, errs, history, settled>>

\* Mutant: diagnostics leave the trip IRQs alone.
StaysArmed ==
  /\ Step("disarm") /\ Return
  /\ UNCHANGED <<mode, self, tgt, ret, sign, left, age, regs, cmds, pwm, on, acs,
                 trip, sens, errs, history, settled>>

\* CDiag::reset disables them.
Disarm ==
  /\ Step("disarm")
  /\ armed' = {}
  /\ Return
  /\ UNCHANGED <<mode, self, tgt, ret, sign, left, age, regs, cmds, pwm, on, acs,
                 latch, pend, sens, errs, history, settled>>

\* CRun::reset goes on: init_regulators resets them and raises the flag ...
InitRegs ==
  /\ Step("regs")
  /\ regs' = TRUE /\ fresh' = fresh \union {"regs"}
  /\ pc' = "lpf"
  /\ UNCHANGED <<mode, call, age, cmds, pwm, on, acs, trip, sens, errs, tripped, raced,
                 settled>>

\* ... and the filter of the output voltage is reset after that.
ResetFilter ==
  /\ Step("lpf")
  /\ fresh' = fresh \union {"lpf"}
  /\ Return
  /\ UNCHANGED <<mode, self, tgt, ret, sign, left, age, regs, cmds, pwm, on, acs, trip,
                 sens, errs, tripped, raced, settled>>

StateSet == StorePtr \/ CompareName \/ LoadName \/ StoreName \/ LoadReset
Reset    == ResetInit \/ ResetCharge \/ ResetReady \/ ResetRun \/ ResetFault \/ ResetDiag
ResetEnd == \/ ClearErrors \/ ResetLatches \/ ClearPending \/ Arm \/ Disarm
            \/ InitRegs \/ ResetFilter
Pass     == \/ Host \/ Protect \/ Limit \/ LimitExceeded \/ LimitRespected
            \/ \E grown \in BOOLEAN : Operate(grown)
            \/ HeedDiag \/ OwnNormal \/ OwnFault \/ OwnDiag \/ DiagReset

Main == Pass \/ StateSet \/ Reset \/ ResetEnd

-----------------------------------------------------------------------------
(* The interrupts and the world.                                           *)

\* Mutant: the mode is not tested.
DrivesAnyMode == regs

\* acs computes a duty and enables the units in RUN, once the regulators are
\* initialised.
Drives == name = "RUN" /\ regs

\* Mutant: acs leaves the gates to the modes' reset() outside RUN.
NeverDisables ==
  /\ acs = {}
  /\ acs' = IF Drives THEN Units ELSE {}
  /\ settled' = TRUE
  /\ UNCHANGED <<mode, pc, call, age, regs, cmds, pwm, on, trip, sens, errs, history>>

\* PWM0: acs drives the units, leaves the gates alone in DIAG, and disables
\* them otherwise.
Control ==
  /\ acs = {}
  /\ acs' = IF Drives THEN Units ELSE {}
  /\ on' = IF Drives \/ name = "DIAG" THEN on ELSE {}
  /\ settled' = TRUE
  /\ UNCHANGED <<mode, pc, call, age, regs, cmds, pwm, trip, sens, errs, history>>

\* out_enable of one unit, at the end of acs.
Enable(u) ==
  /\ u \in acs
  /\ acs' = acs \ {u}
  /\ on' = on \union ({u} \X {"A", "B"})
  /\ UNCHANGED <<mode, pc, call, age, regs, cmds, pwm, trip, sens, errs, history,
                 settled>>

\* The trip input of a unit latches its one-shot trip, which holds the
\* unit's outputs at zero and requests its interrupt.
Trip(u) ==
  /\ u \notin latch
  /\ latch' = latch \union {u}
  /\ pend' = pend \union {u}
  /\ UNCHANGED <<mode, pc, call, age, regs, cmds, pwm, on, acs, armed, sens, errs,
                 history, settled>>

Requests == pend \union (IF LevelIrq THEN latch ELSE {})

\* The main loop is inside operate() of the object it dispatched to.
Exposed ==
  \/ pc \in {"diag", "own", "rst"}
  \/ pc \in SetLabels /\ ret # "limit"

\* Mutant: the handler changes the mode by its pointer alone.
HalfShutdown(u) ==
  /\ u \in armed \intersect Requests
  /\ errs' = WithError(errs, "FLT")
  /\ ptr' = "FAULT"
  /\ latch' = {} /\ pend' = {} /\ armed' = {}
  /\ on' = {}
  /\ tripped' = (tripped \/ Exposed) /\ raced' = (raced \/ Exposed)
  /\ fresh' = {}
  /\ UNCHANGED <<name, seen, pc, call, age, regs, cmds, pwm, acs, sens, settled>>

\* PWMx_TZ_IRQHandler: shutdown. Whatever it preempted resumes where it was.
Shutdown(u) ==
  /\ u \in armed \intersect Requests
  /\ errs' = WithError(errs, "FLT")
  /\ ptr' = "FAULT" /\ name' = "FAULT"
  /\ settled' = (settled /\ name = "FAULT")
  /\ latch' = {} /\ pend' = {} /\ armed' = {}
  /\ on' = {}
  /\ tripped' = (tripped \/ Exposed) /\ raced' = (raced \/ Exposed)
  /\ fresh' = {}
  /\ UNCHANGED <<seen, pc, call, age, regs, cmds, pwm, acs, sens>>

\* A conversion ends: the sensors take new values.
Adc ==
  /\ \E i \in Faulty :
       \E v \in Levels \ {sens[i]} : sens' = [sens EXCEPT ![i] = v]
  /\ UNCHANGED <<mode, pc, call, age, regs, cmds, pwm, on, acs, trip, errs, history,
                 settled>>

Interrupt == Control \/ \E u \in Units : Enable(u) \/ Shutdown(u)
World     == Adc \/ \E u \in Units : Trip(u)

Next == Main \/ Interrupt \/ World

Spec == Init /\ [][Next]_vars

\* The control interrupt leaves the main loop time in every period, so the
\* loop is strongly fair; time passes, so a state is eventually found old;
\* an enabled interrupt request is eventually taken.
Fairness ==
  /\ SF_vars(Main)
  /\ SF_vars(Operate(TRUE))
  /\ WF_vars(Control)
  /\ \A u \in Units : WF_vars(Enable(u)) /\ WF_vars(Shutdown(u))

FairSpec == Spec /\ Fairness
-----------------------------------------------------------------------------
(* Safety.                                                                 *)

\* A stop, a fault or a trip takes its effect on the outputs no later than
\* the first control period that begins after it, and nothing switches them
\* back: not a control period the trip preempted half way (acs, CApp.cpp),
\* nor a diagnostic pass.
OutputsSettle ==
  settled /\ acs = {} /\ name \notin {"RUN", "DIAG"} => on = {}

\* While CDiag::operate switches gates by hand the trip interrupts are off,
\* so no shutdown can fall between its test of a command and the switch_on.
DiagUntripped ==
  self = "DIAG" /\ pc \in {"diag", "own", "rst"} => armed = {} /\ name = "DIAG"

\* A fault is left for INIT on the rst command or for DIAG on the diag
\* command. It is lost to another mode only when the trip that raised it
\* preempted operate() of the mode it ended.
FaultHeld ==
  [][name = "FAULT" /\ name' # "FAULT" => tgt = "INIT" \/ cmds.diag \/ tripped]_vars

\* RUN is entered on the start command, with every trip interrupt enabled,
\* except in a pass where the diag command was up as well (CDiag::reset
\* disabled them) or a trip preempted the pass.
RunArmed ==
  [][name # "RUN" /\ name' = "RUN" =>
       /\ cmds.start
       /\ armed = Units \/ cmds.diag \/ tripped]_vars

\* A control period drives the gates with the regulators and the filter of
\* this run, except in two windows of the entry into it: one between
\* state_set's store of the name and CRun::reset finds the flag of the run
\* before, and one between the flag and CRun::reset's end finds its filter.
\* (When a trip fell into state_set and left the pointer at FAULT under the
\* name RUN, CRun::reset is not called and the flag of before stands.)
RunsFresh ==
  Drives /\ ptr = "RUN" =>
    /\ "regs" \in fresh \/ pc \in {"call", "reset"}
    /\ "lpf" \in fresh \/ pc \in {"call", "reset", "lpf"}

\* Between passes an error is on record exactly in the modes a fault leads
\* to, unless a trip preempted operate() since CInit::reset last began in
\* INIT: it may be overwritten by the mode operate() had decided on, have its
\* name overwritten by the one state_set had loaded, or lose its error to
\* CInit::reset.
FaultHasCause ==
  pc = "host" /\ ~raced =>
    /\ name = "FAULT" => errs # <<>>
    /\ errs # <<>> => name \in {"FAULT", "DIAG"}

\* Every pass that begins in INIT or READY begins fit to run, with the same
\* exception: its trip interrupts are enabled, and INIT has forgotten the
\* errors of before. (The exception is real: with the pointer at FAULT under
\* the name INIT, state_set(INIT) finds its name and never calls CInit::reset.)
ReadyIsFit ==
  pc = "host" /\ ~raced =>
    /\ name = "INIT" => errs = <<>> /\ armed = Units
    /\ name = "READY" => armed = Units

\* The two halves of the state machine's state, which the main loop and the
\* trip handler store one after the other, agree between passes, with the
\* same exception.
HalvesAgree == pc = "host" /\ ~raced => ptr = name

-----------------------------------------------------------------------------
(* The inductive strengthening of OutputsSettle, DiagUntripped, FaultHeld  *)
(* and RunArmed.                                                           *)

\* state_set's argument by the place it returns to, and by the operate() that
\* calls it: limits lead to FAULT, the diag command to DIAG, CFault and CDiag
\* to INIT, the rest to the next mode.
CallsOK ==
  pc \in SetLabels =>
    /\ ret = "limit" => tgt = "FAULT"
    /\ ret = "own" => tgt = "DIAG" /\ cmds.diag
    /\ ret = "host" => /\ tgt \in {"INIT", "CHARGE", "READY", "RUN"}
                       /\ self \in {"FAULT", "DIAG"} => tgt = "INIT"
                       /\ tgt = "INIT" => self \in {"FAULT", "DIAG"}
                       /\ tgt = "RUN" => self = "READY" /\ cmds.start
                       /\ tgt = "READY" => self \in {"CHARGE", "RUN"}

\* Which reset() the later parts of one belong to.
ResetsOK ==
  /\ pc = "disarm" => ret = "own" /\ {ptr, name} \subseteq {"DIAG", "FAULT"}
  /\ pc \in {"clr", "tz", "pend", "arm", "regs", "lpf"} => ret = "host"
  /\ pc = "rst" => self = "DIAG"

\* What a trip may have made of the two halves of the state, by the step of
\* state_set it fell before.
HalvesOK ==
  /\ pc \in Storing => ptr \in {tgt, "FAULT"}
  /\ pc \in Storing /\ tgt # "FAULT" /\ ptr = "FAULT" => tripped
  /\ pc \in {"call", "reset"} => ptr \in {tgt, "FAULT"} /\ name \in {tgt, "FAULT"}
  /\ pc \in {"name", "reset"} => seen = tgt \/ (seen = "FAULT" /\ ptr = "FAULT")
  /\ pc \notin Storing /\ name = "FAULT" => ptr = "FAULT"
  /\ pc \notin Storing /\ ptr # "FAULT" => name = ptr

\* In DIAG the trip IRQs are off, except while its reset() is on the way.
DisarmedOK ==
  /\ name = "DIAG" =>
       armed = {} \/ (ptr = "DIAG" /\ tgt = "DIAG" /\ pc \in {"call", "reset", "disarm"})
  /\ pc \in Storing /\ tgt = "DIAG" => armed = {} \/ ptr = "DIAG"
  /\ pc \in {"clr", "tz", "pend", "arm"} => name # "DIAG"

\* A pass that began elsewhere finds itself in FAULT only by a trip.
PassOK ==
  /\ self = "DIAG" /\ Exposed /\ ret = "own" /\ pc \in SetLabels =>
       name = "DIAG" /\ armed = {} /\ pc \in {"store", "compare"}
  /\ self # "FAULT" /\ Exposed /\ name = "FAULT" => tripped

\* READY keeps the trip IRQs enabled, and so does a pass begun in READY until
\* a trip or the diag command; a pass begun elsewhere does not find READY,
\* nor one begun in READY RUN before it enters it.
ReadyOK ==
  /\ ptr = "READY" =>
       \/ armed = Units
       \/ tgt = "READY" /\ pc \in Storing \union {"call", "reset"}
       \/ pc = "arm" /\ Units = armed \union left
  /\ self = "READY" /\ Exposed => armed = Units \/ cmds.diag \/ tripped
  /\ self \in {"CHARGE", "RUN"} /\ Exposed /\ name = "READY" =>
       pc \notin {"diag", "own", "store"} \union Storing
  /\ self = "READY" /\ Exposed /\ name = "RUN" =>
       pc \notin {"diag", "own", "store"} \union Storing

\* A half-finished control period belongs to RUN or to a mode just left.
PeriodOK == acs # {} => name = "RUN" \/ ~settled

ModeInv ==
  /\ CallsOK /\ ResetsOK /\ HalvesOK /\ DisarmedOK /\ PassOK /\ ReadyOK /\ PeriodOK
  /\ OutputsSettle /\ DiagUntripped

-----------------------------------------------------------------------------
(* The inductive strengthening of FaultHasCause, ReadyIsFit and            *)
(* HalvesAgree; it rests on ModeInv.                                       *)

\* The halves differ only between their stores, or when a trip fell there.
MismatchOK ==
  /\ ptr = "FAULT" /\ (IF pc \in Storing THEN tgt ELSE name) # "FAULT" => raced
  /\ pc \in {"call", "reset"} /\ tgt = "INIT" => raced \/ (ptr = "INIT" /\ name = "INIT")

\* INIT has no errors and its trip IRQs enabled, once its reset() is through
\* with them and until a limit is exceeded.
CleanOK ==
  name = "INIT" /\ ~raced =>
    /\ \/ errs = <<>>
       \/ pc = "clr" \/ (pc \in {"call", "reset"} /\ tgt = "INIT")
       \/ pc \in {"store"} \union Storing /\ tgt = "FAULT"
    /\ \/ armed = Units
       \/ pc \in {"clr", "tz", "pend"} \/ (pc \in {"call", "reset"} /\ tgt = "INIT")
       \/ pc = "arm" /\ Units = armed \union left

\* FAULT has an error, from before its limit calls state_set or from the trip.
CauseOK ==
  /\ name = "FAULT" => errs # <<>> \/ raced
  /\ pc \in {"store", "call", "reset"} \union Storing /\ tgt = "FAULT" => errs # <<>>
  /\ pc \in {"call", "reset", "clr"} /\ tgt # "FAULT" /\ name = "FAULT" => raced

\* An error leads to FAULT or DIAG, and leaves with the clearing of INIT.
ErrorOK ==
  errs # <<>> =>
    /\ \/ name \in {"FAULT", "DIAG"} \/ raced
       \/ pc \in {"store"} \union Storing /\ tgt = "FAULT"
       \/ pc \in {"call", "reset", "clr"} /\ tgt = "INIT"
    /\ Exposed /\ self \notin {"FAULT", "DIAG"} => raced

CauseInv == MismatchOK /\ CleanOK /\ CauseOK /\ ErrorOK

-----------------------------------------------------------------------------
(* Liveness, under FairSpec.                                               *)

\* A limit that stays exceeded on one side is not left unanswered: the mode
\* keeps coming back to FAULT, or to DIAG, whose non_critical_protect is empty.
OverloadCaught ==
  \A i \in 1 .. 3 :
    <>[](sens[i] = "pos") => []<>(name \in {"FAULT", "DIAG"})

\* In FAULT the outputs are eventually off, however the trip fell.
FaultCutsOutputs == name = "FAULT" ~> on = {} \/ name # "FAULT"

\* Left alone with the start command up, the converter reaches RUN and stays.
Undisturbed ==
  /\ cmds.start /\ ~cmds.diag /\ latch = {} /\ \A i \in 1 .. 3 : sens[i] = "ok"
  /\ name \notin {"FAULT", "DIAG"}
ReachesRun == <>[]Undisturbed => <>[](name = "RUN")
=============================================================================
