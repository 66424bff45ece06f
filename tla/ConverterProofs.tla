--------------------------- MODULE ConverterProofs ---------------------------
(***************************************************************************)
(* Proofs about Converter, for any units, host, error buffer, compiler and *)
(* interrupt controller the constants allow.                               *)
(***************************************************************************)
EXTENDS Converter, TLAPS

(***************************************************************************)
(* What CErrors::set leaves in the buffer is a log of errors no longer     *)
(* than the buffer.                                                        *)
(***************************************************************************)
LEMMA WithErrorType ==
  ASSUME NEW log \in Seq(Errors), Len(log) <= ERRORS_MAX, NEW e \in Errors
  PROVE  /\ WithError(log, e) \in Seq(Errors)
         /\ Len(WithError(log, e)) <= ERRORS_MAX
  BY ConstantsOK DEF WithError, ConstantsOK

(***************************************************************************)
(* The error codes of the three limits are errors.                         *)
(***************************************************************************)
LEMMA LimitsAreErrors == \A i \in 1 .. 3 : Limits[i] \in Errors
  BY DEF Limits, Errors

(***************************************************************************)
(* Every step keeps the state well typed; in particular a CErrors::set no  *)
(* trip falls into never writes past the buffer's end.                     *)
(***************************************************************************)
LEMMA TypeStep == TypeOK /\ [Next]_vars => TypeOK'
  <1> SUFFICES ASSUME TypeOK, [Next]_vars PROVE TypeOK'
    OBVIOUS
  <1> USE DEF TypeOK, Labels, SetLabels, Storing, Returns, Modes, Timed, Ages, Cmds,
     Levels, Gates
  <1>1. CASE Host
    <2>1. cmds' \in Cmds /\ pwm' \subseteq Gates
      BY <1>1, ConstantsOK DEF Host, ConstantsOK
    <2>2. tripped' \in BOOLEAN
      BY <1>1 DEF Host
    <2>3. QED
      BY <1>1, <2>1, <2>2 DEF Host, Step, mode, call, trip
  <1>2. CASE Protect
    BY <1>2 DEF Protect, Step, mode, call, trip, history
  <1>3. CASE Limit
    BY <1>3 DEF Limit, Step, mode, trip, history
  <1>4. CASE LimitExceeded
    BY <1>4, WithErrorType, LimitsAreErrors DEF LimitExceeded, Step, CallSet,
       mode, trip, history, Errors
  <1>5. CASE LimitRespected
    BY <1>5 DEF LimitRespected, Step, NextLimit, mode, trip, history
  <1>6. ASSUME NEW grown \in BOOLEAN, Operate(grown) PROVE TypeOK'
    BY <1>6 DEF Operate, Step, Older, mode, trip, history
  <1>7. CASE HeedDiag
    BY <1>7 DEF HeedDiag, Step, CallSet, mode, trip, history
  <1>8. CASE OwnNormal
    BY <1>8 DEF OwnNormal, Step, CallSet, Successor, mode, trip, history
  <1>9. CASE OwnFault
    <2>1. cmds' \in Cmds
      BY <1>9 DEF OwnFault
    <2>2. QED
      BY <1>9, <2>1 DEF OwnFault, Step, CallSet, mode, trip, history
  <1>10. CASE OwnDiag
    BY <1>10 DEF OwnDiag, Step, mode, call, trip, history
  <1>11. CASE DiagReset
    <2>1. cmds' \in Cmds
      BY <1>11 DEF DiagReset
    <2>2. QED
      BY <1>11, <2>1 DEF DiagReset, Step, CallSet, mode, trip, history
  <1>12. CASE StorePtr
    BY <1>12 DEF StorePtr, Step, call, trip, history
  <1>13. CASE CompareName
    BY <1>13 DEF CompareName, Step, Return, NextLimit, mode, trip, history
  <1>13a. CASE LoadName
    BY <1>13a DEF LoadName, Step, Reloaded, call, trip, history
  <1>13b. CASE StoreName
    <2>1. settled' \in BOOLEAN
      BY <1>13b DEF StoreName
    <2>2. QED
      BY <1>13b, <2>1 DEF StoreName, Step, call, trip
  <1>13c. CASE LoadReset
    <2>1. raced' \in BOOLEAN
      BY <1>13c DEF LoadReset
    <2>2. QED
      BY <1>13c, <2>1 DEF LoadReset, Step, Reloaded, call, trip
  <1>14. CASE ResetInit
    BY <1>14 DEF ResetInit, Called, Step, call, trip, history
  <1>15. CASE ResetCharge
    BY <1>15 DEF ResetCharge, Called, Step, Return, NextLimit, trip, history
  <1>16. CASE ResetReady
    BY <1>16 DEF ResetReady, Called, Step, trip, history
  <1>17. CASE ResetRun
    <2>1. regs' \in BOOLEAN
      BY <1>17 DEF ResetRun
    <2>2. QED
      BY <1>17, <2>1 DEF ResetRun, Called, Step, call, trip, history
  <1>18. CASE ResetFault
    BY <1>18 DEF ResetFault, Called, Step, Return, NextLimit, trip, history
  <1>19. CASE ResetDiag
    <2>1. cmds' \in Cmds
      BY <1>19 DEF ResetDiag
    <2>2. QED
      BY <1>19, <2>1 DEF ResetDiag, Called, Step, call, trip, history
  <1>20. CASE ClearErrors
    BY <1>20, ConstantsOK DEF ConstantsOK, ClearErrors, Step, mode, call, trip,
       history
  <1>21. CASE ResetLatches
    BY <1>21 DEF ResetLatches, Step, mode, call, history
  <1>22. CASE ClearPending
    BY <1>22 DEF ClearPending, Step, mode, history
  <1>23. CASE Arm
    BY <1>23 DEF Arm, Step, Return, NextLimit, mode, history
  <1>24. CASE Disarm
    BY <1>24 DEF Disarm, Step, Return, NextLimit, mode, history
  <1>25. CASE InitRegs
    BY <1>25 DEF InitRegs, Step, mode, call, trip
  <1>25a. CASE ResetFilter
    BY <1>25a DEF ResetFilter, Step, Return, NextLimit, mode, trip
  <1>26. CASE Control
    BY <1>26 DEF Control, mode, call, trip, history
  <1>27. ASSUME NEW u \in Units, Enable(u) PROVE TypeOK'
    BY <1>27 DEF Enable, mode, call, trip, history
  <1>28. ASSUME NEW u \in Units, Shutdown(u) PROVE TypeOK'
    <2>1. errs' \in Seq(Errors) /\ Len(errs') <= ERRORS_MAX
      BY <1>28, WithErrorType DEF Shutdown, Errors
    <2>2. settled' \in BOOLEAN /\ tripped' \in BOOLEAN /\ raced' \in BOOLEAN
      BY <1>28 DEF Shutdown
    <2>3. QED
      BY <1>28, <2>1, <2>2 DEF Shutdown, call
  <1>29. ASSUME NEW u \in Units, Trip(u) PROVE TypeOK'
    BY <1>29 DEF Trip, mode, call, history
  <1>30. CASE Adc
    <2>1. sens' \in [1 .. 3 -> Levels]
      BY <1>30, ConstantsOK DEF Adc, ConstantsOK
    <2>2. QED
      BY <1>30, <2>1 DEF Adc, mode, call, trip, history
  <1>31. CASE UNCHANGED vars
    BY <1>31 DEF vars, mode, call, trip, history
  <1>32. QED
    BY <1>1, <1>2, <1>3, <1>4, <1>5, <1>6, <1>7, <1>8, <1>9, <1>10, <1>11, <1>12,
       <1>13, <1>13a, <1>13b, <1>13c, <1>14, <1>15, <1>16, <1>17, <1>18, <1>19, <1>20,
       <1>21, <1>22, <1>23, <1>24, <1>25, <1>25a, <1>26, <1>27, <1>28, <1>29, <1>30, <1>31
       DEF Next, Main, Pass, StateSet, Reset, ResetEnd, Interrupt, World

(***************************************************************************)
(* The type invariant of the state machine and its interrupts.             *)
(***************************************************************************)
THEOREM TypeCorrect == Spec => []TypeOK
  <1>1. ASSUME Init PROVE TypeOK
    <2>1. cmds \in Cmds
      BY <1>1 DEF Init, Cmds
    <2>2. age \in [Timed -> Ages] /\ sens \in [1 .. 3 -> Levels]
      BY <1>1 DEF Init, Timed, Ages, Levels
    <2>3. errs \in Seq(Errors) /\ Len(errs) <= ERRORS_MAX
      BY <1>1, ConstantsOK DEF Init, ConstantsOK
    <2>4. /\ regs \in BOOLEAN /\ tripped \in BOOLEAN /\ raced \in BOOLEAN
          /\ settled \in BOOLEAN
      BY <1>1 DEF Init
    <2>5. QED
      BY <1>1, <2>1, <2>2, <2>3, <2>4 DEF Init, TypeOK, Labels, SetLabels,
         Returns, Modes
  <1>2. QED
    BY <1>1, TypeStep, PTL DEF Spec

(***************************************************************************)
(* The strengthening holds at power-on and is kept by every step.          *)
(***************************************************************************)
LEMMA ModeInvInit == Init => ModeInv
  BY DEF Init, ModeInv, CallsOK, ResetsOK, HalvesOK, DisarmedOK, PassOK, ReadyOK,
     PeriodOK, OutputsSettle, DiagUntripped, Exposed, SetLabels, Storing

LEMMA ModeInvStep == TypeOK /\ ModeInv /\ [Next]_vars => ModeInv'
  <1> SUFFICES ASSUME TypeOK, ModeInv, [Next]_vars PROVE ModeInv'
    OBVIOUS
  <1> USE DEF ModeInv, CallsOK, ResetsOK, HalvesOK, DisarmedOK, PassOK, ReadyOK,
     PeriodOK, OutputsSettle, DiagUntripped, Exposed, SetLabels, Storing
  <1>1. CASE Host
    BY <1>1 DEF Host, Step, mode, call, trip, TypeOK, Modes, Returns
  <1>2. CASE Protect
    BY <1>2 DEF Protect, Step, mode, call, trip, history, TypeOK, Modes, Returns
  <1>3. CASE Limit
    BY <1>3 DEF Limit, Step, mode, trip, history, TypeOK, Modes, Returns
  <1>4. CASE LimitExceeded
    BY <1>4 DEF LimitExceeded, Step, CallSet, mode, trip, history, TypeOK, Modes,
       Returns
  <1>5. CASE LimitRespected
    BY <1>5 DEF LimitRespected, Step, NextLimit, mode, trip, history, TypeOK,
       Modes, Returns
  <1>6. ASSUME NEW grown \in BOOLEAN, Operate(grown) PROVE ModeInv'
    BY <1>6 DEF Operate, Step, Older, mode, trip, history, TypeOK, Modes, Returns
  <1>7. CASE HeedDiag
    BY <1>7 DEF HeedDiag, Step, CallSet, mode, trip, history, TypeOK, Modes, Returns
  <1>8. CASE OwnNormal
    BY <1>8 DEF OwnNormal, Step, CallSet, Successor, mode, trip, history, TypeOK,
       Modes, Returns, Leaves
  <1>9. CASE OwnFault
    BY <1>9 DEF OwnFault, Step, CallSet, mode, trip, history, TypeOK, Modes, Returns
  <1>10. CASE OwnDiag
    BY <1>10 DEF OwnDiag, Step, mode, call, trip, history, TypeOK, Modes, Returns
  <1>11. CASE DiagReset
    BY <1>11 DEF DiagReset, Step, CallSet, mode, trip, history, TypeOK, Modes, Returns
  <1>12. CASE StorePtr
    BY <1>12 DEF StorePtr, Step, call, trip, history, TypeOK, Modes, Returns
  <1>13. CASE CompareName
    BY <1>13 DEF CompareName, Step, Return, NextLimit, mode, trip, history, TypeOK,
       Modes, Returns
  <1>13a. CASE LoadName
    BY <1>13a DEF LoadName, Step, Reloaded, call, trip, history, TypeOK, Modes, Returns
  <1>13b. CASE StoreName
    BY <1>13b DEF StoreName, Step, call, trip, TypeOK, Modes, Returns
  <1>13c. CASE LoadReset
    BY <1>13c DEF LoadReset, Step, Reloaded, call, trip, TypeOK, Modes, Returns
  <1>14. CASE ResetInit
    BY <1>14 DEF ResetInit, Called, Step, call, trip, history, TypeOK, Modes,
       Returns
  <1>15. CASE ResetCharge
    BY <1>15 DEF ResetCharge, Called, Step, Return, NextLimit, trip, history,
       TypeOK, Modes, Returns
  <1>16. CASE ResetReady
    BY <1>16 DEF ResetReady, Called, Step, trip, history, TypeOK, Modes, Returns,
       Reloaded
  <1>17. CASE ResetRun
    BY <1>17 DEF ResetRun, Called, Step, call, trip, history, TypeOK, Modes,
       Returns
  <1>18. CASE ResetFault
    <2>1. pc = "reset" /\ seen = "FAULT" /\ ptr = "FAULT"
      BY <1>18 DEF ResetFault, Called, Step
    <2>2. on' = {} /\ UNCHANGED <<ptr, name, self, tgt, ret, cmds, acs, armed, left>>
      BY <1>18 DEF ResetFault, trip
    <2>3. UNCHANGED <<tripped, settled>>
      BY <1>18 DEF ResetFault, history
    <2>4. pc' = IF ret = "limit" THEN IF chk < 3 THEN "limit" ELSE "operate" ELSE ret
      BY <1>18 DEF ResetFault, Return, NextLimit
    <2>5. CallsOK' /\ ResetsOK' /\ HalvesOK' /\ DiagUntripped' /\ PeriodOK'
      BY <2>1, <2>2, <2>3, <2>4 DEF TypeOK, Modes, Returns
    <2>6. DisarmedOK' /\ OutputsSettle'
      BY <2>1, <2>2, <2>3, <2>4 DEF TypeOK, Modes, Returns
    <2>7. PassOK'
      BY <2>1, <2>2, <2>3, <2>4 DEF TypeOK, Modes, Returns
    <2>8. ReadyOK'
      BY <2>1, <2>2, <2>3, <2>4 DEF TypeOK, Modes, Returns
    <2>9. QED
      BY <2>5, <2>6, <2>7, <2>8
  <1>19. CASE ResetDiag
    BY <1>19 DEF ResetDiag, Called, Step, call, trip, history, TypeOK, Modes,
       Returns
  <1>20. CASE ClearErrors
    BY <1>20 DEF ClearErrors, Step, mode, call, trip, history, TypeOK, Modes, Returns
  <1>21. CASE ResetLatches
    BY <1>21 DEF ResetLatches, Step, mode, call, history, TypeOK, Modes, Returns
  <1>22. CASE ClearPending
    BY <1>22 DEF ClearPending, Step, mode, history, TypeOK, Modes, Returns
  <1>23. CASE Arm
    BY <1>23 DEF Arm, Step, Return, NextLimit, mode, history, TypeOK, Modes, Returns
  <1>24. CASE Disarm
    BY <1>24 DEF Disarm, Step, Return, NextLimit, mode, history, TypeOK, Modes,
       Returns
  <1>25. CASE InitRegs
    BY <1>25 DEF InitRegs, Step, mode, call, trip, TypeOK, Modes, Returns
  <1>25a. CASE ResetFilter
    BY <1>25a DEF ResetFilter, Step, Return, NextLimit, mode, trip, TypeOK, Modes, Returns
  <1>26. CASE Control
    BY <1>26 DEF Control, mode, call, trip, history, TypeOK, Modes, Returns, Drives
  <1>27. ASSUME NEW u \in Units, Enable(u) PROVE ModeInv'
    BY <1>27 DEF Enable, mode, call, trip, history, TypeOK, Modes, Returns
  <1>28. ASSUME NEW u \in Units, Shutdown(u) PROVE ModeInv'
    BY <1>28 DEF Shutdown, call, TypeOK, Modes, Returns
  <1>29. ASSUME NEW u \in Units, Trip(u) PROVE ModeInv'
    BY <1>29 DEF Trip, mode, call, history, TypeOK, Modes, Returns
  <1>30. CASE Adc
    BY <1>30 DEF Adc, mode, call, trip, history, TypeOK, Modes, Returns
  <1>31. CASE UNCHANGED vars
    BY <1>31 DEF vars, mode, call, trip, history
  <1>32. QED
    BY <1>1, <1>2, <1>3, <1>4, <1>5, <1>6, <1>7, <1>8, <1>9, <1>10, <1>11, <1>12,
       <1>13, <1>13a, <1>13b, <1>13c, <1>14, <1>15, <1>16, <1>17, <1>18, <1>19, <1>20,
       <1>21, <1>22, <1>23, <1>24, <1>25, <1>25a, <1>26, <1>27, <1>28, <1>29, <1>30, <1>31
       DEF Next, Main, Pass, StateSet, Reset, ResetEnd, Interrupt, World

(***************************************************************************)
(* state_set, the reset() functions and shutdown keep the account of       *)
(* ModeInv: what the two halves of the state, the trip IRQs and the gates  *)
(* may be at each point of a pass (CStateMachine::state_set).              *)
(***************************************************************************)
THEOREM ModeInvCorrect == Spec => []ModeInv
  BY ModeInvInit, ModeInvStep, TypeCorrect, PTL DEF Spec

(***************************************************************************)
(* acs and shutdown: outputs settle within a control period (see           *)
(* OutputsSettle in Converter), whatever the trips preempt.                *)
(***************************************************************************)
THEOREM OutputsSettleCorrect == Spec => []OutputsSettle
  <1>1. ModeInv => OutputsSettle
    BY DEF ModeInv
  <1>2. QED
    BY <1>1, ModeInvCorrect, PTL

(***************************************************************************)
(* CDiag::operate is never preempted by a trip handler.                    *)
(***************************************************************************)
THEOREM DiagUntrippedCorrect == Spec => []DiagUntripped
  <1>1. ModeInv => DiagUntripped
    BY DEF ModeInv
  <1>2. QED
    BY <1>1, ModeInvCorrect, PTL

(***************************************************************************)
(* A step that leaves FAULT: only state_set does, and the invariant says   *)
(* with which argument and from which operate() it was called.             *)
(***************************************************************************)
LEMMA FaultHeldStep ==
  TypeOK /\ ModeInv /\ [Next]_vars =>
    [name = "FAULT" /\ name' # "FAULT" => tgt = "INIT" \/ cmds.diag \/ tripped]_vars
  <1> SUFFICES ASSUME TypeOK, ModeInv, [Next]_vars, name = "FAULT", name' # "FAULT"
               PROVE  tgt = "INIT" \/ cmds.diag \/ tripped
    OBVIOUS
  <1>1. CASE StoreName
    <2>1. pc = "name" /\ tgt # "FAULT" /\ ret \in Returns
      BY <1>1 DEF StoreName, Step, TypeOK, ModeInv, HalvesOK
    <2>2. CASE ret = "limit"
      BY <2>1, <2>2 DEF ModeInv, CallsOK, SetLabels, Storing
    <2>3. CASE ret = "own"
      BY <2>1, <2>3 DEF ModeInv, CallsOK, SetLabels, Storing
    <2>4. CASE ret = "host"
      BY <2>1, <2>4 DEF ModeInv, CallsOK, PassOK, Exposed, SetLabels, Storing
    <2>5. QED
      BY <2>1, <2>2, <2>3, <2>4 DEF Returns
  <1>2. CASE ~StoreName
    <2>1. name' \in {name, "FAULT"}
      BY <1>2 DEF Next, Main, Pass, StateSet, Reset, ResetEnd, Interrupt, World, vars,
         mode, Host, Protect, Limit, LimitExceeded, LimitRespected, Operate,
         HeedDiag, OwnNormal, OwnFault, OwnDiag, DiagReset, StorePtr, CompareName,
         LoadName, LoadReset, ResetInit, ResetCharge, ResetReady, ResetRun,
         ResetFault, ResetDiag, ClearErrors, ResetLatches, ClearPending, Arm, Disarm,
         InitRegs, ResetFilter, Control, Enable, Trip, Adc, Shutdown
    <2>2. QED
      BY <2>1
  <1>3. QED
    BY <1>1, <1>2

(***************************************************************************)
(* A fault is held until rst or diag, unless the trip that raised it       *)
(* preempted the operate() that then left it (CStateMachine::state_set).   *)
(***************************************************************************)
THEOREM FaultHeldCorrect == Spec => FaultHeld
  BY FaultHeldStep, ModeInvCorrect, TypeCorrect, PTL DEF Spec, FaultHeld

(***************************************************************************)
(* A step that enters RUN comes from CReady::operate, with the invariant's *)
(* account of the trip IRQs in a pass begun in READY.                      *)
(***************************************************************************)
LEMMA RunArmedStep ==
  TypeOK /\ ModeInv /\ [Next]_vars =>
    [name # "RUN" /\ name' = "RUN" =>
       /\ cmds.start
       /\ armed = Units \/ cmds.diag \/ tripped]_vars
  <1> SUFFICES ASSUME TypeOK, ModeInv, [Next]_vars, name # "RUN", name' = "RUN"
               PROVE  cmds.start /\ (armed = Units \/ cmds.diag \/ tripped)
    OBVIOUS
  <1>1. CASE StoreName
    <2>1. pc = "name" /\ tgt = "RUN" /\ ret \in Returns
      BY <1>1 DEF StoreName, Step, TypeOK, ModeInv, HalvesOK
    <2>2. ret = "host"
      BY <2>1 DEF ModeInv, CallsOK, SetLabels, Storing, Returns
    <2>3. self = "READY" /\ cmds.start
      BY <2>1, <2>2 DEF ModeInv, CallsOK, SetLabels, Storing
    <2>4. QED
      BY <2>1, <2>2, <2>3 DEF ModeInv, ReadyOK, Exposed, SetLabels, Storing
  <1>2. CASE ~StoreName
    <2>1. name' \in {name, "FAULT"}
      BY <1>2 DEF Next, Main, Pass, StateSet, Reset, ResetEnd, Interrupt, World, vars,
         mode, Host, Protect, Limit, LimitExceeded, LimitRespected, Operate,
         HeedDiag, OwnNormal, OwnFault, OwnDiag, DiagReset, StorePtr, CompareName,
         LoadName, LoadReset, ResetInit, ResetCharge, ResetReady, ResetRun,
         ResetFault, ResetDiag, ClearErrors, ResetLatches, ClearPending, Arm, Disarm,
         InitRegs, ResetFilter, Control, Enable, Trip, Adc, Shutdown
    <2>2. QED
      BY <2>1
  <1>3. QED
    BY <1>1, <1>2

(***************************************************************************)
(* RUN is entered on start, armed, unless diag or a trip intervened.       *)
(***************************************************************************)
THEOREM RunArmedCorrect == Spec => RunArmed
  BY RunArmedStep, ModeInvCorrect, TypeCorrect, PTL DEF Spec, RunArmed

(***************************************************************************)
(* CErrors::set leaves an error on record, whatever there was.             *)
(***************************************************************************)
LEMMA WithErrorSpeaks ==
  ASSUME NEW log \in Seq(Errors), NEW e \in Errors
  PROVE  WithError(log, e) # <<>>
  BY ConstantsOK DEF WithError, ConstantsOK

(***************************************************************************)
(* The account of errors and of the halves of the state holds at power-on  *)
(* and is kept by every step.                                              *)
(***************************************************************************)
LEMMA CauseInvInit == Init => CauseInv
  BY DEF Init, CauseInv, MismatchOK, CleanOK, CauseOK, ErrorOK, Exposed, SetLabels, Storing

LEMMA CauseInvStep == TypeOK /\ ModeInv /\ CauseInv /\ [Next]_vars => CauseInv'
  <1> SUFFICES ASSUME TypeOK, ModeInv, CauseInv, [Next]_vars PROVE CauseInv'
    OBVIOUS
  <1> USE DEF CauseInv, MismatchOK, CleanOK, CauseOK, ErrorOK, CallsOK,
     ResetsOK, HalvesOK, PassOK, Exposed, SetLabels, Storing
  <1>0. CallsOK /\ ResetsOK /\ HalvesOK /\ PassOK
    BY DEF ModeInv
  <1>t. /\ ptr \in Modes /\ name \in Modes /\ self \in Modes /\ tgt \in Modes
        /\ ret \in Returns
    BY DEF TypeOK
  <1>1. CASE Host
    BY <1>1, <1>0, <1>t DEF Host, Step, mode, call, trip, Modes, Returns
  <1>2. CASE Protect
    BY <1>2, <1>0, <1>t DEF Protect, Step, mode, call, trip, history, Modes, Returns
  <1>3. CASE Limit
    BY <1>3, <1>0, <1>t DEF Limit, Step, mode, trip, history, Modes, Returns
  <1>4. CASE LimitExceeded
    <2>1. errs' # <<>>
      BY <1>4, WithErrorSpeaks, LimitsAreErrors DEF LimitExceeded, TypeOK
    <2>2. QED
      BY <1>4, <1>0, <1>t, <2>1
         DEF LimitExceeded, Step, CallSet, mode, trip, history, Modes, Returns
  <1>5. CASE LimitRespected
    BY <1>5, <1>0, <1>t
       DEF LimitRespected, Step, NextLimit, mode, trip, history, Modes, Returns
  <1>6. ASSUME NEW grown \in BOOLEAN, Operate(grown) PROVE CauseInv'
    BY <1>6, <1>0, <1>t DEF Operate, Step, mode, trip, history, Modes, Returns
  <1>7. CASE HeedDiag
    BY <1>7, <1>0, <1>t DEF HeedDiag, Step, CallSet, mode, trip, history, Modes, Returns
  <1>8. CASE OwnNormal
    BY <1>8, <1>0, <1>t
       DEF OwnNormal, Step, CallSet, Successor, mode, trip, history, Leaves, Modes, Returns
  <1>9. CASE OwnFault
    BY <1>9, <1>0, <1>t DEF OwnFault, Step, CallSet, mode, trip, history, Modes, Returns
  <1>10. CASE OwnDiag
    BY <1>10, <1>0, <1>t DEF OwnDiag, Step, mode, call, trip, history, Modes, Returns
  <1>11. CASE DiagReset
    BY <1>11, <1>0, <1>t
       DEF DiagReset, Step, CallSet, mode, trip, history, Modes, Returns
  <1>12. CASE StorePtr
    BY <1>12, <1>0, <1>t DEF StorePtr, Step, call, trip, history, Modes, Returns
  <1>13. CASE CompareName
    BY <1>13, <1>0, <1>t
       DEF CompareName, Step, Return, NextLimit, mode, trip, history, Modes, Returns
  <1>13a. CASE LoadName
    BY <1>13a, <1>0, <1>t DEF LoadName, Step, Reloaded, call, trip, history, Modes, Returns
  <1>13b. CASE StoreName
    <2>1. pc = "name" /\ pc' = "call" /\ name' = seen
      BY <1>13b DEF StoreName, Step
    <2>2. UNCHANGED <<ptr, self, tgt, ret, left, armed, errs, tripped, raced>>
      BY <1>13b DEF StoreName, call, trip
    <2>3. seen = tgt \/ (seen = "FAULT" /\ ptr = "FAULT")
      BY <1>0, <2>1
    <2>4. MismatchOK' /\ CauseOK' /\ ErrorOK'
      BY <1>0, <1>t, <2>1, <2>2, <2>3 DEF Modes, Returns
    <2>5. CleanOK'
      BY <1>0, <1>t, <2>1, <2>2, <2>3 DEF Modes, Returns
    <2>6. QED
      BY <2>4, <2>5
  <1>13c. CASE LoadReset
    BY <1>13c, <1>0, <1>t DEF LoadReset, Step, Reloaded, call, trip, Modes, Returns
  <1>14. CASE ResetInit
    BY <1>14, <1>0, <1>t
       DEF ResetInit, Called, Step, call, trip, history, Modes, Returns
  <1>15. CASE ResetCharge
    BY <1>15, <1>0, <1>t
       DEF ResetCharge, Called, Step, Return, NextLimit, trip, history, Modes, Returns
  <1>16. CASE ResetReady
    BY <1>16, <1>0, <1>t
       DEF ResetReady, Called, Step, trip, history, Modes, Returns
  <1>17. CASE ResetRun
    BY <1>17, <1>0, <1>t
       DEF ResetRun, Called, Step, call, trip, history, Modes, Returns
  <1>18. CASE ResetFault
    BY <1>18, <1>0, <1>t
       DEF ResetFault, Called, Step, Return, NextLimit, trip, history, Modes, Returns
  <1>19. CASE ResetDiag
    BY <1>19, <1>0, <1>t
       DEF ResetDiag, Called, Step, call, trip, history, Modes, Returns
  <1>20. CASE ClearErrors
    BY <1>20, <1>0, <1>t
       DEF ClearErrors, Step, mode, call, trip, history, Modes, Returns
  <1>21. CASE ResetLatches
    BY <1>21, <1>0, <1>t DEF ResetLatches, Step, mode, call, history, Modes, Returns
  <1>22. CASE ClearPending
    <2>1. Units = armed' \union left'
      BY <1>22 DEF ClearPending, TypeOK
    <2>2. QED
      BY <1>22, <1>0, <1>t, <2>1 DEF ClearPending, Step, mode, history, Modes, Returns
  <1>23. CASE Arm
    <2>1. armed' \union left' = armed \union left
      BY <1>23 DEF Arm
    <2>2. armed = Units => armed' = Units
      BY <1>23 DEF Arm, TypeOK
    <2>3. left = {} /\ Units = armed \union left => armed = Units
      OBVIOUS
    <2>4. UNCHANGED <<ptr, name, self, tgt, ret, errs, tripped, raced>>
      BY <1>23 DEF Arm, mode, history
    <2>5. pc = "arm" /\ (pc' = "arm" \/ (left = {} /\ armed' = armed /\ Return))
      BY <1>23 DEF Arm, Step
    <2>6. MismatchOK' /\ CauseOK' /\ ErrorOK'
      BY <1>0, <1>t, <2>4, <2>5 DEF Return, NextLimit, Returns
    <2>7. CleanOK'
      BY <1>0, <1>t, <2>1, <2>2, <2>3, <2>4, <2>5
    <2>8. QED
      BY <2>6, <2>7
  <1>24. CASE Disarm
    BY <1>24, <1>0, <1>t
       DEF Disarm, Step, Return, NextLimit, mode, history, Modes, Returns
  <1>25. CASE InitRegs
    BY <1>25, <1>0, <1>t DEF InitRegs, Step, mode, call, trip, Modes, Returns
  <1>25a. CASE ResetFilter
    BY <1>25a, <1>0, <1>t
       DEF ResetFilter, Step, Return, NextLimit, mode, trip, Modes, Returns
  <1>26. CASE Control
    BY <1>26, <1>0, <1>t DEF Control, mode, call, trip, history, Modes, Returns
  <1>27. ASSUME NEW u \in Units, Enable(u) PROVE CauseInv'
    BY <1>27, <1>0, <1>t DEF Enable, mode, call, trip, history, Modes, Returns
  <1>28. ASSUME NEW u \in Units, Shutdown(u) PROVE CauseInv'
    <2>1. errs' # <<>>
      BY <1>28, WithErrorSpeaks DEF Shutdown, TypeOK, Errors
    <2>2. QED
      BY <1>28, <1>0, <1>t, <2>1 DEF Shutdown, call, Modes, Returns
  <1>29. ASSUME NEW u \in Units, Trip(u) PROVE CauseInv'
    BY <1>29, <1>0, <1>t DEF Trip, mode, call, history, Modes, Returns
  <1>30. CASE Adc
    BY <1>30, <1>0, <1>t DEF Adc, mode, call, trip, history, Modes, Returns
  <1>31. CASE UNCHANGED vars
    BY <1>31, <1>0, <1>t DEF vars, mode, call, trip, history, Modes, Returns
  <1>32. QED
    BY <1>1, <1>2, <1>3, <1>4, <1>5, <1>6, <1>7, <1>8, <1>9, <1>10, <1>11, <1>12,
       <1>13, <1>13a, <1>13b, <1>13c, <1>14, <1>15, <1>16, <1>17, <1>18, <1>19, <1>20,
       <1>21, <1>22, <1>23, <1>24, <1>25, <1>25a, <1>26, <1>27, <1>28, <1>29, <1>30, <1>31
       DEF Next, Main, Pass, StateSet, Reset, ResetEnd, Interrupt, World

LEMMA CauseInvCorrect == Spec => []CauseInv
  BY CauseInvInit, CauseInvStep, ModeInvCorrect, TypeCorrect, PTL DEF Spec

(***************************************************************************)
(* FAULT has a cause on record, and an error on record leads to FAULT or   *)
(* DIAG, unless a trip preempted operate() since CInit::reset last began   *)
(* in INIT (CErrors::set, CStateMachine::state_set, CInit::reset).         *)
(***************************************************************************)
THEOREM FaultHasCauseCorrect == Spec => []FaultHasCause
  <1>1. CauseInv => FaultHasCause
    BY DEF CauseInv, CauseOK, ErrorOK, FaultHasCause, Storing
  <1>2. QED
    BY <1>1, CauseInvCorrect, PTL

(***************************************************************************)
(* A pass that begins in INIT or READY begins fit to run: no errors in     *)
(* INIT, every trip interrupt enabled (CInit::reset, CReady::reset), with  *)
(* the same exception.                                                     *)
(***************************************************************************)
THEOREM ReadyIsFitCorrect == Spec => []ReadyIsFit
  <1>1. TypeOK /\ ModeInv /\ CauseInv => ReadyIsFit
    BY DEF CauseInv, MismatchOK, CleanOK, ReadyIsFit, ModeInv, HalvesOK, ReadyOK,
       Storing, TypeOK, Modes
  <1>2. QED
    BY <1>1, CauseInvCorrect, ModeInvCorrect, TypeCorrect, PTL

(***************************************************************************)
(* Pointer and name agree between passes, with either compiler, with the   *)
(* same exception: a trip that falls between the two stores of any other   *)
(* state_set (non_critical_protect's) does not part them.                  *)
(***************************************************************************)
THEOREM HalvesAgreeCorrect == Spec => []HalvesAgree
  <1>1. ModeInv /\ CauseInv => HalvesAgree
    BY DEF ModeInv, HalvesOK, CauseInv, MismatchOK, HalvesAgree, Storing
  <1>2. QED
    BY <1>1, CauseInvCorrect, ModeInvCorrect, PTL

(***************************************************************************)
(* m_isRegsInit is stale only until CRun::reset lowers it, the filter only *)
(* until its end, and no step of a trip opens another window.              *)
(***************************************************************************)
LEMMA RunsFreshStep ==
  TypeOK /\ ModeInv /\ RunsFresh /\ [Next]_vars => RunsFresh'
  <1> SUFFICES ASSUME TypeOK, ModeInv, RunsFresh, [Next]_vars PROVE RunsFresh'
    OBVIOUS
  <1>1. CASE StoreName
    BY <1>1 DEF StoreName, Step, RunsFresh
  <1>2. CASE LoadReset
    BY <1>2 DEF LoadReset, Step, RunsFresh, Drives
  <1>3. CASE Reset
    <2>1. CASE ResetRun
      BY <2>1 DEF ResetRun, RunsFresh, Drives
    <2>2. CASE ~ResetRun
      <3>1. pc = "reset" /\ seen # "RUN" /\ ptr' = ptr
        BY <1>3, <2>2 DEF Reset, ResetInit, ResetCharge, ResetReady, ResetFault,
           ResetDiag, Called, Step
      <3>2. ptr # "RUN"
        BY <3>1 DEF ModeInv, HalvesOK
      <3>3. QED
        BY <3>1, <3>2 DEF RunsFresh
    <2>3. QED
      BY <2>1, <2>2
  <1>4. CASE InitRegs
    BY <1>4 DEF InitRegs, RunsFresh
  <1>5. CASE ResetFilter
    <2>1. "regs" \in fresh \/ ~(Drives /\ ptr = "RUN")
      BY <1>5 DEF ResetFilter, Step, RunsFresh
    <2>2. QED
      BY <1>5, <2>1 DEF ResetFilter, RunsFresh, Drives, mode
  <1>6. ASSUME NEW u \in Units, Shutdown(u) PROVE RunsFresh'
    BY <1>6 DEF Shutdown, RunsFresh
  <1>7. CASE StorePtr
    <2>1. pc = "store" /\ ptr' = tgt /\ UNCHANGED <<name, regs, fresh>>
      BY <1>7 DEF StorePtr, Step, history
    <2>2. tgt = "RUN" => name # "RUN"
      <3>1. tgt = "RUN" => ret = "host" /\ self = "READY"
        BY <2>1 DEF ModeInv, CallsOK, SetLabels, TypeOK, Returns
      <3>2. QED
        BY <2>1, <3>1 DEF ModeInv, ReadyOK, Exposed, SetLabels
    <2>3. QED
      BY <2>1, <2>2 DEF RunsFresh, Drives
  <1>8. CASE \/ Host \/ Protect \/ Limit \/ LimitExceeded \/ LimitRespected
            \/ \E grown \in BOOLEAN : Operate(grown)
            \/ HeedDiag \/ OwnNormal \/ OwnFault \/ OwnDiag \/ DiagReset
            \/ CompareName \/ LoadName
            \/ ClearErrors \/ ResetLatches \/ ClearPending \/ Arm \/ Disarm
    <2>1. pc \notin {"call", "reset", "lpf"} /\ UNCHANGED <<ptr, name, regs, fresh>>
      BY <1>8 DEF Host, Protect, Limit, LimitExceeded, LimitRespected, Operate,
         HeedDiag, OwnNormal, OwnFault, OwnDiag, DiagReset, CompareName, LoadName,
         ClearErrors, ResetLatches, ClearPending, Arm, Disarm, Step, mode, history
    <2>2. QED
      BY <2>1 DEF RunsFresh, Drives
  <1>9. CASE Control \/ Adc \/ UNCHANGED vars \/ \E u \in Units : Enable(u) \/ Trip(u)
    <2>1. UNCHANGED <<ptr, name, regs, fresh, pc>>
      BY <1>9 DEF Control, Adc, Enable, Trip, vars, mode, history
    <2>2. QED
      BY <2>1 DEF RunsFresh, Drives
  <1>10. QED
    BY <1>1, <1>2, <1>3, <1>4, <1>5, <1>6, <1>7, <1>8, <1>9
       DEF Next, Main, Pass, StateSet, ResetEnd, Interrupt, World

(***************************************************************************)
(* The gates are driven with the regulators and the filter of this run,    *)
(* but for a control period between state_set's store of the name and      *)
(* CRun::reset's first line, or between its flag and its last line.        *)
(***************************************************************************)
THEOREM RunsFreshCorrect == Spec => []RunsFresh
  <1>1. Init => RunsFresh
    BY DEF Init, RunsFresh, Drives
  <1>2. QED
    BY <1>1, RunsFreshStep, ModeInvCorrect, TypeCorrect, PTL DEF Spec
=============================================================================
