------------------------------- MODULE ErrorLog -------------------------------
(***************************************************************************)
(* The error log (CErrors) at the grain of single memory accesses: the     *)
(* main loop sets and clears errors, and a trip interrupt may set one of   *)
(* its own between any two of its accesses. None of the variables is       *)
(* volatile, so a compiler may put the stores of a call in any order, and  *)
(* may load m_errors_cnt once or twice in set.                             *)
(* Converter has the same log with set and clr in one step; LogIsAtomic    *)
(* says when that is the same.                                             *)
(***************************************************************************)
EXTENDS Integers, Sequences

CONSTANTS
  LOG_MAX,    \* ERRORS_MAX
  Causes,     \* the errors the main loop sets
  FLT, NOERR  \* ERROR_FLT, NOERR

VARIABLES
  logBuf,     \* m_pErrorsArray
  logCnt,     \* m_errors_cnt
  logCur,     \* m_current_error
  logOp,      \* the call the main loop is in: none, clr or set, the latter when it has
              \* compared the error, found room, and (set) taken the slot to store it in
  logErr,     \* its argument
  logIdx,     \* the count it has read
  logDue,     \* the slots it has yet to store
  logWords,   \* ... and which of m_errors_cnt and m_current_error
  torn,       \* history: the calls a trip cut in two since the log was last cleared,
              \* between their stores or between the count they tested and the one they use
  told        \* history: an error was set since then

logVars == <<logBuf, logCnt, logCur, logOp, logErr, logIdx, logDue, logWords, torn, told>>

Errors   == Causes \union {FLT}
LogSlots == 0 .. LOG_MAX - 1
Indices  == 0 .. LOG_MAX       \* with the one behind the array

ASSUME ErrorLogOK == LOG_MAX \in Nat \ {0} /\ FLT \notin Causes /\ NOERR \notin Errors

LogTypeOK ==
  /\ logBuf \in [LogSlots -> Errors \union {NOERR}]
  /\ logCnt \in 0 .. LOG_MAX + 1 /\ logCur \in Errors \union {NOERR}
  /\ logOp \in {"none", "compared", "room", "set", "clr"}
  /\ logErr \in Errors /\ logIdx \in Indices
  /\ logDue \subseteq Indices /\ logWords \subseteq {"cnt", "cur"}
  /\ torn \subseteq {"set", "clr"} /\ told \in BOOLEAN

\* The constructor has cleared the log; no interrupt is enabled before.
LogInit ==
  /\ logBuf = [i \in LogSlots |-> NOERR] /\ logCnt = 0 /\ logCur = NOERR
  /\ logOp = "none" /\ logErr = FLT /\ logIdx = 0 /\ logDue = {} /\ logWords = {}
  /\ torn = {} /\ told = FALSE

-----------------------------------------------------------------------------

\* Mutant: a repeat of the newest error is stored again.
Compare0(e) ==
  /\ logOp = "none"
  /\ logOp' = "compared" /\ logErr' = e
  /\ UNCHANGED <<logBuf, logCnt, logCur, logIdx, logDue, logWords, torn, told>>

\* The main loop calls set(e). A repeat of the newest error is dropped ...
SetCompare(e) ==
  /\ logOp = "none" /\ e # logCur
  /\ logOp' = "compared" /\ logErr' = e
  /\ UNCHANGED <<logBuf, logCnt, logCur, logIdx, logDue, logWords, torn, told>>

\* ... and so is what a full log has no room for.
SetDropped ==
  /\ logOp = "compared" /\ logCnt >= LOG_MAX
  /\ logOp' = "none" /\ told' = TRUE
  /\ UNCHANGED <<logBuf, logCnt, logCur, logErr, logIdx, logDue, logWords, torn>>

\* Mutant: nobody looks whether there is room.
SetAnyway ==
  /\ logOp = "compared"
  /\ logOp' = "room" /\ logIdx' = logCnt
  /\ UNCHANGED <<logBuf, logCnt, logCur, logErr, logDue, logWords, torn, told>>

SetRoom ==
  /\ logOp = "compared" /\ logCnt < LOG_MAX
  /\ logOp' = "room" /\ logIdx' = logCnt
  /\ UNCHANGED <<logBuf, logCnt, logCur, logErr, logDue, logWords, torn, told>>

\* The rest is stored at m_errors_cnt++: the count tested, or another load of it.
\* A trip in between has its record overwritten by the first, and by the second,
\* when it took the last slot, the error is stored behind the array.
SetIndex(i) ==
  /\ logOp = "room" /\ i \in {logIdx, logCnt}
  /\ logOp' = "set" /\ logIdx' = i
  /\ logDue' = {i} /\ logWords' = {"cnt", "cur"}
  /\ torn' = torn \union (IF i = logCnt /\ i \in LogSlots THEN {} ELSE {"set"})
  /\ UNCHANGED <<logBuf, logCnt, logCur, logErr, told>>

\* CInit::reset calls clr().
ClrBegin ==
  /\ logOp = "none"
  /\ logOp' = "clr" /\ logDue' = LogSlots /\ logWords' = {"cnt", "cur"}
  /\ torn' = {} /\ told' = FALSE
  /\ UNCHANGED <<logBuf, logCnt, logCur, logErr, logIdx>>

\* The stores of the call under way. What lies behind the array is not modelled.
Clearing == logOp = "clr"

StoreSlot(i) ==
  /\ i \in logDue
  /\ logBuf' = IF i \in LogSlots
               THEN [logBuf EXCEPT ![i] = IF Clearing THEN NOERR ELSE logErr]
               ELSE logBuf
  /\ logDue' = logDue \ {i}
  /\ UNCHANGED <<logCnt, logCur, logOp, logErr, logIdx, logWords, torn, told>>

StoreCnt ==
  /\ "cnt" \in logWords
  /\ logCnt' = IF Clearing THEN 0 ELSE logIdx + 1
  /\ logWords' = logWords \ {"cnt"}
  /\ UNCHANGED <<logBuf, logCur, logOp, logErr, logIdx, logDue, torn, told>>

StoreCur ==
  /\ "cur" \in logWords
  /\ logCur' = IF Clearing THEN NOERR ELSE logErr
  /\ logWords' = logWords \ {"cur"}
  /\ UNCHANGED <<logBuf, logCnt, logOp, logErr, logIdx, logDue, torn, told>>

Return ==
  /\ logOp \in {"set", "clr"} /\ logDue = {} /\ logWords = {}
  /\ logOp' = "none" /\ told' = (told \/ ~Clearing)
  /\ UNCHANGED <<logBuf, logCnt, logCur, logErr, logIdx, logDue, logWords, torn>>

\* A trip: set(ERROR_FLT) in shutdown, which nothing preempts.
InCall == logOp \in {"set", "clr"}

\* Mutant: the count is left to whoever reads the log.
Uncounted ==
  /\ IF logCur # FLT /\ logCnt < LOG_MAX
     THEN /\ logBuf' = [logBuf EXCEPT ![logCnt] = FLT] /\ logCur' = FLT
          /\ torn' = torn \union (IF InCall THEN {logOp} ELSE {})
     ELSE UNCHANGED <<logBuf, logCur, torn>>
  /\ told' = (told \/ ~Clearing)
  /\ UNCHANGED <<logCnt, logOp, logErr, logIdx, logDue, logWords>>

TripSets ==
  /\ IF logCur # FLT /\ logCnt < LOG_MAX
     THEN /\ logBuf' = [logBuf EXCEPT ![logCnt] = FLT]
          /\ logCnt' = logCnt + 1 /\ logCur' = FLT
          /\ torn' = torn \union (IF InCall THEN {logOp} ELSE {})
     ELSE UNCHANGED <<logBuf, logCnt, logCur, torn>>
  /\ told' = (told \/ ~Clearing)
  /\ UNCHANGED <<logOp, logErr, logIdx, logDue, logWords>>

LogNext ==
  \/ \E e \in Causes : SetCompare(e)
  \/ SetDropped \/ SetRoom \/ ClrBegin
  \/ \E i \in Indices : SetIndex(i)
  \/ \E i \in logDue : StoreSlot(i)
  \/ StoreCnt \/ StoreCur \/ Return \/ TripSets

LogSpec == LogInit /\ [][LogNext]_logVars

-----------------------------------------------------------------------------
(* Properties.                                                             *)

\* The three variables agree between the calls of the main loop, unless a trip
\* tore one: the errors counted are there and no more than the array holds,
\* nothing is beyond them, the newest is the current one, and none repeats the
\* one before.
LogConsistent ==
  ~InCall /\ torn = {} =>
    /\ logCnt <= LOG_MAX
    /\ \A i \in LogSlots : logBuf[i] # NOERR <=> i < logCnt
    /\ logCur = IF logCnt = 0 THEN NOERR ELSE logBuf[logCnt - 1]
    /\ \A i \in LogSlots : 0 < i /\ i < logCnt => logBuf[i] # logBuf[i - 1]

\* Between calls the log is not empty after an error, even if a trip fell into
\* the call that set it; only one that fell into the clearing may have left it so.
LogSpeaks ==
  ~InCall /\ told /\ "clr" \notin torn => logCnt > 0 /\ logBuf[0] # NOERR

-----------------------------------------------------------------------------
(* The log in single steps that this one implements.                       *)

\* The first n errors in the buffer.
Prior(n) == [k \in 1 .. n |-> logBuf[k - 1]]

\* The call of set has taken effect: a trip that does nothing now came after it,
\* as the newest error is the call's or the last slot is taken.
Effective ==
  /\ logOp = "set"
  /\ \/ torn # {}
     \/ "cur" \notin logWords
     \/ "cnt" \notin logWords /\ logCnt = LOG_MAX

\* What the log stands for.
Shown ==
  IF torn # {} \/ Clearing THEN <<>>
  ELSE IF Effective THEN Append(Prior(logIdx), logErr)
  ELSE IF logOp = "set" THEN Prior(logIdx)
  ELSE Prior(logCnt)

ShownCall ==
  IF logOp = "none" THEN "none"
  ELSE IF Clearing THEN "clear"
  ELSE IF Effective THEN "done" ELSE "set"

Atomic == INSTANCE ErrorRecord
  WITH ERRORS_MAX <- LOG_MAX, log <- Shown, call <- ShownCall, err <- logErr, cut <- torn # {}

\* A trip that now finds its error the newest or the log full had nothing to record.
RightlyDropped ==
  ~Clearing /\ torn = {} /\ (logCur = FLT \/ logCnt >= LOG_MAX) =>
    Atomic!WithError(Shown, FLT) = Shown

\* However the stores of a call are ordered and wherever a trip falls, each call has
\* one moment at which all of it happens, and so has each trip outside a clear, until
\* a trip that has room in the log tears a call: it falls between the stores of one, or
\* between the test of the count and the stores, and the slot is not the one it left.
LogIsAtomic == Atomic!Spec /\ []RightlyDropped
=============================================================================
