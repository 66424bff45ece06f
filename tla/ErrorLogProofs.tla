---------------------------- MODULE ErrorLogProofs ----------------------------
(***************************************************************************)
(* What ErrorLog keeps, for every size of the log and set of errors.       *)
(***************************************************************************)
EXTENDS ErrorLog, TLAPS

\* The newest of the first n errors.
NewestOf(n) == IF n = 0 THEN NOERR ELSE logBuf[n - 1]

\* A call that is not storing has nothing to store, and one that sets stores its
\* error in one slot; a main-loop error found no repeat is still none when the
\* trip has set another one, and a log with room has at most been filled.
Stores ==
  /\ ~InCall => logDue = {} /\ logWords = {}
  /\ logOp = "set" => logDue \subseteq {logIdx}
  /\ logOp \in {"compared", "room", "set"} => logErr \in Causes
  /\ logOp \in {"compared", "room"} => logErr # logCur
  /\ logOp = "room" => logIdx \in LogSlots /\ logIdx <= logCnt /\ logCnt <= LOG_MAX

\* What clr() has stored so far, unless a trip fell between its stores.
PartlyCleared ==
  logOp = "clr" /\ "clr" \notin torn =>
    /\ \A i \in LogSlots \ logDue : logBuf[i] = NOERR
    /\ "cnt" \notin logWords => logCnt = 0
    /\ "cur" \notin logWords => logCur = NOERR

\* What set() has stored so far of its error, at the slot logIdx.
PartlySet ==
  logOp = "set" /\ torn = {} =>
    /\ logIdx \in LogSlots
    /\ \A i \in LogSlots \ {logIdx} : logBuf[i] # NOERR <=> i < logIdx
    /\ logBuf[logIdx] = IF logDue = {} THEN logErr ELSE NOERR
    /\ logCnt = IF "cnt" \in logWords THEN logIdx ELSE logIdx + 1
    /\ logCur = IF "cur" \in logWords THEN NewestOf(logIdx) ELSE logErr
    /\ \A i \in LogSlots : 0 < i /\ i < logIdx => logBuf[i] # logBuf[i - 1]
    /\ logErr # NewestOf(logIdx)

LogInv == LogTypeOK /\ Stores /\ LogConsistent /\ PartlyCleared /\ PartlySet

\* Nothing was stored since the log was cleared, or the first slot was.
Speaking ==
  "clr" \notin torn =>
    /\ ~InCall /\ told => logCnt > 0 /\ logBuf[0] # NOERR
    /\ ~InCall /\ ~told => logCnt = 0 /\ logCur = NOERR
    /\ logOp = "set" =>
         /\ 0 \notin logDue => logBuf[0] # NOERR
         /\ "cnt" \notin logWords => logCnt > 0
    /\ logOp = "clr" => ~told

-----------------------------------------------------------------------------

LEMMA ErrorFacts ==
  /\ LOG_MAX \in Nat /\ LOG_MAX > 0 /\ 0 \in LogSlots
  /\ FLT \in Errors /\ Causes \subseteq Errors /\ NOERR \notin Errors /\ FLT \notin Causes
  /\ \A n \in Nat : n < LOG_MAX => n \in LogSlots
  /\ \A i \in LogSlots : i \in Nat /\ i < LOG_MAX /\ i + 1 \in 0 .. LOG_MAX
  /\ LogSlots \subseteq Indices /\ Indices = 0 .. LOG_MAX
BY ErrorLogOK DEF Errors, LogSlots, Indices

LEMMA LogTypeInit == LogInit => LogTypeOK
<1> SUFFICES ASSUME LogInit PROVE LogTypeOK
  OBVIOUS
<1>1. logBuf \in [LogSlots -> Errors \union {NOERR}]
  BY ErrorFacts DEF LogInit
<1>2. logCnt \in 0 .. LOG_MAX + 1 /\ logCur \in Errors \union {NOERR} /\ logErr \in Errors
  BY ErrorFacts DEF LogInit
<1>3. logIdx \in Indices /\ logDue \subseteq Indices /\ logWords \subseteq {"cnt", "cur"}
  BY ErrorFacts DEF LogInit
<1> QED
  BY <1>1, <1>2, <1>3 DEF LogInit, LogTypeOK

\* The variables keep their types; the count passes the size of the log by one at most.
LEMMA LogTypeStep == LogTypeOK /\ Stores /\ [LogNext]_logVars => LogTypeOK'
<1> SUFFICES ASSUME LogTypeOK, Stores, [LogNext]_logVars PROVE LogTypeOK'
  OBVIOUS
<1> USE ErrorFacts DEF LogTypeOK
<1>1. CASE \E e \in Causes : SetCompare(e)  BY <1>1 DEF SetCompare
<1>2. CASE SetDropped  BY <1>2 DEF SetDropped
<1>3. CASE SetRoom
  <2>1. logIdx' \in Indices
    BY <1>3 DEF SetRoom
  <2> QED  BY <1>3, <2>1 DEF SetRoom
<1>11. CASE \E i \in Indices : SetIndex(i)
  <2> PICK i \in Indices : SetIndex(i)
    BY <1>11
  <2>1. logIdx' \in Indices /\ logDue' \subseteq Indices /\ logWords' \subseteq {"cnt", "cur"}
    BY DEF SetIndex
  <2>2. torn' \subseteq {"set", "clr"}
    BY DEF SetIndex
  <2> QED  BY <2>1, <2>2 DEF SetIndex
<1>4. CASE ClrBegin  BY <1>4 DEF ClrBegin
<1>5. CASE \E i \in logDue : StoreSlot(i)  BY <1>5 DEF StoreSlot
<1>6. CASE StoreCnt
  <2>1. logCnt' \in 0 .. LOG_MAX + 1
    BY <1>6 DEF StoreCnt
  <2> QED  BY <1>6, <2>1 DEF StoreCnt
<1>7. CASE StoreCur  BY <1>7 DEF StoreCur
<1>8. CASE Return
  <2>1. told' \in BOOLEAN
    BY <1>8 DEF Return
  <2> QED  BY <1>8, <2>1 DEF Return
<1>9. CASE TripSets
  <2>1. told' \in BOOLEAN
    BY <1>9 DEF TripSets
  <2>2. CASE logCur # FLT /\ logCnt < LOG_MAX
    <3>1. logBuf' \in [LogSlots -> Errors \union {NOERR}]
      BY <1>9, <2>2 DEF TripSets
    <3>2. logCnt' \in 0 .. LOG_MAX + 1 /\ logCur' \in Errors
      BY <1>9, <2>2 DEF TripSets
    <3>3. torn' \subseteq {"set", "clr"}
      BY <1>9, <2>2 DEF TripSets, InCall
    <3> QED  BY <1>9, <2>1, <3>1, <3>2, <3>3 DEF TripSets
  <2>3. CASE ~(logCur # FLT /\ logCnt < LOG_MAX)
    BY <1>9, <2>1, <2>3 DEF TripSets
  <2> QED  BY <2>2, <2>3
<1>10. CASE UNCHANGED logVars  BY <1>10 DEF logVars
<1> QED
  BY <1>1, <1>2, <1>3, <1>4, <1>5, <1>6, <1>7, <1>8, <1>9, <1>10, <1>11
     DEF LogNext

LEMMA StoresStep == LogTypeOK /\ Stores /\ [LogNext]_logVars => Stores'
<1> SUFFICES ASSUME LogTypeOK, Stores, [LogNext]_logVars PROVE Stores'
  OBVIOUS
<1> USE ErrorLogOK DEF LogTypeOK, LogSlots, Errors, Stores, InCall
<1>1. CASE \E e \in Causes : SetCompare(e)  BY <1>1 DEF SetCompare
<1>2. CASE SetDropped  BY <1>2 DEF SetDropped
<1>3. CASE SetRoom  BY <1>3 DEF SetRoom
<1>11. CASE \E i \in Indices : SetIndex(i)  BY <1>11 DEF SetIndex
<1>4. CASE ClrBegin  BY <1>4 DEF ClrBegin
<1>5. CASE \E i \in logDue : StoreSlot(i)  BY <1>5 DEF StoreSlot
<1>6. CASE StoreCnt  BY <1>6 DEF StoreCnt
<1>7. CASE StoreCur  BY <1>7 DEF StoreCur
<1>8. CASE Return  BY <1>8 DEF Return
<1>9. CASE TripSets  BY <1>9 DEF TripSets
<1>10. CASE UNCHANGED logVars  BY <1>10 DEF logVars
<1> QED
  BY <1>1, <1>2, <1>3, <1>4, <1>5, <1>6, <1>7, <1>8, <1>9, <1>10, <1>11
     DEF LogNext

\* Between the calls the log is consistent, and a call finds it so.
LEMMA ConsistentStep == LogInv /\ [LogNext]_logVars => LogConsistent'
<1> SUFFICES ASSUME LogInv, [LogNext]_logVars, ~InCall', torn' = {} PROVE LogConsistent'
  BY DEF LogConsistent
<1> USE ErrorFacts DEF LogInv, LogTypeOK, Stores, InCall
<1>1. CASE \E e \in Causes : SetCompare(e)  BY <1>1 DEF SetCompare, LogConsistent
<1>2. CASE SetDropped  BY <1>2 DEF SetDropped, LogConsistent
<1>3. CASE SetRoom  BY <1>3 DEF SetRoom, LogConsistent
<1>11. CASE \E i \in Indices : SetIndex(i)  BY <1>11 DEF SetIndex
<1>4. CASE ClrBegin  BY <1>4 DEF ClrBegin
<1>5. CASE \E i \in logDue : StoreSlot(i)  BY <1>5 DEF StoreSlot
<1>6. CASE StoreCnt  BY <1>6 DEF StoreCnt
<1>7. CASE StoreCur  BY <1>7 DEF StoreCur
<1>8. CASE Return
  <2> USE <1>8 DEF Return
  <2>1. CASE logOp = "clr"
    <3>1. (\A i \in LogSlots : logBuf[i] = NOERR) /\ logCnt = 0 /\ logCur = NOERR
      BY <2>1 DEF PartlyCleared
    <3> QED  BY <3>1 DEF LogConsistent
  <2>2. CASE logOp = "set"
    <3>1. /\ logIdx \in LogSlots
          /\ \A i \in LogSlots \ {logIdx} : logBuf[i] # NOERR <=> i < logIdx
          /\ logBuf[logIdx] = logErr /\ logCnt = logIdx + 1 /\ logCur = logErr
          /\ \A i \in LogSlots : 0 < i /\ i < logIdx => logBuf[i] # logBuf[i - 1]
          /\ logErr # NewestOf(logIdx)
      BY <2>2 DEF PartlySet
    <3>2. \A i \in LogSlots : logBuf[i] # NOERR <=> i < logCnt
      BY <3>1
    <3>3. \A i \in LogSlots : 0 < i /\ i < logCnt => logBuf[i] # logBuf[i - 1]
      BY <3>1 DEF NewestOf, LogSlots
    <3> QED  BY <3>1, <3>2, <3>3 DEF LogConsistent
  <2> QED  BY <2>1, <2>2
<1>9. CASE TripSets
  <2>1. ~InCall /\ torn = {} /\ LogConsistent
    BY <1>9 DEF TripSets
  <2>2. CASE logCur # FLT /\ logCnt < LOG_MAX
    <3>1. /\ logBuf' = [logBuf EXCEPT ![logCnt] = FLT] /\ logCnt' = logCnt + 1
          /\ logCur' = FLT /\ logCnt \in LogSlots
      BY <1>9, <2>2 DEF TripSets
    <3>2. /\ logBuf'[logCnt] = FLT /\ logCnt + 1 - 1 = logCnt
          /\ \A i \in LogSlots : i # logCnt => logBuf'[i] = logBuf[i]
      BY <3>1
    <3>3. \A i \in LogSlots : logBuf'[i] # NOERR <=> i < logCnt'
      BY <2>1, <3>1, <3>2 DEF LogConsistent
    <3>4. \A i \in LogSlots : 0 < i /\ i < logCnt' => logBuf'[i] # logBuf'[i - 1]
      <4> SUFFICES ASSUME NEW i \in LogSlots, 0 < i, i < logCnt'
                   PROVE  logBuf'[i] # logBuf'[i - 1]
        OBVIOUS
      <4>1. CASE i < logCnt
        BY <2>1, <3>2, <4>1 DEF LogConsistent, LogSlots
      <4>2. CASE i = logCnt
        BY <2>1, <2>2, <3>2, <4>2 DEF LogConsistent, LogSlots
      <4> QED  BY <3>1, <4>1, <4>2 DEF LogSlots
    <3> QED  BY <3>1, <3>2, <3>3, <3>4 DEF LogConsistent
  <2>3. CASE ~(logCur # FLT /\ logCnt < LOG_MAX)
    BY <1>9, <2>1, <2>3 DEF TripSets, LogConsistent
  <2> QED  BY <2>2, <2>3
<1>10. CASE UNCHANGED logVars  BY <1>10 DEF logVars, LogConsistent
<1> QED
  BY <1>1, <1>2, <1>3, <1>4, <1>5, <1>6, <1>7, <1>8, <1>9, <1>10, <1>11
     DEF LogNext

LEMMA ClearedStep == LogInv /\ [LogNext]_logVars => PartlyCleared'
<1> SUFFICES ASSUME LogInv, [LogNext]_logVars, logOp' = "clr", "clr" \notin torn'
             PROVE  PartlyCleared'
  BY DEF PartlyCleared
<1> USE ErrorFacts DEF LogInv, LogTypeOK, Stores, InCall, PartlyCleared
<1>1. CASE \E e \in Causes : SetCompare(e)  BY <1>1 DEF SetCompare
<1>2. CASE SetDropped  BY <1>2 DEF SetDropped
<1>3. CASE SetRoom  BY <1>3 DEF SetRoom
<1>11. CASE \E i \in Indices : SetIndex(i)  BY <1>11 DEF SetIndex
<1>4. CASE ClrBegin  BY <1>4 DEF ClrBegin
<1>5. CASE \E i \in logDue : StoreSlot(i)  BY <1>5 DEF StoreSlot, Clearing
<1>6. CASE StoreCnt  BY <1>6 DEF StoreCnt, Clearing
<1>7. CASE StoreCur  BY <1>7 DEF StoreCur, Clearing
<1>8. CASE Return  BY <1>8 DEF Return
<1>9. CASE TripSets
  <2>1. UNCHANGED <<logBuf, logCnt, logCur, torn>>
    BY <1>9 DEF TripSets
  <2> QED  BY <1>9, <2>1 DEF TripSets
<1>10. CASE UNCHANGED logVars  BY <1>10 DEF logVars
<1> QED
  BY <1>1, <1>2, <1>3, <1>4, <1>5, <1>6, <1>7, <1>8, <1>9, <1>10, <1>11
     DEF LogNext

LEMMA SetStep == LogInv /\ [LogNext]_logVars => PartlySet'
<1> SUFFICES ASSUME LogInv, [LogNext]_logVars, logOp' = "set", torn' = {}
             PROVE  PartlySet'
  BY DEF PartlySet
<1> USE ErrorFacts DEF LogInv, LogTypeOK, Stores, InCall
<1>1. CASE \E e \in Causes : SetCompare(e)  BY <1>1 DEF SetCompare
<1>2. CASE SetDropped  BY <1>2 DEF SetDropped
<1>3. CASE SetRoom  BY <1>3 DEF SetRoom
<1>11. CASE \E i \in Indices : SetIndex(i)
  <2>1. /\ logCnt \in LogSlots /\ LogConsistent /\ torn = {} /\ logOp = "room"
        /\ logIdx' = logCnt /\ logDue' = {logCnt} /\ logWords' = {"cnt", "cur"}
        /\ UNCHANGED <<logBuf, logCnt, logCur, logErr>>
    BY <1>11 DEF SetIndex
  <2>2. /\ \A i \in LogSlots \ {logCnt} : logBuf[i] # NOERR <=> i < logCnt
        /\ logBuf[logCnt] = NOERR
        /\ logCur = NewestOf(logCnt)
        /\ \A i \in LogSlots : 0 < i /\ i < logCnt => logBuf[i] # logBuf[i - 1]
    BY <2>1 DEF LogConsistent, NewestOf
  <2>3. logErr # logCur
    BY <2>1
  <2> QED  BY <2>1, <2>2, <2>3 DEF PartlySet, NewestOf
<1>4. CASE ClrBegin  BY <1>4 DEF ClrBegin
<1>5. CASE \E i \in logDue : StoreSlot(i)
  <2> PICK i \in logDue : StoreSlot(i)
    BY <1>5
  <2>0. /\ logOp = "set" /\ torn = {} /\ logDue \subseteq {logIdx} /\ i = logIdx
        /\ logIdx \in LogSlots
    BY DEF StoreSlot, PartlySet
  <2>1. /\ logDue = {logIdx} /\ logDue' = {} /\ logOp = "set" /\ torn = {}
        /\ logBuf' = [logBuf EXCEPT ![logIdx] = logErr]
        /\ UNCHANGED <<logCnt, logCur, logErr, logIdx, logWords>>
    BY <2>0 DEF StoreSlot, Clearing
  <2>2. logBuf'[logIdx] = logErr /\ \A j \in LogSlots : j # logIdx => logBuf'[j] = logBuf[j]
    BY <2>0, <2>1
  <2>3. NewestOf(logIdx)' = NewestOf(logIdx)
    BY <2>1, <2>2 DEF NewestOf, LogSlots
  <2>4. \A j \in LogSlots :
          0 < j /\ j < logIdx => logBuf'[j] = logBuf[j] /\ logBuf'[j - 1] = logBuf[j - 1]
    BY <2>2 DEF LogSlots
  <2> QED  BY <2>1, <2>2, <2>3, <2>4 DEF PartlySet
<1>6. CASE StoreCnt  BY <1>6 DEF StoreCnt, Clearing, PartlySet, NewestOf
<1>7. CASE StoreCur  BY <1>7 DEF StoreCur, Clearing, PartlySet, NewestOf
<1>8. CASE Return  BY <1>8 DEF Return
<1>9. CASE TripSets
  <2>1. UNCHANGED <<logBuf, logCnt, logCur, torn>>
    BY <1>9 DEF TripSets
  <2> QED  BY <1>9, <2>1 DEF TripSets, PartlySet, NewestOf
<1>10. CASE UNCHANGED logVars  BY <1>10 DEF logVars, PartlySet, NewestOf
<1> QED
  BY <1>1, <1>2, <1>3, <1>4, <1>5, <1>6, <1>7, <1>8, <1>9, <1>10, <1>11
     DEF LogNext

LEMMA LogInvInit == LogInit => LogInv
<1> SUFFICES ASSUME LogInit PROVE LogInv
  OBVIOUS
<1>1. LogTypeOK
  BY LogTypeInit
<1>2. LogConsistent
  BY ErrorFacts DEF LogInit, LogConsistent, LogSlots
<1> QED
  BY <1>1, <1>2 DEF LogInit, LogInv, Stores, InCall, PartlyCleared, PartlySet

\* What the buffer, the count and the newest error hold at each point of set and
\* clr (CErrors.cpp:14-29), for every order of their stores and every moment at
\* which a trip of the control interrupt may cut them.
THEOREM LogInvariant == LogSpec => []LogInv
<1>1. LogInv /\ [LogNext]_logVars => LogInv'
  BY LogTypeStep, StoresStep, ConsistentStep, ClearedStep, SetStep DEF LogInv
<1> QED
  BY <1>1, LogInvInit, PTL DEF LogSpec

\* The error log, its count and its newest error agree between the calls of
\* CErrors, unless a trip cut one in two.
THEOREM LogConsistentCorrect == LogSpec => []LogConsistent
<1>1. LogInv => LogConsistent
  BY DEF LogInv
<1> QED
  BY <1>1, LogInvariant, PTL

LEMMA SpeakingStep == LogInv /\ Speaking /\ [LogNext]_logVars => Speaking'
<1> SUFFICES ASSUME LogInv, Speaking, [LogNext]_logVars, "clr" \notin torn'
             PROVE  Speaking'
  BY DEF Speaking
<1> USE ErrorFacts DEF LogInv, LogTypeOK, Stores, InCall, Speaking
<1>1. CASE \E e \in Causes : SetCompare(e)  BY <1>1 DEF SetCompare
<1>2. CASE SetDropped  BY <1>2 DEF SetDropped
<1>3. CASE SetRoom  BY <1>3 DEF SetRoom
<1>11. CASE \E i \in Indices : SetIndex(i)
  <2> PICK i \in Indices : SetIndex(i)
    BY <1>11
  <2>1. /\ logOp = "room" /\ logOp' = "set" /\ logDue' = {i} /\ i <= logCnt
        /\ logWords' = {"cnt", "cur"} /\ UNCHANGED <<logBuf, logCnt, logCur, told>>
    BY DEF SetIndex
  <2>2. "clr" \notin torn
    BY DEF SetIndex
  <2>3. i # 0 => logBuf[0] # NOERR
    BY <2>1, <2>2
  <2> QED  BY <2>1, <2>3
<1>4. CASE ClrBegin  BY <1>4 DEF ClrBegin
<1>5. CASE \E i \in logDue : StoreSlot(i)  BY <1>5 DEF StoreSlot, Clearing
<1>6. CASE StoreCnt  BY <1>6 DEF StoreCnt, Clearing
<1>7. CASE StoreCur  BY <1>7 DEF StoreCur, Clearing
<1>8. CASE Return  BY <1>8 DEF Return, Clearing, PartlyCleared
<1>9. CASE TripSets
  <2>1. CASE logCur # FLT /\ logCnt < LOG_MAX
    <3>0. /\ logBuf' = [logBuf EXCEPT ![logCnt] = FLT] /\ logCnt' = logCnt + 1
          /\ logCnt \in LogSlots /\ UNCHANGED <<logOp, logDue, logWords>>
      BY <1>9, <2>1 DEF TripSets
    <3>1. logOp # "clr" /\ "clr" \notin torn
      BY <1>9, <2>1 DEF TripSets
    <3>3. told' = TRUE
      BY <1>9, <3>1 DEF TripSets, Clearing
    <3>2. logCnt' > 0 /\ (logBuf[0] # NOERR \/ logCnt = 0 => logBuf'[0] # NOERR)
      BY <3>0
    <3> QED  BY <3>0, <3>1, <3>2, <3>3
  <2>2. CASE ~(logCur # FLT /\ logCnt < LOG_MAX)
    BY <1>9, <2>2 DEF TripSets, Clearing
  <2> QED  BY <2>1, <2>2
<1>10. CASE UNCHANGED logVars  BY <1>10 DEF logVars
<1> QED
  BY <1>1, <1>2, <1>3, <1>4, <1>5, <1>6, <1>7, <1>8, <1>9, <1>10, <1>11
     DEF LogNext

\* After an error the log is not empty, though a trip may have cut the call that
\* set it, but for one that cut the clearing.
THEOREM LogSpeaksCorrect == LogSpec => []LogSpeaks
<1>1. LogInit => Speaking
  BY DEF LogInit, Speaking, InCall
<1>2. Speaking => LogSpeaks
  BY DEF Speaking, LogSpeaks
<1> QED
  BY <1>1, <1>2, LogInvariant, SpeakingStep, PTL DEF LogSpec

-----------------------------------------------------------------------------
(* The log in single steps.                                                *)

\* The first n errors are n.
LEMMA PriorIs ==
  ASSUME LogTypeOK, NEW n \in 0 .. LOG_MAX
  PROVE  /\ Prior(n) \in Seq(Errors \union {NOERR}) /\ Len(Prior(n)) = n
         /\ \A k \in 1 .. n : Prior(n)[k] = logBuf[k - 1]
<1>1. \A k \in 1 .. n : k - 1 \in LogSlots
  BY ErrorFacts DEF LogSlots
<1> QED
  BY <1>1, ErrorFacts DEF Prior, LogTypeOK

\* They are the same as long as their slots are.
LEMMA PriorSame ==
  ASSUME NEW n \in 0 .. LOG_MAX, LogTypeOK, LogTypeOK',
         \A i \in LogSlots : i < n => logBuf'[i] = logBuf[i]
  PROVE  Prior(n)' = Prior(n)
<1>1. \A k \in 1 .. n : k - 1 \in LogSlots /\ k - 1 < n
  BY ErrorFacts DEF LogSlots
<1> QED
  BY <1>1 DEF Prior

\* The error in the next slot is the next of them.
LEMMA PriorNext ==
  ASSUME LogTypeOK, NEW n \in LogSlots
  PROVE  Prior(n + 1) = Append(Prior(n), logBuf[n])
<1>1. n \in 0 .. LOG_MAX /\ n + 1 \in 0 .. LOG_MAX /\ n \in Nat
  BY ErrorFacts DEF LogSlots
<1>2. logBuf[n] \in Errors \union {NOERR}
  BY DEF LogTypeOK
<1> DEFINE s == Append(Prior(n), logBuf[n])
<1>3. s \in Seq(Errors \union {NOERR}) /\ Len(s) = n + 1
  BY <1>1, <1>2, PriorIs
<1>4. \A k \in 1 .. n + 1 : s[k] = logBuf[k - 1]
  BY <1>1, <1>2, PriorIs
<1> QED
  BY <1>1, <1>3, <1>4 DEF Prior

\* An error other than the newest of a log that has room goes behind the others.
LEMMA RecordsNew ==
  ASSUME LogTypeOK, NEW n \in LogSlots, NEW e, e # NewestOf(n)
  PROVE  Atomic!WithError(Prior(n), e) = Append(Prior(n), e)
<1>1. n \in 0 .. LOG_MAX /\ n # LOG_MAX /\ n \in Nat
  BY ErrorFacts DEF LogSlots
<1>2. Len(Prior(n)) = n /\ (Prior(n) # <<>> => n # 0 /\ Prior(n)[n] = NewestOf(n))
  BY <1>1, PriorIs DEF NewestOf
<1> QED
  BY <1>1, <1>2 DEF Atomic!WithError

\* A full log takes nothing, nor does one whose newest error it is.
LEMMA RecordsNothing ==
  ASSUME NEW s, NEW e, Len(s) = LOG_MAX \/ (s # <<>> /\ s[Len(s)] = e)
  PROVE  Atomic!WithError(s, e) = s
BY DEF Atomic!WithError
\* An empty log with no call under way is where both begin.
LEMMA AtomicInit == LogInit => Atomic!Init
<1> SUFFICES ASSUME LogInit PROVE Atomic!Init
  OBVIOUS
<1>1. Shown = <<>>
  <2>1. Prior(0) = <<>>
    BY DEF Prior
  <2> QED  BY <2>1 DEF LogInit, Shown, Clearing, Effective
<1>2. ShownCall = "none" /\ logErr = FLT /\ (torn # {}) = FALSE
  BY DEF LogInit, ShownCall
<1> QED
  BY <1>1, <1>2 DEF Atomic!Init

\* The first n errors with one more behind them.
LEMMA PriorPut ==
  ASSUME LogTypeOK, LogTypeOK', NEW n \in LogSlots, NEW e \in Errors,
         logBuf' = [logBuf EXCEPT ![n] = e]
  PROVE  [k \in 1 .. n + 1 |-> logBuf'[k - 1]] = Append(Prior(n), e)
<1>1. n \in 0 .. LOG_MAX /\ n \in Nat
  BY ErrorFacts DEF LogSlots
<1> DEFINE s == Append(Prior(n), e)
<1>2. s \in Seq(Errors \union {NOERR}) /\ Len(s) = n + 1
  BY <1>1, PriorIs
<1>3. ASSUME NEW k \in 1 .. n + 1 PROVE logBuf'[k - 1] = s[k]
  <2>1. k - 1 \in LogSlots
    BY <1>1, ErrorFacts DEF LogSlots
  <2>2. CASE k = n + 1
    BY <1>1, <2>2, PriorIs DEF LogTypeOK
  <2>3. CASE k # n + 1
    <3>1. k \in 1 .. n /\ k - 1 # n
      BY <1>1, <2>3
    <3>2. logBuf'[k - 1] = logBuf[k - 1]
      BY <2>1, <3>1 DEF LogTypeOK
    <3>3. s[k] = Prior(n)[k]
      BY <1>1, <3>1, PriorIs
    <3> QED  BY <1>1, <3>1, <3>2, <3>3, PriorIs
  <2> QED  BY <2>2, <2>3
<1>4. [k \in 1 .. n + 1 |-> logBuf'[k - 1]] = [k \in 1 .. n + 1 |-> s[k]]
  <2> HIDE DEF s
  <2> QED  BY <1>3
<1>5. s = [k \in 1 .. n + 1 |-> s[k]]
  <2> HIDE DEF s
  <2> QED  BY <1>1, <1>2
<1> QED
  BY <1>4, <1>5

\* Each step of the log in parts is one of the log in single steps or changes
\* nothing of it.
LEMMA AtomicStep ==
  LogInv /\ LogInv' /\ [LogNext]_logVars => [Atomic!Next]_(Atomic!vars)
<1> SUFFICES ASSUME LogInv, LogInv', [LogNext]_logVars
             PROVE  [Atomic!Next]_(Atomic!vars)
  OBVIOUS
<1> DEFINE Same == UNCHANGED <<Shown, ShownCall, logErr, torn>>
<1> HIDE DEF Same
<1>0. LogTypeOK /\ LogTypeOK' /\ Stores /\ Stores'
  BY DEF LogInv
<1>s. Same => UNCHANGED Atomic!vars
  BY DEF Same, Atomic!vars
<1>p. torn = {} /\ ~InCall => Shown = Prior(logCnt)
  BY DEF Shown, InCall, Clearing, Effective
<1>q. torn = {} /\ logOp = "set" =>
        /\ ~Effective => Shown = Prior(logIdx)
        /\ Effective => Shown = Append(Prior(logIdx), logErr)
  BY DEF Shown, Clearing
<1>r. torn # {} \/ Clearing => Shown = <<>>
  BY DEF Shown
<1>t. /\ torn' = {} /\ ~InCall' => Shown' = Prior(logCnt)'
      /\ torn' = {} /\ logOp' = "set" =>
           /\ ~Effective' => Shown' = Prior(logIdx)'
           /\ Effective' => Shown' = Append(Prior(logIdx)', logErr')
      /\ torn' # {} \/ Clearing' => Shown' = <<>>
  BY DEF Shown, InCall, Clearing, Effective
<1>1. ASSUME NEW e \in Causes, SetCompare(e) PROVE Atomic!Begin(e)
  <2>1. UNCHANGED <<logBuf, logCnt, torn>> /\ logOp = "none" /\ logOp' = "compared"
    BY <1>1 DEF SetCompare
  <2>2. Shown' = Shown
    BY <2>1 DEF Shown, Clearing, Effective, Prior
  <2>3. ShownCall = "none" /\ ShownCall' = "set" /\ logErr' = e
    BY <1>1, <2>1 DEF SetCompare, ShownCall, Clearing, Effective
  <2> QED  BY <2>1, <2>2, <2>3 DEF Atomic!Begin
<1>2. CASE SetDropped
  <2>1. /\ logOp = "compared" /\ logOp' = "none" /\ logCnt >= LOG_MAX
        /\ UNCHANGED <<logBuf, logCnt, logErr, torn>>
    BY <1>2 DEF SetDropped
  <2>2. Shown' = Shown /\ ShownCall = "set" /\ ShownCall' = "none"
    BY <2>1 DEF Shown, ShownCall, Clearing, Effective, Prior
  <2>3. torn = {} => Atomic!WithError(Shown, logErr) = Shown
    <3> HAVE torn = {}
    <3>0. logCnt = LOG_MAX
      BY <1>0, <2>1, ErrorFacts DEF LogInv, LogConsistent, InCall, LogTypeOK
    <3>1. Len(Prior(logCnt)) = LOG_MAX
      BY <1>0, <3>0, PriorIs, ErrorFacts
    <3>2. Shown = Prior(logCnt)
      BY <1>p, <2>1 DEF InCall
    <3> QED  BY <3>1, <3>2, RecordsNothing
  <2> QED  BY <2>1, <2>2, <2>3 DEF Atomic!Effect, Atomic!Next
<1>3. CASE SetRoom
  <2>1. /\ logOp = "compared" /\ logOp' = "room"
        /\ UNCHANGED <<logBuf, logCnt, logErr, torn>>
    BY <1>3 DEF SetRoom
  <2>2. Same
    BY <2>1 DEF Same, Shown, ShownCall, Clearing, Effective, Prior
  <2> QED  BY <1>s, <2>2
<1>i. CASE \E i \in Indices : SetIndex(i)
  <2> PICK i \in Indices : SetIndex(i)
    BY <1>i
  <2>1. /\ logOp = "room" /\ logOp' = "set" /\ logIdx' = i
        /\ logWords' = {"cnt", "cur"} /\ UNCHANGED <<logBuf, logCnt, logErr>>
        /\ torn' = torn \/ (torn' = torn \union {"set"} /\ torn' # {})
        /\ torn' = {} => i = logCnt
    BY DEF SetIndex
  <2>2. CASE torn' = {}
    <3>1. torn = {} /\ ShownCall = "set" /\ ShownCall' = "set" /\ ~Effective'
      <4>1. torn = {}
        BY <2>1, <2>2
      <4>2. ~Effective'
        BY <2>1, <2>2 DEF Effective
      <4> QED  BY <2>1, <4>1, <4>2 DEF ShownCall, Clearing, Effective
    <3>2. Prior(logIdx)' = Prior(logCnt)
      BY <2>1, <2>2 DEF Prior
    <3>3. Shown' = Shown
      BY <1>p, <1>t, <2>1, <2>2, <3>1, <3>2 DEF InCall
    <3>4. Same
      BY <2>1, <2>2, <3>1, <3>3 DEF Same
    <3> QED  BY <1>s, <3>4
  <2>3. CASE torn' # {}
    <3>1. ShownCall = "set" /\ ShownCall' = "done" /\ Shown' = <<>>
      BY <2>1, <2>3 DEF ShownCall, Clearing, Effective, Shown
    <3>2. CASE torn = {}
      BY <2>1, <2>3, <3>1, <3>2 DEF Atomic!Cut, Atomic!Next
    <3>3. CASE torn # {}
      BY <1>r, <2>1, <2>3, <3>1, <3>3 DEF Atomic!Effect, Atomic!Next
    <3> QED  BY <3>2, <3>3
  <2> QED  BY <2>2, <2>3
<1>4. CASE ClrBegin
  <2>1. /\ logOp = "none" /\ logOp' = "clr" /\ torn' = {} /\ logErr' = logErr
    BY <1>4 DEF ClrBegin
  <2>2. ShownCall = "none" /\ ShownCall' = "clear" /\ Shown' = <<>>
    BY <2>1 DEF ShownCall, Clearing, Shown
  <2> QED  BY <2>1, <2>2 DEF Atomic!Clear, Atomic!Next
<1>5. CASE \E i \in logDue : StoreSlot(i)
  <2> PICK i \in logDue : StoreSlot(i)
    BY <1>5
  <2>1. UNCHANGED <<logCnt, logCur, logOp, logErr, logIdx, logWords, torn>>
    BY DEF StoreSlot
  <2>2. InCall
    BY <1>0 DEF Stores
  <2>3. Effective' = Effective
    BY <2>1 DEF Effective
  <2>4. ShownCall' = ShownCall
    BY <2>1, <2>3 DEF ShownCall, Clearing
  <2>5. logOp = "set" => Prior(logIdx)' = Prior(logIdx)
    <3> HAVE logOp = "set"
    <3>1. \A j \in LogSlots : j < logIdx => logBuf'[j] = logBuf[j]
      <4>1. i = logIdx /\ (logBuf' = [logBuf EXCEPT ![logIdx] = logErr] \/ logBuf' = logBuf)
        BY <1>0 DEF StoreSlot, Stores, Clearing
      <4>2. \A j \in LogSlots : j < logIdx => j # logIdx
        BY <1>0, ErrorFacts DEF LogTypeOK, LogSlots
      <4> QED  BY <1>0, <4>1, <4>2 DEF LogTypeOK
    <3>2. logIdx \in 0 .. LOG_MAX
      BY <1>0, ErrorFacts DEF LogTypeOK
    <3>3. Prior(logIdx)' = [k \in 1 .. logIdx |-> logBuf'[k - 1]]
      BY <2>1 DEF Prior
    <3>4. \A k \in 1 .. logIdx : k - 1 \in LogSlots /\ k - 1 < logIdx
      BY <3>2, ErrorFacts DEF LogSlots
    <3> QED  BY <3>1, <3>3, <3>4 DEF Prior
  <2>6. Shown' = Shown
    BY <2>1, <2>2, <2>3, <2>5 DEF Shown, Clearing, InCall
  <2>7. Same
    BY <2>1, <2>4, <2>6 DEF Same
  <2> QED  BY <1>s, <2>7
<1>w. ASSUME InCall, UNCHANGED <<logBuf, logOp, logErr, logIdx, torn>>, Effective => Effective'
      PROVE  [Atomic!Next]_(Atomic!vars)
  <2>1. Prior(logIdx)' = Prior(logIdx)
    BY <1>w DEF Prior
  <2>2. CASE (Effective' => Effective) \/ Clearing
    <3>1. ShownCall' = ShownCall
      BY <1>w, <2>2 DEF ShownCall, Clearing
    <3>2. Shown' = Shown
      BY <1>w, <2>1, <2>2 DEF Shown, Clearing, InCall
    <3>3. Same
      BY <1>w, <3>1, <3>2 DEF Same
    <3> QED  BY <1>s, <3>3
  <2>3. CASE ~Effective /\ Effective' /\ ~Clearing
    <3>1. torn = {} /\ logOp = "set" /\ logIdx \in LogSlots
      BY <1>0, <1>w, <2>3 DEF InCall, Clearing, Effective, LogInv, PartlySet
    <3>2. Shown = Prior(logIdx) /\ Shown' = Append(Prior(logIdx), logErr)
      BY <1>q, <1>t, <1>w, <2>1, <2>3, <3>1
    <3>3. logErr # NewestOf(logIdx)
      BY <3>1 DEF LogInv, PartlySet
    <3>4. Shown' = Atomic!WithError(Shown, logErr)
      BY <1>0, <3>1, <3>2, <3>3, RecordsNew
    <3>5. ShownCall = "set" /\ ShownCall' = "done"
      BY <1>w, <2>3, <3>1 DEF ShownCall, Clearing
    <3> QED  BY <1>w, <3>1, <3>4, <3>5 DEF Atomic!Effect, Atomic!Next
  <2> QED  BY <1>w, <2>2, <2>3
<1>6. CASE StoreCnt
  <2>1. InCall
    BY <1>0, <1>6 DEF StoreCnt, Stores
  <2>2. /\ UNCHANGED <<logBuf, logCur, logOp, logErr, logIdx, torn>>
        /\ "cnt" \in logWords /\ logWords' = logWords \ {"cnt"}
    BY <1>6 DEF StoreCnt
  <2>3. Effective => Effective'
    BY <2>2 DEF Effective
  <2> QED  BY <1>w, <2>1, <2>2, <2>3
<1>7. CASE StoreCur
  <2>1. InCall
    BY <1>0, <1>7 DEF StoreCur, Stores
  <2>2. /\ UNCHANGED <<logBuf, logCnt, logOp, logErr, logIdx, torn>>
        /\ logWords' = logWords \ {"cur"}
    BY <1>7 DEF StoreCur
  <2>3. Effective => Effective'
    BY <2>2 DEF Effective
  <2> QED  BY <1>w, <2>1, <2>2, <2>3
<1>8. CASE Return
  <2>1. /\ logOp \in {"set", "clr"} /\ logOp' = "none" /\ logDue = {} /\ logWords = {}
        /\ UNCHANGED <<logBuf, logCnt, logErr, logIdx, torn>>
    BY <1>8 DEF Return
  <2>2. ShownCall \in {"done", "clear"} /\ ShownCall' = "none"
    BY <2>1 DEF ShownCall, Clearing, Effective
  <2>3. torn = {} => Shown' = Prior(logCnt)
    BY <1>t, <2>1 DEF InCall, Prior
  <2>4. CASE torn # {}
    BY <1>r, <1>t, <2>1, <2>2, <2>4 DEF Atomic!Return, Atomic!Next
  <2>5. CASE torn = {} /\ logOp = "clr"
    <3>1. logCnt = 0
      BY <2>1, <2>5 DEF LogInv, PartlyCleared
    <3>2. Shown = <<>> /\ Prior(logCnt) = <<>>
      BY <1>r, <2>5, <3>1 DEF Clearing, Prior
    <3> QED  BY <2>1, <2>2, <2>3, <2>5, <3>2 DEF Atomic!Return, Atomic!Next
  <2>6. CASE torn = {} /\ logOp = "set"
    <3>1. logCnt = logIdx + 1 /\ logBuf[logIdx] = logErr /\ logIdx \in LogSlots
      BY <1>0, <2>1, <2>6 DEF LogInv, PartlySet
    <3>2. Effective
      BY <2>1, <2>6 DEF Effective
    <3>3. Shown = Append(Prior(logIdx), logErr)
      BY <1>q, <2>6, <3>2
    <3>4. Shown' = Shown
      BY <1>0, <2>3, <2>6, <3>1, <3>3, PriorNext
    <3> QED  BY <2>1, <2>2, <2>6, <3>4 DEF Atomic!Return, Atomic!Next
  <2> QED  BY <2>1, <2>4, <2>5, <2>6
<1>9. CASE TripSets
  <2>1. UNCHANGED <<logOp, logErr, logIdx, logWords>>
    BY <1>9 DEF TripSets
  <2>2. CASE ~(logCur # FLT /\ logCnt < LOG_MAX)
    <3>1. UNCHANGED <<logBuf, logCnt, logCur, torn>>
      BY <1>9, <2>2 DEF TripSets
    <3>2. Same
      BY <2>1, <3>1 DEF Same, Shown, ShownCall, Clearing, Effective, Prior
    <3> QED  BY <1>s, <3>2
  <2>3. CASE logCur # FLT /\ logCnt < LOG_MAX
    <3>1. /\ logBuf' = [logBuf EXCEPT ![logCnt] = FLT] /\ logCnt' = logCnt + 1
          /\ torn' = torn \union (IF InCall THEN {logOp} ELSE {}) /\ logCnt \in LogSlots
      BY <1>0, <1>9, <2>3, ErrorFacts DEF TripSets, LogTypeOK
    <3>2. CASE InCall
      <4>1. torn' # {} /\ Shown' = <<>>
        BY <1>t, <3>1, <3>2
      <4>2. ShownCall # "none"
        BY <3>2 DEF ShownCall, InCall
      <4>3. ShownCall' = IF ShownCall = "clear" THEN "clear" ELSE "done"
        BY <2>1, <3>2, <4>1 DEF ShownCall, InCall, Clearing, Effective
      <4> QED  BY <2>1, <4>1, <4>2, <4>3 DEF Atomic!Cut, Atomic!Next
    <3>3. CASE ~InCall /\ torn # {}
      <4>1. torn' = torn /\ Shown = <<>> /\ Shown' = <<>>
        BY <1>r, <1>t, <3>1, <3>3
      <4>2. ShownCall' = ShownCall
        BY <2>1, <3>3 DEF ShownCall, InCall, Clearing, Effective
      <4>3. Same
        BY <2>1, <4>1, <4>2 DEF Same
      <4> QED  BY <1>s, <4>3
    <3>4. CASE ~InCall /\ torn = {}
      <4>1. torn' = {} /\ ~InCall' /\ ShownCall # "clear" /\ ShownCall' = ShownCall
        BY <2>1, <3>1, <3>4 DEF ShownCall, InCall, Clearing, Effective
      <4>2. logCur = NewestOf(logCnt)
        BY <3>4 DEF LogInv, LogConsistent, NewestOf
      <4>3. Atomic!WithError(Shown, FLT) = Append(Prior(logCnt), FLT)
        BY <1>0, <1>p, <2>3, <3>1, <3>4, <4>2, RecordsNew
      <4>4. Prior(logCnt)' = Append(Prior(logCnt), FLT)
        <5>1. Prior(logCnt)' = [k \in 1 .. logCnt + 1 |-> logBuf'[k - 1]]
          BY <3>1 DEF Prior
        <5> QED  BY <1>0, <3>1, <5>1, ErrorFacts, PriorPut
      <4>5. Shown' = Atomic!WithError(Shown, FLT)
        BY <1>t, <4>1, <4>3, <4>4
      <4> QED  BY <2>1, <3>4, <4>1, <4>5 DEF Atomic!Trip, Atomic!Next
    <3> QED  BY <3>2, <3>3, <3>4
  <2> QED  BY <2>2, <2>3
<1>10. CASE UNCHANGED logVars
  <2>1. Same
    BY <1>10 DEF logVars, Same, Shown, ShownCall, Clearing, Effective, Prior
  <2> QED  BY <1>s, <2>1
<1>11. ASSUME NEW e \in Causes, SetCompare(e) PROVE [Atomic!Next]_(Atomic!vars)
  BY <1>1, <1>11 DEF Atomic!Next
<1> QED
  BY <1>2, <1>3, <1>i, <1>4, <1>5, <1>6, <1>7, <1>8, <1>9, <1>10, <1>11 DEF LogNext

\* What a trip leaves out is there already or has no room.
LEMMA DropsRight == LogInv => RightlyDropped
<1> SUFFICES ASSUME LogInv, ~Clearing, torn = {}, logCur = FLT \/ logCnt >= LOG_MAX
             PROVE  Atomic!WithError(Shown, FLT) = Shown
  BY DEF RightlyDropped
<1>1. LogTypeOK /\ Stores
  BY DEF LogInv
<1>2. ASSUME NEW n \in 0 .. LOG_MAX, Shown = Prior(n), n = LOG_MAX \/ NewestOf(n) = FLT
      PROVE  Atomic!WithError(Shown, FLT) = Shown
  <2>1. Len(Shown) = n /\ (n # 0 => Shown # <<>> /\ Shown[n] = NewestOf(n))
    BY <1>1, <1>2, PriorIs DEF NewestOf
  <2>2. n = LOG_MAX \/ n # 0
    BY <1>2, ErrorFacts DEF NewestOf
  <2> QED  BY <1>2, <2>1, <2>2, RecordsNothing
<1>3. CASE ~InCall
  <2>1. Shown = Prior(logCnt)
    BY <1>3 DEF Shown, InCall, Clearing, Effective
  <2>2. logCur = NewestOf(logCnt) /\ logCnt <= LOG_MAX
    BY <1>3 DEF LogInv, LogConsistent, NewestOf
  <2>3. logCnt \in 0 .. LOG_MAX
    BY <1>1, <2>2, ErrorFacts DEF LogTypeOK
  <2>4. logCnt = LOG_MAX \/ NewestOf(logCnt) = FLT
    BY <2>2, <2>3, ErrorFacts
  <2> QED  BY <1>2, <2>1, <2>3, <2>4
<1>4. CASE InCall
  <2>1. /\ logOp = "set" /\ logErr \in Causes /\ logErr # FLT
        /\ logIdx \in LogSlots /\ logIdx \in Nat /\ logIdx < LOG_MAX /\ logIdx \in 0 .. LOG_MAX
        /\ logCnt = IF "cnt" \in logWords THEN logIdx ELSE logIdx + 1
        /\ logCur = IF "cur" \in logWords THEN NewestOf(logIdx) ELSE logErr
    BY <1>1, <1>4, ErrorFacts DEF InCall, Clearing, LogInv, PartlySet, Stores
  <2>2. CASE Effective
    <3>1. Shown = Append(Prior(logIdx), logErr)
      BY <2>2 DEF Shown, Clearing
    <3>2. logIdx + 1 = LOG_MAX
      <4>1. "cur" \notin logWords \/ ("cnt" \notin logWords /\ logCnt = LOG_MAX)
        <5>1. torn # {} \/ "cur" \notin logWords \/ ("cnt" \notin logWords /\ logCnt = LOG_MAX)
          BY <2>2 DEF Effective
        <5> QED  BY <5>1
      <4>2. CASE "cur" \notin logWords
        <5>1. logCnt >= LOG_MAX
          BY <2>1, <4>2
        <5> QED  BY <2>1, <5>1, ErrorFacts
      <4> QED  BY <2>1, <4>1, <4>2
    <3>3. Len(Shown) = LOG_MAX
      BY <1>1, <2>1, <3>1, <3>2, PriorIs, ErrorFacts
    <3> QED  BY <3>3, RecordsNothing
  <2>3. CASE ~Effective
    <3>1. Shown = Prior(logIdx)
      BY <2>1, <2>3 DEF Shown, Clearing
    <3>2. "cur" \in logWords /\ ("cnt" \in logWords \/ logCnt # LOG_MAX)
      BY <2>1, <2>3 DEF Effective
    <3>3. ~(logCnt >= LOG_MAX)
      BY <2>1, <3>2, ErrorFacts
    <3>4. NewestOf(logIdx) = FLT
      BY <2>1, <3>2, <3>3
    <3>5. logIdx = LOG_MAX \/ NewestOf(logIdx) = FLT
      BY <3>4
    <3>6. logIdx \in 0 .. LOG_MAX
      BY <2>1
    <3> QED  BY <1>2, <3>1, <3>5, <3>6
  <2> QED  BY <2>2, <2>3
<1> QED
  BY <1>3, <1>4

\* Every call of set and clr and every trip outside a clear takes effect in one
\* step, as Converter has it, for any size of the log, until a trip that has room
\* in it tears a call.
THEOREM LogIsAtomicCorrect == LogSpec => LogIsAtomic
<1>1. LogSpec => Atomic!Spec
  BY AtomicInit, AtomicStep, LogInvariant, PTL DEF LogSpec, Atomic!Spec
<1>2. LogSpec => []RightlyDropped
  BY DropsRight, LogInvariant, PTL
<1> QED
  BY <1>1, <1>2 DEF LogIsAtomic
=============================================================================
