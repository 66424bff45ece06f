----------------------------- MODULE SlaveProofs -----------------------------
(***************************************************************************)
(* The registers keep inside their limits and above the access of the host *)
(* (modbus_regs.c, modbus_slave.c, modbus_eeprom.c), for every table of    *)
(* registers, every width of a word and every chip.                        *)
(***************************************************************************)
EXTENDS Requests, WellFoundedInduction, TLAPS

\* A set of numbers that is not empty has a least one.
LEMMA Least ==
  ASSUME NEW S \in SUBSET Nat, S # {}
  PROVE  \E m \in S : \A k \in S : m <= k
<1> DEFINE R == {ss \in Nat \X Nat : ss[1] < ss[2]}
<1>1. IsWellFoundedOn(R, Nat)
  BY NatLessThanWellFounded DEF OpToRel
<1>2. \E x \in S : \A y \in S : ~(<<y, x>> \in R)
  <2> HIDE DEF R
  <2> QED BY <1>1, WFMin, Zenon
<1>3. PICK x \in S : \A y \in S : ~(<<y, x>> \in R)
  BY <1>2
<1>4. ASSUME NEW k \in S PROVE x <= k
  <2>1. <<k, x>> \in Nat \X Nat /\ ~(<<k, x>> \in R)
    BY <1>3
  <2>2. ~(k < x)
    BY <2>1
  <2> QED BY <2>2
<1> QED BY <1>4

\* Induction over an interval, for a set of numbers.
LEMMA IntervalInduction ==
  ASSUME NEW n \in Nat, NEW S, 0 \in S, \A k \in 1 .. n : k - 1 \in S => k \in S
  PROVE  0 .. n \subseteq S
<1> DEFINE Rest == {k \in 0 .. n : k \notin S}
<1>1. SUFFICES ASSUME Rest # {} PROVE FALSE
  OBVIOUS
<1>2. PICK m \in Rest : \A k \in Rest : m <= k
  <2>1. Rest \in SUBSET Nat
    OBVIOUS
  <2> HIDE DEF Rest
  <2> QED BY <1>1, <2>1, Least
<1>3. m \in 1 .. n /\ m - 1 \in 0 .. n /\ ~(m <= m - 1)
  BY <1>2
<1>4. m - 1 \in S
  BY <1>2, <1>3
<1> QED BY <1>2, <1>3, <1>4

\* What recursion over 0 .. n makes of a first value and a step.
Follows(g, n, first, next) ==
  \A k \in 0 .. n : g[k] = IF k = 0 THEN first ELSE next[<<g[k - 1], k>>]

\* A function defined by recursion over an interval exists.
LEMMA Recursion ==
  ASSUME NEW n \in Nat, NEW T, NEW first \in T, NEW next \in [T \X (1 .. n) -> T]
  PROVE  \E g \in [0 .. n -> T] : Follows(g, n, first, next)
<1> DEFINE Fits(g, m) == Follows(g, m, first, next)
           S == {m \in 0 .. n : \E g \in [0 .. m -> T] : Fits(g, m)}
<1>1. 0 \in S
  <2> DEFINE h == [k \in 0 .. 0 |-> first]
  <2>1. h \in [0 .. 0 -> T]
    OBVIOUS
  <2>2. h[0] = first /\ \A k \in 0 .. 0 : k = 0
    OBVIOUS
  <2>3. Fits(h, 0)
    <3> HIDE DEF h
    <3> QED BY <2>2 DEF Follows
  <2> HIDE DEF h, Fits
  <2> QED BY <2>1, <2>3
<1>2. ASSUME NEW m \in 1 .. n, m - 1 \in S PROVE m \in S
  <2>1. PICK g \in [0 .. m - 1 -> T] : Fits(g, m - 1)
    BY <1>2
  <2> DEFINE h == [k \in 0 .. m |-> IF k = m THEN next[<<g[m - 1], m>>] ELSE g[k]]
  <2>2. m - 1 \in 0 .. m - 1 /\ g[m - 1] \in T
    OBVIOUS
  <2>3. next[<<g[m - 1], m>>] \in T
    BY <2>2
  <2>4. h \in [0 .. m -> T]
    BY <2>3
  <2>5. ASSUME NEW k \in 0 .. m PROVE h[k] = IF k = 0 THEN first ELSE next[<<h[k - 1], k>>]
    <3>1. CASE k = m
      <4>1. k # 0 /\ h[k - 1] = g[m - 1] /\ h[k] = next[<<g[m - 1], m>>]
        BY <3>1
      <4> QED BY <3>1, <4>1
    <3>2. CASE k # m
      <4>1. k \in 0 .. m - 1 /\ h[k] = g[k]
        BY <3>2
      <4>2. k # 0 => k - 1 \in 0 .. m - 1 /\ h[k - 1] = g[k - 1]
        BY <3>2
      <4> HIDE DEF h
      <4> QED BY <2>1, <4>1, <4>2 DEF Follows
    <3> QED BY <3>1, <3>2
  <2>6. Fits(h, m)
    BY <2>5 DEF Follows
  <2> HIDE DEF h, Fits
  <2> QED BY <2>4, <2>6
<1>3. n \in S
  <2> HIDE DEF S
  <2>1. 0 .. n \subseteq S
    BY <1>1, <1>2, IntervalInduction
  <2> QED BY <2>1
<1> QED BY <1>3
-----------------------------------------------------------------------------
(* A word and the number it stands for.                                    *)

LEMMA WordFacts == WORD \in Nat /\ WORD > 0
BY RegistersOK

\* The cast to uint16_t.
LEMMA RawWraps ==
  ASSUME NEW v \in Int, 0 - WORD < v, v < WORD
  PROVE  Raw(v) = IF v < 0 THEN v + WORD ELSE v
<1>1. WORD \in Nat /\ WORD > 0
  BY WordFacts
<1>2. CASE v < 0
  <2>1. v + WORD \in 0 .. WORD - 1
    BY <1>1, <1>2
  <2>2. v % WORD = v + WORD
    BY <1>1, <1>2, <2>1, SMT
  <2> QED BY <1>2, <2>2 DEF Raw
<1>3. CASE v >= 0
  <2>1. v % WORD = v
    BY <1>1, <1>3, SMT
  <2> QED BY <1>3, <2>1 DEF Raw
<1> QED BY <1>2, <1>3

LEMMA RawType == ASSUME NEW v \in Int PROVE Raw(v) \in Words
<1> QED BY WordFacts DEF Raw, Words

\* The limits of a register that can be written lie inside its type.
LEMMA LimitFacts ==
  ASSUME NEW a \in Addrs, Table[a].dest
  PROVE  /\ Table[a].lo \in Int /\ Table[a].hi \in Int /\ Table[a].lo <= Table[a].hi
         /\ Table[a].signed => 0 <= 2 * Table[a].lo + WORD /\ 2 * Table[a].hi < WORD
         /\ ~Table[a].signed => 0 <= Table[a].lo /\ Table[a].hi < WORD
<1>1. Table[a] \in Kinds
  BY RegistersOK
<1>2. Table[a].lo \in Int /\ Table[a].hi \in Int
  BY <1>1 DEF Kinds
<1> QED BY <1>2, RegistersOK

LEMMA ValueType == ASSUME NEW a \in Addrs, NEW x \in Words PROVE Value(a, x) \in Int
<1> QED BY WordFacts DEF Value, Words

LEMMA LimitType ==
  ASSUME NEW a \in Addrs, Table[a].dest, NEW v \in Int
  PROVE  Limit(a, v) \in Int /\ Table[a].lo <= Limit(a, v) /\ Limit(a, v) <= Table[a].hi
BY LimitFacts DEF Limit

\* A number inside the limits of a register is what its word stands for.
LEMMA WithinRaw ==
  ASSUME NEW a \in Addrs, Table[a].dest, NEW v \in Int,
         Table[a].lo <= v, v <= Table[a].hi
  PROVE  Within(a, Raw(v))
<1>1. 0 - WORD < v /\ v < WORD
  BY LimitFacts, WordFacts
<1>2. Raw(v) = IF v < 0 THEN v + WORD ELSE v
  BY <1>1, RawWraps
<1>3. Value(a, Raw(v)) = v
  BY <1>2, LimitFacts, WordFacts DEF Value
<1> QED BY <1>3 DEF Within

LEMMA WrittenType ==
  ASSUME NEW a \in Addrs, NEW w \in Words, NEW x \in Words, NEW mode
  PROVE  Written(a, w, x, mode) \in Words
BY ValueType, LimitType, RawType DEF Written

\* modbus_write_reg keeps a register inside its limits, whatever is written.
LEMMA WrittenWithin ==
  ASSUME NEW a \in Limited, NEW w \in Words, NEW x \in Words, NEW mode, Within(a, w)
  PROVE  Within(a, Written(a, w, x, mode))
<1>1. a \in Addrs /\ Table[a].dest
  BY DEF Limited
<1> DEFINE v == Limit(a, Value(a, x))
<1>2. v \in Int /\ Table[a].lo <= v /\ v <= Table[a].hi
  BY <1>1, ValueType, LimitType
<1>3. Within(a, Raw(v))
  <2> HIDE DEF v
  <2> QED BY <1>1, <1>2, WithinRaw
<1> QED BY <1>3 DEF Written

\* ... and a whole request does.
LEMMA WrittenAllOK ==
  ASSUME NEW rs \in [Addrs -> Words], NEW at \in Nat, NEW xs \in Seq(Words), NEW mode
  PROVE  /\ WrittenAll(rs, at, xs, mode) \in [Addrs -> Words]
         /\ \A a \in Addrs : ~Open(a, mode) => WrittenAll(rs, at, xs, mode)[a] = rs[a]
         /\ (\A a \in Limited : Within(a, rs[a])) =>
              \A a \in Limited : Within(a, WrittenAll(rs, at, xs, mode)[a])
<1>1. ASSUME NEW a \in Addrs, a \in at .. at + Len(xs) - 1 PROVE xs[a - at + 1] \in Words
  <2>1. a - at + 1 \in 1 .. Len(xs)
    BY <1>1 DEF Addrs
  <2> QED BY <2>1
<1>2. ASSUME NEW a \in Addrs PROVE WrittenAll(rs, at, xs, mode)[a] \in Words
  BY <1>1, WrittenType DEF WrittenAll
<1>3. ASSUME NEW a \in Addrs, ~Open(a, mode)
      PROVE  WrittenAll(rs, at, xs, mode)[a] = rs[a]
  BY <1>3 DEF WrittenAll, Written
<1>4. ASSUME NEW a \in Limited, Within(a, rs[a])
      PROVE  Within(a, WrittenAll(rs, at, xs, mode)[a])
  BY <1>1, <1>4, WrittenWithin DEF WrittenAll, Limited
<1> QED BY <1>2, <1>3, <1>4 DEF WrittenAll

-----------------------------------------------------------------------------
(* The loop over the registers kept in EEPROM.                             *)

LEMMA PromFacts == Prom \in SUBSET Nat /\ Prom \subseteq Addrs /\ Prom # {}
<1>1. Prom \subseteq Addrs
  BY DEF Prom
<1>2. Addrs \subseteq Nat
  BY RegistersOK DEF Addrs
<1> QED BY <1>1, <1>2, SettingsOK

LEMMA FirstCell == First \in Prom /\ \A b \in Prom : First <= b
<1>1. \E a \in Prom : \A b \in Prom : a <= b
  BY PromFacts, Least
<1> QED BY <1>1 DEF First

LEMMA NextCell ==
  ASSUME NEW a \in Prom, ~Last(a)
  PROVE  Next1(a) \in Prom /\ a < Next1(a) /\ \A c \in Prom : c > a => Next1(a) <= c
<1> DEFINE Later == {b \in Prom : b > a}
<1>1. Later \in SUBSET Nat /\ Later # {}
  <2>1. PICK b \in Prom : ~(b <= a)
    BY DEF Last
  <2>2. a \in Nat /\ b \in Nat
    BY PromFacts
  <2>3. b \in Later
    BY <2>1, <2>2
  <2> QED BY <2>3, PromFacts
<1>2. \E b \in Later : \A c \in Later : b <= c
  <2> HIDE DEF Later
  <2> QED BY <1>1, Least
<1>3. \E b \in Prom : b > a /\ \A c \in Prom : c > a => b <= c
  BY <1>2
<1> QED BY <1>3 DEF Next1

\* A cell that answers OK holds a word.
LEMMA CellWord ==
  ASSUME SettingsTypeOK, NEW a \in Prom, "OK" \in ReadsAs(a)
  PROVE  store[a] \in Words
BY DEF SettingsTypeOK, ReadsAs, StatusOf, Broken, Cells

LEMMA ReadStatus ==
  ASSUME SettingsTypeOK, NEW a \in Prom, NEW st \in ReadsAs(a)
  PROVE  st \in Statuses
BY DEF ReadsAs, StatusOf, Broken, Statuses

LEMMA ProgramType ==
  ASSUME SettingsTypeOK, NEW a \in Prom, NEW w \in Words, NEW p \in Programs(a, w)
  PROVE  p[1] \in Statuses /\ p[2] \in Cells
BY DEF Programs, Broken, Statuses, Cells, SettingsTypeOK

LEMMA TouchType == ASSUME basis \in [Services -> Bases] PROVE Touch(basis) \in [Services -> Bases]
BY DEF Touch, Bases

LEMMA EndType ==
  ASSUME SettingsTypeOK, NEW k \in Services, NEW st \in Statuses, End(k, st)
  PROVE  /\ req' \in [Services -> BOOLEAN] /\ status' \in [Services -> Statuses]
         /\ task' \in Waits \union Tests /\ task' # "fetch"
<1>1. req' \in [Services -> BOOLEAN]
  BY DEF SettingsTypeOK, End
<1>2. status' \in [Services -> Statuses]
  BY DEF SettingsTypeOK, End
<1> QED BY <1>1, <1>2 DEF End, Following, Waits, Tests, Services

-----------------------------------------------------------------------------
(* The task of the settings.                                               *)

LimitsOf(rs) == \A a \in Limited : Within(a, rs[a])
Saved   == Restoring => saved = granted
TaskInv == SettingsTypeOK /\ LimitsOf(regs) /\ ModeReturned /\ Saved

\* A step of the loop that writes the store.
LEMMA NextWriteStep ==
  ASSUME SettingsTypeOK, NextWrite, UNCHANGED regs
  PROVE  /\ req' \in [Services -> BOOLEAN] /\ status' \in [Services -> Statuses]
         /\ task' \in Waits \union Tests /\ task' # "fetch"
         /\ cell' \in Prom /\ word' \in Words
<1>1. CASE Last(cell)
  BY <1>1, EndType DEF NextWrite, SettingsTypeOK, Services, Statuses
<1>2. CASE ~Last(cell)
  <2>1. Next1(cell) \in Prom /\ Next1(cell) \in Addrs
    BY <1>2, NextCell, PromFacts DEF SettingsTypeOK
  <2> QED BY <1>2, <2>1 DEF NextWrite, SettingsTypeOK, Waits
<1> QED BY <1>1, <1>2

\* A step of the EEPROM task keeps the types, the limits and the access.
LEMMA TaskStep ==
  ASSUME TaskInv, Task
  PROVE  /\ TaskInv'
         /\ granted' = granted
         /\ ~Restoring => UNCHANGED regs
<1> USE DEF TaskInv, SettingsTypeOK, LimitsOf, ModeReturned, Saved, Restoring
<1>1. CASE Wake
  BY <1>1 DEF Wake, Waits, Tests, Services
<1>2. CASE Skip
  BY <1>2 DEF Skip, Waits, Tests, Services, Following
<1>3. CASE BeginErase
  BY <1>3, TouchType DEF BeginErase, Begun, Waits, Bases
<1>4. CASE BeginRead
  <2>1. basis' \in [Services -> Bases]
    BY <1>4, TouchType DEF BeginRead, Begun, Bases
  <2>2. access' \in Modes
    BY <1>4 DEF BeginRead, Modes, FACTORY, USER
  <2> QED BY <1>4, <2>1, <2>2, FirstCell DEF BeginRead, Waits
<1>5. CASE BeginWrite
  <2>1. First \in Prom /\ First \in Addrs
    BY FirstCell, PromFacts
  <2> QED BY <1>5, <2>1, TouchType DEF BeginWrite, Begun, Waits, Bases
<1>6. CASE Wipe
  <2>1. store' \in [Prom -> Cells]
    BY <1>6 DEF Wipe, Cells
  <2>2. \E st \in Statuses : End("erase", st)
    BY <1>6 DEF Wipe, Broken, Statuses
  <2>3. /\ req' \in [Services -> BOOLEAN] /\ status' \in [Services -> Statuses]
        /\ task' \in Waits \union Tests /\ task' # "fetch" /\ task # "fetch"
    BY <1>6, <2>2, EndType DEF Services, Wipe
  <2> QED BY <1>6, <2>1, <2>3 DEF Wipe
<1>7. CASE Fetched
  <2>1. cell \in Prom /\ cell \in Addrs /\ store[cell] \in Words /\ task = "fetch"
    BY <1>7, CellWord, PromFacts DEF Fetched
  <2> DEFINE w == Written(cell, regs[cell], store[cell], access)
  <2>2. w \in Words /\ (cell \in Limited => Within(cell, w))
    BY <2>1, WrittenType, WrittenWithin
  <2>3. regs' = [regs EXCEPT ![cell] = w]
    BY <1>7 DEF Fetched
  <2> HIDE DEF w
  <2>4. regs' \in [Addrs -> Words] /\ LimitsOf(regs)'
    BY <2>1, <2>2, <2>3 DEF Limited
  <2>5. CASE Last(cell)
    <3>1. /\ req' \in [Services -> BOOLEAN] /\ status' \in [Services -> Statuses]
          /\ task' \in Waits \union Tests /\ task' # "fetch"
      BY <1>7, <2>5, EndType DEF Fetched, Services, Statuses
    <3> QED BY <1>7, <2>1, <2>4, <2>5, <3>1 DEF Fetched
  <2>6. CASE ~Last(cell)
    <3>1. Next1(cell) \in Prom
      BY <2>6, <2>1, NextCell
    <3> QED BY <1>7, <2>1, <2>4, <2>6, <3>1 DEF Fetched, Modes, FACTORY, USER
  <2> QED BY <2>5, <2>6
<1>8. CASE FetchedNone
  <2>1. cell \in Prom /\ task = "fetch"
    BY <1>8 DEF FetchedNone
  <2>2. CASE Last(cell)
    <3>1. PICK st \in Statuses : End("read", st)
      BY <1>8, <2>2 DEF FetchedNone, Statuses
    <3>2. /\ req' \in [Services -> BOOLEAN] /\ status' \in [Services -> Statuses]
          /\ task' \in Waits \union Tests /\ task' # "fetch"
      BY <3>1, EndType DEF Services
    <3> QED BY <1>8, <2>1, <2>2, <3>2 DEF FetchedNone
  <2>3. CASE ~Last(cell)
    <3>1. Next1(cell) \in Prom
      BY <2>3, <2>1, NextCell
    <3> QED BY <1>8, <2>1, <2>3, <3>1 DEF FetchedNone
  <2> QED BY <2>2, <2>3
<1>9. CASE FetchFailed
  <2>1. PICK st \in Statuses : End("read", st)
    BY <1>9, ReadStatus DEF FetchFailed
  <2>2. /\ req' \in [Services -> BOOLEAN] /\ status' \in [Services -> Statuses]
        /\ task' \in Waits \union Tests /\ task' # "fetch"
    BY <2>1, EndType DEF Services
  <2> QED BY <1>9, <2>2 DEF FetchFailed
<1>10. CASE Compare
  <2>1. /\ req' \in [Services -> BOOLEAN] /\ status' \in [Services -> Statuses]
        /\ task' \in Waits \union Tests /\ task' # "fetch"
        /\ cell' \in Prom /\ word' \in Words
    <3>1. PICK st \in ReadsAs(cell) :
            IF st = "OK" /\ store[cell] = word
            THEN NextWrite
            ELSE task' = "program" /\ UNCHANGED <<status, req, cell, word>>
      BY <1>10 DEF Compare
    <3>2. UNCHANGED regs
      BY <1>10 DEF Compare
    <3> QED BY <3>1, <3>2, NextWriteStep DEF Waits
  <2> QED BY <1>10, <2>1 DEF Compare
<1>11. CASE Program
  <2>1. PICK p \in Programs(cell, word) :
          /\ store' = [store EXCEPT ![cell] = p[2]]
          /\ IF p[1] = "OK" THEN task' = "verify" /\ UNCHANGED <<status, req>>
                            ELSE End("write", p[1])
    BY <1>11 DEF Program
  <2>2. p[1] \in Statuses /\ p[2] \in Cells
    BY ProgramType
  <2>3. /\ req' \in [Services -> BOOLEAN] /\ status' \in [Services -> Statuses]
        /\ task' \in Waits \union Tests /\ task' # "fetch"
    BY <2>1, <2>2, EndType DEF Services, Waits
  <2>4. store' \in [Prom -> Cells]
    BY <2>1, <2>2
  <2> QED BY <1>11, <2>3, <2>4 DEF Program
<1>12. CASE Verify
  <2>1. PICK st \in ReadsAs(cell) :
          CASE st # "OK" -> End("write", st) /\ UNCHANGED <<cell, word>>
            [] st = "OK" /\ store[cell] # word ->
                 End("write", "ERROR") /\ UNCHANGED <<cell, word>>
            [] st = "OK" /\ store[cell] = word -> NextWrite
    BY <1>12 DEF Verify
  <2>2. st \in Statuses /\ "ERROR" \in Statuses /\ UNCHANGED regs
    BY <1>12, ReadStatus DEF Statuses, Verify
  <2>3. \/ \E s2 \in Statuses : End("write", s2) /\ UNCHANGED <<cell, word>>
        \/ NextWrite
    BY <2>1, <2>2
  <2>4. /\ req' \in [Services -> BOOLEAN] /\ status' \in [Services -> Statuses]
        /\ task' \in Waits \union Tests /\ task' # "fetch"
        /\ cell' \in Prom /\ word' \in Words
    BY <2>2, <2>3, NextWriteStep, EndType DEF Services
  <2> QED BY <1>12, <2>4 DEF Verify
<1> QED
  BY <1>1, <1>2, <1>3, <1>4, <1>5, <1>6, <1>7, <1>8, <1>9, <1>10, <1>11, <1>12 DEF Task

-----------------------------------------------------------------------------
(* The requests of the host.                                               *)

\* A host asks for a service, or for its status.
Asks(k) ==
  IF ~asked[k]
  THEN /\ req' = [req EXCEPT ![k] = TRUE] /\ asked' = [asked EXCEPT ![k] = TRUE]
       /\ basis' = [basis EXCEPT ![k] = "unserved"]
  ELSE asked' = [asked EXCEPT ![k] = req[k]] /\ UNCHANGED <<req, basis>>

\* What a finished request may have changed.
Effect(q) ==
  /\ packet' = FALSE /\ lock' = FALSE /\ host' = host
  /\ {"to", "is"} \subseteq DOMAIN answer' /\ answer'.to = q
  /\ asked' \in [Services -> BOOLEAN] /\ req' \in [Services -> BOOLEAN]
  /\ basis' \in [Services -> Bases]
  /\ UNCHANGED <<access, granted, store, status, task, cell, word, found, saved>>
  /\ \/ regs' = regs
     \/ \E at \in Nat, xs \in Seq(Words) : regs' = WrittenAll(regs, at, xs, access)
  /\ \/ UNCHANGED <<regs, req, asked, basis>>
     \/ /\ UNCHANGED <<req, asked>>
        /\ basis' = IF \E a \in Prom : regs'[a] # regs[a] THEN Touch(basis) ELSE basis
     \/ UNCHANGED regs /\ \E k \in Services : Asks(k)

LEMMA AnswerType ==
  ASSUME NEW q, NEW what, "is" \in DOMAIN what, Answered(q, what)
  PROVE  /\ packet' = FALSE /\ lock' = FALSE /\ host' = host
         /\ {"to", "is"} \subseteq DOMAIN answer' /\ answer'.to = q
<1>1. answer' = [f \in {"to"} \union DOMAIN what |-> IF f = "to" THEN q ELSE what[f]]
  BY DEF Answered
<1> QED BY <1>1 DEF Answered

LEMMA UnmovedEffect ==
  ASSUME SlaveTypeOK, NEW q, NEW what, "is" \in DOMAIN what, Answered(q, what), Unmoved
  PROVE  Effect(q)
BY AnswerType DEF Effect, Unmoved, settingsVars, SlaveTypeOK, SettingsTypeOK

LEMMA RefusedEffect ==
  ASSUME SlaveTypeOK, NEW q, NEW codes, Refuse(q, codes)
  PROVE  Effect(q)
<1>1. PICK c \in codes : Answered(q, Refused(c)) /\ Unmoved
  BY DEF Refuse
<1>2. "is" \in DOMAIN Refused(c)
  BY DEF Refused
<1> QED BY <1>1, <1>2, UnmovedEffect

LEMMA StoredEffect ==
  ASSUME SlaveTypeOK, NEW q, NEW what, "is" \in DOMAIN what, Answered(q, what),
         NEW at \in Nat, NEW xs \in Seq(Words),
         Stored(WrittenAll(regs, at, xs, access))
  PROVE  Effect(q)
<1>1. basis' \in [Services -> Bases]
  BY TouchType DEF Stored, SlaveTypeOK, SettingsTypeOK
<1> QED BY <1>1, AnswerType DEF Effect, Stored, SlaveTypeOK, SettingsTypeOK

LEMMA DoneIs == "is" \in DOMAIN Done /\ "is" \in DOMAIN Silent
BY DEF Done, Silent

LEMMA WriteOneEffect ==
  ASSUME SlaveTypeOK, NEW q, NEW x \in Words, q.at \in Nat, WriteOne(q, x)
  PROVE  Effect(q)
<1>1. \/ \E codes : Refuse(q, codes)
      \/ Answered(q, Done) /\ Stored(WrittenAll(regs, q.at, <<x>>, access))
  BY DEF WriteOne
<1>2. <<x>> \in Seq(Words)
  OBVIOUS
<1> QED BY <1>1, <1>2, RefusedEffect, StoredEffect, DoneIs

LEMMA HandleEffect ==
  ASSUME SlaveTypeOK, Handle
  PROVE  \E q \in Hosts[host] : Effect(q)
<1>1. PICK q \in Hosts[host] :
        \/ EmptyPacket(q) \/ Short(q) \/ Unknown(q) \/ Report(q)
        \/ ReadRegisters(q) \/ WriteRegister(q) \/ WriteRegisters(q)
        \/ MaskRegister(q) \/ WriteAndRead(q) \/ Describe(q) \/ Eeprom(q)
  BY DEF Handle
<1>2. q \in Forms
  BY RequestsOK DEF SlaveTypeOK
<1>3. /\ q.fn = "write" => q.at \in Nat /\ q.x \in Words
      /\ q.fn = "mask" => q.at \in Nat
      /\ q.fn \in {"multi", "both"} => q.at \in Nat /\ q.xs \in Seq(Words)
      /\ q.fn = "eeprom" => q.service \in Services
  BY <1>2 DEF Forms
<1>4. CASE EmptyPacket(q)
  BY <1>4, UnmovedEffect, DoneIs DEF EmptyPacket
<1>5. CASE Short(q) \/ Unknown(q)
  BY <1>5, RefusedEffect DEF Short, Unknown
<1>6. CASE Report(q)
  BY <1>6, UnmovedEffect, DoneIs DEF Report
<1>7. CASE ReadRegisters(q)
  <2>1. "is" \in DOMAIN Values(q.at, q.n)
    BY DEF Values
  <2> QED BY <1>7, <2>1, UnmovedEffect, RefusedEffect DEF ReadRegisters
<1>8. CASE WriteRegister(q)
  BY <1>3, <1>8, WriteOneEffect DEF WriteRegister
<1>9. CASE WriteRegisters(q)
  <2>1. CASE WriteRange(q) # {}
    BY <1>9, <2>1, RefusedEffect DEF WriteRegisters
  <2>2. CASE WriteRange(q) = {}
    <3> DEFINE what == IF AllTake(q) THEN Done ELSE Refused(FAILURE)
    <3>1. Answered(q, what) /\ Stored(WrittenAll(regs, q.at, q.xs, access))
      BY <1>9, <2>2 DEF WriteRegisters
    <3>2. "is" \in DOMAIN what
      BY DoneIs DEF Refused
    <3>3. q.at \in Nat /\ q.xs \in Seq(Words)
      BY <1>3, <1>9 DEF WriteRegisters
    <3> HIDE DEF what
    <3> QED BY <3>1, <3>2, <3>3, StoredEffect
  <2> QED BY <2>1, <2>2
<1>10. CASE MaskRegister(q)
  BY <1>3, <1>10, WriteOneEffect DEF MaskRegister
<1>11. CASE WriteAndRead(q)
  <2>1. CASE WriteRange(q) # {}
    BY <1>11, <2>1, RefusedEffect DEF WriteAndRead
  <2>2. CASE WriteRange(q) = {}
    <3> DEFINE new == WrittenAll(regs, q.at, q.xs, access)
               bad == IF ~AllTake(q) THEN {FAILURE} ELSE CheckRange(q.from, q.n, MAX_READ)
               got == [is |-> "values", of |-> [i \in 1 .. q.n |-> Read(new, q.from + i - 1)]]
    <3>1. Stored(new) /\ IF bad # {} THEN \E c \in bad : Answered(q, Refused(c))
                                     ELSE Answered(q, got)
      BY <1>11, <2>2 DEF WriteAndRead
    <3>2. "is" \in DOMAIN got /\ \A c : "is" \in DOMAIN Refused(c)
      BY DEF Refused
    <3>3. q.at \in Nat /\ q.xs \in Seq(Words)
      BY <1>3, <1>11 DEF WriteAndRead
    <3>4. \E what : "is" \in DOMAIN what /\ Answered(q, what)
      <4> HIDE DEF bad, got
      <4> QED BY <3>1, <3>2
    <3> QED BY <3>1, <3>3, <3>4, StoredEffect
  <2> QED BY <2>1, <2>2
<1>12. CASE Describe(q)
  <2> DEFINE p == Packed(q.meta, q.at, q.n)
  <2>1. \/ \E codes : Refuse(q, codes)
        \/ Answered(q, Done) /\ Unmoved
        \/ Answered(q, [is |-> "described", len |-> p.len, n |-> p.n]) /\ Unmoved
    BY <1>12 DEF Describe
  <2>2. "is" \in DOMAIN [is |-> "described", len |-> p.len, n |-> p.n]
    OBVIOUS
  <2> QED BY <2>1, <2>2, RefusedEffect, UnmovedEffect, DoneIs
<1>13. CASE Eeprom(q)
  <2> DEFINE k == q.service
             what == [is |-> "status", of |-> IF ~asked[k] \/ req[k] THEN "BUSY" ELSE status[k]]
  <2>1. k \in Services
    BY <1>3, <1>13 DEF Eeprom
  <2>2. "is" \in DOMAIN what /\ Answered(q, what)
    BY <1>13 DEF Eeprom
  <2>3. /\ asked' \in [Services -> BOOLEAN] /\ req' \in [Services -> BOOLEAN]
        /\ basis' \in [Services -> Bases]
    <3>1. CASE ~asked[k]
      BY <1>13, <2>1, <3>1 DEF Eeprom, SlaveTypeOK, SettingsTypeOK, Bases
    <3>2. CASE asked[k]
      BY <1>13, <2>1, <3>2 DEF Eeprom, SlaveTypeOK, SettingsTypeOK
    <3> QED BY <3>1, <3>2
  <2>4. UNCHANGED <<regs, access, granted, store, status, task, cell, word, found, saved>>
    BY <1>13 DEF Eeprom
  <2>5. Asks(k)
    BY <1>13 DEF Eeprom, Asks
  <2> HIDE DEF what
  <2> QED BY <2>1, <2>2, <2>3, <2>4, <2>5, AnswerType DEF Effect
<1> QED
  BY <1>1, <1>4, <1>5, <1>6, <1>7, <1>8, <1>9, <1>10, <1>11, <1>12, <1>13

-----------------------------------------------------------------------------
(* The slave as a whole.                                                   *)

SlaveInv == SlaveTypeOK /\ LimitsHeld /\ ModeReturned /\ Saved

LEMMA SlaveInvInit == SlaveInit => SlaveInv
<1> SUFFICES ASSUME SlaveInit PROVE SlaveInv
  OBVIOUS
<1> USE DEF SlaveInit, SettingsInit
<1>1. \A p : ModeOf(p) \in Modes
  BY DEF ModeOf, Modes, USER, ENGINEER, FACTORY
<1>2. granted \in Modes /\ access \in Modes /\ USER \in Modes
  BY <1>1 DEF Modes, USER, FACTORY
<1>3. First \in Prom
  BY FirstCell
<1>4. store \in [Prom -> Cells] /\ regs \in [Addrs -> Words] /\ LimitsHeld
  BY SettingsOK DEF LimitsHeld
<1>5. 0 \in Words
  BY WordFacts DEF Words
<1>6. /\ Still \in [Services -> BOOLEAN] /\ status \in [Services -> Statuses]
      /\ basis \in [Services -> Bases]
  BY DEF Still, Statuses, Bases
<1>7. SettingsTypeOK
  BY <1>2, <1>3, <1>4, <1>5, <1>6 DEF SettingsTypeOK, Waits
<1>8. SlaveTypeOK
  BY <1>6, <1>7 DEF SlaveTypeOK, Nothing
<1> QED
  BY <1>4, <1>8 DEF SlaveInv, ModeReturned, Saved, Restoring

LEMMA SlaveInvStep == SlaveInv /\ [SlaveNext]_slaveVars => SlaveInv'
<1> SUFFICES ASSUME SlaveInv, [SlaveNext]_slaveVars PROVE SlaveInv'
  OBVIOUS
<1> USE DEF SlaveInv
<1>1. CASE Take
  BY <1>1 DEF Take, settingsVars, SlaveTypeOK, SettingsTypeOK, LimitsHeld, ModeReturned,
              Saved, Restoring
<1>2. CASE Handle
  <2>1. PICK q \in Hosts[host] : Effect(q)
    BY <1>2, HandleEffect
  <2>2. regs' \in [Addrs -> Words] /\ LimitsHeld'
    BY <2>1, WrittenAllOK DEF Effect, SlaveTypeOK, SettingsTypeOK, LimitsHeld
  <2>3. SlaveTypeOK'
    BY <2>1, <2>2 DEF Effect, SlaveTypeOK, SettingsTypeOK
  <2> QED BY <2>1, <2>2, <2>3 DEF Effect, ModeReturned, Saved, Restoring
<1>3. CASE SettingsTask
  <2>1. TaskInv /\ Task /\ UNCHANGED <<packet, lock, asked, answer, host>>
    BY <1>3 DEF SettingsTask, TaskInv, SlaveTypeOK, LimitsHeld, LimitsOf
  <2>2. TaskInv'
    BY <2>1, TaskStep
  <2> QED BY <2>1, <2>2 DEF TaskInv, SlaveTypeOK, LimitsHeld, LimitsOf
<1>4. CASE Restart
  <2> USE <1>4 DEF Restart
  <2>1. regs' \in [Addrs -> Words] /\ LimitsHeld'
    BY SettingsOK DEF LimitsHeld
  <2>2. access' \in Modes /\ granted' \in Modes /\ saved' \in Modes
    BY DEF SlaveTypeOK, SettingsTypeOK, Modes, USER, FACTORY
  <2>3. /\ req' \in [Services -> BOOLEAN] /\ status' \in [Services -> Statuses]
        /\ asked' \in [Services -> BOOLEAN] /\ basis' \in [Services -> Bases]
    BY DEF Still, Statuses, Bases
  <2>4. store' \in [Prom -> Cells] /\ word' \in Words /\ cell' \in Prom
    BY WordFacts, FirstCell DEF SlaveTypeOK, SettingsTypeOK, Words
  <2>5. SettingsTypeOK'
    BY <2>1, <2>2, <2>3, <2>4 DEF SettingsTypeOK, Waits
  <2>6. SlaveTypeOK'
    BY <2>3, <2>5 DEF SlaveTypeOK, Nothing
  <2> QED BY <2>1, <2>6 DEF ModeReturned, Saved, Restoring
<1>5. CASE UNCHANGED slaveVars
  BY <1>5 DEF slaveVars, settingsVars, SlaveTypeOK, SettingsTypeOK, LimitsHeld, ModeReturned,
              Saved, Restoring
<1> QED
  BY <1>1, <1>2, <1>3, <1>4, <1>5 DEF SlaveNext

\* The variables of the registers, the EEPROM task and the requests keep their
\* types, the registers their limits, and outside a restore the access is the
\* one the password granted.
THEOREM SlaveInvariant == SlaveSpec => []SlaveInv
BY SlaveInvInit, SlaveInvStep, PTL DEF SlaveSpec

\* A register is inside its limits after any requests of the host, any restore
\* from a chip with any contents, and a restart in the middle of it.
THEOREM LimitsHeldCorrect == SlaveSpec => []LimitsHeld
<1>1. SlaveInv => LimitsHeld
  BY DEF SlaveInv
<1> QED BY <1>1, SlaveInvariant, PTL

\* Every way out of a restore gives back the access it took: outside one, the
\* host has what the password granted.
THEOREM ModeReturnedCorrect == SlaveSpec => []ModeReturned
<1>1. SlaveInv => ModeReturned
  BY DEF SlaveInv
<1> QED BY <1>1, SlaveInvariant, PTL

\* A register above the access the password granted changes only while a
\* restore is under way, or as the program starts anew.
THEOREM AccessHeldCorrect == SlaveSpec => AccessHeld
<1> DEFINE Kept == \A a \in Addrs :
                     regs'[a] # regs[a] /\ ~Open(a, granted) => Restoring \/ Restart
<1>1. SlaveInv /\ [SlaveNext]_slaveVars => [Kept]_slaveVars
  <2> SUFFICES ASSUME SlaveInv, SlaveNext, ~Restart, ~Restoring,
                      NEW a \in Addrs, ~Open(a, granted)
               PROVE  regs'[a] = regs[a]
    OBVIOUS
  <2>1. CASE Take
    BY <2>1 DEF Take, settingsVars
  <2>2. CASE Handle
    <3>1. PICK q \in Hosts[host] : Effect(q)
      BY <2>2, HandleEffect DEF SlaveInv
    <3>2. access = granted /\ regs \in [Addrs -> Words]
      BY DEF SlaveInv, ModeReturned, SlaveTypeOK, SettingsTypeOK
    <3> QED BY <3>1, <3>2, WrittenAllOK DEF Effect
  <2>3. CASE SettingsTask
    <3>1. TaskInv /\ Task
      BY <2>3 DEF SettingsTask, SlaveInv, TaskInv, SlaveTypeOK, LimitsHeld, LimitsOf
    <3> QED BY <3>1, TaskStep
  <2> QED BY <2>1, <2>2, <2>3 DEF SlaveNext
<1> QED BY <1>1, SlaveInvariant, PTL DEF SlaveSpec, AccessHeld

-----------------------------------------------------------------------------
(* What a status tells. The invariant: a service under way was asked for   *)
(* and is the only one nothing has disturbed; its loop has done every cell *)
(* before the one it is at.                                                *)

Serving(k) ==
  CASE k = "erase" -> task = "wipe"
    [] k = "read"  -> task = "fetch"
    [] k = "write" -> task \in {"compare", "program", "verify"}

\* What the loops have done when they are at cell c.
Restored(c) ==
  \A a \in Prom : a < c => /\ store[a] # Alien
                           /\ store[a] # Blank =>
                                regs[a] = Written(a, regs[a], store[a], FACTORY)
Kept(c) == \A a \in Prom : a < c => store[a] = regs[a]

Requested   == \A k \in Services : req[k] => asked[k]
ServedAsked == \A k \in Services : Serving(k) => req[k] /\ basis[k] # "unserved"
Alone       == \A k, j \in Services : Serving(k) /\ j # k => basis[j] # "kept"
Reading     == Serving("read") /\ basis["read"] = "kept" => Restored(cell)
Writing     == Serving("write") /\ basis["write"] = "kept" => word = regs[cell] /\ Kept(cell)
StatusInv   == Requested /\ ServedAsked /\ Alone /\ Reading /\ Writing /\ StatusTrue

\* A status rests on the cells and on the registers kept in them only.
LEMMA ToldSame ==
  ASSUME NEW k \in Services, ToldTrue(k), status'[k] = status[k], store' = store,
         \A a \in Prom : regs'[a] = regs[a]
  PROVE  ToldTrue(k)'
BY DEF ToldTrue

\* Nothing that a status speaks of changes, and no service begins or goes on.
LEMMA QuietStep ==
  ASSUME SlaveTypeOK, StatusInv, UNCHANGED <<store, task, cell, word, status>>,
         \A a \in Prom : regs'[a] = regs[a],
         \/ UNCHANGED <<req, asked, basis>>
         \/ \E k \in Services : Asks(k)
  PROVE  StatusInv'
<1> USE DEF StatusInv
<1>1. \A k \in Services : Serving(k)' = Serving(k)
  BY DEF Serving
<1>2. \A c : Restored(c)' = Restored(c) /\ Kept(c)' = Kept(c)
  BY DEF Restored, Kept
<1>3. \A k \in Services : ToldTrue(k) => ToldTrue(k)'
  BY ToldSame
<1>4. CASE UNCHANGED <<req, asked, basis>>
  <2>1. Requested' /\ ServedAsked' /\ Alone'
    BY <1>1, <1>4 DEF Requested, ServedAsked, Alone
  <2>2. cell \in Prom
    BY DEF SlaveTypeOK, SettingsTypeOK
  <2>3. Reading' /\ Writing'
    BY <1>1, <1>2, <1>4, <2>2 DEF Reading, Writing, Services
  <2>4. StatusTrue'
    BY <1>3, <1>4 DEF StatusTrue
  <2> QED BY <2>1, <2>3, <2>4
<1>5. CASE \E k \in Services : Asks(k)
  <2> PICK k \in Services : Asks(k)
    BY <1>5
  <2>1. CASE ~asked[k]
    <3>1. /\ req' = [req EXCEPT ![k] = TRUE] /\ asked' = [asked EXCEPT ![k] = TRUE]
          /\ basis' = [basis EXCEPT ![k] = "unserved"]
      BY <2>1 DEF Asks
    <3>2. ~Serving(k) /\ ~req[k]
      BY <2>1 DEF Requested, ServedAsked
    <3>3. \A j \in Services : j # k => req'[j] = req[j] /\ asked'[j] = asked[j]
                                       /\ basis'[j] = basis[j]
      BY <3>1
    <3>4. req'[k] /\ asked'[k] /\ basis'[k] = "unserved"
      BY <3>1 DEF SlaveTypeOK, SettingsTypeOK
    <3>5. Requested' /\ ServedAsked'
      BY <1>1, <3>2, <3>3, <3>4 DEF Requested, ServedAsked
    <3>6. Alone'
      BY <1>1, <3>2, <3>3, <3>4 DEF Alone
    <3>7. cell \in Prom
      BY DEF SlaveTypeOK, SettingsTypeOK
    <3>8. Reading' /\ Writing'
      BY <1>1, <1>2, <3>2, <3>3, <3>4, <3>7 DEF Reading, Writing, Services
    <3>9. StatusTrue'
      BY <1>3, <3>3, <3>4 DEF StatusTrue
    <3> QED BY <3>5, <3>6, <3>8, <3>9
  <2>2. CASE asked[k]
    <3>1. asked' = [asked EXCEPT ![k] = req[k]] /\ UNCHANGED <<req, basis>>
      BY <2>2 DEF Asks
    <3>2. /\ asked'[k] = req[k]
          /\ \A j \in Services : j # k => asked'[j] = asked[j]
      BY <3>1 DEF SlaveTypeOK
    <3>3. Requested' /\ ServedAsked' /\ Alone'
      BY <1>1, <3>1, <3>2 DEF Requested, ServedAsked, Alone
    <3>4. cell \in Prom
      BY DEF SlaveTypeOK, SettingsTypeOK
    <3>5. Reading' /\ Writing'
      BY <1>1, <1>2, <3>1, <3>4 DEF Reading, Writing, Services
    <3>6. StatusTrue'
      BY <1>3, <3>1, <3>2 DEF StatusTrue
    <3> QED BY <3>3, <3>5, <3>6
  <2> QED BY <2>1, <2>2
<1> QED BY <1>4, <1>5

LEMMA TouchFacts ==
  ASSUME NEW b \in [Services -> Bases]
  PROVE  \A k \in Services : /\ Touch(b)[k] # "kept"
                             /\ Touch(b)[k] = "unserved" <=> b[k] = "unserved"
BY DEF Touch, Bases

\* A host's write to a register kept in EEPROM touches every service.
LEMMA TouchedStep ==
  ASSUME SlaveTypeOK, StatusInv, UNCHANGED <<store, task, cell, word, status, req, asked>>,
         basis' = Touch(basis)
  PROVE  StatusInv'
<1>1. \A k \in Services : Serving(k)' = Serving(k)
  BY DEF Serving
<1>2. \A k \in Services : /\ basis'[k] # "kept"
                          /\ basis'[k] = "unserved" <=> basis[k] = "unserved"
  BY TouchFacts DEF SlaveTypeOK, SettingsTypeOK
<1> QED
  BY <1>1, <1>2 DEF StatusInv, Requested, ServedAsked, Alone, Reading, Writing, StatusTrue, Services

\* A service begins: the others are touched.
LEMMA BeginStep ==
  ASSUME SlaveTypeOK, StatusInv, UNCHANGED <<req, asked>>, NEW k \in Services, req[k], Begun(k),
         \A j \in Services : Serving(j)' <=> j = k,
         cell' \in Prom, Reading', Writing'
  PROVE  StatusInv'
<1>1. \A j \in Services : /\ j # k => basis'[j] # "kept"
                          /\ j # k => (basis'[j] = "unserved" <=> basis[j] = "unserved")
                          /\ j = k => basis'[j] = "kept"
  BY TouchFacts DEF Begun, SlaveTypeOK, SettingsTypeOK, Touch
<1>2. Requested' /\ ServedAsked' /\ Alone'
  BY <1>1 DEF StatusInv, Requested, ServedAsked, Alone
<1>3. StatusTrue'
  BY <1>1 DEF StatusInv, StatusTrue
<1> QED BY <1>2, <1>3 DEF StatusInv

\* A service ends: what it tells must be true.
LEMMA EndStep ==
  ASSUME SlaveTypeOK, StatusInv, UNCHANGED <<asked, basis>>, NEW k \in Services, Serving(k),
         NEW st \in Statuses, End(k, st),
         basis[k] = "kept" => ToldTrue(k)'
  PROVE  StatusInv'
<1>1. /\ ~req'[k]
      /\ \A j \in Services : j # k => req'[j] = req[j]
  BY DEF End, SlaveTypeOK, SettingsTypeOK
<1>2. \A j \in Services : ~Serving(j)'
  BY DEF End, Serving, Following, Services
<1>3. basis[k] # "unserved" /\ \A j \in Services : j # k => basis[j] # "kept"
  BY DEF StatusInv, ServedAsked, Alone
<1>4. Requested' /\ ServedAsked' /\ Alone' /\ Reading' /\ Writing'
  BY <1>1, <1>2 DEF StatusInv, Requested, ServedAsked, Alone, Reading, Writing, Services
<1>5. StatusTrue'
  BY <1>1, <1>3 DEF StatusInv, StatusTrue
<1> QED BY <1>4, <1>5 DEF StatusInv

\* A service goes on.
LEMMA GoOnStep ==
  ASSUME SlaveTypeOK, StatusInv, UNCHANGED <<req, asked, basis>>, NEW k \in Services, Serving(k),
         \A j \in Services : Serving(j)' = Serving(j),
         Reading', Writing'
  PROVE  StatusInv'
<1>1. req[k] /\ \A j \in Services : j # k => basis[j] # "kept"
  BY DEF StatusInv, ServedAsked, Alone
<1>2. Requested' /\ ServedAsked' /\ Alone'
  BY DEF StatusInv, Requested, ServedAsked, Alone
<1>3. StatusTrue'
  BY <1>1 DEF StatusInv, StatusTrue
<1> QED BY <1>2, <1>3 DEF StatusInv

\* The loops advance: what holds before the next cell held before this one and
\* at it.
LEMMA Advanced ==
  ASSUME NEW c \in Prom, NEW a \in Prom, ~Last(c), a < Next1(c)
  PROVE  a < c \/ a = c
<1>1. Next1(c) \in Prom /\ \A b \in Prom : b > c => Next1(c) <= b
  BY NextCell
<1>2. a \in Nat /\ c \in Nat /\ Next1(c) \in Nat
  BY <1>1, PromFacts
<1> QED BY <1>1, <1>2

LEMMA AtLast ==
  ASSUME NEW c \in Prom, NEW a \in Prom, Last(c)
  PROVE  a < c \/ a = c
BY PromFacts DEF Last

\* Writing the same word twice is writing it once.
LEMMA WrittenTwice ==
  ASSUME NEW a, NEW w, NEW x, NEW mode
  PROVE  Written(a, Written(a, w, x, mode), x, mode) = Written(a, w, x, mode)
BY DEF Written

\* The store's loop goes on after a cell that holds its register's word.
LEMMA NextWriteStatus ==
  ASSUME SlaveTypeOK, StatusInv, Serving("write"), NextWrite, store[cell] = word,
         UNCHANGED <<regs, store, asked, basis>>
  PROVE  StatusInv'
<1>1. basis["write"] = "kept" => \A a \in Prom : a < cell \/ a = cell => store[a] = regs[a]
  BY DEF StatusInv, Writing, Kept
<1>2. cell \in Prom /\ "write" \in Services /\ "OK" \in Statuses
  BY DEF SlaveTypeOK, SettingsTypeOK, Services, Statuses
<1>3. CASE Last(cell)
  <2>1. End("write", "OK")
    BY <1>3 DEF NextWrite
  <2>2. basis["write"] = "kept" => \A a \in Prom : store[a] = regs[a]
    BY <1>1, <1>2, <1>3, AtLast
  <2>3. basis["write"] = "kept" => ToldTrue("write")'
    BY <2>2 DEF ToldTrue
  <2> QED BY <1>2, <2>1, <2>3, EndStep
<1>4. CASE ~Last(cell)
  <2>1. /\ cell' = Next1(cell) /\ word' = regs[Next1(cell)] /\ task' = "compare"
        /\ UNCHANGED <<status, req>>
    BY <1>4 DEF NextWrite
  <2>2. basis["write"] = "kept" => \A a \in Prom : a < Next1(cell) => store[a] = regs[a]
    BY <1>1, <1>2, <1>4, Advanced
  <2>3. \A j \in Services : Serving(j)' = Serving(j)
    BY <2>1 DEF Serving, Services
  <2>4. Reading' /\ Writing'
    BY <2>1, <2>2 DEF Serving, Reading, Writing, Kept
  <2> QED BY <1>2, <2>1, <2>3, <2>4, GoOnStep
<1> QED BY <1>3, <1>4

\* A step of the EEPROM task keeps what the statuses tell.
LEMMA StatusTaskStep ==
  ASSUME SlaveInv, StatusInv, Task, UNCHANGED asked
  PROVE  StatusInv'
<1>0. SlaveTypeOK /\ cell \in Prom /\ {"erase", "read", "write"} \subseteq Services
  BY DEF SlaveInv, SlaveTypeOK, SettingsTypeOK, Services
<1>1. CASE Wake \/ Skip
  <2>1. \A k \in Services : ~Serving(k) /\ ~Serving(k)'
    BY <1>1 DEF Wake, Skip, Serving, Following, Tests, Services
  <2>2. UNCHANGED <<regs, store, req, status, basis>>
    BY <1>1 DEF Wake, Skip
  <2>3. \A k \in Services : ToldTrue(k) => ToldTrue(k)'
    BY <2>2, ToldSame
  <2>4. Requested' /\ ServedAsked' /\ Alone' /\ Reading' /\ Writing'
    BY <1>0, <2>1, <2>2 DEF StatusInv, Requested, ServedAsked, Alone, Reading, Writing
  <2> QED BY <2>2, <2>3, <2>4 DEF StatusInv, StatusTrue
<1>2. CASE BeginErase
  <2>1. \A j \in Services : Serving(j)' <=> j = "erase"
    BY <1>2 DEF BeginErase, Serving, Services
  <2>2. Reading' /\ Writing'
    BY <1>2 DEF BeginErase, Reading, Writing, Serving
  <2> QED BY <1>0, <1>2, <2>1, <2>2, BeginStep DEF BeginErase
<1>3. CASE BeginRead
  <2>1. \A j \in Services : Serving(j)' <=> j = "read"
    BY <1>3 DEF BeginRead, Serving, Services
  <2>2. ~(\E a \in Prom : a < First) /\ First \in Prom
    BY FirstCell, PromFacts
  <2>3. Reading' /\ Writing'
    BY <1>3, <2>2 DEF BeginRead, Reading, Writing, Serving, Restored
  <2> QED BY <1>0, <1>3, <2>1, <2>2, <2>3, BeginStep DEF BeginRead
<1>4. CASE BeginWrite
  <2>1. \A j \in Services : Serving(j)' <=> j = "write"
    BY <1>4 DEF BeginWrite, Serving, Services
  <2>2. ~(\E a \in Prom : a < First) /\ First \in Prom
    BY FirstCell, PromFacts
  <2>3. Reading' /\ Writing'
    BY <1>4, <2>2 DEF BeginWrite, Reading, Writing, Serving, Kept
  <2> QED BY <1>0, <1>4, <2>1, <2>2, <2>3, BeginStep DEF BeginWrite
<1>5. CASE Wipe
  <2>1. PICK st \in Statuses :
          End("erase", st) /\ (st = "OK" => store' = [a \in Prom |-> Blank])
    BY <1>5 DEF Wipe, Broken, Statuses
  <2>2. ToldTrue("erase")'
    <3>1. status'["erase"] = st
      BY <1>0, <2>1 DEF End, SlaveTypeOK, SettingsTypeOK
    <3> QED BY <2>1, <3>1 DEF ToldTrue, Blank
  <2> QED BY <1>0, <1>5, <2>1, <2>2, EndStep DEF Wipe, Serving
<1>6. CASE Fetched
  <2>1. store[cell] \in Words /\ cell \in Addrs /\ access = FACTORY
    BY <1>0, <1>6, CellWord, PromFacts DEF Fetched, SlaveTypeOK, SlaveInv, ModeReturned, Restoring
  <2>2. regs' = [regs EXCEPT ![cell] = Written(cell, regs[cell], store[cell], FACTORY)]
    BY <1>6, <2>1 DEF Fetched
  <2>3. /\ regs'[cell] = Written(cell, regs'[cell], store[cell], FACTORY)
        /\ \A a \in Prom : a # cell => regs'[a] = regs[a]
    BY <1>0, <2>1, <2>2, PromFacts, WrittenTwice DEF SlaveTypeOK, SettingsTypeOK
  <2>4. store[cell] # Alien /\ UNCHANGED <<store, basis>>
    BY <1>6, <2>1, WordFacts DEF Fetched, Words, Alien
  <2>5. basis["read"] = "kept" => \A a \in Prom : a < cell \/ a = cell =>
          /\ store'[a] # Alien
          /\ store'[a] # Blank => regs'[a] = Written(a, regs'[a], store'[a], FACTORY)
    BY <1>0, <1>6, <2>3, <2>4, PromFacts
       DEF StatusInv, Reading, Restored, Fetched, Serving, SlaveTypeOK, SettingsTypeOK
  <2>6. CASE Last(cell)
    <3>1. basis["read"] = "kept" => ToldTrue("read")'
      BY <1>0, <2>5, <2>6, AtLast DEF ToldTrue
    <3> QED BY <1>0, <1>6, <2>6, <3>1, EndStep DEF Fetched, Serving, Statuses
  <2>7. CASE ~Last(cell)
    <3>1. cell' = Next1(cell) /\ UNCHANGED <<status, req, task, basis>>
      BY <1>6, <2>7 DEF Fetched
    <3>2. Reading'
      BY <1>0, <2>5, <2>7, <3>1, Advanced DEF Reading, Restored
    <3>3. Writing' /\ \A j \in Services : Serving(j)' = Serving(j)
      BY <1>6, <3>1 DEF Fetched, Writing, Serving
    <3> QED BY <1>0, <1>6, <3>1, <3>2, <3>3, GoOnStep DEF Serving, Fetched
  <2> QED BY <2>6, <2>7
<1>7. CASE FetchedNone
  <2>1. store[cell] = Blank
    BY <1>7 DEF FetchedNone, ReadsAs, StatusOf, Broken
  <2>2. Blank # Alien
    BY WordFacts DEF Blank, Alien
  <2>3. UNCHANGED <<regs, store, basis>> /\ task = "fetch"
    BY <1>7 DEF FetchedNone
  <2>4. basis["read"] = "kept" => \A a \in Prom : a < cell \/ a = cell =>
          /\ store'[a] # Alien
          /\ store'[a] # Blank => regs'[a] = Written(a, regs'[a], store'[a], FACTORY)
    BY <2>1, <2>2, <2>3 DEF StatusInv, Reading, Restored, Serving
  <2>5. CASE Last(cell)
    <3>1. PICK st \in Statuses : End("read", st)
      BY <1>7, <2>5 DEF FetchedNone, Statuses
    <3>2. basis["read"] = "kept" => ToldTrue("read")'
      BY <1>0, <2>4, <2>5, AtLast DEF ToldTrue, Blank
    <3> QED BY <1>0, <2>3, <3>1, <3>2, EndStep DEF Serving
  <2>6. CASE ~Last(cell)
    <3>1. cell' = Next1(cell) /\ UNCHANGED <<status, req, task, basis>>
      BY <1>7, <2>6 DEF FetchedNone
    <3>2. Reading'
      BY <1>0, <2>4, <2>6, <3>1, Advanced DEF Reading, Restored, Blank
    <3>3. Writing' /\ \A j \in Services : Serving(j)' = Serving(j)
      BY <2>3, <3>1 DEF Writing, Serving
    <3> QED BY <1>0, <2>3, <3>1, <3>2, <3>3, GoOnStep DEF Serving
  <2> QED BY <2>5, <2>6
<1>8. CASE FetchFailed
  <2>1. PICK st \in ReadsAs(cell) \ {"OK", "EMPTY"} : End("read", st)
    BY <1>8 DEF FetchFailed
  <2>2. st \in Statuses
    BY <1>0, <2>1, ReadStatus DEF SlaveTypeOK
  <2>3. ToldTrue("read")'
    <3>1. status'["read"] = st
      BY <1>0, <2>1 DEF End, SlaveTypeOK, SettingsTypeOK
    <3> QED BY <2>1, <3>1 DEF ToldTrue
  <2> QED BY <1>0, <1>8, <2>1, <2>2, <2>3, EndStep DEF FetchFailed, Serving
<1>9. CASE Compare
  <2>1. PICK st \in ReadsAs(cell) :
          IF st = "OK" /\ store[cell] = word
          THEN NextWrite
          ELSE task' = "program" /\ UNCHANGED <<status, req, cell, word>>
    BY <1>9 DEF Compare
  <2>2. Serving("write") /\ UNCHANGED <<regs, store, asked, basis>>
    BY <1>9 DEF Compare, Serving
  <2>3. CASE st = "OK" /\ store[cell] = word
    BY <1>0, <2>1, <2>2, <2>3, NextWriteStatus
  <2>4. CASE ~(st = "OK" /\ store[cell] = word)
    <3>1. task' = "program" /\ UNCHANGED <<status, req, cell, word>>
      BY <2>1, <2>4
    <3>2. \A j \in Services : Serving(j)' = Serving(j)
      BY <1>9, <3>1 DEF Compare, Serving, Services
    <3>3. Reading' /\ Writing'
      BY <2>2, <3>1 DEF StatusInv, Reading, Writing, Serving, Kept
    <3> QED BY <1>0, <2>2, <3>1, <3>2, <3>3, GoOnStep
  <2> QED BY <2>3, <2>4
<1>10. CASE Program
  <2>1. PICK p \in Programs(cell, word) :
          /\ store' = [store EXCEPT ![cell] = p[2]]
          /\ IF p[1] = "OK" THEN task' = "verify" /\ UNCHANGED <<status, req>>
                            ELSE End("write", p[1])
    BY <1>10 DEF Program
  <2>2. Serving("write") /\ UNCHANGED <<regs, cell, word, asked, basis>> /\ p[1] \in Statuses
    BY <1>0, <1>10, ProgramType DEF Program, Serving, SlaveTypeOK, SettingsTypeOK
  <2>3. CASE p[1] = "OK"
    <3>1. task' = "verify" /\ UNCHANGED <<status, req>>
      BY <2>1, <2>3
    <3>2. \A j \in Services : Serving(j)' = Serving(j)
      BY <1>10, <3>1 DEF Program, Serving, Services
    <3>3. \A a \in Prom : a < cell => store'[a] = store[a]
      BY <1>0, <2>1, PromFacts DEF SlaveTypeOK, SettingsTypeOK
    <3>4. Reading' /\ Writing'
      BY <2>2, <3>1, <3>3 DEF StatusInv, Reading, Writing, Serving, Kept
    <3> QED BY <1>0, <2>2, <3>1, <3>2, <3>4, GoOnStep
  <2>4. CASE p[1] # "OK"
    <3>1. End("write", p[1])
      BY <2>1, <2>4
    <3>2. status'["write"] = p[1]
      BY <1>0, <3>1 DEF End, SlaveTypeOK, SettingsTypeOK
    <3>3. ToldTrue("write")'
      BY <2>4, <3>2 DEF ToldTrue
    <3> QED BY <1>0, <2>2, <3>1, <3>3, EndStep
  <2> QED BY <2>3, <2>4
<1>11. CASE Verify
  <2>1. PICK st \in ReadsAs(cell) :
          CASE st # "OK" -> End("write", st) /\ UNCHANGED <<cell, word>>
            [] st = "OK" /\ store[cell] # word ->
                 End("write", "ERROR") /\ UNCHANGED <<cell, word>>
            [] st = "OK" /\ store[cell] = word -> NextWrite
    BY <1>11 DEF Verify
  <2>2. Serving("write") /\ UNCHANGED <<regs, store, asked, basis>>
    BY <1>11 DEF Verify, Serving
  <2>3. \/ NextWrite /\ store[cell] = word
        \/ \E s2 \in Statuses \ {"OK"} : End("write", s2)
    <3>1. st \in Statuses /\ "ERROR" \in Statuses
      BY <1>0, ReadStatus DEF SlaveTypeOK, Statuses
    <3> QED BY <2>1, <3>1
  <2>4. CASE NextWrite /\ store[cell] = word
    BY <1>0, <2>2, <2>4, NextWriteStatus
  <2>5. CASE \E s2 \in Statuses \ {"OK"} : End("write", s2)
    <3>1. PICK s2 \in Statuses \ {"OK"} : End("write", s2)
      BY <2>5
    <3>2. status'["write"] = s2
      BY <1>0, <3>1 DEF End, SlaveTypeOK, SettingsTypeOK
    <3>3. ToldTrue("write")'
      BY <3>1, <3>2 DEF ToldTrue
    <3> QED BY <1>0, <2>2, <3>1, <3>3, EndStep
  <2> QED BY <2>3, <2>4, <2>5
<1> QED
  BY <1>1, <1>2, <1>3, <1>4, <1>5, <1>6, <1>7, <1>8, <1>9, <1>10, <1>11 DEF Task

LEMMA StatusInit == SlaveInit => StatusInv
BY DEF SlaveInit, SettingsInit, StatusInv, Requested, ServedAsked, Alone, Reading, Writing,
       StatusTrue, Serving, Still, Services

LEMMA StatusStep == SlaveInv /\ StatusInv /\ [SlaveNext]_slaveVars => StatusInv'
<1> SUFFICES ASSUME SlaveInv, StatusInv, [SlaveNext]_slaveVars PROVE StatusInv'
  OBVIOUS
<1>0. SlaveTypeOK
  BY DEF SlaveInv
<1>1. CASE Take \/ UNCHANGED slaveVars
  <2>1. UNCHANGED <<regs, store, task, cell, word, status, req, asked, basis>>
    BY <1>1 DEF Take, slaveVars, settingsVars
  <2> QED BY <1>0, <2>1, QuietStep
<1>2. CASE Handle
  <2>1. PICK q \in Hosts[host] : Effect(q)
    BY <1>0, <1>2, HandleEffect
  <2>2. UNCHANGED <<store, task, cell, word, status>>
    BY <2>1 DEF Effect
  <2>3. CASE UNCHANGED <<regs, req, asked, basis>>
    BY <1>0, <2>2, <2>3, QuietStep
  <2>4. CASE /\ UNCHANGED <<req, asked>>
             /\ basis' = IF \E a \in Prom : regs'[a] # regs[a] THEN Touch(basis) ELSE basis
    <3>1. CASE \E a \in Prom : regs'[a] # regs[a]
      BY <1>0, <2>2, <2>4, <3>1, TouchedStep
    <3>2. CASE ~(\E a \in Prom : regs'[a] # regs[a])
      BY <1>0, <2>2, <2>4, <3>2, QuietStep
    <3> QED BY <3>1, <3>2
  <2>5. CASE UNCHANGED regs /\ \E k \in Services : Asks(k)
    BY <1>0, <2>2, <2>5, QuietStep
  <2> QED BY <2>1, <2>3, <2>4, <2>5 DEF Effect
<1>3. CASE SettingsTask
  BY <1>3, StatusTaskStep DEF SettingsTask
<1>4. CASE Restart
  BY <1>4 DEF Restart, StatusInv, Requested, ServedAsked, Alone, Reading, Writing, StatusTrue,
              Serving, Still, Services
<1> QED
  BY <1>1, <1>2, <1>3, <1>4 DEF SlaveNext

\* A status the host reads is that of a service begun after it asked, and true
\* of the chip and the registers unless they were changed since: for any table,
\* any chip, failing and wearing as it may, and restarts at any moment.
THEOREM StatusTrueCorrect == SlaveSpec => []StatusTrue
<1>1. StatusInv => StatusTrue
  BY DEF StatusInv
<1> QED
  BY <1>1, StatusInit, StatusStep, SlaveInvariant, PTL DEF SlaveSpec

-----------------------------------------------------------------------------
(* What an answer tells of the registers.                                  *)

LEMMA AnswerFields ==
  ASSUME NEW q, NEW what, "is" \in DOMAIN what, "to" \notin DOMAIN what, Answered(q, what)
  PROVE  answer'.to = q /\ \A f \in DOMAIN what : answer'[f] = what[f]
<1>1. answer' = [f \in {"to"} \union DOMAIN what |-> IF f = "to" THEN q ELSE what[f]]
  BY DEF Answered
<1> QED BY <1>1

LEMMA RefusedFields ==
  ASSUME NEW q, NEW c, Answered(q, Refused(c))
  PROVE  answer'.to = q /\ answer'.is = "exception" /\ answer'.code = c
<1>1. DOMAIN Refused(c) = {"is", "code"} /\ Refused(c).is = "exception" /\ Refused(c).code = c
  BY DEF Refused
<1> QED BY <1>1, AnswerFields

LEMMA DoneFields ==
  ASSUME NEW q, Answered(q, Done)
  PROVE  answer'.to = q /\ answer'.is = "done"
<1>1. DOMAIN Done = {"is"} /\ Done.is = "done"
  BY DEF Done
<1> QED BY <1>1, AnswerFields

LEMMA WrittenHolds ==
  ASSUME NEW q, q.at \in Nat, q.xs \in Seq(Words),
         regs' = WrittenAll(regs, q.at, q.xs, access)
  PROVE  Holds(regs', q)
<1> SUFFICES ASSUME NEW a \in Asked(q)
             PROVE  regs'[a] = Written(a, regs'[a], q.xs[a - q.at + 1], access)
  BY DEF Holds
<1>1. a \in Addrs /\ a \in Int /\ a >= q.at /\ a < q.at + Len(q.xs)
  BY DEF Asked, Addrs
<1>2. a \in q.at .. q.at + Len(q.xs) - 1
  BY <1>1
<1>3. regs'[a] = Written(a, regs[a], q.xs[a - q.at + 1], access)
  BY <1>1, <1>2 DEF WrittenAll
<1> QED BY <1>3, WrittenTwice

LEMMA RefusedTold ==
  ASSUME NEW q, NEW codes, Refuse(q, codes), q.fn = "multi" => FAILURE \notin codes
  PROVE  Truthful(q)
<1>1. PICK c \in codes : Answered(q, Refused(c)) /\ Unmoved
  BY DEF Refuse
<1>2. answer'.is = "exception" /\ answer'.code = c
  BY <1>1, RefusedFields
<1>3. q.fn = "multi" => answer' # [to |-> q, is |-> "exception", code |-> FAILURE]
  BY <1>1, <1>2
<1> QED BY <1>1, <1>2, <1>3 DEF Truthful, Unmoved, settingsVars

LEMMA RangeCodes ==
  ASSUME NEW q PROVE FAILURE \notin WriteRange(q)
BY DEF WriteRange, CheckRange, FAILURE, VALUE, ADDRESS

\* An answer that is neither an exception nor the end of a write.
LEMMA OtherTold ==
  ASSUME NEW q, q.fn \notin {"multi", "write", "both"}, answer'.is # "exception"
  PROVE  Truthful(q)
BY DEF Truthful

LEMMA WriteOneTold ==
  ASSUME SlaveTypeOK, NEW q, NEW x \in Words, q.at \in Nat, WriteOne(q, x),
         q.fn \notin {"multi", "both"}, q.fn = "write" => x = q.x
  PROVE  Truthful(q)
<1>1. CASE \E codes : Refuse(q, codes)
  BY <1>1, RefusedTold
<1>2. CASE /\ q.at \in Addrs /\ Takes(q.at, access) /\ Answered(q, Done)
           /\ Stored(WrittenAll(regs, q.at, <<x>>, access))
  <2>1. answer'.is = "done"
    BY <1>2, DoneFields
  <2>2. regs'[q.at] = Written(q.at, regs[q.at], x, access)
    <3>1. q.at \in q.at .. q.at + Len(<<x>>) - 1 /\ <<x>>[q.at - q.at + 1] = x
      BY <1>2 DEF Addrs
    <3> QED BY <1>2, <3>1 DEF Stored, WrittenAll
  <2> QED BY <1>2, <2>1, <2>2, WrittenTwice DEF Truthful
<1> QED BY <1>1, <1>2 DEF WriteOne

LEMMA HandleTold ==
  ASSUME SlaveTypeOK, Handle
  PROVE  Truthful(answer'.to)
<1>1. PICK q \in Hosts[host] :
        \/ EmptyPacket(q) \/ Short(q) \/ Unknown(q) \/ Report(q)
        \/ ReadRegisters(q) \/ WriteRegister(q) \/ WriteRegisters(q)
        \/ MaskRegister(q) \/ WriteAndRead(q) \/ Describe(q) \/ Eeprom(q)
  BY DEF Handle
<1>2. q \in Forms
  BY RequestsOK DEF SlaveTypeOK
<1>3. /\ q.fn = "write" => q.at \in Nat /\ q.x \in Words
      /\ q.fn = "mask" => q.at \in Nat
      /\ q.fn \in {"multi", "both"} => q.at \in Nat /\ q.xs \in Seq(Words)
  BY <1>2 DEF Forms
<1> SUFFICES answer'.to = q => Truthful(q)
  <2>1. \A codes : Refuse(q, codes) => answer'.to = q
    BY RefusedFields DEF Refuse
  <2>2. answer'.to = q
    <3>1. \A what : Answered(q, what) => answer'.to = q
      BY DEF Answered
    <3> QED
      BY <1>1, <2>1, <3>1 DEF EmptyPacket, Short, Unknown, Report, ReadRegisters, WriteRegister,
           WriteRegisters, MaskRegister, WriteOne, WriteAndRead, Describe, Eeprom
  <2> QED BY <2>2
<1>4. CASE EmptyPacket(q) \/ Report(q)
  <2>1. DOMAIN Silent = {"is"} /\ Silent.is = "silent"
    BY DEF Silent
  <2>2. answer'.is # "exception"
    BY <1>4, <2>1, AnswerFields, DoneFields DEF EmptyPacket, Report
  <2> QED BY <1>4, <2>2, OtherTold DEF EmptyPacket, Report
<1>5. CASE Short(q) \/ Unknown(q)
  BY <1>5, RefusedTold DEF Short, Unknown
<1>6. CASE ReadRegisters(q)
  <2>1. CASE \E codes : Refuse(q, codes)
    BY <1>6, <2>1, RefusedTold DEF ReadRegisters
  <2>2. CASE Answered(q, Values(q.at, q.n))
    <3>1. DOMAIN Values(q.at, q.n) = {"is", "of"} /\ Values(q.at, q.n).is = "values"
      BY DEF Values
    <3> QED BY <1>6, <2>2, <3>1, AnswerFields, OtherTold DEF ReadRegisters
  <2> QED BY <1>6, <2>1, <2>2 DEF ReadRegisters
<1>7. CASE WriteRegister(q)
  BY <1>3, <1>7, WriteOneTold DEF WriteRegister
<1>8. CASE MaskRegister(q)
  BY <1>3, <1>8, WriteOneTold DEF MaskRegister
<1>9. CASE WriteRegisters(q)
  <2>1. CASE WriteRange(q) # {}
    BY <1>9, <2>1, RefusedTold, RangeCodes DEF WriteRegisters
  <2>2. CASE WriteRange(q) = {}
    <3>1. Holds(regs', q)
      BY <1>3, <1>9, <2>2, WrittenHolds DEF WriteRegisters, Stored
    <3>2. CASE AllTake(q)
      BY <1>9, <2>2, <3>1, <3>2, DoneFields DEF WriteRegisters, Truthful
    <3>3. CASE ~AllTake(q)
      BY <1>9, <2>2, <3>1, <3>3, RefusedFields DEF WriteRegisters, Truthful
    <3> QED BY <3>2, <3>3
  <2> QED BY <2>1, <2>2
<1>10. CASE WriteAndRead(q)
  <2>1. CASE WriteRange(q) # {}
    BY <1>10, <2>1, RefusedTold DEF WriteAndRead
  <2>2. CASE WriteRange(q) = {}
    <3> DEFINE new == WrittenAll(regs, q.at, q.xs, access)
               bad == IF ~AllTake(q) THEN {FAILURE} ELSE CheckRange(q.from, q.n, MAX_READ)
               got == [is |-> "values", of |-> [i \in 1 .. q.n |-> Read(new, q.from + i - 1)]]
    <3>1. q.fn = "both" /\ Stored(new) /\ IF bad # {} THEN \E c \in bad : Answered(q, Refused(c))
                                                      ELSE Answered(q, got)
      BY <1>10, <2>2 DEF WriteAndRead
    <3>2. regs' = new /\ Holds(regs', q)
      BY <1>3, <3>1, WrittenHolds DEF Stored
    <3>3. CASE bad # {}
      <4>1. answer'.is = "exception"
        <5> HIDE DEF bad
        <5> QED BY <3>1, <3>3, RefusedFields
      <4> QED BY <3>1, <4>1 DEF Truthful
    <3>4. CASE bad = {}
      <4>1. AllTake(q)
        BY <3>4
      <4>2. answer'.is = "values" /\ answer'.of = got.of
        <5>1. DOMAIN got = {"is", "of"} /\ got.is = "values"
          OBVIOUS
        <5> HIDE DEF got, bad
        <5> QED BY <3>1, <3>4, <5>1, AnswerFields
      <4>3. \A i \in 1 .. q.n : answer'.of[i] = Read(regs', q.from + i - 1)
        BY <3>2, <4>2
      <4> QED BY <3>1, <3>2, <4>1, <4>2, <4>3 DEF Truthful
    <3> QED BY <3>3, <3>4
  <2> QED BY <2>1, <2>2
<1>11. CASE Describe(q)
  <2> DEFINE p == Packed(q.meta, q.at, q.n)
             what == [is |-> "described", len |-> p.len, n |-> p.n]
  <2>1. q.fn = "meta" /\ \/ \E codes : Refuse(q, codes)
                         \/ Answered(q, Done)
                         \/ Answered(q, what)
    BY <1>11 DEF Describe
  <2>2. DOMAIN what = {"is", "len", "n"} /\ what.is = "described"
    OBVIOUS
  <2> HIDE DEF what
  <2> QED BY <2>1, <2>2, RefusedTold, DoneFields, AnswerFields, OtherTold
<1>12. CASE Eeprom(q)
  <2> DEFINE k == q.service
             what == [is |-> "status", of |-> IF ~asked[k] \/ req[k] THEN "BUSY" ELSE status[k]]
  <2>1. DOMAIN what = {"is", "of"} /\ what.is = "status"
    OBVIOUS
  <2>2. q.fn = "eeprom" /\ Answered(q, what)
    BY <1>12 DEF Eeprom
  <2> HIDE DEF what
  <2> QED BY <2>1, <2>2, AnswerFields, OtherTold
<1> QED
  BY <1>1, <1>4, <1>5, <1>6, <1>7, <1>8, <1>9, <1>10, <1>11, <1>12

\* What a host is told of a write is so, for every request and every table:
\* after an illegal value or address the registers are as before, but for the
\* read half of a combined request; after a failure one of them has nowhere to
\* go and the others are written; after an acceptance all of them are.
THEOREM WritesToldCorrect == SlaveSpec => WritesTold
<1> DEFINE Finished == packet /\ ~packet' /\ answer'.to # Nothing
<1>1. SlaveInv /\ [SlaveNext]_slaveVars => [Finished => Truthful(answer'.to)]_slaveVars
  <2> SUFFICES ASSUME SlaveInv, SlaveNext, Finished PROVE Truthful(answer'.to)
    OBVIOUS
  <2>1. ~Take /\ ~SettingsTask /\ ~Restart
    BY DEF Take, SettingsTask, Restart
  <2>2. Handle
    BY <2>1 DEF SlaveNext
  <2> QED BY <2>2, HandleTold DEF SlaveInv
<1> QED BY <1>1, SlaveInvariant, PTL DEF SlaveSpec, WritesTold

-----------------------------------------------------------------------------
(* What a list of descriptions comes to. The model adds the descriptions   *)
(* up by recursion over an interval; Recursion and IntervalInduction say   *)
(* of such a definition what it computes, for every length of the list.    *)

LEMMA DescribedType ==
  ASSUME NEW a \in Addrs, NEW meta \in {"names", "types", "limits"}
  PROVE  Described(meta, a) \in Nat
<1>1. Table[a].text \in Nat
  BY RegistersOK DEF Kinds
<1> QED BY <1>1 DEF Described

\* The recursion that adds up the descriptions does so.
LEMMA TotalIs ==
  ASSUME NEW meta \in {"names", "types", "limits"}, NEW at \in Nat, NEW n \in Nat,
         at + n - 1 < Count
  PROVE  /\ Total(meta, at, n) \in [0 .. n -> Nat]
         /\ Total(meta, at, n)[0] = META
         /\ \A k \in 1 .. n : Total(meta, at, n)[k] =
                                Total(meta, at, n)[k - 1] + Described(meta, at + k - 1)
<1> DEFINE size == [k \in 1 .. n |-> Described(meta, at + k - 1)]
           next == [x \in Nat \X (1 .. n) |-> x[1] + size[x[2]]]
           Sum(g) == g = [k \in 0 .. n |-> IF k = 0 THEN META
                                           ELSE g[k - 1] + Described(meta, at + k - 1)]
<1>1. \A k \in 1 .. n : size[k] \in Nat
  <2>1. \A k \in 1 .. n : at + k - 1 \in Addrs
    BY RegistersOK DEF Addrs
  <2> QED BY <2>1, DescribedType
<1>2. next \in [Nat \X (1 .. n) -> Nat]
  <2> HIDE DEF size
  <2> QED BY <1>1
<1>3. PICK g \in [0 .. n -> Nat] : Follows(g, n, META, next)
  <2> HIDE DEF next
  <2>1. META \in Nat
    BY DEF META
  <2> QED BY <1>2, <2>1, Recursion
<1>4. \A k \in 1 .. n : next[<<g[k - 1], k>>] = g[k - 1] + Described(meta, at + k - 1)
  OBVIOUS
<1>5. Sum(g)
  <2> HIDE DEF next, size
  <2>1. \A k \in 0 .. n : g[k] = IF k = 0 THEN META ELSE g[k - 1] + Described(meta, at + k - 1)
    <3> SUFFICES ASSUME NEW k \in 0 .. n
                 PROVE  g[k] = IF k = 0 THEN META ELSE g[k - 1] + Described(meta, at + k - 1)
      OBVIOUS
    <3>1. k # 0 => k \in 1 .. n
      OBVIOUS
    <3> QED BY <1>3, <1>4, <3>1 DEF Follows
  <2>2. g = [k \in 0 .. n |-> g[k]]
    BY <1>3
  <2> QED BY <2>1, <2>2
<1>6. Total(meta, at, n) = CHOOSE f : Sum(f)
  BY DEF Total
<1> DEFINE t == Total(meta, at, n)
<1>7. Sum(t)
  <2> HIDE DEF Sum
  <2> QED BY <1>5, <1>6
<1>8. t[0] = META /\ \A k \in 1 .. n : t[k] = t[k - 1] + Described(meta, at + k - 1)
  <2> HIDE DEF t
  <2> QED BY <1>7
<1>9. \A k \in 0 .. n : t[k] \in Nat
  <2> DEFINE S == {k \in 0 .. n : t[k] \in Nat}
  <2>1. 0 \in S
    BY <1>8 DEF META
  <2>2. \A k \in 1 .. n : k - 1 \in S => k \in S
    BY <1>1, <1>8
  <2> HIDE DEF S, t
  <2>3. 0 .. n \subseteq S
    BY <2>1, <2>2, IntervalInduction
  <2> QED BY <2>3 DEF S
<1>10. t \in [0 .. n -> Nat]
  <2> HIDE DEF t
  <2>1. t = [k \in 0 .. n |-> t[k]]
    BY <1>7
  <2> QED BY <1>9, <2>1
<1> QED BY <1>8, <1>10

\* What a list of k descriptions comes to.
Whole(p, total, k) ==
  /\ p.n \in 0 .. k /\ p.len = total[p.n] /\ p.len <= MAX_PDU
  /\ p.n < k => total[p.n + 1] > MAX_PDU

\* The recursion that packs the descriptions into a packet does so.
LEMMA PackedWhole ==
  ASSUME NEW meta \in {"names", "types", "limits"}, NEW at \in Nat, NEW n \in Nat,
         at + n - 1 < Count
  PROVE  Whole(Packed(meta, at, n), Total(meta, at, n), n)
<1> DEFINE T == [len : Nat, n : Nat]
           size == [k \in 1 .. n |-> Described(meta, at + k - 1)]
           Add(p, k) == IF p.n < k - 1 \/ p.len + size[k] > MAX_PDU THEN p
                        ELSE [len |-> p.len + size[k], n |-> k]
           next == [x \in T \X (1 .. n) |-> Add(x[1], x[2])]
           first == [len |-> META, n |-> 0]
           Packs(g) == g = [k \in 0 .. n |->
             IF k = 0 THEN [len |-> META, n |-> 0]
             ELSE LET p == g[k - 1]
                      end == p.len + Described(meta, at + k - 1)
                  IN IF p.n < k - 1 \/ end > MAX_PDU THEN p ELSE [len |-> end, n |-> k]]
           pack == CHOOSE g : Packs(g)
           total == Total(meta, at, n)
<1>1. \A k \in 1 .. n : size[k] \in Nat /\ size[k] = Described(meta, at + k - 1)
  <2>1. \A k \in 1 .. n : at + k - 1 \in Addrs
    BY RegistersOK DEF Addrs
  <2> QED BY <2>1, DescribedType
<1>2. /\ total[0] = META /\ \A k \in 0 .. n : total[k] \in Nat
      /\ \A k \in 1 .. n : total[k] = total[k - 1] + size[k]
  <2>1. /\ total \in [0 .. n -> Nat] /\ total[0] = META
        /\ \A k \in 1 .. n : total[k] = total[k - 1] + Described(meta, at + k - 1)
    BY TotalIs
  <2> HIDE DEF size, total
  <2> QED BY <1>1, <2>1
<1>3. next \in [T \X (1 .. n) -> T] /\ first \in T
  <2>1. ASSUME NEW p \in T, NEW k \in 1 .. n PROVE Add(p, k) \in T
    <3> HIDE DEF size
    <3> QED BY <1>1
  <2>2. first \in T
    BY DEF META
  <2> HIDE DEF Add, T, first
  <2>3. ASSUME NEW x \in T \X (1 .. n) PROVE Add(x[1], x[2]) \in T
    BY <2>1
  <2> QED BY <2>2, <2>3
<1>4. PICK g \in [0 .. n -> T] : Follows(g, n, first, next)
  <2> HIDE DEF next, first, T
  <2> QED BY <1>3, Recursion
<1>5. /\ g[0] = first
      /\ \A k \in 1 .. n : g[k] = Add(g[k - 1], k)
  <2>1. ASSUME NEW k \in 1 .. n PROVE g[k] = Add(g[k - 1], k)
    <3>1. k \in 0 .. n /\ k # 0 /\ k - 1 \in 0 .. n /\ g[k - 1] \in T
      BY <1>4
    <3> HIDE DEF Add, T, first
    <3>2. g[k] = next[<<g[k - 1], k>>]
      <4> HIDE DEF next
      <4> QED BY <1>4, <3>1 DEF Follows
    <3> QED BY <3>1, <3>2
  <2>2. g[0] = first
    <3>1. 0 \in 0 .. n
      OBVIOUS
    <3> HIDE DEF next, first
    <3> QED BY <1>4, <3>1 DEF Follows
  <2> QED BY <2>1, <2>2
<1>6. Packs(g)
  <2>1. ASSUME NEW k \in 0 .. n
        PROVE  g[k] = IF k = 0 THEN [len |-> META, n |-> 0]
                      ELSE LET p == g[k - 1]
                               end == p.len + Described(meta, at + k - 1)
                           IN IF p.n < k - 1 \/ end > MAX_PDU THEN p
                              ELSE [len |-> end, n |-> k]
    <3>1. CASE k = 0
      BY <1>5, <3>1
    <3>2. CASE k # 0
      <4>1. k \in 1 .. n /\ size[k] = Described(meta, at + k - 1)
        BY <1>1, <3>2
      <4> HIDE DEF size
      <4> QED BY <1>5, <3>2, <4>1
    <3> QED BY <3>1, <3>2
  <2>2. g = [k \in 0 .. n |-> g[k]]
    BY <1>4
  <2> QED BY <2>1, <2>2
<1>7. Packs(pack)
  <2> HIDE DEF Packs
  <2> QED BY <1>6
<1>8. /\ pack[0] = first
      /\ \A k \in 1 .. n : pack[k] = Add(pack[k - 1], k)
  <2> HIDE DEF pack, size
  <2>1. pack[0] = first
    BY <1>7
  <2>2. ASSUME NEW k \in 1 .. n PROVE pack[k] = Add(pack[k - 1], k)
    <3>1. k \in 0 .. n /\ k # 0 /\ size[k] = Described(meta, at + k - 1)
      BY <1>1
    <3> QED BY <1>7, <3>1
  <2> QED BY <2>1, <2>2
<1>9. ASSUME NEW p, NEW k \in 1 .. n, Whole(p, total, k - 1) PROVE Whole(Add(p, k), total, k)
  <2> HIDE DEF total, size
  <2>1. p.n \in 0 .. k - 1 /\ p.len = total[p.n] /\ p.len <= MAX_PDU /\ p.len \in Nat
    BY <1>2, <1>9 DEF Whole
  <2>2. CASE p.n < k - 1
    <3>1. Add(p, k) = p
      BY <2>2
    <3> HIDE DEF Add
    <3>2. Whole(p, total, k)
      <4>1. p.n \in 0 .. k /\ (p.n < k => total[p.n + 1] > MAX_PDU)
        BY <1>9, <2>1, <2>2 DEF Whole
      <4> QED BY <2>1, <4>1 DEF Whole
    <3> QED BY <3>1, <3>2
  <2>3. CASE ~(p.n < k - 1)
    <3>1. p.n = k - 1 /\ total[k] = p.len + size[k] /\ size[k] \in Nat
      <4>1. p.n = k - 1
        BY <2>1, <2>3
      <4> QED BY <1>1, <1>2, <2>1, <4>1
    <3>2. CASE p.len + size[k] > MAX_PDU
      <4>1. Add(p, k) = p /\ p.n + 1 = k
        BY <3>1, <3>2
      <4> HIDE DEF Add
      <4> QED BY <2>1, <3>1, <3>2, <4>1 DEF Whole
    <3>3. CASE ~(p.len + size[k] > MAX_PDU)
      <4>1. Add(p, k) = [len |-> total[k], n |-> k]
        BY <3>1, <3>3
      <4>2. total[k] <= MAX_PDU
        BY <2>1, <3>1, <3>3, RequestsOK
      <4> HIDE DEF Add
      <4> QED BY <4>1, <4>2 DEF Whole
    <3> QED BY <3>2, <3>3
  <2> QED BY <2>2, <2>3
<1>10. \A k \in 0 .. n : Whole(pack[k], total, k)
  <2> DEFINE S == {k \in 0 .. n : Whole(pack[k], total, k)}
  <2> HIDE DEF pack, total
  <2>1. 0 \in S
    <3>1. Whole(first, total, 0)
      BY <1>2, RequestsOK DEF Whole
    <3> HIDE DEF first
    <3> QED BY <1>8, <3>1
  <2>2. \A k \in 1 .. n : k - 1 \in S => k \in S
    <3> HIDE DEF Add
    <3> QED BY <1>8, <1>9
  <2> HIDE DEF S
  <2>3. 0 .. n \subseteq S
    BY <2>1, <2>2, IntervalInduction
  <2> QED BY <2>3 DEF S
<1>11. Packed(meta, at, n) = pack[n]
  BY DEF Packed
<1> HIDE DEF pack
<1> QED BY <1>10, <1>11

LEMMA DescribeWhole ==
  ASSUME NEW q \in Forms, Describe(q)
  PROVE  DescribedWhole'
<1> DEFINE p == Packed(q.meta, q.at, q.n)
           total == Total(q.meta, q.at, q.n)
           what == [is |-> "described", len |-> p.len, n |-> p.n]
<1>1. CASE \E codes : Refuse(q, codes)
  <2>1. answer'.is = "exception"
    BY <1>1, RefusedFields DEF Refuse
  <2> QED BY <2>1 DEF DescribedWhole
<1>2. CASE Answered(q, Done)
  <2>1. answer'.is = "done"
    BY <1>2, DoneFields
  <2> QED BY <2>1 DEF DescribedWhole
<1>3. CASE /\ Answered(q, what) /\ CheckRange(q.at, q.n, MAX_READ) = {}
           /\ q.meta \in {"names", "types", "limits"}
  <2>1. q.at \in Nat /\ q.n \in Nat
    BY DEF Describe, Forms
  <2>2. q.at + q.n - 1 < Count
    <3>1. {q.at, q.at + q.n - 1} \subseteq Addrs
      BY <1>3 DEF CheckRange
    <3> QED BY <2>1, <3>1, RegistersOK DEF Addrs
  <2>3. Whole(p, total, q.n)
    BY <1>3, <2>1, <2>2, PackedWhole
  <2>4. answer'.to = q /\ answer'.len = p.len /\ answer'.n = p.n
    <3>1. DOMAIN what = {"is", "len", "n"} /\ what.len = p.len /\ what.n = p.n
      OBVIOUS
    <3> HIDE DEF what, p
    <3> QED BY <1>3, <3>1, AnswerFields
  <2> HIDE DEF p, total
  <2>5. /\ answer'.len = total[answer'.n] /\ answer'.len <= MAX_PDU
        /\ answer'.n < q.n => total[answer'.n + 1] > MAX_PDU
    BY <2>3, <2>4 DEF Whole
  <2> QED BY <2>4, <2>5 DEF DescribedWhole, total
<1> QED BY <1>1, <1>2, <1>3 DEF Describe

LEMMA HandleDescribed ==
  ASSUME SlaveTypeOK, Handle
  PROVE  DescribedWhole'
<1>1. PICK q \in Hosts[host] :
        \/ EmptyPacket(q) \/ Short(q) \/ Unknown(q) \/ Report(q)
        \/ ReadRegisters(q) \/ WriteRegister(q) \/ WriteRegisters(q)
        \/ MaskRegister(q) \/ WriteAndRead(q) \/ Describe(q) \/ Eeprom(q)
  BY DEF Handle
<1>2. q \in Forms
  BY RequestsOK DEF SlaveTypeOK
<1>3. CASE Describe(q)
  BY <1>2, <1>3, DescribeWhole
<1>4. CASE \E codes : Refuse(q, codes)
  <2>1. answer'.is = "exception"
    BY <1>4, RefusedFields DEF Refuse
  <2> QED BY <2>1 DEF DescribedWhole
<1>5. CASE \E what : /\ Answered(q, what) /\ "is" \in DOMAIN what /\ "to" \notin DOMAIN what
                     /\ what.is # "described"
  <2>1. answer'.is # "described"
    BY <1>5, AnswerFields
  <2> QED BY <2>1 DEF DescribedWhole
<1> DEFINE Other(what) == /\ "is" \in DOMAIN what /\ "to" \notin DOMAIN what
                          /\ what.is # "described"
<1>6. Other(Silent) /\ Other(Done) /\ \A c : Other(Refused(c))
  BY DEF Silent, Done, Refused
<1>7. ASSUME NEW x, WriteOne(q, x) PROVE DescribedWhole'
  BY <1>4, <1>5, <1>6, <1>7 DEF WriteOne
<1>8. CASE EmptyPacket(q) \/ Short(q) \/ Unknown(q) \/ Report(q)
  BY <1>4, <1>5, <1>6, <1>8 DEF EmptyPacket, Short, Unknown, Report
<1>9. CASE ReadRegisters(q)
  <2>1. Other(Values(q.at, q.n))
    BY DEF Values
  <2> QED BY <1>4, <1>5, <1>9, <2>1 DEF ReadRegisters
<1>10. CASE WriteRegister(q) \/ MaskRegister(q)
  BY <1>7, <1>10 DEF WriteRegister, MaskRegister
<1>11. CASE WriteRegisters(q)
  BY <1>4, <1>5, <1>6, <1>11 DEF WriteRegisters
<1>12. CASE WriteAndRead(q)
  <2> DEFINE new == WrittenAll(regs, q.at, q.xs, access)
             bad == IF ~AllTake(q) THEN {FAILURE} ELSE CheckRange(q.from, q.n, MAX_READ)
             got == [is |-> "values", of |-> [i \in 1 .. q.n |-> Read(new, q.from + i - 1)]]
  <2>1. CASE WriteRange(q) # {}
    BY <1>4, <1>12, <2>1 DEF WriteAndRead
  <2>2. CASE WriteRange(q) = {}
    <3>1. IF bad # {} THEN \E c \in bad : Answered(q, Refused(c)) ELSE Answered(q, got)
      BY <1>12, <2>2 DEF WriteAndRead
    <3>2. Other(got)
      OBVIOUS
    <3> HIDE DEF bad, got
    <3> QED BY <1>5, <1>6, <3>1, <3>2
  <2> QED BY <2>1, <2>2
<1>13. CASE Eeprom(q)
  <2> DEFINE k == q.service
             what == [is |-> "status", of |-> IF ~asked[k] \/ req[k] THEN "BUSY" ELSE status[k]]
  <2>1. Other(what)
    OBVIOUS
  <2>2. Answered(q, what)
    BY <1>13 DEF Eeprom
  <2> HIDE DEF what
  <2> QED BY <1>5, <2>1, <2>2
<1> QED
  BY <1>1, <1>3, <1>8, <1>9, <1>10, <1>11, <1>12, <1>13

\* A list of descriptions is whole and inside the packet, for every table of
\* registers, however long their names, and every length of a packet.
THEOREM DescribedWholeCorrect == SlaveSpec => []DescribedWhole
<1>1. SlaveInit => DescribedWhole
  BY DEF SlaveInit, DescribedWhole
<1>2. SlaveInv /\ DescribedWhole /\ [SlaveNext]_slaveVars => DescribedWhole'
  <2> SUFFICES ASSUME SlaveInv, DescribedWhole, [SlaveNext]_slaveVars PROVE DescribedWhole'
    OBVIOUS
  <2>1. CASE Handle
    BY <2>1, HandleDescribed DEF SlaveInv
  <2>2. CASE Restart
    BY <2>2 DEF Restart, DescribedWhole
  <2>3. CASE UNCHANGED answer
    BY <2>3 DEF DescribedWhole
  <2> QED BY <2>1, <2>2, <2>3 DEF SlaveNext, Take, SettingsTask, slaveVars
<1> QED BY <1>1, <1>2, SlaveInvariant, PTL DEF SlaveSpec
=============================================================================
