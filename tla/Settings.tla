------------------------------- MODULE Settings -------------------------------
(***************************************************************************)
(* The settings in EEPROM (modbus_eeprom.c): a protothread that serves the *)
(* requests to erase, read or write all registers marked PROM, one after   *)
(* the other. It goes from one call of the driver to the next and may      *)
(* yield in each of them. The driver and its chip are not in src/ but for  *)
(* eeprom_dummy.c, which finds no chip.                                    *)
(***************************************************************************)
EXTENDS Registers

CONSTANTS
  Polled,      \* whether the main loop calls modbus_eeprom_task
  Chip,        \* whether the driver finds a chip; eeprom_dummy.c does not
  Faulty,      \* whether the chip may fail or have worn cells
  Defaults,    \* the registers as the program starts
  Passwords,   \* the values modbus1_password may be built with
  Shipped      \* what the chip may hold when it is first used

VARIABLES
  regs,        \* the registers
  access,      \* modbus_regs_mode
  granted,     \* the mode modbus_regs_enter_password set at the start
  store,       \* the chip's cells
  req,         \* modbus_eeprom_*_all_request
  status,      \* modbus_eeprom_*_all_status
  task,        \* where task_modbus_eeprom stands
  cell,        \* reg_addr of the loop under way
  word,        \* the value being written
  found,       \* read_cnt > 0
  saved,       \* modbus_regs_mode_saved
  basis        \* history: what the latest service of each kind rests on

settingsVars == <<regs, access, granted, store, req, status, task, cell, word, found,
                  saved, basis>>

Services == {"erase", "read", "write"}
Blank    == WORD                      \* an erased cell; no word is WORD
Alien    == WORD + 1                  \* a cell written for another register
Cells    == Words \union {Alien, Blank}
Prom     == {a \in Addrs : Table[a].prom}
Statuses == {"OK", "ERROR", "NEED_ERASE", "NOT_FOUND", "EMPTY"}
Waits    == {"wait", "wipe", "fetch", "compare", "program", "verify"}
Tests    == Services                  \* about to test the request of a service
\* Since the host asked: no service has begun; one has, and nothing it deals
\* with changed otherwise; something did.
Bases    == {"unserved", "kept", "touched"}

ASSUME SettingsOK ==
  /\ Polled \in BOOLEAN /\ Chip \in BOOLEAN /\ Faulty \in BOOLEAN
  /\ Prom # {} /\ \A a \in Prom : Table[a].dest /\ ~Table[a].reserved
  /\ Defaults \in [Addrs -> Words]
  /\ \A a \in Limited : Within(a, Defaults[a])
  /\ Shipped \subseteq [Prom -> Cells]

SettingsTypeOK ==
  /\ regs \in [Addrs -> Words] /\ access \in Modes /\ granted \in Modes
  /\ store \in [Prom -> Cells]
  /\ req \in [Services -> BOOLEAN] /\ status \in [Services -> Statuses]
  /\ task \in Waits \union Tests /\ cell \in Prom /\ word \in Words
  /\ found \in BOOLEAN /\ saved \in Modes
  /\ basis \in [Services -> Bases]

First   == CHOOSE a \in Prom : \A b \in Prom : a <= b
Last(a) == \A b \in Prom : b <= a
Next1(a) == CHOOSE b \in Prom : b > a /\ \A c \in Prom : c > a => b <= c

Still == [k \in Services |-> FALSE]

\* The program starts with its initialised data and the access its password
\* grants.
SettingsInit ==
  /\ regs = Defaults
  /\ granted \in {ModeOf(p) : p \in Passwords} /\ access = granted
  /\ store \in Shipped
  /\ req = Still /\ status = [k \in Services |-> "OK"]
  /\ task = "wait" /\ cell = First /\ word = 0 /\ found = FALSE /\ saved = USER
  /\ basis = [k \in Services |-> "unserved"]

-----------------------------------------------------------------------------
(* The driver: what its calls may answer.                                  *)

Broken == IF ~Chip THEN {"NOT_FOUND"} ELSE IF Faulty THEN {"ERROR"} ELSE {}

\* modbus_eeprom_read_nb: a blank cell, or one that belongs to another
\* register, has no value.
StatusOf(c) == IF c = Blank THEN "EMPTY" ELSE IF c = Alien THEN "NEED_ERASE" ELSE "OK"
ReadsAs(a)  == Broken \union (IF Chip THEN {StatusOf(store[a])} ELSE {})

\* A worn cell keeps what it has although the chip reports success; a write
\* that fails may have been done.
Programs(a, w) ==
  (IF Chip THEN {<<"OK", w>>} ELSE {})
    \union (Broken \X {store[a]})
    \union (IF Chip /\ Faulty THEN {<<"OK", store[a]>>, <<"ERROR", w>>} ELSE {})

-----------------------------------------------------------------------------
(* The task.                                                               *)

\* Whatever a service rests on has been changed by something else.
Touch(b) == [k \in Services |-> IF b[k] = "kept" THEN "touched" ELSE b[k]]

Following(k) == CASE k = "erase" -> "read" [] k = "read" -> "write" [] k = "write" -> "wait"

Wake ==
  /\ task = "wait" /\ \E k \in Services : req[k]
  /\ task' = "erase"
  /\ UNCHANGED <<regs, access, granted, store, req, status, cell, word, found, saved,
                 basis>>

Skip ==
  /\ task \in Tests /\ ~req[task]
  /\ task' = Following(task)
  /\ UNCHANGED <<regs, access, granted, store, req, status, cell, word, found, saved,
                 basis>>

Begun(k) == basis' = [Touch(basis) EXCEPT ![k] = "kept"]

BeginErase ==
  /\ task = "erase" /\ req["erase"]
  /\ task' = "wipe"
  /\ Begun("erase")
  /\ UNCHANGED <<regs, access, granted, store, req, status, cell, word, found, saved>>

\* modbus_eeprom_read_all_nb takes every access for its own writes.
BeginRead ==
  /\ task = "read" /\ req["read"]
  /\ task' = "fetch" /\ cell' = First /\ found' = FALSE
  /\ saved' = access /\ access' = FACTORY
  /\ Begun("read")
  /\ UNCHANGED <<regs, granted, store, req, status, word>>

BeginWrite ==
  /\ task = "write" /\ req["write"]
  /\ task' = "compare" /\ cell' = First /\ word' = regs[First]
  /\ Begun("write")
  /\ UNCHANGED <<regs, access, granted, store, req, status, found, saved>>

\* A service of k ends with status st, and its request is lowered.
End(k, st) ==
  /\ status' = [status EXCEPT ![k] = st]
  /\ req' = [req EXCEPT ![k] = FALSE]
  /\ task' = Following(k)

\* eeprom_erase_all_nb: a failure may have erased some of the cells.
Wipe ==
  /\ task = "wipe"
  /\ \/ Chip /\ store' = [a \in Prom |-> Blank] /\ End("erase", "OK")
     \/ \E st \in Broken, some \in SUBSET Prom :
          /\ Chip \/ some = {}
          /\ store' = [a \in Prom |-> IF a \in some THEN Blank ELSE store[a]]
          /\ End("erase", st)
  /\ UNCHANGED <<regs, access, granted, cell, word, found, saved, basis>>

\* Mutants: a failure ends the service without giving the access back; a
\* restored word is stored without its limits.
FetchFailed0 ==
  /\ task = "fetch"
  /\ \E st \in ReadsAs(cell) \ {"OK", "EMPTY"} : End("read", st)
  /\ UNCHANGED <<regs, access, granted, store, cell, word, found, saved, basis>>
Fetched0 ==
  /\ task = "fetch" /\ "OK" \in ReadsAs(cell)
  /\ regs' = [regs EXCEPT ![cell] = store[cell]]
  /\ found' = TRUE
  /\ IF Last(cell) THEN End("read", "OK") /\ access' = saved /\ cell' = cell
                   ELSE cell' = Next1(cell) /\ UNCHANGED <<status, req, task, access>>
  /\ UNCHANGED <<granted, store, word, saved, basis>>

\* A register is read and written back through modbus_write_reg ...
Fetched ==
  /\ task = "fetch" /\ "OK" \in ReadsAs(cell)
  /\ regs' = [regs EXCEPT ![cell] = Written(cell, regs[cell], store[cell], access)]
  /\ found' = TRUE
  /\ IF Last(cell) THEN End("read", "OK") /\ access' = saved /\ cell' = cell
                   ELSE /\ access' = FACTORY /\ cell' = Next1(cell)
                        /\ UNCHANGED <<status, req, task>>
  /\ UNCHANGED <<granted, store, word, saved, basis>>

\* ... an empty one is passed over ...
FetchedNone ==
  /\ task = "fetch" /\ "EMPTY" \in ReadsAs(cell)
  /\ IF Last(cell)
     THEN End("read", IF found THEN "OK" ELSE "EMPTY") /\ access' = saved /\ cell' = cell
     ELSE cell' = Next1(cell) /\ UNCHANGED <<status, req, task, access>>
  /\ UNCHANGED <<regs, granted, store, word, found, saved, basis>>

\* ... and the first failure ends the service.
FetchFailed ==
  /\ task = "fetch"
  /\ \E st \in ReadsAs(cell) \ {"OK", "EMPTY"} : End("read", st)
  /\ access' = saved
  /\ UNCHANGED <<regs, granted, store, cell, word, found, saved, basis>>

\* The loop of modbus_eeprom_write_all_nb, after a register in the store.
NextWrite ==
  IF Last(cell) THEN End("write", "OK") /\ UNCHANGED <<cell, word>>
  ELSE /\ cell' = Next1(cell) /\ word' = regs[Next1(cell)] /\ task' = "compare"
       /\ UNCHANGED <<status, req>>

\* modbus_eeprom_write_nb: the same value is not written again ...
Compare ==
  /\ task = "compare"
  /\ \E st \in ReadsAs(cell) :
       IF st = "OK" /\ store[cell] = word
       THEN NextWrite
       ELSE task' = "program" /\ UNCHANGED <<status, req, cell, word>>
  /\ UNCHANGED <<regs, access, granted, store, found, saved, basis>>

\* Mutant: what the chip reports is believed.
Program0 ==
  /\ task = "program"
  /\ \E p \in Programs(cell, word) :
       /\ store' = [store EXCEPT ![cell] = p[2]]
       /\ IF p[1] = "OK" THEN NextWrite
                         ELSE End("write", p[1]) /\ UNCHANGED <<cell, word>>
  /\ UNCHANGED <<regs, access, granted, found, saved, basis>>

\* ... another one is ...
Program ==
  /\ task = "program"
  /\ \E p \in Programs(cell, word) :
       /\ store' = [store EXCEPT ![cell] = p[2]]
       /\ IF p[1] = "OK" THEN task' = "verify" /\ UNCHANGED <<status, req>>
                         ELSE End("write", p[1])
  /\ UNCHANGED <<regs, access, granted, cell, word, found, saved, basis>>

\* ... and read back; the first failure ends the service.
Verify ==
  /\ task = "verify"
  /\ \E st \in ReadsAs(cell) :
       CASE st # "OK" -> End("write", st) /\ UNCHANGED <<cell, word>>
         [] st = "OK" /\ store[cell] # word ->
              End("write", "ERROR") /\ UNCHANGED <<cell, word>>
         [] st = "OK" /\ store[cell] = word -> NextWrite
  /\ UNCHANGED <<regs, access, granted, store, found, saved, basis>>

\* modbus_eeprom_task, when it is called.
Task ==
  /\ Polled
  /\ \/ Wake \/ Skip \/ BeginErase \/ BeginRead \/ BeginWrite
     \/ Wipe \/ Fetched \/ FetchedNone \/ FetchFailed \/ Compare \/ Program \/ Verify

\* The task has handed the main loop back: in the wait for a request, or in a
\* call of a driver that yields.
Yielded == task = "wait" \/ (Chip /\ task \in Waits)

-----------------------------------------------------------------------------
(* What the settings promise.                                              *)

\* A register with limits is inside them, whatever was stored in the chip.
LimitsHeld == \A a \in Limited : Within(a, regs[a])

\* Every way out of a restore gives back the access it took.
Restoring    == task = "fetch"
ModeReturned == access = IF Restoring THEN FACTORY ELSE granted

\* The state a status speaks of, when nothing else touched it since the
\* service began.
ToldTrue(k) ==
  LET st == status[k] IN
  CASE k = "erase" -> st = "OK" => \A a \in Prom : store[a] = Blank
    [] k = "write" -> st = "OK" => \A a \in Prom : store[a] = regs[a]
    [] k = "read"  -> st \in {"OK", "EMPTY"} =>
                        \A a \in Prom :
                          /\ store[a] # Alien
                          /\ store[a] # Blank =>
                               regs[a] = Written(a, regs[a], store[a], FACTORY)
=============================================================================
