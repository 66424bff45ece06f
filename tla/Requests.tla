------------------------------- MODULE Requests -------------------------------
(***************************************************************************)
(* The requests of the host (task_modbus_process_pdu, modbus_slave.c) on   *)
(* the registers and on the settings in EEPROM, one at a time, in the main *)
(* loop. A request runs to its end without yielding: the one wait on its   *)
(* way, for a delayed write to EEPROM, is never entered since nothing      *)
(* delays one. It ends between two steps of the EEPROM task.               *)
(* Requests to the scope and for another baud rate are in ModbusRtu.       *)
(***************************************************************************)
EXTENDS Settings

CONSTANTS
  MAX_READ, MAX_WRITE,   \* MODBUS_MAX_READ_REGISTERS, ..._WRITE_REGISTERS
  MAX_PDU,               \* MODBUS_MAX_PDU_LENGTH
  Hosts                  \* what each host may send, by its name (bounds the model)

VARIABLES
  packet,    \* a packet is being processed
  lock,      \* modbus_slave_lock
  asked,     \* eeprom_*_all_requested
  answer,    \* history: the latest request and what was answered
  host       \* the host on the line

slaveVars == <<settingsVars, packet, lock, asked, answer, host>>

META == 6    \* what a request for names begins with, and its answer

Silent     == [is |-> "silent"]
Refused(c) == [is |-> "exception", code |-> c]    \* response_exception
Done       == [is |-> "done"]
Nothing    == [fn |-> "none"]

FUNCTION == 1    \* MODBUS_EXCEPTION_ILLEGAL_FUNCTION
ADDRESS  == 2    \* ..._ILLEGAL_DATA_ADDRESS
VALUE    == 3    \* ..._ILLEGAL_DATA_VALUE
FAILURE  == 4    \* ..._SLAVE_OR_SERVER_FAILURE

\* What a packet asks for: a function, the address and the number of registers,
\* the words to write, whether the packet is as long as it says.
Forms ==
  [fn : {"empty", "short", "unknown", "id", "echo"}]
    \union [fn : {"read"}, at : Nat, n : Nat]
    \union [fn : {"write"}, at : Nat, x : Words]
    \union [fn : {"mask"}, at : Nat, and : Words, or : Words]
    \union [fn : {"multi"}, at : Nat, xs : Seq(Words), whole : BOOLEAN]
    \union [fn : {"both"}, at : Nat, xs : Seq(Words), whole : BOOLEAN, from : Nat, n : Nat]
    \union [fn : {"meta"}, meta : STRING, at : Nat, n : Nat]
    \union [fn : {"eeprom"}, service : Services]

ASSUME RequestsOK ==
  /\ MAX_READ \in Nat \ {0} /\ MAX_WRITE \in Nat \ {0}
  /\ MAX_PDU \in Nat /\ 2 + 2 * MAX_READ <= MAX_PDU /\ META <= MAX_PDU
  /\ \A h \in DOMAIN Hosts : Hosts[h] \subseteq Forms

SlaveTypeOK ==
  /\ SettingsTypeOK
  /\ packet \in BOOLEAN /\ lock \in BOOLEAN /\ asked \in [Services -> BOOLEAN]
  /\ host \in DOMAIN Hosts
  /\ {"to", "is"} \subseteq DOMAIN answer /\ answer.to \in Hosts[host] \union {Nothing}

SlaveInit ==
  /\ SettingsInit
  /\ packet = FALSE /\ lock = FALSE /\ asked = Still
  /\ answer = [to |-> Nothing, is |-> "silent"]
  /\ host \in DOMAIN Hosts

-----------------------------------------------------------------------------
(* One request.                                                            *)

\* The exceptions a range of n registers from "at" on is refused with.
CheckRange(at, n, max) ==
  IF n < 1 \/ n > max THEN {VALUE}
  ELSE IF {at, at + n - 1} \subseteq Addrs THEN {} ELSE {ADDRESS}

\* A write of several registers carries its length twice; "whole" when both
\* lengths are right.
WriteRange(q) ==
  LET r == CheckRange(q.at, Len(q.xs), MAX_WRITE) IN
  IF r # {} THEN r ELSE IF q.whole THEN {} ELSE {VALUE}

Asked(q) == {a \in Addrs : a >= q.at /\ a < q.at + Len(q.xs)}
AllTake(q) == \A a \in Asked(q) : Takes(a, access)

Answered(q, what) ==
  /\ answer' = [f \in {"to"} \union DOMAIN what |-> IF f = "to" THEN q ELSE what[f]]
  /\ packet' = FALSE /\ lock' = FALSE
  /\ UNCHANGED host

\* A write that touches a register kept in EEPROM changes what the services
\* under way or answered rest on.
Stored(new) ==
  /\ regs' = new
  /\ basis' = IF \E a \in Prom : new[a] # regs[a] THEN Touch(basis) ELSE basis
  /\ UNCHANGED <<access, granted, store, req, status, task, cell, word, found, saved,
                 asked>>

Unmoved == UNCHANGED <<settingsVars, asked>>

Refuse(q, codes) == \E c \in codes : Answered(q, Refused(c)) /\ Unmoved

\* A packet without a function code, and commands that answer nothing.
EmptyPacket(q) == q.fn = "empty" /\ Answered(q, Silent) /\ Unmoved

\* A packet shorter than its function needs; a function nobody knows.
Short(q)   == q.fn = "short" /\ Refuse(q, {VALUE})
Unknown(q) == q.fn = "unknown" /\ Refuse(q, {FUNCTION})

\* MODBUS_FC_REPORT_SLAVE_ID, MODBUS_FC_USER_ECHO
Report(q) == q.fn \in {"id", "echo"} /\ Answered(q, Done) /\ Unmoved

Values(at, n) == [is |-> "values", of |-> [i \in 1 .. n |-> Read(regs, at + i - 1)]]

ReadRegisters(q) ==
  /\ q.fn = "read"
  /\ LET r == CheckRange(q.at, q.n, MAX_READ) IN
     IF r # {} THEN Refuse(q, r) ELSE Answered(q, Values(q.at, q.n)) /\ Unmoved

\* Mutant: the loop stops at the first register that refuses.
StopsEarly(q) ==
  /\ q.fn = "multi"
  /\ IF WriteRange(q) # {} THEN Refuse(q, WriteRange(q))
     ELSE LET taken == {n \in 0 .. Len(q.xs) :
                          \A i \in 1 .. n : Takes(q.at + i - 1, access)}
              k == CHOOSE n \in taken : n + 1 \notin taken
          IN /\ Answered(q, IF AllTake(q) THEN Done ELSE Refused(FAILURE))
             /\ Stored(WrittenAll(regs, q.at, SubSeq(q.xs, 1, k), access))

\* Writes of one register, of several, and masked. The registers that accept
\* are written even when others refuse.
WriteRegisters(q) ==
  /\ q.fn = "multi"
  /\ IF WriteRange(q) # {} THEN Refuse(q, WriteRange(q))
     ELSE /\ Answered(q, IF AllTake(q) THEN Done ELSE Refused(FAILURE))
          /\ Stored(WrittenAll(regs, q.at, q.xs, access))

WriteOne(q, x) ==
  IF q.at \notin Addrs THEN Refuse(q, {ADDRESS})
  ELSE IF ~Takes(q.at, access) THEN Refuse(q, {FAILURE})
  ELSE Answered(q, Done) /\ Stored(WrittenAll(regs, q.at, <<x>>, access))

WriteRegister(q) == q.fn = "write" /\ WriteOne(q, q.x)
MaskRegister(q)  ==
  /\ q.fn = "mask"
  /\ \E x \in Words : /\ q.at \in Addrs => IsMasked(x, Read(regs, q.at), q.and, q.or)
                      /\ WriteOne(q, x)

\* MODBUS_FC_WRITE_AND_READ_REGISTERS: the read follows writes that were all
\* accepted, and is refused by its own range after they are done.
WriteAndRead(q) ==
  /\ q.fn = "both"
  /\ IF WriteRange(q) # {} THEN Refuse(q, WriteRange(q))
     ELSE LET new == WrittenAll(regs, q.at, q.xs, access)
              bad == IF ~AllTake(q) THEN {FAILURE} ELSE CheckRange(q.from, q.n, MAX_READ)
          IN /\ Stored(new)
             /\ IF bad # {}
                THEN \E c \in bad : Answered(q, Refused(c))
                ELSE Answered(q, [is |-> "values",
                                  of |-> [i \in 1 .. q.n |-> Read(new, q.from + i - 1)]])

-----------------------------------------------------------------------------
(* Descriptions of registers, MODBUS_FC_USER_REG_META.                     *)

\* WRITE_LIM
HasLimits(a) ==
  LET end == WORD \div 2 IN
  /\ Table[a].dest
  /\ <<Table[a].lo, Table[a].hi>> # IF Table[a].signed THEN <<-end, end - 1>>
                                                       ELSE <<0, WORD - 1>>

\* The bytes that describe a register: its name behind a length, its read and
\* write types, or its limits behind their type.
Described(meta, a) ==
  CASE meta = "names"  -> 1 + Table[a].text
    [] meta = "types"  -> 2
    [] meta = "limits" -> IF HasLimits(a) THEN 5 ELSE 1

\* Mutant: the description that did not fit is not taken back.
PackedRaw(meta, at, n) ==
  LET pack[k \in 0 .. n] ==
        IF k = 0 THEN [len |-> META, n |-> 0]
        ELSE LET p == pack[k - 1]
                 end == p.len + Described(meta, at + k - 1)
             IN IF p.n < k - 1 THEN p
                ELSE IF end > MAX_PDU THEN [p EXCEPT !.len = MAX_PDU]
                ELSE [len |-> end, n |-> k]
  IN pack[n]

\* Registers are described one after the other; the first whose description
\* does not fit is taken back and ends the answer.
Packed(meta, at, n) ==
  LET pack[k \in 0 .. n] ==
        IF k = 0 THEN [len |-> META, n |-> 0]
        ELSE LET p == pack[k - 1]
                 end == p.len + Described(meta, at + k - 1)
             IN IF p.n < k - 1 \/ end > MAX_PDU THEN p ELSE [len |-> end, n |-> k]
  IN pack[n]

Describe(q) ==
  /\ q.fn = "meta"
  /\ LET r == CheckRange(q.at, q.n, MAX_READ) IN
     IF r # {} THEN Refuse(q, r)
     ELSE IF q.meta = "count" THEN Answered(q, Done) /\ Unmoved
     ELSE IF q.meta \notin {"names", "types", "limits"} THEN Refuse(q, {VALUE})
     ELSE /\ Answered(q, [is |-> "described", len |-> Packed(q.meta, q.at, q.n).len,
                          n |-> Packed(q.meta, q.at, q.n).n])
          /\ Unmoved

-----------------------------------------------------------------------------
(* Settings in EEPROM, MODBUS_FC_USER_EEPROM, and the restart.             *)

\* The first request of a kind starts a service and reads BUSY, further ones
\* read BUSY until the service is over; the one that reads its status ends it.
Eeprom(q) ==
  /\ q.fn = "eeprom"
  /\ LET k == q.service IN
     /\ Answered(q, [is |-> "status",
                     of |-> IF ~asked[k] \/ req[k] THEN "BUSY" ELSE status[k]])
     /\ IF ~asked[k]
        THEN /\ req' = [req EXCEPT ![k] = TRUE] /\ asked' = [asked EXCEPT ![k] = TRUE]
             /\ basis' = [basis EXCEPT ![k] = "unserved"]
        ELSE /\ asked' = [asked EXCEPT ![k] = req[k]]
             /\ UNCHANGED <<req, basis>>
  /\ UNCHANGED <<regs, access, granted, store, status, task, cell, word, found, saved>>

\* A request to restart or for the bootloader, which is not there, or the supply
\* fails: the program starts anew.
Restart ==
  /\ regs' = Defaults /\ access' = granted /\ granted' = granted
  /\ req' = Still /\ status' = [k \in Services |-> "OK"]
  /\ task' = "wait" /\ cell' = First /\ word' = 0 /\ found' = FALSE /\ saved' = USER
  /\ basis' = [k \in Services |-> "unserved"]
  /\ packet' = FALSE /\ lock' = FALSE /\ asked' = Still
  /\ answer' = [to |-> Nothing, is |-> "silent"]
  /\ UNCHANGED <<store, host>>

-----------------------------------------------------------------------------

\* A packet for this slave: its thread waits for the lock and takes it.
Take ==
  /\ Yielded /\ ~packet /\ ~lock
  /\ packet' = TRUE /\ lock' = TRUE
  /\ UNCHANGED <<settingsVars, asked, answer, host>>

Handle ==
  /\ packet
  /\ \E q \in Hosts[host] :
       \/ EmptyPacket(q) \/ Short(q) \/ Unknown(q) \/ Report(q)
       \/ ReadRegisters(q) \/ WriteRegister(q) \/ WriteRegisters(q)
       \/ MaskRegister(q) \/ WriteAndRead(q) \/ Describe(q) \/ Eeprom(q)

SettingsTask == ~packet /\ Task /\ UNCHANGED <<packet, lock, asked, answer, host>>

SlaveNext == Take \/ Handle \/ SettingsTask \/ Restart

SlaveSpec == SlaveInit /\ [][SlaveNext]_slaveVars

-----------------------------------------------------------------------------
(* Properties.                                                             *)

\* A register above the access the password granted changes only by a restore
\* from EEPROM, or while one is under way: its access is then the host's too.
AccessHeld ==
  [][\A a \in Addrs :
       regs'[a] # regs[a] /\ ~Open(a, granted) => Restoring \/ Restart]_slaveVars

\* Every addressed register that accepts writes holds what it was sent.
Holds(rs, q) ==
  \A a \in Asked(q) : Takes(a, access) => rs[a] = Written(a, rs[a], q.xs[a - q.at + 1], access)

\* What an answer to q says of the registers.
Truthful(q) ==
  /\ answer'.is = "exception" /\ answer'.code # FAILURE /\ q.fn # "both" => regs' = regs
  /\ q.fn = "multi" /\ answer' = [to |-> q, is |-> "exception", code |-> FAILURE] =>
       ~AllTake(q) /\ Holds(regs', q)
  /\ q.fn = "multi" /\ answer'.is = "done" => AllTake(q) /\ Holds(regs', q)
  /\ q.fn = "write" /\ answer'.is = "done" =>
       /\ Takes(q.at, access)
       /\ regs'[q.at] = Written(q.at, regs'[q.at], q.x, access)
  /\ q.fn = "both" /\ answer'.is = "values" =>
       /\ AllTake(q) /\ Holds(regs', q)
       /\ \A i \in 1 .. q.n : answer'.of[i] = Read(regs', q.from + i - 1)

\* What a refusal tells: an illegal value or address left the registers alone,
\* unless it is the read half of a combined request that was refused; a
\* failure means that an addressed register has nowhere to go, and the others
\* are written. After an acceptance every addressed register that is open to
\* the host holds what it was sent, within its limits.
WritesTold ==
  [][packet /\ ~packet' /\ answer'.to # Nothing => Truthful(answer'.to)]_slaveVars

\* The bytes of an answer that describes the first k of n registers.
Total(meta, at, n) ==
  LET total[k \in 0 .. n] ==
        IF k = 0 THEN META ELSE total[k - 1] + Described(meta, at + k - 1)
  IN total

\* A list of descriptions is whole and inside the packet: it ends with the last
\* byte of a description, and the next one would not have fitted. (answer.n, the
\* number of them, is the model's; the packet carries only its length.)
DescribedWhole ==
  answer.is = "described" =>
    LET q == answer.to  total == Total(q.meta, q.at, q.n) IN
    /\ answer.len = total[answer.n] /\ answer.len <= MAX_PDU
    /\ answer.n < q.n => total[answer.n + 1] > MAX_PDU

\* A service of the settings that no longer reads BUSY was begun after the host
\* asked for it, and its status is true of the chip and the registers unless
\* the host or another service changed them since. (A host that asks again
\* without having read the status is answered for the service of before.)
StatusTrue ==
  \A k \in Services :
    asked[k] /\ ~req[k] => basis[k] # "unserved" /\ (basis[k] = "kept" => ToldTrue(k))
=============================================================================
