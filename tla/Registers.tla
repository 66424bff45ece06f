------------------------------ MODULE Registers ------------------------------
(***************************************************************************)
(* The table of Modbus registers (modbus_config_converter.cpp) and the two *)
(* operations on it, modbus_read_reg and modbus_write_reg (modbus_regs.c). *)
(* A register is a word of the program's memory behind a description of    *)
(* who may write it and within which limits. Words are BITS wide; the      *)
(* fixed-point types are left out.                                         *)
(***************************************************************************)
EXTENDS Integers, Sequences

CONSTANTS
  Count,   \* modbus_holding_regs_count
  Table,   \* _modbus_holding_regs
  BITS     \* the width of a word

USER     == 0
ENGINEER == 1
FACTORY  == 2
Modes    == USER .. FACTORY          \* MODBUS_REGS_MODE_*

WORD  == 2 ^ BITS
Words == 0 .. WORD - 1
Addrs == 0 .. Count - 1

\* MODBUS_REG: text is the length of the name, level the access a write
\* needs, dest whether a write has somewhere to go.
Kinds == [text : Nat, level : Modes, prom : BOOLEAN, reserved : BOOLEAN,
          dest : BOOLEAN, signed : BOOLEAN, lo : Int, hi : Int]

ASSUME RegistersOK ==
  /\ BITS \in Nat \ {0} /\ WORD \in Nat \ {0}
  /\ Count \in Nat \ {0}
  /\ Table \in [Addrs -> Kinds]
  /\ \A a \in Addrs : Table[a].dest =>          \* the limits have the register's type
       LET lo == Table[a].lo  hi == Table[a].hi IN
       /\ lo <= hi
       /\ IF Table[a].signed THEN 0 <= 2 * lo + WORD /\ 2 * hi < WORD
                             ELSE 0 <= lo /\ hi < WORD

\* modbus_regs_enter_password.
ModeOf(password) ==
  IF password = 1981 THEN FACTORY ELSE IF password = 1717 THEN ENGINEER ELSE USER

\* A word as the number its register takes it for, and back.
Value(a, x) == IF Table[a].signed /\ 2 * x >= WORD THEN x - WORD ELSE x
Raw(v)      == v % WORD

\* limit(x, min, max)
Limit(a, v) ==
  IF v < Table[a].lo THEN Table[a].lo ELSE IF v > Table[a].hi THEN Table[a].hi ELSE v

Open(a, mode) == Table[a].level <= mode

\* Whether modbus_write_reg returns 1: a register without a destination
\* refuses, but a reserved or a barred one accepts and ignores.
Takes(a, mode) == Table[a].reserved \/ ~Open(a, mode) \/ Table[a].dest

\* What a register that held w holds after modbus_write_reg.
Written(a, w, x, mode) ==
  IF ~Table[a].reserved /\ Open(a, mode) /\ Table[a].dest
  THEN Raw(Limit(a, Value(a, x))) ELSE w

\* A register holds a value inside its limits.
Within(a, w) == Table[a].lo <= Value(a, w) /\ Value(a, w) <= Table[a].hi
Limited      == {a \in Addrs : ~Table[a].reserved /\ Table[a].dest}

\* Writing the words xs from address "at" on, one after the other.
WrittenAll(regs, at, xs, mode) ==
  [a \in Addrs |-> IF a \in at .. at + Len(xs) - 1
                   THEN Written(a, regs[a], xs[a - at + 1], mode) ELSE regs[a]]

\* modbus_read_reg. A reserved register has nothing to read.
Read(regs, a) == IF Table[a].reserved THEN 0 ELSE regs[a]

\* x is (w & and) | (or & ~and), bit by bit.
Bit(w, i) == (w \div 2 ^ i) % 2
IsMasked(x, w, and, or) ==
  \A i \in 0 .. BITS - 1 : Bit(x, i) = IF Bit(and, i) = 1 THEN Bit(w, i) ELSE Bit(or, i)
=============================================================================
