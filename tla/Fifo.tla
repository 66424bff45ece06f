-------------------------------- MODULE Fifo --------------------------------
(***************************************************************************)
(* The ring buffers of MCU/fifo.h: a producer owns head, a consumer owns   *)
(* tail, and one slot stays free so that full and empty differ.            *)
(***************************************************************************)
EXTENDS Integers, Sequences

CONSTANTS
  SIZE,   \* the number of slots, FIFO_SIZE
  Items   \* what a slot holds

ASSUME FifoConstants == SIZE \in Nat \ {0, 1}

Slots == 0 .. SIZE - 1
Rings == [data : [Slots -> Items], head : Slots, tail : Slots]

\* Mutants: an index that does not wrap; a ring that calls itself full one
\* item early.
NoWrap(i)    == i + 1
FullEarly(f) == (f.head + 2) % SIZE = f.tail

Succ(i)  == (i + 1) % SIZE
Empty(f) == f.head = f.tail
Full(f)  == Succ(f.head) = f.tail
Busy(f)  == (SIZE + f.head - f.tail) % SIZE
Free(f)  == ((SIZE - 1) - f.head + f.tail) % SIZE

\* FIFO_PUT_FAST, and the step of FIFO_GET that gives the slot back.
Put(f, x)  == [f EXCEPT !.data[f.head] = x, !.head = Succ(f.head)]
Release(f) == [f EXCEPT !.tail = Succ(f.tail)]

\* What the ring holds, oldest first.
Contents(f) == [k \in 1 .. Busy(f) |-> f.data[(f.tail + k - 1) % SIZE]]
=============================================================================
