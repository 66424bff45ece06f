------------------------------ MODULE ByteQueue ------------------------------
(***************************************************************************)
(* What a UART buffer promises to the two sides that share it: a bounded   *)
(* first-in first-out queue of bytes that refuses a byte only when it is   *)
(* full, and says so, except while it is being cleared.                    *)
(***************************************************************************)
EXTENDS Naturals, Sequences

CONSTANTS Bytes, Capacity

VARIABLES
  queue,     \* the bytes accepted and not yet delivered, oldest first
  out,       \* the last byte delivered
  flagged,   \* an error is on record
  clearing   \* a clear is under way

vars == <<queue, out, flagged, clearing>>

Init == queue = <<>> /\ out \in Bytes /\ flagged \in BOOLEAN /\ clearing = FALSE

\* A byte is accepted; it may have arrived damaged, which is put on record.
Accept(b) ==
  /\ Len(queue) < Capacity
  /\ queue' = Append(queue, b)
  /\ flagged' \in {flagged, TRUE}
  /\ UNCHANGED <<out, clearing>>

Refuse ==
  /\ Len(queue) = Capacity \/ clearing
  /\ flagged' = TRUE
  /\ UNCHANGED <<queue, out, clearing>>

Deliver ==
  /\ queue # <<>>
  /\ out' = Head(queue)
  /\ queue' = Tail(queue)
  /\ UNCHANGED <<flagged, clearing>>

\* The queue is emptied. Until the clear is over, bytes that were never
\* accepted may come out.
Clear ==
  /\ queue' = <<>>
  /\ clearing' = TRUE
  /\ UNCHANGED <<out, flagged>>

Garble(b) ==
  /\ clearing
  /\ out' = b
  /\ UNCHANGED <<queue, flagged, clearing>>

Cleared ==
  /\ clearing
  /\ clearing' = FALSE
  /\ flagged' \in {flagged, FALSE}
  /\ UNCHANGED <<queue, out>>

Next ==
  \/ \E b \in Bytes : Accept(b) \/ Garble(b)
  \/ Refuse \/ Deliver \/ Clear \/ Cleared

Spec == Init /\ [][Next]_vars
=============================================================================
