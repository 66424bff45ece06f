----------------------------- MODULE ErrorBuffer -----------------------------
(***************************************************************************)
(* The error log as the sequence of errors it holds, and what one call of  *)
(* CErrors::set makes of it.                                               *)
(***************************************************************************)
EXTENDS Naturals, Sequences

CONSTANT ERRORS_MAX  \* the size of the error buffer

\* Mutants: the test for a full buffer is one off, or missing.
ShortBuffer(log, e)   == IF Len(log) + 1 >= ERRORS_MAX THEN log ELSE Append(log, e)
EndlessBuffer(log, e) == Append(log, e)

\* CErrors::set: a repeat of the newest entry and anything past the end of
\* the buffer are dropped. The newest entry is m_current_error.
WithError(log, e) ==
  IF Len(log) = ERRORS_MAX \/ (log # <<>> /\ log[Len(log)] = e)
  THEN log ELSE Append(log, e)
=============================================================================
