----------------------------- MODULE ErrorRecord -----------------------------
(***************************************************************************)
(* What the error log promises to the main loop and the trip interrupts    *)
(* that share it without a lock: each call of the main loop takes effect   *)
(* once, at one moment between its begin and its return, and so does each  *)
(* trip. This is the log in one step that Converter has. The promise ends  *)
(* with a trip that cuts a call in two, and is renewed by the next clear.  *)
(***************************************************************************)
EXTENDS ErrorBuffer

CONSTANTS Causes, FLT  \* the errors of the main loop, and that of a trip

VARIABLES
  log,   \* the errors on record, oldest first; empty while cut
  call,  \* the call under way: none, set or clear, or done, a set that has taken effect
  err,   \* its argument
  cut    \* a trip has cut a call in two since the last clear

vars == <<log, call, err, cut>>

Init == log = <<>> /\ call = "none" /\ err = FLT /\ cut = FALSE

Begin(e) ==
  /\ call = "none"
  /\ call' = "set" /\ err' = e
  /\ UNCHANGED <<log, cut>>

\* The error is recorded, and the call may return with it.
Effect ==
  /\ call = "set"
  /\ log' = IF cut THEN log ELSE WithError(log, err)
  /\ call' \in {"done", "none"}
  /\ UNCHANGED <<err, cut>>

Clear ==
  /\ call = "none"
  /\ call' = "clear" /\ log' = <<>> /\ cut' = FALSE
  /\ UNCHANGED err

Return ==
  /\ call \in {"done", "clear"}
  /\ call' = "none"
  /\ UNCHANGED <<log, err, cut>>

\* One that falls into a clear and is dropped counts as before it.
Trip ==
  /\ ~cut /\ call # "clear"
  /\ log' = WithError(log, FLT)
  /\ UNCHANGED <<call, err, cut>>

Cut ==
  /\ call # "none"
  /\ cut' = TRUE /\ log' = <<>>
  /\ call' = IF call = "clear" THEN "clear" ELSE "done"
  /\ UNCHANGED err

Next ==
  \/ \E e \in Causes : Begin(e)
  \/ Effect \/ Clear \/ Return \/ Trip \/ Cut

Spec == Init /\ [][Next]_vars
=============================================================================
