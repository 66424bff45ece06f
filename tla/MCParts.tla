------------------------------- MODULE MCParts -------------------------------
(***************************************************************************)
(* The parts that share no variable with one another, side by side in one  *)
(* instance for TLC: in each behaviour one of them is at work.             *)
(***************************************************************************)
EXTENDS Requests, ErrorLog, ScopeRing, Timers

VARIABLE part

Parts == {"slave", "log", "scope", "mode time", "rms time"}

allVars == <<part, slaveVars, logVars, scopeVars, timeVars>>

-----------------------------------------------------------------------------
(* The registers: 0 is reserved, 1 and 2 are kept in EEPROM and the first  *)
(* of them is the engineer's, 3 cannot be written, 4 is signed.            *)

Reg(text, level, prom, lo, hi) ==
  [text |-> text, level |-> level, prom |-> prom, reserved |-> FALSE, dest |-> TRUE,
   signed |-> FALSE, lo |-> lo, hi |-> hi]

MCTable ==
  [a \in 0 .. 4 |->
     CASE a = 0 -> [Reg(2, USER, FALSE, 0, 0) EXCEPT !.reserved = TRUE, !.dest = FALSE]
       [] a = 1 -> Reg(1, ENGINEER, TRUE, 1, 2)
       [] a = 2 -> Reg(3, USER, TRUE, 0, 3)
       [] a = 3 -> [Reg(1, USER, FALSE, 0, 0) EXCEPT !.dest = FALSE]
       [] a = 4 -> [Reg(0, USER, FALSE, 0, 1) EXCEPT !.signed = TRUE]]

MCDefaults == [a \in 0 .. 4 |-> IF a = 1 THEN 1 ELSE 0]

\* A new chip, one with values in it, and one that another program has used.
MCShipped ==
  {[a \in {1, 2} |-> Blank], [a \in {1, 2} |-> 0],
   [a \in {1, 2} |-> IF a = 1 THEN 3 ELSE Alien]}

\* What the hosts send: one uses every function but those on the EEPROM, one
\* erases and stores the settings, one stores and restores them.
Engineer ==
  {[fn |-> f] : f \in {"empty", "short", "unknown", "id", "echo"}}
    \union {[fn |-> "read", at |-> a, n |-> n] : a \in {0, 4}, n \in {0, 2, 5}}
    \union {[fn |-> "write", at |-> a, x |-> 3] : a \in 0 .. 5}
    \union {[fn |-> "mask", at |-> a, and |-> 2, or |-> 1] : a \in 2 .. 5}
    \union {[fn |-> "multi", at |-> a, xs |-> xs, whole |-> w] :
              a \in {1, 3}, xs \in {<<>>, <<2, 1>>, <<0, 2, 2>>}, w \in BOOLEAN}
    \union {[fn |-> "both", at |-> a, xs |-> <<2>>, whole |-> w, from |-> f, n |-> 2] :
              a \in {2, 4}, w \in BOOLEAN, f \in {1, 4}}
    \union {[fn |-> "meta", meta |-> m, at |-> a, n |-> n] :
              m \in {"names", "types", "limits"}, a \in {0, 1, 3}, n \in 1 .. 4}
    \union {[fn |-> "meta", meta |-> m, at |-> a, n |-> 1] :
              m \in {"count", "other"}, a \in {0, 5}}

Store(a, services) ==
  {[fn |-> "write", at |-> a, x |-> 3]}
    \union {[fn |-> "eeprom", service |-> k] : k \in services}

MCHosts ==
  [h \in {"engineer", "eraser", "restorer"} |->
     CASE h = "engineer" -> Engineer
       [] h = "eraser"   -> Store(2, {"erase", "write"})
       [] h = "restorer" -> Store(1, {"read", "write"})]

-----------------------------------------------------------------------------

PartsInit ==
  /\ part \in Parts
  /\ SlaveInit /\ LogInit /\ ScopeInit /\ TimersInit
  /\ part # "slave" => host = "engineer" /\ granted = ENGINEER /\ store[1] = Blank
  /\ part \notin {"mode time", "rms time"} => ~signedTime

Works(p) == part = p /\ UNCHANGED part

PartsNext ==
  \/ Works("slave") /\ SlaveNext /\ UNCHANGED <<logVars, scopeVars, timeVars>>
  \/ Works("log") /\ LogNext /\ UNCHANGED <<slaveVars, scopeVars, timeVars>>
  \/ Works("scope") /\ ScopeNext /\ UNCHANGED <<slaveVars, logVars, timeVars>>
  \/ Works("mode time") /\ ModeTime /\ UNCHANGED <<slaveVars, logVars, scopeVars>>
  \/ Works("rms time") /\ RmsTime /\ UNCHANGED <<slaveVars, logVars, scopeVars>>

PartsSpec == PartsInit /\ [][PartsNext]_allVars

\* The types of all the parts' variables.
PartsTypeOK == SlaveTypeOK /\ LogTypeOK /\ ScopeTypeOK /\ TimersTypeOK
=============================================================================
