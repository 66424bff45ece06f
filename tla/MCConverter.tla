----------------------------- MODULE MCConverter -----------------------------
(***************************************************************************)
(* Instances of Converter for TLC.                                         *)
(***************************************************************************)
EXTENDS Converter

CONSTANTS u1, u2

\* The host may write any of the three command registers, together or not.
AnyCmds == Cmds

\* The gates of a single channel: enough to tell a diagnostic switch-on from
\* the control interrupt's, which enables both channels of a unit.
OneChannel == {Units \X {"A"}}

\* The host raises at most one command register at a time.
OneCmd == {c \in Cmds : \A f, g \in DOMAIN c : c[f] /\ c[g] => f = g}

\* The host asks for no gate in DIAG.
NoDiagGates == {{}}
=============================================================================
