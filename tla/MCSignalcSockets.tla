-------------------------- MODULE MCSignalcSockets --------------------------
(* Instance of SignalcSockets for TLC. *)
EXTENDS SignalcSockets
=============================================================================
