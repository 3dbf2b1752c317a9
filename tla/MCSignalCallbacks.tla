------------------------- MODULE MCSignalCallbacks -------------------------
(* Instances of SignalCallbacks for TLC. *)
EXTENDS SignalCallbacks, TLC

CONSTANTS alice, bob

=============================================================================
