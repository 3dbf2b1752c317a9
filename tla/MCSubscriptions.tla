-------------------------- MODULE MCSubscriptions --------------------------
(* Instances of Subscriptions for TLC. *)
EXTENDS Subscriptions

CONSTANTS alice, request1, request2, envelope

=============================================================================
