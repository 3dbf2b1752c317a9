--------------------------- MODULE MCPhoneNumbers ---------------------------
(* Instances of PhoneNumbers for TLC. *)
EXTENDS PhoneNumbers, TLC

CONSTANTS n1, c1, c2, s1, s2, api, t1, t2

NoneBought == n1 :> "none"
Symmetry == Permutations(Creation) \cup Permutations(Slot) \cup Permutations(Text)

=============================================================================
