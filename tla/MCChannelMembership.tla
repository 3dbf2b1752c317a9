------------------------ MODULE MCChannelMembership ------------------------
(* Instances of ChannelMembership for TLC: the configurations differ in the *)
(* commands users send, the number of handlers in flight and the messages.  *)
EXTENDS ChannelMembership, TLC

CONSTANTS alice, bob, carol, dave

OneFounder == <<alice>>
TwoFounders == <<alice, bob>>

\* Numbers a configuration may exchange: with OneFounder only alice is named.
NewcomerSymmetry == Permutations({bob, carol, dave})
HandlerSymmetry == Permutations(Task)
Symmetry == NewcomerSymmetry \cup HandlerSymmetry
=============================================================================
