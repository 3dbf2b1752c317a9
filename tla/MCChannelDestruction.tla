------------------------ MODULE MCChannelDestruction ------------------------
(* Instances of ChannelDestruction for TLC. *)
EXTENDS ChannelDestruction, TLC

CONSTANTS red, blue, job1, job2, admin1, admin2, message1, message2, request1

\* Channels, and handlers of one kind, are interchangeable.
Symmetry ==
  Permutations(Channel) \cup Permutations(Job) \cup Permutations(Admin)
    \cup Permutations(Message)

=============================================================================
