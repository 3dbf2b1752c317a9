----------------------------- MODULE MCContacts -----------------------------
EXTENDS Contacts, TLC

Symmetry == Permutations(Send)
=============================================================================
