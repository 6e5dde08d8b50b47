---------------------------- MODULE MCMembership ----------------------------
(* Small instances of Membership for TLC.                                  *)
EXTENDS Membership, TLC

Symmetry ==
  Permutations(Users \ Invitees) \cup Permutations(Invitees)
    \cup Permutations(Ids) \cup Permutations(Requests)
=============================================================================
