----------------------------- MODULE MCSessions -----------------------------
(* Small instances of Sessions for TLC.                                    *)
EXTENDS Sessions, TLC

Symmetry ==
  Permutations(Passwords) \cup Permutations(Tokens) \cup Permutations(Requests)
=============================================================================
