-------------------------- MODULE MCClientSession --------------------------
(* A small instance of ClientSession for TLC.                              *)
EXTENDS ClientSession, TLC

CONSTANTS c1, c2, k1, k2, k3, en, he

Symmetry ==
  Permutations(Calls) \cup Permutations(Tokens) \cup Permutations(Locales)
=============================================================================
