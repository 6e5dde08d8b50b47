---------------------------- MODULE MCOnboarding ----------------------------
(* A small instance of Onboarding for TLC: one address in two spellings.   *)
EXTENDS Onboarding, TLC

CONSTANTS a1, a2, typed, stored

MCNormal == [s \in Spellings |-> stored]

(* No row has the spelling "typed", unless addresses are not normalized.   *)
MCEmailOf == [a \in Accounts |-> IF a = a2 THEN typed ELSE stored]

Symmetry == Permutations(Slots)
=============================================================================
