---------------------------- MODULE Identifiers ----------------------------
(***************************************************************************)
(* Neutral names for tables and fields (services/identifiers.py).  A name  *)
(* is a sequence of symbols; a label is what slugify leaves of it, which   *)
(* is <<>> for a label that has no Latin letter.                           *)
(***************************************************************************)
EXTENDS Integers, Sequences

CONSTANTS
  MaxLength,  \* of a name, before the first number is appended
  MaxIndex,   \* the highest number that is tried; the code has no limit
  Numeral     \* Numeral[n]: str(n)

Digits == {"0", "1", "2", "3", "4", "5", "6", "7", "8", "9"}

(* The digits of a number tell which number it is, and a name has room for *)
(* a letter, a separator and any number that is tried.                     *)
ASSUME NumbersAssumption ==
  /\ MaxIndex \in Nat \ {0}
  /\ MaxLength \in Nat
  /\ \A n \in 1 .. MaxIndex :
       Numeral[n] \in Seq(Digits) /\ Len(Numeral[n]) + 2 <= MaxLength
  /\ \A m, n \in 1 .. MaxIndex : Numeral[m] = Numeral[n] => m = n

Cut(name, length) ==
  SubSeq(name, 1, IF length < Len(name) THEN length ELSE Len(name))

(* The first index, counting from lowest, whose name is free.              *)
FirstFree(Name(_), lowest, taken) ==
  LET free == {n \in lowest .. MaxIndex : Name(n) \notin taken}
  IN  CHOOSE n \in free : \A m \in free : n <= m

(* The base with a number after it, cut so that the two fit.               *)
Numbered(base, separator, n) ==
  LET suffix == <<separator>> \o Numeral[n]
  IN  Cut(base, MaxLength - Len(suffix)) \o suffix

(* Mutant of UniqueIdentifier: the number is not looked up in taken.       *)
UniqueIdentifierUnchecked(label, taken, separator, prefix) ==
  LET base == Cut(label, MaxLength)
      fallback(n) == <<prefix, separator>> \o Numeral[n]
  IN  IF base = <<>> THEN fallback(FirstFree(fallback, 1, taken))
      ELSE IF base \notin taken THEN base
      ELSE Numbered(base, separator, 2)

(* unique_identifier: the base if it is free, else the first free number.  *)
UniqueIdentifier(label, taken, separator, prefix) ==
  LET base == Cut(label, MaxLength)
      fallback(n) == <<prefix, separator>> \o Numeral[n]
      numbered(n) == Numbered(base, separator, n)
  IN  IF base = <<>> THEN fallback(FirstFree(fallback, 1, taken))
      ELSE IF base \notin taken THEN base
      ELSE numbered(FirstFree(numbered, 2, taken))
=============================================================================
