--------------------------- MODULE InvitationLink ---------------------------
(***************************************************************************)
(* What the invitations of one address to one workspace promise: one link  *)
(* at a time, good for joining once, closed by too many wrong PINs         *)
(* (docs/04_technical/INVITATIONS.md).  A link's expiry is left out: it    *)
(* closes a link by itself.                                                *)
(***************************************************************************)
EXTENDS Naturals

CONSTANTS Links, PinAttemptLimit

VARIABLES
  issued,    \* the links there have been
  pinned,    \* those that ask for a PIN
  open,      \* those that can still be used
  proved,    \* those whose PIN has been given
  wrong,     \* wrong[i]: how many wrong PINs were given
  member     \* is the invited person a member?

vars == <<issued, pinned, open, proved, wrong, member>>

Init ==
  /\ issued = {} /\ pinned = {} /\ open = {} /\ proved = {}
  /\ wrong = [i \in Links |-> 0]
  /\ member \in BOOLEAN

(* A new link takes the place of the one before.                           *)
Issue(i) ==
  /\ i \notin issued
  /\ issued' = issued \cup {i}
  /\ open' = {i}
  /\ pinned' \in {pinned, pinned \cup {i}}
  /\ UNCHANGED <<proved, wrong, member>>

Withdraw(i) ==
  /\ i \in open
  /\ open' = open \ {i}
  /\ UNCHANGED <<issued, pinned, proved, wrong, member>>

Prove(i) ==
  /\ i \in open \cap pinned
  /\ proved' = proved \cup {i}
  /\ UNCHANGED <<issued, pinned, open, wrong, member>>

Guess(i) ==
  /\ i \in open \cap pinned
  /\ wrong' = [wrong EXCEPT ![i] = @ + 1]
  /\ open' = IF wrong'[i] = PinAttemptLimit THEN open \ {i} ELSE open
  /\ UNCHANGED <<issued, pinned, proved, member>>

(* The link is used up, whether or not its owner was a member before.      *)
Join(i) ==
  /\ i \in open
  /\ i \in pinned => i \in proved
  /\ open' = open \ {i}
  /\ member' = TRUE
  /\ UNCHANGED <<issued, pinned, proved, wrong>>

(* The administration of members adds or removes the person by other ways. *)
Otherwise ==
  /\ member' = ~member
  /\ UNCHANGED <<issued, pinned, open, proved, wrong>>

Next ==
  \/ \E i \in Links :
       Issue(i) \/ Withdraw(i) \/ Prove(i) \/ Guess(i) \/ Join(i)
  \/ Otherwise

Spec == Init /\ [][Next]_vars
=============================================================================
