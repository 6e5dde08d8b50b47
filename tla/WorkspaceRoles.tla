--------------------------- MODULE WorkspaceRoles ---------------------------
(***************************************************************************)
(* What the membership administration promises of one workspace, without   *)
(* rows, sessions or locks: who holds which role, and which changes of it  *)
(* a member may bring about (docs/04_technical/AUTHORIZATION.md and        *)
(* MEMBERSHIP_MANAGEMENT.md).  Each change happens at once, decided by the *)
(* roles of that moment.  The operator's command line, which answers to    *)
(* nobody, is outside the promise.                                         *)
(***************************************************************************)
EXTENDS Authz

CONSTANTS Users, None

VARIABLES
  phase,      \* "absent", "live" or "deleted"
  roleOf,     \* the role each user has in the workspace, or None
  offers,     \* roles that users may take up: pairs of a user and a role
  requester   \* the member whose request is being served, or None

vars == <<phase, roleOf, offers, requester>>

Members == {u \in Users : roleOf[u] # None}
Owners  == {u \in Users : roleOf[u] = "OWNER"}

Init ==
  /\ phase \in {"absent", "live"}
  /\ roleOf = [u \in Users |-> None]
  /\ offers = {}
  /\ requester = None

(* Any user may found it, and so becomes its OWNER.                        *)
Found(u) ==
  /\ phase = "absent"
  /\ phase' = "live"
  /\ roleOf' = [roleOf EXCEPT ![u] = "OWNER"]
  /\ UNCHANGED <<offers, requester>>

Ask(u) ==
  /\ requester = None
  /\ u \in Members
  /\ requester' = u
  /\ UNCHANGED <<phase, roleOf, offers>>

(* The requester gives u the role x (None: no role any more).  Managing    *)
(* members takes the capability, making or unmaking an OWNER takes an      *)
(* OWNER, and one OWNER remains.                                           *)
Manage(u, x) ==
  /\ requester \in Members
  /\ HasCapability(roleOf[requester], "manage_members")
  /\ AuthorizeMemberRoleChange(roleOf[requester], {roleOf[u], x})
  /\ roleOf' = [roleOf EXCEPT ![u] = x]
  /\ Owners' # {}
  /\ requester' = None
  /\ UNCHANGED <<phase, offers>>

(* The requester offers u the role x, in place of what u was offered       *)
(* before, as far as it might have given it.                               *)
Offer(u, x) ==
  /\ requester \in Members
  /\ HasCapability(roleOf[requester], "manage_members")
  /\ AuthorizeMemberRoleChange(roleOf[requester], {x})
  /\ offers' = {o \in offers : o[1] # u} \cup {<<u, x>>}
  /\ requester' = None
  /\ UNCHANGED <<phase, roleOf>>

(* u takes up an offer, once; it changes nothing for a member.             *)
Accept(u, x) ==
  /\ requester = None
  /\ <<u, x>> \in offers
  /\ offers' = offers \ {<<u, x>>}
  /\ roleOf' = [roleOf EXCEPT ![u] = IF @ = None THEN x ELSE @]
  /\ UNCHANGED <<phase, requester>>

Dissolve ==
  /\ requester \in Members
  /\ HasCapability(roleOf[requester], "manage_workspace")
  /\ phase' = "deleted"
  /\ roleOf' = [u \in Users |-> None]
  /\ offers' = {}
  /\ requester' = None

(* Not found, refused, or broken off: nothing has changed.                 *)
Decline ==
  /\ requester' = None
  /\ UNCHANGED <<phase, roleOf, offers>>

Next ==
  \/ \E u \in Users : Found(u) \/ Ask(u)
  \/ \E u \in Users, x \in Roles \cup {None} : Manage(u, x)
  \/ \E u \in Users, x \in Roles : Offer(u, x) \/ Accept(u, x)
  \/ Dissolve \/ Decline

Spec == Init /\ [][Next]_vars
=============================================================================
