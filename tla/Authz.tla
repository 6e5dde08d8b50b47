------------------------------- MODULE Authz --------------------------------
(***************************************************************************)
(* The authorization table of a workspace: the closed set of roles, what   *)
(* each of them may do, and the boundary that keeps an ADMIN away from the *)
(* OWNER memberships (services/authz.py).  Only constant operators.        *)
(***************************************************************************)

Roles == {"OWNER", "ADMIN", "EDITOR", "VIEWER"}

Capabilities ==
  {"read", "write_records", "change_structure", "manage_members",
   "manage_workspace"}

CapabilitiesOf(role) ==
  CASE role = "OWNER"  -> Capabilities
    [] role = "ADMIN"  -> Capabilities \ {"manage_workspace"}
    [] role = "EDITOR" -> {"read", "write_records"}
    [] role = "VIEWER" -> {"read"}

HasCapability(role, capability) == capability \in CapabilitiesOf(role)

(***************************************************************************)
(* authorize_member_role_change: whoever is not an OWNER may neither touch *)
(* an OWNER membership nor hand the role out.  roles is the set of the     *)
(* roles the call names (current_role, new_role, those that are given).    *)
(***************************************************************************)
AuthorizeMemberRoleChange(actor, roles) ==
  actor = "OWNER" \/ "OWNER" \notin roles
=============================================================================
