----------------------------- MODULE Membership -----------------------------
(***************************************************************************)
(* The membership administration of one workspace: the HTTP handlers that  *)
(* add, change, remove and invite members, create accounts for them and    *)
(* delete the workspace, the acceptance of an invitation, the operator's   *)
(* command line, and the PostgreSQL transactions they run in.  Handlers    *)
(* run in a thread pool, each with a database session of its own, so the   *)
(* statements of different requests interleave.  Memberships of different  *)
(* workspaces never meet in the code: one workspace stands for all.        *)
(*                                                                         *)
(* Two things of the database layer carry the behaviour:                   *)
(*   - READ COMMITTED: a statement reads what is committed when it starts; *)
(*     SELECT ... FOR UPDATE then takes the rows of that snapshot one by   *)
(*     one, in no stated order, waits for each, and drops deleted ones;    *)
(*   - the session's identity map: a row is loaded once per transaction,   *)
(*     and a later SELECT that returns it, FOR UPDATE included, leaves the *)
(*     attributes the first one loaded.                                    *)
(***************************************************************************)
EXTENDS Authz, FiniteSets, Integers

CONSTANTS
  Users,      \* accounts
  Ids,        \* primary keys of membership rows
  Requests,   \* slots that serve HTTP requests
  Operators,  \* slots that run commands of cli.py; a slot may be in both sets
  Asked,      \* the roles callers ask for
  Invitees,   \* the accounts whose addresses are invited
  None        \* SQL NULL, Python None

Slots == Requests \cup Operators

ASSUME NoneAssumption == None \notin Users \cup Ids \cup Slots \cup Roles

ASSUME AskedAssumption == Asked \subseteq Roles

ASSUME InviteesAssumption == Invitees \subseteq Users

ASSUME IdsAssumption == IsFiniteSet(Ids)

VARIABLES
  workspace,  \* "absent", "live" or "deleted": its row in table workspaces
  user,       \* user[i]: column user_id of membership i, None if no such row
  role,       \* role[i]: column role of membership i, None if no such row
  invited,    \* the links that may be accepted: whom they name, and the role
  wsLock,     \* the slot that holds the row lock on the workspace
  lockedBy,   \* lockedBy[i]: the slot that holds the row lock on membership i
  pc,         \* pc[r]: where the handler of slot r stands
  job,        \* job[r]: what it was asked to do
  view,       \* view[r][i]: the role its session loaded for i, None if it did not
  todo        \* todo[r]: rows of its locking statement it has not reached yet

table   == <<workspace, user, role, invited>>
locks   == <<wsLock, lockedBy>>
session == <<pc, job, view, todo>>
vars    == <<table, locks, session>>

NoJob ==
  [op |-> "none", self |-> None, target |-> None, subject |-> None,
   role |-> None, links |-> {}]

NoView == [i \in Ids |-> None]

Init ==
  /\ workspace \in {"absent", "live"}   \* live: an orphan from before accounts
  /\ user = [i \in Ids |-> None]
  /\ role = [i \in Ids |-> None]
  /\ invited = {}
  /\ wsLock = None
  /\ lockedBy = [i \in Ids |-> None]
  /\ pc = [r \in Slots |-> "idle"]
  /\ job = [r \in Slots |-> NoJob]
  /\ view = [r \in Slots |-> NoView]
  /\ todo = [r \in Slots |-> {}]

-----------------------------------------------------------------------------
(* Reading the state.                                                      *)

Exists(i) == role[i] # None

IsMember(u) == \E i \in Ids : user[i] = u

(* The links for u that are neither accepted nor replaced.  Their PINs,    *)
(* expiry and revocation are in Invitations; here a link that has died is  *)
(* one that nobody goes on to accept.                                      *)
LinksFor(u) == {link \in invited : link[1] = u}

(* A uuid that has no row and that no other request remembers: as good as  *)
(* one never used before.                                                  *)
Fresh(r, i) ==
  /\ ~Exists(i)
  /\ \A q \in Slots \ {r} :
       /\ i \notin {job[q].self, job[q].target}
       /\ i \notin todo[q]

(* The link that a job accepts.                                            *)
LinkOf(j) == IF j.op = "accept" THEN {<<j.subject, j.role>>} ELSE {}

(* What sum(item.role == OWNER for item in memberships) counts.            *)
OwnersSeen(r) == {i \in Ids : lockedBy[i] = r /\ view[r][i] = "OWNER"}

(* Mutant of LeavesAnOwner: the comparison is off by one.                  *)
LeavesAnOwnerOffByOne(r) ==
  view[r][job[r].target] = "OWNER" => Cardinality(OwnersSeen(r)) >= 1

LeavesAnOwner(r) ==
  view[r][job[r].target] = "OWNER" => Cardinality(OwnersSeen(r)) > 1

-----------------------------------------------------------------------------
(* Beginning and ending a handler.                                         *)

(* authorize_workspace: the caller's own membership is the first thing the *)
(* session loads.  A caller that is refused here changes nothing.          *)
Authorized(r, self, capability) ==
  /\ r \in Requests
  /\ pc[r] = "idle"
  /\ Exists(self)
  /\ HasCapability(role[self], capability)

Begin(r, at, j, seen) ==
  /\ pc' = [pc EXCEPT ![r] = at]
  /\ job' = [job EXCEPT ![r] = j]
  /\ view' = [view EXCEPT ![r] = seen]
  /\ UNCHANGED <<table, locks, todo>>

Loaded(i) == [NoView EXCEPT ![i] = role[i]]

(* Mutant of Finish: a session that is not closed keeps its row locks.     *)
FinishKeepingLocks(r) ==
  /\ pc' = [pc EXCEPT ![r] = "idle"]
  /\ job' = [job EXCEPT ![r] = NoJob]
  /\ view' = [view EXCEPT ![r] = NoView]
  /\ todo' = [todo EXCEPT ![r] = {}]
  /\ UNCHANGED locks

(* The transaction ends, by COMMIT or by the rollback of db.close(): its   *)
(* locks are released and its identity map is gone.                        *)
Finish(r) ==
  /\ pc' = [pc EXCEPT ![r] = "idle"]
  /\ job' = [job EXCEPT ![r] = NoJob]
  /\ view' = [view EXCEPT ![r] = NoView]
  /\ todo' = [todo EXCEPT ![r] = {}]
  /\ lockedBy' = [i \in Ids |-> IF lockedBy[i] = r THEN None ELSE lockedBy[i]]
  /\ wsLock' = IF wsLock = r THEN None ELSE wsLock

-----------------------------------------------------------------------------
(* Handlers, up to their first read.                                       *)

(* Mutant of UpdateMember: the role of the body is any string.             *)
UpdateMemberAnyString(r) ==
  \E self, target \in Ids, asked \in Asked \cup {"MANAGER"} :
    /\ Authorized(r, self, "manage_members")
    /\ Begin(r, "target",
             [NoJob EXCEPT !.op = "change", !.self = self, !.target = target,
                           !.role = asked],
             Loaded(self))

UpdateMember(r) ==
  \E self, target \in Ids, asked \in Asked :
    /\ Authorized(r, self, "manage_members")
    /\ Begin(r, "target",
             [NoJob EXCEPT !.op = "change", !.self = self, !.target = target,
                           !.role = asked],
             Loaded(self))

RemoveMember(r) ==
  \E self, target \in Ids :
    /\ Authorized(r, self, "manage_members")
    /\ Begin(r, "target",
             [NoJob EXCEPT !.op = "remove", !.self = self, !.target = target],
             Loaded(self))

(* Mutant of AddMember: the OWNER boundary is not checked for a new member.*)
AddMemberOfAnyRole(r) ==
  \E self \in Ids, subject \in Users, asked \in Asked :
    /\ Authorized(r, self, "manage_members")
    /\ Begin(r, "check",
             [NoJob EXCEPT !.op = "add", !.self = self, !.subject = subject,
                           !.role = asked],
             Loaded(self))

AddMember(r) ==
  \E self \in Ids, subject \in Users, asked \in Asked :
    /\ Authorized(r, self, "manage_members")
    /\ AuthorizeMemberRoleChange(role[self], {asked})
    /\ Begin(r, "check",
             [NoJob EXCEPT !.op = "add", !.self = self, !.subject = subject,
                           !.role = asked],
             Loaded(self))

DeleteWorkspace(r) ==
  \E self \in Ids :
    /\ Authorized(r, self, "manage_workspace")
    /\ Begin(r, "select", [NoJob EXCEPT !.op = "delete", !.self = self],
             Loaded(self))

(* create_local_user finds no account of this address, commits one, twice, *)
(* and goes on to grant_membership.  A user whom nothing mentions is as    *)
(* good as one without an account; from here on it has one.                *)
CreateLocalUser(r) ==
  \E self \in Ids, subject \in Users, asked \in Asked :
    /\ Authorized(r, self, "manage_members")
    /\ AuthorizeMemberRoleChange(role[self], {asked})
    /\ ~IsMember(subject) /\ \A q \in Slots : job[q].subject # subject
    /\ Begin(r, "grant",
             [NoJob EXCEPT !.op = "local", !.self = self, !.subject = subject,
                           !.role = asked],
             Loaded(self))

(* Mutant of CreateInvitation: the role of the link is not held to the     *)
(* OWNER boundary.                                                         *)
CreateInvitationOfAnyRole(r) ==
  \E self \in Ids, subject \in Invitees, asked \in Asked :
    /\ Authorized(r, self, "manage_members")
    /\ Begin(r, "invite",
             [NoJob EXCEPT !.op = "invite", !.self = self, !.subject = subject,
                           !.role = asked, !.links = LinksFor(subject)],
             Loaded(self))

(* create_invitation, up to the links it will replace.                     *)
CreateInvitation(r) ==
  \E self \in Ids, subject \in Invitees, asked \in Asked :
    /\ Authorized(r, self, "manage_members")
    /\ AuthorizeMemberRoleChange(role[self], {asked})
    /\ Begin(r, "invite",
             [NoJob EXCEPT !.op = "invite", !.self = self, !.subject = subject,
                           !.role = asked, !.links = LinksFor(subject)],
             Loaded(self))

(* accept asks nobody's leave: the link is the leave.                      *)
AcceptInvitation(r) ==
  \E link \in invited :
    /\ r \in Requests
    /\ pc[r] = "idle"
    /\ Begin(r, "check",
             [NoJob EXCEPT !.op = "accept", !.subject = link[1],
                           !.role = link[2]],
             NoView)

(* The command line's grant asks nobody's leave either.                    *)
GrantCommand(r) ==
  \E subject \in Users, asked \in Asked :
    /\ r \in Operators
    /\ pc[r] = "idle"
    /\ workspace # "absent"
    /\ Begin(r, "grant",
             [NoJob EXCEPT !.op = "grant", !.subject = subject,
                           !.role = asked],
             NoView)

AdoptOrphans(r) ==
  \E subject \in Users :
    /\ r \in Operators
    /\ pc[r] = "idle"
    /\ workspace = "live"
    /\ \A i \in Ids : ~Exists(i)
    /\ Begin(r, "insert",
             [NoJob EXCEPT !.op = "adopt", !.subject = subject,
                           !.role = "OWNER"],
             NoView)

(* The workspace and its OWNER, flushed apart and committed together.      *)
CreateWorkspace(r) ==
  \E u \in Users, i \in Ids :
    /\ pc[r] = "idle"
    /\ workspace = "absent"
    /\ Fresh(r, i)
    /\ workspace' = "live"
    /\ user' = [user EXCEPT ![i] = u]
    /\ role' = [role EXCEPT ![i] = "OWNER"]
    /\ UNCHANGED <<invited, locks, session>>

-----------------------------------------------------------------------------
(* Statements inside a handler.                                            *)

(* Mutant of ReadTarget: only the role asked for is held to the boundary.  *)
ReadTargetNewRoleOnly(r) ==
  LET t    == job[r].target
      seen == IF view[r][t] = None THEN role[t] ELSE view[r][t]
      allowed ==
        /\ Exists(t)
        /\ AuthorizeMemberRoleChange(view[r][job[r].self], {job[r].role})
  IN  /\ pc[r] = "target"
      /\ UNCHANGED table
      /\ \/ /\ allowed
            /\ pc' = [pc EXCEPT ![r] = "select"]
            /\ view' = [view EXCEPT ![r][t] = seen]
            /\ UNCHANGED <<locks, job, todo>>
         \/ ~allowed /\ Finish(r)

(* get_workspace_membership and the check of the OWNER boundary.           *)
ReadTarget(r) ==
  LET self == job[r].self
      t    == job[r].target
      seen == IF view[r][t] = None THEN role[t] ELSE view[r][t]
      allowed ==
        Exists(t) /\ AuthorizeMemberRoleChange(view[r][self], {seen, job[r].role})
  IN  /\ pc[r] = "target"
      /\ UNCHANGED table
      /\ \/ /\ allowed
            /\ pc' = [pc EXCEPT ![r] = "select"]
            /\ view' = [view EXCEPT ![r][t] = seen]
            /\ UNCHANGED <<locks, job, todo>>
         \/ ~allowed /\ Finish(r)

(* add_existing_user and accept look for the membership before they       *)
(* insert one; the link of a member is used up all the same.               *)
CheckExisting(r) ==
  /\ pc[r] = "check"
  /\ UNCHANGED <<workspace, user, role>>
  /\ \/ /\ ~IsMember(job[r].subject)
        /\ pc' = [pc EXCEPT ![r] = "insert"]
        /\ UNCHANGED <<invited, locks, job, view, todo>>
     \/ /\ IsMember(job[r].subject)
        /\ invited' = invited \ LinkOf(job[r])
        /\ Finish(r)

(* grant_membership looks for the membership, to change it or to insert    *)
(* one.                                                                    *)
GrantMembership(r) ==
  /\ pc[r] = "grant"
  /\ UNCHANGED <<table, locks, todo>>
  /\ \/ /\ ~IsMember(job[r].subject)
        /\ pc' = [pc EXCEPT ![r] = "insert"]
        /\ UNCHANGED <<job, view>>
     \/ \E i \in Ids :
          /\ user[i] = job[r].subject
          /\ pc' = [pc EXCEPT ![r] = "update"]
          /\ job' = [job EXCEPT ![r].target = i]
          /\ view' = [view EXCEPT ![r][i] = IF @ = None THEN role[i] ELSE @]

(* Mutants of InsertMembership: the table has no foreign key to workspaces *)
(* (it neither waits nor fails), and it has no unique constraint.          *)
InsertMembershipNoForeignKey(r) ==
  /\ pc[r] = "insert"
  /\ ~IsMember(job[r].subject)
  /\ \E i \in Ids :
       /\ Fresh(r, i)
       /\ user' = [user EXCEPT ![i] = job[r].subject]
       /\ role' = [role EXCEPT ![i] = job[r].role]
  /\ invited' = invited \ LinkOf(job[r])
  /\ UNCHANGED workspace
  /\ Finish(r)

InsertMembershipNoUnique(r) ==
  /\ pc[r] = "insert"
  /\ wsLock = None /\ workspace = "live"
  /\ \E i \in Ids :
       /\ Fresh(r, i)
       /\ user' = [user EXCEPT ![i] = job[r].subject]
       /\ role' = [role EXCEPT ![i] = job[r].role]
  /\ invited' = invited \ LinkOf(job[r])
  /\ UNCHANGED workspace
  /\ Finish(r)

(* INSERT and COMMIT, of an acceptance together with accepted_at.  The     *)
(* foreign key waits for a delete of the workspace in progress; it and the *)
(* unique constraint turn the insert into a 409 or a 500 that leaves no    *)
(* trace.                                                                  *)
InsertMembership(r) ==
  /\ pc[r] = "insert"
  /\ wsLock = None
  /\ \/ /\ workspace = "live"
        /\ ~IsMember(job[r].subject)
        /\ \E i \in Ids :
             /\ Fresh(r, i)
             /\ user' = [user EXCEPT ![i] = job[r].subject]
             /\ role' = [role EXCEPT ![i] = job[r].role]
        /\ invited' = invited \ LinkOf(job[r])
     \/ /\ workspace # "live" \/ IsMember(job[r].subject)
        /\ UNCHANGED <<user, role, invited>>
  /\ UNCHANGED workspace
  /\ Finish(r)

(* The new link and the end of those it replaces, under the foreign key to *)
(* the workspace.                                                          *)
Invite(r) ==
  /\ pc[r] = "invite"
  /\ wsLock = None
  /\ invited' =
       IF workspace = "live"
       THEN (invited \ job[r].links) \cup {<<job[r].subject, job[r].role>>}
       ELSE invited
  /\ UNCHANGED <<workspace, user, role>>
  /\ Finish(r)

(* UPDATE by primary key, issued only when the role differs from the one   *)
(* loaded; no row matched is a StaleDataError.                             *)
UpdateGranted(r) ==
  LET t == job[r].target
      differs == view[r][t] # job[r].role
  IN  /\ pc[r] = "update"
      /\ differs => lockedBy[t] = None
      /\ role' = IF differs /\ Exists(t)
                 THEN [role EXCEPT ![t] = job[r].role] ELSE role
      /\ UNCHANGED <<workspace, user, invited>>
      /\ Finish(r)

(* Mutant of LockMemberships: the members are read before they are locked. *)
LockMembershipsAfterReading(r) ==
  /\ pc[r] = "select"
  /\ job[r].op \in {"change", "remove"}
  /\ pc' = [pc EXCEPT ![r] = "lock"]
  /\ todo' = [todo EXCEPT ![r] = {i \in Ids : Exists(i)}]
  /\ view' = [view EXCEPT ![r] =
               [i \in Ids |-> IF @[i] = None THEN role[i] ELSE @[i]]]
  /\ UNCHANGED <<table, locks, job>>

(* SELECT ... FOR UPDATE fixes the rows it will return.                    *)
LockMemberships(r) ==
  /\ pc[r] = "select"
  /\ job[r].op \in {"change", "remove"}
  /\ pc' = [pc EXCEPT ![r] = "lock"]
  /\ todo' = [todo EXCEPT ![r] = {i \in Ids : Exists(i)}]
  /\ UNCHANGED <<table, locks, job, view>>

(* DELETE FROM workspaces locks the row, and its cascade then goes through *)
(* the memberships; a workspace already gone is a warning.                 *)
LockWorkspace(r) ==
  /\ pc[r] = "select"
  /\ job[r].op = "delete"
  /\ wsLock = None
  /\ UNCHANGED table
  /\ \/ /\ workspace = "live"
        /\ wsLock' = r
        /\ pc' = [pc EXCEPT ![r] = "lock"]
        /\ todo' = [todo EXCEPT ![r] = {i \in Ids : Exists(i)}]
        /\ UNCHANGED <<lockedBy, job, view>>
     \/ workspace # "live" /\ Finish(r)

(* One row of the statement: locked, or skipped because it was deleted     *)
(* meanwhile.  The ORM keeps the role it knows, if it knows one.           *)
LockRow(r) ==
  \E i \in todo[r] :
    /\ pc[r] = "lock"
    /\ lockedBy[i] = None
    /\ todo' = [todo EXCEPT ![r] = @ \ {i}]
    /\ lockedBy' = [lockedBy EXCEPT ![i] = IF Exists(i) THEN r ELSE None]
    /\ view' = IF view[r][i] = None /\ job[r].op # "delete"
               THEN [view EXCEPT ![r][i] = role[i]] ELSE view
    /\ UNCHANGED <<table, wsLock, pc, job>>

HasLocked(r, op) == pc[r] = "lock" /\ job[r].op = op /\ todo[r] = {}

(* Mutant of ChangeRole: the OWNERs are not counted.                       *)
ChangeRoleUncounted(r) ==
  LET t == job[r].target
  IN  /\ HasLocked(r, "change")
      /\ role' = IF lockedBy[t] = r THEN [role EXCEPT ![t] = job[r].role]
                 ELSE role
      /\ UNCHANGED <<workspace, user, invited>>
      /\ Finish(r)

(* change_role after its locking statement: 404, 409, or the UPDATE, which *)
(* the ORM leaves out when the role it loaded is the one asked for.        *)
ChangeRole(r) ==
  LET t == job[r].target
      accepted ==
        lockedBy[t] = r /\ (job[r].role = "OWNER" \/ LeavesAnOwner(r))
  IN  /\ HasLocked(r, "change")
      /\ role' = IF accepted /\ view[r][t] # job[r].role
                 THEN [role EXCEPT ![t] = job[r].role] ELSE role
      /\ UNCHANGED <<workspace, user, invited>>
      /\ Finish(r)

(* remove_member of the service after its locking statement.               *)
DeleteMember(r) ==
  LET t == job[r].target
      accepted == lockedBy[t] = r /\ LeavesAnOwner(r)
  IN  /\ HasLocked(r, "remove")
      /\ role' = IF accepted THEN [role EXCEPT ![t] = None] ELSE role
      /\ user' = IF accepted THEN [user EXCEPT ![t] = None] ELSE user
      /\ UNCHANGED <<workspace, invited>>
      /\ Finish(r)

(* The cascade has reached every row it saw; COMMIT.                       *)
DropWorkspace(r) ==
  /\ HasLocked(r, "delete")
  /\ workspace' = "deleted"
  /\ role' = [i \in Ids |-> IF lockedBy[i] = r THEN None ELSE role[i]]
  /\ user' = [i \in Ids |-> IF lockedBy[i] = r THEN None ELSE user[i]]
  /\ invited' = {}
  /\ Finish(r)

-----------------------------------------------------------------------------
(* Transactions that end early.                                            *)

(* r still has to lock a row that q holds.                                 *)
Waits(r, q) == pc[r] = "lock" /\ \E i \in todo[r] : lockedBy[i] = q

(* The server's deadlock detector: every member of S waits for a member.   *)
DeadlockAbort(r) ==
  /\ \E S \in SUBSET Slots :
       r \in S /\ \A q \in S : \E p \in S \ {q} : Waits(q, p)
  /\ UNCHANGED table
  /\ Finish(r)

(* A lost connection, a killed worker, a statement that fails: 500.        *)
Fail(r) ==
  /\ pc[r] # "idle"
  /\ UNCHANGED table
  /\ Finish(r)

Arrive(r) ==
  \/ UpdateMember(r) \/ RemoveMember(r) \/ AddMember(r) \/ DeleteWorkspace(r)
  \/ CreateLocalUser(r) \/ CreateInvitation(r) \/ AcceptInvitation(r)
  \/ GrantCommand(r) \/ AdoptOrphans(r) \/ CreateWorkspace(r)

Proceed(r) ==
  \/ ReadTarget(r) \/ CheckExisting(r) \/ GrantMembership(r)
  \/ InsertMembership(r) \/ UpdateGranted(r) \/ Invite(r)
  \/ LockMemberships(r) \/ LockWorkspace(r) \/ LockRow(r)
  \/ ChangeRole(r) \/ DeleteMember(r) \/ DropWorkspace(r)

Next ==
  \E r \in Slots : Arrive(r) \/ Proceed(r) \/ DeadlockAbort(r) \/ Fail(r)

Spec == Init /\ [][Next]_vars

(* A thread goes on to its next statement, and PostgreSQL grants a lock in *)
(* the order of the waits, so a wait that can end again and again ends;    *)
(* the deadlock detector runs for every transaction that waits too long.   *)
Fairness ==
  \A r \in Slots : SF_vars(Proceed(r)) /\ WF_vars(DeadlockAbort(r))

FairSpec == Spec /\ Fairness

-----------------------------------------------------------------------------
(* Types.                                                                  *)

Ops ==
  {"none", "change", "remove", "add", "local", "invite", "accept", "grant",
   "adopt", "delete"}

Links == Users \X Roles

Jobs ==
  [op : Ops, self : Ids \cup {None}, target : Ids \cup {None},
   subject : Users \cup {None}, role : Roles \cup {None},
   links : SUBSET Links]

(* Every variable holds a value of its kind.                               *)
TypeOK ==
  /\ workspace \in {"absent", "live", "deleted"}
  /\ user \in [Ids -> Users \cup {None}]
  /\ role \in [Ids -> Roles \cup {None}]
  /\ wsLock \in Slots \cup {None}
  /\ lockedBy \in [Ids -> Slots \cup {None}]
  /\ invited \in SUBSET Links
  /\ pc \in [Slots -> {"idle", "target", "check", "grant", "insert", "update",
                       "invite", "select", "lock"}]
  /\ job \in [Slots -> Jobs]
  /\ view \in [Slots -> [Ids -> Roles \cup {None}]]
  /\ todo \in [Slots -> SUBSET Ids]

-----------------------------------------------------------------------------
(* Properties.                                                             *)

HasOwner == \E i \in Ids : role[i] = "OWNER"

(* A workspace that has members has an OWNER among them: the last one is   *)
(* neither demoted nor removed (change_role, remove_member).               *)
MembersHaveOwner == (\E i \in Ids : Exists(i)) => HasOwner

(* A user has one membership of a workspace, whatever inserts race, and a  *)
(* row has a user as long as it has a role.                                *)
OneMembershipEach ==
  /\ \A i, k \in Ids : user[i] = user[k] /\ user[i] # None => i = k
  /\ \A i \in Ids : user[i] = None <=> ~Exists(i)

(* What a handler reads under its row locks is what the table holds until  *)
(* it commits, for every row but the two its session had loaded before:    *)
(* the caller's membership and the target's.  The last-owner count of      *)
(* change_role and remove_member is right exactly as far as this goes.     *)
LockedReadsAreCurrent ==
  \A r \in Slots, i \in Ids :
    /\ lockedBy[i] = r
    /\ job[r].op \in {"change", "remove"}
    /\ i \notin {job[r].self, job[r].target}
    => view[r][i] = role[i] /\ Exists(i)

(* Deleting a workspace leaves no membership behind, also when members are *)
(* being added, changed or removed while the cascade waits for row locks.  *)
NoRowOutlivesWorkspace ==
  workspace = "deleted" => \A i \in Ids : ~Exists(i)

(* r's session believes its caller an OWNER who no longer is one, or its   *)
(* target no OWNER although it has become one.                             *)
StaleOnOwner(r) ==
  \/ view[r][job[r].self] = "OWNER" /\ role[job[r].self] # "OWNER"
  \/ view[r][job[r].target] # "OWNER" /\ role[job[r].target] = "OWNER"

(* A step that leaves the members of a workspace without any OWNER is the  *)
(* UPDATE of a grant_membership, or the commit of a change or removal      *)
(* whose session is stale on its caller or its target: the count itself,   *)
(* over the locked rows, never lets the last OWNER go.  The grant is the   *)
(* command line's, or that of a create_local_user whose new account        *)
(* another request has made a member in between.                           *)
OwnersLostOnlyByStaleRead ==
  [][ (HasOwner /\ ~HasOwner' /\ workspace' = "live")
      => \E r \in Slots :
           \/ pc[r] = "update"
           \/ /\ job[r].op \in {"change", "remove"}
              /\ pc[r] = "lock" /\ pc'[r] = "idle"
              /\ StaleOnOwner(r) ]_vars

(* The commit of an HTTP request that makes or unmakes an OWNER, or makes  *)
(* a link that does.                                                       *)
CrossesBoundary(r) ==
  /\ pc[r] # "idle" /\ pc'[r] = "idle"
  /\ job[r].op \notin {"grant", "adopt"}
  /\ \/ \E i \in Ids : (role[i] = "OWNER") # (role'[i] = "OWNER")
     \/ \E u \in Users : <<u, "OWNER">> \in invited' \ invited

AdmittedAsOwner(r) ==
  job[r].self # None /\ view[r][job[r].self] = "OWNER"

(* An HTTP request makes, changes or removes an OWNER membership, or makes *)
(* a link to one, only when it was admitted as an OWNER's; or its target   *)
(* has become an OWNER where it did not see one: a change or removal that  *)
(* read the target before it locked the rows, a create_local_user that     *)
(* found no such account; or it accepts a link to be an OWNER, which only  *)
(* an OWNER can have made (authorize_member_role_change, and its place     *)
(* before the reads that it should cover).                                 *)
BoundaryCrossedOnlyByStaleRead ==
  [][ \A r \in Slots :
        CrossesBoundary(r) =>
          \/ AdmittedAsOwner(r)
          \/ /\ job[r].op \in {"change", "remove"}
             /\ view[r][job[r].target] # "OWNER"
             /\ role[job[r].target] = "OWNER"
          \/ /\ job[r].op = "local"
             /\ pc[r] = "update"
             /\ role[job[r].target] = "OWNER"
          \/ job[r].op = "accept" /\ job[r].role = "OWNER" ]_vars

(* Every handler returns: row locks that requests take in different orders *)
(* and every early return give up what they hold.                          *)
RequestsEnd == \A r \in Slots : pc[r] # "idle" ~> pc[r] = "idle"

-----------------------------------------------------------------------------
(* The promise, for handlers that do not overlap.                          *)

(* At most one handler is under way.                                       *)
OneAtATime ==
  \A q, r \in Slots : pc[q] # "idle" /\ pc[r] # "idle" => q = r

(* The operator changes nobody's role; no command of the operator runs.    *)
NoGrant   == \A r \in Slots : job[r].op # "grant"
NoCommand == \A r \in Slots : job[r].op \notin {"grant", "adopt"}

(* A user's role is that of the user's row.                                *)
RoleOf ==
  [u \in Users |->
     IF IsMember(u) THEN role[CHOOSE i \in Ids : user[i] = u] ELSE None]

(* The member whose request has begun, if one has; an acceptance is no     *)
(* member's.                                                               *)
Requester ==
  LET busy == {r \in Slots : pc[r] # "idle"}
      self == job[CHOOSE r \in busy : TRUE].self
  IN IF busy = {} \/ self = None THEN None ELSE user[self]

Promise ==
  INSTANCE WorkspaceRoles
    WITH phase <- workspace, roleOf <- RoleOf, requester <- Requester,
         offers <- invited

(* One handler at a time, the members' administration does what it         *)
(* promises: every commit is one change of one user's role that the role   *)
(* of the very user who asked for it allows and that leaves an OWNER       *)
(* (WorkspaceRoles!Manage), the founding or the deletion of the workspace, *)
(* and every other step changes nobody's role.                             *)
KeepsPromise == Promise!Spec
=============================================================================
