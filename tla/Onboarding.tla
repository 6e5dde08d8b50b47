----------------------------- MODULE Onboarding -----------------------------
(***************************************************************************)
(* How an address becomes an account and a member of one workspace: by an  *)
(* administrator's create_local_user, whose three commits may be cut short *)
(* or overtaken, by the operator's create-owner, by the acceptance of an   *)
(* invitation, by add_member for an account that exists.  An account's row *)
(* is a function of its id, as in Store; the addresses that callers type   *)
(* are spellings.                                                          *)
(***************************************************************************)
EXTENDS Authz

CONSTANTS
  Accounts,   \* ids
  Spellings,  \* of addresses
  Normal,     \* Normal[s]: the spelling s trimmed and in lower case
  EmailOf,    \* the address stored in an account's row
  Slots,      \* threads that serve requests
  None

ASSUME NoneAssumption == None \notin Accounts \cup Roles

ASSUME SpellingAssumption ==
  /\ Normal \in [Spellings -> Spellings]
  /\ \A s \in Spellings : Normal[Normal[s]] = Normal[s]
  /\ EmailOf \in [Accounts -> Spellings]

VARIABLES
  accounts,  \* the ids that have a row
  password,  \* password[a]: "issued" by the server, "chosen" by a person
  flag,      \* flag[a]: must_change_password
  role,      \* role[a]: the role in the workspace, None if no member
  told,      \* history: accounts whose password somebody knows
  pc, job,   \* where the request of each slot stands, its job
  crossed    \* history: requests that another commit overtook

rows == <<accounts, password, flag, role, told>>
vars == <<rows, pc, job, crossed>>

NoJob == [op |-> "none", account |-> None, role |-> None, found |-> None]

Init ==
  /\ accounts = {} /\ told = {}
  /\ password = [a \in Accounts |-> "none"]
  /\ flag = [a \in Accounts |-> FALSE]
  /\ role = [a \in Accounts |-> None]
  /\ pc = [r \in Slots |-> "idle"]
  /\ job = [r \in Slots |-> NoJob]
  /\ crossed = {}

-----------------------------------------------------------------------------
Begin(r, at, j) ==
  /\ pc[r] = "idle"
  /\ pc' = [pc EXCEPT ![r] = at]
  /\ job' = [job EXCEPT ![r] = j]
  /\ UNCHANGED <<rows, crossed>>

(* A commit overtakes the requests under way.                              *)
Overtake(r) ==
  crossed' = {q \in Slots : \/ q \in crossed /\ pc'[q] # "idle"
                            \/ q # r /\ pc[q] # "idle" /\ rows' # rows}

Continue(r, at, j) ==
  /\ pc' = [pc EXCEPT ![r] = at]
  /\ job' = [job EXCEPT ![r] = j]
  /\ Overtake(r)

End(r) == Continue(r, "idle", NoJob)

Refuse(r) == UNCHANGED rows /\ End(r)

(* Mutant of NormalizeEmail: an address is looked up as it was typed.      *)
NormalizeEmailNot(s) == s

NormalizeEmail(s) == Normal[s]

(* find_user_by_email                                                      *)
Found(s) == {a \in accounts : EmailOf[a] = NormalizeEmail(s)}

(* The row that an INSERT for this address would make.                     *)
New(s) ==
  {a \in Accounts \ accounts :
     /\ EmailOf[a] = NormalizeEmail(s)
     /\ \A r \in Slots : job[r].account # a}

-----------------------------------------------------------------------------
(* What a request reads first.                                             *)

(* create_local_user, up to its first look at the address: an ADMIN cannot *)
(* ask for an OWNER, and an account that exists is a conflict.             *)
CreateLocalUser(r) ==
  \E s \in Spellings, actor \in {"OWNER", "ADMIN"}, asked \in Roles :
  \E a \in New(s) :
    /\ AuthorizeMemberRoleChange(actor, {asked})
    /\ Found(s) = {}
    /\ Begin(r, "insert",
             [NoJob EXCEPT !.op = "local", !.account = a, !.role = asked])

(* cmd_create_owner as far as it makes an account: the operator types the  *)
(* password.  The new workspace is another one.                            *)
CreateOwner(r) ==
  \E s \in Spellings : \E a \in New(s) :
    /\ Found(s) = {}
    /\ Begin(r, "insert", [NoJob EXCEPT !.op = "owner", !.account = a])

(* accept, for an address without an account: the invitee brings a         *)
(* password.                                                               *)
AcceptInvitation(r) ==
  \E s \in Spellings, asked \in Roles : \E a \in New(s) :
    /\ Found(s) = {}
    /\ Begin(r, "insert",
             [NoJob EXCEPT !.op = "accept", !.account = a, !.role = asked])

(* add_existing_user, up to its look at the membership.                    *)
AddMember(r) ==
  \E s \in Spellings, asked \in Roles : \E a \in Found(s) :
    /\ role[a] = None
    /\ Begin(r, "join",
             [NoJob EXCEPT !.op = "add", !.account = a, !.role = asked])

-----------------------------------------------------------------------------
(* What it goes on to do.                                                  *)

(* Mutant of InsertAccount: the IntegrityError is swallowed.               *)
InsertAccountSwallowing(r) ==
  LET a == job[r].account
      new == \A b \in accounts : EmailOf[b] # EmailOf[a]
  IN  /\ pc[r] = "insert" /\ job[r].op = "local"
      /\ accounts' = IF new THEN accounts \cup {a} ELSE accounts
      /\ password' = IF new THEN [password EXCEPT ![a] = "issued"] ELSE password
      /\ UNCHANGED <<flag, role, told>>
      /\ Continue(r, "flag", job[r])

(* create_user's INSERT and COMMIT, which the unique index on the address  *)
(* refuses if another account was faster; for an invitee the membership is *)
(* part of it.                                                             *)
InsertAccount(r) ==
  LET a == job[r].account
      invited == job[r].op = "accept"
  IN  /\ pc[r] = "insert"
      /\ \/ /\ \A b \in accounts : EmailOf[b] # EmailOf[a]
            /\ accounts' = accounts \cup {a}
            /\ password' = [password EXCEPT ![a] =
                              IF job[r].op = "local" THEN "issued" ELSE "chosen"]
            /\ told' = IF job[r].op = "local" THEN told ELSE told \cup {a}
            /\ role' = IF invited THEN [role EXCEPT ![a] = job[r].role] ELSE role
            /\ UNCHANGED flag
            /\ IF job[r].op = "local" THEN Continue(r, "flag", job[r]) ELSE End(r)
         \/ (\E b \in accounts : EmailOf[b] = EmailOf[a]) /\ Refuse(r)

(* Mutant of SetFlag: the account keeps the default.                       *)
SetFlagNot(r) ==
  /\ pc[r] = "flag"
  /\ UNCHANGED rows
  /\ Continue(r, "grant", job[r])

(* The second commit of create_local_user.                                 *)
SetFlag(r) ==
  /\ pc[r] = "flag"
  /\ flag' = [flag EXCEPT ![job[r].account] = TRUE]
  /\ UNCHANGED <<accounts, password, role, told>>
  /\ Continue(r, "grant", job[r])

(* grant_membership, its SELECT.                                           *)
ReadMembership(r) ==
  /\ pc[r] = "grant"
  /\ UNCHANGED rows
  /\ Continue(r, "join", [job[r] EXCEPT !.found = role[job[r].account]])

Tell(r) ==
  told' = IF job[r].op = "local" THEN told \cup {job[r].account} ELSE told

(* Mutant of Join: add_existing_user grants instead.                       *)
JoinOverwriting(r) ==
  /\ pc[r] = "join"
  /\ role' = [role EXCEPT ![job[r].account] = job[r].role]
  /\ Tell(r)
  /\ UNCHANGED <<accounts, password, flag>>
  /\ End(r)

(* The last commit: a row is inserted, unless the unique index refuses it, *)
(* or the one found gets the role, if it is still there; the answer of     *)
(* create_local_user tells the password.                                   *)
Join(r) ==
  LET a == job[r].account
      fine == (role[a] = None) = (job[r].found = None)
  IN  /\ pc[r] = "join"
      /\ \/ /\ fine
            /\ role' = [role EXCEPT ![a] = job[r].role]
            /\ Tell(r)
            /\ UNCHANGED <<accounts, password, flag>>
            /\ End(r)
         \/ ~fine /\ Refuse(r)

(* A request fails between two of its statements.                          *)
Fail(r) == pc[r] # "idle" /\ Refuse(r)

-----------------------------------------------------------------------------
(* What happens to accounts besides; Sessions and Membership look inside.  *)

Other(r) == pc[r] = "idle" /\ UNCHANGED <<pc, job>> /\ Overtake(r)

(* An administrator issues a member a new password.                        *)
ResetMember(r) ==
  \E a \in accounts :
    /\ role[a] # None
    /\ password' = [password EXCEPT ![a] = "issued"]
    /\ flag' = [flag EXCEPT ![a] = TRUE]
    /\ told' = told \cup {a}
    /\ UNCHANGED <<accounts, role>>
    /\ Other(r)

(* Whoever knows the password signs in and chooses another.                *)
ChangePassword(r) ==
  \E a \in told :
    /\ password' = [password EXCEPT ![a] = "chosen"]
    /\ flag' = [flag EXCEPT ![a] = FALSE]
    /\ UNCHANGED <<accounts, role, told>>
    /\ Other(r)

RemoveMember(r) ==
  \E a \in accounts :
    /\ role[a] # None
    /\ role' = [role EXCEPT ![a] = None]
    /\ UNCHANGED <<accounts, password, flag, told>>
    /\ Other(r)

Next ==
  \E r \in Slots :
    \/ CreateLocalUser(r) \/ CreateOwner(r) \/ AcceptInvitation(r)
    \/ AddMember(r)
    \/ InsertAccount(r) \/ SetFlag(r) \/ ReadMembership(r) \/ Join(r)
    \/ Fail(r)
    \/ ResetMember(r) \/ ChangePassword(r) \/ RemoveMember(r)

Spec == Init /\ [][Next]_vars

-----------------------------------------------------------------------------
Stages == {"idle", "insert", "flag", "grant", "join"}

Jobs ==
  [op : {"none", "local", "owner", "accept", "add"},
   account : Accounts \cup {None}, role : Roles \cup {None},
   found : Roles \cup {None}]

(* Every variable holds a value of its kind, and only accounts have a      *)
(* password, a flag, a role.                                               *)
TypeOK ==
  /\ accounts \subseteq Accounts /\ told \subseteq accounts
  /\ password \in [Accounts -> {"none", "issued", "chosen"}]
  /\ flag \in [Accounts -> BOOLEAN]
  /\ role \in [Accounts -> Roles \cup {None}]
  /\ \A a \in Accounts :
       a \notin accounts => password[a] = "none" /\ ~flag[a] /\ role[a] = None
  /\ pc \in [Slots -> Stages]
  /\ job \in [Slots -> Jobs]
  /\ crossed \subseteq Slots

(* An address has one account, however it is typed and however many        *)
(* creations race (normalize_email, the unique index on users.email).      *)
OneAccountEach ==
  \A a, b \in accounts : Normal[EmailOf[a]] = Normal[EmailOf[b]] => a = b

(* Accounts that nobody is making any more and that are neither under a    *)
(* password their owner chose, nor under an issued one that somebody was   *)
(* told and that has to be changed.                                        *)
Stranded ==
  {a \in accounts :
     /\ \A r \in Slots : ~(job[r].op = "local" /\ job[r].account = a)
     /\ ~(password[a] = "chosen" /\ ~flag[a])
     /\ ~(password[a] = "issued" /\ flag[a] /\ a \in told)}

(* create_local_user leaves such an account behind only when it fails      *)
(* between its commits or is overtaken: by an administrator who adds the   *)
(* account as it appears, and resets its password, and by its owner who    *)
(* changes it before the flag is set.                                      *)
StrandedNeedsFailure ==
  [][ Stranded' \subseteq Stranded
      \/ \E r \in Slots :
           pc[r] # "idle" /\ pc'[r] = "idle" /\ (Fail(r) \/ r \in crossed) ]_vars

(* A member's role is left alone by whoever brings in a new member, but    *)
(* for a create_local_user that was overtaken before its grant.            *)
RolesKept ==
  [][ \A a \in Accounts :
        role[a] # None /\ role'[a] # role[a] /\ role'[a] # None
        => \E r \in crossed : pc[r] = "join" /\ job[r].op = "local" ]_vars
=============================================================================
