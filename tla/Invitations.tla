---------------------------- MODULE Invitations -----------------------------
(***************************************************************************)
(* The invitations of one address to one workspace: creation, replacement, *)
(* revocation, the PIN and acceptance (services/invitation_service.py,     *)
(* api/v1/invitations.py).  Invitations of other addresses or workspaces   *)
(* are other rows and never meet these.                                    *)
(*                                                                         *)
(* A handler reads, then commits; other handlers commit in between.  No    *)
(* row is locked and no UPDATE has a condition: a commit writes what its   *)
(* session decided on the row it had read.                                 *)
(***************************************************************************)
EXTENDS Naturals

CONSTANTS
  Links,            \* invitation rows, each with its token
  Requests,         \* slots that serve HTTP requests
  PinAttemptLimit   \* PIN_ATTEMPT_LIMIT

ASSUME PinAttemptLimitAssumption == PinAttemptLimit \in Nat \ {0}

VARIABLES
  mode,      \* mode[i]: verification_mode, "none" if there is no row i
  accepted,  \* the links whose accepted_at is set
  revoked,   \* the links whose revoked_at is set
  expired,   \* the links whose expires_at has passed
  verified,  \* the links whose pin_verified_at is set
  attempts,  \* attempts[i]: pin_attempt_count
  account,   \* is there an account for the address?
  member,    \* is it a member of the workspace?
  pc, job,   \* where the handler of each slot stands, and its job
  wrong      \* history: wrong[i], the wrong PINs answered, up to the limit

rows    == <<mode, accepted, revoked, expired, verified, attempts>>
people  == <<account, member>>
vars    == <<rows, people, pc, job, wrong>>

NoJob ==
  [op |-> "none", links |-> {}, mode |-> "none", attempts |-> 0,
   right |-> FALSE, signedIn |-> FALSE, member |-> FALSE]

Pending == {i \in Links : mode[i] # "none"} \ (accepted \cup revoked)

(* _active                                                                 *)
Active == Pending \ expired

Init ==
  /\ mode = [i \in Links |-> "none"]
  /\ accepted = {} /\ revoked = {} /\ expired = {} /\ verified = {}
  /\ attempts = [i \in Links |-> 0]
  /\ account \in BOOLEAN
  /\ member \in {FALSE, account}
  /\ pc = [r \in Requests |-> "idle"]
  /\ job = [r \in Requests |-> NoJob]
  /\ wrong = [i \in Links |-> 0]

Begin(r, at, j) ==
  /\ pc[r] = "idle"
  /\ pc' = [pc EXCEPT ![r] = at]
  /\ job' = [job EXCEPT ![r] = j]
  /\ UNCHANGED <<rows, people, wrong>>

End(r) ==
  pc' = [pc EXCEPT ![r] = "idle"] /\ job' = [job EXCEPT ![r] = NoJob]

-----------------------------------------------------------------------------
(* What a handler reads first.  A caller without the capability, an ADMIN  *)
(* at an OWNER's invitation, a token that is not active: refused, nothing  *)
(* changes.  An OWNER may do all of this, so callers are left out.         *)

(* Mutant of Create: the verification mode is not checked.                 *)
CreateAnyMode(r) ==
  \E m \in {"LINK_ONLY", "LINK_AND_PIN", "PIN_ONLY"} :
    Begin(r, "create",
          [NoJob EXCEPT !.op = "create", !.mode = m, !.links = Pending])

(* create, up to its SELECT of the pending invitations.                    *)
Create(r) ==
  \E m \in {"LINK_ONLY", "LINK_AND_PIN"} :
    Begin(r, "create",
          [NoJob EXCEPT !.op = "create", !.mode = m, !.links = Pending])

(* revoke_invitation; the second SELECT returns the row the session has.   *)
Revoke(r) ==
  \E i \in Pending :
    Begin(r, "revoke", [NoJob EXCEPT !.op = "revoke", !.links = {i}])

(* verify_pin; for a LINK_ONLY invitation it returns without a change.     *)
VerifyPin(r) ==
  \E i \in Active, right \in BOOLEAN :
    /\ mode[i] = "LINK_AND_PIN"
    /\ attempts[i] < PinAttemptLimit
    /\ Begin(r, "pin",
             [NoJob EXCEPT !.op = "pin", !.links = {i}, !.right = right,
                           !.attempts = attempts[i]])

(* Mutants of Accept: the PIN is not asked for; any token opens.           *)
AcceptWithoutPin(r) ==
  \E i \in Active, signedIn \in {FALSE, account} :
    Begin(r, "look up",
          [NoJob EXCEPT !.op = "accept", !.links = {i}, !.signedIn = signedIn])

AcceptInactive(r) ==
  \E i \in Links, signedIn \in {FALSE, account} :
    /\ mode[i] = "LINK_ONLY" \/ i \in verified
    /\ Begin(r, "look up",
             [NoJob EXCEPT !.op = "accept", !.links = {i},
                           !.signedIn = signedIn])

(* accept, up to the check of the PIN; the invitee signed in before, or    *)
(* brings a password for an account to be made.                            *)
Accept(r) ==
  \E i \in Active, signedIn \in {FALSE, account} :
    /\ mode[i] = "LINK_AND_PIN" => i \in verified
    /\ Begin(r, "look up",
             [NoJob EXCEPT !.op = "accept", !.links = {i},
                           !.signedIn = signedIn])

-----------------------------------------------------------------------------
(* What it goes on to do.                                                  *)

(* Mutant of CommitCreate: the invitations before stay.                    *)
CommitCreateKeepingOld(r) ==
  \E i \in Links :
    /\ pc[r] = "create"
    /\ mode[i] = "none"
    /\ mode' = [mode EXCEPT ![i] = job[r].mode]
    /\ End(r)
    /\ UNCHANGED <<accepted, revoked, expired, verified, attempts, people, wrong>>

(* The revocations and the new row, one commit.                            *)
CommitCreate(r) ==
  \E i \in Links :
    /\ pc[r] = "create"
    /\ mode[i] = "none"
    /\ mode' = [mode EXCEPT ![i] = job[r].mode]
    /\ revoked' = revoked \cup job[r].links
    /\ End(r)
    /\ UNCHANGED <<accepted, expired, verified, attempts, people, wrong>>

CommitRevoke(r) ==
  /\ pc[r] = "revoke"
  /\ revoked' = revoked \cup job[r].links
  /\ End(r)
  /\ UNCHANGED <<mode, accepted, expired, verified, attempts, people, wrong>>

(* Mutants of CountAttempt: the comparison with the limit is off by one,   *)
(* in either direction.                                                    *)
CountAttemptOneLate(r) ==
  \E i \in job[r].links :
    /\ pc[r] = "pin"
    /\ ~job[r].right
    /\ attempts' = [attempts EXCEPT ![i] = job[r].attempts + 1]
    /\ revoked' = IF attempts'[i] > PinAttemptLimit
                  THEN revoked \cup {i} ELSE revoked
    /\ wrong' = [wrong EXCEPT ![i] =
                   IF @ < PinAttemptLimit THEN @ + 1 ELSE @]
    /\ End(r)
    /\ UNCHANGED <<mode, accepted, expired, verified, people>>

CountAttemptOneEarly(r) ==
  \E i \in job[r].links :
    /\ pc[r] = "pin"
    /\ ~job[r].right
    /\ attempts' = [attempts EXCEPT ![i] = job[r].attempts + 1]
    /\ revoked' = IF attempts'[i] + 1 >= PinAttemptLimit
                  THEN revoked \cup {i} ELSE revoked
    /\ wrong' = [wrong EXCEPT ![i] =
                   IF @ < PinAttemptLimit THEN @ + 1 ELSE @]
    /\ End(r)
    /\ UNCHANGED <<mode, accepted, expired, verified, people>>

(* A wrong PIN: the count read before, plus one; at the limit, revoked.    *)
CountAttempt(r) ==
  \E i \in job[r].links :
    /\ pc[r] = "pin"
    /\ ~job[r].right
    /\ attempts' = [attempts EXCEPT ![i] = job[r].attempts + 1]
    /\ revoked' = IF attempts'[i] >= PinAttemptLimit
                  THEN revoked \cup {i} ELSE revoked
    /\ wrong' = [wrong EXCEPT ![i] =
                   IF @ < PinAttemptLimit THEN @ + 1 ELSE @]
    /\ End(r)
    /\ UNCHANGED <<mode, accepted, expired, verified, people>>

(* The right PIN.                                                          *)
StampPin(r) ==
  /\ pc[r] = "pin"
  /\ job[r].right
  /\ verified' = verified \cup job[r].links
  /\ End(r)
  /\ UNCHANGED <<mode, accepted, revoked, expired, attempts, people, wrong>>

(* find_user_by_email and get_membership: an account nobody signed in to   *)
(* is a 409; without an account there is no membership to look for.        *)
LookUp(r) ==
  /\ pc[r] = "look up"
  /\ \/ /\ job[r].signedIn \/ ~account
        /\ pc' = [pc EXCEPT ![r] = "join"]
        /\ job' = [job EXCEPT ![r].member = member]
     \/ /\ ~job[r].signedIn /\ account
        /\ End(r)
  /\ UNCHANGED <<rows, people, wrong>>

(* The account, if there is none, the membership, if it was not found, and *)
(* accepted_at, one commit; a row another handler has inserted meanwhile   *)
(* makes the unique constraint roll all of it back.                        *)
Join(r) ==
  /\ pc[r] = "join"
  /\ job[r].signedIn \/ ~account
  /\ job[r].member \/ ~member
  /\ account' = TRUE
  /\ member' = (member \/ ~job[r].member)
  /\ accepted' = accepted \cup job[r].links
  /\ End(r)
  /\ UNCHANGED <<mode, revoked, expired, verified, attempts, wrong>>

(* That, or a lost connection, a killed worker.                            *)
Fail(r) ==
  /\ pc[r] # "idle"
  /\ End(r)
  /\ UNCHANGED <<rows, people, wrong>>

-----------------------------------------------------------------------------
(* What happens elsewhere.                                                 *)

(* Time passes.                                                            *)
Expire(i) ==
  /\ i \in Active
  /\ expired' = expired \cup {i}
  /\ UNCHANGED <<mode, accepted, revoked, verified, attempts, people, pc, job,
                 wrong>>

(* create_user, by the operator or for another workspace, and the handlers *)
(* of Membership that add and remove the person, each as one step.         *)
CreateUser(r) ==
  /\ pc[r] = "idle"
  /\ account' = TRUE
  /\ UNCHANGED <<rows, member, pc, job, wrong>>

AddMember(r) ==
  /\ pc[r] = "idle"
  /\ account
  /\ member' = TRUE
  /\ UNCHANGED <<rows, account, pc, job, wrong>>

RemoveMember(r) ==
  /\ pc[r] = "idle"
  /\ member' = FALSE
  /\ UNCHANGED <<rows, account, pc, job, wrong>>

Arrive(r) ==
  \/ Create(r) \/ Revoke(r) \/ VerifyPin(r) \/ Accept(r)
  \/ CreateUser(r) \/ AddMember(r) \/ RemoveMember(r)

Proceed(r) ==
  \/ CommitCreate(r) \/ CommitRevoke(r) \/ CountAttempt(r) \/ StampPin(r)
  \/ LookUp(r) \/ Join(r)

Next ==
  \/ \E r \in Requests : Arrive(r) \/ Proceed(r) \/ Fail(r)
  \/ \E i \in Links : Expire(i)

Spec == Init /\ [][Next]_vars

-----------------------------------------------------------------------------
Modes == {"LINK_ONLY", "LINK_AND_PIN"}

Stages == {"idle", "create", "revoke", "pin", "look up", "join"}

Jobs ==
  [op : {"none", "create", "revoke", "pin", "accept"}, links : SUBSET Links,
   mode : Modes \cup {"none"}, attempts : 0 .. PinAttemptLimit,
   right : BOOLEAN, signedIn : BOOLEAN, member : BOOLEAN]

(* Every variable holds a value of its kind.                               *)
TypeOK ==
  /\ mode \in [Links -> Modes \cup {"none"}]
  /\ accepted \subseteq Links /\ revoked \subseteq Links
  /\ expired \subseteq Links /\ verified \subseteq Links
  /\ attempts \in [Links -> 0 .. PinAttemptLimit]
  /\ wrong \in [Links -> 0 .. PinAttemptLimit]
  /\ account \in BOOLEAN /\ member \in BOOLEAN
  /\ pc \in [Requests -> Stages]
  /\ job \in [Requests -> Jobs]

(* A second usable link appears only when an invitation is created whose   *)
(* SELECT had run before the other one was: what it saw, it replaces.      *)
SecondLinkOnlyByOverlap ==
  [][ \A i \in Active' \ Active, k \in Active' :
        k # i => \E r \in Requests :
                   /\ pc[r] = "create" /\ pc'[r] = "idle"
                   /\ k \notin job[r].links ]_vars

(* The count never runs ahead of the wrong PINs, so that none closes an    *)
(* invitation early, and an invitation whose count is full is closed,      *)
(* however many submissions overlap.                                       *)
AttemptsCounted ==
  \A i \in Links :
    /\ attempts[i] <= wrong[i]
    /\ attempts[i] = PinAttemptLimit => i \in revoked

(* Nobody joins by an invitation with a PIN that was not given: acceptance *)
(* cannot skip it.                                                         *)
AcceptanceNeedsPin ==
  \A i \in accepted : mode[i] = "LINK_AND_PIN" => i \in verified

(* An invitation is accepted once, and not after it was revoked (by_token  *)
(* refuses it): the commit that uses it finds it still pending.            *)
AcceptedOnlyWhilePending ==
  [][ \A r \in Requests :
        /\ pc[r] = "join" /\ pc'[r] = "idle"
        /\ <<accepted, member>>' # <<accepted, member>>
        => job[r].links \subseteq Pending ]_vars

-----------------------------------------------------------------------------
(* The promise, for handlers that do not overlap.                          *)

(* At most one handler is under way.                                       *)
OneAtATime ==
  \A q, r \in Requests : pc[q] # "idle" /\ pc[r] # "idle" => q = r

(* Nobody is removed between an acceptance's look at the members and its   *)
(* commit.                                                                 *)
NoRemovalMeanwhile ==
  [][ member /\ ~member' => \A r \in Requests : pc[r] # "join" ]_vars

Promise ==
  INSTANCE InvitationLink
    WITH issued <- {i \in Links : mode[i] # "none"},
         pinned <- {i \in Links : mode[i] = "LINK_AND_PIN"},
         open   <- Pending,
         proved <- verified

(* One handler at a time, invitations do what they promise: a new one      *)
(* replaces the one before, as many wrong PINs as the limit says close it, *)
(* and it is used once, by someone who then is a member.                   *)
KeepsPromise == Promise!Spec
=============================================================================
