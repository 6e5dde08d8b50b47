------------------------------ MODULE Sessions ------------------------------
(***************************************************************************)
(* The credential and the refresh tokens of one account: login, refresh,   *)
(* logout, change of password, the administrator's reset to a temporary    *)
(* password and the operator's reset (services/auth_service.py,            *)
(* api/v1/auth.py, cli.py).  Accounts share nothing here: one stands for   *)
(* all.  A handler is a row of short transactions; between two of its      *)
(* statements, the hashing of a password takes most of the time, other     *)
(* handlers commit.  Access tokens are signed, not stored, and expire by   *)
(* themselves: they have no state.                                         *)
(*                                                                         *)
(* An UPDATE writes the columns whose value differs from the one the       *)
(* session loaded, whatever the row holds by then.                         *)
(***************************************************************************)
EXTENDS Naturals

CONSTANTS
  Passwords,
  Tokens,      \* refresh tokens
  Requests,    \* slots that serve HTTP requests
  Operators,   \* slots that run cli.py; a slot may be in both sets
  OldHashes,   \* may the stored hash predate the current parameters?
  None

Slots == Requests \cup Operators

ASSUME NoneAssumption == None \notin Passwords \cup Tokens

ASSUME OldHashesAssumption == OldHashes \subseteq BOOLEAN

VARIABLES
  password,    \* what users.password_hash verifies
  outdated,    \* needs_rehash: the hash was made with older parameters
  mustChange,  \* users.must_change_password
  token,       \* token[t]: "none" (no row), "live" or "revoked"
  expired,     \* the tokens whose expires_at has passed
  pc, job,     \* where the handler of each slot stands, and its job
  issued,      \* history: the password is one an administrator issued
  preReset,    \* history: tokens whose credential is older than the last reset
  uses         \* history: uses[t], how often t was exchanged, up to MaxUses

account == <<password, outdated, mustChange>>
history == <<issued, preReset, uses>>
vars    == <<account, token, expired, pc, job, history>>

MaxUses == 2

NoJob ==
  [op |-> "none", token |-> None, password |-> None, flag |-> FALSE,
   issued |-> FALSE, pre |-> FALSE, scanned |-> {}]

Live == {t \in Tokens : token[t] = "live"}

Init ==
  /\ password \in Passwords
  /\ outdated \in OldHashes
  /\ mustChange \in BOOLEAN
  /\ token = [t \in Tokens |-> "none"]
  /\ expired = {}
  /\ pc = [r \in Slots |-> "idle"]
  /\ job = [r \in Slots |-> NoJob]
  /\ issued = mustChange
  /\ preReset = {}
  /\ uses = [t \in Tokens |-> 0]

-----------------------------------------------------------------------------
Begin(r, at, j) ==
  /\ pc[r] = "idle"
  /\ pc' = [pc EXCEPT ![r] = at]
  /\ job' = [job EXCEPT ![r] = j]
  /\ UNCHANGED <<account, token, expired, history>>

GoTo(r, at) == pc' = [pc EXCEPT ![r] = at] /\ UNCHANGED job

End(r) ==
  pc' = [pc EXCEPT ![r] = "idle"] /\ job' = [job EXCEPT ![r] = NoJob]

(* A token nobody presents any more stands for one never issued.           *)
Fresh(t) ==
  /\ token[t] # "live"
  /\ \A r \in Slots : t # job[r].token /\ t \notin job[r].scanned

(* Bookkeeping of a reset: every credential checked so far is older.       *)
AgeJobs(j) == [q \in Slots |-> [j[q] EXCEPT !.pre = TRUE]]

-----------------------------------------------------------------------------
(* What a handler reads first.  A wrong password, a token that is revoked  *)
(* or expired, changes nothing.                                            *)

(* Mutant of Login: the handler goes on without the password.             *)
LoginForgettingPassword(r) ==
  /\ r \in Requests
  /\ Begin(r, IF outdated THEN "rehash" ELSE "issue",
           [NoJob EXCEPT !.op = "login", !.issued = issued])

(* authenticate                                                            *)
Login(r) ==
  /\ r \in Requests
  /\ Begin(r, IF outdated THEN "rehash" ELSE "issue",
           [NoJob EXCEPT !.op = "login", !.password = password,
                         !.issued = issued])

(* _load_refresh_token                                                     *)
Refresh(r) ==
  \E t \in Live \ expired :
    /\ r \in Requests
    /\ Begin(r, "rotate", [NoJob EXCEPT !.op = "refresh", !.token = t])

Logout(r) ==
  \E t \in Live :
    /\ r \in Requests
    /\ Begin(r, "revoke", [NoJob EXCEPT !.op = "logout", !.token = t])

(* The caller proves to know the current password.                         *)
ChangePassword(r) ==
  \E new \in Passwords :
    /\ r \in Requests
    /\ Begin(r, "store", [NoJob EXCEPT !.op = "change", !.password = new,
                                       !.flag = mustChange])

(* reset_member_password                                                   *)
ResetMember(r) ==
  \E new \in Passwords :
    /\ r \in Requests
    /\ Begin(r, "scan", [NoJob EXCEPT !.op = "reset", !.password = new,
                                      !.flag = mustChange])

(* cli.py reset-password                                                   *)
ResetPassword(r) ==
  \E new \in Passwords :
    /\ r \in Operators
    /\ Begin(r, "store", [NoJob EXCEPT !.op = "cli", !.password = new,
                                       !.flag = mustChange])

-----------------------------------------------------------------------------
(* What it goes on to do.                                                  *)

(* The end of authenticate: the password that was verified, hashed anew.   *)
Rehash(r) ==
  /\ pc[r] = "rehash"
  /\ password' = job[r].password
  /\ outdated' = FALSE
  /\ issued' = job[r].issued
  /\ GoTo(r, "issue")
  /\ UNCHANGED <<mustChange, token, expired, preReset, uses>>

(* Mutant of Rotate: the presented token stays good.                       *)
RotateKeepingToken(r) ==
  /\ pc[r] = "rotate"
  /\ uses' = [uses EXCEPT ![job[r].token] = IF @ < MaxUses THEN @ + 1 ELSE @]
  /\ GoTo(r, "issue")
  /\ UNCHANGED <<account, token, expired, issued, preReset>>

(* rotate_session: the presented token is revoked and that is committed.   *)
Rotate(r) ==
  /\ pc[r] = "rotate"
  /\ token' = [token EXCEPT ![job[r].token] = "revoked"]
  /\ uses' = [uses EXCEPT ![job[r].token] = IF @ < MaxUses THEN @ + 1 ELSE @]
  /\ GoTo(r, "issue")
  /\ UNCHANGED <<account, expired, issued, preReset>>

(* issue_session                                                           *)
Issue(r) ==
  \E t \in Tokens :
    /\ pc[r] = "issue"
    /\ Fresh(t)
    /\ token' = [token EXCEPT ![t] = "live"]
    /\ expired' = expired \ {t}
    /\ uses' = [uses EXCEPT ![t] = 0]
    /\ preReset' = IF job[r].pre THEN preReset \cup {t} ELSE preReset \ {t}
    /\ End(r)
    /\ UNCHANGED <<account, issued>>

(* revoke_session                                                          *)
Revoke(r) ==
  /\ pc[r] = "revoke"
  /\ token' = [token EXCEPT ![job[r].token] = "revoked"]
  /\ End(r)
  /\ UNCHANGED <<account, expired, history>>

(* set_password, for the user and for the operator, who has the sessions   *)
(* revoked by a second transaction.                                        *)
StorePassword(r) ==
  /\ pc[r] = "store"
  /\ password' = job[r].password
  /\ outdated' = FALSE
  /\ mustChange' = (mustChange /\ ~job[r].flag)
  /\ issued' = FALSE
  /\ \/ /\ job[r].op = "change"
        /\ End(r)
        /\ UNCHANGED preReset
     \/ /\ job[r].op = "cli"
        /\ pc' = [pc EXCEPT ![r] = "scan"]
        /\ job' = AgeJobs(job)
        /\ preReset' = Live
  /\ UNCHANGED <<token, expired, uses>>

(* Mutant of ScanSessions: one session instead of all.                     *)
ScanSessionsFirst(r) ==
  /\ pc[r] = "scan"
  /\ pc' = [pc EXCEPT ![r] = "commit"]
  /\ \E S \in {{t} : t \in Live} \cup {{}} : job' = [job EXCEPT ![r].scanned = S]
  /\ UNCHANGED <<account, token, expired, history>>

(* The SELECT of revoke_all_sessions.                                      *)
ScanSessions(r) ==
  /\ pc[r] = "scan"
  /\ pc' = [pc EXCEPT ![r] = "commit"]
  /\ job' = [job EXCEPT ![r].scanned = Live]
  /\ UNCHANGED <<account, token, expired, history>>

Revoked(S) == [t \in Tokens |-> IF t \in S THEN "revoked" ELSE token[t]]

(* Mutants of CommitReset: the sessions stay; the flag stays.              *)
CommitResetKeepingSessions(r) ==
  /\ pc[r] = "commit"
  /\ job[r].op = "reset"
  /\ password' = job[r].password
  /\ outdated' = FALSE
  /\ mustChange' = (mustChange \/ ~job[r].flag)
  /\ issued' = TRUE
  /\ preReset' = Live
  /\ pc' = [pc EXCEPT ![r] = "idle"]
  /\ job' = [AgeJobs(job) EXCEPT ![r] = NoJob]
  /\ UNCHANGED <<token, expired, uses>>

CommitResetUnflagged(r) ==
  /\ pc[r] = "commit"
  /\ job[r].op = "reset"
  /\ password' = job[r].password
  /\ outdated' = FALSE
  /\ token' = Revoked(job[r].scanned)
  /\ issued' = TRUE
  /\ preReset' = Live
  /\ pc' = [pc EXCEPT ![r] = "idle"]
  /\ job' = [AgeJobs(job) EXCEPT ![r] = NoJob]
  /\ UNCHANGED <<mustChange, expired, uses>>

(* reset_temporary_password: credential and revocations in one commit.     *)
CommitReset(r) ==
  /\ pc[r] = "commit"
  /\ job[r].op = "reset"
  /\ password' = job[r].password
  /\ outdated' = FALSE
  /\ mustChange' = (mustChange \/ ~job[r].flag)
  /\ token' = Revoked(job[r].scanned)
  /\ issued' = TRUE
  /\ preReset' = Live
  /\ pc' = [pc EXCEPT ![r] = "idle"]
  /\ job' = [AgeJobs(job) EXCEPT ![r] = NoJob]
  /\ UNCHANGED <<expired, uses>>

(* The second transaction of the operator's reset.                         *)
CommitRevocations(r) ==
  /\ pc[r] = "commit"
  /\ job[r].op = "cli"
  /\ token' = Revoked(job[r].scanned)
  /\ End(r)
  /\ UNCHANGED <<account, expired, history>>

-----------------------------------------------------------------------------
(* A handler dies between two of its transactions.                         *)
Fail(r) ==
  /\ pc[r] # "idle"
  /\ End(r)
  /\ UNCHANGED <<account, token, expired, history>>

(* Time passes.                                                            *)
Expire(t) ==
  /\ t \in Live \ expired
  /\ expired' = expired \cup {t}
  /\ UNCHANGED <<account, token, pc, job, history>>

Arrive(r) ==
  \/ Login(r) \/ Refresh(r) \/ Logout(r) \/ ChangePassword(r)
  \/ ResetMember(r) \/ ResetPassword(r)

Proceed(r) ==
  \/ Rehash(r) \/ Rotate(r) \/ Issue(r) \/ Revoke(r) \/ StorePassword(r)
  \/ ScanSessions(r) \/ CommitReset(r) \/ CommitRevocations(r)

Next ==
  \/ \E r \in Slots : Arrive(r) \/ Proceed(r) \/ Fail(r)
  \/ \E t \in Tokens : Expire(t)

Spec == Init /\ [][Next]_vars

-----------------------------------------------------------------------------
Stages ==
  {"idle", "rehash", "rotate", "issue", "revoke", "store", "scan", "commit"}

Jobs ==
  [op : {"none", "login", "refresh", "logout", "change", "reset", "cli"},
   token : Tokens \cup {None}, password : Passwords \cup {None},
   flag : BOOLEAN, issued : BOOLEAN, pre : BOOLEAN, scanned : SUBSET Tokens]

(* Every variable holds a value of its kind.                               *)
TypeOK ==
  /\ password \in Passwords
  /\ outdated \in BOOLEAN /\ mustChange \in BOOLEAN /\ issued \in BOOLEAN
  /\ token \in [Tokens -> {"none", "live", "revoked"}]
  /\ expired \subseteq Tokens /\ preReset \subseteq Tokens
  /\ pc \in [Slots -> Stages]
  /\ job \in [Slots -> Jobs]
  /\ uses \in [Tokens -> 0 .. MaxUses]

(* The operator's reset between its two transactions.                      *)
HalfReset == \E r \in Slots : job[r].op = "cli" /\ pc[r] \in {"scan", "commit"}

(* Live sessions opened with a credential older than a reset that is over. *)
Survivors == IF HalfReset THEN {} ELSE Live \cap preReset

(* A reset ends the sessions that the old credential could have opened     *)
(* (reset_temporary_password, cmd_reset_password).                         *)
NoSessionSurvivesReset == Survivors = {}

(* A password an administrator issued has to be changed before it opens    *)
(* the application (must_change_password).                                 *)
TemporaryPasswordMustBeChanged == issued => mustChange

(* A session outlives a reset only because a login or a refresh had        *)
(* checked its credential before the reset and went on after it, because   *)
(* it was opened between the reset's SELECT and its COMMIT, or because the *)
(* operator's reset died half done.  What a reset could see, it ends.      *)
SessionsSurviveOnlyByOverlap ==
  [][ \A t \in Survivors' \ Survivors :
        \E r \in Slots :
          /\ pc[r] # "idle" /\ pc'[r] = "idle"
          /\ \/ pc[r] = "issue" /\ job[r].pre
             \/ pc[r] = "commit" /\ t \notin job[r].scanned
             \/ job[r].op = "cli" /\ pc[r] # "store" /\ token' = token ]_vars

(* An issued password is without its flag only after a reset that had read *)
(* the flag set while a change of password was clearing it, or after a     *)
(* login that stored the password it had verified over a newer one.        *)
UnflaggedOnlyByStaleRead ==
  [][ (issued' /\ ~mustChange' /\ ~(issued /\ ~mustChange))
        => \E r \in Slots :
             \/ /\ pc[r] = "commit" /\ job[r].op = "reset"
                /\ job[r].flag /\ ~mustChange
             \/ pc[r] = "rehash" /\ ~issued ]_vars

(* Rotation makes a refresh token good for one exchange, but for requests  *)
(* that overlap: only one that had read it live before the first exchange  *)
(* revoked it exchanges it again (rotate_session).                         *)
ExchangedTwiceOnlyByOverlap ==
  [][ \A t \in Tokens : uses[t] > 0 /\ uses'[t] > uses[t] =>
        \E r \in Slots :
          pc[r] = "rotate" /\ job[r].token = t /\ token[t] # "live" ]_vars

-----------------------------------------------------------------------------
(* The promise, for handlers that do not overlap.                          *)

(* At most one handler is under way.                                       *)
OneAtATime ==
  \A q, r \in Slots : pc[q] # "idle" /\ pc[r] # "idle" => q = r

(* No reset by the operator is under way.                                  *)
NoCommand == \A r \in Slots : job[r].op # "cli"

(* The operator's reset dies between its two transactions only where there *)
(* is no session left to revoke.                                           *)
CommandsFinish ==
  [][ \A r \in Slots :
        job[r].op = "cli" /\ pc[r] # "store" /\ Fail(r) => Live = {} ]_vars

(* A token in the middle of its exchange still stands for its session.     *)
Exchanging ==
  {job[r].token : r \in {q \in Slots : pc[q] = "issue" /\ job[q].op = "refresh"}}

Promise == INSTANCE Account WITH sessions <- Live \cup Exchanging

(* One handler at a time, the account does what it promises: an exchange   *)
(* replaces one session by one, a reset leaves the flag set and no session *)
(* behind, a login changes neither password nor flag.                      *)
KeepsPromise == Promise!Spec
=============================================================================
