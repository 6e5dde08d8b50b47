# A TLA+ model of HandBase

HandBase is a small web application: workspaces hold user-defined tables of
records, users are members of workspaces with one of four roles. A FastAPI
process serves the HTTP API from a pool of threads over PostgreSQL
(SQLAlchemy, one session per request), an operator has a command line, and a
React page is the client. This directory models its core in TLA+, checks it
with TLC and proves part of it with TLAPS. Paths below are relative to the
repository (`src/`).

## 1. Inventory

| Part | State | Operations | Who it meets |
| --- | --- | --- | --- |
| Authorization table (`backend/app/services/authz.py`) | none: a fixed table | `has_capability`, `authorize_member_role_change`, `workspace_of_*` | asked by every handler |
| Membership administration (`services/membership_service.py`, `api/v1/workspaces.py`, `api/deps.py`) | `workspaces`, `workspace_memberships`; row locks; identity map of each session | add, change, remove members; create, rename, delete a workspace; create a local user | concurrent requests, the command line |
| Accounts and sessions (`services/auth_service.py`, `api/v1/auth.py`) | `users`, `refresh_tokens` | login, refresh, logout, change password, reset by an administrator, hash upgrade, profile | concurrent requests of one account, the command line |
| Command line (`cli.py`) | none | create-owner, grant, adopt-orphans, list-workspaces, reset-password | writes the same tables, asks nobody's leave |
| Invitations (`services/invitation_service.py`, `api/v1/invitations.py`) | `workspace_invitations` | create (replacing), revoke, verify PIN, accept | memberships, accounts |
| Tables and fields (`services/metadata_service.py`) | `table_definitions`, `field_definitions` | create, update, delete; display field | records |
| Records (`services/record_service.py`) | `records` (a JSON document each) | create, replace, patch, delete with RESTRICT, labels of relations | field definitions |
| Field types (`services/field_types.py`) | none | `coerce_value`, `select_options` | records |
| Identifiers (`services/identifiers.py`) | none | `slugify`, `unique_identifier` | tables, fields |
| Locales (`core/locales.py`) | none | `resolve_locale`, `validate_locale` | accounts, workspaces |
| Cryptography (`core/security.py`) | none | hashing, signing, random tokens | accounts, invitations |
| Database layer (`db/`) | engine, sessions | `get_db` opens and closes a session per request | everything |
| Startup, health, migrations (`main.py`, `db/migrations.py`, `alembic/`) | schema version | upgrade, health checks | database |
| Browser session (`frontend/src/api/client.ts`, `auth/AuthContext.tsx`) | access token and identity in memory | restore, login, refresh and replay after a 401, logout, change of language | the API |
| Pages and components (`frontend/src/pages`, `components`) | forms | rendering | browser session |

What is hard in this code is concurrency at the database. Handlers are plain
functions in a thread pool, so every two statements of a handler have room for
other handlers between them. PostgreSQL runs at READ COMMITTED. The ORM keeps
the attributes it loaded first (identity map) and writes only the columns that
differ from what it loaded. Only `membership_service` takes row locks, some
handlers commit several times, and the command line runs beside the server.
`PROJECT.json` lists every such place under `hazards`.

What makes each part correct:

* **Membership**: one membership per user and workspace; no membership without
  its workspace; the last OWNER stays; only an OWNER makes, changes or removes an
  OWNER; requests that wait for each other's locks all end.
* **Sessions**: a refresh token is exchanged once; a reset leaves no session the
  old password opened; a temporary password has to be changed before use; a hash
  upgrade does not change the password.
* **Invitations**: one usable link per address and workspace; five wrong PINs
  close it; what is revoked or expired is not accepted; acceptance is one commit.
* **Onboarding**: one account for an address, however it is typed; an account made
  by an administrator has a password that somebody was told and that has to be
  changed; bringing in a member overwrites nobody's role.
* **Tables and fields**: names are unique, and those derived from labels are free and
  fit their column; nothing outlives its table; the display field is a field of its
  table and changes only when asked.
* **Records**: a record is what `validate_payload` would make of it; every key belongs
  to a field; a relation leads to a record of the target; a request changes only the
  values it is about.
* **Browser session**: the page shows somebody as signed in exactly as long as the
  refresh cookie is good; no session is left out of the reach of logout; the page
  speaks the language of the account.

## 2. Modules

| Module | What it is |
| --- | --- |
| `Authz` | Roles, capabilities and the OWNER boundary as constant operators. |
| `Membership` | The membership administration of one workspace, statement by statement Its last section maps it to `WorkspaceRoles`. |
| `WorkspaceRoles` | What it promises: who holds which role and is offered which, each change at once and by the authority of the member who asked for it or of the offer. |
| `MCMembership` | Instances for TLC. |
| `MembershipProofs` | Theorems about `Membership`, for any constants. |
| `MembershipPromiseProofs` | Theorems about requests that do not overlap: they keep an OWNER and implement `WorkspaceRoles`. |
| `Sessions` | The password, flag and refresh tokens of one account Its last section maps it to `Account`. |
| `Account` | What an account promises. |
| `MCSessions` | Instances for TLC. |
| `SessionsProofs` | Theorems about `Sessions`, for any constants. |
| `Invitations` | The invitations of one address to one workspace, read by read and commit by commit Its last section maps it to `InvitationLink`. |
| `InvitationLink` | What such invitations promise. |
| `MCInvitations` | Instances for TLC. |
| `InvitationsProofs` | Theorems about `Invitations`, for any constants. |
| `Onboarding` | How an address becomes an account and a member: four ways, several commits each. |
| `MCOnboarding`, `OnboardingProofs` | Its instance; its theorems. |
| `FieldTypes` | The rules for one value of a record, as constant operators. |
| `Identifiers` | How a free name is derived from a label, as constant operators. |
| `Store` | The rows of tables, fields and records, and what a request does with them in general. |
| `Metadata` | `Store` with the requests on tables and fields. |
| `Records` | `Metadata` with the requests on records: the metadata engine as a whole, and its properties. |
| `MCMetadata`, `MCRecords` | Instances that look at tables and fields, and at relations. |
| `RecordsProofs` | Theorems about every state of `Records`. |
| `OverlapProofs` | Theorems about what requests of `Records` do that nobody overtook. |
| `ClientSession` | The session as the browser page keeps it. |
| `MCClientSession`, `ClientSessionProofs` | Its instance; its theorems. |

### Membership

State: `workspace` (its row: absent, live, deleted), `user[i]` and `role[i]` (the
columns of membership `i`), `invited` (the links that may be accepted, each a user and a
role), `wsLock` and `lockedBy` (row locks), and for each
slot of the thread pool or command of the operator `pc`, `job` (the request),
`view` (the roles its session has loaded) and `todo` (the rows its locking
statement has still to reach). One workspace stands for all: no code relates
the memberships of two. `list_members` and renaming a workspace change nothing
the properties look at.

An action is one statement together with the code up to the next one; a commit
and what precedes it in the same statement are one step, because nothing it wrote
is visible before. The steps of a request follow the code:
`UpdateMember` (authorization, loading the caller) – `ReadTarget`
(`get_workspace_membership` and the boundary check) – `LockMemberships` (the
`SELECT ... FOR UPDATE` takes its snapshot) – `LockRow` (one row after the other,
in any order, because the statement has no `ORDER BY`) – `ChangeRole` (the
last-owner rule, the `UPDATE`, the commit). `RemoveMember`, `AddMember`,
`DeleteWorkspace`, `AdoptOrphans` and `CreateWorkspace` go the same way.
`GrantMembership` has two callers: the operator's command (`GrantCommand`) and
`CreateLocalUser`, which has found no account of the address and whose two commits that make
one are left to `Onboarding`; who is a member by then is found by the statement, not
remembered. `CreateInvitation` – `Invite` replaces the links it has read by a new one;
`AcceptInvitation` – `CheckExisting` – `InsertMembership` makes the member and uses the link
up. PINs, expiry and revocation are left to `Invitations`; for the roles of members a link
that is revoked is one never accepted. Two facts about the database layer carry the results. A row that
`FOR UPDATE` returns is current in the database, but the ORM keeps the attributes
that the session loaded earlier (`with_for_update` without `populate_existing`),
which concerns the caller's and the target's rows: `LockRow` updates `view` only
where it is `None`. And an `INSERT` of a membership takes a share lock on its
workspace through the foreign key, so it waits for a `DELETE` of the workspace.
`DeadlockAbort` is PostgreSQL's deadlock detector, `Fail` a lost connection or a
killed worker at any step. A uuid is `Fresh` when no row has it and no other request
remembers it, which stands for one never used.

The model assumes an engine that locks rows, as the deployed PostgreSQL does;
SQLite, which the fast tests use, ignores `FOR UPDATE`.

### Sessions

State: `password` (what the stored hash verifies), `outdated` (the hash was made
with older parameters), `mustChange`, `token[t]`, `expired`, and per slot `pc` and
`job`. `issued`, `preReset` and `uses` are history: they record whether the
password is one an administrator issued, which tokens rest on a credential older than the
last reset, and how often a token was exchanged; no guard of a code step reads
them (`job.pre` and `job.issued` belong to them). Hashing takes most of a handler's
time and lies between the read of the row and the commit, so each handler is a
row of steps: `Login` – (`Rehash`) – `Issue`; `Refresh` – `Rotate` – `Issue`;
`ResetMember` – `ScanSessions` – `CommitReset`; the operator's `ResetPassword` –
`StorePassword` – `ScanSessions` – `CommitRevocations`, where the password and
the revocations are two commits. An assignment to an ORM attribute becomes part
of the `UPDATE` only if the value differs from the one loaded: `job.flag`
remembers the loaded flag, and `mustChange' = (mustChange \/ ~job[r].flag)` says
exactly that. One account stands for all: accounts share no row. Access tokens
are signed and expire by themselves; they have no state here.

### Invitations

State: one row per link (`mode`, `accepted`, `revoked`, `expired`, `verified`,
`attempts`), whether the address has an `account` and is a `member`, and per slot
`pc` and `job`, which holds the rows a handler has read. `wrong` is history: the
wrong PINs answered. A handler reads, then commits: `Create` – `CommitCreate`,
`Revoke` – `CommitRevoke`, `VerifyPin` – `CountAttempt` or `StampPin`, `Accept` –
`LookUp` – `Join`. Nothing locks a row and no `UPDATE` has a condition, so a commit
writes what its session decided on the row it had read. `CreateUser`, `AddMember`
and `RemoveMember` stand for what `Sessions` and `Membership` do to the same person,
each at once. Who may invite is left to `Authz`: an OWNER may do all of it. The role an
invitation carries and the wording of its errors change nothing here; a token and a
PIN are what they open, not their digits.

### Onboarding

State: `accounts` (the rows that exist), and of each `password` (issued by the server
or chosen by a person), `flag` (`must_change_password`) and `role` in one workspace;
`told` is history, the accounts whose password somebody knows. An account's row is a
function of its id, so that to insert a row is to draw an id that has the address wanted
(`New`); addresses are spellings, and `Normal` says what `normalize_email` makes of each.
`create_local_user` makes three commits, and each is an action:
`CreateLocalUser` (the role is allowed, the address is free) – `InsertAccount` – `SetFlag`
– `ReadMembership` – `Join`. `CreateOwner` and `AcceptInvitation` make an account, the
latter in one commit with the membership; `AddMember` takes an account that exists. The
unique index on `users.email` is in `InsertAccount`, the unique constraint of memberships
in `Join`. `ResetMember`, `ChangePassword` and `RemoveMember` stand for what `Sessions` and
`Membership` do to the same account, each at once. `SetFlag` writes the flag of a row that
was loaded after its own commit, so it overwrites whatever was done in between.

### The metadata engine: FieldTypes, Identifiers, Store, Metadata, Records

State (`Store`): `tables`, `fields`, `records` (the ids that have a row), `display`
(`display_field_key`), `required` and `config` of fields, `data` (the JSON document of
each record), `spent` (ids never to be drawn again), and per slot `pc` and `job`, which
holds what the request's session has loaded. `crossed` is history: the requests under way
when another one committed a change. What a row keeps for life – its table, slug or key,
its type – is a function of its id.

Nothing in `metadata_service` or `record_service` locks a row before its flush, checks a
version or repeats a check, so a request is a row of reads and one commit, and every
action is a statement with the code up to the next. Locks that PostgreSQL takes during a
flush only delay another commit; the model has the order that results. Three facts about
the ORM carry the results: an `UPDATE` leaves out columns (a JSON document is one column)
whose value equals the one loaded; an `UPDATE` of a row that is gone raises
`StaleDataError` and undoes the transaction, a `DELETE` of one only warns; `ON DELETE
CASCADE` removes rows the session never loaded. So `DropField` writes the whole document
of every record it found with the key, and fails as a whole if one is gone, and
`WriteRecord` writes the whole merged document.

* `create_table`: `CreateTable` (slugs read, one chosen) – `InsertTable`.
* `update_table`: `UpdateTable` – `CheckDisplayField` – `WriteTable`. Names, descriptions
  and positions are left out: no other code reads them.
* `delete_table`: `DeleteTable` – `DropTable`.
* `create_field`: `CreateField` – (`CheckTarget`) – `NameField` – `InsertField`, which also
  chooses the first text field as the display field.
* `update_field`: `UpdateField` – (`LoadTable` – (`CheckTarget`)) – `WriteField`.
* `delete_field`: `DeleteField` – `LoadTable` – `ScanRecords` – `DropField`.
* `create_record`, `replace_record`, `patch_record`: `CreateRecord`, `ReplaceRecord`,
  `PatchRecord` – `LoadFields` – `Validate` – `InsertRecord` or `WriteRecord`. The related
  records of one document are looked up in one step.
* `delete_record`: `DeleteRecord` – `LoadRelations` – `ScanDependents` for each relation
  field – `DropRecord`.

A JSON value (`FieldTypes`) is its JSON type, what its text reads as, and whether it is
spelled the way `str()` or `isoformat()` would give it back; `Coerced` makes it canonical.
That distinction is what a relation in capitals needs: the value is stored in canonical
form, but the *configuration* of a field is stored as the client sent it (`plain`), and
`delete_record` compares it as text. A name (`Identifiers`) is a sequence of symbols, and
a label is what `slugify` leaves of it; the folding of letters is left out, the cuts to
`MaxLength`, the numbers and the fallback are not.

### ClientSession

State: of the page `accessToken` (in memory), `session` (of `AuthContext`: undefined,
null or an identity), `preferred` (the locale in the identity), `shown` (the language of
the page) and `cookie` (the refresh token, in the browser's jar); of the server `live`
(refresh tokens that are good) and `saved` (the locale of the account); for each call
what it is doing, with the token and cookie its fetch carried and the answer it got.
`crossed` is history: a call joins it when another call or the administrator changes page
or server before its answer is taken. A call is sent (`Login`, `Logout`, `Request`,
`RefreshIdentity`, `SetLocale`, `Reload`), handled by the server in one step (`Handle`),
and its answer is taken by the script (`Settle`), or the fetch rejects, before the server
has handled it or after (`Lose`). A request that gets a 401 sends a refresh and then a
replay (`SettleRequest`); no two refreshes know of each other, as in `client.ts`. Reloading
the page forgets everything but the cookie; what was under way still reaches the server
(`Forsaken`), and so does a call that the page has given up because its fetch rejected
(`Drop`). An answer can be an error before anything is committed, between the two commits of
a refresh, or after the last commit: the routes go on to read what they answer, and a proxy
may give up (`Err`; a proxy that answers before the server is done is a fetch that rejects).
An error sets no cookie; the headers of a good answer do, even if its body is lost
(`SetsCookie`, `Lose`, `Reload`). `Sessions` looks inside the server's step; here two refreshes with the same
cookie are answered one after the other. A page has one access token at a time and older
ones are in flight only, so they expire together (`ExpireAccess`). The model is of a
production build; React's strict mode, which runs the restoring effect twice, is one more
pair of overlapping refreshes.

## 3. Runs

A passing run fixes an instance in which every interesting case happens; the
mutants (operators named after the definition they change, placed before it)
show that each property of each run notices a plausible error in the code.

| Run | Instance | Shows |
| --- | --- | --- |
| `membership_race` | 3 users, 3 rows, 2 slots for requests and operator's commands, roles asked for OWNER and ADMIN | what row locks and the unique constraint guarantee, the cascade, and the only ways to lose the last OWNER or cross the boundary |
| `membership_ends` | 2 users, one of them invited, 2 rows, 2 requests, fairness | every handler returns, deadlocks included, creations and acceptances of invitations among them |
| `membership_serial` | 3 users, one of them invited, 3 rows, 1 request | the last OWNER stays, an acceptance makes an OWNER only by an OWNER's offer, and the code implements `WorkspaceRoles` when handlers do not overlap |
| `sessions_race` | 2 passwords, 2 tokens, 2 slots for requests and operator's resets | the only ways a session outlives a reset, a flag is lost, a token is exchanged twice |
| `sessions_serial` | 3 passwords, 3 tokens, 1 request | the code implements `Account` when handlers do not overlap: a reset leaves no session and a password to be changed (a reset that forgets either breaks the refinement, so the run asks no more) |
| `invitations_race` | 2 links, 2 requests, 3 PIN attempts | what survives overlap: the PIN is asked for, a full count closes the link, and a second usable link needs two creations at once |
| `invitations_serial` | 3 links, 1 request, 3 PIN attempts | the code implements `InvitationLink` when handlers do not overlap |
| `onboarding` | 3 accounts, 2 spellings of one address, 3 requests | one account comes of one address; the only ways it is left half made or a role is overwritten |
| `metadata_race` | 4 tables with colliding slugs, 3 fields with two keys, 1 record, 2 requests | names, orphaned keys, validity of records; a display field dangles only by overlap and changes only on request |
| `records_race` | 3 tables in 2 workspaces, a text and a relation field, 2 records, 2 requests | rows and tables, relations and their targets, lost values |
| `restrict_spelled` | as above, 1 request, targets spelled in any way | the one counterexample, see below |
| `client_session` | 2 calls, 3 refresh tokens, 2 locales | the only ways page, cookie and server come to disagree, errors after a commit included |

Bounds. Two requests are enough for every conflict between two handlers; three
members are a caller, a target and a bystander, so a row that is neither the caller's nor the
target's exists; three rows let a membership be removed and made anew. In `membership_race` nobody is
invited: invitations and their acceptance overlap with the other requests in
`membership_ends`, which asks only whether they return. That they make no second membership,
and cross the OWNER boundary in no other way than the property names, is proved for any
number of requests (`MembershipProofs`); the boundary is also model-checked with them, one
handler at a time. EDITOR and VIEWER
hold no capability a handler here asks for; EDITOR appears in the serial run and
VIEWER differs from it in nothing `Membership` looks at. Two tokens let one be rotated
into the other, a third lets a session stay that nobody uses. `uses` counts to
`MaxUses = 2` and no further. `PIN_ATTEMPT_LIMIT` is 5 in the code and 3 in the runs: a
first, a middle and a last attempt, and a count that two overlapping attempts can lose;
the theorems hold for any limit. Two links are one and its replacement, three also a
replacement of that. The history counter `wrong` stops at the limit.

In `onboarding` the third request is the administrator who resets a password between two
commits while another creation races. In `metadata_race` the slug of the second table
named "abc" is "a-2" (`MaxLength` is 3, so the number forces a second cut) and a table
labelled "a-2" competes for it; two fields with the same key and different types let a
record written under one be read under the other. `MaxIndex` is the highest number tried,
6 (9 in the runs over `Records`). The code counts on without a limit; `NamesAssumption` says
that there are more numbers than rows that could have taken one, and `NumbersAssumption` that
numerals (`Numeral[n]` is `str(n)`) differ, consist of digits, and leave room in a name for a
letter and a separator: with `MaxLength` 120, as in the code, numbers of a hundred digits
do. A third field has another key, so that one display field can take the place of another,
and is a text, so that it may be chosen by itself. Fields made in that run are required (one
there from the start need not be), and `update_field` is left to `records_race`: it
is what `RecordsStayValid` excuses. In `records_race` the relation's target may be
any of three tables, one of them in another workspace, and payloads are nothing, a name
and a reference in capitals. In `client_session` two calls are any pair of overlapping
requests; three tokens are the one in the jar, the one granted and one more that an
overlapping login or refresh grants. The theorems of section 4 hold for any number of
requests, calls, rows and values.

Symmetry is used only in runs without liveness.

Deadlock is not checked in the membership runs: an orphan workspace with no
operator, and a deleted one, answer 404 for ever. Nor in the metadata runs: once
every id is spent and every row gone, nothing is left to be asked.

Fairness (`FairSpec`, only for `RequestsEnd`): strong fairness of the next
statement of each handler, since a thread is scheduled again and PostgreSQL
queues the waiters of a row lock, so a lock that is free again and again is
eventually granted; weak fairness of the deadlock detector, which runs for every
transaction that has waited for `deadlock_timeout`. Nothing is assumed of callers
and `Fail` is never required to happen.

### What the code does not keep

`restrict_spelled` checks a sentence of the documentation and finds a
counterexample that takes no overlap: `RELATIONS.md:7-8` says that a referenced record is
not deleted, but `delete_record` finds the referring fields by comparing
`config.target_table_id` as text, and `create_field` stores that text as the client spelled
it. With a target in capitals or without hyphens RESTRICT never applies.
`PlainDeletionRestricted` proves that nothing else breaks the sentence for a request that
nobody overtook: where every target is spelled plainly, it holds. The exception is
named in `DanglingNeedsCause`.

The other divergences are the exceptions that a passing property makes; with the exception
taken out, TLC finds each of them:

* `OwnersLostOnlyByStaleRead`: two OWNERs demote each other (or one demotes the other and
  the other leaves). Each request has loaded its caller and target as OWNER before it waits
  for the locks, so both count two OWNERs. `MembersHaveOwner` holds one request at a time (`LastOwnerStays`).
* `BoundaryCrossedOnlyByStaleRead`: an ADMIN's request has read its target as EDITOR, an
  OWNER promotes the target, and the ADMIN's request then demotes or removes it. Or an ADMIN's
  `create_local_user` has made an account, an OWNER adds it as an OWNER, and the grant that
  follows demotes it (the last OWNER even, see `OwnersLostOnlyByStaleRead`). That an
  invitation makes an OWNER long after it was offered is meant so.
* `ExchangedTwiceOnlyByOverlap`: two refreshes read the same live token before either
  revokes it.
* `SessionsSurviveOnlyByOverlap`: a login that verified the old password inserts its token
  after the reset has selected the sessions to revoke, or the operator's reset dies between
  its two commits.
* `UnflaggedOnlyByStaleRead`: a reset that loaded `must_change_password` as TRUE sends no
  update of it, while a change of password clears it; and a login with an old hash stores
  the old password over a new one. `LOCAL_USER_ONBOARDING.md:8-10` and
  `AUTHENTICATION.md:58-59` promise otherwise; `TemporaryPasswordMustBeChanged` is proved for one
  request at a time (`FlagStays`).
* `SecondLinkOnlyByOverlap`: two creations that overlap leave two usable links, where the
  comment at `invitation_service.py:35` says that replacement prevents it.
* `AttemptsCounted` has `<=` and not `=`: wrong PINs submitted together are counted
  once, so more than five may be tried.
* `AcceptedOnlyWhilePending` holds one request at a time (`UsedWhilePending`): a request that has read the
  invitation as active joins the workspace though it is revoked or replaced meanwhile.
* `StrandedNeedsFailure`, `RolesKept`: a `create_local_user` that dies between its commits
  leaves an account that nobody can use or that nobody has to protect with a new password,
  and a retry answers 409; one that is overtaken by `add_member` grants its own role over
  the one given.
* `DanglingNeedsCause`: `delete_table` and `update_field` leave relations that lead nowhere,
  which no document forbids.
* `OrphansNeedOverlap`, `OtherValuesKept`, `RecordsStayValid`, `DisplayNeedsOverlap`,
  `DisplayChangesOnRequest`: of two
  overlapping patches one is lost; a record created while its field is deleted keeps the
  key; a display field chosen while another is deleted is cleared.
* `AbandonedNeedsCause`, `LocaleFollowsAccount`: a login whose answer fails after its commit
  leaves a token nobody holds, and `update_profile` that fails after its commit leaves page
  and account in two languages.
* `SessionFollowsCookie`: two requests that meet a 401 at the same time sign the page out,
  since the second refresh presents a rotated token; an identity that arrives after the
  logout shows the page signed in.

One more divergence needs no run: the docstring of `revoke_all_sessions`
(`auth_service.py:252`) says "Used by password changes", while `set_password` does
not call it, as `docs/04_technical/LOCAL_USER_ONBOARDING.md:19` states. The model
follows the code.

## 4. Proofs

`MembershipProofs` proves, for any sets of users, rows, requests, operators and
roles asked for, under the three assumptions of `Membership` (`None` is none of the
values it stands beside; callers ask for roles; the table is finite at any time):

* `Typing` – `TypeOK` is invariant.
* `Invariant` – `IInv` is invariant. `TypeOK` and the properties are not inductive
  on their own. That a locked row is read as it is needs to know that locks belong to
  handlers at their locking statement, on rows that exist and that they have done with
  (`LocksHeld`); that a handler has loaded nothing but its caller, target and locked
  rows (`LoadedOnce`); and what a handler knows at each stage, for instance that its
  caller and target passed the boundary check (`Stages`). That the cascade is complete needs
  to know that the deletion holds the workspace (`WorkspaceHeld`, `WorkspaceThere`) and that
  every row is still to be reached or already locked by it (`CascadeReaches`).
* `LockedReads`, `UniqueMembership`, `CascadeIsComplete` – corollaries of `IInv`.
* `OwnersLost` – whoever passes the last-owner check has counted a second OWNER
  among its locked rows; unless that row is the caller's or the target's, `LockedReads`
  says it is one. The cardinality argument is `CountSeesAnOwner`.
* `BoundaryCrossed` – by cases on the handlers that write a role or offer one.

`InvitationsProofs` proves, for any links, requests and positive PIN limit:

* `Typing`, `Invariant` – `IInv` adds to `TypeOK` what a handler in hand knows. That the
  count never runs ahead of the wrong PINs (`CountIsSound`) is not inductive alone: the
  commit writes the count the handler read plus one, so one must know that this count was
  below the limit and is no greater than the wrong PINs answered since (`PinsInHand`; `wrong`
  only grows). That nobody joins past the PIN (`PinIsAsked`) needs that the link an
  acceptance holds had its PIN given (`AcceptancesInHand`): a PIN once given stays given and
  a row never changes its mode. The lemma `InvEnd` says once for all commits what a
  commit must leave alone for the others' knowledge to stay true.
* `SecondLink` – only a creation makes a link active, and it revokes what it has read.

`SessionsProofs` proves, for any passwords, tokens, requests and operators, when `None`
is no password and no token:

* `Typing`, `Invariant` – `TypeOK` needs only that whoever is about to store a password
  has one (`PasswordsInHand`).
* `SurvivorsExplained` – either the step makes a session older than a reset
  (`OldSessions`: `Issue` by a handler that the reset has overtaken, or a reset's commit
  that did not see the session), or it ends a reset that stood between its two commits, which
  only that reset can do (`OthersStay`), by its second commit or by dying.
* `FlagsExplained` – by cases on the three steps that write the flag or the credential.

`RecordsProofs` proves of the metadata engine, for any tables, fields, records, documents,
configurations, slots and operations, under the assumptions of `Store` and `Identifiers` (ids
are distinct, `None` is no value, inputs are of their kinds, the preset structure is one that
requests could have made, there are more numbers than rows; the last is used for names only):

* `Typing`, `Invariant` – `IInv` adds to `TypeOK` and the properties that follow what a
  request carries to its commit (`JobsFit`): the row it names is of the kind of its
  operation, the arguments it will write are there, and the target of a relation, once
  looked up, is in the field's workspace. `WorkspaceOf` never changes, so that knowledge
  survives any overlap. Validation is shown to return a document (`StoredTyped` and the
  lemmas around it).
* `TablesOfRows`, `UniqueNames`, `RelationsAtHome` – corollaries: the inserts carry the
  foreign key and the unique constraints, the cascade takes the rest.

`OverlapProofs` proves the six properties of steps. They all speak of a request that no
commit overtook, and rest on one invariant: what such a request has read is still so
(`JobsCurrent`: its definitions are those of the table, its document is the stored one, the
records it found are those there are, the display field is the one it loaded). Reading keeps
it, and a commit that changes a row puts all others among `crossed`. `AloneCommits` turns a
step of such a request into its commit on top of the current rows; each property is then
proved commit by commit:

* `OrphansNeedTwo`, `DisplayKept`, `DisplayExchanged`, `ValuesKept` – directly.
* `DanglingExplained` – a relation just stored resolves, since `Validate` found its record;
  a deleted record is referred to by no field that `ScanDependents` has searched.
* `ValidityKept` – `validate_payload` is idempotent: it accepts what it returned and returns
  it again; a field that may be left out, and the removal of a field with its key, keep that.

* `PlainDeletionRestricted` – `DeletionRestricted`, the sentence that `restrict_spelled` refutes,
  where every field spells its target plainly (`TargetsPlain`): then `ScanDependents` has
  searched every field that leads to the record's table.

`NamesDerivedFree`, also there, proves `DerivedNamesAreFree`: as long as nobody else commits, a
name derived from a label is free and fits. That the search finds one is a counting argument. A
name ends in its number, whatever the cut took from the label (`Endings`), so two numbers
give two names (`EndingsDiffer`, on numerals: `Numerals`); there are
more numbers than names taken, so a number is free (`SomeFree`, the pigeonhole principle over
finite sets), hence a least one (`Least`, by the well-foundedness of the naturals), which is
what the code's loop stops at; and the cut leaves room for it (`CutFits`). `UniqueIsFree` puts
these together for any set of names taken. `FewSlugs` and `FewKeys` bound the names by the rows;
`FreeNames` and the lemmas after it carry the choice from the read to the insert.

`OnboardingProofs` proves, for any accounts, spellings and requests:

* `Typing`, `OneAccount` – rows are stored under normalized addresses, each once
  (`Addresses`).
* `RolesOfMembersKept`, `StrandedExplained` – again from what a request that was not overtaken
  knows (`JobsCurrent`): between its commits its account has the issued password, no role and
  nobody who was told.

`ClientSessionProofs` proves, for any number of calls, tokens and locales:

* `Typing`, `Invariant` – `IInv` says what a call has in hand (`CallsFit`: an answer that is ok
  brings a locale, and a token exactly if it grants one) and what a call that nothing
  overtook knows (`CallsCurrent`: a refresh that is under way carries the cookie of the page;
  once answered, by ok or by 401, the cookie in the jar is dead, and the token granted is
  good; a change of language still finds the page as it left it, and the account too unless
  its own answer is an error that came after the commit; a call its page has given up is one
  of a page that is loading).
* `SessionFollows`, `LocaleFollows`, `AbandonedExplained` – by cases on the answer that is
  taken.

### Handlers that do not overlap

Three promises hold only where handlers do not overlap: the properties above name what
overlap breaks. The theorems about them say so with a hypothesis on the behaviour and not
with a single slot: `OneAtATime`, at any time at most one handler is between its first
statement and its last. A server with many threads whose requests happen not to overlap
is covered, and so is a handler that dies. Further hypotheses are named where they are needed.
The argument is the same in the three modules: what a handler has read is still so when it
commits (`Current`), because a step of one finds the others idle (`OthersIdle`). That is no
invariant of `Spec`, so it is proved under `[]OneAtATime`, on top of `IInv`.

`MembershipPromiseProofs`, about requests and the operator's commands:

* `LastOwnerStays` – `MembersHaveOwner`, if the operator grants no roles (`NoGrant`). That the
  row a request works for is still an administrator's needs what the request learnt when
  it was admitted (`Admitted`: it has seen its caller's role and the role has the capability),
  which is proved without any hypothesis. The last-owner rule then counts current rows.
* `PromiseKept` – the refinement of `WorkspaceRoles`, if no command of the operator runs
  (`NoCommand`; a command asks for nobody's authority, so `WorkspaceRoles` has no step for it).
  The mapping reads the role of a user off the user's row (`RolesMatchRows`, from
  `OneMembershipEach`) and the requester off the one handler under way (`RequesterMatches`).
  One lemma per kind of action says which step of the promise it is: an arrival asks, an early
  return or a failure declines, the commit that changes a row changes the role, the commits of
  `create_invitation` and `accept` offer and take up, the cascade ends the workspace, and reads
  and locks are stutters.

`SessionsProofs`:

* `FlagStays` – `TemporaryPasswordMustBeChanged` with no further hypothesis: the flag that
  a reset has loaded (`job.flag`) is the flag there is.
* `SessionsEnd` – `NoSessionSurvivesReset`, if the operator's reset dies between its
  two transactions only where no session lives (`CommandsFinish`): a death there leaves
  sessions of the old password, whether anything overlaps or not.
* `PromiseKept` – the refinement of `Account`, if no reset by the operator runs
  (`NoCommand`). A refresh between its two commits has revoked a token and not yet inserted the
  next; the mapping keeps its session alive there (`Exchanging`), and the proof shows that
  nobody but the one handler under way is in that set (`ExchangingMatches`).

`InvitationsProofs`:

* `UsedWhilePending` – `AcceptedOnlyWhilePending` with no further hypothesis.
* `PromiseKept` – the refinement of `InvitationLink`, if nobody is removed from the
  workspace between an acceptance's look at the members and its commit
  (`NoRemovalMeanwhile`). `RemoveMember` is a single step of the model, so `OneAtATime` does
  not exclude it, and without it the refinement fails: an acceptance that found a member
  who is removed before it commits uses up the link without making a member. `Settled` says that the count equals
  the wrong PINs, which overlap would break.

`SerialPromise`, in each of the three, has no hypothesis on behaviours: one request slot, and no
slot for the operator, imply them all (`NobodyCommands`). It is the specification of the serial
runs, for any users, rows, roles, passwords, tokens, links and limit.

### Only model-checked

`RequestsEnd`: liveness under fairness is out of the prover's reach. Every other property
that a passing run checks is stated by a theorem. What `Coerced` and the other operators over
data compute is proved as far as the invariants need it (`ValidationStable`, `UniqueIsFree`).

## 5. Not modelled

* Request and response schemas, configuration, migrations, health checks, deployment, pages
  and components: no shared state, or pure I/O. Locales: a stateless choice among three
  sources. The cryptographic primitives beyond what their callers rely on.
* Listings, labels of relations and display values, `list-workspaces`: they only read.
  What makes a listing fail, a stored relation that is no uuid, is covered by
  `OrphansNeedOverlap` and `RecordsStayValid`.
* Views, names, descriptions and positions of tables and fields; the folding of letters in
  `slugify`.
* The deletion of a workspace cascades to its tables; `Membership` models it for memberships,
  `Records` has the cascade of a table only.
* Deactivating an account (no route does it) and the parts of a profile other than the locale.
* In `ClientSession`: capabilities and memberships in the identity, several tabs that share a
  cookie jar, liveness of calls (a call may always be lost, and nothing in the code retries one).

What could be added next: a typed store that `Records` implements one request at a time;
several pages over one jar, composed with `Sessions`.
