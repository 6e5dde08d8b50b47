-------------------------- MODULE OnboardingProofs --------------------------
(* Theorems about Onboarding, for any addresses, accounts and slots.       *)
EXTENDS Onboarding, TLAPS

-----------------------------------------------------------------------------
(* The inductive invariant.                                                *)

(* A job has what its next commit writes.                                  *)
Fit(at, j) ==
  /\ at = "idle" => j.op = "none"
  /\ at # "idle" => j.op # "none" /\ j.account \in Accounts
  /\ at = "insert" => /\ j.op \in {"local", "owner", "accept"}
                      /\ Normal[EmailOf[j.account]] = EmailOf[j.account]
                      /\ j.op # "owner" => j.role \in Roles
  /\ at \in {"flag", "grant", "join"} => j.role \in Roles
  /\ at \in {"flag", "grant"} => j.op = "local"
  /\ at = "join" => \/ j.op = "local"
                    \/ j.op = "add" /\ j.found = None

(* An account that is being worked on has a row.                           *)
Exists(at, j) == at \in {"flag", "grant", "join"} => j.account \in accounts

JobsFit == \A r \in Slots : Fit(pc[r], job[r]) /\ Exists(pc[r], job[r])

(* What a create_local_user that was not overtaken knows of its account.   *)
Cur(at, j) ==
  /\ at \in {"flag", "grant", "join"} /\ j.op = "local" =>
       role[j.account] = None /\ password[j.account] = "issued"
  /\ at \in {"grant", "join"} /\ j.op = "local" => flag[j.account]
  /\ at = "join" => j.found = None

JobsCurrent == \A r \in Slots \ crossed : Cur(pc[r], job[r])

(* Rows are stored under normal addresses, each once.                      *)
Addresses ==
  /\ \A a \in accounts : Normal[EmailOf[a]] = EmailOf[a]
  /\ \A a, b \in accounts : EmailOf[a] = EmailOf[b] => a = b

IInv == TypeOK /\ JobsFit /\ JobsCurrent /\ Addresses

LEMMA NoJobTyped == NoJob \in Jobs
BY DEF NoJob, Jobs

SameRows == UNCHANGED <<accounts, password, flag, role, told>>

(* The rows have values of their kinds.                                    *)
RowsTyped ==
  /\ accounts \subseteq Accounts /\ told \subseteq accounts
  /\ password \in [Accounts -> {"none", "issued", "chosen"}]
  /\ flag \in [Accounts -> BOOLEAN]
  /\ role \in [Accounts -> Roles \cup {None}]
  /\ \A a \in Accounts :
       a \notin accounts => password[a] = "none" /\ ~flag[a] /\ role[a] = None

-----------------------------------------------------------------------------
(* Kinds of steps.                                                         *)

LEMMA CurKept ==
  ASSUME NEW at, NEW j, SameRows, Cur(at, j)
  PROVE  Cur(at, j)'
BY DEF Cur, SameRows

(* One request moves on, the others are overtaken if a row has changed.    *)
LEMMA Moves ==
  ASSUME IInv, NEW r \in Slots, NEW at \in Stages, NEW j \in Jobs,
         Continue(r, at, j), RowsTyped', Addresses', accounts \subseteq accounts',
         Fit(at, j), Exists(at, j)',
         r \notin crossed => Cur(at, j)'
  PROVE  IInv'
<1>1. /\ pc' = [pc EXCEPT ![r] = at] /\ job' = [job EXCEPT ![r] = j]
      /\ crossed' = {q \in Slots :
                       \/ q \in crossed /\ pc'[q] # "idle"
                       \/ q # r /\ pc[q] # "idle" /\ rows' # rows}
  BY DEF Continue, Overtake
<1>2. TypeOK'
  BY <1>1 DEF IInv, TypeOK, RowsTyped
<1>3. JobsFit'
  <2>1. ASSUME NEW q \in Slots PROVE Fit(pc'[q], job'[q])
    BY <1>1 DEF IInv, TypeOK, JobsFit
  <2>2. ASSUME NEW q \in Slots \ {r} PROVE Exists(pc[q], job[q])'
    <3>1. pc'[q] = pc[q] /\ job'[q] = job[q]
      BY <1>1 DEF IInv, TypeOK
    <3> QED BY <3>1 DEF IInv, JobsFit, Exists
  <2>3. Exists(pc[r], job[r])'
    <3>1. pc'[r] = at /\ job'[r] = j
      BY <1>1 DEF IInv, TypeOK
    <3> QED BY <3>1 DEF Exists
  <2> QED BY <2>1, <2>2, <2>3 DEF JobsFit, Fit
<1>4. JobsCurrent'
  <2>1. SUFFICES ASSUME NEW q \in Slots, q \notin crossed' PROVE Cur(pc[q], job[q])'
    BY DEF JobsCurrent
  <2>2. CASE pc'[q] = "idle"
    BY <2>2 DEF Cur
  <2>3. CASE pc'[q] # "idle" /\ q = r
    <3>1. pc'[q] = at /\ job'[q] = j /\ r \notin crossed
      BY <1>1, <2>1, <2>3 DEF IInv, TypeOK
    <3> QED BY <3>1, <2>3 DEF Cur
  <2>4. CASE pc'[q] # "idle" /\ q # r
    <3>1. pc'[q] = pc[q] /\ job'[q] = job[q]
      BY <1>1, <2>4 DEF IInv, TypeOK
    <3>2. q \notin crossed /\ rows' = rows
      BY <1>1, <2>1, <2>4, <3>1
    <3>3. SameRows /\ Cur(pc[q], job[q])
      BY <3>2 DEF rows, SameRows, IInv, JobsCurrent
    <3> QED BY <3>1, <3>3, CurKept DEF Cur, SameRows
  <2> QED BY <2>2, <2>3, <2>4
<1> QED BY <1>2, <1>3, <1>4 DEF IInv

LEMMA Ends ==
  ASSUME IInv, NEW r \in Slots, End(r), RowsTyped', Addresses',
         accounts \subseteq accounts'
  PROVE  IInv'
<1>1. Fit("idle", NoJob)
  BY DEF Fit, NoJob
<1>2. Exists("idle", NoJob)' /\ Cur("idle", NoJob)'
  BY DEF Exists, Cur, NoJob
<1> QED BY <1>1, <1>2, NoJobTyped, Moves DEF End, Stages

LEMMA RowsKept ==
  ASSUME IInv, SameRows
  PROVE  RowsTyped' /\ Addresses' /\ accounts \subseteq accounts'
BY DEF IInv, TypeOK, SameRows, RowsTyped, Addresses

LEMMA Refuses ==
  ASSUME IInv, NEW r \in Slots, Refuse(r)
  PROVE  IInv'
BY Ends, RowsKept DEF Refuse, rows, SameRows

LEMMA Begins ==
  ASSUME IInv, NEW r \in Slots, NEW at \in Stages, NEW j \in Jobs,
         Begin(r, at, j), Fit(at, j), Exists(at, j), Cur(at, j)
  PROVE  IInv'
<1>1. /\ pc' = [pc EXCEPT ![r] = at] /\ job' = [job EXCEPT ![r] = j]
      /\ SameRows /\ UNCHANGED crossed
  BY DEF Begin, rows, SameRows
<1>2. TypeOK' /\ Addresses'
  BY <1>1, RowsKept DEF IInv, TypeOK, RowsTyped
<1>3. \A q \in Slots : \/ q = r /\ pc'[q] = at /\ job'[q] = j
                       \/ q # r /\ pc'[q] = pc[q] /\ job'[q] = job[q]
  BY <1>1 DEF IInv, TypeOK
<1>4. JobsFit'
  BY <1>1, <1>3 DEF IInv, JobsFit, Exists, SameRows
<1>5. JobsCurrent'
  <2>1. \A q \in Slots \ crossed : Cur(pc'[q], job'[q])
    BY <1>3 DEF IInv, JobsCurrent
  <2>2. \A a, k : Cur(a, k) => Cur(a, k)'
    BY <1>1, CurKept
  <2> QED BY <1>1, <2>1, <2>2 DEF JobsCurrent
<1> QED BY <1>2, <1>4, <1>5 DEF IInv

-----------------------------------------------------------------------------
(* Every action keeps the invariant.                                       *)

(* The row for an address has the address in its normal form.              *)
LEMMA NewNormal ==
  ASSUME NEW s \in Spellings, NEW a \in New(s)
  PROVE  a \in Accounts /\ Normal[EmailOf[a]] = EmailOf[a]
BY SpellingAssumption DEF New, NormalizeEmail

LEMMA InvArrive ==
  ASSUME IInv, NEW r \in Slots,
         CreateLocalUser(r) \/ CreateOwner(r) \/ AcceptInvitation(r) \/ AddMember(r)
  PROVE  IInv'
<1>1. ASSUME NEW op \in {"local", "accept"}, NEW s \in Spellings,
             NEW a \in New(s), NEW asked \in Roles,
             Begin(r, "insert",
                   [NoJob EXCEPT !.op = op, !.account = a, !.role = asked])
      PROVE  IInv'
  <2> DEFINE j == [NoJob EXCEPT !.op = op, !.account = a, !.role = asked]
  <2>1. a \in Accounts /\ Normal[EmailOf[a]] = EmailOf[a]
    BY NewNormal
  <2>2. j \in Jobs
    BY <2>1, NoJobTyped DEF Jobs
  <2>3. Fit("insert", j) /\ Exists("insert", j) /\ Cur("insert", j)
    BY <2>1 DEF Fit, Exists, Cur, NoJob
  <2> QED BY <1>1, <2>2, <2>3, Begins DEF Stages
<1>2. CASE CreateLocalUser(r)
  BY <1>1, <1>2 DEF CreateLocalUser
<1>3. CASE AcceptInvitation(r)
  BY <1>1, <1>3 DEF AcceptInvitation
<1>4. CASE CreateOwner(r)
  <2>1. PICK s \in Spellings : \E a \in New(s) :
          Begin(r, "insert", [NoJob EXCEPT !.op = "owner", !.account = a])
    BY <1>4 DEF CreateOwner
  <2>2. PICK a \in New(s) :
          Begin(r, "insert", [NoJob EXCEPT !.op = "owner", !.account = a])
    BY <2>1
  <2> DEFINE j == [NoJob EXCEPT !.op = "owner", !.account = a]
  <2>3. a \in Accounts /\ Normal[EmailOf[a]] = EmailOf[a]
    BY NewNormal
  <2>4. j \in Jobs
    BY <2>3, NoJobTyped DEF Jobs
  <2>5. Fit("insert", j) /\ Exists("insert", j) /\ Cur("insert", j)
    BY <2>3 DEF Fit, Exists, Cur, NoJob
  <2> QED BY <2>2, <2>4, <2>5, Begins DEF Stages
<1>5. CASE AddMember(r)
  <2>1. PICK asked \in Roles, a \in accounts :
          Begin(r, "join",
                [NoJob EXCEPT !.op = "add", !.account = a, !.role = asked])
    BY <1>5 DEF AddMember, Found
  <2> DEFINE j == [NoJob EXCEPT !.op = "add", !.account = a, !.role = asked]
  <2>2. a \in Accounts
    BY DEF IInv, TypeOK
  <2>3. j \in Jobs
    BY <2>2, NoJobTyped DEF Jobs
  <2>4. Fit("join", j) /\ Exists("join", j) /\ Cur("join", j)
    BY <2>2 DEF Fit, Exists, Cur, NoJob
  <2> QED BY <2>1, <2>3, <2>4, Begins DEF Stages
<1> QED BY <1>2, <1>3, <1>4, <1>5

LEMMA InvInsert ==
  ASSUME IInv, NEW r \in Slots, InsertAccount(r)
  PROVE  IInv'
<1> DEFINE a == job[r].account
           j == job[r]
<1>1. /\ j \in Jobs /\ a \in Accounts /\ Normal[EmailOf[a]] = EmailOf[a]
      /\ j.op \in {"local", "owner", "accept"}
      /\ j.op # "owner" => j.role \in Roles
  BY DEF IInv, TypeOK, JobsFit, Fit, InsertAccount
<1>2. CASE Refuse(r)
  BY <1>2, Refuses
<1>3. CASE /\ \A b \in accounts : EmailOf[b] # EmailOf[a]
           /\ accounts' = accounts \cup {a}
           /\ password' = [password EXCEPT ![a] =
                             IF j.op = "local" THEN "issued" ELSE "chosen"]
           /\ told' = IF j.op = "local" THEN told ELSE told \cup {a}
           /\ role' = IF j.op = "accept" THEN [role EXCEPT ![a] = j.role] ELSE role
           /\ UNCHANGED flag
           /\ IF j.op = "local" THEN Continue(r, "flag", j) ELSE End(r)
  <2>1. RowsTyped'
    <3>1. /\ role' \in [Accounts -> Roles \cup {None}]
          /\ \A b \in Accounts \ {a} : role'[b] = role[b]
      BY <1>1, <1>3 DEF IInv, TypeOK
    <3> QED BY <1>1, <1>3, <3>1 DEF IInv, TypeOK, RowsTyped
  <2>2. Addresses'
    BY <1>1, <1>3 DEF IInv, Addresses
  <2>3. CASE j.op = "local"
    <3>1. Fit("flag", j)
      BY <1>1, <2>3 DEF Fit
    <3>2. a \in accounts'
      BY <1>3
    <3>3. a \notin accounts
      BY <1>3
    <3>4. role'[a] = None /\ password'[a] = "issued"
      BY <1>1, <1>3, <2>3, <3>3 DEF IInv, TypeOK
    <3>5. \A k : k = j => Exists("flag", k)' /\ Cur("flag", k)'
      BY <2>3, <3>2, <3>4 DEF Exists, Cur
    <3>6. \A k : k = j => Continue(r, "flag", k)
      BY <1>3, <2>3
    <3> QED BY <1>1, <1>3, <2>1, <2>2, <3>1, <3>5, <3>6, Moves DEF Stages
  <2>4. CASE j.op # "local"
    BY <1>3, <2>1, <2>2, <2>4, Ends
  <2> QED BY <2>3, <2>4
<1> QED BY <1>2, <1>3 DEF InsertAccount

LEMMA InvFlag ==
  ASSUME IInv, NEW r \in Slots, SetFlag(r) \/ ReadMembership(r)
  PROVE  IInv'
<1>1. PICK j : j = job[r]
  OBVIOUS
<1>2. /\ j \in Jobs /\ j.op = "local" /\ j.account \in accounts
      /\ j.account \in Accounts /\ j.role \in Roles
  BY <1>1 DEF IInv, TypeOK, JobsFit, Fit, Exists, SetFlag, ReadMembership
<1>3. r \notin crossed =>
        /\ role[j.account] = None /\ password[j.account] = "issued"
        /\ pc[r] = "grant" => flag[j.account]
  BY <1>1, <1>2 DEF IInv, JobsCurrent, Cur, SetFlag, ReadMembership
<1>4. CASE SetFlag(r)
  <2>1. /\ flag' = [flag EXCEPT ![j.account] = TRUE]
        /\ UNCHANGED <<accounts, password, role, told>>
        /\ Continue(r, "grant", j)
    BY <1>1, <1>4 DEF SetFlag
  <2>2. RowsTyped' /\ Addresses'
    BY <1>2, <2>1 DEF IInv, TypeOK, RowsTyped, Addresses
  <2>3. flag'[j.account]
    BY <1>2, <2>1 DEF IInv, TypeOK
  <2>4. Fit("grant", j) /\ Exists("grant", j)'
    BY <1>2, <2>1 DEF Fit, Exists
  <2>5. r \notin crossed => Cur("grant", j)'
    BY <1>3, <2>1, <2>3 DEF Cur
  <2> QED BY <1>2, <2>1, <2>2, <2>4, <2>5, Moves DEF Stages
<1>5. CASE ReadMembership(r)
  <2>1. PICK k : k = [j EXCEPT !.found = role[j.account]]
    OBVIOUS
  <2>2. /\ Continue(r, "join", k) /\ SameRows /\ pc[r] = "grant"
    BY <1>1, <1>5, <2>1 DEF ReadMembership, rows, SameRows
  <2>3. /\ k \in Jobs /\ k.op = "local" /\ k.account = j.account
        /\ k.role = j.role /\ k.found = role[j.account]
    BY <1>2, <2>1 DEF IInv, TypeOK, Jobs
  <2>4. Fit("join", k) /\ Exists("join", k)'
    BY <1>2, <2>2, <2>3 DEF Fit, Exists, SameRows
  <2>5. r \notin crossed => Cur("join", k)'
    BY <1>3, <2>2, <2>3 DEF Cur, SameRows
  <2> QED BY <2>2, <2>3, <2>4, <2>5, RowsKept, Moves DEF Stages
<1> QED BY <1>4, <1>5

LEMMA InvJoin ==
  ASSUME IInv, NEW r \in Slots, Join(r)
  PROVE  IInv'
<1> DEFINE a == job[r].account
<1>1. a \in accounts /\ a \in Accounts /\ job[r].role \in Roles
  BY DEF IInv, TypeOK, JobsFit, Fit, Exists, Join
<1>2. CASE /\ role' = [role EXCEPT ![a] = job[r].role]
           /\ Tell(r)
           /\ UNCHANGED <<accounts, password, flag>>
           /\ End(r)
  <2>1. RowsTyped' /\ Addresses'
    BY <1>1, <1>2 DEF IInv, TypeOK, RowsTyped, Addresses, Tell
  <2> QED BY <1>2, <2>1, Ends
<1> QED BY <1>2, Refuses DEF Join

LEMMA InvOther ==
  ASSUME IInv, NEW r \in Slots,
         ResetMember(r) \/ ChangePassword(r) \/ RemoveMember(r)
  PROVE  IInv'
<1>1. /\ UNCHANGED <<accounts, pc, job>> /\ pc[r] = "idle"
      /\ crossed' = {q \in Slots :
                       \/ q \in crossed /\ pc'[q] # "idle"
                       \/ q # r /\ pc[q] # "idle" /\ rows' # rows}
  BY DEF ResetMember, ChangePassword, RemoveMember, Other, Overtake
<1>2. RowsTyped'
  <2>1. CASE ResetMember(r)
    BY <2>1 DEF ResetMember, IInv, TypeOK, RowsTyped
  <2>2. CASE ChangePassword(r)
    BY <2>2 DEF ChangePassword, IInv, TypeOK, RowsTyped
  <2>3. CASE RemoveMember(r)
    BY <2>3 DEF RemoveMember, IInv, TypeOK, RowsTyped
  <2> QED BY <2>1, <2>2, <2>3
<1>3. TypeOK'
  BY <1>1, <1>2 DEF IInv, TypeOK, RowsTyped
<1>4. JobsFit' /\ Addresses'
  BY <1>1 DEF IInv, JobsFit, Exists, Addresses
<1>5. JobsCurrent'
  <2>1. SUFFICES ASSUME NEW q \in Slots, q \notin crossed' PROVE Cur(pc[q], job[q])'
    BY DEF JobsCurrent
  <2>2. CASE pc[q] = "idle"
    BY <1>1, <2>2 DEF Cur
  <2>3. CASE pc[q] # "idle"
    <3>1. q \notin crossed /\ rows' = rows
      BY <1>1, <2>1, <2>3
    <3>2. SameRows /\ Cur(pc[q], job[q])
      BY <3>1 DEF rows, SameRows, IInv, JobsCurrent
    <3> QED BY <1>1, <3>2, CurKept DEF Cur, SameRows
  <2> QED BY <2>2, <2>3
<1> QED BY <1>3, <1>4, <1>5 DEF IInv

LEMMA InvInit == Init => IInv
<1> SUFFICES ASSUME Init PROVE IInv
  OBVIOUS
<1>1. TypeOK
  BY NoJobTyped DEF Init, TypeOK, Stages
<1>2. JobsFit /\ JobsCurrent
  BY DEF Init, JobsFit, JobsCurrent, Fit, Exists, Cur, NoJob
<1> QED BY <1>1, <1>2 DEF IInv, Init, Addresses

LEMMA InvNext == IInv /\ [Next]_vars => IInv'
<1> SUFFICES ASSUME IInv, [Next]_vars PROVE IInv'
  OBVIOUS
<1>1. CASE UNCHANGED vars
  <2>1. SameRows /\ UNCHANGED <<pc, job, crossed>>
    BY <1>1 DEF vars, rows, SameRows
  <2> QED BY <2>1 DEF IInv, TypeOK, JobsFit, Exists, JobsCurrent, Cur,
                      Addresses, SameRows
<1> QED BY <1>1, InvArrive, InvInsert, InvFlag, InvJoin, InvOther, Refuses
        DEF Next, Fail

LEMMA Invariant == Spec => []IInv
BY InvInit, InvNext, PTL DEF Spec

(* Every variable holds a value of its kind.                               *)
THEOREM Typing == Spec => []TypeOK
BY Invariant, PTL DEF IInv

(* One account for an address, however it is typed and whoever races.      *)
THEOREM OneAccount == Spec => []OneAccountEach
<1>1. IInv => OneAccountEach
  BY DEF IInv, Addresses, OneAccountEach
<1> QED BY <1>1, Invariant, PTL

-----------------------------------------------------------------------------
(* Properties of steps.                                                    *)

(* Who brings in a new member leaves the roles of others alone; a          *)
(* create_local_user writes over a role only if it was overtaken between   *)
(* its commits.                                                            *)
THEOREM RolesOfMembersKept == Spec => RolesKept
<1>1. ASSUME IInv, Next, NEW a \in Accounts,
             role[a] # None, role'[a] # role[a], role'[a] # None
      PROVE  \E r \in crossed : pc[r] = "join" /\ job[r].op = "local"
  <2>1. PICK r \in Slots : InsertAccount(r) \/ Join(r)
    <3>1. \A r \in Slots : SetFlag(r) => role' = role
      BY DEF SetFlag
    <3>2. \A r \in Slots : ~RemoveMember(r)
      BY <1>1 DEF RemoveMember, IInv, TypeOK
    <3> QED BY <1>1, <3>1, <3>2
            DEF Next, CreateLocalUser, CreateOwner, AcceptInvitation, AddMember,
                Begin, ReadMembership, Fail, Refuse, ResetMember,
                ChangePassword, rows
  <2>2. ~InsertAccount(r)
    <3>1. SUFFICES ASSUME InsertAccount(r) PROVE FALSE
      OBVIOUS
    <3>2. /\ \A b \in accounts : EmailOf[b] # EmailOf[job[r].account]
          /\ role' = [role EXCEPT ![job[r].account] = job[r].role]
      BY <1>1, <3>1 DEF InsertAccount, Refuse, rows
    <3>3. a = job[r].account
      BY <1>1, <3>2 DEF IInv, TypeOK
    <3> QED BY <1>1, <3>2, <3>3 DEF IInv, TypeOK
  <2>3. /\ (role[job[r].account] = None) = (job[r].found = None)
        /\ role' = [role EXCEPT ![job[r].account] = job[r].role]
        /\ pc[r] = "join"
    BY <1>1, <2>1, <2>2 DEF Join, Refuse, rows
  <2>4. a = job[r].account /\ job[r].found # None
    BY <1>1, <2>3 DEF IInv, TypeOK
  <2>5. job[r].op = "local" /\ r \in crossed
    BY <1>1, <2>3, <2>4 DEF IInv, JobsFit, JobsCurrent, Fit, Cur
  <2> QED BY <2>3, <2>5
<1>2. IInv /\ [Next]_vars =>
        [ \A a \in Accounts :
            role[a] # None /\ role'[a] # role[a] /\ role'[a] # None
            => \E r \in crossed : pc[r] = "join" /\ job[r].op = "local" ]_vars
  BY <1>1
<1> QED BY <1>2, Invariant, PTL DEF Spec, RolesKept

(* The account is in order: its owner chose the password, or was told one  *)
(* to change.                                                              *)
Fine(a) ==
  \/ password[a] = "chosen" /\ ~flag[a]
  \/ password[a] = "issued" /\ flag[a] /\ a \in told

Made(a) == \E r \in Slots : job[r].op = "local" /\ job[r].account = a

LEMMA StrandedIs ==
  Stranded = {a \in accounts : ~Made(a) /\ ~Fine(a)}
BY DEF Stranded, Made, Fine

(* An account that was stranded by no request that failed or was overtaken *)
(* was so before.                                                          *)
LEMMA StrandedStep ==
  ASSUME IInv, Next,
         \A r \in Slots :
           ~(pc[r] # "idle" /\ pc'[r] = "idle" /\ (Fail(r) \/ r \in crossed)),
         NEW a \in accounts', ~Made(a)', ~Fine(a)'
  PROVE  a \in accounts /\ ~Made(a) /\ ~Fine(a)
<1>1. /\ accounts \subseteq Accounts /\ told \subseteq accounts
      /\ password \in [Accounts -> {"none", "issued", "chosen"}]
      /\ flag \in [Accounts -> BOOLEAN]
      /\ pc \in [Slots -> Stages] /\ job \in [Slots -> Jobs]
  BY DEF IInv, TypeOK
<1>2. ASSUME NEW r \in Slots, Refuse(r), pc[r] # "idle" PROVE FALSE
  <2>1. pc'[r] = "idle"
    BY <1>1, <1>2 DEF Refuse, End, Continue
  <2> QED BY <1>2, <2>1 DEF Fail
<1>3. ASSUME NEW r \in Slots,
             \A q \in Slots \ {r} : job'[q] = job[q],
             job[r].op = "local" => job'[r].op = "local"
                                    /\ job'[r].account = job[r].account
      PROVE  ~Made(a)
  BY <1>3 DEF Made
<1>4. ASSUME NEW r \in Slots,
             CreateLocalUser(r) \/ CreateOwner(r) \/ AcceptInvitation(r)
               \/ AddMember(r)
      PROVE  a \in accounts /\ ~Made(a) /\ ~Fine(a)
  <2>1. /\ SameRows /\ pc[r] = "idle"
        /\ \E j : job' = [job EXCEPT ![r] = j]
    BY <1>4 DEF CreateLocalUser, CreateOwner, AcceptInvitation, AddMember,
       Begin, rows, SameRows
  <2>2. job[r].op = "none"
    BY <2>1 DEF IInv, JobsFit, Fit
  <2>3. ~Made(a)
    BY <1>1, <1>3, <2>1, <2>2
  <2> QED BY <2>1, <2>3 DEF Fine, SameRows
<1>5. ASSUME NEW r \in Slots, InsertAccount(r)
      PROVE  a \in accounts /\ ~Made(a) /\ ~Fine(a)
  <2> DEFINE b == job[r].account
  <2>1. /\ pc[r] = "insert" /\ b \in Accounts
        /\ job[r].op \in {"local", "owner", "accept"}
    BY <1>5 DEF InsertAccount, IInv, JobsFit, Fit
  <2>2. /\ \A c \in accounts : EmailOf[c] # EmailOf[b]
        /\ accounts' = accounts \cup {b}
        /\ password' = [password EXCEPT ![b] =
                           IF job[r].op = "local" THEN "issued" ELSE "chosen"]
        /\ told' = IF job[r].op = "local" THEN told ELSE told \cup {b}
        /\ UNCHANGED flag
        /\ IF job[r].op = "local" THEN Continue(r, "flag", job[r]) ELSE End(r)
    BY <1>2, <1>5, <2>1 DEF InsertAccount
  <2>3. \A q \in Slots \ {r} : job'[q] = job[q]
    BY <1>1, <2>2 DEF End, Continue
  <2>4. job[r].op = "local" => job'[r] = job[r]
    BY <1>1, <2>2 DEF Continue
  <2>5. a # b
    <3>1. CASE job[r].op = "local"
      BY <2>4, <3>1 DEF Made
    <3>2. CASE job[r].op # "local"
      <4>1. b \notin accounts
        BY <2>2
      <4>2. ~flag[b]
        BY <2>1, <4>1 DEF IInv, TypeOK
      <4>3. password'[b] = "chosen" /\ ~flag'[b]
        BY <1>1, <2>1, <2>2, <3>2, <4>2
      <4>4. \A c : c = b => Fine(c)'
        BY <4>3 DEF Fine
      <4> QED BY <4>4
    <3> QED BY <3>1, <3>2
  <2>6. ~Made(a)
    BY <1>3, <2>3, <2>4
  <2>7. a \in accounts /\ password'[a] = password[a] /\ (a \in told' <=> a \in told)
    BY <1>1, <2>2, <2>5
  <2> QED BY <2>2, <2>6, <2>7 DEF Fine
<1>6. ASSUME NEW r \in Slots, SetFlag(r) \/ ReadMembership(r)
      PROVE  a \in accounts /\ ~Made(a) /\ ~Fine(a)
  <2>1. /\ job[r] \in Jobs /\ job[r].op = "local"
    BY <1>6 DEF SetFlag, ReadMembership, IInv, TypeOK, JobsFit, Fit
  <2>2. /\ \A q \in Slots \ {r} : job'[q] = job[q]
        /\ job'[r].op = "local" /\ job'[r].account = job[r].account
    BY <1>1, <1>6, <2>1 DEF SetFlag, ReadMembership, Continue, Jobs
  <2>3. a # job[r].account
    BY <2>2 DEF Made
  <2>4. ~Made(a)
    BY <1>3, <2>2
  <2>5. /\ UNCHANGED <<accounts, password, told>>
        /\ flag'[a] = flag[a]
    BY <1>1, <1>6, <2>3 DEF SetFlag, ReadMembership, rows
  <2> QED BY <2>4, <2>5 DEF Fine
<1>7. ASSUME NEW r \in Slots, Join(r)
      PROVE  a \in accounts /\ ~Made(a) /\ ~Fine(a)
  <2> DEFINE b == job[r].account
  <2>1. /\ pc[r] = "join" /\ Tell(r) /\ End(r)
        /\ UNCHANGED <<accounts, password, flag>>
    BY <1>2, <1>7 DEF Join
  <2>2. pc'[r] = "idle" /\ r \notin crossed
    BY <1>1, <2>1 DEF End, Continue
  <2>3. \A q \in Slots \ {r} : job'[q] = job[q]
    BY <1>1, <2>1 DEF End, Continue
  <2>4. CASE job[r].op # "local"
    <3>1. ~Made(a)
      BY <1>3, <2>3, <2>4
    <3> QED BY <2>1, <2>4, <3>1 DEF Fine, Tell
  <2>5. CASE job[r].op = "local"
    <3>1. password[b] = "issued" /\ flag[b] /\ told' = told \cup {b}
      BY <2>1, <2>2, <2>5 DEF IInv, JobsCurrent, Cur, Tell
    <3>2. \A c : c = b => Fine(c)'
      BY <2>1, <3>1 DEF Fine
    <3>3. a # b
      BY <3>2
    <3>4. ~Made(a)
      BY <2>3, <3>3 DEF Made
    <3> QED BY <2>1, <3>1, <3>3, <3>4 DEF Fine
  <2> QED BY <2>4, <2>5
<1>8. ASSUME NEW r \in Slots,
             ResetMember(r) \/ ChangePassword(r) \/ RemoveMember(r)
      PROVE  a \in accounts /\ ~Made(a) /\ ~Fine(a)
  <2>1. UNCHANGED <<accounts, job>>
    BY <1>8 DEF ResetMember, ChangePassword, RemoveMember, Other
  <2>2. ~Made(a)
    BY <1>3, <2>1
  <2>3. CASE ResetMember(r)
    <3>1. PICK b \in accounts : /\ password' = [password EXCEPT ![b] = "issued"]
                               /\ flag' = [flag EXCEPT ![b] = TRUE]
                               /\ told' = told \cup {b}
      BY <2>3 DEF ResetMember
    <3>2. a # b
      BY <1>1, <3>1 DEF Fine
    <3> QED BY <1>1, <2>1, <2>2, <3>1, <3>2 DEF Fine
  <2>4. CASE ChangePassword(r)
    <3>1. PICK b \in told : /\ password' = [password EXCEPT ![b] = "chosen"]
                           /\ flag' = [flag EXCEPT ![b] = FALSE]
                           /\ UNCHANGED told
      BY <2>4 DEF ChangePassword
    <3>2. a # b
      BY <1>1, <3>1 DEF Fine
    <3> QED BY <1>1, <2>1, <2>2, <3>1, <3>2 DEF Fine
  <2>5. CASE RemoveMember(r)
    BY <2>1, <2>2, <2>5 DEF RemoveMember, Fine
  <2> QED BY <1>8, <2>3, <2>4, <2>5
<1> QED BY <1>2, <1>4, <1>5, <1>6, <1>7, <1>8 DEF Next, Fail

(* create_local_user leaves an account without a usable password, or with  *)
(* one that nobody has to change, only if it failed between its commits or *)
(* was overtaken.                                                          *)
THEOREM StrandedExplained == Spec => StrandedNeedsFailure
<1>1. ASSUME IInv, Next
      PROVE  \/ Stranded' \subseteq Stranded
             \/ \E r \in Slots :
                  pc[r] # "idle" /\ pc'[r] = "idle" /\ (Fail(r) \/ r \in crossed)
  <2>1. SUFFICES ASSUME \A r \in Slots :
                          ~(pc[r] # "idle" /\ pc'[r] = "idle"
                              /\ (Fail(r) \/ r \in crossed)),
                        NEW a \in Stranded'
                 PROVE  a \in Stranded
    OBVIOUS
  <2>2. a \in accounts' /\ ~Made(a)' /\ ~Fine(a)'
    BY <2>1 DEF Stranded, Made, Fine
  <2>3. a \in accounts /\ ~Made(a) /\ ~Fine(a)
    BY <1>1, <2>1, <2>2, StrandedStep
  <2> QED BY <2>3, StrandedIs
<1>2. IInv /\ [Next]_vars =>
        [ \/ Stranded' \subseteq Stranded
          \/ \E r \in Slots :
               pc[r] # "idle" /\ pc'[r] = "idle" /\ (Fail(r) \/ r \in crossed) ]_vars
  BY <1>1
<1> QED BY <1>2, Invariant, PTL DEF Spec, StrandedNeedsFailure
=============================================================================
