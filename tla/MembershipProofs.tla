-------------------------- MODULE MembershipProofs --------------------------
(* Theorems about Membership, for any users, rows, requests and operators. *)
EXTENDS Membership, FiniteSetTheorems, TLAPS

-----------------------------------------------------------------------------
(* The inductive invariant.                                                *)

(* A row lock is held by a request that is locking or has locked, on a row *)
(* that is there and that the request has done with.                       *)
LocksHeld ==
  \A i \in Ids : lockedBy[i] # None =>
    pc[lockedBy[i]] = "lock" /\ Exists(i) /\ i \notin todo[lockedBy[i]]

(* The lock on the workspace is held by the deletion under way, if any.    *)
WorkspaceHeld ==
  \A r \in Slots :
    wsLock = r <=> pc[r] = "lock" /\ job[r].op = "delete"

WorkspaceThere ==
  /\ wsLock # None => workspace = "live"
  /\ workspace # "live" => \A i \in Ids : ~Exists(i)

(* What a handler that stands at a stage knows of its job.                 *)
Knows(at, j, seen, left) ==
  /\ at \in {"target", "select", "lock"} /\ j.op # "delete" =>
       /\ j.op \in {"change", "remove"}
       /\ j.self \in Ids /\ j.target \in Ids
       /\ seen[j.self] # None
       /\ j.op = "change" => j.role # None
  /\ at \in {"select", "lock"} /\ j.op # "delete" =>
       /\ seen[j.target] # None
       /\ AuthorizeMemberRoleChange(seen[j.self], {seen[j.target], j.role})
  /\ at \in {"check", "grant", "insert", "update", "invite"} =>
       /\ j.subject # None /\ j.role # None
       /\ j.op \in {"add", "local", "invite"} =>
            /\ j.self \in Ids /\ seen[j.self] # None
            /\ AuthorizeMemberRoleChange(seen[j.self], {j.role})
  /\ at = "check" => j.op \in {"add", "accept"}
  /\ at = "grant" => j.op \in {"local", "grant"}
  /\ at = "insert" => j.op \in {"add", "local", "accept", "grant", "adopt"}
  /\ at = "update" => j.op \in {"local", "grant"} /\ j.target \in Ids
  /\ at = "invite" => j.op = "invite"
  /\ j.op = "delete" =>
       at \in {"select", "lock"} /\ j.self \in Ids /\ seen[j.self] = "OWNER"
  /\ at = "idle" => j.op = "none"
  /\ at # "lock" => left = {}

Stage(r) == Knows(pc[r], job[r], view[r], todo[r])

Stages == \A r \in Slots : Stage(r)

(* A change or removal has loaded nothing but its caller, its target, and  *)
(* the rows it has locked.                                                 *)
LoadedOnce ==
  \A r \in Slots, i \in Ids :
    job[r].op \in {"change", "remove"} /\ view[r][i] # None =>
      i \in {job[r].self, job[r].target} \/ lockedBy[i] = r

(* The cascade of a deletion will reach every row: none can be added while *)
(* it holds the workspace.                                                 *)
CascadeReaches ==
  \A r \in Slots :
    pc[r] = "lock" /\ job[r].op = "delete" =>
      \A i \in Ids : Exists(i) => i \in todo[r] \/ lockedBy[i] = r

IInv ==
  /\ TypeOK
  /\ LocksHeld
  /\ WorkspaceHeld
  /\ WorkspaceThere
  /\ Stages
  /\ LoadedOnce
  /\ CascadeReaches
  /\ OneMembershipEach
  /\ LockedReadsAreCurrent

-----------------------------------------------------------------------------
(* Every variable holds a value of its kind.                               *)

(* The initial state is well typed.                                        *)
LEMMA TypeInit == Init => TypeOK
BY DEF Init, TypeOK, NoJob, NoView, Jobs, Ops

(* The end of a handler (the close of its session) is well typed.          *)
LEMMA TypeFinish ==
  ASSUME TypeOK, NEW r \in Slots, Finish(r)
  PROVE  /\ pc' \in [Slots -> {"idle", "target", "check", "grant", "insert",
                               "update", "invite", "select", "lock"}]
         /\ job' \in [Slots -> Jobs]
         /\ view' \in [Slots -> [Ids -> Roles \cup {None}]]
         /\ todo' \in [Slots -> SUBSET Ids]
         /\ lockedBy' \in [Ids -> Slots \cup {None}]
         /\ wsLock' \in Slots \cup {None}
BY DEF TypeOK, Finish, NoJob, NoView, Jobs, Ops

(* So is its beginning, for a job that is.                                 *)
LEMMA TypeBegin ==
  ASSUME TypeOK, NEW r \in Slots, NEW j \in Jobs,
         NEW at \in {"target", "check", "grant", "insert", "invite", "select"},
         NEW seen \in [Ids -> Roles \cup {None}],
         Begin(r, at, j, seen)
  PROVE  TypeOK'
BY DEF TypeOK, Begin, table, locks

(* Every handler begins well typed.                                        *)
LEMMA TypeArrive ==
  ASSUME TypeOK, NEW r \in Slots, Arrive(r)
  PROVE  TypeOK'
<1>0. /\ \A i \in Ids : Loaded(i) \in [Ids -> Roles \cup {None}]
      /\ NoView \in [Ids -> Roles \cup {None}]
  BY DEF TypeOK, Loaded, NoView
<1>1. CASE UpdateMember(r)
  <2>1. PICK self \in Ids, target \in Ids, asked \in Asked :
          Begin(r, "target",
             [NoJob EXCEPT !.op = "change", !.self = self, !.target = target,
                           !.role = asked],
             Loaded(self))
    BY <1>1 DEF UpdateMember
  <2>2. [NoJob EXCEPT !.op = "change", !.self = self, !.target = target,
                      !.role = asked] \in Jobs
    BY AskedAssumption DEF NoJob, Jobs, Ops
  <2> QED BY <1>0, <2>1, <2>2, TypeBegin
<1>2. CASE RemoveMember(r)
  <2>1. PICK self \in Ids, target \in Ids :
          Begin(r, "target",
             [NoJob EXCEPT !.op = "remove", !.self = self, !.target = target],
             Loaded(self))
    BY <1>2 DEF RemoveMember
  <2>2. [NoJob EXCEPT !.op = "remove", !.self = self, !.target = target]
          \in Jobs
    BY DEF NoJob, Jobs, Ops
  <2> QED BY <1>0, <2>1, <2>2, TypeBegin
<1>3. CASE AddMember(r)
  <2>1. PICK self \in Ids, subject \in Users, asked \in Asked :
          Begin(r, "check",
             [NoJob EXCEPT !.op = "add", !.self = self, !.subject = subject,
                           !.role = asked],
             Loaded(self))
    BY <1>3 DEF AddMember
  <2>2. [NoJob EXCEPT !.op = "add", !.self = self, !.subject = subject,
                      !.role = asked] \in Jobs
    BY AskedAssumption DEF NoJob, Jobs, Ops
  <2> QED BY <1>0, <2>1, <2>2, TypeBegin
<1>4. CASE DeleteWorkspace(r)
  <2>1. PICK self \in Ids :
          Begin(r, "select", [NoJob EXCEPT !.op = "delete", !.self = self],
                Loaded(self))
    BY <1>4 DEF DeleteWorkspace
  <2>2. [NoJob EXCEPT !.op = "delete", !.self = self] \in Jobs
    BY DEF NoJob, Jobs, Ops
  <2> QED BY <1>0, <2>1, <2>2, TypeBegin
<1>5. CASE GrantCommand(r)
  <2>1. PICK subject \in Users, asked \in Asked :
          Begin(r, "grant",
             [NoJob EXCEPT !.op = "grant", !.subject = subject,
                           !.role = asked], NoView)
    BY <1>5 DEF GrantCommand
  <2>2. [NoJob EXCEPT !.op = "grant", !.subject = subject, !.role = asked]
          \in Jobs
    BY AskedAssumption DEF NoJob, Jobs, Ops
  <2> QED BY <1>0, <2>1, <2>2, TypeBegin
<1>6. CASE AdoptOrphans(r)
  <2>1. PICK subject \in Users :
          Begin(r, "insert",
             [NoJob EXCEPT !.op = "adopt", !.subject = subject,
                           !.role = "OWNER"], NoView)
    BY <1>6 DEF AdoptOrphans
  <2>2. [NoJob EXCEPT !.op = "adopt", !.subject = subject, !.role = "OWNER"]
          \in Jobs
    BY DEF NoJob, Jobs, Ops, Roles
  <2> QED BY <1>0, <2>1, <2>2, TypeBegin
<1>7. CASE CreateWorkspace(r)
  BY <1>7 DEF CreateWorkspace, TypeOK, locks, session, Roles
<1>8. CASE CreateLocalUser(r)
  <2>1. PICK self \in Ids, subject \in Users, asked \in Asked :
          Begin(r, "grant",
             [NoJob EXCEPT !.op = "local", !.self = self, !.subject = subject,
                           !.role = asked],
             Loaded(self))
    BY <1>8 DEF CreateLocalUser
  <2>2. [NoJob EXCEPT !.op = "local", !.self = self, !.subject = subject,
                      !.role = asked] \in Jobs
    BY AskedAssumption DEF NoJob, Jobs, Ops
  <2> QED BY <1>0, <2>1, <2>2, TypeBegin
<1>9. CASE CreateInvitation(r)
  <2>1. PICK self \in Ids, subject \in Users, asked \in Asked :
          Begin(r, "invite",
             [NoJob EXCEPT !.op = "invite", !.self = self,
                           !.subject = subject, !.role = asked,
                           !.links = LinksFor(subject)],
             Loaded(self))
    BY <1>9, InviteesAssumption DEF CreateInvitation
  <2>2. LinksFor(subject) \in SUBSET Links
    BY DEF LinksFor, TypeOK
  <2>3. [NoJob EXCEPT !.op = "invite", !.self = self, !.subject = subject,
                      !.role = asked, !.links = LinksFor(subject)] \in Jobs
    BY <2>2, AskedAssumption DEF NoJob, Jobs, Ops
  <2> QED BY <1>0, <2>1, <2>3, TypeBegin
<1>10. CASE AcceptInvitation(r)
  <2>1. PICK link \in invited :
          Begin(r, "check",
             [NoJob EXCEPT !.op = "accept", !.subject = link[1],
                           !.role = link[2]],
             NoView)
    BY <1>10 DEF AcceptInvitation
  <2>2. link[1] \in Users /\ link[2] \in Roles
    BY DEF TypeOK, Links
  <2>3. [NoJob EXCEPT !.op = "accept", !.subject = link[1], !.role = link[2]]
          \in Jobs
    BY <2>2 DEF NoJob, Jobs, Ops
  <2> QED BY <1>0, <2>1, <2>3, TypeBegin
<1> QED
  BY <1>1, <1>2, <1>3, <1>4, <1>5, <1>6, <1>7, <1>8, <1>9, <1>10 DEF Arrive

(* Every statement of a handler keeps the types.                           *)
LEMMA TypeProceed ==
  ASSUME TypeOK, Stages, NEW r \in Slots, Proceed(r)
  PROVE  TypeOK'
<1>1. CASE ReadTarget(r)
  <2>1. CASE Finish(r)
    BY <1>1, <2>1, TypeFinish DEF ReadTarget, TypeOK, table
  <2>2. CASE ~Finish(r)
    <3> DEFINE t == job[r].target
               seen == IF view[r][t] = None THEN role[t] ELSE view[r][t]
    <3>1. /\ pc' = [pc EXCEPT ![r] = "select"]
          /\ view' = [view EXCEPT ![r][t] = seen]
          /\ UNCHANGED table
          /\ UNCHANGED <<locks, job, todo>>
      BY <1>1, <2>2 DEF ReadTarget
    <3>2. t \in Ids => seen \in Roles \cup {None}
      BY DEF TypeOK
    <3>3. view[r] \in [Ids -> Roles \cup {None}]
      BY DEF TypeOK
    <3>4. [view[r] EXCEPT ![t] = seen] \in [Ids -> Roles \cup {None}]
      BY <3>2, <3>3
    <3>5. view' = [view EXCEPT ![r] = [view[r] EXCEPT ![t] = seen]]
      BY <3>1
    <3>6. view' \in [Slots -> [Ids -> Roles \cup {None}]]
      <4> HIDE DEF t, seen
      <4> QED BY <3>4, <3>5 DEF TypeOK
    <3> QED BY <3>1, <3>6 DEF TypeOK, table, locks
  <2> QED BY <2>1, <2>2
<1>2. CASE CheckExisting(r)
  <2>1. CASE Finish(r)
    BY <1>2, <2>1, TypeFinish DEF CheckExisting, TypeOK
  <2>2. CASE ~Finish(r)
    BY <1>2, <2>2 DEF CheckExisting, TypeOK, locks
  <2> QED BY <2>1, <2>2
<1>3. CASE InsertMembership(r)
  <2>1. Finish(r) /\ UNCHANGED workspace
    BY <1>3 DEF InsertMembership
  <2>2. /\ user' \in [Ids -> Users \cup {None}]
        /\ role' \in [Ids -> Roles \cup {None}]
        /\ invited' \in SUBSET Links
    BY <1>3 DEF InsertMembership, TypeOK, Jobs
  <2> QED BY <2>1, <2>2, TypeFinish DEF TypeOK
<1>4. CASE UpdateGranted(r)
  BY <1>4, TypeFinish DEF UpdateGranted, TypeOK, Jobs
<1>5. CASE LockMemberships(r)
  BY <1>5 DEF LockMemberships, TypeOK, table, locks
<1>6. CASE LockWorkspace(r)
  <2>1. CASE Finish(r)
    BY <1>6, <2>1, TypeFinish DEF LockWorkspace, TypeOK, table
  <2>2. CASE ~Finish(r)
    <3>1. UNCHANGED table /\ UNCHANGED <<lockedBy, job, view>>
      BY <1>6, <2>2 DEF LockWorkspace
    <3>2. /\ pc' = [pc EXCEPT ![r] = "lock"]
          /\ wsLock' \in Slots \cup {None}
          /\ todo' \in [Slots -> SUBSET Ids]
      BY <1>6, <2>2 DEF LockWorkspace, TypeOK
    <3> QED BY <3>1, <3>2 DEF TypeOK, table
  <2> QED BY <2>1, <2>2
<1>7. CASE LockRow(r)
  BY <1>7 DEF LockRow, TypeOK, table
<1>8. CASE ChangeRole(r)
  BY <1>8, TypeFinish DEF ChangeRole, TypeOK, Jobs
<1>9. CASE DeleteMember(r)
  BY <1>9, TypeFinish DEF DeleteMember, TypeOK
<1>10. CASE DropWorkspace(r)
  BY <1>10, TypeFinish DEF DropWorkspace, TypeOK
<1>11. CASE GrantMembership(r)
  <2>1. UNCHANGED <<workspace, user, role, invited, wsLock, lockedBy, todo>>
    BY <1>11 DEF GrantMembership, table, locks
  <2>2. CASE UNCHANGED <<job, view>>
    BY <1>11, <2>1, <2>2 DEF GrantMembership, TypeOK
  <2>3. CASE ~UNCHANGED <<job, view>>
    <3>1. PICK i \in Ids :
            /\ pc' = [pc EXCEPT ![r] = "update"]
            /\ job' = [job EXCEPT ![r].target = i]
            /\ view' = [view EXCEPT ![r][i] = IF @ = None THEN role[i] ELSE @]
      BY <1>11, <2>3 DEF GrantMembership
    <3>2. job' \in [Slots -> Jobs]
      BY <3>1 DEF TypeOK, Jobs
    <3>3. view' \in [Slots -> [Ids -> Roles \cup {None}]]
      BY <3>1 DEF TypeOK
    <3> QED BY <2>1, <3>1, <3>2, <3>3 DEF TypeOK
  <2> QED BY <2>2, <2>3
<1>12. CASE Invite(r)
  <2>1. pc[r] = "invite" /\ Finish(r) /\ UNCHANGED <<workspace, user, role>>
    BY <1>12 DEF Invite
  <2>2. Knows("invite", job[r], view[r], todo[r])
    BY <2>1 DEF Stages, Stage
  <2>3. job[r].subject \in Users /\ job[r].role \in Roles
    BY <2>2 DEF Knows, TypeOK, Jobs
  <2>4. invited' \in SUBSET Links
    BY <1>12, <2>3 DEF Invite, TypeOK, Links
  <2> QED BY <2>1, <2>4, TypeFinish DEF TypeOK
<1> QED
  BY <1>1, <1>2, <1>3, <1>4, <1>5, <1>6, <1>7, <1>8, <1>9, <1>10, <1>11, <1>12
     DEF Proceed

-----------------------------------------------------------------------------
(* The invariant is inductive.                                             *)

(* The inductive invariant holds initially.                                *)
LEMMA InvInit == Init => IInv
<1> SUFFICES ASSUME Init PROVE IInv
  OBVIOUS
<1>1. TypeOK
  BY TypeInit
<1>2. None \notin Slots
  BY NoneAssumption
<1>3. /\ LocksHeld /\ WorkspaceHeld /\ WorkspaceThere
      /\ CascadeReaches /\ OneMembershipEach
  BY <1>2 DEF Init, LocksHeld, WorkspaceHeld, WorkspaceThere, CascadeReaches,
              OneMembershipEach, Exists
<1>4. Stages /\ LoadedOnce /\ LockedReadsAreCurrent
  BY <1>2 DEF Init, Stages, Stage, Knows, LoadedOnce, LockedReadsAreCurrent, NoJob,
              NoView
<1> QED BY <1>1, <1>3, <1>4 DEF IInv

(* A handler that ends keeps the invariant if what it writes is none of    *)
(* the rows others hold, and adds no row while a deletion is under way.    *)
LEMMA InvFinish ==
  ASSUME IInv, TypeOK', NEW r \in Slots, Finish(r),
         \A i \in Ids : lockedBy[i] \notin {None, r} => role'[i] = role[i],
         \A i \in Ids : role'[i] # None /\ role[i] = None => wsLock = None,
         WorkspaceThere', OneMembershipEach'
  PROVE  IInv'
<1>0. None \notin Slots
  BY NoneAssumption
<1>1. /\ \A q \in Slots \ {r} : /\ pc'[q] = pc[q] /\ job'[q] = job[q]
                               /\ view'[q] = view[q] /\ todo'[q] = todo[q]
      /\ pc'[r] = "idle" /\ job'[r] = NoJob /\ view'[r] = NoView
      /\ todo'[r] = {}
  BY DEF Finish, IInv, TypeOK
<1>2. \A i \in Ids : /\ lockedBy[i] = r => lockedBy'[i] = None
                     /\ lockedBy[i] # r => lockedBy'[i] = lockedBy[i]
  BY DEF Finish
<1>3. LocksHeld'
  BY <1>0, <1>1, <1>2 DEF IInv, TypeOK, LocksHeld, Exists
<1>4. WorkspaceHeld'
  BY <1>0, <1>1 DEF IInv, WorkspaceHeld, Finish, NoJob
<1>5. Stages'
  <2>1. ASSUME NEW q \in Slots \ {r} PROVE Stage(q)'
    <3>1. Stage(q)
      BY DEF IInv, Stages
    <3> QED BY <1>1, <3>1 DEF Stage
  <2>2. Stage(r)'
    BY <1>1 DEF Stage, Knows, NoJob
  <2> QED BY <2>1, <2>2 DEF Stages
<1>6. LoadedOnce'
  BY <1>0, <1>1, <1>2 DEF IInv, LoadedOnce, NoJob
<1>7. CascadeReaches'
  <2> SUFFICES ASSUME NEW q \in Slots, pc'[q] = "lock", job'[q].op = "delete",
                      NEW i \in Ids, Exists(i)'
               PROVE  i \in todo'[q] \/ lockedBy'[i] = q
    BY DEF CascadeReaches
  <2>1. q # r /\ pc[q] = "lock" /\ job[q].op = "delete" /\ wsLock = q
    BY <1>1 DEF IInv, WorkspaceHeld
  <2>2. Exists(i)
    BY <2>1, <1>0 DEF Exists
  <2> QED BY <2>1, <2>2, <1>1, <1>2 DEF IInv, CascadeReaches
<1>8. LockedReadsAreCurrent'
  <2> SUFFICES ASSUME NEW q \in Slots, NEW i \in Ids, lockedBy'[i] = q,
                      job'[q].op \in {"change", "remove"},
                      i \notin {job'[q].self, job'[q].target}
               PROVE  view'[q][i] = role'[i] /\ Exists(i)'
    BY DEF LockedReadsAreCurrent
  <2>1. q # r /\ lockedBy[i] = q
    BY <1>0, <1>1, <1>2 DEF NoJob
  <2>2. role'[i] = role[i]
    BY <2>1, <1>0
  <2> QED BY <2>1, <2>2, <1>1 DEF IInv, LockedReadsAreCurrent, Exists
<1> QED BY <1>3, <1>4, <1>5, <1>6, <1>7, <1>8 DEF IInv

(* A handler that ends without having written a membership.                *)
LEMMA InvGiveUp ==
  ASSUME IInv, NEW r \in Slots, Finish(r), UNCHANGED <<workspace, user, role>>,
         invited' \in SUBSET Links
  PROVE  IInv'
<1>0. None \notin Slots
  BY NoneAssumption
<1>1. TypeOK'
  BY TypeFinish DEF TypeOK, IInv
<1>2. WorkspaceThere'
  BY <1>0 DEF IInv, WorkspaceThere, Finish, Exists
<1>3. OneMembershipEach'
  BY DEF IInv, OneMembershipEach, Exists
<1> QED BY <1>1, <1>2, <1>3, InvFinish

(* A handler that begins, knowing what it has to know.                     *)
LEMMA InvBegin ==
  ASSUME IInv, TypeOK', NEW r \in Slots, pc[r] = "idle",
         NEW at \in {"target", "check", "grant", "insert", "invite", "select"},
         NEW j \in Jobs, NEW seen \in [Ids -> Roles \cup {None}],
         Begin(r, at, j, seen), Stage(r)',
         \A i \in Ids : j.op \in {"change", "remove"} /\ seen[i] # None
                          => i = j.self
  PROVE  IInv'
<1>0. None \notin Slots
  BY NoneAssumption
<1>1. /\ \A q \in Slots \ {r} : /\ pc'[q] = pc[q] /\ job'[q] = job[q]
                               /\ view'[q] = view[q] /\ todo'[q] = todo[q]
      /\ pc'[r] = at /\ job'[r] = j /\ view'[r] = seen
      /\ UNCHANGED <<workspace, user, role, wsLock, lockedBy, todo>>
  BY DEF Begin, IInv, TypeOK, table, locks
<1>2. wsLock # r /\ \A i \in Ids : lockedBy[i] # r
  BY <1>0 DEF IInv, LocksHeld, WorkspaceHeld
<1>3. LocksHeld'
  BY <1>0, <1>1, <1>2 DEF IInv, TypeOK, LocksHeld, Exists
<1>4. WorkspaceHeld'
  BY <1>0, <1>1, <1>2 DEF IInv, WorkspaceHeld
<1>5. WorkspaceThere' /\ OneMembershipEach'
  BY <1>1 DEF IInv, WorkspaceThere, OneMembershipEach, Exists
<1>6. Stages'
  <2>1. ASSUME NEW q \in Slots \ {r} PROVE Stage(q)'
    <3>1. Stage(q)
      BY DEF IInv, Stages
    <3> QED BY <1>1, <3>1 DEF Stage
  <2> QED BY <2>1 DEF Stages
<1>7. LoadedOnce'
  BY <1>1 DEF IInv, LoadedOnce
<1>8. CascadeReaches'
  BY <1>1 DEF IInv, CascadeReaches, Exists
<1>9. LockedReadsAreCurrent'
  BY <1>1, <1>2 DEF IInv, LockedReadsAreCurrent, Exists
<1> QED BY <1>3, <1>4, <1>5, <1>6, <1>7, <1>8, <1>9 DEF IInv

(* It holds when any handler begins, CreateWorkspace included.             *)
LEMMA InvArrive ==
  ASSUME IInv, NEW r \in Slots, Arrive(r)
  PROVE  IInv'
<1>0. TypeOK /\ TypeOK' /\ None \notin Slots
  BY TypeArrive, NoneAssumption DEF IInv
<1>1. \A i \in Ids : /\ Loaded(i) \in [Ids -> Roles \cup {None}]
                     /\ Loaded(i)[i] = role[i]
                     /\ \A k \in Ids : Loaded(i)[k] # None => k = i
  BY <1>0 DEF TypeOK, Loaded, NoView
<1>2. /\ NoView \in [Ids -> Roles \cup {None}]
      /\ \A k \in Ids : NoView[k] = None
  BY DEF NoView
<1>3. pc[r] = "idle" /\ todo[r] = {}
  BY DEF Arrive, UpdateMember, RemoveMember, AddMember, DeleteWorkspace,
         CreateLocalUser, CreateInvitation, AcceptInvitation, GrantCommand,
         AdoptOrphans, CreateWorkspace, Authorized, IInv, Stages, Stage, Knows
<1>4. ASSUME NEW at, NEW j, NEW seen, Begin(r, at, j, seen)
      PROVE  pc'[r] = at /\ job'[r] = j /\ view'[r] = seen /\ todo'[r] = {}
  BY <1>0, <1>3, <1>4 DEF Begin, TypeOK
<1>5. CASE UpdateMember(r) \/ RemoveMember(r)
  <2>1. PICK self \in Ids, target \in Ids, j \in Jobs :
          /\ Authorized(r, self, "manage_members")
          /\ j.op \in {"change", "remove"} /\ j.self = self /\ j.target = target
          /\ j.op = "change" => j.role # None
          /\ Begin(r, "target", j, Loaded(self))
    <3>1. CASE UpdateMember(r)
      <4>1. PICK self \in Ids, target \in Ids, asked \in Asked :
              /\ Authorized(r, self, "manage_members")
              /\ Begin(r, "target",
                   [NoJob EXCEPT !.op = "change", !.self = self,
                                 !.target = target, !.role = asked],
                   Loaded(self))
        BY <3>1 DEF UpdateMember
      <4> DEFINE j == [NoJob EXCEPT !.op = "change", !.self = self,
                                    !.target = target, !.role = asked]
      <4>2. /\ j \in Jobs /\ j.op = "change" /\ j.self = self
            /\ j.target = target /\ j.role # None
        BY AskedAssumption, NoneAssumption DEF NoJob, Jobs, Ops
      <4> QED BY <4>1, <4>2
    <3>2. CASE RemoveMember(r)
      <4>1. PICK self \in Ids, target \in Ids :
              /\ Authorized(r, self, "manage_members")
              /\ Begin(r, "target",
                   [NoJob EXCEPT !.op = "remove", !.self = self,
                                 !.target = target],
                   Loaded(self))
        BY <3>2 DEF RemoveMember
      <4> DEFINE j == [NoJob EXCEPT !.op = "remove", !.self = self,
                                    !.target = target]
      <4>2. /\ j \in Jobs /\ j.op = "remove" /\ j.self = self
            /\ j.target = target
        BY DEF NoJob, Jobs, Ops
      <4> QED BY <4>1, <4>2
    <3> QED BY <1>5, <3>1, <3>2
  <2>2. Knows("target", j, Loaded(self), {})
    BY <1>1, <2>1 DEF Knows, Authorized, Exists
  <2>3. Stage(r)'
    BY <1>4, <2>1, <2>2 DEF Stage
  <2> QED BY <1>0, <1>1, <1>3, <2>1, <2>3, InvBegin
<1>6. CASE AddMember(r)
  <2>1. PICK self \in Ids, subject \in Users, asked \in Asked :
          /\ Authorized(r, self, "manage_members")
          /\ AuthorizeMemberRoleChange(role[self], {asked})
          /\ Begin(r, "check",
             [NoJob EXCEPT !.op = "add", !.self = self, !.subject = subject,
                           !.role = asked],
             Loaded(self))
    BY <1>6 DEF AddMember
  <2> DEFINE j == [NoJob EXCEPT !.op = "add", !.self = self,
                                !.subject = subject, !.role = asked]
  <2>2. /\ j \in Jobs /\ j.op = "add" /\ j.self = self /\ j.subject = subject
        /\ j.role = asked /\ j.role # None /\ j.subject # None
    BY AskedAssumption, NoneAssumption DEF NoJob, Jobs, Ops
  <2> HIDE DEF j
  <2>3. Knows("check", j, Loaded(self), {})
    BY <1>1, <2>1, <2>2 DEF Knows, Authorized, Exists
  <2>4. Stage(r)' /\ Begin(r, "check", j, Loaded(self))
    BY <1>4, <2>1, <2>3 DEF Stage, j
  <2> QED BY <1>0, <1>1, <1>3, <2>2, <2>4, InvBegin
<1>7. CASE DeleteWorkspace(r)
  <2>1. PICK self \in Ids :
          /\ Authorized(r, self, "manage_workspace")
          /\ Begin(r, "select", [NoJob EXCEPT !.op = "delete", !.self = self],
                Loaded(self))
    BY <1>7 DEF DeleteWorkspace
  <2> DEFINE j == [NoJob EXCEPT !.op = "delete", !.self = self]
  <2>2. j \in Jobs /\ j.op = "delete" /\ j.self = self
    BY DEF NoJob, Jobs, Ops
  <2> HIDE DEF j
  <2>3. role[self] = "OWNER"
    BY <1>0, <2>1 DEF Authorized, HasCapability, CapabilitiesOf, Exists, TypeOK,
                      Roles, Capabilities
  <2>4. Knows("select", j, Loaded(self), {})
    BY <1>1, <2>2, <2>3 DEF Knows
  <2>5. Stage(r)' /\ Begin(r, "select", j, Loaded(self))
    BY <1>4, <2>1, <2>4 DEF Stage, j
  <2> QED BY <1>0, <1>1, <1>3, <2>2, <2>5, InvBegin
<1>8. CASE GrantCommand(r)
  <2>1. PICK subject \in Users, asked \in Asked :
          Begin(r, "grant",
             [NoJob EXCEPT !.op = "grant", !.subject = subject,
                           !.role = asked], NoView)
    BY <1>8 DEF GrantCommand
  <2> DEFINE j == [NoJob EXCEPT !.op = "grant", !.subject = subject,
                                !.role = asked]
  <2>2. /\ j \in Jobs /\ j.op = "grant" /\ j.subject # None /\ j.role # None
    BY AskedAssumption, NoneAssumption DEF NoJob, Jobs, Ops
  <2> HIDE DEF j
  <2>3. Knows("grant", j, NoView, {})
    BY <2>2 DEF Knows
  <2>4. Stage(r)' /\ Begin(r, "grant", j, NoView)
    BY <1>4, <2>1, <2>3 DEF Stage, j
  <2> QED BY <1>0, <1>2, <1>3, <2>2, <2>4, InvBegin
<1>9. CASE AdoptOrphans(r)
  <2>1. PICK subject \in Users :
          Begin(r, "insert",
             [NoJob EXCEPT !.op = "adopt", !.subject = subject,
                           !.role = "OWNER"], NoView)
    BY <1>9 DEF AdoptOrphans
  <2> DEFINE j == [NoJob EXCEPT !.op = "adopt", !.subject = subject,
                                !.role = "OWNER"]
  <2>2. /\ j \in Jobs /\ j.op = "adopt" /\ j.subject # None /\ j.role # None
    BY NoneAssumption DEF NoJob, Jobs, Ops, Roles
  <2> HIDE DEF j
  <2>3. Knows("insert", j, NoView, {})
    BY <2>2 DEF Knows
  <2>4. Stage(r)' /\ Begin(r, "insert", j, NoView)
    BY <1>4, <2>1, <2>3 DEF Stage, j
  <2> QED BY <1>0, <1>2, <1>3, <2>2, <2>4, InvBegin
<1>10. CASE CreateWorkspace(r)
  <2>1. PICK u \in Users, i \in Ids :
          /\ workspace = "absent" /\ workspace' = "live" /\ ~Exists(i)
          /\ user' = [user EXCEPT ![i] = u]
          /\ role' = [role EXCEPT ![i] = "OWNER"]
          /\ UNCHANGED <<locks, session>>
    BY <1>10 DEF CreateWorkspace, Fresh
  <2>2. /\ wsLock = None
        /\ \A k \in Ids : role[k] = None /\ user[k] = None /\ lockedBy[k] = None
    BY <2>1 DEF IInv, WorkspaceThere, Exists, LocksHeld, OneMembershipEach
  <2>3. UNCHANGED <<wsLock, lockedBy, pc, job, view, todo>>
    BY <2>1 DEF locks, session
  <2>4. OneMembershipEach'
    BY <1>0, <2>1, <2>2, NoneAssumption
       DEF OneMembershipEach, Exists, TypeOK, Roles
  <2>5. LocksHeld' /\ LockedReadsAreCurrent'
    BY <1>0, <2>2, <2>3 DEF LocksHeld, LockedReadsAreCurrent
  <2>6. WorkspaceHeld' /\ WorkspaceThere' /\ LoadedOnce'
    BY <2>1, <2>3 DEF IInv, WorkspaceHeld, WorkspaceThere, LoadedOnce
  <2>7. Stages'
    BY <2>3 DEF IInv, Stages, Stage
  <2>8. CascadeReaches'
    BY <1>0, <2>2, <2>3 DEF IInv, WorkspaceHeld, CascadeReaches
  <2> QED BY <1>0, <2>4, <2>5, <2>6, <2>7, <2>8 DEF IInv
<1>11. CASE CreateLocalUser(r)
  <2>1. PICK self \in Ids, subject \in Users, asked \in Asked :
          /\ Authorized(r, self, "manage_members")
          /\ AuthorizeMemberRoleChange(role[self], {asked})
          /\ Begin(r, "grant",
             [NoJob EXCEPT !.op = "local", !.self = self, !.subject = subject,
                           !.role = asked],
             Loaded(self))
    BY <1>11 DEF CreateLocalUser
  <2> DEFINE j == [NoJob EXCEPT !.op = "local", !.self = self,
                                !.subject = subject, !.role = asked]
  <2>2. /\ j \in Jobs /\ j.op = "local" /\ j.self = self
        /\ j.role = asked /\ j.role # None /\ j.subject # None
    BY AskedAssumption, NoneAssumption DEF NoJob, Jobs, Ops
  <2> HIDE DEF j
  <2>3. Knows("grant", j, Loaded(self), {})
    BY <1>1, <2>1, <2>2 DEF Knows, Authorized, Exists
  <2>4. Stage(r)' /\ Begin(r, "grant", j, Loaded(self))
    BY <1>4, <2>1, <2>3 DEF Stage, j
  <2> QED BY <1>0, <1>1, <1>3, <2>2, <2>4, InvBegin
<1>12. CASE CreateInvitation(r)
  <2>1. PICK self \in Ids, subject \in Users, asked \in Asked :
          /\ Authorized(r, self, "manage_members")
          /\ AuthorizeMemberRoleChange(role[self], {asked})
          /\ Begin(r, "invite",
             [NoJob EXCEPT !.op = "invite", !.self = self,
                           !.subject = subject, !.role = asked,
                           !.links = LinksFor(subject)],
             Loaded(self))
    BY <1>12, InviteesAssumption DEF CreateInvitation
  <2> DEFINE j == [NoJob EXCEPT !.op = "invite", !.self = self,
                                !.subject = subject, !.role = asked,
                                !.links = LinksFor(subject)]
  <2>2. LinksFor(subject) \in SUBSET Links
    BY <1>0 DEF LinksFor, TypeOK
  <2>3. /\ j \in Jobs /\ j.op = "invite" /\ j.self = self
        /\ j.role = asked /\ j.role # None /\ j.subject # None
    BY <2>2, AskedAssumption, NoneAssumption DEF NoJob, Jobs, Ops
  <2> HIDE DEF j
  <2>4. Knows("invite", j, Loaded(self), {})
    BY <1>1, <2>1, <2>3 DEF Knows, Authorized, Exists
  <2>5. Stage(r)' /\ Begin(r, "invite", j, Loaded(self))
    BY <1>4, <2>1, <2>4 DEF Stage, j
  <2> QED BY <1>0, <1>1, <1>3, <2>3, <2>5, InvBegin
<1>13. CASE AcceptInvitation(r)
  <2>1. PICK link \in invited :
          Begin(r, "check",
             [NoJob EXCEPT !.op = "accept", !.subject = link[1],
                           !.role = link[2]],
             NoView)
    BY <1>13 DEF AcceptInvitation
  <2> DEFINE j == [NoJob EXCEPT !.op = "accept", !.subject = link[1],
                                !.role = link[2]]
  <2>2. link[1] \in Users /\ link[2] \in Roles
    BY <1>0 DEF TypeOK, Links
  <2>3. /\ j \in Jobs /\ j.op = "accept" /\ j.subject # None
        /\ j.role # None
    BY <2>2, NoneAssumption DEF NoJob, Jobs, Ops
  <2> HIDE DEF j
  <2>4. Knows("check", j, NoView, {})
    BY <2>3 DEF Knows
  <2>5. Stage(r)' /\ Begin(r, "check", j, NoView)
    BY <1>4, <2>1, <2>4 DEF Stage, j
  <2> QED BY <1>0, <1>2, <1>3, <2>3, <2>5, InvBegin
<1> QED
  BY <1>5, <1>6, <1>7, <1>8, <1>9, <1>10, <1>11, <1>12, <1>13 DEF Arrive

(* A target that passes the boundary check is a row the session knows.     *)
LEMMA InvReadTarget ==
  ASSUME IInv, NEW r \in Slots, ReadTarget(r)
  PROVE  IInv'
<1>0. TypeOK /\ TypeOK' /\ None \notin Slots
  BY TypeProceed, NoneAssumption DEF IInv, Proceed
<1>1. CASE Finish(r)
  BY <1>0, <1>1, InvGiveUp DEF ReadTarget, TypeOK, table
<1>2. CASE ~Finish(r)
  <2> DEFINE self == job[r].self
             t    == job[r].target
             seen == IF view[r][t] = None THEN role[t] ELSE view[r][t]
  <2>1. /\ pc[r] = "target" /\ Exists(t)
        /\ AuthorizeMemberRoleChange(view[r][self], {seen, job[r].role})
        /\ pc' = [pc EXCEPT ![r] = "select"]
        /\ view' = [view EXCEPT ![r][t] = seen]
        /\ UNCHANGED table /\ UNCHANGED <<locks, job, todo>>
    BY <1>2 DEF ReadTarget
  <2>2. UNCHANGED <<workspace, user, role, wsLock, lockedBy, job, todo>>
    BY <2>1 DEF table, locks
  <2>3. Knows("target", job[r], view[r], todo[r])
    BY <2>1 DEF IInv, Stages, Stage
  <2>4. /\ job[r].op \in {"change", "remove"} \/ job[r].op = "delete"
        /\ job[r].op # "delete"
        /\ self \in Ids /\ t \in Ids /\ view[r][self] # None /\ todo[r] = {}
        /\ job[r].op = "change" => job[r].role # None
    BY <2>3 DEF Knows
  <2>5. seen # None /\ (view[r][t] # None => seen = view[r][t])
    BY <2>1 DEF Exists
  <2> HIDE DEF seen
  <2>6. /\ \A q \in Slots \ {r} : pc'[q] = pc[q] /\ view'[q] = view[q]
        /\ pc'[r] = "select" /\ view'[r][t] = seen
        /\ \A i \in Ids \ {t} : view'[r][i] = view[r][i]
    BY <1>0, <2>1, <2>4 DEF TypeOK
  <2>7. view'[r][self] = view[r][self]
    BY <2>4, <2>5, <2>6
  <2>8. Stage(r)'
    <3>1. Knows("select", job[r], view'[r], todo[r])
      BY <2>1, <2>4, <2>5, <2>6, <2>7 DEF Knows
    <3> QED BY <2>2, <2>6, <3>1 DEF Stage
  <2>9. Stages'
    <3>1. ASSUME NEW q \in Slots \ {r} PROVE Stage(q)'
      <4>1. Stage(q)
        BY DEF IInv, Stages
      <4> QED BY <2>2, <2>6, <4>1 DEF Stage
    <3> QED BY <2>8, <3>1 DEF Stages
  <2>10. wsLock # r /\ \A i \in Ids : lockedBy[i] # r
    BY <1>0, <2>1 DEF IInv, LocksHeld, WorkspaceHeld
  <2>11. LocksHeld'
    BY <1>0, <2>2, <2>6, <2>10 DEF IInv, TypeOK, LocksHeld, Exists
  <2>12. WorkspaceHeld' /\ WorkspaceThere' /\ OneMembershipEach'
    BY <2>2, <2>4, <2>6, <2>10
       DEF IInv, WorkspaceHeld, WorkspaceThere, OneMembershipEach, Exists
  <2>13. LoadedOnce'
    BY <2>2, <2>6 DEF IInv, LoadedOnce
  <2>14. CascadeReaches'
    BY <2>2, <2>4, <2>6 DEF IInv, CascadeReaches, Exists
  <2>15. LockedReadsAreCurrent'
    BY <2>2, <2>6, <2>10 DEF IInv, LockedReadsAreCurrent, Exists
  <2> QED
    BY <1>0, <2>9, <2>11, <2>12, <2>13, <2>14, <2>15 DEF IInv
<1> QED BY <1>1, <1>2

(* A look at the table before an insert changes no membership.             *)
LEMMA InvCheckExisting ==
  ASSUME IInv, NEW r \in Slots, CheckExisting(r)
  PROVE  IInv'
<1>0. TypeOK /\ TypeOK' /\ None \notin Slots
  BY TypeProceed, NoneAssumption DEF IInv, Proceed
<1>1. CASE Finish(r)
  BY <1>0, <1>1, InvGiveUp DEF CheckExisting, TypeOK
<1>2. CASE ~Finish(r)
  <2>1. /\ pc[r] = "check" /\ pc' = [pc EXCEPT ![r] = "insert"]
        /\ UNCHANGED <<workspace, user, role, locks, job, view, todo>>
    BY <1>2 DEF CheckExisting
  <2>2. /\ \A q \in Slots \ {r} : pc'[q] = pc[q]
        /\ pc'[r] = "insert"
        /\ UNCHANGED <<workspace, user, role, wsLock, lockedBy, job, view, todo>>
    BY <1>0, <2>1 DEF TypeOK, locks
  <2>3. wsLock # r /\ \A i \in Ids : lockedBy[i] # r
    BY <1>0, <2>1 DEF IInv, LocksHeld, WorkspaceHeld
  <2>4. Stages'
    <3>1. Knows("check", job[r], view[r], todo[r])
      BY <2>1 DEF IInv, Stages, Stage
    <3>2. Knows("insert", job[r], view[r], todo[r])
      BY <3>1 DEF Knows
    <3>3. ASSUME NEW q \in Slots \ {r} PROVE Stage(q)'
      <4>1. Stage(q)
        BY DEF IInv, Stages
      <4> QED BY <2>2, <4>1 DEF Stage
    <3> QED BY <2>2, <3>2, <3>3 DEF Stages, Stage
  <2>5. LocksHeld'
    BY <1>0, <2>2, <2>3 DEF IInv, TypeOK, LocksHeld, Exists
  <2>6. WorkspaceHeld' /\ WorkspaceThere' /\ OneMembershipEach'
    BY <2>2, <2>3
       DEF IInv, WorkspaceHeld, WorkspaceThere, OneMembershipEach, Exists
  <2>7. LoadedOnce' /\ CascadeReaches' /\ LockedReadsAreCurrent'
    BY <2>2 DEF IInv, LoadedOnce, CascadeReaches, LockedReadsAreCurrent, Exists
  <2> QED BY <1>0, <2>4, <2>5, <2>6, <2>7 DEF IInv
<1> QED BY <1>1, <1>2

(* grant_membership's look at the table keeps what the session had loaded  *)
(* of its caller.                                                          *)
LEMMA InvGrantMembership ==
  ASSUME IInv, NEW r \in Slots, GrantMembership(r)
  PROVE  IInv'
<1>0. TypeOK /\ TypeOK' /\ None \notin Slots
  BY TypeProceed, NoneAssumption DEF IInv, Proceed
<1>1. /\ pc[r] = "grant"
      /\ UNCHANGED <<workspace, user, role, wsLock, lockedBy, todo>>
  BY DEF GrantMembership, table, locks
<1>2. Knows("grant", job[r], view[r], todo[r])
  BY <1>1 DEF IInv, Stages, Stage
<1> DEFINE Goes(at, j, seen) ==
             /\ pc' = [pc EXCEPT ![r] = at]
             /\ job' = [job EXCEPT ![r] = j]
             /\ view' = [view EXCEPT ![r] = seen]
             /\ j.op = job[r].op /\ j.self = job[r].self
             /\ j.subject = job[r].subject /\ j.role = job[r].role
             /\ at = "update" => j.target \in Ids
             /\ \A i \in Ids : view[r][i] # None => seen[i] = view[r][i]
<1>3. PICK at \in {"insert", "update"} : \E j, seen : Goes(at, j, seen)
  <2>1. CASE pc' = [pc EXCEPT ![r] = "insert"] /\ UNCHANGED <<job, view>>
    <3>1. /\ job' = [job EXCEPT ![r] = job[r]]
          /\ view' = [view EXCEPT ![r] = view[r]]
      BY <1>0, <2>1 DEF TypeOK
    <3>2. Goes("insert", job[r], view[r])
      BY <2>1, <3>1
    <3> HIDE DEF Goes
    <3> QED BY <3>2
  <2>2. ASSUME NEW i \in Ids, pc' = [pc EXCEPT ![r] = "update"],
               job' = [job EXCEPT ![r].target = i],
               view' = [view EXCEPT ![r][i] = IF @ = None THEN role[i] ELSE @]
        PROVE  \E j, seen : Goes("update", j, seen)
    <3> DEFINE j    == [job[r] EXCEPT !.target = i]
               seen == [view[r] EXCEPT ![i] = IF @ = None THEN role[i] ELSE @]
    <3>1. job[r] \in Jobs /\ view[r] \in [Ids -> Roles \cup {None}]
      BY <1>0 DEF TypeOK
    <3>2. /\ j.op = job[r].op /\ j.self = job[r].self
          /\ j.subject = job[r].subject /\ j.role = job[r].role
          /\ j.target = i
      BY <3>1 DEF Jobs
    <3>3. \A k \in Ids : view[r][k] # None => seen[k] = view[r][k]
      BY <3>1
    <3>4. job' = [job EXCEPT ![r] = j] /\ view' = [view EXCEPT ![r] = seen]
      BY <2>2
    <3> HIDE DEF j, seen
    <3>5. Goes("update", j, seen)
      BY <2>2, <3>2, <3>3, <3>4
    <3> HIDE DEF Goes
    <3> QED BY <3>5
  <2> HIDE DEF Goes
  <2>3. GrantMembership(r)
    OBVIOUS
  <2>4. CASE ~IsMember(job[r].subject)
    BY <2>1, <2>3, <2>4 DEF GrantMembership, IsMember
  <2>5. CASE IsMember(job[r].subject)
    BY <2>2, <2>3, <2>5 DEF GrantMembership
  <2> QED BY <2>4, <2>5
<1>4. PICK j, seen : Goes(at, j, seen)
  BY <1>3
<1>5. /\ \A q \in Slots \ {r} : /\ pc'[q] = pc[q] /\ job'[q] = job[q]
                               /\ view'[q] = view[q]
      /\ pc'[r] = at /\ job'[r] = j /\ view'[r] = seen
  BY <1>0, <1>4 DEF TypeOK
<1>6. /\ j.op \in {"local", "grant"} /\ j.op = job[r].op
      /\ j.self = job[r].self
      /\ j.subject # None /\ j.role # None
      /\ j.op = "local" =>
           /\ j.self \in Ids /\ seen[j.self] # None
           /\ AuthorizeMemberRoleChange(seen[j.self], {j.role})
      /\ at = "update" => j.target \in Ids
      /\ todo[r] = {}
  BY <1>2, <1>4 DEF Knows
<1> HIDE DEF Goes
<1>7. Stages'
  <2>1. Knows(at, j, seen, {})
    BY <1>6 DEF Knows
  <2>2. Stage(r)'
    BY <1>1, <1>5, <1>6, <2>1 DEF Stage
  <2>3. ASSUME NEW q \in Slots \ {r} PROVE Stage(q)'
    <3>1. Stage(q)
      BY DEF IInv, Stages
    <3> QED BY <1>1, <1>5, <3>1 DEF Stage
  <2> QED BY <2>2, <2>3 DEF Stages
<1>8. wsLock # r /\ \A i \in Ids : lockedBy[i] # r
  BY <1>0, <1>1 DEF IInv, LocksHeld, WorkspaceHeld
<1>9. LocksHeld'
  BY <1>0, <1>1, <1>5, <1>8 DEF IInv, TypeOK, LocksHeld, Exists
<1>10. WorkspaceHeld' /\ WorkspaceThere' /\ OneMembershipEach'
  BY <1>1, <1>5, <1>6, <1>8
     DEF IInv, WorkspaceHeld, WorkspaceThere, OneMembershipEach, Exists
<1>11. LoadedOnce' /\ CascadeReaches' /\ LockedReadsAreCurrent'
  BY <1>1, <1>5, <1>6, <1>8
     DEF IInv, LoadedOnce, CascadeReaches, LockedReadsAreCurrent, Exists
<1> QED BY <1>0, <1>7, <1>9, <1>10, <1>11 DEF IInv

(* The two ways into the locking statement fix the same set of rows.       *)
LEMMA InvSelect ==
  ASSUME IInv, NEW r \in Slots, LockMemberships(r) \/ LockWorkspace(r)
  PROVE  IInv'
<1>0. TypeOK /\ TypeOK' /\ None \notin Slots
  BY TypeProceed, NoneAssumption DEF IInv, Proceed
<1>1. CASE Finish(r)
  <2>1. UNCHANGED table
    BY <1>1 DEF LockMemberships, LockWorkspace
  <2> QED BY <1>0, <1>1, <2>1, InvGiveUp DEF table, TypeOK
<1>2. CASE ~Finish(r)
  <2>1. /\ pc[r] = "select" /\ pc' = [pc EXCEPT ![r] = "lock"]
        /\ todo' = [todo EXCEPT ![r] = {i \in Ids : Exists(i)}]
        /\ UNCHANGED table /\ UNCHANGED <<lockedBy, job, view>>
        /\ \/ job[r].op \in {"change", "remove"} /\ wsLock' = wsLock
           \/ /\ job[r].op = "delete" /\ workspace = "live"
              /\ wsLock = None /\ wsLock' = r
    BY <1>2 DEF LockMemberships, LockWorkspace, locks
  <2>2. /\ \A q \in Slots \ {r} : pc'[q] = pc[q] /\ todo'[q] = todo[q]
        /\ pc'[r] = "lock" /\ todo'[r] = {i \in Ids : Exists(i)}
        /\ UNCHANGED <<workspace, user, role, lockedBy, job, view>>
    BY <1>0, <2>1 DEF TypeOK, table
  <2>3. wsLock # r /\ \A i \in Ids : lockedBy[i] # r
    BY <1>0, <2>1 DEF IInv, LocksHeld, WorkspaceHeld
  <2>4. Stages'
    <3>1. Knows("select", job[r], view[r], todo[r])
      BY <2>1 DEF IInv, Stages, Stage
    <3>2. Knows("lock", job[r], view[r], todo'[r])
      BY <3>1 DEF Knows
    <3>3. ASSUME NEW q \in Slots \ {r} PROVE Stage(q)'
      <4>1. Stage(q)
        BY DEF IInv, Stages
      <4> QED BY <2>2, <4>1 DEF Stage
    <3> QED BY <2>2, <3>2, <3>3 DEF Stages, Stage
  <2>5. LocksHeld'
    BY <1>0, <2>2, <2>3 DEF IInv, TypeOK, LocksHeld, Exists
  <2>6. WorkspaceHeld'
    BY <1>0, <2>1, <2>2, <2>3 DEF IInv, WorkspaceHeld
  <2>7. WorkspaceThere' /\ OneMembershipEach'
    BY <2>1, <2>2 DEF IInv, WorkspaceThere, OneMembershipEach, Exists
  <2>8. LoadedOnce' /\ LockedReadsAreCurrent'
    BY <2>2 DEF IInv, LoadedOnce, LockedReadsAreCurrent, Exists
  <2>9. CascadeReaches'
    BY <2>2 DEF IInv, CascadeReaches, Exists
  <2> QED BY <1>0, <2>4, <2>5, <2>6, <2>7, <2>8, <2>9 DEF IInv
<1> QED BY <1>1, <1>2

(* A row that is locked is read as it is, unless it had been loaded.       *)
LEMMA InvLockRow ==
  ASSUME IInv, NEW r \in Slots, LockRow(r)
  PROVE  IInv'
<1>0. TypeOK /\ TypeOK' /\ None \notin Slots
  BY TypeProceed, NoneAssumption DEF IInv, Proceed
<1>1. PICK i \in todo[r] :
        /\ pc[r] = "lock" /\ lockedBy[i] = None
        /\ todo' = [todo EXCEPT ![r] = @ \ {i}]
        /\ lockedBy' = [lockedBy EXCEPT ![i] = IF Exists(i) THEN r ELSE None]
        /\ view' = IF view[r][i] = None /\ job[r].op # "delete"
                   THEN [view EXCEPT ![r][i] = role[i]] ELSE view
        /\ UNCHANGED table /\ UNCHANGED <<wsLock, pc, job>>
  BY DEF LockRow
<1>2. i \in Ids
  BY <1>0 DEF TypeOK
<1>3. /\ \A q \in Slots \ {r} : todo'[q] = todo[q] /\ view'[q] = view[q]
      /\ todo'[r] = todo[r] \ {i}
      /\ \A k \in Ids \ {i} : lockedBy'[k] = lockedBy[k]
                            /\ view'[r][k] = view[r][k]
      /\ lockedBy'[i] = IF Exists(i) THEN r ELSE None
      /\ view'[r][i] = IF view[r][i] = None /\ job[r].op # "delete"
                       THEN role[i] ELSE view[r][i]
      /\ UNCHANGED <<workspace, user, role, wsLock, pc, job>>
  BY <1>0, <1>1, <1>2 DEF TypeOK, table
<1>4. LocksHeld'
  BY <1>0, <1>1, <1>3 DEF IInv, TypeOK, LocksHeld, Exists
<1>5. WorkspaceHeld' /\ WorkspaceThere' /\ OneMembershipEach'
  BY <1>3 DEF IInv, WorkspaceHeld, WorkspaceThere, OneMembershipEach, Exists
<1>6. Stages'
  <2>1. ASSUME NEW q \in Slots \ {r} PROVE Stage(q)'
    <3>1. Stage(q)
      BY DEF IInv, Stages
    <3> QED BY <1>3, <3>1 DEF Stage
  <2>2. Stage(r)'
    <3>1. Knows("lock", job[r], view[r], todo[r])
      BY <1>1 DEF IInv, Stages, Stage
    <3>2. \A k \in Ids : view[r][k] # None => view'[r][k] = view[r][k]
      BY <1>3
    <3>3. Knows("lock", job[r], view'[r], todo'[r])
      <4>1. CASE job[r].op = "delete"
        BY <3>1, <3>2, <4>1, NoneAssumption DEF Knows, Roles
      <4>2. CASE job[r].op # "delete"
        <5>1. /\ view'[r][job[r].self] = view[r][job[r].self]
              /\ view'[r][job[r].target] = view[r][job[r].target]
          BY <3>1, <3>2, <4>2 DEF Knows
        <5> QED BY <3>1, <4>2, <5>1 DEF Knows
      <4> QED BY <4>1, <4>2
    <3> QED BY <1>1, <1>3, <3>3 DEF Stage
  <2> QED BY <2>1, <2>2 DEF Stages
<1>7. LoadedOnce'
  <2> SUFFICES ASSUME NEW q \in Slots, NEW k \in Ids,
                      job[q].op \in {"change", "remove"}, view'[q][k] # None
               PROVE  k \in {job[q].self, job[q].target} \/ lockedBy'[k] = q
    BY <1>3 DEF LoadedOnce
  <2>1. CASE q = r /\ k = i
    BY <1>1, <1>3, <2>1 DEF IInv, LoadedOnce, Exists
  <2>2. CASE q # r /\ k = i
    BY <1>0, <1>1, <1>3, <2>2 DEF IInv, LoadedOnce
  <2>3. CASE k # i
    BY <1>3, <2>3 DEF IInv, LoadedOnce
  <2> QED BY <2>1, <2>2, <2>3
<1>8. CascadeReaches'
  BY <1>0, <1>1, <1>3 DEF IInv, CascadeReaches, Exists
<1>9. LockedReadsAreCurrent'
  <2> SUFFICES ASSUME NEW q \in Slots, NEW k \in Ids, lockedBy'[k] = q,
                      job[q].op \in {"change", "remove"},
                      k \notin {job[q].self, job[q].target}
               PROVE  view'[q][k] = role[k] /\ Exists(k)
    BY <1>3 DEF LockedReadsAreCurrent, Exists
  <2>1. CASE k = i
    <3>1. q = r /\ Exists(i)
      BY <1>0, <1>3, <2>1
    <3>2. view[r][i] = None
      BY <1>0, <1>1, <2>1, <3>1 DEF IInv, LoadedOnce
    <3> QED BY <1>3, <2>1, <3>1, <3>2
  <2>2. CASE k # i
    BY <1>3, <2>2 DEF IInv, LockedReadsAreCurrent, Exists
  <2> QED BY <2>1, <2>2
<1> QED BY <1>0, <1>4, <1>5, <1>6, <1>7, <1>8, <1>9 DEF IInv

(* The steps that write to the table and commit: what they write is theirs *)
(* to write.                                                               *)
LEMMA InvInsert ==
  ASSUME IInv, NEW r \in Slots, InsertMembership(r)
  PROVE  IInv'
<1>0. TypeOK /\ TypeOK' /\ None \notin Slots
  BY TypeProceed, NoneAssumption DEF IInv, Proceed
<1>1. CASE UNCHANGED <<user, role>>
  BY <1>0, <1>1, InvGiveUp DEF InsertMembership, TypeOK
<1>2. CASE ~UNCHANGED <<user, role>>
  <2>1. PICK i \in Ids :
          /\ Finish(r) /\ UNCHANGED workspace /\ workspace = "live"
          /\ wsLock = None /\ ~IsMember(job[r].subject) /\ ~Exists(i)
          /\ user' = [user EXCEPT ![i] = job[r].subject]
          /\ role' = [role EXCEPT ![i] = job[r].role]
    BY <1>2 DEF InsertMembership, Fresh
  <2>2. Knows("insert", job[r], view[r], todo[r])
    BY DEF IInv, Stages, Stage, InsertMembership
  <2>3. job[r].subject # None /\ job[r].role # None
    BY <2>2 DEF Knows
  <2>4. lockedBy[i] = None
    BY <2>1 DEF IInv, LocksHeld
  <2>5. OneMembershipEach'
    <3>1. \A k \in Ids : user[k] # job[r].subject
      BY <2>1 DEF IsMember
    <3> QED BY <1>0, <2>1, <2>3, <3>1 DEF IInv, OneMembershipEach, Exists, TypeOK
  <2>6. WorkspaceThere'
    BY <2>1 DEF Finish, WorkspaceThere
  <2> QED BY <1>0, <2>1, <2>4, <2>5, <2>6, InvFinish DEF TypeOK
<1> QED BY <1>1, <1>2

(* The UPDATE of a grant waits for row locks: it changes no locked row.    *)
LEMMA InvUpdateGranted ==
  ASSUME IInv, NEW r \in Slots, UpdateGranted(r)
  PROVE  IInv'
<1>0. TypeOK /\ TypeOK' /\ None \notin Slots
  BY TypeProceed, NoneAssumption DEF IInv, Proceed
<1>1. Knows("update", job[r], view[r], todo[r])
  BY DEF IInv, Stages, Stage, UpdateGranted
<1>2. job[r].target \in Ids /\ job[r].role # None
  BY <1>1 DEF Knows
<1>3. /\ Finish(r) /\ UNCHANGED <<workspace, user>>
      /\ \A i \in Ids : role'[i] # role[i] =>
            /\ i = job[r].target /\ lockedBy[i] = None
            /\ role[i] # None /\ role'[i] # None
  BY <1>0, <1>2 DEF UpdateGranted, TypeOK, Exists
<1>4. OneMembershipEach' /\ WorkspaceThere'
  BY <1>0, <1>3
     DEF IInv, OneMembershipEach, WorkspaceThere, Exists, Finish
<1> QED BY <1>0, <1>3, <1>4, InvFinish

(* An invitation changes no membership.                                    *)
LEMMA InvInvite ==
  ASSUME IInv, NEW r \in Slots, Invite(r)
  PROVE  IInv'
<1>1. TypeOK'
  BY TypeProceed DEF IInv, Proceed
<1> QED BY <1>1, InvGiveUp DEF Invite, TypeOK

(* change_role writes a row it has locked itself.                          *)
LEMMA InvChangeRole ==
  ASSUME IInv, NEW r \in Slots, ChangeRole(r)
  PROVE  IInv'
<1>0. TypeOK /\ TypeOK' /\ None \notin Slots
  BY TypeProceed, NoneAssumption DEF IInv, Proceed
<1>1. Knows("lock", job[r], view[r], todo[r]) /\ job[r].op = "change"
  BY DEF IInv, Stages, Stage, ChangeRole, HasLocked
<1>2. job[r].target \in Ids /\ job[r].role # None
  BY <1>1 DEF Knows
<1>3. /\ Finish(r) /\ UNCHANGED <<workspace, user>>
      /\ \A i \in Ids : role'[i] # role[i] =>
            i = job[r].target /\ lockedBy[i] = r /\ role'[i] # None
  BY <1>0, <1>2 DEF ChangeRole, TypeOK
<1>4. \A i \in Ids : lockedBy[i] = r => role[i] # None
  BY <1>0 DEF IInv, LocksHeld, Exists
<1>5. OneMembershipEach' /\ WorkspaceThere'
  BY <1>0, <1>3, <1>4
     DEF IInv, OneMembershipEach, WorkspaceThere, Exists, Finish
<1> QED BY <1>0, <1>3, <1>4, <1>5, InvFinish

(* remove_member deletes a row it has locked itself.                       *)
LEMMA InvDeleteMember ==
  ASSUME IInv, NEW r \in Slots, DeleteMember(r)
  PROVE  IInv'
<1>0. TypeOK /\ TypeOK' /\ None \notin Slots
  BY TypeProceed, NoneAssumption DEF IInv, Proceed
<1>1. Knows("lock", job[r], view[r], todo[r]) /\ job[r].op = "remove"
  BY DEF IInv, Stages, Stage, DeleteMember, HasLocked
<1>2. job[r].target \in Ids
  BY <1>1 DEF Knows
<1>3. /\ Finish(r) /\ UNCHANGED workspace
      /\ \A i \in Ids :
           \/ role'[i] = role[i] /\ user'[i] = user[i]
           \/ lockedBy[i] = r /\ role'[i] = None /\ user'[i] = None
  BY <1>0, <1>2 DEF DeleteMember, TypeOK
<1>4. OneMembershipEach' /\ WorkspaceThere'
  BY <1>0, <1>3
     DEF IInv, OneMembershipEach, WorkspaceThere, Exists, Finish
<1> QED BY <1>0, <1>3, <1>4, InvFinish

(* The cascade deletes every row: it has locked them all.                  *)
LEMMA InvDropWorkspace ==
  ASSUME IInv, NEW r \in Slots, DropWorkspace(r)
  PROVE  IInv'
<1>0. TypeOK /\ TypeOK' /\ None \notin Slots
  BY TypeProceed, NoneAssumption DEF IInv, Proceed
<1>1. /\ pc[r] = "lock" /\ job[r].op = "delete" /\ todo[r] = {}
      /\ workspace' = "deleted" /\ Finish(r)
      /\ \A i \in Ids :
           \/ lockedBy[i] # r /\ role'[i] = role[i] /\ user'[i] = user[i]
           \/ lockedBy[i] = r /\ role'[i] = None /\ user'[i] = None
  BY DEF DropWorkspace, HasLocked
<1>2. wsLock = r /\ wsLock' = None
  BY <1>1 DEF IInv, WorkspaceHeld, Finish
<1>3. \A i \in Ids : role'[i] = None
  BY <1>0, <1>1 DEF IInv, CascadeReaches, Exists
<1>4. OneMembershipEach' /\ WorkspaceThere'
  BY <1>1, <1>2, <1>3
     DEF IInv, OneMembershipEach, WorkspaceThere, Exists
<1> QED BY <1>0, <1>1, <1>3, <1>4, InvFinish

(* Every step keeps the inductive invariant.                               *)
LEMMA InvStep == IInv /\ [Next]_vars => IInv'
<1> SUFFICES ASSUME IInv, [Next]_vars PROVE IInv'
  OBVIOUS
<1>1. CASE UNCHANGED vars
  BY <1>1 DEF vars, table, locks, session, IInv, TypeOK, LocksHeld,
     WorkspaceHeld, WorkspaceThere, Stages, Stage, LoadedOnce, CascadeReaches,
     OneMembershipEach, LockedReadsAreCurrent, Exists
<1>2. ASSUME NEW r \in Slots, Proceed(r) PROVE IInv'
  BY <1>2, InvReadTarget, InvCheckExisting, InvGrantMembership, InvSelect,
     InvLockRow, InvInsert, InvUpdateGranted, InvInvite, InvChangeRole,
     InvDeleteMember, InvDropWorkspace DEF Proceed
<1>3. ASSUME NEW r \in Slots, DeadlockAbort(r) \/ Fail(r) PROVE IInv'
  BY <1>3, InvGiveUp DEF DeadlockAbort, Fail, table, IInv, TypeOK
<1> QED BY <1>1, <1>2, <1>3, InvArrive DEF Next

(* Row locks, the roles sessions have loaded, the statements in progress   *)
(* and the table agree in every reachable state.                           *)
THEOREM Invariant == Spec => []IInv
BY InvInit, InvStep, PTL DEF Spec

-----------------------------------------------------------------------------
(* What follows from it.                                                   *)

(* The variables of a session, the locks and the table keep their types    *)
(* whatever requests and commands interleave.                              *)
THEOREM Typing == Spec => []TypeOK
<1>1. IInv => TypeOK
  BY DEF IInv
<1> QED BY <1>1, Invariant, PTL

(* The rows a change or removal locks are read as they are and stay so,    *)
(* but for its caller's and its target's.                                  *)
THEOREM LockedReads == Spec => []LockedReadsAreCurrent
<1>1. IInv => LockedReadsAreCurrent
  BY DEF IInv
<1> QED BY <1>1, Invariant, PTL

(* Concurrent inserts never give a user two memberships.                   *)
THEOREM UniqueMembership == Spec => []OneMembershipEach
<1>1. IInv => OneMembershipEach
  BY DEF IInv
<1> QED BY <1>1, Invariant, PTL

(* A deleted workspace has no members, whatever ran beside the deletion.   *)
THEOREM CascadeIsComplete == Spec => []NoRowOutlivesWorkspace
<1>1. IInv => NoRowOutlivesWorkspace
  BY DEF IInv, WorkspaceThere, NoRowOutlivesWorkspace
<1> QED BY <1>1, Invariant, PTL

-----------------------------------------------------------------------------
(* How the last OWNER can go, and how the OWNER boundary can be crossed.   *)

(* Of a finite set of more than one row, one is not a given row.           *)
LEMMA AnotherOne ==
  ASSUME NEW S, IsFiniteSet(S), Cardinality(S) > 1, NEW t
  PROVE  \E k \in S : k # t
<1> SUFFICES ASSUME S \subseteq {t} PROVE FALSE
  OBVIOUS
<1>1. IsFiniteSet({t}) /\ Cardinality({t}) = 1
  BY FS_Singleton
<1>2. Cardinality(S) <= 1 /\ Cardinality(S) \in Nat
  BY <1>1, FS_Subset, FS_CardinalityType
<1> QED BY <1>2

(* Whoever makes a demotion or a removal of t pass sees another OWNER: a   *)
(* row that really is one, unless it is the caller's own.                  *)
LEMMA CountSeesAnOwner ==
  ASSUME IInv, NEW r \in Slots, job[r].op \in {"change", "remove"},
         LeavesAnOwner(r), view[r][job[r].target] = "OWNER",
         view[r][job[r].self] # "OWNER" \/ role[job[r].self] = "OWNER"
  PROVE  \E k \in Ids : k # job[r].target /\ role[k] = "OWNER"
<1>1. OwnersSeen(r) \subseteq Ids /\ IsFiniteSet(OwnersSeen(r))
  BY IdsAssumption, FS_Subset DEF OwnersSeen
<1>2. PICK k \in OwnersSeen(r) : k # job[r].target
  BY <1>1, AnotherOne DEF LeavesAnOwner
<1>3. k \in Ids /\ lockedBy[k] = r /\ view[r][k] = "OWNER"
  BY <1>2 DEF OwnersSeen
<1>4. CASE k = job[r].self
  BY <1>2, <1>3, <1>4
<1>5. CASE k # job[r].self
  BY <1>2, <1>3, <1>5 DEF IInv, LockedReadsAreCurrent
<1> QED BY <1>4, <1>5

(* A step that takes the last OWNER is a grant's or a stale commit's.      *)
LEMMA OwnerLostStep ==
  ASSUME IInv, [Next]_vars, HasOwner, ~HasOwner', workspace' = "live"
  PROVE  \E r \in Slots :
           \/ pc[r] = "update"
           \/ /\ job[r].op \in {"change", "remove"}
              /\ pc[r] = "lock" /\ pc'[r] = "idle"
              /\ StaleOnOwner(r)
<1>0. TypeOK
  BY DEF IInv
<1>1. PICK w \in Ids : role[w] = "OWNER" /\ role'[w] # "OWNER"
  BY DEF HasOwner
<1>2. \A k \in Ids : role'[k] # "OWNER"
  BY DEF HasOwner
<1>3. role' # role
  BY <1>1
<1>4. PICK r \in Slots : Arrive(r) \/ Proceed(r)
  BY <1>3 DEF Next, vars, table, DeadlockAbort, Fail
<1>5. ~Arrive(r)
  <2>1. ASSUME NEW at, NEW j, NEW seen, Begin(r, at, j, seen) PROVE FALSE
    BY <1>3, <2>1 DEF Begin, table
  <2>2. ~CreateWorkspace(r)
    BY <1>0, <1>1, <1>2 DEF CreateWorkspace, TypeOK
  <2> QED BY <2>1, <2>2 DEF Arrive, UpdateMember, RemoveMember, AddMember,
               DeleteWorkspace, CreateLocalUser, CreateInvitation,
               AcceptInvitation, GrantCommand, AdoptOrphans
<1>6. ~InsertMembership(r)
  <2> SUFFICES ASSUME InsertMembership(r) PROVE FALSE
    OBVIOUS
  <2>1. PICK i \in Ids : ~Exists(i) /\ role' = [role EXCEPT ![i] = job[r].role]
    BY <1>3 DEF InsertMembership, Fresh
  <2>2. i # w
    BY <1>1, <2>1, NoneAssumption DEF Exists, Roles
  <2> QED BY <1>0, <1>1, <2>1, <2>2 DEF TypeOK
<1>7. CASE UpdateGranted(r)
  BY <1>7 DEF UpdateGranted
<1>8. CASE ChangeRole(r) \/ DeleteMember(r)
  <2> DEFINE t == job[r].target
  <2>1. /\ pc[r] = "lock" /\ job[r].op \in {"change", "remove"} /\ Finish(r)
    BY <1>8 DEF ChangeRole, DeleteMember, HasLocked
  <2>2. pc'[r] = "idle"
    BY <1>0, <2>1 DEF Finish, TypeOK
  <2>3. \A k \in Ids \ {t} : role'[k] = role[k]
    BY <1>0, <1>8 DEF ChangeRole, DeleteMember, TypeOK
  <2>4. w = t
    BY <1>1, <2>3
  <2>5. LeavesAnOwner(r)
    <3>1. CASE DeleteMember(r)
      BY <1>3, <3>1 DEF DeleteMember
    <3>2. CASE ChangeRole(r)
      <4>1. /\ job[r].role = "OWNER" \/ LeavesAnOwner(r)
            /\ role' = [role EXCEPT ![t] = job[r].role]
        BY <1>3, <3>2 DEF ChangeRole
      <4> QED BY <1>0, <1>2, <2>4, <4>1 DEF TypeOK
    <3> QED BY <1>8, <3>1, <3>2
  <2>6. StaleOnOwner(r)
    <3> SUFFICES ASSUME ~StaleOnOwner(r) PROVE FALSE
      OBVIOUS
    <3>1. /\ view[r][job[r].self] # "OWNER" \/ role[job[r].self] = "OWNER"
          /\ view[r][t] = "OWNER"
      BY <1>1, <2>4 DEF StaleOnOwner
    <3>2. PICK k \in Ids : k # t /\ role[k] = "OWNER"
      BY <2>1, <2>5, <3>1, CountSeesAnOwner
    <3> QED BY <1>2, <2>3, <3>2
  <2> QED BY <2>1, <2>2, <2>6
<1>9. ~DropWorkspace(r)
  BY DEF DropWorkspace
<1>10. CASE ReadTarget(r) \/ CheckExisting(r) \/ GrantMembership(r)
            \/ Invite(r) \/ LockMemberships(r) \/ LockWorkspace(r)
            \/ LockRow(r)
  BY <1>3, <1>10 DEF ReadTarget, CheckExisting, GrantMembership, Invite,
                     LockMemberships, LockWorkspace, LockRow, table
<1> QED BY <1>4, <1>5, <1>6, <1>7, <1>8, <1>9, <1>10 DEF Proceed

(* The members of a workspace lose their last OWNER to the command line or *)
(* to a commit that is stale on its caller or target, to nothing else.     *)
THEOREM OwnersLost == Spec => OwnersLostOnlyByStaleRead
<1>1. IInv /\ [Next]_vars =>
        [(HasOwner /\ ~HasOwner' /\ workspace' = "live")
         => \E r \in Slots :
              \/ pc[r] = "update"
              \/ /\ job[r].op \in {"change", "remove"}
                 /\ pc[r] = "lock" /\ pc'[r] = "idle"
                 /\ StaleOnOwner(r)]_vars
  BY OwnerLostStep
<1> QED BY <1>1, Invariant, PTL DEF Spec, OwnersLostOnlyByStaleRead

(* An OWNER membership or a link to one is made or unmade by a request of  *)
(* an OWNER, by one that is stale on its target, or by accepting a link.   *)
LEMMA BoundaryStep ==
  ASSUME IInv, [Next]_vars, NEW r \in Slots, CrossesBoundary(r)
  PROVE  \/ AdmittedAsOwner(r)
         \/ /\ job[r].op \in {"change", "remove"}
            /\ view[r][job[r].target] # "OWNER"
            /\ role[job[r].target] = "OWNER"
         \/ /\ job[r].op = "local"
            /\ pc[r] = "update"
            /\ role[job[r].target] = "OWNER"
         \/ job[r].op = "accept" /\ job[r].role = "OWNER"
<1> DEFINE Made(w) == (role[w] = "OWNER") # (role'[w] = "OWNER")
           Linked(u) == <<u, "OWNER">> \in invited' \ invited
<1>0. TypeOK /\ None # "OWNER" /\ None \notin Ids
  BY NoneAssumption DEF IInv, Roles
<1>1. (\E w \in Ids : Made(w)) \/ (\E u \in Users : Linked(u))
  BY DEF CrossesBoundary
<1>2. /\ ~UNCHANGED table /\ pc[r] # "idle" /\ pc'[r] = "idle"
      /\ job[r].op \notin {"grant", "adopt"}
  BY <1>1 DEF CrossesBoundary, table
<1>3. PICK q \in Slots : Arrive(q) \/ Proceed(q)
  BY <1>2 DEF Next, vars, DeadlockAbort, Fail
<1>4. ~Arrive(q)
  <2>1. ASSUME NEW at, NEW j, NEW seen, Begin(q, at, j, seen) PROVE FALSE
    BY <1>2, <2>1 DEF Begin
  <2>2. ~CreateWorkspace(q)
    BY <1>2 DEF CreateWorkspace, session
  <2> QED BY <2>1, <2>2 DEF Arrive, UpdateMember, RemoveMember, AddMember,
               DeleteWorkspace, CreateLocalUser, CreateInvitation,
               AcceptInvitation, GrantCommand, AdoptOrphans
<1>5. CheckExisting(q) \/ InsertMembership(q) \/ UpdateGranted(q) \/ Invite(q)
        \/ ChangeRole(q) \/ DeleteMember(q) \/ DropWorkspace(q)
  BY <1>2, <1>3, <1>4
     DEF Proceed, ReadTarget, GrantMembership, LockMemberships, LockWorkspace,
         LockRow
<1>6. pc[q] # "idle" /\ (Finish(q) \/ pc' = [pc EXCEPT ![q] = "insert"])
  BY <1>5 DEF CheckExisting, InsertMembership, UpdateGranted, Invite,
              ChangeRole, DeleteMember, DropWorkspace, HasLocked
<1>7. q = r
  BY <1>0, <1>2, <1>6 DEF Finish, TypeOK
<1>8. Knows(pc[r], job[r], view[r], todo[r])
  BY DEF IInv, Stages, Stage
<1>9. CASE CheckExisting(r)
  BY <1>1, <1>9 DEF CheckExisting
<1>10. CASE InsertMembership(r)
  <2>1. /\ pc[r] = "insert"
        /\ \E w \in Ids : Made(w)
    BY <1>1, <1>10 DEF InsertMembership
  <2>2. PICK i \in Ids : ~Exists(i) /\ role' = [role EXCEPT ![i] = job[r].role]
    BY <2>1, <1>10 DEF InsertMembership, Fresh
  <2>3. job[r].role = "OWNER"
    BY <1>0, <2>1, <2>2 DEF Exists, TypeOK
  <2>4. CASE job[r].op \in {"add", "local"}
    <3>1. /\ job[r].self \in Ids
          /\ AuthorizeMemberRoleChange(view[r][job[r].self], {job[r].role})
      BY <1>8, <2>1, <2>4 DEF Knows
    <3> QED BY <1>0, <2>3, <3>1
            DEF AuthorizeMemberRoleChange, AdmittedAsOwner
  <2>5. job[r].op \in {"add", "local", "accept"}
    BY <1>2, <1>8, <2>1 DEF Knows
  <2> QED BY <2>3, <2>4, <2>5
<1>11. CASE UpdateGranted(r)
  <2> DEFINE t == job[r].target
  <2>1. /\ pc[r] = "update"
        /\ \E w \in Ids : Made(w)
        /\ role' = [role EXCEPT ![t] = job[r].role]
    BY <1>1, <1>11 DEF UpdateGranted
  <2>2. /\ job[r].op = "local" /\ job[r].self \in Ids
        /\ AuthorizeMemberRoleChange(view[r][job[r].self], {job[r].role})
    BY <1>2, <1>8, <2>1 DEF Knows
  <2>3. role[t] = "OWNER" \/ job[r].role = "OWNER"
    BY <1>0, <2>1 DEF TypeOK
  <2> QED BY <1>0, <2>1, <2>2, <2>3
          DEF AuthorizeMemberRoleChange, AdmittedAsOwner
<1>12. CASE Invite(r)
  <2>1. pc[r] = "invite" /\ \E u \in Users : Linked(u)
    BY <1>1, <1>12 DEF Invite
  <2>2. job[r].role = "OWNER"
    BY <1>12, <2>1 DEF Invite
  <2>3. /\ job[r].self \in Ids
        /\ AuthorizeMemberRoleChange(view[r][job[r].self], {job[r].role})
    BY <1>8, <2>1 DEF Knows
  <2> QED BY <1>0, <2>2, <2>3 DEF AuthorizeMemberRoleChange, AdmittedAsOwner
<1>13. CASE ChangeRole(r) \/ DeleteMember(r)
  <2>1. PICK w \in Ids : Made(w)
    BY <1>1, <1>13 DEF ChangeRole, DeleteMember
  <2>2. /\ pc[r] = "lock" /\ job[r].op \in {"change", "remove"}
        /\ \/ /\ job[r].op = "change"
              /\ role' = [role EXCEPT ![job[r].target] = job[r].role]
           \/ role' = [role EXCEPT ![job[r].target] = None]
    BY <2>1, <1>13 DEF ChangeRole, DeleteMember, HasLocked
  <2>3. /\ job[r].self \in Ids
        /\ AuthorizeMemberRoleChange(view[r][job[r].self],
             {view[r][job[r].target], job[r].role})
    BY <1>8, <2>2 DEF Knows
  <2>4. w = job[r].target
    BY <1>0, <2>1, <2>2 DEF TypeOK
  <2>5. CASE view[r][job[r].self] # "OWNER"
    <3>1. view[r][w] # "OWNER" /\ job[r].role # "OWNER"
      BY <2>3, <2>4, <2>5 DEF AuthorizeMemberRoleChange
    <3>2. role'[w] # "OWNER"
      BY <1>0, <2>2, <2>4, <3>1 DEF TypeOK
    <3> QED BY <2>1, <2>2, <2>4, <3>1, <3>2
  <2> QED BY <1>0, <2>3, <2>5 DEF AdmittedAsOwner
<1>14. CASE DropWorkspace(r)
  BY <1>0, <1>8, <1>14 DEF DropWorkspace, HasLocked, Knows, AdmittedAsOwner
<1> QED BY <1>5, <1>7, <1>9, <1>10, <1>11, <1>12, <1>13, <1>14

(* No membership becomes or stops being an OWNER's, and no link to become  *)
(* one is made, but by a request that was admitted as an OWNER's, or that  *)
(* saw its target as it no longer is; and by accepting such a link.        *)
THEOREM BoundaryCrossed == Spec => BoundaryCrossedOnlyByStaleRead
<1>1. IInv /\ [Next]_vars =>
        [\A r \in Slots :
           CrossesBoundary(r) =>
             \/ AdmittedAsOwner(r)
             \/ /\ job[r].op \in {"change", "remove"}
                /\ view[r][job[r].target] # "OWNER"
                /\ role[job[r].target] = "OWNER"
             \/ /\ job[r].op = "local"
                /\ pc[r] = "update"
                /\ role[job[r].target] = "OWNER"
             \/ job[r].op = "accept" /\ job[r].role = "OWNER"]_vars
  BY BoundaryStep
<1> QED BY <1>1, Invariant, PTL DEF Spec, BoundaryCrossedOnlyByStaleRead
=============================================================================
