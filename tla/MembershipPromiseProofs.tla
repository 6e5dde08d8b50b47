----------------------- MODULE MembershipPromiseProofs -----------------------
(* Handlers that do not overlap keep the promise of WorkspaceRoles, for    *)
(* any users, rows, requests and operators.                                *)
EXTENDS MembershipProofs

-----------------------------------------------------------------------------
(* What a handler was admitted on.                                         *)

Managers == {"OWNER", "ADMIN"}

(* A slot that stands idle has no session; whoever changes or invites      *)
(* members was loaded as a manager; an acceptance is nobody's request; the *)
(* command line found a workspace, and adopts it for an OWNER.             *)
Admits(at, j, seen) ==
  /\ at = "idle" => seen = NoView
  /\ j.op \in {"change", "remove", "add", "local", "invite"} =>
       j.self \in Ids /\ seen[j.self] \in Managers
  /\ j.op = "accept" => j.self = None
  /\ j.op = "adopt" => j.role = "OWNER"

Admitted ==
  /\ \A r \in Slots :
       /\ Admits(pc[r], job[r], view[r])
       /\ job[r].op \in {"grant", "adopt", "accept"} => workspace # "absent"
  /\ invited # {} => workspace # "absent"

(* A session that ends leaves the other sessions as they are.              *)
LEMMA OthersKept ==
  ASSUME TypeOK, NEW r \in Slots, Finish(r)
  PROVE  /\ pc'[r] = "idle" /\ job'[r] = NoJob /\ view'[r] = NoView
         /\ \A q \in Slots \ {r} :
              pc'[q] = pc[q] /\ job'[q] = job[q] /\ view'[q] = view[q]
BY DEF TypeOK, Finish

(* Those who may change members are the OWNERs and the ADMINs.             *)
LEMMA ManagersManage ==
  ASSUME NEW x \in Roles \cup {None}, x # None
  PROVE  HasCapability(x, "manage_members") <=> x \in Managers
BY DEF HasCapability, CapabilitiesOf, Capabilities, Roles, Managers

(* The end of a handler keeps what the others were admitted on, unless it  *)
(* takes the workspace back to what it was before it existed.              *)
LEMMA AdmittedFinish ==
  ASSUME TypeOK, Admitted, NEW r \in Slots, Finish(r),
         workspace' = "absent" => workspace = "absent" /\ invited' \subseteq invited
  PROVE  Admitted'
<1> SUFFICES ASSUME NEW q \in Slots
             PROVE  /\ Admits(pc'[q], job'[q], view'[q])
                    /\ job'[q].op \in {"grant", "adopt", "accept"}
                         => workspace' # "absent"
  BY DEF Admitted, Admits, NoView
<1>1. CASE q = r
  BY <1>1, OthersKept DEF Admits, NoJob
<1>2. CASE q # r
  BY <1>2, OthersKept DEF Admitted
<1> QED BY <1>1, <1>2

(* So does its beginning, for a handler that was admitted itself.          *)
LEMMA AdmittedBegin ==
  ASSUME TypeOK, Admitted, NEW r \in Slots, NEW at, NEW j, NEW seen,
         Begin(r, at, j, seen), Admits(at, j, seen),
         j.op \in {"grant", "adopt", "accept"} => workspace # "absent"
  PROVE  Admitted'
<1>1. /\ pc'[r] = at /\ job'[r] = j /\ view'[r] = seen
      /\ \A q \in Slots \ {r} :
           pc'[q] = pc[q] /\ job'[q] = job[q] /\ view'[q] = view[q]
      /\ UNCHANGED <<workspace, invited>>
  BY DEF Begin, TypeOK, table
<1> SUFFICES ASSUME NEW q \in Slots
             PROVE  /\ Admits(pc'[q], job'[q], view'[q])
                    /\ job'[q].op \in {"grant", "adopt", "accept"}
                         => workspace' # "absent"
  BY <1>1 DEF Admitted, Admits, NoView
<1>2. CASE q = r
  BY <1>1, <1>2
<1>3. CASE q # r
  BY <1>1, <1>3 DEF Admitted
<1> QED BY <1>2, <1>3

(* Every handler begins admitted.                                          *)
LEMMA AdmittedArrive ==
  ASSUME TypeOK, Admitted, NEW r \in Slots, Arrive(r)
  PROVE  Admitted'
<1>0. \A i \in Ids : Loaded(i)[i] = role[i]
  BY DEF TypeOK, Loaded, NoView
<1>1. ASSUME NEW i \in Ids, Authorized(r, i, "manage_members")
      PROVE  role[i] \in Managers
  BY <1>1, ManagersManage DEF Authorized, Exists, TypeOK
<1>2. CASE UpdateMember(r)
  <2>1. PICK self \in Ids, target \in Ids, asked \in Asked :
          /\ Authorized(r, self, "manage_members")
          /\ Begin(r, "target",
             [NoJob EXCEPT !.op = "change", !.self = self, !.target = target,
                           !.role = asked],
             Loaded(self))
    BY <1>2 DEF UpdateMember
  <2> DEFINE j == [NoJob EXCEPT !.op = "change", !.self = self,
                                !.target = target, !.role = asked]
  <2>2. j.op = "change" /\ j.self = self
    BY DEF NoJob
  <2> HIDE DEF j
  <2>3. Admits("target", j, Loaded(self))
    BY <1>0, <1>1, <2>1, <2>2 DEF Admits
  <2>4. Begin(r, "target", j, Loaded(self))
    BY <2>1 DEF j
  <2> QED BY <2>2, <2>3, <2>4, AdmittedBegin
<1>3. CASE RemoveMember(r)
  <2>1. PICK self \in Ids, target \in Ids :
          /\ Authorized(r, self, "manage_members")
          /\ Begin(r, "target",
             [NoJob EXCEPT !.op = "remove", !.self = self, !.target = target],
             Loaded(self))
    BY <1>3 DEF RemoveMember
  <2> DEFINE j == [NoJob EXCEPT !.op = "remove", !.self = self,
                                !.target = target]
  <2>2. j.op = "remove" /\ j.self = self
    BY DEF NoJob
  <2> HIDE DEF j
  <2>3. Admits("target", j, Loaded(self))
    BY <1>0, <1>1, <2>1, <2>2 DEF Admits
  <2>4. Begin(r, "target", j, Loaded(self))
    BY <2>1 DEF j
  <2> QED BY <2>2, <2>3, <2>4, AdmittedBegin
<1>4. CASE AddMember(r)
  <2>1. PICK self \in Ids, subject \in Users, asked \in Asked :
          /\ Authorized(r, self, "manage_members")
          /\ Begin(r, "check",
             [NoJob EXCEPT !.op = "add", !.self = self, !.subject = subject,
                           !.role = asked],
             Loaded(self))
    BY <1>4 DEF AddMember
  <2> DEFINE j == [NoJob EXCEPT !.op = "add", !.self = self,
                                !.subject = subject, !.role = asked]
  <2>2. j.op = "add" /\ j.self = self
    BY DEF NoJob
  <2> HIDE DEF j
  <2>3. Admits("check", j, Loaded(self))
    BY <1>0, <1>1, <2>1, <2>2 DEF Admits
  <2>4. Begin(r, "check", j, Loaded(self))
    BY <2>1 DEF j
  <2> QED BY <2>2, <2>3, <2>4, AdmittedBegin
<1>5. CASE DeleteWorkspace(r)
  <2>1. PICK self \in Ids :
          Begin(r, "select", [NoJob EXCEPT !.op = "delete", !.self = self],
                Loaded(self))
    BY <1>5 DEF DeleteWorkspace
  <2> DEFINE j == [NoJob EXCEPT !.op = "delete", !.self = self]
  <2>2. j.op = "delete"
    BY DEF NoJob
  <2> HIDE DEF j
  <2>3. Admits("select", j, Loaded(self))
    BY <2>2 DEF Admits
  <2>4. Begin(r, "select", j, Loaded(self))
    BY <2>1 DEF j
  <2> QED BY <2>2, <2>3, <2>4, AdmittedBegin
<1>6. CASE GrantCommand(r)
  <2>1. PICK subject \in Users, asked \in Asked :
          Begin(r, "grant",
             [NoJob EXCEPT !.op = "grant", !.subject = subject,
                           !.role = asked], NoView)
    BY <1>6 DEF GrantCommand
  <2> DEFINE j == [NoJob EXCEPT !.op = "grant", !.subject = subject,
                                !.role = asked]
  <2>2. j.op = "grant" /\ workspace # "absent"
    BY <1>6 DEF NoJob, GrantCommand
  <2> HIDE DEF j
  <2>3. Admits("grant", j, NoView)
    BY <2>2 DEF Admits
  <2>4. Begin(r, "grant", j, NoView)
    BY <2>1 DEF j
  <2> QED BY <2>2, <2>3, <2>4, AdmittedBegin
<1>7. CASE AdoptOrphans(r)
  <2>1. PICK subject \in Users :
          Begin(r, "insert",
             [NoJob EXCEPT !.op = "adopt", !.subject = subject,
                           !.role = "OWNER"], NoView)
    BY <1>7 DEF AdoptOrphans
  <2> DEFINE j == [NoJob EXCEPT !.op = "adopt", !.subject = subject,
                                !.role = "OWNER"]
  <2>2. j.op = "adopt" /\ j.role = "OWNER" /\ workspace # "absent"
    BY <1>7 DEF NoJob, AdoptOrphans
  <2> HIDE DEF j
  <2>3. Admits("insert", j, NoView)
    BY <2>2 DEF Admits
  <2>4. Begin(r, "insert", j, NoView)
    BY <2>1 DEF j
  <2> QED BY <2>2, <2>3, <2>4, AdmittedBegin
<1>8. CASE CreateWorkspace(r)
  BY <1>8 DEF CreateWorkspace, session, Admitted, Admits, NoView
<1>9. CASE CreateLocalUser(r)
  <2>1. PICK self \in Ids, subject \in Users, asked \in Asked :
          /\ Authorized(r, self, "manage_members")
          /\ Begin(r, "grant",
             [NoJob EXCEPT !.op = "local", !.self = self, !.subject = subject,
                           !.role = asked],
             Loaded(self))
    BY <1>9 DEF CreateLocalUser
  <2> DEFINE j == [NoJob EXCEPT !.op = "local", !.self = self,
                                !.subject = subject, !.role = asked]
  <2>2. j.op = "local" /\ j.self = self
    BY DEF NoJob
  <2> HIDE DEF j
  <2>3. Admits("grant", j, Loaded(self))
    BY <1>0, <1>1, <2>1, <2>2 DEF Admits
  <2>4. Begin(r, "grant", j, Loaded(self))
    BY <2>1 DEF j
  <2> QED BY <2>2, <2>3, <2>4, AdmittedBegin
<1>10. CASE CreateInvitation(r)
  <2>1. PICK self \in Ids, subject \in Invitees, asked \in Asked :
          /\ Authorized(r, self, "manage_members")
          /\ Begin(r, "invite",
             [NoJob EXCEPT !.op = "invite", !.self = self,
                           !.subject = subject, !.role = asked,
                           !.links = LinksFor(subject)],
             Loaded(self))
    BY <1>10 DEF CreateInvitation
  <2> DEFINE j == [NoJob EXCEPT !.op = "invite", !.self = self,
                                !.subject = subject, !.role = asked,
                                !.links = LinksFor(subject)]
  <2>2. j.op = "invite" /\ j.self = self
    BY DEF NoJob
  <2> HIDE DEF j
  <2>3. Admits("invite", j, Loaded(self))
    BY <1>0, <1>1, <2>1, <2>2 DEF Admits
  <2>4. Begin(r, "invite", j, Loaded(self))
    BY <2>1 DEF j
  <2> QED BY <2>2, <2>3, <2>4, AdmittedBegin
<1>11. CASE AcceptInvitation(r)
  <2>1. PICK link \in invited :
          Begin(r, "check",
             [NoJob EXCEPT !.op = "accept", !.subject = link[1],
                           !.role = link[2]], NoView)
    BY <1>11 DEF AcceptInvitation
  <2> DEFINE j == [NoJob EXCEPT !.op = "accept", !.subject = link[1],
                                !.role = link[2]]
  <2>2. j.op = "accept" /\ j.self = None /\ workspace # "absent"
    BY <2>1 DEF NoJob, Admitted
  <2> HIDE DEF j
  <2>3. Admits("check", j, NoView)
    BY <2>2 DEF Admits
  <2>4. Begin(r, "check", j, NoView)
    BY <2>1 DEF j
  <2> QED BY <2>2, <2>3, <2>4, AdmittedBegin
<1> QED
  BY <1>2, <1>3, <1>4, <1>5, <1>6, <1>7, <1>8, <1>9, <1>10, <1>11 DEF Arrive

(* A job in its terms, but for the row that it turns out to be about.      *)
SameTask(j, k) ==
  /\ j.op = k.op /\ j.self = k.self /\ j.subject = k.subject
  /\ j.role = k.role /\ j.links = k.links

(* What a statement of a handler does: it ends the handler, or it reads    *)
(* and locks, and forgets no role that it had loaded.                      *)
LEMMA Goes ==
  ASSUME TypeOK, NEW r \in Slots, Proceed(r), ~Finish(r)
  PROVE  /\ pc[r] # "idle" /\ pc'[r] # "idle"
         /\ UNCHANGED <<workspace, user, role, invited>>
         /\ \A q \in Slots \ {r} :
              pc'[q] = pc[q] /\ job'[q] = job[q] /\ view'[q] = view[q]
         /\ SameTask(job'[r], job[r])
         /\ \A i \in Ids : \/ view'[r][i] = view[r][i]
                           \/ view[r][i] = None /\ view'[r][i] = role[i]
         /\ pc'[r] = "update" => IsMember(job[r].subject)
<1>1. CASE ReadTarget(r)
  <2> DEFINE t == job[r].target
             seen == IF view[r][t] = None THEN role[t] ELSE view[r][t]
  <2>1. /\ pc[r] = "target" /\ pc' = [pc EXCEPT ![r] = "select"]
        /\ view' = [view EXCEPT ![r][t] = seen]
        /\ UNCHANGED table /\ UNCHANGED job
    BY <1>1 DEF ReadTarget
  <2>2. \A i \in Ids : view'[r][i] = IF i = t THEN seen ELSE view[r][i]
    BY <2>1 DEF TypeOK
  <2> QED BY <2>1, <2>2 DEF TypeOK, table, SameTask
<1>2. CASE CheckExisting(r)
  BY <1>2 DEF CheckExisting, TypeOK, SameTask
<1>3. CASE LockMemberships(r)
  BY <1>3 DEF LockMemberships, TypeOK, table, SameTask
<1>4. CASE LockWorkspace(r)
  BY <1>4 DEF LockWorkspace, TypeOK, table, SameTask
<1>5. CASE LockRow(r)
  <2>1. PICK i \in Ids :
          /\ pc[r] = "lock" /\ UNCHANGED table /\ UNCHANGED <<pc, job>>
          /\ view' = IF view[r][i] = None /\ job[r].op # "delete"
                     THEN [view EXCEPT ![r][i] = role[i]] ELSE view
    BY <1>5 DEF LockRow, TypeOK
  <2> QED BY <2>1 DEF TypeOK, table, SameTask
<1>6. CASE GrantMembership(r)
  <2>1. pc[r] = "grant" /\ UNCHANGED <<workspace, user, role, invited>>
    BY <1>6 DEF GrantMembership, table
  <2>2. CASE pc' = [pc EXCEPT ![r] = "insert"] /\ UNCHANGED <<job, view>>
    BY <2>1, <2>2 DEF TypeOK, SameTask
  <2>3. ASSUME NEW i \in Ids, user[i] = job[r].subject,
               pc' = [pc EXCEPT ![r] = "update"],
               job' = [job EXCEPT ![r].target = i],
               view' = [view EXCEPT ![r][i] = IF @ = None THEN role[i] ELSE @]
        PROVE  /\ pc'[r] # "idle" /\ IsMember(job[r].subject)
               /\ \A q \in Slots \ {r} :
                    pc'[q] = pc[q] /\ job'[q] = job[q] /\ view'[q] = view[q]
               /\ SameTask(job'[r], job[r])
               /\ \A k \in Ids : \/ view'[r][k] = view[r][k]
                                 \/ view[r][k] = None /\ view'[r][k] = role[k]
    <3>1. SameTask(job'[r], job[r])
      BY <2>3 DEF TypeOK, Jobs, SameTask
    <3>2. \A k \in Ids : \/ view'[r][k] = view[r][k]
                         \/ view[r][k] = None /\ view'[r][k] = role[k]
      BY <2>3 DEF TypeOK
    <3> QED BY <2>3, <3>1, <3>2 DEF TypeOK, IsMember
  <2>4. CASE ~IsMember(job[r].subject)
    BY <1>6, <2>1, <2>2, <2>4 DEF GrantMembership, IsMember
  <2>5. CASE IsMember(job[r].subject)
    BY <1>6, <2>1, <2>3, <2>5 DEF GrantMembership
  <2> QED BY <2>4, <2>5
<1> QED
  BY <1>1, <1>2, <1>3, <1>4, <1>5, <1>6 DEF Proceed, InsertMembership,
     UpdateGranted, Invite, ChangeRole, DeleteMember, DropWorkspace

(* Every step keeps what handlers were admitted on.                        *)
LEMMA AdmittedStep == TypeOK /\ Admitted /\ [Next]_vars => Admitted'
<1> SUFFICES ASSUME TypeOK, Admitted, [Next]_vars PROVE Admitted'
  OBVIOUS
<1>1. CASE UNCHANGED vars
  BY <1>1 DEF vars, table, locks, session, Admitted, Admits, NoView
<1>2. ASSUME NEW r \in Slots, Proceed(r), Finish(r) PROVE Admitted'
  <2>1. workspace' = "absent" => workspace = "absent" /\ invited' \subseteq invited
    BY <1>2 DEF Proceed, ReadTarget, CheckExisting, GrantMembership,
       InsertMembership, UpdateGranted, Invite, LockMemberships, LockWorkspace,
       LockRow, ChangeRole, DeleteMember, DropWorkspace, table
  <2> QED BY <1>2, <2>1, AdmittedFinish
<1>3. ASSUME NEW r \in Slots, Proceed(r), ~Finish(r) PROVE Admitted'
  <2> SUFFICES ASSUME NEW q \in Slots
               PROVE  /\ Admits(pc'[q], job'[q], view'[q])
                      /\ job'[q].op \in {"grant", "adopt", "accept"}
                           => workspace' # "absent"
    BY <1>3, Goes DEF Admitted, Admits, NoView
  <2>1. CASE q # r
    BY <1>3, <2>1, Goes DEF Admitted
  <2>2. CASE q = r
    <3>1. job[r].op \in {"change", "remove", "add", "local", "invite"} =>
            /\ job[r].self \in Ids /\ view[r][job[r].self] \in Managers
            /\ view[r][job[r].self] # None
      BY NoneAssumption DEF Admitted, Admits, Managers, Roles
    <3> QED BY <1>3, <2>2, <3>1, Goes DEF Admitted, Admits, SameTask
  <2> QED BY <2>1, <2>2
<1>4. ASSUME NEW r \in Slots, DeadlockAbort(r) \/ Fail(r) PROVE Admitted'
  BY <1>4, AdmittedFinish DEF DeadlockAbort, Fail, table
<1> QED BY <1>1, <1>2, <1>3, <1>4, AdmittedArrive DEF Next

(* In every reachable state handlers were admitted as they should.         *)
LEMMA Admission == Spec => []Admitted
<1>1. Init => Admitted
  BY DEF Init, Admitted, Admits, NoJob
<1> QED BY <1>1, AdmittedStep, Typing, PTL DEF Spec

-----------------------------------------------------------------------------
(* Handlers that do not overlap.                                           *)

(* What a session has loaded is what the table holds.                      *)
Current ==
  \A r \in Slots, i \in Ids : view[r][i] # None => view[r][i] = role[i]

(* Whoever is under way has a workspace to work on.                        *)
LEMMA BusyHasWorkspace ==
  ASSUME IInv, Admitted, Current, NEW r \in Slots, pc[r] # "idle"
  PROVE  workspace # "absent"
<1>1. Knows(pc[r], job[r], view[r], todo[r]) /\ TypeOK
  BY DEF IInv, Stages, Stage
<1>2. /\ job[r].op \in Ops \ {"none"}
      /\ job[r].op \in {"grant", "adopt", "accept"} => workspace # "absent"
  BY <1>1 DEF Knows, TypeOK, Jobs, Ops, Admitted
<1>3. ASSUME job[r].op \notin {"grant", "adopt", "accept"} PROVE Exists(job[r].self)
  <2>1. job[r].self \in Ids /\ view[r][job[r].self] \in Managers
    BY <1>1, <1>2, <1>3 DEF Knows, Ops, Admitted, Admits, Managers
  <2> QED BY <2>1, NoneAssumption DEF Current, Exists, Managers, Roles
<1>4. job[r].op \notin {"grant", "adopt", "accept"} => job[r].self \in Ids
  BY <1>1, <1>2 DEF Knows, Ops, Admitted, Admits
<1> QED BY <1>2, <1>3, <1>4 DEF IInv, WorkspaceThere

(* While one handler takes a step, the others stand idle.                  *)
LEMMA OthersIdle ==
  ASSUME IInv, Admitted, Current, OneAtATime, OneAtATime', NEW r \in Slots,
         Arrive(r) \/ Proceed(r) \/ DeadlockAbort(r) \/ Fail(r)
  PROVE  \A q \in Slots \ {r} : pc[q] = "idle"
<1>0. TypeOK
  BY DEF IInv
<1>1. CASE pc[r] # "idle"
  BY <1>1 DEF OneAtATime
<1>2. CASE pc[r] = "idle"
  <2>1. ~Proceed(r) /\ ~DeadlockAbort(r) /\ ~Fail(r)
    BY <1>2 DEF Proceed, ReadTarget, CheckExisting, GrantMembership,
       InsertMembership, UpdateGranted, Invite, LockMemberships, LockWorkspace,
       LockRow, ChangeRole, DeleteMember, DropWorkspace, HasLocked,
       DeadlockAbort, Fail, Waits
  <2>2. CASE CreateWorkspace(r)
    BY <2>2, BusyHasWorkspace DEF CreateWorkspace
  <2>3. ASSUME NEW at, at # "idle", NEW j, NEW seen, Begin(r, at, j, seen)
        PROVE  \A q \in Slots \ {r} : pc[q] = "idle"
    BY <1>0, <2>3 DEF Begin, TypeOK, OneAtATime
  <2> QED BY <2>1, <2>2, <2>3 DEF Arrive, UpdateMember, RemoveMember,
             AddMember, DeleteWorkspace, CreateLocalUser, CreateInvitation,
             AcceptInvitation, GrantCommand, AdoptOrphans
<1> QED BY <1>1, <1>2

(* A handler begins by reading its caller, if it has one.                  *)
LEMMA BeginsCurrent ==
  ASSUME TypeOK, NEW r \in Slots, Arrive(r)
  PROVE  \/ CreateWorkspace(r)
         \/ /\ pc[r] = "idle" /\ pc'[r] # "idle"
            /\ UNCHANGED <<workspace, user, role, invited>>
            /\ \A i \in Ids : view'[r][i] # None => view'[r][i] = role[i]
            /\ \A q \in Slots \ {r} : pc'[q] = pc[q] /\ view'[q] = view[q]
<1> DEFINE Good == /\ pc[r] = "idle" /\ pc'[r] # "idle"
                   /\ UNCHANGED <<workspace, user, role, invited>>
                   /\ \A i \in Ids : view'[r][i] # None => view'[r][i] = role[i]
                   /\ \A q \in Slots \ {r} :
                        pc'[q] = pc[q] /\ view'[q] = view[q]
<1>1. ASSUME NEW at, at # "idle", NEW j, NEW seen, Begin(r, at, j, seen),
             \A i \in Ids : seen[i] # None => seen[i] = role[i], pc[r] = "idle"
      PROVE  Good
  BY <1>1 DEF Begin, TypeOK, table
<1>2. /\ \A k, i \in Ids : Loaded(k)[i] # None => Loaded(k)[i] = role[i]
      /\ \A i \in Ids : NoView[i] = None
  BY DEF TypeOK, Loaded, NoView
<1> HIDE DEF Good
<1>3. UpdateMember(r) => Good
  BY <1>1, <1>2 DEF UpdateMember, Authorized
<1>4. RemoveMember(r) => Good
  BY <1>1, <1>2 DEF RemoveMember, Authorized
<1>5. AddMember(r) => Good
  BY <1>1, <1>2 DEF AddMember, Authorized
<1>6. DeleteWorkspace(r) => Good
  BY <1>1, <1>2 DEF DeleteWorkspace, Authorized
<1>7. GrantCommand(r) => Good
  BY <1>1, <1>2 DEF GrantCommand
<1>8. AdoptOrphans(r) => Good
  BY <1>1, <1>2 DEF AdoptOrphans
<1>9. CreateLocalUser(r) => Good
  BY <1>1, <1>2 DEF CreateLocalUser, Authorized
<1>10. CreateInvitation(r) => Good
  BY <1>1, <1>2 DEF CreateInvitation, Authorized
<1>11. AcceptInvitation(r) => Good
  BY <1>1, <1>2 DEF AcceptInvitation
<1> QED
  BY <1>3, <1>4, <1>5, <1>6, <1>7, <1>8, <1>9, <1>10, <1>11 DEF Arrive, Good

(* What the one handler has loaded stays true until it ends.               *)
LEMMA CurrentStep ==
  ASSUME IInv, Admitted, Current, OneAtATime, OneAtATime', [Next]_vars
  PROVE  Current'
<1>0. TypeOK /\ None \notin Slots
  BY NoneAssumption DEF IInv
<1>1. CASE UNCHANGED vars
  BY <1>1 DEF vars, table, session, Current
<1>2. ASSUME NEW r \in Slots, Finish(r), \A q \in Slots \ {r} : pc[q] = "idle"
      PROVE  Current'
  <2>1. \A q \in Slots : view'[q] = NoView
    BY <1>0, <1>2, OthersKept DEF Admitted, Admits
  <2> QED BY <2>1 DEF Current, NoView
<1>3. ASSUME NEW r \in Slots, Arrive(r) PROVE Current'
  <2>1. CASE CreateWorkspace(r)
    <3>1. /\ \A q \in Slots : pc[q] = "idle"
          /\ UNCHANGED view
      BY <1>3, <2>1, OthersIdle DEF CreateWorkspace, session
    <3> QED BY <3>1 DEF Admitted, Admits, NoView, Current
  <2>2. CASE ~CreateWorkspace(r)
    BY <1>0, <1>3, <2>2, BeginsCurrent DEF Current
  <2> QED BY <2>1, <2>2
<1>4. ASSUME NEW r \in Slots, Proceed(r), ~Finish(r) PROVE Current'
  BY <1>0, <1>4, Goes DEF Current
<1>5. ASSUME NEW r \in Slots, DeadlockAbort(r) \/ Fail(r) PROVE Current'
  BY <1>2, <1>5, OthersIdle DEF DeadlockAbort, Fail
<1>6. ASSUME NEW r \in Slots, Proceed(r), Finish(r) PROVE Current'
  BY <1>2, <1>6, OthersIdle
<1> QED BY <1>1, <1>3, <1>4, <1>5, <1>6 DEF Next

(* What the one handler found of the address it is about.                  *)
Undisturbed ==
  \A r \in Slots :
    /\ job[r].op = "accept" => <<job[r].subject, job[r].role>> \in invited
    /\ job[r].op = "local" => pc[r] # "update" /\ ~IsMember(job[r].subject)
    /\ job[r].op = "invite" => job[r].links = LinksFor(job[r].subject)

(* A handler that begins has just found it.                                *)
LEMMA BeginsUndisturbed ==
  ASSUME TypeOK, NEW r \in Slots, Arrive(r), ~CreateWorkspace(r)
  PROVE  /\ job'[r].op = "accept" =>
              <<job'[r].subject, job'[r].role>> \in invited
         /\ job'[r].op = "local" =>
              pc'[r] # "update" /\ ~IsMember(job'[r].subject)
         /\ job'[r].op = "invite" =>
              job'[r].links = LinksFor(job'[r].subject)
         /\ \A q \in Slots \ {r} : job'[q] = job[q]
<1>1. ASSUME NEW at, NEW j, NEW seen, Begin(r, at, j, seen)
      PROVE  /\ pc'[r] = at /\ job'[r] = j
             /\ \A q \in Slots \ {r} : job'[q] = job[q]
  BY <1>1 DEF Begin, TypeOK
<1>2. ASSUME NEW at, NEW j, NEW seen, Begin(r, at, j, seen),
             j.op \notin {"accept", "local", "invite"}
      PROVE  /\ job'[r].op \notin {"accept", "local", "invite"}
             /\ \A q \in Slots \ {r} : job'[q] = job[q]
  BY <1>1, <1>2
<1>3. CASE UpdateMember(r)
  <2>1. PICK self, target, asked :
          Begin(r, "target",
                [NoJob EXCEPT !.op = "change", !.self = self,
                              !.target = target, !.role = asked],
                Loaded(self))
    BY <1>3 DEF UpdateMember
  <2>2. [NoJob EXCEPT !.op = "change", !.self = self, !.target = target,
                      !.role = asked].op = "change"
    BY DEF NoJob
  <2> QED BY <1>2, <2>1, <2>2
<1>4. CASE RemoveMember(r)
  <2>1. PICK self, target :
          Begin(r, "target",
                [NoJob EXCEPT !.op = "remove", !.self = self,
                              !.target = target],
                Loaded(self))
    BY <1>4 DEF RemoveMember
  <2>2. [NoJob EXCEPT !.op = "remove", !.self = self,
                      !.target = target].op = "remove"
    BY DEF NoJob
  <2> QED BY <1>2, <2>1, <2>2
<1>5. CASE AddMember(r)
  <2>1. PICK self, subject, asked :
          Begin(r, "check",
                [NoJob EXCEPT !.op = "add", !.self = self,
                              !.subject = subject, !.role = asked],
                Loaded(self))
    BY <1>5 DEF AddMember
  <2>2. [NoJob EXCEPT !.op = "add", !.self = self, !.subject = subject,
                      !.role = asked].op = "add"
    BY DEF NoJob
  <2> QED BY <1>2, <2>1, <2>2
<1>6. CASE DeleteWorkspace(r)
  <2>1. PICK self :
          Begin(r, "select", [NoJob EXCEPT !.op = "delete", !.self = self],
                Loaded(self))
    BY <1>6 DEF DeleteWorkspace
  <2>2. [NoJob EXCEPT !.op = "delete", !.self = self].op = "delete"
    BY DEF NoJob
  <2> QED BY <1>2, <2>1, <2>2
<1>7. CASE GrantCommand(r)
  <2>1. PICK subject, asked :
          Begin(r, "grant", [NoJob EXCEPT !.op = "grant", !.subject = subject,
                                          !.role = asked], NoView)
    BY <1>7 DEF GrantCommand
  <2>2. [NoJob EXCEPT !.op = "grant", !.subject = subject,
                      !.role = asked].op = "grant"
    BY DEF NoJob
  <2> QED BY <1>2, <2>1, <2>2
<1>8. CASE AdoptOrphans(r)
  <2>1. PICK subject :
          Begin(r, "insert", [NoJob EXCEPT !.op = "adopt", !.subject = subject,
                                           !.role = "OWNER"], NoView)
    BY <1>8 DEF AdoptOrphans
  <2>2. [NoJob EXCEPT !.op = "adopt", !.subject = subject,
                      !.role = "OWNER"].op = "adopt"
    BY DEF NoJob
  <2> QED BY <1>2, <2>1, <2>2
<1>9. CASE CreateLocalUser(r)
  <2>1. PICK self, subject, asked :
          /\ ~IsMember(subject)
          /\ Begin(r, "grant",
                   [NoJob EXCEPT !.op = "local", !.self = self,
                                 !.subject = subject, !.role = asked],
                   Loaded(self))
    BY <1>9 DEF CreateLocalUser
  <2> DEFINE j == [NoJob EXCEPT !.op = "local", !.self = self,
                                !.subject = subject, !.role = asked]
  <2>2. j.op = "local" /\ j.subject = subject
    BY DEF NoJob
  <2> HIDE DEF j
  <2>3. /\ pc'[r] = "grant" /\ job'[r] = j
        /\ \A q \in Slots \ {r} : job'[q] = job[q]
    BY <1>1, <2>1 DEF j
  <2> QED BY <2>1, <2>2, <2>3
<1>10. CASE CreateInvitation(r)
  <2>1. PICK self, subject, asked :
          Begin(r, "invite",
                [NoJob EXCEPT !.op = "invite", !.self = self,
                              !.subject = subject, !.role = asked,
                              !.links = LinksFor(subject)],
                Loaded(self))
    BY <1>10 DEF CreateInvitation
  <2> DEFINE j == [NoJob EXCEPT !.op = "invite", !.self = self,
                                !.subject = subject, !.role = asked,
                                !.links = LinksFor(subject)]
  <2>2. /\ j.op = "invite" /\ j.subject = subject
        /\ j.links = LinksFor(subject)
    BY DEF NoJob
  <2> HIDE DEF j
  <2>3. job'[r] = j /\ \A q \in Slots \ {r} : job'[q] = job[q]
    BY <1>1, <2>1 DEF j
  <2> QED BY <2>2, <2>3
<1>11. CASE AcceptInvitation(r)
  <2>1. PICK link \in invited :
          Begin(r, "check",
                [NoJob EXCEPT !.op = "accept", !.subject = link[1],
                              !.role = link[2]], NoView)
    BY <1>11 DEF AcceptInvitation
  <2> DEFINE j == [NoJob EXCEPT !.op = "accept", !.subject = link[1],
                                !.role = link[2]]
  <2>2. j.op = "accept" /\ j.subject = link[1] /\ j.role = link[2]
    BY DEF NoJob
  <2>3. link = <<link[1], link[2]>>
    BY <2>1 DEF TypeOK, Links
  <2> HIDE DEF j
  <2>4. job'[r] = j /\ \A q \in Slots \ {r} : job'[q] = job[q]
    BY <1>1, <2>1 DEF j
  <2> QED BY <2>1, <2>2, <2>3, <2>4
<1> QED BY <1>3, <1>4, <1>5, <1>6, <1>7, <1>8, <1>9, <1>10, <1>11 DEF Arrive

(* It stays so until the handler ends.                                     *)
LEMMA UndisturbedStep ==
  ASSUME IInv, Admitted, Current, Undisturbed, OneAtATime, OneAtATime',
         [Next]_vars
  PROVE  Undisturbed'
<1>0. TypeOK /\ \A q \in Slots : pc[q] = "idle" => job[q].op = "none"
  BY DEF IInv, Stages, Stage, Knows
<1>1. CASE UNCHANGED vars
  BY <1>1 DEF vars, table, session, Undisturbed, IsMember, LinksFor
<1>2. ASSUME NEW r \in Slots, Finish(r), \A q \in Slots \ {r} : pc[q] = "idle"
      PROVE  Undisturbed'
  <2>1. \A q \in Slots : job'[q].op = "none"
    BY <1>0, <1>2, OthersKept DEF NoJob
  <2> QED BY <2>1 DEF Undisturbed
<1>3. ASSUME NEW r \in Slots, Arrive(r) PROVE Undisturbed'
  <2>0. \A q \in Slots \ {r} : job[q].op = "none"
    BY <1>0, <1>3, OthersIdle
  <2>1. CASE CreateWorkspace(r)
    <3>1. \A q \in Slots : job'[q].op = "none"
      BY <1>0, <2>0, <2>1 DEF CreateWorkspace, session
    <3> QED BY <3>1 DEF Undisturbed
  <2>2. CASE ~CreateWorkspace(r)
    <3>1. UNCHANGED <<user, invited>>
      BY <1>0, <1>3, <2>2, BeginsCurrent
    <3>2. \A u : /\ IsMember(u) <=> IsMember(u)'
                 /\ LinksFor(u) = LinksFor(u)'
      BY <3>1 DEF IsMember, LinksFor
    <3>3. \A q \in Slots \ {r} : job'[q].op = "none"
      BY <1>0, <1>3, <2>0, <2>2, BeginsUndisturbed
    <3> QED BY <1>0, <1>3, <2>2, <3>1, <3>2, <3>3, BeginsUndisturbed
            DEF Undisturbed
  <2> QED BY <2>1, <2>2
<1>4. ASSUME NEW r \in Slots, Proceed(r), ~Finish(r) PROVE Undisturbed'
  <2>1. /\ UNCHANGED <<user, invited>> /\ SameTask(job'[r], job[r])
        /\ \A q \in Slots \ {r} : job'[q] = job[q] /\ pc'[q] = pc[q]
        /\ pc'[r] = "update" => IsMember(job[r].subject)
    BY <1>0, <1>4, Goes
  <2> QED BY <2>1 DEF Undisturbed, SameTask, IsMember, LinksFor
<1>5. ASSUME NEW r \in Slots, DeadlockAbort(r) \/ Fail(r) PROVE Undisturbed'
  BY <1>2, <1>5, OthersIdle DEF DeadlockAbort, Fail
<1>6. ASSUME NEW r \in Slots, Proceed(r), Finish(r) PROVE Undisturbed'
  BY <1>2, <1>6, OthersIdle
<1> QED BY <1>1, <1>3, <1>4, <1>5, <1>6 DEF Next

(* Nobody is stale on an OWNER then: the last one stays while the          *)
(* workspace does.                                                         *)
LEMMA OwnerKept ==
  ASSUME IInv, Current, Undisturbed, NoGrant, [Next]_vars, HasOwner,
         workspace' = "live"
  PROVE  HasOwner'
<1> SUFFICES ASSUME ~HasOwner' PROVE FALSE
  OBVIOUS
<1>1. PICK r \in Slots :
        \/ pc[r] = "update"
        \/ /\ job[r].op \in {"change", "remove"}
           /\ pc[r] = "lock" /\ StaleOnOwner(r)
  BY OwnerLostStep
<1>2. Knows(pc[r], job[r], view[r], todo[r])
  BY DEF IInv, Stages, Stage
<1>3. pc[r] # "update"
  BY <1>2 DEF Knows, NoGrant, Undisturbed
<1>4. /\ view[r][job[r].self] = role[job[r].self]
      /\ view[r][job[r].target] = role[job[r].target]
  BY <1>1, <1>2, <1>3 DEF Knows, Current
<1> QED BY <1>1, <1>3, <1>4 DEF StaleOnOwner

(* A row that is new was inserted: for the founder, for an OWNER, or on    *)
(* behalf of a member.                                                     *)
LEMMA NewRow ==
  ASSUME TypeOK, [Next]_vars, NEW i \in Ids, role[i] = None, role'[i] # None
  PROVE  \E r \in Slots :
           \/ CreateWorkspace(r)
           \/ /\ InsertMembership(r) /\ role'[i] = job[r].role
              /\ workspace = "live"
           \/ UpdateGranted(r)
           \/ ChangeRole(r) /\ job[r].target = i /\ lockedBy[i] = r
<1>1. role' # role
  OBVIOUS
<1>2. PICK r \in Slots : Arrive(r) \/ Proceed(r)
  BY <1>1 DEF Next, vars, table, DeadlockAbort, Fail
<1>3. CASE Arrive(r)
  BY <1>1, <1>3, BeginsCurrent
<1>4. CASE InsertMembership(r)
  <2>1. PICK k \in Ids : /\ role' = [role EXCEPT ![k] = job[r].role]
                         /\ workspace = "live"
    BY <1>1, <1>4 DEF InsertMembership
  <2> QED BY <1>4, <2>1 DEF TypeOK
<1>5. CASE ChangeRole(r)
  BY <1>5 DEF ChangeRole, TypeOK
<1>6. ~DeleteMember(r) /\ ~DropWorkspace(r)
  BY DEF DeleteMember, DropWorkspace, TypeOK
<1>7. ~(ReadTarget(r) \/ CheckExisting(r) \/ GrantMembership(r) \/ Invite(r)
        \/ LockMemberships(r) \/ LockWorkspace(r) \/ LockRow(r))
  BY <1>1 DEF ReadTarget, CheckExisting, GrantMembership, Invite,
              LockMemberships, LockWorkspace, LockRow, table
<1> QED BY <1>2, <1>3, <1>4, <1>5, <1>6, <1>7 DEF Proceed

(* Members, and those who may become members by a link, have an OWNER.     *)
Owned == MembersHaveOwner /\ (invited # {} => HasOwner)

(* Members never are without an OWNER.                                     *)
LEMMA OwnerStep ==
  ASSUME IInv, IInv', Admitted, Current, Undisturbed, NoGrant, Owned,
         [Next]_vars
  PROVE  MembersHaveOwner'
<1>0. TypeOK
  BY DEF IInv
<1> SUFFICES ASSUME NEW i \in Ids, role'[i] # None PROVE HasOwner'
  BY DEF MembersHaveOwner, Exists
<1>1. workspace' = "live"
  BY DEF IInv, WorkspaceThere, Exists
<1>2. CASE HasOwner
  BY <1>1, <1>2, OwnerKept
<1>3. CASE ~HasOwner
  <2>1. (\A k \in Ids : role[k] = None) /\ invited = {}
    BY <1>3 DEF Owned, MembersHaveOwner, Exists
  <2>2. PICK r \in Slots :
          \/ CreateWorkspace(r)
          \/ /\ InsertMembership(r) /\ role'[i] = job[r].role
             /\ workspace = "live"
          \/ UpdateGranted(r)
          \/ ChangeRole(r) /\ job[r].target = i /\ lockedBy[i] = r
    BY <1>0, <2>1, NewRow
  <2>3. Knows(pc[r], job[r], view[r], todo[r])
    BY DEF IInv, Stages, Stage
  <2>4. CASE CreateWorkspace(r)
    BY <1>0, <2>4 DEF CreateWorkspace, TypeOK, HasOwner
  <2>5. CASE InsertMembership(r) /\ role'[i] = job[r].role
    <3>1. job[r].op \in {"add", "local", "accept", "adopt"}
      BY <2>3, <2>5 DEF InsertMembership, Knows, NoGrant
    <3>2. job[r].op \notin {"add", "local"}
      <4> SUFFICES ASSUME job[r].op \in {"add", "local"} PROVE FALSE
        OBVIOUS
      <4>1. job[r].self \in Ids /\ view[r][job[r].self] \in Managers
        BY DEF Admitted, Admits
      <4> QED BY <2>1, <4>1, NoneAssumption DEF Current, Managers, Roles
    <3>3. job[r].op # "accept"
      BY <2>1 DEF Undisturbed
    <3> QED BY <2>5, <3>1, <3>2, <3>3 DEF Admitted, Admits, HasOwner
  <2>6. ~UpdateGranted(r)
    BY <2>3 DEF UpdateGranted, Knows, NoGrant, Undisturbed
  <2>7. ~(ChangeRole(r) /\ lockedBy[i] = r)
    BY <2>1, NoneAssumption DEF IInv, LocksHeld, Exists
  <2> QED BY <2>2, <2>4, <2>5, <2>6, <2>7
<1> QED BY <1>2, <1>3

(* Nor are those who hold a link: a manager made it, and the end of the    *)
(* workspace is the end of its links.                                      *)
LEMMA LinksStep ==
  ASSUME IInv, Admitted, Current, Undisturbed, NoGrant, Owned, [Next]_vars,
         invited' # {}
  PROVE  HasOwner'
<1>0. TypeOK
  BY DEF IInv
<1>1. CASE UNCHANGED vars
  BY <1>1 DEF vars, table, Owned, HasOwner
<1> SUFFICES ASSUME NEW r \in Slots,
                    Arrive(r) \/ Proceed(r) \/ DeadlockAbort(r) \/ Fail(r)
             PROVE  HasOwner'
  BY <1>1 DEF Next
<1>2. HasOwner
  <2> SUFFICES ASSUME ~HasOwner PROVE FALSE
    OBVIOUS
  <2>1. invited = {} /\ \A i \in Ids : role[i] = None
    BY DEF Owned, MembersHaveOwner, Exists
  <2>2. ~Arrive(r)
    BY <1>0, <2>1, BeginsCurrent DEF CreateWorkspace
  <2>3. Invite(r)
    BY <2>1, <2>2
       DEF Proceed, DeadlockAbort, Fail, ReadTarget, CheckExisting,
           GrantMembership, InsertMembership, UpdateGranted, LockMemberships,
           LockWorkspace, LockRow, ChangeRole, DeleteMember, DropWorkspace,
           table, vars
  <2>4. Knows("invite", job[r], view[r], todo[r])
    BY <2>3 DEF IInv, Stages, Stage, Invite
  <2>5. job[r].self \in Ids /\ view[r][job[r].self] \in Managers
    BY <2>4 DEF Knows, Admitted, Admits
  <2> QED BY <2>1, <2>5, NoneAssumption DEF Current, Managers, Roles
<1>3. workspace = "live"
  BY <1>2, NoneAssumption DEF HasOwner, IInv, WorkspaceThere, Exists, Roles
<1>4. ~DropWorkspace(r)
  BY DEF DropWorkspace
<1>5. workspace' = "live"
  <2>1. CASE Arrive(r)
    BY <1>0, <1>3, <2>1, BeginsCurrent DEF CreateWorkspace
  <2>2. CASE ~Arrive(r)
    BY <1>3, <1>4, <2>2
       DEF Proceed, DeadlockAbort, Fail, ReadTarget, CheckExisting, Invite,
           GrantMembership, InsertMembership, UpdateGranted, LockMemberships,
           LockWorkspace, LockRow, ChangeRole, DeleteMember, table, vars
  <2> QED BY <2>1, <2>2
<1> QED BY <1>2, <1>5, OwnerKept

(* Requests that do not overlap, and an operator who grants no roles, keep *)
(* an OWNER in every workspace that has members.                           *)
THEOREM LastOwnerStays ==
  Spec /\ []OneAtATime /\ []NoGrant => []MembersHaveOwner
<1>1. Init => Current /\ Undisturbed /\ Owned
  BY DEF Init, Current, Undisturbed, Owned, MembersHaveOwner, Exists, NoView,
         NoJob
<1>2. /\ IInv /\ IInv' /\ Admitted /\ OneAtATime /\ OneAtATime' /\ NoGrant
      /\ Current /\ Undisturbed /\ Owned /\ [Next]_vars
      => Current' /\ Undisturbed' /\ Owned'
  BY CurrentStep, UndisturbedStep, OwnerStep, LinksStep DEF Owned
<1>3. Owned => MembersHaveOwner
  BY DEF Owned
<1> QED BY <1>1, <1>2, <1>3, Invariant, Admission, PTL DEF Spec

-----------------------------------------------------------------------------
(* The refinement: what WorkspaceRoles sees of a state.                    *)

(* A member's role is the one of the one row, whoever has no row has none. *)
RolesMatchRows ==
  /\ RoleOf \in [Users -> Roles \cup {None}]
  /\ \A i \in Ids :
       role[i] # None => user[i] \in Users /\ RoleOf[user[i]] = role[i]
  /\ \A u \in Users :
       RoleOf[u] # None => \E i \in Ids : user[i] = u /\ role[i] = RoleOf[u]

(* That follows from the uniqueness of memberships.                        *)
LEMMA RolesOfRows == TypeOK /\ OneMembershipEach => RolesMatchRows
<1> SUFFICES ASSUME TypeOK, OneMembershipEach PROVE RolesMatchRows
  OBVIOUS
<1>1. ASSUME NEW u \in Users, NEW i \in Ids, user[i] = u
      PROVE  RoleOf[u] = role[i]
  <2>1. (CHOOSE k \in Ids : user[k] = u) = i
    BY <1>1, NoneAssumption DEF OneMembershipEach
  <2> QED BY <1>1, <2>1 DEF RoleOf, IsMember
<1>2. ASSUME NEW u \in Users, \A i \in Ids : user[i] # u
      PROVE  RoleOf[u] = None
  BY <1>2 DEF RoleOf, IsMember
<1>3. \A i \in Ids : role[i] # None => user[i] \in Users
  BY DEF OneMembershipEach, Exists, TypeOK
<1>4. \A u \in Users : RoleOf[u] \in Roles \cup {None}
  BY <1>1, <1>2 DEF TypeOK
<1>5. RoleOf \in [Users -> Roles \cup {None}]
  BY <1>4 DEF RoleOf
<1> QED BY <1>1, <1>2, <1>3, <1>5 DEF RolesMatchRows

(* Who asks is the caller of the one handler.                              *)
RequesterMatches ==
  /\ (\A q \in Slots : pc[q] = "idle") => Requester = None
  /\ \A r \in Slots :
       OneAtATime /\ pc[r] # "idle" =>
         Requester = IF job[r].self = None THEN None ELSE user[job[r].self]

(* That is so in any state.                                                *)
LEMMA RequesterIs == RequesterMatches
<1>1. ASSUME \A q \in Slots : pc[q] = "idle" PROVE Requester = None
  BY <1>1 DEF Requester
<1>2. ASSUME NEW r \in Slots, OneAtATime, pc[r] # "idle"
      PROVE  Requester = IF job[r].self = None THEN None
                         ELSE user[job[r].self]
  <2>1. {q \in Slots : pc[q] # "idle"} = {r}
    BY <1>2 DEF OneAtATime
  <2>2. (CHOOSE q \in {r} : TRUE) = r
    OBVIOUS
  <2> QED BY <2>1, <2>2 DEF Requester
<1> QED BY <1>1, <1>2 DEF RequesterMatches

(* A commit that leaves all rows but t as they are, and t's user, changes  *)
(* the role of that user.                                                  *)
LEMMA OneRoleChanges ==
  ASSUME TypeOK, OneMembershipEach, TypeOK', OneMembershipEach',
         NEW t \in Ids, NEW u \in Users,
         \A i \in Ids \ {t} : user'[i] = user[i] /\ role'[i] = role[i],
         user[t] = u \/ (user[t] = None /\ ~IsMember(u)),
         user'[t] \in {u, None}
  PROVE  RoleOf' = [RoleOf EXCEPT ![u] = role'[t]]
<1>1. RolesMatchRows
  BY RolesOfRows
<1>2. RolesMatchRows'
  BY RolesOfRows, PTL
<1> USE DEF RolesMatchRows
<1>3. ASSUME NEW w \in Users \ {u} PROVE RoleOf'[w] = RoleOf[w]
  <2>1. CASE RoleOf[w] # None
    <3>1. PICK i \in Ids : user[i] = w /\ role[i] = RoleOf[w]
      BY <1>1, <2>1
    <3>2. i # t
      BY <1>3, <3>1, NoneAssumption
    <3> QED BY <1>2, <2>1, <3>1, <3>2
  <2>2. CASE RoleOf'[w] # None
    <3>1. PICK i \in Ids : user'[i] = w /\ role'[i] = RoleOf'[w]
      BY <1>2, <2>2
    <3>2. i # t
      BY <1>3, <3>1, NoneAssumption
    <3> QED BY <1>1, <2>2, <3>1, <3>2
  <2> QED BY <2>1, <2>2
<1>4. RoleOf'[u] = role'[t]
  <2>1. CASE role'[t] # None
    BY <1>2, <2>1 DEF OneMembershipEach, Exists
  <2>2. CASE role'[t] = None /\ RoleOf'[u] # None
    <3>1. PICK i \in Ids : user'[i] = u /\ role'[i] = RoleOf'[u]
      BY <1>2, <2>2
    <3>2. i # t /\ user[i] = u
      BY <2>2, <3>1
    <3> QED BY <3>2, NoneAssumption DEF OneMembershipEach, IsMember
  <2> QED BY <2>1, <2>2
<1> QED BY <1>1, <1>2, <1>3, <1>4

-----------------------------------------------------------------------------
(* The refinement, step by step.                                           *)

(* The two modules share one authorization table.                          *)
LEMMA SameTable ==
  /\ \A x, c : Promise!HasCapability(x, c) <=> HasCapability(x, c)
  /\ \A x, S : Promise!AuthorizeMemberRoleChange(x, S)
                 <=> AuthorizeMemberRoleChange(x, S)
  /\ Promise!Roles = Roles
BY DEF Promise!HasCapability, HasCapability, Promise!CapabilitiesOf,
       CapabilitiesOf, Promise!Capabilities, Capabilities, Promise!Roles, Roles,
       Promise!AuthorizeMemberRoleChange, AuthorizeMemberRoleChange

(* What is known of every state of handlers that do not overlap.           *)
SInv ==
  /\ IInv /\ Admitted /\ Current /\ Undisturbed /\ MembersHaveOwner
  /\ OneAtATime /\ NoCommand

(* It implies that members have their rows' roles.                         *)
LEMMA SInvRoles == SInv => RolesMatchRows
BY RolesOfRows DEF SInv, IInv

(* The initial states are initial states of the promise.                   *)
LEMMA PromiseInit == Init => Promise!Init
<1> SUFFICES ASSUME Init PROVE Promise!Init
  OBVIOUS
<1>1. RoleOf = [u \in Users |-> None]
  BY NoneAssumption DEF Init, RoleOf, IsMember
<1>2. Requester = None
  BY RequesterIs DEF Init, RequesterMatches
<1> QED BY <1>1, <1>2 DEF Init, Promise!Init

(* A step that does not write the table leaves all roles alone.            *)
LEMMA RolesStay ==
  ASSUME UNCHANGED <<user, role>>
  PROVE  UNCHANGED RoleOf
BY DEF RoleOf, IsMember

(* A handler that begins is a member's request.                            *)
LEMMA PromiseAsk ==
  ASSUME SInv, SInv', NEW r \in Slots, NEW at, at # "idle", NEW j,
         NEW self \in Ids, j.self = self, role[self] # None,
         pc[r] = "idle", NEW seen, Begin(r, at, j, seen),
         \A q \in Slots \ {r} : pc[q] = "idle"
  PROVE  Promise!Next
<1>1. /\ pc'[r] = at /\ job'[r] = j
      /\ UNCHANGED <<workspace, user, role, invited>>
  BY DEF Begin, SInv, IInv, TypeOK, table
<1>2. Requester = None
  BY RequesterIs DEF RequesterMatches
<1>3. RequesterMatches'
  BY RequesterIs, PTL
<1>4. Requester' = user[self]
  BY <1>1, <1>3, NoneAssumption DEF RequesterMatches, SInv
<1>5. user[self] \in Users /\ RoleOf[user[self]] # None
  BY SInvRoles DEF RolesMatchRows
<1>6. Promise!Ask(user[self])
  BY <1>1, <1>2, <1>4, <1>5, RolesStay DEF Promise!Ask, Promise!Members
<1> QED BY <1>5, <1>6 DEF Promise!Next

(* A handler that ends with the table as it was declines.                  *)
LEMMA PromiseDecline ==
  ASSUME SInv, NEW r \in Slots, Finish(r), UNCHANGED table,
         \A q \in Slots \ {r} : pc[q] = "idle"
  PROVE  Promise!Next
<1>1. \A q \in Slots : pc'[q] = "idle"
  BY OthersKept DEF SInv, IInv
<1>2. RequesterMatches'
  BY RequesterIs, PTL
<1>3. Requester' = None
  BY <1>1, <1>2 DEF RequesterMatches
<1>4. Promise!Decline
  BY <1>3, RolesStay DEF Promise!Decline, table
<1> QED BY <1>4 DEF Promise!Next

(* Every beginning of a handler is a step of the promise.                  *)
LEMMA PromiseArrive ==
  ASSUME SInv, SInv', NEW r \in Slots, Arrive(r)
  PROVE  Promise!Next
<1>0. /\ TypeOK /\ IInv /\ Admitted /\ Current
      /\ OneAtATime /\ OneAtATime' /\ NoCommand'
  BY DEF SInv, IInv
<1>1. \A q \in Slots \ {r} : pc[q] = "idle"
  BY <1>0, OthersIdle
<1>2. ASSUME NEW i \in Ids, NEW c, Authorized(r, i, c)
      PROVE  role[i] # None /\ pc[r] = "idle"
  BY <1>2 DEF Authorized, Exists
<1>3. CASE UpdateMember(r)
  <2>1. PICK self \in Ids, target \in Ids, asked \in Asked :
          /\ Authorized(r, self, "manage_members")
          /\ Begin(r, "target",
             [NoJob EXCEPT !.op = "change", !.self = self, !.target = target,
                           !.role = asked],
             Loaded(self))
    BY <1>3 DEF UpdateMember
  <2>2. [NoJob EXCEPT !.op = "change", !.self = self, !.target = target,
                      !.role = asked].self = self
    BY DEF NoJob
  <2> QED BY <1>1, <1>2, <2>1, <2>2, PromiseAsk
<1>4. CASE RemoveMember(r)
  <2>1. PICK self \in Ids, target \in Ids :
          /\ Authorized(r, self, "manage_members")
          /\ Begin(r, "target",
             [NoJob EXCEPT !.op = "remove", !.self = self, !.target = target],
             Loaded(self))
    BY <1>4 DEF RemoveMember
  <2>2. [NoJob EXCEPT !.op = "remove", !.self = self, !.target = target].self
          = self
    BY DEF NoJob
  <2> QED BY <1>1, <1>2, <2>1, <2>2, PromiseAsk
<1>5. CASE AddMember(r)
  <2>1. PICK self \in Ids, subject \in Users, asked \in Asked :
          /\ Authorized(r, self, "manage_members")
          /\ Begin(r, "check",
             [NoJob EXCEPT !.op = "add", !.self = self, !.subject = subject,
                           !.role = asked],
             Loaded(self))
    BY <1>5 DEF AddMember
  <2>2. [NoJob EXCEPT !.op = "add", !.self = self, !.subject = subject,
                      !.role = asked].self = self
    BY DEF NoJob
  <2> QED BY <1>1, <1>2, <2>1, <2>2, PromiseAsk
<1>6. CASE DeleteWorkspace(r)
  <2>1. PICK self \in Ids :
          /\ Authorized(r, self, "manage_workspace")
          /\ Begin(r, "select", [NoJob EXCEPT !.op = "delete", !.self = self],
                   Loaded(self))
    BY <1>6 DEF DeleteWorkspace
  <2>2. [NoJob EXCEPT !.op = "delete", !.self = self].self = self
    BY DEF NoJob
  <2> QED BY <1>1, <1>2, <2>1, <2>2, PromiseAsk
<1>7. ASSUME NEW at, NEW j, NEW seen, Begin(r, at, j, seen)
      PROVE  j.op \notin {"grant", "adopt"}
  <2>1. job'[r] = j
    BY <1>0, <1>7 DEF Begin, TypeOK
  <2> QED BY <1>0, <2>1 DEF NoCommand
<1>8. ~GrantCommand(r) /\ ~AdoptOrphans(r)
  <2> DEFINE grant(u, x) ==
               [NoJob EXCEPT !.op = "grant", !.subject = u, !.role = x]
             adopt(u) ==
               [NoJob EXCEPT !.op = "adopt", !.subject = u, !.role = "OWNER"]
  <2>1. \A u, x : grant(u, x).op = "grant" /\ adopt(u).op = "adopt"
    BY DEF NoJob
  <2>2. GrantCommand(r) =>
          \E u \in Users, x \in Asked : Begin(r, "grant", grant(u, x), NoView)
    BY DEF GrantCommand
  <2>3. AdoptOrphans(r) => \E u \in Users : Begin(r, "insert", adopt(u), NoView)
    BY DEF AdoptOrphans
  <2> HIDE DEF grant, adopt
  <2> QED BY <1>7, <2>1, <2>2, <2>3
<1>9. CASE CreateWorkspace(r)
  <2>1. PICK u \in Users, i \in Ids :
          /\ pc[r] = "idle" /\ workspace = "absent" /\ workspace' = "live"
          /\ user' = [user EXCEPT ![i] = u]
          /\ role' = [role EXCEPT ![i] = "OWNER"]
          /\ UNCHANGED <<pc, job, invited>>
    BY <1>9 DEF CreateWorkspace, session
  <2>2. \A k \in Ids : role[k] = None /\ user[k] = None
    BY <1>0, <2>1 DEF IInv, WorkspaceThere, OneMembershipEach, Exists
  <2>3. RoleOf' = [RoleOf EXCEPT ![u] = role'[i]]
    <3>1. ~IsMember(u)
      BY <2>2, NoneAssumption DEF IsMember
    <3>2. \A k \in Ids \ {i} : user'[k] = user[k] /\ role'[k] = role[k]
      BY <1>0, <2>1 DEF TypeOK
    <3>3. user'[i] = u
      BY <1>0, <2>1 DEF TypeOK
    <3>4. TypeOK' /\ OneMembershipEach /\ OneMembershipEach'
      BY DEF SInv, IInv
    <3> QED BY <1>0, <2>2, <3>1, <3>2, <3>3, <3>4, OneRoleChanges
  <2>4. role'[i] = "OWNER"
    BY <1>0, <2>1 DEF TypeOK
  <2>5. Requester = None /\ Requester' = None
    <3>1. RequesterMatches'
      BY RequesterIs, PTL
    <3> QED BY <1>1, <2>1, <3>1, RequesterIs DEF RequesterMatches
  <2>6. Promise!Found(u)
    BY <2>1, <2>3, <2>4, <2>5 DEF Promise!Found
  <2> QED BY <2>6 DEF Promise!Next
<1>10. CASE CreateLocalUser(r)
  <2>1. PICK self \in Ids, subject \in Users, asked \in Asked :
          /\ Authorized(r, self, "manage_members")
          /\ Begin(r, "grant",
             [NoJob EXCEPT !.op = "local", !.self = self, !.subject = subject,
                           !.role = asked],
             Loaded(self))
    BY <1>10 DEF CreateLocalUser
  <2>2. [NoJob EXCEPT !.op = "local", !.self = self, !.subject = subject,
                      !.role = asked].self = self
    BY DEF NoJob
  <2> QED BY <1>1, <1>2, <2>1, <2>2, PromiseAsk
<1>11. CASE CreateInvitation(r)
  <2>1. PICK self \in Ids, subject \in Invitees, asked \in Asked :
          /\ Authorized(r, self, "manage_members")
          /\ Begin(r, "invite",
             [NoJob EXCEPT !.op = "invite", !.self = self,
                           !.subject = subject, !.role = asked,
                           !.links = LinksFor(subject)],
             Loaded(self))
    BY <1>11 DEF CreateInvitation
  <2>2. [NoJob EXCEPT !.op = "invite", !.self = self, !.subject = subject,
                      !.role = asked, !.links = LinksFor(subject)].self = self
    BY DEF NoJob
  <2> QED BY <1>1, <1>2, <2>1, <2>2, PromiseAsk
<1>12. CASE AcceptInvitation(r)
  <2>1. PICK link \in invited :
          Begin(r, "check",
                [NoJob EXCEPT !.op = "accept", !.subject = link[1],
                              !.role = link[2]], NoView)
    BY <1>12 DEF AcceptInvitation
  <2>2. [NoJob EXCEPT !.op = "accept", !.subject = link[1],
                      !.role = link[2]].self = None
    BY DEF NoJob
  <2>3. /\ pc'[r] # "idle" /\ job'[r].self = None
        /\ UNCHANGED <<workspace, user, role, invited>>
    BY <1>0, <2>1, <2>2 DEF Begin, TypeOK, table
  <2>4. RequesterMatches'
    BY RequesterIs, PTL
  <2>5. Requester' = None
    BY <1>0, <2>3, <2>4 DEF RequesterMatches
  <2>6. Promise!Decline
    BY <2>3, <2>5, RolesStay DEF Promise!Decline
  <2> QED BY <2>6 DEF Promise!Next
<1> QED
  BY <1>3, <1>4, <1>5, <1>6, <1>8, <1>9, <1>10, <1>11, <1>12 DEF Arrive

(* The caller of the handler under way is a member and still the manager   *)
(* that it was admitted as.                                                *)
LEMMA Caller ==
  ASSUME SInv, NEW r \in Slots, pc[r] # "idle", job[r].op # "accept"
  PROVE  /\ job[r].op \in
              {"change", "remove", "add", "local", "invite", "delete"}
         /\ job[r].self \in Ids
         /\ view[r][job[r].self] = role[job[r].self]
         /\ role[job[r].self] \in Managers
         /\ job[r].op = "delete" => role[job[r].self] = "OWNER"
         /\ user[job[r].self] \in Users
         /\ RoleOf[user[job[r].self]] = role[job[r].self]
         /\ Requester = user[job[r].self]
         /\ HasOwner /\ workspace = "live"
<1>1. Knows(pc[r], job[r], view[r], todo[r]) /\ TypeOK
  BY DEF SInv, IInv, Stages, Stage
<1>2. job[r].op \in {"change", "remove", "add", "local", "invite", "delete"}
  BY <1>1 DEF Knows, TypeOK, Jobs, Ops, SInv, NoCommand
<1>3. /\ job[r].self \in Ids /\ view[r][job[r].self] \in Managers
      /\ job[r].op = "delete" => view[r][job[r].self] = "OWNER"
  BY <1>1, <1>2 DEF Knows, SInv, Admitted, Admits, Managers
<1>4. view[r][job[r].self] # None
  BY <1>3, NoneAssumption DEF Managers, Roles
<1>5. view[r][job[r].self] = role[job[r].self]
  BY <1>3, <1>4 DEF SInv, Current
<1>6. user[job[r].self] \in Users /\ RoleOf[user[job[r].self]] = role[job[r].self]
  BY <1>3, <1>4, <1>5, SInvRoles DEF RolesMatchRows
<1>7. Requester = user[job[r].self]
  BY <1>3, NoneAssumption, RequesterIs DEF RequesterMatches, SInv
<1>8. Exists(job[r].self)
  BY <1>4, <1>5 DEF Exists
<1>9. HasOwner /\ workspace = "live"
  BY <1>3, <1>8 DEF SInv, MembersHaveOwner, IInv, WorkspaceThere
<1> QED BY <1>2, <1>3, <1>5, <1>6, <1>7, <1>9

(* A statement that reads or locks is no step of the promise.              *)
LEMMA PromiseReads ==
  ASSUME SInv, SInv', NEW r \in Slots, Proceed(r), ~Finish(r)
  PROVE  UNCHANGED Promise!vars
<1>1. /\ pc[r] # "idle" /\ pc'[r] # "idle" /\ job'[r].self = job[r].self
      /\ UNCHANGED <<workspace, user, role, invited>>
  BY Goes DEF SInv, IInv, SameTask
<1>2. RequesterMatches'
  BY RequesterIs, PTL
<1>3. Requester' = Requester
  BY <1>1, <1>2, RequesterIs DEF RequesterMatches, SInv
<1> QED BY <1>1, <1>3, RolesStay DEF Promise!vars

(* Once the one handler has ended there is no requester.                   *)
LEMMA RequesterGone ==
  ASSUME SInv, NEW r \in Slots, Finish(r), \A q \in Slots \ {r} : pc[q] = "idle"
  PROVE  Requester' = None
<1>1. \A q \in Slots : pc'[q] = "idle"
  BY OthersKept DEF SInv, IInv
<1>2. RequesterMatches'
  BY RequesterIs, PTL
<1> QED BY <1>1, <1>2 DEF RequesterMatches

(* A commit that gives user u, whose row is t, the role the row has then   *)
(* is a change the caller may make, if the boundary allows it.             *)
LEMMA PromiseManage ==
  ASSUME SInv, SInv', [Next]_vars, NEW r \in Slots, pc[r] # "idle", Finish(r),
         job[r].op # "accept", UNCHANGED <<workspace, invited>>,
         \A q \in Slots \ {r} : pc[q] = "idle",
         NEW t \in Ids, NEW u \in Users,
         \A i \in Ids \ {t} : user'[i] = user[i] /\ role'[i] = role[i],
         user[t] = u \/ (user[t] = None /\ ~IsMember(u)),
         user'[t] \in {u, None},
         AuthorizeMemberRoleChange(role[job[r].self], {role[t], role'[t]})
  PROVE  Promise!Next
<1>1. RoleOf' = [RoleOf EXCEPT ![u] = role'[t]]
  BY OneRoleChanges DEF SInv, IInv
<1>2. Requester' = None
  BY RequesterGone
<1>3. RoleOf[u] = role[t]
  <2>1. CASE user[t] = u
    <3>1. role[t] # None
      BY <2>1, NoneAssumption DEF SInv, IInv, OneMembershipEach, Exists
    <3> QED BY <2>1, <3>1, SInvRoles DEF RolesMatchRows
  <2>2. CASE user[t] = None /\ ~IsMember(u)
    BY <2>2 DEF RoleOf, SInv, IInv, OneMembershipEach, Exists
  <2> QED BY <2>1, <2>2
<1>4. Promise!Owners' # {}
  <2>1. NoGrant
    BY DEF SInv, NoCommand, NoGrant
  <2>2. HasOwner'
    BY <2>1, Caller, OwnerKept DEF SInv
  <2>3. PICK i \in Ids : role'[i] = "OWNER"
    BY <2>2 DEF HasOwner
  <2>4. RolesMatchRows'
    BY SInvRoles, PTL
  <2>5. user'[i] \in Users /\ RoleOf'[user'[i]] = "OWNER"
    BY <2>3, <2>4, NoneAssumption DEF RolesMatchRows, Roles
  <2> QED BY <2>5 DEF Promise!Owners
<1>5. Requester \in Promise!Members
  BY Caller, NoneAssumption DEF Promise!Members, Managers, Roles
<1>6. Promise!HasCapability(RoleOf[Requester], "manage_members")
  BY Caller, SameTable, ManagersManage, NoneAssumption DEF Managers, Roles
<1>7. Promise!AuthorizeMemberRoleChange(RoleOf[Requester],
                                        {RoleOf[u], role'[t]})
  BY <1>3, Caller, SameTable
<1>8. role'[t] \in Promise!Roles \cup {None}
  BY SameTable DEF SInv, IInv, TypeOK
<1>9. Promise!Manage(u, role'[t])
  BY <1>1, <1>2, <1>4, <1>5, <1>6, <1>7 DEF Promise!Manage
<1> QED BY <1>8, <1>9 DEF Promise!Next

(* Those who take up a link for the role x have it, if they had none.      *)
LEMMA PromiseAccept ==
  ASSUME SInv, SInv', NEW r \in Slots, pc[r] # "idle", Finish(r),
         \A q \in Slots \ {r} : pc[q] = "idle",
         job[r].op = "accept", invited' = invited \ LinkOf(job[r]),
         UNCHANGED workspace,
         RoleOf' = [RoleOf EXCEPT ![job[r].subject] =
                      IF @ = None THEN job[r].role ELSE @]
  PROVE  Promise!Next
<1>1. <<job[r].subject, job[r].role>> \in invited
  BY DEF SInv, Undisturbed
<1>2. job[r].subject \in Users /\ job[r].role \in Promise!Roles
  BY <1>1, SameTable DEF SInv, IInv, TypeOK, Links
<1>3. Requester = None
  BY RequesterIs DEF RequesterMatches, SInv, Admitted, Admits
<1>4. Promise!Accept(job[r].subject, job[r].role)
  BY <1>1, <1>3, RequesterGone DEF Promise!Accept, LinkOf
<1> QED BY <1>2, <1>4 DEF Promise!Next

(* The commits.                                                            *)
LEMMA PromiseInsert ==
  ASSUME SInv, SInv', [Next]_vars, NEW r \in Slots, InsertMembership(r),
         \A q \in Slots \ {r} : pc[q] = "idle"
  PROVE  Promise!Next
<1>0. TypeOK /\ pc[r] # "idle" /\ Finish(r) /\ UNCHANGED workspace
  BY DEF InsertMembership, SInv, IInv
<1>1. CASE UNCHANGED <<user, role, invited>>
  BY <1>0, <1>1, PromiseDecline DEF table
<1>2. CASE ~UNCHANGED <<user, role, invited>>
  <2>1. /\ ~IsMember(job[r].subject) /\ pc[r] = "insert"
        /\ invited' = invited \ LinkOf(job[r])
        /\ \E i \in Ids :
             /\ ~Exists(i)
             /\ user' = [user EXCEPT ![i] = job[r].subject]
             /\ role' = [role EXCEPT ![i] = job[r].role]
    BY <1>2 DEF InsertMembership, Fresh
  <2>2. PICK i \in Ids : /\ ~Exists(i)
                         /\ user' = [user EXCEPT ![i] = job[r].subject]
                         /\ role' = [role EXCEPT ![i] = job[r].role]
    BY <2>1
  <2>3. Knows("insert", job[r], view[r], todo[r])
    BY <2>1 DEF SInv, IInv, Stages, Stage
  <2>4. /\ job[r].op \in {"add", "local", "accept"} /\ job[r].subject \in Users
        /\ job[r].op # "accept" =>
             AuthorizeMemberRoleChange(view[r][job[r].self], {job[r].role})
    BY <1>0, <2>3 DEF Knows, SInv, NoCommand, TypeOK, Jobs
  <2>5. /\ \A k \in Ids \ {i} : user'[k] = user[k] /\ role'[k] = role[k]
        /\ user'[i] = job[r].subject /\ role'[i] = job[r].role
        /\ role[i] = None /\ user[i] = None
    BY <1>0, <2>2 DEF TypeOK, Exists, SInv, IInv, OneMembershipEach
  <2>6. CASE job[r].op # "accept"
    <3>1. AuthorizeMemberRoleChange(role[job[r].self], {role[i], role'[i]})
      BY <1>0, <2>4, <2>5, <2>6, Caller, NoneAssumption
         DEF AuthorizeMemberRoleChange, Roles
    <3>2. UNCHANGED invited
      BY <2>1, <2>6 DEF LinkOf
    <3> QED BY <1>0, <2>1, <2>4, <2>5, <2>6, <3>1, <3>2, PromiseManage
  <2>7. CASE job[r].op = "accept"
    <3>1. RoleOf' = [RoleOf EXCEPT ![job[r].subject] = role'[i]]
      BY <2>1, <2>4, <2>5, OneRoleChanges DEF SInv, IInv
    <3>2. RoleOf[job[r].subject] = None
      BY <2>1, <2>4 DEF RoleOf
    <3>3. RoleOf' = [RoleOf EXCEPT ![job[r].subject] =
                       IF @ = None THEN job[r].role ELSE @]
      BY <2>5, <3>1, <3>2
    <3> QED BY <1>0, <2>1, <2>7, <3>3, PromiseAccept
  <2> QED BY <2>6, <2>7
<1> QED BY <1>1, <1>2

(* A member who accepts uses up the link, and a member who is added is     *)
(* not: both keep their roles.                                             *)
LEMMA PromiseCheckExisting ==
  ASSUME SInv, SInv', NEW r \in Slots, CheckExisting(r), Finish(r),
         \A q \in Slots \ {r} : pc[q] = "idle"
  PROVE  Promise!Next
<1>0. TypeOK /\ pc'[r] = "idle"
  BY OthersKept DEF SInv, IInv
<1>1. /\ pc[r] = "check" /\ UNCHANGED <<workspace, user, role>>
      /\ IsMember(job[r].subject) /\ invited' = invited \ LinkOf(job[r])
  BY <1>0 DEF CheckExisting, TypeOK
<1>2. CASE job[r].op # "accept"
  BY <1>1, <1>2, PromiseDecline DEF LinkOf, table
<1>3. CASE job[r].op = "accept"
  <2>1. PICK i \in Ids : user[i] = job[r].subject
    BY <1>1 DEF IsMember
  <2>2. job[r].subject # None
    BY <1>1 DEF SInv, IInv, Stages, Stage, Knows
  <2>3. RoleOf[job[r].subject] # None
    BY <2>1, <2>2, SInvRoles DEF SInv, IInv, OneMembershipEach, Exists,
       RolesMatchRows
  <2>4. RoleOf' = RoleOf /\ RoleOf = [RoleOf EXCEPT ![job[r].subject] = @]
    BY <1>1, RolesStay, SInvRoles DEF RolesMatchRows
  <2> QED BY <1>1, <1>3, <2>3, <2>4, PromiseAccept
<1> QED BY <1>2, <1>3

(* A link is made for a role that its maker might have given.              *)
LEMMA PromiseInvite ==
  ASSUME SInv, SInv', NEW r \in Slots, Invite(r),
         \A q \in Slots \ {r} : pc[q] = "idle"
  PROVE  Promise!Next
<1> DEFINE u == job[r].subject
           x == job[r].role
<1>0. /\ TypeOK /\ pc[r] = "invite" /\ Finish(r)
      /\ UNCHANGED <<workspace, user, role>>
  BY DEF Invite, SInv, IInv
<1>1. Knows("invite", job[r], view[r], todo[r])
  BY <1>0 DEF SInv, IInv, Stages, Stage
<1>2. /\ job[r].op = "invite" /\ u \in Users /\ x \in Roles
      /\ AuthorizeMemberRoleChange(view[r][job[r].self], {x})
  BY <1>0, <1>1 DEF Knows, TypeOK, Jobs
<1>3. invited' = {o \in invited : o[1] # u} \cup {<<u, x>>}
  <2>1. workspace = "live" /\ job[r].links = LinksFor(u)
    BY <1>0, <1>2, Caller DEF SInv, Undisturbed
  <2> QED BY <2>1 DEF Invite, LinksFor
<1>4. Requester \in Promise!Members
  BY <1>0, <1>2, Caller, NoneAssumption DEF Promise!Members, Managers, Roles
<1>5. Promise!HasCapability(RoleOf[Requester], "manage_members")
  BY <1>0, <1>2, Caller, SameTable, ManagersManage, NoneAssumption
     DEF Managers, Roles
<1>6. Promise!AuthorizeMemberRoleChange(RoleOf[Requester], {x})
  BY <1>0, <1>2, Caller, SameTable
<1>7. Promise!Offer(u, x)
  BY <1>0, <1>3, <1>4, <1>5, <1>6, RequesterGone, RolesStay DEF Promise!Offer
<1> QED BY <1>2, <1>7, SameTable DEF Promise!Next

(* A change or removal knows its target as it is.                          *)
LEMMA TargetRead ==
  ASSUME SInv, NEW r \in Slots, pc[r] = "lock",
         job[r].op \in {"change", "remove"}
  PROVE  /\ job[r].target \in Ids /\ role[job[r].target] # None
         /\ user[job[r].target] \in Users
         /\ AuthorizeMemberRoleChange(role[job[r].self],
                                      {role[job[r].target], job[r].role})
<1>1. Knows("lock", job[r], view[r], todo[r])
  BY DEF SInv, IInv, Stages, Stage
<1>2. /\ job[r].target \in Ids /\ view[r][job[r].target] # None
      /\ AuthorizeMemberRoleChange(view[r][job[r].self],
                                   {view[r][job[r].target], job[r].role})
  BY <1>1 DEF Knows
<1>3. view[r][job[r].target] = role[job[r].target]
  BY <1>2 DEF SInv, Current
<1>4. user[job[r].target] \in Users
  BY <1>2, <1>3, SInvRoles DEF RolesMatchRows
<1> QED BY <1>2, <1>3, <1>4, Caller

(* The commit of a change of role.                                         *)
LEMMA PromiseChangeRole ==
  ASSUME SInv, SInv', [Next]_vars, NEW r \in Slots, ChangeRole(r),
         \A q \in Slots \ {r} : pc[q] = "idle"
  PROVE  Promise!Next
<1> DEFINE t == job[r].target
<1>0. /\ TypeOK /\ pc[r] = "lock" /\ Finish(r) /\ job[r].op = "change"
      /\ UNCHANGED <<workspace, user, invited>>
  BY DEF ChangeRole, HasLocked, SInv, IInv
<1>1. CASE UNCHANGED role
  BY <1>0, <1>1, PromiseDecline DEF table
<1>2. CASE role' # role
  <2>1. role' = [role EXCEPT ![t] = job[r].role]
    BY <1>2 DEF ChangeRole
  <2>2. /\ \A k \in Ids \ {t} : user'[k] = user[k] /\ role'[k] = role[k]
        /\ t \in Ids /\ role'[t] = job[r].role
    BY <1>0, <2>1, TargetRead DEF TypeOK
  <2>3. /\ user[t] \in Users /\ user'[t] = user[t]
        /\ AuthorizeMemberRoleChange(role[job[r].self], {role[t], role'[t]})
    BY <1>0, <2>2, TargetRead
  <2> QED BY <1>0, <2>2, <2>3, PromiseManage
<1> QED BY <1>1, <1>2

(* The commit of a removal.                                                *)
LEMMA PromiseDeleteMember ==
  ASSUME SInv, SInv', [Next]_vars, NEW r \in Slots, DeleteMember(r),
         \A q \in Slots \ {r} : pc[q] = "idle"
  PROVE  Promise!Next
<1> DEFINE t == job[r].target
<1>0. /\ TypeOK /\ pc[r] = "lock" /\ Finish(r) /\ job[r].op = "remove"
      /\ UNCHANGED <<workspace, invited>>
  BY DEF DeleteMember, HasLocked, SInv, IInv
<1>1. CASE UNCHANGED <<user, role>>
  BY <1>0, <1>1, PromiseDecline DEF table
<1>2. CASE ~UNCHANGED <<user, role>>
  <2>1. /\ role' = [role EXCEPT ![t] = None]
        /\ user' = [user EXCEPT ![t] = None]
    BY <1>2 DEF DeleteMember
  <2>2. /\ \A k \in Ids \ {t} : user'[k] = user[k] /\ role'[k] = role[k]
        /\ t \in Ids /\ role'[t] = None /\ user'[t] = None
    BY <1>0, <2>1, TargetRead DEF TypeOK
  <2>3. user[t] \in Users
    BY <1>0, TargetRead
  <2>4. AuthorizeMemberRoleChange(role[job[r].self], {role[t], role'[t]})
    BY <1>0, <2>2, TargetRead, NoneAssumption
       DEF AuthorizeMemberRoleChange, Roles
  <2> QED BY <1>0, <2>2, <2>3, <2>4, PromiseManage
<1> QED BY <1>1, <1>2

(* The deletion of the workspace reaches everybody's role.                 *)
LEMMA PromiseDropWorkspace ==
  ASSUME SInv, SInv', NEW r \in Slots, DropWorkspace(r),
         \A q \in Slots \ {r} : pc[q] = "idle"
  PROVE  Promise!Next
<1>0. /\ TypeOK /\ pc[r] = "lock" /\ Finish(r) /\ job[r].op = "delete"
      /\ todo[r] = {} /\ workspace' = "deleted" /\ invited' = {}
      /\ role' = [i \in Ids |-> IF lockedBy[i] = r THEN None ELSE role[i]]
  BY DEF DropWorkspace, HasLocked, SInv, IInv
<1>1. \A i \in Ids : role'[i] = None
  BY <1>0 DEF SInv, IInv, CascadeReaches, Exists
<1>2. RoleOf' = [u \in Users |-> None]
  <2>1. RolesMatchRows'
    BY SInvRoles, PTL
  <2>2. \A u \in Users : RoleOf'[u] = None
    BY <1>1, <2>1 DEF RolesMatchRows
  <2> QED BY <2>1, <2>2 DEF RolesMatchRows
<1>3. Requester' = None
  BY <1>0, RequesterGone
<1>4. Requester \in Promise!Members
  BY <1>0, Caller, NoneAssumption DEF Promise!Members, Managers, Roles
<1>5. Promise!HasCapability(RoleOf[Requester], "manage_workspace")
  BY <1>0, Caller, SameTable DEF HasCapability, CapabilitiesOf, Capabilities
<1>6. Promise!Dissolve
  BY <1>0, <1>2, <1>3, <1>4, <1>5 DEF Promise!Dissolve
<1> QED BY <1>6 DEF Promise!Next

(* Every step is a step of the promise or none it can see.                 *)
LEMMA PromiseStep ==
  ASSUME SInv, SInv', [Next]_vars
  PROVE  [Promise!Next]_(Promise!vars)
<1>1. CASE UNCHANGED vars
  <2>1. UNCHANGED RoleOf
    BY <1>1, RolesStay DEF vars, table
  <2>2. UNCHANGED <<workspace, invited, Requester>>
    BY <1>1 DEF vars, table, session, Requester
  <2> QED BY <2>1, <2>2 DEF Promise!vars
<1>2. ASSUME NEW r \in Slots,
             Arrive(r) \/ Proceed(r) \/ DeadlockAbort(r) \/ Fail(r)
      PROVE  [Promise!Next]_(Promise!vars)
  <2>1. \A q \in Slots \ {r} : pc[q] = "idle"
    BY <1>2, OthersIdle DEF SInv
  <2>2. CASE Arrive(r)
    BY <2>2, PromiseArrive
  <2>3. CASE DeadlockAbort(r) \/ Fail(r)
    BY <2>1, <2>3, PromiseDecline DEF DeadlockAbort, Fail
  <2>4. CASE Proceed(r) /\ ~Finish(r)
    BY <2>4, PromiseReads
  <2>5. CASE Proceed(r) /\ Finish(r)
    <3>1. CASE UNCHANGED table
      BY <2>1, <2>5, <3>1, PromiseDecline
    <3>2. ~UpdateGranted(r)
      <4>1. Knows(pc[r], job[r], view[r], todo[r])
        BY DEF SInv, IInv, Stages, Stage
      <4> QED BY <4>1 DEF UpdateGranted, Knows, SInv, NoCommand, Undisturbed
    <3>3. CASE ~UNCHANGED table
      BY <2>1, <2>5, <3>2, <3>3, PromiseInsert, PromiseCheckExisting,
         PromiseInvite, PromiseChangeRole, PromiseDeleteMember,
         PromiseDropWorkspace
         DEF Proceed, ReadTarget, GrantMembership, LockMemberships,
             LockWorkspace, LockRow
    <3> QED BY <3>1, <3>3
  <2> QED BY <1>2, <2>2, <2>3, <2>4, <2>5
<1> QED BY <1>1, <1>2 DEF Next

(* Requests that do not overlap, without the operator, implement the       *)
(* promise: whoever holds which role changes only as WorkspaceRoles says.  *)
THEOREM PromiseKept ==
  Spec /\ []OneAtATime /\ []NoCommand => KeepsPromise
<1>1. NoCommand => NoGrant
  BY DEF NoCommand, NoGrant
<1>2. Init => Current /\ Undisturbed
  BY DEF Init, Current, Undisturbed, NoView, NoJob
<1>3. /\ IInv /\ Admitted /\ OneAtATime /\ OneAtATime' /\ [Next]_vars
      /\ Current /\ Undisturbed
      => Current' /\ Undisturbed'
  BY CurrentStep, UndisturbedStep
<1>4. Spec /\ []OneAtATime => [](Current /\ Undisturbed)
  BY <1>2, <1>3, Invariant, Admission, PTL DEF Spec
<1>5. /\ IInv /\ Admitted /\ Current /\ Undisturbed /\ MembersHaveOwner
      /\ OneAtATime /\ NoCommand
      => SInv
  BY DEF SInv
<1>6. Spec /\ []OneAtATime /\ []NoCommand => []SInv
  BY <1>1, <1>4, <1>5, Invariant, Admission, LastOwnerStays, PTL
<1>7. SInv /\ SInv' /\ [Next]_vars => [Promise!Next]_(Promise!vars)
  BY PromiseStep
<1> QED BY <1>6, <1>7, PromiseInit, PTL DEF Spec, KeepsPromise, Promise!Spec
-----------------------------------------------------------------------------
(* Where no slot runs commands of the operator, no                         *)
(* command is ever under way.                                              *)
LEMMA NobodyCommands ==
  ASSUME Operators = {}
  PROVE  Spec => []NoCommand
<1>1. Init => NoCommand
  BY DEF Init, NoCommand, NoJob
<1>2. TypeOK /\ NoCommand /\ [Next]_vars => NoCommand'
  <2> SUFFICES ASSUME TypeOK, NoCommand, [Next]_vars, NEW q \in Slots
               PROVE  job'[q].op \notin {"grant", "adopt"}
    BY DEF NoCommand
  <2>0. job \in [Slots -> Jobs] /\ job[q].op \notin {"grant", "adopt"}
    BY DEF TypeOK, NoCommand
  <2>1. ASSUME NEW r \in Slots, Finish(r)
        PROVE  job'[q].op \notin {"grant", "adopt"}
    BY <2>0, <2>1 DEF Finish, NoJob
  <2>2. CASE UNCHANGED job
    BY <2>0, <2>2
  <2>3. ASSUME NEW r \in Slots, NEW at, NEW j, NEW seen, Begin(r, at, j, seen),
               j.op \notin {"grant", "adopt"}
        PROVE  job'[q].op \notin {"grant", "adopt"}
    BY <2>0, <2>3 DEF Begin
  <2>4. ASSUME NEW r \in Slots, Arrive(r)
        PROVE  job'[q].op \notin {"grant", "adopt"}
    <3>1. CASE UpdateMember(r)
      <4>1. PICK self, target, asked :
              Begin(r, "target",
                    [NoJob EXCEPT !.op = "change", !.self = self,
                                  !.target = target, !.role = asked],
                    Loaded(self))
        BY <3>1 DEF UpdateMember
      <4>2. [NoJob EXCEPT !.op = "change", !.self = self, !.target = target,
                          !.role = asked].op = "change"
        BY DEF NoJob
      <4> QED BY <2>3, <4>1, <4>2
    <3>2. CASE RemoveMember(r)
      <4>1. PICK self, target :
              Begin(r, "target",
                    [NoJob EXCEPT !.op = "remove", !.self = self,
                                  !.target = target],
                    Loaded(self))
        BY <3>2 DEF RemoveMember
      <4>2. [NoJob EXCEPT !.op = "remove", !.self = self,
                          !.target = target].op = "remove"
        BY DEF NoJob
      <4> QED BY <2>3, <4>1, <4>2
    <3>3. CASE AddMember(r)
      <4>1. PICK self, subject, asked :
              Begin(r, "check",
                    [NoJob EXCEPT !.op = "add", !.self = self,
                                  !.subject = subject, !.role = asked],
                    Loaded(self))
        BY <3>3 DEF AddMember
      <4>2. [NoJob EXCEPT !.op = "add", !.self = self, !.subject = subject,
                          !.role = asked].op = "add"
        BY DEF NoJob
      <4> QED BY <2>3, <4>1, <4>2
    <3>4. CASE DeleteWorkspace(r)
      <4>1. PICK self :
              Begin(r, "select", [NoJob EXCEPT !.op = "delete", !.self = self],
                    Loaded(self))
        BY <3>4 DEF DeleteWorkspace
      <4>2. [NoJob EXCEPT !.op = "delete", !.self = self].op = "delete"
        BY DEF NoJob
      <4> QED BY <2>3, <4>1, <4>2
    <3>5. CASE CreateLocalUser(r)
      <4>1. PICK self, subject, asked :
              Begin(r, "grant",
                    [NoJob EXCEPT !.op = "local", !.self = self,
                                  !.subject = subject, !.role = asked],
                    Loaded(self))
        BY <3>5 DEF CreateLocalUser
      <4>2. [NoJob EXCEPT !.op = "local", !.self = self, !.subject = subject,
                          !.role = asked].op = "local"
        BY DEF NoJob
      <4> QED BY <2>3, <4>1, <4>2
    <3>6. CASE CreateInvitation(r)
      <4>1. PICK self, subject, asked :
              Begin(r, "invite",
                    [NoJob EXCEPT !.op = "invite", !.self = self,
                                  !.subject = subject, !.role = asked,
                                  !.links = LinksFor(subject)],
                    Loaded(self))
        BY <3>6 DEF CreateInvitation
      <4>2. [NoJob EXCEPT !.op = "invite", !.self = self, !.subject = subject,
                          !.role = asked, !.links = LinksFor(subject)].op
              = "invite"
        BY DEF NoJob
      <4> QED BY <2>3, <4>1, <4>2
    <3>7. CASE AcceptInvitation(r)
      <4>1. PICK link :
              Begin(r, "check",
                    [NoJob EXCEPT !.op = "accept", !.subject = link[1],
                                  !.role = link[2]], NoView)
        BY <3>7 DEF AcceptInvitation
      <4>2. [NoJob EXCEPT !.op = "accept", !.subject = link[1],
                          !.role = link[2]].op = "accept"
        BY DEF NoJob
      <4> QED BY <2>3, <4>1, <4>2
    <3>8. CASE CreateWorkspace(r)
      BY <2>2, <3>8 DEF CreateWorkspace, session
    <3> QED BY <2>4, <3>1, <3>2, <3>3, <3>4, <3>5, <3>6, <3>7, <3>8
            DEF Arrive, GrantCommand, AdoptOrphans
  <2>5. ASSUME NEW r \in Slots, Proceed(r) \/ DeadlockAbort(r) \/ Fail(r)
        PROVE  job'[q].op \notin {"grant", "adopt"}
    <3>1. CASE Proceed(r) /\ ~Finish(r)
      BY <2>0, <3>1, Goes DEF SameTask
    <3> QED BY <2>1, <2>5, <3>1 DEF DeadlockAbort, Fail
  <2> QED BY <2>2, <2>4, <2>5 DEF Next, vars, session
<1> QED BY <1>1, <1>2, Typing, PTL DEF Spec

(* Where one thread serves all requests and the operator runs no command,  *)
(* nothing overlaps: for any users, rows and roles asked for, an OWNER     *)
(* stays in every workspace with members and the promise is kept.          *)
THEOREM SerialPromise ==
  ASSUME NEW slot, Requests = {slot}, Operators = {}
  PROVE  Spec => []MembersHaveOwner /\ KeepsPromise
<1>1. OneAtATime
  BY DEF OneAtATime, Slots
<1>2. NoCommand => NoGrant
  BY DEF NoCommand, NoGrant
<1> QED BY <1>1, <1>2, NobodyCommands, LastOwnerStays, PromiseKept, PTL
=============================================================================
