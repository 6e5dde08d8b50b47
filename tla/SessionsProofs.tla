--------------------------- MODULE SessionsProofs ---------------------------
(* Theorems about Sessions, for any passwords, tokens and slots.           *)
EXTENDS Sessions, TLAPS

-----------------------------------------------------------------------------
(* The inductive invariant.                                                *)

(* Whoever is about to store a password has one.                           *)
PasswordsInHand ==
  \A r \in Slots :
    pc[r] \in {"rehash", "store", "scan", "commit"} =>
      job[r].password \in Passwords

IInv == TypeOK /\ PasswordsInHand

(* A handler that has read nothing has a job of the right kind.            *)
LEMMA NothingDone == NoJob \in Jobs
BY DEF NoJob, Jobs

(* Growing older changes nothing of a job but its age.                     *)
LEMMA Aging ==
  ASSUME job \in [Slots -> Jobs]
  PROVE  /\ AgeJobs(job) \in [Slots -> Jobs]
         /\ \A q \in Slots : /\ AgeJobs(job)[q].op = job[q].op
                            /\ AgeJobs(job)[q].password = job[q].password
<1> SUFFICES ASSUME NEW q \in Slots
             PROVE  /\ [job[q] EXCEPT !.pre = TRUE] \in Jobs
                    /\ [job[q] EXCEPT !.pre = TRUE].op = job[q].op
                    /\ [job[q] EXCEPT !.pre = TRUE].password = job[q].password
  BY DEF AgeJobs
<1>1. job[q] \in Jobs
  OBVIOUS
<1> QED BY <1>1 DEF Jobs

(* The invariant holds initially.                                          *)
LEMMA InvInit == Init => IInv
<1> SUFFICES ASSUME Init PROVE IInv
  OBVIOUS
<1>1. outdated \in BOOLEAN
  BY OldHashesAssumption DEF Init
<1>2. mustChange \in BOOLEAN /\ issued \in BOOLEAN
  BY DEF Init
<1>3. TypeOK
  BY <1>1, <1>2, NothingDone DEF Init, TypeOK, Stages, MaxUses
<1>4. PasswordsInHand
  BY DEF Init, PasswordsInHand
<1> QED BY <1>3, <1>4 DEF IInv

(* A handler begins: it records what it has read, and nothing else changes.*)
LEMMA InvBegin ==
  ASSUME IInv, NEW r \in Slots, NEW at \in Stages, NEW j \in Jobs,
         at \in {"rehash", "store", "scan", "commit"} =>
           j.password \in Passwords,
         Begin(r, at, j)
  PROVE  IInv'
<1>1. /\ pc' = [pc EXCEPT ![r] = at] /\ job' = [job EXCEPT ![r] = j]
      /\ UNCHANGED <<password, outdated, mustChange, token, expired>>
      /\ UNCHANGED <<issued, preReset, uses>>
  BY DEF Begin, account, history
<1>2. TypeOK'
  BY <1>1 DEF IInv, TypeOK
<1>3. PasswordsInHand'
  BY <1>1 DEF IInv, TypeOK, PasswordsInHand
<1> QED BY <1>2, <1>3 DEF IInv

(* A handler ends, whatever it has written.                                *)
LEMMA InvEnd ==
  ASSUME IInv, NEW r \in Slots, End(r),
         password' \in Passwords,
         outdated' \in BOOLEAN /\ mustChange' \in BOOLEAN /\ issued' \in BOOLEAN,
         token' \in [Tokens -> {"none", "live", "revoked"}],
         expired' \subseteq Tokens /\ preReset' \subseteq Tokens,
         uses' \in [Tokens -> 0 .. MaxUses]
  PROVE  IInv'
<1>1. pc' = [pc EXCEPT ![r] = "idle"] /\ job' = [job EXCEPT ![r] = NoJob]
  BY DEF End
<1>2. pc' \in [Slots -> Stages] /\ job' \in [Slots -> Jobs]
  BY <1>1, NothingDone DEF IInv, TypeOK, Stages
<1>3. TypeOK'
  BY <1>2 DEF TypeOK
<1>4. PasswordsInHand'
  BY <1>1 DEF IInv, TypeOK, PasswordsInHand
<1> QED BY <1>3, <1>4 DEF IInv

(* Every step of a handler keeps it: reading first.                        *)
LEMMA InvArrive ==
  ASSUME IInv, NEW r \in Slots, Arrive(r)
  PROVE  IInv'
<1>0. /\ password \in Passwords
      /\ mustChange \in BOOLEAN /\ issued \in BOOLEAN
  BY DEF IInv, TypeOK
<1>1. CASE Login(r)
  <2>1. [NoJob EXCEPT !.op = "login", !.password = password,
                      !.issued = issued] \in Jobs
    BY <1>0, NothingDone DEF Jobs
  <2>2. [NoJob EXCEPT !.op = "login", !.password = password,
                      !.issued = issued].password = password
    BY NothingDone DEF Jobs
  <2>3. (IF outdated THEN "rehash" ELSE "issue") \in Stages
    BY DEF Stages
  <2> QED BY <1>0, <1>1, <2>1, <2>2, <2>3, InvBegin DEF Login
<1>2. CASE Refresh(r) \/ Logout(r)
  <2>1. PICK t \in Tokens, at \in {"rotate", "revoke"},
             op \in {"refresh", "logout"} :
          Begin(r, at, [NoJob EXCEPT !.op = op, !.token = t])
    BY <1>2 DEF Refresh, Logout, Live
  <2>2. [NoJob EXCEPT !.op = op, !.token = t] \in Jobs
    BY NothingDone DEF Jobs
  <2> QED BY <2>1, <2>2, InvBegin DEF Stages
<1>3. CASE ChangePassword(r) \/ ResetMember(r) \/ ResetPassword(r)
  <2>1. PICK new \in Passwords, at \in {"store", "scan"},
             op \in {"change", "reset", "cli"} :
          Begin(r, at, [NoJob EXCEPT !.op = op, !.password = new,
                                     !.flag = mustChange])
    BY <1>3 DEF ChangePassword, ResetMember, ResetPassword
  <2> DEFINE j == [NoJob EXCEPT !.op = op, !.password = new,
                                !.flag = mustChange]
  <2>2. j \in Jobs /\ j.password = new
    BY <1>0, NothingDone DEF Jobs
  <2> QED BY <2>1, <2>2, InvBegin DEF Stages
<1> QED BY <1>1, <1>2, <1>3 DEF Arrive

(* Then writing.                                                           *)
LEMMA InvProceed ==
  ASSUME IInv, NEW r \in Slots, Proceed(r)
  PROVE  IInv'
<1>0. /\ TypeOK /\ PasswordsInHand
      /\ password \in Passwords
      /\ outdated \in BOOLEAN /\ mustChange \in BOOLEAN /\ issued \in BOOLEAN
      /\ token \in [Tokens -> {"none", "live", "revoked"}]
      /\ expired \subseteq Tokens /\ preReset \subseteq Tokens
      /\ uses \in [Tokens -> 0 .. MaxUses]
      /\ pc \in [Slots -> Stages] /\ job \in [Slots -> Jobs]
      /\ job[r].issued \in BOOLEAN /\ job[r].flag \in BOOLEAN
      /\ Live \subseteq Tokens
  BY DEF IInv, TypeOK, Jobs, Live
<1>1. CASE Rehash(r)
  <2>1. /\ pc[r] = "rehash" /\ pc' = [pc EXCEPT ![r] = "issue"] /\ job' = job
        /\ password' = job[r].password /\ outdated' = FALSE
        /\ issued' = job[r].issued
        /\ UNCHANGED <<mustChange, token, expired, preReset, uses>>
    BY <1>1 DEF Rehash, GoTo
  <2>2. password' \in Passwords
    BY <1>0, <2>1 DEF PasswordsInHand
  <2>3. TypeOK'
    BY <1>0, <2>1, <2>2 DEF TypeOK, Stages
  <2>4. PasswordsInHand'
    BY <1>0, <2>1 DEF PasswordsInHand
  <2> QED BY <2>3, <2>4 DEF IInv
<1>2. CASE Rotate(r)
  <2>1. /\ pc[r] = "rotate" /\ pc' = [pc EXCEPT ![r] = "issue"] /\ job' = job
        /\ UNCHANGED <<password, outdated, mustChange>>
        /\ UNCHANGED <<expired, issued, preReset>>
    BY <1>2 DEF Rotate, GoTo, account
  <2>2. token' \in [Tokens -> {"none", "live", "revoked"}]
    BY <1>0, <1>2 DEF Rotate
  <2>3. uses' \in [Tokens -> 0 .. MaxUses]
    <3>1. \A t \in Tokens :
            (IF uses[t] < MaxUses THEN uses[t] + 1 ELSE uses[t]) \in 0 .. MaxUses
      BY <1>0 DEF MaxUses
    <3>2. uses' = [t \in Tokens |-> IF t = job[r].token
                                    THEN IF uses[t] < MaxUses THEN uses[t] + 1
                                                              ELSE uses[t]
                                    ELSE uses[t]]
      BY <1>0, <1>2 DEF Rotate
    <3> QED BY <1>0, <3>1, <3>2
  <2>4. TypeOK'
    BY <1>0, <2>1, <2>2, <2>3 DEF TypeOK, Stages
  <2>5. PasswordsInHand'
    BY <1>0, <2>1 DEF PasswordsInHand
  <2> QED BY <2>4, <2>5 DEF IInv
<1>3. CASE Issue(r)
  <2>1. PICK t \in Tokens :
          /\ token' = [token EXCEPT ![t] = "live"]
          /\ expired' = expired \ {t}
          /\ uses' = [uses EXCEPT ![t] = 0]
          /\ preReset' = IF job[r].pre THEN preReset \cup {t}
                                       ELSE preReset \ {t}
          /\ End(r)
          /\ UNCHANGED <<password, outdated, mustChange, issued>>
    BY <1>3 DEF Issue, account
  <2>2. /\ token' \in [Tokens -> {"none", "live", "revoked"}]
        /\ uses' \in [Tokens -> 0 .. MaxUses]
    BY <1>0, <2>1 DEF MaxUses
  <2> QED BY <1>0, <2>1, <2>2, InvEnd
<1>4. CASE Revoke(r)
  <2>1. token' \in [Tokens -> {"none", "live", "revoked"}]
    BY <1>0, <1>4 DEF Revoke
  <2>2. End(r) /\ UNCHANGED <<password, outdated, mustChange, expired>>
        /\ UNCHANGED <<issued, preReset, uses>>
    BY <1>4 DEF Revoke, account, history
  <2> QED BY <1>0, <2>1, <2>2, InvEnd
<1>5. CASE StorePassword(r)
  <2>1. /\ pc[r] = "store" /\ password' = job[r].password
        /\ outdated' = FALSE /\ issued' = FALSE
        /\ mustChange' = (mustChange /\ ~job[r].flag)
        /\ UNCHANGED <<token, expired, uses>>
        /\ \/ End(r) /\ UNCHANGED preReset
           \/ /\ pc' = [pc EXCEPT ![r] = "scan"]
              /\ job' = AgeJobs(job) /\ preReset' = Live
    BY <1>5 DEF StorePassword
  <2>2. password' \in Passwords
    BY <1>0, <2>1 DEF PasswordsInHand
  <2>3. outdated' \in BOOLEAN /\ mustChange' \in BOOLEAN /\ issued' \in BOOLEAN
    BY <2>1
  <2>4. CASE End(r) /\ UNCHANGED preReset
    BY <1>0, <2>1, <2>2, <2>3, <2>4, InvEnd
  <2>5. CASE /\ pc' = [pc EXCEPT ![r] = "scan"]
             /\ job' = AgeJobs(job) /\ preReset' = Live
    <3>1. /\ job' \in [Slots -> Jobs]
          /\ \A q \in Slots : job'[q].password = job[q].password
      BY <1>0, <2>5, Aging
    <3>2. TypeOK'
      BY <1>0, <2>1, <2>2, <2>3, <2>5, <3>1 DEF TypeOK, Stages
    <3>3. PasswordsInHand'
      BY <1>0, <2>1, <2>5, <3>1 DEF PasswordsInHand
    <3> QED BY <3>2, <3>3 DEF IInv
  <2> QED BY <2>1, <2>4, <2>5
<1>6. CASE ScanSessions(r)
  <2>1. /\ pc[r] = "scan" /\ pc' = [pc EXCEPT ![r] = "commit"]
        /\ job' = [job EXCEPT ![r].scanned = Live]
        /\ UNCHANGED <<password, outdated, mustChange, token, expired>>
        /\ UNCHANGED <<issued, preReset, uses>>
    BY <1>6 DEF ScanSessions, account, history
  <2>2. /\ job' \in [Slots -> Jobs]
        /\ \A q \in Slots : job'[q].password = job[q].password
    <3>1. job[r] \in Jobs
      BY <1>0
    <3>2. /\ [job[r] EXCEPT !.scanned = Live] \in Jobs
          /\ [job[r] EXCEPT !.scanned = Live].password = job[r].password
      BY <1>0, <3>1 DEF Jobs
    <3> QED BY <1>0, <2>1, <3>2
  <2>3. TypeOK'
    BY <1>0, <2>1, <2>2 DEF TypeOK, Stages
  <2>4. PasswordsInHand'
    BY <1>0, <2>1, <2>2 DEF PasswordsInHand
  <2> QED BY <2>3, <2>4 DEF IInv
<1>7. CASE CommitReset(r)
  <2>1. /\ pc[r] = "commit" /\ password' = job[r].password
        /\ outdated' = FALSE /\ issued' = TRUE
        /\ mustChange' = (mustChange \/ ~job[r].flag)
        /\ token' = Revoked(job[r].scanned) /\ preReset' = Live
        /\ pc' = [pc EXCEPT ![r] = "idle"]
        /\ job' = [AgeJobs(job) EXCEPT ![r] = NoJob]
        /\ UNCHANGED <<expired, uses>>
    BY <1>7 DEF CommitReset
  <2>2. password' \in Passwords
    BY <1>0, <2>1 DEF PasswordsInHand
  <2>3. outdated' \in BOOLEAN /\ mustChange' \in BOOLEAN /\ issued' \in BOOLEAN
    BY <2>1
  <2>4. token' \in [Tokens -> {"none", "live", "revoked"}]
    BY <1>0, <2>1 DEF Revoked
  <2>5. /\ job' \in [Slots -> Jobs]
        /\ \A q \in Slots \ {r} : job'[q].password = job[q].password
    BY <1>0, <2>1, Aging, NothingDone
  <2>6. TypeOK'
    BY <1>0, <2>1, <2>2, <2>3, <2>4, <2>5 DEF TypeOK, Stages
  <2>7. PasswordsInHand'
    BY <1>0, <2>1, <2>5 DEF PasswordsInHand
  <2> QED BY <2>6, <2>7 DEF IInv
<1>8. CASE CommitRevocations(r)
  <2>1. token' \in [Tokens -> {"none", "live", "revoked"}]
    BY <1>0, <1>8 DEF CommitRevocations, Revoked
  <2>2. End(r) /\ UNCHANGED <<password, outdated, mustChange, expired>>
        /\ UNCHANGED <<issued, preReset, uses>>
    BY <1>8 DEF CommitRevocations, account, history
  <2> QED BY <1>0, <2>1, <2>2, InvEnd
<1> QED
  BY <1>1, <1>2, <1>3, <1>4, <1>5, <1>6, <1>7, <1>8 DEF Proceed

(* And so does every step.                                                 *)
LEMMA InvStep == IInv /\ [Next]_vars => IInv'
<1> SUFFICES ASSUME IInv, [Next]_vars PROVE IInv'
  OBVIOUS
<1>1. CASE UNCHANGED vars
  BY <1>1 DEF vars, account, history, IInv, TypeOK, PasswordsInHand
<1>2. ASSUME NEW r \in Slots, Fail(r) PROVE IInv'
  <2>1. End(r) /\ UNCHANGED <<password, outdated, mustChange, token, expired>>
        /\ UNCHANGED <<issued, preReset, uses>>
    BY <1>2 DEF Fail, account, history
  <2> QED BY <2>1, InvEnd DEF IInv, TypeOK
<1>3. ASSUME NEW t \in Tokens, Expire(t) PROVE IInv'
  <2>1. /\ expired' = expired \cup {t}
        /\ UNCHANGED <<password, outdated, mustChange, token, pc, job>>
        /\ UNCHANGED <<issued, preReset, uses>>
    BY <1>3 DEF Expire, account, history
  <2> QED BY <2>1 DEF IInv, TypeOK, PasswordsInHand
<1> QED BY <1>1, <1>2, <1>3, InvArrive, InvProceed DEF Next

(* In every reachable state the variables have their types and whoever is  *)
(* about to store a password has one.                                      *)
THEOREM Invariant == Spec => []IInv
BY InvInit, InvStep, PTL DEF Spec

(* Every variable holds a value of its kind.                               *)
THEOREM Typing == Spec => []TypeOK
<1>1. IInv => TypeOK
  BY DEF IInv
<1> QED BY <1>1, Invariant, PTL

-----------------------------------------------------------------------------
(* How a session outlives a reset, and a flag is lost.                     *)

(* What a step excuses itself with when t outlives a reset.                *)
Overlap(r, t) ==
  /\ pc[r] # "idle" /\ pc'[r] = "idle"
  /\ \/ pc[r] = "issue" /\ job[r].pre
     \/ pc[r] = "commit" /\ t \notin job[r].scanned
     \/ job[r].op = "cli" /\ pc[r] # "store" /\ token' = token

(* A step of r leaves the stage and the request of the others alone.       *)
LEMMA OthersStay ==
  ASSUME IInv, NEW r \in Slots, Arrive(r) \/ Proceed(r) \/ Fail(r)
  PROVE  \A q \in Slots \ {r} : pc'[q] = pc[q] /\ job'[q].op = job[q].op
<1>0. pc \in [Slots -> Stages] /\ job \in [Slots -> Jobs]
  BY DEF IInv, TypeOK
<1>1. \/ \E at \in Stages : pc' = [pc EXCEPT ![r] = at]
  BY DEF Arrive, Proceed, Fail, Login, Refresh, Logout, ChangePassword,
         ResetMember, ResetPassword, Rehash, Rotate, Issue, Revoke,
         StorePassword, ScanSessions, CommitReset, CommitRevocations, Begin,
         GoTo, End, Stages
<1>2. \/ \E j : job' = [job EXCEPT ![r] = j]
      \/ \E S : job' = [job EXCEPT ![r].scanned = S]
      \/ \E j : job' = [AgeJobs(job) EXCEPT ![r] = j]
      \/ job' = job \/ job' = AgeJobs(job)
  BY DEF Arrive, Proceed, Fail, Login, Refresh, Logout, ChangePassword,
         ResetMember, ResetPassword, Rehash, Rotate, Issue, Revoke,
         StorePassword, ScanSessions, CommitReset, CommitRevocations, Begin,
         GoTo, End
<1>3. \A q \in Slots \ {r} : job'[q].op = job[q].op
  BY <1>0, <1>2, Aging
<1> QED BY <1>0, <1>1, <1>3

(* What a step does to the sessions: at most one is opened, by Issue, and  *)
(* only the commits of a reset count more of them as older than it.        *)
LEMMA OldSessions ==
  ASSUME IInv, NEW r \in Slots, Arrive(r) \/ Proceed(r) \/ Fail(r),
         NEW t \in Live' \cap preReset', t \notin Live \cap preReset
  PROVE  \/ Overlap(r, t)
         \/ pc'[r] = "scan" /\ job'[r].op = "cli"
<1>0. /\ t \in Tokens /\ token'[t] = "live"
      /\ token \in [Tokens -> {"none", "live", "revoked"}]
      /\ pc \in [Slots -> Stages] /\ job \in [Slots -> Jobs]
  BY DEF IInv, TypeOK, Live
<1>1. ~(\A u \in Tokens : token'[u] = "live" => token[u] = "live")
        \/ ~(preReset' \subseteq preReset)
  BY <1>0 DEF Live
<1>2. CASE Issue(r)
  <2>1. PICK u \in Tokens :
          /\ pc[r] = "issue" /\ pc' = [pc EXCEPT ![r] = "idle"]
          /\ token' = [token EXCEPT ![u] = "live"]
          /\ preReset' = IF job[r].pre THEN preReset \cup {u}
                                       ELSE preReset \ {u}
    BY <1>2 DEF Issue, End
  <2>2. u = t
    BY <1>0, <2>1 DEF Live
  <2>3. job[r].pre
    BY <2>1, <2>2
  <2> QED BY <1>0, <2>1, <2>3 DEF Overlap
<1>3. CASE CommitReset(r)
  <2>1. t \notin job[r].scanned
    BY <1>0, <1>3 DEF CommitReset, Revoked
  <2> QED BY <1>0, <1>3, <2>1 DEF CommitReset, Overlap
<1>4. CASE StorePassword(r)
  <2>1. /\ job[r].op = "cli" /\ pc' = [pc EXCEPT ![r] = "scan"]
        /\ job' = AgeJobs(job)
    BY <1>1, <1>4 DEF StorePassword
  <2> QED BY <1>0, <2>1, Aging
<1>5. CASE ~(Issue(r) \/ CommitReset(r) \/ StorePassword(r))
  <2>1. preReset' = preReset
    BY <1>5 DEF Arrive, Proceed, Fail, Login, Refresh, Logout, ChangePassword,
                ResetMember, ResetPassword, Rehash, Rotate, Revoke,
                ScanSessions, CommitRevocations, Begin, history
  <2>2. \/ token' = token
        \/ \E u : token' = [token EXCEPT ![u] = "revoked"]
        \/ token' = Revoked(job[r].scanned)
    BY <1>5 DEF Arrive, Proceed, Fail, Login, Refresh, Logout, ChangePassword,
                ResetMember, ResetPassword, Rehash, Rotate, Revoke,
                ScanSessions, CommitRevocations, Begin
  <2> QED BY <1>0, <1>1, <2>1, <2>2 DEF Revoked
<1> QED BY <1>2, <1>3, <1>4, <1>5

(* A session that was not a survivor and is one now has its excuse.        *)
LEMMA SurviveStep ==
  ASSUME IInv, [Next]_vars, NEW t \in Survivors' \ Survivors
  PROVE  \E r \in Slots : Overlap(r, t)
<1>0. /\ ~HalfReset' /\ t \in Live' \cap preReset' /\ t \in Tokens
      /\ HalfReset \/ t \notin Live \cap preReset
      /\ pc \in [Slots -> Stages] /\ job \in [Slots -> Jobs]
  BY DEF Survivors, Live, IInv, TypeOK
<1>1. PICK r \in Slots : Arrive(r) \/ Proceed(r) \/ Fail(r)
  <2>1. CASE UNCHANGED vars
    BY <2>1 DEF vars, history, Survivors, HalfReset, Live
  <2>2. ASSUME NEW u \in Tokens, Expire(u) PROVE FALSE
    BY <2>2 DEF Expire, history, Survivors, HalfReset, Live
  <2> QED BY <2>1, <2>2 DEF Next
<1>2. CASE t \notin Live \cap preReset
  <2>1. \/ Overlap(r, t)
        \/ pc'[r] = "scan" /\ job'[r].op = "cli"
    BY <1>0, <1>1, <1>2, OldSessions
  <2> QED BY <1>0, <2>1 DEF HalfReset
<1>3. CASE HalfReset
  <2>1. PICK q \in Slots : job[q].op = "cli" /\ pc[q] \in {"scan", "commit"}
    BY <1>3 DEF HalfReset
  <2>2. q = r
    <3>1. q # r => pc'[q] = pc[q] /\ job'[q].op = job[q].op
      BY <1>1, OthersStay
    <3> QED BY <1>0, <2>1, <3>1 DEF HalfReset
  <2>3. job[r].op = "cli" /\ pc[r] \in {"scan", "commit"}
    BY <2>1, <2>2
  <2>4. ScanSessions(r) \/ CommitRevocations(r) \/ Fail(r)
    BY <1>1, <2>3 DEF Arrive, Proceed, Login, Refresh, Logout, ChangePassword,
                      ResetMember, ResetPassword, Rehash, Rotate, Issue,
                      Revoke, StorePassword, CommitReset, Begin
  <2>5. ~ScanSessions(r)
    <3>1. SUFFICES ASSUME ScanSessions(r) PROVE FALSE
      OBVIOUS
    <3>2. pc'[r] = "commit"
      BY <1>0, <3>1 DEF ScanSessions
    <3>3. job'[r] = [job[r] EXCEPT !.scanned = Live]
      BY <1>0, <3>1 DEF ScanSessions
    <3>4. job'[r].op = "cli"
      BY <1>0, <2>3, <3>3 DEF Jobs
    <3> QED BY <1>0, <3>2, <3>4 DEF HalfReset
  <2>6. pc'[r] = "idle"
    BY <1>0, <2>4, <2>5 DEF CommitRevocations, Fail, End
  <2>7. CASE CommitRevocations(r)
    <3>1. pc[r] = "commit" /\ t \notin job[r].scanned
      BY <1>0, <2>7 DEF CommitRevocations, Revoked, Live
    <3> QED BY <2>6, <3>1 DEF Overlap
  <2>8. CASE Fail(r)
    BY <2>3, <2>6, <2>8 DEF Fail, Overlap
  <2> QED BY <2>4, <2>5, <2>7, <2>8
<1> QED BY <1>0, <1>2, <1>3

(* Whatever a reset could see, it ends: a session outlives it only by one  *)
(* of the three overlaps, with any number of requests and operators.       *)
THEOREM SurvivorsExplained == Spec => SessionsSurviveOnlyByOverlap
<1>1. IInv /\ [Next]_vars =>
        [\A t \in Survivors' \ Survivors :
           \E r \in Slots :
             /\ pc[r] # "idle" /\ pc'[r] = "idle"
             /\ \/ pc[r] = "issue" /\ job[r].pre
                \/ pc[r] = "commit" /\ t \notin job[r].scanned
                \/ job[r].op = "cli" /\ pc[r] # "store" /\ token' = token]_vars
  BY SurviveStep DEF Overlap
<1> QED BY <1>1, Invariant, PTL DEF Spec, SessionsSurviveOnlyByOverlap

(* Three steps write the flag or decide whose password it is.              *)
LEMMA FlagWriters ==
  ASSUME [Next]_vars, ~UNCHANGED <<issued, mustChange>>
  PROVE  \E r \in Slots : \/ Rehash(r) /\ mustChange' = mustChange
                          \/ StorePassword(r) \/ CommitReset(r)
BY DEF Next, Arrive, Proceed, Fail, Expire, Login, Refresh, Logout,
       ChangePassword, ResetMember, ResetPassword, Rehash, Rotate, Issue,
       Revoke, ScanSessions, CommitRevocations, Begin, vars, account, history

(* An issued password is without its flag only by a stale read.            *)
LEMMA FlagStep ==
  ASSUME IInv, [Next]_vars, issued', ~mustChange', ~(issued /\ ~mustChange)
  PROVE  \E r \in Slots :
           \/ /\ pc[r] = "commit" /\ job[r].op = "reset"
              /\ job[r].flag /\ ~mustChange
           \/ pc[r] = "rehash" /\ ~issued
<1>1. PICK r \in Slots :
        \/ Rehash(r) /\ mustChange' = mustChange
        \/ StorePassword(r) \/ CommitReset(r)
  BY FlagWriters
<1>2. CASE Rehash(r)
  BY <1>1, <1>2 DEF Rehash
<1>3. CASE StorePassword(r)
  BY <1>3 DEF StorePassword
<1>4. CASE CommitReset(r)
  BY <1>4 DEF CommitReset
<1> QED BY <1>1, <1>2, <1>3, <1>4

(* A temporary password loses its flag only by a reset that read the flag  *)
(* set while it was being cleared, or by a late upgrade of a hash: with    *)
(* any number of requests and operators.                                   *)
THEOREM FlagsExplained == Spec => UnflaggedOnlyByStaleRead
<1>1. IInv /\ [Next]_vars =>
        [(issued' /\ ~mustChange' /\ ~(issued /\ ~mustChange))
           => \E r \in Slots :
                \/ /\ pc[r] = "commit" /\ job[r].op = "reset"
                   /\ job[r].flag /\ ~mustChange
                \/ pc[r] = "rehash" /\ ~issued]_vars
  BY FlagStep
<1> QED BY <1>1, Invariant, PTL DEF Spec, UnflaggedOnlyByStaleRead

-----------------------------------------------------------------------------
(* How a refresh token is exchanged twice.                                 *)

(* A live token has not been exchanged yet.                                *)
LiveUnused == \A t \in Tokens : token[t] = "live" => uses[t] = 0

(* No step brings an exchanged token back, and only Rotate exchanges one.  *)
LEMMA ExchangeStep ==
  ASSUME IInv, LiveUnused, [Next]_vars
  PROVE  /\ LiveUnused'
         /\ \A t \in Tokens : uses[t] > 0 /\ uses'[t] > uses[t] =>
              \E r \in Slots :
                pc[r] = "rotate" /\ job[r].token = t /\ token[t] # "live"
<1>0. /\ token \in [Tokens -> {"none", "live", "revoked"}]
      /\ uses \in [Tokens -> 0 .. MaxUses]
  BY DEF IInv, TypeOK
<1>1. CASE \E r \in Slots : Rotate(r)
  <2>1. PICK r \in Slots :
          /\ pc[r] = "rotate"
          /\ token' = [token EXCEPT ![job[r].token] = "revoked"]
          /\ uses' = [uses EXCEPT ![job[r].token] =
                        IF @ < MaxUses THEN @ + 1 ELSE @]
    BY <1>1 DEF Rotate
  <2>2. LiveUnused'
    BY <1>0, <2>1 DEF LiveUnused
  <2>3. ASSUME NEW t \in Tokens, uses[t] > 0, uses'[t] > uses[t]
        PROVE  pc[r] = "rotate" /\ job[r].token = t /\ token[t] # "live"
    <3>1. t = job[r].token
      BY <1>0, <2>1, <2>3 DEF MaxUses
    <3>2. token[t] # "live"
      BY <1>0, <2>3 DEF LiveUnused, MaxUses
    <3> QED BY <2>1, <3>1, <3>2
  <2> QED BY <2>2, <2>3
<1>2. CASE \E r \in Slots : Issue(r)
  <2>1. PICK t \in Tokens : /\ token' = [token EXCEPT ![t] = "live"]
                            /\ uses' = [uses EXCEPT ![t] = 0]
    BY <1>2 DEF Issue
  <2>2. LiveUnused'
    BY <1>0, <2>1 DEF LiveUnused
  <2>3. \A u \in Tokens : ~(uses[u] > 0 /\ uses'[u] > uses[u])
    BY <1>0, <2>1 DEF MaxUses
  <2> QED BY <2>2, <2>3
<1>3. CASE ~(\E r \in Slots : Rotate(r) \/ Issue(r))
  <2>1. uses' = uses
    BY <1>3 DEF Next, Arrive, Proceed, Fail, Expire, Login, Refresh, Logout,
                ChangePassword, ResetMember, ResetPassword, Rehash, Revoke,
                StorePassword, ScanSessions, CommitReset, CommitRevocations,
                Begin, vars, history
  <2>2. \/ token' = token
        \/ \E u : token' = [token EXCEPT ![u] = "revoked"]
        \/ \E S : token' = Revoked(S)
    BY <1>3 DEF Next, Arrive, Proceed, Fail, Expire, Login, Refresh, Logout,
                ChangePassword, ResetMember, ResetPassword, Rehash, Revoke,
                StorePassword, ScanSessions, CommitReset, CommitRevocations,
                Begin, vars
  <2>3. \A t \in Tokens : token'[t] = "live" => token[t] = "live"
    BY <1>0, <2>2 DEF Revoked
  <2>4. LiveUnused'
    BY <2>1, <2>3 DEF LiveUnused
  <2>5. \A u \in Tokens : ~(uses[u] > 0 /\ uses'[u] > uses[u])
    BY <1>0, <2>1 DEF MaxUses
  <2> QED BY <2>4, <2>5
<1> QED BY <1>1, <1>2, <1>3

(* A token is exchanged again only by a request that had read it live      *)
(* before it was revoked: with any number of requests and tokens.          *)
THEOREM ExchangesExplained == Spec => ExchangedTwiceOnlyByOverlap
<1>1. Init => LiveUnused
  BY DEF Init, LiveUnused
<1>2. IInv /\ LiveUnused /\ [Next]_vars => LiveUnused'
  BY ExchangeStep
<1>3. IInv /\ LiveUnused /\ [Next]_vars =>
        [\A t \in Tokens : uses[t] > 0 /\ uses'[t] > uses[t] =>
           \E r \in Slots :
             pc[r] = "rotate" /\ job[r].token = t /\ token[t] # "live"]_vars
  BY ExchangeStep
<1> QED
  BY <1>1, <1>2, <1>3, Invariant, PTL DEF Spec, ExchangedTwiceOnlyByOverlap

-----------------------------------------------------------------------------
(* Handlers that do not overlap: what one of them has read is how it is.   *)

(* What the job of a handler says of the account at its stage.             *)
Knows(r) ==
  /\ pc[r] \in {"rehash", "rotate", "issue"} => ~job[r].pre
  /\ pc[r] = "rehash" =>
       /\ job[r].op = "login"
       /\ job[r].password = password /\ job[r].issued = issued
  /\ pc[r] = "rotate" => job[r].op = "refresh"
  /\ pc[r] \in {"rotate", "revoke"} => job[r].token \in Live
  /\ pc[r] = "issue" =>
       \/ job[r].op = "login"
       \/ /\ job[r].op = "refresh"
          /\ job[r].token \in Tokens /\ token[job[r].token] = "revoked"
  /\ pc[r] = "store" => job[r].flag = mustChange
  /\ pc[r] \in {"scan", "commit"} /\ job[r].op = "reset" =>
       job[r].flag = mustChange
  /\ pc[r] = "commit" => job[r].scanned = Live

Current == \A r \in Slots : Knows(r)

(* A step of r is taken while the others are idle, and leaves them so.     *)
LEMMA OthersIdle ==
  ASSUME IInv, OneAtATime, OneAtATime', NEW r \in Slots,
         Arrive(r) \/ Proceed(r) \/ Fail(r)
  PROVE  \A q \in Slots \ {r} : pc[q] = "idle" /\ pc'[q] = "idle"
<1>1. \A q \in Slots \ {r} : pc'[q] = pc[q]
  BY OthersStay
<1>2. CASE pc[r] # "idle"
  BY <1>1, <1>2 DEF OneAtATime
<1>3. CASE pc[r] = "idle"
  <2>1. pc'[r] # "idle"
    BY <1>3 DEF IInv, TypeOK, Arrive, Proceed, Fail, Login, Refresh, Logout,
                ChangePassword, ResetMember, ResetPassword, Begin, Rehash,
                Rotate, Issue, Revoke, StorePassword, ScanSessions,
                CommitReset, CommitRevocations
  <2> QED BY <1>1, <2>1 DEF OneAtATime
<1> QED BY <1>2, <1>3

(* A handler begins knowing what it has read.                              *)
LEMMA KnowsArrive ==
  ASSUME IInv, NEW r \in Slots, Arrive(r)
  PROVE  Knows(r)'
<1>0. /\ pc \in [Slots -> Stages] /\ job \in [Slots -> Jobs]
      /\ UNCHANGED <<password, mustChange, token, issued>> /\ Live' = Live
  BY DEF IInv, TypeOK, Arrive, Login, Refresh, Logout, ChangePassword,
         ResetMember, ResetPassword, Begin, account, history, Live
<1>1. CASE Login(r)
  <2> DEFINE j == [NoJob EXCEPT !.op = "login", !.password = password,
                                !.issued = issued]
  <2>1. pc'[r] \in {"rehash", "issue"} /\ job'[r] = j
    BY <1>0, <1>1 DEF Login, Begin
  <2>2. j.op = "login" /\ j.password = password /\ j.issued = issued /\ ~j.pre
    BY DEF NoJob
  <2> HIDE DEF j
  <2> QED BY <1>0, <2>1, <2>2 DEF Knows
<1>2. CASE Refresh(r)
  <2>1. PICK t \in Live :
          Begin(r, "rotate", [NoJob EXCEPT !.op = "refresh", !.token = t])
    BY <1>2 DEF Refresh
  <2> DEFINE j == [NoJob EXCEPT !.op = "refresh", !.token = t]
  <2>2. pc'[r] = "rotate" /\ job'[r] = j
    BY <1>0, <2>1 DEF Begin
  <2>3. j.op = "refresh" /\ j.token = t /\ ~j.pre
    BY DEF NoJob
  <2> HIDE DEF j
  <2> QED BY <1>0, <2>2, <2>3 DEF Knows
<1>3. CASE Logout(r)
  <2>1. PICK t \in Live :
          Begin(r, "revoke", [NoJob EXCEPT !.op = "logout", !.token = t])
    BY <1>3 DEF Logout
  <2> DEFINE j == [NoJob EXCEPT !.op = "logout", !.token = t]
  <2>2. pc'[r] = "revoke" /\ job'[r] = j
    BY <1>0, <2>1 DEF Begin
  <2>3. j.token = t
    BY DEF NoJob
  <2> HIDE DEF j
  <2> QED BY <1>0, <2>2, <2>3 DEF Knows
<1>4. CASE ChangePassword(r) \/ ResetMember(r) \/ ResetPassword(r)
  <2>1. PICK new \in Passwords, at \in {"store", "scan"},
             op \in {"change", "reset", "cli"} :
          Begin(r, at, [NoJob EXCEPT !.op = op, !.password = new,
                                     !.flag = mustChange])
    BY <1>4 DEF ChangePassword, ResetMember, ResetPassword
  <2> DEFINE j == [NoJob EXCEPT !.op = op, !.password = new,
                                !.flag = mustChange]
  <2>2. pc'[r] \in {"store", "scan"} /\ job'[r] = j
    BY <1>0, <2>1 DEF Begin
  <2>3. j.flag = mustChange
    BY DEF NoJob
  <2> HIDE DEF j
  <2> QED BY <1>0, <2>2, <2>3 DEF Knows
<1> QED BY <1>1, <1>2, <1>3, <1>4 DEF Arrive

(* It knows what it has written since.                                     *)
LEMMA KnowsProceed ==
  ASSUME IInv, NEW r \in Slots, Knows(r), Proceed(r)
  PROVE  Knows(r)'
<1>0. /\ pc \in [Slots -> Stages] /\ job \in [Slots -> Jobs]
      /\ token \in [Tokens -> {"none", "live", "revoked"}]
  BY DEF IInv, TypeOK
<1>1. CASE pc'[r] = "idle"
  BY <1>1 DEF Knows
<1>2. CASE Rehash(r)
  BY <1>0, <1>2 DEF Knows, Rehash, GoTo, Live
<1>3. CASE Rotate(r)
  BY <1>0, <1>3 DEF Knows, Rotate, GoTo, Live
<1>4. CASE Issue(r) \/ Revoke(r) \/ CommitReset(r) \/ CommitRevocations(r)
  BY <1>0, <1>1, <1>4
     DEF Issue, Revoke, CommitReset, CommitRevocations, End
<1>5. CASE StorePassword(r)
  <2>1. CASE End(r)
    BY <1>0, <1>1, <2>1 DEF End
  <2>2. CASE ~End(r)
    <3>1. /\ pc[r] = "store" /\ pc' = [pc EXCEPT ![r] = "scan"]
          /\ job' = AgeJobs(job) /\ job[r].op = "cli"
          /\ mustChange' = (mustChange /\ ~job[r].flag)
      BY <1>5, <2>2 DEF StorePassword
    <3> QED BY <1>0, <3>1, Aging DEF Knows
  <2> QED BY <2>1, <2>2
<1>6. CASE ScanSessions(r)
  <2>1. /\ pc[r] = "scan" /\ pc'[r] = "commit"
        /\ job'[r] = [job[r] EXCEPT !.scanned = Live]
        /\ UNCHANGED <<mustChange, token>> /\ Live' = Live
    BY <1>0, <1>6 DEF ScanSessions, account, Live
  <2>2. job[r] \in Jobs
    BY <1>0
  <2>3. /\ job'[r].op = job[r].op /\ job'[r].flag = job[r].flag
        /\ job'[r].scanned = Live
    BY <2>1, <2>2 DEF Jobs
  <2> QED BY <2>1, <2>3 DEF Knows
<1> QED BY <1>2, <1>3, <1>4, <1>5, <1>6 DEF Proceed

(* No step makes it wrong, as long as handlers do not overlap.             *)
LEMMA CurrentStep ==
  ASSUME IInv, OneAtATime, OneAtATime', Current, [Next]_vars
  PROVE  Current'
<1>1. CASE UNCHANGED vars
  BY <1>1 DEF vars, account, history, Current, Knows, Live
<1>2. ASSUME NEW t \in Tokens, Expire(t) PROVE Current'
  BY <1>2 DEF Expire, account, history, Current, Knows, Live
<1>3. ASSUME NEW r \in Slots, Arrive(r) \/ Proceed(r) \/ Fail(r)
      PROVE  Current'
  <2>1. ASSUME NEW q \in Slots \ {r} PROVE Knows(q)'
    BY <1>3, <2>1, OthersIdle DEF Knows
  <2>2. Knows(r)'
    <3>1. CASE Fail(r)
      BY <3>1 DEF Fail, End, IInv, TypeOK, Knows
    <3> QED BY <1>3, <3>1, KnowsArrive, KnowsProceed DEF Current
  <2> QED BY <2>1, <2>2 DEF Current
<1> QED BY <1>1, <1>2, <1>3 DEF Next

(* One handler at a time, what each has read stays true.                   *)
LEMMA ReadsStayTrue == Spec /\ []OneAtATime => []Current
<1>1. Init => Current
  BY DEF Init, Current, Knows
<1>2. IInv /\ OneAtATime /\ OneAtATime' /\ Current /\ [Next]_vars => Current'
  BY CurrentStep
<1> QED BY <1>1, <1>2, Invariant, PTL DEF Spec

(* A temporary password keeps its flag until it is changed, as long as     *)
(* handlers do not overlap.                                                *)
THEOREM FlagStays ==
  Spec /\ []OneAtATime => []TemporaryPasswordMustBeChanged
<1>1. Init => TemporaryPasswordMustBeChanged
  BY DEF Init, TemporaryPasswordMustBeChanged
<1>2. ASSUME IInv, Current, TemporaryPasswordMustBeChanged, [Next]_vars
      PROVE  TemporaryPasswordMustBeChanged'
  <2>1. CASE UNCHANGED <<issued, mustChange>>
    BY <1>2, <2>1 DEF TemporaryPasswordMustBeChanged
  <2>2. CASE ~UNCHANGED <<issued, mustChange>>
    <3>1. PICK r \in Slots : \/ Rehash(r) /\ mustChange' = mustChange
                             \/ StorePassword(r) \/ CommitReset(r)
      BY <1>2, <2>2, FlagWriters
    <3>2. Knows(r)
      BY <1>2 DEF Current
    <3>3. CASE Rehash(r) /\ mustChange' = mustChange
      <4>1. issued' = issued
        BY <3>2, <3>3 DEF Rehash, Knows
      <4> QED BY <1>2, <3>3, <4>1 DEF TemporaryPasswordMustBeChanged
    <3>4. CASE StorePassword(r)
      BY <3>4 DEF StorePassword, TemporaryPasswordMustBeChanged
    <3>5. CASE CommitReset(r)
      BY <1>2, <3>2, <3>5
         DEF CommitReset, Knows, IInv, TypeOK, TemporaryPasswordMustBeChanged
    <3> QED BY <3>1, <3>3, <3>4, <3>5
  <2> QED BY <2>1, <2>2
<1> QED BY <1>1, <1>2, Invariant, ReadsStayTrue, PTL DEF Spec

(* No session outlives a reset, as long as handlers do not overlap and the *)
(* operator's reset is not cut in two.                                     *)
THEOREM SessionsEnd ==
  Spec /\ []OneAtATime /\ CommandsFinish => []NoSessionSurvivesReset
<1>1. Init => NoSessionSurvivesReset
  BY DEF Init, NoSessionSurvivesReset, Survivors, Live
<1>2. ASSUME IInv, Current, NoSessionSurvivesReset, [Next]_vars,
             \A r \in Slots :
               job[r].op = "cli" /\ pc[r] # "store" /\ Fail(r) => Live = {}
      PROVE  NoSessionSurvivesReset'
  <2>1. SUFFICES ASSUME NEW t \in Survivors' PROVE FALSE
    BY DEF NoSessionSurvivesReset
  <2>2. PICK r \in Slots : Overlap(r, t)
    BY <1>2, <2>1, SurviveStep DEF NoSessionSurvivesReset
  <2>3. /\ pc[r] # "idle" /\ pc'[r] = "idle" /\ Knows(r)
        /\ t \in Tokens /\ token'[t] = "live"
        /\ token \in [Tokens -> {"none", "live", "revoked"}]
    BY <1>2, <2>1, <2>2
       DEF Overlap, Current, Survivors, Live, IInv, TypeOK
  <2>4. Arrive(r) \/ Proceed(r) \/ Fail(r)
    <3>1. PICK q \in Slots : Arrive(q) \/ Proceed(q) \/ Fail(q)
      BY <1>2, <2>3 DEF Next, Expire, vars
    <3> QED BY <1>2, <2>3, <3>1, OthersStay
  <2>5. CASE pc[r] = "issue" /\ job[r].pre
    BY <2>3, <2>5 DEF Knows
  <2>6. CASE pc[r] = "commit" /\ t \notin job[r].scanned
    <3>1. token[t] # "live"
      BY <2>3, <2>6 DEF Knows, Live
    <3>2. CommitReset(r) \/ CommitRevocations(r) \/ Fail(r)
      BY <2>4, <2>6 DEF Arrive, Login, Refresh, Logout, ChangePassword,
                        ResetMember, ResetPassword, Begin, Proceed, Rehash,
                        Rotate, Issue, Revoke, StorePassword, ScanSessions
    <3> QED BY <2>3, <3>1, <3>2
              DEF CommitReset, CommitRevocations, Fail, Revoked
  <2>7. CASE job[r].op = "cli" /\ pc[r] # "store" /\ token' = token
    <3>1. ~Revoke(r)
      BY <2>3, <2>7 DEF Revoke, Knows, Live
    <3>2. ~Arrive(r)
      BY <2>3 DEF Arrive, Login, Refresh, Logout, ChangePassword,
                  ResetMember, ResetPassword, Begin
    <3>3. ~Rehash(r) /\ ~Issue(r) /\ ~StorePassword(r) /\ ~CommitReset(r)
      BY <2>3, <2>7 DEF Rehash, Issue, StorePassword, CommitReset, Knows
    <3>4. ~Rotate(r) /\ ~ScanSessions(r)
      BY <1>2, <2>3 DEF Rotate, ScanSessions, GoTo, IInv, TypeOK
    <3>5. CASE Fail(r)
      BY <1>2, <2>3, <2>7, <3>5 DEF Live
    <3>6. CASE CommitRevocations(r)
      BY <2>3, <3>6 DEF CommitRevocations, Revoked, Knows, Live
    <3> QED BY <2>4, <3>1, <3>2, <3>3, <3>4, <3>5, <3>6 DEF Proceed
  <2> QED BY <2>2, <2>5, <2>6, <2>7 DEF Overlap
<1>3. IInv /\ Current /\ NoSessionSurvivesReset /\ [Next]_vars
      /\ [\A r \in Slots :
            job[r].op = "cli" /\ pc[r] # "store" /\ Fail(r) => Live = {}]_vars
        => NoSessionSurvivesReset'
  <2>1. CASE UNCHANGED vars
    BY <2>1 DEF vars, history, NoSessionSurvivesReset, Survivors, HalfReset,
                Live
  <2> QED BY <1>2, <2>1
<1> QED
  BY <1>1, <1>3, Invariant, ReadsStayTrue, PTL DEF Spec, CommandsFinish

-----------------------------------------------------------------------------
(* Handlers that do not overlap implement the promise.                     *)

(* While the handlers of the others are idle, r alone may be in the middle *)
(* of an exchange.                                                         *)
ExchangingMatches ==
  \A r \in Slots :
    (\A q \in Slots \ {r} : pc[q] = "idle") =>
      Exchanging = IF pc[r] = "issue" /\ job[r].op = "refresh"
                   THEN {job[r].token} ELSE {}

LEMMA ExchangingIs == ExchangingMatches
BY DEF ExchangingMatches, Exchanging

(* What holds of handlers that do not overlap, without the operator.       *)
SInv == IInv /\ Current /\ OneAtATime /\ NoCommand

(* Before and after a step of r, r alone may be in the middle of one.      *)
LEMMA ExchangingBefore ==
  ASSUME SInv, SInv', NEW r \in Slots, Arrive(r) \/ Proceed(r) \/ Fail(r)
  PROVE  /\ Exchanging = IF pc[r] = "issue" /\ job[r].op = "refresh"
                         THEN {job[r].token} ELSE {}
         /\ Exchanging' = IF pc'[r] = "issue" /\ job'[r].op = "refresh"
                          THEN {job'[r].token} ELSE {}
<1>1. \A q \in Slots \ {r} : pc[q] = "idle" /\ pc'[q] = "idle"
  BY OthersIdle DEF SInv
<1>2. ExchangingMatches'
  BY ExchangingIs, PTL
<1> QED BY <1>1, <1>2, ExchangingIs DEF ExchangingMatches

(* Reading is nothing that the promise sees.                               *)
LEMMA PromiseArrive ==
  ASSUME SInv, SInv', NEW r \in Slots, Arrive(r)
  PROVE  UNCHANGED Promise!vars
<1>1. pc[r] = "idle" /\ UNCHANGED <<password, mustChange, token>>
  BY DEF Arrive, Login, Refresh, Logout, ChangePassword, ResetMember,
         ResetPassword, Begin, account
<1>2. ~(pc'[r] = "issue" /\ job'[r].op = "refresh")
  <2>1. /\ \A j : [NoJob EXCEPT !.op = "login", !.password = password,
                                !.issued = issued].op = "login"
        /\ pc \in [Slots -> Stages] /\ job \in [Slots -> Jobs]
    BY DEF NoJob, SInv, IInv, TypeOK
  <2> QED BY <2>1 DEF Arrive, Login, Refresh, Logout, ChangePassword,
                      ResetMember, ResetPassword, Begin
<1>3. Exchanging = {} /\ Exchanging' = {}
  BY <1>1, <1>2, ExchangingBefore
<1>4. Live' = Live
  BY <1>1 DEF Live
<1> QED BY <1>1, <1>3, <1>4 DEF Promise!vars

(* A handler that dies closes the session it was exchanging, or nothing.   *)
LEMMA PromiseFail ==
  ASSUME SInv, SInv', NEW r \in Slots, Fail(r)
  PROVE  [Promise!Next]_(Promise!vars)
<1>1. /\ pc[r] # "idle" /\ pc'[r] = "idle" /\ Knows(r)
      /\ UNCHANGED <<password, mustChange, token>> /\ Live' = Live
  BY DEF Fail, End, account, SInv, IInv, TypeOK, Current, Live
<1>2. Exchanging' = {}
  BY <1>1, ExchangingBefore
<1>3. CASE pc[r] = "issue" /\ job[r].op = "refresh"
  <2>1. Exchanging = {job[r].token}
    BY <1>3, ExchangingBefore
  <2>2. job[r].token \in Tokens /\ job[r].token \notin Live
    BY <1>1, <1>3 DEF Knows, Live
  <2>3. Promise!Close(job[r].token)
    BY <1>1, <1>2, <2>1, <2>2 DEF Promise!Close
  <2> QED BY <2>2, <2>3 DEF Promise!Next
<1>4. CASE ~(pc[r] = "issue" /\ job[r].op = "refresh")
  <2>1. Exchanging = {}
    BY <1>4, ExchangingBefore
  <2> QED BY <1>1, <1>2, <2>1 DEF Promise!vars
<1> QED BY <1>3, <1>4

(* A session is opened, exchanged or closed.                               *)
LEMMA PromiseTokens ==
  ASSUME SInv, SInv', NEW r \in Slots, Rotate(r) \/ Issue(r) \/ Revoke(r)
  PROVE  [Promise!Next]_(Promise!vars)
<1>0. /\ Knows(r) /\ pc \in [Slots -> Stages]
      /\ token \in [Tokens -> {"none", "live", "revoked"}]
      /\ UNCHANGED <<password, mustChange>>
  BY DEF SInv, IInv, TypeOK, Current, Rotate, Issue, Revoke, account
<1> DEFINE t == job[r].token
<1>1. CASE Rotate(r)
  <2>1. /\ pc[r] = "rotate" /\ pc'[r] = "issue" /\ job' = job
        /\ job[r].op = "refresh" /\ t \in Live
        /\ token' = [token EXCEPT ![t] = "revoked"]
    BY <1>0, <1>1 DEF Rotate, GoTo, Knows
  <2>2. Live' = Live \ {t}
    BY <1>0, <2>1 DEF Live
  <2>3. Exchanging = {} /\ Exchanging' = {t}
    BY <1>1, <2>1, ExchangingBefore DEF Proceed
  <2> QED BY <1>0, <2>1, <2>2, <2>3 DEF Promise!vars
<1>2. CASE Revoke(r)
  <2>1. /\ pc[r] = "revoke" /\ pc'[r] = "idle" /\ t \in Live
        /\ token' = [token EXCEPT ![t] = "revoked"]
    BY <1>0, <1>2 DEF Revoke, End, Knows
  <2>2. Live' = Live \ {t}
    BY <1>0, <2>1 DEF Live
  <2>3. Exchanging = {} /\ Exchanging' = {}
    BY <1>2, <2>1, ExchangingBefore DEF Proceed
  <2>4. t \in Tokens /\ Promise!Close(t)
    BY <1>0, <2>1, <2>2, <2>3 DEF Promise!Close, Live
  <2> QED BY <2>4 DEF Promise!Next
<1>3. CASE Issue(r)
  <2>1. PICK u \in Tokens :
          /\ pc[r] = "issue" /\ pc'[r] = "idle"
          /\ token[u] # "live" /\ u # t
          /\ token' = [token EXCEPT ![u] = "live"]
    BY <1>0, <1>3 DEF Issue, End, Fresh
  <2>2. u \notin Live /\ Live' = Live \cup {u}
    BY <1>0, <2>1 DEF Live
  <2>3. Exchanging' = {}
    BY <1>3, <2>1, ExchangingBefore DEF Proceed
  <2>4. CASE job[r].op = "refresh"
    <3>1. Exchanging = {t} /\ t \in Tokens /\ t \notin Live
      BY <1>0, <1>3, <2>1, <2>4, ExchangingBefore DEF Proceed, Knows, Live
    <3>2. Promise!Exchange(t, u)
      BY <1>0, <2>1, <2>2, <2>3, <3>1 DEF Promise!Exchange
    <3> QED BY <3>1, <3>2 DEF Promise!Next
  <2>5. CASE job[r].op # "refresh"
    <3>1. Exchanging = {}
      BY <1>3, <2>1, <2>5, ExchangingBefore DEF Proceed
    <3>2. Promise!Open(u)
      BY <1>0, <2>1, <2>2, <2>3, <3>1 DEF Promise!Open
    <3> QED BY <3>2 DEF Promise!Next
  <2> QED BY <2>4, <2>5
<1> QED BY <1>1, <1>2, <1>3

(* A password is changed or reset, or stored again as it was.              *)
LEMMA PromisePasswords ==
  ASSUME SInv, SInv', NEW r \in Slots,
         \/ Rehash(r) \/ StorePassword(r) \/ ScanSessions(r)
         \/ CommitReset(r) \/ CommitRevocations(r)
  PROVE  [Promise!Next]_(Promise!vars)
<1>0. /\ Knows(r) /\ pc \in [Slots -> Stages] /\ job \in [Slots -> Jobs]
      /\ token \in [Tokens -> {"none", "live", "revoked"}]
      /\ mustChange \in BOOLEAN /\ job[r].op # "cli"
  BY DEF SInv, IInv, TypeOK, Current, NoCommand
<1>1. CASE Rehash(r)
  <2>1. /\ pc[r] = "rehash" /\ job' = job /\ job[r].op = "login"
        /\ UNCHANGED <<password, mustChange, token>> /\ Live' = Live
    BY <1>0, <1>1 DEF Rehash, GoTo, Knows, Live
  <2>2. Exchanging = {} /\ Exchanging' = {}
    BY <1>1, <2>1, ExchangingBefore DEF Proceed
  <2> QED BY <2>1, <2>2 DEF Promise!vars
<1>2. CASE ScanSessions(r)
  <2>1. /\ pc[r] = "scan" /\ pc'[r] = "commit"
        /\ UNCHANGED <<password, mustChange, token>> /\ Live' = Live
    BY <1>0, <1>2 DEF ScanSessions, account, Live
  <2>2. Exchanging = {} /\ Exchanging' = {}
    BY <1>2, <2>1, ExchangingBefore DEF Proceed
  <2> QED BY <2>1, <2>2 DEF Promise!vars
<1>3. CASE StorePassword(r)
  <2>1. /\ pc[r] = "store" /\ pc'[r] = "idle"
        /\ password' = job[r].password /\ mustChange' = FALSE
        /\ job[r].password \in Passwords /\ Live' = Live
    BY <1>0, <1>3
       DEF StorePassword, End, Knows, Live, SInv, IInv, PasswordsInHand
  <2>2. Exchanging = {} /\ Exchanging' = {}
    BY <1>3, <2>1, ExchangingBefore DEF Proceed
  <2>3. Promise!Change(job[r].password)
    BY <2>1, <2>2 DEF Promise!Change
  <2> QED BY <2>1, <2>3 DEF Promise!Next
<1>4. CASE CommitReset(r)
  <2>1. /\ pc[r] = "commit" /\ pc'[r] = "idle"
        /\ password' = job[r].password /\ mustChange' = TRUE
        /\ job[r].password \in Passwords /\ token' = Revoked(Live)
    BY <1>0, <1>4 DEF CommitReset, Knows, SInv, IInv, PasswordsInHand
  <2>2. Live' = {}
    BY <1>0, <2>1 DEF Revoked, Live
  <2>3. Exchanging' = {}
    BY <1>4, <2>1, ExchangingBefore DEF Proceed
  <2>4. Promise!Reset(job[r].password)
    BY <2>1, <2>2, <2>3 DEF Promise!Reset
  <2> QED BY <2>1, <2>4 DEF Promise!Next
<1> QED BY <1>0, <1>1, <1>2, <1>3, <1>4 DEF CommitRevocations

(* Every step is one of the promise or none that it sees.                  *)
LEMMA PromiseStep ==
  ASSUME SInv, SInv', [Next]_vars
  PROVE  [Promise!Next]_(Promise!vars)
<1>1. CASE UNCHANGED vars
  BY <1>1 DEF vars, account, Promise!vars, Live, Exchanging
<1>2. ASSUME NEW t \in Tokens, Expire(t) PROVE UNCHANGED Promise!vars
  BY <1>2 DEF Expire, account, Promise!vars, Live, Exchanging
<1>3. ASSUME NEW r \in Slots, Arrive(r) \/ Proceed(r) \/ Fail(r)
      PROVE  [Promise!Next]_(Promise!vars)
  BY <1>3, PromiseArrive, PromiseFail, PromiseTokens, PromisePasswords
     DEF Proceed
<1> QED BY <1>1, <1>2, <1>3 DEF Next

(* Handlers that do not overlap, without the operator's reset, implement   *)
(* the promise of an account.                                              *)
THEOREM PromiseKept ==
  Spec /\ []OneAtATime /\ []NoCommand => KeepsPromise
<1>1. Init => Promise!Init
  <2>1. SUFFICES ASSUME Init PROVE Promise!Init
    OBVIOUS
  <2>2. Live = {} /\ Exchanging = {}
    BY <2>1 DEF Init, Live, Exchanging
  <2> QED BY <2>1, <2>2 DEF Init, Promise!Init
<1>2. IInv /\ Current /\ OneAtATime /\ NoCommand => SInv
  BY DEF SInv
<1>3. SInv /\ SInv' /\ [Next]_vars => [Promise!Next]_(Promise!vars)
  BY PromiseStep
<1> QED
  BY <1>1, <1>2, <1>3, Invariant, ReadsStayTrue, PTL
     DEF Spec, KeepsPromise, Promise!Spec
-----------------------------------------------------------------------------
(* Where no slot runs commands of the operator, no                         *)
(* command is ever under way.                                              *)
LEMMA NobodyCommands ==
  ASSUME Operators = {}
  PROVE  Spec => []NoCommand
<1>1. Init => NoCommand
  BY DEF Init, NoCommand, NoJob
<1>2. TypeOK /\ NoCommand /\ [Next]_vars => NoCommand'
  <2> SUFFICES ASSUME TypeOK, NoCommand, [Next]_vars, NEW q \in Slots
               PROVE  job'[q].op # "cli"
    BY DEF NoCommand
  <2>0. job \in [Slots -> Jobs] /\ job[q].op # "cli"
    BY DEF TypeOK, NoCommand
  <2>1. ASSUME NEW r \in Slots, End(r) PROVE job'[q].op # "cli"
    BY <2>0, <2>1 DEF End, NoJob
  <2>2. ASSUME NEW r \in Slots, NEW at, NEW j, Begin(r, at, j), j.op # "cli"
        PROVE  job'[q].op # "cli"
    BY <2>0, <2>2 DEF Begin
  <2>3. CASE UNCHANGED job
    BY <2>0, <2>3
  <2>4. ASSUME NEW r \in Slots, Arrive(r) PROVE job'[q].op # "cli"
    <3>1. CASE Login(r)
      <4>1. PICK at : Begin(r, at, [NoJob EXCEPT !.op = "login",
                                                 !.password = password,
                                                 !.issued = issued])
        BY <3>1 DEF Login
      <4>2. [NoJob EXCEPT !.op = "login", !.password = password,
                          !.issued = issued].op = "login"
        BY NothingDone DEF Jobs
      <4> QED BY <2>2, <4>1, <4>2
    <3>2. ASSUME NEW op \in {"refresh", "logout"}, NEW at, NEW t \in Tokens,
                 Begin(r, at, [NoJob EXCEPT !.op = op, !.token = t])
          PROVE  job'[q].op # "cli"
      <4>1. [NoJob EXCEPT !.op = op, !.token = t].op = op
        BY NothingDone DEF Jobs
      <4> QED BY <2>2, <3>2, <4>1
    <3>3. ASSUME NEW op \in {"change", "reset"}, NEW at, NEW new \in Passwords,
                 Begin(r, at, [NoJob EXCEPT !.op = op, !.password = new,
                                            !.flag = mustChange])
          PROVE  job'[q].op # "cli"
      <4>1. [NoJob EXCEPT !.op = op, !.password = new,
                          !.flag = mustChange].op = op
        BY NothingDone DEF Jobs
      <4> QED BY <2>2, <3>3, <4>1
    <3>4. CASE Refresh(r) \/ Logout(r)
      <4>1. CASE Refresh(r)
        <5>1. PICK t \in Tokens :
                Begin(r, "rotate", [NoJob EXCEPT !.op = "refresh",
                                                 !.token = t])
          BY <4>1 DEF Refresh, Live
        <5> QED BY <3>2, <5>1
      <4>2. CASE Logout(r)
        <5>1. PICK t \in Tokens :
                Begin(r, "revoke", [NoJob EXCEPT !.op = "logout",
                                                 !.token = t])
          BY <4>2 DEF Logout, Live
        <5> QED BY <3>2, <5>1
      <4> QED BY <3>4, <4>1, <4>2
    <3>5. CASE ChangePassword(r) \/ ResetMember(r)
      <4>1. CASE ChangePassword(r)
        <5>1. PICK new \in Passwords :
                Begin(r, "store", [NoJob EXCEPT !.op = "change",
                                                !.password = new,
                                                !.flag = mustChange])
          BY <4>1 DEF ChangePassword
        <5> QED BY <3>3, <5>1
      <4>2. CASE ResetMember(r)
        <5>1. PICK new \in Passwords :
                Begin(r, "scan", [NoJob EXCEPT !.op = "reset",
                                               !.password = new,
                                               !.flag = mustChange])
          BY <4>2 DEF ResetMember
        <5> QED BY <3>3, <5>1
      <4> QED BY <3>5, <4>1, <4>2
    <3> QED BY <2>4, <3>1, <3>4, <3>5 DEF Arrive, ResetPassword
  <2>5. CASE job' = AgeJobs(job)
    BY <2>0, <2>5, Aging
  <2>6. ASSUME NEW r \in Slots, job' = [AgeJobs(job) EXCEPT ![r] = NoJob]
        PROVE  job'[q].op # "cli"
    BY <2>0, <2>6, Aging DEF NoJob
  <2>7. ASSUME NEW r \in Slots, ScanSessions(r) PROVE job'[q].op # "cli"
    <3>1. job' = [job EXCEPT ![r].scanned = Live]
      BY <2>7 DEF ScanSessions
    <3>2. job'[q] = IF q = r THEN [job[q] EXCEPT !.scanned = Live] ELSE job[q]
      BY <2>0, <3>1
    <3> QED BY <2>0, <3>2 DEF Jobs
  <2>8. ASSUME NEW r \in Slots, Proceed(r) \/ Fail(r) PROVE job'[q].op # "cli"
    BY <2>1, <2>3, <2>5, <2>6, <2>7, <2>8
       DEF Proceed, Fail, Rehash, Rotate, Issue, Revoke, StorePassword,
           CommitReset, CommitRevocations, GoTo
  <2> QED BY <2>3, <2>4, <2>8 DEF Next, Expire, vars
<1> QED BY <1>1, <1>2, Typing, PTL DEF Spec

(* Where one thread serves all requests and the operator resets nothing,   *)
(* nothing overlaps: for any passwords and tokens, no session outlives a   *)
(* reset, the flag of a temporary password stays, the promise is kept.     *)
THEOREM SerialPromise ==
  ASSUME NEW slot, Requests = {slot}, Operators = {}
  PROVE  Spec => /\ []NoSessionSurvivesReset
                 /\ []TemporaryPasswordMustBeChanged
                 /\ KeepsPromise
<1>1. OneAtATime
  BY DEF OneAtATime, Slots
<1>2. NoCommand /\ [Next]_vars =>
        [\A r \in Slots :
           job[r].op = "cli" /\ pc[r] # "store" /\ Fail(r) => Live = {}]_vars
  BY DEF NoCommand
<1>3. Spec => CommandsFinish
  BY <1>2, NobodyCommands, PTL DEF Spec, CommandsFinish
<1> QED BY <1>1, <1>3, NobodyCommands, FlagStays, SessionsEnd, PromiseKept, PTL
=============================================================================
