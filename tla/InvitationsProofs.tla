-------------------------- MODULE InvitationsProofs -------------------------
(* Theorems about Invitations, for any links, requests and PIN limit.      *)
EXTENDS Invitations, TLAPS

-----------------------------------------------------------------------------
(* The inductive invariant.                                                *)

(* A submission of a PIN was admitted with attempts left, at a count no    *)
(* greater than the wrong PINs answered since.                             *)
PinsInHand ==
  \A r \in Requests : pc[r] = "pin" =>
    /\ job[r].attempts < PinAttemptLimit
    /\ \A i \in job[r].links : job[r].attempts <= wrong[i]

(* An acceptance under way is that of a link whose PIN, if any, was given. *)
AcceptancesInHand ==
  \A r \in Requests : pc[r] \in {"look up", "join"} =>
    \A i \in job[r].links :
      mode[i] # "none" /\ (mode[i] = "LINK_AND_PIN" => i \in verified)

AcceptedExist == \A i \in accepted : mode[i] # "none"

IInv ==
  /\ TypeOK
  /\ PinsInHand /\ AcceptancesInHand /\ AcceptedExist
  /\ AttemptsCounted /\ AcceptanceNeedsPin

(* A handler that has read nothing has a job of the right kind.            *)
LEMMA NothingDone == NoJob \in Jobs
BY PinAttemptLimitAssumption DEF NoJob, Jobs, Modes

(* The invariant holds initially.                                          *)
LEMMA InvInit == Init => IInv
<1> SUFFICES ASSUME Init PROVE IInv
  OBVIOUS
<1>1. PinAttemptLimit \in Nat /\ PinAttemptLimit > 0
  BY PinAttemptLimitAssumption
<1>2. TypeOK
  <2>1. member \in BOOLEAN
    BY DEF Init
  <2> QED BY <1>1, <2>1, NothingDone DEF Init, TypeOK, Stages
<1>3. AttemptsCounted
  <2>1. \A i \in Links : attempts[i] = 0 /\ wrong[i] = 0
    BY DEF Init
  <2> SUFFICES ASSUME NEW i \in Links
               PROVE  attempts[i] <= wrong[i] /\ attempts[i] # PinAttemptLimit
    BY DEF AttemptsCounted
  <2>2. attempts[i] = 0 /\ wrong[i] = 0
    BY <2>1
  <2> QED BY <1>1, <2>2
<1> QED
  BY <1>2, <1>3 DEF Init, IInv, PinsInHand, AcceptancesInHand, AcceptedExist,
                    AcceptanceNeedsPin

(* A handler begins: the tables stay, and what it has read is recorded.    *)
LEMMA InvBegin ==
  ASSUME IInv, NEW r \in Requests,
         NEW at \in Stages \ {"idle", "join"}, NEW j \in Jobs,
         at = "pin" =>
           /\ j.attempts < PinAttemptLimit
           /\ \A i \in j.links : j.attempts <= wrong[i],
         at = "look up" =>
           \A i \in j.links :
             mode[i] # "none" /\ (mode[i] = "LINK_AND_PIN" => i \in verified),
         Begin(r, at, j)
  PROVE  IInv'
<1>1. /\ pc' = [pc EXCEPT ![r] = at] /\ job' = [job EXCEPT ![r] = j]
      /\ UNCHANGED <<rows, people, wrong>>
  BY DEF Begin
<1>2. /\ pc' \in [Requests -> Stages] /\ job' \in [Requests -> Jobs]
      /\ pc'[r] = at /\ job'[r] = j
      /\ \A q \in Requests \ {r} : pc'[q] = pc[q] /\ job'[q] = job[q]
  BY <1>1 DEF IInv, TypeOK
<1>3. TypeOK'
  <2>1. /\ UNCHANGED <<mode, accepted, revoked, expired, verified, attempts>>
        /\ UNCHANGED <<account, member, wrong>>
    BY <1>1 DEF rows, people
  <2>2. account' \in BOOLEAN /\ member' \in BOOLEAN
    BY <2>1 DEF IInv, TypeOK
  <2>3. /\ mode' \in [Links -> Modes \cup {"none"}]
        /\ attempts' \in [Links -> 0 .. PinAttemptLimit]
        /\ wrong' \in [Links -> 0 .. PinAttemptLimit]
    BY <2>1 DEF IInv, TypeOK
  <2>4. /\ accepted' \subseteq Links /\ revoked' \subseteq Links
        /\ expired' \subseteq Links /\ verified' \subseteq Links
    BY <2>1 DEF IInv, TypeOK
  <2>5. pc' \in [Requests -> Stages] /\ job' \in [Requests -> Jobs]
    BY <1>2
  <2> QED BY <2>2, <2>3, <2>4, <2>5 DEF TypeOK
<1>4. PinsInHand'
  BY <1>1, <1>2 DEF IInv, PinsInHand
<1>5. AcceptancesInHand'
  <2> SUFFICES ASSUME NEW q \in Requests, pc'[q] \in {"look up", "join"},
                      NEW i \in job'[q].links
               PROVE  /\ mode'[i] # "none"
                      /\ mode'[i] = "LINK_AND_PIN" => i \in verified'
    BY DEF AcceptancesInHand
  <2>1. mode' = mode /\ verified' = verified
    BY <1>1 DEF rows
  <2>2. CASE q = r
    BY <1>2, <2>1, <2>2 DEF Stages
  <2>3. CASE q # r
    BY <1>2, <2>1, <2>3 DEF IInv, AcceptancesInHand
  <2> QED BY <2>2, <2>3
<1>6. AcceptedExist' /\ AttemptsCounted' /\ AcceptanceNeedsPin'
  BY <1>1 DEF IInv, AcceptedExist, AttemptsCounted, AcceptanceNeedsPin, rows
<1> QED BY <1>3, <1>4, <1>5, <1>6 DEF IInv

(* A handler ends: whatever it writes, no link loses its mode or its PIN,  *)
(* and no wrong PIN is forgotten.                                          *)
LEMMA InvEnd ==
  ASSUME IInv, NEW r \in Requests, End(r),
         \A i \in Links : mode[i] # "none" => mode'[i] = mode[i],
         verified \subseteq verified',
         \A i \in Links : wrong[i] <= wrong'[i],
         mode' \in [Links -> Modes \cup {"none"}],
         accepted' \subseteq Links /\ revoked' \subseteq Links,
         expired' = expired /\ verified' \subseteq Links,
         attempts' \in [Links -> 0 .. PinAttemptLimit],
         wrong' \in [Links -> 0 .. PinAttemptLimit],
         account' \in BOOLEAN /\ member' \in BOOLEAN,
         AcceptedExist', AttemptsCounted', AcceptanceNeedsPin'
  PROVE  IInv'
<1>1. /\ pc' = [pc EXCEPT ![r] = "idle"] /\ job' = [job EXCEPT ![r] = NoJob]
  BY DEF End
<1>2. /\ pc' \in [Requests -> Stages] /\ job' \in [Requests -> Jobs]
      /\ pc'[r] = "idle"
      /\ \A q \in Requests \ {r} : pc'[q] = pc[q] /\ job'[q] = job[q]
  BY <1>1, NothingDone DEF IInv, TypeOK, Stages
<1>3. TypeOK'
  BY <1>2 DEF IInv, TypeOK
<1>4. PinsInHand'
  <2> SUFFICES ASSUME NEW q \in Requests, pc'[q] = "pin"
               PROVE  /\ job'[q].attempts < PinAttemptLimit
                      /\ \A i \in job'[q].links : job'[q].attempts <= wrong'[i]
    BY DEF PinsInHand
  <2>1. /\ q # r /\ pc[q] = "pin" /\ job'[q] = job[q]
        /\ job[q].links \subseteq Links /\ job[q].attempts \in Nat
        /\ \A i \in Links : wrong[i] \in Nat /\ wrong'[i] \in Nat
    BY <1>2, PinAttemptLimitAssumption DEF IInv, TypeOK, Jobs
  <2> QED BY <2>1 DEF IInv, PinsInHand
<1>5. AcceptancesInHand'
  <2> SUFFICES ASSUME NEW q \in Requests, pc'[q] \in {"look up", "join"},
                      NEW i \in job'[q].links
               PROVE  /\ mode'[i] # "none"
                      /\ mode'[i] = "LINK_AND_PIN" => i \in verified'
    BY DEF AcceptancesInHand
  <2>1. /\ q # r /\ pc[q] \in {"look up", "join"} /\ i \in job[q].links
        /\ i \in Links
    BY <1>2 DEF IInv, TypeOK, Jobs
  <2> QED BY <2>1 DEF IInv, AcceptancesInHand
<1> QED BY <1>3, <1>4, <1>5 DEF IInv

(* Every step of a handler keeps it: reading first.                        *)
LEMMA InvArrive ==
  ASSUME IInv, NEW r \in Requests, Arrive(r)
  PROVE  IInv'
<1>1. CASE Create(r)
  <2>1. PICK m \in Modes :
          Begin(r, "create",
                [NoJob EXCEPT !.op = "create", !.mode = m, !.links = Pending])
    BY <1>1 DEF Create, Modes
  <2>2. [NoJob EXCEPT !.op = "create", !.mode = m, !.links = Pending] \in Jobs
    <3>1. Pending \in SUBSET Links
      BY DEF Pending
    <3> QED BY <3>1, NothingDone DEF Jobs
  <2> QED BY <2>1, <2>2, InvBegin DEF Stages
<1>2. CASE Revoke(r)
  <2>1. PICK i \in Pending :
          Begin(r, "revoke", [NoJob EXCEPT !.op = "revoke", !.links = {i}])
    BY <1>2 DEF Revoke
  <2>2. [NoJob EXCEPT !.op = "revoke", !.links = {i}] \in Jobs
    <3>1. {i} \in SUBSET Links
      BY DEF Pending
    <3> QED BY <3>1, NothingDone DEF Jobs
  <2> QED BY <2>1, <2>2, InvBegin DEF Stages
<1>3. CASE VerifyPin(r)
  <2>1. PICK i \in Active, right \in BOOLEAN :
          /\ attempts[i] < PinAttemptLimit
          /\ Begin(r, "pin",
                   [NoJob EXCEPT !.op = "pin", !.links = {i}, !.right = right,
                                 !.attempts = attempts[i]])
    BY <1>3 DEF VerifyPin
  <2> DEFINE j == [NoJob EXCEPT !.op = "pin", !.links = {i}, !.right = right,
                                !.attempts = attempts[i]]
  <2>2. i \in Links /\ attempts[i] \in 0 .. PinAttemptLimit
    BY DEF Active, Pending, IInv, TypeOK
  <2>3. j \in Jobs /\ j.attempts = attempts[i] /\ j.links = {i}
    BY <2>2, NothingDone DEF Jobs
  <2>4. attempts[i] <= wrong[i]
    BY <2>2 DEF IInv, AttemptsCounted
  <2> QED BY <2>1, <2>3, <2>4, InvBegin DEF Stages
<1>4. CASE Accept(r)
  <2>1. PICK i \in Active, signedIn \in {FALSE, account} :
          /\ mode[i] = "LINK_AND_PIN" => i \in verified
          /\ Begin(r, "look up",
                   [NoJob EXCEPT !.op = "accept", !.links = {i},
                                 !.signedIn = signedIn])
    BY <1>4 DEF Accept
  <2> DEFINE j == [NoJob EXCEPT !.op = "accept", !.links = {i},
                                !.signedIn = signedIn]
  <2>2. i \in Links /\ mode[i] # "none" /\ signedIn \in BOOLEAN
    BY DEF Active, Pending, IInv, TypeOK
  <2>3. j \in Jobs /\ j.links = {i}
    BY <2>2, NothingDone DEF Jobs
  <2> QED BY <2>1, <2>2, <2>3, InvBegin DEF Stages
<1>5. CASE CreateUser(r) \/ AddMember(r) \/ RemoveMember(r)
  BY <1>5 DEF CreateUser, AddMember, RemoveMember, rows, IInv, TypeOK,
              PinsInHand, AcceptancesInHand, AcceptedExist, AttemptsCounted,
              AcceptanceNeedsPin
<1> QED BY <1>1, <1>2, <1>3, <1>4, <1>5 DEF Arrive

(* Then writing.                                                           *)
LEMMA InvProceed ==
  ASSUME IInv, NEW r \in Requests, Proceed(r)
  PROVE  IInv'
<1>0. /\ TypeOK /\ job[r] \in Jobs /\ job[r].links \subseteq Links
      /\ \A i \in Links : attempts[i] \in Nat /\ wrong[i] \in Nat
      /\ PinAttemptLimit \in Nat /\ PinAttemptLimit > 0
  BY PinAttemptLimitAssumption DEF IInv, TypeOK, Jobs
<1>1. CASE CommitCreate(r)
  <2>1. PICK k \in Links :
          /\ mode[k] = "none"
          /\ mode' = [mode EXCEPT ![k] = job[r].mode]
          /\ revoked' = revoked \cup job[r].links
          /\ End(r)
          /\ UNCHANGED <<accepted, expired, verified, attempts, people, wrong>>
    BY <1>1 DEF CommitCreate
  <2>2. /\ mode' \in [Links -> Modes \cup {"none"}]
        /\ \A i \in Links : mode[i] # "none" => mode'[i] = mode[i]
    BY <1>0, <2>1 DEF TypeOK, Jobs
  <2>3. AcceptedExist' /\ AcceptanceNeedsPin'
    BY <1>0, <2>1, <2>2
    DEF IInv, TypeOK, AcceptedExist, AcceptanceNeedsPin
  <2>4. AttemptsCounted'
    BY <2>1 DEF IInv, AttemptsCounted
  <2> QED BY <1>0, <2>1, <2>2, <2>3, <2>4, InvEnd DEF TypeOK, people
<1>2. CASE CommitRevoke(r)
  <2>1. AcceptedExist' /\ AcceptanceNeedsPin' /\ AttemptsCounted'
    BY <1>2
    DEF CommitRevoke, IInv, AcceptedExist, AcceptanceNeedsPin, AttemptsCounted
  <2> QED BY <1>0, <1>2, <2>1, InvEnd DEF CommitRevoke, TypeOK, people
<1>3. CASE CountAttempt(r)
  <2>1. PICK k \in job[r].links :
          /\ pc[r] = "pin"
          /\ attempts' = [attempts EXCEPT ![k] = job[r].attempts + 1]
          /\ revoked' = IF attempts'[k] >= PinAttemptLimit
                        THEN revoked \cup {k} ELSE revoked
          /\ wrong' = [wrong EXCEPT ![k] =
                         IF @ < PinAttemptLimit THEN @ + 1 ELSE @]
          /\ End(r)
          /\ UNCHANGED <<mode, accepted, expired, verified, people>>
    BY <1>3 DEF CountAttempt
  <2>2. /\ k \in Links /\ job[r].attempts \in Nat
        /\ job[r].attempts < PinAttemptLimit /\ job[r].attempts <= wrong[k]
        /\ wrong[k] \in 0 .. PinAttemptLimit
    BY <1>0, <2>1 DEF IInv, TypeOK, PinsInHand, Jobs
  <2>3. /\ attempts' \in [Links -> 0 .. PinAttemptLimit]
        /\ wrong' \in [Links -> 0 .. PinAttemptLimit]
        /\ attempts'[k] <= wrong'[k]
        /\ \A i \in Links : wrong[i] <= wrong'[i]
        /\ \A i \in Links \ {k} :
             attempts'[i] = attempts[i] /\ wrong'[i] = wrong[i]
    BY <1>0, <2>1, <2>2 DEF TypeOK
  <2>4. attempts'[k] = PinAttemptLimit => k \in revoked'
    BY <1>0, <2>1
  <2>5. AttemptsCounted'
    BY <2>1, <2>3, <2>4 DEF IInv, AttemptsCounted
  <2>6. AcceptedExist' /\ AcceptanceNeedsPin'
    BY <2>1 DEF IInv, AcceptedExist, AcceptanceNeedsPin
  <2> QED BY <1>0, <2>1, <2>2, <2>3, <2>5, <2>6, InvEnd DEF TypeOK, people
<1>4. CASE StampPin(r)
  <2>1. AcceptedExist' /\ AcceptanceNeedsPin' /\ AttemptsCounted'
    BY <1>4
    DEF StampPin, IInv, AcceptedExist, AcceptanceNeedsPin, AttemptsCounted
  <2> QED BY <1>0, <1>4, <2>1, InvEnd DEF StampPin, TypeOK, people
<1>5. CASE LookUp(r)
  <2>1. AcceptedExist' /\ AcceptanceNeedsPin' /\ AttemptsCounted'
    BY <1>5 DEF LookUp, rows, IInv, AcceptedExist, AcceptanceNeedsPin,
                AttemptsCounted
  <2>2. CASE End(r)
    <3>1. /\ UNCHANGED <<mode, accepted, revoked, expired, verified, attempts>>
          /\ UNCHANGED <<account, member, wrong>>
      BY <1>5 DEF LookUp, rows, people
    <3> QED BY <1>0, <2>1, <2>2, <3>1, InvEnd DEF TypeOK
  <2>3. CASE ~End(r)
    <3>1. /\ pc[r] = "look up" /\ pc' = [pc EXCEPT ![r] = "join"]
          /\ job' = [job EXCEPT ![r].member = member]
          /\ UNCHANGED <<rows, people, wrong>>
      BY <1>5, <2>3 DEF LookUp
    <3>2. /\ job' \in [Requests -> Jobs] /\ job'[r].links = job[r].links
          /\ pc' \in [Requests -> Stages] /\ pc'[r] = "join"
          /\ \A q \in Requests \ {r} : pc'[q] = pc[q] /\ job'[q] = job[q]
      BY <1>0, <3>1 DEF TypeOK, Jobs, Stages
    <3>3. TypeOK'
      BY <1>0, <3>1, <3>2 DEF TypeOK, rows, people
    <3>4. PinsInHand'
      BY <3>1, <3>2 DEF IInv, PinsInHand
    <3>5. AcceptancesInHand'
      <4> SUFFICES ASSUME NEW q \in Requests, pc'[q] \in {"look up", "join"},
                          NEW i \in job'[q].links
                   PROVE  /\ mode'[i] # "none"
                          /\ mode'[i] = "LINK_AND_PIN" => i \in verified'
        BY DEF AcceptancesInHand
      <4>1. mode' = mode /\ verified' = verified
        BY <3>1 DEF rows
      <4>2. pc[q] \in {"look up", "join"} /\ i \in job[q].links
        BY <3>1, <3>2
      <4> QED BY <4>1, <4>2 DEF IInv, AcceptancesInHand
    <3> QED BY <2>1, <3>3, <3>4, <3>5 DEF IInv
  <2> QED BY <2>2, <2>3
<1>6. CASE Join(r)
  <2>1. \A i \in job[r].links :
          mode[i] # "none" /\ (mode[i] = "LINK_AND_PIN" => i \in verified)
    BY <1>6 DEF Join, IInv, AcceptancesInHand
  <2>2. AcceptedExist' /\ AcceptanceNeedsPin' /\ AttemptsCounted'
    BY <1>6, <2>1 DEF Join, IInv, AcceptedExist, AcceptanceNeedsPin,
                      AttemptsCounted
  <2>3. member' \in BOOLEAN /\ account' \in BOOLEAN
    BY <1>6 DEF Join
  <2> QED BY <1>0, <1>6, <2>2, <2>3, InvEnd DEF Join, TypeOK
<1> QED BY <1>1, <1>2, <1>3, <1>4, <1>5, <1>6 DEF Proceed

(* And so does every step.                                                 *)
LEMMA InvStep == IInv /\ [Next]_vars => IInv'
<1> SUFFICES ASSUME IInv, [Next]_vars PROVE IInv'
  OBVIOUS
<1>0. /\ \A i \in Links : attempts[i] \in Nat /\ wrong[i] \in Nat
      /\ PinAttemptLimit \in Nat
  BY PinAttemptLimitAssumption DEF IInv, TypeOK
<1>1. CASE UNCHANGED vars
  BY <1>1 DEF vars, rows, people, IInv, TypeOK, PinsInHand, AcceptancesInHand,
              AcceptedExist, AttemptsCounted, AcceptanceNeedsPin
<1>2. ASSUME NEW r \in Requests, Fail(r) PROVE IInv'
  <2>1. AcceptedExist' /\ AcceptanceNeedsPin' /\ AttemptsCounted'
    BY <1>2 DEF Fail, rows, IInv, AcceptedExist, AcceptanceNeedsPin,
                AttemptsCounted
  <2> QED BY <1>0, <1>2, <2>1, InvEnd DEF Fail, rows, people, IInv, TypeOK
<1>3. ASSUME NEW i \in Links, Expire(i) PROVE IInv'
  BY <1>3 DEF Expire, people, IInv, TypeOK, PinsInHand, AcceptancesInHand,
              AcceptedExist, AttemptsCounted, AcceptanceNeedsPin
<1> QED BY <1>1, <1>2, <1>3, InvArrive, InvProceed DEF Next

(* In every reachable state, what the handlers hold and the rows agree.    *)
THEOREM Invariant == Spec => []IInv
BY InvInit, InvStep, PTL DEF Spec

-----------------------------------------------------------------------------
(* What follows from it.                                                   *)

(* Every variable holds a value of its kind.                               *)
THEOREM Typing == Spec => []TypeOK
<1>1. IInv => TypeOK
  BY DEF IInv
<1> QED BY <1>1, Invariant, PTL

(* However many PINs are submitted at once, the count is never ahead of    *)
(* the wrong ones, and a full count closes the invitation.                 *)
THEOREM CountIsSound == Spec => []AttemptsCounted
<1>1. IInv => AttemptsCounted
  BY DEF IInv
<1> QED BY <1>1, Invariant, PTL

(* Nobody joins past the PIN.                                              *)
THEOREM PinIsAsked == Spec => []AcceptanceNeedsPin
<1>1. IInv => AcceptanceNeedsPin
  BY DEF IInv
<1> QED BY <1>1, Invariant, PTL

(* A second usable link is the work of overlapping creations only.         *)
THEOREM SecondLink == Spec => SecondLinkOnlyByOverlap
<1>1. ASSUME IInv, [Next]_vars,
             NEW i \in Active' \ Active, NEW k \in Active', k # i
      PROVE  \E r \in Requests : /\ pc[r] = "create" /\ pc'[r] = "idle"
                                 /\ k \notin job[r].links
  <2>1. /\ i \in Links /\ mode'[i] # "none" /\ k \in Active'
        /\ i \notin accepted' \cup revoked' \cup expired'
        /\ mode[i] = "none" \/ i \in accepted \cup revoked \cup expired
    BY <1>1 DEF Active, Pending
  <2>2. CASE /\ mode' = mode /\ accepted \subseteq accepted'
             /\ revoked \subseteq revoked' /\ expired \subseteq expired'
    BY <2>1, <2>2
  <2>3. CASE \E r \in Requests : CommitCreate(r)
    <3>1. PICK r \in Requests : CommitCreate(r)
      BY <2>3
    <3>2. PICK n \in Links :
            /\ pc[r] = "create" /\ pc' = [pc EXCEPT ![r] = "idle"]
            /\ mode[n] = "none" /\ mode' = [mode EXCEPT ![n] = job[r].mode]
            /\ revoked' = revoked \cup job[r].links
            /\ UNCHANGED <<accepted, expired>>
      BY <3>1 DEF CommitCreate, End
    <3>3. pc'[r] = "idle"
      BY <1>1, <3>2 DEF IInv, TypeOK
    <3>4. k \notin job[r].links
      BY <2>1, <3>2 DEF Active, Pending
    <3> QED BY <3>2, <3>3, <3>4
  <2>4. ASSUME NEW r \in Requests, Arrive(r)
        PROVE  mode' = mode /\ UNCHANGED <<accepted, revoked, expired>>
    BY <2>4 DEF Arrive, Create, Revoke, VerifyPin, Accept, Begin, CreateUser,
                AddMember, RemoveMember, rows
  <2>5. ASSUME NEW r \in Requests, Proceed(r), ~CommitCreate(r)
        PROVE  /\ mode' = mode /\ accepted \subseteq accepted'
               /\ revoked \subseteq revoked' /\ expired \subseteq expired'
    BY <2>5 DEF Proceed, CommitRevoke, CountAttempt, StampPin, LookUp, Join,
                rows
  <2> QED
    BY <1>1, <2>2, <2>3, <2>4, <2>5 DEF Next, Fail, Expire, rows, vars
<1>2. IInv /\ [Next]_vars =>
        [\A i \in Active' \ Active, k \in Active' :
           k # i => \E r \in Requests :
                      /\ pc[r] = "create" /\ pc'[r] = "idle"
                      /\ k \notin job[r].links]_vars
  BY <1>1
<1> QED BY <1>2, Invariant, PTL DEF Spec, SecondLinkOnlyByOverlap

-----------------------------------------------------------------------------
(* Handlers that do not overlap: what one of them has read is how it is.   *)

(* What the job of a handler says of the rows at its stage.                *)
Knows(r) ==
  /\ pc[r] = "create" => job[r].mode \in Modes /\ job[r].links = Pending
  /\ pc[r] \in {"revoke", "pin", "look up", "join"} =>
       \E i \in Pending :
         /\ job[r].links = {i}
         /\ pc[r] = "pin" => /\ mode[i] = "LINK_AND_PIN"
                             /\ job[r].attempts = attempts[i]

Current == \A r \in Requests : Knows(r)

(* A step of r leaves the stage and the job of the others alone.           *)
LEMMA OthersStay ==
  ASSUME IInv, NEW r \in Requests, Arrive(r) \/ Proceed(r) \/ Fail(r)
  PROVE  \A q \in Requests \ {r} : pc'[q] = pc[q] /\ job'[q] = job[q]
<1>0. pc \in [Requests -> Stages] /\ job \in [Requests -> Jobs]
  BY DEF IInv, TypeOK
<1>1. \/ \E at \in Stages : pc' = [pc EXCEPT ![r] = at]
      \/ pc' = pc
  BY DEF Arrive, Proceed, Fail, Create, Revoke, VerifyPin, Accept, CreateUser,
         AddMember, RemoveMember, CommitCreate, CommitRevoke, CountAttempt,
         StampPin, LookUp, Join, Begin, End, Stages
<1>2. \/ \E j : job' = [job EXCEPT ![r] = j]
      \/ job' = [job EXCEPT ![r].member = member]
      \/ job' = job
  BY DEF Arrive, Proceed, Fail, Create, Revoke, VerifyPin, Accept, CreateUser,
         AddMember, RemoveMember, CommitCreate, CommitRevoke, CountAttempt,
         StampPin, LookUp, Join, Begin, End
<1> QED BY <1>0, <1>1, <1>2

(* What happens to the person elsewhere leaves handlers and rows alone.    *)
LEMMA Elsewhere ==
  ASSUME NEW r \in Requests, CreateUser(r) \/ AddMember(r) \/ RemoveMember(r)
  PROVE  /\ UNCHANGED <<mode, accepted, revoked, expired, verified, attempts>>
         /\ UNCHANGED <<pc, job, wrong>>
BY DEF CreateUser, AddMember, RemoveMember, rows

(* A handler begins knowing what it has read.                              *)
LEMMA KnowsArrive ==
  ASSUME IInv, NEW r \in Requests,
         Create(r) \/ Revoke(r) \/ VerifyPin(r) \/ Accept(r)
  PROVE  Knows(r)' /\ pc[r] = "idle" /\ pc'[r] # "idle"
<1>0. /\ pc \in [Requests -> Stages] /\ job \in [Requests -> Jobs]
      /\ pc[r] = "idle" /\ UNCHANGED <<mode, attempts>> /\ Pending' = Pending
  BY DEF IInv, TypeOK, Create, Revoke, VerifyPin, Accept, Begin, rows, Pending
<1>1. CASE Create(r)
  <2>1. PICK m \in Modes :
          Begin(r, "create",
                [NoJob EXCEPT !.op = "create", !.mode = m, !.links = Pending])
    BY <1>1 DEF Create, Modes
  <2> DEFINE j == [NoJob EXCEPT !.op = "create", !.mode = m,
                                !.links = Pending]
  <2>2. pc'[r] = "create" /\ job'[r] = j
    BY <1>0, <2>1 DEF Begin
  <2>3. j.mode = m /\ j.links = Pending
    BY DEF NoJob
  <2> HIDE DEF j
  <2> QED BY <1>0, <2>2, <2>3 DEF Knows
<1>2. CASE Revoke(r)
  <2>1. PICK i \in Pending :
          Begin(r, "revoke", [NoJob EXCEPT !.op = "revoke", !.links = {i}])
    BY <1>2 DEF Revoke
  <2> DEFINE j == [NoJob EXCEPT !.op = "revoke", !.links = {i}]
  <2>2. pc'[r] = "revoke" /\ job'[r] = j
    BY <1>0, <2>1 DEF Begin
  <2>3. j.links = {i}
    BY DEF NoJob
  <2> HIDE DEF j
  <2> QED BY <1>0, <2>2, <2>3 DEF Knows
<1>3. CASE VerifyPin(r)
  <2>1. PICK i \in Pending, right \in BOOLEAN :
          /\ mode[i] = "LINK_AND_PIN"
          /\ Begin(r, "pin",
                   [NoJob EXCEPT !.op = "pin", !.links = {i}, !.right = right,
                                 !.attempts = attempts[i]])
    BY <1>3 DEF VerifyPin, Active
  <2> DEFINE j == [NoJob EXCEPT !.op = "pin", !.links = {i}, !.right = right,
                                !.attempts = attempts[i]]
  <2>2. pc'[r] = "pin" /\ job'[r] = j
    BY <1>0, <2>1 DEF Begin
  <2>3. j.links = {i} /\ j.attempts = attempts[i]
    BY DEF NoJob
  <2> HIDE DEF j
  <2> QED BY <1>0, <2>1, <2>2, <2>3 DEF Knows
<1>4. CASE Accept(r)
  <2>1. PICK i \in Pending, signedIn \in {FALSE, account} :
          Begin(r, "look up",
                [NoJob EXCEPT !.op = "accept", !.links = {i},
                              !.signedIn = signedIn])
    BY <1>4 DEF Accept, Active
  <2> DEFINE j == [NoJob EXCEPT !.op = "accept", !.links = {i},
                                !.signedIn = signedIn]
  <2>2. pc'[r] = "look up" /\ job'[r] = j
    BY <1>0, <2>1 DEF Begin
  <2>3. j.links = {i}
    BY DEF NoJob
  <2> HIDE DEF j
  <2> QED BY <1>0, <2>2, <2>3 DEF Knows
<1> QED BY <1>1, <1>2, <1>3, <1>4

(* It is done, or keeps what it knows while it looks for the member.       *)
LEMMA KnowsProceed ==
  ASSUME IInv, NEW r \in Requests, Knows(r), Proceed(r) \/ Fail(r)
  PROVE  Knows(r)' /\ pc[r] # "idle"
<1>0. pc \in [Requests -> Stages] /\ job \in [Requests -> Jobs]
  BY DEF IInv, TypeOK
<1>1. pc[r] # "idle"
  BY DEF Proceed, Fail, CommitCreate, CommitRevoke, CountAttempt, StampPin,
         LookUp, Join
<1>2. CASE pc'[r] = "idle"
  BY <1>1, <1>2 DEF Knows
<1>3. CASE pc'[r] # "idle"
  <2>1. /\ pc[r] = "look up" /\ pc'[r] = "join"
        /\ job' = [job EXCEPT ![r].member = member] /\ UNCHANGED rows
    BY <1>0, <1>3 DEF Proceed, Fail, CommitCreate, CommitRevoke, CountAttempt,
                      StampPin, LookUp, Join, End
  <2>2. job'[r] = [job[r] EXCEPT !.member = member] /\ job[r] \in Jobs
    BY <1>0, <2>1
  <2>3. job'[r].links = job[r].links
    BY <2>2 DEF Jobs
  <2>4. UNCHANGED <<mode, attempts>> /\ Pending' = Pending
    BY <2>1 DEF rows, Pending
  <2> QED BY <1>1, <2>1, <2>3, <2>4 DEF Knows
<1> QED BY <1>2, <1>3

(* No step makes it wrong, as long as handlers do not overlap.             *)
LEMMA CurrentStep ==
  ASSUME IInv, OneAtATime, OneAtATime', Current, [Next]_vars
  PROVE  Current'
<1>1. CASE UNCHANGED vars
  BY <1>1 DEF vars, rows, Current, Knows, Pending
<1>2. ASSUME NEW i \in Links, Expire(i) PROVE Current'
  BY <1>2 DEF Expire, Current, Knows, Pending
<1>3. ASSUME NEW r \in Requests,
             CreateUser(r) \/ AddMember(r) \/ RemoveMember(r)
      PROVE  Current'
  BY <1>3, Elsewhere DEF Current, Knows, Pending
<1>4. ASSUME NEW r \in Requests, NEW q \in Requests \ {r}, pc'[q] = pc[q],
             pc[r] # "idle" \/ pc'[r] # "idle"
      PROVE  Knows(q)'
  BY <1>4 DEF OneAtATime, Knows
<1>5. ASSUME NEW r \in Requests,
             \/ Create(r) \/ Revoke(r) \/ VerifyPin(r) \/ Accept(r)
             \/ Proceed(r) \/ Fail(r)
      PROVE  Current'
  <2>1. Knows(r)' /\ (pc[r] # "idle" \/ pc'[r] # "idle")
    BY <1>5, KnowsArrive, KnowsProceed DEF Current
  <2>2. \A q \in Requests \ {r} : pc'[q] = pc[q]
    BY <1>5, OthersStay DEF Arrive
  <2> QED BY <1>4, <2>1, <2>2 DEF Current
<1> QED BY <1>1, <1>2, <1>3, <1>5 DEF Next, Arrive

(* One handler at a time, what each has read stays true.                   *)
LEMMA ReadsStayTrue == Spec /\ []OneAtATime => []Current
<1>1. Init => Current
  BY DEF Init, Current, Knows
<1>2. IInv /\ OneAtATime /\ OneAtATime' /\ Current /\ [Next]_vars => Current'
  BY CurrentStep
<1> QED BY <1>1, <1>2, Invariant, PTL DEF Spec

(* An invitation is used while it is pending, and so at most once, as long *)
(* as handlers do not overlap.                                             *)
THEOREM UsedWhilePending ==
  Spec /\ []OneAtATime => AcceptedOnlyWhilePending
<1>1. Current =>
        \A r \in Requests : pc[r] = "join" => job[r].links \subseteq Pending
  BY DEF Current, Knows
<1>2. Current /\ [Next]_vars =>
        [\A r \in Requests :
           /\ pc[r] = "join" /\ pc'[r] = "idle"
           /\ <<accepted, member>>' # <<accepted, member>>
           => job[r].links \subseteq Pending]_vars
  BY <1>1
<1> QED BY <1>2, ReadsStayTrue, PTL DEF Spec, AcceptedOnlyWhilePending

-----------------------------------------------------------------------------
(* They implement the promise.                                             *)

(* No wrong PIN is missed, only what there is can be revoked, and who was  *)
(* found to be a member still is.                                          *)
Settled ==
  /\ \A i \in Links : attempts[i] = wrong[i]
  /\ \A i \in revoked : mode[i] # "none"
  /\ \A r \in Requests : pc[r] = "join" /\ job[r].member => member

SInv == IInv /\ Current /\ Settled

(* What the commit of a wrong PIN does: the count and the wrong PINs are   *)
(* one more, and the invitation is closed exactly if that is the limit.    *)
LEMMA Counting ==
  ASSUME SInv, NEW r \in Requests, CountAttempt(r)
  PROVE  \E i \in Pending :
           /\ mode[i] = "LINK_AND_PIN"
           /\ wrong' = [wrong EXCEPT ![i] = @ + 1]
           /\ attempts' = [attempts EXCEPT ![i] = wrong[i] + 1]
           /\ revoked' = IF wrong'[i] = PinAttemptLimit
                         THEN revoked \cup {i} ELSE revoked
           /\ UNCHANGED <<mode, accepted, verified, member>>
<1>1. PICK i \in job[r].links :
        /\ pc[r] = "pin"
        /\ attempts' = [attempts EXCEPT ![i] = job[r].attempts + 1]
        /\ revoked' = IF attempts'[i] >= PinAttemptLimit
                      THEN revoked \cup {i} ELSE revoked
        /\ wrong' = [wrong EXCEPT ![i] =
                       IF @ < PinAttemptLimit THEN @ + 1 ELSE @]
        /\ UNCHANGED <<mode, accepted, verified, member>>
  BY DEF CountAttempt, people
<1>2. /\ i \in Pending /\ i \in Links /\ mode[i] = "LINK_AND_PIN"
      /\ job[r].attempts = wrong[i] /\ job[r].attempts < PinAttemptLimit
  <2>1. Knows(r) /\ job[r].attempts < PinAttemptLimit
    BY <1>1 DEF SInv, IInv, Current, PinsInHand
  <2>2. PICK k \in Pending : /\ job[r].links = {k} /\ mode[k] = "LINK_AND_PIN"
                             /\ job[r].attempts = attempts[k]
    BY <1>1, <2>1 DEF Knows
  <2> QED BY <1>1, <2>1, <2>2 DEF Pending, SInv, Settled
<1>3. /\ wrong \in [Links -> 0 .. PinAttemptLimit]
      /\ attempts \in [Links -> 0 .. PinAttemptLimit]
      /\ PinAttemptLimit \in Nat
  BY PinAttemptLimitAssumption DEF SInv, IInv, TypeOK
<1>4. wrong' = [wrong EXCEPT ![i] = @ + 1]
  BY <1>1, <1>2, <1>3
<1>5. wrong'[i] = wrong[i] + 1 /\ attempts'[i] = wrong[i] + 1
  BY <1>1, <1>2, <1>3, <1>4
<1>6. attempts'[i] >= PinAttemptLimit <=> wrong'[i] = PinAttemptLimit
  BY <1>2, <1>3, <1>5
<1> QED BY <1>1, <1>2, <1>4, <1>6

(* Nothing upsets it, as long as nobody is removed meanwhile.              *)
LEMMA SettledStep ==
  ASSUME SInv, [Next]_vars,
         member /\ ~member' => \A r \in Requests : pc[r] # "join"
  PROVE  Settled'
<1>0. /\ pc \in [Requests -> Stages] /\ job \in [Requests -> Jobs]
      /\ mode \in [Links -> Modes \cup {"none"}]
      /\ attempts \in [Links -> 0 .. PinAttemptLimit]
      /\ wrong \in [Links -> 0 .. PinAttemptLimit]
  BY DEF SInv, IInv, TypeOK
<1>1. CASE UNCHANGED vars
  BY <1>1 DEF vars, rows, people, SInv, Settled
<1>2. ASSUME NEW i \in Links, Expire(i) PROVE Settled'
  BY <1>2 DEF Expire, people, SInv, Settled
<1>3. ASSUME NEW r \in Requests,
             CreateUser(r) \/ AddMember(r) \/ RemoveMember(r)
      PROVE  Settled'
  <2>1. \A q \in Requests : pc[q] = "join" /\ job[q].member => member'
    BY <1>3 DEF CreateUser, AddMember, RemoveMember, SInv, Settled
  <2> QED BY <1>3, <2>1, Elsewhere DEF SInv, Settled
<1>4. ASSUME NEW r \in Requests,
             \/ Create(r) \/ Revoke(r) \/ VerifyPin(r) \/ Accept(r)
             \/ Proceed(r) \/ Fail(r)
      PROVE  Settled'
  <2>1. \A q \in Requests \ {r} : pc'[q] = pc[q] /\ job'[q] = job[q]
    BY <1>4, OthersStay DEF SInv, Arrive
  <2>2. member => member'
    BY <1>4 DEF Create, Revoke, VerifyPin, Accept, Begin, Proceed, Fail,
                CommitCreate, CommitRevoke, CountAttempt, StampPin, LookUp,
                Join, people
  <2>3. pc'[r] = "join" /\ job'[r].member => member'
    <3>1. SUFFICES ASSUME pc'[r] = "join" PROVE job'[r].member => member'
      OBVIOUS
    <3>2. /\ job' = [job EXCEPT ![r].member = member] /\ UNCHANGED member
      BY <1>0, <1>4, <3>1
         DEF Create, Revoke, VerifyPin, Accept, Begin, Proceed, Fail,
             CommitCreate, CommitRevoke, CountAttempt, StampPin, LookUp,
             Join, End, people
    <3>3. job'[r] = [job[r] EXCEPT !.member = member] /\ job[r] \in Jobs
      BY <1>0, <3>2
    <3> QED BY <3>2, <3>3 DEF Jobs
  <2>4. \A q \in Requests : pc'[q] = "join" /\ job'[q].member => member'
    BY <2>1, <2>2, <2>3 DEF SInv, Settled
  <2>5. \A i \in revoked' : mode'[i] # "none"
    <3>1. CASE CommitCreate(r) \/ CommitRevoke(r)
      <4>1. /\ revoked' = revoked \cup job[r].links
            /\ job[r].links \subseteq Pending
        BY <3>1 DEF CommitCreate, CommitRevoke, SInv, Current, Knows
      <4>2. \/ mode' = mode
            \/ \E i \in Links : /\ mode' = [mode EXCEPT ![i] = job[r].mode]
                                /\ job[r].mode \in Modes
        BY <3>1 DEF CommitCreate, CommitRevoke, SInv, Current, Knows
      <4>3. \A i \in Links : mode[i] # "none" => mode'[i] # "none"
        BY <1>0, <4>2 DEF Modes
      <4>4. revoked \subseteq Links
        BY DEF SInv, IInv, TypeOK
      <4> QED BY <4>1, <4>3, <4>4 DEF Pending, SInv, Settled
    <3>2. CASE CountAttempt(r)
      BY <3>2, Counting DEF Pending, SInv, Settled
    <3>3. CASE UNCHANGED <<mode, revoked>>
      BY <3>3 DEF SInv, Settled
    <3> QED BY <1>4, <3>1, <3>2, <3>3
            DEF Create, Revoke, VerifyPin, Accept, Begin, Proceed, Fail,
                StampPin, LookUp, Join, rows
  <2>6. \A i \in Links : attempts'[i] = wrong'[i]
    <3>1. CASE CountAttempt(r)
      BY <1>0, <3>1, Counting DEF SInv, Settled
    <3>2. CASE UNCHANGED <<attempts, wrong>>
      BY <3>2 DEF SInv, Settled
    <3> QED BY <1>4, <3>1, <3>2
            DEF Create, Revoke, VerifyPin, Accept, Begin, Proceed, Fail,
                CommitCreate, CommitRevoke, StampPin, LookUp, Join, rows
  <2> QED BY <2>4, <2>5, <2>6 DEF Settled
<1> QED BY <1>1, <1>2, <1>3, <1>4 DEF Next, Arrive

(* Every commit of a handler is the step of the promise of its name.       *)
LEMMA PromiseProceed ==
  ASSUME SInv, NEW r \in Requests, Proceed(r)
  PROVE  [Promise!Next]_(Promise!vars)
<1>0. /\ pc \in [Requests -> Stages] /\ job \in [Requests -> Jobs]
      /\ mode \in [Links -> Modes \cup {"none"}]
      /\ Knows(r) /\ Pending \subseteq Links
  BY DEF SInv, IInv, TypeOK, Current, Pending
<1>1. CASE CommitCreate(r)
  <2>1. PICK i \in Links :
          /\ mode[i] = "none" /\ job[r].mode \in Modes
          /\ mode' = [mode EXCEPT ![i] = job[r].mode]
          /\ revoked' = revoked \cup Pending
          /\ UNCHANGED <<accepted, verified, member, wrong>>
    BY <1>0, <1>1 DEF CommitCreate, Knows, people
  <2>2. i \notin accepted \cup revoked
    BY <2>1 DEF SInv, IInv, AcceptedExist, Settled
  <2>3. Pending' = {i}
    BY <1>0, <2>1, <2>2 DEF Pending, Modes
  <2>4. {k \in Links : mode'[k] # "none"} =
          {k \in Links : mode[k] # "none"} \cup {i}
    BY <1>0, <2>1 DEF Modes
  <2>5. {k \in Links : mode'[k] = "LINK_AND_PIN"} \in
          {{k \in Links : mode[k] = "LINK_AND_PIN"},
           {k \in Links : mode[k] = "LINK_AND_PIN"} \cup {i}}
    BY <1>0, <2>1 DEF Modes
  <2>6. Promise!Issue(i)
    BY <2>1, <2>3, <2>4, <2>5 DEF Promise!Issue
  <2> QED BY <2>6 DEF Promise!Next
<1>2. CASE CommitRevoke(r)
  <2>1. PICK i \in Pending :
          /\ revoked' = revoked \cup {i}
          /\ UNCHANGED <<mode, accepted, verified, member, wrong>>
    BY <1>0, <1>2 DEF CommitRevoke, Knows, people
  <2>2. Pending' = Pending \ {i}
    BY <2>1 DEF Pending
  <2>3. Promise!Withdraw(i)
    BY <2>1, <2>2 DEF Promise!Withdraw
  <2> QED BY <1>0, <2>3 DEF Promise!Next
<1>3. CASE CountAttempt(r)
  <2>1. PICK i \in Pending :
          /\ mode[i] = "LINK_AND_PIN"
          /\ wrong' = [wrong EXCEPT ![i] = @ + 1]
          /\ revoked' = IF wrong'[i] = PinAttemptLimit
                        THEN revoked \cup {i} ELSE revoked
          /\ UNCHANGED <<mode, accepted, verified, member>>
    BY <1>3, Counting
  <2>2. Pending' = IF wrong'[i] = PinAttemptLimit
                   THEN Pending \ {i} ELSE Pending
    BY <2>1 DEF Pending
  <2>3. Promise!Guess(i)
    BY <1>0, <2>1, <2>2 DEF Promise!Guess
  <2> QED BY <1>0, <2>3 DEF Promise!Next
<1>4. CASE StampPin(r)
  <2>1. PICK i \in Pending :
          /\ mode[i] = "LINK_AND_PIN" /\ verified' = verified \cup {i}
          /\ UNCHANGED <<mode, accepted, revoked, member, wrong>>
    BY <1>0, <1>4 DEF StampPin, Knows, people
  <2>2. Pending' = Pending
    BY <2>1 DEF Pending
  <2>3. Promise!Prove(i)
    BY <1>0, <2>1, <2>2 DEF Promise!Prove
  <2> QED BY <1>0, <2>3 DEF Promise!Next
<1>5. CASE LookUp(r)
  BY <1>5 DEF LookUp, rows, people, Promise!vars, Pending
<1>6. CASE Join(r)
  <2>1. PICK i \in Pending :
          /\ job[r].links = {i} /\ accepted' = accepted \cup {i}
          /\ member' = (member \/ ~job[r].member)
          /\ UNCHANGED <<mode, revoked, verified, wrong>>
    BY <1>0, <1>6 DEF Join, Knows
  <2>2. mode[i] = "LINK_AND_PIN" => i \in verified
    BY <1>6, <2>1 DEF Join, SInv, IInv, AcceptancesInHand
  <2>3. member' = TRUE
    BY <1>6, <2>1 DEF Join, SInv, Settled
  <2>4. Pending' = Pending \ {i}
    BY <2>1 DEF Pending
  <2>5. Promise!Join(i)
    BY <1>0, <2>1, <2>2, <2>3, <2>4 DEF Promise!Join
  <2> QED BY <1>0, <2>5 DEF Promise!Next
<1> QED BY <1>1, <1>2, <1>3, <1>4, <1>5, <1>6 DEF Proceed

(* Every step is one of the promise or none that it sees.                  *)
LEMMA PromiseStep ==
  ASSUME SInv, [Next]_vars
  PROVE  [Promise!Next]_(Promise!vars)
<1>1. CASE UNCHANGED vars
  BY <1>1 DEF vars, rows, people, Promise!vars, Pending
<1>2. ASSUME NEW i \in Links, Expire(i) PROVE UNCHANGED Promise!vars
  BY <1>2 DEF Expire, people, Promise!vars, Pending
<1>3. ASSUME NEW r \in Requests,
             \/ Create(r) \/ Revoke(r) \/ VerifyPin(r) \/ Accept(r) \/ Fail(r)
      PROVE  UNCHANGED Promise!vars
  BY <1>3 DEF Create, Revoke, VerifyPin, Accept, Fail, Begin, rows, people,
              Promise!vars, Pending
<1>4. ASSUME NEW r \in Requests,
             CreateUser(r) \/ AddMember(r) \/ RemoveMember(r)
      PROVE  [Promise!Next]_(Promise!vars)
  <2>1. UNCHANGED <<mode, accepted, revoked, verified, wrong>>
    BY <1>4, Elsewhere
  <2>2. Pending' = Pending
    BY <2>1 DEF Pending
  <2>3. CASE member' = member
    BY <2>1, <2>2, <2>3 DEF Promise!vars
  <2>4. CASE member' # member
    <3>1. member \in BOOLEAN /\ member' \in BOOLEAN
      BY <1>4 DEF CreateUser, AddMember, RemoveMember, SInv, IInv, TypeOK
    <3>2. Promise!Otherwise
      BY <2>1, <2>2, <2>4, <3>1 DEF Promise!Otherwise
    <3> QED BY <3>2 DEF Promise!Next
  <2> QED BY <2>3, <2>4
<1> QED BY <1>1, <1>2, <1>3, <1>4, PromiseProceed DEF Next, Arrive

(* Handlers that do not overlap, with nobody removed while accepting,      *)
(* implement the promise of an invitation.                                 *)
THEOREM PromiseKept ==
  Spec /\ []OneAtATime /\ NoRemovalMeanwhile => KeepsPromise
<1>1. Init => Promise!Init /\ Settled
  <2> SUFFICES ASSUME Init PROVE Promise!Init /\ Settled
    OBVIOUS
  <2>1. Pending = {} /\ member \in BOOLEAN
    BY DEF Init, Pending
  <2> QED BY <2>1 DEF Init, Promise!Init, Settled
<1>2. IInv /\ Current /\ Settled => SInv
  BY DEF SInv
<1>3. IInv /\ Current /\ Settled /\ [Next]_vars
      /\ [member /\ ~member' => \A r \in Requests : pc[r] # "join"]_vars
        => Settled'
  <2>1. CASE UNCHANGED vars
    BY <2>1 DEF vars, rows, people, Settled
  <2> QED BY <2>1, SettledStep DEF SInv
<1>4. SInv /\ [Next]_vars => [Promise!Next]_(Promise!vars)
  BY PromiseStep
<1>5. Spec /\ []OneAtATime /\ NoRemovalMeanwhile => []SInv
  BY <1>1, <1>2, <1>3, Invariant, ReadsStayTrue, PTL
     DEF Spec, NoRemovalMeanwhile
<1> QED BY <1>1, <1>4, <1>5, PTL DEF Spec, KeepsPromise, Promise!Spec
-----------------------------------------------------------------------------
(* Where one thread serves all requests,                                   *)
(* nothing overlaps, whatever the links and the limit.                     *)
THEOREM SerialPromise ==
  ASSUME NEW slot, Requests = {slot}
  PROVE  Spec => AcceptedOnlyWhilePending /\ KeepsPromise
<1>1. OneAtATime
  BY DEF OneAtATime
<1>2. [Next]_vars =>
        [member /\ ~member' => \A r \in Requests : pc[r] # "join"]_vars
  BY DEF Next, Arrive, Proceed, Fail, Expire, Create, Revoke, VerifyPin, Accept,
         CreateUser, AddMember, RemoveMember, Begin, CommitCreate, CommitRevoke,
         CountAttempt, StampPin, LookUp, Join, people
<1>3. Spec => NoRemovalMeanwhile
  BY <1>2, PTL DEF Spec, NoRemovalMeanwhile
<1> QED BY <1>1, <1>3, UsedWhilePending, PromiseKept, PTL
=============================================================================
