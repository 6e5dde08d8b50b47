------------------------ MODULE ClientSessionProofs ------------------------
(* Theorems about ClientSession, for any calls, tokens and locales.        *)
EXTENDS ClientSession, TLAPS

-----------------------------------------------------------------------------
(* The inductive invariant.                                                *)

Grants(j) == Refreshes(j) \/ j.op = "login"

(* A call that is over has left nothing, and one under way has what its    *)
(* answer will need.                                                       *)
Fit(j) ==
  /\ j.at = "idle" => j = NoCall
  /\ j.at # "idle" => j.op # "none"
  /\ j.at = "answered" /\ j.answer = "ok" => j.locale \in Locales
  /\ j.granted # None <=> j.at = "answered" /\ j.answer = "ok" /\ Grants(j)
  /\ j.op = "profile" => j.locale \in Locales /\ j.previous \in Locales
  /\ j.at = "sent" => j.answer = "none"
  /\ j.at = "answered" => j.answer # "none"
  /\ j.step = "first" \/ j.op = "request"

CallsFit == \A c \in Calls : Fit(call[c])

(* What a call that nothing overtook knows of page and server.             *)
CurCookie(j) ==
  /\ j.at = "sent" /\ (Refreshes(j) \/ j.op = "logout") => j.cookie = cookie
  /\ j.at = "answered" /\ Refreshes(j) /\ j.answer \in {"ok", "401"} =>
       cookie \notin live
  /\ j.at = "answered" /\ j.op = "logout" /\ j.answer = "ok" =>
       cookie \notin live
  /\ j.at = "answered" /\ Grants(j) /\ j.answer = "ok" => j.granted \in live

CurIdentity(j) ==
  /\ j.op \in {"me", "profile"} => session = "identity"
  /\ ~j.awaited => session = "undefined"
  /\ j.op = "profile" => j.previous = preferred
  /\ j.op = "profile" /\ j.at = "sent" => shown = j.locale
  /\ j.op = "profile" /\ j.agreed /\ ~(j.at = "answered" /\ j.answer = "ok") =>
       preferred = saved \/ (j.answer = "error" /\ saved = j.locale)
  /\ j.op = "profile" /\ j.at = "answered" /\ j.answer = "ok" => shown = saved

Cur(j) == CurCookie(j) /\ CurIdentity(j)

CallsCurrent == \A c \in Calls \ crossed : Cur(call[c])

IInv == TypeOK /\ CallsFit /\ CallsCurrent

(* Page and server have values of their kinds.                             *)
PageTyped ==
  /\ accessToken \in {None, "live", "expired"}
  /\ session \in {"undefined", "null", "identity"}
  /\ preferred \in Locales \cup {None}
  /\ (session = "identity") = (preferred # None)
  /\ shown \in Locales /\ saved \in Locales
  /\ cookie \in Tokens \cup {None} /\ live \subseteq Tokens

Same == UNCHANGED <<session, preferred, shown, cookie, live, saved>>

LEMMA NoCallFine == NoCall \in CallStates /\ Fit(NoCall) /\ Cur(NoCall) /\ Cur(NoCall)'
BY DEF NoCall, CallStates, Fit, Cur, CurCookie, CurIdentity, Refreshes, Grants

LEMMA CurKept ==
  ASSUME NEW j, Same, Cur(j)
  PROVE  Cur(j)'
BY DEF Same, Cur, CurCookie, CurIdentity

-----------------------------------------------------------------------------
(* Kinds of steps.                                                         *)

(* One call moves on; the others stay what they were or are overtaken.     *)
LEMMA Moves ==
  ASSUME IInv, NEW c \in Calls, NEW j \in CallStates,
         call' = [call EXCEPT ![c] = j], crossed' \subseteq Calls,
         PageTyped', Fit(j), c \notin crossed' => Cur(j)',
         \A d \in Calls \ {c} :
           d \notin crossed' => ~Busy(d) \/ (d \notin crossed /\ Same)
  PROVE  IInv'
<1>1. TypeOK'
  BY DEF IInv, TypeOK, PageTyped
<1>2. CallsFit'
  <2>1. ASSUME NEW d \in Calls PROVE call'[d] \in {j, call[d]}
    BY DEF IInv, TypeOK
  <2>2. ASSUME NEW d \in Calls PROVE Fit(call[d])'
    <3>1. CASE call'[d] = j
      BY <3>1 DEF Fit, Refreshes, Grants, NoCall
    <3>2. CASE call'[d] = call[d]
      <4>1. Fit(call[d])
        BY DEF IInv, CallsFit
      <4> QED BY <3>2, <4>1 DEF Fit, Refreshes, Grants, NoCall
    <3> QED BY <2>1, <3>1, <3>2
  <2> QED BY <2>2 DEF CallsFit
<1>3. CallsCurrent'
  <2>1. SUFFICES ASSUME NEW d \in Calls, d \notin crossed' PROVE Cur(call[d])'
    BY DEF CallsCurrent
  <2>2. CASE d = c
    <3>1. call'[d] = j
      BY <2>2 DEF IInv, TypeOK
    <3> QED BY <2>1, <2>2, <3>1 DEF Cur, CurCookie, CurIdentity
  <2>3. CASE d # c /\ ~Busy(d)
    <3>1. call'[d] = NoCall
      BY <2>3 DEF IInv, TypeOK, CallsFit, Fit, Busy
    <3> QED BY <3>1, NoCallFine DEF Cur, CurCookie, CurIdentity
  <2>4. CASE d # c /\ d \notin crossed /\ Same
    <3>1. call'[d] = call[d] /\ Cur(call[d])
      BY <2>4 DEF IInv, TypeOK, CallsCurrent
    <3> QED BY <2>4, <3>1, CurKept DEF Cur, CurCookie, CurIdentity
  <2> QED BY <2>1, <2>2, <2>3, <2>4
<1> QED BY <1>1, <1>2, <1>3 DEF IInv

LEMMA Overtaking ==
  ASSUME IInv, NEW c \in Calls, NEW j, call' = [call EXCEPT ![c] = j], Overtake(c)
  PROVE  /\ crossed' \subseteq Calls
         /\ \A d \in Calls \ {c} :
              d \notin crossed' => ~Busy(d) \/ (d \notin crossed /\ Same)
<1>1. \A d \in Calls \ {c} : call'[d] = call[d]
  BY DEF IInv, TypeOK
<1> QED BY <1>1 DEF Overtake, Busy, Same, page, server

(* A fetch is sent: its call knows the page of this moment.                *)
LEMMA Sends ==
  ASSUME IInv, NEW c \in Calls, NEW j \in CallStates, Send(c, j), PageTyped',
         j.at = "idle", j.answer = "none", j.granted = None, j.op # "none",
         j.op = "profile" => j.locale \in Locales /\ j.previous \in Locales,
         j.step = "first" \/ j.op = "request",
         CurIdentity([j EXCEPT !.at = "sent"])'
  PROVE  IInv'
<1>1. PICK s : s = Sent(j)
  OBVIOUS
<1>2. call' = [call EXCEPT ![c] = s] /\ Overtake(c)
  BY <1>1 DEF Send
<1>3. /\ s \in CallStates
      /\ s.op = j.op /\ s.step = j.step /\ s.at = "sent"
      /\ s.answer = "none" /\ s.granted = None
      /\ s.locale = j.locale /\ s.previous = j.previous /\ s.awaited = j.awaited
      /\ s.agreed = j.agreed
  <2>1. PICK b : b = IF NeedsToken(j) THEN accessToken' ELSE None
    OBVIOUS
  <2>2. PICK k : k = IF Refreshes(j) \/ j.op = "logout" THEN cookie' ELSE None
    OBVIOUS
  <2>3. b \in {None, "live", "expired"} /\ k \in Tokens \cup {None}
    BY <2>1, <2>2 DEF PageTyped
  <2>4. s = [j EXCEPT !.at = "sent", !.bearer = b, !.cookie = k]
    BY <1>1, <2>1, <2>2 DEF Sent
  <2>5. s \in CallStates
    <3>1. [j EXCEPT !.at = "sent"] \in CallStates
      BY DEF CallStates
    <3>2. \A i \in CallStates : [i EXCEPT !.bearer = b] \in CallStates
      BY <2>3 DEF CallStates
    <3>3. \A i \in CallStates : [i EXCEPT !.cookie = k] \in CallStates
      BY <2>3 DEF CallStates
    <3>4. s = [[[j EXCEPT !.at = "sent"] EXCEPT !.bearer = b] EXCEPT !.cookie = k]
      BY <2>4
    <3> QED BY <3>1, <3>2, <3>3, <3>4
  <2>6. /\ s.op = j.op /\ s.step = j.step /\ s.at = "sent"
        /\ s.answer = j.answer /\ s.granted = j.granted
        /\ s.locale = j.locale /\ s.previous = j.previous
        /\ s.awaited = j.awaited /\ s.agreed = j.agreed
    BY <2>4 DEF CallStates
  <2> QED BY <2>5, <2>6
<1>4. Refreshes(s) \/ s.op = "logout" => s.cookie = cookie'
  BY <1>1 DEF Sent, CallStates, Refreshes
<1>5. Fit(s)
  BY <1>3 DEF Fit
<1>6. CurIdentity(s)'
  BY <1>3 DEF CurIdentity, CallStates
<1>7. CurCookie(s)'
  BY <1>3, <1>4 DEF CurCookie
<1> QED BY <1>2, <1>3, <1>5, <1>6, <1>7, Moves, Overtaking DEF Cur

LEMMA Ends ==
  ASSUME IInv, NEW c \in Calls, End(c), PageTyped'
  PROVE  IInv'
BY NoCallFine, Moves, Overtaking DEF End

-----------------------------------------------------------------------------
(* What the user and the pages start.                                      *)

LEMMA PageKept ==
  ASSUME IInv, UNCHANGED page, UNCHANGED server
  PROVE  PageTyped' /\ Same
BY DEF IInv, TypeOK, PageTyped, Same, page, server

LEMMA InvStart ==
  ASSUME IInv, NEW c \in Calls,
         Login(c) \/ Logout(c) \/ Request(c) \/ RefreshIdentity(c)
  PROVE  IInv'
<1>1. PICK op \in {"login", "logout", "request", "me"} :
        /\ UNCHANGED <<page, server>>
        /\ Send(c, [NoCall EXCEPT !.op = op])
        /\ op = "me" => session = "identity"
  BY DEF Login, Logout, Request, RefreshIdentity, Start
<1> DEFINE j == [NoCall EXCEPT !.op = op]
<1>2. PageTyped' /\ Same
  BY <1>1, PageKept
<1>3. j \in CallStates
  BY NoCallFine DEF CallStates
<1>4. CurIdentity([j EXCEPT !.at = "sent"])'
  BY <1>1, <1>2 DEF CurIdentity, NoCall, Same
<1>5. /\ j.at = "idle" /\ j.answer = "none" /\ j.granted = None /\ j.op = op
      /\ j.step = "first"
  BY DEF NoCall
<1>6. Send(c, j)
  BY <1>1
<1>7. op # "none" /\ op # "profile"
  OBVIOUS
<1> HIDE DEF j
<1> QED BY <1>2, <1>3, <1>4, <1>5, <1>6, <1>7, Sends

LEMMA InvSetLocale ==
  ASSUME IInv, NEW c \in Calls, SetLocale(c)
  PROVE  IInv'
<1>1. PICK locale \in Locales :
        /\ session = "identity" /\ shown' = locale
        /\ UNCHANGED <<accessToken, session, preferred, cookie, server>>
        /\ Send(c, [NoCall EXCEPT !.op = "profile", !.locale = locale,
                                  !.previous = preferred,
                                  !.agreed = (preferred = saved)])
  BY Zenon DEF SetLocale
<1>7. PICK a \in BOOLEAN : a = (preferred = saved)
  OBVIOUS
<1>0. PICK j : j = [NoCall EXCEPT !.op = "profile", !.locale = locale,
                                  !.previous = preferred, !.agreed = a]
  OBVIOUS
<1>2. PageTyped' /\ preferred \in Locales
  BY <1>1 DEF IInv, TypeOK, PageTyped, server
<1>3. j \in CallStates
  BY <1>0, <1>2, NoCallFine DEF CallStates
<1>8. a => preferred' = saved'
  BY <1>1, <1>7 DEF server
<1>4. CurIdentity([j EXCEPT !.at = "sent"])'
  BY <1>0, <1>1, <1>8 DEF CurIdentity, NoCall
<1>5. /\ j.at = "idle" /\ j.answer = "none" /\ j.granted = None
      /\ j.op = "profile" /\ j.step = "first" /\ j.locale \in Locales
      /\ j.previous \in Locales
  BY <1>0, <1>2 DEF NoCall
<1>6. Send(c, j)
  BY <1>0, <1>1, <1>7, Zenon
<1> QED BY <1>2, <1>3, <1>4, <1>5, <1>6, Sends

(* Reloading the page leaves of the other calls only what the server has   *)
(* still to handle.                                                        *)
LEMMA InvReload ==
  ASSUME IInv, NEW c \in Calls, Reload(c)
  PROVE  IInv'
<1>1. PICK s : s = Sent([NoCall EXCEPT !.op = "restore"])
  OBVIOUS
<1>2. /\ session' = "undefined" /\ preferred' = None /\ accessToken' = None
      /\ UNCHANGED <<shown, live, saved>> /\ cookie' \in Tokens \cup {None}
      /\ call' = [[d \in Calls |-> Forsaken(call[d])] EXCEPT ![c] = s]
      /\ Overtake(c)
  <2>1. cookie \in Tokens \cup {None}
        /\ \A d \in Calls : call[d].granted \in Tokens \cup {None}
    BY DEF IInv, TypeOK, CallStates
  <2> QED BY <1>1, <2>1 DEF Reload, server
<1>3. /\ s.op = "restore" /\ s.step = "first" /\ s.at = "sent" /\ s.answer = "none"
      /\ s.granted = None /\ s.cookie = cookie' /\ s \in CallStates /\ s.awaited
  <2>1. PICK b : b = [NoCall EXCEPT !.op = "restore"]
    OBVIOUS
  <2>2. Refreshes(b) /\ ~NeedsToken(b)
    BY <2>1 DEF Refreshes, NeedsToken, NoCall
  <2>3. s = [b EXCEPT !.at = "sent", !.bearer = None, !.cookie = cookie']
    BY <1>1, <2>1, <2>2 DEF Sent
  <2> QED BY <1>2, <2>1, <2>3 DEF NoCall, CallStates
<1>4. Fit(s) /\ Cur(s)'
  BY <1>3 DEF Fit, Cur, CurCookie, CurIdentity, Refreshes, Grants
<1>5. /\ call'[c] = s /\ call' = [d \in Calls |-> call'[d]]
      /\ \A d \in Calls \ {c} : call'[d] = Forsaken(call[d])
  BY <1>2
<1>6. ASSUME NEW d \in Calls, d # c
      PROVE  /\ call'[d] \in CallStates /\ Fit(call'[d])
             /\ d \notin crossed' => Cur(call[d])'
  <2>1. CASE call[d].at # "sent"
    <3>1. call'[d] = NoCall
      BY <1>6, <1>5, <2>1 DEF Forsaken
    <3> QED BY <3>1, NoCallFine DEF Cur, CurCookie, CurIdentity
  <2>2. CASE call[d].at = "sent"
    <3>1. PICK k : k = [call[d] EXCEPT !.awaited = FALSE]
      OBVIOUS
    <3>2. call'[d] = k
      BY <1>6, <1>5, <2>2, <3>1 DEF Forsaken
    <3>3. call[d] \in CallStates /\ Fit(call[d])
      BY DEF IInv, TypeOK, CallsFit
    <3>4. /\ k \in CallStates /\ k.op = call[d].op /\ k.at = "sent"
          /\ k.step = call[d].step /\ k.cookie = call[d].cookie
          /\ k.answer = call[d].answer /\ k.granted = call[d].granted
          /\ k.locale = call[d].locale /\ k.previous = call[d].previous
          /\ k.agreed = call[d].agreed
      BY <2>2, <3>1, <3>3 DEF CallStates
    <3>5. Fit(k)
      BY <2>2, <3>3, <3>4 DEF Fit, Refreshes, Grants
    <3>6. d \notin crossed' => d \notin crossed /\ page' = page
      BY <1>2, <1>6, <2>2, <3>2, <3>4 DEF Overtake, Busy
    <3>7. d \notin crossed' => Cur(k)'
      <4>1. SUFFICES ASSUME d \notin crossed' PROVE Cur(k)'
        OBVIOUS
      <4>2. Cur(call[d]) /\ session = "undefined" /\ cookie' = cookie
        BY <1>2, <3>6, <4>1 DEF IInv, CallsCurrent, page
      <4>3. CurCookie(k)'
        BY <1>2, <2>2, <3>4, <4>2 DEF Cur, CurCookie, Refreshes, Grants
      <4>4. k.op \notin {"me", "profile"}
        BY <3>4, <4>2 DEF Cur, CurIdentity
      <4>5. CurIdentity(k)'
        BY <1>2, <4>4 DEF CurIdentity
      <4> QED BY <4>3, <4>5 DEF Cur
    <3>8. d \notin crossed' => Cur(call[d])'
      BY <3>2, <3>7 DEF Cur, CurCookie, CurIdentity
    <3> QED BY <3>2, <3>4, <3>5, <3>8
  <2> QED BY <2>1, <2>2
<1>7. TypeOK'
  <2>1. call' \in [Calls -> CallStates]
    BY <1>3, <1>5, <1>6
  <2> QED BY <1>2, <2>1 DEF IInv, TypeOK, Overtake
<1>8. CallsFit'
  BY <1>4, <1>6, <1>5 DEF CallsFit, Fit, Refreshes, Grants, NoCall
<1>9. CallsCurrent'
  <2>1. Cur(call[c])'
    BY <1>4, <1>5 DEF Cur, CurCookie, CurIdentity
  <2> QED BY <1>6, <2>1 DEF CallsCurrent
<1> QED BY <1>7, <1>8, <1>9 DEF IInv

-----------------------------------------------------------------------------
(* The server answers.                                                     *)

LEMMA Answers ==
  ASSUME IInv, NEW c \in Calls, call[c].at = "sent", NEW answer, NEW granted,
         Answer(c, answer, granted), answer \in {"ok", "401", "error"},
         live' \subseteq Tokens, saved' \in Locales,
         granted \in Tokens \cup {None},
         granted # None <=> answer = "ok" /\ Grants(call[c]),
         answer = "ok" /\ Grants(call[c]) => granted \in live',
         c \notin crossed /\ answer \in {"ok", "401"} /\ Refreshes(call[c]) =>
           cookie \notin live',
         c \notin crossed /\ answer = "ok" /\ call[c].op = "logout" =>
           cookie \notin live',
         c \notin crossed /\ answer = "ok" /\ call[c].op = "profile" =>
           shown = saved',
         c \notin crossed /\ answer # "ok" /\ call[c].op = "profile" =>
           saved' = saved \/ (answer = "error" /\ saved' = call[c].locale)
  PROVE  IInv'
<1>0. PICK l : l = IF answer = "ok" THEN saved' ELSE call[c].locale
  OBVIOUS
<1>1. PICK s : s = [call[c] EXCEPT !.at = "answered", !.answer = answer,
                             !.granted = granted, !.bearer = None, !.cookie = None,
                             !.locale = l]
  OBVIOUS
<1>2. PICK j : j = IF call[c].awaited THEN s ELSE NoCall
  OBVIOUS
<1>3. /\ call' = [call EXCEPT ![c] = j] /\ UNCHANGED page
      /\ crossed' = {d \in Calls : \/ d \in crossed /\ call'[d].at # "idle"
                                   \/ d # c /\ Busy(d) /\ server' # server}
  BY <1>0, <1>1, <1>2, Zenon DEF Answer
<1>4. call[c] \in CallStates /\ Fit(call[c])
  BY DEF IInv, TypeOK, CallsFit
<1>5. /\ s \in CallStates /\ s.op = call[c].op /\ s.step = call[c].step
      /\ s.at = "answered" /\ s.answer = answer /\ s.granted = granted
      /\ s.awaited = call[c].awaited /\ s.previous = call[c].previous
      /\ s.agreed = call[c].agreed
      /\ s.locale = IF answer = "ok" THEN saved' ELSE call[c].locale
  <2>1. l \in Locales \cup {None}
    BY <1>0, <1>4 DEF CallStates
  <2>2. PICK k \in CallStates : k = call[c]
    BY <1>4
  <2>3. s = [k EXCEPT !.at = "answered", !.answer = answer, !.granted = granted,
                      !.bearer = None, !.cookie = None, !.locale = l]
    BY <1>1, <2>2
  <2>4. s \in CallStates
    BY <2>1, <2>3 DEF CallStates
  <2>5. /\ s.op = k.op /\ s.step = k.step /\ s.at = "answered"
        /\ s.answer = answer /\ s.granted = granted /\ s.locale = l
        /\ s.awaited = k.awaited /\ s.previous = k.previous
        /\ s.agreed = k.agreed
    BY <2>3 DEF CallStates
  <2> QED BY <1>0, <2>2, <2>4, <2>5
<1>6. PageTyped'
  BY <1>3 DEF IInv, TypeOK, PageTyped, page
<1>7. Fit(s)
  BY <1>4, <1>5 DEF Fit, Refreshes, Grants
<1>8. c \notin crossed => Cur(s)'
  <2>1. SUFFICES ASSUME c \notin crossed PROVE Cur(s)'
    OBVIOUS
  <2>2. Cur(call[c])
    BY <2>1 DEF IInv, CallsCurrent
  <2>3. UNCHANGED <<session, preferred, shown, cookie>>
    BY <1>3 DEF page
  <2>4. CurCookie(s)'
    BY <1>5, <2>1, <2>3 DEF CurCookie, Refreshes, Grants
  <2>5. CurIdentity(s)'
    <3>1. s.at = "answered" /\ s.answer # "ok" => s.locale = call[c].locale
      BY <1>5
    <3>2. call[c].at = "sent" /\ call[c].answer = "none"
      BY <1>4 DEF Fit
    <3> QED BY <1>5, <2>1, <2>2, <2>3, <3>1, <3>2 DEF Cur, CurIdentity
  <2> QED BY <2>4, <2>5 DEF Cur
<1>9. j \in CallStates /\ Fit(j) /\ (c \notin crossed' => Cur(j)')
  <2>1. CASE call[c].awaited
    <3>1. call'[c].at = "answered"
      BY <1>2, <1>3, <1>5, <2>1 DEF IInv, TypeOK
    <3>2. c \notin crossed' => c \notin crossed
      BY <1>3, <3>1
    <3> QED BY <1>2, <1>5, <1>7, <1>8, <2>1, <3>2 DEF Cur, CurCookie, CurIdentity
  <2>2. CASE ~call[c].awaited
    BY <1>2, <2>2, NoCallFine DEF Cur, CurCookie, CurIdentity
  <2> QED BY <2>1, <2>2
<1>10. \A d \in Calls \ {c} :
         d \notin crossed' => ~Busy(d) \/ (d \notin crossed /\ Same)
  <2>1. \A d \in Calls \ {c} : call'[d] = call[d]
    BY <1>3 DEF IInv, TypeOK
  <2> QED BY <1>3, <2>1 DEF Busy, Same, page, server
<1>11. crossed' \subseteq Calls
  BY <1>3
<1> QED BY <1>3, <1>6, <1>9, <1>10, <1>11, Moves

LEMMA InvHandle ==
  ASSUME IInv, NEW c \in Calls, Handle(c)
  PROVE  IInv'
<1>1. /\ call[c].at = "sent" /\ live \subseteq Tokens /\ saved \in Locales
      /\ c \notin crossed => CurCookie(call[c]) /\ CurIdentity(call[c])
      /\ call[c] \in CallStates /\ Fit(call[c])
      /\ cookie # None => cookie \in Tokens
  BY DEF Handle, IInv, TypeOK, CallsFit, CallsCurrent, Cur
<1>2. CASE Grant(c)
  <2>1. PICK t \in Tokens :
          /\ Fresh(t)
          /\ \/ call[c].op = "login" /\ live' = live \cup {t}
             \/ /\ Refreshes(call[c]) /\ call[c].cookie \in live
                /\ live' = (live \ {call[c].cookie}) \cup {t}
          /\ UNCHANGED saved
          /\ Answer(c, "ok", t)
    BY <1>2 DEF Grant, Issues
  <2>2. Grants(call[c]) /\ t # None /\ t \in live' /\ live' \subseteq Tokens
    BY <1>1, <2>1, NoneAssumption DEF Grants
  <2>3. c \notin crossed /\ Refreshes(call[c]) => cookie \notin live'
    <3>1. call[c].op = "login" => ~Refreshes(call[c])
      BY <1>1 DEF Refreshes, Fit
    <3> QED BY <1>1, <2>1, <3>1 DEF CurCookie, Fresh
  <2>4. call[c].op \notin {"logout", "profile"}
    BY <1>1, <2>2 DEF Grants, Refreshes, Fit
  <2> QED BY <1>1, <2>1, <2>2, <2>3, <2>4, Answers
<1>3. CASE Revoke(c)
  <2>1. /\ call[c].op = "logout" /\ live' = live \ {call[c].cookie}
        /\ saved' = saved /\ Answer(c, "ok", None)
    BY <1>3 DEF Revoke, Revokes
  <2>2. ~Grants(call[c]) /\ ~Refreshes(call[c])
    BY <1>1, <2>1 DEF Grants, Refreshes, Fit
  <2>3. c \notin crossed => cookie \notin live'
    BY <1>1, <2>1 DEF CurCookie
  <2> QED BY <1>1, <2>1, <2>2, <2>3, Answers
<1>4. CASE Serve(c)
  <2>1. /\ NeedsToken(call[c]) /\ live' = live
        /\ saved' = IF call[c].op = "profile" THEN call[c].locale ELSE saved
        /\ Answer(c, "ok", None)
    BY <1>4 DEF Serve, Stores
  <2>2. ~Grants(call[c]) /\ ~Refreshes(call[c]) /\ call[c].op # "logout"
    BY <2>1 DEF Grants, NeedsToken
  <2>3. saved' \in Locales
    BY <1>1, <2>1 DEF Fit
  <2>4. c \notin crossed /\ call[c].op = "profile" => shown = saved'
    BY <1>1, <2>1 DEF CurIdentity
  <2> QED BY <1>1, <2>1, <2>2, <2>3, <2>4, Answers
<1>5. CASE Deny(c)
  <2>1. live' = live /\ saved' = saved /\ Answer(c, "401", None)
    BY <1>5 DEF Deny, server
  <2>2. Refreshes(call[c]) => call[c].cookie \notin live
    BY <1>1, <1>5 DEF Deny, Refreshes, NeedsToken, Fit
  <2>3. c \notin crossed /\ Refreshes(call[c]) => cookie \notin live'
    BY <1>1, <2>1, <2>2 DEF CurCookie
  <2> QED BY <1>1, <2>1, <2>3, Answers
<1>6. CASE Err(c)
  <2>1. Answer(c, "error", None)
    BY <1>6 DEF Err
  <2>2. /\ live' \subseteq Tokens
        /\ saved' = saved \/ (call[c].op = "profile" /\ saved' = call[c].locale)
    BY <1>1, <1>6 DEF Err, Issues, Revokes, Stores, server
  <2>3. saved' \in Locales
    BY <1>1, <2>2 DEF Fit
  <2> QED BY <1>1, <2>1, <2>2, <2>3, Answers
<1> QED BY <1>2, <1>3, <1>4, <1>5, <1>6 DEF Handle
-----------------------------------------------------------------------------
(* The answer comes back, or never.                                        *)

(* A call under way has what the page will take from it.                   *)
LEMMA CallFacts ==
  ASSUME IInv, NEW c \in Calls
  PROVE  /\ call[c] \in CallStates /\ Fit(call[c])
         /\ /\ \/ Answered(c, "restore") \/ Answered(c, "login") \/ Answered(c, "me")
               \/ Answered(c, "profile") \/ Answered(c, "request")
            /\ Ok(c)
            => call[c].locale \in Locales /\ call[c].locale # None
         /\ call[c].at = "answered" /\ Ok(c) /\ Grants(call[c]) =>
              call[c].granted \in Tokens
BY NoneAssumption DEF IInv, TypeOK, CallsFit, Fit, Ok, Answered, CallStates

(* What a failed call does to the script leaves the page well typed.       *)
LEMMA FailsTyped ==
  ASSUME IInv, NEW c \in Calls, Fails(c), UNCHANGED server,
         cookie' \in Tokens \cup {None}
  PROVE  PageTyped'
<1>1. PageTyped /\ UNCHANGED <<live, saved>>
  BY DEF server, IInv, TypeOK, PageTyped
<1>2. CASE call[c].op = "restore" /\ Leave /\ UNCHANGED shown
  BY <1>1, <1>2, NoneAssumption DEF PageTyped, Leave
<1>3. CASE call[c].op = "profile" /\ shown' = call[c].previous
           /\ UNCHANGED <<accessToken, session, preferred>>
  BY <1>1, <1>3, CallFacts DEF PageTyped, Fit
<1>4. CASE /\ accessToken' \in {None, accessToken}
           /\ UNCHANGED <<session, preferred, shown>>
  BY <1>1, <1>4 DEF PageTyped
<1> QED BY <1>2, <1>3, <1>4 DEF Fails

LEMMA InvSettleRequest ==
  ASSUME IInv, NEW c \in Calls, SettleRequest(c)
  PROVE  IInv'
<1>1. PageTyped
  BY DEF IInv, TypeOK, PageTyped
<1>2. ASSUME NEW step \in {"refresh", "replay"}, PageTyped',
             Send(c, [NoCall EXCEPT !.op = "request", !.step = step])
      PROVE  IInv'
  <2>1. PICK j : j = [NoCall EXCEPT !.op = "request", !.step = step]
    OBVIOUS
  <2>2. /\ j \in CallStates /\ j.op = "request" /\ j.at = "idle"
        /\ j.answer = "none" /\ j.granted = None /\ j.awaited
    BY <2>1, NoCallFine DEF CallStates, NoCall
  <2>3. CurIdentity([j EXCEPT !.at = "sent"])'
    BY <2>2 DEF CurIdentity, CallStates
  <2> QED BY <1>2, <2>1, <2>2, <2>3, Sends
<1>3. CASE /\ UNCHANGED <<page, server>>
           /\ Send(c, [NoCall EXCEPT !.op = "request", !.step = "refresh"])
  BY <1>2, <1>3, PageKept
<1>4. CASE /\ call[c].step = "refresh" /\ Ok(c) /\ Enter(c)
           /\ UNCHANGED <<shown, server>>
           /\ Send(c, [NoCall EXCEPT !.op = "request", !.step = "replay"])
  <2>1. call[c].locale \in Locales /\ call[c].locale # None
        /\ call[c].granted \in Tokens
    BY <1>4, CallFacts DEF SettleRequest, Grants, Refreshes, Answered
  <2>2. PageTyped'
    BY <1>1, <1>4, <2>1 DEF PageTyped, Enter, server
  <2> QED BY <1>2, <1>4, <2>2
<1>5. CASE Leave /\ UNCHANGED <<shown, cookie, server>> /\ End(c)
  <2>1. PageTyped'
    BY <1>1, <1>5, NoneAssumption DEF PageTyped, Leave, server
  <2> QED BY <1>5, <2>1, Ends
<1>6. CASE UNCHANGED <<page, server>> /\ End(c)
  BY <1>6, PageKept, Ends
<1> QED BY <1>3, <1>4, <1>5, <1>6 DEF SettleRequest

LEMMA InvSettle ==
  ASSUME IInv, NEW c \in Calls, Settle(c)
  PROVE  IInv'
<1>1. PageTyped
  BY DEF IInv, TypeOK, PageTyped
<1>2. CASE SettleSession(c)
  <2>1. /\ call[c].locale \in Locales /\ call[c].locale # None
        /\ call[c].granted \in Tokens
    BY <1>2, CallFacts DEF SettleSession, Grants, Refreshes, Answered
  <2>2. PageTyped' /\ End(c)
    BY <1>1, <1>2, <2>1 DEF SettleSession, PageTyped, Enter, server
  <2> QED BY <2>2, Ends
<1>3. CASE SettleLogout(c)
  <2>1. PageTyped' /\ End(c)
    BY <1>1, <1>3, NoneAssumption DEF SettleLogout, PageTyped, Leave, server
  <2> QED BY <2>1, Ends
<1>4. CASE SettleProfile(c)
  <2>1. PageTyped' /\ End(c)
    BY <1>1, <1>4, CallFacts DEF SettleProfile, PageTyped, server
  <2> QED BY <2>1, Ends
<1>5. CASE SettleIdentity(c)
  <2>1. PageTyped' /\ End(c)
    BY <1>1, <1>5, CallFacts DEF SettleIdentity, PageTyped, server
  <2> QED BY <2>1, Ends
<1>6. CASE SettleFailure(c)
  <2>1. cookie' \in Tokens \cup {None}
    BY <1>1, <1>6 DEF SettleFailure, PageTyped
  <2>2. PageTyped' /\ End(c)
    BY <1>6, <2>1, FailsTyped DEF SettleFailure, server
  <2> QED BY <2>2, Ends
<1> QED BY <1>2, <1>3, <1>4, <1>5, <1>6, InvSettleRequest DEF Settle

(* A call that the page is done with counts as overtaken.                  *)
LEMMA InvDrop ==
  ASSUME IInv, NEW c \in Calls, Drop(c), PageTyped'
  PROVE  IInv'
<1>1. PICK j : j = Forsaken(call[c])
  OBVIOUS
<1>2. call' = [call EXCEPT ![c] = j]
  BY <1>1 DEF Drop
<1>3. call[c] \in CallStates /\ Fit(call[c])
  BY CallFacts
<1>4. j \in CallStates /\ Fit(j)
  <2>1. CASE call[c].at = "sent"
    <3>1. j = [call[c] EXCEPT !.awaited = FALSE]
      BY <1>1, <2>1 DEF Forsaken
    <3>2. /\ j \in CallStates /\ j.op = call[c].op /\ j.at = "sent"
          /\ j.step = call[c].step /\ j.answer = call[c].answer
          /\ j.granted = call[c].granted /\ j.locale = call[c].locale
          /\ j.previous = call[c].previous
      BY <1>3, <2>1, <3>1 DEF CallStates
    <3> QED BY <1>3, <2>1, <3>2 DEF Fit, Refreshes, Grants
  <2>2. CASE call[c].at # "sent"
    BY <1>1, <2>2, NoCallFine DEF Forsaken
  <2> QED BY <2>1, <2>2
<1>5. call'[c] = j /\ \A d \in Calls \ {c} : call'[d] = call[d]
  BY <1>2 DEF IInv, TypeOK
<1>6. crossed' = {d \in Calls :
                   /\ call'[d].at # "idle"
                   /\ d = c \/ d \in crossed \/ <<page, server>>' # <<page, server>>}
  BY DEF Drop
<1>7. c \notin crossed' => Cur(j)'
  <2>1. SUFFICES ASSUME c \notin crossed' PROVE Cur(j)'
    OBVIOUS
  <2>2. j.at = "idle"
    BY <1>5, <1>6, <2>1
  <2>3. j = NoCall
    BY <1>4, <2>2 DEF Fit
  <2> QED BY <2>3, NoCallFine DEF Cur, CurCookie, CurIdentity
<1>8. \A d \in Calls \ {c} :
        d \notin crossed' => ~Busy(d) \/ (d \notin crossed /\ Same)
  BY <1>5, <1>6 DEF Busy, Same, page, server
<1>9. crossed' \subseteq Calls
  BY <1>6
<1> QED BY <1>2, <1>4, <1>7, <1>8, <1>9, Moves

LEMMA InvLose ==
  ASSUME IInv, NEW c \in Calls, Lose(c)
  PROVE  IInv'
<1>1. cookie' \in Tokens \cup {None} /\ UNCHANGED server
  <2>1. call[c].granted \in Tokens \cup {None} /\ cookie \in Tokens \cup {None}
    BY DEF IInv, TypeOK, CallStates
  <2> QED BY <2>1 DEF Lose
<1>2. CASE Fails(c) /\ Drop(c)
  BY <1>1, <1>2, FailsTyped, InvDrop
<1>3. CASE UNCHANGED <<accessToken, session, preferred, shown>> /\ End(c)
  <2>1. PageTyped'
    BY <1>1, <1>3 DEF IInv, TypeOK, PageTyped, server
  <2> QED BY <1>3, <2>1, Ends
<1> QED BY <1>2, <1>3 DEF Lose

-----------------------------------------------------------------------------
(* The clock, an administrator's reset, and the whole.                     *)

LEMMA InvExpireAccess ==
  ASSUME IInv, ExpireAccess
  PROVE  IInv'
<1> DEFINE aged(v) == IF v = "live" THEN "expired" ELSE v
<1>1. /\ accessToken' = aged(accessToken)
      /\ call' = [c \in Calls |-> [call[c] EXCEPT !.bearer = aged(call[c].bearer)]]
      /\ UNCHANGED <<session, preferred, shown, cookie, live, saved, crossed>>
  BY DEF ExpireAccess, server
<1>2. ASSUME NEW c \in Calls
      PROVE  /\ call'[c] \in CallStates
             /\ call'[c].op = call[c].op /\ call'[c].step = call[c].step
             /\ call'[c].at = call[c].at /\ call'[c].awaited = call[c].awaited
             /\ call'[c].cookie = call[c].cookie
             /\ call'[c].answer = call[c].answer
             /\ call'[c].granted = call[c].granted
             /\ call'[c].locale = call[c].locale
             /\ call'[c].previous = call[c].previous
             /\ call'[c].agreed = call[c].agreed
             /\ call[c] = NoCall => call'[c] = NoCall
  <2>1. PICK j \in CallStates : j = call[c]
    BY DEF IInv, TypeOK
  <2>2. PICK b : b = aged(j.bearer)
    OBVIOUS
  <2>3. b \in {None, "live", "expired"}
    BY <2>1, <2>2 DEF CallStates
  <2>4. j = NoCall => b = j.bearer
    BY <2>2, NoneAssumption DEF NoCall
  <2>5. call'[c] = [j EXCEPT !.bearer = b]
    BY <1>1, <2>1, <2>2
  <2>6. PICK k : k = [j EXCEPT !.bearer = b]
    OBVIOUS
  <2>7. /\ k \in CallStates /\ k.op = j.op /\ k.step = j.step /\ k.at = j.at
        /\ k.awaited = j.awaited /\ k.cookie = j.cookie /\ k.answer = j.answer
        /\ k.granted = j.granted /\ k.locale = j.locale
        /\ k.previous = j.previous /\ k.agreed = j.agreed
    BY <2>1, <2>3, <2>6 DEF CallStates
  <2>8. b = j.bearer => k = j
    BY <2>1, <2>6 DEF CallStates
  <2> QED BY <2>1, <2>4, <2>5, <2>6, <2>7, <2>8
<1> HIDE DEF aged
<1>3. TypeOK'
  <2>1. call' = [c \in Calls |-> call'[c]]
    BY <1>1
  <2>2. call' \in [Calls -> CallStates]
    BY <1>2, <2>1
  <2>3. accessToken' \in {None, "live", "expired"}
    BY <1>1 DEF IInv, TypeOK, aged
  <2> QED BY <1>1, <2>2, <2>3 DEF IInv, TypeOK
<1>4. CallsFit'
  BY <1>2 DEF IInv, CallsFit, Fit, Refreshes, Grants
<1>5. CallsCurrent'
  BY <1>1, <1>2
     DEF IInv, CallsCurrent, Cur, CurCookie, CurIdentity, Refreshes, Grants
<1> QED BY <1>3, <1>4, <1>5 DEF IInv

LEMMA InvRevokeAll ==
  ASSUME IInv, RevokeAll
  PROVE  IInv'
<1>1. /\ UNCHANGED <<accessToken, session, preferred, shown, cookie, saved, call>>
      /\ live' = {} /\ crossed' = {c \in Calls : Busy(c)}
  BY DEF RevokeAll, page
<1>2. TypeOK' /\ CallsFit'
  BY <1>1 DEF IInv, TypeOK, CallsFit
<1>3. CallsCurrent'
  <2>1. ASSUME NEW c \in Calls, c \notin crossed' PROVE call'[c] = NoCall
    BY <1>1, <2>1 DEF IInv, CallsFit, Fit, Busy
  <2> QED BY <2>1, NoCallFine DEF CallsCurrent, Cur, CurCookie, CurIdentity
<1> QED BY <1>2, <1>3 DEF IInv

LEMMA InvInit == Init => IInv
<1>1. SUFFICES ASSUME Init PROVE IInv
  OBVIOUS
<1>2. PICK c \in Calls :
        call = [[d \in Calls |-> NoCall] EXCEPT
                  ![c] = [NoCall EXCEPT !.op = "restore", !.at = "sent",
                                        !.cookie = cookie]]
  BY <1>1 DEF Init
<1>3. PICK s : s = [NoCall EXCEPT !.op = "restore", !.at = "sent", !.cookie = cookie]
  OBVIOUS
<1>4. /\ s \in CallStates /\ s.op = "restore" /\ s.at = "sent"
      /\ s.step = "first" /\ s.answer = "none" /\ s.granted = None
      /\ s.cookie = cookie /\ s.awaited
  BY <1>1, <1>3 DEF NoCall, CallStates, Init
<1>5. /\ call \in [Calls -> CallStates] /\ call[c] = s
      /\ \A d \in Calls \ {c} : call[d] = NoCall
  BY <1>2, <1>3, <1>4, NoCallFine
<1>6. TypeOK
  BY <1>1, <1>5, NoneAssumption DEF Init, TypeOK
<1>7. Fit(s) /\ Cur(s)
  BY <1>4 DEF Fit, Cur, CurCookie, CurIdentity, Refreshes, Grants
<1>8. CallsFit /\ CallsCurrent
  BY <1>5, <1>7, NoCallFine DEF CallsFit, CallsCurrent
<1> QED BY <1>6, <1>8 DEF IInv

LEMMA InvNext == IInv /\ [Next]_vars => IInv'
<1>1. SUFFICES ASSUME IInv, [Next]_vars PROVE IInv'
  OBVIOUS
<1>2. CASE UNCHANGED vars
  BY <1>1, <1>2 DEF vars, page, server, IInv, TypeOK, CallsFit, CallsCurrent,
     Fit, Cur, CurCookie, CurIdentity
<1>3. ASSUME NEW c \in Calls,
             \/ Login(c) \/ Logout(c) \/ Request(c) \/ RefreshIdentity(c)
             \/ SetLocale(c) \/ Reload(c)
             \/ Handle(c) \/ Settle(c) \/ Lose(c)
      PROVE  IInv'
  BY <1>1, <1>3, InvStart, InvSetLocale, InvReload, InvHandle, InvSettle, InvLose
<1> QED BY <1>1, <1>2, <1>3, InvExpireAccess, InvRevokeAll DEF Next

LEMMA Invariant == Spec => []IInv
BY InvInit, InvNext, PTL DEF Spec

-----------------------------------------------------------------------------
(* Every variable of the page and of the server keeps its kind, and the    *)
(* page knows a locale for whoever it shows as signed in and for nobody    *)
(* else, whatever answers come back in whatever order.                     *)
THEOREM Typing == Spec => []TypeOK
<1>1. IInv => TypeOK
  BY DEF IInv
<1> QED BY <1>1, Invariant, PTL
-----------------------------------------------------------------------------
(* Causes of what the three action properties speak of.                    *)

Moved(c) == Busy(c) /\ call'[c] # call[c]

Alone(c) == \A d \in Calls \ {c} : call'[d] = call[d]

LEMMA Ending ==
  ASSUME IInv, NEW c \in Calls, End(c)
  PROVE  /\ Alone(c) /\ call'[c] = NoCall /\ call'[c].granted = None
         /\ Busy(c) => Moved(c)
<1>1. /\ Alone(c) /\ call'[c] = NoCall
  BY DEF End, IInv, TypeOK, Alone
<1>2. NoCall.at = "idle" /\ NoCall.granted = None
  BY DEF NoCall
<1> QED BY <1>1, <1>2 DEF Moved, Busy

LEMMA Sending ==
  ASSUME IInv, NEW c \in Calls, NEW j \in CallStates, Send(c, j)
  PROVE  /\ Alone(c) /\ call'[c].at = "sent" /\ call'[c].granted = j.granted
<1>1. PICK b : b = IF NeedsToken(j) THEN accessToken' ELSE None
  OBVIOUS
<1>2. PICK k : k = IF Refreshes(j) \/ j.op = "logout" THEN cookie' ELSE None
  OBVIOUS
<1>3. PICK s : s = [j EXCEPT !.at = "sent", !.bearer = b, !.cookie = k]
  OBVIOUS
<1>4. s.at = "sent" /\ s.granted = j.granted
  BY <1>3 DEF CallStates
<1>5. call' = [call EXCEPT ![c] = s]
  BY <1>1, <1>2, <1>3 DEF Send, Sent
<1> QED BY <1>4, <1>5 DEF IInv, TypeOK, Alone

LEMMA Answering ==
  ASSUME IInv, NEW c \in Calls, call[c].at = "sent", NEW answer, NEW granted,
         Answer(c, answer, granted)
  PROVE  /\ Alone(c) /\ Moved(c) /\ cookie' = cookie
         /\ call[c].awaited => /\ call'[c].granted = granted
                                /\ call'[c].answer = answer
<1>0. PICK l : l = IF answer = "ok" THEN saved' ELSE call[c].locale
  OBVIOUS
<1>1. PICK s : s = [call[c] EXCEPT !.at = "answered", !.answer = answer,
                             !.granted = granted, !.bearer = None, !.cookie = None,
                             !.locale = l]
  OBVIOUS
<1>2. PICK j : j = IF call[c].awaited THEN s ELSE NoCall
  OBVIOUS
<1>3. call' = [call EXCEPT ![c] = j] /\ UNCHANGED page
  BY <1>0, <1>1, <1>2, Zenon DEF Answer
<1>4. PICK k \in CallStates : k = call[c]
  BY DEF IInv, TypeOK
<1>5. s.at = "answered" /\ s.granted = granted /\ s.answer = answer
  BY <1>1, <1>4 DEF CallStates
<1>6. NoCall.at = "idle"
  BY DEF NoCall
<1> QED BY <1>2, <1>3, <1>5, <1>6 DEF IInv, TypeOK, Alone, Moved, Busy, page

(* What comes back, or never does, moves its call and no other.            *)
LEMMA Returning ==
  ASSUME IInv, NEW c \in Calls, Settle(c) \/ Lose(c)
  PROVE  Alone(c) /\ Moved(c)
<1>4. CASE Drop(c) /\ Busy(c) /\ call[c].awaited
  <2>1. PICK j : j = Forsaken(call[c])
    OBVIOUS
  <2>2. call' = [call EXCEPT ![c] = j]
    BY <1>4, <2>1 DEF Drop
  <2>3. call'[c] = j /\ Alone(c)
    BY <2>2 DEF IInv, TypeOK, Alone
  <2>4. j # call[c]
    <3>1. CASE call[c].at = "sent"
      BY <1>4, <2>1, <3>1, CallFacts DEF Forsaken, CallStates
    <3>2. CASE call[c].at # "sent"
      BY <1>4, <2>1, <3>2 DEF Forsaken, Busy, NoCall
    <3> QED BY <3>1, <3>2
  <2> QED BY <1>4, <2>3, <2>4 DEF Moved
<1>1. Busy(c) /\ (Settle(c) => call[c].at = "answered")
  <2>1. CASE Lose(c)
    BY <2>1 DEF Lose, Settle, SettleSession, SettleLogout, SettleRequest,
       SettleProfile, SettleIdentity, SettleFailure, Answered
  <2>2. CASE Settle(c)
    BY <2>2 DEF Busy, Settle, SettleSession, SettleLogout, SettleRequest,
       SettleProfile, SettleIdentity, SettleFailure, Answered
  <2> QED BY <2>1, <2>2
<1>2. CASE End(c)
  BY <1>1, <1>2, Ending
<1>3. CASE ~End(c) /\ ~Lose(c)
  <2>1. SettleRequest(c)
    BY <1>3 DEF Settle, SettleSession, SettleLogout, SettleProfile,
       SettleIdentity, SettleFailure
  <2>2. PICK step \in {"refresh", "replay"} :
          Send(c, [NoCall EXCEPT !.op = "request", !.step = step])
    BY <1>3, <2>1 DEF SettleRequest
  <2>3. [NoCall EXCEPT !.op = "request", !.step = step] \in CallStates
    BY NoCallFine DEF CallStates
  <2>4. call[c].at = "answered"
    BY <2>1 DEF SettleRequest, Answered
  <2> QED BY <1>1, <2>2, <2>3, <2>4, Sending DEF Moved
<1> QED BY <1>2, <1>3, <1>4 DEF Lose

(* An answer that nothing overtook and that leaves the page without a good *)
(* cookie, or with the one it was given.                                   *)
LEMMA Current ==
  ASSUME IInv, NEW c \in Calls, c \notin crossed, call[c].at = "answered"
  PROVE  /\ Refreshes(call[c]) /\ call[c].answer \in {"ok", "401"} =>
              cookie \notin live
         /\ call[c].op = "logout" /\ Ok(c) => cookie \notin live
         /\ Grants(call[c]) /\ Ok(c) => call[c].granted \in live
         /\ call[c].op = "me" => session = "identity"
         /\ call[c].op = "profile" => call[c].previous = preferred
         /\ call[c].op = "profile" /\ Ok(c) => shown = saved
         /\ call[c].op = "profile" /\ ~Ok(c) /\ call[c].agreed =>
              preferred = saved \/ StoredAnyway(c)
BY DEF StoredAnyway, IInv, CallsCurrent, Cur, CurCookie, CurIdentity, Ok

-----------------------------------------------------------------------------
(* The page that shows somebody as signed in has a good refresh cookie     *)
(* behind it, and the one that sends to /login has none, up to answers     *)
(* that were overtaken, lost, or errors.  For an answer that nothing       *)
(* overtook, the cookie of the page is the one its fetch carried, and the  *)
(* server has revoked it when it answered.                                 *)
THEOREM SessionFollows == Spec => SessionFollowsCookie
<1> DEFINE Cause == \E c \in Calls :
             /\ Busy(c) /\ call'[c] # call[c]
             /\ c \in crossed \/ call[c].answer = "error" \/ Lose(c)
           Astray == /\ session' # session /\ session' # "undefined"
                     /\ (session' = "identity") # (cookie' \in live')
<1>1. IInv /\ [Next]_vars => [Astray => Cause]_vars
  <2>1. SUFFICES ASSUME IInv, Next, Astray PROVE Cause
    OBVIOUS
  <2>2. PICK c \in Calls : Settle(c) \/ Lose(c)
    <3>1. ASSUME NEW c \in Calls,
                 \/ Login(c) \/ Logout(c) \/ Request(c) \/ RefreshIdentity(c)
                 \/ SetLocale(c) \/ Reload(c) \/ Handle(c)
          PROVE  session' \in {session, "undefined"}
      BY <3>1 DEF Login, Logout, Request, RefreshIdentity, SetLocale, Start,
         Reload, Handle, Grant, Revoke, Serve, Deny, Err, Answer, page
    <3>2. ExpireAccess \/ RevokeAll => session' = session
      BY DEF ExpireAccess, RevokeAll, page
    <3> QED BY <2>1, <3>1, <3>2 DEF Next
  <2>3. Moved(c) /\ Busy(c) /\ call[c] \in CallStates /\ Fit(call[c])
    BY <2>1, <2>2, CallFacts, Returning DEF Moved
  <2>4. SUFFICES ASSUME c \notin crossed, call[c].answer # "error", Settle(c)
                 PROVE  FALSE
    BY <2>2, <2>3 DEF Moved
  <2>5. call[c].at = "answered"
    BY <2>4 DEF Settle, SettleSession, SettleLogout, SettleRequest,
       SettleProfile, SettleIdentity, SettleFailure, Answered
  <2>6. None \notin live
    BY <2>1, NoneAssumption DEF IInv, TypeOK
  <2>7. CASE SettleFailure(c)
    <3>1. call[c].op = "restore" /\ Leave /\ call[c].answer = "401"
      BY <2>1, <2>3, <2>4, <2>7 DEF SettleFailure, Fails, Ok, CallStates, Fit
    <3>2. cookie \notin live /\ UNCHANGED <<cookie, live>>
      BY <2>1, <2>4, <2>5, <2>7, <3>1, Current DEF Refreshes, SettleFailure, server
    <3> QED BY <2>1, <3>1, <3>2 DEF Leave
  <2>9. CASE SettleSession(c) \/ (SettleRequest(c) /\ Enter(c))
    <3>1. Enter(c) /\ live' = live
      BY <2>9 DEF SettleSession, SettleRequest, server
    <3>2. Grants(call[c]) /\ Ok(c)
      BY <2>1, <2>9 DEF SettleSession, SettleRequest, Answered, Grants, Refreshes,
         Enter, Leave, page
    <3> QED BY <2>1, <2>4, <2>5, <3>1, <3>2, Current DEF Enter
  <2>10. CASE SettleRequest(c) /\ ~Enter(c)
    <3>1. /\ call[c].step = "refresh" /\ Leave /\ UNCHANGED <<cookie, live>>
          /\ call[c].answer \in {"ok", "401"}
      BY <2>1, <2>3, <2>4, <2>5, <2>10
         DEF SettleRequest, page, server, CallStates, Fit, Ok
    <3> QED BY <2>1, <2>4, <2>5, <3>1, Current DEF Refreshes, Leave
  <2>11. CASE SettleLogout(c)
    BY <2>1, <2>6, <2>11 DEF SettleLogout, Leave, server
  <2>12. CASE SettleProfile(c)
    BY <2>1, <2>12 DEF SettleProfile
  <2>13. CASE SettleIdentity(c)
    BY <2>1, <2>4, <2>5, <2>13, Current DEF SettleIdentity, Answered
  <2> QED BY <2>4, <2>7, <2>9, <2>10, <2>11, <2>12, <2>13 DEF Settle
<1> QED BY <1>1, Invariant, PTL DEF Spec, SessionFollowsCookie

(* When the page is done with a change of language that nothing overtook,  *)
(* it speaks the language of the account, unless the account took the      *)
(* change and the answer was lost or an error, or the two did not agree    *)
(* before.                                                                 *)
THEOREM LocaleFollows == Spec => LocaleFollowsAccount
<1> DEFINE Agree == \A c \in Calls :
             /\ call[c].op = "profile" /\ c \notin crossed
             /\ Settle(c) \/ Lose(c)
             => \/ shown' = saved'
                \/ Lose(c) /\ Ok(c)
                \/ StoredAnyway(c)
                \/ ~Ok(c) /\ ~call[c].agreed
<1>1. IInv /\ [Next]_vars => [Agree]_vars
  <2>1. SUFFICES ASSUME IInv, NEW c \in Calls,
                        call[c].op = "profile", c \notin crossed,
                        Settle(c) \/ Lose(c),
                        ~(Lose(c) /\ Ok(c)), ~StoredAnyway(c),
                        Ok(c) \/ call[c].agreed
                 PROVE  shown' = saved'
    OBVIOUS
  <2>2. call[c].previous = preferred /\ session = "identity"
    BY <2>1 DEF IInv, CallsCurrent, Cur, CurIdentity
  <2>3. CASE Fails(c) /\ ~Ok(c) /\ UNCHANGED server
    <3>1. preferred = saved
      BY <2>1, <2>3 DEF StoredAnyway, Ok, IInv, CallsCurrent, Cur, CurIdentity
    <3> QED BY <2>1, <2>2, <2>3, <3>1 DEF Fails, server
  <2>4. CASE SettleProfile(c)
    BY <2>1, <2>4, Current DEF SettleProfile, Answered, server
  <2>5. CASE Lose(c)
    <3>1. call[c].awaited
      BY <2>1, <2>2 DEF IInv, CallsCurrent, Cur, CurIdentity
    <3> QED BY <2>1, <2>3, <2>5, <3>1 DEF Lose
  <2> QED BY <2>1, <2>2, <2>3, <2>4, <2>5 DEF Settle, SettleSession, SettleLogout,
             SettleRequest, SettleIdentity, SettleFailure, Answered, server
<1> QED BY <1>1, Invariant, PTL DEF Spec, LocaleFollowsAccount

-----------------------------------------------------------------------------
(* What keeps good tokens within reach.                                    *)
LEMMA Reach ==
  ASSUME IInv, NEW c \in Calls, Alone(c), live' \subseteq live,
         cookie' = cookie \/ cookie \notin live,
         call[c].granted \in {None, cookie', call'[c].granted}
  PROVE  Abandoned' \subseteq Abandoned
<1>1. None \notin live
  BY NoneAssumption DEF IInv, TypeOK
<1>2. SUFFICES ASSUME NEW x \in Abandoned' PROVE x \in Abandoned
  OBVIOUS
<1>3. /\ x \in live /\ x # cookie' /\ x # None
      /\ \A d \in Calls : x # call'[d].granted
  BY <1>1, <1>2 DEF Abandoned
<1>4. \A d \in Calls : x # call[d].granted
  BY <1>3 DEF Alone
<1>5. x # cookie
  BY <1>3
<1> QED BY <1>3, <1>4, <1>5 DEF Abandoned

(* A good refresh token gets out of reach of the page, and so of logout,   *)
(* only by a lost or an overtaken answer, by an error after the commit,    *)
(* while the page is loaded anew, or by a login over a session that the    *)
(* page had given up.                                                      *)
THEOREM AbandonedExplained == Spec => AbandonedNeedsCause
<1> DEFINE Cause == \E c \in Calls :
             /\ Busy(c) /\ call'[c] # call[c]
             /\ \/ c \in crossed \/ Lose(c)
                \/ call'[c].answer = "error"
                \/ session' = "undefined"
                \/ call[c].op = "login" /\ cookie # None
           Kept == Abandoned' \subseteq Abandoned
<1>1. IInv /\ [Next]_vars => [Kept \/ Cause]_vars
  <2>1. SUFFICES ASSUME IInv, Next, ~Cause PROVE Kept
    OBVIOUS
  <2>2. ASSUME NEW c \in Calls
        PROVE  /\ ~Busy(c) => call[c].granted = None
               /\ call[c] \in CallStates /\ Fit(call[c])
    BY <2>1 DEF IInv, TypeOK, CallsFit, Fit, Busy
  <2>3. ASSUME NEW c \in Calls,
               Login(c) \/ Logout(c) \/ Request(c) \/ RefreshIdentity(c)
                 \/ SetLocale(c)
        PROVE  Kept
    <3>1. ~Busy(c) /\ UNCHANGED <<cookie, live>>
      BY <2>3 DEF Login, Logout, Request, RefreshIdentity, SetLocale, Start,
         page, server
    <3>2. Alone(c)
      BY <2>1, <2>3 DEF Login, Logout, Request, RefreshIdentity, SetLocale, Start,
         Send, Alone, IInv, TypeOK
    <3> QED BY <2>1, <2>2, <3>1, <3>2, Reach
  <2>4. ASSUME NEW c \in Calls, Reload(c) PROVE Kept
    <3>1. session' = "undefined" /\ UNCHANGED live /\ ~Busy(c)
      BY <2>4 DEF Reload, server
    <3>2. ASSUME NEW d \in Calls
          PROVE  /\ call[d].granted = None \/ call'[d] = call[d]
                 /\ SetsCookie(call[d]) => call'[d] = call[d]
      BY <2>1, <2>2, <3>1 DEF Busy, SetsCookie
    <3>4. ASSUME NEW d \in Calls PROVE ~SetsCookie(call[d])
      <4>1. CASE d = c
        BY <3>1, <4>1 DEF SetsCookie, Busy
      <4>2. CASE d # c /\ call[d].at = "answered"
        <5>1. call'[d] = NoCall
          BY <2>4, <4>2 DEF Reload, Forsaken
        <5> QED BY <3>2, <4>2, <5>1 DEF NoCall
      <4> QED BY <4>1, <4>2 DEF SetsCookie
    <3>5. cookie' = cookie
      BY <2>4, <3>4 DEF Reload
    <3>3. None \notin live
      BY <2>1, NoneAssumption DEF IInv, TypeOK
    <3> QED BY <3>1, <3>2, <3>3, <3>5 DEF Abandoned
  <2>5. ASSUME NEW c \in Calls, Handle(c) PROVE Kept
    <3>2. call[c].at = "sent" /\ call[c].granted = None
      BY <2>2, <2>5 DEF Handle, Fit
    <3>7. PICK answer, granted : Answer(c, answer, granted)
      BY <2>5 DEF Handle, Grant, Revoke, Serve, Deny, Err
    <3>8. Moved(c) /\ session' = session
      BY <2>1, <3>2, <3>7, Answering DEF Answer, page
    <3>6. call[c].awaited
      <4>1. c \notin crossed /\ session # "undefined"
        BY <2>1, <3>8 DEF Moved
      <4> QED BY <2>1, <4>1 DEF IInv, CallsCurrent, Cur, CurIdentity
    <3>9. CASE Err(c)
      <4>1. Answer(c, "error", None)
        BY <3>9 DEF Err
      <4>2. call'[c].answer = "error"
        BY <2>1, <3>2, <3>6, <4>1, Answering
      <4> QED BY <2>1, <3>8, <4>2 DEF Moved
    <3>10. CASE ~Err(c)
      <4>1. PICK a, g : Answer(c, a, g)
                        /\ (live' \subseteq live \/ live' \subseteq live \cup {g})
        BY <2>5, <3>10 DEF Handle, Grant, Issues, Revoke, Revokes, Serve, Stores,
           Deny, server
      <4>2. Alone(c) /\ cookie' = cookie /\ call'[c].granted = g
        BY <2>1, <3>2, <3>6, <4>1, Answering
      <4>3. None \notin live
        BY <2>1, NoneAssumption DEF IInv, TypeOK
      <4> QED BY <3>2, <4>1, <4>2, <4>3 DEF Abandoned, Alone
    <3> QED BY <3>9, <3>10
  <2>6. ASSUME NEW c \in Calls, Lose(c) PROVE Kept
    BY <2>1, <2>6, Returning DEF Moved
  <2>7. ASSUME NEW c \in Calls, Settle(c) PROVE Kept
    <3>1. /\ call[c].at = "answered" /\ live' = live
      BY <2>7 DEF Settle, SettleSession, SettleLogout, SettleRequest, SettleProfile,
         SettleIdentity, SettleFailure, Answered, server
    <3>2. Alone(c) /\ Moved(c)
      BY <2>1, <2>7, Returning
    <3>3. c \notin crossed /\ (call[c].op = "login" => cookie = None)
      BY <2>1, <3>2 DEF Moved
    <3>4. CASE Ok(c) /\ Grants(call[c])
      <4>1. Enter(c)
        BY <2>2, <2>7, <3>4 DEF Settle, SettleSession, SettleLogout, SettleRequest,
           SettleProfile, SettleIdentity, SettleFailure, Answered, Grants,
           Refreshes, Fit
      <4>2. cookie \notin live
        BY <2>1, <3>1, <3>3, <3>4, Current, NoneAssumption
           DEF Grants, Ok, IInv, TypeOK
      <4> QED BY <2>1, <3>1, <3>2, <4>1, <4>2, Reach DEF Enter
    <3>5. CASE ~(Ok(c) /\ Grants(call[c]))
      <4>1. call[c].granted = None
        BY <2>2, <3>5 DEF Fit, Ok
      <4>2. cookie' = cookie \/ (SettleLogout(c) /\ cookie \notin live)
        BY <2>1, <2>7, <3>1, <3>3, <3>5, Current
           DEF Settle, SettleSession, SettleLogout, SettleRequest, SettleProfile,
               SettleIdentity, SettleFailure, Answered, Grants, Refreshes, page
      <4> QED BY <2>1, <3>1, <3>2, <4>1, <4>2, Reach
    <3> QED BY <3>4, <3>5
  <2>8. CASE ExpireAccess
    <3>1. /\ UNCHANGED <<cookie, live>>
          /\ call' = [c \in Calls |->
                        [call[c] EXCEPT !.bearer =
                           IF call[c].bearer = "live" THEN "expired"
                           ELSE call[c].bearer]]
      BY <2>8 DEF ExpireAccess, server
    <3>2. \A c \in Calls : call'[c].granted = call[c].granted
      BY <2>2, <3>1 DEF CallStates
    <3> QED BY <3>1, <3>2 DEF Abandoned
  <2>9. CASE RevokeAll
    BY <2>9 DEF RevokeAll, Abandoned
  <2> QED BY <2>1, <2>3, <2>4, <2>5, <2>6, <2>7, <2>8, <2>9 DEF Next
<1> QED BY <1>1, Invariant, PTL DEF Spec, AbandonedNeedsCause
=============================================================================
