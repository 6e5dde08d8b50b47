--------------------------- MODULE ClientSession ---------------------------
(***************************************************************************)
(* The session as the browser page keeps it (api/client.ts,                *)
(* auth/AuthContext.tsx): an access token in memory, the identity that the *)
(* pages show, a refresh cookie the script cannot read, and calls whose    *)
(* answers come back in any order or not at all.  A fetch is served        *)
(* (Handle) and comes back (Settle), or rejects (Lose).  The server        *)
(* answers in one step; Sessions looks inside.                             *)
(***************************************************************************)
CONSTANTS
  Calls,    \* calls of the api that can be under way at once
  Tokens,   \* refresh tokens
  Locales,
  None

ASSUME NoneAssumption ==
  None \notin Calls \cup Tokens \cup Locales \cup {"live", "expired"}

VARIABLES
  accessToken,  \* None, or what the server thinks of it, "live" or "expired"
  session,      \* of AuthContext: "undefined", "null" or "identity"
  preferred,    \* the locale that this identity prefers
  shown,        \* the language of the page
  cookie,       \* the refresh token in the browser's jar, or None
  live,         \* the server's refresh tokens that are good
  saved,        \* the locale that the account prefers
  call,         \* call[c]: what a call is doing
  crossed       \* history: the calls overtaken since their fetch was sent

page == <<accessToken, session, preferred, shown, cookie>>
server == <<live, saved>>
vars == <<page, server, call, crossed>>

NoCall ==
  [op |-> "none", step |-> "first", at |-> "idle", awaited |-> TRUE,
   bearer |-> None, cookie |-> None, answer |-> "none", granted |-> None,
   locale |-> None, previous |-> None,
   agreed |-> TRUE]  \* history: what it rolls back to is what the account has

Busy(c) == call[c].at # "idle"

(* What c does overtakes the other calls if it changes what they rely on;  *)
(* a fetch that is just sent has not been overtaken yet.                   *)
Overtake(c) ==
  crossed' = {d \in Calls \ {c} : d \in crossed /\ call'[d].at # "idle"}
               \cup {d \in Calls \ {c} : Busy(d) /\ <<page, server>>' # <<page, server>>}

(* Does the route of this fetch look at the refresh cookie?  At the access *)
(* token?  A login looks at neither.                                       *)
Refreshes(j) == j.op = "restore" \/ j.step = "refresh"

NeedsToken(j) == j.op \in {"request", "me", "profile"} /\ ~Refreshes(j)

(* A fetch, with the token in memory and the cookie of this moment.        *)
Sent(j) ==
  [j EXCEPT !.at = "sent",
            !.bearer = IF NeedsToken(j) THEN accessToken' ELSE None,
            !.cookie = IF Refreshes(j) \/ j.op = "logout" THEN cookie' ELSE None]

Send(c, j) == call' = [call EXCEPT ![c] = Sent(j)] /\ Overtake(c)

End(c) == call' = [call EXCEPT ![c] = NoCall] /\ Overtake(c)

Init ==
  /\ accessToken = None /\ session = "undefined" /\ preferred = None
  /\ shown \in Locales /\ saved \in Locales
  /\ cookie \in Tokens \cup {None}
  /\ live \in {{}, {cookie} \ {None}}
  /\ \E c \in Calls :
       call = [[d \in Calls |-> NoCall] EXCEPT
                 ![c] = [NoCall EXCEPT !.op = "restore", !.at = "sent",
                                       !.cookie = cookie]]
  /\ crossed = {}

-----------------------------------------------------------------------------
(* What the user and the pages start.                                      *)

Start(c, op) ==
  /\ ~Busy(c)
  /\ UNCHANGED <<page, server>>
  /\ Send(c, [NoCall EXCEPT !.op = op])

(* LoginPage, whose button is disabled while a login is awaited; it may be *)
(* on the screen before the session is restored.                           *)
Login(c) ==
  /\ session # "identity"
  /\ \A d \in Calls : call[d].op = "login" => ~call[d].awaited
  /\ Start(c, "login")

Logout(c) == session = "identity" /\ Start(c, "logout")

(* Any call behind RequireAuth but those of /auth/.                        *)
Request(c) == session = "identity" /\ Start(c, "request")

RefreshIdentity(c) == session = "identity" /\ Start(c, "me")

(* Mutant of SetLocale: what to roll back to is noted too late.            *)
SetLocaleForgetting(c) ==
  \E locale \in Locales :
    /\ session = "identity" /\ ~Busy(c)
    /\ shown' = locale
    /\ UNCHANGED <<accessToken, session, preferred, cookie, server>>
    /\ Send(c, [NoCall EXCEPT !.op = "profile", !.locale = locale,
                              !.previous = locale,
                              !.agreed = (preferred = saved)])

(* setLocale: the page changes first, then the account.                    *)
SetLocale(c) ==
  \E locale \in Locales :
    /\ session = "identity" /\ ~Busy(c)
    /\ shown' = locale
    /\ UNCHANGED <<accessToken, session, preferred, cookie, server>>
    /\ Send(c, [NoCall EXCEPT !.op = "profile", !.locale = locale,
                              !.previous = preferred,
                              !.agreed = (preferred = saved)])

(* A call that its page has given up: the server may still handle it, but  *)
(* its answer comes to nobody.                                             *)
Forsaken(j) ==
  IF j.at = "sent" THEN [j EXCEPT !.awaited = FALSE] ELSE NoCall

(* The answers whose headers set the cookie, or clear it.                  *)
SetsCookie(j) ==
  j.at = "answered" /\ j.answer = "ok" /\ (j.op = "logout" \/ j.granted # None)

(* The page is loaded anew: the state of the script is gone, but the jar   *)
(* may have taken the cookie of an answer that the script had not seen.    *)
Reload(c) ==
  /\ ~Busy(c)
  /\ accessToken' = None /\ session' = "undefined" /\ preferred' = None
  /\ cookie' \in {cookie} \cup
                   {call[d].granted : d \in {e \in Calls : SetsCookie(call[e])}}
  /\ UNCHANGED <<shown, server>>
  /\ call' = [[d \in Calls |-> Forsaken(call[d])]
                 EXCEPT ![c] = Sent([NoCall EXCEPT !.op = "restore"])]
  /\ Overtake(c)

-----------------------------------------------------------------------------
(* The server: api/v1/auth.py, get_current_user.                           *)

Answer(c, answer, granted) ==
  /\ LET j == call[c]
         heard == [j EXCEPT !.at = "answered", !.answer = answer,
                            !.granted = granted, !.bearer = None, !.cookie = None,
                            !.locale = IF answer = "ok" THEN saved' ELSE j.locale]
     IN  call' = [call EXCEPT ![c] = IF j.awaited THEN heard ELSE NoCall]
  /\ UNCHANGED page
  /\ crossed' = {d \in Calls : \/ d \in crossed /\ call'[d].at # "idle"
                               \/ d # c /\ Busy(d) /\ server' # server}

(* A token that no one holds stands for one never issued.                  *)
Fresh(t) ==
  /\ t \notin live /\ t # cookie
  /\ \A c \in Calls : t # call[c].cookie /\ t # call[c].granted

(* What a login commits, and a refresh, which has committed before that    *)
(* that the token presented is revoked.                                    *)
Issues(c, t) ==
  /\ Fresh(t)
  /\ \/ call[c].op = "login" /\ live' = live \cup {t}
     \/ /\ Refreshes(call[c]) /\ call[c].cookie \in live
        /\ live' = (live \ {call[c].cookie}) \cup {t}
  /\ UNCHANGED saved

(* What a logout commits, and a refresh first.                             *)
Revokes(c) ==
  /\ call[c].op = "logout" \/ Refreshes(call[c])
  /\ live' = live \ {call[c].cookie}
  /\ UNCHANGED saved

(* What a route commits that needs the access token; update_me stores the  *)
(* locale.                                                                 *)
Stores(c) ==
  /\ NeedsToken(call[c]) /\ call[c].bearer = "live"
  /\ saved' = IF call[c].op = "profile" THEN call[c].locale ELSE saved
  /\ UNCHANGED live

(* login and refresh.                                                      *)
Grant(c) == \E t \in Tokens : Issues(c, t) /\ Answer(c, "ok", t)

(* Mutant of Revoke: the token outlives the logout.                        *)
RevokeNothing(c) ==
  /\ call[c].op = "logout"
  /\ UNCHANGED server
  /\ Answer(c, "ok", None)

(* logout: a cookie that is missing or revoked is no error.                *)
Revoke(c) == call[c].op = "logout" /\ Revokes(c) /\ Answer(c, "ok", None)

Serve(c) == Stores(c) /\ Answer(c, "ok", None)

(* 401: a wrong password, a dead cookie, a missing or an expired token.    *)
Deny(c) ==
  /\ \/ call[c].op = "login"
     \/ Refreshes(call[c]) /\ call[c].cookie \notin live
     \/ NeedsToken(call[c]) /\ call[c].bearer # "live"
  /\ UNCHANGED server
  /\ Answer(c, "401", None)

(* An answer that is not ok for another reason, the server's or a proxy's: *)
(* before anything is committed, between the two commits of a refresh, or  *)
(* after the last one (issue_session is followed by the payload,           *)
(* update_profile by reads, any route by the way back).  It sets nothing.  *)
Err(c) ==
  /\ \/ UNCHANGED server
     \/ \E t \in Tokens : Issues(c, t)
     \/ Revokes(c)
     \/ Stores(c)
  /\ Answer(c, "error", None)

Handle(c) ==
  /\ call[c].at = "sent"
  /\ Grant(c) \/ Revoke(c) \/ Serve(c) \/ Deny(c) \/ Err(c)

-----------------------------------------------------------------------------
(* The answer comes back: the browser stores the cookie, the script goes   *)
(* on.                                                                     *)

Answered(c, op) == call[c].at = "answered" /\ call[c].op = op

Ok(c) == call[c].answer = "ok"

(* A session from the server reaches the memory and the context.           *)
Enter(c) ==
  /\ accessToken' = "live" /\ session' = "identity"
  /\ cookie' = call[c].granted
  /\ preferred' = call[c].locale

Leave == accessToken' = None /\ session' = "null" /\ preferred' = None

(* The effect on the script of restoreSession's catch, of the finally of   *)
(* logout, of the rollback of setLocale: a call that did not succeed.      *)
Fails(c) ==
  \/ call[c].op = "restore" /\ Leave /\ UNCHANGED shown
  \/ /\ call[c].op = "logout"
     /\ accessToken' = None
     /\ UNCHANGED <<session, preferred, shown>>
  \/ /\ call[c].op = "profile"
     /\ shown' = call[c].previous
     /\ UNCHANGED <<accessToken, session, preferred>>
  \/ /\ call[c].op \in {"login", "me", "request"}
     /\ UNCHANGED <<accessToken, session, preferred, shown>>

SettleFailure(c) ==
  /\ call[c].at = "answered" /\ call[c].op # "request" /\ ~Ok(c)
  /\ Fails(c)
  /\ UNCHANGED <<cookie, server>>
  /\ End(c)

(* restoreSession and login.                                               *)
SettleSession(c) ==
  /\ Answered(c, "restore") \/ Answered(c, "login")
  /\ Ok(c)
  /\ Enter(c)
  /\ shown' = call[c].locale
  /\ UNCHANGED server
  /\ End(c)

SettleLogout(c) ==
  /\ Answered(c, "logout") /\ Ok(c)
  /\ Leave
  /\ cookie' = None
  /\ UNCHANGED <<shown, server>>
  /\ End(c)

(* Mutant of SettleRequest: an expired token signs out.                    *)
SettleRequestUnrefreshed(c) ==
  /\ Answered(c, "request")
  /\ IF call[c].answer = "401" THEN Leave
     ELSE UNCHANGED <<accessToken, session, preferred>>
  /\ UNCHANGED <<shown, cookie, server>>
  /\ End(c)

(* request: one 401 is answered by one refresh and a replay; a refresh     *)
(* that is refused, for whatever reason, signs out.                        *)
SettleRequest(c) ==
  /\ Answered(c, "request")
  /\ \/ /\ call[c].step = "first" /\ call[c].answer = "401"
        /\ UNCHANGED <<page, server>>
        /\ Send(c, [NoCall EXCEPT !.op = "request", !.step = "refresh"])
     \/ /\ call[c].step = "refresh" /\ Ok(c)
        /\ Enter(c)
        /\ UNCHANGED <<shown, server>>
        /\ Send(c, [NoCall EXCEPT !.op = "request", !.step = "replay"])
     \/ /\ call[c].step = "refresh" /\ ~Ok(c)
        /\ Leave
        /\ UNCHANGED <<shown, cookie, server>>
        /\ End(c)
     \/ /\ \/ call[c].step = "replay"
           \/ call[c].step = "first" /\ call[c].answer # "401"
        /\ UNCHANGED <<page, server>>
        /\ End(c)

(* Mutant of SettleProfile: there is always an identity.                   *)
SettleProfileAnyway(c) ==
  /\ Answered(c, "profile") /\ Ok(c)
  /\ preferred' = call[c].locale
  /\ UNCHANGED <<accessToken, session, shown, cookie, server>>
  /\ End(c)

(* setLocale: the identity, if there is one, gets what was saved.          *)
SettleProfile(c) ==
  /\ Answered(c, "profile") /\ Ok(c)
  /\ preferred' = IF session = "identity" THEN call[c].locale ELSE preferred
  /\ UNCHANGED <<accessToken, session, shown, cookie, server>>
  /\ End(c)

(* refreshIdentity: the identity is the one that came, whatever there was. *)
SettleIdentity(c) ==
  /\ Answered(c, "me") /\ Ok(c)
  /\ session' = "identity"
  /\ preferred' = call[c].locale /\ shown' = call[c].locale
  /\ UNCHANGED <<accessToken, cookie, server>>
  /\ End(c)

Settle(c) ==
  \/ SettleSession(c) \/ SettleLogout(c) \/ SettleRequest(c)
  \/ SettleProfile(c) \/ SettleIdentity(c) \/ SettleFailure(c)

(* The page is done with a call that the server may still have to handle,  *)
(* and so has overtaken it.                                                *)
Drop(c) ==
  /\ call' = [call EXCEPT ![c] = Forsaken(call[c])]
  /\ crossed' = {d \in Calls :
                   /\ call'[d].at # "idle"
                   /\ d = c \/ d \in crossed \/ <<page, server>>' # <<page, server>>}

(* The fetch rejects, before the server has handled it or after; or the    *)
(* body of its answer does, and then the jar has taken the cookie.  A call *)
(* that its page has given up ends unnoticed.                              *)
Lose(c) ==
  /\ Busy(c)
  /\ cookie' \in {cookie} \cup ({call[c].granted} \ {None})
  /\ UNCHANGED server
  /\ \/ call[c].awaited /\ Fails(c) /\ Drop(c)
     \/ /\ ~call[c].awaited
        /\ UNCHANGED <<accessToken, session, preferred, shown>>
        /\ End(c)

-----------------------------------------------------------------------------
(* The clock.  The access tokens of one page expire together.              *)
ExpireAccess ==
  LET aged(v) == IF v = "live" THEN "expired" ELSE v
  IN  /\ \/ accessToken = "live"
         \/ \E c \in Calls : call[c].bearer = "live"
      /\ accessToken' = aged(accessToken)
      /\ call' = [c \in Calls |-> [call[c] EXCEPT !.bearer = aged(@)]]
      /\ UNCHANGED <<session, preferred, shown, cookie, server, crossed>>

(* An administrator's reset revokes the sessions of the account.           *)
RevokeAll ==
  /\ live # {}
  /\ live' = {}
  /\ crossed' = {c \in Calls : Busy(c)}
  /\ UNCHANGED <<page, saved, call>>

Next ==
  \/ \E c \in Calls :
       \/ Login(c) \/ Logout(c) \/ Request(c) \/ RefreshIdentity(c)
       \/ SetLocale(c) \/ Reload(c)
       \/ Handle(c) \/ Settle(c) \/ Lose(c)
  \/ ExpireAccess \/ RevokeAll

Spec == Init /\ [][Next]_vars

-----------------------------------------------------------------------------
CallStates ==
  [op : {"none", "restore", "login", "logout", "request", "me", "profile"},
   step : {"first", "refresh", "replay"}, at : {"idle", "sent", "answered"},
   awaited : BOOLEAN, bearer : {None, "live", "expired"},
   cookie : Tokens \cup {None}, answer : {"none", "ok", "401", "error"},
   granted : Tokens \cup {None}, locale : Locales \cup {None},
   previous : Locales \cup {None}, agreed : BOOLEAN]

(* Every variable holds a value of its kind, and the page knows a locale   *)
(* for whoever it shows as signed in, and for nobody else.                 *)
TypeOK ==
  /\ accessToken \in {None, "live", "expired"}
  /\ session \in {"undefined", "null", "identity"}
  /\ preferred \in Locales \cup {None}
  /\ (session = "identity") = (preferred # None)
  /\ shown \in Locales /\ saved \in Locales
  /\ cookie \in Tokens \cup {None} /\ live \subseteq Tokens
  /\ call \in [Calls -> CallStates]
  /\ crossed \subseteq Calls

(* The page shows somebody as signed in whose refresh cookie is dead, or   *)
(* sends to /login somebody whose cookie is good, only because of an       *)
(* answer that something else overtook (two refreshes with one cookie, an  *)
(* identity that comes after the logout, a restore that fails after the    *)
(* login), of one that was lost, or of an error that is no 401.            *)
SessionFollowsCookie ==
  [][ /\ session' # session /\ session' # "undefined"
      /\ (session' = "identity") # (cookie' \in live')
      => \E c \in Calls :
           /\ Busy(c) /\ call'[c] # call[c]
           /\ c \in crossed \/ call[c].answer = "error" \/ Lose(c) ]_vars

(* Good refresh tokens that nobody can present or revoke any more.         *)
Abandoned ==
  live \ ({cookie} \cup {call[c].granted : c \in Calls})

(* A session goes on at the server, out of the reach of logout, only when  *)
(* an answer is lost or was overtaken, when the answer is an error that    *)
(* follows the commit, while the page is loaded anew, or when somebody     *)
(* signs in over a session that the page had given up.                     *)
AbandonedNeedsCause ==
  [][ Abandoned' \subseteq Abandoned
      \/ \E c \in Calls :
           /\ Busy(c) /\ call'[c] # call[c]
           /\ \/ c \in crossed \/ Lose(c)
              \/ call'[c].answer = "error"
              \/ session' = "undefined"
              \/ call[c].op = "login" /\ cookie # None ]_vars

(* The account has taken this change of language although the answer is an *)
(* error: update_profile commits and then reads.                           *)
StoredAnyway(c) == call[c].answer = "error" /\ saved = call[c].locale

(* When the page is done with a change of language, it speaks the language *)
(* of the account, saved or rolled back (setLocale, "The account is        *)
(* authoritative"), unless something overtook the change, the account took *)
(* it and its answer is lost or an error, or the page rolls back to what   *)
(* was not the account's locale when the change was sent either.           *)
LocaleFollowsAccount ==
  [][ \A c \in Calls :
        /\ call[c].op = "profile" /\ c \notin crossed
        /\ Settle(c) \/ Lose(c)
        => \/ shown' = saved'
           \/ Lose(c) /\ Ok(c)
           \/ StoredAnyway(c)
           \/ ~Ok(c) /\ ~call[c].agreed ]_vars
=============================================================================
