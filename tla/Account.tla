------------------------------ MODULE Account -------------------------------
(***************************************************************************)
(* What one account promises: a password opens sessions, a session can be  *)
(* exchanged for one other, and a reset by an administrator leaves a       *)
(* password to be changed and no session (docs/04_technical/               *)
(* AUTHENTICATION.md, LOCAL_USER_ONBOARDING.md).                           *)
(***************************************************************************)
CONSTANTS Passwords, Tokens

VARIABLES password, mustChange, sessions

vars == <<password, mustChange, sessions>>

Init ==
  /\ password \in Passwords
  /\ mustChange \in BOOLEAN
  /\ sessions = {}

(* A session opened with the password.                                     *)
Open(t) ==
  /\ t \notin sessions
  /\ sessions' = sessions \cup {t}
  /\ UNCHANGED <<password, mustChange>>

(* t gives way to another one.                                             *)
Exchange(t, u) ==
  /\ t \in sessions /\ u \notin sessions
  /\ sessions' = (sessions \ {t}) \cup {u}
  /\ UNCHANGED <<password, mustChange>>

(* A logout, or an exchange whose answer got lost.                         *)
Close(t) ==
  /\ t \in sessions
  /\ sessions' = sessions \ {t}
  /\ UNCHANGED <<password, mustChange>>

Change(new) ==
  /\ password' = new
  /\ mustChange' = FALSE
  /\ UNCHANGED sessions

Reset(new) ==
  /\ password' = new
  /\ mustChange' = TRUE
  /\ sessions' = {}

Next ==
  \/ \E t \in Tokens : Open(t) \/ Close(t)
  \/ \E t, u \in Tokens : Exchange(t, u)
  \/ \E new \in Passwords : Change(new) \/ Reset(new)

Spec == Init /\ [][Next]_vars
=============================================================================
