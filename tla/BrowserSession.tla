--------------------------- MODULE BrowserSession ---------------------------
(***************************************************************************)
(* A browser session: a refresh token whose secret is replaced each time   *)
(* it is used.  The tabs of the browser share one cookie and refresh       *)
(* without knowing of each other, so that the secret before the current    *)
(* one is accepted for a few seconds, without a new cookie; any older one  *)
(* is taken for a token that was copied and ends the session.  A request   *)
(* reads the session and then replaces the secret or revokes the session   *)
(* only if nobody has rotated it since.  Secrets are numbered.             *)
(***************************************************************************)
EXTENDS Integers, FiniteSets

CONSTANTS
  Tabs,
  MaxRotations,    \* bounds the secrets
  RotationAttempts,\* REFRESH_ROTATION_ATTEMPTS
  MaxLostAnswers

ASSUME BrowserAssumption ==
  MaxRotations \in Nat /\ RotationAttempts \in Nat \ {0} /\ MaxLostAnswers \in Nat

VARIABLES
  session,         \* the document: its secrets, revokedAt, the grace period
  jar,             \* the secret in the cookie of the browser
  refresh,         \* refresh[t]: the refresh of tab t
  suspended,       \* the user is suspended
  lostAnswers,
  refusals         \* ghost: why a refresh was turned away

sessionVars == <<session, jar, refresh, suspended, lostAnswers, refusals>>

NoSecret == -1
Secrets == 0..MaxRotations
NoRefresh == [st |-> "idle"]
Steps == {"sent", "rotate", "revoke", "rotated", "accepted", "answered"}
RefreshState == [st: Steps, secret: Secrets, seen: Secrets, attempts: 0..RotationAttempts,
            cookie: Secrets \cup {NoSecret}, ok: BOOLEAN]

SessionInit ==
  /\ session = [current |-> 0, previous |-> NoSecret, inGrace |-> FALSE, revoked |-> FALSE, expired |-> FALSE]
  /\ jar = 0
  /\ refresh = [t \in Tabs |-> NoRefresh]
  /\ suspended = FALSE /\ lostAnswers = 0 /\ refusals = {}

Resting(t) == refresh[t].st = "idle"
TabAt(t, st) == refresh[t].st = st
TabTo(t, st) == refresh' = [refresh EXCEPT ![t].st = st]
SendAnswer(t, ok, cookie) ==
  refresh' = [refresh EXCEPT ![t].st = "answered", ![t].ok = ok, ![t].cookie = cookie]

Live == ~session.revoked /\ ~session.expired
-----------------------------------------------------------------------------
(* refreshAccessToken: one refresh of a tab at a time, with the cookie the *)
(* browser has by then.                                                    *)
Send(t) ==
  /\ Resting(t) /\ jar # NoSecret
  /\ refresh' = [refresh EXCEPT ![t] = [st |-> "sent", secret |-> jar, seen |-> 0, attempts |-> 0,
                                        cookie |-> NoSecret, ok |-> FALSE]]
  /\ UNCHANGED <<session, jar, suspended, lostAnswers, refusals>>

(* Mutant: the previous secret is not accepted.                            *)
BugNoGrace(secret) == FALSE

Accepted(secret) == session.previous = secret /\ session.inGrace

(* An attempt of refreshBrowserSession begins.                             *)
ReadSession(t) ==
  LET secret == refresh[t].secret
  IN  /\ TabAt(t, "sent")
      /\ IF ~Live \/ refresh[t].attempts = RotationAttempts
         THEN /\ SendAnswer(t, FALSE, NoSecret)
              /\ refusals' = refusals \cup
                   IF session.revoked THEN {} ELSE IF session.expired THEN {"expired"} ELSE {"outrun"}
         ELSE /\ refresh' = [refresh EXCEPT
                   ![t].st = IF session.current = secret THEN "rotate"
                             ELSE IF Accepted(secret) THEN "accepted" ELSE "revoke",
                   ![t].seen = session.current, ![t].attempts = @ + 1]
              /\ UNCHANGED refusals
      /\ UNCHANGED <<session, jar, suspended, lostAnswers>>

(* The filter of both updates: nobody has rotated or ended the session.    *)
(* The time they compare expiresAt with is the one of the read.            *)
Unrotated(t) == ~session.revoked /\ session.current = refresh[t].seen

(* Mutant: a session that was ended in between is rotated all the same.    *)
BugRevokedRotates(t) == session.current = refresh[t].seen

MayRotate(t) == Unrotated(t)

(* A rotation puts the end of the session off, but for absoluteExpiresAt.  *)
Rotate(t) ==
  /\ TabAt(t, "rotate")
  /\ IF MayRotate(t)
     THEN /\ session.current < MaxRotations
          /\ \E expired \in {FALSE, session.expired} :
               session' = [session EXCEPT !.current = @ + 1, !.previous = refresh[t].secret,
                                          !.inGrace = TRUE, !.expired = expired]
          /\ refresh' = [refresh EXCEPT ![t].st = "rotated", ![t].cookie = session.current + 1]
     ELSE TabTo(t, "sent") /\ UNCHANGED session
  /\ UNCHANGED <<jar, suspended, lostAnswers, refusals>>

(* Why the secret is neither current nor in its grace period: an answer    *)
(* was lost, an answer or the request was slower than the grace period, or *)
(* the secret was replaced twice while the request was on its way.         *)
Cause(t) ==
  CASE lostAnswers > 0 -> "lost"
    [] refresh[t].secret = session.previous /\ ~session.inGrace -> "late"
    [] refresh[t].secret < session.previous -> "overtaken"
    [] OTHER -> "none"

RevokeReused(t) ==
  /\ TabAt(t, "revoke")
  /\ IF Unrotated(t)
     THEN /\ session' = [session EXCEPT !.revoked = TRUE]
          /\ refusals' = refusals \cup {Cause(t)}
          /\ SendAnswer(t, FALSE, NoSecret)
     ELSE TabTo(t, "sent") /\ UNCHANGED <<session, refusals>>
  /\ UNCHANGED <<jar, suspended, lostAnswers>>

(* completeBrowserSessionRefresh.                                          *)
Complete(t) ==
  /\ TabAt(t, "rotated") \/ TabAt(t, "accepted")
  /\ SendAnswer(t, ~suspended, IF suspended THEN NoSecret ELSE refresh[t].cookie)
  /\ session' = IF suspended THEN [session EXCEPT !.revoked = TRUE] ELSE session
  /\ UNCHANGED <<jar, suspended, lostAnswers, refusals>>

CookieAfter(t) ==
  IF ~refresh[t].ok THEN NoSecret
  ELSE IF refresh[t].cookie = NoSecret THEN jar ELSE refresh[t].cookie

(* The browser receives the answer.                                        *)
Receive(t) ==
  /\ TabAt(t, "answered")
  /\ jar' = CookieAfter(t)
  /\ refresh' = [refresh EXCEPT ![t] = NoRefresh]
  /\ UNCHANGED <<session, suspended, lostAnswers, refusals>>

(* The tab is closed, or the request times out, before the answer comes.   *)
LoseAnswer(t) ==
  /\ TabAt(t, "answered") /\ lostAnswers < MaxLostAnswers
  /\ lostAnswers' = lostAnswers + 1
  /\ refresh' = [refresh EXCEPT ![t] = NoRefresh]
  /\ UNCHANGED <<session, jar, suspended, refusals>>

(* logout, of any tab, or a new password.                                  *)
EndSession ==
  /\ ~session.revoked
  /\ session' = [session EXCEPT !.revoked = TRUE]
  /\ jar' \in {jar, NoSecret}
  /\ UNCHANGED <<refresh, suspended, lostAnswers, refusals>>

GraceEnds ==
  /\ session.inGrace
  /\ session' = [session EXCEPT !.inGrace = FALSE]
  /\ UNCHANGED <<jar, refresh, suspended, lostAnswers, refusals>>

SessionExpires ==
  /\ ~session.expired
  /\ session' = [session EXCEPT !.expired = TRUE]
  /\ UNCHANGED <<jar, refresh, suspended, lostAnswers, refusals>>

Suspend ==
  /\ ~suspended
  /\ suspended' = TRUE
  /\ UNCHANGED <<session, jar, refresh, lostAnswers, refusals>>

SessionNext ==
  \/ \E t \in Tabs :
       \/ Send(t) \/ ReadSession(t) \/ Rotate(t) \/ RevokeReused(t) \/ Complete(t)
       \/ Receive(t) \/ LoseAnswer(t)
  \/ EndSession \/ GraceEnds \/ SessionExpires \/ Suspend

SessionSpec == SessionInit /\ [][SessionNext]_sessionVars
-----------------------------------------------------------------------------
(* The types of the variables, and: the secret that is still accepted is   *)
(* the one before the current one, and only the first attempt of a refresh *)
(* rotates, a secret that was replaced being never current again.          *)
SessionTypeOK ==
  /\ session.current \in Secrets /\ session.previous = session.current - 1
  /\ jar \in Secrets \cup {NoSecret}
  /\ \A t \in Tabs : refresh[t] \in RefreshState \cup {NoRefresh}
  /\ \A t \in Tabs : TabAt(t, "rotate") => refresh[t].attempts = 1

(* While the session is alive the cookie holds the current secret; or the  *)
(* one before, and the answer that brings the current one is on its way or *)
(* was lost.  However the answers of the tabs are ordered, an older secret *)
(* never replaces a newer one.                                             *)
CookieIsCurrent ==
  (Live /\ ~suspended /\ jar # NoSecret) =>
    \/ jar = session.current
    \/ /\ jar = session.previous
       /\ \/ lostAnswers > 0
          \/ \E t \in Tabs : ~Resting(t) /\ refresh[t].cookie = session.current

(* A browser whose session lives keeps its cookie; unless a refresh was    *)
(* overtaken in each of its attempts, or read the session at its end, just *)
(* after the one that has put the end off.                                 *)
StaysLoggedIn ==
  (Live /\ ~suspended /\ refusals \cap {"outrun", "expired"} = {}) => jar # NoSecret

(* A token is not taken for a copied one without cause.                    *)
AlarmHasCause == "none" \notin refusals

(* What a user expects of a session, whatever number of tabs shares it.    *)
SessionIsKept == CookieIsCurrent /\ StaysLoggedIn /\ AlarmHasCause

(* What has ended stays so: no secret is issued any more.                  *)
EndedForGood ==
  [][session.revoked => session'.revoked /\ session'.current = session.current]_sessionVars

=============================================================================
