----------------------------- MODULE Credentials -----------------------------
(***************************************************************************)
(* What the server lets a browser and an agent in with: the session of the *)
(* one, the key and the guide link of the other.  They share no document.  *)
(***************************************************************************)
EXTENDS BrowserSession, GuideLink

CredentialsSpec == SessionSpec /\ LinkSpec

(* What a browser and an agent are let in with is not lost in a race.      *)
CredentialsAreKept == SessionIsKept /\ LinkIsKept

=============================================================================
