----------------------------- MODULE MCRequests -----------------------------
(***************************************************************************)
(* What API processes do for requests.  These components share documents   *)
(* of one database but none that both of them write, so one run checks all *)
(* of them: in a behaviour one of them runs, chosen at the beginning.      *)
(***************************************************************************)
EXTENDS McpIdempotency, Registration, Progression, Credentials, Migrations,
        ContentReview, WatchList, PostRecords, AdminSystem

VARIABLE part
localVars == <<calls, results, requests, time, sessionVars, migrationVars, linkVars,
               systemVars>>
vars == <<part, db, txn, localVars>>

(* AGENT_LEVELS with two levels: more stamina, and faster.                 *)
MCLevels == <<[minXp |-> 0, staminaMax |-> 2, period |-> 3],
              [minXp |-> 3, staminaMax |-> 3, period |-> 2]>>

(* A penalty and a gift of experience.                                     *)
MCAdjustments == {-2, 3}

(* An update, a merge of times and new indexes for old ones; an update.    *)
MCPlan ==
  << << [do |-> "update", on |-> "policy"], [do |-> "merge", on |-> "times"],
        [do |-> "ensure", on |-> "pinned"], [do |-> "drop", on |-> "week"],
        [do |-> "update", on |-> "legacy"], [do |-> "verify", on |-> "pinned"] >>,
     << [do |-> "update", on |-> "replying"] >> >>

Init ==
  /\ part \in {"idempotency", "registration", "progression", "session", "migrations",
              "content", "watches", "link", "records", "settings", "mail"}
  /\ \E S \in IF part = "content" THEN SUBSET CircleNames ELSE {{}} :
       db = Apply(FirstDocuments, Apply(FirstPosts,
              Apply(FirstRecords, Apply(FirstMailPolicy, FirstCommunity(S)))))
  /\ NoTxns /\ NoCalls /\ NoRequests /\ time = 0
  /\ SessionInit /\ MigrationInit /\ LinkInit /\ DesksInit

Next ==
  /\ UNCHANGED part
  /\ \/ /\ part = "idempotency" /\ IdempotencyNext
        /\ UNCHANGED <<requests, time, sessionVars, migrationVars, linkVars, systemVars>>
     \/ /\ part = "registration" /\ RegistrationNext
        /\ UNCHANGED <<calls, results, time, sessionVars, migrationVars, linkVars, systemVars>>
     \/ /\ part = "progression" /\ ProgressionNext
        /\ UNCHANGED <<calls, results, requests, sessionVars, migrationVars, linkVars, systemVars>>
     \/ /\ part = "content" /\ ContentNext
        /\ UNCHANGED <<calls, results, requests, time, sessionVars, migrationVars, linkVars, systemVars>>
     \/ /\ part = "watches" /\ WatchNext
        /\ UNCHANGED <<calls, results, requests, time, sessionVars, migrationVars, linkVars, systemVars>>
     \/ /\ part = "session" /\ SessionNext
        /\ UNCHANGED <<db, txn, calls, results, requests, time, migrationVars, linkVars, systemVars>>
     \/ /\ part = "migrations" /\ MigrationNext
        /\ UNCHANGED <<db, txn, calls, results, requests, time, sessionVars, linkVars, systemVars>>
     \/ /\ part = "link" /\ LinkNext
        /\ UNCHANGED <<db, txn, calls, results, requests, time, sessionVars, migrationVars,
                       systemVars>>
     \/ /\ part = "records" /\ RecordsNext
        /\ UNCHANGED localVars
     \/ /\ part = "settings" /\ SettingsNext
        /\ UNCHANGED localVars
     \/ /\ part = "mail" /\ MailNext
        /\ UNCHANGED <<calls, results, requests, time, sessionVars, migrationVars, linkVars>>

Spec == Init /\ [][Next]_vars

(* The types of all components.                                            *)
RequestsTypeOK ==
  /\ IdempotencyTypeOK /\ RegistrationTypeOK /\ ProgressTypeOK /\ SessionTypeOK
  /\ MigrationTypeOK /\ LinkTypeOK

(* The circles, posts, reviews and watch lists of the community agree, as  *)
(* do the counts of a post with what they count, and what administrators   *)
(* put in force is what they had looked at.                                *)
CommunityIsKept ==
  CommunityIsConsistent /\ WatchesAgree /\ RecordsAreCounted /\ ChangesWereSeen

=============================================================================
