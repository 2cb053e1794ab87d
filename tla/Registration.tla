---------------------------- MODULE Registration ----------------------------
(***************************************************************************)
(* The accounts: registration under the authentication policy in force,    *)
(* with a verified mail address and, where the policy wants one, an        *)
(* invitation; the first administrator; and the reset of a password.  The  *)
(* code is verified before the transaction that uses it begins, a          *)
(* password being hashed in between, and the policy, the codes and the     *)
(* invitations change meanwhile.                                           *)
(***************************************************************************)
EXTENDS Integers, FiniteSets, Transactions

CONSTANTS
  Emails,          \* mail addresses: each stands for an account and its names
  Challenges,      \* verification challenges
  Invitations,
  MaxPolicyVersion,\* bounds the changes of the policy
  MaxFailures,     \* the failed attempts that end a challenge
  Expiring         \* the challenges and invitations that may expire, or be spoilt

Nobody == "nobody"

ASSUME RegistrationAssumption ==
  /\ MaxPolicyVersion \in Nat \ {0} /\ MaxFailures \in Nat \ {0}
  /\ Nobody \notin Emails \cup Challenges \cup Invitations

VARIABLE requests  \* requests[s]: what session s has verified and works on

registrationVars == <<db, txn, requests>>

Policy == <<"policy">>
Initialization == <<"initialization">>
ChallengeId(c) == <<"challenge", c>>
InvitationId(i) == <<"invitation", i>>
UserId(e) == <<"user", e>>
SessionId(e) == <<"session", e>>

NoRequest == [op |-> "NONE"]
Purposes == {"REGISTER", "RESET_PASSWORD"}
Request == [op: Purposes \cup {"INITIALIZE"}, challenge: Challenges \cup {Nobody}, email: Emails,
            invitation: Invitations \cup {Nobody}, version: 0..MaxPolicyVersion]

FirstDocuments ==
  [id \in {Policy} \cup {InvitationId(i) : i \in Invitations} |->
     IF id = Policy THEN [version |-> 1, invite |-> FALSE, uses |-> 0]
     ELSE [usedBy |-> Nobody, revoked |-> FALSE, expired |-> FALSE]]

NoRequests == requests = [s \in Sessions |-> NoRequest]

RegistrationInit == db = FirstDocuments /\ NoTxns /\ NoRequests

(* A write of one document outside any transaction.                        *)
WriteNow(writes) == WriteAlone(writes) /\ UNCHANGED requests
-----------------------------------------------------------------------------
(* THE POLICY, THE CHALLENGES AND THE INVITATIONS                          *)

(* An administrator changes the policy.                                    *)
UpdatePolicy ==
  /\ db[Policy].version < MaxPolicyVersion
  /\ \E invite \in BOOLEAN :
       WriteNow(Put(Policy, [db[Policy] EXCEPT !.version = @ + 1, !.invite = invite]))

(* send: the challenge remembers the version of the policy it was sent     *)
(* under.                                                                  *)
SendChallenge(c) ==
  /\ ~Has(db, ChallengeId(c))
  /\ \E e \in Emails, p \in Purposes :
       WriteNow(Put(ChallengeId(c), [email |-> e, purpose |-> p, failures |-> 0, consumed |-> FALSE,
                                     expired |-> FALSE, version |-> db[Policy].version]))

(* A wrong code is counted against the challenge.                          *)
WrongCode(c) ==
  /\ c \in Expiring
  /\ Has(db, ChallengeId(c))
  /\ LET challenge == db[ChallengeId(c)]
     IN  /\ ~challenge.consumed /\ ~challenge.expired /\ challenge.failures < MaxFailures
         /\ WriteNow(Put(ChallengeId(c), [challenge EXCEPT !.failures = @ + 1]))

Usable(challenge) ==
  ~challenge.consumed /\ ~challenge.expired /\ challenge.failures < MaxFailures

Redeemable(invitation) ==
  invitation.usedBy = Nobody /\ ~invitation.revoked /\ ~invitation.expired

RevokeInvitation(i) ==
  /\ db[InvitationId(i)].usedBy = Nobody /\ ~db[InvitationId(i)].revoked
  /\ WriteNow(Put(InvitationId(i), [db[InvitationId(i)] EXCEPT !.revoked = TRUE]))

(* Time passes: nothing is written, and what a transaction reads as not    *)
(* expired may be expired by the time it commits.                          *)
CodeExpires(id) ==
  /\ id[2] \in Expiring
  /\ Has(db, id) /\ ~db[id].expired
  /\ db' = [db EXCEPT ![id].expired = TRUE]
  /\ UNCHANGED <<txn, requests>>
-----------------------------------------------------------------------------
(* THE REQUESTS                                                            *)

(* assertValid, before the password is hashed.                             *)
Verify(s) ==
  /\ requests[s] = NoRequest
  /\ \E c \in Challenges, i \in Invitations \cup {Nobody} :
       /\ Has(db, ChallengeId(c)) /\ Usable(db[ChallengeId(c)])
       /\ LET challenge == db[ChallengeId(c)]
          IN requests' = [requests EXCEPT ![s] =
               [op |-> challenge.purpose, challenge |-> c, email |-> challenge.email,
                invitation |-> i, version |-> challenge.version]]
  /\ UNCHANGED <<db, txn>>

(* initializeAdministrator, when there is none yet.                        *)
AskInitialize(s) ==
  /\ requests[s] = NoRequest
  /\ ~Has(db, Initialization)
  /\ \E e \in Emails :
       requests' = [requests EXCEPT ![s] =
         [op |-> "INITIALIZE", challenge |-> Nobody, email |-> e,
          invitation |-> Nobody, version |-> 0]]
  /\ UNCHANGED <<db, txn>>

(* Mutant: the policy is only read, so that it may change before the       *)
(* transaction commits.                                                    *)
BugPolicyOnlyRead == <<>>

(* acquireCurrentPolicy.                                                   *)
PolicyHeld == Put(Policy, [db[Policy] EXCEPT !.uses = (@ + 1) % 2])

(* Mutant: the browser has to log in first.                                *)
BugNoSession(r, role, i) ==
  Put(UserId(r.email), [role |-> role, createdBy |-> r.challenge, resetBy |-> {},
                        tokenVersion |-> 0, policy |-> r.version, admittedBy |-> i])

(* createBrowserAccount: the user, whose names are unique, and a session   *)
(* of the browser.  The audit log says which invitation admitted the user. *)
Account(r, role, i) ==
  Apply(Put(SessionId(r.email), [revoked |-> FALSE]),
        Put(UserId(r.email), [role |-> role, createdBy |-> r.challenge, resetBy |-> {},
                              tokenVersion |-> 0, policy |-> r.version, admittedBy |-> i]))

IsFree(r) == ~Has(db, UserId(r.email))

(* consume: the filter of the update is part of it.                        *)
InvitationUsed(i, e) == Put(InvitationId(i), [db[InvitationId(i)] EXCEPT !.usedBy = e])

(* Mutant: whether the challenge is still unused is not looked at again.   *)
BugUsableBefore(c) == Has(db, ChallengeId(c))

StillUsable(c) == Usable(db[ChallengeId(c)])

ChallengeConsumed(c) == Put(ChallengeId(c), [db[ChallengeId(c)] EXCEPT !.consumed = TRUE])

SamePolicy(r) == r.version = db[Policy].version

NeedsInvitation(r) == db[Policy].invite

Register(s) ==
  LET r == requests[s]
  IN  /\ r.op = "REGISTER"
      /\ SamePolicy(r) /\ IsFree(r) /\ StillUsable(r.challenge)
      /\ NeedsInvitation(r) => r.invitation # Nobody /\ Redeemable(db[InvitationId(r.invitation)])
      /\ OpenTxn(s, Apply(Apply(PolicyHeld, Account(r, "USER", IF NeedsInvitation(r) THEN r.invitation ELSE Nobody)),
                     Apply(ChallengeConsumed(r.challenge),
                           IF NeedsInvitation(r) THEN InvitationUsed(r.invitation, r.email) ELSE <<>>)))
      /\ UNCHANGED requests

Initialized(r) == Put(Initialization, [administrator |-> r.email])

Initialize(s) ==
  LET r == requests[s]
  IN  /\ r.op = "INITIALIZE"
      /\ ~Has(db, Initialization)
      /\ \A e \in Emails : Has(db, UserId(e)) => db[UserId(e)].role # "ADMIN"
      /\ IsFree(r)
      /\ OpenTxn(s, Apply(Account(r, "ADMIN", Nobody), Initialized(r)))
      /\ UNCHANGED requests

SessionsRevoked(e) == Put(SessionId(e), [revoked |-> TRUE])

ResetPassword(s) ==
  LET r == requests[s]
  IN  /\ r.op = "RESET_PASSWORD"
      /\ SamePolicy(r) /\ Has(db, UserId(r.email)) /\ StillUsable(r.challenge)
      /\ OpenTxn(s, Apply(Apply(PolicyHeld, ChallengeConsumed(r.challenge)),
                     Apply(Put(UserId(r.email), [db[UserId(r.email)] EXCEPT
                             !.tokenVersion = @ + 1, !.resetBy = @ \cup {r.challenge}]),
                           SessionsRevoked(r.email))))
      /\ UNCHANGED requests

Respond(s) ==
  /\ CommitTxn(s)
  /\ requests' = [requests EXCEPT ![s] = NoRequest]

(* The request fails: it is refused, or its transaction is given up.       *)
Fail(s) ==
  /\ requests[s] # NoRequest
  /\ txn' = [txn EXCEPT ![s] = NoTxn]
  /\ requests' = [requests EXCEPT ![s] = NoRequest]
  /\ UNCHANGED db
-----------------------------------------------------------------------------
RequestStep(s) ==
  Verify(s) \/ AskInitialize(s) \/ Register(s) \/ Initialize(s) \/ ResetPassword(s)
  \/ Respond(s) \/ Fail(s)

RegistrationNext ==
  \/ UpdatePolicy
  \/ \E c \in Challenges : SendChallenge(c) \/ WrongCode(c) \/ CodeExpires(ChallengeId(c))
  \/ \E i \in Invitations : RevokeInvitation(i) \/ CodeExpires(InvitationId(i))
  \/ \E s \in Sessions : RequestStep(s)

RegistrationSpec == RegistrationInit /\ [][RegistrationNext]_registrationVars
-----------------------------------------------------------------------------
Accounts == {e \in Emails : Has(db, UserId(e))}

(* The types of the variables, and: an account comes with a session and    *)
(* both are there or neither.                                              *)
RegistrationTypeOK ==
  /\ \A s \in Sessions : requests[s] \in Request \cup {NoRequest}
  /\ db[Policy].version \in 1..MaxPolicyVersion /\ db[Policy].invite \in BOOLEAN
  /\ \A e \in Emails : Has(db, UserId(e)) <=> Has(db, SessionId(e))

(* Whoever registers does so under the policy for which the code was sent, *)
(* and the policy is still in force when the account appears: with an      *)
(* invitation if it asks for one.                                          *)
PolicyInForce ==
  [][\A e \in Emails :
       (Has(db', UserId(e)) /\ ~Has(db, UserId(e)) /\ db'[UserId(e)].role = "USER") =>
          /\ db'[UserId(e)].policy = db[Policy].version
          /\ db[Policy].invite =>
               \E i \in Invitations : db[InvitationId(i)].usedBy = Nobody /\ db'[InvitationId(i)].usedBy = e
    ]_registrationVars

(* An invitation admits one account, and one that was revoked admits none. *)
InvitationsAreSpent ==
  \A i \in Invitations :
    LET invitation == db[InvitationId(i)]
    IN  /\ {e \in Accounts : db[UserId(e)].admittedBy = i}
             = IF invitation.usedBy = Nobody THEN {} ELSE {invitation.usedBy}
        /\ invitation.usedBy # Nobody => ~invitation.revoked

(* A code is good for one thing: one account or one new password, and then *)
(* it is consumed.                                                         *)
ChallengeUsedOnce ==
  \A c \in Challenges :
    LET uses == {<<e, "created">> : e \in {u \in Accounts : db[UserId(u)].createdBy = c}}
                \cup {<<e, "reset">> : e \in {u \in Accounts : c \in db[UserId(u)].resetBy}}
    IN  /\ Cardinality(uses) <= 1
        /\ uses # {} => db[ChallengeId(c)].consumed
        /\ \A e \in Accounts : db[UserId(e)].tokenVersion = Cardinality(db[UserId(e)].resetBy)

(* There is one administrator, the one the platform was initialised with.  *)
OneAdministrator ==
  {e \in Accounts : db[UserId(e)].role = "ADMIN"}
    = IF Has(db, Initialization) THEN {db[Initialization].administrator} ELSE {}

(* Codes, invitations and the initialisation are used once, and each for   *)
(* what it was issued for.                                                 *)
AdmissionsAreSpent == InvitationsAreSpent /\ ChallengeUsedOnce /\ OneAdministrator

=============================================================================
