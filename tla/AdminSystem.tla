----------------------------- MODULE AdminSystem -----------------------------
(***************************************************************************)
(* Settings of the platform that several administrators change, each with  *)
(* the version it had looked at: the business calendar, the public         *)
(* addresses and the feature flags, in a transaction; the mail settings,   *)
(* which must be tested before codes are sent with them, by compare-and-   *)
(* set; and announcements, which notify every agent when published.        *)
(*                                                                         *)
(* Abstracted: values (a setting is its version), time stamps as versions  *)
(* (an updatedAt never repeats), the audit log, and the part of the mail   *)
(* settings' document that registrations depend on (Registration).         *)
(***************************************************************************)
EXTENDS Naturals, FiniteSets, Transactions

CONSTANTS
  Settings,        \* keys of calendar, addresses, flags
  Desks,           \* requests about the mail settings at one time
  Announcements, Readers,
  MaxSettingVersion, MaxMailVersion, MaxAnnouncementVersion   \* bounds

ASSUME AdminSystemAssumption ==
  {MaxSettingVersion, MaxMailVersion, MaxAnnouncementVersion} \subseteq Nat

VARIABLES
  desk,            \* desk[e]: where a request about the mail settings is
  tested           \* ghost: the mail settings a test mail was sent with

SettingId(k)      == <<"setting", k>>    \* unique key
MailPolicy        == <<"mailPolicy">>
AnnouncementId(x) == <<"announcement", x>>
ReaderId(a)       == <<"reader", a>>
NoticeId(x, a)    == <<"notice", x, a>>  \* unique per recipient and source

systemVars == <<desk, tested>>

(* No mail host yet.                                                       *)
FirstMailPolicy == Put(MailPolicy, [version |-> 1, mail |-> 0, verified |-> FALSE])

AtNoDesk == [at |-> "idle"]
DesksInit == desk = [e \in Desks |-> AtNoDesk] /\ tested = {}

SystemInit == NoTxns /\ db = FirstMailPolicy /\ DesksInit

-----------------------------------------------------------------------------
(* SETTINGS                                                                *)

VersionOf(k) == IF Has(db, SettingId(k)) THEN db[SettingId(k)].version ELSE 0

(* updateBusinessCalendarConfig, updatePublicAccessConfig,                 *)
(* updateFeatureFlag: by somebody who has looked at version seen.          *)
ChangeSetting(s, k, seen) ==
  /\ VersionOf(k) = seen /\ seen < MaxSettingVersion
  /\ OpenTxn(s, Put(SettingId(k), [version |-> VersionOf(k) + 1, saw |-> seen]))

-----------------------------------------------------------------------------
(* MAIL                                                                    *)

AtDesk(e, place) == desk[e].at = place
LeavesDesk(e)    == desk' = [desk EXCEPT ![e] = AtNoDesk]

(* update of AuthPolicyService reads the configuration, ...                *)
ReadToChange(e) ==
  /\ AtDesk(e, "idle")
  /\ \E changes \in BOOLEAN :
       desk' = [desk EXCEPT ![e] = [at |-> "change", read |-> db[MailPolicy], changes |-> changes]]
  /\ UNCHANGED <<db, txn, tested>>

(* ... and replaces it: whether it has been verified is what was read      *)
(* then, unless the mail settings are others now.                          *)
Replacement(read, changes) ==
  [version  |-> read.version + 1,
   mail     |-> IF changes THEN read.version ELSE read.mail,
   verified |-> ~changes /\ read.verified]

WritePolicy(e) ==
  /\ AtDesk(e, "change") /\ db[MailPolicy].version < MaxMailVersion
  /\ IF db[MailPolicy].version = desk[e].read.version
     THEN WriteAlone(Put(MailPolicy, Replacement(desk[e].read, desk[e].changes)))
     ELSE UNCHANGED <<db, txn>>
  /\ LeavesDesk(e) /\ UNCHANGED tested

(* testSmtp: reads the configuration, ...                                  *)
ReadToTest(e) ==
  /\ AtDesk(e, "idle") /\ db[MailPolicy].mail # 0
  /\ desk' = [desk EXCEPT ![e] = [at |-> "send", read |-> db[MailPolicy]]]
  /\ UNCHANGED <<db, txn, tested>>

(* ... sends a mail, which takes seconds, or fails, ...                    *)
SendTest(e) ==
  /\ AtDesk(e, "send")
  /\ desk' = [desk EXCEPT ![e].at = "mark"]
  /\ tested' = tested \cup {desk[e].read.mail}
  /\ UNCHANGED <<db, txn>>

(* ... and, by markSmtpVerified, keeps that it has been sent.              *)
MarkVerified(e) ==
  /\ AtDesk(e, "mark")
  /\ IF db[MailPolicy].version = desk[e].read.version
     THEN WriteAlone(Put(MailPolicy, [db[MailPolicy] EXCEPT !.verified = TRUE]))
     ELSE UNCHANGED <<db, txn>>
  /\ LeavesDesk(e) /\ UNCHANGED tested

DeskFails(e) ==
  /\ ~AtDesk(e, "idle")
  /\ LeavesDesk(e) /\ UNCHANGED <<db, txn, tested>>

-----------------------------------------------------------------------------
(* ANNOUNCEMENTS                                                           *)

Announced(x) == Has(db, AnnouncementId(x)) /\ db[AnnouncementId(x)].status # "DELETED"
Draft(x)     == Announced(x) /\ db[AnnouncementId(x)].status = "DRAFT"

(* assertAnnouncementVersion.                                              *)
IsVersion(x, seen) == db[AnnouncementId(x)].version = seen

Saved(x) == [db[AnnouncementId(x)] EXCEPT !.version = @ + 1]

(* createAnnouncement.                                                     *)
CreateAnnouncement(s, x) ==
  /\ ~Has(db, AnnouncementId(x))
  /\ OpenTxn(s, Put(AnnouncementId(x),
       [status |-> "DRAFT", version |-> 1, content |-> 1, approved |-> 0]))

(* updateAnnouncement.                                                     *)
UpdateAnnouncement(s, x, seen) ==
  /\ Draft(x) /\ IsVersion(x, seen) /\ seen < MaxAnnouncementVersion
  /\ OpenTxn(s, Put(AnnouncementId(x), [Saved(x) EXCEPT !.content = @ + 1]))

(* createAnnouncementNotificationsForAll: page by page of one snapshot, so *)
(* that the pages together are the agents of the snapshot.                 *)
NoticesForAll(x) ==
  [id \in {NoticeId(x, a) : a \in {b \in Readers : Has(db, ReaderId(b))}} |-> "UNREAD"]

(* publishAnnouncement; a draft has the version of its content.            *)
PublishAnnouncement(s, x, seen) ==
  /\ Draft(x) /\ IsVersion(x, seen)
  /\ OpenTxn(s, Apply(NoticesForAll(x),
       Put(AnnouncementId(x), [Saved(x) EXCEPT !.status = "PUBLISHED", !.approved = seen])))

(* withdrawAnnouncement.                                                   *)
WithdrawAnnouncement(s, x, seen) ==
  /\ Announced(x) /\ db[AnnouncementId(x)].status = "PUBLISHED" /\ IsVersion(x, seen)
  /\ OpenTxn(s, Put(AnnouncementId(x), [Saved(x) EXCEPT !.status = "WITHDRAWN"]))

(* deleteAnnouncementDraft.                                                *)
DeleteDraft(s, x, seen) ==
  /\ Draft(x) /\ IsVersion(x, seen)
  /\ OpenTxn(s, Put(AnnouncementId(x), [db[AnnouncementId(x)] EXCEPT !.status = "DELETED"]))

(* markRead.                                                               *)
MarkRead(x, a) ==
  /\ Has(db, NoticeId(x, a)) /\ db[NoticeId(x, a)] = "UNREAD"
  /\ WriteAlone(Put(NoticeId(x, a), "READ"))

(* An agent comes into being meanwhile.                                    *)
NewReader(a) == ~Has(db, ReaderId(a)) /\ WriteAlone(Put(ReaderId(a), TRUE))

SettingsNext ==
  \/ \E s \in Sessions :
       \/ \E k \in Settings, seen \in 0..MaxSettingVersion : ChangeSetting(s, k, seen)
       \/ \E x \in Announcements :
            \/ CreateAnnouncement(s, x)
            \/ \E seen \in 1..MaxAnnouncementVersion + 1 :
                 \/ UpdateAnnouncement(s, x, seen) \/ PublishAnnouncement(s, x, seen)
                 \/ WithdrawAnnouncement(s, x, seen) \/ DeleteDraft(s, x, seen)
       \/ CommitTxn(s) \/ AbortTxn(s)
  \/ \E x \in Announcements, a \in Readers : MarkRead(x, a)
  \/ \E a \in Readers : NewReader(a)

MailNext ==
  \E e \in Desks :
    \/ ReadToChange(e) \/ WritePolicy(e)
    \/ ReadToTest(e) \/ SendTest(e) \/ MarkVerified(e) \/ DeskFails(e)

SystemNext == (SettingsNext /\ UNCHANGED systemVars) \/ MailNext

SystemSpec == SystemInit /\ [][SystemNext]_<<db, txn, systemVars>>

-----------------------------------------------------------------------------
(* Nobody overwrites a setting without having looked at what is replaced.  *)
ReplacedWasSeen ==
  \A k \in Settings : Has(db, SettingId(k)) => db[SettingId(k)].saw + 1 = db[SettingId(k)].version

(* Mail settings count as verified only if a mail has been sent with just  *)
(* these, however long the test took and whatever was changed meanwhile.   *)
VerifiedWasTested ==
  db[MailPolicy].verified => db[MailPolicy].mail \in tested

(* What is announced is what its publisher had read, not an edit of the    *)
(* last moment, and nobody is notified of a draft or of one that is gone.  *)
AnnouncedWasApproved ==
  \A x \in Announcements :
    /\ Announced(x) /\ ~Draft(x) =>
         db[AnnouncementId(x)].approved = db[AnnouncementId(x)].content
    /\ (\E a \in Readers : Has(db, NoticeId(x, a))) => Announced(x) /\ ~Draft(x)

(* All that administrators rely on.                                        *)
ChangesWereSeen == ReplacedWasSeen /\ VerifiedWasTested /\ AnnouncedWasApproved

=============================================================================
