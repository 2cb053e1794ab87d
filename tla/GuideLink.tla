------------------------------ MODULE GuideLink ------------------------------
(***************************************************************************)
(* The key of an agent and the link that hands it over: a record in Redis  *)
(* that is good for one version of the key and of the public addresses of  *)
(* the platform, and for a quarter of an hour.  There is one record for an *)
(* agent, and a new link replaces the old one.  The owner creates links,   *)
(* asks for the present one and makes new keys, in several tabs; each      *)
(* request reads Redis and two documents one after the other.  Left out:   *)
(* reading the guide through a link, which writes nothing.                 *)
(***************************************************************************)
EXTENDS Naturals

CONSTANTS
  Visits,          \* requests at one time
  LinkAttempts,    \* GUIDE_LINK_CREATE_ATTEMPTS
  MaxLinks, MaxKeys, MaxAddresses

ASSUME GuideLinkAssumption ==
  {LinkAttempts, MaxLinks, MaxKeys, MaxAddresses} \subseteq Nat \ {0}

VARIABLES
  secretKey,       \* secretKeyVersion of the agent, 0 for null
  addresses,       \* version of the PublicAccessConfig
  link,            \* the record in Redis
  overdue,         \* the links whose expiresAt has passed
  visit,           \* visit[v]: where a request is, and what it has read
  made             \* ghost: the link that was stored last

linkVars == <<secretKey, addresses, link, overdue, visit, made>>

NoLink == [id |-> 0]
NoVisit == [at |-> "idle"]

LinkInit ==
  /\ secretKey = 0 /\ addresses = 0
  /\ link = NoLink /\ made = NoLink /\ overdue = {}
  /\ visit = [v \in Visits |-> NoVisit]

Visiting(v, place) == visit[v].at = place
Proceeds(v, place) == visit' = [visit EXCEPT ![v].at = place]
Leaves(v)          == visit' = [visit EXCEPT ![v] = NoVisit]

-----------------------------------------------------------------------------
(* regenerateKey, for its own sake or for the first link: reads the agent  *)
(* and replaces the version it has read, or fails.                         *)
ReadOldKey(v) ==
  /\ Visiting(v, "idle") \/ Visiting(v, "noKey")
  /\ visit' = [visit EXCEPT ![v] =
       [at |-> "newKey", key |-> secretKey, forLink |-> Visiting(v, "noKey")]]
  /\ UNCHANGED <<secretKey, addresses, link, overdue, made>>

ReplaceKey(v) ==
  /\ Visiting(v, "newKey") /\ secretKey < MaxKeys
  /\ IF secretKey = visit[v].key
     THEN /\ secretKey' = secretKey + 1
          /\ visit' = [visit EXCEPT ![v] = IF @.forLink THEN [at |-> "agent"] ELSE NoVisit]
     ELSE Leaves(v) /\ UNCHANGED secretKey
  /\ UNCHANGED <<addresses, link, overdue, made>>

(* createGuideLink: the agent, with a first key if it has none, ...        *)
ReadAgent(v) ==
  /\ Visiting(v, "idle") \/ Visiting(v, "agent")
  /\ visit' = [visit EXCEPT ![v] =
                 IF secretKey = 0 THEN [at |-> "noKey"]
                 ELSE [at |-> "addresses", key |-> secretKey, attempt |-> 1]]
  /\ UNCHANGED <<secretKey, addresses, link, overdue, made>>

(* ... the addresses, ...                                                  *)
ReadAddresses(v) ==
  /\ Visiting(v, "addresses")
  /\ visit' = [visit EXCEPT ![v] =
       [at |-> "store", key |-> @.key, attempt |-> @.attempt, addresses |-> addresses]]
  /\ UNCHANGED <<secretKey, addresses, link, overdue, made>>

(* ... the new link, ...                                                   *)
StoreLink(v) ==
  /\ Visiting(v, "store") /\ made.id < MaxLinks
  /\ link' = [id |-> made.id + 1, key |-> visit[v].key, addresses |-> visit[v].addresses]
  /\ made' = link'
  /\ visit' = [visit EXCEPT ![v] =
       [at |-> "confirm", key |-> @.key, attempt |-> @.attempt, raw |-> link']]
  /\ UNCHANGED <<secretKey, addresses, overdue>>

(* ... and the addresses again, whose change undoes the attempt.           *)
ConfirmLink(v) ==
  /\ Visiting(v, "confirm")
  /\ IF addresses = visit[v].raw.addresses THEN Leaves(v) ELSE Proceeds(v, "undo")
  /\ UNCHANGED <<secretKey, addresses, link, overdue, made>>

(* Mutant: DEL instead of the script that compares first.                  *)
BugDeleteAny(raw) == NoLink

(* DELETE_BOOTSTRAP_IF_UNCHANGED_SCRIPT                                    *)
Without(raw) == IF link = raw THEN NoLink ELSE link

UndoLink(v) ==
  /\ Visiting(v, "undo")
  /\ link' = Without(visit[v].raw)
  /\ IF visit[v].attempt = LinkAttempts THEN Leaves(v)
     ELSE visit' = [visit EXCEPT ![v] =
                      [at |-> "addresses", key |-> @.key, attempt |-> @.attempt + 1]]
  /\ UNCHANGED <<secretKey, addresses, overdue, made>>

-----------------------------------------------------------------------------
(* getGuideLinkStatus: the record, and then, in either order, both         *)
(* documents; a link that is not good any more is deleted.                 *)
AskStatus(v) ==
  /\ Visiting(v, "idle") /\ link # NoLink
  /\ visit' = [visit EXCEPT ![v] =
       [at |-> "status", raw |-> link, unread |-> {"agent", "addresses"}, stale |-> FALSE]]
  /\ UNCHANGED <<secretKey, addresses, link, overdue, made>>

ReadStatus(v) ==
  /\ Visiting(v, "status")
  /\ \E document \in visit[v].unread :
       visit' = [visit EXCEPT
         ![v].unread = @ \ {document},
         ![v].stale = IF \/ document = "agent" /\ secretKey # visit[v].raw.key
                         \/ document = "addresses" /\ addresses # visit[v].raw.addresses
                      THEN TRUE ELSE @]
  /\ UNCHANGED <<secretKey, addresses, link, overdue, made>>

AnswerStatus(v) ==
  /\ Visiting(v, "status") /\ visit[v].unread = {}
  /\ link' = IF visit[v].stale \/ visit[v].raw.id \in overdue THEN Without(visit[v].raw)
             ELSE link
  /\ Leaves(v)
  /\ UNCHANGED <<secretKey, addresses, overdue, made>>

-----------------------------------------------------------------------------
(* updatePublicAccessConfig.                                               *)
ChangeAddresses ==
  /\ addresses < MaxAddresses
  /\ addresses' = addresses + 1
  /\ UNCHANGED <<secretKey, link, overdue, visit, made>>

(* The link's time passes, and soon after the time of its record.          *)
LinkExpires ==
  /\ made # NoLink /\ made.id \notin overdue
  /\ overdue' = 1 .. made.id
  /\ UNCHANGED <<secretKey, addresses, link, visit, made>>

RecordExpires ==
  /\ link # NoLink /\ link.id \in overdue
  /\ link' = NoLink
  /\ UNCHANGED <<secretKey, addresses, overdue, visit, made>>

(* A call throws, and with it the request, or the process dies.            *)
VisitFails(v) ==
  /\ ~Visiting(v, "idle")
  /\ Leaves(v)
  /\ UNCHANGED <<secretKey, addresses, link, overdue, made>>

LinkNext ==
  \/ \E v \in Visits :
       \/ ReadOldKey(v) \/ ReplaceKey(v)
       \/ ReadAgent(v) \/ ReadAddresses(v) \/ StoreLink(v) \/ ConfirmLink(v) \/ UndoLink(v)
       \/ AskStatus(v) \/ ReadStatus(v) \/ AnswerStatus(v)
       \/ VisitFails(v)
  \/ ChangeAddresses \/ LinkExpires \/ RecordExpires

LinkSpec == LinkInit /\ [][LinkNext]_linkVars

-----------------------------------------------------------------------------
(* The newest link stays until its time is over or it is good no more: a   *)
(* request that has looked at an older one, and deletes it late, does not  *)
(* delete the one that has replaced it meanwhile.                          *)
LinkIsKept ==
  link # made =>
    /\ link = NoLink
    /\ \/ made.id \in overdue
       \/ made.key # secretKey
       \/ made.addresses # addresses

(* A link that is stored is for a key the agent has or has had.            *)
LinkTypeOK ==
  /\ secretKey \in 0..MaxKeys /\ addresses \in 0..MaxAddresses
  /\ link # NoLink => link.key \in 1..secretKey /\ link.addresses \in 0..addresses

=============================================================================
