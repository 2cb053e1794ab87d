-------------------------- MODULE RequestInvariants --------------------------
(***************************************************************************)
(* The inductive invariants of the components that serve requests, in the  *)
(* order in which RequestProofs proves them: what holds of the documents,  *)
(* of the writes of each open transaction and of the places of each        *)
(* process, beyond the properties that follow from it.  At the end, the    *)
(* invariant of all of them when they share the documents.                 *)
(*                                                                         *)
(* Where they work with transactions, the invariants say of an open one    *)
(* what its writes are and on which documents, that it writes itself, they *)
(* depend: a commit that writes one of these documents ends it.            *)
(***************************************************************************)
EXTENDS MCRequests, SharedProofs

-----------------------------------------------------------------------------
(* IDEMPOTENT WRITES                                                       *)

(* A record and the effect it stands for appear and disappear together.    *)
RecordsMatch(d) ==
  /\ \A k \in Keys : Has(d, RecordId(k)) =>
       /\ d[RecordId(k)].result \in Effects
       /\ Has(d, EffectId(d[RecordId(k)].result))
       /\ d[EffectId(d[RecordId(k)].result)] = [key |-> k, input |-> d[RecordId(k)].input]
  /\ \A e \in Effects : Has(d, EffectId(e)) =>
       /\ d[EffectId(e)].key \in Keys
       /\ Has(d, RecordId(d[EffectId(e)].key))
       /\ d[RecordId(d[EffectId(e)].key)].result = e

AnswersIn(d, answered) ==
  \A k \in Keys : \A r \in answered[k] :
    Has(d, EffectId(r[2])) /\ d[EffectId(r[2])] = [key |-> k, input |-> r[1]]

(* What an open transaction is about to do has not been done yet.          *)
WritesFor(d, call, w) ==
  /\ call \in Call
  /\ ~Has(d, RecordId(call.key))
  /\ \E e \in Effects : /\ ~Has(d, EffectId(e))
                        /\ w = OperationWrites(call.key, call.input, e)

IdempotencyInvariant ==
  /\ TxnShape
  /\ DOMAIN calls = Sessions /\ \A s \in Sessions : calls[s] \in Call \cup {NoCall}
  /\ DOMAIN results = Keys
  /\ RecordsMatch(db) /\ AnswersIn(db, results)
  /\ \A s \in Sessions : txn[s].open => WritesFor(db, calls[s], txn[s].writes)

-----------------------------------------------------------------------------
(* ACCOUNTS                                                                *)

(* The documents, by their fields.                                         *)
IsPolicy(x) ==
  /\ x = [version |-> x.version, invite |-> x.invite, uses |-> x.uses]
  /\ x.version \in 1..MaxPolicyVersion /\ x.invite \in BOOLEAN

IsInvitation(x) ==
  /\ x = [usedBy |-> x.usedBy, revoked |-> x.revoked, expired |-> x.expired]
  /\ x.usedBy \in Emails \cup {Nobody}
  /\ x.usedBy # Nobody => ~x.revoked

IsChallenge(x) ==
  /\ x = [email |-> x.email, purpose |-> x.purpose, failures |-> x.failures,
          consumed |-> x.consumed, expired |-> x.expired, version |-> x.version]
  /\ x.email \in Emails /\ x.purpose \in Purposes /\ x.version \in 0..MaxPolicyVersion
  /\ x.consumed \in BOOLEAN

IsUser(x) ==
  /\ x = [role |-> x.role, createdBy |-> x.createdBy, resetBy |-> x.resetBy,
          tokenVersion |-> x.tokenVersion, policy |-> x.policy, admittedBy |-> x.admittedBy]
  /\ x.role \in {"USER", "ADMIN"}
  /\ IsFiniteSet(x.resetBy) /\ x.tokenVersion = Cardinality(x.resetBy)

DocumentsTyped(d) ==
  /\ Has(d, Policy) /\ IsPolicy(d[Policy])
  /\ \A i \in Invitations : Has(d, InvitationId(i)) /\ IsInvitation(d[InvitationId(i)])
  /\ \A c \in Challenges : Has(d, ChallengeId(c)) => IsChallenge(d[ChallengeId(c)])
  /\ \A e \in Emails : Has(d, UserId(e)) => IsUser(d[UserId(e)])
  /\ \A e \in Emails : Has(d, UserId(e)) <=> Has(d, SessionId(e))

(* What a challenge has been used for: an account, or a new password.      *)
CreatedWith(d, c, e) == Has(d, UserId(e)) /\ d[UserId(e)].createdBy = c
ResetWith(d, c, e) == Has(d, UserId(e)) /\ c \in d[UserId(e)].resetBy

CodesSpent(d) ==
  \A c \in Challenges :
    /\ \A e \in Emails : CreatedWith(d, c, e) \/ ResetWith(d, c, e) =>
         Has(d, ChallengeId(c)) /\ d[ChallengeId(c)].consumed
    /\ \A e, f \in Emails :
         /\ ~(CreatedWith(d, c, e) /\ ResetWith(d, c, f))
         /\ (CreatedWith(d, c, e) /\ CreatedWith(d, c, f) => e = f)
         /\ (ResetWith(d, c, e) /\ ResetWith(d, c, f) => e = f)

InvitationsSpent(d) ==
  \A i \in Invitations, e \in Emails :
    Has(d, UserId(e)) /\ d[UserId(e)].admittedBy = i <=> d[InvitationId(i)].usedBy = e

AdministratorKnown(d) ==
  /\ Has(d, Initialization) => d[Initialization].administrator \in Emails
  /\ \A e \in Emails :
       Has(d, UserId(e)) /\ d[UserId(e)].role = "ADMIN"
         <=> Has(d, Initialization) /\ d[Initialization].administrator = e

AccountsKept(d) ==
  /\ DocumentsTyped(d) /\ CodesSpent(d) /\ InvitationsSpent(d) /\ AdministratorKnown(d)

(* What an open transaction is going to do, and what it knows of the       *)
(* documents that it writes.                                               *)
PolicyTaken(d, w) ==
  /\ Has(w, Policy) /\ Has(d, Policy)
  /\ IsPolicy(w[Policy])
  /\ w[Policy].version = d[Policy].version /\ w[Policy].invite = d[Policy].invite

CodeTaken(d, w, c) ==
  /\ Has(w, ChallengeId(c)) /\ Has(d, ChallengeId(c))
  /\ ~d[ChallengeId(c)].consumed
  /\ IsChallenge(w[ChallengeId(c)]) /\ w[ChallengeId(c)].consumed

NewAccount(d, w, e, role, c, i) ==
  /\ Has(w, UserId(e)) /\ Has(w, SessionId(e))
  /\ ~Has(d, UserId(e))
  /\ IsUser(w[UserId(e)])
  /\ w[UserId(e)].role = role /\ w[UserId(e)].createdBy = c
  /\ w[UserId(e)].resetBy = {} /\ w[UserId(e)].admittedBy = i

Registers(d, w, e, c, i) ==
  /\ \A id : Has(w, id) <=> \/ id \in {Policy, UserId(e), SessionId(e), ChallengeId(c)}
                            \/ i # Nobody /\ id = InvitationId(i)
  /\ PolicyTaken(d, w) /\ CodeTaken(d, w, c) /\ NewAccount(d, w, e, "USER", c, i)
  /\ w[UserId(e)].policy = d[Policy].version
  /\ d[Policy].invite => i # Nobody
  /\ i # Nobody =>
       /\ Has(d, InvitationId(i)) /\ d[InvitationId(i)].usedBy = Nobody
       /\ IsInvitation(w[InvitationId(i)]) /\ w[InvitationId(i)].usedBy = e

Initializes(d, w, e) ==
  /\ \A id : Has(w, id) <=> id \in {Initialization, UserId(e), SessionId(e)}
  /\ NewAccount(d, w, e, "ADMIN", Nobody, Nobody)
  /\ ~Has(d, Initialization) /\ w[Initialization].administrator = e

Resets(d, w, e, c) ==
  /\ \A id : Has(w, id) <=> id \in {Policy, UserId(e), SessionId(e), ChallengeId(c)}
  /\ PolicyTaken(d, w) /\ CodeTaken(d, w, c)
  /\ Has(d, UserId(e))
  /\ w[UserId(e)] = [d[UserId(e)] EXCEPT !.tokenVersion = @ + 1, !.resetBy = @ \cup {c}]

AccountPending(d, w) ==
  \E e \in Emails :
    \/ \E c \in Challenges, i \in Invitations \cup {Nobody} : Registers(d, w, e, c, i)
    \/ Initializes(d, w, e)
    \/ \E c \in Challenges : Resets(d, w, e, c)

(* The challenge that a request has verified exists, and is never deleted. *)
RequestKnown(d, r) ==
  /\ r \in Request
  /\ r.op \in Purposes => r.challenge \in Challenges /\ Has(d, ChallengeId(r.challenge))
  /\ r.op = "INITIALIZE" => r.challenge = Nobody

RegistrationInvariant ==
  /\ TxnShape
  /\ DOMAIN requests = Sessions
  /\ \A s \in Sessions : requests[s] = NoRequest \/ RequestKnown(db, requests[s])
  /\ AccountsKept(db)
  /\ \A s \in Sessions : txn[s].open => AccountPending(db, txn[s].writes)

-----------------------------------------------------------------------------
(* BROWSER SESSIONS                                                        *)

Busy(t) == ~Resting(t)

IsSession ==
  /\ DOMAIN session = {"current", "previous", "inGrace", "revoked", "expired"}
  /\ session.inGrace \in BOOLEAN /\ session.revoked \in BOOLEAN /\ session.expired \in BOOLEAN
  /\ suspended \in BOOLEAN /\ lostAnswers \in Nat

SessionTypes == IsSession /\ DOMAIN refresh = Tabs /\ SessionTypeOK

(* What a refresh has read was true once.                                  *)
Honest(t) ==
  /\ refresh[t].secret <= session.current /\ refresh[t].seen <= session.current
  /\ refresh[t].st \in {"sent", "rotate", "revoke", "accepted"} => refresh[t].cookie = NoSecret
  /\ TabAt(t, "rotate") => refresh[t].seen = refresh[t].secret
  /\ (TabAt(t, "sent") /\ refresh[t].attempts > 0 /\ ~session.revoked)
        => refresh[t].secret < session.current
  /\ TabAt(t, "revoke") =>
       /\ refresh[t].secret < refresh[t].seen
       /\ (refresh[t].seen = session.current /\ refresh[t].secret = session.previous)
             => ~session.inGrace

(* A cookie on its way holds the current secret; it is the only one, and   *)
(* neither the browser nor any other refresh knows that secret.            *)
Carried(t) ==
  refresh[t].cookie # NoSecret =>
    /\ refresh[t].cookie = session.current /\ jar # session.current
    /\ \A u \in Tabs : Busy(u) =>
         /\ refresh[u].secret # session.current
         /\ u # t => refresh[u].cookie = NoSecret

NotAhead(t) == jar # NoSecret => refresh[t].secret <= jar

(* Who is turned away is so because the session has ended, or was outrun.  *)
TurnedAway == session.revoked \/ suspended \/ refusals \cap {"outrun", "expired"} # {}
Rightly(t) == (TabAt(t, "answered") /\ ~refresh[t].ok) => TurnedAway

RefreshesFit == \A t \in Tabs : Busy(t) => Honest(t) /\ Carried(t) /\ NotAhead(t) /\ Rightly(t)

JarFits ==
  /\ jar <= session.current
  /\ jar = NoSecret => TurnedAway
  /\ (~session.revoked /\ ~suspended /\ jar # NoSecret) =>
       \/ jar = session.current
       \/ /\ jar = session.previous
          /\ lostAnswers > 0 \/ \E t \in Tabs : Busy(t) /\ refresh[t].cookie = session.current

SessionInvariant == SessionTypes /\ RefreshesFit /\ JarFits /\ AlarmHasCause

(* What a step of tab t leaves of the refreshes of the others.             *)
OnlyTab(t, r) ==
  /\ DOMAIN refresh' = Tabs /\ refresh'[t] = r
  /\ \A u \in Tabs : u # t => refresh'[u] = refresh[u]

-----------------------------------------------------------------------------
(* THE LINK TO THE GUIDE                                                   *)

IsLink(l) ==
  /\ DOMAIN l = {"id", "key", "addresses"}
  /\ l.id \in Nat \ {0}
  /\ l.key \in 1..secretKey /\ l.addresses \in 0..addresses

(* A link that a request holds in hand is the newest, or an older one.     *)
InHand(l) == IsLink(l) /\ IsLink(made) /\ (l = made \/ l.id < made.id)

(* What a request has read was true once, and what it has found out of     *)
(* date will never be good again.                                          *)
VisitFits(v) ==
  /\ Visiting(v, "newKey") => visit[v].key \in 0..secretKey
  /\ Visiting(v, "addresses") => visit[v].key \in 1..secretKey
  /\ Visiting(v, "store") => visit[v].key \in 1..secretKey /\ visit[v].addresses \in 0..addresses
  /\ Visiting(v, "confirm") => visit[v].key \in 1..secretKey /\ InHand(visit[v].raw)
  /\ Visiting(v, "undo") =>
       visit[v].key \in 1..secretKey /\ InHand(visit[v].raw) /\ visit[v].raw.addresses < addresses
  /\ Visiting(v, "status") =>
       /\ DOMAIN visit[v] = {"at", "raw", "unread", "stale"}
       /\ InHand(visit[v].raw)
       /\ visit[v].stale \in BOOLEAN
       /\ visit[v].stale => \/ visit[v].raw.key < secretKey
                            \/ visit[v].raw.addresses < addresses

LinkInvariant ==
  /\ secretKey \in 0..MaxKeys /\ addresses \in 0..MaxAddresses
  /\ made = NoLink \/ IsLink(made)
  /\ link = NoLink \/ link = made
  /\ DOMAIN visit = Visits /\ \A v \in Visits : VisitFits(v)
  /\ LinkIsKept

-----------------------------------------------------------------------------
(* WATCH LISTS                                                             *)

(* The registries of documents d.                                          *)
RegistryIn(d, id) == IF Has(d, id) THEN d[id] ELSE {}

AgreeIn(d) ==
  /\ \A a \in Watchers, p \in WatchedPosts :
       p \in RegistryIn(d, OfAgent(a)) <=> a \in RegistryIn(d, OfPost(p))
  /\ \A a \in Watchers : IsFiniteSet(RegistryIn(d, OfAgent(a)))
                         /\ Cardinality(RegistryIn(d, OfAgent(a))) <= WatchLimit
  /\ \A p \in WatchedPosts : IsFiniteSet(RegistryIn(d, OfPost(p)))
                             /\ Cardinality(RegistryIn(d, OfPost(p))) <= WatchLimit

(* What an open transaction writes: one agent watches one more post or one *)
(* less, in both registries as they are, or a post is removed.             *)
WritesWatch(d, w) ==
  \/ \E a \in Watchers, p \in WatchedPosts :
       /\ \A id : Has(w, id) <=> id = OfAgent(a) \/ id = OfPost(p)
       /\ \/ /\ w[OfAgent(a)] = RegistryIn(d, OfAgent(a)) \cup {p}
             /\ w[OfPost(p)] = RegistryIn(d, OfPost(p)) \cup {a}
             /\ Cardinality(RegistryIn(d, OfAgent(a))) < WatchLimit
             /\ Cardinality(RegistryIn(d, OfPost(p))) < WatchLimit
          \/ /\ w[OfAgent(a)] = RegistryIn(d, OfAgent(a)) \ {p}
             /\ w[OfPost(p)] = RegistryIn(d, OfPost(p)) \ {a}
  \/ \E p \in WatchedPosts : \A id : Has(w, id) <=> id = PostOf(p)

WatchInvariant ==
  /\ TxnShape /\ AgreeIn(db)
  /\ \A s \in Sessions : txn[s].open => WritesWatch(db, txn[s].writes)

-----------------------------------------------------------------------------
(* POSTS AND THEIR CIRCLES                                                 *)

(* PostAllowed, of documents d.                                            *)
PostAllowedIn(d, n, admin) ==
  /\ Has(d, CircleOf(n)) /\ d[CircleOf(n)].active
  /\ admin \/ ~d[CircleOf(n)].official \/ d[CircleOf(n)].open

(* A transaction that inserts a post also writes the circle of the post,   *)
(* which it has found open to it.                                          *)
PostsFit(d, w) ==
  \A x : Has(w, PostId(x)) =>
    /\ PostAllowedIn(d, w[PostId(x)].on, w[PostId(x)].admin)
    /\ Has(w, CircleOf(w[PostId(x)].on))

PostsInvariant ==
  /\ TxnShape
  /\ \A a \in Authors : Has(db, Agent(a))
  /\ \A s \in Sessions : txn[s].open => PostsFit(db, txn[s].writes)

(* Writes that insert no post fit anyway.                                  *)
NoPosts(w) == \A x : ~Has(w, PostId(x))

-----------------------------------------------------------------------------
(* SETTINGS, MAIL AND ANNOUNCEMENTS                                        *)

(* A draft has the version of its content, and what is not a draft any     *)
(* more has the content that was approved.                                 *)
AnnouncementFits(v) ==
  /\ DOMAIN v = {"status", "version", "content", "approved"}
  /\ v.status \in {"DRAFT", "PUBLISHED", "WITHDRAWN", "DELETED"}
  /\ v.status = "DRAFT" => v.version = v.content
  /\ v.status \in {"PUBLISHED", "WITHDRAWN"} => v.approved = v.content

Notified(d, x) == \E a \in Readers : Has(d, NoticeId(x, a))

SystemFits(d) ==
  /\ \A k \in Settings : Has(d, SettingId(k)) => d[SettingId(k)].saw + 1 = d[SettingId(k)].version
  /\ \A x \in Announcements :
       /\ Has(d, AnnouncementId(x)) => AnnouncementFits(d[AnnouncementId(x)])
       /\ Notified(d, x) => /\ Has(d, AnnouncementId(x))
                            /\ d[AnnouncementId(x)].status \in {"PUBLISHED", "WITHDRAWN"}

(* A transaction notifies only of what it publishes, and saves a draft or  *)
(* deletes one only while nobody has been notified of it.                  *)
SystemWrites(d, w) ==
  /\ ~Has(w, MailPolicy)
  /\ SystemFits(w)
  /\ \A x \in Announcements :
       Has(w, AnnouncementId(x)) /\ w[AnnouncementId(x)].status \in {"DRAFT", "DELETED"} =>
         ~Notified(d, x)

PolicyFits(done, p) ==
  /\ DOMAIN p = {"version", "mail", "verified"}
  /\ p.version \in Nat /\ p.verified \in BOOLEAN
  /\ p.verified => p.mail \in done

(* A request at a desk has read this or an earlier policy; the mail        *)
(* settings of a version never change, and those it is about to mark have  *)
(* been tested.                                                            *)
DeskFits(d, done, k) ==
  /\ k.at \in {"idle", "change", "send", "mark"}
  /\ k.at # "idle" =>
       /\ PolicyFits(done, k.read)
       /\ k.read.version <= d[MailPolicy].version
       /\ k.read.version = d[MailPolicy].version => k.read.mail = d[MailPolicy].mail
  /\ k.at = "change" => k.changes \in BOOLEAN
  /\ k.at = "send" => DOMAIN k = {"at", "read"}
  /\ k.at = "mark" => k.read.mail \in done

SettingsInvariant ==
  /\ TxnShape /\ SystemFits(db)
  /\ \A s \in Sessions : txn[s].open => SystemWrites(db, txn[s].writes)

MailInvariant ==
  /\ Has(db, MailPolicy) /\ PolicyFits(tested, db[MailPolicy])
  /\ DOMAIN desk = Desks /\ \A e \in Desks : DeskFits(db, tested, desk[e])

-----------------------------------------------------------------------------
(* CIRCLES, THEIR COUNTS, REVIEWS AND QUOTAS                               *)

CircleFits(v) ==
  DOMAIN v = {"by", "window", "official", "active", "open", "posts", "members"}

PostsIn(d, n)   == {x \in Contents : Has(d, PostId(x)) /\ d[PostId(x)].on = n}
MembersIn(d, n) == {a \in Agents : Has(d, Membership(a, n)) /\ d[Membership(a, n)]}

(* A circle counts its posts and members; one that does not exist has none.*)
CountsIn(d) ==
  \A n \in CircleNames :
    /\ IsFiniteSet(PostsIn(d, n)) /\ IsFiniteSet(MembersIn(d, n))
    /\ IF Has(d, CircleOf(n))
       THEN /\ CircleFits(d[CircleOf(n)])
            /\ d[CircleOf(n)].posts = Cardinality(PostsIn(d, n))
            /\ d[CircleOf(n)].members = Cardinality(MembersIn(d, n))
       ELSE PostsIn(d, n) = {} /\ MembersIn(d, n) = {}

(* What an open transaction adds to the counts, in a circle it writes:     *)
(* one post, one member more or less, or nothing.                          *)
NewPosts(w)    == {x \in Contents : Has(w, PostId(x))}
NewMembers(w)  == {m \in Agents \X CircleNames : Has(w, Membership(m[1], m[2]))}

SameCounts(u, v) == u.posts = v.posts /\ u.members = v.members

CountsNothing(d, w) ==
  /\ \A x \in Contents : ~Has(w, PostId(x))
  /\ \A a \in Agents, n \in CircleNames : ~Has(w, Membership(a, n))
  /\ \A n \in CircleNames : Has(w, CircleOf(n)) =>
       IF Has(d, CircleOf(n)) THEN SameCounts(w[CircleOf(n)], d[CircleOf(n)])
       ELSE w[CircleOf(n)].posts = 0 /\ w[CircleOf(n)].members = 0

CountsPost(d, w, n, x) ==
  /\ \A y \in Contents : Has(w, PostId(y)) <=> y = x
  /\ \A b \in Agents, m \in CircleNames : ~Has(w, Membership(b, m))
  /\ \A m \in CircleNames : Has(w, CircleOf(m)) <=> m = n
  /\ w[PostId(x)].on = n /\ ~Has(d, PostId(x)) /\ Has(d, CircleOf(n))
  /\ w[CircleOf(n)].posts = d[CircleOf(n)].posts + 1
  /\ w[CircleOf(n)].members = d[CircleOf(n)].members

CountsMember(d, w, n, a, joins) ==
  /\ \A y \in Contents : ~Has(w, PostId(y))
  /\ \A b \in Agents, m \in CircleNames : Has(w, Membership(b, m)) <=> b = a /\ m = n
  /\ \A m \in CircleNames : Has(w, CircleOf(m)) <=> m = n
  /\ Has(d, CircleOf(n)) /\ w[Membership(a, n)] = joins
  /\ joins <=> ~(Has(d, Membership(a, n)) /\ d[Membership(a, n)])
  /\ w[CircleOf(n)].posts = d[CircleOf(n)].posts
  /\ w[CircleOf(n)].members = IF joins THEN d[CircleOf(n)].members + 1
                              ELSE d[CircleOf(n)].members - 1

CountsFit(d, w) ==
  /\ \A n \in CircleNames : Has(w, CircleOf(n)) => CircleFits(w[CircleOf(n)])
  /\ \/ CountsNothing(d, w)
     \/ \E n \in CircleNames, x \in Contents : CountsPost(d, w, n, x)
     \/ \E n \in CircleNames, a \in Agents, joins \in BOOLEAN : CountsMember(d, w, n, a, joins)

(* A request that has been decided, and what it has led to.                *)
RequestFits(v) ==
  /\ DOMAIN v = {"type", "status", "by", "on", "admin", "window", "published"}
  /\ v.type \in {"POST", "CIRCLE"} /\ v.on \in CircleNames
  /\ v.published <=> v.status = "APPROVED"

ReviewsIn(d) ==
  \A x \in Contents :
    /\ Has(d, PostId(x)) <=> Has(d, Reward(x))
    /\ Has(d, Reward(x)) => Has(d, Charge(x))
    /\ Has(d, RequestId(x)) =>
         /\ RequestFits(d[RequestId(x)])
         /\ d[RequestId(x)].type = "POST" => (d[RequestId(x)].published <=> Has(d, PostId(x)))
         /\ d[RequestId(x)].type = "CIRCLE" /\ d[RequestId(x)].published =>
              Has(d, CircleOf(d[RequestId(x)].on))

(* A transaction that publishes a post charges for it, if it has not been  *)
(* requested, or settles its request; one that requests a post or rejects  *)
(* it knows that the post is not there.                                    *)
ForPost(d, x) == Has(d, RequestId(x)) /\ d[RequestId(x)].type = "POST"

ReviewsFit(d, w) ==
  \A x \in Contents :
    /\ Has(w, PostId(x)) <=> Has(w, Reward(x))
    /\ Has(w, PostId(x)) =>
         \/ Has(w, Charge(x)) /\ ~Has(w, RequestId(x)) /\ ~ForPost(d, x)
         \/ ForPost(w, x) /\ w[RequestId(x)].published /\ Has(d, Charge(x))
    /\ Has(w, RequestId(x)) => RequestFits(w[RequestId(x)])
    /\ ForPost(w, x) =>
         \/ Has(w, PostId(x)) /\ w[RequestId(x)].published
         \/ /\ ~w[RequestId(x)].published /\ ~Has(w, PostId(x)) /\ ~Has(d, PostId(x))
            /\ Has(w, Charge(x)) \/ ForPost(d, x)
    /\ Has(w, RequestId(x)) /\ ~ForPost(w, x) /\ w[RequestId(x)].published =>
         Has(w, CircleOf(w[RequestId(x)].on))

(* Document id of d is a circle, or the request for one, of agent a in one *)
(* of its windows.                                                         *)
Made(d, id, a, window) ==
  /\ Has(d, id) /\ d[id].by = a /\ d[id].window = window
  /\ \/ \E n \in CircleNames : id = CircleOf(n)
     \/ \E x \in Contents : id = RequestId(x) /\ d[id].type = "CIRCLE"

Windows == Nat \ {0}

QuotaIn(d) ==
  /\ \A a \in Agents :
       /\ Has(d, Agent(a)) /\ DOMAIN d[Agent(a)] = {"window", "reserved"}
       /\ d[Agent(a)].window \in Windows /\ d[Agent(a)].reserved \in BOOLEAN
  /\ \A a \in Agents, window \in Windows : \A id : Made(d, id, a, window) =>
       /\ window <= d[Agent(a)].window
       /\ window = d[Agent(a)].window => d[Agent(a)].reserved
       /\ \A other : Made(d, other, a, window) => other = id

WindowUsed(v, window) ==
  DOMAIN v = {"window", "reserved"} /\ v.window = window /\ v.reserved = TRUE

(* A transaction makes one circle, or request for one, and reserves the    *)
(* window of its agent for that.                                           *)
QuotaFits(d, w) ==
  /\ \A a \in Agents : Has(w, Agent(a)) =>
       /\ ~d[Agent(a)].reserved
       /\ WindowUsed(w[Agent(a)], d[Agent(a)].window)
  /\ \A a \in Agents, window \in Windows : \A id : Made(w, id, a, window) =>
       \/ Made(d, id, a, window)
       \/ /\ ~Has(d, id) /\ Has(w, Agent(a)) /\ window = d[Agent(a)].window
          /\ \A other : Made(w, other, a, window) => other = id

CommunityWrites(d, w) == CountsFit(d, w) /\ ReviewsFit(d, w) /\ QuotaFits(d, w)

CommunityInvariant ==
  /\ TxnShape /\ CountsIn(db) /\ ReviewsIn(db) /\ QuotaIn(db)
  /\ \A s \in Sessions : txn[s].open => CommunityWrites(db, txn[s].writes)

-----------------------------------------------------------------------------
(* What other transactions leave of it.                                    *)

(* Nothing is made: circles and requests keep their maker, or are no       *)
(* agent's, or are no requests for a circle.                               *)
MakesNothing(d, w) ==
  /\ \A a \in Agents : ~Has(w, Agent(a))
  /\ \A n \in CircleNames : Has(w, CircleOf(n)) =>
       \/ w[CircleOf(n)].window = 0
       \/ /\ Has(d, CircleOf(n)) /\ w[CircleOf(n)].by = d[CircleOf(n)].by
          /\ w[CircleOf(n)].window = d[CircleOf(n)].window
  /\ \A x \in Contents : Has(w, RequestId(x)) =>
       \/ w[RequestId(x)].type # "CIRCLE"
       \/ /\ Has(d, RequestId(x)) /\ d[RequestId(x)].type = "CIRCLE"
          /\ w[RequestId(x)].by = d[RequestId(x)].by
          /\ w[RequestId(x)].window = d[RequestId(x)].window

(* Writes that neither publish nor request nor reward anything.            *)
ReviewsNothing(w) ==
  \A x \in Contents : ~Has(w, PostId(x)) /\ ~Has(w, Reward(x)) /\ ~Has(w, RequestId(x))

-----------------------------------------------------------------------------
(* THE FEEDBACK OF A POST                                                  *)

SubjectFits(v) == DOMAIN v = {"shown", "counts"} /\ DOMAIN v.counts = Kinds

OpinionOf(d, a) == IF Has(d, Opinion(a)) THEN d[Opinion(a)] ELSE "NONE"

OfOpinion(d, kind) == {a \in Critics : OpinionOf(d, a) = kind}

FeedbackIn(d) ==
  /\ Has(d, Subject) /\ SubjectFits(d[Subject])
  /\ \A a \in Critics : OpinionOf(d, a) \in Kinds \cup {"NONE"}
  /\ \A kind \in Kinds : /\ IsFiniteSet(OfOpinion(d, kind))
                         /\ d[Subject].counts[kind] = Cardinality(OfOpinion(d, kind))

(* A transaction changes one opinion together with the counts, or none.    *)
ChangesOpinion(d, w, a, new) ==
  /\ \A b \in Critics : Has(w, Opinion(b)) <=> b = a
  /\ w[Opinion(a)] = new /\ new # OpinionOf(d, a)
  /\ Has(w, Subject)
  /\ \A kind \in Kinds :
       w[Subject].counts[kind] =
         (d[Subject].counts[kind] + IF new = kind THEN 1 ELSE 0)
           - IF OpinionOf(d, a) = kind THEN 1 ELSE 0

FeedbackFits(d, w) ==
  /\ Has(w, Subject) => SubjectFits(w[Subject])
  /\ \/ /\ \A a \in Critics : ~Has(w, Opinion(a))
        /\ Has(w, Subject) =>
             \A kind \in Kinds : w[Subject].counts[kind] = d[Subject].counts[kind]
     \/ \E a \in Critics, new \in Kinds \cup {"NONE"} : ChangesOpinion(d, w, a, new)

FeedbackInvariant ==
  /\ TxnShape /\ FeedbackIn(db)
  /\ \A s \in Sessions : txn[s].open => FeedbackFits(db, txn[s].writes)

-----------------------------------------------------------------------------
(* THE VIEWS OF A POST                                                     *)

ViewsOf(d, n) == IF Has(d, Shard(n)) THEN d[Shard(n)].agents ELSE 0

ShardValues(d) == [n \in ViewShards |-> ViewsOf(d, n)]

Seen(d) == {v \in Visitors \X Days : Has(d, ViewOf(v[1], v[2]))}

ShardFits(v) == DOMAIN v = {"agents", "guests"} /\ v.agents \in Nat

ViewsIn(d) ==
  /\ \A n \in ViewShards : Has(d, Shard(n)) => ShardFits(d[Shard(n)])
  /\ IsFiniteSet(Seen(d))
  /\ SumOf(ShardValues(d), ViewShards) = Cardinality(Seen(d))

(* A transaction that views the post writes that it has been seen and the  *)
(* shard that counts it.                                                   *)
WritesView(d, w, a, day, n) ==
  /\ \A b \in Visitors, other \in Days : Has(w, ViewOf(b, other)) <=> b = a /\ other = day
  /\ \A m \in ViewShards : Has(w, Shard(m)) <=> m = n
  /\ ~Has(d, ViewOf(a, day))
  /\ w[Shard(n)].agents = ViewsOf(d, n) + 1

(* Any other change leaves both as they are.                               *)
ViewsFit(d, w) ==
  /\ \A n \in ViewShards : Has(w, Shard(n)) => ShardFits(w[Shard(n)])
  /\ \/ /\ \A a \in Visitors, day \in Days : ~Has(w, ViewOf(a, day))
        /\ \A n \in ViewShards : Has(w, Shard(n)) => w[Shard(n)].agents = ViewsOf(d, n)
     \/ \E a \in Visitors, day \in Days, n \in ViewShards : WritesView(d, w, a, day, n)

ViewsInvariant ==
  /\ TxnShape /\ ViewsIn(db)
  /\ \A s \in Sessions : txn[s].open => ViewsFit(db, txn[s].writes)

-----------------------------------------------------------------------------
(* PROGRESSION                                                             *)

Fastest == Min({Levels[n].period : n \in 1..Len(Levels)})

(* The kinds of the events of the ledger.                                  *)
EventKinds == {"action", "charge", "task", "adjustment"}

LedgerIn(d) == {id \in DOMAIN d : id[1] \in EventKinds}
XpIn(d) == [id \in LedgerIn(d) |-> d[id].xp]
CostIn(d) == [id \in LedgerIn(d) |-> d[id].cost]

(* The ledger gave this experience and took this stamina in all.           *)
LedgerSums(d, xp, spent) ==
  /\ IsFiniteSet(LedgerIn(d))
  /\ \A id \in LedgerIn(d) : d[id].xp \in Int /\ d[id].cost \in Nat
  /\ SumOf(XpIn(d), LedgerIn(d)) = xp
  /\ SumOf(CostIn(d), LedgerIn(d)) = spent

RewardedOn(d, day) == {x \in Sources : Has(d, ActionId(x)) /\ d[ActionId(x)].day = day}

(* The counters of a day are not ahead of the ledger, and neither are the  *)
(* tasks that it says were rewarded.                                       *)
TasksFit(d, day, count, awarded) ==
  /\ \A other \in Nat :
       /\ IsFiniteSet(RewardedOn(d, other))
       /\ Has(d, TaskId(other)) => Cardinality(RewardedOn(d, other)) >= TaskTarget
  /\ count <= Cardinality(RewardedOn(d, day))
  /\ awarded <=> count >= TaskTarget
  /\ awarded => Has(d, TaskId(day))

ProgressRecord ==
  [xp : Nat, stamina : Nat, settledAt : Nat, day : Nat, count : Nat, awarded : BOOLEAN]

StaminaFits(p, spent) ==
  /\ p.stamina <= Level(p.xp).staminaMax
  /\ p.stamina + spent <= Levels[1].staminaMax + p.settledAt \div Fastest

(* At time t, p is what the ledger of documents d makes of the agent.      *)
AccountedFor(d, p, t) ==
  /\ p \in ProgressRecord /\ p.settledAt <= t /\ p.day <= DayOf(t)
  /\ \E spent \in Nat : LedgerSums(d, p.xp, spent) /\ StaminaFits(p, spent)
  /\ TasksFit(d, p.day, p.count, p.awarded)

(* Documents with the same events.                                         *)
SameLedger(d, e) ==
  \A id : id[1] \in EventKinds =>
    /\ Has(e, id) <=> Has(d, id)
    /\ Has(d, id) => e[id] = d[id]

(* Documents e have one event more.                                        *)
LedgerGrows(d, e, new) ==
  /\ new[1] \in EventKinds /\ ~Has(d, new)
  /\ \A id : id[1] \in EventKinds =>
       /\ Has(e, id) <=> Has(d, id) \/ id = new
       /\ Has(d, id) => e[id] = d[id]

(* q is p with the r points recovered by time t, at a point in P; c and M  *)
(* are the points it had and the most it may have.                         *)
Recovers(p, t, q, M, P, c, r) ==
  /\ q \in ProgressRecord /\ q.xp = p.xp /\ q.day = p.day
  /\ q.count = p.count /\ q.awarded = p.awarded
  /\ q.settledAt <= t /\ q.settledAt >= p.settledAt
  /\ M \in Nat /\ P \in Nat \ {0} /\ c \in 0..M /\ c <= p.stamina /\ r \in Nat
  /\ c = Smaller(p.stamina, M) /\ r = (t - p.settledAt) \div P
  /\ c >= M => q.stamina = c /\ q.settledAt = p.settledAt
  /\ c < M => q.stamina = Smaller(M, c + r) /\ q.settledAt = p.settledAt + r * P

(* r is p after the cost c has been taken from it, at some time.           *)
Spends(p, r, c, t) ==
  /\ r \in ProgressRecord /\ c \in Nat
  /\ r.xp = p.xp /\ r.day = p.day /\ r.count = p.count /\ r.awarded = p.awarded
  /\ r.stamina = p.stamina - c
  /\ p.settledAt <= r.settledAt /\ r.settledAt <= t

(* The progress is there once an event is, and is what the events make it. *)
ProgressIn(d, t) ==
  IF Has(d, Progress) THEN AccountedFor(d, d[Progress], t) ELSE LedgerIn(d) = {}

(* Every transaction writes the progress, so that a commit ends the        *)
(* others: what an open one found in the ledger is there still.            *)
ProgressInvariant ==
  /\ TxnShape /\ time \in Nat /\ ProgressIn(db, time)
  /\ \A s \in Sessions : txn[s].open =>
       Has(txn[s].writes, Progress) /\ ProgressIn(Apply(db, txn[s].writes), time)

-----------------------------------------------------------------------------
(* MIGRATIONS                                                              *)

MigratorFields == {"st", "m", "k", "batch", "last", "done"}
Working == {"update", "batch_check", "batch", "merge", "ensure", "verify", "drop", "dropping"}
MigratorStates == {"next", "check", "sync_check", "sync", "synced", "record", "recorded"}
                    \cup Working

(* What an operation is for a process that is at it.                       *)
DoneAt == [st \in Working |->
            CASE st \in {"batch_check", "batch"} -> "update"
              [] st = "dropping" -> "drop"
              [] OTHER -> st]

(* A process that is at work, and the migration it is in.                  *)
MigratorTypes(p) ==
  LET r == migrator[p]
  IN  /\ DOMAIN r = MigratorFields
      /\ r.st \in MigratorStates
      /\ r.m \in Nat \ {0} /\ r.k \in Nat \ {0} /\ r.last \in Nat
      /\ r.st \in Working \cup {"check"} => r.m <= Len(Plan) /\ r.k <= Len(Plan[r.m]) + 1
      /\ r.st \in Working => r.k <= Len(Plan[r.m]) /\ Operation(p).do = DoneAt[r.st]

(* The operations before the one it is at have been applied, and so have   *)
(* the migrations that it is going to record.                              *)
AppliedSoFar(p) ==
  LET r == migrator[p]
  IN  /\ r.done \subseteq 1..Len(Plan)
      /\ \A m \in r.done : \A op \in Range(Plan[m]) : Applied(op)
      /\ r.st \in Working \cup {"check"} =>
           \A j \in DOMAIN Plan[r.m] : j < r.k => Applied(Plan[r.m][j])

(* An update has changed every document up to the last id it has seen, and *)
(* the batch it is at leaves none out.                                     *)
UpdatedSoFar(p) ==
  LET r == migrator[p]
  IN  /\ /\ r.st \in Working \cup {"check"} /\ r.k <= Len(Plan[r.m])
         /\ Operation(p).do = "update"
         => \A d \in unchanged[Operation(p).on] : d > r.last
      /\ r.st \in {"batch_check", "batch"} =>
           /\ r.batch # {} /\ r.batch \subseteq OldDocuments
           /\ \A x \in r.batch : \A d \in unchanged[Operation(p).on] :
                d <= x => d \in r.batch

SyncedSoFar(p) == migrator[p].st \in {"synced", "record", "recorded"} => indexes = DeclaredIndexes

MigratorIsKept(p) ==
  migrator[p] # Away => MigratorTypes(p) /\ AppliedSoFar(p) /\ UpdatedSoFar(p) /\ SyncedSoFar(p)

(* A process that has written late is where it looks at the lock next.     *)
LateIsNoticed(p) ==
  /\ late[p] \in {0, 1}
  /\ late[p] = 1 => lock.owner # p /\ migrator[p].st \in {"check", "synced"}

SchemaIsKept ==
  /\ DOMAIN unchanged = Fields
  /\ MigrationTypeOK
  /\ DOMAIN migrator = Migrators /\ DOMAIN late = Migrators
  /\ DOMAIN lock = {"owner", "live"}
  /\ \A p \in Migrators : MigratorIsKept(p) /\ LateIsNoticed(p)
  /\ RecordedIsApplied

(* The data only move towards what the plan is for: documents are changed, *)
(* declared indexes stay, and only those are created.                      *)
DataMoves ==
  /\ DOMAIN unchanged' = Fields
  /\ \A f \in Fields : unchanged'[f] \subseteq unchanged[f]
  /\ indexes \cap DeclaredIndexes \subseteq indexes'
  /\ indexes' \subseteq indexes \cup DeclaredIndexes

(* What is kept of a process that is at work.                              *)
AtWork(p) == MigratorTypes(p) /\ AppliedSoFar(p) /\ UpdatedSoFar(p) /\ SyncedSoFar(p)

-----------------------------------------------------------------------------
(* THE COMPONENTS SIDE BY SIDE                                             *)

(* The documents that each component writes, by the first part of an id.   *)
CallKinds      == {"record", "effect"}
AccountKinds   == {"policy", "initialization", "challenge", "invitation", "user", "session"}
ProgressKinds  == EventKinds \cup {"progress"}
CommunityKinds == {"agent", "circle", "membership", "post", "request", "pending", "charge", "reward"}
WatchKinds     == {"watched", "watchers", "watchable"}
RecordKinds    == {"subject", "opinion", "view", "shard"}
SystemKinds    == {"setting", "mailPolicy", "announcement", "reader", "notice"}

(* What is there at first.                                                 *)
First(S) ==
  Apply(FirstDocuments, Apply(FirstPosts,
    Apply(FirstRecords, Apply(FirstMailPolicy, FirstCommunity(S)))))

KindsOf(p) ==
  CASE p = "idempotency"            -> CallKinds
    [] p = "registration"           -> AccountKinds
    [] p = "progression"            -> ProgressKinds
    [] p = "content"                -> CommunityKinds
    [] p = "watches"                -> WatchKinds
    [] p = "records"                -> RecordKinds
    [] p \in {"settings", "mail"}   -> SystemKinds
    [] OTHER                        -> {}

(* One component is kept as it keeps itself, and the others are as they    *)
(* were at first, because it writes none of their documents.               *)
RequestsInvariant ==
  /\ TxnShape /\ WritesOnly(KindsOf(part))
  /\ \E S \in SUBSET CircleNames : SameBut(First(S), db, KindsOf(part))
  /\ IF part = "idempotency" THEN IdempotencyInvariant ELSE NoCalls
  /\ IF part = "registration" THEN RegistrationInvariant ELSE NoRequests
  /\ part = "progression" => ProgressInvariant
  /\ part = "content" => CommunityInvariant
  /\ part = "watches" => WatchInvariant
  /\ part = "records" => FeedbackInvariant /\ ViewsInvariant
  /\ IF part \in {"settings", "mail"} THEN SettingsInvariant /\ MailInvariant ELSE DesksInit

=============================================================================
