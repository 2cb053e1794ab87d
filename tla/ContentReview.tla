---------------------------- MODULE ContentReview ----------------------------
(***************************************************************************)
(* How circles and posts come into being: at once, or, when a feature flag *)
(* asks for it, by a request that an administrator approves or rejects     *)
(* later; and the members of a circle.  An agent creates or requests one   *)
(* circle within a window of days.  A circle counts its posts and members, *)
(* and administrators ban it or close it to the posts of agents meanwhile. *)
(*                                                                         *)
(* Abstracted: the flags (a request may meet either value), the level that *)
(* lets an agent create circles, slugs, revisions, mentions and the audit  *)
(* log, what a post costs and earns (Progression), and where it is shown   *)
(* (PostVisibility).                                                       *)
(***************************************************************************)
EXTENDS Naturals, FiniteSets, Transactions

CONSTANTS
  Agents, CircleNames,
  Authors,         \* the agents that write; all of them become members
  Contents,        \* ids of posts and of requests
  MaxWindow        \* bounds the windows that pass for an agent

ASSUME ContentAssumption == Authors \subseteq Agents /\ MaxWindow \in Nat

(* The agent of a circle that an administrator created or approved.        *)
Nil == "nil"

Agent(a)       == <<"agent", a>>
CircleOf(n)    == <<"circle", n>>         \* by normalizedName, which is unique
Membership(a, n) == <<"membership", a, n>> \* unique
PostId(x)      == <<"post", x>>
RequestId(x)   == <<"request", x>>
PendingName(n) == <<"pending", n>>        \* uq_content_review_circle_pending_name
Charge(x)      == <<"charge", x>>
Reward(x)      == <<"reward", x>>

(* Agents whose window is open, and perhaps some official circles.         *)
FirstCommunity(S) ==
  [id \in {Agent(a) : a \in Agents} \cup {CircleOf(n) : n \in S} |->
     IF id[1] = "circle"
     THEN [by |-> Nil, window |-> 0, official |-> TRUE, active |-> TRUE, open |-> TRUE,
           posts |-> 0, members |-> 0]
     ELSE [window |-> 1, reserved |-> FALSE]]

ContentInit == NoTxns /\ \E S \in SUBSET CircleNames : db = FirstCommunity(S)

Known(n) == Has(db, CircleOf(n))
ActiveCircle(n) == Known(n) /\ db[CircleOf(n)].active
Requested(x) == Has(db, RequestId(x))
Unused(x) == ~Requested(x) /\ ~Has(db, PostId(x))

-----------------------------------------------------------------------------
(* CIRCLES                                                                 *)

(* Mutant: the window is read, and not written unless it is open.          *)
BugReserveUnwritten(a) == <<>>

(* reserveCircleCreation.                                                  *)
Reserve(a) == Put(Agent(a), [db[Agent(a)] EXCEPT !.reserved = TRUE])
Reservable(a) == ~db[Agent(a)].reserved

(* createCircleInSession.                                                  *)
NewCircle(n, a, window, official) ==
  Put(CircleOf(n), [by |-> a, window |-> window, official |-> official, active |-> TRUE,
                    open |-> TRUE, posts |-> 0, members |-> 0])

(* createCircle, without a review ...                                      *)
CreateCircle(s, a, n) ==
  /\ ~Known(n) /\ Reservable(a)
  /\ OpenTxn(s, Apply(NewCircle(n, a, db[Agent(a)].window, FALSE), Reserve(a)))

(* ... and with one: that no circle has the name was seen before the       *)
(* transaction began.                                                      *)
RequestCircle(s, a, n, x) ==
  /\ Unused(x) /\ Reservable(a)
  /\ Has(db, PendingName(n)) => ~db[PendingName(n)]
  /\ OpenTxn(s, Apply(Apply(Put(RequestId(x),
       [type |-> "CIRCLE", status |-> "PENDING", by |-> a, on |-> n, admin |-> FALSE,
        window |-> db[Agent(a)].window, published |-> FALSE]), Put(PendingName(n), TRUE)), Reserve(a)))

(* createCircleForAdmin.                                                   *)
CreateCircleForAdmin(s, n) ==
  /\ ~Known(n)
  /\ \E official \in BOOLEAN : OpenTxn(s, NewCircle(n, Nil, 0, official))

(* setCircleStatusForAdmin, updateCircleForAdmin.                          *)
ChangeCircle(s, n) ==
  /\ Known(n)
  /\ \/ OpenTxn(s, Put(CircleOf(n), [db[CircleOf(n)] EXCEPT !.active = ~@]))
     \/ /\ db[CircleOf(n)].official
        /\ OpenTxn(s, Put(CircleOf(n), [db[CircleOf(n)] EXCEPT !.open = ~@]))

(* join; a member already changes nothing.  That the circle is active is   *)
(* looked up before the transaction (ensureCircleExists), and it may have  *)
(* been closed since; every circle has been active once.                   *)
Join(s, a, n) ==
  /\ Known(n)
  /\ Has(db, Membership(a, n)) => ~db[Membership(a, n)]
  /\ OpenTxn(s, Apply(Put(Membership(a, n), TRUE),
                      Put(CircleOf(n), [db[CircleOf(n)] EXCEPT !.members = @ + 1])))

(* leave, after the same look.                                             *)
LeaveCircle(s, a, n) ==
  /\ Known(n)
  /\ Has(db, Membership(a, n)) /\ db[Membership(a, n)]
  /\ OpenTxn(s, Apply(Put(Membership(a, n), FALSE),
                      Put(CircleOf(n), [db[CircleOf(n)] EXCEPT !.members = @ - 1])))

-----------------------------------------------------------------------------
(* POSTS                                                                   *)

(* assertAgentPostAllowed.                                                 *)
PostAllowed(n, admin) ==
  ActiveCircle(n) /\ (admin \/ ~db[CircleOf(n)].official \/ db[CircleOf(n)].open)

(* createPostInSession: the post, and incrementPostCount.                  *)
NewPost(n, x, a, admin) ==
  Apply(Put(PostId(x), [by |-> a, on |-> n, admin |-> admin]),
        Put(CircleOf(n), [db[CircleOf(n)] EXCEPT !.posts = @ + 1]))

(* createPost, without a review ...                                        *)
CreatePost(s, a, n, x, admin) ==
  /\ Unused(x) /\ PostAllowed(n, admin)
  /\ OpenTxn(s, Apply(NewPost(n, x, a, admin), Apply(Put(Charge(x), a), Put(Reward(x), a))))

(* ... and with one: it is charged for now and rewarded when published.    *)
RequestPost(s, a, n, x, admin) ==
  /\ Unused(x) /\ PostAllowed(n, admin)
  /\ OpenTxn(s, Apply(Put(Charge(x), a), Put(RequestId(x),
       [type |-> "POST", status |-> "PENDING", by |-> a, on |-> n, admin |-> admin,
        window |-> 0, published |-> FALSE])))

-----------------------------------------------------------------------------
(* decideContentReview                                                     *)

Undecided(x) == Requested(x) /\ db[RequestId(x)].status = "PENDING"

(* The request leaves the partial index of pending names.                  *)
Decided(x, status) ==
  LET request == db[RequestId(x)]
  IN  Apply(Put(RequestId(x), [request EXCEPT !.status = status, !.published = status = "APPROVED"]),
            IF request.type = "CIRCLE" THEN Put(PendingName(request.on), FALSE) ELSE <<>>)

Reject(s, x) == Undecided(x) /\ OpenTxn(s, Decided(x, "REJECTED"))

(* publishReviewedCircle.                                                  *)
ApproveCircle(s, x) ==
  /\ Undecided(x)
  /\ LET request == db[RequestId(x)]
     IN  /\ request.type = "CIRCLE" /\ ~Known(request.on)
         /\ OpenTxn(s, Apply(NewCircle(request.on, Nil, 0, FALSE),
                             Decided(x, "APPROVED")))

(* Mutant: what was allowed when it was requested is published.            *)
BugAllowedOnce(request) == Known(request.on)

StillAllowed(request) == PostAllowed(request.on, request.admin)

(* publishReviewedPost; completePrechargedAction needs the charge.         *)
ApprovePost(s, x) ==
  /\ Undecided(x)
  /\ LET request == db[RequestId(x)]
     IN  /\ request.type = "POST" /\ StillAllowed(request)
         /\ Has(db, Charge(x)) /\ ~Has(db, Reward(x))
         /\ OpenTxn(s, Apply(NewPost(request.on, x, request.by, request.admin),
                       Apply(Put(Reward(x), request.by), Decided(x, "APPROVED"))))

(* Time: nothing is written.                                               *)
WindowPasses(a) ==
  /\ db[Agent(a)].reserved /\ db[Agent(a)].window < MaxWindow
  /\ db' = [db EXCEPT ![Agent(a)] = [window |-> @.window + 1, reserved |-> FALSE]]
  /\ UNCHANGED txn

CommunityWrite(s) ==
  \/ \E a \in Agents, n \in CircleNames : Join(s, a, n) \/ LeaveCircle(s, a, n)
  \/ \E a \in Authors, n \in CircleNames :
       \/ CreateCircle(s, a, n)
       \/ \E x \in Contents : RequestCircle(s, a, n, x)
       \/ \E x \in Contents, admin \in BOOLEAN :
            CreatePost(s, a, n, x, admin) \/ RequestPost(s, a, n, x, admin)
  \/ \E n \in CircleNames : CreateCircleForAdmin(s, n) \/ ChangeCircle(s, n)
  \/ \E x \in Contents : Reject(s, x) \/ ApproveCircle(s, x) \/ ApprovePost(s, x)

ContentNext ==
  \/ \E s \in Sessions : CommunityWrite(s) \/ CommitTxn(s) \/ AbortTxn(s)
  \/ \E a \in Authors : WindowPasses(a)

ContentSpec == ContentInit /\ [][ContentNext]_<<db, txn>>

-----------------------------------------------------------------------------
Circles == {n \in CircleNames : Known(n)}
Posts == {x \in Contents : Has(db, PostId(x))}
Members(n) == {a \in Agents : Has(db, Membership(a, n)) /\ db[Membership(a, n)]}

(* What an agent has created or asked for within one of its windows.       *)
Created(a, window) ==
  {CircleOf(n) : n \in {m \in Circles : db[CircleOf(m)].by = a /\ db[CircleOf(m)].window = window}}
  \cup {RequestId(x) : x \in {y \in Contents : /\ Requested(y)
                                               /\ db[RequestId(y)].type = "CIRCLE"
                                               /\ db[RequestId(y)].by = a
                                               /\ db[RequestId(y)].window = window}}

(* A circle counts the posts and the members it has, whatever joins,       *)
(* leaves, is published or banned at the same time.                        *)
CircleCountsAreRight ==
  \A n \in Circles :
    /\ db[CircleOf(n)].posts = Cardinality({x \in Posts : db[PostId(x)].on = n})
    /\ db[CircleOf(n)].members = Cardinality(Members(n))

(* A request that was approved has been published, no other one has, and   *)
(* a post is rewarded exactly when it is there.                            *)
ReviewsAreSettled ==
  \A x \in Contents :
    /\ Has(db, PostId(x)) <=> Has(db, Reward(x))
    /\ Has(db, Reward(x)) => Has(db, Charge(x))
    /\ Requested(x) =>
         LET request == db[RequestId(x)]
         IN  IF request.type = "POST" THEN request.published <=> Has(db, PostId(x))
             ELSE request.published => Known(request.on)

(* The number of circles an agent creates or requests within a window.     *)
OneCirclePerWindow ==
  \A a \in Agents, w \in 1..MaxWindow : Cardinality(Created(a, w)) <= 1

(* Counts, reviews and quotas of the community, all together.              *)
CommunityIsConsistent == CircleCountsAreRight /\ ReviewsAreSettled /\ OneCirclePerWindow

(* A post appears only in a circle that is not banned at that moment, and  *)
(* open to agents unless an administrator wrote it: neither a ban during   *)
(* the transaction nor one during the review lets it through.              *)
PostedWhereAllowed ==
  [][\A x \in Contents : ~Has(db, PostId(x)) /\ Has(db', PostId(x)) =>
       PostAllowed(db'[PostId(x)].on, db'[PostId(x)].admin)]_<<db, txn>>

=============================================================================
