------------------------ MODULE CircleProposalProofs ------------------------
(***************************************************************************)
(* What holds of a circle's proposals for every set of members, every      *)
(* quorum, phase and lifetime, and every number of sessions.               *)
(*                                                                         *)
(* Whatever a transaction writes about a proposal it writes together with  *)
(* the proposal, and whatever opens, closes or accepts one together with   *)
(* the circle.  So two transactions that do not conflict are about         *)
(* different proposals, and one of them at most about the circle.  The     *)
(* inductive invariant says of the documents that they are Consistent, and *)
(* of an open transaction that its writes leave every proposal it writes   *)
(* right, and the circle if it writes the circle: nobody else can disturb  *)
(* what they depend on and let the transaction live.                       *)
(***************************************************************************)
EXTENDS CircleProposal, SharedProofs

-----------------------------------------------------------------------------
(* The documents *)

CircleDoc   == [kind : Kinds, status : {"ACTIVE", "BANNED"}, count : Nat,
                version : [Scopes -> Nat]]
ProposalDoc == [status : Active \cup Closed, creator : Members, base : Nat,
                rev : Revisions, quorum : MinQuorum..20, discussion : Nat,
                voting : Nat \cup {Null}, expires : Nat, next : Nat \cup {Null},
                approve : Nat, reject : Nat, held : Revisions \cup {Free},
                resolved : Nat \cup {Null}]

(* Documents, or changes of documents, have their types.                   *)
Typed(d) ==
  /\ Has(d, Circle) => d[Circle] \in CircleDoc
  /\ \A p \in Proposals : Has(d, Proposal(p)) => d[Proposal(p)] \in ProposalDoc
  /\ \A p \in Proposals, m \in Members :
       /\ Has(d, Vote(p, m)) => d[Vote(p, m)] \in VoteChoices
       /\ \A r \in Revisions : Has(d, Stance(p, r, m)) =>
            d[Stance(p, r, m)] \in Stances \cup {"WITHDRAWN"}

(* The documents about a proposal, and whether they are the same ones.     *)
About(p) ==
  {Proposal(p)} \cup {Vote(p, m) : m \in Members} \cup {Case(p, r) : r \in Revisions}
    \cup {Stance(p, x[1], x[2]) : x \in Revisions \X Members}

SameAbout(d, e, p) ==
  \A id \in About(p) : /\ Has(d, id) <=> Has(e, id)
                       /\ Has(d, id) => d[id] = e[id]

StandingIn(d, p, r, stance) ==
  {m \in Members : Has(d, Stance(p, r, m)) /\ d[Stance(p, r, m)] = stance}

VotersIn(d, p, choice) ==
  {m \in Members : Has(d, Vote(p, m)) /\ d[Vote(p, m)] = choice}

ActiveIn(d, p) == Has(d, Proposal(p)) /\ d[Proposal(p)].status \in Active

AcceptedIn(d, p) == Has(d, Proposal(p)) /\ d[Proposal(p)].status = "ACCEPTED"

-----------------------------------------------------------------------------
(* What is right about one proposal *)

(* Stances, votes and cases are about a revision that exists.              *)
Linked(d, p) ==
  /\ \A m \in Members : Has(d, Vote(p, m)) => Has(d, Proposal(p))
  /\ \A r \in Revisions :
       /\ Has(d, Case(p, r)) => Has(d, Proposal(p))
       /\ \A m \in Members : Has(d, Stance(p, r, m)) =>
            Has(d, Proposal(p)) /\ r <= d[Proposal(p)].rev

(* TallyIsVotes                                                            *)
Tallied(d, p) ==
  /\ d[Proposal(p)].approve = Cardinality(VotersIn(d, p, "APPROVE"))
  /\ d[Proposal(p)].reject = Cardinality(VotersIn(d, p, "REJECT"))

SupportedIn(d, p) ==
  Cardinality(StandingIn(d, p, d[Proposal(p)].rev, "SUPPORT")) >= d[Proposal(p)].quorum

ObjectedIn(d, p) == StandingIn(d, p, d[Proposal(p)].rev, "OBJECTION") # {}

VotedForIn(d, p) ==
  LET yes == Cardinality(VotersIn(d, p, "APPROVE"))
      no  == Cardinality(VotersIn(d, p, "REJECT"))
  IN  yes + no >= d[Proposal(p)].quorum /\ 3 * yes >= 2 * (yes + no)

(* OutcomeFollowsParticipation; it is voting when the discussion is over.  *)
Decided(d, p) ==
  LET x == d[Proposal(p)]
  IN  /\ x.status = "DISCUSSION" => x.voting = Null
      /\ x.status = "VOTING" => x.voting # Null
      /\ x.voting # Null => SupportedIn(d, p) /\ ObjectedIn(d, p)
      /\ x.status = "ACCEPTED" =>
           IF x.voting = Null THEN SupportedIn(d, p) /\ ~ObjectedIn(d, p)
                              ELSE VotedForIn(d, p)
      /\ x.status = "REJECTED" => x.voting # Null /\ ~VotedForIn(d, p)
      /\ x.status = "EXPIRED" =>
           \/ x.resolved >= x.expires
           \/ x.voting = Null /\ ~SupportedIn(d, p)
           \/ x.voting = Null /\ ObjectedIn(d, p) /\ x.resolved + Phase > x.expires

(* HoldMatchesCase; what is closed is not on hold any more.                *)
Held(d, p) ==
  /\ \A r \in Revisions :
       (Has(d, Case(p, r)) /\ d[Case(p, r)] = "OPEN")
       <=> d[Proposal(p)].status \in Active /\ d[Proposal(p)].held = r
  /\ d[Proposal(p)].status \in Active \/ d[Proposal(p)].held = Free

(* What is not on hold is scheduled for the end of its phase or lifetime.  *)
Scheduled(d, p) ==
  LET x == d[Proposal(p)]
  IN  x.status \in Active /\ x.held = Free => x.next = Min({PhaseDeadline(x), x.expires})

Right(d, p) ==
  /\ Linked(d, p)
  /\ Has(d, Proposal(p)) =>
       Tallied(d, p) /\ Decided(d, p) /\ Held(d, p) /\ Scheduled(d, p)

(* HeldIsFrozen and ClosedIsFinal, of a step from documents d to e.        *)
Frozen(d, e, p) ==
  LET x == d[Proposal(p)]  y == e[Proposal(p)]
  IN  x.held # Free /\ <<y.status, y.rev, y.discussion, y.voting, y.held>>
                       # <<x.status, x.rev, x.discussion, x.voting, x.held>>
      => d[Case(p, x.held)] # e[Case(p, x.held)]

Stands(d, e, p) ==
  Has(d, Proposal(p)) =>
    /\ Frozen(d, e, p)
    /\ d[Proposal(p)].status \notin Active =>
         /\ e[Proposal(p)] = d[Proposal(p)]
         /\ \A m \in Members :
              /\ Has(e, Vote(p, m)) => Has(d, Vote(p, m))
              /\ \A r \in Revisions : Has(e, Stance(p, r, m)) =>
                   Has(d, Stance(p, r, m)) /\ e[Stance(p, r, m)] = d[Stance(p, r, m)]

-----------------------------------------------------------------------------
(* What is right about the circle *)

ActiveSet(d) == {p \in Proposals : ActiveIn(d, p)}

CircleRight(d) ==
  LET circle == d[Circle]
  IN  /\ circle.count = Cardinality(ActiveSet(d))
      /\ \A p \in ActiveSet(d) : d[Proposal(p)].base = circle.version[p[1]]
      /\ \A p \in Proposals : AcceptedIn(d, p) =>
           /\ d[Proposal(p)].base < circle.version[p[1]]
           /\ \A q \in Proposals : AcceptedIn(d, q) /\ q[1] = p[1] /\ q # p =>
                d[Proposal(q)].base # d[Proposal(p)].base
      /\ \A p, q \in ActiveSet(d) : p[1] = q[1] => p = q
      /\ circle.kind = "NORMAL" /\ circle.status = "BANNED" => ActiveSet(d) = {}

(* What the circle is right about.                                         *)
SameOutline(d, e) ==
  \A p \in Proposals :
    /\ ActiveIn(d, p) <=> ActiveIn(e, p)
    /\ AcceptedIn(d, p) <=> AcceptedIn(e, p)
    /\ ActiveIn(d, p) \/ AcceptedIn(d, p) => d[Proposal(p)].base = e[Proposal(p)].base

Consistent(d) ==
  /\ Has(d, Circle) /\ Typed(d)
  /\ \A p \in Proposals : Right(d, p)
  /\ CircleRight(d)

(* The writes w of a transaction that is open while the documents are d.   *)
Pending(d, w) ==
  /\ Typed(w)
  /\ \A p \in Proposals :
       IF Has(w, Proposal(p))
         THEN Right(Apply(d, w), p) /\ Stands(d, Apply(d, w), p)
         ELSE \A id \in About(p) : ~Has(w, id)
  /\ IF Has(w, Circle) THEN CircleRight(Apply(d, w)) ELSE SameOutline(d, Apply(d, w))

(* The inductive invariant.                                                *)
ProposalInvariant ==
  /\ TxnShape /\ now \in 0..MaxNow
  /\ Consistent(db)
  /\ \A s \in Sessions : txn[s].open => Pending(db, txn[s].writes)

-----------------------------------------------------------------------------
(* Commits *)

(* What is right about a proposal depends on the documents about it.       *)
LEMMA AboutParts ==
  ASSUME NEW p
  PROVE  /\ Proposal(p) \in About(p)
         /\ \A m \in Members : Vote(p, m) \in About(p)
         /\ \A r \in Revisions : Case(p, r) \in About(p)
         /\ \A r \in Revisions, m \in Members : Stance(p, r, m) \in About(p)
<1>1. ASSUME NEW r \in Revisions, NEW m \in Members PROVE Stance(p, r, m) \in About(p)
  <2>1. <<r, m>> \in Revisions \X Members /\ <<r, m>>[1] = r /\ <<r, m>>[2] = m
    OBVIOUS
  <2>. QED
    BY <2>1 DEF About
<1>. QED
  BY <1>1 DEF About

LEMMA SameSets ==
  ASSUME NEW d, NEW e, NEW p, SameAbout(d, e, p)
  PROVE  /\ \A choice : VotersIn(d, p, choice) = VotersIn(e, p, choice)
         /\ \A r \in Revisions : \A stance : StandingIn(d, p, r, stance) = StandingIn(e, p, r, stance)
BY AboutParts DEF SameAbout, VotersIn, StandingIn

LEMMA SameRight ==
  ASSUME NEW d, NEW e, NEW p \in Proposals, SameAbout(d, e, p), Right(d, p), Typed(d)
  PROVE  Right(e, p)
<1>1. Linked(e, p)
  BY AboutParts DEF SameAbout, Right, Linked
<1>2. ASSUME Has(e, Proposal(p))
      PROVE  Tallied(e, p) /\ Decided(e, p) /\ Held(e, p) /\ Scheduled(e, p)
  <2>1. Has(d, Proposal(p)) /\ d[Proposal(p)] = e[Proposal(p)] /\ d[Proposal(p)].rev \in Revisions
    BY <1>2, AboutParts DEF SameAbout, Typed, ProposalDoc
  <2>2. Tallied(e, p)
    BY <2>1, SameSets DEF Right, Tallied
  <2>3. /\ SupportedIn(e, p) <=> SupportedIn(d, p)
        /\ ObjectedIn(e, p) <=> ObjectedIn(d, p)
        /\ VotedForIn(e, p) <=> VotedForIn(d, p)
    BY <2>1, SameSets DEF SupportedIn, ObjectedIn, VotedForIn
  <2>4. Decided(e, p)
    BY <2>1, <2>3 DEF Right, Decided
  <2>5. Held(e, p)
    BY <2>1, AboutParts DEF SameAbout, Right, Held
  <2>6. Scheduled(e, p)
    BY <2>1 DEF Right, Scheduled
  <2>. QED
    BY <2>2, <2>4, <2>5, <2>6
<1>. QED
  BY <1>1, <1>2 DEF Right

LEMMA SameStands ==
  ASSUME NEW d, NEW e, NEW f, NEW g, NEW p \in Proposals, SameAbout(d, f, p),
         SameAbout(e, g, p), Stands(d, e, p), Typed(d), Right(d, p),
         \A id : Has(d, id) => Has(e, id)
  PROVE  Stands(f, g, p)
<1>. SUFFICES ASSUME Has(f, Proposal(p))
              PROVE  Stands(f, g, p)
  BY DEF Stands
<1>1. /\ Has(d, Proposal(p)) /\ Has(e, Proposal(p))
      /\ d[Proposal(p)] = f[Proposal(p)] /\ e[Proposal(p)] = g[Proposal(p)]
  BY AboutParts DEF SameAbout
<1>2. \A m \in Members :
        /\ Has(g, Vote(p, m)) <=> Has(e, Vote(p, m))
        /\ Has(f, Vote(p, m)) <=> Has(d, Vote(p, m))
        /\ \A r \in Revisions :
             /\ Has(g, Stance(p, r, m)) <=> Has(e, Stance(p, r, m))
             /\ Has(f, Stance(p, r, m)) <=> Has(d, Stance(p, r, m))
             /\ Has(d, Stance(p, r, m)) =>
                  /\ f[Stance(p, r, m)] = d[Stance(p, r, m)]
                  /\ g[Stance(p, r, m)] = e[Stance(p, r, m)]
  BY AboutParts DEF SameAbout
<1>3. ASSUME d[Proposal(p)].held # Free
      PROVE  LET case == Case(p, d[Proposal(p)].held)
             IN  d[case] = f[case] /\ e[case] = g[case]
  <2>1. d[Proposal(p)].held \in Revisions
    BY <1>1, <1>3 DEF Typed, ProposalDoc
  <2>2. Has(d, Case(p, d[Proposal(p)].held))
    BY <1>1, <1>3, <2>1 DEF Right, Held
  <2>. QED
    BY <2>1, <2>2, AboutParts DEF SameAbout
<1>4. ASSUME d[Proposal(p)].status \notin Active
      PROVE  /\ e[Proposal(p)] = d[Proposal(p)]
             /\ \A m \in Members :
                  /\ Has(g, Vote(p, m)) => Has(f, Vote(p, m))
                  /\ \A r \in Revisions : Has(g, Stance(p, r, m)) =>
                       /\ Has(f, Stance(p, r, m))
                       /\ g[Stance(p, r, m)] = f[Stance(p, r, m)]
  <2>1. /\ e[Proposal(p)] = d[Proposal(p)]
        /\ \A m \in Members :
             /\ Has(e, Vote(p, m)) => Has(d, Vote(p, m))
             /\ \A r \in Revisions : Has(e, Stance(p, r, m)) =>
                  /\ Has(d, Stance(p, r, m))
                  /\ e[Stance(p, r, m)] = d[Stance(p, r, m)]
    BY <1>1, <1>4 DEF Stands
  <2>. QED
    BY <2>1, <1>2
<1>5. Frozen(d, e, p)
  BY <1>1 DEF Stands
<1>6. Frozen(f, g, p)
  BY <1>1, <1>3, <1>5 DEF Frozen
<1>. QED
  BY <1>1, <1>4, <1>6 DEF Stands

LEMMA SameCircle ==
  ASSUME NEW d, NEW e, CircleRight(d), SameOutline(d, e), d[Circle] = e[Circle]
  PROVE  CircleRight(e)
<1>1. ActiveSet(d) = ActiveSet(e)
  BY DEF ActiveSet, SameOutline
<1>. QED
  BY <1>1 DEF CircleRight, SameOutline, ActiveSet

LEMMA TypedApply ==
  ASSUME NEW d, NEW w, Typed(d), Typed(w)
  PROVE  Typed(Apply(d, w))
BY ApplyFacts DEF Typed

(* A change leaves alone what it does not write about.                     *)
LEMMA Untouched ==
  ASSUME NEW d, NEW w, NEW p, \A id \in About(p) : ~Has(w, id)
  PROVE  SameAbout(d, Apply(d, w), p)
BY ApplyFacts DEF SameAbout

(* The writes of an open transaction take the documents to consistent      *)
(* ones, and what is decided or on hold stands.                            *)
LEMMA CommitConsistent ==
  ASSUME NEW d, NEW w, Consistent(d), Pending(d, w)
  PROVE  Consistent(Apply(d, w)) /\ \A p \in Proposals : Stands(d, Apply(d, w), p)
<1>. DEFINE e == Apply(d, w)
<1>1. Has(e, Circle) /\ Typed(e)
  BY ApplyFacts, TypedApply DEF Consistent, Pending
<1>2. ASSUME NEW p \in Proposals
      PROVE  Right(e, p) /\ Stands(d, e, p)
  <2>1. CASE Has(w, Proposal(p))
    BY <2>1 DEF Pending
  <2>2. CASE ~Has(w, Proposal(p))
    <3>1. SameAbout(d, e, p)
      BY <2>2, Untouched DEF Pending
    <3>2. Right(e, p)
      BY <3>1, SameRight DEF Consistent
    <3>3. ASSUME Has(d, Proposal(p))
          PROVE  Stands(d, e, p)
      <4>1. e[Proposal(p)] = d[Proposal(p)]
        BY <3>1, <3>3, AboutParts DEF SameAbout
      <4>2. Frozen(d, e, p)
        BY <4>1 DEF Frozen
      <4>. QED
        BY <3>1, <4>1, <4>2, AboutParts DEF SameAbout, Stands
    <3>. QED
      BY <3>2, <3>3 DEF Stands
  <2>. QED
    BY <2>1, <2>2
<1>3. CircleRight(e)
  <2>1. CASE Has(w, Circle)
    BY <2>1 DEF Pending
  <2>2. CASE ~Has(w, Circle)
    BY <2>2, ApplyFacts, SameCircle DEF Consistent, Pending
  <2>. QED
    BY <2>1, <2>2
<1>. QED
  BY <1>1, <1>2, <1>3 DEF Consistent

(* A transaction that has no conflict with a commit is as right as before. *)
LEMMA PendingStable ==
  ASSUME NEW d, NEW w, NEW c, Consistent(d), Pending(d, w), Pending(d, c), Apart(w, c)
  PROVE  Pending(Apply(d, c), w)
<1>. DEFINE e == Apply(d, c)  f == Apply(d, w)  g == Apply(e, w)
<1>1. Typed(w)
  BY DEF Pending
<1>2. ASSUME NEW p \in Proposals, Has(w, Proposal(p))
      PROVE  Right(g, p) /\ Stands(e, g, p) /\ SameAbout(f, g, p)
  <2>1. \A id \in About(p) : ~Has(c, id)
    BY <1>2 DEF Pending, Apart
  <2>2. SameAbout(d, e, p)
    BY <2>1, Untouched
  <2>3. SameAbout(f, g, p)
    BY <2>1, ApplyFacts DEF SameAbout
  <2>4. Typed(d) /\ Typed(f) /\ Right(d, p) /\ Right(f, p) /\ Stands(d, f, p)
    BY <1>2, TypedApply DEF Pending, Consistent
  <2>5. \A id : Has(d, id) => Has(f, id)
    BY ApplyFacts
  <2>6. Right(g, p)
    BY <2>3, <2>4, SameRight
  <2>7. Stands(e, g, p)
    BY <2>2, <2>3, <2>4, <2>5, SameStands
  <2>. QED
    BY <2>3, <2>6, <2>7
<1>3. CASE Has(w, Circle)
  <2>1. SameOutline(d, e)
    BY <1>3 DEF Apart, Pending
  <2>2. SameOutline(f, g)
    <3>1. ASSUME NEW p \in Proposals, Has(w, Proposal(p))
          PROVE  /\ Has(f, Proposal(p)) /\ Has(g, Proposal(p))
                 /\ f[Proposal(p)] = g[Proposal(p)]
      BY <3>1, ApplyFacts
    <3>2. ASSUME NEW p \in Proposals, ~Has(w, Proposal(p))
          PROVE  /\ Has(f, Proposal(p)) <=> Has(d, Proposal(p))
                 /\ Has(g, Proposal(p)) <=> Has(e, Proposal(p))
                 /\ Has(d, Proposal(p)) => f[Proposal(p)] = d[Proposal(p)]
                 /\ Has(e, Proposal(p)) => g[Proposal(p)] = e[Proposal(p)]
      BY <3>2, ApplyFacts
    <3>. QED
      BY <2>1, <3>1, <3>2 DEF SameOutline, ActiveIn, AcceptedIn
  <2>3. f[Circle] = g[Circle]
    BY <1>3, ApplyFacts
  <2>4. CircleRight(g)
    BY <1>3, <2>2, <2>3, SameCircle DEF Pending
  <2>. QED
    BY <1>1, <1>2, <1>3, <2>4 DEF Pending
<1>4. CASE ~Has(w, Circle)
  <2>1. SameOutline(e, g)
    <3>1. ASSUME NEW p \in Proposals, Has(w, Proposal(p))
          PROVE  /\ Has(f, Proposal(p)) /\ Has(g, Proposal(p))
                 /\ f[Proposal(p)] = g[Proposal(p)]
                 /\ Has(d, Proposal(p)) <=> Has(e, Proposal(p))
                 /\ Has(d, Proposal(p)) => e[Proposal(p)] = d[Proposal(p)]
      BY <3>1, ApplyFacts DEF Apart
    <3>2. ASSUME NEW p \in Proposals, ~Has(w, Proposal(p))
          PROVE  /\ Has(g, Proposal(p)) <=> Has(e, Proposal(p))
                 /\ Has(e, Proposal(p)) => g[Proposal(p)] = e[Proposal(p)]
      BY <3>2, ApplyFacts
    <3>3. SameOutline(d, f)
      BY <1>4 DEF Pending
    <3>. QED
      BY <3>1, <3>2, <3>3 DEF SameOutline, ActiveIn, AcceptedIn
  <2>. QED
    BY <1>1, <1>2, <1>4, <2>1 DEF Pending
<1>. QED
  BY <1>3, <1>4

-----------------------------------------------------------------------------
(* What the operations write *)

LEMMA Outcomes ==
  /\ Active \cup Closed = {"DISCUSSION", "VOTING", "ACCEPTED", "REJECTED", "EXPIRED",
                           "WITHDRAWN", "MODERATED", "SUPERSEDED", "POLICY_DISABLED"}
  /\ \A status \in Closed : status \notin Active
BY DEF Active, Closed

LEMMA Smaller ==
  ASSUME NEW a \in Int, NEW b \in Int
  PROVE  Min({a, b}) = IF a <= b THEN a ELSE b
BY DEF Min

LEMMA Larger ==
  ASSUME NEW a \in Int, NEW b \in Int
  PROVE  Max({a, b}) = IF a >= b THEN a ELSE b
BY DEF Max

(* The documents of different kinds, and about different proposals, have   *)
(* different ids.                                                          *)
LEMMA Distinct ==
  ASSUME NEW p
  PROVE  /\ Circle \notin About(p)
         /\ \A q : q # p => About(p) \cap About(q) = {}
         /\ \A q : Proposal(q) \in About(p) <=> q = p
<1>1. \A q : \A id \in About(q) : id[2] = q /\ id # Circle
  BY DEF About, Circle, Proposal, Vote, Case, Stance
<1>. QED
  BY <1>1, AboutParts DEF Proposal

LEMMA ProposalsFinite ==
  /\ IsFiniteSet(Proposals)
  /\ \A d : ActiveSet(d) \subseteq Proposals /\ IsFiniteSet(ActiveSet(d))
<1>1. IsFiniteSet({"TOPIC", "RULES"})
  <2>1. IsFiniteSet({"TOPIC"}) /\ IsFiniteSet({"RULES"})
    BY FS_Singleton
  <2>2. {"TOPIC", "RULES"} = {"TOPIC"} \cup {"RULES"}
    OBVIOUS
  <2>3. IsFiniteSet({"TOPIC"} \cup {"RULES"})
    BY <2>1, FS_Union
  <2>. QED
    BY <2>2, <2>3
<1>2. IsFiniteSet(Scopes)
  BY <1>1, FS_Subset, ProposalAssumption
<1>3. IsFiniteSet(1..MaxProposals)
  BY FS_Interval, ProposalAssumption
<1>4. IsFiniteSet(Proposals)
  BY <1>2, <1>3, FS_Product DEF Proposals
<1>5. \A d : ActiveSet(d) \subseteq Proposals
  BY DEF ActiveSet
<1>. QED
  BY <1>4, <1>5, FS_Subset

(* A change about one proposal, and perhaps the circle.                    *)
LEMMA PendingOne ==
  ASSUME NEW d, NEW w, NEW p \in Proposals, Typed(w), Has(w, Proposal(p)),
         \A id : Has(w, id) => id \in About(p) \/ id = Circle,
         Right(Apply(d, w), p), Stands(d, Apply(d, w), p),
         Has(w, Circle) => CircleRight(Apply(d, w)),
         ~Has(w, Circle) =>
           /\ ActiveIn(d, p) /\ w[Proposal(p)].status \in Active
           /\ w[Proposal(p)].base = d[Proposal(p)].base
  PROVE  Pending(d, w)
<1>1. ASSUME NEW q \in Proposals, q # p
      PROVE  \A id \in About(q) : ~Has(w, id)
  BY <1>1, Distinct
<1>2. ASSUME ~Has(w, Circle)
      PROVE  SameOutline(d, Apply(d, w))
  <2>1. ASSUME NEW q \in Proposals, q # p
        PROVE  /\ Has(Apply(d, w), Proposal(q)) <=> Has(d, Proposal(q))
               /\ Has(d, Proposal(q)) => Apply(d, w)[Proposal(q)] = d[Proposal(q)]
    BY <1>1, <2>1, AboutParts, ApplyFacts
  <2>2. Has(Apply(d, w), Proposal(p)) /\ Apply(d, w)[Proposal(p)] = w[Proposal(p)]
    BY ApplyFacts
  <2>3. ActiveIn(Apply(d, w), p) /\ ~AcceptedIn(Apply(d, w), p) /\ ~AcceptedIn(d, p)
    BY <1>2, <2>2 DEF ActiveIn, AcceptedIn, Active
  <2>. QED
    BY <1>2, <2>1, <2>2, <2>3 DEF SameOutline, ActiveIn, AcceptedIn
<1>3. \A q \in Proposals : q # p => ~Has(w, Proposal(q))
  BY <1>1, AboutParts
<1>. QED
  BY <1>1, <1>2, <1>3 DEF Pending

(* A change without stances and votes leaves the participation alone.      *)
LEMMA SameParticipation ==
  ASSUME NEW d, NEW w, NEW p \in Proposals,
         \A r \in Revisions, m \in Members : ~Has(w, Stance(p, r, m)),
         \A m \in Members : ~Has(w, Vote(p, m)),
         Has(d, Proposal(p)), d[Proposal(p)].rev \in Revisions,
         LET x == d[Proposal(p)]  y == Apply(d, w)[Proposal(p)]
         IN  y.rev = x.rev /\ y.quorum = x.quorum
  PROVE  LET e == Apply(d, w)
         IN  /\ \A choice : VotersIn(e, p, choice) = VotersIn(d, p, choice)
             /\ SupportedIn(e, p) <=> SupportedIn(d, p)
             /\ ObjectedIn(e, p) <=> ObjectedIn(d, p)
             /\ VotedForIn(e, p) <=> VotedForIn(d, p)
<1>. DEFINE e == Apply(d, w)
<1>1. \A choice : VotersIn(e, p, choice) = VotersIn(d, p, choice)
  <2>1. ASSUME NEW m \in Members
        PROVE  /\ Has(e, Vote(p, m)) <=> Has(d, Vote(p, m))
               /\ Has(d, Vote(p, m)) => e[Vote(p, m)] = d[Vote(p, m)]
    BY ApplyFacts \* the votes are not written
  <2>. QED
    BY <2>1 DEF VotersIn
<1>2. \A r \in Revisions : \A stance : StandingIn(e, p, r, stance) = StandingIn(d, p, r, stance)
  <2>1. ASSUME NEW m \in Members, NEW r \in Revisions
        PROVE  /\ Has(e, Stance(p, r, m)) <=> Has(d, Stance(p, r, m))
               /\ Has(d, Stance(p, r, m)) => e[Stance(p, r, m)] = d[Stance(p, r, m)]
    BY ApplyFacts
  <2>. QED
    BY <2>1 DEF StandingIn
<1>. HIDE DEF e
<1>3. e[Proposal(p)].rev = d[Proposal(p)].rev /\ e[Proposal(p)].quorum = d[Proposal(p)].quorum
  BY DEF e
<1>4. SupportedIn(e, p) <=> SupportedIn(d, p)
  BY <1>2, <1>3 DEF SupportedIn
<1>5. ObjectedIn(e, p) <=> ObjectedIn(d, p)
  BY <1>2, <1>3 DEF ObjectedIn
<1>6. VotedForIn(e, p) <=> VotedForIn(d, p)
  BY <1>1, <1>3 DEF VotedForIn
<1>. QED
  BY <1>1, <1>4, <1>5, <1>6 DEF e

(* The end of proposal p: of its case, if it has one that is open, and of  *)
(* nothing else about it.  The circle has one proposal less, and a new     *)
(* version of the scope if it was accepted.                                *)
LessOne(p, status) ==
  IF status = "ACCEPTED" THEN [Fewer(db[Circle], 1) EXCEPT !.version[p[1]] = @ + 1]
                         ELSE Fewer(db[Circle], 1)

Closes(w, p, status, t) ==
  /\ Has(w, Proposal(p)) /\ w[Proposal(p)] = CloseAs(db[Proposal(p)], status, t)
  /\ \A m \in Members : ~Has(w, Vote(p, m))
  /\ \A r \in Revisions, m \in Members : ~Has(w, Stance(p, r, m))
  /\ \A r \in Revisions : Has(w, Case(p, r)) => w[Case(p, r)] # "OPEN"
  /\ IsHeld(p) => Has(w, Case(p, db[Proposal(p)].held))

Closing(w, p, status, t) ==
  /\ Has(w, Proposal(p)) /\ w[Proposal(p)] = CloseAs(db[Proposal(p)], status, t)
  /\ Has(w, Circle) /\ w[Circle] = LessOne(p, status)
  /\ \A id : Has(w, id) => \/ id = Proposal(p) \/ id = Circle
                           \/ \E r \in Revisions : id = Case(p, r) /\ w[id] # "OPEN"
  /\ IsHeld(p) => Has(w, Case(p, db[Proposal(p)].held))

(* The outcome is what the stances and votes say.                          *)
Justified(p, status, t) ==
  LET d == db[Proposal(p)]
  IN  /\ status = "ACCEPTED" =>
           IF d.voting = Null THEN SupportedIn(db, p) /\ ~ObjectedIn(db, p)
                              ELSE VotedForIn(db, p)
      /\ status = "REJECTED" => d.voting # Null /\ ~VotedForIn(db, p)
      /\ status = "EXPIRED" =>
           \/ t >= d.expires
           \/ d.voting = Null /\ ~SupportedIn(db, p)
           \/ d.voting = Null /\ ObjectedIn(db, p) /\ t + Phase > d.expires

LEMMA CloseFields ==
  ASSUME NEW d \in ProposalDoc, NEW status \in Closed, NEW t \in Nat
  PROVE  LET x == CloseAs(d, status, t)
         IN  /\ x \in ProposalDoc
             /\ x.status = status /\ x.resolved = t /\ x.held = Free /\ x.next = Null
             /\ x.rev = d.rev /\ x.quorum = d.quorum /\ x.base = d.base
             /\ x.voting = d.voting /\ x.expires = d.expires
             /\ x.approve = d.approve /\ x.reject = d.reject
<1>1. CloseAs(d, status, t) \in ProposalDoc
  BY Zenon DEF CloseAs, ProposalDoc
<1>. QED
  BY <1>1 DEF CloseAs, ProposalDoc

LEMMA LessOneFields ==
  ASSUME Consistent(db), NEW p \in ActiveSet(db), NEW status
  PROVE  LET c == db[Circle]  x == LessOne(p, status)
         IN  /\ x \in CircleDoc
             /\ x.count = c.count - 1 /\ x.kind = c.kind /\ x.status = c.status
             /\ \A sc \in Scopes :
                  x.version[sc] = IF status = "ACCEPTED" /\ sc = p[1]
                                    THEN c.version[sc] + 1 ELSE c.version[sc]
<1>. DEFINE c == db[Circle]
<1>1. c \in CircleDoc /\ c.count = Cardinality(ActiveSet(db)) /\ p[1] \in Scopes
  BY DEF Consistent, Typed, CircleRight, ActiveSet, Proposals
<1>2. c.count \in Nat /\ c.count # 0
  BY <1>1, ProposalsFinite, FS_EmptySet, FS_CardinalityType
<1>3. Max({0, c.count - 1}) = c.count - 1 /\ c.count - 1 \in Nat
  BY <1>2, Larger
<1>. HIDE DEF c
<1>4. /\ Fewer(c, 1) \in CircleDoc
      /\ Fewer(c, 1).count = c.count - 1 /\ Fewer(c, 1).kind = c.kind
      /\ Fewer(c, 1).status = c.status /\ Fewer(c, 1).version = c.version
  BY <1>1, <1>3 DEF CircleDoc, Fewer
<1>5. LET x == [Fewer(c, 1) EXCEPT !.version[p[1]] = @ + 1]
      IN  /\ x \in CircleDoc
          /\ x.count = c.count - 1 /\ x.kind = c.kind /\ x.status = c.status
          /\ \A sc \in Scopes :
               x.version[sc] = IF sc = p[1] THEN c.version[sc] + 1 ELSE c.version[sc]
  BY <1>1, <1>4 DEF CircleDoc
<1>. QED
  BY <1>4, <1>5 DEF LessOne, c

LEMMA ClosingCircle ==
  ASSUME Consistent(db), NEW p \in Proposals, IsActive(p), NEW status \in Closed,
         NEW t \in Nat, NEW w, Closing(w, p, status, t)
  PROVE  CircleRight(Apply(db, w))
<1>. DEFINE d == db[Proposal(p)]  e == Apply(db, w)  old == db[Circle]  new == w[Circle]
<1>1. /\ p \in ActiveSet(db) /\ Has(db, Proposal(p)) /\ d \in ProposalDoc
      /\ CircleRight(db) /\ old \in CircleDoc /\ p[1] \in Scopes
  BY DEF IsActive, Existing, ActiveSet, ActiveIn, Consistent, Typed, Proposals
<1>2. Has(e, Proposal(p)) /\ e[Proposal(p)] = w[Proposal(p)] /\ e[Circle] = new
  BY ApplyFacts DEF Closing
<1>3. /\ w[Proposal(p)].status = status /\ w[Proposal(p)].base = d.base
      /\ status \notin Active /\ d.base \in Nat
  BY <1>1, CloseFields, Outcomes DEF Closing, ProposalDoc
<1>4. /\ new.count = old.count - 1 /\ new.kind = old.kind /\ new.status = old.status
      /\ \A sc \in Scopes : new.version[sc] = IF status = "ACCEPTED" /\ sc = p[1]
                              THEN old.version[sc] + 1 ELSE old.version[sc]
  BY <1>1, LessOneFields DEF Closing
<1>5. ASSUME NEW q \in Proposals, q # p
      PROVE  /\ Has(e, Proposal(q)) <=> Has(db, Proposal(q))
             /\ Has(db, Proposal(q)) => e[Proposal(q)] = db[Proposal(q)]
  <2>1. ~Has(w, Proposal(q))
    BY <1>5 DEF Closing, Proposal, Circle, Case
  <2>. QED
    BY <2>1, ApplyFacts
<1>. HIDE DEF e, d
<1>6. ActiveSet(e) = ActiveSet(db) \ {p}
  BY <1>1, <1>2, <1>3, <1>5 DEF ActiveSet, ActiveIn
<1>7. new.count = Cardinality(ActiveSet(e))
  BY <1>1, <1>4, <1>6, ProposalsFinite, FS_RemoveElement DEF CircleRight
<1>8. \A q \in ActiveSet(e) : q # p /\ q \in ActiveSet(db) /\ q[1] \in Scopes /\ q[1] # p[1]
  BY <1>1, <1>6 DEF CircleRight, ActiveSet, Proposals
<1>9. ASSUME NEW q \in ActiveSet(e)
      PROVE  e[Proposal(q)].base = new.version[q[1]]
  <2>1. e[Proposal(q)] = db[Proposal(q)]
    BY <1>5, <1>8 DEF ActiveSet, ActiveIn
  <2>. QED
    BY <2>1, <1>1, <1>4, <1>8 DEF CircleRight
<1>10. ASSUME NEW q \in Proposals, AcceptedIn(e, q)
       PROVE  /\ e[Proposal(q)].base < new.version[q[1]]
              /\ \A o \in Proposals : AcceptedIn(e, o) /\ o[1] = q[1] /\ o # q =>
                   e[Proposal(o)].base # e[Proposal(q)].base
  <2>1. \A o \in Proposals : o # p /\ AcceptedIn(e, o) =>
          /\ AcceptedIn(db, o) /\ e[Proposal(o)].base = db[Proposal(o)].base
          /\ db[Proposal(o)].base \in Nat /\ o[1] \in Scopes
    BY <1>5 DEF AcceptedIn, Consistent, Typed, ProposalDoc, Proposals
  <2>2. \A o \in Proposals : o # p /\ AcceptedIn(e, o) =>
          e[Proposal(o)].base < old.version[o[1]]
    BY <2>1, <1>1 DEF CircleRight
  <2>3. AcceptedIn(e, p) => status = "ACCEPTED" /\ e[Proposal(p)].base = old.version[p[1]]
    BY <1>1, <1>2, <1>3 DEF AcceptedIn, CircleRight, d
  <2>4. \A sc \in Scopes : old.version[sc] \in Nat
    BY <1>1 DEF CircleDoc
  <2>5. e[Proposal(q)].base < new.version[q[1]]
    BY <2>1, <2>2, <2>3, <2>4, <1>1, <1>4, <1>10
  <2>6. ASSUME NEW o \in Proposals, AcceptedIn(e, o), o[1] = q[1], o # q
        PROVE  e[Proposal(o)].base # e[Proposal(q)].base
    <3>1. CASE o = p \/ q = p
      BY <3>1, <2>1, <2>2, <2>3, <2>4, <2>6, <1>1, <1>10
    <3>2. CASE o # p /\ q # p
      BY <3>2, <2>1, <2>6, <1>1, <1>10 DEF CircleRight
    <3>. QED
      BY <3>1, <3>2
  <2>. QED
    BY <2>5, <2>6
<1>11. /\ \A q, o \in ActiveSet(e) : q[1] = o[1] => q = o
       /\ new.kind = "NORMAL" /\ new.status = "BANNED" => ActiveSet(e) = {}
  BY <1>1, <1>4, <1>6 DEF CircleRight
<1>12. CircleRight(e)
  BY <1>2, <1>7, <1>9, <1>10, <1>11 DEF CircleRight
<1>. QED
  BY <1>12 DEF e

(* A close leaves the proposal right.                                      *)
LEMMA ClosesRight ==
  ASSUME Consistent(db), NEW p \in Proposals, IsActive(p), NEW status \in Closed,
         NEW t \in Nat, NEW w, Closes(w, p, status, t), Justified(p, status, t)
  PROVE  Right(Apply(db, w), p) /\ Stands(db, Apply(db, w), p)
<1>. DEFINE d == db[Proposal(p)]  e == Apply(db, w)  new == w[Proposal(p)]
<1>1. /\ Has(db, Proposal(p)) /\ d \in ProposalDoc
      /\ d.status \in Active /\ Right(db, p)
  BY DEF IsActive, Existing, Consistent, Typed
<1>2. Has(e, Proposal(p)) /\ e[Proposal(p)] = new
  BY ApplyFacts DEF Closes
<1>3. /\ new.status = status /\ new.resolved = t /\ new.held = Free
      /\ new.rev = d.rev /\ new.quorum = d.quorum
      /\ new.voting = d.voting /\ new.expires = d.expires
      /\ new.approve = d.approve /\ new.reject = d.reject
      /\ status \notin Active
  BY <1>1, CloseFields, Outcomes DEF Closes
<1>4. /\ \A r \in Revisions, m \in Members : ~Has(w, Stance(p, r, m))
      /\ \A m \in Members : ~Has(w, Vote(p, m))
  BY DEF Closes
<1>5. \A r \in Revisions : ~(Has(e, Case(p, r)) /\ e[Case(p, r)] = "OPEN")
  <2>1. SUFFICES ASSUME NEW r \in Revisions, Has(e, Case(p, r)), e[Case(p, r)] = "OPEN"
                 PROVE  FALSE
    OBVIOUS
  <2>2. ~Has(w, Case(p, r)) /\ Has(db, Case(p, r)) /\ db[Case(p, r)] = "OPEN"
    BY <2>1, ApplyFacts DEF Closes
  <2>3. d.held = r /\ r # Free
    BY <2>2, <1>1 DEF Right, Held, Revisions, Free
  <2>. QED
    BY <2>2, <2>3 DEF Closes, IsHeld
<1>. HIDE DEF e, new
<1>6. /\ \A choice : VotersIn(e, p, choice) = VotersIn(db, p, choice)
      /\ SupportedIn(e, p) <=> SupportedIn(db, p)
      /\ ObjectedIn(e, p) <=> ObjectedIn(db, p)
      /\ VotedForIn(e, p) <=> VotedForIn(db, p)
  BY <1>1, <1>2, <1>3, <1>4, SameParticipation DEF e, ProposalDoc
<1>7. Tallied(e, p)
  BY <1>1, <1>2, <1>3, <1>6 DEF Right, Tallied
<1>8. Decided(e, p)
  BY <1>1, <1>2, <1>3, <1>6 DEF Right, Decided, Justified, Active
<1>9. Held(e, p) /\ Scheduled(e, p)
  BY <1>2, <1>3, <1>5 DEF Held, Scheduled
<1>10. Linked(e, p)
  BY <1>1, <1>2, <1>3, <1>4, ApplyFacts DEF Right, Linked, e
<1>11. Stands(db, e, p)
  <2>1. ASSUME d.held # Free
        PROVE  db[Case(p, d.held)] # e[Case(p, d.held)]
    <3>1. d.held \in Revisions
      BY <2>1, <1>1 DEF ProposalDoc
    <3>2. db[Case(p, d.held)] = "OPEN" /\ Has(e, Case(p, d.held))
      BY <3>1, <1>1, ApplyFacts DEF Right, Held, e
    <3>. QED
      BY <3>1, <3>2, <1>5
  <2>2. Frozen(db, e, p)
    BY <2>1 DEF Frozen
  <2>. QED
    BY <2>2, <1>1 DEF Stands
<1>. QED
  BY <1>7, <1>8, <1>9, <1>10, <1>11 DEF Right, e

(* A close decided by stances and votes, or on other grounds.              *)
LEMMA ClosingPending ==
  ASSUME Consistent(db), NEW p \in Proposals, IsActive(p), NEW status \in Closed,
         NEW t \in Nat, NEW w, Closing(w, p, status, t), Justified(p, status, t)
  PROVE  Pending(db, w)
<1>1. db[Proposal(p)] \in ProposalDoc /\ p \in ActiveSet(db)
  BY DEF IsActive, Existing, ActiveSet, ActiveIn, Consistent, Typed
<1>2. w[Proposal(p)] \in ProposalDoc
  BY <1>1, CloseFields DEF Closing
<1>3. /\ \A q \in Proposals, m \in Members : ~Has(w, Vote(q, m))
      /\ \A q \in Proposals, r \in Revisions, m \in Members : ~Has(w, Stance(q, r, m))
      /\ \A q \in Proposals : Has(w, Proposal(q)) => q = p
      /\ \A r \in Revisions : Has(w, Case(p, r)) => w[Case(p, r)] # "OPEN"
      /\ \A id : Has(w, id) => id \in About(p) \/ id = Circle
  BY AboutParts DEF Closing, Circle, Proposal, Vote, Stance, Case
<1>4. Typed(w)
  BY <1>1, <1>2, <1>3, LessOneFields DEF Typed, Closing
<1>5. Has(w, Circle) /\ Has(w, Proposal(p)) /\ Closes(w, p, status, t)
  BY <1>3 DEF Closing, Closes
<1>6. Right(Apply(db, w), p) /\ Stands(db, Apply(db, w), p)
  BY <1>5, ClosesRight
<1>7. CircleRight(Apply(db, w))
  BY ClosingCircle
<1>. QED
  BY <1>3, <1>4, <1>5, <1>6, <1>7, PendingOne

LEMMA ActiveFacts ==
  ASSUME Consistent(db), NEW p, IsActive(p)
  PROVE  /\ p \in Proposals /\ p \in ActiveSet(db) /\ ActiveIn(db, p)
         /\ Has(db, Proposal(p)) /\ db[Proposal(p)] \in ProposalDoc
         /\ db[Proposal(p)].status \in Active /\ Right(db, p)
         /\ db[Circle] \in CircleDoc
BY DEF IsActive, Existing, ActiveSet, ActiveIn, Consistent, Typed

LEMMA CloseIsClosing ==
  ASSUME NEW p, ~IsHeld(p), NEW status, status # "ACCEPTED", NEW t
  PROVE  Closing(Close(p, status, t), p, status, t)
<1>1. Proposal(p) # Circle
  BY DEF Proposal, Circle
<1>. QED
  BY <1>1, TwoDocuments DEF Close, Closing, LessOne

LEMMA WithdrawProposalPending ==
  ASSUME ProposalInvariant, NEW s, NEW p, WithdrawProposal(s, p)
  PROVE  \E w : Begin(s, w) /\ Pending(db, w)
<1>1. IsActive(p) /\ ~IsHeld(p) /\ Begin(s, Close(p, "WITHDRAWN", now))
  BY DEF WithdrawProposal, Discussing, InTime
<1>2. Consistent(db) /\ now \in Nat
  BY ProposalAssumption DEF ProposalInvariant
<1>3. Pending(db, Close(p, "WITHDRAWN", now))
  BY <1>1, <1>2, ActiveFacts, CloseIsClosing, ClosingPending DEF Closed, Justified
<1>. QED
  BY <1>1, <1>3

LEMMA ModerateProposalPending ==
  ASSUME ProposalInvariant, NEW s, NEW p, ModerateProposal(s, p)
  PROVE  \E w : Begin(s, w) /\ Pending(db, w)
<1>1. IsActive(p) /\ ~IsHeld(p) /\ Begin(s, Close(p, "MODERATED", now))
  BY DEF ModerateProposal, Moderatable, InTime
<1>2. Consistent(db) /\ now \in Nat
  BY ProposalAssumption DEF ProposalInvariant
<1>3. Pending(db, Close(p, "MODERATED", now))
  BY <1>1, <1>2, ActiveFacts, CloseIsClosing, ClosingPending DEF Closed, Justified
<1>. QED
  BY <1>1, <1>3

(* A proposal that stays active, on hold or not, and whose participation   *)
(* is written with it.                                                     *)
LEMMA StancePending ==
  ASSUME Consistent(db), NEW p, IsActive(p), db[Proposal(p)].status = "DISCUSSION",
         NEW m \in Members, NEW stance \in Stances \cup {"WITHDRAWN"}
  PROVE  Pending(db, Apply(Touch(p), Put(Stance(p, db[Proposal(p)].rev, m), stance)))
<1>. DEFINE d == db[Proposal(p)]  id == Stance(p, d.rev, m)
            w == Apply(Touch(p), Put(id, stance))  e == Apply(db, w)
<1>1. /\ p \in Proposals /\ Has(db, Proposal(p)) /\ d \in ProposalDoc
      /\ d.status \in Active /\ Right(db, p) /\ ActiveIn(db, p) /\ d.rev \in Revisions
  BY ActiveFacts DEF ProposalDoc
<1>2. Proposal(p) # id
  BY DEF Proposal, Stance
<1>3. /\ \A x : Has(w, x) <=> (x = Proposal(p) \/ x = id)
      /\ w[Proposal(p)] = d /\ w[id] = stance
  BY <1>2, TwoDocuments DEF Touch
<1>. HIDE DEF w
<1>4. Has(e, Proposal(p)) /\ e[Proposal(p)] = d
  BY <1>3, ApplyFacts
<1>5. Typed(w)
  BY <1>1, <1>3 DEF Typed, Proposal, Stance, Vote, Circle
<1>6. /\ \A r \in Revisions : ~Has(w, Case(p, r))
      /\ \A o \in Members : ~Has(w, Vote(p, o))
      /\ \A r \in Revisions, o \in Members : Has(w, Stance(p, r, o)) => r = d.rev
  BY <1>3 DEF Proposal, Stance, Vote, Case
<1>7. \A x : Has(w, x) => x \in About(p)
  BY <1>1, <1>3, AboutParts
<1>8. ~Has(w, Circle)
  BY <1>7, Distinct
<1>9. Linked(e, p)
  BY <1>1, <1>4, <1>6, ApplyFacts DEF Right, Linked, Revisions
<1>10. VotersIn(e, p, "APPROVE") = VotersIn(db, p, "APPROVE")
       /\ VotersIn(e, p, "REJECT") = VotersIn(db, p, "REJECT")
  BY <1>6, ApplyFacts DEF VotersIn
<1>11. Tallied(e, p)
  BY <1>1, <1>4, <1>10 DEF Right, Tallied
<1>12. Decided(e, p)
  BY <1>1, <1>4 DEF Right, Decided
<1>13. Held(e, p) /\ Scheduled(e, p)
  BY <1>1, <1>4, <1>6, ApplyFacts DEF Right, Held, Scheduled
<1>14. Stands(db, e, p)
  BY <1>1, <1>4 DEF Stands, Frozen
<1>. HIDE DEF e
<1>15. Right(e, p)
  BY <1>9, <1>11, <1>12, <1>13 DEF Right
<1>16. Pending(db, w)
  BY <1>1, <1>3, <1>5, <1>7, <1>8, <1>14, <1>15, PendingOne DEF e
<1>. QED
  BY <1>16 DEF w

(* A proposal that stays active without a word of its members.             *)
LEMMA StaysPending ==
  ASSUME Consistent(db), NEW p, IsActive(p), NEW w, Has(w, Proposal(p)),
         \A id : Has(w, id) => id = Proposal(p) \/ \E r \in Revisions : id = Case(p, r),
         w[Proposal(p)] \in ProposalDoc,
         LET x == db[Proposal(p)]  y == w[Proposal(p)]
         IN  /\ y.status \in Active /\ y.base = x.base /\ y.rev = x.rev
             /\ y.quorum = x.quorum /\ y.approve = x.approve /\ y.reject = x.reject
             /\ y.status = "DISCUSSION" => y.voting = Null
             /\ y.status = "VOTING" => y.voting # Null
             /\ y.voting # Null =>
                  x.voting # Null \/ (SupportedIn(db, p) /\ ObjectedIn(db, p)),
         Scheduled(w, p), Held(Apply(db, w), p), Frozen(db, Apply(db, w), p)
  PROVE  Pending(db, w)
<1>. DEFINE d == db[Proposal(p)]  e == Apply(db, w)
<1>1. /\ p \in Proposals /\ Has(db, Proposal(p)) /\ d \in ProposalDoc
      /\ d.status \in Active /\ Right(db, p) /\ ActiveIn(db, p) /\ d.rev \in Revisions
  BY ActiveFacts DEF ProposalDoc
<1>2. Has(e, Proposal(p)) /\ e[Proposal(p)] = w[Proposal(p)]
  BY ApplyFacts
<1>3. /\ \A q \in Proposals : Has(w, Proposal(q)) => q = p
      /\ \A q \in Proposals, m \in Members : ~Has(w, Vote(q, m))
      /\ \A q \in Proposals, r \in Revisions, m \in Members : ~Has(w, Stance(q, r, m))
      /\ ~Has(w, Circle)
      /\ \A id : Has(w, id) => id \in About(p)
  BY AboutParts DEF Proposal, Vote, Stance, Case, Circle
<1>4. Typed(w)
  BY <1>3 DEF Typed
<1>5. Linked(e, p)
  BY <1>1, <1>2, <1>3, ApplyFacts DEF Right, Linked
<1>6. /\ \A choice : VotersIn(e, p, choice) = VotersIn(db, p, choice)
      /\ SupportedIn(e, p) <=> SupportedIn(db, p)
      /\ ObjectedIn(e, p) <=> ObjectedIn(db, p)
  BY <1>1, <1>2, <1>3, SameParticipation
<1>. HIDE DEF e
<1>7. Tallied(e, p)
  BY <1>1, <1>2, <1>6 DEF Right, Tallied
<1>8. Decided(e, p)
  BY <1>1, <1>2, <1>6 DEF Right, Decided, Active
<1>9. Scheduled(e, p)
  BY <1>2 DEF Scheduled
<1>10. Right(e, p)
  BY <1>5, <1>7, <1>8, <1>9 DEF Right, e
<1>11. Stands(db, e, p)
  BY <1>1 DEF Stands, e
<1>. QED
  BY <1>1, <1>3, <1>4, <1>10, <1>11, PendingOne DEF e

LEMMA TouchPending ==
  ASSUME Consistent(db), NEW p, IsActive(p)
  PROVE  Pending(db, Touch(p))
<1>. DEFINE d == db[Proposal(p)]  w == Touch(p)  e == Apply(db, w)
<1>1. /\ p \in Proposals /\ Has(db, Proposal(p)) /\ d \in ProposalDoc
      /\ d.status \in Active /\ Right(db, p)
  BY ActiveFacts
<1>2. (\A x : Has(w, x) <=> x = Proposal(p)) /\ w[Proposal(p)] = d
  BY OneDocument DEF Touch
<1>. HIDE DEF w
<1>3. /\ e[Proposal(p)] = d
      /\ \A r \in Revisions : /\ Has(e, Case(p, r)) <=> Has(db, Case(p, r))
                              /\ Has(db, Case(p, r)) => e[Case(p, r)] = db[Case(p, r)]
  BY <1>2, ApplyFacts DEF Proposal, Case
<1>. HIDE DEF e
<1>4. Held(e, p) /\ Frozen(db, e, p)
  BY <1>1, <1>3 DEF Right, Held, Frozen
<1>5. Scheduled(w, p)
  BY <1>1, <1>2 DEF Right, Scheduled
<1>6. Pending(db, w)
  BY <1>1, <1>2, <1>4, <1>5, StaysPending DEF Right, Decided, e
<1>. QED
  BY <1>6 DEF w

LEMMA SetStancePending ==
  ASSUME ProposalInvariant, NEW s, NEW p, NEW m \in Members, NEW stance \in Stances,
         SetStance(s, p, m, stance)
  PROVE  \E w : Begin(s, w) /\ Pending(db, w)
<1>1. IsActive(p) /\ db[Proposal(p)].status = "DISCUSSION" /\ Consistent(db)
  BY DEF SetStance, Discussing, InTime, ProposalInvariant
<1>. QED
  BY <1>1, StancePending DEF SetStance

LEMMA WithdrawStancePending ==
  ASSUME ProposalInvariant, NEW s, NEW p, NEW m \in Members, WithdrawStance(s, p, m)
  PROVE  \E w : Begin(s, w) /\ Pending(db, w)
<1>1. IsActive(p) /\ db[Proposal(p)].status = "DISCUSSION" /\ Consistent(db)
  BY DEF WithdrawStance, Discussing, InTime, ProposalInvariant
<1>. QED
  BY <1>1, StancePending, TouchPending DEF WithdrawStance

LEMMA OpenCasePending ==
  ASSUME ProposalInvariant, NEW s, NEW p, NEW r \in Revisions, OpenCase(s, p, r)
  PROVE  \E w : Begin(s, w) /\ Pending(db, w)
<1>. DEFINE d == db[Proposal(p)]  x == [d EXCEPT !.held = r, !.next = Null]
            w == Apply(Put(Case(p, r), "OPEN"), Put(Proposal(p), x))  e == Apply(db, w)
<1>1. /\ IsActive(p) /\ d.held = Free /\ Begin(s, w) /\ Consistent(db)
      /\ ~Has(db, Case(p, r))
  BY DEF OpenCase, InTime, IsHeld, ProposalInvariant
<1>2. /\ p \in Proposals /\ Has(db, Proposal(p)) /\ d \in ProposalDoc
      /\ d.status \in Active /\ Right(db, p)
  BY <1>1, ActiveFacts
<1>3. x \in ProposalDoc
  BY <1>2, Zenon DEF ProposalDoc
<1>4. /\ x.held = r /\ x.status = d.status /\ x.base = d.base /\ x.rev = d.rev
      /\ x.quorum = d.quorum /\ x.approve = d.approve /\ x.reject = d.reject
      /\ x.voting = d.voting
  BY <1>2 DEF ProposalDoc
<1>5. Proposal(p) # Case(p, r)
  BY DEF Proposal, Case
<1>6. /\ \A id : Has(w, id) <=> (id = Case(p, r) \/ id = Proposal(p))
      /\ w[Proposal(p)] = x /\ w[Case(p, r)] = "OPEN"
  BY <1>5, TwoDocuments
<1>. HIDE DEF w, x
<1>7. /\ e[Proposal(p)] = x /\ Has(e, Case(p, r)) /\ e[Case(p, r)] = "OPEN"
      /\ \A o \in Revisions : o # r =>
           /\ Has(e, Case(p, o)) <=> Has(db, Case(p, o))
           /\ Has(db, Case(p, o)) => e[Case(p, o)] = db[Case(p, o)]
  BY <1>6, ApplyFacts DEF Proposal, Case
<1>. HIDE DEF e
<1>8. Held(e, p)
  BY <1>1, <1>2, <1>4, <1>7 DEF Right, Held, Revisions, Free
<1>9. Frozen(db, e, p)
  BY <1>1 DEF Frozen
<1>10. Scheduled(w, p)
  BY <1>4, <1>6 DEF Scheduled, Revisions, Free
<1>11. Pending(db, w)
  BY <1>1, <1>2, <1>3, <1>4, <1>6, <1>8, <1>9, <1>10, StaysPending DEF Right, Decided, e
<1>. QED
  BY <1>1, <1>11

LEMMA ReleasePending ==
  ASSUME ProposalInvariant, NEW s, NEW p, NEW r \in Revisions, HeldBy(p, r),
         Begin(s, Apply(Put(Case(p, r), "RESOLVED_NOT_VIOLATION"), Release(p))),
         db[Circle].kind # "OFFICIAL"
  PROVE  \E w : Begin(s, w) /\ Pending(db, w)
<1>. DEFINE d == db[Proposal(p)]
            x == [d EXCEPT !.held = Free, !.next = Min({PhaseDeadline(d), d.expires})]
            w == Apply(Put(Case(p, r), "RESOLVED_NOT_VIOLATION"), Put(Proposal(p), x))
            e == Apply(db, w)
<1>1. IsActive(p) /\ d.held = r /\ Begin(s, w) /\ Consistent(db)
  BY DEF HeldBy, Release, ProposalInvariant
<1>2. /\ p \in Proposals /\ Has(db, Proposal(p)) /\ d \in ProposalDoc
      /\ d.status \in Active /\ Right(db, p)
  BY <1>1, ActiveFacts
<1>3. PhaseDeadline(d) \in Nat /\ d.expires \in Nat
  BY <1>2 DEF PhaseDeadline, ProposalDoc, Right, Decided, Active
<1>4. Min({PhaseDeadline(d), d.expires}) \in Nat
  BY <1>3, Smaller
<1>5. x \in ProposalDoc
  BY <1>2, <1>4, Zenon DEF ProposalDoc
<1>6. /\ x.held = Free /\ x.status = d.status /\ x.base = d.base /\ x.rev = d.rev
      /\ x.quorum = d.quorum /\ x.approve = d.approve /\ x.reject = d.reject
      /\ x.voting = d.voting /\ x.discussion = d.discussion /\ x.expires = d.expires
      /\ x.next = Min({PhaseDeadline(d), d.expires})
  BY <1>2 DEF ProposalDoc
<1>7. Proposal(p) # Case(p, r)
  BY DEF Proposal, Case
<1>8. /\ \A id : Has(w, id) <=> (id = Case(p, r) \/ id = Proposal(p))
      /\ w[Proposal(p)] = x /\ w[Case(p, r)] = "RESOLVED_NOT_VIOLATION"
  BY <1>7, TwoDocuments
<1>. HIDE DEF w, x
<1>9. /\ e[Proposal(p)] = x /\ e[Case(p, r)] = "RESOLVED_NOT_VIOLATION"
      /\ \A o \in Revisions : o # r =>
           /\ Has(e, Case(p, o)) <=> Has(db, Case(p, o))
           /\ Has(db, Case(p, o)) => e[Case(p, o)] = db[Case(p, o)]
  BY <1>8, ApplyFacts DEF Proposal, Case
<1>. HIDE DEF e
<1>10. Held(e, p)
  BY <1>1, <1>2, <1>6, <1>9 DEF Right, Held, Revisions, Free
<1>11. Frozen(db, e, p)
  BY <1>1, <1>2, <1>9 DEF Right, Held, Frozen
<1>12. Scheduled(w, p)
  BY <1>6, <1>8 DEF Scheduled, PhaseDeadline
<1>13. Pending(db, w)
  BY <1>1, <1>2, <1>5, <1>6, <1>8, <1>10, <1>11, <1>12, StaysPending DEF Right, Decided, e
<1>. QED
  BY <1>1, <1>13

LEMMA CloseWithCase ==
  ASSUME NEW p, NEW r \in Revisions, db[Proposal(p)].held = r,
         NEW verdict, verdict # "OPEN", NEW status, status # "ACCEPTED", NEW t
  PROVE  Closing(Apply(Put(Case(p, r), verdict), Close(p, status, t)), p, status, t)
<1>. DEFINE c == Close(p, status, t)  w == Apply(Put(Case(p, r), verdict), c)
<1>1. Proposal(p) # Circle /\ Case(p, r) # Circle /\ Case(p, r) # Proposal(p)
  BY DEF Proposal, Circle, Case
<1>2. /\ \A id : Has(c, id) <=> (id = Proposal(p) \/ id = Circle)
      /\ c[Proposal(p)] = CloseAs(db[Proposal(p)], status, t)
      /\ c[Circle] = Fewer(db[Circle], 1)
  BY <1>1, TwoDocuments DEF Close
<1>. HIDE DEF c
<1>3. /\ \A id : Has(w, id) <=> (id = Case(p, r) \/ id = Proposal(p) \/ id = Circle)
      /\ w[Proposal(p)] = c[Proposal(p)] /\ w[Circle] = c[Circle]
      /\ w[Case(p, r)] = verdict
  BY <1>1, <1>2, OneDocument, ApplyFacts
<1>. HIDE DEF w
<1>4. Closing(w, p, status, t)
  BY <1>2, <1>3 DEF Closing, LessOne
<1>. QED
  BY <1>4 DEF w, c

LEMMA ResolveCasePending ==
  ASSUME ProposalInvariant, NEW s, NEW p, NEW r \in Revisions, ResolveCase(s, p, r)
  PROVE  \E w : Begin(s, w) /\ Pending(db, w)
<1>1. /\ HeldBy(p, r) /\ IsActive(p) /\ db[Proposal(p)].held = r
      /\ Consistent(db) /\ now \in Nat /\ p \in Proposals
  BY ProposalAssumption DEF ResolveCase, HeldBy, ProposalInvariant, IsActive, Existing
<1>2. CASE Begin(s, Apply(Put(Case(p, r), "RESOLVED_VIOLATION"), Close(p, "MODERATED", now)))
  <2>1. Pending(db, Apply(Put(Case(p, r), "RESOLVED_VIOLATION"), Close(p, "MODERATED", now)))
    BY <1>1, CloseWithCase, ClosingPending, ZenonT(60) DEF Closed, Justified
  <2>. QED
    BY <1>2, <2>1
<1>3. CASE Begin(s, Apply(Put(Case(p, r), "RESOLVED_NOT_VIOLATION"), Release(p)))
  <2>1. CASE db[Circle].kind = "OFFICIAL"
    <3>1. Release(p) = Close(p, "POLICY_DISABLED", now)
      BY <2>1 DEF Release
    <3>2. Pending(db, Apply(Put(Case(p, r), "RESOLVED_NOT_VIOLATION"),
                            Close(p, "POLICY_DISABLED", now)))
      BY <1>1, CloseWithCase, ClosingPending, ZenonT(60) DEF Closed, Justified
    <3>. QED
      BY <1>3, <3>1, <3>2
  <2>2. CASE db[Circle].kind # "OFFICIAL"
    BY <1>1, <1>3, <2>2, ReleasePending
  <2>. QED
    BY <2>1, <2>2
<1>. QED
  BY <1>2, <1>3 DEF ResolveCase

LEMMA CastVotePending ==
  ASSUME ProposalInvariant, NEW s, NEW p, NEW m \in Members, NEW choice \in VoteChoices,
         CastVote(s, p, m, choice)
  PROVE  \E w : Begin(s, w) /\ Pending(db, w)
<1>. DEFINE d == db[Proposal(p)]
            x == IF choice = "APPROVE" THEN [d EXCEPT !.approve = @ + 1]
                                       ELSE [d EXCEPT !.reject = @ + 1]
            w == Apply(Put(Vote(p, m), choice), Put(Proposal(p), x))
            e == Apply(db, w)
<1>1. /\ IsActive(p) /\ d.status = "VOTING" /\ Begin(s, w) /\ Consistent(db)
      /\ ~Has(db, Vote(p, m))
  BY DEF CastVote, InTime, ProposalInvariant
<1>2. /\ p \in Proposals /\ Has(db, Proposal(p)) /\ d \in ProposalDoc /\ ActiveIn(db, p)
      /\ d.status \in Active /\ Right(db, p) /\ d.rev \in Revisions
  BY <1>1, ActiveFacts DEF ProposalDoc
<1>3. /\ x \in ProposalDoc
      /\ x.held = d.held /\ x.status = d.status /\ x.base = d.base /\ x.rev = d.rev
      /\ x.quorum = d.quorum /\ x.voting = d.voting /\ x.discussion = d.discussion
      /\ x.expires = d.expires /\ x.next = d.next /\ x.resolved = d.resolved
      /\ x.approve = IF choice = "APPROVE" THEN d.approve + 1 ELSE d.approve
      /\ x.reject = IF choice = "APPROVE" THEN d.reject ELSE d.reject + 1
  BY <1>2 DEF ProposalDoc
<1>4. Proposal(p) # Vote(p, m)
  BY DEF Proposal, Vote
<1>5. /\ \A id : Has(w, id) <=> (id = Vote(p, m) \/ id = Proposal(p))
      /\ w[Proposal(p)] = x /\ w[Vote(p, m)] = choice
  BY <1>4, TwoDocuments
<1>. HIDE DEF w, x
<1>6. Has(e, Proposal(p)) /\ e[Proposal(p)] = x
  BY <1>5, ApplyFacts
<1>7. Typed(w)
  BY <1>3, <1>5 DEF Typed, Proposal, Stance, Vote, Circle
<1>8. /\ \A r \in Revisions : ~Has(w, Case(p, r))
      /\ \A o \in Members : Has(w, Vote(p, o)) <=> o = m
      /\ \A r \in Revisions, o \in Members : ~Has(w, Stance(p, r, o))
  BY <1>5 DEF Proposal, Stance, Vote, Case
<1>9. \A id : Has(w, id) => id \in About(p)
  BY <1>5, AboutParts
<1>10. ~Has(w, Circle)
  BY <1>9, Distinct
<1>11. Linked(e, p)
  BY <1>2, <1>3, <1>6, <1>8, ApplyFacts DEF Right, Linked
<1>12. /\ VotersIn(e, p, choice) = VotersIn(db, p, choice) \cup {m}
       /\ m \notin VotersIn(db, p, choice)
       /\ \A c : c # choice => VotersIn(e, p, c) = VotersIn(db, p, c)
  BY <1>1, <1>5, <1>8, ApplyFacts DEF VotersIn
<1>13. IsFiniteSet(VotersIn(db, p, choice))
  <2>1. VotersIn(db, p, choice) \subseteq Members
    BY DEF VotersIn
  <2>. QED
    BY <2>1, FS_Subset, ProposalAssumption
<1>14. Cardinality(VotersIn(e, p, choice)) = Cardinality(VotersIn(db, p, choice)) + 1
  BY <1>12, <1>13, FS_AddElement
<1>. HIDE DEF e
<1>15. Tallied(e, p)
  BY <1>2, <1>3, <1>6, <1>12, <1>14 DEF Right, Tallied, VoteChoices
<1>16. \A r \in Revisions : \A stance : StandingIn(e, p, r, stance) = StandingIn(db, p, r, stance)
  BY <1>8, ApplyFacts DEF StandingIn, e
<1>17. /\ SupportedIn(e, p) <=> SupportedIn(db, p)
       /\ ObjectedIn(e, p) <=> ObjectedIn(db, p)
  BY <1>2, <1>3, <1>6, <1>16 DEF SupportedIn, ObjectedIn
<1>18. Decided(e, p)
  BY <1>1, <1>2, <1>3, <1>6, <1>17 DEF Right, Decided
<1>19. Held(e, p)
  BY <1>2, <1>3, <1>6, <1>8, ApplyFacts DEF Right, Held, e
<1>20. Scheduled(e, p)
  BY <1>2, <1>3, <1>6 DEF Right, Scheduled, PhaseDeadline
<1>21. Stands(db, e, p)
  BY <1>2, <1>3, <1>6 DEF Stands, Frozen
<1>22. Right(e, p)
  BY <1>11, <1>15, <1>18, <1>19, <1>20 DEF Right
<1>23. Pending(db, w)
  BY <1>2, <1>3, <1>5, <1>7, <1>9, <1>10, <1>21, <1>22, PendingOne DEF e
<1>. QED
  BY <1>1, <1>23

LEMMA RevisePending ==
  ASSUME ProposalInvariant, NEW s, NEW p, Revise(s, p)
  PROVE  \E w : Begin(s, w) /\ Pending(db, w)
<1>. DEFINE d == db[Proposal(p)]
            x == [d EXCEPT !.rev = @ + 1, !.discussion = now + Phase,
                           !.next = Min({now + Phase, d.expires})]
            id == Stance(p, d.rev + 1, d.creator)
            w == Apply(Put(Proposal(p), x), Put(id, "SUPPORT"))
            e == Apply(db, w)
<1>1. /\ IsActive(p) /\ d.status = "DISCUSSION" /\ Begin(s, w) /\ Consistent(db)
      /\ d.held = Free /\ d.rev < MaxRevision /\ now \in Nat /\ Phase \in Nat
  BY ProposalAssumption DEF Revise, InTime, IsHeld, ProposalInvariant
<1>2. /\ p \in Proposals /\ Has(db, Proposal(p)) /\ d \in ProposalDoc /\ ActiveIn(db, p)
      /\ d.status \in Active /\ Right(db, p)
  BY <1>1, ActiveFacts
<1>3. /\ d.rev \in Revisions /\ d.rev + 1 \in Revisions /\ d.creator \in Members
      /\ now + Phase \in Nat /\ d.expires \in Nat
      /\ Min({now + Phase, d.expires}) \in Nat
  <2>1. d.rev \in Revisions /\ d.creator \in Members /\ d.expires \in Nat
    BY <1>2 DEF ProposalDoc
  <2>2. d.rev + 1 \in Revisions
    BY <2>1, <1>1, ProposalAssumption DEF Revisions
  <2>3. now + Phase \in Nat
    BY <1>1
  <2>. HIDE DEF d
  <2>4. Min({now + Phase, d.expires}) \in Nat
    BY <2>1, <2>3, Smaller
  <2>. QED
    BY <2>1, <2>2, <2>3, <2>4
<1>4. x \in ProposalDoc
  BY <1>2, <1>3, Zenon DEF ProposalDoc
<1>5. /\ x.held = d.held /\ x.status = d.status /\ x.base = d.base
      /\ x.rev = d.rev + 1 /\ x.discussion = now + Phase /\ x.expires = d.expires
      /\ x.next = Min({now + Phase, d.expires})
      /\ x.voting = d.voting /\ x.approve = d.approve /\ x.reject = d.reject
  BY <1>2 DEF ProposalDoc
<1>6. Proposal(p) # id
  BY DEF Proposal, Stance
<1>7. /\ \A y : Has(w, y) <=> (y = Proposal(p) \/ y = id)
      /\ w[Proposal(p)] = x /\ w[id] = "SUPPORT"
  BY <1>6, TwoDocuments
<1>. HIDE DEF w, x
<1>8. Has(e, Proposal(p)) /\ e[Proposal(p)] = x
  BY <1>7, ApplyFacts
<1>9. Typed(w)
  BY <1>4, <1>7 DEF Typed, Proposal, Stance, Vote, Circle, Stances
<1>10. /\ \A r \in Revisions : ~Has(w, Case(p, r))
       /\ \A o \in Members : ~Has(w, Vote(p, o))
       /\ \A r \in Revisions, o \in Members : Has(w, Stance(p, r, o)) => r = d.rev + 1
  BY <1>7 DEF Proposal, Stance, Vote, Case
<1>11. \A y : Has(w, y) => y \in About(p)
  BY <1>3, <1>7, AboutParts
<1>12. ~Has(w, Circle)
  BY <1>11, Distinct
<1>13. Linked(e, p)
  <2>1. ASSUME NEW r \in Revisions, NEW m \in Members, Has(e, Stance(p, r, m))
        PROVE  r <= x.rev
    <3>1. r = d.rev + 1 \/ r <= d.rev
      BY <2>1, <1>2, <1>10, ApplyFacts DEF Right, Linked
    <3>. QED
      BY <3>1, <1>3, <1>5 DEF Revisions
  <2>. QED
    BY <2>1, <1>2, <1>8, <1>10, ApplyFacts DEF Right, Linked
<1>14. VotersIn(e, p, "APPROVE") = VotersIn(db, p, "APPROVE")
       /\ VotersIn(e, p, "REJECT") = VotersIn(db, p, "REJECT")
  BY <1>10, ApplyFacts DEF VotersIn
<1>15. Held(e, p)
  BY <1>2, <1>5, <1>8, <1>10, ApplyFacts DEF Right, Held
<1>. HIDE DEF e
<1>16. Tallied(e, p)
  BY <1>2, <1>5, <1>8, <1>14 DEF Right, Tallied
<1>17. Decided(e, p)
  BY <1>1, <1>2, <1>5, <1>8 DEF Right, Decided
<1>18. Scheduled(e, p)
  BY <1>1, <1>5, <1>8 DEF Scheduled, PhaseDeadline
<1>19. Stands(db, e, p)
  BY <1>1, <1>2 DEF Stands, Frozen
<1>20. Right(e, p)
  BY <1>13, <1>15, <1>16, <1>17, <1>18 DEF Right
<1>21. Pending(db, w)
  BY <1>2, <1>5, <1>7, <1>9, <1>11, <1>12, <1>19, <1>20, PendingOne DEF e
<1>. QED
  BY <1>1, <1>21

(* What the deadline decides.                                              *)
LEMMA OutcomeJustified ==
  ASSUME Consistent(db), NEW p, IsActive(p), NEW t \in Nat, Outcome(p, t) # "VOTING"
  PROVE  Outcome(p, t) \in Closed /\ Justified(p, Outcome(p, t), t)
<1>. DEFINE d == db[Proposal(p)]
<1>1. /\ p \in Proposals /\ d \in ProposalDoc /\ d.status \in Active /\ Right(db, p)
      /\ Has(db, Proposal(p))
  BY ActiveFacts
<1>2. /\ d.voting # Null <=> d.status = "VOTING"
      /\ d.quorum \in Nat /\ d.expires \in Nat /\ d.rev \in Revisions
  BY <1>1, ProposalAssumption DEF Right, Decided, Active, ProposalDoc
<1>3. Carried(d) <=> VotedForIn(db, p)
  <2>1. d.approve \in Nat /\ d.reject \in Nat /\ Tallied(db, p)
    BY <1>1 DEF Right, ProposalDoc
  <2>. QED
    BY <2>1, <1>2 DEF Carried, VotedForIn, Tallied
<1>4. \A stance : Standing(p, d.rev, stance) = StandingIn(db, p, d.rev, stance)
  BY DEF Standing, StandingIn
<1>5. /\ Cardinality(Standing(p, d.rev, "SUPPORT")) < d.quorum <=> ~SupportedIn(db, p)
      /\ Standing(p, d.rev, "OBJECTION") = {} <=> ~ObjectedIn(db, p)
  <2>1. IsFiniteSet(StandingIn(db, p, d.rev, "SUPPORT"))
    <3>1. StandingIn(db, p, d.rev, "SUPPORT") \subseteq Members
      BY DEF StandingIn
    <3>. QED
      BY <3>1, FS_Subset, ProposalAssumption
  <2>2. Cardinality(StandingIn(db, p, d.rev, "SUPPORT")) \in Nat
    BY <2>1, FS_CardinalityType
  <2>. QED
    BY <2>2, <1>2, <1>4 DEF SupportedIn, ObjectedIn
<1>. HIDE DEF d
<1>6. Phase \in Nat
  BY ProposalAssumption
<1>. QED
  BY <1>2, <1>3, <1>5, <1>6 DEF Outcome, Justified, Closed, d

LEMMA ToVoteJustified ==
  ASSUME NEW p, NEW t, Consistent(db), IsActive(p), Outcome(p, t) = "VOTING"
  PROVE  /\ SupportedIn(db, p) /\ ObjectedIn(db, p)
<1>. DEFINE d == db[Proposal(p)]
<1>1. d \in ProposalDoc /\ d.quorum \in Nat
  BY ActiveFacts, ProposalAssumption DEF ProposalDoc
<1>2. \A stance : Standing(p, d.rev, stance) = StandingIn(db, p, d.rev, stance)
  BY DEF Standing, StandingIn
<1>3. Cardinality(StandingIn(db, p, d.rev, "SUPPORT")) \in Nat
  <2>1. StandingIn(db, p, d.rev, "SUPPORT") \subseteq Members
    BY DEF StandingIn
  <2>. QED
    BY <2>1, FS_Subset, FS_CardinalityType, ProposalAssumption
<1>. QED
  BY <1>1, <1>2, <1>3 DEF Outcome, SupportedIn, ObjectedIn

LEMMA AcceptIsClosing ==
  ASSUME NEW p, ~IsHeld(p), NEW t, db[Circle].version[p[1]] = db[Proposal(p)].base
  PROVE  Closing(Accept(p, t), p, "ACCEPTED", t)
<1>. DEFINE c == Close(p, "ACCEPTED", t)
            x == [Fewer(db[Circle], 1) EXCEPT !.version[p[1]] = @ + 1]
            w == Apply(c, Put(Circle, x))
<1>1. Proposal(p) # Circle
  BY DEF Proposal, Circle
<1>2. /\ \A id : Has(c, id) <=> (id = Proposal(p) \/ id = Circle)
      /\ c[Proposal(p)] = CloseAs(db[Proposal(p)], "ACCEPTED", t)
  BY <1>1, TwoDocuments DEF Close
<1>3. Accept(p, t) = w /\ x = LessOne(p, "ACCEPTED")
  BY DEF Accept, LessOne
<1>. HIDE DEF c, x
<1>4. /\ \A id : Has(w, id) <=> (id = Proposal(p) \/ id = Circle)
      /\ w[Proposal(p)] = c[Proposal(p)] /\ w[Circle] = x
  BY <1>1, <1>2, OneDocument, ApplyFacts
<1>. HIDE DEF w
<1>5. Closing(w, p, "ACCEPTED", t)
  BY <1>2, <1>3, <1>4 DEF Closing
<1>. QED
  BY <1>3, <1>5

LEMMA ToVotePending ==
  ASSUME ProposalInvariant, NEW p, IsActive(p), ~IsHeld(p), NEW t \in Nat,
         Outcome(p, t) = "VOTING"
  PROVE  LET d == db[Proposal(p)]
         IN  Pending(db, Put(Proposal(p),
                             [d EXCEPT !.status = "VOTING", !.voting = t + Phase,
                                       !.next = Min({t + Phase, d.expires})]))
<1>. DEFINE d == db[Proposal(p)]
            x == [d EXCEPT !.status = "VOTING", !.voting = t + Phase,
                           !.next = Min({t + Phase, d.expires})]
            w == Put(Proposal(p), x)
            e == Apply(db, w)
<1>1. /\ p \in Proposals /\ Has(db, Proposal(p)) /\ d \in ProposalDoc
      /\ d.status \in Active /\ Right(db, p) /\ d.held = Free /\ Consistent(db)
  BY ActiveFacts DEF ProposalInvariant, IsHeld
<1>2. SupportedIn(db, p) /\ ObjectedIn(db, p)
  BY <1>1, ToVoteJustified
<1>3. t + Phase \in Nat /\ d.expires \in Nat
  BY <1>1, ProposalAssumption DEF ProposalDoc
<1>4. Min({t + Phase, d.expires}) \in Nat
  <2>. HIDE DEF d
  <2>. QED
    BY <1>3, Smaller
<1>5. "VOTING" \in Active /\ "VOTING" \in Active \cup Closed /\ t + Phase # Null
  BY <1>3 DEF Active, Null
<1>6. x \in ProposalDoc
  BY <1>1, <1>3, <1>4, <1>5, Zenon DEF ProposalDoc
<1>7. /\ x.held = Free /\ x.status = "VOTING" /\ x.base = d.base /\ x.rev = d.rev
      /\ x.quorum = d.quorum /\ x.approve = d.approve /\ x.reject = d.reject
      /\ x.voting = t + Phase /\ x.expires = d.expires
      /\ x.next = Min({t + Phase, d.expires})
  BY <1>1 DEF ProposalDoc
<1>8. (\A id : Has(w, id) <=> id = Proposal(p)) /\ w[Proposal(p)] = x
  BY OneDocument
<1>. HIDE DEF w, x
<1>9. /\ e[Proposal(p)] = x
      /\ \A r \in Revisions : /\ Has(e, Case(p, r)) <=> Has(db, Case(p, r))
                              /\ Has(db, Case(p, r)) => e[Case(p, r)] = db[Case(p, r)]
  BY <1>8, ApplyFacts DEF Proposal, Case
<1>. HIDE DEF e
<1>10. Held(e, p)
  BY <1>1, <1>5, <1>7, <1>9 DEF Right, Held, Revisions, Free
<1>11. Frozen(db, e, p)
  BY <1>1 DEF Frozen
<1>12. Scheduled(w, p)
  BY <1>7, <1>8 DEF Scheduled, PhaseDeadline
<1>13. Pending(db, w)
  BY <1>1, <1>2, <1>5, <1>6, <1>7, <1>8, <1>10, <1>11, <1>12, StaysPending DEF e
<1>. QED
  BY <1>13 DEF w, x

LEMMA AdvancePending ==
  ASSUME ProposalInvariant, NEW s, NEW p, AdvanceClaimedDeadline(s, p)
  PROVE  \E w : Begin(s, w) /\ Pending(db, w)
<1>1. /\ IsActive(p) /\ ~IsHeld(p) /\ Consistent(db) /\ db[Proposal(p)] \in ProposalDoc
      /\ p \in Proposals /\ p \in ActiveSet(db) /\ db[Proposal(p)].next # Null
  BY ActiveFacts DEF AdvanceClaimedDeadline, ProposalInvariant
<1>2. PICK t \in db[Proposal(p)].next..now :
        \/ Outcome(p, t) = "ACCEPTED" /\ Begin(s, Accept(p, t))
        \/ /\ Outcome(p, t) = "VOTING"
           /\ Begin(s, Put(Proposal(p),
                [db[Proposal(p)] EXCEPT !.status = "VOTING", !.voting = t + Phase,
                   !.next = Min({t + Phase, db[Proposal(p)].expires})]))
        \/ /\ Outcome(p, t) # "VOTING" /\ Outcome(p, t) # "ACCEPTED"
           /\ Begin(s, Close(p, Outcome(p, t), t))
  BY Zenon DEF AdvanceClaimedDeadline
<1>3. t \in Nat
  BY <1>1, ProposalAssumption DEF ProposalDoc, ProposalInvariant
<1>4. CASE Outcome(p, t) = "ACCEPTED" /\ Begin(s, Accept(p, t))
  <2>1. db[Circle].version[p[1]] = db[Proposal(p)].base
    BY <1>1 DEF Consistent, CircleRight
  <2>2. Closing(Accept(p, t), p, "ACCEPTED", t)
    BY <1>1, <2>1, AcceptIsClosing
  <2>3. Pending(db, Accept(p, t))
    BY <1>1, <1>3, <1>4, <2>2, OutcomeJustified, ClosingPending
  <2>. QED
    BY <1>4, <2>3
<1>5. CASE /\ Outcome(p, t) = "VOTING"
           /\ Begin(s, Put(Proposal(p),
                [db[Proposal(p)] EXCEPT !.status = "VOTING", !.voting = t + Phase,
                   !.next = Min({t + Phase, db[Proposal(p)].expires})]))
  BY <1>1, <1>3, <1>5, ToVotePending
<1>6. CASE /\ Outcome(p, t) # "VOTING" /\ Outcome(p, t) # "ACCEPTED"
           /\ Begin(s, Close(p, Outcome(p, t), t))
  <2>1. Pending(db, Close(p, Outcome(p, t), t))
    BY <1>1, <1>3, <1>6, OutcomeJustified, CloseIsClosing, ClosingPending
  <2>. QED
    BY <1>6, <2>1
<1>. QED
  BY <1>2, <1>4, <1>5, <1>6

(* An administrator ends the active proposals of the scopes S and changes  *)
(* the circle.                                                             *)
LEMMA ModerateScopesPending ==
  ASSUME ProposalInvariant, NEW S, S \subseteq Scopes, ScopesFree(S),
         NEW circle \in CircleDoc,
         circle.count = db[Circle].count, circle.kind = db[Circle].kind,
         \A sc \in Scopes : db[Circle].version[sc] <= circle.version[sc],
         \A sc \in Scopes \ S : db[Circle].version[sc] = circle.version[sc],
         circle.status = db[Circle].status \/ S = Scopes
  PROVE  Pending(db, ModerateScopes(S, circle))
<1>. DEFINE ended == {p \in Existing : p[1] \in S /\ IsActive(p)}
            c == [id \in {Proposal(p) : p \in ended} |-> CloseAs(db[id], "MODERATED", now)]
            new == Fewer(circle, Cardinality(ended))
            w == ModerateScopes(S, circle)
            e == Apply(db, w)
            old == db[Circle]
<1>1. /\ Consistent(db) /\ now \in Nat /\ CircleRight(db) /\ old \in CircleDoc
      /\ "MODERATED" \in Closed /\ "MODERATED" \notin Active
  BY ProposalAssumption DEF ProposalInvariant, Consistent, Typed, Closed, Active
<1>2. \A p \in ended : /\ p \in Proposals /\ IsActive(p) /\ ~IsHeld(p) /\ p[1] \in S
                       /\ Has(db, Proposal(p)) /\ db[Proposal(p)] \in ProposalDoc
  BY <1>1, ActiveFacts DEF ScopesFree, Moderatable, Existing
<1>3. \A p \in Proposals : p \in ended <=> p \in ActiveSet(db) /\ p[1] \in S
  BY DEF ActiveSet, ActiveIn, IsActive, Existing
<1>4. /\ \A id : Has(c, id) <=> \E p \in ended : id = Proposal(p)
      /\ \A p \in ended : c[Proposal(p)] = CloseAs(db[Proposal(p)], "MODERATED", now)
  BY DEF Has
<1>5. w = Apply(c, Put(Circle, new))
  BY DEF ModerateScopes
<1>. HIDE DEF c, w, ended
<1>6. \A p : Proposal(p) # Circle /\ \A q : Proposal(p) = Proposal(q) => p = q
  BY DEF Proposal, Circle
<1>7. /\ \A id : Has(w, id) <=> (id = Circle \/ \E p \in ended : id = Proposal(p))
      /\ \A p \in ended : w[Proposal(p)] = CloseAs(db[Proposal(p)], "MODERATED", now)
      /\ w[Circle] = new
  BY <1>4, <1>5, <1>6, OneDocument, ApplyFacts
<1>8. \A p : Has(w, Proposal(p)) <=> p \in ended
  BY <1>6, <1>7
<1>9. \A p \in ended : /\ w[Proposal(p)] \in ProposalDoc
                       /\ w[Proposal(p)].status = "MODERATED"
  BY <1>1, <1>2, <1>7, CloseFields
<1>10. /\ \A p, m : ~Has(w, Vote(p, m))
       /\ \A p, r, m : ~Has(w, Stance(p, r, m))
       /\ \A p, r : ~Has(w, Case(p, r))
  BY <1>7 DEF Circle, Proposal, Vote, Stance, Case
<1>11. ActiveSet(e) = ActiveSet(db) \ ended
  <2>1. \A p \in ended : ~ActiveIn(e, p)
    BY <1>1, <1>8, <1>9, ApplyFacts DEF ActiveIn
  <2>2. \A p \in Proposals \ ended : ActiveIn(e, p) <=> ActiveIn(db, p)
    BY <1>8, ApplyFacts DEF ActiveIn
  <2>. QED
    BY <2>1, <2>2 DEF ActiveSet
<1>12. /\ Cardinality(ended) \in Nat /\ Cardinality(ended) <= old.count
       /\ Cardinality(ActiveSet(e)) = old.count - Cardinality(ended)
  <2>1. ended \subseteq ActiveSet(db) /\ IsFiniteSet(ActiveSet(db))
    BY <1>2, <1>3, ProposalsFinite
  <2>2. ActiveSet(db) \cap ended = ended /\ IsFiniteSet(ended)
    BY <2>1, FS_Subset
  <2>3. Cardinality(ended) <= Cardinality(ActiveSet(db))
    BY <2>1, FS_Subset
  <2>4. Cardinality(ActiveSet(db) \ ended) = Cardinality(ActiveSet(db)) - Cardinality(ended)
    BY <2>1, <2>2, FS_Difference
  <2>. QED
    BY <1>1, <1>11, <2>2, <2>3, <2>4, FS_CardinalityType DEF CircleRight
<1>13. circle.count - Cardinality(ended) \in Nat /\ circle.count \in Nat
  BY <1>1, <1>12 DEF CircleDoc
<1>14. Max({0, circle.count - Cardinality(ended)}) = circle.count - Cardinality(ended)
  <2>. DEFINE n == circle.count - Cardinality(ended)
  <2>1. n \in Nat
    BY <1>13
  <2>. HIDE DEF n
  <2>2. Max({0, n}) = n
    BY <2>1, Larger
  <2>. QED
    BY <2>2 DEF n
<1>15. /\ new \in CircleDoc
       /\ new.count = circle.count - Cardinality(ended) /\ new.kind = circle.kind
       /\ new.status = circle.status /\ new.version = circle.version
  BY <1>13, <1>14 DEF Fewer, CircleDoc
<1>. HIDE DEF new
<1>16. Typed(w)
  BY <1>7, <1>8, <1>9, <1>10, <1>15 DEF Typed
<1>17. ASSUME NEW p \in Proposals, Has(w, Proposal(p))
       PROVE  Right(e, p) /\ Stands(db, e, p)
  <2>1. /\ p \in ended /\ IsActive(p) /\ ~IsHeld(p)
        /\ w[Proposal(p)] = CloseAs(db[Proposal(p)], "MODERATED", now)
    BY <1>2, <1>7, <1>8, <1>17
  <2>2. Closes(w, p, "MODERATED", now)
    BY <2>1, <1>10, <1>17 DEF Closes
  <2>3. Justified(p, "MODERATED", now)
    BY DEF Justified
  <2>. QED
    BY <1>1, <2>1, <2>2, <2>3, ClosesRight
<1>18. ASSUME NEW p \in Proposals, ~Has(w, Proposal(p))
       PROVE  \A id \in About(p) : ~Has(w, id)
  BY <1>7, <1>8, <1>18, Distinct
<1>19. e[Circle] = new
  BY <1>7, ApplyFacts
<1>20. ASSUME NEW p \in ActiveSet(e)
       PROVE  /\ p \in ActiveSet(db) /\ p[1] \in Scopes \ S
              /\ e[Proposal(p)] = db[Proposal(p)]
  <2>1. p \in ActiveSet(db) /\ p \notin ended /\ p \in Proposals /\ Has(db, Proposal(p))
    BY <1>11 DEF ActiveSet, ActiveIn
  <2>2. p[1] \in Scopes \ S
    BY <2>1, <1>3 DEF Proposals
  <2>. QED
    BY <2>1, <2>2, <1>8, ApplyFacts
<1>21. ASSUME NEW p \in Proposals, AcceptedIn(e, p)
       PROVE  /\ AcceptedIn(db, p) /\ p[1] \in Scopes
              /\ e[Proposal(p)] = db[Proposal(p)] /\ db[Proposal(p)].base \in Nat
  <2>1. p \notin ended
    BY <1>8, <1>9, <1>21, ApplyFacts DEF AcceptedIn
  <2>2. Has(db, Proposal(p)) /\ e[Proposal(p)] = db[Proposal(p)]
    BY <2>1, <1>8, <1>21, ApplyFacts DEF AcceptedIn
  <2>. QED
    BY <2>2, <1>1, <1>21 DEF AcceptedIn, Consistent, Typed, ProposalDoc, Proposals
<1>. HIDE DEF e
<1>22. CircleRight(e)
  <2>1. new.count = Cardinality(ActiveSet(e))
    BY <1>12, <1>15
  <2>2. \A p \in ActiveSet(e) : e[Proposal(p)].base = new.version[p[1]]
    BY <1>1, <1>15, <1>20 DEF CircleRight
  <2>3. ASSUME NEW p \in Proposals, AcceptedIn(e, p)
        PROVE  e[Proposal(p)].base < new.version[p[1]]
    <3>1. db[Proposal(p)].base < old.version[p[1]]
      BY <1>1, <1>21, <2>3 DEF CircleRight
    <3>2. old.version[p[1]] \in Nat /\ circle.version[p[1]] \in Nat
      BY <1>1, <1>21, <2>3 DEF CircleDoc
    <3>. QED
      BY <3>1, <3>2, <1>15, <1>21, <2>3
  <2>4. \A p, q \in Proposals :
          AcceptedIn(e, p) /\ AcceptedIn(e, q) /\ q[1] = p[1] /\ q # p =>
            e[Proposal(q)].base # e[Proposal(p)].base
    BY <1>1, <1>21 DEF CircleRight
  <2>5. \A p, q \in ActiveSet(e) : p[1] = q[1] => p = q
    BY <1>1, <1>20 DEF CircleRight
  <2>6. new.kind = "NORMAL" /\ new.status = "BANNED" => ActiveSet(e) = {}
    BY <1>1, <1>15, <1>20 DEF CircleRight
  <2>. QED
    BY <2>1, <2>2, <2>3, <2>4, <2>5, <2>6, <1>19 DEF CircleRight
<1>23. Pending(db, w)
  BY <1>7, <1>16, <1>17, <1>18, <1>22 DEF Pending, e
<1>. QED
  BY <1>23 DEF w

LEMMA UpdateCirclePending ==
  ASSUME ProposalInvariant, NEW s, NEW S \in SUBSET Scopes, UpdateCircle(s, S)
  PROVE  \E w : Begin(s, w) /\ Pending(db, w)
<1>. DEFINE x == [db[Circle] EXCEPT
                    !.version = [sc \in Scopes |-> IF sc \in S THEN @[sc] + 1 ELSE @[sc]]]
<1>1. db[Circle] \in CircleDoc
  BY DEF ProposalInvariant, Consistent, Typed
<1>2. /\ x \in CircleDoc
      /\ x.count = db[Circle].count /\ x.kind = db[Circle].kind
      /\ x.status = db[Circle].status
      /\ \A sc \in Scopes : x.version[sc] = IF sc \in S THEN db[Circle].version[sc] + 1
                                                        ELSE db[Circle].version[sc]
  BY <1>1 DEF CircleDoc
<1>3. \A sc \in Scopes : db[Circle].version[sc] \in Nat
  BY <1>1 DEF CircleDoc
<1>4. ScopesFree(S) /\ Begin(s, ModerateScopes(S, x))
  BY DEF UpdateCircle
<1>. HIDE DEF x
<1>5. Pending(db, ModerateScopes(S, x))
  BY <1>2, <1>3, <1>4, ModerateScopesPending
<1>. QED
  BY <1>4, <1>5

LEMMA BanCirclePending ==
  ASSUME ProposalInvariant, NEW s, BanCircle(s)
  PROVE  \E w : Begin(s, w) /\ Pending(db, w)
<1>. DEFINE x == [db[Circle] EXCEPT !.status = "BANNED"]
<1>1. db[Circle] \in CircleDoc
  BY DEF ProposalInvariant, Consistent, Typed
<1>2. /\ x \in CircleDoc
      /\ x.count = db[Circle].count /\ x.kind = db[Circle].kind
      /\ x.version = db[Circle].version
  BY <1>1 DEF CircleDoc
<1>3. \A sc \in Scopes : db[Circle].version[sc] \in Nat
  BY <1>1 DEF CircleDoc
<1>4. ScopesFree(Scopes) /\ Begin(s, ModerateScopes(Scopes, x))
  BY DEF BanCircle
<1>. HIDE DEF x
<1>5. Pending(db, ModerateScopes(Scopes, x))
  BY <1>2, <1>3, <1>4, ModerateScopesPending
<1>. QED
  BY <1>4, <1>5

(* Nothing is active in a banned circle, unless it is an official one.     *)
LEMMA UnbanCirclePending ==
  ASSUME ProposalInvariant, NEW s, UnbanCircle(s)
  PROVE  \E w : Begin(s, w) /\ Pending(db, w)
<1>. DEFINE x == [db[Circle] EXCEPT !.status = "ACTIVE"]  w == Put(Circle, x)
            e == Apply(db, w)
<1>1. db[Circle] \in CircleDoc /\ CircleRight(db) /\ Begin(s, w)
  BY DEF ProposalInvariant, Consistent, Typed, UnbanCircle
<1>2. /\ x \in CircleDoc /\ x.status = "ACTIVE"
      /\ x.count = db[Circle].count /\ x.kind = db[Circle].kind
      /\ x.version = db[Circle].version
  BY <1>1 DEF CircleDoc
<1>3. (\A id : Has(w, id) <=> id = Circle) /\ w[Circle] = x
  BY OneDocument
<1>. HIDE DEF w, x
<1>4. /\ Typed(w)
      /\ \A p : ~Has(w, Proposal(p)) /\ \A id \in About(p) : ~Has(w, id)
  BY <1>2, <1>3, Distinct, AboutParts DEF Typed, Circle, Proposal, Vote, Stance
<1>5. \A p \in Proposals : /\ Has(e, Proposal(p)) <=> Has(db, Proposal(p))
                           /\ Has(db, Proposal(p)) => e[Proposal(p)] = db[Proposal(p)]
  BY <1>4, ApplyFacts
<1>6. e[Circle] = x
  BY <1>3, ApplyFacts
<1>. HIDE DEF e
<1>7. ActiveSet(e) = ActiveSet(db)
  BY <1>5 DEF ActiveSet, ActiveIn
<1>8. \A p \in Proposals : AcceptedIn(e, p) <=> AcceptedIn(db, p)
  BY <1>5 DEF AcceptedIn
<1>9. CircleRight(e)
  BY <1>1, <1>2, <1>5, <1>6, <1>7, <1>8, ZenonT(60) DEF CircleRight, AcceptedIn, ActiveSet, ActiveIn
<1>10. Pending(db, w)
  BY <1>3, <1>4, <1>9 DEF Pending, e
<1>. QED
  BY <1>1, <1>10

(* A new proposal counts, and is about the version the circle has.         *)
LEMMA NewCircle ==
  ASSUME Consistent(db), NEW p \in Proposals, ~Has(db, Proposal(p)),
         \A q \in ActiveSet(db) : q[1] # p[1],
         NEW e, Has(e, Proposal(p)), e[Proposal(p)].status = "DISCUSSION",
         e[Proposal(p)].base = db[Circle].version[p[1]],
         \A q \in Proposals : q # p =>
           /\ Has(e, Proposal(q)) <=> Has(db, Proposal(q))
           /\ Has(db, Proposal(q)) => e[Proposal(q)] = db[Proposal(q)],
         e[Circle].count = db[Circle].count + 1, e[Circle].kind = db[Circle].kind,
         e[Circle].status = "ACTIVE", e[Circle].version = db[Circle].version
  PROVE  CircleRight(e)
<1>1. CircleRight(db) /\ "DISCUSSION" \in Active
  BY DEF Consistent, Active
<1>2. ActiveSet(e) = ActiveSet(db) \cup {p} /\ p \notin ActiveSet(db)
  BY <1>1 DEF ActiveSet, ActiveIn
<1>3. e[Circle].count = Cardinality(ActiveSet(e))
  <2>1. Cardinality(ActiveSet(e)) = Cardinality(ActiveSet(db)) + 1
    BY <1>2, ProposalsFinite, FS_AddElement
  <2>. QED
    BY <2>1, <1>1 DEF CircleRight
<1>4. \A q \in Proposals : AcceptedIn(e, q) =>
        /\ q # p /\ AcceptedIn(db, q) /\ e[Proposal(q)] = db[Proposal(q)]
  BY DEF AcceptedIn
<1>5. \A q \in ActiveSet(e) :
        q = p \/ (q \in ActiveSet(db) /\ e[Proposal(q)] = db[Proposal(q)])
  <2>1. \A q \in ActiveSet(db) : q \in Proposals /\ Has(db, Proposal(q))
    BY DEF ActiveSet, ActiveIn
  <2>. QED
    BY <1>2, <2>1
<1>6. \A q \in ActiveSet(e) : e[Proposal(q)].base = e[Circle].version[q[1]]
  BY <1>1, <1>5 DEF CircleRight
<1>7. \A q, o \in ActiveSet(e) : q[1] = o[1] => q = o
  BY <1>1, <1>2 DEF CircleRight
<1>. QED
  BY <1>1, <1>3, <1>4, <1>6, <1>7 DEF CircleRight

LEMMA QuorumBounds ==
  ASSUME NEW eligible \in Nat
  PROVE  Quorum(eligible) \in MinQuorum..20
<1>. DEFINE tenth == (eligible + 9) \div 10
<1>1. tenth \in Nat /\ MinQuorum \in 1..20
  BY ProposalAssumption
<1>. HIDE DEF tenth
<1>2. Max({MinQuorum, tenth}) \in Nat /\ Max({MinQuorum, tenth}) >= MinQuorum
  BY <1>1, Larger
<1>. DEFINE m == Max({MinQuorum, tenth})
<1>. HIDE DEF m
<1>3. Min({20, m}) \in MinQuorum..20
  BY <1>1, <1>2, Smaller DEF m
<1>. QED
  BY <1>3 DEF Quorum, m, tenth

LEMMA CreatePending ==
  ASSUME ProposalInvariant, NEW s, NEW m \in Members, NEW sc \in Scopes, Create(s, m, sc)
  PROVE  \E w : Begin(s, w) /\ Pending(db, w)
<1>1. PICK n \in 1..MaxProposals, eligible \in EligibleCounts :
        /\ <<sc, n>> \notin Existing
        /\ Begin(s, Apply(Apply(
             Put(Proposal(<<sc, n>>), NewProposal(m, db[Circle].version[sc],
                                                  Quorum(eligible), now)),
             Put(Stance(<<sc, n>>, 1, m), "SUPPORT")),
             Put(Circle, [db[Circle] EXCEPT !.count = @ + 1])))
  BY Zenon DEF Create
<1>. DEFINE p == <<sc, n>>
            base == db[Circle].version[sc]
            quorum == Quorum(eligible)
            x == NewProposal(m, base, quorum, now)
            id == Stance(p, 1, m)
            circle == [db[Circle] EXCEPT !.count = @ + 1]
            v == Apply(Put(Proposal(p), x), Put(id, "SUPPORT"))
            w == Apply(v, Put(Circle, circle))
            e == Apply(db, w)
<1>2. p \in Proposals /\ p[1] = sc
  BY DEF Proposals
<1>3. ~Has(db, Proposal(p)) /\ Begin(s, w)
  BY <1>1, <1>2 DEF Existing
<1>. HIDE DEF p
<1>4. /\ Consistent(db) /\ db[Circle] \in CircleDoc /\ Right(db, p)
      /\ db[Circle].status = "ACTIVE" /\ base \in Nat
      /\ now \in Nat /\ Phase \in Nat /\ Lifetime \in Nat /\ Phase <= Lifetime
  BY <1>2, ProposalAssumption DEF Create, CoBuild, ProposalInvariant, Consistent, Typed, CircleDoc
<1>5. \A q \in ActiveSet(db) : q[1] # sc
  BY DEF Create, ActiveSet, ActiveIn, IsActive, Existing
<1>6. quorum \in MinQuorum..20
  BY QuorumBounds, ProposalAssumption
<1>7. 1 \in Revisions /\ now + Phase \in Nat /\ now + Lifetime \in Nat
      /\ "DISCUSSION" \in Active /\ "DISCUSSION" \in Active \cup Closed
      /\ Null \in Nat \cup {Null} /\ Free \in Revisions \cup {Free}
  BY <1>4, ProposalAssumption DEF Revisions, Active
<1>. HIDE DEF base, quorum
<1>8. x \in ProposalDoc
  BY <1>4, <1>6, <1>7 DEF NewProposal, ProposalDoc
<1>9. /\ x.status = "DISCUSSION" /\ x.base = base /\ x.rev = 1 /\ x.voting = Null
      /\ x.discussion = now + Phase /\ x.expires = now + Lifetime /\ x.next = now + Phase
      /\ x.approve = 0 /\ x.reject = 0 /\ x.held = Free
  BY DEF NewProposal
<1>10. /\ circle \in CircleDoc
       /\ circle.count = db[Circle].count + 1 /\ circle.kind = db[Circle].kind
       /\ circle.status = "ACTIVE" /\ circle.version = db[Circle].version
  BY <1>4 DEF CircleDoc
<1>. HIDE DEF x, circle
<1>11. Proposal(p) # id /\ Proposal(p) # Circle /\ id # Circle
  BY DEF Proposal, Stance, Circle
<1>12. /\ \A y : Has(v, y) <=> (y = Proposal(p) \/ y = id)
       /\ v[Proposal(p)] = x /\ v[id] = "SUPPORT"
  BY <1>11, TwoDocuments
<1>. HIDE DEF v
<1>13. /\ \A y : Has(w, y) <=> (y = Proposal(p) \/ y = id \/ y = Circle)
       /\ w[Proposal(p)] = x /\ w[id] = "SUPPORT" /\ w[Circle] = circle
  BY <1>11, <1>12, OneDocument, ApplyFacts
<1>. HIDE DEF w
<1>14. /\ \A y : Has(w, y) => y \in About(p) \/ y = Circle
       /\ \A q : Has(w, Proposal(q)) <=> q = p
       /\ \A q, o : ~Has(w, Vote(q, o))
       /\ \A q, r : ~Has(w, Case(q, r))
       /\ \A q, r, o : Has(w, Stance(q, r, o)) =>
            r = 1 /\ q = p /\ Stance(q, r, o) = id
  BY <1>7, <1>13, AboutParts DEF Proposal, Vote, Case, Stance, Circle
<1>15. Typed(w)
  BY <1>8, <1>10, <1>13, <1>14 DEF Typed, Stances
<1>16. /\ Has(e, Proposal(p)) /\ e[Proposal(p)] = x /\ e[Circle] = circle
       /\ \A q \in Proposals : q # p =>
            /\ Has(e, Proposal(q)) <=> Has(db, Proposal(q))
            /\ Has(db, Proposal(q)) => e[Proposal(q)] = db[Proposal(q)]
  BY <1>13, <1>14, ApplyFacts
<1>17. /\ \A o \in Members : ~Has(e, Vote(p, o))
       /\ \A r \in Revisions : ~Has(e, Case(p, r))
       /\ \A r \in Revisions, o \in Members : Has(e, Stance(p, r, o)) => r = 1
  BY <1>3, <1>4, <1>14, ApplyFacts DEF Right, Linked
<1>. HIDE DEF e
<1>18. Tallied(e, p)
  <2>1. VotersIn(e, p, "APPROVE") = {} /\ VotersIn(e, p, "REJECT") = {}
    BY <1>17 DEF VotersIn
  <2>. QED
    BY <2>1, <1>9, <1>16, FS_EmptySet DEF Tallied
<1>19. Linked(e, p) /\ Decided(e, p)
  BY <1>9, <1>16, <1>17 DEF Linked, Decided
<1>20. Held(e, p)
  BY <1>9, <1>16, <1>17 DEF Held, Revisions, Free
<1>21. Scheduled(e, p)
  <2>. DEFINE a == now + Phase  b == now + Lifetime
  <2>1. a \in Nat /\ b \in Nat /\ a <= b
    BY <1>4
  <2>. HIDE DEF a, b
  <2>2. Min({a, b}) = a
    BY <2>1, Smaller
  <2>. QED
    BY <2>2, <1>9, <1>16 DEF Scheduled, PhaseDeadline, a, b
<1>22. Right(e, p)
  BY <1>18, <1>19, <1>20, <1>21 DEF Right
<1>23. Stands(db, e, p)
  BY <1>3 DEF Stands
<1>24. CircleRight(e)
  BY <1>2, <1>3, <1>4, <1>5, <1>9, <1>10, <1>16, NewCircle DEF base
<1>25. Pending(db, w)
  BY <1>2, <1>13, <1>14, <1>15, <1>22, <1>23, <1>24, PendingOne DEF e
<1>. QED
  BY <1>3, <1>25

-----------------------------------------------------------------------------
(* The invariant is inductive *)

LEMMA NormalConsistent ==
  ASSUME "NORMAL" \in Kinds
  PROVE  Consistent(NormalCircle)
<1>. DEFINE e == NormalCircle
            x == [kind |-> "NORMAL", status |-> "ACTIVE", count |-> 0,
                  version |-> [sc \in Scopes |-> 1]]
<1>1. (\A id : Has(e, id) <=> id = Circle) /\ e[Circle] = x
  BY OneDocument DEF NormalCircle
<1>2. x \in CircleDoc
  BY DEF CircleDoc
<1>3. x.count = 0 /\ x.status = "ACTIVE"
  OBVIOUS
<1>. HIDE DEF e, x
<1>4. /\ \A p : ~Has(e, Proposal(p))
      /\ \A p, m : ~Has(e, Vote(p, m))
      /\ \A p, r : ~Has(e, Case(p, r))
      /\ \A p, r, m : ~Has(e, Stance(p, r, m))
  BY <1>1 DEF Circle, Proposal, Vote, Case, Stance
<1>5. Typed(e)
  BY <1>1, <1>2, <1>4 DEF Typed
<1>6. \A p \in Proposals : Right(e, p)
  BY <1>4 DEF Right, Linked
<1>7. ActiveSet(e) = {} /\ \A p : ~AcceptedIn(e, p)
  BY <1>4 DEF ActiveSet, ActiveIn, AcceptedIn
<1>8. CircleRight(e)
  BY <1>1, <1>3, <1>7, FS_EmptySet DEF CircleRight
<1>. QED
  BY <1>1, <1>5, <1>6, <1>8 DEF Consistent, e

LEMMA LegacyConsistent ==
  ASSUME "OFFICIAL" \in Kinds, NEW m \in Members, NEW sc \in Scopes, NEW held \in {Free, 1}
  PROVE  Consistent(LegacyCircle(m, sc, held))
<1>. DEFINE p == <<sc, 1>>
            circle == [kind |-> "OFFICIAL", status |-> "ACTIVE", count |-> 1,
                       version |-> [y \in Scopes |-> 1]]
            new == NewProposal(m, 1, MinQuorum, 0)
            x == [new EXCEPT !.held = held, !.next = IF held = Free THEN Phase ELSE Null]
            id == Stance(p, 1, m)
            v == Apply(Put(Proposal(p), x), Put(id, "SUPPORT"))
            c == IF held = Free THEN <<>> ELSE Put(Case(p, held), "OPEN")
            w == Apply(v, c)
            e == Apply(Put(Circle, circle), w)
<1>1. e = LegacyCircle(m, sc, held)
  BY DEF LegacyCircle
<1>2. p \in Proposals /\ p[1] = sc
  BY ProposalAssumption DEF Proposals
<1>. HIDE DEF p
<1>3. /\ 1 \in Revisions /\ Phase \in Nat /\ Lifetime \in Nat /\ Phase <= Lifetime
      /\ MinQuorum \in MinQuorum..20 /\ held \in Revisions \cup {Free}
      /\ "DISCUSSION" \in Active /\ "DISCUSSION" \in Active \cup Closed
  BY ProposalAssumption DEF Revisions, Active
<1>4. new \in ProposalDoc
  BY <1>3 DEF NewProposal, ProposalDoc
<1>5. x \in ProposalDoc
  BY <1>3, <1>4, Zenon DEF ProposalDoc
<1>6. /\ x.status = "DISCUSSION" /\ x.base = 1 /\ x.rev = 1 /\ x.voting = Null
      /\ x.discussion = Phase /\ x.expires = Lifetime
      /\ x.approve = 0 /\ x.reject = 0 /\ x.held = held
      /\ held = Free => x.next = Phase
  BY <1>3 DEF NewProposal
<1>7. /\ circle \in CircleDoc /\ circle.count = 1 /\ circle.kind = "OFFICIAL"
      /\ circle.status = "ACTIVE" /\ circle.version[sc] = 1
  BY DEF CircleDoc
<1>. HIDE DEF x, circle, new
<1>8. Proposal(p) # id
  BY DEF Proposal, Stance
<1>9. /\ \A y : Has(v, y) <=> (y = Proposal(p) \/ y = id)
      /\ v[Proposal(p)] = x /\ v[id] = "SUPPORT"
  BY <1>8, TwoDocuments
<1>10. /\ \A y : Has(c, y) <=> (held # Free /\ y = Case(p, held))
       /\ held # Free => c[Case(p, held)] = "OPEN"
  BY NoDocument, OneDocument
<1>. HIDE DEF v, c
<1>11. \A y : Has(e, y) <=> \/ y = Circle \/ y = Proposal(p) \/ y = id
                            \/ held # Free /\ y = Case(p, held)
  BY <1>9, <1>10, OneDocument, ApplyFacts
<1>12. /\ e[Circle] = circle /\ e[Proposal(p)] = x /\ e[id] = "SUPPORT"
       /\ held # Free => e[Case(p, held)] = "OPEN"
  <2>1. /\ Circle # Proposal(p) /\ Circle # id /\ Circle # Case(p, held)
        /\ Proposal(p) # Case(p, held) /\ id # Case(p, held)
    BY DEF Circle, Proposal, Stance, Case
  <2>. QED
    BY <2>1, <1>8, <1>9, <1>10, OneDocument, ApplyFacts
<1>. HIDE DEF e
<1>13. /\ \A q : Has(e, Proposal(q)) <=> q = p
       /\ \A q, o : ~Has(e, Vote(q, o))
       /\ \A q, r : Has(e, Case(q, r)) <=> (q = p /\ r = held /\ held # Free)
       /\ \A q, r, o : Has(e, Stance(q, r, o)) => q = p /\ r = 1 /\ Stance(q, r, o) = id
  BY <1>11 DEF Circle, Proposal, Vote, Case, Stance
<1>14. Typed(e)
  BY <1>5, <1>7, <1>12, <1>13 DEF Typed, Stances
<1>15. Linked(e, p)
  BY <1>6, <1>12, <1>13 DEF Linked
<1>16. Tallied(e, p)
  <2>1. VotersIn(e, p, "APPROVE") = {} /\ VotersIn(e, p, "REJECT") = {}
    BY <1>13 DEF VotersIn
  <2>. QED
    BY <2>1, <1>6, <1>12, FS_EmptySet DEF Tallied
<1>17. Decided(e, p)
  BY <1>6, <1>12 DEF Decided
<1>18. Held(e, p)
  BY <1>3, <1>6, <1>12, <1>13 DEF Held, Revisions, Free
<1>19. Scheduled(e, p)
  BY <1>3, <1>6, <1>12, Smaller DEF Scheduled, PhaseDeadline
<1>20. \A q \in Proposals : Right(e, q)
  BY <1>13, <1>15, <1>16, <1>17, <1>18, <1>19 DEF Right, Linked
<1>21. ActiveSet(e) = {p} /\ \A q : ~AcceptedIn(e, q)
  BY <1>2, <1>3, <1>6, <1>12, <1>13 DEF ActiveSet, ActiveIn, AcceptedIn
<1>22. Cardinality(ActiveSet(e)) = 1
  BY <1>21, FS_Singleton
<1>23. CircleRight(e)
  BY <1>2, <1>6, <1>7, <1>12, <1>21, <1>22 DEF CircleRight
<1>. QED
  BY <1>1, <1>11, <1>14, <1>20, <1>23 DEF Consistent

LEMMA InitInvariant == Init => ProposalInvariant
<1>. SUFFICES ASSUME Init PROVE ProposalInvariant
  OBVIOUS
<1>1. TxnShape /\ \A s \in Sessions : ~txn[s].open
  BY NoneOpen DEF Init
<1>2. now \in 0..MaxNow
  BY ProposalAssumption DEF Init
<1>3. Consistent(db)
  BY NormalConsistent, LegacyConsistent DEF Init
<1>. QED
  BY <1>1, <1>2, <1>3 DEF ProposalInvariant

LEMMA OperationPending ==
  ASSUME ProposalInvariant, NEW s, Operation(s)
  PROVE  \E w : Begin(s, w) /\ Pending(db, w)
<1>1. ASSUME NEW p \in Existing, OnProposal(s, p)
      PROVE  \E w : Begin(s, w) /\ Pending(db, w)
  <2>1. CASE Revise(s, p)
    BY <2>1, RevisePending
  <2>2. CASE WithdrawProposal(s, p)
    BY <2>2, WithdrawProposalPending
  <2>3. CASE \E m \in Members : WithdrawStance(s, p, m)
    BY <2>3, WithdrawStancePending
  <2>4. CASE \E m \in Members, stance \in Stances : SetStance(s, p, m, stance)
    BY <2>4, SetStancePending
  <2>5. CASE \E m \in Members, choice \in VoteChoices : CastVote(s, p, m, choice)
    BY <2>5, CastVotePending
  <2>6. CASE \E r \in Revisions : OpenCase(s, p, r)
    BY <2>6, OpenCasePending
  <2>7. CASE \E r \in Revisions : ResolveCase(s, p, r)
    BY <2>7, ResolveCasePending
  <2>8. CASE AdvanceClaimedDeadline(s, p)
    BY <2>8, AdvancePending
  <2>9. CASE ModerateProposal(s, p)
    BY <2>9, ModerateProposalPending
  <2>. QED
    BY <1>1, <2>1, <2>2, <2>3, <2>4, <2>5, <2>6, <2>7, <2>8, <2>9 DEF OnProposal
<1>2. CASE \E m \in Members, sc \in Scopes : Create(s, m, sc)
  BY <1>2, CreatePending
<1>3. CASE \E S \in SUBSET Scopes \ {{}} : UpdateCircle(s, S)
  BY <1>3, UpdateCirclePending
<1>4. CASE BanCircle(s)
  BY <1>4, BanCirclePending
<1>5. CASE UnbanCircle(s)
  BY <1>5, UnbanCirclePending
<1>. QED
  BY <1>1, <1>2, <1>3, <1>4, <1>5 DEF Operation

LEMMA BeginInvariant ==
  ASSUME ProposalInvariant, NEW s \in Sessions, NEW w, Begin(s, w), Pending(db, w)
  PROVE  ProposalInvariant'
<1>1. /\ db' = db /\ TxnShape' /\ now' = now
      /\ \A u \in Sessions : txn'[u].open =>
           \/ txn'[u].writes = w
           \/ txn[u].open /\ txn'[u].writes = txn[u].writes
  BY OpenEffect DEF Begin, ProposalInvariant
<1>. QED
  BY <1>1 DEF ProposalInvariant

LEMMA CommitInvariant ==
  ASSUME ProposalInvariant, NEW s \in Sessions, Commit(s)
  PROVE  /\ ProposalInvariant'
         /\ \A p \in Proposals : Stands(db, db', p)
<1>1. /\ txn[s].open /\ db' = Apply(db, txn[s].writes) /\ TxnShape' /\ now' = now
      /\ \A u \in Sessions : txn'[u].open =>
           /\ txn[u].open /\ txn'[u].writes = txn[u].writes
           /\ Apart(txn[u].writes, txn[s].writes)
  BY CommitEffect DEF Commit, ProposalInvariant
<1>2. Consistent(db) /\ Pending(db, txn[s].writes)
  BY <1>1 DEF ProposalInvariant
<1>3. Consistent(db') /\ \A p \in Proposals : Stands(db, db', p)
  BY <1>1, <1>2, CommitConsistent
<1>4. ASSUME NEW u \in Sessions, txn'[u].open
      PROVE  Pending(db', txn'[u].writes)
  <2>1. Pending(db, txn[u].writes)
    BY <1>1, <1>4 DEF ProposalInvariant
  <2>. QED
    BY <1>1, <1>2, <1>4, <2>1, PendingStable
<1>. QED
  BY <1>1, <1>3, <1>4 DEF ProposalInvariant

(* Nothing happens to the documents but by a commit.                       *)
LEMMA UnchangedStands ==
  ASSUME db' = db, NEW p
  PROVE  Stands(db, db', p)
BY DEF Stands, Frozen

LEMMA NextInvariant ==
  ASSUME ProposalInvariant, [Next]_vars
  PROVE  /\ ProposalInvariant'
         /\ \A p \in Proposals : Stands(db, db', p)
<1>1. ASSUME NEW s \in Sessions, Operation(s)
      PROVE  ProposalInvariant' /\ \A p \in Proposals : Stands(db, db', p)
  <2>1. PICK w : Begin(s, w) /\ Pending(db, w)
    BY <1>1, OperationPending
  <2>2. db' = db
    BY <2>1 DEF Begin, OpenTxn
  <2>. QED
    BY <2>1, <2>2, BeginInvariant, UnchangedStands
<1>2. ASSUME NEW s \in Sessions, Commit(s)
      PROVE  ProposalInvariant' /\ \A p \in Proposals : Stands(db, db', p)
  BY <1>2, CommitInvariant
<1>3. ASSUME NEW s \in Sessions, Abort(s)
      PROVE  ProposalInvariant' /\ \A p \in Proposals : Stands(db, db', p)
  <2>1. /\ db' = db /\ TxnShape' /\ now' = now
        /\ \A u \in Sessions : txn'[u].open => txn[u].open /\ txn'[u].writes = txn[u].writes
    BY <1>3, AbortEffect DEF Abort, ProposalInvariant
  <2>. QED
    BY <2>1, UnchangedStands DEF ProposalInvariant
<1>4. CASE Tick
  <2>1. db' = db /\ txn' = txn /\ now' \in 0..MaxNow
    BY <1>4, ProposalAssumption DEF Tick, ProposalInvariant
  <2>. QED
    BY <2>1, UnchangedStands DEF ProposalInvariant, TxnShape
<1>5. CASE UNCHANGED vars
  <2>1. db' = db /\ txn' = txn /\ now' = now
    BY <1>5 DEF vars
  <2>. QED
    BY <2>1, UnchangedStands DEF ProposalInvariant, TxnShape
<1>. QED
  BY <1>1, <1>2, <1>3, <1>4, <1>5 DEF Next

(* Whatever the operations on a circle and its proposals do at the same    *)
(* time, the documents are consistent, and the writes of every transaction *)
(* that can still commit leave them so.                                    *)
THEOREM ProposalInvariantHolds == Spec => []ProposalInvariant
<1>1. Init => ProposalInvariant
  BY InitInvariant
<1>2. ProposalInvariant /\ [Next]_vars => ProposalInvariant'
  BY NextInvariant
<1>. QED
  BY <1>1, <1>2, PTL DEF Spec

-----------------------------------------------------------------------------
(* What the runs check *)

(* The documents have their fields' types; stances and votes are about a   *)
(* proposal, and a revision of it, that exists.                            *)
THEOREM TypeCorrect == Spec => []TypeOK
<1>1. ProposalInvariant => TypeOK
  <2>. SUFFICES ASSUME ProposalInvariant PROVE TypeOK
    OBVIOUS
  <2>1. Typed(db) /\ Has(db, Circle) /\ now \in 0..MaxNow /\ \A p \in Proposals : Linked(db, p)
    BY DEF ProposalInvariant, Consistent, Right
  <2>. QED
    BY <2>1 DEF TypeOK, Typed, CircleDoc, ProposalDoc, Linked, Existing
<1>. QED
  BY <1>1, ProposalInvariantHolds, PTL

(* A proposal is held by a case exactly as long as the case is open, so a  *)
(* verdict always finds it active and on hold.                             *)
THEOREM HoldsAndCasesAgree == Spec => []HoldMatchesCase
<1>1. ProposalInvariant => HoldMatchesCase
  <2>. SUFFICES ASSUME ProposalInvariant, NEW p \in Existing, NEW r \in Revisions
                PROVE  (Has(db, Case(p, r)) /\ db[Case(p, r)] = "OPEN") <=> HeldBy(p, r)
    BY DEF HoldMatchesCase
  <2>1. p \in Proposals /\ Held(db, p)
    BY DEF ProposalInvariant, Consistent, Right, Existing
  <2>. QED
    BY <2>1 DEF Held, HeldBy, IsActive
<1>. QED
  BY <1>1, ProposalInvariantHolds, PTL

(* Every decision is what the recorded stances and votes say, and the      *)
(* counters it is taken on count them right.                               *)
THEOREM DecisionsSound == Spec => []DecisionsFollowVotes
<1>1. ProposalInvariant => DecisionsFollowVotes
  <2>. SUFFICES ASSUME ProposalInvariant PROVE DecisionsFollowVotes
    OBVIOUS
  <2>1. \A p \in Existing : p \in Proposals /\ Tallied(db, p) /\ Decided(db, p)
    BY DEF ProposalInvariant, Consistent, Right, Existing
  <2>2. /\ \A p, choice : Voters(p, choice) = VotersIn(db, p, choice)
        /\ \A p, r, stance : Standing(p, r, stance) = StandingIn(db, p, r, stance)
    BY DEF Voters, VotersIn, Standing, StandingIn
  <2>3. TallyIsVotes
    BY <2>1, <2>2 DEF TallyIsVotes, Tallied
  <2>4. \A p : /\ Supported(p) <=> SupportedIn(db, p)
               /\ Objected(p) <=> ObjectedIn(db, p)
               /\ VotedFor(p) <=> VotedForIn(db, p)
    BY <2>2 DEF Supported, SupportedIn, Objected, ObjectedIn, VotedFor, VotedForIn
  <2>5. OutcomeFollowsParticipation
    BY <2>1, <2>4 DEF OutcomeFollowsParticipation, Decided
  <2>. QED
    BY <2>3, <2>5 DEF DecisionsFollowVotes
<1>. QED
  BY <1>1, ProposalInvariantHolds, PTL

(* The circle counts its active proposals, an active proposal is about the *)
(* version the circle has, and no two accepted ones about the same.        *)
THEOREM CircleKept == Spec => []CircleIsKept
<1>1. ProposalInvariant => CircleIsKept
  <2>. SUFFICES ASSUME ProposalInvariant PROVE CircleIsKept
    OBVIOUS
  <2>1. CircleRight(db)
    BY DEF ProposalInvariant, Consistent
  <2>2. /\ ActiveSet(db) = {p \in Existing : IsActive(p)}
        /\ \A p \in Existing : p \in Proposals /\ (IsActive(p) <=> p \in ActiveSet(db))
        /\ \A p \in Existing : AcceptedIn(db, p) <=> db[Proposal(p)].status = "ACCEPTED"
    BY DEF ActiveSet, ActiveIn, AcceptedIn, IsActive, Existing
  <2>3. CountIsActive
    BY <2>1, <2>2 DEF CircleRight, CountIsActive
  <2>4. NoLostUpdate
    BY <2>1, <2>2 DEF CircleRight, NoLostUpdate
  <2>. QED
    BY <2>3, <2>4 DEF CircleIsKept
<1>. QED
  BY <1>1, ProposalInvariantHolds, PTL

(* A proposal on hold is decided by its case alone, and once it is closed  *)
(* neither it nor the stances and votes that decided it ever change.       *)
THEOREM DecisionsAreFinal == Spec => DecisionsStand
<1>1. ProposalInvariant /\ [Next]_vars => [HeldIsFrozen /\ ClosedIsFinal]_vars
  <2>. SUFFICES ASSUME ProposalInvariant, [Next]_vars
                PROVE  HeldIsFrozen /\ ClosedIsFinal
    OBVIOUS
  <2>1. \A p \in Existing : /\ Has(db, Proposal(p)) /\ Stands(db, db', p)
                            /\ IsActive(p) <=> db[Proposal(p)].status \in Active
    BY NextInvariant DEF Existing, IsActive
  <2>2. HeldIsFrozen
    BY <2>1 DEF HeldIsFrozen, IsHeld, Stands, Frozen
  <2>3. ClosedIsFinal
    BY <2>1 DEF ClosedIsFinal, Stands
  <2>. QED
    BY <2>2, <2>3
<1>. QED
  BY <1>1, ProposalInvariantHolds, PTL DEF Spec, DecisionsStand

(* A proposal whose transition is due can make it: the job does not fail   *)
(* on a banned circle or on a schedule that does not fit the phase.        *)
THEOREM DueNeverStuck == Spec => []DueCanAdvance
<1>1. ProposalInvariant => DueCanAdvance
  <2>. SUFFICES ASSUME ProposalInvariant, NEW p \in Existing, IsActive(p), ~IsHeld(p)
                PROVE  /\ db[Proposal(p)].next # Null
                       /\ db[Proposal(p)].next <= now => Advanceable(p, now)
    BY DEF DueCanAdvance
  <2>. DEFINE d == db[Proposal(p)]
  <2>1. /\ Consistent(db) /\ p \in ActiveSet(db) /\ d \in ProposalDoc
        /\ d.status \in Active /\ Right(db, p) /\ db[Circle] \in CircleDoc
        /\ d.held = Free /\ CircleRight(db) /\ Has(db, Proposal(p))
    BY ActiveFacts DEF ProposalInvariant, IsHeld, Consistent
  <2>2. PhaseDeadline(d) \in Nat /\ d.expires \in Nat
    BY <2>1 DEF PhaseDeadline, ProposalDoc, Right, Decided, Active
  <2>3. d.next = Min({PhaseDeadline(d), d.expires})
    BY <2>1, ActiveFacts DEF Right, Scheduled
  <2>4. d.next = IF PhaseDeadline(d) <= d.expires THEN PhaseDeadline(d) ELSE d.expires
    BY <2>2, <2>3, Smaller
  <2>5. db[Circle].kind \in {"NORMAL", "OFFICIAL"} /\ db[Circle].status \in {"ACTIVE", "BANNED"}
    BY <2>1, ProposalAssumption DEF CircleDoc
  <2>6. db[Circle].kind = "OFFICIAL" \/ db[Circle].status = "ACTIVE"
    BY <2>1, <2>5 DEF CircleRight
  <2>. QED
    BY <2>2, <2>4, <2>6 DEF Advanceable, Null
<1>. QED
  BY <1>1, ProposalInvariantHolds, PTL

=============================================================================
