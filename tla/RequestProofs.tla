---------------------------- MODULE RequestProofs ----------------------------
(***************************************************************************)
(* What holds of the components that serve requests, for every number of   *)
(* sessions, keys, accounts, tabs, links, agents and posts: the idempotent *)
(* MCP writes, the registration of accounts, refresh tokens, guide links,  *)
(* the registries of watched posts, circles with their posts, members and  *)
(* reviews, what administrators change, the feedback on a post, what an    *)
(* agent has earned and spent; and the migrations before all of them.  At  *)
(* the end, what holds of all of them when they share the documents.       *)
(***************************************************************************)
EXTENDS RequestInvariants

-----------------------------------------------------------------------------
(* IDEMPOTENT WRITES                                                       *)

LEMMA OperationDocuments ==
  ASSUME NEW k, NEW i, NEW e
  PROVE  LET w == OperationWrites(k, i, e)
         IN  /\ \A id : Has(w, id) <=> (id = RecordId(k) \/ id = EffectId(e))
             /\ w[RecordId(k)] = [input |-> i, result |-> e]
             /\ w[EffectId(e)] = [key |-> k, input |-> i]
<1>1. RecordId(k) # EffectId(e)
  BY DEF RecordId, EffectId
<1>. QED
  BY <1>1, TwoDocuments DEF OperationWrites

LEMMA IdsDistinct ==
  /\ \A k, l : RecordId(k) = RecordId(l) => k = l
  /\ \A e, f : EffectId(e) = EffectId(f) => e = f
  /\ \A k, e : RecordId(k) # EffectId(e)
BY DEF RecordId, EffectId

(* A call that succeeds is the first with its key, as long as the record   *)
(* is there, and is answered with what it did.                             *)
LEMMA CommitMatches ==
  ASSUME NEW d, NEW answered, RecordsMatch(d), AnswersIn(d, answered),
         NEW call, NEW w, WritesFor(d, call, w), DOMAIN answered = Keys,
         NEW e, Has(w, EffectId(e))
  PROVE  /\ RecordsMatch(Apply(d, w))
         /\ AnswersIn(Apply(d, w), [answered EXCEPT ![call.key] = @ \cup {<<call.input, e>>}])
<1>. DEFINE k == call.key  i == call.input  c == Apply(d, w)
<1>1. PICK f \in Effects : ~Has(d, EffectId(f)) /\ w = OperationWrites(k, i, f)
  BY DEF WritesFor
<1>2. k \in Keys /\ i \in Inputs /\ ~Has(d, RecordId(k))
  BY DEF WritesFor, Call
<1>. HIDE DEF k, i
<1>3. /\ \A id : Has(w, id) <=> (id = RecordId(k) \/ id = EffectId(f))
      /\ w[RecordId(k)] = [input |-> i, result |-> f]
      /\ w[EffectId(f)] = [key |-> k, input |-> i]
  BY <1>1, OperationDocuments
<1>4. e = f
  BY <1>3, IdsDistinct
<1>5. /\ \A id : Has(c, id) <=> Has(d, id) \/ id = RecordId(k) \/ id = EffectId(f)
      /\ \A id : Has(d, id) => c[id] = d[id]
      /\ c[RecordId(k)] = [input |-> i, result |-> f]
      /\ c[EffectId(f)] = [key |-> k, input |-> i]
  BY <1>1, <1>2, <1>3, ApplyFacts
<1>. HIDE DEF c
<1>6. RecordsMatch(c)
  <2>1. ASSUME NEW l \in Keys, Has(c, RecordId(l))
        PROVE  /\ c[RecordId(l)].result \in Effects
               /\ Has(c, EffectId(c[RecordId(l)].result))
               /\ c[EffectId(c[RecordId(l)].result)] = [key |-> l, input |-> c[RecordId(l)].input]
    <3>1. CASE l = k
      BY <3>1, <1>5
    <3>2. CASE l # k
      <4>1. Has(d, RecordId(l))
        BY <3>2, <2>1, <1>5, IdsDistinct
      <4>. QED
        BY <4>1, <1>5 DEF RecordsMatch
    <3>. QED
      BY <3>1, <3>2
  <2>2. ASSUME NEW g \in Effects, Has(c, EffectId(g))
        PROVE  /\ c[EffectId(g)].key \in Keys
               /\ Has(c, RecordId(c[EffectId(g)].key))
               /\ c[RecordId(c[EffectId(g)].key)].result = g
    <3>1. CASE g = f
      BY <3>1, <1>2, <1>5
    <3>2. CASE g # f
      <4>1. Has(d, EffectId(g))
        BY <3>2, <2>2, <1>5, IdsDistinct
      <4>. QED
        BY <4>1, <1>5 DEF RecordsMatch
    <3>. QED
      BY <3>1, <3>2
  <2>. QED
    BY <2>1, <2>2 DEF RecordsMatch
<1>7. AnswersIn(c, [answered EXCEPT ![k] = @ \cup {<<i, e>>}])
  <2>. DEFINE new == [answered EXCEPT ![k] = @ \cup {<<i, e>>}]
  <2>1. ASSUME NEW l \in Keys, NEW r \in new[l]
        PROVE  Has(c, EffectId(r[2])) /\ c[EffectId(r[2])] = [key |-> l, input |-> r[1]]
    <3>1. r \in answered[l] \/ (l = k /\ r = <<i, e>>)
      BY <1>2
    <3>2. CASE r \in answered[l]
      BY <3>2, <1>5 DEF AnswersIn
    <3>3. CASE l = k /\ r = <<i, e>>
      BY <3>3, <1>4, <1>5
    <3>. QED
      BY <3>1, <3>2, <3>3
  <2>. QED
    BY <2>1 DEF AnswersIn
<1>. QED
  BY <1>6, <1>7 DEF k, i, c

(* A commit that has no conflict with it leaves a call to be done.         *)
LEMMA WritesForStable ==
  ASSUME NEW d, NEW call, NEW w, WritesFor(d, call, w),
         NEW other, NEW c, WritesFor(d, other, c), Apart(w, c)
  PROVE  WritesFor(Apply(d, c), call, w)
<1>1. PICK e \in Effects : ~Has(d, EffectId(e)) /\ w = OperationWrites(call.key, call.input, e)
  BY DEF WritesFor
<1>2. Has(w, RecordId(call.key)) /\ Has(w, EffectId(e))
  BY <1>1, OperationDocuments
<1>3. ~Has(Apply(d, c), RecordId(call.key)) /\ ~Has(Apply(d, c), EffectId(e))
  BY <1>1, <1>2, ApplyFacts DEF WritesFor, Apart
<1>. QED
  BY <1>1, <1>3 DEF WritesFor

LEMMA ExpiryMatches ==
  ASSUME IdempotencyInvariant, NEW k \in Keys, ExpireRecord(k)
  PROVE  IdempotencyInvariant'
<1>. DEFINE e == db[RecordId(k)].result
            gone == {RecordId(k), EffectId(e)}
<1>1. /\ Has(db, RecordId(k)) /\ e \in Effects /\ Has(db, EffectId(e))
      /\ db[EffectId(e)].key = k /\ RecordsMatch(db)
  <2>1. Has(db, RecordId(k)) /\ RecordsMatch(db)
    BY DEF ExpireRecord, IdempotencyInvariant
  <2>2. /\ e \in Effects /\ Has(db, EffectId(e))
        /\ db[EffectId(e)] = [key |-> k, input |-> db[RecordId(k)].input]
    BY <2>1 DEF RecordsMatch
  <2>. HIDE DEF e
  <2>. QED
    BY <2>1, <2>2
<1>2. /\ \A id : Has(db', id) <=> Has(db, id) /\ id \notin gone
      /\ \A id : Has(db', id) => db'[id] = db[id]
  BY DEF ExpireRecord, Restrict, Has
<1>3. /\ results' = [results EXCEPT ![k] = {}] /\ txn' = txn /\ calls' = calls
  BY DEF ExpireRecord
<1>. HIDE DEF e
<1>4. RecordsMatch(db')
  <2>1. ASSUME NEW l \in Keys, Has(db', RecordId(l))
        PROVE  /\ db'[RecordId(l)].result \in Effects
               /\ Has(db', EffectId(db'[RecordId(l)].result))
               /\ db'[EffectId(db'[RecordId(l)].result)]
                    = [key |-> l, input |-> db'[RecordId(l)].input]
    <3>1. l # k /\ Has(db, RecordId(l)) /\ db'[RecordId(l)] = db[RecordId(l)]
      BY <2>1, <1>2
    <3>2. /\ db[RecordId(l)].result \in Effects
          /\ Has(db, EffectId(db[RecordId(l)].result))
          /\ db[EffectId(db[RecordId(l)].result)]
               = [key |-> l, input |-> db[RecordId(l)].input]
      BY <1>1, <3>1 DEF RecordsMatch
    <3>3. db[RecordId(l)].result # e
      BY <1>1, <3>1, <3>2
    <3>. QED
      BY <1>2, <3>1, <3>2, <3>3, IdsDistinct
  <2>2. ASSUME NEW g \in Effects, Has(db', EffectId(g))
        PROVE  /\ db'[EffectId(g)].key \in Keys
               /\ Has(db', RecordId(db'[EffectId(g)].key))
               /\ db'[RecordId(db'[EffectId(g)].key)].result = g
    <3>1. g # e /\ Has(db, EffectId(g)) /\ db'[EffectId(g)] = db[EffectId(g)]
      BY <2>2, <1>2
    <3>2. /\ db[EffectId(g)].key \in Keys
          /\ Has(db, RecordId(db[EffectId(g)].key))
          /\ db[RecordId(db[EffectId(g)].key)].result = g
      BY <1>1, <3>1 DEF RecordsMatch
    <3>3. db[EffectId(g)].key # k
      BY <3>1, <3>2 DEF e
    <3>. QED
      BY <1>2, <3>1, <3>2, <3>3, IdsDistinct
  <2>. QED
    BY <2>1, <2>2 DEF RecordsMatch
<1>5. AnswersIn(db', results')
  <2>1. ASSUME NEW l \in Keys, NEW r \in results'[l]
        PROVE  Has(db', EffectId(r[2])) /\ db'[EffectId(r[2])] = [key |-> l, input |-> r[1]]
    <3>1. l # k /\ r \in results[l]
      BY <1>3, <2>1 DEF IdempotencyInvariant
    <3>2. Has(db, EffectId(r[2])) /\ db[EffectId(r[2])] = [key |-> l, input |-> r[1]]
      BY <3>1 DEF IdempotencyInvariant, AnswersIn
    <3>3. EffectId(r[2]) # EffectId(e) /\ EffectId(r[2]) # RecordId(k)
      BY <1>1, <3>1, <3>2, IdsDistinct
    <3>. QED
      BY <1>2, <3>2, <3>3
  <2>. QED
    BY <2>1 DEF AnswersIn
<1>6. ASSUME NEW s \in Sessions, txn'[s].open
      PROVE  WritesFor(db', calls'[s], txn'[s].writes)
  <2>1. WritesFor(db, calls[s], txn[s].writes)
    BY <1>3, <1>6 DEF IdempotencyInvariant
  <2>. QED
    BY <1>2, <1>3, <2>1 DEF WritesFor
<1>7. DOMAIN results' = Keys /\ TxnShape'
  BY <1>3 DEF IdempotencyInvariant, TxnShape
<1>. QED
  BY <1>3, <1>4, <1>5, <1>6, <1>7 DEF IdempotencyInvariant

(* What a call finds is answered only if it had asked for just that.       *)
LEMMA ResolveMatches ==
  ASSUME IdempotencyInvariant, NEW s \in Sessions, calls[s] # NoCall,
         RecordFound(calls[s].key), ResolveExisting(s)
  PROVE  /\ calls' = [calls EXCEPT ![s] = NoCall]
         /\ DOMAIN results' = Keys /\ AnswersIn(db, results')
<1>. DEFINE k == calls[s].key  record == db[RecordId(k)]
<1>1. /\ calls[s] \in Call /\ k \in Keys /\ Has(db, RecordId(k))
      /\ RecordsMatch(db) /\ AnswersIn(db, results) /\ DOMAIN results = Keys
  BY DEF IdempotencyInvariant, Call, RecordFound
<1>2. CASE record.input = calls[s].input
  <2>1. /\ calls' = [calls EXCEPT ![s] = NoCall]
        /\ results' = [results EXCEPT ![k] = @ \cup {<<calls[s].input, record.result>>}]
    BY <1>2 DEF ResolveExisting, SameInput, ToolAnswer
  <2>2. /\ Has(db, EffectId(record.result))
        /\ db[EffectId(record.result)] = [key |-> k, input |-> record.input]
    BY <1>1 DEF RecordsMatch
  <2>3. ASSUME NEW l \in Keys, NEW r \in results'[l]
        PROVE  Has(db, EffectId(r[2])) /\ db[EffectId(r[2])] = [key |-> l, input |-> r[1]]
    <3>1. r \in results[l] \/ (l = k /\ r = <<calls[s].input, record.result>>)
      BY <1>1, <2>1, <2>3
    <3>. HIDE DEF k, record
    <3>2. CASE r \in results[l]
      BY <3>2, <1>1 DEF AnswersIn
    <3>3. CASE l = k /\ r = <<calls[s].input, record.result>>
      BY <3>3, <1>2, <2>2
    <3>. QED
      BY <3>1, <3>2, <3>3
  <2>. QED
    BY <1>1, <2>1, <2>3 DEF AnswersIn
<1>3. CASE record.input # calls[s].input
  BY <1>1, <1>3 DEF ResolveExisting, SameInput, RefuseKey
<1>. QED
  BY <1>2, <1>3

LEMMA ExecuteMatches ==
  ASSUME IdempotencyInvariant, NEW s \in Sessions, Execute(s)
  PROVE  IdempotencyInvariant'
<1>1. CASE RecordFound(calls[s].key)
  <2>1. /\ calls' = [calls EXCEPT ![s] = NoCall] /\ db' = db /\ txn' = txn /\ ~txn[s].open
        /\ DOMAIN results' = Keys /\ AnswersIn(db, results')
    BY <1>1, ResolveMatches DEF Execute
  <2>. QED
    BY <2>1 DEF IdempotencyInvariant, TxnShape
<1>2. CASE ~RecordFound(calls[s].key)
  <2>1. PICK e \in FreshEffects :
          /\ OpenTxn(s, OperationWrites(calls[s].key, calls[s].input, e))
          /\ UNCHANGED <<calls, results>>
    BY <1>2 DEF Execute
  <2>. DEFINE w == OperationWrites(calls[s].key, calls[s].input, e)
  <2>2. /\ db' = db /\ TxnShape' /\ calls' = calls /\ results' = results
        /\ txn' = [txn EXCEPT ![s] = [open |-> TRUE, writes |-> w]]
    BY <2>1, OpenEffect DEF OpenTxn, IdempotencyInvariant
  <2>3. WritesFor(db, calls[s], w)
    BY <1>2, <2>1 DEF WritesFor, FreshEffects, RecordFound, Execute, IdempotencyInvariant
  <2>. HIDE DEF w
  <2>4. ASSUME NEW u \in Sessions, txn'[u].open
        PROVE  WritesFor(db, calls[u], txn'[u].writes)
    BY <2>2, <2>3, <2>4 DEF IdempotencyInvariant, TxnShape
  <2>. QED
    BY <2>2, <2>4 DEF IdempotencyInvariant
<1>. QED
  BY <1>1, <1>2

LEMMA CommitWriteMatches ==
  ASSUME IdempotencyInvariant, NEW s \in Sessions, CommitWrite(s)
  PROVE  IdempotencyInvariant'
<1>. DEFINE w == txn[s].writes
<1>1. PICK e \in Effects : Has(w, EffectId(e)) /\ ToolAnswer(s, e)
  BY DEF CommitWrite, Has
<1>2. /\ txn[s].open /\ db' = Apply(db, w) /\ TxnShape'
      /\ \A u \in Sessions : txn'[u].open =>
           txn[u].open /\ txn'[u].writes = txn[u].writes /\ Apart(txn[u].writes, w)
  BY CommitEffect DEF CommitWrite, IdempotencyInvariant
<1>3. WritesFor(db, calls[s], w)
  BY <1>2 DEF IdempotencyInvariant
<1>4. RecordsMatch(db') /\ AnswersIn(db', results') /\ DOMAIN results' = Keys
  BY <1>1, <1>2, <1>3, CommitMatches DEF ToolAnswer, IdempotencyInvariant
<1>5. ~txn'[s].open
  BY <1>2 DEF CommitWrite, CommitTxn, NoTxn
<1>6. ASSUME NEW u \in Sessions, txn'[u].open
      PROVE  WritesFor(db', calls'[u], txn'[u].writes)
  <2>1. u # s /\ calls'[u] = calls[u] /\ WritesFor(db, calls[u], txn[u].writes)
    BY <1>1, <1>2, <1>5, <1>6 DEF ToolAnswer, IdempotencyInvariant
  <2>. QED
    BY <1>2, <1>3, <1>6, <2>1, WritesForStable
<1>7. DOMAIN calls' = Sessions /\ \A u \in Sessions : calls'[u] \in Call \cup {NoCall}
  BY <1>1 DEF ToolAnswer, IdempotencyInvariant
<1>. QED
  BY <1>2, <1>4, <1>6, <1>7 DEF IdempotencyInvariant

LEMMA IdempotencyInductive ==
  IdempotencyInvariant /\ [IdempotencyNext]_idempotencyVars => IdempotencyInvariant'
<1>. SUFFICES ASSUME IdempotencyInvariant, [IdempotencyNext]_idempotencyVars
              PROVE  IdempotencyInvariant'
  OBVIOUS
<1>1. ASSUME NEW s \in Sessions, Ask(s)
      PROVE  IdempotencyInvariant'
  <2>1. PICK k \in Keys, i \in Inputs :
          calls' = [calls EXCEPT ![s] = [st |-> "asked", key |-> k, input |-> i]]
    BY <1>1 DEF Ask
  <2>2. calls[s] = NoCall /\ db' = db /\ txn' = txn /\ results' = results
    BY <1>1 DEF Ask
  <2>3. ~txn[s].open
    BY <2>2 DEF IdempotencyInvariant, WritesFor, Call, NoCall
  <2>4. \A u \in Sessions : calls'[u] \in Call \cup {NoCall} /\ (u # s => calls'[u] = calls[u])
    BY <2>1 DEF IdempotencyInvariant, Call
  <2>. QED
    BY <2>1, <2>2, <2>3, <2>4 DEF IdempotencyInvariant, TxnShape
<1>2. ASSUME NEW s \in Sessions, CatchDuplicateKey(s)
      PROVE  IdempotencyInvariant'
  <2>1. /\ calls' = [calls EXCEPT ![s] = NoCall] /\ db' = db /\ txn' = txn /\ ~txn[s].open
        /\ DOMAIN results' = Keys /\ AnswersIn(db, results')
    BY <1>2, ResolveMatches DEF CatchDuplicateKey, RefuseKey, IdempotencyInvariant
  <2>. QED
    BY <2>1 DEF IdempotencyInvariant, TxnShape
<1>3. ASSUME NEW s \in Sessions, Throw(s)
      PROVE  IdempotencyInvariant'
  <2>1. /\ db' = db /\ TxnShape' /\ ~txn'[s].open
        /\ \A u \in Sessions : txn'[u].open => txn[u].open /\ txn'[u].writes = txn[u].writes
    BY <1>3, AbortEffect DEF Throw, AbortTxn, NoTxn, IdempotencyInvariant, TxnShape
  <2>2. calls' = [calls EXCEPT ![s] = NoCall] /\ results' = results
    BY <1>3 DEF Throw, RefuseKey
  <2>. QED
    BY <2>1, <2>2 DEF IdempotencyInvariant
<1>4. CASE UNCHANGED idempotencyVars
  BY <1>4 DEF idempotencyVars, IdempotencyInvariant, TxnShape
<1>. QED
  BY <1>1, <1>2, <1>3, <1>4, ExecuteMatches, CommitWriteMatches, ExpiryMatches
     DEF IdempotencyNext

(* Before the first call, and what the documents say of calls.             *)
LEMMA CallsBegin ==
  ASSUME NoTxns, NoCalls, \A k : ~Has(db, RecordId(k)), \A e : ~Has(db, EffectId(e))
  PROVE  IdempotencyInvariant
<1>1. TxnShape /\ \A s \in Sessions : ~txn[s].open
  BY NoneOpen DEF NoTxns
<1>2. RecordsMatch(db) /\ AnswersIn(db, results)
  BY DEF NoCalls, RecordsMatch, AnswersIn
<1>. QED
  BY <1>1, <1>2 DEF NoCalls, IdempotencyInvariant

LEMMA CallsFollow ==
  ASSUME RecordsMatch(db), AnswersIn(db, results)
  PROVE  CalledOnce
<1>1. EffectOnce
  BY DEF RecordsMatch, EffectOnce, Present
<1>2. AnswersAgree
  BY DEF AnswersIn, AnswersAgree, Has
<1>. QED
  BY <1>1, <1>2 DEF CalledOnce

(* A client that repeats a call with the same key, at the same time or     *)
(* later, has called once, and every answer it gets is about that call.    *)
THEOREM RepeatedCallsCountOnce == IdempotencySpec => []CalledOnce
<1>1. IdempotencyInit => IdempotencyInvariant
  BY CallsBegin, NoDocument DEF IdempotencyInit
<1>2. IdempotencyInvariant => CalledOnce
  BY CallsFollow DEF IdempotencyInvariant
<1>. QED
  BY <1>1, <1>2, IdempotencyInductive, PTL DEF IdempotencySpec

-----------------------------------------------------------------------------
(* ACCOUNTS                                                                *)

LEMMA AccountIdsDistinct ==
  /\ \A c, f : ChallengeId(c) = ChallengeId(f) => c = f
  /\ \A i, j : InvitationId(i) = InvitationId(j) => i = j
  /\ \A e, f : UserId(e) = UserId(f) => e = f
  /\ \A e, f : SessionId(e) = SessionId(f) => e = f
  /\ \A x : Policy # ChallengeId(x) /\ Policy # InvitationId(x) /\ Policy # UserId(x) /\ Policy # SessionId(x)
  /\ \A x : /\ Initialization # ChallengeId(x) /\ Initialization # InvitationId(x)
            /\ Initialization # UserId(x) /\ Initialization # SessionId(x)
  /\ Policy # Initialization
  /\ \A x, y : /\ ChallengeId(x) # InvitationId(y) /\ ChallengeId(x) # UserId(y)
               /\ ChallengeId(x) # SessionId(y) /\ InvitationId(x) # UserId(y)
               /\ InvitationId(x) # SessionId(y) /\ UserId(x) # SessionId(y)
BY DEF ChallengeId, InvitationId, UserId, SessionId, Policy, Initialization

(* What an open transaction knows stays so while nobody writes what it     *)
(* writes.                                                                 *)
LEMMA AccountPendingStable ==
  ASSUME NEW d, NEW d2, NEW w, AccountPending(d, w),
         \A id : Has(w, id) => (Has(d2, id) <=> Has(d, id)) /\ (Has(d, id) => d2[id] = d[id])
  PROVE  AccountPending(d2, w)
<1>1. PICK e \in Emails :
        \/ \E c \in Challenges, i \in Invitations \cup {Nobody} : Registers(d, w, e, c, i)
        \/ Initializes(d, w, e)
        \/ \E c \in Challenges : Resets(d, w, e, c)
  BY DEF AccountPending
<1>2. ASSUME NEW c \in Challenges, NEW i \in Invitations \cup {Nobody}, Registers(d, w, e, c, i)
      PROVE  Registers(d2, w, e, c, i)
  <2>1. PolicyTaken(d2, w) /\ CodeTaken(d2, w, c) /\ d2[Policy] = d[Policy]
    BY <1>2 DEF Registers, PolicyTaken, CodeTaken
  <2>2. NewAccount(d2, w, e, "USER", c, i)
    BY <1>2 DEF Registers, NewAccount
  <2>3. i # Nobody => Has(d2, InvitationId(i)) /\ d2[InvitationId(i)] = d[InvitationId(i)]
    BY <1>2 DEF Registers
  <2>. QED
    BY <1>2, <2>1, <2>2, <2>3 DEF Registers
<1>3. ASSUME Initializes(d, w, e) PROVE Initializes(d2, w, e)
  BY <1>3 DEF Initializes, NewAccount
<1>4. ASSUME NEW c \in Challenges, Resets(d, w, e, c) PROVE Resets(d2, w, e, c)
  <2>1. PolicyTaken(d2, w) /\ CodeTaken(d2, w, c)
    BY <1>4 DEF Resets, PolicyTaken, CodeTaken
  <2>2. Has(d2, UserId(e)) /\ d2[UserId(e)] = d[UserId(e)]
    BY <1>4 DEF Resets
  <2>. QED
    BY <1>4, <2>1, <2>2 DEF Resets
<1>. QED
  BY <1>1, <1>2, <1>3, <1>4 DEF AccountPending

LEMMA RegisterKeeps ==
  ASSUME NEW d, NEW w, AccountsKept(d), NEW e \in Emails, NEW c \in Challenges,
         NEW i \in Invitations \cup {Nobody}, Registers(d, w, e, c, i)
  PROVE  AccountsKept(Apply(d, w))
<1>. DEFINE d2 == Apply(d, w)
<1>1. /\ d2[Policy] = w[Policy] /\ d2[UserId(e)] = w[UserId(e)]
      /\ d2[ChallengeId(c)] = w[ChallengeId(c)]
      /\ i # Nobody => d2[InvitationId(i)] = w[InvitationId(i)]
  BY ApplyFacts DEF Registers
<1>2. \A id : Has(d2, id) <=> Has(d, id) \/ id \in {UserId(e), SessionId(e)}
  BY ApplyFacts DEF Registers, PolicyTaken, CodeTaken
<1>3. /\ \A f \in Emails : f # e /\ Has(d, UserId(f)) => d2[UserId(f)] = d[UserId(f)]
      /\ \A f \in Challenges : f # c /\ Has(d, ChallengeId(f)) => d2[ChallengeId(f)] = d[ChallengeId(f)]
      /\ \A j \in Invitations : j # i => d2[InvitationId(j)] = d[InvitationId(j)]
      /\ Has(d, Initialization) => d2[Initialization] = d[Initialization]
  BY ApplyFacts, AccountIdsDistinct DEF Registers, AccountsKept, DocumentsTyped
<1>4. ~Has(d, UserId(e)) /\ ~d[ChallengeId(c)].consumed /\ Has(d, ChallengeId(c))
  BY DEF Registers, NewAccount, CodeTaken
<1>5. \A f : f # e => (Has(d2, UserId(f)) <=> Has(d, UserId(f)))
  BY <1>2, AccountIdsDistinct
<1>6. Has(d2, UserId(e)) /\ Has(d2, SessionId(e))
  BY <1>2
<1>7. \A f : /\ Has(d2, ChallengeId(f)) <=> Has(d, ChallengeId(f))
             /\ Has(d2, InvitationId(f)) <=> Has(d, InvitationId(f))
             /\ f # e => (Has(d2, SessionId(f)) <=> Has(d, SessionId(f)))
             /\ Has(d2, Policy) <=> Has(d, Policy)
             /\ Has(d2, Initialization) <=> Has(d, Initialization)
  BY <1>2, AccountIdsDistinct
<1>8. /\ IsPolicy(w[Policy]) /\ IsChallenge(w[ChallengeId(c)]) /\ w[ChallengeId(c)].consumed
      /\ IsUser(w[UserId(e)]) /\ w[UserId(e)].role = "USER" /\ w[UserId(e)].createdBy = c
      /\ w[UserId(e)].resetBy = {} /\ w[UserId(e)].admittedBy = i
      /\ i # Nobody => /\ IsInvitation(w[InvitationId(i)]) /\ w[InvitationId(i)].usedBy = e
                       /\ d[InvitationId(i)].usedBy = Nobody
  BY DEF Registers, PolicyTaken, CodeTaken, NewAccount
<1>. HIDE DEF d2
<1>9. DocumentsTyped(d2)
  <2>1. Has(d2, Policy) /\ IsPolicy(d2[Policy])
    BY <1>1, <1>7, <1>8 DEF AccountsKept, DocumentsTyped
  <2>2. \A j \in Invitations : Has(d2, InvitationId(j)) /\ IsInvitation(d2[InvitationId(j)])
    <3>1. \A j \in Invitations : Has(d, InvitationId(j)) /\ IsInvitation(d[InvitationId(j)])
      BY DEF AccountsKept, DocumentsTyped
    <3>2. Nobody \notin Invitations
      BY RegistrationAssumption
    <3>. QED
      BY <3>1, <3>2, <1>1, <1>3, <1>7, <1>8
  <2>3. \A x \in Challenges : Has(d2, ChallengeId(x)) => IsChallenge(d2[ChallengeId(x)])
    BY <1>1, <1>3, <1>7, <1>8 DEF AccountsKept, DocumentsTyped
  <2>4. \A f \in Emails : Has(d2, UserId(f)) => IsUser(d2[UserId(f)])
    BY <1>1, <1>3, <1>5, <1>8 DEF AccountsKept, DocumentsTyped
  <2>5. \A f \in Emails : Has(d2, UserId(f)) <=> Has(d2, SessionId(f))
    BY <1>5, <1>6, <1>7 DEF AccountsKept, DocumentsTyped
  <2>. QED
    BY <2>1, <2>2, <2>3, <2>4, <2>5 DEF DocumentsTyped
<1>10. CodesSpent(d2)
  <2>1. \A x \in Challenges, f \in Emails :
          /\ CreatedWith(d2, x, f) <=> CreatedWith(d, x, f) \/ (x = c /\ f = e)
          /\ ResetWith(d2, x, f) <=> ResetWith(d, x, f)
    BY <1>1, <1>3, <1>4, <1>5, <1>6, <1>8 DEF CreatedWith, ResetWith
  <2>2. \A f \in Emails : ~CreatedWith(d, c, f) /\ ~ResetWith(d, c, f)
    BY <1>4 DEF AccountsKept, CodesSpent
  <2>3. \A x \in Challenges : Has(d, ChallengeId(x)) /\ d[ChallengeId(x)].consumed
          => Has(d2, ChallengeId(x)) /\ d2[ChallengeId(x)].consumed
    BY <1>1, <1>3, <1>7, <1>8
  <2>4. Has(d2, ChallengeId(c)) /\ d2[ChallengeId(c)].consumed
    BY <1>1, <1>4, <1>7, <1>8
  <2>. QED
    BY <2>1, <2>2, <2>3, <2>4 DEF AccountsKept, CodesSpent
<1>11. InvitationsSpent(d2)
  <2>1. Nobody \notin Emails /\ Nobody \notin Invitations
    BY RegistrationAssumption
  <2>. QED
    BY <2>1, <1>1, <1>3, <1>4, <1>5, <1>6, <1>8 DEF AccountsKept, InvitationsSpent
<1>12. AdministratorKnown(d2)
  BY <1>1, <1>3, <1>4, <1>5, <1>6, <1>7, <1>8 DEF AccountsKept, AdministratorKnown
<1>. QED
  BY <1>9, <1>10, <1>11, <1>12 DEF d2, AccountsKept

LEMMA InitializeKeeps ==
  ASSUME NEW d, NEW w, AccountsKept(d), NEW e \in Emails, Initializes(d, w, e)
  PROVE  AccountsKept(Apply(d, w))
<1>. DEFINE d2 == Apply(d, w)
<1>1. d2[UserId(e)] = w[UserId(e)] /\ d2[Initialization] = w[Initialization]
  BY ApplyFacts DEF Initializes
<1>2. \A id : Has(d2, id) <=> Has(d, id) \/ id \in {Initialization, UserId(e), SessionId(e)}
  BY ApplyFacts DEF Initializes
<1>3. /\ \A f \in Emails : f # e /\ Has(d, UserId(f)) => d2[UserId(f)] = d[UserId(f)]
      /\ \A f \in Challenges : Has(d, ChallengeId(f)) => d2[ChallengeId(f)] = d[ChallengeId(f)]
      /\ \A j \in Invitations : d2[InvitationId(j)] = d[InvitationId(j)]
      /\ d2[Policy] = d[Policy]
  BY ApplyFacts, AccountIdsDistinct DEF Initializes, AccountsKept, DocumentsTyped
<1>4. /\ ~Has(d, UserId(e)) /\ ~Has(d, Initialization)
      /\ IsUser(w[UserId(e)]) /\ w[UserId(e)].role = "ADMIN" /\ w[UserId(e)].createdBy = Nobody
      /\ w[UserId(e)].resetBy = {} /\ w[UserId(e)].admittedBy = Nobody
      /\ w[Initialization].administrator = e
  BY DEF Initializes, NewAccount
<1>5. /\ \A f : f # e => (Has(d2, UserId(f)) <=> Has(d, UserId(f)))
                         /\ (Has(d2, SessionId(f)) <=> Has(d, SessionId(f)))
      /\ Has(d2, UserId(e)) /\ Has(d2, SessionId(e)) /\ Has(d2, Initialization)
      /\ \A f : /\ Has(d2, ChallengeId(f)) <=> Has(d, ChallengeId(f))
                /\ Has(d2, InvitationId(f)) <=> Has(d, InvitationId(f))
      /\ Has(d2, Policy) <=> Has(d, Policy)
  BY <1>2, AccountIdsDistinct
<1>6. Nobody \notin Emails /\ Nobody \notin Invitations /\ Nobody \notin Challenges
  BY RegistrationAssumption
<1>. HIDE DEF d2
<1>7. DocumentsTyped(d2)
  BY <1>1, <1>3, <1>4, <1>5 DEF AccountsKept, DocumentsTyped
<1>8. CodesSpent(d2)
  <2>1. \A x \in Challenges, f \in Emails :
          /\ CreatedWith(d2, x, f) <=> CreatedWith(d, x, f)
          /\ ResetWith(d2, x, f) <=> ResetWith(d, x, f)
    BY <1>1, <1>3, <1>4, <1>5, <1>6 DEF CreatedWith, ResetWith
  <2>. QED
    BY <2>1, <1>3, <1>5 DEF AccountsKept, CodesSpent
<1>9. InvitationsSpent(d2)
  BY <1>1, <1>3, <1>4, <1>5, <1>6 DEF AccountsKept, InvitationsSpent
<1>10. AdministratorKnown(d2)
  BY <1>1, <1>3, <1>4, <1>5 DEF AccountsKept, AdministratorKnown
<1>. QED
  BY <1>7, <1>8, <1>9, <1>10 DEF d2, AccountsKept

LEMMA ResetKeeps ==
  ASSUME NEW d, NEW w, AccountsKept(d), NEW e \in Emails, NEW c \in Challenges,
         Resets(d, w, e, c)
  PROVE  AccountsKept(Apply(d, w))
<1>. DEFINE d2 == Apply(d, w)
<1>1. /\ d2[Policy] = w[Policy] /\ d2[UserId(e)] = w[UserId(e)]
      /\ d2[ChallengeId(c)] = w[ChallengeId(c)]
  BY ApplyFacts DEF Resets
<1>2. Has(d, UserId(e)) /\ Has(d, SessionId(e)) /\ IsUser(d[UserId(e)])
  BY DEF Resets, AccountsKept, DocumentsTyped
<1>3. \A id : Has(d2, id) <=> Has(d, id)
  BY <1>2, ApplyFacts DEF Resets, PolicyTaken, CodeTaken
<1>4. /\ \A f \in Emails : f # e /\ Has(d, UserId(f)) => d2[UserId(f)] = d[UserId(f)]
      /\ \A f \in Challenges : f # c /\ Has(d, ChallengeId(f)) => d2[ChallengeId(f)] = d[ChallengeId(f)]
      /\ \A j \in Invitations : d2[InvitationId(j)] = d[InvitationId(j)]
      /\ Has(d, Initialization) => d2[Initialization] = d[Initialization]
  BY ApplyFacts, AccountIdsDistinct DEF Resets, AccountsKept, DocumentsTyped
<1>5. /\ IsPolicy(w[Policy]) /\ IsChallenge(w[ChallengeId(c)]) /\ w[ChallengeId(c)].consumed
      /\ Has(d, ChallengeId(c)) /\ ~d[ChallengeId(c)].consumed
      /\ w[UserId(e)] = [d[UserId(e)] EXCEPT !.tokenVersion = @ + 1, !.resetBy = @ \cup {c}]
  BY DEF Resets, PolicyTaken, CodeTaken
<1>6. \A f \in Emails : ~CreatedWith(d, c, f) /\ ~ResetWith(d, c, f)
  BY <1>5 DEF AccountsKept, CodesSpent
<1>7. LET x == d[UserId(e)]
          y == w[UserId(e)]
      IN  /\ y = [role |-> y.role, createdBy |-> y.createdBy, resetBy |-> y.resetBy,
                  tokenVersion |-> y.tokenVersion, policy |-> y.policy, admittedBy |-> y.admittedBy]
          /\ y.role = x.role /\ y.createdBy = x.createdBy /\ y.admittedBy = x.admittedBy
          /\ y.tokenVersion = x.tokenVersion + 1 /\ y.resetBy = x.resetBy \cup {c}
  BY <1>2, <1>5 DEF IsUser
<1>8. c \notin d[UserId(e)].resetBy
  BY <1>2, <1>6 DEF ResetWith
<1>9. /\ IsFiniteSet(d[UserId(e)].resetBy \cup {c})
      /\ Cardinality(d[UserId(e)].resetBy \cup {c}) = Cardinality(d[UserId(e)].resetBy) + 1
  BY <1>2, <1>8, FS_AddElement DEF IsUser
<1>10. IsUser(w[UserId(e)])
  BY <1>2, <1>7, <1>9 DEF IsUser
<1>. HIDE DEF d2
<1>11. DocumentsTyped(d2)
  BY <1>1, <1>3, <1>4, <1>5, <1>10 DEF AccountsKept, DocumentsTyped
<1>12. CodesSpent(d2)
  <2>1. \A x \in Challenges, f \in Emails :
          /\ CreatedWith(d2, x, f) <=> CreatedWith(d, x, f)
          /\ ResetWith(d2, x, f) <=> ResetWith(d, x, f) \/ (x = c /\ f = e)
    BY <1>1, <1>2, <1>3, <1>4, <1>7 DEF CreatedWith, ResetWith
  <2>2. \A x \in Challenges : Has(d, ChallengeId(x)) /\ d[ChallengeId(x)].consumed
          => Has(d2, ChallengeId(x)) /\ d2[ChallengeId(x)].consumed
    BY <1>1, <1>3, <1>4, <1>5
  <2>3. Has(d2, ChallengeId(c)) /\ d2[ChallengeId(c)].consumed
    BY <1>1, <1>3, <1>5
  <2>. QED
    BY <2>1, <2>2, <2>3, <1>6 DEF AccountsKept, CodesSpent
<1>13. InvitationsSpent(d2)
  BY <1>1, <1>2, <1>3, <1>4, <1>7 DEF AccountsKept, InvitationsSpent
<1>14. AdministratorKnown(d2)
  BY <1>1, <1>2, <1>3, <1>4, <1>7 DEF AccountsKept, AdministratorKnown
<1>. QED
  BY <1>11, <1>12, <1>13, <1>14 DEF d2, AccountsKept

LEMMA AccountCommitKeeps ==
  ASSUME NEW d, NEW w, AccountsKept(d), AccountPending(d, w)
  PROVE  AccountsKept(Apply(d, w))
BY RegisterKeeps, InitializeKeeps, ResetKeeps DEF AccountPending

(* What the requests that open a transaction are about to do.              *)
LEMMA NewUser ==
  ASSUME NEW role \in {"USER", "ADMIN"}, NEW c, NEW v, NEW i
  PROVE  LET x == [role |-> role, createdBy |-> c, resetBy |-> {},
                   tokenVersion |-> 0, policy |-> v, admittedBy |-> i]
         IN  IsUser(x) /\ x.role = role /\ x.createdBy = c /\ x.resetBy = {} /\ x.policy = v
             /\ x.admittedBy = i
<1>1. IsFiniteSet({}) /\ Cardinality({}) = 0
  BY FS_EmptySet
<1>. QED
  BY <1>1 DEF IsUser

LEMMA AccountWrites ==
  ASSUME NEW r, NEW role, NEW i
  PROVE  LET w == Account(r, role, i)
         IN  /\ \A id : Has(w, id) <=> (id = SessionId(r.email) \/ id = UserId(r.email))
             /\ w[UserId(r.email)] =
                  [role |-> role, createdBy |-> r.challenge, resetBy |-> {},
                   tokenVersion |-> 0, policy |-> r.version, admittedBy |-> i]
<1>1. SessionId(r.email) # UserId(r.email)
  BY AccountIdsDistinct
<1>. QED
  BY <1>1, TwoDocuments DEF Account

LEMMA PolicyHeldTakes ==
  ASSUME AccountsKept(db)
  PROVE  /\ \A id : Has(PolicyHeld, id) <=> id = Policy
         /\ IsPolicy(PolicyHeld[Policy])
         /\ PolicyHeld[Policy].version = db[Policy].version
         /\ PolicyHeld[Policy].invite = db[Policy].invite
<1>1. IsPolicy(db[Policy])
  BY DEF AccountsKept, DocumentsTyped
<1>2. /\ \A id : Has(PolicyHeld, id) <=> id = Policy
      /\ PolicyHeld[Policy] = [db[Policy] EXCEPT !.uses = (db[Policy].uses + 1) % 2]
  BY OneDocument DEF PolicyHeld
<1>. QED
  BY <1>1, <1>2 DEF IsPolicy

LEMMA CodeConsumedTakes ==
  ASSUME AccountsKept(db), NEW c \in Challenges, Has(db, ChallengeId(c))
  PROVE  /\ \A id : Has(ChallengeConsumed(c), id) <=> id = ChallengeId(c)
         /\ IsChallenge(ChallengeConsumed(c)[ChallengeId(c)])
         /\ ChallengeConsumed(c)[ChallengeId(c)].consumed
<1>1. IsChallenge(db[ChallengeId(c)])
  BY DEF AccountsKept, DocumentsTyped
<1>2. /\ \A id : Has(ChallengeConsumed(c), id) <=> id = ChallengeId(c)
      /\ ChallengeConsumed(c)[ChallengeId(c)] = [db[ChallengeId(c)] EXCEPT !.consumed = TRUE]
  BY OneDocument DEF ChallengeConsumed
<1>. QED
  BY <1>1, <1>2 DEF IsChallenge

LEMMA InvitationUsedTakes ==
  ASSUME AccountsKept(db), NEW i \in Invitations, NEW e \in Emails, ~db[InvitationId(i)].revoked
  PROVE  /\ \A id : Has(InvitationUsed(i, e), id) <=> id = InvitationId(i)
         /\ IsInvitation(InvitationUsed(i, e)[InvitationId(i)])
         /\ InvitationUsed(i, e)[InvitationId(i)].usedBy = e
<1>1. IsInvitation(db[InvitationId(i)])
  BY DEF AccountsKept, DocumentsTyped
<1>2. /\ \A id : Has(InvitationUsed(i, e), id) <=> id = InvitationId(i)
      /\ InvitationUsed(i, e)[InvitationId(i)] = [db[InvitationId(i)] EXCEPT !.usedBy = e]
  BY OneDocument DEF InvitationUsed
<1>. QED
  BY <1>1, <1>2 DEF IsInvitation

(* A step that opens a transaction keeps the invariant if what it opens is *)
(* pending.                                                                *)
LEMMA RegisterOpens ==
  ASSUME RegistrationInvariant, NEW s \in Sessions, Register(s)
  PROVE  \E w : OpenTxn(s, w) /\ UNCHANGED requests /\ AccountPending(db, w)
<1>. DEFINE r == requests[s]
            e == r.email
            c == r.challenge
            i == IF NeedsInvitation(r) THEN r.invitation ELSE Nobody
            account == Account(r, "USER", i)
            code == ChallengeConsumed(c)
            used == IF NeedsInvitation(r) THEN InvitationUsed(r.invitation, e) ELSE <<>>
            w == Apply(Apply(PolicyHeld, account), Apply(code, used))
<1>1. /\ r.op = "REGISTER" /\ SamePolicy(r) /\ IsFree(r) /\ StillUsable(c)
      /\ NeedsInvitation(r) => r.invitation # Nobody /\ Redeemable(db[InvitationId(r.invitation)])
      /\ OpenTxn(s, w) /\ UNCHANGED requests
  BY DEF Register
<1>2. AccountsKept(db) /\ RequestKnown(db, r)
  BY <1>1 DEF RegistrationInvariant, NoRequest
<1>3. /\ e \in Emails /\ r.invitation \in Invitations \cup {Nobody}
      /\ c \in Challenges /\ Has(db, ChallengeId(c))
  BY <1>1, <1>2 DEF RequestKnown, Request, Purposes
<1>4. i \in Invitations \cup {Nobody} /\ (i = Nobody => used = <<>>)
      /\ (i # Nobody => used = InvitationUsed(i, e) /\ Redeemable(db[InvitationId(i)]))
      /\ (db[Policy].invite => i # Nobody)
  BY <1>1, <1>3 DEF NeedsInvitation
<1>5. /\ \A id : Has(account, id) <=> id \in {UserId(e), SessionId(e)}
      /\ account[UserId(e)] = [role |-> "USER", createdBy |-> c, resetBy |-> {},
                              tokenVersion |-> 0, policy |-> r.version, admittedBy |-> i]
  BY AccountWrites
<1>6. /\ \A id : Has(PolicyHeld, id) <=> id = Policy
      /\ IsPolicy(PolicyHeld[Policy])
      /\ PolicyHeld[Policy].version = db[Policy].version
      /\ PolicyHeld[Policy].invite = db[Policy].invite
  BY <1>2, PolicyHeldTakes
<1>7. /\ \A id : Has(code, id) <=> id = ChallengeId(c)
      /\ IsChallenge(code[ChallengeId(c)]) /\ code[ChallengeId(c)].consumed
  BY <1>2, <1>3, CodeConsumedTakes
<1>8. /\ \A id : Has(used, id) <=> i # Nobody /\ id = InvitationId(i)
      /\ i # Nobody => /\ IsInvitation(used[InvitationId(i)])
                       /\ used[InvitationId(i)].usedBy = e
                       /\ db[InvitationId(i)].usedBy = Nobody /\ Has(db, InvitationId(i))
  <2>1. CASE i = Nobody
    BY <2>1, <1>4, NoDocument
  <2>2. CASE i # Nobody
    <3>1. i \in Invitations /\ ~db[InvitationId(i)].revoked /\ db[InvitationId(i)].usedBy = Nobody
      BY <2>2, <1>4 DEF Redeemable
    <3>. QED
      BY <2>2, <3>1, <1>2, <1>3, <1>4, InvitationUsedTakes DEF AccountsKept, DocumentsTyped
  <2>. QED
    BY <2>1, <2>2
<1>9. /\ ~Has(db, UserId(e)) /\ ~db[ChallengeId(c)].consumed /\ r.version = db[Policy].version
      /\ Has(db, Policy)
  BY <1>1, <1>2 DEF IsFree, StillUsable, Usable, SamePolicy, AccountsKept, DocumentsTyped
<1>. HIDE DEF account, code, used, i, r
<1>10. /\ \A id : Has(w, id) <=> \/ id \in {Policy, UserId(e), SessionId(e), ChallengeId(c)}
                                 \/ i # Nobody /\ id = InvitationId(i)
       /\ w[Policy] = PolicyHeld[Policy] /\ w[UserId(e)] = account[UserId(e)]
       /\ w[ChallengeId(c)] = code[ChallengeId(c)]
       /\ i # Nobody => w[InvitationId(i)] = used[InvitationId(i)]
  BY <1>5, <1>6, <1>7, <1>8, ApplyFacts, AccountIdsDistinct
<1>. HIDE DEF w
<1>11. NewAccount(db, w, e, "USER", c, i) /\ w[UserId(e)].policy = r.version
  BY <1>5, <1>9, <1>10, NewUser DEF NewAccount
<1>12. PolicyTaken(db, w) /\ CodeTaken(db, w, c)
  BY <1>3, <1>6, <1>7, <1>9, <1>10 DEF PolicyTaken, CodeTaken
<1>13. Registers(db, w, e, c, i)
  BY <1>4, <1>8, <1>9, <1>10, <1>11, <1>12 DEF Registers
<1>. QED
  BY <1>1, <1>3, <1>4, <1>13 DEF AccountPending, w, account, code, used, i, r

LEMMA InitializeOpens ==
  ASSUME RegistrationInvariant, NEW s \in Sessions, Initialize(s)
  PROVE  \E w : OpenTxn(s, w) /\ UNCHANGED requests /\ AccountPending(db, w)
<1>. DEFINE r == requests[s]
            e == r.email
            account == Account(r, "ADMIN", Nobody)
            w == Apply(account, Initialized(r))
<1>1. /\ r.op = "INITIALIZE" /\ IsFree(r) /\ ~Has(db, Initialization)
      /\ OpenTxn(s, w) /\ UNCHANGED requests
  BY DEF Initialize
<1>2. RequestKnown(db, r)
  BY <1>1 DEF RegistrationInvariant, NoRequest
<1>3. e \in Emails /\ r.challenge = Nobody
  BY <1>1, <1>2 DEF RequestKnown, Request
<1>4. /\ \A id : Has(account, id) <=> id \in {UserId(e), SessionId(e)}
      /\ account[UserId(e)] = [role |-> "ADMIN", createdBy |-> Nobody, resetBy |-> {},
                              tokenVersion |-> 0, policy |-> r.version, admittedBy |-> Nobody]
  BY <1>3, AccountWrites
<1>5. /\ \A id : Has(Initialized(r), id) <=> id = Initialization
      /\ Initialized(r)[Initialization].administrator = e
  BY OneDocument DEF Initialized
<1>6. ~Has(db, UserId(e))
  BY <1>1 DEF IsFree
<1>. HIDE DEF account, r
<1>7. /\ \A id : Has(w, id) <=> id \in {Initialization, UserId(e), SessionId(e)}
      /\ w[UserId(e)] = account[UserId(e)] /\ w[Initialization] = Initialized(r)[Initialization]
  BY <1>4, <1>5, ApplyFacts, AccountIdsDistinct
<1>. HIDE DEF w
<1>8. NewAccount(db, w, e, "ADMIN", Nobody, Nobody)
  BY <1>4, <1>6, <1>7, NewUser DEF NewAccount
<1>9. Initializes(db, w, e)
  BY <1>1, <1>5, <1>7, <1>8 DEF Initializes
<1>. QED
  BY <1>1, <1>3, <1>9 DEF AccountPending, w, account, r

LEMMA ResetOpens ==
  ASSUME RegistrationInvariant, NEW s \in Sessions, ResetPassword(s)
  PROVE  \E w : OpenTxn(s, w) /\ UNCHANGED requests /\ AccountPending(db, w)
<1>. DEFINE r == requests[s]
            e == r.email
            c == r.challenge
            code == ChallengeConsumed(c)
            user == [db[UserId(e)] EXCEPT !.tokenVersion = @ + 1, !.resetBy = @ \cup {c}]
            account == Apply(Put(UserId(e), user), SessionsRevoked(e))
            w == Apply(Apply(PolicyHeld, code), account)
<1>1. /\ r.op = "RESET_PASSWORD" /\ Has(db, UserId(e)) /\ StillUsable(c)
      /\ OpenTxn(s, w) /\ UNCHANGED requests
  BY DEF ResetPassword
<1>2. AccountsKept(db) /\ RequestKnown(db, r)
  BY <1>1 DEF RegistrationInvariant, NoRequest
<1>3. e \in Emails /\ c \in Challenges /\ Has(db, ChallengeId(c))
  BY <1>1, <1>2 DEF RequestKnown, Request, Purposes
<1>. HIDE DEF user
<1>5. /\ \A id : Has(account, id) <=> id \in {UserId(e), SessionId(e)}
      /\ account[UserId(e)] = user
  <2>1. SessionId(e) # UserId(e)
    BY AccountIdsDistinct
  <2>. QED
    BY <2>1, TwoDocuments DEF SessionsRevoked
<1>6. /\ \A id : Has(PolicyHeld, id) <=> id = Policy
      /\ IsPolicy(PolicyHeld[Policy])
      /\ PolicyHeld[Policy].version = db[Policy].version
      /\ PolicyHeld[Policy].invite = db[Policy].invite
  BY <1>2, PolicyHeldTakes
<1>7. /\ \A id : Has(code, id) <=> id = ChallengeId(c)
      /\ IsChallenge(code[ChallengeId(c)]) /\ code[ChallengeId(c)].consumed
  BY <1>2, <1>3, CodeConsumedTakes
<1>8. Has(db, Policy) /\ ~db[ChallengeId(c)].consumed
  BY <1>1, <1>2 DEF StillUsable, Usable, AccountsKept, DocumentsTyped
<1>. HIDE DEF account, code, r
<1>9. /\ \A id : Has(w, id) <=> id \in {Policy, UserId(e), SessionId(e), ChallengeId(c)}
      /\ w[Policy] = PolicyHeld[Policy] /\ w[UserId(e)] = user
      /\ w[ChallengeId(c)] = code[ChallengeId(c)]
  BY <1>5, <1>6, <1>7, ApplyFacts, AccountIdsDistinct
<1>. HIDE DEF w
<1>10. PolicyTaken(db, w) /\ CodeTaken(db, w, c)
  BY <1>3, <1>6, <1>7, <1>8, <1>9 DEF PolicyTaken, CodeTaken
<1>11. Resets(db, w, e, c)
  BY <1>1, <1>9, <1>10 DEF Resets, user
<1>. QED
  BY <1>1, <1>3, <1>11 DEF AccountPending, w, account, code, user, r

(* A write of one document, or an expiry, changes no account.              *)
LEMMA PolicyUpdateKeeps ==
  ASSUME AccountsKept(db), db[Policy].version < MaxPolicyVersion, NEW invite \in BOOLEAN
  PROVE  AccountsKept(Apply(db, Put(Policy, [db[Policy] EXCEPT !.version = @ + 1, !.invite = invite])))
<1>. DEFINE x == [db[Policy] EXCEPT !.version = @ + 1, !.invite = invite]
            d2 == Apply(db, Put(Policy, x))
<1>1. IsPolicy(db[Policy]) /\ Has(db, Policy)
  BY DEF AccountsKept, DocumentsTyped
<1>2. IsPolicy(x)
  <2>1. /\ x = [version |-> x.version, invite |-> x.invite, uses |-> x.uses]
        /\ x.version = db[Policy].version + 1 /\ x.invite = invite
    <3>1. PICK v, b, u :
            v \in 1..MaxPolicyVersion /\ db[Policy] = [version |-> v, invite |-> b, uses |-> u]
      BY <1>1 DEF IsPolicy
    <3>2. x = [[version |-> v, invite |-> b, uses |-> u] EXCEPT !.version = @ + 1, !.invite = invite]
      BY <3>1, Zenon
    <3>. HIDE DEF x
    <3>3. x = [version |-> v + 1, invite |-> invite, uses |-> u]
      BY <3>2
    <3>. QED
      BY <3>1, <3>3
  <2>2. db[Policy].version + 1 \in 1..MaxPolicyVersion
    BY <1>1, RegistrationAssumption DEF IsPolicy
  <2>. QED
    BY <2>1, <2>2 DEF IsPolicy
<1>. HIDE DEF x
<1>3. /\ \A id : Has(d2, id) <=> Has(db, id)
      /\ d2[Policy] = x
      /\ \A id : Has(db, id) /\ id # Policy => d2[id] = db[id]
  BY <1>1, ApplyFacts, OneDocument
<1>. HIDE DEF d2
<1>4. DocumentsTyped(d2)
  BY <1>2, <1>3, AccountIdsDistinct DEF AccountsKept, DocumentsTyped
<1>5. CodesSpent(d2)
  BY <1>3, AccountIdsDistinct DEF AccountsKept, CodesSpent, CreatedWith, ResetWith
<1>6. InvitationsSpent(d2)
  BY <1>3, AccountIdsDistinct DEF AccountsKept, DocumentsTyped, InvitationsSpent
<1>7. AdministratorKnown(d2)
  BY <1>3, AccountIdsDistinct DEF AccountsKept, AdministratorKnown
<1>. QED
  BY <1>4, <1>5, <1>6, <1>7 DEF AccountsKept, d2, x

LEMMA ChallengeWriteKeeps ==
  ASSUME NEW d, AccountsKept(d), NEW c \in Challenges, NEW x, IsChallenge(x),
         Has(d, ChallengeId(c)) => x.consumed = d[ChallengeId(c)].consumed
  PROVE  AccountsKept(Apply(d, Put(ChallengeId(c), x)))
<1>. DEFINE d2 == Apply(d, Put(ChallengeId(c), x))
<1>1. /\ \A id : Has(d2, id) <=> Has(d, id) \/ id = ChallengeId(c)
      /\ d2[ChallengeId(c)] = x
      /\ \A id : Has(d, id) /\ id # ChallengeId(c) => d2[id] = d[id]
  BY ApplyFacts, OneDocument
<1>. HIDE DEF d2
<1>2. DocumentsTyped(d2)
  BY <1>1, AccountIdsDistinct DEF AccountsKept, DocumentsTyped
<1>3. CodesSpent(d2)
  <2>1. \A y \in Challenges, f \in Emails :
          /\ CreatedWith(d2, y, f) <=> CreatedWith(d, y, f)
          /\ ResetWith(d2, y, f) <=> ResetWith(d, y, f)
    BY <1>1, AccountIdsDistinct DEF CreatedWith, ResetWith
  <2>2. \A y \in Challenges : Has(d, ChallengeId(y)) /\ d[ChallengeId(y)].consumed
          => Has(d2, ChallengeId(y)) /\ d2[ChallengeId(y)].consumed
    BY <1>1, AccountIdsDistinct
  <2>. QED
    BY <2>1, <2>2 DEF AccountsKept, CodesSpent
<1>4. InvitationsSpent(d2)
  BY <1>1, AccountIdsDistinct DEF AccountsKept, DocumentsTyped, InvitationsSpent
<1>5. AdministratorKnown(d2)
  BY <1>1, AccountIdsDistinct DEF AccountsKept, AdministratorKnown
<1>. QED
  BY <1>2, <1>3, <1>4, <1>5 DEF AccountsKept, d2

LEMMA InvitationWriteKeeps ==
  ASSUME NEW d, AccountsKept(d), NEW i \in Invitations, NEW x, IsInvitation(x),
         x.usedBy = d[InvitationId(i)].usedBy
  PROVE  AccountsKept(Apply(d, Put(InvitationId(i), x)))
<1>. DEFINE d2 == Apply(d, Put(InvitationId(i), x))
<1>1. Has(d, InvitationId(i))
  BY DEF AccountsKept, DocumentsTyped
<1>2. /\ \A id : Has(d2, id) <=> Has(d, id)
      /\ d2[InvitationId(i)] = x
      /\ \A id : Has(d, id) /\ id # InvitationId(i) => d2[id] = d[id]
  BY <1>1, ApplyFacts, OneDocument
<1>. HIDE DEF d2
<1>3. DocumentsTyped(d2)
  BY <1>2, AccountIdsDistinct DEF AccountsKept, DocumentsTyped
<1>4. CodesSpent(d2)
  BY <1>2, AccountIdsDistinct DEF AccountsKept, CodesSpent, CreatedWith, ResetWith
<1>5. InvitationsSpent(d2)
  BY <1>2, AccountIdsDistinct DEF AccountsKept, DocumentsTyped, InvitationsSpent
<1>6. AdministratorKnown(d2)
  BY <1>2, AccountIdsDistinct DEF AccountsKept, AdministratorKnown
<1>. QED
  BY <1>3, <1>4, <1>5, <1>6 DEF AccountsKept, d2

(* An update of one field.                                                 *)
LEMMA ChallengeField ==
  ASSUME NEW x, IsChallenge(x), NEW y,
         y = [x EXCEPT !.expired = TRUE] \/ y = [x EXCEPT !.failures = x.failures + 1]
  PROVE  IsChallenge(y) /\ y.consumed = x.consumed
BY DEF IsChallenge

LEMMA InvitationField ==
  ASSUME NEW x, IsInvitation(x), NEW y,
         y = [x EXCEPT !.expired = TRUE] \/ (y = [x EXCEPT !.revoked = TRUE] /\ x.usedBy = Nobody)
  PROVE  IsInvitation(y) /\ y.usedBy = x.usedBy
BY DEF IsInvitation

(* A code or an invitation that expires: its other fields stay, and so     *)
(* does every other document.                                              *)
LEMMA ExpiryEffect ==
  ASSUME AccountsKept(db), NEW id, CodeExpires(id),
         (\E c \in Challenges : id = ChallengeId(c)) \/ (\E i \in Invitations : id = InvitationId(i))
  PROVE  /\ AccountsKept(db')
         /\ \A w : AccountPending(db, w) => AccountPending(db', w)
<1>. DEFINE x == [db[id] EXCEPT !.expired = TRUE]
<1>1. Has(db, id) /\ db' = [db EXCEPT ![id].expired = TRUE]
  BY DEF CodeExpires
<1>2. db' = Apply(db, Put(id, x))
  BY <1>1 DEF Apply, Put, Has
<1>3. ASSUME NEW c \in Challenges, id = ChallengeId(c)
      PROVE  IsChallenge(x) /\ x.consumed = db[id].consumed
  <2>1. IsChallenge(db[id])
    BY <1>1, <1>3 DEF AccountsKept, DocumentsTyped
  <2>. QED
    BY <2>1, ChallengeField
<1>4. ASSUME NEW i \in Invitations, id = InvitationId(i)
      PROVE  IsInvitation(x) /\ x.usedBy = db[id].usedBy
  <2>1. IsInvitation(db[id])
    BY <1>1, <1>4 DEF AccountsKept, DocumentsTyped
  <2>. QED
    BY <2>1, InvitationField
<1>. HIDE DEF x
<1>5. AccountsKept(db')
  BY <1>2, <1>3, <1>4, ChallengeWriteKeeps, InvitationWriteKeeps
<1>6. /\ \A y : Has(db', y) <=> Has(db, y)
      /\ \A y : Has(db, y) /\ y # id => db'[y] = db[y]
      /\ db'[id] = x
  <2>1. Has(db, id)
    BY <1>1
  <2>. QED
    BY <2>1, <1>2, ApplyFacts, OneDocument
<1>7. /\ Has(db, Policy) => db'[Policy] = db[Policy]
      /\ \A e : Has(db, UserId(e)) => db'[UserId(e)] = db[UserId(e)]
      /\ \A c \in Challenges : Has(db, ChallengeId(c)) =>
           db'[ChallengeId(c)].consumed = db[ChallengeId(c)].consumed
      /\ \A i \in Invitations : Has(db, InvitationId(i)) =>
           db'[InvitationId(i)].usedBy = db[InvitationId(i)].usedBy
  BY <1>3, <1>4, <1>6, AccountIdsDistinct
<1>8. ASSUME NEW w, AccountPending(db, w) PROVE AccountPending(db', w)
  <2>1. PICK e \in Emails :
        \/ \E c \in Challenges, i \in Invitations \cup {Nobody} : Registers(db, w, e, c, i)
        \/ Initializes(db, w, e)
        \/ \E c \in Challenges : Resets(db, w, e, c)
    BY <1>8 DEF AccountPending
  <2>2. ASSUME NEW c \in Challenges, NEW i \in Invitations \cup {Nobody}, Registers(db, w, e, c, i)
        PROVE  Registers(db', w, e, c, i)
    <3>1. PolicyTaken(db', w) /\ CodeTaken(db', w, c) /\ db'[Policy] = db[Policy]
      BY <2>2, <1>6, <1>7 DEF Registers, PolicyTaken, CodeTaken
    <3>2. NewAccount(db', w, e, "USER", c, i)
      BY <2>2, <1>6 DEF Registers, NewAccount
    <3>3. i # Nobody =>
            Has(db', InvitationId(i)) /\ db'[InvitationId(i)].usedBy = db[InvitationId(i)].usedBy
      BY <2>2, <1>6, <1>7 DEF Registers
    <3>. QED
      BY <2>2, <3>1, <3>2, <3>3 DEF Registers
  <2>3. ASSUME Initializes(db, w, e) PROVE Initializes(db', w, e)
    BY <2>3, <1>6 DEF Initializes, NewAccount
  <2>4. ASSUME NEW c \in Challenges, Resets(db, w, e, c) PROVE Resets(db', w, e, c)
    <3>1. PolicyTaken(db', w) /\ CodeTaken(db', w, c)
      BY <2>4, <1>6, <1>7 DEF Resets, PolicyTaken, CodeTaken
    <3>2. Has(db', UserId(e)) /\ db'[UserId(e)] = db[UserId(e)]
      BY <2>4, <1>6, <1>7 DEF Resets
    <3>. QED
      BY <2>4, <3>1, <3>2 DEF Resets
  <2>. QED
    BY <2>1, <2>2, <2>3, <2>4 DEF AccountPending
<1>. QED
  BY <1>5, <1>8

(* The steps: a transaction that begins, one that commits, and a write of  *)
(* one document.                                                           *)
LEMMA AccountOpenInductive ==
  ASSUME RegistrationInvariant, NEW s \in Sessions, NEW w, OpenTxn(s, w), UNCHANGED requests,
         AccountPending(db, w)
  PROVE  RegistrationInvariant'
BY OpenEffect DEF RegistrationInvariant

LEMMA AccountWriteInductive ==
  ASSUME RegistrationInvariant, NEW w, WriteNow(w), AccountsKept(Apply(db, w))
  PROVE  RegistrationInvariant'
<1>1. /\ db' = Apply(db, w) /\ TxnShape'
      /\ \A u \in Sessions : txn'[u].open =>
           txn[u].open /\ txn'[u].writes = txn[u].writes /\ Apart(txn[u].writes, w)
  BY AloneEffect DEF RegistrationInvariant, WriteNow
<1>2. /\ \A id : Has(db, id) => Has(db', id)
      /\ \A id : ~Has(w, id) => (Has(db', id) <=> Has(db, id)) /\ (Has(db, id) => db'[id] = db[id])
  BY <1>1, ApplyFacts
<1>3. ASSUME NEW u \in Sessions, txn'[u].open PROVE AccountPending(db', txn'[u].writes)
  <2>1. AccountPending(db, txn[u].writes) /\ txn'[u].writes = txn[u].writes /\ Apart(txn[u].writes, w)
    BY <1>1, <1>3 DEF RegistrationInvariant
  <2>. QED
    BY <2>1, <1>2, AccountPendingStable DEF Apart
<1>4. \A r : RequestKnown(db, r) => RequestKnown(db', r)
  BY <1>2 DEF RequestKnown
<1>. QED
  BY <1>1, <1>3, <1>4 DEF RegistrationInvariant, WriteNow

LEMMA RespondInductive ==
  ASSUME RegistrationInvariant, NEW s \in Sessions, Respond(s)
  PROVE  RegistrationInvariant'
<1>. DEFINE w == txn[s].writes
<1>1. /\ txn[s].open /\ db' = Apply(db, w) /\ TxnShape'
      /\ \A u \in Sessions : txn'[u].open =>
           txn[u].open /\ txn'[u].writes = txn[u].writes /\ Apart(txn[u].writes, w)
  BY CommitEffect DEF RegistrationInvariant, Respond
<1>2. /\ \A id : Has(db, id) => Has(db', id)
      /\ \A id : ~Has(w, id) => (Has(db', id) <=> Has(db, id)) /\ (Has(db, id) => db'[id] = db[id])
  BY <1>1, ApplyFacts
<1>3. ASSUME NEW u \in Sessions, txn'[u].open PROVE AccountPending(db', txn'[u].writes)
  <2>1. AccountPending(db, txn[u].writes) /\ txn'[u].writes = txn[u].writes /\ Apart(txn[u].writes, w)
    BY <1>1, <1>3 DEF RegistrationInvariant
  <2>. QED
    BY <2>1, <1>2, AccountPendingStable DEF Apart
<1>4. \A r : RequestKnown(db, r) => RequestKnown(db', r)
  BY <1>2 DEF RequestKnown
<1>5. AccountsKept(db')
  BY <1>1, AccountCommitKeeps DEF RegistrationInvariant
<1>6. /\ DOMAIN requests' = Sessions
      /\ \A u \in Sessions : requests'[u] = NoRequest \/ requests'[u] = requests[u]
  BY DEF RegistrationInvariant, Respond
<1>. QED
  BY <1>1, <1>3, <1>4, <1>5, <1>6 DEF RegistrationInvariant

LEMMA FailInductive ==
  ASSUME RegistrationInvariant, NEW s \in Sessions, Fail(s)
  PROVE  RegistrationInvariant'
<1>1. /\ db' = db
      /\ DOMAIN requests' = Sessions
      /\ \A u \in Sessions : requests'[u] = NoRequest \/ requests'[u] = requests[u]
  BY DEF RegistrationInvariant, Fail
<1>2. /\ TxnShape'
      /\ \A u \in Sessions : txn'[u].open => txn[u].open /\ txn'[u].writes = txn[u].writes
  BY DEF RegistrationInvariant, Fail, TxnShape, NoTxn
<1>. QED
  BY <1>1, <1>2 DEF RegistrationInvariant

LEMMA AskInductive ==
  ASSUME RegistrationInvariant, NEW s \in Sessions, Verify(s) \/ AskInitialize(s)
  PROVE  RegistrationInvariant'
<1>1. PICK r : RequestKnown(db, r) /\ requests' = [requests EXCEPT ![s] = r] /\ UNCHANGED <<db, txn>>
  <2>1. CASE Verify(s)
    <3>1. PICK c \in Challenges, i \in Invitations \cup {Nobody} :
            /\ Has(db, ChallengeId(c))
            /\ requests' = [requests EXCEPT ![s] =
                 [op |-> db[ChallengeId(c)].purpose, challenge |-> c, email |-> db[ChallengeId(c)].email,
                  invitation |-> i, version |-> db[ChallengeId(c)].version]]
            /\ UNCHANGED <<db, txn>>
      BY <2>1 DEF Verify
    <3>2. IsChallenge(db[ChallengeId(c)])
      BY <3>1 DEF RegistrationInvariant, AccountsKept, DocumentsTyped
    <3>. DEFINE q == [op |-> db[ChallengeId(c)].purpose, challenge |-> c, email |-> db[ChallengeId(c)].email,
                      invitation |-> i, version |-> db[ChallengeId(c)].version]
    <3>3. q \in Request
      BY <3>2, Zenon DEF IsChallenge, Request
    <3>4. q.op \in Purposes /\ q.challenge = c
      BY <3>2 DEF IsChallenge
    <3>5. RequestKnown(db, q)
      BY <3>1, <3>3, <3>4 DEF RequestKnown, Purposes
    <3>. QED
      BY <3>1, <3>5
  <2>2. CASE AskInitialize(s)
    <3>1. PICK e \in Emails :
            requests' = [requests EXCEPT ![s] =
              [op |-> "INITIALIZE", challenge |-> Nobody, email |-> e, invitation |-> Nobody, version |-> 0]]
      BY <2>2 DEF AskInitialize
    <3>2. 0 \in 0..MaxPolicyVersion
      BY RegistrationAssumption
    <3>3. RequestKnown(db, [op |-> "INITIALIZE", challenge |-> Nobody, email |-> e,
                            invitation |-> Nobody, version |-> 0])
      BY <3>2 DEF RequestKnown, Request, Purposes
    <3>. QED
      BY <2>2, <3>1, <3>3 DEF AskInitialize
  <2>. QED
    BY <2>1, <2>2
<1>. QED
  BY <1>1 DEF RegistrationInvariant, TxnShape

LEMMA RegistrationInductive ==
  RegistrationInvariant /\ [RegistrationNext]_registrationVars => RegistrationInvariant'
<1>. SUFFICES ASSUME RegistrationInvariant, [RegistrationNext]_registrationVars
              PROVE  RegistrationInvariant'
  OBVIOUS
<1>. USE DEF RegistrationInvariant
<1>1. CASE UpdatePolicy
  BY <1>1, PolicyUpdateKeeps, AccountWriteInductive DEF UpdatePolicy
<1>2. ASSUME NEW c \in Challenges, SendChallenge(c) PROVE RegistrationInvariant'
  <2>1. PICK e \in Emails, p \in Purposes :
          WriteNow(Put(ChallengeId(c), [email |-> e, purpose |-> p, failures |-> 0, consumed |-> FALSE,
                                        expired |-> FALSE, version |-> db[Policy].version]))
    BY <1>2 DEF SendChallenge
  <2>2. IsPolicy(db[Policy]) /\ ~Has(db, ChallengeId(c))
    BY <1>2 DEF SendChallenge, AccountsKept, DocumentsTyped
  <2>3. db[Policy].version \in 0..MaxPolicyVersion
    BY <2>2, RegistrationAssumption DEF IsPolicy
  <2>4. IsChallenge([email |-> e, purpose |-> p, failures |-> 0, consumed |-> FALSE,
                     expired |-> FALSE, version |-> db[Policy].version])
    BY <2>3 DEF IsChallenge
  <2>. QED
    BY <2>1, <2>2, <2>4, ChallengeWriteKeeps, AccountWriteInductive
<1>3. ASSUME NEW c \in Challenges, WrongCode(c) PROVE RegistrationInvariant'
  <2>. DEFINE x == [db[ChallengeId(c)] EXCEPT !.failures = @ + 1]
  <2>1. Has(db, ChallengeId(c)) /\ WriteNow(Put(ChallengeId(c), x))
    BY <1>3 DEF WrongCode
  <2>2. IsChallenge(db[ChallengeId(c)])
    BY <2>1 DEF AccountsKept, DocumentsTyped
  <2>3. IsChallenge(x) /\ x.consumed = db[ChallengeId(c)].consumed
    BY <2>2, ChallengeField
  <2>. QED
    BY <2>1, <2>3, ChallengeWriteKeeps, AccountWriteInductive
<1>4. ASSUME NEW i \in Invitations, RevokeInvitation(i) PROVE RegistrationInvariant'
  <2>. DEFINE x == [db[InvitationId(i)] EXCEPT !.revoked = TRUE]
  <2>1. WriteNow(Put(InvitationId(i), x)) /\ db[InvitationId(i)].usedBy = Nobody
    BY <1>4 DEF RevokeInvitation
  <2>2. IsInvitation(db[InvitationId(i)])
    BY DEF AccountsKept, DocumentsTyped
  <2>3. IsInvitation(x) /\ x.usedBy = db[InvitationId(i)].usedBy
    BY <2>1, <2>2, InvitationField
  <2>. QED
    BY <2>1, <2>3, InvitationWriteKeeps, AccountWriteInductive
<1>5. ASSUME NEW id, CodeExpires(id),
             (\E c \in Challenges : id = ChallengeId(c)) \/ (\E i \in Invitations : id = InvitationId(i))
      PROVE  RegistrationInvariant'
  <2>1. /\ AccountsKept(db')
        /\ \A w : AccountPending(db, w) => AccountPending(db', w)
        /\ \A y : Has(db, y) => Has(db', y)
        /\ UNCHANGED <<txn, requests>>
    BY <1>5, ExpiryEffect DEF CodeExpires, Has
  <2>2. \A r : RequestKnown(db, r) => RequestKnown(db', r)
    BY <2>1 DEF RequestKnown
  <2>. QED
    BY <2>1, <2>2 DEF TxnShape
<1>6. ASSUME NEW s \in Sessions, RequestStep(s) PROVE RegistrationInvariant'
  BY <1>6, AskInductive, RegisterOpens, InitializeOpens, ResetOpens, AccountOpenInductive,
     RespondInductive, FailInductive DEF RequestStep
<1>7. CASE UNCHANGED registrationVars
  BY <1>7 DEF registrationVars, TxnShape
<1>. QED
  BY <1>1, <1>2, <1>3, <1>4, <1>5, <1>6, <1>7 DEF RegistrationNext

(* Before the first account.                                               *)
LEMMA AccountsBegin ==
  ASSUME NEW d,
         Has(d, Policy), d[Policy] = [version |-> 1, invite |-> FALSE, uses |-> 0],
         \A i \in Invitations :
           /\ Has(d, InvitationId(i))
           /\ d[InvitationId(i)] = [usedBy |-> Nobody, revoked |-> FALSE, expired |-> FALSE],
         \A x : ~Has(d, UserId(x)) /\ ~Has(d, SessionId(x)) /\ ~Has(d, ChallengeId(x)),
         ~Has(d, Initialization)
  PROVE  AccountsKept(d)
<1>1. 1 \in 1..MaxPolicyVersion
  BY RegistrationAssumption
<1>2. IsPolicy(d[Policy])
  BY <1>1 DEF IsPolicy
<1>3. \A i \in Invitations : IsInvitation(d[InvitationId(i)]) /\ d[InvitationId(i)].usedBy = Nobody
  BY DEF IsInvitation
<1>4. DocumentsTyped(d)
  BY <1>2, <1>3 DEF DocumentsTyped
<1>5. CodesSpent(d) /\ AdministratorKnown(d)
  BY DEF CodesSpent, CreatedWith, ResetWith, AdministratorKnown
<1>6. InvitationsSpent(d)
  <2>1. Nobody \notin Emails
    BY RegistrationAssumption
  <2>. QED
    BY <1>3, <2>1 DEF InvitationsSpent
<1>. QED
  BY <1>4, <1>5, <1>6 DEF AccountsKept

LEMMA RegistrationBegins ==
  ASSUME NoTxns, NoRequests, AccountsKept(db)
  PROVE  RegistrationInvariant
<1>1. TxnShape /\ \A s \in Sessions : ~txn[s].open
  BY NoneOpen DEF NoTxns
<1>. QED
  BY <1>1 DEF NoRequests, RegistrationInvariant

LEMMA FirstDocumentsAre ==
  /\ \A id : Has(FirstDocuments, id) <=> id = Policy \/ \E i \in Invitations : id = InvitationId(i)
  /\ FirstDocuments[Policy] = [version |-> 1, invite |-> FALSE, uses |-> 0]
  /\ \A i \in Invitations :
       FirstDocuments[InvitationId(i)] = [usedBy |-> Nobody, revoked |-> FALSE, expired |-> FALSE]
<1>1. /\ \A id : Has(FirstDocuments, id) <=> id = Policy \/ \E i \in Invitations : id = InvitationId(i)
      /\ FirstDocuments[Policy] = [version |-> 1, invite |-> FALSE, uses |-> 0]
  BY DEF FirstDocuments, Has
<1>2. \A i \in Invitations :
        FirstDocuments[InvitationId(i)] = [usedBy |-> Nobody, revoked |-> FALSE, expired |-> FALSE]
  BY AccountIdsDistinct DEF FirstDocuments
<1>. QED
  BY <1>1, <1>2

LEMMA RegistrationInitially == RegistrationInit => RegistrationInvariant
<1>. SUFFICES ASSUME RegistrationInit PROVE RegistrationInvariant
  OBVIOUS
<1>1. /\ \A x : ~Has(db, UserId(x)) /\ ~Has(db, SessionId(x)) /\ ~Has(db, ChallengeId(x))
      /\ ~Has(db, Initialization)
  BY FirstDocumentsAre, AccountIdsDistinct DEF RegistrationInit
<1>2. AccountsKept(db)
  BY <1>1, FirstDocumentsAre, AccountsBegin DEF RegistrationInit
<1>. QED
  BY <1>2, RegistrationBegins DEF RegistrationInit

(* The documents of accounts, invitations, codes and the initialisation    *)
(* agree in every state, and every transaction that is open keeps them so. *)
THEOREM RegistrationInvariantHolds == RegistrationSpec => []RegistrationInvariant
BY RegistrationInitially, RegistrationInductive, PTL DEF RegistrationSpec

(* The variables keep their types, and an account has its session.         *)
THEOREM RegistrationTypes == RegistrationSpec => []RegistrationTypeOK
<1>1. RegistrationInvariant => RegistrationTypeOK
  BY DEF RegistrationInvariant, RequestKnown, AccountsKept, DocumentsTyped, IsPolicy,
         RegistrationTypeOK
<1>. QED
  BY <1>1, RegistrationInvariantHolds, PTL

LEMMA InvitationsFollow == AccountsKept(db) => InvitationsAreSpent
<1>. SUFFICES ASSUME AccountsKept(db), NEW i \in Invitations
              PROVE  /\ {e \in Accounts : db[UserId(e)].admittedBy = i}
                          = IF db[InvitationId(i)].usedBy = Nobody THEN {}
                            ELSE {db[InvitationId(i)].usedBy}
                     /\ db[InvitationId(i)].usedBy # Nobody => ~db[InvitationId(i)].revoked
  BY DEF InvitationsAreSpent
<1>1. IsInvitation(db[InvitationId(i)])
  BY DEF AccountsKept, DocumentsTyped
<1>2. \A e \in Emails : Has(db, UserId(e)) /\ db[UserId(e)].admittedBy = i
                          <=> db[InvitationId(i)].usedBy = e
  BY DEF AccountsKept, InvitationsSpent
<1>3. Nobody \notin Emails
  BY RegistrationAssumption
<1>4. db[InvitationId(i)].usedBy \in Emails \cup {Nobody}
  BY <1>1 DEF IsInvitation
<1>5. {e \in Accounts : db[UserId(e)].admittedBy = i} = {e \in Emails : db[InvitationId(i)].usedBy = e}
  BY <1>2 DEF Accounts
<1>6. {e \in Emails : db[InvitationId(i)].usedBy = e}
        = IF db[InvitationId(i)].usedBy = Nobody THEN {} ELSE {db[InvitationId(i)].usedBy}
  BY <1>3, <1>4
<1>. QED
  BY <1>1, <1>5, <1>6 DEF IsInvitation

LEMMA CodesFollow == AccountsKept(db) => ChallengeUsedOnce
<1>. SUFFICES ASSUME AccountsKept(db), NEW c \in Challenges
              PROVE  LET uses == {<<e, "created">> : e \in {u \in Accounts : db[UserId(u)].createdBy = c}}
                                  \cup {<<e, "reset">> : e \in {u \in Accounts : c \in db[UserId(u)].resetBy}}
                     IN  /\ Cardinality(uses) <= 1
                         /\ uses # {} => db[ChallengeId(c)].consumed
                         /\ \A e \in Accounts : db[UserId(e)].tokenVersion = Cardinality(db[UserId(e)].resetBy)
  BY DEF ChallengeUsedOnce
<1>. DEFINE created == {<<e, "created">> : e \in {u \in Accounts : db[UserId(u)].createdBy = c}}
            reset == {<<e, "reset">> : e \in {u \in Accounts : c \in db[UserId(u)].resetBy}}
            uses == created \cup reset
<1>1. /\ \A e \in Emails : CreatedWith(db, c, e) \/ ResetWith(db, c, e) => db[ChallengeId(c)].consumed
      /\ \A e, f \in Emails :
         /\ ~(CreatedWith(db, c, e) /\ ResetWith(db, c, f))
         /\ (CreatedWith(db, c, e) /\ CreatedWith(db, c, f) => e = f)
         /\ (ResetWith(db, c, e) /\ ResetWith(db, c, f) => e = f)
  BY DEF AccountsKept, CodesSpent
<1>2. \A x \in uses : \E e \in Emails :
        \/ x = <<e, "created">> /\ CreatedWith(db, c, e)
        \/ x = <<e, "reset">> /\ ResetWith(db, c, e)
  BY DEF Accounts, CreatedWith, ResetWith
<1>. HIDE DEF uses
<1>3. \A x, y \in uses : x = y
  BY <1>1, <1>2
<1>4. Cardinality(uses) <= 1
  <2>1. CASE uses = {}
    BY <2>1, FS_EmptySet
  <2>2. CASE uses # {}
    <3>1. PICK x : uses = {x}
      BY <2>2, <1>3
    <3>. QED
      BY <3>1, FS_Singleton
  <2>. QED
    BY <2>1, <2>2
<1>5. uses # {} => db[ChallengeId(c)].consumed
  BY <1>1, <1>2
<1>6. \A e \in Accounts : db[UserId(e)].tokenVersion = Cardinality(db[UserId(e)].resetBy)
  BY DEF AccountsKept, DocumentsTyped, IsUser, Accounts
<1>. QED
  BY <1>4, <1>5, <1>6 DEF uses

LEMMA AdministratorFollows == AccountsKept(db) => OneAdministrator
BY DEF AccountsKept, AdministratorKnown, OneAdministrator, Accounts

(* Codes, invitations and the initialisation are used once, and each for   *)
(* what it was issued for.                                                 *)
THEOREM AdmissionsSpent == RegistrationSpec => []AdmissionsAreSpent
<1>1. RegistrationInvariant => AdmissionsAreSpent
  BY InvitationsFollow, CodesFollow, AdministratorFollows
  DEF AdmissionsAreSpent, RegistrationInvariant
<1>. QED
  BY <1>1, RegistrationInvariantHolds, PTL

LEMMA AdmittedUnderPolicy ==
  ASSUME RegistrationInvariant, [RegistrationNext]_registrationVars, NEW e \in Emails,
         Has(db', UserId(e)), ~Has(db, UserId(e)), db'[UserId(e)].role = "USER"
  PROVE  /\ db'[UserId(e)].policy = db[Policy].version
         /\ db[Policy].invite =>
              \E i \in Invitations :
                db[InvitationId(i)].usedBy = Nobody /\ db'[InvitationId(i)].usedBy = e
<1>1. \E s \in Sessions : Respond(s)
  <2>1. ASSUME NEW id, NEW x, WriteNow(Put(id, x)), id # UserId(e) PROVE FALSE
    BY <2>1, ApplyFacts, OneDocument DEF WriteNow, WriteAlone
  <2>2. ~UpdatePolicy
    BY <2>1, AccountIdsDistinct DEF UpdatePolicy
  <2>3. \A c \in Challenges : ~SendChallenge(c)
    BY <2>1, AccountIdsDistinct DEF SendChallenge
  <2>4. \A c \in Challenges : ~WrongCode(c)
    BY <2>1, AccountIdsDistinct DEF WrongCode
  <2>5. \A i \in Invitations : ~RevokeInvitation(i)
    BY <2>1, AccountIdsDistinct DEF RevokeInvitation
  <2>6. \A id : ~CodeExpires(id)
    BY DEF CodeExpires, Has
  <2>7. db' # db
    OBVIOUS
  <2>8. \A s \in Sessions : /\ ~Verify(s) /\ ~AskInitialize(s) /\ ~Register(s) /\ ~Initialize(s)
                            /\ ~ResetPassword(s) /\ ~Fail(s)
    BY <2>7 DEF Verify, AskInitialize, Register, Initialize, ResetPassword, Fail, OpenTxn
  <2>. QED
    BY <2>2, <2>3, <2>4, <2>5, <2>6, <2>7, <2>8 DEF RegistrationNext, RequestStep, registrationVars
<1>2. PICK s \in Sessions : Respond(s)
  BY <1>1
<1>. DEFINE w == txn[s].writes
<1>3. AccountPending(db, w) /\ db' = Apply(db, w)
  BY <1>2 DEF RegistrationInvariant, Respond, CommitTxn
<1>4. Has(w, UserId(e)) /\ w[UserId(e)].role = "USER"
  BY <1>3, ApplyFacts
<1>. HIDE DEF w
<1>5. PICK f \in Emails, c \in Challenges, i \in Invitations \cup {Nobody} :
        Registers(db, w, f, c, i)
  <2>1. ASSUME NEW f \in Emails, Initializes(db, w, f) PROVE FALSE
    BY <1>4, <2>1, AccountIdsDistinct DEF Initializes, NewAccount
  <2>2. ASSUME NEW f \in Emails, NEW c \in Challenges, Resets(db, w, f, c) PROVE FALSE
    <3>1. f = e
      BY <1>4, <2>2, AccountIdsDistinct DEF Resets
    <3>. QED
      BY <3>1, <2>2 DEF Resets
  <2>. QED
    BY <1>3, <2>1, <2>2 DEF AccountPending
<1>6. f = e
  BY <1>4, <1>5, AccountIdsDistinct DEF Registers
<1>7. db'[UserId(e)].policy = db[Policy].version
  BY <1>3, <1>4, <1>5, <1>6, ApplyFacts DEF Registers
<1>8. ASSUME db[Policy].invite
      PROVE  \E j \in Invitations :
               db[InvitationId(j)].usedBy = Nobody /\ db'[InvitationId(j)].usedBy = e
  <2>1. i \in Invitations /\ Has(w, InvitationId(i))
    BY <1>5, <1>8 DEF Registers
  <2>2. db[InvitationId(i)].usedBy = Nobody /\ w[InvitationId(i)].usedBy = e
    BY <1>5, <1>6, <1>8 DEF Registers
  <2>. QED
    BY <2>1, <2>2, <1>3, ApplyFacts
<1>. QED
  BY <1>7, <1>8

(* Whoever registers does so under the policy for which the code was sent  *)
(* and which is still in force, with an invitation if it asks for one.     *)
THEOREM PolicyStaysInForce == RegistrationSpec => PolicyInForce
<1>1. RegistrationInvariant /\ [RegistrationNext]_registrationVars =>
        [\A e \in Emails :
           (Has(db', UserId(e)) /\ ~Has(db, UserId(e)) /\ db'[UserId(e)].role = "USER") =>
              /\ db'[UserId(e)].policy = db[Policy].version
              /\ db[Policy].invite =>
                   \E i \in Invitations : db[InvitationId(i)].usedBy = Nobody /\ db'[InvitationId(i)].usedBy = e
        ]_registrationVars
  BY AdmittedUnderPolicy
<1>. QED
  BY <1>1, RegistrationInvariantHolds, PTL DEF RegistrationSpec, PolicyInForce

-----------------------------------------------------------------------------
(* BROWSER SESSIONS                                                        *)

LEMMA SessionNumbers ==
  ASSUME BrowserAssumption, SessionTypes
  PROVE  /\ NoSecret = -1
         /\ session.current \in Nat /\ session.previous = session.current - 1
         /\ jar \in Int /\ (jar # NoSecret => jar \in Nat)
         /\ \A t \in Tabs : Busy(t) =>
              /\ refresh[t].st \in Steps
              /\ refresh[t].secret \in Nat /\ refresh[t].seen \in Nat
              /\ refresh[t].attempts \in Nat /\ refresh[t].ok \in BOOLEAN
              /\ refresh[t].cookie \in Int
              /\ (refresh[t].cookie # NoSecret => refresh[t].cookie \in Nat)
<1>1. \A s \in Secrets : s \in Nat
  BY DEF Secrets, BrowserAssumption
<1>2. \A t \in Tabs : Busy(t) => refresh[t] \in RefreshState
  BY DEF SessionTypes, SessionTypeOK, Busy, Resting, NoRefresh
<1>3. \A r \in RefreshState :
        /\ r.st \in Steps /\ r.secret \in Secrets /\ r.seen \in Secrets
        /\ r.attempts \in Nat /\ r.ok \in BOOLEAN /\ r.cookie \in Secrets \cup {NoSecret}
  BY DEF RefreshState, BrowserAssumption
<1>4. /\ session.current \in Secrets /\ session.previous = session.current - 1
      /\ jar \in Secrets \cup {NoSecret}
  BY DEF SessionTypes, SessionTypeOK
<1>5. NoSecret = -1
  BY DEF NoSecret
<1>. QED
  BY <1>1, <1>2, <1>3, <1>4, <1>5

LEMMA SessionBegins ==
  ASSUME BrowserAssumption, SessionInit
  PROVE  SessionInvariant
<1>1. /\ session = [current |-> 0, previous |-> NoSecret, inGrace |-> FALSE, revoked |-> FALSE,
                    expired |-> FALSE]
      /\ jar = 0 /\ suspended = FALSE /\ lostAnswers = 0 /\ refusals = {}
      /\ DOMAIN refresh = Tabs
      /\ \A t \in Tabs : refresh[t] = NoRefresh
  BY DEF SessionInit
<1>2. \A t \in Tabs : ~Busy(t) /\ ~TabAt(t, "rotate")
  BY <1>1 DEF Busy, Resting, TabAt, NoRefresh
<1>3. SessionTypes
  <2>1. 0 \in Secrets /\ NoSecret = 0 - 1
    BY DEF Secrets, NoSecret, BrowserAssumption
  <2>2. SessionTypeOK
    BY <1>1, <1>2, <2>1 DEF SessionTypeOK
  <2>. QED
    BY <1>1, <2>2 DEF SessionTypes, IsSession
<1>4. JarFits
  BY <1>1 DEF JarFits, NoSecret
<1>. QED
  BY <1>1, <1>2, <1>3, <1>4 DEF SessionInvariant, RefreshesFit, AlarmHasCause

(* Such a step keeps the types if the new state of the tab has its type.   *)
LEMMA TypesKept ==
  ASSUME BrowserAssumption, SessionTypes, NEW t \in Tabs, NEW r, OnlyTab(t, r),
         r \in RefreshState \cup {NoRefresh}, r.st = "rotate" => r.attempts = 1,
         IsSession', jar' \in Secrets \cup {NoSecret},
         session'.current \in Secrets, session'.previous = session'.current - 1
  PROVE  /\ SessionTypes'
         /\ \A u \in Tabs : u # t => (Busy(u)' <=> Busy(u))
         /\ Busy(t)' <=> r.st # "idle"
<1>1. \A u \in Tabs : refresh'[u] \in RefreshState \cup {NoRefresh}
  BY DEF OnlyTab, SessionTypes, SessionTypeOK
<1>2. \A u \in Tabs : refresh'[u].st = "rotate" => refresh'[u].attempts = 1
  BY DEF OnlyTab, SessionTypes, SessionTypeOK, TabAt
<1>3. SessionTypeOK'
  BY <1>1, <1>2 DEF SessionTypeOK, TabAt
<1>. QED
  BY <1>3 DEF SessionTypes, OnlyTab, Busy, Resting

LEMMA SendKeepsSession ==
  ASSUME BrowserAssumption, SessionInvariant, NEW t \in Tabs, Send(t)
  PROVE  SessionInvariant'
<1>. DEFINE r == [st |-> "sent", secret |-> jar, seen |-> 0, attempts |-> 0,
                  cookie |-> NoSecret, ok |-> FALSE]
<1>1. /\ SessionTypes /\ RefreshesFit /\ JarFits /\ AlarmHasCause
      /\ jar \in Secrets /\ jar # NoSecret /\ ~Busy(t)
      /\ OnlyTab(t, r)
      /\ UNCHANGED <<session, jar, suspended, lostAnswers, refusals>>
  BY DEF SessionInvariant, SessionTypes, SessionTypeOK, Send, OnlyTab, Busy
<1>2. r \in RefreshState
  BY <1>1 DEF RefreshState, Steps, BrowserAssumption, Secrets
<1>3. /\ SessionTypes'
      /\ \A u \in Tabs : u # t => (Busy(u)' <=> Busy(u))
      /\ Busy(t)'
  BY <1>1, <1>2, TypesKept DEF SessionTypes, IsSession, SessionTypeOK
<1>. USE SessionNumbers
<1>4. \A u \in Tabs : Busy(u)' => Honest(u)'
  BY <1>1, <1>3 DEF OnlyTab, Honest, TabAt, RefreshesFit, JarFits
<1>5. \A u \in Tabs : Busy(u)' => Carried(u)'
  BY <1>1, <1>3 DEF OnlyTab, Carried, RefreshesFit
<1>6. \A u \in Tabs : Busy(u)' => NotAhead(u)' /\ Rightly(u)'
  BY <1>1, <1>3 DEF OnlyTab, NotAhead, Rightly, TabAt, TurnedAway, RefreshesFit
<1>7. JarFits'
  BY <1>1, <1>3 DEF OnlyTab, JarFits, TurnedAway
<1>. QED
  BY <1>1, <1>3, <1>4, <1>5, <1>6, <1>7 DEF SessionInvariant, RefreshesFit, AlarmHasCause

LEMMA ReadKeepsSession ==
  ASSUME BrowserAssumption, SessionInvariant, NEW t \in Tabs, ReadSession(t)
  PROVE  SessionInvariant'
<1>1. /\ SessionTypes /\ RefreshesFit /\ JarFits /\ AlarmHasCause
      /\ refresh[t].st = "sent" /\ Busy(t) /\ refresh[t] \in RefreshState
      /\ UNCHANGED <<session, jar, suspended, lostAnswers>>
  BY DEF SessionInvariant, SessionTypes, SessionTypeOK, ReadSession, TabAt, Busy, Resting, NoRefresh
<1>2. /\ jar \in Secrets \cup {NoSecret} /\ session.current \in Secrets
      /\ session.previous = session.current - 1 /\ IsSession'
  BY <1>1 DEF SessionTypes, IsSession, SessionTypeOK
<1>. USE SessionNumbers
<1>3. CASE ~Live \/ refresh[t].attempts = RotationAttempts
  <2>. DEFINE r == [refresh[t] EXCEPT !.st = "answered", !.ok = FALSE, !.cookie = NoSecret]
  <2>1. OnlyTab(t, r) /\ r \in RefreshState
    BY <1>1, <1>3 DEF ReadSession, SendAnswer, OnlyTab, SessionTypes, RefreshState, Steps
  <2>2. r.st = "answered" /\ r.cookie = NoSecret /\ r.secret = refresh[t].secret
        /\ r.seen = refresh[t].seen
    BY <1>1 DEF RefreshState
  <2>. HIDE DEF r
  <2>3. /\ SessionTypes'
        /\ \A u \in Tabs : u # t => (Busy(u)' <=> Busy(u))
        /\ Busy(t)'
    BY <1>1, <1>2, <2>1, <2>2, TypesKept
  <2>4. /\ refusals \subseteq refusals' /\ AlarmHasCause' /\ TurnedAway'
    <3>1. refusals' = refusals \cup (IF session.revoked THEN {}
                                     ELSE IF session.expired THEN {"expired"} ELSE {"outrun"})
      BY <1>3 DEF ReadSession
    <3>2. session.revoked \/ "expired" \in refusals' \/ "outrun" \in refusals'
      BY <3>1
    <3>3. "none" \notin refusals'
      BY <1>1, <3>1 DEF AlarmHasCause
    <3>. QED
      BY <1>1, <3>1, <3>2, <3>3 DEF AlarmHasCause, TurnedAway
  <2>5. \A u \in Tabs : Busy(u)' => Honest(u)'
    BY <1>1, <2>1, <2>2, <2>3 DEF OnlyTab, Honest, TabAt, RefreshesFit
  <2>6. \A u \in Tabs : Busy(u)' => Carried(u)'
    BY <1>1, <2>1, <2>2, <2>3 DEF OnlyTab, Carried, RefreshesFit
  <2>7. \A u \in Tabs : Busy(u)' => NotAhead(u)' /\ Rightly(u)'
    BY <1>1, <2>1, <2>2, <2>3, <2>4 DEF OnlyTab, NotAhead, Rightly, RefreshesFit
  <2>8. refresh[t].cookie = NoSecret
    BY <1>1 DEF RefreshesFit, Honest
  <2>9. JarFits'
    BY <1>1, <2>1, <2>3, <2>4, <2>8 DEF OnlyTab, JarFits
  <2>. QED
    BY <2>3, <2>4, <2>5, <2>6, <2>7, <2>9 DEF SessionInvariant, RefreshesFit
<1>4. CASE ~(~Live \/ refresh[t].attempts = RotationAttempts)
  <2>. DEFINE st == IF session.current = refresh[t].secret THEN "rotate"
                    ELSE IF Accepted(refresh[t].secret) THEN "accepted" ELSE "revoke"
              r == [refresh[t] EXCEPT !.st = st, !.seen = session.current, !.attempts = @ + 1]
  <2>1. OnlyTab(t, r) /\ r \in RefreshState
    BY <1>1, <1>2, <1>4 DEF ReadSession, OnlyTab, SessionTypes, RefreshState, Steps, BrowserAssumption
  <2>2. /\ r.st = st /\ r.cookie = refresh[t].cookie /\ r.secret = refresh[t].secret
        /\ r.seen = session.current /\ r.attempts = refresh[t].attempts + 1
    BY <1>1 DEF RefreshState
  <2>3. /\ refresh[t].cookie = NoSecret /\ ~session.revoked
        /\ refresh[t].attempts > 0 => refresh[t].secret < session.current
        /\ refresh[t].secret <= session.current
    BY <1>1, <1>4 DEF RefreshesFit, Honest, Live, TabAt
  <2>4. r.st = "rotate" => r.attempts = 1
    BY <1>1, <2>2, <2>3
  <2>5. r.st = "revoke" =>
          /\ r.secret < session.current
          /\ r.secret = session.previous => ~session.inGrace
    BY <1>1, <2>2, <2>3 DEF Accepted
  <2>6. r.st \in {"rotate", "accepted", "revoke"} /\ (r.st = "rotate" => r.seen = r.secret)
    BY <2>2
  <2>. HIDE DEF r, st
  <2>7. /\ SessionTypes'
        /\ \A u \in Tabs : u # t => (Busy(u)' <=> Busy(u))
        /\ Busy(t)'
    BY <1>1, <1>2, <2>1, <2>4, <2>6, TypesKept
  <2>8. refusals' = refusals
    BY <1>4 DEF ReadSession
  <2>9. \A u \in Tabs : Busy(u)' => Honest(u)'
    BY <1>1, <2>1, <2>2, <2>3, <2>5, <2>6, <2>7 DEF OnlyTab, Honest, TabAt, RefreshesFit
  <2>10. \A u \in Tabs : Busy(u)' => Carried(u)'
    BY <1>1, <2>1, <2>2, <2>3, <2>7 DEF OnlyTab, Carried, RefreshesFit
  <2>11. \A u \in Tabs : Busy(u)' => NotAhead(u)' /\ Rightly(u)'
    BY <1>1, <2>1, <2>2, <2>6, <2>7, <2>8 DEF OnlyTab, NotAhead, Rightly, TabAt, TurnedAway, RefreshesFit
  <2>12. JarFits'
    BY <1>1, <2>1, <2>2, <2>3, <2>7, <2>8 DEF OnlyTab, JarFits, TurnedAway
  <2>. QED
    BY <1>1, <2>7, <2>8, <2>9, <2>10, <2>11, <2>12 DEF SessionInvariant, RefreshesFit, AlarmHasCause
<1>. QED
  BY <1>3, <1>4

LEMMA RotateKeepsSession ==
  ASSUME BrowserAssumption, SessionInvariant, NEW t \in Tabs, Rotate(t)
  PROVE  SessionInvariant'
<1>1. /\ SessionTypes /\ RefreshesFit /\ JarFits /\ AlarmHasCause
      /\ refresh[t].st = "rotate" /\ Busy(t) /\ refresh[t] \in RefreshState
      /\ UNCHANGED <<jar, suspended, lostAnswers, refusals>>
  BY DEF SessionInvariant, SessionTypes, SessionTypeOK, Rotate, TabAt, Busy, Resting, NoRefresh
<1>2. /\ jar \in Secrets \cup {NoSecret} /\ session.current \in Secrets
      /\ session.previous = session.current - 1 /\ IsSession
      /\ refresh[t].attempts = 1
  BY <1>1 DEF SessionTypes, SessionTypeOK, TabAt
<1>. USE SessionNumbers
<1>3. /\ refresh[t].seen = refresh[t].secret /\ refresh[t].secret <= session.current
      /\ refresh[t].cookie = NoSecret
  BY <1>1 DEF RefreshesFit, Honest, TabAt
<1>4. CASE MayRotate(t)
  <2>. DEFINE n == session.current + 1
              r == [refresh[t] EXCEPT !.st = "rotated", !.cookie = n]
  <2>1. /\ session.current = refresh[t].secret /\ ~session.revoked
        /\ n \in Secrets /\ session.current < MaxRotations
    BY <1>1, <1>2, <1>3, <1>4 DEF MayRotate, Unrotated, Rotate, Secrets, BrowserAssumption
  <2>2. PICK expired \in {FALSE, session.expired} :
          session' = [session EXCEPT !.current = @ + 1, !.previous = refresh[t].secret,
                                     !.inGrace = TRUE, !.expired = expired]
    BY <1>4 DEF Rotate
  <2>3. /\ session'.current = n /\ session'.previous = session.current
        /\ ~session'.revoked /\ session'.previous = session'.current - 1 /\ IsSession'
    <3>1. /\ DOMAIN session' = DOMAIN session
          /\ session'.current = n /\ session'.previous = session.current
          /\ session'.revoked = session.revoked /\ session'.inGrace = TRUE
          /\ session'.expired = expired
      BY <1>2, <2>1, <2>2 DEF IsSession
    <3>2. IsSession'
      BY <1>1, <1>2, <3>1 DEF IsSession
    <3>. QED
      BY <1>1, <2>1, <3>1, <3>2
  <2>4. OnlyTab(t, r) /\ r \in RefreshState
    BY <1>1, <1>4, <2>1 DEF Rotate, OnlyTab, SessionTypes, RefreshState, Steps
  <2>5. r.st = "rotated" /\ r.cookie = n /\ r.secret = refresh[t].secret /\ r.seen = refresh[t].seen
    BY <1>1 DEF RefreshState
  <2>6. n \in Nat /\ n > session.current /\ n # NoSecret
    BY <1>1
  <2>. HIDE DEF r
  <2>7. /\ SessionTypes'
        /\ \A u \in Tabs : u # t => (Busy(u)' <=> Busy(u))
        /\ Busy(t)'
    BY <1>1, <1>2, <2>1, <2>3, <2>4, <2>5, TypesKept
  <2>8. \A u \in Tabs : Busy(u) => refresh[u].cookie = NoSecret
    BY <1>1, <2>1 DEF RefreshesFit, Carried
  <2>. HIDE DEF n
  <2>9. \A u \in Tabs : Busy(u)' => Honest(u)'
    <3>1. Honest(t)'
      BY <1>1, <1>3, <2>3, <2>4, <2>5, <2>6 DEF OnlyTab, Honest, TabAt
    <3>2. ASSUME NEW u \in Tabs, u # t, Busy(u)
          PROVE  Honest(u)'
      <4>1. Honest(u) /\ refresh'[u] = refresh[u]
        BY <1>1, <2>4, <3>2 DEF RefreshesFit, OnlyTab
      <4>. QED
        BY <1>1, <2>1, <2>3, <2>6, <3>2, <4>1 DEF Honest, TabAt
    <3>. QED
      BY <2>7, <3>1, <3>2
  <2>10. \A u \in Tabs : Busy(u) => refresh[u].secret <= session.current
    BY <1>1 DEF RefreshesFit, Honest
  <2>11. jar <= session.current
    BY <1>1 DEF JarFits
  <2>12. \A u \in Tabs : Busy(u)' => Carried(u)'
    BY <1>1, <2>3, <2>4, <2>5, <2>6, <2>7, <2>8, <2>10, <2>11 DEF OnlyTab, Carried
  <2>13. \A u \in Tabs : Busy(u)' => NotAhead(u)' /\ Rightly(u)'
    BY <1>1, <2>1, <2>3, <2>4, <2>5, <2>7 DEF OnlyTab, NotAhead, Rightly, TabAt, TurnedAway, RefreshesFit
  <2>14. JarFits'
    <3>1. jar = NoSecret \/ jar = session.current
      BY <1>1, <2>1, <2>11 DEF RefreshesFit, NotAhead
    <3>2. refresh'[t].cookie = session'.current
      BY <2>3, <2>4, <2>5 DEF OnlyTab
    <3>. QED
      BY <1>1, <2>1, <2>3, <2>6, <2>7, <3>1, <3>2 DEF JarFits, TurnedAway
  <2>. QED
    BY <1>1, <2>7, <2>9, <2>12, <2>13, <2>14 DEF SessionInvariant, RefreshesFit, AlarmHasCause
<1>5. CASE ~MayRotate(t)
  <2>. DEFINE r == [refresh[t] EXCEPT !.st = "sent"]
  <2>1. OnlyTab(t, r) /\ r \in RefreshState /\ session' = session
    BY <1>1, <1>5 DEF Rotate, TabTo, OnlyTab, SessionTypes, RefreshState, Steps
  <2>2. r.st = "sent" /\ r.cookie = NoSecret /\ r.secret = refresh[t].secret /\ r.seen = refresh[t].seen
    BY <1>1, <1>3 DEF RefreshState
  <2>3. session.revoked \/ refresh[t].secret < session.current
    BY <1>1, <1>3, <1>5 DEF MayRotate, Unrotated
  <2>. HIDE DEF r
  <2>4. /\ SessionTypes'
        /\ \A u \in Tabs : u # t => (Busy(u)' <=> Busy(u))
        /\ Busy(t)'
    BY <1>1, <1>2, <2>1, <2>2, TypesKept DEF IsSession
  <2>5. \A u \in Tabs : Busy(u)' => Honest(u)'
    BY <1>1, <2>1, <2>2, <2>3, <2>4 DEF OnlyTab, Honest, TabAt, RefreshesFit
  <2>6. \A u \in Tabs : Busy(u)' => Carried(u)'
    BY <1>1, <2>1, <2>2, <2>4 DEF OnlyTab, Carried, RefreshesFit
  <2>7. \A u \in Tabs : Busy(u)' => NotAhead(u)' /\ Rightly(u)'
    BY <1>1, <2>1, <2>2, <2>4 DEF OnlyTab, NotAhead, Rightly, TabAt, TurnedAway, RefreshesFit
  <2>8. JarFits'
    BY <1>1, <1>3, <2>1, <2>4 DEF OnlyTab, JarFits, TurnedAway
  <2>. QED
    BY <1>1, <2>4, <2>5, <2>6, <2>7, <2>8 DEF SessionInvariant, RefreshesFit, AlarmHasCause
<1>. QED
  BY <1>4, <1>5

(* A session that ends, or whose flags change, with all else unchanged.    *)
LEMMA FlagsKeepSession ==
  ASSUME BrowserAssumption, SessionInvariant,
         IsSession', session'.current = session.current, session'.previous = session.previous,
         session'.inGrace => session.inGrace, session.revoked => session'.revoked,
         suspended => suspended',
         UNCHANGED <<refresh, lostAnswers, refusals>>,
         jar' = jar \/ (jar' = NoSecret /\ session'.revoked)
  PROVE  SessionInvariant'
<1>1. SessionTypes /\ RefreshesFit /\ JarFits /\ AlarmHasCause
  BY DEF SessionInvariant
<1>. USE SessionNumbers
<1>2. SessionTypes'
  BY <1>1 DEF SessionTypes, SessionTypeOK, TabAt
<1>3. \A u \in Tabs : Busy(u)' = Busy(u)
  BY DEF Busy, Resting
<1>4. TurnedAway => TurnedAway'
  BY DEF TurnedAway
<1>5. \A u \in Tabs : Busy(u)' => Honest(u)'
  BY <1>1, <1>3 DEF Honest, TabAt, RefreshesFit
<1>6. \A u \in Tabs : Busy(u)' => Carried(u)'
  BY <1>1, <1>3 DEF Carried, RefreshesFit
<1>7. \A u \in Tabs : Busy(u)' => NotAhead(u)' /\ Rightly(u)'
  BY <1>1, <1>3, <1>4 DEF NotAhead, Rightly, TabAt, RefreshesFit
<1>8. JarFits'
  <2>1. CASE jar' = jar
    BY <1>1, <1>3, <1>4, <2>1 DEF JarFits
  <2>2. CASE jar' = NoSecret /\ session'.revoked
    BY <1>1, <2>2 DEF JarFits, TurnedAway
  <2>. QED
    BY <2>1, <2>2
<1>. QED
  BY <1>1, <1>2, <1>5, <1>6, <1>7, <1>8 DEF SessionInvariant, RefreshesFit, AlarmHasCause

(* A refresh that is answered or over: it carries no cookie now, or the    *)
(* one it carried, and the browser has it, or it is lost.                  *)
LEMMA RevokeKeepsSession ==
  ASSUME BrowserAssumption, SessionInvariant, NEW t \in Tabs, RevokeReused(t)
  PROVE  SessionInvariant'
<1>1. /\ SessionTypes /\ RefreshesFit /\ JarFits /\ AlarmHasCause
      /\ refresh[t].st = "revoke" /\ Busy(t) /\ refresh[t] \in RefreshState
      /\ UNCHANGED <<jar, suspended, lostAnswers>>
  BY DEF SessionInvariant, SessionTypes, SessionTypeOK, RevokeReused, TabAt, Busy, Resting, NoRefresh
<1>2. /\ jar \in Secrets \cup {NoSecret} /\ session.current \in Secrets
      /\ session.previous = session.current - 1 /\ IsSession
  BY <1>1 DEF SessionTypes, SessionTypeOK
<1>. USE SessionNumbers
<1>3. /\ refresh[t].seen <= session.current /\ refresh[t].secret < refresh[t].seen
      /\ (refresh[t].seen = session.current /\ refresh[t].secret = session.previous)
            => ~session.inGrace
      /\ refresh[t].cookie = NoSecret
  BY <1>1 DEF RefreshesFit, Honest, TabAt
<1>. DEFINE r == IF Unrotated(t) THEN [refresh[t] EXCEPT !.st = "answered", !.ok = FALSE, !.cookie = NoSecret]
                 ELSE [refresh[t] EXCEPT !.st = "sent"]
<1>4. OnlyTab(t, r) /\ r \in RefreshState
  BY <1>1 DEF RevokeReused, SendAnswer, TabTo, OnlyTab, SessionTypes, RefreshState, Steps
<1>5. /\ r.st \in {"answered", "sent"} /\ (r.st = "answered" <=> Unrotated(t))
      /\ r.secret = refresh[t].secret /\ r.seen = refresh[t].seen /\ r.cookie = NoSecret
  BY <1>1, <1>3 DEF RefreshState
<1>. HIDE DEF r
<1>6. /\ IsSession' /\ session'.current = session.current /\ session'.previous = session.previous
      /\ session'.inGrace = session.inGrace
      /\ session'.revoked = (session.revoked \/ Unrotated(t))
  BY <1>1, <1>2 DEF RevokeReused, IsSession, Unrotated
<1>7. /\ SessionTypes'
      /\ \A u \in Tabs : u # t => (Busy(u)' <=> Busy(u))
      /\ Busy(t)'
  BY <1>1, <1>2, <1>4, <1>5, <1>6, TypesKept
<1>8. refusals \subseteq refusals' /\ AlarmHasCause'
  <2>1. CASE Unrotated(t)
    <3>1. refresh[t].secret < session.current /\ session.current = refresh[t].seen
      BY <1>1, <1>3, <2>1 DEF Unrotated
    <3>2. refresh[t].secret = session.previous \/ refresh[t].secret < session.previous
      BY <1>1, <1>2, <3>1
    <3>3. Cause(t) # "none"
      BY <1>3, <3>1, <3>2 DEF Cause
    <3>. QED
      BY <1>1, <2>1, <3>3 DEF RevokeReused, AlarmHasCause
  <2>2. CASE ~Unrotated(t)
    BY <1>1, <2>2 DEF RevokeReused, AlarmHasCause
  <2>. QED
    BY <2>1, <2>2
<1>9. (TurnedAway \/ Unrotated(t)) => TurnedAway'
  BY <1>1, <1>6, <1>8 DEF TurnedAway
<1>10. \A u \in Tabs : Busy(u)' => Honest(u)'
  <2>1. r.st = "sent" => session.revoked \/ refresh[t].secret < session.current
    BY <1>1, <1>3, <1>5 DEF Unrotated
  <2>. QED
    BY <1>1, <1>3, <1>4, <1>5, <1>6, <1>7, <2>1, ZenonT(40) DEF OnlyTab, Honest, TabAt, RefreshesFit
<1>11. \A u \in Tabs : Busy(u)' => Carried(u)'
  BY <1>1, <1>4, <1>5, <1>6, <1>7 DEF OnlyTab, Carried, RefreshesFit
<1>12. \A u \in Tabs : Busy(u)' => NotAhead(u)' /\ Rightly(u)'
  BY <1>1, <1>4, <1>5, <1>7, <1>9 DEF OnlyTab, NotAhead, Rightly, TabAt, RefreshesFit
<1>13. JarFits'
  <2>1. jar' <= session'.current /\ (jar' = NoSecret => TurnedAway')
    BY <1>1, <1>6, <1>9 DEF JarFits
  <2>2. \A u \in Tabs : (Busy(u)' <=> Busy(u)) /\ refresh'[u].cookie = refresh[u].cookie
    BY <1>1, <1>3, <1>4, <1>5, <1>7 DEF OnlyTab
  <2>3. (\E u \in Tabs : Busy(u) /\ refresh[u].cookie = session.current)
        => \E v \in Tabs : Busy(v)' /\ refresh'[v].cookie = session'.current
    BY <1>6, <2>2
  <2>4. session.revoked => session'.revoked
    BY <1>6
  <2>. QED
    BY <1>1, <1>6, <2>1, <2>3, <2>4 DEF JarFits
<1>. QED
  BY <1>7, <1>8, <1>10, <1>11, <1>12, <1>13 DEF SessionInvariant, RefreshesFit

LEMMA CompleteKeepsSession ==
  ASSUME BrowserAssumption, SessionInvariant, NEW t \in Tabs, Complete(t)
  PROVE  SessionInvariant'
<1>1. /\ SessionTypes /\ RefreshesFit /\ JarFits /\ AlarmHasCause
      /\ refresh[t].st \in {"rotated", "accepted"} /\ Busy(t) /\ refresh[t] \in RefreshState
      /\ UNCHANGED <<jar, suspended, lostAnswers, refusals>>
  BY DEF SessionInvariant, SessionTypes, SessionTypeOK, Complete, TabAt, Busy, Resting, NoRefresh
<1>2. /\ jar \in Secrets \cup {NoSecret} /\ session.current \in Secrets
      /\ session.previous = session.current - 1 /\ IsSession
  BY <1>1 DEF SessionTypes, SessionTypeOK
<1>. USE SessionNumbers
<1>. DEFINE r == [refresh[t] EXCEPT !.st = "answered", !.ok = ~suspended,
                                    !.cookie = IF suspended THEN NoSecret ELSE refresh[t].cookie]
<1>3. OnlyTab(t, r) /\ r \in RefreshState
  BY <1>1, <1>2 DEF Complete, SendAnswer, OnlyTab, SessionTypes, RefreshState, Steps, IsSession
<1>4. /\ r.st = "answered" /\ r.ok = ~suspended
      /\ r.secret = refresh[t].secret /\ r.seen = refresh[t].seen
      /\ r.cookie = NoSecret \/ (r.cookie = refresh[t].cookie)
      /\ ~suspended => r.cookie = refresh[t].cookie
  BY <1>1 DEF RefreshState
<1>. HIDE DEF r
<1>5. /\ IsSession' /\ session'.current = session.current /\ session'.previous = session.previous
      /\ session'.inGrace = session.inGrace /\ (session.revoked => session'.revoked)
      /\ suspended => session'.revoked
  BY <1>1, <1>2 DEF Complete, IsSession
<1>6. /\ SessionTypes'
      /\ \A u \in Tabs : u # t => (Busy(u)' <=> Busy(u))
      /\ Busy(t)'
  BY <1>1, <1>2, <1>3, <1>4, <1>5, TypesKept
<1>7. TurnedAway => TurnedAway'
  BY <1>1, <1>5 DEF TurnedAway
<1>8. \A u \in Tabs : Busy(u)' => Honest(u)'
  BY <1>1, <1>3, <1>4, <1>5, <1>6 DEF OnlyTab, Honest, TabAt, RefreshesFit
<1>9. \A u \in Tabs : Busy(u)' => Carried(u)'
  BY <1>1, <1>3, <1>4, <1>5, <1>6 DEF OnlyTab, Carried, RefreshesFit
<1>10. \A u \in Tabs : Busy(u)' => NotAhead(u)' /\ Rightly(u)'
  BY <1>1, <1>3, <1>4, <1>6, <1>7 DEF OnlyTab, NotAhead, Rightly, TabAt, TurnedAway, RefreshesFit
<1>11. JarFits'
  <2>1. jar' <= session'.current /\ (jar' = NoSecret => TurnedAway')
    BY <1>1, <1>5, <1>7 DEF JarFits
  <2>2. CASE suspended
    BY <1>5, <2>1, <2>2 DEF JarFits
  <2>3. CASE ~suspended
    <3>1. \A u \in Tabs : (Busy(u)' <=> Busy(u)) /\ refresh'[u].cookie = refresh[u].cookie
      BY <1>1, <1>3, <1>4, <1>6, <2>3 DEF OnlyTab
    <3>2. (\E u \in Tabs : Busy(u) /\ refresh[u].cookie = session.current)
          => \E v \in Tabs : Busy(v)' /\ refresh'[v].cookie = session'.current
      BY <1>5, <3>1
    <3>. QED
      BY <1>1, <1>5, <2>1, <2>3, <3>2 DEF JarFits
  <2>. QED
    BY <2>2, <2>3
<1>. QED
  BY <1>1, <1>6, <1>8, <1>9, <1>10, <1>11 DEF SessionInvariant, RefreshesFit, AlarmHasCause

LEMMA AnswerKeepsSession ==
  ASSUME BrowserAssumption, SessionInvariant, NEW t \in Tabs, Receive(t) \/ LoseAnswer(t)
  PROVE  SessionInvariant'
<1>1. /\ SessionTypes /\ RefreshesFit /\ JarFits /\ AlarmHasCause
      /\ refresh[t].st = "answered" /\ Busy(t) /\ refresh[t] \in RefreshState
      /\ UNCHANGED <<session, suspended, refusals>>
      /\ OnlyTab(t, NoRefresh)
  BY DEF SessionInvariant, SessionTypes, SessionTypeOK, Receive, LoseAnswer, TabAt, Busy, Resting,
         NoRefresh, OnlyTab
<1>2. /\ jar \in Secrets \cup {NoSecret} /\ session.current \in Secrets
      /\ session.previous = session.current - 1 /\ IsSession
      /\ refresh[t].cookie \in Secrets \cup {NoSecret}
  BY <1>1 DEF SessionTypes, SessionTypeOK, RefreshState
<1>. USE SessionNumbers
<1>3. NoRefresh.st = "idle"
  BY DEF NoRefresh
<1>4. Carried(t) /\ Rightly(t)
  BY <1>1 DEF RefreshesFit
<1>5. /\ jar' \in Secrets \cup {NoSecret} /\ IsSession'
      /\ \/ jar' = jar /\ lostAnswers' > 0
         \/ jar' = jar /\ refresh[t].cookie = NoSecret /\ lostAnswers' = lostAnswers
         \/ jar' = session.current /\ refresh[t].cookie # NoSecret /\ lostAnswers' = lostAnswers
         \/ jar' = NoSecret /\ TurnedAway /\ lostAnswers' = lostAnswers
  <2>1. CASE Receive(t)
    BY <1>1, <1>2, <1>4, <2>1 DEF Receive, CookieAfter, Carried, Rightly, TabAt, IsSession
  <2>2. CASE LoseAnswer(t)
    BY <1>1, <1>2, <2>2 DEF LoseAnswer, IsSession
  <2>. QED
    BY <2>1, <2>2
<1>6. /\ SessionTypes'
      /\ \A u \in Tabs : u # t => (Busy(u)' <=> Busy(u))
      /\ ~Busy(t)'
  BY <1>1, <1>2, <1>3, <1>5, TypesKept
<1>7. TurnedAway' = TurnedAway
  BY <1>1 DEF TurnedAway
<1>8. \A u \in Tabs : Busy(u)' => Honest(u)'
  BY <1>1, <1>6 DEF OnlyTab, Honest, TabAt, RefreshesFit
<1>9. \A u \in Tabs : Busy(u)' => Carried(u)'
  <2>1. \A u, v \in Tabs : Busy(u)' /\ Busy(v)' => refresh'[u] = refresh[u] /\ Busy(u)
    BY <1>1, <1>6 DEF OnlyTab
  <2>2. \A u \in Tabs : (u # t /\ Busy(u) /\ refresh[u].cookie # NoSecret) => jar' # session.current
    BY <1>1, <1>4, <1>5 DEF Carried, RefreshesFit
  <2>. QED
    BY <1>1, <1>6, <2>1, <2>2 DEF Carried, RefreshesFit
<1>10. \A u \in Tabs : Busy(u)' => NotAhead(u)' /\ Rightly(u)'
  <2>1. \A u \in Tabs : Busy(u) => refresh[u].secret <= session.current
    BY <1>1 DEF RefreshesFit, Honest
  <2>. QED
    BY <1>1, <1>5, <1>6, <1>7, <2>1 DEF OnlyTab, NotAhead, Rightly, TabAt, RefreshesFit
<1>11. JarFits'
  <2>1. CASE jar' = jar /\ lostAnswers' > 0
    BY <1>1, <1>7, <2>1 DEF JarFits
  <2>2. CASE jar' = jar /\ refresh[t].cookie = NoSecret /\ lostAnswers' = lostAnswers
    BY <1>1, <1>6, <1>7, <2>2 DEF JarFits, OnlyTab
  <2>3. CASE jar' = session.current /\ refresh[t].cookie # NoSecret /\ lostAnswers' = lostAnswers
    BY <1>1, <2>3 DEF JarFits
  <2>4. CASE jar' = NoSecret /\ TurnedAway /\ lostAnswers' = lostAnswers
    BY <1>1, <1>7, <2>4 DEF JarFits
  <2>. QED
    BY <1>5, <2>1, <2>2, <2>3, <2>4
<1>. QED
  BY <1>1, <1>6, <1>8, <1>9, <1>10, <1>11 DEF SessionInvariant, RefreshesFit, AlarmHasCause

LEMMA SessionStep ==
  ASSUME BrowserAssumption, SessionInvariant, [SessionNext]_sessionVars
  PROVE  SessionInvariant'
<1>1. SessionTypes /\ IsSession
  BY DEF SessionInvariant, SessionTypes
<1>2. CASE UNCHANGED sessionVars
  BY <1>1, <1>2, FlagsKeepSession DEF sessionVars, IsSession
<1>3. CASE EndSession
  <2>1. IsSession' /\ session' = [session EXCEPT !.revoked = TRUE]
    BY <1>1, <1>3 DEF EndSession, IsSession
  <2>. QED
    BY <1>1, <1>3, <2>1, FlagsKeepSession DEF EndSession, IsSession
<1>4. CASE GraceEnds
  <2>1. IsSession' /\ session' = [session EXCEPT !.inGrace = FALSE]
    BY <1>1, <1>4 DEF GraceEnds, IsSession
  <2>. QED
    BY <1>1, <1>4, <2>1, FlagsKeepSession DEF GraceEnds, IsSession
<1>5. CASE SessionExpires
  <2>1. IsSession' /\ session' = [session EXCEPT !.expired = TRUE]
    BY <1>1, <1>5 DEF SessionExpires, IsSession
  <2>. QED
    BY <1>1, <1>5, <2>1, FlagsKeepSession DEF SessionExpires, IsSession
<1>6. CASE Suspend
  BY <1>1, <1>6, FlagsKeepSession DEF Suspend, IsSession
<1>7. ASSUME NEW t \in Tabs,
             Send(t) \/ ReadSession(t) \/ Rotate(t) \/ RevokeReused(t) \/ Complete(t)
             \/ Receive(t) \/ LoseAnswer(t)
      PROVE  SessionInvariant'
  BY <1>7, SendKeepsSession, ReadKeepsSession, RotateKeepsSession, RevokeKeepsSession,
     CompleteKeepsSession, AnswerKeepsSession
<1>. QED
  BY <1>2, <1>3, <1>4, <1>5, <1>6, <1>7 DEF SessionNext

(* For any number of tabs, rotations and lost answers: while the session   *)
(* lives the browser's cookie is its current secret, or the one before and *)
(* the new one is on its way or lost; the browser does not lose its cookie *)
(* without cause, and no token is taken for a copied one without cause.    *)
THEOREM SessionsAreKept ==
  ASSUME BrowserAssumption
  PROVE  SessionSpec => [](SessionTypeOK /\ SessionIsKept)
<1>1. SessionInit => SessionInvariant
  BY SessionBegins
<1>2. SessionInvariant /\ [SessionNext]_sessionVars => SessionInvariant'
  BY SessionStep
<1>3. SessionInvariant => SessionTypeOK /\ SessionIsKept
  <2>1. SessionInvariant => StaysLoggedIn
    BY DEF SessionInvariant, JarFits, TurnedAway, StaysLoggedIn, Live
  <2>2. SessionInvariant => CookieIsCurrent
    BY DEF SessionInvariant, JarFits, CookieIsCurrent, Live, Busy
  <2>. QED
    BY <2>1, <2>2 DEF SessionInvariant, SessionTypes, SessionIsKept
<1>. QED
  BY <1>1, <1>2, <1>3, PTL DEF SessionSpec

(* A session that was ended stays so, and no secret is issued for it, not  *)
(* even by a refresh that had read it when it was alive.                   *)
THEOREM EndedSessionsStay ==
  ASSUME BrowserAssumption
  PROVE  SessionSpec => EndedForGood
<1>. DEFINE Ended == session.revoked => session'.revoked /\ session'.current = session.current
<1>1. SessionInvariant /\ [SessionNext]_sessionVars => [Ended]_sessionVars
  <2>. SUFFICES ASSUME SessionInvariant, SessionNext, session.revoked
                PROVE  session'.revoked /\ session'.current = session.current
    BY DEF sessionVars
  <2>1. IsSession
    BY DEF SessionInvariant, SessionTypes
  <2>2. ASSUME NEW t \in Tabs,
               Send(t) \/ ReadSession(t) \/ Receive(t) \/ LoseAnswer(t)
        PROVE  session' = session
    BY <2>2 DEF Send, ReadSession, Receive, LoseAnswer
  <2>3. ASSUME NEW t \in Tabs, Rotate(t) \/ RevokeReused(t)
        PROVE  session' = session
    BY <2>3 DEF Rotate, RevokeReused, MayRotate, Unrotated
  <2>4. ASSUME NEW t \in Tabs, Complete(t)
        PROVE  session'.revoked /\ session'.current = session.current
    BY <2>1, <2>4 DEF Complete, IsSession
  <2>5. EndSession \/ GraceEnds \/ SessionExpires \/ Suspend
          => session'.revoked /\ session'.current = session.current
    BY <2>1 DEF EndSession, GraceEnds, SessionExpires, Suspend, IsSession
  <2>. QED
    BY <2>2, <2>3, <2>4, <2>5 DEF SessionNext
<1>2. SessionInit => SessionInvariant
  BY SessionBegins
<1>3. SessionInvariant /\ [SessionNext]_sessionVars => SessionInvariant'
  BY SessionStep
<1>. QED
  BY <1>1, <1>2, <1>3, PTL DEF SessionSpec, EndedForGood

-----------------------------------------------------------------------------
(* THE LINK TO THE GUIDE                                                   *)

LEMMA NoLinkIsNone == \A l : IsLink(l) => l # NoLink
  BY DEF IsLink, NoLink

(* A step of one request that changes no document.                         *)
LEMMA VisitKeepsLink ==
  ASSUME LinkInvariant, NEW v \in Visits,
         DOMAIN visit' = Visits, \A u \in Visits : u # v => visit'[u] = visit[u],
         UNCHANGED <<secretKey, addresses, link, overdue, made>>,
         VisitFits(v)'
  PROVE  LinkInvariant'
<1>1. \A u \in Visits : u # v => VisitFits(u)'
  BY DEF LinkInvariant, VisitFits, Visiting, InHand, IsLink
<1>. QED
  BY <1>1 DEF LinkInvariant, LinkIsKept, IsLink, NoLink

LEMMA NewVisitFits ==
  ASSUME NEW v \in Visits, visit'[v].at \in {"idle", "noKey", "agent"}
  PROVE  VisitFits(v)'
BY DEF VisitFits, Visiting

LEMMA RequestStepKeepsLink ==
  ASSUME GuideLinkAssumption, LinkInvariant, NEW v \in Visits,
         \/ ReadOldKey(v) \/ ReadAgent(v) \/ ReadAddresses(v) \/ ConfirmLink(v)
         \/ AskStatus(v) \/ ReadStatus(v) \/ VisitFails(v)
  PROVE  LinkInvariant'
<1>1. /\ DOMAIN visit = Visits /\ DOMAIN visit' = Visits
      /\ \A u \in Visits : u # v => visit'[u] = visit[u]
      /\ UNCHANGED <<secretKey, addresses, link, overdue, made>>
      /\ secretKey \in Nat /\ addresses \in Nat
      /\ VisitFits(v)
  <2>1. /\ DOMAIN visit = Visits /\ VisitFits(v)
        /\ secretKey \in Nat /\ addresses \in Nat
    BY DEF LinkInvariant, GuideLinkAssumption
  <2>2. UNCHANGED <<secretKey, addresses, link, overdue, made>>
    BY DEF ReadOldKey, ReadAgent, ReadAddresses, ConfirmLink, AskStatus, ReadStatus, VisitFails
  <2>3. \E new : visit' = [visit EXCEPT ![v] = new]
    BY DEF ReadOldKey, ReadAgent, ReadAddresses, ConfirmLink, AskStatus, ReadStatus, VisitFails,
           Leaves, Proceeds
  <2>. QED
    BY <2>1, <2>2, <2>3
<1>2. \A l : (InHand(l)' <=> InHand(l))
  BY <1>1 DEF InHand, IsLink
<1>3. VisitFits(v)'
  <2>1. CASE ReadOldKey(v)
    BY <1>1, <2>1 DEF ReadOldKey, VisitFits, Visiting
  <2>2. CASE ReadAgent(v)
    BY <1>1, <2>2 DEF ReadAgent, VisitFits, Visiting
  <2>3. CASE ReadAddresses(v)
    BY <1>1, <2>3 DEF ReadAddresses, VisitFits, Visiting
  <2>4. CASE ConfirmLink(v)
    <3>1. CASE addresses = visit[v].raw.addresses
      BY <1>1, <2>4, <3>1 DEF ConfirmLink, Leaves, NoVisit, VisitFits, Visiting
    <3>2. CASE addresses # visit[v].raw.addresses
      <4>1. /\ visit[v].at = "confirm" /\ visit[v].key \in 1..secretKey /\ InHand(visit[v].raw)
            /\ visit' = [visit EXCEPT ![v].at = "undo"]
        BY <1>1, <2>4, <3>2 DEF ConfirmLink, Proceeds, VisitFits, Visiting
      <4>2. /\ visit'[v].at = "undo" /\ visit'[v].key = visit[v].key
            /\ visit'[v].raw = visit[v].raw
        BY <1>1, <4>1
      <4>3. visit[v].raw.addresses < addresses
        BY <1>1, <3>2, <4>1 DEF InHand, IsLink
      <4>. QED
        BY <1>1, <1>2, <4>1, <4>2, <4>3 DEF VisitFits, Visiting
    <3>. QED
      BY <3>1, <3>2
  <2>5. CASE AskStatus(v)
    <3>1. InHand(link)
      BY <2>5 DEF AskStatus, LinkInvariant, InHand, NoLink, IsLink
    <3>. QED
      BY <1>1, <1>2, <2>5, <3>1 DEF AskStatus, VisitFits, Visiting
  <2>6. CASE ReadStatus(v)
    <3>1. PICK document \in visit[v].unread : visit' = [visit EXCEPT
         ![v].unread = @ \ {document},
         ![v].stale = IF \/ document = "agent" /\ secretKey # visit[v].raw.key
                         \/ document = "addresses" /\ addresses # visit[v].raw.addresses
                      THEN TRUE ELSE @]
      BY <2>6 DEF ReadStatus
    <3>2. /\ DOMAIN visit[v] = {"at", "raw", "unread", "stale"}
          /\ visit[v].at = "status" /\ InHand(visit[v].raw) /\ visit[v].stale \in BOOLEAN
          /\ visit[v].stale => \/ visit[v].raw.key < secretKey
                               \/ visit[v].raw.addresses < addresses
      BY <1>1, <2>6 DEF ReadStatus, VisitFits, Visiting
    <3>. DEFINE differs == \/ document = "agent" /\ secretKey # visit[v].raw.key
                           \/ document = "addresses" /\ addresses # visit[v].raw.addresses
                new == [visit[v] EXCEPT !.unread = @ \ {document},
                                        !.stale = IF differs THEN TRUE ELSE @]
    <3>3. visit'[v] = new
      BY <1>1, <3>1
    <3>4. differs => \/ visit[v].raw.key < secretKey
                     \/ visit[v].raw.addresses < addresses
      <4>1. visit[v].raw.key \in 1..secretKey /\ visit[v].raw.addresses \in 0..addresses
        BY <3>2 DEF InHand, IsLink
      <4>. QED
        BY <1>1, <4>1
    <3>. HIDE DEF differs
    <3>5. /\ DOMAIN visit'[v] = DOMAIN visit[v]
          /\ visit'[v].at = "status" /\ visit'[v].raw = visit[v].raw
          /\ visit'[v].stale = IF differs THEN TRUE ELSE visit[v].stale
      BY <3>2, <3>3
    <3>6. visit'[v].stale \in BOOLEAN
      BY <3>2, <3>5
    <3>7. visit'[v].stale => \/ visit[v].raw.key < secretKey
                            \/ visit[v].raw.addresses < addresses
      BY <3>2, <3>4, <3>5
    <3>. QED
      BY <1>1, <1>2, <3>2, <3>5, <3>6, <3>7 DEF VisitFits, Visiting
  <2>7. CASE VisitFails(v)
    BY <1>1, <2>7 DEF VisitFails, Leaves, NoVisit, VisitFits, Visiting
  <2>. QED
    BY <2>1, <2>2, <2>3, <2>4, <2>5, <2>6, <2>7
<1>. QED
  BY <1>1, <1>3, VisitKeepsLink

(* The key and the addresses only ever get newer versions.                 *)
LEMMA NewerVersionsKeepLink ==
  ASSUME GuideLinkAssumption, LinkInvariant,
         secretKey' \in secretKey..MaxKeys, addresses' \in addresses..MaxAddresses,
         UNCHANGED <<link, overdue, made>>, DOMAIN visit' = Visits,
         \A u \in Visits : visit'[u] = visit[u] \/ VisitFits(u)'
  PROVE  LinkInvariant'
<1>1. secretKey \in Nat /\ addresses \in Nat /\ MaxKeys \in Nat /\ MaxAddresses \in Nat
  BY DEF LinkInvariant, GuideLinkAssumption
<1>2. \A l : IsLink(l) => IsLink(l)'
  BY <1>1 DEF IsLink
<1>3. \A l : InHand(l) => InHand(l)'
  BY <1>2 DEF InHand
<1>4. \A l : IsLink(l) => l.key \in Nat /\ l.addresses \in Nat
  BY <1>1 DEF IsLink
<1>5. ASSUME NEW u \in Visits, visit'[u] = visit[u], VisitFits(u)
      PROVE  VisitFits(u)'
  <2>1. \A l : InHand(l) => l.key \in Nat /\ l.addresses \in Nat
    BY <1>4 DEF InHand
  <2>. QED
    BY <1>1, <1>3, <1>5, <2>1 DEF VisitFits, Visiting
<1>6. LinkIsKept'
  BY <1>1, <1>4 DEF LinkInvariant, LinkIsKept, IsLink
<1>. QED
  BY <1>1, <1>2, <1>5, <1>6 DEF LinkInvariant

LEMMA ReplaceKeyKeepsLink ==
  ASSUME GuideLinkAssumption, LinkInvariant, NEW v \in Visits, ReplaceKey(v)
  PROVE  LinkInvariant'
<1>1. /\ DOMAIN visit' = Visits /\ \A u \in Visits : u # v => visit'[u] = visit[u]
      /\ UNCHANGED <<addresses, link, overdue, made>>
      /\ secretKey' \in secretKey..MaxKeys /\ addresses \in addresses..MaxAddresses
      /\ visit'[v].at \in {"idle", "agent"}
  BY DEF LinkInvariant, ReplaceKey, Leaves, NoVisit, GuideLinkAssumption
<1>2. VisitFits(v)'
  BY <1>1, NewVisitFits
<1>. QED
  BY <1>1, <1>2, NewerVersionsKeepLink

LEMMA StoreKeepsLink ==
  ASSUME GuideLinkAssumption, LinkInvariant, NEW v \in Visits, StoreLink(v)
  PROVE  LinkInvariant'
<1>1. /\ visit[v].at = "store" /\ visit[v].key \in 1..secretKey
      /\ visit[v].addresses \in 0..addresses
      /\ UNCHANGED <<secretKey, addresses, overdue>>
      /\ DOMAIN visit = Visits
      /\ made' = link'
      /\ link' = [id |-> made.id + 1, key |-> visit[v].key, addresses |-> visit[v].addresses]
      /\ visit' = [visit EXCEPT ![v] =
                     [at |-> "confirm", key |-> @.key, attempt |-> @.attempt, raw |-> link']]
  BY DEF StoreLink, LinkInvariant, VisitFits, Visiting
<1>2. made.id \in Nat
  BY DEF LinkInvariant, NoLink, IsLink
<1>3. IsLink(made)' /\ made'.id > made.id
  BY <1>1, <1>2 DEF IsLink
<1>4. \A l : InHand(l) => InHand(l)'
  BY <1>1, <1>2, <1>3 DEF InHand, IsLink
<1>5. InHand(made)'
  BY <1>3 DEF InHand
<1>6. VisitFits(v)'
  BY <1>1, <1>5 DEF VisitFits, Visiting
<1>7. ASSUME NEW u \in Visits, u # v
      PROVE  VisitFits(u)'
  BY <1>1, <1>4, <1>7 DEF LinkInvariant, VisitFits, Visiting
<1>. QED
  BY <1>1, <1>3, <1>6, <1>7 DEF LinkInvariant, LinkIsKept

(* The script deletes a link only if it is the one in hand, which is known *)
(* to be of no use any more if it is the newest.                           *)
LEMMA DeletionKeepsLink ==
  ASSUME GuideLinkAssumption, LinkInvariant, NEW v \in Visits, UndoLink(v) \/ AnswerStatus(v)
  PROVE  LinkInvariant'
<1>1. /\ DOMAIN visit = Visits /\ DOMAIN visit' = Visits
      /\ \A u \in Visits : u # v => visit'[u] = visit[u]
      /\ UNCHANGED <<secretKey, addresses, overdue, made>>
      /\ secretKey \in Nat /\ addresses \in Nat
      /\ VisitFits(v) /\ InHand(visit[v].raw)
      /\ link' = link \/ link' = Without(visit[v].raw)
  BY DEF LinkInvariant, UndoLink, AnswerStatus, Leaves, VisitFits, Visiting, GuideLinkAssumption
<1>2. \A l : (InHand(l)' <=> InHand(l)) /\ (IsLink(l)' <=> IsLink(l))
  BY <1>1 DEF InHand, IsLink
<1>3. VisitFits(v)'
  <2>1. CASE AnswerStatus(v)
    BY <1>1, <2>1 DEF AnswerStatus, Leaves, NoVisit, VisitFits, Visiting
  <2>2. CASE UndoLink(v)
    BY <1>1, <2>2 DEF UndoLink, Leaves, NoVisit, VisitFits, Visiting
  <2>. QED
    BY <2>1, <2>2
<1>4. ASSUME NEW u \in Visits, u # v
      PROVE  VisitFits(u)'
  BY <1>1, <1>2, <1>4 DEF LinkInvariant, VisitFits, Visiting
<1>5. LinkIsKept'
  <2>1. CASE link' = link
    BY <1>1, <2>1 DEF LinkInvariant, LinkIsKept
  <2>2. CASE link' # link
    <3>1. link' = NoLink /\ link = visit[v].raw /\ link # NoLink /\ link = made
      BY <1>1, <2>2 DEF Without, LinkInvariant
    <3>2. IsLink(made)
      BY <1>1 DEF InHand
    <3>3. \/ visit[v].raw.id \in overdue \/ visit[v].raw.key # secretKey
          \/ visit[v].raw.addresses # addresses
      <4>1. CASE AnswerStatus(v)
        BY <1>1, <2>2, <3>1, <3>2, <4>1 DEF AnswerStatus, VisitFits, Visiting, IsLink
      <4>2. CASE UndoLink(v)
        BY <1>1, <3>1, <3>2, <4>2 DEF UndoLink, VisitFits, Visiting, IsLink
      <4>. QED
        BY <4>1, <4>2
    <3>. QED
      BY <1>1, <3>1, <3>3 DEF LinkIsKept
  <2>. QED
    BY <2>1, <2>2
<1>6. link' = NoLink \/ link' = made'
  BY <1>1 DEF Without, LinkInvariant
<1>. QED
  BY <1>1, <1>2, <1>3, <1>4, <1>5, <1>6 DEF LinkInvariant

LEMMA ExpiryKeepsLink ==
  ASSUME GuideLinkAssumption, LinkInvariant, LinkExpires \/ RecordExpires
  PROVE  LinkInvariant'
<1>1. /\ UNCHANGED <<secretKey, addresses, visit, made>> /\ IsLink(made)
      /\ link' = link \/ link' = NoLink
  BY DEF LinkExpires, RecordExpires, LinkInvariant, NoLink, IsLink
<1>2. \A v \in Visits : VisitFits(v)'
  BY <1>1 DEF LinkInvariant, VisitFits, Visiting, InHand, IsLink
<1>3. LinkIsKept'
  <2>1. CASE LinkExpires
    BY <1>1, <2>1 DEF LinkExpires, LinkInvariant, LinkIsKept, IsLink
  <2>2. CASE RecordExpires
    BY <2>2 DEF RecordExpires, LinkInvariant, LinkIsKept
  <2>. QED
    BY <2>1, <2>2
<1>. QED
  BY <1>1, <1>2, <1>3 DEF LinkInvariant, IsLink

LEMMA LinkStep ==
  ASSUME GuideLinkAssumption, LinkInvariant, [LinkNext]_linkVars
  PROVE  LinkInvariant'
<1>1. CASE UNCHANGED linkVars
  <2>1. UNCHANGED <<secretKey, addresses, link, overdue, visit, made>>
    BY <1>1 DEF linkVars
  <2>. QED
    BY <2>1 DEF LinkInvariant, LinkIsKept, VisitFits, Visiting, InHand, IsLink
<1>2. CASE ChangeAddresses
  BY <1>2, NewerVersionsKeepLink DEF ChangeAddresses, LinkInvariant, GuideLinkAssumption
<1>3. CASE LinkExpires \/ RecordExpires
  BY <1>3, ExpiryKeepsLink
<1>4. ASSUME NEW v \in Visits,
             \/ ReadOldKey(v) \/ ReplaceKey(v)
             \/ ReadAgent(v) \/ ReadAddresses(v) \/ StoreLink(v) \/ ConfirmLink(v) \/ UndoLink(v)
             \/ AskStatus(v) \/ ReadStatus(v) \/ AnswerStatus(v)
             \/ VisitFails(v)
      PROVE  LinkInvariant'
  BY <1>4, RequestStepKeepsLink, ReplaceKeyKeepsLink, StoreKeepsLink, DeletionKeepsLink
<1>. QED
  BY <1>1, <1>2, <1>3, <1>4 DEF LinkNext

(* For any number of requests, links, keys and addresses: the newest link  *)
(* stays until it has expired, or its key or an address was replaced, and  *)
(* what is stored was made for a key and addresses that there have been.   *)
THEOREM LinksAreKept ==
  ASSUME GuideLinkAssumption
  PROVE  LinkSpec => [](LinkTypeOK /\ LinkIsKept)
<1>1. LinkInit => LinkInvariant
  BY DEF LinkInit, LinkInvariant, LinkIsKept, NoVisit, VisitFits, Visiting, GuideLinkAssumption
<1>2. LinkInvariant /\ [LinkNext]_linkVars => LinkInvariant'
  BY LinkStep
<1>3. LinkInvariant => LinkTypeOK /\ LinkIsKept
  BY DEF LinkInvariant, LinkTypeOK, IsLink
<1>. QED
  BY <1>1, <1>2, <1>3, PTL DEF LinkSpec

-----------------------------------------------------------------------------
(* WATCH LISTS                                                             *)

LEMMA WatchIds ==
  /\ \A a, b : OfAgent(a) = OfAgent(b) => a = b
  /\ \A p, q : OfPost(p) = OfPost(q) => p = q
  /\ \A a, p : /\ OfAgent(a) # OfPost(p) /\ OfAgent(a) # PostOf(p)
  /\ \A p, q : OfPost(p) # PostOf(q)
BY DEF OfAgent, OfPost, PostOf

(* The writes of an open transaction that shares none with what is written *)
(* mean the same in the new documents.                                     *)
LEMMA WatchUndisturbed ==
  ASSUME NEW d, NEW w, NEW c, WritesWatch(d, w), Apart(w, c)
  PROVE  WritesWatch(Apply(d, c), w)
<1>1. \A id : Has(w, id) => RegistryIn(Apply(d, c), id) = RegistryIn(d, id)
  BY ApplyFacts DEF Apart, RegistryIn
<1>2. ASSUME NEW a \in Watchers, NEW p \in WatchedPosts,
             \A id : Has(w, id) <=> id = OfAgent(a) \/ id = OfPost(p)
      PROVE  /\ RegistryIn(Apply(d, c), OfAgent(a)) = RegistryIn(d, OfAgent(a))
             /\ RegistryIn(Apply(d, c), OfPost(p)) = RegistryIn(d, OfPost(p))
  BY <1>1, <1>2
<1>. QED
  BY <1>2 DEF WritesWatch

LEMMA WatchCommits ==
  ASSUME WatchAssumption, NEW d, NEW w, AgreeIn(d), WritesWatch(d, w)
  PROVE  AgreeIn(Apply(d, w))
<1>. DEFINE e == Apply(d, w)
<1>1. \A id : RegistryIn(e, id) = IF Has(w, id) THEN w[id] ELSE RegistryIn(d, id)
  BY ApplyFacts DEF RegistryIn
<1>2. ASSUME \E p \in WatchedPosts : \A id : Has(w, id) <=> id = PostOf(p)
      PROVE  AgreeIn(e)
  <2>1. \A a : ~Has(w, OfAgent(a)) /\ ~Has(w, OfPost(a))
    BY <1>2, WatchIds
  <2>2. \A a : RegistryIn(e, OfAgent(a)) = RegistryIn(d, OfAgent(a))
               /\ RegistryIn(e, OfPost(a)) = RegistryIn(d, OfPost(a))
    BY <1>1, <2>1
  <2>. HIDE DEF e
  <2>. QED
    BY <2>2 DEF AgreeIn
<1>3. ASSUME NEW a \in Watchers, NEW p \in WatchedPosts,
             \A id : Has(w, id) <=> id = OfAgent(a) \/ id = OfPost(p),
             \/ /\ w[OfAgent(a)] = RegistryIn(d, OfAgent(a)) \cup {p}
                /\ w[OfPost(p)] = RegistryIn(d, OfPost(p)) \cup {a}
                /\ Cardinality(RegistryIn(d, OfAgent(a))) < WatchLimit
                /\ Cardinality(RegistryIn(d, OfPost(p))) < WatchLimit
             \/ /\ w[OfAgent(a)] = RegistryIn(d, OfAgent(a)) \ {p}
                /\ w[OfPost(p)] = RegistryIn(d, OfPost(p)) \ {a}
      PROVE  AgreeIn(e)
  <2>1. /\ RegistryIn(e, OfAgent(a)) = w[OfAgent(a)] /\ RegistryIn(e, OfPost(p)) = w[OfPost(p)]
        /\ \A b : b # a => RegistryIn(e, OfAgent(b)) = RegistryIn(d, OfAgent(b))
        /\ \A q : q # p => RegistryIn(e, OfPost(q)) = RegistryIn(d, OfPost(q))
    BY <1>1, <1>3, WatchIds
  <2>. HIDE DEF e
  <2>2. ASSUME NEW R, NEW x, IsFiniteSet(R), Cardinality(R) <= WatchLimit
        PROVE  /\ IsFiniteSet(R \cup {x}) /\ IsFiniteSet(R \ {x})
               /\ Cardinality(R \ {x}) <= WatchLimit
               /\ Cardinality(R) < WatchLimit => Cardinality(R \cup {x}) <= WatchLimit
    BY <2>2, FS_AddElement, FS_RemoveElement, FS_CardinalityType DEF WatchAssumption
  <2>3. /\ IsFiniteSet(w[OfAgent(a)]) /\ Cardinality(w[OfAgent(a)]) <= WatchLimit
        /\ IsFiniteSet(w[OfPost(p)]) /\ Cardinality(w[OfPost(p)]) <= WatchLimit
    <3>. DEFINE R == RegistryIn(d, OfAgent(a))
                Q == RegistryIn(d, OfPost(p))
    <3>1. /\ IsFiniteSet(R) /\ Cardinality(R) <= WatchLimit
          /\ IsFiniteSet(Q) /\ Cardinality(Q) <= WatchLimit
      BY DEF AgreeIn
    <3>2. \/ /\ w[OfAgent(a)] = R \cup {p} /\ w[OfPost(p)] = Q \cup {a}
             /\ Cardinality(R) < WatchLimit /\ Cardinality(Q) < WatchLimit
          \/ w[OfAgent(a)] = R \ {p} /\ w[OfPost(p)] = Q \ {a}
      BY <1>3
    <3>. HIDE DEF R, Q
    <3>3. /\ IsFiniteSet(R \cup {p}) /\ IsFiniteSet(R \ {p})
          /\ Cardinality(R \ {p}) <= WatchLimit
          /\ Cardinality(R) < WatchLimit => Cardinality(R \cup {p}) <= WatchLimit
      BY <2>2, <3>1
    <3>4. /\ IsFiniteSet(Q \cup {a}) /\ IsFiniteSet(Q \ {a})
          /\ Cardinality(Q \ {a}) <= WatchLimit
          /\ Cardinality(Q) < WatchLimit => Cardinality(Q \cup {a}) <= WatchLimit
      BY <2>2, <3>1
    <3>. QED
      BY <3>2, <3>3, <3>4
  <2>4. /\ \A q \in WatchedPosts : q # p => (q \in w[OfAgent(a)] <=> q \in RegistryIn(d, OfAgent(a)))
        /\ \A b \in Watchers : b # a => (b \in w[OfPost(p)] <=> b \in RegistryIn(d, OfPost(p)))
        /\ p \in w[OfAgent(a)] <=> a \in w[OfPost(p)]
    BY <1>3
  <2>. QED
    BY <2>1, <2>3, <2>4 DEF AgreeIn
<1>. QED
  BY <1>2, <1>3 DEF WritesWatch

LEMMA WatchOpens ==
  ASSUME AgreeIn(db), NEW s \in Sessions, NEW a \in Watchers, NEW p \in WatchedPosts,
         Watch(s, a, p) \/ Unwatch(s, a, p)
  PROVE  \E w : OpenTxn(s, w) /\ WritesWatch(db, w)
<1>. DEFINE mine == Registry(OfAgent(a))
            others == Registry(OfPost(p))
<1>1. /\ \A id : Registry(id) = RegistryIn(db, id)
      /\ OfAgent(a) # OfPost(p)
      /\ p \in mine <=> a \in others
  BY WatchIds DEF Registry, RegistryIn, AgreeIn
<1>2. CASE Watch(s, a, p)
  <2>. DEFINE w == Apply(Put(OfAgent(a), mine \cup {p}), Put(OfPost(p), others \cup {a}))
  <2>1. /\ \A id : Has(w, id) <=> id = OfAgent(a) \/ id = OfPost(p)
        /\ w[OfAgent(a)] = mine \cup {p} /\ w[OfPost(p)] = others \cup {a}
    BY <1>1, TwoDocuments
  <2>2. OpenTxn(s, w) /\ BelowLimits(a, p)
    BY <1>2 DEF Watch
  <2>. HIDE DEF w
  <2>3. WritesWatch(db, w)
    BY <1>1, <2>1, <2>2 DEF WritesWatch, BelowLimits
  <2>. QED
    BY <2>2, <2>3
<1>3. CASE Unwatch(s, a, p)
  <2>. DEFINE w == Apply(Put(OfAgent(a), mine \ {p}), Put(OfPost(p), others \ {a}))
  <2>1. /\ \A id : Has(w, id) <=> id = OfAgent(a) \/ id = OfPost(p)
        /\ w[OfAgent(a)] = mine \ {p} /\ w[OfPost(p)] = others \ {a}
    BY <1>1, TwoDocuments
  <2>2. p \in mine
    <3>1. ASSUME p \notin mine
          PROVE  FALSE
      <4>1. Unwatched(a, p) = Apply(<<>>, <<>>)
        BY <1>1, <3>1 DEF Unwatched
      <4>2. Apply(<<>>, <<>>) = <<>>
        BY DEF Apply
      <4>. QED
        BY <1>3, <4>1, <4>2 DEF Unwatch
    <3>. QED
      BY <3>1
  <2>3. OpenTxn(s, w)
    BY <1>1, <1>3, <2>2 DEF Unwatch, Unwatched
  <2>. HIDE DEF w
  <2>4. WritesWatch(db, w)
    BY <1>1, <2>1 DEF WritesWatch
  <2>. QED
    BY <2>3, <2>4
<1>. QED
  BY <1>2, <1>3

LEMMA WatchStep ==
  ASSUME WatchAssumption, WatchInvariant, [WatchNext]_<<db, txn>>
  PROVE  WatchInvariant'
<1>1. CASE UNCHANGED <<db, txn>>
  BY <1>1 DEF WatchInvariant, TxnShape
<1>2. ASSUME NEW s \in Sessions, NEW w, OpenTxn(s, w), WritesWatch(db, w)
      PROVE  WatchInvariant'
  BY <1>2, OpenEffect DEF WatchInvariant
<1>3. ASSUME NEW s \in Sessions, NEW p \in WatchedPosts, RemoveWatched(s, p)
      PROVE  \E w : OpenTxn(s, w) /\ WritesWatch(db, w)
  BY <1>3, OneDocument DEF RemoveWatched, WritesWatch
<1>4. ASSUME NEW s \in Sessions, CommitTxn(s)
      PROVE  WatchInvariant'
  BY <1>4, CommitEffect, WatchCommits, WatchUndisturbed DEF WatchInvariant
<1>5. ASSUME NEW s \in Sessions, AbortTxn(s)
      PROVE  WatchInvariant'
  BY <1>5, AbortEffect DEF WatchInvariant
<1>. QED
  BY <1>1, <1>2, <1>3, <1>4, <1>5, WatchOpens DEF WatchNext, WatchInvariant

(* Before anything is watched.                                             *)
LEMMA WatchesBegin ==
  ASSUME WatchAssumption, NEW d, \A a : ~Has(d, OfAgent(a)) /\ ~Has(d, OfPost(a))
  PROVE  AgreeIn(d)
BY FS_EmptySet DEF AgreeIn, RegistryIn, WatchAssumption

LEMMA WatchesFollow ==
  ASSUME AgreeIn(db)
  PROVE  WatchesAgree
BY DEF AgreeIn, WatchesAgree, RegistryIn, Registry

(* For any number of agents and posts and any limit: the registries of an  *)
(* agent and of a post always name each other, and neither outgrows its    *)
(* limit, whatever number of transactions change them at once.             *)
THEOREM WatchListsAgree ==
  ASSUME WatchAssumption
  PROVE  WatchSpec => []WatchesAgree
<1>1. WatchInit => WatchInvariant
  <2>. SUFFICES ASSUME WatchInit
                PROVE  WatchInvariant
    OBVIOUS
  <2>1. TxnShape /\ \A s \in Sessions : ~txn[s].open
    BY NoneOpen DEF WatchInit, NoTxns
  <2>2. \A a : ~Has(db, OfAgent(a)) /\ ~Has(db, OfPost(a))
    BY WatchIds DEF WatchInit, FirstPosts, Has
  <2>. QED
    BY <2>1, <2>2, WatchesBegin DEF WatchInvariant
<1>2. WatchInvariant /\ [WatchNext]_<<db, txn>> => WatchInvariant'
  BY WatchStep
<1>3. WatchInvariant => WatchesAgree
  BY WatchesFollow DEF WatchInvariant
<1>. QED
  BY <1>1, <1>2, <1>3, PTL DEF WatchSpec

-----------------------------------------------------------------------------
(* POSTS AND THEIR CIRCLES                                                 *)

LEMMA ContentIds ==
  /\ \A x, y : PostId(x) = PostId(y) => x = y
  /\ \A m, n : CircleOf(m) = CircleOf(n) => m = n
  /\ \A x, y : /\ PostId(x) # CircleOf(y) /\ PostId(x) # Agent(y) /\ PostId(x) # RequestId(y)
               /\ PostId(x) # PendingName(y) /\ PostId(x) # Charge(y) /\ PostId(x) # Reward(y)
  /\ \A x, a, n : PostId(x) # Membership(a, n)
  /\ \A n, x : /\ CircleOf(n) # Agent(x) /\ CircleOf(n) # Charge(x) /\ CircleOf(n) # Reward(x)
               /\ CircleOf(n) # RequestId(x) /\ CircleOf(n) # PendingName(x)
BY DEF PostId, CircleOf, Agent, RequestId, PendingName, Charge, Reward, Membership

LEMMA NoPostFits ==
  ASSUME NEW d, NEW w, NoPosts(w)
  PROVE  PostsFit(d, w)
BY DEF PostsFit, NoPosts

LEMMA OtherWrites ==
  /\ \A n, v : /\ NoPosts(Put(CircleOf(n), v)) /\ NoPosts(Put(Agent(n), v))
               /\ NoPosts(Put(RequestId(n), v)) /\ NoPosts(Put(PendingName(n), v))
               /\ NoPosts(Put(Charge(n), v)) /\ NoPosts(Put(Reward(n), v))
  /\ \A a, n, v : NoPosts(Put(Membership(a, n), v))
  /\ NoPosts(<<>>)
  /\ \A u, v : NoPosts(u) /\ NoPosts(v) => NoPosts(Apply(u, v))
BY OneDocument, NoDocument, ApplyFacts, ContentIds DEF NoPosts

(* Others that write neither the post nor the circle do not matter.        *)
LEMMA PostsUndisturbed ==
  ASSUME NEW d, NEW w, NEW c, PostsFit(d, w), Apart(w, c)
  PROVE  PostsFit(Apply(d, c), w)
BY ApplyFacts DEF PostsFit, PostAllowedIn, Apart

(* A new post together with documents that are neither posts nor circles.  *)
LEMMA NewPostFits ==
  ASSUME NEW n, NEW x, NEW a, NEW admin, NEW w, PostAllowed(n, admin),
         NoPosts(w)
  PROVE  PostsFit(db, Apply(NewPost(n, x, a, admin), w))
<1>. DEFINE new == NewPost(n, x, a, admin)
            post == [by |-> a, on |-> n, admin |-> admin]
<1>1. /\ \A id : Has(new, id) <=> id = PostId(x) \/ id = CircleOf(n)
      /\ new[PostId(x)] = post
  BY TwoDocuments, ContentIds DEF NewPost
<1>2. PostAllowedIn(db, n, admin)
  BY DEF PostAllowed, ActiveCircle, Known, PostAllowedIn
<1>. SUFFICES PostsFit(db, Apply(new, w))
  OBVIOUS
<1>. HIDE DEF new
<1>3. /\ \A y : Has(Apply(new, w), PostId(y)) <=> y = x
      /\ Apply(new, w)[PostId(x)] = post
      /\ Has(Apply(new, w), CircleOf(n))
  BY <1>1, ApplyFacts, ContentIds DEF NoPosts
<1>. QED
  BY <1>2, <1>3 DEF PostsFit

LEMMA CommunityWriteFits ==
  ASSUME NEW s \in Sessions, CommunityWrite(s)
  PROVE  \E w : OpenTxn(s, w) /\ PostsFit(db, w)
<1>. USE OtherWrites, NoPostFits
<1>1. ASSUME NEW a, NEW n, Join(s, a, n) \/ LeaveCircle(s, a, n)
      PROVE  \E w : OpenTxn(s, w) /\ PostsFit(db, w)
  BY <1>1 DEF Join, LeaveCircle
<1>2. ASSUME NEW a, NEW n, CreateCircle(s, a, n)
      PROVE  \E w : OpenTxn(s, w) /\ PostsFit(db, w)
  BY <1>2 DEF CreateCircle, NewCircle, Reserve
<1>3. ASSUME NEW a, NEW n, NEW x, RequestCircle(s, a, n, x)
      PROVE  \E w : OpenTxn(s, w) /\ PostsFit(db, w)
  BY <1>3 DEF RequestCircle, Reserve
<1>4. ASSUME NEW a, NEW n, NEW x, NEW admin, CreatePost(s, a, n, x, admin)
      PROVE  \E w : OpenTxn(s, w) /\ PostsFit(db, w)
  <2>. DEFINE w == Apply(Put(Charge(x), a), Put(Reward(x), a))
  <2>1. NoPosts(w)
    OBVIOUS
  <2>. HIDE DEF w
  <2>2. PostsFit(db, Apply(NewPost(n, x, a, admin), w))
    BY <1>4, <2>1, NewPostFits DEF CreatePost
  <2>. QED
    BY <1>4, <2>2 DEF CreatePost, w
<1>5. ASSUME NEW a, NEW n, NEW x, NEW admin, RequestPost(s, a, n, x, admin)
      PROVE  \E w : OpenTxn(s, w) /\ PostsFit(db, w)
  BY <1>5 DEF RequestPost
<1>6. ASSUME NEW n, CreateCircleForAdmin(s, n) \/ ChangeCircle(s, n)
      PROVE  \E w : OpenTxn(s, w) /\ PostsFit(db, w)
  BY <1>6 DEF CreateCircleForAdmin, ChangeCircle, NewCircle
<1>7. \A x, status : NoPosts(Decided(x, status))
  BY DEF Decided
<1>8. ASSUME NEW x, Reject(s, x) \/ ApproveCircle(s, x)
      PROVE  \E w : OpenTxn(s, w) /\ PostsFit(db, w)
  BY <1>7, <1>8 DEF Reject, ApproveCircle, NewCircle
<1>9. ASSUME NEW x, ApprovePost(s, x)
      PROVE  \E w : OpenTxn(s, w) /\ PostsFit(db, w)
  <2>. DEFINE request == db[RequestId(x)]
              w == Apply(Put(Reward(x), request.by), Decided(x, "APPROVED"))
  <2>1. NoPosts(w)
    BY <1>7
  <2>. HIDE DEF w
  <2>2. PostsFit(db, Apply(NewPost(request.on, x, request.by, request.admin), w))
    BY <1>9, <2>1, NewPostFits DEF ApprovePost, StillAllowed
  <2>. QED
    BY <1>9, <2>2 DEF ApprovePost, w
<1>. QED
  BY <1>1, <1>2, <1>3, <1>4, <1>5, <1>6, <1>8, <1>9 DEF CommunityWrite

(* The end of a window changes nothing that a new post depends on.         *)
LEMMA WindowKeepsPosts ==
  ASSUME PostsInvariant, NEW a \in Authors, WindowPasses(a)
  PROVE  /\ PostsInvariant'
         /\ \A x : Has(db', PostId(x)) => Has(db, PostId(x))
<1>1. /\ txn' = txn
      /\ \A id : Has(db', id) <=> Has(db, id)
      /\ \A n : db'[CircleOf(n)] = db[CircleOf(n)]
  BY ContentIds DEF WindowPasses, Has
<1>2. \A w : PostsFit(db, w) => PostsFit(db', w)
  BY <1>1 DEF PostsFit, PostAllowedIn
<1>. QED
  BY <1>1, <1>2 DEF PostsInvariant, TxnShape

LEMMA PostsStep ==
  ASSUME PostsInvariant, [ContentNext]_<<db, txn>>
  PROVE  /\ PostsInvariant'
         /\ \A x : ~Has(db, PostId(x)) /\ Has(db', PostId(x)) =>
              PostAllowed(db'[PostId(x)].on, db'[PostId(x)].admin)
<1>1. CASE UNCHANGED <<db, txn>>
  BY <1>1 DEF PostsInvariant, TxnShape
<1>2. ASSUME NEW s \in Sessions, CommunityWrite(s)
      PROVE  PostsInvariant' /\ db' = db
  BY <1>2, CommunityWriteFits, OpenEffect DEF PostsInvariant
<1>3. ASSUME NEW s \in Sessions, AbortTxn(s)
      PROVE  PostsInvariant' /\ db' = db
  BY <1>3, AbortEffect DEF PostsInvariant
<1>4. ASSUME NEW s \in Sessions, CommitTxn(s)
      PROVE  /\ PostsInvariant'
             /\ \A x : ~Has(db, PostId(x)) /\ Has(db', PostId(x)) =>
                  PostAllowed(db'[PostId(x)].on, db'[PostId(x)].admin)
  <2>1. PostsInvariant'
    BY <1>4, CommitEffect, PostsUndisturbed, ApplyFacts DEF PostsInvariant
  <2>2. ASSUME NEW x, ~Has(db, PostId(x)), Has(db', PostId(x))
        PROVE  PostAllowed(db'[PostId(x)].on, db'[PostId(x)].admin)
    <3>1. Has(txn[s].writes, PostId(x)) /\ db'[PostId(x)] = txn[s].writes[PostId(x)]
      BY <1>4, <2>2, CommitEffect, ApplyFacts DEF PostsInvariant
    <3>2. PostsFit(db, txn[s].writes)
      BY <1>4, CommitEffect DEF PostsInvariant
    <3>. QED
      BY <3>1, <3>2 DEF PostsFit, PostAllowedIn, PostAllowed, ActiveCircle, Known
  <2>. QED
    BY <2>1, <2>2
<1>5. ASSUME NEW a \in Authors, WindowPasses(a)
      PROVE  /\ PostsInvariant'
             /\ \A x : Has(db', PostId(x)) => Has(db, PostId(x))
  BY <1>5, WindowKeepsPosts
<1>. QED
  BY <1>1, <1>2, <1>3, <1>4, <1>5 DEF ContentNext

(* For any number of agents, circles, posts and transactions: a post       *)
(* appears only in a circle that is active at that moment and open to its  *)
(* author, whatever happened to the circle during the transaction or since *)
(* the post was requested.                                                 *)
THEOREM PostsAreAllowed ==
  ASSUME ContentAssumption
  PROVE  ContentSpec => PostedWhereAllowed
<1>1. ContentInit => PostsInvariant
  <2>. SUFFICES ASSUME ContentInit
                PROVE  PostsInvariant
    OBVIOUS
  <2>1. TxnShape /\ \A s \in Sessions : ~txn[s].open
    BY NoneOpen DEF ContentInit, NoTxns
  <2>2. \A a \in Agents : Has(db, Agent(a))
    BY DEF ContentInit, FirstCommunity, Has
  <2>. QED
    BY <2>1, <2>2 DEF PostsInvariant, ContentAssumption
<1>2. PostsInvariant /\ [ContentNext]_<<db, txn>> => PostsInvariant'
  BY PostsStep
<1>3. PostsInvariant /\ [ContentNext]_<<db, txn>> =>
        [\A x \in Contents : ~Has(db, PostId(x)) /\ Has(db', PostId(x)) =>
           PostAllowed(db'[PostId(x)].on, db'[PostId(x)].admin)]_<<db, txn>>
  BY PostsStep
<1>. QED
  BY <1>1, <1>2, <1>3, PTL DEF ContentSpec, PostedWhereAllowed

-----------------------------------------------------------------------------
(* SETTINGS, MAIL AND ANNOUNCEMENTS                                        *)

LEMMA SystemIds ==
  /\ \A x, y : AnnouncementId(x) = AnnouncementId(y) => x = y
  /\ \A j, k : SettingId(j) = SettingId(k) => j = k
  /\ \A x, y, a, b : NoticeId(x, a) = NoticeId(y, b) => x = y /\ a = b
  /\ \A x : /\ AnnouncementId(x) # MailPolicy /\ SettingId(x) # MailPolicy /\ ReaderId(x) # MailPolicy
  /\ \A x, y : /\ AnnouncementId(x) # SettingId(y) /\ AnnouncementId(x) # ReaderId(y)
               /\ SettingId(x) # ReaderId(y)
  /\ \A x, y, a : /\ NoticeId(x, a) # AnnouncementId(y) /\ NoticeId(x, a) # SettingId(y)
                  /\ NoticeId(x, a) # ReaderId(y) /\ NoticeId(x, a) # MailPolicy
BY DEF AnnouncementId, SettingId, NoticeId, ReaderId, MailPolicy

(* Nobody is notified of a draft because its document is saved meanwhile.  *)
LEMMA SystemCommits ==
  ASSUME NEW d, NEW w, SystemFits(d), SystemFits(w),
         \A x \in Announcements :
           Has(w, AnnouncementId(x)) /\ w[AnnouncementId(x)].status \in {"DRAFT", "DELETED"} =>
             ~Notified(d, x)
  PROVE  SystemFits(Apply(d, w))
<1>. DEFINE e == Apply(d, w)
<1>1. /\ \A id : Has(e, id) <=> Has(d, id) \/ Has(w, id)
      /\ \A id : Has(w, id) => e[id] = w[id]
      /\ \A id : Has(d, id) /\ ~Has(w, id) => e[id] = d[id]
  BY ApplyFacts
<1>. HIDE DEF e
<1>2. ASSUME NEW x \in Announcements
      PROVE  /\ Has(e, AnnouncementId(x)) => AnnouncementFits(e[AnnouncementId(x)])
             /\ Notified(e, x) => /\ Has(e, AnnouncementId(x))
                                  /\ e[AnnouncementId(x)].status \in {"PUBLISHED", "WITHDRAWN"}
  <2>1. Has(e, AnnouncementId(x)) => AnnouncementFits(e[AnnouncementId(x)])
    BY <1>1 DEF SystemFits
  <2>2. Notified(e, x) => Notified(d, x) \/ Notified(w, x)
    BY <1>1 DEF Notified
  <2>3. CASE Has(w, AnnouncementId(x))
    <3>1. Notified(e, x) => e[AnnouncementId(x)].status \in {"PUBLISHED", "WITHDRAWN"}
      BY <1>1, <2>2, <2>3 DEF SystemFits, AnnouncementFits
    <3>. QED
      BY <1>1, <2>1, <2>3, <3>1
  <2>4. CASE ~Has(w, AnnouncementId(x))
    BY <1>1, <2>1, <2>2, <2>4 DEF SystemFits
  <2>. QED
    BY <2>3, <2>4
<1>3. \A k \in Settings : Has(e, SettingId(k)) => e[SettingId(k)].saw + 1 = e[SettingId(k)].version
  BY <1>1 DEF SystemFits
<1>. QED
  BY <1>2, <1>3 DEF SystemFits, e

(* Another transaction that writes no document in common with this one     *)
(* does not notify of what this one drafts.                                *)
LEMMA SystemUndisturbed ==
  ASSUME NEW d, NEW w, NEW c, SystemWrites(d, w), Apart(w, c),
         \A x \in Announcements : Notified(c, x) => Has(c, AnnouncementId(x)) \/ Notified(d, x)
  PROVE  SystemWrites(Apply(d, c), w)
<1>1. ASSUME NEW x \in Announcements, Notified(Apply(d, c), x)
      PROVE  Notified(d, x) \/ Notified(c, x)
  BY <1>1, ApplyFacts DEF Notified
<1>. QED
  BY <1>1 DEF SystemWrites, Apart

LEMMA OneAnnouncement ==
  ASSUME NEW x \in Announcements, NEW v, AnnouncementFits(v),
         v.status \in {"DRAFT", "DELETED"} => ~Notified(db, x)
  PROVE  SystemWrites(db, Put(AnnouncementId(x), v))
<1>. DEFINE w == Put(AnnouncementId(x), v)
<1>1. (\A id : Has(w, id) <=> id = AnnouncementId(x)) /\ w[AnnouncementId(x)] = v
  BY OneDocument
<1>. HIDE DEF w
<1>2. /\ ~Has(w, MailPolicy) /\ \A k : ~Has(w, SettingId(k))
      /\ \A y : ~Notified(w, y) /\ (Has(w, AnnouncementId(y)) => y = x)
  BY <1>1, SystemIds DEF Notified
<1>. QED
  BY <1>1, <1>2 DEF SystemWrites, SystemFits, w

LEMMA DraftUnannounced ==
  ASSUME SystemFits(db), NEW x \in Announcements
  PROVE  /\ Draft(x) => /\ ~Notified(db, x) /\ AnnouncementFits(db[AnnouncementId(x)])
                        /\ db[AnnouncementId(x)].version = db[AnnouncementId(x)].content
         /\ Announced(x) => AnnouncementFits(db[AnnouncementId(x)])
         /\ ~Has(db, AnnouncementId(x)) => ~Notified(db, x)
BY DEF SystemFits, Draft, Announced, AnnouncementFits

(* What administrators begin fits.                                         *)
LEMMA SettingOpens ==
  ASSUME NEW s \in Sessions, NEW k \in Settings, NEW seen, ChangeSetting(s, k, seen)
  PROVE  \E w : OpenTxn(s, w) /\ SystemWrites(db, w)
<1>. DEFINE v == [version |-> VersionOf(k) + 1, saw |-> seen]
            w == Put(SettingId(k), v)
<1>1. (\A id : Has(w, id) <=> id = SettingId(k)) /\ w[SettingId(k)] = v
  BY OneDocument
<1>2. OpenTxn(s, w) /\ v.saw + 1 = v.version
  BY DEF ChangeSetting
<1>. HIDE DEF w
<1>3. /\ ~Has(w, MailPolicy) /\ \A x : ~Has(w, AnnouncementId(x)) /\ ~Notified(w, x)
      /\ \A j : Has(w, SettingId(j)) => j = k
  BY <1>1, SystemIds DEF Notified
<1>. HIDE DEF v
<1>. QED
  BY <1>1, <1>2, <1>3 DEF SystemWrites, SystemFits

LEMMA AnnouncementOpens ==
  ASSUME SystemFits(db), NEW s \in Sessions, NEW x \in Announcements, NEW seen,
         \/ CreateAnnouncement(s, x) \/ UpdateAnnouncement(s, x, seen)
         \/ WithdrawAnnouncement(s, x, seen) \/ DeleteDraft(s, x, seen)
  PROVE  \E w : OpenTxn(s, w) /\ SystemWrites(db, w)
<1>. DEFINE old == db[AnnouncementId(x)]
<1>1. ASSUME NEW v, OpenTxn(s, Put(AnnouncementId(x), v)), AnnouncementFits(v),
             v.status \in {"DRAFT", "DELETED"} => ~Notified(db, x)
      PROVE  \E w : OpenTxn(s, w) /\ SystemWrites(db, w)
  BY <1>1, OneAnnouncement
<1>2. CASE CreateAnnouncement(s, x)
  <2>. DEFINE v == [status |-> "DRAFT", version |-> 1, content |-> 1, approved |-> 0]
  <2>1. AnnouncementFits(v)
    BY DEF AnnouncementFits
  <2>. QED
    BY <1>1, <1>2, <2>1, DraftUnannounced DEF CreateAnnouncement
<1>3. CASE UpdateAnnouncement(s, x, seen)
  <2>. DEFINE v == [Saved(x) EXCEPT !.content = @ + 1]
  <2>1. ~Notified(db, x) /\ AnnouncementFits(old) /\ old.version = old.content
    BY <1>3, DraftUnannounced DEF UpdateAnnouncement
  <2>2. AnnouncementFits(v)
    BY <1>3, <2>1 DEF AnnouncementFits, Saved, UpdateAnnouncement, Draft
  <2>3. OpenTxn(s, Put(AnnouncementId(x), v))
    BY <1>3 DEF UpdateAnnouncement
  <2>. HIDE DEF v
  <2>. QED
    BY <1>1, <2>1, <2>2, <2>3
<1>4. CASE WithdrawAnnouncement(s, x, seen)
  <2>. DEFINE v == [Saved(x) EXCEPT !.status = "WITHDRAWN"]
  <2>1. AnnouncementFits(old) /\ old.status = "PUBLISHED"
    BY <1>4, DraftUnannounced DEF WithdrawAnnouncement
  <2>2. AnnouncementFits(v) /\ v.status = "WITHDRAWN"
    BY <2>1 DEF AnnouncementFits, Saved
  <2>3. OpenTxn(s, Put(AnnouncementId(x), v))
    BY <1>4 DEF WithdrawAnnouncement
  <2>. HIDE DEF v
  <2>. QED
    BY <1>1, <2>2, <2>3
<1>5. CASE DeleteDraft(s, x, seen)
  <2>. DEFINE v == [old EXCEPT !.status = "DELETED"]
  <2>1. ~Notified(db, x) /\ AnnouncementFits(old)
    BY <1>5, DraftUnannounced DEF DeleteDraft
  <2>2. AnnouncementFits(v)
    BY <2>1 DEF AnnouncementFits
  <2>3. OpenTxn(s, Put(AnnouncementId(x), v))
    BY <1>5 DEF DeleteDraft
  <2>. HIDE DEF v
  <2>. QED
    BY <1>1, <2>1, <2>2, <2>3
<1>. QED
  BY <1>2, <1>3, <1>4, <1>5

(* A publication approves the draft that its publisher had read.           *)
LEMMA PublicationOpens ==
  ASSUME SystemFits(db), NEW s \in Sessions, NEW x \in Announcements, NEW seen,
         PublishAnnouncement(s, x, seen)
  PROVE  \E w : OpenTxn(s, w) /\ SystemWrites(db, w)
<1>. DEFINE old == db[AnnouncementId(x)]
            v == [Saved(x) EXCEPT !.status = "PUBLISHED", !.approved = seen]
            w == Apply(NoticesForAll(x), Put(AnnouncementId(x), v))
<1>1. AnnouncementFits(old) /\ old.version = old.content /\ old.version = seen
  BY DraftUnannounced DEF PublishAnnouncement, IsVersion
<1>2. AnnouncementFits(v) /\ v.status = "PUBLISHED"
  BY <1>1 DEF AnnouncementFits, Saved
<1>3. OpenTxn(s, w)
  BY DEF PublishAnnouncement
<1>. HIDE DEF v
<1>4. /\ \A id : Has(w, id) => id = AnnouncementId(x) \/ \E a \in Readers : id = NoticeId(x, a)
      /\ Has(w, AnnouncementId(x)) /\ w[AnnouncementId(x)] = v
  BY ApplyFacts, OneDocument DEF NoticesForAll, Has
<1>. HIDE DEF w
<1>5. /\ ~Has(w, MailPolicy) /\ \A k : ~Has(w, SettingId(k))
      /\ \A y : (Has(w, AnnouncementId(y)) => y = x) /\ (Notified(w, y) => y = x)
  BY <1>4, SystemIds DEF Notified
<1>6. SystemWrites(db, w)
  BY <1>2, <1>4, <1>5 DEF SystemWrites, SystemFits
<1>. QED
  BY <1>3, <1>6
(* A write that is no transaction: of one document, which is none of the   *)
(* settings and announcements, and a notice only if it exists.             *)
LEMMA AloneKeepsSettings ==
  ASSUME SettingsInvariant, NEW id, NEW v, WriteAlone(Put(id, v)),
         \A k : id # SettingId(k), \A x : id # AnnouncementId(x),
         \A x, a : id = NoticeId(x, a) => Has(db, id)
  PROVE  SettingsInvariant'
<1>. DEFINE w == Put(id, v)
<1>1. \A y : Has(w, y) <=> y = id
  BY OneDocument
<1>2. /\ db' = Apply(db, w)
      /\ TxnShape'
      /\ \A u \in Sessions : txn'[u].open =>
           /\ txn[u].open /\ txn'[u].writes = txn[u].writes
           /\ Apart(txn[u].writes, w)
  BY AloneEffect DEF SettingsInvariant
<1>. HIDE DEF w
<1>3. \A x \in Announcements : (Notified(w, x) => Notified(db, x)) /\ ~Has(w, AnnouncementId(x))
  BY <1>1 DEF Notified
<1>4. \A x \in Announcements : Notified(Apply(db, w), x) => Notified(db, x)
  BY <1>3, ApplyFacts DEF Notified
<1>5. SystemFits(Apply(db, w))
  <2>1. \A x : ~Has(w, AnnouncementId(x)) /\ ~Has(w, SettingId(x))
    BY <1>1
  <2>2. /\ \A x : /\ Has(Apply(db, w), AnnouncementId(x)) <=> Has(db, AnnouncementId(x))
                  /\ Has(Apply(db, w), SettingId(x)) <=> Has(db, SettingId(x))
                  /\ Has(db, AnnouncementId(x)) =>
                       Apply(db, w)[AnnouncementId(x)] = db[AnnouncementId(x)]
                  /\ Has(db, SettingId(x)) => Apply(db, w)[SettingId(x)] = db[SettingId(x)]
    BY <2>1, ApplyFacts
  <2>. QED
    BY <1>4, <2>2 DEF SystemFits, SettingsInvariant
<1>6. ASSUME NEW u \in Sessions, txn'[u].open
      PROVE  SystemWrites(Apply(db, w), txn'[u].writes)
  <2>. DEFINE mine == txn[u].writes
  <2>1. SystemWrites(db, mine) /\ Apart(mine, w) /\ txn'[u].writes = mine
    BY <1>2, <1>6 DEF SettingsInvariant
  <2>. HIDE DEF mine
  <2>2. SystemWrites(Apply(db, w), mine)
    BY <1>3, <2>1, SystemUndisturbed
  <2>. QED
    BY <2>1, <2>2
<1>. QED
  BY <1>2, <1>5, <1>6 DEF SettingsInvariant

LEMMA SettingsCommit ==
  ASSUME SettingsInvariant, NEW s \in Sessions, CommitTxn(s)
  PROVE  SettingsInvariant'
<1>. DEFINE c == txn[s].writes
<1>1. /\ SystemWrites(db, c) /\ db' = Apply(db, c) /\ TxnShape'
      /\ \A u \in Sessions : txn'[u].open =>
           /\ txn[u].open /\ txn'[u].writes = txn[u].writes /\ Apart(txn[u].writes, c)
  BY CommitEffect DEF SettingsInvariant
<1>. HIDE DEF c
<1>2. SystemFits(Apply(db, c))
  BY <1>1, SystemCommits DEF SettingsInvariant, SystemWrites
<1>3. \A x \in Announcements : Notified(c, x) => Has(c, AnnouncementId(x))
  BY <1>1 DEF SystemWrites, SystemFits
<1>4. \A w : SystemWrites(db, w) /\ Apart(w, c) => SystemWrites(Apply(db, c), w)
  BY <1>3, SystemUndisturbed
<1>. QED
  BY <1>1, <1>2, <1>4 DEF SettingsInvariant

(* Transactions and notices do not touch the policy.                       *)
LEMMA MailUntouched ==
  ASSUME MailInvariant, NEW w, ~Has(w, MailPolicy), db' = Apply(db, w), UNCHANGED systemVars
  PROVE  MailInvariant'
<1>1. Has(db', MailPolicy) /\ db'[MailPolicy] = db[MailPolicy]
  BY ApplyFacts DEF MailInvariant
<1>. QED
  BY <1>1 DEF MailInvariant, DeskFits, PolicyFits, systemVars

LEMMA SettingsStep ==
  ASSUME SettingsInvariant, MailInvariant, SettingsNext, UNCHANGED systemVars
  PROVE  SettingsInvariant' /\ MailInvariant'
<1>1. ASSUME NEW s \in Sessions, NEW w, OpenTxn(s, w), SystemWrites(db, w)
      PROVE  SettingsInvariant' /\ MailInvariant'
  <2>1. SettingsInvariant'
    BY <1>1, OpenEffect DEF SettingsInvariant
  <2>2. db' = db
    BY <1>1 DEF OpenTxn
  <2>. QED
    BY <2>1, <2>2 DEF MailInvariant, DeskFits, PolicyFits, systemVars
<1>2. ASSUME NEW s \in Sessions, CommitTxn(s)
      PROVE  SettingsInvariant' /\ MailInvariant'
  <2>1. db' = Apply(db, txn[s].writes) /\ ~Has(txn[s].writes, MailPolicy)
    BY <1>2, CommitEffect DEF SettingsInvariant, SystemWrites
  <2>. QED
    BY <1>2, <2>1, SettingsCommit, MailUntouched
<1>3. ASSUME NEW s \in Sessions, AbortTxn(s)
      PROVE  SettingsInvariant' /\ MailInvariant'
  <2>1. SettingsInvariant' /\ db' = db
    BY <1>3, AbortEffect DEF SettingsInvariant
  <2>. QED
    BY <2>1 DEF MailInvariant, DeskFits, PolicyFits, systemVars
<1>4. ASSUME NEW id, NEW v, WriteAlone(Put(id, v)), id # MailPolicy,
             \A k : id # SettingId(k), \A x : id # AnnouncementId(x),
             \A x, a : id = NoticeId(x, a) => Has(db, id)
      PROVE  SettingsInvariant' /\ MailInvariant'
  <2>1. db' = Apply(db, Put(id, v)) /\ ~Has(Put(id, v), MailPolicy)
    BY <1>4, OneDocument DEF WriteAlone
  <2>. QED
    BY <1>4, <2>1, AloneKeepsSettings, MailUntouched
<1>5. ASSUME NEW x, NEW a, MarkRead(x, a)
      PROVE  SettingsInvariant' /\ MailInvariant'
  <2>1. WriteAlone(Put(NoticeId(x, a), "READ")) /\ Has(db, NoticeId(x, a))
    BY <1>5 DEF MarkRead
  <2>. QED
    BY <1>4, <2>1, SystemIds
<1>6. ASSUME NEW a, NewReader(a)
      PROVE  SettingsInvariant' /\ MailInvariant'
  <2>1. WriteAlone(Put(ReaderId(a), TRUE))
    BY <1>6 DEF NewReader
  <2>. QED
    BY <1>4, <2>1, SystemIds
<1>. QED
  BY <1>1, <1>2, <1>3, <1>5, <1>6, SettingOpens, AnnouncementOpens, PublicationOpens
  DEF SettingsNext, SettingsInvariant

(* A new policy, by compare-and-set, has a higher version or the same mail *)
(* settings, so that every request still knows what it is about.           *)
LEMMA PolicyReplaced ==
  ASSUME SettingsInvariant, MailInvariant, NEW p, WriteAlone(Put(MailPolicy, p)), UNCHANGED tested,
         PolicyFits(tested, p),
         \/ p.version = db[MailPolicy].version /\ p.mail = db[MailPolicy].mail
         \/ p.version = db[MailPolicy].version + 1,
         NEW e \in Desks, LeavesDesk(e)
  PROVE  SettingsInvariant' /\ MailInvariant'
<1>1. SettingsInvariant'
  BY AloneKeepsSettings, SystemIds
<1>2. Has(db', MailPolicy) /\ db'[MailPolicy] = p
  BY ApplyFacts, OneDocument DEF WriteAlone
<1>3. ASSUME NEW k, DeskFits(db, tested, k)
      PROVE  DeskFits(db', tested', k)
  <2>1. db[MailPolicy].version \in Nat /\ tested' = tested
    BY DEF MailInvariant, PolicyFits
  <2>. QED
    BY <1>2, <1>3, <2>1 DEF DeskFits, PolicyFits
<1>4. DOMAIN desk' = Desks /\ \A f \in Desks : desk'[f] = desk[f] \/ desk'[f] = AtNoDesk
  BY DEF LeavesDesk, MailInvariant
<1>5. DeskFits(db', tested', AtNoDesk)
  BY DEF DeskFits, AtNoDesk
<1>6. MailInvariant'
  BY <1>2, <1>3, <1>4, <1>5 DEF MailInvariant
<1>. QED
  BY <1>1, <1>6

(* A step at a desk that leaves the policy as it is.                       *)
LEMMA DeskMoves ==
  ASSUME SettingsInvariant, MailInvariant, UNCHANGED <<db, txn>>, tested \subseteq tested',
         NEW e \in Desks, NEW k, desk' = [desk EXCEPT ![e] = k], DeskFits(db, tested', k)
  PROVE  SettingsInvariant' /\ MailInvariant'
<1>1. SettingsInvariant'
  BY DEF SettingsInvariant, TxnShape
<1>2. \A f \in Desks : DeskFits(db, tested', desk[f])
  BY DEF MailInvariant, DeskFits, PolicyFits
<1>3. DOMAIN desk' = Desks /\ \A f \in Desks : desk'[f] = desk[f] \/ desk'[f] = k
  BY DEF MailInvariant
<1>4. PolicyFits(tested', db[MailPolicy])
  BY DEF MailInvariant, PolicyFits
<1>. QED
  BY <1>1, <1>2, <1>3, <1>4 DEF MailInvariant

LEMMA MailStep ==
  ASSUME SettingsInvariant, MailInvariant, NEW e \in Desks,
         \/ ReadToChange(e) \/ WritePolicy(e)
         \/ ReadToTest(e) \/ SendTest(e) \/ MarkVerified(e) \/ DeskFails(e)
  PROVE  SettingsInvariant' /\ MailInvariant'
<1>. DEFINE p == db[MailPolicy]
            k == desk[e]
<1>1. PolicyFits(tested, p) /\ DeskFits(db, tested, k) /\ p.version <= p.version
  BY DEF MailInvariant, PolicyFits
<1>2. DeskFits(db, tested, AtNoDesk)
  BY DEF DeskFits, AtNoDesk
<1>3. ASSUME UNCHANGED <<db, txn, tested>>, LeavesDesk(e)
      PROVE  SettingsInvariant' /\ MailInvariant'
  BY <1>2, <1>3, DeskMoves DEF LeavesDesk
<1>4. CASE ReadToChange(e)
  <2>1. PICK changes \in BOOLEAN :
          desk' = [desk EXCEPT ![e] = [at |-> "change", read |-> p, changes |-> changes]]
    BY <1>4 DEF ReadToChange
  <2>2. DeskFits(db, tested, [at |-> "change", read |-> p, changes |-> changes])
    BY <1>1 DEF DeskFits
  <2>. QED
    BY <1>4, <2>1, <2>2, DeskMoves DEF ReadToChange
<1>5. CASE WritePolicy(e)
  <2>. DEFINE q == Replacement(k.read, k.changes)
  <2>1. CASE p.version = k.read.version
    <3>1. PolicyFits(tested, k.read) /\ k.changes \in BOOLEAN
      BY <1>1, <1>5 DEF WritePolicy, AtDesk, DeskFits
    <3>2. PolicyFits(tested, q) /\ q.version = p.version + 1
      <4>. DEFINE r == k.read
                  changes == k.changes
      <4>1. /\ DOMAIN q = {"version", "mail", "verified"} /\ q.version = r.version + 1
            /\ q.mail = IF changes THEN r.version ELSE r.mail
            /\ q.verified = (~changes /\ r.verified)
        BY DEF Replacement
      <4>. HIDE DEF q, r, changes
      <4>2. PolicyFits(tested, r) /\ changes \in BOOLEAN /\ p.version = r.version
        BY <2>1, <3>1 DEF r, changes
      <4>3. q.verified \in BOOLEAN /\ (q.verified => r.verified /\ q.mail = r.mail)
        BY <4>1, <4>2 DEF PolicyFits
      <4>. QED
        BY <4>1, <4>2, <4>3 DEF PolicyFits
    <3>3. WriteAlone(Put(MailPolicy, q)) /\ LeavesDesk(e) /\ UNCHANGED tested
      BY <1>5, <2>1 DEF WritePolicy
    <3>. HIDE DEF q
    <3>. QED
      BY <3>2, <3>3, PolicyReplaced
  <2>2. CASE p.version # k.read.version
    BY <1>3, <1>5, <2>2 DEF WritePolicy
  <2>. QED
    BY <2>1, <2>2
<1>6. CASE ReadToTest(e)
  <2>1. DeskFits(db, tested, [at |-> "send", read |-> p])
    BY <1>1 DEF DeskFits
  <2>. QED
    BY <1>6, <2>1, DeskMoves DEF ReadToTest
<1>7. CASE SendTest(e)
  <2>. DEFINE sent == [k EXCEPT !.at = "mark"]
  <2>1. k.at = "send" /\ DOMAIN k = {"at", "read"}
    BY <1>1, <1>7 DEF SendTest, AtDesk, DeskFits
  <2>2. sent.at = "mark" /\ sent.read = k.read
    BY <2>1
  <2>3. /\ tested' = tested \cup {k.read.mail} /\ UNCHANGED <<db, txn>>
        /\ desk' = [desk EXCEPT ![e] = sent]
    BY <1>7 DEF SendTest, MailInvariant
  <2>. HIDE DEF sent
  <2>4. DeskFits(db, tested', sent)
    BY <1>1, <2>1, <2>2, <2>3 DEF DeskFits, PolicyFits
  <2>. QED
    BY <2>3, <2>4, DeskMoves
<1>8. CASE MarkVerified(e)
  <2>. DEFINE q == [p EXCEPT !.verified = TRUE]
  <2>1. CASE p.version = k.read.version
    <3>1. k.at = "mark"
      BY <1>8 DEF MarkVerified, AtDesk
    <3>2. k.read.mail \in tested /\ k.read.mail = p.mail
      BY <1>1, <2>1, <3>1 DEF DeskFits
    <3>3. PolicyFits(tested, q) /\ q.version = p.version /\ q.mail = p.mail
      BY <1>1, <3>2 DEF PolicyFits
    <3>4. WriteAlone(Put(MailPolicy, q)) /\ LeavesDesk(e) /\ UNCHANGED tested
      BY <1>8, <2>1 DEF MarkVerified
    <3>. HIDE DEF q
    <3>. QED
      BY <3>3, <3>4, PolicyReplaced
  <2>2. CASE p.version # k.read.version
    BY <1>3, <1>8, <2>2 DEF MarkVerified
  <2>. QED
    BY <2>1, <2>2
<1>9. CASE DeskFails(e)
  BY <1>3, <1>9 DEF DeskFails
<1>. QED
  BY <1>4, <1>5, <1>6, <1>7, <1>8, <1>9

(* Before anything is changed.                                             *)
LEMMA SystemBegins ==
  ASSUME NEW d, \A k : ~Has(d, SettingId(k)), \A x : ~Has(d, AnnouncementId(x)),
         \A x, a : ~Has(d, NoticeId(x, a))
  PROVE  SystemFits(d)
BY DEF SystemFits, Notified

LEMMA MailBegins ==
  ASSUME Has(db, MailPolicy), db[MailPolicy] = [version |-> 1, mail |-> 0, verified |-> FALSE],
         DesksInit
  PROVE  MailInvariant
<1>1. PolicyFits(tested, db[MailPolicy])
  BY DEF PolicyFits
<1>2. DOMAIN desk = Desks /\ \A e \in Desks : DeskFits(db, tested, desk[e])
  BY DEF DesksInit, AtNoDesk, DeskFits
<1>. QED
  BY <1>1, <1>2 DEF MailInvariant

LEMMA ChangesFollow ==
  ASSUME SystemFits(db), PolicyFits(tested, db[MailPolicy])
  PROVE  ChangesWereSeen
<1>1. ReplacedWasSeen
  BY DEF SystemFits, ReplacedWasSeen
<1>2. VerifiedWasTested
  BY DEF PolicyFits, VerifiedWasTested
<1>3. AnnouncedWasApproved
  BY DEF SystemFits, AnnouncementFits, Notified, AnnouncedWasApproved, Announced, Draft
<1>. QED
  BY <1>1, <1>2, <1>3 DEF ChangesWereSeen

(* For any number of administrators at any number of settings and          *)
(* announcements: nobody replaces a setting they have not seen, mail       *)
(* settings count as verified only if a mail has been sent with just       *)
(* these, and what agents are notified of is what its publisher had read.  *)
THEOREM ChangesSeen == SystemSpec => []ChangesWereSeen
<1>1. SystemInit => SettingsInvariant /\ MailInvariant
  <2>. SUFFICES ASSUME SystemInit
                PROVE  SettingsInvariant /\ MailInvariant
    OBVIOUS
  <2>1. TxnShape /\ \A s \in Sessions : ~txn[s].open
    BY NoneOpen DEF SystemInit, NoTxns
  <2>2. /\ \A id : Has(db, id) <=> id = MailPolicy
        /\ db[MailPolicy] = [version |-> 1, mail |-> 0, verified |-> FALSE]
    BY OneDocument DEF SystemInit, FirstMailPolicy
  <2>3. SystemFits(db)
    BY <2>2, SystemIds, SystemBegins
  <2>4. MailInvariant
    BY <2>2, MailBegins DEF SystemInit
  <2>. QED
    BY <2>1, <2>3, <2>4 DEF SettingsInvariant
<1>2. SettingsInvariant /\ MailInvariant /\ [SystemNext]_<<db, txn, systemVars>> =>
        SettingsInvariant' /\ MailInvariant'
  <2>. SUFFICES ASSUME SettingsInvariant, MailInvariant, [SystemNext]_<<db, txn, systemVars>>
                PROVE  SettingsInvariant' /\ MailInvariant'
    OBVIOUS
  <2>1. CASE UNCHANGED <<db, txn, systemVars>>
    BY <2>1 DEF SettingsInvariant, MailInvariant, TxnShape, systemVars
  <2>2. CASE SettingsNext /\ UNCHANGED systemVars
    BY <2>2, SettingsStep
  <2>3. CASE MailNext
    BY <2>3, MailStep DEF MailNext
  <2>. QED
    BY <2>1, <2>2, <2>3 DEF SystemNext
<1>3. SettingsInvariant /\ MailInvariant => ChangesWereSeen
  BY ChangesFollow DEF SettingsInvariant, MailInvariant
<1>. QED
  BY <1>1, <1>2, <1>3, PTL DEF SystemSpec

-----------------------------------------------------------------------------
(* CIRCLES, THEIR COUNTS, REVIEWS AND QUOTAS                               *)

LEMMA CommunityIds ==
  /\ \A x, y : /\ Membership(x, y) # Agent(x)
               /\ RequestId(x) = RequestId(y) => x = y
               /\ Agent(x) = Agent(y) => x = y
               /\ Charge(x) = Charge(y) => x = y
               /\ Reward(x) = Reward(y) => x = y
               /\ Charge(x) # Reward(y) /\ Charge(x) # Agent(y) /\ Charge(x) # RequestId(y)
               /\ Charge(x) # PendingName(y) /\ Reward(x) # Agent(y) /\ Reward(x) # RequestId(y)
               /\ Reward(x) # PendingName(y) /\ Agent(x) # RequestId(y) /\ Agent(x) # PendingName(y)
               /\ RequestId(x) # PendingName(y)
  /\ \A a, n, b, m : Membership(a, n) = Membership(b, m) => a = b /\ n = m
  /\ \A a, n, x : /\ Membership(a, n) # CircleOf(x) /\ Membership(a, n) # Agent(x)
                  /\ Membership(a, n) # RequestId(x) /\ Membership(a, n) # PendingName(x)
                  /\ Membership(a, n) # Charge(x) /\ Membership(a, n) # Reward(x)
BY DEF PostId, CircleOf, Agent, RequestId, PendingName, Charge, Reward, Membership

-----------------------------------------------------------------------------
(* What other transactions leave of it.                                    *)

LEMMA CountsUndisturbed ==
  ASSUME NEW d, NEW w, NEW c, CountsFit(d, w), Apart(w, c)
  PROVE  CountsFit(Apply(d, c), w)
<1>. DEFINE e == Apply(d, c)
<1>1. /\ \A id : Has(w, id) => (Has(e, id) <=> Has(d, id))
      /\ \A id : Has(w, id) /\ Has(d, id) => e[id] = d[id]
  BY ApplyFacts DEF Apart
<1>. HIDE DEF e
<1>2. CountsNothing(d, w) => CountsNothing(e, w)
  BY <1>1 DEF CountsNothing
<1>3. \A n \in CircleNames, x \in Contents : CountsPost(d, w, n, x) => CountsPost(e, w, n, x)
  BY <1>1 DEF CountsPost
<1>4. \A n \in CircleNames, a \in Agents, joins \in BOOLEAN :
        CountsMember(d, w, n, a, joins) => CountsMember(e, w, n, a, joins)
  BY <1>1 DEF CountsMember
<1>. QED
  BY <1>2, <1>3, <1>4 DEF CountsFit, e

LEMMA ReviewsUndisturbed ==
  ASSUME NEW d, NEW w, NEW c, ReviewsFit(d, w), ReviewsFit(d, c), Apart(w, c)
  PROVE  ReviewsFit(Apply(d, c), w)
<1>. DEFINE e == Apply(d, c)
<1>1. /\ \A id : Has(e, id) <=> Has(d, id) \/ Has(c, id)
      /\ \A id : Has(w, id) => (Has(e, id) <=> Has(d, id)) /\ ~Has(c, id)
      /\ \A id : Has(c, id) => e[id] = c[id]
      /\ \A id : Has(d, id) /\ ~Has(c, id) => e[id] = d[id]
  BY ApplyFacts DEF Apart
<1>. HIDE DEF e
<1>2. ASSUME NEW x \in Contents, Has(w, PostId(x)), Has(w, Charge(x)), ~ForPost(d, x)
      PROVE  ~ForPost(e, x)
  BY <1>1, <1>2 DEF ForPost, ReviewsFit
<1>3. ASSUME NEW x \in Contents, ForPost(w, x), ~Has(d, PostId(x)),
             Has(w, Charge(x)) \/ ForPost(d, x)
      PROVE  ~Has(e, PostId(x)) /\ (Has(w, Charge(x)) \/ ForPost(e, x))
  BY <1>1, <1>3 DEF ForPost, ReviewsFit
<1>. QED
  BY <1>1, <1>2, <1>3 DEF ReviewsFit, e

LEMMA QuotaUndisturbed ==
  ASSUME NEW d, NEW w, NEW c, QuotaFits(d, w), QuotaIn(d), Apart(w, c)
  PROVE  QuotaFits(Apply(d, c), w)
<1>. DEFINE e == Apply(d, c)
<1>1. /\ \A id : Has(w, id) => (Has(e, id) <=> Has(d, id))
      /\ \A id : Has(w, id) /\ Has(d, id) => e[id] = d[id]
  BY ApplyFacts DEF Apart
<1>. HIDE DEF e
<1>2. \A a \in Agents : Has(w, Agent(a)) => e[Agent(a)] = d[Agent(a)]
  BY <1>1 DEF QuotaIn
<1>3. ASSUME NEW a \in Agents, NEW window \in Windows, NEW id, Made(w, id, a, window)
      PROVE  Made(d, id, a, window) => Made(e, id, a, window)
  BY <1>1, <1>3 DEF Made
<1>4. \A a \in Agents, window \in Windows : \A id : Made(w, id, a, window) => Has(w, id)
  BY DEF Made
<1>. QED
  BY <1>1, <1>2, <1>3, <1>4 DEF QuotaFits, e
-----------------------------------------------------------------------------
(* What a commit leaves of the documents.                                  *)

LEMMA CountsCommit ==
  ASSUME NEW d, NEW w, CountsIn(d), CountsFit(d, w)
  PROVE  CountsIn(Apply(d, w))
<1>. DEFINE e == Apply(d, w)
<1>1. /\ \A id : Has(e, id) <=> Has(d, id) \/ Has(w, id)
      /\ \A id : Has(w, id) => e[id] = w[id]
      /\ \A id : Has(d, id) /\ ~Has(w, id) => e[id] = d[id]
  BY ApplyFacts
<1>. HIDE DEF e
<1>2. \A n \in CircleNames : Has(e, CircleOf(n)) => CircleFits(e[CircleOf(n)])
  BY <1>1 DEF CountsIn, CountsFit
<1>. DEFINE Good(n) ==
       /\ IsFiniteSet(PostsIn(e, n)) /\ IsFiniteSet(MembersIn(e, n))
       /\ IF Has(e, CircleOf(n))
          THEN /\ CircleFits(e[CircleOf(n)])
               /\ e[CircleOf(n)].posts = Cardinality(PostsIn(e, n))
               /\ e[CircleOf(n)].members = Cardinality(MembersIn(e, n))
          ELSE PostsIn(e, n) = {} /\ MembersIn(e, n) = {}
<1>3. ASSUME NEW n \in CircleNames, PostsIn(e, n) = PostsIn(d, n), MembersIn(e, n) = MembersIn(d, n),
             \/ ~Has(w, CircleOf(n))
             \/ Has(d, CircleOf(n)) /\ SameCounts(w[CircleOf(n)], d[CircleOf(n)])
             \/ /\ ~Has(d, CircleOf(n))
                /\ w[CircleOf(n)].posts = 0 /\ w[CircleOf(n)].members = 0
      PROVE  Good(n)
  <2>1. /\ IsFiniteSet(PostsIn(e, n)) /\ IsFiniteSet(MembersIn(e, n))
        /\ ~Has(d, CircleOf(n)) => PostsIn(e, n) = {} /\ MembersIn(e, n) = {}
        /\ Has(d, CircleOf(n)) => /\ d[CircleOf(n)].posts = Cardinality(PostsIn(e, n))
                                  /\ d[CircleOf(n)].members = Cardinality(MembersIn(e, n))
    BY <1>3 DEF CountsIn
  <2>. QED
    BY <1>1, <1>2, <1>3, <2>1, FS_EmptySet DEF SameCounts
<1>4. ASSUME NEW n \in CircleNames, \A x \in Contents : Has(w, PostId(x)) => w[PostId(x)].on # n,
             CountsIn(d), \A x \in Contents : Has(w, PostId(x)) => ~Has(d, PostId(x))
      PROVE  PostsIn(e, n) = PostsIn(d, n)
  BY <1>1, <1>4 DEF PostsIn
<1>5. ASSUME NEW n \in CircleNames, \A a \in Agents : ~Has(w, Membership(a, n))
      PROVE  MembersIn(e, n) = MembersIn(d, n)
  BY <1>1, <1>5 DEF MembersIn
<1>6. ASSUME CountsNothing(d, w), NEW n \in CircleNames
      PROVE  Good(n)
  BY <1>3, <1>4, <1>5, <1>6 DEF CountsNothing
<1>7. ASSUME NEW m \in CircleNames, NEW x \in Contents, CountsPost(d, w, m, x), NEW n \in CircleNames
      PROVE  Good(n)
  <2>1. MembersIn(e, n) = MembersIn(d, n)
    BY <1>5, <1>7 DEF CountsPost
  <2>2. CASE n # m
    <3>1. PostsIn(e, n) = PostsIn(d, n)
      BY <1>4, <1>7, <2>2 DEF CountsPost
    <3>. QED
      BY <1>3, <1>7, <2>1, <2>2, <3>1 DEF CountsPost
  <2>3. CASE n = m
    <3>1. PostsIn(e, n) = PostsIn(d, n) \cup {x} /\ x \notin PostsIn(d, n)
      BY <1>1, <1>7, <2>3 DEF CountsPost, PostsIn
    <3>2. /\ IsFiniteSet(PostsIn(d, n)) /\ IsFiniteSet(MembersIn(d, n)) /\ Has(d, CircleOf(n))
          /\ d[CircleOf(n)].posts = Cardinality(PostsIn(d, n))
          /\ d[CircleOf(n)].members = Cardinality(MembersIn(d, n))
      BY <1>7, <2>3 DEF CountsPost, CountsIn
    <3>3. /\ IsFiniteSet(PostsIn(e, n))
          /\ Cardinality(PostsIn(e, n)) = Cardinality(PostsIn(d, n)) + 1
      BY <3>1, <3>2, FS_AddElement
    <3>4. /\ Has(e, CircleOf(n)) /\ e[CircleOf(n)].posts = d[CircleOf(n)].posts + 1
          /\ e[CircleOf(n)].members = d[CircleOf(n)].members
      BY <1>1, <1>7, <2>3 DEF CountsPost
    <3>. QED
      BY <1>2, <2>1, <3>2, <3>3, <3>4
  <2>. QED
    BY <2>2, <2>3
<1>8. ASSUME NEW m \in CircleNames, NEW a \in Agents, NEW joins \in BOOLEAN,
             CountsMember(d, w, m, a, joins), NEW n \in CircleNames
      PROVE  Good(n)
  <2>1. PostsIn(e, n) = PostsIn(d, n)
    BY <1>4, <1>8 DEF CountsMember
  <2>2. CASE n # m
    <3>1. MembersIn(e, n) = MembersIn(d, n)
      BY <1>5, <1>8, <2>2 DEF CountsMember
    <3>. QED
      BY <1>3, <1>8, <2>1, <2>2, <3>1 DEF CountsMember
  <2>3. CASE n = m
    <3>. DEFINE before == MembersIn(d, n)
    <3>1. /\ joins => MembersIn(e, n) = before \cup {a} /\ a \notin before
          /\ ~joins => MembersIn(e, n) = before \ {a} /\ a \in before
      BY <1>1, <1>8, <2>3 DEF CountsMember, MembersIn
    <3>2. /\ IsFiniteSet(before) /\ IsFiniteSet(PostsIn(d, n)) /\ Has(d, CircleOf(n))
          /\ d[CircleOf(n)].posts = Cardinality(PostsIn(d, n))
          /\ d[CircleOf(n)].members = Cardinality(before)
      BY <1>8, <2>3 DEF CountsMember, CountsIn
    <3>. HIDE DEF before
    <3>3. /\ IsFiniteSet(MembersIn(e, n))
          /\ Cardinality(MembersIn(e, n)) =
               IF joins THEN Cardinality(before) + 1 ELSE Cardinality(before) - 1
      BY <3>1, <3>2, FS_AddElement, FS_RemoveElement
    <3>4. /\ Has(e, CircleOf(n)) /\ e[CircleOf(n)].posts = d[CircleOf(n)].posts
          /\ e[CircleOf(n)].members = IF joins THEN d[CircleOf(n)].members + 1
                                      ELSE d[CircleOf(n)].members - 1
      BY <1>1, <1>8, <2>3 DEF CountsMember
    <3>. QED
      BY <1>2, <2>1, <3>2, <3>3, <3>4
  <2>. QED
    BY <2>2, <2>3
<1>9. \A n \in CircleNames : Good(n)
  BY <1>6, <1>7, <1>8 DEF CountsFit
<1>. QED
  BY <1>9 DEF CountsIn, e

LEMMA ReviewsCommit ==
  ASSUME NEW d, NEW w, ReviewsIn(d), ReviewsFit(d, w)
  PROVE  ReviewsIn(Apply(d, w))
<1>. DEFINE e == Apply(d, w)
<1>1. /\ \A id : Has(e, id) <=> Has(d, id) \/ Has(w, id)
      /\ \A id : Has(w, id) => e[id] = w[id]
      /\ \A id : Has(d, id) /\ ~Has(w, id) => e[id] = d[id]
  BY ApplyFacts
<1>. HIDE DEF e
<1>2. ASSUME NEW x \in Contents
      PROVE  /\ Has(e, PostId(x)) <=> Has(e, Reward(x))
             /\ Has(e, Reward(x)) => Has(e, Charge(x))
  BY <1>1 DEF ReviewsIn, ReviewsFit
<1>3. ASSUME NEW x \in Contents, Has(e, RequestId(x))
      PROVE  /\ RequestFits(e[RequestId(x)])
             /\ e[RequestId(x)].type = "POST" => (e[RequestId(x)].published <=> Has(e, PostId(x)))
             /\ e[RequestId(x)].type = "CIRCLE" /\ e[RequestId(x)].published =>
                  Has(e, CircleOf(e[RequestId(x)].on))
  <2>1. CASE Has(w, RequestId(x))
    <3>1. e[RequestId(x)] = w[RequestId(x)] /\ RequestFits(w[RequestId(x)])
      BY <1>1, <2>1 DEF ReviewsFit
    <3>2. ForPost(w, x) <=> w[RequestId(x)].type = "POST"
      BY <2>1 DEF ForPost
    <3>3. w[RequestId(x)].type = "POST" => (w[RequestId(x)].published <=> Has(e, PostId(x)))
      BY <1>1, <2>1, <3>2 DEF ReviewsFit
    <3>4. w[RequestId(x)].type = "CIRCLE" /\ w[RequestId(x)].published =>
            Has(w, CircleOf(w[RequestId(x)].on))
      BY <2>1, <3>2 DEF ReviewsFit
    <3>. QED
      BY <1>1, <3>1, <3>3, <3>4
  <2>2. CASE ~Has(w, RequestId(x))
    <3>1. Has(d, RequestId(x)) /\ e[RequestId(x)] = d[RequestId(x)]
      BY <1>1, <1>3, <2>2
    <3>2. d[RequestId(x)].type = "POST" => ForPost(d, x) /\ ~Has(w, PostId(x))
      BY <2>2, <3>1 DEF ForPost, ReviewsFit
    <3>. QED
      BY <1>1, <3>1, <3>2 DEF ReviewsIn
  <2>. QED
    BY <2>1, <2>2
<1>. QED
  BY <1>2, <1>3 DEF ReviewsIn, e

LEMMA QuotaCommit ==
  ASSUME NEW d, NEW w, QuotaIn(d), QuotaFits(d, w)
  PROVE  QuotaIn(Apply(d, w))
<1>. DEFINE e == Apply(d, w)
<1>1. /\ \A id : Has(e, id) <=> Has(d, id) \/ Has(w, id)
      /\ \A id : Has(w, id) => e[id] = w[id]
      /\ \A id : Has(d, id) /\ ~Has(w, id) => e[id] = d[id]
  BY ApplyFacts
<1>. HIDE DEF e
<1>2. ASSUME NEW a \in Agents
      PROVE  /\ Has(e, Agent(a)) /\ DOMAIN e[Agent(a)] = {"window", "reserved"}
             /\ e[Agent(a)].window = d[Agent(a)].window /\ e[Agent(a)].window \in Windows
             /\ e[Agent(a)].reserved \in BOOLEAN
             /\ Has(w, Agent(a)) => e[Agent(a)].reserved /\ ~d[Agent(a)].reserved
             /\ d[Agent(a)].reserved => e[Agent(a)].reserved
  <2>1. CASE Has(w, Agent(a))
    <3>1. WindowUsed(w[Agent(a)], d[Agent(a)].window) /\ ~d[Agent(a)].reserved
      BY <2>1 DEF QuotaFits
    <3>2. d[Agent(a)].window \in Windows
      BY DEF QuotaIn
    <3>3. /\ DOMAIN w[Agent(a)] = {"window", "reserved"}
          /\ w[Agent(a)].window = d[Agent(a)].window /\ w[Agent(a)].reserved = TRUE
      BY <3>1 DEF WindowUsed
    <3>4. Has(e, Agent(a)) /\ e[Agent(a)] = w[Agent(a)]
      BY <1>1, <2>1
    <3>. QED
      BY <3>1, <3>2, <3>3, <3>4
  <2>2. CASE ~Has(w, Agent(a))
    BY <1>1, <2>2 DEF QuotaIn
  <2>. QED
    BY <2>1, <2>2
<1>3. ASSUME NEW a \in Agents, NEW window \in Windows, NEW id, Made(e, id, a, window)
      PROVE  \/ Made(d, id, a, window)
             \/ /\ Has(w, Agent(a)) /\ window = d[Agent(a)].window
                /\ Made(w, id, a, window)
                /\ \A other : Made(w, other, a, window) => other = id
  <2>1. CASE Has(w, id)
    <3>1. Made(w, id, a, window)
      BY <1>1, <1>3, <2>1 DEF Made
    <3>. QED
      BY <3>1 DEF QuotaFits
  <2>2. CASE ~Has(w, id)
    BY <1>1, <1>3, <2>2 DEF Made
  <2>. QED
    BY <2>1, <2>2
<1>4. ASSUME NEW a \in Agents, NEW window \in Windows, NEW id, Made(e, id, a, window)
      PROVE  /\ window <= e[Agent(a)].window
             /\ window = e[Agent(a)].window => e[Agent(a)].reserved
             /\ \A other : Made(e, other, a, window) => other = id
  <2>1. CASE Made(d, id, a, window)
    <3>1. /\ window <= d[Agent(a)].window
          /\ window = d[Agent(a)].window => d[Agent(a)].reserved
          /\ \A other : Made(d, other, a, window) => other = id
      BY <2>1 DEF QuotaIn
    <3>2. ~(Has(w, Agent(a)) /\ window = d[Agent(a)].window)
      BY <1>2, <3>1
    <3>. QED
      BY <1>2, <1>3, <3>1, <3>2
  <2>2. CASE ~Made(d, id, a, window)
    <3>1. /\ Has(w, Agent(a)) /\ window = d[Agent(a)].window
          /\ \A other : Made(w, other, a, window) => other = id
      BY <1>3, <1>4, <2>2
    <3>2. ~d[Agent(a)].reserved
      BY <1>2, <3>1
    <3>3. \A other : ~Made(d, other, a, window)
      BY <3>1, <3>2 DEF QuotaIn
    <3>4. \A other : Made(e, other, a, window) => other = id
      BY <1>3, <3>1, <3>3
    <3>. QED
      BY <1>2, <3>1, <3>4 DEF Windows
  <2>. QED
    BY <2>1, <2>2
<1>. QED
  BY <1>2, <1>4 DEF QuotaIn, e
-----------------------------------------------------------------------------
(* What each operation begins fits the documents.                          *)

LEMMA NothingMade ==
  ASSUME NEW d, NEW w, MakesNothing(d, w)
  PROVE  QuotaFits(d, w)
<1>1. ASSUME NEW a \in Agents, NEW window \in Windows, NEW id, Made(w, id, a, window)
      PROVE  Made(d, id, a, window)
  <2>1. Has(w, id) /\ w[id].by = a /\ w[id].window = window /\ window # 0
    BY <1>1 DEF Made, Windows
  <2>2. ASSUME NEW n \in CircleNames, id = CircleOf(n)
        PROVE  Made(d, id, a, window)
    BY <2>1, <2>2 DEF MakesNothing, Made
  <2>3. ASSUME NEW x \in Contents, id = RequestId(x), w[id].type = "CIRCLE"
        PROVE  Made(d, id, a, window)
    BY <2>1, <2>3 DEF MakesNothing, Made
  <2>. QED
    BY <1>1, <2>2, <2>3 DEF Made
<1>. QED
  BY <1>1 DEF QuotaFits, MakesNothing

LEMMA NothingReviewed ==
  ASSUME NEW d, NEW w, ReviewsNothing(w)
  PROVE  ReviewsFit(d, w)
BY DEF ReviewsFit, ReviewsNothing, ForPost

LEMMA MembersOpen ==
  ASSUME CommunityInvariant, NEW s \in Sessions, NEW a \in Agents, NEW n \in CircleNames,
         Join(s, a, n) \/ LeaveCircle(s, a, n)
  PROVE  \E w : OpenTxn(s, w) /\ CommunityWrites(db, w)
<1>. DEFINE old == db[CircleOf(n)]
<1>1. ASSUME NEW joins \in BOOLEAN, NEW new, CircleFits(new), new.by = old.by, new.window = old.window,
             new.posts = old.posts,
             new.members = IF joins THEN old.members + 1 ELSE old.members - 1,
             Has(db, CircleOf(n)),
             joins <=> ~(Has(db, Membership(a, n)) /\ db[Membership(a, n)])
      PROVE  CommunityWrites(db, Apply(Put(Membership(a, n), joins), Put(CircleOf(n), new)))
  <2>. DEFINE w == Apply(Put(Membership(a, n), joins), Put(CircleOf(n), new))
  <2>1. /\ \A id : Has(w, id) <=> id = Membership(a, n) \/ id = CircleOf(n)
        /\ w[Membership(a, n)] = joins /\ w[CircleOf(n)] = new
    BY TwoDocuments, CommunityIds
  <2>. HIDE DEF w
  <2>2. /\ \A x : /\ ~Has(w, PostId(x)) /\ ~Has(w, Reward(x)) /\ ~Has(w, RequestId(x))
                  /\ ~Has(w, Agent(x))
        /\ \A m : Has(w, CircleOf(m)) <=> m = n
        /\ \A b, m : Has(w, Membership(b, m)) <=> b = a /\ m = n
    BY <2>1, ContentIds, CommunityIds
  <2>3. CountsFit(db, w)
    <3>1. CountsMember(db, w, n, a, joins)
      BY <1>1, <2>1, <2>2 DEF CountsMember
    <3>. QED
      BY <1>1, <2>1, <2>2, <3>1 DEF CountsFit
  <2>4. MakesNothing(db, w)
    BY <1>1, <2>1, <2>2 DEF MakesNothing
  <2>5. ReviewsNothing(w)
    BY <2>2 DEF ReviewsNothing
  <2>. QED
    BY <2>3, <2>4, <2>5, NothingMade, NothingReviewed DEF CommunityWrites, w
<1>2. Known(n) => CircleFits(old) /\ Has(db, CircleOf(n))
  BY DEF Known, CommunityInvariant, CountsIn
<1>3. CASE Join(s, a, n)
  <2>. DEFINE new == [old EXCEPT !.members = @ + 1]
  <2>1. CircleFits(old) /\ Has(db, CircleOf(n))
    BY <1>2, <1>3 DEF Join
  <2>2. /\ CircleFits(new) /\ new.by = old.by /\ new.window = old.window
        /\ new.posts = old.posts /\ new.members = old.members + 1
    BY <2>1 DEF CircleFits
  <2>3. /\ OpenTxn(s, Apply(Put(Membership(a, n), TRUE), Put(CircleOf(n), new)))
        /\ ~(Has(db, Membership(a, n)) /\ db[Membership(a, n)])
    BY <1>3 DEF Join
  <2>. HIDE DEF new
  <2>. QED
    BY <1>1, <2>1, <2>2, <2>3
<1>4. CASE LeaveCircle(s, a, n)
  <2>. DEFINE new == [old EXCEPT !.members = @ - 1]
  <2>1. CircleFits(old) /\ Has(db, CircleOf(n))
    BY <1>2, <1>4 DEF LeaveCircle
  <2>2. /\ CircleFits(new) /\ new.by = old.by /\ new.window = old.window
        /\ new.posts = old.posts /\ new.members = old.members - 1
    BY <2>1 DEF CircleFits
  <2>3. /\ OpenTxn(s, Apply(Put(Membership(a, n), FALSE), Put(CircleOf(n), new)))
        /\ Has(db, Membership(a, n)) /\ db[Membership(a, n)]
    BY <1>4 DEF LeaveCircle
  <2>. HIDE DEF new
  <2>. QED
    BY <1>1, <2>1, <2>2, <2>3
<1>. QED
  BY <1>3, <1>4

(* A circle that is new, or changed in what is not counted.                *)
LEMMA OneCircle ==
  ASSUME CommunityInvariant, NEW n \in CircleNames, NEW new, CircleFits(new),
         \/ /\ ~Has(db, CircleOf(n)) /\ new.window = 0
            /\ new.posts = 0 /\ new.members = 0
         \/ /\ Has(db, CircleOf(n)) /\ SameCounts(new, db[CircleOf(n)])
            /\ new.by = db[CircleOf(n)].by /\ new.window = db[CircleOf(n)].window
  PROVE  CommunityWrites(db, Put(CircleOf(n), new))
<1>. DEFINE w == Put(CircleOf(n), new)
<1>1. (\A id : Has(w, id) <=> id = CircleOf(n)) /\ w[CircleOf(n)] = new
  BY OneDocument
<1>. HIDE DEF w
<1>2. /\ \A x : /\ ~Has(w, PostId(x)) /\ ~Has(w, Reward(x)) /\ ~Has(w, RequestId(x))
                /\ ~Has(w, Agent(x))
      /\ \A m : Has(w, CircleOf(m)) <=> m = n
      /\ \A b, m : ~Has(w, Membership(b, m))
  BY <1>1, ContentIds, CommunityIds
<1>3. CountsFit(db, w)
  <2>1. CountsNothing(db, w)
    BY <1>1, <1>2 DEF CountsNothing
  <2>. QED
    BY <1>1, <1>2, <2>1 DEF CountsFit
<1>4. MakesNothing(db, w)
  BY <1>1, <1>2 DEF MakesNothing
<1>5. ReviewsNothing(w)
  BY <1>2 DEF ReviewsNothing
<1>. QED
  BY <1>3, <1>4, <1>5, NothingMade, NothingReviewed DEF CommunityWrites, w

LEMMA AdministratorsOpen ==
  ASSUME CommunityInvariant, NEW s \in Sessions, NEW n \in CircleNames,
         CreateCircleForAdmin(s, n) \/ ChangeCircle(s, n)
  PROVE  \E w : OpenTxn(s, w) /\ CommunityWrites(db, w)
<1>. DEFINE old == db[CircleOf(n)]
<1>1. CASE CreateCircleForAdmin(s, n)
  <2>1. PICK official \in BOOLEAN : OpenTxn(s, NewCircle(n, Nil, 0, official))
    BY <1>1 DEF CreateCircleForAdmin
  <2>. DEFINE new == [by |-> Nil, window |-> 0, official |-> official, active |-> TRUE,
                      open |-> TRUE, posts |-> 0, members |-> 0]
  <2>2. CircleFits(new) /\ new.window = 0 /\ new.posts = 0 /\ new.members = 0
    BY DEF CircleFits
  <2>3. OpenTxn(s, Put(CircleOf(n), new)) /\ ~Has(db, CircleOf(n))
    BY <1>1, <2>1 DEF NewCircle, CreateCircleForAdmin, Known
  <2>. HIDE DEF new
  <2>. QED
    BY <2>2, <2>3, OneCircle
<1>2. CASE ChangeCircle(s, n)
  <2>. DEFINE banned == [old EXCEPT !.active = ~@]
              closed == [old EXCEPT !.open = ~@]
  <2>1. CircleFits(old) /\ Has(db, CircleOf(n))
    BY <1>2 DEF ChangeCircle, Known, CommunityInvariant, CountsIn
  <2>2. /\ CircleFits(banned) /\ SameCounts(banned, old)
        /\ banned.by = old.by /\ banned.window = old.window
        /\ CircleFits(closed) /\ SameCounts(closed, old)
        /\ closed.by = old.by /\ closed.window = old.window
    BY <2>1 DEF CircleFits, SameCounts
  <2>3. OpenTxn(s, Put(CircleOf(n), banned)) \/ OpenTxn(s, Put(CircleOf(n), closed))
    BY <1>2 DEF ChangeCircle
  <2>. HIDE DEF banned, closed
  <2>. QED
    BY <2>1, <2>2, <2>3, OneCircle
<1>. QED
  BY <1>1, <1>2
(* The document that says that an agent has used its window.               *)
LEMMA Reserved ==
  ASSUME CommunityInvariant, NEW a \in Agents, Reservable(a)
  PROVE  /\ \A id : Has(Reserve(a), id) <=> id = Agent(a)
         /\ WindowUsed(Reserve(a)[Agent(a)], db[Agent(a)].window)
         /\ ~db[Agent(a)].reserved /\ db[Agent(a)].window \in Windows
<1>1. /\ DOMAIN db[Agent(a)] = {"window", "reserved"} /\ ~db[Agent(a)].reserved
      /\ db[Agent(a)].window \in Windows
  BY DEF CommunityInvariant, QuotaIn, Reservable
<1>2. WindowUsed([db[Agent(a)] EXCEPT !.reserved = TRUE], db[Agent(a)].window)
  BY <1>1 DEF WindowUsed
<1>. QED
  BY <1>1, <1>2, OneDocument DEF Reserve

LEMMA CreateCircleOpens ==
  ASSUME CommunityInvariant, NEW s \in Sessions, NEW a \in Agents, NEW n \in CircleNames,
         CreateCircle(s, a, n)
  PROVE  \E w : OpenTxn(s, w) /\ CommunityWrites(db, w)
<1>. DEFINE now == db[Agent(a)].window
            new == [by |-> a, window |-> now, official |-> FALSE, active |-> TRUE,
                    open |-> TRUE, posts |-> 0, members |-> 0]
            w == Apply(Put(CircleOf(n), new), Reserve(a))
<1>1. ~Has(db, CircleOf(n)) /\ Reservable(a) /\ OpenTxn(s, w)
  BY DEF CreateCircle, Known, NewCircle
<1>2. /\ \A id : Has(Reserve(a), id) <=> id = Agent(a)
      /\ WindowUsed(Reserve(a)[Agent(a)], now)
      /\ ~db[Agent(a)].reserved /\ now \in Windows
  BY <1>1, Reserved
<1>3. /\ CircleFits(new) /\ new.by = a /\ new.window = now /\ new.posts = 0 /\ new.members = 0
  BY DEF CircleFits
<1>. HIDE DEF new
<1>4. /\ \A id : Has(w, id) <=> id = CircleOf(n) \/ id = Agent(a)
      /\ w[CircleOf(n)] = new /\ WindowUsed(w[Agent(a)], now)
  BY <1>2, ApplyFacts, OneDocument, ContentIds
<1>. HIDE DEF w
<1>5. /\ \A x : ~Has(w, PostId(x)) /\ ~Has(w, Reward(x)) /\ ~Has(w, RequestId(x))
      /\ \A m : Has(w, CircleOf(m)) <=> m = n
      /\ \A b : Has(w, Agent(b)) <=> b = a
      /\ \A b, m : ~Has(w, Membership(b, m))
  BY <1>4, ContentIds, CommunityIds
<1>6. CountsFit(db, w)
  <2>1. CountsNothing(db, w)
    BY <1>1, <1>3, <1>4, <1>5 DEF CountsNothing
  <2>. QED
    BY <1>3, <1>4, <1>5, <2>1 DEF CountsFit
<1>7. ReviewsNothing(w)
  BY <1>5 DEF ReviewsNothing
<1>8. QuotaFits(db, w)
  <2>1. \A b \in Agents, window \in Windows : \A id : Made(w, id, b, window) =>
          id = CircleOf(n) /\ b = a /\ window = now
    BY <1>3, <1>4, <1>5 DEF Made
  <2>. HIDE DEF now
  <2>2. \A b \in Agents, window \in Windows : \A id : Made(w, id, b, window) =>
          /\ ~Has(db, id) /\ Has(w, Agent(b)) /\ window = db[Agent(b)].window
          /\ \A other : Made(w, other, b, window) => other = id
    BY <1>1, <1>5, <2>1 DEF now
  <2>. QED
    BY <1>2, <1>4, <1>5, <2>2 DEF QuotaFits, now
<1>. QED
  BY <1>1, <1>6, <1>7, <1>8, NothingReviewed DEF CommunityWrites

LEMMA RequestCircleOpens ==
  ASSUME CommunityInvariant, NEW s \in Sessions, NEW a \in Agents, NEW n \in CircleNames,
         NEW x \in Contents, RequestCircle(s, a, n, x)
  PROVE  \E w : OpenTxn(s, w) /\ CommunityWrites(db, w)
<1>. DEFINE now == db[Agent(a)].window
            new == [type |-> "CIRCLE", status |-> "PENDING", by |-> a, on |-> n, admin |-> FALSE,
                    window |-> now, published |-> FALSE]
            w == Apply(Apply(Put(RequestId(x), new), Put(PendingName(n), TRUE)), Reserve(a))
<1>1. ~Has(db, RequestId(x)) /\ Reservable(a) /\ OpenTxn(s, w)
  BY DEF RequestCircle, Unused, Requested
<1>2. /\ \A id : Has(Reserve(a), id) <=> id = Agent(a)
      /\ WindowUsed(Reserve(a)[Agent(a)], now)
      /\ ~db[Agent(a)].reserved /\ now \in Windows
  BY <1>1, Reserved
<1>3. /\ RequestFits(new) /\ new.type = "CIRCLE" /\ ~new.published
      /\ new.by = a /\ new.window = now
  BY DEF RequestFits
<1>. HIDE DEF new
<1>4. /\ \A id : Has(w, id) <=> id = RequestId(x) \/ id = PendingName(n) \/ id = Agent(a)
      /\ w[RequestId(x)] = new /\ WindowUsed(w[Agent(a)], now)
  <2>. DEFINE u == Apply(Put(RequestId(x), new), Put(PendingName(n), TRUE))
  <2>1. /\ \A id : Has(u, id) <=> id = RequestId(x) \/ id = PendingName(n)
        /\ u[RequestId(x)] = new
    <3>1. RequestId(x) # PendingName(n)
      BY CommunityIds
    <3>. QED
      BY <3>1, TwoDocuments, ZenonT(40)
  <2>. HIDE DEF u
  <2>2. w = Apply(u, Reserve(a))
    BY DEF u
  <2>. HIDE DEF w
  <2>. QED
    BY <1>2, <2>1, <2>2, ApplyFacts, CommunityIds
<1>. HIDE DEF w
<1>5. /\ \A y : ~Has(w, PostId(y)) /\ ~Has(w, Reward(y)) /\ ~Has(w, CircleOf(y))
      /\ \A y : Has(w, RequestId(y)) <=> y = x
      /\ \A b : Has(w, Agent(b)) <=> b = a
      /\ \A b, m : ~Has(w, Membership(b, m))
  BY <1>4, ContentIds, CommunityIds
<1>6. CountsFit(db, w)
  BY <1>5 DEF CountsNothing, CountsFit
<1>7. ReviewsFit(db, w)
  BY <1>3, <1>4, <1>5 DEF ReviewsFit, ForPost
<1>8. QuotaFits(db, w)
  <2>1. \A b \in Agents, window \in Windows : \A id : Made(w, id, b, window) =>
          id = RequestId(x) /\ b = a /\ window = now
    BY <1>3, <1>4, <1>5 DEF Made
  <2>. HIDE DEF now
  <2>2. \A b \in Agents, window \in Windows : \A id : Made(w, id, b, window) =>
          /\ ~Has(db, id) /\ Has(w, Agent(b)) /\ window = db[Agent(b)].window
          /\ \A other : Made(w, other, b, window) => other = id
    BY <1>1, <1>5, <2>1 DEF now
  <2>. QED
    BY <1>2, <1>4, <1>5, <2>2 DEF QuotaFits, now
<1>. QED
  BY <1>1, <1>6, <1>7, <1>8 DEF CommunityWrites

(* What a decision does to the request.                                    *)
LEMMA DecidedRequest ==
  ASSUME CommunityInvariant, NEW x \in Contents, Undecided(x), NEW status
  PROVE  LET r == db[RequestId(x)]
             w == Decided(x, status)
         IN  /\ Has(db, RequestId(x)) /\ RequestFits(r) /\ ~r.published
             /\ \A id : Has(w, id) <=>
                  id = RequestId(x) \/ (r.type = "CIRCLE" /\ id = PendingName(r.on))
             /\ RequestFits(w[RequestId(x)])
             /\ w[RequestId(x)].type = r.type /\ w[RequestId(x)].by = r.by
             /\ w[RequestId(x)].on = r.on /\ w[RequestId(x)].window = r.window
             /\ w[RequestId(x)].published <=> status = "APPROVED"
<1>. DEFINE r == db[RequestId(x)]
            new == [r EXCEPT !.status = status, !.published = status = "APPROVED"]
            w == Decided(x, status)
<1>1. Has(db, RequestId(x)) /\ r.status = "PENDING"
  BY DEF Undecided, Requested
<1>2. RequestFits(r)
  BY <1>1 DEF CommunityInvariant, ReviewsIn
<1>3. ~r.published
  BY <1>1, <1>2 DEF RequestFits
<1>4. /\ RequestFits(new) /\ new.type = r.type /\ new.by = r.by
      /\ new.on = r.on /\ new.window = r.window
      /\ new.published <=> status = "APPROVED"
  BY <1>2 DEF RequestFits
<1>5. w = Apply(Put(RequestId(x), new),
                IF r.type = "CIRCLE" THEN Put(PendingName(r.on), FALSE) ELSE <<>>)
  BY DEF Decided
<1>. HIDE DEF new, w
<1>6. /\ \A id : Has(w, id) <=> id = RequestId(x) \/ (r.type = "CIRCLE" /\ id = PendingName(r.on))
      /\ w[RequestId(x)] = new
  <2>1. CASE r.type = "CIRCLE"
    <3>1. PICK n : n = r.on
      OBVIOUS
    <3>. DEFINE free == Put(PendingName(n), FALSE)
                v == Apply(Put(RequestId(x), new), free)
    <3>2. w = v
      BY <1>5, <2>1, <3>1
    <3>3. RequestId(x) # PendingName(n)
      BY CommunityIds
    <3>4. \A id : Has(free, id) <=> id = PendingName(n)
      BY DEF Has, Put
    <3>. HIDE DEF free
    <3>5. (\A id : Has(v, id) <=> id = RequestId(x) \/ id = PendingName(n)) /\ v[RequestId(x)] = new
      BY <3>3, <3>4, ApplyFacts, OneDocument
    <3>. HIDE DEF v
    <3>. QED
      BY <2>1, <3>1, <3>2, <3>5
  <2>2. CASE r.type # "CIRCLE"
    <3>1. w = Apply(Put(RequestId(x), new), <<>>)
      BY <1>5, <2>2
    <3>. QED
      BY <2>2, <3>1, ApplyFacts, OneDocument, NoDocument
  <2>. QED
    BY <2>1, <2>2
<1>. QED
  BY <1>1, <1>2, <1>3, <1>4, <1>6 DEF w
(* A post in a circle that counts it.                                      *)
LEMMA NewPostCounts ==
  ASSUME CommunityInvariant, NEW n \in CircleNames, NEW x \in Contents, NEW a, NEW admin,
         PostAllowed(n, admin), ~Has(db, PostId(x)), NEW w,
         \A m : ~Has(w, CircleOf(m)), \A y : ~Has(w, PostId(y)), \A b, m : ~Has(w, Membership(b, m))
  PROVE  LET v == Apply(NewPost(n, x, a, admin), w)
         IN  /\ \A id : Has(v, id) <=> id = PostId(x) \/ id = CircleOf(n) \/ Has(w, id)
             /\ \A id : Has(w, id) => v[id] = w[id]
             /\ \A m : Has(v, CircleOf(m)) <=> m = n
             /\ \A y : Has(v, PostId(y)) <=> y = x
             /\ v[CircleOf(n)].by = db[CircleOf(n)].by
             /\ v[CircleOf(n)].window = db[CircleOf(n)].window
             /\ Has(db, CircleOf(n)) /\ CountsFit(db, v)
<1>. DEFINE old == db[CircleOf(n)]
            post == [by |-> a, on |-> n, admin |-> admin]
            new == [old EXCEPT !.posts = @ + 1]
            u == NewPost(n, x, a, admin)
            v == Apply(u, w)
<1>1. CircleFits(old) /\ Has(db, CircleOf(n))
  BY DEF PostAllowed, ActiveCircle, Known, CommunityInvariant, CountsIn
<1>2. /\ CircleFits(new) /\ new.by = old.by /\ new.window = old.window
      /\ new.posts = old.posts + 1 /\ new.members = old.members
  BY <1>1 DEF CircleFits
<1>3. post.on = n
  OBVIOUS
<1>4. u = Apply(Put(PostId(x), post), Put(CircleOf(n), new))
  BY DEF NewPost
<1>. HIDE DEF post, new, u
<1>5. /\ \A id : Has(u, id) <=> id = PostId(x) \/ id = CircleOf(n)
      /\ u[PostId(x)] = post /\ u[CircleOf(n)] = new
  BY <1>4, TwoDocuments, ContentIds
<1>6. /\ \A id : Has(v, id) <=> id = PostId(x) \/ id = CircleOf(n) \/ Has(w, id)
      /\ \A id : Has(w, id) => v[id] = w[id]
      /\ v[PostId(x)] = post /\ v[CircleOf(n)] = new
  BY <1>5, ApplyFacts
<1>. HIDE DEF v
<1>7. /\ \A m : Has(v, CircleOf(m)) <=> m = n
      /\ \A y : Has(v, PostId(y)) <=> y = x
      /\ \A b, m : ~Has(v, Membership(b, m))
  BY <1>6, ContentIds, CommunityIds
<1>8. CountsPost(db, v, n, x)
  BY <1>1, <1>2, <1>3, <1>6, <1>7 DEF CountsPost
<1>9. CountsFit(db, v)
  BY <1>2, <1>6, <1>7, <1>8 DEF CountsFit
<1>. QED
  BY <1>1, <1>2, <1>6, <1>7, <1>9 DEF u, v

LEMMA CreatePostOpens ==
  ASSUME CommunityInvariant, NEW s \in Sessions, NEW a, NEW n \in CircleNames,
         NEW x \in Contents, NEW admin, CreatePost(s, a, n, x, admin)
  PROVE  \E w : OpenTxn(s, w) /\ CommunityWrites(db, w)
<1>. DEFINE paid == Apply(Put(Charge(x), a), Put(Reward(x), a))
            w == Apply(NewPost(n, x, a, admin), paid)
<1>1. /\ OpenTxn(s, w) /\ PostAllowed(n, admin)
      /\ ~Has(db, PostId(x)) /\ ~Has(db, RequestId(x))
  BY DEF CreatePost, Unused, Requested
<1>2. \A id : Has(paid, id) <=> id = Charge(x) \/ id = Reward(x)
  BY TwoDocuments, CommunityIds
<1>. HIDE DEF paid
<1>3. /\ \A m : ~Has(paid, CircleOf(m)) /\ ~Has(paid, PostId(m))
      /\ \A b, m : ~Has(paid, Membership(b, m))
  BY <1>2, ContentIds, CommunityIds
<1>4. /\ \A id : Has(w, id) <=> id = PostId(x) \/ id = CircleOf(n) \/ Has(paid, id)
      /\ \A m : Has(w, CircleOf(m)) <=> m = n
      /\ \A y : Has(w, PostId(y)) <=> y = x
      /\ w[CircleOf(n)].by = db[CircleOf(n)].by
      /\ w[CircleOf(n)].window = db[CircleOf(n)].window
      /\ Has(db, CircleOf(n)) /\ CountsFit(db, w)
  BY <1>1, <1>3, NewPostCounts
<1>. HIDE DEF w
<1>5. \A y : /\ Has(w, Reward(y)) <=> y = x
             /\ Has(w, Charge(y)) <=> y = x
             /\ ~Has(w, RequestId(y)) /\ ~Has(w, Agent(y))
  BY <1>2, <1>4, ContentIds, CommunityIds
<1>6. ReviewsFit(db, w)
  BY <1>1, <1>4, <1>5 DEF ReviewsFit, ForPost
<1>7. MakesNothing(db, w)
  BY <1>4, <1>5 DEF MakesNothing
<1>. QED
  BY <1>1, <1>4, <1>6, <1>7, NothingMade DEF CommunityWrites

LEMMA RequestPostOpens ==
  ASSUME CommunityInvariant, NEW s \in Sessions, NEW a, NEW n \in CircleNames,
         NEW x \in Contents, NEW admin, RequestPost(s, a, n, x, admin)
  PROVE  \E w : OpenTxn(s, w) /\ CommunityWrites(db, w)
<1>. DEFINE new == [type |-> "POST", status |-> "PENDING", by |-> a, on |-> n, admin |-> admin,
                    window |-> 0, published |-> FALSE]
            w == Apply(Put(Charge(x), a), Put(RequestId(x), new))
<1>1. OpenTxn(s, w) /\ ~Has(db, PostId(x)) /\ ~Has(db, RequestId(x))
  BY DEF RequestPost, Unused, Requested
<1>2. RequestFits(new) /\ new.type = "POST" /\ ~new.published
  BY DEF RequestFits
<1>. HIDE DEF new
<1>3. (\A id : Has(w, id) <=> id = Charge(x) \/ id = RequestId(x)) /\ w[RequestId(x)] = new
  BY TwoDocuments, CommunityIds
<1>. HIDE DEF w
<1>4. /\ \A y : /\ ~Has(w, PostId(y)) /\ ~Has(w, Reward(y)) /\ ~Has(w, CircleOf(y))
                /\ Has(w, RequestId(y)) <=> y = x
                /\ Has(w, Charge(y)) <=> y = x
                /\ ~Has(w, Agent(y))
      /\ \A b, m : ~Has(w, Membership(b, m))
  BY <1>3, ContentIds, CommunityIds
<1>5. CountsFit(db, w)
  BY <1>4 DEF CountsNothing, CountsFit
<1>6. ReviewsFit(db, w)
  BY <1>1, <1>2, <1>3, <1>4 DEF ReviewsFit, ForPost
<1>7. MakesNothing(db, w)
  BY <1>2, <1>3, <1>4 DEF MakesNothing
<1>. QED
  BY <1>1, <1>5, <1>6, <1>7, NothingMade DEF CommunityWrites

LEMMA RejectOpens ==
  ASSUME CommunityInvariant, NEW s \in Sessions, NEW x \in Contents, Reject(s, x)
  PROVE  \E w : OpenTxn(s, w) /\ CommunityWrites(db, w)
<1>. DEFINE r == db[RequestId(x)]
            w == Decided(x, "REJECTED")
<1>1. OpenTxn(s, w) /\ Undecided(x)
  BY DEF Reject
<1>2. /\ Has(db, RequestId(x)) /\ RequestFits(r) /\ ~r.published
      /\ \A id : Has(w, id) <=> id = RequestId(x) \/ (r.type = "CIRCLE" /\ id = PendingName(r.on))
      /\ RequestFits(w[RequestId(x)])
      /\ w[RequestId(x)].type = r.type /\ w[RequestId(x)].by = r.by
      /\ w[RequestId(x)].on = r.on /\ w[RequestId(x)].window = r.window
      /\ ~w[RequestId(x)].published
  BY <1>1, DecidedRequest
<1>. HIDE DEF w
<1>3. /\ \A y : /\ ~Has(w, PostId(y)) /\ ~Has(w, Reward(y)) /\ ~Has(w, CircleOf(y))
                /\ Has(w, RequestId(y)) <=> y = x
                /\ ~Has(w, Agent(y))
      /\ \A b, m : ~Has(w, Membership(b, m))
  BY <1>2, ContentIds, CommunityIds
<1>4. CountsFit(db, w)
  BY <1>3 DEF CountsNothing, CountsFit
<1>5. r.type = "POST" => ForPost(db, x) /\ ~Has(db, PostId(x))
  BY <1>2 DEF CommunityInvariant, ReviewsIn, ForPost
<1>6. ReviewsFit(db, w)
  BY <1>2, <1>3, <1>5 DEF ReviewsFit, ForPost
<1>7. MakesNothing(db, w)
  BY <1>2, <1>3 DEF MakesNothing
<1>. QED
  BY <1>1, <1>4, <1>6, <1>7, NothingMade DEF CommunityWrites

LEMMA ApproveCircleOpens ==
  ASSUME CommunityInvariant, NEW s \in Sessions, NEW x \in Contents, ApproveCircle(s, x)
  PROVE  \E w : OpenTxn(s, w) /\ CommunityWrites(db, w)
<1>. DEFINE r == db[RequestId(x)]
            n == r.on
            new == [by |-> Nil, window |-> 0, official |-> FALSE, active |-> TRUE,
                    open |-> TRUE, posts |-> 0, members |-> 0]
            v == Decided(x, "APPROVED")
            w == Apply(Put(CircleOf(n), new), v)
<1>1. OpenTxn(s, w) /\ Undecided(x) /\ r.type = "CIRCLE" /\ ~Has(db, CircleOf(n))
  BY DEF ApproveCircle, NewCircle, Known
<1>2. /\ Has(db, RequestId(x)) /\ RequestFits(r)
      /\ \A id : Has(v, id) <=> id = RequestId(x) \/ (r.type = "CIRCLE" /\ id = PendingName(n))
      /\ RequestFits(v[RequestId(x)])
      /\ v[RequestId(x)].type = r.type /\ v[RequestId(x)].by = r.by
      /\ v[RequestId(x)].on = n /\ v[RequestId(x)].window = r.window
  BY <1>1, DecidedRequest
<1>3. CircleFits(new) /\ new.window = 0 /\ new.posts = 0 /\ new.members = 0
  BY DEF CircleFits
<1>4. n \in CircleNames
  BY <1>2 DEF RequestFits
<1>. HIDE DEF new, v
<1>5. /\ \A id : Has(w, id) <=> id = CircleOf(n) \/ id = RequestId(x) \/ id = PendingName(n)
      /\ w[CircleOf(n)] = new /\ w[RequestId(x)] = v[RequestId(x)]
  BY <1>1, <1>2, ApplyFacts, OneDocument, ContentIds
<1>. HIDE DEF w
<1>6. /\ \A y : /\ ~Has(w, PostId(y)) /\ ~Has(w, Reward(y))
                /\ Has(w, CircleOf(y)) <=> y = n
                /\ Has(w, RequestId(y)) <=> y = x
                /\ ~Has(w, Agent(y))
      /\ \A b, m : ~Has(w, Membership(b, m))
  BY <1>5, ContentIds, CommunityIds
<1>7. CountsFit(db, w)
  <2>1. CountsNothing(db, w)
    BY <1>1, <1>3, <1>5, <1>6 DEF CountsNothing
  <2>. QED
    BY <1>3, <1>5, <1>6, <2>1 DEF CountsFit
<1>8. ReviewsFit(db, w)
  BY <1>1, <1>2, <1>5, <1>6 DEF ReviewsFit, ForPost
<1>9. MakesNothing(db, w)
  BY <1>1, <1>2, <1>3, <1>5, <1>6 DEF MakesNothing
<1>. QED
  BY <1>1, <1>7, <1>8, <1>9, NothingMade DEF CommunityWrites

LEMMA ApprovePostOpens ==
  ASSUME CommunityInvariant, NEW s \in Sessions, NEW x \in Contents, ApprovePost(s, x)
  PROVE  \E w : OpenTxn(s, w) /\ CommunityWrites(db, w)
<1>. DEFINE r == db[RequestId(x)]
            n == r.on
            v == Decided(x, "APPROVED")
            paid == Apply(Put(Reward(x), r.by), v)
            w == Apply(NewPost(n, x, r.by, r.admin), paid)
<1>1. /\ OpenTxn(s, w) /\ Undecided(x) /\ r.type = "POST" /\ PostAllowed(n, r.admin)
      /\ Has(db, Charge(x)) /\ ~Has(db, Reward(x))
  BY DEF ApprovePost, StillAllowed
<1>2. /\ Has(db, RequestId(x)) /\ RequestFits(r)
      /\ \A id : Has(v, id) <=> id = RequestId(x) \/ (r.type = "CIRCLE" /\ id = PendingName(n))
      /\ RequestFits(v[RequestId(x)])
      /\ v[RequestId(x)].type = r.type /\ v[RequestId(x)].by = r.by
      /\ v[RequestId(x)].on = n /\ v[RequestId(x)].window = r.window
      /\ v[RequestId(x)].published <=> TRUE
  BY <1>1, DecidedRequest
<1>3. n \in CircleNames /\ ~Has(db, PostId(x))
  BY <1>1, <1>2 DEF RequestFits, CommunityInvariant, ReviewsIn
<1>. HIDE DEF v
<1>4. /\ \A id : Has(paid, id) <=> id = Reward(x) \/ id = RequestId(x)
      /\ paid[RequestId(x)] = v[RequestId(x)]
  BY <1>1, <1>2, ApplyFacts, OneDocument
<1>. HIDE DEF paid
<1>5. /\ \A m : ~Has(paid, CircleOf(m)) /\ ~Has(paid, PostId(m))
      /\ \A b, m : ~Has(paid, Membership(b, m))
  BY <1>4, ContentIds, CommunityIds
<1>6. /\ \A id : Has(w, id) <=> id = PostId(x) \/ id = CircleOf(n) \/ Has(paid, id)
      /\ \A id : Has(paid, id) => w[id] = paid[id]
      /\ \A m : Has(w, CircleOf(m)) <=> m = n
      /\ \A y : Has(w, PostId(y)) <=> y = x
      /\ w[CircleOf(n)].by = db[CircleOf(n)].by
      /\ w[CircleOf(n)].window = db[CircleOf(n)].window
      /\ Has(db, CircleOf(n)) /\ CountsFit(db, w)
  BY <1>1, <1>3, <1>5, NewPostCounts
<1>. HIDE DEF w
<1>7. \A y : /\ Has(w, Reward(y)) <=> y = x
             /\ Has(w, RequestId(y)) <=> y = x
             /\ ~Has(w, Agent(y))
  BY <1>4, <1>6, ContentIds, CommunityIds
<1>8. w[RequestId(x)] = v[RequestId(x)]
  BY <1>4, <1>6
<1>9. ReviewsFit(db, w)
  BY <1>1, <1>2, <1>6, <1>7, <1>8 DEF ReviewsFit, ForPost
<1>10. MakesNothing(db, w)
  BY <1>1, <1>2, <1>6, <1>7, <1>8 DEF MakesNothing
<1>. QED
  BY <1>1, <1>6, <1>9, <1>10, NothingMade DEF CommunityWrites
LEMMA CommunityOpens ==
  ASSUME ContentAssumption, CommunityInvariant, NEW s \in Sessions, CommunityWrite(s)
  PROVE  \E w : OpenTxn(s, w) /\ CommunityWrites(db, w)
BY MembersOpen, CreateCircleOpens, RequestCircleOpens, CreatePostOpens, RequestPostOpens,
   AdministratorsOpen, RejectOpens, ApproveCircleOpens, ApprovePostOpens
DEF CommunityWrite, ContentAssumption

LEMMA CommunityCommits ==
  ASSUME CommunityInvariant, NEW s \in Sessions, CommitTxn(s)
  PROVE  CommunityInvariant'
<1>. DEFINE c == txn[s].writes
<1>1. /\ CommunityWrites(db, c) /\ db' = Apply(db, c) /\ TxnShape'
      /\ \A u \in Sessions : txn'[u].open =>
           /\ txn[u].open /\ txn'[u].writes = txn[u].writes /\ Apart(txn[u].writes, c)
  BY CommitEffect DEF CommunityInvariant
<1>. HIDE DEF c
<1>2. CountsIn(db') /\ ReviewsIn(db') /\ QuotaIn(db')
  BY <1>1, CountsCommit, ReviewsCommit, QuotaCommit DEF CommunityWrites, CommunityInvariant
<1>3. ASSUME NEW w, CommunityWrites(db, w), Apart(w, c)
      PROVE  CommunityWrites(Apply(db, c), w)
  BY <1>1, <1>3, CountsUndisturbed, ReviewsUndisturbed, QuotaUndisturbed
  DEF CommunityWrites, CommunityInvariant
<1>. QED
  BY <1>1, <1>2, <1>3 DEF CommunityInvariant

(* The end of a window ends no transaction, but one that is going to       *)
(* reserve this window knows it to be free.                                *)
LEMMA WindowKeepsCommunity ==
  ASSUME ContentAssumption, CommunityInvariant, NEW a \in Authors, WindowPasses(a)
  PROVE  CommunityInvariant'
<1>. DEFINE now == db[Agent(a)].window
<1>1. /\ a \in Agents /\ Has(db, Agent(a)) /\ db[Agent(a)].reserved /\ now \in Windows
  BY DEF ContentAssumption, CommunityInvariant, QuotaIn, WindowPasses
<1>2. /\ txn' = txn
      /\ \A id : Has(db', id) <=> Has(db, id)
      /\ \A id : id # Agent(a) => db'[id] = db[id] \/ ~Has(db, id)
      /\ db'[Agent(a)] = [window |-> now + 1, reserved |-> FALSE]
  BY <1>1 DEF WindowPasses, Has
<1>3. /\ DOMAIN db'[Agent(a)] = {"window", "reserved"}
      /\ db'[Agent(a)].window = now + 1 /\ db'[Agent(a)].reserved = FALSE
      /\ now + 1 \in Windows
  BY <1>1, <1>2 DEF Windows
<1>4. /\ \A n : Has(db, CircleOf(n)) => db'[CircleOf(n)] = db[CircleOf(n)]
      /\ \A x : Has(db, PostId(x)) => db'[PostId(x)] = db[PostId(x)]
      /\ \A x : Has(db, RequestId(x)) => db'[RequestId(x)] = db[RequestId(x)]
      /\ \A b, n : Has(db, Membership(b, n)) => db'[Membership(b, n)] = db[Membership(b, n)]
      /\ \A b : b # a /\ Has(db, Agent(b)) => db'[Agent(b)] = db[Agent(b)]
  BY <1>2, ContentIds, CommunityIds
<1>5. CountsIn(db')
  <2>1. \A n : PostsIn(db', n) = PostsIn(db, n) /\ MembersIn(db', n) = MembersIn(db, n)
    BY <1>2, <1>4 DEF PostsIn, MembersIn
  <2>. QED
    BY <1>2, <1>4, <2>1 DEF CountsIn, CommunityInvariant
<1>6. ReviewsIn(db')
  BY <1>2, <1>4 DEF ReviewsIn, CommunityInvariant
<1>7. \A b, window, id : Made(db', id, b, window) <=> Made(db, id, b, window)
  BY <1>2, <1>4 DEF Made
<1>8. QuotaIn(db')
  <2>1. ASSUME NEW b \in Agents
        PROVE  /\ Has(db', Agent(b)) /\ DOMAIN db'[Agent(b)] = {"window", "reserved"}
               /\ db'[Agent(b)].window \in Windows /\ db'[Agent(b)].reserved \in BOOLEAN
               /\ b # a => db'[Agent(b)] = db[Agent(b)]
    BY <1>2, <1>3, <1>4 DEF QuotaIn, CommunityInvariant
  <2>2. ASSUME NEW b \in Agents, NEW window \in Windows, NEW id, Made(db', id, b, window)
        PROVE  /\ window <= db'[Agent(b)].window
               /\ window = db'[Agent(b)].window => db'[Agent(b)].reserved
               /\ \A other : Made(db', other, b, window) => other = id
    <3>1. /\ window <= db[Agent(b)].window
          /\ window = db[Agent(b)].window => db[Agent(b)].reserved
          /\ \A other : Made(db', other, b, window) => other = id
      BY <1>7, <2>2 DEF QuotaIn, CommunityInvariant
    <3>. QED
      BY <1>1, <1>3, <2>1, <3>1 DEF Windows
  <2>. QED
    BY <2>1, <2>2 DEF QuotaIn
<1>9. ASSUME NEW w, CommunityWrites(db, w)
      PROVE  CommunityWrites(db', w)
  <2>1. CountsFit(db', w)
    <3>1. CountsNothing(db, w) => CountsNothing(db', w)
      BY <1>2, <1>4 DEF CountsNothing
    <3>2. \A n \in CircleNames, x \in Contents : CountsPost(db, w, n, x) => CountsPost(db', w, n, x)
      BY <1>2, <1>4 DEF CountsPost
    <3>3. \A n \in CircleNames, b \in Agents, joins \in BOOLEAN :
            CountsMember(db, w, n, b, joins) => CountsMember(db', w, n, b, joins)
      BY <1>2, <1>4 DEF CountsMember
    <3>. QED
      BY <1>9, <3>1, <3>2, <3>3 DEF CommunityWrites, CountsFit
  <2>2. ReviewsFit(db', w)
    <3>1. \A x : ForPost(db', x) <=> ForPost(db, x)
      BY <1>2, <1>4 DEF ForPost
    <3>. QED
      BY <1>2, <1>9, <3>1 DEF CommunityWrites, ReviewsFit
  <2>3. QuotaFits(db', w)
    <3>1. ~Has(w, Agent(a))
      BY <1>1, <1>9 DEF CommunityWrites, QuotaFits
    <3>2. \A b \in Agents : Has(w, Agent(b)) => db'[Agent(b)] = db[Agent(b)]
      BY <1>4, <3>1 DEF CommunityInvariant, QuotaIn
    <3>. QED
      BY <1>2, <1>7, <1>9, <3>2 DEF CommunityWrites, QuotaFits
  <2>. QED
    BY <2>1, <2>2, <2>3 DEF CommunityWrites
<1>. QED
  BY <1>2, <1>5, <1>6, <1>8, <1>9 DEF CommunityInvariant, TxnShape

LEMMA CommunityStep ==
  ASSUME ContentAssumption, CommunityInvariant, [ContentNext]_<<db, txn>>
  PROVE  CommunityInvariant'
<1>1. CASE UNCHANGED <<db, txn>>
  BY <1>1 DEF CommunityInvariant, TxnShape
<1>2. ASSUME NEW s \in Sessions, CommunityWrite(s)
      PROVE  CommunityInvariant'
  BY <1>2, CommunityOpens, OpenEffect DEF CommunityInvariant
<1>3. ASSUME NEW s \in Sessions, AbortTxn(s)
      PROVE  CommunityInvariant'
  BY <1>3, AbortEffect DEF CommunityInvariant
<1>. QED
  BY <1>1, <1>2, <1>3, CommunityCommits, WindowKeepsCommunity DEF ContentNext

(* The first agents and circles, ...                                       *)
LEMMA FirstCommunityIs ==
  ASSUME NEW S
  PROVE  LET d == FirstCommunity(S)
         IN  /\ \A id : Has(d, id) <=>
                  (\E a \in Agents : id = Agent(a)) \/ (\E n \in S : id = CircleOf(n))
             /\ \A a \in Agents : d[Agent(a)] = [window |-> 1, reserved |-> FALSE]
             /\ \A n \in S : d[CircleOf(n)] =
                  [by |-> Nil, window |-> 0, official |-> TRUE, active |-> TRUE, open |-> TRUE,
                   posts |-> 0, members |-> 0]
BY DEF FirstCommunity, Has, Agent, CircleOf

(* ... when there is nothing else yet.                                     *)
LEMMA CommunityBegins ==
  ASSUME NEW d, NEW S,
         \A a \in Agents : Has(d, Agent(a)) /\ d[Agent(a)] = [window |-> 1, reserved |-> FALSE],
         \A n : Has(d, CircleOf(n)) <=> n \in S,
         \A n \in S : d[CircleOf(n)] =
           [by |-> Nil, window |-> 0, official |-> TRUE, active |-> TRUE, open |-> TRUE,
            posts |-> 0, members |-> 0],
         \A x : ~Has(d, PostId(x)) /\ ~Has(d, Reward(x)) /\ ~Has(d, RequestId(x)),
         \A a, n : ~Has(d, Membership(a, n))
  PROVE  CountsIn(d) /\ ReviewsIn(d) /\ QuotaIn(d)
<1>1. \A n \in CircleNames : Has(d, CircleOf(n)) =>
        /\ CircleFits(d[CircleOf(n)]) /\ d[CircleOf(n)].window = 0
        /\ d[CircleOf(n)].posts = 0 /\ d[CircleOf(n)].members = 0
  BY DEF CircleFits
<1>2. CountsIn(d)
  <2>1. \A n : PostsIn(d, n) = {} /\ MembersIn(d, n) = {}
    BY DEF PostsIn, MembersIn
  <2>. QED
    BY <1>1, <2>1, FS_EmptySet DEF CountsIn
<1>3. ReviewsIn(d)
  BY DEF ReviewsIn
<1>4. \A a \in Agents, window \in Windows : \A id : ~Made(d, id, a, window)
  BY <1>1 DEF Made, Windows
<1>5. QuotaIn(d)
  <2>1. \A a \in Agents : /\ Has(d, Agent(a)) /\ DOMAIN d[Agent(a)] = {"window", "reserved"}
                          /\ d[Agent(a)].window = 1 /\ d[Agent(a)].reserved = FALSE
    OBVIOUS
  <2>2. ASSUME NEW a \in Agents
        PROVE  d[Agent(a)].window \in Windows /\ d[Agent(a)].reserved \in BOOLEAN
    <3>1. d[Agent(a)].window \in Windows
      BY <2>1 DEF Windows
    <3>2. FALSE \in BOOLEAN
      OBVIOUS
    <3>. QED
      BY <2>1, <3>1, <3>2, Zenon
  <2>. QED
    BY <1>4, <2>1, <2>2 DEF QuotaIn
<1>. QED
  BY <1>2, <1>3, <1>5

LEMMA CommunityFollows ==
  ASSUME CountsIn(db), ReviewsIn(db), QuotaIn(db)
  PROVE  CommunityIsConsistent
<1>1. CircleCountsAreRight
  <2>1. ASSUME NEW n \in CircleNames
        PROVE  {x \in Posts : db[PostId(x)].on = n} = PostsIn(db, n) /\ Members(n) = MembersIn(db, n)
    BY DEF Posts, Members, PostsIn, MembersIn
  <2>. QED
    BY <2>1 DEF CountsIn, CircleCountsAreRight, Circles, Known
<1>2. ReviewsAreSettled
  BY DEF ReviewsIn, ReviewsAreSettled, RequestFits, Requested, Known
<1>3. OneCirclePerWindow
  <2>. SUFFICES ASSUME NEW a \in Agents, NEW w \in 1..MaxWindow
                PROVE  Cardinality(Created(a, w)) <= 1
    BY DEF OneCirclePerWindow
  <2>1. w \in Windows
    BY DEF Windows
  <2>2. \A id \in Created(a, w) : Made(db, id, a, w)
    BY DEF Created, Made, Circles, Known, Requested
  <2>3. \A id, other \in Created(a, w) : other = id
    BY <2>1, <2>2 DEF QuotaIn
  <2>. DEFINE mine == Created(a, w)
  <2>. SUFFICES Cardinality(mine) <= 1
    OBVIOUS
  <2>. HIDE DEF mine
  <2>4. CASE mine = {}
    BY <2>4, FS_EmptySet
  <2>5. CASE mine # {}
    <3>1. PICK id : id \in mine
      BY <2>5
    <3>2. mine = {id}
      BY <2>3, <3>1 DEF mine
    <3>3. Cardinality({id}) = 1
      BY FS_Singleton
    <3>. QED
      BY <3>2, <3>3
  <2>. QED
    BY <2>4, <2>5
<1>. QED
  BY <1>1, <1>2, <1>3 DEF CommunityIsConsistent

(* For any number of agents, circles, posts, requests and transactions: a  *)
(* circle counts the posts and members it has; a request is approved       *)
(* exactly when it has been published, and a post rewarded exactly when it *)
(* is there; and an agent makes or requests one circle within a window.    *)
THEOREM CommunityConsistent ==
  ASSUME ContentAssumption
  PROVE  ContentSpec => []CommunityIsConsistent
<1>1. ContentInit => CommunityInvariant
  <2>. SUFFICES ASSUME ContentInit
                PROVE  CommunityInvariant
    OBVIOUS
  <2>1. TxnShape /\ \A s \in Sessions : ~txn[s].open
    BY NoneOpen DEF ContentInit, NoTxns
  <2>2. PICK S \in SUBSET CircleNames : db = FirstCommunity(S)
    BY DEF ContentInit
  <2>3. \A id : Has(db, id) => \E y : id = Agent(y) \/ id = CircleOf(y)
    BY <2>2, FirstCommunityIs
  <2>4. (\A x : ~Has(db, PostId(x))) /\ \A x : ~Has(db, Reward(x)) /\ ~Has(db, RequestId(x))
    BY <2>3, ContentIds, CommunityIds
  <2>5. \A a, n : ~Has(db, Membership(a, n))
    BY <2>3, CommunityIds
  <2>6. CountsIn(db) /\ ReviewsIn(db) /\ QuotaIn(db)
    <3>1. /\ \A a \in Agents : Has(db, Agent(a)) /\ db[Agent(a)] = [window |-> 1, reserved |-> FALSE]
          /\ \A n : Has(db, CircleOf(n)) <=> n \in S
          /\ \A n \in S : db[CircleOf(n)] =
               [by |-> Nil, window |-> 0, official |-> TRUE, active |-> TRUE, open |-> TRUE,
                posts |-> 0, members |-> 0]
      <4>1. /\ \A id : Has(db, id) <=>
                  (\E a \in Agents : id = Agent(a)) \/ (\E n \in S : id = CircleOf(n))
            /\ \A a \in Agents : db[Agent(a)] = [window |-> 1, reserved |-> FALSE]
            /\ \A n \in S : db[CircleOf(n)] =
                 [by |-> Nil, window |-> 0, official |-> TRUE, active |-> TRUE, open |-> TRUE,
                  posts |-> 0, members |-> 0]
        BY <2>2, FirstCommunityIs
      <4>2. \A n : Has(db, CircleOf(n)) <=> n \in S
        BY <4>1, ContentIds
      <4>. QED
        BY <4>1, <4>2
    <3>. QED
      BY <2>4, <2>5, <3>1, CommunityBegins
  <2>. QED
    BY <2>1, <2>6 DEF CommunityInvariant
<1>2. CommunityInvariant /\ [ContentNext]_<<db, txn>> => CommunityInvariant'
  BY CommunityStep
<1>3. CommunityInvariant => CommunityIsConsistent
  BY CommunityFollows DEF CommunityInvariant
<1>. QED
  BY <1>1, <1>2, <1>3, PTL DEF ContentSpec

-----------------------------------------------------------------------------
(* THE FEEDBACK OF A POST                                                  *)

LEMMA RecordIds ==
  /\ \A a, b : Opinion(a) = Opinion(b) => a = b
  /\ \A a : Opinion(a) # Subject /\ Shard(a) # Subject
  /\ \A a, b : Opinion(a) # Shard(b)
  /\ \A a, day, b : /\ ViewOf(a, day) # Opinion(b) /\ ViewOf(a, day) # Subject
                    /\ ViewOf(a, day) # Shard(b)
BY DEF Opinion, Subject, Shard, ViewOf

LEMMA FeedbackUndisturbed ==
  ASSUME NEW d, NEW w, NEW c, FeedbackIn(d), FeedbackFits(d, w), Apart(w, c)
  PROVE  FeedbackFits(Apply(d, c), w)
<1>. DEFINE e == Apply(d, c)
<1>1. /\ \A id : Has(w, id) => (Has(e, id) <=> Has(d, id))
      /\ \A id : Has(w, id) /\ Has(d, id) => e[id] = d[id]
  BY ApplyFacts DEF Apart
<1>. HIDE DEF e
<1>2. Has(w, Subject) => e[Subject] = d[Subject]
  BY <1>1 DEF FeedbackIn
<1>3. \A a \in Critics, new \in Kinds \cup {"NONE"} :
        ChangesOpinion(d, w, a, new) => ChangesOpinion(e, w, a, new)
  BY <1>1, <1>2 DEF ChangesOpinion, OpinionOf
<1>. QED
  BY <1>2, <1>3 DEF FeedbackFits, e

LEMMA FeedbackCommits ==
  ASSUME NEW d, NEW w, FeedbackIn(d), FeedbackFits(d, w)
  PROVE  FeedbackIn(Apply(d, w))
<1>. DEFINE e == Apply(d, w)
<1>1. /\ \A id : Has(e, id) <=> Has(d, id) \/ Has(w, id)
      /\ \A id : Has(w, id) => e[id] = w[id]
      /\ \A id : Has(d, id) /\ ~Has(w, id) => e[id] = d[id]
  BY ApplyFacts
<1>. HIDE DEF e
<1>2. Has(e, Subject) /\ SubjectFits(e[Subject])
  BY <1>1 DEF FeedbackIn, FeedbackFits
<1>3. CASE /\ \A a \in Critics : ~Has(w, Opinion(a))
           /\ Has(w, Subject) =>
                \A kind \in Kinds : w[Subject].counts[kind] = d[Subject].counts[kind]
  <2>1. \A a \in Critics : OpinionOf(e, a) = OpinionOf(d, a)
    BY <1>1, <1>3 DEF OpinionOf
  <2>2. \A kind \in Kinds : OfOpinion(e, kind) = OfOpinion(d, kind)
    BY <2>1 DEF OfOpinion
  <2>3. \A kind \in Kinds : e[Subject].counts[kind] = d[Subject].counts[kind]
    BY <1>1, <1>3 DEF FeedbackIn
  <2>. QED
    BY <1>2, <2>1, <2>2, <2>3 DEF FeedbackIn, e
<1>4. ASSUME NEW a \in Critics, NEW new \in Kinds \cup {"NONE"}, ChangesOpinion(d, w, a, new)
      PROVE  FeedbackIn(e)
  <2>1. /\ OpinionOf(e, a) = new /\ new # OpinionOf(d, a)
        /\ \A b \in Critics : b # a => OpinionOf(e, b) = OpinionOf(d, b)
    BY <1>1, <1>4 DEF OpinionOf, ChangesOpinion
  <2>2. \A kind \in Kinds : e[Subject].counts[kind] =
          (d[Subject].counts[kind] + IF new = kind THEN 1 ELSE 0)
             - IF OpinionOf(d, a) = kind THEN 1 ELSE 0
    BY <1>1, <1>4 DEF ChangesOpinion
  <2>3. ASSUME NEW kind \in Kinds
        PROVE  /\ IsFiniteSet(OfOpinion(e, kind))
               /\ e[Subject].counts[kind] = Cardinality(OfOpinion(e, kind))
    <3>. DEFINE before == OfOpinion(d, kind)
    <3>1. IsFiniteSet(before) /\ d[Subject].counts[kind] = Cardinality(before)
      BY DEF FeedbackIn
    <3>2. CASE new = kind
      <4>1. OfOpinion(e, kind) = before \cup {a} /\ a \notin before
        BY <2>1, <3>2 DEF OfOpinion
      <4>2. e[Subject].counts[kind] = Cardinality(before) + 1
        BY <2>1, <2>2, <3>1, <3>2, FS_CardinalityType
      <4>. HIDE DEF before
      <4>. QED
        BY <3>1, <4>1, <4>2, FS_AddElement
    <3>3. CASE OpinionOf(d, a) = kind
      <4>1. OfOpinion(e, kind) = before \ {a} /\ a \in before
        BY <2>1, <3>3 DEF OfOpinion
      <4>2. e[Subject].counts[kind] = Cardinality(before) - 1
        BY <2>1, <2>2, <3>1, <3>3, FS_CardinalityType
      <4>. HIDE DEF before
      <4>. QED
        BY <3>1, <4>1, <4>2, FS_RemoveElement
    <3>4. CASE new # kind /\ OpinionOf(d, a) # kind
      <4>1. OfOpinion(e, kind) = before
        BY <2>1, <3>4 DEF OfOpinion
      <4>. HIDE DEF before
      <4>2. e[Subject].counts[kind] = Cardinality(before)
        BY <2>2, <3>1, <3>4, FS_CardinalityType
      <4>. QED
        BY <3>1, <4>1, <4>2
    <3>. QED
      BY <3>2, <3>3, <3>4
  <2>4. \A b \in Critics : OpinionOf(e, b) \in Kinds \cup {"NONE"}
    BY <2>1 DEF FeedbackIn
  <2>. QED
    BY <1>2, <2>3, <2>4 DEF FeedbackIn
<1>. QED
  BY <1>3, <1>4 DEF FeedbackFits, e

(* One opinion and the counts that it changes.                             *)
LEMMA OpinionChanges ==
  ASSUME FeedbackIn(db), NEW a \in Critics, NEW new \in Kinds \cup {"NONE"},
         new # OpinionOf(db, a), NEW v, SubjectFits(v),
         \A kind \in Kinds :
           v.counts[kind] = (db[Subject].counts[kind] + IF new = kind THEN 1 ELSE 0)
                              - IF OpinionOf(db, a) = kind THEN 1 ELSE 0
  PROVE  FeedbackFits(db, Apply(Put(Opinion(a), new), Put(Subject, v)))
<1>. DEFINE w == Apply(Put(Opinion(a), new), Put(Subject, v))
<1>1. /\ \A id : Has(w, id) <=> id = Opinion(a) \/ id = Subject
      /\ w[Opinion(a)] = new /\ w[Subject] = v
  BY TwoDocuments, RecordIds
<1>. HIDE DEF w
<1>2. \A b : Has(w, Opinion(b)) <=> b = a
  BY <1>1, RecordIds
<1>3. ChangesOpinion(db, w, a, new)
  BY <1>1, <1>2 DEF ChangesOpinion
<1>. QED
  BY <1>1, <1>3 DEF FeedbackFits, w

LEMMA FeedbackOpens ==
  ASSUME FeedbackIn(db), NEW s \in Sessions, NEW a \in Critics, NEW kind \in Kinds,
         FeedbackOnPost(s, a, kind) \/ ResolveDuplicate(s, a, kind)
  PROVE  \E w : OpenTxn(s, w) /\ FeedbackFits(db, w)
<1>. DEFINE old == db[Subject]
            previous == OpinionOf(db, a)
<1>1. /\ SubjectFits(old) /\ previous \in Kinds \cup {"NONE"}
      /\ \A k \in Kinds : old.counts[k] \in Nat
      /\ "NONE" \notin Kinds
  BY FS_CardinalityType DEF FeedbackIn, Kinds
<1>2. OpinionIn(a) = IF previous = "NONE" THEN {} ELSE {previous}
  BY DEF OpinionIn, OpinionOf
<1>3. CASE previous = "NONE" /\ OpenTxn(s, Gives(a, kind))
  <2>. DEFINE v == Counted(kind, 1)
  <2>1. SubjectFits(v) /\ \A k \in Kinds : v.counts[k] = IF k = kind THEN old.counts[k] + 1
                                                         ELSE old.counts[k]
    BY <1>1 DEF SubjectFits, Counted
  <2>2. OpenTxn(s, Apply(Put(Opinion(a), kind), Put(Subject, v)))
    BY <1>3 DEF Gives
  <2>. HIDE DEF v
  <2>3. \A k \in Kinds : v.counts[k] = (old.counts[k] + IF kind = k THEN 1 ELSE 0)
                                         - IF previous = k THEN 1 ELSE 0
    BY <1>1, <1>3, <2>1
  <2>4. FeedbackFits(db, Apply(Put(Opinion(a), kind), Put(Subject, v)))
    BY <1>1, <1>3, <2>1, <2>3, OpinionChanges
  <2>. QED
    BY <2>2, <2>4
<1>4. CASE previous = kind /\ OpenTxn(s, TakesBack(a, kind))
  <2>. DEFINE v == Counted(kind, 0 - 1)
  <2>1. SubjectFits(v) /\ \A k \in Kinds : v.counts[k] = IF k = kind THEN old.counts[k] - 1
                                                         ELSE old.counts[k]
    BY <1>1 DEF SubjectFits, Counted
  <2>2. OpenTxn(s, Apply(Put(Opinion(a), "NONE"), Put(Subject, v)))
    BY <1>4 DEF TakesBack
  <2>. HIDE DEF v
  <2>3. \A k \in Kinds : v.counts[k] = (old.counts[k] + IF "NONE" = k THEN 1 ELSE 0)
                                         - IF previous = k THEN 1 ELSE 0
    BY <1>1, <1>4, <2>1
  <2>4. FeedbackFits(db, Apply(Put(Opinion(a), "NONE"), Put(Subject, v)))
    BY <1>1, <1>4, <2>1, <2>3, OpinionChanges
  <2>. QED
    BY <2>2, <2>4
<1>5. CASE previous \in Kinds /\ previous # kind /\ OpenTxn(s, Changes(a, kind))
  <2>. DEFINE v == [old EXCEPT !.counts[previous] = @ - 1, !.counts[kind] = @ + 1]
  <2>1. SubjectFits(v) /\ \A k \in Kinds : v.counts[k] = IF k = kind THEN old.counts[k] + 1
                                                         ELSE IF k = previous THEN old.counts[k] - 1
                                                         ELSE old.counts[k]
    BY <1>1, <1>5 DEF SubjectFits
  <2>2. db[Opinion(a)] = previous
    BY <1>1, <1>5 DEF OpinionOf
  <2>3. OpenTxn(s, Apply(Put(Opinion(a), kind), Put(Subject, v)))
    BY <1>5, <2>2 DEF Changes
  <2>. HIDE DEF v
  <2>4. \A k \in Kinds : v.counts[k] = (old.counts[k] + IF kind = k THEN 1 ELSE 0)
                                         - IF previous = k THEN 1 ELSE 0
    BY <1>1, <1>5, <2>1
  <2>5. FeedbackFits(db, Apply(Put(Opinion(a), kind), Put(Subject, v)))
    BY <1>1, <1>5, <2>1, <2>4, OpinionChanges
  <2>. QED
    BY <2>3, <2>5
<1>6. CASE FeedbackOnPost(s, a, kind)
  <2>. HIDE DEF previous
  <2>1. \/ OpinionIn(a) = {} /\ OpenTxn(s, Gives(a, kind))
        \/ OpinionIn(a) = {kind} /\ OpenTxn(s, TakesBack(a, kind))
        \/ OpinionIn(a) # {} /\ OpinionIn(a) # {kind} /\ OpenTxn(s, Changes(a, kind))
    BY <1>6 DEF FeedbackOnPost
  <2>2. /\ OpinionIn(a) = {} => previous = "NONE"
        /\ OpinionIn(a) = {kind} => previous = kind
        /\ OpinionIn(a) # {} /\ OpinionIn(a) # {kind} => previous \in Kinds /\ previous # kind
    BY <1>1, <1>2
  <2>. QED
    BY <1>3, <1>4, <1>5, <2>1, <2>2
<1>7. CASE ResolveDuplicate(s, a, kind)
  BY <1>1, <1>2, <1>5, <1>7 DEF ResolveDuplicate
<1>. QED
  BY <1>6, <1>7

(* Removals, restorings and views leave the opinions and counts alone.     *)
LEMMA OthersOpen ==
  ASSUME FeedbackIn(db), NEW s \in Sessions,
         SetSubjectRemoved(s) \/ \E a \in Visitors, day \in Days, n \in ViewShards : ViewPost(s, a, day, n)
  PROVE  \E w : OpenTxn(s, w) /\ FeedbackFits(db, w)
<1>. DEFINE old == db[Subject]
<1>1. CASE SetSubjectRemoved(s)
  <2>. DEFINE v == [old EXCEPT !.shown = ~@]
              w == Put(Subject, v)
  <2>1. OpenTxn(s, w)
    BY <1>1 DEF SetSubjectRemoved
  <2>2. SubjectFits(v) /\ v.counts = old.counts
    BY DEF FeedbackIn, SubjectFits
  <2>. HIDE DEF v
  <2>3. (\A id : Has(w, id) <=> id = Subject) /\ w[Subject] = v
    BY OneDocument
  <2>. HIDE DEF w
  <2>4. \A a : ~Has(w, Opinion(a))
    BY <2>3, RecordIds
  <2>. QED
    BY <2>1, <2>2, <2>3, <2>4 DEF FeedbackFits
<1>2. ASSUME NEW a \in Visitors, NEW day \in Days, NEW n \in ViewShards, ViewPost(s, a, day, n)
      PROVE  \E w : OpenTxn(s, w) /\ FeedbackFits(db, w)
  <2>1. PICK v : OpenTxn(s, Apply(Put(ViewOf(a, day), TRUE), Put(Shard(n), v)))
    BY <1>2 DEF ViewPost
  <2>. DEFINE viewed == Put(ViewOf(a, day), TRUE)
              w == Apply(viewed, Put(Shard(n), v))
  <2>2. \A id : Has(viewed, id) <=> id = ViewOf(a, day)
    BY DEF Has, Put
  <2>. HIDE DEF viewed
  <2>3. \A id : Has(w, id) <=> id = ViewOf(a, day) \/ id = Shard(n)
    BY <2>2, ApplyFacts, OneDocument
  <2>. HIDE DEF w
  <2>4. ~Has(w, Subject) /\ \A b : ~Has(w, Opinion(b))
    BY <2>3, RecordIds
  <2>. QED
    BY <2>1, <2>4 DEF FeedbackFits, w, viewed
<1>. QED
  BY <1>1, <1>2

LEMMA FeedbackStep ==
  ASSUME FeedbackInvariant, [RecordsNext]_<<db, txn>>
  PROVE  FeedbackInvariant'
<1>1. CASE UNCHANGED <<db, txn>>
  BY <1>1 DEF FeedbackInvariant, TxnShape
<1>2. ASSUME NEW s \in Sessions, NEW w, OpenTxn(s, w), FeedbackFits(db, w)
      PROVE  FeedbackInvariant'
  BY <1>2, OpenEffect DEF FeedbackInvariant
<1>3. ASSUME NEW s \in Sessions, CommitTxn(s)
      PROVE  FeedbackInvariant'
  BY <1>3, CommitEffect, FeedbackCommits, FeedbackUndisturbed DEF FeedbackInvariant
<1>4. ASSUME NEW s \in Sessions, AbortTxn(s)
      PROVE  FeedbackInvariant'
  BY <1>4, AbortEffect DEF FeedbackInvariant
<1>5. ASSUME NEW n \in ViewShards, ViewAsGuest(n)
      PROVE  FeedbackInvariant'
  <2>1. PICK v : WriteAlone(Put(Shard(n), v))
    BY <1>5 DEF ViewAsGuest
  <2>. DEFINE w == Put(Shard(n), v)
  <2>2. ~Has(w, Subject) /\ \A b : ~Has(w, Opinion(b))
    BY OneDocument, RecordIds
  <2>3. /\ db' = Apply(db, w) /\ TxnShape'
        /\ \A u \in Sessions : txn'[u].open =>
             /\ txn[u].open /\ txn'[u].writes = txn[u].writes /\ Apart(txn[u].writes, w)
    BY <2>1, AloneEffect DEF FeedbackInvariant
  <2>. HIDE DEF w
  <2>4. FeedbackFits(db, w)
    BY <2>2 DEF FeedbackFits
  <2>. QED
    BY <2>3, <2>4, FeedbackCommits, FeedbackUndisturbed DEF FeedbackInvariant
<1>. QED
  BY <1>1, <1>2, <1>3, <1>4, <1>5, FeedbackOpens, OthersOpen DEF RecordsNext, FeedbackInvariant

(* Before the first feedback.                                              *)
LEMMA FeedbackBegins ==
  ASSUME NEW d, Has(d, Subject), d[Subject] = [shown |-> TRUE, counts |-> [k \in Kinds |-> 0]],
         \A a : ~Has(d, Opinion(a))
  PROVE  FeedbackIn(d)
<1>1. SubjectFits(d[Subject]) /\ \A kind \in Kinds : d[Subject].counts[kind] = 0
  BY DEF SubjectFits
<1>2. \A a : OpinionOf(d, a) = "NONE"
  BY DEF OpinionOf
<1>3. \A kind \in Kinds : OfOpinion(d, kind) = {}
  BY <1>2 DEF OfOpinion, Kinds
<1>. QED
  BY <1>1, <1>2, <1>3, FS_EmptySet DEF FeedbackIn

LEMMA FeedbackFollows ==
  ASSUME FeedbackIn(db)
  PROVE  FeedbackIsCounted
<1>. SUFFICES ASSUME NEW kind \in Kinds
              PROVE  db[Subject].counts[kind] = Cardinality({a \in Critics : OpinionIn(a) = {kind}})
  BY DEF FeedbackIsCounted
<1>1. \A a \in Critics : OpinionIn(a) = {kind} <=> OpinionOf(db, a) = kind
  BY DEF OpinionIn, OpinionOf, Kinds
<1>2. {a \in Critics : OpinionIn(a) = {kind}} = OfOpinion(db, kind)
  BY <1>1 DEF OfOpinion
<1>. QED
  BY <1>2 DEF FeedbackIn

(* For any number of agents, sessions and requests that are repeated or    *)
(* race: a post counts each feedback once, under the type it has.          *)
THEOREM FeedbackCounted == RecordsSpec => []FeedbackIsCounted
<1>1. RecordsInit => FeedbackInvariant
  <2>. SUFFICES ASSUME RecordsInit
                PROVE  FeedbackInvariant
    OBVIOUS
  <2>1. TxnShape /\ \A s \in Sessions : ~txn[s].open
    BY NoneOpen DEF RecordsInit, NoTxns
  <2>2. /\ \A id : Has(db, id) <=> id = Subject
        /\ db[Subject] = [shown |-> TRUE, counts |-> [k \in Kinds |-> 0]]
    BY OneDocument DEF RecordsInit, FirstRecords
  <2>. QED
    BY <2>1, <2>2, RecordIds, FeedbackBegins DEF FeedbackInvariant
<1>2. FeedbackInvariant /\ [RecordsNext]_<<db, txn>> => FeedbackInvariant'
  BY FeedbackStep
<1>3. FeedbackInvariant => FeedbackIsCounted
  BY FeedbackFollows DEF FeedbackInvariant
<1>. QED
  BY <1>1, <1>2, <1>3, PTL DEF RecordsSpec

-----------------------------------------------------------------------------
(* THE VIEWS OF A POST                                                     *)

LEMMA ViewIds ==
  /\ \A m, n : Shard(m) = Shard(n) => m = n
  /\ \A a, b, day, other : ViewOf(a, day) = ViewOf(b, other) => a = b /\ day = other
  /\ \A a, day, b : /\ ViewOf(a, day) # Opinion(b) /\ ViewOf(a, day) # Subject
                    /\ ViewOf(a, day) # Shard(b) /\ Shard(a) # Opinion(b) /\ Shard(a) # Subject
BY DEF Opinion, Subject, Shard, ViewOf

LEMMA ViewsUndisturbed ==
  ASSUME NEW d, NEW w, NEW c, ViewsFit(d, w), Apart(w, c)
  PROVE  ViewsFit(Apply(d, c), w)
<1>. DEFINE e == Apply(d, c)
<1>1. /\ \A id : Has(w, id) => (Has(e, id) <=> Has(d, id))
      /\ \A id : Has(w, id) /\ Has(d, id) => e[id] = d[id]
  BY ApplyFacts DEF Apart
<1>. HIDE DEF e
<1>2. \A n \in ViewShards : Has(w, Shard(n)) => ViewsOf(e, n) = ViewsOf(d, n)
  BY <1>1 DEF ViewsOf
<1>3. ASSUME NEW a \in Visitors, NEW day \in Days, NEW n \in ViewShards, WritesView(d, w, a, day, n)
      PROVE  WritesView(e, w, a, day, n)
  BY <1>1, <1>2, <1>3 DEF WritesView
<1>4. ViewsFit(e, w)
  BY <1>2, <1>3 DEF ViewsFit
<1>. QED
  BY <1>4 DEF e

LEMMA ViewsCommit ==
  ASSUME RecordsAssumption, NEW d, NEW w, ViewsIn(d), ViewsFit(d, w)
  PROVE  ViewsIn(Apply(d, w))
<1>. DEFINE e == Apply(d, w)
<1>1. /\ \A id : Has(e, id) <=> Has(d, id) \/ Has(w, id)
      /\ \A id : Has(w, id) => e[id] = w[id]
      /\ \A id : Has(d, id) /\ ~Has(w, id) => e[id] = d[id]
  BY ApplyFacts
<1>. HIDE DEF e
<1>2. \A n \in ViewShards : Has(e, Shard(n)) => ShardFits(e[Shard(n)])
  BY <1>1 DEF ViewsIn, ViewsFit
<1>3. /\ \A n \in ViewShards : ViewsOf(d, n) \in Nat /\ ViewsOf(e, n) \in Nat
      /\ \A n \in ViewShards : ShardValues(d)[n] = ViewsOf(d, n) /\ ShardValues(e)[n] = ViewsOf(e, n)
  BY <1>2 DEF ViewsIn, ViewsOf, ShardFits, ShardValues
<1>4. CASE /\ \A a \in Visitors, day \in Days : ~Has(w, ViewOf(a, day))
           /\ \A n \in ViewShards : Has(w, Shard(n)) => w[Shard(n)].agents = ViewsOf(d, n)
  <2>1. Seen(e) = Seen(d)
    BY <1>1, <1>4 DEF Seen
  <2>2. \A n \in ViewShards : ViewsOf(e, n) = ViewsOf(d, n)
    BY <1>1, <1>4 DEF ViewsOf
  <2>3. ShardValues(e) = ShardValues(d)
    BY <2>2 DEF ShardValues
  <2>. QED
    BY <1>2, <2>1, <2>3 DEF ViewsIn, e
<1>5. ASSUME NEW a \in Visitors, NEW day \in Days, NEW n \in ViewShards, WritesView(d, w, a, day, n)
      PROVE  ViewsIn(e)
  <2>1. Seen(e) = Seen(d) \cup {<<a, day>>} /\ <<a, day>> \notin Seen(d)
    BY <1>1, <1>5 DEF Seen, WritesView
  <2>2. ViewsOf(e, n) = ViewsOf(d, n) + 1 /\ \A m \in ViewShards : m # n => ViewsOf(e, m) = ViewsOf(d, m)
    BY <1>1, <1>5 DEF WritesView, ViewsOf
  <2>3. SumOf(ShardValues(e), ViewShards) =
          SumOf(ShardValues(d), ViewShards) + (ViewsOf(e, n) - ViewsOf(d, n))
    BY <1>3, <2>2, SumChanges, RecordsAssumption
  <2>4. /\ IsFiniteSet(Seen(e)) /\ Cardinality(Seen(e)) = Cardinality(Seen(d)) + 1
        /\ Cardinality(Seen(d)) \in Nat
    BY <2>1, FS_AddElement, FS_CardinalityType DEF ViewsIn
  <2>5. SumOf(ShardValues(e), ViewShards) = Cardinality(Seen(e))
    BY <1>3, <2>2, <2>3, <2>4 DEF ViewsIn
  <2>. QED
    BY <1>2, <2>4, <2>5 DEF ViewsIn
<1>. QED
  BY <1>4, <1>5 DEF ViewsFit, e

(* Feedback and removals write neither, a view of an agent writes both, and *)
(* one of a guest only its shard.                                          *)
LEMMA ShardNowIs ==
  ASSUME ViewsIn(db), NEW n \in ViewShards
  PROVE  /\ DOMAIN ShardNow(n) = {"agents", "guests"} /\ ShardNow(n).agents = ViewsOf(db, n)
         /\ ViewsOf(db, n) \in Nat
BY DEF ViewsIn, ShardNow, ViewsOf, ShardFits

LEMMA NoViewWritten ==
  ASSUME NEW w, \A id : Has(w, id) => id = Subject \/ \E a : id = Opinion(a)
  PROVE  ViewsFit(db, w)
<1>1. /\ \A a, day : ~Has(w, ViewOf(a, day)) 
      /\ \A n : ~Has(w, Shard(n))
  BY ViewIds
<1>. QED
  BY <1>1 DEF ViewsFit

LEMMA FeedbackOpensNoView ==
  ASSUME NEW s \in Sessions, NEW a \in Critics, NEW kind \in Kinds,
         FeedbackOnPost(s, a, kind) \/ ResolveDuplicate(s, a, kind) \/ SetSubjectRemoved(s)
  PROVE  \E w : OpenTxn(s, w) /\ ViewsFit(db, w)
<1>. DEFINE PostOrOpinion(w) == \A id : Has(w, id) => id = Subject \/ \E b : id = Opinion(b)
<1>1. \A k, v : PostOrOpinion(Apply(Put(Opinion(a), k), Put(Subject, v)))
  BY TwoDocuments, RecordIds
<1>2. \A v : PostOrOpinion(Put(Subject, v))
  BY OneDocument
<1>3. PICK w : OpenTxn(s, w) /\ PostOrOpinion(w)
  <2>1. CASE FeedbackOnPost(s, a, kind)
    <3>1. OpenTxn(s, Gives(a, kind)) \/ OpenTxn(s, TakesBack(a, kind)) \/ OpenTxn(s, Changes(a, kind))
      BY <2>1 DEF FeedbackOnPost
    <3>. QED
      BY <3>1, <1>1 DEF Gives, TakesBack, Changes
  <2>2. CASE ResolveDuplicate(s, a, kind)
    BY <2>2, <1>1 DEF ResolveDuplicate, Changes
  <2>3. CASE SetSubjectRemoved(s)
    BY <2>3, <1>2 DEF SetSubjectRemoved
  <2>. QED
    BY <2>1, <2>2, <2>3
<1>. QED
  BY <1>3, NoViewWritten

LEMMA ViewOpens ==
  ASSUME ViewsIn(db), NEW s \in Sessions, NEW a \in Visitors, NEW day \in Days, NEW n \in ViewShards,
         ViewPost(s, a, day, n)
  PROVE  \E w : OpenTxn(s, w) /\ ViewsFit(db, w)
<1>. DEFINE v == [ShardNow(n) EXCEPT !.agents = @ + 1]
            viewed == Put(ViewOf(a, day), TRUE)
            w == Apply(viewed, Put(Shard(n), v))
<1>1. OpenTxn(s, w) /\ ~Has(db, ViewOf(a, day))
  BY DEF ViewPost
<1>2. ShardFits(v) /\ v.agents = ViewsOf(db, n) + 1
  BY ShardNowIs DEF ShardFits
<1>3. \A id : Has(viewed, id) <=> id = ViewOf(a, day)
  BY DEF Has, Put
<1>. HIDE DEF v, viewed
<1>4. /\ \A id : Has(w, id) <=> id = ViewOf(a, day) \/ id = Shard(n)
      /\ w[Shard(n)] = v
  BY <1>3, ApplyFacts, OneDocument
<1>. HIDE DEF w
<1>5. WritesView(db, w, a, day, n)
  BY <1>1, <1>2, <1>4, ViewIds DEF WritesView
<1>6. \A m \in ViewShards : Has(w, Shard(m)) => ShardFits(w[Shard(m)])
  BY <1>2, <1>4, ViewIds
<1>. QED
  BY <1>1, <1>5, <1>6 DEF ViewsFit

LEMMA GuestWrites ==
  ASSUME ViewsIn(db), NEW n \in ViewShards, ViewAsGuest(n)
  PROVE  \E w : WriteAlone(w) /\ ViewsFit(db, w)
<1>. DEFINE v == [ShardNow(n) EXCEPT !.guests = @ + 1]
            w == Put(Shard(n), v)
<1>1. WriteAlone(w)
  BY DEF ViewAsGuest
<1>2. ShardFits(v) /\ v.agents = ViewsOf(db, n)
  BY ShardNowIs DEF ShardFits
<1>. HIDE DEF v
<1>3. (\A id : Has(w, id) <=> id = Shard(n)) /\ w[Shard(n)] = v
  BY OneDocument
<1>. HIDE DEF w
<1>4. /\ \A b, day : ~Has(w, ViewOf(b, day))
      /\ \A m \in ViewShards : Has(w, Shard(m)) => m = n
  BY <1>3, ViewIds
<1>5. ViewsFit(db, w)
  BY <1>2, <1>3, <1>4 DEF ViewsFit
<1>. QED
  BY <1>1, <1>5

LEMMA ViewsStep ==
  ASSUME RecordsAssumption, ViewsInvariant, [RecordsNext]_<<db, txn>>
  PROVE  ViewsInvariant'
<1>1. CASE UNCHANGED <<db, txn>>
  BY <1>1 DEF ViewsInvariant, TxnShape
<1>2. ASSUME NEW s \in Sessions, NEW w, OpenTxn(s, w), ViewsFit(db, w)
      PROVE  ViewsInvariant'
  BY <1>2, OpenEffect DEF ViewsInvariant
<1>3. ASSUME NEW s \in Sessions, CommitTxn(s)
      PROVE  ViewsInvariant'
  BY <1>3, CommitEffect, ViewsCommit, ViewsUndisturbed DEF ViewsInvariant
<1>4. ASSUME NEW s \in Sessions, AbortTxn(s)
      PROVE  ViewsInvariant'
  BY <1>4, AbortEffect DEF ViewsInvariant
<1>5. ASSUME NEW w, WriteAlone(w), ViewsFit(db, w)
      PROVE  ViewsInvariant'
  BY <1>5, AloneEffect, ViewsCommit, ViewsUndisturbed DEF ViewsInvariant
<1>6. CASE \E n \in ViewShards : ViewAsGuest(n)
  BY <1>5, <1>6, GuestWrites DEF ViewsInvariant
<1>7. CASE \E s \in Sessions, a \in Visitors, day \in Days, n \in ViewShards : ViewPost(s, a, day, n)
  BY <1>2, <1>7, ViewOpens DEF ViewsInvariant
<1>8. CASE \E s \in Sessions, a \in Critics, kind \in Kinds :
             FeedbackOnPost(s, a, kind) \/ ResolveDuplicate(s, a, kind)
  BY <1>2, <1>8, FeedbackOpensNoView
<1>9. ASSUME NEW s \in Sessions, SetSubjectRemoved(s)
      PROVE  ViewsInvariant'
  <2>1. PICK v : OpenTxn(s, Put(Subject, v))
    BY <1>9 DEF SetSubjectRemoved
  <2>2. ViewsFit(db, Put(Subject, v))
    BY OneDocument, NoViewWritten
  <2>. QED
    BY <1>2, <2>1, <2>2
<1>. QED
  BY <1>1, <1>3, <1>4, <1>6, <1>7, <1>8, <1>9 DEF RecordsNext

(* Before the first view.                                                  *)
LEMMA ViewsBegin ==
  ASSUME RecordsAssumption, NEW d, \A a, day : ~Has(d, ViewOf(a, day)), \A n : ~Has(d, Shard(n))
  PROVE  ViewsIn(d)
<1>1. Seen(d) = {}
  BY DEF Seen
<1>2. \A n \in ViewShards : ShardValues(d)[n] = 0
  BY DEF ShardValues, ViewsOf
<1>3. SumOf(ShardValues(d), ViewShards) = 0
  BY <1>2, SumOfZeros, RecordsAssumption
<1>. QED
  BY <1>1, <1>3, FS_EmptySet DEF ViewsIn

LEMMA ViewsFollow ==
  ASSUME ViewsIn(db)
  PROVE  ViewsAreCounted
<1>1. \A n \in ViewShards : ShardNow(n).agents = ViewsOf(db, n)
  BY ShardNowIs
<1>2. AgentViews = ShardValues(db)
  BY <1>1 DEF AgentViews, ShardValues
<1>3. SumOf(AgentViews, ViewShards) = Cardinality(Seen(db))
  BY <1>2 DEF ViewsIn
<1>. QED
  BY <1>3 DEF SumOf, Seen, ViewsAreCounted

(* For any number of agents, sessions, days and shards and any requests    *)
(* that are repeated or race: a post counts each feedback once, under the  *)
(* type it has, and each view of an agent once a day, in one shard.        *)
THEOREM RecordsCounted ==
  ASSUME RecordsAssumption
  PROVE  RecordsSpec => []RecordsAreCounted
<1>1. RecordsInit => ViewsInvariant
  <2>. SUFFICES ASSUME RecordsInit
                PROVE  ViewsInvariant
    OBVIOUS
  <2>1. TxnShape /\ \A s \in Sessions : ~txn[s].open
    BY NoneOpen DEF RecordsInit, NoTxns
  <2>2. \A id : Has(db, id) <=> id = Subject
    BY OneDocument DEF RecordsInit, FirstRecords
  <2>3. (\A a, day : ~Has(db, ViewOf(a, day))) /\ (\A n : ~Has(db, Shard(n)))
    BY <2>2, ViewIds
  <2>. QED
    BY <2>1, <2>3, ViewsBegin DEF ViewsInvariant
<1>2. ViewsInvariant /\ [RecordsNext]_<<db, txn>> => ViewsInvariant'
  BY ViewsStep
<1>3. ViewsInvariant => ViewsAreCounted
  BY ViewsFollow DEF ViewsInvariant
<1>4. RecordsSpec => []ViewsAreCounted
  BY <1>1, <1>2, <1>3, PTL DEF RecordsSpec
<1>. QED
  BY <1>4, FeedbackCounted, PTL DEF RecordsAreCounted

-----------------------------------------------------------------------------
(* PROGRESSION                                                             *)

LEMMA LevelFacts ==
  ASSUME ProgressionAssumption
  PROVE  /\ \A n \in 1..Len(Levels) : /\ Levels[n].minXp \in Nat /\ Levels[n].staminaMax \in Nat
                                      /\ Levels[n].period \in Nat \ {0}
         /\ 1 \in 1..Len(Levels)
         /\ Fastest \in Nat \ {0} /\ \A n \in 1..Len(Levels) : Fastest <= Levels[n].period
         /\ Len(Levels) \in Nat
<1>1. /\ Len(Levels) \in Nat /\ 1 \in 1..Len(Levels)
      /\ \A n \in 1..Len(Levels) : Levels[n] \in [minXp : Nat, staminaMax : Nat, period : Nat \ {0}]
  <2>. DEFINE L == [minXp : Nat, staminaMax : Nat, period : Nat \ {0}]
  <2>1. Levels \in Seq(L) /\ Len(Levels) > 0
    BY DEF ProgressionAssumption
  <2>. HIDE DEF L
  <2>2. /\ Len(Levels) \in Nat /\ 1 \in 1..Len(Levels)
        /\ \A n \in 1..Len(Levels) : Levels[n] \in L
    BY <2>1
  <2>. QED
    BY <2>2 DEF L
<1>. DEFINE Periods == {Levels[n].period : n \in 1..Len(Levels)}
<1>2. Periods # {} /\ Periods \in SUBSET (Nat \ {0})
  BY <1>1
<1>. HIDE DEF Periods
<1>3. PICK m \in Periods : \A n \in Periods : m <= n
  BY <1>2, LeastNumber
<1>4. Min(Periods) \in Periods /\ \A n \in Periods : Min(Periods) <= n
  BY <1>3 DEF Min
<1>5. Fastest = Min(Periods)
  BY DEF Fastest, Periods
<1>6. \A n \in 1..Len(Levels) : Levels[n].period \in Periods
  BY DEF Periods
<1>. QED
  BY <1>1, <1>2, <1>4, <1>5, <1>6

LEMMA LevelOf ==
  ASSUME ProgressionAssumption, NEW xp \in Nat
  PROVE  \E n \in 1..Len(Levels) :
           /\ Level(xp) = Levels[n] /\ xp >= Levels[n].minXp
           /\ \A m \in 1..Len(Levels) : xp >= Levels[m].minXp => m <= n
<1>. DEFINE Reached == {n \in 1..Len(Levels) : xp >= Levels[n].minXp}
<1>1. Reached \in SUBSET (1..Len(Levels)) /\ 1 \in Reached
  BY LevelFacts DEF ProgressionAssumption
<1>2. Max(Reached) \in Reached /\ \A n \in Reached : Max(Reached) >= n
  BY <1>1, LargestNumber, LevelFacts
<1>3. Level(xp) = Levels[Max(Reached)]
  BY DEF Level
<1>4. \A m \in 1..Len(Levels) : xp >= Levels[m].minXp => m <= Max(Reached)
  BY <1>2
<1>. QED
  BY <1>2, <1>3, <1>4

LEMMA LevelTypes ==
  ASSUME ProgressionAssumption, NEW xp \in Nat
  PROVE  /\ Level(xp).staminaMax \in Nat /\ Level(xp).period \in Nat \ {0}
         /\ Fastest <= Level(xp).period
         /\ Levels[1].staminaMax <= Level(xp).staminaMax
         /\ \A more \in Nat : more >= xp => Level(more).staminaMax >= Level(xp).staminaMax
<1>1. PICK n \in 1..Len(Levels) : Level(xp) = Levels[n] /\ xp >= Levels[n].minXp
  BY LevelOf
<1>2. ASSUME NEW more \in Nat, more >= xp
      PROVE  Level(more).staminaMax >= Level(xp).staminaMax
  <2>1. PICK k \in 1..Len(Levels) :
          /\ Level(more) = Levels[k]
          /\ \A m \in 1..Len(Levels) : more >= Levels[m].minXp => m <= k
    BY LevelOf
  <2>2. n <= k
    <3>. DEFINE least == Levels[n].minXp
    <3>1. least \in Nat /\ xp >= least
      BY <1>1, LevelFacts
    <3>. HIDE DEF least
    <3>2. more >= least
      BY <1>2, <3>1
    <3>. USE DEF least
    <3>. QED
      BY <2>1, <3>2
  <2>. QED
    BY <1>1, <2>1, <2>2, LevelFacts DEF ProgressionAssumption
<1>. QED
  BY <1>1, <1>2, LevelFacts, SMTT(30) DEF ProgressionAssumption

LEMMA EventIds ==
  /\ \A x : /\ ActionId(x)[1] = "action" /\ ChargeId(x)[1] = "charge"
            /\ TaskId(x)[1] = "task" /\ AdjustmentId(x)[1] = "adjustment"
  /\ Progress[1] \notin EventKinds
  /\ \A x, y : /\ ActionId(x) # ChargeId(y) /\ ActionId(x) # TaskId(y) /\ ActionId(x) # AdjustmentId(y)
               /\ ChargeId(x) # TaskId(y) /\ ChargeId(x) # AdjustmentId(y) /\ TaskId(x) # AdjustmentId(y)
  /\ \A x, y : (ActionId(x) = ActionId(y) => x = y) /\ (TaskId(x) = TaskId(y) => x = y)
BY DEF ActionId, ChargeId, TaskId, AdjustmentId, Progress, EventKinds

LEMMA SameLedgerSums ==
  ASSUME NEW d, NEW e, SameLedger(d, e), NEW xp, NEW spent, LedgerSums(d, xp, spent)
  PROVE  LedgerSums(e, xp, spent)
<1>1. LedgerIn(e) = LedgerIn(d) /\ \A id \in LedgerIn(d) : e[id] = d[id]
  BY DEF SameLedger, LedgerIn, Has
<1>2. XpIn(e) = XpIn(d) /\ CostIn(e) = CostIn(d)
  BY <1>1 DEF XpIn, CostIn
<1>. QED
  BY <1>1, <1>2 DEF LedgerSums

LEMMA SameLedgerTasks ==
  ASSUME NEW d, NEW e, SameLedger(d, e), NEW day, NEW count, NEW awarded,
         TasksFit(d, day, count, awarded)
  PROVE  TasksFit(e, day, count, awarded)
<1>1. \A x : /\ Has(e, ActionId(x)) <=> Has(d, ActionId(x))
             /\ Has(d, ActionId(x)) => e[ActionId(x)] = d[ActionId(x)]
             /\ Has(e, TaskId(x)) <=> Has(d, TaskId(x))
  BY EventIds DEF SameLedger, EventKinds
<1>2. \A other : RewardedOn(e, other) = RewardedOn(d, other)
  BY <1>1 DEF RewardedOn
<1>. QED
  BY <1>1, <1>2 DEF TasksFit

LEMMA SameLedgerAccounts ==
  ASSUME NEW d, NEW e, SameLedger(d, e), NEW p, NEW t, AccountedFor(d, p, t)
  PROVE  AccountedFor(e, p, t)
BY SameLedgerSums, SameLedgerTasks DEF AccountedFor

LEMMA LedgerGrowsSums ==
  ASSUME NEW d, NEW e, NEW new, LedgerGrows(d, e, new),
         NEW xp, NEW spent, LedgerSums(d, xp, spent),
         e[new].xp \in Int, e[new].cost \in Nat
  PROVE  LedgerSums(e, xp + e[new].xp, spent + e[new].cost)
<1>1. /\ LedgerIn(e) = LedgerIn(d) \cup {new} /\ new \notin LedgerIn(d)
      /\ \A id \in LedgerIn(d) : e[id] = d[id]
  BY DEF LedgerGrows, LedgerIn, Has
<1>2. IsFiniteSet(LedgerIn(d)) /\ IsFiniteSet(LedgerIn(e))
  BY <1>1, FS_AddElement DEF LedgerSums
<1>3. /\ \A id \in LedgerIn(e) : /\ XpIn(e)[id] = e[id].xp /\ CostIn(e)[id] = e[id].cost
                                 /\ e[id].xp \in Int /\ e[id].cost \in Nat
      /\ \A id \in LedgerIn(d) : XpIn(e)[id] = XpIn(d)[id] /\ CostIn(e)[id] = CostIn(d)[id]
  BY <1>1 DEF XpIn, CostIn, LedgerSums
<1>4. /\ \A id \in LedgerIn(d) \cup {new} : XpIn(e)[id] \in Int /\ CostIn(e)[id] \in Int
      /\ XpIn(e)[new] = e[new].xp /\ CostIn(e)[new] = e[new].cost
  BY <1>1, <1>3
<1>5. SumOf(XpIn(e), LedgerIn(e)) = SumOf(XpIn(e), LedgerIn(d)) + e[new].xp
  BY <1>1, <1>2, <1>4, SumAdds
<1>6. SumOf(CostIn(e), LedgerIn(e)) = SumOf(CostIn(e), LedgerIn(d)) + e[new].cost
  BY <1>1, <1>2, <1>4, SumAdds
<1>7. /\ SumOf(XpIn(e), LedgerIn(d)) = SumOf(XpIn(d), LedgerIn(d))
      /\ SumOf(CostIn(e), LedgerIn(d)) = SumOf(CostIn(d), LedgerIn(d))
  BY <1>2, <1>3, SumAgrees
<1>. QED
  BY <1>2, <1>3, <1>5, <1>6, <1>7 DEF LedgerSums

-----------------------------------------------------------------------------
LEMMA TasksGrow ==
  ASSUME ProgressionAssumption, NEW d, NEW e, NEW day \in Nat, NEW count \in Nat, NEW awarded \in BOOLEAN,
         TasksFit(d, day, count, awarded),
         NEW x \in Sources, ~Has(d, ActionId(x)),
         \A y : Has(e, ActionId(y)) <=> Has(d, ActionId(y)) \/ y = x,
         \A y : Has(d, ActionId(y)) => e[ActionId(y)] = d[ActionId(y)],
         e[ActionId(x)].day = day,
         \A y \in Nat : Has(e, TaskId(y)) <=> Has(d, TaskId(y)) \/ (y = day /\ count + 1 >= TaskTarget)
  PROVE  TasksFit(e, day, count + 1, awarded \/ count + 1 >= TaskTarget)
<1>1. RewardedOn(e, day) = RewardedOn(d, day) \cup {x} /\ x \notin RewardedOn(d, day)
  BY DEF RewardedOn
<1>2. /\ IsFiniteSet(RewardedOn(d, day)) /\ Cardinality(RewardedOn(d, day)) \in Nat
      /\ count <= Cardinality(RewardedOn(d, day))
  BY FS_CardinalityType DEF TasksFit
<1>3. /\ IsFiniteSet(RewardedOn(e, day))
      /\ Cardinality(RewardedOn(e, day)) = Cardinality(RewardedOn(d, day)) + 1
  <2>. DEFINE before == RewardedOn(d, day)
  <2>. HIDE DEF before
  <2>1. IsFiniteSet(before) /\ x \notin before /\ RewardedOn(e, day) = before \cup {x}
    BY <1>1, <1>2 DEF before
  <2>2. IsFiniteSet(before \cup {x}) /\ Cardinality(before \cup {x}) = Cardinality(before) + 1
    BY <2>1, FS_AddElement
  <2>. QED
    BY <2>1, <2>2 DEF before
<1>4. /\ TaskTarget \in Nat
      /\ awarded <=> count >= TaskTarget
      /\ awarded => Has(d, TaskId(day))
      /\ Has(e, TaskId(day)) <=> Has(d, TaskId(day)) \/ count + 1 >= TaskTarget
  BY DEF TasksFit, ProgressionAssumption
<1>5. Has(d, TaskId(day)) => Cardinality(RewardedOn(d, day)) >= TaskTarget
  BY DEF TasksFit
<1>6. count + 1 <= Cardinality(RewardedOn(e, day))
  BY <1>2, <1>3
<1>7. Has(e, TaskId(day)) => Cardinality(RewardedOn(e, day)) >= TaskTarget
  BY <1>2, <1>3, <1>4, <1>5
<1>8. ASSUME NEW other \in Nat, other # day
      PROVE  /\ IsFiniteSet(RewardedOn(e, other))
             /\ Has(e, TaskId(other)) => Cardinality(RewardedOn(e, other)) >= TaskTarget
  <2>1. RewardedOn(e, other) = RewardedOn(d, other)
    BY <1>8 DEF RewardedOn
  <2>2. Has(e, TaskId(other)) <=> Has(d, TaskId(other))
    BY <1>8
  <2>. QED
    BY <2>1, <2>2 DEF TasksFit
<1>9. \A other \in Nat :
        /\ IsFiniteSet(RewardedOn(e, other))
        /\ Has(e, TaskId(other)) => Cardinality(RewardedOn(e, other)) >= TaskTarget
  BY <1>3, <1>7, <1>8
<1>10. awarded \/ count + 1 >= TaskTarget <=> count + 1 >= TaskTarget
  BY <1>4
<1>11. awarded \/ count + 1 >= TaskTarget => Has(e, TaskId(day))
  BY <1>4
<1>. QED
  BY <1>6, <1>9, <1>10, <1>11 DEF TasksFit

LEMMA TimeFacts ==
  ASSUME ProgressionAssumption
  PROVE  /\ \A t \in Nat : DayOf(t) \in Nat
         /\ \A t, u \in Nat : t <= u => DayOf(t) <= DayOf(u)
         /\ \A t \in Nat : t \div Fastest \in Nat
         /\ \A t, u \in Nat : t <= u => t \div Fastest <= u \div Fastest
<1>1. DayLength \in Nat \ {0} /\ Fastest \in Nat \ {0}
  BY LevelFacts DEF ProgressionAssumption
<1>3. \A t, u \in Nat : t \div DayLength \in Nat /\ (t <= u => t \div DayLength <= u \div DayLength)
  BY <1>1, QuotientsOrdered
<1>4. \A t, u \in Nat : t \div Fastest \in Nat /\ (t <= u => t \div Fastest <= u \div Fastest)
  BY <1>1, QuotientsOrdered
<1>. QED
  BY <1>3, <1>4 DEF DayOf

(* The beginning: an agent with no events has all the stamina there is.    *)
LEMMA NewAccounts ==
  ASSUME ProgressionAssumption, NEW t \in Nat, NEW d, LedgerIn(d) = {}
  PROVE  AccountedFor(d, NewProgress(t), t)
<1>. DEFINE p == NewProgress(t)
<1>1. /\ p \in ProgressRecord /\ p.xp = 0 /\ p.stamina = Levels[1].staminaMax /\ p.settledAt = t
      /\ p.day = DayOf(t) /\ p.count = 0 /\ p.awarded = FALSE
  BY TimeFacts, LevelFacts DEF NewProgress, ProgressRecord
<1>. HIDE DEF p
<1>2. LedgerSums(d, 0, 0)
  BY SumOfNone, FS_EmptySet DEF LedgerSums
<1>3. \A id : id[1] \in EventKinds => ~Has(d, id)
  BY DEF LedgerIn, Has
<1>4. \A x : ~Has(d, ActionId(x)) /\ ~Has(d, TaskId(x))
  BY <1>3, EventIds DEF EventKinds
<1>5. TasksFit(d, p.day, p.count, p.awarded)
  <2>1. \A other : RewardedOn(d, other) = {}
    BY <1>4 DEF RewardedOn
  <2>2. \A other : IsFiniteSet(RewardedOn(d, other)) /\ Cardinality(RewardedOn(d, other)) = 0
    BY <2>1, FS_EmptySet
  <2>3. TaskTarget \in Nat \ {0}
    BY DEF ProgressionAssumption
  <2>. QED
    BY <1>1, <1>4, <2>2, <2>3 DEF TasksFit
<1>6. StaminaFits(p, 0)
  <2>1. Levels[1].staminaMax \in Nat /\ Levels[1].staminaMax <= Level(p.xp).staminaMax
    BY <1>1, LevelFacts, LevelTypes
  <2>2. t \div Fastest \in Nat
    BY TimeFacts
  <2>. QED
    BY <1>1, <2>1, <2>2 DEF StaminaFits
<1>7. DayOf(t) \in Nat
  BY TimeFacts
<1>8. \E spent \in Nat : LedgerSums(d, p.xp, spent) /\ StaminaFits(p, spent)
  BY <1>1, <1>2, <1>6
<1>9. AccountedFor(d, p, t)
  <2>1. p.settledAt <= t /\ p.day <= DayOf(t)
    BY <1>1, <1>7
  <2>. QED
    BY <2>1, <1>1, <1>5, <1>7, <1>8 DEF AccountedFor
<1>. QED
  BY <1>9 DEF p

(* Another day, be it one that has gone by: nothing is counted on it.      *)
LEMMA OnDayAccounts ==
  ASSUME ProgressionAssumption, NEW t \in Nat, NEW now \in 0..t, NEW d, NEW p, AccountedFor(d, p, t)
  PROVE  AccountedFor(d, OnDay(p, now), t) /\ OnDay(p, now).day = DayOf(now)
<1>. DEFINE q == OnDay(p, now)
<1>1. CASE p.day = DayOf(now)
  BY <1>1 DEF OnDay
<1>2. CASE p.day # DayOf(now)
  <2>1. p \in ProgressRecord /\ DayOf(now) \in Nat /\ DayOf(now) <= DayOf(t)
    <3>1. now \in Nat /\ now <= t
      OBVIOUS
    <3>. QED
      BY <3>1, TimeFacts DEF AccountedFor
  <2>2. /\ q \in ProgressRecord /\ q.xp = p.xp /\ q.stamina = p.stamina
        /\ q.settledAt = p.settledAt /\ q.day = DayOf(now) /\ q.count = 0 /\ q.awarded = FALSE
    BY <1>2, <2>1 DEF OnDay, ProgressRecord
  <2>. HIDE DEF q
  <2>3. TasksFit(d, DayOf(now), 0, FALSE)
    <3>1. \A other \in Nat :
            /\ IsFiniteSet(RewardedOn(d, other))
            /\ Has(d, TaskId(other)) => Cardinality(RewardedOn(d, other)) >= TaskTarget
      BY DEF AccountedFor, TasksFit
    <3>2. 0 <= Cardinality(RewardedOn(d, DayOf(now)))
      BY <2>1, <3>1, FS_CardinalityType
    <3>3. TaskTarget \in Nat \ {0}
      BY DEF ProgressionAssumption
    <3>. QED
      BY <3>1, <3>2, <3>3 DEF TasksFit
  <2>4. \E spent \in Nat : LedgerSums(d, q.xp, spent) /\ StaminaFits(q, spent)
    BY <2>2 DEF AccountedFor, StaminaFits
  <2>5. q.settledAt <= t /\ q.day <= DayOf(t)
    BY <2>1, <2>2 DEF AccountedFor
  <2>6. AccountedFor(d, q, t)
    BY <2>2, <2>3, <2>4, <2>5 DEF AccountedFor
  <2>. QED
    BY <2>2, <2>6 DEF q
<1>. QED
  BY <1>1, <1>2

(* Time gives back what it had not given back yet.                         *)
LEMMA SettledFields ==
  ASSUME ProgressionAssumption, NEW t \in Nat, NEW p \in ProgressRecord, p.settledAt <= t
  PROVE  LET q == Settled(p, t)
             M == Level(p.xp).staminaMax
             P == Level(p.xp).period
             c == Smaller(p.stamina, M)
             r == (t - p.settledAt) \div P
         IN  /\ q \in ProgressRecord /\ q.xp = p.xp /\ q.day = p.day
             /\ q.count = p.count /\ q.awarded = p.awarded
             /\ q.settledAt <= t /\ q.settledAt >= p.settledAt
             /\ M \in Nat /\ P \in Nat \ {0} /\ c \in 0..M /\ c <= p.stamina /\ r \in Nat
             /\ c >= M => q.stamina = c /\ q.settledAt = p.settledAt
             /\ c < M => q.stamina = Smaller(M, c + r) /\ q.settledAt = p.settledAt + r * P
<1>. DEFINE q == Settled(p, t)
            M == Level(p.xp).staminaMax
            P == Level(p.xp).period
            c == Smaller(p.stamina, M)
            r == (t - p.settledAt) \div P
<1>1. /\ p.xp \in Nat /\ p.stamina \in Nat /\ p.settledAt \in Nat /\ p.day \in Nat
      /\ p.count \in Nat /\ p.awarded \in BOOLEAN
  BY DEF ProgressRecord
<1>2. M \in Nat /\ P \in Nat \ {0}
  BY <1>1, LevelTypes
<1>3. Larger(0, t - p.settledAt) = t - p.settledAt /\ t - p.settledAt \in Nat
  <2>. DEFINE gone == t - p.settledAt
  <2>1. gone \in Nat
    BY <1>1, SMTT(30)
  <2>. HIDE DEF gone
  <2>2. Larger(0, gone) = gone
    BY <2>1 DEF Larger
  <2>. QED
    BY <2>1, <2>2 DEF gone
<1>4. c \in 0..M /\ c <= p.stamina
  BY <1>1, <1>2, SMTT(30) DEF Smaller
<1>5. r \in Nat /\ r * P \in Nat /\ r * P <= t - p.settledAt
  <2>1. \A a \in Nat, b \in Nat \ {0} : a \div b \in Nat /\ (a \div b) * b \in Nat /\ (a \div b) * b <= a
    BY QuotientBounds, SMTT(30)
  <2>2. \A a, b : a = t - p.settledAt /\ b = P => r = a \div b
    OBVIOUS
  <2>. HIDE DEF r, P
  <2>. QED
    BY <1>2, <1>3, <2>1, <2>2
<1>6. q = IF c >= M THEN [p EXCEPT !.stamina = c]
          ELSE [p EXCEPT !.stamina = Smaller(M, c + r), !.settledAt = @ + r * P]
  BY <1>3 DEF Settled
<1>. HIDE DEF q, M, P, c, r
<1>7. CASE c >= M
  <2>1. /\ q \in ProgressRecord /\ q.xp = p.xp /\ q.day = p.day
        /\ q.count = p.count /\ q.awarded = p.awarded
        /\ q.settledAt = p.settledAt /\ q.stamina = c
    <3>1. q = [p EXCEPT !.stamina = c] /\ c \in Nat
      BY <1>2, <1>4, <1>6, <1>7
    <3>. QED
      BY <3>1 DEF ProgressRecord
  <2>2. ~(c < M) /\ q.settledAt <= t /\ q.settledAt >= p.settledAt
    BY <1>1, <1>2, <1>4, <1>7, <2>1
  <2>. QED
    BY <1>2, <1>4, <1>5, <2>1, <2>2 DEF q, M, P, c, r
<1>8. CASE c < M
  <2>. DEFINE gain == r * P
              sum == Smaller(M, c + r)
  <2>1. gain \in Nat /\ gain <= t - p.settledAt
    BY <1>5
  <2>. HIDE DEF gain
  <2>2. sum \in Nat
    BY <1>2, <1>4, <1>5 DEF Smaller
  <2>3. ~(c >= M)
    BY <1>2, <1>4, <1>8
  <2>4. q = [p EXCEPT !.stamina = sum, !.settledAt = p.settledAt + gain]
    BY <1>6, <2>3 DEF gain
  <2>. HIDE DEF sum
  <2>5. /\ q \in ProgressRecord /\ q.xp = p.xp /\ q.day = p.day
        /\ q.count = p.count /\ q.awarded = p.awarded
        /\ q.settledAt = p.settledAt + gain /\ q.stamina = sum
    <3>1. p.settledAt + gain \in Nat
      BY <1>1, <2>1, SMTT(30)
    <3>. DEFINE at == p.settledAt + gain
    <3>2. at \in Nat /\ q = [p EXCEPT !.stamina = sum, !.settledAt = at]
      BY <2>4, <3>1
    <3>. HIDE DEF at
    <3>3. q \in ProgressRecord /\ q.xp = p.xp /\ q.day = p.day /\ q.count = p.count
      BY <2>2, <3>2 DEF ProgressRecord
    <3>4. q.awarded = p.awarded /\ q.settledAt = at /\ q.stamina = sum
      BY <3>2 DEF ProgressRecord
    <3>. QED
      BY <3>3, <3>4 DEF at
  <2>6. q.settledAt <= t /\ q.settledAt >= p.settledAt
    <3>1. \A a, b \in Nat : b <= t - a => a + b <= t /\ a + b >= a
      OBVIOUS
    <3>. QED
      BY <1>1, <2>1, <2>5, <3>1
  <2>. QED
    BY <1>2, <1>4, <1>5, <2>3, <2>5, <2>6 DEF q, M, P, c, r, gain, sum
<1>. QED
  <2>1. c < M \/ c >= M
    BY <1>2, <1>4
  <2>. QED
    BY <1>7, <1>8, <2>1

-----------------------------------------------------------------------------
(* What time gives back since the last settlement is no more than it could *)
(* give back to the fastest level.                                         *)
LEMMA RecoveryBound ==
  ASSUME ProgressionAssumption, NEW at \in Nat, NEW P \in Nat \ {0}, Fastest <= P, NEW r \in Nat
  PROVE  at \div Fastest + r <= (at + r * P) \div Fastest
<1>1. Fastest \in Nat \ {0}
  BY LevelFacts
<1>2. r * Fastest \in Nat /\ r * P \in Nat /\ r * Fastest <= r * P
  <2>1. \A f \in Nat : f <= P => r * f \in Nat /\ r * P \in Nat /\ r * f <= r * P
    OBVIOUS
  <2>. QED
    BY <1>1, <2>1
<1>3. (at + r * Fastest) \div Fastest = at \div Fastest + r
  <2>1. at \in Int /\ r \in Int
    OBVIOUS
  <2>. QED
    BY <1>1, <2>1, QuotientAdds
<1>4. (at + r * Fastest) \div Fastest <= (at + r * P) \div Fastest
  <2>. DEFINE less == at + r * Fastest
              more == at + r * P
  <2>1. less \in Nat /\ more \in Nat /\ less <= more
    BY <1>2, SMTT(30)
  <2>. HIDE DEF less, more
  <2>2. less \div Fastest <= more \div Fastest
    BY <1>1, <2>1, QuotientsOrdered
  <2>. QED
    BY <2>2 DEF less, more
<1>. QED
  BY <1>3, <1>4

LEMMA SettledRecovers ==
  ASSUME ProgressionAssumption, NEW t \in Nat, NEW p \in ProgressRecord, p.settledAt <= t
  PROVE  \E c, r : Recovers(p, t, Settled(p, t), Level(p.xp).staminaMax, Level(p.xp).period, c, r)
<1>. DEFINE M == Level(p.xp).staminaMax
            P == Level(p.xp).period
<1>1. Recovers(p, t, Settled(p, t), M, P, Smaller(p.stamina, M), (t - p.settledAt) \div P)
  BY SettledFields, ZenonT(40) DEF Recovers
<1>. QED
  BY <1>1

LEMMA SmallerIs ==
  /\ \A a, b \in Int : a <= b => Smaller(a, b) = a
  /\ \A a, b \in Int : b <= a => Smaller(a, b) = b
  /\ \A a, b \in Int : Smaller(a, b) <= a /\ Smaller(a, b) <= b /\ Smaller(a, b) \in Int
BY DEF Smaller

LEMMA SettledAccounts ==
  ASSUME ProgressionAssumption, NEW t \in Nat, NEW d, NEW p, AccountedFor(d, p, t)
  PROVE  AccountedFor(d, Settled(p, t), t) /\ Settled(p, t).day = p.day
<1>. DEFINE q == Settled(p, t)
            M == Level(p.xp).staminaMax
            P == Level(p.xp).period
<1>1. p \in ProgressRecord /\ p.settledAt <= t /\ p.settledAt \in Nat /\ p.stamina \in Nat /\ p.xp \in Nat
  BY DEF AccountedFor, ProgressRecord
<1>2. PICK c, r : Recovers(p, t, q, M, P, c, r)
  BY <1>1, SettledRecovers
<1>3. Fastest <= P
  BY <1>1, LevelTypes
<1>. HIDE DEF q, P, M
<1>4. q.stamina <= M
  <2>1. M \in Nat /\ c \in 0..M /\ r \in Nat /\ c + r \in Int
    BY <1>2 DEF Recovers
  <2>2. (c >= M => q.stamina = c) /\ (c < M => q.stamina = Smaller(M, c + r))
    BY <1>2 DEF Recovers
  <2>3. CASE c >= M
    BY <2>1, <2>2, <2>3
  <2>4. CASE c < M
    <3>. DEFINE sum == c + r
    <3>1. q.stamina = Smaller(M, sum) /\ sum \in Int /\ M \in Int
      BY <2>1, <2>2, <2>4
    <3>. HIDE DEF sum
    <3>. QED
      BY <3>1, SmallerIs
  <2>. QED
    BY <2>1, <2>3, <2>4
<1>5. PICK spent \in Nat : LedgerSums(d, p.xp, spent) /\ StaminaFits(p, spent)
  BY DEF AccountedFor
<1>6. q.stamina + spent <= Levels[1].staminaMax + q.settledAt \div Fastest
  <2>. DEFINE first == Levels[1].staminaMax
              before == p.settledAt \div Fastest
              after == q.settledAt \div Fastest
  <2>1. p.stamina + spent <= first + before
    BY <1>5 DEF StaminaFits
  <2>2. first \in Nat /\ before \in Nat
    BY <1>1, LevelFacts, TimeFacts
  <2>3. q.stamina \in Nat /\ q.settledAt \in Nat
    BY <1>2 DEF Recovers, ProgressRecord
  <2>4. after \in Nat
    BY <2>3, TimeFacts
  <2>5. \E r2 \in Nat : q.stamina <= p.stamina + r2 /\ before + r2 <= after
    <3>1. CASE c >= M
      <4>1. q.stamina = c /\ after = before /\ c <= p.stamina
        BY <1>2, <3>1 DEF Recovers
      <4>. HIDE DEF after, before
      <4>2. q.stamina <= p.stamina + 0 /\ before + 0 <= after
        BY <1>1, <2>2, <2>3, <4>1
      <4>. QED
        BY <4>2
    <3>2. CASE c < M
      <4>1. /\ q.stamina = Smaller(M, c + r) /\ q.settledAt = p.settledAt + r * P
            /\ r \in Nat /\ c \in Nat /\ M \in Nat /\ P \in Nat \ {0} /\ c <= p.stamina
        BY <1>2, <3>2 DEF Recovers
      <4>2. before + r <= after
        BY <1>1, <1>3, <4>1, RecoveryBound
      <4>3. q.stamina <= p.stamina + r
        <5>1. c + r \in Int /\ M \in Int
          BY <4>1
        <5>2. q.stamina <= c + r
          BY <4>1, <5>1, SmallerIs
        <5>3. c \in Int /\ r \in Int /\ c <= p.stamina
          BY <4>1
        <5>. QED
          BY <1>1, <2>3, <5>2, <5>3, SMTT(30)
      <4>. QED
        BY <4>1, <4>2, <4>3
    <3>3. c \in Nat /\ M \in Nat
      BY <1>2 DEF Recovers
    <3>. QED
      BY <3>1, <3>2, <3>3
  <2>. HIDE DEF first, before, after
  <2>6. q.stamina + spent <= first + after
    <3>1. PICK r2 \in Nat : q.stamina <= p.stamina + r2 /\ before + r2 <= after
      BY <2>5
    <3>2. \A a, b, x, y, z, n, k \in Int :
            b + n <= x + y /\ a <= b + k /\ y + k <= z => a + n <= x + z
      OBVIOUS
    <3>. DEFINE old == p.stamina
                new == q.stamina
    <3>3. /\ old + spent <= first + before /\ new <= old + r2 /\ before + r2 <= after
          /\ old \in Int /\ new \in Int /\ spent \in Int /\ r2 \in Int
          /\ first \in Int /\ before \in Int /\ after \in Int
      BY <1>1, <2>1, <2>2, <2>3, <2>4, <3>1
    <3>. HIDE DEF old, new
    <3>4. new + spent <= first + after
      BY <3>2, <3>3
    <3>. QED
      BY <3>4 DEF new
  <2>. QED
    BY <2>6 DEF first, after
<1>7. \E n \in Nat : LedgerSums(d, q.xp, n) /\ StaminaFits(q, n)
  BY <1>2, <1>4, <1>5, <1>6 DEF StaminaFits, Recovers, M
<1>8. q.day <= DayOf(t) /\ TasksFit(d, q.day, q.count, q.awarded)
  BY <1>2 DEF AccountedFor, Recovers
<1>9. AccountedFor(d, q, t)
  BY <1>2, <1>7, <1>8 DEF AccountedFor, Recovers
<1>. QED
  BY <1>2, <1>9 DEF q, Recovers

(* Before the last settlement, time gives nothing back.                    *)
LEMMA SettledEarly ==
  ASSUME ProgressionAssumption, NEW t \in Nat, NEW p \in ProgressRecord,
         p.stamina <= Level(p.xp).staminaMax, t <= p.settledAt
  PROVE  Settled(p, t) = p
<1>. DEFINE M == Level(p.xp).staminaMax
            P == Level(p.xp).period
            stamina == p.stamina
            at == p.settledAt
<1>1. stamina \in Nat /\ at \in Nat /\ p.xp \in Nat
  BY DEF ProgressRecord
<1>2. M \in Nat /\ P \in Nat \ {0}
  BY <1>1, LevelTypes
<1>. HIDE DEF M, P, stamina, at
<1>3. stamina <= M /\ t <= at
  BY DEF M, stamina, at
<1>4. Smaller(stamina, M) = stamina
  BY <1>1, <1>2, <1>3, SmallerIs
<1>5. Larger(0, t - at) = 0
  BY <1>1, <1>3 DEF Larger
<1>6. 0 \div P = 0
  BY <1>2, SMTT(30)
<1>7. Smaller(M, stamina + 0) = stamina /\ at + 0 * P = at
  <2>1. stamina + 0 = stamina /\ at + 0 * P = at
    BY <1>1, <1>2
  <2>2. Smaller(M, stamina) = stamina
    BY <1>1, <1>2, <1>3, SmallerIs
  <2>. QED
    BY <2>1, <2>2
<1>8. Settled(p, t) = IF stamina >= M THEN [p EXCEPT !.stamina = stamina]
                      ELSE [p EXCEPT !.stamina = Smaller(M, stamina + 0), !.settledAt = at + 0 * P]
  BY <1>4, <1>5, <1>6 DEF Settled, M, P, stamina, at
<1>9. /\ [p EXCEPT !.stamina = p.stamina] = p
      /\ [p EXCEPT !.stamina = p.stamina, !.settledAt = p.settledAt] = p
  BY DEF ProgressRecord
<1>. QED
  BY <1>7, <1>8, <1>9 DEF stamina, at

(* What is accounted for at one time is so at any later one.               *)
LEMMA AccountsLater ==
  ASSUME ProgressionAssumption, NEW t \in Nat, NEW u \in Nat, t <= u,
         NEW d, NEW p, AccountedFor(d, p, t)
  PROVE  AccountedFor(d, p, u)
<1>1. p \in ProgressRecord /\ p.settledAt <= t /\ p.day <= DayOf(t)
  BY DEF AccountedFor
<1>2. p.settledAt \in Nat /\ p.day \in Nat
  BY <1>1 DEF ProgressRecord
<1>3. DayOf(t) \in Nat /\ DayOf(u) \in Nat /\ DayOf(t) <= DayOf(u)
  BY TimeFacts
<1>4. p.settledAt <= u /\ p.day <= DayOf(u)
  BY <1>1, <1>2, <1>3, SMTT(30)
<1>. QED
  BY <1>4 DEF AccountedFor

(* A late settlement accounts for no more than one in time.                *)
LEMMA SettledLate ==
  ASSUME ProgressionAssumption, NEW t \in Nat, NEW now \in 0..t, NEW d, NEW old, AccountedFor(d, old, t)
  PROVE  /\ AccountedFor(d, Settled(OnDay(old, now), now), t)
         /\ Settled(OnDay(old, now), now).day = DayOf(now)
<1>. DEFINE p == OnDay(old, now)
<1>1. AccountedFor(d, p, t) /\ p.day = DayOf(now)
  BY OnDayAccounts
<1>. HIDE DEF p
<1>2. /\ p \in ProgressRecord /\ p.settledAt \in Nat /\ p.stamina <= Level(p.xp).staminaMax
      /\ now \in Nat /\ now <= t /\ DayOf(now) \in Nat
  BY <1>1, TimeFacts DEF AccountedFor, ProgressRecord, StaminaFits
<1>3. ASSUME p.settledAt <= now
      PROVE  AccountedFor(d, Settled(p, now), t) /\ Settled(p, now).day = DayOf(now)
  <2>1. AccountedFor(d, p, now)
    BY <1>1, <1>2, <1>3 DEF AccountedFor
  <2>2. AccountedFor(d, Settled(p, now), now) /\ Settled(p, now).day = p.day
    BY <1>2, <2>1, SettledAccounts
  <2>3. AccountedFor(d, Settled(p, now), t)
    BY <1>2, <2>2, AccountsLater
  <2>. QED
    BY <1>1, <2>2, <2>3
<1>4. ASSUME now <= p.settledAt
      PROVE  AccountedFor(d, Settled(p, now), t) /\ Settled(p, now).day = DayOf(now)
  <2>1. Settled(p, now) = p
    BY <1>2, <1>4, SettledEarly
  <2>. QED
    BY <1>1, <2>1
<1>5. p.settledAt <= now \/ now <= p.settledAt
  BY <1>2
<1>6. AccountedFor(d, Settled(p, now), t) /\ Settled(p, now).day = DayOf(now)
  BY <1>3, <1>4, <1>5
<1>. QED
  BY <1>6 DEF p

(* To settle in between makes no difference.                               *)
LEMMA SettledTwice ==
  ASSUME ProgressionAssumption, NEW p \in ProgressRecord, NEW u \in Nat, NEW t \in Nat,
         p.settledAt <= u, u <= t
  PROVE  Settled(Settled(p, u), t).stamina = Settled(p, t).stamina
<1>. DEFINE q == Settled(p, u)
            M == Level(p.xp).staminaMax
            P == Level(p.xp).period
<1>1. PICK c, ru : Recovers(p, u, q, M, P, c, ru)
  BY SettledRecovers
<1>2. q \in ProgressRecord /\ q.xp = p.xp /\ q.settledAt <= u
  BY <1>1 DEF Recovers
<1>3. p.settledAt <= t /\ q.settledAt <= t /\ p.settledAt \in Nat /\ q.settledAt \in Nat
  <2>1. \A r \in ProgressRecord : r.settledAt \in Nat
    BY DEF ProgressRecord
  <2>2. p.settledAt \in Nat /\ q.settledAt \in Nat
    BY <1>2, <2>1
  <2>. HIDE DEF q
  <2>. QED
    BY <1>2, <2>2
<1>4. PICK c1, rt : Recovers(p, t, Settled(p, t), M, P, c1, rt)
  BY <1>3, SettledRecovers
<1>5. PICK cq, rq : Recovers(q, t, Settled(q, t), M, P, cq, rq)
  <2>1. \E cq, rq : Recovers(q, t, Settled(q, t), Level(q.xp).staminaMax, Level(q.xp).period, cq, rq)
    BY <1>2, <1>3, SettledRecovers
  <2>. QED
    BY <1>2, <2>1
<1>. DEFINE later == Settled(q, t).stamina
            direct == Settled(p, t).stamina
<1>6. /\ M \in Nat /\ P \in Nat \ {0} /\ c \in 0..M /\ cq \in 0..M /\ ru \in Nat /\ rt \in Nat /\ rq \in Nat
      /\ c = c1 /\ cq = Smaller(q.stamina, M)
      /\ ru = (u - p.settledAt) \div P /\ rt = (t - p.settledAt) \div P /\ rq = (t - q.settledAt) \div P
      /\ c >= M => q.stamina = c
      /\ c < M => q.stamina = Smaller(M, c + ru) /\ q.settledAt = p.settledAt + ru * P
      /\ c >= M => direct = c
      /\ c < M => direct = Smaller(M, c + rt)
      /\ cq >= M => later = cq
      /\ cq < M => later = Smaller(M, cq + rq)
  BY <1>1, <1>4, <1>5 DEF Recovers
<1>. HIDE DEF q, M, P, later, direct
<1>7. M \in Int /\ c \in Int /\ ru \in Int /\ rt \in Int /\ P \in Nat \ {0}
  BY <1>6
<1>8. c < M => rq = rt - ru
  <2>. SUFFICES ASSUME c < M
                PROVE  rq = rt - ru
    OBVIOUS
  <2>1. q.settledAt = p.settledAt + ru * P /\ ru * P \in Nat
    <3>1. \A a \in Nat, b \in Nat \ {0} : a * b \in Nat
      OBVIOUS
    <3>. QED
      BY <1>6, <3>1
  <2>. DEFINE gone == t - p.settledAt
              rest == t - q.settledAt
  <2>2. gone \in Int /\ rest \in Int /\ ru \in Int
    <3>1. t \in Int /\ p.settledAt \in Int /\ q.settledAt \in Int
      BY <1>3
    <3>2. gone \in Int /\ rest \in Int
      BY <3>1, SMTT(30)
    <3>. QED
      BY <1>6, <3>2
  <2>3. gone = rest + ru * P
    BY <1>3, <2>1, SMTT(30)
  <2>4. rt = gone \div P /\ rq = rest \div P
    BY <1>6
  <2>. HIDE DEF gone, rest
  <2>5. (rest + ru * P) \div P = rest \div P + ru
    BY <1>6, <2>2, QuotientAdds
  <2>. QED
    BY <1>6, <2>3, <2>4, <2>5
<1>9. ru <= rt
  <2>. DEFINE less == u - p.settledAt
              more == t - p.settledAt
  <2>1. less \in Nat /\ more \in Nat /\ less <= more
    BY <1>3, SMTT(30)
  <2>2. ru = less \div P /\ rt = more \div P
    BY <1>6
  <2>. HIDE DEF less, more
  <2>. QED
    BY <1>7, <2>1, <2>2, QuotientsOrdered
<1>10. later = direct
  <2>1. CASE c >= M
    <3>1. c = M /\ q.stamina = M
      BY <1>6, <2>1, SMTT(30)
    <3>2. cq = M
      BY <1>6, <3>1 DEF Smaller
    <3>. QED
      BY <1>6, <2>1, <3>1, <3>2
  <2>2. CASE c < M
    <3>1. q.stamina = Smaller(M, c + ru) /\ rq = rt - ru /\ direct = Smaller(M, c + rt)
      BY <1>6, <1>8, <2>2
    <3>2. CASE c + ru >= M
      <4>1. c + ru \in Int /\ c + rt \in Int /\ M <= c + ru /\ M <= c + rt /\ M \in Int
        BY <1>9, <1>7, <3>2
      <4>. DEFINE first == c + ru
                  second == c + rt
      <4>. HIDE DEF first, second
      <4>2. q.stamina = M /\ direct = M
        <5>1. Smaller(M, first) = M /\ Smaller(M, second) = M
          BY <4>1, SmallerIs DEF first, second
        <5>. QED
          BY <3>1, <5>1 DEF first, second
      <4>3. cq = M
        BY <1>6, <4>1, <4>2, SmallerIs
      <4>. QED
        BY <1>6, <4>1, <4>2, <4>3
    <3>3. CASE c + ru < M
      <4>1. q.stamina = c + ru
        BY <1>6, <3>1, <3>3 DEF Smaller
      <4>2. cq = c + ru
        BY <1>6, <3>3, <4>1 DEF Smaller
      <4>3. later = Smaller(M, cq + rq)
        BY <1>6, <3>3, <4>2
      <4>4. cq + rq = c + rt
        BY <1>6, <3>1, <4>2
      <4>. QED
        BY <3>1, <4>3, <4>4
    <3>. QED
      BY <1>6, <3>2, <3>3
  <2>. QED
    BY <1>6, <2>1, <2>2
<1>. QED
  BY <1>10 DEF later, direct, q

-----------------------------------------------------------------------------
LEMMA AmountFacts ==
  ASSUME ProgressionAssumption
  PROVE  /\ ActionCost \in Nat /\ ActionXp \in Nat /\ TaskXp \in Nat
         /\ TaskTarget \in Nat \ {0} /\ Adjustments \subseteq Int
BY DEF ProgressionAssumption

LEMMA SpendsNothing ==
  ASSUME ProgressionAssumption, NEW t \in Nat, NEW p \in ProgressRecord, p.settledAt <= t
  PROVE  Spends(p, p, 0, t)
BY DEF Spends, ProgressRecord

LEMMA ChargeSpends ==
  ASSUME ProgressionAssumption, time \in Nat, NEW p \in ProgressRecord, p.settledAt <= time,
         p.stamina >= ActionCost
  PROVE  Spends(p, Charged(p), ActionCost, time)
<1>1. ActionCost \in Nat /\ p.stamina \in Nat /\ p.settledAt \in Nat
  BY AmountFacts DEF ProgressRecord
<1>2. p.stamina - ActionCost \in Nat
  BY <1>1
<1>. DEFINE less == p.stamina - ActionCost
            r == Charged(p)
<1>3. r = [p EXCEPT !.stamina = less, !.settledAt = time]
  BY DEF Charged
<1>. HIDE DEF less, r
<1>4. /\ r \in ProgressRecord
      /\ r.xp = p.xp /\ r.day = p.day /\ r.count = p.count /\ r.awarded = p.awarded
      /\ r.stamina = less /\ r.settledAt = time
  BY <1>2, <1>3 DEF ProgressRecord, less
<1>. QED
  BY <1>1, <1>4 DEF Spends, less, r

(* What is charged is an event, too.                                       *)
LEMMA SpendsFits ==
  ASSUME ProgressionAssumption, NEW t \in Nat, NEW p \in ProgressRecord, NEW c, NEW r, Spends(p, r, c, t),
         NEW spent \in Nat, StaminaFits(p, spent),
         NEW q, q.stamina = r.stamina, q.settledAt = r.settledAt, q.xp \in Nat, q.xp >= p.xp
  PROVE  StaminaFits(q, spent + c)
<1>. DEFINE first == Levels[1].staminaMax
            before == p.settledAt \div Fastest
            after == r.settledAt \div Fastest
            old == p.stamina
            most == Level(p.xp).staminaMax
            now == Level(q.xp).staminaMax
<1>1. /\ p.xp \in Nat /\ old \in Nat /\ p.settledAt \in Nat /\ r.settledAt \in Nat
      /\ c \in Nat /\ q.stamina = old - c /\ p.settledAt <= r.settledAt
  BY DEF Spends, ProgressRecord
<1>2. first \in Nat /\ before \in Nat /\ after \in Nat /\ before <= after
  BY <1>1, LevelFacts, TimeFacts
<1>3. most \in Nat /\ now \in Nat /\ most <= now
  BY <1>1, LevelTypes
<1>4. old <= most /\ old + spent <= first + before
  BY DEF StaminaFits
<1>. HIDE DEF first, before, after, old, most, now
<1>5. old - c <= now /\ (old - c) + (spent + c) <= first + after
  BY <1>1, <1>2, <1>3, <1>4, SMTT(30)
<1>. QED
  BY <1>1, <1>5 DEF StaminaFits, first, after, now

(* An action and, when it completes one, the task: each is an event.       *)
LEMMA RewardAccounts ==
  ASSUME ProgressionAssumption, time \in Nat,
         NEW p, AccountedFor(db, p, time), p.day = DayOf(time),
         NEW c, NEW r, Spends(p, r, c, time),
         NEW x \in Sources, ~Has(db, ActionId(x))
  PROVE  AccountedFor(Apply(Apply(db, Put(ActionId(x), ActionEvent(c))), TaskEvents(p)), Rewarded(r), time)
<1>. DEFINE action == Put(ActionId(x), ActionEvent(c))
            d1 == Apply(db, action)
            d2 == Apply(d1, TaskEvents(p))
            q == Rewarded(r)
            done == TaskCompleted(p)
            gain == ActionXp + (IF done THEN TaskXp ELSE 0)
<1>1. /\ p \in ProgressRecord /\ p.settledAt <= time /\ p.day <= DayOf(time)
      /\ TasksFit(db, p.day, p.count, p.awarded)
  BY DEF AccountedFor
<1>2. /\ p.xp \in Nat /\ p.day \in Nat /\ p.count \in Nat /\ p.awarded \in BOOLEAN
      /\ ActionXp \in Nat /\ TaskXp \in Nat /\ TaskTarget \in Nat \ {0} /\ c \in Nat
      /\ p.count + 1 \in Nat
  BY <1>1, AmountFacts, SMTT(30) DEF ProgressRecord, Spends
<1>3. TaskCompleted(r) <=> done
  BY DEF TaskCompleted, Spends
<1>4. done <=> ~Has(db, TaskId(p.day)) /\ p.count + 1 >= TaskTarget
  BY <1>1 DEF TaskCompleted, TasksFit
<1>5. gain \in Nat /\ p.xp + gain \in Nat /\ p.xp + gain >= p.xp
  <2>1. gain \in Nat
    BY <1>2, SMTT(30)
  <2>. HIDE DEF gain
  <2>. QED
    BY <1>2, <2>1, SMTT(30)
<1>6. /\ q \in ProgressRecord /\ q.xp = p.xp + gain /\ q.stamina = r.stamina
      /\ q.settledAt = r.settledAt /\ q.day = p.day /\ q.count = p.count + 1
      /\ q.awarded = (p.awarded \/ p.count + 1 >= TaskTarget)
  <2>. DEFINE xp == r.xp + ActionXp + (IF TaskCompleted(r) THEN TaskXp ELSE 0)
              count == r.count + 1
              awarded == r.awarded \/ r.count + 1 >= TaskTarget
  <2>1. r \in ProgressRecord /\ r.xp = p.xp /\ r.count = p.count /\ r.awarded = p.awarded /\ r.day = p.day
    BY DEF Spends
  <2>2. xp = p.xp + gain
    BY <1>2, <1>3, <2>1, SMTT(30)
  <2>3. q = [r EXCEPT !.xp = xp, !.count = count, !.awarded = awarded]
    BY DEF Rewarded
  <2>4. count = p.count + 1 /\ awarded = (p.awarded \/ p.count + 1 >= TaskTarget) /\ awarded \in BOOLEAN
    BY <2>1
  <2>5. xp \in Nat /\ count \in Nat
    BY <1>2, <1>5, <2>2, <2>4
  <2>. HIDE DEF xp, count, awarded, q, gain
  <2>6. /\ q \in ProgressRecord /\ q.xp = xp /\ q.count = count
        /\ q.stamina = r.stamina /\ q.settledAt = r.settledAt /\ q.day = r.day
    BY <2>1, <2>3, <2>4, <2>5 DEF ProgressRecord
  <2>7. q.awarded = awarded
    BY <2>1, <2>3 DEF ProgressRecord
  <2>. QED
    BY <2>1, <2>2, <2>4, <2>6, <2>7
<1>7. PICK spent \in Nat : LedgerSums(db, p.xp, spent) /\ StaminaFits(p, spent)
  BY DEF AccountedFor
<1>8. /\ \A id : Has(d1, id) <=> Has(db, id) \/ id = ActionId(x)
      /\ d1[ActionId(x)] = ActionEvent(c)
      /\ \A id : Has(db, id) => d1[id] = db[id]
  BY OneDocument, ApplyFacts, SMTT(30)
<1>9. LedgerGrows(db, d1, ActionId(x))
  BY <1>8, EventIds DEF LedgerGrows, EventKinds
<1>10. /\ \A id : Has(d2, id) <=> Has(d1, id) \/ (done /\ id = TaskId(p.day))
       /\ \A id : Has(d1, id) => d2[id] = d1[id]
       /\ done => d2[TaskId(p.day)] = Event(TaskXp, 0) /\ ~Has(d1, TaskId(p.day))
  <2>1. \A id : Has(TaskEvents(p), id) <=> done /\ id = TaskId(p.day)
    BY OneDocument, NoDocument DEF TaskEvents
  <2>2. done => TaskEvents(p)[TaskId(p.day)] = Event(TaskXp, 0)
    BY OneDocument DEF TaskEvents
  <2>3. done => ~Has(d1, TaskId(p.day))
    BY <1>4, <1>8, EventIds
  <2>4. /\ \A id : Has(d2, id) <=> Has(d1, id) \/ Has(TaskEvents(p), id)
        /\ \A id : Has(TaskEvents(p), id) => d2[id] = TaskEvents(p)[id]
        /\ \A id : Has(d1, id) /\ ~Has(TaskEvents(p), id) => d2[id] = d1[id]
    BY ApplyFacts
  <2>. HIDE DEF d1, d2, done
  <2>5. \A id : Has(d2, id) <=> Has(d1, id) \/ (done /\ id = TaskId(p.day))
    BY <2>1, <2>4
  <2>6. \A id : Has(d1, id) => d2[id] = d1[id]
    BY <2>1, <2>3, <2>4
  <2>7. done => d2[TaskId(p.day)] = Event(TaskXp, 0)
    BY <2>1, <2>2, <2>4
  <2>. QED
    BY <2>3, <2>5, <2>6, <2>7
<1>. HIDE DEF d1, d2, done, q, action
<1>11. LedgerSums(d1, p.xp + ActionXp, spent + c)
  <2>1. d1[ActionId(x)].xp = ActionXp /\ d1[ActionId(x)].cost = c
    BY <1>8 DEF ActionEvent
  <2>2. LedgerSums(d1, p.xp + d1[ActionId(x)].xp, spent + d1[ActionId(x)].cost)
    <3>1. d1[ActionId(x)].xp \in Int /\ d1[ActionId(x)].cost \in Nat
      BY <1>2, <2>1
    <3>. QED
      BY <1>7, <1>9, <3>1, LedgerGrowsSums
  <2>. QED
    BY <2>1, <2>2
<1>12. LedgerSums(d2, p.xp + gain, spent + c)
  <2>1. CASE done
    <3>1. LedgerGrows(d1, d2, TaskId(p.day))
      BY <1>10, <2>1, EventIds DEF LedgerGrows, EventKinds
    <3>2. d2[TaskId(p.day)].xp = TaskXp /\ d2[TaskId(p.day)].cost = 0
      BY <1>10, <2>1 DEF Event
    <3>3. LedgerSums(d2, (p.xp + ActionXp) + d2[TaskId(p.day)].xp, (spent + c) + d2[TaskId(p.day)].cost)
      <4>1. d2[TaskId(p.day)].xp \in Int /\ d2[TaskId(p.day)].cost \in Nat
        BY <1>2, <3>2
      <4>. QED
        BY <1>11, <3>1, <4>1, LedgerGrowsSums
    <3>4. (p.xp + ActionXp) + TaskXp = p.xp + gain /\ (spent + c) + 0 = spent + c
      BY <1>2, <2>1, SMTT(30)
    <3>. QED
      BY <3>2, <3>3, <3>4
  <2>2. CASE ~done
    <3>1. SameLedger(d1, d2)
      BY <1>10, <2>2 DEF SameLedger
    <3>2. p.xp + ActionXp = p.xp + gain
      BY <1>2, <2>2
    <3>. QED
      BY <1>11, <3>1, <3>2, SameLedgerSums
  <2>. QED
    BY <2>1, <2>2
<1>. HIDE DEF gain
<1>13. StaminaFits(q, spent + c) /\ spent + c \in Nat
  <2>1. q.stamina = r.stamina /\ q.settledAt = r.settledAt /\ q.xp \in Nat /\ q.xp >= p.xp
    BY <1>5, <1>6
  <2>2. StaminaFits(q, spent + c)
    BY <1>1, <1>7, <2>1, SpendsFits
  <2>. QED
    BY <1>2, <1>7, <2>2
<1>14. TasksFit(d2, q.day, q.count, q.awarded)
  <2>1. \A y : Has(d2, ActionId(y)) <=> Has(db, ActionId(y)) \/ y = x
    <3>1. \A y : ActionId(y) # TaskId(p.day) /\ (ActionId(y) = ActionId(x) <=> y = x)
      BY EventIds
    <3>2. \A y : Has(d2, ActionId(y)) <=> Has(d1, ActionId(y))
      BY <1>10, <3>1
    <3>. QED
      BY <1>8, <3>1, <3>2
  <2>2. \A y : Has(db, ActionId(y)) => d2[ActionId(y)] = db[ActionId(y)]
    BY <1>8, <1>10
  <2>3. d2[ActionId(x)].day = p.day
    BY <1>8, <1>10 DEF ActionEvent
  <2>4. \A y \in Nat : Has(d2, TaskId(y)) <=> Has(db, TaskId(y)) \/ (y = p.day /\ p.count + 1 >= TaskTarget)
    <3>1. \A y : TaskId(y) # ActionId(x) /\ (TaskId(y) = TaskId(p.day) <=> y = p.day)
      BY EventIds
    <3>2. \A y : Has(d1, TaskId(y)) <=> Has(db, TaskId(y))
      BY <1>8, <3>1
    <3>3. \A y : Has(d2, TaskId(y)) <=> Has(db, TaskId(y)) \/ (done /\ y = p.day)
      BY <1>10, <3>1, <3>2
    <3>4. \A y : y = p.day => (done <=> ~Has(db, TaskId(y)) /\ p.count + 1 >= TaskTarget)
      BY <1>4
    <3>. DEFINE full == p.count + 1 >= TaskTarget
    <3>. HIDE DEF full
    <3>. QED
      BY <3>3, <3>4 DEF full
  <2>5. TasksFit(d2, p.day, p.count + 1, p.awarded \/ p.count + 1 >= TaskTarget)
    BY <1>1, <1>2, <2>1, <2>2, <2>3, <2>4, TasksGrow
  <2>. QED
    BY <1>6, <2>5
<1>15. q.settledAt <= time /\ q.day <= DayOf(time)
  BY <1>1, <1>6 DEF Spends
<1>16. AccountedFor(d2, q, time)
  BY <1>6, <1>12, <1>13, <1>14, <1>15 DEF AccountedFor
<1>. QED
  BY <1>16 DEF d2, d1, q, action

-----------------------------------------------------------------------------
(* A charge or an adjustment leaves the tasks alone.                       *)
LEMMA OtherEventTasks ==
  ASSUME NEW d, NEW e, NEW new, LedgerGrows(d, e, new), new[1] \in {"charge", "adjustment"},
         NEW day, NEW count, NEW awarded, TasksFit(d, day, count, awarded)
  PROVE  TasksFit(e, day, count, awarded)
<1>1. \A x : ActionId(x) # new /\ TaskId(x) # new
  BY EventIds
<1>2. \A x : ActionId(x)[1] \in EventKinds /\ TaskId(x)[1] \in EventKinds
  BY EventIds DEF EventKinds
<1>3. \A x : /\ Has(e, ActionId(x)) <=> Has(d, ActionId(x))
             /\ Has(d, ActionId(x)) => e[ActionId(x)] = d[ActionId(x)]
             /\ Has(e, TaskId(x)) <=> Has(d, TaskId(x))
  BY <1>1, <1>2 DEF LedgerGrows
<1>4. \A other : RewardedOn(e, other) = RewardedOn(d, other)
  BY <1>3 DEF RewardedOn
<1>. QED
  BY <1>3, <1>4 DEF TasksFit

LEMMA NewEvent ==
  ASSUME NEW new, new[1] \in EventKinds, ~Has(db, new), NEW xp, NEW cost
  PROVE  LET e == Apply(db, Put(new, Event(xp, cost)))
         IN  LedgerGrows(db, e, new) /\ e[new].xp = xp /\ e[new].cost = cost
<1>. DEFINE w == Put(new, Event(xp, cost))
            e == Apply(db, w)
<1>1. (\A id : Has(w, id) <=> id = new) /\ w[new] = Event(xp, cost)
  BY OneDocument
<1>. HIDE DEF w
<1>2. /\ \A id : Has(e, id) <=> Has(db, id) \/ id = new
      /\ e[new] = Event(xp, cost)
      /\ \A id : Has(db, id) => e[id] = db[id]
  BY <1>1, ApplyFacts
<1>. HIDE DEF e
<1>3. LedgerGrows(db, e, new) /\ e[new].xp = xp /\ e[new].cost = cost
  BY <1>2 DEF LedgerGrows, Event
<1>. QED
  BY <1>3 DEF e, w

LEMMA ChargeAccounts ==
  ASSUME ProgressionAssumption, time \in Nat,
         NEW p, AccountedFor(db, p, time), p.stamina >= ActionCost,
         NEW x, ~Has(db, ChargeId(x))
  PROVE  AccountedFor(Apply(db, Put(ChargeId(x), Event(0, ActionCost))), Charged(p), time)
<1>. DEFINE e == Apply(db, Put(ChargeId(x), Event(0, ActionCost)))
            q == Charged(p)
<1>1. /\ p \in ProgressRecord /\ p.settledAt <= time /\ p.day <= DayOf(time)
      /\ TasksFit(db, p.day, p.count, p.awarded)
  BY DEF AccountedFor
<1>2. Spends(p, q, ActionCost, time)
  BY <1>1, ChargeSpends
<1>3. PICK spent \in Nat : LedgerSums(db, p.xp, spent) /\ StaminaFits(p, spent)
  BY DEF AccountedFor
<1>4. ChargeId(x)[1] = "charge" /\ "charge" \in EventKinds
  BY EventIds DEF EventKinds
<1>5. LedgerGrows(db, e, ChargeId(x)) /\ e[ChargeId(x)].xp = 0 /\ e[ChargeId(x)].cost = ActionCost
  BY <1>4, NewEvent
<1>. HIDE DEF e, q
<1>6. ActionCost \in Nat /\ p.xp \in Nat
  BY <1>1, AmountFacts DEF ProgressRecord
<1>7. LedgerSums(e, p.xp + 0, spent + ActionCost)
  <2>1. e[ChargeId(x)].xp \in Int /\ e[ChargeId(x)].cost \in Nat
    BY <1>5, <1>6
  <2>2. LedgerSums(e, p.xp + e[ChargeId(x)].xp, spent + e[ChargeId(x)].cost)
    BY <1>3, <1>5, <2>1, LedgerGrowsSums
  <2>. QED
    BY <1>5, <2>2
<1>8. /\ q \in ProgressRecord /\ q.xp = p.xp /\ q.xp \in Nat /\ q.xp >= p.xp /\ p.xp + 0 = q.xp
      /\ q.day = p.day /\ q.count = p.count /\ q.awarded = p.awarded /\ q.settledAt <= time
  BY <1>2, <1>6 DEF Spends
<1>9. StaminaFits(q, spent + ActionCost) /\ spent + ActionCost \in Nat
  <2>1. StaminaFits(q, spent + ActionCost)
    BY <1>1, <1>2, <1>3, <1>8, SpendsFits
  <2>. QED
    BY <1>3, <1>6, <2>1
<1>10. TasksFit(e, q.day, q.count, q.awarded)
  BY <1>1, <1>4, <1>5, <1>8, OtherEventTasks
<1>11. AccountedFor(e, q, time)
  BY <1>1, <1>7, <1>8, <1>9, <1>10 DEF AccountedFor
<1>. QED
  BY <1>11 DEF e, q

(* A penalty takes no more experience than there is, and that is what the  *)
(* ledger says.                                                            *)
LEMMA AdjustmentAccounts ==
  ASSUME ProgressionAssumption, time \in Nat,
         NEW p, AccountedFor(db, p, time),
         NEW delta \in Int, ~Has(db, AdjustmentId(delta))
  PROVE  LET xp == Larger(0, p.xp + delta)
         IN  AccountedFor(Apply(db, Put(AdjustmentId(delta), Event(AppliedDelta(p.xp, delta), 0))),
                      [p EXCEPT !.xp = xp, !.stamina = Clamped(@, xp)], time)
<1>. DEFINE xp == Larger(0, p.xp + delta)
            change == AppliedDelta(p.xp, delta)
            e == Apply(db, Put(AdjustmentId(delta), Event(change, 0)))
            less == Clamped(p.stamina, xp)
            q == [p EXCEPT !.xp = xp, !.stamina = less]
<1>1. /\ p \in ProgressRecord /\ p.settledAt <= time /\ p.day <= DayOf(time)
      /\ TasksFit(db, p.day, p.count, p.awarded)
  BY DEF AccountedFor
<1>2. p.xp \in Nat /\ p.stamina \in Nat /\ p.settledAt \in Nat
  BY <1>1 DEF ProgressRecord
<1>3. xp \in Nat /\ change \in Int /\ p.xp + change = xp
  <2>. DEFINE sum == p.xp + delta
  <2>1. sum \in Int
    BY <1>2
  <2>. HIDE DEF sum
  <2>2. Larger(0, sum) \in Nat
    BY <2>1 DEF Larger
  <2>3. change = xp - p.xp
    BY DEF AppliedDelta
  <2>4. xp \in Nat
    BY <2>2 DEF sum
  <2>. DEFINE old == p.xp
  <2>5. old \in Nat
    BY <1>2
  <2>. HIDE DEF xp, change, old
  <2>6. change = xp - old
    BY <2>3 DEF old
  <2>7. change \in Int /\ old + change = xp
    BY <2>4, <2>5, <2>6
  <2>. QED
    BY <2>4, <2>7 DEF old
<1>4. PICK spent \in Nat : LedgerSums(db, p.xp, spent) /\ StaminaFits(p, spent)
  BY DEF AccountedFor
<1>5. AdjustmentId(delta)[1] = "adjustment" /\ "adjustment" \in EventKinds
  BY EventIds DEF EventKinds
<1>6. /\ LedgerGrows(db, e, AdjustmentId(delta))
      /\ e[AdjustmentId(delta)].xp = change /\ e[AdjustmentId(delta)].cost = 0
  BY <1>5, NewEvent
<1>. HIDE DEF e, xp, change
<1>7. less \in Nat /\ less <= p.stamina /\ less <= Level(xp).staminaMax
  <2>1. Level(xp).staminaMax \in Nat
    BY <1>3, LevelTypes
  <2>. QED
    BY <1>2, <2>1, SMTT(30) DEF Clamped, Smaller
<1>. HIDE DEF less
<1>8. /\ q \in ProgressRecord /\ q.xp = xp /\ q.stamina = less /\ q.settledAt = p.settledAt
      /\ q.day = p.day /\ q.count = p.count /\ q.awarded = p.awarded
  BY <1>1, <1>3, <1>7 DEF ProgressRecord
<1>. HIDE DEF q
<1>9. LedgerSums(e, xp, spent)
  <2>1. e[AdjustmentId(delta)].xp \in Int /\ e[AdjustmentId(delta)].cost \in Nat
    BY <1>3, <1>6
  <2>2. LedgerSums(e, p.xp + e[AdjustmentId(delta)].xp, spent + e[AdjustmentId(delta)].cost)
    BY <1>4, <1>6, <2>1, LedgerGrowsSums
  <2>3. spent + 0 = spent
    BY <1>4
  <2>. QED
    BY <1>3, <1>6, <2>2, <2>3
<1>10. StaminaFits(q, spent)
  <2>. DEFINE most == Level(xp).staminaMax
              first == Levels[1].staminaMax
              before == p.settledAt \div Fastest
  <2>1. first \in Nat /\ before \in Nat
    BY <1>2, LevelFacts, TimeFacts
  <2>2. p.stamina + spent <= first + before
    BY <1>4 DEF StaminaFits
  <2>. HIDE DEF first, before
  <2>3. less + spent <= first + before
    BY <1>2, <1>4, <1>7, <2>1, <2>2, SMTT(30)
  <2>. QED
    BY <1>7, <1>8, <2>3 DEF StaminaFits, first, before
<1>11. q.settledAt <= time /\ q.day <= DayOf(time)
  BY <1>1, <1>8
<1>12. TasksFit(e, q.day, q.count, q.awarded)
  BY <1>1, <1>5, <1>6, <1>8, OtherEventTasks
<1>13. AccountedFor(e, q, time)
  BY <1>4, <1>8, <1>9, <1>10, <1>11, <1>12 DEF AccountedFor
<1>. QED
  BY <1>13 DEF e, q, less, xp, change

LEMMA AwaitedAccounts ==
  ASSUME ProgressionAssumption, ProgressInvariant, NEW now \in 0..time
  PROVE  AccountedFor(db, Awaited(now), time)
<1>1. CASE Has(db, Progress)
  BY <1>1 DEF ProgressInvariant, ProgressIn, Awaited
<1>2. CASE ~Has(db, Progress)
  <2>1. LedgerIn(db) = {} /\ now \in Nat /\ time \in Nat /\ now <= time
    BY <1>2 DEF ProgressInvariant, ProgressIn
  <2>2. AccountedFor(db, NewProgress(now), time)
    BY <2>1, NewAccounts, AccountsLater
  <2>. QED
    BY <1>2, <2>2 DEF Awaited
<1>. QED
  BY <1>1, <1>2

LEMMA CurrentAccounts ==
  ASSUME ProgressionAssumption, ProgressInvariant, NEW now \in 0..time
  PROVE  AccountedFor(db, Current(now), time) /\ Current(now).day = DayOf(now)
<1>1. time \in Nat
  BY DEF ProgressInvariant
<1>2. AccountedFor(db, Awaited(now), time)
  BY AwaitedAccounts
<1>. DEFINE old == Awaited(now)
<1>3. Current(now) = Settled(OnDay(old, now), now)
  BY DEF Current
<1>. HIDE DEF old
<1>. QED
  BY <1>1, <1>2, <1>3, SettledLate DEF old

(* The progress and the events that account for it are written together.   *)
LEMMA WritesFit ==
  ASSUME NEW q, NEW events, ~Has(events, Progress), AccountedFor(Apply(db, events), q, time)
  PROVE  LET w == Apply(Put(Progress, q), events)
         IN  Has(w, Progress) /\ ProgressIn(Apply(db, w), time)
<1>. DEFINE p == Put(Progress, q)
            w == Apply(p, events)
            d == Apply(db, events)
            e == Apply(db, w)
<1>1. (\A id : Has(p, id) <=> id = Progress) /\ p[Progress] = q
  BY OneDocument
<1>. HIDE DEF p
<1>2. /\ \A id : Has(w, id) <=> id = Progress \/ Has(events, id)
      /\ w[Progress] = q /\ \A id : Has(events, id) => w[id] = events[id]
  BY <1>1, ApplyFacts
<1>. HIDE DEF w
<1>3. /\ \A id : Has(e, id) <=> Has(db, id) \/ id = Progress \/ Has(events, id)
      /\ e[Progress] = q /\ \A id : Has(events, id) => e[id] = events[id]
      /\ \A id : Has(db, id) /\ ~Has(events, id) /\ id # Progress => e[id] = db[id]
  BY <1>2, ApplyFacts
<1>4. /\ \A id : Has(d, id) <=> Has(db, id) \/ Has(events, id)
      /\ \A id : Has(events, id) => d[id] = events[id]
      /\ \A id : Has(db, id) /\ ~Has(events, id) => d[id] = db[id]
  BY ApplyFacts
<1>. HIDE DEF d, e
<1>5. SameLedger(d, e)
  BY <1>3, <1>4, EventIds DEF SameLedger
<1>6. AccountedFor(e, q, time)
  BY <1>5, SameLedgerAccounts DEF d
<1>7. Has(w, Progress) /\ ProgressIn(e, time)
  BY <1>2, <1>3, <1>6 DEF ProgressIn
<1>. QED
  BY <1>7 DEF w, e, p

LEMMA ProgressWritten ==
  ASSUME NEW q, AccountedFor(db, q, time)
  PROVE  Has(Put(Progress, q), Progress) /\ ProgressIn(Apply(db, Put(Progress, q)), time)
<1>. DEFINE w == Put(Progress, q)
            e == Apply(db, w)
<1>1. (\A id : Has(w, id) <=> id = Progress) /\ w[Progress] = q
  BY OneDocument
<1>. HIDE DEF w
<1>2. /\ \A id : Has(e, id) <=> Has(db, id) \/ id = Progress
      /\ e[Progress] = q
      /\ \A id : Has(db, id) /\ id # Progress => e[id] = db[id]
  BY <1>1, ApplyFacts
<1>. HIDE DEF e
<1>3. SameLedger(db, e)
  BY <1>2, EventIds DEF SameLedger
<1>4. AccountedFor(e, q, time)
  BY <1>3, SameLedgerAccounts
<1>5. Has(w, Progress) /\ ProgressIn(e, time)
  BY <1>1, <1>2, <1>4 DEF ProgressIn
<1>. QED
  BY <1>5 DEF w, e

LEMMA ApplyTwice ==
  ASSUME NEW d, NEW v, NEW w
  PROVE  Apply(d, Apply(v, w)) = Apply(Apply(d, v), w)
BY DEF Apply

LEMMA RewardWritten ==
  ASSUME ProgressionAssumption, time \in Nat,
         NEW p, AccountedFor(db, p, time), p.day = DayOf(time),
         NEW c, NEW r, Spends(p, r, c, time),
         NEW x \in Sources, ~Has(db, ActionId(x))
  PROVE  LET w == Apply(Put(Progress, Rewarded(r)),
                        Apply(Put(ActionId(x), ActionEvent(c)), TaskEvents(p)))
         IN  Has(w, Progress) /\ ProgressIn(Apply(db, w), time)
<1>. DEFINE action == Put(ActionId(x), ActionEvent(c))
            events == Apply(action, TaskEvents(p))
<1>1. AccountedFor(Apply(Apply(db, action), TaskEvents(p)), Rewarded(r), time)
  BY RewardAccounts
<1>2. AccountedFor(Apply(db, events), Rewarded(r), time)
  BY <1>1, ApplyTwice
<1>3. \A id : Has(action, id) <=> id = ActionId(x)
  BY OneDocument
<1>4. \A id : Has(TaskEvents(p), id) => id = TaskId(p.day)
  BY OneDocument, NoDocument DEF TaskEvents
<1>5. Progress # ActionId(x) /\ Progress # TaskId(p.day)
  BY EventIds DEF EventKinds
<1>. HIDE DEF action
<1>6. ~Has(events, Progress)
  BY <1>3, <1>4, <1>5, ApplyFacts
<1>. HIDE DEF events
<1>7. LET w == Apply(Put(Progress, Rewarded(r)), events)
      IN  Has(w, Progress) /\ ProgressIn(Apply(db, w), time)
  BY <1>2, <1>6, WritesFit
<1>. QED
  BY <1>7 DEF events, action

(* Every operation writes the progress as the events account for it.       *)
LEMMA OperationsFit ==
  ASSUME ProgressionAssumption, ProgressInvariant, NEW s \in Sessions,
         \/ \E now \in 0..time :
              ReadProgress(s, now) \/ \E delta \in Adjustments : AdjustXp(s, delta, now)
         \/ \E x \in Sources : ApplyAction(s, x) \/ ChargeAction(s, x) \/ CompleteAction(s, x)
  PROVE  \E w : OpenTxn(s, w) /\ Has(w, Progress) /\ ProgressIn(Apply(db, w), time)
<1>. DEFINE p == Current(time)
<1>1. time \in Nat
  BY DEF ProgressInvariant
<1>2. AccountedFor(db, p, time) /\ p.day = DayOf(time)
  BY <1>1, CurrentAccounts
<1>. HIDE DEF p
<1>3. p \in ProgressRecord /\ p.settledAt <= time
  BY <1>2 DEF AccountedFor
<1>4. ASSUME NEW now \in 0..time, ReadProgress(s, now)
      PROVE  \E w : OpenTxn(s, w) /\ Has(w, Progress) /\ ProgressIn(Apply(db, w), time)
  <2>1. OpenTxn(s, Put(Progress, Current(now)))
    BY <1>4 DEF ReadProgress, SaveIfChanged
  <2>2. AccountedFor(db, Current(now), time)
    BY CurrentAccounts
  <2>. QED
    BY <2>1, <2>2, ProgressWritten
<1>5. ASSUME NEW x \in Sources, ApplyAction(s, x)
      PROVE  \E w : OpenTxn(s, w) /\ Has(w, Progress) /\ ProgressIn(Apply(db, w), time)
  <2>. DEFINE w == Apply(Put(Progress, Rewarded(Charged(p))),
                         Apply(Put(ActionId(x), ActionEvent(ActionCost)), TaskEvents(p)))
  <2>1. ~Has(db, ActionId(x)) /\ p.stamina >= ActionCost /\ OpenTxn(s, w)
    BY <1>5 DEF ApplyAction, p
  <2>2. Spends(p, Charged(p), ActionCost, time)
    BY <1>1, <1>3, <2>1, ChargeSpends
  <2>3. Has(w, Progress) /\ ProgressIn(Apply(db, w), time)
    BY <1>1, <1>2, <2>1, <2>2, RewardWritten
  <2>. HIDE DEF w
  <2>. QED
    BY <2>1, <2>3
<1>6. ASSUME NEW x \in Sources, ChargeAction(s, x)
      PROVE  \E w : OpenTxn(s, w) /\ Has(w, Progress) /\ ProgressIn(Apply(db, w), time)
  <2>. DEFINE event == Put(ChargeId(x), Event(0, ActionCost))
              w == Apply(Put(Progress, Charged(p)), event)
  <2>1. ~Has(db, ChargeId(x)) /\ p.stamina >= ActionCost /\ OpenTxn(s, w)
    BY <1>6 DEF ChargeAction, p
  <2>2. AccountedFor(Apply(db, event), Charged(p), time)
    BY <1>1, <1>2, <2>1, ChargeAccounts
  <2>3. ~Has(event, Progress)
    BY OneDocument, EventIds DEF EventKinds
  <2>. HIDE DEF event
  <2>4. Has(w, Progress) /\ ProgressIn(Apply(db, w), time)
    BY <2>2, <2>3, WritesFit
  <2>. HIDE DEF w
  <2>. QED
    BY <2>1, <2>4
<1>7. ASSUME NEW x \in Sources, CompleteAction(s, x)
      PROVE  \E w : OpenTxn(s, w) /\ Has(w, Progress) /\ ProgressIn(Apply(db, w), time)
  <2>. DEFINE w == Apply(Put(Progress, Rewarded(p)),
                         Apply(Put(ActionId(x), ActionEvent(0)), TaskEvents(p)))
  <2>1. ~Has(db, ActionId(x)) /\ OpenTxn(s, w)
    BY <1>7 DEF CompleteAction, Awaiting, p
  <2>2. Spends(p, p, 0, time)
    BY <1>1, <1>3, SpendsNothing
  <2>3. Has(w, Progress) /\ ProgressIn(Apply(db, w), time)
    BY <1>1, <1>2, <2>1, <2>2, RewardWritten
  <2>. HIDE DEF w
  <2>. QED
    BY <2>1, <2>3
<1>8. ASSUME NEW now \in 0..time, NEW delta \in Adjustments, AdjustXp(s, delta, now)
      PROVE  \E w : OpenTxn(s, w) /\ Has(w, Progress) /\ ProgressIn(Apply(db, w), time)
  <2>. DEFINE old == Awaited(now)
              xp == Larger(0, old.xp + delta)
              q == [old EXCEPT !.xp = xp, !.stamina = Clamped(@, xp)]
              event == Put(AdjustmentId(delta), Event(AppliedDelta(old.xp, delta), 0))
              w == Apply(Put(Progress, q), event)
  <2>1. ~Has(db, AdjustmentId(delta)) /\ OpenTxn(s, w)
    BY <1>8 DEF AdjustXp
  <2>2. AccountedFor(db, old, time) /\ delta \in Int
    BY AwaitedAccounts, AmountFacts
  <2>. HIDE DEF old
  <2>3. AccountedFor(Apply(db, event), q, time)
    BY <1>1, <2>1, <2>2, AdjustmentAccounts
  <2>4. ~Has(event, Progress)
    BY OneDocument, EventIds DEF EventKinds
  <2>. HIDE DEF event, q
  <2>5. Has(w, Progress) /\ ProgressIn(Apply(db, w), time)
    BY <2>3, <2>4, WritesFit
  <2>. HIDE DEF w
  <2>. QED
    BY <2>1, <2>5
<1>. QED
  BY <1>4, <1>5, <1>6, <1>7, <1>8

LEMMA ProgressStep ==
  ASSUME ProgressionAssumption, ProgressInvariant, [ProgressionNext]_progressionVars
  PROVE  ProgressInvariant'
<1>1. /\ TxnShape /\ time \in Nat /\ ProgressIn(db, time)
      /\ \A s \in Sessions : txn[s].open =>
           Has(txn[s].writes, Progress) /\ ProgressIn(Apply(db, txn[s].writes), time)
  BY DEF ProgressInvariant
<1>2. CASE UNCHANGED progressionVars
  BY <1>1, <1>2 DEF progressionVars, ProgressInvariant, TxnShape
<1>3. CASE TimePasses
  <2>1. db' = db /\ txn' = txn /\ time' = time + 1
    BY <1>3 DEF TimePasses
  <2>2. \A d : ProgressIn(d, time) => ProgressIn(d, time + 1)
    <3>1. time + 1 \in Nat /\ time <= time + 1
      BY <1>1
    <3>. QED
      BY <1>1, <3>1, AccountsLater DEF ProgressIn
  <2>3. /\ TxnShape /\ time + 1 \in Nat /\ ProgressIn(db, time + 1)
        /\ \A s \in Sessions : txn[s].open =>
             Has(txn[s].writes, Progress) /\ ProgressIn(Apply(db, txn[s].writes), time + 1)
    BY <1>1, <2>2
  <2>. QED
    BY <2>1, <2>3 DEF ProgressInvariant, TxnShape
<1>4. ASSUME time' = time, NEW s \in Sessions, NEW w, OpenTxn(s, w),
             Has(w, Progress), ProgressIn(Apply(db, w), time)
      PROVE  ProgressInvariant'
  <2>1. /\ db' = db /\ TxnShape'
        /\ \A u \in Sessions : txn'[u].open =>
             \/ txn'[u].writes = w
             \/ txn[u].open /\ txn'[u].writes = txn[u].writes
    BY <1>1, <1>4, OpenEffect
  <2>2. \A u \in Sessions : txn'[u].open =>
          Has(txn'[u].writes, Progress) /\ ProgressIn(Apply(db, txn'[u].writes), time)
    BY <1>1, <1>4, <2>1
  <2>. QED
    BY <1>1, <1>4, <2>1, <2>2 DEF ProgressInvariant
<1>5. ASSUME time' = time, NEW s \in Sessions, CommitTxn(s)
      PROVE  ProgressInvariant'
  <2>1. /\ txn[s].open /\ db' = Apply(db, txn[s].writes) /\ TxnShape'
        /\ \A u \in Sessions : txn'[u].open =>
             txn[u].open /\ Apart(txn[u].writes, txn[s].writes)
    BY <1>1, <1>5, CommitEffect
  <2>2. \A u \in Sessions : ~txn'[u].open
    BY <1>1, <2>1 DEF Apart
  <2>3. ProgressIn(db', time)
    BY <1>1, <2>1
  <2>. QED
    BY <1>1, <1>5, <2>1, <2>2, <2>3 DEF ProgressInvariant
<1>6. ASSUME time' = time, NEW s \in Sessions, AbortTxn(s)
      PROVE  ProgressInvariant'
  <2>1. /\ db' = db /\ TxnShape'
        /\ \A u \in Sessions : txn'[u].open => txn[u].open /\ txn'[u].writes = txn[u].writes
    BY <1>1, <1>6, AbortEffect
  <2>2. \A u \in Sessions : txn'[u].open =>
          Has(txn'[u].writes, Progress) /\ ProgressIn(Apply(db, txn'[u].writes), time)
    BY <1>1, <2>1
  <2>. QED
    BY <1>1, <1>6, <2>1, <2>2 DEF ProgressInvariant
<1>7. ASSUME time' = time, NEW s \in Sessions,
             \/ \E now \in 0..time :
                  ReadProgress(s, now) \/ \E delta \in Adjustments : AdjustXp(s, delta, now)
             \/ \E x \in Sources : ApplyAction(s, x) \/ ChargeAction(s, x) \/ CompleteAction(s, x)
      PROVE  ProgressInvariant'
  <2>1. PICK w : OpenTxn(s, w) /\ Has(w, Progress) /\ ProgressIn(Apply(db, w), time)
    BY <1>7, OperationsFit
  <2>. QED
    BY <1>4, <1>7, <2>1
<1>. QED
  BY <1>2, <1>3, <1>5, <1>6, <1>7 DEF ProgressionNext

-----------------------------------------------------------------------------
LEMMA NoTasksYet ==
  ASSUME LedgerIn(db) = {}
  PROVE  \A day : ~Has(db, TaskId(day))
<1>1. \A id : id[1] \in EventKinds => ~Has(db, id)
  BY DEF LedgerIn, Has
<1>. QED
  BY <1>1, EventIds DEF EventKinds

LEMMA AccountsHold ==
  ASSUME ProgressionAssumption, ProgressInvariant
  PROVE  ProgressTypeOK /\ ProgressIsAccounted
<1>1. CASE ~Has(db, Progress)
  <2>1. \A day : ~Has(db, TaskId(day))
    BY <1>1, NoTasksYet DEF ProgressInvariant, ProgressIn
  <2>. QED
    BY <1>1, <2>1 DEF ProgressTypeOK, ProgressIsAccounted, LedgerBalances, TasksAreEarned,
                      StaminaIsEarned, LookingIsFree
<1>2. CASE Has(db, Progress)
  <2>. DEFINE p == db[Progress]
  <2>1. AccountedFor(db, p, time) /\ time \in Nat
    BY <1>2 DEF ProgressInvariant, ProgressIn
  <2>. HIDE DEF p
  <2>2. /\ p \in ProgressRecord /\ p.settledAt <= time /\ p.day <= DayOf(time)
        /\ TasksFit(db, p.day, p.count, p.awarded)
    BY <2>1 DEF AccountedFor
  <2>3. PICK spent \in Nat : LedgerSums(db, p.xp, spent) /\ StaminaFits(p, spent)
    BY <2>1 DEF AccountedFor
  <2>4. LedgerEvents = LedgerIn(db)
    BY DEF LedgerEvents, LedgerIn, EventKinds
  <2>5. \A f : SumOver(f) = SumOf(f, LedgerEvents)
    BY DEF SumOver, SumOf
  <2>6. LedgerBalances
    BY <2>3, <2>4, <2>5 DEF LedgerBalances, LedgerSums, XpIn, p
  <2>7. StaminaIsEarned
    BY <2>3, <2>4, <2>5 DEF StaminaIsEarned, LedgerSums, CostIn, StaminaFits, Fastest, p
  <2>8. TasksAreEarned
    <3>1. \A day : ActionsOn(day) = RewardedOn(db, day)
      BY DEF ActionsOn, RewardedOn
    <3>2. \A day \in 0..DayOf(time) : day \in Nat
      BY <2>1, TimeFacts
    <3>. QED
      BY <2>2, <3>1, <3>2 DEF TasksAreEarned, TasksFit, p
  <2>9. LookingIsFree
    <3>. SUFFICES ASSUME NEW now \in 0..time, NEW t \in time..MaxTime + 2
                  PROVE  Settled(Settled(p, now), t).stamina = Settled(p, t).stamina
      BY DEF LookingIsFree, p
    <3>1. MaxTime \in Nat
      BY DEF ProgressionAssumption
    <3>2. t \in Nat /\ now \in Nat /\ now <= t /\ p.settledAt \in Nat
      BY <2>1, <2>2, <3>1 DEF ProgressRecord
    <3>3. CASE p.settledAt <= now
      BY <2>2, <3>2, <3>3, SettledTwice
    <3>4. CASE now <= p.settledAt
      <4>1. p.stamina <= Level(p.xp).staminaMax
        BY <2>3 DEF StaminaFits
      <4>2. Settled(p, now) = p
        BY <2>2, <3>2, <3>4, <4>1, SettledEarly
      <4>. QED
        BY <4>2
    <3>. QED
      BY <3>2, <3>3, <3>4
  <2>10. ProgressTypeOK
    <3>1. p.stamina \in Nat /\ p.stamina <= Level(p.xp).staminaMax /\ Level(p.xp).staminaMax \in Nat
      BY <2>2, <2>3, LevelTypes DEF StaminaFits, ProgressRecord
    <3>2. p.stamina \in 0..Level(p.xp).staminaMax
      BY <3>1
    <3>. QED
      BY <2>2, <3>2 DEF ProgressTypeOK, ProgressRecord, p
  <2>. QED
    BY <2>6, <2>7, <2>8, <2>9, <2>10 DEF ProgressIsAccounted
<1>. QED
  BY <1>1, <1>2

(* For any number of sessions, any levels, amounts, adjustments and day    *)
(* length, and requests that may have begun on an earlier day: experience  *)
(* is what the ledger makes it, a task is rewarded once a day and only for *)
(* actions of the day, stamina is within the level and never made from     *)
(* nothing, and to look at it changes nothing.                             *)
THEOREM ProgressAccounted ==
  ASSUME ProgressionAssumption
  PROVE  ProgressionSpec => [](ProgressTypeOK /\ ProgressIsAccounted)
<1>1. ProgressionInit => ProgressInvariant
  <2>. SUFFICES ASSUME ProgressionInit
                PROVE  ProgressInvariant
    OBVIOUS
  <2>1. TxnShape /\ \A s \in Sessions : ~txn[s].open
    BY NoneOpen DEF ProgressionInit, NoTxns
  <2>2. \A id : ~Has(db, id)
    BY NoDocument DEF ProgressionInit
  <2>3. ProgressIn(db, time) /\ time \in Nat
    BY <2>2 DEF ProgressIn, LedgerIn, Has, ProgressionInit
  <2>. QED
    BY <2>1, <2>3 DEF ProgressInvariant
<1>2. ProgressInvariant /\ [ProgressionNext]_progressionVars => ProgressInvariant'
  BY ProgressStep
<1>3. ProgressInvariant => ProgressTypeOK /\ ProgressIsAccounted
  BY AccountsHold
<1>. QED
  BY <1>1, <1>2, <1>3, PTL DEF ProgressionSpec

-----------------------------------------------------------------------------
(* MIGRATIONS                                                              *)

(* The first of a finite set of numbers: some of them, and whatever is not *)
(* greater than one of them is one of them too.                            *)
LEMMA FirstBatch ==
  ASSUME NEW S \in SUBSET Nat, IsFiniteSet(S), S # {}, NEW n \in Nat \ {0}
  PROVE  /\ Smallest(n, S) \subseteq S /\ Smallest(n, S) # {}
         /\ \A x \in Smallest(n, S) : \A y \in S : y <= x => y \in Smallest(n, S)
<1>1. Smallest(n, S) \subseteq S
  BY DEF Smallest
<1>2. PICK x \in S : \A y \in S : x <= y
  BY LeastNumber
<1>3. {y \in S : y < x} = {}
  <2>. \A y \in S : y \in Nat /\ x \in Nat /\ ~(y < x)
    BY <1>2
  <2>. QED
    OBVIOUS
<1>4. x \in Smallest(n, S)
  BY <1>3, FS_EmptySet DEF Smallest
<1>5. ASSUME NEW a \in Smallest(n, S), NEW b \in S, b <= a PROVE b \in Smallest(n, S)
  <2>. DEFINE A == {y \in S : y < a}
              B == {y \in S : y < b}
  <2>1. a \in S /\ a \in Nat /\ b \in Nat /\ Cardinality(A) < n
    BY DEF Smallest
  <2>2. B \subseteq A
    <3>. SUFFICES ASSUME NEW y \in S, y < b PROVE y < a
      OBVIOUS
    <3>1. y \in Nat
      OBVIOUS
    <3>. QED
      BY <1>5, <2>1, <3>1
  <2>3. IsFiniteSet(A) /\ IsFiniteSet(B)
    BY FS_Subset
  <2>4. Cardinality(B) <= Cardinality(A)
    BY <2>2, <2>3, FS_Subset
  <2>5. Cardinality(A) \in Nat /\ Cardinality(B) \in Nat
    BY <2>3, FS_CardinalityType
  <2>6. Cardinality(B) < n
    BY <2>1, <2>4, <2>5
  <2>. QED
    BY <2>6 DEF Smallest
<1>. QED
  BY <1>1, <1>4, <1>5

LEMMA PlanFacts ==
  ASSUME MigrationsAssumption
  PROVE  /\ Len(Plan) \in Nat /\ DOMAIN Plan = 1..Len(Plan)
         /\ \A m \in 1..Len(Plan) :
              /\ Len(Plan[m]) \in Nat /\ DOMAIN Plan[m] = 1..Len(Plan[m])
              /\ Range(Plan[m]) = {Plan[m][j] : j \in 1..Len(Plan[m])}
              /\ \A j \in 1..Len(Plan[m]) :
                   LET op == Plan[m][j]
                   IN  /\ op.do \in {"update", "merge", "ensure", "verify", "drop"}
                       /\ op.do \in {"update", "merge"} => op.on \in Fields
                       /\ op.do \in {"ensure", "verify"} => op.on \in DeclaredIndexes
                       /\ op.do = "drop" => op.on \notin DeclaredIndexes
<1>1. Plan \in Seq(Seq(Operations))
  BY DEF MigrationsAssumption
<1>2. Len(Plan) \in Nat /\ DOMAIN Plan = 1..Len(Plan)
      /\ \A m \in 1..Len(Plan) : Plan[m] \in Seq(Operations)
  BY <1>1
<1>. SUFFICES ASSUME NEW m \in 1..Len(Plan)
              PROVE  /\ Len(Plan[m]) \in Nat /\ DOMAIN Plan[m] = 1..Len(Plan[m])
                     /\ Range(Plan[m]) = {Plan[m][j] : j \in 1..Len(Plan[m])}
                     /\ \A j \in 1..Len(Plan[m]) :
                          LET op == Plan[m][j]
                          IN  /\ op.do \in {"update", "merge", "ensure", "verify", "drop"}
                              /\ op.do \in {"update", "merge"} => op.on \in Fields
                              /\ op.do \in {"ensure", "verify"} => op.on \in DeclaredIndexes
                              /\ op.do = "drop" => op.on \notin DeclaredIndexes
  BY <1>2
<1>3. Len(Plan[m]) \in Nat /\ DOMAIN Plan[m] = 1..Len(Plan[m])
      /\ \A j \in 1..Len(Plan[m]) : Plan[m][j] \in Operations
  BY <1>2
<1>4. Range(Plan[m]) = {Plan[m][j] : j \in 1..Len(Plan[m])}
  BY <1>3 DEF Range
<1>. SUFFICES ASSUME NEW j \in 1..Len(Plan[m])
              PROVE  LET op == Plan[m][j]
                     IN  /\ op.do \in {"update", "merge", "ensure", "verify", "drop"}
                         /\ op.do \in {"update", "merge"} => op.on \in Fields
                         /\ op.do \in {"ensure", "verify"} => op.on \in DeclaredIndexes
                         /\ op.do = "drop" => op.on \notin DeclaredIndexes
  BY <1>3, <1>4
<1>. DEFINE op == Plan[m][j]
<1>5. op \in Range(Plan[m]) /\ m \in DOMAIN Plan
  BY <1>2, <1>4
<1>6. op.do \in {"update", "merge", "ensure", "verify", "drop"}
  BY <1>3 DEF Operations
<1>7. op.do \in {"ensure", "verify"} => op.on \in DeclaredIndexes
  BY <1>5 DEF MigrationsAssumption
<1>8. op.do = "drop" => op.on \notin DeclaredIndexes
  BY <1>5 DEF MigrationsAssumption
<1>9. op.do \in {"update", "merge"} => op.on \in Fields
  <2>. HIDE DEF op
  <2>. QED
    BY <1>5 DEF Fields
<1>. QED
  BY <1>6, <1>7, <1>8, <1>9

(* What has been applied stays so.                                         *)
LEMMA AppliedStays ==
  ASSUME MigrationsAssumption, DataMoves, NEW m \in 1..Len(Plan), NEW j \in 1..Len(Plan[m]),
         Applied(Plan[m][j])
  PROVE  Applied(Plan[m][j])'
<1>. DEFINE op == Plan[m][j]
<1>1. /\ op.do \in {"update", "merge", "ensure", "verify", "drop"}
      /\ op.do \in {"update", "merge"} => op.on \in Fields
      /\ op.do \in {"ensure", "verify"} => op.on \in DeclaredIndexes
      /\ op.do = "drop" => op.on \notin DeclaredIndexes
  BY PlanFacts
<1>2. Applied(op)
  OBVIOUS
<1>. SUFFICES Applied(op)'
  OBVIOUS
<1>. HIDE DEF op
<1>3. CASE op.do \in {"update", "merge"}
  <2>1. unchanged[op.on] = {}
    BY <1>2, <1>3 DEF Applied
  <2>2. unchanged'[op.on] = {}
    BY <1>1, <1>3, <2>1 DEF DataMoves
  <2>. QED
    BY <1>3, <2>2 DEF Applied
<1>4. CASE op.do \in {"ensure", "verify"}
  BY <1>1, <1>2, <1>4 DEF Applied, DataMoves
<1>5. CASE op.do = "drop"
  BY <1>1, <1>2, <1>5 DEF Applied, DataMoves
<1>. QED
  BY <1>1, <1>3, <1>4, <1>5

(* What a process is at, while it is at an operation.                      *)
LEMMA AtOperation ==
  ASSUME MigrationsAssumption, NEW p \in Migrators, MigratorTypes(p),
         migrator[p].st \in Working
  PROVE  /\ migrator[p].m \in 1..Len(Plan) /\ migrator[p].k \in 1..Len(Plan[migrator[p].m])
         /\ Operation(p) = Plan[migrator[p].m][migrator[p].k]
         /\ Operation(p).do = DoneAt[migrator[p].st]
         /\ Operation(p).do \in {"update", "merge"} => Operation(p).on \in Fields
         /\ Operation(p).do \in {"ensure", "verify"} => Operation(p).on \in DeclaredIndexes
         /\ Operation(p).do = "drop" => Operation(p).on \notin DeclaredIndexes
<1>. DEFINE r == migrator[p]
<1>1. r.m \in Nat \ {0} /\ r.k \in Nat \ {0} /\ r.m <= Len(Plan) /\ r.k <= Len(Plan[r.m])
      /\ Operation(p).do = DoneAt[r.st]
  BY DEF MigratorTypes
<1>2. r.m \in 1..Len(Plan)
  BY <1>1, PlanFacts
<1>3. Len(Plan[r.m]) \in Nat
  BY <1>2, PlanFacts
<1>4. r.k \in 1..Len(Plan[r.m])
  BY <1>1, <1>3
<1>5. Operation(p) = Plan[r.m][r.k]
  BY DEF Operation
<1>. QED
  BY <1>1, <1>2, <1>4, <1>5, PlanFacts

(* Which operation a state of a process belongs to.                        *)
LEMMA DoneAtValues ==
  /\ DoneAt["update"] = "update" /\ DoneAt["batch_check"] = "update"
  /\ DoneAt["batch"] = "update" /\ DoneAt["merge"] = "merge"
  /\ DoneAt["ensure"] = "ensure" /\ DoneAt["verify"] = "verify"
  /\ DoneAt["drop"] = "drop" /\ DoneAt["dropping"] = "drop"
BY DEF DoneAt, Working

(* Every step moves the data towards what the plan is for.                 *)
LEMMA DataAreMoved ==
  ASSUME MigrationsAssumption, SchemaIsKept, NEW p \in Migrators, MigratorStep(p)
  PROVE  DataMoves
<1>1. DOMAIN unchanged = Fields
  BY DEF SchemaIsKept
<1>2. CASE UNCHANGED schemaVars
  BY <1>1, <1>2 DEF DataMoves, schemaVars
<1>3. ASSUME migrator[p].st \in Working
      PROVE  /\ Operation(p).do = DoneAt[migrator[p].st]
             /\ Operation(p).do \in {"update", "merge"} => Operation(p).on \in Fields
             /\ Operation(p).do \in {"ensure", "verify"} => Operation(p).on \in DeclaredIndexes
             /\ Operation(p).do = "drop" => Operation(p).on \notin DeclaredIndexes
  <2>1. migrator[p] # Away
    BY <1>3 DEF Away, Working
  <2>2. MigratorTypes(p)
    BY <2>1 DEF SchemaIsKept, MigratorIsKept
  <2>. QED
    BY <1>3, <2>2, AtOperation
<1>4. CASE UpdateBatch(p)
  <2>1. Operation(p).on \in Fields
    BY <1>3, <1>4, DoneAtValues DEF UpdateBatch, MigratorAt, Working
  <2>2. unchanged' = [unchanged EXCEPT ![Operation(p).on] = @ \ migrator[p].batch]
        /\ UNCHANGED indexes
    BY <1>4 DEF UpdateBatch
  <2>. QED
    BY <1>1, <2>1, <2>2 DEF DataMoves
<1>5. CASE Merge(p)
  <2>1. unchanged' = [unchanged EXCEPT ![Operation(p).on] = {}] /\ UNCHANGED indexes
    BY <1>5 DEF Merge
  <2>. QED
    BY <1>1, <2>1 DEF DataMoves
<1>6. CASE EnsureIndex(p)
  <2>1. Operation(p).on \in DeclaredIndexes
    BY <1>3, <1>6, DoneAtValues DEF EnsureIndex, MigratorAt, Working
  <2>2. indexes' = indexes \cup {Operation(p).on} /\ UNCHANGED unchanged
    BY <1>6 DEF EnsureIndex
  <2>. QED
    BY <1>1, <2>1, <2>2 DEF DataMoves
<1>7. CASE DropLegacyIndex(p) /\ Operation(p).on \in indexes
  <2>1. Operation(p).on \notin DeclaredIndexes
    BY <1>3, <1>7, DoneAtValues DEF DropLegacyIndex, MigratorAt, Working
  <2>2. indexes' = indexes \ {Operation(p).on} /\ UNCHANGED unchanged
    BY <1>7 DEF DropLegacyIndex
  <2>. QED
    BY <1>1, <2>1, <2>2 DEF DataMoves
<1>8. CASE SyncIndexes(p) /\ indexes \subseteq DeclaredIndexes
  <2>1. indexes' = DeclaredIndexes /\ UNCHANGED unchanged
    BY <1>8 DEF SyncIndexes
  <2>. QED
    BY <1>1, <1>8, <2>1 DEF DataMoves
<1>9. CASE Record(p)
  BY <1>1, <1>9 DEF DataMoves, Record
<1>10. (\/ TakeLock(p) \/ NextMigration(p) \/ Check(p) \/ FindBatch(p) \/ CheckBatch(p)
        \/ VerifyIndex(p) \/ FindLegacyIndex(p) \/ CheckAround(p) \/ RenewLease(p)
        \/ DropLegacyIndex(p) /\ Operation(p).on \notin indexes
        \/ SyncIndexes(p) /\ ~(indexes \subseteq DeclaredIndexes)) => UNCHANGED schemaVars
  BY DEF TakeLock, NextMigration, Check, FindBatch, CheckBatch, VerifyIndex, FindLegacyIndex,
         CheckAround, RenewLease, DropLegacyIndex, SyncIndexes, Throws
<1>. QED
  BY <1>2, <1>4, <1>5, <1>6, <1>7, <1>8, <1>9, <1>10 DEF MigratorStep

LEMMA MigrationStays ==
  ASSUME MigrationsAssumption, DataMoves, NEW m \in 1..Len(Plan),
         \A op \in Range(Plan[m]) : Applied(op)
  PROVE  \A op \in Range(Plan[m]) : Applied(op)'
<1>. SUFFICES ASSUME NEW op \in Range(Plan[m]) PROVE Applied(op)'
  OBVIOUS
<1>. Range(Plan[m]) = {Plan[m][j] : j \in 1..Len(Plan[m])}
  BY PlanFacts
<1>1. PICK j \in 1..Len(Plan[m]) : op = Plan[m][j]
  OBVIOUS
<1>2. Applied(Plan[m][j])
  BY <1>1
<1>3. Applied(Plan[m][j])'
  BY <1>2, AppliedStays
<1>. QED
  BY <1>1, <1>3

(* A process that does not step keeps what it has.                         *)
LEMMA OthersAreKept ==
  ASSUME MigrationsAssumption, DataMoves, NEW p \in Migrators, MigratorIsKept(p),
         migrator'[p] = migrator[p]
  PROVE  MigratorIsKept(p)'
<1>. SUFFICES ASSUME migrator[p] # Away
              PROVE  MigratorTypes(p)' /\ AppliedSoFar(p)' /\ UpdatedSoFar(p)' /\ SyncedSoFar(p)'
  BY DEF MigratorIsKept
<1>. DEFINE r == migrator[p]
<1>1. MigratorTypes(p) /\ AppliedSoFar(p) /\ UpdatedSoFar(p) /\ SyncedSoFar(p)
  BY DEF MigratorIsKept
<1>2. Operation(p)' = Operation(p)
  BY DEF Operation
<1>3. MigratorTypes(p)'
  BY <1>1, <1>2 DEF MigratorTypes
<1>4. AppliedSoFar(p)'
  <2>1. r.done \subseteq 1..Len(Plan)
    BY <1>1 DEF AppliedSoFar
  <2>2. \A m \in r.done : \A op \in Range(Plan[m]) : Applied(op)'
    BY <1>1, <2>1, MigrationStays DEF AppliedSoFar
  <2>3. ASSUME r.st \in Working \cup {"check"}, NEW j \in DOMAIN Plan[r.m], j < r.k
        PROVE  Applied(Plan[r.m][j])'
    <3>1. r.m \in 1..Len(Plan)
      BY <1>1, <2>3, PlanFacts DEF MigratorTypes
    <3>2. j \in 1..Len(Plan[r.m])
      BY <2>3, <3>1, PlanFacts
    <3>3. Applied(Plan[r.m][j])
      BY <1>1, <2>3 DEF AppliedSoFar
    <3>. QED
      BY <3>1, <3>2, <3>3, AppliedStays
  <2>. QED
    BY <2>1, <2>2, <2>3 DEF AppliedSoFar
<1>5. UpdatedSoFar(p)'
  <2>1. ASSUME r.st \in Working \cup {"check"}, r.k <= Len(Plan[r.m]), Operation(p).do = "update"
        PROVE  Operation(p).on \in Fields
    <3>1. r.m \in 1..Len(Plan) /\ r.k \in Nat \ {0}
      BY <1>1, <2>1, PlanFacts DEF MigratorTypes
    <3>2. r.k \in 1..Len(Plan[r.m])
      BY <2>1, <3>1, PlanFacts
    <3>. QED
      BY <2>1, <3>1, <3>2, PlanFacts DEF Operation
  <2>2. ASSUME r.st \in {"batch_check", "batch"}
        PROVE  r.k <= Len(Plan[r.m]) /\ Operation(p).do = "update"
    BY <1>1, <2>2, DoneAtValues DEF MigratorTypes, Working
  <2>3. r.st \in {"batch_check", "batch"} => Operation(p).on \in Fields
    BY <2>1, <2>2 DEF Working
  <2>. QED
    BY <1>1, <1>2, <2>1, <2>3 DEF UpdatedSoFar, DataMoves
<1>6. SyncedSoFar(p)'
  BY <1>1 DEF SyncedSoFar, DataMoves
<1>. QED
  BY <1>3, <1>4, <1>5, <1>6

(* A process that only moves on to another state.                          *)
LEMMA MovedOn ==
  ASSUME MigrationsAssumption, DataMoves, NEW p \in Migrators, AtWork(p),
         DOMAIN migrator = Migrators, NEW st \in MigratorStates,
         migrator' = [migrator EXCEPT ![p].st = st],
         st \in Working \cup {"check"} => migrator[p].st \in Working \cup {"check"},
         st \in Working =>
           migrator[p].k <= Len(Plan[migrator[p].m]) /\ Operation(p).do = DoneAt[st],
         st \in {"batch_check", "batch"} => migrator[p].st \in {"batch_check", "batch"},
         st \in {"synced", "record", "recorded"} => indexes' = DeclaredIndexes
  PROVE  AtWork(p)'
<1>. DEFINE r == migrator[p]
            n == migrator'[p]
<1>1. /\ DOMAIN r = MigratorFields
      /\ r.st \in MigratorStates
      /\ r.m \in Nat \ {0} /\ r.k \in Nat \ {0} /\ r.last \in Nat
      /\ r.st \in Working \cup {"check"} => r.m <= Len(Plan) /\ r.k <= Len(Plan[r.m]) + 1
      /\ r.st \in Working => r.k <= Len(Plan[r.m]) /\ Operation(p).do = DoneAt[r.st]
  BY DEF AtWork, MigratorTypes
<1>2. DOMAIN n = MigratorFields /\ n.st = st /\ n.m = r.m /\ n.k = r.k /\ n.batch = r.batch
      /\ n.last = r.last /\ n.done = r.done
  BY <1>1 DEF MigratorFields
<1>3. Operation(p)' = Operation(p)
  BY <1>2 DEF Operation
<1>4. MigratorTypes(p)'
  BY <1>1, <1>2, <1>3 DEF MigratorTypes
<1>5. AppliedSoFar(p)'
  <2>1. r.done \subseteq 1..Len(Plan)
    BY DEF AtWork, AppliedSoFar
  <2>2. \A m \in r.done : \A op \in Range(Plan[m]) : Applied(op)'
    BY <2>1, MigrationStays DEF AtWork, AppliedSoFar
  <2>. PICK m : m = r.m
    OBVIOUS
  <2>3. ASSUME st \in Working \cup {"check"}, NEW j \in DOMAIN Plan[m], j < r.k
        PROVE  Applied(Plan[m][j])'
    <3>1. m \in 1..Len(Plan)
      BY <1>1, <2>3, PlanFacts
    <3>2. j \in 1..Len(Plan[m])
      BY <2>3, <3>1, PlanFacts
    <3>3. Applied(Plan[m][j])
      BY <2>3 DEF AtWork, AppliedSoFar
    <3>. QED
      BY <3>1, <3>2, <3>3, AppliedStays
  <2>. QED
    BY <1>2, <2>1, <2>2, <2>3 DEF AppliedSoFar
<1>6. UpdatedSoFar(p)'
  <2>1. ASSUME r.st \in Working \cup {"check"}, r.k <= Len(Plan[r.m]), Operation(p).do = "update"
        PROVE  Operation(p).on \in Fields
    <3>1. r.m \in 1..Len(Plan) /\ r.k \in Nat \ {0}
      BY <1>1, <2>1, PlanFacts
    <3>2. r.k \in 1..Len(Plan[r.m])
      BY <2>1, <3>1, PlanFacts
    <3>. QED
      BY <2>1, <3>1, <3>2, PlanFacts DEF Operation
  <2>2. ASSUME r.st \in {"batch_check", "batch"}
        PROVE  r.k <= Len(Plan[r.m]) /\ Operation(p).do = "update"
    BY <1>1, <2>2, DoneAtValues DEF Working
  <2>3. r.st \in {"batch_check", "batch"} => Operation(p).on \in Fields
    BY <2>1, <2>2 DEF Working
  <2>4. UpdatedSoFar(p)
    BY DEF AtWork
  <2>. HIDE DEF r, n
  <2>. QED
    BY <1>2, <1>3, <2>1, <2>3, <2>4 DEF UpdatedSoFar, DataMoves, r, n
<1>7. SyncedSoFar(p)'
  BY <1>2 DEF SyncedSoFar
<1>. QED
  BY <1>4, <1>5, <1>6, <1>7 DEF AtWork

(* A process that has done with an operation.                              *)
LEMMA MovedOnward ==
  ASSUME MigrationsAssumption, DataMoves, NEW p \in Migrators, AtWork(p),
         DOMAIN migrator = Migrators, \A f \in Fields : unchanged[f] \subseteq OldDocuments,
         migrator[p].st \in Working, Onward(p), NEW done, done = Operation(p), Applied(done)'
  PROVE  AtWork(p)'
<1>. DEFINE r == migrator[p]
            n == migrator'[p]
<1>1. /\ DOMAIN r = MigratorFields
      /\ r.m \in Nat \ {0} /\ r.k \in Nat \ {0}
      /\ r.m <= Len(Plan) /\ r.k <= Len(Plan[r.m])
  BY DEF AtWork, MigratorTypes
<1>2. DOMAIN n = MigratorFields /\ n.st = "check" /\ n.m = r.m /\ n.k = r.k + 1
      /\ n.batch = r.batch /\ n.last = 0 /\ n.done = r.done
  BY <1>1 DEF Onward, MigratorFields
<1>3. r.m \in 1..Len(Plan) /\ Len(Plan[r.m]) \in Nat /\ DOMAIN Plan[r.m] = 1..Len(Plan[r.m])
  BY <1>1, PlanFacts
<1>4. MigratorTypes(p)'
  <2>1. "check" \in MigratorStates /\ "check" \notin Working
    BY DEF MigratorStates, Working
  <2>. HIDE DEF r, n
  <2>2. n.m \in Nat \ {0} /\ n.k \in Nat \ {0} /\ n.last \in Nat
        /\ n.m <= Len(Plan) /\ n.k <= Len(Plan[n.m]) + 1
    BY <1>1, <1>2, <1>3
  <2>. QED
    BY <1>2, <2>1, <2>2 DEF MigratorTypes, n
<1>5. AppliedSoFar(p)'
  <2>1. r.done \subseteq 1..Len(Plan)
    BY DEF AtWork, AppliedSoFar
  <2>2. \A m \in r.done : \A op \in Range(Plan[m]) : Applied(op)'
    BY <2>1, MigrationStays DEF AtWork, AppliedSoFar
  <2>. PICK m : m = r.m
    OBVIOUS
  <2>3. ASSUME NEW j \in DOMAIN Plan[m], j < r.k + 1
        PROVE  Applied(Plan[m][j])'
    <3>1. j \in 1..Len(Plan[m])
      BY <1>3, <2>3
    <3>2. CASE j < r.k
      <4>1. Applied(Plan[m][j])
        BY <1>3, <2>3, <3>2 DEF AtWork, AppliedSoFar
      <4>. QED
        BY <1>3, <3>1, <4>1, AppliedStays
    <3>3. CASE j = r.k
      <4>1. done = Plan[m][j]
        BY <3>3 DEF Operation
      <4>. QED
        BY <4>1
    <3>. QED
      BY <1>1, <2>3, <3>1, <3>2, <3>3
  <2>. QED
    BY <1>2, <2>1, <2>2, <2>3 DEF AppliedSoFar
<1>6. UpdatedSoFar(p)'
  <2>. HIDE DEF r, n
  <2>1. ASSUME n.k <= Len(Plan[n.m]), Plan[n.m][n.k].do = "update"
        PROVE  \A d \in unchanged'[Plan[n.m][n.k].on] : d > 0
    <3>1. n.m \in 1..Len(Plan) /\ n.k \in 1..Len(Plan[n.m])
      BY <1>1, <1>2, <1>3, <2>1
    <3>2. Plan[n.m][n.k].on \in Fields
      BY <2>1, <3>1, PlanFacts
    <3>. QED
      <4>1. unchanged'[Plan[n.m][n.k].on] \subseteq OldDocuments
        BY <3>2 DEF DataMoves
      <4>2. \A d \in OldDocuments : d > 0
        BY DEF MigrationsAssumption
      <4>. QED
        BY <4>1, <4>2
  <2>. QED
    BY <1>2, <2>1 DEF UpdatedSoFar, Operation, n
<1>7. SyncedSoFar(p)'
  BY <1>2 DEF SyncedSoFar
<1>. QED
  BY <1>4, <1>5, <1>6, <1>7 DEF AtWork

LEMMA StartIsKept ==
  ASSUME MigrationsAssumption, SchemaIsKept, NEW p \in Migrators, TakeLock(p)
  PROVE  AtWork(p)'
<1>1. migrator'[p] = Begun
  BY DEF TakeLock, SchemaIsKept
<1>2. DOMAIN Begun = MigratorFields /\ Begun.st = "next" /\ Begun.m = 1 /\ Begun.k = 1
      /\ Begun.last = 0 /\ Begun.done = {}
  BY DEF Begun, MigratorFields
<1>3. "next" \in MigratorStates /\ "next" \notin Working
  BY DEF MigratorStates, Working
<1>4. MigratorTypes(p)'
  BY <1>1, <1>2, <1>3 DEF MigratorTypes
<1>5. AppliedSoFar(p)'
  BY <1>1, <1>2, <1>3 DEF AppliedSoFar
<1>6. UpdatedSoFar(p)'
  BY <1>1, <1>2, <1>3 DEF UpdatedSoFar
<1>7. SyncedSoFar(p)'
  BY <1>1, <1>2 DEF SyncedSoFar
<1>. QED
  BY <1>4, <1>5, <1>6, <1>7 DEF AtWork

LEMMA NextMigrationIsKept ==
  ASSUME MigrationsAssumption, SchemaIsKept, DataMoves, NEW p \in Migrators, AtWork(p),
         NextMigration(p)
  PROVE  AtWork(p)'
<1>. DEFINE r == migrator[p]
            n == migrator'[p]
<1>1. r.st = "next" /\ "next" \notin Working /\ DOMAIN migrator = Migrators
  BY DEF NextMigration, MigratorAt, SchemaIsKept, Working
<1>2. DOMAIN r = MigratorFields /\ r.m \in Nat \ {0} /\ r.k \in Nat \ {0} /\ r.last \in Nat
  BY DEF AtWork, MigratorTypes
<1>3. CASE r.m > Len(Plan)
  <2>1. migrator' = [migrator EXCEPT ![p].st = "sync_check"]
    BY <1>3 DEF NextMigration
  <2>2. "sync_check" \in MigratorStates \ (Working \cup {"check"})
    BY DEF MigratorStates, Working
  <2>. QED
    BY <1>1, <2>1, <2>2, MovedOn
<1>4. CASE ~(r.m > Len(Plan)) /\ r.m \in records
  <2>1. n = [r EXCEPT !.m = r.m + 1]
    BY <1>1, <1>4 DEF NextMigration
  <2>2. DOMAIN n = MigratorFields /\ n.st = "next" /\ n.m = r.m + 1 /\ n.k = r.k
        /\ n.last = r.last /\ n.done = r.done /\ UNCHANGED <<unchanged, indexes>>
    BY <1>1, <1>2, <2>1 DEF MigratorFields, NextMigration, schemaVars
  <2>. HIDE DEF r, n
  <2>3. MigratorTypes(p)'
    BY <1>1, <1>2, <2>2 DEF MigratorTypes, n, MigratorStates
  <2>4. AppliedSoFar(p)'
    <3>1. r.done \subseteq 1..Len(Plan) /\ \A m \in r.done : \A op \in Range(Plan[m]) : Applied(op)
      BY DEF AtWork, AppliedSoFar, r
    <3>2. \A m \in r.done : \A op \in Range(Plan[m]) : Applied(op)'
      BY <3>1, MigrationStays
    <3>. QED
      BY <1>1, <2>2, <3>1, <3>2 DEF AppliedSoFar, n
  <2>5. UpdatedSoFar(p)' /\ SyncedSoFar(p)'
    BY <1>1, <2>2 DEF UpdatedSoFar, SyncedSoFar, n
  <2>. QED
    BY <2>3, <2>4, <2>5 DEF AtWork
<1>5. CASE ~(r.m > Len(Plan)) /\ r.m \notin records
  <2>1. n = [r EXCEPT !.st = "check", !.k = 1, !.last = 0]
    BY <1>1, <1>5 DEF NextMigration
  <2>2. DOMAIN n = MigratorFields /\ n.st = "check" /\ n.m = r.m /\ n.k = 1
        /\ n.last = 0 /\ n.done = r.done /\ UNCHANGED <<unchanged, indexes>>
    BY <1>1, <1>2, <2>1 DEF MigratorFields, NextMigration, schemaVars
  <2>. HIDE DEF r, n
  <2>3. r.m \in 1..Len(Plan) /\ Len(Plan[r.m]) \in Nat
    BY <1>2, <1>5, PlanFacts
  <2>4. MigratorTypes(p)'
    <3>1. "check" \in MigratorStates /\ "check" \notin Working
      BY DEF MigratorStates, Working
    <3>2. n.m <= Len(Plan) /\ n.k <= Len(Plan[n.m]) + 1
      BY <2>2, <2>3
    <3>. QED
      BY <1>2, <2>2, <3>1, <3>2 DEF MigratorTypes, n
  <2>5. AppliedSoFar(p)'
    <3>1. r.done \subseteq 1..Len(Plan) /\ \A m \in r.done : \A op \in Range(Plan[m]) : Applied(op)
      BY DEF AtWork, AppliedSoFar, r
    <3>2. \A m \in r.done : \A op \in Range(Plan[m]) : Applied(op)'
      BY <3>1, MigrationStays
    <3>3. \A j \in DOMAIN Plan[n.m] : ~(j < 1)
      BY <2>2, <2>3, PlanFacts
    <3>. QED
      BY <2>2, <3>1, <3>2, <3>3 DEF AppliedSoFar, n
  <2>6. UpdatedSoFar(p)'
    <3>1. ASSUME n.k <= Len(Plan[n.m]), Operation(p)'.do = "update"
          PROVE  \A d \in unchanged'[Operation(p)'.on] : d > 0
      <4>1. n.k \in 1..Len(Plan[n.m])
        BY <2>2, <2>3, <3>1
      <4>2. Operation(p)' = Plan[n.m][n.k]
        BY DEF Operation, n
      <4>3. Operation(p)'.on \in Fields
        BY <2>2, <2>3, <3>1, <4>1, <4>2, PlanFacts
      <4>4. unchanged'[Operation(p)'.on] \subseteq OldDocuments
        BY <2>2, <4>3 DEF SchemaIsKept, MigrationTypeOK
      <4>5. \A d \in OldDocuments : d > 0
        BY DEF MigrationsAssumption
      <4>. QED
        BY <4>4, <4>5
    <3>. QED
      BY <2>2, <3>1 DEF UpdatedSoFar, n
  <2>7. SyncedSoFar(p)'
    BY <2>2 DEF SyncedSoFar, n
  <2>. QED
    BY <2>4, <2>5, <2>6, <2>7 DEF AtWork
<1>. QED
  BY <1>3, <1>4, <1>5

(* A process that leaves has nothing to keep.                              *)
LEMMA Leaving ==
  ASSUME SchemaIsKept, NEW p \in Migrators, Leave(p)
  PROVE  MigratorIsKept(p)'
BY DEF Leave, SchemaIsKept, MigratorIsKept

LEMMA CheckIsKept ==
  ASSUME MigrationsAssumption, SchemaIsKept, DataMoves, NEW p \in Migrators, AtWork(p), Check(p)
  PROVE  MigratorIsKept(p)'
<1>. DEFINE r == migrator[p]
            n == migrator'[p]
<1>1. r.st = "check" /\ "check" \notin Working /\ DOMAIN migrator = Migrators
      /\ UNCHANGED <<unchanged, indexes>>
  BY DEF Check, MigratorAt, SchemaIsKept, Working, schemaVars
<1>2. DOMAIN r = MigratorFields /\ r.m \in Nat \ {0} /\ r.k \in Nat \ {0} /\ r.last \in Nat
      /\ r.m <= Len(Plan) /\ r.k <= Len(Plan[r.m]) + 1
  BY <1>1 DEF AtWork, MigratorTypes
<1>3. r.m \in 1..Len(Plan) /\ Len(Plan[r.m]) \in Nat /\ DOMAIN Plan[r.m] = 1..Len(Plan[r.m])
  BY <1>2, PlanFacts
<1>4. CASE AllDone(p) /\ Holds(p)
  <2>1. n = [r EXCEPT !.st = "next", !.m = r.m + 1, !.done = r.done \cup {r.m}]
    BY <1>1, <1>4 DEF Check
  <2>2. DOMAIN n = MigratorFields /\ n.st = "next" /\ n.m = r.m + 1 /\ n.k = r.k
        /\ n.last = r.last /\ n.done = r.done \cup {r.m}
    BY <1>2, <2>1 DEF MigratorFields
  <2>3. r.k > Len(Plan[r.m])
    BY <1>4 DEF AllDone
  <2>. HIDE DEF r, n
  <2>4. "next" \in MigratorStates /\ "next" \notin Working
    BY DEF MigratorStates, Working
  <2>5. MigratorTypes(p)'
    BY <1>2, <2>2, <2>4 DEF MigratorTypes, n
  <2>6. AppliedSoFar(p)'
    <3>1. r.done \subseteq 1..Len(Plan) /\ \A m \in r.done : \A op \in Range(Plan[m]) : Applied(op)
      BY DEF AtWork, AppliedSoFar, r
    <3>2. \A m \in r.done : \A op \in Range(Plan[m]) : Applied(op)'
      BY <3>1, MigrationStays
    <3>. PICK m : m = r.m
      OBVIOUS
    <3>3. \A j \in 1..Len(Plan[m]) : Applied(Plan[m][j])
      <4>1. AppliedSoFar(p) /\ DOMAIN Plan[m] = 1..Len(Plan[m])
        BY <1>3 DEF AtWork
      <4>2. \A j \in DOMAIN Plan[m] : j < r.k
        BY <1>2, <1>3, <2>3, <4>1
      <4>. QED
        BY <1>1, <4>1, <4>2 DEF AppliedSoFar, r
    <3>4. \A j \in 1..Len(Plan[m]) : Applied(Plan[m][j])'
      BY <1>3, <3>3, AppliedStays
    <3>5. Range(Plan[m]) = {Plan[m][j] : j \in 1..Len(Plan[m])}
      BY <1>3, PlanFacts, ZenonT(60)
    <3>6. \A op \in Range(Plan[m]) : Applied(op)'
      BY <3>4, <3>5
    <3>7. n.done \subseteq 1..Len(Plan)
      BY <1>3, <2>2, <3>1
    <3>8. \A q \in n.done : \A op \in Range(Plan[q]) : Applied(op)'
      BY <2>2, <3>2, <3>6
    <3>. QED
      BY <2>2, <2>4, <3>7, <3>8 DEF AppliedSoFar, n
  <2>7. UpdatedSoFar(p)' /\ SyncedSoFar(p)'
    BY <2>2, <2>4 DEF UpdatedSoFar, SyncedSoFar, n
  <2>. QED
    BY <2>5, <2>6, <2>7 DEF AtWork, MigratorIsKept
<1>5. CASE ~AllDone(p) /\ Holds(p)
  <2>1. migrator' = [migrator EXCEPT ![p].st = Operation(p).do]
    BY <1>5 DEF Check, AssertHeld
  <2>2. r.k \in 1..Len(Plan[r.m])
    BY <1>2, <1>3, <1>5 DEF AllDone
  <2>3. Operation(p).do \in {"update", "merge", "ensure", "verify", "drop"}
    BY <1>3, <2>2, PlanFacts DEF Operation
  <2>4. Operation(p).do \in Working \cap MigratorStates
        /\ Operation(p).do = DoneAt[Operation(p).do]
    BY <2>3, DoneAtValues DEF Working, MigratorStates
  <2>5. Operation(p).do \notin {"batch_check", "batch", "synced", "record", "recorded"}
    BY <2>3
  <2>6. PICK st : st = Operation(p).do
    OBVIOUS
  <2>7. /\ st \in MigratorStates /\ migrator' = [migrator EXCEPT ![p].st = st]
        /\ migrator[p].k <= Len(Plan[migrator[p].m]) /\ Operation(p).do = DoneAt[st]
        /\ migrator[p].st \in Working \cup {"check"}
        /\ st \notin {"batch_check", "batch", "synced", "record", "recorded"}
    BY <1>1, <1>3, <2>1, <2>2, <2>4, <2>5, <2>6
  <2>. HIDE DEF r, n
  <2>8. AtWork(p)'
    BY <1>1, <2>7, MovedOn
  <2>. QED
    BY <2>8 DEF AtWork, MigratorIsKept
<1>6. CASE ~Holds(p)
  BY <1>6, Leaving DEF Check, AssertHeld
<1>. QED
  BY <1>4, <1>5, <1>6

LEMMA FindBatchIsKept ==
  ASSUME MigrationsAssumption, SchemaIsKept, DataMoves, NEW p \in Migrators, AtWork(p),
         FindBatch(p)
  PROVE  AtWork(p)'
<1>. DEFINE r == migrator[p]
            n == migrator'[p]
            found == {d \in unchanged[Operation(p).on] : d > r.last}
<1>1. r.st = "update" /\ "update" \in Working /\ DOMAIN migrator = Migrators
      /\ UNCHANGED <<unchanged, indexes>>
  BY DEF FindBatch, MigratorAt, SchemaIsKept, Working, schemaVars
<1>2. MigratorTypes(p) /\ UpdatedSoFar(p)
  BY DEF AtWork
<1>3. /\ DOMAIN r = MigratorFields /\ r.m \in 1..Len(Plan) /\ r.k \in 1..Len(Plan[r.m])
      /\ r.last \in Nat /\ Operation(p).do = "update" /\ Operation(p).on \in Fields
  BY <1>1, <1>2, AtOperation, DoneAtValues DEF MigratorTypes
<1>4. unchanged[Operation(p).on] \subseteq OldDocuments
      /\ \A f \in Fields : unchanged[f] \subseteq OldDocuments
  BY <1>3 DEF SchemaIsKept, MigrationTypeOK
<1>5. \A d \in unchanged[Operation(p).on] : d > r.last
  <2>1. r.k <= Len(Plan[r.m])
    BY <1>3, PlanFacts
  <2>. QED
    BY <1>1, <1>2, <1>3, <2>1 DEF UpdatedSoFar
<1>6. CASE found = {}
  <2>1. Onward(p)
    BY <1>6 DEF FindBatch
  <2>2. unchanged[Operation(p).on] = {}
    BY <1>5, <1>6
  <2>3. PICK op : op = Operation(p)
    OBVIOUS
  <2>4. unchanged'[op.on] = {} /\ op.do = "update"
    BY <1>1, <1>3, <2>2, <2>3
  <2>5. Applied(op)'
    BY <2>4 DEF Applied
  <2>. QED
    BY <1>1, <1>4, <2>1, <2>3, <2>5, MovedOnward
<1>7. CASE found # {}
  <2>1. migrator' = [migrator EXCEPT ![p].st = "batch_check",
                        ![p].batch = Smallest(MigrationBatch, found)]
    BY <1>7 DEF FindBatch
  <2>2. DOMAIN n = MigratorFields /\ n.st = "batch_check" /\ n.m = r.m /\ n.k = r.k
        /\ n.last = r.last /\ n.done = r.done /\ n.batch = Smallest(MigrationBatch, found)
    BY <1>1, <1>3, <2>1 DEF MigratorFields
  <2>3. found \subseteq OldDocuments /\ found \in SUBSET Nat /\ IsFiniteSet(found)
    BY <1>4, FS_Subset DEF MigrationsAssumption
  <2>4. MigrationBatch \in Nat \ {0}
    BY DEF MigrationsAssumption
  <2>5. /\ n.batch # {} /\ n.batch \subseteq found
        /\ \A x \in n.batch : \A d \in found : d <= x => d \in n.batch
    <3>. HIDE DEF found, n, r
    <3>. QED
      BY <1>7, <2>2, <2>3, <2>4, FirstBatch
  <2>6. found = unchanged[Operation(p).on]
    BY <1>5
  <2>. HIDE DEF found, n, r
  <2>7. Operation(p)' = Operation(p)
    BY <2>2 DEF Operation, n, r
  <2>8. "batch_check" \in MigratorStates \cap Working /\ DoneAt["batch_check"] = "update"
    BY DoneAtValues DEF MigratorStates, Working
  <2>9. MigratorTypes(p)'
    BY <1>1, <1>2, <1>3, <2>2, <2>7, <2>8 DEF MigratorTypes, n, r
  <2>10. AppliedSoFar(p)'
    <3>1. r.done \subseteq 1..Len(Plan) /\ \A m \in r.done : \A op \in Range(Plan[m]) : Applied(op)
      BY DEF AtWork, AppliedSoFar, r
    <3>2. \A m \in r.done : \A op \in Range(Plan[m]) : Applied(op)'
      BY <3>1, MigrationStays
    <3>. PICK m : m = r.m
      OBVIOUS
    <3>3. \A j \in DOMAIN Plan[m] : j < r.k => Applied(Plan[m][j])
      BY <1>1 DEF AtWork, AppliedSoFar, r
    <3>4. \A j \in DOMAIN Plan[m] : j < r.k => Applied(Plan[m][j])'
      BY <1>3, <3>3, PlanFacts, AppliedStays
    <3>. QED
      BY <2>2, <3>1, <3>2, <3>4 DEF AppliedSoFar, n
  <2>11. UpdatedSoFar(p)'
    BY <1>1, <1>5, <2>2, <2>3, <2>5, <2>6, <2>7 DEF UpdatedSoFar, n, r
  <2>12. SyncedSoFar(p)'
    BY <2>2 DEF SyncedSoFar, n
  <2>. QED
    BY <2>9, <2>10, <2>11, <2>12 DEF AtWork
<1>. QED
  BY <1>6, <1>7

LEMMA UpdateBatchIsKept ==
  ASSUME MigrationsAssumption, SchemaIsKept, DataMoves, NEW p \in Migrators, AtWork(p),
         UpdateBatch(p)
  PROVE  AtWork(p)'
<1>. DEFINE r == migrator[p]
            n == migrator'[p]
<1>1. r.st = "batch" /\ "batch" \in Working /\ DOMAIN migrator = Migrators
      /\ DOMAIN unchanged = Fields
  BY DEF UpdateBatch, MigratorAt, SchemaIsKept, Working
<1>2. MigratorTypes(p) /\ UpdatedSoFar(p)
  BY DEF AtWork
<1>3. /\ DOMAIN r = MigratorFields /\ r.m \in 1..Len(Plan) /\ r.k \in 1..Len(Plan[r.m])
      /\ r.last \in Nat /\ Operation(p).do = "update" /\ Operation(p).on \in Fields
  BY <1>1, <1>2, AtOperation, DoneAtValues DEF MigratorTypes
<1>4. unchanged[Operation(p).on] \subseteq OldDocuments
  BY <1>3 DEF SchemaIsKept, MigrationTypeOK
<1>5. r.batch # {} /\ r.batch \subseteq OldDocuments
      /\ \A x \in r.batch : \A d \in unchanged[Operation(p).on] : d <= x => d \in r.batch
  BY <1>1, <1>2 DEF UpdatedSoFar
<1>6. Max(r.batch) \in r.batch /\ OldDocuments \subseteq Nat
  <2>1. r.batch \in SUBSET Nat /\ IsFiniteSet(r.batch) /\ OldDocuments \subseteq Nat
    BY <1>5, FS_Subset DEF MigrationsAssumption
  <2>. HIDE DEF r
  <2>. QED
    BY <1>5, <2>1, Extremes
<1>7. migrator' = [migrator EXCEPT ![p].st = "check", ![p].last = Max(r.batch), ![p].batch = {}]
  BY DEF UpdateBatch
<1>8. DOMAIN n = MigratorFields /\ n.st = "check" /\ n.m = r.m /\ n.k = r.k
      /\ n.last = Max(r.batch) /\ n.done = r.done
  BY <1>1, <1>3, <1>7 DEF MigratorFields
<1>9. unchanged'[Operation(p).on] = unchanged[Operation(p).on] \ r.batch
  BY <1>1, <1>3 DEF UpdateBatch
<1>. HIDE DEF r, n
<1>10. Operation(p)' = Operation(p)
  BY <1>8 DEF Operation, n, r
<1>11. MigratorTypes(p)'
  <2>1. "check" \in MigratorStates /\ "check" \notin Working
    BY DEF MigratorStates, Working
  <2>2. r.m \in Nat \ {0} /\ r.k \in Nat \ {0} /\ r.m <= Len(Plan) /\ r.k <= Len(Plan[r.m]) + 1
        /\ Max(r.batch) \in Nat
    <3>1. Len(Plan) \in Nat /\ Len(Plan[r.m]) \in Nat
      BY <1>3, PlanFacts
    <3>2. Max(r.batch) \in Nat
      BY <1>5, <1>6
    <3>. QED
      BY <1>3, <3>1, <3>2
  <2>. QED
    BY <1>8, <2>1, <2>2 DEF MigratorTypes, n
<1>12. AppliedSoFar(p)'
  <2>1. r.done \subseteq 1..Len(Plan) /\ \A m \in r.done : \A op \in Range(Plan[m]) : Applied(op)
    BY DEF AtWork, AppliedSoFar, r
  <2>2. \A m \in r.done : \A op \in Range(Plan[m]) : Applied(op)'
    BY <2>1, MigrationStays
  <2>. PICK m : m = r.m
    OBVIOUS
  <2>3. \A j \in DOMAIN Plan[m] : j < r.k => Applied(Plan[m][j])
    BY <1>1 DEF AtWork, AppliedSoFar, r
  <2>4. \A j \in DOMAIN Plan[m] : j < r.k => Applied(Plan[m][j])'
    BY <1>3, <2>3, PlanFacts, AppliedStays
  <2>. QED
    BY <1>8, <2>1, <2>2, <2>4 DEF AppliedSoFar, n
<1>13. UpdatedSoFar(p)'
  <2>1. \A d \in unchanged'[Operation(p).on] : d > Max(r.batch)
    <3>. SUFFICES ASSUME NEW d \in unchanged[Operation(p).on], d \notin r.batch
                  PROVE  d > Max(r.batch)
      BY <1>9
    <3>1. ~(d <= Max(r.batch))
      BY <1>5, <1>6
    <3>2. d \in Nat /\ Max(r.batch) \in Nat
      BY <1>4, <1>5, <1>6
    <3>. QED
      BY <3>1, <3>2
  <2>. QED
    BY <1>8, <1>10, <2>1 DEF UpdatedSoFar, n
<1>14. SyncedSoFar(p)'
  BY <1>8 DEF SyncedSoFar, n
<1>. QED
  BY <1>11, <1>12, <1>13, <1>14 DEF AtWork

(* The operations that are done with in one step.                          *)
LEMMA OperationIsKept ==
  ASSUME MigrationsAssumption, SchemaIsKept, DataMoves, NEW p \in Migrators, AtWork(p),
         Merge(p) \/ EnsureIndex(p) \/ VerifyIndex(p) \/ FindLegacyIndex(p) \/ DropLegacyIndex(p)
  PROVE  MigratorIsKept(p)'
<1>1. migrator[p].st \in {"merge", "ensure", "verify", "drop", "dropping"}
      /\ migrator[p].st \in Working /\ MigratorTypes(p)
      /\ DOMAIN migrator = Migrators /\ DOMAIN unchanged = Fields
      /\ \A f \in Fields : unchanged[f] \subseteq OldDocuments
  BY DEF Merge, EnsureIndex, VerifyIndex, FindLegacyIndex, DropLegacyIndex, MigratorAt, Working,
         AtWork, SchemaIsKept, MigrationTypeOK
<1>. PICK op : op = Operation(p)
  OBVIOUS
<1>2. /\ op.do = DoneAt[migrator[p].st]
      /\ op.do \in {"update", "merge"} => op.on \in Fields
      /\ op.do = "drop" => op.on \notin DeclaredIndexes
  BY <1>1, AtOperation
<1>3. ASSUME Onward(p), Applied(op)' PROVE MigratorIsKept(p)'
  <2>1. AtWork(p)'
    BY <1>1, <1>3, MovedOnward
  <2>. QED
    BY <2>1 DEF AtWork, MigratorIsKept
<1>4. CASE Merge(p)
  <2>1. op.do = "merge"
    BY <1>2, <1>4, DoneAtValues DEF Merge, MigratorAt
  <2>2. unchanged'[op.on] = {}
    BY <1>1, <1>2, <1>4, <2>1 DEF Merge
  <2>3. Applied(op)'
    BY <2>1, <2>2 DEF Applied
  <2>. QED
    BY <1>3, <1>4, <2>3 DEF Merge
<1>5. CASE EnsureIndex(p)
  <2>1. op.do = "ensure" /\ op.on \in indexes'
    BY <1>2, <1>5, DoneAtValues DEF EnsureIndex, MigratorAt
  <2>2. Applied(op)'
    BY <2>1 DEF Applied
  <2>. QED
    BY <1>3, <1>5, <2>2 DEF EnsureIndex
<1>6. CASE VerifyIndex(p)
  <2>1. CASE op.on \in indexes
    <3>1. op.do = "verify" /\ op.on \in indexes'
      BY <1>2, <1>6, <2>1, DoneAtValues DEF VerifyIndex, MigratorAt, schemaVars
    <3>2. Applied(op)'
      BY <3>1 DEF Applied
    <3>. QED
      BY <1>3, <1>6, <2>1, <3>2 DEF VerifyIndex
  <2>2. CASE op.on \notin indexes
    BY <1>6, <2>2, Leaving DEF VerifyIndex, Throws
  <2>. QED
    BY <2>1, <2>2
<1>7. CASE FindLegacyIndex(p)
  <2>1. CASE op.on \notin indexes
    <3>1. op.do = "drop" /\ op.on \notin indexes'
      BY <1>2, <1>7, <2>1, DoneAtValues DEF FindLegacyIndex, MigratorAt, schemaVars
    <3>2. Applied(op)'
      BY <3>1 DEF Applied
    <3>. QED
      BY <1>3, <1>7, <2>1, <3>2 DEF FindLegacyIndex
  <2>2. CASE op.on \in indexes
    <3>1. migrator' = [migrator EXCEPT ![p].st = "dropping"]
      BY <1>7, <2>2 DEF FindLegacyIndex
    <3>2. "dropping" \in MigratorStates \cap Working /\ Operation(p).do = DoneAt["dropping"]
      BY <1>2, <1>7, DoneAtValues DEF FindLegacyIndex, MigratorAt, MigratorStates, Working
    <3>3. migrator[p].k <= Len(Plan[migrator[p].m])
      BY <1>1 DEF MigratorTypes
    <3>4. AtWork(p)'
      BY <1>1, <3>1, <3>2, <3>3, MovedOn
    <3>. QED
      BY <3>4 DEF AtWork, MigratorIsKept
  <2>. QED
    BY <2>1, <2>2
<1>8. CASE DropLegacyIndex(p)
  <2>1. CASE op.on \in indexes
    <3>1. op.do = "drop" /\ op.on \notin indexes'
      BY <1>2, <1>8, <2>1, DoneAtValues DEF DropLegacyIndex, MigratorAt
    <3>2. Applied(op)'
      BY <3>1 DEF Applied
    <3>. QED
      BY <1>3, <1>8, <2>1, <3>2 DEF DropLegacyIndex
  <2>2. CASE op.on \notin indexes
    BY <1>8, <2>2, Leaving DEF DropLegacyIndex, Throws
  <2>. QED
    BY <2>1, <2>2
<1>. QED
  BY <1>4, <1>5, <1>6, <1>7, <1>8

(* The steps around the operations.                                        *)
LEMMA AroundIsKept ==
  ASSUME MigrationsAssumption, SchemaIsKept, DataMoves, NEW p \in Migrators, AtWork(p),
         CheckBatch(p) \/ CheckAround(p) \/ SyncIndexes(p) \/ Record(p)
  PROVE  MigratorIsKept(p)'
<1>1. DOMAIN migrator = Migrators /\ DOMAIN migrator[p] = MigratorFields
      /\ MigratorTypes(p) /\ SyncedSoFar(p)
  BY DEF SchemaIsKept, AtWork, MigratorTypes
<1>2. ASSUME NEW st \in {"sync", "synced", "record", "recorded"},
             migrator' = [migrator EXCEPT ![p].st = st],
             st # "sync" => indexes' = DeclaredIndexes
      PROVE  MigratorIsKept(p)'
  <2>1. st \in MigratorStates /\ st \notin Working \cup {"check"}
        /\ st \notin {"batch_check", "batch"}
    BY DEF MigratorStates, Working
  <2>2. AtWork(p)'
    BY <1>1, <1>2, <2>1, MovedOn
  <2>. QED
    BY <2>2 DEF AtWork, MigratorIsKept
<1>3. CASE CheckBatch(p) /\ Holds(p)
  <2>1. migrator' = [migrator EXCEPT ![p].st = "batch"]
    BY <1>3 DEF CheckBatch, AssertHeld
  <2>2. migrator[p].st = "batch_check" /\ "batch_check" \in Working
        /\ "batch" \in Working \cap MigratorStates /\ DoneAt["batch"] = DoneAt["batch_check"]
    BY <1>3, DoneAtValues DEF CheckBatch, MigratorAt, Working, MigratorStates
  <2>3. migrator[p].k <= Len(Plan[migrator[p].m]) /\ Operation(p).do = DoneAt["batch"]
    BY <1>1, <2>2 DEF MigratorTypes
  <2>4. AtWork(p)'
    BY <1>1, <2>1, <2>2, <2>3, MovedOn
  <2>. QED
    BY <2>4 DEF AtWork, MigratorIsKept
<1>4. CASE CheckBatch(p) /\ ~Holds(p)
  BY <1>4, Leaving DEF CheckBatch, AssertHeld
<1>5. CASE MigratorAt(p, "sync_check") /\ AssertHeld(p, "sync")
  BY <1>2, <1>5, Leaving DEF AssertHeld
<1>6. CASE MigratorAt(p, "synced") /\ AssertHeld(p, "record") /\ UNCHANGED schemaVars
  BY <1>1, <1>2, <1>6, Leaving DEF AssertHeld, SyncedSoFar, MigratorAt, schemaVars
<1>7. CASE Leave(p)
  BY <1>7, Leaving
<1>8. CASE SyncIndexes(p)
  BY <1>2, <1>8, Leaving DEF SyncIndexes, Throws
<1>9. CASE Record(p) /\ migrator[p].done = {}
  BY <1>1, <1>2, <1>9 DEF Record, MayRecord, MigratorAt, SyncedSoFar
<1>10. CASE Record(p) /\ migrator[p].done # {}
  <2>. DEFINE r == migrator[p]
              n == migrator'[p]
              rest == r.done \ {Min(r.done)}
  <2>1. n = [r EXCEPT !.done = rest] /\ r.st = "record" /\ UNCHANGED <<unchanged, indexes>>
    BY <1>1, <1>10 DEF Record, MayRecord, MigratorAt
  <2>2. DOMAIN n = MigratorFields /\ n.st = r.st /\ n.m = r.m /\ n.k = r.k /\ n.last = r.last
        /\ n.batch = r.batch /\ n.done = rest
    BY <1>1, <2>1 DEF MigratorFields
  <2>3. r.m \in Nat \ {0} /\ r.k \in Nat \ {0} /\ r.last \in Nat
        /\ "record" \in MigratorStates /\ "record" \notin Working \cup {"check"}
    BY <1>1 DEF MigratorTypes, MigratorStates, Working
  <2>. HIDE DEF r, n, rest
  <2>4. MigratorTypes(p)'
    BY <2>1, <2>2, <2>3 DEF MigratorTypes, n
  <2>5. AppliedSoFar(p)'
    <3>1. r.done \subseteq 1..Len(Plan) /\ \A m \in r.done : \A op \in Range(Plan[m]) : Applied(op)
      BY DEF AtWork, AppliedSoFar, r
    <3>2. \A m \in r.done : \A op \in Range(Plan[m]) : Applied(op)'
      BY <3>1, MigrationStays
    <3>3. rest \subseteq r.done
      BY DEF rest
    <3>. QED
      BY <2>1, <2>2, <2>3, <3>1, <3>2, <3>3 DEF AppliedSoFar, n
  <2>6. UpdatedSoFar(p)'
    BY <2>1, <2>2, <2>3 DEF UpdatedSoFar, n
  <2>7. SyncedSoFar(p)'
    BY <1>1, <2>1, <2>2 DEF SyncedSoFar, n, r
  <2>. QED
    BY <2>4, <2>5, <2>6, <2>7 DEF AtWork, MigratorIsKept
<1>. QED
  BY <1>3, <1>4, <1>5, <1>6, <1>7, <1>8, <1>9, <1>10 DEF CheckAround

(* Whatever a process does, it keeps what it has done.                     *)
LEMMA StepIsKept ==
  ASSUME MigrationsAssumption, SchemaIsKept, DataMoves, NEW p \in Migrators,
         MigratorStep(p) \/ MigratorFails(p) \/ MigratorDies(p)
  PROVE  MigratorIsKept(p)'
<1>1. MigratorIsKept(p) /\ DOMAIN migrator = Migrators
  BY DEF SchemaIsKept
<1>2. CASE TakeLock(p)
  BY <1>2, StartIsKept DEF AtWork, MigratorIsKept
<1>3. CASE RenewLease(p)
  BY <1>1, <1>3, OthersAreKept DEF RenewLease
<1>4. CASE MigratorFails(p)
  BY <1>4, Leaving DEF MigratorFails, Throws
<1>5. CASE MigratorDies(p)
  BY <1>1, <1>5 DEF MigratorDies, MigratorIsKept
<1>6. CASE ~TakeLock(p) /\ ~RenewLease(p) /\ MigratorStep(p)
  <2>1. migrator[p].st # "away"
    BY <1>6 DEF MigratorStep, NextMigration, Check, FindBatch, CheckBatch, UpdateBatch, Merge,
                EnsureIndex, VerifyIndex, FindLegacyIndex, DropLegacyIndex, CheckAround,
                SyncIndexes, Record, MayRecord, MigratorAt
  <2>2. AtWork(p)
    BY <1>1, <2>1 DEF MigratorIsKept, AtWork, Away
  <2>3. CASE NextMigration(p) \/ FindBatch(p) \/ UpdateBatch(p)
    BY <2>2, <2>3, NextMigrationIsKept, FindBatchIsKept, UpdateBatchIsKept
       DEF AtWork, MigratorIsKept
  <2>4. CASE Check(p)
    BY <2>2, <2>4, CheckIsKept
  <2>5. CASE Merge(p) \/ EnsureIndex(p) \/ VerifyIndex(p) \/ FindLegacyIndex(p) \/ DropLegacyIndex(p)
    BY <2>2, <2>5, OperationIsKept
  <2>6. CASE CheckBatch(p) \/ CheckAround(p) \/ SyncIndexes(p) \/ Record(p)
    BY <2>2, <2>6, AroundIsKept
  <2>. QED
    BY <1>6, <2>3, <2>4, <2>5, <2>6 DEF MigratorStep
<1>. QED
  BY <1>2, <1>3, <1>4, <1>5, <1>6

LEMMA RecordsAreKept ==
  ASSUME MigrationsAssumption, SchemaIsKept, DataMoves, NEW p \in Migrators,
         MigratorStep(p) \/ MigratorFails(p) \/ MigratorDies(p)
  PROVE  RecordedIsApplied' /\ records' \subseteq 1..Len(Plan)
<1>1. RecordedIsApplied /\ records \subseteq 1..Len(Plan)
  BY DEF SchemaIsKept, MigrationTypeOK
<1>2. indexes = DeclaredIndexes => indexes' = DeclaredIndexes
  BY DEF DataMoves
<1>3. \A m \in records : \A op \in Range(Plan[m]) : Applied(op)'
  BY <1>1, MigrationStays DEF RecordedIsApplied
<1>4. CASE UNCHANGED records
  BY <1>1, <1>2, <1>3, <1>4 DEF RecordedIsApplied
<1>5. CASE Record(p) /\ migrator[p].done # {}
  <2>1. migrator[p].st = "record" /\ records' = records \cup {Min(migrator[p].done)}
    BY <1>5 DEF Record, MayRecord, MigratorAt
  <2>2. AppliedSoFar(p) /\ SyncedSoFar(p)
    BY <2>1 DEF SchemaIsKept, MigratorIsKept, Away
  <2>. PICK done : done = migrator[p].done
    OBVIOUS
  <2>3. done \subseteq 1..Len(Plan) /\ \A m \in done : \A op \in Range(Plan[m]) : Applied(op)
    BY <2>2 DEF AppliedSoFar
  <2>4. IsFiniteSet(1..Len(Plan)) /\ 1..Len(Plan) \subseteq Nat
    BY PlanFacts, FS_Interval
  <2>5. done \in SUBSET Nat /\ IsFiniteSet(done) /\ done # {}
    BY <1>5, <2>3, <2>4, FS_Subset
  <2>6. Min(done) \in done
    BY <2>5, Extremes
  <2>7. \A op \in Range(Plan[Min(done)]) : Applied(op)'
    BY <2>3, <2>6, MigrationStays
  <2>8. indexes' = DeclaredIndexes
    BY <1>2, <2>1, <2>2 DEF SyncedSoFar
  <2>. QED
    BY <1>1, <1>3, <2>1, <2>3, <2>6, <2>7, <2>8 DEF RecordedIsApplied
<1>6. CASE Record(p) /\ migrator[p].done = {}
  BY <1>4, <1>6 DEF Record
<1>7. ~Record(p) => UNCHANGED records
  BY DEF MigratorStep, TakeLock, NextMigration, Check, FindBatch, CheckBatch, UpdateBatch, Merge,
         EnsureIndex, VerifyIndex, FindLegacyIndex, DropLegacyIndex, CheckAround, SyncIndexes,
         RenewLease, MigratorFails, MigratorDies, Throws, schemaVars
<1>. QED
  BY <1>4, <1>5, <1>6, <1>7

(* What a step of one process leaves to the others.                        *)
LEMMA OthersAreLeft ==
  ASSUME SchemaIsKept, NEW p \in Migrators,
         MigratorStep(p) \/ MigratorFails(p) \/ MigratorDies(p)
  PROVE  /\ DOMAIN migrator' = Migrators /\ DOMAIN late' = Migrators
         /\ DOMAIN lock' = {"owner", "live"} /\ lock'.owner \in {lock.owner, p, "none"}
         /\ \A q \in Migrators \ {p} : migrator'[q] = migrator[q] /\ late'[q] = late[q]
<1>1. DOMAIN migrator = Migrators /\ DOMAIN late = Migrators /\ DOMAIN lock = {"owner", "live"}
  BY DEF SchemaIsKept
<1>2. DOMAIN Free = {"owner", "live"} /\ Free.owner = "none"
  BY DEF Free
<1>3. Leave(p) => /\ DOMAIN migrator' = Migrators /\ DOMAIN late' = Migrators
                  /\ DOMAIN lock' = {"owner", "live"} /\ lock'.owner \in {lock.owner, p, "none"}
                  /\ \A q \in Migrators \ {p} : migrator'[q] = migrator[q] /\ late'[q] = late[q]
  BY <1>1, <1>2 DEF Leave
<1>4. CASE TakeLock(p) \/ RenewLease(p) \/ MigratorFails(p) \/ MigratorDies(p)
  BY <1>1, <1>3, <1>4 DEF TakeLock, RenewLease, MigratorFails, MigratorDies, Throws
<1>5. CASE NextMigration(p) \/ Check(p) \/ FindBatch(p) \/ CheckBatch(p) \/ UpdateBatch(p)
  BY <1>1, <1>3, <1>5 DEF NextMigration, Check, FindBatch, CheckBatch, UpdateBatch, AssertHeld,
                          Onward, CountLate
<1>6. CASE Merge(p) \/ EnsureIndex(p) \/ VerifyIndex(p) \/ FindLegacyIndex(p) \/ DropLegacyIndex(p)
  BY <1>1, <1>3, <1>6 DEF Merge, EnsureIndex, VerifyIndex, FindLegacyIndex, DropLegacyIndex,
                          Onward, CountLate, Throws
<1>7. CASE CheckAround(p) \/ SyncIndexes(p) \/ Record(p)
  BY <1>1, <1>3, <1>7 DEF CheckAround, AssertHeld, SyncIndexes, Record, CountLate, Throws
<1>. QED
  BY <1>4, <1>5, <1>6, <1>7 DEF MigratorStep

(* A process that has written late looks at the lock next.                 *)
LEMMA LatenessIsNoticed ==
  ASSUME MigrationsAssumption, SchemaIsKept, NEW p \in Migrators,
         MigratorStep(p) \/ MigratorFails(p) \/ MigratorDies(p)
  PROVE  LateIsNoticed(p)'
<1>1. DOMAIN migrator = Migrators /\ DOMAIN late = Migrators /\ LateIsNoticed(p)
      /\ DOMAIN lock = {"owner", "live"}
  BY DEF SchemaIsKept
<1>2. "st" \in DOMAIN migrator[p]
  BY DEF SchemaIsKept, MigratorIsKept, Away, MigratorTypes, MigratorFields
<1>3. CASE late'[p] = 0
  BY <1>3 DEF LateIsNoticed
<1>4. Leave(p) => late'[p] = 0
  BY <1>1 DEF Leave
<1>5. ASSUME NEW st, migrator' = [migrator EXCEPT ![p].st = st], UNCHANGED <<lock, late>>,
             late[p] = 0
      PROVE  late'[p] = 0
  BY <1>1, <1>5
<1>6. late[p] = 1 => ~Holds(p)
  BY <1>1 DEF LateIsNoticed, Holds
<1>7. migrator[p].st \notin {"check", "synced"} => late[p] = 0
  BY <1>1 DEF LateIsNoticed
<1>8. ASSUME NEW st, AssertHeld(p, st) PROVE late'[p] = 0
  BY <1>1, <1>4, <1>6, <1>8 DEF AssertHeld, LateIsNoticed
<1>9. ASSUME CountLate(p), late[p] = 0, lock' = lock, migrator'[p].st \in {"check", "synced"}
      PROVE  LateIsNoticed(p)'
  BY <1>1, <1>9 DEF CountLate, LateIsNoticed
<1>10. Onward(p) => migrator'[p].st = "check"
  <2>. HAVE Onward(p)
  <2>1. migrator'[p] = [migrator[p] EXCEPT !.st = "check", !.k = @ + 1, !.last = 0]
    BY <1>1 DEF Onward
  <2>. QED
    BY <1>2, <2>1
<1>11. CASE TakeLock(p) \/ MigratorFails(p) \/ MigratorDies(p)
  BY <1>1, <1>3, <1>4, <1>11 DEF TakeLock, MigratorFails, MigratorDies, Throws
<1>12. CASE RenewLease(p)
  BY <1>1, <1>12 DEF RenewLease, LateIsNoticed
<1>13. CASE NextMigration(p) \/ FindBatch(p) \/ FindLegacyIndex(p) \/ Record(p)
  BY <1>3, <1>7, <1>13 DEF NextMigration, FindBatch, FindLegacyIndex, Record, MayRecord, MigratorAt
<1>14. CASE Check(p)
  BY <1>1, <1>3, <1>4, <1>6, <1>8, <1>14 DEF Check, LateIsNoticed
<1>15. CASE CheckBatch(p) \/ CheckAround(p)
  BY <1>3, <1>4, <1>8, <1>15 DEF CheckBatch, CheckAround
<1>16. CASE UpdateBatch(p)
  <2>1. migrator'[p] = [migrator[p] EXCEPT !.st = "check", !.last = Max(migrator[p].batch),
                                           !.batch = {}]
    BY <1>1, <1>16 DEF UpdateBatch
  <2>2. migrator'[p].st = "check"
    BY <1>2, <2>1
  <2>. QED
    BY <1>7, <1>9, <1>16, <2>2 DEF UpdateBatch, MigratorAt
<1>17. CASE Merge(p) \/ EnsureIndex(p)
  BY <1>7, <1>9, <1>10, <1>17 DEF Merge, EnsureIndex, MigratorAt
<1>18. CASE VerifyIndex(p)
  BY <1>3, <1>4, <1>7, <1>18 DEF VerifyIndex, MigratorAt, Throws
<1>19. CASE DropLegacyIndex(p)
  BY <1>3, <1>4, <1>7, <1>9, <1>10, <1>19 DEF DropLegacyIndex, MigratorAt, Throws
<1>20. CASE SyncIndexes(p)
  <2>1. CASE indexes \subseteq DeclaredIndexes
    <3>1. migrator'[p].st = "synced"
      BY <1>1, <1>2, <1>20, <2>1 DEF SyncIndexes
    <3>. QED
      BY <1>7, <1>9, <1>20, <2>1, <3>1 DEF SyncIndexes, MigratorAt
  <2>2. CASE ~(indexes \subseteq DeclaredIndexes)
    BY <1>3, <1>4, <1>20, <2>2 DEF SyncIndexes, Throws
  <2>. QED
    BY <2>1, <2>2
<1>. QED
  BY <1>11, <1>12, <1>13, <1>14, <1>15, <1>16, <1>17, <1>18, <1>19, <1>20 DEF MigratorStep

LEMMA SchemaIsKeptByStep ==
  ASSUME MigrationsAssumption, SchemaIsKept, NEW p \in Migrators,
         MigratorStep(p) \/ MigratorFails(p) \/ MigratorDies(p)
  PROVE  SchemaIsKept'
<1>1. DataMoves
  <2>1. CASE MigratorStep(p)
    BY <2>1, DataAreMoved
  <2>2. CASE MigratorFails(p) \/ MigratorDies(p)
    <3>1. UNCHANGED <<unchanged, indexes>>
      BY <2>2 DEF MigratorFails, MigratorDies, Throws, schemaVars
    <3>2. DOMAIN unchanged = Fields
      BY DEF SchemaIsKept
    <3>. QED
      BY <3>1, <3>2 DEF DataMoves
  <2>. QED
    BY <2>1, <2>2
<1>2. RecordedIsApplied' /\ records' \subseteq 1..Len(Plan)
  BY <1>1, RecordsAreKept
<1>3. /\ DOMAIN migrator' = Migrators /\ DOMAIN late' = Migrators
      /\ DOMAIN lock' = {"owner", "live"} /\ lock'.owner \in {lock.owner, p, "none"}
      /\ \A q \in Migrators \ {p} : migrator'[q] = migrator[q] /\ late'[q] = late[q]
  BY OthersAreLeft
<1>4. \A q \in Migrators : MigratorIsKept(q)'
  BY <1>1, <1>3, StepIsKept, OthersAreKept DEF SchemaIsKept
<1>5. \A q \in Migrators : LateIsNoticed(q)'
  <2>. TAKE q \in Migrators
  <2>1. CASE q = p
    BY <2>1, LatenessIsNoticed
  <2>2. CASE q # p
    <3>1. LateIsNoticed(q) /\ q # "none"
      BY DEF SchemaIsKept, MigrationsAssumption
    <3>. QED
      BY <1>3, <2>2, <3>1 DEF LateIsNoticed
  <2>. QED
    BY <2>1, <2>2
<1>6. MigrationTypeOK'
  <2>1. MigrationTypeOK
    BY DEF SchemaIsKept
  <2>. QED
    BY <1>1, <1>2, <1>3, <2>1 DEF MigrationTypeOK, DataMoves
<1>. QED
  BY <1>1, <1>2, <1>3, <1>4, <1>5, <1>6 DEF SchemaIsKept, DataMoves

(* database/database-migrations.ts: requests that write meet a database in *)
(* which every migration that is recorded has been applied completely, and *)
(* a process that has lost the lock writes once at most before it notices: *)
(* for every plan of updates, merges and indexes, every number of          *)
(* processes, and whenever they stall, fail or die. What an operation has  *)
(* done is never undone, not by a process that is late either; a process   *)
(* records what it has applied, after the indexes have been those of the   *)
(* schemas.                                                                *)
THEOREM SchemasAreMigrated ==
  ASSUME MigrationsAssumption
  PROVE  MigrationSpec => [](SchemaIsMigrated /\ MigrationTypeOK)
<1>1. MigrationInit => SchemaIsKept
  <2>. HAVE MigrationInit
  <2>1. \A p \in Migrators : MigratorIsKept(p) /\ LateIsNoticed(p)
    BY DEF MigrationInit, MigratorIsKept, LateIsNoticed, Free, Away
  <2>. QED
    BY <2>1 DEF MigrationInit, SchemaIsKept, MigrationTypeOK, RecordedIsApplied, Free
<1>2. SchemaIsKept /\ [MigrationNext]_migrationVars => SchemaIsKept'
  <2>. SUFFICES ASSUME SchemaIsKept, [MigrationNext]_migrationVars PROVE SchemaIsKept'
    OBVIOUS
  <2>1. CASE \E p \in Migrators : MigratorStep(p) \/ MigratorFails(p) \/ MigratorDies(p)
    BY <2>1, SchemaIsKeptByStep
  <2>2. CASE LeaseRunsOff \/ UNCHANGED migrationVars
    <3>1. UNCHANGED <<unchanged, indexes, records, migrator, late>>
          /\ DOMAIN lock' = {"owner", "live"} /\ lock'.owner = lock.owner
      BY <2>2 DEF SchemaIsKept, LeaseRunsOff, migrationVars, schemaVars
    <3>2. DataMoves
      BY <3>1 DEF SchemaIsKept, DataMoves
    <3>3. \A p \in Migrators : MigratorIsKept(p)' /\ LateIsNoticed(p)'
      BY <3>1, <3>2, OthersAreKept DEF SchemaIsKept, LateIsNoticed
    <3>. QED
      BY <3>1, <3>3 DEF SchemaIsKept, MigrationTypeOK, RecordedIsApplied, Applied
  <2>. QED
    BY <2>1, <2>2 DEF MigrationNext
<1>3. SchemaIsKept => SchemaIsMigrated /\ MigrationTypeOK
  BY DEF SchemaIsKept, SchemaIsMigrated, OneLateWrite, LateIsNoticed
<1>. QED
  BY <1>1, <1>2, <1>3, PTL DEF MigrationSpec

-----------------------------------------------------------------------------
(* THE COMPONENTS SIDE BY SIDE                                             *)

(* For any number of tabs, rotations, keys and links: what a browser and   *)
(* an agent are let in with is not lost in a race.                         *)
THEOREM CredentialsKept ==
  ASSUME BrowserAssumption, GuideLinkAssumption
  PROVE  CredentialsSpec => []CredentialsAreKept
<1>1. SessionSpec => []SessionIsKept
  BY SessionsAreKept, PTL
<1>2. LinkSpec => []LinkIsKept
  BY LinksAreKept, PTL
<1>. QED
  BY <1>1, <1>2, PTL DEF CredentialsSpec, CredentialsAreKept

(* What is proved of each component alone holds in a behaviour where it    *)
(* shares the documents with the others: a component writes documents of   *)
(* its own kinds only, so that all others stay what they were at first.    *)

(* Calls of tools ...                                                      *)
LEMMA CallsTouch ==
  ASSUME TxnShape, WritesOnly(CallKinds), [IdempotencyNext]_idempotencyVars
  PROVE  TouchesOnly(CallKinds)
<1>. DEFINE K == CallKinds
<1>1. \A x : RecordId(x)[1] \in K /\ EffectId(x)[1] \in K
  BY DEF RecordId, EffectId, CallKinds
<1>2. ASSUME NEW s \in Sessions, Execute(s)
      PROVE  TouchesOnly(K)
  <2>1. CASE UNCHANGED <<db, txn>>
    BY <2>1, RestTouches
  <2>2. ASSUME NEW e, OpenTxn(s, OperationWrites(calls[s].key, calls[s].input, e))
        PROVE  TouchesOnly(K)
    <3>. DEFINE w == OperationWrites(calls[s].key, calls[s].input, e)
    <3>1. Only(w, K)
      BY <1>1, OnlyFacts DEF OperationWrites
    <3>. HIDE DEF w
    <3>2. PICK v : v = w
      OBVIOUS
    <3>. QED
      BY <2>2, <3>1, OpenTouches DEF w
  <2>. QED
    BY <1>2, <2>1, <2>2 DEF Execute
<1>3. ASSUME NEW k \in Keys, ExpireRecord(k)
      PROVE  TouchesOnly(K)
  <2>1. txn' = txn
    BY <1>3 DEF ExpireRecord
  <2>2. \A id : id[1] \notin K => (Has(db', id) <=> Has(db, id)) /\ (Has(db, id) => db'[id] = db[id])
    BY <1>1, <1>3 DEF ExpireRecord, Restrict, Has
  <2>. QED
    BY <2>1, <2>2 DEF TouchesOnly, WritesOnly, SameBut
<1>4. ASSUME NEW s \in Sessions, Ask(s) \/ CommitWrite(s) \/ CatchDuplicateKey(s) \/ Throw(s)
      PROVE  TouchesOnly(K)
  BY <1>4, RestTouches, CommitTouches, AbortTouches DEF Ask, CommitWrite, CatchDuplicateKey, Throw
<1>5. CASE UNCHANGED idempotencyVars
  BY <1>5, RestTouches DEF idempotencyVars
<1>. QED
  BY <1>2, <1>3, <1>4, <1>5 DEF IdempotencyNext

(* ... of the registration, ...                                            *)
LEMMA AccountsTouch ==
  ASSUME TxnShape, WritesOnly(AccountKinds), [RegistrationNext]_registrationVars
  PROVE  TouchesOnly(AccountKinds)
<1>. DEFINE K == AccountKinds
<1>1. /\ Policy[1] \in K /\ Initialization[1] \in K
      /\ \A x : /\ ChallengeId(x)[1] \in K /\ InvitationId(x)[1] \in K
                /\ UserId(x)[1] \in K /\ SessionId(x)[1] \in K
  BY DEF Policy, Initialization, ChallengeId, InvitationId, UserId, SessionId, AccountKinds
<1>2. ASSUME NEW w, Only(w, K), WriteNow(w)
      PROVE  TouchesOnly(K)
  BY <1>2, AloneTouches DEF WriteNow
<1>3. \A id, v : id[1] \in K /\ WriteNow(Put(id, v)) => TouchesOnly(K)
  BY <1>2, OnlyFacts
<1>4. CASE UpdatePolicy
  BY <1>1, <1>3, <1>4 DEF UpdatePolicy
<1>5. ASSUME NEW c, SendChallenge(c) \/ WrongCode(c)
      PROVE  TouchesOnly(K)
  BY <1>1, <1>3, <1>5 DEF SendChallenge, WrongCode
<1>6. ASSUME NEW i, RevokeInvitation(i)
      PROVE  TouchesOnly(K)
  BY <1>1, <1>3, <1>6 DEF RevokeInvitation
<1>7. ASSUME NEW id, id[1] \in K, CodeExpires(id)
      PROVE  TouchesOnly(K)
  <2>1. txn' = txn
    BY <1>7 DEF CodeExpires
  <2>2. \A x : x # id => (Has(db', x) <=> Has(db, x)) /\ (Has(db, x) => db'[x] = db[x])
    BY <1>7 DEF CodeExpires, Has
  <2>. QED
    BY <1>7, <2>1, <2>2 DEF TouchesOnly, WritesOnly, SameBut
<1>8. \A r, role, i : Only(Account(r, role, i), K)
  BY <1>1, OnlyFacts DEF Account
<1>9. Only(PolicyHeld, K) /\ (\A c : Only(ChallengeConsumed(c), K)) /\ (\A i, e : Only(InvitationUsed(i, e), K))
      /\ (\A r : Only(Initialized(r), K)) /\ \A e : Only(SessionsRevoked(e), K)
  BY <1>1, OnlyFacts DEF PolicyHeld, ChallengeConsumed, InvitationUsed, Initialized, SessionsRevoked
<1>10. ASSUME NEW s \in Sessions, Register(s)
       PROVE  TouchesOnly(K)
  <2>. DEFINE r == requests[s]
              i == IF NeedsInvitation(r) THEN r.invitation ELSE Nobody
              v == IF NeedsInvitation(r) THEN InvitationUsed(r.invitation, r.email) ELSE <<>>
              w == Apply(Apply(PolicyHeld, Account(r, "USER", i)),
                         Apply(ChallengeConsumed(r.challenge), v))
  <2>1. Only(v, K)
    BY <1>9, OnlyFacts
  <2>2. OpenTxn(s, w)
    BY <1>10 DEF Register
  <2>. HIDE DEF v, i, r
  <2>3. Only(w, K)
    BY <1>8, <1>9, <2>1, OnlyFacts
  <2>. HIDE DEF w
  <2>. QED
    BY <2>2, <2>3, OpenTouches
<1>11. ASSUME NEW s \in Sessions, Initialize(s)
       PROVE  TouchesOnly(K)
  <2>. DEFINE r == requests[s]
              w == Apply(Account(r, "ADMIN", Nobody), Initialized(r))
  <2>1. OpenTxn(s, w)
    BY <1>11 DEF Initialize
  <2>. HIDE DEF r
  <2>2. Only(w, K)
    BY <1>8, <1>9, OnlyFacts
  <2>. HIDE DEF w
  <2>. QED
    BY <2>1, <2>2, OpenTouches
<1>12. ASSUME NEW s \in Sessions, ResetPassword(s)
       PROVE  TouchesOnly(K)
  <2>. DEFINE r == requests[s]
              u == [db[UserId(r.email)] EXCEPT !.tokenVersion = @ + 1, !.resetBy = @ \cup {r.challenge}]
              w == Apply(Apply(PolicyHeld, ChallengeConsumed(r.challenge)),
                         Apply(Put(UserId(r.email), u), SessionsRevoked(r.email)))
  <2>1. OpenTxn(s, w)
    BY <1>12 DEF ResetPassword
  <2>. HIDE DEF r, u
  <2>2. Only(w, K)
    BY <1>1, <1>9, OnlyFacts
  <2>. HIDE DEF w
  <2>. QED
    BY <2>1, <2>2, OpenTouches
<1>13. ASSUME NEW s \in Sessions, Fail(s)
       PROVE  TouchesOnly(K)
  <2>1. db' = db /\ txn' = [txn EXCEPT ![s] = NoTxn]
    BY <1>13 DEF Fail
  <2>2. \A u \in Sessions : txn'[u].open => txn'[u] = txn[u]
    BY <2>1 DEF TxnShape, NoTxn
  <2>. QED
    BY <2>1, <2>2 DEF TouchesOnly, WritesOnly, SameBut
<1>14. ASSUME NEW s \in Sessions, Verify(s) \/ AskInitialize(s) \/ Respond(s)
       PROVE  TouchesOnly(K)
  BY <1>14, RestTouches, CommitTouches DEF Verify, AskInitialize, Respond
<1>15. CASE UNCHANGED registrationVars
  BY <1>15, RestTouches DEF registrationVars
<1>. QED
  BY <1>1, <1>4, <1>5, <1>6, <1>7, <1>10, <1>11, <1>12, <1>13, <1>14, <1>15
     DEF RegistrationNext, RequestStep

(* ... and of the progression, ...                                         *)
LEMMA ProgressTouches ==
  ASSUME TxnShape, WritesOnly(ProgressKinds), [ProgressionNext]_progressionVars
  PROVE  TouchesOnly(ProgressKinds)
<1>. DEFINE K == ProgressKinds
<1>1. /\ Progress[1] \in K
      /\ \A x : /\ ActionId(x)[1] \in K /\ ChargeId(x)[1] \in K
                /\ AdjustmentId(x)[1] \in K /\ TaskId(x)[1] \in K
  BY DEF Progress, ActionId, ChargeId, AdjustmentId, TaskId, ProgressKinds, EventKinds
<1>2. /\ \A v : Only(Put(Progress, v), K)
      /\ \A x, v : /\ Only(Put(ActionId(x), v), K) /\ Only(Put(ChargeId(x), v), K)
                   /\ Only(Put(AdjustmentId(x), v), K) /\ Only(Put(TaskId(x), v), K)
      /\ \A v, w : Only(v, K) /\ Only(w, K) => Only(Apply(v, w), K)
      /\ Only(<<>>, K)
  BY <1>1, OnlyFacts
<1>3. \A p : Only(TaskEvents(p), K)
  BY <1>2 DEF TaskEvents
<1>4. ASSUME NEW s \in Sessions,
             \/ \E now \in 0..time :
                  ReadProgress(s, now) \/ \E delta \in Adjustments : AdjustXp(s, delta, now)
             \/ \E x \in Sources : ApplyAction(s, x) \/ ChargeAction(s, x) \/ CompleteAction(s, x)
      PROVE  \E w : OpenTxn(s, w) /\ Only(w, K)
  <2>. HIDE DEF K
  <2>1. ASSUME NEW now, ReadProgress(s, now)
        PROVE  \E w : OpenTxn(s, w) /\ Only(w, K)
    BY <1>2, <2>1 DEF ReadProgress, SaveIfChanged
  <2>2. ASSUME NEW x, ApplyAction(s, x)
        PROVE  \E w : OpenTxn(s, w) /\ Only(w, K)
    BY <1>2, <1>3, <2>2 DEF ApplyAction
  <2>3. ASSUME NEW x, ChargeAction(s, x)
        PROVE  \E w : OpenTxn(s, w) /\ Only(w, K)
    BY <1>2, <1>3, <2>3 DEF ChargeAction
  <2>4. ASSUME NEW x, CompleteAction(s, x)
        PROVE  \E w : OpenTxn(s, w) /\ Only(w, K)
    BY <1>2, <1>3, <2>4 DEF CompleteAction
  <2>5. ASSUME NEW now, NEW x, AdjustXp(s, x, now)
        PROVE  \E w : OpenTxn(s, w) /\ Only(w, K)
    BY <1>2, <1>3, <2>5 DEF AdjustXp
  <2>. QED
    BY <1>4, <2>1, <2>2, <2>3, <2>4, <2>5
<1>5. CASE TimePasses \/ UNCHANGED progressionVars
  BY <1>5, RestTouches DEF TimePasses, progressionVars
<1>6. ASSUME NEW s \in Sessions, CommitTxn(s) \/ AbortTxn(s)
      PROVE  TouchesOnly(K)
  BY <1>6, CommitTouches, AbortTouches
<1>7. ASSUME NEW s \in Sessions, NEW w, OpenTxn(s, w), Only(w, K)
      PROVE  TouchesOnly(K)
  BY <1>7, OpenTouches
<1>. QED
  BY <1>4, <1>5, <1>6, <1>7 DEF ProgressionNext

(* ... and of the community, ...                                           *)
LEMMA CommunityTouches ==
  ASSUME TxnShape, WritesOnly(CommunityKinds), [ContentNext]_<<db, txn>>
  PROVE  TouchesOnly(CommunityKinds)
<1>. DEFINE K == CommunityKinds
<1>1. \A x, y : /\ Agent(x)[1] \in K /\ CircleOf(x)[1] \in K /\ Membership(x, y)[1] \in K
                /\ PostId(x)[1] \in K /\ RequestId(x)[1] \in K /\ PendingName(x)[1] \in K
                /\ Charge(x)[1] \in K /\ Reward(x)[1] \in K
  BY DEF Agent, CircleOf, Membership, PostId, RequestId, PendingName, Charge, Reward, CommunityKinds
<1>2. /\ \A x, v : /\ Only(Put(Agent(x), v), K) /\ Only(Put(CircleOf(x), v), K)
                   /\ Only(Put(PostId(x), v), K) /\ Only(Put(RequestId(x), v), K)
                   /\ Only(Put(PendingName(x), v), K)
                   /\ Only(Put(Charge(x), v), K) /\ Only(Put(Reward(x), v), K)
      /\ \A x, y, v : Only(Put(Membership(x, y), v), K)
      /\ \A v, w : Only(v, K) /\ Only(w, K) => Only(Apply(v, w), K)
      /\ Only(<<>>, K)
  BY <1>1, OnlyFacts
<1>. HIDE DEF K
<1>3. /\ \A a : Only(Reserve(a), K)
      /\ \A n, a, window, official : Only(NewCircle(n, a, window, official), K)
      /\ \A n, x, a, admin : Only(NewPost(n, x, a, admin), K)
      /\ \A x, status : Only(Decided(x, status), K)
  <2>1. \A a : Only(Reserve(a), K)
    BY <1>2 DEF Reserve
  <2>2. \A n, a, window, official : Only(NewCircle(n, a, window, official), K)
    BY <1>2 DEF NewCircle
  <2>3. \A n, x, a, admin : Only(NewPost(n, x, a, admin), K)
    BY <1>2 DEF NewPost
  <2>4. \A x, status : Only(Decided(x, status), K)
    BY <1>2 DEF Decided
  <2>. QED
    BY <2>1, <2>2, <2>3, <2>4
<1>4. ASSUME NEW s \in Sessions, NEW a, NEW n, Join(s, a, n) \/ LeaveCircle(s, a, n)
      PROVE  \E w : OpenTxn(s, w) /\ Only(w, K)
  BY <1>2, <1>4 DEF Join, LeaveCircle
<1>5. ASSUME NEW s \in Sessions, NEW a, NEW n, CreateCircle(s, a, n)
      PROVE  \E w : OpenTxn(s, w) /\ Only(w, K)
  BY <1>2, <1>3, <1>5 DEF CreateCircle
<1>6. ASSUME NEW s \in Sessions, NEW a, NEW n, NEW x, RequestCircle(s, a, n, x)
      PROVE  \E w : OpenTxn(s, w) /\ Only(w, K)
  BY <1>2, <1>3, <1>6 DEF RequestCircle
<1>7. ASSUME NEW s \in Sessions, NEW a, NEW n, NEW x, NEW admin, CreatePost(s, a, n, x, admin)
      PROVE  \E w : OpenTxn(s, w) /\ Only(w, K)
  BY <1>2, <1>3, <1>7 DEF CreatePost
<1>8. ASSUME NEW s \in Sessions, NEW a, NEW n, NEW x, NEW admin, RequestPost(s, a, n, x, admin)
      PROVE  \E w : OpenTxn(s, w) /\ Only(w, K)
  BY <1>2, <1>3, <1>8 DEF RequestPost
<1>9. ASSUME NEW s \in Sessions, NEW n, CreateCircleForAdmin(s, n) \/ ChangeCircle(s, n)
      PROVE  \E w : OpenTxn(s, w) /\ Only(w, K)
  BY <1>2, <1>3, <1>9 DEF CreateCircleForAdmin, ChangeCircle
<1>10. ASSUME NEW s \in Sessions, NEW x, Reject(s, x) \/ ApproveCircle(s, x) \/ ApprovePost(s, x)
       PROVE  \E w : OpenTxn(s, w) /\ Only(w, K)
  BY <1>2, <1>3, <1>10 DEF Reject, ApproveCircle, ApprovePost
<1>11. ASSUME NEW s \in Sessions, CommunityWrite(s)
       PROVE  TouchesOnly(K)
  <2>1. PICK w : OpenTxn(s, w) /\ Only(w, K)
    BY <1>4, <1>5, <1>6, <1>7, <1>8, <1>9, <1>10, <1>11 DEF CommunityWrite
  <2>. QED
    BY <2>1, OpenTouches DEF K
<1>12. ASSUME NEW a, WindowPasses(a)
       PROVE  TouchesOnly(K)
  <2>1. txn' = txn
    BY <1>12 DEF WindowPasses
  <2>2. \A x : x # Agent(a) => (Has(db', x) <=> Has(db, x)) /\ (Has(db, x) => db'[x] = db[x])
    BY <1>12 DEF WindowPasses, Has
  <2>. QED
    BY <1>1, <2>1, <2>2 DEF TouchesOnly, WritesOnly, SameBut, K
<1>13. ASSUME NEW s \in Sessions, CommitTxn(s) \/ AbortTxn(s)
       PROVE  TouchesOnly(K)
  BY <1>13, CommitTouches, AbortTouches DEF K
<1>14. CASE UNCHANGED <<db, txn>>
  BY <1>14, RestTouches DEF K
<1>. QED
  BY <1>11, <1>12, <1>13, <1>14 DEF ContentNext, K

(* ... and of the watch lists, ...                                         *)
LEMMA WatchesTouch ==
  ASSUME TxnShape, WritesOnly(WatchKinds), [WatchNext]_<<db, txn>>
  PROVE  TouchesOnly(WatchKinds)
<1>. DEFINE K == WatchKinds
<1>1. \A x : OfAgent(x)[1] \in K /\ OfPost(x)[1] \in K /\ PostOf(x)[1] \in K
  BY DEF OfAgent, OfPost, PostOf, WatchKinds
<1>2. /\ \A x, v : /\ Only(Put(OfAgent(x), v), K) /\ Only(Put(OfPost(x), v), K)
                   /\ Only(Put(PostOf(x), v), K)
      /\ \A v, w : Only(v, K) /\ Only(w, K) => Only(Apply(v, w), K)
      /\ Only(<<>>, K)
  BY <1>1, OnlyFacts
<1>. HIDE DEF K
<1>3. ASSUME NEW s \in Sessions, NEW a, NEW p,
             Watch(s, a, p) \/ Unwatch(s, a, p) \/ RemoveWatched(s, p)
      PROVE  TouchesOnly(K)
  <2>1. Only(Unwatched(a, p), K)
    BY <1>2 DEF Unwatched
  <2>2. PICK w : OpenTxn(s, w) /\ Only(w, K)
    BY <1>2, <1>3, <2>1 DEF Watch, Unwatch, RemoveWatched
  <2>. QED
    BY <2>2, OpenTouches DEF K
<1>4. ASSUME NEW s \in Sessions, CommitTxn(s) \/ AbortTxn(s)
      PROVE  TouchesOnly(K)
  BY <1>4, CommitTouches, AbortTouches DEF K
<1>5. CASE UNCHANGED <<db, txn>>
  BY <1>5, RestTouches DEF K
<1>. QED
  BY <1>3, <1>4, <1>5 DEF WatchNext, K

(* ... and of what is counted of a post, ...                               *)
LEMMA RecordsTouch ==
  ASSUME TxnShape, WritesOnly(RecordKinds), [RecordsNext]_<<db, txn>>
  PROVE  TouchesOnly(RecordKinds)
<1>. DEFINE K == RecordKinds
<1>1. Subject[1] \in K /\ \A x, y : Opinion(x)[1] \in K /\ ViewOf(x, y)[1] \in K /\ Shard(x)[1] \in K
  BY DEF Subject, Opinion, ViewOf, Shard, RecordKinds
<1>2. /\ \A v : Only(Put(Subject, v), K)
      /\ \A x, v : Only(Put(Opinion(x), v), K) /\ Only(Put(Shard(x), v), K)
      /\ \A x, y, v : Only(Put(ViewOf(x, y), v), K)
      /\ \A v, w : Only(v, K) /\ Only(w, K) => Only(Apply(v, w), K)
  BY <1>1, OnlyFacts
<1>. HIDE DEF K
<1>3. \A a, kind : Only(Gives(a, kind), K) /\ Only(TakesBack(a, kind), K) /\ Only(Changes(a, kind), K)
  <2>1. \A a, kind : Only(Gives(a, kind), K) /\ Only(TakesBack(a, kind), K)
    BY <1>2 DEF Gives, TakesBack
  <2>2. \A a, kind : Only(Changes(a, kind), K)
    BY <1>2 DEF Changes
  <2>. QED
    BY <2>1, <2>2
<1>4. ASSUME NEW s \in Sessions, NEW a, NEW kind, FeedbackOnPost(s, a, kind) \/ ResolveDuplicate(s, a, kind)
      PROVE  \E w : OpenTxn(s, w) /\ Only(w, K)
  BY <1>3, <1>4 DEF FeedbackOnPost, ResolveDuplicate
<1>5. ASSUME NEW s \in Sessions, SetSubjectRemoved(s)
      PROVE  \E w : OpenTxn(s, w) /\ Only(w, K)
  BY <1>2, <1>5 DEF SetSubjectRemoved
<1>6. ASSUME NEW s \in Sessions, NEW a, NEW day, NEW n, ViewPost(s, a, day, n)
      PROVE  \E w : OpenTxn(s, w) /\ Only(w, K)
  BY <1>2, <1>6 DEF ViewPost
<1>7. ASSUME NEW s \in Sessions, NEW w, OpenTxn(s, w), Only(w, K)
      PROVE  TouchesOnly(K)
  BY <1>7, OpenTouches DEF K
<1>8. ASSUME NEW n, ViewAsGuest(n)
      PROVE  TouchesOnly(K)
  <2>1. PICK w : WriteAlone(w) /\ Only(w, K)
    BY <1>2, <1>8 DEF ViewAsGuest
  <2>. QED
    BY <2>1, AloneTouches DEF K
<1>9. ASSUME NEW s \in Sessions, CommitTxn(s) \/ AbortTxn(s)
      PROVE  TouchesOnly(K)
  BY <1>9, CommitTouches, AbortTouches DEF K
<1>10. CASE UNCHANGED <<db, txn>>
  BY <1>10, RestTouches DEF K
<1>. QED
  BY <1>4, <1>5, <1>6, <1>7, <1>8, <1>9, <1>10 DEF RecordsNext, K

(* ... and of the administrators.                                          *)
LEMMA SystemTouches ==
  ASSUME TxnShape, WritesOnly(SystemKinds),
         SettingsNext \/ MailNext \/ UNCHANGED <<db, txn>>
  PROVE  TouchesOnly(SystemKinds)
<1>. DEFINE K == SystemKinds
<1>1. /\ MailPolicy[1] \in K
      /\ \A x, y : /\ SettingId(x)[1] \in K /\ AnnouncementId(x)[1] \in K
                   /\ ReaderId(x)[1] \in K /\ NoticeId(x, y)[1] \in K
  BY DEF MailPolicy, SettingId, AnnouncementId, ReaderId, NoticeId, SystemKinds
<1>2. /\ \A v : Only(Put(MailPolicy, v), K)
      /\ \A x, v : /\ Only(Put(SettingId(x), v), K) /\ Only(Put(AnnouncementId(x), v), K)
                   /\ Only(Put(ReaderId(x), v), K)
      /\ \A x, y, v : Only(Put(NoticeId(x, y), v), K)
      /\ \A v, w : Only(v, K) /\ Only(w, K) => Only(Apply(v, w), K)
  BY <1>1, OnlyFacts
<1>3. \A x : Only(NoticesForAll(x), K)
  BY <1>1 DEF NoticesForAll, Only, Has
<1>. HIDE DEF K
<1>4. ASSUME NEW s \in Sessions, NEW k, NEW seen, ChangeSetting(s, k, seen)
      PROVE  \E w : OpenTxn(s, w) /\ Only(w, K)
  BY <1>2, <1>4 DEF ChangeSetting
<1>5. ASSUME NEW s \in Sessions, NEW x, NEW seen,
             \/ CreateAnnouncement(s, x) \/ UpdateAnnouncement(s, x, seen)
             \/ WithdrawAnnouncement(s, x, seen) \/ DeleteDraft(s, x, seen)
      PROVE  \E w : OpenTxn(s, w) /\ Only(w, K)
  BY <1>2, <1>5 DEF CreateAnnouncement, UpdateAnnouncement, WithdrawAnnouncement, DeleteDraft
<1>6. ASSUME NEW s \in Sessions, NEW x, NEW seen, PublishAnnouncement(s, x, seen)
      PROVE  \E w : OpenTxn(s, w) /\ Only(w, K)
  BY <1>2, <1>3, <1>6 DEF PublishAnnouncement
<1>7. ASSUME NEW s \in Sessions, NEW w, OpenTxn(s, w), Only(w, K)
      PROVE  TouchesOnly(K)
  BY <1>7, OpenTouches DEF K
<1>8. ASSUME NEW w, WriteAlone(w), Only(w, K)
      PROVE  TouchesOnly(K)
  BY <1>8, AloneTouches DEF K
<1>9. ASSUME NEW x, NEW a, MarkRead(x, a) \/ NewReader(a)
      PROVE  TouchesOnly(K)
  BY <1>2, <1>8, <1>9 DEF MarkRead, NewReader
<1>10. ASSUME NEW s \in Sessions, CommitTxn(s) \/ AbortTxn(s)
       PROVE  TouchesOnly(K)
  BY <1>10, CommitTouches, AbortTouches DEF K
<1>11. CASE UNCHANGED <<db, txn>>
  BY <1>11, RestTouches DEF K
<1>12. CASE SettingsNext
  BY <1>4, <1>5, <1>6, <1>7, <1>9, <1>10, <1>12 DEF SettingsNext, K
<1>13. CASE MailNext
  <2>1. ASSUME NEW e, WritePolicy(e) \/ MarkVerified(e)
        PROVE  TouchesOnly(K)
    BY <1>2, <1>8, <1>11, <2>1 DEF WritePolicy, MarkVerified, K
  <2>2. ASSUME NEW e, ReadToChange(e) \/ ReadToTest(e) \/ SendTest(e) \/ DeskFails(e)
        PROVE  TouchesOnly(K)
    BY <1>11, <2>2 DEF ReadToChange, ReadToTest, SendTest, DeskFails, K
  <2>. QED
    BY <1>13, <2>1, <2>2 DEF MailNext, K
<1>. QED
  BY <1>11, <1>12, <1>13 DEF K

LEMMA FirstAre ==
  ASSUME NEW S
  PROVE  LET d == First(S)
         IN  /\ \A id : Has(d, id) <=>
                  \/ id = Policy \/ (\E i \in Invitations : id = InvitationId(i))
                  \/ (\E p \in WatchedPosts : id = PostOf(p))
                  \/ id = Subject \/ id = MailPolicy \/ Has(FirstCommunity(S), id)
             /\ d[Policy] = [version |-> 1, invite |-> FALSE, uses |-> 0]
             /\ \A i \in Invitations :
                  d[InvitationId(i)] = [usedBy |-> Nobody, revoked |-> FALSE, expired |-> FALSE]
             /\ d[Subject] = [shown |-> TRUE, counts |-> [k \in Kinds |-> 0]]
             /\ d[MailPolicy] = [version |-> 1, mail |-> 0, verified |-> FALSE]
             /\ \A id : Has(FirstCommunity(S), id) => d[id] = FirstCommunity(S)[id]
<1>. DEFINE c == FirstCommunity(S)
            m == Apply(FirstMailPolicy, c)
            r == Apply(FirstRecords, m)
            p == Apply(FirstPosts, r)
            d == Apply(FirstDocuments, p)
<1>1. /\ \A id : Has(FirstMailPolicy, id) <=> id = MailPolicy
      /\ FirstMailPolicy[MailPolicy] = [version |-> 1, mail |-> 0, verified |-> FALSE]
      /\ \A id : Has(FirstRecords, id) <=> id = Subject
      /\ FirstRecords[Subject] = [shown |-> TRUE, counts |-> [k \in Kinds |-> 0]]
  BY OneDocument DEF FirstMailPolicy, FirstRecords
<1>2. \A id : Has(FirstPosts, id) <=> \E q \in WatchedPosts : id = PostOf(q)
  BY DEF FirstPosts, Has
<1>3. \A id : Has(c, id) => id[1] \in {"agent", "circle"}
  BY FirstCommunityIs DEF Agent, CircleOf
<1>. HIDE DEF c
<1>4. /\ \A id : Has(m, id) <=> id = MailPolicy \/ Has(c, id)
      /\ m[MailPolicy] = [version |-> 1, mail |-> 0, verified |-> FALSE]
      /\ \A id : Has(c, id) => m[id] = c[id]
  <2>1. ~Has(c, MailPolicy)
    BY <1>3 DEF MailPolicy
  <2>. QED
    BY <1>1, <2>1, ApplyFacts
<1>. HIDE DEF m
<1>5. /\ \A id : Has(r, id) <=> id = Subject \/ Has(m, id)
      /\ r[Subject] = [shown |-> TRUE, counts |-> [k \in Kinds |-> 0]]
      /\ \A id : Has(m, id) => r[id] = m[id]
  <2>1. ~Has(m, Subject)
    BY <1>3, <1>4 DEF MailPolicy, Subject
  <2>. QED
    BY <1>1, <2>1, ApplyFacts
<1>. HIDE DEF r
<1>6. /\ \A id : Has(p, id) <=> (\E q \in WatchedPosts : id = PostOf(q)) \/ Has(r, id)
      /\ \A id : Has(r, id) => p[id] = r[id]
  BY <1>2, ApplyFacts
<1>. HIDE DEF p
<1>7. /\ \A id : Has(d, id) <=> Has(FirstDocuments, id) \/ Has(p, id)
      /\ \A id : Has(FirstDocuments, id) /\ ~Has(p, id) => d[id] = FirstDocuments[id]
      /\ \A id : Has(p, id) => d[id] = p[id]
  BY ApplyFacts
<1>. HIDE DEF d
<1>8. ~Has(p, Policy) /\ \A i : ~Has(p, InvitationId(i))
  <2>1. \A id : Has(p, id) => id[1] \in {"watchable", "subject", "mailPolicy", "agent", "circle"}
    BY <1>3, <1>4, <1>5, <1>6 DEF PostOf, Subject, MailPolicy
  <2>. QED
    BY <2>1 DEF Policy, InvitationId
<1>9. \A id : Has(d, id) <=>
        \/ id = Policy \/ (\E i \in Invitations : id = InvitationId(i))
        \/ (\E q \in WatchedPosts : id = PostOf(q))
        \/ id = Subject \/ id = MailPolicy \/ Has(c, id)
  BY <1>4, <1>5, <1>6, <1>7, FirstDocumentsAre
<1>10. /\ d[Policy] = [version |-> 1, invite |-> FALSE, uses |-> 0]
       /\ \A i \in Invitations :
            d[InvitationId(i)] = [usedBy |-> Nobody, revoked |-> FALSE, expired |-> FALSE]
  BY <1>7, <1>8, FirstDocumentsAre
<1>11. d[Subject] = r[Subject] /\ d[MailPolicy] = m[MailPolicy] /\ \A id : Has(c, id) => d[id] = c[id]
  BY <1>4, <1>5, <1>6, <1>7
<1>12. First(S) = d /\ FirstCommunity(S) = c
  BY DEF First, d, p, r, m, c
<1>13. /\ First(S)[Subject] = [shown |-> TRUE, counts |-> [k \in Kinds |-> 0]]
       /\ First(S)[MailPolicy] = [version |-> 1, mail |-> 0, verified |-> FALSE]
  BY <1>4, <1>5, <1>11, <1>12
<1>. QED
  BY <1>9, <1>10, <1>11, <1>12, <1>13

(* Documents that are as they were at first, but for those of some kinds,  *)
(* have nothing of the calls of tools, ...                                 *)
LEMMA NoCallsYet ==
  ASSUME NEW S, NEW d, NEW K, SameBut(First(S), d, K), CallKinds \cap K = {}
  PROVE  \A k : ~Has(d, RecordId(k)) /\ ~Has(d, EffectId(k))
<1>1. \A k : /\ RecordId(k)[1] \in CallKinds /\ EffectId(k)[1] \in CallKinds
             /\ RecordId(k)[1] = "record" /\ EffectId(k)[1] = "effect"
  BY DEF RecordId, EffectId, CallKinds
<1>2. \A id : Has(First(S), id) => id[1] \notin CallKinds
  BY FirstAre, FirstCommunityIs
     DEF CallKinds, Policy, InvitationId, PostOf, Subject, MailPolicy, Agent, CircleOf
<1>. QED
  BY <1>1, <1>2 DEF SameBut

LEMMA NoProgressYet ==
  ASSUME NEW S, NEW d, NEW K, SameBut(First(S), d, K), "progress" \notin K
  PROVE  /\ ~Has(d, Progress)
         /\ EventKinds \cap K = {} => LedgerIn(d) = {}
         /\ "task" \notin K => \A day : ~Has(d, TaskId(day))
<1>1. \A id : Has(First(S), id) => id[1] # "progress" /\ id[1] \notin EventKinds
  BY FirstAre, FirstCommunityIs
     DEF EventKinds, Policy, InvitationId, PostOf, Subject, MailPolicy, Agent, CircleOf
<1>2. ~Has(d, Progress)
  BY <1>1 DEF SameBut, Progress
<1>3. ASSUME EventKinds \cap K = {} PROVE LedgerIn(d) = {}
  BY <1>1, <1>3 DEF SameBut, LedgerIn, Has
<1>4. ASSUME "task" \notin K PROVE \A day : ~Has(d, TaskId(day))
  BY <1>1, <1>4 DEF SameBut, TaskId, EventKinds
<1>. QED
  BY <1>2, <1>3, <1>4

LEMMA AccountsAsFirst ==
  ASSUME NEW S, NEW d, NEW K, SameBut(First(S), d, K), AccountKinds \cap K = {}
  PROVE  AccountsKept(d)
<1>1. \A id : id[1] \in AccountKinds =>
        /\ Has(d, id) <=> (id = Policy \/ \E i \in Invitations : id = InvitationId(i))
        /\ Has(d, id) => d[id] = First(S)[id]
  <2>1. \A id : id[1] \in AccountKinds =>
          (Has(First(S), id) <=> (id = Policy \/ \E i \in Invitations : id = InvitationId(i)))
    BY FirstAre, FirstCommunityIs
       DEF AccountKinds, PostOf, Subject, MailPolicy, Agent, CircleOf
  <2>. QED
    BY <2>1 DEF SameBut
<1>2. /\ Policy[1] \in AccountKinds /\ Initialization[1] \in AccountKinds
      /\ \A x : /\ ChallengeId(x)[1] \in AccountKinds /\ InvitationId(x)[1] \in AccountKinds
                /\ UserId(x)[1] \in AccountKinds /\ SessionId(x)[1] \in AccountKinds
  BY DEF Policy, Initialization, ChallengeId, InvitationId, UserId, SessionId, AccountKinds
<1>3. /\ Has(d, Policy) /\ d[Policy] = [version |-> 1, invite |-> FALSE, uses |-> 0]
      /\ \A i \in Invitations :
           /\ Has(d, InvitationId(i))
           /\ d[InvitationId(i)] = [usedBy |-> Nobody, revoked |-> FALSE, expired |-> FALSE]
  BY <1>1, <1>2, FirstAre
<1>4. /\ \A x : ~Has(d, UserId(x)) /\ ~Has(d, SessionId(x)) /\ ~Has(d, ChallengeId(x))
      /\ ~Has(d, Initialization)
  BY <1>1, <1>2 DEF Policy, Initialization, ChallengeId, InvitationId, UserId, SessionId
<1>. QED
  BY <1>3, <1>4, AccountsBegin

LEMMA CommunityAsFirst ==
  ASSUME NEW S, NEW d, NEW K, SameBut(First(S), d, K), (CommunityKinds \ {"charge"}) \cap K = {}
  PROVE  CountsIn(d) /\ ReviewsIn(d) /\ QuotaIn(d)
<1>. DEFINE Q == CommunityKinds \ {"charge"}
<1>1. \A id : id[1] \in Q =>
        /\ Has(d, id) <=> ((\E a \in Agents : id = Agent(a)) \/ (\E n \in S : id = CircleOf(n)))
        /\ Has(d, id) => d[id] = FirstCommunity(S)[id]
  <2>1. \A id : id[1] \in Q => (Has(First(S), id) <=> Has(FirstCommunity(S), id))
    BY FirstAre DEF CommunityKinds, Policy, InvitationId, PostOf, Subject, MailPolicy
  <2>. QED
    BY <2>1, FirstAre, FirstCommunityIs DEF SameBut
<1>2. \A x, y : /\ Agent(x)[1] \in Q /\ CircleOf(x)[1] \in Q /\ Membership(x, y)[1] \in Q
                /\ PostId(x)[1] \in Q /\ RequestId(x)[1] \in Q /\ Reward(x)[1] \in Q
  BY DEF Agent, CircleOf, Membership, PostId, RequestId, Reward, CommunityKinds
<1>. HIDE DEF Q
<1>3. /\ \A a \in Agents : Has(d, Agent(a)) /\ d[Agent(a)] = [window |-> 1, reserved |-> FALSE]
      /\ \A n : Has(d, CircleOf(n)) <=> n \in S
      /\ \A n \in S : d[CircleOf(n)] =
           [by |-> Nil, window |-> 0, official |-> TRUE, active |-> TRUE, open |-> TRUE,
            posts |-> 0, members |-> 0]
  <2>1. \A n : Has(d, CircleOf(n)) <=> n \in S
    BY <1>1, <1>2, ContentIds
  <2>2. \A a \in Agents : Has(d, Agent(a)) /\ d[Agent(a)] = FirstCommunity(S)[Agent(a)]
    BY <1>1, <1>2
  <2>3. \A n \in S : d[CircleOf(n)] = FirstCommunity(S)[CircleOf(n)]
    BY <1>1, <1>2, <2>1
  <2>. QED
    BY <2>1, <2>2, <2>3, FirstCommunityIs
<1>4. /\ \A x : ~Has(d, PostId(x)) /\ ~Has(d, Reward(x)) /\ ~Has(d, RequestId(x))
      /\ \A a, n : ~Has(d, Membership(a, n))
  BY <1>1, <1>2 DEF Agent, CircleOf, Membership, PostId, RequestId, Reward
<1>. QED
  BY <1>3, <1>4, CommunityBegins

LEMMA WatchesAsFirst ==
  ASSUME NEW S, NEW d, NEW K, SameBut(First(S), d, K), WatchKinds \cap K = {}
  PROVE  AgreeIn(d)
<1>1. \A id : Has(First(S), id) => id[1] \notin {"watched", "watchers"}
  BY FirstAre, FirstCommunityIs
     DEF Policy, InvitationId, PostOf, Subject, MailPolicy, Agent, CircleOf
<1>2. \A x : /\ OfAgent(x)[1] = "watched" /\ OfPost(x)[1] = "watchers"
  BY DEF OfAgent, OfPost
<1>3. \A x : ~Has(d, OfAgent(x)) /\ ~Has(d, OfPost(x))
  BY <1>1, <1>2 DEF SameBut, WatchKinds
<1>. QED
  BY <1>3, WatchesBegin, WatchAssumption

LEMMA RecordsAsFirst ==
  ASSUME NEW S, NEW d, NEW K, SameBut(First(S), d, K), RecordKinds \cap K = {}
  PROVE  FeedbackIn(d) /\ ViewsIn(d)
<1>1. \A id : id[1] \in RecordKinds =>
        (Has(d, id) <=> id = Subject) /\ (Has(d, id) => d[id] = First(S)[id])
  <2>1. \A id : id[1] \in RecordKinds => (Has(First(S), id) <=> id = Subject)
    BY FirstAre, FirstCommunityIs
       DEF RecordKinds, Policy, InvitationId, PostOf, MailPolicy, Agent, CircleOf
  <2>. QED
    BY <2>1 DEF SameBut
<1>2. Subject[1] \in RecordKinds /\
      \A x, y : /\ Opinion(x)[1] \in RecordKinds /\ ViewOf(x, y)[1] \in RecordKinds
                /\ Shard(x)[1] \in RecordKinds
  BY DEF Subject, Opinion, ViewOf, Shard, RecordKinds
<1>3. Has(d, Subject) /\ d[Subject] = [shown |-> TRUE, counts |-> [k \in Kinds |-> 0]]
  BY <1>1, <1>2, FirstAre
<1>4. /\ \A x : ~Has(d, Opinion(x)) /\ ~Has(d, Shard(x))
      /\ \A x, y : ~Has(d, ViewOf(x, y))
  BY <1>1, <1>2, RecordIds
<1>5. FeedbackIn(d)
  BY <1>3, <1>4, FeedbackBegins
<1>6. ViewsIn(d)
  BY <1>4, ViewsBegin, RecordsAssumption
<1>. QED
  BY <1>5, <1>6

LEMMA SystemAsFirst ==
  ASSUME NEW S, NEW d, NEW K, SameBut(First(S), d, K), SystemKinds \cap K = {}
  PROVE  /\ SystemFits(d) /\ Has(d, MailPolicy)
         /\ d[MailPolicy] = [version |-> 1, mail |-> 0, verified |-> FALSE]
<1>1. \A id : id[1] \in SystemKinds =>
        (Has(d, id) <=> id = MailPolicy) /\ (Has(d, id) => d[id] = First(S)[id])
  <2>1. \A id : id[1] \in SystemKinds => (Has(First(S), id) <=> id = MailPolicy)
    BY FirstAre, FirstCommunityIs
       DEF SystemKinds, Policy, InvitationId, PostOf, Subject, Agent, CircleOf
  <2>. QED
    BY <2>1 DEF SameBut
<1>2. /\ MailPolicy[1] \in SystemKinds
      /\ \A x, y : /\ SettingId(x)[1] \in SystemKinds /\ AnnouncementId(x)[1] \in SystemKinds
                   /\ NoticeId(x, y)[1] \in SystemKinds
  BY DEF MailPolicy, SettingId, AnnouncementId, NoticeId, SystemKinds
<1>3. /\ \A x : ~Has(d, SettingId(x)) /\ ~Has(d, AnnouncementId(x))
      /\ \A x, y : ~Has(d, NoticeId(x, y))
  BY <1>1, <1>2, SystemIds
<1>. QED
  BY <1>1, <1>2, <1>3, FirstAre, SystemBegins

LEMMA RequestsBegin ==
  ASSUME Init
  PROVE  RequestsInvariant
<1>1. TxnShape /\ \A s \in Sessions : ~txn[s].open
  BY NoneOpen DEF Init, NoTxns
<1>2. PICK S \in SUBSET CircleNames : db = First(S)
  BY DEF Init, First
<1>3. SameBut(First(S), db, {}) /\ SameBut(First(S), db, KindsOf(part))
  BY <1>2 DEF SameBut
<1>4. WritesOnly(KindsOf(part))
  BY <1>1 DEF WritesOnly
<1>5. NoTxns /\ NoCalls /\ NoRequests /\ DesksInit /\ time = 0
  BY DEF Init
<1>6. IdempotencyInvariant
  BY <1>3, <1>5, NoCallsYet, CallsBegin
<1>7. RegistrationInvariant
  BY <1>3, <1>5, AccountsAsFirst, RegistrationBegins
<1>8. ProgressInvariant
  <2>1. ~Has(db, Progress) /\ LedgerIn(db) = {}
    BY <1>3, NoProgressYet
  <2>. QED
    BY <1>1, <1>5, <2>1 DEF ProgressInvariant, ProgressIn
<1>9. CommunityInvariant
  BY <1>1, <1>3, CommunityAsFirst DEF CommunityInvariant
<1>10. WatchInvariant
  BY <1>1, <1>3, WatchesAsFirst DEF WatchInvariant
<1>11. FeedbackInvariant /\ ViewsInvariant
  BY <1>1, <1>3, RecordsAsFirst DEF FeedbackInvariant, ViewsInvariant
<1>12. SettingsInvariant /\ MailInvariant
  <2>1. /\ SystemFits(db) /\ Has(db, MailPolicy)
        /\ db[MailPolicy] = [version |-> 1, mail |-> 0, verified |-> FALSE]
    BY <1>3, SystemAsFirst
  <2>2. MailInvariant
    BY <1>5, <2>1, MailBegins
  <2>. QED
    BY <1>1, <2>1, <2>2 DEF SettingsInvariant
<1>. QED
  BY <1>1, <1>2, <1>3, <1>4, <1>5, <1>6, <1>7, <1>8, <1>9, <1>10, <1>11, <1>12 DEF RequestsInvariant

(* What a step of one component leaves of the others.                      *)
LEMMA OthersAsFirst ==
  ASSUME NEW K, KindsOf(part) = K, RequestsInvariant, TouchesOnly(K), UNCHANGED part
  PROVE  /\ WritesOnly(KindsOf(part))'
         /\ (\E S \in SUBSET CircleNames : SameBut(First(S), db, KindsOf(part)))'
<1>1. KindsOf(part') = K
  OBVIOUS
<1>2. PICK S \in SUBSET CircleNames : SameBut(First(S), db, K)
  BY DEF RequestsInvariant
<1>3. SameBut(First(S), db', K)
  BY <1>2 DEF TouchesOnly, SameBut
<1>4. WritesOnly(K)'
  BY DEF TouchesOnly
<1>5. WritesOnly(KindsOf(part))'
  BY <1>1, <1>4 DEF WritesOnly
<1>6. SameBut(First(S), db', KindsOf(part'))
  BY <1>1, <1>3
<1>. QED
  BY <1>5, <1>6

LEMMA RequestsStep ==
  ASSUME RequestsInvariant, [Next]_vars
  PROVE  RequestsInvariant'
<1>1. /\ TxnShape /\ WritesOnly(KindsOf(part))
      /\ IF part = "idempotency" THEN IdempotencyInvariant ELSE NoCalls
      /\ IF part = "registration" THEN RegistrationInvariant ELSE NoRequests
      /\ part = "progression" => ProgressInvariant
      /\ part = "content" => CommunityInvariant
      /\ part = "watches" => WatchInvariant
      /\ part = "records" => FeedbackInvariant /\ ViewsInvariant
      /\ IF part \in {"settings", "mail"} THEN SettingsInvariant /\ MailInvariant ELSE DesksInit
  BY DEF RequestsInvariant
<1>2. part' = part
  BY DEF Next, vars
<1>3. /\ UNCHANGED <<calls, results>> => (NoCalls => NoCalls')
      /\ UNCHANGED requests => (NoRequests => NoRequests')
      /\ UNCHANGED systemVars => (DesksInit => DesksInit')
  BY DEF NoCalls, NoRequests, DesksInit, systemVars
<1>4. CASE part = "idempotency"
  <2>1. /\ [IdempotencyNext]_idempotencyVars
        /\ UNCHANGED <<requests, systemVars>>
    BY <1>4 DEF Next, vars, localVars, idempotencyVars
  <2>2. KindsOf(part) = CallKinds
    BY <1>4 DEF KindsOf
  <2>3. IdempotencyInvariant'
    BY <1>1, <1>4, <2>1, IdempotencyInductive
  <2>4. TouchesOnly(CallKinds)
    BY <1>1, <2>1, <2>2, CallsTouch
  <2>5. TxnShape'
    BY <2>3 DEF IdempotencyInvariant
  <2>. QED
    BY <1>1, <1>2, <1>3, <1>4, <2>1, <2>2, <2>3, <2>4, <2>5, OthersAsFirst DEF RequestsInvariant
<1>5. CASE part = "registration"
  <2>1. /\ [RegistrationNext]_registrationVars
        /\ UNCHANGED <<calls, results, systemVars>>
    BY <1>5 DEF Next, vars, localVars, registrationVars
  <2>2. KindsOf(part) = AccountKinds
    BY <1>5 DEF KindsOf
  <2>3. RegistrationInvariant'
    BY <1>1, <1>5, <2>1, RegistrationInductive
  <2>4. TouchesOnly(AccountKinds)
    BY <1>1, <2>1, <2>2, AccountsTouch
  <2>5. TxnShape'
    BY <2>3 DEF RegistrationInvariant
  <2>. QED
    BY <1>1, <1>2, <1>3, <1>5, <2>1, <2>2, <2>3, <2>4, <2>5, OthersAsFirst DEF RequestsInvariant
<1>6. CASE part = "progression"
  <2>1. /\ [ProgressionNext]_progressionVars
        /\ UNCHANGED <<calls, results, requests, systemVars>>
    BY <1>6 DEF Next, vars, localVars, progressionVars
  <2>2. KindsOf(part) = ProgressKinds
    BY <1>6 DEF KindsOf
  <2>3. ProgressInvariant'
    BY <1>1, <1>6, <2>1, ProgressStep, ProgressionAssumption
  <2>4. TouchesOnly(ProgressKinds)
    BY <1>1, <2>1, <2>2, ProgressTouches
  <2>5. TxnShape'
    BY <2>3 DEF ProgressInvariant
  <2>. QED
    BY <1>1, <1>2, <1>3, <1>6, <2>1, <2>2, <2>3, <2>4, <2>5, OthersAsFirst DEF RequestsInvariant
<1>7. CASE part = "content"
  <2>1. [ContentNext]_<<db, txn>> /\ UNCHANGED <<calls, results, requests, systemVars>>
    BY <1>7 DEF Next, vars, localVars
  <2>2. KindsOf(part) = CommunityKinds
    BY <1>7 DEF KindsOf
  <2>3. CommunityInvariant'
    BY <1>1, <1>7, <2>1, CommunityStep, ContentAssumption
  <2>4. TouchesOnly(CommunityKinds)
    BY <1>1, <2>1, <2>2, CommunityTouches
  <2>5. TxnShape'
    BY <2>3 DEF CommunityInvariant
  <2>. QED
    BY <1>1, <1>2, <1>3, <1>7, <2>1, <2>2, <2>3, <2>4, <2>5, OthersAsFirst DEF RequestsInvariant
<1>8. CASE part = "watches"
  <2>1. [WatchNext]_<<db, txn>> /\ UNCHANGED <<calls, results, requests, systemVars>>
    BY <1>8 DEF Next, vars, localVars
  <2>2. KindsOf(part) = WatchKinds
    BY <1>8 DEF KindsOf
  <2>3. WatchInvariant'
    BY <1>1, <1>8, <2>1, WatchStep, WatchAssumption
  <2>4. TouchesOnly(WatchKinds)
    BY <1>1, <2>1, <2>2, WatchesTouch
  <2>5. TxnShape'
    BY <2>3 DEF WatchInvariant
  <2>. QED
    BY <1>1, <1>2, <1>3, <1>8, <2>1, <2>2, <2>3, <2>4, <2>5, OthersAsFirst DEF RequestsInvariant
<1>9. CASE part = "records"
  <2>1. [RecordsNext]_<<db, txn>> /\ UNCHANGED <<calls, results, requests, systemVars>>
    BY <1>9 DEF Next, vars, localVars
  <2>2. KindsOf(part) = RecordKinds
    BY <1>9 DEF KindsOf
  <2>3. FeedbackInvariant' /\ ViewsInvariant'
    BY <1>1, <1>9, <2>1, FeedbackStep, ViewsStep, RecordsAssumption
  <2>4. TouchesOnly(RecordKinds)
    BY <1>1, <2>1, <2>2, RecordsTouch
  <2>5. TxnShape'
    BY <2>3 DEF FeedbackInvariant
  <2>. QED
    BY <1>1, <1>2, <1>3, <1>9, <2>1, <2>2, <2>3, <2>4, <2>5, OthersAsFirst DEF RequestsInvariant
<1>10. CASE part \in {"settings", "mail"}
  <2>1. /\ \/ SettingsNext /\ UNCHANGED systemVars
           \/ MailNext
           \/ UNCHANGED <<db, txn, systemVars>>
        /\ UNCHANGED <<calls, results, requests>>
    BY <1>10 DEF Next, vars, localVars
  <2>2. KindsOf(part) = SystemKinds
    BY <1>10 DEF KindsOf
  <2>3. SettingsInvariant' /\ MailInvariant'
    <3>1. SettingsInvariant /\ MailInvariant
      BY <1>1, <1>10
    <3>2. CASE UNCHANGED <<db, txn, systemVars>>
      BY <3>1, <3>2
         DEF systemVars, SettingsInvariant, MailInvariant, TxnShape, DeskFits, PolicyFits
    <3>. QED
      BY <2>1, <3>1, <3>2, SettingsStep, MailStep DEF MailNext
  <2>4. TouchesOnly(SystemKinds)
    BY <1>1, <2>1, <2>2, SystemTouches
  <2>5. TxnShape'
    BY <2>3 DEF SettingsInvariant
  <2>. QED
    BY <1>1, <1>2, <1>3, <1>10, <2>1, <2>2, <2>3, <2>4, <2>5, OthersAsFirst DEF RequestsInvariant
<1>11. CASE part \notin {"idempotency", "registration", "progression", "content", "watches",
                         "records", "settings", "mail"}
  <2>1. UNCHANGED <<db, txn, calls, results, requests, systemVars>>
    BY <1>11 DEF Next, vars, localVars
  <2>2. KindsOf(part) = {}
    BY <1>11 DEF KindsOf
  <2>3. TouchesOnly({}) /\ TxnShape'
    BY <1>1, <2>1, <2>2, RestTouches DEF TxnShape
  <2>. QED
    BY <1>1, <1>2, <1>3, <1>11, <2>1, <2>2, <2>3, OthersAsFirst DEF RequestsInvariant
<1>. QED
  BY <1>4, <1>5, <1>6, <1>7, <1>8, <1>9, <1>10, <1>11

LEMMA RequestTypesFollow ==
  ASSUME RequestsInvariant
  PROVE  IdempotencyTypeOK /\ RegistrationTypeOK /\ ProgressTypeOK
<1>. PICK S \in SUBSET CircleNames : SameBut(First(S), db, KindsOf(part))
  BY DEF RequestsInvariant
<1>1. IdempotencyTypeOK
  <2>1. CASE part = "idempotency"
    BY <2>1 DEF RequestsInvariant, IdempotencyInvariant, RecordsMatch, IdempotencyTypeOK, Present
  <2>2. CASE part # "idempotency"
    <3>1. CallKinds \cap KindsOf(part) = {}
      BY <2>2 DEF KindsOf, CallKinds, AccountKinds, ProgressKinds, EventKinds, CommunityKinds,
                  WatchKinds, RecordKinds, SystemKinds
    <3>2. \A k : ~Has(db, RecordId(k)) /\ ~Has(db, EffectId(k))
      BY <3>1, NoCallsYet
    <3>3. \A s \in Sessions : calls[s] = NoCall
      BY <2>2 DEF RequestsInvariant, NoCalls
    <3>. QED
      BY <3>2, <3>3 DEF IdempotencyTypeOK, Present
  <2>. QED
    BY <2>1, <2>2
<1>2. RegistrationTypeOK
  <2>1. AccountsKept(db)
    <3>1. CASE part = "registration"
      BY <3>1 DEF RequestsInvariant, RegistrationInvariant
    <3>2. CASE part # "registration"
      <4>1. AccountKinds \cap KindsOf(part) = {}
        BY <3>2 DEF KindsOf, CallKinds, AccountKinds, ProgressKinds, EventKinds, CommunityKinds,
                    WatchKinds, RecordKinds, SystemKinds
      <4>. QED
        BY <4>1, AccountsAsFirst
    <3>. QED
      BY <3>1, <3>2
  <2>2. \A s \in Sessions : requests[s] = NoRequest \/ RequestKnown(db, requests[s])
    BY DEF RequestsInvariant, RegistrationInvariant, NoRequests
  <2>. QED
    BY <2>1, <2>2 DEF RequestKnown, AccountsKept, DocumentsTyped, IsPolicy, RegistrationTypeOK
<1>3. ProgressTypeOK
  <2>1. CASE part = "progression"
    BY <2>1, AccountsHold, ProgressionAssumption DEF RequestsInvariant
  <2>2. CASE part # "progression"
    <3>1. "progress" \notin KindsOf(part)
      BY <2>2 DEF KindsOf, CallKinds, AccountKinds, ProgressKinds, EventKinds, CommunityKinds,
                  WatchKinds, RecordKinds, SystemKinds
    <3>. QED
      BY <3>1, NoProgressYet DEF ProgressTypeOK
  <2>. QED
    BY <2>1, <2>2
<1>. QED
  BY <1>1, <1>2, <1>3

LEMMA RequestsFollow ==
  ASSUME RequestsInvariant
  PROVE  CalledOnce /\ AdmissionsAreSpent /\ ProgressIsAccounted /\ CommunityIsKept
<1>. PICK S \in SUBSET CircleNames : SameBut(First(S), db, KindsOf(part))
  BY DEF RequestsInvariant
<1>. USE DEF CallKinds, AccountKinds, ProgressKinds, EventKinds, CommunityKinds,
             WatchKinds, RecordKinds, SystemKinds
<1>1. CalledOnce
  <2>1. CASE part = "idempotency"
    BY <2>1, CallsFollow DEF RequestsInvariant, IdempotencyInvariant
  <2>2. CASE part # "idempotency"
    <3>1. NoCalls /\ CallKinds \cap KindsOf(part) = {}
      BY <2>2 DEF KindsOf, RequestsInvariant
    <3>2. \A k : ~Has(db, RecordId(k)) /\ ~Has(db, EffectId(k))
      BY <3>1, NoCallsYet
    <3>. QED
      BY <3>1, <3>2, CallsFollow DEF NoCalls, RecordsMatch, AnswersIn
  <2>. QED
    BY <2>1, <2>2
<1>2. AdmissionsAreSpent
  <2>1. CASE part = "registration"
    BY <2>1, InvitationsFollow, CodesFollow, AdministratorFollows
       DEF AdmissionsAreSpent, RequestsInvariant, RegistrationInvariant
  <2>2. CASE part # "registration"
    <3>1. AccountKinds \cap KindsOf(part) = {}
      BY <2>2 DEF KindsOf
    <3>2. AccountsKept(db)
      BY <3>1, AccountsAsFirst
    <3>. QED
      BY <3>2, InvitationsFollow, CodesFollow, AdministratorFollows DEF AdmissionsAreSpent
  <2>. QED
    BY <2>1, <2>2
<1>3. ProgressIsAccounted
  <2>1. CASE part = "progression"
    BY <2>1, AccountsHold, ProgressionAssumption DEF RequestsInvariant
  <2>2. CASE part # "progression"
    <3>1. "progress" \notin KindsOf(part)
      BY <2>2 DEF KindsOf
    <3>2. "task" \notin KindsOf(part)
      BY <2>2 DEF KindsOf
    <3>3. ~Has(db, Progress) /\ \A day : ~Has(db, TaskId(day))
      BY <3>1, <3>2, NoProgressYet
    <3>. QED
      BY <3>3 DEF ProgressIsAccounted, LedgerBalances, TasksAreEarned, StaminaIsEarned,
                  LookingIsFree
  <2>. QED
    BY <2>1, <2>2
<1>4. CommunityIsConsistent
  <2>1. CASE part = "content"
    BY <2>1, CommunityFollows DEF RequestsInvariant, CommunityInvariant
  <2>2. CASE part # "content"
    <3>1. (CommunityKinds \ {"charge"}) \cap KindsOf(part) = {}
      BY <2>2 DEF KindsOf
    <3>. QED
      BY <3>1, CommunityAsFirst, CommunityFollows
  <2>. QED
    BY <2>1, <2>2
<1>5. WatchesAgree
  <2>1. CASE part = "watches"
    BY <2>1, WatchesFollow DEF RequestsInvariant, WatchInvariant
  <2>2. CASE part # "watches"
    <3>1. WatchKinds \cap KindsOf(part) = {}
      BY <2>2 DEF KindsOf
    <3>. QED
      BY <3>1, WatchesAsFirst, WatchesFollow
  <2>. QED
    BY <2>1, <2>2
<1>6. RecordsAreCounted
  <2>1. CASE part = "records"
    BY <2>1, FeedbackFollows, ViewsFollow
       DEF RequestsInvariant, FeedbackInvariant, ViewsInvariant, RecordsAreCounted
  <2>2. CASE part # "records"
    <3>1. RecordKinds \cap KindsOf(part) = {}
      BY <2>2 DEF KindsOf
    <3>. QED
      BY <3>1, RecordsAsFirst, FeedbackFollows, ViewsFollow DEF RecordsAreCounted
  <2>. QED
    BY <2>1, <2>2
<1>7. ChangesWereSeen
  <2>1. CASE part \in {"settings", "mail"}
    BY <2>1, ChangesFollow DEF RequestsInvariant, SettingsInvariant, MailInvariant
  <2>2. CASE part \notin {"settings", "mail"}
    <3>1. DesksInit /\ SystemKinds \cap KindsOf(part) = {}
      BY <2>2 DEF KindsOf, RequestsInvariant
    <3>2. /\ SystemFits(db) /\ Has(db, MailPolicy)
          /\ db[MailPolicy] = [version |-> 1, mail |-> 0, verified |-> FALSE]
      BY <3>1, SystemAsFirst
    <3>3. MailInvariant
      BY <3>1, <3>2, MailBegins
    <3>. QED
      BY <3>2, <3>3, ChangesFollow DEF MailInvariant
  <2>. QED
    BY <2>1, <2>2
<1>. QED
  BY <1>1, <1>2, <1>3, <1>4, <1>5, <1>6, <1>7 DEF CommunityIsKept

(* Sessions, links and migrations share no variable with the others.       *)
LEMMA OtherParts == Spec => SessionSpec /\ MigrationSpec /\ LinkSpec
<1>1. Init => SessionInit /\ MigrationInit /\ LinkInit
  BY DEF Init
<1>2. ASSUME [Next]_vars
      PROVE  [SessionNext]_sessionVars /\ [MigrationNext]_migrationVars /\ [LinkNext]_linkVars
  <2>1. /\ (part = "session" /\ SessionNext) \/ UNCHANGED sessionVars
        /\ (part = "migrations" /\ MigrationNext) \/ UNCHANGED migrationVars
        /\ (part = "link" /\ LinkNext) \/ UNCHANGED linkVars
    BY <1>2 DEF Next, vars, localVars
  <2>. QED
    BY <2>1
<1>. QED
  BY <1>1, <1>2, PTL DEF Spec, SessionSpec, MigrationSpec, LinkSpec

(* For any number of sessions, and whatever each component works on:       *)
(* everything that the components of the API keep has its type, whichever  *)
(* of them runs beside the documents of the others.                        *)
THEOREM RequestTypes == Spec => []RequestsTypeOK
<1>1. Init => RequestsInvariant
  BY RequestsBegin
<1>2. RequestsInvariant /\ [Next]_vars => RequestsInvariant'
  BY RequestsStep
<1>3. RequestsInvariant => IdempotencyTypeOK /\ RegistrationTypeOK /\ ProgressTypeOK
  BY RequestTypesFollow
<1>4. Spec => [](IdempotencyTypeOK /\ RegistrationTypeOK /\ ProgressTypeOK)
  BY <1>1, <1>2, <1>3, PTL DEF Spec
<1>5. Spec => SessionSpec /\ MigrationSpec /\ LinkSpec
  BY OtherParts
<1>6. /\ SessionSpec => []SessionTypeOK
      /\ MigrationSpec => []MigrationTypeOK
      /\ LinkSpec => []LinkTypeOK
  <2>1. SessionSpec => []SessionTypeOK
    BY SessionsAreKept, BrowserAssumption, PTL
  <2>2. MigrationSpec => []MigrationTypeOK
    BY SchemasAreMigrated, MigrationsAssumption, PTL
  <2>3. LinkSpec => []LinkTypeOK
    BY LinksAreKept, GuideLinkAssumption, PTL
  <2>. QED
    BY <2>1, <2>2, <2>3
<1>. QED
  BY <1>4, <1>5, <1>6, PTL DEF RequestsTypeOK

(* For any number of sessions and whatever each component works on: calls  *)
(* of tools take effect once, what admits an account is spent once, the    *)
(* experience and stamina of an agent are accounted for, circles, posts,   *)
(* reviews and watch lists agree, views and feedback are counted,          *)
(* administrators replace what they had seen, and sessions, links and      *)
(* migrations are kept.  No component changes what another relies on.      *)
THEOREM RequestsAreServed ==
  Spec => [](/\ CalledOnce /\ AdmissionsAreSpent /\ ProgressIsAccounted
             /\ CommunityIsKept /\ CredentialsAreKept /\ SchemaIsMigrated)
<1>1. Init => RequestsInvariant
  BY RequestsBegin
<1>2. RequestsInvariant /\ [Next]_vars => RequestsInvariant'
  BY RequestsStep
<1>3. RequestsInvariant =>
        CalledOnce /\ AdmissionsAreSpent /\ ProgressIsAccounted /\ CommunityIsKept
  BY RequestsFollow
<1>4. Spec => [](CalledOnce /\ AdmissionsAreSpent /\ ProgressIsAccounted /\ CommunityIsKept)
  BY <1>1, <1>2, <1>3, PTL DEF Spec
<1>5. Spec => []CredentialsAreKept
  <2>1. Spec => CredentialsSpec
    BY OtherParts DEF CredentialsSpec
  <2>2. CredentialsSpec => []CredentialsAreKept
    BY CredentialsKept, BrowserAssumption, GuideLinkAssumption
  <2>. QED
    BY <2>1, <2>2
<1>6. Spec => []SchemaIsMigrated
  <2>1. MigrationSpec => []SchemaIsMigrated
    BY SchemasAreMigrated, MigrationsAssumption, PTL
  <2>. QED
    BY <2>1, OtherParts
<1>. QED
  BY <1>4, <1>5, <1>6, PTL

=============================================================================
