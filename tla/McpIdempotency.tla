--------------------------- MODULE McpIdempotency ---------------------------
(***************************************************************************)
(* The writes of the MCP tools, each with an idempotency key: a record of  *)
(* the key is created, the operation applied and its result stored in one  *)
(* transaction.  A client whose call timed out calls again with the key    *)
(* while the first call may still be running, and a key may by mistake be  *)
(* used again for another input.  Records are deleted a day later.         *)
(***************************************************************************)
EXTENDS Integers, FiniteSets, Functions, Transactions

CONSTANTS
  Keys,            \* idempotency keys of one agent and tool
  Inputs,          \* the arguments of a call, or their hashes
  Effects          \* what an operation leaves behind: its ids, and result

VARIABLES
  calls,           \* calls[s]: the call served in session s
  results          \* ghost: the results answered for each key and input

idempotencyVars == <<db, txn, calls, results>>

RecordId(k) == <<"record", k>>
EffectId(e) == <<"effect", e>>

NoCall == [st |-> "none"]
Call == [st: {"asked"}, key: Keys, input: Inputs]

NoCalls ==
  /\ calls = [s \in Sessions |-> NoCall]
  /\ results = [k \in Keys |-> {}]

IdempotencyInit == db = <<>> /\ NoTxns /\ NoCalls

(* A tool call arrives, for the first time or as a retry of one that may   *)
(* still be running.                                                       *)
Ask(s) ==
  /\ calls[s] = NoCall
  /\ \E k \in Keys, i \in Inputs : calls' = [calls EXCEPT ![s] = [st |-> "asked", key |-> k, input |-> i]]
  /\ UNCHANGED <<db, txn, results>>

ToolAnswer(s, result) ==
  /\ calls' = [calls EXCEPT ![s] = NoCall]
  /\ results' = [results EXCEPT ![calls[s].key] = @ \cup {<<calls[s].input, result>>}]

RefuseKey(s) ==
  /\ calls' = [calls EXCEPT ![s] = NoCall]
  /\ UNCHANGED results

(* Mutant: the hash of the input is not compared.                          *)
BugAnyInput(record, input) == TRUE

SameInput(record, input) == record.input = input

(* resolveExisting.  A record that is visible is completed: it was created *)
(* and completed in one transaction.                                       *)
ResolveExisting(s) ==
  LET record == db[RecordId(calls[s].key)]
  IN  IF SameInput(record, calls[s].input) THEN ToolAnswer(s, record.result) ELSE RefuseKey(s)

(* The pending record, the operation and the stored result.                *)
OperationWrites(k, i, e) ==
  Apply(Put(RecordId(k), [input |-> i, result |-> e]), Put(EffectId(e), [key |-> k, input |-> i]))

FreshEffects == {e \in Effects : ~Has(db, EffectId(e)) /\ \A s \in Sessions : EffectId(e) \notin DOMAIN txn[s].writes}

RecordFound(k) == Has(db, RecordId(k))

(* An attempt of the transaction; a write conflict makes it try again.     *)
Execute(s) ==
  /\ calls[s] # NoCall /\ ~txn[s].open
  /\ IF RecordFound(calls[s].key)
     THEN ResolveExisting(s) /\ UNCHANGED <<db, txn>>
     ELSE \E e \in FreshEffects :
            OpenTxn(s, OperationWrites(calls[s].key, calls[s].input, e)) /\ UNCHANGED <<calls, results>>

CommitWrite(s) ==
  /\ CommitTxn(s)
  /\ \E e \in Effects : EffectId(e) \in DOMAIN txn[s].writes /\ ToolAnswer(s, e)

(* A duplicate key: the record of the call that won is read outside the    *)
(* transaction.                                                            *)
CatchDuplicateKey(s) ==
  /\ calls[s] # NoCall /\ ~txn[s].open
  /\ IF RecordFound(calls[s].key) THEN ResolveExisting(s) ELSE RefuseKey(s)
  /\ UNCHANGED <<db, txn>>

(* The operation throws, or the connection is lost before the commit.      *)
Throw(s) ==
  /\ AbortTxn(s)
  /\ RefuseKey(s)

(* The TTL monitor deletes the record: the key is forgotten.               *)
ExpireRecord(k) ==
  /\ Has(db, RecordId(k))
  /\ db' = Restrict(db, {id \in DOMAIN db : id # RecordId(k) /\ id # EffectId(db[RecordId(k)].result)})
  /\ results' = [results EXCEPT ![k] = {}]
  /\ UNCHANGED <<txn, calls>>

IdempotencyNext ==
  \/ \E s \in Sessions : Ask(s) \/ Execute(s) \/ CommitWrite(s) \/ CatchDuplicateKey(s) \/ Throw(s)
  \/ \E k \in Keys : ExpireRecord(k)

IdempotencySpec == IdempotencyInit /\ [][IdempotencyNext]_idempotencyVars
-----------------------------------------------------------------------------
Present == {e \in Effects : Has(db, EffectId(e))}

(* The types of the variables, and: a record and what it stands for appear *)
(* together.                                                               *)
IdempotencyTypeOK ==
  /\ \A s \in Sessions : calls[s] \in Call \cup {NoCall}
  /\ \A k \in Keys : Has(db, RecordId(k)) => db[RecordId(k)].result \in Present
  /\ \A e \in Present : Has(db, RecordId(db[EffectId(e)].key))

(* However often a key is used, at one time or later, its operation takes  *)
(* effect once while its record lives.                                     *)
EffectOnce ==
  \A d, e \in Present : db[EffectId(d)].key = db[EffectId(e)].key => d = e

(* All calls with one key that succeed are answered with the result of the *)
(* one operation, and none that asked for something else is.               *)
AnswersAgree ==
  \A k \in Keys : \A r \in results[k] :
    EffectId(r[2]) \in DOMAIN db /\ db[EffectId(r[2])] = [key |-> k, input |-> r[1]]

(* A client that repeats a call with the same key has called once.         *)
CalledOnce == EffectOnce /\ AnswersAgree

=============================================================================
