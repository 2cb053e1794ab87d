---------------------------- MODULE Transactions ----------------------------
(***************************************************************************)
(* MongoDB as DatabaseService.$transaction uses it: documents with ids,    *)
(* and transactions with snapshot isolation on a replica set.  A           *)
(* transaction reads from the snapshot it begins with, so its writes are   *)
(* settled then; it takes effect if none of the documents it writes has    *)
(* been written since, and what it has only read may be stale by then.     *)
(* The id of a document contains the key of a unique index, so that two    *)
(* transactions which insert the same key write the same id.               *)
(***************************************************************************)
CONSTANT Sessions   \* database sessions: transactions open at one time

VARIABLES
  db,               \* the documents that exist, by their id
  txn               \* txn[s]: the transaction open in session s

Has(d, id) == id \in DOMAIN d

(* Changes, a function from ids to documents, applied to documents d.      *)
Apply(d, changes) ==
  [id \in DOMAIN d \cup DOMAIN changes |->
     IF id \in DOMAIN changes THEN changes[id] ELSE d[id]]

Put(id, document) == [x \in {id} |-> document]

NoTxn == [open |-> FALSE, writes |-> <<>>]
NoTxns == txn = [s \in Sessions |-> NoTxn]

(* Two transactions write a document in common.                            *)
Conflict(t, u) == DOMAIN t.writes \cap DOMAIN u.writes # {}

(* Session s has run its reads and is going to commit these writes.        *)
OpenTxn(s, writes) ==
  /\ ~txn[s].open
  /\ txn' = [txn EXCEPT ![s] = [open |-> TRUE, writes |-> writes]]
  /\ UNCHANGED db

(* The writes take effect; a transaction that also writes one of these     *)
(* documents can only abort now, and does.                                 *)
CommitTxn(s) ==
  /\ txn[s].open
  /\ db' = Apply(db, txn[s].writes)
  /\ txn' = [u \in Sessions |->
               IF u = s \/ Conflict(txn[u], txn[s]) THEN NoTxn ELSE txn[u]]

(* A write outside any transaction, of what is there at that moment: a     *)
(* transaction that also writes one of these documents can only abort.     *)
WriteAlone(writes) ==
  /\ db' = Apply(db, writes)
  /\ txn' = [s \in Sessions |->
               IF DOMAIN txn[s].writes \cap DOMAIN writes # {} THEN NoTxn ELSE txn[s]]

(* A duplicate key, a lost connection, an error of the operation itself.   *)
AbortTxn(s) ==
  /\ txn[s].open
  /\ txn' = [txn EXCEPT ![s] = NoTxn]
  /\ UNCHANGED db

=============================================================================
