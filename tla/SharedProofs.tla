---------------------------- MODULE SharedProofs ----------------------------
(***************************************************************************)
(* What several proofs need: ranks and extremes in finite sets, quotients  *)
(* and sums, and what the components that use Transactions need of it.     *)
(* That is what a change does to the documents, which kinds of documents a *)
(* step writes, and what each step on a transaction leaves of the others.  *)
(* A transaction that is still open after a commit shares no written       *)
(* document with it, so whatever relates its writes to the documents it    *)
(* writes is not disturbed.                                                *)
(***************************************************************************)
EXTENDS Naturals, FiniteSetsExt, Transactions, FiniteSetTheorems,
        WellFoundedInduction, TLAPS

-----------------------------------------------------------------------------
(* RANKS                                                                   *)

(* In a finite set with a total order, where below[p] are the elements     *)
(* before p, the elements with fewer than k others before them are k, or   *)
(* all of them.                                                            *)
LEMMA FirstElements ==
  ASSUME NEW S, IsFiniteSet(S), NEW k \in Nat, NEW below,
         \A p \in S : below[p] \subseteq S /\ p \notin below[p],
         \A p, q \in S : p # q => p \in below[q] \/ q \in below[p],
         \A p, q \in S : p \in below[q] => below[p] \subseteq below[q]
  PROVE  LET T == {p \in S : Cardinality(below[p]) < k}
         IN  T = S \/ Cardinality(T) = k
<1>. DEFINE n == Cardinality(S)
            T == {p \in S : Cardinality(below[p]) < k}
            rank == [p \in S |-> Cardinality(below[p])]
<1>1. n \in Nat
  BY FS_CardinalityType
<1>2. \A p \in S : IsFiniteSet(below[p]) /\ Cardinality(below[p]) \in Nat
  BY FS_Subset, FS_CardinalityType
<1>3. ASSUME NEW p \in S, NEW q \in S, p \in below[q]
      PROVE  Cardinality(below[p]) < Cardinality(below[q])
  <2>1. below[p] \subseteq below[q] /\ below[p] # below[q]
    BY <1>3
  <2>2. Cardinality(below[p]) <= Cardinality(below[q])
        /\ Cardinality(below[p]) # Cardinality(below[q])
    BY <1>2, <2>1, FS_Subset
  <2>. QED
    BY <1>2, <2>2
<1>4. \A p \in S : Cardinality(below[p]) < n
  <2>. TAKE p \in S
  <2>1. below[p] \in SUBSET S /\ below[p] # S
    OBVIOUS
  <2>2. Cardinality(below[p]) <= n /\ Cardinality(below[p]) # n
    BY <2>1, FS_Subset
  <2>. QED
    BY <1>1, <1>2, <2>2
<1>5. rank \in Injection(S, 0..(n - 1))
  <2>1. rank \in [S -> 0..(n - 1)]
    BY <1>1, <1>2, <1>4
  <2>2. \A p, q \in S : rank[p] = rank[q] => p = q
    BY <1>2, <1>3
  <2>. QED
    BY <2>1, <2>2 DEF Injection, IsInjective
<1>6. IsFiniteSet(0..(n - 1)) /\ Cardinality(0..(n - 1)) = n
  BY <1>1, FS_Interval
<1>7. rank \in Surjection(S, 0..(n - 1))
  BY <1>5, <1>6, FS_Injection
<1>8. CASE k > n
  <2>1. \A p \in S : Cardinality(below[p]) < k
    BY <1>1, <1>2, <1>4, <1>8
  <2>. QED
    BY <2>1
<1>9. CASE k <= n
  <2>. DEFINE f == [p \in T |-> Cardinality(below[p])]
  <2>1. f \in [T -> 0..(k - 1)]
    BY <1>2
  <2>2. \A p, q \in T : f[p] = f[q] => p = q
    BY <1>2, <1>3
  <2>3. \A m \in 0..(k - 1) : \E p \in T : f[p] = m
    <3>. TAKE m \in 0..(k - 1)
    <3>1. m \in 0..(n - 1)
      BY <1>1, <1>9
    <3>2. PICK p \in S : rank[p] = m
      BY <1>7, <3>1 DEF Surjection
    <3>3. p \in T /\ f[p] = m
      BY <3>2
    <3>. QED
      BY <3>3
  <2>4. f \in Injection(T, 0..(k - 1)) /\ f \in Surjection(T, 0..(k - 1))
    BY <2>1, <2>2, <2>3 DEF Injection, IsInjective, Surjection
  <2>5. IsFiniteSet(0..(k - 1)) /\ Cardinality(0..(k - 1)) = k
    BY FS_Interval
  <2>6. Cardinality(T) = Cardinality(0..(k - 1))
    BY <2>4, <2>5, FS_Injection
  <2>. QED
    BY <2>5, <2>6
<1>. QED
  BY <1>1, <1>8, <1>9

(* Of the natural numbers only zero is below one.                          *)
LEMMA BelowOne == 0 # 1 /\ \A n \in Nat : n < 1 => n = 0
OBVIOUS

(* A finite set with a total order has an element that none is before.     *)
LEMMA FirstElement ==
  ASSUME NEW S, IsFiniteSet(S), S # {}, NEW below,
         \A p \in S : below[p] \subseteq S /\ p \notin below[p],
         \A p, q \in S : p # q => p \in below[q] \/ q \in below[p],
         \A p, q \in S : p \in below[q] => below[p] \subseteq below[q]
  PROVE  \E p \in S : below[p] = {}
<1>1. LET T == {p \in S : Cardinality(below[p]) < 1}
      IN  T = S \/ Cardinality(T) = 1
  BY FirstElements
<1>2. {p \in S : Cardinality(below[p]) < 1} # {}
  BY <1>1, BelowOne, FS_EmptySet, ZenonT(60)
<1>3. PICK p \in S : Cardinality(below[p]) < 1
  BY <1>2
<1>4. IsFiniteSet(below[p]) /\ Cardinality(below[p]) \in Nat
  BY FS_Subset, FS_CardinalityType
<1>. QED
  BY <1>3, <1>4, BelowOne, FS_EmptySet, ZenonT(60)

(* A set of numbers that is not empty has a least one ...                  *)
LEMMA LeastNumber ==
  ASSUME NEW T \in SUBSET Nat, T # {}
  PROVE  \E m \in T : \A n \in T : m <= n
<1>. DEFINE R == {ss \in Nat \X Nat : ss[1] < ss[2]}
<1>1. IsWellFoundedOn(R, Nat)
  BY NatLessThanWellFounded DEF OpToRel
<1>2. \A m, n \in Nat : m < n => <<m, n>> \in R
  OBVIOUS
<1>. HIDE DEF R
<1>3. PICK m \in T : \A n \in T : ~(<<n, m>> \in R)
  BY <1>1, WFMin
<1>4. \A n \in T : ~(n < m)
  BY <1>2, <1>3
<1>. QED
  BY <1>4

(* ... and a greatest one, if it is finite.                                *)
LEMMA GreatestElement ==
  ASSUME NEW S \in SUBSET Nat, IsFiniteSet(S), S # {}
  PROVE  \E x \in S : \A y \in S : x >= y
<1>. DEFINE below == [p \in S |-> {y \in S : y > p}]
<1>1. \A p \in S : below[p] \subseteq S /\ p \notin below[p]
  OBVIOUS
<1>2. \A p, q \in S : p # q => p \in below[q] \/ q \in below[p]
  OBVIOUS
<1>3. \A p, q \in S : p \in below[q] => below[p] \subseteq below[q]
  <2>. TAKE p, q \in S
  <2>. HAVE p \in below[q]
  <2>1. p > q
    OBVIOUS
  <2>2. \A y \in below[p] : y \in S /\ y > p
    OBVIOUS
  <2>3. \A y \in below[p] : y > q
    BY <2>1, <2>2
  <2>. QED
    BY <2>2, <2>3
<1>4. \E x \in S : below[x] = {}
  <2>. HIDE DEF below
  <2>. QED
    BY <1>1, <1>2, <1>3, FirstElement
<1>5. PICK x \in S : below[x] = {}
  BY <1>4
<1>6. \A y \in S : y \in Nat /\ x \in Nat /\ ~(y > x)
  BY <1>5
<1>. QED
  BY <1>6

LEMMA Extremes ==
  ASSUME NEW S \in SUBSET Nat, IsFiniteSet(S), S # {}
  PROVE  /\ Min(S) \in S /\ \A x \in S : Min(S) <= x
         /\ Max(S) \in S /\ \A x \in S : x <= Max(S)
<1>1. \E x \in S : \A y \in S : x <= y
  BY LeastNumber
<1>2. \E x \in S : \A y \in S : x >= y
  BY GreatestElement
<1>. QED
  BY <1>1, <1>2 DEF Min, Max

-----------------------------------------------------------------------------
(* TRANSACTIONS                                                            *)

(* Applying changes keeps every document and overwrites what they mention. *)
LEMMA ApplyFacts ==
  ASSUME NEW d, NEW w
  PROVE  /\ \A id : Has(Apply(d, w), id) <=> Has(d, id) \/ Has(w, id)
         /\ \A id : Has(w, id) => Apply(d, w)[id] = w[id]
         /\ \A id : Has(d, id) /\ ~Has(w, id) => Apply(d, w)[id] = d[id]
BY DEF Has, Apply

(* The changes with one document, and those with none.                     *)
LEMMA OneDocument ==
  ASSUME NEW id, NEW document
  PROVE  /\ \A x : Has(Put(id, document), x) <=> x = id
         /\ Put(id, document)[id] = document
BY DEF Has, Put

LEMMA TwoDocuments ==
  ASSUME NEW id, NEW document, NEW other, NEW otherDocument, id # other
  PROVE  LET w == Apply(Put(id, document), Put(other, otherDocument))
         IN  /\ \A x : Has(w, x) <=> x = id \/ x = other
             /\ w[id] = document /\ w[other] = otherDocument
BY ApplyFacts, OneDocument

LEMMA NoDocument == \A id : ~Has(<<>>, id)
BY DEF Has

(* Two sets of changes that write no document in common.                   *)
Apart(w, c) == \A id : ~(Has(w, id) /\ Has(c, id))

(* Every session has a transaction, open or not.                           *)
TxnShape ==
  /\ DOMAIN txn = Sessions
  /\ \A s \in Sessions : txn[s] = [open |-> txn[s].open, writes |-> txn[s].writes]

(* At first no transaction is open.                                        *)
LEMMA NoneOpen ==
  ASSUME txn = [s \in Sessions |-> NoTxn]
  PROVE  TxnShape /\ \A s \in Sessions : ~txn[s].open
BY DEF NoTxn, TxnShape

(* The transactions that are open after a step were so before, with the    *)
(* same writes, but for the one that begins.                               *)
LEMMA OpenEffect ==
  ASSUME TxnShape, NEW s \in Sessions, NEW w, OpenTxn(s, w)
  PROVE  /\ db' = db
         /\ TxnShape'
         /\ \A u \in Sessions : txn'[u].open =>
              \/ txn'[u].writes = w
              \/ txn[u].open /\ txn'[u].writes = txn[u].writes
BY DEF OpenTxn, TxnShape

LEMMA AbortEffect ==
  ASSUME TxnShape, NEW s \in Sessions, AbortTxn(s)
  PROVE  /\ db' = db
         /\ TxnShape'
         /\ \A u \in Sessions : txn'[u].open =>
              txn[u].open /\ txn'[u].writes = txn[u].writes
BY DEF AbortTxn, NoTxn, TxnShape

(* Those that survive a commit write nothing that it writes.               *)
LEMMA CommitEffect ==
  ASSUME TxnShape, NEW s \in Sessions, CommitTxn(s)
  PROVE  /\ txn[s].open
         /\ db' = Apply(db, txn[s].writes)
         /\ TxnShape'
         /\ \A u \in Sessions : txn'[u].open =>
              /\ txn[u].open /\ txn'[u].writes = txn[u].writes
              /\ Apart(txn[u].writes, txn[s].writes)
<1>1. ASSUME NEW u \in Sessions, txn'[u].open
      PROVE  /\ txn[u].open /\ txn'[u].writes = txn[u].writes
             /\ Apart(txn[u].writes, txn[s].writes)
  <2>1. txn'[u] # NoTxn
    BY <1>1 DEF NoTxn
  <2>2. ~Conflict(txn[u], txn[s]) /\ txn'[u] = txn[u]
    BY <2>1 DEF CommitTxn
  <2>. QED
    BY <1>1, <2>2 DEF Conflict, Apart, Has
<1>. QED
  BY <1>1 DEF CommitTxn, NoTxn, TxnShape

LEMMA AloneEffect ==
  ASSUME TxnShape, NEW w, WriteAlone(w)
  PROVE  /\ db' = Apply(db, w)
         /\ TxnShape'
         /\ \A u \in Sessions : txn'[u].open =>
              /\ txn[u].open /\ txn'[u].writes = txn[u].writes
              /\ Apart(txn[u].writes, w)
<1>1. ASSUME NEW u \in Sessions, txn'[u].open
      PROVE  /\ txn[u].open /\ txn'[u].writes = txn[u].writes
             /\ Apart(txn[u].writes, w)
  <2>1. txn'[u] # NoTxn
    BY <1>1 DEF NoTxn
  <2>2. DOMAIN txn[u].writes \cap DOMAIN w = {} /\ txn'[u] = txn[u]
    BY <2>1 DEF WriteAlone
  <2>. QED
    BY <1>1, <2>2 DEF Apart, Has
<1>. QED
  BY <1>1 DEF WriteAlone, NoTxn, TxnShape

-----------------------------------------------------------------------------
(* WHO WRITES WHICH DOCUMENTS                                              *)

(* Writes w, all open transactions, or what differs in documents e from    *)
(* those in d, are of kinds K.                                             *)
Only(w, K) == \A id : Has(w, id) => id[1] \in K

WritesOnly(K) == \A s \in Sessions : txn[s].open => Only(txn[s].writes, K)

SameBut(d, e, K) ==
  \A id : id[1] \notin K => (Has(e, id) <=> Has(d, id)) /\ (Has(d, id) => e[id] = d[id])

(* A step writes, and has transactions about to write, such documents.     *)
TouchesOnly(K) == WritesOnly(K)' /\ SameBut(db, db', K)

LEMMA OnlyFacts ==
  ASSUME NEW K
  PROVE  /\ \A id, v : id[1] \in K => Only(Put(id, v), K)
         /\ \A v, w : Only(v, K) /\ Only(w, K) => Only(Apply(v, w), K)
         /\ Only(<<>>, K)
<1>1. \A id, v : id[1] \in K => Only(Put(id, v), K)
  BY DEF Only, Put, Has
<1>2. \A v, w : Only(v, K) /\ Only(w, K) => Only(Apply(v, w), K)
  BY DEF Only, Apply, Has
<1>3. Only(<<>>, K)
  BY DEF Only, Has
<1>. QED
  BY <1>1, <1>2, <1>3

LEMMA RestTouches ==
  ASSUME NEW K, WritesOnly(K), UNCHANGED <<db, txn>>
  PROVE  TouchesOnly(K)
BY DEF TouchesOnly, WritesOnly, SameBut

LEMMA OpenTouches ==
  ASSUME NEW K, TxnShape, WritesOnly(K), NEW s \in Sessions, NEW w, OpenTxn(s, w), Only(w, K)
  PROVE  TouchesOnly(K)
<1>1. WritesOnly(K)'
  BY OpenEffect DEF WritesOnly
<1>. QED
  BY <1>1, OpenEffect DEF TouchesOnly, SameBut

LEMMA AbortTouches ==
  ASSUME NEW K, TxnShape, WritesOnly(K), NEW s \in Sessions, AbortTxn(s)
  PROVE  TouchesOnly(K)
<1>1. WritesOnly(K)'
  BY AbortEffect DEF WritesOnly
<1>. QED
  BY <1>1, AbortEffect DEF TouchesOnly, SameBut

LEMMA ApplyTouches ==
  ASSUME NEW K, NEW d, NEW w, Only(w, K)
  PROVE  SameBut(d, Apply(d, w), K)
BY ApplyFacts DEF Only, SameBut

LEMMA CommitTouches ==
  ASSUME NEW K, TxnShape, WritesOnly(K), NEW s \in Sessions, CommitTxn(s)
  PROVE  TouchesOnly(K)
<1>1. WritesOnly(K)'
  BY CommitEffect DEF WritesOnly
<1>2. Only(txn[s].writes, K) /\ db' = Apply(db, txn[s].writes)
  BY CommitEffect DEF WritesOnly
<1>3. SameBut(db, Apply(db, txn[s].writes), K)
  <2>. DEFINE w == txn[s].writes
  <2>1. Only(w, K)
    BY <1>2
  <2>. HIDE DEF w
  <2>2. \A id : id[1] \notin K => /\ Has(Apply(db, w), id) <=> Has(db, id)
                                  /\ Has(db, id) => Apply(db, w)[id] = db[id]
    BY <2>1, ApplyFacts DEF Only
  <2>. QED
    BY <2>2 DEF SameBut, w
<1>. QED
  BY <1>1, <1>2, <1>3 DEF TouchesOnly

LEMMA AloneTouches ==
  ASSUME NEW K, TxnShape, WritesOnly(K), NEW w, WriteAlone(w), Only(w, K)
  PROVE  TouchesOnly(K)
<1>1. WritesOnly(K)'
  BY AloneEffect DEF WritesOnly
<1>2. db' = Apply(db, w)
  BY AloneEffect
<1>. QED
  BY <1>1, <1>2, ApplyTouches DEF TouchesOnly

-----------------------------------------------------------------------------
(* NUMBERS                                                                 *)

(* A set of numbers that are bounded has a greatest one, and quotients are *)
(* ordered as the numbers are.                                             *)
LEMMA LargestNumber ==
  ASSUME NEW k \in Nat, NEW T \in SUBSET (1..k), T # {}
  PROVE  Max(T) \in T /\ \A n \in T : Max(T) >= n
<1>1. IsFiniteSet(1..k) /\ 1 \in Int
  BY FS_Interval
<1>2. IsFiniteSet(T)
  BY <1>1, FS_Subset
<1>3. T \in SUBSET Nat
  OBVIOUS
<1>. QED
  BY <1>2, <1>3, Extremes, SMTT(30)

LEMMA QuotientBounds ==
  ASSUME NEW a \in Int, NEW b \in Nat \ {0}
  PROVE  /\ a \div b \in Int
         /\ (a \div b) * b \in Int
         /\ (a \div b) * b <= a /\ a < (a \div b) * b + b
         /\ a >= 0 => a \div b \in Nat
OBVIOUS

LEMMA QuotientGrows ==
  ASSUME NEW a \in Int, NEW c \in Int, a <= c, NEW b \in Nat \ {0}
  PROVE  a \div b <= c \div b
OBVIOUS

LEMMA QuotientAdds ==
  ASSUME NEW a \in Int, NEW b \in Nat \ {0}, NEW r \in Int
  PROVE  (a + r * b) \div b = a \div b + r
OBVIOUS

LEMMA QuotientsOrdered ==
  ASSUME NEW b \in Nat \ {0}
  PROVE  \A t, u \in Nat : t \div b \in Nat /\ (t <= u => t \div b <= u \div b)
<1>. SUFFICES ASSUME NEW t \in Nat, NEW u \in Nat
              PROVE  t \div b \in Nat /\ (t <= u => t \div b <= u \div b)
  OBVIOUS
<1>1. t \in Int /\ u \in Int /\ t >= 0
  OBVIOUS
<1>2. t \div b \in Nat
  BY <1>1, QuotientBounds
<1>3. t <= u => t \div b <= u \div b
  BY <1>1, QuotientGrows
<1>. QED
  BY <1>2, <1>3

-----------------------------------------------------------------------------
(* SUMS                                                                    *)

(* The sum of the values of a function.                                    *)
SumOf(f, S) == MapThenSumSet(LAMBDA x : f[x], S)

Picked(s) == CHOOSE x \in s : TRUE

AddsUp(f, U, g) ==
  g = [s \in SUBSET U |-> IF s = {} THEN 0 ELSE f[Picked(s)] + g[s \ {Picked(s)}]]

LEMMA SumIsChosen ==
  ASSUME NEW f, NEW S, \E g : AddsUp(f, S, g)
  PROVE  \E g : AddsUp(f, S, g) /\ SumOf(f, S) = g[S]
<1>. DEFINE iter == CHOOSE g : AddsUp(f, S, g)
<1>1. AddsUp(f, S, iter)
  OBVIOUS
<1>2. SumOf(f, S) = iter[S]
  BY DEF SumOf, MapThenSumSet, MapThenFoldSet, AddsUp, Picked
<1>. QED
  BY <1>1, <1>2

(* Induction over the subsets of a finite set.                             *)
LEMMA SubsetInduction ==
  ASSUME NEW U, IsFiniteSet(U), NEW Good,
         \A s \in SUBSET U : (\A x \in s : s \ {x} \in Good) => s \in Good
  PROVE  \A s \in SUBSET U : s \in Good
<1>. SUFFICES ASSUME NEW t \in SUBSET U, t \notin Good
              PROVE  FALSE
  OBVIOUS
<1>. DEFINE Sizes == {n \in Nat : \E s \in SUBSET U : s \notin Good /\ Cardinality(s) = n}
<1>1. \A s \in SUBSET U : IsFiniteSet(s) /\ Cardinality(s) \in Nat
  BY FS_Subset, FS_CardinalityType
<1>2. Cardinality(t) \in Sizes
  BY <1>1
<1>3. PICK m \in Sizes : \A n \in Sizes : m <= n
  BY <1>2, LeastNumber
<1>4. PICK s \in SUBSET U : s \notin Good /\ Cardinality(s) = m
  OBVIOUS
<1>5. ASSUME NEW x \in s
      PROVE  s \ {x} \in Good
  <2>1. Cardinality(s \ {x}) = m - 1 /\ m \in Nat
    BY <1>1, <1>4, FS_RemoveElement
  <2>2. Cardinality(s \ {x}) \in Nat
    BY <1>1
  <2>. QED
    BY <1>3, <2>1, <2>2
<1>. QED
  BY <1>4, <1>5

LEMMA SumExists ==
  ASSUME NEW f, NEW S, IsFiniteSet(S)
  PROVE  \E g : AddsUp(f, S, g)
<1>. DEFINE NextOf(g, s) == IF s = {} THEN 0 ELSE f[Picked(s)] + g[s \ {Picked(s)}]
            Upto(g, n) == \A s \in SUBSET S : Cardinality(s) <= n => g[s] = NextOf(g, s)
            Bad == {n \in Nat : ~\E g : Upto(g, n)}
<1>1. \A s \in SUBSET S : IsFiniteSet(s) /\ Cardinality(s) \in Nat /\ Cardinality(s) <= Cardinality(S)
  BY FS_Subset, FS_CardinalityType
<1>2. \A s \in SUBSET S : s # {} =>
        /\ Picked(s) \in s /\ s \ {Picked(s)} \in SUBSET S
        /\ Cardinality(s \ {Picked(s)}) = Cardinality(s) - 1
  BY <1>1, FS_RemoveElement DEF Picked
<1>3. Cardinality(S) \notin Bad
  <2>. SUFFICES ASSUME Cardinality(S) \in Bad
                PROVE  FALSE
    OBVIOUS
  <2>1. PICK m \in Bad : \A n \in Bad : m <= n
    BY LeastNumber
  <2>2. CASE m = 0
    <3>. DEFINE g == [s \in SUBSET S |-> 0]
    <3>1. Upto(g, 0)
      BY <1>1, FS_EmptySet
    <3>. QED
      BY <2>2, <3>1
  <2>3. CASE m # 0
    <3>1. m - 1 \in Nat /\ m - 1 \notin Bad
      <4>1. m \in Nat
        OBVIOUS
      <4>. HIDE DEF Bad
      <4>. QED
        BY <2>1, <2>3, <4>1
    <3>2. PICK g : Upto(g, m - 1)
      BY <3>1
    <3>. DEFINE h == [s \in SUBSET S |-> IF Cardinality(s) = m THEN NextOf(g, s) ELSE g[s]]
    <3>3. ASSUME NEW s \in SUBSET S, Cardinality(s) <= m
          PROVE  h[s] = NextOf(h, s)
      <4>1. s # {} => h[s \ {Picked(s)}] = g[s \ {Picked(s)}]
        BY <1>1, <1>2, <3>3
      <4>2. h[s] = NextOf(g, s)
        BY <1>1, <3>1, <3>2, <3>3
      <4>. QED
        BY <4>1, <4>2
    <3>. HIDE DEF h
    <3>4. Upto(h, m)
      BY <3>3
    <3>. QED
      BY <3>4
  <2>. QED
    BY <2>2, <2>3
<1>4. PICK g : Upto(g, Cardinality(S))
  BY <1>1, <1>3
<1>. DEFINE h == [s \in SUBSET S |-> g[s]]
<1>5. \A s \in SUBSET S : h[s] = NextOf(h, s)
  BY <1>1, <1>2, <1>4
<1>6. h = [s \in SUBSET S |-> NextOf(h, s)]
  BY <1>5
<1>. QED
  BY <1>6 DEF AddsUp

(* Such a function is a sum in whatever order its elements are taken, and  *)
(* depends on nothing but their values.                                    *)
LEMMA SumTypes ==
  ASSUME NEW f, NEW S, IsFiniteSet(S), \A x \in S : f[x] \in Int,
         NEW g, AddsUp(f, S, g)
  PROVE  \A s \in SUBSET S : g[s] \in Int
<1>. DEFINE Good == {s \in SUBSET S : g[s] \in Int}
<1>1. ASSUME NEW s \in SUBSET S, \A x \in s : s \ {x} \in Good
      PROVE  s \in Good
  <2>1. g[s] = IF s = {} THEN 0 ELSE f[Picked(s)] + g[s \ {Picked(s)}]
    BY DEF AddsUp
  <2>2. CASE s = {}
    BY <2>1, <2>2
  <2>3. CASE s # {}
    <3>1. Picked(s) \in s
      BY <2>3 DEF Picked
    <3>2. f[Picked(s)] \in Int /\ g[s \ {Picked(s)}] \in Int
      BY <1>1, <3>1
    <3>. QED
      BY <2>1, <2>3, <3>2
  <2>. QED
    BY <2>2, <2>3
<1>. HIDE DEF Good
<1>2. \A s \in SUBSET S : s \in Good
  BY <1>1, SubsetInduction
<1>. QED
  BY <1>2 DEF Good

LEMMA SumOrder ==
  ASSUME NEW f, NEW S, IsFiniteSet(S), \A x \in S : f[x] \in Int,
         NEW g, AddsUp(f, S, g)
  PROVE  \A s \in SUBSET S : \A y \in s : g[s] = f[y] + g[s \ {y}]
<1>. DEFINE Good == {s \in SUBSET S : \A y \in s : g[s] = f[y] + g[s \ {y}]}
<1>1. \A s \in SUBSET S : s \in Good <=> \A y \in s : g[s] = f[y] + g[s \ {y}]
  OBVIOUS
<1>2. \A s \in SUBSET S : g[s] \in Int
  BY SumTypes
<1>. HIDE DEF Good
<1>3. ASSUME NEW s \in SUBSET S, \A x \in s : s \ {x} \in Good
      PROVE  s \in Good
  <2>1. SUFFICES ASSUME NEW y \in s
                 PROVE  g[s] = f[y] + g[s \ {y}]
    BY <1>1
  <2>. DEFINE p == Picked(s)
  <2>2. p \in s
    BY DEF Picked
  <2>3. g[s] = f[p] + g[s \ {p}]
    BY DEF AddsUp
  <2>. HIDE DEF p
  <2>4. CASE y = p
    BY <2>3, <2>4
  <2>5. CASE y # p
    <3>. DEFINE t == (s \ {p}) \ {y}
    <3>1. /\ s \ {p} \in SUBSET S /\ s \ {y} \in SUBSET S /\ t \in SUBSET S
          /\ y \in s \ {p} /\ p \in s \ {y} /\ (s \ {y}) \ {p} = t
      BY <2>2, <2>5
    <3>2. g[s \ {p}] = f[y] + g[t]
      BY <1>1, <1>3, <2>2, <3>1
    <3>. HIDE DEF t
    <3>3. g[s \ {y}] = f[p] + g[t]
      BY <1>1, <1>3, <3>1
    <3>4. g[t] \in Int /\ f[y] \in Int /\ f[p] \in Int
      BY <1>2, <2>2, <3>1
    <3>. QED
      BY <2>3, <3>2, <3>3, <3>4
  <2>. QED
    BY <2>4, <2>5
<1>4. \A s \in SUBSET S : s \in Good
  BY <1>3, SubsetInduction
<1>. QED
  BY <1>1, <1>4

LEMMA SumUnique ==
  ASSUME NEW f, NEW S, NEW g, AddsUp(f, S, g),
         NEW e, NEW T, NEW h, AddsUp(e, T, h),
         NEW U \in SUBSET (S \cap T), IsFiniteSet(U), \A x \in U : f[x] = e[x]
  PROVE  g[U] = h[U]
<1>. DEFINE Good == {s \in SUBSET U : g[s] = h[s]}
<1>1. ASSUME NEW s \in SUBSET U, \A x \in s : s \ {x} \in Good
      PROVE  s \in Good
  <2>1. /\ g[s] = IF s = {} THEN 0 ELSE f[Picked(s)] + g[s \ {Picked(s)}]
        /\ h[s] = IF s = {} THEN 0 ELSE e[Picked(s)] + h[s \ {Picked(s)}]
    BY DEF AddsUp
  <2>2. s # {} => Picked(s) \in s
    BY DEF Picked
  <2>. QED
    BY <1>1, <2>1, <2>2
<1>. HIDE DEF Good
<1>2. U \in Good
  BY <1>1, SubsetInduction
<1>. QED
  BY <1>2 DEF Good

LEMMA SumOfNone == \A f : SumOf(f, {}) = 0
<1>. SUFFICES ASSUME NEW f
              PROVE  SumOf(f, {}) = 0
  OBVIOUS
<1>1. PICK g : AddsUp(f, {}, g) /\ SumOf(f, {}) = g[{}]
  BY SumExists, SumIsChosen, FS_EmptySet
<1>. QED
  BY <1>1 DEF AddsUp

LEMMA SumIsInt ==
  ASSUME NEW f, NEW S, IsFiniteSet(S), \A x \in S : f[x] \in Int
  PROVE  SumOf(f, S) \in Int
BY SumExists, SumIsChosen, SumTypes

LEMMA SumOfZeros ==
  ASSUME NEW f, NEW S, IsFiniteSet(S), \A x \in S : f[x] = 0
  PROVE  SumOf(f, S) = 0
<1>1. PICK g : AddsUp(f, S, g) /\ SumOf(f, S) = g[S]
  BY SumExists, SumIsChosen
<1>. DEFINE Good == {s \in SUBSET S : g[s] = 0}
<1>2. ASSUME NEW s \in SUBSET S, \A x \in s : s \ {x} \in Good
      PROVE  s \in Good
  <2>1. g[s] = IF s = {} THEN 0 ELSE f[Picked(s)] + g[s \ {Picked(s)}]
    BY <1>1 DEF AddsUp
  <2>2. s # {} => Picked(s) \in s
    BY DEF Picked
  <2>3. g[s] = 0
    BY <1>2, <2>1, <2>2
  <2>. QED
    BY <2>3
<1>. HIDE DEF Good
<1>3. \A s \in SUBSET S : s \in Good
  BY <1>2, SubsetInduction
<1>4. S \in Good
  BY <1>3
<1>. QED
  BY <1>1, <1>4 DEF Good

LEMMA SumAgrees ==
  ASSUME NEW f, NEW e, NEW S, IsFiniteSet(S), \A x \in S : f[x] = e[x]
  PROVE  SumOf(f, S) = SumOf(e, S)
<1>1. PICK g : AddsUp(f, S, g) /\ SumOf(f, S) = g[S]
  BY SumExists, SumIsChosen
<1>2. PICK h : AddsUp(e, S, h) /\ SumOf(e, S) = h[S]
  BY SumExists, SumIsChosen
<1>. QED
  BY <1>1, <1>2, SumUnique

LEMMA SumAdds ==
  ASSUME NEW f, NEW S, IsFiniteSet(S), NEW y, y \notin S,
         \A x \in S \cup {y} : f[x] \in Int
  PROVE  SumOf(f, S \cup {y}) = SumOf(f, S) + f[y]
<1>. DEFINE T == S \cup {y}
<1>1. IsFiniteSet(T) /\ \A x \in T : f[x] \in Int
  BY FS_AddElement
<1>2. PICK g : AddsUp(f, S, g) /\ SumOf(f, S) = g[S]
  BY SumExists, SumIsChosen
<1>3. PICK h : AddsUp(f, T, h) /\ SumOf(f, T) = h[T]
  BY <1>1, SumExists, SumIsChosen
<1>4. T \ {y} = S /\ y \in T
  OBVIOUS
<1>. HIDE DEF T
<1>5. h[T] = f[y] + h[S]
  BY <1>1, <1>3, <1>4, SumOrder
<1>7. h[S] \in Int /\ f[y] \in Int
  BY <1>1, <1>3, <1>4, SumTypes
<1>6. h[S] = g[S]
  BY <1>2, <1>3, <1>4, SumUnique
<1>. QED
  BY <1>2, <1>3, <1>5, <1>6, <1>7 DEF T

(* One value changes.                                                      *)
LEMMA SumChanges ==
  ASSUME NEW f, NEW e, NEW S, IsFiniteSet(S), NEW y \in S,
         \A x \in S : f[x] \in Int /\ e[x] \in Int,
         \A x \in S : x # y => e[x] = f[x]
  PROVE  SumOf(e, S) = SumOf(f, S) + (e[y] - f[y])
<1>. DEFINE T == S \ {y}
<1>1. IsFiniteSet(T) /\ y \notin T /\ T \cup {y} = S
  BY FS_RemoveElement
<1>2. \A x \in T : f[x] = e[x]
  OBVIOUS
<1>. HIDE DEF T
<1>3. SumOf(f, S) = SumOf(f, T) + f[y] /\ SumOf(e, S) = SumOf(e, T) + e[y]
  BY <1>1, SumAdds
<1>4. SumOf(f, T) = SumOf(e, T) /\ SumOf(f, T) \in Int
  BY <1>1, <1>2, SumAgrees, SumIsInt
<1>. QED
  BY <1>3, <1>4

=============================================================================
